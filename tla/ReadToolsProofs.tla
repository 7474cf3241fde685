--------------------------- MODULE ReadToolsProofs --------------------------
(***************************************************************************)
(* Proofs about ReadTools: what a client that follows nextCursor through a *)
(* listing gets, for any finite set of ids, any rows, filters and limits,  *)
(* while the mirror changes between its calls.                             *)
(***************************************************************************)
EXTENDS ReadTools, FiniteSetTheorems, SequenceTheorems, TLAPS

Mirror == [Id -> Txn \cup {None}]

(***************************************************************************)
(* The listing.  The rows ahead of a hit number its rank, and the ranks of *)
(* the hits are 0, 1, ... without a gap: the CHOOSE of Listing finds one   *)
(* hit for every place, and every hit has its place.                       *)
(***************************************************************************)
Hits(m, q)     == {i \in Id : Hit(m, q, i)}
Ahead(m, q, i) == {j \in Hits(m, q) : Before(m, j, i)}
Rank(m, q, i)  == Cardinality(Ahead(m, q, i))

LEMMA HitFacts ==
  ASSUME NEW m \in Mirror, NEW q, NEW i \in Hits(m, q)
  PROVE  i \in Nat /\ m[i].posted \in Nat
<1>1. m[i] \in Txn
  BY DEF Hits, Hit, Mirror
<1>2. m[i].posted \in {0} \cup DOMAIN Day
  BY <1>1, RowAssumption DEF TxnShape
<1>3. QED
  BY <1>2, IdAssumption, DayAssumption DEF Hits

LEMMA HitsFinite ==
  ASSUME NEW m, NEW q
  PROVE  /\ IsFiniteSet(Hits(m, q)) /\ Cardinality(Hits(m, q)) \in Nat
         /\ Cardinality(Hits(m, q)) <= Cardinality(Id)
<1>1. Hits(m, q) \in SUBSET Id
  BY DEF Hits
<1>2. QED
  BY <1>1, IdAssumption, FS_Subset, FS_CardinalityType

\* Before is a strict total order of the hits.
LEMMA BeforeOrders ==
  ASSUME NEW m \in Mirror, NEW q, NEW i \in Hits(m, q), NEW j \in Hits(m, q)
  PROVE  /\ ~Before(m, i, i)
         /\ i = j \/ Before(m, i, j) \/ Before(m, j, i)
         /\ \A k \in Hits(m, q) : Before(m, k, j) /\ Before(m, j, i) => Before(m, k, i)
<1>1. i \in Nat /\ j \in Nat /\ m[i].posted \in Nat /\ m[j].posted \in Nat
  BY HitFacts
<1>2. \A k \in Hits(m, q) : k \in Nat /\ m[k].posted \in Nat
  BY HitFacts
<1>3. QED
  BY <1>1, <1>2 DEF Before

LEMMA RankRange ==
  ASSUME NEW m \in Mirror, NEW q, NEW i \in Hits(m, q)
  PROVE  /\ IsFiniteSet(Ahead(m, q, i))
         /\ Rank(m, q, i) \in Nat /\ Rank(m, q, i) < Cardinality(Hits(m, q))
<1>1. Ahead(m, q, i) \in SUBSET Hits(m, q) /\ i \notin Ahead(m, q, i)
  BY BeforeOrders DEF Ahead
<1>2. /\ IsFiniteSet(Ahead(m, q, i)) /\ Cardinality(Ahead(m, q, i)) \in Nat
      /\ Cardinality(Ahead(m, q, i)) <= Cardinality(Hits(m, q))
      /\ Cardinality(Ahead(m, q, i)) # Cardinality(Hits(m, q))
  BY <1>1, HitsFinite, FS_Subset, FS_CardinalityType
<1>3. Cardinality(Hits(m, q)) \in Nat
  BY HitsFinite
<1>4. QED
  BY <1>2, <1>3 DEF Rank

LEMMA RankGrows ==
  ASSUME NEW m \in Mirror, NEW q, NEW i \in Hits(m, q), NEW j \in Hits(m, q), Before(m, j, i)
  PROVE  Rank(m, q, j) < Rank(m, q, i)
<1>1. /\ Ahead(m, q, j) \in SUBSET Ahead(m, q, i)
      /\ j \in Ahead(m, q, i) /\ j \notin Ahead(m, q, j)
  BY BeforeOrders DEF Ahead
<1>2. /\ Cardinality(Ahead(m, q, j)) <= Cardinality(Ahead(m, q, i))
      /\ Cardinality(Ahead(m, q, j)) # Cardinality(Ahead(m, q, i))
  BY <1>1, RankRange, FS_Subset
<1>3. Rank(m, q, j) \in Nat /\ Rank(m, q, i) \in Nat
  BY RankRange
<1>4. QED
  BY <1>2, <1>3 DEF Rank

LEMMA RankInjective ==
  ASSUME NEW m \in Mirror, NEW q, NEW i \in Hits(m, q), NEW j \in Hits(m, q),
         Rank(m, q, i) = Rank(m, q, j)
  PROVE  i = j
<1>1. Rank(m, q, i) \in Nat
  BY RankRange
<1>2. ~Before(m, i, j) /\ ~Before(m, j, i)
  BY <1>1, RankGrows
<1>3. QED
  BY <1>2, BeforeOrders

LEMMA RankCovers ==
  ASSUME NEW m \in Mirror, NEW q, NEW n \in 1 .. Cardinality(Hits(m, q))
  PROVE  \E i \in Hits(m, q) : Rank(m, q, i) = n - 1
<1> DEFINE H == Hits(m, q)
           N == Cardinality(H)
           f == [i \in H |-> Rank(m, q, i) + 1]
<1>1. N \in Nat /\ IsFiniteSet(H)
  BY HitsFinite
<1>2. IsFiniteSet(1 .. N) /\ Cardinality(1 .. N) = N
  BY <1>1, FS_Interval
<1>3. f \in [H -> 1 .. N]
  <2>1. ASSUME NEW i \in H PROVE Rank(m, q, i) + 1 \in 1 .. N
    <3>1. Rank(m, q, i) \in Nat /\ Rank(m, q, i) < N
      BY RankRange
    <3>2. QED
      BY <3>1, <1>1
  <2>2. QED
    BY <2>1
<1>4. \A i, j \in H : f[i] = f[j] => i = j
  <2> SUFFICES ASSUME NEW i \in H, NEW j \in H, f[i] = f[j] PROVE i = j
    OBVIOUS
  <2>1. Rank(m, q, i) \in Nat /\ Rank(m, q, j) \in Nat
    BY RankRange
  <2>2. Rank(m, q, i) = Rank(m, q, j)
    BY <2>1
  <2>3. QED
    BY <2>2, RankInjective
<1> HIDE DEF f
<1>5. f \in Injection(H, 1 .. N)
  BY <1>3, <1>4 DEF Injection, IsInjective
<1>6. f \in Surjection(H, 1 .. N)
  BY <1>1, <1>2, <1>5, FS_Injection
<1>7. PICK i \in H : f[i] = n
  BY <1>6 DEF Surjection
<1>8. Rank(m, q, i) + 1 = n /\ Rank(m, q, i) \in Nat
  BY <1>7, RankRange DEF f
<1>9. QED
  BY <1>8

\* The place of a row in the listing is one more than its rank.
LEMMA ListingFacts ==
  ASSUME NEW m \in Mirror, NEW q
  PROVE  /\ Listing(m, q) \in Seq(Id)
         /\ Len(Listing(m, q)) = Cardinality(Hits(m, q))
         /\ \A n \in 1 .. Len(Listing(m, q)) :
              /\ Listing(m, q)[n] \in Hits(m, q)
              /\ Rank(m, q, Listing(m, q)[n]) = n - 1
<1> DEFINE H == Hits(m, q)
           N == Cardinality(H)
           s == [n \in 1 .. N |-> CHOOSE i \in H : Rank(m, q, i) = n - 1]
<1>1. N \in Nat
  BY HitsFinite
<1>2. Listing(m, q) = s
  BY DEF Listing, Rank, Ahead, Hits
<1>3. ASSUME NEW n \in 1 .. N
      PROVE  s[n] \in H /\ Rank(m, q, s[n]) = n - 1
  BY RankCovers
<1>4. \A n \in 1 .. N : s[n] \in Id
  BY <1>3 DEF Hits
<1>5. s \in Seq(Id) /\ Len(s) = N
  BY <1>1, <1>4
<1>6. QED
  BY <1>2, <1>3, <1>5

-----------------------------------------------------------------------------
(***************************************************************************)
(* Pages.  A page takes the ranks from its offset on, one by one; the      *)
(* listing is used up where no rank is left.                               *)
(***************************************************************************)
LEMMA ClampNat == ASSUME NEW l \in Limit PROVE Clamp(l) \in Nat \ {0}
  BY PageAssumption DEF Clamp

LEMMA PageFacts ==
  ASSUME NEW s \in Seq(Id), NEW o \in Nat, NEW k \in Nat \ {0}
  PROVE  /\ Page(s, o, k) \in Seq(Id)
         /\ Len(Page(s, o, k)) = IF o < Len(s) THEN Least(o + k, Len(s)) - o ELSE 0
         /\ \A n \in 1 .. Len(Page(s, o, k)) : o + n <= Len(s) /\ Page(s, o, k)[n] = s[o + n]
<1> DEFINE e == Least(o + k, Len(s))
           p == Page(s, o, k)
<1>1. Len(s) \in Nat /\ e \in Nat /\ e <= Len(s) /\ (o < Len(s) <=> o + 1 <= e)
  BY DEF Least
<1>2. \A i \in o + 1 .. e : s[i] \in Id
  BY <1>1
<1>3. p = SubSeq(s, o + 1, e)
  BY DEF Page
<1> HIDE DEF e, p
<1>4. /\ p \in Seq(Id)
      /\ Len(p) = IF o + 1 <= e THEN e - (o + 1) + 1 ELSE 0
      /\ \A n \in 1 .. e - (o + 1) + 1 : p[n] = s[o + 1 + n - 1]
  BY <1>1, <1>2, <1>3, SubSeqProperties
<1>5. Len(p) = IF o < Len(s) THEN e - o ELSE 0
  BY <1>1, <1>4
<1>6. \A n \in 1 .. Len(p) : o + n <= Len(s) /\ p[n] = s[o + n]
  BY <1>1, <1>4
<1>7. QED
  BY <1>4, <1>5, <1>6 DEF p, e

LEMMA PageTakes ==
  ASSUME NEW m \in Mirror, NEW q, NEW o \in Nat, NEW k \in Nat \ {0},
         NEW p, p = Page(Listing(m, q), o, k),
         NEW next, next = NextCursor(Listing(m, q), o, k)
  PROVE  /\ p \in Seq(Id)
         /\ \A n \in 1 .. Len(p) : p[n] \in Hits(m, q) /\ Rank(m, q, p[n]) = o + n - 1
         /\ \A i \in Hits(m, q) :
              o <= Rank(m, q, i) /\ Rank(m, q, i) < o + Len(p) => i \in Ids(p)
         /\ next = None => \A i \in Hits(m, q) : Rank(m, q, i) < o + Len(p)
         /\ next # None => next = o + Len(p) /\ o < next /\ next < Cardinality(Hits(m, q))
<1> DEFINE s == Listing(m, q)
<1>1. s \in Seq(Id) /\ Len(s) = Cardinality(Hits(m, q)) /\ Len(s) \in Nat
  BY ListingFacts
<1>2. \A n \in 1 .. Len(s) : s[n] \in Hits(m, q) /\ Rank(m, q, s[n]) = n - 1
  BY ListingFacts
<1> HIDE DEF s
<1>3. /\ p \in Seq(Id) /\ Len(p) \in Nat
      /\ Len(p) = IF o < Len(s) THEN Least(o + k, Len(s)) - o ELSE 0
      /\ \A n \in 1 .. Len(p) : o + n <= Len(s) /\ p[n] = s[o + n]
  BY <1>1, PageFacts DEF s
<1>4. ASSUME NEW n \in 1 .. Len(p)
      PROVE  p[n] \in Hits(m, q) /\ Rank(m, q, p[n]) = o + n - 1
  <2>1. o + n \in 1 .. Len(s) /\ p[n] = s[o + n]
    BY <1>1, <1>3
  <2>2. QED
    BY <2>1, <1>2
<1>5. ASSUME NEW i \in Hits(m, q), o <= Rank(m, q, i), Rank(m, q, i) < o + Len(p)
      PROVE  i \in Ids(p)
  <2>1. Rank(m, q, i) \in Nat
    BY RankRange
  <2>2. Rank(m, q, i) - o + 1 \in 1 .. Len(p)
    BY <2>1, <1>3, <1>5
  <2>3. p[Rank(m, q, i) - o + 1] \in Hits(m, q) /\ Rank(m, q, p[Rank(m, q, i) - o + 1]) = Rank(m, q, i)
    BY <2>1, <2>2, <1>4
  <2>4. p[Rank(m, q, i) - o + 1] = i
    BY <2>3, RankInjective
  <2>5. QED
    BY <2>2, <2>4 DEF Ids
<1>6. next = IF o + Len(p) < Len(s) THEN o + Len(p) ELSE None
  BY DEF NextCursor, s
<1>7. ASSUME next = None, NEW i \in Hits(m, q) PROVE Rank(m, q, i) < o + Len(p)
  <2>1. Rank(m, q, i) \in Nat /\ Rank(m, q, i) < Len(s)
    BY <1>1, RankRange
  <2>2. ~(o + Len(p) < Len(s))
    BY <1>3, <1>6, <1>7, NoneAssumption
  <2>3. QED
    BY <1>1, <1>3, <2>1, <2>2
<1>8. next # None => next = o + Len(p) /\ o < next /\ next < Len(s)
  BY <1>1, <1>3, <1>6 DEF Least
<1>9. QED
  BY <1>1, <1>3, <1>4, <1>5, <1>7, <1>8

-----------------------------------------------------------------------------
(***************************************************************************)
(* Types.  A walk starts at the first row.                                 *)
(***************************************************************************)
Types ==
  /\ mirror \in Mirror /\ query \in Query
  /\ pc \in {"idle", "walking", "done"} /\ left \in BOOLEAN /\ came \in BOOLEAN
  /\ cursor \in Nat /\ (pc # "walking" => cursor = 0)
  /\ got \in Seq(Id) /\ first \in Seq(Id) /\ (pc = "idle" => got = <<>>)

\* A call asks for the page at o of what q selects.
Asks(q, o, l) == q \in Query /\ o \in Nat /\ l \in Limit /\ query' = q /\ Answer(q, o, l)

LEMMA CallAsks ==
  ASSUME Types
  PROVE  /\ \A q \in Query, l \in Limit : FirstPage(q, l) => cursor = 0 /\ Asks(q, cursor, l)
         /\ \A l \in Limit : NextPage(l) => Asks(query, cursor, l)
  BY DEF Types, FirstPage, NextPage, Asks

LEMMA AskFacts ==
  ASSUME Types, NEW q, NEW o, NEW l, Asks(q, o, l)
  PROVE  \E p \in Seq(Id) :
         /\ got' = got \o p
         /\ \A n \in 1 .. Len(p) :
              p[n] \in Hits(mirror, q) /\ Rank(mirror, q, p[n]) = o + n - 1
         /\ \A i \in Hits(mirror, q) :
              o <= Rank(mirror, q, i) /\ Rank(mirror, q, i) < o + Len(p) => i \in Ids(p)
         /\ \/ /\ pc' = "done" /\ cursor' = 0
               /\ \A i \in Hits(mirror, q) : Rank(mirror, q, i) < o + Len(p)
            \/ /\ pc' = "walking" /\ cursor' = o + Len(p) /\ o < cursor'
               /\ cursor' < Cardinality(Hits(mirror, q))
<1> DEFINE k == Clamp(l)
           p == Page(Listing(mirror, q), o, k)
           next == NextCursor(Listing(mirror, q), o, k)
<1>1. mirror \in Mirror /\ o \in Nat /\ k \in Nat \ {0}
  BY ClampNat DEF Types, Asks
<1>2. /\ got' = got \o p /\ pc' = (IF next = None THEN "done" ELSE "walking")
      /\ cursor' = IF next = None THEN 0 ELSE next
  BY DEF Asks, Answer
<1> HIDE DEF p, next, k
<1>3. /\ p \in Seq(Id)
      /\ \A n \in 1 .. Len(p) : p[n] \in Hits(mirror, q) /\ Rank(mirror, q, p[n]) = o + n - 1
      /\ \A i \in Hits(mirror, q) :
           o <= Rank(mirror, q, i) /\ Rank(mirror, q, i) < o + Len(p) => i \in Ids(p)
      /\ next = None => \A i \in Hits(mirror, q) : Rank(mirror, q, i) < o + Len(p)
      /\ next # None => next = o + Len(p) /\ o < next /\ next < Cardinality(Hits(mirror, q))
  BY <1>1, PageTakes DEF p, next
<1>4. \/ /\ pc' = "done" /\ cursor' = 0
         /\ \A i \in Hits(mirror, q) : Rank(mirror, q, i) < o + Len(p)
      \/ /\ pc' = "walking" /\ cursor' = o + Len(p) /\ o < cursor'
         /\ cursor' < Cardinality(Hits(mirror, q))
  BY <1>2, <1>3
<1>5. QED
  BY <1>2, <1>3, <1>4

LEMMA TypesInit == Init => Types
<1> SUFFICES ASSUME Init PROVE Types
  OBVIOUS
<1>1. <<>> \in Seq(Id)
  OBVIOUS
<1>2. mirror \in Mirror
  BY DEF Init, Mirror
<1>3. QED
  BY <1>1, <1>2 DEF Init, Types

LEMMA TypesStep == Types /\ [Next]_vars => Types'
<1> SUFFICES ASSUME Types, [Next]_vars PROVE Types'
  OBVIOUS
<1>1. ASSUME NEW q, NEW o, NEW l, Asks(q, o, l), UNCHANGED <<mirror, left, came>>, first' \in Seq(Id)
      PROVE  Types'
  <2>1. PICK p \in Seq(Id) : /\ got' = got \o p
                             /\ \/ pc' = "done" /\ cursor' = 0
                                \/ pc' = "walking" /\ cursor' = o + Len(p)
    BY <1>1, AskFacts
  <2>2. query' \in Query /\ o \in Nat /\ Len(p) \in Nat /\ got' \in Seq(Id)
    BY <1>1, <2>1 DEF Asks, Types
  <2>3. cursor' \in Nat /\ pc' \in {"walking", "done"} /\ (pc' # "walking" => cursor' = 0)
    BY <2>1, <2>2
  <2>4. QED
    BY <1>1, <2>2, <2>3 DEF Types
<1>2. ASSUME NEW q \in Query, NEW l \in Limit, FirstPage(q, l) PROVE Types'
  <2>1. first' \in Seq(Id)
    BY <1>2, ListingFacts DEF FirstPage, Types
  <2>2. Asks(q, cursor, l) /\ UNCHANGED <<mirror, left, came>>
    BY <1>2, CallAsks DEF FirstPage
  <2>3. QED
    BY <1>1, <2>1, <2>2
<1>3. ASSUME NEW l \in Limit, NextPage(l) PROVE Types'
  <2>1. Asks(query, cursor, l) /\ UNCHANGED <<mirror, left, came, first>>
    BY <1>3, CallAsks DEF NextPage
  <2>2. first' \in Seq(Id)
    BY <2>1 DEF Types
  <2>3. QED
    BY <1>1, <2>1, <2>2
<1>4. CASE NewWalk
  <2>1. <<>> \in Seq(Id)
    OBVIOUS
  <2>2. QED
    BY <1>4, <2>1 DEF NewWalk, Types
<1>5. ASSUME NEW i \in Id, NEW t \in Txn, Change(i, t) PROVE Types'
  <2>1. left' \in BOOLEAN /\ came' \in BOOLEAN
    BY <1>5 DEF Change, Types
  <2>2. mirror' \in Mirror
    BY <1>5 DEF Change, Types, Mirror
  <2>3. QED
    BY <1>5, <2>1, <2>2 DEF Change, Types
<1>6. CASE UNCHANGED vars
  BY <1>6 DEF vars, walk, Types
<1>7. QED
  BY <1>2, <1>3, <1>4, <1>5, <1>6 DEF Next

(***************************************************************************)
(* Progress of a client.                                                   *)
(***************************************************************************)
LEMMA ChangeOfNothing ==
  ASSUME Types, NEW i \in Id, NEW t \in Txn, Change(i, t), mirror' = mirror
  PROVE  UNCHANGED vars
<1>1. mirror[i] = t
  BY DEF Change, Types, Mirror
<1>2. UNCHANGED <<left, came>>
  BY <1>1 DEF Change, Types
<1>3. QED
  BY <1>2 DEF Change, vars, walk

LEMMA CursorStep ==
  ASSUME Types, [Next]_vars, vars' # vars, pc' = "walking", mirror' = mirror
  PROVE  cursor < cursor' /\ cursor' < Cardinality(Id)
<1>1. ASSUME NEW q, NEW l, Asks(q, cursor, l)
      PROVE  cursor < cursor' /\ cursor' < Cardinality(Id)
  <2>1. PICK p \in Seq(Id) : /\ cursor' = cursor + Len(p) /\ cursor < cursor'
                             /\ cursor' < Cardinality(Hits(mirror, q))
    BY <1>1, AskFacts
  <2>2. cursor' \in Nat /\ Cardinality(Id) \in Nat
    BY <2>1, IdAssumption, FS_CardinalityType DEF Types
  <2>3. Cardinality(Hits(mirror, q)) \in Nat /\ Cardinality(Hits(mirror, q)) <= Cardinality(Id)
    BY HitsFinite
  <2>4. QED
    BY <2>1, <2>2, <2>3
<1>2. ASSUME NEW i \in Id, NEW t \in Txn, Change(i, t) PROVE FALSE
  BY <1>2, ChangeOfNothing
<1>3. ~NewWalk
  BY DEF NewWalk
<1>4. QED
  BY <1>1, <1>2, <1>3, CallAsks DEF Next, Types

\* A page that is not the last moves the cursor on and keeps it below the number
\* of rows (ReadTools!CursorAdvances), whatever limits the client asks for.
THEOREM CursorMovesOn == Spec => CursorAdvances
<1>1. Types /\ [Next]_vars
        => [pc' = "walking" /\ mirror' = mirror =>
              cursor < cursor' /\ cursor' < Cardinality(Id)]_vars
  BY CursorStep
<1>2. QED
  BY <1>1, TypesInit, TypesStep, PTL DEF Spec, CursorAdvances

-----------------------------------------------------------------------------
(***************************************************************************)
(* What a change of the mirror does to ranks: where no row enters or       *)
(* moves, the rank of a row that stays can only fall, and where none       *)
(* leaves or moves it can only rise.                                       *)
(***************************************************************************)
\* Every hit of m is a hit of n, on the same date.
Stay(m, n, q) ==
  /\ Hits(m, q) \subseteq Hits(n, q)
  /\ \A i \in Hits(m, q) : m[i].posted = n[i].posted

LEMMA RankFalls ==
  ASSUME NEW m \in Mirror, NEW n \in Mirror, NEW q, Stay(m, n, q), NEW i \in Hits(m, q)
  PROVE  Rank(m, q, i) <= Rank(n, q, i)
<1>1. Ahead(m, q, i) \in SUBSET Ahead(n, q, i)
  BY DEF Ahead, Stay, Before
<1>2. IsFiniteSet(Ahead(n, q, i))
  BY RankRange DEF Stay
<1>3. QED
  BY <1>1, <1>2, FS_Subset DEF Rank

LEMMA ListingStays ==
  ASSUME NEW m \in Mirror, NEW n \in Mirror, NEW q, Stay(m, n, q), Stay(n, m, q)
  PROVE  Listing(m, q) = Listing(n, q)
<1> DEFINE s == Listing(m, q)
           t == Listing(n, q)
<1>1. Hits(m, q) = Hits(n, q)
  BY DEF Stay
<1>2. /\ s \in Seq(Id) /\ Len(s) = Cardinality(Hits(m, q))
      /\ \A k \in 1 .. Len(s) : s[k] \in Hits(m, q) /\ Rank(m, q, s[k]) = k - 1
  BY ListingFacts
<1>3. /\ t \in Seq(Id) /\ Len(t) = Cardinality(Hits(m, q))
      /\ \A k \in 1 .. Len(t) : t[k] \in Hits(m, q) /\ Rank(n, q, t[k]) = k - 1
  BY <1>1, ListingFacts
<1> HIDE DEF s, t
<1>4. ASSUME NEW k \in 1 .. Len(s) PROVE s[k] = t[k]
  <2>1. s[k] \in Hits(m, q) /\ t[k] \in Hits(m, q) /\ Rank(m, q, s[k]) = Rank(n, q, t[k])
    BY <1>2, <1>3
  <2>2. Rank(m, q, t[k]) <= Rank(n, q, t[k]) /\ Rank(n, q, t[k]) <= Rank(m, q, t[k])
    BY <2>1, <1>1, RankFalls
  <2>3. Rank(m, q, t[k]) \in Nat /\ Rank(n, q, t[k]) \in Nat
    BY <2>1, <1>1, RankRange
  <2>4. Rank(m, q, s[k]) = Rank(m, q, t[k])
    BY <2>1, <2>2, <2>3
  <2>5. QED
    BY <2>1, <2>4, RankInjective
<1>5. s = t
  BY <1>2, <1>3, <1>4, SeqEqual
<1>6. QED
  BY <1>5 DEF s, t

LEMMA ChangeEffect ==
  ASSUME Types, NEW i \in Id, NEW t \in Txn, Change(i, t)
  PROVE  /\ mirror' \in Mirror /\ pc # "done"
         /\ UNCHANGED <<pc, query, cursor, got, first>>
         /\ pc = "walking" /\ ~came' => ~came /\ Stay(mirror', mirror, query)
         /\ pc = "walking" /\ ~left' => ~left /\ Stay(mirror, mirror', query)
<1> DEFINE was == Hit(mirror, query, i)
           is == Hit(mirror', query, i)
           moves == was /\ is /\ mirror[i].posted # t.posted
<1>1. /\ mirror' \in Mirror /\ mirror'[i] = t
      /\ \A j \in Id \ {i} : mirror'[j] = mirror[j]
  BY DEF Change, Types, Mirror
<1>2. \A j \in Id \ {i} : Hit(mirror', query, j) <=> Hit(mirror, query, j)
  BY <1>1 DEF Hit
<1>3. ASSUME pc = "walking", ~came' PROVE ~came /\ Stay(mirror', mirror, query)
  <2>1. ~came /\ ~(is /\ ~was) /\ ~moves
    BY <1>3 DEF Change
  <2>2. QED
    BY <1>1, <1>2, <2>1 DEF Stay, Hits
<1>4. ASSUME pc = "walking", ~left' PROVE ~left /\ Stay(mirror, mirror', query)
  <2>1. ~left /\ ~(was /\ ~is) /\ ~moves
    BY <1>4 DEF Change
  <2>2. QED
    BY <1>1, <1>2, <2>1 DEF Stay, Hits
<1>5. QED
  BY <1>1, <1>3, <1>4 DEF Change

-----------------------------------------------------------------------------
(***************************************************************************)
(* No row twice.  What has been returned lies behind the cursor, as long   *)
(* as no row enters or moves.                                              *)
(***************************************************************************)
Distinct(s)  == \A m, n \in 1 .. Len(s) : s[m] = s[n] => m = n
BehindCursor == \A n \in 1 .. Len(got) :
                  got[n] \in Hits(mirror, query) => Rank(mirror, query, got[n]) < cursor
TwiceInv == ~came => Distinct(got) /\ (pc = "walking" => BehindCursor)

LEMMA TwiceAsk ==
  ASSUME Types, NEW q, NEW o, NEW l, Asks(q, o, l), mirror' = mirror, Distinct(got),
         \A n \in 1 .. Len(got) : got[n] \in Hits(mirror, q) => Rank(mirror, q, got[n]) < o
  PROVE  TwiceInv'
<1>1. PICK p \in Seq(Id) :
        /\ got' = got \o p
        /\ \A n \in 1 .. Len(p) :
             p[n] \in Hits(mirror, q) /\ Rank(mirror, q, p[n]) = o + n - 1
        /\ pc' = "walking" => cursor' = o + Len(p)
  BY AskFacts
<1>2. got \in Seq(Id) /\ mirror \in Mirror /\ o \in Nat /\ query' = q
  BY DEF Types, Asks
<1> DEFINE g == Len(got)
<1>3. /\ g \in Nat /\ Len(p) \in Nat /\ Len(got') = g + Len(p)
      /\ \A n \in 1 .. Len(got') : got'[n] = IF n <= g THEN got[n] ELSE p[n - g]
  BY <1>1, <1>2, ConcatProperties
<1> HIDE DEF g
\* The rank of a returned row that is still listed.
<1>4. ASSUME NEW n \in 1 .. Len(got')
      PROVE  /\ n <= g => (got'[n] \in Hits(mirror, q) => Rank(mirror, q, got'[n]) < o)
             /\ n > g => got'[n] \in Hits(mirror, q) /\ Rank(mirror, q, got'[n]) = o + (n - g) - 1
  <2>1. CASE n <= g
    BY <1>2, <1>3, <2>1 DEF g
  <2>2. CASE n > g
    <3>1. n - g \in 1 .. Len(p) /\ got'[n] = p[n - g]
      BY <1>3, <2>2
    <3>2. QED
      BY <1>1, <1>3, <2>2, <3>1
  <2>3. QED
    BY <1>3, <2>1, <2>2
<1>5. ASSUME NEW m \in 1 .. Len(got'), NEW n \in 1 .. Len(got'), got'[m] = got'[n] PROVE m = n
  <2>1. CASE m <= g /\ n <= g
    BY <1>3, <1>5, <2>1 DEF Distinct, g
  <2>2. CASE m > g /\ n > g
    <3>1. o + (m - g) - 1 = o + (n - g) - 1
      BY <1>4, <1>5, <2>2
    <3>2. QED
      BY <1>2, <1>3, <3>1
  <2>3. CASE (m > g /\ n <= g) \/ (m <= g /\ n > g)
    BY <1>2, <1>3, <1>4, <1>5, <2>3
  <2>4. QED
    BY <1>3, <2>1, <2>2, <2>3
<1>6. ASSUME pc' = "walking", NEW n \in 1 .. Len(got'), got'[n] \in Hits(mirror, q)
      PROVE  Rank(mirror, q, got'[n]) < cursor'
  <2>1. Rank(mirror, q, got'[n]) \in Nat /\ cursor' = o + Len(p)
    BY <1>1, <1>2, <1>6, RankRange
  <2>2. CASE n <= g
    BY <1>2, <1>3, <1>4, <1>6, <2>1, <2>2
  <2>3. CASE n > g
    BY <1>2, <1>3, <1>4, <1>6, <2>1, <2>3
  <2>4. QED
    BY <1>3, <2>2, <2>3
<1>7. Distinct(got')
  BY <1>5 DEF Distinct
<1>8. pc' = "walking" => BehindCursor'
  BY <1>2, <1>6 DEF BehindCursor
<1>9. QED
  BY <1>7, <1>8 DEF TwiceInv

LEMMA TwiceStep == Types /\ TwiceInv /\ [Next]_vars => TwiceInv'
<1> SUFFICES ASSUME Types, TwiceInv, [Next]_vars PROVE TwiceInv'
  OBVIOUS
<1>1. ASSUME NEW q \in Query, NEW l \in Limit, FirstPage(q, l) PROVE TwiceInv'
  <2>1. Asks(q, cursor, l) /\ mirror' = mirror /\ got = <<>>
    BY <1>1, CallAsks DEF FirstPage, Types
  <2>2. Len(got) = 0
    BY <2>1
  <2>3. QED
    BY <2>1, <2>2, TwiceAsk DEF Distinct
<1>2. ASSUME NEW l \in Limit, NextPage(l) PROVE TwiceInv'
  <2>1. Asks(query, cursor, l) /\ UNCHANGED <<mirror, came>> /\ pc = "walking"
    BY <1>2, CallAsks DEF NextPage
  <2>2. CASE came
    BY <2>1, <2>2 DEF TwiceInv
  <2>3. CASE ~came
    BY <2>1, <2>3, TwiceAsk DEF TwiceInv, BehindCursor
  <2>4. QED
    BY <2>2, <2>3
<1>3. CASE NewWalk
  <2>1. Len(<<>>) = 0
    OBVIOUS
  <2>2. QED
    BY <1>3, <2>1 DEF NewWalk, TwiceInv, Distinct
<1>4. ASSUME NEW i \in Id, NEW t \in Txn, Change(i, t) PROVE TwiceInv'
  <2> SUFFICES ASSUME ~came' PROVE Distinct(got') /\ (pc' = "walking" => BehindCursor')
    BY DEF TwiceInv
  <2>1. /\ mirror' \in Mirror /\ UNCHANGED <<pc, query, cursor, got>>
        /\ pc = "walking" => ~came /\ Stay(mirror', mirror, query)
    BY <1>4, ChangeEffect
  <2>2. CASE pc = "walking"
    <3>1. Distinct(got) /\ BehindCursor
      BY <2>1, <2>2 DEF TwiceInv
    <3>2. ASSUME NEW n \in 1 .. Len(got), got[n] \in Hits(mirror', query)
          PROVE  Rank(mirror', query, got[n]) < cursor
      <4>1. got[n] \in Hits(mirror, query) /\ mirror \in Mirror /\ cursor \in Nat
        BY <2>1, <2>2, <3>2 DEF Stay, Types
      <4>2. Rank(mirror', query, got[n]) <= Rank(mirror, query, got[n])
        BY <2>1, <2>2, <3>2, <4>1, RankFalls
      <4>3. Rank(mirror', query, got[n]) \in Nat /\ Rank(mirror, query, got[n]) \in Nat
        BY <2>1, <3>2, <4>1, RankRange
      <4>4. QED
        BY <3>1, <4>1, <4>2, <4>3 DEF BehindCursor
    <3>3. QED
      BY <2>1, <3>1, <3>2 DEF BehindCursor
  <2>3. CASE pc = "idle"
    <3>1. Len(got) = 0
      BY <2>3 DEF Types
    <3>2. QED
      BY <2>1, <2>3, <3>1 DEF Distinct
  <2>4. QED
    BY <1>4, <2>2, <2>3, ChangeEffect DEF Types
<1>5. CASE UNCHANGED vars
  BY <1>5 DEF vars, walk, TwiceInv, Distinct, BehindCursor
<1>6. QED
  BY <1>1, <1>2, <1>3, <1>4, <1>5 DEF Next

\* A walk during which no row enters the listing or moves in it returns no row
\* twice, though rows leave (ReadTools!NoneTwice).
THEOREM NoRowTwice == Spec => []NoneTwice
<1>1. Init => TwiceInv
  <2>1. Len(<<>>) = 0
    OBVIOUS
  <2>2. QED
    BY <2>1 DEF Init, TwiceInv, Distinct
<1>2. TwiceInv => NoneTwice
  BY DEF TwiceInv, NoneTwice, Distinct
<1>3. QED
  BY <1>1, <1>2, TypesInit, TypesStep, TwiceStep, PTL DEF Spec

-----------------------------------------------------------------------------
(***************************************************************************)
(* No row missed.  What the walk began with is returned or still ahead of  *)
(* the cursor, as long as no row leaves or moves.                          *)
(***************************************************************************)
StillAhead(i) == pc = "walking" /\ i \in Hits(mirror, query) /\ Rank(mirror, query, i) >= cursor
MissedInv == pc # "idle" /\ ~left => \A i \in Ids(first) : i \in Ids(got) \/ StillAhead(i)

LEMMA MissedAsk ==
  ASSUME Types, NEW q, NEW o, NEW l, Asks(q, o, l), mirror' = mirror,
         \A i \in Ids(first') :
           i \in Ids(got) \/ (i \in Hits(mirror, q) /\ Rank(mirror, q, i) >= o)
  PROVE  MissedInv'
<1>1. PICK p \in Seq(Id) :
        /\ got' = got \o p
        /\ \A i \in Hits(mirror, q) :
             o <= Rank(mirror, q, i) /\ Rank(mirror, q, i) < o + Len(p) => i \in Ids(p)
        /\ \/ /\ pc' = "done"
              /\ \A i \in Hits(mirror, q) : Rank(mirror, q, i) < o + Len(p)
           \/ pc' = "walking" /\ cursor' = o + Len(p)
  BY AskFacts
<1>2. got \in Seq(Id) /\ mirror \in Mirror /\ o \in Nat /\ query' = q /\ Len(p) \in Nat
  BY DEF Types, Asks
<1>3. Ids(got') = Ids(got) \cup Ids(p)
  <2>1. /\ Len(got') = Len(got) + Len(p) /\ Len(got) \in Nat
        /\ \A n \in 1 .. Len(got) + Len(p) :
             got'[n] = IF n <= Len(got) THEN got[n] ELSE p[n - Len(got)]
    BY <1>1, <1>2, ConcatProperties
  <2>2. ASSUME NEW n \in 1 .. Len(got') PROVE got'[n] \in Ids(got) \cup Ids(p)
    <3>1. CASE n <= Len(got)
      BY <2>1, <3>1 DEF Ids
    <3>2. CASE n > Len(got)
      <4>1. n - Len(got) \in 1 .. Len(p) /\ got'[n] = p[n - Len(got)]
        BY <1>2, <2>1, <3>2
      <4>2. QED
        BY <4>1 DEF Ids
    <3>3. QED
      BY <2>1, <3>1, <3>2
  <2>3. ASSUME NEW n \in 1 .. Len(got) PROVE got[n] \in Ids(got')
    <3>1. n \in 1 .. Len(got') /\ got'[n] = got[n]
      BY <1>2, <2>1
    <3>2. QED
      BY <3>1 DEF Ids
  <2>4. ASSUME NEW n \in 1 .. Len(p) PROVE p[n] \in Ids(got')
    <3>1. Len(got) + n \in 1 .. Len(got') /\ got'[Len(got) + n] = p[n]
      BY <1>2, <2>1
    <3>2. QED
      BY <3>1 DEF Ids
  <2>5. Ids(got') = {got'[n] : n \in 1 .. Len(got')}
    BY DEF Ids
  <2>6. QED
    BY <2>2, <2>3, <2>4, <2>5 DEF Ids
<1>4. ASSUME NEW i \in Ids(first'), i \notin Ids(got')
      PROVE  pc' = "walking" /\ i \in Hits(mirror, q) /\ Rank(mirror, q, i) >= cursor'
  <2>1. i \in Hits(mirror, q) /\ Rank(mirror, q, i) >= o
    BY <1>3, <1>4
  <2>2. Rank(mirror, q, i) \in Nat
    BY <1>2, <2>1, RankRange
  <2>3. ~(Rank(mirror, q, i) < o + Len(p))
    BY <1>1, <1>2, <1>3, <1>4, <2>1, <2>2
  <2>4. QED
    BY <1>1, <1>2, <2>1, <2>2, <2>3
<1>5. QED
  BY <1>2, <1>4 DEF MissedInv, StillAhead

LEMMA MissedStep == Types /\ MissedInv /\ [Next]_vars => MissedInv'
<1> SUFFICES ASSUME Types, MissedInv, [Next]_vars PROVE MissedInv'
  OBVIOUS
<1>1. ASSUME NEW q \in Query, NEW l \in Limit, FirstPage(q, l) PROVE MissedInv'
  <2>1. /\ Asks(q, cursor, l) /\ UNCHANGED mirror /\ cursor = 0 /\ mirror \in Mirror
        /\ first' = Listing(mirror, q)
    BY <1>1, CallAsks DEF FirstPage, Types
  <2>2. \A i \in Ids(first') : i \in Hits(mirror, q)
    BY <2>1, ListingFacts DEF Ids
  <2>3. \A i \in Ids(first') : Rank(mirror, q, i) >= cursor
    BY <2>1, <2>2, RankRange
  <2>4. QED
    BY <2>1, <2>2, <2>3, MissedAsk
<1>2. ASSUME NEW l \in Limit, NextPage(l) PROVE MissedInv'
  <2>1. Asks(query, cursor, l) /\ UNCHANGED <<mirror, left, first>> /\ pc = "walking"
    BY <1>2, CallAsks DEF NextPage
  <2>2. CASE left
    BY <2>1, <2>2 DEF MissedInv
  <2>3. CASE ~left
    BY <2>1, <2>3, MissedAsk DEF MissedInv, StillAhead
  <2>4. QED
    BY <2>2, <2>3
<1>3. CASE NewWalk
  BY <1>3 DEF NewWalk, MissedInv
<1>4. ASSUME NEW i \in Id, NEW t \in Txn, Change(i, t) PROVE MissedInv'
  <2> SUFFICES ASSUME pc' # "idle", ~left', NEW j \in Ids(first')
               PROVE  j \in Ids(got') \/ StillAhead(j)'
    BY DEF MissedInv
  <2>1. /\ mirror' \in Mirror /\ UNCHANGED <<pc, query, cursor, got, first>>
        /\ pc = "walking"
        /\ ~left /\ Stay(mirror, mirror', query)
    BY <1>4, ChangeEffect DEF Types
  <2>2. j \in Ids(got) \/ StillAhead(j)
    BY <2>1 DEF MissedInv
  <2>3. CASE StillAhead(j)
    <3>1. j \in Hits(mirror, query) /\ j \in Hits(mirror', query) /\ mirror \in Mirror /\ cursor \in Nat
      BY <2>1, <2>3 DEF StillAhead, Stay, Types
    <3>2. Rank(mirror, query, j) <= Rank(mirror', query, j)
      BY <2>1, <3>1, RankFalls
    <3>3. Rank(mirror, query, j) \in Nat /\ Rank(mirror', query, j) \in Nat
      BY <2>1, <3>1, RankRange
    <3>4. Rank(mirror', query, j) >= cursor
      BY <2>3, <3>1, <3>2, <3>3 DEF StillAhead
    <3>5. QED
      BY <2>1, <3>1, <3>4 DEF StillAhead
  <2>4. QED
    BY <2>1, <2>2, <2>3
<1>5. CASE UNCHANGED vars
  BY <1>5 DEF vars, walk, MissedInv, StillAhead
<1>6. QED
  BY <1>1, <1>2, <1>3, <1>4, <1>5 DEF Next

\* A walk during which no row leaves the listing or moves in it returns every row
\* the listing had when it began, though rows arrive (ReadTools!NoneMissed).
THEOREM NoRowMissed == Spec => []NoneMissed
<1>1. Init => MissedInv
  BY DEF Init, MissedInv
<1>2. MissedInv => NoneMissed
  BY DEF MissedInv, NoneMissed, StillAhead
<1>3. QED
  BY <1>1, <1>2, TypesInit, TypesStep, MissedStep, PTL DEF Spec

-----------------------------------------------------------------------------
(***************************************************************************)
(* The whole listing.  While nothing enters, leaves or moves, the listing  *)
(* is the first one, and what has been returned is its beginning.          *)
(***************************************************************************)
Beginning(s) == Len(got) <= Len(s) /\ \A n \in 1 .. Len(got) : got[n] = s[n]
WalkInv ==
  pc # "idle" /\ ~left /\ ~came =>
    /\ first = Listing(mirror, query) /\ Beginning(first)
    /\ pc = "walking" => cursor = Len(got)
    /\ pc = "done" => Len(got) = Len(first)

LEMMA WalkAsk ==
  ASSUME Types, NEW q, NEW o, NEW l, Asks(q, o, l), mirror' = mirror,
         first' = Listing(mirror, q), Beginning(first'), Len(got) = o
  PROVE  WalkInv'
<1> DEFINE s == Listing(mirror, q)
<1>1. PICK p \in Seq(Id) :
        /\ got' = got \o p
        /\ \A n \in 1 .. Len(p) :
             p[n] \in Hits(mirror, q) /\ Rank(mirror, q, p[n]) = o + n - 1
        /\ \/ /\ pc' = "done"
              /\ \A i \in Hits(mirror, q) : Rank(mirror, q, i) < o + Len(p)
           \/ /\ pc' = "walking" /\ cursor' = o + Len(p)
              /\ cursor' < Cardinality(Hits(mirror, q))
  BY AskFacts
<1>2. got \in Seq(Id) /\ mirror \in Mirror /\ o \in Nat /\ query' = q /\ Len(p) \in Nat
  BY DEF Types, Asks
<1>3. /\ Len(got') = o + Len(p)
      /\ \A n \in 1 .. o + Len(p) : got'[n] = IF n <= o THEN got[n] ELSE p[n - o]
  BY <1>1, <1>2, ConcatProperties
<1>4. /\ s \in Seq(Id) /\ Len(s) \in Nat /\ Len(s) = Cardinality(Hits(mirror, q))
      /\ \A n \in 1 .. Len(s) : s[n] \in Hits(mirror, q) /\ Rank(mirror, q, s[n]) = n - 1
  BY <1>2, ListingFacts
<1>5. first' = s /\ o <= Len(s) /\ \A n \in 1 .. o : got[n] = s[n]
  BY DEF Beginning
<1> HIDE DEF s
<1>6. ASSUME NEW n \in 1 .. Len(p) PROVE o + n <= Len(s) /\ p[n] = s[o + n]
  <2>1. p[n] \in Hits(mirror, q) /\ Rank(mirror, q, p[n]) = o + n - 1
    BY <1>1
  <2>2. Rank(mirror, q, p[n]) < Len(s)
    BY <1>2, <1>4, <2>1, RankRange
  <2>3. o + n \in 1 .. Len(s)
    BY <1>2, <1>4, <2>1, <2>2
  <2>4. s[o + n] \in Hits(mirror, q) /\ Rank(mirror, q, s[o + n]) = o + n - 1
    BY <1>4, <2>3
  <2>5. p[n] = s[o + n]
    BY <1>2, <2>1, <2>4, RankInjective
  <2>6. QED
    BY <2>3, <2>5
<1>7. o + Len(p) <= Len(s)
  <2>1. CASE Len(p) = 0
    BY <1>2, <1>5, <2>1
  <2>2. CASE Len(p) > 0
    <3>1. Len(p) \in 1 .. Len(p)
      BY <1>2, <2>2
    <3>2. QED
      BY <3>1, <1>6
  <2>3. QED
    BY <1>2, <2>1, <2>2
<1>8. ASSUME NEW n \in 1 .. Len(got') PROVE got'[n] = s[n]
  <2>1. CASE n <= o
    BY <1>2, <1>3, <1>5, <2>1
  <2>2. CASE n > o
    <3>1. n - o \in 1 .. Len(p) /\ got'[n] = p[n - o]
      BY <1>2, <1>3, <2>2
    <3>2. p[n - o] = s[o + (n - o)]
      BY <3>1, <1>6
    <3>3. o + (n - o) = n
      BY <1>2
    <3>4. QED
      BY <3>1, <3>2, <3>3
  <2>3. QED
    BY <1>2, <2>1, <2>2
<1>9. ASSUME pc' = "done" PROVE Len(got') = Len(s)
  <2>1. \A i \in Hits(mirror, q) : Rank(mirror, q, i) < o + Len(p)
    BY <1>1, <1>9
  <2>2. CASE o + Len(p) < Len(s)
    <3>1. o + Len(p) + 1 \in 1 .. Len(s)
      BY <1>2, <1>4, <2>2
    <3>2. /\ s[o + Len(p) + 1] \in Hits(mirror, q)
          /\ Rank(mirror, q, s[o + Len(p) + 1]) = o + Len(p) + 1 - 1
      BY <1>4, <3>1
    <3>3. o + Len(p) + 1 - 1 < o + Len(p)
      BY <2>1, <3>2
    <3>4. QED
      BY <1>2, <3>3
  <2>3. Len(got') = o + Len(p) /\ o + Len(p) \in Nat /\ Len(s) \in Nat
    BY <1>2, <1>3, <1>4
  <2>4. QED
    BY <1>7, <2>2, <2>3
<1>10. pc' = "walking" => cursor' = Len(got')
  BY <1>1, <1>3
<1>11. Beginning(first)'
  BY <1>3, <1>5, <1>7, <1>8 DEF Beginning
<1>12. first' = Listing(mirror', query')
  BY <1>2, <1>5 DEF s
<1>13. QED
  BY <1>5, <1>9, <1>10, <1>11, <1>12 DEF WalkInv

LEMMA WalkStep == Types /\ WalkInv /\ [Next]_vars => WalkInv'
<1> SUFFICES ASSUME Types, WalkInv, [Next]_vars PROVE WalkInv'
  OBVIOUS
<1>1. ASSUME NEW q \in Query, NEW l \in Limit, FirstPage(q, l) PROVE WalkInv'
  <2>1. /\ Asks(q, cursor, l) /\ UNCHANGED mirror /\ cursor = 0 /\ got = <<>>
        /\ first' = Listing(mirror, q) /\ mirror \in Mirror
    BY <1>1, CallAsks DEF FirstPage, Types
  <2>2. Len(got) = 0 /\ Len(first') \in Nat
    BY <2>1, ListingFacts
  <2>3. QED
    BY <2>1, <2>2, WalkAsk DEF Beginning
<1>2. ASSUME NEW l \in Limit, NextPage(l) PROVE WalkInv'
  <2>1. Asks(query, cursor, l) /\ UNCHANGED <<mirror, left, came, first>> /\ pc = "walking"
    BY <1>2, CallAsks DEF NextPage
  <2>2. CASE left \/ came
    BY <2>1, <2>2 DEF WalkInv
  <2>3. CASE ~left /\ ~came
    <3>1. first' = Listing(mirror, query) /\ Beginning(first') /\ Len(got) = cursor
      BY <2>1, <2>3 DEF WalkInv
    <3>2. QED
      BY <2>1, <3>1, WalkAsk
  <2>4. QED
    BY <2>2, <2>3
<1>3. CASE NewWalk
  BY <1>3 DEF NewWalk, WalkInv
<1>4. ASSUME NEW i \in Id, NEW t \in Txn, Change(i, t) PROVE WalkInv'
  <2>1. /\ mirror \in Mirror /\ mirror' \in Mirror /\ pc \in {"idle", "walking"}
        /\ UNCHANGED <<pc, query, cursor, got, first>>
        /\ pc = "walking" /\ ~came' => ~came /\ Stay(mirror', mirror, query)
        /\ pc = "walking" /\ ~left' => ~left /\ Stay(mirror, mirror', query)
    BY <1>4, ChangeEffect DEF Types
  <2>2. CASE pc = "walking" /\ ~came' /\ ~left'
    <3>1. Listing(mirror', query) = Listing(mirror, query) /\ ~came /\ ~left
      BY <2>1, <2>2, ListingStays
    <3>2. QED
      BY <2>1, <2>2, <3>1 DEF WalkInv, Beginning
  <2>3. QED
    BY <2>1, <2>2 DEF WalkInv
<1>5. CASE UNCHANGED vars
  BY <1>5 DEF vars, walk, WalkInv, Beginning
<1>6. QED
  BY <1>1, <1>2, <1>3, <1>4, <1>5 DEF Next

LEMMA WalkInit == Init => WalkInv
  BY DEF Init, WalkInv

LEMMA WalkEnd ==
  ASSUME Types, WalkInv, pc = "done", ~left, ~came
  PROVE  got = first /\ Ids(got) = Hits(mirror, query)
<1>1. /\ first = Listing(mirror, query) /\ mirror \in Mirror /\ got \in Seq(Id) /\ first \in Seq(Id)
      /\ Len(got) = Len(first) /\ \A n \in 1 .. Len(got) : got[n] = first[n]
  BY DEF WalkInv, Beginning, Types
<1>2. got = first
  BY <1>1, SeqEqual
<1>3. /\ Len(first) = Cardinality(Hits(mirror, query))
      /\ \A n \in 1 .. Len(first) :
           first[n] \in Hits(mirror, query) /\ Rank(mirror, query, first[n]) = n - 1
  BY <1>1, ListingFacts
<1>4. ASSUME NEW i \in Hits(mirror, query) PROVE i \in Ids(first)
  <2>1. Rank(mirror, query, i) \in Nat /\ Rank(mirror, query, i) < Len(first) /\ Len(first) \in Nat
    BY <1>1, <1>3, RankRange
  <2>2. Rank(mirror, query, i) + 1 \in 1 .. Len(first)
    BY <2>1
  <2>3. /\ first[Rank(mirror, query, i) + 1] \in Hits(mirror, query)
        /\ Rank(mirror, query, first[Rank(mirror, query, i) + 1]) = Rank(mirror, query, i)
    BY <1>3, <2>1, <2>2
  <2>4. first[Rank(mirror, query, i) + 1] = i
    BY <1>1, <2>3, RankInjective
  <2>5. QED
    BY <2>2, <2>4 DEF Ids
<1>5. Ids(first) \subseteq Hits(mirror, query)
  BY <1>3 DEF Ids
<1>6. QED
  BY <1>2, <1>4, <1>5

\* A walk over a listing that does not change returns exactly that listing, in its
\* order, and no row without an amount where amounts are filtered
\* (ReadTools!WalkIsListing).
THEOREM WalkReturnsListing == Spec => []WalkIsListing
<1>1. Types /\ WalkInv => WalkIsListing
  <2> SUFFICES ASSUME Types, WalkInv, pc = "done", ~left, ~came
               PROVE  /\ got = first
                      /\ query.min # None => \A i \in Ids(got) : mirror[i].amount # None
    BY DEF WalkIsListing
  <2>1. got = first /\ Ids(got) = Hits(mirror, query)
    BY WalkEnd
  <2>2. QED
    BY <2>1 DEF Hits, Hit, Matches, AmountWithin
<1>2. QED
  BY <1>1, TypesInit, TypesStep, WalkInit, WalkStep, PTL DEF Spec

-----------------------------------------------------------------------------
(***************************************************************************)
(* Dates.  The filter compares texts, so it keeps to the days if the texts *)
(* it accepts sort as their days do; an unpadded one does not (run         *)
(* read_dates).                                                            *)
(***************************************************************************)
TextsSortAsDays == \A d, e \in DOMAIN Day : d >= e <=> Day[d] >= Day[e]

LEMMA DatesSelect ==
  ASSUME TextsSortAsDays, NEW t \in Txn, NEW q \in Query,
         NEW all, all = [q EXCEPT !.from = None, !.to = None], q # all
  PROVE  Matches(q, t) <=>
           /\ Matches(all, t) /\ t.posted > 0
           /\ q.from # None => Day[t.posted] >= Day[q.from]
           /\ q.to # None => Day[t.posted] <= Day[q.to]
<1>1. /\ q = [account |-> q.account, from |-> q.from, to |-> q.to, min |-> q.min, max |-> q.max,
              deleted |-> q.deleted, text |-> q.text, uncategorized |-> q.uncategorized]
      /\ q.from \in DOMAIN Day \cup {None} /\ q.to \in DOMAIN Day \cup {None}
  BY DayAssumption DEF QueryShape
<1>2. /\ all.account = q.account /\ all.from = None /\ all.to = None /\ all.min = q.min
      /\ all.max = q.max /\ all.deleted = q.deleted /\ all.text = q.text
      /\ all.uncategorized = q.uncategorized
  BY <1>1
<1>3. q.from # None \/ q.to # None
  BY <1>1
<1>4. /\ t.posted \in {0} \cup DOMAIN Day
      /\ DOMAIN Day \subseteq Nat \ {0}
  BY RowAssumption, DayAssumption DEF TxnShape
<1>5. DatesWithin(q, t) <=>
        /\ t.posted > 0
        /\ q.from # None => Day[t.posted] >= Day[q.from]
        /\ q.to # None => Day[t.posted] <= Day[q.to]
  <2>1. CASE t.posted = 0
    BY <1>3, <2>1 DEF DatesWithin
  <2>2. CASE t.posted \in DOMAIN Day
    <3>1. t.posted > 0
      BY <1>4, <2>2
    <3>2. q.from # None => (t.posted >= q.from <=> Day[t.posted] >= Day[q.from])
      BY <1>1, <2>2 DEF TextsSortAsDays
    <3>3. q.to # None => (q.to >= t.posted <=> Day[q.to] >= Day[t.posted])
      BY <1>1, <2>2 DEF TextsSortAsDays
    <3>4. q.to # None => (t.posted <= q.to <=> Day[t.posted] <= Day[q.to])
      BY <3>3
    <3>5. QED
      BY <3>1, <3>2, <3>4 DEF DatesWithin
  <2>3. QED
    BY <1>4, <2>1, <2>2
<1>6. DatesWithin(all, t)
  BY <1>2 DEF DatesWithin
<1>7. AmountWithin(all, t) <=> AmountWithin(q, t)
  BY <1>2 DEF AmountWithin
<1>8. QED
  BY <1>2, <1>5, <1>6, <1>7 DEF Matches

\* If the texts of dates sort as the days they name, a listing bounded by dates
\* holds the rows of those days, both bounds included (ReadTools!DatesHonored).
THEOREM ListingHonorsDates == ASSUME TextsSortAsDays PROVE Spec => []DatesHonored
<1>1. Types /\ WalkInv => DatesHonored
  <2> DEFINE all == [query EXCEPT !.from = None, !.to = None]
             Within(d) == /\ query.from # None => d >= Day[query.from]
                          /\ query.to # None => d <= Day[query.to]
  <2> SUFFICES ASSUME Types, WalkInv, pc = "done", ~left, ~came, query # all
               PROVE  Ids(got) = {i \in Id : /\ Hit(mirror, all, i) /\ mirror[i].posted > 0
                                             /\ Within(Day[mirror[i].posted])}
    BY DEF DatesHonored
  <2>1. Ids(got) = {i \in Id : Hit(mirror, query, i)} /\ query \in Query
    BY WalkEnd DEF Hits, Types
  <2>2. ASSUME NEW i \in Id
        PROVE  Hit(mirror, query, i) <=> /\ Hit(mirror, all, i) /\ mirror[i].posted > 0
                                         /\ Within(Day[mirror[i].posted])
    <3>1. CASE mirror[i] = None
      BY <3>1 DEF Hit
    <3>2. CASE mirror[i] # None
      <4>1. mirror[i] \in Txn
        BY <3>2 DEF Types, Mirror
      <4>2. Matches(query, mirror[i]) <=>
              /\ Matches(all, mirror[i]) /\ mirror[i].posted > 0
              /\ query.from # None => Day[mirror[i].posted] >= Day[query.from]
              /\ query.to # None => Day[mirror[i].posted] <= Day[query.to]
        BY <2>1, <4>1, DatesSelect, TextsSortAsDays
      <4>3. QED
        BY <3>2, <4>2 DEF Hit
    <3>3. QED
      BY <3>1, <3>2
  <2>3. QED
    BY <2>1, <2>2
<1>2. QED
  BY <1>1, TypesInit, TypesStep, WalkInit, WalkStep, PTL DEF Spec
=============================================================================
