----------------------------- MODULE ReadTools ------------------------------
(***************************************************************************)
(* The listing tools of src/server.rs (list_transactions,                  *)
(* search_transactions, list_uncategorized_transactions): a filter over a  *)
(* sorted snapshot of the mirror, cut into pages by an offset cursor.  A   *)
(* client walks a listing by sending back nextCursor, while syncs and      *)
(* write-throughs change the mirror between its calls.                     *)
(***************************************************************************)
EXTENDS Integers, Sequences, FiniteSets

CONSTANTS
  Id,        \* transaction ids, as numbers in their string order
  Txn,       \* what a row can hold: records of TxnShape
  Day,       \* the day that each date is
  Query,     \* filters the client uses: the fields of TxnQuery and the tool
  Limit,     \* limits the client asks for
  None,      \* an absent value: of a row, a field, a filter or a limit
  DefaultPage, MaxPage   \* DEFAULT_PAGE, MAX_PAGE

(* A date is a text, and texts are numbered in their order; validate_iso_date *)
(* accepts those of Day.  0 is an absent date: None sorts below every text. *)
TxnShape(t) ==
  /\ t.posted \in {0} \cup DOMAIN Day /\ t.deleted \in BOOLEAN /\ t.filed \in BOOLEAN
  /\ DOMAIN t = {"posted", "account", "amount", "deleted", "filed", "words"}

(* Every filter is a record of these fields, None where it is not given.   *)
QueryShape(q) ==
  q = [account |-> q.account, from |-> q.from, to |-> q.to, min |-> q.min, max |-> q.max,
       deleted |-> q.deleted, text |-> q.text, uncategorized |-> q.uncategorized]

ASSUME IdAssumption == Id \subseteq Nat /\ IsFiniteSet(Id)
ASSUME NoneAssumption == None \notin Nat
ASSUME DayAssumption ==
  /\ DOMAIN Day \subseteq Nat \ {0}
  /\ \A q \in Query : QueryShape(q) /\ {q.from, q.to} \subseteq DOMAIN Day \cup {None}
ASSUME RowAssumption == None \notin Txn /\ \A t \in Txn : TxnShape(t)
ASSUME PageAssumption ==
  /\ DefaultPage \in Nat \ {0} /\ MaxPage \in Nat \ {0}
  /\ Limit \subseteq Nat \cup {None}

VARIABLES
  mirror,    \* StoreState.transactions
  pc,
  query,     \* the filter of the walk
  cursor,    \* the offset the client sends next
  got,       \* history: the ids the walk has returned, in order
  first,     \* history: the listing as it was when the walk began
  left,      \* history: a row has left the listing, or moved in it, since
  came       \* history: a row has entered the listing, or moved in it, since

walk == <<query, cursor, got, first, left, came>>
vars == <<mirror, pc, walk>>

-----------------------------------------------------------------------------
\* Fault: a row without an amount passes an amount filter.
AmountPasses(q, t) ==
  t.amount = None \/ ( /\ (q.min # None => t.amount >= q.min)
                       /\ (q.max # None => t.amount <= q.max) )

AmountWithin(q, t) ==
  /\ q.min # None => t.amount # None /\ t.amount >= q.min
  /\ q.max # None => t.amount # None /\ t.amount <= q.max

\* Fault: a row without a date passes a filter on dates.
DatesPass(q, t) ==
  t.posted = 0 \/ ( /\ (q.from # None => t.posted >= q.from)
                    /\ (q.to # None => t.posted <= q.to) )

(* Dates compare as texts.                                                 *)
DatesWithin(q, t) ==
  /\ q.from # None => t.posted > 0 /\ t.posted >= q.from
  /\ q.to # None => t.posted > 0 /\ t.posted <= q.to

(* TxnQuery::matches; words and filed stand for the text search and for    *)
(* CoaRef::is_uncategorized.                                               *)
Matches(q, t) ==
  /\ t.deleted => q.deleted
  /\ q.account \in {None, t.account}
  /\ DatesWithin(q, t)
  /\ AmountWithin(q, t)
  /\ q.text # None => q.text \in t.words
  /\ q.uncategorized => ~t.filed

Hit(m, q, i) == m[i] # None /\ Matches(q, m[i])

(* The order of transactions_snapshot: postedOn, then id, descending.      *)
Before(m, i, j) ==
  \/ m[i].posted > m[j].posted
  \/ m[i].posted = m[j].posted /\ i > j

(* filtered_snapshot: the matching rows in that order.                     *)
Listing(m, q) ==
  LET hits == {i \in Id : Hit(m, q, i)} IN
  [n \in 1..Cardinality(hits) |->
     CHOOSE i \in hits : Cardinality({j \in hits : Before(m, j, i)}) = n - 1]

\* Fault: a limit of 0 is taken as it is.
ClampAbove(l) == LET k == IF l = None THEN DefaultPage ELSE l IN
  IF k > MaxPage THEN MaxPage ELSE k

Clamp(l) == LET k == IF l = None THEN DefaultPage ELSE l IN
  IF k > MaxPage THEN MaxPage ELSE IF k < 1 THEN 1 ELSE k

Least(a, b) == IF a < b THEN a ELSE b

\* Fault: the cursor names the last row returned, not the next.
PageFromLast(s, offset, limit) ==
  SubSeq(s, IF offset = 0 THEN 1 ELSE offset, Least(offset + limit, Len(s)))

Page(s, offset, limit) == SubSeq(s, offset + 1, Least(offset + limit, Len(s)))

\* Fault: the cursor counts one row more than the page holds.
NextCursorAhead(s, offset, limit) ==
  LET consumed == offset + Len(Page(s, offset, limit)) + 1 IN
  IF consumed < Len(s) THEN consumed ELSE None

(* The cursor of the next page, or None where the listing is used up.      *)
NextCursor(s, offset, limit) ==
  LET consumed == offset + Len(Page(s, offset, limit)) IN
  IF consumed < Len(s) THEN consumed ELSE None

-----------------------------------------------------------------------------
Init ==
  /\ mirror \in [Id -> Txn \cup {None}]
  /\ pc = "idle" /\ query \in Query /\ cursor = 0
  /\ got = <<>> /\ first = <<>> /\ left = FALSE /\ came = FALSE

(* One call: filter, sort and cut under one read of the mirror.            *)
Answer(q, offset, l) ==
  LET s == Listing(mirror, q)
      next == NextCursor(s, offset, Clamp(l))
  IN /\ got' = got \o Page(s, offset, Clamp(l))
     /\ pc' = IF next = None THEN "done" ELSE "walking"
     /\ cursor' = IF next = None THEN 0 ELSE next

FirstPage(q, l) ==
  /\ pc = "idle"
  /\ query' = q /\ first' = Listing(mirror, q)
  /\ Answer(q, 0, l)
  /\ UNCHANGED <<mirror, left, came>>

NextPage(l) ==
  /\ pc = "walking"
  /\ Answer(query, cursor, l)
  /\ UNCHANGED <<mirror, query, first, left, came>>

NewWalk ==
  /\ pc = "done"
  /\ pc' = "idle" /\ got' = <<>> /\ first' = <<>>
  /\ left' = FALSE /\ came' = FALSE
  /\ UNCHANGED <<mirror, query, cursor>>

(* A sync or a write-through replaces a row; rows never leave the map, a   *)
(* deleted one becomes a tombstone.  (Not between the last page and        *)
(* NewWalk, so that a walk is judged by the mirror it ended on.)           *)
Change(i, t) ==
  /\ pc # "done"
  /\ mirror' = [mirror EXCEPT ![i] = t]
  /\ LET was == Hit(mirror, query, i)
         is  == Hit(mirror', query, i)
         moves == was /\ is /\ mirror[i].posted # t.posted
     IN /\ left' = (left \/ (pc = "walking" /\ ((was /\ ~is) \/ moves)))
        /\ came' = (came \/ (pc = "walking" /\ ((is /\ ~was) \/ moves)))
  /\ UNCHANGED <<pc, query, cursor, got, first>>

Next ==
  \/ \E q \in Query, l \in Limit : FirstPage(q, l)
  \/ \E l \in Limit : NextPage(l)
  \/ NewWalk
  \/ \E i \in Id, t \in Txn : Change(i, t)

Spec == Init /\ [][Next]_vars

-----------------------------------------------------------------------------
Ids(s) == {s[n] : n \in 1..Len(s)}

(* A walk during which no row leaves the listing or moves in it returns    *)
(* every row the listing had when it began, whatever limits it asks for    *)
(* and whatever rows arrive: an offset cursor may repeat rows then, but    *)
(* skips none.                                                             *)
NoneMissed == pc = "done" /\ ~left => Ids(first) \subseteq Ids(got)

(* A walk during which no row enters the listing or moves in it returns no *)
(* row twice, though rows may leave.                                       *)
NoneTwice == ~came => \A m, n \in 1..Len(got) : got[m] = got[n] => m = n

(* A walk over a listing that does not change returns exactly that         *)
(* listing, in its order; a row whose amount is not known passes no filter *)
(* on amounts.                                                             *)
WalkIsListing ==
  pc = "done" /\ ~left /\ ~came =>
    /\ got = first
    /\ query.min # None => \A i \in Ids(got) : mirror[i].amount # None

(* A listing bounded by dates holds the rows of the days from the first    *)
(* bound to the last, both included, that pass the other filters.          *)
DatesHonored ==
  LET all == [query EXCEPT !.from = None, !.to = None]
      Within(d) == /\ query.from # None => d >= Day[query.from]
                   /\ query.to # None => d <= Day[query.to]
  IN pc = "done" /\ ~left /\ ~came /\ query # all =>
       Ids(got) = {i \in Id : /\ Hit(mirror, all, i) /\ mirror[i].posted > 0
                              /\ Within(Day[mirror[i].posted])}

(* Every page that is not the last moves the cursor on, whatever limit the *)
(* client asks for, 0 included, and whatever happened to the mirror; and   *)
(* it stays below the number of rows: a client that follows it arrives.    *)
CursorAdvances ==
  [][pc' = "walking" /\ mirror' = mirror =>
       cursor < cursor' /\ cursor' < Cardinality(Id)]_vars
=============================================================================
