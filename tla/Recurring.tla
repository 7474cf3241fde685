------------------------------ MODULE Recurring -----------------------------
(***************************************************************************)
(* Recurring-merchant detection (detect_recurring in src/recurring.rs), as *)
(* the mirror grows by one transaction at a time.                          *)
(*                                                                         *)
(* A merchant name is a record of what normalize_payee keeps of it (key,   *)
(* None where nothing is left) and of the store-number noise it drops.  A  *)
(* date is a text, and texts are numbered in their order; those of Day are *)
(* dates, padded or not.  Amounts only decorate a group and are left out.  *)
(***************************************************************************)
EXTENDS Integers, Sequences, FiniteSets

CONSTANTS
  Txn,       \* rows: [posted, renamed, payee, inferred, account, deleted]
  None,      \* an absent field, argument or key
  Day,       \* the day that each date is
  From,      \* date_from arguments
  Account,   \* account_id arguments
  Minimum,   \* min_occurrences arguments
  MaxTxns    \* bound of the model: rows in the mirror

ASSUME TxnAssumption ==
  \A t \in Txn : t.posted \in Nat \cup {None} /\ t.deleted \in BOOLEAN
ASSUME NoneAssumption == None \notin Nat
ASSUME DayAssumption == \A d \in DOMAIN Day : d \in Nat /\ Day[d] \in Nat
ASSUME ArgumentAssumption == From \subseteq DOMAIN Day \cup {None} /\ Minimum \subseteq Nat

VARIABLES
  txns,      \* the snapshot, most recent first
  minimum, from, account

args == <<minimum, from, account>>
vars == <<txns, args>>

-----------------------------------------------------------------------------
(* The name a row is known by, and the identity normalize_payee gives it:  *)
(* letter case, digits and store numbers do not count.                     *)
merchant_of(t) ==
  IF t.renamed # None THEN t.renamed
  ELSE IF t.payee # None THEN t.payee ELSE t.inferred

normalize_payee(name) == name.key

(* Gaps a cadence accepts, and the gap it expects.                         *)
Cadences ==
  { [name |-> "weekly",     gaps |-> 6..8,     expected |-> 7],
    [name |-> "biweekly",   gaps |-> 12..16,   expected |-> 14],
    [name |-> "monthly",    gaps |-> 26..35,   expected |-> 30],
    [name |-> "bimonthly",  gaps |-> 55..70,   expected |-> 61],
    [name |-> "quarterly",  gaps |-> 80..100,  expected |-> 91],
    [name |-> "semiannual", gaps |-> 165..200, expected |-> 182],
    [name |-> "annual",     gaps |-> 330..400, expected |-> 365] }

(* The sequence s in ascending order.                                      *)
Sorted(s) ==
  LET Rank(i) == Cardinality({j \in DOMAIN s : s[j] < s[i] \/ (s[j] = s[i] /\ j < i)})
  IN [n \in DOMAIN s |-> s[CHOOSE i \in DOMAIN s : Rank(i) = n - 1]]

median(sorted) ==
  LET n == Len(sorted) IN
  IF n = 0 THEN 0
  ELSE IF n % 2 = 1 THEN sorted[n \div 2 + 1]
  ELSE (sorted[n \div 2] + sorted[n \div 2 + 1]) \div 2

(* date_from and a posting date compare as texts.                          *)
IsMember(t, key) ==
  /\ ~t.deleted /\ account \in {None, t.account}
  /\ t.posted # None /\ (from # None => t.posted >= from)
  /\ t.posted \in DOMAIN Day
  /\ merchant_of(t) # None /\ normalize_payee(merchant_of(t)) = key

(* The elements of s at the places I, in their order.                      *)
Picked(s, I) ==
  [n \in 1..Cardinality(I) |-> s[CHOOSE i \in I : Cardinality({j \in I : j < i}) = n - 1]]

Members(key) == Picked(txns, {n \in DOMAIN txns : IsMember(txns[n], key)})

Days(key) == LET m == Members(key) IN Sorted([n \in DOMAIN m |-> Day[m[n].posted]])

\* Fault: a same-day repeat counts as a gap of no days.
GapsWithRepeats(d) == [n \in 1..(Len(d) - 1) |-> d[n + 1] - d[n]]

(* Gaps between consecutive occurrences; same-day repeats leave none.      *)
Gaps(d) ==
  LET gaps == [n \in 1..(Len(d) - 1) |-> d[n + 1] - d[n]]
  IN Picked(gaps, {n \in DOMAIN gaps : gaps[n] > 0})

Abs(n) == IF n < 0 THEN -n ELSE n
Deviations(gaps, mid) == [n \in DOMAIN gaps |-> Abs(gaps[n] - mid)]

\* Fault: the tolerance is the expected gap itself.
WholeGap(expected) == expected

(* 20% of the expected gap, at least 2 and at most 20 days.                *)
Tolerance(expected) ==
  LET fifth == expected \div 5 IN
  IF fifth < 2 THEN 2 ELSE IF fifth > 20 THEN 20 ELSE fifth

\* Fault: the largest deviation is judged, not the median one.
WorstDeviation(gaps, mid) ==
  LET d == Sorted(Deviations(gaps, mid)) IN d[Len(d)]

Deviation(gaps, mid) == median(Sorted(Deviations(gaps, mid)))

MinOccurrences == IF minimum < 2 THEN 2 ELSE minimum

(* The groups of the merchant `key`: none, or the one reported.            *)
Groups(key) ==
  LET days == Days(key)
      gaps == Sorted(Gaps(days))
      mid  == median(gaps)
  IN IF Len(days) < MinOccurrences \/ Len(gaps) + 1 < MinOccurrences THEN {}
     ELSE { [cadence |-> c.name, occurrences |-> Len(days), mid |-> mid,
             mad |-> Deviation(gaps, mid), last |-> days[Len(days)],
             next |-> days[Len(days)] + mid] :
            c \in { c \in Cadences :
                      mid \in c.gaps /\ Deviation(gaps, mid) <= Tolerance(c.expected) } }

-----------------------------------------------------------------------------
Init == txns = <<>> /\ minimum \in Minimum /\ from \in From /\ account \in Account

Newest == IF txns = <<>> THEN None ELSE txns[1].posted

(* The mirror gains a row.  Rows are added in the order of the snapshot,   *)
(* so that every sorted snapshot is reached, once.                         *)
Added(t) ==
  /\ Len(txns) < MaxTxns
  /\ Newest # None => t.posted # None /\ Newest <= t.posted
  /\ txns' = <<t>> \o txns
  /\ UNCHANGED args

Next == \E t \in Txn : Added(t)

Spec == Init /\ [][Next]_vars

-----------------------------------------------------------------------------
Keys == {merchant_of(t).key : t \in {t \in Txn : merchant_of(t) # None}} \ {None}

Called(t) ==
  IF t.renamed = None THEN (IF t.payee = None THEN t.inferred ELSE t.payee) ELSE t.renamed

(* The days, from the day asked for on, on which a row of the account not  *)
(* deleted names merchant k, written without the code's helpers.           *)
PaidOn(k) ==
  { Day[txns[n].posted] : n \in { n \in DOMAIN txns : LET t == txns[n] IN
      /\ ~t.deleted /\ t.posted \in DOMAIN Day
      /\ account = None \/ t.account = account
      /\ from = None \/ Day[t.posted] >= Day[from]
      /\ Called(t) # None /\ Called(t).key = k } }

(* The text of date_from stands to the dates of the rows as its day does.  *)
(* An unpadded date may not, and the filter then drops rows it should keep *)
(* or keeps rows it should drop.                                           *)
ComparesAsDay ==
  from # None => \A n \in DOMAIN txns : LET date == txns[n].posted IN
    date \in DOMAIN Day => (date >= from <=> Day[date] >= Day[from])

Successive(S) ==
  { p \in S \X S : p[1] < p[2] /\ \A c \in S : ~(p[1] < c /\ c < p[2]) }

Intervals(S) == {p[2] - p[1] : p \in Successive(S)}

Latest(S) == CHOOSE a \in S : \A b \in S : b <= a

(* A merchant paid at a fixed interval that a cadence knows is reported,   *)
(* with that cadence and the next payment one interval after the last,     *)
(* however often a day repeats and whatever store numbers the names carry, *)
(* unless date_from does not compare as its day.                           *)
RegularReported ==
  ComparesAsDay => \A k \in Keys : LET S == PaidOn(k) IN
    \A g \in Intervals(S) : \A c \in {c \in Cadences : g \in c.gaps} :
    ( /\ Cardinality(S) >= 2 /\ Cardinality(S) >= minimum
      /\ Intervals(S) = {g} )
      => \E r \in Groups(k) : r.cadence = c.name /\ r.next = Latest(S) + g

(* One irregular payment among three intervals or more does not hide the   *)
(* cadence of the others, unless date_from does not compare as its day.    *)
OneOutlierTolerated ==
  ComparesAsDay => \A k \in Keys : LET S == PaidOn(k) IN
    \A g \in Intervals(S) : \A c \in {c \in Cadences : g \in c.gaps} :
    ( /\ Cardinality(S) >= 4 /\ Cardinality(S) >= minimum
      /\ Cardinality({p \in Successive(S) : p[2] - p[1] # g}) = 1 )
      => \E r \in Groups(k) : r.cadence = c.name

(* A merchant that is reported was paid on min_occurrences distinct days,  *)
(* half of its intervals at least lie within 20 days and within a third of *)
(* the reported one, and the next payment it names lies after the last it  *)
(* had (which says nothing of today), unless date_from does not compare as *)
(* its day.                                                                *)
ReportedIsRegular ==
  ComparesAsDay => \A k \in Keys : \A r \in Groups(k) :
    LET S == PaidOn(k)
        near == {p \in Successive(S) :
                   LET off == Abs(p[2] - p[1] - r.mid) IN off <= 20 /\ 3 * off <= r.mid}
    IN /\ Cardinality(S) >= 2 /\ Cardinality(S) >= minimum
       /\ 2 * Cardinality(near) >= Cardinality(Successive(S))
       /\ r.next > Latest(S)
=============================================================================
