----------------------------- MODULE LedgerView ------------------------------
(***************************************************************************)
(* What the sync store promises of its mirror (src/store.rs): a view of    *)
(* the ledger that changes by whole refreshes, each row of which is as the *)
(* ledger had it at some moment of the refresh, and by write-throughs of   *)
(* one row.  A refresh that fails shows nothing.                           *)
(***************************************************************************)
CONSTANT Row

VARIABLES
  ledger,  \* each row upstream
  view,    \* each row of the mirror
  open,    \* a refresh is in progress
  since,   \* what each row has been since it began, its state then included
  astray   \* the rows a write-through may have left behind the ledger

vars == <<ledger, view, open, since, astray>>

Now == [r \in Row |-> {ledger[r]}]

Init == ~open /\ since = Now /\ astray = {}

(* A row changes upstream.                                                 *)
Change(r) ==
  /\ \A s \in Row \ {r} : ledger'[s] = ledger[s]
  /\ since' = [since EXCEPT ![r] = (IF open THEN @ ELSE {}) \cup {ledger'[r]}]
  /\ UNCHANGED <<view, open, astray>>

Begin == ~open /\ open' /\ UNCHANGED <<ledger, view, since, astray>>

Quit == open /\ ~open' /\ since' = Now /\ UNCHANGED <<ledger, view, astray>>

Refresh ==
  /\ open /\ ~open' /\ since' = Now
  /\ astray' \subseteq astray
  /\ \A r \in Row : view'[r] \in since[r] \/ (r \in astray' /\ view'[r] = view[r])
  /\ UNCHANGED ledger

WriteThrough(r) ==
  /\ \A s \in Row \ {r} : view'[s] = view[s]
  /\ astray' \in {astray \cup {r}, astray \ {r}}
  /\ UNCHANGED <<ledger, open, since>>

Next ==
  \/ Begin \/ Quit \/ Refresh
  \/ \E r \in Row : Change(r) \/ WriteThrough(r)

Spec == Init /\ [][Next]_vars
=============================================================================
