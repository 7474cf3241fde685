----------------------------- MODULE MCWriteLane -----------------------------
(* The instance of WriteLane that TLC checks: a process may start with a      *)
(* quota, without one, or without the unverified endpoints.                   *)
EXTENDS WriteLane, TLC

CONSTANTS t1, t2
TwoTasks == {t1, t2}
Alike    == Permutations(TwoTasks)

Limited  == [allow |-> TRUE, unverified |-> TRUE,  quota |-> 3]
Verified == [allow |-> TRUE, unverified |-> FALSE, quota |-> 0]
Starts   == {Limited, Verified}
=============================================================================
