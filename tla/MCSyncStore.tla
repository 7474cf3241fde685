----------------------------- MODULE MCSyncStore -----------------------------
(* The instances of SyncStore that TLC checks: two tasks that read and write, *)
(* and one of each.                                                           *)
EXTENDS SyncStore, TLC

CONSTANTS t1, t2, r1, r2
OneTask  == {t1}
TwoTasks == {t1, t2}
TwoRows  == {r1, r2}
OneRow   == {r1}
Alike    == Permutations(TwoRows) \cup Permutations(TwoTasks)
=============================================================================
