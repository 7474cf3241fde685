------------------------------ MODULE MCRequest ------------------------------
(* The instances of Request that TLC checks. *)
EXTENDS Request

CONSTANTS t1, t2
TwoTasks == {t1, t2}
=============================================================================
