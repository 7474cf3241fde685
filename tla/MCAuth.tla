------------------------------- MODULE MCAuth -------------------------------
(* The instance of Auth that TLC checks: a process that may fall back to a   *)
(* password login, and one that may not, lacks the client secret and is told *)
(* which device to be; a restart may turn either into the other.             *)
EXTENDS Auth, TLC

CONSTANTS t1, t2
TwoTasks == {t1, t2}

OptedIn == [autoLogin |-> TRUE,  secret |-> TRUE,  device |-> 0]
Told    == [autoLogin |-> FALSE, secret |-> FALSE, device |-> 9]
Starts  == {OptedIn, Told}
=============================================================================
