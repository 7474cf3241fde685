---------------------------- MODULE TokenRegister ----------------------------
(***************************************************************************)
(* What the token cache promises of its file (src/token_cache.rs): a       *)
(* register of updates that takes a new value in one step, never forgets   *)
(* an update it holds, and holds every update whose save returned Ok.      *)
(***************************************************************************)
VARIABLES
  known,   \* the updates made so far
  stored,  \* the updates a process that starts now finds
  acked    \* the updates whose save returned Ok

Init == known = {} /\ stored = {} /\ acked = {}

Update ==
  /\ known \subseteq known'
  /\ UNCHANGED <<stored, acked>>

Commit ==
  /\ stored \subseteq stored' /\ stored' \subseteq known
  /\ UNCHANGED <<known, acked>>

Acknowledge ==
  /\ acked \subseteq acked' /\ acked' \subseteq stored
  /\ UNCHANGED <<known, stored>>

Next == Update \/ Commit \/ Acknowledge

Spec == Init /\ [][Next]_<<known, stored, acked>>
=============================================================================
