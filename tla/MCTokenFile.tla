----------------------------- MODULE MCTokenFile -----------------------------
(* The instances of TokenFile that TLC checks. *)
EXTENDS TokenFile

CONSTANTS server, s1, s2
OneProcess == {server}
OneSaver   == {s1}
TwoSavers  == {s1, s2}
OfServer   == [s \in Saver |-> server]
=============================================================================
