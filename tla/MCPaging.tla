------------------------------ MODULE MCPaging ------------------------------
(* The instance of Paging that TLC checks. *)
EXTENDS Paging

CONSTANTS u0, u1, u2, u3, foreign
Served  == {u0, u1, u2, u3, foreign}
Trusted == {u0, u1, u2, u3}
=============================================================================
