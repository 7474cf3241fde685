---------------------------- MODULE MCRecurring -----------------------------
(* The instance of Recurring and Suggest that TLC checks: a merchant under *)
(* two store numbers and under a renamed payee, another one, a name of     *)
(* digits only, a name that is only inferred, rows of another account and  *)
(* rows that are deleted or have no date, or a text that is none; two      *)
(* categories, rows in neither, and a coa without an id.                   *)
EXTENDS Suggest

CONSTANTS tea, gym
Shop(n)   == [key |-> tea, noise |-> n]
Gym       == [key |-> gym, noise |-> 0]
Number    == [key |-> None, noise |-> 5]

(* The dates are 2026-07-04 and -05, 2026-07-1 (the first, unpadded),      *)
(* 2026-07-11, -18, -19 and -25 and 2026-08-01, in the order of texts and  *)
(* counted from the first of July.                                         *)
DayOf     == <<3, 4, 0, 10, 17, 18, 24, 31>>
Unpadded  == 3
NoDate    == 9
Padded    == DOMAIN DayOf \ {Unpadded}

Coa(type, id) == [type |-> type, id |-> id]
CoaOn(d) ==
  CASE d \in {1, 4} -> Coa("CATEGORY", "c1")
    [] d \in {2, 5} -> Coa("CATEGORY", "c2")
    [] d = 6        -> Coa("TRANSFER", "c1")
    [] d = 7        -> Coa("CATEGORY", None)
    [] OTHER        -> None

Kept(d, r, p) ==
  [posted |-> d, renamed |-> r, payee |-> p, inferred |-> Gym, account |-> "a",
   deleted |-> FALSE, coa |-> CoaOn(d)]
Renamed(d)  == Kept(d, Shop(2), Gym)
Inferred(d) == [Kept(d, None, None) EXCEPT !.inferred = Shop(2)]

Rows ==
  { Kept(d, None, Shop(1)) : d \in Padded }
    \cup { Renamed(d) : d \in Padded \ {5, 8} } \cup { Inferred(8) }
    \cup { [Renamed(5) EXCEPT !.account = "b"], Kept(Unpadded, None, Shop(1)) }
    \cup { Kept(5, None, Gym), Kept(8, None, Gym), [Inferred(4) EXCEPT !.inferred = None],
            Kept(5, None, Number), Kept(None, None, Shop(1)), Kept(NoDate, None, Shop(1)) }
    \cup { [Kept(5, None, Shop(1)) EXCEPT !.deleted = TRUE] }

Texts   == {Shop(1), Gym, [Shop(1) EXCEPT !.noise = None]}
Limits  == {0, 1, 2, 9}
Names   == [m \in {Shop(1), Shop(2), Gym, Number} |->
              CASE m = Gym -> 1 [] m = Number -> 2 [] OTHER -> 2 + m.noise]
Ids     == [c \in {"c1", "c2"} |-> IF c = "c1" THEN 1 ELSE 2]
=============================================================================
