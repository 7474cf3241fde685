---------------------------- MODULE MCReadTools -----------------------------
(* The instances of ReadTools that TLC checks: rows that differ in every   *)
(* field a filter looks at, and filters on each of them.                   *)
EXTENDS ReadTools

Row(p, a, m, d) == [posted |-> p, account |-> a, amount |-> m, deleted |-> d,
                    filed |-> (m = 5), words |-> IF p = 2 THEN {"tea"} ELSE {}]

Rows == { Row(1, "x", 5, FALSE), Row(2, "x", None, FALSE), Row(0, "y", 7, FALSE),
          Row(2, "y", 7, TRUE) }

All == [account |-> None, from |-> None, to |-> None, min |-> None, max |-> None,
        deleted |-> FALSE, text |-> None, uncategorized |-> FALSE]

Padded == <<1, 2>>

(* 2026-07-04, 2026-08-01 and 2026-7-5, in the order of the texts.          *)
Unpadded == <<4, 32, 5>>
FromUnpadded == {[All EXCEPT !.from = 3]}
BothDays == {Row(1, "x", 5, FALSE), Row(2, "x", 5, FALSE)}

Filters == { [All EXCEPT !.deleted = TRUE], [All EXCEPT !.min = 5, !.max = 6],
             [All EXCEPT !.from = 1, !.to = 1], [All EXCEPT !.account = "x"],
             [All EXCEPT !.text = "tea"], [All EXCEPT !.uncategorized = TRUE] }
=============================================================================
