----------------------------- MODULE MCCsvFile ------------------------------
(* The instances of CsvFile that TLC checks: headers complete, reordered,  *)
(* with a title given twice, and incomplete; rows good, blank, short, and  *)
(* failing on each field; mirror rows the template can and cannot express, *)
(* a named tag, one without a name, and names that do not read back.       *)
EXTENDS CsvFile

Dates   == [c \in {"2026-07-04", "7/4/2026"} |-> "2026-07-04"]
AsMDY   == [d \in {"2026-07-04", "2026-7-4"} |-> "7/4/2026"]
Amounts == [c \in {"-4.5", "($4.5)"} |-> "-4.5"]
Shown   == [a \in {"-4.5"} |-> a]
Name    == [t \in {"g1", "g2", "g3"} |->
              CASE t = "g1" -> "a" [] t = "g2" -> "a|b" [] OTHER -> " a"]
Split   == [c \in {"a", "a|b"} |-> IF c = "a" THEN <<"a">> ELSE <<"a", "b">>]
Join    == [t \in {<<>>, <<"a">>, <<"a", "b">>, <<"a|b">>, <<" a">>} |->
              CASE t = <<>> -> "" [] t = <<"a">> -> "a" [] t = <<" a">> -> " a" [] OTHER -> "a|b"]
Trims   == [c \in {" ", " a", " cart"} |->
              CASE c = " " -> "" [] c = " a" -> "a" [] OTHER -> "cart"]
Guard   == [c \in {"=sum"} |-> "'=sum"]

Records ==
  { <<"date", "payee", "amount", "tags">>, <<"amount", "memo", "date", "description">>,
    <<"date", "payee", "tags">>, <<"payee", "date", "amount", "payee">>,
    <<"7/4/2026", "cart", "-4.5", "a|b">>, <<"2026-07-04", " cart", "($4.5)">>, <<"-4.5", "lunch", "7/4/2026", "cart">>,
    <<"soon", "cart", "-4.5">>, <<"7/4/2026", "cart">>, <<"7/4/2026", " ", "-4.5", "a">>,
    <<"", " ", "">> }

Row(d, p, a, t) == [posted |-> d, payee |-> p, amount |-> a, tags |-> t, memo |-> None]

Day == "2026-07-04"
Kept ==
  { Row(Day, "cart", "-4.5", <<>>), Row(Day, "shop", "-4.5", <<"g1">>),
    Row(Day, "cart", "-4.5", <<"g1", "b">>) }
Odd ==
  { Row(Day, "=sum", "-4.5", <<>>), Row(Day, None, "-4.5", <<"g1">>),
    Row(None, "cart", "-4.5", <<>>), Row(Day, "cart", None, <<>>),
    Row(Day, " cart", "-4.5", <<>>), Row("2026-7-4", "cart", "-4.5", <<>>),
    Row(Day, "cart", "-4.5", <<"g2">>), Row(Day, "cart", "-4.5", <<"g3">>),
    [Row(Day, "cart", "-4.5", <<>>) EXCEPT !.memo = "lunch"] }
AllRows == Kept \cup Odd
=============================================================================
