------------------------------- MODULE MCEdit -------------------------------
(* The instances of Edit that TLC checks: every patch of up to two fields,   *)
(* and four rows of another client: one that holds values no argument can    *)
(* give, and one that cannot be PUT.                                         *)
EXTENDS Edit, MCCsvFile, TLC

CONSTANT tagObject

Values ==
  [payee |-> {"cart", "shop"}, memo |-> {"", "lunch"}, categoryId |-> {"c1", "c2"},
   tags |-> {<<"a">>, <<"a", "b">>}, postedOn |-> {Day, "soon"},
   amount |-> {"-4.5", "7", "much"}]

Singles == UNION {{(f :> v) : v \in Values[f]} : f \in DOMAIN Values}
Patches == {<<>>} \cup {p @@ q : p, q \in Singles}

Entry == [accountId |-> "a1", postedOn |-> Day, payee |-> "shop", amount |-> "7"]
Entries ==
  {Entry, [memo |-> "lunch"] @@ Entry, [categoryId |-> "c1"] @@ Entry,
   [clientId |-> "k1"] @@ Entry, [clientId |-> ""] @@ Entry,
   [categoryId |-> ""] @@ Entry, [postedOn |-> "soon"] @@ Entry}

Plain ==
  [id |-> "i1", clientId |-> "k1", accountId |-> "a1", postedOn |-> Day, payee |-> "cart",
   coa |-> [type |-> "UNCATEGORIZED", id |-> "0", extra |-> None], amount |-> "-4.5", state |-> "CLEARED",
   matchState |-> "MATCHED", source |-> "FEED", type |-> "CASH_FLOW"]
Marked == [coa |-> category("c2"), memo |-> "lunch", tags |-> <<"a">>] @@ Plain
Foreign ==
  [coa |-> [category("c2") EXCEPT !.extra = "vendorCoaHint"], tags |-> <<tagObject>>,
   postedOn |-> "20260704"] @@ Marked
Broken == [f \in DOMAIN Plain \ {"clientId", "coa"} |-> Plain[f]]
Others == {Plain, Marked, Foreign, Broken}

Cats   == {"c1", ""}
Isos   == {Day, "2026-07-05"}
Read   == [t \in {"-4.5", "7"} |-> t]
=============================================================================
