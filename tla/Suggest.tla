------------------------------ MODULE Suggest -------------------------------
(***************************************************************************)
(* The counting tools over the snapshot (src/local.rs): search_merchants   *)
(* (aggregate_merchants) and suggest_categories_for_merchant.              *)
(*                                                                         *)
(* A text asked for is a merchant name, or what all names of one key have  *)
(* in common (its noise is None).  Rows carry a coa [type, id], or None.   *)
(***************************************************************************)
EXTENDS Recurring

CONSTANTS
  Text,      \* merchant and query arguments
  Limit,     \* limit arguments
  MaxListed, \* 20 suggestions, MAX_PAGE merchants
  NameRank,  \* the place of a name in the order of texts
  IdRank     \* the place of a category id in it

IsName(r) == r = [key |-> r.key, noise |-> r.noise]

ASSUME NameAssumption ==
  /\ \A t \in Txn : \A name \in {t.renamed, t.payee, t.inferred} \ {None} : IsName(name)
  /\ \A text \in Text : IsName(text)
ASSUME LimitAssumption == Limit \subseteq Nat /\ MaxListed \in Nat \ {0}

-----------------------------------------------------------------------------
contains(name, text) == name.key = text.key /\ text.noise \in {None, name.noise}

MatchMode == {"exact", "contains"}

Live(deleted) ==
  {n \in DOMAIN txns : (deleted \/ ~txns[n].deleted) /\ merchant_of(txns[n]) # None}

Hit(t, text, mode) ==
  IF mode = "exact" THEN merchant_of(t) = text ELSE contains(merchant_of(t), text)

HasCoa(t) == t.coa # None /\ None \notin {t.coa.type, t.coa.id}

(* More rows first, then by name or id; entries that tie in both come in   *)
(* the order of a hash map.                                                *)
Beats(a, b) == a.count > b.count \/ (a.count = b.count /\ a.rank < b.rank)

Orders(found) ==
  { s \in [1..Cardinality(found) -> found] :
      \A i, j \in DOMAIN s : i < j => s[i] # s[j] /\ ~Beats(s[j], s[i]) }

Cut(n, limit) ==
  LET most == IF limit < 1 THEN 1 ELSE IF limit > MaxListed THEN MaxListed ELSE limit
  IN IF n < most THEN n ELSE most

\* Fault: the entries are cut to the limit before they are sorted.
CutFirst(found, limit) ==
  UNION {Orders(S) : S \in {S \in SUBSET found : Cardinality(S) = Cut(Cardinality(found), limit)}}

Answers(found, limit) == {SubSeq(s, 1, Cut(Len(s), limit)) : s \in Orders(found)}

aggregate_merchants(text, limit, deleted) ==
  LET rows  == {n \in Live(deleted) : contains(merchant_of(txns[n]), text)}
      Of(m) == {n \in rows : merchant_of(txns[n]) = m}
  IN Answers({[what |-> m, rank |-> NameRank[m], count |-> Cardinality(Of(m))] :
                m \in {merchant_of(txns[n]) : n \in rows}}, limit)

suggest_categories(text, mode, limit) ==
  LET rows  == {n \in Live(FALSE) : Hit(txns[n], text, mode) /\ HasCoa(txns[n])}
      Of(c) == {n \in rows : txns[n].coa = c}
  IN Answers({[what |-> c, rank |-> IdRank[c.id], count |-> Cardinality(Of(c))] :
                c \in {txns[n].coa : n \in rows}}, limit)

-----------------------------------------------------------------------------
(* The rows of the mirror that show the merchant asked for.                *)
Shown(text, mode) ==
  { n \in DOMAIN txns : LET name == Called(txns[n]) IN
      /\ ~txns[n].deleted /\ name # None /\ name.key = text.key
      /\ name.noise = text.noise \/ (mode = "contains" /\ text.noise = None) }

Filed(text, mode, c) == {n \in Shown(text, mode) : txns[n].coa = c}

(* What a suggestion says is so, and nothing better is left out: the count *)
(* is that of the merchant's rows in the category, and a category of more  *)
(* of its rows stands before one of fewer, whatever the limit.             *)
SuggestionsTrue(text, mode, limit) ==
  \A s \in suggest_categories(text, mode, limit) :
    /\ s = <<>> <=> \A n \in Shown(text, mode) : ~HasCoa(txns[n])
    /\ \A k \in DOMAIN s :
         /\ s[k].count = Cardinality(Filed(text, mode, s[k].what))
         /\ \A n \in Shown(text, mode) : HasCoa(txns[n]) =>
              LET c == txns[n].coa IN
              Cardinality(Filed(text, mode, c)) > s[k].count
                => \E j \in 1..(k - 1) : s[j].what = c

(* The sum of the counts of s.                                             *)
Total(s) == Cardinality(UNION {{k} \X (1..s[k].count) : k \in DOMAIN s})

(* With nothing cut off, a merchant's suggestions add up to its rows in    *)
(* search_merchants, less those in no category.                            *)
ToolsAgree(text) ==
  \A m \in aggregate_merchants(text, MaxListed, FALSE),
     s \in suggest_categories(text, "contains", MaxListed) :
    Len(m) < MaxListed /\ Len(s) < MaxListed =>
      Total(s) = Total(m) - Cardinality({n \in Shown(text, "contains") : ~HasCoa(txns[n])})

(* The counting tools tell the truth about the mirror, and the same truth. *)
CountsTrue ==
  \A text \in Text :
    /\ ToolsAgree(text)
    /\ \A mode \in MatchMode, limit \in Limit : SuggestionsTrue(text, mode, limit)
=============================================================================
