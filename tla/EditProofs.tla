----------------------------- MODULE EditProofs -----------------------------
(***************************************************************************)
(* Proofs about Edit and CsvFile: what a created row can be used for, and  *)
(* what an import and an export make of a file, for any arguments, rows    *)
(* and records, and files and snapshots of any length.                     *)
(***************************************************************************)
EXTENDS Edit, FiniteSetTheorems, SequenceTheorems, TLAPS

(***************************************************************************)
(* Creation.                                                               *)
(***************************************************************************)
Musts == {"accountId", "postedOn", "payee", "amount"}

\* What creates a row has the fields that are never filled in.
LEMMA CandidateMusts == ASSUME NEW r PROVE Musts \subseteq DOMAIN Candidate(r)
<1> DEFINE must == [accountId |-> Account, postedOn |-> r.posted, payee |-> r.payee,
                    amount |-> r.amount]
<1>1. DOMAIN must = Musts
  BY DEF Musts
<1>2. \E rest : Candidate(r) = Over(must, rest)
  BY DEF Candidate
<1>3. DOMAIN must \subseteq DOMAIN Candidate(r)
  BY <1>2 DEF Over
<1>4. QED
  BY <1>1, <1>3

LEMMA NamedMusts ==
  ASSUME NEW in \in CreateInput PROVE Musts \subseteq DOMAIN Named(in)
<1>1. Musts \subseteq DOMAIN in
  BY CreateAssumption DEF Musts
<1>2. \A f \in Musts : f # "categoryId"
  BY DEF Musts
<1>3. DOMAIN Named(in) = {IF g = "categoryId" THEN "coa" ELSE g : g \in DOMAIN in}
  BY DEF Named
<1>4. QED
  BY <1>1, <1>2, <1>3

Created(new) == Over(to_create_body(new), [id |-> Fresh])

\* The fields a created row has, and where their values come from.
LEMMA CreatedFields ==
  ASSUME NEW new
  PROVE  /\ DOMAIN Created(new) = DOMAIN new \cup {"clientId", "id"} \cup DOMAIN Defaults
         /\ \A f \in DOMAIN new : Created(new)[f] = new[f]
         /\ "clientId" \notin DOMAIN new => Created(new)["clientId"] = Fresh
         /\ "id" \notin DOMAIN new => Created(new)["id"] = Fresh
         /\ \A f \in DOMAIN Defaults \ DOMAIN new : Created(new)[f] = Defaults[f]
<1> DEFINE key == [clientId |-> Fresh]
           id  == [id |-> Fresh]
<1>1. DOMAIN key = {"clientId"} /\ key["clientId"] = Fresh /\ DOMAIN id = {"id"} /\ id["id"] = Fresh
  OBVIOUS
<1>2. DOMAIN Defaults = {"coa", "state", "matchState", "source", "type"}
  BY DEF Defaults
<1> HIDE DEF key, id
<1>3. PICK rest : rest = Over(key, Defaults)
  OBVIOUS
<1>4. /\ DOMAIN rest = {"clientId"} \cup DOMAIN Defaults /\ rest["clientId"] = Fresh
      /\ \A f \in DOMAIN Defaults : rest[f] = Defaults[f]
  BY <1>1, <1>2, <1>3 DEF Over
<1>5. PICK body : body = Over(new, rest)
  OBVIOUS
<1>6. /\ DOMAIN body = DOMAIN new \cup {"clientId"} \cup DOMAIN Defaults
      /\ \A f \in DOMAIN new : body[f] = new[f]
      /\ "clientId" \notin DOMAIN new => body["clientId"] = Fresh
      /\ \A f \in DOMAIN Defaults \ DOMAIN new : body[f] = Defaults[f]
  BY <1>4, <1>5 DEF Over
<1>7. Created(new) = Over(body, id)
  BY <1>3, <1>5 DEF Created, to_create_body, key, id
<1>8. "id" \notin DOMAIN Defaults /\ "id" # "clientId"
  BY <1>2
<1>9. /\ DOMAIN Created(new) = DOMAIN body \cup {"id"}
      /\ \A f \in DOMAIN body : Created(new)[f] = body[f]
      /\ "id" \notin DOMAIN body => Created(new)["id"] = Fresh
  BY <1>1, <1>7 DEF Over
<1>10. QED
  BY <1>6, <1>8, <1>9

LEMMA CreatedComplete ==
  ASSUME NEW new, Musts \subseteq DOMAIN new,
         \A f \in DOMAIN new \cap NotEmpty : new[f] # "",
         "coa" \in DOMAIN new => Filled(new["coa"])
  PROVE  Complete(Created(new))
<1> DEFINE r == Created(new)
<1>1. /\ DOMAIN Defaults = {"coa", "state", "matchState", "source", "type"}
      /\ Defaults["state"] = "CLEARED" /\ Defaults["matchState"] = "NOT_MATCHED"
      /\ Defaults["source"] = "MANUAL" /\ Defaults["type"] = "CASH_FLOW"
      /\ Defaults["coa"].type = "UNCATEGORIZED" /\ Defaults["coa"].id = "0"
  BY DEF Defaults
<1>2. Filled(Defaults["coa"])
  BY <1>1, TextAssumption DEF Filled
<1>3. DOMAIN r = DOMAIN new \cup {"clientId", "id"} \cup DOMAIN Defaults
  BY CreatedFields
<1>4. /\ \A f \in DOMAIN new : r[f] = new[f]
      /\ "clientId" \notin DOMAIN new => r["clientId"] = Fresh
      /\ "id" \notin DOMAIN new => r["id"] = Fresh
      /\ \A f \in DOMAIN Defaults \ DOMAIN new : r[f] = Defaults[f]
  BY CreatedFields
<1> HIDE DEF r
<1>5. ASSUME NEW f \in NotEmpty PROVE f \in DOMAIN r /\ r[f] # ""
  <2>1. CASE f \in DOMAIN new
    BY <1>3, <1>4, <2>1
  <2>2. CASE f \in {"id", "clientId"} /\ f \notin DOMAIN new
    BY <1>3, <1>4, <2>2, TextAssumption
  <2>3. CASE f \in {"state", "matchState", "source", "type"} /\ f \notin DOMAIN new
    <3>1. f \in DOMAIN Defaults /\ Defaults[f] # ""
      BY <1>1, <2>3
    <3>2. QED
      BY <1>3, <1>4, <2>3, <3>1
  <2>4. f \in {"accountId", "postedOn"} => f \in DOMAIN new
    BY DEF Musts
  <2>5. QED
    BY <2>1, <2>2, <2>3, <2>4 DEF NotEmpty
<1>6. Present \subseteq DOMAIN r
  BY <1>3 DEF Present, Musts
<1>7. "coa" \in DOMAIN r /\ Filled(r["coa"])
  BY <1>1, <1>2, <1>3, <1>4
<1>8. QED
  BY <1>5, <1>6, <1>7 DEF Complete, r

-----------------------------------------------------------------------------
(***************************************************************************)
(* A row never turns into None, so nothing is created over it; None being  *)
(* no row itself.                                                          *)
(***************************************************************************)
NoneIsNoRow == "id" \notin DOMAIN None

RowInv ==
  /\ row # None => "id" \in DOMAIN row
  /\ origin # None => row # None
  /\ CreatedEditable

LEMMA PostRow ==
  ASSUME NoneIsNoRow, NEW new, Musts \subseteq DOMAIN new, Post(new) PROVE RowInv'
<1>1. row' = Created(new) /\ origin' = new
  BY DEF Post, Created
<1>2. "id" \in DOMAIN row'
  BY <1>1, CreatedFields
<1>3. row' # None
  BY <1>2 DEF NoneIsNoRow
<1>4. CreatedEditable'
  BY <1>1, CreatedComplete DEF CreatedEditable
<1>5. QED
  BY <1>2, <1>3, <1>4 DEF RowInv

LEMMA PatchRow ==
  ASSUME NoneIsNoRow, RowInv, NEW patch, patch_transaction(patch) PROVE RowInv'
<1>1. row # None /\ "id" \in DOMAIN row /\ origin' = origin
  BY DEF patch_transaction, RowInv
<1>2. CASE row' = row
  BY <1>1, <1>2 DEF RowInv, CreatedEditable
<1>3. CASE row' = apply(patch, row) /\ Complete(row')
  <2>1. "id" \in DOMAIN row'
    BY <1>1, <1>3 DEF apply, Over
  <2>2. row' # None
    BY <2>1 DEF NoneIsNoRow
  <2>3. CreatedEditable'
    BY <1>3 DEF CreatedEditable
  <2>4. QED
    BY <2>1, <2>2, <2>3 DEF RowInv
<1>4. QED
  BY <1>2, <1>3 DEF patch_transaction

LEMMA RowInit == EditInit => RowInv
  BY DEF EditInit, RowInv, CreatedEditable

LEMMA RowStep ==
  ASSUME NoneIsNoRow, RowInv, [EditNext]_editVars PROVE RowInv'
<1>1. CASE Import
  <2>1. PICK n \in DOMAIN Rows(file) : Post(Candidate(Rows(file)[n]))
    BY <1>1 DEF Import
  <2>2. QED
    BY <2>1, CandidateMusts, PostRow
<1>2. ASSUME NEW in \in CreateInput, create_transaction(in) PROVE RowInv'
  BY <1>2, NamedMusts, PostRow DEF create_transaction
<1>3. ASSUME NEW r \in LedgerRow, Appears(r) PROVE RowInv'
  <2>1. row' = r /\ "id" \in DOMAIN r /\ origin' = None
    BY <1>3, RowAssumption DEF Appears, RowInv
  <2>2. QED
    BY <2>1 DEF RowInv, CreatedEditable
<1>4. ASSUME NEW in \in PatchInput, update_transaction(in) PROVE RowInv'
  BY <1>4, PatchRow DEF update_transaction
<1>5. ASSUME NEW id \in Category, categorize_transaction(id) PROVE RowInv'
  BY <1>5, PatchRow DEF categorize_transaction
<1>6. CASE UNCHANGED editing
  BY <1>6 DEF editing, RowInv, CreatedEditable
<1>7. QED
  BY <1>1, <1>2, <1>3, <1>4, <1>5, <1>6 DEF EditNext, editVars

\* A row this server creates can be edited by this server ever after, whatever
\* patches it has been through (Edit!CreatedEditable).
THEOREM CreatedStaysEditable == ASSUME NoneIsNoRow PROVE EditSpec => []CreatedEditable
<1>1. RowInv /\ [EditNext]_editVars => RowInv'
  BY NoneIsNoRow, RowStep
<1>2. RowInv => CreatedEditable
  BY DEF RowInv
<1>3. QED
  BY <1>1, <1>2, RowInit, PTL DEF EditSpec

-----------------------------------------------------------------------------
(***************************************************************************)
(* Places in a finite set of numbers: they are 0, 1, ... without a gap,    *)
(* and what has the last one is the greatest.                              *)
(***************************************************************************)
Below(S, i) == {j \in S : j < i}
Place(S, i) == Cardinality(Below(S, i))

LEMMA PlaceRange ==
  ASSUME NEW S \in SUBSET Nat, IsFiniteSet(S), NEW i \in S
  PROVE  /\ IsFiniteSet(Below(S, i))
         /\ Place(S, i) \in Nat /\ Place(S, i) < Cardinality(S)
<1>1. Below(S, i) \in SUBSET S /\ i \notin Below(S, i)
  BY DEF Below
<1>2. /\ IsFiniteSet(Below(S, i)) /\ Cardinality(Below(S, i)) \in Nat
      /\ Cardinality(Below(S, i)) <= Cardinality(S)
      /\ Cardinality(Below(S, i)) # Cardinality(S)
  BY <1>1, FS_Subset, FS_CardinalityType
<1>3. Cardinality(S) \in Nat
  BY FS_CardinalityType
<1>4. QED
  BY <1>2, <1>3 DEF Place

LEMMA PlaceGrows ==
  ASSUME NEW S \in SUBSET Nat, IsFiniteSet(S), NEW i \in S, NEW j \in S, j < i
  PROVE  Place(S, j) < Place(S, i)
<1>0. i \in Nat /\ j \in Nat /\ \A k \in S : k \in Nat
  OBVIOUS
<1>1. /\ Below(S, j) \in SUBSET Below(S, i)
      /\ j \in Below(S, i) /\ j \notin Below(S, j)
  <2>1. \A k \in S : k < j => k < i
    BY <1>0
  <2>2. ~(j < j)
    BY <1>0
  <2>3. QED
    BY <2>1, <2>2 DEF Below
<1>2. /\ Cardinality(Below(S, j)) <= Cardinality(Below(S, i))
      /\ Cardinality(Below(S, j)) # Cardinality(Below(S, i))
  BY <1>1, PlaceRange, FS_Subset
<1>3. Place(S, j) \in Nat /\ Place(S, i) \in Nat
  BY PlaceRange
<1>4. QED
  BY <1>2, <1>3 DEF Place

LEMMA PlaceCovers ==
  ASSUME NEW S \in SUBSET Nat, IsFiniteSet(S), NEW n \in 1 .. Cardinality(S)
  PROVE  \E i \in S : Place(S, i) = n - 1
<1> DEFINE N == Cardinality(S)
           f == [i \in S |-> Place(S, i) + 1]
<1>1. N \in Nat
  BY FS_CardinalityType
<1>2. IsFiniteSet(1 .. N) /\ Cardinality(1 .. N) = N
  BY <1>1, FS_Interval
<1>3. ASSUME NEW i \in S PROVE Place(S, i) + 1 \in 1 .. N
  BY <1>1, PlaceRange
<1>4. ASSUME NEW i \in S, NEW j \in S, f[i] = f[j] PROVE i = j
  <2>1. Place(S, i) \in Nat /\ Place(S, j) \in Nat /\ Place(S, i) = Place(S, j)
    BY <1>4, PlaceRange
  <2>2. ~(i < j) /\ ~(j < i)
    BY <2>1, PlaceGrows
  <2>3. QED
    BY <2>2
<1>5. f \in [S -> 1 .. N]
  BY <1>3
<1> HIDE DEF f
<1>6. f \in Injection(S, 1 .. N)
  BY <1>4, <1>5 DEF Injection, IsInjective
<1>7. f \in Surjection(S, 1 .. N)
  BY <1>2, <1>6, FS_Injection
<1>8. PICK i \in S : f[i] = n
  BY <1>7 DEF Surjection
<1>9. Place(S, i) + 1 = n /\ Place(S, i) \in Nat
  BY <1>8, PlaceRange DEF f
<1>10. QED
  BY <1>9

LEMMA GreatestExists ==
  ASSUME NEW S \in SUBSET Nat, IsFiniteSet(S), S # {}
  PROVE  \E i \in S : \A j \in S : j <= i
<1>1. Cardinality(S) \in Nat /\ Cardinality(S) # 0
  BY FS_CardinalityType, FS_EmptySet
<1>2. PICK i \in S : Place(S, i) = Cardinality(S) - 1
  BY <1>1, PlaceCovers
<1>3. ASSUME NEW j \in S, i < j PROVE FALSE
  <2>1. Place(S, i) < Place(S, j)
    BY <1>3, PlaceGrows
  <2>2. Place(S, j) < Cardinality(S) /\ Place(S, j) \in Nat
    BY PlaceRange
  <2>3. QED
    BY <1>1, <1>2, <2>1, <2>2
<1>4. QED
  BY <1>3

-----------------------------------------------------------------------------
(***************************************************************************)
(* Columns.  The column the import reads a required cell from is the last  *)
(* one under that title.                                                   *)
(***************************************************************************)
Seen == {StringRecord(rec) : rec \in Record}

FilesOK == file \in Seq(Seen) /\ mirror \in Seq(Txn)

HeadTitles == IF HasHeader(file) THEN file[1] ELSE <<"date", "payee", "amount", "tags">>
ColumnsOf(t) ==
  {i \in DOMAIN HeadTitles : HeadTitles[i] = t \/ (t = "payee" /\ HeadTitles[i] = "description")}

LEMMA RecordFacts ==
  ASSUME NEW rec \in Seen
  PROVE  Len(rec) \in Nat /\ DOMAIN rec = 1 .. Len(rec)
<1>1. PICK raw \in Record : rec = StringRecord(raw)
  BY DEF Seen
<1>2. raw \in Seq(STRING)
  BY RecordAssumption
<1>3. DOMAIN rec = 1 .. Len(raw) /\ Len(raw) \in Nat /\ rec = [i \in 1 .. Len(raw) |-> rec[i]]
  BY <1>1, <1>2 DEF StringRecord
<1>4. QED
  BY <1>3

LEMMA ColumnIsLast ==
  ASSUME FilesOK, ~Refused(file), NEW t \in Required
  PROVE  /\ t \in DOMAIN Columns(file) /\ Columns(file)[t] \in ColumnsOf(t)
         /\ \A j \in ColumnsOf(t) : j \in Nat /\ j <= Columns(file)[t]
<1> DEFINE At == {i \in DOMAIN file[1] : file[1][i] \in Titles[t]}
<1>1. CASE HasHeader(file)
  <2>1. file[1] \in Seen
    BY <1>1 DEF FilesOK, HasHeader
  <2>2. Titles[t] = IF t = "payee" THEN {"payee", "description"} ELSE {t}
    BY DEF Required, Titles
  <2>3. ColumnsOf(t) = At
    BY <1>1, <2>2 DEF ColumnsOf, HeadTitles
  <2>4. t \in DOMAIN HeaderColumns(file[1]) /\ Columns(file) = HeaderColumns(file[1])
    BY <1>1 DEF Refused, Columns
  <2>5. At # {} /\ HeaderColumns(file[1])[t] = CHOOSE i \in At : \A j \in At : j <= i
    BY <2>4 DEF HeaderColumns
  <2>6. DOMAIN file[1] = 1 .. Len(file[1]) /\ Len(file[1]) \in Nat
    BY <2>1, RecordFacts
  <2>7. At \in SUBSET (1 .. Len(file[1])) /\ IsFiniteSet(1 .. Len(file[1]))
    BY <2>6, FS_Interval
  <2>8. At \in SUBSET Nat /\ IsFiniteSet(At)
    BY <2>7, FS_Subset
  <2> HIDE DEF At
  <2>9. \E i \in At : \A j \in At : j <= i
    BY <2>5, <2>8, GreatestExists
  <2>10. QED
    BY <2>3, <2>4, <2>5, <2>8, <2>9
<1>2. CASE ~HasHeader(file)
  <2>1. Columns(file) = Positional
    BY <1>2 DEF Columns
  <2>2. ColumnsOf(t) = {Positional[t]} /\ t \in DOMAIN Positional /\ Positional[t] \in Nat
    BY <1>2 DEF ColumnsOf, HeadTitles, Positional, Required
  <2>3. QED
    BY <2>1, <2>2
<1>3. QED
  BY <1>1, <1>2

\* What is under a required title is the cell the import reads, if there is one.
LEMMA UnderIsCell ==
  ASSUME FilesOK, ~Refused(file), NEW t \in Required, NEW rec \in Seen
  PROVE  Under(t, rec) \ {""} = {Cell(rec, Columns(file), t)} \ {""}
<1> DEFINE c == Columns(file)[t]
<1>1. /\ t \in DOMAIN Columns(file) /\ c \in ColumnsOf(t)
      /\ \A j \in ColumnsOf(t) : j \in Nat /\ j <= c
  BY ColumnIsLast
<1>2. Under(t, rec) = {rec[i] : i \in {i \in ColumnsOf(t) \cap DOMAIN rec :
                                         \A j \in ColumnsOf(t) : j <= i}}
  BY DEF Under, ColumnsOf, HeadTitles
<1>3. Cell(rec, Columns(file), t) = IF c \in DOMAIN rec THEN rec[c] ELSE ""
  BY <1>1 DEF Cell
<1> HIDE DEF c
<1>4. \A i \in ColumnsOf(t) : (\A j \in ColumnsOf(t) : j <= i) <=> i = c
  BY <1>1
<1>5. Under(t, rec) = IF c \in DOMAIN rec THEN {rec[c]} ELSE {}
  BY <1>1, <1>2, <1>4
<1>6. QED
  BY <1>3, <1>5

LEMMA ImportableIsGood ==
  ASSUME FilesOK, ~Refused(file), NEW rec \in Seen
  PROVE  /\ Importable(rec) <=> ~Bad(rec, Columns(file))
         /\ ~Bad(rec, Columns(file)) => ~Blank(rec)
<1> DEFINE cell(t) == Cell(rec, Columns(file), t)
<1>1. \A t \in Required : Under(t, rec) \ {""} = {cell(t)} \ {""}
  BY UnderIsCell
<1>2. "date" \in Required /\ "payee" \in Required /\ "amount" \in Required
  BY DEF Required
<1>3. "" \notin DOMAIN DayOf /\ "" \notin DOMAIN AmountOf
  BY BlankAssumption
<1>4. \A t : cell(t) # "" => ~Blank(rec)
  BY DEF Cell, Blank
<1> HIDE DEF cell
<1>5. Under("date", rec) \cap DOMAIN DayOf # {} <=> cell("date") \in DOMAIN DayOf
  BY <1>1, <1>2, <1>3
<1>6. Under("payee", rec) \ {""} # {} <=> cell("payee") # ""
  <2>1. Under("payee", rec) \ {""} = {cell("payee")} \ {""}
    BY <1>1, <1>2
  <2>2. ({cell("payee")} \ {""}) # {} <=> cell("payee") # ""
    OBVIOUS
  <2>3. QED
    BY <2>1, <2>2
<1>7. Under("amount", rec) \cap DOMAIN AmountOf # {} <=> cell("amount") \in DOMAIN AmountOf
  BY <1>1, <1>2, <1>3
<1>8. Bad(rec, Columns(file)) <=>
        cell("date") \notin DOMAIN DayOf \/ cell("payee") = "" \/ cell("amount") \notin DOMAIN AmountOf
  BY DEF Bad, cell
<1>9. QED
  BY <1>4, <1>5, <1>6, <1>7, <1>8 DEF Importable

(***************************************************************************)
(* Every row of an accepted file.                                          *)
(***************************************************************************)
LEMMA AllAccounted == ASSUME FilesOK PROVE EveryRowAccounted
<1> DEFINE head == IF HasHeader(file) THEN 1 ELSE 0
           n == Len(file) - head
           col == Columns(file)
           good == {i \in DataAt(file) : ~Blank(file[i]) /\ ~Bad(file[i], col)}
           able == {k \in 1 .. n : Importable(file[k + head])}
<1> SUFFICES ASSUME ~Refused(file)
             PROVE  /\ \A k \in 1 .. n : k \in Errors(file) <=>
                         ~Importable(file[k + head])
                           /\ \E c \in DOMAIN file[k + head] : file[k + head][c] # ""
                    /\ Errors(file) \subseteq 1 .. n
                    /\ Len(Rows(file)) = Cardinality(able)
  BY DEF EveryRowAccounted
<1>1. /\ Len(file) \in Nat /\ DOMAIN file = 1 .. Len(file) /\ head \in {0, 1}
      /\ DataStart(file) = head /\ \A i \in DOMAIN file : file[i] \in Seen
      /\ Len(file) >= 1
  <2>1. file # <<>>
    BY DEF Refused
  <2>2. file \in Seq(Seen)
    BY DEF FilesOK
  <2>3. QED
    BY <2>1, <2>2 DEF DataStart
<1> HIDE DEF head
<1>2. n \in Nat /\ (\A k \in 1 .. n : k + head \in DataAt(file))
      /\ (\A i \in DataAt(file) : i \in DOMAIN file /\ i - head \in 1 .. n)
  BY <1>1 DEF DataAt
<1>3. \A i \in DataAt(file) :
        /\ Importable(file[i]) <=> ~Bad(file[i], col)
        /\ ~Bad(file[i], col) => ~Blank(file[i])
  BY <1>1, <1>2, ImportableIsGood
<1>4. Errors(file) = {i - head : i \in {i \in DataAt(file) : ~Blank(file[i]) /\ Bad(file[i], col)}}
  BY <1>1 DEF Errors, RowNo
<1> HIDE DEF n, col
<1>5. Errors(file) \subseteq 1 .. n
  BY <1>2, <1>4
<1>6. ASSUME NEW k \in 1 .. n
      PROVE  k \in Errors(file) <=>
               ~Importable(file[k + head])
                 /\ \E c \in DOMAIN file[k + head] : file[k + head][c] # ""
  <2>1. k + head \in DataAt(file) /\ (k + head) - head = k
    BY <1>1, <1>2
  <2>2. \A i \in DataAt(file) : i - head = k => i = k + head
    BY <1>1, <1>2
  <2>3. k \in Errors(file) <=> ~Blank(file[k + head]) /\ Bad(file[k + head], col)
    BY <1>4, <2>1, <2>2
  <2>4. QED
    BY <1>3, <2>1, <2>3 DEF Blank
<1>7. Len(Rows(file)) = Cardinality(able)
  <2> DEFINE f == [k \in able |-> k + head]
  <2>1. good \in SUBSET (1 .. Len(file)) /\ able \in SUBSET (1 .. n)
    BY <1>1 DEF DataAt
  <2>2. IsFiniteSet(1 .. Len(file)) /\ IsFiniteSet(1 .. n)
    BY <1>1, <1>2, FS_Interval
  <2>3. IsFiniteSet(good) /\ IsFiniteSet(able) /\ Cardinality(good) \in Nat
    BY <2>1, <2>2, FS_Subset, FS_CardinalityType
  <2>4. Len(Rows(file)) = Cardinality(good)
    BY <2>3 DEF Rows, col
  <2>5. ASSUME NEW k \in able PROVE k + head \in good
    <3>1. k \in 1 .. n /\ k + head \in DataAt(file) /\ Importable(file[k + head])
      BY <1>2
    <3>2. QED
      BY <1>3, <3>1
  <2>6. ASSUME NEW i \in good PROVE i - head \in able /\ (i - head) + head = i
    <3>1. i \in DataAt(file) /\ ~Bad(file[i], col)
      OBVIOUS
    <3>2. i - head \in 1 .. n /\ (i - head) + head = i /\ i \in Nat
      BY <1>1, <1>2, <3>1
    <3>3. Importable(file[i])
      BY <1>3, <3>1
    <3>4. QED
      BY <3>2, <3>3
  <2>7. \A k \in able : k \in Nat
    BY <2>1
  <2> HIDE DEF good, able
  <2>8. f \in [able -> good]
    BY <2>5
  <2>9. \A a, b \in able : f[a] = f[b] => a = b
    BY <1>1, <2>7
  <2>10. \A i \in good : \E k \in able : f[k] = i
    BY <2>6
  <2> HIDE DEF f
  <2>11. f \in Bijection(able, good)
    BY <2>8, <2>9, <2>10 DEF Bijection, Injection, IsInjective, Surjection
  <2>12. Cardinality(good) = Cardinality(able)
    BY <2>3, <2>11, FS_Bijection DEF ExistsBijection
  <2>13. QED
    BY <2>4, <2>12
<1>8. QED
  BY <1>5, <1>6, <1>7

-----------------------------------------------------------------------------
(***************************************************************************)
(* The round trip.  A date in the form the import gives dates is read as   *)
(* it was, from the cell it is written to, and so is an amount.            *)
(***************************************************************************)
ReadsBack ==
  /\ \A c \in DOMAIN DayOf :
       MDY[DayOf[c]] \in DOMAIN DayOf /\ DayOf[MDY[DayOf[c]]] = DayOf[c]
  /\ \A t \in Txn : t.amount # None => /\ Digits[t.amount] \in DOMAIN AmountOf
                                       /\ AmountOf[Digits[t.amount]] = t.amount

TemplateTitles == <<"date", "payee", "amount", "tags">>

LEMMA TemplateColumns ==
  /\ IsHeader(TemplateTitles)
  /\ DOMAIN HeaderColumns(TemplateTitles) = {"date", "payee", "amount", "tags"}
  /\ HeaderColumns(TemplateTitles)["date"] = 1 /\ HeaderColumns(TemplateTitles)["payee"] = 2
  /\ HeaderColumns(TemplateTitles)["amount"] = 3 /\ HeaderColumns(TemplateTitles)["tags"] = 4
<1> DEFINE h == TemplateTitles
           At(t) == {i \in DOMAIN h : h[i] \in Titles[t]}
<1>1. DOMAIN h = 1 .. 4 /\ h[1] = "date" /\ h[2] = "payee" /\ h[3] = "amount" /\ h[4] = "tags"
  BY DEF TemplateTitles
<1>2. /\ DOMAIN Titles = {"date", "payee", "amount", "tags", "memo"}
      /\ Titles["date"] = {"date"} /\ Titles["payee"] = {"payee", "description"}
      /\ Titles["amount"] = {"amount"} /\ Titles["tags"] = {"tags", "tag"}
      /\ Titles["memo"] = {"memo", "notes"}
  BY DEF Titles
<1> HIDE DEF h
<1>3. /\ At("date") = {1} /\ At("payee") = {2} /\ At("amount") = {3} /\ At("tags") = {4}
      /\ At("memo") = {}
  BY <1>1, <1>2
<1>4. HeaderColumns(h) = [t \in {t \in DOMAIN Titles : At(t) # {}} |->
                            CHOOSE i \in At(t) : \A j \in At(t) : j <= i]
  BY DEF HeaderColumns
<1> HIDE DEF At
<1>5. {t \in DOMAIN Titles : At(t) # {}} = {"date", "payee", "amount", "tags"}
  BY <1>2, <1>3
<1>6. \A c \in 1 .. 4 : (CHOOSE i \in {c} : \A j \in {c} : j <= i) = c
  OBVIOUS
<1>7. /\ HeaderColumns(h)["date"] = 1 /\ HeaderColumns(h)["payee"] = 2
      /\ HeaderColumns(h)["amount"] = 3 /\ HeaderColumns(h)["tags"] = 4
  BY <1>3, <1>4, <1>5, <1>6
<1>8. IsHeader(h)
  BY <1>1 DEF IsHeader, Required
<1>9. QED
  BY <1>4, <1>5, <1>7, <1>8 DEF h

LEMMA LineReadsBack ==
  ASSUME ReadsBack, NEW t \in Txn, Expressible(t), NEW col, col = HeaderColumns(TemplateTitles),
         NEW r, r = StringRecord(Line(t))
  PROVE  ~Blank(r) /\ ~Bad(r, col) /\ NewTransaction(r, col) = ByName(t)
<1>1. /\ MDY[t.posted] \in DOMAIN DayOf /\ DayOf[MDY[t.posted]] = t.posted
      /\ Digits[t.amount] \in DOMAIN AmountOf /\ AmountOf[Digits[t.amount]] = t.amount
      /\ t.payee # "" /\ t.posted # None /\ t.payee # None /\ t.amount # None
  BY DEF ReadsBack, Expressible
<1>2. Line(t) = <<MDY[t.posted], t.payee, Digits[t.amount], tag_cell(t)>>
  <2>1. OrBlank(t.payee) = t.payee
    BY <1>1 DEF OrBlank
  <2>2. sanitize_cell(t.payee) = t.payee /\ sanitize_cell(tag_cell(t)) = tag_cell(t)
    BY DEF Expressible, sanitize_cell
  <2>3. QED
    BY <1>1, <2>1, <2>2 DEF Line
<1>3. trim(MDY[t.posted]) = MDY[t.posted] /\ trim(Digits[t.amount]) = Digits[t.amount]
  BY <1>1, TrimAssumption DEF trim
<1>4. trim(t.payee) = t.payee
  BY DEF Expressible, trim
<1>5. /\ DOMAIN r = 1 .. 4 /\ r[1] = MDY[t.posted] /\ r[2] = t.payee
      /\ r[3] = Digits[t.amount] /\ r[4] = trim(tag_cell(t))
  BY <1>2, <1>3, <1>4 DEF StringRecord
<1>6. /\ Cell(r, col, "date") = MDY[t.posted] /\ Cell(r, col, "payee") = t.payee
      /\ Cell(r, col, "amount") = Digits[t.amount] /\ Cell(r, col, "tags") = trim(tag_cell(t))
      /\ Cell(r, col, "memo") = ""
  BY <1>5, TemplateColumns DEF Cell
<1>7. ~Bad(r, col)
  BY <1>1, <1>6 DEF Bad
<1>8. ~Blank(r)
  <2>1. 2 \in DOMAIN r
    BY <1>5
  <2>2. r[2] # ""
    BY <1>1, <1>5
  <2>3. QED
    BY <2>1, <2>2 DEF Blank
<1> DEFINE cell == trim(tag_cell(t))
<1>9. NewTransaction(r, col)
        = [posted |-> t.posted, payee |-> t.payee, amount |-> t.amount,
           tags |-> IF cell = "" THEN <<>> ELSE Parts[cell], memo |-> None]
  BY <1>1, <1>6 DEF NewTransaction
<1>10. (IF cell = "" THEN <<>> ELSE Parts[cell]) = TagNames(t) /\ t.memo = None
  BY DEF Expressible
<1>11. ByName(t) = [posted |-> t.posted, payee |-> t.payee, amount |-> t.amount,
                    tags |-> TagNames(t), memo |-> t.memo]
  <2>1. t = [posted |-> t.posted, payee |-> t.payee, amount |-> t.amount,
             tags |-> t.tags, memo |-> t.memo]
    BY TxnAssumption
  <2>2. QED
    BY <2>1 DEF ByName
<1>12. NewTransaction(r, col) = ByName(t)
  BY <1>9, <1>10, <1>11
<1>13. QED
  BY <1>7, <1>8, <1>12

\* The titles are read as they were written.
LEMMA TitlesKept == StringRecord(TemplateTitles) = TemplateTitles
<1>1. \A c \in {"date", "payee", "amount", "tags"} : trim(c) = c
  BY TrimAssumption DEF trim
<1>2. QED
  BY <1>1 DEF StringRecord, TemplateTitles

LEMMA TemplateFacts ==
  ASSUME NEW rows \in Seq(Txn)
  PROVE  /\ Len(Exported(rows)) \in Nat /\ DOMAIN Exported(rows) = 1 .. Len(Exported(rows))
         /\ Len(Exported(rows)) <= Len(rows)
         /\ \A k \in 1 .. Len(Exported(rows)) : \E n \in DOMAIN rows : Exported(rows)[k] = rows[n]
         /\ DOMAIN Template(rows) = 1 .. Len(Exported(rows)) + 1
         /\ Len(Template(rows)) = Len(Exported(rows)) + 1
         /\ Template(rows)[1] = TemplateTitles
         /\ \A k \in 1 .. Len(Exported(rows)) : Template(rows)[k + 1] = Line(Exported(rows)[k])
<1> DEFINE e == Exported(rows)
           n == IF Len(rows) > MaxExport THEN MaxExport ELSE Len(rows)
           lines == [k \in 1 .. n |-> Line(e[k])]
           head == <<TemplateTitles>>
<1>1. n \in Nat /\ n <= Len(rows) /\ Len(rows) \in Nat
  BY BoundAssumption
<1>2. e = [k \in 1 .. n |-> rows[n + 1 - k]]
  BY DEF Exported
<1> HIDE DEF n, e
<1>3. Len(e) = n /\ DOMAIN e = 1 .. n
  BY <1>1, <1>2
<1>4. ASSUME NEW k \in 1 .. n PROVE \E m \in DOMAIN rows : e[k] = rows[m]
  <2>1. n + 1 - k \in DOMAIN rows /\ e[k] = rows[n + 1 - k]
    BY <1>1, <1>2
  <2>2. QED
    BY <2>1
<1>5. Template(rows) = head \o lines
  BY <1>3 DEF Template, TemplateTitles, e
<1> DEFINE S == {TemplateTitles} \cup {lines[k] : k \in 1 .. n}
<1>6. head \in Seq(S) /\ Len(head) = 1 /\ head[1] = TemplateTitles
  OBVIOUS
<1>7. lines \in Seq(S) /\ Len(lines) = n /\ \A k \in 1 .. n : lines[k] = Line(e[k])
  BY <1>1
<1> HIDE DEF S, head, lines
<1>8. /\ head \o lines \in Seq(S) /\ Len(head \o lines) = 1 + n
      /\ \A i \in 1 .. 1 + n : (head \o lines)[i] = IF i <= 1 THEN head[i] ELSE lines[i - 1]
  <2>1. head \in Seq(S) /\ lines \in Seq(S)
    BY <1>6, <1>7
  <2>2. /\ head \o lines \in Seq(S) /\ Len(head \o lines) = Len(head) + Len(lines)
        /\ \A i \in 1 .. Len(head) + Len(lines) : (head \o lines)[i] =
              IF i <= Len(head) THEN head[i] ELSE lines[i - Len(head)]
    BY <2>1, ConcatProperties
  <2>3. QED
    BY <1>6, <1>7, <2>2
<1>9. DOMAIN (head \o lines) = 1 .. n + 1
  BY <1>1, <1>8
<1>10. (head \o lines)[1] = TemplateTitles
  BY <1>1, <1>6, <1>8
<1>11. ASSUME NEW k \in 1 .. n PROVE (head \o lines)[k + 1] = Line(e[k])
  <2>1. k + 1 \in 1 .. 1 + n /\ ~(k + 1 <= 1) /\ (k + 1) - 1 = k
    BY <1>1
  <2>2. QED
    BY <1>7, <1>8, <2>1
<1>12. Len(head \o lines) = n + 1
  BY <1>1, <1>8
<1>13. QED
  BY <1>1, <1>3, <1>4, <1>5, <1>9, <1>10, <1>11, <1>12 DEF e

LEMMA AllReturn ==
  ASSUME ReadsBack, FilesOK PROVE ExpressibleReturn
<1> SUFFICES ASSUME Len(mirror) <= MaxRows, \A n \in DOMAIN mirror : Expressible(mirror[n])
             PROVE  Returns(mirror)
  BY DEF ExpressibleReturn
<1> DEFINE e == Exported(mirror)
           n == Len(e)
           text == Template(mirror)
           f == [i \in DOMAIN text |-> StringRecord(text[i])]
           col == HeaderColumns(TemplateTitles)
<1>1. mirror \in Seq(Txn) /\ Len(mirror) \in Nat
  BY DEF FilesOK
<1>2. /\ n \in Nat /\ DOMAIN e = 1 .. n /\ n <= Len(mirror)
      /\ \A k \in 1 .. n : \E m \in DOMAIN mirror : e[k] = mirror[m]
      /\ DOMAIN f = 1 .. n + 1 /\ Len(f) = n + 1 /\ f[1] = TemplateTitles
      /\ \A k \in 1 .. n : f[k + 1] = StringRecord(Line(e[k]))
  <2>1. /\ n \in Nat /\ DOMAIN e = 1 .. n /\ n <= Len(mirror)
        /\ \A k \in 1 .. n : \E m \in DOMAIN mirror : e[k] = mirror[m]
        /\ DOMAIN text = 1 .. n + 1 /\ text[1] = TemplateTitles
        /\ \A k \in 1 .. n : text[k + 1] = Line(e[k])
    BY <1>1, TemplateFacts
  <2> HIDE DEF e, n, text
  <2>2. 1 \in DOMAIN text /\ n + 1 \in Nat /\ \A k \in 1 .. n : k + 1 \in DOMAIN text
    BY <2>1
  <2>3. DOMAIN f = 1 .. n + 1 /\ Len(f) = n + 1
    BY <2>1, <2>2
  <2>4. f[1] = TemplateTitles
    BY <2>1, <2>2, TitlesKept
  <2>5. QED
    BY <2>1, <2>2, <2>3, <2>4
<1> HIDE DEF e, n, text, f
<1>4. f # <<>> /\ HasHeader(f) /\ DataStart(f) = 1 /\ Columns(f) = col
  <2>1. f # <<>>
    BY <1>2
  <2>2. QED
    BY <1>2, <2>1, TemplateColumns DEF HasHeader, DataStart, Columns
<1> HIDE DEF col
<1>5. ASSUME NEW k \in 1 .. n
      PROVE  ~Blank(f[k + 1]) /\ ~Bad(f[k + 1], col) /\ NewTransaction(f[k + 1], col) = ByName(e[k])
  <2>1. PICK m \in DOMAIN mirror : e[k] = mirror[m]
    BY <1>2
  <2>2. e[k] \in Txn /\ Expressible(e[k]) /\ f[k + 1] = StringRecord(Line(e[k]))
    BY <1>1, <1>2, <2>1
  <2>3. QED
    BY <2>2, LineReadsBack DEF col
<1>6. DataAt(f) = 2 .. n + 1
  BY <1>2, <1>4 DEF DataAt
<1>7. \A i \in 2 .. n + 1 :
        /\ ~Blank(f[i]) /\ ~Bad(f[i], col)
        /\ i - 1 \in 1 .. n /\ NewTransaction(f[i], col) = ByName(e[i - 1])
  <2> SUFFICES ASSUME NEW i \in 2 .. n + 1
               PROVE  /\ ~Blank(f[i]) /\ ~Bad(f[i], col)
                      /\ i - 1 \in 1 .. n /\ NewTransaction(f[i], col) = ByName(e[i - 1])
    OBVIOUS
  <2>1. i - 1 \in 1 .. n /\ (i - 1) + 1 = i
    BY <1>2
  <2>2. QED
    BY <1>5, <2>1
<1>8. ~Refused(f)
  <2>1. ~TooLong(f)
    BY <1>1, <1>2, <1>4, BoundAssumption DEF TooLong
  <2>2. Required \subseteq DOMAIN HeaderColumns(f[1])
    BY <1>2, TemplateColumns DEF Required
  <2>3. QED
    BY <1>4, <2>1, <2>2 DEF Refused
<1>9. Errors(f) = {}
  BY <1>4, <1>6, <1>7 DEF Errors
<1>10. Rows(f) = [k \in DOMAIN e |-> ByName(e[k])]
  <2> DEFINE good == {i \in DataAt(f) : ~Blank(f[i]) /\ ~Bad(f[i], Columns(f))}
             Nth(k) == CHOOSE i \in good : Cardinality({j \in good : j < i}) = k - 1
  <2>1. good = 2 .. n + 1
    BY <1>4, <1>6, <1>7
  <2>2. Cardinality(good) = n
    <3>1. 2 \in Int /\ n + 1 \in Int
      BY <1>2
    <3>2. Cardinality(2 .. n + 1) = IF 2 > n + 1 THEN 0 ELSE (n + 1) - 2 + 1
      BY <3>1, FS_Interval
    <3> HIDE DEF good
    <3>3. QED
      BY <1>2, <2>1, <3>2
  <2>3. ASSUME NEW i \in 2 .. n + 1 PROVE Cardinality({j \in good : j < i}) = i - 2
    <3>1. {j \in good : j < i} = 2 .. i - 1
      BY <1>2, <2>1
    <3>2. Cardinality(2 .. i - 1) = i - 2
      <4>1. 2 \in Int /\ i - 1 \in Int
        BY <1>2
      <4>2. Cardinality(2 .. i - 1) = IF 2 > i - 1 THEN 0 ELSE (i - 1) - 2 + 1
        BY <4>1, FS_Interval
      <4>3. QED
        BY <1>2, <4>2
    <3>3. QED
      BY <3>1, <3>2
  <2>4. Rows(f) = [k \in 1 .. Cardinality(good) |-> NewTransaction(f[Nth(k)], Columns(f))]
    BY DEF Rows
  <2>5. ASSUME NEW k \in 1 .. n PROVE Nth(k) = k + 1
    <3> HIDE DEF good
    <3> DEFINE Before(i) == Cardinality({j \in good : j < i})
    <3>1. \A i \in good : i \in Int /\ Before(i) = i - 2
      BY <1>2, <2>1, <2>3
    <3>2. k \in Int /\ k + 1 \in good
      BY <1>2, <2>1
    <3>3. Nth(k) = CHOOSE i \in good : Before(i) = k - 1
      BY DEF Nth
    <3> HIDE DEF Before, Nth
    <3>4. Before(k + 1) = k - 1
      <4>1. Before(k + 1) = (k + 1) - 2
        BY <3>1, <3>2
      <4>2. QED
        BY <3>2, <4>1
    <3>5. \A i \in good : Before(i) = k - 1 => i = k + 1
      BY <3>1, <3>2
    <3>6. QED
      BY <3>2, <3>3, <3>4, <3>5
  <2> HIDE DEF Nth, good
  <2>6. \A k \in 1 .. n : NewTransaction(f[Nth(k)], Columns(f)) = ByName(e[k])
    BY <1>4, <1>5, <2>5
  <2>7. QED
    BY <1>2, <2>2, <2>4, <2>6
<1>11. QED
  BY <1>8, <1>9, <1>10 DEF Returns, e, text, f

-----------------------------------------------------------------------------
LEMMA FilesInit == EditInit => FilesOK
<1>1. <<>> \in Seq(Seen) /\ <<>> \in Seq(Txn)
  OBVIOUS
<1>2. QED
  BY <1>1 DEF EditInit, Init, FilesOK

LEMMA FilesStep == FilesOK /\ [EditNext]_editVars => FilesOK'
<1> SUFFICES ASSUME FilesOK, [EditNext]_editVars PROVE FilesOK'
  OBVIOUS
<1>1. CASE UNCHANGED vars
  BY <1>1 DEF vars, FilesOK
<1>2. CASE Import
  <2>1. <<>> \in Seq(Seen)
    OBVIOUS
  <2>2. QED
    BY <1>2, <2>1 DEF Import, Post, FilesOK
<1>3. CASE Next
  <2>1. ASSUME NEW rec \in Record, AddRecord(rec) PROVE FilesOK'
    <3>1. StringRecord(rec) \in Seen
      BY DEF Seen
    <3>2. QED
      BY <2>1, <3>1 DEF AddRecord, FilesOK
  <2>2. ASSUME NEW t \in Txn, AddRow(t) PROVE FilesOK'
    BY <2>2 DEF AddRow, FilesOK
  <2>3. QED
    BY <1>3, <2>1, <2>2 DEF Next
<1>4. ASSUME NEW in \in CreateInput, create_transaction(in) PROVE UNCHANGED vars
  BY <1>4 DEF create_transaction, Post, vars
<1>5. ASSUME NEW r \in LedgerRow, Appears(r) PROVE UNCHANGED vars
  BY <1>5 DEF Appears
<1>6. ASSUME NEW in \in PatchInput, update_transaction(in) PROVE UNCHANGED vars
  BY <1>6 DEF update_transaction, patch_transaction
<1>7. ASSUME NEW id \in Category, categorize_transaction(id) PROVE UNCHANGED vars
  BY <1>7 DEF categorize_transaction, patch_transaction
<1>8. QED
  BY <1>1, <1>2, <1>3, <1>4, <1>5, <1>6, <1>7 DEF EditNext, editVars

\* No row of an accepted file, however long and whatever its header, is dropped
\* without a word (CsvFile!EveryRowAccounted).
THEOREM RowsAccounted == EditSpec => []EveryRowAccounted
  BY FilesInit, FilesStep, AllAccounted, PTL DEF EditSpec

\* Rows the template can express survive an export and a re-import, in order and
\* with their tags by name, if dates and amounts read back from the cells they
\* are written to (CsvFile!ExpressibleReturn).
THEOREM RowsReturn == ASSUME ReadsBack PROVE EditSpec => []ExpressibleReturn
<1>1. FilesOK => ExpressibleReturn
  BY ReadsBack, AllReturn
<1>2. QED
  BY <1>1, FilesInit, FilesStep, PTL DEF EditSpec

-----------------------------------------------------------------------------
(***************************************************************************)
(* Undoing a patch.  The arguments are free if one that names some fields  *)
(* may name them with any values that arguments have, and a row is sayable *)
(* if those of its values that can be said at all are said by one.         *)
(***************************************************************************)
Field(f) == IF f = "categoryId" THEN "coa" ELSE f

Args(f) == {in[f] : in \in {in \in PatchInput : f \in DOMAIN in}}

\* The value v of the argument f is the one that the row r has already.
Gives(f, v, r) ==
  CASE f = "categoryId" -> r["coa"] = category(v)
    [] f = "amount"     -> v \in DOMAIN DecimalOf /\ r["amount"] = DecimalOf[v]
    [] f = "postedOn"   -> v \in IsoDate /\ r["postedOn"] = v
    [] OTHER            -> r[f] = v

Sayable(r) ==
  /\ r = [g \in DOMAIN r |-> r[g]]
  /\ \A in \in PatchInput : \A f \in DOMAIN in :
       Field(f) \in DOMAIN r /\ CanSay(Field(f), r[Field(f)])
         => \E v \in Args(f) : Gives(f, v, r)

Choices(in) ==
  {g \in [DOMAIN in -> UNION {Args(f) : f \in DOMAIN in}] : \A f \in DOMAIN in : g[f] \in Args(f)}

CategoriesSayable == \A id \in Category : Filled(category(id)) => id \in Args("categoryId")

AnyArguments ==
  /\ \A in \in PatchInput : Choices(in) \subseteq PatchInput
  /\ \E in \in PatchInput : DOMAIN in = {"categoryId"}
  /\ CategoriesSayable

\* What rows are made from, an argument can say as far as it can be said.
RowsSayable ==
  /\ \A r \in LedgerRow : Sayable(r)
  /\ \A in \in CreateInput : Parses(in) => Sayable(Named(in))
  /\ \A rec, head \in Seen : \A col \in {Positional, HeaderColumns(head)} :
       ~Bad(rec, col) => Sayable(Candidate(NewTransaction(rec, col)))

LEMMA PatchFields ==
  ASSUME NEW in \in PatchInput, NEW f \in DOMAIN in
  PROVE  /\ f # "coa" /\ (f # "categoryId" => Field(f) = f)
         /\ Field(f) \notin {"id", "clientId", "accountId", "state", "matchState", "source", "type"}
         /\ in[f] \in Args(f)
<1>1. f \in {"payee", "renamedPayee", "memo", "categoryId", "tags", "isReviewed",
             "isExcludedFromReports", "postedOn", "amount"}
  BY PatchAssumption
<1>2. in[f] \in Args(f)
  BY DEF Args
<1>3. QED
  BY <1>1, <1>2 DEF Field

\* The fields an argument gives a row, and their values.
LEMMA NamedFields ==
  ASSUME NEW in \in PatchInput
  PROVE  /\ DOMAIN Named(in) = {Field(f) : f \in DOMAIN in}
         /\ Parses(in) => \A f \in DOMAIN in :
              f \notin {"categoryId", "amount"} => Named(in)[f] = in[f]
         /\ "categoryId" \in DOMAIN in => Named(in)["coa"] = category(in["categoryId"])
         /\ "amount" \in DOMAIN in => Named(in)["amount"] = DecimalOf[in["amount"]]
<1>1. DOMAIN Named(in) = {Field(f) : f \in DOMAIN in}
  BY DEF Named, Field
<1>2. ASSUME NEW g \in {Field(f) : f \in DOMAIN in}
      PROVE  Named(in)[g] = CASE g = "coa"    -> category(in["categoryId"])
                              [] g = "amount" -> DecimalOf[in["amount"]]
                              [] OTHER        -> in[g]
  BY <1>2 DEF Named, Field
<1>3. ASSUME NEW f \in DOMAIN in, f \notin {"categoryId", "amount"} PROVE Named(in)[f] = in[f]
  <2>1. f # "coa" /\ Field(f) = f
    BY <1>3, PatchFields
  <2>2. QED
    BY <1>2, <1>3, <2>1
<1>4. "categoryId" \in DOMAIN in => "coa" \in {Field(f) : f \in DOMAIN in}
  BY DEF Field
<1>5. "amount" \in DOMAIN in => "amount" \in {Field(f) : f \in DOMAIN in}
  BY DEF Field
<1>6. QED
  BY <1>1, <1>2, <1>3, <1>4, <1>5

(***************************************************************************)
(* A row r from which only the fields that `in` names have changed comes   *)
(* back by an argument that names the same fields.                         *)
(***************************************************************************)
LEMMA ArgumentUndoes ==
  ASSUME AnyArguments, NEW r, r = [g \in DOMAIN r |-> r[g]], NEW s,
         NEW in \in PatchInput, DOMAIN in # {},
         DOMAIN s = DOMAIN r, {Field(f) : f \in DOMAIN in} \subseteq DOMAIN r,
         \A g \in DOMAIN r \ {Field(f) : f \in DOMAIN in} : s[g] = r[g],
         \A f \in DOMAIN in : \E v \in Args(f) : Gives(f, v, r)
  PROVE  \E undo \in PatchInput : \E p \in build_patch(undo) : apply(p, s) = r
<1> DEFINE undo == [f \in DOMAIN in |-> CHOOSE v \in Args(f) : Gives(f, v, r)]
<1>1. \A f \in DOMAIN in : undo[f] \in Args(f) /\ Gives(f, undo[f], r)
  OBVIOUS
<1>2. DOMAIN undo = DOMAIN in /\ undo \in [DOMAIN in -> UNION {Args(f) : f \in DOMAIN in}]
  BY <1>1
<1> HIDE DEF undo
<1>3. undo \in PatchInput
  <2>1. undo \in Choices(in)
    BY <1>1, <1>2 DEF Choices
  <2>2. QED
    BY <2>1 DEF AnyArguments
<1>4. Parses(undo)
  <2>1. "postedOn" \in DOMAIN undo => undo["postedOn"] \in IsoDate
    BY <1>1, <1>2 DEF Gives
  <2>2. "amount" \in DOMAIN undo => undo["amount"] \in DOMAIN DecimalOf
    BY <1>1, <1>2 DEF Gives
  <2>3. QED
    BY <2>1, <2>2 DEF Parses
<1>5. Named(undo) \in build_patch(undo)
  BY <1>2, <1>4 DEF build_patch
<1>6. DOMAIN Named(undo) = {Field(f) : f \in DOMAIN in}
  BY <1>2, <1>3, NamedFields
<1>7. ASSUME NEW f \in DOMAIN in PROVE Named(undo)[Field(f)] = r[Field(f)]
  <2>1. CASE f = "categoryId"
    <3>1. Named(undo)["coa"] = category(undo["categoryId"])
      BY <1>2, <1>3, <2>1, NamedFields
    <3>2. r["coa"] = category(undo["categoryId"])
      BY <1>1, <2>1 DEF Gives
    <3>3. QED
      BY <2>1, <3>1, <3>2 DEF Field
  <2>2. CASE f = "amount"
    <3>1. Named(undo)["amount"] = DecimalOf[undo["amount"]]
      BY <1>2, <1>3, <2>2, NamedFields
    <3>2. r["amount"] = DecimalOf[undo["amount"]]
      BY <1>1, <2>2 DEF Gives
    <3>3. QED
      BY <2>2, <3>1, <3>2 DEF Field
  <2>3. CASE f \notin {"categoryId", "amount"}
    <3>1. Named(undo)[f] = undo[f] /\ Field(f) = f
      BY <1>2, <1>3, <1>4, <2>3, NamedFields, PatchFields
    <3>2. r[f] = undo[f]
      BY <1>1, <2>3 DEF Gives
    <3>3. QED
      BY <3>1, <3>2
  <2>4. QED
    BY <2>1, <2>2, <2>3
<1>8. apply(Named(undo), s) = [g \in DOMAIN r |-> r[g]]
  <2>1. DOMAIN Named(undo) \cup DOMAIN s = DOMAIN r
    BY <1>6
  <2>2. ASSUME NEW g \in DOMAIN r
        PROVE  (IF g \in DOMAIN Named(undo) THEN Named(undo)[g] ELSE s[g]) = r[g]
    BY <1>6, <1>7
  <2>3. QED
    BY <2>1, <2>2 DEF apply, Over
<1>9. QED
  BY <1>3, <1>5, <1>8

LEMMA GivesSame ==
  ASSUME NEW in \in PatchInput, NEW f \in DOMAIN in, NEW v, NEW r, NEW s,
         r[Field(f)] = s[Field(f)], Gives(f, v, r)
  PROVE  Gives(f, v, s)
<1>1. CASE f = "categoryId"
  BY <1>1 DEF Field, Gives
<1>2. CASE f = "amount"
  BY <1>2 DEF Field, Gives
<1>3. CASE f = "postedOn"
  BY <1>3 DEF Field, Gives
<1>4. CASE f \notin {"categoryId", "amount", "postedOn"}
  BY <1>4 DEF Field, Gives
<1>5. QED
  BY <1>1, <1>2, <1>3, <1>4

(***************************************************************************)
(* Rows stay sayable: what a POST fills in is no argument's business, the  *)
(* default category is not a proper one, and a patch brings what an        *)
(* argument had.                                                           *)
(***************************************************************************)
LEMMA CreatedSayable == ASSUME NEW new, Sayable(new) PROVE Sayable(Created(new))
<1> DEFINE r == Created(new)
<1>1. r = [g \in DOMAIN r |-> r[g]]
  BY DEF Created, Over
<1>2. /\ DOMAIN r = DOMAIN new \cup {"clientId", "id"} \cup DOMAIN Defaults
      /\ \A g \in DOMAIN new : r[g] = new[g]
      /\ \A g \in DOMAIN Defaults \ DOMAIN new : r[g] = Defaults[g]
  BY CreatedFields
<1>3. /\ DOMAIN Defaults = {"coa", "state", "matchState", "source", "type"}
      /\ Defaults["coa"].type = "UNCATEGORIZED"
  BY DEF Defaults
<1> HIDE DEF r
<1>4. ASSUME NEW in \in PatchInput, NEW f \in DOMAIN in,
             Field(f) \in DOMAIN r, CanSay(Field(f), r[Field(f)])
      PROVE  \E v \in Args(f) : Gives(f, v, r)
  <2>1. Field(f) \in DOMAIN new
    <3>1. Field(f) \in DOMAIN new \/ Field(f) = "coa"
      BY <1>2, <1>3, <1>4, PatchFields
    <3>2. Field(f) = "coa" => f = "categoryId"
      BY PatchFields
    <3>3. "coa" \notin DOMAIN new => r["coa"].type = "UNCATEGORIZED"
      BY <1>2, <1>3
    <3>4. "coa" \notin DOMAIN new => ~CanSay("coa", r["coa"])
      BY <3>3 DEF CanSay
    <3>5. QED
      BY <1>4, <3>1, <3>2, <3>4
  <2>2. r[Field(f)] = new[Field(f)]
    BY <1>2, <2>1
  <2>3. CanSay(Field(f), new[Field(f)])
    BY <1>4, <2>2
  <2>4. PICK v \in Args(f) : Gives(f, v, new)
    BY <2>1, <2>3 DEF Sayable
  <2>5. QED
    BY <2>2, <2>4, GivesSame
<1>5. QED
  BY <1>1, <1>4 DEF Sayable, r

LEMMA PatchedSayable ==
  ASSUME NEW r, Sayable(r), NEW in \in PatchInput, Parses(in)
  PROVE  Sayable(apply(Named(in), r))
<1> DEFINE s == apply(Named(in), r)
<1>1. s = [g \in DOMAIN s |-> s[g]]
  BY DEF apply, Over
<1>2. /\ DOMAIN s = DOMAIN Named(in) \cup DOMAIN r
      /\ \A g \in DOMAIN Named(in) : s[g] = Named(in)[g]
      /\ \A g \in DOMAIN r \ DOMAIN Named(in) : s[g] = r[g]
  BY DEF apply, Over
<1> HIDE DEF s
<1>0. DOMAIN Named(in) = {Field(h) : h \in DOMAIN in}
  BY NamedFields
<1>3. ASSUME NEW on \in PatchInput, NEW f \in DOMAIN on,
             Field(f) \in DOMAIN s, CanSay(Field(f), s[Field(f)])
      PROVE  \E v \in Args(f) : Gives(f, v, s)
  <2>1. CASE f \in DOMAIN in
    <3>1. s[Field(f)] = Named(in)[Field(f)]
      BY <1>2, <1>0, <2>1
    <3>2. Gives(f, in[f], s)
      <4>1. CASE f = "categoryId"
        BY <2>1, <3>1, <4>1, NamedFields DEF Gives, Field
      <4>2. CASE f = "amount"
        BY <2>1, <3>1, <4>2, NamedFields DEF Gives, Field, Parses
      <4>3. CASE f \notin {"categoryId", "amount"}
        <5>1. s[f] = in[f]
          <6>1. Named(in)[f] = in[f]
            BY <2>1, <4>3, NamedFields
          <6>2. Field(f) = f
            BY <4>3 DEF Field
          <6>3. QED
            BY <3>1, <6>1, <6>2
        <5>2. f = "postedOn" => in[f] \in IsoDate
          BY <2>1 DEF Parses
        <5>3. QED
          BY <4>3, <5>1, <5>2 DEF Gives
      <4>4. QED
        BY <4>1, <4>2, <4>3
    <3>3. in[f] \in Args(f)
      BY <2>1, PatchFields
    <3>4. QED
      BY <3>2, <3>3
  <2>2. CASE f \notin DOMAIN in
    <3>1. Field(f) \notin DOMAIN Named(in)
      <4>1. ASSUME NEW h \in DOMAIN in, Field(h) = Field(f) PROVE FALSE
        <5>1. h # "coa" /\ f # "coa"
          BY PatchFields
        <5>2. QED
          BY <2>2, <4>1, <5>1 DEF Field
      <4>2. QED
        BY <4>1, <1>0
    <3>2. Field(f) \in DOMAIN r /\ s[Field(f)] = r[Field(f)]
      BY <1>2, <1>3, <3>1
    <3>3. CanSay(Field(f), r[Field(f)])
      BY <1>3, <3>2
    <3>4. PICK v \in Args(f) : Gives(f, v, r)
      BY <3>2, <3>3 DEF Sayable
    <3>5. QED
      BY <3>2, <3>4, GivesSame
  <2>3. QED
    BY <2>1, <2>2
<1>4. QED
  BY <1>1, <1>3 DEF Sayable, s

LEMMA CategorizedSayable ==
  ASSUME CategoriesSayable, NEW r, Sayable(r), NEW id \in Category
  PROVE  Sayable(apply([coa |-> category(id)], r))
<1> DEFINE p == [coa |-> category(id)]
           s == apply(p, r)
<1>1. s = [g \in DOMAIN s |-> s[g]]
  BY DEF apply, Over
<1>2. DOMAIN s = DOMAIN r \cup {"coa"} /\ s["coa"] = category(id)
      /\ \A g \in DOMAIN r \ {"coa"} : s[g] = r[g]
  BY DEF apply, Over
<1> HIDE DEF s, p
<1>3. ASSUME NEW in \in PatchInput, NEW f \in DOMAIN in,
             Field(f) \in DOMAIN s, CanSay(Field(f), s[Field(f)])
      PROVE  \E v \in Args(f) : Gives(f, v, s)
  <2>1. CASE f = "categoryId"
    <3>1. id \in Args(f)
      BY <1>2, <1>3, <2>1 DEF CanSay, CategoriesSayable, Field
    <3>2. Gives(f, id, s)
      BY <1>2, <2>1 DEF Gives
    <3>3. QED
      BY <3>1, <3>2
  <2>2. CASE f # "categoryId"
    <3>1. Field(f) \in DOMAIN r /\ s[Field(f)] = r[Field(f)]
      BY <1>2, <1>3, <2>2, PatchFields
    <3>2. PICK v \in Args(f) : Gives(f, v, r)
      BY <1>3, <3>1 DEF Sayable
    <3>3. QED
      BY <3>1, <3>2, GivesSame
  <2>3. QED
    BY <2>1, <2>2
<1>4. QED
  BY <1>1, <1>3 DEF Sayable, s, p

LEMMA BlankDates == ASSUME NEW d \in IsoDate PROVE d # ""
  BY TextAssumption, Zenon

LEMMA CompleteBack ==
  ASSUME NEW s, Complete(s), NEW r, DOMAIN r = DOMAIN s, Filled(r["coa"]),
         \A f \in NotEmpty : r[f] = s[f] \/ r[f] \in IsoDate
  PROVE  Complete(r)
<1>1. \A f \in NotEmpty : f \in DOMAIN s /\ s[f] # ""
  BY Zenon DEF Complete
<1>2. Present \subseteq DOMAIN s /\ "coa" \in DOMAIN s
  BY Zenon DEF Complete
<1>3. \A f \in NotEmpty : f \in DOMAIN r /\ r[f] # ""
  BY <1>1, BlankDates, Zenon
<1>4. QED
  BY <1>2, <1>3, Zenon DEF Complete

(***************************************************************************)
(* A patch by an argument `in`, or one that could have been made by it.    *)
(***************************************************************************)
RestoreInv ==
  /\ row = None => image = None
  /\ row # None => Sayable(row)
  /\ ImageRestores

LEMMA PatchRestores ==
  ASSUME NoneIsNoRow, AnyArguments, RestoreInv, NEW p, patch_transaction(p), Sayable(apply(p, row)),
         NEW in \in PatchInput, DOMAIN in # {}, DOMAIN p = {Field(f) : f \in DOMAIN in},
         "coa" \in DOMAIN p => \E id : p["coa"] = category(id),
         \A g \in DOMAIN p \ {"coa"} : CanSay(g, p[g])
  PROVE  RestoreInv'
<1>1. row # None /\ image' = row /\ Sayable(row)
  BY DEF patch_transaction, RestoreInv
<1>2. CASE row' = row
  BY <1>1, <1>2 DEF RestoreInv, ImageRestores
<1>3. CASE row' = apply(p, row) /\ Complete(row')
  <2> DEFINE r == row
             s == row'
  <2>1. SUFFICES ASSUME DOMAIN r = DOMAIN s,
                        \A g \in DOMAIN r : r[g] # s[g] => CanSay(g, r[g])
                 PROVE  \E undo \in PatchInput : \E q \in build_patch(undo) :
                          apply(q, s) = r /\ Complete(r)
    <3>1. row' # None /\ Sayable(row')
      <4>1. "id" \in DOMAIN row'
        BY <1>3, Zenon DEF Complete, NotEmpty
      <4>2. QED
        BY <1>3, <4>1 DEF NoneIsNoRow
    <3>2. ImageRestores'
      BY <1>1, <2>1 DEF ImageRestores, Restorable
    <3>3. QED
      BY <3>1, <3>2 DEF RestoreInv
  <2>2. DOMAIN p \subseteq DOMAIN r /\ (\A g \in DOMAIN p : s[g] = p[g])
        /\ (\A g \in DOMAIN r \ DOMAIN p : s[g] = r[g])
    BY <1>3, <2>1 DEF apply, Over
  <2>3. "coa" \in DOMAIN s /\ Filled(s["coa"])
    BY <1>3, Zenon DEF Complete
  <2>4. \A g \in DOMAIN p : CanSay(g, s[g])
    <3>1. ASSUME "coa" \in DOMAIN p PROVE CanSay("coa", s["coa"])
      <4>1. PICK id : s["coa"] = category(id)
        BY <2>2, <3>1
      <4>2. s["coa"].type = "CATEGORY" /\ s["coa"].extra = None
        BY <4>1 DEF category
      <4>3. QED
        BY <2>3, <4>2 DEF CanSay
    <3>2. QED
      BY <2>2, <3>1
  <2>5. ASSUME NEW f \in DOMAIN in PROVE \E v \in Args(f) : Gives(f, v, r)
    <3>1. Field(f) \in DOMAIN r /\ Field(f) \in DOMAIN p
      BY <2>2
    <3>2. CanSay(Field(f), r[Field(f)])
      BY <2>1, <2>4, <3>1
    <3>3. QED
      BY <1>1, <3>1, <3>2 DEF Sayable
  <2>6. ASSUME NEW f \in NotEmpty PROVE r[f] = s[f] \/ r[f] \in IsoDate
    <3>1. f \in DOMAIN s
      BY <1>3, Zenon DEF Complete
    <3>2. CASE f \in DOMAIN p
      <4>1. PICK h \in DOMAIN in : f = Field(h)
        BY <3>2
      <4>2. h = "postedOn" /\ f = h
        <5>1. h \in {"payee", "renamedPayee", "memo", "categoryId", "tags", "isReviewed",
                     "isExcludedFromReports", "postedOn", "amount"}
          BY PatchAssumption
        <5>2. QED
          BY <4>1, <5>1 DEF NotEmpty, Field
      <4>3. QED
        BY <2>5, <4>2 DEF Gives
    <3>3. QED
      BY <2>1, <2>2, <3>1, <3>2
  <2>7. Complete(r)
    <3>1. Filled(r["coa"])
      <4>1. CASE r["coa"] = s["coa"]
        BY <2>3, <4>1
      <4>2. CASE r["coa"] # s["coa"]
        <5>1. CanSay("coa", r["coa"])
          BY <2>1, <2>3, <4>2
        <5>2. QED
          BY <5>1 DEF CanSay
      <4>3. QED
        BY <4>1, <4>2
    <3>2. QED
      BY <1>3, <2>1, <2>6, <3>1, CompleteBack
  <2>8. r = [g \in DOMAIN r |-> r[g]]
    BY <1>1 DEF Sayable
  <2> HIDE DEF r, s
  <2>9. QED
    BY <2>1, <2>2, <2>5, <2>7, <2>8, ArgumentUndoes
<1>4. QED
  BY <1>2, <1>3 DEF patch_transaction

\* A candidate is made of a record that is not bad.
LEMMA RowsMade ==
  ASSUME FilesOK, NEW n \in DOMAIN Rows(file)
  PROVE  \E rec \in Seen : /\ ~Bad(rec, Columns(file))
                            /\ Rows(file)[n] = NewTransaction(rec, Columns(file))
<1> DEFINE good == {i \in DataAt(file) : ~Blank(file[i]) /\ ~Bad(file[i], Columns(file))}
           Nth(k) == CHOOSE i \in good : Cardinality({j \in good : j < i}) = k - 1
<1>1. /\ DOMAIN Rows(file) = 1 .. Cardinality(good)
      /\ \A k \in 1 .. Cardinality(good) : Rows(file)[k] = NewTransaction(file[Nth(k)], Columns(file))
  BY DEF Rows
<1>2. DOMAIN file = 1 .. Len(file) /\ Len(file) \in Nat /\ \A i \in DOMAIN file : file[i] \in Seen
  BY DEF FilesOK
<1>3. good \in SUBSET (1 .. Len(file)) /\ IsFiniteSet(1 .. Len(file))
  BY <1>2, FS_Interval DEF DataAt
<1>4. good \in SUBSET Nat /\ IsFiniteSet(good)
  BY <1>3, FS_Subset
<1> HIDE DEF good
<1>5. PICK i \in good : Place(good, i) = n - 1
  BY <1>1, <1>4, PlaceCovers
<1>6. Nth(n) \in good
  BY <1>5 DEF Place, Below
<1>7. file[Nth(n)] \in Seen /\ ~Bad(file[Nth(n)], Columns(file))
  BY <1>2, <1>6 DEF good, DataAt
<1>8. QED
  BY <1>1, <1>7

LEMMA PostRestores ==
  ASSUME NoneIsNoRow, RestoreInv, row = None, NEW new, Sayable(new), Post(new) PROVE RestoreInv'
<1>1. row' = Created(new) /\ image' = image /\ image = None
  BY DEF Post, Created, RestoreInv
<1>2. Sayable(row')
  BY <1>1, CreatedSayable
<1>3. QED
  BY <1>1, <1>2 DEF RestoreInv, ImageRestores

LEMMA RestoreStep ==
  ASSUME NoneIsNoRow, AnyArguments, RowsSayable, FilesOK, RestoreInv, [EditNext]_editVars
  PROVE  RestoreInv'
<1>1. CASE Import
  <2>1. PICK n \in DOMAIN Rows(file) : Post(Candidate(Rows(file)[n]))
    BY <1>1 DEF Import
  <2>2. ~Refused(file) /\ row = None
    BY <1>1 DEF Import
  <2>3. PICK rec \in Seen : /\ ~Bad(rec, Columns(file))
                              /\ Rows(file)[n] = NewTransaction(rec, Columns(file))
    BY <2>1, RowsMade
  <2>4. \E head \in Seen : Columns(file) \in {Positional, HeaderColumns(head)}
    <3>1. CASE HasHeader(file)
      BY <3>1 DEF Columns, HasHeader, FilesOK
    <3>2. CASE ~HasHeader(file)
      BY <2>3, <3>2 DEF Columns
    <3>3. QED
      BY <3>1, <3>2
  <2>5. Sayable(Candidate(Rows(file)[n]))
    BY <2>3, <2>4 DEF RowsSayable
  <2>6. QED
    BY <2>1, <2>2, <2>5, PostRestores
<1>2. ASSUME NEW in \in CreateInput, create_transaction(in) PROVE RestoreInv'
  BY <1>2, PostRestores DEF create_transaction, RowsSayable
<1>3. ASSUME NEW r \in LedgerRow, Appears(r) PROVE RestoreInv'
  <2>1. row' = r /\ image' = None /\ Sayable(r) /\ "id" \in DOMAIN r
    BY <1>3, RowAssumption DEF Appears, RestoreInv, RowsSayable
  <2>2. row' # None
    BY <2>1 DEF NoneIsNoRow
  <2>3. QED
    BY <2>1, <2>2 DEF RestoreInv, ImageRestores
<1>4. ASSUME NEW in \in PatchInput, update_transaction(in) PROVE RestoreInv'
  <2>1. Parses(in) /\ DOMAIN in # {} /\ patch_transaction(Named(in)) /\ row # None
    BY <1>4 DEF update_transaction, build_patch, patch_transaction
  <2>2. Sayable(apply(Named(in), row))
    BY <2>1, PatchedSayable DEF RestoreInv
  <2>3. DOMAIN Named(in) = {Field(f) : f \in DOMAIN in}
    BY NamedFields
  <2>4. "coa" \in DOMAIN Named(in) => \E id : Named(in)["coa"] = category(id)
    <3>1. "coa" \in DOMAIN Named(in) => "categoryId" \in DOMAIN in
      BY <2>3, PatchFields DEF Field
    <3>2. QED
      BY <3>1, NamedFields
  <2>5. ASSUME NEW g \in DOMAIN Named(in) \ {"coa"} PROVE CanSay(g, Named(in)[g])
    <3>1. PICK f \in DOMAIN in : g = Field(f)
      BY <2>3
    <3>2. f # "categoryId" /\ f = g
      BY <2>5, <3>1 DEF Field
    <3>3. g = "postedOn" => Named(in)[g] \in IsoDate
      BY <2>1, <3>2, NamedFields DEF Parses
    <3>4. g = "tags" => Named(in)[g] \in Seq(STRING)
      <4>1. ASSUME g = "tags" PROVE in["tags"] \in Seq(STRING)
        BY <3>2, <4>1, PatchAssumption
      <4>2. QED
        BY <2>1, <3>2, <4>1, NamedFields
    <3>5. QED
      BY <2>5, <3>3, <3>4 DEF CanSay
  <2>6. QED
    BY <2>1, <2>2, <2>3, <2>4, <2>5, PatchRestores
<1>5. ASSUME NEW id \in Category, categorize_transaction(id) PROVE RestoreInv'
  <2> DEFINE p == [coa |-> category(id)]
  <2>1. patch_transaction(p) /\ row # None
    BY <1>5 DEF categorize_transaction, patch_transaction
  <2>2. Sayable(apply(p, row))
    BY <2>1, CategorizedSayable DEF RestoreInv, AnyArguments
  <2>3. PICK in \in PatchInput : DOMAIN in = {"categoryId"}
    BY DEF AnyArguments
  <2>4. DOMAIN p = {Field(f) : f \in DOMAIN in} /\ p["coa"] = category(id) /\ DOMAIN p = {"coa"}
    BY <2>3 DEF Field
  <2> HIDE DEF p
  <2>5. QED
    BY <2>1, <2>2, <2>3, <2>4, PatchRestores
<1>6. CASE UNCHANGED editing
  BY <1>6 DEF editing, RestoreInv, ImageRestores, Restorable
<1>7. QED
  BY <1>1, <1>2, <1>3, <1>4, <1>5, <1>6 DEF EditNext, editVars

\* The last change of a row can be undone from the journal if it gave the row no
\* field it did not have and replaced no value that update_transaction has no
\* words for (Edit!ImageRestores).
THEOREM ChangesUndone ==
  ASSUME NoneIsNoRow, AnyArguments, RowsSayable PROVE EditSpec => []ImageRestores
<1>1. EditInit => RestoreInv
  BY DEF EditInit, RestoreInv, ImageRestores
<1>2. FilesOK /\ RestoreInv /\ [EditNext]_editVars => RestoreInv'
  BY NoneIsNoRow, AnyArguments, RowsSayable, RestoreStep
<1>3. RestoreInv => ImageRestores
  BY DEF RestoreInv
<1>4. QED
  BY <1>1, <1>2, <1>3, FilesInit, FilesStep, PTL DEF EditSpec
=============================================================================
