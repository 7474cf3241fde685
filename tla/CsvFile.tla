------------------------------ MODULE CsvFile -------------------------------
(***************************************************************************)
(* CSV import and the import-template export (src/csvio.rs), with what     *)
(* the tools of src/server.rs do to the rows before and after.             *)
(*                                                                         *)
(* A file is a sequence of records, a record a sequence of cells.  A cell  *)
(* is known by its text in lower case; which texts are dates and amounts,  *)
(* and what they mean, is given by the constants.  A row has only the      *)
(* fields that an import can set: the template writes no account, category *)
(* or renamed payee, and an import gives none but the account.             *)
(***************************************************************************)
EXTENDS Naturals, Sequences, FiniteSets

CONSTANTS
  Record,     \* records a file to import can have
  Txn,        \* rows of the mirror: records [posted, payee, amount, tags, memo]
  None,       \* an absent field
  DayOf,      \* parse_import_date: the ISO date a cell is read as
  MDY,        \* iso_to_mdy: the cell an ISO date is written as
  AmountOf,   \* parse_import_amount: the decimal a cell is read as
  Digits,     \* Decimal::to_string
  Parts,      \* split_tags: the tags a cell is read as
  TagName,    \* tag_names: the names of tag ids; of a tag object, what it says itself
  Joined,     \* tag_cell: the cell a list of names is written as, empty ones left out
  Trimmed,    \* csv::Trim::All: the cells it changes, and into what
  Quoted,     \* sanitize_cell: the cells it changes, and into what
  MaxRows,    \* MAX_IMPORT_ROWS
  MaxExport,  \* MAX_EXPORT_ROWS, or the smaller maxRows of the call
  MaxRecords  \* bound of the model: records in a file, rows in the mirror

ASSUME RecordAssumption == Record \subseteq Seq(STRING)
ASSUME TxnAssumption ==
  \A t \in Txn : t = [posted |-> t.posted, payee |-> t.payee, amount |-> t.amount,
                      tags |-> t.tags, memo |-> t.memo]
ASSUME BoundAssumption == MaxRows \in Nat /\ MaxExport \in Nat /\ MaxRecords \in Nat
ASSUME BlankAssumption == "" \notin DOMAIN DayOf \cup DOMAIN AmountOf \cup DOMAIN Quoted
ASSUME TrimAssumption ==
  /\ \A c \in DOMAIN Trimmed : Trimmed[c] \in STRING
  /\ DOMAIN Trimmed \cap
       ({"", "date", "payee", "amount", "tags"} \cup DOMAIN DayOf \cup DOMAIN AmountOf) = {}

VARIABLES
  file,      \* the records of the csv argument, as they are read
  mirror     \* filtered_snapshot: the rows to export, most recent first

vars == <<file, mirror>>

-----------------------------------------------------------------------------
(* Import.                                                                 *)

trim(c) == IF c \in DOMAIN Trimmed THEN Trimmed[c] ELSE c

(* A record as the reader gives it.                                        *)
StringRecord(rec) == [i \in DOMAIN rec |-> trim(rec[i])]

Titles ==
  [date |-> {"date"}, payee |-> {"payee", "description"}, amount |-> {"amount"},
   tags |-> {"tags", "tag"}, memo |-> {"memo", "notes"}]

Required == {"date", "payee", "amount"}

Positional == [date |-> 1, payee |-> 2, amount |-> 3, tags |-> 4]

IsHeader(rec) == \E i \in DOMAIN rec : rec[i] \in Required

(* The columns a header names; the last of two with one name counts.       *)
HeaderColumns(rec) ==
  LET At(n) == {i \in DOMAIN rec : rec[i] \in Titles[n]} IN
  [n \in {n \in DOMAIN Titles : At(n) # {}} |->
     CHOOSE i \in At(n) : \A j \in At(n) : j <= i]

HasHeader(f) == f # <<>> /\ IsHeader(f[1])
DataStart(f) == IF HasHeader(f) THEN 1 ELSE 0
Columns(f)   == IF HasHeader(f) THEN HeaderColumns(f[1]) ELSE Positional

Cell(rec, col, n) ==
  IF n \in DOMAIN col /\ col[n] \in DOMAIN rec THEN rec[col[n]] ELSE ""

Blank(rec) == \A i \in DOMAIN rec : rec[i] = ""

(* Missing date, payee or amount, or one that cannot be read.              *)
Bad(rec, col) ==
  \/ Cell(rec, col, "date") \notin DOMAIN DayOf
  \/ Cell(rec, col, "payee") = ""
  \/ Cell(rec, col, "amount") \notin DOMAIN AmountOf

(* The bound is checked while reading and again once a header is known.    *)
TooLong(f) == Len(f) > MaxRows + 1 \/ Len(f) - DataStart(f) > MaxRows

(* The file is refused as a whole.                                         *)
Refused(f) ==
  \/ f = <<>> \/ TooLong(f)
  \/ HasHeader(f) /\ ~(Required \subseteq DOMAIN HeaderColumns(f[1]))

\* Fault: an error is given the number of its line, header included.
LineNo(f, i) == i

(* The number a data row is given in the errors.                           *)
RowNo(f, i) == i - DataStart(f)

DataAt(f) == {i \in DOMAIN f : i > DataStart(f)}

Errors(f) ==
  {RowNo(f, i) : i \in {i \in DataAt(f) : ~Blank(f[i]) /\ Bad(f[i], Columns(f))}}

NewTransaction(rec, col) ==
  [posted |-> DayOf[Cell(rec, col, "date")], payee |-> Cell(rec, col, "payee"),
   amount |-> AmountOf[Cell(rec, col, "amount")],
   tags |-> IF Cell(rec, col, "tags") = "" THEN <<>> ELSE Parts[Cell(rec, col, "tags")],
   memo |-> IF Cell(rec, col, "memo") = "" THEN None ELSE Cell(rec, col, "memo")]

(* The creation candidates, in file order.                                 *)
Rows(f) ==
  LET good == {i \in DataAt(f) : ~Blank(f[i]) /\ ~Bad(f[i], Columns(f))}
      Nth(n) == CHOOSE i \in good : Cardinality({j \in good : j < i}) = n - 1
  IN [n \in 1..Cardinality(good) |-> NewTransaction(f[Nth(n)], Columns(f))]

-----------------------------------------------------------------------------
(* Export.                                                                 *)

sanitize_cell(c) == IF c \in DOMAIN Quoted THEN Quoted[c] ELSE c

OrBlank(v) == IF v = None THEN "" ELSE v

(* Tags are written by name, one without a name as it is.                  *)
TagNames(t) ==
  [n \in DOMAIN t.tags |-> IF t.tags[n] \in DOMAIN TagName THEN TagName[t.tags[n]] ELSE t.tags[n]]

tag_cell(t) == Joined[TagNames(t)]

\* Fault: the template's columns are written in the order of the archive.
ArchiveOrder(t) ==
  << IF t.posted = None THEN "" ELSE MDY[t.posted],
     IF t.amount = None THEN "" ELSE Digits[t.amount],
     sanitize_cell(OrBlank(t.payee)), sanitize_cell(tag_cell(t)) >>

Line(t) ==
  << IF t.posted = None THEN "" ELSE MDY[t.posted],
     sanitize_cell(OrBlank(t.payee)),
     IF t.amount = None THEN "" ELSE Digits[t.amount],
     sanitize_cell(tag_cell(t)) >>

(* export_transactions: the most recent rows up to the cap, oldest first.  *)
Exported(rows) ==
  LET n == IF Len(rows) > MaxExport THEN MaxExport ELSE Len(rows) IN
  [k \in 1..n |-> rows[n + 1 - k]]

Template(rows) ==
  LET lines == Exported(rows) IN
  << <<"date", "payee", "amount", "tags">> >> \o [k \in DOMAIN lines |-> Line(lines[k])]

-----------------------------------------------------------------------------
Init == file = <<>> /\ mirror = <<>>

(* Every file, and every snapshot, up to MaxRecords long; one of the two,  *)
(* since an import and an export share nothing.                            *)
AddRecord(rec) ==
  /\ mirror = <<>> /\ Len(file) < MaxRecords
  /\ file' = Append(file, StringRecord(rec)) /\ UNCHANGED mirror

AddRow(t) ==
  /\ file = <<>> /\ Len(mirror) < MaxRecords
  /\ mirror' = Append(mirror, t) /\ UNCHANGED file

Next ==
  \/ \E rec \in Record : AddRecord(rec)
  \/ \E t \in Txn : AddRow(t)

Spec == Init /\ [][Next]_vars

-----------------------------------------------------------------------------
(* What a record holds under the title t, for the titles of a header row   *)
(* or the template's own; under the last of them, where one is given twice. *)
Under(t, rec) ==
  LET titles == IF HasHeader(file) THEN file[1] ELSE <<"date", "payee", "amount", "tags">>
      cols   == {i \in DOMAIN titles : \/ titles[i] = t
                                       \/ t = "payee" /\ titles[i] = "description"}
  IN {rec[i] : i \in {i \in cols \cap DOMAIN rec : \A j \in cols : j <= i}}

Importable(rec) ==
  /\ Under("date", rec) \cap DOMAIN DayOf # {}
  /\ Under("payee", rec) \ {""} # {}
  /\ Under("amount", rec) \cap DOMAIN AmountOf # {}

(* No row of an accepted file is dropped without a word: each is blank, or *)
(* becomes a candidate, or is in the errors under its own data-row number. *)
EveryRowAccounted ==
  ~Refused(file) =>
    LET head == IF HasHeader(file) THEN 1 ELSE 0
        Data(n) == file[n + head]
        n == Len(file) - head
    IN /\ \A k \in 1..n : k \in Errors(file) <=>
             ~Importable(Data(k)) /\ \E c \in DOMAIN Data(k) : Data(k)[c] # ""
       /\ Errors(file) \subseteq 1..n
       /\ Len(Rows(file)) = Cardinality({k \in 1..n : Importable(Data(k))})

(* A row the template can express: it has a date in the form that an       *)
(* import gives dates, a payee and an amount, no memo, no cell that is     *)
(* quoted or trimmed, and no tag whose name is empty, is trimmed or holds  *)
(* a separator.                                                            *)
Expressible(t) ==
  /\ t.posted # None /\ t.payee \notin {None, ""} /\ t.amount # None
  /\ \E c \in DOMAIN DayOf : DayOf[c] = t.posted
  /\ t.payee \notin DOMAIN Quoted \cup DOMAIN Trimmed
  /\ tag_cell(t) \notin DOMAIN Quoted
  /\ t.memo = None
  /\ LET cell == trim(tag_cell(t)) IN
     IF cell = "" THEN TagNames(t) = <<>> ELSE Parts[cell] = TagNames(t)

(* What comes back of a row: its tags are names, where it had ids.         *)
ByName(t) == [t EXCEPT !.tags = TagNames(t)]

Returns(rows) ==
  LET text == Template(rows)
      sent == Exported(rows)
      f    == [n \in DOMAIN text |-> StringRecord(text[n])]
  IN ~Refused(f) /\ Errors(f) = {} /\ Rows(f) = [n \in DOMAIN sent |-> ByName(sent[n])]

(* Expressible rows survive an export and a re-import, in order, but for   *)
(* the ids of their tags, which come back as names.                        *)
ExpressibleReturn ==
  Len(mirror) <= MaxRows /\ (\A n \in DOMAIN mirror : Expressible(mirror[n]))
    => Returns(mirror)
=============================================================================
