-------------------------------- MODULE Edit --------------------------------
(***************************************************************************)
(* What the mutating tools of src/server.rs make of a row: creation        *)
(* (create_transaction, bulk_import_transactions, to_create_body), and     *)
(* typed patches (build_patch, TransactionPatch::apply in src/models.rs)   *)
(* that are checked for completeness and sent as the whole row.            *)
(*                                                                         *)
(* A row, a patch and an argument are functions from the fields they have  *)
(* to their values; a field that is None is not in the domain.  A coa has  *)
(* a type, an id and what else the service gave it (extra).  One row is    *)
(* followed, created from a file of CsvFile, by the create tool, or by     *)
(* another client; what two writers do to each other is in SyncStore.      *)
(***************************************************************************)
EXTENDS CsvFile

CONSTANTS
  PatchInput,   \* patch arguments of update_transaction
  CreateInput,  \* arguments of create_transaction
  Category,     \* category_id arguments of categorize_transaction
  LedgerRow,    \* rows of other clients
  Account,      \* the account_id argument of an import
  Fresh,        \* a generated clientId, and the id the ledger gives
  IsoDate,      \* the texts validate_iso_date accepts
  DecimalOf     \* parse_decimal: the decimal a text is read as

ASSUME RowAssumption == \A r \in LedgerRow : "id" \in DOMAIN r
ASSUME TextAssumption ==
  None \notin {"", "0", "CATEGORY", "UNCATEGORIZED"} /\ Fresh # "" /\ "" \notin IsoDate
(* What CreateTransactionInput requires.                                   *)
ASSUME CreateAssumption ==
  \A in \in CreateInput : {"accountId", "postedOn", "payee", "amount"} \subseteq DOMAIN in
(* What TransactionPatchInput has room for.                                *)
ASSUME PatchAssumption ==
  \A in \in PatchInput :
    /\ DOMAIN in \subseteq {"payee", "renamedPayee", "memo", "categoryId", "tags", "isReviewed",
                           "isExcludedFromReports", "postedOn", "amount"}
    /\ "tags" \in DOMAIN in => in["tags"] \in Seq(STRING)

VARIABLES
  row,     \* the row as the ledger and the mirror hold it, or None
  image,   \* the before-image in the journal's last attempt, or None
  origin   \* history: what the row was created from, or None

editing  == <<row, image, origin>>
editVars == <<vars, editing>>

-----------------------------------------------------------------------------
(* The fields of f, and those of g that f does not have.                   *)
Over(f, g) ==
  [x \in DOMAIN f \cup DOMAIN g |-> IF x \in DOMAIN f THEN f[x] ELSE g[x]]

(* UPSERT_REQUIRED_FIELDS, by what validate_upsert_required asks of each.  *)
NotEmpty == {"id", "clientId", "accountId", "postedOn", "state", "matchState",
             "source", "type"}
Present  == {"payee", "amount"}

Filled(c) == c.type \notin {None, ""} /\ c.id \notin {None, ""}

(* validate_upsert_required: the row has all that a PUT must carry.        *)
Complete(r) ==
  /\ \A f \in NotEmpty : f \in DOMAIN r /\ r[f] # ""
  /\ Present \subseteq DOMAIN r
  /\ "coa" \in DOMAIN r /\ Filled(r["coa"])

(* CoaRef::category: a coa with nothing else to it.                        *)
category(id) == [type |-> "CATEGORY", id |-> id, extra |-> None]

(* An argument's date and amount are parsed before anything else is done.  *)
Parses(in) ==
  /\ "postedOn" \in DOMAIN in => in["postedOn"] \in IsoDate
  /\ "amount" \in DOMAIN in => in["amount"] \in DOMAIN DecimalOf

(* The fields an argument names, with their values.                        *)
Named(in) ==
  [f \in {IF g = "categoryId" THEN "coa" ELSE g : g \in DOMAIN in} |->
     CASE f = "coa"    -> category(in["categoryId"])
       [] f = "amount" -> DecimalOf[in["amount"]]
       [] OTHER        -> in[f]]

(* A patch that names nothing is refused.                                  *)
build_patch(in) == IF Parses(in) /\ DOMAIN in # {} THEN {Named(in)} ELSE {}

\* Fault: tags are added to those of the row.
AddTags(patch, base) ==
  IF "tags" \in DOMAIN patch \cap DOMAIN base
  THEN Over([patch EXCEPT !["tags"] = base["tags"] \o @], base) ELSE Over(patch, base)

apply(patch, base) == Over(patch, base)

\* Fault: a default category without its id.
BareCoa == [coa |-> [type |-> "UNCATEGORIZED", id |-> None, extra |-> None],
            state |-> "CLEARED", matchState |-> "NOT_MATCHED", source |-> "MANUAL", type |-> "CASH_FLOW"]

(* The UNVERIFIED_DEFAULTs, and no category.                               *)
Defaults == [coa |-> [type |-> "UNCATEGORIZED", id |-> "0", extra |-> None],
             state |-> "CLEARED", matchState |-> "NOT_MATCHED", source |-> "MANUAL", type |-> "CASH_FLOW"]

to_create_body(new) == Over(new, Over([clientId |-> Fresh], Defaults))

(* The creation candidate of a CSV row.                                    *)
Candidate(r) ==
  LET must == [accountId |-> Account, postedOn |-> r.posted, payee |-> r.payee,
               amount |-> r.amount]
      tags == IF r.tags = <<>> THEN <<>> ELSE [tags |-> r.tags]
      memo == IF r.memo = None THEN <<>> ELSE [memo |-> r.memo]
  IN Over(must, Over(tags, memo))

-----------------------------------------------------------------------------
EditInit == Init /\ row = None /\ image = None /\ origin = None

(* POST /transactions: the ledger keeps the body, under an id of its own.  *)
Post(new) ==
  /\ row' = Over(to_create_body(new), [id |-> Fresh])
  /\ origin' = new
  /\ UNCHANGED <<mirror, image>>

(* A confirmed bulk import; one of its rows is followed, the file is gone. *)
Import ==
  /\ row = None /\ ~Refused(file)
  /\ \E n \in DOMAIN Rows(file) : Post(Candidate(Rows(file)[n]))
  /\ file' = <<>>

create_transaction(in) ==
  /\ row = None /\ file = <<>> /\ mirror = <<>>
  /\ Parses(in)
  /\ Post(Named(in))
  /\ UNCHANGED file

(* A row of another client reaches the mirror.                             *)
Appears(r) ==
  /\ row = None /\ file = <<>> /\ mirror = <<>>
  /\ row' = r
  /\ UNCHANGED <<vars, image, origin>>

(* patch_transaction: the attempt is on file with the row as it was; the   *)
(* patched row is sent if it is complete, and the mirror holds what was    *)
(* sent.                                                                   *)
patch_transaction(patch) ==
  /\ row # None
  /\ image' = row
  /\ row' = IF Complete(apply(patch, row)) THEN apply(patch, row) ELSE row
  /\ UNCHANGED <<vars, origin>>

update_transaction(in) == \E p \in build_patch(in) : patch_transaction(p)

categorize_transaction(id) == patch_transaction([coa |-> category(id)])

EditNext ==
  \/ Import
  \/ \E in \in CreateInput : create_transaction(in)
  \/ \E r \in LedgerRow : Appears(r)
  \/ \E in \in PatchInput : update_transaction(in)
  \/ \E id \in Category : categorize_transaction(id)
  \/ row = None /\ Next /\ UNCHANGED editing

EditSpec == EditInit /\ [][EditNext]_editVars

-----------------------------------------------------------------------------
(* A row this server creates can be edited by this server ever after: what *)
(* a POST leaves out, with the defaults it fills in, is nothing that a PUT *)
(* is refused for.  (Unless the call gave an empty text for an identity.)  *)
CreatedEditable ==
  origin # None /\ (\A f \in DOMAIN origin \cap NotEmpty : origin[f] # "")
    /\ ("coa" \in DOMAIN origin => Filled(origin["coa"]))
  => Complete(row)

(* Some update_transaction takes the row back to its before-image.         *)
Restorable == \E in \in PatchInput : \E p \in build_patch(in) :
                apply(p, row) = image /\ Complete(image)

(* A value of a field that update_transaction has words for: a category    *)
(* with nothing else to it, an ISO date, a list of tag ids.                *)
CanSay(f, v) ==
  /\ f = "coa" => v.type = "CATEGORY" /\ v.extra = None /\ Filled(v)
  /\ f = "postedOn" => v \in IsoDate
  /\ f = "tags" => v \in Seq(STRING)

(* The last change can be undone from the journal if it gave the row no    *)
(* field it did not have, and replaced nothing that cannot be said: not an *)
(* UNCATEGORIZED coa or one with more to it than type and id, not a date   *)
(* that is not ISO, not tags given as objects or numbers.                  *)
ImageRestores ==
  image \notin {None, row} /\ DOMAIN image = DOMAIN row
    /\ (\A f \in DOMAIN image : image[f] # row[f] => CanSay(f, image[f]))
  => Restorable
=============================================================================
