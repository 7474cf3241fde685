------------------------------ MODULE SyncStore ------------------------------
(***************************************************************************)
(* SyncStore (src/store.rs): the in-memory mirror of the upstream ledger,  *)
(* kept by paged incremental syncs (list_transactions_all in               *)
(* src/client.rs) and written through by the mutating tools (fetch_txn and *)
(* update_transaction in src/server.rs, patch_transaction in               *)
(* src/client.rs), while other clients edit the same ledger.               *)
(*                                                                         *)
(* Every modification of a row upstream gets the next stamp; a row's       *)
(* content is the set of the modifications it shows, so an edit that a     *)
(* later write takes back is a stamp that leaves the set.  A row that      *)
(* shows none does not exist; stamp 0 is how a row was found at the start. *)
(* Reference data is refreshed behind the same gate; its content is not    *)
(* tracked.                                                                *)
(***************************************************************************)
EXTENDS Integers, FiniteSets, Functions

CONSTANTS
  Task,         \* tool calls in progress
  NoTask,       \* "the sync gate is free"
  Writers,      \* the tasks that may run a mutating tool
  Row,          \* transactions
  NoRow,        \* "the call reads; it is not about one row"
  MinSync,      \* mcp_min_sync_interval_secs, in clock units
  MaxStale,     \* mcp_max_stale_secs
  ReferenceTTL, \* REFERENCE_TTL
  SnapshotAsOf, \* external: all pages of one listing carry its first asOf
  Failures,     \* external: requests may fail, and callers drop their calls
  MaxCalls,     \* bound: tool calls in a behaviour
  MaxStamp,     \* bound: the stamps other clients give
  MaxNow        \* bound: the last instant of the clock

Kind == {"txn", "ref"}
MaxAge(k) == IF k = "txn" THEN MaxStale ELSE ReferenceTTL

ASSUME TaskAssumption == NoTask \notin Task /\ Writers \subseteq Task
ASSUME RowAssumption  == NoRow \notin Row
ASSUME TimeAssumption ==
  /\ MinSync \in Nat /\ MaxStale \in Nat /\ ReferenceTTL \in Nat
  /\ MaxCalls \in Nat /\ MaxStamp \in Nat /\ MaxNow \in Nat
ASSUME UpstreamAssumption == SnapshotAsOf \in BOOLEAN /\ Failures \in BOOLEAN

VARIABLES
  \* The upstream ledger (external):
  content,    \* the modifications each row shows
  modified,   \* the stamp of each row's last modification
  stamp,      \* the last stamp given
  late,       \* PUTs under way whose answers nobody waits for
  \* StoreState and the gate:
  mirror,     \* StoreState.transactions
  watermark,  \* StoreState.watermark
  synced,     \* txn_synced_once, ref_synced_once
  last,       \* last_txn_sync, last_ref_sync
  gate,       \* sync_gate: the task inside, or NoTask
  \* Tool calls:
  pc, kind, force, row,
  batch,      \* the listing a task is fetching
  base,       \* the row as the task read it, then as it wrote it
  calls, now,
  \* History variables:
  started,    \* when the last sync of each kind went upstream, or -1 if it failed
  lapped,     \* since the task's PUT was accepted, a sync has landed or another
              \* PUT of the row been applied
  overtaken,  \* the rows written through after they were lapped
  settled,    \* the PUTs written through while no sync held an older copy
  during      \* what each row has been since the sync in progress began

ledger   == <<content, modified, stamp>>
upstream == <<ledger, late, during>>
store    == <<mirror, watermark, synced, last>>
args     == <<kind, force, row>>
writes   == <<lapped, overtaken, settled>>
history  == <<started, writes>>
vars == <<upstream, store, gate, pc, args, batch, base, calls, now, history>>

Stamps  == SUBSET Nat
NoBatch == [got |-> <<>>, left |-> {}, since |-> 0, upto |-> 0]
PC      == {"idle", "gate", "first", "pages", "reference", "base", "put", "ack"}
Fetching == {"first", "pages", "reference"}

Init ==
  /\ content \in [Row -> {{}, {0}}] /\ modified = [r \in Row |-> 0] /\ stamp = 0
  /\ late = {}
  /\ mirror = [r \in Row |-> {}] /\ watermark = 0
  /\ synced = [k \in Kind |-> FALSE] /\ last = [k \in Kind |-> 0]
  /\ gate = NoTask
  /\ pc = [t \in Task |-> "idle"] /\ kind = [t \in Task |-> "txn"]
  /\ force = [t \in Task |-> FALSE] /\ row = [t \in Task |-> NoRow]
  /\ batch = [t \in Task |-> NoBatch] /\ base = [t \in Task |-> {}]
  /\ calls = 0 /\ now = 0
  /\ started = [k \in Kind |-> -1]
  /\ lapped = [t \in Task |-> FALSE] /\ overtaken = {} /\ settled = {}
  /\ during = [r \in Row |-> {content[r]}]

-----------------------------------------------------------------------------
Goto(t, where) == pc' = [pc EXCEPT ![t] = where]

Begin(t, k, f, r) ==
  /\ pc[t] = "idle" /\ calls < MaxCalls
  /\ calls' = calls + 1
  /\ kind' = [kind EXCEPT ![t] = k]
  /\ force' = [force EXCEPT ![t] = f]
  /\ row' = [row EXCEPT ![t] = r]
  /\ Goto(t, "gate")
  /\ UNCHANGED <<upstream, store, gate, batch, base, now, history>>

\* A reading tool asks for fresh transactions or reference data.
CallRead(t, k, f) == Begin(t, k, f, NoRow)

\* A mutating tool asks for the row it will patch (fetch_txn).
CallWrite(t, r) == t \in Writers /\ Begin(t, "txn", FALSE, r)

\* The call is over: its locals go, and the gate if it holds it.
Return(t) ==
  /\ Goto(t, "idle")
  /\ kind' = [kind EXCEPT ![t] = "txn"] /\ force' = [force EXCEPT ![t] = FALSE]
  /\ row' = [row EXCEPT ![t] = NoRow]
  /\ batch' = [batch EXCEPT ![t] = NoBatch] /\ base' = [base EXCEPT ![t] = {}]
  /\ gate' = IF gate = t THEN NoTask ELSE gate

Syncing == \E t \in Task : gate = t /\ kind[t] = "txn"

\* What went on during a sync is of no interest once it has ended.
Forget(t) == during' = IF gate = t THEN [r \in Row |-> {content[r]}] ELSE during

\* A sync that does not succeed counts for nothing.
Unstart(t) == started' = IF gate = t THEN [started EXCEPT ![kind[t]] = -1] ELSE started

\* ensure_transactions returns Ok: the gate is free, and a writer goes on.
Ensured(t) ==
  IF row[t] = NoRow THEN Return(t)
  ELSE /\ Goto(t, "base")
       /\ batch' = [batch EXCEPT ![t] = NoBatch]
       /\ gate' = IF gate = t THEN NoTask ELSE gate
       /\ UNCHANGED <<args, base>>

Age(k) == now - last[k]
\* Fault: a floor that gives way to refresh: true.
FreshUnlessForced(k, f) == synced[k] /\ ~f /\ Age(k) < MaxAge(k)
\* The floor holds even for a forced sync, but only once one has succeeded.
Fresh(k, f) == synced[k] /\ (Age(k) < MinSync \/ (~f /\ Age(k) < MaxAge(k)))

\* ensure_transactions and ensure_reference, from the gate to the first await.
\* The read, decision and return of a cache hit are one step, so the gate that
\* it takes and frees does not show.
\* Fault: syncs run without the gate.
NoGate == TRUE
GateFree == gate = NoTask

CacheHit(t) ==
  /\ pc[t] = "gate" /\ GateFree /\ Fresh(kind[t], force[t])
  /\ Ensured(t)
  /\ UNCHANGED <<upstream, store, calls, now, history>>

StartSync(t) ==
  /\ pc[t] = "gate" /\ GateFree /\ ~Fresh(kind[t], force[t])
  /\ gate' = t
  /\ Goto(t, IF kind[t] = "txn" THEN "first" ELSE "reference")
  /\ started' = [started EXCEPT ![kind[t]] = now]
  /\ UNCHANGED <<upstream, store, args, batch, base, calls, now, writes>>

\* The rows an incremental listing (modifiedAfter), or the first one, matches.
Matching ==
  {r \in Row : content[r] # {} /\ (~synced["txn"] \/ modified[r] > watermark)}

\* The rows R as they are now, over what earlier pages held of them.
Merge(got, R) == [r \in R \cup DOMAIN got |-> IF r \in R THEN content[r] ELSE got[r]]

AfterPage(t, got, left, since, upto) ==
  /\ batch' = [batch EXCEPT ![t] = [got |-> got, left |-> left,
                                    since |-> since, upto |-> upto]]
  /\ Goto(t, "pages")
  /\ UNCHANGED <<upstream, store, gate, args, base, calls, now, history>>

\* A page is answered from the ledger as it is at that moment.
FirstPage(t) ==
  /\ pc[t] = "first"
  /\ \E R \in SUBSET Matching :
       AfterPage(t, Restrict(content, R), Matching \ R, stamp, stamp)

\* The next page holds some of the rows left, and may show any other row that
\* matches by now.
NextPage(t) ==
  /\ pc[t] = "pages" /\ batch[t].left # {}
  /\ \E R \in SUBSET batch[t].left \ {{}}, S \in SUBSET (Matching \ batch[t].left) :
       AfterPage(t, Merge(batch[t].got, R \cup S), batch[t].left \ R, batch[t].since,
                 IF SnapshotAsOf THEN batch[t].upto ELSE stamp)

\* Fault: the watermark is the clock after the listing.
WatermarkAtEnd(t) == {stamp}
\* The watermark moves to the listing's asOf; without one it stays, or falls
\* back to the local clock less WATERMARK_OVERLAP_SECS, taken to lie before the
\* listing began.
Watermarks(t) ==
  {batch[t].upto} \cup (IF synced["txn"] THEN {watermark} ELSE 0 .. batch[t].since)

\* The last page has no nextLink: its rows are inserted.
Apply(t) ==
  /\ pc[t] = "pages" /\ batch[t].left = {}
  /\ mirror' = [r \in Row |-> IF r \in DOMAIN batch[t].got THEN batch[t].got[r] ELSE mirror[r]]
  /\ watermark' \in Watermarks(t)
  /\ synced' = [synced EXCEPT !["txn"] = TRUE]
  /\ last' = [last EXCEPT !["txn"] = now]
  /\ lapped' = [u \in Task |-> lapped[u] \/ pc[u] = "ack"]
  /\ overtaken' = overtaken \ DOMAIN batch[t].got
  /\ Ensured(t) /\ Forget(t)
  /\ UNCHANGED <<ledger, late, calls, now, started, settled>>

\* Categories, tags and accounts are fetched in turn and installed together.
ApplyReference(t) ==
  /\ pc[t] = "reference"
  /\ synced' = [synced EXCEPT !["ref"] = TRUE]
  /\ last' = [last EXCEPT !["ref"] = now]
  /\ Ensured(t)
  /\ UNCHANGED <<upstream, mirror, watermark, calls, now, history>>

\* Any request of the sync fails, and with it the tool; nothing is recorded.
SyncFails(t) ==
  /\ Failures /\ pc[t] \in Fetching
  /\ Return(t) /\ Forget(t) /\ Unstart(t)
  /\ UNCHANGED <<ledger, late, store, calls, now, writes>>

-----------------------------------------------------------------------------
\* fetch_txn looks the row up in the mirror: it is the base the patch is applied
\* to, and the before-image.
ReadBase(t) ==
  /\ pc[t] = "base" /\ mirror[row[t]] # {}
  /\ base' = [base EXCEPT ![t] = mirror[row[t]]]
  /\ Goto(t, "put")
  /\ UNCHANGED <<upstream, store, gate, args, batch, calls, now, history>>

\* On a miss it asks once more, with a forced sync,
BaseMissing(t) ==
  /\ pc[t] = "base" /\ mirror[row[t]] = {} /\ ~force[t]
  /\ force' = [force EXCEPT ![t] = TRUE]
  /\ Goto(t, "gate")
  /\ UNCHANGED <<upstream, store, gate, kind, row, batch, base, calls, now, history>>

\* and then gives up.
BaseNotFound(t) ==
  /\ pc[t] = "base" /\ mirror[row[t]] = {} /\ force[t]
  /\ Return(t)
  /\ UNCHANGED <<upstream, store, calls, now, history>>

Modify(r, shows) ==
  /\ stamp' = stamp + 1
  /\ content' = [content EXCEPT ![r] = shows \cup {stamp + 1}]
  /\ modified' = [modified EXCEPT ![r] = stamp + 1]
  /\ during' = [during EXCEPT ![r] = (IF Syncing THEN @ ELSE {}) \cup {content'[r]}]

\* PUT /transactions/{id} is applied: the whole row, which is the base it was
\* made from and the patch.
Put(r, shows) ==
  /\ Modify(r, shows)
  /\ lapped' = [u \in Task |-> lapped[u] \/ (pc[u] = "ack" /\ row[u] = r)]

PutAccepted(t) ==
  /\ pc[t] = "put"
  /\ Put(row[t], base[t])
  /\ base' = [base EXCEPT ![t] = @ \cup {stamp + 1}]
  /\ Goto(t, "ack")
  /\ UNCHANGED <<late, store, gate, args, batch, calls, now, started, overtaken, settled>>

\* The PUT that t sends; a task sends one in a call.
PutOf(t) == [row |-> row[t], shows |-> base[t], by |-> <<t, calls>>]

\* The task waits no more; the PUT was never sent or is refused, or it is under way.
Unanswered(t) == late' \in {late, late \cup {PutOf(t)}}

\* The tool reports an error, an error status or a timeout.
PutFails(t) ==
  /\ Failures /\ pc[t] = "put"
  /\ Unanswered(t)
  /\ Return(t)
  /\ UNCHANGED <<ledger, during, store, calls, now, history>>

\* The upstream applies a PUT that nobody waits for, if ever (external).
Lands(p) ==
  /\ Put(p.row, p.shows)
  /\ late' = late \ {p}
  /\ UNCHANGED <<store, gate, pc, args, batch, base, calls, now, started, overtaken, settled>>

\* The other calls that are about to send or to write through the same row.
Rivals(t) == {u \in Task \ {t} : row[u] = row[t] /\ pc[u] \in {"put", "ack"}}

\* A sync in progress, another update or a PUT under way has an older copy of the
\* row that t waits to write through.
Outdated(t) ==
  \/ Rivals(t) # {}
  \/ \E u \in Task : row[t] \in DOMAIN batch[u].got
  \/ \E p \in late : p.row = row[t]

\* The stamp of the PUT that t waits to write through, unless it has been lapped
\* or an older copy of its row is about.
Settles(t) ==
  IF lapped[t] \/ Outdated(t) THEN {} ELSE {s \in base[t] : \A u \in base[t] : u <= s}

\* A late write-through may leave its row behind the ledger; one in time makes good
\* for it.
Overtaken(t) ==
  IF lapped[t] THEN overtaken \cup {row[t]} ELSE overtaken \ {row[t]}

\* Fault: the row is patched in the answer only.
UpsertForgotten(t) ==
  /\ pc[t] = "ack"
  /\ overtaken' = Overtaken(t)
  /\ settled' = settled \cup Settles(t)
  /\ lapped' = [lapped EXCEPT ![t] = FALSE]
  /\ Return(t)
  /\ UNCHANGED <<upstream, store, calls, now, started>>

\* upsert_local: the row as sent replaces the mirror's.
UpsertLocal(t) ==
  /\ pc[t] = "ack"
  /\ mirror' = [mirror EXCEPT ![row[t]] = base[t]]
  /\ overtaken' = Overtaken(t)
  /\ settled' = settled \cup Settles(t)
  /\ lapped' = [lapped EXCEPT ![t] = FALSE]
  /\ Return(t)
  /\ UNCHANGED <<upstream, watermark, synced, last, calls, now, started>>

\* Another client of the ledger edits, creates or deletes a row.
WebEdit(r) ==
  /\ stamp < MaxStamp
  /\ Modify(r, content[r])
  /\ UNCHANGED <<late, store, gate, pc, args, batch, base, calls, now, history>>

\* The tool's future is dropped in an await; a PUT already sent stays under way.
Abandon(t) ==
  /\ Failures /\ pc[t] \in {"gate", "put"} \cup Fetching
  /\ IF pc[t] = "put" THEN Unanswered(t) ELSE UNCHANGED late
  /\ Return(t) /\ Forget(t) /\ Unstart(t)
  /\ UNCHANGED <<ledger, store, calls, now, writes>>

Tick ==
  /\ now < MaxNow
  /\ now' = now + 1
  /\ UNCHANGED <<upstream, store, gate, pc, args, batch, base, calls, history>>

\* Nothing left to do within the bounds.
Quiet == (\A t \in Task : pc[t] = "idle") /\ UNCHANGED vars

Call(t) ==
  \/ \E k \in Kind, f \in BOOLEAN : CallRead(t, k, f)
  \/ \E r \in Row : CallWrite(t, r)

Proceed(t) ==
  \/ FirstPage(t) \/ NextPage(t) \/ Apply(t) \/ ApplyReference(t) \/ SyncFails(t)
  \/ ReadBase(t) \/ BaseMissing(t) \/ BaseNotFound(t) \/ PutAccepted(t) \/ PutFails(t) \/ UpsertLocal(t)

Next ==
  \/ \E t \in Task : Call(t) \/ CacheHit(t) \/ StartSync(t) \/ Proceed(t) \/ Abandon(t)
  \/ \E r \in Row : WebEdit(r)
  \/ \E p \in late : Lands(p)
  \/ Tick \/ Quiet

Spec == Init /\ [][Next]_vars

-----------------------------------------------------------------------------
BatchOK ==
  /\ DOMAIN batch = Task
  /\ \A t \in Task : /\ DOMAIN batch[t].got \subseteq Row
                     /\ \A r \in DOMAIN batch[t].got : batch[t].got[r] \in Stamps
                     /\ batch[t].left \subseteq Row
                     /\ batch[t].since \in Nat /\ batch[t].upto \in Nat

TypeOK ==
  /\ content \in [Row -> Stamps] /\ modified \in [Row -> Nat] /\ stamp \in Nat
  /\ late \subseteq [row : Row, shows : Stamps, by : Task \X Nat]
  /\ mirror \in [Row -> Stamps] /\ watermark \in Nat
  /\ synced \in [Kind -> BOOLEAN] /\ last \in [Kind -> Nat]
  /\ gate \in Task \cup {NoTask}
  /\ pc \in [Task -> PC] /\ kind \in [Task -> Kind] /\ force \in [Task -> BOOLEAN]
  /\ row \in [Task -> Row \cup {NoRow}]
  /\ BatchOK
  /\ base \in [Task -> Stamps]
  /\ calls \in Nat /\ now \in Nat
  /\ started \in [Kind -> Nat \cup {-1}]
  /\ overtaken \subseteq Row /\ settled \subseteq Nat
  /\ during \in [Row -> SUBSET Stamps]
  /\ lapped \in [Task -> BOOLEAN]

\* A row of the mirror that differs from the ledger has been modified past the
\* watermark, so the next incremental sync fetches it.
Behind(r) == mirror[r] = content[r] \/ modified[r] > watermark

\* No change is lost on the mirror, whatever is edited between the pages of a
\* sync and whatever fails, unless a sync landed, or another PUT of the row,
\* between a PUT and its write-through, which then may put an older row over a
\* newer one.
NoLostChange == synced["txn"] => \A r \in Row \ overtaken : Behind(r)

\* What the write-through is there for: it keeps the mirror consistent.
MirrorConsistent == synced["txn"] => \A r \in Row : Behind(r)

\* However insistently it is asked for, and by whom, a sync starts at least
\* MinSync after the start of the last one of its kind, unless that one failed.
Starts(k) == \E t \in Task : kind[t] = k /\ pc[t] = "gate" /\ pc'[t] \in Fetching
SyncFloor ==
  [][\A k \in Kind : Starts(k) /\ synced[k] /\ started[k] >= 0 =>
       now - started[k] >= MinSync]_vars

\* An update that was answered stands: no later one takes it back, though each PUT
\* is the whole row as the mirror has it.  (Unless, while it was written through, a
\* sync held an older copy of the row, which lands and is the base of the next
\* PUT, or another update of the row had read its base, or one that timed out or
\* was dropped was still to be applied.)
OwnEditsStand == settled \subseteq UNION {content[r] : r \in Row}

\* The mirror is a view of the ledger that each sync brings up to date as a whole:
\* no listing lands on a later one, and readers see no row go back that only other
\* clients modify.
View == INSTANCE LedgerView WITH
  ledger <- content, since <- during, view <- mirror, astray <- overtaken,
  open <- Syncing
IsView == View!Spec
=============================================================================
