--------------------------- MODULE SyncStoreProofs ----------------------------
(***************************************************************************)
(* Proofs about SyncStore, for any number of tasks and writers, any set of *)
(* rows and any intervals: mutual exclusion of the syncs, what the         *)
(* watermark owes the mirror, what a write-through preserves, and that the *)
(* mirror is the view LedgerView describes.                                *)
(***************************************************************************)
EXTENDS SyncStore, TLAPS

-----------------------------------------------------------------------------
(***************************************************************************)
(* The inductive invariant, part by part.                                  *)
(***************************************************************************)

(* A task inside the gate is syncing, and one that is syncing is inside;    *)
(* only a task between two pages has a batch; only a writer has a row.      *)
GateOK == \A t \in Task :
  /\ pc[t] \in Fetching <=> gate = t
  /\ pc[t] \in {"first", "pages"} => kind[t] = "txn"
  /\ pc[t] = "reference" => kind[t] = "ref"
  /\ pc[t] \in {"base", "put", "ack"} => row[t] \in Row
  /\ row[t] # NoRow => kind[t] = "txn"
  /\ pc[t] # "pages" => batch[t] = NoBatch

(* The ledger's stamps: nothing is modified later than the last stamp, and  *)
(* a row that was never modified is as it was found.                        *)
StampsOK ==
  /\ watermark <= stamp
  /\ \A r \in Row : modified[r] <= stamp /\ (content[r] = {} => modified[r] = 0)

(* Before the first sync there is nothing to patch.                         *)
UnsyncedOK == ~synced["txn"] =>
  /\ watermark = 0 /\ overtaken = {} /\ mirror = [r \in Row |-> {}]
  /\ \A t \in Task : pc[t] \notin {"base", "put", "ack"}

(* No sync has landed since the PUT of a task that is not lapped,            *)
AckOK == \A t \in Task : pc[t] = "ack" /\ ~lapped[t] => modified[row[t]] > watermark

(* and no other PUT of its row been applied.                                *)
BaseOK == \A t \in Task : pc[t] = "ack" /\ ~lapped[t] => base[t] \subseteq content[row[t]]

(* The rows a listing in progress has done with.                            *)
Passed(t) == Row \ (DOMAIN batch[t].got \cup batch[t].left)

(* What a listing has read is current or modified past its asOf; what it    *)
(* passes over is so in the mirror, or will be by a write-through.          *)
ListingOK == \A t \in Task : pc[t] = "pages" =>
  /\ batch[t].since = batch[t].upto
  /\ watermark <= batch[t].upto /\ batch[t].upto <= stamp
  /\ \A r \in DOMAIN batch[t].got :
       batch[t].got[r] = content[r] \/ modified[r] > batch[t].upto
  /\ \A r \in Passed(t) \ overtaken :
       mirror[r] = content[r] \/ modified[r] > batch[t].upto
  /\ \A u \in Task : pc[u] = "ack" /\ ~lapped[u] /\ row[u] \in Passed(t) =>
       modified[row[u]] > batch[t].upto

(* A row read or passed over by a listing is as the ledger had it since the *)
(* sync began; between syncs nothing is remembered.                         *)
ViewOK ==
  /\ ~Syncing => during = [r \in Row |-> {content[r]}]
  /\ \A r \in Row : content[r] \in during[r]
  /\ \A t \in Task : pc[t] = "pages" =>
       /\ \A r \in DOMAIN batch[t].got : batch[t].got[r] \in during[r]
       /\ \A r \in Passed(t) \ overtaken : mirror[r] \in during[r]
       /\ \A u \in Task : pc[u] = "ack" /\ ~lapped[u] /\ row[u] \in Passed(t) =>
            base[u] \in during[row[u]]

(* A sync that is not in progress has failed or has landed no earlier than  *)
(* it began.                                                                *)
FloorOK == \A k \in Kind :
  /\ started[k] <= now /\ last[k] <= now
  /\ started[k] <= last[k] \/ \E t \in Task : gate = t /\ kind[t] = k

(* An answered update shows wherever its row may yet be copied from.        *)
Shown(s, r) ==
  /\ s \in content[r] /\ s \in mirror[r]
  /\ \A u \in Task : /\ r \in DOMAIN batch[u].got => s \in batch[u].got[r]
                     /\ pc[u] \in {"put", "ack"} /\ row[u] = r => s \in base[u]
  /\ \A p \in late : p.row = r => s \in p.shows
StandOK == \A s \in settled : \E r \in Row : Shown(s, r)

-----------------------------------------------------------------------------
(***************************************************************************)
(* Types.                                                                  *)
(***************************************************************************)
LEMMA NoBatchTypes ==
  /\ DOMAIN NoBatch.got = {} /\ NoBatch.left = {}
  /\ NoBatch.since = 0 /\ NoBatch.upto = 0
  BY DEF NoBatch

LEMMA ReturnTypes ==
  ASSUME TypeOK, NEW t \in Task, Return(t)
  PROVE  /\ gate' \in Task \cup {NoTask}
         /\ pc' \in [Task -> PC] /\ kind' \in [Task -> Kind] /\ force' \in [Task -> BOOLEAN]
         /\ row' \in [Task -> Row \cup {NoRow}] /\ base' \in [Task -> Stamps]
         /\ batch' = [batch EXCEPT ![t] = NoBatch]
  BY DEF TypeOK, Return, Goto, PC, Kind, Stamps

LEMMA EnsuredTypes ==
  ASSUME TypeOK, NEW t \in Task, Ensured(t)
  PROVE  /\ gate' \in Task \cup {NoTask}
         /\ pc' \in [Task -> PC] /\ kind' \in [Task -> Kind] /\ force' \in [Task -> BOOLEAN]
         /\ row' \in [Task -> Row \cup {NoRow}] /\ base' \in [Task -> Stamps]
         /\ batch' = [batch EXCEPT ![t] = NoBatch]
<1>1. CASE row[t] = NoRow
  BY <1>1, ReturnTypes DEF Ensured
<1>2. CASE row[t] # NoRow
  BY <1>2 DEF Ensured, TypeOK, Goto, PC, args
<1>3. QED
  BY <1>1, <1>2

LEMMA NoBatchOK ==
  ASSUME TypeOK, NEW t \in Task, batch' = [batch EXCEPT ![t] = NoBatch]
  PROVE  BatchOK'
  BY NoBatchTypes DEF TypeOK, BatchOK

LEMMA PageOK ==
  ASSUME TypeOK, NEW t \in Task, NEW got, NEW left, NEW since, NEW upto,
         DOMAIN got \subseteq Row, \A r \in DOMAIN got : got[r] \in Stamps,
         left \subseteq Row, since \in Nat, upto \in Nat,
         batch' = [batch EXCEPT ![t] = [got |-> got, left |-> left,
                                        since |-> since, upto |-> upto]]
  PROVE  BatchOK'
  BY DEF TypeOK, BatchOK

LEMMA ModifyTypes ==
  ASSUME TypeOK, NEW r \in Row, NEW shows \in Stamps, Modify(r, shows)
  PROVE  /\ content' \in [Row -> Stamps] /\ modified' \in [Row -> Nat] /\ stamp' \in Nat
         /\ during' \in [Row -> SUBSET Stamps]
<1>1. content' \in [Row -> Stamps] /\ modified' \in [Row -> Nat] /\ stamp' \in Nat
  BY DEF Modify, TypeOK, Stamps
<1>2. content'[r] \in Stamps
  BY <1>1
<1>3. during \in [Row -> SUBSET Stamps]
  BY DEF TypeOK
<1>4. during' = [during EXCEPT ![r] = (IF Syncing THEN @ ELSE {}) \cup {content'[r]}]
  BY DEF Modify
<1>5. during' \in [Row -> SUBSET Stamps]
  BY <1>2, <1>3, <1>4
<1>6. QED
  BY <1>1, <1>5

(* A page changes nothing but the task's place and its batch.               *)
LEMMA PageFrame ==
  ASSUME TypeOK, NEW t \in Task, FirstPage(t) \/ NextPage(t)
  PROVE  /\ UNCHANGED <<content, modified, stamp, late, during>>
         /\ UNCHANGED <<mirror, watermark, synced, last, gate>>
         /\ UNCHANGED <<kind, force, row, base, calls, now>>
         /\ UNCHANGED <<started, lapped, overtaken, settled>>
         /\ pc[t] \in {"first", "pages"} /\ pc'[t] = "pages"
         /\ \A u \in Task \ {t} : pc'[u] = pc[u]
<1>1. PICK got, left, since, upto : AfterPage(t, got, left, since, upto)
  BY DEF FirstPage, NextPage
<1>2. UNCHANGED <<upstream, store, gate, args, base, calls, now, history>> /\ Goto(t, "pages")
  BY <1>1 DEF AfterPage
<1>3. UNCHANGED <<content, modified, stamp, late, during, mirror, watermark, synced, last, gate>>
  BY <1>2 DEF upstream, ledger, store
<1>4. UNCHANGED <<kind, force, row, base, calls, now, started, lapped, overtaken, settled>>
  BY <1>2 DEF args, history, writes
<1>5. pc[t] \in {"first", "pages"}
  BY DEF FirstPage, NextPage
<1>6. pc'[t] = "pages" /\ \A u \in Task \ {t} : pc'[u] = pc[u]
  BY <1>2 DEF Goto, TypeOK
<1>7. QED
  BY <1>3, <1>4, <1>5, <1>6

LEMMA TypeInit == Init => TypeOK
<1> SUFFICES ASSUME Init PROVE TypeOK
  OBVIOUS
<1>1. content \in [Row -> Stamps]
  BY DEF Init, Stamps
<1>2. BatchOK
  BY NoBatchTypes DEF Init, BatchOK
<1>3. during \in [Row -> SUBSET Stamps]
  BY <1>1 DEF Init
<1>4. QED
  BY <1>1, <1>2, <1>3 DEF Init, TypeOK, Stamps, Kind, PC

LEMMA ForgetTypes ==
  ASSUME TypeOK, NEW t \in Task, Forget(t)
  PROVE  during' \in [Row -> SUBSET Stamps]
  BY DEF Forget, TypeOK

LEMMA UnstartTypes ==
  ASSUME TypeOK, NEW t \in Task, Unstart(t)
  PROVE  started' \in [Kind -> Nat \cup {-1}]
  BY DEF Unstart, TypeOK

LEMMA PutTypes ==
  ASSUME TypeOK, NEW r \in Row, NEW shows \in Stamps, Put(r, shows)
  PROVE  /\ content' \in [Row -> Stamps] /\ modified' \in [Row -> Nat] /\ stamp' \in Nat
         /\ during' \in [Row -> SUBSET Stamps]
         /\ lapped' \in [Task -> BOOLEAN]
  BY ModifyTypes DEF Put, TypeOK

(* What a task at "put" holds is the PUT it sends.                          *)
Sent == [row : Row, shows : Stamps, by : Task \X Nat]

LEMMA UnansweredTypes ==
  ASSUME TypeOK, GateOK, NEW t \in Task, pc[t] = "put", Unanswered(t)
  PROVE  late' \subseteq Sent
<1>1. row[t] \in Row /\ base[t] \in Stamps /\ calls \in Nat
  BY DEF GateOK, TypeOK
<1>2. PutOf(t) \in Sent
  BY <1>1 DEF PutOf, Sent
<1>3. QED
  BY <1>2 DEF Unanswered, TypeOK, Sent

LEMMA TypeStep == TypeOK /\ GateOK /\ [Next]_vars => TypeOK'
<1> SUFFICES ASSUME TypeOK, GateOK, [Next]_vars PROVE TypeOK'
  OBVIOUS
<1> USE DEF TypeOK, Goto, args, ledger, upstream, store, writes, history
<1>1. ASSUME NEW t \in Task, Call(t) PROVE TypeOK'
  <2>1. PICK k \in Kind, f \in BOOLEAN, r \in Row \cup {NoRow} : Begin(t, k, f, r)
    BY <1>1 DEF Call, CallRead, CallWrite, Kind
  <2>2. BatchOK'
    BY <2>1 DEF Begin, BatchOK
  <2>3. QED
    BY <2>1, <2>2 DEF Begin, PC, Kind
<1>2. ASSUME NEW t \in Task, CacheHit(t) PROVE TypeOK'
  BY <1>2, EnsuredTypes, NoBatchOK DEF CacheHit
<1>3. ASSUME NEW t \in Task, StartSync(t) PROVE TypeOK'
  BY <1>3 DEF StartSync, BatchOK, PC
<1>4. ASSUME NEW t \in Task, FirstPage(t) PROVE TypeOK'
  <2>1. PICK R \in SUBSET Matching :
          AfterPage(t, Restrict(content, R), Matching \ R, stamp, stamp)
    BY <1>4 DEF FirstPage
  <2>2. R \subseteq Row /\ Matching \ R \subseteq Row
    BY DEF Matching
  <2>3. /\ DOMAIN Restrict(content, R) \subseteq Row
        /\ \A r \in DOMAIN Restrict(content, R) : Restrict(content, R)[r] \in Stamps
    BY <2>2 DEF Restrict
  <2>4. BatchOK'
    BY <2>1, <2>2, <2>3, PageOK DEF AfterPage
  <2>5. QED
    BY <2>1, <2>4 DEF AfterPage, PC
<1>5. ASSUME NEW t \in Task, NextPage(t) PROVE TypeOK'
  <2>1. PICK R \in SUBSET batch[t].left, S \in SUBSET (Matching \ batch[t].left) :
          AfterPage(t, Merge(batch[t].got, R \cup S), batch[t].left \ R, batch[t].since,
                    IF SnapshotAsOf THEN batch[t].upto ELSE stamp)
    BY <1>5 DEF NextPage
  <2>2. R \cup S \subseteq Row /\ batch[t].left \ R \subseteq Row
    BY DEF Matching, BatchOK
  <2>3. /\ DOMAIN Merge(batch[t].got, R \cup S) \subseteq Row
        /\ \A r \in DOMAIN Merge(batch[t].got, R \cup S) :
             Merge(batch[t].got, R \cup S)[r] \in Stamps
    BY <2>2 DEF Merge, BatchOK
  <2>4. BatchOK'
    BY <2>1, <2>2, <2>3, PageOK DEF AfterPage, BatchOK
  <2>5. QED
    BY <2>1, <2>4 DEF AfterPage, PC
<1>6. ASSUME NEW t \in Task, Apply(t) PROVE TypeOK'
  <2>1. watermark' \in Nat
    BY <1>6 DEF Apply, Watermarks, BatchOK
  <2>2. mirror' \in [Row -> Stamps]
    BY <1>6 DEF Apply, BatchOK
  <2>3. QED
    BY <1>6, <2>1, <2>2, EnsuredTypes, NoBatchOK, ForgetTypes DEF Apply, Kind
<1>7. ASSUME NEW t \in Task, ApplyReference(t) PROVE TypeOK'
  BY <1>7, EnsuredTypes, NoBatchOK DEF ApplyReference, Kind
<1>8. ASSUME NEW t \in Task, SyncFails(t) PROVE TypeOK'
  BY <1>8, ReturnTypes, NoBatchOK, ForgetTypes, UnstartTypes DEF SyncFails
<1>9. ASSUME NEW t \in Task, ReadBase(t) PROVE TypeOK'
  <2>1. row[t] \in Row
    BY <1>9 DEF ReadBase, GateOK
  <2>2. QED
    BY <1>9, <2>1 DEF ReadBase, BatchOK, PC
<1>10. ASSUME NEW t \in Task, BaseMissing(t) PROVE TypeOK'
  BY <1>10 DEF BaseMissing, BatchOK, PC
<1>11. ASSUME NEW t \in Task, BaseNotFound(t) PROVE TypeOK'
  BY <1>11, ReturnTypes, NoBatchOK DEF BaseNotFound
<1>12. ASSUME NEW t \in Task, PutAccepted(t) PROVE TypeOK'
  <2>1. base' \in [Task -> Stamps]
    BY <1>12 DEF PutAccepted, Stamps
  <2>2. row[t] \in Row /\ base[t] \in Stamps
    BY <1>12 DEF PutAccepted, GateOK
  <2>3. QED
    BY <1>12, <2>1, <2>2, PutTypes DEF PutAccepted, BatchOK, PC
<1>13. ASSUME NEW t \in Task, PutFails(t) PROVE TypeOK'
  BY <1>13, UnansweredTypes, ReturnTypes, NoBatchOK DEF PutFails, Sent
<1>14. ASSUME NEW t \in Task, UpsertLocal(t) PROVE TypeOK'
  <2>1. row[t] \in Row /\ base[t] \in Stamps
    BY <1>14 DEF UpsertLocal, GateOK
  <2>2. overtaken' \subseteq Row /\ settled' \subseteq Nat
    BY <1>14, <2>1 DEF UpsertLocal, Overtaken, Settles, Stamps
  <2>3. QED
    BY <1>14, <2>1, <2>2, ReturnTypes, NoBatchOK DEF UpsertLocal
<1>15. ASSUME NEW t \in Task, Abandon(t) PROVE TypeOK'
  <2>1. started' \in [Kind -> Nat \cup {-1}]
    BY <1>15, UnstartTypes DEF Abandon
  <2>2. late' \subseteq Sent
    BY <1>15, UnansweredTypes DEF Abandon, Sent
  <2>3. QED
    BY <1>15, <2>1, <2>2, ReturnTypes, NoBatchOK, ForgetTypes DEF Abandon, Sent
<1>16. ASSUME NEW r \in Row, WebEdit(r) PROVE TypeOK'
  BY <1>16, ModifyTypes DEF WebEdit, BatchOK
<1>17. ASSUME NEW p \in late, Lands(p) PROVE TypeOK'
  <2>1. p.row \in Row /\ p.shows \in Stamps
    OBVIOUS
  <2>2. QED
    BY <1>17, <2>1, PutTypes DEF Lands, BatchOK
<1>18. CASE Tick
  BY <1>18 DEF Tick, BatchOK
<1>19. CASE UNCHANGED vars
  BY <1>19 DEF vars, BatchOK
<1>20. QED
  BY <1>1, <1>2, <1>3, <1>4, <1>5, <1>6, <1>7, <1>8, <1>9, <1>10, <1>11, <1>12, <1>13,
     <1>14, <1>15, <1>16, <1>17, <1>18, <1>19 DEF Next, Proceed, Quiet

-----------------------------------------------------------------------------
(***************************************************************************)
(* The gate.                                                               *)
(***************************************************************************)

(* What returning to the caller does to the parts GateOK relates.           *)
LEMMA ReturnGate ==
  ASSUME TypeOK, GateOK, NEW t \in Task, Return(t)
  PROVE  GateOK'
  BY TaskAssumption, RowAssumption DEF TypeOK, BatchOK, GateOK, Return, Goto, Fetching, PC

LEMMA EnsuredGate ==
  ASSUME TypeOK, GateOK, NEW t \in Task, Ensured(t)
  PROVE  GateOK'
<1>1. CASE row[t] = NoRow
  BY <1>1, ReturnGate DEF Ensured
<1>2. CASE row[t] # NoRow
  BY <1>2, TaskAssumption DEF Ensured, TypeOK, BatchOK, GateOK, Goto, Fetching, PC, args
<1>3. QED
  BY <1>1, <1>2

LEMMA GateInit == Init => GateOK
  BY TaskAssumption DEF Init, GateOK, Fetching

LEMMA GateStep == TypeOK /\ GateOK /\ [Next]_vars => GateOK'
<1> SUFFICES ASSUME TypeOK, GateOK, [Next]_vars PROVE GateOK'
  OBVIOUS
<1> USE DEF Goto, args
<1>1. ASSUME NEW t \in Task, Call(t) PROVE GateOK'
  <2>1. CASE \E k \in Kind, f \in BOOLEAN : CallRead(t, k, f)
    BY <2>1 DEF CallRead, Begin, TypeOK, GateOK, Fetching
  <2>2. CASE \E r \in Row : CallWrite(t, r)
    BY <2>2 DEF CallWrite, Begin, TypeOK, GateOK, Fetching
  <2>3. QED
    BY <1>1, <2>1, <2>2 DEF Call
<1>2. ASSUME NEW t \in Task, CacheHit(t) PROVE GateOK'
  BY <1>2, EnsuredGate DEF CacheHit
<1>3. ASSUME NEW t \in Task, StartSync(t) PROVE GateOK'
  <2>1. kind[t] \in {"txn", "ref"} /\ gate = NoTask
    BY <1>3 DEF StartSync, TypeOK, Kind, GateFree
  <2>2. QED
    BY <1>3, <2>1, TaskAssumption DEF StartSync, TypeOK, GateOK, Fetching
<1>4. ASSUME NEW t \in Task, FirstPage(t) \/ NextPage(t) PROVE GateOK'
  <2>1. PICK got, left, since, upto : AfterPage(t, got, left, since, upto)
    BY <1>4 DEF FirstPage, NextPage
  <2>2. pc[t] \in {"first", "pages"}
    BY <1>4 DEF FirstPage, NextPage
  <2>3. QED
    BY <2>1, <2>2 DEF AfterPage, TypeOK, BatchOK, GateOK, Fetching
<1>5. ASSUME NEW t \in Task, Apply(t) \/ ApplyReference(t) PROVE GateOK'
  BY <1>5, EnsuredGate DEF Apply, ApplyReference
<1>6. ASSUME NEW t \in Task, SyncFails(t) \/ BaseNotFound(t) \/ PutFails(t) \/ UpsertLocal(t) \/ Abandon(t)
      PROVE GateOK'
  BY <1>6, ReturnGate DEF SyncFails, BaseNotFound, PutFails, UpsertLocal, Abandon
<1>7. ASSUME NEW t \in Task, ReadBase(t) \/ BaseMissing(t) \/ PutAccepted(t) PROVE GateOK'
  BY <1>7 DEF ReadBase, BaseMissing, PutAccepted, TypeOK, GateOK, Fetching
<1>8. ASSUME NEW r \in Row, WebEdit(r) PROVE GateOK'
  BY <1>8 DEF WebEdit, GateOK
<1>9. ASSUME NEW p \in late, Lands(p) PROVE GateOK'
  BY <1>9 DEF Lands, GateOK
<1>10. CASE Tick \/ UNCHANGED vars
  BY <1>10 DEF Tick, vars, GateOK
<1>11. QED
  BY <1>1, <1>2, <1>3, <1>4, <1>5, <1>6, <1>7, <1>8, <1>9, <1>10 DEF Next, Proceed, Quiet

(* No two tasks are inside the gate, and Syncing is told by the holder's pc. *)
LEMMA OneFetches ==
  ASSUME GateOK, NEW t \in Task, NEW u \in Task, pc[t] \in Fetching, pc[u] \in Fetching
  PROVE  t = u
  BY DEF GateOK

(* A call that returns, or goes on from ensure_transactions, touches nothing *)
(* of the other tasks', and waits for nothing.                              *)
LEMMA ReturnFrame ==
  ASSUME TypeOK, NEW t \in Task, Return(t)
  PROVE  /\ pc'[t] = "idle" /\ batch'[t] = NoBatch
         /\ \A u \in Task \ {t} :
              /\ pc'[u] = pc[u] /\ kind'[u] = kind[u] /\ row'[u] = row[u]
              /\ batch'[u] = batch[u] /\ base'[u] = base[u]
  BY DEF TypeOK, BatchOK, Return, Goto

LEMMA EnsuredFrame ==
  ASSUME TypeOK, NEW t \in Task, Ensured(t)
  PROVE  /\ pc'[t] \in {"idle", "base"} /\ batch'[t] = NoBatch
         /\ row[t] = NoRow => pc'[t] = "idle"
         /\ \A u \in Task \ {t} :
              /\ pc'[u] = pc[u] /\ kind'[u] = kind[u] /\ row'[u] = row[u]
              /\ batch'[u] = batch[u] /\ base'[u] = base[u]
<1>1. CASE row[t] = NoRow
  BY <1>1, ReturnFrame DEF Ensured
<1>2. CASE row[t] # NoRow
  BY <1>2 DEF Ensured, TypeOK, BatchOK, Goto, args
<1>3. QED
  BY <1>1, <1>2

(* The gate opens when a sync ends, and only then.                          *)
LEMMA ReturnFrees ==
  ASSUME TypeOK, GateOK, NEW t \in Task, Return(t)
  PROVE  /\ pc[t] \in Fetching => gate' = NoTask
         /\ pc[t] \notin Fetching => gate' = gate
  BY DEF TypeOK, GateOK, Return

LEMMA EnsuredFrees ==
  ASSUME TypeOK, GateOK, NEW t \in Task, Ensured(t)
  PROVE  /\ pc[t] \in Fetching => gate' = NoTask
         /\ pc[t] \notin Fetching => gate' = gate
  BY ReturnFrees DEF TypeOK, GateOK, Ensured

-----------------------------------------------------------------------------
(***************************************************************************)
(* The floor between two syncs.                                            *)
(***************************************************************************)
LEMMA FloorInit == Init => FloorOK
  BY DEF Init, FloorOK

LEMMA FloorFrame ==
  ASSUME TypeOK, GateOK, FloorOK, UNCHANGED <<started, last, now>>, NEW t \in Task,
         pc[t] \notin Fetching, gate' = gate,
         \A u \in Task \ {t} : kind'[u] = kind[u]
  PROVE  FloorOK'
  BY DEF FloorOK, GateOK

LEMMA FloorStep == TypeOK /\ GateOK /\ FloorOK /\ [Next]_vars => FloorOK'
<1> SUFFICES ASSUME TypeOK, GateOK, FloorOK, [Next]_vars PROVE FloorOK'
  OBVIOUS
<1> USE DEF args, store, history
<1>1. ASSUME NEW t \in Task, Call(t) \/ CacheHit(t) PROVE FloorOK'
  <2>1. CASE Call(t)
    <3>1. PICK k \in Kind, f \in BOOLEAN, r \in Row \cup {NoRow} : Begin(t, k, f, r)
      BY <2>1 DEF Call, CallRead, CallWrite, Kind
    <3>2. QED
      BY <3>1, FloorFrame DEF Begin, Fetching, TypeOK
  <2>2. CASE CacheHit(t)
    BY <2>2, EnsuredFrame, EnsuredFrees, FloorFrame DEF CacheHit, Fetching
  <2>3. QED
    BY <1>1, <2>1, <2>2
<1>2. ASSUME NEW t \in Task, StartSync(t) PROVE FloorOK'
  <2>1. gate = NoTask /\ gate' = t /\ kind' = kind
    BY <1>2 DEF StartSync, GateFree
  <2>2. ASSUME NEW k \in Kind PROVE started[k] <= last[k]
    BY <2>1, TaskAssumption DEF FloorOK
  <2>3. QED
    BY <1>2, <2>1, <2>2 DEF StartSync, FloorOK, TypeOK
<1>3. ASSUME NEW t \in Task, FirstPage(t) \/ NextPage(t) PROVE FloorOK'
  BY <1>3, PageFrame DEF FloorOK
<1>4. ASSUME NEW t \in Task, Apply(t) \/ ApplyReference(t) PROVE FloorOK'
  <2>1. gate = t
    BY <1>4 DEF Apply, ApplyReference, GateOK, Fetching
  <2>2. last' = [last EXCEPT ![kind[t]] = now] /\ UNCHANGED <<started, now>>
    BY <1>4 DEF Apply, ApplyReference, GateOK
  <2>3. QED
    BY <2>1, <2>2 DEF FloorOK, TypeOK
<1>5. ASSUME NEW t \in Task, SyncFails(t) PROVE FloorOK'
  <2>1. gate = t /\ UNCHANGED <<last, now>>
    BY <1>5 DEF SyncFails, GateOK
  <2>2. started' = [started EXCEPT ![kind[t]] = -1]
    BY <1>5, <2>1 DEF SyncFails, Unstart
  <2>3. QED
    BY <2>1, <2>2 DEF FloorOK, TypeOK
<1>6. ASSUME NEW t \in Task, BaseNotFound(t) \/ PutFails(t) \/ UpsertLocal(t)
      PROVE FloorOK'
  BY <1>6, ReturnFrame, ReturnFrees, FloorFrame
     DEF BaseNotFound, PutFails, UpsertLocal, Fetching
<1>7. ASSUME NEW t \in Task, ReadBase(t) \/ BaseMissing(t) \/ PutAccepted(t) PROVE FloorOK'
  BY <1>7 DEF ReadBase, BaseMissing, PutAccepted, FloorOK
<1>8. ASSUME NEW t \in Task, Abandon(t) PROVE FloorOK'
  <2>1. CASE gate = t
    <3>1. started' = [started EXCEPT ![kind[t]] = -1] /\ UNCHANGED <<last, now>>
      BY <1>8, <2>1 DEF Abandon, Unstart
    <3>2. QED
      BY <2>1, <3>1 DEF FloorOK, TypeOK
  <2>2. CASE gate # t
    <3>1. UNCHANGED <<started, last, now>> /\ pc[t] \notin Fetching
      BY <1>8, <2>2 DEF Abandon, Unstart, GateOK
    <3>2. QED
      BY <1>8, <3>1, ReturnFrame, ReturnFrees, FloorFrame DEF Abandon
  <2>3. QED
    BY <2>1, <2>2
<1>9. ASSUME NEW r \in Row, WebEdit(r) PROVE FloorOK'
  BY <1>9 DEF WebEdit, FloorOK
<1>10. ASSUME NEW p \in late, Lands(p) PROVE FloorOK'
  BY <1>10 DEF Lands, FloorOK
<1>11. CASE Tick
  BY <1>11 DEF Tick, FloorOK, TypeOK
<1>12. CASE UNCHANGED vars
  BY <1>12 DEF vars, FloorOK
<1>13. QED
  BY <1>1, <1>2, <1>3, <1>4, <1>5, <1>6, <1>7, <1>8, <1>9, <1>10, <1>11, <1>12 DEF Next, Proceed, Quiet

(* However it is asked for, a sync starts MinSync after the last of its kind *)
(* began, unless that one failed.                                           *)
LEMMA FloorAction ==
  ASSUME TypeOK, GateOK, FloorOK, [Next]_vars, NEW k \in Kind,
         Starts(k), synced[k], started[k] >= 0
  PROVE  now - started[k] >= MinSync
<1>1. PICK t \in Task : kind[t] = k /\ pc[t] = "gate" /\ pc'[t] \in Fetching
  BY DEF Starts
<1>2. StartSync(t)
  <2> USE DEF Fetching, Goto
  <2>1. ASSUME NEW u \in Task, Call(u) PROVE FALSE
    BY <1>1, <2>1 DEF Call, CallRead, CallWrite, Begin, TypeOK
  <2>2. ASSUME NEW u \in Task, CacheHit(u) \/ Apply(u) \/ ApplyReference(u) PROVE FALSE
    BY <1>1, <2>2, EnsuredFrame DEF CacheHit, Apply, ApplyReference
  <2>3. ASSUME NEW u \in Task, SyncFails(u) \/ BaseNotFound(u) \/ PutFails(u) \/ UpsertLocal(u) \/ Abandon(u)
        PROVE FALSE
    BY <1>1, <2>3, ReturnFrame DEF SyncFails, BaseNotFound, PutFails, UpsertLocal, Abandon
  <2>4. ASSUME NEW u \in Task, FirstPage(u) \/ NextPage(u) PROVE FALSE
    BY <1>1, <2>4 DEF FirstPage, NextPage, AfterPage, TypeOK
  <2>5. ASSUME NEW u \in Task, ReadBase(u) \/ BaseMissing(u) \/ PutAccepted(u) PROVE FALSE
    BY <1>1, <2>5 DEF ReadBase, BaseMissing, PutAccepted, TypeOK
  <2>6. ASSUME NEW u \in Task, StartSync(u), u # t PROVE FALSE
    BY <1>1, <2>6 DEF StartSync, TypeOK
  <2>7. ASSUME (\E r \in Row : WebEdit(r)) \/ (\E p \in late : Lands(p)) \/ Tick \/ UNCHANGED vars
        PROVE  FALSE
    BY <1>1, <2>7 DEF WebEdit, Lands, Tick, vars
  <2>8. QED
    BY <2>1, <2>2, <2>3, <2>4, <2>5, <2>6, <2>7 DEF Next, Proceed, Quiet
<1>3. gate = NoTask /\ now - last[k] >= MinSync
  BY <1>1, <1>2, TimeAssumption DEF StartSync, GateFree, Fresh, Age, TypeOK
<1>4. started[k] <= last[k]
  BY <1>3, TaskAssumption DEF FloorOK
<1>5. QED
  BY <1>3, <1>4, TimeAssumption DEF TypeOK

(* However insistently it is asked for, and by whom, a sync starts no       *)
(* sooner than MinSync after the start of the last one of its kind, unless  *)
(* that one failed (ensure_transactions, ensure_reference).                 *)
THEOREM SyncFloorHolds == Spec => SyncFloor
<1>1. Init => TypeOK /\ GateOK /\ FloorOK
  BY TypeInit, GateInit, FloorInit
<1>2. TypeOK /\ GateOK /\ FloorOK /\ [Next]_vars => TypeOK' /\ GateOK' /\ FloorOK'
  BY TypeStep, GateStep, FloorStep
<1>3. TypeOK /\ GateOK /\ FloorOK /\ [Next]_vars =>
        [\A k \in Kind : Starts(k) /\ synced[k] /\ started[k] >= 0 =>
           now - started[k] >= MinSync]_vars
  BY FloorAction
<1>4. QED
  BY <1>1, <1>2, <1>3, PTL DEF Spec, SyncFloor

-----------------------------------------------------------------------------
(***************************************************************************)
(* What the steps do to the ledger, the mirror and the calls that hold a   *)
(* copy of a row.                                                          *)
(***************************************************************************)

(* The ledger and the mirror stay as they are; calls drop their copies, or  *)
(* copy the mirror's row, or leave a PUT under way.  A sync may begin, or   *)
(* be given up.                                                             *)
Local ==
  /\ UNCHANGED <<content, modified, stamp, mirror, watermark>>
  /\ UNCHANGED <<synced["txn"], lapped, overtaken, settled>>
  /\ \A u \in Task :
       /\ batch'[u] = batch[u] \/ batch'[u] = NoBatch
       /\ pc'[u] = "pages" => pc[u] = "pages" /\ batch'[u] = batch[u]
       /\ pc'[u] = "ack" => pc[u] = "ack" /\ row'[u] = row[u] /\ base'[u] = base[u]
       /\ pc'[u] = "put" => /\ pc[u] \in {"base", "put"} /\ row'[u] = row[u]
                            /\ base'[u] = IF pc[u] = "put" THEN base[u] ELSE mirror[row[u]]
       /\ pc'[u] = "base" => pc[u] = "base" \/ synced["txn"]
  /\ \A p \in late' \ late :
       \E u \in Task : pc[u] = "put" /\ p.row = row[u] /\ p.shows = base[u]
  /\ \/ during' = during /\ (Syncing => Syncing')
     \/ during' = [r \in Row |-> {content[r]}] /\ ~Syncing'

(* A PUT is applied, and its task awaits the write-through.                 *)
Written(t) ==
  /\ pc[t] = "put" /\ Put(row[t], base[t])
  /\ UNCHANGED <<late, mirror, watermark, synced, overtaken, settled>>
  /\ \A u \in Task : batch'[u] = batch[u]
  /\ \A u \in Task \ {t} : pc'[u] = pc[u] /\ row'[u] = row[u] /\ base'[u] = base[u]
  /\ pc'[t] = "ack" /\ row'[t] = row[t] /\ base'[t] = base[t] \cup {stamp + 1}
  /\ Syncing' = Syncing

(* A row is modified, and no task waits for it.                             *)
Elsewhere(q) ==
  /\ \E shows \in Stamps : Modify(q, shows)
  /\ UNCHANGED <<mirror, watermark, synced, overtaken, settled>>
  /\ UNCHANGED <<pc, kind, row, batch, base, gate>>
  /\ \A u \in Task : lapped[u] => lapped'[u]

LEMMA EditElsewhere ==
  ASSUME TypeOK, NEW q \in Row, WebEdit(q) PROVE Elsewhere(q)
<1>1. content[q] \in Stamps
  BY DEF TypeOK
<1>2. QED
  BY <1>1 DEF WebEdit, Elsewhere, store, args, history, writes

LEMMA LandsElsewhere ==
  ASSUME TypeOK, NEW p \in late, Lands(p) PROVE p.row \in Row /\ Elsewhere(p.row)
<1>1. p.row \in Row /\ p.shows \in Stamps
  BY DEF TypeOK
<1>2. \A u \in Task : lapped[u] => lapped'[u]
  BY DEF Lands, Put
<1>3. QED
  BY <1>1, <1>2 DEF Lands, Put, Elsewhere, store, args

(* A call that returns without having written is a local step.              *)
LEMMA LocalReturn ==
  ASSUME TypeOK, GateOK, GateOK', NEW t \in Task, Return(t) \/ Ensured(t),
         UNCHANGED <<content, modified, stamp, mirror, watermark>>,
         UNCHANGED <<synced["txn"], lapped, overtaken, settled>>,
         late' = late \/ (pc[t] = "put" /\ Unanswered(t)),
         synced["txn"] \/ row[t] = NoRow \/ Return(t),
         \/ during' = during /\ (pc[t] \in Fetching => kind[t] = "ref")
         \/ during' = [r \in Row |-> {content[r]}] /\ pc[t] \in Fetching
  PROVE  Local
<1>1. /\ pc'[t] \in {"idle", "base"} /\ batch'[t] = NoBatch
      /\ pc'[t] = "base" => synced["txn"]
      /\ \A u \in Task \ {t} :
           /\ pc'[u] = pc[u] /\ kind'[u] = kind[u] /\ row'[u] = row[u]
           /\ batch'[u] = batch[u] /\ base'[u] = base[u]
  BY ReturnFrame, EnsuredFrame
<1>2. \A p \in late' \ late :
        \E u \in Task : pc[u] = "put" /\ p.row = row[u] /\ p.shows = base[u]
  BY DEF Unanswered, PutOf
<1>3. CASE pc[t] \in Fetching
  <2>1. gate = t /\ gate' = NoTask
    BY <1>3, ReturnFrees, EnsuredFrees DEF GateOK
  <2>2. ~Syncing'
    BY <2>1, TaskAssumption DEF Syncing
  <2>3. kind[t] = "ref" => ~Syncing
    BY <2>1 DEF Syncing
  <2>4. QED
    BY <1>1, <1>3, <1>2, <2>2, <2>3 DEF Local
<1>4. CASE pc[t] \notin Fetching
  <2>1. gate # t /\ gate' = gate
    BY <1>4, ReturnFrees, EnsuredFrees DEF GateOK
  <2>2. Syncing' = Syncing
    BY <1>1, <2>1 DEF Syncing
  <2>3. QED
    BY <1>1, <1>4, <1>2, <2>2 DEF Local
<1>5. QED
  BY <1>3, <1>4

LEMMA StepCases ==
  ASSUME TypeOK, GateOK, UnsyncedOK, GateOK', [Next]_vars
  PROVE  \/ Local
         \/ \E t \in Task : Written(t) \/ FirstPage(t) \/ NextPage(t) \/ Apply(t) \/ UpsertLocal(t)
         \/ (\E r \in Row : WebEdit(r)) \/ (\E p \in late : Lands(p))
<1> USE DEF Goto, args, ledger, upstream, store, writes, history
<1>1. ASSUME NEW t \in Task, Call(t) PROVE Local
  <2>1. PICK k \in Kind, f \in BOOLEAN, r \in Row \cup {NoRow} : Begin(t, k, f, r)
    BY <1>1 DEF Call, CallRead, CallWrite, Kind
  <2>2. gate # t
    BY <2>1 DEF Begin, GateOK, Fetching
  <2>3. Syncing' = Syncing
    BY <2>1, <2>2 DEF Begin, Syncing, TypeOK
  <2>4. QED
    BY <2>1, <2>3 DEF Begin, Local, TypeOK
<1>2. ASSUME NEW t \in Task, CacheHit(t) PROVE Local
  <2>1. pc[t] = "gate" /\ Ensured(t)
    BY <1>2 DEF CacheHit
  <2>2. synced["txn"] \/ row[t] = NoRow
    BY <1>2 DEF CacheHit, Fresh, GateOK
  <2>3. QED
    BY <1>2, <2>1, <2>2, LocalReturn DEF CacheHit, Fetching
<1>3. ASSUME NEW t \in Task, StartSync(t) PROVE Local
  <2>1. ~Syncing
    BY <1>3, TaskAssumption DEF StartSync, GateFree, Syncing
  <2>2. QED
    BY <1>3, <2>1 DEF StartSync, Local, TypeOK
<1>4. ASSUME NEW t \in Task, ApplyReference(t) PROVE Local
  <2>1. pc[t] = "reference" /\ kind[t] = "ref" /\ row[t] = NoRow /\ Ensured(t)
    BY <1>4 DEF ApplyReference, GateOK
  <2>2. synced'["txn"] = synced["txn"]
    BY <1>4 DEF ApplyReference, TypeOK, Kind
  <2>3. QED
    BY <1>4, <2>1, <2>2, LocalReturn DEF ApplyReference
<1>5. ASSUME NEW t \in Task, SyncFails(t) PROVE Local
  <2>1. gate = t
    BY <1>5 DEF SyncFails, GateOK
  <2>2. QED
    BY <1>5, <2>1, LocalReturn DEF SyncFails, Forget
<1>6. ASSUME NEW t \in Task, ReadBase(t) PROVE Local
  BY <1>6 DEF ReadBase, Local, TypeOK, Syncing
<1>7. ASSUME NEW t \in Task, BaseMissing(t) PROVE Local
  BY <1>7 DEF BaseMissing, Local, TypeOK, Syncing
<1>8. ASSUME NEW t \in Task, BaseNotFound(t) PROVE Local
  BY <1>8, LocalReturn DEF BaseNotFound, Fetching
<1>9. ASSUME NEW t \in Task, PutAccepted(t) PROVE Written(t)
  BY <1>9 DEF PutAccepted, Written, TypeOK, Syncing
<1>10. ASSUME NEW t \in Task, PutFails(t) PROVE Local
  BY <1>10, LocalReturn DEF PutFails, Fetching
<1>11. ASSUME NEW t \in Task, Abandon(t) PROVE Local
  <2>1. pc[t] \in Fetching => during' = [r \in Row |-> {content[r]}]
    BY <1>11 DEF Abandon, Forget, GateOK
  <2>2. pc[t] \notin Fetching => during' = during
    BY <1>11 DEF Abandon, Forget, GateOK
  <2>3. QED
    BY <1>11, <2>1, <2>2, LocalReturn DEF Abandon
<1>12. CASE Tick \/ UNCHANGED vars
  BY <1>12 DEF Tick, vars, Local, Syncing
<1>13. QED
  BY <1>1, <1>2, <1>3, <1>4, <1>5, <1>6, <1>7, <1>8, <1>9, <1>10, <1>11, <1>12
     DEF Next, Proceed, Quiet

(* What lands with a sync: the gate opens, and nothing else is in progress. *)
LEMMA ApplyEffect ==
  ASSUME TypeOK, GateOK, NEW t \in Task, Apply(t)
  PROVE  /\ Syncing /\ ~Syncing' /\ during' = [r \in Row |-> {content[r]}]
         /\ pc'[t] \in {"idle", "base"}
         /\ \A u \in Task : pc'[u] # "pages" /\ batch'[u] = NoBatch
         /\ \A u \in Task \ {t} : /\ pc'[u] = pc[u] /\ row'[u] = row[u]
                                  /\ batch'[u] = batch[u] /\ base'[u] = base[u]
<1>1. gate = t /\ kind[t] = "txn" /\ gate' = NoTask
  BY EnsuredFrees DEF Apply, GateOK, Fetching
<1>2. /\ Syncing /\ ~Syncing'
  BY <1>1, TaskAssumption DEF Syncing
<1>3. \A u \in Task \ {t} : pc[u] # "pages" /\ batch[u] = NoBatch
  BY <1>1 DEF GateOK, Fetching
<1>4. QED
  BY <1>1, <1>2, <1>3, EnsuredFrame DEF Apply, Forget

LEMMA UpsertEffect ==
  ASSUME TypeOK, GateOK, NEW t \in Task, UpsertLocal(t)
  PROVE  /\ row[t] \in Row /\ pc'[t] = "idle" /\ Syncing' = Syncing
         /\ \A u \in Task : batch'[u] = batch[u]
         /\ \A u \in Task \ {t} : pc'[u] = pc[u] /\ row'[u] = row[u] /\ base'[u] = base[u]
<1>1. pc[t] = "ack" /\ row[t] \in Row /\ batch[t] = NoBatch
  BY DEF UpsertLocal, GateOK
<1>2. gate # t /\ gate' = gate
  BY <1>1, ReturnFrees DEF UpsertLocal, GateOK, Fetching
<1>3. Syncing' = Syncing
  BY <1>2, ReturnFrame DEF UpsertLocal, Syncing
<1>4. QED
  BY <1>1, <1>3, ReturnFrame DEF UpsertLocal

LEMMA ModifyEffect ==
  ASSUME TypeOK, NEW r \in Row, NEW shows, Modify(r, shows)
  PROVE  /\ content'[r] = shows \cup {stamp + 1} /\ modified'[r] = stamp + 1
         /\ stamp' = stamp + 1
         /\ \A q \in Row \ {r} : content'[q] = content[q] /\ modified'[q] = modified[q]
  BY DEF Modify, TypeOK

(* The listing a page leaves behind.                                        *)
LEMMA FirstPageEffect ==
  ASSUME TypeOK, GateOK, NEW t \in Task, FirstPage(t)
  PROVE  /\ pc'[t] = "pages"
         /\ DOMAIN batch'[t].got \subseteq Matching
         /\ Matching = DOMAIN batch'[t].got \cup batch'[t].left
         /\ \A r \in DOMAIN batch'[t].got : batch'[t].got[r] = content[r]
         /\ batch'[t].since = stamp /\ batch'[t].upto = stamp
         /\ \A u \in Task \ {t} : pc'[u] = pc[u] /\ batch'[u] = batch[u]
<1>1. PICK R \in SUBSET Matching :
        AfterPage(t, Restrict(content, R), Matching \ R, stamp, stamp)
  BY DEF FirstPage
<1>2. /\ DOMAIN Restrict(content, R) = R
      /\ \A r \in R : Restrict(content, R)[r] = content[r]
  BY DEF Restrict
<1>3. batch'[t] = [got |-> Restrict(content, R), left |-> Matching \ R,
                   since |-> stamp, upto |-> stamp]
  BY <1>1 DEF AfterPage, TypeOK, BatchOK
<1>4. QED
  BY <1>1, <1>2, <1>3 DEF AfterPage, TypeOK, BatchOK, Goto

LEMMA NextPageEffect ==
  ASSUME TypeOK, GateOK, NEW t \in Task, NextPage(t)
  PROVE  /\ pc[t] = "pages" /\ pc'[t] = "pages"
         /\ DOMAIN batch[t].got \subseteq DOMAIN batch'[t].got
         /\ DOMAIN batch'[t].got \subseteq Row
         /\ DOMAIN batch[t].got \cup batch[t].left
              \subseteq DOMAIN batch'[t].got \cup batch'[t].left
         /\ \A r \in DOMAIN batch'[t].got :
              \/ batch'[t].got[r] = content[r]
              \/ r \in DOMAIN batch[t].got /\ batch'[t].got[r] = batch[t].got[r]
         /\ batch'[t].since = batch[t].since
         /\ SnapshotAsOf => batch'[t].upto = batch[t].upto
         /\ \A u \in Task \ {t} : pc'[u] = pc[u] /\ batch'[u] = batch[u]
<1>1. PICK R \in SUBSET batch[t].left, S \in SUBSET (Matching \ batch[t].left) :
        AfterPage(t, Merge(batch[t].got, R \cup S), batch[t].left \ R, batch[t].since,
                  IF SnapshotAsOf THEN batch[t].upto ELSE stamp)
  BY DEF NextPage
<1>2. R \cup S \subseteq Row
  BY DEF TypeOK, BatchOK, Matching
<1>3. /\ batch'[t].got = Merge(batch[t].got, R \cup S)
      /\ batch'[t].left = batch[t].left \ R
      /\ batch'[t].since = batch[t].since
      /\ SnapshotAsOf => batch'[t].upto = batch[t].upto
  BY <1>1 DEF AfterPage, TypeOK, BatchOK
<1>4. /\ DOMAIN Merge(batch[t].got, R \cup S) = R \cup S \cup DOMAIN batch[t].got
      /\ \A r \in R \cup S : Merge(batch[t].got, R \cup S)[r] = content[r]
      /\ \A r \in DOMAIN batch[t].got \ (R \cup S) :
           Merge(batch[t].got, R \cup S)[r] = batch[t].got[r]
  BY DEF Merge
<1>5. DOMAIN batch[t].got \subseteq Row
  BY DEF TypeOK, BatchOK
<1>6. pc[t] = "pages" /\ pc'[t] = "pages" /\ (\A u \in Task \ {t} : pc'[u] = pc[u] /\ batch'[u] = batch[u])
  BY <1>1 DEF NextPage, AfterPage, TypeOK, BatchOK, Goto
<1>7. /\ DOMAIN batch[t].got \subseteq DOMAIN batch'[t].got
      /\ DOMAIN batch'[t].got \subseteq Row
      /\ DOMAIN batch[t].got \cup batch[t].left \subseteq DOMAIN batch'[t].got \cup batch'[t].left
  BY <1>2, <1>3, <1>4, <1>5
<1>8. \A r \in DOMAIN batch'[t].got :
        \/ batch'[t].got[r] = content[r]
        \/ r \in DOMAIN batch[t].got /\ batch'[t].got[r] = batch[t].got[r]
  BY <1>3, <1>4
<1>9. QED
  BY <1>3, <1>6, <1>7, <1>8

-----------------------------------------------------------------------------
(***************************************************************************)
(* Answered updates stand.                                                 *)
(***************************************************************************)
LEMMA BaseStep ==
  ASSUME TypeOK, GateOK, UnsyncedOK, BaseOK, GateOK', [Next]_vars
  PROVE  BaseOK'
<1> USE DEF BaseOK
<1>1. CASE Local
  BY <1>1 DEF Local
<1>2. ASSUME NEW t \in Task, Written(t) PROVE BaseOK'
  <2>1. row[t] \in Row /\ Modify(row[t], base[t])
    BY <1>2 DEF Written, Put, GateOK
  <2>2. /\ content'[row[t]] = base[t] \cup {stamp + 1}
        /\ \A q \in Row \ {row[t]} : content'[q] = content[q]
    BY <2>1, ModifyEffect
  <2>3. ASSUME NEW u \in Task, pc'[u] = "ack", ~lapped'[u], u # t
        PROVE  base'[u] \subseteq content'[row'[u]]
    <3>1. pc[u] = "ack" /\ ~lapped[u] /\ row[u] # row[t] /\ row[u] \in Row
      BY <1>2, <2>3 DEF Written, Put, GateOK
    <3>2. QED
      BY <1>2, <2>2, <2>3, <3>1 DEF Written
  <2>4. QED
    BY <1>2, <2>2, <2>3 DEF Written
<1>3. ASSUME NEW t \in Task, FirstPage(t) \/ NextPage(t) PROVE BaseOK'
  BY <1>3, PageFrame
<1>4. ASSUME NEW t \in Task, Apply(t) PROVE BaseOK'
  BY <1>4, ApplyEffect DEF Apply, ledger
<1>5. ASSUME NEW t \in Task, UpsertLocal(t) PROVE BaseOK'
  BY <1>5, UpsertEffect DEF UpsertLocal, upstream, ledger, TypeOK
<1>6. ASSUME NEW r \in Row, WebEdit(r) PROVE BaseOK'
  BY <1>6, ModifyEffect DEF WebEdit, GateOK, args, history, writes
<1>7. ASSUME NEW p \in late, Lands(p) PROVE BaseOK'
  <2>1. \A q \in Row \ {p.row} : content'[q] = content[q]
    BY <1>7, ModifyEffect DEF Lands, Put, TypeOK
  <2>2. ASSUME NEW u \in Task, pc[u] = "ack", ~lapped'[u] PROVE ~lapped[u] /\ row[u] \in Row \ {p.row}
    BY <1>7, <2>2 DEF Lands, Put, GateOK
  <2>3. QED
    BY <1>7, <2>1, <2>2 DEF Lands, args
<1>8. QED
  BY <1>1, <1>2, <1>3, <1>4, <1>5, <1>6, <1>7, StepCases

LEMMA StandStep ==
  ASSUME TypeOK, GateOK, UnsyncedOK, BaseOK, StandOK, GateOK', [Next]_vars
  PROVE  StandOK'
<1> USE DEF StandOK
<1>1. CASE Local
  <2>1. ASSUME NEW s, NEW r \in Row, Shown(s, r), NEW p \in late', p.row = r PROVE s \in p.shows
    BY <1>1, <2>1 DEF Local, Shown
  <2>2. ASSUME NEW s, NEW r \in Row, Shown(s, r) PROVE Shown(s, r)'
    BY <1>1, <2>1, <2>2, NoBatchTypes DEF Local, Shown
  <2>3. QED
    BY <1>1, <2>2 DEF Local
<1>2. ASSUME NEW t \in Task, Written(t) PROVE StandOK'
  <2>1. row[t] \in Row /\ Modify(row[t], base[t])
    BY <1>2 DEF Written, Put, GateOK
  <2>2. /\ content'[row[t]] = base[t] \cup {stamp + 1}
        /\ \A q \in Row \ {row[t]} : content'[q] = content[q]
    BY <2>1, ModifyEffect
  <2>3. ASSUME NEW s \in settled, NEW r \in Row, Shown(s, r) PROVE Shown(s, r)'
    BY <1>2, <2>2, <2>3 DEF Shown, Written
  <2>4. QED
    BY <1>2, <2>3 DEF Written
<1>3. ASSUME NEW t \in Task, FirstPage(t) \/ NextPage(t) PROVE StandOK'
  <2>1. /\ UNCHANGED <<content, late, mirror, settled, row, base>>
        /\ \A u \in Task : pc'[u] \in {"put", "ack"} => pc[u] \in {"put", "ack"}
    BY <1>3, PageFrame
  <2>2. ASSUME NEW s, NEW r \in Row, Shown(s, r), NEW u \in Task, r \in DOMAIN batch'[u].got
        PROVE  s \in batch'[u].got[r]
    BY <1>3, <2>2, FirstPageEffect, NextPageEffect DEF Shown
  <2>3. QED
    BY <2>1, <2>2 DEF Shown
<1>4. ASSUME NEW t \in Task, Apply(t) PROVE StandOK'
  <2>1. ASSUME NEW s, NEW r \in Row, Shown(s, r) PROVE Shown(s, r)'
    <3>1. s \in mirror'[r]
      BY <1>4, <2>1 DEF Apply, Shown
    <3>2. content' = content /\ late' = late
      BY <1>4 DEF Apply, ledger
    <3>3. QED
      BY <1>4, <2>1, <3>1, <3>2, ApplyEffect, NoBatchTypes DEF Shown
  <2>2. QED
    BY <1>4, <2>1 DEF Apply
<1>5. ASSUME NEW t \in Task, UpsertLocal(t) PROVE StandOK'
  <2>1. /\ pc[t] = "ack" /\ row[t] \in Row /\ content' = content /\ late' = late
        /\ mirror' = [mirror EXCEPT ![row[t]] = base[t]]
        /\ settled' = settled \cup Settles(t)
    BY <1>5, UpsertEffect DEF UpsertLocal, upstream, ledger
  <2>2. ASSUME NEW s \in settled, NEW r \in Row, Shown(s, r) PROVE Shown(s, r)'
    <3>1. s \in mirror'[r]
      BY <2>1, <2>2 DEF Shown, TypeOK
    <3>2. QED
      BY <1>5, <2>1, <2>2, <3>1, UpsertEffect DEF Shown
  <2>3. ASSUME NEW s \in Settles(t) PROVE \E r \in Row : Shown(s, r)'
    <3>1. /\ ~lapped[t] /\ Rivals(t) = {} /\ s \in base[t]
          /\ \A u \in Task : row[t] \notin DOMAIN batch[u].got
          /\ \A p \in late : p.row # row[t]
      BY <2>3 DEF Settles, Outdated
    <3>2. s \in content[row[t]] /\ s \in mirror'[row[t]]
      BY <2>1, <3>1 DEF BaseOK, TypeOK
    <3>3. \A u \in Task : pc'[u] \in {"put", "ack"} => row'[u] # row[t]
      BY <1>5, <3>1, UpsertEffect DEF Rivals
    <3>4. \A r : Shown(s, r)' <=>
            /\ s \in content'[r] /\ s \in mirror'[r]
            /\ \A u \in Task : /\ r \in DOMAIN batch'[u].got => s \in batch'[u].got[r]
                               /\ pc'[u] \in {"put", "ack"} /\ row'[u] = r => s \in base'[u]
            /\ \A p \in late' : p.row = r => s \in p.shows
      BY DEF Shown
    <3>5. \A u \in Task : row[t] \notin DOMAIN batch'[u].got
      BY <1>5, <3>1, UpsertEffect
    <3>6. QED
      BY <2>1, <3>1, <3>2, <3>3, <3>4, <3>5
  <2>4. QED
    BY <2>1, <2>2, <2>3
<1>6. ASSUME NEW r \in Row, WebEdit(r) PROVE StandOK'
  <2>1. Modify(r, content[r]) /\ UNCHANGED <<late, mirror, pc, row, batch, base, settled>>
    BY <1>6 DEF WebEdit, store, args, history, writes
  <2>2. \A q \in Row : content[q] \subseteq content'[q]
    BY <2>1, ModifyEffect
  <2>3. QED
    BY <2>1, <2>2 DEF Shown
<1>7. ASSUME NEW p \in late, Lands(p) PROVE StandOK'
  <2>1. /\ UNCHANGED <<mirror, pc, row, batch, base, settled>> /\ late' \subseteq late
        /\ Modify(p.row, p.shows) /\ p.row \in Row
    BY <1>7 DEF Lands, Put, TypeOK, store, args
  <2>2. /\ content'[p.row] = p.shows \cup {stamp + 1}
        /\ \A q \in Row \ {p.row} : content'[q] = content[q]
    BY <2>1, ModifyEffect
  <2>3. ASSUME NEW s \in settled, NEW r \in Row, Shown(s, r) PROVE Shown(s, r)'
    BY <2>1, <2>2, <2>3 DEF Shown
  <2>4. QED
    BY <2>1, <2>3
<1>8. QED
  BY <1>1, <1>2, <1>3, <1>4, <1>5, <1>6, <1>7, StepCases

LEMMA UnsyncedStep ==
  ASSUME TypeOK, GateOK, UnsyncedOK, GateOK', [Next]_vars
  PROVE  UnsyncedOK'
<1> USE DEF UnsyncedOK
<1>1. CASE Local
  BY <1>1 DEF Local
<1>2. ASSUME NEW t \in Task, Written(t) PROVE UnsyncedOK'
  BY <1>2 DEF Written
<1>3. ASSUME NEW t \in Task, FirstPage(t) \/ NextPage(t) PROVE UnsyncedOK'
  BY <1>3, PageFrame
<1>4. ASSUME NEW t \in Task, Apply(t) PROVE UnsyncedOK'
  BY <1>4 DEF Apply, TypeOK, Kind
<1>5. ASSUME NEW t \in Task, UpsertLocal(t) PROVE UnsyncedOK'
  BY <1>5 DEF UpsertLocal
<1>6. ASSUME NEW r \in Row, WebEdit(r) PROVE UnsyncedOK'
  BY <1>6 DEF WebEdit, store, history, writes
<1>7. ASSUME NEW p \in late, Lands(p) PROVE UnsyncedOK'
  BY <1>7, LandsElsewhere DEF Elsewhere
<1>8. QED
  BY <1>1, <1>2, <1>3, <1>4, <1>5, <1>6, <1>7, StepCases

(* The induction so far, which asks nothing of the upstream.                *)
StoreInv == TypeOK /\ GateOK /\ UnsyncedOK /\ BaseOK /\ StandOK

LEMMA StoreInit == Init => StoreInv
  BY TypeInit, GateInit DEF Init, UnsyncedOK, BaseOK, StandOK, StoreInv

LEMMA StoreStep == StoreInv /\ [Next]_vars => StoreInv'
<1> SUFFICES ASSUME StoreInv, [Next]_vars PROVE StoreInv'
  OBVIOUS
<1>1. TypeOK' /\ GateOK'
  BY TypeStep, GateStep DEF StoreInv
<1>2. QED
  BY <1>1, UnsyncedStep, BaseStep, StandStep DEF StoreInv

LEMMA StoreCorrect == Spec => []StoreInv
  BY StoreInit, StoreStep, PTL DEF Spec

(* Types: the state of every reachable state is well formed.                *)
THEOREM TypeCorrect == Spec => []TypeOK
<1>1. StoreInv => TypeOK
  BY DEF StoreInv
<1>2. QED
  BY <1>1, StoreCorrect, PTL

(* An update that was answered, and written through while nothing held an   *)
(* older copy of its row and no PUT of it was still under way, is taken     *)
(* back by no later PUT, though each sends the whole row as the mirror has  *)
(* it (fetch_txn, patch_transaction, upsert_local), and however late a PUT  *)
(* that timed out is applied.                                               *)
THEOREM UpdatesStand == Spec => []OwnEditsStand
<1>1. StoreInv => OwnEditsStand
  BY DEF StoreInv, StandOK, Shown, OwnEditsStand
<1>2. QED
  BY <1>1, StoreCorrect, PTL

-----------------------------------------------------------------------------
(***************************************************************************)
(* What the watermark owes the mirror, where the pages of a listing carry  *)
(* its first asOf.                                                         *)
(***************************************************************************)
MirrorInv == StampsOK /\ AckOK /\ ListingOK /\ NoLostChange

LEMMA MirrorInit == Init => MirrorInv
  BY DEF Init, MirrorInv, StampsOK, AckOK, ListingOK, NoLostChange, Kind

LEMMA StampsStep ==
  ASSUME StoreInv, StoreInv', MirrorInv, [Next]_vars
  PROVE  StampsOK'
<1> USE DEF StampsOK, StoreInv, MirrorInv
<1>1. CASE Local
  BY <1>1 DEF Local
<1>2. ASSUME NEW r \in Row, NEW shows \in Stamps, Modify(r, shows), watermark' = watermark
      PROVE  StampsOK'
  <2>1. /\ content'[r] # {} /\ modified'[r] = stamp + 1 /\ stamp' = stamp + 1
        /\ \A q \in Row \ {r} : content'[q] = content[q] /\ modified'[q] = modified[q]
    BY <1>2, ModifyEffect
  <2>2. QED
    BY <1>2, <2>1 DEF TypeOK
<1>3. ASSUME NEW t \in Task, Written(t) PROVE StampsOK'
  <2>1. row[t] \in Row /\ base[t] \in Stamps
    BY <1>3 DEF Written, GateOK, TypeOK
  <2>2. QED
    BY <1>2, <1>3, <2>1 DEF Written, Put
<1>4. ASSUME NEW t \in Task, FirstPage(t) \/ NextPage(t) PROVE StampsOK'
  BY <1>4, PageFrame
<1>5. ASSUME NEW t \in Task, Apply(t) PROVE StampsOK'
  <2>1. batch[t].since = batch[t].upto /\ batch[t].upto <= stamp /\ batch[t].upto \in Nat
    BY <1>5 DEF Apply, ListingOK, TypeOK, BatchOK
  <2>2. watermark' <= stamp
    BY <1>5, <2>1 DEF Apply, Watermarks, TypeOK
  <2>3. QED
    BY <1>5, <2>2 DEF Apply, ledger
<1>6. ASSUME NEW t \in Task, UpsertLocal(t) PROVE StampsOK'
  BY <1>6 DEF UpsertLocal, upstream, ledger
<1>7. ASSUME NEW q \in Row, Elsewhere(q) PROVE StampsOK'
  BY <1>2, <1>7 DEF Elsewhere
<1>8. QED
  BY <1>1, <1>3, <1>4, <1>5, <1>6, <1>7, StepCases, EditElsewhere, LandsElsewhere

LEMMA AckStep ==
  ASSUME StoreInv, StoreInv', MirrorInv, [Next]_vars
  PROVE  AckOK'
<1> USE DEF AckOK, StoreInv, MirrorInv
<1>1. CASE Local
  BY <1>1 DEF Local
<1>2. ASSUME NEW t \in Task, Written(t) PROVE AckOK'
  <2>1. row[t] \in Row /\ Modify(row[t], base[t])
    BY <1>2 DEF Written, Put, GateOK
  <2>2. /\ modified'[row[t]] = stamp + 1
        /\ \A q \in Row \ {row[t]} : modified'[q] = modified[q]
    BY <2>1, ModifyEffect
  <2>3. watermark' = watermark /\ stamp + 1 > watermark
    BY <1>2 DEF Written, StampsOK, TypeOK
  <2>4. ASSUME NEW u \in Task, pc'[u] = "ack", ~lapped'[u] PROVE modified'[row'[u]] > watermark'
    <3>1. CASE u = t
      BY <1>2, <2>2, <2>3, <2>4, <3>1 DEF Written
    <3>2. CASE u # t
      <4>1. pc[u] = "ack" /\ ~lapped[u] /\ row'[u] = row[u] /\ row[u] \in Row
        BY <1>2, <2>4, <3>2 DEF Written, Put, GateOK
      <4>2. QED
        BY <2>2, <2>3, <4>1
    <3>3. QED
      BY <3>1, <3>2
  <2>5. QED
    BY <2>4
<1>3. ASSUME NEW t \in Task, FirstPage(t) \/ NextPage(t) PROVE AckOK'
  BY <1>3, PageFrame DEF AckOK
<1>4. ASSUME NEW t \in Task, Apply(t) PROVE AckOK'
  BY <1>4, ApplyEffect DEF Apply
<1>5. ASSUME NEW t \in Task, UpsertLocal(t) PROVE AckOK'
  BY <1>5, UpsertEffect DEF UpsertLocal, upstream, ledger, TypeOK
<1>6. ASSUME NEW r \in Row, Elsewhere(r) PROVE AckOK'
  <2>1. /\ modified'[r] = stamp + 1 /\ watermark' = watermark
        /\ \A q \in Row \ {r} : modified'[q] = modified[q]
    BY <1>6, ModifyEffect DEF Elsewhere
  <2>2. stamp + 1 > watermark
    BY DEF StampsOK, TypeOK
  <2>3. QED
    BY <1>6, <2>1, <2>2 DEF Elsewhere, GateOK
<1>7. QED
  BY <1>1, <1>2, <1>3, <1>4, <1>5, <1>6, StepCases, EditElsewhere, LandsElsewhere

(* A row that a listing does not match is current in the mirror, and no     *)
(* write-through of it is due.                                              *)
LEMMA Unmatched ==
  ASSUME StoreInv, MirrorInv, NEW r \in Row, r \notin Matching
  PROVE  /\ r \notin overtaken => mirror[r] = content[r]
         /\ \A u \in Task : pc[u] = "ack" /\ ~lapped[u] => row[u] # r
<1> USE DEF StoreInv, MirrorInv
<1>1. CASE synced["txn"]
  <2>1. ~(modified[r] > watermark)
    <3>1. CASE content[r] = {}
      BY <3>1 DEF StampsOK, TypeOK
    <3>2. CASE content[r] # {}
      BY <1>1, <3>2 DEF Matching
    <3>3. QED
      BY <3>1, <3>2
  <2>2. QED
    BY <1>1, <2>1 DEF NoLostChange, Behind, AckOK
<1>2. CASE ~synced["txn"]
  <2>1. content[r] = {}
    BY <1>2 DEF Matching
  <2>2. QED
    BY <1>2, <2>1 DEF UnsyncedOK
<1>3. QED
  BY <1>1, <1>2

LEMMA ListingStep ==
  ASSUME SnapshotAsOf, StoreInv, StoreInv', MirrorInv, [Next]_vars
  PROVE  ListingOK'
<1> USE DEF StoreInv, MirrorInv
<1>1. CASE Local
  BY <1>1 DEF Local, ListingOK, Passed
<1>2. ASSUME NEW t \in Task, Written(t) PROVE ListingOK'
  <2>1. row[t] \in Row /\ Modify(row[t], base[t])
    BY <1>2 DEF Written, Put, GateOK
  <2>2. /\ modified'[row[t]] = stamp + 1 /\ stamp' = stamp + 1
        /\ \A q \in Row \ {row[t]} : content'[q] = content[q] /\ modified'[q] = modified[q]
    BY <2>1, ModifyEffect
  <2>3. SUFFICES ASSUME NEW p \in Task, pc'[p] = "pages"
                 PROVE  /\ batch'[p].since = batch'[p].upto
                        /\ watermark' <= batch'[p].upto /\ batch'[p].upto <= stamp'
                        /\ \A r \in DOMAIN batch'[p].got :
                             batch'[p].got[r] = content'[r] \/ modified'[r] > batch'[p].upto
                        /\ \A r \in Passed(p)' \ overtaken' :
                             mirror'[r] = content'[r] \/ modified'[r] > batch'[p].upto
                        /\ \A u \in Task : pc'[u] = "ack" /\ ~lapped'[u] /\ row'[u] \in Passed(p)' =>
                             modified'[row'[u]] > batch'[p].upto
    BY DEF ListingOK
  <2>4. pc[p] = "pages" /\ batch'[p] = batch[p] /\ Passed(p)' = Passed(p)
    BY <1>2, <2>3 DEF Written, Passed
  <2>5. /\ batch[p].upto \in Nat /\ batch[p].upto <= stamp /\ stamp \in Nat
        /\ DOMAIN batch[p].got \subseteq Row
    BY <2>4 DEF ListingOK, TypeOK, BatchOK
  <2>6. ASSUME NEW u \in Task, pc'[u] = "ack", ~lapped'[u], row'[u] \in Passed(p)
        PROVE  modified'[row'[u]] > batch[p].upto
    <3>1. CASE u = t
      BY <1>2, <2>2, <2>5, <2>6, <3>1 DEF Written
    <3>2. CASE u # t
      <4>1. pc[u] = "ack" /\ ~lapped[u] /\ row'[u] = row[u] /\ row[u] \in Row
        BY <1>2, <2>6, <3>2 DEF Written, Put, GateOK
      <4>2. QED
        BY <2>2, <2>4, <2>5, <2>6, <4>1 DEF ListingOK
    <3>3. QED
      BY <3>1, <3>2
  <2>7. /\ watermark' = watermark /\ mirror' = mirror /\ overtaken' = overtaken
    BY <1>2 DEF Written
  <2>8. ASSUME NEW r \in Row PROVE modified'[r] = stamp + 1 \/ (content'[r] = content[r] /\ modified'[r] = modified[r])
    BY <2>2
  <2>9. batch[p].since = batch[p].upto /\ watermark <= batch[p].upto
    BY <2>4 DEF ListingOK
  <2>10. ASSUME NEW r \in DOMAIN batch[p].got
         PROVE  batch[p].got[r] = content'[r] \/ modified'[r] > batch[p].upto
    BY <2>4, <2>5, <2>8, <2>10 DEF ListingOK
  <2>11. ASSUME NEW r \in Passed(p) \ overtaken
         PROVE  mirror[r] = content'[r] \/ modified'[r] > batch[p].upto
    <3>1. r \in Row /\ (mirror[r] = content[r] \/ modified[r] > batch[p].upto)
      BY <2>4, <2>11 DEF ListingOK, Passed
    <3>2. QED
      BY <2>5, <2>8, <3>1
  <2>12. QED
    BY <2>2, <2>4, <2>5, <2>6, <2>7, <2>9, <2>10, <2>11
<1>3. ASSUME NEW t \in Task, FirstPage(t) PROVE ListingOK'
  <2>1. UNCHANGED <<content, modified, stamp, mirror, watermark, overtaken, lapped, row>>
    BY <1>3 DEF FirstPage, AfterPage, upstream, ledger, store, args, history, writes
  <2>2. \A u \in Task : u # t => pc'[u] # "pages"
    <3>1. pc[t] \in Fetching /\ \A u \in Task \ {t} : pc'[u] = pc[u]
      BY <1>3, PageFrame DEF Fetching
    <3>2. QED
      BY <3>1, OneFetches DEF Fetching
  <2>3. \A u \in Task : pc'[u] = "ack" => pc[u] = "ack"
    BY <1>3, FirstPageEffect
  <2>4. Passed(t)' = Row \ Matching
    BY <1>3, FirstPageEffect DEF Passed
  <2>5. watermark <= stamp
    BY DEF StampsOK
  <2>6. \A u \in Task : pc'[u] = "ack" /\ ~lapped[u] => row[u] \notin Passed(t)'
    BY <2>3, <2>4, Unmatched
  <2>7. \A r \in Passed(t)' \ overtaken : mirror[r] = content[r]
    BY <2>4, Unmatched
  <2>8. /\ batch'[t].since = stamp /\ batch'[t].upto = stamp
        /\ \A r \in DOMAIN batch'[t].got : batch'[t].got[r] = content[r]
    BY <1>3, FirstPageEffect
  <2>9. QED
    BY <2>1, <2>2, <2>5, <2>6, <2>7, <2>8 DEF ListingOK, TypeOK
<1>4. ASSUME NEW t \in Task, NextPage(t) PROVE ListingOK'
  <2>1. UNCHANGED <<content, modified, stamp, mirror, watermark, overtaken, lapped, row>>
    BY <1>4 DEF NextPage, AfterPage, upstream, ledger, store, args, history, writes
  <2>2. \A u \in Task : u # t => pc'[u] # "pages"
    <3>1. pc[t] \in Fetching /\ \A u \in Task \ {t} : pc'[u] = pc[u]
      BY <1>4, PageFrame DEF Fetching
    <3>2. QED
      BY <3>1, OneFetches DEF Fetching
  <2>3. pc[t] = "pages" /\ \A u \in Task : pc'[u] = "ack" => pc[u] = "ack"
    BY <1>4, NextPageEffect
  <2>4. Passed(t)' \subseteq Passed(t)
    BY <1>4, NextPageEffect DEF Passed
  <2>5. /\ batch'[t].since = batch[t].since /\ batch'[t].upto = batch[t].upto
        /\ \A r \in DOMAIN batch'[t].got :
             \/ batch'[t].got[r] = content[r]
             \/ r \in DOMAIN batch[t].got /\ batch'[t].got[r] = batch[t].got[r]
    BY <1>4, NextPageEffect
  <2>6. \A r \in DOMAIN batch'[t].got :
          batch'[t].got[r] = content[r] \/ modified[r] > batch[t].upto
    BY <2>3, <2>5 DEF ListingOK
  <2>7. \A u \in Task : pc'[u] = "ack" /\ ~lapped[u] /\ row[u] \in Passed(t)' =>
          modified[row[u]] > batch[t].upto
    BY <2>3, <2>4 DEF ListingOK
  <2>8. \A r \in Passed(t)' \ overtaken : mirror[r] = content[r] \/ modified[r] > batch[t].upto
    BY <2>3, <2>4 DEF ListingOK
  <2>9. QED
    BY <2>1, <2>2, <2>3, <2>5, <2>6, <2>7, <2>8 DEF ListingOK
<1>5. ASSUME NEW t \in Task, Apply(t) PROVE ListingOK'
  BY <1>5, ApplyEffect DEF ListingOK
<1>6. ASSUME NEW t \in Task, UpsertLocal(t) PROVE ListingOK'
  <2>1. /\ UNCHANGED <<content, modified, stamp, watermark>>
        /\ overtaken' = Overtaken(t) /\ pc[t] = "ack"
        /\ mirror' = [mirror EXCEPT ![row[t]] = base[t]]
        /\ lapped' = [lapped EXCEPT ![t] = FALSE]
    BY <1>6 DEF UpsertLocal, upstream, ledger
  <2>2. /\ \A u \in Task : batch'[u] = batch[u] /\ Passed(u)' = Passed(u)
        /\ \A u \in Task \ {t} : pc'[u] = pc[u] /\ row'[u] = row[u] /\ lapped'[u] = lapped[u]
        /\ pc'[t] = "idle" /\ row[t] \in Row
    BY <1>6, <2>1, UpsertEffect DEF Passed, TypeOK
  <2>3. ASSUME NEW p \in Task, pc[p] = "pages", NEW r \in Passed(p) \ overtaken'
        PROVE  mirror'[r] = content[r] \/ modified[r] > batch[p].upto
    <3>1. CASE r = row[t]
      BY <2>1, <2>3, <3>1 DEF Overtaken, ListingOK
    <3>2. CASE r # row[t]
      <4>1. r \notin overtaken /\ mirror'[r] = mirror[r]
        BY <2>1, <2>3, <3>2 DEF Overtaken, Passed, TypeOK
      <4>2. QED
        BY <2>3, <4>1 DEF ListingOK
    <3>3. QED
      BY <3>1, <3>2
  <2>4. \A p \in Task : pc'[p] = "pages" => p # t /\ pc[p] = "pages"
    BY <2>2
  <2>5. QED
    BY <2>1, <2>2, <2>3, <2>4 DEF ListingOK
<1>7. ASSUME NEW q \in Row, Elsewhere(q) PROVE ListingOK'
  <2>1. /\ UNCHANGED <<mirror, watermark, overtaken, row, pc, batch>>
        /\ \A u \in Task : lapped[u] => lapped'[u]
        /\ modified'[q] = stamp + 1 /\ stamp' = stamp + 1
        /\ \A r \in Row \ {q} : content'[r] = content[r] /\ modified'[r] = modified[r]
    BY <1>7, ModifyEffect DEF Elsewhere
  <2>2. ASSUME NEW r \in Row PROVE modified'[r] = stamp + 1 \/ (content'[r] = content[r] /\ modified'[r] = modified[r])
    BY <2>1
  <2>3. \A p \in Task : batch[p].upto \in Nat /\ DOMAIN batch[p].got \subseteq Row
    BY DEF TypeOK, BatchOK
  <2>4. \A p \in Task : Passed(p)' = Passed(p)
    BY <2>1 DEF Passed
  <2>5. stamp \in Nat /\ watermark \in Nat
    BY DEF TypeOK
  <2>6. QED
    BY <2>1, <2>2, <2>3, <2>4, <2>5 DEF ListingOK, Passed
<1>8. QED
  BY <1>1, <1>2, <1>3, <1>4, <1>5, <1>6, <1>7, StepCases, EditElsewhere, LandsElsewhere

LEMMA NoLostStep ==
  ASSUME SnapshotAsOf, StoreInv, StoreInv', MirrorInv, [Next]_vars
  PROVE  NoLostChange'
<1> USE DEF StoreInv, MirrorInv
<1>1. CASE Local
  BY <1>1 DEF Local, NoLostChange, Behind
<1>2. ASSUME NEW r \in Row, NEW shows, Modify(r, shows),
             UNCHANGED <<mirror, watermark, synced, overtaken>>
      PROVE  NoLostChange'
  <2>1. /\ modified'[r] = stamp + 1 /\ stamp + 1 > watermark
        /\ \A q \in Row \ {r} : content'[q] = content[q] /\ modified'[q] = modified[q]
    BY <1>2, ModifyEffect DEF StampsOK, TypeOK
  <2>2. QED
    BY <1>2, <2>1 DEF NoLostChange, Behind
<1>3. ASSUME NEW t \in Task, Written(t) PROVE NoLostChange'
  <2>1. row[t] \in Row
    BY <1>3 DEF Written, GateOK
  <2>2. QED
    BY <1>2, <1>3, <2>1 DEF Written, Put
<1>4. ASSUME NEW t \in Task, FirstPage(t) \/ NextPage(t) PROVE NoLostChange'
  BY <1>4, PageFrame DEF NoLostChange, Behind
<1>5. ASSUME NEW t \in Task, Apply(t) PROVE NoLostChange'
  <2>1. /\ pc[t] = "pages" /\ batch[t].left = {} /\ UNCHANGED <<content, modified>>
        /\ mirror' = [r \in Row |-> IF r \in DOMAIN batch[t].got THEN batch[t].got[r] ELSE mirror[r]]
        /\ watermark' \in Watermarks(t)
        /\ overtaken' = overtaken \ DOMAIN batch[t].got
    BY <1>5 DEF Apply, ledger
  <2>2. /\ batch[t].since = batch[t].upto /\ watermark <= batch[t].upto
        /\ batch[t].upto \in Nat /\ watermark \in Nat
    BY <2>1 DEF ListingOK, TypeOK, BatchOK
  <2>3. watermark' \in Nat /\ watermark' <= batch[t].upto
    BY <2>1, <2>2 DEF Watermarks
  <2>4. ASSUME NEW r \in Row \ overtaken'
        PROVE  mirror'[r] = content[r] \/ modified[r] > batch[t].upto
    <3>1. CASE r \in DOMAIN batch[t].got
      BY <2>1, <3>1 DEF ListingOK
    <3>2. CASE r \notin DOMAIN batch[t].got
      <4>1. r \in Passed(t) \ overtaken
        BY <2>1, <2>4, <3>2 DEF Passed
      <4>2. QED
        BY <2>1, <3>2, <4>1 DEF ListingOK
    <3>3. QED
      BY <3>1, <3>2
  <2>5. \A r \in Row : modified[r] \in Nat
    BY DEF TypeOK
  <2>6. QED
    BY <2>1, <2>2, <2>3, <2>4, <2>5 DEF NoLostChange, Behind
<1>6. ASSUME NEW t \in Task, UpsertLocal(t) PROVE NoLostChange'
  <2>1. /\ UNCHANGED <<content, modified, watermark, synced>> /\ pc[t] = "ack"
        /\ overtaken' = Overtaken(t) /\ mirror' = [mirror EXCEPT ![row[t]] = base[t]]
    BY <1>6 DEF UpsertLocal, upstream, ledger
  <2>2. ASSUME NEW r \in Row \ overtaken', synced["txn"]
        PROVE  mirror'[r] = content[r] \/ modified[r] > watermark
    <3>1. CASE r = row[t]
      BY <2>1, <2>2, <3>1 DEF Overtaken, AckOK
    <3>2. CASE r # row[t]
      BY <2>1, <2>2, <3>2 DEF Overtaken, NoLostChange, Behind, TypeOK
    <3>3. QED
      BY <3>1, <3>2
  <2>3. QED
    BY <2>1, <2>2 DEF NoLostChange, Behind
<1>7. ASSUME NEW q \in Row, Elsewhere(q) PROVE NoLostChange'
  BY <1>2, <1>7 DEF Elsewhere
<1>8. QED
  BY <1>1, <1>3, <1>4, <1>5, <1>6, <1>7, StepCases, EditElsewhere, LandsElsewhere

LEMMA MirrorStep == SnapshotAsOf /\ StoreInv /\ MirrorInv /\ [Next]_vars => MirrorInv'
<1> SUFFICES ASSUME SnapshotAsOf, StoreInv, MirrorInv, [Next]_vars PROVE MirrorInv'
  OBVIOUS
<1>1. StoreInv'
  BY StoreStep
<1>2. QED
  BY <1>1, StampsStep, AckStep, ListingStep, NoLostStep DEF MirrorInv

(* No change upstream is lost on the mirror: what it lacks is modified past *)
(* the watermark, so that the next incremental sync brings it, whatever is  *)
(* edited between the pages of a sync and whatever fails                    *)
(* (ensure_transactions, list_transactions_all).  It takes a server whose   *)
(* pages all carry the listing's first asOf.                                *)
THEOREM ChangesKept == ASSUME SnapshotAsOf PROVE Spec => []NoLostChange
<1>1. Init => StoreInv /\ MirrorInv
  BY StoreInit, MirrorInit
<1>2. StoreInv /\ MirrorInv /\ [Next]_vars => StoreInv' /\ MirrorInv'
  BY StoreStep, MirrorStep
<1>3. MirrorInv => NoLostChange
  BY DEF MirrorInv
<1>4. QED
  BY <1>1, <1>2, <1>3, PTL DEF Spec

-----------------------------------------------------------------------------
(***************************************************************************)
(* The mirror is a view of the ledger.                                     *)
(***************************************************************************)

(* A call that is between two pages syncs transactions.                     *)
LEMMA PagesSync ==
  ASSUME GateOK, NEW t \in Task, pc[t] \in {"first", "pages"} PROVE Syncing
  BY DEF GateOK, Syncing, Fetching

LEMMA ViewInit == Init => ViewOK
<1> SUFFICES ASSUME Init PROVE ViewOK
  OBVIOUS
<1>1. \A t \in Task : pc[t] # "pages"
  BY DEF Init
<1>2. during = [r \in Row |-> {content[r]}]
  BY DEF Init
<1>3. QED
  BY <1>1, <1>2 DEF ViewOK

LEMMA ViewStep ==
  ASSUME SnapshotAsOf, StoreInv, StoreInv', MirrorInv, ViewOK, [Next]_vars
  PROVE  ViewOK'
<1> USE DEF StoreInv, MirrorInv
<1>1. CASE Local
  <2>1. CASE during' = during /\ (Syncing => Syncing')
    <3>1. ~Syncing' => during' = [r \in Row |-> {content'[r]}]
      BY <1>1, <2>1 DEF Local, ViewOK
    <3>2. QED
      BY <1>1, <2>1, <3>1 DEF Local, ViewOK, Passed
  <2>2. CASE during' = [r \in Row |-> {content[r]}] /\ ~Syncing'
    <3>1. \A t \in Task : pc'[t] # "pages"
      BY <2>2 DEF GateOK, Syncing, Fetching
    <3>2. QED
      BY <1>1, <2>2, <3>1 DEF Local, ViewOK
  <2>3. QED
    BY <1>1, <2>1, <2>2 DEF Local
<1>2. ASSUME NEW q \in Row, NEW shows, Modify(q, shows)
      PROVE  /\ content'[q] \in during'[q]
             /\ Syncing => \A r \in Row : during[r] \subseteq during'[r]
             /\ \A r \in Row \ {q} : during'[r] = during[r] /\ content'[r] = content[r]
             /\ ~Syncing => during' = [r \in Row |-> {content'[r]}]
  <2>1. during' = [during EXCEPT ![q] = (IF Syncing THEN during[q] ELSE {}) \cup {content'[q]}]
    BY <1>2 DEF Modify
  <2>2. \A r \in Row \ {q} : content'[r] = content[r]
    BY <1>2, ModifyEffect
  <2>3. ~Syncing => during = [r \in Row |-> {content[r]}]
    BY DEF ViewOK
  <2>4. /\ during'[q] = (IF Syncing THEN during[q] ELSE {}) \cup {content'[q]}
        /\ \A r \in Row \ {q} : during'[r] = during[r]
    BY <2>1 DEF TypeOK
  <2>5. ASSUME ~Syncing PROVE during' = [r \in Row |-> {content'[r]}]
    <3>1. \A r \in Row : during'[r] = {content'[r]}
      BY <2>2, <2>3, <2>4, <2>5
    <3>2. during' = [r \in Row |-> during'[r]]
      BY <2>1 DEF TypeOK
    <3>3. QED
      BY <3>1, <3>2
  <2>6. QED
    BY <2>2, <2>4, <2>5
<1>3. ASSUME NEW t \in Task, Written(t) PROVE ViewOK'
  <2>1. row[t] \in Row /\ Modify(row[t], base[t])
    BY <1>3 DEF Written, Put, GateOK
  <2>2. content'[row[t]] = base[t] \cup {stamp + 1}
    BY <2>1, ModifyEffect
  <2>3. /\ ~Syncing' => during' = [r \in Row |-> {content'[r]}]
        /\ \A r \in Row : content'[r] \in during'[r]
    BY <1>2, <1>3, <2>1 DEF Written, ViewOK
  <2>4. SUFFICES ASSUME NEW p \in Task, pc'[p] = "pages"
                 PROVE  /\ \A r \in DOMAIN batch'[p].got : batch'[p].got[r] \in during'[r]
                        /\ \A r \in Passed(p)' \ overtaken' : mirror'[r] \in during'[r]
                        /\ \A u \in Task : pc'[u] = "ack" /\ ~lapped'[u] /\ row'[u] \in Passed(p)' =>
                             base'[u] \in during'[row'[u]]
    BY <2>3 DEF ViewOK
  <2>5. /\ pc[p] = "pages" /\ batch'[p] = batch[p] /\ Passed(p)' = Passed(p)
        /\ mirror' = mirror /\ overtaken' = overtaken
    BY <1>3, <2>4 DEF Written, Passed
  <2>6. \A r \in Row : during[r] \subseteq during'[r]
    BY <1>2, <2>1, <2>5, PagesSync
  <2>7. DOMAIN batch[p].got \subseteq Row /\ Passed(p) \subseteq Row
    BY DEF TypeOK, BatchOK, Passed
  <2>8. ASSUME NEW u \in Task, pc'[u] = "ack", ~lapped'[u], row'[u] \in Passed(p)
        PROVE  base'[u] \in during'[row'[u]]
    <3>1. CASE u = t
      BY <1>3, <2>1, <2>2, <2>3, <2>8, <3>1 DEF Written
    <3>2. CASE u # t
      <4>1. pc[u] = "ack" /\ ~lapped[u] /\ row'[u] = row[u] /\ row[u] \in Row /\ base'[u] = base[u]
        BY <1>3, <2>8, <3>2 DEF Written, Put, GateOK
      <4>2. QED
        BY <2>5, <2>6, <2>8, <4>1 DEF ViewOK
    <3>3. QED
      BY <3>1, <3>2
  <2>9. QED
    BY <2>5, <2>6, <2>7, <2>8 DEF ViewOK
<1>4. ASSUME NEW t \in Task, FirstPage(t) PROVE ViewOK'
  <2>1. UNCHANGED <<content, during, mirror, overtaken, lapped, row, base, gate, kind>>
    BY <1>4 DEF FirstPage, AfterPage, upstream, ledger, store, args, history, writes
  <2>2. /\ \A u \in Task : u # t => pc'[u] # "pages"
        /\ \A u \in Task : pc'[u] = "ack" => pc[u] = "ack"
    <3>1. pc[t] \in Fetching /\ pc'[t] = "pages" /\ \A u \in Task \ {t} : pc'[u] = pc[u]
      BY <1>4, PageFrame DEF Fetching
    <3>2. QED
      BY <3>1, OneFetches DEF Fetching
  <2>3. Passed(t)' = Row \ Matching /\ \A r \in DOMAIN batch'[t].got : batch'[t].got[r] = content[r]
    BY <1>4, FirstPageEffect DEF Passed
  <2>4. DOMAIN batch'[t].got \subseteq Row
    BY <1>4, FirstPageEffect DEF Matching
  <2>5. \A u \in Task : pc'[u] = "ack" /\ ~lapped[u] => row[u] \notin Passed(t)'
    BY <2>2, <2>3, Unmatched
  <2>6. \A r \in Passed(t)' \ overtaken : r \in Row /\ mirror[r] = content[r]
    BY <2>3, Unmatched
  <2>7. Syncing' = Syncing
    BY <2>1 DEF Syncing
  <2>8. QED
    BY <2>1, <2>2, <2>3, <2>4, <2>5, <2>6, <2>7 DEF ViewOK
<1>5. ASSUME NEW t \in Task, NextPage(t) PROVE ViewOK'
  <2>1. UNCHANGED <<content, during, mirror, overtaken, lapped, row, base, gate, kind>>
    BY <1>5 DEF NextPage, AfterPage, upstream, ledger, store, args, history, writes
  <2>2. /\ \A u \in Task : u # t => pc'[u] # "pages"
        /\ \A u \in Task : pc'[u] = "ack" => pc[u] = "ack"
        /\ pc[t] = "pages" /\ Passed(t)' \subseteq Passed(t)
    <3>1. pc[t] \in Fetching /\ pc'[t] = "pages" /\ \A u \in Task \ {t} : pc'[u] = pc[u]
      BY <1>5, PageFrame DEF Fetching
    <3>2. \A u \in Task : u # t => pc[u] \notin Fetching
      BY <3>1, OneFetches
    <3>3. pc[t] = "pages" /\ Passed(t)' \subseteq Passed(t)
      BY <1>5, NextPageEffect DEF Passed
    <3>4. QED
      BY <3>1, <3>2, <3>3 DEF Fetching
  <2>3. \A r \in DOMAIN batch'[t].got : batch'[t].got[r] \in during[r]
    BY <1>5, <2>2, NextPageEffect DEF ViewOK
  <2>4. Syncing' = Syncing
    BY <2>1 DEF Syncing
  <2>5. QED
    BY <2>1, <2>2, <2>3, <2>4 DEF ViewOK
<1>6. ASSUME NEW t \in Task, Apply(t) PROVE ViewOK'
  <2>1. content' = content
    BY <1>6 DEF Apply, ledger
  <2>2. QED
    BY <1>6, <2>1, ApplyEffect DEF ViewOK
<1>7. ASSUME NEW t \in Task, UpsertLocal(t) PROVE ViewOK'
  <2>1. /\ UNCHANGED <<content, during>>
        /\ overtaken' = Overtaken(t) /\ pc[t] = "ack"
        /\ mirror' = [mirror EXCEPT ![row[t]] = base[t]]
        /\ lapped' = [lapped EXCEPT ![t] = FALSE]
    BY <1>7 DEF UpsertLocal, upstream, ledger
  <2>2. /\ \A u \in Task : batch'[u] = batch[u] /\ Passed(u)' = Passed(u)
        /\ \A u \in Task \ {t} : /\ pc'[u] = pc[u] /\ row'[u] = row[u] /\ lapped'[u] = lapped[u]
                                 /\ base'[u] = base[u]
        /\ pc'[t] = "idle" /\ row[t] \in Row /\ Syncing' = Syncing
    BY <1>7, <2>1, UpsertEffect DEF Passed, TypeOK
  <2>3. ASSUME NEW p \in Task, pc[p] = "pages", NEW r \in Passed(p) \ overtaken'
        PROVE  mirror'[r] \in during[r]
    <3>1. CASE r = row[t]
      BY <2>1, <2>2, <2>3, <3>1 DEF Overtaken, ViewOK, TypeOK
    <3>2. CASE r # row[t]
      <4>1. r \notin overtaken /\ mirror'[r] = mirror[r]
        BY <2>1, <2>3, <3>2 DEF Overtaken, Passed, TypeOK
      <4>2. QED
        BY <2>3, <4>1 DEF ViewOK
    <3>3. QED
      BY <3>1, <3>2
  <2>4. \A p \in Task : pc'[p] = "pages" => p # t /\ pc[p] = "pages"
    BY <2>2
  <2>5. QED
    BY <2>1, <2>2, <2>3, <2>4 DEF ViewOK
<1>8. ASSUME NEW q \in Row, Elsewhere(q) PROVE ViewOK'
  <2>1. /\ UNCHANGED <<mirror, overtaken, row, pc, batch, base, gate, kind>>
        /\ \A u \in Task : lapped[u] => lapped'[u]
        /\ \E shows \in Stamps : Modify(q, shows)
    BY <1>8 DEF Elsewhere
  <2>2. Syncing' = Syncing /\ \A p \in Task : Passed(p)' = Passed(p)
    BY <2>1 DEF Syncing, Passed
  <2>3. \A p \in Task : DOMAIN batch[p].got \subseteq Row /\ Passed(p) \subseteq Row
    BY DEF TypeOK, BatchOK, Passed
  <2>4. /\ ~Syncing => during' = [r \in Row |-> {content'[r]}]
        /\ \A r \in Row : content'[r] \in during'[r]
        /\ Syncing => \A r \in Row : during[r] \subseteq during'[r]
    BY <1>2, <2>1 DEF ViewOK
  <2>5. \A p \in Task : pc[p] = "pages" => Syncing
    BY PagesSync
  <2>6. QED
    BY <2>1, <2>2, <2>3, <2>4, <2>5 DEF ViewOK
<1>9. QED
  BY <1>1, <1>3, <1>4, <1>5, <1>6, <1>7, <1>8, StepCases, EditElsewhere, LandsElsewhere

LEMMA ViewInitMaps == Init => View!Init
<1> SUFFICES ASSUME Init PROVE View!Init
  OBVIOUS
<1>1. ~Syncing
  BY TaskAssumption DEF Init, Syncing
<1>2. QED
  BY <1>1 DEF Init, View!Init, View!Now

(* Each step of the store is a step of the view, or leaves it alone.        *)
LEMMA ViewStepMaps ==
  ASSUME SnapshotAsOf, StoreInv, StoreInv', MirrorInv, ViewOK, [Next]_vars
  PROVE  [View!Next]_View!vars
<1> USE DEF StoreInv, MirrorInv
<1>1. CASE Local
  <2>1. UNCHANGED <<content, mirror, overtaken>>
    BY <1>1 DEF Local
  <2>2. CASE during' = during /\ (Syncing => Syncing')
    BY <2>1, <2>2 DEF View!Next, View!Begin, View!vars, Syncing
  <2>3. CASE during' = [r \in Row |-> {content[r]}] /\ ~Syncing'
    <3>1. CASE Syncing
      BY <2>1, <2>3, <3>1 DEF View!Next, View!Quit, View!Now
    <3>2. CASE ~Syncing
      <4>1. during' = during
        BY <2>3, <3>2 DEF ViewOK
      <4>2. Syncing' = Syncing
        BY <2>3, <3>2 DEF Syncing
      <4>3. QED
        BY <2>1, <4>1, <4>2 DEF View!vars
    <3>3. QED
      BY <3>1, <3>2
  <2>4. QED
    BY <1>1, <2>2, <2>3 DEF Local
<1>2. ASSUME NEW r \in Row, NEW shows, Modify(r, shows), Syncing' = Syncing,
             UNCHANGED <<mirror, overtaken>>
      PROVE  View!Change(r)
  <2>1. during' = [during EXCEPT ![r] = (IF Syncing THEN during[r] ELSE {}) \cup {content'[r]}]
    BY <1>2 DEF Modify
  <2>2. \A q \in Row \ {r} : content'[q] = content[q]
    BY <1>2, ModifyEffect
  <2>3. QED
    BY <1>2, <2>1, <2>2 DEF View!Change
<1>3. ASSUME NEW t \in Task, Written(t) PROVE View!Next
  <2>1. row[t] \in Row
    BY <1>3 DEF Written, GateOK
  <2>2. View!Change(row[t])
    BY <1>2, <1>3, <2>1 DEF Written, Put
  <2>3. QED
    BY <2>1, <2>2 DEF View!Next
<1>4. ASSUME NEW t \in Task, FirstPage(t) \/ NextPage(t) PROVE UNCHANGED View!vars
  BY <1>4 DEF FirstPage, NextPage, AfterPage, upstream, ledger, store, args, history, writes,
     View!vars, Syncing
<1>5. ASSUME NEW t \in Task, Apply(t) PROVE View!Next
  <2>1. /\ pc[t] = "pages" /\ batch[t].left = {} /\ content' = content
        /\ mirror' = [r \in Row |-> IF r \in DOMAIN batch[t].got THEN batch[t].got[r] ELSE mirror[r]]
        /\ overtaken' = overtaken \ DOMAIN batch[t].got
    BY <1>5 DEF Apply, ledger
  <2>2. Syncing /\ ~Syncing' /\ during' = [r \in Row |-> {content[r]}]
    BY <1>5, ApplyEffect
  <2>3. ASSUME NEW r \in Row
        PROVE  mirror'[r] \in during[r] \/ (r \in overtaken' /\ mirror'[r] = mirror[r])
    <3>1. CASE r \in DOMAIN batch[t].got
      BY <2>1, <3>1 DEF ViewOK
    <3>2. CASE r \notin DOMAIN batch[t].got /\ r \in overtaken
      BY <2>1, <3>2
    <3>3. CASE r \notin DOMAIN batch[t].got /\ r \notin overtaken
      BY <2>1, <3>3 DEF ViewOK, Passed
    <3>4. QED
      BY <3>1, <3>2, <3>3
  <2>4. QED
    BY <2>1, <2>2, <2>3 DEF View!Next, View!Refresh, View!Now
<1>6. ASSUME NEW t \in Task, UpsertLocal(t) PROVE View!Next
  <2>1. /\ content' = content /\ during' = during /\ overtaken' = Overtaken(t)
        /\ mirror' = [mirror EXCEPT ![row[t]] = base[t]]
    BY <1>6 DEF UpsertLocal, upstream, ledger
  <2>2. row[t] \in Row /\ Syncing' = Syncing
    BY <1>6, UpsertEffect
  <2>3. \A q \in Row \ {row[t]} : mirror'[q] = mirror[q]
    BY <2>1 DEF TypeOK
  <2>4. View!WriteThrough(row[t])
    BY <2>1, <2>2, <2>3 DEF View!WriteThrough, Overtaken
  <2>5. QED
    BY <2>2, <2>4 DEF View!Next
<1>7. ASSUME NEW r \in Row, Elsewhere(r) PROVE View!Next
  <2>1. (\E shows : Modify(r, shows)) /\ Syncing' = Syncing /\ UNCHANGED <<mirror, overtaken>>
    BY <1>7 DEF Elsewhere, Syncing
  <2>2. QED
    BY <1>2, <2>1 DEF View!Next
<1>8. QED
  BY <1>1, <1>3, <1>4, <1>5, <1>6, <1>7, StepCases, EditElsewhere, LandsElsewhere

(* The store implements LedgerView: the mirror changes by whole refreshes,  *)
(* each row of which the ledger has held since the refresh began, and by    *)
(* the write-through of one row; a sync that fails shows nothing.           *)
THEOREM MirrorIsView == ASSUME SnapshotAsOf PROVE Spec => IsView
<1>1. Init => StoreInv /\ MirrorInv /\ ViewOK /\ View!Init
  BY StoreInit, MirrorInit, ViewInit, ViewInitMaps
<1>2. StoreInv /\ MirrorInv /\ ViewOK /\ [Next]_vars => StoreInv' /\ MirrorInv' /\ ViewOK'
  BY StoreStep, MirrorStep, ViewStep
<1>3. StoreInv /\ StoreInv' /\ MirrorInv /\ ViewOK /\ [Next]_vars => [View!Next]_View!vars
  BY ViewStepMaps
<1>4. QED
  BY <1>1, <1>2, <1>3, PTL DEF Spec, IsView, View!Spec

-----------------------------------------------------------------------------
(***************************************************************************)
(* What others make of a row only advances, for the readers of the mirror. *)
(***************************************************************************)
NotOurs(r) == \A t \in Task : row[t] # r

(* The mirror, what a listing has read, and the ledger, each as far as the  *)
(* one before it; and no PUT of the row is under way.                       *)
AdvanceOK(r) ==
  /\ \A p \in late : p.row # r
  /\ mirror[r] \subseteq content[r]
  /\ \A t \in Task : pc[t] = "pages" /\ r \in DOMAIN batch[t].got =>
       mirror[r] \subseteq batch[t].got[r] /\ batch[t].got[r] \subseteq content[r]

LEMMA AdvanceStep ==
  ASSUME StoreInv, StoreInv', [Next]_vars, NEW r \in Row, NotOurs(r), AdvanceOK(r)
  PROVE  AdvanceOK(r)' /\ mirror[r] \subseteq mirror'[r]
<1> USE DEF StoreInv
<1>1. CASE Local
  BY <1>1 DEF Local, AdvanceOK, NotOurs
<1>2. ASSUME NEW t \in Task, Written(t) PROVE AdvanceOK(r)' /\ mirror[r] \subseteq mirror'[r]
  <2>1. row[t] \in Row /\ row[t] # r /\ Modify(row[t], base[t])
    BY <1>2 DEF Written, Put, GateOK, NotOurs
  <2>2. content'[r] = content[r] /\ mirror' = mirror /\ late' = late
    BY <1>2, <2>1, ModifyEffect DEF Written
  <2>3. \A u \in Task : batch'[u] = batch[u] /\ (pc'[u] = "pages" => pc[u] = "pages")
    BY <1>2 DEF Written
  <2>4. QED
    BY <2>2, <2>3 DEF AdvanceOK
<1>3. ASSUME NEW t \in Task, FirstPage(t) PROVE AdvanceOK(r)' /\ mirror[r] \subseteq mirror'[r]
  <2>1. UNCHANGED <<content, mirror, late>>
    BY <1>3 DEF FirstPage, AfterPage, upstream, ledger, store
  <2>2. \A q \in DOMAIN batch'[t].got : batch'[t].got[q] = content[q]
    BY <1>3, FirstPageEffect
  <2>3. \A u \in Task \ {t} : pc'[u] = pc[u] /\ batch'[u] = batch[u]
    BY <1>3, FirstPageEffect
  <2>4. QED
    BY <2>1, <2>2, <2>3 DEF AdvanceOK
<1>4. ASSUME NEW t \in Task, NextPage(t) PROVE AdvanceOK(r)' /\ mirror[r] \subseteq mirror'[r]
  <2>1. UNCHANGED <<content, mirror, late>>
    BY <1>4 DEF NextPage, AfterPage, upstream, ledger, store
  <2>2. pc[t] = "pages" /\ \A q \in DOMAIN batch'[t].got :
              \/ batch'[t].got[q] = content[q]
              \/ q \in DOMAIN batch[t].got /\ batch'[t].got[q] = batch[t].got[q]
    BY <1>4, NextPageEffect
  <2>3. \A u \in Task \ {t} : pc'[u] = pc[u] /\ batch'[u] = batch[u]
    BY <1>4, NextPageEffect
  <2>4. QED
    BY <2>1, <2>2, <2>3 DEF AdvanceOK
<1>5. ASSUME NEW t \in Task, Apply(t) PROVE AdvanceOK(r)' /\ mirror[r] \subseteq mirror'[r]
  <2>1. /\ UNCHANGED <<content, late>> /\ pc[t] = "pages"
        /\ mirror' = [q \in Row |-> IF q \in DOMAIN batch[t].got THEN batch[t].got[q] ELSE mirror[q]]
    BY <1>5 DEF Apply, ledger
  <2>2. \A u \in Task : pc'[u] # "pages"
    BY <1>5, ApplyEffect
  <2>3. mirror[r] \subseteq mirror'[r] /\ mirror'[r] \subseteq content[r]
    BY <2>1 DEF AdvanceOK
  <2>4. QED
    BY <2>1, <2>2, <2>3 DEF AdvanceOK
<1>6. ASSUME NEW t \in Task, UpsertLocal(t) PROVE AdvanceOK(r)' /\ mirror[r] \subseteq mirror'[r]
  <2>1. UNCHANGED <<content, late>> /\ mirror' = [mirror EXCEPT ![row[t]] = base[t]] /\ row[t] # r
    BY <1>6 DEF UpsertLocal, upstream, ledger, NotOurs
  <2>2. mirror'[r] = mirror[r]
    BY <2>1 DEF TypeOK
  <2>3. \A u \in Task : batch'[u] = batch[u] /\ (pc'[u] = "pages" => pc[u] = "pages")
    BY <1>6, UpsertEffect
  <2>4. QED
    BY <2>1, <2>2, <2>3 DEF AdvanceOK
<1>7. ASSUME NEW q \in Row, WebEdit(q) PROVE AdvanceOK(r)' /\ mirror[r] \subseteq mirror'[r]
  <2>1. UNCHANGED <<late, mirror, pc, batch>> /\ Modify(q, content[q])
    BY <1>7 DEF WebEdit, store
  <2>2. content[r] \subseteq content'[r]
    BY <2>1, ModifyEffect
  <2>3. QED
    BY <2>1, <2>2 DEF AdvanceOK
<1>8. ASSUME NEW p \in late, Lands(p) PROVE AdvanceOK(r)' /\ mirror[r] \subseteq mirror'[r]
  <2>1. UNCHANGED <<mirror, pc, batch>> /\ late' \subseteq late /\ Modify(p.row, p.shows)
    BY <1>8 DEF Lands, Put, store
  <2>2. p.row \in Row \ {r}
    BY DEF AdvanceOK, TypeOK
  <2>3. content'[r] = content[r]
    BY <2>1, <2>2, ModifyEffect
  <2>4. QED
    BY <2>1, <2>3 DEF AdvanceOK
<1>9. QED
  BY <1>1, <1>2, <1>3, <1>4, <1>5, <1>6, <1>7, <1>8, StepCases

(* While no tool call is about a row, the mirror's copy of it never goes    *)
(* back: each sync shows all that an earlier one had, whatever pages,       *)
(* failures and stamps it meets.                                            *)
THEOREM RowsAdvance ==
  ASSUME NEW r \in Row
  PROVE  Spec /\ []NotOurs(r) => [][mirror[r] \subseteq mirror'[r]]_vars
<1>1. Init => StoreInv /\ AdvanceOK(r)
  <2>1. Init => AdvanceOK(r)
    BY DEF Init, AdvanceOK
  <2>2. QED
    BY <2>1, StoreInit
<1>2. StoreInv /\ AdvanceOK(r) /\ NotOurs(r) /\ [Next]_vars
        => StoreInv' /\ AdvanceOK(r)' /\ [mirror[r] \subseteq mirror'[r]]_vars
  BY StoreStep, AdvanceStep
<1>3. QED
  BY <1>1, <1>2, PTL DEF Spec

-----------------------------------------------------------------------------
(***************************************************************************)
(* The write-through keeps the mirror consistent where nothing comes        *)
(* between it and its PUT.                                                 *)
(***************************************************************************)

(* While a call waits to write its row through, no listing is about to land *)
(* and no other PUT of the row to be sent or applied.                       *)
Undisturbed ==
  \A t \in Task : pc[t] = "ack" =>
    /\ \A u \in Task : pc[u] # "pages" /\ ~(pc[u] = "put" /\ row[u] = row[t])
    /\ \A p \in late : p.row # row[t]

InTime == overtaken = {} /\ \A t \in Task : ~lapped[t]

LEMMA InTimeStep ==
  ASSUME StoreInv, Undisturbed, InTime, [Next]_vars PROVE InTime'
<1> USE DEF StoreInv
<1>1. CASE Local
  BY <1>1 DEF Local, InTime
<1>2. ASSUME NEW t \in Task, Written(t) PROVE InTime'
  <2>1. /\ overtaken' = overtaken /\ pc[t] = "put"
        /\ lapped' = [u \in Task |-> lapped[u] \/ (pc[u] = "ack" /\ row[u] = row[t])]
    BY <1>2 DEF Written, Put
  <2>2. \A u \in Task : ~(pc[u] = "ack" /\ row[u] = row[t])
    BY <2>1 DEF Undisturbed
  <2>3. QED
    BY <2>1, <2>2 DEF InTime
<1>3. ASSUME NEW t \in Task, FirstPage(t) \/ NextPage(t) PROVE InTime'
  <2>1. UNCHANGED <<overtaken, lapped>>
    BY <1>3 DEF FirstPage, NextPage, AfterPage, history, writes
  <2>2. QED
    BY <2>1 DEF InTime
<1>4. ASSUME NEW t \in Task, Apply(t) PROVE InTime'
  <2>1. /\ overtaken' = overtaken \ DOMAIN batch[t].got /\ pc[t] = "pages"
        /\ lapped' = [u \in Task |-> lapped[u] \/ pc[u] = "ack"]
    BY <1>4 DEF Apply
  <2>2. \A u \in Task : pc[u] # "ack"
    BY <2>1 DEF Undisturbed
  <2>3. QED
    BY <2>1, <2>2 DEF InTime
<1>5. ASSUME NEW t \in Task, UpsertLocal(t) PROVE InTime'
  BY <1>5 DEF UpsertLocal, Overtaken, InTime, TypeOK
<1>6. ASSUME NEW q \in Row, WebEdit(q) PROVE InTime'
  BY <1>6 DEF WebEdit, history, writes, InTime
<1>7. ASSUME NEW p \in late, Lands(p) PROVE InTime'
  <2>1. /\ overtaken' = overtaken
        /\ lapped' = [u \in Task |-> lapped[u] \/ (pc[u] = "ack" /\ row[u] = p.row)]
    BY <1>7 DEF Lands, Put
  <2>2. \A u \in Task : ~(pc[u] = "ack" /\ row[u] = p.row)
    BY DEF Undisturbed
  <2>3. QED
    BY <2>1, <2>2 DEF InTime
<1>8. QED
  <2>1. UnsyncedOK /\ GateOK' /\ TypeOK /\ GateOK
    BY GateStep
  <2>2. \/ Local
        \/ \E t \in Task : Written(t) \/ FirstPage(t) \/ NextPage(t) \/ Apply(t) \/ UpsertLocal(t)
        \/ (\E r \in Row : WebEdit(r)) \/ (\E p \in late : Lands(p))
    BY <2>1, StepCases
  <2>3. QED
    BY <1>1, <1>2, <1>3, <1>4, <1>5, <1>6, <1>7, <2>2

(* The comment on upsert_local holds of every behaviour in which write-     *)
(* throughs are undisturbed: the mirror stays consistent                    *)
(* (SyncStore!MirrorConsistent, which the sync_write_race run refutes of    *)
(* behaviours in which a sync comes between).                               *)
THEOREM ConsistentUndisturbed ==
  ASSUME SnapshotAsOf PROVE Spec /\ []Undisturbed => []MirrorConsistent
<1>1. Init => StoreInv /\ MirrorInv /\ InTime
  <2>1. Init => InTime
    BY DEF Init, InTime
  <2>2. QED
    BY <2>1, StoreInit, MirrorInit
<1>2. StoreInv /\ MirrorInv /\ InTime /\ Undisturbed /\ [Next]_vars
        => StoreInv' /\ MirrorInv' /\ InTime'
  BY StoreStep, MirrorStep, InTimeStep
<1>3. MirrorInv /\ InTime => MirrorConsistent
  BY DEF MirrorInv, NoLostChange, MirrorConsistent, InTime
<1>4. QED
  BY <1>1, <1>2, <1>3, PTL DEF Spec
=============================================================================
