------------------------------ MODULE WriteLane ------------------------------
(***************************************************************************)
(* The mutating tools of the MCP server (src/server.rs): write gate, hourly *)
(* write quota, audit journal (src/audit.rs), and the upstream requests    *)
(* between an attempt record and its result record, bulk creation with its *)
(* abort threshold (create_transactions_bulk in src/client.rs) included.   *)
(*                                                                         *)
(* A tool call that passes the gate is an operation, numbered in the order *)
(* of the calls (its op_id); its mutations are numbered rows.  The journal *)
(* is the sequence of what appends left in the file.  How the row to patch *)
(* is obtained and mirrored is the subject of SyncStore.                   *)
(***************************************************************************)
EXTENDS Integers, Sequences, FiniteSets

CONSTANTS
  Task,         \* tool calls in progress
  Settings,     \* configurations a process may be started with:
                \* mcp_allow_writes, enable_unverified_writes and
                \* mcp_max_writes_per_hour (0: no quota)
  Window,       \* one hour, in clock units
  AbortAfter,   \* BULK_ABORT_AFTER
  DiskFails,    \* external: an append to the journal may fail
  TornWrites,   \* external: ... after writing part of its line
  Crashes,      \* external: the process may die, and callers drop their calls
  BulkRows,     \* the sizes a bulk import may have
  MaxOps,       \* bound: operations in a behaviour
  MaxNow        \* bound: the last instant of the clock

ASSUME SettingsAssumption ==
  Settings \subseteq [allow : BOOLEAN, unverified : BOOLEAN, quota : Nat]
ASSUME QuotaAssumption == Window \in Nat \ {0}
ASSUME BulkAssumption  == AbortAfter \in Nat \ {0} /\ BulkRows \subseteq Nat \ {0}
ASSUME SwitchAssumption ==
  DiskFails \in BOOLEAN /\ TornWrites \in BOOLEAN /\ Crashes \in BOOLEAN
ASSUME BoundAssumption == MaxOps \in Nat /\ MaxNow \in Nat

Tool == {"update", "create", "bulk"}   \* categorize_transaction is an update

VARIABLES
  now,
  cfg,        \* the configuration of the process
  allow,      \* allow_writes: on, and the journal could be opened
  times,      \* write_times: the slots reserved, as [op, row, at]
  journal,    \* audit.jsonl
  ops,        \* operations so far
  pc, op, tool, cost,
  results,    \* the outcome of each row sent: TRUE is an ack
  fails,      \* consecutive_failures
  \* History variables:
  charged,    \* the slots ever reserved by this process
  applied,    \* the mutations the ledger took, as [op, row, at]
  excused     \* the operations dropped, cut off, or whose result append failed

config  == <<cfg, allow>>
history == <<charged, applied, excused>>
call == <<pc, op, tool, cost, results, fails>>
vars == <<now, config, times, journal, ops, call, history>>

PC     == {"idle", "fetch", "quota", "audit", "send", "finish"}
Slot   == [op : Nat, row : Nat, at : Nat]
\* What one append left: a record, or the part of one that was written.
Piece  == [op : Nat, phase : {"attempt", "result"}, acks : Nat, whole : BOOLEAN]
Record(o, phase, acks) == [op |-> o, phase |-> phase, acks |-> acks, whole |-> TRUE]

\* SimplifiMcpServer::new: no journal, no writes.
Start ==
  /\ cfg' \in Settings /\ allow' \in {cfg'.allow, FALSE}
  /\ times' = {} /\ charged' = {}

Init ==
  /\ now = 0 /\ cfg \in Settings /\ allow \in {cfg.allow, FALSE}
  /\ times = {} /\ journal = <<>>
  /\ ops = 0
  /\ pc = [t \in Task |-> "idle"] /\ op = [t \in Task |-> 0]
  /\ tool = [t \in Task |-> "update"] /\ cost = [t \in Task |-> 1]
  /\ results = [t \in Task |-> <<>>] /\ fails = [t \in Task |-> 0]
  /\ charged = {} /\ applied = {} /\ excused = {}

-----------------------------------------------------------------------------
Goto(t, where) == pc' = [pc EXCEPT ![t] = where]

Return(t) ==
  /\ Goto(t, "idle")
  /\ op' = [op EXCEPT ![t] = 0]
  /\ tool' = [tool EXCEPT ![t] = "update"] /\ cost' = [cost EXCEPT ![t] = 1]
  /\ results' = [results EXCEPT ![t] = <<>>] /\ fails' = [fails EXCEPT ![t] = 0]

\* A call passes the gate, asking for n mutations.
Call(t, tl, n) ==
  /\ pc[t] = "idle" /\ allow /\ ops < MaxOps
  /\ ops' = ops + 1
  /\ op' = [op EXCEPT ![t] = ops + 1]
  /\ tool' = [tool EXCEPT ![t] = tl]
  /\ cost' = [cost EXCEPT ![t] = n]
  /\ Goto(t, IF tl = "update" THEN "fetch" ELSE "quota")
  /\ UNCHANGED <<now, config, times, journal, results, fails, history>>

BaseFound(t) ==
  /\ pc[t] = "fetch"
  /\ Goto(t, "quota")
  /\ UNCHANGED <<now, config, times, journal, ops, op, tool, cost, results, fails,
                 history>>

\* not_found, or the sync it needs fails.
BaseMissing(t) ==
  /\ pc[t] = "fetch"
  /\ Return(t)
  /\ UNCHANGED <<now, config, times, journal, ops, history>>

-----------------------------------------------------------------------------
\* write_quota: slots older than the window go, whether or not the call fits.
Recent == {s \in times : now - s.at < Window}
Slots(t) == [op : {op[t]}, row : 1 .. cost[t], at : {now}]
\* Fault: a quota that counts a call as one mutation.
FitsOnce(t) == Cardinality(Recent) < cfg.quota
Fits(t) == Cardinality(Recent) + cost[t] <= cfg.quota

ReserveSlots(t) ==
  /\ pc[t] = "quota" /\ cfg.quota > 0 /\ Fits(t)
  /\ times' = Recent \cup Slots(t)
  /\ charged' = charged \cup Slots(t)
  /\ Goto(t, "audit")
  /\ UNCHANGED <<now, config, journal, ops, op, tool, cost, results, fails, applied, excused>>

QuotaExceeded(t) ==
  /\ pc[t] = "quota" /\ cfg.quota > 0 /\ ~Fits(t)
  /\ times' = Recent
  /\ Return(t)
  /\ UNCHANGED <<now, config, journal, ops, history>>

NoQuota(t) ==
  /\ pc[t] = "quota" /\ cfg.quota = 0
  /\ Goto(t, "audit")
  /\ UNCHANGED <<now, config, times, journal, ops, op, tool, cost, results, fails,
                 history>>

-----------------------------------------------------------------------------
\* AuditLog::append: one write_all; if it fails, part of the line may be there.
Appended(rec) == journal' = Append(journal, rec)
AppendFails(rec) ==
  /\ DiskFails
  /\ \/ UNCHANGED journal
     \/ TornWrites /\ Appended([rec EXCEPT !.whole = FALSE])

Attempt(t) == Record(op[t], "attempt", 0)

\* AuditLog::begin: the attempt is on file.
BeginWritten(t) ==
  /\ pc[t] = "audit"
  /\ Appended(Attempt(t))
  /\ Goto(t, "send")
  /\ UNCHANGED <<now, config, times, ops, op, tool, cost, results, fails, history>>

\* Fault: a tool that goes on without its attempt record.
BeginIgnored(t) ==
  /\ pc[t] = "audit"
  /\ AppendFails(Attempt(t))
  /\ Goto(t, "send")
  /\ UNCHANGED <<now, config, times, ops, op, tool, cost, results, fails, history>>

\* audit_unavailable: the mutation is refused, its slots stay taken.
BeginFails(t) ==
  /\ pc[t] = "audit"
  /\ AppendFails(Attempt(t))
  /\ Return(t)
  /\ UNCHANGED <<now, config, times, ops, history>>

-----------------------------------------------------------------------------
\* Refused before any request: validate_upsert_required, or an unverified
\* endpoint that is not enabled.
Refused(t) ==
  /\ pc[t] = "send" /\ results[t] = <<>>
  /\ tool[t] = "update" \/ ~cfg.unverified
  /\ Goto(t, "finish")
  /\ UNCHANGED <<now, config, times, journal, ops, op, tool, cost, results, fails,
                 history>>

Sending(t) == pc[t] = "send" /\ (tool[t] = "update" \/ cfg.unverified)
InFlight(t) == [op |-> op[t], row |-> Len(results[t]) + 1, at |-> now]

\* Fault: an abort one failure late.
AbortsLate(n) == n > AbortAfter
\* consecutive_failures >= BULK_ABORT_AFTER
Aborts(n) == n >= AbortAfter

\* The response to a row's request: the next row, or the end of the operation.
Answered(t, ok) ==
  LET n == IF ok THEN 0 ELSE fails[t] + 1 IN
  /\ results' = [results EXCEPT ![t] = Append(@, ok)]
  /\ fails' = [fails EXCEPT ![t] = n]
  /\ Goto(t, IF Len(results[t]) + 1 = cost[t] \/ Aborts(n) THEN "finish" ELSE "send")
  /\ UNCHANGED <<now, config, times, journal, ops, op, tool, cost, charged, excused>>

RowAcked(t) ==
  /\ Sending(t)
  /\ applied' = applied \cup {InFlight(t)}
  /\ Answered(t, TRUE)

\* An error, or no answer: the ledger may have taken the mutation.
RowFails(t) ==
  /\ Sending(t)
  /\ applied' \in {applied, applied \cup {InFlight(t)}}
  /\ Answered(t, FALSE)

-----------------------------------------------------------------------------
\* Fault: every row sent counts.
AllSent(t) == Len(results[t])
Acks(t) == Cardinality({i \in 1 .. Len(results[t]) : results[t][i]})

Finished(t) ==
  /\ Return(t)
  /\ UNCHANGED <<now, config, times, ops, charged, applied>>

\* Fault: the result is written only after a success.
FinishOnSuccess(t) ==
  /\ pc[t] = "finish"
  /\ IF Acks(t) > 0 THEN Appended(Record(op[t], "result", Acks(t))) ELSE UNCHANGED journal
  /\ UNCHANGED excused
  /\ Finished(t)

\* AuditLog::finish: the outcome, with the number of rows acknowledged.
FinishWritten(t) ==
  /\ pc[t] = "finish"
  /\ Appended(Record(op[t], "result", Acks(t)))
  /\ UNCHANGED excused
  /\ Finished(t)

\* The failure is logged, and the tool answers as if there were none.
FinishFails(t) ==
  /\ pc[t] = "finish"
  /\ AppendFails(Record(op[t], "result", Acks(t)))
  /\ excused' = excused \cup {op[t]}
  /\ Finished(t)

-----------------------------------------------------------------------------
\* The tool's future is dropped in an await; a request in flight may land.
Abandon(t) ==
  /\ Crashes /\ pc[t] \in {"fetch", "send"}
  /\ \/ UNCHANGED applied
     \/ Sending(t) /\ applied' = applied \cup {InFlight(t)}
  /\ excused' = excused \cup {op[t]}
  /\ Return(t)
  /\ UNCHANGED <<now, config, times, journal, ops, charged>>

\* The process dies and is started again: the journal is all that is left.
Restart ==
  /\ Crashes
  /\ \E Landed \in SUBSET {t \in Task : Sending(t)} :
       applied' = applied \cup {InFlight(t) : t \in Landed}
  /\ excused' = excused \cup {op[t] : t \in {u \in Task : pc[u] # "idle"}}
  /\ pc' = [t \in Task |-> "idle"] /\ op' = [t \in Task |-> 0]
  /\ tool' = [t \in Task |-> "update"] /\ cost' = [t \in Task |-> 1]
  /\ results' = [t \in Task |-> <<>>] /\ fails' = [t \in Task |-> 0]
  /\ Start
  /\ UNCHANGED <<now, journal, ops>>

Tick ==
  /\ now < MaxNow
  /\ now' = now + 1
  /\ UNCHANGED <<config, times, journal, ops, call, history>>

\* Nothing left to do within the bounds.
Quiet == (\A t \in Task : pc[t] = "idle") /\ UNCHANGED vars

Proceed(t) ==
  \/ BaseFound(t) \/ BaseMissing(t)
  \/ ReserveSlots(t) \/ QuotaExceeded(t) \/ NoQuota(t)
  \/ BeginWritten(t) \/ BeginFails(t)
  \/ Refused(t) \/ RowAcked(t) \/ RowFails(t)
  \/ FinishWritten(t) \/ FinishFails(t)

Next ==
  \/ \E t \in Task :
       \/ Call(t, "update", 1) \/ Call(t, "create", 1)
       \/ \E n \in BulkRows : Call(t, "bulk", n)
       \/ Proceed(t) \/ Abandon(t)
  \/ Restart \/ Tick \/ Quiet

Spec == Init /\ [][Next]_vars

-----------------------------------------------------------------------------
TypeOK ==
  /\ now \in Nat /\ allow \in BOOLEAN /\ times \subseteq Slot
  /\ journal \in Seq(Piece) /\ ops \in Nat
  /\ pc \in [Task -> PC] /\ op \in [Task -> Nat] /\ tool \in [Task -> Tool]
  /\ cost \in [Task -> Nat \ {0}]
  /\ results \in [Task -> Seq(BOOLEAN)] /\ fails \in [Task -> Nat]
  /\ charged \subseteq Slot /\ applied \subseteq Slot /\ excused \subseteq 1 .. ops
  /\ cfg \in Settings /\ (allow => cfg.allow)

\* A line of the file is a record when its append was whole and started a line,
\* the one before it having ended with its newline.
Readable(i) == journal[i].whole /\ (i > 1 => journal[i - 1].whole)
HasRecord(o, phase) ==
  \E i \in DOMAIN journal : /\ Readable(i)
                            /\ journal[i].op = o /\ journal[i].phase = phase

\* A torn line swallows the record that is appended next.
Swallowed(o, phase) ==
  \E i \in DOMAIN journal : /\ journal[i].whole /\ ~Readable(i)
                            /\ journal[i].op = o /\ journal[i].phase = phase

\* Every mutation the ledger took has an attempt record that can be read back,
\* whatever crashed, failed or was dropped since (AuditLog::begin comes first),
\* but for the one record that a torn append may swallow.
Journaled ==
  \A m \in applied : HasRecord(m.op, "attempt") \/ Swallowed(m.op, "attempt")

\* The reader of the journal may trust a result: it is the only one of its
\* operation, comes after the whole attempt record, and the ledger took at least as many
\* mutations as it says were acknowledged.
ResultsTrue ==
  \A i \in DOMAIN journal :
    Readable(i) /\ journal[i].phase = "result" =>
      /\ \E j \in 1 .. i - 1 : /\ journal[j].whole /\ journal[j].op = journal[i].op
                               /\ journal[j].phase = "attempt"
      /\ \A j \in 1 .. i - 1 : journal[j] # journal[i]
      /\ journal[i].acks <= Cardinality({m \in applied : m.op = journal[i].op})

\* The quota: one process never reserves more than cfg.quota slots within any
\* window, and sends no mutation it has not reserved a slot of its own for.
QuotaHolds ==
  cfg.quota > 0 =>
    /\ \A n \in 0 .. now :
         Cardinality({s \in charged : s.at <= n /\ n - s.at < Window}) <= cfg.quota
    /\ \A t \in Task : Sending(t) =>
         \E s \in charged : s.op = op[t] /\ s.row = InFlight(t).row

\* A bulk import ends early exactly when its last AbortAfter rows all failed: a
\* wire shape the ledger rejects is not tried on every row, and scattered
\* failures do not stop an import.
LastFailed(t) ==
  /\ Len(results[t]) >= AbortAfter
  /\ \A i \in Len(results[t]) - AbortAfter + 1 .. Len(results[t]) : ~results[t][i]
BulkStops ==
  \A t \in Task :
    /\ pc[t] = "send" => ~LastFailed(t)
    /\ pc[t] = "finish" /\ results[t] # <<>> /\ Len(results[t]) < cost[t] => LastFailed(t)

\* Every attempt on file is answered by a result once its call is over, local
\* refusals included, unless the call was dropped, the process died in it, or
\* appending the result failed or was swallowed.
EveryAttemptAnswered ==
  \A o \in 1 .. ops :
    HasRecord(o, "attempt") =>
      \/ HasRecord(o, "result") \/ Swallowed(o, "result")
      \/ o \in excused \/ \E t \in Task : op[t] = o
=============================================================================
