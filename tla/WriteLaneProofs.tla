--------------------------- MODULE WriteLaneProofs ----------------------------
(***************************************************************************)
(* Proofs about WriteLane, for any number of tasks and operations, any     *)
(* configurations, window, threshold and sizes of a bulk import, whatever  *)
(* the disk does and whenever the process dies.                            *)
(***************************************************************************)
EXTENDS WriteLane, FiniteSetTheorems, TLAPS

-----------------------------------------------------------------------------
(***************************************************************************)
(* The inductive invariant, part by part.                                  *)
(***************************************************************************)

(* An operation belongs to one call at a time; what it has sent is within   *)
(* what it asked for.                                                       *)
CallOK ==
  /\ \A t \in Task :
       /\ pc[t] = "idle" <=> op[t] = 0
       /\ op[t] <= ops
       /\ pc[t] \notin {"send", "finish"} => results[t] = <<>> /\ fails[t] = 0
       /\ pc[t] = "send" => Len(results[t]) < cost[t]
  /\ \A t, u \in Task : op[t] = op[u] /\ op[t] # 0 => t = u

(* fails counts the rows that failed since the last one that did not.        *)
TallyOK == \A t \in Task :
  /\ fails[t] <= Len(results[t])
  /\ \A i \in Len(results[t]) - fails[t] + 1 .. Len(results[t]) : ~results[t][i]
  /\ fails[t] < Len(results[t]) => results[t][Len(results[t]) - fails[t]]
  /\ pc[t] = "send" => fails[t] < AbortAfter
  /\ pc[t] = "finish" /\ results[t] # <<>> /\ Len(results[t]) < cost[t] =>
       fails[t] >= AbortAfter

(* A whole line of the file, readable or swallowed.                         *)
OnFile(o, phase) ==
  \E i \in DOMAIN journal : journal[i].whole /\ journal[i].op = o /\ journal[i].phase = phase

(* The file mentions an operation only from its attempt on, and its result   *)
(* only once it is over.                                                    *)
JournalOK ==
  /\ \A i \in DOMAIN journal : journal[i].op \in 1 .. ops
  /\ \A t \in Task :
       /\ pc[t] \in {"fetch", "quota", "audit"} =>
            \A i \in DOMAIN journal : journal[i].op # op[t]
       /\ pc[t] \in {"send", "finish"} =>
            /\ OnFile(op[t], "attempt")
            /\ \A i \in DOMAIN journal : journal[i].op = op[t] => journal[i].phase # "result"

Taken(o) == {m \in applied : m.op = o}

(* The ledger has every mutation that was acknowledged, and only attempted  *)
(* ones.                                                                    *)
AppliedOK ==
  /\ \A m \in applied : OnFile(m.op, "attempt")
  /\ \A t \in Task : \A i \in DOMAIN results[t] :
       results[t][i] => \E m \in applied : m.op = op[t] /\ m.row = i
  /\ \A o \in Nat : IsFiniteSet(Taken(o))

(* ResultsTrue of every whole result, swallowed ones included.              *)
ResultsOK ==
  \A i \in DOMAIN journal :
    journal[i].whole /\ journal[i].phase = "result" =>
      /\ \E j \in 1 .. i - 1 : /\ journal[j].whole /\ journal[j].op = journal[i].op
                               /\ journal[j].phase = "attempt"
      /\ \A j \in 1 .. i - 1 : journal[j] # journal[i]
      /\ journal[i].acks <= Cardinality(Taken(journal[i].op))

AnsweredOK ==
  \A o \in 1 .. ops :
    OnFile(o, "attempt") =>
      OnFile(o, "result") \/ o \in excused \/ \E t \in Task : op[t] = o

(* The slots of the window are on the server's list; a call past the quota  *)
(* holds one for each of its rows.                                          *)
QuotaOK ==
  /\ IsFiniteSet(charged) /\ \A s \in charged : s.at <= now
  /\ \A s \in charged : now - s.at < Window => s \in times
  /\ times \subseteq charged
  /\ cfg.quota > 0 =>
       /\ \A n \in 0 .. now :
            Cardinality({s \in charged : s.at <= n /\ n - s.at < Window}) <= cfg.quota
       /\ \A t \in Task : pc[t] \in {"audit", "send", "finish"} =>
            \A i \in 1 .. cost[t] : \E s \in charged : s.op = op[t] /\ s.row = i

-----------------------------------------------------------------------------
(***************************************************************************)
(* Types.                                                                  *)
(***************************************************************************)
LEMMA CfgTypes ==
  ASSUME TypeOK PROVE cfg.quota \in Nat /\ cfg.unverified \in BOOLEAN /\ cfg.allow \in BOOLEAN
  BY SettingsAssumption DEF TypeOK

LEMMA SlotsTypes == ASSUME TypeOK, NEW t \in Task PROVE Slots(t) \subseteq Slot
  BY DEF TypeOK, Slots, Slot

LEMMA AcksNat == ASSUME TypeOK, NEW t \in Task PROVE Acks(t) \in Nat
<1>1. Len(results[t]) \in Nat
  BY DEF TypeOK
<1>2. IsFiniteSet(1 .. Len(results[t]))
  BY <1>1, FS_Interval
<1>3. {i \in 1 .. Len(results[t]) : results[t][i]} \subseteq 1 .. Len(results[t])
  OBVIOUS
<1>4. IsFiniteSet({i \in 1 .. Len(results[t]) : results[t][i]})
  BY <1>2, <1>3, FS_Subset
<1>5. QED
  BY <1>4, FS_CardinalityType DEF Acks

LEMMA RecordTypes ==
  ASSUME NEW o \in Nat, NEW phase \in {"attempt", "result"}, NEW acks \in Nat
  PROVE  /\ Record(o, phase, acks) \in Piece
         /\ [Record(o, phase, acks) EXCEPT !.whole = FALSE] \in Piece
  BY DEF Record, Piece

LEMMA AppendTypes ==
  ASSUME TypeOK, NEW rec \in Piece, [rec EXCEPT !.whole = FALSE] \in Piece,
         Appended(rec) \/ AppendFails(rec)
  PROVE  journal' \in Seq(Piece)
<1>1. \A p \in Piece : Append(journal, p) \in Seq(Piece)
  BY DEF TypeOK
<1>2. \/ journal' = Append(journal, rec) \/ journal' = journal
      \/ journal' = Append(journal, [rec EXCEPT !.whole = FALSE])
  BY DEF Appended, AppendFails
<1>3. QED
  BY <1>1, <1>2 DEF TypeOK

LEMMA ReturnTypes ==
  ASSUME TypeOK, NEW t \in Task, Return(t)
  PROVE  /\ pc' \in [Task -> PC] /\ op' \in [Task -> Nat] /\ tool' \in [Task -> Tool]
         /\ cost' \in [Task -> Nat \ {0}]
         /\ results' \in [Task -> Seq(BOOLEAN)] /\ fails' \in [Task -> Nat]
  BY DEF TypeOK, Return, Goto, PC, Tool

LEMMA InFlightTypes == ASSUME TypeOK, NEW t \in Task PROVE InFlight(t) \in Slot
  BY DEF TypeOK, InFlight, Slot

LEMMA TypeInit == Init => TypeOK
<1> SUFFICES ASSUME Init PROVE TypeOK
  OBVIOUS
<1>1. journal \in Seq(Piece) /\ results \in [Task -> Seq(BOOLEAN)]
  BY DEF Init
<1>2. cfg \in Settings /\ allow \in BOOLEAN /\ (allow => cfg.allow)
  BY SettingsAssumption DEF Init
<1>3. QED
  BY <1>1, <1>2 DEF Init, TypeOK, PC, Tool

LEMMA TypeStep == TypeOK /\ CallOK /\ [Next]_vars => TypeOK'
<1> SUFFICES ASSUME TypeOK, CallOK, [Next]_vars PROVE TypeOK'
  OBVIOUS
<1> USE DEF Goto, config, history, call
<1>1. ASSUME NEW t \in Task, NEW tl \in Tool, NEW n \in Nat \ {0}, Call(t, tl, n) PROVE TypeOK'
  BY <1>1 DEF Call, TypeOK, PC
<1>2. ASSUME NEW t \in Task, BaseFound(t) \/ NoQuota(t) \/ Refused(t) PROVE TypeOK'
  <2>1. /\ UNCHANGED <<now, config, times, journal, ops, op, tool, cost, results, fails, history>>
        /\ \E where \in PC : pc' = [pc EXCEPT ![t] = where]
    BY <1>2 DEF BaseFound, NoQuota, Refused, PC
  <2>2. pc' \in [Task -> PC]
    BY <2>1 DEF TypeOK
  <2>3. QED
    BY <2>1, <2>2 DEF TypeOK
<1>3. ASSUME NEW t \in Task, BaseMissing(t) PROVE TypeOK'
  BY <1>3, ReturnTypes DEF BaseMissing, TypeOK
<1>4. ASSUME NEW t \in Task, ReserveSlots(t) PROVE TypeOK'
  BY <1>4, SlotsTypes DEF ReserveSlots, Recent, TypeOK, PC
<1>5. ASSUME NEW t \in Task, QuotaExceeded(t) PROVE TypeOK'
  BY <1>5, ReturnTypes DEF QuotaExceeded, Recent, TypeOK
<1>6. ASSUME NEW t \in Task, BeginWritten(t) \/ BeginFails(t) PROVE TypeOK'
  <2>1. journal' \in Seq(Piece)
    BY <1>6, RecordTypes, AppendTypes DEF BeginWritten, BeginFails, Attempt, TypeOK
  <2>2. CASE BeginWritten(t)
    BY <2>1, <2>2 DEF BeginWritten, TypeOK, PC
  <2>3. CASE BeginFails(t)
    BY <2>1, <2>3, ReturnTypes DEF BeginFails, TypeOK
  <2>4. QED
    BY <1>6, <2>2, <2>3
<1>7. ASSUME NEW t \in Task, NEW ok \in BOOLEAN, Answered(t, ok),
             applied' \in {applied, applied \cup {InFlight(t)}}
      PROVE  TypeOK'
  <2>1. applied' \subseteq Slot
    BY <1>7, InFlightTypes DEF TypeOK
  <2>2. results' \in [Task -> Seq(BOOLEAN)]
    BY <1>7 DEF Answered, TypeOK
  <2>3. fails' \in [Task -> Nat] /\ pc' \in [Task -> PC]
    BY <1>7 DEF Answered, TypeOK, PC
  <2>4. QED
    BY <1>7, <2>1, <2>2, <2>3 DEF Answered, TypeOK
<1>8. ASSUME NEW t \in Task, RowAcked(t) \/ RowFails(t) PROVE TypeOK'
  BY <1>7, <1>8 DEF RowAcked, RowFails
<1>9. ASSUME NEW t \in Task, FinishWritten(t) \/ FinishFails(t) PROVE TypeOK'
  <2>1. journal' \in Seq(Piece)
    BY <1>9, RecordTypes, AppendTypes, AcksNat DEF FinishWritten, FinishFails, TypeOK
  <2>2. op[t] \in 1 .. ops
    BY <1>9 DEF FinishWritten, FinishFails, CallOK, TypeOK
  <2>3. QED
    <3>1. /\ Return(t) /\ UNCHANGED <<now, cfg, allow, times, ops, charged, applied>>
          /\ excused' \in {excused, excused \cup {op[t]}}
      BY <1>9 DEF FinishWritten, FinishFails, Finished
    <3>2. QED
      BY <2>1, <2>2, <3>1, ReturnTypes DEF TypeOK
<1>10. ASSUME NEW t \in Task, Abandon(t) PROVE TypeOK'
  <2>1. op[t] \in 1 .. ops
    BY <1>10 DEF Abandon, CallOK, TypeOK
  <2>2. applied' \subseteq Slot
    BY <1>10, InFlightTypes DEF Abandon, TypeOK
  <2>3. QED
    BY <1>10, <2>1, <2>2, ReturnTypes DEF Abandon, TypeOK
<1>11. CASE Restart
  <2>1. applied' \subseteq Slot
    BY <1>11, InFlightTypes DEF Restart, TypeOK
  <2>2. excused' \subseteq 1 .. ops
    <3>1. \A t \in Task : pc[t] # "idle" => op[t] \in 1 .. ops
      BY DEF CallOK, TypeOK
    <3>2. QED
      BY <1>11, <3>1 DEF Restart, TypeOK
  <2>3. /\ cfg' \in Settings /\ allow' \in BOOLEAN /\ (allow' => cfg'.allow)
        /\ times' = {} /\ charged' = {}
    BY <1>11, SettingsAssumption DEF Restart, Start
  <2>4. QED
    BY <1>11, <2>1, <2>2, <2>3 DEF Restart, TypeOK, PC, Tool
<1>12. CASE Tick
  BY <1>12 DEF Tick, TypeOK
<1>13. CASE UNCHANGED vars
  BY <1>13 DEF vars, TypeOK
<1>14. QED
  BY <1>1, <1>2, <1>3, <1>4, <1>5, <1>6, <1>8, <1>9, <1>10, <1>11, <1>12, <1>13, BulkAssumption
     DEF Next, Proceed, Quiet, Tool

-----------------------------------------------------------------------------
(***************************************************************************)
(* Calls and their operations.                                             *)
(***************************************************************************)
LEMMA ReturnFrame ==
  ASSUME TypeOK, NEW t \in Task, Return(t)
  PROVE  /\ pc'[t] = "idle" /\ op'[t] = 0 /\ results'[t] = <<>> /\ fails'[t] = 0
         /\ \A u \in Task \ {t} :
              /\ pc'[u] = pc[u] /\ op'[u] = op[u] /\ cost'[u] = cost[u]
              /\ results'[u] = results[u] /\ fails'[u] = fails[u]
  BY DEF TypeOK, Return, Goto

(* Any step of a call that only goes on to the next stage.                  *)
Moves(t) ==
  /\ UNCHANGED <<journal, ops, op, cost, results, fails, applied, excused>>
  /\ \/ /\ pc[t] \in {"fetch", "quota"} /\ Goto(t, IF pc[t] = "fetch" THEN "quota" ELSE "audit")
     \/ pc[t] = "send" /\ results[t] = <<>> /\ Goto(t, "finish")

(* Any step that ends a call, whatever it leaves on file.                   *)
Leaves(t) ==
  /\ pc[t] # "idle" /\ Return(t) /\ UNCHANGED ops

(* The steps, by what they do to the calls.                                 *)
LEMMA CallCases ==
  ASSUME [Next]_vars
  PROVE  \/ \E t \in Task, tl \in Tool, n \in Nat \ {0} : Call(t, tl, n)
         \/ \E t \in Task : BaseFound(t) \/ ReserveSlots(t) \/ NoQuota(t) \/ Refused(t)
         \/ \E t \in Task : BaseMissing(t) \/ QuotaExceeded(t)
         \/ \E t \in Task : BeginWritten(t) \/ BeginFails(t)
         \/ \E t \in Task : RowAcked(t) \/ RowFails(t)
         \/ \E t \in Task : FinishWritten(t) \/ FinishFails(t)
         \/ \E t \in Task : Abandon(t)
         \/ Restart \/ Tick \/ UNCHANGED vars
  BY BulkAssumption DEF Next, Proceed, Quiet, Tool

LEMMA MovesStep ==
  ASSUME NEW t \in Task, BaseFound(t) \/ ReserveSlots(t) \/ NoQuota(t) \/ Refused(t)
  PROVE  Moves(t)
  BY DEF BaseFound, ReserveSlots, NoQuota, Refused, Moves, Goto, history

LEMMA LeavesStep ==
  ASSUME NEW t \in Task,
         \/ BaseMissing(t) \/ QuotaExceeded(t) \/ BeginFails(t)
         \/ FinishWritten(t) \/ FinishFails(t) \/ Abandon(t)
  PROVE  Leaves(t)
  BY DEF BaseMissing, QuotaExceeded, BeginFails, FinishWritten, FinishFails, Finished, Abandon, Leaves

LEMMA AnswerEffect ==
  ASSUME TypeOK, NEW t \in Task, NEW ok \in BOOLEAN, Answered(t, ok)
  PROVE  LET n == IF ok THEN 0 ELSE fails[t] + 1 IN
         /\ results'[t] = Append(results[t], ok) /\ fails'[t] = n
         /\ Len(results'[t]) = Len(results[t]) + 1
         /\ \A i \in 1 .. Len(results[t]) : results'[t][i] = results[t][i]
         /\ results'[t][Len(results[t]) + 1] = ok
         /\ pc'[t] = IF Len(results[t]) + 1 = cost[t] \/ Aborts(n) THEN "finish" ELSE "send"
         /\ \A u \in Task \ {t} :
              pc'[u] = pc[u] /\ results'[u] = results[u] /\ fails'[u] = fails[u]
         /\ UNCHANGED <<ops, op, cost, journal, excused, charged, times, cfg, now>>
<1>1. results'[t] = Append(results[t], ok) /\ results[t] \in Seq(BOOLEAN)
  BY DEF Answered, TypeOK
<1>2. QED
  BY <1>1 DEF Answered, TypeOK, Goto, config

LEMMA CallStep == TypeOK /\ CallOK /\ [Next]_vars => CallOK'
<1> SUFFICES ASSUME TypeOK, CallOK, [Next]_vars PROVE CallOK'
  OBVIOUS
<1>1. ASSUME NEW t \in Task, NEW tl \in Tool, NEW n \in Nat \ {0}, Call(t, tl, n) PROVE CallOK'
  <2>1. /\ pc[t] = "idle" /\ pc'[t] \in {"fetch", "quota"} /\ ops \in Nat /\ ops' = ops + 1
        /\ op'[t] = ops + 1 /\ results' = results /\ fails' = fails
        /\ \A u \in Task \ {t} : pc'[u] = pc[u] /\ op'[u] = op[u] /\ cost'[u] = cost[u]
    BY <1>1 DEF Call, Goto, TypeOK
  <2>2. results[t] = <<>> /\ fails[t] = 0 /\ \A u \in Task : op[u] \in Nat /\ op[u] <= ops
    BY <2>1 DEF CallOK, TypeOK
  <2>3. \A u \in Task : op'[u] <= ops'
    BY <2>1, <2>2
  <2>4. \A u, v \in Task : op'[u] = op'[v] /\ op'[u] # 0 => u = v
    BY <2>1, <2>2 DEF CallOK
  <2>5. \A u \in Task : pc'[u] = "idle" <=> op'[u] = 0
    BY <2>1, <2>2 DEF CallOK
  <2>6. \A u \in Task : /\ pc'[u] \notin {"send", "finish"} => results'[u] = <<>> /\ fails'[u] = 0
                        /\ pc'[u] = "send" => Len(results'[u]) < cost'[u]
    BY <2>1, <2>2 DEF CallOK
  <2>7. QED
    BY <2>3, <2>4, <2>5, <2>6 DEF CallOK
<1>2. ASSUME NEW t \in Task, Moves(t) PROVE CallOK'
  BY <1>2 DEF Moves, Goto, CallOK, TypeOK
<1>3. ASSUME NEW t \in Task, Leaves(t) PROVE CallOK'
  <2>1. ASSUME NEW u \in Task, NEW v \in Task, op'[u] = op'[v], op'[u] # 0 PROVE u = v
    BY <1>3, <2>1, ReturnFrame DEF Leaves, CallOK
  <2>2. ops \in Nat
    BY DEF TypeOK
  <2>3. QED
    BY <1>3, <2>1, <2>2, ReturnFrame DEF Leaves, CallOK
<1>4. ASSUME NEW t \in Task, BeginWritten(t) PROVE CallOK'
  <2>1. results[t] = <<>> /\ cost[t] \in Nat \ {0}
    BY <1>4 DEF BeginWritten, CallOK, TypeOK
  <2>2. QED
    BY <1>4, <2>1 DEF BeginWritten, Goto, CallOK, TypeOK, history
<1>5. ASSUME NEW t \in Task, NEW ok \in BOOLEAN, pc[t] = "send", Answered(t, ok) PROVE CallOK'
  <2>1. Len(results[t]) < cost[t] /\ Len(results[t]) \in Nat /\ cost[t] \in Nat
    BY <1>5 DEF CallOK, TypeOK
  <2>2. QED
    BY <1>5, <2>1, AnswerEffect DEF CallOK
<1>6. CASE Restart
  BY <1>6 DEF Restart, CallOK, TypeOK
<1>7. CASE Tick \/ UNCHANGED vars
  BY <1>7 DEF Tick, vars, call, CallOK
<1>8. QED
  BY <1>1, <1>2, <1>3, <1>4, <1>5, <1>6, <1>7, CallCases, MovesStep, LeavesStep
     DEF RowAcked, RowFails, Sending

-----------------------------------------------------------------------------
(***************************************************************************)
(* When a bulk import ends.                                                *)
(***************************************************************************)
LEMMA TallyFrame ==
  ASSUME TypeOK, TallyOK, NEW t \in Task,
         \A u \in Task \ {t} : /\ pc'[u] = pc[u] /\ results'[u] = results[u]
                               /\ fails'[u] = fails[u] /\ cost'[u] = cost[u],
         results'[t] = <<>>, fails'[t] = 0
  PROVE  TallyOK'
<1>1. ASSUME NEW u \in Task \ {t}
      PROVE  /\ fails'[u] <= Len(results'[u])
             /\ \A i \in Len(results'[u]) - fails'[u] + 1 .. Len(results'[u]) : ~results'[u][i]
             /\ fails'[u] < Len(results'[u]) => results'[u][Len(results'[u]) - fails'[u]]
             /\ pc'[u] = "send" => fails'[u] < AbortAfter
             /\ pc'[u] = "finish" /\ results'[u] # <<>> /\ Len(results'[u]) < cost'[u] =>
                  fails'[u] >= AbortAfter
  BY DEF TallyOK
<1>2. Len(results'[t]) = 0 /\ fails'[t] = 0 /\ 0 < AbortAfter
  BY BulkAssumption
<1>3. QED
  BY <1>1, <1>2 DEF TallyOK

LEMMA TallyStep == TypeOK /\ CallOK /\ TallyOK /\ [Next]_vars => TallyOK'
<1> SUFFICES ASSUME TypeOK, CallOK, TallyOK, [Next]_vars PROVE TallyOK'
  OBVIOUS
<1>1. ASSUME NEW t \in Task, NEW tl \in Tool, NEW n \in Nat \ {0}, Call(t, tl, n) PROVE TallyOK'
  BY <1>1, TallyFrame DEF Call, Goto, CallOK, TypeOK
<1>2. ASSUME NEW t \in Task, Moves(t) PROVE TallyOK'
  <2>1. results[t] = <<>> /\ fails[t] = 0
    BY <1>2 DEF Moves, CallOK, TallyOK, TypeOK
  <2>2. QED
    BY <1>2, <2>1, TallyFrame DEF Moves, Goto, TypeOK
<1>3. ASSUME NEW t \in Task, Leaves(t) PROVE TallyOK'
  BY <1>3, ReturnFrame, TallyFrame DEF Leaves
<1>4. ASSUME NEW t \in Task, BeginWritten(t) PROVE TallyOK'
  BY <1>4, TallyFrame DEF BeginWritten, Goto, CallOK, TypeOK
<1>5. ASSUME NEW t \in Task, NEW ok \in BOOLEAN, pc[t] = "send", Answered(t, ok) PROVE TallyOK'
  <2> DEFINE L == Len(results[t])
             n == IF ok THEN 0 ELSE fails[t] + 1
  <2>1. /\ L \in Nat /\ fails[t] \in Nat /\ fails[t] <= L /\ L < cost[t] /\ cost[t] \in Nat
        /\ AbortAfter \in Nat \ {0}
    BY <1>5, BulkAssumption DEF CallOK, TallyOK, TypeOK
  <2>2. /\ Len(results'[t]) = L + 1 /\ fails'[t] = n
        /\ \A i \in 1 .. L : results'[t][i] = results[t][i]
        /\ results'[t][L + 1] = ok
        /\ pc'[t] = IF L + 1 = cost[t] \/ n >= AbortAfter THEN "finish" ELSE "send"
    BY <1>5, AnswerEffect DEF Aborts
  <2>3. /\ fails'[t] <= Len(results'[t])
        /\ pc'[t] = "send" => fails'[t] < AbortAfter
        /\ pc'[t] = "finish" /\ Len(results'[t]) < cost[t] => fails'[t] >= AbortAfter
    BY <2>1, <2>2
  <2>4. ASSUME NEW i \in Len(results'[t]) - fails'[t] + 1 .. Len(results'[t])
        PROVE  ~results'[t][i]
    <3>1. CASE ok
      BY <2>1, <2>2, <2>4, <3>1
    <3>2. CASE ~ok /\ i = L + 1
      BY <2>2, <3>2
    <3>3. CASE ~ok /\ i # L + 1
      <4> HIDE DEF L
      <4>0. n = fails[t] + 1
        BY <3>3
      <4>1. i \in L - fails[t] + 1 .. L /\ i \in 1 .. L
        BY <2>1, <2>2, <2>4, <3>3, <4>0
      <4>2. ~results[t][i]
        BY <4>1 DEF TallyOK, L
      <4>3. QED
        BY <2>2, <4>1, <4>2
    <3>4. QED
      BY <3>1, <3>2, <3>3
  <2>5. ASSUME fails'[t] < Len(results'[t])
        PROVE  results'[t][Len(results'[t]) - fails'[t]]
    <3>1. CASE ok
      <4> HIDE DEF L
      <4>1. n = 0
        BY <3>1
      <4>2. Len(results'[t]) - fails'[t] = L + 1
        BY <2>1, <2>2, <4>1
      <4>3. QED
        BY <2>2, <3>1, <4>2
    <3>2. CASE ~ok
      <4>1. fails[t] < L /\ L - fails[t] \in 1 .. L /\ Len(results'[t]) - fails'[t] = L - fails[t]
        BY <2>1, <2>2, <2>5, <3>2
      <4>2. results[t][L - fails[t]]
        BY <4>1 DEF TallyOK
      <4>3. QED
        BY <2>2, <4>1, <4>2
    <3>3. QED
      BY <3>1, <3>2
  <2>6. QED
    BY <1>5, <2>3, <2>4, <2>5, AnswerEffect DEF TallyOK
<1>6. CASE Restart
  BY <1>6, BulkAssumption DEF Restart, TallyOK, TypeOK
<1>7. CASE Tick \/ UNCHANGED vars
  BY <1>7 DEF Tick, vars, call, TallyOK
<1>8. QED
  BY <1>1, <1>2, <1>3, <1>4, <1>5, <1>6, <1>7, CallCases, MovesStep, LeavesStep
     DEF RowAcked, RowFails, Sending

(* The count is what the threshold asks about: the last rows, all failed.   *)
LEMMA TallyTells ==
  ASSUME TypeOK, TallyOK, NEW t \in Task
  PROVE  LastFailed(t) <=> fails[t] >= AbortAfter
<1> DEFINE L == Len(results[t])
<1>1. L \in Nat /\ fails[t] \in Nat /\ fails[t] <= L /\ AbortAfter \in Nat \ {0}
  BY BulkAssumption DEF TallyOK, TypeOK
<1>2. ASSUME fails[t] >= AbortAfter PROVE LastFailed(t)
  BY <1>1, <1>2 DEF LastFailed, TallyOK
<1>3. ASSUME fails[t] < AbortAfter, LastFailed(t) PROVE FALSE
  <2>1. L - fails[t] \in L - AbortAfter + 1 .. L /\ fails[t] < L
    BY <1>1, <1>3 DEF LastFailed
  <2>2. QED
    BY <1>3, <2>1 DEF LastFailed, TallyOK
<1>4. QED
  BY <1>1, <1>2, <1>3

LEMMA BulkStopsHere == ASSUME TypeOK, TallyOK PROVE BulkStops
<1>1. \A t \in Task : fails[t] \in Nat /\ AbortAfter \in Nat
  BY BulkAssumption DEF TypeOK
<1>2. QED
  BY <1>1, TallyTells DEF BulkStops, TallyOK

-----------------------------------------------------------------------------
(***************************************************************************)
(* The journal only grows, a piece at a time.                              *)
(***************************************************************************)
LEMMA AppendEffect ==
  ASSUME TypeOK, NEW p \in Piece, journal' = Append(journal, p)
  PROVE  /\ Len(journal') = Len(journal) + 1 /\ Len(journal) \in Nat
         /\ DOMAIN journal = 1 .. Len(journal) /\ DOMAIN journal' = 1 .. Len(journal) + 1
         /\ \A i \in DOMAIN journal : journal'[i] = journal[i]
         /\ journal'[Len(journal) + 1] = p
  BY DEF TypeOK

LEMMA FileGrows ==
  ASSUME TypeOK, NEW o, NEW phase,
         journal' = journal \/ \E p \in Piece : journal' = Append(journal, p)
  PROVE  OnFile(o, phase) => OnFile(o, phase)'
<1>1. ASSUME NEW p \in Piece, journal' = Append(journal, p), OnFile(o, phase)
      PROVE  OnFile(o, phase)'
  <2>1. PICK i \in DOMAIN journal :
          journal[i].whole /\ journal[i].op = o /\ journal[i].phase = phase
    BY <1>1 DEF OnFile
  <2>2. i \in DOMAIN journal' /\ journal'[i] = journal[i]
    BY <1>1, AppendEffect
  <2>3. QED
    BY <2>1, <2>2 DEF OnFile
<1>2. QED
  BY <1>1 DEF OnFile

LEMMA FileGains ==
  ASSUME TypeOK, NEW o, NEW phase, NEW p \in Piece, journal' = Append(journal, p)
  PROVE  OnFile(o, phase)' <=>
           OnFile(o, phase) \/ (p.whole /\ p.op = o /\ p.phase = phase)
<1>1. ASSUME OnFile(o, phase)'
      PROVE  OnFile(o, phase) \/ (p.whole /\ p.op = o /\ p.phase = phase)
  <2>1. PICK i \in DOMAIN journal' :
          journal'[i].whole /\ journal'[i].op = o /\ journal'[i].phase = phase
    BY <1>1 DEF OnFile
  <2>2. CASE i \in DOMAIN journal
    BY <2>1, <2>2, AppendEffect DEF OnFile
  <2>3. CASE i = Len(journal) + 1
    BY <2>1, <2>3, AppendEffect
  <2>4. QED
    BY <2>1, <2>2, <2>3, AppendEffect
<1>2. ASSUME p.whole /\ p.op = o /\ p.phase = phase PROVE OnFile(o, phase)'
  <2>1. Len(journal) + 1 \in DOMAIN journal' /\ journal'[Len(journal) + 1] = p
    BY AppendEffect
  <2>2. QED
    BY <1>2, <2>1 DEF OnFile
<1>3. QED
  BY <1>1, <1>2, FileGrows

(* What a call that is over leaves on file is about itself, and only a      *)
(* result is whole.                                                         *)
Leaving(t, p) ==
  /\ p \in Piece /\ journal' = Append(journal, p) /\ p.op = op[t]
  /\ p.phase = IF pc[t] = "finish" THEN "result" ELSE "attempt"
  /\ p.whole => pc[t] = "finish" /\ p.acks = Acks(t)

LEMMA LeavesFile ==
  ASSUME TypeOK, NEW t \in Task,
         \/ BaseMissing(t) \/ QuotaExceeded(t) \/ BeginFails(t)
         \/ FinishWritten(t) \/ FinishFails(t) \/ Abandon(t)
  PROVE  /\ journal' = journal \/ \E p : Leaving(t, p)
         /\ applied \subseteq applied'
         /\ excused' \in {excused, excused \cup {op[t]}}
         /\ \/ excused' = excused \cup {op[t]}
            \/ pc[t] = "finish" /\ \A o : o = op[t] => OnFile(o, "result")'
            \/ pc[t] \in {"fetch", "quota", "audit"}
<1>1. op[t] \in Nat /\ Acks(t) \in Nat
  BY AcksNat DEF TypeOK
<1>2. ASSUME NEW rec \in Piece, [rec EXCEPT !.whole = FALSE] \in Piece, AppendFails(rec), rec.op = op[t],
             rec.phase = IF pc[t] = "finish" THEN "result" ELSE "attempt"
      PROVE  journal' = journal \/ \E p : Leaving(t, p)
  <2>1. CASE journal' = journal
    BY <2>1
  <2>2. CASE Appended([rec EXCEPT !.whole = FALSE])
    <3>1. Leaving(t, [rec EXCEPT !.whole = FALSE])
      BY <1>2, <2>2 DEF Appended, Leaving, Piece
    <3>2. QED
      BY <3>1
  <2>3. QED
    BY <1>2, <2>1, <2>2 DEF AppendFails
<1>3. CASE BaseMissing(t) \/ QuotaExceeded(t) \/ Abandon(t)
  BY <1>3 DEF BaseMissing, QuotaExceeded, Abandon, history
<1>4. CASE BeginFails(t)
  <2>1. /\ Attempt(t) \in Piece /\ [Attempt(t) EXCEPT !.whole = FALSE] \in Piece
        /\ Attempt(t).op = op[t] /\ Attempt(t).phase = "attempt"
    BY <1>1, RecordTypes DEF Attempt, Record
  <2>2. journal' = journal \/ \E p : Leaving(t, p)
    BY <1>2, <1>4, <2>1 DEF BeginFails
  <2>3. QED
    BY <1>4, <2>2 DEF BeginFails, history
<1>5. DEFINE rec == Record(op[t], "result", Acks(t))
<1>6. /\ rec \in Piece /\ [rec EXCEPT !.whole = FALSE] \in Piece
      /\ rec.op = op[t] /\ rec.phase = "result" /\ rec.whole /\ rec.acks = Acks(t)
  BY <1>1, RecordTypes DEF Record
<1>7. CASE FinishWritten(t)
  <2>1. pc[t] = "finish" /\ journal' = Append(journal, rec)
    BY <1>7 DEF FinishWritten, Appended
  <2> HIDE DEF rec
  <2>2. Leaving(t, rec)
    BY <1>6, <2>1 DEF Leaving
  <2>3. ASSUME NEW o, o = op[t] PROVE OnFile(o, "result")'
    BY <1>6, <2>1, <2>3, FileGains
  <2>4. QED
    BY <1>7, <2>1, <2>2, <2>3 DEF FinishWritten, Finished
<1>8. CASE FinishFails(t)
  <2>1. journal' = journal \/ \E p : Leaving(t, p)
    BY <1>2, <1>6, <1>8 DEF FinishFails
  <2>2. QED
    BY <1>8, <2>1 DEF FinishFails, Finished
<1>9. QED
  BY <1>3, <1>4, <1>7, <1>8

LEMMA JournalStep == TypeOK /\ CallOK /\ JournalOK /\ [Next]_vars => JournalOK'
<1> SUFFICES ASSUME TypeOK, CallOK, JournalOK, [Next]_vars PROVE JournalOK'
  OBVIOUS
<1>0. ops \in Nat /\ op \in [Task -> Nat]
  BY DEF TypeOK
<1>1. ASSUME NEW t \in Task, NEW tl \in Tool, NEW n \in Nat \ {0}, Call(t, tl, n) PROVE JournalOK'
  <2>1. /\ journal' = journal /\ ops' = ops + 1 /\ op'[t] = ops + 1
        /\ pc'[t] \in {"fetch", "quota"}
        /\ \A u \in Task \ {t} : op'[u] = op[u] /\ pc'[u] = pc[u]
    BY <1>1 DEF Call, Goto, TypeOK
  <2>2. QED
    BY <1>0, <2>1 DEF JournalOK, OnFile
<1>2. ASSUME NEW t \in Task, Moves(t) PROVE JournalOK'
  <2>1. /\ UNCHANGED <<journal, ops, op>>
        /\ pc[t] \in {"fetch", "quota", "send"}
        /\ pc[t] = "fetch" => pc'[t] = "quota"
        /\ pc[t] = "quota" => pc'[t] = "audit"
        /\ pc[t] = "send" => pc'[t] = "finish"
        /\ \A u \in Task \ {t} : pc'[u] = pc[u]
    BY <1>2 DEF Moves, Goto, TypeOK
  <2>2. QED
    BY <2>1 DEF JournalOK, OnFile
<1>3. ASSUME NEW t \in Task, Leaves(t),
             journal' = journal \/ \E p \in Piece : p.op = op[t] /\ journal' = Append(journal, p)
      PROVE  JournalOK'
  <2>1. /\ pc'[t] = "idle" /\ ops' = ops /\ op[t] \in 1 .. ops
        /\ \A u \in Task \ {t} : op'[u] = op[u] /\ pc'[u] = pc[u]
    BY <1>0, <1>3, ReturnFrame DEF Leaves, CallOK
  <2>2. ASSUME NEW i \in DOMAIN journal' PROVE (i \in DOMAIN journal /\ journal'[i] = journal[i]) \/ journal'[i].op = op[t]
    BY <1>3, <2>2, AppendEffect
  <2>3. \A u \in Task \ {t} : pc[u] # "idle" => op[u] # op[t]
    BY <1>3 DEF Leaves, CallOK
  <2>4. \A i \in DOMAIN journal' : journal'[i].op \in 1 .. ops
    BY <2>1, <2>2 DEF JournalOK
  <2>5. ASSUME NEW u \in Task, pc'[u] # "idle"
        PROVE  /\ pc'[u] \in {"fetch", "quota", "audit"} =>
                    \A i \in DOMAIN journal' : journal'[i].op # op'[u]
               /\ pc'[u] \in {"send", "finish"} =>
                    /\ OnFile(op[u], "attempt")
                    /\ \A i \in DOMAIN journal' : journal'[i].op = op'[u] => journal'[i].phase # "result"
    <3>1. u # t /\ op'[u] = op[u] /\ pc'[u] = pc[u] /\ op[u] # op[t]
      BY <2>1, <2>3, <2>5
    <3>2. QED
      BY <2>2, <3>1 DEF JournalOK
  <2>6. ASSUME NEW u \in Task, pc'[u] \in {"send", "finish"} PROVE OnFile(op[u], "attempt")'
    <3>1. op'[u] = op[u]
      BY <2>1, <2>6
    <3>2. \A o : OnFile(o, "attempt") => OnFile(o, "attempt")'
      BY <1>3, FileGrows
    <3>3. QED
      BY <2>5, <2>6, <3>1, <3>2
  <2>7. QED
    BY <2>1, <2>4, <2>5, <2>6 DEF JournalOK
<1>4. ASSUME NEW t \in Task, BeginWritten(t) PROVE JournalOK'
  <2>1. /\ Attempt(t) \in Piece /\ Attempt(t).op = op[t] /\ Attempt(t).phase = "attempt"
        /\ Attempt(t).whole /\ journal' = Append(journal, Attempt(t))
    BY <1>0, <1>4, RecordTypes DEF Attempt, Record, BeginWritten, Appended
  <2>2. /\ pc[t] = "audit" /\ pc'[t] = "send" /\ ops' = ops /\ op' = op /\ op[t] \in 1 .. ops
        /\ \A u \in Task \ {t} : pc'[u] = pc[u]
    BY <1>0, <1>4 DEF BeginWritten, Goto, CallOK, TypeOK
  <2>3. ASSUME NEW i \in DOMAIN journal'
        PROVE  (i \in DOMAIN journal /\ journal'[i] = journal[i]) \/ (journal'[i].op = op[t] /\ journal'[i].phase = "attempt")
    BY <2>1, <2>3, AppendEffect
  <2>4. \A u \in Task \ {t} : pc[u] # "idle" => op[u] # op[t]
    BY <2>2 DEF CallOK
  <2>5. \A i \in DOMAIN journal' : journal'[i].op \in 1 .. ops
    BY <2>2, <2>3 DEF JournalOK
  <2>6. \A o : OnFile(o, "attempt") => OnFile(o, "attempt")'
    BY <2>1, FileGrows
  <2>7. \A o : o = op[t] => OnFile(o, "attempt")'
    BY <2>1, FileGains
  <2>8. ASSUME NEW u \in Task, pc'[u] \in {"send", "finish"} PROVE OnFile(op[u], "attempt")'
    BY <2>2, <2>6, <2>7, <2>8 DEF JournalOK
  <2>9. ASSUME NEW u \in Task, pc'[u] \in {"send", "finish"}, NEW i \in DOMAIN journal', journal'[i].op = op[u]
        PROVE  journal'[i].phase # "result"
    BY <2>2, <2>3, <2>4, <2>9 DEF JournalOK
  <2>10. ASSUME NEW u \in Task, pc'[u] \in {"fetch", "quota", "audit"}, NEW i \in DOMAIN journal'
        PROVE  journal'[i].op # op[u]
    BY <2>2, <2>3, <2>4, <2>10 DEF JournalOK
  <2>11. QED
    BY <2>2, <2>5, <2>8, <2>9, <2>10 DEF JournalOK
<1>5. ASSUME NEW t \in Task, NEW ok \in BOOLEAN, pc[t] = "send", Answered(t, ok) PROVE JournalOK'
  BY <1>5, AnswerEffect DEF JournalOK, OnFile
<1>6. CASE Restart
  BY <1>6 DEF Restart, JournalOK
<1>7. CASE Tick \/ UNCHANGED vars
  BY <1>7 DEF Tick, vars, call, JournalOK, OnFile
<1>8. ASSUME NEW t \in Task,
             \/ BaseMissing(t) \/ QuotaExceeded(t) \/ BeginFails(t)
             \/ FinishWritten(t) \/ FinishFails(t) \/ Abandon(t)
      PROVE  JournalOK'
  BY <1>3, <1>8, LeavesStep, LeavesFile DEF Leaving
<1>9. QED
  BY <1>1, <1>2, <1>4, <1>5, <1>6, <1>7, <1>8, CallCases, MovesStep
     DEF RowAcked, RowFails, Sending

(* Nothing that is on file goes from it.                                    *)
LEMMA FileStays ==
  ASSUME TypeOK, [Next]_vars, NEW o, NEW phase, OnFile(o, phase)
  PROVE  OnFile(o, phase)'
<1>1. ASSUME journal' = journal \/ \E p \in Piece : journal' = Append(journal, p)
      PROVE  OnFile(o, phase)'
  BY <1>1, FileGrows
<1>2. ASSUME NEW t \in Task, BeginWritten(t) PROVE OnFile(o, phase)'
  BY <1>1, <1>2, RecordTypes DEF BeginWritten, Appended, Attempt, TypeOK
<1>3. ASSUME NEW t \in Task,
             \/ BaseMissing(t) \/ QuotaExceeded(t) \/ BeginFails(t)
             \/ FinishWritten(t) \/ FinishFails(t) \/ Abandon(t)
      PROVE  OnFile(o, phase)'
  BY <1>1, <1>3, LeavesFile DEF Leaving
<1>4. ASSUME NEW t \in Task, NEW tl \in Tool, NEW n \in Nat \ {0}, Call(t, tl, n) PROVE journal' = journal
  BY <1>4 DEF Call
<1>5. ASSUME NEW t \in Task, RowAcked(t) \/ RowFails(t) PROVE journal' = journal
  BY <1>5 DEF RowAcked, RowFails, Answered
<1>6. ASSUME Restart \/ Tick \/ UNCHANGED vars PROVE journal' = journal
  BY <1>6 DEF Restart, Tick, vars
<1>7. QED
  BY <1>1, <1>2, <1>3, <1>4, <1>5, <1>6, CallCases, MovesStep DEF Moves

-----------------------------------------------------------------------------
(***************************************************************************)
(* The ledger has what was acknowledged, and nothing that was not          *)
(* attempted.                                                              *)
(***************************************************************************)

(* A mutation can only land while its row is being sent.                    *)
LEMMA AppliedGains ==
  ASSUME TypeOK, CallOK, [Next]_vars
  PROVE  /\ applied \subseteq applied'
         /\ \A m \in applied' \ applied : \E t \in Task : pc[t] = "send" /\ m = InFlight(t)
<1>1. ASSUME NEW t \in Task, NEW tl \in Tool, NEW n \in Nat \ {0}, Call(t, tl, n) PROVE applied' = applied
  BY <1>1 DEF Call, history
<1>2. ASSUME NEW t \in Task, BeginWritten(t) \/ BeginFails(t) \/ BaseMissing(t) \/ QuotaExceeded(t)
                             \/ FinishWritten(t) \/ FinishFails(t)
      PROVE  applied' = applied
  BY <1>2 DEF BeginWritten, BeginFails, BaseMissing, QuotaExceeded, FinishWritten, FinishFails,
     Finished, history
<1>3. ASSUME NEW t \in Task, RowAcked(t) \/ RowFails(t) \/ Abandon(t)
      PROVE  applied' = applied \/ (pc[t] = "send" /\ applied' = applied \cup {InFlight(t)})
  BY <1>3 DEF RowAcked, RowFails, Abandon, Sending
<1>4. CASE Restart
  <2>1. PICK Landed \in SUBSET {t \in Task : Sending(t)} :
          applied' = applied \cup {InFlight(t) : t \in Landed}
    BY <1>4 DEF Restart
  <2>2. QED
    BY <2>1 DEF Sending
<1>5. ASSUME Tick \/ UNCHANGED vars PROVE applied' = applied
  BY <1>5 DEF Tick, vars, history
<1>6. QED
  BY <1>1, <1>2, <1>3, <1>4, <1>5, CallCases, MovesStep DEF Moves

LEMMA TakenFinite ==
  ASSUME TypeOK, CallOK, AppliedOK, [Next]_vars, NEW o \in Nat
  PROVE  IsFiniteSet(Taken(o)) /\ IsFiniteSet(Taken(o)')
<1>1. IsFiniteSet(Taken(o))
  BY DEF AppliedOK
<1>2. CASE \E t \in Task : pc[t] = "send" /\ op[t] = o
  <2>1. PICK t \in Task : pc[t] = "send" /\ op[t] = o
    BY <1>2
  <2>2. ASSUME NEW u \in Task, pc[u] = "send", InFlight(u).op = o PROVE u = t
    BY <2>1, <2>2 DEF CallOK, InFlight
  <2>3. Taken(o)' \subseteq Taken(o) \cup {InFlight(t)}
    BY <2>2, AppliedGains DEF Taken
  <2>4. IsFiniteSet(Taken(o) \cup {InFlight(t)})
    BY <1>1, FS_AddElement
  <2>5. QED
    BY <1>1, <2>3, <2>4, FS_Subset
<1>3. CASE ~\E t \in Task : pc[t] = "send" /\ op[t] = o
  <2>1. Taken(o)' \subseteq Taken(o)
    BY <1>3, AppliedGains DEF Taken, InFlight
  <2>2. QED
    BY <1>1, <2>1, FS_Subset
<1>4. QED
  BY <1>2, <1>3

LEMMA AppliedStep ==
  ASSUME TypeOK, CallOK, JournalOK, AppliedOK, [Next]_vars
  PROVE  AppliedOK'
<1>1. \A m \in applied' : OnFile(m.op, "attempt")
  <2>1. \A t \in Task : pc[t] = "send" => OnFile(InFlight(t).op, "attempt")
    BY DEF JournalOK, InFlight
  <2>2. QED
    BY <2>1, AppliedGains DEF AppliedOK
<1>2. \A m \in applied' : OnFile(m.op, "attempt")'
  <2>1. \A o : OnFile(o, "attempt") => OnFile(o, "attempt")'
    BY FileStays
  <2>2. \A m : m \in applied' => OnFile(m.op, "attempt")'
    BY <1>1, <2>1
  <2>3. QED
    BY <2>2
<1>3. \A o \in Nat : IsFiniteSet(Taken(o)')
  BY TakenFinite
<1>4. ASSUME NEW u \in Task, NEW i \in DOMAIN results'[u], results'[u][i]
      PROVE  \E m \in applied' : m.op = op'[u] /\ m.row = i
  <2>1. CASE results'[u] = results[u] /\ (op'[u] = op[u] \/ results[u] = <<>>)
    BY <1>4, <2>1, AppliedGains DEF AppliedOK
  <2>2. CASE results'[u] = <<>>
    BY <1>4, <2>2
  <2>3. ASSUME NEW t \in Task, NEW ok \in BOOLEAN, Answered(t, ok),
               ok => InFlight(t) \in applied'
        PROVE  \E m \in applied' : m.op = op'[u] /\ m.row = i
    <3>1. CASE u # t
      BY <2>1, <2>3, <3>1, AnswerEffect
    <3>2. CASE u = t
      <4>0. results[t] \in Seq(BOOLEAN) /\ Len(results[t]) \in Nat
        BY DEF TypeOK
      <4>1. /\ Len(results'[t]) = Len(results[t]) + 1 /\ op' = op
            /\ \A j \in 1 .. Len(results[t]) : results'[t][j] = results[t][j]
            /\ results'[t][Len(results[t]) + 1] = ok
            /\ results'[t] = Append(results[t], ok)
        BY <2>3, AnswerEffect
      <4>2. i \in 1 .. Len(results[t]) + 1
        BY <1>4, <3>2, <4>0, <4>1
      <4>3. CASE i = Len(results[t]) + 1
        BY <1>4, <2>3, <3>2, <4>1, <4>3 DEF InFlight
      <4>4. CASE i # Len(results[t]) + 1
        <5>1. i \in DOMAIN results[t] /\ results[t][i]
          BY <1>4, <3>2, <4>0, <4>1, <4>2, <4>4
        <5>2. QED
          BY <3>2, <4>1, <5>1, AppliedGains DEF AppliedOK
      <4>5. QED
        BY <4>3, <4>4
    <3>3. QED
      BY <3>1, <3>2
  <2>4. ASSUME NEW t \in Task, RowAcked(t) \/ RowFails(t)
        PROVE \E m \in applied' : m.op = op'[u] /\ m.row = i
    BY <2>3, <2>4 DEF RowAcked, RowFails
  <2>5. ASSUME NEW t \in Task, Leaves(t) PROVE \E m \in applied' : m.op = op'[u] /\ m.row = i
    BY <2>1, <2>2, <2>5, ReturnFrame DEF Leaves
  <2>6. ASSUME NEW t \in Task, NEW tl \in Tool, NEW n \in Nat \ {0}, Call(t, tl, n)
        PROVE  \E m \in applied' : m.op = op'[u] /\ m.row = i
    BY <2>1, <2>6 DEF Call, CallOK, TypeOK
  <2>7. ASSUME NEW t \in Task, Moves(t) \/ BeginWritten(t)
        PROVE  \E m \in applied' : m.op = op'[u] /\ m.row = i
    BY <2>1, <2>7 DEF Moves, BeginWritten
  <2>8. CASE Restart
    BY <2>2, <2>8 DEF Restart
  <2>9. CASE Tick \/ UNCHANGED vars
    BY <2>1, <2>9 DEF Tick, vars, call
  <2>10. QED
    BY <2>4, <2>5, <2>6, <2>7, <2>8, <2>9, CallCases, MovesStep, LeavesStep
<1>5. QED
  BY <1>2, <1>3, <1>4 DEF AppliedOK

-----------------------------------------------------------------------------
(***************************************************************************)
(* Results and answers.                                                    *)
(***************************************************************************)

(* What an import counts as acknowledged, the ledger has taken.             *)
LEMMA AcksTaken ==
  ASSUME TypeOK, AppliedOK, NEW t \in Task
  PROVE  Acks(t) <= Cardinality(Taken(op[t]))
<1> DEFINE S == {i \in 1 .. Len(results[t]) : results[t][i]}
           f == [i \in S |-> CHOOSE m \in Taken(op[t]) : m.row = i]
<1>1. ASSUME NEW i \in S PROVE f[i] \in Taken(op[t]) /\ f[i].row = i
  <2>1. i \in DOMAIN results[t] /\ results[t][i]
    BY DEF TypeOK
  <2>2. \E m \in Taken(op[t]) : m.row = i
    BY <2>1 DEF AppliedOK, Taken
  <2>3. QED
    BY <2>2
<1>2. f \in Injection(S, Taken(op[t]))
  <2>1. f \in [S -> Taken(op[t])]
    BY <1>1
  <2>2. \A a, b \in S : f[a] = f[b] => a = b
    BY <1>1
  <2> HIDE DEF S, f
  <2>3. QED
    BY <2>1, <2>2 DEF Injection, IsInjective
<1>3. IsFiniteSet(Taken(op[t]))
  BY DEF AppliedOK, TypeOK
<1>4. Cardinality(S) <= Cardinality(Taken(op[t]))
  <2> HIDE DEF S, f
  <2>1. QED
    BY <1>2, <1>3, FS_Injection
<1>5. QED
  BY <1>4 DEF Acks

LEMMA ResultsStep ==
  ASSUME TypeOK, CallOK, JournalOK, AppliedOK, AppliedOK', ResultsOK, [Next]_vars
  PROVE  ResultsOK'
<1>1. ASSUME NEW o \in Nat PROVE Cardinality(Taken(o)) <= Cardinality(Taken(o)')
  <2>1. IsFiniteSet(Taken(o)')
    BY TakenFinite
  <2>2. Taken(o) \subseteq Taken(o)'
    BY AppliedGains DEF Taken
  <2>3. QED
    BY <2>1, <2>2, FS_Subset
<1>2. ASSUME NEW o \in Nat
      PROVE  Cardinality(Taken(o)) \in Nat /\ Cardinality(Taken(o)') \in Nat
  BY TakenFinite, FS_CardinalityType
<1>3. ASSUME NEW i \in DOMAIN journal PROVE journal[i].op \in Nat /\ journal[i].acks \in Nat
  <2>1. journal[i] \in Piece
    BY DEF TypeOK
  <2>2. QED
    BY <2>1 DEF Piece
<1> DEFINE Took(o) == {m \in applied' : m.op = o}
<1>4. \A o \in Nat : Cardinality(Taken(o)) <= Cardinality(Took(o))
  BY <1>1 DEF Taken
<1>5. \A o \in Nat : Cardinality(Taken(o)) \in Nat /\ Cardinality(Took(o)) \in Nat
  BY <1>2 DEF Taken
<1> DEFINE Borne(i) == /\ \E j \in 1 .. i - 1 : /\ journal'[j].whole /\ journal'[j].op = journal'[i].op
                                                 /\ journal'[j].phase = "attempt"
                       /\ \A j \in 1 .. i - 1 : journal'[j] # journal'[i]
                       /\ journal'[i].acks <= Cardinality(Took(journal'[i].op))
<1>6. SUFFICES ASSUME NEW i \in DOMAIN journal', journal'[i].whole, journal'[i].phase = "result"
               PROVE  Borne(i)
  BY DEF ResultsOK, Taken
<1> HIDE DEF Took
<1>7. DOMAIN journal = 1 .. Len(journal) /\ Len(journal) \in Nat
  BY DEF TypeOK
<1>8. ASSUME i \in DOMAIN journal, journal'[i] = journal[i],
             \A j \in 1 .. i - 1 : journal'[j] = journal[j]
      PROVE  Borne(i)
  <2>1. journal[i].acks <= Cardinality(Taken(journal[i].op))
    BY <1>6, <1>8 DEF ResultsOK
  <2>2. journal[i].acks <= Cardinality(Took(journal[i].op))
    BY <1>3, <1>4, <1>5, <1>8, <2>1
  <2>3. QED
    BY <1>6, <1>8, <2>2 DEF ResultsOK
<1>9. CASE journal' = journal
  BY <1>6, <1>7, <1>8, <1>9
<1>10. ASSUME NEW t \in Task, NEW p, Leaving(t, p) PROVE Borne(i)
  <2>1. /\ p \in Piece /\ journal' = Append(journal, p) /\ p.op = op[t]
        /\ p.whole => pc[t] = "finish" /\ p.acks = Acks(t)
    BY <1>10 DEF Leaving
  <2>2. CASE i \in DOMAIN journal
    <3>1. journal'[i] = journal[i] /\ \A j \in 1 .. i - 1 : journal'[j] = journal[j]
      BY <1>7, <2>1, <2>2, AppendEffect
    <3>2. QED
      BY <1>8, <2>2, <3>1
  <2>3. CASE i = Len(journal) + 1
    <3>1. journal'[i] = p /\ \A j \in 1 .. i - 1 : j \in DOMAIN journal /\ journal'[j] = journal[j]
      BY <1>7, <2>1, <2>3, AppendEffect
    <3>2. pc[t] = "finish" /\ p.acks = Acks(t) /\ op[t] \in Nat /\ Acks(t) \in Nat
      BY <1>6, <2>1, <3>1, AcksNat DEF TypeOK
    <3>3. p.acks <= Cardinality(Took(p.op))
      <4>1. Acks(t) <= Cardinality(Taken(op[t]))
        BY AcksTaken
      <4>2. Cardinality(Taken(op[t])) <= Cardinality(Took(op[t]))
        BY <1>4, <3>2
      <4>3. Cardinality(Taken(op[t])) \in Nat /\ Cardinality(Took(op[t])) \in Nat
        BY <1>5, <3>2
      <4>4. QED
        BY <2>1, <3>2, <4>1, <4>2, <4>3
    <3>4. PICK j \in DOMAIN journal : /\ journal[j].whole /\ journal[j].op = op[t]
                                      /\ journal[j].phase = "attempt"
      BY <3>2 DEF JournalOK, OnFile
    <3>5. \A k \in DOMAIN journal : journal[k] # p
      BY <1>6, <2>1, <3>1, <3>2 DEF JournalOK
    <3>6. j \in 1 .. i - 1
      BY <1>7, <2>3
    <3>7. QED
      BY <2>1, <3>1, <3>3, <3>4, <3>5, <3>6
  <2>4. i \in DOMAIN journal \/ i = Len(journal) + 1
    BY <1>6, <2>1, AppendEffect
  <2>5. QED
    BY <2>2, <2>3, <2>4
<1>11. ASSUME NEW t \in Task, BeginWritten(t) PROVE Borne(i)
  <2>1. /\ Attempt(t) \in Piece /\ Attempt(t).phase = "attempt" /\ journal' = Append(journal, Attempt(t))
    BY <1>11, RecordTypes DEF Attempt, Record, BeginWritten, Appended, TypeOK
  <2>2. i \in DOMAIN journal
    BY <1>6, <2>1, AppendEffect
  <2>3. journal'[i] = journal[i] /\ \A j \in 1 .. i - 1 : journal'[j] = journal[j]
    BY <1>7, <2>1, <2>2, AppendEffect
  <2>4. QED
    BY <1>8, <2>2, <2>3
<1>12. ASSUME NEW t \in Task, NEW tl \in Tool, NEW n \in Nat \ {0}, Call(t, tl, n) PROVE Borne(i)
  BY <1>9, <1>12 DEF Call
<1>13. ASSUME NEW t \in Task, RowAcked(t) \/ RowFails(t) PROVE Borne(i)
  BY <1>9, <1>13 DEF RowAcked, RowFails, Answered
<1>14. ASSUME NEW t \in Task, Moves(t) PROVE Borne(i)
  BY <1>9, <1>14 DEF Moves
<1>15. ASSUME NEW t \in Task,
              \/ BaseMissing(t) \/ QuotaExceeded(t) \/ BeginFails(t)
              \/ FinishWritten(t) \/ FinishFails(t) \/ Abandon(t)
      PROVE  Borne(i)
  BY <1>9, <1>10, <1>15, LeavesFile
<1>16. CASE Restart \/ Tick \/ UNCHANGED vars
  BY <1>9, <1>16 DEF Restart, Tick, vars
<1> HIDE DEF Borne
<1>17. QED
  BY <1>11, <1>12, <1>13, <1>14, <1>15, <1>16, CallCases, MovesStep

LEMMA AnsweredStep ==
  ASSUME TypeOK, CallOK, JournalOK, AnsweredOK, [Next]_vars
  PROVE  AnsweredOK'
<1> DEFINE Settled(o) == \/ OnFile(o, "result")' \/ o \in excused' \/ \E t \in Task : op'[t] = o
<1>1. ops \in Nat /\ excused \subseteq excused'
  <2>1. ops \in Nat
    BY DEF TypeOK
  <2>2. ASSUME NEW t \in Task, NEW tl \in Tool, NEW n \in Nat \ {0}, Call(t, tl, n) PROVE excused' = excused
    BY <2>2 DEF Call, history
  <2>3. ASSUME NEW t \in Task, Moves(t) \/ BeginWritten(t) PROVE excused' = excused
    BY <2>3 DEF Moves, BeginWritten, history
  <2>4. ASSUME NEW t \in Task, RowAcked(t) \/ RowFails(t) PROVE excused' = excused
    BY <2>4 DEF RowAcked, RowFails, Answered
  <2>5. ASSUME Restart \/ Tick \/ UNCHANGED vars PROVE excused \subseteq excused'
    BY <2>5 DEF Restart, Tick, vars, history
  <2>6. QED
    BY <2>1, <2>2, <2>3, <2>4, <2>5, CallCases, MovesStep, LeavesFile
(* What was settled stays so, but for the call a step ends.                 *)
<1>2. ASSUME NEW o \in 1 .. ops, OnFile(o, "attempt"),
             \A t \in Task : op[t] = o => op'[t] = o
      PROVE  Settled(o)
  BY <1>1, <1>2, FileStays DEF AnsweredOK
<1>3. ASSUME journal' = journal, ops' = ops, \A t \in Task : op[t] # 0 => op'[t] = op[t]
      PROVE  AnsweredOK'
  BY <1>1, <1>2, <1>3 DEF AnsweredOK, OnFile
<1>4. ASSUME NEW t \in Task, NEW tl \in Tool, NEW n \in Nat \ {0}, Call(t, tl, n) PROVE AnsweredOK'
  <2>1. /\ journal' = journal /\ ops' = ops + 1 /\ op'[t] = ops + 1
        /\ \A u \in Task : op[u] # 0 => op'[u] = op[u]
    BY <1>4 DEF Call, CallOK, TypeOK
  <2>2. ASSUME NEW o \in 1 .. ops + 1, OnFile(o, "attempt")' PROVE Settled(o)
    <3>1. CASE o = ops + 1
      BY <2>1, <3>1
    <3>2. CASE o \in 1 .. ops
      BY <1>2, <2>1, <2>2, <3>2 DEF OnFile
    <3>3. QED
      BY <1>1, <3>1, <3>2
  <2>3. QED
    BY <2>1, <2>2 DEF AnsweredOK
<1>5. ASSUME NEW t \in Task, Moves(t) PROVE AnsweredOK'
  BY <1>3, <1>5 DEF Moves
<1>6. ASSUME NEW t \in Task, RowAcked(t) \/ RowFails(t) PROVE AnsweredOK'
  BY <1>3, <1>6 DEF RowAcked, RowFails, Answered
<1>7. ASSUME Tick \/ UNCHANGED vars PROVE AnsweredOK'
  BY <1>3, <1>7 DEF Tick, vars, call
<1>8. CASE Restart
  <2>1. \A u \in Task : op[u] # 0 => op[u] \in excused'
    BY <1>8 DEF Restart, CallOK
  <2>2. journal' = journal /\ ops' = ops
    BY <1>8 DEF Restart
  <2>3. ASSUME NEW o \in 1 .. ops, OnFile(o, "attempt") PROVE OnFile(o, "result") \/ o \in excused'
    BY <1>1, <2>1, <2>3 DEF AnsweredOK
  <2>4. QED
    BY <2>2, <2>3 DEF AnsweredOK, OnFile
<1>9. ASSUME NEW t \in Task, BeginWritten(t) PROVE AnsweredOK'
  <2>1. /\ Attempt(t) \in Piece /\ Attempt(t).op = op[t] /\ journal' = Append(journal, Attempt(t))
        /\ op' = op /\ ops' = ops
    BY <1>9, RecordTypes DEF Attempt, Record, BeginWritten, Appended, TypeOK
  <2>2. ASSUME NEW o \in 1 .. ops, OnFile(o, "attempt")' PROVE Settled(o)
    <3>1. OnFile(o, "attempt") \/ op[t] = o
      BY <2>1, <2>2, FileGains
    <3>2. QED
      BY <1>2, <2>1, <3>1
  <2>3. QED
    BY <2>1, <2>2 DEF AnsweredOK
<1>10. ASSUME NEW t \in Task,
              \/ BaseMissing(t) \/ QuotaExceeded(t) \/ BeginFails(t)
              \/ FinishWritten(t) \/ FinishFails(t) \/ Abandon(t)
       PROVE  AnsweredOK'
  <2>1. Leaves(t) /\ ops' = ops
    BY <1>10, LeavesStep DEF Leaves
  <2>2. \A u \in Task \ {t} : op'[u] = op[u]
    BY <2>1, ReturnFrame DEF Leaves
  <2>3. ASSUME NEW o \in 1 .. ops, OnFile(o, "attempt")'
        PROVE  OnFile(o, "attempt") \/ (o = op[t] /\ pc[t] = "finish")
    <3>1. journal' = journal \/ \E p : Leaving(t, p)
      BY <1>10, LeavesFile
    <3>2. CASE journal' = journal
      BY <2>3, <3>2 DEF OnFile
    <3>3. ASSUME NEW p, Leaving(t, p) PROVE OnFile(o, "attempt") \/ (o = op[t] /\ pc[t] = "finish")
      BY <2>3, <3>3, FileGains DEF Leaving
    <3>4. QED
      BY <3>1, <3>2, <3>3
  <2>4. ASSUME NEW o \in 1 .. ops, OnFile(o, "attempt")' PROVE Settled(o)
    <3>1. CASE o # op[t]
      BY <1>2, <2>2, <2>3, <2>4, <3>1
    <3>2. CASE o = op[t]
      <4>1. ~(pc[t] \in {"fetch", "quota", "audit"} /\ OnFile(o, "attempt"))
        BY <3>2 DEF JournalOK, OnFile
      <4>2. ~(pc[t] \in {"fetch", "quota", "audit"})
        BY <2>3, <2>4, <4>1
      <4>3. \/ excused' = excused \cup {op[t]}
            \/ \A q : q = op[t] => OnFile(q, "result")'
        BY <1>10, <4>2, LeavesFile
      <4>4. QED
        BY <3>2, <4>3
    <3>3. QED
      BY <3>1, <3>2
  <2>5. QED
    BY <2>1, <2>4 DEF AnsweredOK
<1>11. QED
  BY <1>4, <1>5, <1>6, <1>7, <1>8, <1>9, <1>10, CallCases, MovesStep

-----------------------------------------------------------------------------
(***************************************************************************)
(* The quota.                                                              *)
(***************************************************************************)
Within(C, n) == {s \in C : s.at <= n /\ n - s.at < Window}

(* A call reserves as many slots as it asks mutations.                      *)
LEMMA SlotsCount ==
  ASSUME TypeOK, NEW t \in Task
  PROVE  IsFiniteSet(Slots(t)) /\ Cardinality(Slots(t)) <= cost[t]
<1> DEFINE f == [i \in 1 .. cost[t] |-> [op |-> op[t], row |-> i, at |-> now]]
<1>1. cost[t] \in Nat \ {0}
  BY DEF TypeOK
<1>2. f \in [1 .. cost[t] -> Slots(t)]
  BY DEF Slots
<1>3. ASSUME NEW s \in Slots(t) PROVE \E i \in 1 .. cost[t] : f[i] = s
  <2>1. s = [op |-> op[t], row |-> s.row, at |-> now] /\ s.row \in 1 .. cost[t]
    BY DEF Slots
  <2>2. f[s.row] = s
    BY <2>1
  <2>3. QED
    BY <2>1, <2>2
<1>4. IsFiniteSet(1 .. cost[t]) /\ Cardinality(1 .. cost[t]) = cost[t]
  <2>1. 1 \in Int /\ cost[t] \in Int
    BY <1>1
  <2>2. /\ IsFiniteSet(1 .. cost[t])
        /\ Cardinality(1 .. cost[t]) = IF 1 > cost[t] THEN 0 ELSE cost[t] - 1 + 1
    BY <2>1, FS_Interval
  <2>3. QED
    BY <1>1, <2>2
<1> HIDE DEF f
<1>5. f \in Surjection(1 .. cost[t], Slots(t))
  BY <1>2, <1>3 DEF Surjection
<1>6. QED
  BY <1>4, <1>5, FS_Surjection

LEMMA QuotaFrame ==
  ASSUME QuotaOK, UNCHANGED <<now, cfg, charged>>, times' \in {times, Recent},
         \A u \in Task : pc'[u] \in {"audit", "send", "finish"} =>
           /\ pc[u] \in {"audit", "send", "finish"} \/ cfg.quota = 0
           /\ op'[u] = op[u] /\ cost'[u] = cost[u]
  PROVE  QuotaOK'
<1>1. \A s \in charged : now - s.at < Window => s \in times'
  BY DEF QuotaOK, Recent
<1>2. times' \subseteq charged
  BY DEF QuotaOK, Recent
<1>3. ASSUME cfg.quota > 0, NEW t \in Task, pc'[t] \in {"audit", "send", "finish"},
             NEW i \in 1 .. cost'[t]
      PROVE  \E s \in charged : s.op = op'[t] /\ s.row = i
  <2>1. cfg.quota # 0
    BY <1>3
  <2>2. /\ pc[t] \in {"audit", "send", "finish"} /\ op'[t] = op[t] /\ cost'[t] = cost[t]
    BY <1>3, <2>1
  <2>3. QED
    BY <1>3, <2>2 DEF QuotaOK
<1>4. QED
  BY <1>1, <1>2, <1>3 DEF QuotaOK

LEMMA ReserveStep ==
  ASSUME TypeOK, CallOK, QuotaOK, NEW t \in Task, ReserveSlots(t)
  PROVE  QuotaOK'
<1> DEFINE S == Slots(t)
<1>1. /\ pc[t] = "quota" /\ cfg.quota > 0 /\ Fits(t) /\ times' = Recent \cup S
      /\ charged' = charged \cup S /\ pc' = [pc EXCEPT ![t] = "audit"]
      /\ now' = now /\ cfg' = cfg /\ op' = op /\ cost' = cost
  BY DEF ReserveSlots, Goto, config
<1>2. /\ now \in Nat /\ Window \in Nat \ {0} /\ cost[t] \in Nat /\ cfg.quota \in Nat
      /\ \A s \in charged : s.at \in Nat
  BY QuotaAssumption, CfgTypes DEF TypeOK, Slot
<1>3. \A s \in S : s.at = now /\ s.op = op[t]
  BY DEF Slots
<1>4. IsFiniteSet(S) /\ Cardinality(S) <= cost[t] /\ Cardinality(S) \in Nat
  BY SlotsCount, FS_CardinalityType
<1>5. IsFiniteSet(charged \cup S)
  BY <1>4, FS_Union DEF QuotaOK
<1>6. Recent \subseteq charged /\ IsFiniteSet(Recent)
  <2>1. Recent \subseteq charged
    BY DEF Recent, QuotaOK
  <2>2. QED
    BY <2>1, FS_Subset DEF QuotaOK
<1>7. IsFiniteSet(Recent \cup S) /\ Cardinality(Recent \cup S) <= cfg.quota
  <2>1. /\ IsFiniteSet(Recent \cup S)
        /\ Cardinality(Recent \cup S)
             = Cardinality(Recent) + Cardinality(S) - Cardinality(Recent \cap S)
    BY <1>4, <1>6, FS_Union
  <2>2. IsFiniteSet(Recent \cap S)
    BY <1>4, FS_Subset
  <2>3. Cardinality(Recent) \in Nat /\ Cardinality(Recent \cap S) \in Nat
    BY <1>6, <2>2, FS_CardinalityType
  <2>4. Cardinality(Recent) + cost[t] <= cfg.quota
    BY <1>1 DEF Fits
  <2> HIDE DEF S
  <2>5. QED
    BY <1>2, <1>4, <2>1, <2>3, <2>4
<1> HIDE DEF S
<1>8. ASSUME NEW n \in 0 .. now PROVE Cardinality(Within(charged \cup S, n)) <= cfg.quota
  <2>1. CASE n < now
    <3>1. Within(charged \cup S, n) = Within(charged, n)
      BY <1>2, <1>3, <2>1 DEF Within
    <3>2. QED
      BY <1>1, <3>1 DEF QuotaOK, Within
  <2>2. CASE n = now
    <3>1. Within(charged \cup S, n) \subseteq Recent \cup S
      BY <2>2 DEF Within, QuotaOK, Recent
    <3>2. Cardinality(Within(charged \cup S, n)) <= Cardinality(Recent \cup S)
      BY <1>7, <3>1, FS_Subset
    <3>3. IsFiniteSet(Within(charged \cup S, n))
      BY <1>7, <3>1, FS_Subset
    <3>4. /\ Cardinality(Within(charged \cup S, n)) \in Nat
          /\ Cardinality(Recent \cup S) \in Nat
      BY <1>7, <3>3, FS_CardinalityType
    <3>5. QED
      BY <1>2, <1>7, <3>2, <3>4
  <2>3. QED
    BY <1>2, <2>1, <2>2
<1>9. ASSUME NEW u \in Task, pc'[u] \in {"audit", "send", "finish"}, NEW i \in 1 .. cost[u]
      PROVE  \E s \in charged \cup S : s.op = op[u] /\ s.row = i
  <2>1. CASE u = t
    <3>1. [op |-> op[t], row |-> i, at |-> now] \in S
      BY <1>9, <2>1 DEF S, Slots
    <3>2. QED
      BY <2>1, <3>1
  <2>2. CASE u # t
    <3>1. pc[u] \in {"audit", "send", "finish"}
      BY <1>1, <1>9, <2>2 DEF TypeOK
    <3>2. QED
      BY <1>1, <1>9, <3>1 DEF QuotaOK
  <2>3. QED
    BY <2>1, <2>2
<1>10. /\ \A s \in charged \cup S : s.at <= now
       /\ \A s \in charged \cup S : now - s.at < Window => s \in Recent \cup S
       /\ Recent \cup S \subseteq charged \cup S
  BY <1>2, <1>3, <1>6 DEF QuotaOK, Recent
<1>11. QED
  BY <1>1, <1>5, <1>8, <1>9, <1>10 DEF QuotaOK, Within

LEMMA QuotaStep ==
  ASSUME TypeOK, CallOK, QuotaOK, [Next]_vars
  PROVE  QuotaOK'
<1>1. ASSUME NEW t \in Task, NEW tl \in Tool, NEW n \in Nat \ {0}, Call(t, tl, n) PROVE QuotaOK'
  <2>1. /\ UNCHANGED <<now, cfg, charged, times>> /\ pc'[t] \in {"fetch", "quota"}
        /\ \A u \in Task \ {t} : pc'[u] = pc[u] /\ op'[u] = op[u] /\ cost'[u] = cost[u]
    BY <1>1 DEF Call, Goto, TypeOK, config, history
  <2>2. QED
    BY <2>1, QuotaFrame
<1>2. ASSUME NEW t \in Task, BaseFound(t) \/ NoQuota(t) \/ Refused(t) PROVE QuotaOK'
  <2>1. /\ UNCHANGED <<now, cfg, charged, times, op, cost>>
        /\ \A u \in Task \ {t} : pc'[u] = pc[u]
        /\ pc'[t] \in {"audit", "send", "finish"} =>
             pc[t] \in {"audit", "send", "finish"} \/ cfg.quota = 0
    BY <1>2 DEF BaseFound, NoQuota, Refused, Goto, TypeOK, config, history
  <2>2. QED
    BY <2>1, QuotaFrame
<1>3. ASSUME NEW t \in Task, Return(t), UNCHANGED <<now, cfg, charged>>, times' \in {times, Recent}
      PROVE  QuotaOK'
  BY <1>3, ReturnFrame, QuotaFrame
<1>4. ASSUME NEW t \in Task, BeginWritten(t) PROVE QuotaOK'
  <2>1. /\ UNCHANGED <<now, cfg, charged, times, op, cost>>
        /\ \A u \in Task \ {t} : pc'[u] = pc[u]
        /\ pc[t] = "audit"
    BY <1>4 DEF BeginWritten, Goto, TypeOK, config, history
  <2>2. QED
    BY <2>1, QuotaFrame
<1>5. ASSUME NEW t \in Task, NEW ok \in BOOLEAN, pc[t] = "send", Answered(t, ok) PROVE QuotaOK'
  <2>1. /\ UNCHANGED <<now, cfg, charged, times, op, cost>>
        /\ \A u \in Task \ {t} : pc'[u] = pc[u]
    BY <1>5 DEF Answered, Goto, TypeOK, config
  <2>2. QED
    BY <1>5, <2>1, QuotaFrame
<1>6. CASE Restart
  <2>1. charged' = {} /\ times' = {} /\ now' = now /\ \A u \in Task : pc'[u] = "idle"
    BY <1>6 DEF Restart, Start
  <2>2. cfg' \in Settings
    BY <1>6 DEF Restart, Start
  <2>3. cfg'.quota \in Nat
    BY <2>2, SettingsAssumption
  <2>4. IsFiniteSet({}) /\ Cardinality({}) = 0
    BY FS_EmptySet
  <2>5. \A n : {s \in charged' : s.at <= n /\ n - s.at < Window} = {}
    BY <2>1
  <2>6. QED
    BY <2>1, <2>3, <2>4, <2>5 DEF QuotaOK
<1>7. CASE Tick
  <2>1. now' = now + 1 /\ UNCHANGED <<cfg, times, charged, pc, op, cost>>
    BY <1>7 DEF Tick, config, call, history
  <2>2. /\ now \in Nat /\ Window \in Nat \ {0} /\ cfg.quota \in Nat
        /\ \A s \in charged : s.at \in Nat /\ s.at <= now
    BY QuotaAssumption, CfgTypes DEF TypeOK, Slot, QuotaOK
  <2>3. ASSUME cfg.quota > 0, NEW n \in 0 .. now + 1
        PROVE  Cardinality(Within(charged, n)) <= cfg.quota
    <3>1. CASE n \in 0 .. now
      BY <2>3, <3>1 DEF QuotaOK, Within
    <3>2. CASE n = now + 1
      <4>1. Within(charged, n) \subseteq Within(charged, now)
        BY <2>2, <3>2 DEF Within
      <4>2. Within(charged, now) \subseteq charged
        BY DEF Within
      <4>3. IsFiniteSet(Within(charged, now)) /\ IsFiniteSet(Within(charged, n))
        BY <4>1, <4>2, FS_Subset DEF QuotaOK
      <4>4. Cardinality(Within(charged, n)) <= Cardinality(Within(charged, now))
        BY <4>1, <4>3, FS_Subset
      <4>5. Cardinality(Within(charged, now)) <= cfg.quota
        BY <2>2, <2>3 DEF QuotaOK, Within
      <4>6. QED
        BY <2>2, <4>3, <4>4, <4>5, FS_CardinalityType
    <3>3. QED
      BY <2>2, <2>3, <3>1, <3>2
  <2>4. /\ \A s \in charged' : s.at <= now'
        /\ \A s \in charged' : now' - s.at < Window => s \in times'
    BY <2>1, <2>2 DEF QuotaOK
  <2>5. cfg'.quota > 0 => \A u \in Task : pc'[u] \in {"audit", "send", "finish"} =>
          \A i \in 1 .. cost'[u] : \E s \in charged' : s.op = op'[u] /\ s.row = i
    BY <2>1 DEF QuotaOK
  <2>6. IsFiniteSet(charged') /\ times' \subseteq charged'
    BY <2>1 DEF QuotaOK
  <2>7. cfg'.quota > 0 =>
          \A n \in 0 .. now' :
             Cardinality({s \in charged' : s.at <= n /\ n - s.at < Window}) <= cfg'.quota
    BY <2>1, <2>3 DEF Within
  <2>8. QED
    BY <2>4, <2>5, <2>6, <2>7 DEF QuotaOK
<1>8. CASE UNCHANGED vars
  BY <1>8, QuotaFrame DEF vars, config, call, history
<1>9. ASSUME NEW t \in Task,
             \/ BaseMissing(t) \/ QuotaExceeded(t) \/ BeginFails(t)
             \/ FinishWritten(t) \/ FinishFails(t) \/ Abandon(t)
      PROVE  QuotaOK'
  <2>1. Return(t) /\ UNCHANGED <<now, cfg, charged>> /\ times' \in {times, Recent}
    BY <1>9 DEF BaseMissing, QuotaExceeded, BeginFails, FinishWritten, FinishFails, Finished,
       Abandon, config, history
  <2>2. QED
    BY <1>3, <2>1
<1>10. QED
  BY <1>1, <1>2, <1>4, <1>5, <1>6, <1>7, <1>8, <1>9, ReserveStep, CallCases
     DEF RowAcked, RowFails, Sending

-----------------------------------------------------------------------------
(***************************************************************************)
(* The theorems.                                                           *)
(***************************************************************************)
Inv == /\ TypeOK /\ CallOK /\ TallyOK /\ JournalOK
       /\ AppliedOK /\ ResultsOK /\ AnsweredOK /\ QuotaOK

LEMMA InvInit == Init => Inv
<1> SUFFICES ASSUME Init PROVE Inv
  OBVIOUS
<1>1. TypeOK
  BY TypeInit
<1>2. /\ journal = <<>> /\ applied = {} /\ charged = {} /\ times = {} /\ ops = 0 /\ now = 0
      /\ DOMAIN journal = {}
      /\ \A t \in Task : /\ pc[t] = "idle" /\ op[t] = 0 /\ cost[t] = 1
                         /\ results[t] = <<>> /\ fails[t] = 0
  BY DEF Init
<1>3. IsFiniteSet({}) /\ Cardinality({}) = 0
  BY FS_EmptySet
<1>4. CallOK /\ JournalOK /\ ResultsOK /\ AnsweredOK
  BY <1>2 DEF CallOK, JournalOK, ResultsOK, AnsweredOK
<1>5. TallyOK
  BY <1>2, BulkAssumption DEF TallyOK
<1>6. AppliedOK
  <2>1. \A o : Taken(o) = {}
    BY <1>2 DEF Taken
  <2>2. QED
    BY <1>2, <1>3, <2>1 DEF AppliedOK
<1>7. QuotaOK
  <2>1. \A n : {s \in charged : s.at <= n /\ n - s.at < Window} = {}
    BY <1>2
  <2>2. QED
    BY <1>1, <1>2, <1>3, <2>1, CfgTypes DEF QuotaOK
<1>8. QED
  BY <1>1, <1>4, <1>5, <1>6, <1>7 DEF Inv

LEMMA InvStep == Inv /\ [Next]_vars => Inv'
<1> SUFFICES ASSUME Inv, [Next]_vars PROVE Inv'
  OBVIOUS
<1>1. TypeOK' /\ CallOK' /\ TallyOK' /\ JournalOK'
  BY TypeStep, CallStep, TallyStep, JournalStep DEF Inv
<1>2. AppliedOK'
  BY AppliedStep DEF Inv
<1>3. ResultsOK'
  BY <1>2, ResultsStep DEF Inv
<1>4. AnsweredOK' /\ QuotaOK'
  BY AnsweredStep, QuotaStep DEF Inv
<1>5. QED
  BY <1>1, <1>2, <1>3, <1>4 DEF Inv

LEMMA InvHolds == Spec => []Inv
BY InvInit, InvStep, PTL DEF Spec

(* A whole line is a record, or was swallowed.                              *)
LEMMA LineIsRecord ==
  ASSUME NEW o, NEW phase
  PROVE  OnFile(o, phase) <=> HasRecord(o, phase) \/ Swallowed(o, phase)
BY DEF OnFile, HasRecord, Swallowed, Readable

(* Every variable of the write lane keeps to its type: the server's list of *)
(* slots (write_times), the journal (src/audit.rs), a call's position and    *)
(* the outcomes it has counted (create_transactions_bulk).                  *)
THEOREM TypeCorrect == Spec => []TypeOK
BY InvHolds, PTL DEF Inv

(* Every mutation the ledger took has its attempt on file, readable but for  *)
(* the one record a torn append may swallow: each tool of src/server.rs      *)
(* calls AuditLog::begin before its request, and gives up when it fails.    *)
THEOREM MutationsJournaled == Spec => []Journaled
<1>1. Inv => Journaled
  BY LineIsRecord DEF Inv, AppliedOK, Journaled
<1>2. QED
  BY <1>1, InvHolds, PTL

(* A readable result is the only one of its operation, follows the whole    *)
(* attempt, and counts no more acknowledged rows than the ledger took       *)
(* (AuditLog::finish and what the tools pass it).                           *)
THEOREM ResultsTold == Spec => []ResultsTrue
<1>1. Inv => ResultsTrue
  BY DEF Inv, ResultsOK, ResultsTrue, Readable, Taken
<1>2. QED
  BY <1>1, InvHolds, PTL

(* One process never reserves more than its quota of slots within any        *)
(* window, and sends no row without a slot of its own (write_quota).        *)
THEOREM QuotaKept == Spec => []QuotaHolds
<1>1. ASSUME Inv PROVE QuotaHolds
  <2>1. ASSUME cfg.quota > 0, NEW t \in Task, Sending(t)
        PROVE  \E s \in charged : s.op = op[t] /\ s.row = InFlight(t).row
    <3>1. pc[t] = "send" /\ Len(results[t]) < cost[t]
      BY <1>1, <2>1 DEF Sending, Inv, CallOK
    <3>2. Len(results[t]) \in Nat /\ cost[t] \in Nat
      BY <1>1 DEF Inv, TypeOK
    <3>3. Len(results[t]) + 1 \in 1 .. cost[t] /\ InFlight(t).row = Len(results[t]) + 1
      BY <3>1, <3>2 DEF InFlight
    <3>4. QED
      BY <1>1, <2>1, <3>1, <3>3 DEF Inv, QuotaOK
  <2>2. QED
    BY <1>1, <2>1 DEF Inv, QuotaOK, QuotaHolds
<1>2. QED
  BY <1>1, InvHolds, PTL

(* A bulk import ends early exactly when its last AbortAfter rows all        *)
(* failed (create_transactions_bulk and BULK_ABORT_AFTER in src/client.rs). *)
THEOREM ImportStops == Spec => []BulkStops
<1>1. Inv => BulkStops
  BY BulkStopsHere DEF Inv
<1>2. QED
  BY <1>1, InvHolds, PTL

(* An attempt on file is answered by a result once its call is over, unless  *)
(* the call was dropped, the process died in it, or the result's append      *)
(* failed or was swallowed (the tools of src/server.rs write a result on     *)
(* every path after begin).                                                 *)
THEOREM AttemptsAnswered == Spec => []EveryAttemptAnswered
<1>1. Inv => EveryAttemptAnswered
  BY LineIsRecord DEF Inv, AnsweredOK, EveryAttemptAnswered
<1>2. QED
  BY <1>1, InvHolds, PTL
=============================================================================
