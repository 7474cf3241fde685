----------------------------- MODULE AuthProofs -----------------------------
(***************************************************************************)
(* Proofs about Auth, for any number of tasks, any budget and window, any  *)
(* lifetimes and backoff, and with or without the password fallback.       *)
(***************************************************************************)
EXTENDS Auth, FiniteSetTheorems, TLAPS

(***************************************************************************)
(* Types.  Acquire dispatches on op, so its range belongs to the           *)
(* induction.                                                              *)
(***************************************************************************)
OpOK   == \A t \in Task : pc[t] = "lock" => op[t] \in {"access", "login", "mfa"}
TypeInv == TypeOK /\ OpOK

LEMMA ProductNat == ASSUME NEW a \in Nat, NEW b \in Nat PROVE a * b \in Nat
  BY SMT

LEMMA RefreshDelayNat == \A n \in Nat \ {0} : RefreshDelay(n) \in Nat
<1> SUFFICES ASSUME NEW n \in Nat \ {0} PROVE RefreshDelay(n) \in Nat
  OBVIOUS
<1>1. SmallerOf(n, 6) \in 1..6
  BY DEF SmallerOf
<1>2. Doublings[SmallerOf(n, 6)] \in Nat
  BY <1>1 DEF Doublings
<1>3. BackoffBase * Doublings[SmallerOf(n, 6)] \in Nat
  BY <1>2, ProductNat, TimeAssumption
<1>4. QED
  BY <1>3, TimeAssumption DEF RefreshDelay, SmallerOf

LEMMA ReturnTypes ==
  ASSUME TypeInv, NEW t \in Task, Return(t)
  PROVE  /\ pc' \in [Task -> PC] /\ op' \in [Task -> Op]
         /\ call' \in [Task -> Nat] /\ used' \in [Task -> Nat] /\ paid' \in [Task -> Nat]
         /\ flight' \in Task \cup {NoTask}
         /\ OpOK'
  BY DEF TypeInv, TypeOK, OpOK, Return, Goto, PC, Op, Holding

LEMMA FallbackTypes ==
  ASSUME TypeInv, NEW t \in Task, Fallback(t)
  PROVE  /\ pc' \in [Task -> PC] /\ op' \in [Task -> Op]
         /\ call' \in [Task -> Nat] /\ used' \in [Task -> Nat] /\ paid' \in [Task -> Nat]
         /\ flight' \in Task \cup {NoTask}
         /\ OpOK'
<1>1. CASE cfg.autoLogin
  BY <1>1 DEF Fallback, TypeInv, TypeOK, OpOK, Goto, PC, Op, Holding
<1>2. CASE ~cfg.autoLogin
  BY <1>2, ReturnTypes DEF Fallback
<1>3. QED
  BY <1>1, <1>2

LEMMA LiveTypes ==
  ASSUME NEW S \in SUBSET Charge PROVE Live(S) \in SUBSET Charge
  BY DEF Live

LEMMA RefreshFailureTypes ==
  ASSUME TypeInv, NEW t \in Task, RefreshFailure(t)
  PROVE  TypeInv'
<1>1. backoff' \in [failures : Nat, next : Nat] /\ failed' \in [at : Nat, wait : Nat]
  BY RefreshDelayNat, TimeAssumption DEF RefreshFailure, DueDelay, SmallerOf, TypeInv, TypeOK
<1>2. QED
  BY <1>1, FallbackTypes DEF RefreshFailure, TypeInv, TypeOK, cacheVars

LEMMA StoreTokensTypes ==
  ASSUME TypeInv, NEW t \in Task, StoreTokens(t)
  PROVE  TypeInv'
<1>1. mem' \in CacheState
  <2>1. PICK life \in Lifetimes :
          mem' = [mem EXCEPT !.token = call[t], !.expires = now + life]
    BY DEF StoreTokens
  <2>2. now + life \in Nat /\ call[t] \in Nat /\ mem \in CacheState
    BY TimeAssumption DEF TypeInv, TypeOK
  <2>3. QED
    BY <2>1, <2>2 DEF CacheState
<1>2. QED
  BY <1>1 DEF StoreTokens, TypeInv, TypeOK, OpOK, Goto, PC, Holding, history

LEMMA TypeInit == Init => TypeInv
<1>1. EmptyCache \in CacheState
  BY DEF EmptyCache, CacheState
<1>2. Inherited \in CacheState
  BY DEF Inherited, CacheState
<1>3. \A c \in CacheState : c.tm \in Nat
  BY DEF CacheState
<1>4. NoBackoff \in [failures : Nat, next : Nat]
  BY DEF NoBackoff
<1> SUFFICES ASSUME Init PROVE TypeInv
  OBVIOUS
<1>5. mem \in CacheState /\ disk \in CacheState
  BY <1>1, <1>2 DEF Init
<1>6. devices \subseteq Nat /\ submitted \subseteq Charge /\ spent \subseteq Nat
  BY <1>3, <1>5 DEF Init
<1>7. QED
  BY <1>4, <1>5, <1>6 DEF Init, NoRun, TypeInv, TypeOK, OpOK, PC, Op

LEMMA TypeStep == TypeInv /\ [Next]_vars => TypeInv'
<1> SUFFICES ASSUME TypeInv, [Next]_vars PROVE TypeInv'
  OBVIOUS
<1> USE DEF Goto, Begin, PC, Op, Holding, history, cacheVars, taskVars
<1>1. ASSUME NEW t \in Task, Call(t) PROVE TypeInv'
  <2>1. CASE CallAccess(t)
    BY <2>1 DEF CallAccess, TypeInv, TypeOK, OpOK
  <2>2. CASE CallLogin(t)
    BY <2>2 DEF CallLogin, TypeInv, TypeOK, OpOK
  <2>3. CASE CallCompleteMfa(t)
    BY <2>3 DEF CallCompleteMfa, TypeInv, TypeOK, OpOK
  <2>4. CASE CallLogout(t)
    <3>1. mem' \in CacheState
      BY <2>4 DEF CallLogout, TypeInv, TypeOK, CacheState
    <3>2. QED
      BY <2>4, <3>1 DEF CallLogout, TypeInv, TypeOK, OpOK
  <2>5. QED
    BY <1>1, <2>1, <2>2, <2>3, <2>4 DEF Call
<1>2. ASSUME NEW t \in Task, Acquire(t) PROVE TypeInv'
  <2>1. op[t] \in {"access", "login", "mfa"}
    BY <1>2 DEF Acquire, TypeInv, OpOK
  <2>2. CASE op[t] = "access"
    BY <1>2, <2>2 DEF Acquire, TypeInv, TypeOK, OpOK
  <2>3. CASE op[t] = "login"
    BY <1>2, <2>3 DEF Acquire, TypeInv, TypeOK, OpOK
  <2>4. CASE op[t] = "mfa"
    BY <1>2, <2>4 DEF Acquire, TypeInv, TypeOK, OpOK
  <2>5. QED
    BY <2>1, <2>2, <2>3, <2>4
<1>3. ASSUME NEW t \in Task, Proceed(t) PROVE TypeInv'
  <2>1. CASE LogoutSave(t)
    BY <2>1, ReturnTypes DEF LogoutSave, Saved, SaveFailed, TypeInv, TypeOK
  <2>2. CASE CheckHit(t)
    BY <2>2, ReturnTypes DEF CheckHit, TypeInv, TypeOK
  <2>3. CASE CheckBackoff(t)
    BY <2>3, ReturnTypes DEF CheckBackoff, TypeInv, TypeOK
  <2>4. CASE CheckNoRefreshToken(t)
    BY <2>4, FallbackTypes DEF CheckNoRefreshToken, TypeInv, TypeOK
  <2>5. CASE SendRefresh(t)
    BY <2>5 DEF SendRefresh, TypeInv, TypeOK, OpOK, CacheState
  <2>6. CASE RefreshNoSecret(t) \/ RefreshRejected(t)
    BY <2>6, RefreshFailureTypes DEF RefreshNoSecret, RefreshRejected
  <2>7. CASE RefreshAnswered(t) \/ ExchangeAnswered(t)
    BY <2>7, StoreTokensTypes DEF RefreshAnswered, ExchangeAnswered
  <2>8. CASE StoreSave(t)
    <3>1. NoBackoff \in [failures : Nat, next : Nat]
      BY DEF NoBackoff
    <3>2. spent' \subseteq Nat
      <4>1. spent \subseteq Nat /\ \A r \in Nat : spent \cup {r} \subseteq Nat
        BY DEF TypeInv, TypeOK
      <4>2. QED
        BY <2>8, <4>1 DEF StoreSave, TypeInv, TypeOK
    <3>3. QED
      BY <2>8, <3>1, <3>2, ReturnTypes DEF StoreSave, NoRun, Saved, TypeInv, TypeOK
  <2>9. CASE StoreSaveFailed(t)
    BY <2>9, ReturnTypes DEF StoreSaveFailed, SaveFailed, TypeInv, TypeOK
  <2>10. CASE ChargeRefused(t)
    <3>1. mem' \in CacheState
      BY <2>10, LiveTypes DEF ChargeRefused, TypeInv, TypeOK, CacheState
    <3>2. QED
      BY <2>10, <3>1, ReturnTypes DEF ChargeRefused, TypeInv, TypeOK
  <2>11. CASE ChargeLogin(t)
    <3>1. mem' \in CacheState
      <4>1. [call |-> call[t], at |-> now] \in Charge
        BY DEF Charge, TypeInv, TypeOK
      <4>2. Live(mem.logins) \cup {[call |-> call[t], at |-> now]} \in SUBSET Charge
        BY <4>1, LiveTypes DEF TypeInv, TypeOK, CacheState
      <4>3. QED
        BY <2>11, <4>2 DEF ChargeLogin, TypeInv, TypeOK, CacheState
    <3>2. QED
      BY <2>11, <3>1 DEF ChargeLogin, TypeInv, TypeOK, OpOK
  <2>12. CASE SaveCharge(t)
    BY <2>12 DEF SaveCharge, Saved, TypeInv, TypeOK, OpOK
  <2>13. CASE SaveChargeFailed(t)
    BY <2>13, ReturnTypes DEF SaveChargeFailed, SaveFailed, TypeInv, TypeOK
  <2>14. CASE NewDevice(t)
    <3>1. mem' \in CacheState
      <4>1. cfg.device \in Nat
        BY SettingsAssumption DEF TypeInv, TypeOK
      <4>2. DeviceFor(t) \in Nat
        BY <4>1 DEF DeviceFor, TypeInv, TypeOK, CacheState
      <4>3. QED
        BY <2>14, <4>2 DEF NewDevice, TypeInv, TypeOK, CacheState
    <3>2. QED
      BY <2>14, <3>1 DEF NewDevice, TypeInv, TypeOK, OpOK
  <2>15. CASE SaveTmFailed(t)
    BY <2>15, ReturnTypes DEF SaveTmFailed, SaveFailed, TypeInv, TypeOK
  <2>16. CASE SaveTm(t) \/ KnownDevice(t)
    <3>1. Submit(t) /\ disk' \in CacheState
      BY <2>16 DEF SaveTm, KnownDevice, Saved, TypeInv, TypeOK
    <3>2. submitted' \subseteq Charge
      BY <3>1 DEF Submit, Charge, TypeInv, TypeOK
    <3>3. devices' \subseteq Nat
      BY <3>1 DEF Submit, CacheState, TypeInv, TypeOK
    <3>4. QED
      BY <3>1, <3>2, <3>3 DEF Submit, TypeInv, TypeOK, OpOK
  <2>17. CASE AuthorizeRejected(t) \/ ExchangeRejected(t)
    BY <2>17, ReturnTypes DEF AuthorizeRejected, ExchangeRejected, TypeInv, TypeOK
  <2>18. CASE AuthorizeChallenged(t)
    BY <2>18, ReturnTypes DEF AuthorizeChallenged, TypeInv, TypeOK
  <2>19. CASE AuthorizeGranted(t)
    BY <2>19 DEF AuthorizeGranted, TypeInv, TypeOK, OpOK
  <2>20. QED
    BY <1>3, <2>1, <2>2, <2>3, <2>4, <2>5, <2>6, <2>7, <2>8, <2>9, <2>10, <2>11,
       <2>12, <2>13, <2>14, <2>15, <2>16, <2>17, <2>18, <2>19 DEF Proceed
<1>4. ASSUME NEW t \in Task, Abandon(t) PROVE TypeInv'
  BY <1>4, ReturnTypes DEF Abandon, TypeInv, TypeOK
<1>5. CASE Restart
  <2>1. Configured \subseteq Nat
    BY SettingsAssumption DEF Configured, TypeInv, TypeOK
  <2>2. devices' \subseteq Nat
    BY <1>5, <2>1 DEF Restart, TypeInv, TypeOK
  <2>3. QED
    BY <1>5, <2>2 DEF Restart, TypeInv, TypeOK, OpOK, NoBackoff, NoRun
<1>6. CASE Tick
  BY <1>6 DEF Tick, TypeInv, TypeOK, OpOK
<1>7. CASE UNCHANGED vars
  BY <1>7 DEF vars, TypeInv, TypeOK, OpOK
<1>8. QED
  BY <1>1, <1>2, <1>3, <1>4, <1>5, <1>6, <1>7 DEF Next, Quiet

\* Every variable keeps its type in every behaviour (Auth!TypeOK).
THEOREM TypeCorrect == Spec => []TypeOK
<1>1. TypeInv => TypeOK
  BY DEF TypeInv
<1>2. QED
  BY <1>1, TypeInit, TypeStep, PTL DEF Spec

-----------------------------------------------------------------------------
(***************************************************************************)
(* Mutual exclusion.  The flight variable names exactly the task that      *)
(* stands between Acquire and Return.                                      *)
(***************************************************************************)
FlightInv == \A t \in Task : pc[t] \in Holding <=> flight = t

\* What a step does to the program counters and the guard.
Moves(t) ==
  \/ Return(t)
  \/ /\ pc[t] \in Holding /\ UNCHANGED flight
     /\ \E where \in Holding : Goto(t, where)

LEMMA FallbackMoves ==
  ASSUME NEW t \in Task, pc[t] \in Holding, Fallback(t) PROVE Moves(t)
  BY DEF Fallback, Moves, Holding

LEMMA ProceedMoves ==
  ASSUME NEW t \in Task, Proceed(t) PROVE Moves(t)
<1>1. CASE LogoutSave(t) \/ CheckHit(t) \/ CheckBackoff(t) \/ StoreSave(t) \/ StoreSaveFailed(t)
  BY <1>1 DEF LogoutSave, CheckHit, CheckBackoff, StoreSave, StoreSaveFailed, Moves
<1>2. CASE ChargeRefused(t) \/ SaveChargeFailed(t) \/ SaveTmFailed(t)
           \/ AuthorizeRejected(t) \/ AuthorizeChallenged(t) \/ ExchangeRejected(t)
  BY <1>2 DEF ChargeRefused, SaveChargeFailed, SaveTmFailed, AuthorizeRejected,
              AuthorizeChallenged, ExchangeRejected, Moves
<1>3. CASE CheckNoRefreshToken(t)
  BY <1>3, FallbackMoves DEF CheckNoRefreshToken, Holding
<1>4. CASE RefreshNoSecret(t) \/ RefreshRejected(t)
  BY <1>4, FallbackMoves DEF RefreshNoSecret, RefreshRejected, RefreshFailure, CanRefresh, Holding
<1>5. CASE SendRefresh(t)
  BY <1>5 DEF SendRefresh, CanRefresh, Moves, Holding
<1>6. CASE RefreshAnswered(t) \/ ExchangeAnswered(t)
  BY <1>6 DEF RefreshAnswered, ExchangeAnswered, StoreTokens, Moves, Holding
<1>7. CASE ChargeLogin(t) \/ SaveCharge(t) \/ NewDevice(t)
  BY <1>7 DEF ChargeLogin, SaveCharge, NewDevice, Moves, Holding
<1>8. CASE SaveTm(t) \/ KnownDevice(t)
  BY <1>8 DEF SaveTm, KnownDevice, Submit, Moves, Holding
<1>9. CASE AuthorizeGranted(t)
  BY <1>9 DEF AuthorizeGranted, Moves, Holding
<1>10. QED
  BY <1>1, <1>2, <1>3, <1>4, <1>5, <1>6, <1>7, <1>8, <1>9 DEF Proceed

LEMMA MovesFlight ==
  ASSUME TypeInv, FlightInv, NEW t \in Task, Moves(t) PROVE FlightInv'
<1> USE TaskAssumption
<1>1. CASE Return(t)
  BY <1>1 DEF Return, Goto, FlightInv, TypeInv, TypeOK, Holding
<1>2. CASE ~Return(t)
  <2>1. PICK where \in Holding : Goto(t, where)
    BY <1>2 DEF Moves
  <2>2. pc[t] \in Holding /\ UNCHANGED flight
    BY <1>2 DEF Moves
  <2>3. QED
    BY <2>1, <2>2 DEF Goto, FlightInv, TypeInv, TypeOK
<1>3. QED
  BY <1>1, <1>2

LEMMA FlightInit == Init => FlightInv
  BY TaskAssumption DEF Init, FlightInv, Holding

LEMMA FlightStep == TypeInv /\ FlightInv /\ [Next]_vars => FlightInv'
<1> SUFFICES ASSUME TypeInv, FlightInv, [Next]_vars PROVE FlightInv'
  OBVIOUS
<1>1. ASSUME NEW t \in Task, Call(t) PROVE FlightInv'
  <2>1. pc[t] = "idle" /\ UNCHANGED flight /\ (Goto(t, "lock") \/ Goto(t, "saveClear"))
    BY <1>1 DEF Call, CallAccess, CallLogin, CallCompleteMfa, CallLogout, Begin
  <2>2. QED
    BY <2>1 DEF Goto, FlightInv, TypeInv, TypeOK, Holding
<1>2. ASSUME NEW t \in Task, Acquire(t) PROVE FlightInv'
  <2>1. flight = NoTask /\ flight' = t
    BY <1>2 DEF Acquire, FlightFree
  <2>2. \E where \in Holding : Goto(t, where)
    <3>1. op[t] \in {"access", "login", "mfa"}
      BY <1>2 DEF Acquire, TypeInv, OpOK
    <3>2. QED
      BY <1>2, <3>1 DEF Acquire, Holding
  <2>3. QED
    BY <2>1, <2>2, TaskAssumption DEF Goto, FlightInv, TypeInv, TypeOK
<1>3. ASSUME NEW t \in Task, Proceed(t) PROVE FlightInv'
  BY <1>3, ProceedMoves, MovesFlight
<1>4. ASSUME NEW t \in Task, Abandon(t) PROVE FlightInv'
  BY <1>4, MovesFlight DEF Abandon, Moves
<1>5. CASE Restart
  BY <1>5, TaskAssumption DEF Restart, FlightInv, Holding
<1>6. CASE Tick \/ UNCHANGED vars
  BY <1>6 DEF Tick, vars, taskVars, FlightInv
<1>7. QED
  BY <1>1, <1>2, <1>3, <1>4, <1>5, <1>6 DEF Next, Quiet

\* At most one token acquisition is in flight (Auth!SingleFlight).
THEOREM FlightIsSingle == Spec => []SingleFlight
<1>1. FlightInv => SingleFlight
  BY DEF FlightInv, SingleFlight
<1>2. QED
  BY <1>1, TypeInit, TypeStep, FlightInit, FlightStep, PTL DEF Spec

-----------------------------------------------------------------------------
(***************************************************************************)
(* The login budget.  LoginBudget is not inductive: it must be known that  *)
(* every login submitted within the window is charged in memory and on     *)
(* disk, that neither holds more charges than the budget, and that a task  *)
(* about to submit has paid and saved.                                     *)
(***************************************************************************)
Paid(t)    == [call |-> call[t], at |-> paid[t]]
Pays(t)    == pc[t] \in {"saveCharge", "tm", "saveTm"} /\ op[t] # "mfa"
HasSaved(t) == pc[t] \in {"tm", "saveTm"} /\ op[t] # "mfa"

Within(logins) == IsFiniteSet(logins) /\ Cardinality(logins) <= MaxLogins
LedgersWithin  == Within(mem.logins) /\ Within(disk.logins)
AllCharged ==
  /\ Live(submitted) \subseteq mem.logins
  /\ Live(submitted) \subseteq disk.logins
PaidUp ==
  \A t \in Task : /\ Pays(t) => Live({Paid(t)}) \subseteq mem.logins
                  /\ HasSaved(t) => Live({Paid(t)}) \subseteq disk.logins
LoginInv == LedgersWithin /\ AllCharged /\ PaidUp

LEMMA LiveWithin ==
  ASSUME NEW S, IsFiniteSet(S) PROVE IsFiniteSet(Live(S)) /\ Cardinality(Live(S)) <= Cardinality(S)
  BY FS_Subset DEF Live

LEMMA BudgetFollows == TypeInv /\ LoginInv => LoginBudget
<1> SUFFICES ASSUME TypeInv, LoginInv PROVE LoginBudget
  OBVIOUS
<1>1. IsFiniteSet(mem.logins) /\ Cardinality(mem.logins) <= MaxLogins
  BY DEF LoginInv, LedgersWithin, Within
<1>2. IsFiniteSet(Live(submitted)) /\ Cardinality(Live(submitted)) <= Cardinality(mem.logins)
  BY <1>1, FS_Subset DEF LoginInv, AllCharged
<1>3. Cardinality(mem.logins) \in Nat /\ Cardinality(Live(submitted)) \in Nat
  BY <1>1, <1>2, FS_CardinalityType
<1>4. QED
  BY <1>1, <1>2, <1>3, BudgetAssumption DEF LoginBudget

\* Steps that leave the charges alone, though they may save them.
KeepsPlace(u) ==
  pc'[u] \in {"saveCharge", "tm", "saveTm"} /\ op'[u] # "mfa" =>
    pc[u] = pc'[u] /\ op[u] = op'[u] /\ call[u] = call'[u] /\ paid[u] = paid'[u]

LEMMA LoginKept ==
  ASSUME LoginInv, mem'.logins = mem.logins,
         disk'.logins = disk.logins \/ disk'.logins = mem.logins,
         UNCHANGED <<now, submitted>>,
         \A u \in Task : KeepsPlace(u)
  PROVE  LoginInv'
<1>1. LedgersWithin'
  BY DEF LoginInv, LedgersWithin, Within
<1>2. AllCharged'
  BY DEF LoginInv, AllCharged, Live
<1>3. PaidUp'
  BY DEF LoginInv, PaidUp, Pays, HasSaved, Paid, Live, KeepsPlace
<1>4. QED
  BY <1>1, <1>2, <1>3 DEF LoginInv

LEMMA ReturnKeepsPlace ==
  ASSUME TypeInv, NEW t \in Task, Return(t) PROVE \A u \in Task : KeepsPlace(u)
  BY DEF Return, Goto, KeepsPlace, TypeInv, TypeOK

LEMMA FallbackKeepsPlace ==
  ASSUME TypeInv, NEW t \in Task, Fallback(t) PROVE \A u \in Task : KeepsPlace(u)
<1>1. CASE Return(t)
  BY <1>1, ReturnKeepsPlace
<1>2. CASE ~Return(t)
  BY <1>2 DEF Fallback, Goto, KeepsPlace, TypeInv, TypeOK
<1>3. QED
  BY <1>1, <1>2

LEMMA LoginInit == Init => LoginInv
<1> SUFFICES ASSUME Init PROVE LoginInv
  OBVIOUS
<1>1. mem.logins = {} /\ disk.logins = {}
  BY DEF Init, EmptyCache, Inherited
<1>2. IsFiniteSet({}) /\ Cardinality({}) = 0
  BY FS_EmptySet
<1>3. QED
  BY <1>1, <1>2, BudgetAssumption
  DEF Init, LoginInv, LedgersWithin, Within, AllCharged, PaidUp, Pays, HasSaved, Live

LEMMA ChargeKeepsWithin ==
  ASSUME TypeInv, LoginInv, NEW t \in Task, ChargeLogin(t) PROVE LoginInv'
<1> DEFINE kept == Live(mem.logins)
           mine == [call |-> call[t], at |-> now]
<1>1. mem'.logins = kept \cup {mine} /\ disk' = disk
  BY DEF ChargeLogin, TypeInv, TypeOK, CacheState
<1>2. IsFiniteSet(kept) /\ Cardinality(kept) \in Nat /\ Cardinality(kept) < MaxLogins
  BY LiveWithin, FS_CardinalityType, BudgetAssumption
  DEF ChargeLogin, Quarantined, LoginInv, LedgersWithin, Within
<1>3. Within(mem'.logins)
  <2>1. IsFiniteSet(kept \cup {mine})
    BY <1>2, FS_AddElement
  <2>2. Cardinality(kept \cup {mine}) \in {Cardinality(kept), Cardinality(kept) + 1}
    BY <1>2, FS_AddElement
  <2>3. Cardinality(kept \cup {mine}) <= MaxLogins
    BY <1>2, <2>2, BudgetAssumption
  <2>4. QED
    BY <1>1, <2>1, <2>3 DEF Within
<1>4. LedgersWithin'
  BY <1>1, <1>3 DEF LoginInv, LedgersWithin, Within
<1>5. AllCharged'
  <2>1. UNCHANGED <<now, submitted>>
    BY DEF ChargeLogin, history
  <2>2. Live(submitted) \subseteq kept
    BY DEF LoginInv, AllCharged, Live
  <2>3. QED
    BY <1>1, <2>1, <2>2 DEF LoginInv, AllCharged, Live
<1>6. PaidUp'
  <2>1. now' = now /\ op' = op /\ call' = call
        /\ paid' = [paid EXCEPT ![t] = now] /\ pc' = [pc EXCEPT ![t] = "saveCharge"]
    BY DEF ChargeLogin, Goto
  <2>2. Paid(t)' = mine
    BY <2>1 DEF Paid, TypeInv, TypeOK
  <2>3. ASSUME NEW u \in Task, u # t
        PROVE  /\ Pays(u)' => Live({Paid(u)})' \subseteq mem'.logins
               /\ HasSaved(u)' => Live({Paid(u)})' \subseteq disk'.logins
    <3>1. Paid(u)' = Paid(u) /\ (Pays(u)' <=> Pays(u)) /\ (HasSaved(u)' <=> HasSaved(u))
      BY <2>1, <2>3 DEF Paid, Pays, HasSaved, TypeInv, TypeOK
    <3>2. Live({Paid(u)})' = Live({Paid(u)})
      BY <2>1, <3>1 DEF Live
    <3>3. Pays(u) => Live({Paid(u)}) \subseteq kept
      BY DEF LoginInv, PaidUp, Live
    <3>4. HasSaved(u) => Live({Paid(u)}) \subseteq disk.logins
      BY DEF LoginInv, PaidUp
    <3>5. QED
      BY <1>1, <3>1, <3>2, <3>3, <3>4
  <2>4. Live({Paid(t)})' \subseteq mem'.logins /\ ~HasSaved(t)'
    BY <1>1, <2>1, <2>2 DEF Live, HasSaved, TypeInv, TypeOK
  <2>5. QED
    BY <2>3, <2>4 DEF PaidUp
<1>7. QED
  BY <1>4, <1>5, <1>6 DEF LoginInv

LEMMA RefusalKeepsLogin ==
  ASSUME TypeInv, LoginInv, NEW t \in Task, ChargeRefused(t) PROVE LoginInv'
<1>1. mem'.logins = Live(mem.logins) /\ UNCHANGED <<now, disk, submitted>>
  BY DEF ChargeRefused, TypeInv, TypeOK, CacheState, history
<1>2. \A u \in Task : KeepsPlace(u)
  BY ReturnKeepsPlace DEF ChargeRefused
<1>3. LedgersWithin'
  <2>1. Within(mem'.logins)
    BY <1>1, LiveWithin, FS_CardinalityType, BudgetAssumption
    DEF LoginInv, LedgersWithin, Within
  <2>2. QED
    BY <1>1, <2>1 DEF LoginInv, LedgersWithin, Within
<1>4. AllCharged'
  BY <1>1 DEF LoginInv, AllCharged, Live
<1>5. PaidUp'
  BY <1>1, <1>2 DEF LoginInv, PaidUp, Pays, HasSaved, Paid, Live, KeepsPlace
<1>6. QED
  BY <1>3, <1>4, <1>5 DEF LoginInv

LEMMA SubmitKeepsLogin ==
  ASSUME TypeInv, LoginInv, NEW t \in Task, Submit(t), disk' = disk \/ disk' = mem,
         pc[t] \in {"tm", "saveTm"}
  PROVE  LoginInv'
<1>1. UNCHANGED <<now, mem, op, call, paid>> /\ pc' = [pc EXCEPT ![t] = "authorize"]
  BY DEF Submit, Goto
<1>2. LedgersWithin'
  BY <1>1 DEF LoginInv, LedgersWithin, Within
<1>3. Live(submitted') \subseteq mem.logins /\ Live(submitted') \subseteq disk.logins
  <2>1. CASE op[t] = "mfa"
    BY <2>1 DEF Submit, LoginInv, AllCharged
  <2>2. CASE op[t] # "mfa"
    <3>1. submitted' = submitted \cup {Paid(t)}
      BY <2>2 DEF Submit, Paid
    <3>2. Live({Paid(t)}) \subseteq mem.logins /\ Live({Paid(t)}) \subseteq disk.logins
      BY <2>2 DEF LoginInv, PaidUp, Pays, HasSaved
    <3>3. QED
      BY <3>1, <3>2 DEF LoginInv, AllCharged, Live
  <2>3. QED
    BY <2>1, <2>2
<1>4. AllCharged'
  BY <1>1, <1>3 DEF AllCharged, Live
<1>5. PaidUp'
  BY <1>1 DEF LoginInv, PaidUp, Pays, HasSaved, Paid, Live, TypeInv, TypeOK
<1>6. QED
  BY <1>2, <1>4, <1>5 DEF LoginInv

LEMMA LoginStep == TypeInv /\ LoginInv /\ [Next]_vars => LoginInv'
<1> SUFFICES ASSUME TypeInv, LoginInv, [Next]_vars PROVE LoginInv'
  OBVIOUS
<1> USE DEF Goto, history, cacheVars
<1>1. ASSUME NEW t \in Task, Call(t) PROVE LoginInv'
  <2>1. \A u \in Task : KeepsPlace(u)
    BY <1>1 DEF Call, CallAccess, CallLogin, CallCompleteMfa, CallLogout, Begin,
                KeepsPlace, TypeInv, TypeOK
  <2>2. mem'.logins = mem.logins /\ UNCHANGED <<now, disk, submitted>>
    BY <1>1 DEF Call, CallAccess, CallLogin, CallCompleteMfa, CallLogout,
                TypeInv, TypeOK, CacheState
  <2>3. QED
    BY <2>1, <2>2, LoginKept
<1>2. ASSUME NEW t \in Task, Acquire(t) PROVE LoginInv'
  <2>1. op[t] \in {"access", "login", "mfa"}
    BY <1>2 DEF Acquire, TypeInv, OpOK
  <2>2. \A u \in Task : KeepsPlace(u)
    BY <1>2, <2>1 DEF Acquire, KeepsPlace, TypeInv, TypeOK
  <2>3. QED
    BY <1>2, <2>2, LoginKept DEF Acquire
<1>3. ASSUME NEW t \in Task, Proceed(t) PROVE LoginInv'
  <2>1. CASE LogoutSave(t) \/ CheckHit(t) \/ CheckBackoff(t) \/ StoreSave(t) \/ StoreSaveFailed(t)
    <3>1. Return(t) /\ UNCHANGED <<now, mem, submitted>> /\ (disk' = disk \/ disk' = mem)
      BY <2>1 DEF LogoutSave, CheckHit, CheckBackoff, StoreSave, StoreSaveFailed, Saved, SaveFailed
    <3>2. QED
      BY <3>1, ReturnKeepsPlace, LoginKept
  <2>2. CASE SaveChargeFailed(t) \/ SaveTmFailed(t) \/ AuthorizeRejected(t)
             \/ AuthorizeChallenged(t) \/ ExchangeRejected(t)
    <3>1. Return(t) /\ UNCHANGED <<now, mem, submitted>> /\ (disk' = disk \/ disk' = mem)
      BY <2>2 DEF SaveChargeFailed, SaveTmFailed, AuthorizeRejected, AuthorizeChallenged,
                  ExchangeRejected, SaveFailed
    <3>2. QED
      BY <3>1, ReturnKeepsPlace, LoginKept
  <2>3. CASE CheckNoRefreshToken(t) \/ RefreshNoSecret(t) \/ RefreshRejected(t)
    <3>1. Fallback(t) /\ UNCHANGED <<now, mem, disk, submitted>>
      BY <2>3 DEF CheckNoRefreshToken, RefreshNoSecret, RefreshRejected, RefreshFailure
    <3>2. QED
      BY <3>1, FallbackKeepsPlace, LoginKept
  <2>4. CASE SendRefresh(t) \/ AuthorizeGranted(t)
    <3>1. \A u \in Task : KeepsPlace(u)
      BY <2>4 DEF SendRefresh, AuthorizeGranted, KeepsPlace, TypeInv, TypeOK
    <3>2. QED
      BY <2>4, <3>1, LoginKept DEF SendRefresh, AuthorizeGranted
  <2>5. CASE RefreshAnswered(t) \/ ExchangeAnswered(t)
    <3>1. StoreTokens(t)
      BY <2>5 DEF RefreshAnswered, ExchangeAnswered
    <3>2. \A u \in Task : KeepsPlace(u)
      BY <3>1 DEF StoreTokens, KeepsPlace, TypeInv, TypeOK
    <3>3. mem'.logins = mem.logins /\ UNCHANGED <<now, disk, submitted>>
      BY <3>1 DEF StoreTokens, TypeInv, TypeOK, CacheState
    <3>4. QED
      BY <3>2, <3>3, LoginKept
  <2>6. CASE ChargeRefused(t)
    BY <2>6, RefusalKeepsLogin
  <2>7. CASE ChargeLogin(t)
    BY <2>7, ChargeKeepsWithin
  <2>8. CASE SaveCharge(t)
    <3>1. disk' = mem /\ UNCHANGED <<now, mem, op, call, paid, submitted>>
          /\ pc[t] = "saveCharge" /\ pc' = [pc EXCEPT ![t] = "tm"]
      BY <2>8 DEF SaveCharge, Saved
    <3>2. LedgersWithin' /\ AllCharged'
      BY <3>1 DEF LoginInv, LedgersWithin, Within, AllCharged, Live
    <3>3. PaidUp'
      BY <3>1 DEF LoginInv, PaidUp, Pays, HasSaved, Paid, Live, TypeInv, TypeOK
    <3>4. QED
      BY <3>2, <3>3 DEF LoginInv
  <2>9. CASE NewDevice(t)
    <3>1. mem'.logins = mem.logins /\ UNCHANGED <<now, disk, op, call, paid, submitted>>
          /\ pc[t] = "tm" /\ pc' = [pc EXCEPT ![t] = "saveTm"]
      BY <2>9 DEF NewDevice, TypeInv, TypeOK, CacheState
    <3>2. LedgersWithin' /\ AllCharged'
      BY <3>1 DEF LoginInv, LedgersWithin, Within, AllCharged, Live
    <3>3. PaidUp'
      BY <3>1 DEF LoginInv, PaidUp, Pays, HasSaved, Paid, Live, TypeInv, TypeOK
    <3>4. QED
      BY <3>2, <3>3 DEF LoginInv
  <2>10. CASE SaveTm(t) \/ KnownDevice(t)
    BY <2>10, SubmitKeepsLogin DEF SaveTm, KnownDevice, Saved
  <2>11. QED
    BY <1>3, <2>1, <2>2, <2>3, <2>4, <2>5, <2>6, <2>7, <2>8, <2>9, <2>10 DEF Proceed
<1>4. ASSUME NEW t \in Task, Abandon(t) PROVE LoginInv'
  BY <1>4, ReturnKeepsPlace, LoginKept DEF Abandon
<1>5. CASE Restart
  <2>1. LedgersWithin' /\ AllCharged'
    BY <1>5 DEF Restart, LoginInv, LedgersWithin, Within, AllCharged, Live
  <2>2. PaidUp'
    BY <1>5 DEF Restart, PaidUp, Pays, HasSaved
  <2>3. QED
    BY <2>1, <2>2 DEF LoginInv
<1>6. CASE Tick
  <2>1. now' = now + 1 /\ UNCHANGED <<mem, disk, pc, op, call, paid, submitted>>
    BY <1>6 DEF Tick, taskVars
  <2>2. \A c \in Charge : now' - c.at < Window => now - c.at < Window
    <3>1. \A c \in Charge : c.at \in Nat
      BY DEF Charge
    <3>2. QED
      BY <2>1, <3>1, BudgetAssumption DEF TypeInv, TypeOK
  <2>3. LedgersWithin'
    BY <2>1 DEF LoginInv, LedgersWithin, Within
  <2>4. AllCharged'
    <3>1. Live(submitted)' \subseteq Live(submitted)
      BY <2>1, <2>2 DEF Live, TypeInv, TypeOK
    <3>2. QED
      BY <2>1, <3>1 DEF LoginInv, AllCharged
  <2>5. PaidUp'
    <3>1. ASSUME NEW u \in Task PROVE Live({Paid(u)})' \subseteq Live({Paid(u)})
      <4>1. Paid(u) \in Charge /\ Paid(u)' = Paid(u)
        BY <2>1 DEF Paid, Charge, TypeInv, TypeOK
      <4>2. QED
        BY <2>2, <4>1 DEF Live
    <3>2. QED
      BY <2>1, <3>1 DEF LoginInv, PaidUp, Pays, HasSaved
  <2>6. QED
    BY <2>3, <2>4, <2>5 DEF LoginInv
<1>7. CASE UNCHANGED vars
  BY <1>7 DEF vars, taskVars, LoginInv, LedgersWithin, Within, AllCharged, PaidUp,
              Pays, HasSaved, Paid, Live
<1>8. QED
  BY <1>1, <1>2, <1>3, <1>4, <1>5, <1>6, <1>7 DEF Next, Quiet

\* The login budget holds across any crashes and failed saves (Auth!LoginBudget).
THEOREM BudgetHolds == Spec => []LoginBudget
  BY TypeInit, TypeStep, LoginInit, LoginStep, BudgetFollows, PTL DEF Spec

-----------------------------------------------------------------------------
(***************************************************************************)
(* The device identity.  Once an id has been sent, the ids in memory and  *)
(* on disk are that one or one configured since; a task about to send an   *)
(* id it found in memory found one that is on disk, because its charge was *)
(* saved with it, or because an MFA completion answers a login that sent   *)
(* it.                                                                     *)
(***************************************************************************)
DevicesKnown ==
  /\ 0 \notin devices
  /\ devices # {} => {mem.tm, disk.tm} \subseteq devices \cup Configured
\* tm_session_id would find its id in memory, and it is on disk.
Settled ==
  /\ mem.tm # 0 /\ disk.tm = mem.tm
  /\ cfg.device # 0 => mem.tm = cfg.device
ChallengeSent ==
  /\ challenge => Settled
  /\ \A t \in Task : op[t] = "mfa" \/ pc[t] = "authorize" => Settled
DeviceReady ==
  \A t \in Task :
    /\ pc[t] = "tm" => disk.tm = mem.tm
    /\ pc[t] = "saveTm" => mem.tm # 0 /\ (cfg.device # 0 => mem.tm = cfg.device)
CallsNumbered == \A t \in Task : pc[t] # "idle" => call[t] # 0
DeviceInv == DevicesKnown /\ ChallengeSent /\ DeviceReady /\ CallsNumbered

\* Steps that bring no task closer to sending an id.
StaysBack(u) ==
  /\ pc'[u] \in {"tm", "saveTm", "authorize"} => pc[u] = pc'[u]
  /\ pc'[u] # "idle" => pc[u] # "idle" /\ call'[u] = call[u]
  /\ op'[u] = "mfa" => op[u] = "mfa"

LEMMA DeviceKept ==
  ASSUME DeviceInv, mem'.tm = mem.tm, disk'.tm = disk.tm \/ disk'.tm = mem.tm,
         cfg' = cfg, devices' = devices, challenge' => challenge \/ Settled,
         \A u \in Task : StaysBack(u)
  PROVE  DeviceInv'
<1>1. DevicesKnown'
  BY DEF DeviceInv, DevicesKnown, Configured
<1>2. ChallengeSent'
  BY DEF DeviceInv, ChallengeSent, StaysBack, Settled
<1>3. DeviceReady'
  BY DEF DeviceInv, DeviceReady, StaysBack
<1>4. CallsNumbered'
  BY DEF DeviceInv, CallsNumbered, StaysBack
<1>5. QED
  BY <1>1, <1>2, <1>3, <1>4 DEF DeviceInv

LEMMA ReturnStaysBack ==
  ASSUME TypeInv, NEW t \in Task, Return(t) PROVE \A u \in Task : StaysBack(u)
  BY DEF Return, Goto, StaysBack, TypeInv, TypeOK

LEMMA FallbackStaysBack ==
  ASSUME TypeInv, NEW t \in Task, pc[t] # "idle", Fallback(t)
  PROVE  \A u \in Task : StaysBack(u)
<1>1. CASE Return(t)
  BY <1>1, ReturnStaysBack
<1>2. CASE ~Return(t)
  BY <1>2 DEF Fallback, Goto, StaysBack, TypeInv, TypeOK
<1>3. QED
  BY <1>1, <1>2

LEMMA DeviceInit == Init => DeviceInv
<1> SUFFICES ASSUME Init PROVE DeviceInv
  OBVIOUS
<1>1. DevicesKnown
  BY DEF Init, DevicesKnown
<1>2. ChallengeSent /\ DeviceReady /\ CallsNumbered
  BY DEF Init, ChallengeSent, DeviceReady, CallsNumbered
<1>3. QED
  BY <1>1, <1>2 DEF DeviceInv

LEMMA BeginDevice ==
  ASSUME TypeInv, DeviceInv, NEW t \in Task, Call(t) PROVE DeviceInv'
<1>1. PICK o \in Op : Begin(t, o) /\ (Goto(t, "lock") \/ Goto(t, "saveClear"))
                      /\ (o = "mfa" => challenge)
  BY DEF Call, CallAccess, CallLogin, CallCompleteMfa, CallLogout, Op
<1>2. mem'.tm = mem.tm /\ UNCHANGED <<cfg, disk, devices, challenge>>
  BY DEF Call, CallAccess, CallLogin, CallCompleteMfa, CallLogout, history, cacheVars,
         TypeInv, TypeOK, CacheState
<1>3. DevicesKnown' /\ DeviceReady'
  BY <1>1, <1>2 DEF DeviceInv, DevicesKnown, Configured, DeviceReady, Goto, TypeInv, TypeOK
<1>4. ChallengeSent'
  BY <1>1, <1>2 DEF DeviceInv, ChallengeSent, Settled, Begin, Goto, TypeInv, TypeOK
<1>5. CallsNumbered'
  <2>1. calls + 1 # 0
    BY DEF TypeInv, TypeOK
  <2>2. QED
    BY <1>1, <2>1 DEF DeviceInv, CallsNumbered, Begin, Goto, TypeInv, TypeOK
<1>6. QED
  BY <1>3, <1>4, <1>5 DEF DeviceInv

LEMMA SubmitDevice ==
  ASSUME TypeInv, DeviceInv, NEW t \in Task, SaveTm(t) \/ KnownDevice(t)
  PROVE  DeviceInv' /\ devices' = {mem.tm} /\ (cfg.device # 0 => mem.tm = cfg.device)
<1>1. UNCHANGED <<mem, challenge, op, call, cfg>> /\ pc' = [pc EXCEPT ![t] = "authorize"]
      /\ devices' = {mem.tm}
  BY DEF SaveTm, KnownDevice, Submit, Goto
<1>2. call[t] # 0
  BY DEF SaveTm, KnownDevice, DeviceInv, CallsNumbered
<1>3. mem.tm # 0 /\ disk'.tm = mem.tm /\ (cfg.device # 0 => mem.tm = cfg.device)
      /\ pc[t] # "idle"
  <2>1. CASE SaveTm(t)
    BY <2>1 DEF SaveTm, Saved, DeviceInv, DeviceReady
  <2>2. CASE KnownDevice(t)
    BY <1>2, <2>2 DEF KnownDevice, DeviceFor, DeviceInv, DeviceReady
  <2>3. QED
    BY <2>1, <2>2
<1>4. DevicesKnown'
  BY <1>1, <1>3 DEF DevicesKnown
<1>5. ChallengeSent'
  BY <1>1, <1>3 DEF ChallengeSent, Settled
<1>6. DeviceReady' /\ CallsNumbered'
  BY <1>1, <1>3 DEF DeviceInv, DeviceReady, CallsNumbered, TypeInv, TypeOK
<1>7. QED
  BY <1>1, <1>3, <1>4, <1>5, <1>6 DEF DeviceInv

LEMMA DeviceStep == TypeInv /\ FlightInv /\ DeviceInv /\ [Next]_vars => DeviceInv'
<1> SUFFICES ASSUME TypeInv, FlightInv, DeviceInv, [Next]_vars PROVE DeviceInv'
  OBVIOUS
<1> USE DEF Goto, history, cacheVars
<1>1. ASSUME NEW t \in Task, Call(t) PROVE DeviceInv'
  BY <1>1, BeginDevice
<1>2. ASSUME NEW t \in Task, Acquire(t) PROVE DeviceInv'
  <2>1. UNCHANGED <<cfg, mem, disk, devices, challenge, op, call>> /\ pc[t] = "lock"
        /\ (\/ pc' = [pc EXCEPT ![t] = "check"]
            \/ pc' = [pc EXCEPT ![t] = "charge"]
            \/ pc' = [pc EXCEPT ![t] = "tm"] /\ op[t] = "mfa")
    <3>1. op[t] \in {"access", "login", "mfa"}
      BY <1>2 DEF Acquire, TypeInv, OpOK
    <3>2. QED
      BY <1>2, <3>1 DEF Acquire
  <2>2. op[t] = "mfa" => disk.tm = mem.tm
    BY DEF DeviceInv, ChallengeSent, Settled
  <2>3. DevicesKnown' /\ ChallengeSent' /\ CallsNumbered'
    BY <2>1 DEF DeviceInv, DevicesKnown, Configured, ChallengeSent, Settled, CallsNumbered,
                TypeInv, TypeOK
  <2>4. DeviceReady'
    BY <2>1, <2>2 DEF DeviceInv, DeviceReady, TypeInv, TypeOK
  <2>5. QED
    BY <2>3, <2>4 DEF DeviceInv
<1>3. ASSUME NEW t \in Task, Proceed(t) PROVE DeviceInv'
  <2>1. CASE LogoutSave(t) \/ CheckHit(t) \/ CheckBackoff(t) \/ StoreSave(t) \/ StoreSaveFailed(t)
    <3>1. Return(t) /\ UNCHANGED <<cfg, mem, devices, challenge>> /\ (disk' = disk \/ disk' = mem)
      BY <2>1 DEF LogoutSave, CheckHit, CheckBackoff, StoreSave, StoreSaveFailed, Saved, SaveFailed
    <3>2. QED
      BY <3>1, ReturnStaysBack, DeviceKept
  <2>2. CASE SaveChargeFailed(t) \/ SaveTmFailed(t) \/ AuthorizeRejected(t) \/ ExchangeRejected(t)
    <3>1. Return(t) /\ UNCHANGED <<cfg, mem, devices, challenge>> /\ (disk' = disk \/ disk' = mem)
      BY <2>2 DEF SaveChargeFailed, SaveTmFailed, AuthorizeRejected, ExchangeRejected, SaveFailed
    <3>2. QED
      BY <3>1, ReturnStaysBack, DeviceKept
  <2>3. CASE AuthorizeChallenged(t)
    <3>1. Return(t) /\ UNCHANGED <<cfg, mem, disk, devices>>
      BY <2>3 DEF AuthorizeChallenged
    <3>2. Settled
      BY <2>3 DEF AuthorizeChallenged, DeviceInv, ChallengeSent
    <3>3. QED
      BY <3>1, <3>2, ReturnStaysBack, DeviceKept
  <2>4. CASE CheckNoRefreshToken(t) \/ RefreshNoSecret(t) \/ RefreshRejected(t)
    <3>1. Fallback(t) /\ UNCHANGED <<cfg, mem, disk, devices, challenge>> /\ pc[t] # "idle"
      BY <2>4 DEF CheckNoRefreshToken, RefreshNoSecret, RefreshRejected, RefreshFailure, CanRefresh
    <3>2. QED
      BY <3>1, FallbackStaysBack, DeviceKept
  <2>5. CASE SendRefresh(t) \/ AuthorizeGranted(t)
    <3>1. \A u \in Task : StaysBack(u)
      BY <2>5 DEF SendRefresh, CanRefresh, AuthorizeGranted, StaysBack, TypeInv, TypeOK
    <3>2. QED
      BY <2>5, <3>1, DeviceKept DEF SendRefresh, AuthorizeGranted
  <2>6. CASE RefreshAnswered(t) \/ ExchangeAnswered(t)
    <3>1. StoreTokens(t) /\ pc[t] # "idle"
      BY <2>6 DEF RefreshAnswered, ExchangeAnswered
    <3>2. \A u \in Task : StaysBack(u)
      BY <3>1 DEF StoreTokens, StaysBack, TypeInv, TypeOK
    <3>3. mem'.tm = mem.tm /\ UNCHANGED <<cfg, disk, devices, challenge>>
      BY <3>1 DEF StoreTokens, TypeInv, TypeOK, CacheState
    <3>4. QED
      BY <3>2, <3>3, DeviceKept
  <2>7. CASE ChargeRefused(t) \/ ChargeLogin(t)
    <3>1. mem'.tm = mem.tm /\ UNCHANGED <<cfg, disk, devices, challenge>>
      BY <2>7 DEF ChargeRefused, ChargeLogin, TypeInv, TypeOK, CacheState
    <3>2. \A u \in Task : StaysBack(u)
      <4>1. CASE ChargeRefused(t)
        BY <4>1, ReturnStaysBack DEF ChargeRefused
      <4>2. CASE ChargeLogin(t)
        BY <4>2 DEF ChargeLogin, StaysBack, TypeInv, TypeOK
      <4>3. QED
        BY <2>7, <4>1, <4>2
    <3>3. QED
      BY <3>1, <3>2, DeviceKept
  <2>8. CASE SaveCharge(t)
    <3>1. disk' = mem /\ UNCHANGED <<cfg, mem, devices, challenge, op, call>>
          /\ pc[t] = "saveCharge" /\ pc' = [pc EXCEPT ![t] = "tm"]
      BY <2>8 DEF SaveCharge, Saved
    <3>2. DevicesKnown' /\ ChallengeSent'
      BY <3>1 DEF DeviceInv, DevicesKnown, Configured, ChallengeSent, Settled, TypeInv, TypeOK
    <3>3. DeviceReady' /\ CallsNumbered'
      BY <3>1 DEF DeviceInv, DeviceReady, CallsNumbered, TypeInv, TypeOK
    <3>4. QED
      BY <3>2, <3>3 DEF DeviceInv
  <2>9. CASE NewDevice(t)
    <3>1. mem'.tm = DeviceFor(t) /\ DeviceFor(t) # mem.tm
          /\ UNCHANGED <<cfg, disk, devices, challenge, op, call>>
          /\ pc[t] = "tm" /\ pc' = [pc EXCEPT ![t] = "saveTm"]
      BY <2>9 DEF NewDevice, TypeInv, TypeOK, CacheState
    <3>2. ~Settled /\ call[t] # 0
      BY <3>1 DEF Settled, DeviceFor, DeviceInv, CallsNumbered
    <3>3. \A u \in Task : u # t => pc[u] # "tm"
      BY <3>1 DEF FlightInv, Holding
    <3>4. DevicesKnown'
      <4>1. cfg.device \in Nat
        BY SettingsAssumption DEF TypeInv, TypeOK
      <4>2. ASSUME devices # {} PROVE mem'.tm \in devices \cup Configured
        <5>1. mem.tm # 0
          BY <4>2 DEF DeviceInv, DevicesKnown, Configured
        <5>2. mem'.tm = cfg.device /\ cfg.device # 0
          BY <3>1, <5>1 DEF DeviceFor
        <5>3. QED
          BY <5>2 DEF Configured
      <4>3. QED
        BY <3>1, <4>2 DEF DeviceInv, DevicesKnown, Configured
    <3>5. ChallengeSent' /\ CallsNumbered'
      <4>1. ~challenge /\ \A u \in Task : op[u] # "mfa" /\ pc[u] # "authorize"
        BY <3>2 DEF DeviceInv, ChallengeSent
      <4>2. QED
        BY <3>1, <4>1 DEF DeviceInv, ChallengeSent, CallsNumbered, TypeInv, TypeOK
    <3>6. DeviceReady'
      <4>1. mem'.tm # 0 /\ (cfg.device # 0 => mem'.tm = cfg.device)
        BY <3>1, <3>2 DEF DeviceFor
      <4>2. \A u \in Task : pc'[u] # "tm"
        BY <3>1, <3>3 DEF TypeInv, TypeOK
      <4>3. QED
        BY <3>1, <4>1, <4>2 DEF DeviceReady
    <3>7. QED
      BY <3>4, <3>5, <3>6 DEF DeviceInv
  <2>10. CASE SaveTm(t) \/ KnownDevice(t)
    BY <2>10, SubmitDevice
  <2>11. QED
    BY <1>3, <2>1, <2>2, <2>3, <2>4, <2>5, <2>6, <2>7, <2>8, <2>9, <2>10 DEF Proceed
<1>4. ASSUME NEW t \in Task, Abandon(t) PROVE DeviceInv'
  BY <1>4, ReturnStaysBack, DeviceKept DEF Abandon
<1>5. CASE Restart
  <2>1. DevicesKnown'
    BY <1>5 DEF Restart, DeviceInv, DevicesKnown, Configured
  <2>2. ChallengeSent' /\ DeviceReady' /\ CallsNumbered'
    BY <1>5 DEF Restart, ChallengeSent, DeviceReady, CallsNumbered
  <2>3. QED
    BY <2>1, <2>2 DEF DeviceInv
<1>6. CASE Tick \/ UNCHANGED vars
  <2>1. UNCHANGED <<cfg, mem, disk, devices, challenge, pc, op, call>>
    BY <1>6 DEF Tick, vars, taskVars
  <2>2. QED
    BY <2>1 DEF DeviceInv, DevicesKnown, Configured, ChallengeSent, Settled, DeviceReady,
                CallsNumbered
<1>7. QED
  BY <1>1, <1>2, <1>3, <1>4, <1>5, <1>6 DEF Next, Quiet

LEMMA SubmitsOnly ==
  ASSUME TypeInv, [Next]_vars, NEW t \in Task,
         pc[t] # "authorize", pc'[t] = "authorize"
  PROVE  SaveTm(t) \/ KnownDevice(t)
<1> USE DEF Goto, PC, Holding
<1>1. ASSUME NEW u \in Task, Call(u) \/ Acquire(u) PROVE FALSE
  <2>1. CASE Call(u)
    BY <2>1 DEF Call, CallAccess, CallLogin, CallCompleteMfa, CallLogout, TypeInv, TypeOK
  <2>2. CASE Acquire(u)
    <3>1. op[u] \in {"access", "login", "mfa"}
      BY <2>2 DEF Acquire, TypeInv, OpOK
    <3>2. QED
      BY <2>2, <3>1 DEF Acquire, TypeInv, TypeOK
  <2>3. QED
    BY <1>1, <2>1, <2>2
<1>2. ASSUME NEW u \in Task, Return(u) \/ Fallback(u) PROVE FALSE
  BY <1>2 DEF Return, Fallback, TypeInv, TypeOK
<1>3. ASSUME NEW u \in Task, Proceed(u) \/ Abandon(u) PROVE SaveTm(t) \/ KnownDevice(t)
  <2>1. CASE SaveTm(u) \/ KnownDevice(u)
    BY <2>1 DEF SaveTm, KnownDevice, Submit, TypeInv, TypeOK
  <2>2. CASE SendRefresh(u) \/ ChargeLogin(u) \/ SaveCharge(u) \/ NewDevice(u)
             \/ AuthorizeGranted(u) \/ RefreshAnswered(u) \/ ExchangeAnswered(u)
    BY <2>2 DEF SendRefresh, ChargeLogin, SaveCharge, NewDevice, AuthorizeGranted,
                RefreshAnswered, ExchangeAnswered, StoreTokens, TypeInv, TypeOK
  <2>3. QED
    BY <1>2, <1>3, <2>1, <2>2 DEF Proceed, Abandon, LogoutSave, CheckHit, CheckBackoff,
         CheckNoRefreshToken, RefreshNoSecret, RefreshRejected, RefreshFailure, StoreSave,
         StoreSaveFailed, ChargeRefused, SaveChargeFailed, SaveTmFailed, AuthorizeRejected,
         AuthorizeChallenged, ExchangeRejected
<1>4. CASE Restart \/ Tick \/ UNCHANGED vars
  BY <1>4 DEF Restart, Tick, vars, taskVars
<1>5. QED
  BY <1>1, <1>3, <1>4 DEF Next, Quiet

\* A password is submitted as the configured device, and without one as the device
\* of the submission before, restarts included, unless another was configured in
\* between (Auth!OneDevice).
THEOREM DeviceIsStable == Spec => OneDevice
<1>1. TypeInv /\ DeviceInv /\ [Next]_vars =>
        [\A t \in Task : pc[t] # "authorize" /\ pc'[t] = "authorize" =>
           IF cfg.device # 0 THEN devices' = {cfg.device}
           ELSE devices # {} => devices' \subseteq devices]_vars
  <2> SUFFICES ASSUME TypeInv, DeviceInv, [Next]_vars, NEW t \in Task,
                      pc[t] # "authorize", pc'[t] = "authorize"
               PROVE  IF cfg.device # 0 THEN devices' = {cfg.device}
                      ELSE devices # {} => devices' \subseteq devices
    OBVIOUS
  <2>1. devices' = {mem.tm} /\ (cfg.device # 0 => mem.tm = cfg.device)
    BY SubmitsOnly, SubmitDevice
  <2>2. cfg.device = 0 /\ devices # {} => mem.tm \in devices
    BY DEF DeviceInv, DevicesKnown, Configured
  <2>3. QED
    BY <2>1, <2>2
<1>2. QED
  BY <1>1, TypeInit, TypeStep, FlightInit, FlightStep, DeviceInit, DeviceStep, PTL
     DEF Spec, OneDevice

-----------------------------------------------------------------------------
(***************************************************************************)
(* A refresh token is spent at most once.  A pair is named by the call     *)
(* that obtained it, so the argument is about those numbers: a running     *)
(* call's number is no other's, it has never been sent, and it is in the   *)
(* cache only while that call stores it.                                   *)
(***************************************************************************)
NumbersBound ==
  /\ calls >= 1
  /\ mem.token <= calls /\ disk.token <= calls
  /\ \A n \in spent : n <= calls /\ n # 0
  /\ \A t \in Task : call[t] <= calls /\ used[t] <= calls
CacheUnspent == mem.token \notin spent /\ disk.token \notin spent
CallsFresh ==
  \A t \in Task : pc[t] # "idle" =>
    /\ call[t] # 0 /\ call[t] \notin spent
    /\ mem.token = call[t] => pc[t] = "store"
    /\ disk.token = call[t] => pc[t] = "store"
    /\ \A u \in Task : used[u] # call[t]
    /\ \A u \in Task \ {t} : call[u] # call[t]
InFlight ==
  \A t \in Task : /\ pc[t] = "refresh" => used[t] \notin spent
                  /\ pc[t] = "store" => mem.token \in {0, call[t]}
TokenInv == NumbersBound /\ CacheUnspent /\ CallsFresh /\ InFlight

\* Steps after which no task is running or refreshing that was not before.
WindsDown(u) ==
  \/ pc'[u] = "idle" /\ call'[u] = 0 /\ used'[u] = 0
  \/ /\ pc[u] # "idle" /\ pc'[u] # "refresh"
     /\ (pc[u] = "store" <=> pc'[u] = "store")
     /\ call'[u] = call[u] /\ used'[u] = used[u]
  \/ pc'[u] = pc[u] /\ call'[u] = call[u] /\ used'[u] = used[u]

LEMMA TokenKept ==
  ASSUME TypeInv, TokenInv, mem'.token = mem.token \/ mem'.token = 0,
         disk'.token = disk.token \/ disk'.token = mem.token,
         UNCHANGED <<calls, spent>>,
         \A u \in Task : WindsDown(u)
  PROVE  TokenInv'
<1>1. NumbersBound'
  BY DEF TokenInv, NumbersBound, WindsDown, TypeInv, TypeOK, CacheState
<1>2. CacheUnspent'
  BY DEF TokenInv, CacheUnspent, NumbersBound
<1>3. ASSUME NEW t \in Task, pc'[t] # "idle"
      PROVE  /\ call'[t] # 0 /\ call'[t] \notin spent'
             /\ mem'.token = call'[t] => pc'[t] = "store"
             /\ disk'.token = call'[t] => pc'[t] = "store"
             /\ \A u \in Task : used'[u] # call'[t]
             /\ \A u \in Task \ {t} : call'[u] # call'[t]
  <2>1. pc[t] # "idle" /\ call'[t] = call[t] /\ (pc[t] = "store" => pc'[t] = "store")
    BY <1>3 DEF WindsDown
  <2>2. call[t] # 0 /\ call[t] \notin spent
        /\ (mem.token = call[t] => pc[t] = "store") /\ (disk.token = call[t] => pc[t] = "store")
    BY <2>1 DEF TokenInv, CallsFresh
  <2>3. \A u \in Task : used'[u] # call[t]
    BY <2>1, <2>2 DEF TokenInv, CallsFresh, WindsDown
  <2>4. \A u \in Task \ {t} : call'[u] # call[t]
    BY <2>1, <2>2 DEF TokenInv, CallsFresh, WindsDown
  <2>5. QED
    BY <2>1, <2>2, <2>3, <2>4
<1>4. CallsFresh'
  BY <1>3 DEF CallsFresh
<1>5. InFlight'
  BY DEF TokenInv, InFlight, WindsDown
<1>6. QED
  BY <1>1, <1>2, <1>4, <1>5 DEF TokenInv

LEMMA ReturnWindsDown ==
  ASSUME TypeInv, NEW t \in Task, Return(t) PROVE \A u \in Task : WindsDown(u)
  BY DEF Return, Goto, WindsDown, TypeInv, TypeOK

LEMMA FallbackWindsDown ==
  ASSUME TypeInv, NEW t \in Task, pc[t] \in {"check", "refresh"}, Fallback(t)
  PROVE  \A u \in Task : WindsDown(u)
<1>1. CASE Return(t)
  BY <1>1, ReturnWindsDown
<1>2. CASE ~Return(t)
  BY <1>2 DEF Fallback, Goto, WindsDown, TypeInv, TypeOK
<1>3. QED
  BY <1>1, <1>2

LEMMA TokenInit == Init => TokenInv
<1> SUFFICES ASSUME Init PROVE TokenInv
  OBVIOUS
<1>1. mem.token \in {0, 1} /\ disk.token \in {0, 1}
  BY DEF Init, EmptyCache, Inherited
<1>2. QED
  BY <1>1 DEF Init, TokenInv, NumbersBound, CacheUnspent, CallsFresh, InFlight

LEMMA BeginToken ==
  ASSUME TypeInv, TokenInv, NEW t \in Task, Call(t) PROVE TokenInv'
<1>1. /\ pc[t] = "idle" /\ calls' = calls + 1 /\ call' = [call EXCEPT ![t] = calls + 1]
      /\ UNCHANGED <<used, disk, spent>>
      /\ \E where \in {"lock", "saveClear"} : pc' = [pc EXCEPT ![t] = where]
  BY DEF Call, CallAccess, CallLogin, CallCompleteMfa, CallLogout, Begin, Goto, history, cacheVars
<1>2. mem'.token = mem.token \/ mem'.token = 0
  BY DEF Call, CallAccess, CallLogin, CallCompleteMfa, CallLogout, cacheVars,
         TypeInv, TypeOK, CacheState
<1>3. calls \in Nat /\ mem.token \in Nat /\ disk.token \in Nat /\ spent \subseteq Nat
      /\ call \in [Task -> Nat] /\ used \in [Task -> Nat] /\ pc \in [Task -> PC]
  BY DEF TypeInv, TypeOK, CacheState
<1>4. NumbersBound'
  BY <1>1, <1>2, <1>3 DEF TokenInv, NumbersBound
<1>5. CacheUnspent'
  BY <1>1, <1>2 DEF TokenInv, CacheUnspent, NumbersBound
<1>6. CallsFresh'
  <2>1. ASSUME NEW u \in Task, u # t, pc'[u] # "idle"
        PROVE  /\ call'[u] # 0 /\ call'[u] \notin spent'
               /\ mem'.token = call'[u] => pc'[u] = "store"
               /\ disk'.token = call'[u] => pc'[u] = "store"
               /\ \A v \in Task : used'[v] # call'[u]
               /\ \A v \in Task \ {u} : call'[v] # call'[u]
    <3>1. pc'[u] = pc[u] /\ call'[u] = call[u] /\ call'[t] = calls + 1
      BY <1>1, <1>3, <2>1
    <3>2. call[u] # calls + 1
      BY <1>3 DEF TokenInv, NumbersBound
    <3>3. QED
      BY <1>1, <1>2, <1>3, <2>1, <3>1, <3>2 DEF TokenInv, CallsFresh
  <2>2. /\ call'[t] # 0 /\ call'[t] \notin spent'
        /\ mem'.token # call'[t] /\ disk'.token # call'[t]
        /\ \A v \in Task : used'[v] # call'[t]
        /\ \A v \in Task \ {t} : call'[v] # call'[t]
    BY <1>1, <1>2, <1>3 DEF TokenInv, NumbersBound
  <2>3. QED
    BY <2>1, <2>2 DEF CallsFresh
<1>7. InFlight'
  BY <1>1, <1>2, <1>3 DEF TokenInv, InFlight
<1>8. QED
  BY <1>4, <1>5, <1>6, <1>7 DEF TokenInv

LEMMA SendToken ==
  ASSUME TypeInv, FlightInv, TokenInv, NEW t \in Task, SendRefresh(t) PROVE TokenInv'
<1>1. /\ pc[t] = "check" /\ mem.token # 0
      /\ UNCHANGED <<mem, disk, call, calls, spent>>
      /\ pc' = [pc EXCEPT ![t] = "refresh"] /\ used' = [used EXCEPT ![t] = mem.token]
  BY DEF SendRefresh, CanRefresh, Goto, history, cacheVars
<1>2. mem.token \in Nat /\ used \in [Task -> Nat] /\ pc \in [Task -> PC]
  BY DEF TypeInv, TypeOK, CacheState
<1>3. \A u \in Task : pc[u] # "store"
  BY <1>1 DEF FlightInv, Holding
<1>4. \A u \in Task : pc[u] # "idle" => mem.token # call[u]
  BY <1>3 DEF TokenInv, CallsFresh
<1>5. NumbersBound' /\ CacheUnspent'
  BY <1>1, <1>2 DEF TokenInv, NumbersBound, CacheUnspent
<1>6. CallsFresh'
  <2>1. ASSUME NEW u \in Task, pc'[u] # "idle"
        PROVE  /\ call'[u] # 0 /\ call'[u] \notin spent'
               /\ mem'.token = call'[u] => pc'[u] = "store"
               /\ disk'.token = call'[u] => pc'[u] = "store"
               /\ \A v \in Task : used'[v] # call'[u]
               /\ \A v \in Task \ {u} : call'[v] # call'[u]
    <3>1. pc[u] # "idle"
      BY <1>1, <1>2, <2>1
    <3>2. \A v \in Task : used'[v] # call[u]
      BY <1>1, <1>2, <1>4, <3>1 DEF TokenInv, CallsFresh
    <3>3. QED
      BY <1>1, <1>2, <1>3, <1>4, <3>1, <3>2 DEF TokenInv, CallsFresh
  <2>2. QED
    BY <2>1 DEF CallsFresh
<1>7. InFlight'
  BY <1>1, <1>2 DEF TokenInv, InFlight, CacheUnspent
<1>8. QED
  BY <1>5, <1>6, <1>7 DEF TokenInv

LEMMA StoreToken ==
  ASSUME TypeInv, FlightInv, TokenInv, NEW t \in Task, pc[t] \in {"refresh", "exchange"},
         StoreTokens(t)
  PROVE  TokenInv'
<1>1. /\ mem'.token = call[t] /\ UNCHANGED <<disk, call, used, calls, spent>>
      /\ pc' = [pc EXCEPT ![t] = "store"]
  BY DEF StoreTokens, Goto, history, TypeInv, TypeOK, CacheState
<1>2. call \in [Task -> Nat] /\ pc \in [Task -> PC]
  BY DEF TypeInv, TypeOK
<1>3. \A u \in Task : u # t => pc[u] # "store" /\ pc[u] # "refresh"
  BY DEF FlightInv, Holding
<1>4. pc[t] # "idle" /\ call[t] \notin spent
  BY DEF TokenInv, CallsFresh
<1>5. NumbersBound' /\ CacheUnspent'
  BY <1>1, <1>2, <1>4 DEF TokenInv, NumbersBound, CacheUnspent
<1>6. CallsFresh'
  BY <1>1, <1>2, <1>3, <1>4 DEF TokenInv, CallsFresh
<1>7. InFlight'
  BY <1>1, <1>2, <1>3 DEF TokenInv, InFlight
<1>8. QED
  BY <1>5, <1>6, <1>7 DEF TokenInv

LEMMA SaveToken ==
  ASSUME TypeInv, FlightInv, TokenInv, NEW t \in Task, StoreSave(t) PROVE TokenInv'
<1>1. /\ pc[t] = "store" /\ disk' = mem /\ UNCHANGED <<mem, calls>>
      /\ spent' = spent \cup ({used[t]} \ {0})
      /\ pc' = [pc EXCEPT ![t] = "idle"] /\ call' = [call EXCEPT ![t] = 0]
      /\ used' = [used EXCEPT ![t] = 0]
  BY DEF StoreSave, Saved, Return, Goto
<1>2. call \in [Task -> Nat] /\ used \in [Task -> Nat] /\ pc \in [Task -> PC]
      /\ mem.token \in Nat
  BY DEF TypeInv, TypeOK, CacheState
<1>3. \A u \in Task : u # t => pc[u] # "store" /\ pc[u] # "refresh"
  BY <1>1 DEF FlightInv, Holding
<1>4. mem.token \in {0, call[t]} /\ used[t] # call[t]
  BY <1>1 DEF TokenInv, InFlight, CallsFresh
<1>5. NumbersBound'
  BY <1>1, <1>2 DEF TokenInv, NumbersBound, TypeInv, TypeOK
<1>6. CacheUnspent'
  BY <1>1, <1>4 DEF TokenInv, CacheUnspent
<1>7. CallsFresh'
  BY <1>1, <1>2, <1>3 DEF TokenInv, CallsFresh
<1>8. InFlight'
  BY <1>1, <1>2, <1>3 DEF TokenInv, InFlight
<1>9. QED
  BY <1>5, <1>6, <1>7, <1>8 DEF TokenInv

LEMMA TokenStep == TypeInv /\ FlightInv /\ TokenInv /\ [Next]_vars => TokenInv'
<1> SUFFICES ASSUME TypeInv, FlightInv, TokenInv, [Next]_vars PROVE TokenInv'
  OBVIOUS
<1> USE DEF Goto, history, cacheVars
<1>1. ASSUME NEW t \in Task, Call(t) PROVE TokenInv'
  BY <1>1, BeginToken
<1>2. ASSUME NEW t \in Task, Acquire(t) PROVE TokenInv'
  <2>1. op[t] \in {"access", "login", "mfa"}
    BY <1>2 DEF Acquire, TypeInv, OpOK
  <2>2. \A u \in Task : WindsDown(u)
    BY <1>2, <2>1 DEF Acquire, WindsDown, TypeInv, TypeOK
  <2>3. QED
    BY <1>2, <2>2, TokenKept DEF Acquire
<1>3. ASSUME NEW t \in Task, Proceed(t) PROVE TokenInv'
  <2>1. CASE LogoutSave(t) \/ CheckHit(t) \/ CheckBackoff(t) \/ StoreSaveFailed(t)
    <3>1. Return(t) /\ UNCHANGED <<mem, calls, spent>> /\ (disk' = disk \/ disk' = mem)
      BY <2>1 DEF LogoutSave, CheckHit, CheckBackoff, StoreSaveFailed, Saved, SaveFailed
    <3>2. QED
      BY <3>1, ReturnWindsDown, TokenKept
  <2>2. CASE SaveChargeFailed(t) \/ SaveTmFailed(t) \/ AuthorizeRejected(t)
             \/ AuthorizeChallenged(t) \/ ExchangeRejected(t)
    <3>1. Return(t) /\ UNCHANGED <<mem, calls, spent>> /\ (disk' = disk \/ disk' = mem)
      BY <2>2 DEF SaveChargeFailed, SaveTmFailed, AuthorizeRejected, AuthorizeChallenged,
                  ExchangeRejected, SaveFailed
    <3>2. QED
      BY <3>1, ReturnWindsDown, TokenKept
  <2>3. CASE CheckNoRefreshToken(t) \/ RefreshNoSecret(t) \/ RefreshRejected(t)
    <3>1. Fallback(t) /\ UNCHANGED <<mem, disk, calls, spent>> /\ pc[t] \in {"check", "refresh"}
      BY <2>3 DEF CheckNoRefreshToken, RefreshNoSecret, RefreshRejected, RefreshFailure, CanRefresh
    <3>2. QED
      BY <3>1, FallbackWindsDown, TokenKept
  <2>4. CASE SendRefresh(t)
    BY <2>4, SendToken
  <2>5. CASE RefreshAnswered(t) \/ ExchangeAnswered(t)
    BY <2>5, StoreToken DEF RefreshAnswered, ExchangeAnswered
  <2>6. CASE StoreSave(t)
    BY <2>6, SaveToken
  <2>7. CASE ChargeRefused(t)
    <3>1. mem'.token = mem.token
      BY <2>7 DEF ChargeRefused, TypeInv, TypeOK, CacheState
    <3>2. QED
      BY <2>7, <3>1, ReturnWindsDown, TokenKept DEF ChargeRefused
  <2>8. CASE ChargeLogin(t) \/ SaveCharge(t) \/ NewDevice(t) \/ SaveTm(t) \/ KnownDevice(t)
             \/ AuthorizeGranted(t)
    <3>1. mem'.token = mem.token /\ (disk' = disk \/ disk' = mem) /\ UNCHANGED <<calls, spent>>
      BY <2>8 DEF ChargeLogin, SaveCharge, NewDevice, SaveTm, KnownDevice, Submit, Saved,
                  AuthorizeGranted, TypeInv, TypeOK, CacheState
    <3>2. \A u \in Task : WindsDown(u)
      BY <2>8 DEF ChargeLogin, SaveCharge, NewDevice, SaveTm, KnownDevice, Submit,
                  AuthorizeGranted, WindsDown, TypeInv, TypeOK
    <3>3. QED
      BY <3>1, <3>2, TokenKept
  <2>9. QED
    BY <1>3, <2>1, <2>2, <2>3, <2>4, <2>5, <2>6, <2>7, <2>8 DEF Proceed
<1>4. ASSUME NEW t \in Task, Abandon(t) PROVE TokenInv'
  BY <1>4, ReturnWindsDown, TokenKept DEF Abandon
<1>5. CASE Restart
  BY <1>5 DEF Restart, TokenInv, NumbersBound, CacheUnspent, CallsFresh, InFlight, TypeInv, TypeOK
<1>6. CASE Tick \/ UNCHANGED vars
  <2>1. UNCHANGED <<mem, disk, calls, spent>> /\ \A u \in Task : WindsDown(u)
    BY <1>6 DEF Tick, vars, taskVars, WindsDown
  <2>2. QED
    BY <2>1, TokenKept
<1>7. QED
  BY <1>1, <1>2, <1>3, <1>4, <1>5, <1>6 DEF Next, Quiet

\* No refresh token is sent again once its replacement is saved (Auth!NoSpentRefresh).
THEOREM RefreshSpentOnce == Spec => []NoSpentRefresh
<1>1. TokenInv => NoSpentRefresh
  BY DEF TokenInv, InFlight, NoSpentRefresh
<1>2. QED
  BY <1>1, TypeInit, TypeStep, FlightInit, FlightStep, TokenInit, TokenStep, PTL DEF Spec

-----------------------------------------------------------------------------
(***************************************************************************)
(* The backoff of failed refreshes.  The shift stops at the sixth failure, *)
(* which doubles enough if the cap is reached by then: 30 s and 900 s in   *)
(* the code.                                                               *)
(***************************************************************************)
CapReached == BackoffMax <= 32 * BackoffBase

BackoffInv ==
  /\ backoff.failures = 0 => failed = NoRun
  /\ backoff.failures > 0 => /\ failed.wait = RefreshDelay(backoff.failures)
                             /\ backoff.next = failed.at + failed.wait

(* A closed form of the doubling.                                          *)
LEMMA DelayDoubles ==
  ASSUME CapReached, NEW n \in Nat
  PROVE  RefreshDelay(n + 1) = DueDelay(IF n = 0 THEN 0 ELSE RefreshDelay(n))
<1> DEFINE B == BackoffBase
           M == BackoffMax
<1>0. B \in Nat /\ M \in Nat /\ M <= 32 * B
  BY TimeAssumption DEF CapReached
<1>1. /\ RefreshDelay(1) = SmallerOf(B, M) /\ RefreshDelay(2) = SmallerOf(2 * B, M)
      /\ RefreshDelay(3) = SmallerOf(4 * B, M) /\ RefreshDelay(4) = SmallerOf(8 * B, M)
      /\ RefreshDelay(5) = SmallerOf(16 * B, M)
  BY <1>0 DEF RefreshDelay, SmallerOf, Doublings
<1>2. ASSUME NEW m \in Nat, m >= 6 PROVE RefreshDelay(m) = M
  <2>1. SmallerOf(m, 6) = 6
    BY <1>2 DEF SmallerOf
  <2>2. Doublings[6] = 32
    BY DEF Doublings
  <2>3. RefreshDelay(m) = SmallerOf(B * 32, M)
    BY <2>1, <2>2 DEF RefreshDelay
  <2>4. QED
    BY <1>0, <2>3 DEF SmallerOf
<1> HIDE DEF B, M
<1>3. CASE n = 0
  BY <1>0, <1>1, <1>3 DEF DueDelay, B, M
<1>4. CASE n = 1 \/ n = 2 \/ n = 3 \/ n = 4
  <2>1. (n = 1 /\ n + 1 = 2) \/ (n = 2 /\ n + 1 = 3) \/ (n = 3 /\ n + 1 = 4) \/ (n = 4 /\ n + 1 = 5)
    BY <1>4
  <2>2. n # 0
    BY <1>4
  <2>3. RefreshDelay(n + 1) = DueDelay(RefreshDelay(n))
    BY <1>0, <1>1, <2>1 DEF DueDelay, SmallerOf, B, M
  <2>4. QED
    BY <2>2, <2>3
<1>5. CASE n = 5
  <2>1. RefreshDelay(6) = M
    BY <1>2
  <2>2. DueDelay(RefreshDelay(5)) = M
    BY <1>0, <1>1 DEF DueDelay, SmallerOf, B, M
  <2>3. QED
    BY <1>5, <2>1, <2>2
<1>6. CASE n >= 6
  <2>1. RefreshDelay(n + 1) = M /\ RefreshDelay(n) = M
    BY <1>2, <1>6
  <2>2. DueDelay(M) = M
    BY <1>0 DEF DueDelay, SmallerOf, B, M
  <2>3. QED
    BY <1>6, <2>1, <2>2
<1>7. QED
  BY <1>3, <1>4, <1>5, <1>6

LEMMA BackoffFails ==
  ASSUME CapReached, TypeInv, BackoffInv, NEW t \in Task, RefreshFailure(t)
  PROVE  BackoffInv'
<1> DEFINE n == backoff.failures
<1>1. /\ n \in Nat /\ now \in Nat
      /\ backoff' = [failures |-> n + 1, next |-> now + RefreshDelay(n + 1)]
      /\ failed' = [at |-> now, wait |-> DueDelay(failed.wait)]
  BY DEF RefreshFailure, TypeInv, TypeOK
<1>2. failed.wait = IF n = 0 THEN 0 ELSE RefreshDelay(n)
  BY <1>1 DEF BackoffInv, NoRun
<1>3. failed'.wait = RefreshDelay(n + 1)
  BY <1>1, <1>2, DelayDoubles
<1> HIDE DEF n
<1>4. backoff'.failures = n + 1 /\ backoff'.next = failed'.at + failed'.wait
  BY <1>1, <1>3
<1>5. QED
  BY <1>1, <1>3, <1>4 DEF BackoffInv

LEMMA BackoffInit == Init => BackoffInv
  BY DEF Init, BackoffInv, NoBackoff

LEMMA BackoffStep ==
  ASSUME CapReached, TypeInv, BackoffInv, [Next]_vars PROVE BackoffInv'
<1>1. CASE UNCHANGED <<backoff, failed>>
  BY <1>1 DEF BackoffInv, RefreshDelay
<1>2. CASE backoff' = NoBackoff /\ failed' = NoRun
  BY <1>2 DEF BackoffInv, NoBackoff
<1>3. ASSUME NEW t \in Task, Call(t) \/ Acquire(t) \/ Abandon(t) PROVE UNCHANGED <<backoff, failed>>
  BY <1>3 DEF Call, CallAccess, CallLogin, CallCompleteMfa, CallLogout, Acquire, Abandon, history
<1>4. ASSUME NEW t \in Task, Proceed(t) PROVE BackoffInv'
  <2>1. CASE RefreshNoSecret(t) \/ RefreshRejected(t)
    BY <2>1, BackoffFails DEF RefreshNoSecret, RefreshRejected
  <2>2. CASE StoreSave(t)
    BY <2>2, <1>2 DEF StoreSave
  <2>3. CASE \/ LogoutSave(t) \/ CheckHit(t) \/ CheckBackoff(t) \/ CheckNoRefreshToken(t)
             \/ SendRefresh(t) \/ StoreSaveFailed(t) \/ RefreshAnswered(t) \/ ExchangeAnswered(t)
    <3>1. UNCHANGED <<backoff, failed>>
      BY <2>3 DEF LogoutSave, CheckHit, CheckBackoff, CheckNoRefreshToken, SendRefresh,
                  StoreSaveFailed, RefreshAnswered, ExchangeAnswered, StoreTokens, history
    <3>2. QED
      BY <3>1, <1>1
  <2>4. CASE \/ ChargeRefused(t) \/ ChargeLogin(t) \/ SaveCharge(t) \/ SaveChargeFailed(t)
             \/ NewDevice(t) \/ SaveTm(t) \/ SaveTmFailed(t) \/ KnownDevice(t)
    <3>1. UNCHANGED <<backoff, failed>>
      BY <2>4 DEF ChargeRefused, ChargeLogin, SaveCharge, SaveChargeFailed, NewDevice, SaveTm,
                  SaveTmFailed, KnownDevice, Submit, history
    <3>2. QED
      BY <3>1, <1>1
  <2>5. CASE \/ AuthorizeRejected(t) \/ AuthorizeChallenged(t) \/ AuthorizeGranted(t)
             \/ ExchangeRejected(t)
    <3>1. UNCHANGED <<backoff, failed>>
      BY <2>5 DEF AuthorizeRejected, AuthorizeChallenged, AuthorizeGranted, ExchangeRejected, history
    <3>2. QED
      BY <3>1, <1>1
  <2>6. QED
    BY <1>4, <2>1, <2>2, <2>3, <2>4, <2>5 DEF Proceed
<1>5. CASE Restart
  BY <1>5, <1>2 DEF Restart
<1>6. CASE Tick \/ UNCHANGED vars
  BY <1>6, <1>1 DEF Tick, vars, history
<1>7. QED
  BY <1>1, <1>3, <1>4, <1>5, <1>6 DEF Next, Quiet

\* What a step does that sends no refresh.
SendsNone(t) ==
  \/ Return(t)
  \/ \E where \in PC \ {"refresh"} : Goto(t, where)

LEMMA FallbackSendsNone ==
  ASSUME NEW t \in Task, Fallback(t) PROVE SendsNone(t)
  BY DEF Fallback, SendsNone, PC, Holding

LEMMA OnlySendRefresh ==
  ASSUME TypeInv, NEW t \in Task, Proceed(t), ~SendRefresh(t) PROVE SendsNone(t)
<1> USE DEF SendsNone, PC, Holding
<1>1. CASE LogoutSave(t) \/ CheckHit(t) \/ CheckBackoff(t) \/ StoreSave(t) \/ StoreSaveFailed(t)
  BY <1>1 DEF LogoutSave, CheckHit, CheckBackoff, StoreSave, StoreSaveFailed
<1>2. CASE ChargeRefused(t) \/ SaveChargeFailed(t) \/ SaveTmFailed(t)
           \/ AuthorizeRejected(t) \/ AuthorizeChallenged(t) \/ ExchangeRejected(t)
  BY <1>2 DEF ChargeRefused, SaveChargeFailed, SaveTmFailed, AuthorizeRejected,
              AuthorizeChallenged, ExchangeRejected
<1>3. CASE CheckNoRefreshToken(t) \/ RefreshNoSecret(t) \/ RefreshRejected(t)
  BY <1>3, FallbackSendsNone
     DEF CheckNoRefreshToken, RefreshNoSecret, RefreshRejected, RefreshFailure
<1>4. CASE RefreshAnswered(t) \/ ExchangeAnswered(t)
  BY <1>4 DEF RefreshAnswered, ExchangeAnswered, StoreTokens
<1>5. CASE ChargeLogin(t) \/ SaveCharge(t) \/ NewDevice(t)
  BY <1>5 DEF ChargeLogin, SaveCharge, NewDevice
<1>6. CASE SaveTm(t) \/ KnownDevice(t)
  BY <1>6 DEF SaveTm, KnownDevice, Submit
<1>7. CASE AuthorizeGranted(t)
  BY <1>7 DEF AuthorizeGranted
<1>8. QED
  BY <1>1, <1>2, <1>3, <1>4, <1>5, <1>6, <1>7 DEF Proceed

LEMMA SpacedStep ==
  ASSUME TypeInv, BackoffInv, [Next]_vars,
         NEW u \in Task, pc[u] # "refresh", pc'[u] = "refresh"
  PROVE  now >= failed.at + failed.wait
<1>1. ASSUME NEW t \in Task, SendsNone(t) PROVE FALSE
  <2>1. CASE Return(t)
    BY <2>1 DEF Return, Goto, TypeInv, TypeOK
  <2>2. CASE \E where \in PC \ {"refresh"} : Goto(t, where)
    BY <2>2 DEF Goto, TypeInv, TypeOK
  <2>3. QED
    BY <1>1, <2>1, <2>2 DEF SendsNone
<1>2. ASSUME NEW t \in Task, Call(t) PROVE SendsNone(t)
  BY <1>2 DEF Call, CallAccess, CallLogin, CallCompleteMfa, CallLogout, SendsNone, PC, Holding
<1>3. ASSUME NEW t \in Task, Acquire(t) PROVE SendsNone(t)
  <2>1. op[t] \in {"access", "login", "mfa"}
    BY <1>3 DEF Acquire, TypeInv, OpOK
  <2>2. QED
    BY <1>3, <2>1 DEF Acquire, SendsNone, PC, Holding
<1>4. ASSUME NEW t \in Task, Abandon(t) PROVE SendsNone(t)
  BY <1>4 DEF Abandon, SendsNone
<1>5. ASSUME NEW t \in Task, SendRefresh(t) PROVE now >= failed.at + failed.wait
  <2>1. ~BackingOff
    BY <1>5 DEF SendRefresh, CanRefresh
  <2>2. /\ now \in Nat /\ backoff.failures \in Nat /\ backoff.next \in Nat
        /\ failed.at \in Nat /\ failed.wait \in Nat
    BY DEF TypeInv, TypeOK
  <2>3. CASE backoff.failures = 0
    BY <2>2, <2>3 DEF BackoffInv, NoRun
  <2>4. CASE backoff.failures > 0
    BY <2>1, <2>2, <2>4 DEF BackoffInv, BackingOff
  <2>5. QED
    BY <2>2, <2>3, <2>4
<1>6. ~Restart /\ ~Tick /\ ~UNCHANGED vars
  BY DEF Restart, Tick, vars, taskVars
<1>7. QED
  BY <1>1, <1>2, <1>3, <1>4, <1>5, <1>6, OnlySendRefresh DEF Next, Quiet

\* After a failed refresh the next is sent no earlier than the delay its run of
\* failures has come to (Auth!RefreshSpacing), whatever other tasks, logouts and
\* restarts do meanwhile.
THEOREM RefreshesSpaced == ASSUME CapReached PROVE Spec => RefreshSpacing
<1>1. BackoffInv /\ TypeInv /\ [Next]_vars => BackoffInv'
  BY CapReached, BackoffStep
<1>2. TypeInv /\ BackoffInv /\ [Next]_vars
        => [\A t \in Task : pc[t] # "refresh" /\ pc'[t] = "refresh" =>
              now >= failed.at + failed.wait]_vars
  BY SpacedStep
<1>3. QED
  BY <1>1, <1>2, TypeInit, TypeStep, BackoffInit, PTL DEF Spec, RefreshSpacing
=============================================================================
