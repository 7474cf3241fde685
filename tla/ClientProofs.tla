----------------------------- MODULE ClientProofs -----------------------------
(***************************************************************************)
(* Proofs about the two parts of the REST client: Request, for any number  *)
(* of calls, any pacing interval, any number of retries and any advice of  *)
(* the upstream; and Paging, for any set of URLs, any links and stamps,    *)
(* and any max_pages.                                                      *)
(*                                                                         *)
(* No prover here knows that a power of two is a natural number, so the    *)
(* backoff of a response without advice is not shown to be one; nothing    *)
(* below needs it.                                                         *)
(***************************************************************************)
EXTENDS Request, Paging, SequenceTheorems, TLAPS

-----------------------------------------------------------------------------
(***************************************************************************)
(* One request: the inductive invariant, part by part.                     *)
(***************************************************************************)
PC == {"idle", "token", "dataset", "pace", "sleep", "answer", "delay"}

Types ==
  /\ since \in 0 .. Interval
  /\ pc \in [Task -> PC] /\ needs \in [Task -> BOOLEAN] /\ nested \in [Task -> BOOLEAN]
  /\ attempt \in [Task -> Nat] /\ DOMAIN timer = Task
  /\ told \in [Task -> Nat] /\ heard \in [Task -> Nat] /\ sends \in [Task -> Nat]

(* The one call that sleeps before its request holds the lock, and wakes no *)
(* earlier than the interval is over.                                       *)
PaceOK == \A t \in Task :
  /\ lock = t <=> pc[t] = "sleep"
  /\ pc[t] = "sleep" => timer[t] \in Nat /\ timer[t] + since >= Interval

(* What is left of a delay makes up for what has not passed since the       *)
(* response; a call on its way to the upstream has waited it out.           *)
AdviceOK == \A t \in Task :
  /\ pc[t] \in {"idle", "token", "dataset"} => told[t] = 0
  /\ pc[t] = "delay" /\ told[t] > 0 =>
       timer[t] \in Nat /\ timer[t] + heard[t] >= Least(told[t], Cap)
  /\ pc[t] \in {"pace", "sleep"} => heard[t] >= Least(told[t], Cap)

(* A discovery and the call proper each send at most once more than they    *)
(* have retried.                                                            *)
Sent(t) == IF pc[t] = "answer" THEN attempt[t] + 1 ELSE attempt[t]
TriesOK == \A t \in Task :
  /\ attempt[t] <= MaxRetries
  /\ nested[t] => needs[t] /\ pc[t] # "idle"
  /\ pc[t] \in {"idle", "token", "dataset"} => sends[t] = 0 /\ attempt[t] = 0
  /\ nested[t] \/ ~needs[t] => sends[t] <= Sent(t)
  /\ sends[t] <= Sent(t) + MaxRetries + 1

Inv == Types /\ PaceOK /\ AdviceOK /\ TriesOK

-----------------------------------------------------------------------------
(***************************************************************************)
(* What each step does to the call that takes it.                          *)
(***************************************************************************)
LEMMA LeastTypes ==
  ASSUME NEW a \in Nat, NEW b \in Nat
  PROVE  Least(a, b) \in Nat /\ Least(a, b) <= a /\ Least(a, b) <= b /\ Least(0, b) = 0
  BY DEF Least

(* A step of t leaves the other calls alone.                                *)
Alone(t) == \A u \in Task \ {t} :
  /\ pc'[u] = pc[u] /\ needs'[u] = needs[u] /\ nested'[u] = nested[u]
  /\ attempt'[u] = attempt[u] /\ timer'[u] = timer[u] /\ told'[u] = told[u]
  /\ heard'[u] = heard[u] /\ sends'[u] = sends[u]

LEMMA ReturnEffect ==
  ASSUME Types, NEW t \in Task, Return(t), since' = since
  PROVE  /\ Types' /\ Alone(t)
         /\ pc'[t] = "idle" /\ ~needs'[t] /\ ~nested'[t] /\ attempt'[t] = 0
         /\ told'[t] = 0 /\ sends'[t] = 0
         /\ lock' = IF lock = t THEN NoTask ELSE lock
  BY DEF Types, Return, Goto, Alone, PC

LEMMA ThrottledEffect ==
  ASSUME Types, NEW t \in Task, Throttled(t)
  PROVE  /\ Types' /\ Alone(t)
         /\ pc[t] = "answer" /\ pc'[t] = "delay" /\ lock' = lock /\ since' = since
         /\ attempt[t] < MaxRetries /\ attempt'[t] = attempt[t] + 1
         /\ told'[t] > 0 => timer'[t] = Least(told'[t], Cap)
         /\ heard'[t] = 0 /\ sends' = sends /\ needs' = needs /\ nested' = nested
<1>1. PICK a \in Advice \cup {NoAdvice} :
        /\ timer' = [timer EXCEPT ![t] = Delay(t, a)]
        /\ told' = [told EXCEPT ![t] = IF a = NoAdvice THEN 0 ELSE a]
  BY DEF Throttled
<1>2. told' \in [Task -> Nat] /\ DOMAIN timer' = Task
  BY <1>1, TimeAssumption DEF Types
<1>3. told'[t] > 0 => timer'[t] = Least(told'[t], Cap)
  <2>1. a # NoAdvice => Delay(t, a) = Least(a, Cap)
    BY DEF Delay
  <2>2. QED
    BY <1>1, <2>1 DEF Types
<1>4. Alone(t)
  BY <1>1 DEF Throttled, Goto, Alone, Types
<1>5. QED
  BY <1>2, <1>3, <1>4 DEF Throttled, Goto, MayRetry, Types, PC

(* The stages a call only passes, with no effect on what it has sent.       *)
Passes(t) ==
  /\ Alone(t) /\ pc' = [pc EXCEPT ![t] = pc'[t]]
  /\ UNCHANGED <<lock, since, needs, attempt, timer, told, heard, sends>>
  /\ \/ pc[t] = "token" /\ pc'[t] = "dataset" /\ nested' = nested
     \/ pc[t] = "dataset" /\ pc'[t] = "pace" /\ nested' = nested
     \/ /\ pc[t] = "dataset" /\ pc'[t] = "token" /\ needs[t]
        /\ nested' = [nested EXCEPT ![t] = TRUE]
     \/ pc[t] = "delay" /\ timer[t] = 0 /\ pc'[t] = "pace" /\ nested' = nested

LEMMA PassesStep ==
  ASSUME Types, NEW t \in Task,
         \/ TokenCached(t) \/ TokenAcquired(t) \/ DatasetKnown(t) \/ DiscoverDataset(t)
         \/ Retry(t)
  PROVE  Passes(t) /\ Types'
<1>1. CASE TokenCached(t) \/ TokenAcquired(t)
  BY <1>1 DEF TokenCached, TokenAcquired, Goto, Passes, Alone, Types, PC
<1>2. CASE DatasetKnown(t)
  BY <1>2 DEF DatasetKnown, Goto, Passes, Alone, Types, PC
<1>3. CASE DiscoverDataset(t)
  BY <1>3 DEF DiscoverDataset, Goto, Passes, Alone, Types, PC
<1>4. CASE Retry(t)
  BY <1>4 DEF Retry, Goto, Passes, Alone, Types, PC
<1>5. QED
  BY <1>1, <1>2, <1>3, <1>4

Restarts(t) ==
  /\ Alone(t) /\ UNCHANGED <<lock, since, timer, sends, needs>>
  /\ pc[t] = "answer" /\ pc'[t] = "pace" /\ nested[t] /\ ~nested'[t]
  /\ attempt'[t] = 0 /\ told'[t] = 0 /\ heard'[t] = 0

LEMMA DiscoveredEffect ==
  ASSUME Types, NEW t \in Task, Discovered(t) PROVE Restarts(t) /\ Types'
  BY DEF Discovered, Goto, Restarts, Alone, Types, PC

Begins(t) ==
  /\ Alone(t) /\ UNCHANGED <<lock, since, nested, attempt, timer, told, heard, sends>>
  /\ pc[t] = "idle" /\ pc'[t] = "token"

LEMMA CallEffect ==
  ASSUME Types, NEW t \in Task, NEW d \in BOOLEAN, Call(t, d) PROVE Begins(t) /\ Types'
  BY DEF Call, Goto, Begins, Alone, Types, PC

Locks(t) ==
  /\ Alone(t) /\ UNCHANGED <<since, needs, nested, attempt, told, heard, sends>>
  /\ pc[t] = "pace" /\ pc'[t] = "sleep" /\ lock = NoTask /\ lock' = t
  /\ timer'[t] = Interval - since

LEMMA AcquireEffect ==
  ASSUME Types, NEW t \in Task, AcquirePace(t) PROVE Locks(t) /\ Types'
  BY DEF AcquirePace, LockFree, Goto, Locks, Alone, Types, PC

Leaves(t) ==
  /\ Alone(t) /\ UNCHANGED <<needs, nested, attempt, timer, told, heard>>
  /\ pc[t] = "sleep" /\ pc'[t] = "answer" /\ timer[t] = 0 /\ since' = 0
  /\ lock' = (IF lock = t THEN NoTask ELSE lock) /\ sends'[t] = sends[t] + 1

LEMMA SendEffect ==
  ASSUME Types, NEW t \in Task, Send(t) PROVE Leaves(t) /\ Types'
  BY TimeAssumption DEF Send, Goto, Leaves, Alone, Types, PC

Ends(t) ==
  /\ Return(t) /\ since' = since
  /\ pc[t] # "idle"

Ages ==
  /\ since' = Least(since + 1, Interval)
  /\ timer' = [t \in Task |-> IF timer[t] = 0 THEN 0 ELSE timer[t] - 1]
  /\ heard' = [t \in Task |-> IF told[t] = 0 THEN 0 ELSE Least(heard[t] + 1, Cap)]
  /\ UNCHANGED <<lock, pc, needs, nested, attempt, told, sends>>

(* The steps, by what they do.                                              *)
LEMMA StepCases ==
  ASSUME Types, [Next]_vars
  PROVE  \/ \E t \in Task : Begins(t) \/ Passes(t) \/ Locks(t) \/ Leaves(t)
                            \/ Throttled(t) \/ Restarts(t) \/ Ends(t)
         \/ Ages
         \/ UNCHANGED <<lock, since, call>>
<1>1. ASSUME NEW t \in Task,
             \/ TokenRefused(t) \/ DiscoveredNotSaved(t) \/ Ended(t) \/ Abandon(t)
      PROVE  Ends(t)
  BY <1>1 DEF TokenRefused, DiscoveredNotSaved, Ended, Abandon, Ends
<1>2. CASE Tick
  BY <1>2 DEF Tick, Ages
<1>3. CASE TokenExpires \/ UNCHANGED vars
  BY <1>3 DEF TokenExpires, vars
<1>4. QED
  BY <1>1, <1>2, <1>3, CallEffect, PassesStep, AcquireEffect, SendEffect, DiscoveredEffect
     DEF Next, Proceed

LEMMA AgesTypes == ASSUME Types, Ages PROVE Types'
<1>1. since' \in 0 .. Interval
  BY TimeAssumption DEF Types, Ages, Least
<1>2. \A t \in Task : Least(heard[t] + 1, Cap) \in Nat
  BY TimeAssumption DEF Types, Least
<1>3. QED
  BY <1>1, <1>2 DEF Types, Ages

LEMMA TypesStep == ASSUME Types, [Next]_vars PROVE Types'
<1>1. ASSUME NEW t \in Task,
             \/ TokenRefused(t) \/ DiscoveredNotSaved(t) \/ Ended(t) \/ Abandon(t)
      PROVE  Types'
  BY <1>1, ReturnEffect DEF TokenRefused, DiscoveredNotSaved, Ended, Abandon
<1>2. CASE Tick
  BY <1>2, AgesTypes DEF Tick, Ages
<1>3. CASE TokenExpires \/ UNCHANGED vars
  BY <1>3 DEF TokenExpires, vars, call, Types
<1>4. QED
  BY <1>1, <1>2, <1>3, CallEffect, PassesStep, AcquireEffect, SendEffect, DiscoveredEffect,
     ThrottledEffect DEF Next, Proceed

-----------------------------------------------------------------------------
(***************************************************************************)
(* Each part of the invariant is kept.                                     *)
(***************************************************************************)
LEMMA PaceStep == ASSUME Types, PaceOK, [Next]_vars PROVE PaceOK'
<1>0. since \in 0 .. Interval /\ Interval \in Nat \ {0}
  BY TimeAssumption DEF Types
<1>1. ASSUME NEW t \in Task, Begins(t) \/ Passes(t) \/ Throttled(t) \/ Restarts(t) PROVE PaceOK'
  <2>1. Alone(t) /\ pc[t] # "sleep" /\ pc'[t] # "sleep" /\ lock' = lock /\ since' = since
    BY <1>1, ThrottledEffect DEF Begins, Passes, Restarts
  <2>2. QED
    BY <2>1 DEF Alone, PaceOK
<1>2. ASSUME NEW t \in Task, Locks(t) PROVE PaceOK'
  <2>1. timer'[t] \in Nat /\ timer'[t] + since' >= Interval /\ pc'[t] = "sleep" /\ lock' = t
    BY <1>0, <1>2 DEF Locks
  <2>2. \A u \in Task \ {t} : pc'[u] # "sleep"
    BY <1>2, TaskAssumption DEF Locks, Alone, PaceOK
  <2>3. QED
    BY <2>1, <2>2 DEF PaceOK
<1>3. ASSUME NEW t \in Task, Leaves(t) PROVE PaceOK'
  <2>1. lock = t /\ lock' = NoTask /\ pc'[t] # "sleep"
    BY <1>3 DEF Leaves, PaceOK
  <2>2. \A u \in Task \ {t} : pc'[u] # "sleep"
    BY <1>3, <2>1 DEF Leaves, Alone, PaceOK
  <2>3. QED
    BY <2>1, <2>2, TaskAssumption DEF PaceOK
<1>4. ASSUME NEW t \in Task, Ends(t) PROVE PaceOK'
  <2>1. /\ Alone(t) /\ pc'[t] = "idle" /\ lock' = (IF lock = t THEN NoTask ELSE lock)
        /\ since' = since
    BY <1>4, ReturnEffect DEF Ends
  <2>2. \A u \in Task : lock' = u <=> pc'[u] = "sleep"
    BY <2>1, TaskAssumption DEF Alone, PaceOK
  <2>3. QED
    BY <2>1, <2>2 DEF Alone, PaceOK
<1>5. CASE Ages
  <2>1. ASSUME NEW t \in Task, pc[t] = "sleep"
        PROVE  timer'[t] \in Nat /\ timer'[t] + since' >= Interval
    <3>1. timer[t] \in Nat /\ timer[t] + since >= Interval
      BY <2>1 DEF PaceOK
    <3>2. timer'[t] = IF timer[t] = 0 THEN 0 ELSE timer[t] - 1
      BY <1>5 DEF Ages
    <3>3. since' = IF since + 1 < Interval THEN since + 1 ELSE Interval
      BY <1>5 DEF Ages, Least
    <3>4. QED
      BY <1>0, <3>1, <3>2, <3>3
  <2>2. QED
    BY <1>5, <2>1 DEF Ages, PaceOK
<1>6. CASE UNCHANGED <<lock, since, call>>
  BY <1>6 DEF call, PaceOK
<1>7. QED
  BY <1>1, <1>2, <1>3, <1>4, <1>5, <1>6, StepCases

LEMMA AdviceStep == ASSUME Types, AdviceOK, [Next]_vars PROVE AdviceOK'
<1> DEFINE Heeds(t) ==
      /\ pc[t] \in {"idle", "token", "dataset"} => told[t] = 0
      /\ pc[t] = "delay" /\ told[t] > 0 =>
           timer[t] \in Nat /\ timer[t] + heard[t] >= Least(told[t], Cap)
      /\ pc[t] \in {"pace", "sleep"} => heard[t] >= Least(told[t], Cap)
<1>0. \A t \in Task : Heeds(t)
  BY DEF AdviceOK
<1>1. \A t \in Task : heard[t] \in Nat /\ told[t] \in Nat /\ Least(0, Cap) = 0 /\ Cap \in Nat
  BY TimeAssumption DEF Types, Least
<1>2. ASSUME NEW t \in Task, Alone(t), Heeds(t)' PROVE AdviceOK'
  <2>1. ASSUME NEW u \in Task \ {t} PROVE Heeds(u)'
    <3>1. pc'[u] = pc[u] /\ told'[u] = told[u] /\ timer'[u] = timer[u] /\ heard'[u] = heard[u]
      BY <1>2 DEF Alone
    <3>2. Heeds(u)
      BY <1>0
    <3>3. QED
      BY <3>1, <3>2
  <2>2. \A u \in Task : Heeds(u)'
    BY <1>2, <2>1
  <2>3. QED
    BY <2>2 DEF AdviceOK
<1>3. ASSUME NEW t \in Task, Begins(t) PROVE Alone(t) /\ Heeds(t)'
  BY <1>0, <1>3 DEF Begins
<1>4. ASSUME NEW t \in Task, Passes(t) PROVE Alone(t) /\ Heeds(t)'
  <2>1. Heeds(t) /\ told' = told /\ heard' = heard /\ timer' = timer
    BY <1>0, <1>4 DEF Passes
  <2>2. CASE pc[t] = "delay"
    <3>1. pc'[t] = "pace" /\ timer[t] = 0
      BY <1>4, <2>2 DEF Passes
    <3>2. heard[t] >= Least(told[t], Cap)
      <4>1. CASE told[t] > 0
        BY <1>1, <2>1, <2>2, <3>1, <4>1, LeastTypes
      <4>2. CASE told[t] = 0
        BY <1>1, <4>2
      <4>3. QED
        BY <1>1, <4>1, <4>2
    <3>3. QED
      BY <1>4, <2>1, <3>1, <3>2 DEF Passes
  <2>3. CASE pc[t] # "delay"
    <3>1. told[t] = 0 /\ pc'[t] \in {"dataset", "pace", "token"}
      BY <1>4, <2>1, <2>3 DEF Passes
    <3>2. QED
      BY <1>1, <1>4, <2>1, <3>1 DEF Passes
  <2>4. QED
    BY <2>2, <2>3
<1>5. ASSUME NEW t \in Task, Locks(t) PROVE Alone(t) /\ Heeds(t)'
  BY <1>0, <1>5 DEF Locks
<1>6. ASSUME NEW t \in Task, Leaves(t) PROVE Alone(t) /\ Heeds(t)'
  BY <1>6 DEF Leaves
<1>7. ASSUME NEW t \in Task, Throttled(t) PROVE Alone(t) /\ Heeds(t)'
  <2>1. /\ Alone(t) /\ pc'[t] = "delay" /\ heard'[t] = 0 /\ told'[t] \in Nat
        /\ told'[t] > 0 => timer'[t] = Least(told'[t], Cap)
    BY <1>7, ThrottledEffect DEF Types
  <2>2. Least(told'[t], Cap) \in Nat
    BY <1>1, <2>1, LeastTypes
  <2>3. QED
    BY <2>1, <2>2
<1>8. ASSUME NEW t \in Task, Restarts(t) PROVE Alone(t) /\ Heeds(t)'
  BY <1>1, <1>8 DEF Restarts
<1>9. ASSUME NEW t \in Task, Ends(t) PROVE Alone(t) /\ Heeds(t)'
  BY <1>9, ReturnEffect DEF Ends
<1>10. CASE Ages
  <2>1. ASSUME NEW t \in Task PROVE Heeds(t)'
    <3>1. /\ pc' = pc /\ told' = told
          /\ timer'[t] = IF timer[t] = 0 THEN 0 ELSE timer[t] - 1
          /\ heard'[t] = IF told[t] = 0 THEN 0 ELSE Least(heard[t] + 1, Cap)
      BY <1>10 DEF Ages
    <3>2. CASE told[t] = 0
      BY <1>0, <1>1, <3>1, <3>2
    <3>3. CASE told[t] > 0
      <4>1. heard'[t] = (IF heard[t] + 1 < Cap THEN heard[t] + 1 ELSE Cap)
        BY <3>1, <3>3 DEF Least
      <4>2. Least(told[t], Cap) \in Nat /\ Least(told[t], Cap) <= Cap
        BY <1>1, LeastTypes
      <4>3. heard'[t] >= Least(told[t], Cap) \/ heard'[t] = heard[t] + 1
        BY <1>1, <4>1, <4>2
      <4>4. CASE heard'[t] >= Least(told[t], Cap)
        BY <1>0, <1>1, <3>1, <4>1, <4>2, <4>4
      <4>5. CASE heard'[t] = heard[t] + 1
        BY <1>0, <1>1, <3>1, <4>2, <4>5
      <4>6. QED
        BY <4>3, <4>4, <4>5
    <3>4. QED
      BY <1>1, <3>2, <3>3
  <2>2. QED
    BY <2>1 DEF AdviceOK
<1>11. CASE UNCHANGED <<lock, since, call>>
  BY <1>11 DEF call, AdviceOK
<1> HIDE DEF Heeds
<1>12. QED
  BY <1>2, <1>3, <1>4, <1>5, <1>6, <1>7, <1>8, <1>9, <1>10, <1>11, StepCases

LEMMA TriesStep == ASSUME Types, TriesOK, [Next]_vars PROVE TriesOK'
<1> DEFINE Counts(t) ==
      /\ attempt[t] <= MaxRetries
      /\ nested[t] => needs[t] /\ pc[t] # "idle"
      /\ pc[t] \in {"idle", "token", "dataset"} => sends[t] = 0 /\ attempt[t] = 0
      /\ nested[t] \/ ~needs[t] => sends[t] <= Sent(t)
      /\ sends[t] <= Sent(t) + MaxRetries + 1
<1>0. \A t \in Task : Counts(t)
  BY DEF TriesOK
<1>1. /\ MaxRetries \in Nat
      /\ \A t \in Task : /\ attempt[t] \in Nat /\ sends[t] \in Nat
                         /\ nested[t] \in BOOLEAN /\ needs[t] \in BOOLEAN
  BY TimeAssumption DEF Types
<1>2. ASSUME NEW t \in Task, Alone(t), Counts(t)' PROVE TriesOK'
  <2>1. ASSUME NEW u \in Task \ {t} PROVE Counts(u)'
    <3>1. /\ pc'[u] = pc[u] /\ needs'[u] = needs[u] /\ nested'[u] = nested[u]
          /\ attempt'[u] = attempt[u] /\ sends'[u] = sends[u]
      BY <1>2 DEF Alone
    <3>2. Counts(u)
      BY <1>0
    <3>3. QED
      BY <3>1, <3>2 DEF Sent
  <2>2. \A u \in Task : Counts(u)'
    BY <1>2, <2>1
  <2>3. QED
    BY <2>2 DEF TriesOK
<1>3. ASSUME NEW t \in Task, Begins(t) PROVE Counts(t)'
  <2>1. attempt'[t] = 0 /\ sends'[t] = 0 /\ pc'[t] = "token"
    BY <1>0, <1>3 DEF Begins
  <2>2. ~nested[t]
    BY <1>0, <1>3 DEF Begins
  <2>3. QED
    BY <1>1, <1>3, <2>1, <2>2 DEF Begins, Sent
<1>4. ASSUME NEW t \in Task, Passes(t) PROVE Counts(t)'
  <2>1. /\ attempt' = attempt /\ sends' = sends /\ needs' = needs
        /\ pc[t] # "answer" /\ pc'[t] # "answer"
        /\ nested'[t] => needs[t]
        /\ pc'[t] \in {"token", "dataset"} => pc[t] \in {"token", "dataset"}
    BY <1>0, <1>4 DEF Passes, Types
  <2>2. nested' = nested \/ sends[t] = 0
    BY <1>0, <1>4 DEF Passes
  <2>3. pc'[t] # "idle"
    BY <1>4 DEF Passes
  <2>4. QED
    BY <1>0, <1>1, <2>1, <2>2, <2>3 DEF Sent
<1>5. ASSUME NEW t \in Task, Locks(t) PROVE Counts(t)'
  BY <1>0, <1>5 DEF Locks, Sent
<1>6. ASSUME NEW t \in Task, Leaves(t) PROVE Counts(t)'
  <2>1. /\ attempt' = attempt /\ needs' = needs /\ nested' = nested
        /\ sends'[t] = sends[t] + 1 /\ pc[t] = "sleep" /\ pc'[t] = "answer"
    BY <1>6 DEF Leaves
  <2>2. Counts(t)
    BY <1>0
  <2>3. QED
    BY <1>1, <2>1, <2>2 DEF Sent
<1>7. ASSUME NEW t \in Task, Throttled(t) PROVE Counts(t)'
  <2>1. /\ attempt'[t] = attempt[t] + 1 /\ attempt[t] < MaxRetries
        /\ needs' = needs /\ nested' = nested /\ sends' = sends
        /\ pc[t] = "answer" /\ pc'[t] = "delay"
    BY <1>7, ThrottledEffect
  <2>2. Counts(t)
    BY <1>0
  <2>3. QED
    BY <1>1, <2>1, <2>2 DEF Sent
<1>8. ASSUME NEW t \in Task, Restarts(t) PROVE Counts(t)'
  <2>1. /\ attempt'[t] = 0 /\ needs' = needs /\ nested[t] /\ ~nested'[t] /\ sends' = sends
        /\ pc[t] = "answer" /\ pc'[t] = "pace"
    BY <1>8 DEF Restarts
  <2>2. Counts(t)
    BY <1>0
  <2>3. QED
    BY <1>1, <2>1, <2>2 DEF Sent
<1>9. ASSUME NEW t \in Task, Ends(t) PROVE Counts(t)'
  BY <1>1, <1>9, ReturnEffect DEF Ends, Sent
<1>10. ASSUME NEW t \in Task, Ends(t) PROVE Alone(t)
  BY <1>10, ReturnEffect DEF Ends
<1>11. CASE Ages \/ UNCHANGED <<lock, since, call>>
  BY <1>11 DEF Ages, call, TriesOK, Sent
<1> HIDE DEF Counts
<1>12. ASSUME NEW t \in Task, Throttled(t) PROVE Alone(t)
  BY <1>12, ThrottledEffect
<1>13. ASSUME NEW t \in Task, Begins(t) \/ Passes(t) \/ Locks(t) \/ Leaves(t) \/ Restarts(t)
       PROVE  Alone(t)
  BY <1>13 DEF Begins, Passes, Locks, Leaves, Restarts
<1>14. QED
  BY <1>2, <1>3, <1>4, <1>5, <1>6, <1>7, <1>8, <1>9, <1>10, <1>11, <1>12, <1>13, StepCases

-----------------------------------------------------------------------------
(***************************************************************************)
(* The theorems.                                                           *)
(***************************************************************************)
LEMMA InvInit == Init => Inv
<1> SUFFICES ASSUME Init PROVE Inv
  OBVIOUS
<1>1. Types
  BY TimeAssumption DEF Init, Types, PC
<1>2. PaceOK
  BY TaskAssumption DEF Init, PaceOK
<1>3. AdviceOK
  BY DEF Init, AdviceOK
<1>4. TriesOK
  <2>1. ASSUME NEW t \in Task
        PROVE  /\ pc[t] = "idle" /\ ~nested[t] /\ attempt[t] = 0 /\ sends[t] = 0 /\ Sent(t) = 0
    BY DEF Init, Sent
  <2>2. MaxRetries \in Nat
    BY TimeAssumption
  <2>3. ASSUME NEW t \in Task
        PROVE  /\ attempt[t] <= MaxRetries /\ sends[t] <= Sent(t)
               /\ sends[t] <= Sent(t) + MaxRetries + 1
    <3>1. attempt[t] = 0 /\ sends[t] = 0 /\ Sent(t) = 0
      BY <2>1
    <3>2. 0 <= MaxRetries /\ 0 <= 0 + MaxRetries + 1
      BY <2>2
    <3>3. QED
      BY <3>1, <3>2
  <2>4. QED
    BY <2>1, <2>3 DEF TriesOK
<1>5. QED
  BY <1>1, <1>2, <1>3, <1>4 DEF Inv

LEMMA InvStep == Inv /\ [Next]_vars => Inv'
BY TypesStep, PaceStep, AdviceStep, TriesStep DEF Inv

LEMMA InvHolds == Spec => []Inv
BY InvInit, InvStep, PTL DEF Spec

(* A request leaves only where its call has slept with the lock.            *)
LEMMA OnlySend ==
  ASSUME Types, [Next]_vars, NEW t \in Task, Sends(t)
  PROVE  Leaves(t)
<1>1. sends'[t] > sends[t] /\ \A u \in Task : sends[u] \in Nat
  BY DEF Sends, Types
<1>2. ASSUME NEW u \in Task, Ends(u) PROVE sends'[t] = sends[t] \/ sends'[t] = 0
  BY <1>2, ReturnEffect DEF Ends, Alone
<1>3. ASSUME NEW u \in Task, Throttled(u) PROVE sends'[t] = sends[t]
  BY <1>3, ThrottledEffect
<1>4. ASSUME NEW u \in Task, Begins(u) \/ Passes(u) \/ Locks(u) \/ Restarts(u)
      PROVE  sends'[t] = sends[t]
  BY <1>4 DEF Begins, Passes, Locks, Restarts
<1>5. ASSUME NEW u \in Task, Leaves(u) PROVE Leaves(t) \/ sends'[t] = sends[t]
  BY <1>5 DEF Leaves, Alone
<1>6. ASSUME Ages \/ UNCHANGED <<lock, since, call>> PROVE sends'[t] = sends[t]
  BY <1>6 DEF Ages, call
<1>7. QED
  BY <1>1, <1>2, <1>3, <1>4, <1>5, <1>6, StepCases

(* Two data requests, of whichever calls, retries or discoveries, leave at   *)
(* least the interval apart: pace in src/client.rs sleeps with its lock held *)
(* and stamps the instant after it.                                         *)
THEOREM RequestsPaced == Spec => DataPaced
<1>1. ASSUME Inv, [Next]_vars, NEW t \in Task, Sends(t) PROVE since = Interval
  <2>1. pc[t] = "sleep" /\ timer[t] = 0
    BY <1>1, OnlySend DEF Inv, Leaves
  <2>2. since >= Interval /\ since \in 0 .. Interval /\ Interval \in Nat
    BY <1>1, <2>1, TimeAssumption DEF Inv, PaceOK, Types
  <2>3. QED
    BY <2>2
<1>2. Inv /\ [Next]_vars => [(\E t \in Task : Sends(t)) => since = Interval]_vars
  BY <1>1
<1>3. QED
  BY <1>2, InvHolds, PTL DEF Spec, DataPaced

(* A call goes back to the upstream no sooner than its last throttling       *)
(* response asked, up to the cap (the retry loop of request_raw and          *)
(* RETRY_AFTER_CAP_SECS).                                                   *)
THEOREM AdviceHonored == Spec => RetryAfterHonored
<1>1. ASSUME Inv, [Next]_vars, NEW t \in Task, Sends(t)
      PROVE  heard[t] >= Least(told[t], Cap)
  BY <1>1, OnlySend DEF Inv, Leaves, AdviceOK
<1>2. Inv /\ [Next]_vars =>
        [\A t \in Task : Sends(t) => heard[t] >= Least(told[t], Cap)]_vars
  BY <1>1
<1>3. QED
  BY <1>2, InvHolds, PTL DEF Spec, RetryAfterHonored

(* However the upstream answers, a call costs it at most MAX_RETRIES + 1     *)
(* requests, and as many again for the dataset discovery it may contain      *)
(* (request_raw, ensure_dataset_id).                                        *)
THEOREM TriesBounded == Spec => []BoundedTries
<1>1. ASSUME Inv, NEW t \in Task
      PROVE  sends[t] <= (IF needs[t] THEN 2 ELSE 1) * (MaxRetries + 1)
  <2>1. /\ MaxRetries \in Nat /\ attempt[t] \in Nat /\ sends[t] \in Nat
        /\ attempt[t] <= MaxRetries /\ Sent(t) <= attempt[t] + 1 /\ Sent(t) \in Nat
        /\ sends[t] <= Sent(t) + MaxRetries + 1
        /\ ~needs[t] => sends[t] <= Sent(t)
    BY <1>1, TimeAssumption DEF Inv, Types, TriesOK, Sent
  <2>2. CASE needs[t]
    BY <2>1, <2>2
  <2>3. CASE ~needs[t]
    BY <2>1, <2>3
  <2>4. QED
    BY <2>2, <2>3
<1>2. Inv => BoundedTries
  BY <1>1 DEF BoundedTries
<1>3. QED
  BY <1>2, InvHolds, PTL

-----------------------------------------------------------------------------
(***************************************************************************)
(* Listings.                                                               *)
(***************************************************************************)
(* A listing in progress has asked for one page more than it holds.        *)
Progress ==
  stage = "waiting" =>
    /\ result = "none" /\ pages = Len(sent) /\ Len(sent) = Len(out) + 1
    /\ sent[Len(sent)] = url

(* The URLs requested are a path along the links, whose pages `out` holds. *)
LinkPath ==
  /\ Len(sent) > 0 => sent[1] = First
  /\ \A i \in 1..(Len(sent) - 1) : sent[i + 1] = links[sent[i]]
  /\ Len(out) <= Len(sent)
  /\ \A i \in 1..Len(out) : out[i] = sent[i]

Remembered == \A i \in 2..Len(sent) : sent[i] \in visited

Stamped == IsLastStamp(asOf, out)

PagingInv ==
  /\ TypeOK /\ Progress /\ LinkPath /\ Remembered /\ Stamped
  /\ RequestsBounded /\ NoLinkTwice /\ WholeListing

(* A process that has listed nothing satisfies the invariant.               *)
LEMMA PagingInvInit == PagingInit => PagingInv
<1> SUFFICES ASSUME PagingInit PROVE PagingInv
  OBVIOUS
<1>1. TypeOK
  BY UrlAssumption DEF PagingInit, TypeOK, Result
<1>2. Len(out) = 0 /\ Len(sent) = 0
  BY DEF PagingInit
<1>3. Progress /\ LinkPath /\ Remembered /\ Stamped
  BY <1>2 DEF PagingInit, Progress, LinkPath, Remembered, Stamped, IsLastStamp
<1>4. RequestsBounded /\ NoLinkTwice /\ WholeListing
  BY <1>2 DEF PagingInit, RequestsBounded, NoLinkTwice, WholeListing
<1>5. QED
  BY <1>1, <1>3, <1>4 DEF PagingInv

(***************************************************************************)
(* What every action that receives a page establishes: `out` catches up    *)
(* with `sent`, and its stamp is kept.                                     *)
(***************************************************************************)
LEMMA ReceivePath ==
  ASSUME PagingInv, Receive
  PROVE  /\ out' \in Seq(Allowed) /\ Len(out') = Len(sent)
         /\ \A i \in 1..Len(sent) : out'[i] = sent[i]
         /\ out'[Len(out')] = url
<1>1. out' = Append(out, url) /\ out \in Seq(Allowed) /\ url \in Allowed
  BY DEF Receive, PagingInv, TypeOK
<1>2. out' \in Seq(Allowed) /\ Len(out') = Len(out) + 1
      /\ (\A i \in 1..Len(out) : out'[i] = out[i]) /\ out'[Len(out) + 1] = url
  BY <1>1, AppendProperties
<1>3. Len(out') = Len(sent) /\ sent[Len(sent)] = url
  BY <1>2 DEF Receive, PagingInv, Progress
<1>4. \A i \in 1..Len(sent) : out'[i] = sent[i]
  BY <1>1, <1>2, <1>3 DEF PagingInv, LinkPath
<1>5. QED
  BY <1>2, <1>3, <1>4

LEMMA ReceiveStamp ==
  ASSUME PagingInv, Receive
  PROVE  Stamped' /\ asOf' \in Allowed \cup {NoStamp}
<1>1. out' = Append(out, url) /\ out \in Seq(Allowed) /\ url \in Allowed
  BY DEF Receive, PagingInv, TypeOK
<1>2. Len(out') = Len(out) + 1 /\ Len(out) \in Nat
      /\ (\A i \in 1..Len(out) : out'[i] = out[i]) /\ out'[Len(out) + 1] = url
  BY <1>1, AppendProperties
<1>3. stamped' = stamped
  BY DEF Receive, upstream
<1>4. CASE url \in stamped
  <2>1. asOf' = url /\ out'[Len(out')] = asOf' /\ Len(out') \in 1..Len(out')
    BY <1>2, <1>4 DEF Receive
  <2>2. \A j \in (Len(out') + 1)..Len(out') : out'[j] \notin stamped
    BY <1>2
  <2>3. QED
    BY <1>1, <1>3, <1>4, <2>1, <2>2 DEF Stamped, IsLastStamp
<1>5. CASE url \notin stamped
  <2>1. asOf' = asOf
    BY <1>5 DEF Receive
  <2>2. CASE asOf = NoStamp /\ \A i \in 1..Len(out) : out[i] \notin stamped
    BY <1>2, <1>3, <1>5, <2>1, <2>2 DEF Stamped, IsLastStamp
  <2>3. CASE \E i \in 1..Len(out) :
               asOf = out[i] /\ asOf \in stamped
               /\ \A j \in (i + 1)..Len(out) : out[j] \notin stamped
    <3>1. PICK i \in 1..Len(out) :
            asOf = out[i] /\ asOf \in stamped
            /\ \A j \in (i + 1)..Len(out) : out[j] \notin stamped
      BY <2>3
    <3>2. \A j \in (i + 1)..Len(out') : out'[j] \notin stamped
      BY <1>2, <1>5, <3>1
    <3>3. i \in 1..Len(out') /\ asOf' = out'[i] /\ asOf' \in stamped'
      BY <1>2, <1>3, <2>1, <3>1
    <3>4. asOf' \in Allowed \cup {NoStamp}
      BY <2>1 DEF PagingInv, TypeOK
    <3>5. Stamped'
      BY <1>3, <3>2, <3>3 DEF Stamped, IsLastStamp
    <3>6. QED
      BY <3>4, <3>5
  <2>4. QED
    BY <2>2, <2>3 DEF PagingInv, Stamped, IsLastStamp
<1>6. QED
  BY <1>1, <1>4, <1>5 DEF Receive, PagingInv, TypeOK

(***************************************************************************)
(* A listing that ends with a page in hand: nothing more is sent.          *)
(***************************************************************************)
LEMMA EndInv ==
  ASSUME PagingInv, Receive, NEW r \in Result, End(r), pages' \in Nat, UNCHANGED visited,
         r = "ok" => NextLink = NoLink
  PROVE  PagingInv'
<1>1. /\ out' \in Seq(Allowed) /\ Len(out') = Len(sent)
      /\ \A i \in 1..Len(sent) : out'[i] = sent[i]
      /\ out'[Len(out')] = url
  BY ReceivePath
<1>2. links' = links /\ stamped' = stamped /\ sent' = sent /\ visited' = visited
      /\ url' = url /\ stage' = "idle" /\ result' = r
  BY DEF Receive, upstream, End
<1>3. Stamped' /\ asOf' \in Allowed \cup {NoStamp}
  BY ReceiveStamp
<1>4. TypeOK'
  BY <1>1, <1>2, <1>3 DEF PagingInv, TypeOK
<1>5. Progress' /\ Remembered' /\ RequestsBounded' /\ NoLinkTwice'
  BY <1>2 DEF PagingInv, Progress, Remembered, RequestsBounded, NoLinkTwice
<1>6. LinkPath'
  BY <1>1, <1>2 DEF PagingInv, LinkPath
<1>7. Len(sent) > 0 /\ Len(sent) \in Nat
  BY DEF PagingInv, TypeOK, Progress, Receive
<1>8. WholeListing'
  <2>1. SUFFICES ASSUME r = "ok" PROVE IsChain(out)' /\ IsLastStamp(asOf, out)'
    BY <1>2 DEF WholeListing
  <2>2. out'[1] = First
    BY <1>1, <1>7 DEF PagingInv, LinkPath
  <2>3. \A i \in 1..(Len(out') - 1) : out'[i + 1] = links[out'[i]]
    BY <1>1, <1>7 DEF PagingInv, LinkPath
  <2>4. links[out'[Len(out')]] = NoLink
    BY <1>1, <2>1 DEF NextLink
  <2>5. IsChain(out)'
    BY <1>1, <1>2, <1>7, <2>2, <2>3, <2>4 DEF IsChain
  <2>6. QED
    BY <1>3, <2>5 DEF Stamped
<1>9. QED
  BY <1>3, <1>4, <1>5, <1>6, <1>8 DEF PagingInv

(* Following a fresh link extends the path by one.                         *)
LEMMA FollowInv == ASSUME PagingInv, Follow PROVE PagingInv'
<1>1. /\ out' \in Seq(Allowed) /\ Len(out') = Len(sent)
      /\ \A i \in 1..Len(sent) : out'[i] = sent[i]
      /\ Receive
  BY ReceivePath DEF Follow
<1>2. /\ links' = links /\ stamped' = stamped /\ stage' = stage /\ result' = result
      /\ url' = NextLink /\ visited' = visited \cup {NextLink} /\ pages' = pages + 1
      /\ NextLink \in Allowed /\ NextLink \notin visited /\ pages + 1 <= MaxPages
      /\ pages \in Nat /\ MaxPages \in Nat
  BY BoundAssumption DEF Follow, Receive, upstream, Acceptable, Seen, TooMany, PagingInv, TypeOK
<1>3. /\ sent \in Seq(Allowed) /\ sent' = Append(sent, NextLink)
      /\ stage = "waiting" /\ result = "none" /\ pages = Len(sent)
      /\ sent[Len(sent)] = url /\ Len(sent) \in Nat /\ Len(sent) > 0
  BY DEF Follow, Receive, PagingInv, TypeOK, Progress
<1>4. /\ sent' \in Seq(Allowed) /\ Len(sent') = Len(sent) + 1
      /\ (\A i \in 1..Len(sent) : sent'[i] = sent[i]) /\ sent'[Len(sent) + 1] = NextLink
  BY <1>2, <1>3, AppendProperties
<1>5. Stamped' /\ asOf' \in Allowed \cup {NoStamp}
  BY <1>1, ReceiveStamp
<1>6. TypeOK'
  BY <1>1, <1>2, <1>3, <1>4, <1>5 DEF PagingInv, TypeOK
<1>7. Progress'
  BY <1>1, <1>2, <1>3, <1>4 DEF Progress
<1>8. LinkPath'
  <2>1. sent'[1] = First
    BY <1>3, <1>4 DEF PagingInv, LinkPath
  <2>2. \A i \in 1..(Len(sent') - 1) : sent'[i + 1] = links[sent'[i]]
    <3>1. TAKE i \in 1..(Len(sent') - 1)
    <3>2. CASE i < Len(sent)
      BY <1>3, <1>4, <3>2 DEF PagingInv, LinkPath
    <3>3. CASE i = Len(sent)
      BY <1>3, <1>4, <3>3 DEF NextLink
    <3>4. QED
      BY <1>3, <1>4, <3>2, <3>3
  <2>3. Len(out') <= Len(sent') /\ \A i \in 1..Len(out') : out'[i] = sent'[i]
    BY <1>1, <1>3, <1>4
  <2>4. QED
    BY <1>2, <2>1, <2>2, <2>3 DEF LinkPath
<1>9. Remembered'
  BY <1>2, <1>3, <1>4 DEF PagingInv, Remembered
<1>10. RequestsBounded'
  BY <1>2, <1>3, <1>4 DEF RequestsBounded
<1>11. NoLinkTwice'
  <2>1. \A i \in 2..Len(sent) : sent'[i] # NextLink /\ sent'[i] = sent[i]
    BY <1>2, <1>3, <1>4 DEF PagingInv, Remembered
  <2>2. QED
    BY <1>3, <1>4, <2>1 DEF PagingInv, NoLinkTwice
<1>12. WholeListing'
  BY <1>2, <1>3 DEF WholeListing
<1>13. QED
  BY <1>5, <1>6, <1>7, <1>8, <1>9, <1>10, <1>11, <1>12 DEF PagingInv

(* A new listing begins with its first URL remembered.                     *)
LEMMA ListInv == ASSUME PagingInv, List PROVE PagingInv'
<1>1. /\ sent' = <<First>> /\ out' = <<>> /\ visited' = {} /\ asOf' = NoStamp
      /\ pages' = 1 /\ stage' = "waiting" /\ url' = First /\ result' = "none"
      /\ links' = links /\ stamped' = stamped
  BY DEF List, upstream
<1>2. Len(sent') = 1 /\ sent'[1] = First /\ Len(out') = 0
  BY <1>1
<1>3. TypeOK'
  BY <1>1, UrlAssumption DEF PagingInv, TypeOK, Result
<1>4. Progress' /\ LinkPath' /\ Remembered' /\ Stamped'
  BY <1>1, <1>2 DEF Progress, LinkPath, Remembered, Stamped, IsLastStamp
<1>5. RequestsBounded' /\ NoLinkTwice' /\ WholeListing'
  BY <1>1, <1>2 DEF RequestsBounded, NoLinkTwice, WholeListing
<1>6. QED
  BY <1>3, <1>4, <1>5 DEF PagingInv

(* A failed request leaves one more request than pages.                    *)
LEMMA FailInv == ASSUME PagingInv, RequestFails PROVE PagingInv'
<1>1. /\ UNCHANGED <<links, stamped, out, asOf, visited, pages, url, sent>>
      /\ stage' = "idle" /\ result' = "failed"
  BY DEF RequestFails, End, upstream
<1>2. TypeOK'
  BY <1>1 DEF PagingInv, TypeOK, Result
<1>3. Progress' /\ LinkPath' /\ Remembered' /\ Stamped'
  BY <1>1 DEF PagingInv, Progress, LinkPath, Remembered, Stamped, IsLastStamp
<1>4. RequestsBounded' /\ NoLinkTwice' /\ WholeListing'
  BY <1>1 DEF PagingInv, RequestsBounded, NoLinkTwice, WholeListing
<1>5. QED
  BY <1>2, <1>3, <1>4 DEF PagingInv

(* Every step of PagingNext, and a stutter, preserves the invariant.             *)
LEMMA PagingInvStep == PagingInv /\ [PagingNext]_pagingVars => PagingInv'
<1> SUFFICES ASSUME PagingInv, [PagingNext]_pagingVars PROVE PagingInv'
  OBVIOUS
<1>0. pages \in Nat /\ pages + 1 \in Nat
  BY DEF PagingInv, TypeOK
<1>1. CASE List
  BY <1>1, ListInv
<1>2. CASE LastPage
  <2>1. Receive /\ End("ok") /\ NextLink = NoLink /\ visited' = visited /\ pages' \in Nat
    BY <1>0, <1>2 DEF LastPage
  <2>2. "ok" \in Result
    BY DEF Result
  <2>3. QED
    BY <2>1, <2>2, EndInv
<1>3. CASE PageLimit
  <2>1. Receive /\ End("PaginationLimit") /\ visited' = visited /\ pages' \in Nat
    BY <1>0, <1>3 DEF PageLimit
  <2>2. "PaginationLimit" \in Result
    BY DEF Result
  <2>3. QED
    BY <2>1, <2>2, EndInv
<1>4. CASE UnsafeLink
  <2>1. Receive /\ End("UnsafeUrl") /\ visited' = visited /\ pages' \in Nat
    BY <1>0, <1>4 DEF UnsafeLink
  <2>2. "UnsafeUrl" \in Result
    BY DEF Result
  <2>3. QED
    BY <2>1, <2>2, EndInv
<1>5. CASE LinkCycle
  <2>1. Receive /\ End("InvalidResponse") /\ visited' = visited /\ pages' \in Nat
    BY <1>0, <1>5 DEF LinkCycle
  <2>2. "InvalidResponse" \in Result
    BY DEF Result
  <2>3. QED
    BY <2>1, <2>2, EndInv
<1>6. CASE Follow
  BY <1>6, FollowInv
<1>7. CASE RequestFails
  BY <1>7, FailInv
<1>8. CASE UNCHANGED pagingVars
  <2>1. UNCHANGED <<links, stamped, stage, url, out, asOf, visited, pages, sent, result>>
    BY <1>8 DEF pagingVars, upstream
  <2>2. TypeOK' /\ Progress' /\ LinkPath'
    BY <2>1 DEF PagingInv, TypeOK, Progress, LinkPath
  <2>3. Remembered' /\ Stamped' /\ RequestsBounded'
    BY <2>1 DEF PagingInv, Remembered, Stamped, IsLastStamp, RequestsBounded
  <2>4. NoLinkTwice' /\ WholeListing'
    BY <2>1 DEF PagingInv, NoLinkTwice, WholeListing, IsChain, IsLastStamp
  <2>5. QED
    BY <2>2, <2>3, <2>4 DEF PagingInv
<1>9. QED
  BY <1>1, <1>2, <1>3, <1>4, <1>5, <1>6, <1>7, <1>8 DEF PagingNext

(* The inductive invariant holds of every reachable state of               *)
(* list_transactions_all and list_reference_all.                           *)
THEOREM PagingInvHolds == PagingSpec => []PagingInv
  BY PagingInvInit, PagingInvStep, PTL DEF PagingSpec

(* No listing sends more requests than max_pages (one where it is 0),      *)
(* whatever links the upstream answers with.                               *)
THEOREM PagesBounded == PagingSpec => []RequestsBounded
<1>1. PagingInv => RequestsBounded
  BY DEF PagingInv
<1>2. QED
  BY <1>1, PagingInvHolds, PTL

(* No listing follows a link twice: cycle detection works for every graph  *)
(* of links.                                                               *)
THEOREM LinksFollowedOnce == PagingSpec => []NoLinkTwice
<1>1. PagingInv => NoLinkTwice
  BY DEF PagingInv
<1>2. QED
  BY <1>1, PagingInvHolds, PTL

(* A listing that succeeds holds the whole chain of pages and the stamp of *)
(* its last stamped page, for every graph of links.                        *)
THEOREM ListingsAreWhole == PagingSpec => []WholeListing
<1>1. PagingInv => WholeListing
  BY DEF PagingInv
<1>2. QED
  BY <1>1, PagingInvHolds, PTL

(* Conversely to Remembered, only links that were followed are remembered. *)
RememberedOnly == \A u \in visited : \E i \in 2..Len(sent) : sent[i] = u

LEMMA RememberedStep ==
  ASSUME PagingInv, RememberedOnly, [PagingNext]_pagingVars
  PROVE  RememberedOnly'
<1>1. CASE List
  BY <1>1 DEF List, RememberedOnly
<1>2. CASE Follow
  <2>1. /\ sent \in Seq(Allowed) /\ Len(sent) \in Nat /\ Len(sent) > 0 /\ NextLink \in Allowed
        /\ sent' = Append(sent, NextLink) /\ visited' = visited \cup {NextLink}
    BY <1>2 DEF Follow, Receive, Acceptable, PagingInv, TypeOK, Progress
  <2>2. /\ Len(sent') = Len(sent) + 1 /\ sent'[Len(sent) + 1] = NextLink
        /\ \A i \in 1..Len(sent) : sent'[i] = sent[i]
    BY <2>1, AppendProperties
  <2>3. \A u \in visited : \E i \in 2..Len(sent') : sent'[i] = u
    BY <2>1, <2>2 DEF RememberedOnly
  <2>4. Len(sent) + 1 \in 2..Len(sent')
    BY <2>1, <2>2
  <2>5. QED
    BY <2>1, <2>2, <2>3, <2>4 DEF RememberedOnly
<1>3. CASE UNCHANGED <<sent, visited>>
  BY <1>3 DEF RememberedOnly
<1>4. QED
  BY <1>1, <1>2, <1>3 DEF PagingNext, LastPage, PageLimit, UnsafeLink, LinkCycle, RequestFails, End, pagingVars

(* An error is returned with the page whose link it is about in hand.      *)
LEMMA ErrorsStep ==
  ASSUME PagingInv, RememberedOnly, ErrorsJustified, [PagingNext]_pagingVars
  PROVE  ErrorsJustified'
<1>1. ASSUME Receive
      PROVE  /\ Len(out') = Len(sent) /\ links'[out'[Len(out')]] = NextLink
             /\ NextLink \in Url \cup {NoLink}
             /\ pages = Len(sent) /\ \A i \in 1..Len(sent) : out'[i] = sent[i]
  BY <1>1, ReceivePath DEF Receive, upstream, NextLink, PagingInv, TypeOK, Progress
<1>2. CASE PageLimit
  <2>1. /\ Receive /\ NextLink # NoLink /\ pages + 1 > MaxPages /\ result' = "PaginationLimit"
        /\ pages \in Nat /\ MaxPages \in Nat
    BY <1>2, BoundAssumption DEF PageLimit, TooMany, End, PagingInv, TypeOK
  <2>2. QED
    BY <1>1, <2>1 DEF ErrorsJustified
<1>3. CASE UnsafeLink
  <2>1. Receive /\ NextLink # NoLink /\ NextLink \notin Allowed /\ result' = "UnsafeUrl"
    BY <1>3 DEF UnsafeLink, Acceptable, End
  <2>2. QED
    BY <1>1, <2>1 DEF ErrorsJustified
<1>4. CASE LinkCycle
  <2>1. Receive /\ NextLink \in visited /\ result' = "InvalidResponse"
    BY <1>4 DEF LinkCycle, Seen, End
  <2>2. PICK i \in 2..Len(sent) : sent[i] = NextLink
    BY <2>1 DEF RememberedOnly
  <2>3. Len(sent) \in Nat /\ i \in 1..Len(sent)
    BY DEF PagingInv, TypeOK
  <2>4. i \in 2..Len(out') /\ out'[i] = NextLink
    BY <1>1, <2>1, <2>2, <2>3
  <2>5. QED
    BY <1>1, <2>1, <2>4 DEF ErrorsJustified
<1>5. CASE result' \in {"none", "ok", "failed"}
  BY <1>5 DEF ErrorsJustified
<1>6. CASE UNCHANGED pagingVars
  BY <1>6 DEF pagingVars, upstream, ErrorsJustified
<1>7. CASE Follow
  BY <1>5, <1>7 DEF Follow, Receive, PagingInv, Progress
<1>8. QED
  BY <1>2, <1>3, <1>4, <1>5, <1>6, <1>7 DEF PagingNext, List, LastPage, RequestFails, End

(* A listing reports the page limit only where the chain of links goes on   *)
(* after max_pages of them, a cycle only where its last link was followed   *)
(* before, and an unsafe URL only where that link leaves the allowed URLs  *)
(* (the error returns of list_transactions_all and list_reference_all).    *)
THEOREM ErrorsHaveCause == PagingSpec => []ErrorsJustified
<1>1. PagingInit => RememberedOnly /\ ErrorsJustified
  BY DEF PagingInit, RememberedOnly, ErrorsJustified
<1>2. PagingInv /\ RememberedOnly /\ ErrorsJustified /\ [PagingNext]_pagingVars => (RememberedOnly /\ ErrorsJustified)'
  BY RememberedStep, ErrorsStep
<1>3. QED
  BY <1>1, <1>2, PagingInvHolds, PTL DEF PagingSpec
=============================================================================
