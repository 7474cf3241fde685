------------------------------- MODULE Request -------------------------------
(***************************************************************************)
(* One upstream data call (request_raw in src/client.rs): a token, the     *)
(* dataset id or its discovery by a nested request, then the request and   *)
(* its retries, each behind the global pacing floor.                       *)
(*                                                                         *)
(* Time is kept in clocks that stop at the largest value a guard asks for, *)
(* and in timers that run down, so calls and time are not bounded.         *)
(***************************************************************************)
EXTENDS Integers

CONSTANTS
  Task,        \* calls in progress
  NoTask,      \* "the pace lock is free"
  Interval,    \* min_request_interval_ms, in clock units (0 disables pace)
  MaxRetries,  \* MAX_RETRIES
  Cap,         \* RETRY_AFTER_CAP_SECS
  Advice,      \* external: the Retry-After values the upstream sends
  NoAdvice     \* a throttling response without one

ASSUME TaskAssumption == NoTask \notin Task
ASSUME TimeAssumption ==
  /\ Interval \in Nat \ {0} /\ MaxRetries \in Nat /\ Cap \in Nat
  /\ Advice \subseteq Nat /\ NoAdvice \notin Nat

VARIABLES
  token,     \* the cache has a valid access token
  dataset,   \* the dataset id is configured or cached
  lock,      \* pace: the task holding it, or NoTask
  since,     \* the time since `last`, stopping at Interval
  pc,        \* idle, token, dataset, pace, sleep, answer or delay
  needs,     \* with_dataset
  nested,    \* the call is inside its discovery request
  attempt,   \* attempt
  timer,     \* what is left of the sleep the task is in
  told,      \* history: the retry-after of the last response, 0 if none
  heard,     \* history: the time since that response, stopping at Cap
  sends      \* history: requests sent on behalf of the call

call == <<pc, needs, nested, attempt, timer, told, heard, sends>>
vars == <<token, dataset, lock, since, call>>

Least(a, b) == IF a < b THEN a ELSE b

Init ==
  /\ token \in BOOLEAN /\ dataset \in BOOLEAN
  /\ lock = NoTask /\ since = Interval
  /\ pc = [t \in Task |-> "idle"] /\ needs = [t \in Task |-> FALSE]
  /\ nested = [t \in Task |-> FALSE] /\ attempt = [t \in Task |-> 0]
  /\ timer = [t \in Task |-> 0] /\ told = [t \in Task |-> 0]
  /\ heard = [t \in Task |-> 0] /\ sends = [t \in Task |-> 0]

-----------------------------------------------------------------------------
Goto(t, where) == pc' = [pc EXCEPT ![t] = where]

Call(t, d) ==
  /\ pc[t] = "idle"
  /\ needs' = [needs EXCEPT ![t] = d]
  /\ Goto(t, "token")
  /\ UNCHANGED <<token, dataset, lock, since, nested, attempt, timer, told, heard, sends>>

Return(t) ==
  /\ Goto(t, "idle")
  /\ needs' = [needs EXCEPT ![t] = FALSE] /\ nested' = [nested EXCEPT ![t] = FALSE]
  /\ attempt' = [attempt EXCEPT ![t] = 0] /\ timer' = [timer EXCEPT ![t] = 0]
  /\ told' = [told EXCEPT ![t] = 0] /\ heard' = [heard EXCEPT ![t] = 0]
  /\ sends' = [sends EXCEPT ![t] = 0]
  /\ lock' = IF lock = t THEN NoTask ELSE lock

\* access_token: the cached one,
TokenCached(t) ==
  /\ pc[t] = "token" /\ token
  /\ Goto(t, "dataset")
  /\ UNCHANGED <<token, dataset, lock, since, needs, nested, attempt, timer,
                 told, heard, sends>>

\* or one from the identity provider (see Auth), asked without pacing.
TokenAcquired(t) ==
  /\ pc[t] = "token" /\ ~token
  /\ token' = TRUE
  /\ Goto(t, "dataset")
  /\ UNCHANGED <<dataset, lock, since, needs, nested, attempt, timer, told, heard, sends>>

TokenRefused(t) ==
  /\ pc[t] = "token" /\ ~token
  /\ Return(t)
  /\ UNCHANGED <<token, dataset, since>>

\* ensure_dataset_id: configured or cached, or not needed (the discovery itself).
DatasetKnown(t) ==
  /\ pc[t] = "dataset" /\ (dataset \/ nested[t] \/ ~needs[t])
  /\ Goto(t, "pace")
  /\ UNCHANGED <<token, dataset, lock, since, needs, nested, attempt, timer,
                 told, heard, sends>>

\* list_datasets, a request of its own.
DiscoverDataset(t) ==
  /\ pc[t] = "dataset" /\ needs[t] /\ ~nested[t] /\ ~dataset
  /\ nested' = [nested EXCEPT ![t] = TRUE]
  /\ Goto(t, "token")
  /\ UNCHANGED <<token, dataset, lock, since, needs, attempt, timer, told, heard, sends>>

-----------------------------------------------------------------------------
\* pace: the lock is taken, and kept while sleeping for the rest of the interval.
\* Fault: a floor without a lock.
NeverHeld == TRUE
LockFree == lock = NoTask

AcquirePace(t) ==
  /\ pc[t] = "pace" /\ LockFree
  /\ lock' = t
  /\ timer' = [timer EXCEPT ![t] = Interval - since]
  /\ Goto(t, "sleep")
  /\ UNCHANGED <<token, dataset, since, needs, nested, attempt, told, heard, sends>>

\* The lock is freed, and the request goes out with no await in between.
Send(t) ==
  /\ pc[t] = "sleep" /\ timer[t] = 0
  /\ lock' = IF lock = t THEN NoTask ELSE lock
  /\ since' = 0
  /\ sends' = [sends EXCEPT ![t] = @ + 1]
  /\ Goto(t, "answer")
  /\ UNCHANGED <<token, dataset, needs, nested, attempt, timer, told, heard>>

\* Fault: a retry that waits its own backoff only.
OwnDelay(t, advice) == Least(2 ^ (attempt[t] + 1), Cap)
\* retry_after.unwrap_or(2 ** attempt).min(RETRY_AFTER_CAP_SECS)
Delay(t, advice) ==
  Least(IF advice = NoAdvice THEN 2 ^ (attempt[t] + 1) ELSE advice, Cap)

MayRetry(t) == attempt[t] < MaxRetries

\* 429 or 503, with retries left.
Throttled(t) ==
  /\ pc[t] = "answer" /\ MayRetry(t)
  /\ attempt' = [attempt EXCEPT ![t] = @ + 1]
  /\ \E a \in Advice \cup {NoAdvice} :
       /\ timer' = [timer EXCEPT ![t] = Delay(t, a)]
       /\ told' = [told EXCEPT ![t] = IF a = NoAdvice THEN 0 ELSE a]
  /\ heard' = [heard EXCEPT ![t] = 0]
  /\ Goto(t, "delay")
  /\ UNCHANGED <<token, dataset, lock, since, needs, nested, sends>>

\* Fault: a retry loop that keeps its lock.
RetryLocked(t) ==
  /\ pc[t] = "delay" /\ timer[t] = 0
  /\ lock' = t
  /\ Goto(t, "pace")
  /\ UNCHANGED <<token, dataset, since, needs, nested, attempt, timer, told, heard, sends>>

\* Fault: a loop that counts the attempts of each turn.
RetryForgets(t) ==
  /\ pc[t] = "delay" /\ timer[t] = 0
  /\ attempt' = [attempt EXCEPT ![t] = 0]
  /\ Goto(t, "pace")
  /\ UNCHANGED <<token, dataset, lock, since, needs, nested, timer, told, heard, sends>>

\* The sleep is over: the loop turns.
Retry(t) ==
  /\ pc[t] = "delay" /\ timer[t] = 0
  /\ Goto(t, "pace")
  /\ UNCHANGED <<token, dataset, lock, since, needs, nested, attempt, timer,
                 told, heard, sends>>

\* The discovery is answered: its id is saved, and the call goes on from the top
\* of its own loop.
Discovered(t) ==
  /\ pc[t] = "answer" /\ nested[t]
  /\ dataset' = TRUE
  /\ nested' = [nested EXCEPT ![t] = FALSE] /\ attempt' = [attempt EXCEPT ![t] = 0]
  /\ told' = [told EXCEPT ![t] = 0] /\ heard' = [heard EXCEPT ![t] = 0]
  /\ Goto(t, "pace")
  /\ UNCHANGED <<token, lock, since, needs, timer, sends>>

\* Its save fails: the id is cached all the same, and the call fails.
DiscoveredNotSaved(t) ==
  /\ pc[t] = "answer" /\ nested[t]
  /\ dataset' = TRUE
  /\ Return(t)
  /\ UNCHANGED <<token, since>>

\* The call is answered; or it, or its discovery, gets an error, no answer in
\* time, or one more throttling than it retries.
Ended(t) ==
  /\ pc[t] = "answer"
  /\ Return(t)
  /\ UNCHANGED <<token, dataset, since>>

-----------------------------------------------------------------------------
\* The call's future is dropped in an await.
Abandon(t) ==
  /\ pc[t] # "idle"
  /\ Return(t)
  /\ UNCHANGED <<token, dataset, since>>

TokenExpires ==
  /\ token /\ token' = FALSE
  /\ UNCHANGED <<dataset, lock, since, call>>

Tick ==
  /\ since' = Least(since + 1, Interval)
  /\ timer' = [t \in Task |-> IF timer[t] = 0 THEN 0 ELSE timer[t] - 1]
  /\ heard' = [t \in Task |-> IF told[t] = 0 THEN 0 ELSE Least(heard[t] + 1, Cap)]
  /\ UNCHANGED <<token, dataset, lock, pc, needs, nested, attempt, told, sends>>

Proceed(t) ==
  \/ TokenCached(t) \/ TokenAcquired(t) \/ TokenRefused(t)
  \/ DatasetKnown(t) \/ DiscoverDataset(t)
  \/ Send(t) \/ Throttled(t) \/ Retry(t) \/ Discovered(t) \/ DiscoveredNotSaved(t)
  \/ Ended(t)

Next ==
  \/ \E t \in Task :
       \/ \E d \in BOOLEAN : Call(t, d)
       \/ AcquirePace(t) \/ Proceed(t) \/ Abandon(t)
  \/ TokenExpires \/ Tick

Spec == Init /\ [][Next]_vars

\* The pace lock is a fair tokio mutex, sleeps end, and requests time out.
Fairness ==
  /\ WF_vars(Tick)
  /\ \A t \in Task : WF_vars(Proceed(t)) /\ SF_vars(AcquirePace(t))
LiveSpec == Spec /\ Fairness

-----------------------------------------------------------------------------
Sends(t) == sends'[t] > sends[t]

\* Data requests of all calls, retries and discoveries leave at least Interval
\* apart, however their waits overlap.
DataPaced == [][(\E t \in Task : Sends(t)) => since = Interval]_vars

\* A call goes back to the upstream no sooner than its last throttling response
\* asked, up to the cap: Retry-After is honored.
RetryAfterHonored == [][\A t \in Task : Sends(t) => heard[t] >= Least(told[t], Cap)]_vars

\* However the upstream answers, a call costs it at most MaxRetries + 1 requests,
\* and as many again for the discovery it may contain.
BoundedTries == \A t \in Task : sends[t] <= (IF needs[t] THEN 2 ELSE 1) * (MaxRetries + 1)

\* Every call ends: a sleeper holding the pace lock stops nobody for ever.
EveryCallEnds == \A t \in Task : (pc[t] # "idle") ~> (pc[t] = "idle")
=============================================================================
