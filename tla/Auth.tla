-------------------------------- MODULE Auth --------------------------------
(***************************************************************************)
(* AuthManager (src/auth.rs) over one process's TokenCache                 *)
(* (src/token_cache.rs): acquiring, refreshing and losing upstream tokens, *)
(* the persisted budget of password logins, the refresh backoff, and the   *)
(* crash and restart of the process.                                       *)
(*                                                                         *)
(* Tasks are tokio tasks that share the AuthManager.  A step is the code   *)
(* between two awaits, or between a change of the cached state and the     *)
(* save that makes it durable; saving is one step here (how the file is    *)
(* written is TokenFile's subject).  The upstream answers any request in   *)
(* any of the ways the code distinguishes, a timeout being a failure.      *)
(***************************************************************************)
EXTENDS Integers, FiniteSets

CONSTANTS
  Task,         \* tokio tasks using the AuthManager
  NoTask,       \* "the flight mutex is free"
  MaxLogins,    \* cfg.max_credential_logins_per_24h
  Window,       \* the 24 h of the login budget, in clock units
  Skew,         \* ACCESS_TOKEN_SKEW_SECS
  Lifetimes,    \* access-token lifetimes the upstream may grant
  BackoffBase,  \* REFRESH_BACKOFF_BASE_SECS
  BackoffMax,   \* REFRESH_BACKOFF_MAX_SECS
  Settings,     \* configurations a process may be started with:
                \* auto_password_login with credentials, a client secret, and
                \* tm_session_id (0 when it is not set)
  MaxCalls,     \* bound: operations called in a behaviour
  MaxNow        \* bound: the last instant of the clock

ASSUME TaskAssumption   == NoTask \notin Task
ASSUME BudgetAssumption == MaxLogins \in Nat /\ Window \in Nat
ASSUME TimeAssumption   ==
  /\ Skew \in Nat /\ Lifetimes \subseteq Nat /\ Lifetimes # {}
  /\ BackoffBase \in Nat /\ BackoffMax \in Nat
  /\ MaxCalls \in Nat /\ MaxNow \in Nat
ASSUME SettingsAssumption ==
  Settings \subseteq [autoLogin : BOOLEAN, secret : BOOLEAN, device : Nat]

VARIABLES
  now,       \* now_unix(), in clock units
  cfg,       \* the configuration of the process
  mem,       \* TokenCache.state
  disk,      \* the state sealed in tokens.enc
  flight,    \* AuthManager.flight: the task inside, or NoTask
  backoff,   \* AuthManager.refresh_backoff
  challenge, \* the embedder holds an MFA challenge it may complete
  pc,        \* where each task stands
  op,        \* the operation each task runs
  call,      \* the number of that operation; it also names what it obtains
  used,      \* the refresh token the operation has sent
  paid,      \* when the operation's password login was charged
  calls,     \* the number of the last operation called
  \* History variables, read by the properties only:
  submitted, \* the password logins POSTed, each with its charge
  devices,   \* the ThreatMetrix session id last POSTed, and those configured
             \* since then in processes that have ended
  spent,     \* refresh tokens whose replacement has been saved
  failed     \* the run of failed refreshes: its last instant, and the delay due then

cacheVars == <<mem, disk>>
taskVars  == <<pc, op, call, used, paid>>
history   == <<submitted, devices, spent, failed>>
vars == <<now, cfg, cacheVars, flight, backoff, challenge, taskVars, calls, history>>

(***************************************************************************)
(* TokenState.  The access and the refresh token of one response are       *)
(* stored, cleared and saved together, so one number stands for the pair;  *)
(* 0 is None.  A charge carries its call's number, so that logins charged  *)
(* at the same instant stay distinct in the set, as in the code's vector.  *)
(***************************************************************************)
Charge     == [call : Nat, at : Nat]
CacheState == [token : Nat, expires : Nat, tm : Nat, logins : SUBSET Charge]
EmptyCache == [token |-> 0, expires |-> 0, tm |-> 0, logins |-> {}]
Op         == {"none", "access", "login", "mfa", "logout"}

\* The pcs at which a task holds the flight guard.
Holding == {"check", "refresh", "charge", "saveCharge", "tm", "saveTm",
            "authorize", "exchange", "store"}
\* The pcs at which a task is suspended in an await.
Awaiting == {"lock", "refresh", "authorize", "exchange"}
PC == Holding \cup {"idle", "lock", "saveClear"}

Live(logins)    == {c \in logins : now - c.at < Window}
Valid           == mem.token # 0 /\ mem.expires - Skew > now
\* Fault: a failure is counted but its window is not consulted.
NeverBackingOff == FALSE
BackingOff      == backoff.failures > 0 /\ now < backoff.next
NoBackoff       == [failures |-> 0, next |-> 0]
NoRun           == [at |-> 0, wait |-> 0]
Configured      == {cfg.device} \ {0}  \* the device named, if one is
SmallerOf(a, b) == IF a < b THEN a ELSE b
\* BackoffBase << (min(n, 6) - 1), capped; n >= 1.
Doublings       == <<1, 2, 4, 8, 16, 32>>
\* Fault: the delay is offset by one unit too many, and underflows.
RefreshDelayUnderflow(n) == SmallerOf(n - 3, BackoffMax)
RefreshDelay(n) == SmallerOf(BackoffBase * Doublings[SmallerOf(n, 6)], BackoffMax)

\* TokenCache::open: a first start, or what an earlier process left, whose
\* access token has expired; 1 names everything that process obtained.
Inherited == [token |-> 1, expires |-> 0, tm |-> 1, logins |-> {}]

Init ==
  /\ now = 0 /\ cfg \in Settings
  /\ mem \in {EmptyCache, Inherited} /\ disk = mem
  /\ flight = NoTask
  /\ backoff = NoBackoff
  /\ challenge = FALSE
  /\ pc = [t \in Task |-> "idle"] /\ op = [t \in Task |-> "none"]
  /\ call = [t \in Task |-> 0] /\ used = [t \in Task |-> 0]
  /\ paid = [t \in Task |-> 0]
  /\ calls = 1
  /\ submitted = {} /\ devices = {mem.tm} \ {0} /\ spent = {} /\ failed = NoRun

-----------------------------------------------------------------------------
Goto(t, where) == pc' = [pc EXCEPT ![t] = where]

\* Fault: any return, a logout's included, frees the guard.
ReturnFreesAnyGuard(t) ==
  /\ Goto(t, "idle")
  /\ op' = [op EXCEPT ![t] = "none"]
  /\ call' = [call EXCEPT ![t] = 0]
  /\ used' = [used EXCEPT ![t] = 0]
  /\ paid' = [paid EXCEPT ![t] = 0]
  /\ flight' = NoTask

\* The operation returns: its locals go, and the flight guard if it holds it.
Return(t) ==
  /\ Goto(t, "idle")
  /\ op' = [op EXCEPT ![t] = "none"]
  /\ call' = [call EXCEPT ![t] = 0]
  /\ used' = [used EXCEPT ![t] = 0]
  /\ paid' = [paid EXCEPT ![t] = 0]
  /\ flight' = IF flight = t THEN NoTask ELSE flight

\* TokenCache::save, when it succeeds and when it reports an error: a failure
\* past the rename has replaced the file all the same.
Saved      == disk' = mem
SaveFailed == disk' \in {disk, mem}

Begin(t, o) ==
  /\ pc[t] = "idle" /\ calls < MaxCalls
  /\ calls' = calls + 1
  /\ op' = [op EXCEPT ![t] = o]
  /\ call' = [call EXCEPT ![t] = calls + 1]

\* access_token, up to its first await.  The fast path returns at once and
\* leaves no trace, so only the call that must wait for the mutex is a step.
CallAccess(t) ==
  /\ ~Valid
  /\ Begin(t, "access") /\ Goto(t, "lock")
  /\ UNCHANGED <<now, cfg, cacheVars, flight, backoff, challenge, used, paid, history>>

CallLogin(t) ==
  /\ Begin(t, "login") /\ Goto(t, "lock")
  /\ UNCHANGED <<now, cfg, cacheVars, flight, backoff, challenge, used, paid, history>>

CallCompleteMfa(t) ==
  /\ challenge
  /\ Begin(t, "mfa") /\ Goto(t, "lock")
  /\ UNCHANGED <<now, cfg, cacheVars, flight, backoff, challenge, used, paid, history>>

\* logout takes no flight guard: clear_tokens changes the state, then saves.
CallLogout(t) ==
  /\ Begin(t, "logout") /\ Goto(t, "saveClear")
  /\ mem' = [mem EXCEPT !.token = 0, !.expires = 0]
  /\ UNCHANGED <<now, cfg, disk, flight, backoff, challenge, used, paid, history>>

LogoutSave(t) ==
  /\ pc[t] = "saveClear"
  /\ Saved \/ SaveFailed
  /\ Return(t)
  /\ UNCHANGED <<now, cfg, mem, backoff, challenge, calls, history>>

FlightFree == flight = NoTask

Acquire(t) ==
  /\ pc[t] = "lock" /\ FlightFree
  /\ flight' = t
  /\ Goto(t, CASE op[t] = "access" -> "check"
               [] op[t] = "login"  -> "charge"
               [] op[t] = "mfa"    -> "tm")
  /\ UNCHANGED <<now, cfg, cacheVars, backoff, challenge, op, call, used, paid, calls, history>>

(***************************************************************************)
(* access_token under the guard: check again, then refresh, unless a       *)
(* recent failure forbids it, then log in if the operator opted in.        *)
(***************************************************************************)
CheckHit(t) ==
  /\ pc[t] = "check" /\ Valid
  /\ Return(t)
  /\ UNCHANGED <<now, cfg, cacheVars, backoff, challenge, calls, history>>

\* Fault: the early return of the backoff check keeps the guard.
CheckBackoffKeepsGuard(t) ==
  /\ pc[t] = "check" /\ ~Valid /\ mem.token # 0 /\ BackingOff
  /\ Goto(t, "idle")
  /\ UNCHANGED <<now, cfg, cacheVars, flight, backoff, challenge, op, call, used, paid, calls, history>>

CheckBackoff(t) ==
  /\ pc[t] = "check" /\ ~Valid /\ mem.token # 0 /\ BackingOff
  /\ Return(t)
  /\ UNCHANGED <<now, cfg, cacheVars, backoff, challenge, calls, history>>

\* Past a refresh that is unavailable or failed.
Fallback(t) ==
  \/ cfg.autoLogin /\ Goto(t, "charge") /\ UNCHANGED <<flight, op, call, used, paid>>
  \/ ~cfg.autoLogin /\ Return(t)

CheckNoRefreshToken(t) ==
  /\ pc[t] = "check" /\ mem.token = 0
  /\ Fallback(t)
  /\ UNCHANGED <<now, cfg, cacheVars, backoff, challenge, calls, history>>

CanRefresh(t) == pc[t] = "check" /\ ~Valid /\ mem.token # 0 /\ ~BackingOff

SendRefresh(t) ==
  /\ CanRefresh(t) /\ cfg.secret
  /\ Goto(t, "refresh")
  /\ used' = [used EXCEPT ![t] = mem.token]
  /\ UNCHANGED <<now, cfg, cacheVars, flight, backoff, challenge, op, call, paid, calls, history>>

\* What the delay of the next failure should be: the base, doubled up to the cap.
DueDelay(wait) == SmallerOf(IF wait = 0 THEN BackoffBase ELSE 2 * wait, BackoffMax)

RefreshFailure(t) ==
  /\ backoff' = [failures |-> backoff.failures + 1,
                 next |-> now + RefreshDelay(backoff.failures + 1)]
  /\ failed' = [at |-> now, wait |-> DueDelay(failed.wait)]
  /\ Fallback(t)
  /\ UNCHANGED <<now, cfg, cacheVars, challenge, calls, submitted, devices, spent>>

\* Without a client secret the refresh fails before anything is sent.
RefreshNoSecret(t) == CanRefresh(t) /\ ~cfg.secret /\ RefreshFailure(t)

RefreshRejected(t) == pc[t] = "refresh" /\ RefreshFailure(t)

\* A token response: the new pair replaces the old in memory, to be saved next.
StoreTokens(t) ==
  /\ \E life \in Lifetimes :
       mem' = [mem EXCEPT !.token = call[t], !.expires = now + life]
  /\ Goto(t, "store")
  /\ UNCHANGED <<now, cfg, disk, flight, backoff, challenge, op, call, used, paid, calls, history>>

RefreshAnswered(t)  == pc[t] = "refresh" /\ StoreTokens(t)
ExchangeAnswered(t) == pc[t] = "exchange" /\ StoreTokens(t)

\* Fault: the rotated pair is kept in memory only.
StoreNotSaved(t) ==
  /\ pc[t] = "store"
  /\ backoff' = NoBackoff /\ failed' = NoRun
  /\ spent' = spent \cup ({used[t]} \ {0})
  /\ Return(t)
  /\ UNCHANGED <<now, cfg, mem, disk, challenge, calls, submitted, devices>>

StoreSave(t) ==
  /\ pc[t] = "store"
  /\ Saved
  /\ backoff' = NoBackoff /\ failed' = NoRun
  /\ spent' = spent \cup ({used[t]} \ {0})
  /\ Return(t)
  /\ UNCHANGED <<now, cfg, mem, challenge, calls, submitted, devices>>

\* store_tokens fails: the pair stays in memory and the backoff is not reset.
StoreSaveFailed(t) ==
  /\ pc[t] = "store"
  /\ SaveFailed
  /\ Return(t)
  /\ UNCHANGED <<now, cfg, mem, backoff, challenge, calls, history>>

-----------------------------------------------------------------------------
(***************************************************************************)
(* login_attempt.  A new attempt pays for itself before it is submitted;   *)
(* an MFA completion belongs to the attempt that was challenged.           *)
(***************************************************************************)
Quarantined == Cardinality(Live(mem.logins)) >= MaxLogins

ChargeRefused(t) ==
  /\ pc[t] = "charge" /\ Quarantined
  /\ mem' = [mem EXCEPT !.logins = Live(@)]
  /\ Return(t)
  /\ UNCHANGED <<now, cfg, disk, backoff, challenge, calls, history>>

ChargeLogin(t) ==
  /\ pc[t] = "charge" /\ ~Quarantined
  /\ mem' = [mem EXCEPT !.logins = Live(@) \cup {[call |-> call[t], at |-> now]}]
  /\ paid' = [paid EXCEPT ![t] = now]
  /\ Goto(t, "saveCharge")
  /\ UNCHANGED <<now, cfg, disk, flight, backoff, challenge, op, call, used, calls, history>>

\* Fault: the charge is not made durable before the password is submitted.
ChargeNotSaved(t) ==
  /\ pc[t] = "saveCharge"
  /\ Goto(t, "tm")
  /\ UNCHANGED <<now, cfg, cacheVars, flight, backoff, challenge, op, call, used, paid, calls, history>>

SaveCharge(t) ==
  /\ pc[t] = "saveCharge"
  /\ Saved
  /\ Goto(t, "tm")
  /\ UNCHANGED <<now, cfg, mem, flight, backoff, challenge, op, call, used, paid, calls, history>>

SaveChargeFailed(t) ==
  /\ pc[t] = "saveCharge"
  /\ SaveFailed
  /\ Return(t)
  /\ UNCHANGED <<now, cfg, mem, backoff, challenge, calls, history>>

\* tm_session_id: the configured id, or the one in the state, or a fresh one;
\* an id that is not the state's is put there and must be saved.
DeviceFor(t) == IF cfg.device # 0 THEN cfg.device
                ELSE IF mem.tm # 0 THEN mem.tm ELSE call[t]

NewDevice(t) ==
  /\ pc[t] = "tm" /\ DeviceFor(t) # mem.tm
  /\ mem' = [mem EXCEPT !.tm = DeviceFor(t)]
  /\ Goto(t, "saveTm")
  /\ UNCHANGED <<now, cfg, disk, flight, backoff, challenge, op, call, used, paid, calls, history>>

SaveTmFailed(t) ==
  /\ pc[t] = "saveTm"
  /\ SaveFailed
  /\ Return(t)
  /\ UNCHANGED <<now, cfg, mem, backoff, challenge, calls, history>>

\* POST /oauth/authorize, which carries the password.
Submit(t) ==
  /\ Goto(t, "authorize")
  /\ devices' = {mem.tm}
  /\ submitted' = IF op[t] = "mfa" THEN submitted
                  ELSE submitted \cup {[call |-> call[t], at |-> paid[t]]}
  /\ UNCHANGED <<now, cfg, mem, flight, backoff, challenge, op, call, used, paid, calls, spent, failed>>

KnownDevice(t) ==
  pc[t] = "tm" /\ DeviceFor(t) = mem.tm /\ Submit(t) /\ UNCHANGED disk
\* Fault: the new id is used before it is saved.
TmNotSaved(t) == pc[t] = "saveTm" /\ Submit(t) /\ UNCHANGED disk
SaveTm(t)     == pc[t] = "saveTm" /\ Saved /\ Submit(t)

\* An error status, a timeout, a 202 without mfaId, a reply without a code, and
\* a code that cannot be exchanged because no client secret is configured.
AuthorizeRejected(t) ==
  /\ pc[t] = "authorize"
  /\ Return(t)
  /\ UNCHANGED <<now, cfg, cacheVars, backoff, challenge, calls, history>>

\* 202: only the interactive callers get to see the challenge.
AuthorizeChallenged(t) ==
  /\ pc[t] = "authorize"
  /\ challenge' = (challenge \/ op[t] # "access")
  /\ Return(t)
  /\ UNCHANGED <<now, cfg, cacheVars, backoff, calls, history>>

AuthorizeGranted(t) ==
  /\ pc[t] = "authorize" /\ cfg.secret
  /\ Goto(t, "exchange")
  /\ UNCHANGED <<now, cfg, cacheVars, flight, backoff, challenge, op, call, used, paid, calls, history>>

ExchangeRejected(t) ==
  /\ pc[t] = "exchange"
  /\ Return(t)
  /\ UNCHANGED <<now, cfg, cacheVars, backoff, challenge, calls, history>>

-----------------------------------------------------------------------------
\* The caller drops the operation's future while it is suspended in an await.
Abandon(t) ==
  /\ pc[t] \in Awaiting
  /\ Return(t)
  /\ UNCHANGED <<now, cfg, cacheVars, backoff, challenge, calls, history>>

\* The process dies and is started again on what tokens.enc holds.
Restart ==
  /\ cfg' \in Settings
  /\ mem' = disk
  /\ flight' = NoTask /\ backoff' = NoBackoff /\ challenge' = FALSE
  /\ pc' = [t \in Task |-> "idle"] /\ op' = [t \in Task |-> "none"]
  /\ call' = [t \in Task |-> 0] /\ used' = [t \in Task |-> 0]
  /\ paid' = [t \in Task |-> 0]
  /\ devices' = IF devices = {} THEN {} ELSE devices \cup Configured
  /\ failed' = NoRun
  /\ UNCHANGED <<now, disk, calls, submitted, spent>>

Tick ==
  /\ now < MaxNow
  /\ now' = now + 1
  /\ UNCHANGED <<cfg, cacheVars, flight, backoff, challenge, taskVars, calls, history>>

\* Nothing left to do within the bounds.
Quiet == (\A t \in Task : pc[t] = "idle") /\ UNCHANGED vars

Call(t) == CallAccess(t) \/ CallLogin(t) \/ CallCompleteMfa(t) \/ CallLogout(t)

\* The steps of an operation once it holds what it waits for; each is taken
\* without further delay, an answer or a timeout of the upstream included.
Proceed(t) ==
  \/ LogoutSave(t)
  \/ CheckHit(t) \/ CheckBackoff(t) \/ CheckNoRefreshToken(t)
  \/ SendRefresh(t) \/ RefreshNoSecret(t) \/ RefreshRejected(t)
  \/ RefreshAnswered(t) \/ ExchangeAnswered(t) \/ StoreSave(t) \/ StoreSaveFailed(t)
  \/ ChargeRefused(t) \/ ChargeLogin(t) \/ SaveCharge(t) \/ SaveChargeFailed(t)
  \/ NewDevice(t) \/ SaveTm(t) \/ SaveTmFailed(t) \/ KnownDevice(t)
  \/ AuthorizeRejected(t) \/ AuthorizeChallenged(t) \/ AuthorizeGranted(t)
  \/ ExchangeRejected(t)

Next ==
  \/ \E t \in Task : Call(t) \/ Acquire(t) \/ Proceed(t) \/ Abandon(t)
  \/ Restart \/ Tick \/ Quiet

Spec == Init /\ [][Next]_vars

\* tokio's mutex serves its waiters in order, hence the strong fairness of
\* Acquire; reqwest's timeouts bound every wait for the upstream.
Fairness == \A t \in Task : WF_vars(Proceed(t)) /\ SF_vars(Acquire(t))
LiveSpec == Spec /\ Fairness

-----------------------------------------------------------------------------
(***************************************************************************)
(* Properties.                                                             *)
(***************************************************************************)
\* The types of the variables.
TypeOK ==
  /\ now \in Nat /\ cfg \in Settings
  /\ mem \in CacheState /\ disk \in CacheState
  /\ flight \in Task \cup {NoTask}
  /\ backoff \in [failures : Nat, next : Nat]
  /\ challenge \in BOOLEAN
  /\ pc \in [Task -> PC] /\ op \in [Task -> Op]
  /\ call \in [Task -> Nat] /\ used \in [Task -> Nat] /\ paid \in [Task -> Nat]
  /\ calls \in Nat
  /\ submitted \subseteq Charge /\ devices \subseteq Nat /\ spent \subseteq Nat
  /\ failed \in [at : Nat, wait : Nat]

\* At most one token acquisition is in flight, whatever the tasks do, abandoned
\* operations and restarts included (auth.rs: the flight mutex).
SingleFlight ==
  \A t, u \in Task : pc[t] \in Holding /\ pc[u] \in Holding => t = u

\* However often the process crashes and whatever saves fail, the password
\* logins submitted within any Window number at most MaxLogins
\* (token_cache.rs: check_and_record_credential_login before the POST).
LoginBudget == Cardinality(Live(submitted)) <= MaxLogins

\* A password is submitted as the device the configuration names, and where it
\* names none, as the device of the submission before, over crashes, failed saves
\* and restarts: a device once shown is on disk, and only an id configured since
\* then may have taken its place (tm_session_id, SIMPLIFI_TM_SESSION_ID).
OneDevice ==
  [][\A t \in Task : pc[t] # "authorize" /\ pc'[t] = "authorize" =>
       IF cfg.device # 0 THEN devices' = {cfg.device}
       ELSE devices # {} => devices' \subseteq devices]_vars

\* A refresh token whose replacement has been saved is never sent again, by a
\* task that raced the refresh or after a restart (access_token's re-check).
NoSpentRefresh ==
  \A t \in Task : pc[t] = "refresh" => used[t] \notin spent

\* After a failed refresh the next is sent no earlier than the delay its run has
\* come to: BackoffBase after the first failure and twice the last delay after
\* each other one, up to BackoffMax; a saved login or refresh, or a restart, ends
\* the run (auth.rs: refresh_backoff, whose shift stops at the sixth failure).
RefreshSpacing ==
  [][\A t \in Task : pc[t] # "refresh" /\ pc'[t] = "refresh" =>
       now >= failed.at + failed.wait]_vars

\* Every operation returns: no error path keeps the flight guard.
EveryCallReturns == \A t \in Task : (pc[t] # "idle") ~> (pc[t] = "idle")
=============================================================================
