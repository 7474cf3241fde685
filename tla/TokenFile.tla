------------------------------ MODULE TokenFile ------------------------------
(***************************************************************************)
(* How the token cache reaches its file (open, save and write_atomic_private *)
(* in src/token_cache.rs): a snapshot of the state in memory is written to *)
(* a temporary file of a fixed name and renamed over tokens.enc.  The      *)
(* savers are the threads of a process that are inside save(); every CLI   *)
(* command is a process of its own on the same data directory.             *)
(*                                                                         *)
(* The file is sealed with a key that a starting process takes from the    *)
(* keychain (src/secrets.rs), and puts there if it finds none.  A key that *)
(* comes from the environment or a key file is one that is always found.   *)
(*                                                                         *)
(* A state is the set of the updates it shows.  Files are inodes, so that  *)
(* a writer goes on writing to what it opened, wherever a rename puts it.  *)
(***************************************************************************)
EXTENDS Integers, FiniteSets

CONSTANTS
  Proc,       \* processes sharing the data directory
  Saver,      \* threads that save
  ProcOf,     \* the process of each
  Failures,   \* external: a file operation may fail, or the keychain refuse a key
  Denied,     \* external: security(1) may fail to show a key that is there
  MaxLogins,  \* max_credential_logins_per_24h
  MaxUpdates, \* bound: updates in a behaviour
  MaxStarts   \* bound: process starts

ASSUME ProcAssumption  == ProcOf \in [Saver -> Proc] /\ IsFiniteSet(Saver)
ASSUME LimitAssumption ==
  /\ MaxLogins \in Nat /\ MaxUpdates \in Nat /\ MaxStarts \in Nat
  /\ Failures \in BOOLEAN /\ Denied \in BOOLEAN

\* Enough for the two names and every open descriptor, and one to spare.
Inode == 1 .. Cardinality(Saver) + 3
None  == 0

VARIABLES
  file,       \* what each inode holds
  path, tmp,  \* tokens.enc and tokens.enc.tmp: an inode or None
  keychain,   \* the key a start finds: a number, or None
  keys,       \* keys generated so far
  up, mem, key, \* each process: running, its TokenState and its key
  pc, op,     \* each saver: at which step of save(), and on behalf of what
  snap, fd,   \* its serialized snapshot, and the file it has open
  new,        \* the update it is saving
  updates, starts,
  \* History variables:
  logins,     \* the updates that are credential-login records
  acked,      \* the updates whose save returned Ok
  submitted   \* the login attempts that went on to the upstream

files  == <<file, path, tmp>>
secrets == <<keychain, keys>>
procs  == <<up, mem, key, starts>>
savers == <<pc, op, snap, fd, new>>
vars == <<files, secrets, procs, savers, updates, logins, acked, submitted>>

Empty == [kind |-> "empty", holds |-> {}, by |-> None]
Torn  == [kind |-> "torn", holds |-> {}, by |-> None]
\* encrypt_state
Sealed(S, k) == [kind |-> "sealed", holds |-> S, by |-> k]

\* What decrypt_state finds under tokens.enc: nothing yet is the default state.
Stored == IF path = None THEN {} ELSE file[path].holds
Opens(k) == path # None => file[path].kind = "sealed" /\ file[path].by = k

Init ==
  /\ file = [i \in Inode |-> Empty] /\ path = None /\ tmp = None
  /\ keychain \in {None, 1} /\ keys = 1
  /\ up = [p \in Proc |-> FALSE] /\ mem = [p \in Proc |-> {}] /\ starts = 0
  /\ key = [p \in Proc |-> None]
  /\ pc = [s \in Saver |-> "idle"] /\ op = [s \in Saver |-> "none"]
  /\ snap = [s \in Saver |-> {}] /\ fd = [s \in Saver |-> None]
  /\ new = [s \in Saver |-> None]
  /\ updates = 0 /\ logins = {} /\ acked = {} /\ submitted = {}

-----------------------------------------------------------------------------
Goto(s, where) == pc' = [pc EXCEPT ![s] = where]
Peers(s) == {u \in Saver : ProcOf[u] = ProcOf[s] /\ u # s}

\* A process starts, and its cache key is resolved.
Start(s) ==
  /\ ~up[ProcOf[s]] /\ pc[s] = "idle" /\ starts < MaxStarts
  /\ starts' = starts + 1
  /\ up' = [up EXCEPT ![ProcOf[s]] = TRUE]
  /\ op' = [op EXCEPT ![s] = "start"]
  /\ Goto(s, "key")
  /\ UNCHANGED <<files, secrets, mem, key, snap, fd, new, updates, logins, acked, submitted>>

\* keychain_get: any failure of security(1) is taken for "no key yet",
KeyFound(s) ==
  /\ pc[s] = "key" /\ keychain # None
  /\ key' = [key EXCEPT ![ProcOf[s]] = keychain]
  /\ Goto(s, "load")
  /\ UNCHANGED <<files, secrets, up, mem, starts, op, snap, fd, new, updates, logins, acked, submitted>>

\* and a fresh key is made,
KeyMissing(s) ==
  /\ pc[s] = "key" /\ (keychain = None \/ Denied)
  /\ keys' = keys + 1
  /\ key' = [key EXCEPT ![ProcOf[s]] = keys + 1]
  /\ Goto(s, "add")
  /\ UNCHANGED <<files, keychain, up, mem, starts, op, snap, fd, new, updates, logins, acked, submitted>>

\* that add-generic-password -U puts in place of any other.
KeyAdded(s) ==
  /\ pc[s] = "add"
  /\ keychain' = key[ProcOf[s]]
  /\ Goto(s, "load")
  /\ UNCHANGED <<files, keys, procs, op, snap, fd, new, updates, logins, acked, submitted>>

\* TokenCache::open: the file is read, and saved again.
Load(s) ==
  /\ pc[s] = "load" /\ Opens(key[ProcOf[s]])
  /\ mem' = [mem EXCEPT ![ProcOf[s]] = Stored]
  /\ Goto(s, "snapshot")
  /\ UNCHANGED <<files, secrets, up, key, starts, op, snap, fd, new, updates, logins, acked, submitted>>

\* The state changes under its lock, and save() follows.
Change(s, o) ==
  /\ up[ProcOf[s]] /\ pc[s] = "idle" /\ updates < MaxUpdates
  /\ \A u \in Peers(s) : op[u] # "start"
  /\ updates' = updates + 1
  /\ mem' = [mem EXCEPT ![ProcOf[s]] = @ \cup {updates + 1}]
  /\ new' = [new EXCEPT ![s] = updates + 1]
  /\ op' = [op EXCEPT ![s] = o]
  /\ Goto(s, "snapshot")
  /\ UNCHANGED <<files, secrets, up, key, starts, snap, fd, acked, submitted>>

\* check_and_record_credential_login, under the flight lock of its process; the
\* behaviour is shorter than 24 hours.
Login(s) ==
  /\ Cardinality(mem[ProcOf[s]] \cap logins) < MaxLogins
  /\ \A u \in Peers(s) : op[u] # "login"
  /\ logins' = logins \cup {updates + 1}
  /\ Change(s, "login")

\* set_dataset_id, tm_session_id, store_tokens, clear_tokens
Other(s) == Change(s, "other") /\ UNCHANGED logins

-----------------------------------------------------------------------------
\* Fault: a snapshot taken before the change.
SnapshotEarly(s) ==
  /\ pc[s] = "snapshot"
  /\ snap' = [snap EXCEPT ![s] = mem[ProcOf[s]] \ {new[s]}]
  /\ Goto(s, "open")
  /\ UNCHANGED <<files, secrets, procs, op, fd, new, updates, logins, acked, submitted>>

\* save: the state is serialized under its lock, which is then dropped.
Snapshot(s) ==
  /\ pc[s] = "snapshot"
  /\ snap' = [snap EXCEPT ![s] = mem[ProcOf[s]]]
  /\ Goto(s, "open")
  /\ UNCHANGED <<files, secrets, procs, op, fd, new, updates, logins, acked, submitted>>

Fresh == CHOOSE i \in Inode : i \notin {path, tmp} \cup {fd[s] : s \in Saver}

\* Fault: the file is written in place.
InPlace == IF path = None THEN Fresh ELSE path
\* The inode that the save is going to write to.
Target == IF tmp = None THEN Fresh ELSE tmp

\* open(O_CREAT | O_TRUNC)
OpenTmp(s) ==
  /\ pc[s] = "open"
  /\ fd' = [fd EXCEPT ![s] = Target]
  /\ file' = [file EXCEPT ![Target] = Empty]
  /\ tmp' = IF Target = path THEN tmp ELSE Target
  /\ Goto(s, "write")
  /\ UNCHANGED <<path, secrets, procs, op, snap, new, updates, logins, acked, submitted>>

\* write_all and sync_all: over what another writer left, the longer tail stays.
Write(s) ==
  /\ pc[s] = "write"
  /\ \E c \in {Sealed(snap[s], key[ProcOf[s]])} \cup (IF file[fd[s]] = Empty THEN {} ELSE {Torn}) :
       file' = [file EXCEPT ![fd[s]] = c]
  /\ fd' = [fd EXCEPT ![s] = None]
  /\ Goto(s, "rename")
  /\ UNCHANGED <<path, tmp, secrets, procs, op, snap, new, updates, logins, acked, submitted>>

Rename(s) ==
  /\ pc[s] = "rename" /\ tmp # None
  /\ path' = tmp /\ tmp' = None
  /\ Goto(s, "chmod")
  /\ UNCHANGED <<file, secrets, procs, op, snap, fd, new, updates, logins, acked, submitted>>

Reset(s) ==
  /\ Goto(s, "idle") /\ op' = [op EXCEPT ![s] = "none"]
  /\ snap' = [snap EXCEPT ![s] = {}] /\ fd' = [fd EXCEPT ![s] = None]
  /\ new' = [new EXCEPT ![s] = None]

\* The mode is asserted, and save returns Ok; a recorded login is submitted.
Done(s) ==
  /\ pc[s] = "chmod"
  /\ acked' = IF op[s] = "start" THEN acked ELSE acked \cup {new[s]}
  /\ submitted' = IF op[s] = "login" THEN submitted \cup {new[s]} ELSE submitted
  /\ Reset(s)
  /\ UNCHANGED <<files, secrets, procs, updates, logins>>

\* Fault: a login that goes on although its record was not saved.
FailsUnnoticed(s) ==
  /\ Failures /\ pc[s] \in {"open", "write", "rename", "chmod"}
  /\ submitted' = IF op[s] = "login" THEN submitted \cup {new[s]} ELSE submitted
  /\ Reset(s)
  /\ UNCHANGED <<files, secrets, procs, updates, logins, acked>>

\* A file operation fails: so does save, and a start with it, as when the key is
\* refused or does not open the file.  What a failed write leaves in its file
\* cannot be opened.
Fails(s) ==
  /\ \/ Failures /\ pc[s] \in {"key", "add", "load", "open", "write", "rename", "chmod"}
     \/ pc[s] = "rename" /\ tmp = None
     \/ pc[s] = "load" /\ ~Opens(key[ProcOf[s]])
  /\ file' = IF pc[s] = "write" THEN [file EXCEPT ![fd[s]] = Torn] ELSE file
  /\ up' = [up EXCEPT ![ProcOf[s]] = @ /\ op[s] # "start"]
  /\ Reset(s)
  /\ UNCHANGED <<path, tmp, secrets, mem, key, starts, updates, logins, acked, submitted>>

\* The process dies, or ends: the files stay as they are.
Exit(p) ==
  LET Gone == {s \in Saver : ProcOf[s] = p} IN
  /\ up[p]
  /\ up' = [up EXCEPT ![p] = FALSE] /\ mem' = [mem EXCEPT ![p] = {}]
  /\ key' = [key EXCEPT ![p] = None]
  /\ pc' = [s \in Saver |-> IF s \in Gone THEN "idle" ELSE pc[s]]
  /\ op' = [s \in Saver |-> IF s \in Gone THEN "none" ELSE op[s]]
  /\ snap' = [s \in Saver |-> IF s \in Gone THEN {} ELSE snap[s]]
  /\ fd' = [s \in Saver |-> IF s \in Gone THEN None ELSE fd[s]]
  /\ new' = [s \in Saver |-> IF s \in Gone THEN None ELSE new[s]]
  /\ UNCHANGED <<files, secrets, starts, updates, logins, acked, submitted>>

\* Nothing left to do within the bounds.
Quiet == (\A s \in Saver : pc[s] = "idle") /\ UNCHANGED vars

Next ==
  \/ \E s \in Saver :
       \/ Start(s) \/ KeyFound(s) \/ KeyMissing(s) \/ KeyAdded(s) \/ Load(s)
       \/ Login(s) \/ Other(s)
       \/ Snapshot(s) \/ OpenTmp(s) \/ Write(s) \/ Rename(s) \/ Done(s) \/ Fails(s)
  \/ \E p \in Proc : Exit(p)
  \/ Quiet

Spec == Init /\ [][Next]_vars

-----------------------------------------------------------------------------
\* Whenever a process dies, its first start included, tokens.enc is absent or a
\* whole state sealed with the key that the next start finds: never truncated,
\* half-written (atomic tmp+rename) or sealed with a key that is gone.
AlwaysOpens == Opens(keychain)

\* The persisted budget: at most MaxLogins login attempts reach the upstream,
\* through any number of restarts and failed saves.
BudgetPersists == Cardinality(submitted) <= MaxLogins

\* The file behaves as the register its callers rely on.
Register == INSTANCE TokenRegister WITH known <- 1 .. updates, stored <- Stored
IsRegister == Register!Spec
=============================================================================
