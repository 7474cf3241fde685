---------------------------- MODULE TokenFileProofs ----------------------------
(***************************************************************************)
(* Proofs about TokenFile, for any number of processes and threads, and of *)
(* updates, starts, failures and deaths, as long as no two processes run   *)
(* and no two threads save at once (Alternates).  The code does not        *)
(* enforce that, and the file is not safe without it: the run              *)
(* file_two_threads breaks AlwaysOpens with two threads in save().         *)
(***************************************************************************)
EXTENDS TokenFile, FiniteSetTheorems, TLAPS

Alternates ==
  /\ \A p, q \in Proc : up[p] /\ up[q] => p = q
  /\ \A s, u \in Saver : pc[s] # "idle" /\ pc[u] # "idle" => s = u

-----------------------------------------------------------------------------
(***************************************************************************)
(* The inductive invariant, part by part.                                  *)
(***************************************************************************)
PC == {"idle", "key", "add", "load", "snapshot", "open", "write", "rename", "chmod"}
Content == [kind : {"empty", "torn", "sealed"}, holds : SUBSET Nat, by : Nat]

Types ==
  /\ file \in [Inode -> Content] /\ path \in Inode \cup {None} /\ tmp \in Inode \cup {None}
  /\ keychain \in Nat /\ keys \in Nat \ {0}
  /\ up \in [Proc -> BOOLEAN] /\ key \in [Proc -> Nat]
  /\ updates \in Nat /\ mem \in [Proc -> SUBSET (1 .. updates)]
  /\ pc \in [Saver -> PC] /\ op \in [Saver -> {"none", "start", "login", "other"}]
  /\ snap \in [Saver -> SUBSET Nat] /\ fd \in [Saver -> Inode \cup {None}]
  /\ new \in [Saver -> Nat]
  /\ logins \subseteq 1 .. updates

(* The process's state is in memory: its start is past the load.            *)
Loaded(p) == up[p] /\ \A s \in Saver : ProcOf[s] = p => pc[s] \notin {"key", "add", "load"}

(* Where a save is, and what it has written so far.                         *)
Saves(s) ==
  /\ pc[s] # "idle" => up[ProcOf[s]]
  /\ pc[s] \in {"key", "add", "load"} => op[s] = "start"
  /\ fd[s] = IF pc[s] = "write" THEN tmp ELSE None
  /\ pc[s] \in {"open", "write", "rename"} => snap[s] = mem[ProcOf[s]]
  /\ pc[s] = "write" => tmp # None /\ file[tmp] = Empty
  /\ pc[s] = "rename" => tmp # None /\ file[tmp] = Sealed(snap[s], key[ProcOf[s]])
  /\ pc[s] = "chmod" => Stored = mem[ProcOf[s]]
  /\ op[s] # "start" /\ pc[s] # "idle" => new[s] \in mem[ProcOf[s]]
  /\ op[s] = "login" => new[s] \in logins
SaveOK == \A s \in Saver : Saves(s)

(* The file is whole, and the process that runs has all it holds.           *)
FileOK ==
  /\ path # None => path # tmp /\ file[path].kind = "sealed"
  /\ \A p \in Proc : Loaded(p) => Stored \subseteq mem[p]
  /\ Stored \subseteq 1 .. updates

AckedOK == acked \subseteq Stored /\ submitted \subseteq Stored \cap logins

Within(S) == IsFiniteSet(S \cap logins) /\ Cardinality(S \cap logins) <= MaxLogins
LoginsOK == Within(Stored) /\ \A p \in Proc : Within(mem[p])

(* Under Denied = FALSE: one key, of the keychain, the process and the file. *)
KeyOK ==
  /\ path # None => keychain # None /\ file[path].by = keychain
  /\ \A s \in Saver : pc[s] = "add" => keychain = None /\ key[ProcOf[s]] # None
  /\ \A p \in Proc :
       up[p] /\ (\A s \in Saver : ProcOf[s] = p => pc[s] \notin {"key", "add"}) =>
         keychain # None /\ key[p] = keychain

Inv == Types /\ SaveOK /\ FileOK /\ AckedOK /\ LoginsOK

-----------------------------------------------------------------------------
(***************************************************************************)
(* The steps.                                                              *)
(***************************************************************************)
LEMMA StepCases ==
  ASSUME [Next]_vars
  PROVE  \/ \E s \in Saver : Start(s)
         \/ \E s \in Saver : KeyFound(s)
         \/ \E s \in Saver : KeyMissing(s)
         \/ \E s \in Saver : KeyAdded(s)
         \/ \E s \in Saver : Load(s)
         \/ \E s \in Saver : Login(s)
         \/ \E s \in Saver : Other(s)
         \/ \E s \in Saver : Snapshot(s)
         \/ \E s \in Saver : OpenTmp(s)
         \/ \E s \in Saver : Write(s)
         \/ \E s \in Saver : Rename(s)
         \/ \E s \in Saver : Done(s)
         \/ \E s \in Saver : Fails(s)
         \/ \E p \in Proc : Exit(p)
         \/ UNCHANGED vars
  BY DEF Next, Quiet

LEMMA InodeTypes == Inode = 1 .. Cardinality(Saver) + 3 /\ Cardinality(Saver) \in Nat
  BY ProcAssumption, FS_CardinalityType DEF Inode

LEMMA ContentTypes ==
  ASSUME NEW S \in SUBSET Nat, NEW k \in Nat
  PROVE  Sealed(S, k) \in Content /\ Torn \in Content /\ Empty \in Content
  BY DEF Sealed, Torn, Empty, Content, None

(* With no other file open, there is an inode to spare.                     *)
LEMMA FreshFound ==
  ASSUME Types, \A s \in Saver : fd[s] = None
  PROVE  Fresh \in Inode /\ Fresh # path /\ Fresh # tmp
<1>1. {path, tmp} \cup {fd[s] : s \in Saver} \subseteq {path, tmp, None}
  OBVIOUS
<1>2. \E i \in 1 .. 3 : i \notin {path, tmp, None}
  <2>1. 1 \notin {path, tmp, None} \/ 2 \notin {path, tmp, None} \/ 3 \notin {path, tmp, None}
    BY DEF None
  <2>2. QED
    BY <2>1
<1>3. 1 .. 3 \subseteq Inode
  BY InodeTypes
<1>4. \E i \in Inode : i \notin {path, tmp} \cup {fd[s] : s \in Saver}
  BY <1>1, <1>2, <1>3
<1>5. QED
  BY <1>4 DEF Fresh

(* A step of s, when it is the only one in a start or a save.               *)
LEMMA TargetFound ==
  ASSUME Types, SaveOK, FileOK, Alternates, NEW s \in Saver, pc[s] = "open"
  PROVE  Target \in Inode /\ Target # path /\ Target # None
<1>1. \A u \in Saver : fd[u] = None
  BY DEF SaveOK, Saves, Alternates
<1>2. CASE tmp = None
  BY <1>1, <1>2, FreshFound, InodeTypes DEF Target, None
<1>3. CASE tmp # None
  BY <1>3, InodeTypes DEF Target, Types, FileOK, None
<1>4. QED
  BY <1>2, <1>3

LEMMA ChangeTypes ==
  ASSUME Types, NEW s \in Saver, NEW o \in {"login", "other"}, Change(s, o),
         logins' \subseteq 1 .. updates + 1
  PROVE  Types'
<1>1. /\ updates' = updates + 1 /\ mem' = [mem EXCEPT ![ProcOf[s]] = @ \cup {updates + 1}]
      /\ updates \in Nat /\ ProcOf[s] \in Proc /\ mem \in [Proc -> SUBSET (1 .. updates)]
  BY ProcAssumption DEF Change, Types
<1>2. mem' \in [Proc -> SUBSET (1 .. updates')]
  <2>1. mem[ProcOf[s]] \cup {updates + 1} \in SUBSET (1 .. updates + 1)
    BY <1>1
  <2>2. \A p \in Proc : mem[p] \in SUBSET (1 .. updates + 1)
    BY <1>1
  <2>3. QED
    BY <1>1, <2>1, <2>2
<1>3. pc' \in [Saver -> PC] /\ op' \in [Saver -> {"none", "start", "login", "other"}]
      /\ new' \in [Saver -> Nat]
  BY <1>1 DEF Change, Goto, Types, PC
<1>4. QED
  BY <1>1, <1>2, <1>3 DEF Change, Types, files, secrets

LEMMA ResetTypes ==
  ASSUME Types, NEW s \in Saver, Reset(s)
  PROVE  /\ pc' \in [Saver -> PC] /\ op' \in [Saver -> {"none", "start", "login", "other"}]
         /\ snap' \in [Saver -> SUBSET Nat] /\ fd' \in [Saver -> Inode \cup {None}]
         /\ new' \in [Saver -> Nat]
  BY DEF Types, Reset, Goto, PC, None

LEMMA TypesStep ==
  ASSUME Types, SaveOK, FileOK, Alternates, [Next]_vars
  PROVE  Types'
<1> USE DEF Goto, files, secrets, procs, savers
<1>0. \A s \in Saver : ProcOf[s] \in Proc
  BY ProcAssumption
<1>1. ASSUME NEW s \in Saver, Start(s) PROVE Types'
  BY <1>0, <1>1 DEF Start, Types, PC
<1>2. ASSUME NEW s \in Saver, KeyFound(s) PROVE Types'
  BY <1>0, <1>2 DEF KeyFound, Types, PC
<1>3. ASSUME NEW s \in Saver, KeyMissing(s) PROVE Types'
  BY <1>0, <1>3 DEF KeyMissing, Types, PC
<1>4. ASSUME NEW s \in Saver, KeyAdded(s) PROVE Types'
  BY <1>0, <1>4 DEF KeyAdded, Types, PC
<1>5. ASSUME NEW s \in Saver, Load(s) PROVE Types'
  <2>1. Stored \in SUBSET (1 .. updates)
    BY DEF FileOK
  <2>2. QED
    BY <1>0, <1>5, <2>1 DEF Load, Types, PC
<1>6. ASSUME NEW s \in Saver, Login(s) PROVE Types'
  <2>1. logins' \subseteq 1 .. updates + 1
    BY <1>6 DEF Login, Types
  <2>2. QED
    BY <1>6, <2>1, ChangeTypes DEF Login
<1>7. ASSUME NEW s \in Saver, Other(s) PROVE Types'
  <2>1. logins' \subseteq 1 .. updates + 1
    BY <1>7 DEF Other, Types
  <2>2. QED
    BY <1>7, <2>1, ChangeTypes DEF Other
<1>8. ASSUME NEW s \in Saver, Snapshot(s) PROVE Types'
  <2>1. mem[ProcOf[s]] \in SUBSET Nat
    BY <1>0 DEF Types
  <2>2. QED
    BY <1>8, <2>1 DEF Snapshot, Types, PC
<1>9. ASSUME NEW s \in Saver, OpenTmp(s) PROVE Types'
  <2>1. Target \in Inode
    BY <1>9, TargetFound DEF OpenTmp
  <2>2. QED
    BY <1>9, <2>1, ContentTypes DEF OpenTmp, Types, PC
<1>10. ASSUME NEW s \in Saver, Write(s) PROVE Types'
  <2>1. Sealed(snap[s], key[ProcOf[s]]) \in Content /\ Torn \in Content
    BY <1>0, ContentTypes DEF Types
  <2>2. file' \in [Inode -> Content]
    <3>1. PICK c \in Content : file' = [file EXCEPT ![fd[s]] = c]
      BY <1>10, <2>1 DEF Write
    <3>2. QED
      BY <3>1 DEF Types
  <2>3. QED
    BY <1>10, <2>2 DEF Write, Types, PC
<1>11. ASSUME NEW s \in Saver, Rename(s) PROVE Types'
  BY <1>11 DEF Rename, Types, PC
<1>12. ASSUME NEW s \in Saver, Done(s) PROVE Types'
  BY <1>12, ResetTypes DEF Done, Types
<1>13. ASSUME NEW s \in Saver, Fails(s) PROVE Types'
  <2>1. file' \in [Inode -> Content]
    BY <1>13, ContentTypes DEF Fails, Types
  <2>2. up' \in [Proc -> BOOLEAN]
    BY <1>0, <1>13 DEF Fails, Types
  <2>3. QED
    BY <1>13, <2>1, <2>2, ResetTypes DEF Fails, Types
<1>14. ASSUME NEW p \in Proc, Exit(p) PROVE Types'
  <2>1. mem' \in [Proc -> SUBSET (1 .. updates)]
    BY <1>14 DEF Exit, Types
  <2>2. snap' \in [Saver -> SUBSET Nat] /\ fd' \in [Saver -> Inode \cup {None}]
    BY <1>14 DEF Exit, Types
  <2>3. QED
    BY <1>14, <2>1, <2>2 DEF Exit, Types, PC, None
<1>15. CASE UNCHANGED vars
  BY <1>15 DEF vars, Types
<1>16. QED
  BY <1>1, <1>2, <1>3, <1>4, <1>5, <1>6, <1>7, <1>8, <1>9, <1>10, <1>11, <1>12, <1>13,
     <1>14, <1>15, StepCases

-----------------------------------------------------------------------------
(***************************************************************************)
(* A save writes what memory holds.                                        *)
(***************************************************************************)
Only(s) == \A u \in Saver \ {s} :
  /\ pc[u] = "idle" /\ pc'[u] = "idle"
  /\ fd'[u] = fd[u] /\ op'[u] = op[u] /\ new'[u] = new[u]

(* The step of a saver is the step of the only one at work.                 *)
LEMMA OthersIdle ==
  ASSUME Types, NEW s \in Saver, Alternates, Alternates',
         \/ Start(s) \/ KeyFound(s) \/ KeyMissing(s) \/ KeyAdded(s) \/ Load(s)
         \/ Login(s) \/ Other(s) \/ Snapshot(s) \/ OpenTmp(s) \/ Write(s) \/ Rename(s)
         \/ Done(s) \/ Fails(s)
  PROVE  Only(s)
<1>1. ASSUME Goto(s, "idle") \/ \E w \in PC \ {"idle"} : Goto(s, w)
      PROVE  \A u \in Saver \ {s} : pc'[u] = pc[u]
  BY <1>1 DEF Goto, Types
<1>2. CASE Start(s) \/ Change(s, "login") \/ Change(s, "other")
  <2>1. pc'[s] # "idle" /\ \A u \in Saver \ {s} : pc'[u] = pc[u]
    BY <1>2 DEF Start, Change, Goto, Types
  <2>2. \A u \in Saver \ {s} : pc[u] = "idle"
    BY <2>1 DEF Alternates
  <2>3. QED
    BY <1>2, <2>1, <2>2 DEF Start, Change, Only, Types
<1>3. CASE KeyFound(s) \/ KeyMissing(s) \/ KeyAdded(s) \/ Load(s) \/ Snapshot(s) \/ OpenTmp(s)
           \/ Write(s) \/ Rename(s)
  <2>1. pc[s] # "idle" /\ (\A u \in Saver \ {s} : pc'[u] = pc[u])
    BY <1>3 DEF KeyFound, KeyMissing, KeyAdded, Load, Snapshot, OpenTmp, Write, Rename, Goto, Types
  <2>2. \A u \in Saver \ {s} : pc[u] = "idle"
    BY <2>1 DEF Alternates
  <2>3. QED
    BY <1>3, <2>1, <2>2
       DEF KeyFound, KeyMissing, KeyAdded, Load, Snapshot, OpenTmp, Write, Rename, Only, Types
<1>4. CASE Done(s) \/ Fails(s)
  <2>1. pc[s] # "idle" /\ Reset(s)
    BY <1>4 DEF Done, Fails
  <2>2. \A u \in Saver \ {s} : pc[u] = "idle" /\ pc'[u] = pc[u]
    BY <2>1 DEF Reset, Goto, Types, Alternates
  <2>3. QED
    BY <2>1, <2>2 DEF Reset, Only, Types
<1>5. QED
  BY <1>2, <1>3, <1>4 DEF Login, Other

LEMMA SaveFrame ==
  ASSUME SaveOK, NEW s \in Saver, Only(s), logins \subseteq logins', Saves(s)'
  PROVE  SaveOK'
<1>1. ASSUME NEW u \in Saver \ {s} PROVE Saves(u)'
  <2>1. Saves(u)
    BY DEF SaveOK
  <2>2. QED
    BY <2>1 DEF Saves, Only
<1>2. QED
  BY <1>1 DEF SaveOK

LEMMA ChangeEffect ==
  ASSUME Types, NEW s \in Saver, NEW o \in {"login", "other"}, Change(s, o)
  PROVE  /\ UNCHANGED <<file, path, tmp, keychain, key, up, snap, fd, acked, submitted>>
         /\ updates \in Nat /\ updates' = updates + 1
         /\ up[ProcOf[s]] /\ pc[s] = "idle" /\ pc'[s] = "snapshot" /\ op'[s] = o
         /\ new'[s] = updates + 1
         /\ mem'[ProcOf[s]] = mem[ProcOf[s]] \cup {updates + 1}
         /\ \A p \in Proc : mem'[p] = mem[p] \/ p = ProcOf[s]
         /\ \A u \in Saver : ProcOf[u] = ProcOf[s] /\ u # s => op[u] # "start"
  BY ProcAssumption DEF Change, Goto, Peers, Types, files, secrets

LEMMA SaveStep ==
  ASSUME Types, SaveOK, FileOK, Alternates, Alternates', [Next]_vars
  PROVE  SaveOK'
<1> USE DEF Goto, files, secrets, procs, savers
<1>0. (\A s \in Saver : ProcOf[s] \in Proc /\ Saves(s)) /\ \A x : Sealed({}, x) # Empty
  BY ProcAssumption DEF SaveOK, Sealed, Empty
<1>1. ASSUME NEW s \in Saver, Start(s) PROVE Saves(s)' /\ logins' = logins
  BY <1>0, <1>1 DEF Start, Saves, Types
<1>2. ASSUME NEW s \in Saver, KeyFound(s) PROVE Saves(s)' /\ logins' = logins
  BY <1>0, <1>2 DEF KeyFound, Saves, Types
<1>3. ASSUME NEW s \in Saver, KeyMissing(s) PROVE Saves(s)' /\ logins' = logins
  BY <1>0, <1>3 DEF KeyMissing, Saves, Types
<1>4. ASSUME NEW s \in Saver, KeyAdded(s) PROVE Saves(s)' /\ logins' = logins
  BY <1>0, <1>4 DEF KeyAdded, Saves, Types
<1>5. ASSUME NEW s \in Saver, Load(s) PROVE Saves(s)' /\ logins' = logins
  BY <1>0, <1>5 DEF Load, Saves, Types
<1>6. ASSUME NEW s \in Saver, Login(s) PROVE Saves(s)' /\ logins \subseteq logins'
  <2>1. Change(s, "login") /\ logins' = logins \cup {updates + 1}
    BY <1>6 DEF Login
  <2>2. /\ up'[ProcOf[s]] /\ pc[s] = "idle" /\ pc'[s] = "snapshot" /\ op'[s] = "login"
        /\ new'[s] = updates + 1 /\ fd'[s] = fd[s]
        /\ mem'[ProcOf[s]] = mem[ProcOf[s]] \cup {updates + 1}
    BY <2>1, ChangeEffect
  <2>3. fd[s] = None
    BY <1>0, <2>2 DEF Saves
  <2>4. QED
    BY <2>1, <2>2, <2>3 DEF Saves
<1>7. ASSUME NEW s \in Saver, Other(s) PROVE Saves(s)' /\ logins' = logins
  <2>1. Change(s, "other") /\ logins' = logins
    BY <1>7 DEF Other
  <2>2. /\ up'[ProcOf[s]] /\ pc[s] = "idle" /\ pc'[s] = "snapshot" /\ op'[s] = "other"
        /\ new'[s] = updates + 1 /\ fd'[s] = fd[s]
        /\ mem'[ProcOf[s]] = mem[ProcOf[s]] \cup {updates + 1}
    BY <2>1, ChangeEffect
  <2>3. fd[s] = None
    BY <1>0, <2>2 DEF Saves
  <2>4. QED
    BY <2>1, <2>2, <2>3 DEF Saves
<1>8. ASSUME NEW s \in Saver, Snapshot(s) PROVE Saves(s)' /\ logins' = logins
  BY <1>0, <1>8 DEF Snapshot, Saves, Types
<1>9. ASSUME NEW s \in Saver, OpenTmp(s) PROVE Saves(s)' /\ logins' = logins
  <2>1. Target \in Inode /\ Target # path /\ Target # None
    BY <1>9, TargetFound DEF OpenTmp
  <2>2. /\ pc[s] = "open" /\ pc'[s] = "write" /\ fd'[s] = Target /\ tmp' = Target
        /\ file'[Target] = Empty
    BY <1>9, <2>1 DEF OpenTmp, Types
  <2>3. /\ UNCHANGED <<snap, mem, up, op, new, key, logins>>
    BY <1>9 DEF OpenTmp
  <2>4. QED
    BY <1>0, <2>1, <2>2, <2>3 DEF Saves
<1>10. ASSUME NEW s \in Saver, Write(s) PROVE Saves(s)' /\ logins' = logins
  <2>1. fd[s] = tmp /\ tmp # None /\ tmp \in Inode /\ file[tmp] = Empty /\ snap[s] = mem[ProcOf[s]]
    BY <1>0, <1>10 DEF Write, Saves, Types
  <2>2. file'[tmp] = Sealed(snap[s], key[ProcOf[s]]) /\ tmp' = tmp
    BY <1>10, <2>1 DEF Write, Types
  <2>3. /\ pc[s] = "write" /\ pc'[s] = "rename" /\ fd'[s] = None
        /\ UNCHANGED <<snap, mem, up, op, new, key, logins>>
    BY <1>10 DEF Write, Types
  <2>4. QED
    BY <1>0, <2>1, <2>2, <2>3 DEF Saves
<1>11. ASSUME NEW s \in Saver, Rename(s) PROVE Saves(s)' /\ logins' = logins
  <2>1. /\ tmp # None /\ file[tmp] = Sealed(mem[ProcOf[s]], key[ProcOf[s]])
        /\ path' = tmp /\ file' = file /\ fd[s] = None
    BY <1>0, <1>11 DEF Rename, Saves
  <2>2. Stored' = mem[ProcOf[s]]
    BY <2>1 DEF Stored, Sealed
  <2>3. /\ pc[s] = "rename" /\ pc'[s] = "chmod"
        /\ UNCHANGED <<snap, fd, mem, up, op, new, key, logins>>
    BY <1>11 DEF Rename, Types
  <2>4. QED
    BY <1>0, <2>1, <2>2, <2>3 DEF Saves
<1>12. ASSUME NEW s \in Saver, Done(s) \/ Fails(s) PROVE Saves(s)' /\ logins' = logins
  <2>1. Reset(s) /\ logins' = logins
    BY <1>12 DEF Done, Fails
  <2>2. pc'[s] = "idle" /\ op'[s] = "none" /\ fd'[s] = None
    BY <2>1 DEF Reset, Types
  <2>3. QED
    BY <2>1, <2>2 DEF Saves
<1>13. ASSUME NEW p \in Proc, Exit(p) PROVE SaveOK'
  <2>1. \A u \in Saver : pc[u] # "idle" => ProcOf[u] = p
    BY <1>0, <1>13 DEF Exit, Saves, Alternates
  <2>2. ASSUME NEW u \in Saver
        PROVE /\ pc'[u] = "idle"
              /\ (op'[u] = "none" /\ fd'[u] = None)
                 \/ (pc[u] = "idle" /\ op'[u] = op[u] /\ fd'[u] = fd[u] /\ new'[u] = new[u])
    BY <1>13, <2>1 DEF Exit, Types
  <2>3. logins' = logins
    BY <1>13 DEF Exit
  <2>4. QED
    BY <1>0, <2>2, <2>3 DEF SaveOK, Saves
<1>14. CASE UNCHANGED vars
  BY <1>0, <1>14 DEF vars, Saves, SaveOK, Stored
<1>15. QED
  BY <1>1, <1>2, <1>3, <1>4, <1>5, <1>6, <1>7, <1>8, <1>9, <1>10, <1>11, <1>12, <1>13,
     <1>14, StepCases, OthersIdle, SaveFrame

-----------------------------------------------------------------------------
(***************************************************************************)
(* The file changes by a rename, to what memory holds.                     *)
(***************************************************************************)
Renamed(s) ==
  /\ pc[s] = "rename" /\ tmp # None /\ path' = tmp /\ tmp' = None /\ file' = file
  /\ file[tmp] = Sealed(mem[ProcOf[s]], key[ProcOf[s]])
  /\ UNCHANGED <<mem, key, keychain, up, updates, logins, acked, submitted>>

LEMMA PathEffect ==
  ASSUME Types, SaveOK, FileOK, Alternates, [Next]_vars
  PROVE  \/ path' = path /\ (path # None => path # tmp' /\ file'[path] = file[path])
         \/ \E s \in Saver : Renamed(s)
<1> USE DEF files, secrets, procs, savers
<1> DEFINE Kept == path' = path /\ (path # None => path # tmp' /\ file'[path] = file[path])
<1>0. path # None => path # tmp /\ path \in Inode
  BY DEF FileOK, Types
<1>1. ASSUME NEW s \in Saver,
             \/ Start(s) \/ KeyFound(s) \/ KeyMissing(s) \/ KeyAdded(s) \/ Load(s)
             \/ Login(s) \/ Other(s) \/ Snapshot(s) \/ Done(s)
      PROVE  Kept
  BY <1>0, <1>1 DEF Start, KeyFound, KeyMissing, KeyAdded, Load, Login, Other, Change, Snapshot, Done
<1>2. ASSUME NEW s \in Saver, OpenTmp(s) PROVE Kept
  <2>1. Target \in Inode /\ Target # path /\ Target # None
    BY <1>2, TargetFound DEF OpenTmp
  <2>2. QED
    BY <1>0, <1>2, <2>1 DEF OpenTmp, Types
<1>3. ASSUME NEW s \in Saver, Write(s) \/ Fails(s) PROVE Kept
  <2>1. pc[s] = "write" => fd[s] = tmp
    BY DEF SaveOK, Saves
  <2>2. QED
    BY <1>0, <1>3, <2>1 DEF Write, Fails, Types
<1>4. ASSUME NEW s \in Saver, Rename(s) PROVE Renamed(s)
  <2>1. file[tmp] = Sealed(mem[ProcOf[s]], key[ProcOf[s]]) /\ tmp # None
    BY <1>4 DEF Rename, SaveOK, Saves
  <2>2. QED
    BY <1>4, <2>1 DEF Rename, Renamed
<1>5. ASSUME NEW p \in Proc, Exit(p) PROVE Kept
  BY <1>0, <1>5 DEF Exit
<1>6. CASE UNCHANGED vars
  BY <1>0, <1>6 DEF vars
<1>7. QED
  BY <1>1, <1>2, <1>3, <1>4, <1>5, <1>6, StepCases

LEMMA RenamedEffect ==
  ASSUME Types, SaveOK, FileOK, Alternates, NEW s \in Saver, Renamed(s)
  PROVE  /\ Stored' = mem[ProcOf[s]] /\ Stored \subseteq Stored' /\ Stored' \subseteq 1 .. updates
         /\ \A p \in Proc : up[p] => p = ProcOf[s]
<1>1. Stored' = mem[ProcOf[s]]
  BY DEF Renamed, Stored, Sealed
<1>2. ProcOf[s] \in Proc /\ up[ProcOf[s]]
  BY ProcAssumption DEF SaveOK, Saves, Renamed
<1>3. Loaded(ProcOf[s])
  BY <1>2 DEF Renamed, Loaded, Alternates
<1>4. QED
  BY <1>1, <1>2, <1>3 DEF FileOK, Types, Alternates

LEMMA StoredKept ==
  ASSUME path' = path, path # None => file'[path] = file[path]
  PROVE  Stored' = Stored
  BY DEF Stored

(* A process that is at work after a step was before it, or has just loaded. *)
LEMMA LoadedStep ==
  ASSUME Types, SaveOK, FileOK, Alternates, Alternates', [Next]_vars,
         NEW p \in Proc, Loaded(p)'
  PROVE  \/ Loaded(p) /\ mem[p] \subseteq mem'[p]
         \/ Stored \subseteq mem'[p] /\ path' = path /\ file' = file
<1> USE DEF files, secrets, procs, savers, Goto
<1>0. \A s \in Saver : ProcOf[s] \in Proc
  BY ProcAssumption
<1>1. ASSUME NEW s \in Saver, Start(s) PROVE Loaded(p) /\ mem[p] \subseteq mem'[p]
  <2>1. p # ProcOf[s]
    BY <1>1 DEF Start, Loaded, Types
  <2>2. up'[ProcOf[s]] /\ up'[p]
    BY <1>0, <1>1 DEF Start, Loaded, Types
  <2>3. QED
    BY <1>0, <2>1, <2>2 DEF Alternates
<1>2. ASSUME NEW s \in Saver, KeyFound(s) \/ KeyMissing(s) \/ KeyAdded(s)
      PROVE  Loaded(p) /\ mem[p] \subseteq mem'[p]
  <2>1. p # ProcOf[s]
    BY <1>2 DEF KeyFound, KeyMissing, KeyAdded, Loaded, Types
  <2>2. up[ProcOf[s]] /\ up[p]
    BY <1>2 DEF KeyFound, KeyMissing, KeyAdded, Loaded, SaveOK, Saves
  <2>3. QED
    BY <1>0, <2>1, <2>2 DEF Alternates
<1>3. ASSUME NEW s \in Saver, Load(s) PROVE Stored \subseteq mem'[p] /\ path' = path /\ file' = file
  <2>1. up[ProcOf[s]] /\ up[p]
    BY <1>3 DEF Load, Loaded, SaveOK, Saves
  <2>2. p = ProcOf[s]
    BY <1>0, <2>1 DEF Alternates
  <2>3. QED
    BY <1>0, <1>3, <2>2 DEF Load, Types
<1>4. ASSUME NEW s \in Saver, NEW o \in {"login", "other"}, Change(s, o)
      PROVE  Loaded(p) /\ mem[p] \subseteq mem'[p]
  <2>1. mem[p] \subseteq mem'[p] /\ up' = up
    BY <1>4, ChangeEffect
  <2>2. \A u \in Saver : pc[u] = pc'[u] \/ (u = s /\ pc[u] = "idle")
    BY <1>4, ChangeEffect DEF Change, Types
  <2>3. QED
    BY <2>1, <2>2 DEF Loaded
<1>5. ASSUME NEW s \in Saver, Snapshot(s) \/ OpenTmp(s) \/ Write(s) \/ Rename(s) \/ Done(s)
      PROVE  Loaded(p) /\ mem[p] \subseteq mem'[p]
  <2>1. /\ mem' = mem /\ up' = up
        /\ pc[s] \in {"snapshot", "open", "write", "rename", "chmod"}
        /\ \A u \in Saver \ {s} : pc'[u] = pc[u]
    BY <1>5 DEF Snapshot, OpenTmp, Write, Rename, Done, Reset, Types
  <2>2. QED
    BY <2>1 DEF Loaded
<1>6. ASSUME NEW s \in Saver, Fails(s) PROVE Loaded(p) /\ mem[p] \subseteq mem'[p]
  <2>1. /\ mem' = mem /\ \A u \in Saver \ {s} : pc'[u] = pc[u]
        /\ pc[s] # "idle" /\ up[ProcOf[s]]
        /\ up' = [up EXCEPT ![ProcOf[s]] = @ /\ op[s] # "start"]
        /\ pc[s] \in {"key", "add", "load"} => op[s] = "start"
    BY <1>6 DEF Fails, Reset, Types, SaveOK, Saves
  <2>2. up'[p] /\ up[p]
    BY <1>0, <2>1 DEF Loaded, Types
  <2>3. p = ProcOf[s]
    BY <1>0, <2>1, <2>2 DEF Alternates
  <2>4. op[s] # "start"
    BY <1>0, <2>1, <2>2, <2>3 DEF Types
  <2>5. QED
    BY <2>1, <2>2, <2>4 DEF Loaded
<1>7. ASSUME NEW q \in Proc, Exit(q) PROVE Loaded(p) /\ mem[p] \subseteq mem'[p]
  <2>1. up[q] /\ up' = [up EXCEPT ![q] = FALSE] /\ up'[p]
    BY <1>7 DEF Exit, Loaded
  <2>2. p # q /\ up[p]
    BY <2>1 DEF Types
  <2>3. QED
    BY <2>1, <2>2 DEF Alternates
<1>8. CASE UNCHANGED vars
  BY <1>8 DEF vars, Loaded
<1>9. QED
  BY <1>1, <1>2, <1>3, <1>4, <1>5, <1>6, <1>7, <1>8, StepCases DEF Login, Other

LEMMA FileStep ==
  ASSUME Types, SaveOK, FileOK, Alternates, Alternates', [Next]_vars
  PROVE  FileOK'
<1>1. ASSUME path' = path, path # None => path # tmp' /\ file'[path] = file[path]
      PROVE  FileOK'
  <2>1. Stored' = Stored
    BY <1>1, StoredKept
  <2>2. \A p \in Proc : Loaded(p)' => Stored \subseteq mem'[p]
    BY LoadedStep DEF FileOK
  <2>3. updates \in Nat /\ updates' \in Nat /\ updates <= updates'
    <3>1. updates \in Nat
      BY DEF Types
    <3>2. updates' = updates \/ updates' = updates + 1
      BY StepCases DEF Start, KeyFound, KeyMissing, KeyAdded, Load, Login, Other, Change, Snapshot,
         OpenTmp, Write, Rename, Done, Fails, Exit, vars
    <3>3. QED
      BY <3>1, <3>2
  <2>4. Stored \subseteq 1 .. updates'
    BY <2>3 DEF FileOK
  <2>5. QED
    BY <1>1, <2>1, <2>2, <2>4 DEF FileOK
<1>2. ASSUME NEW s \in Saver, Renamed(s) PROVE FileOK'
  <2>1. /\ Stored' = mem[ProcOf[s]] /\ Stored' \subseteq 1 .. updates
        /\ \A p \in Proc : up[p] => p = ProcOf[s]
    BY <1>2, RenamedEffect
  <2>2. \A p \in Proc : Loaded(p)' => Stored' \subseteq mem'[p]
    BY <1>2, <2>1 DEF Renamed, Loaded
  <2>3. QED
    BY <1>2, <2>1, <2>2 DEF Renamed, Sealed, FileOK, None
<1>3. QED
  BY <1>1, <1>2, PathEffect

LEMMA AckedStep ==
  ASSUME Types, SaveOK, FileOK, AckedOK, Alternates, [Next]_vars
  PROVE  AckedOK'
<1> USE DEF files, secrets, procs, savers
<1>1. ASSUME NEW s \in Saver, Done(s) PROVE AckedOK'
  <2>1. /\ Stored = mem[ProcOf[s]] /\ (op[s] # "start" => new[s] \in mem[ProcOf[s]])
        /\ (op[s] = "login" => new[s] \in logins)
    BY <1>1 DEF Done, SaveOK, Saves
  <2>2. Stored' = Stored /\ logins' = logins
    BY <1>1 DEF Done, Stored
  <2>3. /\ acked' \subseteq acked \cup {new[s]} /\ (acked' = acked \/ op[s] # "start")
        /\ submitted' \subseteq submitted \cup {new[s]}
        /\ (submitted' = submitted \/ op[s] = "login")
    BY <1>1 DEF Done
  <2>4. QED
    BY <2>1, <2>2, <2>3 DEF AckedOK
<1>2. ASSUME acked' = acked, submitted' = submitted PROVE AckedOK'
  <2>1. logins \subseteq logins'
    BY StepCases DEF Start, KeyFound, KeyMissing, KeyAdded, Load, Login, Other, Snapshot,
       OpenTmp, Write, Rename, Done, Fails, Exit, vars
  <2>2. Stored \subseteq Stored'
    BY PathEffect, RenamedEffect, StoredKept
  <2>3. QED
    BY <1>2, <2>1, <2>2 DEF AckedOK
<1>3. QED
  BY <1>1, <1>2, StepCases DEF Start, KeyFound, KeyMissing, KeyAdded, Load, Login, Other,
     Change, Snapshot, OpenTmp, Write, Rename, Fails, Exit, vars

-----------------------------------------------------------------------------
(***************************************************************************)
(* The login budget.                                                       *)
(***************************************************************************)
LEMMA NoneWithin == Within({})
<1>1. IsFiniteSet({}) /\ Cardinality({}) = 0 /\ {} \cap logins = {}
  BY FS_EmptySet
<1>2. QED
  BY <1>1, LimitAssumption DEF Within

LEMMA LoginCounted ==
  ASSUME Types, LoginsOK, NEW s \in Saver, Login(s)
  PROVE  \A p \in Proc : Within(mem[p])'
<1>1. /\ Change(s, "login") /\ logins' = logins \cup {updates + 1}
      /\ Cardinality(mem[ProcOf[s]] \cap logins) < MaxLogins
  BY DEF Login
<1>2. /\ updates \in Nat /\ \A p \in Proc : mem[p] \subseteq 1 .. updates
      /\ logins \subseteq 1 .. updates /\ ProcOf[s] \in Proc
  BY ProcAssumption DEF Types
<1>3. ASSUME NEW p \in Proc, p # ProcOf[s] PROVE Within(mem[p])'
  <2>1. mem'[p] = mem[p]
    BY <1>1, <1>3, ChangeEffect
  <2>2. mem'[p] \cap logins' = mem[p] \cap logins
    BY <1>1, <1>2, <2>1
  <2>3. QED
    BY <2>2 DEF Within, LoginsOK
<1>4. ASSUME NEW p \in Proc, p = ProcOf[s] PROVE Within(mem[p])'
  <2>1. mem'[p] = mem[p] \cup {updates + 1}
    BY <1>1, <1>4, ChangeEffect
  <2>2. mem'[p] \cap logins' = (mem[p] \cap logins) \cup {updates + 1}
    BY <1>1, <1>2, <2>1
  <2>3. updates + 1 \notin mem[p] \cap logins
    BY <1>2
  <2>4. IsFiniteSet(mem[p] \cap logins)
    BY DEF LoginsOK, Within
  <2>5. /\ IsFiniteSet(mem'[p] \cap logins')
        /\ Cardinality(mem'[p] \cap logins') = Cardinality(mem[p] \cap logins) + 1
    <3>1. /\ IsFiniteSet((mem[p] \cap logins) \cup {updates + 1})
          /\ Cardinality((mem[p] \cap logins) \cup {updates + 1})
               = Cardinality(mem[p] \cap logins) + 1
      BY <2>3, <2>4, FS_AddElement
    <3>2. QED
      BY <2>2, <3>1
  <2>6. Cardinality(mem[p] \cap logins) \in Nat
    BY <2>4, FS_CardinalityType
  <2>7. Cardinality(mem'[p] \cap logins') <= MaxLogins
    BY <1>1, <1>4, <2>5, <2>6, LimitAssumption
  <2>8. QED
    BY <2>5, <2>7 DEF Within
<1>5. QED
  BY <1>3, <1>4

LEMMA MemoryStep ==
  ASSUME Types, LoginsOK, [Next]_vars
  PROVE  \A p \in Proc : Within(mem[p])'
<1> USE DEF files, secrets, procs, savers
<1>1. ASSUME logins' = logins, \A p \in Proc : mem'[p] \cap logins = mem[p] \cap logins
                                               \/ mem'[p] = Stored \/ mem'[p] = {}
      PROVE  \A p \in Proc : Within(mem[p])'
  BY <1>1, NoneWithin DEF Within, LoginsOK
<1>2. ASSUME NEW s \in Saver, Load(s) PROVE \A p \in Proc : Within(mem[p])'
  BY <1>1, <1>2 DEF Load, Types
<1>3. ASSUME NEW s \in Saver, Other(s) PROVE \A p \in Proc : Within(mem[p])'
  <2>1. Change(s, "other") /\ logins' = logins /\ updates + 1 \notin logins
    BY <1>3 DEF Other, Types
  <2>2. \A p \in Proc : mem'[p] = mem[p] \/ mem'[p] = mem[p] \cup {updates + 1}
    BY <2>1, ChangeEffect
  <2>3. QED
    BY <1>1, <2>1, <2>2
<1>4. ASSUME NEW p \in Proc, Exit(p) PROVE \A q \in Proc : Within(mem[q])'
  BY <1>1, <1>4 DEF Exit, Types
<1>5. CASE UNCHANGED <<logins, mem>>
  BY <1>1, <1>5
<1>6. QED
  BY <1>2, <1>3, <1>4, <1>5, LoginCounted, StepCases DEF Start, KeyFound, KeyMissing, KeyAdded,
     Snapshot, OpenTmp, Write, Rename, Done, Fails, vars

LEMMA LoginsStep ==
  ASSUME Types, SaveOK, FileOK, LoginsOK, Alternates, [Next]_vars
  PROVE  LoginsOK'
<1>1. \A p \in Proc : Within(mem[p])'
  BY MemoryStep
<1>2. CASE Stored' = Stored
  <2>1. logins' = logins \/ logins' = logins \cup {updates + 1}
    BY StepCases DEF Start, KeyFound, KeyMissing, KeyAdded, Load, Login, Other, Snapshot,
       OpenTmp, Write, Rename, Done, Fails, Exit, vars
  <2>2. Stored \subseteq 1 .. updates /\ updates \in Nat
    BY DEF FileOK, Types
  <2>3. Stored' \cap logins' = Stored \cap logins
    BY <1>2, <2>1, <2>2
  <2>4. QED
    BY <1>1, <2>3 DEF LoginsOK, Within
<1>3. ASSUME NEW s \in Saver, Renamed(s) PROVE LoginsOK'
  <2>1. Stored' = mem'[ProcOf[s]] /\ ProcOf[s] \in Proc
    BY <1>3, RenamedEffect, ProcAssumption DEF Renamed
  <2>2. QED
    BY <1>1, <2>1 DEF LoginsOK, Within
<1>4. QED
  BY <1>2, <1>3, PathEffect, StoredKept

-----------------------------------------------------------------------------
(***************************************************************************)
(* The key, when security(1) shows the key that is there.                  *)
(***************************************************************************)
Keyed(p) == up[p] /\ \A s \in Saver : ProcOf[s] = p => pc[s] \notin {"key", "add"}

LEMMA KeyFrame ==
  ASSUME Types, KeyOK, keychain' = keychain,
         path' = path, path # None => file'[path] = file[path],
         \A s \in Saver : pc'[s] = "add" => pc[s] = "add" /\ key'[ProcOf[s]] = key[ProcOf[s]],
         \A p \in Proc : Keyed(p)' => Keyed(p) /\ key'[p] = key[p]
  PROVE  KeyOK'
<1>1. \A p \in Proc : Keyed(p)' => keychain # None /\ key'[p] = keychain
  BY DEF KeyOK, Keyed
<1>2. QED
  BY <1>1 DEF KeyOK, Keyed

LEMMA KeyStep ==
  ASSUME ~Denied, Types, SaveOK, FileOK, KeyOK, Alternates, Alternates', [Next]_vars
  PROVE  KeyOK'
<1> USE DEF files, secrets, procs, savers, Goto
<1>0. /\ \A s \in Saver : ProcOf[s] \in Proc
      /\ \A s \in Saver : pc[s] # "idle" => up[ProcOf[s]] /\ (\A p \in Proc : up[p] => p = ProcOf[s])
  BY ProcAssumption DEF SaveOK, Saves, Alternates
<1>1. ASSUME NEW s \in Saver, Start(s) PROVE KeyOK'
  <2>1. up'[ProcOf[s]] /\ pc'[s] = "key" /\ \A u \in Saver \ {s} : pc'[u] = pc[u]
    BY <1>0, <1>1 DEF Start, Types
  <2>2. \A p \in Proc : ~Keyed(p)'
    BY <1>0, <2>1 DEF Keyed, Alternates
  <2>3. QED
    BY <1>1, <2>1, <2>2, KeyFrame DEF Start
<1>2. ASSUME NEW s \in Saver, KeyFound(s) PROVE KeyOK'
  <2>1. /\ pc[s] = "key" /\ keychain # None /\ pc'[s] = "load" /\ up' = up
        /\ key'[ProcOf[s]] = keychain
        /\ keychain' = keychain /\ path' = path /\ file' = file
        /\ \A u \in Saver \ {s} : pc'[u] = "idle"
    <3>1. \A u \in Saver \ {s} : pc'[u] = "idle"
      BY <1>2, OthersIdle DEF Only
    <3>2. QED
      BY <1>0, <1>2, <3>1 DEF KeyFound, Types
  <2>2. \A p \in Proc : Keyed(p)' => p = ProcOf[s]
    BY <1>0, <2>1 DEF Keyed
  <2>3. QED
    BY <2>1, <2>2 DEF KeyOK, Keyed
<1>3. ASSUME NEW s \in Saver, KeyMissing(s) PROVE KeyOK'
  <2>1. /\ pc[s] = "key" /\ keychain = None /\ pc'[s] = "add" /\ up' = up
        /\ key'[ProcOf[s]] = keys + 1 /\ keys \in Nat \ {0}
        /\ keychain' = keychain /\ path' = path /\ file' = file
        /\ \A u \in Saver \ {s} : pc'[u] = "idle"
    <3>1. \A u \in Saver \ {s} : pc'[u] = "idle"
      BY <1>3, OthersIdle DEF Only
    <3>2. QED
      BY <1>0, <1>3, <3>1 DEF KeyMissing, Types
  <2>2. \A p \in Proc : ~Keyed(p)'
    BY <1>0, <2>1 DEF Keyed
  <2>3. key'[ProcOf[s]] # None
    BY <2>1 DEF None
  <2>4. QED
    BY <2>1, <2>2, <2>3 DEF KeyOK, Keyed
<1>4. ASSUME NEW s \in Saver, KeyAdded(s) PROVE KeyOK'
  <2>1. /\ pc[s] = "add" /\ keychain' = key[ProcOf[s]] /\ pc'[s] = "load" /\ up' = up
        /\ key' = key /\ path' = path /\ file' = file
        /\ \A u \in Saver \ {s} : pc'[u] = "idle"
    <3>1. \A u \in Saver \ {s} : pc'[u] = "idle"
      BY <1>4, OthersIdle DEF Only
    <3>2. QED
      BY <1>0, <1>4, <3>1 DEF KeyAdded, Types
  <2>2. keychain = None /\ key[ProcOf[s]] # None /\ path = None
    BY <2>1 DEF KeyOK
  <2>3. \A p \in Proc : Keyed(p)' => p = ProcOf[s]
    BY <1>0, <2>1 DEF Keyed
  <2>4. QED
    BY <2>1, <2>2, <2>3 DEF KeyOK, Keyed
<1>5. ASSUME NEW s \in Saver, Load(s) \/ Snapshot(s) \/ Done(s) PROVE KeyOK'
  <2>1. /\ pc[s] \notin {"key", "add", "idle"} /\ pc'[s] # "add"
        /\ \A u \in Saver \ {s} : pc'[u] = pc[u]
        /\ up' = up /\ key' = key /\ keychain' = keychain /\ path' = path /\ file' = file
    BY <1>5 DEF Load, Snapshot, Done, Reset, Types
  <2>2. \A p \in Proc : Keyed(p)' => Keyed(p)
    BY <2>1 DEF Keyed
  <2>3. QED
    BY <2>1, <2>2, KeyFrame
<1>6. ASSUME NEW s \in Saver, OpenTmp(s) \/ Write(s) PROVE KeyOK'
  <2>1. /\ pc[s] \notin {"key", "add", "idle"} /\ pc'[s] # "add"
        /\ \A u \in Saver \ {s} : pc'[u] = pc[u]
        /\ up' = up /\ key' = key /\ keychain' = keychain /\ path' = path
    BY <1>6 DEF OpenTmp, Write, Types
  <2>2. \A p \in Proc : Keyed(p)' => Keyed(p)
    BY <2>1 DEF Keyed
  <2>3. path # None => file'[path] = file[path]
    <3>1. ~\E u \in Saver : Renamed(u)
      BY <1>6 DEF Renamed, OpenTmp, Write, Alternates
    <3>2. QED
      BY <3>1, PathEffect
  <2>4. QED
    BY <2>1, <2>2, <2>3, KeyFrame
<1>7. ASSUME NEW s \in Saver, Rename(s) PROVE KeyOK'
  <2>0. file[tmp] = Sealed(snap[s], key[ProcOf[s]])
    BY <1>7 DEF Rename, SaveOK, Saves
  <2>1. /\ file[tmp].by = key[ProcOf[s]] /\ path' = tmp /\ file' = file
        /\ up' = up /\ key' = key /\ keychain' = keychain
        /\ pc[s] = "rename" /\ pc'[s] = "chmod" /\ \A u \in Saver \ {s} : pc'[u] = pc[u]
    BY <1>7, <2>0 DEF Rename, Sealed, Types
  <2>2. Keyed(ProcOf[s])
    BY <1>0, <2>1 DEF Keyed, Alternates
  <2>3. keychain # None /\ key[ProcOf[s]] = keychain
    BY <1>0, <2>2 DEF KeyOK, Keyed
  <2>4. \A p \in Proc : Keyed(p)' => Keyed(p)
    BY <2>1 DEF Keyed
  <2>5. QED
    BY <2>1, <2>3, <2>4 DEF KeyOK, Keyed
<1>8. ASSUME NEW s \in Saver, NEW o \in {"login", "other"}, Change(s, o) PROVE KeyOK'
  <2>1. /\ pc[s] = "idle" /\ pc'[s] = "snapshot" /\ \A u \in Saver \ {s} : pc'[u] = pc[u]
        /\ up' = up /\ key' = key /\ keychain' = keychain /\ path' = path /\ file' = file
    BY <1>8 DEF Change, Types
  <2>2. \A p \in Proc : Keyed(p)' => Keyed(p)
    BY <2>1 DEF Keyed
  <2>3. QED
    BY <2>1, <2>2, KeyFrame
<1>9. ASSUME NEW s \in Saver, Fails(s) PROVE KeyOK'
  <2>1. /\ pc'[s] = "idle" /\ \A u \in Saver \ {s} : pc'[u] = pc[u]
        /\ key' = key /\ keychain' = keychain
        /\ up' = [up EXCEPT ![ProcOf[s]] = @ /\ op[s] # "start"]
        /\ pc[s] # "idle" /\ (pc[s] \in {"key", "add", "load"} => op[s] = "start")
    BY <1>9 DEF Fails, Reset, Types, SaveOK, Saves
  <2>2. path' = path /\ (path # None => file'[path] = file[path])
    <3>1. ~\E u \in Saver : Renamed(u)
      BY <1>9, <2>1 DEF Renamed, Fails
    <3>2. QED
      BY <3>1, PathEffect
  <2>3. ASSUME NEW p \in Proc, Keyed(p)' PROVE Keyed(p)
    <3>1. up'[p] /\ up[p] /\ p = ProcOf[s]
      BY <1>0, <2>1, <2>3 DEF Keyed, Types
    <3>2. op[s] # "start"
      BY <1>0, <2>1, <3>1 DEF Types
    <3>3. QED
      BY <2>1, <2>3, <3>1, <3>2 DEF Keyed
  <2>4. QED
    BY <2>1, <2>2, <2>3, KeyFrame
<1>10. ASSUME NEW q \in Proc, Exit(q) PROVE KeyOK'
  <2>1. /\ keychain' = keychain /\ path' = path /\ file' = file
        /\ \A p \in Proc : ~up'[p]
    BY <1>10 DEF Exit, Types, Alternates
  <2>2. \A u \in Saver : pc'[u] = "idle"
    BY <1>0, <1>10 DEF Exit, Types
  <2>3. QED
    BY <2>1, <2>2 DEF KeyOK
<1>11. CASE UNCHANGED vars
  BY <1>11 DEF vars, KeyOK
<1>12. QED
  BY <1>1, <1>2, <1>3, <1>4, <1>5, <1>6, <1>7, <1>8, <1>9, <1>10, <1>11, StepCases
     DEF Login, Other

-----------------------------------------------------------------------------
(***************************************************************************)
(* The theorems.                                                           *)
(***************************************************************************)
LEMMA InvInit == Init => Inv /\ KeyOK
<1> SUFFICES ASSUME Init PROVE Inv /\ KeyOK
  OBVIOUS
<1>1. Types
  BY DEF Init, Types, Content, Empty, None, PC
<1>2. Stored = {}
  BY DEF Init, Stored
<1>3. SaveOK /\ FileOK
  BY <1>2 DEF Init, SaveOK, Saves, FileOK, None
<1>4. AckedOK /\ LoginsOK
  BY <1>2, NoneWithin DEF Init, AckedOK, LoginsOK
<1>5. KeyOK
  BY DEF Init, KeyOK
<1>6. QED
  BY <1>1, <1>3, <1>4, <1>5 DEF Inv

LEMMA InvStep == Inv /\ Alternates /\ Alternates' /\ [Next]_vars => Inv'
BY TypesStep, SaveStep, FileStep, AckedStep, LoginsStep DEF Inv

LEMMA InvHolds == Spec /\ []Alternates => []Inv
BY InvInit, InvStep, PTL DEF Spec

(* The persisted login budget: at most MaxLogins credential logins go on to  *)
(* the upstream, through any number of starts, deaths and failed saves, as  *)
(* long as saves do not overlap (check_and_record_credential_login saves     *)
(* the record before the login is sent).                                    *)
THEOREM BudgetKept == Spec /\ []Alternates => []BudgetPersists
<1>1. ASSUME Inv PROVE BudgetPersists
  <2>1. /\ IsFiniteSet(Stored \cap logins) /\ Cardinality(Stored \cap logins) <= MaxLogins
        /\ submitted \subseteq Stored \cap logins
    BY <1>1 DEF Inv, LoginsOK, Within, AckedOK
  <2>2. IsFiniteSet(submitted) /\ Cardinality(submitted) <= Cardinality(Stored \cap logins)
    BY <2>1, FS_Subset
  <2>3. Cardinality(submitted) \in Nat /\ Cardinality(Stored \cap logins) \in Nat
    BY <2>1, <2>2, FS_CardinalityType
  <2>4. QED
    BY <2>1, <2>2, <2>3, LimitAssumption DEF BudgetPersists
<1>2. QED
  BY <1>1, InvHolds, PTL

(* Whenever a process dies, tokens.enc is absent or a whole state sealed     *)
(* with the key the next start finds (write_atomic_private, keychain_get),  *)
(* as long as saves do not overlap and the keychain shows the key it has.   *)
THEOREM FileOpens == ASSUME ~Denied PROVE Spec /\ []Alternates => []AlwaysOpens
<1>1. KeyOK /\ Inv /\ Alternates /\ Alternates' /\ [Next]_vars => KeyOK'
  BY KeyStep DEF Inv
<1>2. Inv /\ KeyOK => AlwaysOpens
  BY DEF Inv, FileOK, KeyOK, AlwaysOpens, Opens
<1>3. QED
  BY <1>1, <1>2, InvInit, InvHolds, PTL DEF Spec

(* The file implements TokenRegister: it takes a new value in one step,      *)
(* forgets nothing it holds, and holds every update whose save returned Ok. *)
THEOREM FileIsRegister == Spec /\ []Alternates => IsRegister
<1> USE DEF files, secrets, procs, savers
<1>1. Init => Register!Init
  <2>1. ASSUME Init PROVE updates = 0 /\ acked = {} /\ Stored = {}
    BY <2>1 DEF Init, Stored
  <2>2. 1 .. 0 = {}
    OBVIOUS
  <2>3. QED
    BY <2>1, <2>2 DEF Register!Init
<1>2. ASSUME Inv, Inv', Alternates, [Next]_vars
      PROVE  [Register!Next]_<<1 .. updates, Stored, acked>>
  <2>1. updates \in Nat
    BY <1>2 DEF Inv, Types
  <2>2. ASSUME NEW s \in Saver, Renamed(s) PROVE Register!Commit
    BY <1>2, <2>2, RenamedEffect DEF Inv, Renamed, Register!Commit
  <2>3. CASE Stored' = Stored
    <3>1. ASSUME updates' = updates PROVE (1 .. updates)' = 1 .. updates
      BY <3>1
    <3>2. ASSUME NEW s \in Saver, Change(s, "login") \/ Change(s, "other") PROVE Register!Update
      <4>1. updates' = updates + 1 /\ acked' = acked
        BY <3>2 DEF Change
      <4>2. 1 .. updates \subseteq 1 .. updates + 1
        BY <2>1
      <4>3. QED
        BY <2>3, <4>1, <4>2 DEF Register!Update
    <3>3. ASSUME NEW s \in Saver, Done(s) PROVE Register!Acknowledge
      <4>1. acked \subseteq acked' /\ updates' = updates
        BY <3>3 DEF Done
      <4>2. acked' \subseteq Stored
        BY <1>2, <2>3 DEF Inv, AckedOK
      <4>3. QED
        BY <2>3, <4>1, <4>2 DEF Register!Acknowledge
    <3>4. CASE UNCHANGED <<updates, acked>>
      BY <2>3, <3>1, <3>4
    <3>5. QED
      BY <1>2, <3>2, <3>3, <3>4, StepCases DEF Start, KeyFound, KeyMissing, KeyAdded, Load,
         Login, Other, Snapshot, OpenTmp, Write, Rename, Fails, Exit, vars, Register!Next
  <2>4. QED
    BY <1>2, <2>2, <2>3, PathEffect, StoredKept DEF Inv, Register!Next
<1>3. Inv /\ Inv' /\ Alternates /\ [Next]_vars => [Register!Next]_<<1 .. updates, Stored, acked>>
  BY <1>2
<1>4. QED
  BY <1>1, <1>3, InvHolds, PTL DEF Spec, IsRegister, Register!Spec

(* A data directory with one saver, the one that the run file_register has:  *)
(* what the theorems above ask for is met.                                  *)
LEMMA OneSaverAlternates == ASSUME NEW s, Saver = {s} PROVE Spec => []Alternates
<1> DEFINE Solo == /\ up \in [Proc -> BOOLEAN]
                   /\ \A p \in Proc : up[p] => p = ProcOf[s]
<1>0. s \in Saver /\ ProcOf[s] \in Proc
  BY ProcAssumption
<1>1. Init => Solo
  BY DEF Init
<1>2. Solo /\ [Next]_vars => Solo'
  <2> SUFFICES ASSUME Solo, [Next]_vars PROVE Solo'
    OBVIOUS
  <2>1. ASSUME NEW u \in Saver, Start(u) PROVE Solo'
    BY <1>0, <2>1 DEF Start
  <2>2. ASSUME NEW u \in Saver, Fails(u) PROVE Solo'
    BY <1>0, <2>2 DEF Fails
  <2>3. ASSUME NEW p \in Proc, Exit(p) PROVE Solo'
    BY <2>3 DEF Exit
  <2>4. CASE up' = up
    BY <2>4
  <2>5. QED
    BY <2>1, <2>2, <2>3, <2>4, StepCases DEF KeyFound, KeyMissing, KeyAdded, Load, Login,
       Other, Change, Snapshot, OpenTmp, Write, Rename, Done, vars, procs
<1>3. Solo => Alternates
  BY DEF Alternates
<1>4. QED
  BY <1>1, <1>2, <1>3, PTL DEF Spec
=============================================================================
