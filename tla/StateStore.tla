----------------------------- MODULE StateStore -----------------------------
(***************************************************************************)
(* internal/state/store.go: Save replaces the state file through a         *)
(* temporary file, step by step, under an advisory lock; Load reads it.    *)
(* Any step may fail, a process may be killed, and the machine may lose    *)
(* power between any two steps.                                            *)
(*                                                                         *)
(* A snapshot is the number of the save that writes it, in the order the   *)
(* saves get the lock; 0 is no file.  A process has one Store, whose mu    *)
(* admits one Save at a time: what is left to model is one caller per      *)
(* process and the flock between them.                                     *)
(***************************************************************************)
EXTENDS Integers

CONSTANTS Procs,    \* the processes that share the state file
          MaxSaves, \* bound on the number of saves that get the lock
          MaxLosses \* bound on the number of power losses

ASSUME StoreAssumption == MaxSaves \in Nat /\ MaxLosses \in Nat

VARIABLES pc,       \* caller -> the next step of its call
          snapshot, \* caller -> what it saves, or what it loaded
          temp,     \* caller -> its temporary file
          orphans,  \* callers whose temporary file belongs to a call that is gone
          result,   \* caller -> "ok" or "error", how its last call ended
          shared, exclusive,  \* holders of the flock
          file,     \* the file that path names
          onDisk,   \* the files path may name after a power loss
          fresh,    \* the directory is new: a power loss may still take it away
          saves,    \* saves that have got the lock so far
          acked,    \* the newest snapshot whose Save has returned nil
          losses    \* power losses so far

vars == <<pc, snapshot, temp, orphans, result, shared, exclusive, file, onDisk, fresh,
          saves, acked, losses>>
lockVars == <<shared, exclusive>>
diskVars == <<orphans, file, onDisk, fresh>>
countVars == <<saves, acked, losses>>

Torn == -1

\* A file: what it holds for running programs, and whether that is on the disk.
File(n, synced) == [holds |-> n, synced |-> synced]
NoFile == File(0, TRUE)
Files == [holds : Torn..MaxSaves, synced : BOOLEAN]

SaveSteps == {"lock", "create", "write", "sync", "close", "chmod", "rename", "syncdir", "unlock"}
LoadSteps == {"rlock", "read", "runlock"}

TypeOK == /\ pc \in [Procs -> {"idle"} \cup SaveSteps \cup LoadSteps]
          /\ snapshot \in [Procs -> Torn..MaxSaves]
          /\ temp \in [Procs -> Files] /\ orphans \subseteq Procs
          /\ result \in [Procs -> {"none", "ok", "error"}]
          /\ shared \subseteq Procs /\ exclusive \subseteq Procs
          /\ file \in Files
          /\ onDisk \subseteq Files /\ fresh \in BOOLEAN
          /\ saves \in 0..MaxSaves /\ acked \in 0..MaxSaves /\ losses \in 0..MaxLosses

Init == /\ pc = [p \in Procs |-> "idle"]
        /\ snapshot = [p \in Procs |-> 0]
        /\ temp = [p \in Procs |-> NoFile] /\ orphans = {}
        /\ result = [p \in Procs |-> "none"]
        /\ shared = {} /\ exclusive = {}
        /\ file = NoFile /\ onDisk = {NoFile} /\ fresh \in BOOLEAN
        /\ saves = 0 /\ acked = 0 /\ losses = 0

Goto(p, from, to) == pc[p] = from /\ pc' = [pc EXCEPT ![p] = to]

-----------------------------------------------------------------------------
(* Save *)

BeginSave(p) == /\ Goto(p, "idle", "lock")
                /\ result' = [result EXCEPT ![p] = "none"]
                /\ UNCHANGED <<snapshot, temp, lockVars, diskVars, countVars>>

LockExclusive(p) == /\ Goto(p, "lock", "create")
                    /\ shared = {} /\ exclusive = {}
                    /\ exclusive' = {p}
                    /\ saves < MaxSaves
                    /\ saves' = saves + 1
                    /\ snapshot' = [snapshot EXCEPT ![p] = saves + 1]
                    /\ UNCHANGED <<temp, result, shared, diskVars, acked, losses>>

\* The file gets a new name: an orphan of the same process is out of sight now.
CreateTemp(p) == /\ Goto(p, "create", "write")
                 /\ temp' = [temp EXCEPT ![p] = File(Torn, FALSE)]
                 /\ orphans' = orphans \ {p}
                 /\ UNCHANGED <<snapshot, result, lockVars, file, onDisk, fresh, countVars>>

WriteTemp(p) == /\ Goto(p, "write", "sync")
                /\ temp' = [temp EXCEPT ![p] = File(snapshot[p], FALSE)]
                /\ UNCHANGED <<snapshot, result, lockVars, diskVars, countVars>>

\* Fault in SyncTemp: no fsync of the temporary file.
SyncTempSkipped(p) == /\ Goto(p, "sync", "close")
                      /\ UNCHANGED <<snapshot, temp, result, lockVars, diskVars, countVars>>

SyncTemp(p) == /\ Goto(p, "sync", "close")
               /\ temp' = [temp EXCEPT ![p].synced = TRUE]
               /\ UNCHANGED <<snapshot, result, lockVars, diskVars, countVars>>

CloseTemp(p) == /\ Goto(p, "close", "chmod")
                /\ UNCHANGED <<snapshot, temp, result, lockVars, diskVars, countVars>>

ChmodTemp(p) == /\ Goto(p, "chmod", "rename")
                /\ UNCHANGED <<snapshot, temp, result, lockVars, diskVars, countVars>>

\* The file system may write the new directory entry at any later time.
Rename(p) == /\ Goto(p, "rename", "syncdir")
             /\ file' = temp[p]
             /\ onDisk' = onDisk \cup {temp[p]}
             /\ temp' = [temp EXCEPT ![p] = NoFile]
             /\ UNCHANGED <<snapshot, orphans, result, lockVars, fresh, countVars>>

\* Fault in SyncDir: no fsync of the directory.
SyncDirSkipped(p) == /\ Goto(p, "syncdir", "unlock")
                     /\ result' = [result EXCEPT ![p] = "ok"]
                     /\ UNCHANGED <<snapshot, temp, lockVars, diskVars, countVars>>

\* The entry of the file in its directory is on the disk.  The entry of a new
\* directory in its parent is not: nothing fsyncs that.
SyncDir(p) == /\ Goto(p, "syncdir", "unlock")
              /\ onDisk' = {file}
              /\ result' = [result EXCEPT ![p] = "ok"]
              /\ UNCHANGED <<snapshot, temp, orphans, lockVars, file, fresh, countVars>>

\* The steps that may fail with a temporary file clean it up.
WithTemp == {"write", "sync", "close", "chmod", "rename"}

\* Fault in CleanupTemp: the file stays.
CleanupForgotten(p) == UNCHANGED temp

CleanupTemp(p) == temp' = [temp EXCEPT ![p] = NoFile]

\* Failure of a step that holds the lock: cleanupTmp, then the deferred unlock.
FailStep(p) == /\ pc[p] \in WithTemp \cup {"create", "syncdir"}
               /\ pc' = [pc EXCEPT ![p] = "unlock"]
               /\ IF pc[p] \in WithTemp THEN CleanupTemp(p) ELSE UNCHANGED temp
               /\ result' = [result EXCEPT ![p] = "error"]
               /\ UNCHANGED <<snapshot, lockVars, diskVars, countVars>>

\* The directory or the lock file cannot be made, or flock fails.
FailLock(p) == /\ pc[p] \in {"lock", "rlock"}
               /\ pc' = [pc EXCEPT ![p] = "idle"]
               /\ result' = [result EXCEPT ![p] = "error"]
               /\ UNCHANGED <<snapshot, temp, lockVars, diskVars, countVars>>

\* The deferred closeLock; Save returns.
UnlockExclusive(p) == /\ Goto(p, "unlock", "idle")
                      /\ exclusive' = exclusive \ {p}
                      /\ acked' = IF result[p] = "ok" THEN snapshot[p] ELSE acked
                      /\ UNCHANGED <<snapshot, temp, result, shared, diskVars, saves, losses>>

-----------------------------------------------------------------------------
(* Load *)

\* A missing file is a new snapshot: Load returns before it takes the lock.
BeginLoad(p) == /\ pc[p] = "idle"
                /\ IF file = NoFile
                   THEN /\ snapshot' = [snapshot EXCEPT ![p] = 0]
                        /\ result' = [result EXCEPT ![p] = "ok"]
                        /\ UNCHANGED pc
                   ELSE /\ pc' = [pc EXCEPT ![p] = "rlock"]
                        /\ result' = [result EXCEPT ![p] = "none"]
                        /\ UNCHANGED snapshot
                /\ UNCHANGED <<temp, lockVars, diskVars, countVars>>

LockShared(p) == /\ Goto(p, "rlock", "read")
                 /\ exclusive = {}
                 /\ shared' = shared \cup {p}
                 /\ UNCHANGED <<snapshot, temp, result, exclusive, diskVars, countVars>>

\* A torn file does not decode.
ReadFile(p) == /\ Goto(p, "read", "runlock")
               /\ snapshot' = [snapshot EXCEPT ![p] = file.holds]
               /\ result' = [result EXCEPT ![p] = IF file.holds = Torn THEN "error" ELSE "ok"]
               /\ UNCHANGED <<temp, lockVars, diskVars, countVars>>

\* The stat fails, or the file cannot be opened or read.
FailLoad(p) == /\ \/ pc[p] = "idle" /\ UNCHANGED pc
                  \/ Goto(p, "read", "runlock")
               /\ result' = [result EXCEPT ![p] = "error"]
               /\ UNCHANGED <<snapshot, temp, lockVars, diskVars, countVars>>

UnlockShared(p) == /\ Goto(p, "runlock", "idle")
                   /\ shared' = shared \ {p}
                   /\ UNCHANGED <<snapshot, temp, result, exclusive, diskVars, countVars>>

-----------------------------------------------------------------------------
(* Failures from outside *)

\* The process is killed: the kernel drops its lock, its temporary file stays
\* behind and nothing removes it, and the process starts again.
Kill(p) == /\ pc[p] # "idle"
           /\ pc' = [pc EXCEPT ![p] = "idle"]
           /\ orphans' = IF temp[p] # NoFile THEN orphans \cup {p} ELSE orphans
           /\ shared' = shared \ {p} /\ exclusive' = exclusive \ {p}
           /\ result' = [result EXCEPT ![p] = "none"]
           /\ UNCHANGED <<snapshot, temp, file, onDisk, fresh, countVars>>

\* What a file holds once the page cache is gone.
Survives(f) == IF f.synced THEN f ELSE File(Torn, TRUE)

\* A directory that was never fsynced into its parent may go with all it holds, and
\* one that is there afterwards stays.  A temporary file stays or goes.
PowerLoss == /\ losses < MaxLosses
             /\ losses' = losses + 1
             /\ \E f \in onDisk \cup (IF fresh THEN {NoFile} ELSE {}) :
                   /\ file' = Survives(f) /\ onDisk' = {Survives(f)}
                   /\ fresh' = (fresh /\ f = NoFile)
             /\ \E kept \in SUBSET {p \in Procs : temp[p] # NoFile} :
                   /\ temp' = [p \in Procs |-> IF p \in kept THEN Survives(temp[p]) ELSE NoFile]
                   /\ orphans' = kept
             /\ pc' = [p \in Procs |-> "idle"]
             /\ result' = [p \in Procs |-> "none"]
             /\ shared' = {} /\ exclusive' = {}
             /\ UNCHANGED <<snapshot, saves, acked>>

SaveStep(p) == \/ LockExclusive(p) \/ CreateTemp(p) \/ WriteTemp(p) \/ SyncTemp(p)
               \/ CloseTemp(p) \/ ChmodTemp(p) \/ Rename(p) \/ SyncDir(p)
               \/ FailStep(p) \/ FailLock(p) \/ UnlockExclusive(p)

LoadStep(p) == LockShared(p) \/ ReadFile(p) \/ FailLoad(p) \/ UnlockShared(p)

Next == \/ PowerLoss
        \/ \E p \in Procs : \/ BeginSave(p) \/ SaveStep(p)
                            \/ BeginLoad(p) \/ LoadStep(p)
                            \/ Kill(p)

Spec == Init /\ [][Next]_vars

-----------------------------------------------------------------------------
\* Whatever step fails and whenever processes or the machine go down, the state
\* file holds one whole snapshot: a torn one would keep the program from starting.
NeverTorn == file.holds # Torn /\ \A f \in onDisk : Survives(f).holds # Torn

\* Once Save has returned nil, neither a power loss nor a later save that fails
\* half way brings back an older snapshot (the fsync of the directory).  What the
\* code leaves open is the directory itself, while it is new.
AckedIsDurable == \A f \in onDisk \cup {file} : f.holds >= acked \/ (fresh /\ f = NoFile)

\* A call that is over leaves no temporary file and no lock, however it ended. Only
\* a process that was killed, or lost its power, leaves a temporary file behind.
NothingLeftBehind == \A p \in Procs : pc[p] = "idle" =>
                        /\ p \notin shared \cup exclusive
                        /\ temp[p] # NoFile => p \in orphans
=============================================================================
