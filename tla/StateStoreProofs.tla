-------------------------- MODULE StateStoreProofs --------------------------
(***************************************************************************)
(* The state file is never torn and an acknowledged save never lost, for   *)
(* any number of processes, saves and power losses.                        *)
(***************************************************************************)
EXTENDS StateStore, TLAPS

\* The steps of Save at which the process holds the flock.
Locked == {"create", "write", "sync", "close", "chmod", "rename", "syncdir", "unlock"}

\* The flock holds one save at a time, and that save is the newest.
OneSave == \A p \in Procs : pc[p] \in Locked => exclusive = {p} /\ snapshot[p] = saves

\* From the fsync on, the temporary file is whole and on the disk.
TempIsWhole ==
    \A p \in Procs :
        /\ pc[p] \in {"sync", "close", "chmod", "rename"} => temp[p].holds = snapshot[p]
        /\ pc[p] \in {"close", "chmod", "rename"} => temp[p].synced

\* Every file the path may name is whole and no older than the last acknowledged save,
\* or gone with a new directory.
DiskIsWhole ==
    /\ file \in onDisk /\ acked <= saves
    /\ \A f \in onDisk : /\ f.synced /\ 0 <= f.holds /\ f.holds <= saves
                         /\ acked <= f.holds \/ (fresh /\ f = NoFile)

\* A save that is about to return nil is the only one a power loss can leave.
OnlyTheSaved ==
    \A p \in Procs :
        /\ pc[p] = "syncdir" => file.holds = snapshot[p]
        /\ pc[p] \in Locked \ {"unlock"} => result[p] = "none"
        /\ pc[p] = "lock" => result[p] = "none"
        /\ pc[p] = "unlock" /\ result[p] = "ok" => onDisk = {file} /\ file.holds = snapshot[p]

\* The inductive invariant. AckedIsDurable is not inductive alone: an older save
\* could be renamed over a newer one, if two of them could hold the flock.
IInv == TypeOK /\ OneSave /\ TempIsWhole /\ DiskIsWhole /\ OnlyTheSaved

\* The initial states satisfy the invariant.
LEMMA InitIInv == Init => IInv
  BY StoreAssumption DEF Init, IInv, TypeOK, OneSave, Locked, TempIsWhole, DiskIsWhole,
     OnlyTheSaved, NoFile, File, Files, Torn, SaveSteps, LoadSteps

\* The values a step may assign have the types of the variables.
LEMMA Values == /\ NoFile = [holds |-> 0, synced |-> TRUE]
                /\ \A n, b : File(n, b) = [holds |-> n, synced |-> b]
                /\ Torn = -1
                /\ NoFile \in Files /\ File(Torn, FALSE) \in Files
<1>1. Torn = -1 /\ NoFile = [holds |-> 0, synced |-> TRUE]
  BY DEF NoFile, File, Torn
<1>2. \A n, b : File(n, b) = [holds |-> n, synced |-> b]
  BY DEF File
<1>3. 0 \in Torn..MaxSaves /\ Torn \in Torn..MaxSaves
  BY <1>1, StoreAssumption
<1> QED
  BY <1>1, <1>2, <1>3, StoreAssumption DEF Files

\* Every step of the specification preserves the invariant.
LEMMA NextIInv == IInv /\ [Next]_vars => IInv'
<1> SUFFICES ASSUME IInv, [Next]_vars PROVE IInv'
  OBVIOUS
<1> USE StoreAssumption, Values
<1> USE DEF IInv, TypeOK, Files, OneSave, Locked, TempIsWhole, DiskIsWhole, OnlyTheSaved,
        SaveSteps, LoadSteps, lockVars, diskVars, countVars, Goto
<1>1. CASE UNCHANGED vars
  BY <1>1 DEF vars
<1>2. CASE PowerLoss
  <2>1. PICK f \in onDisk \cup (IF fresh THEN {NoFile} ELSE {}) :
           file' = Survives(f) /\ onDisk' = {Survives(f)} /\ fresh' = (fresh /\ f = NoFile)
    BY <1>2 DEF PowerLoss
  <2>2. /\ f \in Files /\ f.synced /\ 0 <= f.holds /\ f.holds <= saves
        /\ acked <= f.holds \/ (fresh /\ f = NoFile)
    <3>1. CASE f \in onDisk
      BY <3>1
    <3>2. CASE f \notin onDisk
      <4>1. fresh /\ f = NoFile
        BY <2>1, <3>2
      <4> QED
        BY <4>1
    <3> QED
      BY <3>1, <3>2
  <2>3. file' = f /\ onDisk' = {f} /\ fresh' \in BOOLEAN
    BY <2>1, <2>2 DEF Survives
  <2>4. /\ losses' \in 0..MaxLosses /\ UNCHANGED <<snapshot, saves, acked>>
        /\ pc' = [q \in Procs |-> "idle"] /\ result' = [q \in Procs |-> "none"]
        /\ shared' = {} /\ exclusive' = {}
    BY <1>2 DEF PowerLoss
  <2>5. temp' \in [Procs -> Files] /\ orphans' \subseteq Procs
    <3>1. PICK kept \in SUBSET {q \in Procs : temp[q] # NoFile} :
             /\ temp' = [q \in Procs |-> IF q \in kept THEN Survives(temp[q]) ELSE NoFile]
             /\ orphans' = kept
      BY <1>2 DEF PowerLoss
    <3>2. ASSUME NEW q \in Procs PROVE Survives(temp[q]) \in Files
      <4>1. temp[q] \in Files /\ File(Torn, TRUE) \in Files
        OBVIOUS
      <4> HIDE DEF Files
      <4> QED
        BY <4>1 DEF Survives
    <3> HIDE DEF Files
    <3> QED
      BY <3>1, <3>2
  <2>6. TypeOK'
    <3> HIDE DEF Files
    <3> QED
      BY <2>2, <2>3, <2>4, <2>5
  <2>7. DiskIsWhole'
    BY <2>1, <2>2, <2>3, <2>4
  <2>8. OneSave' /\ TempIsWhole' /\ OnlyTheSaved'
    BY <2>4
  <2> QED
    BY <2>6, <2>7, <2>8 DEF IInv
<1>3. ASSUME NEW p \in Procs, BeginSave(p) PROVE IInv'
  <2>1. TypeOK'
    BY <1>3 DEF BeginSave
  <2>2. OneSave'
    BY <1>3 DEF BeginSave
  <2>3. TempIsWhole'
    BY <1>3 DEF BeginSave
  <2>4. DiskIsWhole'
    BY <1>3 DEF BeginSave
  <2>5. OnlyTheSaved'
    BY <1>3 DEF BeginSave
  <2> QED
    BY <2>1, <2>2, <2>3, <2>4, <2>5 DEF IInv
<1>4. ASSUME NEW p \in Procs, LockExclusive(p) PROVE IInv'
  <2>1. TypeOK'
    BY <1>4 DEF LockExclusive
  <2>2. OneSave'
    BY <1>4 DEF LockExclusive
  <2>3. TempIsWhole'
    BY <1>4 DEF LockExclusive
  <2>4. DiskIsWhole'
    BY <1>4 DEF LockExclusive
  <2>5. OnlyTheSaved'
    BY <1>4 DEF LockExclusive
  <2> QED
    BY <2>1, <2>2, <2>3, <2>4, <2>5 DEF IInv
<1>5. ASSUME NEW p \in Procs, CreateTemp(p) PROVE IInv'
  <2>1. TypeOK'
    <3> HIDE DEF Files
    <3>1. temp' \in [Procs -> Files]
      BY <1>5 DEF CreateTemp
    <3> QED
      BY <1>5, <3>1 DEF CreateTemp
  <2>2. OneSave'
    BY <1>5 DEF CreateTemp
  <2>3. TempIsWhole'
    BY <1>5 DEF CreateTemp
  <2>4. DiskIsWhole'
    BY <1>5 DEF CreateTemp
  <2>5. OnlyTheSaved'
    BY <1>5 DEF CreateTemp
  <2> QED
    BY <2>1, <2>2, <2>3, <2>4, <2>5 DEF IInv
<1>6. ASSUME NEW p \in Procs, WriteTemp(p) PROVE IInv'
  <2>1. TypeOK'
    <3>1. temp' \in [Procs -> Files]
      BY <1>6 DEF WriteTemp, File
    <3> QED
      BY <1>6, <3>1 DEF WriteTemp
  <2>2. OneSave'
    BY <1>6 DEF WriteTemp
  <2>3. TempIsWhole'
    BY <1>6 DEF WriteTemp
  <2>4. DiskIsWhole'
    BY <1>6 DEF WriteTemp
  <2>5. OnlyTheSaved'
    BY <1>6 DEF WriteTemp
  <2> QED
    BY <2>1, <2>2, <2>3, <2>4, <2>5 DEF IInv
<1>7. ASSUME NEW p \in Procs, SyncTemp(p) PROVE IInv'
  <2>1. TypeOK'
    <3>1. temp' \in [Procs -> Files]
      BY <1>7 DEF SyncTemp
    <3> QED
      BY <1>7, <3>1 DEF SyncTemp
  <2>2. OneSave'
    BY <1>7 DEF SyncTemp
  <2>3. TempIsWhole'
    BY <1>7 DEF SyncTemp
  <2>4. DiskIsWhole'
    BY <1>7 DEF SyncTemp
  <2>5. OnlyTheSaved'
    BY <1>7 DEF SyncTemp
  <2> QED
    BY <2>1, <2>2, <2>3, <2>4, <2>5 DEF IInv
<1>8. ASSUME NEW p \in Procs, CloseTemp(p) PROVE IInv'
  <2>1. TypeOK'
    BY <1>8 DEF CloseTemp
  <2>2. OneSave'
    BY <1>8 DEF CloseTemp
  <2>3. TempIsWhole'
    BY <1>8 DEF CloseTemp
  <2>4. DiskIsWhole'
    BY <1>8 DEF CloseTemp
  <2>5. OnlyTheSaved'
    BY <1>8 DEF CloseTemp
  <2> QED
    BY <2>1, <2>2, <2>3, <2>4, <2>5 DEF IInv
<1>9. ASSUME NEW p \in Procs, ChmodTemp(p) PROVE IInv'
  <2>1. TypeOK'
    BY <1>9 DEF ChmodTemp
  <2>2. OneSave'
    BY <1>9 DEF ChmodTemp
  <2>3. TempIsWhole'
    BY <1>9 DEF ChmodTemp
  <2>4. DiskIsWhole'
    BY <1>9 DEF ChmodTemp
  <2>5. OnlyTheSaved'
    BY <1>9 DEF ChmodTemp
  <2> QED
    BY <2>1, <2>2, <2>3, <2>4, <2>5 DEF IInv
<1>10. ASSUME NEW p \in Procs, Rename(p) PROVE IInv'
  <2>1. TypeOK'
    BY <1>10 DEF Rename
  <2>2. OneSave'
    BY <1>10 DEF Rename
  <2>3. TempIsWhole'
    BY <1>10 DEF Rename
  <2>4. DiskIsWhole'
    <3>1. temp[p].synced /\ temp[p].holds = saves
      BY <1>10 DEF Rename
    <3>2. /\ file' = temp[p] /\ onDisk' = onDisk \cup {temp[p]}
          /\ UNCHANGED <<fresh, saves, acked>>
      BY <1>10 DEF Rename
    <3> QED
      BY <3>1, <3>2
  <2>5. OnlyTheSaved'
    BY <1>10 DEF Rename
  <2> QED
    BY <2>1, <2>2, <2>3, <2>4, <2>5 DEF IInv
<1>11. ASSUME NEW p \in Procs, SyncDir(p) PROVE IInv'
  <2>1. TypeOK'
    BY <1>11 DEF SyncDir
  <2>2. OneSave'
    BY <1>11 DEF SyncDir
  <2>3. TempIsWhole'
    BY <1>11 DEF SyncDir
  <2>4. DiskIsWhole'
    BY <1>11 DEF SyncDir
  <2>5. OnlyTheSaved'
    BY <1>11 DEF SyncDir
  <2> QED
    BY <2>1, <2>2, <2>3, <2>4, <2>5 DEF IInv
<1>12. ASSUME NEW p \in Procs, FailStep(p) PROVE IInv'
  <2>1. TypeOK'
    <3> HIDE DEF Files
    <3>1. temp' \in [Procs -> Files]
      <4>1. temp' = temp \/ temp' = [temp EXCEPT ![p] = NoFile]
        BY <1>12 DEF FailStep, WithTemp, CleanupTemp
      <4>2. temp \in [Procs -> Files] /\ NoFile \in Files
        BY Values
      <4>3. CASE temp' = temp
        BY <4>2, <4>3
      <4>4. CASE temp' = [temp EXCEPT ![p] = NoFile]
        BY <4>2, <4>4, Zenon
      <4> QED
        BY <4>1, <4>3, <4>4
    <3>2. pc' \in [Procs -> {"idle"} \cup SaveSteps \cup LoadSteps]
      BY <1>12 DEF FailStep
    <3>3. result' \in [Procs -> {"none", "ok", "error"}]
      BY <1>12 DEF FailStep
    <3>4. UNCHANGED <<snapshot, lockVars, diskVars, countVars>>
      BY <1>12 DEF FailStep
    <3> QED
      BY <3>1, <3>2, <3>3, <3>4
  <2>2. OneSave'
    BY <1>12 DEF FailStep, WithTemp, CleanupTemp
  <2>3. TempIsWhole'
    BY <1>12 DEF FailStep, WithTemp, CleanupTemp
  <2>4. DiskIsWhole'
    BY <1>12 DEF FailStep, WithTemp, CleanupTemp
  <2>5. OnlyTheSaved'
    BY <1>12 DEF FailStep, WithTemp, CleanupTemp
  <2> QED
    BY <2>1, <2>2, <2>3, <2>4, <2>5 DEF IInv
<1>13. ASSUME NEW p \in Procs, FailLock(p) PROVE IInv'
  <2>1. TypeOK'
    BY <1>13 DEF FailLock
  <2>2. OneSave'
    BY <1>13 DEF FailLock
  <2>3. TempIsWhole'
    BY <1>13 DEF FailLock
  <2>4. DiskIsWhole'
    BY <1>13 DEF FailLock
  <2>5. OnlyTheSaved'
    BY <1>13 DEF FailLock
  <2> QED
    BY <2>1, <2>2, <2>3, <2>4, <2>5 DEF IInv
<1>14. ASSUME NEW p \in Procs, UnlockExclusive(p) PROVE IInv'
  <2>1. TypeOK'
    BY <1>14 DEF UnlockExclusive
  <2>2. OneSave'
    BY <1>14 DEF UnlockExclusive
  <2>3. TempIsWhole'
    BY <1>14 DEF UnlockExclusive
  <2>4. DiskIsWhole'
    BY <1>14 DEF UnlockExclusive
  <2>5. OnlyTheSaved'
    BY <1>14 DEF UnlockExclusive
  <2> QED
    BY <2>1, <2>2, <2>3, <2>4, <2>5 DEF IInv
<1>15. ASSUME NEW p \in Procs, BeginLoad(p) PROVE IInv'
  <2>1. TypeOK'
    BY <1>15 DEF BeginLoad
  <2>2. OneSave'
    BY <1>15 DEF BeginLoad
  <2>3. TempIsWhole'
    BY <1>15 DEF BeginLoad
  <2>4. DiskIsWhole'
    BY <1>15 DEF BeginLoad
  <2>5. OnlyTheSaved'
    BY <1>15 DEF BeginLoad
  <2> QED
    BY <2>1, <2>2, <2>3, <2>4, <2>5 DEF IInv
<1>16. ASSUME NEW p \in Procs, LockShared(p) PROVE IInv'
  <2>1. TypeOK'
    BY <1>16 DEF LockShared
  <2>2. OneSave'
    BY <1>16 DEF LockShared
  <2>3. TempIsWhole'
    BY <1>16 DEF LockShared
  <2>4. DiskIsWhole'
    BY <1>16 DEF LockShared
  <2>5. OnlyTheSaved'
    BY <1>16 DEF LockShared
  <2> QED
    BY <2>1, <2>2, <2>3, <2>4, <2>5 DEF IInv
<1>17. ASSUME NEW p \in Procs, ReadFile(p) PROVE IInv'
  <2>1. TypeOK'
    BY <1>17 DEF ReadFile
  <2>2. OneSave'
    BY <1>17 DEF ReadFile
  <2>3. TempIsWhole'
    BY <1>17 DEF ReadFile
  <2>4. DiskIsWhole'
    BY <1>17 DEF ReadFile
  <2>5. OnlyTheSaved'
    BY <1>17 DEF ReadFile
  <2> QED
    BY <2>1, <2>2, <2>3, <2>4, <2>5 DEF IInv
<1>18. ASSUME NEW p \in Procs, UnlockShared(p) PROVE IInv'
  <2>1. TypeOK'
    BY <1>18 DEF UnlockShared
  <2>2. OneSave'
    BY <1>18 DEF UnlockShared
  <2>3. TempIsWhole'
    BY <1>18 DEF UnlockShared
  <2>4. DiskIsWhole'
    BY <1>18 DEF UnlockShared
  <2>5. OnlyTheSaved'
    BY <1>18 DEF UnlockShared
  <2> QED
    BY <2>1, <2>2, <2>3, <2>4, <2>5 DEF IInv
<1>19. ASSUME NEW p \in Procs, FailLoad(p) PROVE IInv'
  <2>1. TypeOK'
    BY <1>19 DEF FailLoad
  <2>2. OneSave'
    BY <1>19 DEF FailLoad
  <2>3. TempIsWhole'
    BY <1>19 DEF FailLoad
  <2>4. DiskIsWhole'
    BY <1>19 DEF FailLoad
  <2>5. OnlyTheSaved'
    BY <1>19 DEF FailLoad
  <2> QED
    BY <2>1, <2>2, <2>3, <2>4, <2>5 DEF IInv
<1>20. ASSUME NEW p \in Procs, Kill(p) PROVE IInv'
  <2>1. TypeOK'
    BY <1>20 DEF Kill
  <2>2. OneSave'
    BY <1>20 DEF Kill
  <2>3. TempIsWhole'
    BY <1>20 DEF Kill
  <2>4. DiskIsWhole'
    BY <1>20 DEF Kill
  <2>5. OnlyTheSaved'
    BY <1>20 DEF Kill
  <2> QED
    BY <2>1, <2>2, <2>3, <2>4, <2>5 DEF IInv
<1> QED
  BY <1>1, <1>2, <1>3, <1>4, <1>5, <1>6, <1>7, <1>8, <1>9, <1>10, <1>11, <1>12, <1>13,
     <1>14, <1>15, <1>16, <1>17, <1>18, <1>19, <1>20 DEF Next, SaveStep, LoadStep

\* The invariant holds in every reachable state.
LEMMA Invariance == Spec => []IInv
  BY InitIInv, NextIInv, PTL DEF Spec

\* Type correctness of the state store.
THEOREM TypeCorrect == Spec => []TypeOK
<1>1. IInv => TypeOK
  BY DEF IInv
<1> QED
  BY <1>1, Invariance, PTL

\* Save never leaves a state file that does not decode, wherever it is interrupted.
THEOREM NeverTornCorrect == Spec => []NeverTorn
<1>1. IInv => NeverTorn
  BY StoreAssumption DEF IInv, TypeOK, DiskIsWhole, NeverTorn, Survives, Torn, File
<1> QED
  BY <1>1, Invariance, PTL

\* What Save has acknowledged survives every later failure.
THEOREM DurabilityCorrect == Spec => []AckedIsDurable
<1>1. IInv => AckedIsDurable
  BY DEF IInv, DiskIsWhole, AckedIsDurable
<1> QED
  BY <1>1, Invariance, PTL

\* Who holds a lock or a temporary file is at a step that still gives it back.
HoldersAreBusy ==
    \A p \in Procs : /\ p \in exclusive => pc[p] \in Locked
                     /\ p \in shared => pc[p] \in {"read", "runlock"}
                     /\ temp[p] # NoFile => pc[p] \in WithTemp \/ p \in orphans

\* Every step keeps the holders busy.
LEMMA NextBusy == TypeOK /\ HoldersAreBusy /\ [Next]_vars => HoldersAreBusy'
<1> SUFFICES ASSUME TypeOK, HoldersAreBusy, [Next]_vars PROVE HoldersAreBusy'
  OBVIOUS
<1> USE DEF TypeOK, HoldersAreBusy, Locked, WithTemp, lockVars, diskVars, Goto
<1>1. CASE UNCHANGED vars
  BY <1>1 DEF vars
<1>2. CASE PowerLoss
  BY <1>2 DEF PowerLoss
<1>3. ASSUME NEW p \in Procs, BeginSave(p) PROVE HoldersAreBusy'
  BY <1>3 DEF BeginSave
<1>4. ASSUME NEW p \in Procs, LockExclusive(p) PROVE HoldersAreBusy'
  BY <1>4 DEF LockExclusive
<1>5. ASSUME NEW p \in Procs, CreateTemp(p) PROVE HoldersAreBusy'
  BY <1>5 DEF CreateTemp
<1>6. ASSUME NEW p \in Procs, WriteTemp(p) PROVE HoldersAreBusy'
  BY <1>6 DEF WriteTemp
<1>7. ASSUME NEW p \in Procs, SyncTemp(p) PROVE HoldersAreBusy'
  BY <1>7 DEF SyncTemp
<1>8. ASSUME NEW p \in Procs, CloseTemp(p) PROVE HoldersAreBusy'
  BY <1>8 DEF CloseTemp
<1>9. ASSUME NEW p \in Procs, ChmodTemp(p) PROVE HoldersAreBusy'
  BY <1>9 DEF ChmodTemp
<1>10. ASSUME NEW p \in Procs, Rename(p) PROVE HoldersAreBusy'
  BY <1>10 DEF Rename
<1>11. ASSUME NEW p \in Procs, SyncDir(p) PROVE HoldersAreBusy'
  BY <1>11 DEF SyncDir
<1>12. ASSUME NEW p \in Procs, FailStep(p) PROVE HoldersAreBusy'
  BY <1>12 DEF FailStep, CleanupTemp
<1>13. ASSUME NEW p \in Procs, FailLock(p) PROVE HoldersAreBusy'
  BY <1>13 DEF FailLock
<1>14. ASSUME NEW p \in Procs, UnlockExclusive(p) PROVE HoldersAreBusy'
  BY <1>14 DEF UnlockExclusive
<1>15. ASSUME NEW p \in Procs, BeginLoad(p) PROVE HoldersAreBusy'
  BY <1>15 DEF BeginLoad
<1>16. ASSUME NEW p \in Procs, LockShared(p) PROVE HoldersAreBusy'
  BY <1>16 DEF LockShared
<1>17. ASSUME NEW p \in Procs, ReadFile(p) PROVE HoldersAreBusy'
  BY <1>17 DEF ReadFile
<1>18. ASSUME NEW p \in Procs, UnlockShared(p) PROVE HoldersAreBusy'
  BY <1>18 DEF UnlockShared
<1>19. ASSUME NEW p \in Procs, FailLoad(p) PROVE HoldersAreBusy'
  BY <1>19 DEF FailLoad
<1>20. ASSUME NEW p \in Procs, Kill(p) PROVE HoldersAreBusy'
  BY <1>20 DEF Kill
<1> QED
  BY <1>1, <1>2, <1>3, <1>4, <1>5, <1>6, <1>7, <1>8, <1>9, <1>10, <1>11, <1>12, <1>13, <1>14,
     <1>15, <1>16, <1>17, <1>18, <1>19, <1>20 DEF Next, SaveStep, LoadStep

\* A call that is over, in whatever way, holds no lock, and has no temporary file
\* unless its process was killed.
THEOREM CleanCorrect == Spec => []NothingLeftBehind
<1>1. Init => HoldersAreBusy
  BY DEF Init, HoldersAreBusy
<1>2. IInv => TypeOK
  BY DEF IInv
<1>3. HoldersAreBusy => NothingLeftBehind
  BY DEF HoldersAreBusy, NothingLeftBehind, Locked, WithTemp
<1> QED
  BY <1>1, <1>2, <1>3, NextBusy, Invariance, PTL DEF Spec
=============================================================================
