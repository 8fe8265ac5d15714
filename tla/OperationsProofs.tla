-------------------------- MODULE OperationsProofs --------------------------
(***************************************************************************)
(* Proofs about Operations, for any messages, databases and bounds: a      *)
(* snapshot restores whole, and what a drain removed stays away.           *)
(***************************************************************************)
EXTENDS Operations, TLAPS

Restoring == {"load", "wipe", "untar", "up"}

\* Requests run while the server serves; a restore that stopped it and a drain
\* that did keep it stopped.
Halted ==
  /\ saving # {} \/ undoing # {} \/ erasing # {} => boot = "serving"
  /\ op \in Restoring /\ ~want => boot = "down"
  /\ cut => /\ op \in {"truncate", "unlink", "verify", "upAgain"}
            /\ boot = "down" /\ ~want
            /\ op # "truncate" => rows = {}

\* A restore spoils what it works on, and the snapshot of a backup beside it;
\* what it has put back so far is what it chose.
Replacing ==
  op \in Restoring =>
    /\ ~sound /\ (backup.on => ~backup.snap.sound)
    /\ ~want /\ op # "load" => rows = chosen.rows
    /\ ~want /\ op = "up" => objects = chosen.objects

\* A row has its object, or its message is to go; of an upload in progress the
\* object is there.
Whole == sound => rows \ objects \subseteq released /\ saving \subseteq objects \cup released

WholeSnapshot(s) == s.sound => s.rows \ s.objects \subseteq s.gone

\* So has a row that was dumped: its object is archived, or still to come.
WholeBackup ==
  backup.on /\ backup.snap.sound =>
    backup.snap.rows \subseteq
      backup.snap.objects \cup released \cup (objects \ backup.seen)

\* What a drain removed is in no place that it could come back from.
Gone ==
  /\ wiped \subseteq used /\ wiped \cap (rows \cup objects \cup saving) = {}
  /\ op \in Restoring => wiped \cap (chosen.rows \cup chosen.objects) = {}

IInv ==
  /\ TypeOK /\ Halted /\ Replacing /\ Whole /\ WholeBackup /\ Gone
  /\ \A s \in snaps \cup {chosen} : WholeSnapshot(s)

LEMMA InitIInv == Init => IInv
<1> SUFFICES ASSUME Init PROVE IInv
  OBVIOUS
<1> USE StartupAssumption DEF Init, StartupInit
<1>1. StartupTypeOK
  <2>1. PICK d \in Databases : rev = d.rev /\ parts = d.parts
    OBVIOUS
  <2>2. d \in [rev : Revisions, parts : SUBSET Parts]
    BY StartupAssumption
  <2>3. rev \in Revisions /\ parts \subseteq Parts
    BY <2>1, <2>2
  <2>4. faults \in 0..MaxFault
    BY StartupAssumption
  <2>5. db \in BOOLEAN /\ boot \in Steps /\ want \in BOOLEAN
    BY DEF Steps
  <2> QED BY <2>3, <2>4, <2>5 DEF StartupTypeOK
<1>2. NoSnapshot \in Snapshots /\ NoBackup \in [on : BOOLEAN, seen : SUBSET Messages, snap : Snapshots]
  BY DEF NoSnapshot, NoBackup, Snapshots, Revisions
<1>3. TypeOK
  BY <1>1, <1>2 DEF TypeOK, Ops
<1>4. Halted /\ Replacing /\ Whole /\ WholeBackup /\ Gone
  BY DEF Halted, Replacing, Whole, WholeBackup, Gone, Restoring, NoBackup
<1>5. \A s \in snaps \cup {chosen} : WholeSnapshot(s)
  BY DEF WholeSnapshot, NoSnapshot
<1> QED BY <1>3, <1>4, <1>5 DEF IInv

\* The rest of what a step keeps, by group of actions.
LEMMA ServerStep ==
  ASSUME IInv,
         \/ \E m \in Messages : \/ Put(m) \/ Save(m) \/ SaveFails(m) \/ Undo(m)
                               \/ Unlink(m) \/ Erase(m) \/ Drop(m)
         \/ ServerBoots \/ ServerCrashes \/ ByHand
  PROVE  IInv'
<1> USE DEF IInv, startup, schema, data, busy, script, history
<1>1. ASSUME NEW m \in Messages, Put(m) PROVE IInv'
  BY <1>1 DEF Put, Serving, TypeOK, StartupTypeOK, Halted, Replacing, Whole, WholeBackup,
     Gone, WholeSnapshot, Restoring
<1>2. ASSUME NEW m \in Messages, Save(m) PROVE IInv'
  BY <1>2 DEF Save, Serving, TypeOK, StartupTypeOK, Halted, Replacing, Whole, WholeBackup,
     Gone, WholeSnapshot, Restoring
<1>9. ASSUME NEW m \in Messages, SaveFails(m) PROVE IInv'
  <2>1. faults' \in 0..MaxFault
    BY <1>9, StartupAssumption DEF SaveFails, Fault, TypeOK, StartupTypeOK
  <2> QED BY <1>9, <2>1 DEF SaveFails, TypeOK, StartupTypeOK, Halted, Replacing, Whole,
      WholeBackup, Gone, WholeSnapshot, Restoring
<1>10. ASSUME NEW m \in Messages, Undo(m) PROVE IInv'
  BY <1>10 DEF Undo, TypeOK, StartupTypeOK, Halted, Replacing, Whole, WholeBackup, Gone,
     WholeSnapshot, Restoring
<1>3. ASSUME NEW m \in Messages, Unlink(m) PROVE IInv'
  BY <1>3 DEF Unlink, Serving, TypeOK, StartupTypeOK, Halted, Replacing, Whole, WholeBackup,
     Gone, WholeSnapshot, Restoring
<1>4. ASSUME NEW m \in Messages, Erase(m) PROVE IInv'
  BY <1>4 DEF Erase, Serving, TypeOK, StartupTypeOK, Halted, Replacing, Whole, WholeBackup,
     Gone, WholeSnapshot, Restoring
<1>5. ASSUME NEW m \in Messages, Drop(m) PROVE IInv'
  BY <1>5 DEF Drop, Serving, TypeOK, StartupTypeOK, Halted, Replacing, Whole, WholeBackup,
     Gone, WholeSnapshot, Restoring
<1>6. CASE ServerBoots
  <2>1. StartupTypeOK'
    <3> USE DEF TypeOK, StartupTypeOK, BootGoes, Steps
    <3>1. {"sessions", "mail", "bundle", "backupCode", "versions"} \subseteq Parts
          /\ Foundation \subseteq Parts /\ Second \subseteq Parts /\ 2 \in Revisions
      BY DEF Parts, Foundation, Second, Revisions
    <3>2. CASE Start \/ UpgradeFails \/ EnsureBucket
      BY <3>2 DEF Start, UpgradeFails, EnsureBucket
    <3>3. CASE Upgrade
      BY <3>1, <3>3 DEF Upgrade
    <3>4. CASE CreateAll
      BY <3>1, <3>4 DEF CreateAll
    <3>5. CASE EnsureBundles
      BY <3>1, <3>5 DEF EnsureBundles
    <3>6. CASE EnsureUsers \/ EnsureVersions
      BY <3>1, <3>6 DEF EnsureUsers, EnsureVersions
    <3> QED BY <1>6, <3>2, <3>3, <3>4, <3>5, <3>6 DEF ServerBoots, Booting
  <2>2. boot # "serving" /\ (boot = "down" => want) /\ want' = want
    BY <1>6 DEF ServerBoots, Booting, BootGoes, Start, Upgrade, UpgradeFails, CreateAll,
       EnsureBundles, EnsureUsers, EnsureVersions, EnsureBucket
  <2> QED BY <1>6, <2>1, <2>2 DEF ServerBoots, TypeOK, Halted, Replacing, Whole,
      WholeBackup, Gone, WholeSnapshot
<1>7. CASE ServerCrashes
  BY <1>7, StartupAssumption DEF ServerCrashes, ServerDies, Fault, Interrupted, TypeOK, StartupTypeOK, Steps, Halted,
     Replacing, Whole, WholeBackup, Gone, WholeSnapshot
<1>8. CASE ByHand
  BY <1>8 DEF ByHand, Stopped, RunDirectly, BootGoes, Interrupted, TypeOK, StartupTypeOK, Steps,
     Halted, Replacing, Whole, WholeBackup, Gone, WholeSnapshot, Restoring
<1> QED BY <1>1, <1>2, <1>3, <1>4, <1>5, <1>6, <1>7, <1>8, <1>9, <1>10

LEMMA BackupStep ==
  ASSUME IInv,
         \/ \E m \in Messages : BackupArchive(m)
         \/ BackupDump \/ BackupSave \/ BackupFails
  PROVE  IInv'
<1> USE DEF IInv, startup, schema, data, busy, script, history
<1>1. ASSUME NEW m \in Messages, BackupArchive(m) PROVE IInv'
  <2>1. TypeOK'
    BY <1>1 DEF BackupArchive, TypeOK, StartupTypeOK, Snapshots
  <2>2. WholeBackup'
    BY <1>1 DEF BackupArchive, TypeOK, WholeBackup, Snapshots
  <2> QED BY <1>1, <2>1, <2>2 DEF BackupArchive, TypeOK, Snapshots, Halted, Replacing, Whole,
      Gone, WholeSnapshot
<1>2. CASE BackupDump
  <2>1. backup'.on /\ backup'.seen = {} /\ backup'.snap \in Snapshots
        /\ backup' \in [on : BOOLEAN, seen : SUBSET Messages, snap : Snapshots]
        /\ backup'.snap.rows = rows /\ backup'.snap.sound = sound
    BY <1>2 DEF BackupDump, NoBackup, NoSnapshot, Snapshots, TypeOK, StartupTypeOK, Revisions
  <2> QED BY <1>2, <2>1 DEF BackupDump, TypeOK, StartupTypeOK, Halted, Replacing, Whole,
      WholeBackup, Gone, WholeSnapshot
<1>3. CASE BackupSave
  <2>1. Taken \in Snapshots /\ WholeSnapshot(Taken)
    BY <1>3 DEF BackupSave, Taken, TypeOK, Snapshots, WholeBackup, WholeSnapshot
  <2>2. backup' \in [on : BOOLEAN, seen : SUBSET Messages, snap : Snapshots] /\ ~backup'.on
    BY <1>3 DEF BackupSave, NoBackup, NoSnapshot, Snapshots, Revisions
  <2> QED BY <1>3, <2>1, <2>2 DEF BackupSave, TypeOK, StartupTypeOK, Halted, Replacing, Whole,
      WholeBackup, Gone, WholeSnapshot
<1>4. CASE BackupFails
  <2>1. backup' \in [on : BOOLEAN, seen : SUBSET Messages, snap : Snapshots] /\ ~backup'.on
    BY <1>4 DEF BackupFails, NoBackup, NoSnapshot, Snapshots, Revisions
  <2> QED BY <1>4, <2>1 DEF BackupFails, TypeOK, StartupTypeOK, Halted, Replacing, Whole,
      WholeBackup, Gone, WholeSnapshot
<1> QED BY <1>1, <1>2, <1>3, <1>4

\* A script that changes the data spoils the snapshot of a backup beside it.
LEMMA MixedSpoils ==
  ASSUME backup \in [on : BOOLEAN, seen : SUBSET Messages, snap : Snapshots], Mixed
  PROVE  /\ backup' \in [on : BOOLEAN, seen : SUBSET Messages, snap : Snapshots]
         /\ backup'.on = backup.on /\ ~backup'.snap.sound
BY DEF Mixed, Snapshots

\* A script stops the server, or fails to and goes on.
LEMMA StopFacts ==
  ASSUME IInv, StopOrNot
  PROVE  /\ boot' \in Steps /\ want' \in BOOLEAN /\ faults' \in 0..MaxFault
         /\ saving' \subseteq saving /\ undoing' \subseteq undoing /\ erasing' \subseteq erasing
         /\ saving' # {} \/ undoing' # {} \/ erasing' # {} => boot' = "serving"
<1> USE StartupAssumption DEF IInv, TypeOK, StartupTypeOK, Halted, StopOrNot
<1>1. CASE Stopped /\ UNCHANGED faults
  <2>1. /\ boot' \in {"down", boot} /\ saving' \in {{}, saving}
        /\ undoing' \in {{}, undoing} /\ erasing' \in {{}, erasing}
    BY <1>1 DEF Stopped, Interrupted, busy
  <2>2. saving' # {} \/ undoing' # {} \/ erasing' # {} =>
          boot' = boot /\ UNCHANGED <<saving, undoing, erasing>>
    BY <1>1 DEF Stopped, Interrupted, busy
  <2> QED BY <1>1, <2>1, <2>2 DEF Stopped, Steps
<1>2. CASE Fault /\ UNCHANGED <<want, boot, busy>>
  <2>1. faults' \in 0..MaxFault
    BY <1>2 DEF Fault
  <2> QED BY <1>2, <2>1 DEF busy
<1> QED BY <1>1, <1>2

LEMMA NoSnapshotFacts ==
  NoSnapshot \in Snapshots /\ WholeSnapshot(NoSnapshot)
BY DEF NoSnapshot, Snapshots, Revisions, WholeSnapshot

LEMMA RestoreStep ==
  ASSUME IInv,
         \/ \E s \in snaps : RestoreBegin(s)
         \/ RestoreStop \/ RestoreDrop \/ RestoreLoad \/ RestoreLoadPartly
         \/ RestoreWipe \/ RestoreUntar \/ RestoreUp
  PROVE  IInv'
<1> USE StartupAssumption, NoSnapshotFacts
    DEF IInv, startup, schema, data, busy, history, OpGoes, Ops, Restoring
<1>m. ASSUME Mixed
      PROVE  /\ backup' \in [on : BOOLEAN, seen : SUBSET Messages, snap : Snapshots]
             /\ ~backup'.snap.sound
  BY <1>m, MixedSpoils DEF TypeOK
<1>1. ASSUME NEW s \in snaps, RestoreBegin(s) PROVE IInv'
  BY <1>1 DEF RestoreBegin, TypeOK, StartupTypeOK, Halted, Replacing, Whole, WholeBackup,
     Gone, WholeSnapshot
<1>2. CASE RestoreStop
  <2>1. StopOrNot
    BY <1>2 DEF RestoreStop
  <2>2. TypeOK'
    BY <1>2, <2>1, StopFacts DEF RestoreStop, TypeOK, StartupTypeOK
  <2> QED BY <1>2, <2>1, <2>2, StopFacts DEF RestoreStop, Halted, Replacing, Whole, WholeBackup,
      Gone, WholeSnapshot
<1>3. CASE RestoreDrop
  <2>a. StartupTypeOK'
    <3>1. db' = FALSE /\ rev' = 0 /\ parts' = {}
          /\ boot' = boot /\ want' = want /\ faults' = faults
      BY <1>3 DEF RestoreDrop
    <3>2. db' \in BOOLEAN /\ parts' \subseteq Parts
      BY <3>1
    <3>r. rev' \in Revisions
      BY <3>1, SMT DEF Revisions
    <3>3. boot' \in Steps /\ want' \in BOOLEAN /\ faults' \in 0..MaxFault
      BY <3>1 DEF TypeOK, StartupTypeOK
    <3> QED BY <3>2, <3>r, <3>3 DEF StartupTypeOK
  <2>b. backup' \in [on : BOOLEAN, seen : SUBSET Messages, snap : Snapshots]
    BY <1>3, <1>m DEF RestoreDrop
  <2>1. TypeOK'
    BY <1>3, <2>a, <2>b DEF RestoreDrop, TypeOK
  <2>2. Halted' /\ Replacing' /\ Whole' /\ WholeBackup'
    BY <1>3, <1>m DEF RestoreDrop, TypeOK, Halted, Replacing, Whole, WholeBackup
  <2>3. Gone'
    BY <1>3 DEF RestoreDrop, Gone
  <2> QED BY <1>3, <2>1, <2>2, <2>3 DEF RestoreDrop, WholeSnapshot
<1>4. CASE RestoreLoad
  BY <1>4, <1>m DEF RestoreLoad, TypeOK, StartupTypeOK, Snapshots,
     Halted, Replacing, Whole, WholeBackup, Gone, WholeSnapshot
<1>5. CASE RestoreLoadPartly
  BY <1>5, <1>m DEF RestoreLoadPartly, Fault, TypeOK, StartupTypeOK, Snapshots, Revisions,
     Halted, Replacing, Whole, WholeBackup, Gone, WholeSnapshot
<1>6. CASE RestoreWipe
  BY <1>6, <1>m DEF RestoreWipe, TypeOK, StartupTypeOK,
     Halted, Replacing, Whole, WholeBackup, Gone, WholeSnapshot
<1>7. CASE RestoreUntar
  BY <1>7, <1>m DEF RestoreUntar, TypeOK, StartupTypeOK, Snapshots,
     Halted, Replacing, Whole, WholeBackup, Gone, WholeSnapshot
<1>8. CASE RestoreUp
  BY <1>8 DEF RestoreUp, TypeOK, StartupTypeOK, Snapshots,
     Halted, Replacing, Whole, WholeBackup, Gone, WholeSnapshot
<1> QED BY <1>1, <1>2, <1>3, <1>4, <1>5, <1>6, <1>7, <1>8

LEMMA DrainStep ==
  ASSUME IInv,
         DrainBegin \/ DrainCut \/ DrainTruncate \/ DrainUnlink \/ DrainVerify \/ DrainUp
         \/ ScriptEnds
  PROVE  IInv'
<1> USE StartupAssumption, NoSnapshotFacts
    DEF IInv, startup, schema, data, busy, history, OpGoes, Ops, Restoring
<1>m. ASSUME Mixed
      PROVE  /\ backup' \in [on : BOOLEAN, seen : SUBSET Messages, snap : Snapshots]
             /\ ~backup'.snap.sound
  BY <1>m, MixedSpoils DEF TypeOK
<1>1. CASE DrainBegin
  BY <1>1 DEF DrainBegin, TypeOK, StartupTypeOK, Halted, Replacing, Whole, WholeBackup,
     Gone, WholeSnapshot
<1>2. CASE DrainCut
  <2>1. StopOrNot
    BY <1>2 DEF DrainCut
  <2>2. TypeOK'
    BY <1>2, <2>1, StopFacts DEF DrainCut, TypeOK, StartupTypeOK
  <2> QED BY <1>2, <2>1, <2>2, StopFacts DEF DrainCut, Halted, Replacing, Whole, WholeBackup,
      Gone, WholeSnapshot
<1>3. CASE DrainTruncate
  BY <1>3, <1>m DEF DrainTruncate, TypeOK, StartupTypeOK,
     Halted, Replacing, Whole, WholeBackup, Gone, WholeSnapshot
<1>4. CASE DrainUnlink
  BY <1>4, <1>m DEF DrainUnlink, TypeOK, StartupTypeOK,
     Halted, Replacing, Whole, WholeBackup, Gone, WholeSnapshot
<1>5. CASE DrainVerify
  BY <1>5 DEF DrainVerify, TypeOK, StartupTypeOK,
     Halted, Replacing, Whole, WholeBackup, Gone, WholeSnapshot
<1>6. CASE DrainUp
  BY <1>6 DEF DrainUp, TypeOK, StartupTypeOK,
     Halted, Replacing, Whole, WholeBackup, Gone, WholeSnapshot
<1>7. CASE ScriptEnds
  <2>1. faults' \in 0..MaxFault
    BY <1>7 DEF ScriptEnds, Refused, Fault, TypeOK, StartupTypeOK
  <2>2. (objects' \subseteq chosen.objects /\ op = "untar") \/ objects' = objects
    BY <1>7 DEF ScriptEnds
  <2>3. TypeOK'
    BY <1>7, <2>1, <2>2 DEF ScriptEnds, TypeOK, StartupTypeOK, Snapshots
  <2>4. Halted' /\ Replacing'
    BY <1>7 DEF ScriptEnds, Halted, Replacing
  <2>5. Whole' /\ WholeBackup'
    BY <1>7, <2>2 DEF ScriptEnds, Replacing, Whole, WholeBackup
  <2>6. Gone'
    BY <1>7, <2>2 DEF ScriptEnds, Gone
  <2> QED BY <1>7, <2>3, <2>4, <2>5, <2>6 DEF ScriptEnds
<1> QED BY <1>1, <1>2, <1>3, <1>4, <1>5, <1>6, <1>7

LEMMA StepIInv == IInv /\ [Next]_vars => IInv'
<1> SUFFICES ASSUME IInv, [Next]_vars PROVE IInv'
  OBVIOUS
<1>1. CASE Next
  BY <1>1, ServerStep, BackupStep, RestoreStep, DrainStep DEF Next
<1>2. CASE UNCHANGED vars
  BY <1>2 DEF vars, IInv, TypeOK, StartupTypeOK, Halted, Replacing, Whole, WholeBackup, Gone,
     WholeSnapshot
<1> QED BY <1>1, <1>2

\* The server, the stores and the scripts keep their types.
THEOREM TypeCorrect == Spec => []TypeOK
<1>1. Spec => []IInv
  BY InitIInv, StepIInv, PTL DEF Spec
<1>2. IInv => TypeOK
  BY DEF IInv
<1> QED BY <1>1, <1>2, PTL

\* Every snapshot that no script spoiled restores whole, although the rows are
\* dumped before the objects are archived and the server goes on; so does the
\* stack itself.  For any number of snapshots, messages and faults.
THEOREM SnapshotsWhole == Spec => []RestoreServes
<1>1. Spec => []IInv
  BY InitIInv, StepIInv, PTL DEF Spec
<1>2. IInv => RestoreServes
  BY DEF IInv, RestoreServes, Whole, WholeSnapshot
<1> QED BY <1>1, <1>2, PTL

\* What a drain removed while nothing served stays away until a snapshot from
\* before is restored.
THEOREM DrainFinal == Spec => []DrainHolds
<1>1. Spec => []IInv
  BY InitIInv, StepIInv, PTL DEF Spec
<1>2. IInv => DrainHolds
  BY DEF IInv, DrainHolds, Gone
<1> QED BY <1>1, <1>2, PTL
=============================================================================
