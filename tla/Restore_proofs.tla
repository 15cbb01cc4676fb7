-------------------------- MODULE Restore_proofs --------------------------
(***************************************************************************)
(* The database that was in service is never lost before a finalisation    *)
(* has found the restored one healthy: for every set of entries, any       *)
(* number of faults, and commands repeated in any order the state file     *)
(* allows.                                                                 *)
(***************************************************************************)
EXTENDS Restore, TLAPS

Content(n) == db[n].content

\* OldDatabaseKept alone is not inductive: dropping "failed" or "temporary", or
\* renaming over "current", is harmless only because the old database is
\* nowhere but under "current" or "previous", and under "previous" from the
\* moment rollbackState has found that name to exist.
OldPlace ==
  \/ Content("current") = "old" /\ ~Exists("previous")
  \/ Content("previous") = "old" /\ Content("current") # "old"

OldDatabaseInv ==
  /\ db \in [Databases -> [content : {"none", "part", "old", "new"}, open : BOOLEAN]]
  /\ ~approved =>
       /\ OldPlace
       /\ Content("temporary") # "old" /\ Content("failed") # "old"
       /\ pc = "undoRenameOut" => Content("previous") = "old"
       /\ pc # "dropPrevious"

LEMMA OldDatabaseInit == Init => OldDatabaseInv
<1> SUFFICES ASSUME Init PROVE OldDatabaseInv
  OBVIOUS
<1>1. db = [n \in Databases |-> IF n = "current" THEN [content |-> "old", open |-> TRUE] ELSE Absent]
  BY DEF Init
<1>2. pc = "idle"
  BY DEF Init
<1>3. /\ [content |-> "old", open |-> TRUE] \in [content : {"none", "part", "old", "new"}, open : BOOLEAN]
      /\ Absent \in [content : {"none", "part", "old", "new"}, open : BOOLEAN]
  BY DEF Absent
<1>4. db \in [Databases -> [content : {"none", "part", "old", "new"}, open : BOOLEAN]]
  BY <1>1, <1>3
<1>5. /\ db["current"] = [content |-> "old", open |-> TRUE]
      /\ \A n \in {"temporary", "previous", "failed"} : db[n] = Absent
  BY <1>1 DEF Databases
<1>6. Content("current") = "old" /\ Content("temporary") # "old" /\ Content("failed") # "old"
  BY <1>5 DEF Content, Absent
<1>7. ~Exists("previous")
  BY <1>5 DEF Exists, Absent
<1> QED BY <1>2, <1>4, <1>6, <1>7 DEF OldDatabaseInv, OldPlace

LEMMA OldDatabaseStep == OldDatabaseInv /\ [Next]_vars => OldDatabaseInv'
<1> SUFFICES ASSUME OldDatabaseInv, [Next]_vars PROVE OldDatabaseInv'
  OBVIOUS
<1> USE DEF OldDatabaseInv, OldPlace, Content, Exists, Databases, Go
<1>1. CASE PrepareStarts \/ PrepareImports \/ PreparePublishes
  <2>1. pc' # "undoRenameOut" /\ pc' # "dropPrevious" /\ UNCHANGED approved
    BY <1>1 DEF PrepareStarts, PrepareImports, PreparePublishes
  <2>2. CASE PrepareStarts
    <3>1. db' = [db EXCEPT !["temporary"] = [content |-> "part", open |-> TRUE]]
      BY <2>2 DEF PrepareStarts
    <3> QED BY <2>1, <3>1
  <2>3. CASE PrepareImports
    <3>1. db' = [db EXCEPT !["temporary"].content = "new"]
      BY <2>3 DEF PrepareImports
    <3> QED BY <2>1, <3>1
  <2>4. CASE PreparePublishes
    BY <2>1, <2>4 DEF PreparePublishes
  <2> QED BY <1>1, <2>2, <2>3, <2>4
<1>2. CASE Apply
  <2>1. CASE SwapDatabase
    <3>1. CASE Go("blockCurrent", "blockTemporary") /\ Block("current")
      BY <3>1, <2>1 DEF SwapDatabase, Block
    <3>2. CASE Go("blockTemporary", "renameOut") /\ Block("temporary")
      BY <3>2, <2>1 DEF SwapDatabase, Block
    <3>3. CASE Go("renameOut", "renameIn") /\ Rename("current", "previous")
      BY <3>3, <2>1 DEF SwapDatabase, Rename, Absent
    <3>4. CASE Go("renameIn", "allow") /\ Rename("temporary", "current")
      BY <3>4, <2>1 DEF SwapDatabase, Rename, Absent
    <3> QED BY <2>1, <3>1, <3>2, <3>3, <3>4 DEF SwapDatabase
  <2>2. CASE SwapReturns
    BY <2>2 DEF SwapReturns, Allow
  <2>3. CASE ApplyStarts \/ WaitEnds \/ WaitTimesOut \/ ApplyBegins \/ StageDirectories \/ RecordPaths
    BY <2>3 DEF ApplyStarts, WaitEnds, WaitTimesOut, ApplyBegins, StageDirectories, RecordPaths, Write
  <2>4. CASE BackupSecrets \/ NoteRollback \/ ActivateMount \/ ActivatePlain \/ ActivateSecrets \/ ApplyEnds
    BY <2>4 DEF BackupSecrets, NoteRollback, ActivateMount, ActivatePlain, ActivateSecrets, ApplyEnds, Write
  <2> QED BY <1>2, <2>1, <2>2, <2>3, <2>4 DEF Apply
<1>3. CASE Rollback
  <2>1. CASE RollbackStarts
    BY <2>1 DEF RollbackStarts, UndoFrom
  <2>2. CASE UndoDatabase
    <3>0. UNCHANGED approved
      BY <2>2 DEF UndoDatabase
    <3>1. CASE Go("undoBlockCurrent", "undoBlockPrevious") /\ Block("current")
      BY <3>0, <3>1 DEF Block
    <3>2. CASE Go("undoBlockPrevious", "undoRenameOut") /\ Block("previous")
      BY <3>0, <3>2 DEF Block
    <3>3. CASE Go("undoRenameOut", "undoRenameIn") /\ Rename("current", "failed")
      BY <3>0, <3>3 DEF Rename, Absent
    <3>4. CASE Go("undoRenameIn", "undoAllow") /\ Rename("previous", "current")
      BY <3>0, <3>4 DEF Rename, Absent
    <3>5. CASE Go("undoAllow", "undoDrop") /\ Allow("current")
      BY <3>0, <3>5 DEF Allow
    <3>6. CASE Go("undoDrop", AfterDatabase) /\ Drop("failed")
      <4>1. pc' \in {"undoSecrets", "undoDelete", "undoModels", "undoBlockCurrent"}
        BY <3>6 DEF AfterDatabase, UndoFrom
      <4> QED BY <3>0, <3>6, <4>1 DEF Drop, Absent
    <3> QED BY <2>2, <3>1, <3>2, <3>3, <3>4, <3>5, <3>6 DEF UndoDatabase
  <2>3. CASE UndoMount \/ UndoPlain \/ UndoSecrets \/ UndoEnds \/ Lift
    BY <2>3 DEF UndoMount, UndoPlain, UndoSecrets, UndoEnds, Lift, Write
  <2> QED BY <1>3, <2>1, <2>2, <2>3 DEF Rollback
<1>4. CASE Finalize
  <2>1. CASE FinalizeStarts \/ HealthPasses \/ HealthFails
    BY <2>1 DEF FinalizeStarts, HealthPasses, HealthFails, UndoFrom
  <2>2. CASE FinalizeDrops
    <3>1. pc' = "clean" /\ approved /\ approved'
      BY <2>2 DEF FinalizeDrops
    <3>2. db' = [db EXCEPT !["previous"] = Absent] \/ db' = db
      BY <2>2 DEF FinalizeDrops, Drop
    <3>3. Absent \in [content : {"none", "part", "old", "new"}, open : BOOLEAN]
      BY DEF Absent
    <3>4. db' \in [Databases -> [content : {"none", "part", "old", "new"}, open : BOOLEAN]]
      BY <3>2, <3>3
    <3> QED BY <3>1, <3>4
  <2>3. CASE FinalizeCleans \/ FinalizeEnds
    BY <2>3 DEF FinalizeCleans, FinalizeEnds, Write
  <2> QED BY <1>4, <2>1, <2>2, <2>3 DEF Finalize
<1>5. CASE Error
  <2>1. pc' \in {"lift", "idle", "undoBlockCurrent", "undoSecrets", "undoDelete", "undoModels"}
    BY <1>5 DEF Error, Thrown, UndoFrom
  <2>2. db' = db \/ db' = [db EXCEPT !["temporary"] = Absent]
    BY <1>5 DEF Error, Broken
  <2> QED BY <1>5, <2>1, <2>2 DEF Error, Broken, Absent
<1>6. CASE Refused
  <2>1. pc' \in {"lift", "idle", "undoBlockCurrent", "undoSecrets", "undoDelete", "undoModels"}
    BY <1>6 DEF Refused, Thrown, UndoFrom
  <2> QED BY <1>6, <2>1 DEF Refused
<1>7. CASE Crash
  BY <1>7 DEF Crash
<1>8. CASE System
  BY <1>8 DEF System, TickBegins, TickDispatches, TickEnds, JobArrives, JobBegins, JobEnds, RunSettles, recovery
<1>9. CASE UNCHANGED vars
  BY <1>9 DEF vars
<1> QED BY <1>1, <1>2, <1>3, <1>4, <1>5, <1>6, <1>7, <1>8, <1>9 DEF Next

\* The previous database survives everything but an approved finalisation
\* (RestoreCoordinator::swapDatabase, rollbackState, finalize).
THEOREM OldDatabaseIsKept == Spec => []OldDatabaseKept
<1>1. OldDatabaseInv => OldDatabaseKept
  BY DEF OldDatabaseInv, OldPlace, Content, OldDatabaseKept, Databases
<1> QED BY OldDatabaseInit, OldDatabaseStep, <1>1, PTL DEF Spec

-----------------------------------------------------------------------------
\* What keeps jobs out of a swap: apply raises the marker before it waits, no
\* job is taken under the marker, and only the end of a rollback or of a
\* finalisation lowers it.
Waited == {"begin", "stage", "record", "backup", "blockCurrent", "blockTemporary", "renameOut"}

OneOld == \A m, n \in Databases : Content(m) = "old" /\ Content(n) = "old" => m = n

JobsInv ==
  /\ db \in [Databases -> [content : {"none", "part", "old", "new"}, open : BOOLEAN]]
  /\ OneOld
  /\ Content("previous") = "old" => job # "reserved"
  /\ pc \in Waited \cup {"wait"} => marker
  /\ pc \in Waited => job # "reserved"

\* What a step does to the databases, when it touches them at all.
DatabaseStep ==
  \/ UNCHANGED db
  \/ \E n \in Databases : Block(n) \/ Allow(n) \/ Drop(n)
  \/ \E m, n \in Databases : Rename(m, n)
  \/ db' = [db EXCEPT !["temporary"].content = "new"]
  \/ db' = [db EXCEPT !["temporary"] = [content |-> "part", open |-> TRUE]]

LEMMA OneOldStep ==
  ASSUME db \in [Databases -> [content : {"none", "part", "old", "new"}, open : BOOLEAN]],
         OneOld, DatabaseStep
  PROVE  OneOld'
<1> USE DEF OneOld, Content
<1>1. CASE UNCHANGED db
  BY <1>1
<1>2. ASSUME NEW n \in Databases, Block(n) \/ Allow(n) \/ Drop(n) PROVE OneOld'
  <2>1. CASE Block(n)
    BY <2>1 DEF Block
  <2>2. CASE Allow(n)
    BY <2>2 DEF Allow
  <2>3. CASE Drop(n)
    BY <2>3 DEF Drop, Absent
  <2> QED BY <1>2, <2>1, <2>2, <2>3
<1>3. ASSUME NEW m \in Databases, NEW n \in Databases, Rename(m, n) PROVE OneOld'
  <2>1. m # n
    BY <1>3 DEF Rename
  <2>2. /\ db'[m] = Absent /\ db'[n] = db[m]
        /\ \A x \in Databases \ {m, n} : db'[x] = db[x]
    BY <1>3, <2>1 DEF Rename
  <2> QED BY <2>1, <2>2 DEF Absent
<1>4. CASE db' = [db EXCEPT !["temporary"].content = "new"]
  BY <1>4 DEF Databases
<1>5. CASE db' = [db EXCEPT !["temporary"] = [content |-> "part", open |-> TRUE]]
  BY <1>5 DEF Databases
<1> QED BY <1>1, <1>2, <1>3, <1>4, <1>5 DEF DatabaseStep

LEMMA NextDatabases ==
  ASSUME db \in [Databases -> [content : {"none", "part", "old", "new"}, open : BOOLEAN]],
         [Next]_vars
  PROVE  DatabaseStep
<1> USE DEF DatabaseStep, Databases
<1>1. CASE PrepareStarts \/ PrepareImports \/ PreparePublishes
  BY <1>1 DEF PrepareStarts, PrepareImports, PreparePublishes
<1>2. CASE Apply
  <2>1. CASE SwapDatabase
    BY <2>1 DEF SwapDatabase
  <2>2. CASE SwapReturns
    BY <2>2 DEF SwapReturns
  <2> QED BY <1>2, <2>1, <2>2 DEF Apply, ApplyStarts, WaitEnds, WaitTimesOut, ApplyBegins,
       StageDirectories, RecordPaths, BackupSecrets, NoteRollback, ActivateMount, ActivatePlain,
       ActivateSecrets, ApplyEnds
<1>3. CASE Rollback
  <2>1. CASE UndoDatabase
    BY <2>1 DEF UndoDatabase
  <2> QED BY <1>3, <2>1 DEF Rollback, RollbackStarts, UndoMount, UndoPlain, UndoSecrets, UndoEnds, Lift
<1>4. CASE Finalize
  BY <1>4 DEF Finalize, FinalizeStarts, HealthPasses, HealthFails, FinalizeDrops, FinalizeCleans, FinalizeEnds
<1>5. CASE Error
  BY <1>5 DEF Error, Broken, Drop
<1>6. CASE Refused \/ Crash
  BY <1>6 DEF Refused, Crash
<1>7. CASE System
  BY <1>7 DEF System, TickBegins, TickDispatches, TickEnds, JobArrives, JobBegins, JobEnds, RunSettles, recovery
<1>8. CASE UNCHANGED vars
  BY <1>8 DEF vars
<1> QED BY <1>1, <1>2, <1>3, <1>4, <1>5, <1>6, <1>7, <1>8 DEF Next

LEMMA JobsInit == Init => JobsInv
<1> SUFFICES ASSUME Init PROVE JobsInv
  OBVIOUS
<1>1. db \in [Databases -> [content : {"none", "part", "old", "new"}, open : BOOLEAN]]
  BY OldDatabaseInit DEF OldDatabaseInv
<1>2. db = [n \in Databases |-> IF n = "current" THEN [content |-> "old", open |-> TRUE] ELSE Absent]
  BY DEF Init
<1>3. \A n \in Databases : n # "current" => Content(n) # "old"
  BY <1>2 DEF Content, Absent
<1>4. pc = "idle" /\ job = "none"
  BY DEF Init
<1> QED BY <1>1, <1>3, <1>4 DEF JobsInv, OneOld, Waited, Databases

LEMMA JobsStep == JobsInv /\ OldDatabaseInv' /\ [Next]_vars => JobsInv'
<1> SUFFICES ASSUME JobsInv, OldDatabaseInv', [Next]_vars PROVE JobsInv'
  OBVIOUS
<1>1. OneOld'
  BY NextDatabases, OneOldStep DEF JobsInv
<1>2. db' \in [Databases -> [content : {"none", "part", "old", "new"}, open : BOOLEAN]]
  BY DEF OldDatabaseInv
<1>3. CASE System
  <2>1. UNCHANGED <<pc, marker, db>>
    BY <1>3 DEF System, TickBegins, TickDispatches, TickEnds, JobArrives, JobBegins, JobEnds, RunSettles,
       recovery
  <2>2. job' = "reserved" => job = "reserved" \/ (~marker /\ Content("current") = "old")
    BY <1>3 DEF System, TickBegins, TickDispatches, TickEnds, JobArrives, JobBegins, JobEnds, RunSettles,
                OldInService, Content
  <2> QED BY <1>1, <1>2, <2>1, <2>2 DEF JobsInv, OneOld, Content, Databases
<1>4. CASE ~System
  <2>1. UNCHANGED job
    BY <1>4, [Next]_vars DEF Next, vars, system, Go, PrepareStarts, PrepareImports, PreparePublishes,
       Refused, Crash, Error, Broken, Apply, ApplyStarts, WaitEnds, WaitTimesOut, ApplyBegins,
       StageDirectories, RecordPaths, BackupSecrets, SwapDatabase, SwapReturns, NoteRollback,
       ActivateMount, ActivatePlain, ActivateSecrets, ApplyEnds, Rollback, RollbackStarts,
       UndoDatabase, UndoMount, UndoPlain, UndoSecrets, UndoEnds, Lift, Finalize, FinalizeStarts,
       HealthPasses, HealthFails, FinalizeDrops, FinalizeCleans, FinalizeEnds
  <2>2. CASE PrepareStarts \/ PrepareImports \/ PreparePublishes
    <3>1. pc' \notin Waited \cup {"wait"}
      BY <2>2 DEF PrepareStarts, PrepareImports, PreparePublishes, Go, Waited
    <3>2. db'["previous"] = db["previous"]
      BY <2>2 DEF PrepareStarts, PrepareImports, PreparePublishes, JobsInv, Databases
    <3> QED BY <1>1, <1>2, <2>1, <3>1, <3>2 DEF JobsInv, Content
  <2>3. CASE Apply
    <3>1. CASE SwapDatabase
      <4>1. /\ pc \in Waited \/ (pc' \notin Waited)
            /\ pc' # "wait" /\ UNCHANGED marker
        BY <3>1 DEF SwapDatabase, Go, Waited
      <4>2. pc \in Waited \/ db'["previous"] = db["previous"]
        BY <3>1 DEF SwapDatabase, Go, Waited, Rename, Databases, JobsInv
      <4> QED BY <1>1, <1>2, <2>1, <4>1, <4>2 DEF JobsInv, Content
    <3>2. CASE SwapReturns
      BY <1>1, <1>2, <2>1, <3>2 DEF SwapReturns, Allow, Go, JobsInv, Content, Waited, Databases
    <3>3. CASE ApplyStarts \/ WaitEnds \/ WaitTimesOut
      BY <1>1, <1>2, <2>1, <3>3 DEF ApplyStarts, WaitEnds, WaitTimesOut, Go, Quiet, JobsInv, Content, Waited
    <3>4. CASE ApplyBegins \/ StageDirectories \/ RecordPaths \/ BackupSecrets
      BY <1>1, <1>2, <2>1, <3>4 DEF ApplyBegins, StageDirectories, RecordPaths, BackupSecrets, Go,
                                    JobsInv, Content, Waited
    <3>5. CASE NoteRollback \/ ActivateMount \/ ActivatePlain \/ ActivateSecrets \/ ApplyEnds
      <4>1. pc' \notin Waited \cup {"wait"} /\ UNCHANGED db
        BY <3>5 DEF NoteRollback, ActivateMount, ActivatePlain, ActivateSecrets, ApplyEnds, Go, Waited
      <4> QED BY <1>1, <1>2, <2>1, <4>1 DEF JobsInv, Content
    <3> QED BY <2>3, <3>1, <3>2, <3>3, <3>4, <3>5 DEF Apply
  <2>4. CASE Rollback
    <3>1. pc' \notin Waited \cup {"wait"}
      BY <2>4 DEF Rollback, RollbackStarts, UndoFrom, AfterDatabase, UndoDatabase, UndoMount, UndoPlain,
                  UndoSecrets, UndoEnds, Lift, Go, Waited
    <3>2. Content("previous")' = "old" => Content("previous") = "old"
      <4>1. CASE UndoDatabase
        BY <4>1 DEF UndoDatabase, Block, Rename, Allow, Drop, Absent, Content, Databases, JobsInv
      <4> QED BY <2>4, <4>1 DEF Rollback, RollbackStarts, UndoMount, UndoPlain, UndoSecrets, UndoEnds,
                                Lift, Content
    <3> QED BY <1>1, <1>2, <2>1, <3>1, <3>2 DEF JobsInv
  <2>5. CASE Finalize
    <3>1. pc' \notin Waited \cup {"wait"}
      BY <2>5 DEF Finalize, FinalizeStarts, HealthPasses, HealthFails, FinalizeDrops, FinalizeCleans,
                  FinalizeEnds, UndoFrom, Go, Waited
    <3>2. Content("previous")' = "old" => Content("previous") = "old"
      <4>1. CASE FinalizeDrops
        <5>1. UNCHANGED db \/ db' = [db EXCEPT !["previous"] = Absent]
          BY <4>1 DEF FinalizeDrops, Drop
        <5> QED BY <5>1 DEF Content, Absent, JobsInv, Databases
      <4> QED BY <2>5, <4>1 DEF Finalize, FinalizeStarts, HealthPasses, HealthFails, FinalizeCleans,
                                FinalizeEnds, Content
    <3> QED BY <1>1, <1>2, <2>1, <3>1, <3>2 DEF JobsInv
  <2>6. CASE Error
    <3>1. pc' \notin Waited \cup {"wait"}
      BY <2>6 DEF Error, Thrown, UndoFrom, Waited
    <3>2. UNCHANGED db \/ db' = [db EXCEPT !["temporary"] = Absent]
      BY <2>6 DEF Error, Broken
    <3>3. db'["previous"] = db["previous"]
      BY <3>2 DEF JobsInv, Databases
    <3> QED BY <1>1, <1>2, <2>1, <3>1, <3>3 DEF JobsInv, Content
  <2>7. CASE Refused \/ Crash
    <3>1. pc' \notin Waited \cup {"wait"} /\ UNCHANGED db
      BY <2>7 DEF Refused, Crash, Thrown, UndoFrom, Waited
    <3> QED BY <1>1, <1>2, <2>1, <3>1 DEF JobsInv, Content
  <2>8. CASE UNCHANGED vars
    BY <1>1, <1>2, <2>8 DEF vars, JobsInv, Content
  <2> QED BY <1>4, <2>2, <2>3, <2>4, <2>5, <2>6, <2>7, <2>8 DEF Next
<1> QED BY <1>3, <1>4

\* The worker has no job of the old database in progress when that database
\* loses its name (RestoreCoordinator::waitForQuiescence, docker/worker.sh).
THEOREM JobsAreDoneHolds == Spec => []JobsAreDone
<1>1. JobsInv => JobsAreDone
  BY DEF JobsInv, JobsAreDone, Content
<1> QED BY OldDatabaseInit, OldDatabaseStep, JobsInit, JobsStep, <1>1, PTL DEF Spec

-----------------------------------------------------------------------------
(* Types.  A step changes a few of the variables; each kind of variable has  *)
(* its own lemma on the steps that change it.                                *)

\* The values of the three structured variables.
Database == [content : {"none", "part", "old", "new"}, open : BOOLEAN]
Directory == [live : SUBSET (Old \cup New), incoming : SUBSET New,
              previous : SUBSET (Old \cup New), staged : BOOLEAN]
Secrets == [live : {"old", "mixed", "new"}, backup : {"none", "partial", "full"}]

LEMMA TypedInit == Init => TypeOK
<1> SUFFICES ASSUME Init PROVE TypeOK
  OBVIOUS
<1>1. db \in [Databases -> Database]
  BY OldDatabaseInit DEF OldDatabaseInv, Database
<1>2. PICK present \in SUBSET Plain :
        dirs = [d \in Dirs |-> [live |-> IF d \in present \cup {"repository"} THEN Old ELSE {},
                                incoming |-> {}, previous |-> {}, staged |-> FALSE]]
  BY DEF Init
<1>3. dirs \in [Dirs -> Directory]
  BY <1>2 DEF Directory
<1>4. file \in States /\ mem \in States
  BY DEF Init, States, Statuses
<1>5. secrets \in Secrets
  BY DEF Init, Secrets
<1>6. pc \in Steps /\ marker \in BOOLEAN /\ approved \in BOOLEAN /\ tick \in BOOLEAN
  BY DEF Init, Steps
<1>7. faults \in 0..MaxFaults /\ run = "none" /\ job = "none"
  BY RestoreAssumption DEF Init
<1> QED BY <1>1, <1>3, <1>4, <1>5, <1>6, <1>7 DEF TypeOK, Database, Directory, Secrets

\* A state keeps its kind when its status is replaced, and when apply notes
\* what it has staged and that the database was renamed.
LEMMA StateTyped ==
  ASSUME NEW state \in States
  PROVE  /\ \A status \in Statuses : [state EXCEPT !.status = status] \in States
         /\ \A had \in SUBSET Dirs : [state EXCEPT !.staged = TRUE, !.had = had] \in States
         /\ [state EXCEPT !.rollback = TRUE] \in States
  BY DEF States

LEMMA UndoFromStep ==
  ASSUME NEW state
  PROVE  UndoFrom(state) \in {"undoBlockCurrent", "undoSecrets", "undoDelete", "undoModels"}
  BY DEF UndoFrom

LEMMA DatabaseTyped ==
  ASSUME db \in [Databases -> Database], DatabaseStep
  PROVE  db' \in [Databases -> Database]
<1> USE DEF Database
<1>1. ASSUME NEW n \in Databases, Block(n) \/ Allow(n) \/ Drop(n) PROVE db' \in [Databases -> Database]
  <2>1. CASE Block(n)
    BY <2>1 DEF Block
  <2>2. CASE Allow(n)
    BY <2>2 DEF Allow
  <2>3. CASE Drop(n)
    BY <2>3 DEF Drop, Absent
  <2> QED BY <1>1, <2>1, <2>2, <2>3
<1>2. ASSUME NEW m \in Databases, NEW n \in Databases, Rename(m, n) PROVE db' \in [Databases -> Database]
  BY <1>2 DEF Rename, Absent
<1>3. CASE db' = [db EXCEPT !["temporary"].content = "new"]
  BY <1>3 DEF Databases
<1>4. CASE db' = [db EXCEPT !["temporary"] = [content |-> "part", open |-> TRUE]]
  BY <1>4
<1> QED BY <1>1, <1>2, <1>3, <1>4 DEF DatabaseStep

\* What the steps do to the directories: one mount entry by entry, the other
\* directories as a whole.
LEMMA MountTyped ==
  ASSUME dirs \in [Dirs -> Directory], ActivateMount \/ UndoMount
  PROVE  dirs' \in [Dirs -> Directory]
<1> USE DEF Directory, Dirs
<1>1. dirs["repository"] \in Directory
  OBVIOUS
<1>2. ASSUME NEW x \in dirs["repository"].live,
             dirs' = [dirs EXCEPT !["repository"].live = @ \ {x}, !["repository"].previous = @ \cup {x}]
      PROVE  dirs' \in [Dirs -> Directory]
  BY <1>1, <1>2
<1>3. ASSUME NEW x \in dirs["repository"].incoming,
             dirs' = [dirs EXCEPT !["repository"].incoming = @ \ {x}, !["repository"].live = @ \cup {x}]
      PROVE  dirs' \in [Dirs -> Directory]
  BY <1>1, <1>3
<1>4. ASSUME NEW x \in dirs["repository"].previous,
             dirs' = [dirs EXCEPT !["repository"].previous = @ \ {x}, !["repository"].live = @ \cup {x}]
      PROVE  dirs' \in [Dirs -> Directory]
  BY <1>1, <1>4
<1>5. CASE dirs' = [dirs EXCEPT !["repository"].live = {}, !["repository"].incoming = {}]
  BY <1>1, <1>5
<1>6. CASE dirs' = [dirs EXCEPT !["repository"].staged = FALSE]
  BY <1>1, <1>6
<1> QED BY <1>2, <1>3, <1>4, <1>5, <1>6 DEF ActivateMount, UndoMount

LEMMA PlainTyped ==
  ASSUME dirs \in [Dirs -> Directory], ActivatePlain \/ UndoPlain
  PROVE  dirs' \in [Dirs -> Directory]
<1>1. ASSUME NEW d \in Dirs, MoveAway(d) \/ MoveInto(d) \/ Delete(d) \/ MoveBack(d)
      PROVE  dirs' \in [Dirs -> Directory]
  <2>1. dirs[d] \in Directory
    OBVIOUS
  <2>2. CASE dirs' = [dirs EXCEPT ![d].previous = dirs[d].live, ![d].live = {}]
    BY <2>1, <2>2 DEF Directory
  <2>3. CASE dirs' = [dirs EXCEPT ![d].live = dirs[d].incoming, ![d].incoming = {}]
    BY <2>1, <2>3 DEF Directory
  <2>4. CASE dirs' = [dirs EXCEPT ![d].live = {}]
    BY <2>1, <2>4 DEF Directory
  <2>5. CASE dirs' = [dirs EXCEPT ![d].live = dirs[d].previous, ![d].previous = {}]
    BY <2>1, <2>5 DEF Directory
  <2> QED BY <1>1, <2>2, <2>3, <2>4, <2>5 DEF MoveAway, MoveInto, Delete, MoveBack
<1> QED BY <1>1 DEF ActivatePlain, UndoPlain, Dirs, Plain

\* Each kind of variable by the steps that touch it.
LEMMA DirectoriesTyped ==
  ASSUME dirs \in [Dirs -> Directory], [Next]_vars
  PROVE  dirs' \in [Dirs -> Directory]
<1>0. \A d \in Dirs : dirs[d] \in Directory
  OBVIOUS
<1>1. CASE StageDirectories
  BY <1>0, <1>1 DEF StageDirectories, Directory
<1>2. CASE FinalizeCleans
  <2>1. CASE dirs' = [d \in Dirs |-> [dirs[d] EXCEPT !.previous = {}, !.staged = FALSE]]
    BY <1>0, <2>1 DEF Directory
  <2> QED BY <1>2, <2>1 DEF FinalizeCleans
<1>3. ActivateMount \/ UndoMount \/ ActivatePlain \/ UndoPlain \/ StageDirectories \/ FinalizeCleans
      \/ UNCHANGED dirs
  BY DEF Next, vars, PrepareStarts, PrepareImports, PreparePublishes, Apply, ApplyStarts, WaitEnds,
         WaitTimesOut, ApplyBegins, RecordPaths, BackupSecrets, SwapDatabase, SwapReturns, NoteRollback,
         ActivateSecrets, ApplyEnds, Rollback, RollbackStarts, UndoDatabase, UndoSecrets, UndoEnds, Lift,
         Finalize, FinalizeStarts, HealthPasses, HealthFails, FinalizeDrops, FinalizeEnds, Error, Broken,
         Refused, Crash, System, TickBegins, TickDispatches, TickEnds, JobArrives, JobBegins, JobEnds,
         RunSettles, recovery
<1> QED BY <1>1, <1>2, <1>3, MountTyped, PlainTyped

LEMMA SecretsTyped ==
  ASSUME secrets \in Secrets, [Next]_vars
  PROVE  secrets' \in Secrets
<1> USE DEF Secrets
<1>1. CASE BackupSecrets
  BY <1>1 DEF BackupSecrets
<1>2. CASE ActivateSecrets
  BY <1>2 DEF ActivateSecrets
<1>3. CASE UndoSecrets
  BY <1>3 DEF UndoSecrets
<1>4. CASE FinalizeCleans
  BY <1>4 DEF FinalizeCleans
<1>5. CASE Error
  BY <1>5 DEF Error, Broken
<1>6. BackupSecrets \/ ActivateSecrets \/ UndoSecrets \/ FinalizeCleans \/ Error \/ UNCHANGED secrets
  BY DEF Next, vars, PrepareStarts, PrepareImports, PreparePublishes, Apply, ApplyStarts, WaitEnds,
         WaitTimesOut, ApplyBegins, StageDirectories, RecordPaths, SwapDatabase, SwapReturns, NoteRollback,
         ActivateMount, ActivatePlain, ApplyEnds, Rollback, RollbackStarts, UndoDatabase, UndoMount,
         UndoPlain, UndoEnds, Lift, Finalize, FinalizeStarts, HealthPasses, HealthFails, FinalizeDrops,
         FinalizeEnds, Refused, Crash, System, TickBegins, TickDispatches, TickEnds, JobArrives,
         JobBegins, JobEnds, RunSettles, recovery
<1> QED BY <1>1, <1>2, <1>3, <1>4, <1>5, <1>6

LEMMA StatesTyped ==
  ASSUME mem \in States, file \in States, [Next]_vars
  PROVE  mem' \in States /\ file' \in States
<1>1. CASE \E status \in Statuses : Write(status)
  BY <1>1, StateTyped DEF Write
<1>2. CASE StageDirectories
  BY <1>2, StateTyped DEF StageDirectories
<1>3. CASE SwapReturns
  BY <1>3, StateTyped DEF SwapReturns
<1>4. CASE Error
  <2>1. mem' = mem \/ mem' = [mem EXCEPT !.status = "applying"] \/ mem' = [mem EXCEPT !.status = "applied"]
    BY <1>4 DEF Error, Broken
  <2> QED BY <1>4, <2>1, StateTyped DEF Error, Broken, Statuses
<1>5. CASE mem' \in {mem, file} /\ file' = file
  BY <1>5
<1>6. \/ \E status \in Statuses : Write(status)
      \/ StageDirectories \/ SwapReturns \/ Error
      \/ mem' \in {mem, file} /\ file' = file
  <2>1. mem.status \in Statuses
    BY DEF States
  <2>2. CASE PreparePublishes \/ ApplyBegins \/ RecordPaths \/ NoteRollback \/ ApplyEnds \/ UndoEnds \/ FinalizeEnds
    BY <2>1, <2>2 DEF PreparePublishes, ApplyBegins, RecordPaths, NoteRollback, ApplyEnds, UndoEnds,
                      FinalizeEnds, Statuses
  <2> QED BY <2>2
       DEF Next, vars, PrepareStarts, PrepareImports, Apply, ApplyStarts, WaitEnds,
         WaitTimesOut, BackupSecrets, SwapDatabase, ActivateMount, ActivatePlain, ActivateSecrets,
         Rollback, RollbackStarts, UndoDatabase, UndoMount, UndoPlain, UndoSecrets, Lift,
         Finalize, FinalizeStarts, HealthPasses, HealthFails, FinalizeDrops, FinalizeCleans,
         Refused, Crash, System, TickBegins, TickDispatches, TickEnds, JobArrives,
         JobBegins, JobEnds, RunSettles, recovery
<1> QED BY <1>1, <1>2, <1>3, <1>4, <1>5, <1>6

LEMMA ScalarsTyped ==
  ASSUME pc \in Steps, marker \in BOOLEAN, approved \in BOOLEAN, faults \in 0..MaxFaults, [Next]_vars
  PROVE  pc' \in Steps /\ marker' \in BOOLEAN /\ approved' \in BOOLEAN /\ faults' \in 0..MaxFaults
<1>0. ASSUME NEW state PROVE UndoFrom(state) \in Steps
  BY UndoFromStep DEF Steps
<1>1. CASE PrepareStarts \/ PrepareImports \/ PreparePublishes
  BY <1>1 DEF PrepareStarts, PrepareImports, PreparePublishes, Go, Steps
<1>2. CASE Apply
  BY <1>2 DEF Apply, ApplyStarts, WaitEnds, WaitTimesOut, ApplyBegins, StageDirectories, RecordPaths,
       BackupSecrets, SwapDatabase, SwapReturns, NoteRollback, ActivateMount, ActivatePlain,
       ActivateSecrets, ApplyEnds, Go, Steps
<1>3. CASE Rollback
  BY <1>0, <1>3 DEF Rollback, RollbackStarts, AfterDatabase, UndoDatabase, UndoMount, UndoPlain,
       UndoSecrets, UndoEnds, Lift, Go, Steps
<1>4. CASE Finalize
  BY <1>0, <1>4 DEF Finalize, FinalizeStarts, HealthPasses, HealthFails, FinalizeDrops, FinalizeCleans,
       FinalizeEnds, Go, Steps
<1>5. Thrown \in Steps
  BY <1>0 DEF Thrown, Steps
<1>6. CASE Error
  BY <1>5, <1>6, RestoreAssumption DEF Error, Broken
<1>7. CASE Refused \/ Crash
  BY <1>5, <1>7, RestoreAssumption DEF Refused, Crash, Steps
<1>8. CASE System
  BY <1>8 DEF System, TickBegins, TickDispatches, TickEnds, JobArrives, JobBegins, JobEnds, RunSettles, recovery
<1>9. CASE UNCHANGED vars
  BY <1>9 DEF vars
<1> QED BY <1>1, <1>2, <1>3, <1>4, <1>6, <1>7, <1>8, <1>9 DEF Next

LEMMA SystemTyped ==
  ASSUME tick \in BOOLEAN, run \in {"none", "dispatched", "running"}, job \in {"none", "queued", "reserved"},
         [Next]_vars
  PROVE  /\ tick' \in BOOLEAN
         /\ run' \in {"none", "dispatched", "running"}
         /\ job' \in {"none", "queued", "reserved"}
<1>1. CASE System
  BY <1>1 DEF System, TickBegins, TickDispatches, TickEnds, JobArrives, JobBegins, JobEnds, RunSettles
<1>2. CASE ~System
  BY <1>2 DEF Next, vars, system, Go, PrepareStarts, PrepareImports, PreparePublishes,
       Refused, Crash, Error, Broken, Apply, ApplyStarts, WaitEnds, WaitTimesOut, ApplyBegins,
       StageDirectories, RecordPaths, BackupSecrets, SwapDatabase, SwapReturns, NoteRollback,
       ActivateMount, ActivatePlain, ActivateSecrets, ApplyEnds, Rollback, RollbackStarts,
       UndoDatabase, UndoMount, UndoPlain, UndoSecrets, UndoEnds, Lift, Finalize, FinalizeStarts,
       HealthPasses, HealthFails, FinalizeDrops, FinalizeCleans, FinalizeEnds
<1> QED BY <1>1, <1>2

LEMMA TypedStep == TypeOK /\ [Next]_vars => TypeOK'
<1> SUFFICES ASSUME TypeOK, [Next]_vars PROVE TypeOK'
  OBVIOUS
<1>1. db \in [Databases -> Database] /\ dirs \in [Dirs -> Directory] /\ secrets \in Secrets
  BY DEF TypeOK, Database, Directory, Secrets
<1>2. db' \in [Databases -> Database]
  BY <1>1, NextDatabases, DatabaseTyped DEF Database
<1>3. dirs' \in [Dirs -> Directory]
  BY <1>1, DirectoriesTyped
<1>4. secrets' \in Secrets
  BY <1>1, SecretsTyped
<1>5. mem' \in States /\ file' \in States
  BY StatesTyped DEF TypeOK
<1>6. pc' \in Steps /\ marker' \in BOOLEAN /\ approved' \in BOOLEAN /\ faults' \in 0..MaxFaults
  BY ScalarsTyped DEF TypeOK
<1>7. tick' \in BOOLEAN /\ run' \in {"none", "dispatched", "running"} /\ job' \in {"none", "queued", "reserved"}
  BY SystemTyped DEF TypeOK
<1> QED BY <1>2, <1>3, <1>4, <1>5, <1>6, <1>7 DEF TypeOK, Database, Directory, Secrets

\* Every variable of a restore keeps its kind, whatever fails or dies when; in
\* particular no state file ever says "failed", the status that rollback also
\* accepts (RestoreCoordinator::rollback).
THEOREM RestoreTyped == Spec => []TypeOK
  BY TypedInit, TypedStep, PTL DEF Spec

-----------------------------------------------------------------------------
(***************************************************************************)
(* A rollback of an applied restore brings everything back: for every set  *)
(* of entries, any number of faults, and any number of rollbacks and       *)
(* finalisations that were begun and cut short before.                     *)
(*                                                                         *)
(* What makes it whole: from the moment apply has staged the directories   *)
(* until the "previous" database is gone, everything that was live is kept *)
(* aside under a name that only the rollback takes away.  And after a      *)
(* rollback that was interrupted once it had renamed "previous", none ends *)
(* any more: each is refused for want of the database it would rename.     *)
(***************************************************************************)

\* What a directory held, by the command's state; whether it is still there,
\* and whether it has been moved aside whole.
Was(d) == IF d \in mem.had THEN Old ELSE {}
InPlace(d) == dirs[d].live = Was(d) /\ dirs[d].previous = {}
Aside(d) == dirs[d].previous = Was(d)

\* The steps of apply, by how far it has moved.
Unmoved == {"record", "backup", "blockCurrent", "blockTemporary", "renameOut", "renameIn", "allow", "note"}
BrandingAside == {"brandingIn", "secretsFirst", "secretsLast", "done"}
ModelsAside == {"modelsIn", "brandingOut"} \cup BrandingAside
RepositoryAside == {"moveIn", "modelsOut"} \cup ModelsAside
Moving == {"note", "moveOut"} \cup RepositoryAside
Staged == Unmoved \cup {"moveOut"} \cup RepositoryAside

\* The steps of a rollback, by how far it has moved back.
DatabaseAway == {"undoBlockCurrent", "undoBlockPrevious", "undoRenameOut", "undoRenameIn"}
DirectoriesAway == {"undoAllow", "undoDrop", "undoDelete"}
BrandingBack == {"undoSecrets", "undoSecretsLast", "undone"}
ModelsBack == {"undoBranding", "undoBrandingBack"} \cup BrandingBack
RepositoryBack == {"undoModels", "undoModelsBack"} \cup ModelsBack
Finalizing == {"health", "dropPrevious", "clean", "complete"}

\* Which command may be at work under which status of the file, and what the
\* file and the command know of each other.
Phases ==
  /\ pc \in {"import", "publish"} => file.status = "none"
  /\ pc \in {"wait", "begin"} => file.status = "prepared"
  /\ pc \in Staged \cup {"stage"} => file.status = "applying" /\ mem.status = "applying"
  /\ pc \in Finalizing => file.status = "applied"
  /\ pc \in Undoing \cup Finalizing /\ file.status = "applied" => mem = file
  /\ file.status \in {"none", "prepared"} =>
       /\ pc \in {"idle", "import", "publish", "wait", "begin", "lift"} \cup BrandingBack
       /\ ~mem.staged /\ ~mem.rollback /\ ~file.staged /\ ~file.rollback
       /\ mem.status # "applied"
       /\ db["current"].content = "old"
       /\ \A d \in Dirs : dirs[d].live \in {Old, {}} /\ dirs[d].previous = {}
  /\ file.status = "applied" => file.staged /\ file.rollback
  /\ pc \in Undoing /\ mem.status = "applied" => mem.staged /\ mem.rollback

\* Until it is done, apply has lost nothing: each directory is in place or
\* aside, and so is the database.
NothingLost ==
  /\ pc \in Staged => mem.staged /\ dirs["repository"].staged
  /\ pc \in Moving => mem.rollback
  /\ pc \in Staged \ {"record", "backup"} => secrets.backup = "full"
  /\ pc \in {"stage", "record", "backup", "blockCurrent", "blockTemporary", "renameOut"}
       => db["current"].content = "old"
  /\ pc \in {"renameIn", "allow"} \cup Moving => db["previous"].content = "old"
  /\ pc = "stage" => \A d \in Dirs : dirs[d].live \in {Old, {}} /\ dirs[d].previous = {}
  /\ pc \in Unmoved => InPlace("repository")
  /\ pc = "moveOut" => dirs["repository"].live \cup dirs["repository"].previous = Was("repository")
  /\ pc \in RepositoryAside => Aside("repository")
  /\ pc \in Unmoved \cup {"moveOut", "moveIn", "modelsOut"} => InPlace("models")
  /\ pc \in ModelsAside => Aside("models")
  /\ pc \in Unmoved \cup {"moveOut", "moveIn", "modelsOut", "modelsIn", "brandingOut"} => InPlace("branding")
  /\ pc \in BrandingAside => Aside("branding")

\* All that a rollback needs.
Whole(had) ==
  /\ db["previous"].content = "old"
  /\ \A d \in Dirs : dirs[d].previous = IF d \in had THEN Old ELSE {}
  /\ dirs["repository"].staged
  /\ secrets.backup = "full"

\* Once applied it stays whole as long as there is a "previous" database,
\* however many rollbacks or finalisations have been begun meanwhile.
KeptWhole ==
  /\ file.status = "applied" /\ Exists("previous") => Whole(file.had)
  /\ pc \in {"clean", "complete"} => ~Exists("previous")
  /\ file.status = "applied" /\ pc \in Undoing \ DatabaseAway => ~Exists("previous")

\* A rollback of what was applied has brought back what is behind it and finds
\* the rest as apply left it.
BroughtBack ==
  pc \in Undoing /\ mem.status = "applied" =>
    /\ pc \in DatabaseAway /\ Exists("previous") => Whole(mem.had)
    /\ pc \notin DatabaseAway => db["current"].content = "old" /\ secrets.backup = "full"
    /\ pc \notin DatabaseAway \cup {"undoAllow"} => db["current"].open
    /\ pc \in DirectoriesAway => Aside("repository") /\ dirs["repository"].staged
    /\ pc = "undoMoveBack" => dirs["repository"].live \cup dirs["repository"].previous = Was("repository")
    /\ pc \in RepositoryBack => dirs["repository"].live = Was("repository")
    /\ pc \in DirectoriesAway \cup {"undoMoveBack", "undoModels", "undoModelsBack"} => Aside("models")
    /\ pc = "undoModelsBack" => dirs["models"].live = {}
    /\ pc \in ModelsBack => dirs["models"].live = Was("models")
    /\ pc \in DirectoriesAway \cup {"undoMoveBack", "undoModels", "undoModelsBack",
                                    "undoBranding", "undoBrandingBack"} => Aside("branding")
    /\ pc = "undoBrandingBack" => dirs["branding"].live = {}
    /\ pc \in BrandingBack => dirs["branding"].live = Was("branding")
    /\ pc = "undone" => secrets.live = "old"

RollbackInv == Phases /\ NothingLost /\ KeptWhole /\ BroughtBack

LEMMA OldIsSomething == Old # {}
<1>1. <<"old", Git>> \in Old
  BY RestoreAssumption DEF Old
<1> QED BY <1>1

\* A state written with the status it has is written as it is.
LEMMA WrittenAsItIs ==
  ASSUME mem \in States, Write(mem.status)
  PROVE  mem' = mem /\ file' = mem
<1>1. [mem EXCEPT !.status = mem.status] = mem
  BY DEF States
<1> QED BY <1>1 DEF Write

LEMMA ThrownIntoRollback == pc \in Applying \cup {"health"} => Thrown = UndoFrom(mem)
  BY DEF Thrown, Applying, Undoing

\* A directory with nothing aside is moved aside whole.
LEMMA MovedAway ==
  ASSUME dirs \in [Dirs -> Directory], NEW d \in Dirs, dirs[d].previous = {}, MoveAway(d)
  PROVE  dirs'[d].previous = dirs[d].live /\ \A e \in Dirs \ {d} : dirs'[e] = dirs[e]
<1>1. CASE dirs[d].live = {}
  BY <1>1 DEF MoveAway
<1>2. CASE dirs[d].live # {}
  BY <1>2 DEF MoveAway, Directory
<1> QED BY <1>1, <1>2

LEMMA RollbackInit == Init => RollbackInv
<1> SUFFICES ASSUME Init PROVE RollbackInv
  OBVIOUS
<1>1. /\ pc = "idle" /\ mem = file
      /\ file = [status |-> "none", staged |-> FALSE, had |-> {}, rollback |-> FALSE]
  BY DEF Init
<1>2. db["current"].content = "old"
  BY DEF Init, Databases
<1>3. \A d \in Dirs : dirs[d].live \in {Old, {}} /\ dirs[d].previous = {}
  BY DEF Init
<1>4. Phases
  BY <1>1, <1>2, <1>3 DEF Phases, Undoing, Finalizing, Staged, Unmoved, RepositoryAside, ModelsAside,
     BrandingAside
<1>5. NothingLost
  BY <1>1 DEF NothingLost, Staged, Moving, Unmoved, RepositoryAside, ModelsAside, BrandingAside
<1>6. KeptWhole /\ BroughtBack
  BY <1>1 DEF KeptWhole, BroughtBack, Undoing
<1> QED BY <1>4, <1>5, <1>6 DEF RollbackInv

\* Each conjunct is preserved, one step per action.
LEMMA PhasesStep == ASSUME TypeOK, Phases, NothingLost, [Next]_vars PROVE Phases'
<1> USE DEF TypeOK, States, Statuses, Dirs, Plain, Databases, Exists, Go, Phases, NothingLost,
           Staged, Moving, Unmoved, RepositoryAside, ModelsAside, BrandingAside, Undoing,
           Finalizing, DatabaseAway, DirectoriesAway, RepositoryBack, ModelsBack, BrandingBack
<1>1. CASE PrepareStarts
  BY <1>1 DEF PrepareStarts
<1>2. CASE PrepareImports
  BY <1>2 DEF PrepareImports
<1>3. CASE PreparePublishes
  BY <1>3 DEF PreparePublishes, Write
<1>4. CASE ApplyStarts
  BY <1>4 DEF ApplyStarts
<1>5. CASE WaitEnds
  BY <1>5 DEF WaitEnds
<1>6. CASE WaitTimesOut
  BY <1>6 DEF WaitTimesOut
<1>7. CASE ApplyBegins
  BY <1>7 DEF ApplyBegins, Write
<1>8. CASE StageDirectories
  BY <1>8 DEF StageDirectories
<1>9. CASE RecordPaths
  BY <1>9, WrittenAsItIs DEF RecordPaths
<1>10. CASE BackupSecrets
  BY <1>10 DEF BackupSecrets
<1>11. CASE SwapDatabase
  BY <1>11 DEF SwapDatabase, Block, Rename, Absent
<1>12. CASE SwapReturns
  BY <1>12 DEF SwapReturns, Allow
<1>13. CASE NoteRollback
  BY <1>13, WrittenAsItIs DEF NoteRollback
<1>14. CASE ActivateMount
  BY <1>14 DEF ActivateMount
<1>15. CASE ActivatePlain
  BY <1>15 DEF ActivatePlain, MoveAway, MoveInto
<1>16. CASE ActivateSecrets
  BY <1>16 DEF ActivateSecrets
<1>17. CASE ApplyEnds
  BY <1>17 DEF ApplyEnds, Write
<1>18. CASE RollbackStarts
  BY <1>18 DEF RollbackStarts, UndoFrom
<1>19. CASE UndoDatabase
  BY <1>19 DEF UndoDatabase, Block, Rename, Absent, Allow, Drop, AfterDatabase, UndoFrom
<1>20. CASE UndoMount
  BY <1>20 DEF UndoMount
<1>21. CASE UndoPlain
  BY <1>21 DEF UndoPlain, Delete, MoveBack
<1>22. CASE UndoSecrets
  BY <1>22 DEF UndoSecrets
<1>23. CASE UndoEnds
  BY <1>23 DEF UndoEnds, Write
<1>24. CASE Lift
  BY <1>24 DEF Lift
<1>25. CASE FinalizeStarts
  BY <1>25 DEF FinalizeStarts
<1>26. CASE HealthPasses
  BY <1>26 DEF HealthPasses
<1>27. CASE HealthFails
  BY <1>27 DEF HealthFails, UndoFrom
<1>28. CASE FinalizeDrops
  BY <1>28 DEF FinalizeDrops, Drop, Absent
<1>29. CASE FinalizeCleans
  BY <1>29 DEF FinalizeCleans
<1>30. CASE FinalizeEnds
  BY <1>30 DEF FinalizeEnds, Write
<1>31. CASE Error
  <2>1. CASE mem' = mem
    <3> USE <1>31, <2>1
    <3>1. CASE pc \in Applying \cup {"health"}
      <4>1. pc' \in {"undoBlockCurrent", "undoSecrets", "undoDelete", "undoModels"}
        BY <3>1, ThrownIntoRollback, UndoFromStep DEF Error
      <4>2. (~mem.rollback /\ ~mem.staged) => pc' = "undoSecrets"
        BY <3>1, ThrownIntoRollback DEF Error, UndoFrom
      <4>3. UNCHANGED <<mem, file, db, dirs>>
        BY <3>1 DEF Error, Broken, Applying
      <4> QED BY <3>1, <4>1, <4>2, <4>3 DEF Applying
    <3>2. CASE pc \in Undoing
      BY <3>2 DEF Error, Broken, Thrown, Applying
    <3>3. CASE pc \notin Applying \cup {"health"} \cup Undoing
      BY <3>3 DEF Error, Broken, Thrown
    <3> QED BY <3>1, <3>2, <3>3
  <2>2. CASE pc = "begin" /\ mem' = [mem EXCEPT !.status = "applying"]
    BY <1>31, <2>2 DEF Error, Broken, Thrown, UndoFrom, Applying
  <2>3. CASE pc = "done" /\ mem' = [mem EXCEPT !.status = "applied"]
    BY <1>31, <2>3 DEF Error, Broken, Thrown, UndoFrom, Applying
  <2> QED BY <1>31, <2>1, <2>2, <2>3 DEF Error, Broken
<1>32. CASE Refused
  BY <1>32 DEF Refused, Thrown, UndoFrom, Applying, Missing
<1>33. CASE Crash
  BY <1>33 DEF Crash
<1>34. CASE System
  BY <1>34 DEF System, TickBegins, TickDispatches, TickEnds, JobArrives, JobBegins, JobEnds,
              RunSettles, recovery
<1>35. CASE UNCHANGED vars
  BY <1>35 DEF vars
<1> QED BY <1>1, <1>2, <1>3, <1>4, <1>5, <1>6, <1>7, <1>8, <1>9, <1>10, <1>11, <1>12, <1>13, <1>14,
       <1>15, <1>16, <1>17, <1>18, <1>19, <1>20, <1>21, <1>22, <1>23, <1>24, <1>25, <1>26, <1>27,
       <1>28, <1>29, <1>30, <1>31, <1>32, <1>33, <1>34, <1>35 DEF Next, Apply, Rollback, Finalize

LEMMA NothingLostStep == ASSUME TypeOK, Phases, NothingLost, [Next]_vars PROVE NothingLost'
<1> USE DEF TypeOK, States, Statuses, Dirs, Plain, Databases, Exists, Go, Phases, NothingLost,
           InPlace, Aside, Was, Staged, Moving, Unmoved, RepositoryAside, ModelsAside,
           BrandingAside, Undoing, Finalizing, DatabaseAway, DirectoriesAway, RepositoryBack,
           ModelsBack, BrandingBack
<1>1. CASE PrepareStarts
  BY <1>1 DEF PrepareStarts
<1>2. CASE PrepareImports
  BY <1>2 DEF PrepareImports
<1>3. CASE PreparePublishes
  BY <1>3 DEF PreparePublishes, Write
<1>4. CASE ApplyStarts
  BY <1>4 DEF ApplyStarts
<1>5. CASE WaitEnds
  BY <1>5 DEF WaitEnds
<1>6. CASE WaitTimesOut
  BY <1>6 DEF WaitTimesOut
<1>7. CASE ApplyBegins
  BY <1>7 DEF ApplyBegins, Write
<1>8. CASE StageDirectories
  <2>1. /\ pc = "stage" /\ pc' = "record" /\ UNCHANGED <<db, secrets>>
        /\ dirs' = [d \in Dirs |-> [dirs[d] EXCEPT !.incoming = New, !.staged = (d = "repository")]]
        /\ mem' = [mem EXCEPT !.staged = TRUE, !.had = {d \in Dirs : dirs[d].live # {}}]
    BY <1>8 DEF StageDirectories
  <2>2. mem'.staged /\ mem'.had = {d \in Dirs : dirs[d].live # {}}
    BY <2>1
  <2>3. \A d \in Dirs : /\ dirs'[d].live = dirs[d].live /\ dirs'[d].previous = dirs[d].previous
                       /\ dirs'[d].staged = (d = "repository")
    BY <2>1
  <2>4. \A d \in Dirs : InPlace(d)'
    BY <2>1, <2>2, <2>3
  <2> QED BY <2>1, <2>2, <2>3, <2>4
<1>9. CASE RecordPaths
  BY <1>9, WrittenAsItIs DEF RecordPaths
<1>10. CASE BackupSecrets
  BY <1>10 DEF BackupSecrets
<1>11. CASE SwapDatabase
  BY <1>11 DEF SwapDatabase, Block, Rename, Absent
<1>12. CASE SwapReturns
  BY <1>12 DEF SwapReturns, Allow
<1>13. CASE NoteRollback
  BY <1>13, WrittenAsItIs DEF NoteRollback
<1>14. CASE ActivateMount
  <2> DEFINE r == dirs["repository"]
  <2>1. CASE pc = "moveOut" /\ pc' = "moveOut"
    <3>1. PICK x \in r.live :
            dirs' = [dirs EXCEPT !["repository"].live = @ \ {x}, !["repository"].previous = @ \cup {x}]
      BY <1>14, <2>1 DEF ActivateMount
    <3>2. dirs'["repository"].live \cup dirs'["repository"].previous = r.live \cup r.previous
      BY <3>1
    <3>3. /\ dirs'["repository"].staged = r.staged
          /\ dirs'["models"] = dirs["models"] /\ dirs'["branding"] = dirs["branding"]
      BY <3>1
    <3>4. UNCHANGED <<db, mem, secrets>>
      BY <1>14 DEF ActivateMount
    <3> QED BY <2>1, <3>2, <3>3, <3>4
  <2>2. CASE pc = "moveIn" /\ pc' = "moveIn"
    <3>1. PICK x \in r.incoming :
            dirs' = [dirs EXCEPT !["repository"].incoming = @ \ {x}, !["repository"].live = @ \cup {x}]
      BY <1>14, <2>2 DEF ActivateMount
    <3>2. /\ dirs'["repository"].staged = r.staged /\ dirs'["repository"].previous = r.previous
          /\ dirs'["models"] = dirs["models"] /\ dirs'["branding"] = dirs["branding"]
      BY <3>1
    <3>3. UNCHANGED <<db, mem, secrets>>
      BY <1>14 DEF ActivateMount
    <3> QED BY <2>2, <3>2, <3>3
  <2>3. CASE pc = "moveOut" /\ pc' = "moveIn"
    <3>1. r.live = {} /\ UNCHANGED <<db, dirs, mem, secrets>>
      BY <1>14, <2>3 DEF ActivateMount
    <3>2. r.previous = Was("repository")
      BY <2>3, <3>1
    <3> QED BY <2>3, <3>1, <3>2
  <2>4. CASE pc = "moveIn" /\ pc' = "modelsOut"
    BY <1>14, <2>4 DEF ActivateMount
  <2> QED BY <1>14, <2>1, <2>2, <2>3, <2>4 DEF ActivateMount
<1>15. CASE ActivatePlain
  <2>1. CASE Go("modelsOut", "modelsIn") /\ MoveAway("models")
    <3>1. InPlace("models")
      BY <2>1
    <3>2. /\ dirs'["models"].previous = dirs["models"].live
          /\ \A d \in Dirs \ {"models"} : dirs'[d] = dirs[d]
      BY <2>1, <3>1, MovedAway DEF Directory
    <3> QED BY <1>15, <2>1, <3>2 DEF ActivatePlain
  <2>2. CASE Go("modelsIn", "brandingOut") /\ MoveInto("models")
    BY <1>15, <2>2 DEF ActivatePlain, MoveInto
  <2>3. CASE Go("brandingOut", "brandingIn") /\ MoveAway("branding")
    <3>1. InPlace("branding")
      BY <2>3
    <3>2. /\ dirs'["branding"].previous = dirs["branding"].live
          /\ \A d \in Dirs \ {"branding"} : dirs'[d] = dirs[d]
      BY <2>3, <3>1, MovedAway DEF Directory
    <3> QED BY <1>15, <2>3, <3>2 DEF ActivatePlain
  <2>4. CASE Go("brandingIn", "secretsFirst") /\ MoveInto("branding")
    BY <1>15, <2>4 DEF ActivatePlain, MoveInto
  <2> QED BY <1>15, <2>1, <2>2, <2>3, <2>4 DEF ActivatePlain
<1>16. CASE ActivateSecrets
  BY <1>16 DEF ActivateSecrets
<1>17. CASE ApplyEnds
  BY <1>17 DEF ApplyEnds, Write
<1>18. CASE RollbackStarts
  BY <1>18 DEF RollbackStarts, UndoFrom
<1>19. CASE UndoDatabase
  BY <1>19 DEF UndoDatabase, Block, Rename, Absent, Allow, Drop, AfterDatabase, UndoFrom
<1>20. CASE UndoMount
  BY <1>20 DEF UndoMount
<1>21. CASE UndoPlain
  BY <1>21 DEF UndoPlain, Delete, MoveBack
<1>22. CASE UndoSecrets
  BY <1>22 DEF UndoSecrets
<1>23. CASE UndoEnds
  BY <1>23 DEF UndoEnds, Write
<1>24. CASE Lift
  BY <1>24 DEF Lift
<1>25. CASE FinalizeStarts
  BY <1>25 DEF FinalizeStarts
<1>26. CASE HealthPasses
  BY <1>26 DEF HealthPasses
<1>27. CASE HealthFails
  BY <1>27 DEF HealthFails, UndoFrom
<1>28. CASE FinalizeDrops
  BY <1>28 DEF FinalizeDrops, Drop, Absent
<1>29. CASE FinalizeCleans
  BY <1>29 DEF FinalizeCleans
<1>30. CASE FinalizeEnds
  BY <1>30 DEF FinalizeEnds, Write
<1>31. CASE Error
  BY <1>31 DEF Error, Broken, Thrown, UndoFrom, Applying
<1>32. CASE Refused
  BY <1>32 DEF Refused, Thrown, UndoFrom, Applying, Missing
<1>33. CASE Crash
  BY <1>33 DEF Crash
<1>34. CASE System
  BY <1>34 DEF System, TickBegins, TickDispatches, TickEnds, JobArrives, JobBegins, JobEnds,
              RunSettles, recovery
<1>35. CASE UNCHANGED vars
  BY <1>35 DEF vars
<1> QED BY <1>1, <1>2, <1>3, <1>4, <1>5, <1>6, <1>7, <1>8, <1>9, <1>10, <1>11, <1>12, <1>13, <1>14,
       <1>15, <1>16, <1>17, <1>18, <1>19, <1>20, <1>21, <1>22, <1>23, <1>24, <1>25, <1>26, <1>27,
       <1>28, <1>29, <1>30, <1>31, <1>32, <1>33, <1>34, <1>35 DEF Next, Apply, Rollback, Finalize

LEMMA KeptWholeStep == ASSUME TypeOK, Phases, NothingLost, KeptWhole, [Next]_vars PROVE KeptWhole'
<1> USE DEF TypeOK, States, Statuses, Dirs, Plain, Databases, Exists, Go, Phases, NothingLost,
           KeptWhole, Whole, Aside, Was, Staged, Moving, Unmoved, RepositoryAside, ModelsAside,
           BrandingAside, Undoing, Finalizing, DatabaseAway, DirectoriesAway, RepositoryBack,
           ModelsBack, BrandingBack
<1>1. CASE PrepareStarts
  BY <1>1 DEF PrepareStarts
<1>2. CASE PrepareImports
  BY <1>2 DEF PrepareImports
<1>3. CASE PreparePublishes
  BY <1>3 DEF PreparePublishes, Write
<1>4. CASE ApplyStarts
  BY <1>4 DEF ApplyStarts
<1>5. CASE WaitEnds
  BY <1>5 DEF WaitEnds
<1>6. CASE WaitTimesOut
  BY <1>6 DEF WaitTimesOut
<1>7. CASE ApplyBegins
  BY <1>7 DEF ApplyBegins, Write
<1>8. CASE StageDirectories
  BY <1>8 DEF StageDirectories
<1>9. CASE RecordPaths
  BY <1>9, WrittenAsItIs DEF RecordPaths
<1>10. CASE BackupSecrets
  BY <1>10 DEF BackupSecrets
<1>11. CASE SwapDatabase
  BY <1>11 DEF SwapDatabase, Block, Rename, Absent
<1>12. CASE SwapReturns
  BY <1>12 DEF SwapReturns, Allow
<1>13. CASE NoteRollback
  BY <1>13, WrittenAsItIs DEF NoteRollback
<1>14. CASE ActivateMount
  BY <1>14 DEF ActivateMount
<1>15. CASE ActivatePlain
  BY <1>15 DEF ActivatePlain, MoveAway, MoveInto
<1>16. CASE ActivateSecrets
  BY <1>16 DEF ActivateSecrets
<1>17. CASE ApplyEnds
  BY <1>17 DEF ApplyEnds, Write
<1>18. CASE RollbackStarts
  BY <1>18 DEF RollbackStarts, UndoFrom
<1>19. CASE UndoDatabase
  BY <1>19 DEF UndoDatabase, Block, Rename, Absent, Allow, Drop, AfterDatabase, UndoFrom
<1>20. CASE UndoMount
  BY <1>20 DEF UndoMount
<1>21. CASE UndoPlain
  BY <1>21 DEF UndoPlain, Delete, MoveBack
<1>22. CASE UndoSecrets
  BY <1>22 DEF UndoSecrets
<1>23. CASE UndoEnds
  BY <1>23 DEF UndoEnds, Write
<1>24. CASE Lift
  BY <1>24 DEF Lift
<1>25. CASE FinalizeStarts
  BY <1>25 DEF FinalizeStarts
<1>26. CASE HealthPasses
  BY <1>26 DEF HealthPasses
<1>27. CASE HealthFails
  BY <1>27 DEF HealthFails, UndoFrom
<1>28. CASE FinalizeDrops
  BY <1>28 DEF FinalizeDrops, Drop, Absent
<1>29. CASE FinalizeCleans
  BY <1>29 DEF FinalizeCleans
<1>30. CASE FinalizeEnds
  BY <1>30 DEF FinalizeEnds, Write
<1>31. CASE Error
  BY <1>31 DEF Error, Broken, Thrown, UndoFrom, Applying
<1>32. CASE Refused
  BY <1>32 DEF Refused, Thrown, UndoFrom, Applying, Missing
<1>33. CASE Crash
  BY <1>33 DEF Crash
<1>34. CASE System
  BY <1>34 DEF System, TickBegins, TickDispatches, TickEnds, JobArrives, JobBegins, JobEnds,
              RunSettles, recovery
<1>35. CASE UNCHANGED vars
  BY <1>35 DEF vars
<1> QED BY <1>1, <1>2, <1>3, <1>4, <1>5, <1>6, <1>7, <1>8, <1>9, <1>10, <1>11, <1>12, <1>13, <1>14,
       <1>15, <1>16, <1>17, <1>18, <1>19, <1>20, <1>21, <1>22, <1>23, <1>24, <1>25, <1>26, <1>27,
       <1>28, <1>29, <1>30, <1>31, <1>32, <1>33, <1>34, <1>35 DEF Next, Apply, Rollback, Finalize

LEMMA BroughtBackStep == ASSUME TypeOK, Phases, NothingLost, KeptWhole, BroughtBack, [Next]_vars PROVE BroughtBack'
<1> USE DEF TypeOK, States, Statuses, Dirs, Plain, Databases, Exists, Go, Phases, NothingLost,
           KeptWhole, BroughtBack, Whole, Aside, Was, Staged, Moving, Unmoved, RepositoryAside,
           ModelsAside, BrandingAside, Undoing, Finalizing, DatabaseAway, DirectoriesAway,
           RepositoryBack, ModelsBack, BrandingBack
<1>1. CASE PrepareStarts
  BY <1>1 DEF PrepareStarts
<1>2. CASE PrepareImports
  BY <1>2 DEF PrepareImports
<1>3. CASE PreparePublishes
  BY <1>3 DEF PreparePublishes, Write
<1>4. CASE ApplyStarts
  BY <1>4 DEF ApplyStarts
<1>5. CASE WaitEnds
  BY <1>5 DEF WaitEnds
<1>6. CASE WaitTimesOut
  BY <1>6 DEF WaitTimesOut
<1>7. CASE ApplyBegins
  BY <1>7 DEF ApplyBegins, Write
<1>8. CASE StageDirectories
  BY <1>8 DEF StageDirectories
<1>9. CASE RecordPaths
  BY <1>9, WrittenAsItIs DEF RecordPaths
<1>10. CASE BackupSecrets
  BY <1>10 DEF BackupSecrets
<1>11. CASE SwapDatabase
  BY <1>11 DEF SwapDatabase, Block, Rename, Absent
<1>12. CASE SwapReturns
  BY <1>12 DEF SwapReturns, Allow
<1>13. CASE NoteRollback
  BY <1>13, WrittenAsItIs DEF NoteRollback
<1>14. CASE ActivateMount
  BY <1>14 DEF ActivateMount
<1>15. CASE ActivatePlain
  BY <1>15 DEF ActivatePlain, MoveAway, MoveInto
<1>16. CASE ActivateSecrets
  BY <1>16 DEF ActivateSecrets
<1>17. CASE ApplyEnds
  BY <1>17 DEF ApplyEnds, Write
<1>18. CASE RollbackStarts
  BY <1>18 DEF RollbackStarts, UndoFrom
<1>19. CASE UndoDatabase
  BY <1>19 DEF UndoDatabase, Block, Rename, Absent, Allow, Drop, AfterDatabase, UndoFrom
<1>20. CASE UndoMount
  <2> DEFINE r == dirs["repository"]
  <2>1. CASE pc = "undoDelete"
    BY <1>20, <2>1 DEF UndoMount
  <2>2. CASE pc = "undoMoveBack" /\ pc' = "undoMoveBack"
    <3>1. PICK x \in r.previous :
            dirs' = [dirs EXCEPT !["repository"].previous = @ \ {x}, !["repository"].live = @ \cup {x}]
      BY <1>20, <2>2 DEF UndoMount
    <3>2. dirs'["repository"].live \cup dirs'["repository"].previous = r.live \cup r.previous
      BY <3>1
    <3> QED BY <1>20, <2>2, <3>1, <3>2 DEF UndoMount
  <2>3. CASE pc = "undoMoveBack" /\ pc' = "undoModels"
    <3>1. r.previous = {} /\ dirs' = [dirs EXCEPT !["repository"].staged = FALSE]
      BY <1>20, <2>3 DEF UndoMount
    <3>2. \A d \in Dirs : dirs'[d].live = dirs[d].live /\ dirs'[d].previous = dirs[d].previous
      BY <3>1
    <3>3. mem.status = "applied" => r.live = Was("repository")
      BY <2>3, <3>1
    <3> QED BY <1>20, <2>3, <3>2, <3>3 DEF UndoMount
  <2> QED BY <1>20, <2>1, <2>2, <2>3 DEF UndoMount
<1>21. CASE UndoPlain
  <2>1. CASE Go("undoModels", "undoModelsBack") /\ Delete("models")
    BY <1>21, <2>1 DEF UndoPlain, Delete
  <2>2. CASE Go("undoModelsBack", "undoBranding") /\ MoveBack("models")
    <3>1. mem.status = "applied" => dirs["models"].live = {} /\ dirs["models"].previous = Was("models")
      BY <2>2
    <3>2. mem.status = "applied" => dirs'["models"].live = Was("models")
      BY <2>2, <3>1, OldIsSomething DEF MoveBack
    <3>3. dirs'["repository"] = dirs["repository"] /\ dirs'["branding"] = dirs["branding"]
      BY <2>2 DEF MoveBack
    <3> QED BY <1>21, <2>2, <3>1, <3>2, <3>3 DEF UndoPlain
  <2>3. CASE Go("undoBranding", "undoBrandingBack") /\ Delete("branding")
    BY <1>21, <2>3 DEF UndoPlain, Delete
  <2>4. CASE Go("undoBrandingBack", "undoSecrets") /\ MoveBack("branding")
    <3>1. mem.status = "applied" => dirs["branding"].live = {} /\ dirs["branding"].previous = Was("branding")
      BY <2>4
    <3>2. mem.status = "applied" => dirs'["branding"].live = Was("branding")
      BY <2>4, <3>1, OldIsSomething DEF MoveBack
    <3>3. dirs'["repository"] = dirs["repository"] /\ dirs'["models"] = dirs["models"]
      BY <2>4 DEF MoveBack
    <3> QED BY <1>21, <2>4, <3>1, <3>2, <3>3 DEF UndoPlain
  <2> QED BY <1>21, <2>1, <2>2, <2>3, <2>4 DEF UndoPlain
<1>22. CASE UndoSecrets
  BY <1>22 DEF UndoSecrets
<1>23. CASE UndoEnds
  BY <1>23 DEF UndoEnds, Write
<1>24. CASE Lift
  BY <1>24 DEF Lift
<1>25. CASE FinalizeStarts
  BY <1>25 DEF FinalizeStarts
<1>26. CASE HealthPasses
  BY <1>26 DEF HealthPasses
<1>27. CASE HealthFails
  BY <1>27 DEF HealthFails, UndoFrom
<1>28. CASE FinalizeDrops
  BY <1>28 DEF FinalizeDrops, Drop, Absent
<1>29. CASE FinalizeCleans
  BY <1>29 DEF FinalizeCleans
<1>30. CASE FinalizeEnds
  BY <1>30 DEF FinalizeEnds, Write
<1>31. CASE Error
  <2>1. CASE pc = "done" /\ mem' = [mem EXCEPT !.status = "applied"]
    <3>1. pc' = "undoBlockCurrent" /\ mem'.had = mem.had
      BY <1>31, <2>1 DEF Error, Thrown, UndoFrom, Applying
    <3>2. UNCHANGED <<db, dirs, secrets>>
      BY <1>31, <2>1 DEF Error, Broken
    <3>3. Whole(mem.had)
      BY <2>1
    <3> QED BY <3>1, <3>2, <3>3
  <2>2. CASE pc # "done"
    <3>1. CASE pc = "health"
      BY <1>31, <3>1 DEF Error, Broken, Thrown, UndoFrom, Applying
    <3>2. CASE pc \in Applying
      BY <1>31, <2>2, <3>2 DEF Error, Broken, Applying
    <3>3. CASE pc \notin Applying \cup {"health"}
      BY <1>31, <3>3 DEF Error, Thrown
    <3> QED BY <3>1, <3>2, <3>3
  <2> QED BY <1>31, <2>1, <2>2 DEF Error, Broken, Applying
<1>32. CASE Refused
  BY <1>32 DEF Refused, Thrown, UndoFrom, Applying, Missing
<1>33. CASE Crash
  BY <1>33 DEF Crash
<1>34. CASE System
  BY <1>34 DEF System, TickBegins, TickDispatches, TickEnds, JobArrives, JobBegins, JobEnds,
              RunSettles, recovery
<1>35. CASE UNCHANGED vars
  BY <1>35 DEF vars
<1> QED BY <1>1, <1>2, <1>3, <1>4, <1>5, <1>6, <1>7, <1>8, <1>9, <1>10, <1>11, <1>12, <1>13, <1>14,
       <1>15, <1>16, <1>17, <1>18, <1>19, <1>20, <1>21, <1>22, <1>23, <1>24, <1>25, <1>26, <1>27,
       <1>28, <1>29, <1>30, <1>31, <1>32, <1>33, <1>34, <1>35 DEF Next, Apply, Rollback, Finalize

\* A rollback of an applied restore that comes to its end has brought back the
\* database, every directory and the secrets, an earlier attempt that failed or
\* died in the middle notwithstanding (RestoreCoordinator::rollbackState).
THEOREM AppliedIsUndoneWhole == Spec => []AppliedIsUndone
<1>1. TypeOK /\ RollbackInv => AppliedIsUndone
  <2> SUFFICES ASSUME TypeOK, RollbackInv, pc = "undone", mem.status = "applied"
               PROVE  DatabaseAsBefore /\ LiveAsBefore /\ secrets.live = "old"
    BY DEF AppliedIsUndone
  <2> USE DEF RollbackInv, BroughtBack, Undoing, RepositoryBack, ModelsBack, BrandingBack, DatabaseAway
  <2>1. db["current"].content = "old" /\ db["current"].open
    OBVIOUS
  <2>2. DatabaseAsBefore
    BY <2>1 DEF TypeOK, Databases, DatabaseAsBefore
  <2>3. LiveAsBefore
    BY DEF LiveAsBefore, Was, Dirs, Plain
  <2>4. secrets.live = "old"
    OBVIOUS
  <2> QED BY <2>2, <2>3, <2>4
<1>2. TypeOK /\ RollbackInv /\ [Next]_vars => TypeOK' /\ RollbackInv'
  BY TypedStep, PhasesStep, NothingLostStep, KeptWholeStep, BroughtBackStep DEF RollbackInv
<1> QED BY <1>1, <1>2, TypedInit, RollbackInit, PTL DEF Spec
-----------------------------------------------------------------------------
(***************************************************************************)
(* What has been applied belongs together.  apply moves in one thing after *)
(* the other, and writes "applied" when the last one is in; rollback takes *)
(* the restored database out of service before it touches anything else.   *)
(***************************************************************************)

RepositoryIn == {"modelsOut"} \cup ModelsAside
ModelsIn == {"brandingOut"} \cup BrandingAside
BrandingIn == BrandingAside \ {"brandingIn"}

\* What apply has moved in is live, and what it has not is still to come.
MovedIn ==
  /\ pc \in Unmoved \cup {"moveOut"} => dirs["repository"].incoming = New
  /\ pc = "moveIn" => dirs["repository"].live \cup dirs["repository"].incoming = New
  /\ pc \in RepositoryIn => dirs["repository"].live = New
  /\ pc \in Staged \ ModelsIn => dirs["models"].incoming = New
  /\ pc \in ModelsIn => dirs["models"].live = New
  /\ pc \in Staged \ BrandingIn => dirs["branding"].incoming = New
  /\ pc \in BrandingIn => dirs["branding"].live = New
  /\ pc = "done" => secrets.live = "new"

\* Once a rollback has come past its first renaming, the restored database is
\* out of service for good; and nothing follows a finalisation.
TakenOut ==
  /\ file.status = "applied" /\ pc \in Undoing \ {"undoBlockCurrent", "undoBlockPrevious", "undoRenameOut"}
       => db["current"].content # "new"
  /\ file.status = "completed" => pc \in {"lift", "idle"}

TogetherInv == MovedIn /\ TakenOut /\ RestoredTogether

LEMMA TogetherInit == Init => TogetherInv
<1> SUFFICES ASSUME Init PROVE TogetherInv
  OBVIOUS
<1>1. pc = "idle" /\ file.status = "none"
  BY DEF Init
<1>2. MovedIn
  BY <1>1 DEF MovedIn, Staged, Unmoved, RepositoryAside, ModelsAside, BrandingAside, RepositoryIn, ModelsIn,
     BrandingIn
<1>3. TakenOut /\ RestoredTogether
  BY <1>1 DEF TakenOut, RestoredTogether
<1> QED BY <1>2, <1>3 DEF TogetherInv

LEMMA StagedToMoveIn ==
  ASSUME dirs \in [Dirs -> Directory],
         dirs' = [d \in Dirs |-> [dirs[d] EXCEPT !.incoming = New, !.staged = (d = "repository")]]
  PROVE  \A d \in Dirs : dirs'[d].incoming = New
BY DEF Directory

LEMMA MovedInStep == ASSUME TypeOK, Phases, MovedIn, [Next]_vars PROVE MovedIn'
<1> USE DEF TypeOK, States, Statuses, Dirs, Plain, Databases, Exists, Go, Phases, MovedIn, Staged, Moving,
           Unmoved, RepositoryAside, ModelsAside, BrandingAside, RepositoryIn, ModelsIn, BrandingIn,
           Undoing, Finalizing, DatabaseAway, DirectoriesAway, RepositoryBack, ModelsBack, BrandingBack
<1>1. CASE PrepareStarts
  BY <1>1 DEF PrepareStarts
<1>2. CASE PrepareImports
  BY <1>2 DEF PrepareImports
<1>3. CASE PreparePublishes
  BY <1>3 DEF PreparePublishes, Write
<1>4. CASE ApplyStarts
  BY <1>4 DEF ApplyStarts
<1>5. CASE WaitEnds
  BY <1>5 DEF WaitEnds
<1>6. CASE WaitTimesOut
  BY <1>6 DEF WaitTimesOut
<1>7. CASE ApplyBegins
  BY <1>7 DEF ApplyBegins, Write
<1>8. CASE StageDirectories
  <2>1. pc' = "record" /\ \A d \in Dirs : dirs'[d].incoming = New
    BY <1>8, StagedToMoveIn DEF StageDirectories, Directory
  <2> QED BY <2>1
<1>9. CASE RecordPaths
  BY <1>9, WrittenAsItIs DEF RecordPaths
<1>10. CASE BackupSecrets
  BY <1>10 DEF BackupSecrets
<1>11. CASE SwapDatabase
  BY <1>11 DEF SwapDatabase, Block, Rename, Absent
<1>12. CASE SwapReturns
  BY <1>12 DEF SwapReturns, Allow
<1>13. CASE NoteRollback
  BY <1>13, WrittenAsItIs DEF NoteRollback
<1>14. CASE ActivateMount
  <2> DEFINE r == dirs["repository"]
  <2>1. CASE pc = "moveOut" /\ pc' = "moveOut"
    <3>1. PICK x \in r.live :
            dirs' = [dirs EXCEPT !["repository"].live = @ \ {x}, !["repository"].previous = @ \cup {x}]
      BY <1>14, <2>1 DEF ActivateMount
    <3>2. \A d \in Dirs : dirs'[d].incoming = dirs[d].incoming
      BY <3>1
    <3> QED BY <2>1, <3>2
  <2>2. CASE pc = "moveIn" /\ pc' = "moveIn"
    <3>1. PICK x \in r.incoming :
            dirs' = [dirs EXCEPT !["repository"].incoming = @ \ {x}, !["repository"].live = @ \cup {x}]
      BY <1>14, <2>2 DEF ActivateMount
    <3>2. /\ dirs'["repository"].live \cup dirs'["repository"].incoming = r.live \cup r.incoming
          /\ dirs'["models"] = dirs["models"] /\ dirs'["branding"] = dirs["branding"]
      BY <3>1
    <3> QED BY <2>2, <3>2
  <2>3. CASE pc = "moveOut" /\ pc' = "moveIn"
    <3>1. r.live = {} /\ UNCHANGED dirs
      BY <1>14, <2>3 DEF ActivateMount
    <3> QED BY <2>3, <3>1
  <2>4. CASE pc = "moveIn" /\ pc' = "modelsOut"
    <3>1. r.incoming = {} /\ UNCHANGED dirs
      BY <1>14, <2>4 DEF ActivateMount
    <3> QED BY <2>4, <3>1
  <2> QED BY <1>14, <2>1, <2>2, <2>3, <2>4 DEF ActivateMount
<1>15. CASE ActivatePlain
  BY <1>15 DEF ActivatePlain, MoveAway, MoveInto
<1>16. CASE ActivateSecrets
  BY <1>16 DEF ActivateSecrets
<1>17. CASE ApplyEnds
  BY <1>17 DEF ApplyEnds, Write
<1>18. CASE RollbackStarts
  BY <1>18 DEF RollbackStarts, UndoFrom
<1>19. CASE UndoDatabase
  BY <1>19 DEF UndoDatabase, Block, Rename, Absent, Allow, Drop, AfterDatabase, UndoFrom
<1>20. CASE UndoMount
  BY <1>20 DEF UndoMount
<1>21. CASE UndoPlain
  BY <1>21 DEF UndoPlain, Delete, MoveBack
<1>22. CASE UndoSecrets
  BY <1>22 DEF UndoSecrets
<1>23. CASE UndoEnds
  BY <1>23 DEF UndoEnds, Write
<1>24. CASE Lift
  BY <1>24 DEF Lift
<1>25. CASE FinalizeStarts
  BY <1>25 DEF FinalizeStarts
<1>26. CASE HealthPasses
  BY <1>26 DEF HealthPasses
<1>27. CASE HealthFails
  BY <1>27 DEF HealthFails, UndoFrom
<1>28. CASE FinalizeDrops
  BY <1>28 DEF FinalizeDrops, Drop, Absent
<1>29. CASE FinalizeCleans
  BY <1>29 DEF FinalizeCleans
<1>30. CASE FinalizeEnds
  BY <1>30 DEF FinalizeEnds, Write
<1>31. CASE Error
  BY <1>31 DEF Error, Broken, Thrown, UndoFrom, Applying
<1>32. CASE Refused
  BY <1>32 DEF Refused, Thrown, UndoFrom, Applying, Missing
<1>33. CASE Crash
  BY <1>33 DEF Crash
<1>34. CASE System
  BY <1>34 DEF System, TickBegins, TickDispatches, TickEnds, JobArrives, JobBegins, JobEnds,
              RunSettles, recovery
<1>35. CASE UNCHANGED vars
  BY <1>35 DEF vars
<1> QED BY <1>1, <1>2, <1>3, <1>4, <1>5, <1>6, <1>7, <1>8, <1>9, <1>10, <1>11, <1>12,
       <1>13, <1>14, <1>15, <1>16, <1>17, <1>18, <1>19, <1>20, <1>21, <1>22, <1>23, <1>24,
       <1>25, <1>26, <1>27, <1>28, <1>29, <1>30, <1>31, <1>32, <1>33, <1>34, <1>35 DEF
       Next, Apply, Rollback, Finalize

LEMMA TakenOutStep == ASSUME TypeOK, Phases, KeptWhole, BroughtBack, TakenOut, [Next]_vars PROVE TakenOut'
<1> USE DEF TypeOK, States, Statuses, Dirs, Plain, Databases, Exists, Go, Phases, KeptWhole, BroughtBack, Whole, TakenOut, Staged, Moving,
           Unmoved, RepositoryAside, ModelsAside, BrandingAside, RepositoryIn, ModelsIn, BrandingIn,
           Undoing, Finalizing, DatabaseAway, DirectoriesAway, RepositoryBack, ModelsBack, BrandingBack
<1>1. CASE PrepareStarts
  BY <1>1 DEF PrepareStarts
<1>2. CASE PrepareImports
  BY <1>2 DEF PrepareImports
<1>3. CASE PreparePublishes
  BY <1>3 DEF PreparePublishes, Write
<1>4. CASE ApplyStarts
  BY <1>4 DEF ApplyStarts
<1>5. CASE WaitEnds
  BY <1>5 DEF WaitEnds
<1>6. CASE WaitTimesOut
  BY <1>6 DEF WaitTimesOut
<1>7. CASE ApplyBegins
  BY <1>7 DEF ApplyBegins, Write
<1>8. CASE StageDirectories
  BY <1>8 DEF StageDirectories
<1>9. CASE RecordPaths
  BY <1>9, WrittenAsItIs DEF RecordPaths
<1>10. CASE BackupSecrets
  BY <1>10 DEF BackupSecrets
<1>11. CASE SwapDatabase
  BY <1>11 DEF SwapDatabase, Block, Rename, Absent
<1>12. CASE SwapReturns
  BY <1>12 DEF SwapReturns, Allow
<1>13. CASE NoteRollback
  BY <1>13, WrittenAsItIs DEF NoteRollback
<1>14. CASE ActivateMount
  BY <1>14 DEF ActivateMount
<1>15. CASE ActivatePlain
  BY <1>15 DEF ActivatePlain, MoveAway, MoveInto
<1>16. CASE ActivateSecrets
  BY <1>16 DEF ActivateSecrets
<1>17. CASE ApplyEnds
  BY <1>17 DEF ApplyEnds, Write
<1>18. CASE RollbackStarts
  BY <1>18 DEF RollbackStarts, UndoFrom
<1>19. CASE UndoDatabase
  BY <1>19 DEF UndoDatabase, Block, Rename, Absent, Allow, Drop, AfterDatabase, UndoFrom
<1>20. CASE UndoMount
  BY <1>20 DEF UndoMount
<1>21. CASE UndoPlain
  BY <1>21 DEF UndoPlain, Delete, MoveBack
<1>22. CASE UndoSecrets
  BY <1>22 DEF UndoSecrets
<1>23. CASE UndoEnds
  BY <1>23 DEF UndoEnds, Write
<1>24. CASE Lift
  BY <1>24 DEF Lift
<1>25. CASE FinalizeStarts
  BY <1>25 DEF FinalizeStarts
<1>26. CASE HealthPasses
  BY <1>26 DEF HealthPasses
<1>27. CASE HealthFails
  BY <1>27 DEF HealthFails, UndoFrom
<1>28. CASE FinalizeDrops
  BY <1>28 DEF FinalizeDrops, Drop, Absent
<1>29. CASE FinalizeCleans
  BY <1>29 DEF FinalizeCleans
<1>30. CASE FinalizeEnds
  BY <1>30 DEF FinalizeEnds, Write
<1>31. CASE Error
  BY <1>31 DEF Error, Broken, Thrown, UndoFrom, Applying
<1>32. CASE Refused
  BY <1>32 DEF Refused, Thrown, UndoFrom, Applying, Missing
<1>33. CASE Crash
  BY <1>33 DEF Crash
<1>34. CASE System
  BY <1>34 DEF System, TickBegins, TickDispatches, TickEnds, JobArrives, JobBegins, JobEnds,
              RunSettles, recovery
<1>35. CASE UNCHANGED vars
  BY <1>35 DEF vars
<1> QED BY <1>1, <1>2, <1>3, <1>4, <1>5, <1>6, <1>7, <1>8, <1>9, <1>10, <1>11, <1>12,
       <1>13, <1>14, <1>15, <1>16, <1>17, <1>18, <1>19, <1>20, <1>21, <1>22, <1>23, <1>24,
       <1>25, <1>26, <1>27, <1>28, <1>29, <1>30, <1>31, <1>32, <1>33, <1>34, <1>35 DEF
       Next, Apply, Rollback, Finalize

LEMMA TogetherStep == ASSUME TypeOK, Phases, MovedIn, TakenOut, TakenOut', RestoredTogether, [Next]_vars PROVE RestoredTogether'
<1> USE DEF TypeOK, States, Statuses, Dirs, Plain, Databases, Exists, Go, Phases, MovedIn, TakenOut, RestoredTogether, Staged, Moving,
           Unmoved, RepositoryAside, ModelsAside, BrandingAside, RepositoryIn, ModelsIn, BrandingIn,
           Undoing, Finalizing, DatabaseAway, DirectoriesAway, RepositoryBack, ModelsBack, BrandingBack
<1>1. CASE PrepareStarts
  BY <1>1 DEF PrepareStarts
<1>2. CASE PrepareImports
  BY <1>2 DEF PrepareImports
<1>3. CASE PreparePublishes
  BY <1>3 DEF PreparePublishes, Write
<1>4. CASE ApplyStarts
  BY <1>4 DEF ApplyStarts
<1>5. CASE WaitEnds
  BY <1>5 DEF WaitEnds
<1>6. CASE WaitTimesOut
  BY <1>6 DEF WaitTimesOut
<1>7. CASE ApplyBegins
  BY <1>7 DEF ApplyBegins, Write
<1>8. CASE StageDirectories
  BY <1>8 DEF StageDirectories
<1>9. CASE RecordPaths
  BY <1>9, WrittenAsItIs DEF RecordPaths
<1>10. CASE BackupSecrets
  BY <1>10 DEF BackupSecrets
<1>11. CASE SwapDatabase
  BY <1>11 DEF SwapDatabase, Block, Rename, Absent
<1>12. CASE SwapReturns
  BY <1>12 DEF SwapReturns, Allow
<1>13. CASE NoteRollback
  BY <1>13, WrittenAsItIs DEF NoteRollback
<1>14. CASE ActivateMount
  BY <1>14 DEF ActivateMount
<1>15. CASE ActivatePlain
  BY <1>15 DEF ActivatePlain, MoveAway, MoveInto
<1>16. CASE ActivateSecrets
  BY <1>16 DEF ActivateSecrets
<1>17. CASE ApplyEnds
  BY <1>17 DEF ApplyEnds, Write
<1>18. CASE RollbackStarts
  BY <1>18 DEF RollbackStarts, UndoFrom
<1>19. CASE UndoDatabase
  <2>1. pc \in Undoing /\ UNCHANGED <<file, dirs, secrets>>
    BY <1>19 DEF UndoDatabase
  <2>2. CASE pc' \in Undoing \ {"undoBlockCurrent", "undoBlockPrevious", "undoRenameOut"}
    BY <2>1, <2>2
  <2>3. CASE pc' \in {"undoBlockPrevious", "undoRenameOut"}
    BY <1>19, <2>1, <2>3 DEF UndoDatabase, Block, AfterDatabase, UndoFrom
  <2> QED BY <1>19, <2>2, <2>3 DEF UndoDatabase, AfterDatabase, UndoFrom
<1>20. CASE UndoMount
  BY <1>20 DEF UndoMount
<1>21. CASE UndoPlain
  BY <1>21 DEF UndoPlain, Delete, MoveBack
<1>22. CASE UndoSecrets
  BY <1>22 DEF UndoSecrets
<1>23. CASE UndoEnds
  BY <1>23 DEF UndoEnds, Write
<1>24. CASE Lift
  BY <1>24 DEF Lift
<1>25. CASE FinalizeStarts
  BY <1>25 DEF FinalizeStarts
<1>26. CASE HealthPasses
  BY <1>26 DEF HealthPasses
<1>27. CASE HealthFails
  BY <1>27 DEF HealthFails, UndoFrom
<1>28. CASE FinalizeDrops
  BY <1>28 DEF FinalizeDrops, Drop, Absent
<1>29. CASE FinalizeCleans
  BY <1>29 DEF FinalizeCleans
<1>30. CASE FinalizeEnds
  BY <1>30 DEF FinalizeEnds, Write
<1>31. CASE Error
  BY <1>31 DEF Error, Broken, Thrown, UndoFrom, Applying
<1>32. CASE Refused
  BY <1>32 DEF Refused, Thrown, UndoFrom, Applying, Missing
<1>33. CASE Crash
  BY <1>33 DEF Crash
<1>34. CASE System
  BY <1>34 DEF System, TickBegins, TickDispatches, TickEnds, JobArrives, JobBegins, JobEnds,
              RunSettles, recovery
<1>35. CASE UNCHANGED vars
  BY <1>35 DEF vars
<1> QED BY <1>1, <1>2, <1>3, <1>4, <1>5, <1>6, <1>7, <1>8, <1>9, <1>10, <1>11, <1>12,
       <1>13, <1>14, <1>15, <1>16, <1>17, <1>18, <1>19, <1>20, <1>21, <1>22, <1>23, <1>24,
       <1>25, <1>26, <1>27, <1>28, <1>29, <1>30, <1>31, <1>32, <1>33, <1>34, <1>35 DEF
       Next, Apply, Rollback, Finalize

\* While the restored database is in service, so are all the restored directories
\* and secrets, whatever rollback or finalisation has been begun and cut short:
\* for every set of entries and any number of errors and deaths
\* (RestoreCoordinator::apply, rollbackState, finalize).
THEOREM AppliedStaysTogether == Spec => []RestoredTogether
<1>1. TypeOK /\ RollbackInv /\ TogetherInv /\ [Next]_vars => TogetherInv'
  BY MovedInStep, TakenOutStep, TogetherStep DEF RollbackInv, TogetherInv
<1>2. TypeOK /\ RollbackInv /\ [Next]_vars => TypeOK' /\ RollbackInv'
  BY TypedStep, PhasesStep, NothingLostStep, KeptWholeStep, BroughtBackStep DEF RollbackInv
<1>3. TogetherInv => RestoredTogether
  BY DEF TogetherInv
<1> QED BY <1>1, <1>2, <1>3, TypedInit, RollbackInit, TogetherInit, PTL DEF Spec
=============================================================================
