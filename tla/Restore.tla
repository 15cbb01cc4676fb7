------------------------------ MODULE Restore ------------------------------
(***************************************************************************)
(* The restore of a full backup: app/Services/RestoreCoordinator.php, run  *)
(* by `artisan netkeep:restore prepare|apply|rollback|finalize` in the     *)
(* recovery container, beside the scheduler and the queue worker, which    *)
(* stop while the maintenance marker exists (docker/scheduler.sh and       *)
(* docker/worker.sh).                                                      *)
(*                                                                         *)
(* The module follows one operation (one uuid) and one command at a time.  *)
(* Every rename, every SQL statement and every write of the state file is  *)
(* a step of its own, so that an error or the death of the process may     *)
(* fall between any two of them.  A database has a content of the old or   *)
(* the new generation; so has every entry of a directory.                  *)
(***************************************************************************)
EXTENDS Naturals, FiniteSets

CONSTANTS
  Entries,    \* what the Git repository's directory holds
  Git,        \* the entry the health check looks for
  Faults,     \* what may go wrong: a subset of {"error", "crash"}
  MaxFaults   \* bound: how often it does

ASSUME RestoreAssumption ==
  /\ Git \in Entries
  /\ Faults \subseteq {"error", "crash"}
  /\ MaxFaults \in Nat

VARIABLES
  pc,        \* the next step of the command in progress, "idle" without one
  mem,       \* the command's $state
  file,      \* state.json
  marker,    \* the maintenance marker, and with it artisan's "down"
  db,        \* the databases by name
  dirs,      \* the directories of the installation
  secrets,   \* the keys and tokens, and the copy made of them
  approved,  \* history: a finalisation has passed its health check
  faults,    \* how much went wrong so far
  tick,      \* schedule:run has settled what it is going to run
  run,       \* the collection run of the old database
  job        \* a job of its queue

recovery == <<pc, mem, file, marker, db, dirs, secrets, approved>>
system == <<tick, run, job>>
vars == <<pc, mem, file, marker, db, dirs, secrets, approved, faults, tick, run, job>>

Databases == {"current", "temporary", "previous", "failed"}
Plain == {"models", "branding"}
Dirs == Plain \cup {"repository"}
Old == {"old"} \X Entries
New == {"new"} \X Entries
Statuses == {"none", "prepared", "applying", "applied", "completed", "rolled_back"}
States == [status : Statuses, staged : BOOLEAN, had : SUBSET Dirs, rollback : BOOLEAN]

Steps ==
  { "idle", "import", "publish",
    "wait", "begin", "stage", "record", "backup", "blockCurrent", "blockTemporary",
    "renameOut", "renameIn", "allow", "note", "moveOut", "moveIn", "modelsOut", "modelsIn",
    "brandingOut", "brandingIn", "secretsFirst", "secretsLast", "done",
    "undoBlockCurrent", "undoBlockPrevious", "undoRenameOut", "undoRenameIn", "undoAllow",
    "undoDrop", "undoDelete", "undoMoveBack", "undoModels", "undoModelsBack",
    "undoBranding", "undoBrandingBack", "undoSecrets", "undoSecretsLast", "undone", "lift",
    "health", "dropPrevious", "clean", "complete" }

\* Every variable has a value of its kind; no state file says "failed", the
\* status that rollback also accepts.
TypeOK ==
  /\ pc \in Steps
  /\ mem \in States /\ file \in States
  /\ marker \in BOOLEAN /\ approved \in BOOLEAN
  /\ db \in [Databases -> [content : {"none", "part", "old", "new"}, open : BOOLEAN]]
  /\ dirs \in [Dirs -> [live : SUBSET (Old \cup New), incoming : SUBSET New,
                        previous : SUBSET (Old \cup New), staged : BOOLEAN]]
  /\ secrets \in [live : {"old", "mixed", "new"}, backup : {"none", "partial", "full"}]
  /\ faults \in 0..MaxFaults
  /\ tick \in BOOLEAN
  /\ run \in {"none", "dispatched", "running"}
  /\ job \in {"none", "queued", "reserved"}

Absent == [content |-> "none", open |-> FALSE]
Exists(n) == db[n].content # "none"

Init ==
  /\ pc = "idle" /\ marker = FALSE /\ approved = FALSE /\ faults = 0
  /\ file = [status |-> "none", staged |-> FALSE, had |-> {}, rollback |-> FALSE]
  /\ mem = file
  /\ db = [n \in Databases |-> IF n = "current" THEN [content |-> "old", open |-> TRUE]
                                                ELSE Absent]
  /\ \E present \in SUBSET Plain :
       dirs = [d \in Dirs |-> [live |-> IF d \in present \cup {"repository"} THEN Old ELSE {},
                               incoming |-> {}, previous |-> {}, staged |-> FALSE]]
  /\ secrets = [live |-> "old", backup |-> "none"]
  /\ tick = FALSE /\ run = "none" /\ job = "none"

-----------------------------------------------------------------------------
(* Steps a command is made of.  Go(p, q) is a step from p to q.              *)

Go(p, q) == pc = p /\ pc' = q /\ UNCHANGED <<system, faults>>

\* writeState: the state file is replaced by one rename.
Write(status) ==
  /\ mem' = [mem EXCEPT !.status = status]
  /\ file' = mem'

Block(n) == Exists(n) /\ db' = [db EXCEPT ![n].open = FALSE]
Rename(a, b) ==
  /\ Exists(a) /\ ~Exists(b)
  /\ db' = [db EXCEPT ![a] = Absent, ![b] = db[a]]
Allow(n) == Exists(n) /\ db' = [db EXCEPT ![n].open = TRUE]
Drop(n) == db' = [db EXCEPT ![n] = Absent]

\* Mutation: the directories go back before the database.
UndoFrom_DirectoriesFirst(state) ==
  IF state.staged THEN IF dirs["repository"].staged THEN "undoDelete" ELSE "undoModels"
  ELSE IF state.rollback THEN "undoBlockCurrent" ELSE "undoSecrets"

\* rollbackState looks first whether the database was changed.
UndoFrom(state) ==
  IF state.rollback THEN "undoBlockCurrent"
  ELSE IF ~state.staged THEN "undoSecrets"
  ELSE IF dirs["repository"].staged THEN "undoDelete" ELSE "undoModels"

-----------------------------------------------------------------------------
(* prepare                                                                   *)

PrepareStarts ==
  /\ file.status = "none" /\ Go("idle", "import")
  /\ db' = [db EXCEPT !["temporary"] = [content |-> "part", open |-> TRUE]]
  /\ UNCHANGED <<mem, file, marker, dirs, secrets, approved>>

PrepareImports ==
  /\ Go("import", "publish")
  /\ db' = [db EXCEPT !["temporary"].content = "new"]
  /\ UNCHANGED <<mem, file, marker, dirs, secrets, approved>>

PreparePublishes ==
  /\ Go("publish", "idle") /\ Write("prepared")
  /\ UNCHANGED <<marker, db, dirs, secrets, approved>>

-----------------------------------------------------------------------------
(* apply                                                                     *)

ApplyStarts ==
  /\ file.status = "prepared" /\ Go("idle", "wait")
  /\ mem' = file /\ marker' = TRUE
  /\ UNCHANGED <<file, db, dirs, secrets, approved>>

\* Mutation: only the runs are waited for.
Quiet_IgnoresJobs == run = "none"
Quiet == run = "none" /\ job # "reserved"

WaitEnds ==
  /\ Quiet /\ Go("wait", "begin")
  /\ UNCHANGED <<mem, file, marker, db, dirs, secrets, approved>>

\* Three hundred seconds have passed.
WaitTimesOut ==
  /\ ~Quiet /\ Go("wait", "idle")
  /\ UNCHANGED <<mem, file, marker, db, dirs, secrets, approved>>

ApplyBegins ==
  /\ Go("begin", "stage") /\ Write("applying")
  /\ UNCHANGED <<marker, db, dirs, secrets, approved>>

StageDirectories ==
  /\ Go("stage", "record")
  /\ dirs' = [d \in Dirs |-> [dirs[d] EXCEPT !.incoming = New, !.staged = (d = "repository")]]
  /\ mem' = [mem EXCEPT !.staged = TRUE,
                        !.had = {d \in Dirs : dirs[d].live # {}}]
  /\ UNCHANGED <<file, marker, db, secrets, approved>>

RecordPaths ==
  /\ Go("record", "backup") /\ Write(mem.status)
  /\ UNCHANGED <<marker, db, dirs, secrets, approved>>

BackupSecrets ==
  /\ Go("backup", "blockCurrent")
  /\ secrets' = [secrets EXCEPT !.backup = "full"]
  /\ UNCHANGED <<mem, file, marker, db, dirs, approved>>

SwapDatabase ==
  /\ \/ Go("blockCurrent", "blockTemporary") /\ Block("current")
     \/ Go("blockTemporary", "renameOut") /\ Block("temporary")
     \/ Go("renameOut", "renameIn") /\ Rename("current", "previous")
     \/ Go("renameIn", "allow") /\ Rename("temporary", "current")
  /\ UNCHANGED <<mem, file, marker, dirs, secrets, approved>>

SwapReturns ==
  /\ Go("allow", "note") /\ Allow("current")
  /\ mem' = [mem EXCEPT !.rollback = TRUE]
  /\ UNCHANGED <<file, marker, dirs, secrets, approved>>

NoteRollback ==
  /\ Go("note", "moveOut") /\ Write(mem.status)
  /\ UNCHANGED <<marker, db, dirs, secrets, approved>>

\* activateMountContents: entry by entry, first out and then in.
ActivateMount ==
  LET r == dirs["repository"] IN
  /\ \/ \E x \in r.live :
          /\ Go("moveOut", "moveOut")
          /\ dirs' = [dirs EXCEPT !["repository"].live = @ \ {x},
                                  !["repository"].previous = @ \cup {x}]
     \/ r.live = {} /\ Go("moveOut", "moveIn") /\ UNCHANGED dirs
     \/ \E x \in r.incoming :
          /\ Go("moveIn", "moveIn")
          /\ dirs' = [dirs EXCEPT !["repository"].incoming = @ \ {x},
                                  !["repository"].live = @ \cup {x}]
     \/ r.incoming = {} /\ Go("moveIn", "modelsOut") /\ UNCHANGED dirs
  /\ UNCHANGED <<mem, file, marker, db, secrets, approved>>

\* The other directories are renamed as a whole, when they exist.
MoveAway(d) ==
  dirs' = IF dirs[d].live = {} THEN dirs
          ELSE [dirs EXCEPT ![d].previous = dirs[d].live, ![d].live = {}]
MoveInto(d) == dirs' = [dirs EXCEPT ![d].live = dirs[d].incoming, ![d].incoming = {}]

ActivatePlain ==
  /\ \/ Go("modelsOut", "modelsIn") /\ MoveAway("models")
     \/ Go("modelsIn", "brandingOut") /\ MoveInto("models")
     \/ Go("brandingOut", "brandingIn") /\ MoveAway("branding")
     \/ Go("brandingIn", "secretsFirst") /\ MoveInto("branding")
  /\ UNCHANGED <<mem, file, marker, db, secrets, approved>>

\* Six files, one after the other.
ActivateSecrets ==
  /\ \/ Go("secretsFirst", "secretsLast") /\ secrets' = [secrets EXCEPT !.live = "mixed"]
     \/ Go("secretsLast", "done") /\ secrets' = [secrets EXCEPT !.live = "new"]
  /\ UNCHANGED <<mem, file, marker, db, dirs, approved>>

ApplyEnds ==
  /\ Go("done", "idle") /\ Write("applied")
  /\ UNCHANGED <<marker, db, dirs, secrets, approved>>

Apply ==
  \/ ApplyStarts \/ WaitEnds \/ WaitTimesOut \/ ApplyBegins \/ StageDirectories \/ RecordPaths
  \/ BackupSecrets \/ SwapDatabase \/ SwapReturns \/ NoteRollback \/ ActivateMount
  \/ ActivatePlain \/ ActivateSecrets \/ ApplyEnds

-----------------------------------------------------------------------------
(* rollback, and rollbackState, which a failing apply or finalize enters too *)

RollbackStarts ==
  /\ file.status \in {"applied", "applying"}
  /\ Go("idle", UndoFrom(file)) /\ mem' = file
  /\ UNCHANGED <<file, marker, db, dirs, secrets, approved>>

AfterDatabase == UndoFrom([mem EXCEPT !.rollback = FALSE])

UndoDatabase ==
  /\ \/ Go("undoBlockCurrent", "undoBlockPrevious") /\ Block("current")
     \/ Go("undoBlockPrevious", "undoRenameOut") /\ Block("previous")
     \/ Go("undoRenameOut", "undoRenameIn") /\ Rename("current", "failed")
     \/ Go("undoRenameIn", "undoAllow") /\ Rename("previous", "current")
     \/ Go("undoAllow", "undoDrop") /\ Allow("current")
     \/ Go("undoDrop", AfterDatabase) /\ Drop("failed")
  /\ UNCHANGED <<mem, file, marker, dirs, secrets, approved>>

\* restoreDirectories deletes what is live, moved or not, and moves back.
UndoMount ==
  LET r == dirs["repository"] IN
  /\ \/ /\ Go("undoDelete", "undoMoveBack")
        /\ dirs' = [dirs EXCEPT !["repository"].live = {}, !["repository"].incoming = {}]
     \/ \E x \in r.previous :
          /\ Go("undoMoveBack", "undoMoveBack")
          /\ dirs' = [dirs EXCEPT !["repository"].previous = @ \ {x},
                                  !["repository"].live = @ \cup {x}]
     \/ /\ r.previous = {} /\ Go("undoMoveBack", "undoModels")
        /\ dirs' = [dirs EXCEPT !["repository"].staged = FALSE]
  /\ UNCHANGED <<mem, file, marker, db, secrets, approved>>

Delete(d) == dirs' = [dirs EXCEPT ![d].live = {}]
MoveBack(d) ==
  dirs' = IF d \in mem.had /\ dirs[d].previous # {}
          THEN [dirs EXCEPT ![d].live = dirs[d].previous, ![d].previous = {}]
          ELSE dirs

\* Mutation: the branding directory is not restored.
UndoPlain_SkipsBranding ==
  /\ \/ Go("undoModels", "undoModelsBack") /\ Delete("models")
     \/ Go("undoModelsBack", "undoSecrets") /\ MoveBack("models")
  /\ UNCHANGED <<mem, file, marker, db, secrets, approved>>

UndoPlain ==
  /\ \/ Go("undoModels", "undoModelsBack") /\ Delete("models")
     \/ Go("undoModelsBack", "undoBranding") /\ MoveBack("models")
     \/ Go("undoBranding", "undoBrandingBack") /\ Delete("branding")
     \/ Go("undoBrandingBack", "undoSecrets") /\ MoveBack("branding")
  /\ UNCHANGED <<mem, file, marker, db, secrets, approved>>

UndoSecrets ==
  /\ \/ secrets.backup = "none" /\ Go("undoSecrets", "undone") /\ UNCHANGED secrets
     \/ /\ secrets.backup = "full" /\ Go("undoSecrets", "undoSecretsLast")
        /\ secrets' = [secrets EXCEPT !.live = "mixed"]
     \/ Go("undoSecretsLast", "undone") /\ secrets' = [secrets EXCEPT !.live = "old"]
  /\ UNCHANGED <<mem, file, marker, db, dirs, approved>>

\* Mutation: the end of a rollback is written as a failure.
UndoEnds_Failed ==
  /\ Go("undone", "lift") /\ Write("failed")
  /\ UNCHANGED <<marker, db, dirs, secrets, approved>>

UndoEnds ==
  /\ Go("undone", "lift") /\ Write("rolled_back")
  /\ UNCHANGED <<marker, db, dirs, secrets, approved>>

Lift ==
  /\ Go("lift", "idle") /\ marker' = FALSE
  /\ UNCHANGED <<mem, file, db, dirs, secrets, approved>>

Rollback ==
  RollbackStarts \/ UndoDatabase \/ UndoMount \/ UndoPlain \/ UndoSecrets \/ UndoEnds \/ Lift

-----------------------------------------------------------------------------
(* finalize                                                                  *)

\* Mutation: the previous state goes before the health check.
FinalizeStarts_Unchecked ==
  /\ file.status = "applied" /\ Go("idle", "dropPrevious") /\ mem' = file
  /\ UNCHANGED <<file, marker, db, dirs, secrets, approved>>

FinalizeStarts ==
  /\ file.status = "applied" /\ Go("idle", "health") /\ mem' = file
  /\ UNCHANGED <<file, marker, db, dirs, secrets, approved>>

Healthy == db["current"].open /\ \E x \in dirs["repository"].live : x[2] = Git

HealthPasses ==
  /\ Healthy /\ Go("health", "dropPrevious") /\ approved' = TRUE
  /\ UNCHANGED <<mem, file, marker, db, dirs, secrets>>

HealthFails ==
  /\ ~Healthy /\ Go("health", UndoFrom(mem))
  /\ UNCHANGED <<mem, file, marker, db, dirs, secrets, approved>>

FinalizeDrops ==
  /\ Go("dropPrevious", "clean")
  /\ IF mem.rollback THEN Drop("previous") ELSE UNCHANGED db
  /\ UNCHANGED <<mem, file, marker, dirs, secrets, approved>>

FinalizeCleans ==
  /\ Go("clean", "complete")
  /\ dirs' = IF mem.staged
             THEN [d \in Dirs |-> [dirs[d] EXCEPT !.previous = {}, !.staged = FALSE]]
             ELSE dirs
  /\ secrets' = [secrets EXCEPT !.backup = "none"]
  /\ UNCHANGED <<mem, file, marker, db, approved>>

FinalizeEnds ==
  /\ Go("complete", "lift") /\ Write("completed")
  /\ UNCHANGED <<marker, db, dirs, secrets, approved>>

Finalize ==
  FinalizeStarts \/ HealthPasses \/ HealthFails \/ FinalizeDrops \/ FinalizeCleans \/ FinalizeEnds

-----------------------------------------------------------------------------
(* What goes wrong                                                           *)

Applying ==
  { "begin", "stage", "record", "backup", "blockCurrent", "blockTemporary", "renameOut",
    "renameIn", "allow", "note", "moveOut", "moveIn", "modelsOut", "modelsIn", "brandingOut",
    "brandingIn", "secretsFirst", "secretsLast", "done" }
Undoing ==
  { "undoBlockCurrent", "undoBlockPrevious", "undoRenameOut", "undoRenameIn", "undoAllow",
    "undoDrop", "undoDelete", "undoMoveBack", "undoModels", "undoModelsBack",
    "undoBranding", "undoBrandingBack", "undoSecrets", "undoSecretsLast", "undone" }

\* Where an exception leads: apply and finalize roll back, rollbackState
\* lifts the maintenance and nothing else, and what is outside their try
\* blocks just ends the command.
Thrown ==
  CASE pc \in Applying \cup {"health"} -> UndoFrom(mem)
    [] pc \in Undoing -> "lift"
    [] OTHER -> "idle"

\* $state is changed before it is written, and a failing copy of the secrets
\* or of a dump leaves a part.
Broken ==
  /\ mem' = CASE pc = "begin" -> [mem EXCEPT !.status = "applying"]
              [] pc = "done" -> [mem EXCEPT !.status = "applied"]
              [] OTHER -> mem
  /\ \/ pc = "backup" /\ secrets' = [secrets EXCEPT !.backup = "partial"]
     \/ UNCHANGED secrets
  /\ db' = IF pc = "import" THEN [db EXCEPT !["temporary"] = Absent] ELSE db
  /\ UNCHANGED <<file, marker, dirs, approved, system>>

Error ==
  /\ "error" \in Faults /\ faults < MaxFaults /\ faults' = faults + 1
  /\ pc # "idle" /\ pc' = Thrown
  /\ Broken

\* PostgreSQL refuses to alter what does not exist; an incomplete copy of the
\* secrets cannot be read back.
Missing ==
  \/ pc = "undoBlockCurrent" /\ ~Exists("current")
  \/ pc = "undoBlockPrevious" /\ ~Exists("previous")
  \/ pc = "undoSecrets" /\ secrets.backup = "partial"

Refused ==
  /\ Missing /\ pc' = Thrown
  /\ UNCHANGED <<mem, file, marker, db, dirs, secrets, approved, faults, system>>

Crash ==
  /\ "crash" \in Faults /\ faults < MaxFaults /\ faults' = faults + 1
  /\ pc # "idle" /\ pc' = "idle"
  /\ UNCHANGED <<mem, file, marker, db, dirs, secrets, approved, system>>

-----------------------------------------------------------------------------
(* The scheduler and the worker, as far as the old database is concerned.    *)

OldInService == db["current"].content = "old" /\ db["current"].open

\* scheduler.sh starts schedule:run without the marker; what is due is
\* settled then, and runs one command after the other.
TickBegins ==
  /\ ~marker /\ ~tick /\ tick' = TRUE
  /\ UNCHANGED <<recovery, faults, run, job>>

TickDispatches ==
  /\ tick /\ OldInService /\ run \in {"none", "dispatched"} /\ job = "none"
  /\ run' = "dispatched" /\ job' = "queued"
  /\ UNCHANGED <<recovery, faults, tick>>

TickEnds ==
  /\ tick /\ tick' = FALSE
  /\ UNCHANGED <<recovery, faults, run, job>>

\* Any other job: a backup, a notification, a diagnostic asked for in the panel.
JobArrives ==
  /\ ~marker /\ OldInService /\ job = "none" /\ job' = "queued"
  /\ UNCHANGED <<recovery, faults, tick, run>>

\* worker.sh and queue:work take no job in maintenance, and end the one they
\* have.
JobBegins ==
  /\ ~marker /\ OldInService /\ job = "queued" /\ job' = "reserved"
  /\ UNCHANGED <<recovery, faults, tick, run>>

JobEnds ==
  /\ OldInService /\ job = "reserved" /\ job' = "none"
  /\ run' \in IF run = "dispatched" THEN {"running", "none", "dispatched"} ELSE {run}
  /\ UNCHANGED <<recovery, faults, tick>>

\* The run is settled by Oxidized's event, which the application refuses in
\* maintenance, or by the tick that fails it.
RunSettles ==
  /\ OldInService /\ run = "running" /\ (~marker \/ tick) /\ run' = "none"
  /\ UNCHANGED <<recovery, faults, tick, job>>

System ==
  TickBegins \/ TickDispatches \/ TickEnds \/ JobArrives \/ JobBegins \/ JobEnds \/ RunSettles

Next ==
  \/ PrepareStarts \/ PrepareImports \/ PreparePublishes
  \/ Apply \/ Rollback \/ Finalize
  \/ Error \/ Refused \/ Crash
  \/ System

Spec == Init /\ [][Next]_vars

\* A command goes on while it can, and so do the scheduler and the worker.
FairSpec ==
  /\ Spec
  /\ WF_vars(pc # "idle" /\ (Apply \/ Rollback \/ Finalize))
  /\ WF_vars(TickEnds) /\ WF_vars(JobBegins) /\ WF_vars(JobEnds) /\ WF_vars(RunSettles)

-----------------------------------------------------------------------------
(* Properties                                                                *)

LiveAsBefore ==
  mem.staged => \A d \in Dirs : dirs[d].live = IF d \in mem.had THEN Old ELSE {}
DatabaseAsBefore == db["current"] = [content |-> "old", open |-> TRUE]

\* Whatever fails, dies or is tried again, the database that was in service
\* exists under some name until a finalisation has passed its health check
\* (swapDatabase, rollbackState, finalize).
OldDatabaseKept == ~approved => \E n \in Databases : db[n].content = "old"

\* A rollback of a restore that had been applied comes to its end only with
\* the database, every directory and the secrets as they were, an earlier
\* attempt that failed in the middle notwithstanding (rollbackState).
AppliedIsUndone ==
  pc = "undone" /\ mem.status = "applied"
    => DatabaseAsBefore /\ LiveAsBefore /\ secrets.live = "old"

\* No job of the old database is in progress when that database gives up its
\* name: the worker stops on the marker and apply waits for it
\* (waitForQuiescence, docker/worker.sh).
JobsAreDone == db["previous"].content = "old" => job # "reserved"

\* What has been applied belongs together: while the restored database is in
\* service, so are all the restored directories and secrets, whatever rollback
\* or finalisation has been begun and cut short, and when finalize has ended
\* (apply, rollbackState, finalize).  The old database may be finalised beside
\* restored directories: finalize trusts the status that half a rollback left.
RestoredTogether ==
  file.status \in {"applied", "completed"} /\ db["current"].content = "new"
    => (\A d \in Dirs : dirs[d].live = New) /\ secrets.live = "new"

\* "preserva banco e diretorios atuais": what was live is live again after a
\* rollback.  The code deletes directories it has not moved yet.
DirectoriesAreBack == pc = "lift" /\ mem.status = "rolled_back" => LiveAsBefore

\* "espera filas e coletas em execucao terminarem": a collection that runs when
\* apply begins to wait comes to its end.  In maintenance nothing can end it.
RunsFinish == (pc = "wait" /\ run = "running") ~> (run = "none")
=============================================================================
