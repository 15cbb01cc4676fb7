---------------------------- MODULE UpdateExchange ----------------------------
(***************************************************************************)
(* A software update.  The web application creates an operation, the queue *)
(* worker prepares it (a backup, the release's files, the request), the    *)
(* updater, which has the Docker socket and no network, carries it out,    *)
(* and the scheduler's reconciler brings its reports back.  Application    *)
(* and updater share nothing but files: a directory of requests, a queue   *)
(* of markers and one status file per operation.                           *)
(*                                                                         *)
(* app/Services/Update*.php, app/Jobs/PrepareUpdateOperation.php and       *)
(* updater/main.go.  Versions are numbers in the order of their            *)
(* precedence.  The snapshots of the database and their pruning are left   *)
(* out.                                                                    *)
(***************************************************************************)
EXTENDS Naturals

CONSTANTS
  MaxOps,     \* bound: update operations
  Versions,   \* the releases
  First,      \* the one installed
  Faults,     \* which accidents the instance explores
  MaxFaults   \* bound: how many of them

Ops == 1..MaxOps
FaultNames == {"web", "job", "worker", "disk", "updater", "scheduler"}

ASSUME UpdateAssumption ==
  /\ MaxOps \in Nat /\ MaxFaults \in Nat
  /\ Versions \subseteq Nat /\ First \in Versions
  /\ Faults \subseteq FaultNames

VARIABLES
  op,         \* update_operations
  job,        \* PrepareUpdateOperation: the job of each operation
  published,  \* the operations whose request directory is complete
  marker,     \* the marker in queue/, under its own name or as .processing
  file,       \* status/<uuid>.json
  rec,        \* the reconciler: the file it is at, what it has read
  updater,    \* the updater: its step, operation, and the error it will report
  compose,    \* the version of compose.yaml
  previous,   \* the one the updater has kept aside
  app,        \* the version the containers run
  mishaps,    \* history: what happened to an operation that nothing repairs
  faults      \* accidents so far

vars == <<op, job, published, marker, file, rec, updater, compose, previous, app, mishaps, faults>>
web == <<op, job>>
installation == <<compose, previous, app>>

Progress == {"queued", "backing_up", "validating", "downloading", "applying", "restarting"}
Results == {"succeeded", "failed", "recovery_required"}
Reports == {"validating", "downloading", "applying", "restarting"} \cup Results
Running == {"backup", "assets", "marker", "ending"}
Mishaps == {"undispatched", "published", "abandoned", "unwritten", "unread"}

\* Every variable has a value of its kind.
TypeOK ==
  /\ op \in [Ops -> [status : Progress \cup Results \cup {"none"}, from : Versions, to : Versions]]
  /\ job \in [Ops -> {"none", "queued", "dead", "over"} \cup Running]
  /\ published \in SUBSET Ops
  /\ marker \in [Ops -> {"none", "queued", "processing", "removed"}]
  /\ file \in [Ops -> Reports \cup {"none"}]
  /\ rec \in [pc : {"idle", "write", "delete"}, op : Ops \cup {0},
              seen : Progress \cup Results \cup {"none"}, read : Reports \cup {"none"}]
  /\ rec.pc # "idle" => rec.op \in Ops /\ rec.read \in Reports
  /\ updater \in [pc : {"idle", "check", "verify", "pull", "publish", "apply", "recover",
                        "report", "succeed", "leave", "end"},
                  op : Ops \cup {0}, result : Results \cup {"none"}]
  /\ updater.pc # "idle" => updater.op \in Ops
  /\ updater.pc = "end" => updater.result \in Results
  /\ compose \in Versions /\ previous \in Versions /\ app \in Versions
  /\ mishaps \in [Ops -> SUBSET Mishaps]
  /\ faults \in 0..MaxFaults

Active(o) == op[o].status \in Progress
NoFile == [pc |-> "idle", op |-> 0, seen |-> "none", read |-> "none"]
NoRequest == [pc |-> "idle", op |-> 0, result |-> "none"]

Init ==
  /\ op = [o \in Ops |-> [status |-> "none", from |-> First, to |-> First]]
  /\ job = [o \in Ops |-> "none"]
  /\ published = {}
  /\ marker = [o \in Ops |-> "none"]
  /\ file = [o \in Ops |-> "none"]
  /\ rec = NoFile
  /\ updater = NoRequest
  /\ compose = First /\ previous = First /\ app = First
  /\ mishaps = [o \in Ops |-> {}]
  /\ faults = 0

Accident(kind) == kind \in Faults /\ faults < MaxFaults /\ faults' = faults + 1
Mishap(o, kind) == mishaps' = [mishaps EXCEPT ![o] = @ \cup {kind}]
NoMishap == UNCHANGED <<mishaps, faults>>
Status(o, status) == op' = [op EXCEPT ![o].status = status]

-----------------------------------------------------------------------------
(* UpdateOperationService                                                    *)

\* Mutation: an operation is created beside an active one.
Create_Beside(o, to) ==
  /\ op[o].status = "none" /\ \A p \in 1..(o - 1) : op[p].status # "none"
  /\ to > app
  /\ op' = [op EXCEPT ![o] = [status |-> "queued", from |-> app, to |-> to]]
  /\ UNCHANGED <<job, published, marker, file, rec, updater, installation>> /\ NoMishap

\* One lock and one transaction; the release known may be any newer one.
Create(o, to) ==
  /\ op[o].status = "none" /\ \A p \in 1..(o - 1) : op[p].status # "none"
  /\ \A p \in Ops : ~Active(p)
  /\ to > app
  /\ op' = [op EXCEPT ![o] = [status |-> "queued", from |-> app, to |-> to]]
  /\ UNCHANGED <<job, published, marker, file, rec, updater, installation>> /\ NoMishap

\* The job is queued after the transaction, and only by the request that
\* created the operation.
Dispatch(o) ==
  /\ op[o].status = "queued" /\ job[o] = "none"
  /\ job' = [job EXCEPT ![o] = "queued"]
  /\ UNCHANGED <<op, published, marker, file, rec, updater, installation>> /\ NoMishap

WebDies(o) ==
  /\ op[o].status = "queued" /\ job[o] = "none"
  /\ Accident("web") /\ Mishap(o, "undispatched")
  /\ job' = [job EXCEPT ![o] = "over"]
  /\ UNCHANGED <<op, published, marker, file, rec, updater, installation>>

-----------------------------------------------------------------------------
(* PrepareUpdateOperation, on the one queue worker                           *)

JobStarts(o) ==
  /\ job[o] = "queued" /\ \A p \in Ops : job[p] \notin Running
  /\ job' = [job EXCEPT ![o] = "backup"] /\ Status(o, "backing_up")
  /\ UNCHANGED <<published, marker, file, rec, updater, installation>> /\ NoMishap

JobBacksUp(o) ==
  /\ job[o] = "backup"
  /\ job' = [job EXCEPT ![o] = "assets"] /\ Status(o, "validating")
  /\ UNCHANGED <<published, marker, file, rec, updater, installation>> /\ NoMishap

\* UpdateExchangeService::prepare: the directory is completed under another
\* name and renamed, and then the marker is written.
JobFetches(o) ==
  /\ job[o] = "assets"
  /\ job' = [job EXCEPT ![o] = "marker"] /\ published' = published \cup {o}
  /\ UNCHANGED <<op, marker, file, rec, updater, installation>> /\ NoMishap

JobPublishes(o) ==
  /\ job[o] = "marker"
  /\ job' = [job EXCEPT ![o] = "ending"] /\ marker' = [marker EXCEPT ![o] = "queued"]
  /\ UNCHANGED <<op, published, file, rec, updater, installation>> /\ NoMishap

JobEnds(o) ==
  /\ job[o] = "ending" /\ job' = [job EXCEPT ![o] = "over"]
  /\ UNCHANGED <<op, published, marker, file, rec, updater, installation>> /\ NoMishap

\* An exception, or the job's timeout: failed().  A marker may have been
\* created and not written.
JobErrors(o) ==
  /\ job[o] \in {"backup", "assets", "marker"} /\ Accident("job")
  /\ job' = [job EXCEPT ![o] = "over"] /\ Status(o, "failed")
  /\ \/ UNCHANGED <<marker, mishaps>>
     \/ /\ job[o] = "marker" /\ Mishap(o, "published")
        /\ marker' = [marker EXCEPT ![o] = "queued"]
  /\ UNCHANGED <<published, file, rec, updater, installation>>

WorkerDies(o) ==
  /\ job[o] \in Running /\ Accident("worker")
  /\ job' = [job EXCEPT ![o] = "dead"]
  /\ UNCHANGED <<op, published, marker, file, rec, updater, installation, mishaps>>

\* Mutation: the job is dropped.
JobComesBack_Dropped(o) ==
  /\ job[o] = "dead" /\ job' = [job EXCEPT ![o] = "over"]
  /\ UNCHANGED <<op, published, marker, file, rec, updater, installation>> /\ NoMishap

\* The queue hands the job out again after retry_after; it has been attempted
\* once, so it fails, whatever has become of the operation.
JobComesBack(o) ==
  /\ job[o] = "dead" /\ \A p \in Ops : job[p] \notin Running
  /\ job' = [job EXCEPT ![o] = "over"] /\ Status(o, "failed")
  /\ IF marker[o] = "none" THEN UNCHANGED mishaps ELSE Mishap(o, "published")
  /\ UNCHANGED <<published, marker, file, rec, updater, installation, faults>>

Worker ==
  \E o \in Ops : \/ JobStarts(o) \/ JobBacksUp(o) \/ JobFetches(o) \/ JobPublishes(o)
                 \/ JobEnds(o) \/ JobComesBack(o)

-----------------------------------------------------------------------------
(* The updater.  It is at one operation at a time.                           *)

At(p, o) == updater.pc = p /\ updater.op = o
Goes(p) == updater' = [updater EXCEPT !.pc = p]
Reports_(o, status) == file' = [file EXCEPT ![o] = status]

Takes(o) ==
  /\ updater.pc = "idle" /\ marker[o] = "queued"
  /\ marker' = [marker EXCEPT ![o] = "processing"]
  /\ updater' = [pc |-> "check", op |-> o, result |-> "none"]
  /\ UNCHANGED <<web, published, file, rec, installation>> /\ NoMishap

\* Mutation: the version the request starts from is not compared.
SourceMatches_Unchecked(o) == o \in published /\ op[o].to > op[o].from
SourceMatches(o) == o \in published /\ op[o].to > op[o].from /\ op[o].from = app

Checks(o) ==
  /\ At("check", o) /\ SourceMatches(o)
  /\ Goes("verify") /\ Reports_(o, "validating")
  /\ UNCHANGED <<web, published, marker, rec, installation>> /\ NoMishap

\* Manifest, signature, digest, ports and the candidate's services.
Verifies(o) ==
  /\ At("verify", o) /\ Goes("pull") /\ Reports_(o, "downloading")
  /\ UNCHANGED <<web, published, marker, rec, installation>> /\ NoMishap

Pulls(o) ==
  /\ At("pull", o) /\ Goes("publish") /\ Reports_(o, "applying")
  /\ previous' = compose
  /\ UNCHANGED <<web, published, marker, rec, compose, app>> /\ NoMishap

Publishes(o) ==
  /\ At("publish", o) /\ Goes("apply") /\ compose' = op[o].to
  /\ UNCHANGED <<web, published, marker, file, rec, previous, app>> /\ NoMishap

Applies(o) ==
  /\ At("apply", o) /\ Goes("report") /\ app' = compose
  /\ UNCHANGED <<web, published, marker, file, rec, compose, previous>> /\ NoMishap

\* The containers are up only in part, or not healthy in time; the manifest
\* says whether going back is safe.
ApplyFails(o) ==
  /\ At("apply", o) /\ app' \in {app, compose}
  /\ \/ Goes("recover")
     \/ updater' = [updater EXCEPT !.pc = "end", !.result = "recovery_required"]
  /\ UNCHANGED <<web, published, marker, file, rec, compose, previous>> /\ NoMishap

\* Mutation: the containers are not brought back.
Recovers_FileOnly(o) ==
  /\ At("recover", o)
  /\ updater' = [updater EXCEPT !.pc = "end", !.result = "failed"]
  /\ compose' = previous
  /\ UNCHANGED <<web, published, marker, file, rec, previous, app>> /\ NoMishap

Recovers(o) ==
  /\ At("recover", o)
  /\ updater' = [updater EXCEPT !.pc = "end", !.result = "failed"]
  /\ compose' = previous /\ app' = previous
  /\ UNCHANGED <<web, published, marker, file, rec, previous>> /\ NoMishap

RecoverFails(o) ==
  /\ At("recover", o)
  /\ updater' = [updater EXCEPT !.pc = "end", !.result = "recovery_required"]
  /\ compose' \in {compose, previous} /\ app' \in {app, previous}
  /\ UNCHANGED <<web, published, marker, file, rec, previous>> /\ NoMishap

Restarts(o) ==
  /\ At("report", o) /\ Goes("succeed") /\ Reports_(o, "restarting")
  /\ UNCHANGED <<web, published, marker, rec, installation>> /\ NoMishap

Succeeds(o) ==
  /\ At("succeed", o) /\ Goes("leave") /\ Reports_(o, "succeeded")
  /\ UNCHANGED <<web, published, marker, rec, installation>> /\ NoMishap

\* The updater's own container is brought up last.  When that replaces the
\* updater, .processing stays.
Leaves(o) ==
  /\ At("leave", o) /\ updater' = NoRequest
  /\ marker' \in {marker, [marker EXCEPT ![o] = "removed"]}
  /\ UNCHANGED <<web, published, file, rec, installation>> /\ NoMishap

\* Mutation: the state an error leads to is not set.
Fails_NoState(o) ==
  /\ \E p \in {"check", "verify", "pull", "publish"} : At(p, o)
  /\ Goes("end")
  /\ UNCHANGED <<web, published, marker, file, rec, installation>> /\ NoMishap

\* Any error before compose.yaml is replaced.
Fails(o) ==
  /\ \E p \in {"check", "verify", "pull", "publish"} : At(p, o)
  /\ updater' = [updater EXCEPT !.pc = "end", !.result = "failed"]
  /\ UNCHANGED <<web, published, marker, file, rec, installation>> /\ NoMishap

\* A status that cannot be written is an error like any other, even when the
\* update is in place.
FailsToReport(o) ==
  /\ At("report", o) \/ At("succeed", o)
  /\ Accident("disk") /\ Mishap(o, "unwritten")
  /\ updater' = [updater EXCEPT !.pc = "end", !.result = "failed"]
  /\ UNCHANGED <<web, published, marker, file, rec, installation>>

Ends(o) ==
  /\ At("end", o) /\ updater' = NoRequest
  /\ marker' = [marker EXCEPT ![o] = "removed"]
  /\ \/ Reports_(o, updater.result) /\ NoMishap
     \/ Accident("disk") /\ Mishap(o, "unwritten") /\ UNCHANGED file
  /\ UNCHANGED <<web, published, rec, installation>>

\* Whoever dies leaves .processing, which nobody looks for.
UpdaterDies(o) ==
  /\ updater.pc # "idle" /\ updater.op = o /\ Accident("updater") /\ updater' = NoRequest
  /\ IF updater.pc = "leave" THEN UNCHANGED mishaps ELSE Mishap(o, "abandoned")
  /\ compose' \in IF updater.pc = "recover" THEN {compose, previous} ELSE {compose}
  /\ app' \in CASE updater.pc = "apply" -> {app, compose}
                [] updater.pc = "recover" -> {app, previous}
                [] OTHER -> {app}
  /\ UNCHANGED <<web, published, marker, file, rec, previous>>

Update(o) ==
  \/ Takes(o) \/ Checks(o) \/ Verifies(o) \/ Pulls(o) \/ Publishes(o)
  \/ Applies(o) \/ ApplyFails(o) \/ Recovers(o) \/ RecoverFails(o)
  \/ Restarts(o) \/ Succeeds(o) \/ Leaves(o) \/ Fails(o) \/ Ends(o)

Updater == \E o \in Ops : Update(o)

-----------------------------------------------------------------------------
(* UpdateStatusReconciler                                                    *)

Rank(status) ==
  CASE status = "queued" -> 0 [] status = "backing_up" -> 1 [] status = "validating" -> 2
    [] status = "downloading" -> 3 [] status = "applying" -> 4 [] OTHER -> 5
TransitionAllowed(current, next) == next \in Results \/ Rank(next) >= Rank(current)

Reads(o) ==
  /\ rec.pc = "idle" /\ file[o] # "none"
  /\ rec' = [pc |-> IF Active(o) /\ TransitionAllowed(op[o].status, file[o])
                    THEN "write" ELSE "delete",
             op |-> o, seen |-> op[o].status, read |-> file[o]]
  /\ UNCHANGED <<web, published, marker, file, updater, installation>> /\ NoMishap

\* A column that does not differ from the row as it was read is not written.
Writes(o) ==
  /\ rec.pc = "write" /\ rec.op = o
  /\ IF rec.read = rec.seen THEN UNCHANGED op ELSE Status(o, rec.read)
  /\ rec' = [rec EXCEPT !.pc = "delete"]
  /\ UNCHANGED <<job, published, marker, file, updater, installation>> /\ NoMishap

\* The file of that name, whatever the updater has put there since.
Deletes(o) ==
  /\ rec.pc = "delete" /\ rec.op = o
  /\ file' = [file EXCEPT ![o] = "none"]
  /\ rec' = NoFile
  /\ IF Active(o) /\ file[o] \in Results THEN Mishap(o, "unread") ELSE UNCHANGED mishaps
  /\ UNCHANGED <<web, published, marker, updater, installation, faults>>

\* The update itself replaces the scheduler's container.
SchedulerDies ==
  /\ rec.pc # "idle" /\ Accident("scheduler")
  /\ rec' = NoFile
  /\ UNCHANGED <<web, published, marker, file, updater, installation, mishaps>>

Reconciler == \E o \in Ops : Reads(o) \/ Writes(o) \/ Deletes(o)

-----------------------------------------------------------------------------
Accidents ==
  \/ SchedulerDies
  \/ \E o \in Ops : \/ WebDies(o) \/ JobErrors(o) \/ WorkerDies(o)
                    \/ UpdaterDies(o) \/ FailsToReport(o)

Next ==
  \/ \E o \in Ops : Dispatch(o) \/ \E to \in Versions : Create(o, to)
  \/ Worker \/ Updater \/ Reconciler \/ Accidents

Spec == Init /\ [][Next]_vars

\* The request that creates an operation goes on, the worker serves its queue,
\* the updater polls every two seconds, the reconciler runs every ten.
FairSpec ==
  /\ Spec
  /\ \A o \in Ops : WF_vars(Dispatch(o))
  /\ WF_vars(Worker) /\ WF_vars(Updater) /\ WF_vars(Reconciler)

-----------------------------------------------------------------------------
(* Properties                                                                *)

Without(kinds) == \A o \in Ops : mishaps[o] \cap kinds = {}

\* From its creation to the updater's last word an operation is alone: while
\* one is active, queued or in the updater's hands, no other is, unless a job
\* has been failed after it had published its request.
Working == {"check", "verify", "pull", "publish", "apply", "recover", "report", "succeed", "end"}
InFlight(o) == Active(o) \/ marker[o] = "queued" \/ (updater.pc \in Working /\ updater.op = o)
OneInFlight ==
  Without({"published"}) => \A p, q \in Ops : InFlight(p) /\ InFlight(q) => p = q

\* What is shown of the latest operation is true of the installation: it has
\* succeeded only if its version runs, and it has failed only if the version
\* before does, both in the file and in the containers (recover,
\* docs/UPGRADE.md:66-68).  After recovery_required it is up to an operator.
Latest(o) == \A p \in Ops : p > o => op[p].status = "none"
Recovering == \E o \in Ops : op[o].status = "recovery_required"
ShownIsTrue ==
  Without({"published", "unwritten"}) /\ ~Recovering =>
    \A o \in Ops : Latest(o) =>
      /\ op[o].status = "succeeded" => compose = op[o].to /\ app = op[o].to
      /\ op[o].status = "failed" => compose = op[o].from /\ app = op[o].from

\* However requests pile up, and whoever has died before, a version is replaced
\* by an older one only on the way back to the Compose file kept aside (the
\* comparison with the running version in process, docs/ARCHITECTURE.md:59).
NoDowngrade == [][app' < app => updater.pc = "recover" /\ app' = previous]_vars

\* Every operation comes to an end, so that another can be created, unless one
\* of the accidents has happened to it that nothing in the code repairs.
OperationsEnd ==
  \A o \in Ops : Active(o) ~> ~Active(o) \/ mishaps[o] # {}

\* docs/ARCHITECTURE.md:72-73: the reports are files replaced as a whole, and
\* the scheduler reconciles them: a result is not deleted before it is read.
ResultsAreRead == Without({"unread"})
=============================================================================
