-------------------------- MODULE CollectionControl --------------------------
(***************************************************************************)
(* The life of a collection run: requested by the web application or by    *)
(* the scheduler's tick, dispatched under the global and the site limit,   *)
(* validated and started by the queue worker, carried out by Oxidized, and *)
(* settled by an event, by the reconciler or by its deadline, with up to   *)
(* Retries retries.  One row of collection_runs is one record of `run`;    *)
(* one database transaction is one action.                                 *)
(***************************************************************************)
EXTENDS Integers, Sequences, FiniteSets, CollectionLimits

CONSTANTS
  MaxRuns,        \* bound: rows of collection_runs
  MaxJobs,        \* bound: jobs waiting in the queue
  Window,         \* candidates read per free slot (4 in the code)
  AdminOps,       \* administrative operations the instance explores
  Diagnostics,    \* whether diagnostics may be requested
  Stores,         \* whether a version is noticed before its collection has ended
  Faults,         \* which faults the instance explores
  MaxCrashes      \* bound: deaths of the scheduler and of the worker

Runs == 1..MaxRuns

AdminOpNames == {"approve", "revoke", "inventory", "destroy", "import", "drift"}
FaultNames == {"dns", "network", "lateJob", "lostEvent"}

ASSUME ConstantsAssumption ==
  /\ MaxRuns \in Nat /\ MaxJobs \in Nat /\ Retries \in Nat
  /\ Limit \in Nat \ {0} /\ SiteLimit \in Nat \ {0} /\ Window \in Nat \ {0}
  /\ DOMAIN Site = Devices
  /\ AdminOps \subseteq AdminOpNames
  /\ Diagnostics \in BOOLEAN /\ Stores \in BOOLEAN
  /\ Faults \subseteq FaultNames /\ MaxCrashes \in Nat

-----------------------------------------------------------------------------
Active  == {"dispatched", "running"}
Waiting == {"queued", "cooldown"}
Pending == Active \cup Waiting
Final   == {"succeeded", "failed", "cancelled"}
Triggers == {"manual", "scheduled", "retry", "diagnostic"}

\* Row [due]: scheduled_for has passed; [stale]: the run has been dispatched
\* for two minutes, or running for its device's timeout and a minute more.
Rows == [status : Pending \cup Final, device : Devices, trigger : Triggers,
         attempt : Nat, parent : Nat, due : BOOLEAN, stale : BOOLEAN]

\* Device [current]: the approval fingerprint matches and the safety policy
\* allows the device; [due]: next_collection_at has passed; [cooling]: the
\* cooldown between manual collections has not.
DeviceRows == [enabled : BOOLEAN, approved : BOOLEAN, current : BOOLEAN,
               deleted : BOOLEAN, due : BOOLEAN, cooling : BOOLEAN]

VARIABLES
  device,     \* device[d]: the row of device d
  run,        \* the rows of collection_runs, in the order of their ids
  promoting,  \* diagnostics created by a web request that has not yet dispatched them
  queue,      \* the database queue, served first in, first out
  worker,     \* the one queue worker: what it is doing, for which run
  tick,       \* the holder of the orchestrator's lock, if any
  engine,     \* engine[d]: runs whose collection Oxidized has accepted and not finished
  last,       \* last[d]: the last result /nodes.json shows for d, if a run of d
              \*   was running when it ended
  mail,       \* node_fail events on their way: the run that made Oxidized collect
  crashes     \* how often the scheduler or the worker has died

vars == <<device, run, promoting, queue, worker, tick, engine, last, mail, crashes>>

Idle == [pc |-> "idle", run |-> 0, device |-> "missing"]
NoTick == [pc |-> "idle", runs |-> {}, devices |-> {}]
NoResult == [ok |-> FALSE, during |-> 0]

Ids == 1..Len(run)
\* Mutation: a retry that waits for its delay is not counted.
PendingRuns_NoCooldown(d) ==
  {r \in Ids : run[r].device = d /\ run[r].status \in Active \cup {"queued"}}
PendingRuns(d) == {r \in Ids : run[r].device = d /\ run[r].status \in Pending}
ActiveRuns == {r \in Ids : run[r].status \in Active}
Latest(S) == CHOOSE r \in S : \A q \in S : q <= r
RunningRuns(d) == {r \in Ids : run[r].device = d /\ run[r].status = "running"}

\* The outcomes of resolving a device's address and comparing it with the
\* approved one: a failure is explored when the instance has the fault.
Resolutions == IF "dns" \in Faults THEN BOOLEAN ELSE {TRUE}

Init ==
  /\ device = [d \in Devices |-> [enabled |-> TRUE, approved |-> TRUE,
                 current |-> TRUE, deleted |-> FALSE, due |-> TRUE,
                 cooling |-> FALSE]]
  /\ run = <<>>
  /\ promoting = {}
  /\ queue = <<>>
  /\ worker = Idle
  /\ tick = NoTick
  /\ engine = [d \in Devices |-> {}]
  /\ last = [d \in Devices |-> NoResult]
  /\ mail = {}
  /\ crashes = 0

-----------------------------------------------------------------------------
(* Requests                                                                *)

\* ensureCollectable: whatever it throws, the transaction around it rolls back,
\* its own invalidation of the approval included.
Collectable(d, resolved) ==
  /\ ~device[d].deleted /\ device[d].enabled /\ device[d].approved
  /\ device[d].current
  /\ resolved

NewRow(d, trigger, attempt, parent, due) ==
  [status |-> IF due THEN "queued" ELSE "cooldown", device |-> d,
   trigger |-> trigger, attempt |-> attempt, parent |-> parent,
   due |-> due, stale |-> FALSE]

\* Bound: a request leaves rows for its own retries and for those the pending
\* runs may still need.
RetriesLeft ==
  {x \in Ids \X (1..Retries) : LET row == run[x[1]]
                              IN  /\ row.status \in Pending /\ row.trigger # "diagnostic"
                                  /\ row.attempt + x[2] <= Retries + 1}
RoomFor(retries) == Len(run) + 1 + retries + Cardinality(RetriesLeft) <= MaxRuns

\* A request that finds a pending run of the device returns that run.
ManualRequest(d, force) ==
  /\ RoomFor(Retries)
  /\ \E resolved \in Resolutions : Collectable(d, resolved)
  /\ PendingRuns(d) = {}
  /\ force \/ ~device[d].cooling
  /\ run' = Append(run, NewRow(d, "manual", 1, 0, TRUE))
  /\ device' = [device EXCEPT ![d].cooling = TRUE]
  /\ UNCHANGED <<promoting, queue, worker, tick, engine, last, mail, crashes>>

\* Mutation: the row of the run before is taken for the new one.
DiagnosticRequest_WrongRow(d) ==
  /\ Diagnostics
  /\ RoomFor(0)
  /\ PendingRuns(d) = {}
  /\ run' = Append(run, NewRow(d, "diagnostic", 1, 0, TRUE))
  /\ promoting' = promoting \cup {Len(run)}
  /\ UNCHANGED <<device, queue, worker, tick, engine, last, mail, crashes>>

\* A diagnostic is created by one transaction and dispatched by a second one,
\* which takes neither the orchestrator's lock nor its limits.
DiagnosticRequest(d) ==
  /\ Diagnostics
  /\ RoomFor(0)
  /\ \E resolved \in Resolutions : Collectable(d, resolved)
  /\ PendingRuns(d) = {}
  /\ run' = Append(run, NewRow(d, "diagnostic", 1, 0, TRUE))
  /\ promoting' = promoting \cup {Len(run) + 1}
  /\ UNCHANGED <<device, queue, worker, tick, engine, last, mail, crashes>>

DiagnosticDispatch(r) ==
  /\ r \in promoting
  /\ Len(queue) < MaxJobs
  /\ promoting' = promoting \ {r}
  /\ run' = IF run[r].status = "queued"
            THEN [run EXCEPT ![r].status = "dispatched", ![r].stale = FALSE]
            ELSE run
  /\ queue' = Append(queue, [kind |-> "diagnose", run |-> r])
  /\ UNCHANGED <<device, worker, tick, engine, last, mail, crashes>>

-----------------------------------------------------------------------------
(* Settling a run                                                          *)

\* fail() schedules the retry inside its own transaction: what the request
\* throws undoes the failure too.
\* Mutation: the delays are counted from one.
NeedsRetry_OneMore(r) == run[r].trigger # "diagnostic" /\ run[r].attempt <= Retries + 1
NeedsRetry(r) == run[r].trigger # "diagnostic" /\ run[r].attempt <= Retries

FailThrows(r, resolved) ==
  /\ run[r].status \in Active
  /\ \/ run[r].trigger # "diagnostic" /\ device[run[r].device].deleted
     \/ NeedsRetry(r) /\ ~Collectable(run[r].device, resolved)

\* A settled run has no deadline any more.
Settled(r, status) == [run EXCEPT ![r].status = status, ![r].stale = FALSE]

Fail(r, resolved) ==
  /\ ~FailThrows(r, resolved)
  /\ run' =
       IF run[r].status \notin Active THEN run
       ELSE IF NeedsRetry(r) /\ PendingRuns(run[r].device) = {r}
         THEN Append(Settled(r, "failed"), NewRow(run[r].device, "retry", run[r].attempt + 1, r, FALSE))
         ELSE Settled(r, "failed")
  /\ Len(run') <= MaxRuns

\* What the caller of fail() leaves behind that dies of what fail() throws.
MayFail(r) == \E resolved \in Resolutions :
                Fail(r, resolved) \/ (FailThrows(r, resolved) /\ run' = run)

\* Mutation: whatever its status, the run succeeds.
Succeed_Unguarded(r) == run' = Settled(r, "succeeded")

Succeed(r) ==
  run' = IF run[r].status = "running"
         THEN Settled(r, "succeeded") ELSE run

Cancel(r) ==
  run' = IF run[r].status \in Active
         THEN Settled(r, "cancelled") ELSE run

Invalidated(d) == [device EXCEPT ![d].enabled = FALSE, ![d].approved = FALSE,
                                 ![d].current = FALSE, ![d].due = TRUE]

-----------------------------------------------------------------------------
(* The orchestrator's tick                                                 *)

Recovered(statuses) ==
  [r \in Ids |-> IF run[r].status \in statuses /\ run[r].stale
                 THEN [run[r] EXCEPT !.status = "queued", !.stale = FALSE]
                 ELSE run[r]]

\* Mutation: running runs are requeued too.
TickStart_RequeuesRunning ==
  /\ tick.pc = "idle"
  /\ run' = Recovered(Active)
  /\ tick' = [pc |-> "recover", devices |-> {}, runs |-> {}]
  /\ UNCHANGED <<device, promoting, queue, worker, engine, last, mail, crashes>>

\* Mutation: nothing is requeued.
TickStart_NoRequeue ==
  /\ tick.pc = "idle"
  /\ tick' = [pc |-> "recover", devices |-> {},
              runs |-> {r \in Ids : run[r].status = "running" /\ run[r].stale}]
  /\ UNCHANGED <<device, run, promoting, queue, worker, engine, last, mail, crashes>>

\* Runs dispatched two minutes ago go back to the queue; then the deadlines of
\* the running ones are looked at, one run at a time.
TickStart ==
  /\ tick.pc = "idle"
  /\ run' = Recovered({"dispatched"})
  /\ tick' = [pc |-> "recover", devices |-> {},
              runs |-> {r \in Ids : run[r].status = "running" /\ run[r].stale}]
  /\ UNCHANGED <<device, promoting, queue, worker, engine, last, mail, crashes>>

TickFail(r) ==
  /\ tick.pc = "recover" /\ r \in tick.runs
  /\ ~device[run[r].device].deleted
  /\ \E resolved \in Resolutions : Fail(r, resolved)
  /\ tick' = [tick EXCEPT !.runs = @ \ {r}]
  /\ UNCHANGED <<device, promoting, queue, worker, engine, last, mail, crashes>>

\* Nothing catches what fail() throws, nor the deleted device of a run: the
\* tick ends there and the lock is released.
TickFailThrows(r) ==
  /\ tick.pc = "recover" /\ r \in tick.runs
  /\ \/ device[run[r].device].deleted
     \/ \E resolved \in Resolutions : FailThrows(r, resolved)
  /\ tick' = NoTick
  /\ UNCHANGED <<device, run, promoting, queue, worker, engine, last, mail, crashes>>

TickDue ==
  /\ tick.pc = "recover" /\ tick.runs = {}
  /\ tick' = [tick EXCEPT !.pc = "schedule",
       !.devices = {d \in Devices : /\ ~device[d].deleted /\ device[d].enabled
                                    /\ device[d].approved /\ device[d].due}]
  /\ UNCHANGED <<device, run, promoting, queue, worker, engine, last, mail, crashes>>

\* A request that throws leaves the device due: the next tick tries again.
TickSchedule(d) ==
  /\ tick.pc = "schedule" /\ d \in tick.devices
  /\ tick' = [tick EXCEPT !.devices = @ \ {d}]
  /\ \E resolved \in Resolutions :
       IF Collectable(d, resolved)
       THEN /\ \/ PendingRuns(d) # {} /\ run' = run
               \/ /\ PendingRuns(d) = {} /\ RoomFor(Retries)
                  /\ run' = Append(run, NewRow(d, "scheduled", 1, 0, TRUE))
            /\ device' = [device EXCEPT ![d].due = FALSE]
       ELSE UNCHANGED <<device, run>>
  /\ UNCHANGED <<promoting, queue, worker, engine, last, mail, crashes>>

\* Bound: with no row left for a request the tick goes on without it.
TickSkip(d) ==
  /\ tick.pc = "schedule" /\ d \in tick.devices
  /\ ~RoomFor(Retries) /\ PendingRuns(d) = {}
  /\ tick' = [tick EXCEPT !.devices = @ \ {d}]
  /\ UNCHANGED <<device, run, promoting, queue, worker, engine, last, mail, crashes>>

Priority(r) == CASE run[r].trigger = "diagnostic" -> 200
                 [] run[r].trigger = "manual" -> 100
                 [] OTHER -> 0

Candidates == {r \in Ids : run[r].status \in Waiting /\ run[r].due}
Available == IF Cardinality(ActiveRuns) >= Limit THEN 0
             ELSE Limit - Cardinality(ActiveRuns)

\* The order the candidates are read in: by priority, then by scheduled_for,
\* which is left open.
Orders == {place \in [Candidates -> 1..Cardinality(Candidates)] :
             \A p, q \in Candidates :
               /\ place[p] = place[q] => p = q
               /\ Priority(p) > Priority(q) => place[p] < place[q]}

SameSite(p, q) == Site[run[p].device] = Site[run[q].device]

\* Mutation: the runs already active at a site are forgotten.
IsBatch_IgnoresActive(batch, place) ==
  \A c \in Candidates :
    LET before == {b \in batch : place[b] < place[c]}
    IN  c \in batch <=>
          /\ place[c] <= Available * Window
          /\ Cardinality(before) < Available
          /\ Cardinality({r \in before : SameSite(r, c)}) < SiteLimit

\* batch is what the loop over the candidates dispatches: each one read while a
\* slot is free and its site is below its limit.
IsBatch(batch, place) ==
  \A c \in Candidates :
    LET before == {b \in batch : place[b] < place[c]}
    IN  c \in batch <=>
          /\ place[c] <= Available * Window
          /\ Cardinality(before) < Available
          /\ Cardinality({r \in ActiveRuns \cup before : SameSite(r, c)}) < SiteLimit

\* The loop meets the run of a deleted device while a slot is free.
MeetsDeleted(batch, place) ==
  \E c \in Candidates :
    /\ device[run[c].device].deleted
    /\ place[c] <= Available * Window
    /\ Cardinality({b \in batch : place[b] < place[c]}) < Available

TickDispatch ==
  /\ tick.pc = "schedule" /\ tick.devices = {}
  /\ \E place \in Orders, batch \in SUBSET Candidates :
       /\ IsBatch(batch, place)
       /\ IF MeetsDeleted(batch, place)
          THEN run' = run /\ tick' = NoTick
          ELSE /\ run' = [r \in Ids |-> IF r \in batch
                            THEN [run[r] EXCEPT !.status = "dispatched", !.stale = FALSE]
                            ELSE run[r]]
               /\ tick' = [tick EXCEPT !.pc = "push", !.runs = batch]
  /\ UNCHANGED <<device, promoting, queue, worker, engine, last, mail, crashes>>

TickPush(r) ==
  /\ tick.pc = "push" /\ r \in tick.runs
  /\ Len(queue) < MaxJobs
  /\ queue' = Append(queue, [run |-> r, kind |->
                IF run[r].trigger = "diagnostic" THEN "diagnose" ELSE "collect"])
  /\ tick' = [tick EXCEPT !.runs = @ \ {r}]
  /\ UNCHANGED <<device, run, promoting, worker, engine, last, mail, crashes>>

TickEnd ==
  /\ tick.pc = "push" /\ tick.runs = {}
  /\ tick' = NoTick
  /\ UNCHANGED <<device, run, promoting, queue, worker, engine, last, mail, crashes>>

\* The scheduler dies: the lock expires, the jobs it had not queued are lost.
SchedulerCrash ==
  /\ tick.pc # "idle"
  /\ crashes < MaxCrashes /\ crashes' = crashes + 1
  /\ tick' = NoTick
  /\ UNCHANGED <<device, run, promoting, queue, worker, engine, last, mail>>

-----------------------------------------------------------------------------
(* The queue worker                                                        *)

\* What a job finds in the device loaded with its run, which it keeps using
\* throughout the validation.
Loaded(job) ==
  LET row == device[run[job.run].device]
  IN  CASE row.deleted -> "missing"
        [] ~row.deleted /\ ~row.current -> IF row.approved THEN "drifted" ELSE "unapproved"
        [] OTHER -> IF job.kind = "collect" \/ (row.enabled /\ row.approved)
                    THEN "valid" ELSE "unapproved"

\* Without a device the job of a collection dies at once.
JobStart ==
  /\ worker.pc = "idle" /\ queue # <<>> /\ Head(queue).kind # "reconcile"
  /\ queue' = Tail(queue)
  /\ LET job == Head(queue)
     IN  worker' =
           IF \/ run[job.run].status # "dispatched"
              \/ job.kind = "collect" /\ Loaded(job) = "missing"
           THEN Idle
           ELSE [pc |-> IF job.kind = "collect" THEN "validate" ELSE "inspect",
                 run |-> job.run, device |-> Loaded(job)]
  /\ UNCHANGED <<device, run, promoting, tick, engine, last, mail, crashes>>

\* The job that follows a stored version: the run it was queued for succeeds
\* if it is running.  Git may have no version, or be out of reach.
JobReconciles ==
  /\ worker.pc = "idle" /\ queue # <<>> /\ Head(queue).kind = "reconcile"
  /\ queue' = Tail(queue)
  /\ LET r == Head(queue).run
     IN  IF run[r].status # "running" \/ device[run[r].device].deleted THEN run' = run
         ELSE \/ Succeed(r)
              \/ "network" \in Faults /\ MayFail(r)
  /\ UNCHANGED <<device, promoting, worker, tick, engine, last, mail, crashes>>

\* The approval is out of date, the address has changed, or the SSH host key
\* has.  invalidate() writes the columns that differ from the row as it was
\* loaded: for a device loaded without an approval that is at most its
\* approval status, even when the approval has been granted since.
ValidationFails(r) ==
  LET d == run[r].device
  IN  /\ worker.pc = "validate" /\ worker.run = r
      /\ worker.device # "valid" \/ "network" \in Faults
      /\ device' \in IF worker.device = "unapproved"
                     THEN {device, [device EXCEPT ![d].approved = FALSE]}
                     ELSE {Invalidated(d)}
      /\ Cancel(r)
      /\ worker' = Idle
      /\ UNCHANGED <<promoting, queue, tick, engine, last, mail, crashes>>

ValidationPasses(r) ==
  /\ worker.pc = "validate" /\ worker.run = r /\ worker.device = "valid"
  /\ worker' = [worker EXCEPT !.pc = "admit"]
  /\ UNCHANGED <<device, run, promoting, queue, tick, engine, last, mail, crashes>>

\* The second look at the run, under its row lock.  A run that is no longer
\* dispatched is cancelled whatever it has become; the job of a deleted device
\* dies.
Admit(r) ==
  /\ worker.pc = "admit" /\ worker.run = r
  /\ LET d == run[r].device
     IN  IF run[r].status = "dispatched" /\ device[d].deleted
         THEN run' = run /\ worker' = Idle
         ELSE IF run[r].status # "dispatched" \/ ~device[d].enabled \/ ~device[d].approved
         THEN /\ run' = Settled(r, "cancelled")
              /\ worker' = Idle
         ELSE /\ run' = [run EXCEPT ![r].status = "running", ![r].stale = FALSE]
              /\ worker' = [worker EXCEPT !.pc = "engine"]
  /\ UNCHANGED <<device, promoting, queue, tick, engine, last, mail, crashes>>

EngineAccepts(r) ==
  /\ worker.pc = "engine" /\ worker.run = r
  /\ ~device[run[r].device].deleted
  /\ engine' = [engine EXCEPT ![run[r].device] = @ \cup {r}]
  /\ worker' = Idle
  /\ UNCHANGED <<device, run, promoting, queue, tick, last, mail, crashes>>

\* Oxidized answers no, for instance because it has not read the node yet.
EngineRejects(r) ==
  /\ worker.pc = "engine" /\ worker.run = r
  /\ "network" \in Faults
  /\ ~device[run[r].device].deleted
  /\ worker' = Idle
  /\ MayFail(r)
  /\ UNCHANGED <<device, promoting, queue, tick, engine, last, mail, crashes>>

EngineWithoutDevice(r) ==
  /\ worker.pc = "engine" /\ worker.run = r
  /\ device[run[r].device].deleted
  /\ worker' = Idle
  /\ UNCHANGED <<device, run, promoting, queue, tick, engine, last, mail, crashes>>

\* The job's timeout, the connection's or the container's end: the job is
\* attempted once, so whatever it had not done is not done.
WorkerCrash ==
  /\ worker.pc # "idle"
  /\ crashes < MaxCrashes /\ crashes' = crashes + 1
  /\ worker' = Idle
  /\ \/ engine' = engine
     \/ /\ worker.pc = "engine"
        /\ engine' = [engine EXCEPT ![run[worker.run].device] = @ \cup {worker.run}]
  /\ UNCHANGED <<device, run, promoting, queue, tick, last, mail>>

-----------------------------------------------------------------------------
(* The diagnostic job                                                      *)

\* Not collectable or an address that cannot be resolved: cancelled.  A busy
\* sandbox or a deleted device fails the run, and so does a host key that
\* changed, which also revokes the approval.
InspectionFails(r) ==
  /\ worker.pc = "inspect" /\ worker.run = r
  /\ \/ worker.device \in {"drifted", "unapproved"} /\ Cancel(r) /\ UNCHANGED device
     \/ /\ worker.device = "missing" \/ "network" \in Faults
        /\ Fail(r, TRUE) /\ UNCHANGED device
     \/ /\ worker.device = "valid" /\ "network" \in Faults
        /\ \/ Cancel(r) /\ UNCHANGED device
           \/ Fail(r, TRUE) /\ device' = Invalidated(run[r].device)
  /\ worker' = Idle
  /\ UNCHANGED <<promoting, queue, tick, engine, last, mail, crashes>>

InspectionPasses(r) ==
  /\ worker.pc = "inspect" /\ worker.run = r /\ worker.device = "valid"
  /\ worker' = [worker EXCEPT !.pc = "enter"]
  /\ UNCHANGED <<device, run, promoting, queue, tick, engine, last, mail, crashes>>

\* The device may have been deleted since it was validated.
SandboxStart(r) ==
  /\ worker.pc = "enter" /\ worker.run = r
  /\ IF run[r].status # "dispatched"
     THEN run' = run /\ worker' = Idle
     ELSE IF device[run[r].device].deleted
     THEN Fail(r, TRUE) /\ worker' = Idle
     ELSE /\ run' = [run EXCEPT ![r].status = "running", ![r].stale = FALSE]
          /\ worker' = [worker EXCEPT !.pc = "await"]
  /\ UNCHANGED <<device, promoting, queue, tick, engine, last, mail, crashes>>

\* The sandbox's answer, its silence until the deadline, or the end of a run
\* that something else has settled.
SandboxResult(r) ==
  /\ worker.pc = "await" /\ worker.run = r
  /\ worker' = Idle
  /\ \/ Succeed(r) /\ mail' = mail
     \/ Fail(r, TRUE) /\ mail' \in {mail, mail \cup {r}}
  /\ UNCHANGED <<device, promoting, queue, tick, engine, last, crashes>>

-----------------------------------------------------------------------------
(* Oxidized and its reports                                                *)

EngineDone(d, s, ok) ==
  /\ s \in engine[d]
  /\ engine' = [engine EXCEPT ![d] = @ \ {s}]
  /\ last' = [last EXCEPT ![d] = IF RunningRuns(d) = {} THEN NoResult
                                 ELSE [ok |-> ok, during |-> Latest(RunningRuns(d))]]
  /\ mail' = IF ok THEN mail ELSE mail \cup {s}
  /\ UNCHANGED <<device, run, promoting, queue, worker, tick, crashes>>

\* A node_fail event names the device, not the run: it goes to the latest
\* active run of the device, or nowhere.
NodeFail(s) ==
  /\ s \in mail
  /\ mail' = mail \ {s}
  /\ LET active == {r \in ActiveRuns : run[r].device = run[s].device}
     IN  IF active = {} \/ device[run[s].device].deleted THEN run' = run
         ELSE MayFail(Latest(active))
  /\ UNCHANGED <<device, promoting, queue, worker, tick, engine, last, crashes>>

\* So does a post_store event, which may also go to a run that has succeeded;
\* one job at a time is queued for a run.
Named(d) == {r \in Ids : run[r].device = d /\ run[r].status \in Active \cup {"succeeded"}}
PostStore(d) ==
  /\ Stores /\ engine[d] # {} /\ ~device[d].deleted
  /\ Len(queue) < MaxJobs
  /\ \E r \in Named(d) :
       /\ r = Latest(Named(d))
       /\ run[r].trigger # "diagnostic"
       /\ \A i \in 1..Len(queue) : queue[i] # [kind |-> "reconcile", run |-> r]
       /\ queue' = Append(queue, [kind |-> "reconcile", run |-> r])
  /\ UNCHANGED <<device, run, promoting, worker, tick, engine, last, mail, crashes>>

EventLost(s) ==
  /\ "lostEvent" \in Faults
  /\ s \in mail
  /\ mail' = mail \ {s}
  /\ UNCHANGED <<device, run, promoting, queue, worker, tick, engine, last, crashes>>

\* A result that ended after the running run started is taken for that run's.
\* A success is believed once Git has a version of the device; a version
\* committed since the run started is believed by itself.
Reconcile(d) ==
  /\ device[d].enabled /\ ~device[d].deleted
  /\ RunningRuns(d) # {}
  /\ LET r == Latest(RunningRuns(d))
     IN  \/ last[d].during = r
            /\ \/ last[d].ok /\ Succeed(r)
               \/ /\ ~last[d].ok \/ "network" \in Faults
                  /\ \E resolved \in Resolutions : Fail(r, resolved)
         \/ Stores /\ engine[d] # {} /\ Succeed(r)
  /\ UNCHANGED <<device, promoting, queue, worker, tick, engine, last, mail, crashes>>

\* The reconciler's own look at the deadlines of the running runs.
ReconcileStale(r) ==
  /\ run[r].status = "running" /\ run[r].stale
  /\ ~device[run[r].device].deleted
  /\ \E resolved \in Resolutions : Fail(r, resolved)
  /\ UNCHANGED <<device, promoting, queue, worker, tick, engine, last, mail, crashes>>

-----------------------------------------------------------------------------
(* Administrators, inventories and time                                    *)

Change(d, fields) ==
  /\ device' = [device EXCEPT ![d] = fields]
  /\ UNCHANGED <<run, promoting, queue, worker, tick, engine, last, mail, crashes>>

Approve(d) ==
  /\ "approve" \in AdminOps /\ ~device[d].deleted
  /\ Change(d, [device[d] EXCEPT !.enabled = TRUE, !.approved = TRUE,
                                 !.current = TRUE, !.due = FALSE])

\* Revocation, and an update of a sensitive field: the runs of the device stay.
Revoke(d) ==
  /\ "revoke" \in AdminOps /\ ~device[d].deleted
  /\ device' = Invalidated(d)
  /\ UNCHANGED <<run, promoting, queue, worker, tick, engine, last, mail, crashes>>

\* A synchronisation finds the device listed, as enabled or as disabled, or at
\* another address, and takes it out of the bin; or it has missed it for the
\* grace period, which leaves the device as one listed as disabled.
Inventory(d) ==
  /\ "inventory" \in AdminOps
  /\ \/ Change(d, [device[d] EXCEPT !.enabled = device[d].approved, !.deleted = FALSE])
     \/ Change(d, [device[d] EXCEPT !.enabled = FALSE, !.deleted = FALSE])
     \/ Change(d, [Invalidated(d)[d] EXCEPT !.deleted = FALSE])

\* Between its two statements the device is as one listed as disabled.
Destroy(d) ==
  /\ "destroy" \in AdminOps /\ ~device[d].deleted
  /\ Change(d, [device[d] EXCEPT !.enabled = FALSE, !.deleted = TRUE])

\* A CSV import that names a known device keeps its fingerprint, which no longer
\* matches if a field has changed.
Import(d) ==
  /\ "import" \in AdminOps /\ ~device[d].deleted
  /\ \E same \in BOOLEAN :
       Change(d, [device[d] EXCEPT !.enabled = FALSE, !.approved = FALSE,
                                   !.current = @ /\ same])

\* A dangerous feature is switched off and on, or a custom model is withdrawn
\* and published: the fingerprint of an approved device stays.
Drift(d) ==
  /\ "drift" \in AdminOps /\ (device[d].current \/ device[d].approved)
  /\ Change(d, [device[d] EXCEPT !.current = ~@])

CooldownElapses(r) ==
  /\ run[r].status = "cooldown" /\ ~run[r].due
  /\ run' = [run EXCEPT ![r].due = TRUE]
  /\ UNCHANGED <<device, promoting, queue, worker, tick, engine, last, mail, crashes>>

\* Unless jobs may be late, the two minutes of a dispatched run pass only when
\* no job for it is left.
HasJob(r) == \/ \E i \in 1..Len(queue) : queue[i].run = r /\ queue[i].kind # "reconcile"
             \/ worker.pc # "idle" /\ worker.run = r
             \/ tick.pc = "push" /\ r \in tick.runs
             \/ r \in promoting

DeadlinePasses(r) ==
  /\ run[r].status \in Active /\ ~run[r].stale
  /\ run[r].status = "dispatched" => "lateJob" \in Faults \/ ~HasJob(r)
  /\ run' = [run EXCEPT ![r].stale = TRUE]
  /\ UNCHANGED <<device, promoting, queue, worker, tick, engine, last, mail, crashes>>

DeviceFallsDue(d) ==
  /\ ~device[d].due
  /\ Change(d, [device[d] EXCEPT !.due = TRUE])

ManualCooldownElapses(d) ==
  /\ device[d].cooling
  /\ Change(d, [device[d] EXCEPT !.cooling = FALSE])

-----------------------------------------------------------------------------
Web == \E d \in Devices : \/ \E force \in BOOLEAN : ManualRequest(d, force)
                          \/ DiagnosticRequest(d)

Tick == \/ TickStart \/ TickDue \/ TickDispatch \/ TickEnd
        \/ \E r \in Ids : TickFail(r) \/ TickFailThrows(r) \/ TickPush(r)
        \/ \E d \in Devices : TickSchedule(d) \/ TickSkip(d)

Validation == \E r \in Ids : \/ ValidationPasses(r) \/ ValidationFails(r)
                            \/ InspectionPasses(r) \/ InspectionFails(r)
Admission  == \E r \in Ids : Admit(r) \/ SandboxStart(r)
Conclusion == \E r \in Ids : \/ EngineAccepts(r) \/ EngineRejects(r)
                            \/ EngineWithoutDevice(r) \/ SandboxResult(r)

Worker == JobStart \/ JobReconciles \/ Validation \/ Admission \/ Conclusion

Oxidized == \E d \in Devices, s \in Ids, ok \in BOOLEAN : EngineDone(d, s, ok)

Reports == \/ \E s \in Ids : NodeFail(s) \/ ReconcileStale(s)
           \/ \E d \in Devices : Reconcile(d) \/ PostStore(d)

Time == \/ \E r \in Ids : CooldownElapses(r) \/ DeadlinePasses(r)
        \/ \E d \in Devices : DeviceFallsDue(d) \/ ManualCooldownElapses(d)

Administration == \E d \in Devices : \/ Approve(d) \/ Revoke(d) \/ Inventory(d)
                                     \/ Destroy(d) \/ Import(d) \/ Drift(d)

Crashes == SchedulerCrash \/ WorkerCrash \/ \E s \in Ids : EventLost(s)

Next == \/ Web \/ \E r \in Ids : DiagnosticDispatch(r)
        \/ Tick \/ Worker \/ Oxidized \/ Reports \/ Time
        \/ Administration \/ Crashes

Spec == Init /\ [][Next]_vars

\* The scheduler ticks every minute, the worker serves its queue, Oxidized
\* finishes what it accepts, web requests finish and time passes.
Fairness ==
  /\ WF_vars(Tick) /\ WF_vars(Worker) /\ WF_vars(Oxidized)
  /\ \A r \in Runs : /\ WF_vars(r \in Ids /\ DiagnosticDispatch(r))
                     /\ WF_vars(r \in Ids /\ CooldownElapses(r))
                     /\ WF_vars(r \in Ids /\ DeadlinePasses(r))

FairSpec == Spec /\ Fairness

-----------------------------------------------------------------------------
(* Properties                                                              *)

TypeOK ==
  /\ device \in [Devices -> DeviceRows]
  /\ run \in Seq(Rows)
  /\ promoting \subseteq Ids
  /\ queue \in Seq([kind : {"collect", "diagnose", "reconcile"}, run : Ids])
  /\ worker \in [pc : {"idle", "validate", "admit", "engine", "inspect", "enter", "await"},
                 run : Ids \cup {0}, device : {"missing", "drifted", "unapproved", "valid"}]
  /\ worker.pc # "idle" => worker.run \in Ids
  /\ tick \in [pc : {"idle", "recover", "schedule", "push"},
               runs : SUBSET Ids, devices : SUBSET Devices]
  /\ engine \in [Devices -> SUBSET Ids]
  /\ last \in [Devices -> [ok : BOOLEAN, during : Ids \cup {0}]]
  /\ mail \subseteq Ids
  /\ crashes \in Nat

\* The ledger the runs keep: whether a run that waits is due is not shown.
Entry(r) == [status |-> IF run[r].status \in Waiting THEN "waiting" ELSE run[r].status,
             device |-> run[r].device, trigger |-> run[r].trigger,
             attempt |-> run[r].attempt, parent |-> run[r].parent]

Mapped == [r \in Ids |-> Entry(r)]

Ledger == INSTANCE RunLedger WITH ledger <- Mapped

\* Requests, ticks, jobs, events, reconciliations and crashes, in whatever
\* order, do to the runs only what RunLedger allows.
KeepsLedger == Ledger!LedgerSpec

\* A device has at most one collection pending or active, whoever asks and
\* however a retry, a requeue and a request interleave
\* (docs/ARCHITECTURE.md:85).
AtMostOnePending == Ledger!AtMostOnePending

\* A retry continues one run of its device that has ended without success, one
\* attempt further; no run is continued twice, and the attempts are bounded
\* (docs/ARCHITECTURE.md:89).
RetryChain == Ledger!RetryChain

\* Production collections respect the global and the site limit at every
\* moment, whatever is requeued or retried (docs/ARCHITECTURE.md:86-89).
ProductionWithinLimits == Ledger!WithinLimits

\* A run is started at most once and, once settled, is never pending again,
\* even when late jobs, duplicated jobs and late events meet it.
NeverRestarted == Ledger!NeverRestarted

\* Oxidized never holds a collection whose run still waits to be started, so
\* no requeue can have it collect for the same run twice.
AcceptedHasStarted ==
  \A d \in Devices : \A r \in engine[d] : run[r].status \in {"running"} \cup Final

\* Every run is settled in the end, although jobs and events are lost.
Has(r, statuses) == r \in Ids /\ run[r].status \in statuses
RunsSettle == \A r \in Runs : Has(r, Pending) ~> Has(r, Final)

-----------------------------------------------------------------------------
(* What the documentation says and the code does not keep                  *)

\* docs/ARCHITECTURE.md:98: the periodic tick is the fallback for whatever was
\* requested, so a device that stays collectable does not keep a queued run.
StaysCollectable(d) == [](device[d].enabled /\ device[d].approved /\ ~device[d].deleted)
HasQueued(d) == \E r \in Ids : run[r].device = d /\ run[r].status = "queued"
TickIsFallback ==
  \A d \in Devices : StaysCollectable(d) => (HasQueued(d) ~> ~HasQueued(d))
=============================================================================
