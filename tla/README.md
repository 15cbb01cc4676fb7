# NetKeep: a verification of its core

NetKeep keeps the configuration of network devices under version control.  A
Laravel application decides what is collected and when, Oxidized collects, and
a few Go programs report, update and supervise.  This directory holds TLA+
models of the parts whose correctness depends on interleavings, crashes,
lost or late messages, or on two languages saying the same, the TLC instances that check them, and TLAPS proofs of
the properties that matter most.

## The system

| Part | State | Operations | Speaks to |
|---|---|---|---|
| Collection control (`CollectionOrchestrator`, `CollectionRequestService`, `CollectionRunService`, `DispatchDeviceCollection`) | `collection_runs`, the queue (`jobs`), the lock `netkeep:collection-orchestrator` | request, tick (recover, schedule, dispatch), validate, admit, succeed, fail, cancel | Oxidized by HTTP, devices table |
| Diagnostics (`DeviceDiagnosticService`, `RunDeviceDiagnostic`) | a run of trigger `diagnostic`, the sandbox's configuration, `SandboxLock` | request and dispatch at once, validate, run in the sandbox, restore | sandbox Oxidized, sandbox controller |
| Events and reconciliation (`OxidizedEventController`, `BackupReconciler`, `ReconcileCollectionRun`, `oxidized-reporter`) | `collection_run_events`, `backup_runs` | node_fail, post_store, reconcile every minute | Oxidized's hooks and `/nodes.json`, Git |
| Approval and administration (`DeviceApprovalService`, `DeviceController`, `InventorySynchronizer`) | `devices` | approve, revoke, update, import, delete, synchronise | collection control |
| Restore (`RestoreCoordinator`) | staged directories and databases, a state file | stage, apply, roll back, finalise | database server, volumes |
| Updates (`UpdateExchangeService`, `updater`) | request and status files, `update_operations` | request, prepare, take over, report, reconcile | the updater's volume |
| Full backups (`FullBackupService`, `RunFullBackup`) | archives, `backup_destinations` | create, encrypt, upload, prune | storage |
| Sandbox controller (`sandbox-controller`) | the sandbox's engine process | restart, stop | the diagnostic job |
| Accounts and settings (`CreateNewUser`, `InstallationClaimService`, `UserController`, `DangerousFeatureService`, `SystemSettingsController`) | `users`, the token file, the lock `netkeep:first-owner`, the settings of `organizations` | register, invite, update, hand over, switch a feature, save a form | the browser |
| Routes, gates and sessions (`routes/*.php`, `app/Http/Middleware`, Fortify) | the session: who, confirmed when, the intended address | route, gate, redirect, log in, confirm, revoke | the browser |
| Front end (`resources/js`: pages, generated routes, `wayfinder`) | the open page and its props | draw, visit, fetch, send a form | the routes |
| Custom models, traces, notifications, TLS files | see `PROJECT.json` | | |

The processes: web requests run concurrently; one scheduler runs the tick, the
reconcilers and the other periodic commands one after the other; one queue
worker (`queue:work --tries=3 --max-time=300`, each job with `$tries = 1`)
serves the database queue in order; Oxidized collects with threads of its own
and reports through hooks that may be late or lost; the updater is a process of
its own that shares nothing but files with the rest; a restore is an operator's
command in a container beside all of them.  One transaction of the code, one
rename, one write of a file is one action of the models.

What is hard here, and what a test of the repository cannot reach: a row that is
validated in one transaction and started in another; jobs that come late, twice
or never; a death of the scheduler or of the worker between two of these; an
event and the reconciler that both speak of the same run; a restore that fails
between two renames and is then undone, perhaps more than once; a file that is
read, and replaced before it is deleted; a row checked when the request binds it
and written after somebody else has handed over the ownership; a page in
TypeScript that offers what a gate in PHP refuses.  `PROJECT.json` lists these hazards,
each at its line, with the properties that would notice.

## The modules

| Module | What it is | Code |
|---|---|---|
| `RunLedger` | abstract specification: a ledger of runs, each device with at most one that is open | `docs/ARCHITECTURE.md:83-98`, the statuses and indexes of `collection_runs` |
| `CollectionControl` | requests, tick, worker, Oxidized, events, reconciler, administration, crashes | `Collection*Service`, `CollectionOrchestrator`, the jobs, the controllers named above |
| `Restore` | a restore, its rollback and its finalisation, step by step, beside scheduler and worker | `RestoreCoordinator`, `docker/scheduler.sh`, `docker/worker.sh` |
| `UpdateExchange` | a software update, from the panel to the updater and back | `UpdateOperationService`, `PrepareUpdateOperation`, `UpdateExchangeService`, `updater/main.go`, `UpdateStatusReconciler` |
| `CollectionLimits` | the constants that `RunLedger` and `CollectionControl` share, and what is assumed of them | the settings of the collections |
| `Accounts` | the owner, the other users and the settings, as requests that run side by side | `CreateNewUser`, `InstallationClaimService`, `UserController`, `DangerousFeatureService`, the settings forms |
| `Wayfinder` | the URL builder: paths, queries (an object in one is its leaves, each with its brackets), merging into the query of the page, forms with a spoofed verb | `resources/js/wayfinder/index.ts` and the body every generated function has |
| `NamedRoutes`, `ActionRoutes` | the generated functions: name or handler, verbs, path | `resources/js/routes`, `resources/js/actions` |
| `ServerRoutes` | the routes of the server with their gates, and the router | `routes/web.php`, `routes/settings.php`, Fortify's routes |
| `Pages` | what each page offers its viewer, and what it fetches by itself | `resources/js/pages`, `components`, `layouts` |
| `WebSession` | composes these: one browser, one server, the session between them | middleware, `FortifyServiceProvider`, the controllers that redirect |
| `*_proofs` | theorems about the module of that name; the one about the offers of the pages is in `WebSession_offers_proofs`, the one about the end of visits in `WebSession_visits_proofs` | |
| `MC*`, `*.cfg` | instances for TLC | |

A definition marked "Mutation:" is a wrong version of the definition after it.
No specification uses it; it takes the place of the right one to show that a
property notices.

### RunLedger and CollectionControl

`RunLedger` is what the panel promises of collections and nothing else: rows
with a status among waiting, dispatched, running and three closed ones, a
device, a trigger, an attempt and a parent.  A set of rows is dispatched within
the limits, a diagnostic past them; a failure and its retry are one step.

`CollectionControl` is the code.  Its variables are the tables and the processes:

| Variable | Code |
|---|---|
| `run` | `collection_runs` in the order of ids; `due` is `scheduled_for <= now()`, `stale` is a deadline that has passed |
| `device` | the columns of `devices` that requests look at; `current` stands for fingerprint and safety policy, `cooling` for the manual cooldown |
| `queue`, `worker` | the `jobs` table and the worker's place in `DispatchDeviceCollection::handle` or `RunDeviceDiagnostic::handle` |
| `tick` | whoever holds `netkeep:collection-orchestrator`, with the ids it has read and not come to |
| `promoting` | a diagnostic between the transaction that creates it and the one that dispatches it |
| `engine`, `last`, `mail` | what Oxidized has accepted, what `/nodes.json` says, `node_fail` events on their way |

An action is a transaction or an answer: `TickFail`, `TickPush` and
`TickSchedule` are the bodies of the tick's loops, `TickDispatch` its one
transaction, `ValidationPasses`, `Admit` and `EngineAccepts` the three stages of
a job between which anything may happen.  The approval that a failed validation
invalidates is rolled back with its transaction, as in the code.

Abstractions: sites and limits are constant; the lock of the tick is exclusive
(its time to live exceeds a tick); the ten-minute window in which an event or a
result is attributed to a run, and the age of a run, are replaced by results
that remember the run they ended in and by events that may be lost;
`DispatchCollections`, which a request queues so as not to wait for the next
minute, is a tick like any other; the trigger of a model test is unused by the
code; backup rows, alerts and the events' own table change no run and are left
out.

### Restore

| Variable | Code |
|---|---|
| `pc` | the next statement of `prepare`, `apply`, `rollback`, `finalize` |
| `mem`, `file` | `$state` and `state.json`: status, whether `stageDirectories` is recorded, the directories that existed, `rollback_database` |
| `db` | the four names of databases, each with an old, a new or a partial content and ALLOW_CONNECTIONS |
| `dirs`, `secrets` | live, incoming and previous contents; six secret files in two groups |
| `marker` | the maintenance marker and artisan's `down`, one flag |
| `tick`, `run`, `job` | `schedule:run`, a collection and a queued job of the old database |

There is one operation and one command at a time.  A plain directory is renamed
as a whole, the Git repository entry by entry, as the code does.  An `Error` may
be thrown by any step and starts the code's automatic rollback; `Crash` may fall
between any two steps and leaves whatever is on disk.  An error while the
archive is being staged leaves nothing that a later command trusts and is not
distinguished.

### UpdateExchange

| Variable | Code |
|---|---|
| `op` | `update_operations`: status, `from_version`, `target_version` |
| `job` | the job of each operation, dead ones included: they come back after `retry_after` (7500 s) and fail, as `$tries = 1` |
| `published`, `marker`, `file` | `requests/<uuid>`, `queue/<uuid>` or its `.processing`, `status/<uuid>.json` |
| `rec` | the place of `UpdateStatusReconciler::reconcile` in its loop, and what it has read |
| `updater` | the place of `processNext`/`process`, and the state an error will be reported as |
| `compose`, `previous`, `app` | `compose.yaml`, `compose.previous.yaml`, the running containers |
| `mishaps` | history: what has happened to an operation that no code repairs |

Versions are numbers in order of precedence; a release newer than the running
one may be known at any time.  What the manifest must satisfy is abstracted as a
check that passes (`Verifies`) or fails (`Fails`).  The updater brings itself up
last; when that replaces it, the marker stays as `.processing`.  Snapshots of
the database and their pruning are left out.

Some accidents nothing repairs: a request that dies between the transaction and
the queue (`undispatched`), a job that is failed after it has published
(`published`), an updater that dies with a request in hand (`abandoned`), a
status that cannot be written (`unwritten`), a result deleted unread (`unread`).
They are not hidden in weaker actions: the properties name the mishaps they
depend on, so each says which accidents it survives.

### Accounts

| Variable | Code |
|---|---|
| `users` | the rows of `users`: role and `is_active` |
| `claim` | the token file: `initial:`, `recovery:` or `invalidated` |
| `lock` | who holds `netkeep:first-owner` (fifteen seconds) |
| `ready` | `setup_completed_at` |
| `settings` | the JSON column of `organizations`: whether a dangerous feature is on, and the rest as one value |
| `requests` | the place of each request in its handler, with the rows it has read |

A handler is cut where another request may come in between: the user is read
when the request is admitted, its target when the route binds it, the row is
written later.  `UpdateWrites` writes what Eloquent writes, the fields that
differ from the row that was read, so a late change of a role does not restore
what it never looked at.  `TransferWrites` is one transaction, refused as a
whole by the index `users_one_owner` (`OwnerIfNot`).  `LockExpires` lets the
lock of a registration run out in the middle, and `Dies` ends any request
anywhere.  What a request asks for is chosen where the handler first uses it,
which is the same as choosing it first and keeps the instance small.  Changes of
names and addresses, e-mails and the audit log are left out.

Two things the model shows are not as the documentation says.  A change of role
that was checked before a transfer and is written after it leaves no owner at
all: nobody may invite one, `update()` makes none, and the registration refuses
once there are users, so the index alone does not give the "exatamente um
proprietário" of `docs/INSTALL.md:53`.  `OwnerLostByLateChange` pins this down
as the only way to lose the owner.  The same race, in either order, may leave an
owner who cannot sign in: the late change locks him out, or the transfer was
checked while he still had access (`UserController.php:116`) and is written
after he lost it.  `OwnerShutOutByRace` says that nothing else does.  And every form of the settings writes back
the whole column as it was read, so that a dangerous feature switched off
meanwhile, by hand or by a transfer, comes on again without the owner, against
`docs/ADMINISTRATION.md:175`.

### The front end and its server

| Variable | Code |
|---|---|
| `installed` | no user yet, no set-up yet, or ready |
| `user` | the viewer's row; `changes` bounds how often others change it |
| `session`, `confirmed`, `intended` | the session: guest, between password and second factor, or signed in; `auth.password_confirmed_at`; `url.intended` |
| `page` | the component the browser shows, its address, whose role it was drawn for, and whether it could be drawn |
| `request`, `answer` | the request on its way with the redirects it has taken, and what came of the last one |

`Pages` gives for each page the set of its offers, by role: links, buttons,
forms and fetches, each made by the generated function the page calls.  `Press`
takes an offer, `Open` follows a bookmark, `Serve` finds the route of the
request (`Resolve`) and `Answer` passes it through the gates of that route in
their order, and then through the handler as far as it matters here: whom it signs in, where it
redirects, which further role or confirmation it asks for.  Meanwhile others
change the viewer's role or lock him out, in two steps as in the code (the row,
then the sessions), the session expires and the confirmation ages.

Rows are one of each kind.  What a form contains is not modelled, only that it
may be refused.  The arguments of a generated function are the values in the
order of its parameters.  The intended address is kept as a path; Laravel's own
controllers are modelled by what they do for this application.

`GeneratedIsServed` and `MergeKeepsOthers` ask something of operators that no
variable enters; they are evaluated where a session starts.  The one hundred and
more generated functions are checked against the routes in every verb, as a
call and as a form, with and without a query.

Two exceptions are written into the properties, because the code has them: a
guest who opens `/restore` gets a page whose sidebar reads the role of a user who
is not there (`app-sidebar.tsx:37`), and the gate of a diagnostic remembers an
address that only accepts a form (`EnsureRecentPassword.php:22`), so that
confirming the password leads to an error.

## What the runs check

"Violation" runs show a disagreement of code and documentation that is
explained in `PROJECT.json` under findings.

| Run | Instance | What it shows |
|---|---|---|
| `one` | 1 device, 3 runs, 2 waiting jobs, 1 retry, unreachable Oxidized, late jobs | `AtMostOnePending`, `RetryChain`, `NeverRestarted` however manual, scheduled, retried and diagnostic runs meet late and duplicated jobs |
| `admin` | 1 device, 2 runs, every administrative operation, DNS and network failures | `KeepsLedger`: the refinement of `RunLedger`, while the device is approved, revoked, edited, imported, deleted |
| `sites` | 2 devices of one site, limits 2 and 1, late jobs | `ProductionWithinLimits` although dispatched runs are requeued and diagnostics pass the limits by |
| `live` | 1 device, lost events, 1 crash, early versions, network failures | `RunsSettle`: every requested run ends; `AcceptedHasStarted` |
| `stall` (violation) | 2 devices, 1 revoked while it runs | `TickIsFallback`: the tick fails on the same run every minute and never dispatches the other device's |
| `restore` | 2 entries, 3 errors or deaths at any step | `OldDatabaseKept`, `AppliedIsUndone`, `JobsAreDone`, `RestoredTogether` |
| `restore_unmoved` (violation) | 1 error | `DirectoriesAreBack`: a rollback deletes directories that were never moved |
| `restore_wait` (violation) | no fault | `RunsFinish`: the collections `apply` waits for cannot end in maintenance |
| `updates` | 2 operations, 3 releases, 1 accident of six kinds | `OneInFlight`, `ShownIsTrue`, `NoDowngrade`, `OperationsEnd` |
| `updates_unread` (violation) | 1 operation, no accident | `ResultsAreRead`: the reconciler deletes a result it has not read |
| `web` | every page and route, 2 first roles, 7 bookmarks, 1 change behind the viewer's back, 4 redirects | `OfferedIsAccepted`, `PagesAreDrawn`, `RememberedIsReadable`, `VisitsEnd`, `LockedOutStaysOut`, `GeneratedIsServed`, `MergeKeepsOthers` |
| `accounts` | 3 people, 2 requests at once, 3 roles in forms, deaths, an expiring lock | `AtMostOneOwner`, `OwnershipHandedOver`, `OwnerLostByLateChange`, `OwnerShutOutByRace` |

The restore has one more disagreement that `AppliedIsUndone` excludes in its
premise: `apply` notes that the database was renamed only after both renames
(`RestoreCoordinator.php:109`), so that an error between them is "rolled back"
without a database in service.

Why the bounds are enough.  The indexes and row locks of collections are per
device, so one device with a manual run, its retry and a diagnostic (three
rows) shows every pair of rows that can meet; limits need two devices and one
slot; a stalled tick needs two devices.  Two waiting jobs are a late one and its
successor.  One retry of three reaches both ends of a chain.  A restore that
fails, is rolled back, fails again and is rolled back again takes two faults;
the third falls into the repetition.  Two operations among three releases let a
request be overtaken by one for an older or a newer release; a second accident
adds nothing to an operation that has had one of the unrepaired kind, and the
theorems hold for any number.  Losing the owner takes a change and a transfer at
once; a second owner takes two transfers to different people, which is three
people, or two registrations.  `MaxHops = 4` is the longest chain there is:
with three `VisitsEnd` fails, and `EveryVisitEnds` proves four enough for every
instance, so it is not a bound that hides a longer one.  The
two roles the viewer has at first stand for those who may and who may not manage;
a change behind his back takes the operator to the others.  `RoomFor` reserves the rows for the retries that
pending runs may need, so the bound never suppresses a retry.

`CHECK_DEADLOCK FALSE` stands where the instance may stop: all the rows its
bound allows are settled, the one restore is completed, all operations are over.

### Fairness

`CollectionControl`: weak fairness of the tick (`everyMinute`), of the worker
and of Oxidized as processes, of a web request that has begun, and of time
(delays and deadlines pass).  No fairness for requests, events, faults,
administration or crashes: an event may never arrive, the deadline does.
`Restore`: the command in progress goes on, jobs and ticks begin and end, and a
run settles where it can.  `UpdateExchange`: the request that has created an
operation queues its job, the worker serves its queue, the updater polls every
two seconds, the reconciler runs every ten.  `Accounts` and `WebSession` state
no liveness and assume no fairness.

## What is proved

All proofs are checked by TLAPS for every value of the constants under the
assumptions stated in the modules (`ConstantsAssumption`, `LedgerAssumption`,
`RestoreAssumption`, `UpdateAssumption`, `FormRolesAssumption`, `SessionAssumption`): finite bounds are natural numbers,
sites are given for every device, the Git entry is an entry, the first version
is a version, bookmarks are paths.

* `RunLedger_proofs`: the ledger is typed, has at most one open run per device,
  linear bounded retry chains, respects its limits and restarts nothing.
* `CollectionControl_proofs`: `StateTyped`, and `ImplementsLedger`: every step
  of every process is a step of the ledger or leaves it alone.  The inductive
  invariant is `TypeOK /\ PromotesDiagnostics /\ L!WithinLimits`.  Types alone
  do not do, since a row that is promoted past the limits must be a diagnostic;
  the limits are needed since the tick computes free slots from the rows as they
  are.  Each action is first shown to be one of a few kinds of change of the
  rows (`StepRuns`), and each kind to be a step of the ledger
  (`StepIsLedgerStep`).  `OnePending`, `RetriesContinue`, `LimitsHold` and
  `StartsOnce` follow from the ledger's theorems by the refinement.  `OnePending`
  also says that the index `collection_runs_one_pending_per_device` never fires.
  `OxidizedWorksForBegun` needs one conjunct more, that the run the worker is
  about to hand over has begun.
* `Restore_proofs`: `OldDatabaseIsKept` for any number of errors and deaths and
  any directory contents.  The invariant says where the old database can be:
  under `current` while no `previous` exists, or under `previous` alone, in
  particular at every step that drops or renames.  `JobsAreDoneHolds` adds where
  the worker may be while the marker stands, `RestoreTyped` the types.
  `AppliedIsUndoneWhole`: that a rollback which says
  it has succeeded has brought everything back, for any number of entries,
  errors and deaths.  `AppliedIsUndone` speaks of the end of a rollback and is
  not inductive.  What carries it is where the old contents are at each
  statement: which command is at work under which recorded state (`Phases`),
  that `apply`, until it is done, has each directory and the database in place or
  aside (`NothingLost`), that what was applied stays undoable as long as there is
  a `previous` database, however many rollbacks have been begun (`KeptWhole`),
  and that a rollback has brought back what is behind it and finds the rest as
  `apply` left it (`BroughtBack`).  `AppliedStaysTogether`: `RestoredTogether` is
  not inductive either.  It needs the two orders it comes from, that `apply` has
  moved in what is behind it and writes `applied` last (`MovedIn`), and that a
  rollback takes the restored database out of service before it touches a
  directory (`TakenOut`).
* `UpdateExchange_proofs`: `UpdatesTyped`, `UpdatesStayApart`, `VersionsGoUp`.
  The invariant has four parts: which files and jobs an operation may have
  together (`Links`), that whoever has a result on file is out of the updater's
  hands (`Words`), that a request past its check is not behind the running
  version (`Upwards`), and that, unless a published request was failed, whatever
  is queued, worked at or being written is the one active operation
  (`Exclusive`).  `ShownStaysTrue` follows a statement on its whole way, from
  the marker to the updater, its status file, what the reconciler has read of it
  and the row the panel shows: each of them is true of the containers that run,
  under the accidents that the property names.

* `Accounts_proofs`: `AccountsTyped`, `OneOwnerAtMost`, `HandedOverByTheOwner`,
  `LostByOneRace` and `ShutOutByOneRace`, for any number of users and of requests at once.  The
  inductive invariant is `TypeOK /\ TargetsExist /\ AtMostOneOwner`; the types
  say that no change that waits to be written makes an owner.  A step is first
  shown to do one of four things to the rows (`RowsSteps`), then what each does
  to who is the owner (`OwnersAfter`), from which the first four follow.
  `ShutOutByOneRace` adds what each does to who has access, and when a request
  that waits to write comes to be the late half of the race: only by a step of the
  other half (`ShutsOutByTransfer` and its counterpart).

* `WebSession_proofs`: `SessionTyped`, `NobodyLockedOutGetsIn`,
  `EveryPageIsDrawn` and `RememberedCanBeRead`, for every set of bookmarks, all
  first roles and any number of changes behind the viewer's back.  The invariant
  `SessionInv` has four parts: the types (`Typed`), that the page was drawn and stands at an
  address that can be read again (`Paged`), that what is on its way is an offer of
  some page or a visit (`Requested`), and that only addresses that can be read
  are remembered, but for the one exception the property names (`Remembered`).
  The lemmas below it go through the tables: that every generated function makes
  a path, and which routes read.
* `WebSession_offers_proofs`: `OffersAreAccepted`, that `OfferedIsAccepted` holds
  whatever is bookmarked and however often roles change.  A path tells which
  role its routes can ask for (`ForOwner`, `ForAdmins`, `ForStaff`, `ForUsers`);
  every route of every table keeps to it (`RoutesAreKnown`), and every page offers a
  role only what reaches a route and is open to that role (`OffersSuit`), but for
  the registration before the first user and the form of the restore, which is no
  matter of a gate.  The property is about the moment of the answer and not
  inductive: what it needs besides `SessionInv` is that a page is only ever open
  for the role it is for, that until the set-up is done the owner is alone
  (`Placed`), and that what is on its way was on the page (`Pressed`).
* `WebSession_visits_proofs`: `EveryVisitEnds`, that four redirects are the most
  for every set of bookmarks, all first roles and any number of changes on the way.
  The argument is a distance: `Far` says how many redirects an address may still
  take in the state the session is in, and the invariant is that the redirects
  taken and those `Left` are four together at most (`Nearing`; an offer of a page
  is at its first step).  Every redirect
  leads to a nearer address, and nothing that happens meanwhile, no change of the
  role, lock-out, expiry of the session or of the confirmation, moves a request
  further away; where the login leads back to and where a page may take its
  viewer are kept near too (`ReturnsNear`, `PagesNear`).

Only model-checked: `GeneratedIsServed`, two finite tables which TLC evaluates
completely, so that a proof would say no more; `MergeKeepsOthers`, about folds
and selections over sequences of any length, which need an induction over data;
and liveness (`RunsSettle`, `OperationsEnd`, and the
violated `TickIsFallback`, `RunsFinish`), which is out of the prover's reach.

## Plan

1. Done: the ledger and the collection control, with its refinement proved.
2. Done: the restore; the exchange of updates; the accounts; the front end, its
   routes and its gates; the proofs of all of them but for what is named above.
3. The diagnostic's sandbox: the configuration it activates and restores, the
   controller's mutex, its restart and its shutdown (`DeviceDiagnosticService`,
   `SandboxConfigurationService`, `SandboxLock`, `sandbox-controller`).
4. The full backup: `RunFullBackup` with its three tries, its lock, the state of
   a destination, retention.
5. Custom models: versions between test, publication and rollback.
6. The traces of collections, releases and their precedence as pure operators
   checked against reference definitions; the polling of an update's progress
   by the page that shows it.
7. Proofs of the safety of 3-5.

## What is not modelled

The wording and the widgets of the front end, rendering of configurations,
notifications, the files of the TLS proxy, credential profiles and the Git
history keep no state whose order matters, or act behind one row lock or one
external program; `PROJECT.json` gives the reason for
each part.  Address checks (`NetworkTargetGuard`) are an input of the models.
Oxidized, PostgreSQL and Docker are modelled by what the code relies on.
