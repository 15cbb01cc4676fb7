------------------------ MODULE CollectionControl_proofs ------------------------
(***************************************************************************)
(* Whatever the number of devices, rows, retries and faults: the state of  *)
(* the collection control is well typed, and what its steps do to the runs *)
(* is what RunLedger allows.                                               *)
(***************************************************************************)
EXTENDS CollectionControl, FiniteSetTheorems, SequenceTheorems,
        WellFoundedInduction, TLAPS

Statuses == Pending \cup Final

LEMMA RowsTyped ==
  ASSUME TypeOK
  PROVE  /\ run \in Seq(Rows) /\ Len(run) \in Nat /\ Ids = 1..Len(run)
         /\ \A r \in Ids : run[r] \in Rows
BY DEF TypeOK, Ids

\* A set of naturals has a least and a bounded one a greatest element.
LEMMA Least ==
  ASSUME NEW T \in SUBSET Nat, T # {}
  PROVE  \E m \in T : \A n \in T : m <= n
<1>1. PICK m \in T : \A y \in T : <<y, m>> \notin OpToRel(<, Nat)
  BY NatLessThanWellFounded, WFMin
<1>2. \A y \in T : ~(y < m)
  BY <1>1 DEF OpToRel
<1> QED
  BY <1>2

LEMMA Last ==
  ASSUME NEW n \in Nat, NEW B, NEW place, B # {}, \A b \in B : place[b] \in 1..n
  PROVE  \E c \in B : \A b \in B : place[b] <= place[c]
<1> DEFINE T == {n - place[b] : b \in B}
<1>1. T \in SUBSET Nat /\ T # {}
  OBVIOUS
<1>2. PICK m \in T : \A k \in T : m <= k
  <2> HIDE DEF T
  <2> QED
    BY <1>1, Least
<1>3. PICK c \in B : m = n - place[c]
  OBVIOUS
<1>4. \A b \in B : n - place[c] <= n - place[b]
  BY <1>2, <1>3
<1> QED
  BY <1>4

LEMMA Greatest ==
  ASSUME NEW n \in Nat, NEW T \in SUBSET (1..n), T # {}
  PROVE  \E m \in T : \A q \in T : q <= m
<1> DEFINE place == [t \in T |-> t]
<1>1. \A t \in T : place[t] = t /\ place[t] \in 1..n
  OBVIOUS
<1> HIDE DEF place
<1>2. \E c \in T : \A b \in T : place[b] <= place[c]
  BY <1>1, Last
<1> QED
  BY <1>1, <1>2

-----------------------------------------------------------------------------
(* What a step does to the rows                                            *)

\* The runs stay the same, but for what time and the dispatch make of them.
SameRuns ==
  /\ run' \in Seq(Rows) /\ Ids' = Ids
  /\ \A r \in Ids : /\ run'[r].device = run[r].device
                    /\ run'[r].trigger = run[r].trigger
                    /\ run'[r].attempt = run[r].attempt
                    /\ run'[r].parent = run[r].parent

\* The runs of S take a status, the others keep theirs.
Take(S, status) ==
  /\ SameRuns
  /\ \A r \in Ids : run'[r].status = IF r \in S THEN status ELSE run[r].status

LEMMA FunctionIsSequence ==
  ASSUME NEW S, NEW n \in Nat, NEW f \in [1..n -> S]
  PROVE  f \in Seq(S) /\ Len(f) = n
OBVIOUS

Rewritten(row, status, stale) == [row EXCEPT !.status = status, !.stale = stale]

LEMMA RewrittenFields ==
  ASSUME NEW row \in Rows, NEW status \in Statuses, NEW stale \in BOOLEAN
  PROVE  /\ Rewritten(row, status, stale) \in Rows
         /\ Rewritten(row, status, stale).status = status
         /\ Rewritten(row, status, stale).device = row.device
         /\ Rewritten(row, status, stale).trigger = row.trigger
         /\ Rewritten(row, status, stale).attempt = row.attempt
         /\ Rewritten(row, status, stale).parent = row.parent
BY DEF Rows, Statuses, Rewritten

\* A step that rewrites the rows of S.
LEMMA RewrittenRows ==
  ASSUME TypeOK, NEW S \in SUBSET Ids, NEW status \in Statuses, NEW stale \in BOOLEAN,
         run' = [r \in Ids |-> IF r \in S THEN Rewritten(run[r], status, stale)
                               ELSE run[r]]
  PROVE  Take(S, status)
<1>1. /\ Len(run) \in Nat /\ Ids = 1..Len(run)
      /\ \A r \in Ids : run[r] \in Rows
  BY RowsTyped
<1>2. \A r \in Ids : /\ run'[r] = IF r \in S THEN Rewritten(run[r], status, stale)
                                  ELSE run[r]
                     /\ run'[r] \in Rows
  BY <1>1, RewrittenFields
<1>3. run' \in [1..Len(run) -> Rows]
  BY <1>1, <1>2
<1>4. run' \in Seq(Rows) /\ Len(run') = Len(run)
  BY <1>1, <1>3, FunctionIsSequence
<1>5. \A r \in Ids :
        /\ run'[r].status = IF r \in S THEN status ELSE run[r].status
        /\ run'[r].device = run[r].device /\ run'[r].trigger = run[r].trigger
        /\ run'[r].attempt = run[r].attempt /\ run'[r].parent = run[r].parent
  BY <1>1, <1>2, RewrittenFields
<1> QED
  BY <1>1, <1>4, <1>5 DEF Take, SameRuns, Ids

\* A step that rewrites one row.
LEMMA RewrittenRow ==
  ASSUME TypeOK, NEW r \in Ids, NEW status \in Statuses, NEW stale \in BOOLEAN
  PROVE  run' = [run EXCEPT ![r].status = status, ![r].stale = stale]
           => Take({r}, status)
<1>1. run = [q \in Ids |-> run[q]]
  BY RowsTyped
<1>2. ASSUME run' = [run EXCEPT ![r].status = status, ![r].stale = stale],
             NEW S \in SUBSET Ids, S = {r}
      PROVE  Take(S, status)
  <2>1. \A q \in Ids : q \in S <=> q = r
    BY <1>2
  <2>2. run' = [q \in Ids |-> IF q \in S THEN Rewritten(run[q], status, stale)
                              ELSE run[q]]
    BY <1>1, <1>2, <2>1 DEF Rewritten
  <2> QED
    BY <2>2, RewrittenRows
<1> QED
  BY <1>2

\* A row that comes after the others.
LEMMA AppendedRow ==
  ASSUME TypeOK, NEW before \in Seq(Rows), Len(before) = Len(run),
         NEW row \in Rows, run' = Append(before, row)
  PROVE  /\ run' \in Seq(Rows) /\ Len(run) \in Nat
         /\ Ids' = Ids \cup {Len(run) + 1} /\ Len(run) + 1 \notin Ids
         /\ run'[Len(run) + 1] = row
         /\ \A r \in Ids : run'[r] = before[r]
BY RowsTyped DEF Ids

-----------------------------------------------------------------------------
(* The kinds of steps                                                      *)

Requested(d, trigger) ==
  /\ PendingRuns(d) = {}
  /\ run' = Append(run, NewRow(d, trigger, 1, 0, TRUE))

Retried(r) ==
  /\ run[r].status \in Active /\ run[r].attempt <= Retries
  /\ PendingRuns(run[r].device) = {r}
  /\ run' = Append(Settled(r, "failed"),
                   NewRow(run[r].device, "retry", run[r].attempt + 1, r, FALSE))

Closing(r, outcome) ==
  /\ outcome = "succeeded" => run[r].status = "running"
  /\ outcome = "failed" => run[r].status \in Active
  /\ Take({r}, outcome)

LEMMA Settling ==
  ASSUME TypeOK, NEW r \in Ids, NEW outcome \in Final, run' = Settled(r, outcome)
  PROVE  Take({r}, outcome)
BY RewrittenRow DEF Settled, Statuses

\* What fail(), succeed() and cancel() do.
Settles(r) == \/ Take({}, "failed")
              \/ Retried(r)
              \/ \E outcome \in Final : Closing(r, outcome)

LEMMA Unchanged == ASSUME TypeOK, run' = run PROVE \A status : Take({}, status)
BY RowsTyped DEF Take, SameRuns, Ids

LEMMA FailSettles ==
  ASSUME TypeOK, NEW r \in Ids, NEW resolved \in BOOLEAN, Fail(r, resolved)
  PROVE  Settles(r)
<1>1. CASE run[r].status \notin Active
  BY <1>1, Unchanged DEF Fail, Settles
<1>2. CASE run[r].status \in Active /\ NeedsRetry(r) /\ PendingRuns(run[r].device) = {r}
  BY <1>2 DEF Fail, Settles, Retried, NeedsRetry
<1>3. CASE /\ run[r].status \in Active
           /\ ~(NeedsRetry(r) /\ PendingRuns(run[r].device) = {r})
  <2>1. run' = Settled(r, "failed")
    BY <1>3 DEF Fail
  <2>2. Take({r}, "failed")
    BY <2>1, Settling DEF Final
  <2> QED
    BY <1>3, <2>2 DEF Settles, Closing, Final
<1> QED
  BY <1>1, <1>2, <1>3

LEMMA SucceedSettles ==
  ASSUME TypeOK, NEW r \in Ids, Succeed(r) PROVE Settles(r)
<1>1. CASE run[r].status = "running"
  <2>1. run' = Settled(r, "succeeded")
    BY <1>1 DEF Succeed
  <2>2. Take({r}, "succeeded")
    BY <2>1, Settling DEF Final
  <2> QED
    BY <1>1, <2>2 DEF Settles, Closing, Final
<1>2. CASE run[r].status # "running"
  BY <1>2, Unchanged DEF Succeed, Settles
<1> QED
  BY <1>1, <1>2

LEMMA CancelSettles ==
  ASSUME TypeOK, NEW r \in Ids, Cancel(r) PROVE Settles(r)
<1>1. CASE run[r].status \in Active
  <2>1. run' = Settled(r, "cancelled")
    BY <1>1 DEF Cancel
  <2>2. Take({r}, "cancelled")
    BY <2>1, Settling DEF Final
  <2> QED
    BY <2>2 DEF Settles, Closing, Final
<1>2. CASE run[r].status \notin Active
  BY <1>2, Unchanged DEF Cancel, Settles
<1> QED
  BY <1>1, <1>2
\* What a web request leaves to be dispatched later is a diagnostic.
PromotesDiagnostics == \A r \in promoting : run[r].trigger = "diagnostic"

Begun(r) == run[r].status = "dispatched" /\ Take({r}, "running")

Requeued(S) == (\A r \in S : run[r].status = "dispatched") /\ Take(S, "queued")

Promoted(r) ==
  /\ run[r].status = "queued" /\ run[r].trigger = "diagnostic"
  /\ Take({r}, "dispatched")

Dispatched(place, batch) == IsBatch(batch, place) /\ Take(batch, "dispatched")

RunKinds ==
  \/ Take({}, "queued")
  \/ \E d \in Devices, trigger \in {"manual", "scheduled", "diagnostic"} :
       Requested(d, trigger)
  \/ \E r \in Ids : Settles(r) \/ Begun(r) \/ Promoted(r)
  \/ \E S \in SUBSET Ids : Requeued(S)
  \/ \E place \in Orders, batch \in SUBSET Candidates : Dispatched(place, batch)

LEMMA UnchangedRuns == TypeOK /\ run' = run => RunKinds
BY Unchanged DEF RunKinds

LEMMA WebRuns == TypeOK /\ Web => RunKinds
BY DEF Web, ManualRequest, DiagnosticRequest, RunKinds, Requested

LEMMA PromotionRuns ==
  ASSUME TypeOK, PromotesDiagnostics, NEW r \in Ids, DiagnosticDispatch(r)
  PROVE  RunKinds
<1>1. CASE run[r].status = "queued"
  <2>1. run' = [run EXCEPT ![r].status = "dispatched", ![r].stale = FALSE]
    BY <1>1 DEF DiagnosticDispatch
  <2>2. Take({r}, "dispatched")
    BY <2>1, RewrittenRow DEF Statuses, Pending, Active
  <2> QED
    BY <1>1, <2>2 DEF DiagnosticDispatch, PromotesDiagnostics, RunKinds, Promoted
<1>2. CASE run[r].status # "queued"
  BY <1>2, UnchangedRuns DEF DiagnosticDispatch
<1> QED
  BY <1>1, <1>2

LEMMA RecoveredRows ==
  ASSUME TypeOK PROVE run' = Recovered({"dispatched"}) => RunKinds
<1>1. ASSUME run' = Recovered({"dispatched"}),
             NEW S \in SUBSET Ids,
             S = {r \in Ids : run[r].status = "dispatched" /\ run[r].stale}
      PROVE  Requeued(S)
  <2>1. \A r \in Ids : r \in S <=> run[r].status \in {"dispatched"} /\ run[r].stale
    BY <1>1
  <2>2. run' = [r \in Ids |-> IF r \in S THEN Rewritten(run[r], "queued", FALSE)
                              ELSE run[r]]
    BY <1>1, <2>1 DEF Recovered, Rewritten
  <2>3. Take(S, "queued")
    BY <2>2, RewrittenRows DEF Statuses, Pending, Waiting
  <2> QED
    BY <2>1, <2>3 DEF Requeued
<1> QED
  BY <1>1 DEF RunKinds

LEMMA BatchRows ==
  ASSUME TypeOK, NEW place \in Orders, NEW batch \in SUBSET Candidates
  PROVE  /\ IsBatch(batch, place)
         /\ run' = [r \in Ids |-> IF r \in batch
              THEN [run[r] EXCEPT !.status = "dispatched", !.stale = FALSE] ELSE run[r]]
         => RunKinds
<1>1. ASSUME IsBatch(batch, place),
             run' = [r \in Ids |-> IF r \in batch
               THEN [run[r] EXCEPT !.status = "dispatched", !.stale = FALSE] ELSE run[r]]
      PROVE  Dispatched(place, batch)
  <2>1. run' = [r \in Ids |-> IF r \in batch THEN Rewritten(run[r], "dispatched", FALSE)
                              ELSE run[r]]
    BY <1>1 DEF Rewritten
  <2>2. batch \in SUBSET Ids /\ "dispatched" \in Statuses
    BY DEF Candidates, Statuses, Pending, Active
  <2>3. Take(batch, "dispatched")
    BY <2>1, <2>2, RewrittenRows
  <2> QED
    BY <1>1, <2>3 DEF Dispatched
<1> QED
  BY <1>1 DEF RunKinds

LEMMA TickRuns == TypeOK /\ Tick => RunKinds
<1> SUFFICES ASSUME TypeOK, Tick PROVE RunKinds
  OBVIOUS
<1>1. CASE TickStart
  BY <1>1, RecoveredRows DEF TickStart
<1>2. CASE TickDue
  BY <1>2, UnchangedRuns DEF TickDue
<1>3. CASE TickDispatch
  <2>1. PICK place \in Orders, batch \in SUBSET Candidates :
          /\ IsBatch(batch, place)
          /\ \/ run' = run
             \/ run' = [r \in Ids |-> IF r \in batch
                  THEN [run[r] EXCEPT !.status = "dispatched", !.stale = FALSE] ELSE run[r]]
    BY <1>3 DEF TickDispatch
  <2> QED
    BY <2>1, BatchRows, UnchangedRuns
<1>4. CASE TickEnd
  BY <1>4, UnchangedRuns DEF TickEnd
<1>5. ASSUME NEW r \in Ids, TickFail(r) PROVE RunKinds
  BY <1>5, FailSettles DEF TickFail, RunKinds, Resolutions
<1>6. ASSUME NEW r \in Ids, TickFailThrows(r) \/ TickPush(r) PROVE RunKinds
  BY <1>6, UnchangedRuns DEF TickFailThrows, TickPush
<1>7. ASSUME NEW d \in Devices, TickSchedule(d) PROVE RunKinds
  <2>1. run' = run \/ Requested(d, "scheduled")
    BY <1>7 DEF TickSchedule, Requested
  <2> QED
    BY <2>1, UnchangedRuns DEF RunKinds
<1>8. ASSUME NEW d \in Devices, TickSkip(d) PROVE RunKinds
  BY <1>8, UnchangedRuns DEF TickSkip
<1> QED
  BY <1>1, <1>2, <1>3, <1>4, <1>5, <1>6, <1>7, <1>8 DEF Tick

LEMMA HeadIsOne ==
  ASSUME NEW S, NEW q \in Seq(S), q # <<>> PROVE Head(q) \in S
  OBVIOUS

\* The job that noticed a stored version: it settles the run it was queued for.
LEMMA ReconciledRuns == TypeOK /\ JobReconciles => RunKinds
<1> SUFFICES ASSUME TypeOK, JobReconciles PROVE RunKinds
  OBVIOUS
<1>1. Head(queue).run \in Ids
  <2>1. queue \in Seq([kind : {"collect", "diagnose", "reconcile"}, run : Ids]) /\ queue # <<>>
    BY DEF TypeOK, JobReconciles
  <2>2. Head(queue) \in [kind : {"collect", "diagnose", "reconcile"}, run : Ids]
    BY <2>1, HeadIsOne
  <2> QED
    BY <2>2
<1>2. PICK r \in Ids : \/ run' = run
                      \/ Succeed(r)
                      \/ \E resolved \in BOOLEAN : Fail(r, resolved)
  BY <1>1 DEF JobReconciles, MayFail, Resolutions
<1> QED
  BY <1>2, FailSettles, SucceedSettles, UnchangedRuns DEF RunKinds

LEMMA WorkerRuns == TypeOK /\ Worker => RunKinds
<1> SUFFICES ASSUME TypeOK, Worker PROVE RunKinds
  OBVIOUS
<1> USE DEF Resolutions
<1>1. CASE JobStart
  BY <1>1, UnchangedRuns DEF JobStart
<1>2. ASSUME NEW r \in Ids, ValidationPasses(r) \/ InspectionPasses(r) PROVE RunKinds
  BY <1>2, UnchangedRuns DEF ValidationPasses, InspectionPasses
<1>3. ASSUME NEW r \in Ids, ValidationFails(r) PROVE RunKinds
  BY <1>3, CancelSettles DEF ValidationFails, RunKinds
<1>4. ASSUME NEW r \in Ids, InspectionFails(r) PROVE RunKinds
  BY <1>4, CancelSettles, FailSettles DEF InspectionFails, RunKinds
<1>5. ASSUME NEW r \in Ids,
             run[r].status = "dispatched",
             run' = [run EXCEPT ![r].status = "running", ![r].stale = FALSE]
      PROVE  RunKinds
  <2>1. Take({r}, "running")
    BY <1>5, RewrittenRow DEF Statuses, Pending, Active
  <2> QED
    BY <1>5, <2>1 DEF RunKinds, Begun
<1>6. ASSUME NEW r \in Ids, Admit(r) PROVE RunKinds
  <2>1. \/ run' = run
        \/ run' = Settled(r, "cancelled")
        \/ /\ run[r].status = "dispatched"
           /\ run' = [run EXCEPT ![r].status = "running", ![r].stale = FALSE]
    BY <1>6 DEF Admit
  <2>2. ASSUME run' = Settled(r, "cancelled") PROVE RunKinds
    <3>1. Take({r}, "cancelled")
      BY <2>2, Settling DEF Final
    <3> QED
      BY <3>1 DEF RunKinds, Settles, Closing, Final
  <2> QED
    BY <1>5, <2>1, <2>2, UnchangedRuns
<1>7. ASSUME NEW r \in Ids, SandboxStart(r) PROVE RunKinds
  <2>1. \/ run' = run
        \/ Fail(r, TRUE)
        \/ /\ run[r].status = "dispatched"
           /\ run' = [run EXCEPT ![r].status = "running", ![r].stale = FALSE]
    BY <1>7, Zenon DEF SandboxStart
  <2>2. ASSUME Fail(r, TRUE) PROVE RunKinds
    BY <2>2, FailSettles DEF RunKinds
  <2> QED
    BY <1>5, <2>1, <2>2, UnchangedRuns
<1>8. ASSUME NEW r \in Ids, EngineAccepts(r) \/ EngineWithoutDevice(r) PROVE RunKinds
  BY <1>8, UnchangedRuns DEF EngineAccepts, EngineWithoutDevice
<1>9. ASSUME NEW r \in Ids, EngineRejects(r) PROVE RunKinds
  BY <1>9, FailSettles, UnchangedRuns DEF EngineRejects, MayFail, RunKinds
<1>10. ASSUME NEW r \in Ids, SandboxResult(r) PROVE RunKinds
  BY <1>10, FailSettles, SucceedSettles DEF SandboxResult, RunKinds
<1> QED
  BY ReconciledRuns, <1>1, <1>2, <1>3, <1>4, <1>6, <1>7, <1>8, <1>9, <1>10
     DEF Worker, Validation, Admission, Conclusion
LEMMA LatestIsOne ==
  ASSUME TypeOK, NEW S \in SUBSET Ids, S # {} PROVE Latest(S) \in S
<1>1. \E m \in S : \A q \in S : q <= m
  BY RowsTyped, Greatest
<1> QED
  BY <1>1 DEF Latest

LEMMA ReportRuns == TypeOK /\ Reports => RunKinds
<1> SUFFICES ASSUME TypeOK, Reports PROVE RunKinds
  OBVIOUS
<1> USE DEF Resolutions
<1>1. ASSUME NEW s \in Ids, NodeFail(s) PROVE RunKinds
  <2> DEFINE active == {r \in ActiveRuns : run[r].device = run[s].device}
  <2>1. CASE run' = run
    BY <2>1, UnchangedRuns
  <2>2. CASE run' # run
    <3>1. active # {} /\ \E resolved \in BOOLEAN : Fail(Latest(active), resolved)
      BY <1>1, <2>2 DEF NodeFail, MayFail
    <3>2. active \in SUBSET Ids
      BY DEF ActiveRuns
    <3>3. Latest(active) \in Ids
      <4> HIDE DEF active
      <4> QED
        BY <3>1, <3>2, LatestIsOne
    <3> QED
      BY <3>1, <3>3, FailSettles DEF RunKinds
  <2> QED
    BY <2>1, <2>2
<1>2. ASSUME NEW r \in Ids, ReconcileStale(r) PROVE RunKinds
  BY <1>2, FailSettles DEF ReconcileStale, RunKinds
<1>3. ASSUME NEW d \in Devices, Reconcile(d) PROVE RunKinds
  <2>1. PICK r : r = Latest(RunningRuns(d)) /\ (Succeed(r) \/ \E resolved \in BOOLEAN : Fail(r, resolved))
    BY <1>3 DEF Reconcile
  <2>2. RunningRuns(d) # {} /\ RunningRuns(d) \in SUBSET Ids
    BY <1>3 DEF Reconcile, RunningRuns
  <2>3. r \in Ids
    BY <2>1, <2>2, LatestIsOne
  <2> QED
    BY <2>1, <2>3, FailSettles, SucceedSettles DEF RunKinds
<1>4. ASSUME NEW d \in Devices, PostStore(d) PROVE RunKinds
  BY <1>4, UnchangedRuns DEF PostStore
<1> QED
  BY <1>1, <1>2, <1>3, <1>4 DEF Reports

\* Deadlines and due times leave every status as it is.
LEMMA TimeRuns == TypeOK /\ Time => RunKinds
<1> SUFFICES ASSUME TypeOK, Time PROVE RunKinds
  OBVIOUS
<1>0. /\ run = [q \in Ids |-> run[q]] /\ Ids = 1..Len(run) /\ Len(run) \in Nat
      /\ \A q \in Ids : run[q] \in Rows
  BY RowsTyped
<1>1. ASSUME NEW r \in Ids, NEW row \in Rows, run' = [run EXCEPT ![r] = row],
             row.status = run[r].status, row.device = run[r].device,
             row.trigger = run[r].trigger, row.attempt = run[r].attempt,
             row.parent = run[r].parent
      PROVE  RunKinds
  <2>1. run' = [q \in Ids |-> IF q = r THEN row ELSE run[q]]
    BY <1>0, <1>1
  <2>2. \A q \in Ids :
          /\ run'[q] \in Rows
          /\ run'[q].status = run[q].status
          /\ run'[q].device = run[q].device /\ run'[q].trigger = run[q].trigger
          /\ run'[q].attempt = run[q].attempt /\ run'[q].parent = run[q].parent
    BY <1>0, <1>1, <2>1
  <2>3. run' \in [1..Len(run) -> Rows]
    BY <1>0, <2>1
  <2>4. run' \in Seq(Rows) /\ Len(run') = Len(run)
    BY <1>0, <2>3, FunctionIsSequence
  <2> QED
    BY <2>2, <2>4 DEF RunKinds, Take, SameRuns, Ids
<1>2. ASSUME NEW r \in Ids, CooldownElapses(r) \/ DeadlinePasses(r) PROVE RunKinds
  <2> DEFINE row == IF CooldownElapses(r) THEN [run[r] EXCEPT !.due = TRUE]
                    ELSE [run[r] EXCEPT !.stale = TRUE]
  <2>1. run' = [run EXCEPT ![r] = row]
    BY <1>0, <1>2 DEF CooldownElapses, DeadlinePasses
  <2>2. /\ row \in Rows
        /\ row.status = run[r].status /\ row.device = run[r].device
        /\ row.trigger = run[r].trigger /\ row.attempt = run[r].attempt
        /\ row.parent = run[r].parent
    BY <1>0 DEF Rows
  <2> HIDE DEF row
  <2> QED
    BY <1>1, <2>1, <2>2
<1>3. ASSUME NEW d \in Devices, DeviceFallsDue(d) \/ ManualCooldownElapses(d) PROVE RunKinds
  BY <1>3, UnchangedRuns DEF DeviceFallsDue, ManualCooldownElapses, Change
<1> QED
  BY <1>2, <1>3 DEF Time

\* Every step does one of these things to the runs.
LEMMA StepRuns == TypeOK /\ PromotesDiagnostics /\ [Next]_vars => RunKinds
<1> SUFFICES ASSUME TypeOK, PromotesDiagnostics, [Next]_vars PROVE RunKinds
  OBVIOUS
<1>1. CASE Oxidized
  BY <1>1, UnchangedRuns DEF Oxidized, EngineDone
<1>2. CASE Administration
  BY <1>2, UnchangedRuns
     DEF Administration, Approve, Revoke, Inventory, Destroy, Import, Drift, Change
<1>3. CASE Crashes
  BY <1>3, UnchangedRuns DEF Crashes, SchedulerCrash, WorkerCrash, EventLost
<1>4. CASE UNCHANGED vars
  BY <1>4, UnchangedRuns DEF vars
<1> QED
  BY <1>1, <1>2, <1>3, <1>4, WebRuns, PromotionRuns, TickRuns, WorkerRuns, ReportRuns,
     TimeRuns DEF Next
-----------------------------------------------------------------------------
(* Types                                                                   *)

LEMMA SettledRows ==
  ASSUME TypeOK, NEW r \in Ids, NEW outcome \in Final
  PROVE  /\ Settled(r, outcome) \in Seq(Rows)
         /\ Len(Settled(r, outcome)) = Len(run)
         /\ \A q \in Ids :
              Settled(r, outcome)[q] = IF q = r THEN Rewritten(run[q], outcome, FALSE)
                                       ELSE run[q]
<1>1. /\ run = [q \in Ids |-> run[q]] /\ Ids = 1..Len(run) /\ Len(run) \in Nat
      /\ \A q \in Ids : run[q] \in Rows
  BY RowsTyped
<1>2. Settled(r, outcome) = [q \in Ids |-> IF q = r THEN Rewritten(run[q], outcome, FALSE)
                                           ELSE run[q]]
  BY <1>1 DEF Settled, Rewritten
<1>3. \A q \in Ids : Rewritten(run[q], outcome, FALSE) \in Rows
  <2>1. outcome \in Statuses /\ FALSE \in BOOLEAN
    BY DEF Statuses
  <2> QED
    BY <1>1, <2>1, RewrittenFields
<1>4. Settled(r, outcome) \in [1..Len(run) -> Rows]
  BY <1>1, <1>2, <1>3
<1> QED
  BY <1>1, <1>2, <1>4, FunctionIsSequence

LEMMA RetriedRows ==
  ASSUME TypeOK, NEW r \in Ids, Retried(r)
  PROVE  /\ run' \in Seq(Rows) /\ Len(run) \in Nat
         /\ Ids' = Ids \cup {Len(run) + 1} /\ Len(run) + 1 \notin Ids
         /\ run'[Len(run) + 1].status \in Waiting
         /\ run'[Len(run) + 1].device = run[r].device
         /\ run'[Len(run) + 1].trigger = "retry"
         /\ run'[Len(run) + 1].attempt = run[r].attempt + 1
         /\ run'[Len(run) + 1].parent = r
         /\ \A q \in Ids : run'[q] = IF q = r THEN Rewritten(run[q], "failed", FALSE)
                                     ELSE run[q]
<1> DEFINE before == Settled(r, "failed")
           row == NewRow(run[r].device, "retry", run[r].attempt + 1, r, FALSE)
<1>1. /\ before \in Seq(Rows) /\ Len(before) = Len(run)
      /\ \A q \in Ids : before[q] = IF q = r THEN Rewritten(run[q], "failed", FALSE)
                                    ELSE run[q]
  BY SettledRows DEF Final
<1>2. /\ row \in Rows
      /\ row.status \in Waiting /\ row.device = run[r].device /\ row.trigger = "retry"
      /\ row.attempt = run[r].attempt + 1 /\ row.parent = r
  <2>1. /\ run[r].device \in Devices /\ run[r].attempt + 1 \in Nat /\ r \in Nat
        /\ "retry" \in Triggers /\ FALSE \in BOOLEAN
    BY RowsTyped DEF Rows, Triggers
  <2> QED
    BY <2>1 DEF NewRow, Rows, Pending, Waiting
<1>3. run' = Append(before, row)
  BY DEF Retried
<1> HIDE DEF before, row
<1> QED
  BY <1>1, <1>2, <1>3, AppendedRow

LEMMA RequestedRows ==
  ASSUME TypeOK, NEW d \in Devices,
         NEW trigger \in {"manual", "scheduled", "diagnostic"}, Requested(d, trigger)
  PROVE  /\ run' \in Seq(Rows) /\ Len(run) \in Nat
         /\ Ids' = Ids \cup {Len(run) + 1} /\ Len(run) + 1 \notin Ids
         /\ run'[Len(run) + 1].status \in Waiting
         /\ run'[Len(run) + 1].device = d
         /\ run'[Len(run) + 1].trigger = trigger
         /\ run'[Len(run) + 1].attempt = 1
         /\ run'[Len(run) + 1].parent = 0
         /\ \A q \in Ids : run'[q] = run[q]
<1> DEFINE row == NewRow(d, trigger, 1, 0, TRUE)
<1>1. /\ row \in Rows
      /\ row.status \in Waiting /\ row.device = d /\ row.trigger = trigger
      /\ row.attempt = 1 /\ row.parent = 0
  BY DEF NewRow, Rows, Pending, Waiting, Triggers
<1>2. run' = Append(run, row) /\ run \in Seq(Rows)
  BY RowsTyped DEF Requested
<1> HIDE DEF row
<1> QED
  BY <1>1, <1>2, AppendedRow

\* Rows are only added, and they stay rows; their triggers stay, too.
LEMMA RunsTyped ==
  ASSUME TypeOK, RunKinds
  PROVE  /\ run' \in Seq(Rows) /\ Ids \subseteq Ids'
         /\ \A r \in Ids : run'[r].trigger = run[r].trigger
<1>1. ASSUME NEW S, NEW status, Take(S, status)
      PROVE  /\ run' \in Seq(Rows) /\ Ids \subseteq Ids'
             /\ \A r \in Ids : run'[r].trigger = run[r].trigger
  BY <1>1 DEF Take, SameRuns
<1>2. ASSUME NEW r \in Ids, Retried(r)
      PROVE  /\ run' \in Seq(Rows) /\ Ids \subseteq Ids'
             /\ \A q \in Ids : run'[q].trigger = run[q].trigger
  <2>1. \A q \in Ids : Rewritten(run[q], "failed", FALSE).trigger = run[q].trigger
    <3>1. "failed" \in Statuses /\ FALSE \in BOOLEAN /\ \A q \in Ids : run[q] \in Rows
      BY RowsTyped DEF Statuses, Final
    <3> QED
      BY <3>1, RewrittenFields
  <2> QED
    BY <1>2, <2>1, RetriedRows
<1> QED
  BY <1>1, <1>2, RequestedRows
     DEF RunKinds, Settles, Closing, Begun, Promoted, Requeued, Dispatched
JobsOn(ids) == [kind : {"collect", "diagnose", "reconcile"}, run : ids]
Workers(ids) ==
  [pc : {"idle", "validate", "admit", "engine", "inspect", "enter", "await"},
   run : ids \cup {0}, device : {"missing", "drifted", "unapproved", "valid"}]
Ticks(ids) == [pc : {"idle", "recover", "schedule", "push"},
               runs : SUBSET ids, devices : SUBSET Devices]
Results(ids) == [ok : BOOLEAN, during : ids \cup {0}]

\* TypeOK, for the rows that a step leaves.
Typed(ids) ==
  /\ promoting \subseteq ids /\ queue \in Seq(JobsOn(ids))
  /\ worker \in Workers(ids) /\ (worker.pc # "idle" => worker.run \in ids)
  /\ tick \in Ticks(ids)
  /\ engine \in [Devices -> SUBSET ids] /\ last \in [Devices -> Results(ids)]
  /\ mail \subseteq ids

LEMMA TypesAreTyped ==
  TypeOK <=> /\ device \in [Devices -> DeviceRows] /\ run \in Seq(Rows)
             /\ crashes \in Nat /\ Typed(Ids)
BY DEF TypeOK, Typed, JobsOn, Workers, Ticks, Results

\* What is typed for some rows is typed for more.
LEMMA MoreRows ==
  ASSUME NEW ids, NEW more, ids \subseteq more, Typed(ids) PROVE Typed(more)
<1>1. queue \in Seq(JobsOn(more))
  <2>1. /\ queue \in Seq(JobsOn(ids)) /\ JobsOn(ids) \subseteq JobsOn(more)
    BY DEF Typed, JobsOn
  <2>2. Len(queue) \in Nat /\ queue = [i \in 1..Len(queue) |-> queue[i]]
        /\ \A i \in 1..Len(queue) : queue[i] \in JobsOn(more)
    <3> HIDE DEF JobsOn
    <3> QED
      BY <2>1
  <2> QED
    BY <2>2, FunctionIsSequence
<1>2. worker \in Workers(more) /\ (worker.pc # "idle" => worker.run \in more)
  BY DEF Typed, Workers
<1>3. tick \in Ticks(more)
  BY DEF Typed, Ticks
<1>4. engine \in [Devices -> SUBSET more]
  BY DEF Typed
<1>5. last \in [Devices -> Results(more)]
  <2>1. Results(ids) \subseteq Results(more)
    BY DEF Results
  <2> QED
    BY <2>1 DEF Typed
<1> QED
  BY <1>1, <1>2, <1>3, <1>4, <1>5 DEF Typed
\* The state after a step, for the rows that the step leaves.
TypedNext ==
  /\ device' \in [Devices -> DeviceRows] /\ crashes' \in Nat
  /\ promoting' \subseteq Ids' /\ queue' \in Seq(JobsOn(Ids'))
  /\ worker' \in Workers(Ids') /\ (worker'.pc # "idle" => worker'.run \in Ids')
  /\ tick' \in Ticks(Ids')
  /\ engine' \in [Devices -> SUBSET Ids'] /\ last' \in [Devices -> Results(Ids')]
  /\ mail' \subseteq Ids'

LEMMA TypedNextIsTypeOK == run' \in Seq(Rows) /\ TypedNext => TypeOK'
BY DEF TypedNext, TypeOK, JobsOn, Workers, Ticks, Results

LEMMA IdleTyped == \A ids : /\ Idle \in Workers(ids) /\ Idle.pc = "idle"
                            /\ NoTick \in Ticks(ids) /\ NoResult \in Results(ids)
BY DEF Idle, NoTick, NoResult, Workers, Ticks, Results

LEMMA DevicesTyped ==
  ASSUME device \in [Devices -> DeviceRows], NEW d \in Devices
  PROVE  /\ device[d] \in DeviceRows
         /\ Invalidated(d) \in [Devices -> DeviceRows]
         /\ [device EXCEPT ![d].approved = FALSE] \in [Devices -> DeviceRows]
         /\ [device EXCEPT ![d].due = FALSE] \in [Devices -> DeviceRows]
         /\ [device EXCEPT ![d].cooling = TRUE] \in [Devices -> DeviceRows]
<1>1. device[d] \in DeviceRows
  OBVIOUS
<1>2. \A row \in DeviceRows : [device EXCEPT ![d] = row] \in [Devices -> DeviceRows]
  OBVIOUS
<1>3. Invalidated(d) = [device EXCEPT ![d] = [device[d] EXCEPT
        !.enabled = FALSE, !.approved = FALSE, !.current = FALSE, !.due = TRUE]]
  BY <1>1 DEF Invalidated, DeviceRows
<1>4. /\ [device[d] EXCEPT !.enabled = FALSE, !.approved = FALSE, !.current = FALSE,
                           !.due = TRUE] \in DeviceRows
      /\ [device[d] EXCEPT !.approved = FALSE] \in DeviceRows
      /\ [device[d] EXCEPT !.due = FALSE] \in DeviceRows
      /\ [device[d] EXCEPT !.cooling = TRUE] \in DeviceRows
  BY <1>1 DEF DeviceRows
<1>5. Invalidated(d) \in [Devices -> DeviceRows]
  BY <1>2, <1>3, <1>4
<1> QED
  BY <1>1, <1>2, <1>4, <1>5

LEMMA WebTyped ==
  ASSUME TypeOK, Web, Ids \subseteq Ids' PROVE TypedNext
<1>1. /\ device \in [Devices -> DeviceRows] /\ crashes \in Nat
      /\ Typed(Ids')
  BY TypesAreTyped, MoreRows
<1>2. ASSUME NEW d \in Devices, NEW force \in BOOLEAN, ManualRequest(d, force)
      PROVE  TypedNext
  BY <1>1, <1>2, DevicesTyped DEF ManualRequest, Typed, TypedNext
<1>3. ASSUME NEW d \in Devices, DiagnosticRequest(d)
      PROVE  TypedNext
  <2>1. Len(run) + 1 \in Ids'
    <3>1. run \in Seq(Rows) /\ run' = Append(run, NewRow(d, "diagnostic", 1, 0, TRUE))
      BY <1>3, RowsTyped DEF DiagnosticRequest
    <3> QED
      BY <3>1 DEF Ids
  <2> QED
    BY <1>1, <1>3, <2>1 DEF DiagnosticRequest, Typed, TypedNext
<1> QED
  BY <1>2, <1>3 DEF Web

LEMMA PromotionTyped ==
  ASSUME TypeOK, NEW r \in Ids, DiagnosticDispatch(r), Ids \subseteq Ids' PROVE TypedNext
<1>1. /\ device \in [Devices -> DeviceRows] /\ crashes \in Nat
      /\ Typed(Ids')
  BY TypesAreTyped, MoreRows
<1>2. [kind |-> "diagnose", run |-> r] \in JobsOn(Ids')
  BY DEF JobsOn
<1> QED
  BY <1>1, <1>2 DEF DiagnosticDispatch, Typed, TypedNext

LEMMA TickTyped ==
  ASSUME TypeOK, Tick, Ids \subseteq Ids' PROVE TypedNext
<1>1. /\ device \in [Devices -> DeviceRows] /\ crashes \in Nat
      /\ Typed(Ids')
  BY TypesAreTyped, MoreRows
<1>0. Ids \subseteq Ids'
  OBVIOUS
<1>2. tick \in Ticks(Ids')
  BY <1>1 DEF Typed
<1>3. ASSUME TickStart \/ TickDue \/ TickDispatch \/ TickEnd
      PROVE  tick' \in Ticks(Ids')
  <2>1. CASE TickStart
    BY <2>1, <1>0 DEF TickStart, Ticks
  <2>2. CASE TickDue
    BY <1>2, <2>2 DEF TickDue, Ticks
  <2>3. CASE TickDispatch
    <3>1. \/ tick' = NoTick
          \/ \E batch \in SUBSET Ids : tick' = [tick EXCEPT !.pc = "push", !.runs = batch]
      BY <2>3 DEF TickDispatch, Candidates
    <3>2. ASSUME NEW batch \in SUBSET Ids, tick' = [tick EXCEPT !.pc = "push", !.runs = batch]
          PROVE  tick' \in Ticks(Ids')
      <4>1. batch \in SUBSET Ids'
        BY <1>0
      <4> QED
        BY <1>2, <3>2, <4>1 DEF Ticks
    <3> QED
      BY <3>1, <3>2, IdleTyped
  <2>4. CASE TickEnd
    BY <2>4, IdleTyped DEF TickEnd
  <2> QED
    BY <1>3, <2>1, <2>2, <2>3, <2>4
<1>4. CASE TickStart \/ TickDue \/ TickDispatch \/ TickEnd
  BY <1>1, <1>3, <1>4 DEF TickStart, TickDue, TickDispatch, TickEnd, Typed, TypedNext
<1>5. ASSUME NEW r \in Ids, TickFail(r) \/ TickFailThrows(r) \/ TickPush(r)
      PROVE  TypedNext
  <2>1. tick' \in Ticks(Ids')
    <3>1. tick' = NoTick \/ tick' = [tick EXCEPT !.runs = @ \ {r}]
      BY <1>5 DEF TickFail, TickFailThrows, TickPush
    <3> QED
      BY <1>2, <3>1, IdleTyped DEF Ticks
  <2>2. [run |-> r, kind |-> IF run[r].trigger = "diagnostic" THEN "diagnose" ELSE "collect"]
          \in JobsOn(Ids')
    BY DEF JobsOn
  <2> QED
    <3>1. queue' \in Seq(JobsOn(Ids'))
      <4>1. \/ queue' = queue
            \/ queue' = Append(queue, [run |-> r, kind |-> IF run[r].trigger = "diagnostic"
                                                          THEN "diagnose" ELSE "collect"])
        BY <1>5 DEF TickFail, TickFailThrows, TickPush
      <4>2. queue \in Seq(JobsOn(Ids'))
        BY <1>1 DEF Typed
      <4> QED
        BY <2>2, <4>1, <4>2
    <3> QED
      BY <1>1, <1>5, <2>1, <3>1 DEF TickFail, TickFailThrows, TickPush, Typed, TypedNext
<1>6. ASSUME NEW d \in Devices, TickSchedule(d) \/ TickSkip(d)
      PROVE  TypedNext
  <2>1. tick' \in Ticks(Ids')
    BY <1>2, <1>6 DEF TickSchedule, TickSkip, Ticks
  <2>2. device' \in [Devices -> DeviceRows]
    <3>1. device' = device \/ device' = [device EXCEPT ![d].due = FALSE]
      BY <1>6, Zenon DEF TickSchedule, TickSkip
    <3>2. [device EXCEPT ![d].due = FALSE] \in [Devices -> DeviceRows]
      BY <1>1, DevicesTyped
    <3> QED
      BY <1>1, <3>1, <3>2
  <2> QED
    BY <1>1, <1>6, <2>1, <2>2 DEF TickSchedule, TickSkip, Typed, TypedNext
<1> QED
  BY <1>4, <1>5, <1>6 DEF Tick
LEMMA WorkerTyped ==
  ASSUME TypeOK, Worker, Ids \subseteq Ids' PROVE TypedNext
<1>1. /\ device \in [Devices -> DeviceRows] /\ crashes \in Nat
      /\ Typed(Ids') /\ Typed(Ids)
  BY TypesAreTyped, MoreRows
<1>0. Ids \subseteq Ids' /\ \A r \in Ids : run[r].device \in Devices
  BY RowsTyped DEF Rows
<1>2. worker \in Workers(Ids')
  BY <1>1 DEF Typed
<1>3. CASE JobStart
  <2>1. /\ Tail(queue) \in Seq(JobsOn(Ids')) /\ Head(queue).run \in Ids
        /\ Head(queue).kind \in {"collect", "diagnose", "reconcile"}
    <3>1. queue \in Seq(JobsOn(Ids')) /\ queue \in Seq(JobsOn(Ids)) /\ queue # <<>>
      BY <1>1, <1>3 DEF Typed, JobStart
    <3>2. Head(queue) \in JobsOn(Ids) /\ Tail(queue) \in Seq(JobsOn(Ids'))
      BY <3>1
    <3> QED
      BY <3>2 DEF JobsOn
  <2>2. Loaded(Head(queue)) \in {"missing", "drifted", "unapproved", "valid"}
    BY DEF Loaded
  <2>3. worker' = Idle \/ \E pc \in {"validate", "inspect"} :
          worker' = [pc |-> pc, run |-> Head(queue).run, device |-> Loaded(Head(queue))]
    BY <1>3 DEF JobStart
  <2>4. worker' \in Workers(Ids') /\ (worker'.pc # "idle" => worker'.run \in Ids')
    BY <1>0, <2>1, <2>2, <2>3, IdleTyped DEF Workers
  <2> QED
    BY <1>1, <1>3, <2>1, <2>4 DEF JobStart, Typed, TypedNext
<1>11. CASE JobReconciles
  <2>1. Tail(queue) \in Seq(JobsOn(Ids'))
    <3>1. queue \in Seq(JobsOn(Ids')) /\ queue # <<>>
      BY <1>1, <1>11 DEF Typed, JobReconciles
    <3> QED
      BY <3>1
  <2> QED
    BY <1>1, <1>11, <2>1 DEF JobReconciles, Typed, TypedNext
<1>4. ASSUME worker' = Idle \/ \E pc \in {"admit", "engine", "enter", "await"} :
               worker' = [worker EXCEPT !.pc = pc],
             worker.pc # "idle"
      PROVE  worker' \in Workers(Ids') /\ (worker'.pc # "idle" => worker'.run \in Ids')
  <2>1. worker.run \in Ids'
    BY <1>1, <1>4 DEF Typed
  <2> QED
    BY <1>2, <1>4, <2>1, IdleTyped DEF Workers
<1>5. ASSUME NEW r \in Ids, ValidationPasses(r) \/ InspectionPasses(r) PROVE TypedNext
  <2>1. worker' \in Workers(Ids') /\ (worker'.pc # "idle" => worker'.run \in Ids')
    BY <1>4, <1>5 DEF ValidationPasses, InspectionPasses
  <2> QED
    BY <1>1, <1>5, <2>1 DEF ValidationPasses, InspectionPasses, Typed, TypedNext
<1>6. ASSUME NEW r \in Ids, ValidationFails(r) \/ InspectionFails(r) PROVE TypedNext
  <2>1. worker' \in Workers(Ids') /\ (worker'.pc # "idle" => worker'.run \in Ids')
    BY <1>4, <1>6 DEF ValidationFails, InspectionFails
  <2>2. PICK d \in Devices : d = run[r].device
    BY <1>0
  <2>3. device' \in [Devices -> DeviceRows]
    <3>1. \/ device' = device \/ device' = Invalidated(d)
          \/ device' = [device EXCEPT ![d].approved = FALSE]
      BY <1>6, <2>2 DEF ValidationFails, InspectionFails
    <3> QED
      BY <1>1, <3>1, DevicesTyped
  <2> QED
    BY <1>1, <1>6, <2>1, <2>3 DEF ValidationFails, InspectionFails, Typed, TypedNext
<1>7. ASSUME NEW r \in Ids, Admit(r) \/ SandboxStart(r) PROVE TypedNext
  <2>1. worker' \in Workers(Ids') /\ (worker'.pc # "idle" => worker'.run \in Ids')
    BY <1>4, <1>7 DEF Admit, SandboxStart
  <2> QED
    BY <1>1, <1>7, <2>1 DEF Admit, SandboxStart, Typed, TypedNext
<1>8. ASSUME NEW r \in Ids, EngineAccepts(r) PROVE TypedNext
  <2>1. engine' \in [Devices -> SUBSET Ids']
    BY <1>0, <1>1, <1>8 DEF EngineAccepts, Typed
  <2> QED
    BY <1>1, <1>8, <2>1, IdleTyped DEF EngineAccepts, Typed, TypedNext
<1>9. ASSUME NEW r \in Ids, EngineRejects(r) \/ EngineWithoutDevice(r) PROVE TypedNext
  BY <1>1, <1>9, IdleTyped DEF EngineRejects, EngineWithoutDevice, Typed, TypedNext
<1>10. ASSUME NEW r \in Ids, SandboxResult(r) PROVE TypedNext
  BY <1>0, <1>1, <1>10, IdleTyped DEF SandboxResult, Typed, TypedNext
<1> QED
  BY <1>3, <1>5, <1>6, <1>7, <1>8, <1>9, <1>10, <1>11 DEF Worker, Validation, Admission, Conclusion
LEMMA OxidizedTyped ==
  ASSUME TypeOK, Oxidized, Ids \subseteq Ids' PROVE TypedNext
<1>1. /\ device \in [Devices -> DeviceRows] /\ crashes \in Nat /\ Typed(Ids')
  BY TypesAreTyped, MoreRows
<1>2. PICK d \in Devices, s \in Ids, ok \in BOOLEAN : EngineDone(d, s, ok)
  BY DEF Oxidized
<1>3. /\ engine' \in [Devices -> SUBSET Ids'] /\ mail' \subseteq Ids'
  BY <1>1, <1>2 DEF EngineDone, Typed
<1>4. PICK result : /\ result = (IF RunningRuns(d) = {} THEN NoResult
                                 ELSE [ok |-> ok, during |-> Latest(RunningRuns(d))])
                    /\ last' = [last EXCEPT ![d] = result]
  BY <1>2 DEF EngineDone
<1>5. result \in Results(Ids')
  <2>1. CASE RunningRuns(d) = {}
    BY <1>4, <2>1, IdleTyped
  <2>2. CASE RunningRuns(d) # {}
    <3>1. RunningRuns(d) \in SUBSET Ids
      BY DEF RunningRuns
    <3>2. Latest(RunningRuns(d)) \in Ids'
      BY <2>2, <3>1, LatestIsOne
    <3> QED
      BY <1>4, <2>2, <3>2 DEF Results
  <2> QED
    BY <2>1, <2>2
<1>6. last' \in [Devices -> Results(Ids')]
  BY <1>1, <1>4, <1>5 DEF Typed
<1> QED
  BY <1>1, <1>2, <1>3, <1>6 DEF EngineDone, Typed, TypedNext

LEMMA ReportsTyped ==
  ASSUME TypeOK, Reports, Ids \subseteq Ids' PROVE TypedNext
<1>1. /\ device \in [Devices -> DeviceRows] /\ crashes \in Nat /\ Typed(Ids')
  BY TypesAreTyped, MoreRows
<1>2. ASSUME NEW s \in Ids, NodeFail(s) \/ ReconcileStale(s) PROVE TypedNext
  BY <1>1, <1>2 DEF NodeFail, ReconcileStale, Typed, TypedNext
<1>3. ASSUME NEW d \in Devices, Reconcile(d) PROVE TypedNext
  BY <1>1, <1>3 DEF Reconcile, Typed, TypedNext
<1>4. ASSUME NEW d \in Devices, PostStore(d) PROVE TypedNext
  <2>1. PICK r \in Ids : queue' = Append(queue, [kind |-> "reconcile", run |-> r])
    BY <1>4 DEF PostStore, Named
  <2>2. [kind |-> "reconcile", run |-> r] \in JobsOn(Ids')
    BY DEF JobsOn
  <2>3. queue' \in Seq(JobsOn(Ids'))
    BY <1>1, <2>1, <2>2 DEF Typed
  <2> QED
    BY <1>1, <1>4, <2>3 DEF PostStore, Typed, TypedNext
<1> QED
  BY <1>2, <1>3, <1>4 DEF Reports

LEMMA TimeTyped ==
  ASSUME TypeOK, Time \/ Administration, Ids \subseteq Ids' PROVE TypedNext
<1>1. /\ device \in [Devices -> DeviceRows] /\ crashes \in Nat /\ Typed(Ids')
  BY TypesAreTyped, MoreRows
<1>2. ASSUME NEW d \in Devices, NEW row \in DeviceRows, Change(d, row) PROVE TypedNext
  BY <1>1, <1>2 DEF Change, Typed, TypedNext
<1>3. \A d \in Devices : device[d] \in DeviceRows
  BY <1>1
<1>4. ASSUME NEW r \in Ids, CooldownElapses(r) \/ DeadlinePasses(r) PROVE TypedNext
  BY <1>1, <1>4 DEF CooldownElapses, DeadlinePasses, Typed, TypedNext
<1>5. ASSUME NEW d \in Devices, Revoke(d) PROVE TypedNext
  BY <1>1, <1>5, DevicesTyped DEF Revoke, Typed, TypedNext
<1>6. ASSUME NEW d \in Devices,
             \/ DeviceFallsDue(d) \/ ManualCooldownElapses(d) \/ Approve(d)
             \/ Inventory(d) \/ Destroy(d) \/ Import(d) \/ Drift(d)
      PROVE  \E row \in DeviceRows : Change(d, row)
  <2>1. device[d] \in DeviceRows
    BY <1>3
  <2>2. /\ [device[d] EXCEPT !.due = TRUE] \in DeviceRows
        /\ [device[d] EXCEPT !.cooling = FALSE] \in DeviceRows
        /\ [device[d] EXCEPT !.enabled = TRUE, !.approved = TRUE, !.current = TRUE,
                             !.due = FALSE] \in DeviceRows
        /\ [device[d] EXCEPT !.enabled = device[d].approved, !.deleted = FALSE] \in DeviceRows
        /\ [device[d] EXCEPT !.enabled = FALSE, !.deleted = FALSE] \in DeviceRows
        /\ [device[d] EXCEPT !.enabled = FALSE, !.deleted = TRUE] \in DeviceRows
        /\ \A same \in BOOLEAN :
             [device[d] EXCEPT !.enabled = FALSE, !.approved = FALSE,
                               !.current = @ /\ same] \in DeviceRows
        /\ [device[d] EXCEPT !.current = ~@] \in DeviceRows
    BY <2>1 DEF DeviceRows
  <2>3. [Invalidated(d)[d] EXCEPT !.deleted = FALSE] \in DeviceRows
    <3>1. Invalidated(d)[d] \in DeviceRows
      BY <1>1, DevicesTyped
    <3> QED
      BY <3>1 DEF DeviceRows
  <2> QED
    BY <1>6, <2>2, <2>3 DEF DeviceFallsDue, ManualCooldownElapses, Approve, Inventory, Destroy, Import, Drift
<1> QED
  BY <1>2, <1>4, <1>5, <1>6 DEF Time, Administration

LEMMA CrashesTyped ==
  ASSUME TypeOK, Crashes, Ids \subseteq Ids' PROVE TypedNext
<1>1. /\ device \in [Devices -> DeviceRows] /\ crashes \in Nat /\ Typed(Ids')
  BY TypesAreTyped, MoreRows
<1>2. CASE SchedulerCrash
  BY <1>1, <1>2, IdleTyped DEF SchedulerCrash, Typed, TypedNext
<1>3. CASE WorkerCrash
  <2>1. worker.pc # "idle" => worker.run \in Ids'
    BY <1>1 DEF Typed
  <2>2. engine' \in [Devices -> SUBSET Ids']
    BY <1>1, <1>3, <2>1 DEF WorkerCrash, Typed
  <2> QED
    BY <1>1, <1>3, <2>2, IdleTyped DEF WorkerCrash, Typed, TypedNext
<1>4. ASSUME NEW s \in Ids, EventLost(s) PROVE TypedNext
  BY <1>1, <1>4 DEF EventLost, Typed, TypedNext
<1> QED
  BY <1>2, <1>3, <1>4 DEF Crashes

LEMMA TypeInit == Init => TypeOK
<1> SUFFICES ASSUME Init PROVE TypeOK
  OBVIOUS
<1>1. device \in [Devices -> DeviceRows]
  BY DEF Init, DeviceRows
<1>2. run \in Seq(Rows) /\ crashes \in Nat
  BY DEF Init
<1>3. Typed(Ids)
  BY IdleTyped DEF Init, Typed
<1> QED
  BY <1>1, <1>2, <1>3, TypesAreTyped

LEMMA TypeStep == TypeOK /\ PromotesDiagnostics /\ [Next]_vars => TypeOK'
<1> SUFFICES ASSUME TypeOK, PromotesDiagnostics, [Next]_vars PROVE TypeOK'
  OBVIOUS
<1>1. run' \in Seq(Rows) /\ Ids \subseteq Ids'
  BY StepRuns, RunsTyped
<1>2. CASE UNCHANGED vars
  BY <1>2 DEF vars, TypeOK, Ids
<1>3. CASE Next
  <2>1. TypedNext
    BY <1>1, <1>3, WebTyped, PromotionTyped, TickTyped, WorkerTyped, OxidizedTyped,
       ReportsTyped, TimeTyped, CrashesTyped DEF Next
  <2> QED
    BY <1>1, <2>1, TypedNextIsTypeOK
<1> QED
  BY <1>2, <1>3
LEMMA PromotionStep ==
  TypeOK /\ PromotesDiagnostics /\ [Next]_vars => PromotesDiagnostics'
<1> SUFFICES ASSUME TypeOK, PromotesDiagnostics, [Next]_vars PROVE PromotesDiagnostics'
  OBVIOUS
<1>1. \A r \in promoting : run'[r].trigger = "diagnostic"
  <2>1. promoting \subseteq Ids
    BY DEF TypeOK
  <2> QED
    BY <2>1, StepRuns, RunsTyped DEF PromotesDiagnostics
<1>2. \/ promoting' \subseteq promoting
      \/ \E d \in Devices : DiagnosticRequest(d)
  BY DEF Next, vars, Web, ManualRequest, DiagnosticDispatch,
         Tick, TickStart, TickDue, TickDispatch, TickEnd, TickFail, TickFailThrows,
         TickPush, TickSchedule, TickSkip,
         Worker, JobStart, JobReconciles, Validation, ValidationPasses, ValidationFails,
         InspectionPasses, InspectionFails, Admission, Admit, SandboxStart,
         Conclusion, EngineAccepts, EngineRejects, EngineWithoutDevice, SandboxResult,
         Oxidized, EngineDone, Reports, NodeFail, ReconcileStale, Reconcile, PostStore,
         Time, CooldownElapses, DeadlinePasses, DeviceFallsDue, ManualCooldownElapses,
         Administration, Approve, Revoke, Inventory, Destroy, Import, Drift, Change,
         Crashes, SchedulerCrash, WorkerCrash, EventLost
<1>3. ASSUME NEW d \in Devices, DiagnosticRequest(d)
      PROVE  run'[Len(run) + 1].trigger = "diagnostic"
  BY <1>3, RequestedRows DEF DiagnosticRequest, Requested
<1> QED
  BY <1>1, <1>2, <1>3 DEF PromotesDiagnostics, DiagnosticRequest

-----------------------------------------------------------------------------
(* The ledger                                                              *)

L == INSTANCE RunLedger_proofs WITH ledger <- Mapped

View(status) == IF status \in Waiting THEN "waiting" ELSE status

LEMMA LimitsAreNumbers == L!LedgerAssumption
BY ConstantsAssumption DEF L!LedgerAssumption

LEMMA EntryFields ==
  ASSUME TypeOK, NEW r \in Ids
  PROVE  /\ Mapped[r] = Entry(r) /\ Entry(r) \in L!Entries
         /\ Entry(r).status = View(run[r].status) /\ Entry(r).device = run[r].device
         /\ Entry(r).trigger = run[r].trigger /\ Entry(r).attempt = run[r].attempt
         /\ Entry(r).parent = run[r].parent
<1>1. run[r] \in Rows
  BY RowsTyped
<1> QED
  BY <1>1 DEF Mapped, Entry, View, Rows, L!Entries, L!Open, L!Closed, L!Started, Pending,
              Active, Waiting, Final, Triggers

LEMMA MappedTyped ==
  ASSUME TypeOK
  PROVE  /\ Mapped \in Seq(L!Entries) /\ Len(Mapped) = Len(run)
         /\ L!LedgerTypeOK /\ L!Rows = Ids
<1>1. Len(run) \in Nat /\ Ids = 1..Len(run)
  BY RowsTyped
<1>2. Mapped \in [1..Len(run) -> L!Entries]
  BY <1>1, EntryFields DEF Mapped
<1>3. Mapped \in Seq(L!Entries) /\ Len(Mapped) = Len(run)
  BY <1>1, <1>2, FunctionIsSequence
<1> QED
  BY <1>1, <1>3 DEF L!LedgerTypeOK, L!Rows

\* A step that takes runs to a status moves their entries.
LEMMA TakenIsMoved ==
  ASSUME TypeOK, NEW S \in SUBSET Ids, NEW status \in Statuses, Take(S, status)
  PROVE  Mapped' = L!Moved(S, View(status))
<1>1. Ids' = Ids /\ L!Rows = Ids
  BY MappedTyped DEF Take, SameRuns
<1>2. ASSUME NEW r \in Ids
      PROVE  Entry(r)' = IF r \in S THEN [Mapped[r] EXCEPT !.status = View(status)]
                         ELSE Mapped[r]
  <2>1. /\ run'[r].device = run[r].device /\ run'[r].trigger = run[r].trigger
        /\ run'[r].attempt = run[r].attempt /\ run'[r].parent = run[r].parent
        /\ run'[r].status = IF r \in S THEN status ELSE run[r].status
    BY DEF Take, SameRuns
  <2>2. Mapped[r] = Entry(r)
    BY EntryFields
  <2> QED
    BY <2>1, <2>2 DEF Entry, View
<1> QED
  BY <1>1, <1>2 DEF Mapped, L!Moved

LEMMA NothingTaken ==
  ASSUME TypeOK, NEW status, Take({}, status) PROVE Mapped' = Mapped
<1>1. Ids' = Ids /\ \A r \in Ids : Entry(r)' = Entry(r)
  BY DEF Take, SameRuns, Entry
<1> QED
  BY <1>1 DEF Mapped

\* A pending run is an open entry of the ledger.
LEMMA OpenIsPending ==
  ASSUME TypeOK, NEW d \in Devices PROVE L!OpenOf(d) = PendingRuns(d)
<1>1. ASSUME NEW r \in Ids
      PROVE  /\ Mapped[r].device = run[r].device
             /\ Mapped[r].status \in L!Open <=> run[r].status \in Pending
  <2>1. Mapped[r].device = run[r].device /\ Mapped[r].status = View(run[r].status)
    BY EntryFields
  <2>2. run[r].status \in Pending \cup Final
    BY RowsTyped DEF Rows
  <2> QED
    BY <2>1, <2>2 DEF View, L!Open, L!Started, Pending, Active, Waiting, Final
<1> QED
  BY <1>1, MappedTyped DEF L!OpenOf, PendingRuns

\* Appending, as the function it yields.
LEMMA Appended ==
  ASSUME NEW S, NEW s \in Seq(S), NEW elt \in S, NEW n, n = Len(s) + 1,
         NEW f, f = [q \in 1..n |-> f[q]],
         \A q \in 1..Len(s) : f[q] = s[q], f[n] = elt
  PROVE  f = Append(s, elt)
<1>1. Len(s) \in Nat /\ \A q \in 1..Len(s) : s[q] \in S
  OBVIOUS
<1>2. \A q \in 1..n : q \in 1..Len(s) \/ q = n
  BY <1>1
<1>3. \A q \in 1..n : f[q] \in S
  BY <1>1, <1>2
<1>4. f \in [1..n -> S]
  BY <1>3
<1>5. f \in Seq(S) /\ Len(f) = n
  BY <1>1, <1>4
<1>6. /\ Append(s, elt) \in Seq(S) /\ Len(Append(s, elt)) = n
      /\ \A q \in 1..Len(s) : Append(s, elt)[q] = s[q]
      /\ Append(s, elt)[n] = elt
  BY AppendProperties
<1>7. \A q \in 1..n : f[q] = Append(s, elt)[q]
  BY <1>6, <1>2
<1> QED
  BY <1>1, <1>5, <1>6, <1>7, SeqEqual

LEMMA RequestedIsRequest ==
  ASSUME TypeOK, NEW d \in Devices,
         NEW trigger \in {"manual", "scheduled", "diagnostic"}, Requested(d, trigger)
  PROVE  L!Request(d, trigger)
<1> DEFINE e == L!Entry(d, trigger, 1, 0)
<1>0. PICK n : n = Len(run) + 1
  OBVIOUS
<1>1. /\ run' \in Seq(Rows) /\ Len(run) \in Nat
      /\ Ids' = Ids \cup {n} /\ n \notin Ids
      /\ run'[n].status \in Waiting
      /\ run'[n].device = d /\ run'[n].trigger = trigger
      /\ run'[n].attempt = 1 /\ run'[n].parent = 0
      /\ \A q \in Ids : run'[q] = run[q]
  BY <1>0, RequestedRows
<1>2. Entry(n)' = e
  BY <1>1 DEF Entry, L!Entry
<1>3. \A q \in Ids : Entry(q)' = Mapped[q]
  BY <1>1, EntryFields DEF Entry
<1>4. /\ Mapped' = [q \in Ids' |-> Mapped'[q]]
      /\ Mapped'[n] = e /\ \A q \in Ids : Mapped'[q] = Mapped[q]
  <2> HIDE DEF e
  <2> QED
    BY <1>1, <1>2, <1>3 DEF Mapped
<1>5. Mapped \in Seq(L!Entries) /\ Len(Mapped) = Len(run) /\ Ids = 1..Len(Mapped)
  BY MappedTyped, RowsTyped
<1>6. e \in L!Entries /\ n = Len(Mapped) + 1 /\ Ids' = 1..n
  BY <1>0, <1>1, <1>5 DEF L!Entry, L!Entries, L!Open
<1>8. Mapped' = Append(Mapped, e)
  <2> HIDE DEF e
  <2> QED
    BY <1>4, <1>5, <1>6, Appended
<1>7. L!OpenOf(d) = {}
  BY OpenIsPending DEF Requested
<1> QED
  BY <1>7, <1>8 DEF L!Request

LEMMA RetriedIsFailAndRetry ==
  ASSUME TypeOK, NEW r \in Ids, Retried(r)
  PROVE  L!FailAndRetry(r)
<1> DEFINE e == L!Entry(run[r].device, "retry", run[r].attempt + 1, r)
           before == L!Moved({r}, "failed")
<1>0. PICK n : n = Len(run) + 1
  OBVIOUS
<1>1. /\ run' \in Seq(Rows) /\ Len(run) \in Nat
      /\ Ids' = Ids \cup {n} /\ n \notin Ids
      /\ run'[n].status \in Waiting
      /\ run'[n].device = run[r].device /\ run'[n].trigger = "retry"
      /\ run'[n].attempt = run[r].attempt + 1 /\ run'[n].parent = r
      /\ \A q \in Ids : run'[q] = IF q = r THEN Rewritten(run[q], "failed", FALSE)
                                  ELSE run[q]
  BY <1>0, RetriedRows
<1>2. /\ Ids = 1..Len(run) /\ \A q \in Ids : run[q] \in Rows
      /\ Mapped \in Seq(L!Entries) /\ Len(Mapped) = Len(run) /\ L!Rows = Ids
      /\ \A q \in Ids : Mapped[q] = Entry(q) /\ Mapped[q] \in L!Entries
  BY MappedTyped, RowsTyped, EntryFields
<1>3. Entry(n)' = e
  BY <1>1 DEF Entry, L!Entry
<1>4. before = [q \in Ids |-> IF q = r THEN [Mapped[q] EXCEPT !.status = "failed"]
                              ELSE Mapped[q]]
  BY <1>2 DEF L!Moved
<1>5. /\ before \in [1..Len(run) -> L!Entries]
      /\ \A q \in Ids : before[q] = IF q = r THEN [Mapped[q] EXCEPT !.status = "failed"]
                                     ELSE Mapped[q]
  <2> HIDE DEF before
  <2>1. \A x \in L!Entries : [x EXCEPT !.status = "failed"] \in L!Entries
    BY DEF L!Entries, L!Closed
  <2> QED
    BY <1>2, <1>4, <2>1
<1>6. before \in Seq(L!Entries) /\ Len(before) = Len(run)
  <2> HIDE DEF before
  <2> QED
    BY <1>1, <1>5, FunctionIsSequence
<1>7. ASSUME NEW q \in Ids PROVE Entry(q)' = before[q]
  <2>1. CASE q # r
    <3>1. run'[q] = run[q] /\ before[q] = Entry(q)
      BY <1>1, <1>2, <1>5, <2>1
    <3> QED
      BY <3>1 DEF Entry
  <2>2. CASE q = r
    <3>1. /\ run'[r].status = "failed" /\ run'[r].device = run[r].device
          /\ run'[r].trigger = run[r].trigger /\ run'[r].attempt = run[r].attempt
          /\ run'[r].parent = run[r].parent
      <4>1. run'[r] = Rewritten(run[r], "failed", FALSE)
        BY <1>1
      <4>2. run[r] \in Rows /\ "failed" \in Statuses /\ FALSE \in BOOLEAN
        BY <1>2 DEF Statuses, Final
      <4>3. /\ Rewritten(run[r], "failed", FALSE).status = "failed"
            /\ Rewritten(run[r], "failed", FALSE).device = run[r].device
            /\ Rewritten(run[r], "failed", FALSE).trigger = run[r].trigger
            /\ Rewritten(run[r], "failed", FALSE).attempt = run[r].attempt
            /\ Rewritten(run[r], "failed", FALSE).parent = run[r].parent
        BY <4>2, RewrittenFields
      <4> QED
        BY <4>1, <4>3
    <3>2. Entry(r)' = [status |-> "failed", device |-> run[r].device,
                       trigger |-> run[r].trigger, attempt |-> run[r].attempt,
                       parent |-> run[r].parent]
      BY <3>1 DEF Entry, Waiting
    <3>3. before[r] = [Entry(r) EXCEPT !.status = "failed"]
      BY <1>2, <1>5
    <3> HIDE DEF before
    <3> QED
      BY <2>2, <3>2, <3>3 DEF Entry
  <2> QED
    BY <2>1, <2>2
<1>8. /\ Mapped' = [q \in Ids' |-> Mapped'[q]]
      /\ Mapped'[n] = e /\ \A q \in Ids : Mapped'[q] = before[q]
  <2> HIDE DEF before, e
  <2> QED
    BY <1>1, <1>3, <1>7 DEF Mapped
<1>9. e \in L!Entries /\ n = Len(before) + 1 /\ Ids' = 1..n /\ Ids = 1..Len(before)
  <2>1. e \in L!Entries
    BY <1>2 DEF L!Entry, L!Entries, L!Open, Rows
  <2> HIDE DEF before, e
  <2> QED
    BY <1>0, <1>1, <1>2, <1>6, <2>1
<1>10. Mapped' = Append(before, e)
  <2> HIDE DEF before, e
  <2> QED
    BY <1>6, <1>8, <1>9, Appended
<1>11. /\ Mapped[r].device = run[r].device /\ Mapped[r].attempt = run[r].attempt
       /\ Mapped[r].status = run[r].status
  BY EntryFields DEF View, Retried, Active, Waiting
<1>12. L!OpenOf(run[r].device) = {r}
  BY <1>2, OpenIsPending DEF Retried, Rows
<1> QED
  BY <1>10, <1>11, <1>12 DEF L!FailAndRetry, Retried, L!Started, Active

\* What moves runs without creating any.
LEMMA MovesAreLedgerSteps ==
  ASSUME TypeOK, NEW r \in Ids, Settles(r) \/ Begun(r) \/ Promoted(r)
  PROVE  [L!LedgerNext]_Mapped
<1> USE DEF Pending, Active, Waiting, Final
<1>0. /\ L!Rows = Ids /\ Mapped[r].status = View(run[r].status)
      /\ Mapped[r].trigger = run[r].trigger
      /\ run[r].status \in Pending \cup Final
  BY MappedTyped, EntryFields, RowsTyped DEF Rows
<1>1. CASE Take({}, "failed")
  BY <1>1, NothingTaken
<1>2. CASE Retried(r)
  BY <1>0, <1>2, RetriedIsFailAndRetry DEF L!LedgerNext
<1>3. ASSUME NEW outcome \in Final, Closing(r, outcome)
      PROVE  [L!LedgerNext]_Mapped
  <2>1. Mapped' = L!Moved({r}, View(outcome)) /\ View(outcome) = outcome
    BY <1>3, TakenIsMoved, {r} \in SUBSET Ids DEF Closing, Statuses, View
  <2>2. L!Close(r, outcome)
    BY <1>0, <1>3, <2>1 DEF L!Close, Closing, View, L!Started
  <2> QED
    BY <1>0, <2>2 DEF L!LedgerNext, L!Closed
<1>4. CASE Begun(r)
  <2>1. Mapped' = L!Moved({r}, "running")
    BY <1>4, TakenIsMoved, {r} \in SUBSET Ids DEF Begun, Statuses, View
  <2>2. L!Start(r)
    BY <1>0, <1>4, <2>1 DEF L!Start, Begun, View
  <2> QED
    BY <1>0, <2>2 DEF L!LedgerNext
<1>5. CASE Promoted(r)
  <2>1. Mapped' = L!Moved({r}, "dispatched")
    BY <1>5, TakenIsMoved, {r} \in SUBSET Ids DEF Promoted, Statuses, View
  <2>2. L!DispatchDiagnostic(r)
    BY <1>0, <1>5, <2>1 DEF L!DispatchDiagnostic, Promoted, View
  <2> QED
    BY <1>0, <2>2 DEF L!LedgerNext
<1> QED
  BY <1>1, <1>2, <1>3, <1>4, <1>5 DEF Settles

LEMMA RequeuedIsRequeue ==
  ASSUME TypeOK, NEW S \in SUBSET Ids, Requeued(S)
  PROVE  L!Requeue(S)
<1>1. Mapped' = L!Moved(S, "waiting")
  BY TakenIsMoved DEF Requeued, Statuses, View, Pending, Waiting
<1>2. \A r \in S : Mapped[r].status = "dispatched"
  BY EntryFields DEF Requeued, View, Waiting
<1> QED
  BY <1>1, <1>2 DEF L!Requeue

-----------------------------------------------------------------------------
(* The limits                                                              *)

\* The ledger counts like the code.
LEMMA SameCardinality == \A S : L!Cardinality(S) = Cardinality(S)
BY DEF L!Cardinality, Cardinality

LEMMA ActiveIsFinite ==
  ASSUME TypeOK
  PROVE  /\ IsFiniteSet(Ids) /\ IsFiniteSet(ActiveRuns) /\ IsFiniteSet(Candidates)
         /\ Cardinality(ActiveRuns) \in Nat /\ Cardinality(Candidates) \in Nat
<1>1. IsFiniteSet(Ids)
  BY RowsTyped, FS_Interval
<1>2. ActiveRuns \subseteq Ids /\ Candidates \subseteq Ids
  BY DEF ActiveRuns, Candidates
<1> QED
  BY <1>1, <1>2, FS_Subset, FS_CardinalityType

\* The last of some candidates, in the order they are read in.
LEMMA LastRead ==
  ASSUME TypeOK, NEW place \in Orders, NEW B \in SUBSET Candidates, B # {}
  PROVE  \E c \in B : \A b \in B : b # c => place[b] < place[c]
<1>1. /\ \A b \in B : place[b] \in 1..Cardinality(Candidates)
      /\ \A p, q \in B : place[p] = place[q] => p = q
      /\ Cardinality(Candidates) \in Nat
  BY ActiveIsFinite DEF Orders
<1>2. PICK c \in B : \A b \in B : place[b] <= place[c]
  BY <1>1, Last
<1>3. \A b \in B : b # c => place[b] # place[c] /\ place[b] \in Nat /\ place[c] \in Nat
  BY <1>1
<1> QED
  BY <1>2, <1>3

\* A batch fits in the free slots.
LEMMA BatchFits ==
  ASSUME TypeOK, NEW place \in Orders, NEW batch \in SUBSET Candidates,
         IsBatch(batch, place), batch # {}
  PROVE  Cardinality(ActiveRuns \cup batch) <= Limit
<1>1. PICK c \in batch : \A b \in batch : b # c => place[b] < place[c]
  BY LastRead
<1>2. PICK before : before = {b \in batch : place[b] < place[c]}
  OBVIOUS
<1>3. IsFiniteSet(batch) /\ IsFiniteSet(before)
  BY <1>2, ActiveIsFinite, FS_Subset
<1>4. Cardinality(before) < Available
  BY <1>2 DEF IsBatch
<1>5. batch = before \cup {c} /\ c \notin before
  <2>1. place[c] \in Nat
    BY ActiveIsFinite DEF Orders
  <2> QED
    BY <1>1, <1>2, <2>1
<1>6. /\ Cardinality(batch) = Cardinality(before) + 1
      /\ Cardinality(batch) \in Nat /\ Cardinality(before) \in Nat
  BY <1>3, <1>5, FS_AddElement, FS_CardinalityType
<1>7. Cardinality(ActiveRuns) + Cardinality(batch) <= Limit
  BY <1>4, <1>6, ActiveIsFinite, ConstantsAssumption DEF Available
<1>8. ActiveRuns \cap batch = {}
  BY DEF ActiveRuns, Candidates, Active, Waiting
<1>9. Cardinality(ActiveRuns \cap batch) = 0
  BY <1>8, FS_EmptySet
<1>10. /\ Cardinality(ActiveRuns \cup batch) = Cardinality(ActiveRuns) + Cardinality(batch)
                                                - Cardinality(ActiveRuns \cap batch)
       /\ Cardinality(ActiveRuns) \in Nat
  BY <1>3, ActiveIsFinite, FS_Union
<1>11. Cardinality(ActiveRuns \cup batch) = Cardinality(ActiveRuns) + Cardinality(batch)
  BY <1>6, <1>9, <1>10
<1> QED
  BY <1>7, <1>11

\* A batch leaves no site that it has runs of above its limit.
LEMMA BatchFitsSites ==
  ASSUME TypeOK, NEW place \in Orders, NEW batch \in SUBSET Candidates,
         IsBatch(batch, place), NEW d \in batch
  PROVE  Cardinality({r \in ActiveRuns \cup batch : SameSite(r, d)}) <= SiteLimit
<1>1. PICK B : B = {b \in batch : SameSite(b, d)}
  OBVIOUS
<1>2. B \in SUBSET Candidates /\ d \in B
  BY <1>1 DEF SameSite
<1>3. PICK c \in B : \A b \in B : b # c => place[b] < place[c]
  BY <1>2, LastRead
<1>4. PICK before : before = {b \in batch : place[b] < place[c]}
  OBVIOUS
<1>5. PICK near : near = {r \in ActiveRuns \cup before : SameSite(r, c)}
  OBVIOUS
<1>6. Cardinality(near) < SiteLimit
  BY <1>1, <1>4, <1>5 DEF IsBatch
<1>7. IsFiniteSet(near)
  <2>1. near \subseteq Ids
    BY <1>4, <1>5 DEF ActiveRuns, Candidates
  <2> QED
    BY <2>1, ActiveIsFinite, FS_Subset
<1>8. c \notin near /\ place[c] \in Nat
  <2>1. place[c] \in Nat
    BY <1>2, ActiveIsFinite DEF Orders
  <2>2. c \notin ActiveRuns
    BY <1>2 DEF ActiveRuns, Candidates, Active, Waiting
  <2> QED
    BY <1>4, <1>5, <2>1, <2>2
<1>9. {r \in ActiveRuns \cup batch : SameSite(r, d)} = near \cup {c}
  <2>1. \A r : SameSite(r, d) <=> SameSite(r, c)
    BY <1>1 DEF SameSite
  <2>2. \A r \in batch : SameSite(r, d) /\ r # c => r \in before
    BY <1>1, <1>3, <1>4
  <2>3. before \subseteq batch /\ c \in batch /\ SameSite(c, d)
    BY <1>1, <1>4
  <2> QED
    BY <1>5, <2>1, <2>2, <2>3
<1>10. Cardinality(near \cup {c}) = Cardinality(near) + 1 /\ Cardinality(near) \in Nat
  BY <1>7, <1>8, FS_AddElement, FS_CardinalityType
<1>11. Cardinality(near) + 1 <= SiteLimit
  BY <1>6, <1>10, ConstantsAssumption
<1>12. Cardinality(near \cup {c}) <= SiteLimit
  BY <1>10, <1>11
<1> QED
  BY <1>9, <1>12, Zenon

LEMMA DispatchedIsDispatch ==
  ASSUME TypeOK, L!WithinLimits, NEW place \in Orders, NEW batch \in SUBSET Candidates,
         Dispatched(place, batch)
  PROVE  [L!LedgerNext]_Mapped
<1> USE DEF Pending, Active, Waiting, Final
<1>1. CASE batch = {}
  BY <1>1, NothingTaken DEF Dispatched
<1>2. CASE batch # {}
  <2>1. batch \in SUBSET Ids /\ IsBatch(batch, place) /\ L!Rows = Ids
    BY MappedTyped DEF Dispatched, Candidates
  <2>2. Mapped' = L!Moved(batch, "dispatched")
    BY <2>1, TakenIsMoved DEF Dispatched, Statuses, View
  <2>3. \A r \in batch : Mapped[r].status = "waiting"
    BY <2>1, EntryFields DEF Candidates, View
  <2>4. /\ Ids' = Ids /\ L!Rows' = Ids
        /\ \A r \in Ids :
             /\ Mapped'[r].status = IF r \in batch THEN "dispatched" ELSE Mapped[r].status
             /\ Mapped'[r].device = run[r].device /\ Mapped'[r].trigger = run[r].trigger
    <3>1. /\ Ids' = Ids
          /\ \A r \in Ids : Mapped'[r] = IF r \in batch
                                 THEN [Mapped[r] EXCEPT !.status = "dispatched"]
                                 ELSE Mapped[r]
      BY <2>1, <2>2 DEF L!Moved, Dispatched, Take, SameRuns
    <3>2. \A r \in Ids : /\ Mapped[r] \in L!Entries /\ Mapped[r].device = run[r].device
                         /\ Mapped[r].trigger = run[r].trigger
      BY EntryFields
    <3>3. L!Rows' = Ids
      <4>1. DOMAIN Mapped' = Ids /\ Ids = 1..Len(run) /\ Len(run) \in Nat
        BY <3>1, RowsTyped DEF Mapped
      <4>2. Mapped' \in [1..Len(run) -> {Mapped'[r] : r \in Ids}]
        BY <3>1, <4>1 DEF Mapped
      <4> QED
        BY <4>1, <4>2, FunctionIsSequence DEF L!Rows
    <3> QED
      BY <3>1, <3>2, <3>3 DEF L!Entries
  <2>5. L!Production' \subseteq ActiveRuns \cup batch
    BY <2>4, EntryFields DEF L!Production, L!Started, ActiveRuns, View
  <2>6. IsFiniteSet(ActiveRuns \cup batch) /\ ActiveRuns \cup batch \subseteq Ids
    BY <2>1, ActiveIsFinite, FS_Union, FS_Subset DEF ActiveRuns
  <2>7. Cardinality(L!Production') <= Limit
    <3>1. /\ Cardinality(L!Production') <= Cardinality(ActiveRuns \cup batch)
          /\ Cardinality(L!Production') \in Nat
          /\ Cardinality(ActiveRuns \cup batch) \in Nat
      BY <2>5, <2>6, FS_Subset, FS_CardinalityType
    <3> QED
      BY <1>2, <2>1, <3>1, BatchFits, ConstantsAssumption
  <2>8. ASSUME NEW r \in L!Production'
        PROVE  Cardinality(L!Beside(r)') <= SiteLimit
    <3>1. r \in Ids /\ r \in ActiveRuns \cup batch
      BY <2>5, <2>6, <2>8
    <3>2. \A q \in L!Beside(r)' : q \in L!Production' /\ SameSite(q, r)
      BY <2>4, <2>5, <2>6, <3>1 DEF L!Beside, SameSite
    <3>3. ASSUME NEW d \in batch, SameSite(d, r)
          PROVE  Cardinality(L!Beside(r)') <= SiteLimit
      <4>1. L!Beside(r)' \subseteq {q \in ActiveRuns \cup batch : SameSite(q, d)}
        BY <2>5, <3>2, <3>3 DEF SameSite
      <4>2. IsFiniteSet({q \in ActiveRuns \cup batch : SameSite(q, d)})
        BY <2>6, FS_Subset
      <4>3. Cardinality({q \in ActiveRuns \cup batch : SameSite(q, d)}) <= SiteLimit
        BY <2>1, BatchFitsSites
      <4> HIDE DEF SameSite
      <4> QED
        BY <4>1, <4>2, <4>3, FS_Subset, FS_CardinalityType, ConstantsAssumption
    <3>4. ASSUME \A d \in batch : ~SameSite(d, r)
          PROVE  Cardinality(L!Beside(r)') <= SiteLimit
      <4>1. r \notin batch
        BY <3>4 DEF SameSite
      <4>2. r \in L!Production
        BY <2>1, <2>4, <2>8, <3>1, <4>1, EntryFields DEF L!Production
      <4>3. L!Beside(r)' \subseteq L!Beside(r)
        <5>1. ASSUME NEW q \in L!Beside(r)'
              PROVE  q \in L!Beside(r)
          <6>1. q \in Ids /\ q \notin batch /\ SameSite(q, r) /\ q \in L!Production'
            BY <2>5, <2>6, <3>2, <3>4
          <6>2. q \in L!Production
            BY <2>1, <2>4, <6>1, EntryFields DEF L!Production
          <6> QED
            BY <3>1, <6>1, <6>2, EntryFields DEF L!Beside, SameSite
        <5> QED
          BY <5>1
      <4>4. IsFiniteSet(L!Beside(r))
        BY <2>1, ActiveIsFinite, FS_Subset DEF L!Beside, L!Production
      <4>5. Cardinality(L!Beside(r)) <= SiteLimit
        BY <4>2, SameCardinality DEF L!WithinLimits
      <4> QED
        BY <4>3, <4>4, <4>5, FS_Subset, FS_CardinalityType, ConstantsAssumption
    <3> QED
      BY <3>3, <3>4
  <2>9. L!WithinLimits'
    BY <2>7, <2>8, SameCardinality DEF L!WithinLimits
  <2>10. L!Dispatch(batch)
    BY <2>2, <2>3, <2>9 DEF L!Dispatch
  <2> QED
    BY <2>1, <2>10 DEF L!LedgerNext
<1> QED
  BY <1>1, <1>2

-----------------------------------------------------------------------------
(* The theorems                                                            *)

\* The inductive invariant.  The limits are part of it: a batch that leaves a
\* site alone keeps the site's limit only if it was kept before.
Inv == TypeOK /\ PromotesDiagnostics /\ L!WithinLimits

LEMMA StepIsLedgerStep ==
  Inv /\ [Next]_vars => [L!LedgerNext]_Mapped
<1> SUFFICES ASSUME Inv, [Next]_vars PROVE [L!LedgerNext]_Mapped
  OBVIOUS
<1>1. RunKinds /\ TypeOK /\ L!WithinLimits /\ L!Rows = Ids
  BY StepRuns, MappedTyped DEF Inv
<1>2. CASE Take({}, "queued")
  BY <1>1, <1>2, NothingTaken
<1>3. ASSUME NEW d \in Devices, NEW trigger \in {"manual", "scheduled", "diagnostic"},
             Requested(d, trigger)
      PROVE  [L!LedgerNext]_Mapped
  BY <1>1, <1>3, RequestedIsRequest DEF L!LedgerNext
<1>4. ASSUME NEW r \in Ids, Settles(r) \/ Begun(r) \/ Promoted(r)
      PROVE  [L!LedgerNext]_Mapped
  BY <1>1, <1>4, MovesAreLedgerSteps
<1>5. ASSUME NEW S \in SUBSET Ids, Requeued(S) PROVE [L!LedgerNext]_Mapped
  BY <1>1, <1>5, RequeuedIsRequeue DEF L!LedgerNext
<1>6. ASSUME NEW place \in Orders, NEW batch \in SUBSET Candidates,
             Dispatched(place, batch)
      PROVE  [L!LedgerNext]_Mapped
  BY <1>1, <1>6, DispatchedIsDispatch
<1> QED
  BY <1>1, <1>2, <1>3, <1>4, <1>5, <1>6 DEF RunKinds

LEMMA InitIsLedgerInit == Init => L!LedgerInit
<1>1. ASSUME Init PROVE Ids = {}
  BY <1>1 DEF Init, Ids
<1> QED
  BY <1>1 DEF L!LedgerInit, Mapped

LEMMA InvInit == Init => Inv
<1>1. Init => PromotesDiagnostics
  BY DEF Init, PromotesDiagnostics
<1>2. L!LedgerInit => L!WithinLimits
  BY LimitsAreNumbers, L!LimitsInit
<1> QED
  BY <1>1, <1>2, TypeInit, InitIsLedgerInit DEF Inv

LEMMA InvStep == Inv /\ [Next]_vars => Inv'
<1>1. Inv => L!LedgerTypeOK
  BY MappedTyped DEF Inv
<1>2. L!LedgerTypeOK /\ L!WithinLimits /\ [L!LedgerNext]_Mapped => L!WithinLimits'
  BY LimitsAreNumbers, L!LimitsStep
<1> QED
  BY <1>1, <1>2, TypeStep, PromotionStep, StepIsLedgerStep DEF Inv

LEMMA InvAlways == Spec => []Inv
BY InvInit, InvStep, PTL DEF Spec

\* The state stays of its type: in particular queue, worker, tick, engine and
\* mail name only runs that exist.
THEOREM StateTyped == Spec => []TypeOK
<1>1. Inv => TypeOK
  BY DEF Inv
<1> QED
  BY <1>1, InvAlways, PTL

LEMMA KeepsL == Spec => L!LedgerSpec
<1> QED
  BY InitIsLedgerInit, InvAlways, StepIsLedgerStep, PTL DEF Spec, L!LedgerSpec

\* The ledger of the two instances of RunLedger is one.
LEMMA SameLedger ==
  /\ L!LedgerInit <=> Ledger!LedgerInit
  /\ [L!LedgerNext]_Mapped <=> [Ledger!LedgerNext]_Mapped
  /\ L!WithinLimits <=> Ledger!WithinLimits
  /\ L!AtMostOnePending <=> Ledger!AtMostOnePending
  /\ L!RetryChain <=> Ledger!RetryChain
<1> USE DEF L!Rows, Ledger!Rows, L!Open, Ledger!Open, L!Closed, Ledger!Closed,
    L!Started, Ledger!Started, L!Production, Ledger!Production, L!Beside, Ledger!Beside,
    L!Cardinality, Ledger!Cardinality, L!WithinLimits, Ledger!WithinLimits
<1>1. L!LedgerInit <=> Ledger!LedgerInit
  BY DEF L!LedgerInit, Ledger!LedgerInit
<1>2. L!WithinLimits <=> Ledger!WithinLimits
  BY Zenon
<1>3. L!AtMostOnePending <=> Ledger!AtMostOnePending
  BY Zenon DEF L!AtMostOnePending, Ledger!AtMostOnePending
<1>4. L!RetryChain <=> Ledger!RetryChain
  BY Zenon DEF L!RetryChain, Ledger!RetryChain
<1>5. [L!LedgerNext]_Mapped <=> [Ledger!LedgerNext]_Mapped
  BY Zenon DEF L!LedgerNext, Ledger!LedgerNext, L!Request, Ledger!Request, L!OpenOf,
     Ledger!OpenOf, L!Entry, Ledger!Entry, L!Dispatch, Ledger!Dispatch, L!Requeue,
     Ledger!Requeue, L!Moved, Ledger!Moved, L!DispatchDiagnostic, Ledger!DispatchDiagnostic,
     L!Start, Ledger!Start, L!FailAndRetry, Ledger!FailAndRetry, L!Close, Ledger!Close
<1> QED
  BY <1>1, <1>2, <1>3, <1>4, <1>5

\* Requests, ticks, jobs, events, reconciliations, administrators and crashes do
\* to the runs only what RunLedger allows: CollectionControl implements it.
THEOREM ImplementsLedger == Spec => KeepsLedger
<1>1. Init => Ledger!LedgerInit
  BY InitIsLedgerInit, SameLedger
<1>2. Inv /\ [Next]_vars => [Ledger!LedgerNext]_Mapped
  BY StepIsLedgerStep, SameLedger
<1> QED
  BY <1>1, <1>2, InvAlways, PTL DEF Spec, KeepsLedger, Ledger!LedgerSpec

\* A device never has two pending or active runs.
THEOREM OnePending == Spec => []AtMostOnePending
<1>1. L!LedgerSpec => []L!AtMostOnePending
  BY LimitsAreNumbers, L!LedgerOnePending
<1>2. L!AtMostOnePending => AtMostOnePending
  BY SameLedger DEF AtMostOnePending
<1> QED
  BY <1>1, <1>2, KeepsL, PTL

\* Every retry continues one failed run of its device, and no more than Retries
\* follow each other.
THEOREM RetriesContinue == Spec => []RetryChain
<1>1. L!LedgerSpec => []L!RetryChain
  BY LimitsAreNumbers, L!LedgerRetryChain
<1>2. L!RetryChain => RetryChain
  BY SameLedger DEF RetryChain
<1> QED
  BY <1>1, <1>2, KeepsL, PTL

\* The production collections never exceed the global limit or a site's.
THEOREM LimitsHold == Spec => []ProductionWithinLimits
<1>1. Inv => ProductionWithinLimits
  BY SameLedger DEF Inv, ProductionWithinLimits
<1> QED
  BY <1>1, InvAlways, PTL

\* A run starts at most once, and a settled run stays settled.
THEOREM StartsOnce == Spec => NeverRestarted
<1>1. L!LedgerSpec => L!NeverRestarted
  BY LimitsAreNumbers, L!LedgerNeverRestarted
<1>2. [\A r \in L!Rows :
         /\ Mapped[r].status = "running" => Mapped'[r].status \in {"running"} \cup L!Closed
         /\ Mapped[r].status \in L!Closed => Mapped'[r].status \in L!Closed]_Mapped
      => [\A r \in Ledger!Rows :
           /\ Mapped[r].status = "running"
                => Mapped'[r].status \in {"running"} \cup Ledger!Closed
           /\ Mapped[r].status \in Ledger!Closed
                => Mapped'[r].status \in Ledger!Closed]_Mapped
  BY DEF L!Rows, Ledger!Rows, L!Closed, Ledger!Closed
<1> QED
  BY <1>1, <1>2, KeepsL, PTL DEF NeverRestarted, L!NeverRestarted, Ledger!NeverRestarted

-----------------------------------------------------------------------------
(* What Oxidized holds                                                     *)

HasBegun(r) == run[r].status \in {"running"} \cup Final

\* What the worker is about to hand to Oxidized has begun as well.
AcceptsBegun ==
  /\ AcceptedHasStarted
  /\ worker.pc = "engine" => HasBegun(worker.run)

LEMMA StaysBegun ==
  ASSUME Inv, [Next]_vars, NEW r \in Ids, HasBegun(r)
  PROVE  HasBegun(r)'
<1> USE DEF HasBegun, Pending, Active, Waiting, Final
<1>1. TypeOK /\ RunKinds
  BY StepRuns DEF Inv
<1>2. ASSUME NEW S, NEW status, Take(S, status),
             r \in S => status \in {"running"} \cup Final
      PROVE  HasBegun(r)'
  BY <1>2 DEF Take
<1>3. ASSUME NEW d \in Devices, NEW trigger \in {"manual", "scheduled", "diagnostic"},
             Requested(d, trigger)
      PROVE  HasBegun(r)'
  BY <1>1, <1>3, RequestedRows
<1>4. ASSUME NEW q \in Ids, Retried(q) PROVE HasBegun(r)'
  <2>1. run'[r] = IF r = q THEN Rewritten(run[r], "failed", FALSE) ELSE run[r]
    BY <1>1, <1>4, RetriedRows
  <2>2. run[r] \in Rows /\ "failed" \in Statuses /\ FALSE \in BOOLEAN
    BY <1>1, RowsTyped DEF Statuses
  <2>3. Rewritten(run[r], "failed", FALSE).status = "failed"
    BY <2>2, RewrittenFields
  <2> QED
    BY <2>1, <2>3
<1> QED
  BY <1>1, <1>2, <1>3, <1>4
     DEF RunKinds, Settles, Closing, Begun, Promoted, Requeued, Dispatched, Candidates

LEMMA AcceptsStep == Inv /\ AcceptsBegun /\ [Next]_vars => AcceptsBegun'
<1> SUFFICES ASSUME Inv, AcceptsBegun, [Next]_vars PROVE AcceptsBegun'
  OBVIOUS
<1>1. /\ TypeOK
      /\ worker.pc # "idle" => worker.run \in Ids
      /\ engine \in [Devices -> SUBSET Ids]
      /\ \A r \in Ids : HasBegun(r) => HasBegun(r)'
  BY StaysBegun DEF Inv, TypeOK
<1>2. \A r \in Ids : run[r].device \in Devices
  BY <1>1, RowsTyped DEF Rows
<1>3. \/ worker'.pc # "engine"
      \/ worker' = worker
      \/ \E r \in Ids : /\ worker.run = r /\ worker' = [worker EXCEPT !.pc = "engine"]
                      /\ run' = [run EXCEPT ![r].status = "running", ![r].stale = FALSE]
  <2>1. CASE Worker
    <3>1. CASE JobStart
      BY <3>1 DEF JobStart, Idle
    <3>7. CASE JobReconciles
      BY <3>7 DEF JobReconciles
    <3>2. ASSUME NEW r \in Ids, ValidationPasses(r) \/ InspectionPasses(r)
          PROVE  worker'.pc # "engine"
      BY <1>1, <3>2 DEF ValidationPasses, InspectionPasses, TypeOK
    <3>3. ASSUME NEW r \in Ids, ValidationFails(r) \/ InspectionFails(r)
          PROVE  worker'.pc # "engine"
      <4>1. worker' = Idle
        BY <3>3, Zenon DEF ValidationFails, InspectionFails
      <4> QED
        BY <4>1 DEF Idle
    <3>4. ASSUME NEW r \in Ids, SandboxStart(r) PROVE worker'.pc # "engine"
      <4>1. worker' = Idle \/ worker' = [worker EXCEPT !.pc = "await"]
        BY <3>4, Zenon DEF SandboxStart
      <4> QED
        BY <1>1, <4>1 DEF Idle, TypeOK
    <3>5. ASSUME NEW r \in Ids, EngineAccepts(r) \/ EngineRejects(r)
                               \/ EngineWithoutDevice(r) \/ SandboxResult(r)
          PROVE  worker'.pc # "engine"
      <4>1. worker' = Idle
        BY <3>5, Zenon DEF EngineAccepts, EngineRejects, EngineWithoutDevice, SandboxResult
      <4> QED
        BY <4>1 DEF Idle
    <3>6. ASSUME NEW r \in Ids, Admit(r), worker'.pc = "engine"
          PROVE  /\ worker.run = r /\ worker' = [worker EXCEPT !.pc = "engine"]
                 /\ run' = [run EXCEPT ![r].status = "running", ![r].stale = FALSE]
      BY <3>6 DEF Admit, Idle
    <3> QED
      BY <2>1, <3>1, <3>2, <3>3, <3>4, <3>5, <3>6, <3>7
         DEF Worker, Validation, Admission, Conclusion
  <2>2. CASE Crashes
    BY <2>2 DEF Crashes, SchedulerCrash, WorkerCrash, EventLost, Idle
  <2>3. CASE Web \/ Oxidized \/ Reports \/ Time \/ \E r \in Ids : DiagnosticDispatch(r)
    BY <2>3 DEF Web, ManualRequest, DiagnosticRequest, DiagnosticDispatch, Oxidized,
       EngineDone, Reports, NodeFail, ReconcileStale, Reconcile, PostStore, Time, CooldownElapses,
       DeadlinePasses, DeviceFallsDue, ManualCooldownElapses, Change
  <2>4. CASE Tick
    BY <2>4 DEF Tick, TickStart, TickDue, TickDispatch, TickEnd, TickFail,
       TickFailThrows, TickPush, TickSchedule, TickSkip
  <2>5. CASE Administration
    BY <2>5 DEF Administration, Approve, Revoke, Inventory, Destroy, Import, Drift,
       Change
  <2>6. CASE UNCHANGED vars
    BY <2>6 DEF vars
  <2> QED
    BY <2>1, <2>2, <2>3, <2>4, <2>5, <2>6 DEF Next
<1>4. \A d \in Devices : \A r \in engine'[d] :
        r \in engine[d] \/ (worker.pc = "engine" /\ r = worker.run)
  <2>1. CASE engine' = engine
    BY <2>1
  <2>2. ASSUME NEW r \in Ids, EngineAccepts(r)
        PROVE  \A d \in Devices : \A q \in engine'[d] :
                 q \in engine[d] \/ (worker.pc = "engine" /\ q = worker.run)
    BY <1>1, <2>2 DEF EngineAccepts
  <2>3. ASSUME NEW c \in Devices, NEW s \in Ids, NEW ok \in BOOLEAN, EngineDone(c, s, ok)
        PROVE  \A d \in Devices : \A q \in engine'[d] : q \in engine[d]
    BY <1>1, <2>3 DEF EngineDone
  <2>4. CASE WorkerCrash
    BY <1>1, <2>4 DEF WorkerCrash
  <2>5. \/ engine' = engine \/ WorkerCrash
        \/ \E r \in Ids : EngineAccepts(r)
        \/ \E d \in Devices, s \in Ids, ok \in BOOLEAN : EngineDone(d, s, ok)
    BY DEF Next, vars, Web, ManualRequest, DiagnosticRequest, DiagnosticDispatch,
           Tick, TickStart, TickDue, TickDispatch, TickEnd, TickFail, TickFailThrows,
           TickPush, TickSchedule, TickSkip,
           Worker, JobStart, JobReconciles, Validation, ValidationPasses, ValidationFails,
           InspectionPasses, InspectionFails, Admission, Admit, SandboxStart,
           Conclusion, EngineRejects, EngineWithoutDevice, SandboxResult,
           Oxidized, Reports, NodeFail, ReconcileStale, Reconcile, PostStore,
           Time, CooldownElapses, DeadlinePasses, DeviceFallsDue, ManualCooldownElapses,
           Administration, Approve, Revoke, Inventory, Destroy, Import, Drift, Change,
           Crashes, SchedulerCrash, EventLost
  <2> QED
    BY <2>1, <2>2, <2>3, <2>4, <2>5
<1>5. AcceptedHasStarted'
  <2>1. ASSUME NEW d \in Devices, NEW r \in engine'[d]
        PROVE  r \in Ids /\ HasBegun(r)
    BY <1>1, <1>4, <2>1 DEF AcceptsBegun, AcceptedHasStarted, HasBegun
  <2> QED
    BY <1>1, <2>1 DEF AcceptedHasStarted, HasBegun
<1>6. worker'.pc = "engine" => HasBegun(worker.run)' /\ worker'.run = worker.run
  <2>1. CASE worker'.pc = "engine" /\ worker' = worker
    BY <1>1, <2>1 DEF AcceptsBegun, HasBegun
  <2>2. ASSUME NEW r \in Ids, worker.run = r, worker' = [worker EXCEPT !.pc = "engine"],
               run' = [run EXCEPT ![r].status = "running", ![r].stale = FALSE]
        PROVE  run'[worker'.run].status = "running" /\ worker'.run = worker.run
    <3>1. run'[r].status = "running"
      <4>1. Take({r}, "running")
        BY <1>1, <2>2, RewrittenRow DEF Statuses, Pending, Active
      <4> QED
        BY <4>1 DEF Take
    <3>2. worker'.run = worker.run
      BY <1>1, <2>2 DEF TypeOK
    <3> QED
      BY <2>2, <3>1, <3>2
  <2> QED
    BY <1>3, <2>1, <2>2 DEF HasBegun
<1> QED
  BY <1>5, <1>6 DEF AcceptsBegun

\* Oxidized never works for a run that still waits to be started.
THEOREM OxidizedWorksForBegun == Spec => []AcceptedHasStarted
<1>1. Init => AcceptsBegun
  BY DEF Init, AcceptsBegun, AcceptedHasStarted, Idle
<1>2. AcceptsBegun => AcceptedHasStarted
  BY DEF AcceptsBegun
<1> QED
  BY <1>1, <1>2, AcceptsStep, InvAlways, PTL DEF Spec
===============================================================================
