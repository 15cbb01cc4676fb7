------------------------- MODULE UpdateExchange_proofs -------------------------
(***************************************************************************)
(* Theorems about UpdateExchange: its types, that one update at a time is  *)
(* in flight, that no version is replaced by an older one except on the    *)
(* way back, and that what is shown of the latest operation is true of the *)
(* installation, for every number of operations, versions and accidents.   *)
(***************************************************************************)
EXTENDS UpdateExchange, TLAPS

Steps(o) ==
  \/ \E to \in Versions : Create(o, to)
  \/ Dispatch(o) \/ WebDies(o) \/ JobStarts(o) \/ JobBacksUp(o)
  \/ JobFetches(o) \/ JobPublishes(o) \/ JobEnds(o) \/ JobErrors(o)
  \/ WorkerDies(o) \/ JobComesBack(o) \/ Takes(o) \/ Checks(o)
  \/ Verifies(o) \/ Pulls(o) \/ Publishes(o) \/ Applies(o)
  \/ ApplyFails(o) \/ Recovers(o) \/ RecoverFails(o) \/ Restarts(o)
  \/ Succeeds(o) \/ Leaves(o) \/ Fails(o) \/ FailsToReport(o)
  \/ Ends(o) \/ UpdaterDies(o) \/ Reads(o) \/ Writes(o)
  \/ Deletes(o)

\* A step is a step at one operation, or the death of the scheduler.
LEMMA NextIsStep == Next <=> SchedulerDies \/ \E o \in Ops : Steps(o)
  BY DEF Next, Steps, Worker, Updater, Update, Reconciler, Accidents

USE UpdateAssumption
USE DEF web, installation, Accident, Mishap, NoMishap, Status, At, Goes, Reports_, NoFile, NoRequest

LEMMA TypeInit == Init => TypeOK
  BY DEF Init, TypeOK, Ops, Progress, Results, Reports, Running, Mishaps

\* An error, and a failed attempt to apply, keep the updater's type.
UpdaterTyped ==
  /\ updater \in [pc : {"idle", "check", "verify", "pull", "publish", "apply", "recover",
                        "report", "succeed", "leave", "end"},
                  op : Ops \cup {0}, result : Results \cup {"none"}]
  /\ updater.pc # "idle" => updater.op \in Ops
  /\ updater.pc = "end" => updater.result \in Results

LEMMA ErrorTyped ==
  ASSUME UpdaterTyped, updater.op \in Ops,
         \/ updater' = [updater EXCEPT !.pc = "recover"]
         \/ \E result \in Results : updater' = [updater EXCEPT !.pc = "end", !.result = result]
  PROVE  UpdaterTyped'
<1>1. CASE updater' = [updater EXCEPT !.pc = "recover"]
  BY <1>1 DEF UpdaterTyped
<1>2. ASSUME NEW result \in Results, updater' = [updater EXCEPT !.pc = "end", !.result = result]
      PROVE  UpdaterTyped'
  BY <1>2 DEF UpdaterTyped
<1> QED
  BY <1>1, <1>2

LEMMA TypeStep == ASSUME TypeOK, [Next]_vars PROVE TypeOK'
<1> USE DEF TypeOK, Progress, Results, Reports, Running, Mishaps
<1>0. CASE UNCHANGED vars
  BY <1>0 DEF vars
<1>1. CASE SchedulerDies
  BY <1>1 DEF SchedulerDies
<1>2. ASSUME NEW o \in Ops, Steps(o) PROVE TypeOK'
  <2>0. ASSUME NEW to \in Versions, Create(o, to) PROVE TypeOK'
    BY <2>0 DEF Create
  <2>1. CASE Dispatch(o)
    BY <2>1 DEF Dispatch
  <2>2. CASE WebDies(o)
    BY <2>2 DEF WebDies
  <2>3. CASE JobStarts(o)
    BY <2>3 DEF JobStarts
  <2>4. CASE JobBacksUp(o)
    BY <2>4 DEF JobBacksUp
  <2>5. CASE JobFetches(o)
    BY <2>5 DEF JobFetches
  <2>6. CASE JobPublishes(o)
    BY <2>6 DEF JobPublishes
  <2>7. CASE JobEnds(o)
    BY <2>7 DEF JobEnds
  <2>8. CASE JobErrors(o)
    <3>1. op' = [op EXCEPT ![o].status = "failed"]
      BY <2>8 DEF JobErrors
    <3>2. op' \in [Ops -> [status : Progress \cup Results \cup {"none"}, from : Versions, to : Versions]]
      BY <3>1
    <3>3. marker' \in [Ops -> {"none", "queued", "processing", "removed"}]
      BY <2>8 DEF JobErrors
    <3>4. mishaps' \in [Ops -> SUBSET Mishaps]
      BY <2>8 DEF JobErrors
    <3> QED
      BY <2>8, <3>2, <3>3, <3>4 DEF JobErrors
  <2>9. CASE WorkerDies(o)
    BY <2>9 DEF WorkerDies
  <2>10. CASE JobComesBack(o)
    <3>1. op' = [op EXCEPT ![o].status = "failed"]
      BY <2>10 DEF JobComesBack
    <3>2. op' \in [Ops -> [status : Progress \cup Results \cup {"none"}, from : Versions, to : Versions]]
      BY <3>1
    <3>3. mishaps' \in [Ops -> SUBSET Mishaps]
      BY <2>10 DEF JobComesBack
    <3> QED
      BY <2>10, <3>2, <3>3 DEF JobComesBack
  <2>11. CASE Takes(o)
    BY <2>11 DEF Takes
  <2>12. CASE Checks(o)
    BY <2>12 DEF Checks
  <2>13. CASE Verifies(o)
    BY <2>13 DEF Verifies
  <2>14. CASE Pulls(o)
    BY <2>14 DEF Pulls
  <2>15. CASE Publishes(o)
    BY <2>15 DEF Publishes
  <2>16. CASE Applies(o)
    BY <2>16 DEF Applies
  <2>17. CASE ApplyFails(o)
    <3>1. updater.op \in Ops /\ UpdaterTyped
      BY <2>17 DEF ApplyFails, UpdaterTyped
    <3>2. \/ updater' = [updater EXCEPT !.pc = "recover"]
          \/ \E result \in Results : updater' = [updater EXCEPT !.pc = "end", !.result = result]
      BY <2>17 DEF ApplyFails
    <3>3. UpdaterTyped'
      BY <3>1, <3>2, ErrorTyped
    <3>4. app' \in Versions
      BY <2>17 DEF ApplyFails
    <3>5. UNCHANGED <<op, job, published, marker, file, rec, compose, previous, mishaps, faults>>
      BY <2>17 DEF ApplyFails
    <3> HIDE DEF Progress, Results, Reports, Running, Mishaps
    <3> QED
      BY <3>3, <3>4, <3>5 DEF UpdaterTyped
  <2>18. CASE Recovers(o)
    BY <2>18 DEF Recovers
  <2>19. CASE RecoverFails(o)
    <3>1. updater.op \in Ops /\ UpdaterTyped
      BY <2>19 DEF RecoverFails, UpdaterTyped
    <3>2. \E result \in Results : updater' = [updater EXCEPT !.pc = "end", !.result = result]
      BY <2>19 DEF RecoverFails
    <3>3. UpdaterTyped'
      BY <3>1, <3>2, ErrorTyped
    <3>4. compose' \in Versions /\ app' \in Versions
      BY <2>19 DEF RecoverFails
    <3>5. UNCHANGED <<op, job, published, marker, file, rec, previous, mishaps, faults>>
      BY <2>19 DEF RecoverFails
    <3> HIDE DEF Progress, Results, Reports, Running, Mishaps
    <3> QED
      BY <3>3, <3>4, <3>5 DEF UpdaterTyped
  <2>20. CASE Restarts(o)
    BY <2>20 DEF Restarts
  <2>21. CASE Succeeds(o)
    BY <2>21 DEF Succeeds
  <2>22. CASE Leaves(o)
    BY <2>22 DEF Leaves
  <2>23. CASE Fails(o)
    <3>1. updater.op \in Ops /\ UpdaterTyped
      BY <2>23 DEF Fails, UpdaterTyped
    <3>2. \E result \in Results : updater' = [updater EXCEPT !.pc = "end", !.result = result]
      BY <2>23 DEF Fails
    <3>3. UpdaterTyped'
      BY <3>1, <3>2, ErrorTyped
    <3>4. UNCHANGED <<op, job, published, marker, file, rec, compose, previous, app, mishaps, faults>>
      BY <2>23 DEF Fails
    <3> QED
      BY <3>3, <3>4 DEF UpdaterTyped
  <2>24. CASE FailsToReport(o)
    <3>1. updater.op \in Ops /\ UpdaterTyped
      BY <2>24 DEF FailsToReport, UpdaterTyped
    <3>2. \E result \in Results : updater' = [updater EXCEPT !.pc = "end", !.result = result]
      BY <2>24 DEF FailsToReport
    <3>3. UpdaterTyped'
      BY <3>1, <3>2, ErrorTyped
    <3>4. mishaps' \in [Ops -> SUBSET Mishaps] /\ faults' \in 0..MaxFaults
      BY <2>24 DEF FailsToReport
    <3>5. UNCHANGED <<op, job, published, marker, file, rec, compose, previous, app>>
      BY <2>24 DEF FailsToReport
    <3> HIDE DEF Progress, Results, Reports, Running, Mishaps
    <3> QED
      BY <3>3, <3>4, <3>5 DEF UpdaterTyped
  <2>25. CASE Ends(o)
    <3>1. file' \in [Ops -> Reports \cup {"none"}]
      BY <2>25 DEF Ends
    <3>2. mishaps' \in [Ops -> SUBSET Mishaps] /\ faults' \in 0..MaxFaults
      BY <2>25 DEF Ends
    <3>3. /\ marker' \in [Ops -> {"none", "queued", "processing", "removed"}]
          /\ updater' = NoRequest
          /\ UNCHANGED <<op, job, published, rec, compose, previous, app>>
      BY <2>25 DEF Ends
    <3> QED
      BY <3>1, <3>2, <3>3
  <2>26. CASE UpdaterDies(o)
    BY <2>26 DEF UpdaterDies
  <2>27. CASE Reads(o)
    BY <2>27 DEF Reads
  <2>28. CASE Writes(o)
    <3>1. rec.read \in Reports
      BY <2>28 DEF Writes
    <3>2. op' = op \/ op' = [op EXCEPT ![o].status = rec.read]
      BY <2>28 DEF Writes
    <3>3. op' \in [Ops -> [status : Progress \cup Results \cup {"none"}, from : Versions, to : Versions]]
      BY <3>1, <3>2
    <3> QED
      BY <2>28, <3>3 DEF Writes
  <2>29. CASE Deletes(o)
    BY <2>29 DEF Deletes
  <2> QED
    BY <1>2, <2>0, <2>1, <2>2, <2>3, <2>4, <2>5, <2>6, <2>7, <2>8, <2>9, <2>10, <2>11, <2>12, <2>13, <2>14,
       <2>15, <2>16, <2>17, <2>18, <2>19, <2>20, <2>21, <2>22, <2>23, <2>24, <2>25, <2>26, <2>27, <2>28,
       <2>29 DEF Steps
<1> QED
  BY <1>0, <1>1, <1>2, NextIsStep

-----------------------------------------------------------------------------
(* What the variables of the two sides say of each other.                    *)

\* A marker exists only once its job has published it; the updater, a status
\* file and the reconciler are only ever at an operation that has a marker; and
\* an operation whose job still works on it is active.
Links ==
  \A o \in Ops :
    /\ job[o] # "none" => op[o].status # "none"
    /\ marker[o] # "none" => job[o] \in {"ending", "dead", "over"}
    /\ updater.pc # "idle" /\ updater.op = o => marker[o] = "processing"
    /\ file[o] # "none" => marker[o] # "none"
    /\ rec.pc # "idle" /\ rec.op = o => marker[o] # "none"
    /\ job[o] \in {"queued", "backup", "assets", "marker"} => Active(o)

\* A failed attempt to apply leads to the way back or to the end.
LEMMA ApplyFailsGoes ==
  ASSUME TypeOK, NEW o \in Ops, ApplyFails(o)
  PROVE  /\ updater.op = o /\ updater.pc = "apply"
         /\ updater'.op = o /\ updater'.pc \in {"recover", "end"}
<1> USE DEF TypeOK
<1>1. updater.op = o /\ updater.pc = "apply"
  BY DEF ApplyFails
<1>2. CASE updater' = [updater EXCEPT !.pc = "recover"]
  BY <1>1, <1>2
<1>3. CASE updater' = [updater EXCEPT !.pc = "end", !.result = "recovery_required"]
  BY <1>1, <1>3
<1> QED
  BY <1>2, <1>3 DEF ApplyFails

LEMMA LinksInit == Init => Links
  BY DEF Init, Links

LEMMA LinksStep == ASSUME TypeOK, TypeOK', Links, [Next]_vars PROVE Links'
<1> USE DEF TypeOK, Links, Active, Progress, Running
<1>0. CASE UNCHANGED vars
  BY <1>0 DEF vars
<1>1. CASE SchedulerDies
  BY <1>1 DEF SchedulerDies
<1>2. ASSUME NEW o \in Ops, Steps(o) PROVE Links'
  <2>0. ASSUME NEW to \in Versions, Create(o, to) PROVE Links'
    BY <2>0 DEF Create
  <2>1. CASE Dispatch(o)
    BY <2>1 DEF Dispatch
  <2>2. CASE WebDies(o)
    BY <2>2 DEF WebDies
  <2>3. CASE JobStarts(o)
    BY <2>3 DEF JobStarts
  <2>4. CASE JobBacksUp(o)
    BY <2>4 DEF JobBacksUp
  <2>5. CASE JobFetches(o)
    BY <2>5 DEF JobFetches
  <2>6. CASE JobPublishes(o)
    BY <2>6 DEF JobPublishes
  <2>7. CASE JobEnds(o)
    BY <2>7 DEF JobEnds
  <2>8. CASE JobErrors(o)
    BY <2>8 DEF JobErrors
  <2>9. CASE WorkerDies(o)
    BY <2>9 DEF WorkerDies
  <2>10. CASE JobComesBack(o)
    BY <2>10 DEF JobComesBack
  <2>11. CASE Takes(o)
    BY <2>11 DEF Takes
  <2>12. CASE Checks(o)
    BY <2>12 DEF Checks
  <2>13. CASE Verifies(o)
    BY <2>13 DEF Verifies
  <2>14. CASE Pulls(o)
    BY <2>14 DEF Pulls
  <2>15. CASE Publishes(o)
    BY <2>15 DEF Publishes
  <2>16. CASE Applies(o)
    BY <2>16 DEF Applies
  <2>17. CASE ApplyFails(o)
    BY <2>17, ApplyFailsGoes DEF ApplyFails
  <2>18. CASE Recovers(o)
    BY <2>18 DEF Recovers
  <2>19. CASE RecoverFails(o)
    BY <2>19 DEF RecoverFails
  <2>20. CASE Restarts(o)
    BY <2>20 DEF Restarts
  <2>21. CASE Succeeds(o)
    BY <2>21 DEF Succeeds
  <2>22. CASE Leaves(o)
    BY <2>22 DEF Leaves
  <2>23. CASE Fails(o)
    BY <2>23 DEF Fails
  <2>24. CASE FailsToReport(o)
    BY <2>24 DEF FailsToReport
  <2>25. CASE Ends(o)
    BY <2>25 DEF Ends
  <2>26. CASE UpdaterDies(o)
    BY <2>26 DEF UpdaterDies
  <2>27. CASE Reads(o)
    BY <2>27 DEF Reads
  <2>28. CASE Writes(o)
    <3>1. rec.pc # "idle" /\ rec.op = o /\ rec'.op = o /\ rec.read \in Reports
      BY <2>28 DEF Writes
    <3>2. op' = op \/ op' = [op EXCEPT ![o].status = rec.read]
      BY <2>28 DEF Writes
    <3>3. job[o] \in {"ending", "dead", "over"}
      BY <3>1
    <3>4. op'[o].status # "none"
      BY <3>1, <3>2, <3>3 DEF Reports, Results
    <3>5. \A p \in Ops : p # o => op'[p] = op[p]
      BY <3>2
    <3> QED
      BY <2>28, <3>1, <3>3, <3>4, <3>5 DEF Writes
  <2>29. CASE Deletes(o)
    BY <2>29 DEF Deletes
  <2> QED
    BY <1>2, <2>0, <2>1, <2>2, <2>3, <2>4, <2>5, <2>6, <2>7, <2>8, <2>9, <2>10, <2>11, <2>12, <2>13, <2>14,
       <2>15, <2>16, <2>17, <2>18, <2>19, <2>20, <2>21, <2>22, <2>23, <2>24, <2>25, <2>26, <2>27, <2>28,
       <2>29 DEF Steps
<1> QED
  BY <1>0, <1>1, <1>2, NextIsStep

-----------------------------------------------------------------------------
(* Versions.                                                                 *)

\* From the check to its own end the updater works towards a version that is
\* not older than the one that runs.
Upwards ==
  /\ updater.pc \in {"verify", "pull", "publish", "apply"} => app <= op[updater.op].to
  /\ updater.pc = "apply" => compose = op[updater.op].to

LEMMA UpwardsInit == Init => Upwards
  BY DEF Init, Upwards

LEMMA UpwardsStep == ASSUME TypeOK, TypeOK', Links, Upwards, [Next]_vars PROVE Upwards'
<1> USE DEF TypeOK, Links, Upwards
<1>0. CASE UNCHANGED vars
  BY <1>0 DEF vars
<1>1. CASE SchedulerDies
  BY <1>1 DEF SchedulerDies
<1>2. ASSUME NEW o \in Ops, Steps(o) PROVE Upwards'
  <2>0. ASSUME NEW to \in Versions, Create(o, to) PROVE Upwards'
    BY <2>0 DEF Create
  <2>1. CASE Dispatch(o)
    BY <2>1 DEF Dispatch
  <2>2. CASE WebDies(o)
    BY <2>2 DEF WebDies
  <2>3. CASE JobStarts(o)
    BY <2>3 DEF JobStarts
  <2>4. CASE JobBacksUp(o)
    BY <2>4 DEF JobBacksUp
  <2>5. CASE JobFetches(o)
    BY <2>5 DEF JobFetches
  <2>6. CASE JobPublishes(o)
    BY <2>6 DEF JobPublishes
  <2>7. CASE JobEnds(o)
    BY <2>7 DEF JobEnds
  <2>8. CASE JobErrors(o)
    BY <2>8 DEF JobErrors
  <2>9. CASE WorkerDies(o)
    BY <2>9 DEF WorkerDies
  <2>10. CASE JobComesBack(o)
    BY <2>10 DEF JobComesBack
  <2>11. CASE Takes(o)
    BY <2>11 DEF Takes
  <2>12. CASE Checks(o)
    BY <2>12 DEF Checks, SourceMatches
  <2>13. CASE Verifies(o)
    BY <2>13 DEF Verifies
  <2>14. CASE Pulls(o)
    BY <2>14 DEF Pulls
  <2>15. CASE Publishes(o)
    BY <2>15 DEF Publishes
  <2>16. CASE Applies(o)
    BY <2>16 DEF Applies
  <2>17. CASE ApplyFails(o)
    BY <2>17, ApplyFailsGoes
  <2>18. CASE Recovers(o)
    BY <2>18 DEF Recovers
  <2>19. CASE RecoverFails(o)
    BY <2>19 DEF RecoverFails
  <2>20. CASE Restarts(o)
    BY <2>20 DEF Restarts
  <2>21. CASE Succeeds(o)
    BY <2>21 DEF Succeeds
  <2>22. CASE Leaves(o)
    BY <2>22 DEF Leaves
  <2>23. CASE Fails(o)
    BY <2>23 DEF Fails
  <2>24. CASE FailsToReport(o)
    BY <2>24 DEF FailsToReport
  <2>25. CASE Ends(o)
    BY <2>25 DEF Ends
  <2>26. CASE UpdaterDies(o)
    BY <2>26 DEF UpdaterDies
  <2>27. CASE Reads(o)
    BY <2>27 DEF Reads
  <2>28. CASE Writes(o)
    BY <2>28 DEF Writes
  <2>29. CASE Deletes(o)
    BY <2>29 DEF Deletes
  <2> QED
    BY <1>2, <2>0, <2>1, <2>2, <2>3, <2>4, <2>5, <2>6, <2>7, <2>8, <2>9, <2>10, <2>11, <2>12, <2>13, <2>14,
       <2>15, <2>16, <2>17, <2>18, <2>19, <2>20, <2>21, <2>22, <2>23, <2>24, <2>25, <2>26, <2>27, <2>28,
       <2>29 DEF Steps
<1> QED
  BY <1>0, <1>1, <1>2, NextIsStep

-----------------------------------------------------------------------------
(* One update at a time.                                                     *)

\* The updater has said its last word about an operation, and will not take it
\* again.
Over(o) == /\ marker[o] \in {"processing", "removed"}
           /\ ~(updater.pc \in Working /\ updater.op = o)

\* A result in a status file, or on its way into the table, is the last word.
Words ==
  \A o \in Ops :
    /\ file[o] \in Results => Over(o)
    /\ rec.pc = "write" /\ rec.op = o /\ rec.read \in Results => Over(o)

LEMMA WordsInit == Init => Words
  BY DEF Init, Words, Results

LEMMA WordsStep == ASSUME TypeOK, TypeOK', Links, Words, [Next]_vars PROVE Words'
<1> USE DEF TypeOK, Links, Words, Over, Working, Results, Running
<1>0. CASE UNCHANGED vars
  BY <1>0 DEF vars
<1>1. CASE SchedulerDies
  BY <1>1 DEF SchedulerDies
<1>2. ASSUME NEW o \in Ops, Steps(o) PROVE Words'
  <2>0. ASSUME NEW to \in Versions, Create(o, to) PROVE Words'
    BY <2>0 DEF Create
  <2>1. CASE Dispatch(o)
    BY <2>1 DEF Dispatch
  <2>2. CASE WebDies(o)
    BY <2>2 DEF WebDies
  <2>3. CASE JobStarts(o)
    BY <2>3 DEF JobStarts
  <2>4. CASE JobBacksUp(o)
    BY <2>4 DEF JobBacksUp
  <2>5. CASE JobFetches(o)
    BY <2>5 DEF JobFetches
  <2>6. CASE JobPublishes(o)
    BY <2>6 DEF JobPublishes
  <2>7. CASE JobEnds(o)
    BY <2>7 DEF JobEnds
  <2>8. CASE JobErrors(o)
    BY <2>8 DEF JobErrors
  <2>9. CASE WorkerDies(o)
    BY <2>9 DEF WorkerDies
  <2>10. CASE JobComesBack(o)
    BY <2>10 DEF JobComesBack
  <2>11. CASE Takes(o)
    BY <2>11 DEF Takes
  <2>12. CASE Checks(o)
    BY <2>12 DEF Checks
  <2>13. CASE Verifies(o)
    BY <2>13 DEF Verifies
  <2>14. CASE Pulls(o)
    BY <2>14 DEF Pulls
  <2>15. CASE Publishes(o)
    BY <2>15 DEF Publishes
  <2>16. CASE Applies(o)
    BY <2>16 DEF Applies
  <2>17. CASE ApplyFails(o)
    BY <2>17, ApplyFailsGoes DEF ApplyFails
  <2>18. CASE Recovers(o)
    BY <2>18 DEF Recovers
  <2>19. CASE RecoverFails(o)
    BY <2>19 DEF RecoverFails
  <2>20. CASE Restarts(o)
    BY <2>20 DEF Restarts
  <2>21. CASE Succeeds(o)
    BY <2>21 DEF Succeeds
  <2>22. CASE Leaves(o)
    BY <2>22 DEF Leaves
  <2>23. CASE Fails(o)
    BY <2>23 DEF Fails
  <2>24. CASE FailsToReport(o)
    BY <2>24 DEF FailsToReport
  <2>25. CASE Ends(o)
    BY <2>25 DEF Ends
  <2>26. CASE UpdaterDies(o)
    BY <2>26 DEF UpdaterDies
  <2>27. CASE Reads(o)
    BY <2>27 DEF Reads
  <2>28. CASE Writes(o)
    BY <2>28 DEF Writes
  <2>29. CASE Deletes(o)
    BY <2>29 DEF Deletes
  <2> QED
    BY <1>2, <2>0, <2>1, <2>2, <2>3, <2>4, <2>5, <2>6, <2>7, <2>8, <2>9, <2>10, <2>11, <2>12, <2>13, <2>14,
       <2>15, <2>16, <2>17, <2>18, <2>19, <2>20, <2>21, <2>22, <2>23, <2>24, <2>25, <2>26, <2>27, <2>28,
       <2>29 DEF Steps
<1> QED
  BY <1>0, <1>1, <1>2, NextIsStep

\* Unless a job was failed after it had published, what is at work is active,
\* and so is what the reconciler is about to move: it closes an operation only
\* after the last word about it, and never opens one again.
Unpublished == \A o \in Ops : "published" \notin mishaps[o]
Exclusive ==
  /\ \A o \in Ops :
       marker[o] = "queued" \/ (updater.pc \in Working /\ updater.op = o) => Active(o)
  /\ rec.pc = "write" => Active(rec.op)
  /\ \A p, q \in Ops : Active(p) /\ Active(q) => p = q

LEMMA ExclusiveInit == Init => Exclusive
<1> SUFFICES ASSUME Init PROVE Exclusive
  OBVIOUS
<1>1. \A o \in Ops : op[o].status = "none" /\ marker[o] = "none"
  BY DEF Init
<1>2. \A o \in Ops : ~Active(o)
  BY <1>1 DEF Active, Progress
<1> QED
  BY <1>1, <1>2 DEF Init, Exclusive, Working

LEMMA UnpublishedBefore == ASSUME TypeOK, Unpublished', [Next]_vars PROVE Unpublished
<1> USE DEF TypeOK, Unpublished
<1>0. CASE UNCHANGED vars
  BY <1>0 DEF vars
<1>1. CASE SchedulerDies
  BY <1>1 DEF SchedulerDies
<1>2. ASSUME NEW o \in Ops, Steps(o) PROVE Unpublished
  <2>0. ASSUME NEW to \in Versions, Create(o, to) PROVE Unpublished
    BY <2>0 DEF Create
  <2>1. CASE Dispatch(o)
    BY <2>1 DEF Dispatch
  <2>2. CASE WebDies(o)
    BY <2>2 DEF WebDies
  <2>3. CASE JobStarts(o)
    BY <2>3 DEF JobStarts
  <2>4. CASE JobBacksUp(o)
    BY <2>4 DEF JobBacksUp
  <2>5. CASE JobFetches(o)
    BY <2>5 DEF JobFetches
  <2>6. CASE JobPublishes(o)
    BY <2>6 DEF JobPublishes
  <2>7. CASE JobEnds(o)
    BY <2>7 DEF JobEnds
  <2>8. CASE JobErrors(o)
    BY <2>8 DEF JobErrors
  <2>9. CASE WorkerDies(o)
    BY <2>9 DEF WorkerDies
  <2>10. CASE JobComesBack(o)
    BY <2>10 DEF JobComesBack
  <2>11. CASE Takes(o)
    BY <2>11 DEF Takes
  <2>12. CASE Checks(o)
    BY <2>12 DEF Checks
  <2>13. CASE Verifies(o)
    BY <2>13 DEF Verifies
  <2>14. CASE Pulls(o)
    BY <2>14 DEF Pulls
  <2>15. CASE Publishes(o)
    BY <2>15 DEF Publishes
  <2>16. CASE Applies(o)
    BY <2>16 DEF Applies
  <2>17. CASE ApplyFails(o)
    BY <2>17 DEF ApplyFails
  <2>18. CASE Recovers(o)
    BY <2>18 DEF Recovers
  <2>19. CASE RecoverFails(o)
    BY <2>19 DEF RecoverFails
  <2>20. CASE Restarts(o)
    BY <2>20 DEF Restarts
  <2>21. CASE Succeeds(o)
    BY <2>21 DEF Succeeds
  <2>22. CASE Leaves(o)
    BY <2>22 DEF Leaves
  <2>23. CASE Fails(o)
    BY <2>23 DEF Fails
  <2>24. CASE FailsToReport(o)
    BY <2>24 DEF FailsToReport
  <2>25. CASE Ends(o)
    BY <2>25 DEF Ends
  <2>26. CASE UpdaterDies(o)
    BY <2>26 DEF UpdaterDies
  <2>27. CASE Reads(o)
    BY <2>27 DEF Reads
  <2>28. CASE Writes(o)
    BY <2>28 DEF Writes
  <2>29. CASE Deletes(o)
    BY <2>29 DEF Deletes
  <2> QED
    BY <1>2, <2>0, <2>1, <2>2, <2>3, <2>4, <2>5, <2>6, <2>7, <2>8, <2>9, <2>10, <2>11, <2>12, <2>13, <2>14,
       <2>15, <2>16, <2>17, <2>18, <2>19, <2>20, <2>21, <2>22, <2>23, <2>24, <2>25, <2>26, <2>27, <2>28,
       <2>29 DEF Steps
<1> QED
  BY <1>0, <1>1, <1>2, NextIsStep

LEMMA ExclusiveStep == ASSUME TypeOK, TypeOK', Links, Words, Unpublished', Exclusive, [Next]_vars PROVE Exclusive'
<1> USE DEF TypeOK, Links, Words, Over, Working, Results, Progress, Reports, Running, Unpublished, Exclusive,
            Active
<1>0. CASE UNCHANGED vars
  BY <1>0 DEF vars
<1>1. CASE SchedulerDies
  BY <1>1 DEF SchedulerDies
<1>2. ASSUME NEW o \in Ops, Steps(o) PROVE Exclusive'
  <2>0. ASSUME NEW to \in Versions, Create(o, to) PROVE Exclusive'
    BY <2>0 DEF Create
  <2>1. CASE Dispatch(o)
    BY <2>1 DEF Dispatch
  <2>2. CASE WebDies(o)
    BY <2>2 DEF WebDies
  <2>3. CASE JobStarts(o)
    BY <2>3 DEF JobStarts
  <2>4. CASE JobBacksUp(o)
    BY <2>4 DEF JobBacksUp
  <2>5. CASE JobFetches(o)
    BY <2>5 DEF JobFetches
  <2>6. CASE JobPublishes(o)
    BY <2>6 DEF JobPublishes
  <2>7. CASE JobEnds(o)
    BY <2>7 DEF JobEnds
  <2>8. CASE JobErrors(o)
    <3>1. /\ job[o] \in {"backup", "assets", "marker"}
          /\ op' = [op EXCEPT ![o].status = "failed"]
          /\ UNCHANGED <<rec, updater>>
      BY <2>8 DEF JobErrors
    <3>2. UNCHANGED marker
      BY <2>8 DEF JobErrors
    <3>3. marker[o] = "none"
      BY <3>1
    <3>4. ~(updater.pc \in Working /\ updater.op = o) /\ ~(rec.pc = "write" /\ rec.op = o)
      BY <3>3
    <3>5. \A p \in Ops : p # o => op'[p] = op[p]
      BY <3>1
    <3>6. op'[o].status = "failed"
      BY <3>1
    <3> QED
      BY <3>1, <3>2, <3>3, <3>4, <3>5, <3>6
  <2>9. CASE WorkerDies(o)
    BY <2>9 DEF WorkerDies
  <2>10. CASE JobComesBack(o)
    BY <2>10 DEF JobComesBack
  <2>11. CASE Takes(o)
    BY <2>11 DEF Takes
  <2>12. CASE Checks(o)
    BY <2>12 DEF Checks
  <2>13. CASE Verifies(o)
    BY <2>13 DEF Verifies
  <2>14. CASE Pulls(o)
    BY <2>14 DEF Pulls
  <2>15. CASE Publishes(o)
    BY <2>15 DEF Publishes
  <2>16. CASE Applies(o)
    BY <2>16 DEF Applies
  <2>17. CASE ApplyFails(o)
    BY <2>17, ApplyFailsGoes DEF ApplyFails
  <2>18. CASE Recovers(o)
    BY <2>18 DEF Recovers
  <2>19. CASE RecoverFails(o)
    BY <2>19 DEF RecoverFails
  <2>20. CASE Restarts(o)
    BY <2>20 DEF Restarts
  <2>21. CASE Succeeds(o)
    BY <2>21 DEF Succeeds
  <2>22. CASE Leaves(o)
    BY <2>22 DEF Leaves
  <2>23. CASE Fails(o)
    BY <2>23 DEF Fails
  <2>24. CASE FailsToReport(o)
    BY <2>24 DEF FailsToReport
  <2>25. CASE Ends(o)
    BY <2>25 DEF Ends
  <2>26. CASE UpdaterDies(o)
    BY <2>26 DEF UpdaterDies
  <2>27. CASE Reads(o)
    BY <2>27 DEF Reads
  <2>28. CASE Writes(o)
    <3>1. /\ rec.pc = "write" /\ rec.op = o /\ rec'.pc = "delete"
          /\ UNCHANGED <<marker, updater>>
      BY <2>28 DEF Writes
    <3>2. op' = op \/ op' = [op EXCEPT ![o].status = rec.read]
      BY <2>28 DEF Writes
    <3>3. rec.read \in Results => ~(marker[o] = "queued" \/ (updater.pc \in Working /\ updater.op = o))
      BY <3>1
    <3>4. Active(o) /\ (rec.read \notin Results => op'[o].status \in Progress)
      BY <3>1, <3>2
    <3>5. \A p \in Ops : p # o => op'[p] = op[p]
      BY <3>2
    <3> QED
      BY <3>1, <3>3, <3>4, <3>5
  <2>29. CASE Deletes(o)
    BY <2>29 DEF Deletes
  <2> QED
    BY <1>2, <2>0, <2>1, <2>2, <2>3, <2>4, <2>5, <2>6, <2>7, <2>8, <2>9, <2>10, <2>11, <2>12, <2>13, <2>14,
       <2>15, <2>16, <2>17, <2>18, <2>19, <2>20, <2>21, <2>22, <2>23, <2>24, <2>25, <2>26, <2>27, <2>28,
       <2>29 DEF Steps
<1> QED
  BY <1>0, <1>1, <1>2, NextIsStep

-----------------------------------------------------------------------------
(* Theorems.                                                                 *)

UpdateInv == TypeOK /\ Links /\ Words /\ Upwards /\ (Unpublished => Exclusive)

LEMMA Invariant == Spec => []UpdateInv
<1>1. Init => UpdateInv
  BY TypeInit, LinksInit, WordsInit, UpwardsInit, ExclusiveInit DEF UpdateInv
<1>2. ASSUME UpdateInv, [Next]_vars PROVE UpdateInv'
  <2> USE <1>2 DEF UpdateInv
  <2>1. TypeOK'
    BY TypeStep
  <2>2. Links' /\ Words' /\ Upwards'
    BY <2>1, LinksStep, WordsStep, UpwardsStep
  <2>3. ASSUME Unpublished' PROVE Exclusive'
    BY <2>1, <2>3, UnpublishedBefore, ExclusiveStep
  <2> QED
    BY <2>1, <2>2, <2>3
<1> QED
  BY <1>1, <1>2, PTL DEF Spec

\* Every variable of the exchange keeps its type, whoever dies when.
THEOREM UpdatesTyped == Spec => []TypeOK
  BY Invariant, PTL DEF UpdateInv

\* From its creation to the updater's last word an operation is alone, unless a
\* job was failed after it had published its request.
THEOREM UpdatesStayApart == Spec => []OneInFlight
<1>1. ASSUME UpdateInv PROVE OneInFlight
  <2> SUFFICES ASSUME Without({"published"}) PROVE \A p, q \in Ops : InFlight(p) /\ InFlight(q) => p = q
    BY DEF OneInFlight
  <2>1. Unpublished
    BY DEF Without, Unpublished
  <2>2. Exclusive
    BY <1>1, <2>1 DEF UpdateInv
  <2>3. \A p \in Ops : InFlight(p) => Active(p)
    BY <2>2 DEF Exclusive, InFlight
  <2> QED
    BY <2>2, <2>3 DEF Exclusive
<1> QED
  BY <1>1, Invariant, PTL

\* A version is replaced by an older one only on the way back to the Compose file
\* the updater has kept aside.
THEOREM VersionsGoUp == Spec => NoDowngrade
<1>1. ASSUME UpdateInv, [Next]_vars PROVE app' < app => updater.pc = "recover" /\ app' = previous
  <2> USE <1>1 DEF UpdateInv, TypeOK, Upwards
  <2>1. ASSUME NEW o \in Ops, Applies(o) \/ ApplyFails(o) PROVE app' >= app
    BY <2>1 DEF Applies, ApplyFails
  <2>2. ASSUME NEW o \in Ops, Recovers(o) \/ RecoverFails(o)
        PROVE  updater.pc = "recover" /\ app' \in {app, previous}
    BY <2>2 DEF Recovers, RecoverFails
  <2>3. ASSUME NEW o \in Ops, UpdaterDies(o)
        PROVE  \/ app' >= app
               \/ updater.pc = "recover" /\ app' \in {app, previous}
    <3>1. CASE updater.pc = "apply"
      BY <2>3, <3>1 DEF UpdaterDies
    <3>2. CASE updater.pc = "recover"
      BY <2>3, <3>2 DEF UpdaterDies
    <3>3. CASE updater.pc \notin {"apply", "recover"}
      BY <2>3, <3>3 DEF UpdaterDies
    <3> QED
      BY <3>1, <3>2, <3>3
  <2>4. \/ UNCHANGED app
        \/ \E o \in Ops : \/ Applies(o) \/ ApplyFails(o) \/ Recovers(o) \/ RecoverFails(o)
                         \/ UpdaterDies(o)
    BY NextIsStep DEF Steps, vars, SchedulerDies, Create, Dispatch, WebDies, JobStarts, JobBacksUp,
       JobFetches, JobPublishes, JobEnds, JobErrors, WorkerDies, JobComesBack, Takes, Checks, Verifies,
       Pulls, Publishes, Restarts, Succeeds, Leaves, Fails, FailsToReport, Ends, Reads, Writes, Deletes
  <2>5. app \in Nat /\ app' \in Nat
    BY TypeStep
  <2>6. CASE app' >= app
    BY <2>5, <2>6
  <2>7. CASE updater.pc = "recover" /\ app' \in {app, previous}
    BY <2>5, <2>7
  <2>8. app' >= app \/ (updater.pc = "recover" /\ app' \in {app, previous})
    <3>1. UNCHANGED app => app' >= app
      BY <2>5
    <3> QED
      BY <2>1, <2>2, <2>3, <2>4, <3>1
  <2> QED
    BY <2>6, <2>7, <2>8
<1> QED
  BY <1>1, Invariant, PTL DEF Spec, NoDowngrade

-----------------------------------------------------------------------------
(* What is shown is true.  The rows say so little of the installation that   *)
(* ShownIsTrue is far from inductive: what is known of the installation has  *)
(* to be followed from the marker over the updater's steps, the status file  *)
(* and the reconciler back into the row.                                     *)

\* Operations are created in the order of their numbers, a job that ends has
\* published its marker, and one that died before that has closed nothing.
Created ==
  \A o \in Ops :
    /\ \A p \in Ops : p < o /\ op[o].status # "none" => op[p].status # "none"
    /\ job[o] = "ending" => marker[o] # "none"
    /\ job[o] = "dead" /\ marker[o] = "none" => Active(o)
    /\ op[o].status = "recovery_required" => marker[o] # "none"

\* The active operation is the latest.
Last == \A o \in Ops : Active(o) => Latest(o)

\* The hypothesis of ShownIsTrue.
Clean == Without({"published", "unwritten"}) /\ ~Recovering

Before(o) == compose = op[o].from /\ app = op[o].from
After(o) == compose = op[o].to /\ app = op[o].to

\* What is known of the installation while an operation is active.  Nothing is
\* while the containers are being replaced, nor after the updater has died.
Known(o) ==
  /\ marker[o] \in {"none", "queued"} => Before(o)
  /\ updater.op = o =>
       /\ updater.pc \in {"check", "verify", "pull", "publish"} => Before(o)
       /\ updater.pc \in {"publish", "apply", "recover"} => previous = op[o].from
       /\ updater.pc = "apply" => app = op[o].from /\ compose = op[o].to
       /\ updater.pc \in {"report", "succeed"} => After(o)
       /\ updater.pc = "end" => updater.result # "succeeded" /\ (updater.result = "failed" => Before(o))
  /\ file[o] = "failed" \/ (rec.pc = "write" /\ rec.op = o /\ rec.read = "failed") => Before(o)
  /\ file[o] = "succeeded" \/ (rec.pc = "write" /\ rec.op = o /\ rec.read = "succeeded") => After(o)

\* Between operations the file and the containers agree, and with the last result.
Settled ==
  /\ (\A o \in Ops : ~Active(o)) => compose = app
  /\ \A o \in Ops : Latest(o) =>
       /\ op[o].status = "succeeded" => After(o)
       /\ op[o].status = "failed" => Before(o)

Truth == Settled /\ \A o \in Ops : Active(o) => Known(o)

LEMMA CreatedInit == Init => Created
<1> SUFFICES ASSUME Init PROVE Created
  OBVIOUS
<1>1. \A o \in Ops : op[o].status = "none" /\ job[o] = "none"
  BY DEF Init
<1> QED BY <1>1 DEF Created

LEMMA LastInit == Init => Last
<1> SUFFICES ASSUME Init PROVE Last
  OBVIOUS
<1>1. \A o \in Ops : op[o].status = "none"
  BY DEF Init
<1> QED BY <1>1 DEF Last, Active, Progress

LEMMA TruthInit == Init => Truth
<1> SUFFICES ASSUME Init PROVE Truth
  OBVIOUS
<1>1. \A o \in Ops : op[o].status = "none"
  BY DEF Init
<1>2. compose = app
  BY DEF Init
<1> QED BY <1>1, <1>2 DEF Truth, Settled, Active, Progress

LEMMA CreatedStep ==
  ASSUME TypeOK, TypeOK', Links, Created, [Next]_vars
  PROVE  Created'
<1> USE DEF TypeOK, Links, Created, Active, Progress, Results, Reports, Running
<1>0. CASE UNCHANGED vars
  BY <1>0 DEF vars
<1>1. CASE SchedulerDies
  BY <1>1 DEF SchedulerDies
<1>2. ASSUME NEW o \in Ops, Steps(o) PROVE Created'
  <2>0. ASSUME NEW to \in Versions, Create(o, to) PROVE Created'
    <3>1. op'[o].status = "queued" /\ \A p \in Ops \ {o} : op'[p] = op[p]
      BY <2>0 DEF Create
    <3>2. \A p \in Ops : p < o => op[p].status # "none"
      BY <2>0 DEF Create, Ops
    <3>3. UNCHANGED <<job, marker>>
      BY <2>0 DEF Create
    <3>4. \A p, q \in Ops : q < p /\ op'[p].status # "none" => op'[q].status # "none"
      BY <3>1, <3>2 DEF Ops
    <3> QED BY <3>1, <3>3, <3>4
  <2>1. CASE Dispatch(o)
    BY <2>1 DEF Dispatch
  <2>2. CASE WebDies(o)
    BY <2>2 DEF WebDies
  <2>3. CASE JobStarts(o)
    BY <2>3 DEF JobStarts
  <2>4. CASE JobBacksUp(o)
    BY <2>4 DEF JobBacksUp
  <2>5. CASE JobFetches(o)
    BY <2>5 DEF JobFetches
  <2>6. CASE JobPublishes(o)
    BY <2>6 DEF JobPublishes
  <2>7. CASE JobEnds(o)
    BY <2>7 DEF JobEnds
  <2>8. CASE JobErrors(o)
    BY <2>8 DEF JobErrors
  <2>9. CASE WorkerDies(o)
    BY <2>9 DEF WorkerDies
  <2>10. CASE JobComesBack(o)
    BY <2>10 DEF JobComesBack
  <2>11. CASE Takes(o)
    BY <2>11 DEF Takes
  <2>12. CASE Checks(o)
    BY <2>12 DEF Checks, SourceMatches
  <2>13. CASE Verifies(o)
    BY <2>13 DEF Verifies
  <2>14. CASE Pulls(o)
    BY <2>14 DEF Pulls
  <2>15. CASE Publishes(o)
    BY <2>15 DEF Publishes
  <2>16. CASE Applies(o)
    BY <2>16 DEF Applies
  <2>17. CASE ApplyFails(o)
    BY <2>17, ApplyFailsGoes DEF ApplyFails
  <2>18. CASE Recovers(o)
    BY <2>18 DEF Recovers
  <2>19. CASE RecoverFails(o)
    BY <2>19 DEF RecoverFails
  <2>20. CASE Restarts(o)
    BY <2>20 DEF Restarts
  <2>21. CASE Succeeds(o)
    BY <2>21 DEF Succeeds
  <2>22. CASE Leaves(o)
    BY <2>22 DEF Leaves
  <2>23. CASE Fails(o)
    BY <2>23 DEF Fails
  <2>24. CASE FailsToReport(o)
    BY <2>24 DEF FailsToReport
  <2>25. CASE Ends(o)
    BY <2>25 DEF Ends
  <2>26. CASE UpdaterDies(o)
    BY <2>26 DEF UpdaterDies
  <2>27. CASE Reads(o)
    BY <2>27 DEF Reads
  <2>28. CASE Writes(o)
    BY <2>28 DEF Writes
  <2>29. CASE Deletes(o)
    BY <2>29 DEF Deletes
  <2> QED BY <1>2, <2>0, <2>1, <2>2, <2>3, <2>4, <2>5, <2>6, <2>7, <2>8, <2>9, <2>10, <2>11, <2>12,
         <2>13, <2>14, <2>15, <2>16, <2>17, <2>18, <2>19, <2>20, <2>21, <2>22, <2>23, <2>24, <2>25,
         <2>26, <2>27, <2>28, <2>29 DEF Steps
<1> QED BY <1>0, <1>1, <1>2, NextIsStep

LEMMA LastStep ==
  ASSUME TypeOK, TypeOK', Links, Created, Unpublished', Exclusive, Last, [Next]_vars
  PROVE  Last'
<1> USE DEF TypeOK, Links, Created, Unpublished, Exclusive, Last, Latest, Active, Progress, Results, Reports,
            Running, Working
<1>0. CASE UNCHANGED vars
  BY <1>0 DEF vars
<1>1. CASE SchedulerDies
  BY <1>1 DEF SchedulerDies
<1>2. ASSUME NEW o \in Ops, Steps(o) PROVE Last'
  <2>0. ASSUME NEW to \in Versions, Create(o, to) PROVE Last'
    <3>1. op'[o].status = "queued" /\ \A p \in Ops \ {o} : op'[p] = op[p]
      BY <2>0 DEF Create
    <3>2. op[o].status = "none" /\ \A p \in Ops : ~Active(p)
      BY <2>0 DEF Create
    <3>3. \A p \in Ops : p > o => op[p].status = "none" /\ p # o
      BY <3>2 DEF Ops
    <3>4. Latest(o)'
      BY <3>1, <3>3
    <3>5. \A p \in Ops : Active(p)' => p = o
      BY <3>1, <3>2
    <3> QED BY <3>4, <3>5
  <2>1. CASE Dispatch(o)
    BY <2>1 DEF Dispatch
  <2>2. CASE WebDies(o)
    BY <2>2 DEF WebDies
  <2>3. CASE JobStarts(o)
    BY <2>3 DEF JobStarts
  <2>4. CASE JobBacksUp(o)
    BY <2>4 DEF JobBacksUp
  <2>5. CASE JobFetches(o)
    BY <2>5 DEF JobFetches
  <2>6. CASE JobPublishes(o)
    BY <2>6 DEF JobPublishes
  <2>7. CASE JobEnds(o)
    BY <2>7 DEF JobEnds
  <2>8. CASE JobErrors(o)
    BY <2>8 DEF JobErrors
  <2>9. CASE WorkerDies(o)
    BY <2>9 DEF WorkerDies
  <2>10. CASE JobComesBack(o)
    BY <2>10 DEF JobComesBack
  <2>11. CASE Takes(o)
    BY <2>11 DEF Takes
  <2>12. CASE Checks(o)
    BY <2>12 DEF Checks, SourceMatches
  <2>13. CASE Verifies(o)
    BY <2>13 DEF Verifies
  <2>14. CASE Pulls(o)
    BY <2>14 DEF Pulls
  <2>15. CASE Publishes(o)
    BY <2>15 DEF Publishes
  <2>16. CASE Applies(o)
    BY <2>16 DEF Applies
  <2>17. CASE ApplyFails(o)
    BY <2>17, ApplyFailsGoes DEF ApplyFails
  <2>18. CASE Recovers(o)
    BY <2>18 DEF Recovers
  <2>19. CASE RecoverFails(o)
    BY <2>19 DEF RecoverFails
  <2>20. CASE Restarts(o)
    BY <2>20 DEF Restarts
  <2>21. CASE Succeeds(o)
    BY <2>21 DEF Succeeds
  <2>22. CASE Leaves(o)
    BY <2>22 DEF Leaves
  <2>23. CASE Fails(o)
    BY <2>23 DEF Fails
  <2>24. CASE FailsToReport(o)
    BY <2>24 DEF FailsToReport
  <2>25. CASE Ends(o)
    BY <2>25 DEF Ends
  <2>26. CASE UpdaterDies(o)
    BY <2>26 DEF UpdaterDies
  <2>27. CASE Reads(o)
    BY <2>27 DEF Reads
  <2>28. CASE Writes(o)
    BY <2>28 DEF Writes
  <2>29. CASE Deletes(o)
    BY <2>29 DEF Deletes
  <2> QED BY <1>2, <2>0, <2>1, <2>2, <2>3, <2>4, <2>5, <2>6, <2>7, <2>8, <2>9, <2>10, <2>11, <2>12,
         <2>13, <2>14, <2>15, <2>16, <2>17, <2>18, <2>19, <2>20, <2>21, <2>22, <2>23, <2>24, <2>25,
         <2>26, <2>27, <2>28, <2>29 DEF Steps
<1> QED BY <1>0, <1>1, <1>2, NextIsStep

\* The updater reports on an operation that is not over: where its report leaves
\* nothing to recover, nothing was to be recovered before it.
LEMMA NothingToRecover ==
  ASSUME NEW o \in Ops, op[o].status \in Progress, \A p \in Ops : p # o => op'[p] = op[p],
         \A p \in Ops : op'[p].status # "recovery_required"
  PROVE  \A p \in Ops : op[p].status # "recovery_required"
<1> SUFFICES ASSUME NEW p \in Ops PROVE op[p].status # "recovery_required"
  OBVIOUS
<1>1. CASE p = o
  BY <1>1 DEF Progress
<1>2. CASE p # o
  BY <1>2
<1> QED BY <1>1, <1>2

LEMMA CleanBefore ==
  ASSUME TypeOK, TypeOK', Links, Created, Clean', Exclusive, [Next]_vars
  PROVE  Clean
<1> USE DEF TypeOK, Links, Created, Exclusive, Clean, Without, Recovering, Active, Progress, Results, Reports,
            Running, Working
<1>0. CASE UNCHANGED vars
  BY <1>0 DEF vars
<1>1. CASE SchedulerDies
  BY <1>1 DEF SchedulerDies
<1>2. ASSUME NEW o \in Ops, Steps(o) PROVE Clean
  <2>0. ASSUME NEW to \in Versions, Create(o, to) PROVE Clean
    BY <2>0 DEF Create
  <2>1. CASE Dispatch(o)
    BY <2>1 DEF Dispatch
  <2>2. CASE WebDies(o)
    BY <2>2 DEF WebDies
  <2>3. CASE JobStarts(o)
    BY <2>3 DEF JobStarts
  <2>4. CASE JobBacksUp(o)
    BY <2>4 DEF JobBacksUp
  <2>5. CASE JobFetches(o)
    BY <2>5 DEF JobFetches
  <2>6. CASE JobPublishes(o)
    BY <2>6 DEF JobPublishes
  <2>7. CASE JobEnds(o)
    BY <2>7 DEF JobEnds
  <2>8. CASE JobErrors(o)
    <3>1. Active(o) /\ op' = [op EXCEPT ![o].status = "failed"]
      BY <2>8 DEF JobErrors
    <3>2. ~Recovering
      BY <3>1
    <3>3. \A p \in Ops : mishaps[p] \subseteq mishaps'[p]
      BY <2>8 DEF JobErrors
    <3> QED BY <3>2, <3>3
  <2>9. CASE WorkerDies(o)
    BY <2>9 DEF WorkerDies
  <2>10. CASE JobComesBack(o)
    BY <2>10 DEF JobComesBack
  <2>11. CASE Takes(o)
    BY <2>11 DEF Takes
  <2>12. CASE Checks(o)
    BY <2>12 DEF Checks, SourceMatches
  <2>13. CASE Verifies(o)
    BY <2>13 DEF Verifies
  <2>14. CASE Pulls(o)
    BY <2>14 DEF Pulls
  <2>15. CASE Publishes(o)
    BY <2>15 DEF Publishes
  <2>16. CASE Applies(o)
    BY <2>16 DEF Applies
  <2>17. CASE ApplyFails(o)
    BY <2>17, ApplyFailsGoes DEF ApplyFails
  <2>18. CASE Recovers(o)
    BY <2>18 DEF Recovers
  <2>19. CASE RecoverFails(o)
    BY <2>19 DEF RecoverFails
  <2>20. CASE Restarts(o)
    BY <2>20 DEF Restarts
  <2>21. CASE Succeeds(o)
    BY <2>21 DEF Succeeds
  <2>22. CASE Leaves(o)
    BY <2>22 DEF Leaves
  <2>23. CASE Fails(o)
    BY <2>23 DEF Fails
  <2>24. CASE FailsToReport(o)
    BY <2>24 DEF FailsToReport
  <2>25. CASE Ends(o)
    BY <2>25 DEF Ends
  <2>26. CASE UpdaterDies(o)
    BY <2>26 DEF UpdaterDies
  <2>27. CASE Reads(o)
    BY <2>27 DEF Reads
  <2>28. CASE Writes(o)
    <3>1. Active(o)
      BY <2>28 DEF Writes
    <3>2. op' = op \/ op' = [op EXCEPT ![o].status = rec.read]
      BY <2>28 DEF Writes
    <3>3. \A p \in Ops : p # o => op'[p] = op[p]
      BY <3>2
    <3>4. \A p \in Ops : op[p].status # "recovery_required"
      <4>1. \A p \in Ops : op'[p].status # "recovery_required"
        OBVIOUS
      <4> HIDE DEF TypeOK, Links, Created, Exclusive, Clean, Without, Recovering
      <4> QED BY <3>1, <3>3, <4>1, NothingToRecover
    <3> QED BY <2>28, <3>4 DEF Writes
  <2>29. CASE Deletes(o)
    BY <2>29 DEF Deletes
  <2> QED BY <1>2, <2>0, <2>1, <2>2, <2>3, <2>4, <2>5, <2>6, <2>7, <2>8, <2>9, <2>10, <2>11, <2>12,
         <2>13, <2>14, <2>15, <2>16, <2>17, <2>18, <2>19, <2>20, <2>21, <2>22, <2>23, <2>24, <2>25,
         <2>26, <2>27, <2>28, <2>29 DEF Steps
<1> QED BY <1>0, <1>1, <1>2, NextIsStep

\* While the updater works on an operation it is the only active one, and no
\* result of an earlier one is shown: Truth is what is known of that operation.
LEMMA AtWork ==
  ASSUME TypeOK, Links, Words, Created, Exclusive, Last, Truth, NEW o \in Ops, updater.op = o,
         updater.pc \in Working
  PROVE  /\ Active(o) /\ Known(o) /\ marker[o] = "processing"
         /\ file[o] \notin {"failed", "succeeded"}
         /\ ~(rec.pc = "write" /\ rec.op = o /\ rec.read \in {"failed", "succeeded"})
         /\ UNCHANGED op /\ Known(o)' => Truth'
<1>1. Active(o)
  BY DEF Exclusive
<1>2. marker[o] = "processing" /\ file[o] \notin {"failed", "succeeded"}
      /\ ~(rec.pc = "write" /\ rec.op = o /\ rec.read \in {"failed", "succeeded"})
  BY DEF Links, Words, Over, Working, Results, TypeOK
<1>3. \A p \in Ops : Active(p) => p = o
  BY <1>1 DEF Exclusive
<1>4. \A p \in Ops : Latest(p) => op[p].status \notin {"failed", "succeeded"}
  <2> SUFFICES ASSUME NEW p \in Ops, Latest(p), op[p].status \in {"failed", "succeeded"} PROVE FALSE
    OBVIOUS
  <2>1. ~(o > p)
    BY <1>1 DEF Latest, Active, Progress
  <2>2. ~(p > o)
    BY <1>1 DEF Last, Latest
  <2> QED BY <1>1, <2>1, <2>2 DEF Ops, Active, Progress
<1>5. ASSUME UNCHANGED op, Known(o)' PROVE Truth'
  BY <1>1, <1>3, <1>4, <1>5 DEF Truth, Settled, Latest, Active
<1> QED BY <1>1, <1>2, <1>3, <1>5 DEF Truth

LEMMA TruthStep ==
  ASSUME TypeOK, TypeOK', Links, Words, Created, Clean, Clean', Exclusive, Last, Truth, [Next]_vars
  PROVE  Truth'
<1> USE DEF TypeOK, Links, Words, Over, Created, Clean, Without, Recovering, Exclusive, Last, Latest, Truth,
            Known, Settled, Before, After, Active, Progress, Results, Reports, Running, Working
<1>0. CASE UNCHANGED vars
  BY <1>0 DEF vars
<1>1. CASE SchedulerDies
  BY <1>1 DEF SchedulerDies
<1>2. ASSUME NEW o \in Ops, Steps(o) PROVE Truth'
  <2>0. ASSUME NEW to \in Versions, Create(o, to) PROVE Truth'
    BY <2>0 DEF Create
  <2>1. CASE Dispatch(o)
    BY <2>1 DEF Dispatch
  <2>2. CASE WebDies(o)
    BY <2>2 DEF WebDies
  <2>3. CASE JobStarts(o)
    BY <2>3 DEF JobStarts
  <2>4. CASE JobBacksUp(o)
    BY <2>4 DEF JobBacksUp
  <2>5. CASE JobFetches(o)
    BY <2>5 DEF JobFetches
  <2>6. CASE JobPublishes(o)
    BY <2>6 DEF JobPublishes
  <2>7. CASE JobEnds(o)
    BY <2>7 DEF JobEnds
  <2>8. CASE JobErrors(o)
    BY <2>8 DEF JobErrors
  <2>9. CASE WorkerDies(o)
    BY <2>9 DEF WorkerDies
  <2>10. CASE JobComesBack(o)
    <3>1. marker[o] = "none" /\ Active(o)
      <4>1. "published" \in mishaps'[o] \/ marker[o] = "none"
        BY <2>10 DEF JobComesBack, Mishaps
      <4> QED BY <2>10, <4>1 DEF JobComesBack
    <3>2. Before(o)
      BY <3>1
    <3>3. op' = [op EXCEPT ![o].status = "failed"] /\ UNCHANGED <<compose, app>>
      BY <2>10 DEF JobComesBack
    <3>4. \A p \in Ops : ~Active(p)'
      BY <3>1, <3>3
    <3>5. \A p \in Ops : Latest(p)' /\ p # o => op[p].status \notin {"failed", "succeeded"}
      <4> SUFFICES ASSUME NEW p \in Ops, Latest(p)', p # o, op[p].status # "none" PROVE FALSE
        OBVIOUS
      <4>1. ~(o > p)
        BY <3>3
      <4>2. ~(p > o)
        BY <3>1
      <4> QED BY <4>1, <4>2 DEF Ops
    <3> QED BY <3>2, <3>3, <3>4, <3>5
  <2>11. CASE Takes(o)
    BY <2>11 DEF Takes
  <2>12. CASE Checks(o)
    BY <2>12 DEF Checks, SourceMatches
  <2>13. CASE Verifies(o)
    BY <2>13 DEF Verifies
  <2>14. CASE Pulls(o)
    BY <2>14 DEF Pulls
  <2>15. CASE Publishes(o)
    <3>1. updater.op = o /\ updater.pc \in Working
      BY <2>15 DEF Publishes
    <3> HIDE DEF Truth, Known
    <3>2. Known(o) /\ marker[o] = "processing" /\ file[o] \notin {"failed", "succeeded"}
          /\ ~(rec.pc = "write" /\ rec.op = o /\ rec.read \in {"failed", "succeeded"})
      BY <3>1, AtWork
    <3>3. Known(o)'
      BY <2>15, <3>1, <3>2 DEF Publishes, Known
    <3> QED BY <2>15, <3>1, <3>3, AtWork DEF Publishes
  <2>16. CASE Applies(o)
    BY <2>16 DEF Applies
  <2>17. CASE ApplyFails(o)
    <3>1. updater.op = o /\ updater.pc \in Working /\ updater.pc = "apply"
      BY <2>17 DEF ApplyFails
    <3> HIDE DEF Truth, Known
    <3>2. Known(o) /\ marker[o] = "processing" /\ file[o] \notin {"failed", "succeeded"}
          /\ ~(rec.pc = "write" /\ rec.op = o /\ rec.read \in {"failed", "succeeded"})
      BY <3>1, AtWork
    <3>3. CASE updater' = [updater EXCEPT !.pc = "recover"]
      <4>1. Known(o)'
        BY <2>17, <3>1, <3>2, <3>3 DEF ApplyFails, Known
      <4> QED BY <2>17, <3>1, <4>1, AtWork DEF ApplyFails
    <3>4. CASE updater' = [updater EXCEPT !.pc = "end", !.result = "recovery_required"]
      <4>1. Known(o)'
        BY <2>17, <3>1, <3>2, <3>4 DEF ApplyFails, Known
      <4> QED BY <2>17, <3>1, <4>1, AtWork DEF ApplyFails
    <3> QED BY <2>17, <3>3, <3>4 DEF ApplyFails
  <2>18. CASE Recovers(o)
    <3>1. updater.op = o /\ updater.pc \in Working
      BY <2>18 DEF Recovers
    <3> HIDE DEF Truth, Known
    <3>2. Known(o) /\ marker[o] = "processing" /\ file[o] \notin {"failed", "succeeded"}
          /\ ~(rec.pc = "write" /\ rec.op = o /\ rec.read \in {"failed", "succeeded"})
      BY <3>1, AtWork
    <3>3. Known(o)'
      BY <2>18, <3>1, <3>2 DEF Recovers, Known
    <3> QED BY <2>18, <3>1, <3>3, AtWork DEF Recovers
  <2>19. CASE RecoverFails(o)
    <3>1. updater.op = o /\ updater.pc \in Working
      BY <2>19 DEF RecoverFails
    <3> HIDE DEF Truth, Known
    <3>2. Known(o) /\ marker[o] = "processing" /\ file[o] \notin {"failed", "succeeded"}
          /\ ~(rec.pc = "write" /\ rec.op = o /\ rec.read \in {"failed", "succeeded"})
      BY <3>1, AtWork
    <3>3. Known(o)'
      BY <2>19, <3>1, <3>2 DEF RecoverFails, Known
    <3> QED BY <2>19, <3>1, <3>3, AtWork DEF RecoverFails
  <2>20. CASE Restarts(o)
    BY <2>20 DEF Restarts
  <2>21. CASE Succeeds(o)
    BY <2>21 DEF Succeeds
  <2>22. CASE Leaves(o)
    BY <2>22 DEF Leaves
  <2>23. CASE Fails(o)
    BY <2>23 DEF Fails
  <2>24. CASE FailsToReport(o)
    <3>1. "unwritten" \in mishaps'[o]
      BY <2>24 DEF FailsToReport, Mishaps
    <3> QED BY <3>1
  <2>25. CASE Ends(o)
    BY <2>25 DEF Ends
  <2>26. CASE UpdaterDies(o)
    <3>1. CASE updater.pc = "leave"
      BY <2>26, <3>1 DEF UpdaterDies
    <3>2. CASE updater.pc # "leave"
      <4>1. updater.op = o /\ updater.pc \in Working
        BY <2>26, <3>2 DEF UpdaterDies
      <4> HIDE DEF Truth, Known
      <4>2. Known(o) /\ marker[o] = "processing" /\ file[o] \notin {"failed", "succeeded"}
            /\ ~(rec.pc = "write" /\ rec.op = o /\ rec.read \in {"failed", "succeeded"})
        BY <4>1, AtWork
      <4>3. updater' = NoRequest /\ UNCHANGED <<op, marker, file, rec>>
        BY <2>26 DEF UpdaterDies
      <4>4. Known(o)'
        BY <4>2, <4>3 DEF Known
      <4> QED BY <4>1, <4>3, <4>4, AtWork
    <3> QED BY <3>1, <3>2
  <2>27. CASE Reads(o)
    BY <2>27 DEF Reads
  <2>28. CASE Writes(o)
    <3>1. Active(o) /\ Known(o) /\ rec.pc = "write" /\ rec.op = o /\ rec.read \in Reports
      BY <2>28 DEF Writes
    <3>2. op' = op \/ op' = [op EXCEPT ![o].status = rec.read]
      BY <2>28 DEF Writes
    <3>3. UNCHANGED <<marker, file, updater, compose, previous, app>> /\ rec' = [rec EXCEPT !.pc = "delete"]
      BY <2>28 DEF Writes
    <3>4. CASE op' = op
      BY <3>3, <3>4
    <3>5. CASE op' = [op EXCEPT ![o].status = rec.read]
      <4>1. rec.read # "recovery_required"
        BY <3>5
      <4>2. CASE rec.read \in Results
        <5>1. \A p \in Ops : ~Active(p)'
          BY <3>1, <3>5, <4>2
        <5>2. \A p \in Ops : Latest(p)' /\ p # o => op[p].status = "none"
          <6> SUFFICES ASSUME NEW p \in Ops, Latest(p)', p # o, op[p].status # "none" PROVE FALSE
            OBVIOUS
          <6>1. ~(o > p)
            BY <3>5, <4>2
          <6>2. ~(p > o)
            BY <3>1
          <6> QED BY <6>1, <6>2 DEF Ops
        <5>3. (rec.read = "failed" => Before(o)) /\ (rec.read = "succeeded" => After(o))
          BY <3>1
        <5> QED BY <3>3, <3>5, <4>1, <4>2, <5>1, <5>2, <5>3
      <4>3. CASE rec.read \notin Results
        BY <3>1, <3>3, <3>5, <4>3
      <4> QED BY <4>2, <4>3
    <3> QED BY <3>2, <3>4, <3>5
  <2>29. CASE Deletes(o)
    BY <2>29 DEF Deletes
  <2> QED BY <1>2, <2>0, <2>1, <2>2, <2>3, <2>4, <2>5, <2>6, <2>7, <2>8, <2>9, <2>10, <2>11, <2>12,
         <2>13, <2>14, <2>15, <2>16, <2>17, <2>18, <2>19, <2>20, <2>21, <2>22, <2>23, <2>24, <2>25,
         <2>26, <2>27, <2>28, <2>29 DEF Steps
<1> QED BY <1>0, <1>1, <1>2, NextIsStep

TruthInv == UpdateInv /\ Created /\ (Unpublished => Last) /\ (Clean => Truth)

\* What is shown of the latest operation is true of the installation: it has
\* succeeded only if its version runs, and has failed only if the one before does.
THEOREM ShownStaysTrue == Spec => []ShownIsTrue
<1>1. Init => Created /\ (Unpublished => Last) /\ (Clean => Truth)
  BY CreatedInit, LastInit, TruthInit
<1>2. ASSUME TruthInv, UpdateInv', [Next]_vars
      PROVE  Created' /\ (Unpublished => Last)' /\ (Clean => Truth)'
  <2> USE <1>2 DEF UpdateInv, TruthInv
  <2>1. Created'
    BY CreatedStep
  <2>2. ASSUME Unpublished' PROVE Last'
    BY <2>2, UnpublishedBefore, LastStep
  <2>3. ASSUME Clean' PROVE Truth'
    <3>1. Unpublished'
      BY <2>3 DEF Clean, Without, Unpublished
    <3>2. Exclusive /\ Last
      BY <3>1, UnpublishedBefore
    <3> QED BY <2>3, <3>2, CleanBefore, TruthStep
  <2> QED BY <2>1, <2>2, <2>3
<1>3. TruthInv => ShownIsTrue
  BY DEF TruthInv, Truth, Settled, Clean, ShownIsTrue, Before, After
<1>4. Spec => []TruthInv
  BY <1>1, <1>2, Invariant, PTL DEF Spec, TruthInv
<1> QED BY <1>3, <1>4, PTL
==============================================================================
