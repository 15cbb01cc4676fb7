------------------------------ MODULE RunLedger ------------------------------
(***************************************************************************)
(* What the collection runs promise, whoever asks for them, dispatches     *)
(* them or reports on them: a device has one pending collection at most,   *)
(* production collections stay within the global and the site limit, a run *)
(* is started at most once, and a failure is continued by at most one      *)
(* retry, at most Retries times.  CollectionControl implements it.         *)
(***************************************************************************)
EXTENDS Integers, Sequences, FiniteSets, CollectionLimits

VARIABLE ledger   \* the entries of the runs, in the order they were created

Started == {"dispatched", "running"}
Open    == Started \cup {"waiting"}
Closed  == {"succeeded", "failed", "cancelled"}

Entries == [status : Open \cup Closed, device : Devices,
            trigger : {"manual", "scheduled", "retry", "diagnostic"},
            attempt : Nat, parent : Nat]

Rows == 1..Len(ledger)
OpenOf(d) == {r \in Rows : ledger[r].device = d /\ ledger[r].status \in Open}
Production == {r \in Rows : /\ ledger[r].status \in Started
                            /\ ledger[r].trigger # "diagnostic"}
Beside(r) == {q \in Production : Site[ledger[q].device] = Site[ledger[r].device]}

WithinLimits ==
  /\ Cardinality(Production) <= Limit
  /\ \A r \in Production : Cardinality(Beside(r)) <= SiteLimit

Entry(d, trigger, attempt, parent) ==
  [status |-> "waiting", device |-> d, trigger |-> trigger,
   attempt |-> attempt, parent |-> parent]

\* The ledger with the entries of S moved to a status.
Moved(S, status) ==
  [r \in Rows |-> IF r \in S THEN [ledger[r] EXCEPT !.status = status] ELSE ledger[r]]

-----------------------------------------------------------------------------
LedgerInit == ledger = <<>>

\* A request for a device without a pending run.
Request(d, trigger) ==
  /\ OpenOf(d) = {}
  /\ ledger' = Append(ledger, Entry(d, trigger, 1, 0))

\* Several runs are dispatched at once; afterwards the limits hold.
Dispatch(S) ==
  /\ \A r \in S : ledger[r].status = "waiting"
  /\ ledger' = Moved(S, "dispatched")
  /\ WithinLimits'

\* A diagnostic may be dispatched whatever the limits.
DispatchDiagnostic(r) ==
  /\ ledger[r].status = "waiting" /\ ledger[r].trigger = "diagnostic"
  /\ ledger' = Moved({r}, "dispatched")

\* Runs that were dispatched and never started wait again.
Requeue(S) ==
  /\ \A r \in S : ledger[r].status = "dispatched"
  /\ ledger' = Moved(S, "waiting")

Start(r) ==
  /\ ledger[r].status = "dispatched"
  /\ ledger' = Moved({r}, "running")

\* Only a running run succeeds and only a started one fails, but any run may be
\* cancelled.
Close(r, outcome) ==
  /\ outcome = "succeeded" => ledger[r].status = "running"
  /\ outcome = "failed" => ledger[r].status \in Started
  /\ ledger' = Moved({r}, outcome)

\* A failure and the retry that continues it are one step.
FailAndRetry(r) ==
  /\ ledger[r].status \in Started /\ ledger[r].attempt <= Retries
  /\ OpenOf(ledger[r].device) = {r}
  /\ ledger' = Append(Moved({r}, "failed"),
                      Entry(ledger[r].device, "retry", ledger[r].attempt + 1, r))

LedgerNext ==
  \/ \E d \in Devices, trigger \in {"manual", "scheduled", "diagnostic"} : Request(d, trigger)
  \/ \E S \in SUBSET Rows : Dispatch(S) \/ Requeue(S)
  \/ \E r \in Rows : \/ DispatchDiagnostic(r) \/ Start(r) \/ FailAndRetry(r)
                     \/ \E outcome \in Closed : Close(r, outcome)

LedgerSpec == LedgerInit /\ [][LedgerNext]_ledger

-----------------------------------------------------------------------------
LedgerTypeOK == ledger \in Seq(Entries)

\* A device has at most one collection pending or active, whoever asks and
\* however a retry, a requeue and a request interleave
\* (docs/ARCHITECTURE.md:85).
AtMostOnePending ==
  \A p, q \in Rows :
    /\ ledger[p].status \in Open /\ ledger[q].status \in Open
    /\ ledger[p].device = ledger[q].device
    => p = q

\* A retry continues one run of its device that has ended without success, one
\* attempt further; no run is continued twice, and the attempts are bounded
\* (docs/ARCHITECTURE.md:89).
RetryChain ==
  \A r \in Rows : ledger[r].trigger = "retry" =>
    LET p == ledger[r].parent
    IN  /\ p \in 1..(r - 1)
        /\ ledger[p].status \in {"failed", "cancelled"}
        /\ ledger[p].device = ledger[r].device
        /\ ledger[r].attempt = ledger[p].attempt + 1
        /\ ledger[r].attempt <= Retries + 1
        /\ \A q \in Rows : ledger[q].trigger = "retry" /\ ledger[q].parent = p => q = r

\* A run is started at most once and, once settled, is never pending again,
\* even when late jobs, duplicated jobs and late events meet it.
NeverRestarted ==
  [][\A r \in Rows :
       /\ ledger[r].status = "running" => ledger'[r].status \in {"running"} \cup Closed
       /\ ledger[r].status \in Closed => ledger'[r].status \in Closed]_ledger
=============================================================================
