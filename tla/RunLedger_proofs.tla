--------------------------- MODULE RunLedger_proofs ---------------------------
(***************************************************************************)
(* The ledger keeps its promises, for every set of devices, every number   *)
(* of retries and all limits.                                              *)
(***************************************************************************)
EXTENDS RunLedger, FiniteSetTheorems, SequenceTheorems, TLAPS

\* What moving entries to a status does: nothing but their status changes.
LEMMA MovedEntries ==
  ASSUME LedgerTypeOK, NEW S \in SUBSET Rows, NEW status \in Open \cup Closed,
         ledger' = Moved(S, status)
  PROVE  /\ LedgerTypeOK'
         /\ Rows' = Rows
         /\ \A r \in Rows :
              /\ ledger'[r].device = ledger[r].device
              /\ ledger'[r].trigger = ledger[r].trigger
              /\ ledger'[r].attempt = ledger[r].attempt
              /\ ledger'[r].parent = ledger[r].parent
              /\ ledger'[r].status = IF r \in S THEN status ELSE ledger[r].status
<1>1. ledger \in Seq(Entries) /\ Rows = 1..Len(ledger)
  BY DEF LedgerTypeOK, Rows
<1>2. \A r \in Rows : ledger[r] \in Entries
  BY <1>1
<1>3. ledger' \in [Rows -> Entries]
  BY <1>2 DEF Moved, Entries
<1>4. Len(ledger) \in Nat /\ Len(ledger') = Len(ledger) /\ ledger' \in Seq(Entries)
  BY <1>1, <1>3
<1>5. Rows' = Rows
  BY <1>4 DEF Rows
<1>6. \A r \in Rows : ledger'[r] = IF r \in S THEN [ledger[r] EXCEPT !.status = status]
                                   ELSE ledger[r]
  BY DEF Moved
<1> QED
  BY <1>2, <1>4, <1>5, <1>6 DEF LedgerTypeOK, Entries

LEMMA EntryFields ==
  ASSUME NEW d \in Devices, NEW trigger \in {"manual", "scheduled", "retry", "diagnostic"},
         NEW attempt \in Nat, NEW parent \in Nat
  PROVE  LET e == Entry(d, trigger, attempt, parent)
         IN  /\ e \in Entries
             /\ e.status = "waiting" /\ e.device = d /\ e.trigger = trigger
             /\ e.attempt = attempt /\ e.parent = parent
BY DEF Entry, Entries, Open

\* What appending an entry does: the ones before it stay as they are.
LEMMA AppendedEntry ==
  ASSUME LedgerTypeOK, NEW before \in Seq(Entries), Len(before) = Len(ledger),
         NEW e \in Entries, ledger' = Append(before, e)
  PROVE  /\ LedgerTypeOK'
         /\ Rows' = Rows \cup {Len(ledger) + 1}
         /\ ledger'[Len(ledger) + 1] = e
         /\ \A r \in Rows : ledger'[r] = before[r]
         /\ Len(ledger) \in Nat
BY DEF LedgerTypeOK, Rows
\* A request appends one waiting entry.
LEMMA RequestedEntry ==
  ASSUME LedgerTypeOK, NEW d \in Devices,
         NEW trigger \in {"manual", "scheduled", "diagnostic"}, Request(d, trigger)
  PROVE  /\ LedgerTypeOK'
         /\ Rows' = Rows \cup {Len(ledger) + 1}
         /\ Len(ledger) \in Nat /\ Len(ledger) + 1 \notin Rows
         /\ ledger'[Len(ledger) + 1].status = "waiting"
         /\ ledger'[Len(ledger) + 1].device = d
         /\ ledger'[Len(ledger) + 1].trigger = trigger
         /\ \A r \in Rows : ledger'[r] = ledger[r]
<1> DEFINE e == Entry(d, trigger, 1, 0)
<1>1. e \in Entries /\ e.status = "waiting" /\ e.device = d /\ e.trigger = trigger
  BY EntryFields
<1>2. ledger' = Append(ledger, e) /\ ledger \in Seq(Entries)
  BY DEF Request, LedgerTypeOK
<1>3. /\ LedgerTypeOK'
      /\ Rows' = Rows \cup {Len(ledger) + 1}
      /\ ledger'[Len(ledger) + 1] = e
      /\ \A r \in Rows : ledger'[r] = ledger[r]
      /\ Len(ledger) \in Nat
  <2> HIDE DEF e
  <2> QED
    BY <1>1, <1>2, AppendedEntry
<1> QED
  BY <1>1, <1>3 DEF Rows

\* What a failure with its retry does to the entries before it.
LEMMA RetriedEntries ==
  ASSUME LedgerTypeOK, NEW r \in Rows, FailAndRetry(r)
  PROVE  /\ LedgerTypeOK'
         /\ Rows' = Rows \cup {Len(ledger) + 1}
         /\ Len(ledger) \in Nat /\ Len(ledger) + 1 \notin Rows
         /\ ledger'[Len(ledger) + 1].status = "waiting"
         /\ ledger'[Len(ledger) + 1].device = ledger[r].device
         /\ ledger'[Len(ledger) + 1].trigger = "retry"
         /\ ledger'[Len(ledger) + 1].attempt = ledger[r].attempt + 1
         /\ ledger'[Len(ledger) + 1].parent = r
         /\ \A q \in Rows :
              /\ ledger'[q].device = ledger[q].device
              /\ ledger'[q].trigger = ledger[q].trigger
              /\ ledger'[q].attempt = ledger[q].attempt
              /\ ledger'[q].parent = ledger[q].parent
              /\ ledger'[q].status = IF q = r THEN "failed" ELSE ledger[q].status
<1> DEFINE before == Moved({r}, "failed")
           e == Entry(ledger[r].device, "retry", ledger[r].attempt + 1, r)
<1>1. ledger \in Seq(Entries) /\ Rows = 1..Len(ledger) /\ Len(ledger) \in Nat
  BY DEF LedgerTypeOK, Rows
<1>2. \A q \in Rows : ledger[q] \in Entries
  BY <1>1
<1>3. before \in [Rows -> Entries]
  BY <1>2 DEF Moved, Entries, Closed
<1>4. before \in Seq(Entries) /\ Len(before) = Len(ledger)
  <2> HIDE DEF before
  <2> QED
    BY <1>1, <1>3
<1>5. /\ e \in Entries
      /\ e.status = "waiting" /\ e.device = ledger[r].device /\ e.trigger = "retry"
      /\ e.attempt = ledger[r].attempt + 1 /\ e.parent = r
  <2>1. /\ ledger[r].device \in Devices /\ ledger[r].attempt + 1 \in Nat /\ r \in Nat
    BY <1>1, <1>2 DEF Entries
  <2> QED
    BY <2>1, EntryFields
<1>6. ledger' = Append(before, e)
  BY DEF FailAndRetry
<1>7. \A q \in Rows : before[q] = IF q \in {r} THEN [ledger[q] EXCEPT !.status = "failed"]
                                  ELSE ledger[q]
  BY DEF Moved
<1>8. /\ LedgerTypeOK'
      /\ Rows' = Rows \cup {Len(ledger) + 1}
      /\ ledger'[Len(ledger) + 1] = e
      /\ \A q \in Rows : ledger'[q] = before[q]
  <2> HIDE DEF before, e
  <2> QED
    BY <1>4, <1>5, <1>6, AppendedEntry
<1>9. \A q \in Rows :
        /\ before[q].device = ledger[q].device
        /\ before[q].trigger = ledger[q].trigger
        /\ before[q].attempt = ledger[q].attempt
        /\ before[q].parent = ledger[q].parent
        /\ before[q].status = IF q = r THEN "failed" ELSE ledger[q].status
  <2> HIDE DEF before
  <2> QED
    BY <1>2, <1>7 DEF Entries
<1>10. Len(ledger) + 1 \notin Rows
  BY <1>1
<1> HIDE DEF before, e
<1> QED
  BY <1>1, <1>5, <1>8, <1>9, <1>10

-----------------------------------------------------------------------------
(* The type of the ledger                                                  *)

LEMMA TypeInit == LedgerInit => LedgerTypeOK
BY DEF LedgerInit, LedgerTypeOK

LEMMA TypeStep == LedgerTypeOK /\ [LedgerNext]_ledger => LedgerTypeOK'
<1> SUFFICES ASSUME LedgerTypeOK, [LedgerNext]_ledger PROVE LedgerTypeOK'
  OBVIOUS
<1> USE DEF Open, Closed, Started
<1>1. ASSUME NEW d \in Devices, NEW trigger \in {"manual", "scheduled", "diagnostic"},
             Request(d, trigger)
      PROVE  LedgerTypeOK'
  BY <1>1, RequestedEntry
<1>2. ASSUME NEW S \in SUBSET Rows, Dispatch(S)
      PROVE  LedgerTypeOK'
  BY <1>2, MovedEntries DEF Dispatch
<1>3. ASSUME NEW S \in SUBSET Rows, Requeue(S)
      PROVE  LedgerTypeOK'
  BY <1>3, MovedEntries DEF Requeue
<1>4. ASSUME NEW r \in Rows, DispatchDiagnostic(r)
      PROVE  LedgerTypeOK'
  BY <1>4, MovedEntries, {r} \in SUBSET Rows DEF DispatchDiagnostic
<1>5. ASSUME NEW r \in Rows, Start(r)
      PROVE  LedgerTypeOK'
  BY <1>5, MovedEntries, {r} \in SUBSET Rows DEF Start
<1>6. ASSUME NEW r \in Rows, NEW outcome \in Closed, Close(r, outcome)
      PROVE  LedgerTypeOK'
  BY <1>6, MovedEntries, {r} \in SUBSET Rows DEF Close
<1>7. ASSUME NEW r \in Rows, FailAndRetry(r)
      PROVE  LedgerTypeOK'
  BY <1>7, RetriedEntries
<1>8. CASE UNCHANGED ledger
  BY <1>8 DEF LedgerTypeOK
<1> QED
  BY <1>1, <1>2, <1>3, <1>4, <1>5, <1>6, <1>7, <1>8 DEF LedgerNext
-----------------------------------------------------------------------------
(* The kinds of steps                                                      *)

\* What a step that creates no entry may make of a status.
Changes(s, t) ==
  \/ t = s \/ t = "cancelled"
  \/ s \in Started /\ t = "failed"
  \/ s = "running" /\ t = "succeeded"
  \/ s = "dispatched" /\ t \in {"running", "waiting"}
  \/ s = "waiting" /\ t = "dispatched"

OnlyStatus ==
  /\ LedgerTypeOK' /\ Rows' = Rows
  /\ \A r \in Rows : /\ ledger'[r].device = ledger[r].device
                     /\ ledger'[r].trigger = ledger[r].trigger
                     /\ ledger'[r].attempt = ledger[r].attempt
                     /\ ledger'[r].parent = ledger[r].parent
                     /\ Changes(ledger[r].status, ledger'[r].status)

\* Requests and retries create an entry; every other step moves entries from
\* one status to another.
LEMMA MovesOnlyStatus ==
  ASSUME LedgerTypeOK, NEW S \in SUBSET Rows, NEW status \in Open \cup Closed,
         ledger' = Moved(S, status), \A r \in S : Changes(ledger[r].status, status)
  PROVE  OnlyStatus
BY MovedEntries DEF OnlyStatus, Changes

LEMMA StepKinds ==
  ASSUME LedgerTypeOK, LedgerNext
  PROVE  \/ \E d \in Devices, trigger \in {"manual", "scheduled", "diagnostic"} :
              Request(d, trigger)
         \/ \E r \in Rows : FailAndRetry(r)
         \/ OnlyStatus
<1> USE DEF Changes, Open, Closed, Started
<1>1. ASSUME NEW S \in SUBSET Rows, Dispatch(S) PROVE OnlyStatus
  BY <1>1, MovesOnlyStatus DEF Dispatch
<1>2. ASSUME NEW S \in SUBSET Rows, Requeue(S) PROVE OnlyStatus
  BY <1>2, MovesOnlyStatus DEF Requeue
<1>3. ASSUME NEW r \in Rows, DispatchDiagnostic(r) PROVE OnlyStatus
  BY <1>3, MovesOnlyStatus, {r} \in SUBSET Rows DEF DispatchDiagnostic
<1>4. ASSUME NEW r \in Rows, Start(r) PROVE OnlyStatus
  BY <1>4, MovesOnlyStatus, {r} \in SUBSET Rows DEF Start
<1>5. ASSUME NEW r \in Rows, NEW outcome \in Closed, Close(r, outcome) PROVE OnlyStatus
  BY <1>5, MovesOnlyStatus, {r} \in SUBSET Rows DEF Close
<1> QED
  BY <1>1, <1>2, <1>3, <1>4, <1>5 DEF LedgerNext

-----------------------------------------------------------------------------
(* One pending collection, retries and restarts                            *)

LEMMA OnePendingStep ==
  LedgerTypeOK /\ AtMostOnePending /\ [LedgerNext]_ledger => AtMostOnePending'
<1> SUFFICES ASSUME LedgerTypeOK, AtMostOnePending, LedgerNext
             PROVE  AtMostOnePending'
  BY DEF AtMostOnePending, Rows
<1> USE DEF Open, Closed, Started
<1>1. ASSUME NEW d \in Devices, NEW trigger \in {"manual", "scheduled", "diagnostic"},
             Request(d, trigger)
      PROVE  AtMostOnePending'
  <2>1. \A r \in Rows : ledger[r].status \in Open => ledger[r].device # d
    BY <1>1 DEF Request, OpenOf
  <2> QED
    BY <1>1, <2>1, RequestedEntry DEF AtMostOnePending
<1>2. ASSUME NEW r \in Rows, FailAndRetry(r)
      PROVE  AtMostOnePending'
  <2>1. \A q \in Rows :
          ledger[q].status \in Open /\ ledger[q].device = ledger[r].device => q = r
    BY <1>2 DEF FailAndRetry, OpenOf
  <2>2. \A q \in Rows : ledger'[q].status \in Open =>
          /\ ledger[q].status \in Open /\ ledger'[q].device = ledger[q].device
          /\ ledger'[q].device # ledger[r].device
    BY <1>2, <2>1, RetriedEntries
  <2>3. Rows' = Rows \cup {Len(ledger) + 1}
    BY <1>2, RetriedEntries
  <2>4. ledger'[Len(ledger) + 1].device = ledger[r].device
    BY <1>2, RetriedEntries
  <2> QED
    BY <2>2, <2>3, <2>4 DEF AtMostOnePending
<1>3. ASSUME OnlyStatus PROVE AtMostOnePending'
  BY <1>3 DEF OnlyStatus, Changes, AtMostOnePending
<1> QED
  BY <1>1, <1>2, <1>3, StepKinds

LEMMA RetryChainStep ==
  LedgerTypeOK /\ RetryChain /\ [LedgerNext]_ledger => RetryChain'
<1> SUFFICES ASSUME LedgerTypeOK, RetryChain, LedgerNext
             PROVE  RetryChain'
  BY DEF RetryChain, Rows
<1> USE DEF Open, Closed, Started
<1>0. /\ Rows = 1..Len(ledger) /\ Len(ledger) \in Nat
      /\ \A r \in Rows : ledger[r] \in Entries
  BY DEF Rows, LedgerTypeOK
<1>1. ASSUME NEW d \in Devices, NEW trigger \in {"manual", "scheduled", "diagnostic"},
             Request(d, trigger)
      PROVE  RetryChain'
  <2>1. \A r \in Rows' : ledger'[r].trigger = "retry" => r \in Rows
    BY <1>1, RequestedEntry
  <2>2. \A r \in Rows : r \in Rows' /\ ledger'[r] = ledger[r]
    BY <1>1, RequestedEntry
  <2>3. \A r \in Rows : ledger[r].trigger = "retry" => ledger[r].parent \in Rows
    BY <1>0 DEF RetryChain
  <2> QED
    BY <2>1, <2>2, <2>3 DEF RetryChain
<1>2. ASSUME NEW r \in Rows, FailAndRetry(r)
      PROVE  RetryChain'
  <2> DEFINE n == Len(ledger) + 1
  <2>0. /\ n \notin Rows /\ n \in Nat /\ Rows' = Rows \cup {n}
        /\ ledger'[n].device = ledger[r].device
        /\ ledger'[n].trigger = "retry"
        /\ ledger'[n].attempt = ledger[r].attempt + 1
        /\ ledger'[n].parent = r
        /\ \A q \in Rows :
             /\ ledger'[q].device = ledger[q].device
             /\ ledger'[q].trigger = ledger[q].trigger
             /\ ledger'[q].attempt = ledger[q].attempt
             /\ ledger'[q].parent = ledger[q].parent
             /\ ledger'[q].status = IF q = r THEN "failed" ELSE ledger[q].status
    BY <1>2, RetriedEntries
  <2>1. ledger[r].status \in Started /\ ledger[r].attempt <= Retries
    BY <1>2 DEF FailAndRetry
  <2>2. \A q \in Rows : ledger[q].trigger = "retry" => ledger[q].parent # r
    BY <2>1 DEF RetryChain
  <2>3. ASSUME NEW q \in Rows', ledger'[q].trigger = "retry"
        PROVE  LET p == ledger'[q].parent
               IN  /\ p \in 1..(q - 1)
                   /\ ledger'[p].status \in {"failed", "cancelled"}
                   /\ ledger'[p].device = ledger'[q].device
                   /\ ledger'[q].attempt = ledger'[p].attempt + 1
                   /\ ledger'[q].attempt <= Retries + 1
                   /\ \A s \in Rows' : ledger'[s].trigger = "retry"
                                       /\ ledger'[s].parent = p => s = q
    <3> HIDE DEF n
    <3>1. CASE q \in Rows
      <4>1. ledger[q].trigger = "retry"
        BY <2>0, <2>3, <3>1
      <4>2. PICK p : p = ledger[q].parent
        OBVIOUS
      <4>3. /\ p \in 1..(q - 1) /\ p \in Rows /\ p # r
            /\ ledger[p].status \in {"failed", "cancelled"}
            /\ ledger[p].device = ledger[q].device
            /\ ledger[q].attempt = ledger[p].attempt + 1
            /\ ledger[q].attempt <= Retries + 1
            /\ \A s \in Rows : ledger[s].trigger = "retry" /\ ledger[s].parent = p => s = q
        BY <1>0, <2>2, <3>1, <4>1, <4>2 DEF RetryChain
      <4>4. \A s \in Rows' : ledger'[s].trigger = "retry" /\ ledger'[s].parent = p => s = q
        BY <2>0, <4>3
      <4>5. ledger'[q].parent = p
        BY <2>0, <3>1, <4>2
      <4> QED
        BY <2>0, <3>1, <4>3, <4>4, <4>5
    <3>2. CASE q = n
      <4>1. ledger[r].attempt \in Nat /\ Retries \in Nat
        BY <1>0, LedgerAssumption DEF Entries
      <4>2. r \in 1..(n - 1)
        BY <1>0 DEF n
      <4>3. \A s \in Rows' : ledger'[s].trigger = "retry" /\ ledger'[s].parent = r => s = n
        BY <2>0, <2>2
      <4> QED
        BY <2>0, <2>1, <3>2, <4>1, <4>2, <4>3
    <3> QED
      BY <2>0, <3>1, <3>2
  <2> QED
    BY <2>3 DEF RetryChain
<1>3. ASSUME OnlyStatus PROVE RetryChain'
  BY <1>0, <1>3 DEF OnlyStatus, Changes, RetryChain
<1> QED
  BY <1>1, <1>2, <1>3, StepKinds

LEMMA NotRestartedStep ==
  ASSUME LedgerTypeOK, LedgerNext, NEW r \in Rows
  PROVE  /\ ledger[r].status = "running" => ledger'[r].status \in {"running"} \cup Closed
         /\ ledger[r].status \in Closed => ledger'[r].status \in Closed
<1> USE DEF Open, Closed, Started
<1>1. ASSUME NEW d \in Devices, NEW trigger \in {"manual", "scheduled", "diagnostic"},
             Request(d, trigger)
      PROVE  ledger'[r] = ledger[r]
  BY <1>1, RequestedEntry
<1>2. ASSUME NEW q \in Rows, FailAndRetry(q)
      PROVE  ledger'[r].status = IF r = q THEN "failed" ELSE ledger[r].status
  BY <1>2, RetriedEntries
<1>3. ASSUME OnlyStatus PROVE Changes(ledger[r].status, ledger'[r].status)
  BY <1>3 DEF OnlyStatus
<1> QED
  BY <1>1, <1>2, <1>3, StepKinds DEF Changes
-----------------------------------------------------------------------------
(* The limits                                                              *)

\* A step that puts no further production run to work keeps the limits.
LEMMA FewerKeepLimits ==
  ASSUME LedgerTypeOK, WithinLimits, Production' \subseteq Production,
         \A r \in Production : ledger'[r].device = ledger[r].device
  PROVE  WithinLimits'
<1>1. IsFiniteSet(Production)
  <2>1. Len(ledger) \in Nat
    BY DEF LedgerTypeOK
  <2>2. IsFiniteSet(Rows)
    BY <2>1, FS_Interval DEF Rows
  <2> QED
    BY <2>2, FS_Subset DEF Production
<1>2. Cardinality(Production') \in Nat /\ Cardinality(Production') <= Cardinality(Production)
  BY <1>1, FS_Subset, FS_CardinalityType
<1>3. ASSUME NEW r \in Production'
      PROVE  Cardinality(Beside(r)') <= SiteLimit
  <2>1. Beside(r)' \subseteq Beside(r) /\ Beside(r) \subseteq Production
    BY <1>3 DEF Beside
  <2>2. IsFiniteSet(Beside(r))
    BY <1>1, <2>1, FS_Subset
  <2>3. /\ Cardinality(Beside(r)') \in Nat /\ Cardinality(Beside(r)) \in Nat
        /\ Cardinality(Beside(r)') <= Cardinality(Beside(r))
    BY <2>1, <2>2, FS_Subset, FS_CardinalityType
  <2>4. Cardinality(Beside(r)) <= SiteLimit
    BY <1>3 DEF WithinLimits
  <2> QED
    BY <2>3, <2>4, LedgerAssumption
<1>4. Cardinality(Production') <= Limit
  BY <1>1, <1>2, FS_CardinalityType, LedgerAssumption DEF WithinLimits
<1> QED
  BY <1>3, <1>4 DEF WithinLimits

LEMMA LimitsInit == LedgerInit => WithinLimits
<1> SUFFICES ASSUME LedgerInit PROVE WithinLimits
  OBVIOUS
<1>1. Production = {}
  BY DEF LedgerInit, Production, Rows
<1> QED
  BY <1>1, FS_EmptySet, LedgerAssumption DEF WithinLimits

LEMMA LimitsStep ==
  LedgerTypeOK /\ WithinLimits /\ [LedgerNext]_ledger => WithinLimits'
<1> SUFFICES ASSUME LedgerTypeOK, WithinLimits, LedgerNext PROVE WithinLimits'
  BY DEF WithinLimits, Production, Beside, Rows
<1> USE DEF Open, Closed, Started
<1>1. ASSUME NEW d \in Devices, NEW trigger \in {"manual", "scheduled", "diagnostic"},
             Request(d, trigger)
      PROVE  WithinLimits'
  <2>1. /\ Production' \subseteq Production
        /\ \A r \in Production : ledger'[r] = ledger[r]
    BY <1>1, RequestedEntry DEF Production
  <2> QED
    BY <2>1, FewerKeepLimits
<1>2. ASSUME NEW S \in SUBSET Rows, Dispatch(S)
      PROVE  WithinLimits'
  BY <1>2 DEF Dispatch
<1>3. ASSUME NEW S \in SUBSET Rows, NEW status \in Open \cup Closed,
             \A r \in S : status \in Started => \/ ledger[r].status \in Started
                                                \/ ledger[r].trigger = "diagnostic",
             ledger' = Moved(S, status)
      PROVE  WithinLimits'
  <2>1. /\ Production' \subseteq Production
        /\ \A r \in Production : ledger'[r].device = ledger[r].device
    BY <1>3, MovedEntries DEF Production
  <2> QED
    BY <2>1, FewerKeepLimits
<1>4. ASSUME NEW S \in SUBSET Rows, Requeue(S)
      PROVE  WithinLimits'
  BY <1>3, <1>4 DEF Requeue
<1>5. ASSUME NEW r \in Rows, DispatchDiagnostic(r)
      PROVE  WithinLimits'
  BY <1>3, <1>5, {r} \in SUBSET Rows DEF DispatchDiagnostic
<1>6. ASSUME NEW r \in Rows, Start(r)
      PROVE  WithinLimits'
  BY <1>3, <1>6, {r} \in SUBSET Rows DEF Start
<1>7. ASSUME NEW r \in Rows, NEW outcome \in Closed, Close(r, outcome)
      PROVE  WithinLimits'
  BY <1>3, <1>7, {r} \in SUBSET Rows DEF Close
<1>8. ASSUME NEW r \in Rows, FailAndRetry(r)
      PROVE  WithinLimits'
  <2>1. /\ Production' \subseteq Production
        /\ \A q \in Production : ledger'[q].device = ledger[q].device
    BY <1>8, RetriedEntries DEF Production
  <2> QED
    BY <2>1, FewerKeepLimits
<1> QED
  BY <1>1, <1>2, <1>4, <1>5, <1>6, <1>7, <1>8 DEF LedgerNext

-----------------------------------------------------------------------------
(* What the ledger promises                                                *)

\* The ledger is a sequence of entries.
THEOREM LedgerTyped == LedgerSpec => []LedgerTypeOK
<1> QED
  BY TypeInit, TypeStep, PTL DEF LedgerSpec

\* No device ever has two pending runs.
THEOREM LedgerOnePending == LedgerSpec => []AtMostOnePending
<1>1. LedgerInit => AtMostOnePending
  BY DEF LedgerInit, AtMostOnePending, Rows
<1> QED
  BY <1>1, LedgerTyped, OnePendingStep, PTL DEF LedgerSpec

\* Retries continue failed runs, one each, and their number is bounded.
THEOREM LedgerRetryChain == LedgerSpec => []RetryChain
<1>1. LedgerInit => RetryChain
  BY DEF LedgerInit, RetryChain, Rows
<1> QED
  BY <1>1, LedgerTyped, RetryChainStep, PTL DEF LedgerSpec

\* The production runs at work are within the limits.
THEOREM LedgerLimits == LedgerSpec => []WithinLimits
<1> QED
  BY LimitsInit, LedgerTyped, LimitsStep, PTL DEF LedgerSpec

\* A run starts once and a settled run stays settled.
THEOREM LedgerNeverRestarted == LedgerSpec => NeverRestarted
<1>1. LedgerTypeOK /\ [LedgerNext]_ledger
        => [\A r \in Rows :
              /\ ledger[r].status = "running" => ledger'[r].status \in {"running"} \cup Closed
              /\ ledger[r].status \in Closed => ledger'[r].status \in Closed]_ledger
  BY NotRestartedStep
<1> QED
  BY <1>1, LedgerTyped, PTL DEF LedgerSpec, NeverRestarted
===============================================================================
