------------------------------- MODULE Outbox -------------------------------
(***************************************************************************)
(* The transactional outbox: the rows of the Postgres outbox table and the *)
(* dispatch cycles (DispatchOnceResult) of several dispatchers that claim, *)
(* publish, mark and purge them concurrently.                              *)
(*                                                                         *)
(* Each repository call is one database transaction.  A claim is two       *)
(* steps: SELECT ... FOR UPDATE SKIP LOCKED (Select) and the UPDATE and    *)
(* COMMIT (Commit), so that other dispatchers really skip locked rows.     *)
(* A call may succeed, fail and roll back, or commit and still report an   *)
(* error; a dispatcher may lose its whole cycle at any point (crash,       *)
(* cancelled context, handler panic).                                      *)
(*                                                                         *)
(* Time: `aged' holds the rows whose updated_at is older than the window   *)
(* that applies to their status (ProcessingTimeout, RetryWindow, or the    *)
(* retention window).  Every write stamps updated_at and takes the row out *)
(* of it, so all relative speeds are covered.  The code reads the          *)
(* thresholds at the start of the cycle; the model reads them at the       *)
(* claim, which only lets a row be claimed one cycle earlier.              *)
(***************************************************************************)
EXTENDS Integers, FiniteSets, FiniteSetsExt

CONSTANTS
    Events,             \* event ids
    Dispatchers,        \* dispatcher processes sharing the table
    Scoped,             \* dispatchers configured with PriorityEventTypes
    Priority,           \* events whose type is one of PriorityEventTypes
    Kept,               \* events whose type is in RetentionKeepEventTypes
    Retention,          \* terminal statuses with a positive retention window
    MaxDispatchAttempts,
    BatchSize,
    PriorityBudget,
    MaxFailedPerBatch,
    RetentionBatchSize,
    Replayed,           \* ids a producer may create again after their purge
    MaxFaults,          \* bound on infrastructure failures
    NoEvent

ASSUME ConstantsAssumption ==
    /\ Scoped \subseteq Dispatchers
    /\ Priority \subseteq Events
    /\ Kept \subseteq Events
    /\ Retention \subseteq {"PUBLISHED", "INVALID"}
    /\ MaxDispatchAttempts \in Nat \ {0}
    /\ {BatchSize, PriorityBudget, MaxFailedPerBatch, RetentionBatchSize}
         \subseteq Nat \ {0}
    /\ Replayed \subseteq Events
    /\ MaxFaults \in Nat
    /\ NoEvent \notin Events

(* A table has finitely many rows.                                         *)
ASSUME FiniteTable == IsFiniteSet(Events)

VARIABLES
    status,     \* the row's status; "NONE" when the table has no such row
    attempts,   \* the row's attempts column
    aged,       \* rows older than the window of their status
    pc,         \* where each dispatcher is in its cycle
    locked,     \* rows locked by the dispatcher's open claim transaction
    batch,      \* events claimed by the running cycle and not yet marked
    snap,       \* event.Attempts of the claimed copies
    cur,        \* event being published or marked
    result,     \* what publishEventWithRetry returned for cur
    faults,     \* infrastructure failures so far
    acked,      \* history: ids some handler call returned nil for
    claims,     \* history: how often the row was handed out
    reclaimed,  \* history: ids ReclaimStuckProcessing ever took over
    reported    \* history: last lifecycle callback since the last claim

row   == <<status, attempts, aged, claims>>
cycle == <<pc, locked, batch, snap, cur, result>>
hist  == <<acked, reclaimed, reported>>
vars  == <<row, cycle, hist, faults>>

Statuses == {"NONE", "PENDING", "PROCESSING", "FAILED", "PUBLISHED", "INVALID"}
Terminal == {"PUBLISHED", "INVALID"}
Layers   == {"priority", "stuck", "failed", "pending"}
Results  == {"ok", "retryable", "nonretryable"}

(* Where a cycle starts: collectEvents uses PriorityEventTypes as the only *)
(* claim scope when they are configured.                                   *)
FirstLayer(d) == IF d \in Scoped THEN "priority" ELSE "stuck"

(* Mutant: ListPending asked for a whole batch again.                      *)
LimitIgnoringCollected(layer, collected) ==
    IF layer = "priority" THEN Min({PriorityBudget, BatchSize})
    ELSE IF layer = "failed" THEN Min({BatchSize - collected, MaxFailedPerBatch})
    ELSE BatchSize

(* The limit of each layer's claim, given how many events were collected.  *)
Limit(layer, collected) ==
    CASE layer = "priority" -> Min({PriorityBudget, BatchSize})
      [] layer = "failed"   -> Min({BatchSize - collected, MaxFailedPerBatch})
      [] OTHER              -> BatchSize - collected

(* The layer that follows, or "publish" once the batch is full.            *)
Following(layer) ==
    CASE layer = "stuck" -> "failed" [] layer = "failed" -> "pending"
      [] OTHER -> "publish"

After(layer, collected) ==
    IF Following(layer) # "publish" /\ Limit(Following(layer), collected) > 0
      THEN Following(layer) ELSE "publish"

(* Mutant: the retry query stops one attempt early.                        *)
EligibleOneShort(layer) ==
    CASE layer = "priority" -> {e \in Priority : status[e] = "PENDING"}
      [] layer = "stuck"    -> {e \in aged : status[e] = "PROCESSING"}
      [] layer = "failed"   -> {e \in aged : /\ status[e] = "FAILED"
                                             /\ attempts[e] + 1 < MaxDispatchAttempts}
      [] layer = "pending"  -> {e \in Events : status[e] = "PENDING"}

(* Rows a layer's SELECT matches.                                          *)
Eligible(layer) ==
    CASE layer = "priority" -> {e \in Priority : status[e] = "PENDING"}
      [] layer = "stuck"    -> {e \in aged : status[e] = "PROCESSING"}
      [] layer = "failed"   -> {e \in aged : /\ status[e] = "FAILED"
                                             /\ attempts[e] < MaxDispatchAttempts}
      [] layer = "pending"  -> {e \in Events : status[e] = "PENDING"}

(* Mutant: the claim query without FOR UPDATE SKIP LOCKED.                 *)
LockedNone == {}


Locked == UNION {locked[d] : d \in Dispatchers}

(* Mutant: attempts compared with > instead of >=.                         *)
ExhaustedLate(S) == {e \in S : attempts[e] + 1 > MaxDispatchAttempts}

(* splitStuckEvents: rows whose reclaim would use up the attempts.         *)
Exhausted(S) == {e \in S : attempts[e] + 1 >= MaxDispatchAttempts}

TypeOK ==
    /\ status \in [Events -> Statuses]
    /\ attempts \in [Events -> 0..MaxDispatchAttempts]
    /\ aged \subseteq Events
    /\ pc \in [Dispatchers -> Layers \cup {"idle", "publish", "mark",
                                           "purgePUBLISHED", "purgeINVALID"}]
    /\ locked \in [Dispatchers -> SUBSET Events]
    /\ batch \in [Dispatchers -> SUBSET Events]
    /\ snap \in [Dispatchers -> [Events -> 0..MaxDispatchAttempts]]
    /\ cur \in [Dispatchers -> Events \cup {NoEvent}]
    /\ result \in [Dispatchers -> Results]
    /\ faults \in 0..MaxFaults
    /\ acked \subseteq Events
    /\ claims \in [Events -> 0..MaxDispatchAttempts]
    /\ reclaimed \subseteq Events
    /\ reported \in [Events -> {"none", "failed", "invalid"}]

Init ==
    /\ status = [e \in Events |-> "NONE"]
    /\ attempts = [e \in Events |-> 0]
    /\ aged = {}
    /\ pc = [d \in Dispatchers |-> "idle"]
    /\ locked = [d \in Dispatchers |-> {}]
    /\ batch = [d \in Dispatchers |-> {}]
    /\ snap = [d \in Dispatchers |-> [e \in Events |-> 0]]
    /\ cur = [d \in Dispatchers |-> NoEvent]
    /\ result = [d \in Dispatchers |-> "ok"]
    /\ faults = 0
    /\ acked = {}
    /\ claims = [e \in Events |-> 0]
    /\ reclaimed = {}
    /\ reported = [e \in Events |-> "none"]

-----------------------------------------------------------------------------
(* Producers insert PENDING rows with no attempts (normalizedCreateValues).*)
Insert(S) ==
    /\ \A e \in S : /\ status[e] = "NONE"
                    /\ claims[e] = 0 \/ e \in Replayed
    /\ status' = [e \in Events |-> IF e \in S THEN "PENDING" ELSE status[e]]
    /\ attempts' = [e \in Events |-> IF e \in S THEN 0 ELSE attempts[e]]
    /\ claims' = [e \in Events |-> IF e \in S THEN 0 ELSE claims[e]]
    /\ reported' = [e \in Events |-> IF e \in S THEN "none" ELSE reported[e]]
    /\ UNCHANGED <<aged, cycle, faults, acked, reclaimed>>

(* A plain insert of a stored id fails, in Create as in CreateWithTx.      *)
Create(e) == Insert({e})

(* ON CONFLICT ... SET id = EXCLUDED.id: a replay leaves the row alone.    *)
CreateIdempotentWithTx(e) ==
    IF status[e] = "NONE" THEN Insert({e}) ELSE UNCHANGED vars

(* One multi-row statement: all the rows or none.                          *)
CreateManyWithTx(S) == S # {} /\ Insert(S)

(* Time passes the window of one row.                                      *)
Age(e) ==
    /\ status[e] \in {"PROCESSING", "FAILED"} \cup Retention
    /\ e \notin aged
    /\ aged' = aged \cup {e}
    /\ UNCHANGED <<status, attempts, claims, cycle, hist, faults>>

-----------------------------------------------------------------------------
(* One dispatch cycle.                                                     *)
Begin(d) ==
    /\ pc[d] = "idle"
    /\ pc' = [pc EXCEPT ![d] = FirstLayer(d)]
    /\ UNCHANGED <<row, locked, batch, snap, cur, result, hist, faults>>

(* SELECT ... LIMIT n FOR UPDATE SKIP LOCKED of the current layer.  With   *)
(* no row the call returns an empty list and the cycle moves on.           *)
Select(d) ==
    /\ pc[d] \in Layers
    /\ locked[d] = {}
    /\ LET free == Eligible(pc[d]) \ Locked
           n == Min({Limit(pc[d], Cardinality(batch[d])), Cardinality(free)})
       IN \E S \in kSubset(n, free) :
            /\ locked' = [locked EXCEPT ![d] = S]
            /\ pc' = IF S = {}
                       THEN [pc EXCEPT ![d] = After(pc[d], Cardinality(batch[d]))]
                       ELSE pc
    /\ UNCHANGED <<row, batch, snap, cur, result, hist, faults>>

(* Mutant: a reclaim does not count the lost attempt.                      *)
ClaimRowsUncounted(d) ==
    /\ status' = [e \in Events |-> IF e \in locked[d] THEN "PROCESSING" ELSE status[e]]
    /\ claims' = [e \in Events |-> IF e \in locked[d] THEN claims[e] + 1 ELSE claims[e]]
    /\ aged' = aged \ locked[d]
    /\ reclaimed' = IF pc[d] = "stuck" THEN reclaimed \cup locked[d] ELSE reclaimed
    /\ UNCHANGED attempts

ListPendingByTypes(d)     == pc[d] = "priority" /\ Select(d)
ReclaimStuckProcessing(d) == pc[d] = "stuck" /\ Select(d)
ResetForRetry(d)          == pc[d] = "failed" /\ Select(d)
ListPending(d)            == pc[d] = "pending" /\ Select(d)

(* The rows a claim writes: markEventsProcessing for PENDING and FAILED    *)
(* rows; markStuckEventsReprocessing and markStuckEventsInvalid, which     *)
(* count the lost attempt, for stuck ones.                                 *)
ClaimRows(d) ==
    LET S == locked[d]
        bump == IF pc[d] = "stuck" THEN S ELSE {}
        dead == Exhausted(bump)
    IN /\ status' = [e \in Events |-> IF e \in dead THEN "INVALID"
                                     ELSE IF e \in S THEN "PROCESSING"
                                     ELSE status[e]]
       /\ attempts' = [e \in Events |-> IF e \in bump THEN attempts[e] + 1
                                        ELSE attempts[e]]
       /\ claims' = [e \in Events |-> IF e \in S \ dead THEN claims[e] + 1
                                     ELSE claims[e]]
       /\ aged' = aged \ S
       /\ reclaimed' = reclaimed \cup bump

(* COMMIT reported as done: the claimed copies, with the attempts just     *)
(* written, join the batch; resetStuckProcessing fires OnInvalid for each  *)
(* row the reclaim made INVALID.                                           *)
Commit(d) ==
    /\ locked[d] # {}
    /\ ClaimRows(d)
    /\ LET S == locked[d]
           dead == IF pc[d] = "stuck" THEN Exhausted(S) ELSE {}
           got == batch[d] \cup (S \ dead)
       IN /\ batch' = [batch EXCEPT ![d] = got]
          /\ snap' = [snap EXCEPT ![d] =
                        [e \in Events |-> IF e \in S THEN attempts'[e] ELSE @[e]]]
          /\ reported' = [e \in Events |-> IF e \in dead THEN "invalid"
                                           ELSE IF e \in S THEN "none"
                                           ELSE reported[e]]
          /\ pc' = [pc EXCEPT ![d] = After(pc[d], Cardinality(got))]
    /\ locked' = [locked EXCEPT ![d] = {}]
    /\ UNCHANGED <<cur, result, acked, faults>>

(* The call fails: rolled back, or committed although it reports an error. *)
(* Either way the dispatcher gets no events and fires no callback.  A      *)
(* failed ListPending or priority claim ends collectEvents; the others     *)
(* go on with the next layer.                                              *)
ClaimFails(d) ==
    /\ locked[d] # {}
    /\ faults < MaxFaults
    /\ \/ UNCHANGED <<row, reclaimed, reported>>
       \/ /\ ClaimRows(d)
          /\ reported' = [e \in Events |-> IF e \in locked[d] THEN "none"
                                           ELSE reported[e]]
    /\ faults' = faults + 1
    /\ locked' = [locked EXCEPT ![d] = {}]
    /\ pc' = [pc EXCEPT ![d] = After(pc[d], Cardinality(batch[d]))]
    /\ UNCHANGED <<batch, snap, cur, result, acked>>

(* publishEventWithRetry on the next event of the batch: nil, an error     *)
(* after all publish attempts, or one the classifier calls non-retryable.  *)
Publish(d) ==
    /\ pc[d] = "publish"
    /\ \E e \in batch[d], r \in Results :
         /\ cur' = [cur EXCEPT ![d] = e]
         /\ result' = [result EXCEPT ![d] = r]
         /\ acked' = IF r = "ok" THEN acked \cup {e} ELSE acked
    /\ pc' = [pc EXCEPT ![d] = "mark"]
    /\ UNCHANGED <<row, locked, batch, snap, reclaimed, reported, faults>>

(* Mutant: a non-retryable error is swallowed as if it were published.     *)
MarkedStatusSwallow(e, r) ==
    IF r = "retryable"
      THEN IF attempts[e] + 1 >= MaxDispatchAttempts THEN "INVALID" ELSE "FAILED"
      ELSE "PUBLISHED"

(* The status a mark writes.  MarkFailed compares the attempts column, not *)
(* the dispatcher's copy, with MaxDispatchAttempts.                        *)
MarkedStatus(e, r) ==
    CASE r = "ok"           -> "PUBLISHED"
      [] r = "nonretryable" -> "INVALID"
      [] r = "retryable"    -> IF attempts[e] + 1 >= MaxDispatchAttempts
                                 THEN "INVALID" ELSE "FAILED"

(* Mutant: the mark's WHERE clause has no status condition.                *)
WriteMarkAnyStatus(d) ==
    LET e == cur[d] IN
    /\ status[e] # "NONE"
    /\ e \notin Locked
    /\ status' = [status EXCEPT ![e] = MarkedStatus(e, result[d])]
    /\ aged' = aged \ {e}
    /\ UNCHANGED <<attempts, claims>>

(* UPDATE ... WHERE id = cur AND status = 'PROCESSING'.  The row's owner   *)
(* is not part of the condition.  The statement waits for a row lock.      *)
WriteMark(d) ==
    LET e == cur[d] IN
    /\ status[e] = "PROCESSING"
    /\ e \notin Locked
    /\ status' = [status EXCEPT ![e] = MarkedStatus(e, result[d])]
    /\ attempts' = IF result[d] = "retryable"
                     THEN [attempts EXCEPT ![e] = @ + 1] ELSE attempts
    /\ aged' = aged \ {e}
    /\ UNCHANGED claims

(* The callback handlePublishError chooses after a successful mark; for    *)
(* MarkFailed it mirrors the decision with the claimed copy's attempts.    *)
Callback(d) ==
    CASE result[d] = "ok"           -> "none"
      [] result[d] = "nonretryable" -> "invalid"
      [] result[d] = "retryable"    ->
           IF snap[d][cur[d]] + 1 >= MaxDispatchAttempts THEN "invalid"
                                                         ELSE "failed"

NextEvent(d) ==
    /\ batch' = [batch EXCEPT ![d] = @ \ {cur[d]}]
    /\ cur' = [cur EXCEPT ![d] = NoEvent]
    /\ pc' = [pc EXCEPT ![d] = "publish"]
    /\ UNCHANGED <<locked, snap, result>>

(* A successful mark, then the callback.                                   *)
Mark(d) ==
    /\ pc[d] = "mark"
    /\ WriteMark(d)
    /\ reported' = [reported EXCEPT ![cur[d]] = Callback(d)]
    /\ NextEvent(d)
    /\ UNCHANGED <<acked, reclaimed, faults>>

MarkPublished(d) == result[d] = "ok" /\ Mark(d)
MarkFailed(d)    == result[d] = "retryable" /\ Mark(d)
MarkInvalid(d)   == result[d] = "nonretryable" /\ Mark(d)

(* No row matched: ErrStateTransitionConflict, logged and skipped.         *)
MarkConflict(d) ==
    /\ pc[d] = "mark"
    /\ status[cur[d]] # "PROCESSING"
    /\ NextEvent(d)
    /\ UNCHANGED <<row, hist, faults>>

(* The mark fails, applied or not: no callback, the next event follows.    *)
MarkFails(d) ==
    /\ pc[d] = "mark"
    /\ faults < MaxFaults
    /\ \/ UNCHANGED <<row, reported>>
       \/ WriteMark(d) /\ reported' = [reported EXCEPT ![cur[d]] = "none"]
    /\ NextEvent(d)
    /\ faults' = faults + 1
    /\ UNCHANGED <<acked, reclaimed>>

(* The batch is done.  A retention sweep may be due for the scope.         *)
EndDispatch(d) ==
    /\ pc[d] = "publish"
    /\ batch[d] = {}
    /\ \/ pc' = [pc EXCEPT ![d] = "idle"]
       \/ Retention # {} /\ pc' = [pc EXCEPT ![d] = "purgePUBLISHED"]
    /\ UNCHANGED <<row, locked, batch, snap, cur, result, hist, faults>>

(* Rows deleteAgedBefore selects for a status.                             *)
Purgeable(s) ==
    {e \in aged \ Kept : status[e] = s /\ s \in Retention}

(* DeletePublishedBefore, then DeleteInvalidBefore, each at most           *)
(* RetentionBatchSize rows.                                                *)
Purge(s) ==
    \E S \in kSubset(Min({RetentionBatchSize, Cardinality(Purgeable(s))}),
                     Purgeable(s)) :
      /\ status' = [e \in Events |-> IF e \in S THEN "NONE" ELSE status[e]]
      /\ aged' = aged \ S
      /\ UNCHANGED <<attempts, claims>>

SweepPhase(d, s, following) ==
    /\ pc' = [pc EXCEPT ![d] = following]
    /\ UNCHANGED <<locked, batch, snap, cur, result, hist>>
    /\ \/ Purge(s) /\ UNCHANGED faults
       \/ /\ faults < MaxFaults     \* logged; the sweep goes on
          /\ faults' = faults + 1
          /\ UNCHANGED row

Sweep(d) ==
    \/ pc[d] = "purgePUBLISHED" /\ SweepPhase(d, "PUBLISHED", "purgeINVALID")
    \/ pc[d] = "purgeINVALID" /\ SweepPhase(d, "INVALID", "idle")

(* The cycle is lost: the process crashes, its context is cancelled or a   *)
(* handler panics.  Claimed rows stay PROCESSING, open claims roll back.   *)
Abort(d) ==
    /\ pc[d] # "idle"
    /\ faults < MaxFaults
    /\ faults' = faults + 1
    /\ pc' = [pc EXCEPT ![d] = "idle"]
    /\ locked' = [locked EXCEPT ![d] = {}]
    /\ batch' = [batch EXCEPT ![d] = {}]
    /\ cur' = [cur EXCEPT ![d] = NoEvent]
    /\ UNCHANGED <<row, snap, result, hist>>

Step(d) ==
    \/ Begin(d)
    \/ ListPendingByTypes(d) \/ ReclaimStuckProcessing(d)
    \/ ResetForRetry(d) \/ ListPending(d) \/ Commit(d)
    \/ Publish(d)
    \/ MarkPublished(d) \/ MarkFailed(d) \/ MarkInvalid(d) \/ MarkConflict(d)
    \/ EndDispatch(d) \/ Sweep(d)

Fault(d) == ClaimFails(d) \/ MarkFails(d) \/ Abort(d)

Next ==
    \/ \E e \in Events : Create(e) \/ CreateIdempotentWithTx(e) \/ Age(e)
    \/ \E S \in SUBSET Events : CreateManyWithTx(S)
    \/ \E d \in Dispatchers : Step(d) \/ Fault(d)

Spec == Init /\ [][Next]_vars

(* The dispatcher loop ticks for ever and time passes; producers and       *)
(* failures owe nothing.                                                   *)
Fairness ==
    /\ \A d \in Dispatchers : WF_vars(Step(d))
    /\ \A e \in Events : WF_vars(Age(e))

FairSpec == Spec /\ Fairness

-----------------------------------------------------------------------------
(* PUBLISHED is only ever written for an event some handler call accepted, *)
(* although marks carry no owner and may come from a dispatcher whose      *)
(* claim was taken over (DispatchOnceResult, MarkPublished).               *)
PublishedWasAcked == \A e \in Events : status[e] = "PUBLISHED" => e \in acked

(* MaxDispatchAttempts bounds how often a row is handed to a dispatcher:   *)
(* the attempts column and the number of claims stay in step through       *)
(* lost cycles, late marks and reclaims (MarkFailed, splitStuckEvents).    *)
AttemptsBudget ==
    \A e \in Events :
      /\ status[e] = "PENDING"    => attempts[e] = 0 /\ claims[e] = 0
      /\ status[e] = "PROCESSING" => /\ claims[e] = attempts[e] + 1
                                     /\ attempts[e] < MaxDispatchAttempts
      /\ status[e] = "FAILED"     => /\ claims[e] = attempts[e]
                                     /\ attempts[e] \in 1..MaxDispatchAttempts - 1

(* As long as ProcessingTimeout never takes an event over, at most one     *)
(* dispatcher holds it, and the row waits in PROCESSING for its mark: no   *)
(* duplicate publish and no state conflict without a timeout.              *)
SingleOwner ==
    \A e \in Events \ reclaimed : \A d \in Dispatchers :
      e \in batch[d] =>
        /\ status[e] = "PROCESSING"
        /\ \A d2 \in Dispatchers : e \in batch[d2] => d2 = d

(* OnInvalid is only reported for an event that is durably INVALID, also   *)
(* when the dispatcher decides from its claimed copy (handlePublishError). *)
(* An id that was created again after its purge may meet the report of a   *)
(* dispatcher that still holds the old row, and is exempt.                 *)
InvalidReportIsTrue ==
    \A e \in Events \ Replayed : reported[e] = "invalid" => status[e] \in {"INVALID", "NONE"}

(* What an event's status and its callback say happened: PUBLISHED was     *)
(* accepted by a handler, and reported as invalid is durably INVALID       *)
(* (MarkPublished, handlePublishError).                                    *)
ReportsAreTrue == PublishedWasAcked /\ InvalidReportIsTrue

(* "OnFailed is ... invoked when an event fails a dispatch attempt but     *)
(* remains retryable (marked FAILED)" (config.go).                         *)
FailedReportIsTrue ==
    \A e \in Events : reported[e] = "failed" => status[e] = "FAILED"

(* A cycle never holds more than BatchSize events over all the layers of   *)
(* collectEvents, the rows of its open claim included.                     *)
BatchBounded ==
    \A d \in Dispatchers : Cardinality(batch[d] \cup locked[d]) <= BatchSize

(* The outbox implements the status machine it documents.                  *)
Abstract == INSTANCE OutboxLifecycle
ImplementsLifecycle == Abstract!Spec

(* Every stored event is published, invalidated or (then) purged, whatever *)
(* handlers return and after any finite number of failures, as long as     *)
(* one dispatcher claims without a priority scope.                         *)
EventsSettle ==
    \A e \in Events : (status[e] # "NONE") ~> (status[e] \in Terminal \cup {"NONE"})
=============================================================================
