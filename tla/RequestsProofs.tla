--------------------------- MODULE RequestsProofs ---------------------------
(***************************************************************************)
(* Proofs about what a request meets, for every set of requests and every  *)
(* configuration.  The idempotency middleware: at most one assured answer, *)
(* truth of fence reports, no unannounced double effect, and answers from  *)
(* the caller's own record.  Its heartbeat: one failed beat is survived.   *)
(* The circuit breaker manager: breakers trip on their own evidence.  The  *)
(* headers of a replay, the rate limit, outbound pacing, the Redis and     *)
(* database clients with their migrations, and keyset pages.               *)
(***************************************************************************)
EXTENDS MCRequests, FiniteSetTheorems, TLAPS

Terminal == {"complete", "notReplayable", "unrecorded"}
Holding == {"running", "captured", "oversize", "failed", "fence", "release", "reject"}

(* What a record is determines who wrote it.                               *)
Shape ==
    /\ rec.kind = "absent" => rec = Absent
    /\ rec.kind = "processing" => rec.owner \in Requests /\ rec = Processing(rec.owner)
    /\ rec.kind \in Terminal => rec.owner \in Requests /\ rec = Completed(rec.owner, rec.kind)
    /\ rec.owner \in Requests => rec.kind \in Terminal \cup {"processing"}

(* What a request's place in the code says about its answer and effect.    *)
Control ==
    \A r \in Requests :
      /\ pc[r] # "done" => answer[r] = "none"
      /\ r \in committed => pc[r] # "new"
      /\ FailClosed => pc[r] # "unprotected"
      /\ FenceOnError => pc[r] # "release"
      /\ FailClosed /\ FenceOnError /\ r \in committed /\ pc[r] = "done"
           => answer[r] \in {"success", "fenced", "unfenced", "lost", "rejected"}

(* Whoever was assured owns the terminal record.                           *)
Assurance ==
    FailClosed => \A r \in Requests :
      answer[r] \in {"success", "fenced"} => rec.kind \in Terminal /\ rec.owner = r

(* While the lease holds, a request between Acquire and its answer owns    *)
(* the record.                                                             *)
Exclusive ==
    LeaseHolds => \A r \in Requests : pc[r] \in Holding => rec.owner = r

(* Every effect that nobody was warned about belongs to the record's owner.*)
Unannounced ==
    FailClosed /\ FenceOnError /\ LeaseHolds =>
      \A r \in committed : answer[r] \notin {"unfenced", "lost", "rejected"} => rec.owner = r

(* A complete record was written by a request past its handler, and what   *)
(* was replayed is the record still stored.                                *)
Replays ==
    /\ rec.kind = "complete"
         => pc[rec.owner] = "fence" \/ answer[rec.owner] \in {"success", "unfenced", "lost"}
    /\ \A r \in Requests :
         /\ answer[r] \in {"replay", "legacyDone", "conflict", "outcomeUnknown", "replayUnavailable"}
              => found[r] = Fingerprint[r]
         /\ answer[r] = "replay"
              => /\ rec.kind = "complete" /\ rec.owner = source[r]
                 /\ rec.fp = Fingerprint[r]

(* A write on its way still says what its sender wanted: an acquisition or *)
(* an application's fence given up, a completion the sender is fencing or  *)
(* did, the fence it did not hear of, or the release behind its answer.    *)
LateOK(w) ==
    \/ /\ w.over = Absent /\ w.to \in {Processing(w.by), Completed(w.by, "unrecorded")}
       /\ pc[w.by] \in {"unprotected", "done"}
    \/ /\ w.over = Processing(w.by) /\ w.to \in {Completed(w.by, "complete"), Completed(w.by, "notReplayable")}
       /\ pc[w.by] = "fence" \/ (pc[w.by] = "done" /\ answer[w.by] \in {"fenced", "unfenced", "lost"})
    \/ /\ w.over = Processing(w.by) /\ w.to = Completed(w.by, "unrecorded")
       /\ pc[w.by] = "done" /\ answer[w.by] = "unfenced"
    \/ /\ w.over = Processing(w.by) /\ w.to = Absent
       /\ pc[w.by] = "done" /\ answer[w.by] \in {"error", "rejected"}

Underway == \A w \in late : LateOK(w)

IInv ==
    /\ TypeOK
    /\ Underway
    /\ Shape
    /\ Control
    /\ Assurance
    /\ FenceReportIsTrue
    /\ Exclusive
    /\ Unannounced
    /\ Replays

-----------------------------------------------------------------------------
(* What routing an existing record may answer, and from which record.      *)
LEMMA RouteAnswers ==
    ASSUME TypeOK, NEW r \in Requests, rec # Absent
    PROVE  /\ Route(r) \in {"stateRefused", "reuse", "outcomeUnknown", "replayUnavailable",
                            "conflict", "replay", "legacyDone"}
           /\ Route(r) = "replay" => rec.kind = "complete"
           /\ Route(r) \notin {"stateRefused", "reuse"} => rec.fp = Fingerprint[r]
  BY DEF Route, TypeOK, Records

(* The records the middleware writes, and what an unanswered write does.   *)
LEMMA WritesTyped ==
    ASSUME NEW r \in Requests, NEW k \in {"complete", "notReplayable", "unrecorded"}
    PROVE  Absent \in Records /\ Processing(r) \in Records /\ Completed(r, k) \in Records
  BY DEF Records, Absent, Processing, Completed, Kinds, Fingerprints

LEMMA UnansweredTyped ==
    ASSUME TypeOK, NEW r \in Requests, NEW over \in Records, NEW to \in Records, Unanswered(r, over, to)
    PROVE  rec' \in Records /\ late' \in SUBSET [by : Requests, over : Records, to : Records]
  BY DEF Unanswered, TypeOK

(* The initial states satisfy the invariant.                               *)
LEMMA InitInv == Init => IInv
<1> SUFFICES ASSUME Init PROVE IInv
  OBVIOUS
<1> USE IdempotencyAssumption
<1>0. /\ rec.kind \in Kinds \ (Terminal \cup {"processing"})
      /\ rec.owner = Nobody
      /\ rec.kind = "absent" => rec = Absent
      /\ rec \in Records
  <2>1. CASE rec = Absent
    BY <2>1 DEF Absent, Kinds, Terminal, Records
  <2>2. CASE \E k \in FirstRecords \ {"absent"}, f \in Fingerprints :
               rec = [kind |-> k, fp |-> f, owner |-> Nobody, resp |-> Nobody]
    <3>1. PICK k \in FirstRecords \ {"absent"}, f \in Fingerprints :
                 rec = [kind |-> k, fp |-> f, owner |-> Nobody, resp |-> Nobody]
      BY <2>2
    <3>2. k \in Kinds \ {"processing", "complete", "unrecorded", "notReplayable"}
      BY <3>1
    <3> QED
      BY <3>1, <3>2 DEF Terminal, Records
  <2> QED
    BY <2>1, <2>2 DEF Init
<1>1. TypeOK
  BY <1>0 DEF Init, TypeOK, PCs, Answers
<1>2. Shape
  BY <1>0 DEF Shape, Terminal
<1>3. /\ Control /\ Assurance /\ FenceReportIsTrue /\ Exclusive /\ Unannounced
  BY DEF Init, Control, Assurance, FenceReportIsTrue, Exclusive, Unannounced, Holding
<1>4. Replays
  BY <1>0 DEF Init, Replays, Terminal
<1>5. Underway
  BY DEF Init, Underway
<1> QED
  BY <1>1, <1>2, <1>3, <1>4, <1>5 DEF IInv

(* The steps are typed.                                                    *)
LEMMA TypeStep == TypeOK /\ [Next]_vars => TypeOK'
<1> SUFFICES ASSUME TypeOK, [Next]_vars PROVE TypeOK'
  OBVIOUS
<1> USE IdempotencyAssumption DEF TypeOK, Goto, Reply
<1>0. mode' \in Modes
  BY DEF Next, vars
<1>1. ASSUME NEW r \in Requests, Step(r) PROVE TypeOK'
  <2> USE <1>0, <1>1 DEF PCs, Answers
  <2>1. CASE Refuse(r)
    BY <2>1 DEF Refuse
  <2>2. CASE Acquire(r)
    BY <2>2, WritesTyped DEF Acquire
  <2>3. CASE AcquireFails(r)
    BY <2>3, WritesTyped, UnansweredTyped DEF AcquireFails
  <2>4. CASE FindRecord(r)
    <3>1. Route(r) \in Answers
      BY <2>4, RouteAnswers DEF FindRecord
    <3> QED
      BY <2>4, <3>1 DEF FindRecord, Records
  <2>5. CASE ReplayFails(r)
    BY <2>5 DEF ReplayFails
  <2>6. CASE Commit(r)
    BY <2>6 DEF Commit
  <2>7. CASE UnprotectedReturns(r)
    BY <2>7 DEF UnprotectedReturns
  <2>8. CASE HandlerFails(r)
    BY <2>8 DEF HandlerFails
  <2>9. CASE HandlerReturns(r)
    BY <2>9 DEF HandlerReturns
  <2>10. CASE HandlerRejects(r)
    BY <2>10 DEF HandlerRejects
  <2>11. CASE Complete(r)
    BY <2>11, WritesTyped DEF Complete, CompletedKind
  <2>12. CASE CompleteFails(r)
    BY <2>12, WritesTyped, UnansweredTyped DEF CompleteFails, CompletedKind
  <2>13. CASE Fence(r)
    BY <2>13, WritesTyped DEF Fence
  <2>14. CASE FenceFails(r)
    BY <2>14, WritesTyped, UnansweredTyped DEF FenceFails
  <2>15. CASE Release(r)
    BY <2>15, WritesTyped, UnansweredTyped DEF Release
  <2>16. CASE FenceOutcomeUnknown(r)
    BY <2>16, WritesTyped DEF FenceOutcomeUnknown
  <2>17. CASE Crash(r)
    BY <2>17 DEF Crash
  <2>18. CASE AcquireRepeated(r)
    BY <2>18, WritesTyped DEF AcquireRepeated, Fingerprints
  <2>19. CASE FenceOutcomeFails(r)
    BY <2>19, WritesTyped, UnansweredTyped DEF FenceOutcomeFails
  <2> QED
    BY <2>1, <2>2, <2>3, <2>4, <2>5, <2>6, <2>7, <2>8, <2>9, <2>10, <2>11, <2>12, <2>13, <2>14, <2>15, <2>16, <2>17, <2>18, <2>19 DEF Step
<1>2. CASE Lapse
  BY <1>0, <1>2 DEF Lapse, Absent, Kinds, Records
<1>3. CASE UNCHANGED vars
  BY <1>3 DEF vars
<1>4. ASSUME NEW w \in late, Arrives(w) PROVE TypeOK'
  BY <1>0, <1>4 DEF Arrives
<1> QED
  BY <1>1, <1>2, <1>3, <1>4 DEF Next

(* Every step preserves the invariant.                                     *)
LEMMA StepUnderway == IInv /\ [Next]_vars => Underway'
<1> SUFFICES ASSUME IInv, [Next]_vars PROVE Underway'
  OBVIOUS
<1>0. TypeOK /\ Underway /\ Control
  BY DEF IInv
<1> USE IdempotencyAssumption
<1>1. ASSUME NEW r \in Requests, Step(r) PROVE Underway'
  <2>1. CASE late' = late
    <3> SUFFICES ASSUME NEW w \in late PROVE LateOK(w)'
      BY <2>1 DEF Underway
    <3>1. LateOK(w) /\ w.by \in Requests
      BY <1>0 DEF Underway, TypeOK
    <3>2. CASE w.by # r
      <4>1. pc'[w.by] = pc[w.by] /\ answer'[w.by] = answer[w.by]
        BY <1>0, <1>1, <3>1, <3>2 DEF Step, TypeOK, Goto, Reply, Refuse, Acquire, AcquireRepeated, AcquireFails,
           FindRecord, ReplayFails, Commit, UnprotectedReturns, HandlerFails, HandlerReturns, HandlerRejects,
           Complete, CompleteFails, Fence, FenceFails, Release, FenceOutcomeUnknown, FenceOutcomeFails, Crash
      <4> QED BY <3>1, <4>1 DEF LateOK
    <3>3. CASE w.by = r
      <4>1. \/ pc[r] = "done" /\ FALSE
            \/ pc[r] = "unprotected" /\ pc'[r] \in {"unprotected", "done"}
            \/ pc[r] = "fence" /\ pc'[r] = "done" /\ answer'[r] \in {"fenced", "unfenced", "lost"}
        BY <1>0, <1>1, <3>1, <3>3 DEF LateOK, Step, TypeOK, Goto, Reply, Refuse, Acquire, AcquireRepeated, AcquireFails,
           FindRecord, ReplayFails, Commit, UnprotectedReturns, HandlerFails, HandlerReturns, HandlerRejects,
           Complete, CompleteFails, Fence, FenceFails, Release, FenceOutcomeUnknown, FenceOutcomeFails, Crash
      <4> QED BY <3>1, <3>3, <4>1 DEF LateOK
    <3> QED BY <3>2, <3>3
  <2>2. CASE late' # late
    <3> DEFINE new(over, to) == [by |-> r, over |-> over, to |-> to]
    <3>1. PICK over, to : /\ late' = late \cup {new(over, to)}
                          /\ pc[r] # "done" /\ LateOK(new(over, to))'
      <4>1. CASE AcquireFails(r)
        <5>1. late' = late \cup {new(Absent, Processing(r))}
          BY <2>2, <4>1 DEF AcquireFails, Unanswered
        <5>2. pc'[r] \in {"unprotected", "done"} /\ pc[r] = "new"
          BY <1>0, <4>1 DEF AcquireFails, Goto, Reply, TypeOK
        <5> QED BY <5>1, <5>2 DEF LateOK
      <4>2. CASE CompleteFails(r)
        <5>1. late' = late \cup {new(Processing(r), Completed(r, CompletedKind(r)))}
          BY <2>2, <4>2 DEF CompleteFails, Unanswered
        <5>2. pc'[r] = "fence" /\ pc[r] \in {"captured", "oversize"} /\ CompletedKind(r) \in {"complete", "notReplayable"}
          BY <1>0, <4>2 DEF CompleteFails, Goto, TypeOK, CompletedKind
        <5>3. Completed(r, CompletedKind(r)) \in {Completed(r, "complete"), Completed(r, "notReplayable")}
          BY <5>2
        <5> QED BY <5>1, <5>2, <5>3 DEF LateOK
      <4>3. CASE FenceFails(r)
        <5>1. late' = late \cup {new(Processing(r), Completed(r, "unrecorded"))}
          BY <2>2, <4>3 DEF FenceFails, Unanswered
        <5>2. pc'[r] = "done" /\ answer'[r] = "unfenced" /\ pc[r] # "done"
          BY <1>0, <4>3 DEF FenceFails, Goto, Reply, TypeOK
        <5> QED BY <5>1, <5>2 DEF LateOK
      <4>4. CASE Release(r)
        <5>1. late' = late \cup {new(Processing(r), Absent)}
          BY <2>2, <4>4 DEF Release, Unanswered
        <5>2. pc'[r] = "done" /\ answer'[r] \in {"error", "rejected"} /\ pc[r] # "done"
          BY <1>0, <4>4 DEF Release, Goto, Reply, TypeOK
        <5> QED BY <5>1, <5>2 DEF LateOK
      <4>5. CASE FenceOutcomeFails(r)
        <5>1. late' = late \cup {new(Absent, Completed(r, "unrecorded"))}
          BY <2>2, <4>5 DEF FenceOutcomeFails, Unanswered
        <5>2. pc'[r] = "done" /\ pc[r] = "new"
          BY <1>0, <4>5 DEF FenceOutcomeFails, Goto, Reply, TypeOK
        <5> QED BY <5>1, <5>2 DEF LateOK
      <4> QED
        BY <1>1, <2>2, <4>1, <4>2, <4>3, <4>4, <4>5 DEF Step, Refuse, Acquire, AcquireRepeated,
           FindRecord, ReplayFails, Commit, UnprotectedReturns, HandlerFails, HandlerReturns, HandlerRejects,
           Complete, Fence, FenceOutcomeUnknown, Crash
    <3>2. ASSUME NEW w \in late PROVE LateOK(w)'
      <4>1. LateOK(w) /\ w.by \in Requests
        BY <1>0 DEF Underway, TypeOK
      <4>2. CASE w.by # r
        <5>1. pc'[w.by] = pc[w.by] /\ answer'[w.by] = answer[w.by]
          BY <1>0, <1>1, <4>1, <4>2 DEF Step, TypeOK, Goto, Reply, Refuse, Acquire, AcquireRepeated, AcquireFails,
             FindRecord, ReplayFails, Commit, UnprotectedReturns, HandlerFails, HandlerReturns, HandlerRejects,
             Complete, CompleteFails, Fence, FenceFails, Release, FenceOutcomeUnknown, FenceOutcomeFails, Crash
        <5> QED BY <4>1, <5>1 DEF LateOK
      <4>3. CASE w.by = r
        <5>1. pc[r] = "fence" /\ pc'[r] = "done" /\ answer'[r] = "unfenced"
          BY <1>0, <1>1, <2>2, <4>1, <4>3 DEF LateOK, Step, TypeOK, Goto, Reply, Refuse, Acquire, AcquireRepeated, AcquireFails,
             FindRecord, ReplayFails, Commit, UnprotectedReturns, HandlerFails, HandlerReturns, HandlerRejects,
             Complete, CompleteFails, Fence, FenceFails, Release, FenceOutcomeUnknown, FenceOutcomeFails, Crash
        <5> QED BY <4>1, <4>3, <5>1 DEF LateOK
      <4> QED BY <4>2, <4>3
    <3> QED BY <3>1, <3>2 DEF Underway
  <2> QED BY <2>1, <2>2
<1>2. CASE Lapse
  BY <1>0, <1>2 DEF Lapse, Underway, LateOK
<1>3. ASSUME NEW w \in late, Arrives(w) PROVE Underway'
  BY <1>0, <1>3 DEF Arrives, Underway, LateOK
<1>4. CASE UNCHANGED vars
  BY <1>0, <1>4 DEF vars, Underway, LateOK
<1> QED
  BY <1>1, <1>2, <1>3, <1>4 DEF Next

LEMMA StepInv == IInv /\ [Next]_vars => IInv'
<1> SUFFICES ASSUME IInv, [Next]_vars PROVE IInv'
  OBVIOUS
<1>0. TypeOK /\ TypeOK' /\ Underway'
  BY TypeStep, StepUnderway DEF IInv
<1>m. UNCHANGED mode
  BY DEF Next, vars
<1> DEFINE Rest == /\ Shape /\ Control /\ Assurance /\ FenceReportIsTrue
                   /\ Exclusive /\ Unannounced /\ Replays
<1> USE IdempotencyAssumption
<1>1. ASSUME NEW r \in Requests, Step(r) PROVE Rest'
  <2> USE <1>0, <1>m, <1>1 DEF FailClosed, FenceOnError, LeaseHolds, IInv, TypeOK, Goto, Reply, Shape, Control, Assurance, FenceReportIsTrue,
                         Exclusive, Unannounced, Replays, Holding, Terminal, Absent,
                         Processing, Completed
  <2>1. CASE Refuse(r)
    BY <2>1 DEF Refuse, CompletedKind, Holds, Unanswered
  <2>2. CASE Acquire(r)
    BY <2>2 DEF Acquire, CompletedKind, Holds, Unanswered
  <2>3. CASE AcquireFails(r)
    BY <2>3 DEF AcquireFails, CompletedKind, Holds, Unanswered
  <2>4. CASE FindRecord(r)
    BY <2>4, RouteAnswers DEF FindRecord
  <2>5. CASE ReplayFails(r)
    BY <2>5 DEF ReplayFails, CompletedKind, Holds, Unanswered
  <2>6. CASE Commit(r)
    BY <2>6 DEF Commit, CompletedKind, Holds, Unanswered
  <2>7. CASE UnprotectedReturns(r)
    BY <2>7 DEF UnprotectedReturns, CompletedKind, Holds, Unanswered
  <2>8. CASE HandlerFails(r)
    BY <2>8 DEF HandlerFails, CompletedKind, Holds, Unanswered
  <2>9. CASE HandlerReturns(r)
    BY <2>9 DEF HandlerReturns, CompletedKind, Holds, Unanswered
  <2>10. CASE HandlerRejects(r)
    BY <2>10 DEF HandlerRejects, CompletedKind, Holds, Unanswered
  <2>11. CASE Complete(r)
    BY <2>11 DEF Complete, CompletedKind, Holds, Unanswered
  <2>12. CASE CompleteFails(r)
    BY <2>12 DEF CompleteFails, CompletedKind, Holds, Unanswered
  <2>13. CASE Fence(r)
    BY <2>13 DEF Fence, CompletedKind, Holds, Unanswered
  <2>14. CASE FenceFails(r)
    BY <2>14 DEF FenceFails, CompletedKind, Holds, Unanswered
  <2>15. CASE Release(r)
    BY <2>15 DEF Release, CompletedKind, Holds, Unanswered
  <2>16. CASE FenceOutcomeUnknown(r)
    BY <2>16 DEF FenceOutcomeUnknown, CompletedKind, Holds, Unanswered
  <2>17. CASE Crash(r)
    BY <2>17 DEF Crash, CompletedKind, Holds, Unanswered
  <2>18. CASE AcquireRepeated(r)
    BY <2>18 DEF AcquireRepeated
  <2>19. CASE FenceOutcomeFails(r)
    BY <2>19 DEF FenceOutcomeFails, Unanswered
  <2> HIDE IdempotencyAssumption, <1>0, <1>m DEF FailClosed, FenceOnError, LeaseHolds, IInv, TypeOK, Goto, Reply, Shape,
           Control, Assurance, FenceReportIsTrue, Exclusive, Unannounced, Replays, Holding, Terminal, Absent,
           Processing, Completed
  <2> QED
    BY <2>1, <2>2, <2>3, <2>4, <2>5, <2>6, <2>7, <2>8, <2>9, <2>10, <2>11, <2>12, <2>13, <2>14, <2>15, <2>16, <2>17, <2>18, <2>19 DEF Step
<1>2. CASE Lapse
  BY <1>0, <1>m, <1>2 DEF FailClosed, FenceOnError, LeaseHolds, Lapse, IInv, TypeOK, Shape, Control, Assurance, FenceReportIsTrue, Exclusive,
     Unannounced, Replays, Holding, Terminal, Absent, Processing
<1>3. CASE UNCHANGED vars
  BY <1>0, <1>3 DEF FailClosed, FenceOnError, LeaseHolds, vars, IInv, Shape, Control, Assurance, FenceReportIsTrue, Exclusive,
     Unannounced, Replays, Processing, Completed, Absent
<1>4. ASSUME NEW w \in late, Arrives(w) PROVE Rest'
  <2>1. CASE rec' = rec
    BY <1>0, <1>m, <1>4, <2>1 DEF FailClosed, FenceOnError, LeaseHolds, Arrives, IInv, Shape, Control, Assurance,
       FenceReportIsTrue, Exclusive, Unannounced, Replays, Processing, Completed, Absent
  <2>2. CASE rec' # rec
    <3>1. rec = w.over /\ rec' = w.to /\ LateOK(w) /\ w.by \in Requests
          /\ UNCHANGED <<pc, answer, source, found, committed>>
      BY <1>4, <2>2 DEF Arrives, IInv, Underway, TypeOK
    <3> QED
      BY <1>0, <1>m, <3>1 DEF LateOK, FailClosed, FenceOnError, LeaseHolds, IInv, TypeOK, Shape, Control, Assurance,
         FenceReportIsTrue, Exclusive, Unannounced, Replays, Holding, Terminal, Absent, Processing, Completed
  <2> QED BY <2>1, <2>2
<1> QED
  BY <1>0, <1>1, <1>2, <1>3, <1>4 DEF Next, IInv


-----------------------------------------------------------------------------
(* The invariant holds in every reachable state.                           *)
LEMMA Invariance == Spec => []IInv
  BY InitInv, StepInv, PTL DEF Spec

(* Type correctness of the middleware model.                               *)
THEOREM TypeCorrect == Spec => []TypeOK
<1>1. IInv => TypeOK
  BY DEF IInv
<1> QED
  BY <1>1, Invariance, PTL

(* Whatever lapses, fails, times out or crashes, two requests under a key  *)
(* are never both told that all is well.                                   *)
THEOREM AtMostOneAssuredHolds == Spec => []AtMostOneAssured
<1>1. IInv => AtMostOneAssured
  BY DEF IInv, Assurance, AtMostOneAssured, AtMostOne, Assured
<1> QED
  BY <1>1, Invariance, PTL

(* A fence that was reported is under the key.                             *)
THEOREM FenceReportIsTrueHolds == Spec => []FenceReportIsTrue
<1>1. IInv => FenceReportIsTrue
  BY DEF IInv
<1> QED
  BY <1>1, Invariance, PTL

(* With fenced failures and a lease that holds, an effect is doubled only  *)
(* after an unfenced answer or a crash.                                    *)
THEOREM AtMostOneUnannouncedHolds == Spec => []AtMostOneUnannounced
<1>1. IInv => AtMostOneUnannounced
  BY DEF IInv, Unannounced, AtMostOneUnannounced, AtMostOne
<1> QED
  BY <1>1, Invariance, PTL

(* The three together, as the runs check them.                             *)
THEOREM AtMostOnceHolds == Spec => []AtMostOnce
<1>1. AtMostOneAssured /\ AtMostOneUnannounced /\ FenceReportIsTrue => AtMostOnce
  BY DEF AtMostOnce
<1> QED
  BY <1>1, AtMostOneAssuredHolds, AtMostOneUnannouncedHolds, FenceReportIsTrueHolds, PTL

(* An answer from an existing record is about the caller's own request.    *)
THEOREM AnsweredFromOwnRecordHolds == Spec => []AnsweredFromOwnRecord
<1>1. IInv => AnsweredFromOwnRecord
  <2> SUFFICES ASSUME IInv, NEW r \in Requests, answer[r] = "replay"
      PROVE  /\ source[r] \in Requests /\ Fingerprint[source[r]] = Fingerprint[r]
             /\ answer[source[r]] \in {"success", "unfenced", "lost"} \/ pc[source[r]] = "fence"
    BY DEF IInv, Replays, AnsweredFromOwnRecord
  <2>1. rec.kind = "complete" /\ rec.owner = source[r] /\ rec.fp = Fingerprint[r]
    BY DEF IInv, Replays
  <2>2. rec.owner \in Requests /\ rec = Completed(rec.owner, rec.kind)
    BY <2>1 DEF IInv, Shape, Terminal
  <2>3. rec.fp = Fingerprint[rec.owner]
    BY <2>2 DEF Completed
  <2> QED
    BY <2>1, <2>2, <2>3 DEF IInv, Replays
<1> QED
  BY <1>1, Invariance, PTL

-----------------------------------------------------------------------------
(* The heartbeat that keeps a running handler's lease, for every lease,    *)
(* interval and store timeout (runChainWithHeartbeat).                     *)

Period == HeartbeatTick

(* At most this long after a beat began the next one does.                 *)
Gap == Greatest(Period, RedisTimeout)

BeatTypes ==
    /\ clock \in 0 .. MaxTime /\ expires \in Nat /\ nextTick \in Nat /\ beatSince \in Nat
    /\ missed \in Nat /\ tickReady \in BOOLEAN

Beating == beatSince # NoBeat

(* The ticker: it fires within a period, and unless it has fired since the *)
(* beat began it will within a period of that.                             *)
Ticker ==
    /\ clock < nextTick /\ nextTick <= clock + Period
    /\ Beating => /\ beatSince <= clock /\ clock <= beatSince + RedisTimeout
                  /\ ~tickReady => nextTick <= beatSince + Period

(* The beat after n failures begins within n + 1 gaps of the renewal: of   *)
(* the one that set the lease to expire when it does.                      *)
InTime(n) ==
    missed = n =>
      /\ Beating => beatSince + Lease <= expires + (n + 1) * Gap
      /\ ~Beating /\ tickReady => clock + Lease <= expires + (n + 1) * Gap
      /\ ~Beating /\ ~tickReady => nextTick + Lease <= expires + (n + 1) * Gap

Regular == Ticker /\ InTime(0) /\ InTime(1)

HInv ==
    /\ BeatTypes
    /\ handler = "running" /\ Alive => Regular
    /\ handler # "running" => ~Beating
    /\ OneFailedBeatIsSurvived

(* What the proof uses of the durations.                                   *)
Durations ==
    /\ Period \in Nat \ {0} /\ Lease \in Nat /\ RedisTimeout \in Nat /\ Gap \in Nat
    /\ Period <= Gap /\ RedisTimeout <= Gap
    /\ MaxTime \in Nat /\ NoBeat = MaxTime + 1

Room ==
    /\ RedisTimeout <= Lease \div 3 => 2 * Gap + RedisTimeout <= Lease
    /\ 2 * RedisTimeout <= Lease => Gap + RedisTimeout <= Lease

LEMMA GapsFit == Durations /\ Room
<1>1. {Lease, Interval, MinTick, RedisTimeout, MaxTime} \subseteq Nat \ {0} /\ 3 * MinTick <= Lease
  BY HeartbeatAssumption
<1>2. Period \in Nat \ {0} /\ 3 * Period <= Lease
  BY <1>1 DEF Period, HeartbeatTick, Greatest, Least
<1> QED BY <1>1, <1>2 DEF Durations, Room, Gap, Greatest, NoBeat

(* While the beats come regularly, one that fails leaves the lease alive.  *)
LEMMA Survives ==
    ASSUME BeatTypes, handler = "running" => Regular
    PROVE  OneFailedBeatIsSurvived
<1> SUFFICES ASSUME handler = "running", ~Alive
    PROVE  /\ RedisTimeout <= Lease \div 3 => missed >= 2
           /\ 2 * RedisTimeout <= Lease => missed >= 1
  BY DEF OneFailedBeatIsSurvived
<1>1. Ticker /\ InTime(0) /\ InTime(1)
  BY DEF Regular
<1> QED BY <1>1, GapsFit DEF Durations, Room, Ticker, InTime, BeatTypes, Alive

LEMMA HeartbeatStep == ASSUME HInv, [HeartbeatNext]_beatVars PROVE HInv'
<1>1. Durations /\ BeatTypes
  BY GapsFit DEF HInv
<1>a. ASSUME BeatTypes', Regular', (handler # "running" => ~Beating)' PROVE HInv'
  <2>1. OneFailedBeatIsSurvived'
    <3> SUFFICES ASSUME handler' = "running", ~Alive'
        PROVE  /\ RedisTimeout <= Lease \div 3 => missed' >= 2
               /\ 2 * RedisTimeout <= Lease => missed' >= 1
      BY DEF OneFailedBeatIsSurvived
    <3>1. PICK c \in Nat, e \in Nat, m \in Nat, b \in Nat, n \in Nat :
                 c = clock' /\ e = expires' /\ m = missed' /\ b = beatSince' /\ n = nextTick'
      BY <1>1, <1>a DEF BeatTypes, Durations
    <3>2. c > e
      BY <3>1 DEF Alive
    <3>3. ASSUME m = 0 PROVE c + Lease <= e + Gap + RedisTimeout
      <4>1. /\ Beating' => b + Lease <= e + (0 + 1) * Gap
            /\ ~Beating' /\ tickReady' => c + Lease <= e + (0 + 1) * Gap
            /\ ~Beating' /\ ~tickReady' => n + Lease <= e + (0 + 1) * Gap
        BY <1>a, <3>1, <3>3 DEF Regular, InTime
      <4>2. c < n /\ (Beating' => c <= b + RedisTimeout)
        BY <1>a, <3>1 DEF Regular, Ticker
      <4> QED BY <1>1, <4>1, <4>2 DEF Durations
    <3>4. ASSUME m = 1 PROVE c + Lease <= e + 2 * Gap + RedisTimeout
      <4>1. /\ Beating' => b + Lease <= e + (1 + 1) * Gap
            /\ ~Beating' /\ tickReady' => c + Lease <= e + (1 + 1) * Gap
            /\ ~Beating' /\ ~tickReady' => n + Lease <= e + (1 + 1) * Gap
        BY <1>a, <3>1, <3>4 DEF Regular, InTime
      <4>2. c < n /\ (Beating' => c <= b + RedisTimeout)
        BY <1>a, <3>1 DEF Regular, Ticker
      <4> QED BY <1>1, <4>1, <4>2 DEF Durations
    <3>5. ASSUME RedisTimeout <= Lease \div 3 PROVE m >= 2
      BY <1>1, <3>2, <3>3, <3>4, <3>5, GapsFit DEF Durations, Room
    <3>6. ASSUME 2 * RedisTimeout <= Lease PROVE m >= 1
      BY <1>1, <3>2, <3>3, <3>6, GapsFit DEF Durations, Room
    <3> QED BY <3>1, <3>5, <3>6
  <2> QED BY <1>a, <2>1 DEF HInv
<1>2. CASE BeginBeat
  <2>1. ~tickReady' /\ tickReady' \in BOOLEAN
    BY <1>2, Zenon DEF BeginBeat
  <2>2. /\ ~Beating /\ tickReady /\ beatSince' = clock /\ handler = "running"
        /\ UNCHANGED <<clock, expires, nextTick, handler, missed>>
    BY <1>2, Zenon DEF BeginBeat, Beating
  <2> QED BY <1>1, <2>1, <2>2 DEF Durations, HInv, BeatTypes, Beating, Regular, Ticker, InTime, Alive, OneFailedBeatIsSurvived
<1>3. CASE BeatLands
  <2>1. PICK at \in beatSince .. clock : expires' = at + Lease
    BY <1>3 DEF BeatLands, Extended
  <2>2. /\ Beating /\ Alive /\ ~Beating' /\ beatSince' = NoBeat /\ missed' = 0
        /\ UNCHANGED <<clock, nextTick, tickReady, handler>>
    BY <1>3 DEF BeatLands, Beating
  <2>3. handler = "running" /\ Regular
    BY <2>2 DEF HInv
  <2>4. BeatTypes' /\ Regular'
    BY <1>1, <2>1, <2>2, <2>3 DEF Durations, BeatTypes, Beating, Regular, Ticker, InTime
  <2> QED BY <1>a, <2>2, <2>4
<1>4. CASE BeatRefused
  <2>1. tickReady' \in BOOLEAN
    BY <1>4, Zenon DEF BeatRefused
  <2>2. /\ Beating /\ ~Alive /\ beatSince' = NoBeat /\ nextTick' = NoBeat
        /\ UNCHANGED <<clock, expires, handler, missed>>
    BY <1>4, Zenon DEF BeatRefused, Beating
  <2> QED BY <1>1, <2>1, <2>2 DEF Durations, HInv, BeatTypes, Beating, Alive, OneFailedBeatIsSurvived
<1>5. CASE BeatFails
  <2>1. /\ Beating /\ handler = "running" /\ ~Beating' /\ beatSince' = NoBeat /\ missed' = missed + 1
        /\ UNCHANGED <<clock, nextTick, tickReady, handler>>
    BY <1>5 DEF BeatFails, Beating
  <2>2. CASE Alive
    <3>0. Regular
      BY <2>1, <2>2 DEF HInv
    <3>1. expires' \in Nat /\ (expires' = expires \/ beatSince + Lease <= expires')
      BY <1>1, <1>5 DEF BeatFails, Extended, BeatTypes, Durations
    <3>2. BeatTypes'
      BY <1>1, <2>1, <3>1 DEF Durations, BeatTypes
    <3>3. Ticker'
      BY <1>1, <2>1, <3>0 DEF Durations, BeatTypes, Beating, Regular, Ticker
    <3>4. InTime(0)'
      BY <1>1, <2>1 DEF BeatTypes, InTime
    <3>5. PICK e \in Nat : e = expires'
      BY <3>1
    <3>6. ASSUME missed = 0 PROVE InTime(1)'
      <4>1. beatSince + Lease <= e + Gap
        <5>1. beatSince + Lease <= expires + (0 + 1) * Gap
          BY <2>1, <3>0, <3>6 DEF Regular, InTime
        <5>2. beatSince + Lease <= expires + Gap
          BY <1>1, <5>1 DEF Durations, BeatTypes
        <5>3. e = expires \/ beatSince + Lease <= e
          BY <3>1, <3>5
        <5> QED BY <1>1, <5>2, <5>3 DEF Durations, BeatTypes
      <4>2. clock <= beatSince + Gap /\ (~tickReady => nextTick <= beatSince + Gap)
        BY <1>1, <2>1, <3>0 DEF Durations, BeatTypes, Regular, Ticker
      <4>3. clock + Lease <= e + 2 * Gap /\ (~tickReady => nextTick + Lease <= e + 2 * Gap)
        BY <1>1, <4>1, <4>2 DEF Durations, BeatTypes
      <4>4. clock + Lease <= e + (1 + 1) * Gap /\ (~tickReady => nextTick + Lease <= e + (1 + 1) * Gap)
        BY <1>1, <4>3 DEF Durations, BeatTypes
      <4> QED BY <2>1, <3>5, <4>4 DEF InTime
    <3>7. InTime(1)'
      BY <1>1, <2>1, <3>6 DEF BeatTypes, InTime
    <3> QED BY <1>a, <2>1, <3>2, <3>3, <3>4, <3>7 DEF Regular
  <2>3. CASE ~Alive
    <3>1. expires' = expires
      BY <1>5, <2>3 DEF BeatFails
    <3> QED BY <1>1, <2>1, <2>3, <3>1 DEF Durations, HInv, BeatTypes, Beating, Alive, OneFailedBeatIsSurvived
  <2> QED BY <2>2, <2>3
<1>6. CASE HandlerEnds
  BY <1>1, <1>6 DEF Durations, HandlerEnds, HInv, BeatTypes, Beating, OneFailedBeatIsSurvived
<1>7. CASE Tick
  <2>1. /\ handler = "running" /\ Alive /\ clock < MaxTime /\ (tickReady => Beating)
        /\ (Beating => clock < beatSince + RedisTimeout) /\ clock' = clock + 1
        /\ UNCHANGED <<expires, beatSince, handler, missed>>
    BY <1>7, Zenon DEF Tick, Beating
  <2>2. Regular
    BY <2>1 DEF HInv
  <2>3. CASE clock' = nextTick
    <3>1. tickReady' /\ tickReady' \in BOOLEAN
      BY <1>7, <2>3, Zenon DEF Tick
    <3>2. nextTick' = nextTick + Period
      BY <1>7, <2>3, Zenon DEF Tick, Period
    <3>3. BeatTypes' /\ Regular'
      BY <1>1, <2>1, <2>2, <2>3, <3>1, <3>2 DEF Durations, BeatTypes, Beating, Regular, Ticker, InTime
    <3> QED BY <1>a, <2>1, <3>3
  <2>4. CASE clock' # nextTick
    <3>1. tickReady' = tickReady /\ nextTick' = nextTick
      BY <1>7, <2>4, Zenon DEF Tick
    <3>2. BeatTypes' /\ Regular'
      BY <1>1, <2>1, <2>2, <2>4, <3>1 DEF Durations, BeatTypes, Beating, Regular, Ticker, InTime
    <3> QED BY <1>a, <2>1, <3>2
  <2> QED BY <2>3, <2>4
<1>8. CASE UNCHANGED beatVars
  BY <1>8 DEF beatVars, HInv, BeatTypes, Beating, Regular, Ticker, InTime, Alive, OneFailedBeatIsSurvived
<1> QED BY <1>2, <1>3, <1>4, <1>5, <1>6, <1>7, <1>8 DEF HeartbeatNext

(* Whatever the lease, the interval and the timeout, and however long a    *)
(* beat hung: while the timeout is at most a third of the lease, the record*)
(* lapses under a running handler only after two beats in a row failed;    *)
(* while it is at most half, only after one did.                           *)
THEOREM OneFailedBeatIsSurvivedHolds == HeartbeatSpec => []OneFailedBeatIsSurvived
<1>1. ASSUME HeartbeatInit PROVE HInv
  <2>1. ~tickReady /\ tickReady \in BOOLEAN
    BY <1>1, Zenon DEF HeartbeatInit
  <2>2. clock = 0 /\ expires = Lease /\ nextTick = Period /\ ~Beating /\ beatSince = NoBeat /\ missed = 0 /\ handler = "running"
    BY <1>1, Zenon DEF HeartbeatInit, Period, Beating
  <2>3. BeatTypes /\ Regular
    BY <2>1, <2>2, GapsFit DEF Durations, BeatTypes, Regular, Ticker, InTime
  <2>4. OneFailedBeatIsSurvived
    BY <2>3, Survives
  <2> QED BY <2>2, <2>3, <2>4 DEF HInv
<1>2. HInv /\ [HeartbeatNext]_beatVars => HInv'
  BY HeartbeatStep
<1>3. HInv => OneFailedBeatIsSurvived
  BY DEF HInv
<1> QED BY <1>1, <1>2, <1>3, PTL DEF HeartbeatSpec

-----------------------------------------------------------------------------
(* The circuit breaker manager, for every set of tenants, services and     *)
(* callers, and every configuration Validate accepts.                      *)

Evidence(k) ==
    \/ cfg.consecutive > 0 /\ failed[k] >= cfg.consecutive
    \/ cfg.minRequests > 0 /\ failed[k] * cfg.den >= cfg.num * cfg.minRequests

(* A slot holds an instance made for it, whose failures were its own.      *)
SlotOK(k) ==
    /\ slots[k] <= made
    /\ slots[k] # None =>
         /\ br[slots[k]].key = k /\ br[slots[k]].fail <= failed[k]
         /\ br[slots[k]].state # "closed" => Evidence(k)

(* A call reports to the instance that admitted it, which never goes back  *)
(* to an earlier generation.                                               *)
CallerOK(c) ==
    /\ hand[c] <= made /\ call[c].on <= made
    /\ call[c].on # None => /\ call[c].key = br[call[c].on].key
                            /\ call[c].gen <= br[call[c].on].gen

InstanceOK(i) ==
    /\ br[i].cf <= br[i].fail
    /\ br[i].fail + Cardinality(InFlight(i)) <= br[i].req
    /\ br[i].state = "half-open" => br[i].req <= Probes

BInv ==
    /\ BreakerTypeOK
    /\ \A k \in Keys : SlotOK(k)
    /\ \A c \in Callers : CallerOK(c)
    /\ \A i \in 1 .. made : InstanceOK(i)

LEMMA Settings ==
  ASSUME cfg \in Configs
  PROVE  /\ {cfg.maxRequests, cfg.consecutive, cfg.minRequests, cfg.num, cfg.den, cfg.maxBreakers} \subseteq Nat
         /\ Probes \in Nat
<1> QED BY ConfigAssumption DEF Configured, Probes

(* More failures, or fewer requests, leave a failure ratio exceeded.       *)
LEMMA RatioKept ==
  ASSUME NEW n \in Nat, NEW m \in Nat, NEW a \in Nat, n <= m
  PROVE  n * a <= m * a /\ a * n <= a * m
<1> QED OBVIOUS

LEMMA InFlightCount ==
  ASSUME NEW i
  PROVE  IsFiniteSet(InFlight(i)) /\ Cardinality(InFlight(i)) \in Nat
<1>1. InFlight(i) \subseteq Callers
  BY DEF InFlight
<1>2. IsFiniteSet(Callers)
  BY ConfigAssumption DEF Configured
<1> QED BY <1>1, <1>2, FS_Subset, FS_CardinalityType

(* What time, a success and a failure make of an instance.                 *)
Renewed(b, n, states) ==
    /\ n \in Breaker /\ n.key = b.key /\ n.gen = b.gen + 1 /\ n.state \in states
    /\ n.req = 0 /\ n.fail = 0 /\ n.cf = 0

Alike(b, n) == n.key = b.key /\ n.state = b.state /\ n.gen = b.gen /\ n.req = b.req

LEMMA Generation ==
  ASSUME NEW b \in Breaker, NEW st \in States
  PROVE  Renewed(b, NewGeneration(b, st), {st})
<1> DEFINE n == NewGeneration(b, st)
<1>1. b.gen + 1 \in Nat
  BY DEF Breaker
<1>2. n \in Breaker
  BY <1>1 DEF NewGeneration, Breaker
<1>3. n.key = b.key /\ n.state = st /\ n.gen = b.gen + 1 /\ n.req = 0 /\ n.fail = 0 /\ n.cf = 0
  BY <1>1 DEF NewGeneration, Breaker
<1> QED BY <1>2, <1>3 DEF Renewed

LEMMA TimeActs ==
  ASSUME NEW b \in Breaker
  PROVE  \/ CurrentState(b) = b
         \/ b.state = "closed" /\ Renewed(b, CurrentState(b), {"closed"})
         \/ b.state = "open" /\ Renewed(b, CurrentState(b), {"half-open"})
<1> QED BY Generation DEF CurrentState, States

LEMMA Succeeds ==
  ASSUME NEW b \in Breaker
  PROVE  \/ /\ AfterSuccess(b) \in Breaker /\ AfterSuccess(b).cf = 0
            /\ AfterSuccess(b).fail = b.fail /\ Alike(b, AfterSuccess(b))
         \/ b.state = "half-open" /\ Renewed(b, AfterSuccess(b), {"closed"})
<1> DEFINE s == [b EXCEPT !.cs = @ + 1, !.cf = 0]
<1>1. s \in Breaker /\ s.cf = 0 /\ s.fail = b.fail /\ Alike(b, s)
  <2>1. b.cs + 1 \in Nat
    BY DEF Breaker
  <2> QED BY <2>1 DEF Breaker, Alike
<1>2. AfterSuccess(b) = s \/ (b.state = "half-open" /\ AfterSuccess(b) = NewGeneration(s, "closed"))
  BY DEF AfterSuccess
<1> HIDE DEF s
<1>3. Renewed(b, NewGeneration(s, "closed"), {"closed"})
  BY <1>1, Generation DEF Renewed, States, Alike
<1> QED BY <1>1, <1>2, <1>3

LEMMA FailureCounts ==
  ASSUME NEW b \in Breaker
  PROVE  \/ /\ AfterFailure(b) \in Breaker
            /\ AfterFailure(b).fail = b.fail + 1 /\ AfterFailure(b).cf = b.cf + 1
            /\ Alike(b, AfterFailure(b))
         \/ /\ Renewed(b, AfterFailure(b), {"open"})
            /\ \/ b.state = "half-open"
               \/ cfg.consecutive > 0 /\ b.cf + 1 >= cfg.consecutive
               \/ cfg.minRequests > 0 /\ b.req >= cfg.minRequests /\ (b.fail + 1) * cfg.den >= cfg.num * b.req
<1> DEFINE s == [b EXCEPT !.fail = @ + 1, !.cf = @ + 1, !.cs = 0]
<1>1. /\ s \in Breaker /\ s.fail = b.fail + 1 /\ s.cf = b.cf + 1
      /\ Alike(b, s)
  <2>1. b.fail + 1 \in Nat /\ b.cf + 1 \in Nat
    BY DEF Breaker
  <2> QED BY <2>1 DEF Breaker, Alike
<1>2. \/ AfterFailure(b) = s
      \/ (b.state = "half-open" \/ ReadyToTrip(s)) /\ AfterFailure(b) = NewGeneration(s, "open")
  BY DEF AfterFailure
<1> HIDE DEF s
<1>3. Renewed(b, NewGeneration(s, "open"), {"open"})
  BY <1>1, Generation DEF Renewed, States, Alike
<1>4. ReadyToTrip(s) => \/ cfg.consecutive > 0 /\ b.cf + 1 >= cfg.consecutive
                        \/ cfg.minRequests > 0 /\ b.req >= cfg.minRequests /\ (b.fail + 1) * cfg.den >= cfg.num * b.req
  BY <1>1 DEF ReadyToTrip, Alike
<1> QED BY <1>1, <1>2, <1>3, <1>4

-----------------------------------------------------------------------------
CallType == [on : 0 .. cfg.maxBreakers, gen : Nat, key : Keys \cup {NoKey}]

LEMMA EvidenceKept ==
  ASSUME cfg \in Configs, cfg' = cfg, NEW k, failed[k] \in Nat, failed'[k] \in Nat,
         failed[k] <= failed'[k], Evidence(k)
  PROVE  Evidence(k)'
<1>1. {cfg.consecutive, cfg.minRequests, cfg.num, cfg.den} \subseteq Nat
  BY Settings
<1>2. failed[k] * cfg.den <= failed'[k] * cfg.den
  BY <1>1, RatioKept
<1>3. /\ failed[k] * cfg.den \in Nat /\ failed'[k] * cfg.den \in Nat /\ cfg.num * cfg.minRequests \in Nat
  BY <1>1
<1> QED BY <1>1, <1>2, <1>3 DEF Evidence

(* The calls on i of one generation.                                       *)
Running(i, g) == {c \in Callers : call[c].on = i /\ call[c].gen = g}

(* n may take the place of instance i: its counts are of calls on i, its   *)
(* failures and its state are those of its slot, if it is still in one.    *)
Follows(i, n) ==
    /\ n \in Breaker /\ n.key = br[i].key /\ n.gen >= br[i].gen /\ n.cf <= n.fail
    /\ n.state = "half-open" => n.req <= Probes
    /\ n.fail + Cardinality(Running(i, n.gen)) <= n.req
    /\ slots[n.key] = i => n.fail <= failed[n.key] /\ (n.state # "closed" => Evidence(n.key))

LEMMA RunningCount ==
  ASSUME NEW i, NEW g
  PROVE  IsFiniteSet(Running(i, g)) /\ Cardinality(Running(i, g)) \in Nat
<1>1. Running(i, g) \subseteq Callers
  BY DEF Running
<1>2. IsFiniteSet(Callers)
  BY ConfigAssumption DEF Configured
<1> QED BY <1>1, <1>2, FS_Subset, FS_CardinalityType

(* Nobody has been admitted by a generation that is just beginning.        *)
LEMMA NobodyYet ==
  ASSUME BInv, NEW i \in 1 .. made, NEW g \in Nat, g > br[i].gen
  PROVE  Running(i, g) = {} /\ Cardinality(Running(i, g)) = 0
<1>1. br[i].gen \in Nat /\ i # None
  BY DEF BInv, BreakerTypeOK, Breaker, None
<1>2. \A c \in Callers : call[c].on = i => call[c].gen <= br[i].gen /\ call[c].gen \in Nat
  BY <1>1 DEF BInv, CallerOK, BreakerTypeOK
<1>3. Running(i, g) = {}
  BY <1>1, <1>2 DEF Running
<1> QED BY <1>3, FS_EmptySet

LEMMA TimeFollows ==
  ASSUME BInv, NEW i \in 1 .. made
  PROVE  Follows(i, CurrentState(br[i]))
<1> DEFINE n == CurrentState(br[i])
<1>1. /\ br[i] \in Breaker /\ cfg \in Configs /\ InstanceOK(i) /\ SlotOK(br[i].key) /\ br[i].key \in Keys
      /\ failed[br[i].key] \in Nat /\ made \in Nat
  BY DEF BInv, BreakerTypeOK, Breaker
<1>2. Running(i, br[i].gen) = InFlight(i)
  BY DEF Running, InFlight
<1>3. \/ n = br[i]
      \/ br[i].state = "closed" /\ Renewed(br[i], n, {"closed"})
      \/ br[i].state = "open" /\ Renewed(br[i], n, {"half-open"})
  BY <1>1, TimeActs
<1> SUFFICES Follows(i, n)
  OBVIOUS
<1> HIDE DEF n
<1>4. CASE n = br[i]
  BY <1>1, <1>2, <1>4 DEF Follows, InstanceOK, SlotOK, Breaker, None
<1>5. CASE n # br[i]
  <2>1. /\ n \in Breaker /\ n.key = br[i].key /\ n.gen = br[i].gen + 1 /\ n.req = 0 /\ n.fail = 0 /\ n.cf = 0
        /\ n.state # "closed" => br[i].state # "closed"
    BY <1>3, <1>5 DEF Renewed
  <2>2. br[i].gen \in Nat /\ n.gen \in Nat /\ n.gen > br[i].gen
    BY <1>1, <2>1 DEF Breaker
  <2>3. Cardinality(Running(i, n.gen)) = 0
    BY <2>2, NobodyYet
  <2>4. Probes \in Nat
    BY <1>1, Settings
  <2>5. slots[n.key] = i => (n.state # "closed" => Evidence(n.key))
    BY <1>1, <2>1 DEF SlotOK, None
  <2> QED BY <1>1, <2>1, <2>2, <2>3, <2>4, <2>5 DEF Follows
<1> QED BY <1>4, <1>5

(* Calls begin and end on instance i, which becomes n.                     *)
CallsMove(i, n) ==
    /\ call' \in [Callers -> CallType]
    /\ \A c \in Callers :
         \/ call'[c] = call[c]
         \/ /\ call[c].on \in {None, i} /\ call'[c].on \in {None, i}
            /\ call'[c].on = i => call'[c].key = n.key /\ call'[c].gen <= n.gen

LEMMA InstanceMoves ==
  ASSUME BInv, NEW i \in 1 .. made, NEW n \in Breaker, Becomes(i, n),
         UNCHANGED <<cfg, slots, made, hand>>, n.key = br[i].key, n.gen >= br[i].gen,
         CallsMove(i, n),
         failed' \in [Keys -> Nat], \A k \in Keys : failed[k] <= failed'[k],
         slots[n.key] = i => n.fail <= failed'[n.key] /\ (n.state # "closed" => Evidence(n.key)'),
         InstanceOK(i)'
  PROVE  BInv'
<1>1. /\ BreakerTypeOK /\ br \in [1 .. made -> Breaker] /\ cfg \in Configs /\ made \in Nat
      /\ Keys' = Keys /\ Breaker' = Breaker /\ CallType' = CallType /\ Probes' = Probes
      /\ slots \in [Keys -> 0 .. cfg.maxBreakers] /\ failed \in [Keys -> Nat]
  <2>1. Keys' = Keys /\ Probes' = Probes
    BY DEF Keys, Tenants, Probes
  <2>2. Breaker' = Breaker /\ CallType' = CallType
    BY <2>1, Zenon DEF Breaker, CallType
  <2> QED BY <2>1, <2>2 DEF BInv, BreakerTypeOK
<1>2. /\ br' \in [1 .. made -> Breaker] /\ br'[i] = n
      /\ \A j \in 1 .. made : j # i => br'[j] = br[j]
  BY <1>1 DEF Becomes
<1>3. BreakerTypeOK'
  BY <1>1, <1>2 DEF BreakerTypeOK, CallType, CallsMove
<1>4. ASSUME NEW k \in Keys PROVE SlotOK(k)'
  <2>1. SlotOK(k) /\ slots[k] \in Nat /\ failed[k] \in Nat /\ failed'[k] \in Nat /\ failed[k] <= failed'[k]
    BY <1>1, Settings DEF BInv
  <2>2. CASE slots[k] = i
    <3>1. n.key = k
      BY <2>1, <2>2 DEF SlotOK, None
    <3> QED BY <1>2, <2>1, <2>2, <3>1 DEF SlotOK
  <2>3. CASE slots[k] # i /\ slots[k] # None
    <3>1. slots[k] \in 1 .. made /\ br'[slots[k]] = br[slots[k]] /\ br[slots[k]] \in Breaker
      BY <1>1, <1>2, <2>1, <2>3 DEF SlotOK, None
    <3>2. Evidence(k) => Evidence(k)'
      BY <1>1, <2>1, EvidenceKept
    <3>3. br[slots[k]].fail \in Nat
      BY <3>1 DEF Breaker
    <3> QED BY <2>1, <2>3, <3>1, <3>2, <3>3 DEF SlotOK
  <2>4. CASE slots[k] = None
    BY <1>1, <2>4 DEF SlotOK, None
  <2> QED BY <2>2, <2>3, <2>4
<1>5. ASSUME NEW c \in Callers PROVE CallerOK(c)'
  <2>1. CallerOK(c) /\ call[c].on \in Nat /\ call[c].gen \in Nat
    BY <1>1, Settings DEF BInv, BreakerTypeOK
  <2>2. CASE call'[c] = call[c]
    <3>1. CASE call[c].on = i
      <4>1. br[i].gen \in Nat /\ n.gen \in Nat
        BY <1>1 DEF Breaker
      <4> QED BY <1>2, <2>1, <2>2, <3>1, <4>1 DEF CallerOK
    <3>2. CASE call[c].on # i
      BY <1>1, <1>2, <2>1, <2>2, <3>2 DEF CallerOK, None
    <3> QED BY <3>1, <3>2
  <2>3. CASE call'[c] # call[c]
    BY <1>1, <1>2, <2>1, <2>3 DEF CallerOK, None, CallsMove
  <2> QED BY <2>2, <2>3
<1>6. ASSUME NEW j \in 1 .. made, j # i PROVE InstanceOK(j)'
  <2>1. InFlight(j)' = InFlight(j)
    BY <1>2, <1>6 DEF InFlight, None, CallsMove
  <2> QED BY <1>1, <1>2, <1>6, <2>1 DEF BInv, InstanceOK
<1> QED BY <1>1, <1>3, <1>4, <1>5, <1>6 DEF BInv

(* What follows i becomes it: nobody starts or ends a call.                *)
LEMMA FollowsStep ==
  ASSUME BInv, NEW i \in 1 .. made, NEW n, Follows(i, n), Becomes(i, n),
         UNCHANGED <<cfg, slots, made, hand, call, failed>>
  PROVE  BInv'
<1>1. /\ br \in [1 .. made -> Breaker] /\ call \in [Callers -> CallType] /\ failed \in [Keys -> Nat]
      /\ n \in Breaker /\ n.key \in Keys /\ br'[i] = n
  BY DEF BInv, BreakerTypeOK, CallType, Follows, Breaker, Becomes
<1>2. InFlight(i)' = Running(i, n.gen) /\ Probes' = Probes
  BY <1>1 DEF InFlight, Running, Probes
<1>3. InstanceOK(i)'
  BY <1>1, <1>2 DEF InstanceOK, Follows
<1>4. failed[n.key] \in Nat /\ (Evidence(n.key) => Evidence(n.key)')
  BY <1>1 DEF Evidence
<1>5. \A k \in Keys : failed[k] <= failed'[k]
  BY <1>1
<1>6. CallsMove(i, n)
  BY <1>1 DEF CallsMove
<1> QED BY <1>1, <1>3, <1>4, <1>5, <1>6, InstanceMoves DEF Follows

LEMMA StartStep ==
  ASSUME BInv, NEW c \in Callers, NEW i \in 1 .. made, UNCHANGED cfg,
         Start(c, i, br[i].key)
  PROVE  BInv'
<1>0. PICK n : n = CurrentState(br[i])
  OBVIOUS
<1>1. /\ br \in [1 .. made -> Breaker] /\ call \in [Callers -> CallType] /\ failed \in [Keys -> Nat]
      /\ cfg \in Configs /\ Follows(i, n) /\ i \in 0 .. cfg.maxBreakers /\ i # None
      /\ UNCHANGED <<slots, made, hand, failed>> /\ call[c] = IdleCall /\ br[i].key \in Keys
  <2>1. i \in 0 .. cfg.maxBreakers /\ i # None /\ cfg \in Configs /\ br \in [1 .. made -> Breaker]
    <3>1. cfg \in Configs /\ made \in 0 .. cfg.maxBreakers /\ br \in [1 .. made -> Breaker]
      BY DEF BInv, BreakerTypeOK
    <3> QED BY <3>1, Settings DEF None
  <2>2. br[i].key \in Keys
    BY <2>1 DEF Breaker
  <2>3. UNCHANGED <<slots, made, hand, failed>> /\ call[c] = IdleCall
    BY DEF Start
  <2> QED BY <1>0, <2>1, <2>2, <2>3, TimeFollows DEF BInv, BreakerTypeOK, CallType
<1>2. CASE Becomes(i, n) /\ UNCHANGED call
  BY <1>1, <1>2, FollowsStep
<1>3. CASE /\ ~Rejects(n) /\ Becomes(i, [n EXCEPT !.req = @ + 1])
           /\ call' = [call EXCEPT ![c] = [on |-> i, gen |-> n.gen, key |-> br[i].key]]
  <2>0. PICK m : m = [n EXCEPT !.req = n.req + 1]
    OBVIOUS
  <2> DEFINE t == [on |-> i, gen |-> n.gen, key |-> br[i].key]
  <2>1. n \in Breaker /\ n.req \in Nat /\ n.fail \in Nat /\ n.gen \in Nat /\ Probes \in Nat
    BY <1>1, Settings DEF Follows, Breaker
  <2>2. /\ m \in Breaker /\ m.key = n.key /\ m.gen = n.gen /\ m.fail = n.fail /\ m.cf = n.cf /\ m.state = n.state
        /\ m.req = n.req + 1
    BY <2>0, <2>1 DEF Breaker
  <2>3. Becomes(i, m)
    BY <1>3, <2>0, <2>1 DEF Breaker
  <2>4. t \in CallType /\ t.on = i /\ t.gen = n.gen /\ t.key = br[i].key
    BY <1>1, <2>1 DEF CallType
  <2> HIDE DEF t
  <2>5. call' \in [Callers -> CallType] /\ call'[c] = t /\ \A a \in Callers \ {c} : call'[a] = call[a]
    BY <1>1, <1>3, <2>4 DEF t
  <2>6. call[c].on = None
    BY <1>1 DEF IdleCall
  <2>7. br'[i] = m
    BY <1>1, <2>3 DEF Becomes
  <2>8. InFlight(i)' = Running(i, n.gen) \cup {c} /\ c \notin Running(i, n.gen) /\ Probes' = Probes
    BY <1>1, <2>2, <2>4, <2>5, <2>6, <2>7 DEF InFlight, Running, Probes
  <2>9. Cardinality(InFlight(i))' = Cardinality(Running(i, n.gen)) + 1 /\ Cardinality(Running(i, n.gen)) \in Nat
    BY <2>8, RunningCount, FS_AddElement
  <2>10. n.state = "half-open" => n.req < Probes
    BY <1>3, <2>1 DEF Rejects
  <2>11. InstanceOK(i)'
    BY <1>1, <2>1, <2>2, <2>7, <2>8, <2>9, <2>10 DEF InstanceOK, Follows
  <2>12. n.key = br[i].key /\ failed'[n.key] = failed[n.key] /\ (Evidence(n.key) => Evidence(n.key)')
    BY <1>1 DEF Follows, Evidence
  <2>13. CallsMove(i, m) /\ \A k \in Keys : failed[k] <= failed'[k]
    BY <1>1, <2>1, <2>2, <2>4, <2>5, <2>6, <2>12 DEF CallsMove
  <2>14. m.gen >= br[i].gen /\ m.key = br[i].key /\ failed' \in [Keys -> Nat]
    BY <1>1, <2>2 DEF Follows
  <2>15. slots[m.key] = i => m.fail <= failed'[m.key] /\ (m.state # "closed" => Evidence(m.key)')
    BY <1>1, <2>2, <2>12 DEF Follows
  <2>16. UNCHANGED <<cfg, slots, made, hand>>
    BY <1>1
  <2> QED BY <2>2, <2>3, <2>5, <2>11, <2>13, <2>14, <2>15, <2>16, InstanceMoves
<1> QED BY <1>0, <1>2, <1>3 DEF Start

LEMMA GetStateStep ==
  ASSUME BInv, NEW k \in Keys, UNCHANGED cfg, GetState(k)
  PROVE  BInv'
<1>1. slots[k] \in 1 .. made
  BY Settings DEF BInv, BreakerTypeOK, SlotOK, GetState, None
<1> QED BY <1>1, TimeFollows, FollowsStep DEF GetState

(* The clock of an instance runs out: nothing else changes yet.            *)
LEMMA ElapseStep ==
  ASSUME BInv, NEW i \in Instances, UNCHANGED cfg, Elapse(i)
  PROVE  BInv'
<1> DEFINE n == [br[i] EXCEPT !.due = TRUE]
<1>1. i \in 1 .. made /\ br \in [1 .. made -> Breaker] /\ cfg \in Configs /\ failed \in [Keys -> Nat]
  BY Settings DEF BInv, BreakerTypeOK, Elapse, Instances
<1>2. br[i] \in Breaker
  BY <1>1
<1>3. /\ n \in Breaker /\ n.key = br[i].key /\ n.gen = br[i].gen /\ n.req = br[i].req /\ n.fail = br[i].fail
      /\ n.cf = br[i].cf /\ n.state = br[i].state
  BY <1>2 DEF Breaker
<1>4. Becomes(i, n) /\ UNCHANGED <<slots, made, hand, call, failed>>
  BY <1>1 DEF Becomes, Elapse
<1> HIDE DEF n
<1>5. Follows(i, n)
  <2>1. Running(i, n.gen) = InFlight(i)
    BY <1>3 DEF Running, InFlight
  <2>2. InstanceOK(i) /\ br[i].key \in Keys /\ SlotOK(br[i].key) /\ br[i].gen \in Nat /\ i # None
    BY <1>1, <1>2 DEF BInv, Breaker, None
  <2> QED BY <1>3, <2>1, <2>2 DEF Follows, InstanceOK, SlotOK
<1> QED BY <1>1, <1>4, <1>5, FollowsStep

(* A call ends: its result counts for the generation that admitted it.     *)
LEMMA FinishStep ==
  ASSUME BInv, NEW c \in Callers, NEW ok \in BOOLEAN, UNCHANGED cfg, Finish(c, ok)
  PROVE  BInv'
<1>0. PICK i, p, n :
        /\ i = call[c].on /\ p = CurrentState(br[i])
        /\ n = IF ~Counted(p, call[c].gen) THEN p ELSE IF ok THEN AfterSuccess(p) ELSE AfterFailure(p)
  OBVIOUS
<1>1. /\ Becomes(i, n) /\ call' = [call EXCEPT ![c] = IdleCall] /\ i # None
      /\ failed' = IF i = slots[call[c].key] /\ ~ok THEN [failed EXCEPT ![call[c].key] = @ + 1] ELSE failed
      /\ UNCHANGED <<cfg, slots, made, hand>>
  BY <1>0 DEF Finish
<1>2. /\ br \in [1 .. made -> Breaker] /\ call \in [Callers -> CallType] /\ failed \in [Keys -> Nat]
      /\ cfg \in Configs /\ made \in Nat /\ call[c].on <= made /\ call[c].on \in Nat /\ call[c].gen \in Nat
      /\ call[c].key = br[i].key
  <2>1. cfg \in Configs /\ made \in 0 .. cfg.maxBreakers /\ CallerOK(c)
    BY DEF BInv, BreakerTypeOK
  <2> QED BY <1>0, <1>1, <2>1, Settings DEF BInv, BreakerTypeOK, CallType, CallerOK
<1>3. i \in 1 .. made /\ br[i] \in Breaker /\ br[i].key \in Keys
  BY <1>0, <1>1, <1>2 DEF None, Breaker
<1>4. /\ Follows(i, p) /\ p \in Breaker /\ p.key = br[i].key /\ p.req \in Nat /\ p.fail \in Nat /\ p.cf \in Nat
      /\ p.gen \in Nat /\ br[i].gen \in Nat /\ Probes \in Nat
  BY <1>0, <1>2, <1>3, TimeFollows, Settings DEF Follows, Breaker
<1>5. /\ failed' \in [Keys -> Nat] /\ \A k \in Keys : failed[k] <= failed'[k]
      /\ slots[p.key] = i /\ ~ok => failed'[p.key] = failed[p.key] + 1
  <2>1. p.key \in Keys /\ p.key = call[c].key
    BY <1>2, <1>3, <1>4
  <2>2. CASE slots[p.key] = i /\ ~ok
    <3>1. failed' = [failed EXCEPT ![p.key] = @ + 1]
      BY <1>1, <2>1, <2>2, Zenon
    <3>2. /\ failed' \in [Keys -> Nat] /\ \A k \in Keys : failed[k] <= failed'[k]
          /\ failed'[p.key] = failed[p.key] + 1
      <4>1. failed' \in [Keys -> Nat]
        BY <1>2, <2>1, <3>1
      <4>2. ASSUME NEW k \in Keys PROVE failed'[k] = IF k = p.key THEN failed[k] + 1 ELSE failed[k]
        BY <1>2, <2>1, <3>1
      <4>3. \A k \in Keys : failed[k] \in Nat
        BY <1>2
      <4> QED BY <2>1, <4>1, <4>2, <4>3
    <3> QED BY <3>2, Zenon
  <2>3. CASE ~(slots[p.key] = i /\ ~ok)
    <3>1. failed' = failed
      BY <1>1, <2>1, <2>3, Zenon
    <3> QED BY <1>2, <2>3, <3>1
  <2> QED BY <2>2, <2>3
<1>6. slots[p.key] = i => /\ p.fail <= failed[p.key] /\ (p.state # "closed" => Evidence(p.key)')
                          /\ failed[p.key] \in Nat /\ failed'[p.key] \in Nat /\ failed[p.key] <= failed'[p.key]
  <2>1. p.key \in Keys
    BY <1>3, <1>4
  <2>2. failed[p.key] \in Nat /\ failed'[p.key] \in Nat /\ failed[p.key] <= failed'[p.key]
    BY <1>2, <1>5, <2>1
  <2>3. Evidence(p.key) => Evidence(p.key)'
    BY <1>1, <1>2, <2>2, EvidenceKept
  <2> QED BY <1>4, <2>2, <2>3 DEF Follows
<1>7. /\ call' \in [Callers -> CallType] /\ call'[c] = IdleCall /\ IdleCall.on = None
      /\ \A a \in Callers \ {c} : call'[a] = call[a]
  <2>1. IdleCall \in CallType /\ IdleCall.on = None
    BY <1>2, Settings DEF IdleCall, CallType, None
  <2> QED BY <1>1, <1>2, <2>1
<1>8. br'[i] = n /\ InFlight(i)' = Running(i, n.gen) \ {c} /\ Probes' = Probes
  <2>1. br'[i] = n
    BY <1>1, <1>2, <1>3 DEF Becomes
  <2> QED BY <1>1, <1>7, <2>1 DEF InFlight, Running, Probes
<1>9. /\ n \in Breaker /\ n.key = p.key /\ n.gen >= p.gen
      /\ InstanceOK(i)'
      /\ slots[n.key] = i => n.fail <= failed'[n.key] /\ (n.state # "closed" => Evidence(n.key)')
  <2>1. CASE n = p /\ c \notin Running(i, p.gen)
    <3>1. InFlight(i)' = Running(i, p.gen)
      BY <1>8, <2>1
    <3>2. InstanceOK(i)'
      BY <1>4, <1>8, <2>1, <3>1 DEF InstanceOK, Follows
    <3> QED BY <1>4, <1>6, <2>1, <3>2
  <2>2. CASE /\ n \in Breaker /\ Alike(p, n) /\ n.cf <= n.fail /\ c \in Running(i, p.gen)
             /\ n.fail = p.fail \/ (n.fail = p.fail + 1 /\ ~ok)
    <3>1. n.key = p.key /\ n.state = p.state /\ n.gen = p.gen /\ n.req = p.req /\ n.fail \in Nat
      BY <2>2 DEF Alike, Breaker
    <3>2. /\ Cardinality(InFlight(i))' = Cardinality(Running(i, p.gen)) - 1
          /\ Cardinality(Running(i, p.gen)) \in Nat
      <4> DEFINE R == Running(i, p.gen)
      <4>1. IsFiniteSet(R) /\ Cardinality(R) \in Nat
        BY RunningCount
      <4>2. InFlight(i)' = R \ {c} /\ c \in R
        BY <1>8, <2>2, <3>1
      <4> HIDE DEF R
      <4>3. Cardinality(R \ {c}) = Cardinality(R) - 1
        BY <4>1, <4>2, FS_RemoveElement
      <4> QED BY <4>1, <4>2, <4>3 DEF R
    <3>3. InstanceOK(i)'
      BY <1>4, <1>8, <2>2, <3>1, <3>2 DEF InstanceOK, Follows
    <3> QED BY <1>4, <1>5, <1>6, <2>2, <3>1, <3>3
  <2>3. CASE /\ \E states : Renewed(p, n, states)
             /\ n.state # "half-open"
             /\ slots[p.key] = i /\ n.state # "closed" => Evidence(p.key)'
    <3>1. n \in Breaker /\ n.key = p.key /\ n.gen = p.gen + 1 /\ n.req = 0 /\ n.fail = 0 /\ n.cf = 0
      BY <2>3 DEF Renewed
    <3>2. n.gen \in Nat /\ n.gen > br[i].gen
      BY <1>4, <3>1 DEF Follows
    <3>3. Running(i, n.gen) = {}
      BY <1>3, <3>2, NobodyYet
    <3>4. InFlight(i)' = {} /\ Cardinality(InFlight(i))' = 0
      BY <1>8, <3>3, FS_EmptySet
    <3>5. InstanceOK(i)'
      BY <1>8, <2>3, <3>1, <3>4 DEF InstanceOK
    <3> QED BY <1>4, <1>6, <2>3, <3>1, <3>5
  <2>4. CASE ~Counted(p, call[c].gen)
    BY <1>0, <2>1, <2>4 DEF Counted, Running
  <2>5. ASSUME Counted(p, call[c].gen) PROVE c \in Running(i, p.gen)
    BY <1>0, <2>5 DEF Counted, Running
  <2>6. CASE Counted(p, call[c].gen) /\ ok
    <3>1. n = AfterSuccess(p)
      BY <1>0, <2>6
    <3>2. \/ n \in Breaker /\ n.cf = 0 /\ n.fail = p.fail /\ Alike(p, n)
          \/ Renewed(p, n, {"closed"})
      BY <1>4, <3>1, Succeeds
    <3>3. CASE n \in Breaker /\ n.cf = 0 /\ n.fail = p.fail /\ Alike(p, n)
      BY <1>4, <2>2, <2>5, <2>6, <3>3
    <3>4. CASE Renewed(p, n, {"closed"})
      BY <2>3, <3>4 DEF Renewed
    <3> QED BY <3>2, <3>3, <3>4
  <2>7. CASE Counted(p, call[c].gen) /\ ~ok
    <3>1. n = AfterFailure(p)
      BY <1>0, <2>7
    <3>2. CASE n \in Breaker /\ n.fail = p.fail + 1 /\ n.cf = p.cf + 1 /\ Alike(p, n)
      <4>1. p.cf <= p.fail
        BY <1>4 DEF Follows
      <4> QED BY <1>4, <2>2, <2>5, <2>7, <3>2, <4>1
    <3>3. CASE /\ Renewed(p, n, {"open"})
               /\ \/ p.state = "half-open"
                  \/ cfg.consecutive > 0 /\ p.cf + 1 >= cfg.consecutive
                  \/ cfg.minRequests > 0 /\ p.req >= cfg.minRequests /\ (p.fail + 1) * cfg.den >= cfg.num * p.req
      <4>1. ASSUME slots[p.key] = i PROVE Evidence(p.key)'
        <5>1. {cfg.consecutive, cfg.minRequests, cfg.num, cfg.den} \subseteq Nat
          BY <1>2, Settings
        <5>2. p.cf + 1 \in Nat /\ p.fail + 1 \in Nat /\ p.cf + 1 <= p.fail + 1 /\ p.fail + 1 <= failed'[p.key]
          BY <1>4, <1>5, <1>6, <2>7, <4>1 DEF Follows
        <5>3. failed'[p.key] \in Nat
          BY <1>6, <4>1
        <5>4. CASE p.state = "half-open"
          BY <1>6, <4>1, <5>4
        <5>5. CASE cfg.consecutive > 0 /\ p.cf + 1 >= cfg.consecutive
          BY <1>1, <5>1, <5>2, <5>3, <5>5 DEF Evidence
        <5>6. CASE cfg.minRequests > 0 /\ p.req >= cfg.minRequests /\ (p.fail + 1) * cfg.den >= cfg.num * p.req
          <6>1. (p.fail + 1) * cfg.den <= failed'[p.key] * cfg.den
            BY <5>1, <5>2, <5>3, RatioKept
          <6>2. cfg.num * cfg.minRequests <= cfg.num * p.req
            BY <1>4, <5>1, <5>6, RatioKept
          <6>3. /\ (p.fail + 1) * cfg.den \in Nat /\ failed'[p.key] * cfg.den \in Nat
                /\ cfg.num * cfg.minRequests \in Nat /\ cfg.num * p.req \in Nat
            BY <1>4, <5>1, <5>2, <5>3
          <6> QED BY <1>1, <5>6, <6>1, <6>2, <6>3 DEF Evidence
        <5> QED BY <3>3, <5>4, <5>5, <5>6
      <4>2. n.state = "open"
        BY <3>3 DEF Renewed
      <4> QED BY <2>3, <3>3, <4>1, <4>2
    <3> QED BY <1>4, <3>1, <3>2, <3>3, FailureCounts
  <2> QED BY <2>4, <2>6, <2>7
<1>10. CallsMove(i, n)
  <2>1. call'[c].on = None /\ i # None /\ call[c].on = i
    BY <1>0, <1>1, <1>7
  <2> QED BY <1>7, <2>1 DEF CallsMove
<1>11. n.key = br[i].key /\ n.gen >= br[i].gen
  BY <1>4, <1>9 DEF Follows, Breaker
<1> QED BY <1>1, <1>3, <1>5, <1>9, <1>10, <1>11, InstanceMoves

-----------------------------------------------------------------------------
(* As many new instances are made as slots are filled, one for each.       *)
LEMMA OneEach ==
  ASSUME NEW ks, IsFiniteSet(ks), NEW m \in Nat, NEW f \in [ks -> m + 1 .. m + Cardinality(ks)],
         \A k, l \in ks : f[k] = f[l] => k = l
  PROVE  \A i \in m + 1 .. m + Cardinality(ks) : \E k \in ks : f[k] = i
<1> DEFINE T == m + 1 .. m + Cardinality(ks)
<1>1. Cardinality(ks) \in Nat
  BY FS_CardinalityType
<1>2. IsFiniteSet(T) /\ Cardinality(T) = Cardinality(ks)
  <2>1. PICK n \in Nat : n = Cardinality(ks)
    BY <1>1
  <2>2. /\ IsFiniteSet(m + 1 .. m + n)
        /\ Cardinality(m + 1 .. m + n) = IF m + 1 > m + n THEN 0 ELSE (m + n) - (m + 1) + 1
    <3>1. m + 1 \in Int /\ m + n \in Int
      OBVIOUS
    <3> QED BY <3>1, FS_Interval, Zenon
  <2>3. Cardinality(m + 1 .. m + n) = n
    BY <2>2
  <2> QED BY <2>1, <2>2, <2>3
<1>3. f \in Injection(ks, T)
  BY DEF Injection, IsInjective
<1>4. f \in Surjection(ks, T)
  BY <1>2, <1>3, FS_Injection
<1> QED BY <1>4 DEF Surjection

(* Slots are filled with fresh instances; the ones they held stay with the *)
(* calls and the handles that have them.                                   *)
LEMMA InstallStep ==
  ASSUME BInv, NEW ks, ks \subseteq Keys, IsFiniteSet(ks),
         made + Cardinality(ks) <= cfg.maxBreakers, Install(ks), UNCHANGED <<cfg, call>>,
         hand' \in [Callers -> 0 .. made']
  PROVE  BInv'
<1>0. PICK m : m = made + Cardinality(ks)
  OBVIOUS
<1> DEFINE New == made + 1 .. m
<1>1. /\ br \in [1 .. made -> Breaker] /\ call \in [Callers -> CallType] /\ failed \in [Keys -> Nat]
      /\ cfg \in Configs /\ slots \in [Keys -> 0 .. cfg.maxBreakers]
      /\ made \in Nat /\ cfg.maxBreakers \in Nat /\ made' = m /\ m \in Nat /\ made <= m /\ m <= cfg.maxBreakers
  <2>1. /\ br \in [1 .. made -> Breaker] /\ call \in [Callers -> CallType] /\ failed \in [Keys -> Nat]
        /\ cfg \in Configs /\ slots \in [Keys -> 0 .. cfg.maxBreakers] /\ made \in 0 .. cfg.maxBreakers
    BY DEF BInv, BreakerTypeOK, CallType
  <2>2. Cardinality(ks) \in Nat /\ Cardinality(ks) = Cardinality(ks)
    BY FS_CardinalityType
  <2> QED BY <1>0, <2>1, <2>2, Settings DEF Install
<1>00. made + Cardinality(ks) = m
  BY <1>0
<1>01. PICK f \in [ks -> Instances] :
         /\ \A k \in ks : f[k] \in made + 1 .. made + Cardinality(ks)
         /\ \A k, l \in ks : f[k] = f[l] => k = l
         /\ slots' = [k \in Keys |-> IF k \in ks THEN f[k] ELSE slots[k]]
         /\ br' = [i \in 1 .. made + Cardinality(ks) |->
                     IF i <= made THEN br[i] ELSE Fresh(CHOOSE k \in ks : f[k] = i)]
  BY Zenon DEF Install
<1>2. /\ f \in [ks -> New]
      /\ \A k, l \in ks : f[k] = f[l] => k = l
      /\ slots' = [k \in Keys |-> IF k \in ks THEN f[k] ELSE slots[k]]
      /\ br' = [i \in 1 .. m |-> IF i <= made THEN br[i] ELSE Fresh(CHOOSE k \in ks : f[k] = i)]
  <2>1. 1 .. made + Cardinality(ks) = 1 .. m
    BY <1>00
  <2>2. f \in [ks -> New]
    BY <1>00, <1>01
  <2> QED BY <1>01, <2>1, <2>2, Zenon
<1>3. failed' = [k \in Keys |-> IF k \in ks THEN 0 ELSE failed[k]]
  BY DEF Install
<1>4. \A i \in New : \E k \in ks : f[k] = i
  <2>1. New = made + 1 .. made + Cardinality(ks)
    BY <1>0
  <2> HIDE DEF New
  <2>2. /\ f \in [ks -> made + 1 .. made + Cardinality(ks)] /\ made \in Nat
        /\ \A k, l \in ks : f[k] = f[l] => k = l
    BY <1>1, <1>2, <2>1, Zenon
  <2>3. \A i \in made + 1 .. made + Cardinality(ks) : \E k \in ks : f[k] = i
    BY <2>2, OneEach, Zenon
  <2> QED BY <2>1, <2>3, Zenon
<1>5. /\ \A i \in 1 .. made : br'[i] = br[i]
      /\ \A k \in ks : f[k] \in 1 .. m /\ f[k] > made /\ br'[f[k]] = Fresh(k)
  <2>1. \A i \in 1 .. made : br'[i] = br[i]
    BY <1>1, <1>2
  <2>2. ASSUME NEW k \in ks PROVE f[k] \in 1 .. m /\ f[k] > made /\ br'[f[k]] = Fresh(k)
    <3>1. f[k] \in 1 .. m /\ f[k] > made /\ ~(f[k] <= made)
      BY <1>1, <1>2
    <3>2. (CHOOSE l \in ks : f[l] = f[k]) = k
      BY <1>2
    <3> QED BY <1>2, <3>1, <3>2
  <2> QED BY <2>1, <2>2
<1>6. ASSUME NEW k \in ks
      PROVE  /\ Fresh(k) \in Breaker /\ Fresh(k).key = k /\ Fresh(k).state = "closed"
             /\ Fresh(k).req = 0 /\ Fresh(k).fail = 0 /\ Fresh(k).cf = 0
  BY DEF Fresh, Breaker, States
<1>7. br' \in [1 .. m -> Breaker]
  <2>1. ASSUME NEW i \in 1 .. m PROVE br'[i] \in Breaker
    <3>1. CASE i <= made
      BY <1>1, <1>5, <3>1
    <3>2. CASE ~(i <= made)
      <4>0. i \in New
        BY <1>1, <3>2
      <4>1. PICK k \in ks : f[k] = i
        BY <1>4, <4>0, Zenon
      <4> QED BY <1>5, <1>6, <4>1
    <3> QED BY <3>1, <3>2
  <2> QED BY <1>2, <2>1
<1>8. /\ Keys' = Keys /\ Breaker' = Breaker /\ Probes' = Probes
  <2>1. Keys' = Keys /\ Probes' = Probes
    BY DEF Keys, Tenants, Probes
  <2> QED BY <2>1, Zenon DEF Breaker
<1>9. BreakerTypeOK'
  <2>1. slots' \in [Keys -> 0 .. cfg.maxBreakers]
    BY <1>1, <1>2
  <2>2. failed' \in [Keys -> Nat]
    BY <1>1, <1>3
  <2>3. hand' \in [Callers -> 0 .. cfg.maxBreakers] /\ made' \in 0 .. cfg.maxBreakers
    BY <1>1
  <2> QED BY <1>1, <1>7, <1>8, <2>1, <2>2, <2>3 DEF BreakerTypeOK, CallType
<1>10. ASSUME NEW k \in Keys PROVE SlotOK(k)'
  <2>1. CASE k \in ks
    <3>1. slots'[k] = f[k] /\ failed'[k] = 0
      BY <1>2, <1>3, <2>1
    <3> QED BY <1>1, <1>5, <1>6, <2>1, <3>1 DEF SlotOK
  <2>2. CASE k \notin ks
    <3>1. slots'[k] = slots[k] /\ failed'[k] = failed[k] /\ SlotOK(k) /\ slots[k] \in Nat
      BY <1>1, <1>2, <1>3, <2>2 DEF BInv
    <3>2. slots[k] # None => br'[slots[k]] = br[slots[k]]
      BY <1>1, <1>5, <3>1 DEF SlotOK, None
    <3> QED BY <1>1, <3>1, <3>2 DEF SlotOK, Evidence
  <2> QED BY <2>1, <2>2
<1>11. ASSUME NEW c \in Callers PROVE CallerOK(c)'
  <2>1. CallerOK(c) /\ call[c].on \in Nat /\ hand'[c] \in 0 .. m
    BY <1>1 DEF BInv, CallType
  <2>2. call[c].on # None => br'[call[c].on] = br[call[c].on]
    BY <1>1, <1>5, <2>1 DEF CallerOK, None
  <2> QED BY <1>1, <2>1, <2>2 DEF CallerOK
<1>12. ASSUME NEW i \in 1 .. m PROVE InstanceOK(i)'
  <2>1. CASE i <= made
    <3>1. InstanceOK(i) /\ br'[i] = br[i] /\ InFlight(i)' = InFlight(i)
      BY <1>1, <1>5, <2>1 DEF BInv, InFlight
    <3> QED BY <1>8, <3>1 DEF InstanceOK
  <2>2. CASE ~(i <= made)
    <3>0. i \in New
      BY <1>1, <2>2
    <3>1. PICK k \in ks : f[k] = i
      BY <1>4, <3>0, Zenon
    <3>2. InFlight(i)' = {}
      <4>1. \A c \in Callers : call[c].on <= made /\ call[c].on \in Nat
        BY <1>1 DEF BInv, CallerOK, CallType
      <4> QED BY <1>1, <2>2, <4>1 DEF InFlight
    <3>3. Cardinality(InFlight(i))' = 0
      BY <3>2, FS_EmptySet
    <3> QED BY <1>5, <1>6, <3>1, <3>3 DEF InstanceOK
  <2> QED BY <2>1, <2>2
<1> QED BY <1>1, <1>8, <1>9, <1>10, <1>11, <1>12 DEF BInv

LEMMA GetOrCreateStep ==
  ASSUME BInv, NEW c \in Callers, NEW t \in Tenants \cup {NoTenant}, NEW s \in Services,
         UNCHANGED cfg, GetOrCreate(c, t, s)
  PROVE  BInv'
<1>0. PICK k : k = <<t, s>>
  OBVIOUS
<1>1. /\ k \in Keys /\ cfg \in Configs /\ made \in 0 .. cfg.maxBreakers /\ cfg.maxBreakers \in Nat
      /\ slots \in [Keys -> 0 .. cfg.maxBreakers] /\ slots[k] <= made
      /\ hand \in [Callers -> 0 .. cfg.maxBreakers] /\ \A a \in Callers : hand[a] <= made
  BY <1>0, Settings DEF BInv, BreakerTypeOK, Keys, SlotOK, CallerOK
<1>2. hand' = [hand EXCEPT ![c] = slots'[k]] /\ UNCHANGED call
  BY <1>0 DEF GetOrCreate, Key
<1>3. CASE UNCHANGED <<slots, br, made, failed>>
  <2>1. hand' \in [Callers -> 0 .. cfg.maxBreakers] /\ \A a \in Callers : hand'[a] <= made
    BY <1>1, <1>2, <1>3
  <2>2. Keys' = Keys /\ Probes' = Probes
    BY DEF Keys, Tenants, Probes
  <2>3. Breaker' = Breaker
    BY <2>2, Zenon DEF Breaker
  <2>4. BreakerTypeOK'
    BY <1>2, <1>3, <2>1, <2>2, <2>3 DEF BInv, BreakerTypeOK
  <2>5. \A l \in Keys : SlotOK(l)'
    BY <1>3 DEF BInv, SlotOK, Evidence
  <2>6. \A a \in Callers : CallerOK(a)'
    BY <1>2, <1>3, <2>1 DEF BInv, CallerOK
  <2>7. ASSUME NEW i \in 1 .. made PROVE InstanceOK(i)'
    <3>1. InFlight(i)' = InFlight(i)
      BY <1>2, <1>3 DEF InFlight
    <3> QED BY <1>3, <2>2, <3>1 DEF BInv, InstanceOK
  <2> QED BY <1>3, <2>2, <2>4, <2>5, <2>6, <2>7 DEF BInv
<1>4. CASE made < cfg.maxBreakers /\ Install({k})
  <2>1. IsFiniteSet({k}) /\ Cardinality({k}) = 1 /\ Cardinality({k}) = 1
    BY FS_Singleton
  <2>2. made' = made + 1 /\ slots'[k] \in 0 .. made'
    BY <1>1, <1>4, <2>1 DEF Install
  <2>3. hand' \in [Callers -> 0 .. made']
    BY <1>1, <1>2, <2>2
  <2> QED BY <1>1, <1>2, <1>4, <2>1, <2>3, InstallStep
<1> QED BY <1>0, <1>3, <1>4 DEF GetOrCreate, Key

LEMMA ResetStep ==
  ASSUME BInv, NEW ks, ks \subseteq Keys, IsFiniteSet(ks), UNCHANGED cfg, ResetSlots(ks)
  PROVE  BInv'
<1>1. Cardinality(ks) = Cardinality(ks) /\ Cardinality(ks) \in Nat
  BY FS_CardinalityType
<1>2. /\ made + Cardinality(ks) <= cfg.maxBreakers /\ Install(ks) /\ UNCHANGED <<hand, call>>
      /\ made' = made + Cardinality(ks)
  BY <1>1 DEF ResetSlots, Install
<1>3. hand' \in [Callers -> 0 .. made']
  <2>1. /\ cfg \in Configs /\ made \in 0 .. cfg.maxBreakers /\ hand \in [Callers -> 0 .. cfg.maxBreakers]
        /\ \A a \in Callers : hand[a] <= made
    BY DEF BInv, BreakerTypeOK, CallerOK
  <2> QED BY <1>1, <1>2, <2>1, Settings
<1> QED BY <1>2, <1>3, InstallStep

LEMMA RemoveTenantStep ==
  ASSUME BInv, NEW t, UNCHANGED cfg, RemoveTenant(t)
  PROVE  BInv'
<1>1. /\ cfg \in Configs /\ made \in Nat /\ cfg.maxBreakers \in Nat /\ slots \in [Keys -> 0 .. cfg.maxBreakers]
      /\ UNCHANGED <<cfg, br, made, hand, call, failed>>
      /\ slots' = [k \in Keys |-> IF TenantOf(k) = t THEN None ELSE slots[k]]
  BY Settings DEF BInv, BreakerTypeOK, RemoveTenant
<1>2. slots' \in [Keys -> 0 .. cfg.maxBreakers] /\ \A k \in Keys : slots'[k] \in {slots[k], None}
  BY <1>1 DEF None
<1>3. Keys' = Keys /\ Probes' = Probes
  BY DEF Keys, Tenants, Probes
<1>4. Breaker' = Breaker
  BY <1>3, Zenon DEF Breaker
<1>5. BreakerTypeOK'
  BY <1>1, <1>2, <1>3, <1>4 DEF BInv, BreakerTypeOK
<1>6. ASSUME NEW k \in Keys PROVE SlotOK(k)'
  BY <1>1, <1>2 DEF BInv, SlotOK, Evidence, None
<1>7. \A c \in Callers : CallerOK(c)'
  BY <1>1 DEF BInv, CallerOK
<1>8. ASSUME NEW i \in 1 .. made PROVE InstanceOK(i)'
  <2>1. InFlight(i)' = InFlight(i)
    BY <1>1 DEF InFlight
  <2> QED BY <1>1, <1>3, <2>1 DEF BInv, InstanceOK
<1> QED BY <1>1, <1>3, <1>5, <1>6, <1>7, <1>8 DEF BInv

LEMMA BreakerStep ==
  ASSUME BInv, [BreakerNext]_breakerVars
  PROVE  BInv'
<1>1. CASE UNCHANGED breakerVars
  <2>1. UNCHANGED <<cfg, slots, br, made, hand, call, failed>>
    BY <1>1 DEF breakerVars
  <2>2. Keys' = Keys /\ Probes' = Probes
    BY <2>1 DEF Keys, Tenants, Probes
  <2>3. Breaker' = Breaker
    BY <2>2, Zenon DEF Breaker
  <2>4. BreakerTypeOK'
    BY <2>1, <2>2, <2>3 DEF BInv, BreakerTypeOK
  <2>5. \A i : InFlight(i)' = InFlight(i)
    BY <2>1 DEF InFlight
  <2> QED BY <2>1, <2>2, <2>4, <2>5 DEF BInv, SlotOK, Evidence, CallerOK, InstanceOK
<1>2. CASE BreakerNext
  <2>0. UNCHANGED cfg
    BY <1>2 DEF BreakerNext
  <2>1. ASSUME NEW c \in Callers, NEW t \in Tenants \cup {NoTenant}, NEW s \in Services,
               GetOrCreate(c, t, s)
        PROVE  BInv'
    BY <2>0, <2>1, GetOrCreateStep
  <2>2. ASSUME NEW c \in Callers, NEW t \in Tenants \cup {NoTenant}, NEW s \in Services,
               Execute(c, t, s)
        PROVE  BInv'
    <3>0. PICK k \in Keys : k = <<t, s>>
      BY DEF Keys
    <3>1. slots[k] # None /\ Start(c, slots[k], k)
      BY <2>2, <3>0 DEF Execute, Start, Key
    <3>2. slots[k] \in 1 .. made /\ br[slots[k]].key = k
      <4>1. SlotOK(k) /\ cfg \in Configs /\ slots[k] \in 0 .. cfg.maxBreakers /\ made \in 0 .. cfg.maxBreakers
        BY DEF BInv, BreakerTypeOK
      <4> QED BY <3>1, <4>1, Settings DEF SlotOK, None
    <3> QED BY <2>0, <3>1, <3>2, StartStep
  <2>3. ASSUME NEW c \in Callers, ExecuteHandle(c) PROVE BInv'
    <3>1. hand[c] \in 1 .. made
      BY <2>3, Settings DEF ExecuteHandle, BInv, BreakerTypeOK, CallerOK, None
    <3> QED BY <2>0, <2>3, <3>1, StartStep DEF ExecuteHandle
  <2>4. ASSUME NEW c \in Callers, NEW ok \in BOOLEAN, Finish(c, ok) PROVE BInv'
    BY <2>0, <2>4, FinishStep
  <2>5. ASSUME NEW t \in Tenants \cup {NoTenant}, NEW s \in Services, Reset(t, s) PROVE BInv'
    <3> DEFINE ks == {k \in {Key(t, s)} : slots[k] # None}
    <3>1. Key(t, s) \in Keys /\ ks \subseteq {Key(t, s)}
      BY DEF Key, Keys
    <3>2. ks \subseteq Keys /\ IsFiniteSet(ks)
      BY <3>1, FS_Singleton, FS_Subset
    <3>3. ResetSlots(ks)
      BY <2>5 DEF Reset
    <3> HIDE DEF ks
    <3> QED BY <2>0, <3>2, <3>3, ResetStep
  <2>6. ASSUME NEW t \in Tenants \cup {NoTenant}, NEW s \in Services, GetState(Key(t, s)) PROVE BInv'
    <3>1. Key(t, s) \in Keys
      BY DEF Key, Keys
    <3> QED BY <2>0, <2>6, <3>1, GetStateStep
  <2>7. ASSUME NEW t \in Tenants, ResetTenant(t) PROVE BInv'
    <3> DEFINE ks == {k \in Keys : TenantOf(k) = t /\ slots[k] # None}
    <3>1. ks \subseteq {t} \X Services /\ ks \subseteq Keys
      BY DEF TenantOf, Keys
    <3>2. IsFiniteSet({t} \X Services)
      BY FS_Singleton, FS_Product, ConfigAssumption DEF Configured
    <3>3. IsFiniteSet(ks)
      BY <3>1, <3>2, FS_Subset
    <3>4. ResetSlots(ks)
      BY <2>7 DEF ResetTenant
    <3> HIDE DEF ks
    <3> QED BY <2>0, <3>1, <3>3, <3>4, ResetStep
  <2>8. ASSUME NEW t \in Tenants, RemoveTenant(t) PROVE BInv'
    BY <2>0, <2>8, RemoveTenantStep
  <2>9. ASSUME NEW i \in Instances, Elapse(i) PROVE BInv'
    BY <2>0, <2>9, ElapseStep
  <2> QED BY <1>2, <2>1, <2>2, <2>3, <2>4, <2>5, <2>6, <2>7, <2>8, <2>9 DEF BreakerNext
<1> QED BY <1>1, <1>2

LEMMA BreakerInitInv == ASSUME BreakerInit PROVE BInv
<1>1. cfg \in Configs /\ cfg.maxBreakers \in Nat /\ made = 0 /\ br = << >>
  BY Settings DEF BreakerInit
<1>2. 1 .. made = {} /\ br \in [1 .. made -> Breaker]
  BY <1>1
<1>3. IdleCall \in CallType /\ IdleCall.on = 0
  BY <1>1 DEF IdleCall, CallType, None
<1>4. BreakerTypeOK
  BY <1>1, <1>2, <1>3 DEF BreakerInit, BreakerTypeOK, CallType, None
<1>5. \A k \in Keys : SlotOK(k)
  BY <1>1 DEF BreakerInit, SlotOK, None
<1>6. \A c \in Callers : CallerOK(c)
  BY <1>1, <1>3 DEF BreakerInit, CallerOK, None
<1> QED BY <1>2, <1>4, <1>5, <1>6 DEF BInv

(* The breaker of a (tenant, service) pair leaves closed only on the       *)
(* evidence its configuration asks for, made of that pair's own failures   *)
(* since its slot was filled; what a generation counts was admitted by it, *)
(* and a half-open breaker admits no more calls than MaxRequests, whatever *)
(* resets, removals and late results interleave with the calls             *)
(* (manager.Execute, Reset, RemoveTenant and the gobreaker they drive).    *)
THEOREM BreakerSoundHolds == BreakerSpec => []BreakerSound
<1>1. BreakerInit => BInv
  BY BreakerInitInv
<1>2. BInv /\ [BreakerNext]_breakerVars => BInv'
  BY BreakerStep
<1>3. BInv => BreakerSound
  <2> SUFFICES ASSUME BInv PROVE BreakerSound
    OBVIOUS
  <2>1. TripsOnOwnEvidence
    BY DEF BInv, SlotOK, Evidence, TripsOnOwnEvidence
  <2>2. ASSUME NEW i \in 1 .. made
        PROVE  /\ br[i].fail + Cardinality(InFlight(i)) <= br[i].req
               /\ br[i].state = "half-open" => Cardinality(InFlight(i)) <= Probes
    <3>1. Cardinality(InFlight(i)) \in Nat
      BY InFlightCount
    <3>2. InstanceOK(i) /\ br[i].fail \in Nat /\ br[i].req \in Nat /\ Probes \in Nat
      BY Settings DEF BInv, BreakerTypeOK, Breaker
    <3> QED BY <3>1, <3>2 DEF InstanceOK
  <2>3. BreakerTypeOK
    BY DEF BInv
  <2> QED BY <2>1, <2>2, <2>3
        DEF BreakerSound, AdmissionIsAccounted, CountsAreAdmitted, ProbesBounded
<1> QED BY <1>1, <1>2, <1>3, PTL DEF BreakerSpec

-----------------------------------------------------------------------------
(* The headers of a replay.                                                *)

AnyValue == Values \cup {Above(1), Above(2)}
Captured == {n \in HeaderNames : ~isUncapturedHeader(n)}

(* The live response, and what is kept of it at each stage.                *)
HeaderTypes ==
    /\ stage \in {"above", "snapshot", "handler", "again", "replay", "sent"}
    /\ header \in [HeaderNames -> Seq(AnyValue)] /\ cookie \in [Cookies -> Seq(AnyValue)]
    /\ stage \in {"handler", "again", "replay", "sent"} =>
         before \in [headers : [Captured -> Seq(AnyValue)], cookies : [Cookies -> Seq(AnyValue)]]
    /\ stage \in {"again", "replay", "sent"} =>
         original \in [headers : [HeaderNames -> Seq(AnyValue)], cookies : [Cookies -> Seq(AnyValue)]]
    /\ stage \in {"replay", "sent"} =>
         live \in [headers : [HeaderNames -> Seq(AnyValue)], cookies : [Cookies -> Seq(AnyValue)]]

(* The receipt is the difference between the first response and what the   *)
(* handler found.                                                          *)
ReceiptKept == stage \in {"again", "replay", "sent"} => captured = captureHeaderDelta(original)

(* What the replay has applied is the receipt's, the rest the duplicate's. *)
HalfApplied ==
    /\ stage \in {"replay", "sent"} =>
         /\ \A n \in HeaderNames :
              header[n] = IF n \in DOMAIN captured.headers /\ n \notin ahead THEN original.headers[n] ELSE live.headers[n]
         /\ \A k \in Cookies :
              cookie[k] = IF k \in DOMAIN captured.cookies /\ "Set-Cookie" \notin ahead
                          THEN original.cookies[k] ELSE live.cookies[k]
    /\ stage = "replay" => ahead \subseteq DOMAIN captured.headers \cup {"Set-Cookie"}
    /\ stage = "sent" => ahead = {}

ReplayInv == HeaderTypes /\ ReceiptKept /\ HalfApplied

(* What captureHeaderDelta keeps: the changed names with their new values, *)
(* and the cookies that were added or changed.                             *)
LEMMA DeltaIs ==
  ASSUME NEW resp
  PROVE  LET c == captureHeaderDelta(resp) IN
         /\ DOMAIN c.headers = {n \in HeaderNames : ~isUncapturedHeader(n) /\ resp.headers[n] # before.headers[n]}
         /\ DOMAIN c.cookies = {k \in Cookies : resp.cookies[k] # NoValues /\ resp.cookies[k] # before.cookies[k]}
         /\ \A n \in DOMAIN c.headers : c.headers[n] = resp.headers[n]
         /\ \A k \in DOMAIN c.cookies : c.cookies[k] = resp.cookies[k]
  BY DEF captureHeaderDelta

LEMMA HeadersFirst ==
  ASSUME ReplayInv, WriteAbove \/ Snapshot \/ HandlerWrites \/ Capture
  PROVE  ReplayInv'
<1>1. CASE WriteAbove
  <2>1. <<Above(1)>> \in Seq(AnyValue) /\ NoValues \in Seq(AnyValue)
    BY DEF AnyValue, NoValues
  <2>2. header' \in [HeaderNames -> Seq(AnyValue)] /\ cookie' \in [Cookies -> Seq(AnyValue)]
    BY <1>1, <2>1 DEF WriteAbove, aboveWrites
  <2> QED
    BY <1>1, <2>2 DEF WriteAbove, ReplayInv, HeaderTypes, ReceiptKept, HalfApplied
<1>2. CASE Snapshot
  BY <1>2 DEF Snapshot, snapshotResponseHeaders, Captured, ReplayInv, HeaderTypes, ReceiptKept, HalfApplied
<1>3. CASE HandlerWrites
  <2>1. NoValues \in Seq(AnyValue) /\ \A v \in Values : <<v>> \in Seq(AnyValue) /\ v \in AnyValue
    BY DEF AnyValue, NoValues
  <2>2. \A s \in Seq(AnyValue), v \in Values : Append(s, v) \in Seq(AnyValue)
    BY <2>1
  <2>3. header \in [HeaderNames -> Seq(AnyValue)] /\ cookie \in [Cookies -> Seq(AnyValue)]
    BY DEF ReplayInv, HeaderTypes
  <2>4. header' \in [HeaderNames -> Seq(AnyValue)] /\ cookie' \in [Cookies -> Seq(AnyValue)]
    <3>1. CASE UNCHANGED cookie /\ \E n \in HeaderNames, v \in Values :
                 \/ header' = [header EXCEPT ![n] = <<v>>]
                 \/ header' = [header EXCEPT ![n] = Append(@, v)]
                 \/ header' = [header EXCEPT ![n] = NoValues]
      <4>1. PICK n \in HeaderNames, v \in Values :
                 \/ header' = [header EXCEPT ![n] = <<v>>]
                 \/ header' = [header EXCEPT ![n] = Append(header[n], v)]
                 \/ header' = [header EXCEPT ![n] = NoValues]
        BY <3>1
      <4> QED
        <5>1. /\ <<v>> \in Seq(AnyValue) /\ Append(header[n], v) \in Seq(AnyValue) /\ NoValues \in Seq(AnyValue)
          BY <2>1, <2>2, <2>3
        <5>2. \E s \in Seq(AnyValue) : header' = [header EXCEPT ![n] = s]
          BY <4>1, <5>1, Zenon
        <5> QED
          BY <5>2, <3>1, <2>3
    <3>2. CASE UNCHANGED header /\ \E k \in Cookies, v \in Values :
                 \/ cookie' = [cookie EXCEPT ![k] = <<v>>]
                 \/ cookie' = [cookie EXCEPT ![k] = NoValues]
      <4>1. PICK k \in Cookies, v \in Values : \/ cookie' = [cookie EXCEPT ![k] = <<v>>]
                                              \/ cookie' = [cookie EXCEPT ![k] = NoValues]
        BY <3>2
      <4> QED
        BY <4>1, <3>2, <2>1, <2>3
    <3> QED
      BY <1>3, <3>1, <3>2, Zenon DEF HandlerWrites
  <2> QED
    BY <1>3, <2>4 DEF HandlerWrites, ReplayInv, HeaderTypes, ReceiptKept, HalfApplied
<1>4. CASE Capture
  <2>1. original' \in [headers : [HeaderNames -> Seq(AnyValue)], cookies : [Cookies -> Seq(AnyValue)]]
    BY <1>4 DEF Capture, response, ReplayInv, HeaderTypes
  <2>2. captured' = captureHeaderDelta(original)'
    BY <1>4 DEF Capture, captureHeaderDelta
  <2> QED
    BY <1>4, <2>1, <2>2 DEF Capture, ReplayInv, HeaderTypes, ReceiptKept, HalfApplied
<1> QED
  BY <1>1, <1>2, <1>3, <1>4

LEMMA ReplayBegins == ASSUME ReplayInv, WriteAboveAgain PROVE ReplayInv'
<1>1. stage = "again" /\ stage' = "replay" /\ UNCHANGED <<before, original, captured>>
  BY DEF WriteAboveAgain
<1>2. <<Above(2)>> \in Seq(AnyValue) /\ NoValues \in Seq(AnyValue)
  BY DEF AnyValue, NoValues
<1>3. header' \in [HeaderNames -> Seq(AnyValue)] /\ cookie' \in [Cookies -> Seq(AnyValue)]
  BY <1>2 DEF WriteAboveAgain, aboveWrites
<1>4. HeaderTypes' /\ ReceiptKept'
  BY <1>1, <1>3 DEF ReplayInv, HeaderTypes, ReceiptKept, WriteAboveAgain, captureHeaderDelta
<1>5. DOMAIN captured.headers \subseteq ahead' /\ ahead' \subseteq DOMAIN captured.headers \cup {"Set-Cookie"}
  BY DEF WriteAboveAgain
<1>6. \A k \in DOMAIN captured.cookies : "Set-Cookie" \in ahead'
  BY DEF WriteAboveAgain
<1>7. live'.headers = header' /\ live'.cookies = cookie'
  BY DEF WriteAboveAgain
<1> QED
  BY <1>1, <1>4, <1>5, <1>6, <1>7 DEF ReplayInv, HalfApplied

LEMMA ReplayApplies ==
  ASSUME ReplayInv, NEW n \in HeaderNames \cup {"Set-Cookie"}, replayHeader(n)
  PROVE  ReplayInv'
<1> DEFINE cleared == clearCapturedHeader(n)
<1>1. stage = "replay" /\ stage' = "replay" /\ n \in ahead /\ ahead' = ahead \ {n}
      /\ UNCHANGED <<before, original, captured, live>>
  BY DEF replayHeader
<1>2. /\ \A m \in DOMAIN captured.headers : m \in HeaderNames /\ captured.headers[m] = original.headers[m]
      /\ \A k \in DOMAIN captured.cookies : k \in Cookies /\ captured.cookies[k] = original.cookies[k]
  BY <1>1, DeltaIs DEF ReplayInv, ReceiptKept
<1>3. /\ header \in [HeaderNames -> Seq(AnyValue)] /\ cookie \in [Cookies -> Seq(AnyValue)]
      /\ original.headers \in [HeaderNames -> Seq(AnyValue)] /\ original.cookies \in [Cookies -> Seq(AnyValue)]
  BY <1>1 DEF ReplayInv, HeaderTypes
<1>4. /\ header' \in [HeaderNames -> Seq(AnyValue)] /\ cookie' \in [Cookies -> Seq(AnyValue)]
      /\ \A m \in HeaderNames : header'[m] = IF m = n THEN original.headers[m] ELSE header[m]
      /\ \A k \in Cookies : cookie'[k] = IF n = "Set-Cookie" /\ k \in DOMAIN captured.cookies
                                         THEN original.cookies[k] ELSE cookie[k]
  <2>1. CASE n = "Set-Cookie"
    <3>1. cleared.headers = header
      BY <2>1 DEF clearCapturedHeader
    <3>2. cleared.cookies = [k \in Cookies |-> IF k \in DOMAIN captured.cookies THEN NoValues ELSE cookie[k]]
      BY <2>1 DEF clearCapturedHeader, capturedCookieName
    <3>3. /\ cookie' = [k \in Cookies |-> IF k \in DOMAIN captured.cookies
                                           THEN captured.cookies[k] ELSE cleared.cookies[k]]
          /\ header' = header
      BY <2>1, <3>1 DEF replayHeader, capturedCookieName
    <3>4. cookie' = [k \in Cookies |-> IF k \in DOMAIN captured.cookies THEN original.cookies[k] ELSE cookie[k]]
      BY <1>2, <3>2, <3>3
    <3> QED
      BY <1>3, <2>1, <3>3, <3>4, HeadersAssumption
  <2>2. CASE n # "Set-Cookie"
    <3>1. n \in DOMAIN captured.headers /\ n \in HeaderNames
      BY <1>1, <1>2, <2>2 DEF ReplayInv, HalfApplied
    <3>2. cleared.headers = [header EXCEPT ![n] = NoValues] /\ cleared.cookies = [k \in Cookies |-> cookie[k]]
      BY <2>2 DEF clearCapturedHeader
    <3>3. cookie' = cleared.cookies /\ header' = [cleared.headers EXCEPT ![n] = @ \o captured.headers[n]]
      BY <2>2 DEF replayHeader
    <3>4. captured.headers[n] = original.headers[n] /\ original.headers[n] \in Seq(AnyValue)
      BY <1>2, <1>3, <3>1
    <3>5. NoValues \o original.headers[n] = original.headers[n]
      BY <3>4 DEF NoValues
    <3>6. header' = [header EXCEPT ![n] = original.headers[n]]
      BY <1>3, <3>1, <3>2, <3>3, <3>4, <3>5
    <3>7. cookie' = cookie
      BY <1>3, <3>2, <3>3
    <3> QED
      BY <1>3, <2>2, <3>1, <3>4, <3>6, <3>7
  <2> QED
    BY <2>1, <2>2
<1>5. HeaderTypes'
  BY <1>1, <1>4 DEF ReplayInv, HeaderTypes
<1>6. ReceiptKept'
  BY <1>1 DEF ReplayInv, ReceiptKept, captureHeaderDelta
<1>7. HalfApplied'
  <2>1. ahead' \subseteq DOMAIN captured'.headers \cup {"Set-Cookie"}
    BY <1>1 DEF ReplayInv, HalfApplied
  <2>2. \A m \in HeaderNames :
          header'[m] = IF m \in DOMAIN captured'.headers /\ m \notin ahead' THEN original'.headers[m] ELSE live'.headers[m]
    <3> TAKE m \in HeaderNames
    <3>1. CASE m = n
      <4>1. m \in DOMAIN captured.headers
        BY <1>1, <3>1, HeadersAssumption DEF ReplayInv, HalfApplied
      <4> QED
        BY <1>1, <1>4, <3>1, <4>1
    <3>2. CASE m # n
      <4>1. m \in ahead' <=> m \in ahead
        BY <1>1, <3>2
      <4> QED
        BY <1>1, <1>4, <3>2, <4>1 DEF ReplayInv, HalfApplied
    <3> QED
      BY <3>1, <3>2
  <2>3. \A k \in Cookies :
          cookie'[k] = IF k \in DOMAIN captured'.cookies /\ "Set-Cookie" \notin ahead'
                       THEN original'.cookies[k] ELSE live'.cookies[k]
    BY <1>1, <1>4 DEF ReplayInv, HalfApplied
  <2> QED
    BY <1>1, <2>1, <2>2, <2>3 DEF HalfApplied
<1> QED
  BY <1>5, <1>6, <1>7 DEF ReplayInv

(* A replay is the receipt (captureHeaderDelta, replay), whatever the      *)
(* headers, cookies and values and however often the handler writes: what  *)
(* the handler changed is on the duplicate as the first client got it, and *)
(* everything else is the duplicate's own.                                 *)
THEOREM ReplayIsTheReceiptHolds == HeadersSpec => []ReplayIsTheReceipt
<1>1. HeadersInit => ReplayInv
  <2>1. NoValues \in Seq(AnyValue)
    BY DEF NoValues
  <2> QED
    BY <2>1 DEF HeadersInit, ReplayInv, HeaderTypes, ReceiptKept, HalfApplied, blank
<1>2. ReplayInv /\ [HeadersNext]_headerVars => ReplayInv'
  <2> SUFFICES ASSUME ReplayInv, [HeadersNext]_headerVars PROVE ReplayInv'
    OBVIOUS
  <2>1. CASE Send
    BY <2>1 DEF Send, ReplayInv, HeaderTypes, ReceiptKept, HalfApplied, captureHeaderDelta
  <2>2. CASE UNCHANGED headerVars
    BY <2>2 DEF headerVars, ReplayInv, HeaderTypes, ReceiptKept, HalfApplied, captureHeaderDelta
  <2> QED
    BY <2>1, <2>2, HeadersFirst, ReplayBegins, ReplayApplies DEF HeadersNext
<1>3. ReplayInv => ReplayIsTheReceipt
  <2> SUFFICES ASSUME ReplayInv, stage = "sent" PROVE ReplayIsTheReceipt
    BY DEF ReplayIsTheReceipt
  <2>1. captured = captureHeaderDelta(original) /\ ahead = {}
    BY DEF ReplayInv, ReceiptKept, HalfApplied
  <2>2. /\ DOMAIN captured.headers = {n \in HeaderNames : ~isUncapturedHeader(n) /\ original.headers[n] # before.headers[n]}
        /\ DOMAIN captured.cookies = {k \in Cookies : original.cookies[k] # NoValues /\ original.cookies[k] # before.cookies[k]}
    BY <2>1, DeltaIs
  <2> QED
    BY <2>1, <2>2 DEF ReplayInv, HalfApplied, ReplayIsTheReceipt
<1> QED
  BY <1>1, <1>2, <1>3, PTL DEF HeadersSpec

-----------------------------------------------------------------------------
(* The rate limit.  A counter lives for one window from its first hit;     *)
(* the requests it lets through are the last in the history, as many as it *)
(* counts and at most Limit, and two requests Limit places apart were let  *)
(* through by counters whose lives do not overlap.                         *)
Admission == [at : Nat, until : Nat]

Lives(s) ==
    /\ \A i \in 1 .. Len(s) : s[i].until <= s[i].at + Window /\ s[i].at < s[i].until
    /\ \A i, j \in 1 .. Len(s) : i + Limit <= j => s[i].until + Window <= s[j].until

(* Of the n requests a counter that ends at u has counted, only the last   *)
(* Limit were let through.                                                 *)
Earlier(s, n, u) == \A i \in 1 .. Len(s) : i + n <= Len(s) \/ i + Limit <= Len(s) => s[i].until + Window <= u

RateTypes ==
    /\ ticks \in 0 .. MaxClock /\ counter \in [count : Nat, until : Nat] /\ promised \in Nat
    /\ counter.until = Never \/ counter.until <= MaxClock + Window
    /\ ~setup.foreign => ~scanned

Admissions ==
    ~setup.foreign =>
      /\ admitted \in Seq(Admission) /\ Lives(admitted)
      /\ IF counter.count = 0 THEN \A i \in 1 .. Len(admitted) : admitted[i].until <= ticks
         ELSE /\ counter.until <= ticks + Window /\ ticks < counter.until /\ counter.until # Never
              /\ Earlier(admitted, counter.count, counter.until)
              /\ \A i \in 1 .. Len(admitted) : admitted[i].until <= counter.until

PromiseKept == promised > 0 => counter.count > 0 /\ counter.until = promised /\ promised # Never

LogBounded ==
    /\ IsFiniteSet(logged) /\ Cardinality(logged) <= MaxLogged /\ lines \in Nat
    /\ lines <= Cardinality(logged) + 1 /\ (~saturated => lines <= Cardinality(logged))

RateInv == RateTypes /\ Admissions /\ PromiseKept /\ LogBounded

LEMMA ElementsAre == \A s \in Seq(Admission) : \A i \in 1 .. Len(s) : s[i] \in Admission /\ s[i].at \in Nat /\ s[i].until \in Nat
<1>1. \A s \in Seq(Admission) : \A i \in 1 .. Len(s) : s[i] \in Admission
  OBVIOUS
<1>2. \A a \in Admission : a.at \in Nat /\ a.until \in Nat
  BY DEF Admission
<1> QED
  BY <1>1, <1>2

(* The oldest request may be forgotten.                                    *)
LEMMA ForgetsTheOldest ==
  ASSUME NEW s \in Seq(Admission), s # <<>>, NEW n \in Nat, NEW u \in Nat, Lives(s), Earlier(s, n, u)
  PROVE  Tail(s) \in Seq(Admission) /\ Lives(Tail(s)) /\ Earlier(Tail(s), n, u)
<1>1. /\ Tail(s) \in Seq(Admission) /\ Len(Tail(s)) = Len(s) - 1 /\ Len(s) \in Nat /\ Limit \in Nat /\ Window \in Nat
      /\ \A i \in 1 .. Len(Tail(s)) : Tail(s)[i] = s[i + 1] /\ i + 1 \in 1 .. Len(s)
  BY RateAssumption
<1>2. Lives(Tail(s))
  BY <1>1 DEF Lives
<1>3. Earlier(Tail(s), n, u)
  BY <1>1 DEF Earlier
<1> QED
  BY <1>1, <1>2, <1>3

(* One more request is let through, and counted.                           *)
LEMMA AdmitsOneMore ==
  ASSUME NEW s \in Seq(Admission), NEW n \in Nat, NEW u \in Nat, NEW t \in Nat, n + 1 <= Limit, Lives(s), Earlier(s, n, u),
         u <= t + Window, t < u
  PROVE  LET a == Append(s, [at |-> t, until |-> u]) IN a \in Seq(Admission) /\ a # <<>> /\ Lives(a) /\ Earlier(a, n + 1, u)
<1> DEFINE e == [at |-> t, until |-> u]
           a == Append(s, e)
<1>1. /\ a \in Seq(Admission) /\ a # <<>> /\ Len(a) = Len(s) + 1 /\ Len(s) \in Nat /\ Limit \in Nat /\ Window \in Nat
      /\ a[Len(s) + 1] = e /\ e.at = t /\ e.until = u
      /\ \A i \in 1 .. Len(s) : a[i] = s[i]
      /\ \A i \in 1 .. Len(s) : s[i].at \in Nat /\ s[i].until \in Nat
  <2>1. e \in Admission /\ e.at = t /\ e.until = u
    BY DEF Admission
  <2> HIDE DEF e
  <2>2. /\ a \in Seq(Admission) /\ a # <<>> /\ Len(a) = Len(s) + 1 /\ Len(s) \in Nat /\ a[Len(s) + 1] = e
        /\ \A i \in 1 .. Len(s) : a[i] = s[i]
    BY <2>1
  <2>3. \A i \in 1 .. Len(s) : s[i].at \in Nat /\ s[i].until \in Nat
    BY ElementsAre
  <2> QED
    BY <2>1, <2>2, <2>3, RateAssumption
<1>2. \A i \in 1 .. Len(a) : i \in 1 .. Len(s) \/ i = Len(s) + 1
  BY <1>1
<1> HIDE DEF a, e
<1>3. \A i \in 1 .. Len(s) : i + n <= Len(s) => s[i].until + Window <= u
  BY DEF Earlier
<1>4. Lives(a)
  <2>1. \A i \in 1 .. Len(a) : a[i].until <= a[i].at + Window /\ a[i].at < a[i].until
    BY <1>1, <1>2 DEF Lives
  <2>2. ASSUME NEW i \in 1 .. Len(a), NEW j \in 1 .. Len(a), i + Limit <= j PROVE a[i].until + Window <= a[j].until
    <3>1. i \in 1 .. Len(s)
      BY <1>1, <1>2, <2>2, RateAssumption
    <3>2. CASE j \in 1 .. Len(s)
      BY <1>1, <2>2, <3>1, <3>2 DEF Lives
    <3>3. CASE j = Len(s) + 1
      <4>1. i + n <= Len(s)
        BY <1>1, <2>2, <3>1, <3>3
      <4> QED
        BY <1>1, <1>3, <3>1, <3>3, <4>1
    <3> QED
      BY <1>2, <3>2, <3>3
  <2> QED
    BY <2>1, <2>2 DEF Lives
<1>5. Earlier(a, n + 1, u)
  <2> SUFFICES ASSUME NEW i \in 1 .. Len(a), i + (n + 1) <= Len(a) \/ i + Limit <= Len(a) PROVE a[i].until + Window <= u
    BY DEF Earlier
  <2>1. i + n <= Len(s)
    BY <1>1
  <2>2. i \in 1 .. Len(s)
    BY <1>1, <2>1
  <2> QED
    BY <1>1, <1>3, <2>1, <2>2
<1> QED
  BY <1>1, <1>4, <1>5 DEF a, e

(* What luaIncrExpire leaves.                                              *)
LEMMA IncrementedIs ==
  ASSUME RateInv
  PROVE  /\ incremented \in [count : Nat, until : Nat] /\ incremented.count = counter.count + 1
         /\ incremented.until # Never /\ incremented.until <= MaxClock + Window
         /\ counter.count > 0 /\ counter.until # Never => incremented.until = counter.until
         /\ ~setup.foreign =>
              /\ incremented.until <= ticks + Window /\ ticks < incremented.until
              /\ Earlier(admitted, counter.count, incremented.until)
              /\ \A i \in 1 .. Len(admitted) : admitted[i].until <= incremented.until
<1>1. Window \in Nat \ {0} /\ MaxClock \in Nat /\ Limit \in Nat \ {0}
  BY RateAssumption
<1>2. ticks \in Nat /\ ticks <= MaxClock /\ counter.count \in Nat /\ counter.until \in Nat /\ (counter.until = Never \/ counter.until <= MaxClock + Window)
  BY <1>1 DEF RateInv, RateTypes
<1>3. Never = MaxClock + Window + 1 /\ ticks + Window \in Nat
  BY <1>1, <1>2 DEF Never
<1>4. incremented.count = counter.count + 1 /\ incremented.until = IF counter.count = 0 \/ counter.until = Never THEN ticks + Window ELSE counter.until
  BY DEF incremented
<1>5. incremented \in [count : Nat, until : Nat]
  BY <1>2, <1>3 DEF incremented
<1>6. ASSUME ~setup.foreign
      PROVE  /\ incremented.until <= ticks + Window /\ ticks < incremented.until
             /\ Earlier(admitted, counter.count, incremented.until)
             /\ \A i \in 1 .. Len(admitted) : admitted[i].until <= incremented.until
  <2>1. admitted \in Seq(Admission) /\ Len(admitted) \in Nat /\ \A i \in 1 .. Len(admitted) : admitted[i] \in Admission /\ admitted[i].until \in Nat
    BY <1>6, ElementsAre DEF RateInv, Admissions
  <2>2. CASE counter.count = 0
    <3>1. \A i \in 1 .. Len(admitted) : admitted[i].until <= ticks
      BY <1>6, <2>2 DEF RateInv, Admissions
    <3> QED
      BY <1>1, <1>2, <1>4, <2>1, <2>2, <3>1 DEF Earlier
  <2>3. CASE counter.count # 0
    BY <1>4, <1>6, <2>3 DEF RateInv, Admissions
  <2> QED
    BY <2>2, <2>3
<1> QED
  BY <1>1, <1>2, <1>3, <1>4, <1>5, <1>6

(* A counter that has counted without letting anybody through.             *)
LEMMA CountedOnly ==
  ASSUME RateInv, counter' = incremented, UNCHANGED <<setup, ticks, scanned, admitted, logs>>,
         promised' = promised \/ (promised' = incremented.until)
  PROVE  RateInv'
<1>1. RateTypes'
  BY IncrementedIs DEF RateInv, RateTypes, Never
<1>2. Admissions'
  <2> SUFFICES ASSUME ~setup.foreign PROVE Admissions'
    BY DEF Admissions
  <2>1. Earlier(admitted, counter.count + 1, incremented.until)
    <3>1. \A i \in 1 .. Len(admitted) : i + (counter.count + 1) <= Len(admitted) => i + counter.count <= Len(admitted)
      BY DEF RateInv, RateTypes, Admissions
    <3> QED
      BY <3>1, IncrementedIs DEF Earlier
  <2>2. counter.count \in Nat /\ admitted \in Seq(Admission) /\ Lives(admitted)
    BY DEF RateInv, RateTypes, Admissions
  <2>3. counter'.count = counter.count + 1 /\ counter'.count # 0 /\ counter'.until = incremented.until
    BY <2>2, IncrementedIs
  <2> QED
    BY <2>1, <2>2, <2>3, IncrementedIs DEF Admissions, Earlier, Lives, Never
<1>3. PromiseKept'
  BY IncrementedIs DEF RateInv, RateTypes, PromiseKept, Never
<1>4. LogBounded'
  BY DEF RateInv, LogBounded, logs
<1> QED
  BY <1>1, <1>2, <1>3, <1>4 DEF RateInv

LEMMA CheckStep == ASSUME RateInv, check PROVE RateInv'
<1>1. counter' = incremented /\ UNCHANGED <<setup, ticks, scanned, logs>>
  BY DEF check
<1>2. CASE incremented.count > Limit
  <2>1. UNCHANGED admitted /\ promised' = ticks + ttl(incremented)
    BY <1>2, RateAssumption, IncrementedIs DEF check
  <2>2. ttl(incremented) = incremented.until - ticks /\ incremented.until \in Nat /\ ticks \in Nat
    BY IncrementedIs DEF ttl, RateInv, RateTypes
  <2>3. promised' = incremented.until
    BY <2>1, <2>2
  <2> QED
    BY <1>1, <2>1, <2>3, CountedOnly
<1>3. CASE incremented.count <= Limit
  <2>1. UNCHANGED promised /\ admitted' = IF setup.foreign THEN admitted ELSE latest(Append(admitted, admission))
    BY <1>3 DEF check
  <2>2. CASE setup.foreign
    BY <1>1, <2>1, <2>2, CountedOnly
  <2>3. CASE ~setup.foreign
    <3> DEFINE a == Append(admitted, admission)
               n == counter.count
               u == incremented.until
    <3>1. n \in Nat /\ u \in Nat /\ ticks \in Nat /\ n + 1 <= Limit /\ admitted \in Seq(Admission) /\ Lives(admitted)
      BY <1>3, <2>3, IncrementedIs DEF RateInv, RateTypes, Admissions
    <3>2. Earlier(admitted, n, u) /\ u <= ticks + Window /\ ticks < u /\ \A i \in 1 .. Len(admitted) : admitted[i].until <= u
      BY <2>3, IncrementedIs
    <3>3. admission = [at |-> ticks, until |-> u]
      BY DEF admission
    <3>4. a \in Seq(Admission) /\ a # <<>> /\ Lives(a) /\ Earlier(a, n + 1, u)
      BY <3>1, <3>2, <3>3, AdmitsOneMore
    <3>5. \A i \in 1 .. Len(a) : a[i].until <= u
      BY <3>1, <3>2, <3>3
    <3>6. admitted' = a \/ admitted' = Tail(a)
      BY <2>1, <2>3 DEF latest
    <3> HIDE DEF a, u, n
    <3>7. Tail(a) \in Seq(Admission) /\ Lives(Tail(a)) /\ Earlier(Tail(a), n + 1, u)
      BY <3>1, <3>4, ForgetsTheOldest
    <3>8. \A i \in 1 .. Len(Tail(a)) : Tail(a)[i].until <= u
      <4>1. Len(Tail(a)) = Len(a) - 1 /\ Len(a) \in Nat /\ \A i \in 1 .. Len(Tail(a)) : Tail(a)[i] = a[i + 1] /\ i + 1 \in 1 .. Len(a)
        BY <3>4
      <4> QED
        BY <3>5, <4>1
    <3>9. admitted' \in Seq(Admission) /\ Lives(admitted') /\ Earlier(admitted', n + 1, u) /\ \A i \in 1 .. Len(admitted') : admitted'[i].until <= u
      BY <3>4, <3>5, <3>6, <3>7, <3>8
    <3>10. counter'.count = n + 1 /\ counter'.until = u /\ n + 1 # 0 /\ u # Never /\ counter' = incremented
      BY <1>1, <3>1, IncrementedIs DEF n, u
    <3>11. Admissions'
      BY <1>1, <3>2, <3>9, <3>10 DEF Admissions, Lives, Earlier, Never
    <3>12. RateTypes' /\ PromiseKept' /\ LogBounded'
      <4>1. RateTypes'
        BY <1>1, <2>1, IncrementedIs DEF RateInv, RateTypes, Never
      <4>2. PromiseKept'
        BY <1>1, <2>1, IncrementedIs DEF RateInv, RateTypes, PromiseKept, Never
      <4>3. LogBounded'
        BY <1>1 DEF RateInv, LogBounded, logs
      <4> QED
        BY <4>1, <4>2, <4>3
    <3> QED
      BY <3>11, <3>12 DEF RateInv
  <2> QED
    BY <2>2, <2>3
<1>4. incremented.count \in Nat /\ Limit \in Nat
  BY IncrementedIs, RateAssumption
<1> QED
  BY <1>2, <1>3, <1>4

LEMMA RateTickStep == ASSUME RateInv, RateLimitTick PROVE RateInv'
<1>1. /\ ticks < MaxClock /\ ticks' = ticks + 1 /\ counter' = (IF counter.until <= ticks + 1 THEN noKey ELSE counter)
      /\ promised' = (IF promised <= ticks + 1 THEN 0 ELSE promised) /\ UNCHANGED <<setup, scanned, admitted, logs>>
  BY DEF RateLimitTick
<1>2. /\ ticks \in Nat /\ counter.count \in Nat /\ counter.until \in Nat /\ promised \in Nat /\ Window \in Nat /\ MaxClock \in Nat
      /\ noKey.count = 0 /\ noKey.until = 0 /\ noKey \in [count : Nat, until : Nat] /\ Never' = Never
  BY RateAssumption DEF RateInv, RateTypes, noKey, Never
<1>3. RateTypes'
  BY <1>1, <1>2 DEF RateInv, RateTypes
<1>4. Admissions'
  <2> SUFFICES ASSUME ~setup.foreign PROVE Admissions'
    BY <1>1 DEF Admissions
  <2>1. admitted \in Seq(Admission) /\ Lives(admitted) /\ \A i \in 1 .. Len(admitted) : admitted[i].until \in Nat
    BY ElementsAre DEF RateInv, Admissions
  <2>2. CASE counter'.count = 0
    <3>1. \A i \in 1 .. Len(admitted) : admitted[i].until <= ticks + 1
      BY <1>1, <1>2, <2>1, <2>2 DEF RateInv, Admissions
    <3> QED
      BY <1>1, <2>1, <2>2, <3>1 DEF Admissions, Lives
  <2>3. CASE counter'.count # 0
    <3>1. counter' = counter /\ ticks + 1 < counter.until
      BY <1>1, <1>2, <2>3
    <3> QED
      BY <1>1, <1>2, <2>1, <2>3, <3>1 DEF RateInv, Admissions, Lives, Earlier
  <2> QED
    BY <2>2, <2>3
<1>5. PromiseKept'
  BY <1>1, <1>2 DEF RateInv, PromiseKept
<1>6. LogBounded'
  BY <1>1 DEF RateInv, LogBounded, logs
<1> QED
  BY <1>3, <1>4, <1>5, <1>6 DEF RateInv

LEMMA MisconfiguredStep == ASSUME RateInv, NEW n \in TierNames, misconfiguredTier(n) PROVE RateInv'
<1>1. UNCHANGED <<setup, ticks, counter, scanned, admitted, promised>> /\ Never' = Never
  BY DEF misconfiguredTier, Never
<1>2. RateTypes' /\ Admissions' /\ PromiseKept'
  BY <1>1 DEF RateInv, RateTypes, Admissions, PromiseKept, Lives, Earlier
<1>3. IsFiniteSet(logged) /\ Cardinality(logged) \in Nat /\ MaxLogged \in Nat
  BY RateAssumption, FS_CardinalityType DEF RateInv, LogBounded
<1>4. LogBounded'
  <2>1. CASE n \in logged
    BY <2>1 DEF misconfiguredTier, RateInv, LogBounded, logs
  <2>2. CASE n \notin logged /\ Cardinality(logged) >= MaxLogged
    BY <1>3, <2>2 DEF misconfiguredTier, RateInv, LogBounded
  <2>3. CASE n \notin logged /\ ~(Cardinality(logged) >= MaxLogged)
    <3>1. logged' = logged \cup {n} /\ lines' = lines + 1 /\ saturated' = saturated
      BY <2>3 DEF misconfiguredTier
    <3>2. IsFiniteSet(logged') /\ Cardinality(logged') = Cardinality(logged) + 1
      BY <1>3, <2>3, <3>1, FS_AddElement
    <3> QED
      BY <1>3, <2>3, <3>1, <3>2 DEF RateInv, LogBounded
  <2> QED
    BY <2>1, <2>2, <2>3
<1> QED
  BY <1>2, <1>4 DEF RateInv

(* Somebody else writes the key.                                           *)
LEMMA ForeignStep ==
  ASSUME RateInv, setup.foreign, counter' \in [count : Nat, until : Nat], counter'.until = Never \/ counter'.until <= MaxClock + Window,
         promised' = 0, UNCHANGED <<setup, ticks, logs>>
  PROVE  RateInv'
<1>1. Never' = Never
  BY DEF Never
<1> QED
  BY <1>1 DEF RateInv, RateTypes, Admissions, PromiseKept, LogBounded, logs

(* Any limit, any window, any sequence of requests, lost answers, expiries *)
(* and foreign writes: while the keys are the limiter's own, no counter    *)
(* lets more than Limit requests through and no span of a window more than *)
(* twice that; a Retry-After is kept whoever writes; and the log of        *)
(* misconfigured tiers is bounded (luaIncrExpire, check,                   *)
(* misconfiguredTierLogDecision).                                          *)
THEOREM RateLimitSoundHolds == RateLimitSpec => []RateLimitSound
<1>1. RateLimitInit => RateInv
  <2> SUFFICES ASSUME RateLimitInit PROVE RateInv
    OBVIOUS
  <2>1. RateTypes /\ PromiseKept
    BY RateAssumption DEF RateLimitInit, RateTypes, PromiseKept, noKey
  <2>2. Admissions
    BY DEF RateLimitInit, Admissions, Lives, noKey
  <2>3. LogBounded
    <3>1. IsFiniteSet({}) /\ Cardinality({}) = 0
      BY FS_EmptySet
    <3>2. logged = {} /\ saturated = FALSE /\ lines = 0 /\ MaxLogged \in Nat
      BY RateAssumption DEF RateLimitInit
    <3> QED
      BY <3>1, <3>2 DEF LogBounded
  <2> QED
    BY <2>1, <2>2, <2>3 DEF RateInv
<1>2. RateInv /\ [RateLimitNext]_rateVars => RateInv'
  <2> SUFFICES ASSUME RateInv, [RateLimitNext]_rateVars PROVE RateInv'
    OBVIOUS
  <2>1. ASSUME UNCHANGED <<setup, ticks, counter, scanned, admitted, promised, logs>> PROVE RateInv'
    <3>1. Never' = Never
      BY DEF Never
    <3> QED
      BY <2>1, <3>1 DEF RateInv, RateTypes, Admissions, PromiseKept, LogBounded, Lives, Earlier, logs
  <2>2. CASE handleRedisError
    <3>1. UNCHANGED <<setup, ticks, scanned, admitted, promised, logs>> /\ (counter' = counter \/ counter' = incremented)
      BY <2>2 DEF handleRedisError
    <3> QED
      BY <2>1, <3>1, CountedOnly
  <2>3. CASE invalidTenant \/ passThrough \/ UNCHANGED rateVars
    BY <2>1, <2>3 DEF invalidTenant, passThrough, rateVars, logs
  <2>4. noKey \in [count : Nat, until : Nat] /\ noKey.until <= MaxClock + Window
    BY RateAssumption DEF noKey
  <2>5. ASSUME NEW n \in {1, Limit}, NEW u \in {ticks + 1, Never}, Set(n, u) PROVE RateInv'
    <3>1. n \in Nat /\ u \in Nat /\ (u = Never \/ u <= MaxClock + Window)
      BY RateAssumption DEF RateInv, RateTypes, Never
    <3>2. counter' = [count |-> n, until |-> u] /\ setup.foreign /\ promised' = 0 /\ UNCHANGED <<setup, ticks, logs>>
      BY <2>5 DEF Set, Touched
    <3> QED
      BY <3>1, <3>2, ForeignStep DEF Never
  <2>6. CASE Delete
    BY <2>4, <2>6, ForeignStep DEF Delete, Touched
  <2>7. CASE ResetDeletes
    <3>1. setup.foreign
      BY <2>7 DEF ResetDeletes, RateInv, RateTypes
    <3> QED
      BY <2>4, <2>7, <3>1, ForeignStep DEF ResetDeletes, Touched
  <2>8. CASE ResetScans
    <3>1. Never' = Never
      BY DEF Never
    <3> QED
      BY <2>8, <3>1 DEF ResetScans, RateInv, RateTypes, Admissions, PromiseKept, LogBounded, logs
  <2> QED
    BY <2>2, <2>3, <2>5, <2>6, <2>7, <2>8, CheckStep, RateTickStep, MisconfiguredStep DEF RateLimitNext
<1>3. RateInv => RateLimitSound
  <2> SUFFICES ASSUME RateInv PROVE RateLimitSound
    OBVIOUS
  <2>1. promised > 0 /\ counter.count > 0 => counter.until <= promised
    BY DEF RateInv, RateTypes, PromiseKept
  <2>2. lines <= MaxLogged + 1
    BY RateAssumption, FS_CardinalityType DEF RateInv, LogBounded
  <2>3. ASSUME ~setup.foreign
        PROVE  /\ counter.count > 0 => \A i \in 1 .. Len(admitted) - Limit : admitted[i].at < counter.until - Window
               /\ \A i \in 1 .. Len(admitted) - 2 * Limit : admitted[i + 2 * Limit].at >= admitted[i].at + Window
    <3>1. /\ admitted \in Seq(Admission) /\ Len(admitted) \in Nat /\ Limit \in Nat \ {0} /\ Window \in Nat /\ counter.until \in Nat /\ Lives(admitted)
          /\ \A i \in 1 .. Len(admitted) : admitted[i].at \in Nat /\ admitted[i].until \in Nat
      BY <2>3, RateAssumption, ElementsAre DEF RateInv, RateTypes, Admissions
    <3>2. ASSUME counter.count > 0, NEW i \in 1 .. Len(admitted) - Limit PROVE admitted[i].at < counter.until - Window
      <4>1. i \in 1 .. Len(admitted) /\ i + Limit <= Len(admitted)
        BY <3>1
      <4>2. admitted[i].until + Window <= counter.until
        BY <2>3, <3>2, <4>1 DEF RateInv, RateTypes, Admissions, Earlier
      <4>3. admitted[i].at < admitted[i].until
        BY <3>1, <4>1 DEF Lives
      <4> QED
        BY <3>1, <4>1, <4>2, <4>3
    <3>3. ASSUME NEW i \in 1 .. Len(admitted) - 2 * Limit PROVE admitted[i + 2 * Limit].at >= admitted[i].at + Window
      <4> DEFINE j == i + Limit
                 k == i + 2 * Limit
      <4>1. i \in 1 .. Len(admitted) /\ j \in 1 .. Len(admitted) /\ k \in 1 .. Len(admitted) /\ i + Limit <= j /\ j + Limit <= k
        BY <3>1
      <4> HIDE DEF j, k
      <4>2. admitted[i].until + Window <= admitted[j].until /\ admitted[j].until + Window <= admitted[k].until
        BY <3>1, <4>1 DEF Lives
      <4>3. admitted[i].at < admitted[i].until /\ admitted[k].until <= admitted[k].at + Window
        BY <3>1, <4>1 DEF Lives
      <4>4. admitted[k].at >= admitted[i].at + Window
        <5>1. admitted[i].at \in Nat /\ admitted[i].until \in Nat /\ admitted[j].until \in Nat /\ admitted[k].at \in Nat /\ admitted[k].until \in Nat
          BY <3>1, <4>1
        <5>2. Window \in Nat
          BY <3>1
        <5>3. \A p, q, r, t, v, w \in Nat : p < q /\ q + w <= r /\ r + w <= t /\ t <= v + w => v >= p + w
          OBVIOUS
        <5> QED
          BY <4>2, <4>3, <5>1, <5>2, <5>3
      <4> QED
        BY <4>4 DEF k
    <3> QED
      BY <3>2, <3>3
  <2> QED
    BY <2>1, <2>2, <2>3 DEF RateLimitSound
<1> QED
  BY <1>1, <1>2, <1>3, PTL DEF RateLimitSpec

-----------------------------------------------------------------------------
(* Pacing.  The script judges by the Redis clock and permits are spaced in *)
(* real time: what ties them is how far the clock is behind.  A grant is   *)
(* never later than the mark, the mark's key outlives the grants but for   *)
(* the tolerance, and a permit is never later than its grant read in real  *)
(* time; a grant that has expired is an interval old already.              *)
PacingTypes ==
    /\ time \in Nat /\ behind \in Nat /\ faults \in 0 .. MaxFaults /\ mark \in Int /\ markEnds \in Int
    /\ granted \in [Buckets -> Int] /\ permitAt \in [Buckets -> Int] /\ rate \in [Buckets -> 0 .. TTL]
    /\ intervals \in [Senders -> [Buckets -> 0 .. TTL]]

ClockBehind == behind <= faults * MaxStep

MarkAboveGrants ==
    \A b \in Buckets : granted[b] # NoStamp =>
      IF mark = NoStamp THEN granted[b] + TTL - Tolerance <= time ELSE granted[b] <= mark

MarkLives == mark # NoStamp => mark - Tolerance + TTL <= markEnds

PermitsAfterGrants ==
    \A b \in Buckets : permitAt[b] # NoStamp =>
      /\ permitAt[b] <= time
      /\ IF granted[b] = NoStamp THEN permitAt[b] + TTL <= time ELSE permitAt[b] <= granted[b] + behind

PacingInv == PacingTypes /\ ClockBehind /\ MarkAboveGrants /\ MarkLives /\ PermitsAfterGrants /\ PermitsAreSpaced

LEMMA BoundOfClock == ASSUME PacingInv PROVE behind + Tolerance <= TTL /\ now \in Int /\ now > NoStamp /\ now <= time /\ NoStamp \in Int
<1>1. MaxFaults \in Nat /\ MaxStep \in Nat /\ TTL \in Nat /\ Tolerance \in Nat /\ MaxFaults * MaxStep + Tolerance <= TTL
  BY PacingAssumption
<1>2. faults \in Nat /\ faults <= MaxFaults /\ behind \in Nat /\ behind <= faults * MaxStep /\ time \in Nat
  BY <1>1 DEF PacingInv, PacingTypes, ClockBehind
<1>3. faults * MaxStep <= MaxFaults * MaxStep
  <2>1. \A m \in Nat : \A x, y \in Nat : x <= y => x * m <= y * m
    OBVIOUS
  <2> QED
    BY <1>1, <1>2, <2>1
<1>4. faults * MaxStep \in Nat /\ MaxFaults * MaxStep \in Nat
  BY <1>1, <1>2
<1>5. behind + Tolerance <= TTL
  BY <1>1, <1>2, <1>3, <1>4
<1> QED
  BY <1>1, <1>2, <1>5 DEF now, NoStamp

LEMMA PacingTickStep == ASSUME PacingInv, PacingTick PROVE PacingInv'
<1>1. /\ behind + Tolerance <= TTL /\ now \in Int /\ now > NoStamp /\ now <= time /\ NoStamp \in Int /\ TTL \in Nat /\ Tolerance \in Nat
      /\ NoStamp' = NoStamp
  BY BoundOfClock, PacingAssumption DEF NoStamp
<1>2. /\ time' = time + 1 /\ granted' = [b \in Buckets |-> IF granted[b] + TTL <= now + 1 THEN NoStamp ELSE granted[b]]
      /\ mark' = (IF markEnds <= now + 1 THEN NoStamp ELSE mark) /\ markEnds' = IF markEnds <= now + 1 THEN NoStamp ELSE markEnds
      /\ UNCHANGED <<behind, rate, intervals, faults, permitAt, tooSoon, overlong>>
  BY DEF PacingTick
<1>3. PacingTypes'
  BY <1>1, <1>2 DEF PacingInv, PacingTypes
<1>4. ClockBehind' /\ MarkLives' /\ PermitsAreSpaced'
  BY <1>1, <1>2 DEF PacingInv, PacingTypes, ClockBehind, MarkLives, PermitsAreSpaced
<1>5. MarkAboveGrants'
  <2> SUFFICES ASSUME NEW b \in Buckets, granted'[b] # NoStamp
               PROVE IF mark' = NoStamp THEN granted'[b] + TTL - Tolerance <= time' ELSE granted'[b] <= mark'
    BY <1>1 DEF MarkAboveGrants
  <2>1. granted'[b] = granted[b] /\ granted[b] # NoStamp /\ granted[b] \in Int /\ mark \in Int /\ markEnds \in Int /\ time \in Nat
    BY <1>2 DEF PacingInv, PacingTypes
  <2>2. CASE mark = NoStamp
    BY <1>1, <1>2, <2>1, <2>2 DEF PacingInv, MarkAboveGrants
  <2>3. CASE mark # NoStamp
    <3>1. granted[b] <= mark /\ mark - Tolerance + TTL <= markEnds
      BY <2>1, <2>3 DEF PacingInv, MarkAboveGrants, MarkLives
    <3> QED
      BY <1>1, <1>2, <2>1, <2>3, <3>1
  <2> QED
    BY <2>2, <2>3
<1>6. PermitsAfterGrants'
  <2> SUFFICES ASSUME NEW b \in Buckets, permitAt[b] # NoStamp
               PROVE /\ permitAt[b] <= time'
                     /\ IF granted'[b] = NoStamp THEN permitAt[b] + TTL <= time' ELSE permitAt[b] <= granted'[b] + behind
    BY <1>1, <1>2 DEF PermitsAfterGrants
  <2>1. granted[b] \in Int /\ permitAt[b] \in Int /\ time \in Nat /\ behind \in Nat
    BY DEF PacingInv, PacingTypes
  <2>2. now = time - behind
    BY DEF now
  <2> QED
    BY <1>1, <1>2, <2>1, <2>2 DEF PacingInv, PermitsAfterGrants
<1> QED
  BY <1>3, <1>4, <1>5, <1>6 DEF PacingInv

LEMMA FailoverStep == ASSUME PacingInv, Failover PROVE PacingInv'
<1>1. PICK k \in 1 .. MaxStep : behind' = behind + k
  BY DEF Failover
<1>2. faults < MaxFaults /\ faults' = faults + 1 /\ UNCHANGED <<time, mark, markEnds, granted, rate, intervals, permitAt, tooSoon, overlong>>
  BY DEF Failover
<1>3. faults \in Nat /\ MaxStep \in Nat /\ MaxFaults \in Nat /\ behind \in Nat /\ NoStamp' = NoStamp
  BY PacingAssumption DEF PacingInv, PacingTypes, NoStamp
<1>4. ClockBehind'
  <2>1. (faults + 1) * MaxStep = faults * MaxStep + MaxStep /\ faults * MaxStep \in Nat
    BY <1>3
  <2> QED
    BY <1>1, <1>2, <1>3, <2>1 DEF PacingInv, ClockBehind
<1>5. PacingTypes'
  BY <1>1, <1>2, <1>3 DEF PacingInv, PacingTypes
<1>6. MarkAboveGrants' /\ MarkLives' /\ PermitsAreSpaced'
  BY <1>2, <1>3 DEF PacingInv, MarkAboveGrants, MarkLives, PermitsAreSpaced
<1>7. PermitsAfterGrants'
  BY <1>1, <1>2, <1>3 DEF PacingInv, PacingTypes, PermitsAfterGrants
<1> QED
  BY <1>4, <1>5, <1>6, <1>7 DEF PacingInv

(* A step of a caller or of a provider that does not reach Redis.          *)
LEMMA PacingRests ==
  ASSUME PacingInv, UNCHANGED <<time, behind, mark, markEnds, granted, faults, permitAt, tooSoon, overlong>>,
         rate' \in [Buckets -> 0 .. TTL], intervals' \in [Senders -> [Buckets -> 0 .. TTL]]
  PROVE  PacingInv'
<1>1. NoStamp' = NoStamp
  BY DEF NoStamp
<1> QED
  BY <1>1 DEF PacingInv, PacingTypes, ClockBehind, MarkAboveGrants, MarkLives, PermitsAfterGrants, PermitsAreSpaced

(* The mark after the script has run on a sound clock.                     *)
LEMMA MarkIsWritten ==
  ASSUME PacingInv, ~backwards, writesMark
  PROVE  /\ mark' \in Int /\ markEnds' \in Int /\ mark' # NoStamp /\ mark' - Tolerance + TTL <= markEnds' /\ now <= mark'
         /\ \A b \in Buckets : granted[b] # NoStamp => granted[b] <= mark' /\ granted[b] <= now + Tolerance
<1>1. behind + Tolerance <= TTL /\ now \in Int /\ now > NoStamp /\ NoStamp \in Int /\ TTL \in Nat /\ Tolerance \in Nat /\ now = time - behind
  BY BoundOfClock, PacingAssumption DEF now
<1>2. mark \in Int /\ time \in Nat /\ behind \in Nat /\ granted \in [Buckets -> Int]
  BY DEF PacingInv, PacingTypes
<1>3. mark' = (IF mark > now THEN mark ELSE now) /\ markEnds' = now + TTL
  BY DEF writesMark
<1>4. mark = NoStamp \/ now >= mark - Tolerance
  BY <1>1, <1>2 DEF backwards
<1>5. ASSUME NEW b \in Buckets, granted[b] # NoStamp PROVE granted[b] <= mark' /\ granted[b] <= now + Tolerance
  <2>1. granted[b] \in Int
    BY <1>2
  <2>2. CASE mark = NoStamp
    <3>1. granted[b] + TTL - Tolerance <= time
      BY <1>5, <2>2 DEF PacingInv, MarkAboveGrants
    <3> QED
      BY <1>1, <1>2, <1>3, <2>1, <2>2, <3>1
  <2>3. CASE mark # NoStamp
    <3>1. granted[b] <= mark
      BY <1>5, <2>3 DEF PacingInv, MarkAboveGrants
    <3> QED
      BY <1>1, <1>2, <1>3, <1>4, <2>1, <2>3, <3>1
  <2> QED
    BY <2>2, <2>3
<1>6. mark' \in Int /\ markEnds' \in Int /\ mark' # NoStamp /\ mark' - Tolerance + TTL <= markEnds' /\ now <= mark'
  BY <1>1, <1>2, <1>3, <1>4
<1> QED
  BY <1>5, <1>6

(* The rates a caller forgets after an evaluation.                         *)
LEMMA RatesAreForgotten ==
  ASSUME PacingInv, NEW c \in Senders, intervals' = [intervals EXCEPT ![c] = [b \in Buckets |-> 0]]
  PROVE  intervals' \in [Senders -> [Buckets -> 0 .. TTL]]
<1>1. [b \in Buckets |-> 0] \in [Buckets -> 0 .. TTL]
  BY PacingAssumption
<1> QED
  BY <1>1 DEF PacingInv, PacingTypes

LEMMA EvaluateWaitStep == ASSUME PacingInv, NEW c \in Senders, evaluateWait(c) PROVE PacingInv'
<1>1. /\ ~backwards /\ writesMark /\ overlong' = (overlong \/ tooFar(c)) /\ UNCHANGED <<time, behind, granted, rate, faults, permitAt, tooSoon>>
      /\ intervals' = [intervals EXCEPT ![c] = [b \in Buckets |-> 0]]
  BY DEF evaluateWait
<1>2. /\ mark' \in Int /\ markEnds' \in Int /\ mark' # NoStamp /\ mark' - Tolerance + TTL <= markEnds'
      /\ \A b \in Buckets : granted[b] # NoStamp => granted[b] <= mark' /\ granted[b] <= now + Tolerance
  BY <1>1, MarkIsWritten
<1>3. NoStamp' = NoStamp /\ now \in Int /\ Tolerance \in Nat
  BY BoundOfClock, PacingAssumption DEF NoStamp
<1>4. ~tooFar(c)
  <2> SUFFICES ASSUME NEW b \in keysFor(c), \A d \in keysFor(c) : earliest(c, b) - now > intervals[c][d] + Tolerance PROVE FALSE
    BY DEF tooFar
  <2>1. b \in Buckets
    BY PacingAssumption DEF keysFor
  <2>2. intervals[c][b] \in Nat /\ granted[b] \in Int
    BY <2>1, PacingAssumption DEF PacingInv, PacingTypes
  <2>3. earliest(c, b) - now > intervals[c][b] + Tolerance
    OBVIOUS
  <2> QED
    BY <1>2, <1>3, <2>1, <2>2, <2>3 DEF earliest
<1>5. PacingTypes'
  BY <1>1, <1>2, RatesAreForgotten DEF PacingInv, PacingTypes
<1>6. ClockBehind' /\ MarkAboveGrants' /\ MarkLives' /\ PermitsAfterGrants' /\ PermitsAreSpaced'
  BY <1>1, <1>2, <1>3, <1>4 DEF PacingInv, PacingTypes, ClockBehind, MarkAboveGrants, MarkLives, PermitsAfterGrants, PermitsAreSpaced
<1> QED
  BY <1>5, <1>6 DEF PacingInv

LEMMA EvaluateGrantedStep == ASSUME PacingInv, NEW c \in Senders, evaluateGranted(c) PROVE PacingInv'
<1>1. /\ ~backwards /\ ~mustWait(c) /\ writesMark /\ UNCHANGED <<time, behind, rate, overlong>>
      /\ intervals' = intervals \/ intervals' = [intervals EXCEPT ![c] = [b \in Buckets |-> 0]]
      /\ granted' = [b \in Buckets |-> IF b \in keysFor(c) THEN now ELSE granted[b]]
      /\ tooSoon' = (tooSoon \/ \E b \in keysFor(c) : permitAt[b] # NoStamp /\ time < permitAt[b] + intervals[c][b])
      /\ permitAt' = [b \in Buckets |-> IF b \in keysFor(c) THEN time ELSE permitAt[b]]
      /\ faults' = faults \/ (faults < MaxFaults /\ faults' = faults + 1)
  BY DEF evaluateGranted, charges, issues, forgets
<1>2. /\ mark' \in Int /\ markEnds' \in Int /\ mark' # NoStamp /\ mark' - Tolerance + TTL <= markEnds' /\ now <= mark'
      /\ \A b \in Buckets : granted[b] # NoStamp => granted[b] <= mark' /\ granted[b] <= now + Tolerance
  BY <1>1, MarkIsWritten
<1>3. NoStamp' = NoStamp /\ now \in Int /\ now # NoStamp /\ NoStamp \in Int /\ now = time - behind /\ time \in Nat /\ behind \in Nat /\ MaxStep \in Nat /\ MaxFaults \in Nat
  BY BoundOfClock, PacingAssumption DEF NoStamp, now, PacingInv, PacingTypes
<1>4. \A b \in keysFor(c) : permitAt[b] # NoStamp => permitAt[b] + intervals[c][b] <= time
  <2> SUFFICES ASSUME NEW b \in keysFor(c), permitAt[b] # NoStamp PROVE permitAt[b] + intervals[c][b] <= time
    OBVIOUS
  <2>1. b \in Buckets
    BY PacingAssumption DEF keysFor
  <2>2. intervals[c][b] \in 0 .. TTL /\ granted[b] \in Int /\ permitAt[b] \in Int /\ TTL \in Nat
    BY <2>1, PacingAssumption DEF PacingInv, PacingTypes
  <2>3. ~(earliest(c, b) > now)
    BY <1>1 DEF mustWait
  <2>4. IF granted[b] = NoStamp THEN permitAt[b] + TTL <= time ELSE permitAt[b] <= granted[b] + behind
    BY <2>1 DEF PacingInv, PermitsAfterGrants
  <2>5. CASE granted[b] = NoStamp
    BY <1>3, <2>2, <2>4, <2>5
  <2>6. CASE granted[b] # NoStamp
    <3>1. ~(granted[b] + intervals[c][b] > now)
      BY <2>3, <2>6 DEF earliest
    <3> QED
      BY <1>3, <2>2, <2>4, <2>6, <3>1
  <2> QED
    BY <2>5, <2>6
<1>5. \A b \in Buckets : permitAt[b] \in Int
  BY DEF PacingInv, PacingTypes
<1>6. ~tooSoon'
  <2>1. \A b \in keysFor(c) : permitAt[b] \in Int /\ intervals[c][b] \in Int
    BY <1>5, PacingAssumption DEF keysFor, PacingInv, PacingTypes
  <2>2. ~ \E b \in keysFor(c) : permitAt[b] # NoStamp /\ time < permitAt[b] + intervals[c][b]
    BY <1>3, <1>4, <2>1
  <2>3. ~tooSoon
    BY DEF PacingInv, PermitsAreSpaced
  <2> QED
    BY <1>1, <2>2, <2>3, Zenon
<1>7. PacingTypes'
  <2>1. granted' \in [Buckets -> Int] /\ permitAt' \in [Buckets -> Int] /\ faults' \in 0 .. MaxFaults
    BY <1>1, <1>3, <1>5 DEF PacingInv, PacingTypes
  <2>2. intervals' \in [Senders -> [Buckets -> 0 .. TTL]]
    BY <1>1, RatesAreForgotten DEF PacingInv, PacingTypes
  <2> QED
    BY <1>1, <1>2, <2>1, <2>2 DEF PacingInv, PacingTypes
<1>8. ClockBehind'
  <2>1. faults \in Nat /\ (faults + 1) * MaxStep = faults * MaxStep + MaxStep /\ faults * MaxStep \in Nat
    BY <1>3 DEF PacingInv, PacingTypes
  <2> QED
    BY <1>1, <1>3, <2>1 DEF PacingInv, ClockBehind
<1>9. MarkAboveGrants' /\ MarkLives'
  BY <1>1, <1>2, <1>3 DEF MarkAboveGrants, MarkLives
<1>10. PermitsAfterGrants'
  <2> SUFFICES ASSUME NEW b \in Buckets, permitAt'[b] # NoStamp
               PROVE /\ permitAt'[b] <= time
                     /\ IF granted'[b] = NoStamp THEN permitAt'[b] + TTL <= time ELSE permitAt'[b] <= granted'[b] + behind
    BY <1>1, <1>3 DEF PermitsAfterGrants
  <2>1. permitAt'[b] = time \/ permitAt'[b] = permitAt[b]
    BY <1>1
  <2>2. permitAt'[b] <= time
    BY <1>3, <2>1 DEF PacingInv, PermitsAfterGrants
  <2>3. CASE b \in keysFor(c)
    <3>1. granted'[b] = now
      BY <1>1, <2>3
    <3> QED
      BY <1>3, <1>5, <2>1, <2>2, <3>1
  <2>4. CASE b \notin keysFor(c)
    <3>1. granted'[b] = granted[b] /\ permitAt'[b] = permitAt[b]
      BY <1>1, <2>4
    <3> QED
      BY <3>1 DEF PacingInv, PermitsAfterGrants
  <2> QED
    BY <2>3, <2>4
<1> QED
  BY <1>1, <1>6, <1>7, <1>8, <1>9, <1>10 DEF PacingInv, PermitsAreSpaced

(* Any number of callers and buckets, rates that move between two looks,   *)
(* replies that are lost and a clock that falls back: no permit is issued  *)
(* before its interval is over and nobody is sent to sleep for longer than *)
(* an interval and the tolerance (evaluate, the pacing script).            *)
THEOREM PermitsAreSpacedHolds == PacingSpec => []PermitsAreSpaced
<1>1. PacingInit => PacingInv
  <2> SUFFICES ASSUME PacingInit PROVE PacingInv
    OBVIOUS
  <2>1. TTL \in Nat /\ MaxFaults \in Nat /\ MaxStep \in Nat /\ NoStamp \in Int /\ \A b \in Buckets : Intervals[b] \subseteq 0 .. TTL
    BY PacingAssumption DEF NoStamp
  <2>2. rate \in [Buckets -> 0 .. TTL]
    BY <2>1 DEF PacingInit
  <2>3. PacingTypes
    BY <2>1, <2>2 DEF PacingInit, PacingTypes
  <2> QED
    BY <2>1, <2>3 DEF PacingInit, PacingInv, ClockBehind, MarkAboveGrants, MarkLives, PermitsAfterGrants, PermitsAreSpaced
<1>2. PacingInv /\ [PacingNext]_pacingVars => PacingInv'
  <2> SUFFICES ASSUME PacingInv, [PacingNext]_pacingVars PROVE PacingInv'
    OBVIOUS
  <2>1. intervals \in [Senders -> [Buckets -> 0 .. TTL]] /\ rate \in [Buckets -> 0 .. TTL]
    BY DEF PacingInv, PacingTypes
  <2>2. ASSUME NEW b \in Buckets, RateChanges(b) PROVE PacingInv'
    <3>1. rate' \in [Buckets -> 0 .. TTL] /\ intervals' = intervals
      BY <2>1, <2>2, PacingAssumption DEF RateChanges
    <3> QED
      BY <2>1, <2>2, <3>1, PacingRests DEF RateChanges
  <2>3. ASSUME NEW c \in Senders, intervalsFor(c) \/ wakes(c) \/ RoundTrip(c) PROVE PacingInv'
    <3>1. intervals' \in [Senders -> [Buckets -> 0 .. TTL]]
      BY <2>1, <2>3 DEF intervalsFor, wakes, RoundTrip
    <3> QED
      BY <2>1, <2>3, <3>1, PacingRests DEF intervalsFor, wakes, RoundTrip
  <2>4. ASSUME NEW c \in Senders, refuse(c) \/ evaluateBackwards(c) PROVE PacingInv'
    <3>1. intervals' \in [Senders -> [Buckets -> 0 .. TTL]]
      BY <2>4, RatesAreForgotten DEF refuse, evaluateBackwards
    <3> QED
      BY <2>1, <2>4, <3>1, PacingRests DEF refuse, evaluateBackwards
  <2>5. CASE UNCHANGED pacingVars
    BY <2>1, <2>5, PacingRests DEF pacingVars
  <2> QED
    BY <2>2, <2>3, <2>4, <2>5, PacingTickStep, FailoverStep, EvaluateWaitStep, EvaluateGrantedStep DEF PacingNext
<1> QED
  BY <1>1, <1>2, PTL DEF PacingSpec, PacingInv

-----------------------------------------------------------------------------
(* The Redis client.                                                       *)

RefreshTypes ==
    /\ iam \in BOOLEAN /\ connected \in BOOLEAN /\ refreshErr \in BOOLEAN /\ limited \in BOOLEAN
    /\ due \in BOOLEAN /\ shut \in BOOLEAN /\ refreshLoopRunning \in BOOLEAN
    /\ clientsMade \in Nat /\ client \in 0 .. clientsMade
    /\ issued \in Nat /\ token \in 0 .. issued /\ fetched \in [Loops -> 0 .. issued]
    /\ refreshGeneration \in 0 .. MaxLoops /\ refreshCancel \in 0 .. MaxLoops
    /\ lpc \in [Loops -> {"off", "wait", "apply", "done"}] /\ stopped \subseteq Loops

(* One client is open, and it is the current one.                          *)
OneClient ==
    /\ openClients = {client} \ {NoClient} /\ registered = openClients
    /\ connected => client # NoClient
    /\ iam /\ client # NoClient => refreshCancel # NoLoop
    /\ shut => client = NoClient /\ refreshCancel = NoLoop

(* Every loop but the one that can be cancelled was cancelled, and that    *)
(* one is the latest.                                                      *)
OneLoop ==
    /\ refreshLoopRunning <=> refreshCancel # NoLoop
    /\ refreshCancel \in {NoLoop, refreshGeneration}
    /\ \A l \in Loops :
         /\ l > refreshGeneration => lpc[l] = "off" /\ l \notin stopped
         /\ lpc[l] = "done" => l \in stopped
         /\ l <= refreshGeneration /\ l # refreshCancel => l \in stopped
         /\ l = refreshCancel => l \notin stopped /\ lpc[l] \in {"wait", "apply"}

RedisInv == RefreshTypes /\ OneClient /\ OneLoop

(* What a connection that succeeded does to the client and to the loops.   *)
LEMMA StartsLoop ==
  ASSUME RedisInv, startRefreshLoopLocked
  PROVE  /\ OneLoop' /\ refreshGeneration' \in 0 .. MaxLoops /\ refreshCancel' \in 0 .. MaxLoops
         /\ refreshLoopRunning' \in BOOLEAN
         /\ lpc' \in [Loops -> {"off", "wait", "apply", "done"}] /\ stopped' \subseteq Loops
         /\ iam => refreshCancel' # NoLoop
<1> USE RedisAssumption DEF RedisInv, RefreshTypes, OneLoop, NoLoop, Loops
<1>1. CASE ~iam \/ refreshLoopRunning
  BY <1>1 DEF startRefreshLoopLocked, Loop
<1>2. CASE ~(~iam \/ refreshLoopRunning)
  <2>1. /\ refreshGeneration < MaxLoops /\ refreshGeneration' = refreshGeneration + 1
        /\ refreshCancel' = refreshGeneration + 1 /\ refreshLoopRunning' = TRUE
        /\ lpc' = [lpc EXCEPT ![refreshGeneration + 1] = "wait"] /\ stopped' = stopped
    BY <1>2 DEF startRefreshLoopLocked
  <2>2. refreshGeneration + 1 \in Loops /\ refreshCancel = 0
    BY <1>2, <2>1
  <2> QED
    BY <2>1, <2>2
<1> QED
  BY <1>1, <1>2

LEMMA SwapsClient ==
  ASSUME RedisInv, swapIn
  PROVE  /\ clientsMade' \in Nat /\ client' \in 0 .. clientsMade' /\ client' # NoClient /\ connected' = TRUE
         /\ openClients' = {client'} \ {NoClient} /\ registered' = openClients'
  BY DEF RedisInv, RefreshTypes, OneClient, NoClient, swapIn

LEMMA FetchesToken ==
  ASSUME RedisInv, retrieveToken
  PROVE  issued' = issued + 1 /\ issued' \in Nat /\ token \in 0 .. issued' /\ fetched \in [Loops -> 0 .. issued']
<1>1. issued' = issued + 1 /\ issued \in Nat /\ token \in 0 .. issued /\ fetched \in [Loops -> 0 .. issued]
  BY DEF RedisInv, RefreshTypes, retrieveToken
<1>2. 0 .. issued \subseteq 0 .. issued'
  BY <1>1
<1> QED
  BY <1>1, <1>2

LEMMA ConnectStep ==
  ASSUME RedisInv, connectLocked, UNCHANGED <<iam, fetched>>, limited' \in BOOLEAN
  PROVE  RedisInv'
<1>1. /\ token' \in 0 .. issued' /\ issued' \in Nat /\ fetched' \in [Loops -> 0 .. issued']
  <2>1. CASE iam /\ token = NoToken /\ retrieveToken /\ token' = issued + 1
    BY <2>1, FetchesToken
  <2>2. CASE UNCHANGED <<token, Tokens>>
    BY <2>2 DEF Tokens, RedisInv, RefreshTypes
  <2> QED
    BY <2>1, <2>2 DEF connectLocked
<1>2. CASE swapIn /\ refreshErr' = FALSE /\ startRefreshLoopLocked /\ due' = FALSE /\ shut' = FALSE
  BY <1>1, <1>2, StartsLoop, SwapsClient DEF RedisInv, RefreshTypes, OneClient
<1>3. CASE connected' \in BOOLEAN /\ (connected' => connected) /\ UNCHANGED <<client, refreshErr, Sockets, Loop, due, shut>>
  BY <1>1, <1>3 DEF RedisInv, RefreshTypes, OneClient, OneLoop, Sockets, Loop
<1>4. \/ swapIn /\ refreshErr' = FALSE /\ startRefreshLoopLocked /\ due' = FALSE /\ shut' = FALSE
      \/ connected' \in BOOLEAN /\ (connected' => connected) /\ UNCHANGED <<client, refreshErr, Sockets, Loop, due, shut>>
  BY DEF connectLocked, connectFails, connectClientLocked, RedisInv, RefreshTypes
<1> QED
  BY <1>2, <1>3, <1>4

LEMMA CloseStep == ASSUME RedisInv, Close PROVE RedisInv'
<1>1. /\ stopped' = stopped \cup ({refreshCancel} \ {NoLoop}) /\ refreshCancel' = NoLoop /\ refreshLoopRunning' = FALSE
      /\ UNCHANGED <<refreshGeneration, lpc, iam, refreshErr, token, limited, due, fetched, issued, clientsMade>>
      /\ registered' = registered \ {client} /\ openClients' = openClients \ {client}
      /\ client' = NoClient /\ connected' = (IF client = NoClient THEN connected ELSE FALSE) /\ shut' = TRUE
  BY DEF Close, stopRefreshLoopLocked, closeClientLocked, Tokens
<1>2. OneLoop'
  BY <1>1, RedisAssumption DEF RedisInv, RefreshTypes, OneLoop, NoLoop, Loops
<1>3. OneClient'
  BY <1>1 DEF RedisInv, RefreshTypes, OneClient, NoLoop, NoClient
<1>4. RefreshTypes'
  <2>1. connected' \in BOOLEAN
    BY <1>1, Zenon DEF RedisInv, RefreshTypes
  <2>3. client' \in 0 .. clientsMade'
    BY <1>1 DEF RedisInv, RefreshTypes, NoClient
  <2>2. refreshCancel' \in 0 .. MaxLoops /\ stopped' \subseteq Loops
    BY <1>1, RedisAssumption DEF RedisInv, RefreshTypes, NoLoop, Loops
  <2> QED
    BY <1>1, <2>1, <2>2, <2>3 DEF RedisInv, RefreshTypes
<1> QED
  BY <1>2, <1>3, <1>4 DEF RedisInv

LEMMA PassesStep == ASSUME RedisInv, Passes PROVE RedisInv'
<1>1. /\ limited' \in BOOLEAN /\ due' \in BOOLEAN
      /\ UNCHANGED <<iam, client, connected, refreshErr, token, Loop, fetched, Sockets, issued, shut>>
  BY DEF Passes, RedisInv, RefreshTypes
<1> QED
  BY <1>1 DEF RedisInv, RefreshTypes, OneClient, OneLoop, Sockets, Loop

LEMMA TickStep == ASSUME RedisInv, NEW l \in Loops, refreshTick(l) PROVE RedisInv'
<1>1. /\ lpc[l] = "wait" /\ UNCHANGED <<iam, client, connected, token, refreshLoopRunning, refreshCancel, refreshGeneration,
                                        limited, due, stopped, Sockets, shut>>
  BY DEF refreshTick
<1>2. CASE retrieveToken /\ fetched' = [fetched EXCEPT ![l] = issued + 1] /\ lpc' = [lpc EXCEPT ![l] = "apply"]
           /\ UNCHANGED refreshErr
  <2>1. RefreshTypes'
    BY <1>1, <1>2, FetchesToken DEF RedisInv, RefreshTypes, Sockets
  <2>2. OneLoop'
    BY <1>1, <1>2 DEF RedisInv, RefreshTypes, OneLoop, NoLoop, Loops
  <2>3. OneClient'
    BY <1>1 DEF RedisInv, OneClient, Sockets
  <2> QED
    BY <2>1, <2>2, <2>3 DEF RedisInv
<1>3. CASE refreshErr' = TRUE /\ UNCHANGED <<Tokens, fetched, lpc>>
  BY <1>1, <1>3 DEF RedisInv, RefreshTypes, OneClient, OneLoop, Sockets, Tokens
<1> QED
  BY <1>2, <1>3 DEF refreshTick

LEMMA ApplyStep == ASSUME RedisInv, NEW l \in Loops, applyTokenAndReconnect(l) PROVE RedisInv'
<1>1. /\ lpc[l] = "apply" /\ lpc' = [lpc EXCEPT ![l] = "wait"] /\ fetched' = [fetched EXCEPT ![l] = NoToken]
      /\ UNCHANGED <<iam, refreshLoopRunning, refreshCancel, refreshGeneration, limited, stopped, issued, shut>>
  BY DEF applyTokenAndReconnect, Tokens
<1>2. OneLoop'
  BY <1>1 DEF RedisInv, RefreshTypes, OneLoop, NoLoop, Loops
<1>3. CASE l \notin stopped /\ swapIn /\ token' = fetched[l] /\ due' = FALSE /\ refreshErr' = FALSE
  <2>1. l = refreshCancel /\ refreshCancel # NoLoop
    BY <1>1, <1>3 DEF RedisInv, RefreshTypes, OneLoop, Loops, NoLoop
  <2>2. OneClient'
    BY <1>1, <1>3, <2>1, SwapsClient DEF RedisInv, OneClient
  <2>3. token' \in 0 .. issued' /\ fetched' \in [Loops -> 0 .. issued'] /\ lpc' \in [Loops -> {"off", "wait", "apply", "done"}]
    BY <1>1, <1>3 DEF RedisInv, RefreshTypes, NoToken
  <2>4. RefreshTypes'
    BY <1>1, <1>3, <2>3, SwapsClient DEF RedisInv, RefreshTypes
  <2> QED
    BY <1>2, <2>2, <2>4 DEF RedisInv
<1>4. CASE refreshErr' = TRUE /\ UNCHANGED <<client, connected, token, due, Sockets>>
  BY <1>1, <1>2, <1>4 DEF RedisInv, RefreshTypes, OneClient, Sockets, NoToken
<1> QED
  BY <1>3, <1>4 DEF applyTokenAndReconnect, reconnectPings

LEMMA LoopEndsStep == ASSUME RedisInv, NEW l \in Loops, refreshTokenLoopEnds(l) PROVE RedisInv'
<1>1. /\ lpc[l] = "wait" /\ l \in stopped /\ lpc' = [lpc EXCEPT ![l] = "done"]
      /\ UNCHANGED <<iam, client, connected, refreshErr, token, refreshGeneration, limited, due, fetched, stopped,
                     Sockets, issued, shut>>
  BY DEF refreshTokenLoopEnds, Tokens
<1>2. l # refreshCancel
  BY <1>1 DEF RedisInv, OneLoop
<1>3. UNCHANGED <<refreshCancel, refreshLoopRunning>>
  <2>1. CASE refreshGeneration = l
    <3>1. refreshCancel = NoLoop /\ refreshLoopRunning = FALSE
      BY <1>2, <2>1 DEF RedisInv, RefreshTypes, OneLoop
    <3> QED
      BY <2>1, <3>1 DEF refreshTokenLoopEnds, currentGeneration
  <2>2. CASE refreshGeneration # l
    BY <2>2 DEF refreshTokenLoopEnds, currentGeneration
  <2> QED
    BY <2>1, <2>2
<1> QED
  BY <1>1, <1>2, <1>3 DEF RedisInv, RefreshTypes, OneClient, OneLoop, Sockets

(* The Redis client, however Connect, GetClient, Close, the passing of time*)
(* and any number of refresh loops interleave: one client at most is open, *)
(* a loop whose token is late brings no closed client back, and a client   *)
(* with IAM has exactly one loop, which Close can stop                     *)
(* (applyTokenAndReconnect, refreshTokenLoop, Close).                      *)
THEOREM RedisClientSoundHolds == RedisSpec => []RedisClientSound
<1>1. RedisInit => RedisInv
  <2> SUFFICES ASSUME RedisInit PROVE RedisInv
    OBVIOUS
  <2>1. lpc \in [Loops -> {"off", "wait", "apply", "done"}] /\ fetched \in [Loops -> 0 .. issued]
    BY DEF RedisInit, NoToken
  <2>5. /\ iam \in BOOLEAN /\ connected \in BOOLEAN /\ refreshErr \in BOOLEAN /\ limited \in BOOLEAN
        /\ due \in BOOLEAN /\ shut \in BOOLEAN /\ refreshLoopRunning \in BOOLEAN
    BY Zenon DEF RedisInit
  <2>6. /\ clientsMade \in Nat /\ client \in 0 .. clientsMade /\ issued \in Nat /\ token \in 0 .. issued
        /\ refreshGeneration \in 0 .. MaxLoops /\ refreshCancel \in 0 .. MaxLoops /\ stopped \subseteq Loops
    BY RedisAssumption DEF RedisInit, NoClient, NoLoop, NoToken
  <2>2. RefreshTypes
    BY <2>1, <2>5, <2>6 DEF RefreshTypes
  <2>3. OneClient
    BY DEF RedisInit, OneClient
  <2>4. OneLoop
    BY RedisAssumption DEF RedisInit, OneLoop, NoLoop, Loops
  <2> QED
    BY <2>2, <2>3, <2>4 DEF RedisInv
<1>2. RedisInv /\ [RedisNext]_rvars => RedisInv'
  <2> SUFFICES ASSUME RedisInv, [RedisNext]_rvars PROVE RedisInv'
    OBVIOUS
  <2>1. CASE Connect
    BY <2>1, ConnectStep DEF Connect, RedisInv, RefreshTypes
  <2>2. CASE GetClient
    <3>1. limited' \in BOOLEAN /\ connectLocked /\ UNCHANGED <<iam, fetched>>
      BY <2>2 DEF GetClient, Connected
    <3> QED
      BY <3>1, ConnectStep
  <2>3. CASE UNCHANGED rvars
    BY <2>3 DEF rvars, RedisInv, RefreshTypes, OneClient, OneLoop
  <2> QED
    BY <2>1, <2>2, <2>3, CloseStep, PassesStep, TickStep, ApplyStep, LoopEndsStep DEF RedisNext
<1>3. RedisInv => RedisClientSound
  <2> SUFFICES ASSUME RedisInv PROVE RedisClientSound
    OBVIOUS
  <2>1. Refreshing = {refreshCancel} \ {NoLoop}
    BY RedisAssumption DEF RedisInv, RefreshTypes, OneLoop, Refreshing, NoLoop, Loops
  <2> QED
    BY <2>1 DEF RedisInv, RefreshTypes, OneClient, OneLoop, RedisClientSound, RedisTypeOK
<1> QED
  BY <1>1, <1>2, <1>3, PTL DEF RedisSpec

-----------------------------------------------------------------------------
(* The database clients.                                                   *)

Building == {"primary", "replica", "ping"}
Reading  == {"pick", "begin", "cap", "fn", "checkCtx", "classify", "rollback"}
APool    == [build : Nat, role : {"primary", "replica"}]

ClientTypes ==
    /\ db \in DatabaseSetups /\ primary \in APool \cup {NoPool} /\ replica \in APool \cup {NoPool}
    /\ mu \in Users \cup {Free} /\ builds \in Nat /\ closed \in BOOLEAN /\ backingOff \in BOOLEAN
    /\ upc \in [Users -> Building \cup Reading \cup {"start", "slow", "closing", "index", "done"}]
    /\ built \in [Users -> SUBSET APool] /\ leaving \in [Users -> SUBSET APool]

(* Who is where with which client.                                         *)
LockHeld ==
    /\ \A u \in Users : upc[u] \in Building <=> mu = u
    /\ \A u \in Users : upc[u] = "replica" => db.kind = "replicated"
    /\ db.kind # "replicated" => replica = NoPool
    /\ \A u \in Users : upc[u] = "closing" => ~Mongo
    /\ closed => Mongo /\ primary = NoPool /\ mu = Free

(* What a goroutine has built and what it closes.                          *)
InHand ==
    \A u \in Users :
      /\ upc[u] \notin {"replica", "ping"} => built[u] = {}
      /\ upc[u] = "replica" => built[u] = {Pool(builds, "primary")}
      /\ upc[u] = "ping" => built[u] = {Pool(builds, "primary")}
                              \cup (IF db.kind = "replicated" THEN {Pool(builds, "replica")} ELSE {})
      /\ upc[u] # "closing" => leaving[u] = {}

(* A pool being built is younger than the ones in use and being closed.    *)
Ages ==
    /\ \A p \in Current : p.build <= builds /\ \A u \in Users : upc[u] \in {"replica", "ping"} => p.build < builds
    /\ \A v \in Users : \A p \in leaving[v] :
         p.build <= builds /\ \A u \in Users : upc[u] \in {"replica", "ping"} => p.build < builds
    /\ \A v \in Users : leaving[v] \cap Current = {}

Accounted ==
    /\ Current \subseteq openPools /\ \A u \in Users : built[u] \subseteq openPools
    /\ \A p \in openPools : p \in Current \/ \E u \in Users : p \in built[u] \cup leaving[u]
    /\ observed \subseteq openPools /\ (Mongo => observed = {})
    /\ db.kind \in {"replicated", "single"} => Current \subseteq observed /\ \A u \in Users : built[u] \subseteq observed

PoolInv == ClientTypes /\ LockHeld /\ InHand /\ Ages /\ Accounted

(* Where a read is, and what it knows.                                     *)
ReadTypes ==
    /\ ctx \in [Users -> {"live", "deadline", "cancelled"}] /\ tx \in [Users -> {"none", "open", "capped", "ended"}]
    /\ cause \in [Users -> {"none", "57014", "other", "context", "index", "txDeadline", "cancelled", "statementTimeout"}]
    /\ saw \in [Users -> {"nothing", "all", "cut", "died", "cap"}] /\ next \in [Users -> Nat \ {0}] /\ indexed \subseteq 1 .. MaxIndex
    /\ result \in [Users -> {"none", "nil", "failed", "closed", "backingOff", "injected", "disconnect", "nilClient", "rollback",
                             "other", "index", "txDeadline", "cancelled", "statementTimeout"}]

Waypoints ==
    \A u \in Users :
      /\ upc[u] # "done" => result[u] = "none"
      /\ upc[u] \in Building \cup {"slow"} => Plan(u) \in {"connect", "resolve", "read"}
      /\ upc[u] = "slow" => Plan(u) \in {"resolve", "read"}
      /\ upc[u] = "closing" => Plan(u) = "close"
      /\ upc[u] \in Reading => Plan(u) = "read"
      /\ upc[u] = "index" => Plan(u) = "indexes"
      /\ upc[u] = "start" => next[u] = 1
      /\ upc[u] \notin Reading \cup {"index", "done"} => cause[u] = "none"
      /\ upc[u] \notin {"cap", "fn", "checkCtx", "classify", "rollback", "done"} => tx[u] = "none"
      /\ upc[u] = "done" => tx[u] \in {"none", "ended"}

Knows ==
    \A u \in Users :
      /\ upc[u] \in {"pick", "begin", "cap", "fn", "checkCtx"} => cause[u] = "none"
      /\ upc[u] = "checkCtx" /\ ctx[u] = "live" => saw[u] # "died"
      /\ upc[u] = "classify" =>
           /\ cause[u] \in {"57014", "other", "context"}
           /\ ctx[u] = "live" => cause[u] # "context" /\ (cause[u] = "57014" => saw[u] = "cap")
      /\ upc[u] = "rollback" =>
           /\ cause[u] \in {"none", "other", "txDeadline", "cancelled", "statementTimeout"}
           /\ cause[u] = "none" => saw[u] # "died"
           /\ cause[u] = "statementTimeout" => saw[u] = "cap"
      /\ upc[u] = "index" => cause[u] \in {"none", "index"}
      /\ upc[u] = "index" /\ cause[u] = "none" => 1 .. next[u] - 1 \subseteq indexed
      /\ Plan(u) = "read" /\ result[u] = "nil" => saw[u] # "died"
      /\ result[u] = "statementTimeout" => saw[u] = "cap"
      /\ Plan(u) = "indexes" /\ result[u] = "nil" => 1 .. MaxIndex \subseteq indexed

ReadInv == ReadTypes /\ Waypoints /\ Knows

LEMMA PoolIs == \A n \in Nat, r \in {"primary", "replica"} : Pool(n, r) \in APool /\ Pool(n, r) # NoPool /\ Pool(n, r).build = n
  BY DEF Pool, APool, NoPool

-----------------------------------------------------------------------------
(* A step that moves no pool, and nobody into or out of a build or a Close.*)
LEMMA PoolsRest ==
  ASSUME PoolInv, UNCHANGED <<db, primary, replica, closed, mu, builds, openPools, observed, built, leaving>>,
         backingOff' \in BOOLEAN,
         upc' \in [Users -> Building \cup Reading \cup {"start", "slow", "closing", "index", "done"}],
         \A u \in Users : upc'[u] = upc[u] \/ (upc[u] \notin Building \cup {"closing"} /\ upc'[u] \notin Building \cup {"closing"})
  PROVE  PoolInv'
<1>1. ClientTypes'
  BY DEF PoolInv, ClientTypes
<1>2. LockHeld'
  BY DEF PoolInv, LockHeld, Mongo, Building
<1>3. InHand'
  BY DEF PoolInv, InHand, Building
<1>4. Ages'
  BY DEF PoolInv, Ages, Current, Building
<1>5. Accounted'
  BY DEF PoolInv, Accounted, Current, Mongo
<1> QED
  BY <1>1, <1>2, <1>3, <1>4, <1>5 DEF PoolInv

(* The write lock is taken to build.                                       *)
LEMMA PoolsLock ==
  ASSUME PoolInv, NEW u \in Users, mu = Free, mu' = u, upc' = [upc EXCEPT ![u] = "primary"],
         upc[u] \in {"start", "slow"}, ~closed, backingOff' \in BOOLEAN,
         UNCHANGED <<db, primary, replica, closed, builds, openPools, observed, built, leaving>>
  PROVE  PoolInv'
<1>1. ClientTypes'
  BY DEF PoolInv, ClientTypes, Building
<1>2. LockHeld'
  BY DatabaseAssumption DEF PoolInv, ClientTypes, LockHeld, Mongo, Building
<1>3. InHand'
  BY DEF PoolInv, ClientTypes, InHand
<1>4. Ages'
  BY DEF PoolInv, ClientTypes, Ages, Current
<1>5. Accounted'
  BY DEF PoolInv, Accounted, Current, Mongo
<1> QED
  BY <1>1, <1>2, <1>3, <1>4, <1>5 DEF PoolInv

(* One pool more.                                                          *)
LEMMA PoolsGrow ==
  ASSUME PoolInv, NEW u \in Users, NEW p \in APool, newSQLDB(u, p), UNCHANGED <<db, primary, replica, closed, mu, leaving, backingOff>>,
         \/ upc[u] = "primary" /\ p = Pool(builds + 1, "primary")
            /\ upc' = [upc EXCEPT ![u] = IF db.kind = "replicated" THEN "replica" ELSE "ping"]
         \/ upc[u] = "replica" /\ p = Pool(builds, "replica") /\ upc' = [upc EXCEPT ![u] = "ping"]
  PROVE  PoolInv'
<1> USE DEF PoolInv
<1>1. mu = u /\ (\A w \in Users : upc[w] \in Building => w = u) /\ upc[u] \in Building
  BY DEF LockHeld, Building
<1>2. /\ builds' = p.build /\ openPools' = openPools \cup {p} /\ built' = [built EXCEPT ![u] = @ \cup {p}]
      /\ observed' = IF Mongo THEN observed ELSE observed \cup {p}
  BY DEF newSQLDB
<1>3. /\ builds' \in Nat /\ builds <= builds' /\ (upc[u] = "primary" => builds' = builds + 1)
      /\ (upc[u] = "replica" => builds' = builds)
  BY <1>2, PoolIs DEF ClientTypes
<1>4. built'[u] = built[u] \cup {p} /\ \A w \in Users \ {u} : built'[w] = built[w] /\ upc'[w] = upc[w]
  BY <1>2 DEF ClientTypes
<1>5. upc'[u] = (IF upc[u] = "primary" /\ db.kind = "replicated" THEN "replica" ELSE "ping")
  BY DEF ClientTypes
<1>6. ClientTypes'
  BY <1>2, <1>3 DEF ClientTypes, Building
<1>7. LockHeld'
  BY <1>1, <1>4, <1>5 DEF LockHeld, Building, Mongo
<1>8. InHand'
  <2>1. ASSUME NEW w \in Users \ {u} PROVE InHand!(w)'
    <3>1. upc[w] \notin Building
      BY <1>1
    <3> QED
      BY <1>4, <3>1 DEF InHand, Building
  <2>2. InHand!(u)'
    <3>1. CASE upc[u] = "primary"
      BY <1>2, <1>3, <1>4, <1>5, <3>1, PoolIs DEF InHand, ClientTypes
    <3>2. CASE upc[u] = "replica"
      <4>1. db.kind = "replicated"
        BY <3>2 DEF LockHeld
      <4> QED
        BY <1>2, <1>3, <1>4, <1>5, <3>2, <4>1 DEF InHand
    <3> QED
      BY <3>1, <3>2
  <2> QED
    BY <2>1, <2>2 DEF InHand
<1>9. Ages'
  <2>1. \A q \in Current : q.build \in Nat /\ q.build <= builds /\ (upc[u] = "replica" => q.build < builds)
    BY DEF Ages, Current, ClientTypes, APool
  <2>2. \A v \in Users : \A q \in leaving[v] : q.build \in Nat /\ q.build <= builds /\ (upc[u] = "replica" => q.build < builds)
    BY DEF Ages, ClientTypes, APool
  <2>3. builds \in Nat /\ Current' = Current
    BY DEF ClientTypes, Current
  <2>4. \A q \in Current : q.build < builds'
    BY <1>3, <2>1, <2>3
  <2>5. \A v \in Users : \A q \in leaving[v] : q.build < builds'
    BY <1>3, <2>2, <2>3
  <2>6. (\A q \in Current : q.build <= builds') /\ \A v \in Users : \A q \in leaving[v] : q.build <= builds'
    BY <1>3, <2>1, <2>2, <2>4, <2>5
  <2> QED
    BY <2>3, <2>4, <2>5, <2>6 DEF Ages
<1>10. Accounted'
  <2>1. Current' = Current
    BY DEF Current
  <2>2. Current \subseteq openPools' /\ \A w \in Users : built'[w] \subseteq openPools'
    BY <1>2, <1>4 DEF Accounted
  <2>3. \A q \in openPools' : q \in Current \/ \E w \in Users : q \in built'[w] \cup leaving'[w]
    BY <1>2, <1>4 DEF Accounted
  <2>4. observed' \subseteq openPools' /\ (Mongo' => observed' = {})
    BY <1>2 DEF Accounted, Mongo
  <2>5. db.kind \in {"replicated", "single"} => Current \subseteq observed' /\ \A w \in Users : built'[w] \subseteq observed'
    BY <1>2, <1>4 DEF Accounted, Mongo
  <2> QED
    BY <2>1, <2>2, <2>3, <2>4, <2>5 DEF Accounted, Mongo
<1> QED
  BY <1>6, <1>7, <1>8, <1>9, <1>10

(* The build failed and is taken back.                                     *)
LEMMA PoolsUnbuild ==
  ASSUME PoolInv, NEW u \in Users, upc[u] \in Building, Unbuild(u), UNCHANGED <<db, primary, replica, closed, leaving>>
  PROVE  PoolInv'
<1> USE DEF PoolInv
<1>1. mu = u /\ mu # Free /\ (\A w \in Users : upc[w] \in Building => w = u)
  BY DatabaseAssumption DEF LockHeld
<1>2. /\ openPools' = openPools \ built[u] /\ observed' = observed \ built[u] /\ built' = [built EXCEPT ![u] = {}]
      /\ mu' = Free /\ upc' = [upc EXCEPT ![u] = "done"] /\ builds' = builds /\ backingOff' \in BOOLEAN
  BY DEF Unbuild, Fails, UserGoesTo, ClientTypes
<1>3. ~closed /\ Current' = Current
  BY <1>1 DEF LockHeld, Current
<1>4. \A w \in Users : upc'[w] \notin Building /\ built'[w] = {} /\ (w # u => upc'[w] = upc[w])
  BY <1>1, <1>2 DEF ClientTypes, InHand, Building
<1>5. ClientTypes'
  BY <1>2 DEF ClientTypes
<1>6. LockHeld'
  BY <1>2, <1>3, <1>4, DatabaseAssumption DEF LockHeld, Mongo, ClientTypes, Building
<1>7. InHand'
  BY <1>2, <1>4 DEF InHand, Building, ClientTypes
<1>8. Ages'
  BY <1>2, <1>3, <1>4 DEF Ages, Building
<1>9. Accounted'
  <2>1. \A q \in built[u] : q.build = builds /\ upc[u] \in {"replica", "ping"}
    BY PoolIs DEF InHand, ClientTypes
  <2>2. Current \cap built[u] = {}
    <3> SUFFICES ASSUME NEW q \in Current, q \in built[u] PROVE FALSE
      OBVIOUS
    <3>1. q.build = builds /\ q.build < builds /\ builds \in Nat
      BY <2>1 DEF Ages, ClientTypes
    <3> QED
      BY <3>1
  <2>3. \A q \in openPools' : q \in Current \/ \E w \in Users : q \in leaving[w]
    <3> SUFFICES ASSUME NEW q \in openPools', q \notin Current PROVE \E w \in Users : q \in leaving[w]
      OBVIOUS
    <3>1. PICK w \in Users : q \in built[w] \cup leaving[w]
      BY <1>2 DEF Accounted
    <3>2. q \notin built[w]
      <4>1. CASE w = u
        BY <1>2, <4>1
      <4>2. CASE w # u
        BY <1>1, <4>2 DEF InHand, Building
      <4> QED
        BY <4>1, <4>2
    <3> QED
      BY <3>1, <3>2
  <2> QED
    BY <1>2, <1>3, <1>4, <2>2, <2>3 DEF Accounted, Mongo
<1> QED
  BY <1>5, <1>6, <1>7, <1>8, <1>9

(* The new pools take the place of the old ones.                           *)
LEMMA PoolsExchange ==
  ASSUME PoolInv, NEW u \in Users, upc[u] = "ping", Exchange(u), UNCHANGED <<db, closed, leaving>>
  PROVE  PoolInv'
<1> USE DEF PoolInv
<1>1. mu = u /\ mu # Free /\ (\A w \in Users : upc[w] \in Building => w = u) /\ ~closed /\ builds \in Nat
  BY DatabaseAssumption DEF LockHeld, ClientTypes, Building
<1>2. /\ primary' = Pool(builds, "primary")
      /\ replica' = IF db.kind = "replicated" THEN Pool(builds, "replica") ELSE NoPool
      /\ openPools' = openPools \ Current /\ observed' = observed \ Current
      /\ built' = [built EXCEPT ![u] = {}] /\ mu' = Free /\ builds' = builds /\ backingOff' \in BOOLEAN
  BY DEF Exchange, ClientTypes
<1>3. upc' = [upc EXCEPT ![u] = "done"] \/ upc' = [upc EXCEPT ![u] = "pick"]
  BY DEF Exchange, Handed, Returns, UserGoesTo
<1>4. \A w \in Users : upc'[w] \notin Building /\ built'[w] = {} /\ (w # u => upc'[w] = upc[w]) /\ upc'[u] # "closing"
  BY <1>1, <1>2, <1>3 DEF ClientTypes, InHand, Building
<1>5. Current' = built[u]
  <2>1. built[u] = {Pool(builds, "primary")} \cup (IF db.kind = "replicated" THEN {Pool(builds, "replica")} ELSE {})
    BY DEF InHand
  <2>2. Pool(builds, "primary") # NoPool /\ Pool(builds, "replica") # NoPool
    BY <1>1, PoolIs
  <2> QED
    BY <1>2, <2>1, <2>2 DEF Current
<1>6. \A q \in built[u] : q.build = builds
  BY <1>1, PoolIs DEF InHand
<1>7. ClientTypes'
  <2>1. primary' \in APool /\ replica' \in APool \cup {NoPool}
    BY <1>1, <1>2, PoolIs
  <2>2. upc' \in [Users -> Building \cup Reading \cup {"start", "slow", "closing", "index", "done"}]
    BY <1>3 DEF ClientTypes, Reading
  <2> QED
    BY <1>2, <2>1, <2>2 DEF ClientTypes
<1>8. LockHeld'
  BY <1>1, <1>2, <1>4, DatabaseAssumption DEF LockHeld, Mongo, ClientTypes, Building
<1>9. InHand'
  BY <1>2, <1>4 DEF InHand, Building, ClientTypes
<1>10. Ages'
  <2>1. \A v \in Users : \A q \in leaving[v] : q.build < builds /\ q.build <= builds /\ q \notin built[u]
    <3> SUFFICES ASSUME NEW v \in Users, NEW q \in leaving[v]
                 PROVE  q.build < builds /\ q.build <= builds /\ q \notin built[u]
      OBVIOUS
    <3>1. q.build < builds /\ q.build \in Nat
      BY DEF Ages, ClientTypes, APool
    <3> QED
      BY <1>1, <1>6, <3>1
  <2> QED
    BY <1>1, <1>2, <1>4, <1>5, <1>6, <2>1 DEF Ages, Building
<1>11. Accounted'
  <2>1. Current \cap built[u] = {}
    <3> SUFFICES ASSUME NEW q \in Current, q \in built[u] PROVE FALSE
      OBVIOUS
    <3>1. q.build = builds /\ q.build < builds
      BY <1>6 DEF Ages
    <3> QED
      BY <1>1, <3>1
  <2>2. \A q \in openPools' : q \in built[u] \/ \E w \in Users : q \in leaving[w]
    <3> SUFFICES ASSUME NEW q \in openPools', q \notin built[u] PROVE \E w \in Users : q \in leaving[w]
      OBVIOUS
    <3>1. PICK w \in Users : q \in built[w] \cup leaving[w]
      BY <1>2 DEF Accounted
    <3>2. w # u => built[w] = {}
      BY <1>1 DEF InHand, Building
    <3> QED
      BY <3>1, <3>2
  <2> QED
    BY <1>2, <1>4, <1>5, <2>1, <2>2 DEF Accounted, Mongo
<1> QED
  BY <1>7, <1>8, <1>9, <1>10, <1>11

(* Close of a Postgres client takes the pools out ...                      *)
LEMMA PoolsClose == ASSUME PoolInv, NEW u \in Users, ClosePostgres(u) PROVE PoolInv'
<1> USE DEF PoolInv
<1>1. /\ upc[u] = "start" /\ ~Mongo /\ mu = Free /\ leaving' = [leaving EXCEPT ![u] = Current]
      /\ primary' = NoPool /\ replica' = NoPool /\ upc' = [upc EXCEPT ![u] = "closing"]
      /\ UNCHANGED <<db, closed, backingOff, mu, builds, openPools, observed, built>>
  BY DEF ClosePostgres, UserGoesTo, Pools
<1>2. Current' = {} /\ Current \subseteq APool
  BY <1>1 DEF Current, ClientTypes
<1>3. /\ upc'[u] = "closing" /\ leaving'[u] = Current /\ leaving[u] = {}
      /\ \A w \in Users \ {u} : upc'[w] = upc[w] /\ leaving'[w] = leaving[w]
  BY <1>1 DEF ClientTypes, InHand
<1>4. \A w \in Users : upc[w] \notin Building /\ built[w] = {}
  BY <1>1, DatabaseAssumption DEF LockHeld, InHand, Building
<1>5. ClientTypes'
  BY <1>1, <1>2 DEF ClientTypes
<1>6. LockHeld'
  BY <1>1, <1>3 DEF LockHeld, Mongo, Building
<1>7. InHand'
  BY <1>1, <1>3, <1>4 DEF InHand, Building
<1>8. Ages'
  BY <1>1, <1>2, <1>3, <1>4 DEF Ages, Building
<1>9. Accounted'
  BY <1>1, <1>2, <1>3, <1>4 DEF Accounted, Mongo
<1> QED
  BY <1>5, <1>6, <1>7, <1>8, <1>9

(* ... and closes them after it.                                           *)
LEMMA PoolsLeave == ASSUME PoolInv, NEW u \in Users, ClosesPools(u) PROVE PoolInv'
<1> USE DEF PoolInv
<1>1. /\ upc[u] = "closing" /\ upc' = [upc EXCEPT ![u] = "done"] /\ leaving' = [leaving EXCEPT ![u] = {}]
      /\ openPools' = openPools \ leaving[u] /\ observed' = observed \ leaving[u]
      /\ UNCHANGED <<db, primary, replica, closed, backingOff, mu, builds, built>>
  BY DEF ClosesPools, Returns, UserGoesTo, Shared
<1>2. Current' = Current
  BY <1>1 DEF Current
<1>3. /\ upc'[u] = "done" /\ leaving'[u] = {}
      /\ \A w \in Users \ {u} : upc'[w] = upc[w] /\ leaving'[w] = leaving[w]
  BY <1>1 DEF ClientTypes
<1>4. built[u] = {}
  BY <1>1 DEF InHand
<1>5. \A w \in Users : built[w] \cap leaving[u] = {}
  <2> SUFFICES ASSUME NEW w \in Users, NEW q \in built[w], q \in leaving[u] PROVE FALSE
    OBVIOUS
  <2>1. q.build = builds /\ upc[w] \in {"replica", "ping"} /\ builds \in Nat
    BY PoolIs DEF InHand, ClientTypes
  <2>2. q.build < builds
    BY <2>1 DEF Ages
  <2> QED
    BY <2>1, <2>2
<1>6. ClientTypes'
  BY <1>1 DEF ClientTypes
<1>7. LockHeld'
  BY <1>1, <1>3 DEF LockHeld, Mongo, Building
<1>8. InHand'
  BY <1>1, <1>3, <1>4 DEF InHand
<1>9. Ages'
  BY <1>1, <1>2, <1>3 DEF Ages
<1>10. Accounted'
  <2>1. Current \cap leaving[u] = {}
    BY DEF Ages
  <2> QED
    BY <1>1, <1>2, <1>3, <1>5, <2>1 DEF Accounted, Mongo
<1> QED
  BY <1>6, <1>7, <1>8, <1>9, <1>10

LEMMA PoolsCloseMongo == ASSUME PoolInv, NEW u \in Users, CloseMongo(u) PROVE PoolInv'
<1> USE DEF PoolInv
<1>1. /\ upc[u] = "start" /\ Mongo /\ mu = Free /\ closed' = TRUE /\ openPools' = openPools \ {primary} /\ primary' = NoPool
      /\ upc' = [upc EXCEPT ![u] = "done"]
      /\ UNCHANGED <<db, replica, backingOff, mu, builds, observed, built, leaving>>
  BY DEF CloseMongo, Returns, Fails, UserGoesTo, Mine
<1>2. replica = NoPool /\ Current = {primary} \ {NoPool} /\ Current' = {}
  BY <1>1 DEF LockHeld, Mongo, Current
<1>3. \A w \in Users : upc[w] \notin Building /\ upc[w] # "closing" /\ built[w] = {} /\ leaving[w] = {}
  BY <1>1, DatabaseAssumption DEF LockHeld, InHand, Building
<1>4. upc'[u] = "done" /\ \A w \in Users \ {u} : upc'[w] = upc[w]
  BY <1>1 DEF ClientTypes
<1>5. ClientTypes'
  BY <1>1 DEF ClientTypes
<1>6. LockHeld'
  BY <1>1, <1>4 DEF LockHeld, Mongo, Building
<1>7. InHand'
  BY <1>1, <1>3, <1>4 DEF InHand, Building
<1>8. Ages'
  BY <1>1, <1>2, <1>3, <1>4 DEF Ages, Building
<1>9. Accounted'
  BY <1>1, <1>2, <1>3 DEF Accounted, Mongo
<1> QED
  BY <1>5, <1>6, <1>7, <1>8, <1>9

-----------------------------------------------------------------------------
(* A step that leaves contexts, transactions and reads alone: a goroutine  *)
(* goes from one place outside a read to another, or ends.                 *)
LEMMA ReadsRest ==
  ASSUME ClientTypes, ReadInv, NEW u \in Users, NEW to, NEW r,
         UNCHANGED <<db, ctx, tx, cause, saw, indexed, next>>,
         upc' = [upc EXCEPT ![u] = to], result' = [result EXCEPT ![u] = r],
         upc[u] \notin Reading \cup {"index", "done"},
         \/ /\ to \in Building \cup {"slow", "closing", "pick"} /\ r = "none"
            /\ to \in Building => Plan(u) \in {"connect", "resolve", "read"}
            /\ to = "slow" => Plan(u) \in {"resolve", "read"}
            /\ to = "closing" => Plan(u) = "close"
            /\ to = "pick" => Plan(u) = "read"
         \/ /\ to = "done" /\ r \in {"nil", "failed", "closed", "backingOff", "injected", "disconnect"}
            /\ r = "nil" => Plan(u) \notin {"read", "indexes"}
  PROVE  ReadInv'
<1>1. Plan(u)' = Plan(u) /\ \A w \in Users : Plan(w)' = Plan(w)
  BY DEF Plan
<1>2. \A w \in Users : upc'[w] = (IF w = u THEN to ELSE upc[w]) /\ result'[w] = (IF w = u THEN r ELSE result[w])
  BY DEF ClientTypes, ReadInv, ReadTypes
<1>3. ReadTypes'
  BY DEF ReadInv, ReadTypes
<1>4. Waypoints'
  BY <1>1, <1>2 DEF ReadInv, Waypoints, Building, Reading
<1>5. Knows'
  BY <1>1, <1>2 DEF ReadInv, Knows, Waypoints, Building, Reading
<1> QED
  BY <1>3, <1>4, <1>5 DEF ReadInv

(* The result stays none while a goroutine goes on.                        *)
LEMMA NoResultYet ==
  ASSUME ReadInv, NEW u \in Users, upc[u] # "done"
  PROVE  result = [result EXCEPT ![u] = "none"]
  BY DEF ReadInv, ReadTypes, Waypoints

LEMMA HandedOn ==
  ASSUME ReadInv, NEW u \in Users, upc[u] # "done", Handed(u)
  PROVE  \/ Plan(u) = "resolve" /\ upc' = [upc EXCEPT ![u] = "done"] /\ result' = [result EXCEPT ![u] = "nil"]
         \/ Plan(u) # "resolve" /\ upc' = [upc EXCEPT ![u] = "pick"] /\ result' = [result EXCEPT ![u] = "none"]
  BY NoResultYet DEF Handed, Returns, UserGoesTo

(* The steps that connect, resolve and close.                              *)
Connecting(u) ==
    \/ ConnectPostgres(u) \/ ConnectMongo(u) \/ ResolverFast(u) \/ Resolver(u) \/ OpenPrimary(u) \/ buildConnection(u)
    \/ connectPostgresLocked(u) \/ connectMongoLocked(u) \/ ClosePostgres(u) \/ ClosesPools(u) \/ CloseMongo(u)

(* One goroutine on its way through a read or through its indexes.         *)
Using(u) ==
    \/ Client(u) \/ EnsureIndexes(u) \/ PicksPool(u) \/ RunReadOnly(u) \/ applyStatementTimeout(u)
    \/ RunsFn(u) \/ AsksContext(u) \/ Classifies(u) \/ closeReadOnly(u) \/ ContextEnds(u)

(* What any of them does to its goroutine.                                 *)
LEMMA ConnectingMoves ==
  ASSUME PoolInv, ReadInv, NEW u \in Users, Connecting(u)
  PROVE  /\ UNCHANGED <<db, handle, ctx, tx, cause, saw, indexed, next>>
         /\ upc[u] \in Building \cup {"start", "slow", "closing"}
         /\ \E to \in Building \cup {"slow", "closing", "pick", "done"}, r \in {"none", "nil", "failed", "closed", "backingOff", "injected", "disconnect"} :
              /\ upc' = [upc EXCEPT ![u] = to] /\ result' = [result EXCEPT ![u] = r]
              /\ to # "done" => r = "none"
              /\ to = "done" => r # "none"
              /\ to \in Building => Plan(u) \in {"connect", "resolve", "read"}
              /\ to = "slow" => Plan(u) \in {"resolve", "read"}
              /\ to = "closing" => Plan(u) = "close"
              /\ to = "pick" => Plan(u) = "read"
              /\ r = "nil" => Plan(u) \notin {"read", "indexes"}
<1> DEFINE Moves(to, r) == upc' = [upc EXCEPT ![u] = to] /\ result' = [result EXCEPT ![u] = r]
<1>0. Plan(u) \in {"connect", "resolve", "read", "close", "indexes"}
  BY DatabaseAssumption DEF Plan, PoolInv, ClientTypes
<1>1. upc[u] # "done" => result = [result EXCEPT ![u] = "none"]
  BY NoResultYet
<1>2. CASE ConnectPostgres(u)
  <2>1. /\ UNCHANGED <<db, handle, ctx, tx, cause, saw, indexed, next>> /\ upc[u] = "start" /\ Plan(u) = "connect"
        /\ Moves("done", "injected") \/ Moves("primary", "none")
    BY <1>1, <1>2 DEF ConnectPostgres, Read, Fails, UserGoesTo
  <2> QED
    BY <2>1 DEF Building
<1>3. CASE ConnectMongo(u)
  <2>1. /\ UNCHANGED <<db, handle, ctx, tx, cause, saw, indexed, next>> /\ upc[u] = "start" /\ Plan(u) = "connect"
        /\ Moves("done", "closed") \/ Moves("done", "nil") \/ Moves("primary", "none")
    BY <1>1, <1>3 DEF ConnectMongo, Read, Fails, Returns, UserGoesTo
  <2> QED
    BY <2>1 DEF Building
<1>4. CASE ResolverFast(u)
  <2>1. /\ UNCHANGED <<db, handle, ctx, tx, cause, saw, indexed, next>> /\ upc[u] = "start" /\ Plan(u) \in {"resolve", "read"}
        /\ Moves("done", "closed") \/ (Plan(u) = "resolve" /\ Moves("done", "nil")) \/ (Plan(u) = "read" /\ Moves("pick", "none"))
           \/ Moves("slow", "none")
    BY <1>1, <1>4, HandedOn DEF ResolverFast, Read, Fails, UserGoesTo
  <2> QED
    BY <2>1 DEF Building
<1>5. CASE Resolver(u)
  <2>1. Plan(u) \in {"resolve", "read"} /\ upc[u] = "slow"
    BY <1>5 DEF Resolver, ReadInv, Waypoints
  <2>2. /\ UNCHANGED <<db, handle, ctx, tx, cause, saw, indexed, next>>
        /\ Moves("done", "closed") \/ (Plan(u) = "resolve" /\ Moves("done", "nil")) \/ (Plan(u) = "read" /\ Moves("pick", "none"))
           \/ Moves("done", "injected") \/ Moves("done", "backingOff") \/ Moves("primary", "none")
    BY <1>1, <1>5, <2>1, HandedOn DEF Resolver, Read, Fails, UserGoesTo
  <2> QED
    BY <2>1, <2>2 DEF Building
<1>6. CASE OpenPrimary(u) \/ buildConnection(u)
  <2>1. upc[u] \in Building /\ Plan(u) \in {"connect", "resolve", "read"}
    BY <1>6 DEF OpenPrimary, buildConnection, ReadInv, Waypoints, Building
  <2>2. upc[u] # "done"
    BY <2>1 DEF Building
  <2>3. /\ UNCHANGED <<db, handle, ctx, tx, cause, saw, indexed, next>>
        /\ Moves("replica", "none") \/ Moves("ping", "none") \/ Moves("done", "failed")
    BY <1>1, <1>6, <2>2 DEF OpenPrimary, buildConnection, Unbuild, Read, Fails, UserGoesTo
  <2> QED
    BY <2>1, <2>3 DEF Building
<1>7. CASE connectPostgresLocked(u) \/ connectMongoLocked(u)
  <2>1. upc[u] = "ping" /\ Plan(u) \in {"connect", "resolve", "read"}
    BY <1>7 DEF connectPostgresLocked, connectMongoLocked, ReadInv, Waypoints, Building
  <2>2. UNCHANGED <<db, handle, ctx, tx, cause, saw, indexed, next>> /\ (Exchange(u) \/ Unbuild(u))
    BY <1>7 DEF connectPostgresLocked, connectMongoLocked, Read
  <2>3. Moves("done", "failed") \/ (Plan(u) # "read" /\ Moves("done", "nil")) \/ (Plan(u) = "read" /\ Moves("pick", "none"))
    BY <2>1, <2>2, HandedOn DEF Exchange, Unbuild, Returns, Fails, UserGoesTo
  <2> QED
    BY <2>1, <2>2, <2>3 DEF Building
<1>8. CASE ClosePostgres(u)
  <2>1. /\ UNCHANGED <<db, handle, ctx, tx, cause, saw, indexed, next>> /\ upc[u] = "start" /\ Plan(u) = "close"
        /\ Moves("closing", "none")
    BY <1>1, <1>8 DEF ClosePostgres, Read, UserGoesTo
  <2> QED
    BY <2>1 DEF Building
<1>9. CASE ClosesPools(u)
  <2>1. /\ UNCHANGED <<db, handle, ctx, tx, cause, saw, indexed, next>> /\ upc[u] = "closing" /\ Moves("done", "nil")
    BY <1>9 DEF ClosesPools, Read, Returns, UserGoesTo
  <2>2. Plan(u) = "close"
    BY <2>1 DEF ReadInv, Waypoints
  <2> QED
    BY <2>1, <2>2 DEF Building
<1>10. CASE CloseMongo(u)
  <2>1. /\ UNCHANGED <<db, handle, ctx, tx, cause, saw, indexed, next>> /\ upc[u] = "start" /\ Plan(u) = "close"
        /\ Moves("done", "nil") \/ Moves("done", "disconnect")
    BY <1>10 DEF CloseMongo, Read, Returns, Fails, UserGoesTo
  <2> QED
    BY <2>1 DEF Building
<1> QED
  BY <1>2, <1>3, <1>4, <1>5, <1>6, <1>7, <1>8, <1>9, <1>10 DEF Connecting

LEMMA ConnectingReads ==
  ASSUME PoolInv, ReadInv, NEW u \in Users, Connecting(u)
  PROVE  ReadInv'
<1>1. PICK to \in Building \cup {"slow", "closing", "pick", "done"},
           r \in {"none", "nil", "failed", "closed", "backingOff", "injected", "disconnect"} :
              /\ upc' = [upc EXCEPT ![u] = to] /\ result' = [result EXCEPT ![u] = r]
              /\ to # "done" => r = "none"
              /\ to = "done" => r # "none"
              /\ to \in Building => Plan(u) \in {"connect", "resolve", "read"}
              /\ to = "slow" => Plan(u) \in {"resolve", "read"}
              /\ to = "closing" => Plan(u) = "close"
              /\ to = "pick" => Plan(u) = "read"
              /\ r = "nil" => Plan(u) \notin {"read", "indexes"}
  BY ConnectingMoves
<1>2. UNCHANGED <<db, ctx, tx, cause, saw, indexed, next>> /\ upc[u] \notin Reading \cup {"index", "done"}
  BY ConnectingMoves DEF Building, Reading
<1>3. ClientTypes
  BY DEF PoolInv
<1>4. CASE to = "done"
  BY <1>1, <1>2, <1>3, <1>4, ReadsRest
<1>5. CASE to # "done"
  BY <1>1, <1>2, <1>3, <1>5, ReadsRest
<1> QED
  BY <1>4, <1>5

LEMMA ConnectingPools ==
  ASSUME PoolInv, ReadInv, NEW u \in Users, Connecting(u)
  PROVE  PoolInv'
<1> DEFINE Held == <<db, primary, replica, closed, builds, openPools, observed, built, leaving>>
<1>1. CASE ConnectPostgres(u) \/ ConnectMongo(u) \/ ResolverFast(u) \/ Resolver(u)
  <2>1. UNCHANGED Held /\ backingOff' \in BOOLEAN /\ upc[u] \in {"start", "slow"}
    BY <1>1 DEF ConnectPostgres, ConnectMongo, ResolverFast, Resolver, Shared, Pools, Mine, PoolInv, ClientTypes
  <2>2. \/ mu' = mu /\ \E to \in {"slow", "pick", "done"} : upc' = [upc EXCEPT ![u] = to]
        \/ mu = Free /\ ~closed /\ mu' = u /\ upc' = [upc EXCEPT ![u] = "primary"]
    BY <1>1 DEF ConnectPostgres, ConnectMongo, ResolverFast, Resolver, Handed, Returns, Fails, UserGoesTo, PoolInv, LockHeld
  <2>3. CASE mu' = mu /\ \E to \in {"slow", "pick", "done"} : upc' = [upc EXCEPT ![u] = to]
    <3>1. PICK to \in {"slow", "pick", "done"} : upc' = [upc EXCEPT ![u] = to]
      BY <2>3
    <3>2. upc' \in [Users -> Building \cup Reading \cup {"start", "slow", "closing", "index", "done"}]
      BY <3>1 DEF PoolInv, ClientTypes, Reading
    <3>3. \A w \in Users : upc'[w] = upc[w] \/ (upc[w] \notin Building \cup {"closing"} /\ upc'[w] \notin Building \cup {"closing"})
      BY <2>1, <3>1 DEF PoolInv, ClientTypes, Building
    <3> QED
      BY <2>1, <2>3, <3>2, <3>3, PoolsRest
  <2>4. CASE mu = Free /\ ~closed /\ mu' = u /\ upc' = [upc EXCEPT ![u] = "primary"]
    BY <2>1, <2>4, PoolsLock
  <2> QED
    BY <2>2, <2>3, <2>4
<1>2. CASE OpenPrimary(u)
  <2>1. CASE Unbuild(u)
    BY <1>2, <2>1, PoolsUnbuild DEF OpenPrimary, Building
  <2>2. CASE newSQLDB(u, Pool(builds + 1, "primary")) /\ UserGoesTo(u, IF db.kind = "replicated" THEN "replica" ELSE "ping")
             /\ UNCHANGED <<backingOff, mu>>
    <3>1. Pool(builds + 1, "primary") \in APool
      BY PoolIs DEF PoolInv, ClientTypes
    <3> QED
      BY <1>2, <2>2, <3>1, PoolsGrow DEF OpenPrimary, UserGoesTo
  <2> QED
    BY <1>2, <2>1, <2>2 DEF OpenPrimary
<1>3. CASE buildConnection(u)
  <2>1. CASE Unbuild(u)
    BY <1>3, <2>1, PoolsUnbuild DEF buildConnection, Building
  <2>2. CASE newSQLDB(u, Pool(builds, "replica")) /\ UserGoesTo(u, "ping") /\ UNCHANGED <<backingOff, mu>>
    <3>1. Pool(builds, "replica") \in APool
      BY PoolIs DEF PoolInv, ClientTypes
    <3> QED
      BY <1>3, <2>2, <3>1, PoolsGrow DEF buildConnection, UserGoesTo
  <2> QED
    BY <1>3, <2>1, <2>2 DEF buildConnection
<1>4. CASE connectPostgresLocked(u) \/ connectMongoLocked(u)
  <2>1. upc[u] = "ping" /\ UNCHANGED <<db, closed, leaving>>
    BY <1>4 DEF connectPostgresLocked, connectMongoLocked
  <2>2. CASE Exchange(u)
    BY <2>1, <2>2, PoolsExchange
  <2>3. CASE Unbuild(u) /\ UNCHANGED <<primary, replica>>
    BY <2>1, <2>3, PoolsUnbuild DEF Building
  <2> QED
    BY <1>4, <2>2, <2>3 DEF connectPostgresLocked, connectMongoLocked
<1> QED
  BY <1>1, <1>2, <1>3, <1>4, PoolsClose, PoolsLeave, PoolsCloseMongo DEF Connecting

(* Whoever uses a pool moves none.                                         *)
LEMMA UsingPools ==
  ASSUME PoolInv, NEW u \in Users, Using(u)
  PROVE  PoolInv'
<1>1. UNCHANGED <<db, primary, replica, closed, mu, builds, openPools, observed, built, leaving, backingOff>>
  BY DEF Using, Client, EnsureIndexes, PicksPool, RunReadOnly, applyStatementTimeout, RunsFn, AsksContext, Classifies,
         closeReadOnly, ContextEnds, Shared, Pools, Mine
<1>2. \/ upc' = upc
      \/ /\ upc[u] \in Reading \cup {"start", "index"}
         /\ \E to \in Reading \cup {"index", "done"} : upc' = [upc EXCEPT ![u] = to]
  <2>1. CASE Client(u) \/ EnsureIndexes(u) \/ ContextEnds(u)
    BY <2>1 DEF Client, EnsureIndexes, ContextEnds, Returns, Fails, UserGoesTo
  <2>2. CASE PicksPool(u) \/ RunReadOnly(u) \/ applyStatementTimeout(u)
    BY <2>2 DEF PicksPool, RunReadOnly, applyStatementTimeout, ReadRaises, Returns, Fails, UserGoesTo, Reading
  <2>3. CASE RunsFn(u) \/ AsksContext(u) \/ Classifies(u) \/ closeReadOnly(u)
    BY <2>3 DEF RunsFn, AsksContext, Classifies, closeReadOnly, ReadRaises, Returns, Fails, UserGoesTo, Reading
  <2> QED
    BY <2>1, <2>2, <2>3 DEF Using
<1>3. upc' \in [Users -> Building \cup Reading \cup {"start", "slow", "closing", "index", "done"}]
  BY <1>2 DEF PoolInv, ClientTypes
<1>4. \A w \in Users : upc'[w] = upc[w] \/ (upc[w] \notin Building \cup {"closing"} /\ upc'[w] \notin Building \cup {"closing"})
  BY <1>2 DEF PoolInv, ClientTypes, Building, Reading
<1>5. backingOff' \in BOOLEAN
  BY <1>1 DEF PoolInv, ClientTypes
<1> QED
  BY <1>1, <1>3, <1>4, <1>5, PoolsRest

-----------------------------------------------------------------------------
(* A read goes from step to step.                                          *)
LEMMA ClientReads == ASSUME ClientTypes, ReadInv, NEW u \in Users, Client(u) PROVE ReadInv'
<1>1. ReadTypes'
  BY DatabaseAssumption DEF Client, Fails, UserGoesTo, Read, ReadInv, ReadTypes, ClientTypes, Waypoints, Knows
<1>2. Waypoints'
  BY DatabaseAssumption DEF Client, Fails, UserGoesTo, Read, ReadInv, ReadTypes, ClientTypes, Waypoints, Knows, Plan, Building, Reading
<1>3. Knows'
  BY DatabaseAssumption DEF Client, Fails, UserGoesTo, Read, ReadInv, ReadTypes, ClientTypes, Waypoints, Knows, Plan, Building, Reading
<1> QED
  BY <1>1, <1>2, <1>3 DEF ReadInv

LEMMA EnsureIndexesReads == ASSUME ClientTypes, ReadInv, NEW u \in Users, EnsureIndexes(u) PROVE ReadInv'
<1>1. ReadTypes'
  <2>1. UNCHANGED <<ctx, tx, saw>> /\ (result' = result \/ \E r \in {"index", "nil"} : result' = [result EXCEPT ![u] = r])
    BY DEF EnsureIndexes, Fails, Returns
  <2>2. cause' = cause \/ \E c \in {cause[u], "index"} : cause' = [cause EXCEPT ![u] = c]
    BY DEF EnsureIndexes, indexErrors
  <2>3. \/ UNCHANGED <<indexed, next>>
        \/ /\ next[u] <= MaxIndex /\ next' = [next EXCEPT ![u] = @ + 1]
           /\ indexed' = indexed \/ indexed' = indexed \cup {next[u]}
    BY DEF EnsureIndexes
  <2>4. next[u] \in Nat \ {0} /\ MaxIndex \in Nat
    BY DatabaseAssumption DEF ReadInv, ReadTypes
  <2>5. next' \in [Users -> Nat \ {0}]
    <3>1. next[u] + 1 \in Nat \ {0}
      BY <2>4
    <3> QED
      BY <2>3, <3>1 DEF ReadInv, ReadTypes
  <2>7. indexed' \subseteq 1 .. MaxIndex
    <3>1. next[u] <= MaxIndex => next[u] \in 1 .. MaxIndex
      BY <2>4
    <3> QED
      BY <2>3, <3>1 DEF ReadInv, ReadTypes
  <2>6. cause' \in [Users -> {"none", "57014", "other", "context", "index", "txDeadline", "cancelled", "statementTimeout"}]
    BY <2>2 DEF ReadInv, ReadTypes
  <2> QED
    BY <2>1, <2>5, <2>6, <2>7 DEF ReadInv, ReadTypes
<1>2. Waypoints'
  BY DatabaseAssumption DEF EnsureIndexes, indexErrors, Fails, Returns, UserGoesTo, Read, ReadInv, ReadTypes, ClientTypes, Waypoints, Knows, Plan, Building, Reading
<1>3. Knows'
  BY DatabaseAssumption DEF EnsureIndexes, indexErrors, Fails, Returns, UserGoesTo, Read, ReadInv, ReadTypes, ClientTypes, Waypoints, Knows, Plan, Building, Reading
<1> QED
  BY <1>1, <1>2, <1>3 DEF ReadInv

LEMMA PicksPoolReads == ASSUME ClientTypes, ReadInv, NEW u \in Users, PicksPool(u) PROVE ReadInv'
<1>1. ReadTypes'
  BY DatabaseAssumption DEF PicksPool, Fails, UserGoesTo, Read, ReadInv, ReadTypes, ClientTypes, Waypoints, Knows
<1>2. Waypoints'
  BY DatabaseAssumption DEF PicksPool, Fails, UserGoesTo, Read, ReadInv, ReadTypes, ClientTypes, Waypoints, Knows, Plan, Building, Reading
<1>3. Knows'
  BY DatabaseAssumption DEF PicksPool, Fails, UserGoesTo, Read, ReadInv, ReadTypes, ClientTypes, Waypoints, Knows, Plan, Building, Reading
<1> QED
  BY <1>1, <1>2, <1>3 DEF ReadInv

LEMMA RunReadOnlyReads == ASSUME ClientTypes, ReadInv, NEW u \in Users, RunReadOnly(u) PROVE ReadInv'
<1>1. ReadTypes'
  BY DatabaseAssumption DEF RunReadOnly, Errors, ReadRaises, UserGoesTo, Read, ReadInv, ReadTypes, ClientTypes, Waypoints, Knows
<1>2. Waypoints'
  BY DatabaseAssumption DEF RunReadOnly, Errors, ReadRaises, UserGoesTo, Read, ReadInv, ReadTypes, ClientTypes, Waypoints, Knows, Plan, Building, Reading
<1>3. Knows'
  BY DatabaseAssumption DEF RunReadOnly, Errors, ReadRaises, UserGoesTo, Read, ReadInv, ReadTypes, ClientTypes, Waypoints, Knows, Plan, Building, Reading
<1> QED
  BY <1>1, <1>2, <1>3 DEF ReadInv

LEMMA ApplyStatementTimeoutReads == ASSUME ClientTypes, ReadInv, NEW u \in Users, applyStatementTimeout(u) PROVE ReadInv'
<1>1. ReadTypes'
  BY DatabaseAssumption DEF applyStatementTimeout, Errors, ReadRaises, UserGoesTo, Read, ReadInv, ReadTypes, ClientTypes, Waypoints, Knows
<1>2. Waypoints'
  BY DatabaseAssumption DEF applyStatementTimeout, Errors, ReadRaises, UserGoesTo, Read, ReadInv, ReadTypes, ClientTypes, Waypoints, Knows, Plan, Building, Reading
<1>3. Knows'
  BY DatabaseAssumption DEF applyStatementTimeout, Errors, ReadRaises, UserGoesTo, Read, ReadInv, ReadTypes, ClientTypes, Waypoints, Knows, Plan, Building, Reading
<1> QED
  BY <1>1, <1>2, <1>3 DEF ReadInv

LEMMA RunsFnReads == ASSUME ClientTypes, ReadInv, NEW u \in Users, RunsFn(u) PROVE ReadInv'
<1>1. ReadTypes'
  BY DatabaseAssumption DEF RunsFn, Endings, Errors, ReadRaises, UserGoesTo, Read, ReadInv, ReadTypes, ClientTypes, Waypoints, Knows
<1>2. Waypoints'
  BY DatabaseAssumption DEF RunsFn, Endings, Errors, ReadRaises, UserGoesTo, Read, ReadInv, ReadTypes, ClientTypes, Waypoints, Knows, Plan, Building, Reading
<1>3. Knows'
  BY DatabaseAssumption DEF RunsFn, Endings, Errors, ReadRaises, UserGoesTo, Read, ReadInv, ReadTypes, ClientTypes, Waypoints, Knows, Plan, Building, Reading
<1> QED
  BY <1>1, <1>2, <1>3 DEF ReadInv

LEMMA AsksContextReads == ASSUME ClientTypes, ReadInv, NEW u \in Users, AsksContext(u) PROVE ReadInv'
<1>1. ReadTypes'
  BY DatabaseAssumption DEF AsksContext, readCompleted, ReadRaises, UserGoesTo, Read, ReadInv, ReadTypes, ClientTypes, Waypoints, Knows
<1>2. Waypoints'
  BY DatabaseAssumption DEF AsksContext, readCompleted, ReadRaises, UserGoesTo, Read, ReadInv, ReadTypes, ClientTypes, Waypoints, Knows, Plan, Building, Reading
<1>3. Knows'
  BY DatabaseAssumption DEF AsksContext, readCompleted, ReadRaises, UserGoesTo, Read, ReadInv, ReadTypes, ClientTypes, Waypoints, Knows, Plan, Building, Reading
<1> QED
  BY <1>1, <1>2, <1>3 DEF ReadInv

LEMMA ClassifiesReads == ASSUME ClientTypes, ReadInv, NEW u \in Users, Classifies(u) PROVE ReadInv'
<1> DEFINE verdict == classifyReadOnly(ctx[u], cause[u])
<1>1. /\ upc[u] = "classify" /\ cause' = [cause EXCEPT ![u] = verdict] /\ UNCHANGED <<db, ctx, tx, saw, indexed, next>>
      /\ IF tx[u] = "none" THEN upc' = [upc EXCEPT ![u] = "done"] /\ result' = [result EXCEPT ![u] = verdict]
                           ELSE upc' = [upc EXCEPT ![u] = "rollback"] /\ result' = result
  BY DEF Classifies, Fails, UserGoesTo, ReadInv, ReadTypes
<1>2. verdict \in {"other", "txDeadline", "cancelled", "statementTimeout"} /\ (verdict = "statementTimeout" => saw[u] = "cap")
  <2>1. /\ ctx[u] \in {"live", "deadline", "cancelled"} /\ cause[u] \in {"57014", "other", "context"}
        /\ ctx[u] = "live" => cause[u] # "context" /\ (cause[u] = "57014" => saw[u] = "cap")
    BY <1>1 DEF ReadInv, ReadTypes, Knows
  <2>2. CASE ctx[u] = "deadline"
    BY <2>2 DEF classifyReadOnly
  <2>3. CASE ctx[u] = "cancelled"
    BY <2>3 DEF classifyReadOnly
  <2>4. CASE ctx[u] = "live" /\ cause[u] = "57014"
    BY <2>1, <2>4 DEF classifyReadOnly
  <2>5. CASE ctx[u] = "live" /\ cause[u] = "other"
    BY <2>5 DEF classifyReadOnly
  <2> QED
    BY <2>1, <2>2, <2>3, <2>4, <2>5
<1> HIDE DEF verdict
<1>3. ReadTypes'
  BY <1>1, <1>2 DEF ReadInv, ReadTypes
<1>4. Waypoints'
  BY <1>1, <1>2 DEF ReadInv, ReadTypes, ClientTypes, Waypoints, Plan, Building, Reading
<1>5. Knows'
  BY <1>1, <1>2 DEF ReadInv, ReadTypes, ClientTypes, Waypoints, Knows, Plan, Building, Reading
<1> QED
  BY <1>3, <1>4, <1>5 DEF ReadInv

LEMMA CloseReadOnlyReads == ASSUME ClientTypes, ReadInv, NEW u \in Users, closeReadOnly(u) PROVE ReadInv'
<1>1. ReadTypes'
  BY DatabaseAssumption DEF closeReadOnly, Returns, Fails, UserGoesTo, Read, ReadInv, ReadTypes, ClientTypes, Waypoints, Knows
<1>2. Waypoints'
  BY DatabaseAssumption DEF closeReadOnly, Returns, Fails, UserGoesTo, Read, ReadInv, ReadTypes, ClientTypes, Waypoints, Knows, Plan, Building, Reading
<1>3. Knows'
  BY DatabaseAssumption DEF closeReadOnly, Returns, Fails, UserGoesTo, Read, ReadInv, ReadTypes, ClientTypes, Waypoints, Knows, Plan, Building, Reading
<1> QED
  BY <1>1, <1>2, <1>3 DEF ReadInv

LEMMA ContextEndsReads == ASSUME ClientTypes, ReadInv, NEW u \in Users, ContextEnds(u) PROVE ReadInv'
<1>1. ReadTypes'
  BY DatabaseAssumption DEF ContextEnds, Read, ReadInv, ReadTypes, ClientTypes, Waypoints, Knows
<1>2. Waypoints'
  BY DatabaseAssumption DEF ContextEnds, Read, ReadInv, ReadTypes, ClientTypes, Waypoints, Knows, Plan, Building, Reading
<1>3. Knows'
  BY DatabaseAssumption DEF ContextEnds, Read, ReadInv, ReadTypes, ClientTypes, Waypoints, Knows, Plan, Building, Reading
<1> QED
  BY <1>1, <1>2, <1>3 DEF ReadInv


-----------------------------------------------------------------------------
(* The Postgres and the MongoDB client, for any number of goroutines and   *)
(* any mix of their calls: no pool is lost and none in use is closed, a    *)
(* closed MongoDB client stays closed, a read that its context cut short   *)
(* is not reported as a success, a statement timeout is never a caller's   *)
(* own, and EnsureIndexes succeeds only with every index there (Connect,   *)
(* Resolver, Close, RunReadOnly, EnsureIndexes).                           *)
THEOREM DatabaseSoundHolds == DatabaseSpec => []DatabaseSound
<1>1. DatabaseInit => PoolInv /\ ReadInv
  <2> SUFFICES ASSUME DatabaseInit PROVE PoolInv /\ ReadInv
    OBVIOUS
  <2>1. ClientTypes
    BY PoolIs DEF DatabaseInit, ClientTypes
  <2>2. LockHeld
    BY DatabaseAssumption DEF DatabaseInit, LockHeld, Building
  <2>3. InHand
    BY DEF DatabaseInit, InHand
  <2>4. Ages
    BY PoolIs DEF DatabaseInit, Ages, Current
  <2>5. Accounted
    BY DEF DatabaseInit, Accounted, Current
  <2>6. ReadTypes
    BY DEF DatabaseInit, ReadTypes
  <2>7. Waypoints /\ Knows
    BY DEF DatabaseInit, Waypoints, Knows, Building, Reading
  <2> QED
    BY <2>1, <2>2, <2>3, <2>4, <2>5, <2>6, <2>7 DEF PoolInv, ReadInv
<1>2. PoolInv /\ ReadInv /\ [DatabaseNext]_dvars => (PoolInv /\ ReadInv)'
  <2> SUFFICES ASSUME PoolInv, ReadInv, [DatabaseNext]_dvars PROVE PoolInv' /\ ReadInv'
    OBVIOUS
  <2>1. CASE BackoffPasses \/ UNCHANGED dvars
    <3>1. /\ UNCHANGED <<db, primary, replica, closed, mu, builds, openPools, observed, built, leaving, upc>>
          /\ UNCHANGED <<ctx, tx, cause, result, saw, indexed, next>> /\ backingOff' \in BOOLEAN
      BY <2>1 DEF BackoffPasses, dvars, Pools, Mine, Read, PoolInv, ClientTypes
    <3>2. PoolInv'
      BY <3>1, PoolsRest DEF PoolInv, ClientTypes
    <3>3. ReadInv'
      BY <3>1 DEF ReadInv, ReadTypes, Waypoints, Knows, Plan
    <3> QED
      BY <3>2, <3>3
  <2>2. ASSUME NEW u \in Users, Connecting(u) PROVE PoolInv' /\ ReadInv'
    BY <2>2, ConnectingPools, ConnectingReads
  <2>3. ASSUME NEW u \in Users, Using(u) PROVE PoolInv' /\ ReadInv'
    <3>1. ClientTypes
      BY DEF PoolInv
    <3>2. PoolInv'
      BY <2>3, UsingPools
    <3>3. ReadInv'
      BY <2>3, <3>1, ClientReads, EnsureIndexesReads, PicksPoolReads, RunReadOnlyReads, ApplyStatementTimeoutReads, RunsFnReads,
         AsksContextReads, ClassifiesReads, CloseReadOnlyReads, ContextEndsReads DEF Using
    <3> QED
      BY <3>2, <3>3
  <2>4. DatabaseNext => BackoffPasses \/ \E u \in Users : Connecting(u) \/ Using(u)
    BY DEF DatabaseNext, Connecting, Using
  <2> QED
    BY <2>1, <2>2, <2>3, <2>4
<1>3. PoolInv /\ ReadInv => DatabaseSound
  <2> SUFFICES ASSUME PoolInv, ReadInv PROVE DatabaseSound
    OBVIOUS
  <2>1. \A p \in openPools : p.build \in 0 .. builds
    <3> SUFFICES ASSUME NEW p \in openPools PROVE p.build \in 0 .. builds
      OBVIOUS
    <3>1. CASE p \in Current
      BY <3>1 DEF PoolInv, Ages, Current, ClientTypes, APool
    <3>2. ASSUME NEW u \in Users, p \in built[u] PROVE p.build \in 0 .. builds
      BY <3>2, PoolIs DEF PoolInv, InHand, ClientTypes
    <3>3. ASSUME NEW u \in Users, p \in leaving[u] PROVE p.build \in 0 .. builds
      BY <3>3 DEF PoolInv, Ages, ClientTypes, APool
    <3> QED
      BY <3>1, <3>2, <3>3 DEF PoolInv, Accounted
  <2>2. DatabaseTypeOK
    BY <2>1 DEF PoolInv, ReadInv, ReadTypes, ClientTypes, DatabaseTypeOK
  <2>3. PoolsAccounted
    <3>1. mu = Free => \A u \in Users : built[u] = {}
      BY DatabaseAssumption DEF PoolInv, LockHeld, InHand, Building
    <3>2. openPools \subseteq Current \cup InWork
      BY DEF PoolInv, Accounted, InWork
    <3> QED
      BY <3>1, <3>2 DEF PoolInv, LockHeld, Accounted, PoolsAccounted
  <2>4. ReadsAreTrue
    BY DEF ReadInv, ReadTypes, Waypoints, Knows, ReadsAreTrue
  <2>5. IndexesAreThere
    BY DEF ReadInv, Knows, IndexesAreThere
  <2> QED
    BY <2>2, <2>3, <2>4, <2>5 DEF DatabaseSound
<1> QED
  BY <1>1, <1>2, <1>3, PTL DEF DatabaseSpec

-----------------------------------------------------------------------------
(* Migrations.                                                             *)

Ran(i) == Source(i) \subseteq applied /\ Source(i) # {}

MigratorTypes ==
    /\ deploy \in Deploys /\ version \in 0 .. MaxVersion /\ dirty \in BOOLEAN
    /\ locked \in Migrators \cup {NoInstance}
    /\ ipc \in [Migrators -> {"start", "run", "migrating", "classify", "done", "dead"}]
    /\ raw \in [Migrators -> {"none", "dirty", "notExist", "noChange", "failed", "nil"}]
    /\ outcome \in [Migrators -> {"none", "nil", "error", "dirty", "versionAhead", "notFound"}]

(* The schema row says exactly which migrations ran to their end.          *)
RowIsTrue ==
    /\ dirty => version > 0 /\ applied = 1 .. version - 1
    /\ ~dirty => applied = 1 .. version

(* golang-migrate's lock, and what its answer says of the source.          *)
AnswersAreTrue ==
    \A i \in Migrators :
      /\ ipc[i] = "migrating" <=> locked = i
      /\ ipc[i] = "migrating" => Source(i) # {}
      /\ raw[i] \in {"nil", "noChange"} => Ran(i)
      /\ outcome[i] = "nil" /\ ~deploy[i].allowMissing => Ran(i)
      /\ outcome[i] = "versionAhead" => Source(i) # {}

MInv == MigratorTypes /\ RowIsTrue /\ AnswersAreTrue

LEMMA SourcesAre ==
  ASSUME MInv, NEW i \in Migrators
  PROVE  \E n \in 0 .. MaxVersion : Source(i) = 1 .. n
<1>1. deploy \in [Migrators -> [source : {1 .. n : n \in 0 .. MaxVersion}, allowMissing : BOOLEAN]]
  BY MigrationsAssumption DEF MInv, MigratorTypes
<1>2. deploy[i].source \in {1 .. n : n \in 0 .. MaxVersion}
  BY <1>1
<1> QED
  BY <1>2 DEF Source

(* Nothing that ran is undone: what was true of a source stays true.       *)
LEMMA RanStays ==
  ASSUME NEW i \in Migrators, Ran(i), UNCHANGED deploy, applied \subseteq applied'
  PROVE  Ran(i)'
  BY DEF Ran, Source

LEMMA RanAll ==
  ASSUME MInv, NEW i \in Migrators, ~dirty, Ahead(i) = {}, Source(i) # {}
  PROVE  Ran(i)
<1>1. PICK n \in 0 .. MaxVersion : Source(i) = 1 .. n
  BY SourcesAre
<1>2. version \in Nat /\ n \in Nat /\ applied = 1 .. version
  BY MigrationsAssumption DEF MInv, MigratorTypes, RowIsTrue
<1>3. n <= version
  <2> SUFFICES ASSUME n > version PROVE FALSE
    BY <1>2
  <2>1. n \in Ahead(i)
    BY <1>1, <1>2 DEF Ahead
  <2> QED
    BY <2>1
<1> QED
  BY <1>1, <1>2, <1>3 DEF Ran

LEMMA MigrateStep == ASSUME MInv, NEW i \in Migrators, Migrates(i) PROVE MInv'
<1> USE MigrationsAssumption
<1>1. PICK n \in 0 .. MaxVersion : Source(i) = 1 .. n
  BY SourcesAre
<1>2. ipc[i] = "migrating" /\ locked = i /\ UNCHANGED <<deploy, outcome>>
  BY DEF Migrates, MInv, AnswersAreTrue
<1>3. CASE ~dirty /\ Ahead(i) # {} /\ dirty' = TRUE /\ version' = (CHOOSE v \in Ahead(i) : \A w \in Ahead(i) : v <= w)
           /\ UNCHANGED <<applied, locked, ipc, raw>>
  <2>1. Ahead(i) = version + 1 .. n /\ version \in Nat /\ version < n
    BY <1>1, <1>3 DEF Ahead, MInv, MigratorTypes
  <2>2. version + 1 \in Ahead(i) /\ \A w \in Ahead(i) : version + 1 <= w
    BY <2>1
  <2>3. version' \in Ahead(i) /\ \A w \in Ahead(i) : version' <= w
    BY <1>3, <2>2
  <2>4. version' = version + 1
    BY <2>1, <2>2, <2>3
  <2>5. ~dirty /\ dirty' = TRUE /\ applied' = applied
    BY <1>3
  <2>6. applied = 1 .. version /\ version' - 1 = version
    BY <2>1, <2>4, <2>5 DEF MInv, RowIsTrue
  <2>8. n \in Nat /\ n <= MaxVersion /\ version' \in 0 .. MaxVersion
    BY <2>1, <2>4
  <2>7. RowIsTrue'
    BY <2>1, <2>4, <2>5, <2>6 DEF RowIsTrue
  <2> QED
    BY <1>2, <1>3, <2>6, <2>7, <2>8 DEF MInv, MigratorTypes, AnswersAreTrue, Ran, Source
<1>4. CASE dirty /\ dirty' = FALSE /\ applied' = applied \cup {version} /\ UNCHANGED <<version, locked, ipc, raw>>
  <2>1. applied' = 1 .. version /\ applied \subseteq applied'
    BY <1>4 DEF MInv, MigratorTypes, RowIsTrue
  <2>2. \A j \in Migrators : Ran(j) => Ran(j)'
    BY <1>2, <2>1, RanStays
  <2> QED
    BY <1>2, <1>4, <2>1, <2>2 DEF MInv, MigratorTypes, RowIsTrue, AnswersAreTrue, Source
<1>5. CASE dirty /\ locked' = NoInstance /\ Raises(i, "failed") /\ UNCHANGED <<version, dirty, applied>>
  BY <1>2, <1>5 DEF Raises, GoTo, MInv, MigratorTypes, RowIsTrue, AnswersAreTrue, Ran, Source
<1>6. CASE ~dirty /\ Ahead(i) = {} /\ locked' = NoInstance /\ Raises(i, "nil") /\ UNCHANGED <<version, dirty, applied>>
  <2>1. Ran(i)
    BY <1>2, <1>6, RanAll DEF MInv, AnswersAreTrue
  <2> QED
    BY <1>2, <1>6, <2>1 DEF Raises, GoTo, MInv, MigratorTypes, RowIsTrue, AnswersAreTrue, Ran, Source
<1> QED
  BY <1>3, <1>4, <1>5, <1>6 DEF Migrates

LEMMA LockStep == ASSUME MInv, NEW i \in Migrators, LocksAndReads(i) PROVE MInv'
<1> USE MigrationsAssumption
<1>1. PICK n \in 0 .. MaxVersion : Source(i) = 1 .. n
  BY SourcesAre
<1>2. ipc[i] = "run" /\ locked = NoInstance /\ UNCHANGED <<deploy, version, dirty, applied, outcome>>
  BY DEF LocksAndReads
<1>3. CASE \E e \in {"dirty", "notExist"} : Raises(i, e) /\ UNCHANGED locked
  BY <1>2, <1>3 DEF Raises, GoTo, MInv, MigratorTypes, RowIsTrue, AnswersAreTrue, Ran, Source
<1>4. CASE ~dirty /\ version \in Source(i) /\ Ahead(i) = {} /\ Raises(i, "noChange") /\ UNCHANGED locked
  <2>1. Ran(i)
    BY <1>4, RanAll
  <2> QED
    BY <1>2, <1>4, <2>1 DEF Raises, GoTo, MInv, MigratorTypes, RowIsTrue, AnswersAreTrue, Ran, Source
<1>5. CASE Ahead(i) # {} /\ locked' = i /\ GoTo(i, "migrating") /\ UNCHANGED raw
  <2>1. Source(i) # {}
    BY <1>5 DEF Ahead
  <2> QED
    BY <1>2, <1>5, <2>1 DEF GoTo, MInv, MigratorTypes, RowIsTrue, AnswersAreTrue, Ran, Source
<1> QED
  BY <1>3, <1>4, <1>5 DEF LocksAndReads

LEMMA OutcomeStep == ASSUME MInv, NEW i \in Migrators, runMigrations(i) PROVE MInv'
<1>1. PICK readable \in BOOLEAN :
        outcome' = [outcome EXCEPT ![i] = classifyMigrationError(raw[i], deploy[i].allowMissing, inspectMigrationState(i, readable))]
  BY DEF runMigrations
<1> DEFINE state == inspectMigrationState(i, readable)
           verdict == classifyMigrationError(raw[i], deploy[i].allowMissing, state)
<1>2. ipc[i] = "classify" /\ ipc' = [ipc EXCEPT ![i] = "done"] /\ UNCHANGED <<deploy, version, dirty, applied, locked, raw>>
  BY DEF runMigrations, GoTo
<1>3. PICK n \in 0 .. MaxVersion : Source(i) = 1 .. n
  BY SourcesAre
<1>4. versionNotInSourceOutcome(state) => Source(i) # {}
  BY FS_EmptySet DEF versionNotInSourceOutcome, inspectMigrationState
<1>5. /\ verdict \in {"nil", "error", "dirty", "versionAhead", "notFound"}
      /\ verdict = "nil" => raw[i] \in {"nil", "noChange"} \/ deploy[i].allowMissing
      /\ verdict = "versionAhead" => Source(i) # {}
  <2> HIDE DEF state
  <2> QED
    BY <1>4 DEF classifyMigrationError, missingFile
<1> HIDE DEF verdict
<1> QED
  BY <1>1, <1>2, <1>5, MigrationsAssumption DEF verdict, MInv, MigratorTypes, RowIsTrue, AnswersAreTrue, Ran, Source

(* However many instances of whatever versions start together, migrate,    *)
(* fail, are killed and are repaired: an Up that succeeded has left every  *)
(* migration of its source applied, and the migrations that were applied   *)
(* have no gap (Up, runMigrations).                                        *)
THEOREM MigrationsSoundHolds == MigrationsSpec => []MigrationsSound
<1>1. MigrationsInit => MInv
  BY MigrationsAssumption DEF MigrationsInit, MInv, MigratorTypes, RowIsTrue, AnswersAreTrue
<1>2. MInv /\ [MigrationsNext]_mvars => MInv'
  <2> SUFFICES ASSUME MInv, [MigrationsNext]_mvars PROVE MInv'
    OBVIOUS
  <2> USE MigrationsAssumption DEF MInv, MigratorTypes, RowIsTrue, AnswersAreTrue, Ran, Source
  <2>1. CASE Repairs
    <3>1. version' \in 0 .. MaxVersion /\ ~dirty' /\ applied' = 1 .. version'
      BY <2>1 DEF Repairs
    <3> QED
      BY <2>1, <3>1 DEF Repairs
  <2>2. ASSUME NEW i \in Migrators, Up(i) PROVE MInv'
    <3>1. CASE ipc' = [ipc EXCEPT ![i] = "run"] /\ UNCHANGED outcome
      BY <2>2, <3>1 DEF Up
    <3>2. CASE ipc' = [ipc EXCEPT ![i] = "done"] /\ outcome' = [outcome EXCEPT ![i] = "error"]
      BY <2>2, <3>2 DEF Up
    <3> QED
      BY <2>2, <3>1, <3>2 DEF Up, GoTo
  <2>3. ASSUME NEW i \in Migrators, Killed(i) PROVE MInv'
    BY <2>3 DEF Killed, GoTo
  <2>4. CASE UNCHANGED mvars
    BY <2>4 DEF mvars
  <2> QED
    BY <2>1, <2>2, <2>3, <2>4, MigrateStep, LockStep, OutcomeStep DEF MigrationsNext
<1>3. MInv => MigrationsSound
  <2> SUFFICES ASSUME MInv PROVE MigrationsSound
    OBVIOUS
  <2>1. \E m \in Nat : applied = 1 .. m /\ m <= MaxVersion
    BY MigrationsAssumption DEF MInv, MigratorTypes, RowIsTrue
  <2> QED
    BY <2>1, MigrationsAssumption DEF MInv, MigratorTypes, AnswersAreTrue, Ran, MigrationsSound, MigrationsTypeOK
<1> QED
  BY <1>1, <1>2, <1>3, PTL DEF MigrationsSpec

-----------------------------------------------------------------------------
(* Keyset pages.  A page is a sorted sequence, and what the service's query*)
(* says of it is that it is the start of its side of the cursor.  First,   *)
(* sequences sorted by a strict order O of a set S.                        *)
Strict(O, S) ==
    /\ \A a \in S : <<a, a>> \notin O
    /\ \A a, b, c \in S : <<a, b>> \in O /\ <<b, c>> \in O => <<a, c>> \in O
    /\ \A a, b \in S : a = b \/ <<a, b>> \in O \/ <<b, a>> \in O

Sorted(O, s) == \A i, j \in 1 .. Len(s) : i < j => <<s[i], s[j]>> \in O

LEMMA SeqRange ==
    ASSUME NEW S, NEW s \in Seq(S)
    PROVE  /\ Len(s) \in Nat /\ DOMAIN s = 1 .. Len(s) /\ Range(s) \subseteq S
           /\ \A x : x \in Range(s) <=> \E i \in 1 .. Len(s) : x = s[i]
<1>1. Len(s) \in Nat /\ DOMAIN s = 1 .. Len(s) /\ \A i \in 1 .. Len(s) : s[i] \in S
  OBVIOUS
<1>2. \A x : x \in Range(s) <=> \E i \in 1 .. Len(s) : x = s[i]
  BY <1>1, Zenon DEF Range
<1> QED
  BY <1>1, <1>2

LEMMA SortedSize ==
    ASSUME NEW O, NEW S, Strict(O, S), NEW s \in Seq(S), Sorted(O, s)
    PROVE  IsFiniteSet(Range(s)) /\ Cardinality(Range(s)) = Len(s)
<1>1. /\ Len(s) \in Nat /\ DOMAIN s = 1 .. Len(s)
      /\ \A x : x \in Range(s) <=> \E i \in 1 .. Len(s) : x = s[i]
  BY SeqRange
<1>2. \A i, j \in 1 .. Len(s) : s[i] = s[j] => i = j
  <2>1. SUFFICES ASSUME NEW i \in 1 .. Len(s), NEW j \in 1 .. Len(s), s[i] = s[j], i # j PROVE FALSE
    OBVIOUS
  <2>2. i < j \/ j < i
    BY <2>1, <1>1
  <2>3. <<s[i], s[j]>> \in O \/ <<s[j], s[i]>> \in O
    BY <2>2 DEF Sorted
  <2>4. s[i] \in S
    BY <1>1
  <2> QED
    BY <2>1, <2>3, <2>4 DEF Strict
<1>3. s \in [1 .. Len(s) -> Range(s)]
  BY <1>1
<1>4. s \in Bijection(1 .. Len(s), Range(s))
  BY <1>1, <1>2, <1>3 DEF Bijection, Injection, Surjection, IsInjective
<1>5. ExistsBijection(1 .. Len(s), Range(s))
  BY <1>4 DEF ExistsBijection
<1>6. IsFiniteSet(1 .. Len(s)) /\ Cardinality(1 .. Len(s)) = Len(s)
  BY <1>1, FS_Interval
<1> QED
  BY <1>5, <1>6, FS_Bijection

(* A row's place is the number of rows that do not come after it.          *)
LEMMA PlaceIs ==
    ASSUME NEW O, NEW S, Strict(O, S), NEW s \in Seq(S), Sorted(O, s), NEW i \in 1 .. Len(s)
    PROVE  Cardinality({x \in Range(s) : x = s[i] \/ <<x, s[i]>> \in O}) = i
<1> DEFINE t == SubSeq(s, 1, i)
<1>1. /\ Len(s) \in Nat /\ i \in Nat /\ i <= Len(s)
      /\ \A x : x \in Range(s) <=> \E j \in 1 .. Len(s) : x = s[j]
      /\ \A j \in 1 .. Len(s) : s[j] \in S
  BY SeqRange
<1>2. t \in Seq(S) /\ Len(t) = i /\ \A j \in 1 .. i : t[j] = s[j]
  BY <1>1
<1> HIDE DEF t
<1>3. Sorted(O, t)
  BY <1>1, <1>2 DEF Sorted
<1>4. \A x : x \in Range(t) <=> \E j \in 1 .. i : x = s[j]
  BY <1>2, SeqRange
<1>5. ASSUME NEW x \in Range(t) PROVE x \in Range(s) /\ (x = s[i] \/ <<x, s[i]>> \in O)
  <2>1. PICK j \in 1 .. i : x = s[j]
    BY <1>4
  <2> QED
    BY <1>1, <2>1 DEF Sorted
<1>6. ASSUME NEW x \in Range(s), x = s[i] \/ <<x, s[i]>> \in O PROVE x \in Range(t)
  <2>1. PICK j \in 1 .. Len(s) : x = s[j]
    BY <1>1
  <2>2. CASE j <= i
    <3>1. j \in 1 .. i
      BY <1>1, <2>2
    <3> QED
      BY <1>4, <2>1, <3>1
  <2>3. CASE j > i
    <3>1. <<s[i], s[j]>> \in O /\ s[i] \in S /\ s[j] \in S
      BY <1>1, <2>3 DEF Sorted
    <3> QED
      BY <1>6, <2>1, <3>1 DEF Strict
  <2> QED
    BY <1>1, <2>2, <2>3
<1>7. {x \in Range(s) : x = s[i] \/ <<x, s[i]>> \in O} = Range(t)
  BY <1>5, <1>6
<1>8. Cardinality(Range(t)) = i
  BY <1>2, <1>3, SortedSize
<1> QED
  BY <1>7, <1>8

(* There is one way to sort a set.                                         *)
LEMMA OneSorting ==
    ASSUME NEW O, NEW S, Strict(O, S), NEW s \in Seq(S), Sorted(O, s), NEW t \in Seq(S), Sorted(O, t),
           Range(s) = Range(t)
    PROVE  s = t
<1>1. Len(s) = Len(t)
  BY SortedSize
<1>2. ASSUME NEW i \in 1 .. Len(s) PROVE s[i] = t[i]
  <2>1. s[i] \in Range(t)
    BY SeqRange
  <2>2. PICK j \in 1 .. Len(t) : s[i] = t[j]
    BY <2>1, SeqRange
  <2>3. Cardinality({x \in Range(s) : x = s[i] \/ <<x, s[i]>> \in O}) = i
    BY PlaceIs
  <2>4. Cardinality({x \in Range(t) : x = t[j] \/ <<x, t[j]>> \in O}) = j
    BY PlaceIs
  <2> QED
    BY <2>2, <2>3, <2>4
<1> QED
  BY <1>1, <1>2

(* The last k rows of B, or all of them.                                   *)
LastOf(O, B, k, s) ==
    /\ s \in Seq(B) /\ Sorted(O, s) /\ Len(s) <= k
    /\ \A r \in B \ Range(s) : \A i \in 1 .. Len(s) : <<r, s[i]>> \in O
    /\ Len(s) = k \/ Range(s) = B

LEMMA OneLast ==
    ASSUME NEW O, NEW S, Strict(O, S), NEW B \in SUBSET S, IsFiniteSet(B), NEW k \in Nat,
           NEW s, LastOf(O, B, k, s), NEW t, LastOf(O, B, k, t)
    PROVE  Range(s) \subseteq Range(t)
<1>1. s \in Seq(B) /\ t \in Seq(B) /\ s \in Seq(S) /\ t \in Seq(S) /\ Sorted(O, s) /\ Sorted(O, t)
  BY DEF LastOf
<1>2. /\ IsFiniteSet(Range(s)) /\ Cardinality(Range(s)) = Len(s)
      /\ IsFiniteSet(Range(t)) /\ Cardinality(Range(t)) = Len(t)
  BY <1>1, SortedSize
<1>3. /\ Range(s) \subseteq B /\ Range(t) \subseteq B /\ Len(s) \in Nat /\ Len(t) \in Nat
      /\ \A x : x \in Range(s) <=> \E i \in 1 .. Len(s) : x = s[i]
      /\ \A x : x \in Range(t) <=> \E i \in 1 .. Len(t) : x = t[i]
  BY <1>1, SeqRange
<1>4. SUFFICES ASSUME NEW x \in Range(s), x \notin Range(t) PROVE FALSE
  OBVIOUS
<1>5. \A y \in Range(t) : <<x, y>> \in O
  BY <1>3, <1>4 DEF LastOf
<1>6. ASSUME NEW y \in Range(t) PROVE y \in Range(s)
  <2>1. SUFFICES ASSUME y \notin Range(s) PROVE FALSE
    OBVIOUS
  <2>2. <<y, x>> \in O
    BY <2>1, <1>3 DEF LastOf
  <2>3. x \in S /\ y \in S
    BY <1>3
  <2> QED
    BY <1>5, <2>2, <2>3 DEF Strict
<1>7. Range(t) \in SUBSET Range(s)
  BY <1>6
<1>8. Cardinality(Range(t)) <= Cardinality(Range(s)) /\ (Cardinality(Range(s)) = Cardinality(Range(t)) => Range(s) = Range(t))
  BY <1>2, <1>7, FS_Subset
<1>9. Len(t) < Len(s)
  BY <1>2, <1>3, <1>4, <1>8
<1>10. Range(t) = B
  BY <1>3, <1>9 DEF LastOf
<1> QED
  BY <1>3, <1>4, <1>10

LEMMA OneLastPage ==
    ASSUME NEW O, NEW S, Strict(O, S), NEW B \in SUBSET S, IsFiniteSet(B), NEW k \in Nat,
           NEW s, LastOf(O, B, k, s), NEW t, LastOf(O, B, k, t)
    PROVE  s = t
<1>1. Range(s) = Range(t)
  BY OneLast
<1>2. s \in Seq(S) /\ t \in Seq(S) /\ Sorted(O, s) /\ Sorted(O, t)
  BY DEF LastOf
<1> QED
  BY <1>1, <1>2, OneSorting

(* What is cut from the first rows of B that were fetched.                 *)
FirstOf(O, B, k, s) ==
    /\ s \in Seq(B) /\ Sorted(O, s)
    /\ Len(s) = IF Cardinality(B) > k THEN k ELSE Cardinality(B)
    /\ \A r \in B \ Range(s) : \A i \in 1 .. Len(s) : <<s[i], r>> \in O
    /\ Cardinality(B) <= k => Range(s) = B

Fetched(O, B, k, n, items) ==
    /\ n = (IF Cardinality(B) > k THEN k + 1 ELSE Cardinality(B)) /\ items \in [1 .. n -> B]
    /\ \A i, j \in 1 .. n : i < j => <<items[i], items[j]>> \in O
    /\ \A r \in B \ Range(items) : \A i \in 1 .. n : <<items[i], r>> \in O

LEMMA CutIsFirst ==
    ASSUME NEW O, NEW S, Strict(O, S), NEW B \in SUBSET S, IsFiniteSet(B), NEW k \in Nat, NEW n, NEW items,
           Fetched(O, B, k, n, items)
    PROVE  /\ items \in Seq(B) /\ Len(items) = n /\ n \in Nat
           /\ FirstOf(O, B, k, SubSeq(items, 1, IF n > k THEN k ELSE n))
<1> DEFINE m == IF n > k THEN k ELSE n
           s == SubSeq(items, 1, m)
<1>1. Cardinality(B) \in Nat
  BY FS_CardinalityType
<1>2. n \in Nat /\ items \in Seq(B) /\ Len(items) = n /\ (n > k <=> Cardinality(B) > k)
  BY <1>1 DEF Fetched
<1>3. /\ m \in Nat /\ m <= n /\ m = IF Cardinality(B) > k THEN k ELSE Cardinality(B)
      /\ m < n => m = k /\ n = k + 1
  BY <1>1, <1>2 DEF Fetched
<1>4. s \in Seq(B) /\ Len(s) = m /\ \A i \in 1 .. m : s[i] = items[i]
  BY <1>2, <1>3
<1> HIDE DEF s, m
<1>5. /\ \A x : x \in Range(s) <=> \E i \in 1 .. m : x = items[i]
      /\ \A x : x \in Range(items) <=> \E i \in 1 .. n : x = items[i]
      /\ Range(s) \subseteq B
  BY <1>2, <1>4, SeqRange
<1>6. Sorted(O, s)
  BY <1>3, <1>4 DEF Sorted, Fetched
<1>7. ASSUME NEW r \in B \ Range(s), NEW i \in 1 .. m PROVE <<s[i], r>> \in O
  <2>1. CASE r \in Range(items)
    <3>1. PICK j \in 1 .. n : r = items[j]
      BY <1>5, <2>1
    <3>2. ~(j <= m)
      BY <1>3, <1>5, <1>7, <3>1
    <3>3. i \in 1 .. n /\ i < j
      BY <1>2, <1>3, <3>1, <3>2
    <3> QED
      BY <1>4, <1>7, <3>1, <3>3 DEF Fetched
  <2>2. CASE r \notin Range(items)
    <3>1. i \in 1 .. n
      BY <1>2, <1>3
    <3> QED
      BY <1>4, <1>7, <2>2, <3>1 DEF Fetched
  <2> QED
    BY <2>1, <2>2
<1>8. ASSUME Cardinality(B) <= k PROVE Range(s) = B
  <2>1. s \in Seq(S)
    BY <1>4
  <2>2. Cardinality(Range(s)) = Len(s)
    BY <1>6, <2>1, SortedSize
  <2>3. Cardinality(Range(s)) = Cardinality(B)
    BY <1>1, <1>3, <1>4, <1>8, <2>2
  <2>4. Range(s) \in SUBSET B
    BY <1>5
  <2> QED
    BY <2>3, <2>4, FS_Subset
<1>9. FirstOf(O, B, k, s)
  BY <1>3, <1>4, <1>6, <1>7, <1>8 DEF FirstOf
<1> QED
  BY <1>2, <1>9 DEF s, m

(* Turned round, the first of one order are the last of the other.         *)
LEMMA TurnedRound ==
    ASSUME NEW O, NEW Q, NEW S, Strict(O, S), \A a, b \in S : <<a, b>> \in Q <=> <<b, a>> \in O,
           NEW B \in SUBSET S, IsFiniteSet(B), NEW k \in Nat, NEW s, FirstOf(Q, B, k, s)
    PROVE  /\ LastOf(O, B, k, Reverse(s)) /\ Len(Reverse(s)) = Len(s)
           /\ Range(Reverse(s)) = Range(s)
<1> DEFINE t == Reverse(s)
<1>1. Cardinality(B) \in Nat
  BY FS_CardinalityType
<1>2. s \in Seq(B) /\ Len(s) \in Nat /\ \A i \in 1 .. Len(s) : s[i] \in B
  BY DEF FirstOf
<1>3. t = [i \in 1 .. Len(s) |-> s[(Len(s) - i) + 1]]
  BY DEF Reverse
<1>4. \A i \in 1 .. Len(s) : (Len(s) - i) + 1 \in 1 .. Len(s)
  BY <1>2
<1>5. t \in Seq(B) /\ Len(t) = Len(s) /\ \A i \in 1 .. Len(s) : t[i] = s[(Len(s) - i) + 1]
  BY <1>2, <1>3, <1>4
<1> HIDE DEF t
<1>6. /\ \A x : x \in Range(t) <=> \E i \in 1 .. Len(s) : x = t[i]
      /\ \A x : x \in Range(s) <=> \E i \in 1 .. Len(s) : x = s[i]
  BY <1>2, <1>5, SeqRange
<1>7. Range(t) = Range(s)
  <2>1. ASSUME NEW x \in Range(t) PROVE x \in Range(s)
    BY <1>4, <1>5, <1>6
  <2>2. ASSUME NEW x \in Range(s) PROVE x \in Range(t)
    <3>1. PICK i \in 1 .. Len(s) : x = s[i]
      BY <1>6
    <3>2. (Len(s) - i) + 1 \in 1 .. Len(s) /\ (Len(s) - ((Len(s) - i) + 1)) + 1 = i
      BY <1>2
    <3> QED
      BY <1>5, <1>6, <3>1, <3>2
  <2> QED
    BY <2>1, <2>2
<1>8. Sorted(O, t)
  <2>1. SUFFICES ASSUME NEW i \in 1 .. Len(s), NEW j \in 1 .. Len(s), i < j PROVE <<t[i], t[j]>> \in O
    BY <1>5 DEF Sorted
  <2>2. /\ (Len(s) - j) + 1 < (Len(s) - i) + 1
        /\ (Len(s) - i) + 1 \in 1 .. Len(s) /\ (Len(s) - j) + 1 \in 1 .. Len(s)
    BY <1>2, <2>1
  <2>3. <<t[j], t[i]>> \in Q
    BY <1>5, <2>2 DEF FirstOf, Sorted
  <2>4. t[i] \in S /\ t[j] \in S
    BY <1>2, <1>5, <2>2
  <2> QED
    BY <2>3, <2>4
<1>9. ASSUME NEW r \in B \ Range(t), NEW i \in 1 .. Len(t) PROVE <<r, t[i]>> \in O
  <2>1. r \in B \ Range(s) /\ (Len(s) - i) + 1 \in 1 .. Len(s)
    BY <1>4, <1>5, <1>7, <1>9
  <2>2. <<t[i], r>> \in Q
    BY <1>5, <1>9, <2>1 DEF FirstOf
  <2>3. t[i] \in S /\ r \in S
    BY <1>2, <1>5, <1>9, <2>1
  <2> QED
    BY <2>2, <2>3
<1>10. Len(t) <= k /\ (Len(t) = k \/ Range(t) = B)
  BY <1>1, <1>5, <1>7 DEF FirstOf
<1>11. LastOf(O, B, k, t)
  BY <1>5, <1>8, <1>9, <1>10 DEF LastOf
<1> QED
  BY <1>5, <1>7, <1>11 DEF t

-----------------------------------------------------------------------------
(* Keyset pages: what the library's rules make of the query.               *)
Ord  == {p \in Ids \X Ids : comesFirst(TRUE, p[1], p[2])}
Back == {p \in Ids \X Ids : comesFirst(FALSE, p[1], p[2])}

Cursors == {NoCursor} \cup [id : Ids, pointsNext : BOOLEAN]

(* The rows on the side of a cursor that it points to.                     *)
Side(c) == {r \in rows : c = NoCursor \/ IF c.pointsNext THEN <<c.id, r>> \in Ord ELSE <<r, c.id>> \in Ord}

PageTypes ==
    /\ rows \in SUBSET Ids /\ IsFiniteSet(rows) /\ family \in {"id", "sort"} /\ order \in {"ASC", "DESC", "unset"}
    /\ limit \in 1 .. MaxLimit /\ (page = NoPage \/ page \in Seq(Ids))
    /\ snap \subseteq Ids /\ walked \subseteq Ids /\ stable \subseteq rows /\ walking \in BOOLEAN
    /\ nextCursor \in {NoCursor} \cup [id : Ids, pointsNext : {TRUE}]
    /\ prevCursor \in {NoCursor} \cup [id : Ids, pointsNext : {FALSE}]

LEMMA DirectionsOpposed ==
    ASSUME family \in {"id", "sort"}, order \in {"ASC", "DESC", "unset"}
    PROVE  /\ rules(FALSE).dir = "ASC" <=> rules(TRUE).dir # "ASC"
           /\ rules(TRUE).op = ">" <=> rules(TRUE).dir = "ASC"
           /\ rules(TRUE).op = "<" <=> rules(TRUE).dir # "ASC"
           /\ rules(FALSE).op = ">" <=> rules(TRUE).dir # "ASC"
           /\ rules(FALSE).op = "<" <=> rules(TRUE).dir = "ASC"
<1>1. CASE family = "id"
  BY <1>1 DEF rules, CursorDirectionRules, ValidateSortDirection
<1>2. CASE family = "sort"
  BY <1>2 DEF rules, SortCursorDirection
<1> QED
  BY <1>1, <1>2

LEMMA Lexicographic ==
    \A u, v, w, a, b, c \in Int :
      /\ ~(u < u) /\ ~(a < a)
      /\ (u < v \/ (u = v /\ a < b)) /\ (v < w \/ (v = w /\ b < c)) => (u < w \/ (u = w /\ a < c))
      /\ a = b \/ (u < v \/ (u = v /\ a < b)) \/ (v < u \/ (v = u /\ b < a))
  OBVIOUS

LEMMA RowsAreOrdered ==
    ASSUME family \in {"id", "sort"}, order \in {"ASC", "DESC", "unset"}
    PROVE  /\ Strict(Ord, Ids) /\ Strict(Back, Ids)
           /\ \A a, b \in Ids : <<a, b>> \in Back <=> <<b, a>> \in Ord
           /\ \A a, b \in Ids : <<a, b>> \in Ord <=> precedes(a, b)
           /\ \A a, b \in Ids : <<a, b>> \in Ord <=> comesFirst(TRUE, a, b)
           /\ \A a, b \in Ids : <<a, b>> \in Back <=> comesFirst(FALSE, a, b)
<1>1. /\ \A a, b \in Ids : <<a, b>> \in Ord <=> comesFirst(TRUE, a, b)
      /\ \A a, b \in Ids : <<a, b>> \in Back <=> comesFirst(FALSE, a, b)
  BY DEF Ord, Back
<1>2. \A a \in Ids : a \in Nat /\ Value[a] \in Int
  BY PagingAssumption
<1>3. /\ \A a \in Ids : ~less(a, a)
      /\ \A a, b, c \in Ids : less(a, b) /\ less(b, c) => less(a, c)
      /\ \A a, b \in Ids : a = b \/ less(a, b) \/ less(b, a)
  <2>1. CASE family = "id"
    BY <1>2, <2>1 DEF less
  <2>2. CASE family # "id"
    <3>2. \A a, b \in Ids : less(a, b) <=> (Value[a] < Value[b] \/ (Value[a] = Value[b] /\ a < b))
      BY <2>2 DEF less
    <3>3. ASSUME NEW a \in Ids, NEW b \in Ids, NEW c \in Ids
          PROVE  /\ ~less(a, a) /\ (less(a, b) /\ less(b, c) => less(a, c))
                 /\ a = b \/ less(a, b) \/ less(b, a)
      <4>1. {a, b, c, Value[a], Value[b], Value[c]} \subseteq Int
        BY <1>2
      <4> QED
        BY <3>2, <4>1, Lexicographic
    <3> QED
      BY <3>3
  <2> QED
    BY <2>1, <2>2
<1>4. \A a, b \in Ids : comesFirst(FALSE, a, b) <=> comesFirst(TRUE, b, a)
  <2>1. rules(FALSE).dir = "ASC" <=> rules(TRUE).dir # "ASC"
    BY DirectionsOpposed
  <2> QED
    BY <2>1 DEF comesFirst
<1>5. /\ \A a \in Ids : ~comesFirst(TRUE, a, a)
      /\ \A a, b, c \in Ids : comesFirst(TRUE, a, b) /\ comesFirst(TRUE, b, c) => comesFirst(TRUE, a, c)
      /\ \A a, b \in Ids : a = b \/ comesFirst(TRUE, a, b) \/ comesFirst(TRUE, b, a)
  BY <1>3 DEF comesFirst
<1>6. Strict(Ord, Ids)
  BY <1>1, <1>5 DEF Strict
<1>7. \A a, b \in Ids : <<a, b>> \in Back <=> <<b, a>> \in Ord
  BY <1>1, <1>4
<1>8. Strict(Back, Ids)
  BY <1>6, <1>7 DEF Strict
<1> QED
  BY <1>1, <1>6, <1>7, <1>8 DEF precedes

LEMMA BeyondIsSide ==
    ASSUME PageTypes, NEW c \in Cursors
    PROVE  beyond(c) = Side(c)
<1>1. CASE c = NoCursor
  BY <1>1 DEF beyond, Side
<1>2. CASE c # NoCursor
  <2>1. c.id \in Ids /\ c.pointsNext \in BOOLEAN
    BY <1>2 DEF Cursors
  <2>2. \A r \in rows : r \in Ids
    BY DEF PageTypes
  <2>3. \A r \in rows : /\ <<c.id, r>> \in Ord <=> comesFirst(TRUE, c.id, r)
                        /\ <<r, c.id>> \in Ord <=> comesFirst(TRUE, r, c.id)
    BY <2>1, <2>2, RowsAreOrdered DEF PageTypes
  <2>4. CASE c.pointsNext
    <3>1. rules(c.pointsNext).op = ">" <=> rules(TRUE).dir = "ASC"
      BY <2>4, <2>1, DirectionsOpposed DEF PageTypes
    <3>2. rules(c.pointsNext).op = "<" <=> rules(TRUE).dir # "ASC"
      BY <2>4, <2>1, DirectionsOpposed DEF PageTypes
    <3> QED
      BY <1>2, <2>3, <2>4, <3>1, <3>2 DEF beyond, Side, comesFirst
  <2>5. CASE ~c.pointsNext
    <3>1. c.pointsNext = FALSE
      BY <2>1, <2>5
    <3>2. rules(c.pointsNext).op = ">" <=> rules(TRUE).dir # "ASC"
      BY <3>1, DirectionsOpposed DEF PageTypes
    <3>3. rules(c.pointsNext).op = "<" <=> rules(TRUE).dir = "ASC"
      BY <3>1, DirectionsOpposed DEF PageTypes
    <3> QED
      BY <1>2, <2>3, <2>5, <3>2, <3>3 DEF beyond, Side, comesFirst
  <2> QED
    BY <2>4, <2>5
<1> QED
  BY <1>1, <1>2

(* What a request gets.                                                    *)
Served(c) ==
    LET B    == Side(c)
        more == Cardinality(B) > limit
    IN  /\ IF c.pointsNext THEN FirstOf(Ord, B, limit, page') ELSE LastOf(Ord, B, limit, page')
        /\ page' \in Seq(B) /\ Sorted(Ord, page')
        /\ Len(page') = IF more THEN limit ELSE Cardinality(B)
        /\ ~more => Range(page') = B
        /\ nextCursor' = IF page' = <<>> \/ (c.pointsNext /\ ~more) THEN NoCursor
                         ELSE [id |-> page'[Len(page')], pointsNext |-> TRUE]
        /\ prevCursor' = IF page' = <<>> \/ c = NoCursor \/ (~c.pointsNext /\ ~more) THEN NoCursor
                         ELSE [id |-> page'[1], pointsNext |-> FALSE]
        /\ snap' = rows

LEMMA ServeServes ==
    ASSUME PageTypes, NEW c \in Cursors, NEW g \in BOOLEAN, serve(c, g)
    PROVE  Served(c)
<1> DEFINE B == Side(c)
           O == IF c.pointsNext THEN Ord ELSE Back
           n == IF Cardinality(B) > limit THEN limit + 1 ELSE Cardinality(B)
<1>1. /\ B \in SUBSET Ids /\ IsFiniteSet(B) /\ limit \in Nat \ {0} /\ c.pointsNext \in BOOLEAN
      /\ Cardinality(B) \in Nat /\ beyond(c) = B
  <2>1. B \in SUBSET rows
    BY DEF Side
  <2>2. IsFiniteSet(B)
    BY <2>1, FS_Subset DEF PageTypes
  <2>3. limit \in Nat \ {0}
    <3>1. MaxLimit \in Nat
      BY PagingAssumption
    <3>2. limit \in 1 .. MaxLimit
      BY DEF PageTypes
    <3> QED
      BY <3>1, <3>2
  <2>4. c.pointsNext \in BOOLEAN
    <3>1. NoCursor.pointsNext = TRUE
      BY DEF NoCursor
    <3>2. CASE c \in [id : Ids, pointsNext : BOOLEAN]
      BY <3>2
    <3> QED
      BY <3>1, <3>2 DEF Cursors
  <2> QED
    BY <2>1, <2>2, <2>3, <2>4, BeyondIsSide, FS_CardinalityType DEF PageTypes
<1>2. /\ Strict(Ord, Ids) /\ Strict(Back, Ids) /\ \A a, b \in Ids : <<a, b>> \in Back <=> <<b, a>> \in Ord
      /\ \A a, b \in Ids : <<a, b>> \in O <=> comesFirst(c.pointsNext, a, b)
  <2>1. c.pointsNext = TRUE \/ c.pointsNext = FALSE
    BY <1>1
  <2> QED
    BY <2>1, RowsAreOrdered DEF PageTypes
<1> HIDE DEF O, B
<1>3. PICK items \in fetch(c) :
        LET hasPagination == Len(items) > limit
            got == PaginateRecords(hasPagination, c.pointsNext, items)
            isFirst == firstPage(c, hasPagination, g)
            cursors == IF family = "id"
                       THEN CalculateCursor(isFirst, hasPagination, c.pointsNext, got[1], got[Len(got)])
                       ELSE CalculateSortCursorPagination(isFirst, hasPagination, c.pointsNext,
                                                          got[1], got[Len(got)])
        IN  /\ page' = got
            /\ nextCursor' = IF got = <<>> THEN NoCursor ELSE cursors.next
            /\ prevCursor' = IF got = <<>> THEN NoCursor ELSE cursors.prev
            /\ snap' = rows
  BY DEF serve
<1>4. Fetched(O, B, limit, n, items)
  <2>1. /\ items \in [1 .. n -> B]
        /\ \A i, j \in 1 .. n : i < j => comesFirst(c.pointsNext, items[i], items[j])
        /\ \A r \in B \ Range(items) : \A i \in 1 .. n : comesFirst(c.pointsNext, items[i], r)
    BY <1>1, <1>3 DEF fetch
  <2>2. \A i \in 1 .. n : items[i] \in Ids
    BY <1>1, <2>1
  <2>3. \A i, j \in 1 .. n : i < j => <<items[i], items[j]>> \in O
    BY <1>2, <2>1, <2>2
  <2>4. \A r \in B \ Range(items) : \A i \in 1 .. n : <<items[i], r>> \in O
    BY <1>1, <1>2, <2>1, <2>2
  <2> QED
    BY <2>1, <2>3, <2>4 DEF Fetched
<1> DEFINE cut == SubSeq(items, 1, IF n > limit THEN limit ELSE n)
<1>5. Strict(O, Ids)
  BY <1>2 DEF O
<1>6. items \in Seq(B) /\ Len(items) = n /\ n \in Nat /\ FirstOf(O, B, limit, cut)
  BY <1>1, <1>4, <1>5, CutIsFirst
<1>7. n > limit <=> Cardinality(B) > limit
  BY <1>1
<1>8. page' = IF c.pointsNext THEN cut ELSE Reverse(cut)
  BY <1>3, <1>6 DEF PaginateRecords
<1> HIDE DEF cut, n
<1>9. /\ IF c.pointsNext THEN FirstOf(Ord, B, limit, page') ELSE LastOf(Ord, B, limit, page')
      /\ Len(page') = Len(cut) /\ Range(page') = Range(cut)
  <2>1. CASE c.pointsNext
    BY <1>6, <1>8, <2>1 DEF O
  <2>2. CASE ~c.pointsNext
    <3>1. FirstOf(Back, B, limit, cut)
      BY <1>6, <2>2 DEF O
    <3>2. /\ LastOf(Ord, B, limit, Reverse(cut)) /\ Len(Reverse(cut)) = Len(cut)
          /\ Range(Reverse(cut)) = Range(cut)
      BY <1>1, <1>2, <3>1, TurnedRound
    <3> QED
      BY <1>8, <2>2, <3>2
  <2> QED
    BY <2>1, <2>2
<1>10. page' \in Seq(B) /\ Sorted(Ord, page')
  BY <1>9 DEF FirstOf, LastOf
<1>11. /\ Len(page') = IF Cardinality(B) > limit THEN limit ELSE Cardinality(B)
       /\ ~(Cardinality(B) > limit) => Range(page') = B
  BY <1>1, <1>6, <1>9 DEF FirstOf
<1>12. /\ nextCursor' = IF page' = <<>> \/ (c.pointsNext /\ ~(Cardinality(B) > limit)) THEN NoCursor
                        ELSE [id |-> page'[Len(page')], pointsNext |-> TRUE]
       /\ prevCursor' = IF page' = <<>> \/ c = NoCursor \/ (~c.pointsNext /\ ~(Cardinality(B) > limit)) THEN NoCursor
                        ELSE [id |-> page'[1], pointsNext |-> FALSE]
       /\ snap' = rows
  <2> DEFINE more == Cardinality(B) > limit
             isFirst == firstPage(c, more, g)
             cursors == [next |-> IF ~c.pointsNext \/ more THEN [id |-> page'[Len(page')], pointsNext |-> TRUE] ELSE NoCursor,
                         prev |-> IF ~isFirst /\ (c.pointsNext \/ more)
                                  THEN [id |-> page'[1], pointsNext |-> FALSE] ELSE NoCursor]
  <2>1. Len(items) > limit <=> more
    BY <1>6, <1>7
  <2>2. /\ nextCursor' = IF page' = <<>> THEN NoCursor ELSE cursors.next
        /\ prevCursor' = IF page' = <<>> THEN NoCursor ELSE cursors.prev
        /\ snap' = rows
    BY <1>3, <2>1 DEF CalculateCursor, CalculateSortCursorPagination, EncodeCursor, EncodeSortCursor
  <2>3. c = NoCursor => c.pointsNext
    BY DEF NoCursor
  <2>4. isFirst <=> (c = NoCursor \/ (g /\ ~more /\ ~c.pointsNext))
    BY DEF firstPage
  <2> QED
    BY <2>2, <2>3, <2>4
<1> QED
  BY <1>9, <1>10, <1>11, <1>12 DEF Served, B

-----------------------------------------------------------------------------
(* Keyset pages: the walk.                                                 *)
Shown == page # NoPage /\ page # <<>>

(* A page is a stretch of the table it was read from, and its cursors name *)
(* its ends; one that has a page behind it is full, or it is the first.    *)
PageOK ==
    /\ Shown =>
         LET first == page[1]
             end  == page[Len(page)]
         IN  /\ Sorted(Ord, page) /\ Range(page) \subseteq snap /\ Len(page) <= limit
             /\ \A r \in snap : <<first, r>> \in Ord /\ <<r, end>> \in Ord => r \in Range(page)
             /\ IF nextCursor = NoCursor THEN \A r \in snap : <<end, r>> \notin Ord
                ELSE /\ nextCursor.id = end
                     /\ Len(page) = limit \/ \A r \in snap : <<r, first>> \notin Ord
             /\ IF prevCursor = NoCursor THEN \A r \in snap : <<r, first>> \notin Ord
                ELSE prevCursor.id = first
    /\ ~Shown => nextCursor = NoCursor /\ prevCursor = NoCursor

(* The walk's cursor parts the rows that were returned from those to come. *)
WalkOK ==
    walking =>
      /\ \A r \in stable : r \in walked \/ (nextCursor # NoCursor /\ <<nextCursor.id, r>> \in Ord)
      /\ nextCursor # NoCursor => \A r \in walked : r = nextCursor.id \/ <<r, nextCursor.id>> \in Ord

(* The page that was left is the last before the one there is.             *)
BackOK ==
    left # NoPage /\ prevCursor # NoCursor => LastOf(Ord, {r \in rows : <<r, prevCursor.id>> \in Ord}, limit, left)

PagingInv == PageTypes /\ PageOK /\ WalkOK /\ BackOK /\ ~repeated /\ retraced

LEMMA OrdStays == ASSUME UNCHANGED <<family, order>> PROVE Ord' = Ord
<1>1. family' = family /\ order' = order
  OBVIOUS
<1> QED
  BY <1>1 DEF Ord, comesFirst, less, rules, CursorDirectionRules, SortCursorDirection, ValidateSortDirection

(* What every answer is, whichever cursor it answers.                      *)
LEMMA ServedPage ==
    ASSUME PageTypes, NEW c \in Cursors, Served(c), UNCHANGED <<family, order, limit>>
    PROVE  /\ PageOK' /\ page' \in Seq(Ids) /\ page' # NoPage /\ snap' = rows
           /\ nextCursor' \in {NoCursor} \cup [id : Ids, pointsNext : {TRUE}]
           /\ prevCursor' \in {NoCursor} \cup [id : Ids, pointsNext : {FALSE}]
           /\ Range(page') \subseteq Side(c) /\ Range(page') \subseteq Ids
<1> DEFINE B == Side(c)
           p == page'
           more == Cardinality(B) > limit
           first == p[1]
           end == p[Len(p)]
<1>1. /\ p \in Seq(B) /\ Sorted(Ord, p) /\ Len(p) = (IF more THEN limit ELSE Cardinality(B)) /\ (~more => Range(p) = B)
      /\ nextCursor' = IF p = <<>> \/ (c.pointsNext /\ ~more) THEN NoCursor
                       ELSE [id |-> p[Len(p)], pointsNext |-> TRUE]
      /\ prevCursor' = IF p = <<>> \/ c = NoCursor \/ (~c.pointsNext /\ ~more) THEN NoCursor
                       ELSE [id |-> p[1], pointsNext |-> FALSE]
      /\ snap' = rows
  BY DEF Served
<1>2. /\ \A r \in B \ Range(p) : \A i \in 1 .. Len(p) : IF c.pointsNext THEN <<p[i], r>> \in Ord ELSE <<r, p[i]>> \in Ord
  <2>1. CASE c.pointsNext
    BY <2>1 DEF Served, FirstOf
  <2>2. CASE ~c.pointsNext
    BY <2>2 DEF Served, LastOf
  <2> QED
    BY <2>1, <2>2
<1>3. /\ B \subseteq rows /\ rows \subseteq Ids /\ limit \in Nat \ {0} /\ Cardinality(B) \in Nat
      /\ \A r \in rows : r \in B <=> c = NoCursor \/ IF c.pointsNext THEN <<c.id, r>> \in Ord ELSE <<r, c.id>> \in Ord
      /\ c.pointsNext \in BOOLEAN /\ (c = NoCursor => c.pointsNext) /\ (c # NoCursor => c.id \in Ids)
  <2>1. B \in SUBSET rows /\ rows \subseteq Ids /\ IsFiniteSet(rows)
    BY DEF Side, PageTypes
  <2>2. Cardinality(B) \in Nat
    BY <2>1, FS_Subset, FS_CardinalityType
  <2>3. MaxLimit \in Nat /\ limit \in 1 .. MaxLimit
    BY PagingAssumption DEF PageTypes
  <2>4. limit \in Nat \ {0}
    BY <2>3
  <2>5. \A r \in rows : r \in B <=> c = NoCursor \/ IF c.pointsNext THEN <<c.id, r>> \in Ord ELSE <<r, c.id>> \in Ord
    BY DEF Side
  <2>6. c.pointsNext \in BOOLEAN /\ (c = NoCursor => c.pointsNext) /\ (c # NoCursor => c.id \in Ids)
    <3>1. NoCursor.pointsNext = TRUE
      BY DEF NoCursor
    <3>2. CASE c \in [id : Ids, pointsNext : BOOLEAN]
      BY <3>1, <3>2
    <3> QED
      BY <3>1, <3>2 DEF Cursors
  <2> QED
    BY <2>1, <2>2, <2>4, <2>5, <2>6
<1>4. /\ \A a \in Ids : <<a, a>> \notin Ord
      /\ \A a, b, d \in Ids : <<a, b>> \in Ord /\ <<b, d>> \in Ord => <<a, d>> \in Ord
      /\ \A a, b \in Ids : ~(<<a, b>> \in Ord /\ <<b, a>> \in Ord)
  <2>1. Strict(Ord, Ids)
    BY RowsAreOrdered DEF PageTypes
  <2> QED
    BY <2>1 DEF Strict
<1> HIDE DEF B
<1>5. /\ p \in Seq(Ids) /\ Range(p) \subseteq B /\ Range(p) \subseteq Ids /\ Len(p) \in Nat
      /\ \A x : x \in Range(p) <=> \E i \in 1 .. Len(p) : x = p[i]
  BY <1>1, <1>3, SeqRange
<1>6. p # NoPage
  <2>1. NoPage[1] = 0 /\ Len(NoPage) = 1
    BY DEF NoPage
  <2>2. \A i \in 1 .. Len(p) : p[i] \in Ids
    BY <1>5
  <2>3. 0 \notin Ids
    BY PagingAssumption
  <2> QED
    BY <2>1, <2>2, <2>3
<1>7. p # <<>> => /\ Len(p) \in Nat \ {0} /\ first \in Range(p) /\ end \in Range(p) /\ first \in Ids /\ end \in Ids
                 /\ 1 \in 1 .. Len(p) /\ Len(p) \in 1 .. Len(p)
                 /\ \A x \in Range(p) : (x = first \/ <<first, x>> \in Ord) /\ (x = end \/ <<x, end>> \in Ord)
  <2>1. SUFFICES ASSUME p # <<>>
                 PROVE  /\ Len(p) \in Nat \ {0} /\ first \in Range(p) /\ end \in Range(p) /\ first \in Ids /\ end \in Ids
                        /\ 1 \in 1 .. Len(p) /\ Len(p) \in 1 .. Len(p)
                        /\ \A x \in Range(p) : (x = first \/ <<first, x>> \in Ord) /\ (x = end \/ <<x, end>> \in Ord)
    OBVIOUS
  <2>2. Len(p) \in Nat \ {0} /\ 1 \in 1 .. Len(p) /\ Len(p) \in 1 .. Len(p)
    BY <1>5, <2>1
  <2>3. first \in Range(p) /\ end \in Range(p) /\ first \in Ids /\ end \in Ids
    BY <1>5, <2>2
  <2>4. ASSUME NEW x \in Range(p) PROVE (x = first \/ <<first, x>> \in Ord) /\ (x = end \/ <<x, end>> \in Ord)
    <3>1. PICK i \in 1 .. Len(p) : x = p[i]
      BY <1>5
    <3>2. (i = 1 \/ 1 < i) /\ (i = Len(p) \/ i < Len(p))
      BY <2>2
    <3> QED
      BY <1>1, <2>2, <3>1, <3>2 DEF Sorted
  <2> QED
    BY <2>2, <2>3, <2>4
<1> HIDE DEF p, first, end, more
<1>8. ASSUME p # <<>>, NEW r \in rows
      PROVE  /\ <<first, r>> \in Ord /\ <<r, end>> \in Ord => r \in Range(p)
             /\ c.pointsNext /\ ~more => <<end, r>> \notin Ord
             /\ c = NoCursor \/ (~c.pointsNext /\ ~more) => <<r, first>> \notin Ord
  <2>1. /\ r \in Ids /\ first \in Ids /\ end \in Ids /\ first \in B /\ end \in B
        /\ first \in rows /\ end \in rows
    BY <1>3, <1>5, <1>7, <1>8
  <2>2. /\ r \in B \ Range(p) => IF c.pointsNext THEN <<first, r>> \in Ord /\ <<end, r>> \in Ord
                                  ELSE <<r, first>> \in Ord /\ <<r, end>> \in Ord
    BY <1>2, <1>7, <1>8 DEF first, end
  <2>3. ASSUME <<first, r>> \in Ord, <<r, end>> \in Ord PROVE r \in Range(p)
    <3>1. r \in B
      BY <1>3, <1>4, <2>1, <2>3
    <3> QED
      BY <1>4, <2>1, <2>2, <2>3, <3>1
  <2>4. ASSUME c.pointsNext, ~more, <<end, r>> \in Ord PROVE FALSE
    <3>1. r \in B
      BY <1>3, <1>4, <2>1, <2>4
    <3>2. r \in Range(p)
      BY <1>1, <2>4, <3>1 DEF p, more
    <3> QED
      BY <1>4, <1>7, <1>8, <2>1, <2>4, <3>2
  <2>5. ASSUME c = NoCursor \/ (~c.pointsNext /\ ~more), <<r, first>> \in Ord PROVE FALSE
    <3>1. r \in B
      BY <1>3, <1>4, <2>1, <2>5
    <3>2. CASE r \in Range(p)
      BY <1>4, <1>7, <1>8, <2>1, <2>5, <3>2
    <3>3. CASE r \notin Range(p)
      <4>1. c = NoCursor
        BY <1>1, <2>5, <3>1, <3>3 DEF p, more
      <4> QED
        BY <1>3, <1>4, <2>1, <2>2, <2>5, <3>1, <3>3, <4>1
    <3> QED
      BY <3>2, <3>3
  <2> QED
    BY <2>3, <2>4, <2>5
<1>9. p # <<>> => /\ nextCursor' = (IF c.pointsNext /\ ~more THEN NoCursor ELSE [id |-> end, pointsNext |-> TRUE])
                 /\ prevCursor' = (IF c = NoCursor \/ (~c.pointsNext /\ ~more) THEN NoCursor ELSE [id |-> first, pointsNext |-> FALSE])
  BY <1>1 DEF p, more, first, end
<1>10. p = <<>> => nextCursor' = NoCursor /\ prevCursor' = NoCursor
  BY <1>1 DEF p
<1>11. \A x \in Ids, d \in BOOLEAN : [id |-> x, pointsNext |-> d] # NoCursor
  <2>1. 0 \notin Ids
    BY PagingAssumption
  <2> QED
    BY <2>1 DEF NoCursor
<1>12. Len(p) <= limit /\ (p # <<>> /\ more => Len(p) = limit)
  BY <1>1, <1>3, <1>5 DEF p, more
<1>13. Ord' = Ord /\ limit' = limit /\ snap' = rows /\ page' = p
  BY <1>1, OrdStays DEF p
<1>14. p # <<>> =>
         /\ Sorted(Ord, p) /\ Range(p) \subseteq rows /\ Len(p) <= limit
         /\ \A r \in rows : <<first, r>> \in Ord /\ <<r, end>> \in Ord => r \in Range(p)
         /\ IF nextCursor' = NoCursor THEN \A r \in rows : <<end, r>> \notin Ord
            ELSE /\ nextCursor'.id = end
                 /\ Len(p) = limit \/ \A r \in rows : <<r, first>> \notin Ord
         /\ IF prevCursor' = NoCursor THEN \A r \in rows : <<r, first>> \notin Ord
            ELSE prevCursor'.id = first
  <2>1. SUFFICES ASSUME p # <<>>
                 PROVE  /\ Sorted(Ord, p) /\ Range(p) \subseteq rows /\ Len(p) <= limit
                        /\ \A r \in rows : <<first, r>> \in Ord /\ <<r, end>> \in Ord => r \in Range(p)
                        /\ IF nextCursor' = NoCursor THEN \A r \in rows : <<end, r>> \notin Ord
                           ELSE /\ nextCursor'.id = end
                                /\ Len(p) = limit \/ \A r \in rows : <<r, first>> \notin Ord
                        /\ IF prevCursor' = NoCursor THEN \A r \in rows : <<r, first>> \notin Ord
                           ELSE prevCursor'.id = first
    OBVIOUS
  <2>2. Sorted(Ord, p) /\ Range(p) \subseteq rows
    BY <1>1, <1>3, <1>5 DEF p
  <2>3. IF nextCursor' = NoCursor THEN \A r \in rows : <<end, r>> \notin Ord
        ELSE /\ nextCursor'.id = end
             /\ Len(p) = limit \/ \A r \in rows : <<r, first>> \notin Ord
    <3>1. end \in Ids
      BY <1>7, <2>1
    <3>2. CASE c.pointsNext /\ ~more
      BY <1>8, <1>9, <2>1, <3>2
    <3>3. CASE ~(c.pointsNext /\ ~more)
      <4>1. nextCursor' # NoCursor /\ nextCursor'.id = end
        <5>1. nextCursor' = [id |-> end, pointsNext |-> TRUE]
          BY <1>9, <2>1, <3>3
        <5> QED
          BY <1>11, <3>1, <5>1
      <4>2. more \/ (~c.pointsNext /\ ~more)
        BY <3>3
      <4> QED
        BY <1>8, <1>12, <2>1, <4>1, <4>2
    <3> QED
      BY <3>2, <3>3
  <2>4. IF prevCursor' = NoCursor THEN \A r \in rows : <<r, first>> \notin Ord
        ELSE prevCursor'.id = first
    <3>1. first \in Ids
      BY <1>7, <2>1
    <3>2. CASE c = NoCursor \/ (~c.pointsNext /\ ~more)
      BY <1>8, <1>9, <2>1, <3>2
    <3>3. CASE ~(c = NoCursor \/ (~c.pointsNext /\ ~more))
      <4>1. prevCursor' = [id |-> first, pointsNext |-> FALSE]
        BY <1>9, <2>1, <3>3
      <4> QED
        BY <1>11, <3>1, <4>1
    <3> QED
      BY <3>2, <3>3
  <2> QED
    BY <1>8, <1>12, <2>1, <2>2, <2>3, <2>4
<1>15. PageOK'
  BY <1>6, <1>10, <1>13, <1>14 DEF PageOK, Shown, first, end
<1>16. /\ nextCursor' \in {NoCursor} \cup [id : Ids, pointsNext : {TRUE}]
       /\ prevCursor' \in {NoCursor} \cup [id : Ids, pointsNext : {FALSE}]
  <2>1. CASE p = <<>>
    BY <1>10, <2>1
  <2>2. CASE p # <<>>
    <3>1. first \in Ids /\ end \in Ids
      BY <1>7, <2>2
    <3>2. nextCursor' = NoCursor \/ nextCursor' = [id |-> end, pointsNext |-> TRUE]
      BY <1>9, <2>2
    <3>3. prevCursor' = NoCursor \/ prevCursor' = [id |-> first, pointsNext |-> FALSE]
      BY <1>9, <2>2
    <3>4. [id |-> end, pointsNext |-> TRUE] \in [id : Ids, pointsNext : {TRUE}]
      BY <3>1
    <3>5. [id |-> first, pointsNext |-> FALSE] \in [id : Ids, pointsNext : {FALSE}]
      BY <3>1
    <3>6. nextCursor' \in {NoCursor} \cup [id : Ids, pointsNext : {TRUE}]
      BY <3>2, <3>4
    <3>7. prevCursor' \in {NoCursor} \cup [id : Ids, pointsNext : {FALSE}]
      BY <3>3, <3>5
    <3> QED
      BY <3>6, <3>7
  <2> QED
    BY <2>1, <2>2
<1> QED
  BY <1>5, <1>6, <1>13, <1>15, <1>16 DEF B, p

LEMMA PagingInitially == PagingInit => PagingInv
<1> SUFFICES ASSUME PagingInit PROVE PagingInv
  OBVIOUS
<1>1. limit \in 1 .. MaxLimit
  <2>1. PICK l \in RawLimits : limit = ValidateLimit(l, DefaultLimit, MaxLimit)
    BY DEF PagingInit, ParseOpaqueCursorPagination
  <2>2. l \in Int /\ DefaultLimit \in Nat \ {0} /\ MaxLimit \in Nat \ {0} /\ DefaultLimit <= MaxLimit
    BY PagingAssumption
  <2> QED
    BY <2>1, <2>2 DEF ValidateLimit
<1>2. rows \in SUBSET Ids /\ IsFiniteSet(rows)
  BY PagingAssumption DEF PagingInit
<1>3. PageTypes
  BY <1>1, <1>2 DEF PagingInit, PageTypes
<1> QED
  BY <1>3 DEF PagingInit, PagingInv, PageOK, Shown, WalkOK, BackOK

LEMMA FirstPageKeeps == ASSUME PagingInv, FirstPage PROVE PagingInv'
<1>1. PageTypes /\ NoCursor \in Cursors /\ UNCHANGED <<rows, family, order, limit, left, repeated, retraced>>
  BY DEF PagingInv, FirstPage, Cursors
<1>2. Served(NoCursor)
  BY <1>1, ServeServes DEF FirstPage
<1>3. /\ PageOK' /\ page' \in Seq(Ids) /\ page' # NoPage /\ snap' = rows
      /\ nextCursor' \in {NoCursor} \cup [id : Ids, pointsNext : {TRUE}]
      /\ prevCursor' \in {NoCursor} \cup [id : Ids, pointsNext : {FALSE}]
      /\ Range(page') \subseteq Ids
  BY <1>1, <1>2, ServedPage
<1>4. walking' = TRUE /\ walked' = Range(page') /\ stable' = rows
  BY DEF FirstPage
<1>5. PageTypes'
  BY <1>1, <1>3, <1>4 DEF PageTypes
<1>6. Side(NoCursor) = rows /\ NoCursor.pointsNext = TRUE
  BY DEF Side, NoCursor
<1>7. prevCursor' = NoCursor
  BY <1>2 DEF Served
<1>8. WalkOK'
  <2>1. Ord' = Ord
    BY <1>1, OrdStays
  <2>2. /\ page' \in Seq(rows) /\ Sorted(Ord, page')
        /\ \A r \in rows \ Range(page') : \A i \in 1 .. Len(page') : <<page'[i], r>> \in Ord
        /\ ~(Cardinality(rows) > limit) => Range(page') = rows
        /\ Len(page') = IF Cardinality(rows) > limit THEN limit ELSE Cardinality(rows)
        /\ nextCursor' = IF page' = <<>> \/ ~(Cardinality(rows) > limit) THEN NoCursor
                         ELSE [id |-> page'[Len(page')], pointsNext |-> TRUE]
    BY <1>2, <1>6 DEF Served, FirstOf
  <2>3. CASE ~(Cardinality(rows) > limit)
    BY <1>4, <2>2, <2>3 DEF WalkOK
  <2>4. CASE Cardinality(rows) > limit
    <3>1. Len(page') \in Nat \ {0} /\ page' # <<>>
      <4>1. Len(page') = limit /\ limit \in 1 .. MaxLimit /\ MaxLimit \in Nat
        BY <1>1, <2>2, <2>4, PagingAssumption DEF PageTypes
      <4> QED
        BY <4>1
    <3>2. nextCursor' = [id |-> page'[Len(page')], pointsNext |-> TRUE]
      BY <2>2, <2>4, <3>1
    <3>3. nextCursor'.id = page'[Len(page')]
      BY <3>2
    <3>4. nextCursor' # NoCursor
      BY <1>3, <3>1, <3>2, PagingAssumption DEF NoCursor
    <3>5. \A r \in rows \ Range(page') : <<nextCursor'.id, r>> \in Ord
      BY <2>2, <3>1, <3>3
    <3>6. \A r \in Range(page') : r = nextCursor'.id \/ <<r, nextCursor'.id>> \in Ord
      <4>1. SUFFICES ASSUME NEW r \in Range(page') PROVE r = nextCursor'.id \/ <<r, nextCursor'.id>> \in Ord
        OBVIOUS
      <4>2. PICK i \in 1 .. Len(page') : r = page'[i]
        BY <1>3, SeqRange
      <4> QED
        BY <2>2, <3>1, <3>3, <4>2 DEF Sorted
    <3> QED
      BY <1>4, <2>1, <3>4, <3>5, <3>6 DEF WalkOK
  <2> QED
    BY <2>3, <2>4
<1>9. BackOK'
  BY <1>7 DEF BackOK
<1> QED
  BY <1>1, <1>3, <1>5, <1>8, <1>9 DEF PagingInv

LEMMA FollowNextKeeps == ASSUME PagingInv, FollowNext PROVE PagingInv'
<1> DEFINE c == nextCursor
           B == {r \in rows : <<c.id, r>> \in Ord}
           first == page[1]
           end == page[Len(page)]
<1>1. /\ PageTypes /\ PageOK /\ WalkOK /\ ~repeated /\ retraced
      /\ UNCHANGED <<rows, family, order, limit, walking, stable, retraced>>
      /\ c # NoCursor
  BY DEF PagingInv, FollowNext
<1>2. c \in [id : Ids, pointsNext : {TRUE}] /\ c \in Cursors
  <2>1. c \in [id : Ids, pointsNext : {TRUE}]
    BY <1>1 DEF PageTypes
  <2>2. c \in [id : Ids, pointsNext : BOOLEAN]
    BY <2>1
  <2> QED
    BY <2>1, <2>2 DEF Cursors
<1>3. c.id \in Ids /\ c.pointsNext = TRUE
  BY <1>2
<1>4. Served(c)
  BY <1>1, <1>2, ServeServes DEF FollowNext
<1>5. /\ PageOK' /\ page' \in Seq(Ids) /\ page' # NoPage /\ snap' = rows
      /\ nextCursor' \in {NoCursor} \cup [id : Ids, pointsNext : {TRUE}]
      /\ prevCursor' \in {NoCursor} \cup [id : Ids, pointsNext : {FALSE}]
      /\ Range(page') \subseteq Side(c) /\ Range(page') \subseteq Ids
  BY <1>1, <1>2, <1>4, ServedPage
<1>6. Side(c) = B
  BY <1>1, <1>3 DEF Side
<1>7. /\ walked' = (IF walking THEN walked \cup Range(page') ELSE walked)
      /\ repeated' = (repeated \/ (walking /\ walked \cap Range(page') # {}))
      /\ left' = IF snap = rows THEN page ELSE NoPage
  BY DEF FollowNext
<1>8. PageTypes'
  BY <1>1, <1>5, <1>7 DEF PageTypes
<1>9. /\ \A a \in Ids : <<a, a>> \notin Ord
      /\ \A a, b, d \in Ids : <<a, b>> \in Ord /\ <<b, d>> \in Ord => <<a, d>> \in Ord
      /\ \A a, b \in Ids : ~(<<a, b>> \in Ord /\ <<b, a>> \in Ord)
      /\ \A a, b \in Ids : a = b \/ <<a, b>> \in Ord \/ <<b, a>> \in Ord
  <2>1. Strict(Ord, Ids)
    BY <1>1, RowsAreOrdered DEF PageTypes
  <2> QED
    BY <2>1 DEF Strict
<1>10. Ord' = Ord
  BY <1>1, OrdStays
<1>11. /\ page' \in Seq(B) /\ Sorted(Ord, page')
       /\ \A r \in B \ Range(page') : \A i \in 1 .. Len(page') : <<page'[i], r>> \in Ord
       /\ ~(Cardinality(B) > limit) => Range(page') = B
       /\ Len(page') = (IF Cardinality(B) > limit THEN limit ELSE Cardinality(B))
       /\ nextCursor' = IF page' = <<>> \/ ~(Cardinality(B) > limit) THEN NoCursor
                        ELSE [id |-> page'[Len(page')], pointsNext |-> TRUE]
  BY <1>3, <1>4, <1>6 DEF Served, FirstOf
<1>12. /\ \A x : x \in Range(page') <=> \E i \in 1 .. Len(page') : x = page'[i]
       /\ Len(page') \in Nat /\ rows \subseteq Ids /\ B \subseteq rows
  BY <1>1, <1>5, SeqRange DEF PageTypes
<1>13. Shown /\ page \in Seq(Ids) /\ Len(page) \in Nat \ {0} /\ c.id = end
  <2>1. Shown
    BY <1>1 DEF PageOK
  <2>2. page \in Seq(Ids)
    BY <1>1, <2>1 DEF PageTypes, Shown
  <2> QED
    BY <1>1, <2>1, <2>2 DEF PageOK, Shown
<1> HIDE DEF c, B
<1>14. WalkOK' /\ ~repeated'
  <2>1. CASE ~walking
    BY <1>1, <1>7, <2>1 DEF WalkOK
  <2>2. CASE walking
    <3>1. \A r \in stable : r \in walked \/ r \in B
      BY <1>1, <2>2 DEF WalkOK, PageTypes, B, c
    <3>2. \A r \in walked : r = c.id \/ <<r, c.id>> \in Ord
      BY <1>1, <2>2 DEF WalkOK, c
    <3>3. \A r \in Range(page') : r \in Ids /\ <<c.id, r>> \in Ord
      BY <1>5, <1>6 DEF B
    <3>4. walked \subseteq Ids
      BY <1>1 DEF PageTypes
    <3>5. walked \cap Range(page') = {}
      BY <1>3, <1>9, <3>2, <3>3, <3>4
    <3>6. CASE ~(Cardinality(B) > limit)
      BY <1>1, <1>7, <1>11, <2>2, <3>1, <3>5, <3>6 DEF WalkOK
    <3>7. CASE Cardinality(B) > limit
      <4>1. Len(page') \in Nat \ {0} /\ page' # <<>>
        <5>1. Len(page') = limit /\ limit \in 1 .. MaxLimit /\ MaxLimit \in Nat
          BY <1>1, <1>11, <3>7, PagingAssumption DEF PageTypes
        <5> QED
          BY <5>1
      <4>2. nextCursor' = [id |-> page'[Len(page')], pointsNext |-> TRUE]
        BY <1>11, <3>7, <4>1
      <4>3. nextCursor'.id = page'[Len(page')] /\ nextCursor'.id \in Range(page')
        BY <1>12, <4>1, <4>2
      <4>4. nextCursor' # NoCursor
        BY <1>5, <4>1, <4>2, PagingAssumption DEF NoCursor
      <4>5. \A r \in B \ Range(page') : <<nextCursor'.id, r>> \in Ord
        BY <1>11, <4>1, <4>3
      <4>6. \A r \in Range(page') : r = nextCursor'.id \/ <<r, nextCursor'.id>> \in Ord
        <5>1. SUFFICES ASSUME NEW r \in Range(page') PROVE r = nextCursor'.id \/ <<r, nextCursor'.id>> \in Ord
          OBVIOUS
        <5>2. PICK i \in 1 .. Len(page') : r = page'[i]
          BY <1>12
        <5> QED
          BY <1>11, <4>1, <4>3, <5>2 DEF Sorted
      <4>7. \A r \in walked : <<r, nextCursor'.id>> \in Ord
        BY <1>3, <1>9, <3>2, <3>3, <3>4, <4>3
      <4>8. walking' /\ walked' = walked \cup Range(page') /\ stable' = stable
        BY <1>1, <1>7, <2>2
      <4>9. WalkOK'
        BY <1>10, <3>1, <4>4, <4>5, <4>6, <4>7, <4>8 DEF WalkOK
      <4> QED
        BY <1>1, <1>7, <3>5, <4>9
    <3> QED
      BY <3>6, <3>7
  <2> QED
    BY <2>1, <2>2
<1>15. BackOK'
  <2> DEFINE f == page'[1]
             L == {r \in rows : <<r, f>> \in Ord}
  <2>1. SUFFICES ASSUME left' # NoPage, prevCursor' # NoCursor
                 PROVE  LastOf(Ord, {r \in rows : <<r, prevCursor'.id>> \in Ord}, limit, left')
    BY <1>1, <1>10 DEF BackOK
  <2>2. snap = rows /\ left' = page
    BY <1>7, <2>1
  <2>3. page' # <<>> /\ prevCursor'.id = f
    BY <1>5, <2>1 DEF PageOK, Shown
  <2>4. Len(page') \in Nat \ {0} /\ f \in Range(page') /\ f \in Ids /\ f \in B /\ <<end, f>> \in Ord
    BY <1>5, <1>6, <1>12, <1>13, <2>3 DEF B
  <2>5. /\ Sorted(Ord, page) /\ Range(page) \subseteq rows /\ Len(page) <= limit
        /\ \A r \in rows : <<first, r>> \in Ord /\ <<r, end>> \in Ord => r \in Range(page)
        /\ Len(page) = limit \/ \A r \in rows : <<r, first>> \notin Ord
    BY <1>1, <1>13, <2>2 DEF PageOK, c
  <2>6. \A x : x \in Range(page) <=> \E i \in 1 .. Len(page) : x = page[i]
    BY <1>13, SeqRange
  <2>7. /\ end \in Range(page) /\ first \in Range(page) /\ first \in Ids /\ end \in Ids
        /\ \A x \in Range(page) : x \in Ids /\ (x = end \/ <<x, end>> \in Ord) /\ (x = first \/ <<first, x>> \in Ord)
    <3>1. end \in Range(page) /\ first \in Range(page) /\ first \in Ids /\ end \in Ids
      BY <1>13, <2>6
    <3>2. ASSUME NEW x \in Range(page) PROVE x \in Ids /\ (x = end \/ <<x, end>> \in Ord) /\ (x = first \/ <<first, x>> \in Ord)
      <4>1. PICK i \in 1 .. Len(page) : x = page[i]
        BY <2>6
      <4>2. (i = 1 \/ 1 < i) /\ (i = Len(page) \/ i < Len(page)) /\ 1 \in 1 .. Len(page) /\ Len(page) \in 1 .. Len(page)
        BY <1>13
      <4> QED
        BY <1>13, <2>5, <4>1, <4>2 DEF Sorted
    <3> QED
      BY <3>1, <3>2
  <2> HIDE DEF f, first, end
  <2>8. Range(page) \subseteq L
    BY <1>9, <2>4, <2>5, <2>7
  <2>9. page \in Seq(L)
    <3>1. \A i \in 1 .. Len(page) : page[i] \in L
      BY <2>6, <2>8
    <3>2. page \in [1 .. Len(page) -> Ids] /\ Len(page) \in Nat
      BY <1>13
    <3> HIDE DEF L
    <3>3. page \in [1 .. Len(page) -> L]
      BY <3>1, <3>2
    <3> QED
      BY <3>2, <3>3
  <2>10. ASSUME NEW r \in L \ Range(page) PROVE <<r, first>> \in Ord
    <3>1. r \in rows /\ r \in Ids /\ <<r, f>> \in Ord /\ r # first /\ r # end
      BY <1>12, <2>7, <2>10
    <3>2. <<end, r>> \notin Ord
      <4>1. SUFFICES ASSUME <<end, r>> \in Ord PROVE FALSE
        OBVIOUS
      <4>2. r \in B
        BY <1>13, <3>1, <4>1 DEF B
      <4>3. CASE r \in Range(page')
        <5>1. PICK i \in 1 .. Len(page') : r = page'[i]
          BY <1>12, <4>3
        <5>2. i = 1 \/ 1 < i
          BY <2>4
        <5>3. r = f \/ <<f, r>> \in Ord
          BY <1>11, <2>4, <5>1, <5>2 DEF Sorted, f
        <5> QED
          BY <1>9, <2>4, <3>1, <5>3
      <4>4. CASE r \notin Range(page')
        <5>1. <<f, r>> \in Ord
          BY <1>11, <2>4, <4>2, <4>4 DEF f
        <5> QED
          BY <1>9, <2>4, <3>1, <5>1
      <4> QED
        BY <4>3, <4>4
    <3> QED
      BY <1>9, <2>5, <2>7, <2>10, <3>1, <3>2
  <2>11. \A r \in L \ Range(page) : \A i \in 1 .. Len(page) : <<r, page[i]>> \in Ord
    <3>1. \A i \in 1 .. Len(page) : page[i] \in Range(page)
      BY <2>6
    <3> QED
      BY <1>9, <1>12, <2>7, <2>10, <3>1
  <2>12. Len(page) = limit \/ Range(page) = L
    <3>1. CASE \A r \in rows : <<r, first>> \notin Ord
      BY <2>8, <2>10, <3>1
    <3> QED
      BY <2>5, <3>1
  <2>13. LastOf(Ord, L, limit, page)
    BY <2>5, <2>9, <2>11, <2>12 DEF LastOf
  <2> QED
    BY <2>2, <2>3, <2>13
<1> QED
  BY <1>1, <1>5, <1>8, <1>14, <1>15 DEF PagingInv

LEMMA FollowPrevKeeps == ASSUME PagingInv, NEW g \in BOOLEAN, FollowPrev(g) PROVE PagingInv'
<1> DEFINE c == prevCursor
           B == {r \in rows : <<r, c.id>> \in Ord}
<1>1. /\ PageTypes /\ BackOK /\ ~repeated /\ retraced
      /\ UNCHANGED <<rows, family, order, limit, walked, stable, repeated>>
      /\ c # NoCursor /\ left' = NoPage /\ walking' = FALSE
      /\ retraced' = (retraced /\ (left # NoPage => page' = left))
  BY DEF PagingInv, FollowPrev
<1>2. c \in [id : Ids, pointsNext : {FALSE}] /\ c \in Cursors
  <2>1. c \in [id : Ids, pointsNext : {FALSE}]
    BY <1>1 DEF PageTypes
  <2>2. c \in [id : Ids, pointsNext : BOOLEAN]
    BY <2>1
  <2> QED
    BY <2>1, <2>2 DEF Cursors
<1>3. c.id \in Ids /\ c.pointsNext = FALSE
  BY <1>2
<1>4. Served(c)
  BY <1>1, <1>2, ServeServes DEF FollowPrev
<1>5. /\ PageOK' /\ page' \in Seq(Ids) /\ page' # NoPage /\ snap' = rows
      /\ nextCursor' \in {NoCursor} \cup [id : Ids, pointsNext : {TRUE}]
      /\ prevCursor' \in {NoCursor} \cup [id : Ids, pointsNext : {FALSE}]
  BY <1>1, <1>2, <1>4, ServedPage
<1>6. Side(c) = B
  BY <1>1, <1>3 DEF Side
<1>7. LastOf(Ord, B, limit, page')
  BY <1>3, <1>4, <1>6 DEF Served
<1>8. B \in SUBSET rows /\ rows \subseteq Ids /\ IsFiniteSet(rows) /\ limit \in Nat
  BY <1>1, PagingAssumption DEF PageTypes
<1>9. B \in SUBSET Ids /\ IsFiniteSet(B)
  BY <1>8, FS_Subset
<1>10. Strict(Ord, Ids)
  BY <1>1, RowsAreOrdered DEF PageTypes
<1>11. left # NoPage => LastOf(Ord, B, limit, left)
  BY <1>1 DEF BackOK
<1> HIDE DEF B
<1>12. left # NoPage => page' = left
  BY <1>7, <1>8, <1>9, <1>10, <1>11, OneLastPage
<1>13. PageTypes'
  BY <1>1, <1>5 DEF PageTypes
<1>14. WalkOK' /\ BackOK'
  BY <1>1 DEF WalkOK, BackOK
<1> QED
  BY <1>1, <1>5, <1>12, <1>13, <1>14 DEF PagingInv

LEMMA EditsKeep == ASSUME PagingInv, NEW r \in Ids, InsertRow(r) \/ DeleteRow(r) PROVE PagingInv'
<1>1. /\ PageTypes /\ PageOK /\ WalkOK /\ ~repeated /\ retraced
      /\ UNCHANGED <<family, order, limit, page, nextCursor, prevCursor, snap, walking, walked, repeated, retraced>>
      /\ left' = NoPage /\ stable' \subseteq stable
      /\ \/ rows' = rows \cup {r} /\ stable' = stable
         \/ rows' = rows \ {r} /\ stable' = stable \ {r}
  BY DEF PagingInv, InsertRow, DeleteRow
<1>2. Ord' = Ord
  BY <1>1, OrdStays
<1>3. rows' \in SUBSET Ids /\ IsFiniteSet(rows') /\ stable' \subseteq rows'
  BY <1>1, FS_AddElement, FS_RemoveElement DEF PageTypes
<1>4. PageTypes'
  BY <1>1, <1>3 DEF PageTypes
<1>5. PageOK'
  BY <1>1, <1>2 DEF PageOK, Shown
<1>6. WalkOK'
  BY <1>1, <1>2 DEF WalkOK
<1>7. BackOK'
  BY <1>1 DEF BackOK
<1> QED
  BY <1>1, <1>4, <1>5, <1>6, <1>7 DEF PagingInv

(* Pages of any size over any table, walked forwards and backwards while   *)
(* rows come and go: a page is a stretch of the table in the order asked   *)
(* for, a missing cursor means its end, a walk returns no row twice and    *)
(* every row that stays, and prev undoes next (PaginateRecords,            *)
(* CalculateCursor, CalculateSortCursorPagination).                        *)
THEOREM PagingSoundHolds == PagingSpec => []PagingSound
<1>1. PagingInv /\ [PagingNext]_pageVars => PagingInv'
  <2> SUFFICES ASSUME PagingInv, [PagingNext]_pageVars PROVE PagingInv'
    OBVIOUS
  <2>1. CASE UNCHANGED pageVars
    <3>1. UNCHANGED <<rows, family, order, limit, page, nextCursor, prevCursor, snap, walking, walked, stable,
                      repeated, left, retraced>>
      BY <2>1 DEF pageVars
    <3>2. Ord' = Ord
      BY <3>1, OrdStays
    <3>3. PageTypes'
      BY <3>1 DEF PagingInv, PageTypes
    <3>4. PageOK' /\ WalkOK' /\ BackOK'
      BY <3>1, <3>2 DEF PagingInv, PageOK, Shown, WalkOK, BackOK
    <3> QED
      BY <3>1, <3>3, <3>4 DEF PagingInv
  <2> QED
    BY <2>1, FirstPageKeeps, FollowNextKeeps, FollowPrevKeeps, EditsKeep DEF PagingNext
<1>2. PagingInv => PagingSound
  <2> SUFFICES ASSUME PagingInv PROVE PagingSound
    OBVIOUS
  <2>1. PageTypes /\ PageOK /\ WalkOK /\ ~repeated /\ retraced
    BY DEF PagingInv
  <2>2. \A a, b \in Ids : <<a, b>> \in Ord <=> precedes(a, b)
    BY <2>1, RowsAreOrdered DEF PageTypes
  <2>3. walking /\ nextCursor = NoCursor => stable \subseteq walked
    BY <2>1 DEF WalkOK
  <2>4. ASSUME Shown
        PROVE  /\ \A i, j \in 1 .. Len(page) : i < j => precedes(page[i], page[j])
               /\ \A r \in snap : precedes(page[1], r) /\ precedes(r, page[Len(page)]) => r \in Range(page)
               /\ nextCursor = NoCursor => \A r \in snap : ~precedes(page[Len(page)], r)
               /\ prevCursor = NoCursor => \A r \in snap : ~precedes(r, page[1])
               /\ Len(page) <= MaxLimit
    <3>1. page \in Seq(Ids) /\ snap \subseteq Ids /\ limit \in 1 .. MaxLimit /\ MaxLimit \in Nat
      BY <2>1, <2>4, PagingAssumption DEF PageTypes, Shown
    <3>2. Len(page) \in Nat \ {0} /\ \A i \in 1 .. Len(page) : page[i] \in Ids
      BY <2>4, <3>1 DEF Shown
    <3>3. page[1] \in Ids /\ page[Len(page)] \in Ids
      BY <3>2
    <3>4. \A i, j \in 1 .. Len(page) : i < j => precedes(page[i], page[j])
      BY <2>1, <2>2, <2>4, <3>2 DEF PageOK, Sorted
    <3>5. \A r \in snap : precedes(page[1], r) /\ precedes(r, page[Len(page)]) => r \in Range(page)
      BY <2>1, <2>2, <2>4, <3>1, <3>3 DEF PageOK
    <3>6. nextCursor = NoCursor => \A r \in snap : ~precedes(page[Len(page)], r)
      BY <2>1, <2>2, <2>4, <3>1, <3>3 DEF PageOK
    <3>7. prevCursor = NoCursor => \A r \in snap : ~precedes(r, page[1])
      BY <2>1, <2>2, <2>4, <3>1, <3>3 DEF PageOK
    <3>8. Len(page) <= MaxLimit
      BY <2>1, <2>4, <3>1, <3>2 DEF PageOK
    <3> QED
      BY <3>4, <3>5, <3>6, <3>7, <3>8
  <2> QED
    BY <2>1, <2>3, <2>4 DEF PagingSound, Shown
<1> QED
  BY <1>1, <1>2, PagingInitially, PTL DEF PagingSpec

-----------------------------------------------------------------------------
(* Both limits: the limiter of incoming requests keeps its budget, its     *)
(* Retry-After and its log, and the pacer of outgoing calls the spacing of *)
(* its permits (check, evaluate).                                          *)
THEOREM LimitsAlwaysHold == RateLimitSpec /\ PacingSpec => []LimitsHold
<1>1. RateLimitSound /\ PermitsAreSpaced => LimitsHold
  BY DEF LimitsHold
<1> QED
  BY <1>1, RateLimitSoundHolds, PermitsAreSpacedHolds, PTL

(* The clients behind a request: the Redis client refreshes what it        *)
(* published and leaks nothing, the database clients lose no pool and      *)
(* report reads as they were, and a migration that succeeded was applied   *)
(* (connectLocked, Connect, RunReadOnly, EnsureIndexes, Up).               *)
THEOREM ClientsAlwaysSound == RedisSpec /\ DatabaseSpec /\ MigrationsSpec => []ClientsSound
<1>1. RedisClientSound /\ DatabaseSound /\ MigrationsSound => ClientsSound
  BY DEF ClientsSound
<1> QED
  BY <1>1, RedisClientSoundHolds, DatabaseSoundHolds, MigrationsSoundHolds, PTL
=============================================================================
