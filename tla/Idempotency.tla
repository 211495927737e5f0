---------------------------- MODULE Idempotency ----------------------------
(***************************************************************************)
(* The idempotency middleware: requests under one tenant-scoped key, the   *)
(* record the store holds under it, and what each request is answered.     *)
(* Handlers run concurrently and for as long as they like; each store call *)
(* is atomic at the store but may fail before it is applied, after (a      *)
(* timeout of a call that went through) or while it is on its way, to be   *)
(* applied later, and the Redis client sends twice what was not answered;  *)
(* a process may crash between any two steps; the in-flight lease may      *)
(* lapse.  The span explored is one retention window: completed and fenced *)
(* records do not expire.                                                  *)
(***************************************************************************)
EXTENDS Naturals, FiniteSets

CONSTANTS
    Requests,     \* requests that carry the key
    Fingerprint,  \* request -> fingerprint of its method, path and body
    Nobody,       \* no owner, no response
    Modes,        \* how the middleware may be configured: records of FailClosed,
                  \* FenceOnError and LeaseHolds, below
    FirstRecords, \* kinds of record another version may have left
    MaxLate       \* bound: writes on their way at a time

Fingerprints == {Fingerprint[r] : r \in Requests}

Kinds == {"absent", "processing", "complete", "unrecorded", "notReplayable",
          "legacyProcessing", "legacyComplete", "unrecognised", "unreadable"}

ASSUME IdempotencyAssumption ==
    /\ Nobody \notin Requests
    /\ DOMAIN Fingerprint = Requests
    /\ Modes \subseteq [failClosed : BOOLEAN, fenceOnError : BOOLEAN, leaseHolds : BOOLEAN]
    /\ FirstRecords \subseteq Kinds \ {"processing", "complete", "unrecorded", "notReplayable"}
    /\ MaxLate \in Nat

VARIABLES
    mode,       \* the configuration, fixed by New
    rec,        \* the stored record: kind, fingerprint, owner, whose response
    late,       \* writes on their way to the store for which nobody waits
    pc,         \* where each request is
    answer,     \* what it was answered
    source,     \* history: whose response a replay handed out
    found,      \* history: fingerprint of the existing record it was routed on
    committed   \* history: requests whose handler had its effect

vars == <<mode, rec, late, pc, answer, source, found, committed>>

FailClosed == mode.failClosed      \* WithFailClosed, or a caller-provided store
FenceOnError == mode.fenceOnError  \* ServerErrorPolicyFence rather than Release
LeaseHolds == mode.leaseHolds      \* the lease outlives a live handler (long TTL
                                   \* or heartbeat)

PCs == {"new", "running", "unprotected", "captured", "oversize", "failed",
        "fence", "release", "reject", "done"}

Answers == {"none", "success", "rejected", "error", "fenced", "unfenced", "lost", "replay",
            "conflict", "reuse", "outcomeUnknown", "replayUnavailable", "legacyDone",
            "stateRefused", "unavailable", "appFenced", "fenceHeld"}

Records ==
    [kind : Kinds, fp : Fingerprints \cup {Nobody},
     owner : Requests \cup {Nobody}, resp : Requests \cup {Nobody}]

Absent == [kind |-> "absent", fp |-> Nobody, owner |-> Nobody, resp |-> Nobody]

TypeOK ==
    /\ mode \in Modes
    /\ rec \in Records
    /\ late \in SUBSET [by : Requests, over : Records, to : Records]
    /\ pc \in [Requests -> PCs]
    /\ answer \in [Requests -> Answers]
    /\ source \in [Requests -> Requests \cup {Nobody}]
    /\ found \in [Requests -> Fingerprints \cup {Nobody}]
    /\ committed \subseteq Requests

Init ==
    /\ mode \in Modes
    /\ \/ rec = Absent
       \/ \E k \in FirstRecords \ {"absent"}, f \in Fingerprints :
            rec = [kind |-> k, fp |-> f, owner |-> Nobody, resp |-> Nobody]
    /\ late = {}
    /\ pc = [r \in Requests |-> "new"]
    /\ answer = [r \in Requests |-> "none"]
    /\ source = [r \in Requests |-> Nobody]
    /\ found = [r \in Requests |-> Nobody]
    /\ committed = {}

-----------------------------------------------------------------------------
(* The store.  Acquire is SET NX; Complete, Release and Extend compare the *)
(* stored bytes with the processing record of the request, which holds the *)
(* owner drawn for it: equal bytes means its own processing record.        *)

Processing(r) == [kind |-> "processing", fp |-> Fingerprint[r], owner |-> r, resp |-> Nobody]

(* Mutant: the stored bytes are not compared, only present.                *)
HoldsAnything(r) == rec # Absent

Holds(r) == rec = Processing(r)

Completed(r, kind) ==
    [kind |-> kind, fp |-> Fingerprint[r], owner |-> r,
     resp |-> IF kind = "complete" THEN r ELSE Nobody]

(* A write of r that stores a record over the one it expects gets no       *)
(* answer: it was applied, it is on its way, or it never arrives.          *)
Unanswered(r, over, to) ==
    \/ rec = over /\ rec' = to /\ UNCHANGED late
    \/ Cardinality(late) < MaxLate /\ UNCHANGED rec
       /\ late' = late \cup {[by |-> r, over |-> over, to |-> to]}
    \/ UNCHANGED <<rec, late>>

(* It arrives, and is applied if the record is still the one it expects.   *)
Arrives(w) ==
    /\ w \in late /\ late' = late \ {w}
    /\ rec' = IF rec = w.over THEN w.to ELSE rec
    /\ UNCHANGED <<pc, answer, source, found, committed>>

Goto(r, to) == pc' = [pc EXCEPT ![r] = to]
Reply(r, a) == Goto(r, "done") /\ answer' = [answer EXCEPT ![r] = a]

-----------------------------------------------------------------------------
(* handle refuses before the store: a failed key, fingerprint or TTL       *)
(* provider, a misconfigured heartbeat, a missing required tenant.         *)
Refuse(r) ==
    /\ pc[r] = "new"
    /\ Reply(r, "unavailable")
    /\ UNCHANGED <<rec, late, source, found, committed>>

Acquire(r) ==
    /\ pc[r] = "new" /\ rec = Absent
    /\ rec' = Processing(r)
    /\ Goto(r, "running")
    /\ UNCHANGED <<late, answer, source, found, committed>>

(* The acquisition goes through unheard and the client sends it again: it  *)
(* finds the request's own record, and routes it like anybody's.           *)
AcquireRepeated(r) ==
    /\ pc[r] = "new" /\ rec = Absent
    /\ rec' = Processing(r)
    /\ Reply(r, "conflict")
    /\ found' = [found EXCEPT ![r] = Fingerprint[r]]
    /\ UNCHANGED <<late, source, committed>>

(* Store.Acquire fails, applied or not.  onStoreError: fail open runs the  *)
(* handler without holding the key.                                        *)
AcquireFails(r) ==
    /\ pc[r] = "new"
    /\ Unanswered(r, Absent, Processing(r))
    /\ IF FailClosed THEN Reply(r, "unavailable")
                     ELSE Goto(r, "unprotected") /\ UNCHANGED answer
    /\ UNCHANGED <<source, found, committed>>

(* Mutant: the state is routed before the fingerprint is compared.         *)
RouteFingerprintLast(r) ==
    CASE rec.kind = "unreadable" -> "stateRefused"
      [] rec.kind \in {"processing", "legacyProcessing"} -> "conflict"
      [] rec.kind = "complete" -> "replay"
      [] rec.kind = "legacyComplete" -> "legacyDone"
      [] rec.fp # Fingerprint[r] -> "reuse"
      [] rec.kind = "unrecorded" -> "outcomeUnknown"
      [] rec.kind = "notReplayable" -> "replayUnavailable"
      [] OTHER -> "stateRefused"

(* handleStore's routing of an existing record: unreadable bytes, then the *)
(* fingerprint, then the outcome mark, then the state.                     *)
Route(r) ==
    CASE rec.kind = "unreadable"                         -> "stateRefused"
      [] rec.kind # "unreadable" /\ rec.fp # Fingerprint[r] -> "reuse"
      [] rec.kind # "unreadable" /\ rec.fp = Fingerprint[r] ->
           CASE rec.kind = "unrecorded"                       -> "outcomeUnknown"
             [] rec.kind = "notReplayable"                    -> "replayUnavailable"
             [] rec.kind \in {"processing", "legacyProcessing"} -> "conflict"
             [] rec.kind = "complete"                         -> "replay"
             [] rec.kind = "legacyComplete"                   -> "legacyDone"
             [] OTHER                                         -> "stateRefused"

FindRecord(r) ==
    /\ pc[r] = "new" /\ rec # Absent
    /\ Reply(r, Route(r))
    /\ source' = [source EXCEPT ![r] = IF Route(r) = "replay" THEN rec.resp ELSE Nobody]
    /\ found' = [found EXCEPT ![r] = rec.fp]
    /\ UNCHANGED <<rec, late, committed>>

(* The stored response cannot be decoded: 503, nothing is written.         *)
ReplayFails(r) ==
    /\ pc[r] = "new" /\ rec # Absent /\ Route(r) = "replay"
    /\ Reply(r, "unavailable")
    /\ UNCHANGED <<rec, late, source, found, committed>>

-----------------------------------------------------------------------------
(* The handler has its effect at some moment of its run, or never.         *)
Commit(r) ==
    /\ pc[r] \in {"running", "unprotected"} /\ r \notin committed
    /\ committed' = committed \cup {r}
    /\ UNCHANGED <<rec, late, pc, answer, source, found>>

(* A handler without the key: its own response goes out, nothing is kept.  *)
UnprotectedReturns(r) ==
    /\ pc[r] = "unprotected"
    /\ \E a \in {"success", "error"} : Reply(r, a)
    /\ UNCHANGED <<rec, late, source, found, committed>>

(* The handler failed or answered 5xx.                                     *)
HandlerFails(r) ==
    /\ pc[r] = "running"
    /\ Goto(r, IF FenceOnError THEN "failed" ELSE "release")
    /\ UNCHANGED <<rec, late, answer, source, found, committed>>

(* The handler answered; the response is captured, found too large, or     *)
(* cannot be captured or encoded.                                          *)
HandlerReturns(r) ==
    /\ pc[r] = "running"
    /\ \E to \in {"captured", "oversize", "fence"} : Goto(r, to)
    /\ UNCHANGED <<rec, late, answer, source, found, committed>>

(* A written 4xx under ClientErrorPolicyRelease.  The middleware does not  *)
(* know whether the handler had its effect all the same.                   *)
HandlerRejects(r) ==
    /\ pc[r] = "running"
    /\ Goto(r, "reject")
    /\ UNCHANGED <<rec, late, answer, source, found, committed>>

CompletedKind(r) == IF pc[r] = "oversize" THEN "notReplayable" ELSE "complete"

Complete(r) ==
    /\ pc[r] \in {"captured", "oversize"} /\ Holds(r)
    /\ rec' = Completed(r, CompletedKind(r))
    /\ Reply(r, "success")
    /\ UNCHANGED <<late, source, found, committed>>

(* Store.Complete errs (applied or not) or finds another owner's record:   *)
(* failPostHandler fences.                                                 *)
CompleteFails(r) ==
    /\ pc[r] \in {"captured", "oversize"}
    /\ Unanswered(r, Processing(r), Completed(r, CompletedKind(r)))
    /\ Goto(r, "fence")
    /\ UNCHANGED <<answer, source, found, committed>>

(* markOutcomeUnknown: the fence landed, and the caller is told so: by the *)
(* post-handler 503 or, when the handler failed, by the header.            *)
Fence(r) ==
    /\ pc[r] \in {"fence", "failed"} /\ Holds(r)
    /\ rec' = Completed(r, "unrecorded")
    /\ Reply(r, "fenced")
    /\ UNCHANGED <<late, source, found, committed>>

(* The fence write errs (applied or not) or finds a stale owner.           *)
FenceFails(r) ==
    /\ pc[r] \in {"fence", "failed"}
    /\ Unanswered(r, Processing(r), Completed(r, "unrecorded"))
    /\ Reply(r, "unfenced")
    /\ UNCHANGED <<source, found, committed>>

(* releaseOwned: whatever Release says, the handler's answer goes out.     *)
Release(r) ==
    /\ pc[r] \in {"release", "reject"}
    /\ Unanswered(r, Processing(r), Absent)
    /\ Reply(r, IF pc[r] = "reject" THEN "rejected" ELSE "error")
    /\ UNCHANGED <<source, found, committed>>

-----------------------------------------------------------------------------
(* FenceOutcomeUnknown, called by the application instead of the handler.  *)
FenceOutcomeUnknown(r) ==
    /\ pc[r] = "new"
    /\ IF rec = Absent
         THEN rec' = Completed(r, "unrecorded") /\ Reply(r, "appFenced")
         ELSE /\ UNCHANGED rec
              /\ Reply(r, IF rec.kind = "unrecorded" /\ rec.fp = Fingerprint[r]
                            THEN "appFenced" ELSE "fenceHeld")
    /\ UNCHANGED <<late, source, found, committed>>

(* Its call of the store fails, applied or not, and it returns the error.  *)
FenceOutcomeFails(r) ==
    /\ pc[r] = "new"
    /\ Unanswered(r, Absent, Completed(r, "unrecorded"))
    /\ Reply(r, "unavailable")
    /\ UNCHANGED <<source, found, committed>>

(* The process serving the request dies.                                   *)
Crash(r) ==
    /\ pc[r] \notin {"new", "done"}
    /\ Reply(r, "lost")
    /\ UNCHANGED <<rec, late, source, found, committed>>

(* The in-flight lease runs out, or another version's record expires.      *)
Lapse ==
    /\ \/ rec.kind = "processing" /\ (LeaseHolds => pc[rec.owner] = "done")
       \/ rec.kind \in FirstRecords \ {"absent"}
    /\ rec' = Absent
    /\ UNCHANGED <<late, pc, answer, source, found, committed>>

Step(r) ==
    \/ Refuse(r) \/ Acquire(r) \/ AcquireRepeated(r) \/ AcquireFails(r) \/ FindRecord(r) \/ ReplayFails(r)
    \/ Commit(r) \/ UnprotectedReturns(r)
    \/ HandlerFails(r) \/ HandlerReturns(r) \/ HandlerRejects(r)
    \/ Complete(r) \/ CompleteFails(r) \/ Fence(r) \/ FenceFails(r) \/ Release(r)
    \/ FenceOutcomeUnknown(r) \/ FenceOutcomeFails(r) \/ Crash(r)

Next ==
    /\ UNCHANGED mode
    /\ Lapse \/ (\E w \in late : Arrives(w)) \/ \E r \in Requests : Step(r)

Spec == Init /\ [][Next]_vars

-----------------------------------------------------------------------------
AtMostOne(S) == \A q, r \in S : q = r

Assured == {r \in Requests : answer[r] \in {"success", "fenced"}}

(* Two requests under the key are never both told that all is well: one at *)
(* most has its own response delivered as completed, or a fence reported   *)
(* as holding.  Every other request whose handler ran is told the key is   *)
(* unfenced, or sees the handler's failure, even when its lease lapsed and *)
(* another request ran meanwhile.  (Fail-open runs never held the key.)    *)
AtMostOneAssured == FailClosed => AtMostOne(Assured)

(* When the lease outlives the handler and failures are fenced, a handler  *)
(* has its effect a second time only after the request before was told the *)
(* key is unfenced, was lost in a crash, or was answered the handler's own *)
(* 4xx, which the route's policy lets run again: no other resend doubles an*)
(* effect behind everybody's back.                                         *)
AtMostOneUnannounced ==
    FailClosed /\ FenceOnError /\ LeaseHolds =>
      AtMostOne({r \in committed : answer[r] \notin {"unfenced", "lost", "rejected"}})

(* "Fenced" is true: whoever was told that the key is fenced, by the 503,  *)
(* the header or FenceOutcomeUnknown, has the fence under the key.         *)
FenceReportIsTrue ==
    \A r \in Requests :
      answer[r] \in {"fenced", "appFenced"}
        => rec.kind = "unrecorded" /\ (answer[r] = "fenced" => rec.owner = r)
           /\ rec.fp = Fingerprint[r]

(* What a client may build on an answer: of the requests under a key one   *)
(* at most is assured, an effect is doubled only when somebody was told so,*)
(* and a fence that was reported holds.                                    *)
AtMostOnce == AtMostOneAssured /\ AtMostOneUnannounced /\ FenceReportIsTrue

(* An answer given from an existing record is about the same request: its  *)
(* fingerprint is the caller's, and a replayed response was produced by a  *)
(* request with that fingerprint whose handler had returned.               *)
AnsweredFromOwnRecord ==
    \A r \in Requests :
      /\ answer[r] \in {"replay", "legacyDone", "conflict", "outcomeUnknown", "replayUnavailable"}
           => found[r] = Fingerprint[r]
      /\ answer[r] = "replay"
           => /\ source[r] \in Requests /\ Fingerprint[source[r]] = Fingerprint[r]
              /\ answer[source[r]] \in {"success", "unfenced", "lost"} \/ pc[source[r]] = "fence"
-----------------------------------------------------------------------------
(* The processing heartbeat of one request, which shares no state with the *)
(* above: a ticker whose beats extend the in-flight lease while the handler*)
(* runs, against a discrete clock.  The goroutine is never scheduled late  *)
(* here; what varies is when each beat fails or lands.                     *)

CONSTANTS
    Lease,         \* lease acquired and renewed, at least MinHeartbeatLease
    Interval,      \* WithProcessingHeartbeat
    MinTick,       \* heartbeatMinTick
    RedisTimeout,  \* a beat has landed or failed within this time
    MaxTime        \* bound: last clock reading explored

VARIABLES
    clock,
    expires,   \* when the record expires unless extended
    nextTick,  \* when the ticker fires next
    tickReady, \* a tick waits in the ticker's channel (capacity one)
    beatSince, \* when the beat under way began, or NoBeat
    handler,   \* "running" or "returned"
    missed     \* history: failed beats since the last renewal

beatVars == <<clock, expires, nextTick, tickReady, beatSince, handler, missed>>

NoBeat == MaxTime + 1

Least(a, b) == IF a < b THEN a ELSE b
Greatest(a, b) == IF a > b THEN a ELSE b

(* Mutant: two thirds of the lease between beats.                          *)
HeartbeatTickSlow == Greatest(Least(Interval, (2 * Lease) \div 3), MinTick)

(* heartbeatTick.                                                          *)
HeartbeatTick == Greatest(Least(Interval, Lease \div 3), MinTick)

(* Durations are positive; a lease shorter than three of the shortest      *)
(* ticks is refused (MinHeartbeatLease).                                   *)
ASSUME HeartbeatAssumption ==
    /\ {Lease, Interval, MinTick, RedisTimeout, MaxTime} \subseteq Nat \ {0}
    /\ Lease >= 3 * MinTick

Alive == clock <= expires

HeartbeatInit ==
    /\ clock = 0 /\ expires = Lease
    /\ nextTick = HeartbeatTick /\ tickReady = FALSE /\ beatSince = NoBeat
    /\ handler = "running" /\ missed = 0

(* The select loop takes a waiting tick and calls Extend.                  *)
BeginBeat ==
    /\ handler = "running" /\ tickReady /\ beatSince = NoBeat
    /\ beatSince' = clock /\ tickReady' = FALSE
    /\ UNCHANGED <<clock, expires, nextTick, handler, missed>>

(* Extend was applied at some moment since the beat began.                 *)
Extended == \E at \in beatSince .. clock : expires' = at + Lease

(* It is answered: the record was still this request's.                    *)
BeatLands ==
    /\ beatSince # NoBeat /\ Alive
    /\ Extended /\ missed' = 0
    /\ beatSince' = NoBeat
    /\ UNCHANGED <<clock, nextTick, tickReady, handler>>

(* The record is no longer this request's: the heartbeat ends.             *)
BeatRefused ==
    /\ beatSince # NoBeat /\ ~Alive
    /\ beatSince' = NoBeat /\ tickReady' = FALSE /\ nextTick' = NoBeat
    /\ UNCHANGED <<clock, expires, handler, missed>>

(* The store errs or the beat's deadline passes, applied or not; the next  *)
(* tick tries again.                                                       *)
BeatFails ==
    /\ beatSince # NoBeat /\ handler = "running"
    /\ beatSince' = NoBeat /\ missed' = missed + 1
    /\ expires' = expires \/ (Alive /\ Extended)
    /\ UNCHANGED <<clock, nextTick, tickReady, handler>>

(* The handler returns: the deferred stop cancels the beat and waits.      *)
HandlerEnds ==
    /\ handler = "running"
    /\ handler' = "returned" /\ beatSince' = NoBeat
    /\ UNCHANGED <<clock, expires, nextTick, tickReady, missed>>

(* Time passes; the ticker fires on the way, and a tick nobody has taken   *)
(* absorbs the next one.                                                   *)
Tick ==
    /\ handler = "running" /\ Alive /\ clock < MaxTime
    /\ tickReady => beatSince # NoBeat
    /\ beatSince # NoBeat => clock < beatSince + RedisTimeout
    /\ clock' = clock + 1
    /\ IF clock' = nextTick THEN tickReady' = TRUE /\ nextTick' = nextTick + HeartbeatTick
                            ELSE UNCHANGED <<tickReady, nextTick>>
    /\ UNCHANGED <<expires, beatSince, handler, missed>>

HeartbeatNext == BeginBeat \/ BeatLands \/ BeatRefused \/ BeatFails \/ HandlerEnds \/ Tick

HeartbeatSpec == HeartbeatInit /\ [][HeartbeatNext]_beatVars

-----------------------------------------------------------------------------
(* The record lapses under a running handler only after two beats in a row *)
(* failed, when a beat is given at most a third of the lease; only after   *)
(* one did, when it is given at most half.  The code does not compare the  *)
(* two: a lease shorter than twice the timeout is lost to a beat that hangs*)
(* and has not even failed.                                                *)
OneFailedBeatIsSurvived ==
    handler = "running" /\ ~Alive =>
      /\ RedisTimeout <= Lease \div 3 => missed >= 2
      /\ 2 * RedisTimeout <= Lease => missed >= 1
=============================================================================
