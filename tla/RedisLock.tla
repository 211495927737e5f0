----------------------------- MODULE RedisLock -----------------------------
(***************************************************************************)
(* The distributed lock over one Redis node: RedisLockManager's retry loop *)
(* and classification of failures, the handle's Extend and Unlock, and the *)
(* redsync mutex below them.  A call is asked at one time, applied by the  *)
(* server at another and answered at a third, or never; go-redis asks again*)
(* what was not answered, and a command nobody waits for any more may still*)
(* be applied, long after its caller was told that it failed.  Leases end  *)
(* on the server's clock while their holder is still at work.              *)
(***************************************************************************)
EXTENDS Naturals

CONSTANTS
    Procs,      \* callers of TryLock or WithLock, one lock each
    Nobody,
    Tries,
    Expiry,     \* lease length
    Drift,      \* DriftFactor * Expiry
    MaxTime,    \* bound: last clock reading explored
    MaxLost     \* bound: answers lost

ASSUME LockAssumption ==
    /\ Nobody \notin Procs
    /\ Tries \in Nat \ {0} /\ Expiry \in Nat \ {0} /\ Drift \in Nat /\ MaxTime \in Nat
    /\ MaxLost \in Nat
    /\ Drift < Expiry

VARIABLES
    clock,
    key,        \* who wrote the stored value, in which attempt, until when
    pc,         \* where each caller is
    try,        \* attempts begun
    start,      \* when the call under way was sent
    stage,      \* what the server did with it: "sent", "done" or "refused"
    until,      \* redsync's validity deadline of the lock held
    lastErr,    \* the last attempt's error
    ctxDone,    \* the caller's context has ended
    doneFirst,  \* callerDoneAtStart
    lease,      \* who is inside leaseMu: "free", "extend" or "unlock"
    result,     \* what the last Extend or Unlock reported
    late,       \* commands on their way to the server for which nobody waits
    lost,       \* answers lost
    unheard     \* history: callers an answer of whose Unlock was lost

vars == <<clock, key, pc, try, start, stage, until, lastErr, ctxDone, doneFirst,
          lease, result, late, lost, unheard>>

Free == [by |-> Nobody, try |-> 0, exp |-> 0]
Mine(p) == key.by = p /\ key.try = try[p]
Held == key.by # Nobody /\ clock < key.exp

Commands == [op : {"set", "touch", "del"}, by : Procs, try : Nat]

PCs == {"idle", "asking", "waiting", "holding", "released", "contended", "callerDone", "faulted"}

TypeOK ==
    /\ clock \in Nat
    /\ key \in [by : Procs \cup {Nobody}, try : Nat, exp : Nat]
    /\ pc \in [Procs -> PCs]
    /\ try \in [Procs -> Nat] /\ start \in [Procs -> Nat] /\ until \in [Procs -> Nat]
    /\ stage \in [Procs -> {"sent", "done", "refused"}]
    /\ lastErr \in [Procs -> {"none", "taken", "failed", "fault"}]
    /\ ctxDone \in [Procs -> BOOLEAN] /\ doneFirst \in [Procs -> BOOLEAN]
    /\ lease \in [Procs -> {"free", "extend", "unlock"}]
    /\ result \in [Procs -> {"none", "renewed", "lost", "error", "released", "notHeld"}]
    /\ late \in SUBSET Commands /\ lost \in Nat /\ unheard \in SUBSET Procs

Init ==
    /\ clock = 0 /\ key = Free
    /\ pc = [p \in Procs |-> "idle"]
    /\ try = [p \in Procs |-> 0] /\ start = [p \in Procs |-> 0] /\ until = [p \in Procs |-> 0]
    /\ stage = [p \in Procs |-> "sent"]
    /\ lastErr = [p \in Procs |-> "none"]
    /\ ctxDone \in [Procs -> BOOLEAN] /\ doneFirst = ctxDone
    /\ lease = [p \in Procs |-> "free"] /\ result = [p \in Procs |-> "none"]
    /\ late = {} /\ lost = 0 /\ unheard = {}

Goto(p, to) == pc' = [pc EXCEPT ![p] = to]

Tick ==
    /\ clock < MaxTime
    /\ clock' = clock + 1
    /\ UNCHANGED <<key, pc, try, start, stage, until, lastErr, ctxDone, doneFirst,
                   lease, result, late, lost, unheard>>

CallerGivesUp(p) ==
    /\ ~ctxDone[p] /\ pc[p] \in {"idle", "asking", "waiting"}
    /\ ctxDone' = [ctxDone EXCEPT ![p] = TRUE]
    /\ doneFirst' = IF pc[p] = "idle" THEN [doneFirst EXCEPT ![p] = TRUE] ELSE doneFirst
    /\ UNCHANGED <<clock, key, pc, try, start, stage, until, lastErr, lease, result,
                   late, lost, unheard>>

-----------------------------------------------------------------------------
(* Nothing of a call is kept once it has returned.                         *)
CallOver(p) == start' = [start EXCEPT ![p] = 0] /\ stage' = [stage EXCEPT ![p] = "sent"]

(* The server.  SET NX PX with the attempt's value, and the scripts that   *)
(* touch or delete the key only under that value.                          *)
Accepted(c) ==
    IF c.op = "set" THEN ~Held ELSE Held /\ key.by = c.by /\ key.try = c.try

Executed(c) ==
    CASE c.op = "set" -> IF Held THEN key ELSE [by |-> c.by, try |-> c.try, exp |-> clock + Expiry]
      [] c.op = "touch" -> IF Accepted(c) THEN [key EXCEPT !.exp = clock + Expiry] ELSE key
      [] c.op = "del" -> IF key.by = c.by /\ key.try = c.try THEN Free ELSE key

Command(op, p) == [op |-> op, by |-> p, try |-> try[p]]

(* The command p waits for: an attempt of a caller whose context had ended *)
(* before it is not sent.                                                  *)
Waits(op, p) ==
    \/ op = "set" /\ pc[p] = "asking" /\ ~doneFirst[p]
    \/ op = "touch" /\ lease[p] = "extend"
    \/ op = "del" /\ lease[p] = "unlock"

Serve(op, p) ==
    /\ Waits(op, p) /\ stage[p] = "sent"
    /\ stage' = [stage EXCEPT ![p] = IF Accepted(Command(op, p)) THEN "done" ELSE "refused"]
    /\ key' = Executed(Command(op, p))
    /\ UNCHANGED <<clock, pc, try, start, until, lastErr, ctxDone, doneFirst, lease, result,
                   late, lost, unheard>>

(* A command its caller has given up on, or sent again, arrives.           *)
ServeLate(c) ==
    /\ c \in late
    /\ key' = Executed(c) /\ late' = late \ {c}
    /\ UNCHANGED <<clock, pc, try, start, stage, until, lastErr, ctxDone, doneFirst, lease,
                   result, lost, unheard>>

(* What stays on its way when p stops waiting for an answer to op.         *)
LeftBehind(op, p) == late \cup {c \in {Command(op, p)} : Waits(op, p) /\ stage[p] = "sent"}

(* The client sends a command again that was not answered (MaxRetries).    *)
Resend(op, p) ==
    /\ Waits(op, p) /\ lost < MaxLost
    /\ lost' = lost + 1
    /\ late' = LeftBehind(op, p)
    /\ stage' = [stage EXCEPT ![p] = "sent"]
    /\ unheard' = IF op = "del" THEN unheard \cup {p} ELSE unheard
    /\ UNCHANGED <<clock, key, pc, try, start, until, lastErr, ctxDone, doneFirst, lease, result>>

-----------------------------------------------------------------------------
(* Mutant: the caller's context is looked at before what Redis answered.   *)
ClassifyContextFirst(p, err) ==
    IF ctxDone[p] THEN "callerDone" ELSE IF err \in {"taken", "failed"} THEN "contended" ELSE "faulted"

(* classifyLockFailure and isLockContention.                               *)
ClassifyLockFailure(p, err) ==
    CASE err \in {"taken", "failed"} -> "contended"
      [] err \notin {"taken", "failed"} /\ doneFirst[p] -> "callerDone"
      [] OTHER -> "faulted"

(* acquireLock: one single-attempt TryLockContext per try.                 *)
BeginTry(p) ==
    /\ pc[p] \in {"idle", "waiting"}     \* a select with both ready may pick the timer
    /\ Goto(p, "asking")
    /\ try' = [try EXCEPT ![p] = @ + 1]
    /\ start' = [start EXCEPT ![p] = clock]
    /\ stage' = [stage EXCEPT ![p] = "sent"]
    /\ UNCHANGED <<clock, key, until, lastErr, ctxDone, doneFirst, lease, result,
                   late, lost, unheard>>

(* Mutant: the validity is counted from the answer, not from the question. *)
DeadlineFromAnswer(p) == clock + Expiry - Drift

(* redsync's validity deadline: the lease counted from the question, so    *)
(* that it never outlives the server's, less the drift allowance.          *)
Deadline(p) == start[p] + Expiry - Drift

LockTaken(p) ==
    /\ pc[p] = "asking" /\ stage[p] = "done" /\ clock < Deadline(p)
    /\ Goto(p, "holding")
    /\ until' = [until EXCEPT ![p] = Deadline(p)] /\ CallOver(p)
    /\ lastErr' = [lastErr EXCEPT ![p] = "none"]
    /\ UNCHANGED <<clock, key, try, ctxDone, doneFirst, lease, result,
                   late, lost, unheard>>

(* Answers the attempt did not get; with its context ended it asked none.  *)
Missed(p, err) == IF err = "fault" /\ ~doneFirst[p] THEN 1 ELSE 0

(* The attempt fails: the key is taken (by the attempt itself, when it was *)
(* sent twice), the answer took the whole validity window, or no answer    *)
(* came.  redsync then deletes what the attempt may have written, at once  *)
(* or late.  The loop gives up after Tries.                                *)
TryFails(p, err) ==
    /\ pc[p] = "asking"
    /\ err = "taken"  => stage[p] = "refused"
    /\ err = "failed" => stage[p] = "done" /\ clock >= Deadline(p)
    /\ \/ key' = Executed(Command("del", p)) /\ late' = LeftBehind("set", p)
          /\ lost' = lost + Missed(p, err)
       \/ key' = key /\ late' = LeftBehind("set", p) \cup {Command("del", p)}
          /\ lost' = lost + Missed(p, err) + 1
    /\ lost' <= MaxLost
    /\ lastErr' = [lastErr EXCEPT ![p] = err]
    /\ Goto(p, IF try[p] >= Tries THEN ClassifyLockFailure(p, err) ELSE "waiting")
    /\ CallOver(p)
    /\ UNCHANGED <<clock, try, until, ctxDone, doneFirst, lease, result, unheard>>

(* The caller's context ends while the loop waits out RetryDelay.          *)
WaitAbandoned(p) ==
    /\ pc[p] = "waiting" /\ ctxDone[p]
    /\ Goto(p, ClassifyLockFailure(p, lastErr[p]))
    /\ UNCHANGED <<clock, key, try, start, stage, until, lastErr, ctxDone, doneFirst,
                   lease, result, late, lost, unheard>>

-----------------------------------------------------------------------------
(* Extend and Unlock on the handle: leaseMu is held across each call, but  *)
(* not for a command that is still on its way when the call has returned.  *)
(* An Extend that waited behind an Unlock runs after the release.          *)
BeginExtend(p) ==
    /\ pc[p] \in {"holding", "released"} /\ lease[p] = "free"
    /\ lease' = [lease EXCEPT ![p] = "extend"] /\ result' = [result EXCEPT ![p] = "none"]
    /\ start' = [start EXCEPT ![p] = clock]
    /\ stage' = [stage EXCEPT ![p] = "sent"]
    /\ UNCHANGED <<clock, key, pc, try, until, lastErr, ctxDone, doneFirst,
                   late, lost, unheard>>

ExtendReturns(p) ==
    /\ lease[p] = "extend"
    /\ \/ /\ stage[p] = "done" /\ clock < Deadline(p)
          /\ result' = [result EXCEPT ![p] = "renewed"]
          /\ until' = [until EXCEPT ![p] = Deadline(p)]
          /\ UNCHANGED <<late, lost>>
       \/ /\ stage[p] = "done" /\ clock >= Deadline(p)    \* ErrExtendFailed
          /\ result' = [result EXCEPT ![p] = "error"]
          /\ UNCHANGED <<until, late, lost>>
       \/ /\ stage[p] = "refused"
          /\ result' = [result EXCEPT ![p] = "lost"]
          /\ UNCHANGED <<until, late, lost>>
       \/ /\ lost < MaxLost /\ lost' = lost + 1            \* no answer
          /\ result' = [result EXCEPT ![p] = "error"]
          /\ late' = LeftBehind("touch", p)
          /\ UNCHANGED until
    /\ lease' = [lease EXCEPT ![p] = "free"] /\ CallOver(p)
    /\ UNCHANGED <<clock, key, pc, try, lastErr, ctxDone, doneFirst, unheard>>

(* Unlock on the handle, or the deferred unlock of WithLock: the function  *)
(* returned or panicked, however long after the lease ended.               *)
BeginUnlock(p) ==
    /\ pc[p] = "holding" /\ lease[p] = "free"
    /\ lease' = [lease EXCEPT ![p] = "unlock"] /\ result' = [result EXCEPT ![p] = "none"]
    /\ stage' = [stage EXCEPT ![p] = "sent"]
    /\ UNCHANGED <<clock, key, pc, try, start, until, lastErr, ctxDone, doneFirst,
                   late, lost, unheard>>

(* Mutant: Unlock does not take leaseMu, and lands amid an Extend.         *)
UnlockUnserialised(p) ==
    /\ pc[p] = "holding"
    /\ key' = Executed(Command("del", p))
    /\ result' = [result EXCEPT ![p] = "released"]
    /\ Goto(p, "released")
    /\ UNCHANGED <<clock, try, start, stage, until, lastErr, ctxDone, doneFirst, lease,
                   late, lost, unheard>>

UnlockReturns(p) ==
    /\ lease[p] = "unlock"
    /\ \/ /\ stage[p] # "sent"
          /\ result' = [result EXCEPT ![p] = IF stage[p] = "done" THEN "released" ELSE "notHeld"]
          /\ UNCHANGED <<late, lost, unheard>>
       \/ /\ lost < MaxLost /\ lost' = lost + 1
          /\ result' = [result EXCEPT ![p] = "error"]
          /\ late' = LeftBehind("del", p)
          /\ unheard' = unheard \cup {p}
    /\ Goto(p, "released")
    /\ lease' = [lease EXCEPT ![p] = "free"] /\ CallOver(p)
    /\ UNCHANGED <<clock, key, try, until, lastErr, ctxDone, doneFirst>>

Step(p) ==
    \/ CallerGivesUp(p) \/ BeginTry(p) \/ LockTaken(p)
    \/ \E op \in {"set", "touch", "del"} : Serve(op, p) \/ Resend(op, p)
    \/ \E err \in {"taken", "failed", "fault"} : TryFails(p, err)
    \/ WaitAbandoned(p)
    \/ BeginExtend(p) \/ ExtendReturns(p) \/ BeginUnlock(p) \/ UnlockReturns(p)

Next ==
    \/ Tick
    \/ \E c \in late : ServeLate(c)
    \/ \E p \in Procs : Step(p)

Spec == Init /\ [][Next]_vars

-----------------------------------------------------------------------------
(* p holds the lock, relies on it, and is not giving it back.              *)
Valid(p) == pc[p] = "holding" /\ lease[p] # "unlock" /\ clock < until[p]

(* No two callers hold a lease they may still rely on, although attempts,  *)
(* renewals and deletes are applied late or twice, answered late, repeated *)
(* after a lost answer, and sent by callers whose lease is long gone.      *)
MutualExclusion == \A p, q \in Procs : Valid(p) /\ Valid(q) => p = q

(* A lease its holder may rely on is backed by the server: the stored      *)
(* value is the holder's and outlives the validity deadline.               *)
LeaseBacked ==
    \A p \in Procs : Valid(p) => Mine(p) /\ until[p] <= key.exp

(* Extend vouches for a lease only while the key is the handle's own: no   *)
(* renewal is reported once the handle's Unlock has been applied.  Only an *)
(* Unlock that missed an answer of Redis can still be overtaken: its delete*)
(* may land between the touch and the Extend's return, as leaseMu has been *)
(* free since the Unlock reported its error.                               *)
RenewalIsReal ==
    [][\A p \in Procs : result'[p] = "renewed" /\ until'[p] # until[p]
         => (Mine(p) /\ clock < key.exp) \/ (pc[p] = "released" /\ p \in unheard)]_vars

(* Giving up is classified on what the last attempt learned: a caller told *)
(* that it gave up itself had given up before anything was asked, and one  *)
(* told of an outage got no answer.                                        *)
OutcomeMatchesEvidence ==
    \A p \in Procs :
      /\ pc[p] = "callerDone" => doneFirst[p] /\ lastErr[p] = "fault"
      /\ pc[p] = "faulted" => lastErr[p] = "fault"
=============================================================================
