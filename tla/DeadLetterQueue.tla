-------------------------- MODULE DeadLetterQueue --------------------------
(***************************************************************************)
(* The dead letter queue of one source: a Redis list per tenant and one    *)
(* for messages without a tenant, consumers that poll them, and a pruner.  *)
(* Every message read is removed from its list first and pushed back if it *)
(* is to stay, so it exists only in the hand of whoever read it meanwhile. *)
(* A Redis call may fail before it is applied or after, and the client     *)
(* sends one whose reply it lost again: a push then leaves a second copy.  *)
(* A process may die; a consumer may be stopped or its context cancelled.  *)
(***************************************************************************)
EXTENDS Naturals, FiniteSets, SequencesExt, FiniteSetsExt

CONSTANTS
    Tenants,
    Global,       \* the scope of messages without a tenant
    Home,         \* message -> TenantID it is enqueued with, or Global
    Pruner, NoMessage,
    Configs       \* configurations and environments:
                  \*   consumers
                  \*   messages    what lies in lists: messages, and
                  \*   spares      those that stand for second copies of others
                  \*   astray      messages that begin under another key, moved by hand
                  \*   spent       messages their producer leaves no retries
                  \*   maxRetries, batchSize
                  \*   maxFaults   bound: failed calls and crashes
                  \*   maxPrunes   bound: messages looked at by the pruner
                  \*   maxStops    bound: consumers stopped or cancelled

ASSUME QueueAssumption ==
    /\ IsFiniteSet(Tenants) /\ Global \notin Tenants
    /\ \A k \in Configs :
         /\ {k.maxRetries, k.batchSize} \subseteq Nat \ {0}
         /\ k.spares \subseteq k.messages /\ k.astray \subseteq k.messages \ k.spares
         /\ Pruner \notin k.consumers
         /\ NoMessage \notin k.messages
         /\ \A m \in k.messages : Home[m] \in Tenants \cup {Global}

VARIABLES
    cfg,
    queue,       \* scope -> its list
    tenant,      \* message -> TenantID it carries, or Global
    retryCount,
    future,      \* messages whose NextRetryAt lies ahead
    stopCh,      \* each consumer's stop channel: "none", "open" or "closed"
    cancelled,   \* consumers whose context is cancelled
    pc,          \* where each consumer and the pruner are
    scopes,      \* the scopes its poll cycle or its prune drains, in order
    at,          \* the one it is at
    processed, progressed,   \* processSource's counter and flag
    rotations, rotationCap,  \* drainSource's
    hand,        \* the message it holds
    faults, prunes, stops,
    entered,     \* history: messages that were enqueued
    origin,      \* history: message a second copy is a copy of, itself for the others
    calls,       \* history: retryFunc calls for a message
    servedAs,    \* history: tenant of the context of the last of them, or NoMessage
    accounted,   \* history: messages counted as retried, exhausted, pruned,
                 \* lost, or reported to the caller
    silent       \* history: messages lost by a crash or a read without a reply

list    == <<queue, tenant, retryCount, future>>
cursor  == <<scopes, at, processed, progressed, rotations, rotationCap>>
history == <<entered, origin, calls, servedAs, accounted, silent>>
bounds  == <<faults, prunes, stops>>
moving  == <<list, stopCh, cancelled, pc, cursor, hand, bounds, history>>
queueVars == <<cfg, moving>>

Messages   == cfg.messages
Consumers  == cfg.consumers
MaxRetries == cfg.maxRetries
BatchSize  == cfg.batchSize

Scopes == Tenants \cup {Global}
Actors == Consumers \cup {Pruner}

QueueTypeOK ==
    /\ cfg \in Configs
    /\ \A s \in Scopes : ToSet(queue[s]) \subseteq Messages
    /\ tenant \in [Messages -> Scopes]
    /\ retryCount \in [Messages -> 0 .. MaxRetries]
    /\ future \subseteq Messages
    /\ stopCh \in [Consumers -> {"none", "open", "closed"}] /\ cancelled \subseteq Consumers
    /\ pc \in [Actors -> {"off", "idle", "length", "pop", "bounce", "retry", "requeue", "done"}]
    /\ \A a \in Actors : ToSet(scopes[a]) \subseteq Scopes
    /\ processed \in [Consumers -> 0 .. BatchSize - 1] /\ progressed \in [Consumers -> BOOLEAN]
    /\ \A c \in Consumers : rotations[c] <= rotationCap[c] /\ rotationCap[c] <= BatchSize
    /\ hand \in [Actors -> Messages \cup {NoMessage}]
    /\ origin \in [Messages -> Messages]

QueueInit ==
    /\ cfg \in Configs
    /\ queue \in [Scopes -> {<<>>} \cup {<<m>> : m \in cfg.astray}]
    /\ \A m \in cfg.astray : \E s \in Scopes \ {Home[m]} :
         /\ queue[s] = <<m>>
         /\ \A t \in Scopes \ {s} : queue[t] # <<m>>
    /\ tenant = [m \in Messages |-> Home[m]]
    /\ retryCount = [m \in Messages |-> IF m \in cfg.spent THEN MaxRetries ELSE 0]
    /\ future = {}
    /\ stopCh = [c \in Consumers |-> "none"] /\ cancelled = {}
    /\ pc = [a \in Actors |-> IF a = Pruner THEN "idle" ELSE "off"]
    /\ scopes = [a \in Actors |-> <<>>] /\ at = [a \in Actors |-> 1]
    /\ processed = [c \in Consumers |-> 0] /\ progressed = [c \in Consumers |-> FALSE]
    /\ rotations = [c \in Consumers |-> 0] /\ rotationCap = [c \in Consumers |-> 0]
    /\ hand = [a \in Actors |-> NoMessage]
    /\ faults = 0 /\ prunes = 0 /\ stops = 0
    /\ entered = cfg.astray /\ origin = [m \in Messages |-> m] /\ calls = [m \in Messages |-> 0]
    /\ servedAs = [m \in Messages |-> NoMessage]
    /\ accounted = {} /\ silent = {}

Queued(m) == \E s \in Scopes : m \in ToSet(queue[s])
InHand(m) == \E a \in Actors : hand[a] = m

Goto(a, to) == pc' = [pc EXCEPT ![a] = to]
Fault == faults < cfg.maxFaults /\ faults' = faults + 1 /\ UNCHANGED <<prunes, stops>>

-----------------------------------------------------------------------------
(* Redis and the world.                                                    *)
Push(m, s) == queue' = [queue EXCEPT ![s] = Append(@, m)]

(* Ahead(m): the backoff of a first enqueue, unless the caller leaves the  *)
(* message no retries.                                                     *)
Ahead(m) == retryCount[m] < MaxRetries

(* A producer enqueues a message for the first time.  A failed push is the *)
(* caller's.                                                               *)
Enqueue(m) ==
    /\ m \notin entered \cup cfg.spares /\ entered' = entered \cup {m}
    /\ Push(m, tenant[m])
    /\ future' = IF Ahead(m) THEN future \cup {m} ELSE future
    /\ UNCHANGED <<tenant, retryCount, stopCh, cancelled, pc, cursor, hand, bounds,
                   origin, calls, servedAs, accounted, silent>>

(* The reply to a push of m into list s is lost: a copy is in the list,    *)
(* with the fields m was encoded with, and the client sends the push again.*)
Resent(m, s, ahead) ==
    /\ Fault
    /\ \E d \in cfg.spares \ entered :
         /\ entered' = entered \cup {d} /\ origin' = [origin EXCEPT ![d] = origin[m]]
         /\ Push(d, s) /\ tenant' = [tenant EXCEPT ![d] = s]
         /\ retryCount' = [retryCount EXCEPT ![d] = retryCount[m]]
         /\ future' = IF ahead THEN future \cup {d} ELSE future
         /\ calls' = [calls EXCEPT ![d] = calls[m]]
         /\ servedAs' = [servedAs EXCEPT ![d] = servedAs[m]]
    /\ UNCHANGED <<stopCh, cancelled, pc, cursor, hand, accounted, silent>>

EnqueueResent(m) ==
    /\ m \notin entered \cup cfg.spares
    /\ Resent(m, tenant[m], Ahead(m))

(* The time of a message's next retry comes.                               *)
Elapse(m) ==
    /\ m \in future /\ future' = future \ {m}
    /\ UNCHANGED <<queue, tenant, retryCount, stopCh, cancelled, pc, cursor, hand, bounds, history>>

Scope(a) == scopes[a][at[a]]

(* TenantID and key of a message held by someone whose context is scope s: *)
(* processMessage and PruneExhaustedMessages put the message's own tenant  *)
(* into the context, and Enqueue gives it the context's if it has none.    *)
Effective(m, s) == IF tenant[m] # Global THEN tenant[m] ELSE s

(* The message in a's hand goes to the tail of its list ...                *)
PutBack(a, s) ==
    LET m == hand[a] IN
    /\ Push(m, Effective(m, s))
    /\ tenant' = [tenant EXCEPT ![m] = Effective(m, s)]

PutBackResent(a) ==
    /\ pc[a] \in {"bounce", "requeue"} /\ a \notin cancelled
    /\ Resent(hand[a], Effective(hand[a], Scope(a)), hand[a] \in future)

(* ... or the push fails: it is gone, or it was applied all the same.      *)
PutBackFails(a, s) ==
    \/ PutBack(a, s)
    \/ UNCHANGED <<queue, tenant>>

-----------------------------------------------------------------------------
(* Run and Stop.                                                           *)
Run(c) ==
    /\ pc[c] \in {"off", "done"} /\ stopCh[c] = "none" /\ c \notin cancelled
    /\ stopCh' = [stopCh EXCEPT ![c] = "open"] /\ Goto(c, "idle")
    /\ UNCHANGED <<list, cancelled, cursor, hand, bounds, history>>

Stop(c) ==
    /\ stops < cfg.maxStops /\ stops' = stops + 1
    /\ stopCh[c] = "open" /\ stopCh' = [stopCh EXCEPT ![c] = "closed"]
    /\ UNCHANGED <<list, cancelled, pc, cursor, hand, faults, prunes, history>>

Cancel(c) ==
    /\ stops < cfg.maxStops /\ stops' = stops + 1
    /\ c \notin cancelled /\ cancelled' = cancelled \cup {c}
    /\ UNCHANGED <<list, stopCh, pc, cursor, hand, faults, prunes, history>>

(* The loop's select takes the stop channel or the context; the deferred   *)
(* cleanup forgets the channel.                                            *)
RunEnds(c) ==
    /\ pc[c] = "idle" /\ (stopCh[c] = "closed" \/ c \in cancelled)
    /\ stopCh' = [stopCh EXCEPT ![c] = "none"] /\ Goto(c, "done")
    /\ UNCHANGED <<list, cancelled, cursor, hand, bounds, history>>

-----------------------------------------------------------------------------
(* processSource.                                                          *)
TenantKeys == {t \in Tenants : queue[t] # <<>>}

(* Mutant: the list without a tenant is not drained.                       *)
KeyContextsOfTenants == SetToSeqs(TenantKeys)

(* The lists a cycle drains, in the order SCAN happens to return them: the *)
(* tenants', or the one without a tenant when there is none.               *)
KeyContexts == IF TenantKeys = {} THEN {<<Global>>} ELSE SetToSeqs(TenantKeys)

(* A cycle begins; one whose scan fails ends at once and changes nothing.  *)
ScanQueues(c) ==
    /\ pc[c] = "idle" /\ c \notin cancelled
    /\ scopes' \in {[scopes EXCEPT ![c] = k] : k \in KeyContexts}
    /\ Goto(c, IF scopes'[c] = <<>> THEN "idle" ELSE "length")
    /\ UNCHANGED <<list, stopCh, cancelled, at, processed, progressed, rotations, rotationCap,
                   hand, bounds, history>>

Full(n) == n >= BatchSize

(* One drainSource call returns n: on to the next scope, to another round, *)
(* or out of the cycle, whose counters are then of no more use.            *)
DrainReturns(c, n) ==
    LET progress == progressed[c] \/ n > 0
        last == at[c] = Len(scopes[c])
        over == Full(processed[c] + 1) \/ c \in cancelled \/ (last /\ ~progress)
    IN  /\ processed' = [processed EXCEPT ![c] = IF over THEN 0 ELSE @ + 1]
        /\ scopes' = [scopes EXCEPT ![c] = IF over THEN <<>> ELSE @]
        /\ at' = [at EXCEPT ![c] = IF over \/ last THEN 1 ELSE @ + 1]
        /\ progressed' = [progressed EXCEPT ![c] = progress /\ ~last /\ ~over]
        /\ Goto(c, IF over THEN "idle" ELSE "length")
        /\ rotations' = [rotations EXCEPT ![c] = 0]
        /\ rotationCap' = [rotationCap EXCEPT ![c] = 0]
        /\ hand' = [hand EXCEPT ![c] = NoMessage]
        /\ UNCHANGED <<stopCh, cancelled>>

-----------------------------------------------------------------------------
(* drainSource.                                                            *)
DrainCancelled(c) ==
    /\ pc[c] \in {"length", "pop"} /\ c \in cancelled
    /\ DrainReturns(c, 0)
    /\ UNCHANGED <<list, bounds, history>>

QueueLength(c) ==
    /\ pc[c] = "length" /\ c \notin cancelled
    /\ IF queue[Scope(c)] = <<>>
         THEN DrainReturns(c, 0)
         ELSE /\ rotationCap' = [rotationCap EXCEPT ![c] = Min({Len(queue[Scope(c)]), BatchSize})]
              /\ rotations' = [rotations EXCEPT ![c] = 0]
              /\ Goto(c, "pop")
              /\ UNCHANGED <<scopes, at, processed, progressed, stopCh, cancelled, hand>>
    /\ UNCHANGED <<list, bounds, history>>

(* Mutant: the message is read, not removed.                               *)
LPopPeeks(s) == UNCHANGED queue

LPop(s) == queue' = [queue EXCEPT ![s] = Tail(@)]

Exhausted(m) == retryCount[m] >= MaxRetries

(* Dequeue, and what processMessage decides at once.                       *)
Dequeue(c) ==
    /\ pc[c] = "pop" /\ c \notin cancelled
    /\ IF queue[Scope(c)] = <<>>
         THEN DrainReturns(c, 0) /\ UNCHANGED <<queue, accounted>>
         ELSE LET m == Head(queue[Scope(c)]) IN
              /\ LPop(Scope(c))
              /\ IF m \notin future /\ Exhausted(m)
                   THEN DrainReturns(c, 1) /\ accounted' = accounted \cup {m}
                   ELSE /\ Goto(c, IF m \in future THEN "bounce" ELSE "retry")
                        /\ hand' = [hand EXCEPT ![c] = m]
                        /\ UNCHANGED <<cursor, stopCh, cancelled, accounted>>
    /\ UNCHANGED <<tenant, retryCount, future, bounds, entered, origin, calls, servedAs, silent>>

(* A call fails, the read possibly after the message was removed, or what  *)
(* was removed cannot be decoded.                                          *)
DequeueFails(c) ==
    /\ c \notin cancelled /\ Fault
    /\ \/ pc[c] \in {"length", "pop"} /\ UNCHANGED <<queue, silent>>
       \/ /\ pc[c] = "pop" /\ queue[Scope(c)] # <<>>
          /\ LPop(Scope(c)) /\ silent' = silent \cup {Head(queue[Scope(c)])}
    /\ DrainReturns(c, 0)
    /\ UNCHANGED <<tenant, retryCount, future, entered, origin, calls, servedAs, accounted>>

(* The reply to the read is lost and the client reads again: the message   *)
(* it removed is gone without a word.                                      *)
DequeueResent(c) ==
    /\ pc[c] = "pop" /\ c \notin cancelled /\ queue[Scope(c)] # <<>> /\ Fault
    /\ LPop(Scope(c)) /\ silent' = silent \cup {Head(queue[Scope(c)])}
    /\ UNCHANGED <<tenant, retryCount, future, stopCh, cancelled, pc, cursor, hand,
                   entered, origin, calls, servedAs, accounted>>

-----------------------------------------------------------------------------
(* processMessage.                                                         *)

(* Not yet time: back to the tail, and on to the next message.             *)
Bounce(c) ==
    /\ pc[c] = "bounce" /\ c \notin cancelled
    /\ PutBack(c, Scope(c))
    /\ IF rotations[c] + 1 < rotationCap[c]
         THEN /\ rotations' = [rotations EXCEPT ![c] = @ + 1] /\ Goto(c, "pop")
              /\ hand' = [hand EXCEPT ![c] = NoMessage]
              /\ UNCHANGED <<scopes, at, processed, progressed, rotationCap, stopCh, cancelled>>
         ELSE DrainReturns(c, 0)
    /\ UNCHANGED <<retryCount, future, bounds, history>>

(* safeRetryFunc: a panic is a failure.                                    *)
RetryFunc(c) ==
    LET m == hand[c] IN
    /\ pc[c] = "retry"
    /\ calls' = [calls EXCEPT ![m] = @ + 1]
    /\ servedAs' = [servedAs EXCEPT ![m] = Effective(m, Scope(c))]
    /\ \/ /\ accounted' = accounted \cup {m}
          /\ DrainReturns(c, 1) /\ UNCHANGED <<retryCount, future>>
       \/ /\ retryCount' = [retryCount EXCEPT ![m] = @ + 1]
          /\ future' = future \cup {m}
          /\ Goto(c, "requeue")
          /\ UNCHANGED <<cursor, stopCh, cancelled, hand, accounted>>
    /\ UNCHANGED <<queue, tenant, bounds, entered, origin, silent>>

Requeue(c) ==
    /\ pc[c] = "requeue" /\ c \notin cancelled
    /\ PutBack(c, Scope(c)) /\ DrainReturns(c, 1)
    /\ UNCHANGED <<retryCount, future, bounds, history>>

RecordLost(m) == accounted' = accounted \cup {m}

(* The push fails, as every call does once the context is cancelled.       *)
EnqueueFails(c) ==
    /\ pc[c] \in {"bounce", "requeue"}
    /\ \/ c \in cancelled /\ UNCHANGED <<queue, tenant, bounds>>
       \/ c \notin cancelled /\ Fault /\ PutBackFails(c, Scope(c))
    /\ RecordLost(hand[c]) /\ DrainReturns(c, 1)
    /\ UNCHANGED <<retryCount, future, entered, origin, calls, servedAs, silent>>

(* The process dies: whatever it held is gone.                             *)
Crash(c) ==
    /\ pc[c] \notin {"off", "done"} /\ Fault
    /\ silent' = silent \cup ({hand[c]} \ {NoMessage})
    /\ hand' = [hand EXCEPT ![c] = NoMessage] /\ Goto(c, "done")
    /\ scopes' = [scopes EXCEPT ![c] = <<>>] /\ at' = [at EXCEPT ![c] = 1]
    /\ processed' = [processed EXCEPT ![c] = 0] /\ progressed' = [progressed EXCEPT ![c] = FALSE]
    /\ rotations' = [rotations EXCEPT ![c] = 0] /\ rotationCap' = [rotationCap EXCEPT ![c] = 0]
    /\ UNCHANGED <<list, stopCh, cancelled, entered, origin, calls, servedAs, accounted>>

-----------------------------------------------------------------------------
(* PruneExhaustedMessages, with or without a tenant in its context, one    *)
(* message at a time: exhausted ones go, the others to the tail.           *)
PruneDequeue(s) ==
    /\ pc[Pruner] = "idle" /\ queue[s] # <<>> /\ prunes < cfg.maxPrunes
    /\ prunes' = prunes + 1
    /\ scopes' = [scopes EXCEPT ![Pruner] = <<s>>]
    /\ LPop(s)
    /\ LET m == Head(queue[s]) IN
       IF Exhausted(m)
         THEN accounted' = accounted \cup {m} /\ UNCHANGED <<pc, hand>>
         ELSE /\ hand' = [hand EXCEPT ![Pruner] = m] /\ Goto(Pruner, "requeue")
              /\ UNCHANGED accounted
    /\ UNCHANGED <<tenant, retryCount, future, stopCh, cancelled, at, processed, progressed,
                   rotations, rotationCap, faults, stops, entered, origin, calls, servedAs, silent>>

PruneEnqueue ==
    /\ pc[Pruner] = "requeue"
    /\ PutBack(Pruner, Scope(Pruner))
    /\ hand' = [hand EXCEPT ![Pruner] = NoMessage] /\ Goto(Pruner, "idle")
    /\ UNCHANGED <<retryCount, future, stopCh, cancelled, cursor, bounds, history>>

(* A failed push is returned as an error; a message removed by a read that *)
(* failed or was sent again, or held when the process dies, is gone        *)
(* without a word.                                                         *)
PruneFails(s) ==
    /\ \/ /\ pc[Pruner] = "requeue" /\ s = Scope(Pruner)
          /\ \/ PutBackFails(Pruner, s) /\ accounted' = accounted \cup {hand[Pruner]} /\ UNCHANGED silent
             \/ silent' = silent \cup {hand[Pruner]} /\ UNCHANGED <<queue, tenant, accounted>>
       \/ /\ pc[Pruner] = "idle" /\ queue[s] # <<>>
          /\ LPop(s) /\ silent' = silent \cup {Head(queue[s])}
          /\ UNCHANGED <<tenant, accounted>>
    /\ Fault
    /\ hand' = [hand EXCEPT ![Pruner] = NoMessage] /\ Goto(Pruner, "idle")
    /\ UNCHANGED <<retryCount, future, stopCh, cancelled, cursor, entered, origin, calls, servedAs>>

-----------------------------------------------------------------------------
Step(c) ==
    \/ RunEnds(c) \/ ScanQueues(c) \/ DrainCancelled(c) \/ QueueLength(c)
    \/ Dequeue(c) \/ Bounce(c) \/ RetryFunc(c) \/ Requeue(c) \/ EnqueueFails(c)

QueueNext ==
    /\ UNCHANGED cfg
    /\ \/ \E m \in Messages : Enqueue(m) \/ EnqueueResent(m) \/ Elapse(m)
       \/ \E c \in Consumers :
            \/ Run(c) \/ Stop(c) \/ Cancel(c) \/ Step(c)
            \/ DequeueFails(c) \/ DequeueResent(c) \/ Crash(c)
       \/ \E a \in Actors : PutBackResent(a)
       \/ \E s \in Scopes : PruneDequeue(s) \/ PruneFails(s)
       \/ PruneEnqueue

QueueSpec == QueueInit /\ [][QueueNext]_queueVars

-----------------------------------------------------------------------------
(* What was pushed is in one place: once in one list, or in one hand.  No  *)
(* two consumers retry it at once, although a push whose answer was lost   *)
(* leaves it in its list.  A message has a second copy only after the      *)
(* client sent a push of it again (Dequeue, Enqueue).                      *)
OneCopy ==
    /\ \A s, t \in Scopes : \A i \in DOMAIN queue[s], j \in DOMAIN queue[t] :
         queue[s][i] = queue[t][j] => s = t /\ i = j
    /\ \A a \in Actors : hand[a] # NoMessage =>
         ~Queued(hand[a]) /\ \A b \in Actors \ {a} : hand[b] # hand[a]
    /\ faults = 0 => \A m, n \in Messages : origin[m] = origin[n] => m = n

(* A message never vanishes unaccounted: what is in no list and in no hand *)
(* was retried, exhausted, pruned, recorded as lost or reported to the     *)
(* caller, or went down with a crash or a read that failed or was sent     *)
(* again (processMessage).                                                 *)
NothingVanishes ==
    \A m \in entered : Queued(m) \/ InHand(m) \/ m \in accounted \cup silent

(* retryFunc is called at most MaxRetries times for a message, and for a   *)
(* second copy with the calls before it was made counted, through lost     *)
(* answers, restarts and several consumers (processMessage).               *)
RetriesBounded == \A m \in Messages : calls[m] <= MaxRetries

HomeOf(m) == Home[origin[m]]
Astray(m) == origin[m] \in cfg.astray

(* A message with a tenant is retried as its tenant and lies in the list   *)
(* of its tenant, unless it was moved by hand and nobody has met it since; *)
(* no tenant's message ends with another (processMessage,                  *)
(* resolveAndValidateTenant).                                              *)
OwnTenantOnly ==
    /\ \A m \in Messages : HomeOf(m) # Global => servedAs[m] \in {NoMessage, HomeOf(m)}
    /\ \A s \in Scopes, m \in Messages : m \in ToSet(queue[s]) => s = HomeOf(m) \/ Astray(m)

(* Every message is in one place, its own tenant's, or has ended in a      *)
(* known way, with the types (Dequeue, Enqueue, processMessage).           *)
EveryMessageAccounted == QueueTypeOK /\ OneCopy /\ NothingVanishes /\ OwnTenantOnly

(* DeadLetterQueue: every message is in one place, its own tenant's, or has*)
(* ended in a known way, and retries are bounded, through lost answers,    *)
(* crashes, cancellations and several consumers (Dequeue, Enqueue,         *)
(* processMessage).                                                        *)
DeadLettersSound == EveryMessageAccounted /\ RetriesBounded

(* While some consumer runs every message leaves the queue, also the ones  *)
(* without a tenant, which are drained only when no tenant has any, and    *)
(* the ones behind others whose time has not come (processSource).         *)
QueueSettled ==
    \/ \A m \in Messages : ~Queued(m) /\ ~InHand(m)
    \/ \A c \in Consumers : pc[c] \in {"off", "done"}
=============================================================================
