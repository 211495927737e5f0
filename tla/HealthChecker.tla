--------------------------- MODULE HealthChecker ---------------------------
(***************************************************************************)
(* The circuit breaker's health checker: one loop that sweeps the          *)
(* registered services on a ticker and checks one at once when it is told  *)
(* that its breaker opened.  The news comes through two bounded queues,    *)
(* the manager's listener goroutines and the checker's channel, and both   *)
(* drop what they cannot hold.                                             *)
(***************************************************************************)
EXTENDS Naturals, SequencesExt

CONSTANTS
    Services, NoService,
    QueueCap,      \* capacity of immediateCheck
    ListenerSem,   \* stateChangeListenerConcurrency
    MaxOutages     \* bound: outages explored

ASSUME CheckerAssumption ==
    {QueueCap, ListenerSem, MaxOutages} \subseteq Nat /\ NoService \notin Services

VARIABLES
    breaker,   \* each service's state: "absent", "closed", "open" or "half-open"
    due,       \* open breakers whose timeout is over
    up,        \* services that answer
    outages,
    news,      \* listener goroutines under way, with what they tell
    queue,     \* immediateCheck
    services,  \* registered services
    started, stopped,
    loop,      \* "none", "select", "sweep", "check", "reset" or "done"
    todo,      \* services the sweep under way has left
    cur,       \* the service looked at
    stopper,   \* the caller of Stop: "no", "waiting" or "returned"
    orderly    \* history: Start had returned when Stop was called

checkerVars == <<breaker, due, up, outages, news, queue, services, started, stopped, loop, todo, cur, stopper, orderly>>

CheckerTypeOK ==
    /\ breaker \in [Services -> {"absent", "closed", "open", "half-open"}]
    /\ due \subseteq Services /\ up \subseteq Services /\ services \subseteq Services
    /\ todo \subseteq Services /\ cur \in Services \cup {NoService}
    /\ outages \in Nat
    /\ Len(news) <= ListenerSem
    /\ \A i \in DOMAIN news : news[i] \in Services \X {"closed", "open", "half-open"}
    /\ Len(queue) <= QueueCap /\ \A i \in DOMAIN queue : queue[i] \in Services
    /\ started \in BOOLEAN /\ stopped \in BOOLEAN /\ orderly \in BOOLEAN
    /\ loop \in {"none", "select", "sweep", "check", "reset", "done"}
    /\ stopper \in {"no", "waiting", "returned"}

CheckerInit ==
    /\ breaker \in [Services -> {"absent", "closed"}]
    /\ due = {} /\ up = Services /\ outages = 0
    /\ news = << >> /\ queue = << >>
    /\ services = {} /\ started = FALSE /\ stopped = FALSE
    /\ loop = "none" /\ todo = {} /\ cur = NoService /\ stopper = "no" /\ orderly = FALSE

-----------------------------------------------------------------------------
(* The world: services fail and recover, requests run into it.             *)
Fails(s) ==
    /\ s \in up /\ outages < MaxOutages
    /\ up' = up \ {s} /\ outages' = outages + 1
    /\ UNCHANGED <<breaker, due, news, queue, services, started, stopped, loop, todo, cur, stopper, orderly>>

Recovers(s) ==
    /\ s \notin up /\ up' = up \cup {s}
    /\ UNCHANGED <<breaker, due, outages, news, queue, services, started, stopped, loop, todo, cur, stopper, orderly>>

(* dispatchStateChangeListener: a goroutine per notification, or none when *)
(* too many are under way.                                                 *)
Dispatch(s, to) == news' = IF Len(news) < ListenerSem THEN Append(news, <<s, to>>) ELSE news

BreakerBecomes(s, to) ==
    /\ breaker' = [breaker EXCEPT ![s] = to]
    /\ due' = due \ {s}
    /\ Dispatch(s, to)

(* Requests trip the breaker, or a probe decides, as the service answers.  *)
Request(s) ==
    /\ \/ breaker[s] \in {"closed", "half-open"} /\ s \notin up /\ BreakerBecomes(s, "open")
       \/ breaker[s] = "half-open" /\ s \in up /\ BreakerBecomes(s, "closed")
       \/ breaker[s] = "open" /\ s \in due /\ BreakerBecomes(s, "half-open")
    /\ UNCHANGED <<up, outages, queue, services, started, stopped, loop, todo, cur, stopper, orderly>>

TimeoutOver(s) ==
    /\ breaker[s] = "open" /\ s \notin due
    /\ due' = due \cup {s}
    /\ UNCHANGED <<breaker, up, outages, news, queue, services, started, stopped, loop, todo, cur, stopper, orderly>>

Create(s) ==
    /\ breaker[s] = "absent" /\ breaker' = [breaker EXCEPT ![s] = "closed"]
    /\ UNCHANGED <<due, up, outages, news, queue, services, started, stopped, loop, todo, cur, stopper, orderly>>

-----------------------------------------------------------------------------
(* OnStateChange, in any listener goroutine: the send never blocks.        *)
OnStateChange(i) ==
    /\ i \in 1 .. Len(news)
    /\ news' = RemoveAt(news, i)
    /\ queue' = IF news[i][2] = "open" /\ Len(queue) < QueueCap THEN Append(queue, news[i][1]) ELSE queue
    /\ UNCHANGED <<breaker, due, up, outages, services, started, stopped, loop, todo, cur, stopper, orderly>>

Register(s) ==
    /\ s \notin services /\ services' = services \cup {s}
    /\ UNCHANGED <<breaker, due, up, outages, news, queue, started, stopped, loop, todo, cur, stopper, orderly>>

Start ==
    /\ ~started /\ started' = TRUE /\ loop' = "select"
    /\ UNCHANGED <<breaker, due, up, outages, news, queue, services, stopped, todo, cur, stopper, orderly>>

Stop ==
    /\ stopper = "no" /\ stopper' = "waiting"
    /\ stopped' = TRUE /\ orderly' = started
    /\ UNCHANGED <<breaker, due, up, outages, news, queue, services, started, loop, todo, cur>>

(* Mutant: Stop does not wait for the loop.                                *)
StopReturnsAtOnce ==
    /\ stopper = "waiting" /\ stopper' = "returned"
    /\ UNCHANGED <<breaker, due, up, outages, news, queue, services, started, stopped, loop, todo, cur, orderly>>

(* wg.Wait: there is no loop, or it has returned.                          *)
StopReturns ==
    /\ stopper = "waiting" /\ loop \in {"none", "done"} /\ stopper' = "returned"
    /\ UNCHANGED <<breaker, due, up, outages, news, queue, services, started, stopped, loop, todo, cur, orderly>>

-----------------------------------------------------------------------------
(* healthCheckLoop: the select picks any case that is ready.               *)
SelectTick ==
    /\ loop = "select" /\ loop' = "sweep" /\ todo' = services
    /\ UNCHANGED <<breaker, due, up, outages, news, queue, services, started, stopped, cur, stopper, orderly>>

SelectImmediate ==
    /\ loop = "select" /\ queue # << >>
    /\ queue' = Tail(queue)
    /\ loop' = "sweep" /\ todo' = {Head(queue)} \cap services
    /\ UNCHANGED <<breaker, due, up, outages, news, services, started, stopped, cur, stopper, orderly>>

SelectStop ==
    /\ loop = "select" /\ stopped /\ loop' = "done"
    /\ UNCHANGED <<breaker, due, up, outages, news, queue, services, started, stopped, todo, cur, stopper, orderly>>

(* Mutant: an open breaker is left to its own timeout.                     *)
UnhealthyUnlessOpen(state) == state = "absent"

(* IsHealthy, negated.                                                     *)
Unhealthy(state) == state \in {"open", "absent"}

(* One service of performHealthChecks, or the one of checkServiceHealth:   *)
(* asking the breaker lets its timeout act.                                *)
Look(s) ==
    /\ loop = "sweep" /\ s \in todo
    /\ todo' = todo \ {s}
    /\ LET state == IF breaker[s] = "open" /\ s \in due THEN "half-open" ELSE breaker[s] IN
       /\ IF state # breaker[s] THEN BreakerBecomes(s, state) ELSE UNCHANGED <<breaker, due, news>>
       /\ IF Unhealthy(state) THEN loop' = "check" /\ cur' = s ELSE UNCHANGED <<loop, cur>>
    /\ UNCHANGED <<up, outages, queue, services, started, stopped, stopper, orderly>>

(* The check function returns: within its timeout, and as the service is.  *)
CheckReturns ==
    /\ loop = "check" /\ loop' = IF cur \in up THEN "reset" ELSE "sweep"
    /\ UNCHANGED <<breaker, due, up, outages, news, queue, services, started, stopped, todo, cur, stopper, orderly>>

(* manager.Reset, by now of whatever the breaker has become: nothing is    *)
(* announced, and there may be no breaker.                                 *)
ResetBreaker ==
    /\ loop = "reset" /\ loop' = "sweep"
    /\ breaker' = IF breaker[cur] = "absent" THEN breaker ELSE [breaker EXCEPT ![cur] = "closed"]
    /\ due' = due \ {cur}
    /\ UNCHANGED <<up, outages, news, queue, services, started, stopped, todo, cur, stopper, orderly>>

SweepEnds ==
    /\ loop = "sweep" /\ todo = {} /\ loop' = "select" /\ cur' = NoService
    /\ UNCHANGED <<breaker, due, up, outages, news, queue, services, started, stopped, todo, stopper, orderly>>

Loop == \/ SelectTick \/ SelectImmediate \/ SelectStop
        \/ \E s \in Services : Look(s)
        \/ CheckReturns \/ ResetBreaker \/ SweepEnds

CheckerNext ==
    \/ \E s \in Services : Fails(s) \/ Recovers(s) \/ Request(s) \/ TimeoutOver(s) \/ Create(s) \/ Register(s)
    \/ \E i \in 1 .. ListenerSem : OnStateChange(i)
    \/ Start \/ Stop \/ StopReturns \/ Loop

CheckerSpec == CheckerInit /\ [][CheckerNext]_checkerVars

(* The loop and the waiting Stop are scheduled; a select whose ticker and  *)
(* stop channel are ready again and again picks each of them sometime, and *)
(* check functions return within checkTimeout.  Nothing is assumed of      *)
(* breaker timeouts, news, services or requests.                           *)
CheckerFairness ==
    /\ WF_checkerVars(\E s \in Services : Look(s)) /\ WF_checkerVars(CheckReturns)
    /\ WF_checkerVars(ResetBreaker) /\ WF_checkerVars(SweepEnds)
    /\ SF_checkerVars(SelectTick) /\ SF_checkerVars(SelectStop) /\ WF_checkerVars(StopReturns)

-----------------------------------------------------------------------------
(* A reset after Stop has returned, when Start had returned before Stop    *)
(* was called: what no step may be.                                        *)
ResetAfterStop == stopper = "returned" /\ orderly /\ ResetBreaker

(* HealthChecker: nothing is reset after Stop has returned (Stop).         *)
StopIsFinal == [][~ResetAfterStop]_checkerVars

(* A registered service that is up while the checker runs, and one that    *)
(* requests do not reach.                                                  *)
Recovered(s) == s \in up /\ s \in services /\ started /\ ~stopped
CutOff(s)    == breaker[s] = "open"

(* Nobody waits in Stop.                                                   *)
CheckerQuiet == stopper # "waiting"
=============================================================================
