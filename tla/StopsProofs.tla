---------------------------- MODULE StopsProofs ----------------------------
(***************************************************************************)
(* Theorems about what runs until it is stopped: the server manager, the   *)
(* health checker, the outbox dispatcher's lifecycle and groups of         *)
(* goroutines, for any servers, services, runs, shutdowns and tasks.       *)
(***************************************************************************)
EXTENDS MCStops, FiniteSetTheorems, TLAPS

-----------------------------------------------------------------------------
(* Groups of goroutines.                                                   *)

TaskStates == {"new", "added", "configError", "left", "running", "failed", "once", "recorded", "ended"}
InOnce     == {"once", "recorded"}

GTypes ==
    /\ group \in GroupSetups /\ task \in [Tasks -> TaskStates] /\ errOnce \in {"free", "held", "done"}
    /\ err \in Tasks \cup {noTask} /\ ctxDone \in BOOLEAN /\ firstFailure \subseteq Tasks
    /\ waiter \in {"calling", "waiting", "returned", "refused"}

(* The launcher starts all that was added or nothing at all.               *)
GLauncher ==
    ~errgroup =>
      /\ firstFailure = {} /\ err = noTask
      /\ waiter \in {"calling", "refused"} => \A t \in Tasks : task[t] \in {"new", "added", "configError", "left"}
      /\ waiter \in {"waiting", "returned"} => \A t \in Tasks : task[t] \in {"left", "running", "ended"}
      /\ \A t \in group.unusable \cap group.asOption : task[t] \in {"new", "configError"}

(* errOnce: one task at most is inside, and until one has been through it  *)
(* a failure is on its way to it.                                          *)
GOnce ==
    errgroup =>
      /\ \A t \in Tasks : task[t] \in {"new", "running", "failed", "once", "recorded", "ended"}
      /\ \A t \in Tasks : task[t] \in InOnce => errOnce = "held"
      /\ \A t, u \in Tasks : task[t] \in InOnce /\ task[u] \in InOnce => t = u
      /\ errOnce = "held" => \E t \in Tasks : task[t] \in InOnce
      /\ errOnce = "done" => err # noTask
      /\ \A t \in Tasks : task[t] = "recorded" => err # noTask
      /\ firstFailure = {} => /\ errOnce = "free" /\ err = noTask
                              /\ \A t \in Tasks : task[t] \notin {"failed", "once", "recorded"}
      /\ firstFailure # {} /\ errOnce = "free" => \E t \in Tasks : task[t] = "failed"

(* A task that waits for the context fails too late to get into errOnce.   *)
GHeeds ==
    /\ waiter = "returned" => \A t \in Tasks : task[t] \in {"ended", "left"}
    /\ waiter = "returned" /\ errgroup => ctxDone
    /\ ctxDone => errOnce = "done" \/ waiter = "returned"
    /\ \A t \in group.heeds : task[t] \notin InOnce /\ (task[t] = "failed" => ctxDone)
    /\ err \notin group.heeds

GInv == GTypes /\ GLauncher /\ GOnce /\ GHeeds

(* What a group is made of.                                                *)
LEMMA GroupShape ==
    ASSUME GTypes
    PROVE  /\ noTask \notin Tasks /\ group.heeds \subseteq Tasks /\ group.unusable \subseteq Tasks
           /\ group.asOption \subseteq Tasks /\ group.kind \in {"errgroup", "launcher"}
BY GroupsAssumption DEF GTypes, noTask

(* The caller's steps keep the invariant.                                  *)
LEMMA CallerSteps ==
    ASSUME GInv, callerStep
    PROVE  GInv'
<1> USE GroupShape DEF GInv, GTypes, TaskStates, InOnce, errgroup
<1>1. CASE Wait
  BY <1>1 DEF Wait, GLauncher, GOnce, GHeeds
<1>2. CASE RunWithError
  BY <1>2 DEF RunWithError, GLauncher, GOnce, GHeeds
<1>3. CASE waitReturns
  BY <1>3 DEF waitReturns, GLauncher, GOnce, GHeeds
<1>4. ASSUME NEW t \in Tasks, Go(t) PROVE GInv'
  BY <1>4 DEF Go, GLauncher, GOnce, GHeeds
<1>5. ASSUME NEW t \in Tasks, RunApp(t) PROVE GInv'
  BY <1>5 DEF RunApp, GLauncher, GOnce, GHeeds
<1>6. ASSUME NEW t \in Tasks, Add(t) PROVE GInv'
  BY <1>6 DEF Add, GLauncher, GOnce, GHeeds
<1> QED
  BY <1>1, <1>2, <1>3, <1>4, <1>5, <1>6 DEF callerStep

(* So do the goroutines'.                                                  *)
LEMMA TaskSteps ==
    ASSUME GInv, NEW t \in Tasks, taskStep(t)
    PROVE  GInv'
<1> USE GroupShape DEF GInv, GTypes, TaskStates, InOnce, errgroup
<1>1. CASE ends(t)
  <2>1. GTypes'
    BY <1>1 DEF ends
  <2>2. GLauncher'
    BY <1>1 DEF ends, GLauncher
  <2>3. GOnce'
    BY <1>1 DEF ends, GOnce
  <2>4. GHeeds'
    BY <1>1 DEF ends, GHeeds
  <2> QED
    BY <2>1, <2>2, <2>3, <2>4
<1>2. CASE entersOnce(t)
  <2>1. GTypes' /\ GLauncher'
    BY <1>2 DEF entersOnce, admitted, GLauncher
  <2>2. GOnce'
    BY <1>2 DEF entersOnce, admitted, GOnce, GLauncher
  <2>3. GHeeds'
    BY <1>2 DEF entersOnce, admitted, GHeeds
  <2> QED
    BY <2>1, <2>2, <2>3
<1>3. CASE records(t)
  <2>1. GTypes' /\ GLauncher'
    BY <1>3 DEF records, GLauncher
  <2>2. GOnce'
    BY <1>3 DEF records, GOnce
  <2>3. GHeeds'
    BY <1>3 DEF records, GHeeds
  <2> QED
    BY <2>1, <2>2, <2>3
<1>4. CASE cancels(t)
  <2>1. GTypes' /\ GLauncher'
    BY <1>4 DEF cancels, GLauncher
  <2>2. GOnce'
    BY <1>4 DEF cancels, GOnce
  <2>3. GHeeds'
    BY <1>4 DEF cancels, GHeeds
  <2> QED
    BY <2>1, <2>2, <2>3
<1> QED
  BY <1>1, <1>2, <1>3, <1>4 DEF taskStep

(* Wait and RunWithError return when every goroutine has ended; the error  *)
(* that is returned is the one that cancelled the rest, for any number of  *)
(* tasks with any outcomes (errgroup.Go, Wait, RunWithError).              *)
THEOREM GroupsSoundHolds == GroupsSpec => []GroupsSound
<1>1. GroupsInit => GInv
  <2> SUFFICES ASSUME GroupsInit PROVE GInv
    OBVIOUS
  <2>1. GTypes
    BY DEF GroupsInit, GTypes, TaskStates
  <2> QED
    BY <2>1, GroupShape DEF GroupsInit, GInv, GLauncher, GOnce, GHeeds, InOnce, errgroup
<1>2. GInv /\ [GroupsNext]_gvars => GInv'
  <2>1. CASE GroupsNext
    BY <2>1, CallerSteps, TaskSteps DEF GroupsNext, callerStep, taskStep
  <2>2. CASE UNCHANGED gvars
    BY <2>2 DEF gvars, GInv, GTypes, GLauncher, GOnce, GHeeds, errgroup
  <2> QED
    BY <2>1, <2>2
<1>3. GInv => GroupsSound
  BY GroupShape DEF GInv, GTypes, GLauncher, GOnce, GHeeds, InOnce, GroupsSound, errgroup
<1> QED
  BY <1>1, <1>2, <1>3, PTL DEF GroupsSpec

-----------------------------------------------------------------------------
(* The health checker.                                                     *)

News == Services \X {"closed", "open", "half-open"}

(* Stop has waited for the loop, unless Start came after it.               *)
StopWaits ==
    /\ started <=> loop # "none"
    /\ orderly => started
    /\ stopper = "returned" /\ orderly => loop = "done"

HealthInv == CheckerTypeOK /\ news \in Seq(News) /\ queue \in Seq(Services) /\ StopWaits

(* Both queues drop what they cannot hold.                                 *)
LEMMA QueuesBounded ==
    /\ \A s \in Services, to \in {"closed", "open", "half-open"} :
         HealthInv /\ Dispatch(s, to) => news' \in Seq(News) /\ Len(news') <= ListenerSem
    /\ \A i \in 1 .. Len(news) :
         HealthInv /\ news' = RemoveAt(news, i) => news' \in Seq(News) /\ Len(news') <= ListenerSem
<1>1. ASSUME NEW s \in Services, NEW to \in {"closed", "open", "half-open"}, HealthInv, Dispatch(s, to)
      PROVE  news' \in Seq(News) /\ Len(news') <= ListenerSem
  <2>1. <<s, to>> \in News
    BY DEF News
  <2> QED
    BY <1>1, <2>1, CheckerAssumption DEF HealthInv, CheckerTypeOK, Dispatch
<1>2. ASSUME NEW i \in 1 .. Len(news), HealthInv, news' = RemoveAt(news, i)
      PROVE  news' \in Seq(News) /\ Len(news') <= ListenerSem
  <2>1. news \in Seq(News) /\ Len(news) \in Nat /\ Len(news) <= ListenerSem /\ ListenerSem \in Nat /\ i \in Nat /\ i >= 1
    BY <1>2, CheckerAssumption DEF HealthInv, CheckerTypeOK
  <2>2. SubSeq(news, 1, i - 1) \in Seq(News) /\ Len(SubSeq(news, 1, i - 1)) = i - 1
    BY <2>1, <1>2
  <2>3. SubSeq(news, i + 1, Len(news)) \in Seq(News) /\ Len(SubSeq(news, i + 1, Len(news))) = Len(news) - i
    BY <2>1, <1>2
  <2>4. \A a, b \in Seq(News) : a \o b \in Seq(News) /\ Len(a \o b) = Len(a) + Len(b)
    OBVIOUS
  <2>5. news' \in Seq(News) /\ Len(news') = (i - 1) + (Len(news) - i)
    BY <1>2, <2>2, <2>3, <2>4 DEF RemoveAt
  <2> QED
    BY <2>1, <2>5
<1> QED
  BY <1>1, <1>2

(* Every step of the checker and of its world keeps the invariant.         *)
LEMMA CheckerSteps ==
    ASSUME HealthInv, [CheckerNext]_checkerVars
    PROVE  HealthInv'
<1> USE CheckerAssumption
<1>0. /\ \A n \in Seq(News) : \A i \in DOMAIN n : n[i] \in News
      /\ \A q \in Seq(Services) : \A i \in DOMAIN q : q[i] \in Services
  OBVIOUS
<1>1. ASSUME NEW s \in Services, Fails(s) \/ Recovers(s) \/ TimeoutOver(s) \/ Create(s) \/ Register(s) PROVE HealthInv'
  BY <1>1 DEF Fails, Recovers, TimeoutOver, Create, Register, HealthInv, CheckerTypeOK, StopWaits
<1>2. ASSUME NEW s \in Services, Request(s) PROVE HealthInv'
  <2>1. PICK to \in {"closed", "open", "half-open"} : BreakerBecomes(s, to)
    BY <1>2 DEF Request
  <2>2. news' \in Seq(News) /\ Len(news') <= ListenerSem
    BY <2>1, QueuesBounded DEF BreakerBecomes
  <2>3. \A i \in DOMAIN news' : news'[i] \in News
    BY <2>2, <1>0
  <2> QED
    BY <1>2, <2>1, <2>2, <2>3 DEF Request, BreakerBecomes, HealthInv, CheckerTypeOK, StopWaits, News
<1>3. ASSUME NEW i \in 1 .. ListenerSem, OnStateChange(i) PROVE HealthInv'
  <2>1. news' \in Seq(News) /\ Len(news') <= ListenerSem
    BY <1>3, QueuesBounded DEF OnStateChange
  <2>2. \A j \in DOMAIN news' : news'[j] \in News
    BY <2>1, <1>0
  <2>3. news[i] \in News
    BY <1>3, <1>0 DEF OnStateChange, HealthInv
  <2>4. news[i][1] \in Services
    BY <2>3 DEF News
  <2>5. queue' \in Seq(Services) /\ Len(queue') <= QueueCap
    BY <1>3, <2>4 DEF OnStateChange, HealthInv, CheckerTypeOK
  <2>6. \A j \in DOMAIN queue' : queue'[j] \in Services
    BY <2>5, <1>0
  <2> QED
    BY <1>3, <2>1, <2>2, <2>5, <2>6 DEF OnStateChange, HealthInv, CheckerTypeOK, StopWaits, News
<1>4. CASE Start \/ Stop \/ StopReturns
  <2>1. CASE Start
    BY <2>1 DEF Start, HealthInv, CheckerTypeOK, StopWaits
  <2>2. CASE Stop
    BY <2>2 DEF Stop, HealthInv, CheckerTypeOK, StopWaits
  <2>3. CASE StopReturns
    BY <2>3 DEF StopReturns, HealthInv, CheckerTypeOK, StopWaits
  <2> QED
    BY <1>4, <2>1, <2>2, <2>3
<1>5. CASE SelectTick \/ SelectStop \/ CheckReturns \/ SweepEnds
  BY <1>5 DEF SelectTick, SelectStop, CheckReturns, SweepEnds, HealthInv, CheckerTypeOK, StopWaits
<1>6. CASE SelectImmediate
  <2>1. queue' \in Seq(Services) /\ Len(queue') <= QueueCap
    BY <1>6 DEF SelectImmediate, HealthInv, CheckerTypeOK
  <2>2. \A j \in DOMAIN queue' : queue'[j] \in Services
    BY <2>1, <1>0
  <2> QED
    BY <1>6, <2>1, <2>2 DEF SelectImmediate, HealthInv, CheckerTypeOK, StopWaits
<1>7. CASE ResetBreaker
  BY <1>7 DEF ResetBreaker, HealthInv, CheckerTypeOK, StopWaits
<1>8. ASSUME NEW s \in Services, Look(s) PROVE HealthInv'
  <2>1. CASE breaker[s] = "open" /\ s \in due
    <3>1. BreakerBecomes(s, "half-open")
      BY <1>8, <2>1 DEF Look
    <3>2. news' \in Seq(News) /\ Len(news') <= ListenerSem
      BY <3>1, QueuesBounded DEF BreakerBecomes
    <3>3. \A i \in DOMAIN news' : news'[i] \in News
      BY <3>2, <1>0
    <3> QED
      BY <1>8, <3>1, <3>2, <3>3 DEF Look, BreakerBecomes, HealthInv, CheckerTypeOK, StopWaits, News
  <2>2. CASE ~ (breaker[s] = "open" /\ s \in due)
    <3>1. UNCHANGED <<breaker, due, news>>
      BY <1>8, <2>2 DEF Look
    <3> QED
      BY <1>8, <3>1 DEF Look, HealthInv, CheckerTypeOK, StopWaits
  <2> QED
    BY <2>1, <2>2
<1>9. CASE UNCHANGED checkerVars
  BY <1>9 DEF checkerVars, HealthInv, CheckerTypeOK, StopWaits
<1> QED
  BY <1>1, <1>2, <1>3, <1>4, <1>5, <1>6, <1>7, <1>8, <1>9 DEF CheckerNext, Loop

LEMMA CheckerStarts == CheckerInit => HealthInv
<1> SUFFICES ASSUME CheckerInit PROVE HealthInv
  OBVIOUS
<1>1. <<>> \in Seq(News) /\ <<>> \in Seq(Services) /\ Len(<<>>) = 0 /\ DOMAIN <<>> = {}
  OBVIOUS
<1>2. news \in Seq(News) /\ queue \in Seq(Services) /\ Len(news) <= ListenerSem /\ Len(queue) <= QueueCap
      /\ DOMAIN news = {} /\ DOMAIN queue = {}
  BY <1>1, CheckerAssumption DEF CheckerInit
<1>3. CheckerTypeOK
  BY <1>2 DEF CheckerInit, CheckerTypeOK
<1> QED
  BY <1>2, <1>3 DEF CheckerInit, HealthInv, StopWaits

(* The queues of news stay within their bounds, for any services and       *)
(* capacities (dispatchStateChangeListener, OnStateChange).                *)
THEOREM CheckerTypeCorrect == CheckerSpec => []CheckerTypeOK
<1>1. HealthInv => CheckerTypeOK
  BY DEF HealthInv
<1> QED
  BY <1>1, CheckerStarts, CheckerSteps, PTL DEF CheckerSpec

(* Nothing is reset after a Stop that found the checker started has        *)
(* returned, wherever the loop was when it was called (Stop,               *)
(* healthCheckLoop).                                                       *)
THEOREM StopIsFinalHolds == CheckerSpec => StopIsFinal
<1>1. HealthInv => ~ResetAfterStop
  BY DEF HealthInv, StopWaits, ResetAfterStop, ResetBreaker
<1> QED
  BY <1>1, CheckerStarts, CheckerSteps, PTL DEF CheckerSpec, StopIsFinal

-----------------------------------------------------------------------------
(* The dispatcher's lifecycle.                                             *)

InDo == {"read", "cancelled", "closed"}

(* A run owns the loop only while the dispatcher counts as running.        *)
Owned == (\E r \in Runs : rpc[r] \in Owning) => running

(* What Stop read is cancelled before it closes the channel, and a run     *)
(* that is cancelled begins no more work.                                  *)
Silenced ==
    \A s \in Shutdowns :
      /\ spc[s] \in {"off", "do", "read"} => seen[s] = NoRun
      /\ spc[s] \in {"closed", "wait", "returned", "gaveup"} /\ seen[s] # NoRun => seen[s] \in cancelled

(* Who is inside stopOnce.Do, and that nobody registers meanwhile unless   *)
(* the calls overlap.                                                      *)
Inside ==
    /\ stopOnce = "busy" => \E s \in Shutdowns : spc[s] \in InDo
    /\ ~overlap => \A r \in Runs, s \in Shutdowns : ~ (rpc[r] = "called" /\ spc[s] \in InDo \cup {"do"})

LInv == LifecycleTypeOK /\ OneLoop /\ Owned /\ Silenced /\ QuietAfterShutdown /\ Inside /\ OnceIntact

(* The steps of a RunContext keep the invariant.                           *)
LEMMA RunSteps ==
    ASSUME LInv, NEW r \in Runs, CallRun(r) \/ RunStep(r) \/ CancelParent(r)
    PROVE  LInv'
<1> USE LifecycleAssumption DEF LInv, LifecycleTypeOK, RunStates, StopStates, Owning, InDo
<1>1. CASE CallRun(r)
  <2>1. LifecycleTypeOK' /\ OneLoop' /\ Owned' /\ Silenced' /\ QuietAfterShutdown'
    BY <1>1 DEF CallRun, Goto, OneLoop, Owned, Silenced, QuietAfterShutdown
  <2>2. Inside' /\ OnceIntact'
    BY <1>1 DEF CallRun, Goto, Inside, OnceIntact
  <2> QED
    BY <2>1, <2>2
<1>2. CASE RegisterRun(r)
  <2>1. LifecycleTypeOK'
    <3>1. CASE running
      BY <1>2, <3>1 DEF RegisterRun, Goto
    <3>2. CASE ~running
      BY <1>2, <3>2 DEF RegisterRun, Goto
    <3> QED
      BY <3>1, <3>2
  <2>4. OneLoop' /\ Owned'
    BY <1>2 DEF RegisterRun, Goto, OneLoop, Owned
  <2>2. Silenced' /\ QuietAfterShutdown'
    BY <1>2 DEF RegisterRun, Goto, Silenced, QuietAfterShutdown
  <2>3. Inside' /\ OnceIntact'
    BY <1>2 DEF RegisterRun, Goto, Inside, OnceIntact
  <2> QED
    BY <2>1, <2>2, <2>3, <2>4
<1>3. CASE BeginCycle(r) \/ EndCycle(r) \/ LoopStops(r) \/ LoopTicks(r)
  BY <1>3 DEF BeginCycle, EndCycle, LoopStops, LoopTicks, Goto, OneLoop, Owned, Silenced, QuietAfterShutdown, Inside,
              OnceIntact
<1>4. CASE DispatchAcrossTenants(r)
  <2>1. LifecycleTypeOK' /\ OneLoop' /\ Owned' /\ Silenced' /\ Inside' /\ OnceIntact'
    BY <1>4 DEF DispatchAcrossTenants, Goto, OneLoop, Owned, Silenced, Inside, OnceIntact
  <2>2. QuietAfterShutdown'
    BY <1>4 DEF DispatchAcrossTenants, Goto, Silenced, QuietAfterShutdown
  <2> QED
    BY <2>1, <2>2
<1>5. CASE ClearRun(r)
  BY <1>5 DEF ClearRun, Goto, OneLoop, Owned, Silenced, QuietAfterShutdown, Inside, OnceIntact
<1>6. CASE CancelParent(r)
  BY <1>6 DEF CancelParent, OneLoop, Owned, Silenced, QuietAfterShutdown, Inside, OnceIntact
<1> QED
  BY <1>1, <1>2, <1>3, <1>4, <1>5, <1>6 DEF RunStep

(* So do those of a Shutdown.                                              *)
LEMMA ShutdownSteps ==
    ASSUME LInv, NEW s \in Shutdowns, CallShutdown(s) \/ StopStep(s) \/ ShutdownGivesUp(s)
    PROVE  LInv'
<1> USE LifecycleAssumption DEF LInv, LifecycleTypeOK, RunStates, StopStates, Owning, InDo
<1>1. CASE CallShutdown(s)
  <2>1. LifecycleTypeOK' /\ OneLoop' /\ Owned' /\ Silenced' /\ QuietAfterShutdown'
    BY <1>1 DEF CallShutdown, SGoto, OneLoop, Owned, Silenced, QuietAfterShutdown
  <2>2. Inside' /\ OnceIntact'
    BY <1>1 DEF CallShutdown, SGoto, Inside, OnceIntact
  <2> QED
    BY <2>1, <2>2
<1>2. CASE StopOnceDo(s)
  BY <1>2 DEF StopOnceDo, SGoto, OneLoop, Owned, Silenced, QuietAfterShutdown, Inside, OnceIntact
<1>3. CASE StopReads(s)
  BY <1>3 DEF StopReads, SGoto, OneLoop, Owned, Silenced, QuietAfterShutdown, Inside, OnceIntact
<1>4. CASE StopCancels(s)
  <2>1. CASE seen[s] # NoRun /\ seen[s] \notin cancelled
    BY <1>4, <2>1 DEF StopCancels, SGoto, OneLoop, Owned, Silenced, QuietAfterShutdown, Inside, OnceIntact
  <2>2. CASE ~ (seen[s] # NoRun /\ seen[s] \notin cancelled)
    <3>1. spc' = [spc EXCEPT ![s] = "closed"] /\ spc[s] = "cancelled" /\ closed' = TRUE
          /\ UNCHANGED <<running, cancelFunc, stopOnce, cancelled, rpc, seen, corrupt, before, overlap>>
      BY <1>4, <2>2 DEF StopCancels, SGoto
    <3>2. LifecycleTypeOK' /\ OneLoop' /\ Owned' /\ Silenced' /\ QuietAfterShutdown'
      BY <2>2, <3>1 DEF OneLoop, Owned, Silenced, QuietAfterShutdown
    <3>3. Inside' /\ OnceIntact'
      BY <3>1 DEF Inside, OnceIntact
    <3> QED
      BY <3>2, <3>3
  <2> QED
    BY <2>1, <2>2
<1>5. CASE OnceDone(s)
  BY <1>5 DEF OnceDone, SGoto, OneLoop, Owned, Silenced, QuietAfterShutdown, Inside, OnceIntact
<1>6. CASE ShutdownReturns(s)
  BY <1>6 DEF ShutdownReturns, InCycle, SGoto, OneLoop, Owned, Silenced, QuietAfterShutdown, Inside, OnceIntact
<1>7. CASE ShutdownGivesUp(s)
  BY <1>7 DEF ShutdownGivesUp, SGoto, OneLoop, Owned, Silenced, QuietAfterShutdown, Inside, OnceIntact
<1> QED
  BY <1>1, <1>2, <1>3, <1>4, <1>5, <1>6, <1>7 DEF StopStep

(* One loop at a time, no work of a run that Stop found once Shutdown has  *)
(* returned, and a Once that is overwritten only when a Run and a Stop     *)
(* overlap, for any number of calls (registerRun, Stop, Shutdown).         *)
THEOREM OrderlyRunsHolds == LifecycleSpec => [](OrderlyRuns /\ OnceIntact)
<1>1. LifecycleInit => LInv
  BY LifecycleAssumption DEF LifecycleInit, LInv, LifecycleTypeOK, RunStates, StopStates, Owning, InDo, OneLoop, Owned,
     Silenced, QuietAfterShutdown, Inside, OnceIntact
<1>2. LInv /\ [LifecycleNext]_lifecycleVars => LInv'
  <2>1. CASE LifecycleNext
    BY <2>1, RunSteps, ShutdownSteps DEF LifecycleNext
  <2>2. CASE UNCHANGED lifecycleVars
    BY <2>2 DEF lifecycleVars, LInv, LifecycleTypeOK, OneLoop, Owned, Silenced, QuietAfterShutdown, Inside, OnceIntact
  <2> QED
    BY <2>1, <2>2
<1>3. LInv => OrderlyRuns /\ OnceIntact
  BY DEF LInv, OrderlyRuns
<1> QED
  BY <1>1, <1>2, <1>3, PTL DEF LifecycleSpec

-----------------------------------------------------------------------------
(* The server manager.                                                     *)

(* A stage begins when the drains of those before it are over.             *)
StagesInOrder ==
    \A s \in Servers :
      /\ stage = "serving" => drain[s] = "no"
      /\ stage = "drain" => (s \in {"grpc", "admin"} => drain[s] = "no")
      /\ stage = "grpc" => (s \in {"main", "extra"} => drain[s] = "over") /\ (s = "admin" => drain[s] = "no")
      /\ stage = "admin" => (s # "admin" => drain[s] = "over")
      /\ stage \in {"hooks", "telemetry", "done"} => drain[s] = "over"

(* What a drain has achieved.  A server other than fiber that was told to  *)
(* stop will not serve, and a fiber app has stopped listening or its budget*)
(* was used up; neither has requests unless its budget was.                *)
DrainAchieves ==
    \A s \in Servers :
      /\ s \in busy => gor[s] \in {"serving", "exited"}
      /\ drain[s] = "await" => Fiber(s)
      /\ ~Fiber(s) /\ drain[s] # "no" => gor[s] # "serving" /\ s \in refused
      /\ ~Fiber(s) /\ drain[s] = "over" => s \notin busy \/ s \in late
      /\ drain[s] = "await" /\ gor[s] \in {"exited", "failed"} /\ s \in busy => s \in late
      /\ Fiber(s) /\ drain[s] = "over" /\ s \notin late => gor[s] \in {"exited", "failed"} /\ s \notin busy

SInv == ServersTypeOK /\ StagesInOrder /\ DrainAchieves /\ StageWithinBudget

LEMMA ServersFinite == Cardinality(Servers) \in Nat
<1>1. IsFiniteSet({"main", "extra", "grpc", "admin"})
  <2>1. IsFiniteSet({"main"}) /\ IsFiniteSet({"extra"}) /\ IsFiniteSet({"grpc"}) /\ IsFiniteSet({"admin"})
    BY FS_Singleton
  <2>2. IsFiniteSet({"main"} \cup {"extra"}) /\ IsFiniteSet({"grpc"} \cup {"admin"})
    BY <2>1, FS_Union
  <2>3. IsFiniteSet(({"main"} \cup {"extra"}) \cup ({"grpc"} \cup {"admin"}))
    BY <2>2, FS_Union
  <2>4. ({"main"} \cup {"extra"}) \cup ({"grpc"} \cup {"admin"}) = {"main", "extra", "grpc", "admin"}
    OBVIOUS
  <2> QED
    BY <2>3, <2>4
<1>2. IsFiniteSet(Servers)
  BY <1>1, FS_Subset, ServersAssumption
<1> QED
  BY <1>2, FS_CardinalityType

(* Launches, requests and the beginning of the shutdown.                   *)
LEMMA ServingSteps ==
    ASSUME SInv, UNCHANGED mainKind,
           \/ Signal \/ StartupError
           \/ \E s \in Servers : Bind(s) \/ ((Arrive(s) \/ Answer(s)) /\ UNCHANGED startupErrors)
    PROVE  SInv'
<1> USE ServersAssumption, ServersFinite DEF SInv, ServersTypeOK
<1>1. CASE Signal \/ StartupError
  <2>1. stage = "serving" /\ stage' = "drain" /\ spent' = 0 /\ UNCHANGED <<gor, refused, busy, drain, late, hook>>
    BY <1>1 DEF Signal, StartupError, executeShutdown
  <2>2. startupErrors' \in 0 .. Cardinality(Servers)
    BY <1>1 DEF Signal, StartupError
  <2>3. Timeout \in Nat /\ MaxSpent \in Nat
    OBVIOUS
  <2>4. ServersTypeOK' /\ StageWithinBudget'
    BY <2>1, <2>2, <2>3 DEF StageWithinBudget
  <2>5. StagesInOrder'
    BY <2>1 DEF StagesInOrder
  <2>6. DrainAchieves'
    BY <2>1 DEF DrainAchieves, Fiber
  <2> QED
    BY <2>4, <2>5, <2>6
<1>2. ASSUME NEW s \in Servers, Bind(s) PROVE SInv'
  <2>1. ServersTypeOK' /\ StagesInOrder' /\ StageWithinBudget'
    BY <1>2 DEF Bind, ErrorRoom, StagesInOrder, StageWithinBudget
  <2>2. DrainAchieves'
    BY <1>2 DEF Bind, DrainAchieves, Fiber
  <2> QED
    BY <2>1, <2>2
<1>3. ASSUME NEW s \in Servers, Arrive(s) \/ Answer(s), UNCHANGED startupErrors PROVE SInv'
  <2>1. ServersTypeOK' /\ StagesInOrder' /\ StageWithinBudget'
    BY <1>3 DEF Arrive, Answer, StagesInOrder, StageWithinBudget
  <2>2. DrainAchieves'
    BY <1>3 DEF Arrive, Answer, DrainAchieves, Fiber
  <2> QED
    BY <2>1, <2>2
<1> QED
  BY <1>1, <1>2, <1>3

(* The drains.                                                             *)
LEMMA DrainSteps ==
    ASSUME SInv, UNCHANGED <<mainKind, startupErrors>>, NEW s \in Servers, DrainStep(s)
    PROVE  SInv'
<1> USE ServersAssumption, ServersFinite DEF SInv, ServersTypeOK
<1>0. \A f : Fiber(f)' <=> Fiber(f)
  BY DEF Fiber
<1>1. CASE BeginDrain(s)
  <2>1. ServersTypeOK' /\ StageWithinBudget'
    BY <1>1 DEF BeginDrain, StopListening, StageWithinBudget
  <2>2. StagesInOrder'
    BY <1>1 DEF BeginDrain, StopListening, StagesInOrder, Stage
  <2>3. DrainAchieves'
    BY <1>0, <1>1 DEF BeginDrain, StopListening, DrainAchieves
  <2> QED
    BY <2>1, <2>2, <2>3
<1>2. CASE Drained(s)
  <2>1. ServersTypeOK' /\ StageWithinBudget' /\ StagesInOrder'
    BY <1>2 DEF Drained, StageWithinBudget, StagesInOrder
  <2>2. DrainAchieves'
    BY <1>0, <1>2 DEF Drained, DrainAchieves
  <2> QED
    BY <2>1, <2>2
<1>3. CASE DrainTimesOut(s)
  <2>1. ServersTypeOK' /\ StageWithinBudget' /\ StagesInOrder'
    BY <1>3 DEF DrainTimesOut, StageWithinBudget, StagesInOrder
  <2>2. DrainAchieves'
    BY <1>0, <1>3 DEF DrainTimesOut, DrainAchieves
  <2> QED
    BY <2>1, <2>2
<1>4. CASE AwaitDone(s) \/ AwaitTimesOut(s)
  <2>0. /\ drain[s] = "await" /\ drain' = [drain EXCEPT ![s] = "over"]
        /\ late' \subseteq Servers /\ UNCHANGED <<stage, spent, gor, refused, busy, hook>>
    BY <1>4 DEF AwaitDone, AwaitTimesOut
  <2>1. ServersTypeOK' /\ StageWithinBudget' /\ StagesInOrder'
    BY <2>0 DEF StageWithinBudget, StagesInOrder
  <2>2. DrainAchieves'
    BY <1>0, <1>4 DEF AwaitDone, AwaitTimesOut, DrainAchieves
  <2> QED
    BY <2>1, <2>2
<1>5. CASE AwaitRetry(s)
  <2>1. ServersTypeOK' /\ StageWithinBudget' /\ StagesInOrder'
    BY <1>5 DEF AwaitRetry, StopListening, StageWithinBudget, StagesInOrder
  <2>2. DrainAchieves'
    BY <1>0, <1>5 DEF AwaitRetry, StopListening, DrainAchieves
  <2> QED
    BY <2>1, <2>2
<1> QED
  BY <1>1, <1>2, <1>3, <1>4, <1>5 DEF DrainStep

(* executeShutdown goes through its stages, and time passes only while a   *)
(* drain of the stage has something to wait for within the budget.         *)
LEMMA SequenceSteps ==
    ASSUME SInv, UNCHANGED <<mainKind, startupErrors>>, Sequence \/ Tick
    PROVE  SInv'
<1> USE ServersAssumption, ServersFinite DEF SInv, ServersTypeOK
<1>1. CASE StageEnds("drain", "grpc") \/ StageEnds("grpc", "admin") \/ StageEnds("admin", "hooks")
  <2>0. /\ stage' \in {"grpc", "admin", "hooks"} /\ spent' = 0
        /\ UNCHANGED <<gor, refused, busy, drain, late, hook>>
    BY <1>1 DEF StageEnds
  <2>1. ServersTypeOK' /\ StageWithinBudget'
    <3>1. Timeout \in Nat /\ MaxSpent \in Nat
      OBVIOUS
    <3> QED
      BY <2>0, <3>1 DEF StageWithinBudget
  <2>2. StagesInOrder'
    BY <1>1 DEF StageEnds, StagesInOrder, Stage
  <2>3. DrainAchieves'
    BY <1>1 DEF StageEnds, DrainAchieves, Fiber
  <2> QED
    BY <2>1, <2>2, <2>3
<1>2. CASE RunHook \/ ShutdownTelemetry \/ SyncLogger
  <2>1. /\ stage \in {"hooks", "telemetry"} /\ stage' \in {"hooks", "telemetry", "done"}
        /\ UNCHANGED <<spent, gor, refused, busy, drain, late>>
    BY <1>2 DEF RunHook, ShutdownTelemetry, SyncLogger
  <2>2. hook' \in 0 .. Hooks
    BY <1>2 DEF RunHook, ShutdownTelemetry, SyncLogger
  <2>3. ServersTypeOK' /\ StageWithinBudget'
    BY <2>1, <2>2 DEF StageWithinBudget
  <2>4. StagesInOrder'
    BY <2>1 DEF StagesInOrder
  <2>5. DrainAchieves'
    BY <2>1 DEF DrainAchieves, Fiber
  <2> QED
    BY <2>3, <2>4, <2>5
<1>3. CASE Tick
  <2>1. PICK s \in Servers : drain[s] # "over" /\ ~Pending(s)
    BY <1>3 DEF Tick
  <2>2. spent < Timeout
    BY <2>1 DEF Pending, AwaitExpires
  <2> QED
    BY <1>3, <2>2 DEF Tick, StagesInOrder, DrainAchieves, StageWithinBudget, Fiber
<1> QED
  BY <1>1, <1>2, <1>3 DEF Sequence

(* The staged shutdown, for any of the four servers, any budget and any    *)
(* number of hooks: traffic is drained before the admin app, no stage      *)
(* outlasts its budget, telemetry goes after every request but those of a  *)
(* server whose budget was used up, and nothing serves afterwards but a    *)
(* fiber app that was late (executeShutdown).                              *)
THEOREM OrderlyShutdownHolds == ServersSpec => []OrderlyShutdown
<1>1. ServersInit => SInv
  BY ServersAssumption, ServersFinite DEF ServersInit, SInv, ServersTypeOK, StagesInOrder, DrainAchieves, StageWithinBudget
<1>2. SInv /\ [ServersNext]_serverVars => SInv'
  <2>1. CASE ServersNext
    BY <2>1, ServingSteps, DrainSteps, SequenceSteps DEF ServersNext
  <2>2. CASE UNCHANGED serverVars
    BY <2>2 DEF serverVars, SInv, ServersTypeOK, StagesInOrder, DrainAchieves, StageWithinBudget, Fiber
  <2> QED
    BY <2>1, <2>2
<1>3. SInv => OrderlyShutdown
  <2> SUFFICES ASSUME SInv PROVE OrderlyShutdown
    OBVIOUS
  <2>1. AdminOutlivesTraffic
    BY ServersAssumption DEF SInv, ServersTypeOK, StagesInOrder, AdminOutlivesTraffic
  <2>2. DrainedBeforeTelemetry
    BY DEF SInv, ServersTypeOK, StagesInOrder, DrainAchieves, DrainedBeforeTelemetry
  <2>3. NothingServesAfterward
    BY DEF SInv, ServersTypeOK, StagesInOrder, DrainAchieves, NothingServesAfterward
  <2> QED
    BY <2>1, <2>2, <2>3 DEF SInv, OrderlyShutdown
<1> QED
  BY <1>1, <1>2, <1>3, PTL DEF ServersSpec

-----------------------------------------------------------------------------
(* All of it: what the run of MCStops checks as one invariant              *)
(* (executeShutdown, OnStateChange, registerRun, Shutdown, Go, Wait).      *)
THEOREM OrderlyStopsHolds == ServersSpec /\ CheckerSpec /\ LifecycleSpec /\ GroupsSpec => []OrderlyStops
<1>1. OrderlyShutdown /\ CheckerTypeOK /\ (OrderlyRuns /\ OnceIntact) /\ GroupsSound => OrderlyStops
  BY DEF OrderlyStops
<1> QED
  BY <1>1, OrderlyShutdownHolds, CheckerTypeCorrect, OrderlyRunsHolds, GroupsSoundHolds, PTL
=============================================================================
