------------------------ MODULE DispatcherLifecycle ------------------------
(***************************************************************************)
(* Run, Stop and Shutdown of one outbox dispatcher, called from several    *)
(* goroutines.  The loop, the stop channel, the sync.Once around closing   *)
(* it, the run's cancel function and the wait group of in-flight cycles    *)
(* are modelled step by step: the mutex runStateMu protects only parts of  *)
(* each call.                                                              *)
(***************************************************************************)
EXTENDS FiniteSets, Naturals

CONSTANTS
    Runs,        \* calls of RunContext
    Shutdowns,   \* calls of Shutdown (each calls Stop first)
    NoRun

ASSUME LifecycleAssumption == NoRun \notin Runs

VARIABLES
    running,    \* dispatcher.running
    cancelFunc, \* the run whose cancel function is stored, or NoRun
    closed,     \* the current dispatcher.stop channel is closed
    stopOnce,       \* dispatcher.stopOnce: "fresh", "busy" or "done"
    cancelled,  \* runs whose context is cancelled
    rpc,        \* where each RunContext call is
    spc,        \* where each Shutdown call is
    seen,       \* the cancel function read by the Shutdown's Stop
    corrupt,    \* stopOnce was overwritten while a goroutine was inside Do
    before,     \* history: runs called before this Shutdown was called
    overlap     \* history: a Run was called during a Stop, or a Stop during
                \* the call of a Run that had not registered yet

lifecycleVars == <<running, cancelFunc, closed, stopOnce, cancelled, rpc, spc, seen, corrupt, before, overlap>>

RunStates  == {"off", "called", "registered", "enter", "work", "loop", "checked",
               "leaving", "done"}
StopStates == {"off", "do", "read", "cancelled", "closed", "wait", "returned",
               "gaveup"}

(* The run owns the loop: between registerRun and clearRun.                *)
Owning == {"registered", "enter", "work", "loop", "checked", "leaving"}

(* dispatchWg: cycles between Add(1) and Done().                           *)
InCycle(r) == rpc[r] \in {"enter", "work"}

LifecycleTypeOK ==
    /\ running \in BOOLEAN
    /\ cancelFunc \in Runs \cup {NoRun}
    /\ closed \in BOOLEAN
    /\ stopOnce \in {"fresh", "busy", "done"}
    /\ cancelled \subseteq Runs
    /\ rpc \in [Runs -> RunStates]
    /\ spc \in [Shutdowns -> StopStates]
    /\ seen \in [Shutdowns -> Runs \cup {NoRun}]
    /\ corrupt \in BOOLEAN
    /\ before \in [Shutdowns -> SUBSET Runs]
    /\ overlap \in BOOLEAN

LifecycleInit ==
    /\ running = FALSE /\ cancelFunc = NoRun
    /\ closed = FALSE /\ stopOnce = "fresh"
    /\ cancelled = {}
    /\ rpc = [r \in Runs |-> "off"]
    /\ spc = [s \in Shutdowns |-> "off"]
    /\ seen = [s \in Shutdowns |-> NoRun]
    /\ corrupt = FALSE
    /\ before = [s \in Shutdowns |-> {}]
    /\ overlap = FALSE

-----------------------------------------------------------------------------
(* RunContext.                                                             *)
Goto(r, to) == rpc' = [rpc EXCEPT ![r] = to]

CallRun(r) ==
    /\ rpc[r] = "off"
    /\ Goto(r, "called")
    /\ overlap' = (overlap \/ \E s \in Shutdowns : spc[s] \notin {"off", "wait", "returned", "gaveup"})
    /\ UNCHANGED <<running, cancelFunc, closed, stopOnce, cancelled, spc, seen, corrupt, before>>

(* Mutant: a restart keeps the closed stop channel and the used Once.      *)
RegisterRunKeepsOnce(r) ==
    /\ rpc[r] = "called"
    /\ IF running
         THEN Goto(r, "done") /\ UNCHANGED <<running, cancelFunc, closed>>
         ELSE /\ Goto(r, "registered")
              /\ running' = TRUE /\ cancelFunc' = r /\ closed' = FALSE
    /\ UNCHANGED <<cancelled, stopOnce, spc, seen, corrupt, before, overlap>>

(* registerRun, under runStateMu.  A channel closed by an earlier Stop is  *)
(* replaced and stopOnce starts afresh; overwriting it while a goroutine   *)
(* is still inside Do leaves the Once in an undefined state.               *)
RegisterRun(r) ==
    /\ rpc[r] = "called"
    /\ IF running
         THEN /\ Goto(r, "done")                  \* ErrOutboxDispatcherRunning
              /\ cancelled' = cancelled \cup {r}
              /\ UNCHANGED <<running, cancelFunc, closed, stopOnce, corrupt>>
         ELSE /\ Goto(r, "registered")
              /\ running' = TRUE
              /\ cancelFunc' = r
              /\ closed' = FALSE
              /\ stopOnce' = IF closed THEN "fresh" ELSE stopOnce
              /\ corrupt' = (corrupt \/ (closed /\ stopOnce = "busy"))
              /\ UNCHANGED cancelled
    /\ UNCHANGED <<spc, seen, before, overlap>>

(* dispatchWg.Add(1) of the initial cycle or of a tick.                    *)
BeginCycle(r) ==
    /\ rpc[r] \in {"registered", "checked"}
    /\ Goto(r, "enter")
    /\ UNCHANGED <<running, cancelFunc, closed, stopOnce, cancelled, spc, seen, corrupt, before, overlap>>

(* dispatchAcrossTenants does nothing stopOnce the context is cancelled.       *)
DispatchAcrossTenants(r) ==
    /\ rpc[r] = "enter"
    /\ Goto(r, IF r \in cancelled THEN "loop" ELSE "work")
    /\ UNCHANGED <<running, cancelFunc, closed, stopOnce, cancelled, spc, seen, corrupt, before, overlap>>

(* The cycle ends, by return or recovered panic; Done() runs either way.   *)
EndCycle(r) ==
    /\ rpc[r] = "work"
    /\ Goto(r, "loop")
    /\ UNCHANGED <<running, cancelFunc, closed, stopOnce, cancelled, spc, seen, corrupt, before, overlap>>

(* select: the stop channel or the context ends the loop; a tick may be    *)
(* chosen too, and then both are looked at again before the next cycle.    *)
LoopStops(r) ==
    /\ rpc[r] = "loop"
    /\ closed \/ r \in cancelled
    /\ Goto(r, "leaving")
    /\ UNCHANGED <<running, cancelFunc, closed, stopOnce, cancelled, spc, seen, corrupt, before, overlap>>

LoopTicks(r) ==
    /\ rpc[r] = "loop"
    /\ ~ closed /\ r \notin cancelled
    /\ Goto(r, "checked")
    /\ UNCHANGED <<running, cancelFunc, closed, stopOnce, cancelled, spc, seen, corrupt, before, overlap>>

(* The parent context is cancelled.                                        *)
CancelParent(r) ==
    /\ rpc[r] \in Owning \ {"leaving"}
    /\ r \notin cancelled
    /\ cancelled' = cancelled \cup {r}
    /\ UNCHANGED <<running, cancelFunc, closed, stopOnce, rpc, spc, seen, corrupt, before, overlap>>

ClearRun(r) ==
    /\ rpc[r] = "leaving"
    /\ Goto(r, "done")
    /\ running' = FALSE
    /\ cancelFunc' = NoRun
    /\ UNCHANGED <<closed, stopOnce, cancelled, spc, seen, corrupt, before, overlap>>

-----------------------------------------------------------------------------
(* Shutdown: Stop, then dispatchWg.Wait().                                 *)
SGoto(s, to) == spc' = [spc EXCEPT ![s] = to]

CallShutdown(s) ==
    /\ spc[s] = "off"
    /\ SGoto(s, "do")
    /\ before' = [before EXCEPT ![s] = {r \in Runs : rpc[r] # "off"}]
    /\ overlap' = (overlap \/ \E r \in Runs : rpc[r] = "called")
    /\ UNCHANGED <<running, cancelFunc, closed, stopOnce, cancelled, rpc, seen, corrupt>>

(* stopOnce.Do: the first caller runs the function, callers during it      *)
(* block, later ones return at stopOnce.                                       *)
StopOnceDo(s) ==
    /\ spc[s] = "do"
    /\ \/ /\ stopOnce = "fresh"
          /\ stopOnce' = "busy"
          /\ SGoto(s, "read")
       \/ /\ stopOnce = "done"
          /\ SGoto(s, "wait")
          /\ UNCHANGED stopOnce
    /\ UNCHANGED <<running, cancelFunc, closed, cancelled, rpc, seen, corrupt, before, overlap>>

(* Under runStateMu: read the cancel function and the channel.             *)
StopReads(s) ==
    /\ spc[s] = "read"
    /\ seen' = [seen EXCEPT ![s] = cancelFunc]
    /\ SGoto(s, "cancelled")
    /\ UNCHANGED <<running, cancelFunc, closed, stopOnce, cancelled, rpc, corrupt, before, overlap>>

(* cancel(), then close(stop).                                             *)
StopCancels(s) ==
    /\ spc[s] = "cancelled"
    /\ IF seen[s] # NoRun /\ seen[s] \notin cancelled
         THEN cancelled' = cancelled \cup {seen[s]} /\ UNCHANGED <<closed, spc>>
         ELSE closed' = TRUE /\ SGoto(s, "closed") /\ UNCHANGED cancelled
    /\ UNCHANGED <<running, cancelFunc, stopOnce, rpc, seen, corrupt, before, overlap>>

(* Do returns: the Once is done.                                           *)
OnceDone(s) ==
    /\ spc[s] = "closed"
    /\ stopOnce' = "done"
    /\ SGoto(s, "wait")
    /\ UNCHANGED <<running, cancelFunc, closed, cancelled, rpc, seen, corrupt, before, overlap>>

(* dispatchWg.Wait() returns when no cycle is in flight.                   *)
ShutdownReturns(s) ==
    /\ spc[s] = "wait"
    /\ \A r \in Runs : ~ InCycle(r)
    /\ SGoto(s, "returned")
    /\ UNCHANGED <<running, cancelFunc, closed, stopOnce, cancelled, rpc, seen, corrupt, before, overlap>>

(* The caller's context ends first: Shutdown returns an error.             *)
ShutdownGivesUp(s) ==
    /\ spc[s] = "wait"
    /\ SGoto(s, "gaveup")
    /\ UNCHANGED <<running, cancelFunc, closed, stopOnce, cancelled, rpc, seen, corrupt, before, overlap>>

RunStep(r) ==
    \/ RegisterRun(r) \/ BeginCycle(r) \/ DispatchAcrossTenants(r) \/ EndCycle(r)
    \/ LoopStops(r) \/ LoopTicks(r) \/ ClearRun(r)

StopStep(s) ==
    \/ StopOnceDo(s) \/ StopReads(s) \/ StopCancels(s) \/ OnceDone(s)
    \/ ShutdownReturns(s)

(* After the Once is corrupted the runtime aborts the process.             *)
LifecycleNext ==
    /\ ~ corrupt
    /\ \/ \E r \in Runs : CallRun(r) \/ RunStep(r) \/ CancelParent(r)
       \/ \E s \in Shutdowns : CallShutdown(s) \/ StopStep(s) \/ ShutdownGivesUp(s)

LifecycleSpec == LifecycleInit /\ [][LifecycleNext]_lifecycleVars

(* Goroutines that can run do run, and cycles end; a WaitGroup releases    *)
(* its waiters whenever its counter drops to zero, even if a cycle starts  *)
(* right after.                                                            *)
LifecycleFairness ==
    /\ \A r \in Runs : WF_lifecycleVars(RunStep(r) /\ ~corrupt)
    /\ \A s \in Shutdowns :
         WF_lifecycleVars(StopStep(s) /\ ~corrupt) /\ SF_lifecycleVars(ShutdownReturns(s) /\ ~corrupt)

FairLifecycle == LifecycleSpec /\ LifecycleFairness

-----------------------------------------------------------------------------
(* At most one call of RunContext owns the loop, whatever the order of     *)
(* runs, stops and restarts (registerRun, clearRun).                       *)
OneLoop ==
    \A r1, r2 \in Runs : rpc[r1] \in Owning /\ rpc[r2] \in Owning => r1 = r2

(* Once Shutdown has returned, a run that Stop found registered does no    *)
(* more dispatch work, although its loop may still be between its last     *)
(* check of the channel and dispatchWg.Add(1).                             *)
QuietAfterShutdown ==
    \A s \in Shutdowns, r \in Runs :
      spc[s] = "returned" /\ seen[s] = r => rpc[r] # "work"

(* "RunContext starts the dispatcher loop until Stop is called or ctx is   *)
(* cancelled" (dispatcher.go): a run called before the Stop ends.          *)
StopIsHeeded ==
    \A s \in Shutdowns, r \in Runs :
      (spc[s] = "returned" /\ r \in before[s]) ~> (rpc[r] = "done" \/ corrupt)

(* A run that Stop found registered ends its loop.  Callers that let a run *)
(* register before they stop it and let Stop return before they run again, *)
(* as TestDispatcher_RunContext_CanRestartAfterShutdown does, see every run*)
(* end that was called before the Stop; and Shutdown returns.              *)
LifecycleQuiet ==
    corrupt \/ \A s \in Shutdowns :
        /\ spc[s] \in {"off", "returned", "gaveup"}
        /\ seen[s] # NoRun => rpc[seen[s]] = "done"
        /\ spc[s] = "returned" => overlap \/ \A r \in before[s] : rpc[r] = "done"

(* For these callers, a run never overwrites the sync.Once that a Stop is  *)
(* still inside of.                                                        *)
OnceIntact == corrupt => overlap

(* One loop at a time, and a quiet one after Shutdown, with the types      *)
(* (registerRun, RunContext, Shutdown).                                    *)
OrderlyRuns == LifecycleTypeOK /\ OneLoop /\ QuietAfterShutdown
=============================================================================
