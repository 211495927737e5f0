------------------------------ MODULE MCStops ------------------------------
(***************************************************************************)
(* What runs until it is stopped, one per behaviour: the server manager,   *)
(* the circuit breaker's health checker, the outbox dispatcher's loop, and *)
(* groups of goroutines (errgroup, the app launcher).  They share no       *)
(* state, and those that do not run stand in an initial state.             *)
(***************************************************************************)
EXTENDS ServerShutdown, HealthChecker, DispatcherLifecycle, Groups, TLC

VARIABLE focus

Group(kind, a, b, c, heeds, unusable, asOption) ==
    [kind |-> kind, outcome |-> ("a" :> a) @@ ("b" :> b) @@ ("c" :> c), heeds |-> heeds,
     unusable |-> unusable, asOption |-> asOption]

(* Tasks that fail, panic or return, one of them only once the context is  *)
(* cancelled; a launcher whose apps are fine, one with an app it cannot    *)
(* take as an option, one with such an app given to Add.                   *)
OneFails == Group("errgroup", "ok", "ok", "error", {}, {}, {})

ThreeTasks ==
    {OneFails, Group("errgroup", "error", "panic", "error", {"c"}, {}, {}),
     Group("errgroup", "error", "ok", "error", {"c"}, {}, {}),
     Group("launcher", "error", "panic", "ok", {}, {}, {"a", "b"}),
     Group("launcher", "error", "panic", "ok", {}, {"b"}, {"a", "b"}),
     Group("launcher", "error", "panic", "ok", {}, {"c"}, {"a", "b"})}

-----------------------------------------------------------------------------
MCInit ==
    /\ focus \in {"servers", "checker", "dispatcher", "groups"}
    /\ ServersInit /\ (focus # "servers" => mainKind = "fiber")
    /\ CheckerInit /\ (focus # "checker" => breaker = [s \in Services |-> "closed"])
    /\ LifecycleInit
    /\ GroupsInit /\ (focus # "groups" => group = OneFails)

(* Calls that are alike are numbered in the order in which they are made.  *)
InOrder == (rpc["r1"] = "off" => rpc["r2"] = "off") /\ (spc["s1"] = "off" => spc["s2"] = "off")

MCNext ==
    /\ UNCHANGED focus
    /\ \/ focus = "servers" /\ ServersNext /\ UNCHANGED <<checkerVars, lifecycleVars, gvars>>
       \/ focus = "checker" /\ CheckerNext /\ UNCHANGED <<serverVars, lifecycleVars, gvars>>
       \/ focus = "dispatcher" /\ LifecycleNext /\ InOrder' /\ UNCHANGED <<serverVars, checkerVars, gvars>>
       \/ focus = "groups" /\ GroupsNext /\ UNCHANGED <<serverVars, checkerVars, lifecycleVars>>

(* Functions handed to a group return, those that heed the context once it *)
(* is cancelled.  The other parts have nothing to do unless they run.      *)
GroupsFairness ==
    /\ WF_gvars(focus = "groups" /\ callerStep)
    /\ \A t \in Tasks : WF_gvars(focus = "groups" /\ taskStep(t))

MCSpec ==
    /\ MCInit /\ [][MCNext]_<<focus, serverVars, checkerVars, lifecycleVars, gvars>>
    /\ ServersFairness /\ CheckerFairness /\ LifecycleFairness /\ GroupsFairness

-----------------------------------------------------------------------------
(* ServerShutdown: traffic is drained before the admin app, every stage    *)
(* within its budget, and nothing serves afterwards (executeShutdown).     *)
(* HealthChecker: both queues stay within their bounds (OnStateChange).    *)
(* DispatcherLifecycle: one loop at a time, quiet after Shutdown           *)
(* (registerRun, Shutdown).  Groups: the error returned is the one that    *)
(* cancelled the rest, and no goroutine outlives Wait (Go, Wait).          *)
OrderlyStops ==
    OrderlyShutdown /\ CheckerTypeOK /\ OrderlyRuns /\ OnceIntact /\ GroupsSound

(* Every shutdown ends: that of the servers, begun by a signal or a failed *)
(* launch, although requests hang; that of the health checker in the midst *)
(* of a sweep; that of the dispatcher, with the runs it must end; and a    *)
(* group of goroutines once one of them fails (executeShutdown, Stop,      *)
(* Shutdown, Wait, RunWithError).                                          *)
StopsEnd ==
    []<>(/\ focus = "servers" => ShutdownQuiet
         /\ focus = "checker" => CheckerQuiet
         /\ focus = "dispatcher" => LifecycleQuiet
         /\ focus = "groups" => GroupsQuiet)

(* A registered service that stays up does not stay cut off, though its    *)
(* timeout never comes and every notice of it was dropped: the sweep finds *)
(* it (healthCheckLoop, performHealthChecks).                              *)
HealsEventually ==
    \A s \in Services : <>[]Recovered(s) => <>[]~CutOff(s)
=============================================================================
