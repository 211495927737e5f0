------------------------------- MODULE Groups -------------------------------
(***************************************************************************)
(* Goroutines under one wait group: errgroup.Group, whose first error or   *)
(* panic is recorded errOnce and cancels the others, and the Launcher, which  *)
(* runs the registered apps side by side and returns when all have ended,  *)
(* whatever became of them.                                                *)
(***************************************************************************)
EXTENDS Integers, FiniteSets

CONSTANTS
    Tasks,
    GroupSetups \* [kind: errgroup | launcher, outcome: task -> ok | error | panic,
                \*  heeds: tasks that end when the context does,
                \*  unusable: apps that are nil or nameless, asOption: apps given as RunApp]

ASSUME GroupsAssumption ==
    /\ "none" \notin Tasks
    /\ GroupSetups \subseteq
         [kind : {"errgroup", "launcher"}, outcome : [Tasks -> {"ok", "error", "panic"}],
          heeds : SUBSET Tasks, unusable : SUBSET Tasks, asOption : SUBSET Tasks]

VARIABLES
    group,
    task,       \* task -> new | added | configError | left | running | failed | once | recorded | ended
    errOnce,       \* errOnce: free | held | done
    err,        \* grp.err: the task whose error was recorded
    ctxDone,    \* the group's context is cancelled
    waiter,     \* calling | waiting | returned | refused
    firstFailure    \* history: the first task to fail

gvars == <<group, task, errOnce, err, ctxDone, waiter, firstFailure>>

noTask == "none"

GroupsInit ==
    /\ group \in GroupSetups
    /\ task = [t \in Tasks |-> "new"]
    /\ errOnce = "free" /\ err = noTask /\ ctxDone = FALSE /\ waiter = "calling"
    /\ firstFailure = {}

errgroup == group.kind = "errgroup"

(* Go: the counter is raised before the goroutine starts, so starting is   *)
(* the caller's step; Wait is called when all are started.                 *)
Go(t) ==
    /\ errgroup /\ waiter = "calling" /\ task[t] = "new"
    /\ task' = [task EXCEPT ![t] = "running"]
    /\ UNCHANGED <<group, errOnce, err, ctxDone, waiter, firstFailure>>

Wait ==
    /\ errgroup /\ waiter = "calling" /\ \A t \in Tasks : task[t] # "new"
    /\ waiter' = "waiting"
    /\ UNCHANGED <<group, task, errOnce, err, ctxDone, firstFailure>>

(* An app that cannot be added: as an option of NewLauncher its error is   *)
(* kept for RunWithError; Add itself only returns it.                      *)
RunApp(t) ==
    /\ ~errgroup /\ t \in group.asOption /\ waiter = "calling" /\ task[t] = "new"
    /\ task' = [task EXCEPT ![t] = IF t \in group.unusable THEN "configError" ELSE "added"]
    /\ UNCHANGED <<group, errOnce, err, ctxDone, waiter, firstFailure>>

Add(t) ==
    /\ ~errgroup /\ t \notin group.asOption /\ waiter = "calling" /\ task[t] = "new"
    /\ \A u \in group.asOption : task[u] # "new"
    /\ task' = [task EXCEPT ![t] = IF t \in group.unusable THEN "left" ELSE "added"]
    /\ UNCHANGED <<group, errOnce, err, ctxDone, waiter, firstFailure>>

(* RunWithError: refused when an option failed, else all that were added   *)
(* start, and the counter is raised by their number.                       *)
RunWithError ==
    /\ ~errgroup /\ waiter = "calling" /\ \A t \in Tasks : task[t] # "new"
    /\ IF \E t \in Tasks : task[t] = "configError"
         THEN waiter' = "refused" /\ UNCHANGED task
         ELSE waiter' = "waiting" /\ task' = [t \in Tasks |-> IF task[t] = "added" THEN "running" ELSE task[t]]
    /\ UNCHANGED <<group, errOnce, err, ctxDone, firstFailure>>

-----------------------------------------------------------------------------
(* The function returns or panics; one that heeds the context only then.   *)
ends(t) ==
    /\ task[t] = "running" /\ (t \in group.heeds => ctxDone)
    /\ LET fails == errgroup /\ group.outcome[t] # "ok"
       IN  /\ task' = [task EXCEPT ![t] = IF fails THEN "failed" ELSE "ended"]
           /\ firstFailure' = IF fails /\ firstFailure = {} THEN {t} ELSE firstFailure
    /\ UNCHANGED <<group, errOnce, err, ctxDone, waiter>>

(* errOnce.Do: only one gets in, the rest wait until it is out.            *)
admitted == errOnce = "free"
entersOnce(t) ==
    /\ task[t] = "failed" /\ errOnce # "held"
    /\ IF admitted THEN errOnce' = "held" /\ task' = [task EXCEPT ![t] = "once"]
                   ELSE task' = [task EXCEPT ![t] = "ended"] /\ UNCHANGED errOnce
    /\ UNCHANGED <<group, err, ctxDone, waiter, firstFailure>>

records(t) ==
    /\ task[t] = "once" /\ err' = t /\ task' = [task EXCEPT ![t] = "recorded"]
    /\ UNCHANGED <<group, errOnce, ctxDone, waiter, firstFailure>>

cancels(t) ==
    /\ task[t] = "recorded" /\ ctxDone' = TRUE /\ errOnce' = "done"
    /\ task' = [task EXCEPT ![t] = "ended"]
    /\ UNCHANGED <<group, err, waiter, firstFailure>>

(* The wait is over when every goroutine is; Wait then cancels.            *)
waitReturns ==
    /\ waiter = "waiting" /\ \A t \in Tasks : task[t] \in {"ended", "left"}
    /\ waiter' = "returned" /\ ctxDone' = (ctxDone \/ errgroup)
    /\ UNCHANGED <<group, task, errOnce, err, firstFailure>>

GroupsNext ==
    \/ Wait \/ RunWithError \/ waitReturns
    \/ \E t \in Tasks : Go(t) \/ RunApp(t) \/ Add(t) \/ ends(t) \/ entersOnce(t) \/ records(t) \/ cancels(t)

GroupsSpec == GroupsInit /\ [][GroupsNext]_gvars

taskStep(t) == ends(t) \/ entersOnce(t) \/ records(t) \/ cancels(t)
callerStep  == Wait \/ RunWithError \/ waitReturns \/ \E t \in Tasks : Go(t) \/ RunApp(t) \/ Add(t)

-----------------------------------------------------------------------------
(* Wait and RunWithError return when all goroutines have ended, and no app *)
(* runs if an option of the launcher was refused; the error Wait returns   *)
(* is set if and only if one failed, and is the error whose recording      *)
(* cancelled the context, not that of a task the cancellation made fail.   *)
GroupsSound ==
    /\ waiter = "returned" => \A t \in Tasks : task[t] \in {"ended", "left"}
    /\ ~errgroup /\ (\E t \in Tasks : task[t] \in {"running", "ended"}) =>
         \A t \in group.unusable : t \notin group.asOption
    /\ waiter = "returned" /\ errgroup => ctxDone /\ (err # noTask <=> firstFailure # {})
    /\ err # noTask => err \notin group.heeds

(* A started group comes to an end: a failure reaches even tasks that only *)
(* end when the context is cancelled.                                      *)
GroupsQuiet == waiter \in {"returned", "refused"}
=============================================================================
