--------------------------- MODULE ServerShutdown ---------------------------
(***************************************************************************)
(* ServerManager: up to four servers launched in goroutines of their own,  *)
(* and the shutdown sequence that drains them in stages, each under a      *)
(* budget, while launches may still be on their way to their sockets and   *)
(* requests may hang.  The servers (fiber, net/http, grpc) are external.   *)
(***************************************************************************)
EXTENDS Naturals, FiniteSets

CONSTANTS
    Servers,     \* configured ones, of "main", "extra", "grpc" and "admin"
    Timeout,     \* shutdownTimeout
    Hooks,       \* number of shutdown hooks
    MaxSpent     \* bound: longest stage explored, beyond Timeout

(* validateConfiguration.                                                  *)
ASSUME ServersAssumption ==
    /\ Servers \subseteq {"main", "extra", "grpc", "admin"} /\ Servers # {}
    /\ {Timeout, Hooks, MaxSpent} \subseteq Nat

VARIABLES
    mainKind,   \* the main HTTP server is a "fiber" app or a "stdlib" server
    stage,      \* of the shutdown: "serving", "drain", "grpc", "admin", "hooks", "telemetry" or "done"
    spent,      \* time since the stage's budget began
    startupErrors,  \* errors waiting in the channel of that name
    gor,        \* each launch goroutine: "launched", "serving", "exited" or "failed"
    refused,    \* stdlib and grpc servers told to stop: a later Serve returns at once
    busy,       \* servers with a request in flight
    drain,      \* each drain: "no", "asked", "await" or "over"
    late,       \* servers whose drain ran out of budget
    hook        \* hooks run

serverVars == <<mainKind, stage, spent, startupErrors, gor, refused, busy, drain, late, hook>>

Fiber(s) == s = "admin" \/ (s = "main" /\ mainKind = "fiber")

ServersTypeOK ==
    /\ mainKind \in {"fiber", "stdlib"} /\ startupErrors \in 0 .. Cardinality(Servers)
    /\ spent \in 0 .. MaxSpent /\ hook \in 0 .. Hooks
    /\ stage \in {"serving", "drain", "grpc", "admin", "hooks", "telemetry", "done"}
    /\ gor \in [Servers -> {"launched", "serving", "exited", "failed"}]
    /\ refused \subseteq Servers /\ busy \subseteq Servers /\ late \subseteq Servers
    /\ drain \in [Servers -> {"no", "asked", "await", "over"}]

ServersInit ==
    /\ mainKind \in {"fiber", "stdlib"} /\ startupErrors = 0
    /\ stage = "serving" /\ spent = 0
    /\ gor = [s \in Servers |-> "launched"]
    /\ refused = {} /\ busy = {} /\ late = {}
    /\ drain = [s \in Servers |-> "no"] /\ hook = 0

-----------------------------------------------------------------------------
(* initServers makes the channel wide enough for every launch to fail.     *)
ErrorRoom == Cardinality(Servers)

(* The launch goroutine reaches its socket: it serves, fails, or finds     *)
(* that its server was already told to stop.  A failure is sent without    *)
(* blocking, whether handleShutdown is receiving or not.                   *)
Bind(s) ==
    /\ gor[s] = "launched"
    /\ \/ s \notin refused /\ gor' = [gor EXCEPT ![s] = "serving"] /\ UNCHANGED startupErrors
       \/ s \in refused /\ gor' = [gor EXCEPT ![s] = "exited"] /\ UNCHANGED startupErrors
       \/ /\ gor' = [gor EXCEPT ![s] = "failed"]
          /\ startupErrors' = IF startupErrors < ErrorRoom THEN startupErrors + 1 ELSE startupErrors
    /\ UNCHANGED <<stage, spent, refused, busy, drain, late, hook>>

Arrive(s) ==
    /\ gor[s] = "serving" /\ s \notin busy /\ busy' = busy \cup {s}
    /\ UNCHANGED <<stage, spent, gor, refused, drain, late, hook>>

Answer(s) ==
    /\ s \in busy /\ busy' = busy \ {s}
    /\ UNCHANGED <<stage, spent, gor, refused, drain, late, hook>>

executeShutdown == stage' = "drain" /\ spent' = 0

(* handleShutdown: a signal or the shutdown channel, ...                   *)
Signal ==
    /\ stage = "serving" /\ executeShutdown
    /\ UNCHANGED <<startupErrors, gor, refused, busy, drain, late, hook>>

(* ... or the first startup error.                                         *)
StartupError ==
    /\ stage = "serving" /\ startupErrors > 0
    /\ startupErrors' = startupErrors - 1 /\ executeShutdown
    /\ UNCHANGED <<gor, refused, busy, drain, late, hook>>

-----------------------------------------------------------------------------
(* Where executeShutdown drains a server: the two HTTP servers together,   *)
(* then grpc, the admin app last.                                          *)
Stage(s) == CASE s \in {"main", "extra"} -> "drain" [] s = "grpc" -> "grpc" [] s = "admin" -> "admin"

(* The servers' own shutdown calls.  Fiber's does nothing to an app whose  *)
(* Listen has not registered its socket yet.                               *)
StopListening(s) ==
    /\ gor' = IF gor[s] = "serving" THEN [gor EXCEPT ![s] = "exited"] ELSE gor
    /\ refused' = IF Fiber(s) THEN refused ELSE refused \cup {s}

(* shutdownFiberApp, shutdownStdlibServer and GracefulStop begin.  The     *)
(* additional server's drain is a goroutine of its own.                    *)
BeginDrain(s) ==
    /\ stage = Stage(s) /\ drain[s] = "no"
    /\ StopListening(s)
    /\ drain' = [drain EXCEPT ![s] = IF Fiber(s) /\ gor[s] = "launched" THEN "await" ELSE "asked"]
    /\ UNCHANGED <<stage, spent, busy, late, hook>>

(* Requests are over in time; a fiber drain then waits for Listen.         *)
Drained(s) ==
    /\ drain[s] = "asked" /\ s \notin busy
    /\ drain' = [drain EXCEPT ![s] = IF Fiber(s) THEN "await" ELSE "over"]
    /\ UNCHANGED <<stage, spent, gor, refused, busy, late, hook>>

(* Past the budget net/http is closed and grpc stopped.  That takes their  *)
(* connections away and cancels the contexts of their requests; a handler  *)
(* runs on until it returns, as one of a fiber app does, and nobody waits. *)
DrainTimesOut(s) ==
    /\ drain[s] = "asked" /\ spent >= Timeout /\ s \in busy
    /\ drain' = [drain EXCEPT ![s] = IF Fiber(s) THEN "await" ELSE "over"]
    /\ late' = late \cup {s}
    /\ UNCHANGED <<stage, spent, gor, refused, busy, hook>>

(* Mutant: the listen goroutine is not waited for.                         *)
AwaitNothing(s) ==
    /\ drain[s] = "await"
    /\ drain' = [drain EXCEPT ![s] = "over"]
    /\ UNCHANGED <<stage, spent, gor, refused, busy, late, hook>>

(* awaitFiberListenExit: the goroutine returned.                           *)
AwaitDone(s) ==
    /\ drain[s] = "await" /\ gor[s] \in {"exited", "failed"}
    /\ drain' = [drain EXCEPT ![s] = "over"]
    /\ UNCHANGED <<stage, spent, gor, refused, busy, late, hook>>

(* Its retry: Shutdown again, which drains what was accepted meanwhile.    *)
AwaitRetry(s) ==
    /\ drain[s] = "await" /\ gor[s] = "serving"
    /\ StopListening(s)
    /\ drain' = [drain EXCEPT ![s] = "asked"]
    /\ UNCHANGED <<stage, spent, busy, late, hook>>

AwaitExpires(s) == spent >= Timeout

AwaitTimesOut(s) ==
    /\ drain[s] = "await" /\ AwaitExpires(s)
    /\ drain' = [drain EXCEPT ![s] = "over"] /\ late' = late \cup {s}
    /\ UNCHANGED <<stage, spent, gor, refused, busy, hook>>

-----------------------------------------------------------------------------
(* executeShutdown goes on when the servers of the stage are over.         *)
StageEnds(from, to) ==
    /\ stage = from
    /\ \A s \in Servers : Stage(s) = from => drain[s] = "over"
    /\ stage' = to /\ spent' = 0
    /\ UNCHANGED <<gor, refused, busy, drain, late, hook>>

(* A hook returns, fails or panics: the next one runs all the same.        *)
RunHook ==
    /\ stage = "hooks" /\ hook < Hooks /\ hook' = hook + 1
    /\ UNCHANGED <<stage, spent, gor, refused, busy, drain, late>>

ShutdownTelemetry ==
    /\ stage = "hooks" /\ hook = Hooks /\ stage' = "telemetry"
    /\ UNCHANGED <<spent, gor, refused, busy, drain, late, hook>>

SyncLogger ==
    /\ stage = "telemetry" /\ stage' = "done"
    /\ UNCHANGED <<spent, gor, refused, busy, drain, late, hook>>

DrainStep(s) ==
    BeginDrain(s) \/ Drained(s) \/ DrainTimesOut(s) \/ AwaitDone(s) \/ AwaitRetry(s) \/ AwaitTimesOut(s)

Sequence ==
    \/ StageEnds("drain", "grpc") \/ StageEnds("grpc", "admin") \/ StageEnds("admin", "hooks")
    \/ RunHook \/ ShutdownTelemetry \/ SyncLogger

(* The code has something to do for a server of the running stage.         *)
Pending(s) ==
    \/ drain[s] = "no"
    \/ drain[s] = "asked" /\ (s \notin busy \/ spent >= Timeout)
    \/ drain[s] = "await" /\ (gor[s] # "launched" \/ AwaitExpires(s))

(* Timers are counted in units beside which the code's own steps take no   *)
(* time: the clock moves while every drain of the stage is waiting.        *)
Tick ==
    /\ spent < MaxSpent
    /\ \E s \in Servers : Stage(s) = stage /\ drain[s] # "over"
    /\ \A s \in Servers : Stage(s) = stage => ~Pending(s)
    /\ spent' = spent + 1
    /\ UNCHANGED <<stage, gor, refused, busy, drain, late, hook>>

ServersNext ==
    /\ UNCHANGED mainKind
    /\ \/ \E s \in Servers : Bind(s)
       \/ Signal \/ StartupError
       \/ /\ UNCHANGED startupErrors
          /\ \/ \E s \in Servers : Arrive(s) \/ Answer(s) \/ DrainStep(s)
             \/ Sequence \/ Tick

ServersSpec == ServersInit /\ [][ServersNext]_serverVars

(* Goroutines are scheduled, timers fire and hooks return; requests need   *)
(* not, and sockets may never be reached.                                  *)
ServersFairness ==
    /\ \A s \in Servers : WF_serverVars(DrainStep(s) /\ UNCHANGED <<mainKind, startupErrors>>)
    /\ WF_serverVars(Sequence /\ UNCHANGED <<mainKind, startupErrors>>)
    /\ WF_serverVars(Tick /\ UNCHANGED <<mainKind, startupErrors>>)
    /\ WF_serverVars(StartupError /\ UNCHANGED mainKind)

-----------------------------------------------------------------------------
(* The admin app answers probes until every other server is drained: its   *)
(* own drain begins after theirs are over.                                 *)
AdminOutlivesTraffic ==
    "admin" \in Servers /\ drain["admin"] # "no"
      => \A s \in Servers \ {"admin"} : drain[s] = "over"

(* However shutdown raced startup: when it is done no server serves, and   *)
(* none that is still on its way to its socket will, except a fiber app    *)
(* that did not get there within the whole budget.                         *)
NothingServesAfterward ==
    stage = "done" =>
      \A s \in Servers :
        gor[s] \in {"exited", "failed"} \/ (gor[s] = "launched" /\ s \in refused)
        \/ (Fiber(s) /\ s \in late)

(* No stage takes longer than one budget, shared by the two HTTP servers,  *)
(* whatever hangs; waiting for the listen goroutine adds no second one.    *)
StageWithinBudget ==
    stage \in {"drain", "grpc", "admin"} => spent <= Timeout

(* Telemetry is torn down after the requests: those still running then are *)
(* of a server that was given its whole budget, and of no other.           *)
DrainedBeforeTelemetry ==
    stage \in {"hooks", "telemetry", "done"} => busy \subseteq late

(* Shutdown ends although requests never do, and a server that fails to    *)
(* start takes the process through it.                                     *)
ShutdownQuiet ==
    stage = "done" \/ (stage = "serving" /\ \A s \in Servers : gor[s] # "failed")

(* The whole sequence of executeShutdown: traffic before admin, every      *)
(* stage within its budget, requests before telemetry and nothing left     *)
(* serving, with the types.                                                *)
OrderlyShutdown ==
    ServersTypeOK /\ AdminOutlivesTraffic /\ StageWithinBudget /\ DrainedBeforeTelemetry
           /\ NothingServesAfterward
=============================================================================
