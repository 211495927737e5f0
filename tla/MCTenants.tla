----------------------------- MODULE MCTenants -----------------------------
(***************************************************************************)
(* The tenant manager's parts, one of them running per behaviour.          *)
(***************************************************************************)
EXTENDS TenantPools, TenantSettings, TenantClient, TenantLifecycle

CONSTANTS Foci,
          p1, p2, t1, t2, c1, c2, r1, r2

VARIABLE focus

(* Who repeats which call.  Each kind of call meets another one.           *)
MCErrands ==
    {[c \in Clients |-> IF c = p1 THEN pair[1] ELSE pair[2]] :
        pair \in {<<"config", "active">>, <<"principals", "create">>, <<"associate", "suspend">>,
                  <<"metadata", "reactivate">>, <<"suspend", "config">>}}

Manager(k, T, C, l, x) == [kind |-> k, tenants |-> T, callers |-> C, limit |-> l, closes |-> x, gate |-> TRUE]
IdleManager == Manager("postgres", {t1}, {c1, c2}, 0, TRUE)

(* Each manager with two callers of one tenant and a Close; with two       *)
(* tenants and room for one pool; and the ones with a gate without it.     *)
MCManagers ==
    {Manager(k, {t1}, {c1, c2}, 0, TRUE) : k \in {"postgres", "mongo", "rabbit"}}
        \cup {Manager(k, {t1, t2}, {c1, c2}, 1, FALSE) : k \in {"postgres", "mongo", "rabbit"}}
        \cup {[Manager(k, {t1}, {c1, c2}, 0, FALSE) EXCEPT !.gate = FALSE] : k \in {"postgres", "mongo"}}

(* The module asks for more than the cap and for a timeout Postgres        *)
(* refuses; the older, top-level settings leave the manager's default.     *)
MCModuleAsk == [limit |-> 3, timeout |-> "garbled"]
MCTopAsk == [limit |-> 0, timeout |-> "5s"]
MCAsks == {MCModuleAsk, MCTopAsk}

Scenario(w, R, E, T) == [wiring |-> w, requests |-> R, events |-> E, turns |-> T]
IdleCase == Scenario("internal", {r1}, {"rotated"}, {"expire"})

MCCases ==
    {IdleCase,
     Scenario("internal", {r1, r2}, {}, {"close", "fail"}),
     Scenario("internal", {r1}, {"invalidate", "touched"}, {"fail"}),
     Scenario("internal", {r1}, {"associated", "reactivated", "serviceSuspended"}, {"suspend"}),
     Scenario("internal", {r1, r2}, {}, {"stop"}),
     Scenario("injected", {r1}, {"suspended"}, {"suspend", "break"}),
     Scenario("injected", {r1}, {"rotated", "touched"}, {"checker", "expire"}),
     Scenario("http", {r1, r2}, {"suspended"}, {"suspend", "expire"})}

(* An event that stops the consumer between two requests that start it.    *)
InjectedCases == {Scenario("injected", {r1, r2}, {"serviceSuspended"}, {"suspend"})}

MCInit ==
    /\ focus \in Foci
    /\ Init /\ (focus # "pools" => mgr = IdleManager /\ open = {})
    /\ SettingsInit /\ config.module = MCModuleAsk /\ config.top = MCTopAsk
    /\ focus # "settings" =>
         default = 1 /\ config = [primary |-> CHOOSE d \in DSNs : TRUE, replica |-> NoDSN, module |-> MCModuleAsk,
                   hasModule |-> TRUE, top |-> MCTopAsk]
    /\ LifecycleInit
    /\ focus # "lifecycle" => case = CHOOSE c \in Cases : TRUE
    /\ ClientInit
    /\ registry.halted => registry.association = "active"
    /\ focus # "client" => errand = (CHOOSE e \in Errands : TRUE) /\ ~registry.known

MCNext ==
    /\ UNCHANGED focus
    /\ \/ focus = "pools" /\ Next /\ UNCHANGED <<svars, lvars, cvars>>
       \/ focus = "settings" /\ SettingsNext /\ UNCHANGED <<vars, lvars, cvars>>
       \/ focus = "lifecycle" /\ LifecycleNext /\ UNCHANGED <<vars, svars, cvars>>
       \/ focus = "client" /\ ClientNext /\ UNCHANGED <<vars, svars, lvars>>

(* The fairness of the parts, of the one that runs.                        *)
MCSpec ==
    /\ MCInit /\ [][MCNext]_<<focus, vars, svars, lvars, cvars>>
    /\ \A c \in AllCallers : WF_vars(focus = "pools" /\ c \in Callers /\ CallerStep(c))
    /\ \A g \in Revals : WF_vars(focus = "pools" /\ RevalStep(g))
    /\ WF_vars(focus = "pools" /\ CloserStep)
    /\ \A p \in Everybody : WF_lvars(focus = "lifecycle" /\ p \in Procs /\ Step(p))
    /\ \A c \in Clients : WF_cvars(focus = "client" /\ clientStep(c))
    /\ WF_cvars(focus = "client" /\ Lapses)

(* TenantLifecycle: one consumer per tenant unless StopConsumer is called, *)
(* and an invalidation no load overlaps leaves nothing stale in the caches *)
(* of the dispatcher (EnsureConsumerStarted, removeTenant).  TenantClient: *)
(* the breaker opens on failures of the service alone, and whoever is told *)
(* that a write took effect is told the truth (recordFailure,              *)
(* handleStateTransitionStatus).                                           *)
LifecycleSound == ConsumerSound /\ ClientSound

(* Every call of a connection manager, of the consumer and of the          *)
(* dispatcher ends, and so does Close; a client whose answers were lost    *)
(* learns the outcome by repeating its call, and its breaker closes again. *)
TenantCallsEnd ==
    []<>(PoolsQuiet /\ LifecycleQuiet /\ (focus = "client" => ClientSettled))
=============================================================================
