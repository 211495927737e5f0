------------------------------ MODULE MCClocks ------------------------------
(***************************************************************************)
(* Parts driven by a clock, one of them running per behaviour: the Redis   *)
(* lock, the dispatcher's cycle and its list-failure counters, cron        *)
(* schedules, and the certificate manager.  They share no state; a part    *)
(* that does not run stays in one of its initial states.                   *)
(***************************************************************************)
EXTENDS RedisLock, Certificate, OutboxScheduler, Cron, TLC

CONSTANTS a, b, c, Default

VARIABLE focus

-----------------------------------------------------------------------------
(* The dispatcher.  No tenant, both in either order, a duplicate and a     *)
(* blank; a scope that leaves the listing and comes back.                  *)
Polls ==
    [tenants |-> {a, b}, fallback |-> NoScope, listings |-> {<<>>, <<a, b>>, <<b, Blank, b>>},
     dispatch |-> 1, cold |-> 2, sweep |-> 9, maxTime |-> 4]

(* A stable listing of three scopes, and one that shrinks.                 *)
Rotation ==
    [tenants |-> {a, b, c}, fallback |-> NoScope, listings |-> {<<a, b, c>>, <<a, c>>},
     dispatch |-> 1, cold |-> 1, sweep |-> 9, maxTime |-> 2]

(* One scope comes and goes, the other is only swept from the listing; the *)
(* fallback scope is swept when no tenant is listed.                       *)
Sweeps ==
    [tenants |-> {a, b}, fallback |-> Default, listings |-> {<<>>, <<a>>},
     dispatch |-> 3, cold |-> 3, sweep |-> 2, maxTime |-> 6]

ThreeConfigs == {Polls, Rotation, Sweeps}

-----------------------------------------------------------------------------
(* Cron expressions: every kind of part, in a calendar of two-minute hours,*)
(* three-hour days, two-day weeks and three months, the second of which is *)
(* a day longer every other year.                                          *)
Part(k, lo, hi, s) == [kind |-> k, lo |-> lo, hi |-> hi, stepped |-> s > 0, step |-> s]
Star      == {Part("star", 0, 0, 0)}
Every(s)  == {Part("star", 0, 0, s)}
At(v)     == {Part("value", v, 0, 0)}
After(v)  == {Part("value", v, 0, 1)}
To(x, y)  == {Part("range", x, y, 0)}
Odd(x, y) == {Part("range", x, y, 2)}
NoStep    == {[Part("star", 0, 0, 0) EXCEPT !.stepped = TRUE]}

CronTexts ==
    [minute : {Star, At(1)}, hour : {At(2), At(0) \cup After(2)}, dom : {Star, At(2), Odd(1, 3)},
     month : {Star, At(2)}, dow : {Star, At(2)}]
      \cup [minute : {After(0), Every(2), NoStep}, hour : {To(0, 1), To(2, 1)}, dom : {At(3)},
            month : {At(1) \cup At(3), Odd(2, 3)}, dow : {Star, To(1, 2)}]

MonthsOfTwoYears == <<0, 2, 3, 6, 8, 10, 13>>

(* Certificates that overlap: the next one is valid before the last one is *)
(* not.                                                                    *)
ValidAt(g) == 2 * g - 2 .. 2 * g + 1

-----------------------------------------------------------------------------
MCInit ==
    /\ focus \in {"lock", "cycle", "counters", "cron", "certificate"}
    /\ Init /\ CertificateInit /\ SchedulerInit /\ CountersInit /\ CronInit
    /\ focus # "lock" => \A p \in Procs : ~ctxDone[p]
    /\ focus # "cycle" => cfg = Polls
    /\ focus # "cron" => from = 0 /\ expr = CHOOSE e \in CronTexts : TRUE

MCNext ==
    /\ UNCHANGED focus
    /\ \/ focus = "lock" /\ Next /\ UNCHANGED <<schedulerVars, counterVars, cronVars, certVars>>
       \/ focus = "cycle" /\ SchedulerNext /\ UNCHANGED <<vars, counterVars, cronVars, certVars>>
       \/ focus = "counters" /\ CountersNext /\ UNCHANGED <<vars, schedulerVars, cronVars, certVars>>
       \/ focus = "cron" /\ CronNext /\ UNCHANGED <<vars, schedulerVars, counterVars, certVars>>
       \/ focus = "certificate" /\ CertificateNext /\ UNCHANGED <<vars, schedulerVars, counterVars, cronVars>>

MCSpec == MCInit /\ [][MCNext]_<<focus, vars, schedulerVars, counterVars, cronVars, certVars>>

Symmetry == Permutations(Procs)

-----------------------------------------------------------------------------
(* OutboxScheduler, cycle and counters: every listed scope is polled       *)
(* within its interval and leads a cycle in its turn; failures that repeat *)
(* are logged although the counters are capped (dispatchAcrossTenants,     *)
(* tenantDispatchScopeOrder, handleListPendingError).                      *)
NobodyIsForgotten == ServedInTime /\ RotationIsFair /\ CountersBounded /\ RepeatedFailuresLogged

(* OutboxScheduler: the sweep memory is pruned neither too early nor too   *)
(* late (claimRetentionSweep).                                             *)
SweepsAreRemembered == [][SweepIsRemembered]_schedulerVars
=============================================================================
