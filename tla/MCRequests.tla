----------------------------- MODULE MCRequests -----------------------------
(***************************************************************************)
(* The parts a request meets on its way, one of them running per behaviour:*)
(* the idempotency middleware, its heartbeat and the headers of a replay,  *)
(* rate limiting, outbound pacing, keyset pages, circuit breakers, and the *)
(* Redis and database clients behind them.  They share no state: a part    *)
(* stays in an initial state while another runs.                           *)
(***************************************************************************)
EXTENDS Idempotency, CircuitBreaker, ReplayHeaders, RateLimit, Pacing, RedisClient, DatabaseClients,
        Migrations, Paging, Integers, Sequences, TLC

CONSTANTS r1, r2, r3, same, other

VARIABLE focus

-----------------------------------------------------------------------------
(* Two requests with the same payload and one with another, all under the  *)
(* same key.  Leases lapse under running handlers and failures free the    *)
(* key; a lease that holds with failures fenced; fail open.                *)
TwoAlike == (r1 :> same) @@ (r2 :> same) @@ (r3 :> other)

ThreeModes ==
    {[failClosed |-> TRUE, fenceOnError |-> FALSE, leaseHolds |-> FALSE],
     [failClosed |-> TRUE, fenceOnError |-> TRUE, leaseHolds |-> TRUE],
     [failClosed |-> FALSE, fenceOnError |-> TRUE, leaseHolds |-> FALSE]}

(* The middlewares above write another value on each request.              *)
AboveWrites(request) == IF request = 1 THEN "one" ELSE "two"

-----------------------------------------------------------------------------
RateSetup(e, open, t, x) == [enabled |-> e, failOpen |-> open, tier |-> t, foreign |-> x]

(* Fail closed; fail open with a foreign writer; switched off; a tier that *)
(* is not configured.                                                      *)
FourSetups ==
    {RateSetup(TRUE, FALSE, "ok", FALSE), RateSetup(TRUE, TRUE, "ok", TRUE),
     RateSetup(FALSE, TRUE, "ok", FALSE), RateSetup(TRUE, TRUE, "invalid", FALSE)}

(* One caller paced by its tenant, one by its tenant and its integration.  *)
CallBuckets == [a |-> {"t"}, b |-> {"t", "i"}]
BucketRates == [t |-> {0, 2, 4}, i |-> {2}]

(* Ties in the sort column.                                                *)
SortValue == [r \in 1 .. 6 |-> r \div 3]

LongAndShort == {1 .. 5, {2, 4}}

-----------------------------------------------------------------------------
(* A tenant scope beside the process-wide one; consecutive failures trip.  *)
TwoScopes ==
    [tenants |-> {"t1"}, maxRequests |-> 2, consecutive |-> 2, minRequests |-> 0, num |-> 1, den |-> 2,
     interval |-> FALSE, maxBreakers |-> 3, maxCalls |-> 2, maxGen |-> 1]

(* One scope; a ratio trips, counts are forgotten, MaxRequests is 0.       *)
Ratio ==
    [tenants |-> {}, maxRequests |-> 0, consecutive |-> 0, minRequests |-> 2, num |-> 3, den |-> 4,
     interval |-> TRUE, maxBreakers |-> 2, maxCalls |-> 3, maxGen |-> 1]

TwoWaysToTrip == {TwoScopes, Ratio}

-----------------------------------------------------------------------------
Calls(x, y) == [a |-> x, b |-> y]

(* Two goroutines of a Postgres client with and without a replica or with  *)
(* pools that were handed to it, and of a MongoDB client.                  *)
Databases ==
    [kind : {"replicated"}, plan : {Calls("connect", "resolve"), Calls("read", "close"),
                                     Calls("connect", "close"), Calls("resolve", "resolve")}]
      \cup [kind : {"single", "injected"}, plan : {Calls("read", "close"), Calls("connect", "close")}]
      \cup [kind : {"mongo"}, plan : {Calls("indexes", "close"), Calls("connect", "indexes"),
                                     Calls("resolve", "close"), Calls("connect", "resolve")}]

Ships(s, m) == [source |-> s, allowMissing |-> m]

(* A rolling deploy of a newer version, two instances of one version, and  *)
(* instances without migrations beside one that has them.                  *)
Deployments ==
    {[x |-> Ships(1 .. 2, FALSE), y |-> Ships(1 .. 3, FALSE)],
     [x |-> Ships(1 .. 3, FALSE), y |-> Ships(1 .. 3, FALSE)],
     [x |-> Ships({}, FALSE), y |-> Ships(1 .. 2, TRUE)],
     [x |-> Ships({}, TRUE), y |-> Ships(1 .. 3, FALSE)]}

-----------------------------------------------------------------------------
Parts == {"requests", "heartbeat", "breaker", "headers", "ratelimit", "pacing", "redis", "database", "migrations", "paging"}

everything == <<vars, beatVars, breakerVars, headerVars, rateVars, pacingVars, rvars, dvars, mvars, pageVars>>

MCInit ==
    /\ focus \in Parts
    /\ Init /\ (focus # "requests" => rec = Absent /\ LeaseHolds)
    /\ HeartbeatInit
    /\ BreakerInit /\ (focus # "breaker" => cfg = Ratio)
    /\ HeadersInit
    /\ RateLimitInit /\ (focus # "ratelimit" => setup = RateSetup(TRUE, FALSE, "ok", FALSE))
    /\ PacingInit /\ (focus # "pacing" => rate = [t |-> 2, i |-> 2])
    /\ RedisInit /\ (focus # "redis" => iam)
    /\ DatabaseInit /\ (focus # "database" => db = [kind |-> "single", plan |-> Calls("read", "close")])
    /\ PagingInit /\ (focus # "paging" => rows = {2, 4} /\ family = "id" /\ order = "unset" /\ limit = 2)
    /\ MigrationsInit
    /\ (focus # "migrations" => version = 0 /\ deploy = [x |-> Ships(1 .. 3, FALSE), y |-> Ships(1 .. 3, FALSE)])

others(part) ==
    /\ part # "requests" => UNCHANGED vars
    /\ part # "heartbeat" => UNCHANGED beatVars
    /\ part # "breaker" => UNCHANGED breakerVars
    /\ part # "headers" => UNCHANGED headerVars
    /\ part # "ratelimit" => UNCHANGED rateVars
    /\ part # "pacing" => UNCHANGED pacingVars
    /\ part # "redis" => UNCHANGED rvars
    /\ part # "database" => UNCHANGED dvars
    /\ part # "migrations" => UNCHANGED mvars
    /\ part # "paging" => UNCHANGED pageVars

MCNext ==
    /\ UNCHANGED focus
    /\ \/ focus = "requests" /\ Next
       \/ focus = "heartbeat" /\ HeartbeatNext
       \/ focus = "breaker" /\ BreakerNext
       \/ focus = "headers" /\ HeadersNext
       \/ focus = "ratelimit" /\ RateLimitNext
       \/ focus = "pacing" /\ PacingNext
       \/ focus = "redis" /\ RedisNext
       \/ focus = "database" /\ DatabaseNext
       \/ focus = "migrations" /\ MigrationsNext
       \/ focus = "paging" /\ PagingNext
    /\ others(focus)

MCSpec == MCInit /\ [][MCNext]_<<focus, everything>>

Symmetry == Permutations({r1, r2}) \cup Permutations(Callers)

-----------------------------------------------------------------------------
(* RateLimit and Pacing: no window lets through more than its limit, nobody*)
(* is sent away for longer than a window, and permits to call are issued   *)
(* at least their interval apart although the Redis clock goes back (check,*)
(* evaluate).                                                              *)
LimitsHold == RateLimitSound /\ PermitsAreSpaced

(* RedisClient, DatabaseClients and Migrations: no client or pool is left  *)
(* open that nobody uses, no refresh loop acts on a connection it was not  *)
(* started for, a read that its context cut short is not a success, and    *)
(* migrations an instance reports as done are applied without a gap        *)
(* (applyTokenAndReconnect, Connect, Close, RunReadOnly, Up).              *)
ClientsSound == RedisClientSound /\ DatabaseSound /\ MigrationsSound
=============================================================================
