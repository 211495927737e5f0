------------------------------ MODULE RateLimit ------------------------------
(***************************************************************************)
(* The HTTP rate limiter on Redis, for one key (tier, identity, tenant): a *)
(* fixed window counted by one Lua script that increments, sets the expiry *)
(* on the first hit and repairs a missing one, and a middleware that turns *)
(* count and remaining life into a verdict and a Retry-After.  The same    *)
(* keys are open to the storage's own Set, Delete and Reset (a scan, then  *)
(* a delete) and Redis may answer late: the request was counted and the    *)
(* middleware sees an error.                                               *)
(*                                                                         *)
(* A request is one step: the script is atomic and nothing the middleware  *)
(* does around it touches shared state.  Time is a clock in ticks.         *)
(***************************************************************************)
EXTENDS Integers, Sequences, FiniteSets

CONSTANTS
    RateSetups,     \* [enabled, failOpen, tier, foreign: others may touch the key]
    TierNames,      \* tier names a TierFunc may come up with
    Limit, Window,
    MaxCount,   \* bound on the counter
    MaxLogged,  \* maxLoggedMisconfiguredTiers
    MaxClock

ASSUME RateAssumption == Limit \in Nat \ {0} /\ Window \in Nat \ {0} /\ MaxLogged \in Nat /\ MaxClock \in Nat

VARIABLES
    setup, ticks,
    counter,    \* the key: [count, until]; count 0 when absent
    scanned,    \* a Reset has seen the key and not yet deleted it
    admitted,   \* history: the latest requests let through, [at, until] (~foreign)
    promised,   \* history: when a refused client was told to come back
    last,       \* history: verdict of the last request
    logged, saturated, lines    \* the misconfiguration log

rateVars == <<setup, ticks, counter, scanned, admitted, promised, last,
           logged, saturated, lines>>

Never  == MaxClock + Window + 1
noKey  == [count |-> 0, until |-> 0]
logs   == <<logged, saturated, lines>>

RateLimitInit ==
    /\ setup \in RateSetups /\ ticks = 0
    /\ counter = noKey /\ scanned = FALSE
    /\ admitted = <<>>
    /\ promised = 0 /\ last = "none"
    /\ logged = {} /\ saturated = FALSE /\ lines = 0

(* Redis drops the key when its time has come.                             *)
RateLimitTick ==
    /\ ticks < MaxClock /\ ticks' = ticks + 1
    /\ counter' = IF counter.until <= ticks + 1 THEN noKey ELSE counter
    /\ promised' = IF promised <= ticks + 1 THEN 0 ELSE promised
    /\ UNCHANGED <<setup, scanned, admitted, last, logs>>

-----------------------------------------------------------------------------
(* Mutant: a key that lost its expiry is left without one.                 *)
withoutRepair == [count |-> counter.count + 1,
                  until |-> IF counter.count = 0 THEN ticks + Window ELSE counter.until]

(* luaIncrExpire.                                                          *)
incremented == [count |-> counter.count + 1,
                until |-> IF counter.count = 0 \/ counter.until = Never
                            THEN ticks + Window ELSE counter.until]

(* increment: the remaining life, a negative answer read as a full window. *)
ttl(k) == IF k.until = Never THEN Window ELSE k.until - ticks

(* History: when a request was let through and by a counter of which life; *)
(* no more of them are kept than the property looks at.                    *)
admission == [at |-> ticks, until |-> incremented.until]
latest(s) == IF Len(s) > 2 * Limit + 1 THEN Tail(s) ELSE s

(* check: the request is counted and judged.                               *)
check ==
    /\ setup.enabled /\ setup.tier = "ok" /\ counter.count < MaxCount
    /\ counter' = incremented
    /\ IF incremented.count <= Limit
         THEN /\ last' = "allowed" /\ UNCHANGED promised
              /\ admitted' = IF setup.foreign THEN admitted ELSE latest(Append(admitted, admission))
         ELSE /\ last' = "limited" /\ UNCHANGED admitted
              /\ promised' = ticks + ttl(incremented)
    /\ UNCHANGED <<setup, ticks, scanned, logs>>

(* handleRedisError: before the script ran, or after it; a context without *)
(* a valid tenant is refused whatever the policy.                          *)
handleRedisError ==
    /\ setup.enabled /\ setup.tier = "ok" /\ counter.count < MaxCount
    /\ counter' \in {counter, incremented}
    /\ last' = IF setup.failOpen THEN "unchecked" ELSE "unavailable"
    /\ UNCHANGED <<setup, ticks, scanned, admitted, promised, logs>>

invalidTenant ==
    /\ setup.enabled /\ setup.tier = "ok"
    /\ last' = "badTenant"
    /\ UNCHANGED <<setup, ticks, counter, scanned, admitted, promised, logs>>

(* New returned nil: the handler passes everything on.                     *)
passThrough ==
    /\ ~setup.enabled /\ last' = "unchecked"
    /\ UNCHANGED <<setup, ticks, counter, scanned, admitted, promised, logs>>

(* misconfiguredTierHandler: always a refusal, logged once per name until  *)
(* the set is full (misconfiguredTierLogDecision).                         *)
misconfiguredTier(n) ==
    /\ setup.enabled /\ setup.tier # "ok"
    /\ last' = "misconfigured"
    /\ IF n \in logged THEN UNCHANGED logs
       ELSE IF Cardinality(logged) >= MaxLogged
         THEN /\ saturated' = TRUE /\ UNCHANGED logged
              /\ lines' = lines + IF saturated THEN 0 ELSE 1
         ELSE logged' = logged \cup {n} /\ lines' = lines + 1 /\ UNCHANGED saturated
    /\ UNCHANGED <<setup, ticks, counter, scanned, admitted, promised>>

-----------------------------------------------------------------------------
(* The storage interface on the same key.                                  *)
Touched == promised' = 0

Set(n, until) ==
    /\ setup.foreign
    /\ counter' = [count |-> n, until |-> until] /\ Touched
    /\ UNCHANGED <<setup, ticks, scanned, admitted, last, logs>>

Delete ==
    /\ setup.foreign /\ counter' = noKey /\ Touched
    /\ UNCHANGED <<setup, ticks, scanned, admitted, last, logs>>

(* Reset scans a batch ...                                                 *)
ResetScans ==
    /\ setup.foreign /\ ~scanned /\ counter.count > 0 /\ scanned' = TRUE
    /\ UNCHANGED <<setup, ticks, counter, admitted, promised, last, logs>>

(* ... and deletes what it saw, or what is there under that name by now.   *)
ResetDeletes ==
    /\ scanned /\ scanned' = FALSE /\ counter' = noKey /\ Touched
    /\ UNCHANGED <<setup, ticks, admitted, last, logs>>

RateLimitNext ==
    \/ RateLimitTick \/ check \/ handleRedisError \/ invalidTenant \/ passThrough
    \/ \E n \in TierNames : misconfiguredTier(n)
    \/ \E n \in {1, Limit}, u \in {ticks + 1, Never} : Set(n, u)
    \/ Delete \/ ResetScans \/ ResetDeletes

RateLimitSpec == RateLimitInit /\ [][RateLimitNext]_rateVars

-----------------------------------------------------------------------------
(* What the limiter promises.  While nobody else writes its keys, one      *)
(* counter admits at most Limit requests and any span of one window at     *)
(* most twice that; whoever writes them, a refused client that comes back  *)
(* when Retry-After said finds no counter of the life that refused it (a   *)
(* key that lost its expiry does not lock it out for good); and the        *)
(* misconfiguration log stays bounded.                                     *)
RateLimitSound ==
    /\ ~setup.foreign =>
         /\ counter.count > 0 =>
              \A i \in 1 .. Len(admitted) - Limit : admitted[i].at < counter.until - Window
         /\ \A i \in 1 .. Len(admitted) - 2 * Limit : admitted[i + 2 * Limit].at >= admitted[i].at + Window
    /\ promised > 0 /\ counter.count > 0 => counter.until <= promised
    /\ lines <= MaxLogged + 1
=============================================================================
