--------------------------- MODULE TenantDiscovery ---------------------------
(***************************************************************************)
(* Two caches that decide, before any query, whether a tenant's outbox is  *)
(* looked at: tablePresenceGuard (does the tenant's database have the      *)
(* outbox table?) and ColumnResolver (which tenants have rows to           *)
(* dispatch?, coalesced by a singleflight).  Both are read and filled by   *)
(* several dispatchers without a lock across the query, and a wrong answer *)
(* is silent: the tenant is skipped.  How long can it be skipped?          *)
(*                                                                         *)
(* One clock, in ticks.  Values carry the tick they were read in.          *)
(***************************************************************************)
EXTENDS Integers

CONSTANTS
    Readers,
    Kinds,          \* which cache the instance uses: "presence", "discovery"
    TTL,            \* defaultTablePresenceTTL, defaultTenantDiscoveryTTL
    QueryTimeout,   \* defaultTenantDiscoveryTimeout
    MaxClock

ASSUME DiscoveryAssumption ==
    /\ Kinds \subseteq {"presence", "discovery"}
    /\ TTL \in Nat /\ QueryTimeout \in Nat /\ "none" \notin Readers

VARIABLES
    kind, clock,
    cache,      \* [set, known: the tick it was read in, until]
    flight,     \* the singleflight: [leader, since, known], leader "none" if idle
    look        \* each caller: [pc, now, known]

qvars == <<kind, clock, cache, flight, look>>

grounded == [leader |-> "none", since |-> 0, known |-> 0]
resting  == [pc |-> "idle", now |-> 0, known |-> 0]

DiscoveryInit ==
    /\ kind \in Kinds /\ clock = 0
    /\ cache = [set |-> FALSE, known |-> 0, until |-> 0]
    /\ flight = grounded
    /\ look = [c \in Readers |-> resting]

(* A discovery query does not outlive its timeout; it errors in time.      *)
Tick ==
    /\ clock < MaxClock
    /\ flight.leader # "none" => clock < flight.since + QueryTimeout
    /\ clock' = clock + 1
    /\ UNCHANGED <<kind, cache, flight, look>>

cached == cache.set /\ clock < cache.until

becomes(c, r) == look' = [look EXCEPT ![c] = r]

(* The caller got an answer read in tick k, and uses it at once.           *)
Served(c, k) == becomes(c, [pc |-> "served", now |-> clock, known |-> k])

Rests(c) ==
    /\ look[c].pc \in {"served", "failed"}
    /\ becomes(c, resting) /\ UNCHANGED <<kind, clock, cache, flight>>

-----------------------------------------------------------------------------
(* tablePresenceGuard.present: the clock is read first, then the cache.    *)
present(c) ==
    /\ kind = "presence" /\ look[c].pc = "idle"
    /\ IF cached THEN Served(c, cache.known)
                 ELSE becomes(c, [pc |-> "probing", now |-> clock, known |-> 0])
    /\ UNCHANGED <<kind, clock, cache, flight>>

(* newTablePresenceProbe: to_regclass answers.                             *)
Probes(c) ==
    /\ look[c].pc = "probing"
    /\ becomes(c, [look[c] EXCEPT !.pc = "storing", !.known = clock])
    /\ UNCHANGED <<kind, clock, cache, flight>>

(* ... or fails: the entry is deleted, whoever put it there.               *)
ProbeFails(c) ==
    /\ look[c].pc = "probing"
    /\ cache' = [cache EXCEPT !.set = FALSE]
    /\ becomes(c, [resting EXCEPT !.pc = "failed"])
    /\ UNCHANGED <<kind, clock, flight>>

(* The entry lives from before the probe.                                  *)
expires(c) == look[c].now + TTL

(* The prober itself goes on with what it saw.                             *)
StoresPresence(c) ==
    /\ look[c].pc = "storing"
    /\ cache' = [set |-> TRUE, known |-> look[c].known, until |-> expires(c)]
    /\ becomes(c, resting)
    /\ UNCHANGED <<kind, clock, flight>>

-----------------------------------------------------------------------------
(* ColumnResolver.DiscoverTenants: the cache ...                           *)
DiscoverTenants(c) ==
    /\ kind = "discovery" /\ look[c].pc = "idle"
    /\ IF cached THEN Served(c, cache.known) ELSE becomes(c, [resting EXCEPT !.pc = "missed"])
    /\ UNCHANGED <<kind, clock, cache, flight>>

(* ... then sfGroup.Do: the flight of whoever is querying by now, or one's *)
(* own.                                                                    *)
JoinsFlight(c) ==
    /\ look[c].pc = "missed"
    /\ becomes(c, [resting EXCEPT !.pc = "flying"])
    /\ flight' = IF flight.leader = "none"
                   THEN [grounded EXCEPT !.leader = c, !.since = clock] ELSE flight
    /\ UNCHANGED <<kind, clock, cache>>

(* The leader looks again, under the flight ...                            *)
LooksAgain(c) ==
    /\ flight.leader = c /\ look[c].pc = "flying" /\ cached
    /\ flight' = grounded
    /\ look' = [x \in Readers |-> IF look[x].pc = "flying"
                  THEN [pc |-> "served", now |-> clock, known |-> cache.known] ELSE look[x]]
    /\ UNCHANGED <<kind, clock, cache>>

(* ... and queries: the rows are those of some moment of the query.        *)
queryTenants(c) ==
    /\ flight.leader = c /\ look[c].pc = "flying" /\ ~cached
    /\ flight' = [flight EXCEPT !.known = clock]
    /\ becomes(c, [look[c] EXCEPT !.pc = "scanning"])
    /\ UNCHANGED <<kind, clock, cache>>

(* storeCachedTenants, and everyone on the flight gets the list.           *)
storeCachedTenants(c) ==
    /\ flight.leader = c /\ look[c].pc = "scanning"
    /\ cache' = [set |-> TRUE, known |-> flight.known, until |-> clock + TTL]
    /\ look' = [x \in Readers |-> IF look[x].pc \in {"flying", "scanning"}
                  THEN [pc |-> "served", now |-> clock, known |-> flight.known] ELSE look[x]]
    /\ flight' = grounded
    /\ UNCHANGED <<kind, clock>>

(* An error, the timeout included, is everyone's error and is not cached.  *)
QueryFails(c) ==
    /\ flight.leader = c /\ look[c].pc \in {"flying", "scanning"}
    /\ look' = [x \in Readers |-> IF look[x].pc \in {"flying", "scanning"}
                  THEN [resting EXCEPT !.pc = "failed"] ELSE look[x]]
    /\ flight' = grounded
    /\ UNCHANGED <<kind, clock, cache>>

-----------------------------------------------------------------------------
LookStep(c) ==
    \/ present(c) \/ Probes(c) \/ ProbeFails(c) \/ StoresPresence(c)
    \/ DiscoverTenants(c) \/ JoinsFlight(c) \/ LooksAgain(c) \/ queryTenants(c)
    \/ storeCachedTenants(c) \/ QueryFails(c) \/ Rests(c)

DiscoveryNext == Tick \/ \E c \in Readers : LookStep(c)

DiscoverySpec == DiscoveryInit /\ [][DiscoveryNext]_qvars

(* A cached answer is never older than its lifetime says: what the guard   *)
(* serves was true less than TTL ago even when probes of two dispatchers   *)
(* finish out of order, and a discovered tenant list is at most one        *)
(* TTL and one query timeout old, for the callers who joined a running     *)
(* query too.  A tenant that was migrated, or given rows, is skipped no    *)
(* longer than that.                                                       *)
SkipIsBounded ==
    /\ \A c \in Readers : look[c].pc = "served" =>
         look[c].now - look[c].known <= IF kind = "presence" THEN TTL ELSE TTL + QueryTimeout
    /\ cached /\ kind = "presence" => clock - cache.known < TTL
    /\ cached /\ kind = "discovery" => clock - cache.known < TTL + QueryTimeout
    /\ flight.leader # "none" => look[flight.leader].pc \in {"flying", "scanning"}
    /\ (\E c \in Readers : look[c].pc \in {"flying", "scanning"}) => flight.leader # "none"
=============================================================================
