--------------------------- MODULE OutboxTopology ---------------------------
(***************************************************************************)
(* Which databases the outbox dispatcher scans: ModulePoolResolver caches, *)
(* per tenant, one scope for the generic database and one for the module's *)
(* own database when that is a different one.  Enumerations refresh the    *)
(* cache one at a time under refreshMu; EvictTenant and                    *)
(* InvalidateTopology arrive at any moment from tenant events and must not *)
(* be undone by a refresh that was already running.  Both first draw an id *)
(* and only then take topologyMu, and so does a refresh.                   *)
(*                                                                         *)
(* `epoch' counts the events; what the directory held is remembered by the *)
(* epoch it was read in.                                                   *)
(***************************************************************************)
EXTENDS Integers, FiniteSets

CONSTANTS
    Callers,
    Tenants,
    Default,    \* the platform tenant, not known to Tenant Manager
    Plans,      \* each caller's call: [op, tenant]
    MaxRounds,  \* enumerations per caller
    MaxLapses,  \* how often the refresh interval passes
    MaxErrors   \* failed directory calls

(* Tenants are not named after what a lookup may find.                     *)
ASSUME TopologyAssumption ==
    /\ Default \in Tenants /\ "free" \notin Callers
    /\ Tenants \cap {"scope", "root", "installed", "unavailable", "none"} = {}
    /\ Plans \subseteq [Callers -> [op : {"list", "evict", "invalidate", "pool"}, tenant : Tenants]]

VARIABLES
    plan,
    listed,     \* Tenant Manager: the service's active tenants
    apart,      \* Tenant Manager: tenants whose module has its own database
    topology,   \* cached scopes by tenant: [scopes, by]
    valid, refreshed,   \* topologyValid; topologyRefreshed is not zero
    lapsed,     \* the refresh interval has passed since
    refreshID, committedRefreshID,
    refreshMu,  \* the caller that holds it
    call,       \* what each caller is doing
    epoch,
    listedIn,   \* history: epoch in which the cached tenant list was read
    failedOpen, \* history: the list could not be read at the last refresh
    gone,       \* history: epoch of each tenant's last finished eviction
    honoured,   \* history: epoch of the last finished invalidation
    lapses, errors

tvars == <<plan, listed, apart, topology, valid, refreshed, lapsed, refreshID,
           committedRefreshID, refreshMu, call, epoch, listedIn, failedOpen, gone, honoured,
           lapses, errors>>

none == [scopes |-> {}, by |-> 0]

(* A call: id drawn, tenants still to load, the topology being built, and  *)
(* for the properties the epochs it drew its id and read its list in, the  *)
(* last invalidation before it, and its answer.                            *)
fresh == [pc |-> "start", id |-> 0, todo |-> {}, built |-> [t \in Tenants |-> none],
          since |-> 0, listed |-> 0, drew |-> 0, round |-> 1,
          answer |-> [at |-> 0, excused |-> TRUE],
          asked |-> "none", pool |-> <<"unavailable">>]

TopologyInit ==
    /\ plan \in Plans
    /\ listed = Tenants \ {Default}
    /\ apart \in {{}, Tenants \ {Default}}
    /\ topology = [t \in Tenants |-> none]
    /\ valid = FALSE /\ refreshed = FALSE /\ lapsed = FALSE
    /\ refreshID = 0 /\ committedRefreshID = 0
    /\ refreshMu = "free"
    /\ call = [c \in Callers |-> fresh]
    /\ failedOpen = FALSE /\ epoch = 0 /\ listedIn = 0 /\ honoured = 0
    /\ gone = [t \in Tenants |-> 0]
    /\ lapses = 0 /\ errors = 0

world   == <<plan, listed, apart>>
caches  == <<topology, valid, refreshed, lapsed, committedRefreshID, listedIn,
             failedOpen>>
bounds  == <<lapses, errors>>
history == <<gone, honoured>>

goes(c, p) == call' = [call EXCEPT ![c].pc = p]

(* The enumeration returns scopes from the tenant list read in `at'.       *)
Returns(c, at, excused) ==
    call' = [call EXCEPT ![c] = [fresh EXCEPT
               !.pc = "done", !.since = call[c].since, !.round = call[c].round,
               !.answer = [at |-> at, excused |-> excused]]]

-----------------------------------------------------------------------------
(* External: the interval passes.                                          *)
Lapse ==
    /\ ~lapsed /\ refreshed /\ lapses < MaxLapses
    /\ lapsed' = TRUE /\ lapses' = lapses + 1
    /\ UNCHANGED <<world, topology, valid, refreshed, refreshID, refreshMu, call,
                   committedRefreshID, listedIn, failedOpen, epoch, history, errors>>

(* cachedFreshScopes.                                                      *)
cachedFreshScopes == valid /\ ~lapsed

(* ListTenantDispatchScopes: the cache answers if it is fresh.             *)
ListTenantDispatchScopes(c) ==
    /\ plan[c].op = "list" /\ call[c].pc = "start"
    /\ call' = [call EXCEPT
         ![c].since = honoured,
         ![c].pc = IF cachedFreshScopes THEN "done" ELSE "waiting",
         ![c].answer = IF cachedFreshScopes
                         THEN [at |-> listedIn, excused |-> failedOpen] ELSE @]
    /\ UNCHANGED <<world, caches, refreshID, refreshMu, epoch, history, bounds>>

(* ... again under refreshMu; then the refresh draws its id.               *)
BeginsRefresh(c) ==
    /\ call[c].pc = "waiting" /\ refreshMu = "free"
    /\ IF cachedFreshScopes
         THEN /\ Returns(c, listedIn, failedOpen)
              /\ UNCHANGED <<refreshID, refreshMu>>
         ELSE /\ refreshMu' = c /\ refreshID' = refreshID + 1
              /\ call' = [call EXCEPT ![c].pc = "listing", ![c].id = refreshID + 1,
                                      ![c].drew = epoch]
    /\ UNCHANGED <<world, caches, epoch, history, bounds>>

(* ManagerPoolResolver.ListTenants adds the platform tenant; uniqueTenantIDs. *)
ListTenants(c) ==
    /\ call[c].pc = "listing"
    /\ call' = [call EXCEPT ![c].pc = "loading", ![c].todo = listed \cup {Default},
                            ![c].listed = epoch]
    /\ UNCHANGED <<world, caches, refreshID, refreshMu, epoch, history, bounds>>

(* commitRefreshAttempt: no list, so the last-known-good one serves another *)
(* interval; nothing to serve is an error.                                 *)
commitRefreshAttempt(c) ==
    /\ call[c].pc = "listing" /\ errors < MaxErrors /\ errors' = errors + 1
    /\ IF (valid \/ refreshed) /\ call[c].id > committedRefreshID
         THEN /\ refreshed' = TRUE /\ valid' = TRUE /\ lapsed' = FALSE
              /\ committedRefreshID' = call[c].id
         ELSE UNCHANGED <<refreshed, valid, lapsed, committedRefreshID>>
    /\ Returns(c, listedIn, TRUE)
    /\ refreshMu' = "free" /\ failedOpen' = TRUE
    /\ UNCHANGED <<world, topology, listedIn, refreshID, epoch, history, lapses>>

(* scopesForTenant: equal resources are one scope.                         *)
scopesForTenant(t) == IF t \in apart THEN {"generic", "module"} ELSE {"generic"}

Loads(c, t, e) ==
    /\ t \in call[c].todo
    /\ call' = [call EXCEPT ![c].todo = @ \ {t}, ![c].built = [@ EXCEPT ![t] = e]]
    /\ UNCHANGED <<world, caches, refreshID, refreshMu, epoch, history, lapses>>

LoadsTenant(c) ==
    /\ call[c].pc = "loading"
    /\ \E t \in call[c].todo :
         Loads(c, t, [scopes |-> IF t = Default THEN {"generic"} ELSE scopesForTenant(t),
                      by |-> call[c].drew])
    /\ UNCHANGED errors

(* The tenant's configuration cannot be loaded: cachedTenantScopes.        *)
cachedTenantScopes(c) ==
    /\ call[c].pc = "loading" /\ errors < MaxErrors /\ errors' = errors + 1
    /\ \E t \in call[c].todo \ {Default} :
         Loads(c, t, IF topology[t].scopes = {} THEN none
                     ELSE [topology[t] EXCEPT !.by = call[c].drew])

(* Mutant: the refresh commits whatever was committed meanwhile.           *)
newest(c) == TRUE

notSuperseded(c) == call[c].id > committedRefreshID

CommitsTopology(c) ==
    /\ call[c].pc = "loading" /\ call[c].todo = {}
    /\ IF notSuperseded(c)
         THEN /\ topology' = call[c].built
              /\ valid' = TRUE /\ refreshed' = TRUE /\ lapsed' = FALSE
              /\ committedRefreshID' = call[c].id
              /\ listedIn' = call[c].listed /\ failedOpen' = FALSE
              /\ Returns(c, call[c].listed, FALSE)
         ELSE /\ Returns(c, listedIn, TRUE)
              /\ UNCHANGED caches
    /\ refreshMu' = "free"
    /\ UNCHANGED <<world, refreshID, epoch, history, bounds>>

-----------------------------------------------------------------------------
(* A tenant event is accepted: the directory has changed already.          *)
DrawsId(c) ==
    /\ plan[c].op \in {"evict", "invalidate"} /\ call[c].pc = "start"
    /\ epoch' = epoch + 1
    /\ refreshID' = refreshID + 1
    /\ call' = [call EXCEPT ![c].pc = "locking", ![c].id = refreshID + 1,
                            ![c].drew = epoch + 1]
    /\ listed' \in {listed, listed \ {plan[c].tenant}}
    /\ apart' \in {apart, apart \ {plan[c].tenant}}
    /\ UNCHANGED <<plan, caches, refreshMu, history, bounds>>

Supersedes(c) ==
    committedRefreshID' = IF call[c].id > committedRefreshID
                            THEN call[c].id ELSE committedRefreshID

EvictTenant(c) ==
    /\ plan[c].op = "evict" /\ call[c].pc = "locking"
    /\ topology' = [topology EXCEPT ![plan[c].tenant] = none]
    /\ valid' = FALSE
    /\ Supersedes(c)
    /\ gone' = [gone EXCEPT ![plan[c].tenant] = call[c].drew]
    /\ goes(c, "done")
    /\ UNCHANGED <<world, refreshed, lapsed, listedIn, failedOpen, refreshID, refreshMu, epoch,
                   honoured, bounds>>

InvalidateTopology(c) ==
    /\ plan[c].op = "invalidate" /\ call[c].pc = "locking"
    /\ valid' = FALSE
    /\ Supersedes(c)
    /\ honoured' = IF call[c].drew > honoured THEN call[c].drew ELSE honoured
    /\ goes(c, "done")
    /\ UNCHANGED <<world, topology, refreshed, lapsed, listedIn, failedOpen, refreshID,
                   refreshMu, epoch, gone, bounds>>

-----------------------------------------------------------------------------
(* What a repository call's context may carry: the dispatcher's scope, a   *)
(* pool the request path installed, the tenant id.                         *)
Contexts == [scope : {"absent", "generic", "module"}, scopeTenant : Tenants,
             installed : {"none", "empty", "pool"}, tenant : Tenants \cup {"none"}]

(* tenantDispatchScopeFromContext: a scope of another tenant is refused.   *)
scopeValid(x) == x.tenant = x.scopeTenant

(* ManagerPoolResolver.PoolForTenant: the platform tenant lives in the root *)
(* pool, every other one in the pool the manager hands out.                *)
PoolForTenant(t) == IF t = Default THEN <<"root", "generic">> ELSE <<t, "generic">>

(* newTenantPoolLookup up to the point where a scope is looked up: the     *)
(* answer, or the scope that PoolForTenantDispatchScope has to resolve.    *)
newTenantPoolLookup(x) ==
    CASE x.scope # "absent" /\ ~scopeValid(x) -> <<"unavailable">>
      [] x.scope # "absent" /\ scopeValid(x)  -> <<"scope", x.scopeTenant, x.scope>>
      [] x.scope = "absent" /\ x.installed = "pool" -> <<"installed">>
      [] x.scope = "absent" /\ x.installed # "pool" /\ x.tenant # "none" -> PoolForTenant(x.tenant)
      [] OTHER -> <<"unavailable">>

(* Unknown or evicted scopes fail closed.                                  *)
PoolForTenantDispatchScope(t, s) ==
    IF s \notin topology[t].scopes THEN <<"unavailable">>
    ELSE IF s = "generic" THEN PoolForTenant(t) ELSE <<t, "module">>

LooksUp(c) ==
    /\ plan[c].op = "pool" /\ call[c].pc = "start"
    /\ \E x \in Contexts :
         LET found == newTenantPoolLookup(x) IN
         call' = [call EXCEPT ![c].pc = "done", ![c].asked = x.tenant,
                    ![c].pool = IF found[1] = "scope"
                                  THEN PoolForTenantDispatchScope(found[2], found[3])
                                  ELSE found]
    /\ UNCHANGED <<world, caches, refreshID, refreshMu, epoch, history, bounds>>

-----------------------------------------------------------------------------
CallerStep(c) ==
    \/ LooksUp(c)
    \/ ListTenantDispatchScopes(c) \/ BeginsRefresh(c) \/ ListTenants(c)
    \/ commitRefreshAttempt(c) \/ LoadsTenant(c) \/ cachedTenantScopes(c)
    \/ CommitsTopology(c) \/ DrawsId(c) \/ EvictTenant(c) \/ InvalidateTopology(c)

(* The dispatcher enumerates in every cycle.                               *)
NextCycle(c) ==
    /\ call[c].pc = "done" /\ plan[c].op = "list" /\ call[c].round < MaxRounds
    /\ call' = [call EXCEPT ![c] = [fresh EXCEPT !.round = call[c].round + 1]]
    /\ UNCHANGED <<world, caches, refreshID, refreshMu, epoch, history, bounds>>

TopologyNext == Lapse \/ \E c \in Callers : CallerStep(c) \/ NextCycle(c)

TopologySpec == TopologyInit /\ [][TopologyNext]_tvars

TopologyQuiet == \A c \in Callers : call[c].pc = "done"

-----------------------------------------------------------------------------
(* Evictions and invalidations hold against refreshes already running      *)
(* (module_pool_resolver.go: "topology refreshes started before eviction   *)
(* cannot restore scopes"): cached scopes of a tenant were installed by a  *)
(* refresh that began after its last eviction was called; an enumeration   *)
(* answers with a tenant list read after the last invalidation that had    *)
(* returned when it was called, unless the directory failed or it was      *)
(* superseded while it ran; and no database is scanned twice: the module   *)
(* scope never comes without the generic one, and the platform tenant      *)
(* never has one.  A repository call is routed to its own tenant's pool,   *)
(* to the one its context brought, or nowhere: the root pool is reached by *)
(* the platform tenant alone.                                              *)
TopologySound ==
    /\ \A t \in Tenants :
         /\ topology[t].scopes # {} => topology[t].by >= gone[t]
         /\ "module" \in topology[t].scopes => "generic" \in topology[t].scopes
    /\ "module" \notin topology[Default].scopes
    /\ \A c \in Callers : call[c].answer.excused \/ call[c].answer.at >= call[c].since
    /\ \A c \in Callers : call[c].pool # <<"unavailable">> =>
         \/ call[c].pool = <<"installed">>
         \/ call[c].pool[1] = call[c].asked
         \/ call[c].pool[1] = "root" /\ call[c].asked = Default
    /\ refreshMu # "free" => call[refreshMu].pc \in {"listing", "loading"}
=============================================================================
