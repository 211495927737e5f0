----------------------------- MODULE TenantPools -----------------------------
(***************************************************************************)
(* The tenant manager's connection managers: a cache of pools per tenant,  *)
(* with a health gate, LRU eviction, background revalidation that swaps a  *)
(* pool when the tenant's configuration changed, and Close.  One module    *)
(* for the three managers; where they differ an action is guarded by Kind. *)
(* A step is what one holder of mu, or of the gate's mutex, does; calls to *)
(* databases and to the Tenant Manager are steps of their own.             *)
(***************************************************************************)
EXTENDS Naturals, FiniteSets

CONSTANTS
    Managers,
    Revals,     \* bound: revalidations that run at a time
    MaxPools,   \* bound: pools ever connected
    NoPool

ASSUME PoolsAssumption ==
    /\ MaxPools \in Nat \ {0} /\ NoPool \notin Nat
    /\ \A m \in Managers : m.tenants # {}

VARIABLES mgr, connections, closed, open, version, wanted, idle, due,
          last, inflight, invalid, cpc, ask, pool, rpc, rten, rnew, rold, leaving, closer, snapshot

vars == <<mgr, connections, closed, open, version, wanted, idle, due,
          last, inflight, invalid, cpc, ask, pool, rpc, rten, rnew, rold, leaving, closer, snapshot>>

Kind    == mgr.kind
Tenants == mgr.tenants
Callers == mgr.callers
Pools   == 1 .. MaxPools
made    == Cardinality(DOMAIN version)
Cached  == {t \in Tenants : connections[t] # NoPool}

TypeOK ==
    /\ mgr \in Managers
    /\ connections \in [Tenants -> Pools \cup {NoPool}] /\ closed \in BOOLEAN
    /\ DOMAIN version = 1 .. made /\ made <= MaxPools /\ open \subseteq 1 .. made
    /\ idle \subseteq Cached /\ due \subseteq Tenants /\ last \subseteq Tenants
    /\ inflight \subseteq Tenants /\ invalid \subseteq inflight
    /\ DOMAIN cpc = Callers /\ DOMAIN rpc = Revals
    /\ closer \in {"no", "disconnecting", "waiting", "returned"}

(* A manager starts empty, or a call made before has left a pool in it.    *)
Init ==
    /\ mgr \in Managers
    /\ closed = FALSE /\ closer = "no" /\ snapshot = {} /\ leaving = {}
    /\ \E warm \in {{}, {CHOOSE t \in mgr.tenants : TRUE}} :
         /\ connections = [t \in mgr.tenants |-> IF t \in warm THEN 1 ELSE NoPool]
         /\ open = (IF warm = {} THEN {} ELSE {1})
         /\ version = [p \in open |-> 0]
    /\ wanted = [t \in mgr.tenants |-> 0]
    /\ idle = {} /\ due = mgr.tenants /\ last = {} /\ inflight = {} /\ invalid = {}
    /\ cpc = [c \in mgr.callers |-> "idle"] /\ ask \in [mgr.callers -> mgr.tenants]
    /\ pool = [c \in mgr.callers |-> NoPool]
    /\ rpc = [g \in Revals |-> "off"] /\ rten = [g \in Revals |-> NoPool]
    /\ rnew = [g \in Revals |-> NoPool] /\ rold = [g \in Revals |-> NoPool]

-----------------------------------------------------------------------------
CacheState == <<connections, idle, due, last, invalid>>
GateState  == <<last, inflight, invalid>>
PoolState  == <<open, version>>
Background == <<rpc, rten, rnew, rold, leaving, closed, closer, snapshot>>
Outside    == <<mgr, wanted>>

Goto(c, l)   == cpc' = [cpc EXCEPT ![c] = l] /\ UNCHANGED ask
Hold(c, p)   == pool' = [pool EXCEPT ![c] = p]
Returns(c)   == Goto(c, "returned")
Fails(c)     == Goto(c, "failed") /\ Hold(c, NoPool)
Alive(p)     == p # NoPool /\ (Kind = "rabbit" => p \in open)

(* Forget: the recorded verdict goes, and the one under way will not count.*)
Forget(S) ==
    /\ last' = last \ S
    /\ invalid' = invalid \cup (S \cap inflight)

(* Every way out of the cache removes the entry with all that is kept      *)
(* under the tenant's key.                                                 *)
Drop(S) ==
    /\ connections' = [t \in Tenants |-> IF t \in S THEN NoPool ELSE connections[t]]
    /\ idle' = idle \ S
    /\ due' = due \cup S
    /\ Forget(S)

NewPool(t) ==
    /\ made < MaxPools
    /\ open' = open \cup {made + 1}
    /\ version' = [p \in 1 .. made + 1 |-> IF p <= made THEN version[p] ELSE wanted[t]]

-----------------------------------------------------------------------------
(* GetConnection of the Postgres and Mongo managers: what is cached is     *)
(* read under the read lock.                                               *)
Lookup(c) ==
    /\ cpc[c] = "lookup"
    /\ \/ closed /\ Fails(c)
       \/ ~closed /\ ask[c] \notin Cached /\ Goto(c, "create") /\ UNCHANGED pool
       \/ ~closed /\ ask[c] \in Cached /\ Goto(c, "begin") /\ Hold(c, connections[ask[c]])
    /\ UNCHANGED <<CacheState, inflight, PoolState, Background, Outside>>

GetConnection(c)      == Kind = "postgres" /\ Lookup(c)
GetMongoConnection(c) == Kind = "mongo" /\ Lookup(c)

(* GetConnection of the RabbitMQ manager: no ping, but the connection      *)
(* knows whether it is closed; the second look is under the write lock.    *)
GetRabbitConnection(c) ==
    /\ Kind = "rabbit" /\ cpc[c] = "lookup"
    /\ \/ closed /\ Fails(c)
       \/ ~closed /\ Goto(c, IF Alive(connections[ask[c]]) THEN "touch" ELSE "create") /\ UNCHANGED pool
    /\ UNCHANGED <<CacheState, inflight, PoolState, Background, Outside>>

(* Begin: one check per interval and tenant, one in flight at a time; with *)
(* no interval there is no gate, and every caller checks for itself.       *)
Begin(c) ==
    /\ cpc[c] = "begin"
    /\ \/ ~mgr.gate /\ Goto(c, "ping") /\ UNCHANGED inflight
       \/ mgr.gate /\ ask[c] \in inflight /\ Goto(c, "await") /\ UNCHANGED inflight
       \/ mgr.gate /\ ask[c] \in last \ inflight /\ Goto(c, "touch") /\ UNCHANGED inflight
       \/ mgr.gate /\ ask[c] \notin inflight \cup last /\ Goto(c, "ping") /\ inflight' = inflight \cup {ask[c]}
    /\ UNCHANGED <<CacheState, pool, PoolState, Background, Outside>>

(* Await: the caller's own context may end first.                          *)
Await(c) ==
    /\ cpc[c] = "await" /\ Fails(c)
    /\ UNCHANGED <<CacheState, inflight, PoolState, Background, Outside>>

(* End of caller c's check: c goes on at l, the callers waiting for the    *)
(* verdict look the tenant up again.                                       *)
End(c, l, healthy) ==
    LET t == ask[c] IN
    /\ inflight' = inflight \ {t} /\ invalid' = invalid \ {t}
    /\ last' = IF mgr.gate /\ healthy /\ t \notin invalid THEN last \cup {t} ELSE last \ {t}
    /\ cpc' = [b \in Callers |-> IF b = c THEN l
                                 ELSE IF cpc[b] = "await" /\ ask[b] = t THEN "lookup" ELSE cpc[b]]
    /\ UNCHANGED ask

(* Mutant: a caller that goes away does not publish a verdict.             *)
EndUnlessAbandoned(c, l, healthy) ==
    IF l = "failed" THEN Goto(c, l) /\ UNCHANGED GateState
    ELSE LET t == ask[c] IN
         /\ inflight' = inflight \ {t} /\ invalid' = invalid \ {t}
         /\ last' = IF mgr.gate /\ healthy /\ t \notin invalid THEN last \cup {t} ELSE last \ {t}
         /\ cpc' = [b \in Callers |-> IF b = c THEN l
                                      ELSE IF cpc[b] = "await" /\ ask[b] = t THEN "lookup" ELSE cpc[b]]
         /\ UNCHANGED ask

PublishVerdict(c, l, healthy) == End(c, l, healthy)

(* runHealthCheck: the ping of a closed pool fails, that of an open one    *)
(* may; a caller that went away has learnt nothing about the pool.         *)
Ping(c) ==
    /\ cpc[c] = "ping"
    /\ \/ pool[c] \in open /\ Goto(c, "healthy")
       \/ Goto(c, "unhealthy")
       \/ Goto(c, "abandoned")
    /\ UNCHANGED <<CacheState, inflight, pool, PoolState, Background, Outside>>

runHealthCheck(c)      == Kind = "postgres" /\ Ping(c)
runMongoHealthCheck(c) == Kind = "mongo" /\ Ping(c)

Healthy(c) ==
    /\ cpc[c] = "healthy" /\ PublishVerdict(c, "touch", TRUE)
    /\ UNCHANGED <<connections, idle, due, pool, PoolState, Background, Outside>>

Abandoned(c) ==
    /\ cpc[c] = "abandoned" /\ PublishVerdict(c, "failed", FALSE) /\ Hold(c, NoPool)
    /\ UNCHANGED <<connections, idle, due, PoolState, Background, Outside>>

(* Removes the entry only if it is still the pool that failed.             *)
removeStaleCacheEntry(c) ==
    IF connections[ask[c]] = pool[c] THEN Drop({ask[c]})
    ELSE UNCHANGED CacheState

(* First out of the cache, then closed, then the verdict.                  *)
Condemn(c) ==
    /\ cpc[c] \in {"unhealthy", "unfit"}
    /\ removeStaleCacheEntry(c)
    /\ Goto(c, IF cpc[c] = "unhealthy" THEN "condemned" ELSE "closing")
    /\ UNCHANGED <<inflight, pool, PoolState, Background, Outside>>

closeUnhealthyConnection(c)      == Kind = "postgres" /\ Condemn(c)
disconnectUnhealthyConnection(c) == Kind = "mongo" /\ Condemn(c)

CondemnedCloses(c) ==
    /\ open' = open \ {pool[c]} /\ Hold(c, NoPool)
    /\ \/ cpc[c] = "condemned" /\ PublishVerdict(c, "create", FALSE)
       \/ cpc[c] = "closing" /\ Goto(c, "build") /\ UNCHANGED GateState
    /\ UNCHANGED <<connections, idle, due, version, Background, Outside>>

(* Mutant: presence is compared instead of identity.                       *)
StillCachedAtAll(c) == connections[ask[c]] # NoPool

StillCached(c) ==
    IF Kind = "rabbit" THEN Alive(connections[ask[c]]) ELSE connections[ask[c]] = pool[c]

(* A goroutine of its own.  A revalidation takes its tenant off the due    *)
(* list, every way out of the cache puts it back: there may be two of one  *)
(* tenant.                                                                 *)
Spare == {g \in Revals : rpc[g] = "off"}

StartRevalidation(t, l) ==
    LET g == CHOOSE g \in Spare : TRUE IN
    /\ Spare # {}
    /\ rpc' = [rpc EXCEPT ![g] = l] /\ rten' = [rten EXCEPT ![g] = t]

(* A pool that is still cached is handed out; a revalidation that is due   *)
(* starts at l.                                                            *)
Touch(c, l) ==
    /\ cpc[c] = "touch"
    /\ \/ ~StillCached(c) /\ Goto(c, "create") /\ Hold(c, NoPool) /\ UNCHANGED <<idle, due, rpc, rten>>
       \/ /\ StillCached(c) /\ Returns(c)
          /\ Hold(c, IF Kind = "rabbit" THEN connections[ask[c]] ELSE pool[c])
          /\ idle' = idle \ {ask[c]} /\ due' = due \ {ask[c]}
          /\ IF ask[c] \in due THEN StartRevalidation(ask[c], l) ELSE UNCHANGED <<rpc, rten>>
    /\ UNCHANGED <<connections, GateState, PoolState, rnew, rold, leaving, closed, closer, snapshot, Outside>>

(* The Postgres manager adds the revalidation to its wait group after it   *)
(* gave up the lock.                                                       *)
touchCachedConnection(c)      == Kind = "postgres" /\ Touch(c, "spawned")
touchCachedMongoConnection(c) == Kind = "mongo" /\ Touch(c, "fetch")
touchRabbitConnection(c)      == Kind = "rabbit" /\ Touch(c, "fetch")

-----------------------------------------------------------------------------
(* createConnection of the Postgres manager: a cached pool is pinged with  *)
(* the lock held, and closed and dropped when that fails, whatever the     *)
(* reason.                                                                 *)
tryReuseOrEvictCachedConnectionLocked(c) ==
    LET p == connections[ask[c]] IN
    /\ Kind = "postgres" /\ cpc[c] = "create" /\ UNCHANGED version
    /\ \/ p \in open /\ Returns(c) /\ Hold(c, p) /\ UNCHANGED <<CacheState, open>>
       \/ /\ p # NoPool /\ open' = open \ {p} /\ Drop({ask[c]})
          /\ IF closed THEN Fails(c) ELSE Goto(c, "build") /\ UNCHANGED pool
       \/ /\ p = NoPool /\ UNCHANGED <<CacheState, open>>
          /\ IF closed THEN Fails(c) ELSE Goto(c, "build") /\ UNCHANGED pool
    /\ UNCHANGED <<inflight, Background, Outside>>

(* createConnection of the Mongo manager: the cached pool is pinged        *)
(* outside the lock, and only an unhealthy one is closed.                  *)
snapshotCachedConnection(c) ==
    /\ Kind = "mongo" /\ cpc[c] = "create"
    /\ \/ closed /\ Fails(c)
       \/ ~closed /\ ask[c] \in Cached /\ Goto(c, "reping") /\ Hold(c, connections[ask[c]])
       \/ ~closed /\ ask[c] \notin Cached /\ Goto(c, "build") /\ Hold(c, NoPool)
    /\ UNCHANGED <<CacheState, inflight, PoolState, Background, Outside>>

tryReuseCachedConnection(c) ==
    /\ cpc[c] = "reping"
    /\ \/ pool[c] \in open /\ Goto(c, "reuse") /\ UNCHANGED pool
       \/ Goto(c, "unfit") /\ UNCHANGED pool
       \/ Fails(c)
    /\ UNCHANGED <<CacheState, inflight, PoolState, Background, Outside>>

reuseHealthyConnection(c) ==
    /\ cpc[c] = "reuse"
    /\ \/ connections[ask[c]] = pool[c] /\ Returns(c) /\ idle' = idle \ {ask[c]} /\ UNCHANGED pool
       \/ connections[ask[c]] # pool[c] /\ Goto(c, "build") /\ Hold(c, NoPool) /\ UNCHANGED idle
    /\ UNCHANGED <<connections, due, GateState, PoolState, Background, Outside>>

(* createConnection of the RabbitMQ manager.                               *)
createRabbitConnection(c) ==
    LET p == connections[ask[c]] IN
    /\ Kind = "rabbit" /\ cpc[c] = "create"
    /\ \/ Alive(p) /\ Returns(c) /\ Hold(c, p)
       \/ ~Alive(p) /\ closed /\ Fails(c)
       \/ ~Alive(p) /\ ~closed /\ Goto(c, "build") /\ UNCHANGED pool
    /\ UNCHANGED <<CacheState, inflight, PoolState, Background, Outside>>

(* The configuration is fetched and a new pool is connected, which may     *)
(* fail: the tenant is suspended, not configured, or does not answer.      *)
Build(c) ==
    /\ cpc[c] = "build"
    /\ \/ Fails(c) /\ UNCHANGED PoolState
       \/ NewPool(ask[c]) /\ Hold(c, made + 1) /\ Goto(c, "cache")
    /\ UNCHANGED <<CacheState, inflight, Background, Outside>>

buildTenantPostgresConnection(c) == Kind = "postgres" /\ Build(c)
buildAndCacheNewConnection(c)    == Kind = "mongo" /\ Build(c)
dialRabbitMQ(c)                  == Kind = "rabbit" /\ Build(c)

(* FindLRUEvictionCandidate: at the limit one pool nobody used within the  *)
(* idle timeout goes.  Of several idle ones the code takes the oldest; the *)
(* model any.                                                              *)
EvictionCandidates ==
    IF mgr.limit > 0 /\ Cardinality(Cached) >= mgr.limit THEN idle ELSE {}

evictLRU(out) ==
    /\ open' = open \ {connections[e] : e \in out}
    /\ due' = due \cup out
    /\ Forget(out)

(* A manager closed meanwhile or a rival's pool wins.                      *)
Store(c) ==
    LET t == ask[c] p == connections[t] IN
    /\ cpc[c] = "cache" /\ UNCHANGED version
    /\ \/ /\ closed /\ open' = open \ {pool[c]} /\ Fails(c) /\ UNCHANGED CacheState
       \/ /\ ~closed /\ Alive(p)
          /\ open' = open \ {pool[c]} /\ Returns(c) /\ Hold(c, p)
          /\ idle' = idle \ {t} /\ UNCHANGED <<connections, due, last, invalid>>
       \/ /\ ~closed /\ ~Alive(p) /\ Returns(c) /\ UNCHANGED pool
          /\ \E out \in IF EvictionCandidates = {} THEN {{}} ELSE {{e} : e \in EvictionCandidates} :
               /\ evictLRU(out)
               /\ connections' = [u \in Tenants |-> IF u = t THEN pool[c]
                                                    ELSE IF u \in out THEN NoPool ELSE connections[u]]
               /\ idle' = idle \ (out \cup {t})
    /\ UNCHANGED <<inflight, Background, Outside>>

cacheConnection(c)       == Kind = "postgres" /\ Store(c)
cacheMongoConnection(c)  == Kind = "mongo" /\ Store(c)
cacheRabbitConnection(c) == Kind = "rabbit" /\ Store(c)

-----------------------------------------------------------------------------
Reval(g, l) ==
    /\ rpc' = [rpc EXCEPT ![g] = l]
    /\ rten' = IF l = "off" THEN [rten EXCEPT ![g] = NoPool] ELSE rten

(* The goroutine of revalidateWG.Go.                                       *)
Spawn(g) ==
    /\ rpc[g] = "spawned" /\ Reval(g, "fetch")
    /\ UNCHANGED <<CacheState, inflight, PoolState, cpc, ask, pool, rnew, rold, leaving, closed, closer, snapshot, Outside>>

(* CloseConnection, from a suspension or a tenant event.  The Mongo        *)
(* manager disconnects after it gave up the lock.                          *)
CloseConnection(t) ==
    /\ Kind # "mongo" /\ Drop({t})
    /\ open' = open \ {connections[t]} /\ UNCHANGED <<version, leaving>>

CloseMongoConnection(t) ==
    /\ Kind = "mongo" /\ Drop({t})
    /\ leaving' = leaving \cup ({connections[t]} \ {NoPool}) /\ UNCHANGED PoolState

Evicted(t) ==
    /\ t \in Cached /\ (CloseConnection(t) \/ CloseMongoConnection(t))
    /\ UNCHANGED <<inflight, cpc, ask, pool, rpc, rten, rnew, rold, closed, closer, snapshot, Outside>>

Disconnect(p) ==
    /\ p \in leaving /\ leaving' = leaving \ {p} /\ open' = open \ {p}
    /\ UNCHANGED <<CacheState, inflight, version, cpc, ask, pool, rpc, rten, rnew, rold, closed, closer, snapshot, Outside>>

(* hasPostgresConfigChanged and the like: what is cached was made from     *)
(* another configuration.                                                  *)
ConfigChanged(t) == t \in Cached /\ version[connections[t]] # wanted[t]

(* What a revalidation that fetched the configuration does: a suspended    *)
(* tenant's pool goes.                                                     *)
Revalidate(g) ==
    LET t == rten[g] IN
    /\ rpc[g] = "fetch" /\ Reval(g, "off")
    /\ \/ UNCHANGED <<CacheState, PoolState, leaving>>
       \/ t \in Cached /\ (CloseConnection(t) \/ CloseMongoConnection(t))
    /\ UNCHANGED <<rnew, inflight, cpc, ask, pool, rold, closed, closer, snapshot, Outside>>

revalidatePoolSettings(g)       == Kind = "postgres" /\ Revalidate(g)
revalidateMongoPoolSettings(g)  == Kind = "mongo" /\ Revalidate(g)
revalidateRabbitPoolSettings(g) == Kind = "rabbit" /\ Revalidate(g)

(* A changed configuration leads to a new pool, connected before the old   *)
(* one goes.                                                               *)
Reconnect(g) ==
    LET t == rten[g] IN
    /\ rpc[g] = "fetch" /\ ConfigChanged(t) /\ NewPool(t)
    /\ rnew' = [rnew EXCEPT ![g] = made + 1] /\ Reval(g, "store")
    /\ UNCHANGED <<CacheState, leaving, inflight, cpc, ask, pool, rold, closed, closer, snapshot, Outside>>

reconnectPostgres(g)          == Kind = "postgres" /\ Reconnect(g)
reconnectMongo(g)             == Kind = "mongo" /\ Reconnect(g)
detectAndReconnectRabbitMQ(g) == Kind = "rabbit" /\ Reconnect(g)

(* canStore...Connection: checked under the lock, which is given up.       *)
CanStore(g) ==
    LET t == rten[g] IN
    /\ rpc[g] = "store" /\ UNCHANGED version
    /\ \/ /\ ~closed /\ t \in Cached /\ Reval(g, "swap") /\ UNCHANGED <<open, rnew>>
       \/ /\ closed \/ t \notin Cached
          /\ open' = open \ {rnew[g]} /\ rnew' = [rnew EXCEPT ![g] = NoPool] /\ Reval(g, "off")
    /\ UNCHANGED <<CacheState, inflight, cpc, ask, pool, rold, leaving, closed, closer, snapshot, Outside>>

canStorePostgresConnection(g) == Kind = "postgres" /\ CanStore(g)
canStoreMongoConnection(g)    == Kind = "mongo" /\ CanStore(g)
canStoreRabbitMQConnection(g) == Kind = "rabbit" /\ CanStore(g)

(* swap...Connection: the lock is taken anew, and the old pool, if any,    *)
(* closed after it.                                                        *)
Swap(g) ==
    LET t == rten[g] IN
    /\ rpc[g] = "swap" /\ Reval(g, "closeOld")
    /\ rold' = [rold EXCEPT ![g] = connections[t]]
    /\ connections' = [connections EXCEPT ![t] = rnew[g]]
    /\ rnew' = [rnew EXCEPT ![g] = NoPool]
    /\ idle' = idle \ {t}
    /\ UNCHANGED <<due, GateState, PoolState, cpc, ask, pool, leaving, closed, closer, snapshot, Outside>>

swapPostgresConnection(g) == Kind = "postgres" /\ Swap(g)
swapMongoConnection(g)    == Kind = "mongo" /\ Swap(g)
swapRabbitMQConnection(g) == Kind = "rabbit" /\ Swap(g)

(* Mutant: the pool that was replaced is forgotten.                        *)
oldPoolKept(g) == open

oldPoolClosed(g) == open \ {rold[g]}

closeOldConnection(g) ==
    /\ rpc[g] = "closeOld" /\ Reval(g, "off")
    /\ open' = oldPoolClosed(g) /\ rold' = [rold EXCEPT ![g] = NoPool]
    /\ UNCHANGED <<CacheState, inflight, version, cpc, ask, pool, rnew, leaving, closed, closer, snapshot, Outside>>

-----------------------------------------------------------------------------
(* Close, first phase, under the lock.                                     *)
Shut == mgr.closes /\ closer = "no" /\ closed' = TRUE /\ Drop(Cached)

ClosePools ==
    /\ Shut /\ closer' = "waiting"
    /\ open' = open \ {connections[t] : t \in Cached}
    /\ UNCHANGED <<snapshot, inflight, version, cpc, ask, pool, rpc, rten, rnew, rold, leaving, Outside>>

Close       == Kind = "postgres" /\ ClosePools
CloseRabbit == Kind = "rabbit" /\ ClosePools

(* The Mongo manager disconnects the pools it has taken after it gave up   *)
(* the lock.                                                               *)
CloseMongo ==
    /\ Kind = "mongo" /\ Shut /\ closer' = "disconnecting"
    /\ snapshot' = {connections[t] : t \in Cached}
    /\ UNCHANGED <<open, inflight, version, cpc, ask, pool, rpc, rten, rnew, rold, leaving, Outside>>

CloseDisconnects ==
    /\ closer = "disconnecting" /\ closer' = "waiting"
    /\ open' = open \ snapshot /\ snapshot' = {}
    /\ UNCHANGED <<CacheState, inflight, version, cpc, ask, pool, rpc, rten, rnew, rold, leaving, closed, Outside>>

RevalidationsOver == \A g \in Revals : rpc[g] \in {"off", "spawned"}

(* Second phase: revalidateWG.Wait.                                        *)
CloseReturns ==
    /\ closer = "waiting" /\ RevalidationsOver /\ closer' = "returned"
    /\ UNCHANGED <<CacheState, inflight, PoolState, cpc, ask, pool, rpc, rten, rnew, rold, leaving, closed, snapshot, Outside>>

-----------------------------------------------------------------------------
Call(c) ==
    /\ cpc[c] = "idle" /\ Goto(c, "lookup")
    /\ UNCHANGED <<CacheState, inflight, pool, PoolState, Background, Outside>>

(* Time: a pool is idle, a verdict or the settings are old enough.  The    *)
(* settings interval is longer than a revalidation may take.               *)
Elapse(t) ==
    /\ \/ t \in Cached \ idle /\ mgr.limit > 0 /\ idle' = idle \cup {t} /\ UNCHANGED <<due, last>>
       \/ t \in last /\ last' = last \ {t} /\ UNCHANGED <<idle, due>>
       \/ t \notin due /\ (\A g \in Revals : rten[g] # t) /\ due' = due \cup {t} /\ UNCHANGED <<idle, last>>
    /\ UNCHANGED <<connections, inflight, invalid, PoolState, cpc, ask, pool, Background, Outside>>

(* The tenant's configuration changes, once; a RabbitMQ connection dies.   *)
Reconfigure(t) ==
    /\ wanted[t] = 0 /\ wanted' = [wanted EXCEPT ![t] = 1]
    /\ UNCHANGED <<CacheState, inflight, PoolState, cpc, ask, pool, Background, mgr>>

Dies(p) ==
    /\ Kind = "rabbit" /\ p \in open /\ open' = open \ {p}
    /\ UNCHANGED <<CacheState, inflight, version, cpc, ask, pool, Background, Outside>>

CallerStep(c) ==
    \/ GetConnection(c) \/ GetMongoConnection(c) \/ GetRabbitConnection(c) \/ Begin(c)
    \/ runHealthCheck(c) \/ runMongoHealthCheck(c) \/ Healthy(c) \/ Abandoned(c)
    \/ closeUnhealthyConnection(c) \/ disconnectUnhealthyConnection(c) \/ CondemnedCloses(c)
    \/ touchCachedConnection(c) \/ touchCachedMongoConnection(c) \/ touchRabbitConnection(c)
    \/ tryReuseOrEvictCachedConnectionLocked(c) \/ snapshotCachedConnection(c) \/ tryReuseCachedConnection(c)
    \/ reuseHealthyConnection(c) \/ createRabbitConnection(c)
    \/ buildTenantPostgresConnection(c) \/ buildAndCacheNewConnection(c) \/ dialRabbitMQ(c)
    \/ cacheConnection(c) \/ cacheMongoConnection(c) \/ cacheRabbitConnection(c)

RevalStep(g) ==
    \/ Spawn(g) \/ closeOldConnection(g)
    \/ revalidatePoolSettings(g) \/ reconnectPostgres(g) \/ canStorePostgresConnection(g) \/ swapPostgresConnection(g)
    \/ revalidateMongoPoolSettings(g) \/ reconnectMongo(g) \/ canStoreMongoConnection(g) \/ swapMongoConnection(g)
    \/ revalidateRabbitPoolSettings(g) \/ detectAndReconnectRabbitMQ(g) \/ canStoreRabbitMQConnection(g)
    \/ swapRabbitMQConnection(g)

CloserStep == CloseDisconnects \/ CloseReturns

Next ==
    \/ \E c \in Callers : Call(c) \/ CallerStep(c) \/ Await(c)
    \/ \E g \in Revals : RevalStep(g)
    \/ \E t \in Tenants : Evicted(t) \/ Elapse(t) \/ Reconfigure(t)
    \/ \E p \in Pools : Disconnect(p) \/ Dies(p)
    \/ Close \/ CloseMongo \/ CloseRabbit \/ CloserStep

(* A started call, revalidation, disconnection or Close goes on; callers   *)
(* need not come and time need not pass.                                   *)
AllCallers == UNION {m.callers : m \in Managers}

Fairness ==
    /\ \A c \in AllCallers : WF_vars(c \in Callers /\ CallerStep(c))
    /\ \A g \in Revals : WF_vars(RevalStep(g))
    /\ WF_vars(CloserStep)

Spec == Init /\ [][Next]_vars /\ Fairness

-----------------------------------------------------------------------------
Busy(c) == cpc[c] \notin {"idle", "returned", "failed"}

HeldBy(c) == IF cpc[c] \in {"unhealthy", "condemned", "unfit", "closing", "cache"} THEN {pool[c]} ELSE {}

(* No pool leaks: one that is open is cached, or somebody is about to      *)
(* cache or to close it.  Each way out of the cache closes what it takes   *)
(* out, whoever else replaced it meanwhile.                                *)
NoPoolLeaks ==
    /\ TypeOK
    /\ open \subseteq
        {connections[t] : t \in Tenants} \cup leaving \cup snapshot
            \cup (UNION {HeldBy(c) : c \in Callers})
            \cup {rnew[g] : g \in Revals} \cup {rold[g] : g \in Revals}

(* A caller gets the pool that is cached for its tenant when the call      *)
(* returns, not one that was replaced or condemned while it waited for the *)
(* verdict of another caller's health check.                               *)
HandedOutIsCached ==
    [][\A c \in Callers : Busy(c) /\ cpc'[c] = "returned" => pool'[c] = connections'[ask[c]]]_vars

(* Nobody is inside a call, and a Close that began has ended.              *)
PoolsQuiet == (\A c \in Callers : ~Busy(c)) /\ (closed => closer = "returned")

(* What the comment on Close says: all connections are closed.             *)
ClosedMeansClosed ==
    closer = "returned" /\ (\A c \in Callers : ~Busy(c)) /\ leaving = {} => open = {}

=============================================================================
