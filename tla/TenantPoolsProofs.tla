-------------------------- MODULE TenantPoolsProofs --------------------------
(***************************************************************************)
(* No connection manager leaks a pool or hands out one that is not cached, *)
(* for every number of tenants, callers, pools and revalidations at once,  *)
(* and for all three managers.  The argument follows each open pool to the *)
(* one place that knows it.  After it, the settings of a pool, the client  *)
(* of the Tenant Manager and the consumer, each with its own invariant.    *)
(***************************************************************************)
EXTENDS MCTenants, FiniteSetTheorems, TLAPS

Holding == {"unhealthy", "condemned", "unfit", "closing", "cache"}

(* Somebody knows pool p: it is cached, or about to be cached or closed.   *)
Owned(p) ==
    \/ \E t \in Tenants : connections[t] = p
    \/ p \in leaving \/ p \in snapshot
    \/ \E c \in Callers : cpc[c] \in Holding /\ pool[c] = p
    \/ \E g \in Revals : rnew[g] = p \/ rold[g] = p

AllOwned == \A p \in open : Owned(p)

(* What TypeOK leaves open of the callers' and revalidations' own state.   *)
LocalTypes ==
    /\ made \in Nat
    /\ ask \in [Callers -> Tenants] /\ pool \in [Callers -> Pools \cup {NoPool}]
    /\ rten \in [Revals -> Tenants \cup {NoPool}]
    /\ rnew \in [Revals -> Pools \cup {NoPool}] /\ rold \in [Revals -> Pools \cup {NoPool}]

(* Where a call, a revalidation and Close keep a pool in their hands.      *)
HandsOK ==
    /\ \A c \in Callers : cpc[c] = "cache" => pool[c] # NoPool
    /\ \A g \in Revals : /\ rpc[g] \notin {"store", "swap"} => rnew[g] = NoPool
                         /\ rpc[g] # "closeOld" => rold[g] = NoPool
                         /\ rpc[g] # "off" => rten[g] \in Tenants
    /\ closer # "disconnecting" => snapshot = {}

IInv == TypeOK /\ LocalTypes /\ HandsOK /\ AllOwned

(* The property says the same of sets of pools.                            *)
LEMMA NoPoolLeaksForm == NoPoolLeaks <=> TypeOK /\ AllOwned
<1> DEFINE InCache == {connections[t] : t \in Tenants}
           InHand  == UNION {HeldBy(c) : c \in Callers}
           Built   == {rnew[g] : g \in Revals}
           Stale   == {rold[g] : g \in Revals}
<1>1. \A c \in Callers : \A p : p \in HeldBy(c) <=> cpc[c] \in Holding /\ pool[c] = p
  BY DEF HeldBy, Holding
<1>2. ASSUME NEW p
      PROVE  /\ p \in InHand <=> \E c \in Callers : cpc[c] \in Holding /\ pool[c] = p
             /\ p \in InCache <=> \E t \in Tenants : connections[t] = p
             /\ p \in Built <=> \E g \in Revals : rnew[g] = p
             /\ p \in Stale <=> \E g \in Revals : rold[g] = p
  BY <1>1
<1>3. NoPoolLeaks <=> TypeOK /\ open \subseteq InCache \cup leaving \cup snapshot \cup InHand \cup Built \cup Stale
  BY DEF NoPoolLeaks
<1> HIDE DEF InCache, InHand, Built, Stale
<1>4. ASSUME NEW p
      PROVE  p \in InCache \cup leaving \cup snapshot \cup InHand \cup Built \cup Stale <=> Owned(p)
  <2>1. (\E g \in Revals : rnew[g] = p \/ rold[g] = p) <=> p \in Built \/ p \in Stale
    BY <1>2
  <2> QED BY <1>2, <2>1 DEF Owned
<1> QED BY <1>3, <1>4 DEF AllOwned

-----------------------------------------------------------------------------
(* The pools made so far are numbered without a gap.                       *)
LEMMA Numbering == ASSUME NEW n \in Nat, DOMAIN version = 1 .. n PROVE made = n
<1> QED BY FS_Interval, 1 \in Int, n \in Int DEF made

(* The absence of a pool is not one that is open.                          *)
LEMMA OpenPools == ASSUME IInv PROVE NoPool \notin open
<1>1. open \subseteq 1 .. made /\ made \in Nat
  BY DEF IInv, TypeOK, LocalTypes
<1>2. 1 .. made \subseteq Nat
  BY <1>1
<1>3. NoPool \notin Nat
  BY PoolsAssumption
<1> QED BY <1>1, <1>2, <1>3

LEMMA InitIInv == Init => IInv
<1> SUFFICES ASSUME Init PROVE IInv
  OBVIOUS
<1>0. mgr.tenants # {} /\ NoPool \notin Pools
  BY PoolsAssumption DEF Init, Pools
<1> DEFINE first == CHOOSE t \in mgr.tenants : TRUE
<1>2. PICK warm \in {{}, {first}} :
        /\ connections = [t \in mgr.tenants |-> IF t \in warm THEN 1 ELSE NoPool]
        /\ open = (IF warm = {} THEN {} ELSE {1})
        /\ version = [p \in open |-> 0]
  BY DEF Init
<1>3. CASE warm = {}
  <2>1. open = {} /\ connections = [t \in mgr.tenants |-> NoPool]
    BY <1>2, <1>3
  <2>2. DOMAIN version = 1 .. 0
    BY <1>2, <2>1
  <2>3. made = 0
    BY <2>2, Numbering
  <2>4. TypeOK
    <3>1. closed \in BOOLEAN
      BY DEF Init
    <3> QED BY <3>1, <2>1, <2>2, <2>3, PoolsAssumption DEF Init, TypeOK, Tenants, Callers
  <2>5. LocalTypes
    BY <2>3 DEF Init, LocalTypes, Tenants, Callers
  <2>6. HandsOK
    BY DEF Init, HandsOK, Callers
  <2> QED BY <2>1, <2>4, <2>5, <2>6 DEF IInv, AllOwned
<1>4. CASE warm # {}
  <2>1. warm = {first} /\ first \in mgr.tenants /\ open = {1}
    BY <1>0, <1>2, <1>4
  <2>2. DOMAIN version = 1 .. 1
    BY <1>2, <2>1
  <2>3. made = 1 /\ 1 \in Pools
    BY <2>2, Numbering, PoolsAssumption DEF Pools
  <2>4. connections \in [mgr.tenants -> Pools \cup {NoPool}] /\ connections[first] = 1
    BY <1>2, <2>1, <2>3
  <2>5. TypeOK
    <3>1. closed \in BOOLEAN
      BY DEF Init
    <3> QED BY <3>1, <2>1, <2>2, <2>3, <2>4, PoolsAssumption DEF Init, TypeOK, Tenants, Callers
  <2>6. LocalTypes
    BY <2>3 DEF Init, LocalTypes, Tenants, Callers
  <2>7. HandsOK
    BY DEF Init, HandsOK, Callers
  <2>8. AllOwned
    BY <2>1, <2>4 DEF AllOwned, Owned, Tenants
  <2> QED BY <2>5, <2>6, <2>7, <2>8 DEF IInv
<1> QED BY <1>3, <1>4

-----------------------------------------------------------------------------
(* A step of caller c that leaves the cache and every pool alone: only the *)
(* caller's place and hand change, and the gate's records.                 *)
LEMMA CallerMoves ==
  ASSUME IInv, NEW c \in Callers, Outside' = Outside, Background' = Background,
         connections' = connections, open' \subseteq open, version' = version,
         idle' \subseteq idle, due' \subseteq Tenants, last' \subseteq Tenants,
         inflight' \subseteq Tenants, invalid' \subseteq inflight', ask' = ask,
         DOMAIN cpc' = Callers, pool' \in [Callers -> Pools \cup {NoPool}],
         \A b \in Callers \ {c} : /\ pool'[b] = pool[b]
                                  /\ cpc'[b] # cpc[b] => cpc[b] = "await" /\ cpc'[b] = "lookup",
         cpc'[c] = "cache" => pool'[c] # NoPool,
         cpc[c] \in Holding => pool[c] \notin open' \/ (cpc'[c] \in Holding /\ pool'[c] = pool[c])
  PROVE  IInv'
<1> USE DEF IInv, Outside, Background
<1>1. Tenants' = Tenants /\ Callers' = Callers /\ made' = made /\ Cached' = Cached
  BY DEF Tenants, Callers, made, Cached
<1>2. TypeOK'
  BY <1>1 DEF TypeOK
<1>3. LocalTypes'
  BY <1>1 DEF LocalTypes
<1>4. HandsOK'
  BY <1>1 DEF HandsOK
<1>5. AllOwned'
  <2> SUFFICES ASSUME NEW p \in open' PROVE Owned(p)'
    BY DEF AllOwned
  <2>1. Owned(p)
    BY DEF AllOwned
  <2>2. ASSUME NEW b \in Callers, cpc[b] \in Holding, pool[b] = p PROVE cpc'[b] \in Holding /\ pool'[b] = p
    BY <2>2 DEF Holding
  <2> QED BY <2>1, <2>2, <1>1 DEF Owned
<1> QED BY <1>2, <1>3, <1>4, <1>5

(* The steps of a call that only look: at the cache, the gate or a pool.   *)
LEMMA LookingSteps ==
  ASSUME IInv, NEW c \in Callers,
         \/ Call(c) \/ Lookup(c) \/ GetRabbitConnection(c) \/ Begin(c) \/ Await(c) \/ Ping(c)
         \/ snapshotCachedConnection(c) \/ tryReuseCachedConnection(c) \/ reuseHealthyConnection(c)
         \/ createRabbitConnection(c)
  PROVE  IInv'
<1> USE DEF Goto, Hold, Fails, Returns, Holding, CacheState, GateState, PoolState
<1>0. /\ ask[c] \in Tenants /\ connections[ask[c]] \in Pools \cup {NoPool}
      /\ pool \in [Callers -> Pools \cup {NoPool}] /\ DOMAIN cpc = Callers
      /\ due \subseteq Tenants /\ last \subseteq Tenants /\ inflight \subseteq Tenants /\ invalid \subseteq inflight
  BY DEF IInv, TypeOK, LocalTypes
<1>1. CASE Call(c) \/ Await(c)
  BY <1>0, <1>1, CallerMoves DEF Call, Await
<1>2. CASE Lookup(c)
  BY <1>0, <1>2, CallerMoves DEF Lookup
<1>3. CASE GetRabbitConnection(c)
  BY <1>0, <1>3, CallerMoves DEF GetRabbitConnection
<1>4. CASE Begin(c)
  BY <1>0, <1>4, CallerMoves DEF Begin
<1>5. CASE Ping(c)
  BY <1>0, <1>5, CallerMoves DEF Ping
<1>6. CASE snapshotCachedConnection(c)
  BY <1>0, <1>6, CallerMoves DEF snapshotCachedConnection
<1>7. CASE tryReuseCachedConnection(c)
  BY <1>0, <1>7, CallerMoves DEF tryReuseCachedConnection
<1>8. CASE reuseHealthyConnection(c)
  BY <1>0, <1>8, CallerMoves DEF reuseHealthyConnection
<1>9. CASE createRabbitConnection(c)
  BY <1>0, <1>9, CallerMoves DEF createRabbitConnection
<1> QED BY <1>1, <1>2, <1>3, <1>4, <1>5, <1>6, <1>7, <1>8, <1>9

(* A published verdict moves the caller and whoever waited for it.         *)
LEMMA VerdictSteps ==
  ASSUME IInv, NEW c \in Callers, Healthy(c) \/ Abandoned(c) \/ CondemnedCloses(c)
  PROVE  IInv'
<1> USE DEF Goto, Hold, Holding, GateState, PoolState, PublishVerdict
<1>0. /\ ask[c] \in Tenants /\ pool \in [Callers -> Pools \cup {NoPool}] /\ DOMAIN cpc = Callers
      /\ due \subseteq Tenants /\ last \subseteq Tenants /\ inflight \subseteq Tenants /\ invalid \subseteq inflight
  BY DEF IInv, TypeOK, LocalTypes
<1> DEFINE Published(l) ==
       /\ last' \subseteq Tenants /\ inflight' \subseteq Tenants /\ invalid' \subseteq inflight' /\ ask' = ask
       /\ DOMAIN cpc' = Callers /\ cpc'[c] = l
       /\ \A b \in Callers \ {c} : cpc'[b] # cpc[b] => cpc[b] = "await" /\ cpc'[b] = "lookup"
<1>2. CASE Healthy(c)
  <2>1. Published("touch")
    BY <1>0, <1>2 DEF Healthy, End
  <2> QED BY <1>0, <1>2, <2>1, CallerMoves DEF Healthy
<1>3. CASE Abandoned(c)
  <2>1. Published("failed")
    BY <1>0, <1>3 DEF Abandoned, End
  <2> QED BY <1>0, <1>3, <2>1, CallerMoves DEF Abandoned
<1>4. CASE CondemnedCloses(c)
  <2>1. CASE cpc[c] = "condemned" /\ End(c, "create", FALSE)
    <3>1. Published("create")
      BY <1>0, <2>1 DEF End
    <3> QED BY <1>0, <1>4, <2>1, <3>1, CallerMoves DEF CondemnedCloses
  <2>2. CASE cpc[c] = "closing" /\ Goto(c, "build") /\ UNCHANGED GateState
    BY <1>0, <1>4, <2>2, CallerMoves DEF CondemnedCloses
  <2> QED BY <1>4, <2>1, <2>2 DEF CondemnedCloses
<1> QED BY <1>2, <1>3, <1>4

(* A pool that is handed out may start a revalidation, which has nothing   *)
(* in its hands yet.                                                       *)
LEMMA TouchStep ==
  ASSUME IInv, NEW c \in Callers, NEW l \in {"spawned", "fetch"}, Touch(c, l)
  PROVE  IInv'
<1> USE DEF IInv, Touch, Goto, Hold, Returns, GateState, PoolState, Outside
<1>0. /\ ask[c] \in Tenants /\ connections[ask[c]] \in Pools \cup {NoPool}
      /\ pool \in [Callers -> Pools \cup {NoPool}] /\ DOMAIN cpc = Callers /\ DOMAIN rpc = Revals
      /\ rten \in [Revals -> Tenants \cup {NoPool}]
  BY DEF TypeOK, LocalTypes
<1>1. Tenants' = Tenants /\ Callers' = Callers /\ made' = made /\ Cached' = Cached
  BY DEF Tenants, Callers, made, Cached
<1>2. \/ rpc' = rpc /\ rten' = rten
      \/ \E g \in Revals : /\ rpc[g] = "off" /\ rpc' = [rpc EXCEPT ![g] = l]
                           /\ rten' = [rten EXCEPT ![g] = ask[c]]
  BY DEF StartRevalidation, Spare
<1>3. /\ pool' \in [Callers -> Pools \cup {NoPool}] /\ DOMAIN cpc' = Callers /\ ask' = ask
      /\ idle' \subseteq idle /\ due' \subseteq due
      /\ cpc[c] = "touch" /\ cpc'[c] \in {"create", "returned"}
      /\ \A b \in Callers \ {c} : cpc'[b] = cpc[b] /\ pool'[b] = pool[b]
  BY <1>0
<1>4. TypeOK'
  BY <1>0, <1>1, <1>2, <1>3 DEF TypeOK
<1>5. LocalTypes'
  BY <1>0, <1>1, <1>2, <1>3 DEF LocalTypes
<1>6. HandsOK'
  BY <1>0, <1>1, <1>2, <1>3 DEF HandsOK
<1>7. AllOwned'
  BY <1>1, <1>3 DEF AllOwned, Owned, Holding
<1> QED BY <1>4, <1>5, <1>6, <1>7

-----------------------------------------------------------------------------
(* What leaving the cache does to the tenant's entry and all that is kept  *)
(* under its key.                                                          *)
LEMMA DropKeeps ==
  ASSUME IInv, NEW S \in SUBSET Tenants, Drop(S), mgr' = mgr, inflight' = inflight
  PROVE  /\ connections' \in [Tenants -> Pools \cup {NoPool}]
         /\ \A t \in Tenants \ S : connections'[t] = connections[t]
         /\ idle' \subseteq Cached' /\ due' \subseteq Tenants /\ last' \subseteq Tenants
         /\ invalid' \subseteq inflight'
<1> QED BY DEF IInv, TypeOK, Drop, Forget, Cached, Tenants

(* A step takes S out of the cache; every pool it takes out is closed or   *)
(* still known to somebody.                                                *)
LEMMA Dropping ==
  ASSUME IInv, NEW S \in SUBSET Tenants, Drop(S), mgr' = mgr, inflight' = inflight,
         open' \subseteq open, version' = version, ask' = ask, closed' \in BOOLEAN, LocalTypes', HandsOK',
         DOMAIN cpc' = Callers, DOMAIN rpc' = Revals,
         closer' \in {"no", "disconnecting", "waiting", "returned"},
         \A p \in open' : /\ (\E t \in S : connections[t] = p) => Owned(p)'
                          /\ p \in leaving \cup snapshot => Owned(p)'
                          /\ (\E c \in Callers : cpc[c] \in Holding /\ pool[c] = p) => Owned(p)'
                          /\ (\E g \in Revals : rnew[g] = p \/ rold[g] = p) => Owned(p)'
  PROVE  IInv'
<1>1. Tenants' = Tenants /\ Callers' = Callers /\ made' = made
  BY DEF Tenants, Callers, made
<1>2. TypeOK'
  BY <1>1, DropKeeps DEF IInv, TypeOK
<1>3. AllOwned'
  <2> SUFFICES ASSUME NEW p \in open' PROVE Owned(p)'
    BY DEF AllOwned
  <2>1. \/ \E t \in Tenants : connections[t] = p
        \/ p \in leaving \cup snapshot
        \/ \E c \in Callers : cpc[c] \in Holding /\ pool[c] = p
        \/ \E g \in Revals : rnew[g] = p \/ rold[g] = p
    BY DEF IInv, AllOwned, Owned
  <2>2. ASSUME NEW t \in Tenants, connections[t] = p PROVE Owned(p)'
    <3>1. CASE t \in S
      BY <2>2, <3>1
    <3>2. CASE t \notin S
      BY <1>1, <2>2, <3>2, DropKeeps DEF Owned
    <3> QED BY <3>1, <3>2
  <2> QED BY <2>1, <2>2
<1> QED BY <1>2, <1>3 DEF IInv

(* The pool that failed its check leaves the cache, if it is still there,  *)
(* and stays in the hands of the caller.                                   *)
LEMMA CondemnStep ==
  ASSUME IInv, NEW c \in Callers, Condemn(c)
  PROVE  IInv'
<1> USE DEF Condemn, Goto, PoolState, Background, Outside
<1>0. /\ ask[c] \in Tenants /\ DOMAIN cpc = Callers /\ cpc[c] \in Holding /\ cpc'[c] \in Holding
      /\ DOMAIN cpc' = Callers /\ \A b \in Callers \ {c} : cpc'[b] = cpc[b]
      /\ cpc'[c] # "cache"
  BY DEF IInv, TypeOK, LocalTypes, Holding
<1>1. Tenants' = Tenants /\ Callers' = Callers /\ made' = made
  BY DEF Tenants, Callers, made
<1>2. LocalTypes' /\ HandsOK'
  BY <1>0, <1>1 DEF IInv, LocalTypes, HandsOK
<1>3. CASE connections[ask[c]] = pool[c]
  <2>1. Drop({ask[c]})
    BY <1>3 DEF removeStaleCacheEntry
  <2>2. \A p : (\E b \in Callers : cpc[b] \in Holding /\ pool[b] = p) => Owned(p)'
    BY <1>0, <1>1 DEF Owned
  <2>3. \A p \in leaving \cup snapshot : Owned(p)'
    BY DEF Owned
  <2>4. \A p : (\E g \in Revals : rnew[g] = p \/ rold[g] = p) => Owned(p)'
    BY DEF Owned
  <2>5. \A p : connections[ask[c]] = p => Owned(p)'
    BY <1>0, <1>3, <2>2
  <2>6. closed' \in BOOLEAN /\ DOMAIN rpc' = Revals /\ closer' \in {"no", "disconnecting", "waiting", "returned"}
    BY DEF IInv, TypeOK
  <2> QED BY <1>0, <1>2, <2>1, <2>2, <2>3, <2>4, <2>5, <2>6, Dropping
<1>4. CASE connections[ask[c]] # pool[c]
  BY <1>0, <1>4, CallerMoves DEF IInv, TypeOK, LocalTypes, removeStaleCacheEntry, CacheState
<1> QED BY <1>3, <1>4

(* The Postgres manager closes the pool it takes out in the same step.     *)
LEMMA ReuseOrEvictStep ==
  ASSUME IInv, NEW c \in Callers, tryReuseOrEvictCachedConnectionLocked(c)
  PROVE  IInv'
<1> USE DEF tryReuseOrEvictCachedConnectionLocked, Goto, Hold, Fails, Returns, Background, Outside
<1>0. /\ ask[c] \in Tenants /\ connections[ask[c]] \in Pools \cup {NoPool}
      /\ pool \in [Callers -> Pools \cup {NoPool}] /\ DOMAIN cpc = Callers /\ cpc[c] = "create"
      /\ due \subseteq Tenants /\ last \subseteq Tenants /\ inflight \subseteq Tenants /\ invalid \subseteq inflight
  BY DEF IInv, TypeOK, LocalTypes
<1>1. /\ cpc'[c] \in {"returned", "failed", "build"} /\ DOMAIN cpc' = Callers /\ ask' = ask
      /\ pool' \in [Callers -> Pools \cup {NoPool}]
      /\ \A b \in Callers \ {c} : cpc'[b] = cpc[b] /\ pool'[b] = pool[b]
  BY <1>0
<1>2. CASE UNCHANGED CacheState /\ open' = open
  BY <1>0, <1>1, <1>2, CallerMoves DEF CacheState, Holding
<1>3. CASE open' = open \ {connections[ask[c]]} /\ Drop({ask[c]})
  <2>1. Tenants' = Tenants /\ Callers' = Callers /\ made' = made
    BY DEF Tenants, Callers, made
  <2>2. LocalTypes' /\ HandsOK'
    BY <1>0, <1>1, <2>1 DEF IInv, LocalTypes, HandsOK
  <2>3. \A p : \/ p \in leaving \cup snapshot
               \/ \E b \in Callers : cpc[b] \in Holding /\ pool[b] = p
               \/ \E g \in Revals : rnew[g] = p \/ rold[g] = p
               => Owned(p)'
    BY <1>0, <1>1, <2>1 DEF Owned, Holding
  <2>4. closed' \in BOOLEAN /\ DOMAIN rpc' = Revals /\ closer' \in {"no", "disconnecting", "waiting", "returned"}
    BY DEF IInv, TypeOK
  <2> QED BY <1>0, <1>1, <1>3, <2>2, <2>3, <2>4, Dropping
<1> QED BY <1>2, <1>3

-----------------------------------------------------------------------------
(* A new pool takes the next number.                                       *)
LEMMA NewPoolKeeps ==
  ASSUME IInv, NEW t, NewPool(t)
  PROVE  /\ made' = made + 1 /\ made + 1 \in Pools /\ made + 1 # NoPool
         /\ DOMAIN version' = 1 .. made' /\ open' \subseteq 1 .. made' /\ made' \in Nat /\ made' <= MaxPools
         /\ open' = open \cup {made + 1}
<1>1. made \in Nat /\ made < MaxPools /\ open \subseteq 1 .. made
  BY DEF IInv, LocalTypes, TypeOK, NewPool
<1>2. DOMAIN version' = 1 .. made + 1
  BY DEF NewPool
<1>3. Cardinality(DOMAIN version') = made + 1
  BY <1>1, <1>2, FS_Interval
<1>4. made' = made + 1
  BY <1>3 DEF made
<1>5. open' = open \cup {made + 1}
  BY DEF NewPool
<1>6. made + 1 \in Pools /\ made + 1 # NoPool /\ made + 1 \in Nat /\ made + 1 <= MaxPools
  BY <1>1, PoolsAssumption DEF Pools
<1>7. open' \subseteq 1 .. made + 1
  BY <1>1, <1>5
<1> QED BY <1>2, <1>4, <1>5, <1>6, <1>7

(* What is connected is in the caller's hand.                              *)
LEMMA BuildStep ==
  ASSUME IInv, NEW c \in Callers, Build(c)
  PROVE  IInv'
<1> USE DEF Build, Goto, Hold, Background, Outside, CacheState
<1>0. pool \in [Callers -> Pools \cup {NoPool}] /\ DOMAIN cpc = Callers /\ cpc[c] = "build"
  BY DEF IInv, TypeOK, LocalTypes
<1>1. CASE Fails(c) /\ UNCHANGED PoolState
  BY <1>0, <1>1, CallerMoves DEF IInv, TypeOK, LocalTypes, Fails, PoolState, Holding
<1>2. CASE NewPool(ask[c]) /\ Hold(c, made + 1) /\ Goto(c, "cache")
  <2> USE DEF IInv
  <2>1. /\ made' = made + 1 /\ made + 1 \in Pools /\ made + 1 # NoPool
        /\ DOMAIN version' = 1 .. made' /\ open' \subseteq 1 .. made' /\ made' \in Nat /\ made' <= MaxPools
        /\ open' = open \cup {made + 1}
    BY <1>2, NewPoolKeeps
  <2>2. Tenants' = Tenants /\ Callers' = Callers /\ Cached' = Cached
    BY DEF Tenants, Callers, Cached
  <2>3. /\ DOMAIN cpc' = Callers /\ cpc'[c] = "cache" /\ pool'[c] = made + 1 /\ ask' = ask
        /\ pool' \in [Callers -> Pools \cup {NoPool}]
        /\ \A b \in Callers \ {c} : cpc'[b] = cpc[b] /\ pool'[b] = pool[b]
    BY <1>0, <1>2, <2>1
  <2>4. TypeOK'
    BY <2>1, <2>2, <2>3 DEF TypeOK
  <2>5. LocalTypes'
    BY <2>1, <2>2, <2>3 DEF LocalTypes
  <2>6. HandsOK'
    BY <2>1, <2>2, <2>3 DEF HandsOK
  <2>7. AllOwned'
    <3>1. ASSUME NEW p \in open PROVE Owned(p)'
      BY <1>0, <2>2, <2>3 DEF AllOwned, Owned, Holding
    <3>2. ASSUME NEW p, p = made + 1 PROVE Owned(p)'
      BY <2>2, <2>3, <3>2 DEF Owned, Holding
    <3> QED BY <2>1, <3>1, <3>2 DEF AllOwned
  <2> QED BY <2>4, <2>5, <2>6, <2>7
<1> QED BY <1>1, <1>2

(* The pool is cached, unless Close or a rival came first and it is closed.*)
LEMMA StoreStep ==
  ASSUME IInv, NEW c \in Callers, Store(c)
  PROVE  IInv'
<1> USE DEF Goto, Hold, Returns, Fails, Background, Outside
<1>0. /\ ask[c] \in Tenants /\ connections[ask[c]] \in Pools \cup {NoPool} /\ cpc[c] = "cache"
      /\ pool \in [Callers -> Pools \cup {NoPool}] /\ DOMAIN cpc = Callers /\ pool[c] # NoPool
      /\ connections \in [Tenants -> Pools \cup {NoPool}]
      /\ due \subseteq Tenants /\ last \subseteq Tenants /\ inflight \subseteq Tenants /\ invalid \subseteq inflight
      /\ mgr' = mgr /\ Background' = Background /\ inflight' = inflight /\ version' = version /\ wanted' = wanted
  BY DEF IInv, TypeOK, LocalTypes, HandsOK, Store
<1> DEFINE t == ask[c]
<1>1. CASE closed /\ open' = open \ {pool[c]} /\ Fails(c) /\ UNCHANGED CacheState
  BY <1>0, <1>1, CallerMoves DEF CacheState, Holding
<1>2. CASE /\ open' = open \ {pool[c]} /\ Returns(c) /\ Hold(c, connections[t])
           /\ idle' = idle \ {t} /\ UNCHANGED <<connections, due, last, invalid>>
  BY <1>0, <1>2, CallerMoves DEF Holding
<1>3. CASE /\ ~Alive(connections[t]) /\ Returns(c) /\ UNCHANGED pool
           /\ \E out \in IF EvictionCandidates = {} THEN {{}} ELSE {{e} : e \in EvictionCandidates} :
                /\ evictLRU(out)
                /\ connections' = [u \in Tenants |-> IF u = t THEN pool[c]
                                                     ELSE IF u \in out THEN NoPool ELSE connections[u]]
                /\ idle' = idle \ (out \cup {t})
  <2> USE DEF IInv
  <2>1. PICK out : /\ out \subseteq idle /\ evictLRU(out)
                   /\ connections' = [u \in Tenants |-> IF u = t THEN pool[c]
                                                        ELSE IF u \in out THEN NoPool ELSE connections[u]]
                   /\ idle' = idle \ (out \cup {t})
    BY <1>3 DEF EvictionCandidates
  <2>2. Tenants' = Tenants /\ Callers' = Callers /\ made' = made
    BY <1>0 DEF Tenants, Callers, made
  <2>3. open' = open \ {connections[e] : e \in out}
    BY <2>1 DEF evictLRU
  <2>4. connections' \in [Tenants -> Pools \cup {NoPool}]
    BY <1>0, <2>1
  <2>5. idle' \subseteq Cached'
    BY <2>1, <2>2 DEF TypeOK, Cached
  <2>6. due' \subseteq Tenants /\ last' \subseteq Tenants /\ invalid' \subseteq inflight'
    BY <1>0, <2>1 DEF evictLRU, Forget, TypeOK, Cached
  <2>7. TypeOK'
    BY <1>0, <1>3, <2>2, <2>3, <2>4, <2>5, <2>6 DEF TypeOK
  <2>8. LocalTypes' /\ HandsOK'
    BY <1>0, <1>3, <2>2 DEF LocalTypes, HandsOK
  <2>9. AllOwned'
    <3> SUFFICES ASSUME NEW p \in open' PROVE Owned(p)'
      BY DEF AllOwned
    <3>1. p \in open /\ Owned(p) /\ \A e \in out : connections[e] # p
      BY <2>3 DEF AllOwned
    <3>2. connections[t] # p
      <4>1. p # NoPool
        BY <3>1, OpenPools
      <4> QED BY <1>3, <3>1, <4>1 DEF Alive
    <3>3. ASSUME NEW u \in Tenants, connections[u] = p PROVE connections'[u] = p
      BY <2>1, <3>1, <3>2, <3>3
    <3>4. connections'[t] = pool[c]
      BY <1>0, <2>1
    <3>5. \A b \in Callers : b # c => cpc'[b] = cpc[b]
      BY <1>3
    <3> QED BY <1>0, <1>3, <2>2, <3>1, <3>3, <3>4, <3>5 DEF Owned
  <2> QED BY <2>7, <2>8, <2>9
<1> QED BY <1>1, <1>2, <1>3 DEF Store

-----------------------------------------------------------------------------
(* A step of revalidation g that leaves the cache alone.                   *)
LEMMA RevalMoves ==
  ASSUME IInv, NEW g \in Revals, NEW l, Reval(g, l),
         Outside' = Outside, CacheState' = CacheState, inflight' = inflight, cpc' = cpc, ask' = ask, pool' = pool,
         leaving' = leaving, closed' = closed, closer' = closer, snapshot' = snapshot,
         open' \subseteq open, version' = version,
         rnew' \in [Revals -> Pools \cup {NoPool}], rold' \in [Revals -> Pools \cup {NoPool}],
         \A h \in Revals \ {g} : rnew'[h] = rnew[h] /\ rold'[h] = rold[h],
         rnew[g] \notin open' \/ rnew'[g] = rnew[g], rold[g] \notin open' \/ rold'[g] = rold[g],
         l \notin {"store", "swap"} => rnew'[g] = NoPool, l # "closeOld" => rold'[g] = NoPool,
         l # "off" => rten[g] \in Tenants
  PROVE  IInv'
<1> USE DEF IInv, Outside, CacheState
<1>1. Tenants' = Tenants /\ Callers' = Callers /\ made' = made /\ Cached' = Cached
  BY DEF Tenants, Callers, made, Cached
<1>2. /\ DOMAIN rpc' = Revals /\ rpc'[g] = l /\ rten' \in [Revals -> Tenants \cup {NoPool}]
      /\ l # "off" => rten' = rten
      /\ \A h \in Revals \ {g} : rpc'[h] = rpc[h] /\ rten'[h] = rten[h]
  BY DEF Reval, TypeOK, LocalTypes
<1>3. TypeOK'
  BY <1>1, <1>2 DEF TypeOK
<1>4. LocalTypes'
  BY <1>1, <1>2 DEF LocalTypes
<1>5. HandsOK'
  BY <1>1, <1>2 DEF HandsOK
<1>6. AllOwned'
  <2> SUFFICES ASSUME NEW p \in open' PROVE Owned(p)'
    BY DEF AllOwned
  <2>1. Owned(p)
    BY DEF AllOwned
  <2>2. ASSUME NEW h \in Revals, rnew[h] = p \/ rold[h] = p PROVE rnew'[h] = p \/ rold'[h] = p
    BY <2>2
  <2> QED BY <2>1, <2>2, <1>1 DEF Owned
<1> QED BY <1>3, <1>4, <1>5, <1>6

LEMMA RevalWaitingSteps ==
  ASSUME IInv, NEW g \in Revals, Spawn(g) \/ CanStore(g) \/ closeOldConnection(g)
  PROVE  IInv'
<1>0. /\ rnew \in [Revals -> Pools \cup {NoPool}] /\ rold \in [Revals -> Pools \cup {NoPool}]
      /\ rpc[g] \notin {"store", "swap"} => rnew[g] = NoPool
      /\ rpc[g] # "closeOld" => rold[g] = NoPool
      /\ rpc[g] # "off" => rten[g] \in Tenants
  BY DEF IInv, LocalTypes, HandsOK
<1>1. CASE Spawn(g)
  BY <1>0, <1>1, RevalMoves DEF Spawn, PoolState
<1>2. CASE CanStore(g)
  <2>1. CASE Reval(g, "swap") /\ UNCHANGED <<open, rnew>>
    BY <1>0, <1>2, <2>1, RevalMoves DEF CanStore
  <2>2. CASE open' = open \ {rnew[g]} /\ rnew' = [rnew EXCEPT ![g] = NoPool] /\ Reval(g, "off")
    BY <1>0, <1>2, <2>2, RevalMoves DEF CanStore
  <2> QED BY <1>2, <2>1, <2>2 DEF CanStore
<1>3. CASE closeOldConnection(g)
  BY <1>0, <1>3, RevalMoves DEF closeOldConnection, oldPoolClosed
<1> QED BY <1>1, <1>2, <1>3

(* The pool of the new configuration is in the revalidation's hand.        *)
LEMMA ReconnectStep ==
  ASSUME IInv, NEW g \in Revals, Reconnect(g)
  PROVE  IInv'
<1> USE DEF IInv, Reconnect, CacheState, Outside
<1>1. /\ made' = made + 1 /\ made + 1 \in Pools /\ made + 1 # NoPool
      /\ DOMAIN version' = 1 .. made' /\ open' \subseteq 1 .. made' /\ made' \in Nat /\ made' <= MaxPools
      /\ open' = open \cup {made + 1}
  BY NewPoolKeeps
<1>2. Tenants' = Tenants /\ Callers' = Callers /\ Cached' = Cached
  BY DEF Tenants, Callers, Cached
<1>3. /\ DOMAIN rpc' = Revals /\ rpc'[g] = "store" /\ rten' = rten /\ rnew'[g] = made + 1 /\ rnew[g] = NoPool
      /\ rnew' \in [Revals -> Pools \cup {NoPool}] /\ rten[g] \in Tenants /\ rold[g] = NoPool
      /\ \A h \in Revals \ {g} : rpc'[h] = rpc[h] /\ rnew'[h] = rnew[h]
  BY <1>1 DEF TypeOK, LocalTypes, HandsOK, Reval
<1>4. TypeOK'
  BY <1>1, <1>2, <1>3 DEF TypeOK
<1>5. LocalTypes'
  BY <1>1, <1>2, <1>3 DEF LocalTypes
<1>6. HandsOK'
  BY <1>1, <1>2, <1>3 DEF HandsOK
<1>7. AllOwned'
  <2>1. ASSUME NEW p \in open PROVE Owned(p)'
    <3>1. Owned(p) /\ p # NoPool
      BY OpenPools DEF AllOwned
    <3>2. ASSUME NEW h \in Revals, rnew[h] = p PROVE rnew'[h] = p
      BY <1>3, <3>1, <3>2
    <3> QED BY <1>2, <3>1, <3>2 DEF Owned
  <2>2. ASSUME NEW p, p = made + 1 PROVE Owned(p)'
    BY <1>3, <2>2 DEF Owned
  <2> QED BY <1>1, <2>1, <2>2 DEF AllOwned
<1> QED BY <1>4, <1>5, <1>6, <1>7

(* The swap takes the lock anew: whatever is cached by then is in the      *)
(* revalidation's hand, be it what it found before or not.                 *)
LEMMA SwapStep ==
  ASSUME IInv, NEW g \in Revals, Swap(g)
  PROVE  IInv'
<1> USE DEF IInv, Swap, GateState, PoolState, Outside
<1> DEFINE t == rten[g]
<1>1. Tenants' = Tenants /\ Callers' = Callers /\ made' = made
  BY DEF Tenants, Callers, made
<1>2. /\ DOMAIN rpc' = Revals /\ rpc'[g] = "closeOld" /\ rten' = rten /\ t \in Tenants /\ rold[g] = NoPool
      /\ connections \in [Tenants -> Pools \cup {NoPool}] /\ connections' \in [Tenants -> Pools \cup {NoPool}]
      /\ connections'[t] = rnew[g] /\ \A u \in Tenants \ {t} : connections'[u] = connections[u]
      /\ rnew' \in [Revals -> Pools \cup {NoPool}] /\ rold' \in [Revals -> Pools \cup {NoPool}]
      /\ rnew'[g] = NoPool /\ rold'[g] = connections[t]
      /\ \A h \in Revals \ {g} : rpc'[h] = rpc[h] /\ rnew'[h] = rnew[h] /\ rold'[h] = rold[h]
  BY DEF TypeOK, LocalTypes, HandsOK, Reval
<1>3. idle' \subseteq Cached'
  BY <1>1, <1>2 DEF TypeOK, Cached
<1>4. TypeOK'
  BY <1>1, <1>2, <1>3 DEF TypeOK
<1>5. LocalTypes'
  BY <1>1, <1>2 DEF LocalTypes
<1>6. HandsOK'
  BY <1>1, <1>2 DEF HandsOK
<1>7. AllOwned'
  <2> SUFFICES ASSUME NEW p \in open PROVE Owned(p)'
    BY DEF AllOwned
  <2>1. Owned(p) /\ p # NoPool
    BY OpenPools DEF AllOwned
  <2>2. ASSUME NEW u \in Tenants, connections[u] = p PROVE connections'[u] = p \/ rold'[g] = p
    BY <1>2, <2>2
  <2>3. ASSUME NEW h \in Revals, rnew[h] = p \/ rold[h] = p
        PROVE  connections'[t] = p \/ rnew'[h] = p \/ rold'[h] = p
    BY <1>2, <2>1, <2>3
  <2> QED BY <1>1, <1>2, <2>1, <2>2, <2>3 DEF Owned
<1> QED BY <1>4, <1>5, <1>6, <1>7

-----------------------------------------------------------------------------
(* CloseConnection: the pool is closed, or on its way to it.               *)
LEMMA ClosingSteps ==
  ASSUME IInv, NEW t \in Tenants, t \in Cached, CloseConnection(t) \/ CloseMongoConnection(t),
         UNCHANGED <<inflight, cpc, ask, pool, rnew, rold, closed, closer, snapshot, mgr>>,
         DOMAIN rpc' = Revals, rten' \in [Revals -> Tenants \cup {NoPool}],
         \A g \in Revals : \/ rpc'[g] = rpc[g] /\ rten'[g] = rten[g]
                           \/ rpc'[g] = "off" /\ rnew[g] = NoPool /\ rold[g] = NoPool
  PROVE  IInv'
<1> USE DEF IInv
<1>1. Tenants' = Tenants /\ Callers' = Callers
  BY DEF Tenants, Callers
<1>2. version' = version /\ made' = made /\ open' \subseteq open
  BY DEF made, CloseConnection, CloseMongoConnection, PoolState
<1>3. LocalTypes' /\ HandsOK'
  BY <1>1, <1>2 DEF LocalTypes, HandsOK
<1>4. Drop({t}) /\ leaving \subseteq leaving'
  BY DEF CloseConnection, CloseMongoConnection
<1>5. \A p : \/ p \in leaving \cup snapshot
             \/ \E c \in Callers : cpc[c] \in Holding /\ pool[c] = p
             \/ \E g \in Revals : rnew[g] = p \/ rold[g] = p
             => Owned(p)'
  BY <1>1, <1>4 DEF Owned
<1>6. \A p \in open' : connections[t] = p => Owned(p)'
  <2>1. ASSUME NEW p \in open', connections[t] = p PROVE p \in leaving'
    <3>1. CASE CloseConnection(t)
      BY <2>1, <3>1 DEF CloseConnection
    <3>2. CASE CloseMongoConnection(t)
      BY <2>1, <3>2 DEF CloseMongoConnection, Cached
    <3> QED BY <3>1, <3>2
  <2> QED BY <2>1 DEF Owned
<1>7. closed' \in BOOLEAN /\ closer' \in {"no", "disconnecting", "waiting", "returned"} /\ DOMAIN cpc' = Callers
  BY DEF TypeOK
<1> HIDE DEF IInv
<1> QED BY <1>2, <1>3, <1>4, <1>5, <1>6, <1>7, Dropping

LEMMA RevalidateStep ==
  ASSUME IInv, NEW g \in Revals, Revalidate(g)
  PROVE  IInv'
<1>0. /\ rnew \in [Revals -> Pools \cup {NoPool}] /\ rold \in [Revals -> Pools \cup {NoPool}]
      /\ rnew[g] = NoPool /\ rold[g] = NoPool /\ DOMAIN rpc = Revals
      /\ rten \in [Revals -> Tenants \cup {NoPool}] /\ rten[g] \in Tenants
  BY DEF IInv, TypeOK, LocalTypes, HandsOK, Revalidate
<1>1. CASE UNCHANGED <<CacheState, PoolState, leaving>>
  BY <1>0, <1>1, RevalMoves DEF Revalidate, PoolState
<1>2. CASE rten[g] \in Cached /\ (CloseConnection(rten[g]) \/ CloseMongoConnection(rten[g]))
  <2>1. /\ DOMAIN rpc' = Revals /\ rten' \in [Revals -> Tenants \cup {NoPool}]
        /\ \A h \in Revals : \/ rpc'[h] = rpc[h] /\ rten'[h] = rten[h]
                             \/ rpc'[h] = "off" /\ rnew[h] = NoPool /\ rold[h] = NoPool
    BY <1>0 DEF Revalidate, Reval
  <2> QED BY <1>0, <1>2, <2>1, ClosingSteps DEF Revalidate, Outside
<1> QED BY <1>1, <1>2 DEF Revalidate

LEMMA EvictedStep ==
  ASSUME IInv, NEW t \in Tenants, Evicted(t)
  PROVE  IInv'
<1>1. DOMAIN rpc = Revals /\ rten \in [Revals -> Tenants \cup {NoPool}]
  BY DEF IInv, TypeOK, LocalTypes
<1> QED BY <1>1, ClosingSteps DEF Evicted, Outside

(* Close empties the cache; the Mongo manager keeps what it took out until *)
(* it has disconnected it.                                                 *)
LEMMA CloseSteps ==
  ASSUME IInv, ClosePools \/ CloseMongo
  PROVE  IInv'
<1> USE DEF ClosePools, CloseMongo, Shut, Outside
<1>1. /\ Tenants' = Tenants /\ Callers' = Callers /\ made' = made
      /\ closer' \in {"waiting", "disconnecting"} /\ closed' = TRUE /\ Drop(Cached)
      /\ open' \subseteq open /\ DOMAIN cpc' = Callers /\ DOMAIN rpc' = Revals /\ snapshot = {}
  BY DEF Tenants, Callers, made, IInv, TypeOK, HandsOK
<1>2. LocalTypes' /\ HandsOK'
  BY <1>1 DEF IInv, LocalTypes, HandsOK
<1>3. \A p : \/ p \in leaving
             \/ \E c \in Callers : cpc[c] \in Holding /\ pool[c] = p
             \/ \E g \in Revals : rnew[g] = p \/ rold[g] = p
             => Owned(p)'
  BY <1>1 DEF Owned
<1>4. ASSUME NEW t \in Cached, connections[t] \in open' PROVE connections[t] \in snapshot'
  BY <1>4
<1>5. \A p \in open' : (\E t \in Cached : connections[t] = p) => Owned(p)'
  BY <1>4 DEF Owned
<1>6. Cached \in SUBSET Tenants /\ closed' \in BOOLEAN
  BY <1>1 DEF Cached
<1> QED BY <1>1, <1>2, <1>3, <1>5, <1>6, Dropping

(* A step of Close, of a disconnection or of the broker that only closes   *)
(* pools.                                                                  *)
LEMMA OnlyCloses ==
  ASSUME IInv, CloseDisconnects \/ CloseReturns \/ (\E p \in Pools : Disconnect(p) \/ Dies(p))
  PROVE  IInv'
<1> USE DEF IInv, CacheState, PoolState, Background, Outside
<1>1. /\ UNCHANGED <<connections, idle, due, last, invalid, inflight, version, cpc, ask, pool, rpc, rten, rnew, rold, mgr>>
      /\ closed' = closed
  BY DEF CloseDisconnects, CloseReturns, Disconnect, Dies
<1>2. /\ open' \subseteq open /\ \A p \in open' : p \in leaving \cup snapshot => p \in leaving' \cup snapshot'
      /\ closer' \in {"no", "disconnecting", "waiting", "returned"} /\ (closer' # "disconnecting" => snapshot' = {})
  BY DEF CloseDisconnects, CloseReturns, Disconnect, Dies, TypeOK, HandsOK
<1>3. Tenants' = Tenants /\ Callers' = Callers /\ made' = made /\ Cached' = Cached
  BY <1>1 DEF Tenants, Callers, made, Cached
<1>4. TypeOK'
  BY <1>1, <1>2, <1>3 DEF TypeOK
<1>5. LocalTypes' /\ HandsOK'
  BY <1>1, <1>2, <1>3 DEF LocalTypes, HandsOK
<1>6. AllOwned'
  BY <1>1, <1>2, <1>3 DEF AllOwned, Owned
<1> QED BY <1>4, <1>5, <1>6

(* Time passes, or a tenant is configured anew: no pool is concerned.      *)
LEMMA OutsideSteps ==
  ASSUME IInv, NEW t \in Tenants, Elapse(t) \/ Reconfigure(t)
  PROVE  IInv'
<1> USE DEF IInv, CacheState, PoolState, Background, Outside
<1>1. /\ UNCHANGED <<connections, inflight, invalid, open, version, cpc, ask, pool, Background, mgr>>
  BY DEF Elapse, Reconfigure
<1>2. Tenants' = Tenants /\ Callers' = Callers /\ made' = made /\ Cached' = Cached
  BY <1>1 DEF Tenants, Callers, made, Cached
<1>3. idle' \subseteq Cached /\ due' \subseteq Tenants /\ last' \subseteq Tenants
  BY DEF Elapse, Reconfigure, TypeOK
<1>4. TypeOK'
  BY <1>1, <1>2, <1>3 DEF TypeOK
<1>5. LocalTypes' /\ HandsOK' /\ AllOwned'
  BY <1>1, <1>2 DEF LocalTypes, HandsOK, AllOwned, Owned
<1> QED BY <1>4, <1>5

-----------------------------------------------------------------------------
LEMMA NextIInv == IInv /\ [Next]_vars => IInv'
<1> SUFFICES ASSUME IInv, [Next]_vars PROVE IInv'
  OBVIOUS
<1>1. CASE UNCHANGED vars
  BY <1>1 DEF vars, IInv, TypeOK, LocalTypes, HandsOK, AllOwned, Owned, Tenants, Callers, made, Cached
<1>2. ASSUME NEW c \in Callers, Call(c) \/ CallerStep(c) \/ Await(c) PROVE IInv'
  BY <1>2, LookingSteps, VerdictSteps, TouchStep, CondemnStep, ReuseOrEvictStep, BuildStep, StoreStep
     DEF CallerStep, GetConnection, GetMongoConnection, runHealthCheck, runMongoHealthCheck,
         closeUnhealthyConnection, disconnectUnhealthyConnection,
         touchCachedConnection, touchCachedMongoConnection, touchRabbitConnection,
         buildTenantPostgresConnection, buildAndCacheNewConnection, dialRabbitMQ,
         cacheConnection, cacheMongoConnection, cacheRabbitConnection
<1>3. ASSUME NEW g \in Revals, RevalStep(g) PROVE IInv'
  BY <1>3, RevalWaitingSteps, RevalidateStep, ReconnectStep, SwapStep
     DEF RevalStep, revalidatePoolSettings, revalidateMongoPoolSettings, revalidateRabbitPoolSettings,
         reconnectPostgres, reconnectMongo, detectAndReconnectRabbitMQ,
         canStorePostgresConnection, canStoreMongoConnection, canStoreRabbitMQConnection,
         swapPostgresConnection, swapMongoConnection, swapRabbitMQConnection
<1>4. ASSUME NEW t \in Tenants, Evicted(t) \/ Elapse(t) \/ Reconfigure(t) PROVE IInv'
  BY <1>4, EvictedStep, OutsideSteps
<1>5. ASSUME NEW p \in Pools, Disconnect(p) \/ Dies(p) PROVE IInv'
  BY <1>5, OnlyCloses
<1>6. CASE Close \/ CloseMongo \/ CloseRabbit \/ CloserStep
  BY <1>6, CloseSteps, OnlyCloses DEF Close, CloseRabbit, CloserStep
<1> QED BY <1>1, <1>2, <1>3, <1>4, <1>5, <1>6 DEF Next

THEOREM Invariance == Spec => []IInv
<1> QED BY InitIInv, NextIInv, PTL DEF Spec

(* TypeOK of the connection managers, whatever their kind.                 *)
THEOREM TypeCorrect == Spec => []TypeOK
<1>1. IInv => TypeOK
  BY DEF IInv
<1> QED BY Invariance, <1>1, PTL

(* No manager leaks a pool: every one that is open is cached, or in the    *)
(* hands of a caller, of a revalidation or of Close, which will cache or   *)
(* close it.                                                               *)
THEOREM NoPoolLeaksHolds == Spec => []NoPoolLeaks
<1>1. IInv => NoPoolLeaks
  BY NoPoolLeaksForm DEF IInv
<1> QED BY Invariance, <1>1, PTL

-----------------------------------------------------------------------------
HandsOut(c) == Busy(c) /\ cpc'[c] = "returned" => pool'[c] = connections'[ask[c]]

(* Whatever the others do, it is caller c itself that returns.             *)
LEMMA OnlyItself ==
  ASSUME IInv, NEW c \in Callers, NEW b \in Callers, b # c, Call(c) \/ CallerStep(c) \/ Await(c)
  PROVE  HandsOut(b)
<1>0. DOMAIN cpc = Callers
  BY DEF IInv, TypeOK
<1> USE DEF Goto, Fails, Returns
<1>2. CASE Healthy(c) \/ Abandoned(c) \/ CondemnedCloses(c)
  <2>1. cpc'[b] \in {cpc[b], "lookup"}
    BY <1>0, <1>2 DEF Healthy, Abandoned, CondemnedCloses, PublishVerdict, End
  <2> QED BY <2>1 DEF HandsOut, Busy
<1>3. CASE \/ Call(c) \/ Await(c) \/ Lookup(c) \/ GetRabbitConnection(c) \/ Begin(c) \/ Ping(c) \/ Condemn(c)
           \/ snapshotCachedConnection(c) \/ tryReuseCachedConnection(c) \/ reuseHealthyConnection(c)
           \/ createRabbitConnection(c) \/ tryReuseOrEvictCachedConnectionLocked(c) \/ Build(c) \/ Store(c)
           \/ \E l \in {"spawned", "fetch"} : Touch(c, l)
  <2>1. cpc'[b] = cpc[b]
    BY <1>0, <1>3 DEF Call, Await, Lookup, GetRabbitConnection, Begin, Ping, Condemn, Touch,
                      snapshotCachedConnection, tryReuseCachedConnection, reuseHealthyConnection,
                      createRabbitConnection, tryReuseOrEvictCachedConnectionLocked, Build, Store
  <2> QED BY <2>1 DEF HandsOut, Busy
<1> QED
  BY <1>2, <1>3
     DEF CallerStep, GetConnection, GetMongoConnection, runHealthCheck, runMongoHealthCheck,
         closeUnhealthyConnection, disconnectUnhealthyConnection,
         touchCachedConnection, touchCachedMongoConnection, touchRabbitConnection,
         buildTenantPostgresConnection, buildAndCacheNewConnection, dialRabbitMQ,
         cacheConnection, cacheMongoConnection, cacheRabbitConnection

(* A call returns at four places: what it touched, what it found when it   *)
(* came to create a pool, and the rival's or its own when it came to cache *)
(* one.                                                                    *)
LEMMA Returning ==
  ASSUME IInv, NEW c \in Callers, Call(c) \/ CallerStep(c) \/ Await(c)
  PROVE  HandsOut(c)
<1>0. /\ DOMAIN cpc = Callers /\ DOMAIN pool = Callers /\ ask[c] \in Tenants
      /\ pool \in [Callers -> Pools \cup {NoPool}]
  BY DEF IInv, TypeOK, LocalTypes
<1> USE DEF Goto, Hold, Fails, Returns, HandsOut
<1>1. CASE Healthy(c) \/ Abandoned(c) \/ CondemnedCloses(c)
  <2>1. cpc'[c] # "returned"
    BY <1>0, <1>1 DEF Healthy, Abandoned, CondemnedCloses, PublishVerdict, End
  <2> QED BY <2>1
<1>2. CASE \/ Call(c) \/ Await(c) \/ Lookup(c) \/ GetRabbitConnection(c) \/ Begin(c) \/ Ping(c) \/ Condemn(c)
           \/ snapshotCachedConnection(c) \/ tryReuseCachedConnection(c) \/ Build(c)
  <2>1. cpc'[c] # "returned"
    BY <1>0, <1>2 DEF Call, Await, Lookup, GetRabbitConnection, Begin, Ping, Condemn,
                      snapshotCachedConnection, tryReuseCachedConnection, Build
  <2> QED BY <2>1
<1>3. ASSUME NEW l \in {"spawned", "fetch"}, Touch(c, l) PROVE HandsOut(c)
  BY <1>0, <1>3 DEF Touch, StillCached
<1>4. CASE reuseHealthyConnection(c)
  BY <1>0, <1>4 DEF reuseHealthyConnection
<1>5. CASE createRabbitConnection(c)
  BY <1>0, <1>5 DEF createRabbitConnection, CacheState
<1>6. CASE tryReuseOrEvictCachedConnectionLocked(c)
  BY <1>0, <1>6 DEF tryReuseOrEvictCachedConnectionLocked, CacheState
<1>7. CASE Store(c)
  BY <1>0, <1>7 DEF Store, CacheState
<1> QED
  BY <1>1, <1>2, <1>3, <1>4, <1>5, <1>6, <1>7
     DEF CallerStep, GetConnection, GetMongoConnection, runHealthCheck, runMongoHealthCheck,
         closeUnhealthyConnection, disconnectUnhealthyConnection,
         touchCachedConnection, touchCachedMongoConnection, touchRabbitConnection,
         buildTenantPostgresConnection, buildAndCacheNewConnection, dialRabbitMQ,
         cacheConnection, cacheMongoConnection, cacheRabbitConnection

LEMMA NobodyElseReturns ==
  ASSUME \/ \E g \in Revals : RevalStep(g)
         \/ \E t \in Tenants : Evicted(t) \/ Elapse(t) \/ Reconfigure(t)
         \/ \E p \in Pools : Disconnect(p) \/ Dies(p)
         \/ Close \/ CloseMongo \/ CloseRabbit \/ CloserStep
  PROVE  cpc' = cpc
<1>1. CASE \E g \in Revals : RevalStep(g)
  BY <1>1 DEF RevalStep, revalidatePoolSettings, revalidateMongoPoolSettings, revalidateRabbitPoolSettings,
         reconnectPostgres, reconnectMongo, detectAndReconnectRabbitMQ,
         canStorePostgresConnection, canStoreMongoConnection, canStoreRabbitMQConnection,
         swapPostgresConnection, swapMongoConnection, swapRabbitMQConnection,
         Spawn, Revalidate, Reconnect, CanStore, Swap, closeOldConnection
<1>2. CASE \E t \in Tenants : Evicted(t) \/ Elapse(t) \/ Reconfigure(t)
  BY <1>2 DEF Evicted, Elapse, Reconfigure
<1>3. CASE \E p \in Pools : Disconnect(p) \/ Dies(p)
  BY <1>3 DEF Disconnect, Dies
<1>4. CASE Close \/ CloseMongo \/ CloseRabbit \/ CloserStep
  BY <1>4 DEF Close, CloseRabbit, CloserStep, ClosePools, CloseMongo, CloseDisconnects, CloseReturns
<1> QED BY <1>1, <1>2, <1>3, <1>4

(* Whatever a call of GetConnection returns is what the cache holds for    *)
(* its tenant at that moment, in all three managers.                       *)
THEOREM HandedOutIsCachedHolds == Spec => HandedOutIsCached
<1>1. ASSUME IInv, Next PROVE \A c \in Callers : HandsOut(c)
  <2> SUFFICES ASSUME NEW b \in Callers PROVE HandsOut(b)
    OBVIOUS
  <2>1. ASSUME NEW c \in Callers, Call(c) \/ CallerStep(c) \/ Await(c) PROVE HandsOut(b)
    BY <1>1, <2>1, OnlyItself, Returning
  <2>2. CASE cpc' = cpc
    BY <2>2 DEF HandsOut, Busy
  <2> QED BY <1>1, <2>1, <2>2, NobodyElseReturns DEF Next
<1>2. IInv /\ [Next]_vars => [\A c \in Callers : HandsOut(c)]_vars
  BY <1>1
<1> QED BY Invariance, <1>2, PTL DEF HandedOutIsCached, HandsOut, Spec

-----------------------------------------------------------------------------
(* TenantSettings: what a pool is made from and kept at.                   *)

(* The limit n the manager sets: within its cap, or, when nobody gave one, *)
(* none or the package's.                                                  *)
Allowed(n, giver) ==
    n \in 1 .. Cap \/ (default < 1 /\ giver = "manager" /\ (n < 1 \/ n = PackageDefault))

(* A pool of a tenant.                                                     *)
TenantPool == [primary : DSNs \cup {Broken}, replica : DSNs \cup {NoDSN, Broken}, giver : {"tenant", "manager"},
               limit : Int, timeout : STRING \cup {Unset}]

(* Every answer still in use is of the form the Tenant Manager gives, and  *)
(* every pool of the form one is made in, the one a revalidation has read  *)
(* too: its settings are written back after the cache was left.            *)
SettingsInv ==
    /\ default \in Int /\ config \in Configs
    /\ cached # NotMade => cached \in TenantPool /\ Allowed(cached.limit, cached.giver)
    /\ read # NotMade => read \in TenantPool /\ Allowed(read.limit, read.giver)
    /\ step # "off" => fetched \in Configs

(* However the limit is asked for, by the module, at the top or not at     *)
(* all, what is resolved is allowed (clampPoolSettings), also once a new   *)
(* pool has taken it (withDefaults).                                       *)
LEMMA ResolvedIsAllowed ==
    ASSUME NEW c \in Configs, default \in Int
    PROVE  /\ clampPoolSettings(resolveEffectiveSettings(c).limit) \in Int
           /\ Allowed(clampPoolSettings(resolveEffectiveSettings(c).limit), Giver(c))
           /\ resolveEffectiveSettings(c).timeout \in STRING
           /\ Giver(c) \in {"tenant", "manager"}
           /\ PoolFrom(c) \in TenantPool /\ Allowed(PoolFrom(c).limit, PoolFrom(c).giver)
<1>1. Cap \in Nat /\ Cap > 0 /\ PackageDefault \in Nat
  BY SettingsAssumption
<1> DEFINE s == resolveConnectionSettingsFromConfig(c)
           n == IF s.limit > 0 THEN s.limit ELSE default
           m == clampPoolSettings(n)
<1>2. s.limit \in Int /\ s.timeout \in STRING
  BY SettingsAssumption DEF Configs, resolveConnectionSettingsFromConfig
<1>3. (s.limit > 0 <=> Giver(c) = "tenant") /\ Giver(c) \in {"tenant", "manager"}
  BY DEF Giver
<1>4. n \in Int /\ (n < 1 => default < 1 /\ Giver(c) = "manager")
  BY <1>2, <1>3
<1>5. m \in Int /\ (m \in 1 .. Cap \/ (m < 1 /\ m = n))
  BY <1>1, <1>4 DEF clampPoolSettings
<1>6. Allowed(m, Giver(c)) /\ Allowed(withDefaults(m), Giver(c)) /\ withDefaults(m) \in Int
  BY <1>1, <1>4, <1>5 DEF Allowed, withDefaults
<1>7. resolveConnectionPoolSettings(c) = m
  BY DEF resolveConnectionPoolSettings
<1>8. resolveEffectiveSettings(c).limit = n /\ resolveEffectiveSettings(c).timeout = s.timeout
  BY DEF resolveEffectiveSettings
<1> HIDE DEF s, n, m
<1>9. PoolFrom(c) \in TenantPool /\ PoolFrom(c).limit = withDefaults(m) /\ PoolFrom(c).giver = Giver(c)
  <2>1. c.primary \in DSNs \cup {Broken} /\ c.replica \in DSNs \cup {NoDSN, Broken}
    BY DEF Configs
  <2>. QED BY <2>1, <1>3, <1>6, <1>7 DEF PoolFrom, TenantPool
<1>10. clampPoolSettings(resolveEffectiveSettings(c).limit) = m
  BY <1>8 DEF m
<1>. QED BY <1>2, <1>3, <1>5, <1>6, <1>8, <1>9, <1>10

(* The default stays, so what it allows stays allowed.                     *)
LEMMA DefaultStays ==
    ASSUME [SettingsNext]_svars
    PROVE  default' = default /\ \A n, a : Allowed(n, a)' <=> Allowed(n, a)
<1>1. default' = default
  BY DEF SettingsNext, Retune, Create, Leave, RevalidateSettings, detectAndReconnectPostgres, reconnects,
         ReadSettings, ApplyConnectionSettings, svars
<1>. QED BY <1>1 DEF Allowed

(* Pools and answers stay of the right form: every step.                   *)
LEMMA SettingsStep == SettingsInv /\ [SettingsNext]_svars => SettingsInv' /\ WithinCap'
<1> SUFFICES ASSUME SettingsInv, [SettingsNext]_svars PROVE SettingsInv' /\ WithinCap'
  OBVIOUS
<1> DEFINE Good(p) == p \in TenantPool /\ Allowed(p.limit, p.giver)
<1>1. ASSUME /\ config' \in Configs
             /\ cached' # NotMade => Good(cached')
             /\ read' # NotMade => Good(read')
             /\ step' # "off" => fetched' \in Configs
      PROVE  SettingsInv' /\ WithinCap'
  <2>1. default' \in Int
    BY DefaultStays DEF SettingsInv
  <2>2. SettingsInv'
    BY <2>1, <1>1, DefaultStays DEF SettingsInv, Allowed, TenantPool
  <2>. QED BY <2>2 DEF SettingsInv, WithinCap, Allowed
<1>0. /\ default \in Int /\ config \in Configs
      /\ cached # NotMade => Good(cached)
      /\ read # NotMade => Good(read)
      /\ step # "off" => fetched \in Configs
  BY DEF SettingsInv
<1> HIDE DEF Good
<1>2. CASE Retune
  <2>1. config' \in Configs
    BY <1>2, <1>0 DEF Retune, Configs
  <2>. QED BY <2>1, <1>0, <1>1, <1>2 DEF Retune
<1>3. CASE Create
  <2>1. Good(cached')
    BY <1>3, <1>0, ResolvedIsAllowed DEF Create, Good
  <2>. QED BY <2>1, <1>0, <1>1, <1>3 DEF Create
<1>4. CASE Leave
  BY <1>0, <1>1, <1>4 DEF Leave
<1>5. CASE RevalidateSettings
  BY <1>0, <1>1, <1>5 DEF RevalidateSettings
<1>6. CASE detectAndReconnectPostgres
  BY <1>0, <1>1, <1>6 DEF detectAndReconnectPostgres
<1>7. CASE reconnects
  <2>1. Good(PoolFrom(fetched))
    BY <1>7, <1>0, ResolvedIsAllowed DEF reconnects, Good
  <2>. QED BY <2>1, <1>0, <1>1, <1>7 DEF reconnects
<1>8. CASE ReadSettings
  BY <1>0, <1>1, <1>8 DEF ReadSettings
<1>9. CASE ApplyConnectionSettings
  <2> DEFINE s == newSettings
  <2>1. fetched \in Configs
    BY <1>9, <1>0 DEF ApplyConnectionSettings
  <2>2. s.limit = clampPoolSettings(resolveEffectiveSettings(fetched).limit) /\ s.timeout \in STRING
    BY <2>1, <1>0, ResolvedIsAllowed DEF resolveEffectiveSettings, newSettings
  <2>3. s.limit \in Int /\ Allowed(s.limit, Giver(fetched)) /\ Giver(fetched) \in {"tenant", "manager"}
    BY <2>1, <2>2, <1>0, ResolvedIsAllowed
  <2>4. CASE UNCHANGED cached
    BY <2>4, <1>0, <1>1, <1>9 DEF ApplyConnectionSettings
  <2>5. CASE ~UNCHANGED cached
    <3>1. /\ read # NotMade
          /\ \E t \in {read.timeout} \cup {s.timeout} :
               \/ cached' = [Tuned(read) EXCEPT !.timeout = t]
               \/ cached' = [read EXCEPT !.timeout = t]
      BY <2>5, <1>9 DEF ApplyConnectionSettings
    <3> HIDE DEF s
    <3>2. Good(read)
      BY <3>1, <1>0
    <3>3. Good(cached')
      <4>1. Good(Tuned(read))
        <5>1. Tuned(read) \in TenantPool /\ Tuned(read).limit = newSettings.limit /\ Tuned(read).giver = Giver(fetched)
          BY <3>2, <2>3 DEF TenantPool, Good, Tuned, s
        <5>. QED BY <5>1, <2>3 DEF Good, s
      <4>2. ASSUME NEW q, Good(q), NEW t \in STRING \cup {Unset} PROVE Good([q EXCEPT !.timeout = t])
        <5>1. /\ [q EXCEPT !.timeout = t] \in TenantPool
              /\ [q EXCEPT !.timeout = t].limit = q.limit /\ [q EXCEPT !.timeout = t].giver = q.giver
          BY <4>2 DEF Good, TenantPool
        <5>. QED BY <5>1, <4>2 DEF Good
      <4>3. read.timeout \in STRING \cup {Unset}
        BY <3>2 DEF Good, TenantPool
      <4>. QED BY <3>1, <3>2, <2>2, <4>1, <4>2, <4>3
    <3>. QED BY <3>3, <1>0, <1>1, <1>9 DEF ApplyConnectionSettings
  <2>. QED BY <2>4, <2>5
<1>10. CASE UNCHANGED svars
  BY <1>0, <1>1, <1>10 DEF svars
<1>. QED BY <1>2, <1>3, <1>4, <1>5, <1>6, <1>7, <1>8, <1>9, <1>10 DEF SettingsNext

(* Two pools serve the same databases exactly when hasPostgresConfig-      *)
(* Changed sees no difference, however "no replica" is spelled.            *)
LEMMA ServesAlike ==
    ASSUME NEW p, NEW c, p # NotMade
    PROVE  hasPostgresConfigChanged(p, c) <=> Serves(p) # Serves(c)
<1>1. Serves(p) = Serves(c) <=>
        p.primary = c.primary /\ {p.replica} \ {NoDSN, p.primary} = {c.replica} \ {NoDSN, c.primary}
  BY DEF Serves
<1>2. ASSUME p.primary = c.primary
      PROVE  {p.replica} \ {NoDSN, p.primary} = {c.replica} \ {NoDSN, c.primary} <=>
             normalizeReplicaConnStr(p.replica, p.primary) = normalizeReplicaConnStr(c.replica, c.primary)
  BY <1>2 DEF normalizeReplicaConnStr
<1>. QED BY <1>1, <1>2 DEF hasPostgresConfigChanged

(* The decision of detectAndReconnectPostgres is made on what is cached    *)
(* when it decides, whatever happened since the answer was fetched.        *)
LEMMA ReconnectsForCauseStep ==
    ASSUME [SettingsNext]_svars PROVE ReconnectsForCause
<1> SUFFICES ASSUME step = "detect", step' # step, cached # NotMade, Buildable(fetched)
             PROVE  step' = "reconnect" <=> Serves(cached) # Serves(fetched)
  BY DEF ReconnectsForCause
<1>1. detectAndReconnectPostgres
  BY DEF SettingsNext, Retune, Create, Leave, RevalidateSettings, reconnects, ReadSettings,
         ApplyConnectionSettings, svars
<1>2. step' = IF hasPostgresConfigChanged(cached, fetched) THEN "reconnect" ELSE "apply"
  BY <1>1 DEF detectAndReconnectPostgres
<1>. QED BY <1>2, ServesAlike

(* SettingsSound: for every set of connection strings, limits asked for,   *)
(* default, zero too, and cap, a pool stays within the cap on both ways to *)
(* set it (clampPoolSettings), unless neither the tenant nor the options   *)
(* of the manager gave a limit; and a revalidation reconnects exactly when *)
(* the tenant's databases changed (detectAndReconnectPostgres).            *)
THEOREM SettingsSoundHolds == SettingsSpec => SettingsSound
<1>1. SettingsInit => SettingsInv
  BY SettingsAssumption DEF SettingsInit, SettingsInv
<1>2. SettingsInv /\ [SettingsNext]_svars => [WithinCap' /\ ReconnectsForCause]_svars
  BY SettingsStep, ReconnectsForCauseStep
<1>3. SettingsInv /\ [SettingsNext]_svars => SettingsInv'
  BY SettingsStep
<1>. QED BY <1>1, <1>2, <1>3, PTL DEF SettingsSpec, SettingsSound

-----------------------------------------------------------------------------
(* TenantClient: the client of the Tenant Manager.                         *)

(* What the Tenant Manager may hold of the tenant.                         *)
Registry == [known : BOOLEAN, halted : BOOLEAN, association : {"absent", "active", "suspended"}]

(* The breaker has counted no more failures than there were since a call   *)
(* was last served, and opens on nothing else.                             *)
BreakerOK ==
    /\ bad \in 0 .. cbLimit /\ breaker.failures <= bad
    /\ breaker.state # "closed" => breaker.failures = cbLimit
    /\ lapsed => breaker.state = "open"

(* An answer that will be reported as an effect is of one.                 *)
Effect(op, a) == a \in {"ok", "conflict"} \/ (op \in Transitions /\ a \in {"other2xx", "garbled"})

(* From the answer on, what client c will report, or has reported, as an   *)
(* effect was one.                                                         *)
ClientTruth(c) ==
    /\ at[c] = "answered" /\ Effect(errand[c], answer[c]) => reached[c]
    /\ at[c] # "answered" /\ told[c] \in {"ok", "conflict"} => reached[c]

(* The inductive invariant.                                                *)
ClientInv ==
    /\ ClientTypeOK /\ registry \in Registry /\ lapsed \in BOOLEAN
    /\ reached \in [Clients -> BOOLEAN] /\ DOMAIN told = Clients
    /\ BreakerOK /\ \A c \in Clients : ClientTruth(c)

(* What the Tenant Manager answers, and holds after it, agree: a success   *)
(* is of what now holds, a conflict of what held already.                  *)
LEMMA RepliesAreTrue ==
    ASSUME registry \in Registry, NEW op \in Ops
    PROVE  /\ after(op) \in Registry
           /\ replies(op) = "ok" => holds(op, after(op))
           /\ replies(op) = "conflict" => holds(op, registry)
           /\ replies(op) \in {"ok", "denied", "conflict"}
           /\ op \notin Writes => after(op) = registry
<1>1. CASE op = "config"
  BY <1>1 DEF Registry, Ops, after, replies, holds, Writes, Transitions
<1>2. CASE op = "principals"
  BY <1>2 DEF Registry, Ops, after, replies, holds, Writes, Transitions
<1>3. CASE op = "active"
  BY <1>3 DEF Registry, Ops, after, replies, holds, Writes, Transitions
<1>4. CASE op = "metadata"
  BY <1>4 DEF Registry, Ops, after, replies, holds, Writes, Transitions
<1>5. CASE op = "create"
  BY <1>5 DEF Registry, Ops, after, replies, holds, Writes, Transitions
<1>6. CASE op = "associate"
  BY <1>6 DEF Registry, Ops, after, replies, holds, Writes, Transitions
<1>7. CASE op = "suspend"
  BY <1>7 DEF Registry, Ops, after, replies, holds, Writes, Transitions
<1>8. CASE op = "reactivate"
  BY <1>8 DEF Registry, Ops, after, replies, holds, Writes, Transitions
<1>. QED BY <1>1, <1>2, <1>3, <1>4, <1>5, <1>6, <1>7, <1>8 DEF Ops

(* What a step says to the breaker about an answer.                        *)
Records(a) ==
    \/ unavailable(a) /\ recordFailure
    \/ ~unavailable(a) /\ recordSuccess
    \/ ~unavailable(a) /\ a \notin {"ok", "denied"} /\ recordNothing

(* What a step may leave in the breaker.                                   *)
Breaker == [failures : 0 .. cbLimit, state : {"closed", "open", "halfOpen"}]

(* Each reading of the statuses counts the failures of the service, and no *)
(* call that was served as one.                                            *)
LEMMA BreakerCounts ==
    ASSUME BreakerOK, breaker \in Breaker, lapsed \in BOOLEAN, NEW a, Records(a),
           bad' = IF unavailable(a) THEN (IF bad < cbLimit THEN bad + 1 ELSE bad)
                  ELSE IF a \in {"ok", "denied"} THEN 0 ELSE bad
    PROVE  BreakerOK' /\ breaker' \in Breaker /\ lapsed' \in BOOLEAN
<1>1. cbLimit \in Nat /\ cbLimit > 0 /\ breaker.failures \in 0 .. cbLimit /\ bad \in 0 .. cbLimit
  BY ClientsAssumption DEF Breaker, BreakerOK
<1>2. CASE unavailable(a) /\ recordFailure
  <2> DEFINE n == IF breaker.failures < cbLimit THEN breaker.failures + 1 ELSE breaker.failures
  <2>1. n \in 0 .. cbLimit /\ bad' \in 0 .. cbLimit /\ n <= bad'
    BY <1>1, <1>2 DEF BreakerOK
  <2>2. breaker.state # "closed" => n = cbLimit
    BY <1>1 DEF BreakerOK
  <2>3. /\ breaker' = [failures |-> n, state |-> IF n >= cbLimit THEN "open" ELSE breaker.state]
        /\ lapsed' = FALSE
    BY <1>2 DEF recordFailure
  <2> HIDE DEF n
  <2>4. n >= cbLimit => n = cbLimit
    BY <2>1, <1>1
  <2>. QED BY <2>1, <2>2, <2>3, <2>4, <1>1 DEF BreakerOK, Breaker
<1>3. CASE ~unavailable(a) /\ recordSuccess
  <2>1. breaker' = [failures |-> 0, state |-> "closed"] /\ lapsed' = FALSE
    BY <1>3 DEF recordSuccess
  <2>2. bad' \in 0 .. cbLimit
    BY <1>1, <1>3
  <2>3. breaker' \in Breaker /\ breaker'.failures = 0 /\ breaker'.state = "closed"
    BY <2>1, <1>1 DEF Breaker
  <2>4. 0 <= bad'
    BY <2>2, <1>1
  <2>5. BreakerOK'
    <3>1. breaker'.failures <= bad'
      BY <2>3, <2>4
    <3>2. ~lapsed' /\ ~(breaker'.state # "closed")
      BY <2>1, <2>3
    <3>. QED BY <2>2, <3>1, <3>2 DEF BreakerOK
  <2>6. lapsed' \in BOOLEAN
    BY <2>1
  <2>. QED BY <2>3, <2>5, <2>6
<1>4. CASE ~unavailable(a) /\ a \notin {"ok", "denied"} /\ recordNothing
  <2>1. bad' = bad /\ breaker' = breaker /\ lapsed' = lapsed
    BY <1>4 DEF recordNothing
  <2>. QED BY <2>1 DEF BreakerOK
<1>. QED BY <1>2, <1>3, <1>4 DEF Records

(* A client that does not move knows what it knew.                         *)
LEMMA OtherClient ==
    ASSUME NEW d \in Clients, ClientTruth(d), errand' = errand,
           at'[d] = at[d], answer'[d] = answer[d], reached'[d] = reached[d], told'[d] = told[d]
    PROVE  ClientTruth(d)'
BY DEF ClientTruth, Effect

(* The end of a call: the breaker is told, and so is the caller.           *)
LEMMA ReturnStep ==
    ASSUME ClientInv, NEW c \in Clients, NEW op \in Ops, NEW rec, NEW v, returns(c, op, rec, v),
           rec => Records(answer[c]), v \in {"ok", "conflict"} => Effect(op, answer[c])
    PROVE  ClientInv'
<1>1. /\ at[c] = "answered" /\ errand[c] = op /\ at' = [at EXCEPT ![c] = "idle"] /\ Records(answer[c])
      /\ told' = [told EXCEPT ![c] = v] /\ answer' = [answer EXCEPT ![c] = "none"]
      /\ UNCHANGED <<errand, registry, reached, troubles>>
  BY DEF returns
<1>2. BreakerOK' /\ breaker' \in Breaker /\ lapsed' \in BOOLEAN
  <2>1. bad' = IF unavailable(answer[c]) THEN (IF bad < cbLimit THEN bad + 1 ELSE bad)
               ELSE IF answer[c] \in {"ok", "denied"} THEN 0 ELSE bad
    BY DEF returns
  <2>. QED BY <2>1, <1>1, BreakerCounts DEF ClientInv, ClientTypeOK, Breaker
<1>3. ClientTypeOK'
  BY <1>1, <1>2 DEF ClientInv, ClientTypeOK, Breaker, Answers
<1>4. DOMAIN told' = Clients /\ reached' \in [Clients -> BOOLEAN] /\ registry' \in Registry
  BY <1>1 DEF ClientInv
<1>5. ClientTruth(c)'
  <2>1. at'[c] = "idle" /\ told'[c] = v /\ reached'[c] = reached[c]
    BY <1>1 DEF ClientInv, ClientTypeOK
  <2>2. v \in {"ok", "conflict"} => reached[c]
    BY <1>1 DEF ClientInv, ClientTruth
  <2>. QED BY <2>1, <2>2 DEF ClientTruth
<1>6. \A d \in Clients \ {c} : ClientTruth(d)'
  BY <1>1, OtherClient DEF ClientInv, ClientTypeOK
<1>. QED BY <1>2, <1>3, <1>4, <1>5, <1>6 DEF ClientInv

(* Before an answer: the gate, the token, the Tenant Manager's turn.       *)
LEMMA ServedStep ==
    ASSUME ClientInv, NEW c \in Clients, served(c)
    PROVE  ClientInv'
<1>1. PICK a \in Answers :
        /\ answer' = [answer EXCEPT ![c] = a]
        /\ \/ a = replies(errand[c]) /\ UNCHANGED troubles
              /\ registry' = IF a = "ok" THEN after(errand[c]) ELSE registry
           \/ /\ troubles < MaxTroubles /\ troubles' = troubles + 1
              /\ \/ a \in {"none", "garbled", "other2xx"} /\ replies(errand[c]) = "ok"
                    /\ registry' = after(errand[c])
                 \/ a \in {"none", "5xx", "rejected", "redirect"} /\ UNCHANGED registry
  BY DEF served
<1>2. /\ at' = [at EXCEPT ![c] = "answered"] /\ reached' = [reached EXCEPT ![c] = holds(errand[c], registry')]
      /\ UNCHANGED <<errand, breaker, lapsed, told, bad>>
  BY DEF served
<1> DEFINE op == errand[c]
<1>3. op \in Ops /\ registry \in Registry
  BY DEF ClientInv, ClientTypeOK
<1>4. /\ after(op) \in Registry
      /\ replies(op) = "ok" => holds(op, after(op))
      /\ replies(op) = "conflict" => holds(op, registry)
      /\ replies(op) \in {"ok", "denied", "conflict"}
  BY <1>3, RepliesAreTrue
<1>5. registry' \in Registry /\ troubles' \in 0 .. MaxTroubles
  BY <1>1, <1>3, <1>4, ClientsAssumption DEF ClientInv, ClientTypeOK
<1>6. Effect(op, a) => holds(op, registry')
  <2> HIDE DEF op
  <2>1. op = errand[c]
    BY DEF op
  <2>2. CASE a = replies(op) /\ registry' = IF a = "ok" THEN after(op) ELSE registry
    <3>1. a \notin {"other2xx", "garbled"}
      BY <2>2, <1>4
    <3>2. CASE a = "ok"
      BY <2>2, <3>2, <1>4
    <3>3. CASE a = "conflict"
      BY <2>2, <3>3, <1>4
    <3>. QED BY <3>1, <3>2, <3>3 DEF Effect
  <2>3. CASE a \in {"none", "garbled", "other2xx"} /\ replies(op) = "ok" /\ registry' = after(op)
    BY <2>3, <1>4
  <2>4. CASE a \in {"none", "5xx", "rejected", "redirect"}
    BY <2>4 DEF Effect
  <2>. QED BY <2>1, <2>2, <2>3, <2>4, <1>1
<1>7. holds(op, registry') \in BOOLEAN
  BY <1>3, <1>5 DEF holds, Ops, Registry
<1>8. ClientTypeOK'
  BY <1>1, <1>2, <1>5 DEF ClientInv, ClientTypeOK, Registry
<1>9. BreakerOK' /\ lapsed' \in BOOLEAN /\ DOMAIN told' = Clients /\ reached' \in [Clients -> BOOLEAN]
  BY <1>2, <1>7 DEF ClientInv, BreakerOK
<1>10. ClientTruth(c)'
  <2>1. at'[c] = "answered" /\ answer'[c] = a /\ reached'[c] = holds(op, registry') /\ errand'[c] = op
    BY <1>1, <1>2 DEF ClientInv, ClientTypeOK
  <2>. QED BY <2>1, <1>6 DEF ClientTruth
<1>11. \A d \in Clients \ {c} : ClientTruth(d)'
  BY <1>1, <1>2, OtherClient DEF ClientInv, ClientTypeOK
<1>. QED BY <1>5, <1>8, <1>9, <1>10, <1>11 DEF ClientInv

(* The steps of a call before its answer is read, and cbTimeout.           *)
LEMMA GateSteps ==
    ASSUME ClientInv, NEW c \in Clients, Calls(c) \/ checkCircuitBreaker(c) \/ bearerTokenFails(c)
    PROVE  ClientInv'
<1>1. errand \in [Clients -> Ops] /\ at \in [Clients -> {"idle", "gate", "ready", "answered"}]
  BY DEF ClientInv, ClientTypeOK
<1>2. PICK l \in {"idle", "gate", "ready"} : at' = [at EXCEPT ![c] = l]
  BY DEF Calls, checkCircuitBreaker, bearerTokenFails
<1>3. UNCHANGED <<errand, registry, answer, reached, bad>> /\ troubles' \in 0 .. MaxTroubles
  BY ClientsAssumption DEF Calls, checkCircuitBreaker, bearerTokenFails, ClientInv, ClientTypeOK
<1>4. \/ UNCHANGED <<breaker, lapsed>>
      \/ lapsed' = FALSE /\ breaker' = breaker
      \/ lapsed /\ lapsed' = FALSE /\ breaker' = [breaker EXCEPT !.state = "halfOpen"]
  BY DEF Calls, checkCircuitBreaker, bearerTokenFails
<1>5. \/ told' = told
      \/ told' = [told EXCEPT ![c] = "circuitOpen"] \/ told' = [told EXCEPT ![c] = "error"]
  BY DEF Calls, checkCircuitBreaker, bearerTokenFails
<1>6. BreakerOK' /\ breaker' \in Breaker /\ lapsed' \in BOOLEAN
  <2>1. BreakerOK /\ breaker \in Breaker /\ lapsed \in BOOLEAN /\ bad' = bad
    BY <1>3 DEF ClientInv, ClientTypeOK, Breaker
  <2>2. CASE UNCHANGED <<breaker, lapsed>>
    BY <2>1, <2>2 DEF BreakerOK
  <2>3. CASE lapsed' = FALSE /\ breaker' = breaker
    BY <2>1, <2>3 DEF BreakerOK
  <2>4. CASE lapsed /\ lapsed' = FALSE /\ breaker' = [breaker EXCEPT !.state = "halfOpen"]
    <3>1. breaker' \in Breaker /\ breaker'.failures = breaker.failures
      BY <2>1, <2>4 DEF Breaker
    <3>2. breaker.failures = cbLimit
      BY <2>1, <2>4 DEF BreakerOK
    <3>3. BreakerOK'
      BY <2>1, <2>4, <3>1, <3>2 DEF BreakerOK
    <3>. QED BY <2>4, <3>1, <3>3
  <2>. QED BY <1>4, <2>2, <2>3, <2>4
<1>7. ClientTypeOK'
  BY <1>1, <1>2, <1>3, <1>6 DEF ClientInv, ClientTypeOK, Breaker
<1>8. at[c] # "answered" /\ at'[c] # "answered"
  BY <1>1, <1>2 DEF Calls, checkCircuitBreaker, bearerTokenFails
<1>9. ClientTruth(c)'
  <2>1. told'[c] \in {"ok", "conflict"} => told'[c] = told[c]
    BY <1>5 DEF ClientInv
  <2>. QED BY <2>1, <1>3, <1>8 DEF ClientInv, ClientTruth
<1>10. \A d \in Clients \ {c} : ClientTruth(d)'
  <2> SUFFICES ASSUME NEW d \in Clients \ {c} PROVE ClientTruth(d)'
    OBVIOUS
  <2>1. at'[d] = at[d] /\ told'[d] = told[d]
    BY <1>1, <1>2, <1>5 DEF ClientInv
  <2>. QED BY <2>1, <1>3, OtherClient DEF ClientInv
<1>11. DOMAIN told' = Clients
  BY <1>5 DEF ClientInv
<1>. QED BY <1>3, <1>6, <1>7, <1>9, <1>10, <1>11 DEF ClientInv

(* Each kind of call reads the answer in its own way, and all of them as   *)
(* ReturnStep asks (handleGetTenantConfigStatus and the others).           *)
LEMMA ReadingSteps ==
    ASSUME ClientInv, NEW c \in Clients,
           \/ GetTenantConfig(c) \/ GetTenantPrincipals(c) \/ GetTenantMetadata(c)
           \/ GetActiveTenantsByService(c) \/ CreateTenant(c) \/ AssociateService(c)
           \/ SuspendService(c) \/ ReactivateTenant(c)
    PROVE  ClientInv'
<1> DEFINE a == answer[c]
<1>1. /\ handleGetTenantConfigStatus(a) => Records(a)
      /\ anyStatus(a) => Records(a)
      /\ handleCreateTenantStatus(a) => Records(a)
      /\ handleAssociateServiceStatus(a) => Records(a)
      /\ handleStateTransitionStatus(a) => Records(a)
  <2> HIDE DEF a
  <2>1. handleGetTenantConfigStatus(a) => Records(a)
    BY DEF handleGetTenantConfigStatus, Records
  <2>2. anyStatus(a) => Records(a)
    BY DEF anyStatus, Records
  <2>3. handleCreateTenantStatus(a) => Records(a)
    BY DEF handleCreateTenantStatus, Records
  <2>4. handleAssociateServiceStatus(a) => Records(a)
    BY DEF handleAssociateServiceStatus, Records
  <2>5. handleStateTransitionStatus(a) => Records(a)
    BY DEF handleStateTransitionStatus, Records
  <2>. QED BY <2>1, <2>2, <2>3, <2>4, <2>5
<1>2. \A op \in Ops : /\ readResult(a) \in {"ok", "conflict"} => Effect(op, a)
                      /\ writeResult(a) \in {"ok", "conflict"} => Effect(op, a)
  BY DEF readResult, writeResult, Effect
<1>3. \A op \in Transitions : transitionResult(a) \in {"ok", "conflict"} => Effect(op, a)
  BY DEF transitionResult, Effect
<1>4. {"config", "principals", "active", "metadata", "create", "associate"} \cup Transitions \subseteq Ops
  BY DEF Ops, Transitions
<1>5. "suspend" \in Transitions /\ "reactivate" \in Transitions
  BY DEF Transitions
<1> HIDE DEF a
<1>6. a = answer[c]
  BY DEF a
<1>7. CASE GetTenantConfig(c)
  BY <1>1, <1>2, <1>4, <1>6, <1>7, ReturnStep DEF GetTenantConfig
<1>8. CASE GetTenantPrincipals(c)
  BY <1>1, <1>2, <1>4, <1>6, <1>8, ReturnStep DEF GetTenantPrincipals
<1>9. CASE GetTenantMetadata(c)
  BY <1>1, <1>2, <1>4, <1>6, <1>9, ReturnStep DEF GetTenantMetadata
<1>10. CASE GetActiveTenantsByService(c)
  BY <1>1, <1>2, <1>4, <1>6, <1>10, ReturnStep DEF GetActiveTenantsByService
<1>11. CASE CreateTenant(c)
  BY <1>1, <1>2, <1>4, <1>6, <1>11, ReturnStep DEF CreateTenant
<1>12. CASE AssociateService(c)
  BY <1>1, <1>2, <1>4, <1>6, <1>12, ReturnStep DEF AssociateService
<1>13. CASE SuspendService(c)
  BY <1>1, <1>3, <1>4, <1>5, <1>6, <1>13, ReturnStep DEF SuspendService, doStateTransition
<1>14. CASE ReactivateTenant(c)
  BY <1>1, <1>3, <1>4, <1>5, <1>6, <1>14, ReturnStep DEF ReactivateTenant, doStateTransition
<1>. QED BY <1>7, <1>8, <1>9, <1>10, <1>11, <1>12, <1>13, <1>14

(* ClientSound: for every number of callers, threshold and amount of       *)
(* trouble, the client's breaker (checkCircuitBreaker, recordFailure) is   *)
(* open only after cbThreshold failures with no call served among them,    *)
(* and who is told that a write took effect is told the truth.             *)
THEOREM ClientSoundHolds == ClientSpec => []ClientSound
<1>1. ClientInit => ClientInv
  <2> SUFFICES ASSUME ClientInit PROVE ClientInv
    OBVIOUS
  <2>1. breaker = [failures |-> 0, state |-> "closed"] /\ bad = 0 /\ cbLimit \in Nat /\ lapsed = FALSE
    BY ClientsAssumption DEF ClientInit
  <2>2. BreakerOK
    BY <2>1 DEF BreakerOK
  <2>3. registry \in Registry
    BY DEF ClientInit, Registry
  <2>4. ClientTypeOK
    BY <2>1, <2>3, ClientsAssumption DEF ClientInit, ClientTypeOK, Registry, Answers
  <2>5. \A c \in Clients : ClientTruth(c)
    BY DEF ClientInit, ClientTruth
  <2>. QED BY <2>2, <2>3, <2>4, <2>5 DEF ClientInit, ClientInv
<1>2. ClientInv /\ [ClientNext]_cvars => ClientInv'
  <2> SUFFICES ASSUME ClientInv, [ClientNext]_cvars PROVE ClientInv'
    OBVIOUS
  <2>1. CASE Lapses
    BY <2>1 DEF Lapses, ClientInv, ClientTypeOK, BreakerOK, ClientTruth, Effect
  <2>2. CASE UNCHANGED cvars
    BY <2>2 DEF cvars, ClientInv, ClientTypeOK, BreakerOK, ClientTruth, Effect
  <2>3. ASSUME NEW c \in Clients, clientStep(c) PROVE ClientInv'
    BY <2>3, GateSteps, ServedStep, ReadingSteps DEF clientStep
  <2>. QED BY <2>1, <2>2, <2>3 DEF ClientNext
<1>3. ClientInv => ClientSound
  <2> SUFFICES ASSUME ClientInv PROVE ClientSound
    OBVIOUS
  <2>1. breaker.state = "open" => bad = cbLimit
    BY ClientsAssumption DEF ClientInv, BreakerOK
  <2>. QED BY <2>1 DEF ClientInv, ClientTruth, ClientSound
<1>. QED BY <1>1, <1>2, <1>3, PTL DEF ClientSpec

-----------------------------------------------------------------------------
(* TenantLifecycle: the consumer of a tenant and the caches of its         *)
(* configuration.                                                          *)

(* Where a request, the listener or a queue loop can be, and what it can   *)
(* have been told to do afterwards.                                        *)
Labels == {"idle", "ensure", "load", "client", "http", "set2", "set1", "onLoaded", "loaded", "notLoaded",
           "takeLock", "lock", "check", "start", "done", "remove", "invalidate", "closePools", "removed",
           "stop", "stopLock", "forget", "reload", "notify", "first", "again", "jitter", "added", "queue", "consume"}
Conts  == {"idle", "first", "again", "done", "reload", "notify"}

(* The types, by what keeps them.                                          *)
WorldTypes ==
    /\ case \in Cases /\ truth \in [v : 0 .. MaxVersion, suspended : BOOLEAN]
    /\ \A e \in news : e.v \in Nat
ControlTypes == pc \in [Procs -> Labels] /\ cont \in [Procs -> Conts]
Entries == [v : Nat, fresh : BOOLEAN, src : {"api", "event"}]
Breakers == [failures : 0 .. cbThreshold, state : {"closed", "open", "halfOpen"}]
CacheTypes ==
    /\ tier1 \in [Sides -> {None} \cup Entries] /\ tier2 \in [Sides -> {None} \cup Nat]
    /\ got \in [Procs -> Nat] /\ loadLock \in [Sides -> Procs \cup {Nobody}]
    /\ cb \in [Sides -> Breakers]
ConsumerTypes ==
    /\ tenant \in Loops \cup {Nobody} /\ known \in BOOLEAN /\ shut \in BOOLEAN /\ cancelled \subseteq Loops
    /\ holder \in [Locks -> Procs \cup {Nobody}] /\ locks \in Locks \cup {Nobody}
    /\ mylock \in [Procs -> Locks \cup {Nobody}]
    /\ retries \in 0 .. maxRetryBeforeDegraded
LifecycleTypes == WorldTypes /\ ControlTypes /\ CacheTypes /\ ConsumerTypes

(* A load under way holds the load lock, and what it has is not stale.     *)
LoadOK(p) ==
    /\ pc[p] \in {"client", "http", "set2", "set1", "onLoaded"} => loadLock[SideOf(p)] = p
    /\ pc[p] \in {"set2", "set1"} /\ SideOf(p) = Given => got[p] >= floor

(* While an invalidation is clean no load runs on the dispatcher's side,   *)
(* and its tier 1 has nothing that was loaded.                             *)
CleanOK ==
    /\ floor \in 0 .. truth.v /\ NothingStale
    /\ clean # {} => loadLock[Given] = Nobody /\ (tier1[Given] = None \/ tier1[Given].src = "event")

(* Nobody deletes the consumer's lock, who waits for it waits for the one  *)
(* there is, and who is inside found no consumer (doubleCheck).            *)
LockedOut(p) ==
    /\ pc[p] \notin {"stop", "stopLock", "forget"}
    /\ pc[p] \in {"lock", "check", "start"} => mylock[p] = locks /\ locks \in Locks
    /\ pc[p] \in {"check", "start"} => holder[locks] = p
    /\ pc[p] = "start" => tenant = Nobody

(* The inductive invariant.                                                *)
LifecycleInv ==
    /\ LifecycleTypes /\ CleanOK /\ \A p \in Procs : LoadOK(p)
    /\ ~Stoppable => OneConsumer /\ \A p \in Procs : LockedOut(p)

(* What the Tenant Manager says keeps its form, and who runs is settled at *)
(* the start.                                                              *)
LEMMA WorldStep ==
    ASSUME WorldTypes, [LifecycleNext]_lvars
    PROVE  WorldTypes' /\ case' = case /\ Procs' = Procs
<1> USE DEF World, Caches, Consumer, LockSet, Ghost, Move, ThenTo, Done
<1>1. ASSUME NEW p \in Procs, EnsureConsumerStarted(p) \/ EnsureLoaded(p)
      PROVE  WorldTypes' /\ case' = case /\ Procs' = Procs
  BY <1>1 DEF EnsureConsumerStarted, EnsureLoaded, WorldTypes, Procs, Requests
<1>2. ASSUME NEW p \in Procs, takeLock(p) \/ lockTenant(p) \/ doubleCheck(p)
      PROVE  WorldTypes' /\ case' = case /\ Procs' = Procs
  BY <1>2 DEF takeLock, lockTenant, doubleCheck, WorldTypes, Procs, Requests
<1>3. ASSUME NEW p \in Procs, startTenantConsumer(p)
      PROVE  WorldTypes' /\ case' = case /\ Procs' = Procs
  BY <1>3 DEF startTenantConsumer, WorldTypes, Procs, Requests
<1>4. ASSUME NEW p \in Procs, LoadTenant(p) \/ getCachedTenantConfig(p)
      PROVE  WorldTypes' /\ case' = case /\ Procs' = Procs
  BY <1>4 DEF LoadTenant, getCachedTenantConfig, WorldTypes, Procs, Requests
<1>5. ASSUME NEW p \in Procs, fetchTenantConfig(p)
      PROVE  WorldTypes' /\ case' = case /\ Procs' = Procs
  BY <1>5 DEF fetchTenantConfig, WorldTypes, Procs, Requests
<1>6. ASSUME NEW p \in Procs, cacheTenantConfig(p) \/ cacheSet(p) \/ onTenantLoaded(p)
      PROVE  WorldTypes' /\ case' = case /\ Procs' = Procs
  BY <1>6 DEF cacheTenantConfig, cacheSet, onTenantLoaded, WorldTypes, Procs, Requests
<1>7. ASSUME NEW p \in Procs, removeTenant(p) \/ InvalidateClientCache(p) \/ closePools(p) \/ onTenantRemoved(p)
      PROVE  WorldTypes' /\ case' = case /\ Procs' = Procs
  BY <1>7 DEF removeTenant, InvalidateClientCache, closePools, onTenantRemoved, WorldTypes, Procs,
         Requests
<1>8. ASSUME NEW p \in Procs, StopConsumer(p) \/ StopUnderLock(p) \/ StopForgets(p)
      PROVE  WorldTypes' /\ case' = case /\ Procs' = Procs
  BY <1>8 DEF StopConsumer, StopUnderLock, StopForgets, WorldTypes, Procs, Requests
<1>9. ASSUME NEW p \in Procs, Rebuild(p) \/ reloadAndNotify(p) \/ onTenantAdded(p)
      PROVE  WorldTypes' /\ case' = case /\ Procs' = Procs
  BY <1>9 DEF Rebuild, reloadAndNotify, onTenantAdded, WorldTypes, Procs, Requests
<1>10. ASSUME NEW p \in Procs, attemptConsumeConnection(p) \/ processMessages(p) \/ Request(p)
      PROVE  WorldTypes' /\ case' = case /\ Procs' = Procs
  BY <1>10 DEF attemptConsumeConnection, processMessages, Request, WorldTypes, Procs, Requests
<1>11. ASSUME NEW p \in Procs, HandleEvent(p)
      PROVE  WorldTypes' /\ case' = case /\ Procs' = Procs
  BY <1>11 DEF HandleEvent, WorldTypes, Procs, Requests
<1>12. CASE Changes
  <2>1. MaxVersion \in Nat /\ truth.v \in 0 .. MaxVersion
    BY ConsumersAssumption DEF WorldTypes
  <2>2. truth' \in [v : 0 .. MaxVersion, suspended : BOOLEAN]
    <3>1. CASE truth.v < MaxVersion /\ truth' = [truth EXCEPT !.v = @ + 1]
      BY <3>1, <2>1 DEF WorldTypes
    <3>2. CASE truth' = [truth EXCEPT !.suspended = TRUE]
      BY <3>2 DEF WorldTypes
    <3>. QED BY <1>12, <3>1, <3>2 DEF Changes
  <2>3. truth'.v \in Nat
    BY <2>2, <2>1
  <2>4. \A e \in news' : e \in news \/ e.v = truth'.v
    BY <1>12 DEF Changes
  <2>. QED BY <1>12, <2>2, <2>3, <2>4 DEF Changes, WorldTypes, Procs, Requests
<1>13. CASE CloseConsumer \/ Expire \/ UNCHANGED lvars
  BY <1>13 DEF CloseConsumer, Expire, lvars, WorldTypes, Procs, Requests
<1>. QED BY <1>1, <1>2, <1>3, <1>4, <1>5, <1>6, <1>7, <1>8, <1>9, <1>10, <1>11, <1>12, <1>13 DEF
     LifecycleNext, Step

(* Control stays within its labels.                                        *)
LEMMA ControlStep ==
    ASSUME WorldTypes, ControlTypes, [LifecycleNext]_lvars
    PROVE  ControlTypes'
<1> USE DEF World, Caches, Consumer, LockSet, Ghost, Move, ThenTo, Done
<1>0. Procs' = Procs
  BY WorldStep
<1>1. ASSUME NEW p \in Procs, EnsureConsumerStarted(p) \/ EnsureLoaded(p)
      PROVE  ControlTypes'
  BY <1>1, <1>0 DEF EnsureConsumerStarted, EnsureLoaded, ControlTypes, Labels, Conts
<1>2. ASSUME NEW p \in Procs, takeLock(p) \/ lockTenant(p) \/ doubleCheck(p)
      PROVE  ControlTypes'
  BY <1>2, <1>0 DEF takeLock, lockTenant, doubleCheck, ControlTypes, Labels, Conts
<1>3. ASSUME NEW p \in Procs, startTenantConsumer(p)
      PROVE  ControlTypes'
  BY <1>3, <1>0 DEF startTenantConsumer, Unborn, ControlTypes, Labels, Conts
<1>4. ASSUME NEW p \in Procs, LoadTenant(p) \/ getCachedTenantConfig(p)
      PROVE  ControlTypes'
  BY <1>4, <1>0 DEF LoadTenant, getCachedTenantConfig, ControlTypes, Labels, Conts
<1>5. ASSUME NEW p \in Procs, fetchTenantConfig(p)
      PROVE  ControlTypes'
  BY <1>5, <1>0 DEF fetchTenantConfig, ControlTypes, Labels, Conts
<1>6. ASSUME NEW p \in Procs, cacheTenantConfig(p) \/ cacheSet(p) \/ onTenantLoaded(p)
      PROVE  ControlTypes'
  BY <1>6, <1>0 DEF cacheTenantConfig, cacheSet, onTenantLoaded, ControlTypes, Labels, Conts
<1>7. ASSUME NEW p \in Procs, removeTenant(p) \/ InvalidateClientCache(p) \/ closePools(p) \/ onTenantRemoved(p)
      PROVE  ControlTypes'
  BY <1>7, <1>0 DEF removeTenant, InvalidateClientCache, closePools, onTenantRemoved, ControlTypes,
         Labels, Conts
<1>8. ASSUME NEW p \in Procs, StopConsumer(p) \/ StopUnderLock(p) \/ StopForgets(p)
      PROVE  ControlTypes'
  BY <1>8, <1>0 DEF StopConsumer, StopUnderLock, StopForgets, ControlTypes, Labels, Conts
<1>9. ASSUME NEW p \in Procs, Rebuild(p) \/ reloadAndNotify(p) \/ onTenantAdded(p)
      PROVE  ControlTypes'
  BY <1>9, <1>0 DEF Rebuild, reloadAndNotify, onTenantAdded, ControlTypes, Labels, Conts
<1>10. ASSUME NEW p \in Procs, attemptConsumeConnection(p) \/ processMessages(p) \/ Request(p)
      PROVE  ControlTypes'
  BY <1>10, <1>0 DEF attemptConsumeConnection, processMessages, Request, ControlTypes, Labels, Conts
<1>11. ASSUME NEW p \in Procs, HandleEvent(p)
      PROVE  ControlTypes'
  BY <1>11, <1>0 DEF HandleEvent, handleTenantUpdated, handleServiceAssociated,
         handleServiceReactivated, handleTenantSuspended, handleServiceSuspended,
         handleCredentialsRotated, handleCacheInvalidate, NotOwned, ControlTypes, Labels, Conts
<1>12. CASE CloseConsumer \/ Changes \/ Expire \/ UNCHANGED lvars
  BY <1>12, <1>0 DEF CloseConsumer, Changes, Expire, lvars, ControlTypes, Labels, Conts
<1>. QED BY <1>1, <1>2, <1>3, <1>4, <1>5, <1>6, <1>7, <1>8, <1>9, <1>10, <1>11, <1>12 DEF
     LifecycleNext, Step

(* Versions stay numbers, from the Tenant Manager or from an event.        *)
LEMMA CacheTypesStep ==
    ASSUME WorldTypes, ControlTypes, CacheTypes, [LifecycleNext]_lvars
    PROVE  CacheTypes'
<1> USE DEF World, Caches, Consumer, LockSet, Ghost, Move, ThenTo, Done
<1>0. Procs' = Procs
  BY WorldStep
<1>s. Given \in Sides /\ \A p \in Procs : SideOf(p) \in Sides
  BY DEF Given, SideOf, Sides
<1>a. ASSUME NEW s \in Sides PROVE AfterGet(s) \in [Sides -> {None} \cup Entries]
  BY DEF AfterGet, CacheTypes
<1> HIDE DEF Sides, Entries
<1>1. ASSUME NEW p \in Procs, EnsureConsumerStarted(p) \/ EnsureLoaded(p)
      PROVE  CacheTypes'
  BY <1>1, <1>0, ConsumersAssumption DEF EnsureConsumerStarted, EnsureLoaded, CacheTypes, WorldTypes
<1>2. ASSUME NEW p \in Procs, takeLock(p) \/ lockTenant(p) \/ doubleCheck(p)
      PROVE  CacheTypes'
  BY <1>2, <1>0, ConsumersAssumption DEF takeLock, lockTenant, doubleCheck, CacheTypes, WorldTypes
<1>3. ASSUME NEW p \in Procs, startTenantConsumer(p)
      PROVE  CacheTypes'
  BY <1>3, <1>0, ConsumersAssumption DEF startTenantConsumer, CacheTypes, WorldTypes
<1>4. ASSUME NEW p \in Procs, LoadTenant(p) \/ getCachedTenantConfig(p)
      PROVE  CacheTypes'
  <2>1. CASE LoadTenant(p)
    BY <2>1, <1>0, <1>s, <1>a DEF LoadTenant, CacheTypes
  <2>2. CASE getCachedTenantConfig(p)
    <3>1. UNCHANGED <<tier1, tier2>> /\ got' \in [Procs -> Nat]
      BY <2>2, <1>s DEF getCachedTenantConfig, CacheTypes
    <3>2. loadLock' \in [Sides -> Procs \cup {Nobody}]
      BY <2>2, <1>s DEF getCachedTenantConfig, Unlock, CacheTypes
    <3>3. cb' \in [Sides -> Breakers]
      <4>1. [cb[SideOf(p)] EXCEPT !.state = "halfOpen"] \in Breakers
        BY <1>s DEF CacheTypes, Breakers
      <4>2. cb' = cb \/ cb' = [cb EXCEPT ![SideOf(p)] = [cb[SideOf(p)] EXCEPT !.state = "halfOpen"]]
        BY <2>2, <1>s DEF getCachedTenantConfig, CacheTypes
      <4>. QED BY <4>1, <4>2, <1>s DEF CacheTypes
    <3>. QED BY <3>1, <3>2, <3>3, <1>0 DEF CacheTypes
  <2>. QED BY <1>4, <2>1, <2>2
<1>5. ASSUME NEW p \in Procs, fetchTenantConfig(p)
      PROVE  CacheTypes'
  <2>1. UNCHANGED <<tier1, tier2>> /\ got' \in [Procs -> Nat]
    BY <1>5, <1>s, ConsumersAssumption DEF fetchTenantConfig, CacheTypes, WorldTypes
  <2>2. loadLock' \in [Sides -> Procs \cup {Nobody}]
    BY <1>5, <1>s DEF fetchTenantConfig, Unlock, CacheTypes
  <2>3. cb' \in [Sides -> Breakers]
    <3>1. cb[SideOf(p)] \in Breakers
      BY <1>s DEF CacheTypes
    <3>2. CASE cbSuccess(SideOf(p))
      BY <1>s, <3>2, ConsumersAssumption DEF cbSuccess, CacheTypes, Breakers
    <3>3. CASE cbFailure(SideOf(p))
      BY <1>s, <3>1, <3>3, ConsumersAssumption DEF cbFailure, CacheTypes, Breakers
    <3>. QED BY <1>5, <3>2, <3>3 DEF fetchTenantConfig
  <2>. QED BY <2>1, <2>2, <2>3, <1>0 DEF CacheTypes
<1>6. ASSUME NEW p \in Procs, cacheTenantConfig(p) \/ onTenantLoaded(p)
      PROVE  CacheTypes'
  BY <1>6, <1>0, <1>s DEF cacheTenantConfig, onTenantLoaded, Unlock, CacheTypes
<1>7. ASSUME NEW p \in Procs, cacheSet(p)
      PROVE  CacheTypes'
  <2>1. Entry(got[p], "api") \in Entries
    BY DEF Entry, Entries, CacheTypes
  <2>. QED BY <1>7, <1>0, <1>s, <2>1 DEF cacheSet, CacheTypes
<1>8. ASSUME NEW p \in Procs, removeTenant(p) \/ InvalidateClientCache(p) \/ closePools(p) \/ onTenantRemoved(p)
      PROVE  CacheTypes'
  BY <1>8, <1>0, <1>s DEF removeTenant, InvalidateClientCache, closePools,
         onTenantRemoved, tier2Invalidated, CacheTypes
<1>9. ASSUME NEW p \in Procs, StopConsumer(p) \/ StopUnderLock(p) \/ StopForgets(p)
      PROVE  CacheTypes'
  BY <1>9, <1>0, ConsumersAssumption DEF StopConsumer, StopUnderLock, StopForgets, CacheTypes,
         WorldTypes
<1>10. ASSUME NEW p \in Procs, Rebuild(p)
      PROVE  CacheTypes'
  <2>1. Entry(got[p], "event") \in Entries
    BY DEF Entry, Entries, CacheTypes
  <2>. QED BY <1>10, <1>0, <1>s, <2>1 DEF Rebuild, CacheTypes
<1>11. ASSUME NEW p \in Procs, reloadAndNotify(p) \/ onTenantAdded(p)
      PROVE  CacheTypes'
  BY <1>11, <1>0, ConsumersAssumption DEF reloadAndNotify, onTenantAdded, CacheTypes, WorldTypes
<1>12. ASSUME NEW p \in Procs, attemptConsumeConnection(p) \/ processMessages(p) \/ Request(p)
      PROVE  CacheTypes'
  BY <1>12, <1>0, ConsumersAssumption DEF attemptConsumeConnection, processMessages, Request,
         CacheTypes, WorldTypes
<1>13. ASSUME NEW p \in Procs, HandleEvent(p)
      PROVE  CacheTypes'
  <2>1. PICK e \in news :
          \/ handleTenantUpdated(p, e) \/ handleServiceAssociated(p, e) \/ handleServiceReactivated(p, e)
          \/ handleTenantSuspended(p, e) \/ handleServiceSuspended(p, e)
          \/ handleCredentialsRotated(p, e) \/ handleCacheInvalidate(p, e) \/ NotOwned(p, e)
    BY <1>13 DEF HandleEvent
  <2>2. e.v \in Nat
    BY DEF WorldTypes
  <2>3. /\ tier1' \in {tier1, AfterGet(Given), [tier1 EXCEPT ![Given] = Entry(e.v, "event")]}
        /\ got' = got \/ got' = [got EXCEPT ![p] = e.v]
    BY <2>1 DEF handleTenantUpdated, handleServiceAssociated, handleServiceReactivated, handleTenantSuspended,
           handleServiceSuspended, handleCredentialsRotated, handleCacheInvalidate, NotOwned
  <2>4. UNCHANGED <<tier2, loadLock, cb>>
    BY <1>13 DEF HandleEvent
  <2>5. got' \in [Procs -> Nat]
    BY <2>2, <2>3 DEF CacheTypes
  <2>6. tier1' \in [Sides -> {None} \cup Entries]
    <3>1. Entry(e.v, "event") \in Entries
      BY <2>2 DEF Entry, Entries
    <3>. QED BY <2>3, <3>1, <1>s, <1>a DEF CacheTypes
  <2>. QED BY <2>4, <2>5, <2>6, <1>0 DEF CacheTypes
<1>14. CASE Expire
  <2>1. UNCHANGED <<got, loadLock, cb>>
    BY <1>14 DEF Expire
  <2>2. PICK s \in Sides :
          \/ UNCHANGED <<tier1, tier2>>
          \/ Fresh(tier1[s]) /\ tier1' = [tier1 EXCEPT ![s].fresh = FALSE] /\ UNCHANGED tier2
          \/ tier2' = [tier2 EXCEPT ![s] = None] /\ UNCHANGED tier1
    BY <1>14, <1>s DEF Expire
  <2>3. CASE Fresh(tier1[s]) /\ tier1' = [tier1 EXCEPT ![s].fresh = FALSE] /\ UNCHANGED tier2
    <3>1. tier1[s] \in Entries
      BY <2>3 DEF Fresh, CacheTypes
    <3>2. [tier1[s] EXCEPT !.fresh = FALSE] \in Entries
      BY <3>1 DEF Entries
    <3>3. tier1' = [tier1 EXCEPT ![s] = [tier1[s] EXCEPT !.fresh = FALSE]]
      BY <2>3 DEF CacheTypes
    <3>. QED BY <2>1, <2>3, <3>2, <3>3, <1>0 DEF CacheTypes
  <2>. QED BY <2>1, <2>2, <2>3, <1>0 DEF CacheTypes
<1>15. CASE CloseConsumer \/ Changes \/ UNCHANGED lvars
  BY <1>15, <1>0, ConsumersAssumption DEF CloseConsumer, Changes, lvars, CacheTypes, WorldTypes
<1>. QED BY <1>1, <1>2, <1>3, <1>4, <1>5, <1>6, <1>7, <1>8, <1>9, <1>10, <1>11, <1>12, <1>13, <1>14,
     <1>15 DEF LifecycleNext, Step

(* The consumer's maps and locks keep their types.                         *)
LEMMA ConsumerTypesStep ==
    ASSUME WorldTypes, ControlTypes, ConsumerTypes, [LifecycleNext]_lvars
    PROVE  ConsumerTypes'
<1> USE DEF World, Caches, Consumer, LockSet, Ghost, Move, ThenTo, Done
<1>0. Procs' = Procs
  BY WorldStep
<1>1. ASSUME NEW p \in Procs, EnsureConsumerStarted(p) \/ EnsureLoaded(p)
      PROVE  ConsumerTypes'
  BY <1>1, <1>0 DEF EnsureConsumerStarted, EnsureLoaded, ConsumerTypes, ControlTypes,
         maxRetryBeforeDegraded
<1>2. ASSUME NEW p \in Procs, takeLock(p)
      PROVE  ConsumerTypes'
  BY <1>2, <1>0 DEF takeLock, LoadOrStore, unusedLocks, ConsumerTypes, ControlTypes,
         maxRetryBeforeDegraded
<1>3. ASSUME NEW p \in Procs, lockTenant(p) \/ doubleCheck(p)
      PROVE  ConsumerTypes'
  BY <1>3, <1>0 DEF lockTenant, doubleCheck, Release, ConsumerTypes, ControlTypes,
         maxRetryBeforeDegraded
<1>4. ASSUME NEW p \in Procs, startTenantConsumer(p)
      PROVE  ConsumerTypes'
  <2>1. tenant' \in Unborn /\ UNCHANGED <<known, shut, cancelled, locks, retries>>
    BY <1>4 DEF startTenantConsumer
  <2>2. tenant' \in Loops
    BY <2>1 DEF Unborn
  <2>. QED BY <1>4, <2>1, <2>2, <1>0 DEF startTenantConsumer, Release, ConsumerTypes
<1>5. ASSUME NEW p \in Procs, LoadTenant(p) \/ getCachedTenantConfig(p)
      PROVE  ConsumerTypes'
  BY <1>5, <1>0 DEF LoadTenant, getCachedTenantConfig, ConsumerTypes, ControlTypes,
         maxRetryBeforeDegraded
<1>6. ASSUME NEW p \in Procs, fetchTenantConfig(p)
      PROVE  ConsumerTypes'
  BY <1>6, <1>0 DEF fetchTenantConfig, ConsumerTypes, ControlTypes, maxRetryBeforeDegraded
<1>7. ASSUME NEW p \in Procs, cacheTenantConfig(p) \/ cacheSet(p) \/ onTenantLoaded(p)
      PROVE  ConsumerTypes'
  BY <1>7, <1>0 DEF cacheTenantConfig, cacheSet, onTenantLoaded, ConsumerTypes, ControlTypes,
         maxRetryBeforeDegraded
<1>8. ASSUME NEW p \in Procs, removeTenant(p) \/ InvalidateClientCache(p) \/ closePools(p) \/ onTenantRemoved(p)
      PROVE  ConsumerTypes'
  BY <1>8, <1>0 DEF removeTenant, InvalidateClientCache, closePools, onTenantRemoved, Cancel,
         ConsumerTypes, ControlTypes, maxRetryBeforeDegraded
<1>9. ASSUME NEW p \in Procs, StopConsumer(p)
      PROVE  ConsumerTypes'
  BY <1>9, <1>0 DEF StopConsumer, LoadOrStore, unusedLocks, ConsumerTypes, ControlTypes,
         maxRetryBeforeDegraded
<1>10. ASSUME NEW p \in Procs, StopUnderLock(p)
      PROVE  ConsumerTypes'
  BY <1>10, <1>0 DEF StopUnderLock, Release, Cancel, ConsumerTypes, ControlTypes,
         maxRetryBeforeDegraded
<1>11. ASSUME NEW p \in Procs, StopForgets(p)
      PROVE  ConsumerTypes'
  BY <1>11, <1>0 DEF StopForgets, ConsumerTypes, ControlTypes, maxRetryBeforeDegraded
<1>12. ASSUME NEW p \in Procs, Rebuild(p) \/ reloadAndNotify(p) \/ onTenantAdded(p)
      PROVE  ConsumerTypes'
  BY <1>12, <1>0 DEF Rebuild, reloadAndNotify, onTenantAdded, ConsumerTypes, ControlTypes,
         maxRetryBeforeDegraded
<1>13. ASSUME NEW p \in Procs, attemptConsumeConnection(p) \/ processMessages(p) \/ Request(p)
      PROVE  ConsumerTypes'
  BY <1>13, <1>0 DEF attemptConsumeConnection, processMessages, Request, maxRetryBeforeDegraded,
         ConsumerTypes, ControlTypes
<1>14. ASSUME NEW p \in Procs, HandleEvent(p)
      PROVE  ConsumerTypes'
  BY <1>14, <1>0 DEF HandleEvent, ConsumerTypes, ControlTypes, maxRetryBeforeDegraded
<1>15. CASE CloseConsumer \/ Changes \/ Expire \/ UNCHANGED lvars
  BY <1>15, <1>0 DEF CloseConsumer, Changes, Expire, lvars, Cancel, ConsumerTypes, ControlTypes,
         maxRetryBeforeDegraded
<1>. QED BY <1>1, <1>2, <1>3, <1>4, <1>5, <1>6, <1>7, <1>8, <1>9, <1>10, <1>11, <1>12, <1>13, <1>14,
     <1>15 DEF LifecycleNext, Step

(* A load meets no other load and no clean invalidation.                   *)
LEMMA LoadStep ==
    ASSUME LifecycleTypes, CleanOK, \A p \in Procs : LoadOK(p), Nobody \notin Procs, NEW q \in Procs,
           [LifecycleNext]_lvars
    PROVE  LoadOK(q)'
<1> USE DEF World, Caches, Consumer, LockSet, Ghost, Move, ThenTo, Done
<1>0. Procs' = Procs /\ case' = case
  BY WorldStep DEF LifecycleTypes
<1>g. Given' = Given
  BY <1>0 DEF Given, wiring
<1>s. Given \in Sides /\ \A p \in Procs : SideOf(p) \in Sides
  BY DEF Given, SideOf, Sides
<1> HIDE DEF Sides
<1>1. ASSUME NEW p \in Procs, EnsureConsumerStarted(p) \/ EnsureLoaded(p)
      PROVE  LoadOK(q)'
  BY <1>1, <1>0, <1>g, <1>s DEF EnsureConsumerStarted, EnsureLoaded, LoadOK, SideOf, CleanOK, NothingStale,
         LifecycleTypes, ControlTypes, CacheTypes, WorldTypes, Conts
<1>2. ASSUME NEW p \in Procs, takeLock(p) \/ lockTenant(p) \/ doubleCheck(p)
      PROVE  LoadOK(q)'
  BY <1>2, <1>0, <1>g, <1>s DEF takeLock, lockTenant, doubleCheck, LoadOK, SideOf, CleanOK, NothingStale,
         LifecycleTypes, ControlTypes, CacheTypes, WorldTypes, Conts
<1>3. ASSUME NEW p \in Procs, startTenantConsumer(p)
      PROVE  LoadOK(q)'
  BY <1>3, <1>0, <1>g, <1>s DEF startTenantConsumer, Unborn, LoadOK, SideOf, CleanOK, NothingStale, LifecycleTypes,
         ControlTypes, CacheTypes, WorldTypes, Conts
<1>4. ASSUME NEW p \in Procs, LoadTenant(p) \/ getCachedTenantConfig(p)
      PROVE  LoadOK(q)'
  BY <1>4, <1>0, <1>g, <1>s DEF LoadTenant, getCachedTenantConfig, Unlock, LoadOK, SideOf, CleanOK, NothingStale,
         LifecycleTypes, ControlTypes, CacheTypes, WorldTypes, Conts
<1>5. ASSUME NEW p \in Procs, fetchTenantConfig(p)
      PROVE  LoadOK(q)'
  BY <1>5, <1>0, <1>g, <1>s DEF fetchTenantConfig, Unlock, LoadOK, SideOf, CleanOK, NothingStale, LifecycleTypes, ControlTypes,
         CacheTypes, WorldTypes, Conts
<1>6. ASSUME NEW p \in Procs, cacheTenantConfig(p) \/ cacheSet(p) \/ onTenantLoaded(p)
      PROVE  LoadOK(q)'
  BY <1>6, <1>0, <1>g, <1>s DEF cacheTenantConfig, cacheSet, onTenantLoaded, Unlock, LoadOK, SideOf, CleanOK, NothingStale,
         LifecycleTypes, ControlTypes, CacheTypes, WorldTypes, Conts
<1>7. ASSUME NEW p \in Procs, removeTenant(p) \/ InvalidateClientCache(p) \/ closePools(p) \/ onTenantRemoved(p)
      PROVE  LoadOK(q)'
  BY <1>7, <1>0, <1>g, <1>s DEF removeTenant, InvalidateClientCache, closePools, onTenantRemoved, LoadOK, SideOf,
         CleanOK, NothingStale, LifecycleTypes, ControlTypes, CacheTypes, WorldTypes, Conts
<1>8. ASSUME NEW p \in Procs, StopConsumer(p) \/ StopUnderLock(p) \/ StopForgets(p)
      PROVE  LoadOK(q)'
  BY <1>8, <1>0, <1>g, <1>s DEF StopConsumer, StopUnderLock, StopForgets, LoadOK, SideOf, CleanOK, NothingStale,
         LifecycleTypes, ControlTypes, CacheTypes, WorldTypes, Conts
<1>9. ASSUME NEW p \in Procs, Rebuild(p) \/ reloadAndNotify(p) \/ onTenantAdded(p)
      PROVE  LoadOK(q)'
  BY <1>9, <1>0, <1>g, <1>s DEF Rebuild, reloadAndNotify, onTenantAdded, LoadOK, SideOf, CleanOK, NothingStale,
         LifecycleTypes, ControlTypes, CacheTypes, WorldTypes, Conts
<1>10. ASSUME NEW p \in Procs, attemptConsumeConnection(p) \/ processMessages(p) \/ Request(p)
      PROVE  LoadOK(q)'
  BY <1>10, <1>0, <1>g, <1>s DEF attemptConsumeConnection, processMessages, Request, LoadOK, SideOf, CleanOK,
         NothingStale, LifecycleTypes, ControlTypes, CacheTypes, WorldTypes, Conts
<1>11. ASSUME NEW p \in Procs, HandleEvent(p)
      PROVE  LoadOK(q)'
  BY <1>11, <1>0, <1>g, <1>s DEF HandleEvent, handleTenantUpdated, handleServiceAssociated,
         handleServiceReactivated, handleTenantSuspended, handleServiceSuspended,
         handleCredentialsRotated, handleCacheInvalidate, NotOwned, LoadOK, SideOf, CleanOK, NothingStale,
         LifecycleTypes, ControlTypes, CacheTypes, WorldTypes, Conts
<1>12. CASE CloseConsumer \/ Changes \/ Expire \/ UNCHANGED lvars
  BY <1>12, <1>0, <1>g, <1>s DEF CloseConsumer, Changes, Expire, lvars, LoadOK, SideOf, CleanOK, NothingStale,
         LifecycleTypes, ControlTypes, CacheTypes, WorldTypes, Conts
<1>. QED BY <1>1, <1>2, <1>3, <1>4, <1>5, <1>6, <1>7, <1>8, <1>9, <1>10, <1>11, <1>12 DEF
     LifecycleNext, Step

(* What the caches hold was fetched after the last clean invalidation.     *)
LEMMA CleanStep ==
    ASSUME LifecycleTypes, CleanOK, \A p \in Procs : LoadOK(p), Nobody \notin Procs, [LifecycleNext]_lvars
    PROVE  CleanOK'
<1> USE DEF World, Caches, Consumer, LockSet, Ghost, Move, ThenTo, Done
<1>0. Procs' = Procs /\ case' = case
  BY WorldStep DEF LifecycleTypes
<1>g. Given' = Given
  BY <1>0 DEF Given, wiring
<1>s. Given \in Sides /\ \A p \in Procs : SideOf(p) \in Sides
  BY DEF Given, SideOf, Sides
<1> HIDE DEF Sides
<1>1. ASSUME NEW p \in Procs, EnsureConsumerStarted(p) \/ EnsureLoaded(p)
      PROVE  CleanOK'
  BY <1>1, <1>0, <1>g, <1>s DEF EnsureConsumerStarted, EnsureLoaded, LoadOK, CleanOK, NothingStale,
         LifecycleTypes, ControlTypes, CacheTypes, WorldTypes, Conts
<1>2. ASSUME NEW p \in Procs, takeLock(p) \/ lockTenant(p) \/ doubleCheck(p)
      PROVE  CleanOK'
  BY <1>2, <1>0, <1>g, <1>s DEF takeLock, lockTenant, doubleCheck, LoadOK, CleanOK, NothingStale,
         LifecycleTypes, ControlTypes, CacheTypes, WorldTypes, Conts
<1>3. ASSUME NEW p \in Procs, startTenantConsumer(p)
      PROVE  CleanOK'
  BY <1>3, <1>0, <1>g, <1>s DEF startTenantConsumer, LoadOK, CleanOK, NothingStale, LifecycleTypes,
         ControlTypes, CacheTypes, WorldTypes, Conts
<1>4. ASSUME NEW p \in Procs, LoadTenant(p) \/ getCachedTenantConfig(p)
      PROVE  CleanOK'
  BY <1>4, <1>0, <1>g, <1>s DEF LoadTenant, getCachedTenantConfig, Unlock, AfterGet, LoadOK, CleanOK, NothingStale,
         LifecycleTypes, ControlTypes, CacheTypes, WorldTypes, Conts
<1>5. ASSUME NEW p \in Procs, fetchTenantConfig(p)
      PROVE  CleanOK'
  BY <1>5, <1>0, <1>g, <1>s DEF fetchTenantConfig, Unlock, LoadOK, CleanOK, NothingStale, LifecycleTypes, ControlTypes,
         CacheTypes, WorldTypes, Conts
<1>6. ASSUME NEW p \in Procs, cacheTenantConfig(p) \/ cacheSet(p) \/ onTenantLoaded(p)
      PROVE  CleanOK'
  BY <1>6, <1>0, <1>g, <1>s DEF cacheTenantConfig, cacheSet, onTenantLoaded, Unlock, Entry, LoadOK, CleanOK,
         NothingStale, LifecycleTypes, ControlTypes, CacheTypes, WorldTypes, Conts
<1>7. ASSUME NEW p \in Procs, removeTenant(p) \/ InvalidateClientCache(p) \/ closePools(p) \/ onTenantRemoved(p)
      PROVE  CleanOK'
  BY <1>7, <1>0, <1>g, <1>s DEF removeTenant, InvalidateClientCache, closePools, onTenantRemoved,
         tier2Invalidated, LoadOK, CleanOK, NothingStale, LifecycleTypes, ControlTypes, CacheTypes,
         WorldTypes, Conts
<1>8. ASSUME NEW p \in Procs, StopConsumer(p) \/ StopUnderLock(p) \/ StopForgets(p)
      PROVE  CleanOK'
  BY <1>8, <1>0, <1>g, <1>s DEF StopConsumer, StopUnderLock, StopForgets, LoadOK, CleanOK, NothingStale,
         LifecycleTypes, ControlTypes, CacheTypes, WorldTypes, Conts
<1>9. ASSUME NEW p \in Procs, Rebuild(p) \/ reloadAndNotify(p) \/ onTenantAdded(p)
      PROVE  CleanOK'
  BY <1>9, <1>0, <1>g, <1>s DEF Rebuild, reloadAndNotify, onTenantAdded, Entry, LoadOK, CleanOK, NothingStale,
         LifecycleTypes, ControlTypes, CacheTypes, WorldTypes, Conts
<1>10. ASSUME NEW p \in Procs, attemptConsumeConnection(p) \/ processMessages(p) \/ Request(p)
      PROVE  CleanOK'
  BY <1>10, <1>0, <1>g, <1>s DEF attemptConsumeConnection, processMessages, Request, LoadOK, CleanOK,
         NothingStale, LifecycleTypes, ControlTypes, CacheTypes, WorldTypes, Conts
<1>11. ASSUME NEW p \in Procs, HandleEvent(p)
      PROVE  CleanOK'
  BY <1>11, <1>0, <1>g, <1>s DEF HandleEvent, handleTenantUpdated, handleServiceAssociated,
         handleServiceReactivated, handleTenantSuspended, handleServiceSuspended,
         handleCredentialsRotated, handleCacheInvalidate, NotOwned, AfterGet, Entry, LoadOK,
         CleanOK, NothingStale, LifecycleTypes, ControlTypes, CacheTypes, WorldTypes, Conts
<1>12. CASE Expire
  <2>1. UNCHANGED <<truth, floor, clean, loadLock>>
    BY <1>12 DEF Expire
  <2>2. PICK s \in Sides :
          \/ UNCHANGED <<tier1, tier2>>
          \/ Fresh(tier1[s]) /\ tier1' = [tier1 EXCEPT ![s].fresh = FALSE] /\ UNCHANGED tier2
          \/ tier2' = [tier2 EXCEPT ![s] = None] /\ UNCHANGED tier1
    BY <1>12, <1>s DEF Expire
  <2>3. tier2'[Given] \in {tier2[Given], None}
    BY <2>2, <1>s DEF LifecycleTypes, CacheTypes
  <2>4. \/ tier1'[Given] = tier1[Given]
        \/ /\ tier1[Given] # None /\ tier1'[Given].v = tier1[Given].v
           /\ tier1'[Given].src = tier1[Given].src
    <3>1. CASE s = Given /\ Fresh(tier1[s]) /\ tier1' = [tier1 EXCEPT ![s].fresh = FALSE]
      <4>1. tier1[Given] \in Entries
        BY <3>1 DEF Fresh, LifecycleTypes, CacheTypes
      <4>2. tier1'[Given] = [tier1[Given] EXCEPT !.fresh = FALSE]
        BY <3>1, <1>s DEF LifecycleTypes, CacheTypes
      <4>. QED BY <3>1, <4>1, <4>2 DEF Entries, Fresh
    <3>. QED BY <2>2, <3>1, <1>s DEF LifecycleTypes, CacheTypes
  <2>5. NothingStale'
    BY <2>1, <2>3, <2>4, <1>g DEF CleanOK, NothingStale
  <2>. QED BY <2>1, <2>4, <2>5, <1>g DEF CleanOK
<1>13. CASE CloseConsumer \/ Changes \/ UNCHANGED lvars
  BY <1>13, <1>0, <1>g, <1>s DEF CloseConsumer, Changes, lvars, LoadOK, CleanOK, NothingStale, LifecycleTypes,
         ControlTypes, CacheTypes, WorldTypes, Conts
<1>. QED BY <1>1, <1>2, <1>3, <1>4, <1>5, <1>6, <1>7, <1>8, <1>9, <1>10, <1>11, <1>12, <1>13 DEF
     LifecycleNext, Step

(* The lock keeps starts apart.                                            *)
LEMMA LockStep ==
    ASSUME LifecycleTypes, Nobody \notin Procs \cup Locks, ~Stoppable,
           \A p \in Procs : LockedOut(p), NEW q \in Procs,
           [LifecycleNext]_lvars
    PROVE  LockedOut(q)'
<1> USE DEF World, Caches, Consumer, LockSet, Ghost, Move, ThenTo, Done
<1>0. Procs' = Procs
  BY WorldStep DEF LifecycleTypes
<1>1. ASSUME NEW p \in Procs, EnsureConsumerStarted(p) \/ EnsureLoaded(p)
      PROVE  LockedOut(q)'
  BY <1>1, <1>0 DEF EnsureConsumerStarted, EnsureLoaded, LockedOut, wiring, Stoppable, LifecycleTypes,
         ControlTypes, ConsumerTypes, Conts, WorldTypes
<1>2. ASSUME NEW p \in Procs, takeLock(p) \/ lockTenant(p) \/ doubleCheck(p)
      PROVE  LockedOut(q)'
  BY <1>2, <1>0 DEF takeLock, lockTenant, doubleCheck, LoadOrStore, unusedLocks, alreadyStarted,
         Release, LockedOut, wiring, Stoppable, LifecycleTypes, ControlTypes, ConsumerTypes, Conts, WorldTypes
<1>3. ASSUME NEW p \in Procs, startTenantConsumer(p)
      PROVE  LockedOut(q)'
  BY <1>3, <1>0 DEF startTenantConsumer, Unborn, Release, LockedOut, wiring, Stoppable, LifecycleTypes,
         ControlTypes, ConsumerTypes, Conts, WorldTypes
<1>4. ASSUME NEW p \in Procs, LoadTenant(p) \/ getCachedTenantConfig(p)
      PROVE  LockedOut(q)'
  BY <1>4, <1>0 DEF LoadTenant, getCachedTenantConfig, LockedOut, wiring, Stoppable, LifecycleTypes,
         ControlTypes, ConsumerTypes, Conts, WorldTypes
<1>5. ASSUME NEW p \in Procs, fetchTenantConfig(p)
      PROVE  LockedOut(q)'
  BY <1>5, <1>0 DEF fetchTenantConfig, LockedOut, wiring, Stoppable, LifecycleTypes, ControlTypes,
         ConsumerTypes, Conts, WorldTypes
<1>6. ASSUME NEW p \in Procs, cacheTenantConfig(p) \/ cacheSet(p) \/ onTenantLoaded(p)
      PROVE  LockedOut(q)'
  BY <1>6, <1>0 DEF cacheTenantConfig, cacheSet, onTenantLoaded, LockedOut, wiring, Stoppable, LifecycleTypes,
         ControlTypes, ConsumerTypes, Conts, WorldTypes
<1>7. ASSUME NEW p \in Procs, removeTenant(p) \/ InvalidateClientCache(p) \/ closePools(p) \/ onTenantRemoved(p)
      PROVE  LockedOut(q)'
  BY <1>7, <1>0 DEF removeTenant, InvalidateClientCache, closePools, onTenantRemoved, Cancel,
         LockedOut, wiring, Stoppable, LifecycleTypes, ControlTypes, ConsumerTypes, Conts, WorldTypes
<1>8. ASSUME NEW p \in Procs, StopConsumer(p) \/ StopUnderLock(p) \/ StopForgets(p)
      PROVE  LockedOut(q)'
  BY <1>8, <1>0 DEF StopConsumer, StopUnderLock, StopForgets, LoadOrStore, unusedLocks, Release,
         Cancel, LockedOut, wiring, Stoppable, LifecycleTypes, ControlTypes, ConsumerTypes, Conts, WorldTypes
<1>9. ASSUME NEW p \in Procs, Rebuild(p) \/ reloadAndNotify(p) \/ onTenantAdded(p)
      PROVE  LockedOut(q)'
  BY <1>9, <1>0 DEF Rebuild, reloadAndNotify, onTenantAdded, LockedOut, wiring, Stoppable, LifecycleTypes,
         ControlTypes, ConsumerTypes, Conts, WorldTypes
<1>10. ASSUME NEW p \in Procs, attemptConsumeConnection(p) \/ processMessages(p) \/ Request(p)
      PROVE  LockedOut(q)'
  BY <1>10, <1>0 DEF attemptConsumeConnection, processMessages, Request, LockedOut, wiring, Stoppable,
         LifecycleTypes, ControlTypes, ConsumerTypes, Conts, WorldTypes
<1>11. ASSUME NEW p \in Procs, HandleEvent(p)
      PROVE  LockedOut(q)'
  BY <1>11, <1>0 DEF HandleEvent, handleTenantUpdated, handleServiceAssociated,
         handleServiceReactivated, handleTenantSuspended, handleServiceSuspended,
         handleCredentialsRotated, handleCacheInvalidate, NotOwned, LockedOut, wiring, Stoppable,
         LifecycleTypes, ControlTypes, ConsumerTypes, Conts, WorldTypes
<1>12. CASE CloseConsumer \/ Changes \/ Expire \/ UNCHANGED lvars
  BY <1>12, <1>0 DEF CloseConsumer, Changes, Expire, lvars, Cancel, LockedOut, wiring, Stoppable,
         LifecycleTypes, ControlTypes, ConsumerTypes, Conts, WorldTypes
<1>. QED BY <1>1, <1>2, <1>3, <1>4, <1>5, <1>6, <1>7, <1>8, <1>9, <1>10, <1>11, <1>12 DEF
     LifecycleNext, Step

(* A loop is started when there is none, and one that loses its place is   *)
(* cancelled with it.                                                      *)
LEMMA OneStep ==
    ASSUME LifecycleTypes, Nobody \notin Procs \cup Locks, ~Stoppable,
           \A p \in Procs : LockedOut(p),
           Nobody \notin Loops, OneConsumer, [LifecycleNext]_lvars
    PROVE  OneConsumer'
<1> USE DEF World, Caches, Consumer, LockSet, Ghost, Move, ThenTo, Done
<1>0. Procs' = Procs
  BY WorldStep DEF LifecycleTypes
<1>1. ASSUME NEW p \in Procs, EnsureConsumerStarted(p) \/ EnsureLoaded(p)
      PROVE  OneConsumer'
  BY <1>1, <1>0 DEF EnsureConsumerStarted, EnsureLoaded, OneConsumer, Live, wiring, Stoppable, LifecycleTypes,
         ControlTypes, ConsumerTypes, WorldTypes, LockedOut, Procs, Conts
<1>2. ASSUME NEW p \in Procs, takeLock(p) \/ lockTenant(p) \/ doubleCheck(p)
      PROVE  OneConsumer'
  BY <1>2, <1>0 DEF takeLock, lockTenant, doubleCheck, alreadyStarted, OneConsumer, Live, wiring, Stoppable,
         LifecycleTypes, ControlTypes, ConsumerTypes, WorldTypes, LockedOut, Procs, Conts
<1>3. ASSUME NEW p \in Procs, startTenantConsumer(p)
      PROVE  OneConsumer'
  BY <1>3, <1>0 DEF startTenantConsumer, Unborn, OneConsumer, Live, wiring, Stoppable, LifecycleTypes,
         ControlTypes, ConsumerTypes, WorldTypes, LockedOut, Procs, Conts
<1>4. ASSUME NEW p \in Procs, LoadTenant(p) \/ getCachedTenantConfig(p)
      PROVE  OneConsumer'
  BY <1>4, <1>0 DEF LoadTenant, getCachedTenantConfig, OneConsumer, Live, wiring, Stoppable, LifecycleTypes,
         ControlTypes, ConsumerTypes, WorldTypes, LockedOut, Procs, Conts
<1>5. ASSUME NEW p \in Procs, fetchTenantConfig(p)
      PROVE  OneConsumer'
  BY <1>5, <1>0 DEF fetchTenantConfig, OneConsumer, Live, wiring, Stoppable, LifecycleTypes, ControlTypes,
         ConsumerTypes, WorldTypes, LockedOut, Procs, Conts
<1>6. ASSUME NEW p \in Procs, cacheTenantConfig(p) \/ cacheSet(p) \/ onTenantLoaded(p)
      PROVE  OneConsumer'
  BY <1>6, <1>0 DEF cacheTenantConfig, cacheSet, onTenantLoaded, OneConsumer, Live, wiring, Stoppable,
         LifecycleTypes, ControlTypes, ConsumerTypes, WorldTypes, LockedOut, Procs, Conts
<1>7. ASSUME NEW p \in Procs, removeTenant(p) \/ InvalidateClientCache(p) \/ closePools(p) \/ onTenantRemoved(p)
      PROVE  OneConsumer'
  BY <1>7, <1>0 DEF removeTenant, InvalidateClientCache, closePools, onTenantRemoved, Cancel,
         OneConsumer, Live, wiring, Stoppable, LifecycleTypes, ControlTypes, ConsumerTypes, WorldTypes,
         LockedOut, Procs, Conts
<1>8. ASSUME NEW p \in Procs, StopConsumer(p) \/ StopUnderLock(p) \/ StopForgets(p)
      PROVE  OneConsumer'
  BY <1>8, <1>0 DEF StopConsumer, StopUnderLock, StopForgets, Cancel, OneConsumer, Live, wiring, Stoppable,
         LifecycleTypes, ControlTypes, ConsumerTypes, WorldTypes, LockedOut, Procs, Conts
<1>9. ASSUME NEW p \in Procs, Rebuild(p) \/ reloadAndNotify(p) \/ onTenantAdded(p)
      PROVE  OneConsumer'
  BY <1>9, <1>0 DEF Rebuild, reloadAndNotify, onTenantAdded, OneConsumer, Live, wiring, Stoppable,
         LifecycleTypes, ControlTypes, ConsumerTypes, WorldTypes, LockedOut, Procs, Conts
<1>10. ASSUME NEW p \in Procs, attemptConsumeConnection(p) \/ processMessages(p) \/ Request(p)
      PROVE  OneConsumer'
  BY <1>10, <1>0 DEF attemptConsumeConnection, processMessages, Request, OneConsumer, Live, wiring, Stoppable,
         LifecycleTypes, ControlTypes, ConsumerTypes, WorldTypes, LockedOut, Procs, Conts
<1>11. ASSUME NEW p \in Procs, HandleEvent(p)
      PROVE  OneConsumer'
  BY <1>11, <1>0 DEF HandleEvent, handleTenantUpdated, handleServiceAssociated,
         handleServiceReactivated, handleTenantSuspended, handleServiceSuspended,
         handleCredentialsRotated, handleCacheInvalidate, NotOwned, OneConsumer, Live, wiring, Stoppable,
         LifecycleTypes, ControlTypes, ConsumerTypes, WorldTypes, LockedOut, Procs, Conts
<1>12. CASE CloseConsumer \/ Changes \/ Expire \/ UNCHANGED lvars
  BY <1>12, <1>0 DEF CloseConsumer, Changes, Expire, lvars, Cancel, OneConsumer, Live, wiring, Stoppable,
         LifecycleTypes, ControlTypes, ConsumerTypes, WorldTypes, LockedOut, Procs, Conts
<1>. QED BY <1>1, <1>2, <1>3, <1>4, <1>5, <1>6, <1>7, <1>8, <1>9, <1>10, <1>11, <1>12 DEF
     LifecycleNext, Step

(* ConsumerSound: for every number of requests, loops and locks, versions  *)
(* and events, a tenant has one consumer unless StopConsumer is called     *)
(* (EnsureConsumerStarted), and after an invalidation that no load         *)
(* overlaps neither cache of the dispatcher has what was fetched before it *)
(* (removeTenant).                                                         *)
THEOREM ConsumerSoundHolds == LifecycleSpec => []ConsumerSound
<1>1. LifecycleInit => LifecycleInv
  <2> SUFFICES ASSUME LifecycleInit PROVE LifecycleInv
    OBVIOUS
  <2>1. LifecycleTypes
    <3>1. WorldTypes
      BY ConsumersAssumption DEF LifecycleInit, WorldTypes
    <3>2. ControlTypes
      BY DEF LifecycleInit, ControlTypes, Labels, Conts
    <3>3. CacheTypes
      BY ConsumersAssumption DEF LifecycleInit, CacheTypes, Entries, Breakers
    <3>4. ConsumerTypes
      <4>1. holder \in [Locks -> Procs \cup {Nobody}] /\ mylock \in [Procs -> Locks \cup {Nobody}]
        BY DEF LifecycleInit
      <4>2. retries \in 0 .. maxRetryBeforeDegraded
        BY DEF LifecycleInit, maxRetryBeforeDegraded
      <4>3. known \in BOOLEAN /\ shut \in BOOLEAN /\ cancelled \subseteq Loops
        BY DEF LifecycleInit
      <4>4. tenant \in Loops \cup {Nobody} /\ locks \in Locks \cup {Nobody}
        BY DEF LifecycleInit
      <4>. QED BY <4>1, <4>2, <4>3, <4>4 DEF ConsumerTypes
    <3>. QED BY <3>1, <3>2, <3>3, <3>4 DEF LifecycleTypes
  <2>2. CleanOK /\ \A p \in Procs : LoadOK(p)
    BY DEF LifecycleInit, CleanOK, NothingStale, LoadOK, Sides, Given, SideOf
  <2>3. OneConsumer /\ \A p \in Procs : LockedOut(p)
    BY DEF LifecycleInit, OneConsumer, Live, LockedOut, Procs
  <2>. QED BY <2>1, <2>2, <2>3 DEF LifecycleInv
<1>2. LifecycleInv /\ [LifecycleNext]_lvars => LifecycleInv'
  <2> SUFFICES ASSUME LifecycleInv, [LifecycleNext]_lvars PROVE LifecycleInv'
    OBVIOUS
  <2>1. Nobody \notin Procs \cup Locks /\ Nobody \notin Loops
    BY ConsumersAssumption DEF LifecycleInv, LifecycleTypes, WorldTypes, Procs, Requests
  <2>2. LifecycleTypes' /\ case' = case /\ Procs' = Procs
    BY WorldStep, ControlStep, CacheTypesStep, ConsumerTypesStep DEF LifecycleInv, LifecycleTypes
  <2>3. CleanOK'
    BY <2>1, CleanStep DEF LifecycleInv
  <2>4. \A q \in Procs : LoadOK(q)'
    BY <2>1, LoadStep DEF LifecycleInv
  <2>5. ASSUME ~Stoppable
        PROVE  OneConsumer' /\ \A q \in Procs : LockedOut(q)'
    BY <2>1, <2>5, LockStep, OneStep DEF LifecycleInv
  <2>6. Stoppable' <=> Stoppable
    BY <2>2 DEF wiring, Stoppable
  <2>. QED BY <2>2, <2>3, <2>4, <2>5, <2>6 DEF LifecycleInv
<1>3. LifecycleInv => ConsumerSound
  <2> SUFFICES ASSUME LifecycleInv PROVE ConsumerSound
    OBVIOUS
  <2>1. LifecycleTypeOK
    BY DEF LifecycleInv, LifecycleTypes, WorldTypes, CacheTypes, Breakers, ConsumerTypes, LifecycleTypeOK
  <2>. QED BY <2>1 DEF LifecycleInv, CleanOK, ConsumerSound, OneConsumerUnlessStopped
<1>. QED BY <1>1, <1>2, <1>3, PTL DEF LifecycleSpec

(* LifecycleSound: both of them, as the run states it (the consumer of     *)
(* EnsureConsumerStarted, the caches of removeTenant, the client's breaker *)
(* in recordFailure).                                                      *)
THEOREM LifecycleSoundHolds == LifecycleSpec /\ ClientSpec => []LifecycleSound
<1>1. ConsumerSound /\ ClientSound => LifecycleSound
  BY DEF LifecycleSound
<1>. QED BY <1>1, ConsumerSoundHolds, ClientSoundHolds, PTL
==============================================================================
