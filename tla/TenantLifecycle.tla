-------------------------- MODULE TenantLifecycle --------------------------
(***************************************************************************)
(* One tenant in one service instance: the consumer that starts and stops  *)
(* its queue loop, the loader with the two caches of its configuration     *)
(* (tier 1 in the process, tier 2 in the Tenant Manager client) and the    *)
(* dispatcher that acts on lifecycle events.  A dispatcher handed to the   *)
(* consumer has a loader, a client and a cache of its own.  Requests, the  *)
(* listener's goroutine, the queue loops and Close run concurrently; a     *)
(* step is what is done under one lock, or one call over the network.      *)
(* Tenants share nothing here but the map lock.                            *)
(***************************************************************************)
EXTENDS Naturals, FiniteSets

CONSTANTS Cases,      \* which wiring, who runs and what may happen, see LifecycleInit
          Listener, Loops, Locks, Nobody, None,
          MaxVersion, MaxEvents, MaxFailures, cbThreshold

(* Nobody is none of them.                                                 *)
ASSUME ConsumersAssumption ==
    /\ MaxVersion \in Nat /\ cbThreshold \in Nat \ {0}
    /\ Nobody \notin Loops \cup Locks \cup {Listener} /\ \A c \in Cases : Nobody \notin c.requests

VARIABLES case, truth, news, handled, failures,
          tier1, tier2, cb, loadLock,
          tenant, known, shut, locks, holder, cancelled, rabbit, retries,
          pc, cont, got, mylock, clean, floor

lvars == <<case, truth, news, handled, failures, tier1, tier2, cb, loadLock, tenant, known, shut,
           locks, holder, cancelled, rabbit, retries, pc, cont, got, mylock, clean, floor>>

Requests == case.requests
wiring   == case.wiring
Procs    == Requests \cup {Listener} \cup Loops
Fresh(e) == e # None /\ e.fresh
Entry(v, src) == [v |-> v, fresh |-> TRUE, src |-> src]
maxRetryBeforeDegraded == 3

(* The loaders: the consumer's, and the injected dispatcher's, which is    *)
(* taken to have one.  Each has its caches, breaker and load lock.         *)
Sides == {"consumer", "dispatcher"}

(* The side of the dispatcher, whose tier 1 the consumer looks at too.     *)
Given == IF wiring = "injected" THEN "dispatcher" ELSE "consumer"

(* Whose loader p is in: events reload through the dispatcher's.           *)
SideOf(p) == IF cont[p] = "notify" THEN Given ELSE "consumer"

(* StopConsumer, which deletes the per-tenant lock, is called by the       *)
(* callback of an injected dispatcher, or by the application.              *)
Stoppable == wiring = "injected" \/ "stop" \in case.turns

LifecycleTypeOK ==
    /\ truth.v \in 0 .. MaxVersion /\ truth.suspended \in BOOLEAN
    /\ tenant \in Loops \cup {Nobody} /\ known \in BOOLEAN /\ shut \in BOOLEAN
    /\ loadLock \in [Sides -> Procs \cup {Nobody}] /\ holder \in [Locks -> Procs \cup {Nobody}]
    /\ locks \in Locks \cup {Nobody} /\ cancelled \subseteq Loops
    /\ retries \in 0 .. maxRetryBeforeDegraded 
    /\ \A s \in Sides : cb[s].failures \in 0 .. cbThreshold

(* wiring "internal": the consumer builds the dispatcher (buildEventDispatcher);  *)
(* "injected": it is handed one (wireDispatcherCallbacks); "http": no      *)
(* RabbitMQ, only the caches.  requests: who calls EnsureConsumerStarted;  *)
(* events: what the Tenant Manager sends; turns: what else may happen, and *)
(* "checker": the injected dispatcher was given the consumer's known       *)
(* tenants to ask (WithTenantOwnershipChecker).                            *)
LifecycleInit ==
    /\ case \in Cases
    /\ truth = [v |-> 0, suspended |-> FALSE] /\ news = {} /\ handled = 0 /\ failures = 0
    /\ tier1 = [s \in Sides |-> None] /\ tier2 = [s \in Sides |-> None]
    /\ loadLock = [s \in Sides |-> Nobody]
    /\ cb = [s \in Sides |-> [failures |-> 0, state |-> "closed"]]
    /\ tenant = Nobody /\ known = FALSE /\ shut = FALSE
    /\ locks = Nobody /\ holder = [l \in Locks |-> Nobody]
    /\ cancelled = {} /\ rabbit = FALSE /\ retries = 0
    /\ pc = [p \in Procs |-> "idle"] /\ cont = [p \in Procs |-> "idle"]
    /\ got = [p \in Procs |-> 0] /\ mylock = [p \in Procs |-> Nobody]
    /\ clean = {} /\ floor = 0

-----------------------------------------------------------------------------
World    == <<case, truth, news, failures>>
Caches   == <<tier1, tier2>>
Consumer == <<tenant, known, shut, cancelled>>
LockSet  == <<locks, holder, mylock>>
Ghost    == <<clean, floor>>

Move(p, l) == pc' = [pc EXCEPT ![p] = l]
ThenTo(p, l, c) == Move(p, l) /\ cont' = [cont EXCEPT ![p] = c]
Done(p)    == Move(p, "done")

(* TenantCache.Get, as the loader and the ownership check use it: an       *)
(* expired entry is removed.                                               *)
AfterGet(s) == [tier1 EXCEPT ![s] = IF Fresh(@) THEN @ ELSE None]

-----------------------------------------------------------------------------
(* EnsureConsumerStarted, the fast path.  A known tenant whose entry has   *)
(* expired is loaded again, an unknown one for the first time, both by the *)
(* consumer's loader, whichever cache the consumer looks at.               *)
EnsureConsumerStarted(p) ==
    /\ pc[p] = "ensure"
    /\ \/ (tenant # Nobody \/ shut) /\ Done(p) /\ UNCHANGED cont
       \/ /\ tenant = Nobody /\ ~shut
          /\ IF ~known THEN ThenTo(p, "load", "first")
             ELSE IF tier1[Given] # None /\ ~Fresh(tier1[Given]) THEN ThenTo(p, "load", "again")
             ELSE Move(p, "takeLock") /\ UNCHANGED cont
    /\ UNCHANGED <<World, handled, Caches, cb, loadLock, Consumer, LockSet, rabbit, retries, got, Ghost>>

(* The load is over: a refresh that failed starts the consumer all the     *)
(* same, a first load that failed does not.                                *)
EnsureLoaded(p) ==
    /\ pc[p] \in {"loaded", "notLoaded"} /\ cont[p] \in {"first", "again"}
    /\ IF pc[p] = "notLoaded" /\ cont[p] = "first"
         THEN Done(p) /\ UNCHANGED known
         ELSE Move(p, "takeLock") /\ known' = (known \/ cont[p] = "first")
    /\ UNCHANGED <<World, handled, Caches, cb, loadLock, tenant, shut, cancelled, LockSet,
                   rabbit, retries, cont, got, Ghost>>

(* consumerLocks.LoadOrStore: a new mutex is nobody's yet.                 *)
unusedLocks == {l \in Locks : \A q \in Procs : mylock[q] # l}

LoadOrStore(p) ==
    /\ locks = Nobody => unusedLocks # {}
    /\ locks' = IF locks = Nobody THEN CHOOSE l \in unusedLocks : TRUE ELSE locks
    /\ mylock' = [mylock EXCEPT ![p] = locks']

takeLock(p) ==
    /\ pc[p] = "takeLock"
    /\ \/ wiring = "http" /\ Done(p) /\ UNCHANGED LockSet
       \/ wiring # "http" /\ LoadOrStore(p) /\ Move(p, "lock") /\ UNCHANGED holder
    /\ UNCHANGED <<World, handled, Caches, cb, loadLock, Consumer, rabbit, retries, cont, got, Ghost>>

Release(p) ==
    /\ holder' = [holder EXCEPT ![mylock[p]] = Nobody]
    /\ mylock' = [mylock EXCEPT ![p] = Nobody]

lockTenant(p) ==
    /\ pc[p] = "lock" /\ holder[mylock[p]] = Nobody
    /\ holder' = [holder EXCEPT ![mylock[p]] = p] /\ Move(p, "check")
    /\ UNCHANGED <<World, handled, Caches, cb, loadLock, Consumer, locks, mylock, rabbit, retries, cont, got, Ghost>>

(* Mutant: the lock alone is trusted.                                      *)
noSecondLook == FALSE

alreadyStarted == tenant # Nobody

doubleCheck(p) ==
    /\ pc[p] = "check"
    /\ IF alreadyStarted \/ shut THEN Release(p) /\ Done(p) ELSE Move(p, "start") /\ UNCHANGED <<holder, mylock>>
    /\ UNCHANGED <<World, handled, Caches, cb, loadLock, Consumer, locks, rabbit, retries, cont, got, Ghost>>

Unborn == {l \in Loops : pc[l] = "idle"}

(* startTenantConsumer: the cancel function of whatever runs is replaced.  *)
(* Loops bounds how often.                                                 *)
startTenantConsumer(p) ==
    /\ pc[p] = "start"
    /\ Unborn # {}
    /\ \E l \in {CHOOSE l \in Unborn : TRUE} :
         /\ tenant' = l
         /\ pc' = [pc EXCEPT ![p] = "done", ![l] = "queue"]
    /\ Release(p)
    /\ UNCHANGED <<World, handled, Caches, cb, loadLock, known, shut, cancelled, locks, rabbit, retries, cont, got, Ghost>>

-----------------------------------------------------------------------------
(* LoadTenant: one load per tenant at a time; who waited finds the entry.  *)
Unlock(p) == loadLock' = [loadLock EXCEPT ![SideOf(p)] = Nobody]

LoadTenant(p) ==
    /\ pc[p] = "load" /\ loadLock[SideOf(p)] = Nobody
    /\ tier1' = AfterGet(SideOf(p)) /\ clean' = (IF SideOf(p) = Given THEN {} ELSE clean)
    /\ IF Fresh(tier1[SideOf(p)])
         THEN Move(p, "loaded") /\ UNCHANGED loadLock
         ELSE Move(p, "client") /\ loadLock' = [loadLock EXCEPT ![SideOf(p)] = p]
    /\ UNCHANGED <<World, handled, tier2, cb, Consumer, LockSet, rabbit, retries, cont, got, floor>>

(* GetTenantConfig: the client's own cache first, then its breaker.        *)
getCachedTenantConfig(p) ==
    LET s == SideOf(p) IN
    /\ pc[p] = "client"
    /\ \/ /\ tier2[s] # None /\ got' = [got EXCEPT ![p] = tier2[s]] /\ Move(p, "set1")
          /\ UNCHANGED <<cb, loadLock>>
       \/ /\ tier2[s] = None /\ cb[s].state # "open" /\ Move(p, "http") /\ UNCHANGED <<cb, loadLock, got>>
       \/ /\ tier2[s] = None /\ cb[s].state = "open" /\ UNCHANGED got
          /\ \/ Move(p, "notLoaded") /\ Unlock(p) /\ UNCHANGED cb
             \/ Move(p, "http") /\ cb' = [cb EXCEPT ![s].state = "halfOpen"] /\ UNCHANGED loadLock
    /\ UNCHANGED <<World, handled, Caches, Consumer, LockSet, rabbit, retries, cont, Ghost>>

cbSuccess(s) == cb' = [cb EXCEPT ![s] = [failures |-> 0, state |-> "closed"]]
cbFailure(s) ==
    LET n == IF cb[s].failures < cbThreshold THEN cb[s].failures + 1 ELSE cb[s].failures
    IN  cb' = [cb EXCEPT ![s] = [failures |-> n, state |-> IF n >= cbThreshold THEN "open" ELSE cb[s].state]]

(* The answer of the Tenant Manager: a configuration, a refusal (which is  *)
(* no failure of the service), or none.                                    *)
fetchTenantConfig(p) ==
    /\ pc[p] = "http"
    /\ \/ /\ ~truth.suspended /\ cbSuccess(SideOf(p))
          /\ got' = [got EXCEPT ![p] = truth.v] /\ Move(p, "set2") /\ UNCHANGED <<loadLock, failures>>
       \/ /\ truth.suspended /\ cbSuccess(SideOf(p))
          /\ Move(p, "notLoaded") /\ Unlock(p) /\ UNCHANGED <<got, failures>>
       \/ /\ "fail" \in case.turns /\ failures < MaxFailures /\ failures' = failures + 1 /\ cbFailure(SideOf(p))
          /\ Move(p, "notLoaded") /\ Unlock(p) /\ UNCHANGED got
    /\ UNCHANGED <<case, truth, news, handled, Caches, Consumer, LockSet, rabbit, retries, cont, Ghost>>

cacheTenantConfig(p) ==
    /\ pc[p] = "set2" /\ tier2' = [tier2 EXCEPT ![SideOf(p)] = got[p]] /\ Move(p, "set1")
    /\ UNCHANGED <<World, handled, tier1, cb, loadLock, Consumer, LockSet, rabbit, retries, cont, got, Ghost>>

cacheSet(p) ==
    /\ pc[p] = "set1" /\ tier1' = [tier1 EXCEPT ![SideOf(p)] = Entry(got[p], "api")] /\ Move(p, "onLoaded")
    /\ UNCHANGED <<World, handled, tier2, cb, loadLock, Consumer, LockSet, rabbit, retries, cont, got, Ghost>>

(* The consumer's callback, SetOnTenantLoaded, with the load lock held;    *)
(* an injected dispatcher's loader does not have it.                       *)
onTenantLoaded(p) ==
    /\ pc[p] = "onLoaded" /\ known' = (known \/ SideOf(p) = "consumer") /\ Unlock(p) /\ Move(p, "loaded")
    /\ UNCHANGED <<World, handled, Caches, cb, tenant, shut, cancelled, LockSet, rabbit, retries, cont, got, Ghost>>

-----------------------------------------------------------------------------
(* removeTenant, step by step: tier 1, tier 2, the pools, the consumer.    *)
(* The caches are those of the dispatcher.                                 *)
removeTenant(p) ==
    /\ pc[p] = "remove" /\ tier1' = [tier1 EXCEPT ![Given] = None] /\ Move(p, "invalidate")
    /\ clean' = IF loadLock[Given] = Nobody THEN clean \cup {p} ELSE clean
    /\ UNCHANGED <<World, handled, tier2, cb, loadLock, Consumer, LockSet, rabbit, retries, cont, got, floor>>

tier2Invalidated == None

InvalidateClientCache(p) ==
    /\ pc[p] = "invalidate" /\ Move(p, "closePools")
    /\ tier2' = [tier2 EXCEPT ![Given] = tier2Invalidated]
    /\ floor' = (IF p \in clean THEN truth.v ELSE floor) /\ clean' = clean \ {p}
    /\ UNCHANGED <<World, handled, tier1, cb, loadLock, Consumer, LockSet, rabbit, retries, cont, got>>

closePools(p) ==
    /\ pc[p] = "closePools" /\ rabbit' = FALSE /\ Move(p, "removed")
    /\ UNCHANGED <<World, handled, Caches, cb, loadLock, Consumer, LockSet, retries, cont, got, Ghost>>

Cancel == IF tenant = Nobody THEN cancelled ELSE cancelled \cup {tenant}

(* onTenantRemoved: as built internally it takes only the map's lock; an   *)
(* injected dispatcher calls StopConsumer.                                 *)
onTenantRemoved(p) ==
    /\ pc[p] = "removed"
    /\ \/ /\ wiring # "injected" /\ Move(p, cont[p])
          /\ cancelled' = Cancel /\ tenant' = Nobody /\ known' = FALSE /\ UNCHANGED shut
       \/ wiring = "injected" /\ Move(p, "stop") /\ UNCHANGED Consumer
    /\ UNCHANGED <<World, handled, Caches, cb, loadLock, LockSet, rabbit, retries, cont, got, Ghost>>

StopConsumer(p) ==
    /\ pc[p] = "stop" /\ LoadOrStore(p) /\ Move(p, "stopLock")
    /\ UNCHANGED <<World, handled, Caches, cb, loadLock, Consumer, holder, rabbit, retries, cont, got, Ghost>>

StopUnderLock(p) ==
    /\ pc[p] = "stopLock" /\ holder[mylock[p]] = Nobody
    /\ cancelled' = Cancel /\ tenant' = Nobody /\ known' = FALSE
    /\ Release(p) /\ Move(p, "forget")
    /\ UNCHANGED <<World, handled, Caches, cb, loadLock, shut, locks, rabbit, retries, cont, got, Ghost>>

(* The lock is deleted after it was given up.                              *)
StopForgets(p) ==
    /\ pc[p] = "forget" /\ locks' = Nobody /\ retries' = 0 /\ Move(p, cont[p])
    /\ UNCHANGED <<World, handled, Caches, cb, loadLock, Consumer, holder, mylock, rabbit, cont, got, Ghost>>

-----------------------------------------------------------------------------
(* HandleEvent.  Events come from pub/sub: any that was sent may come late *)
(* or again, or never.  Tenant-level ones count only if the tenant is      *)
(* owned: cached, or known to the consumer where the dispatcher can ask.   *)
ownsTenant     == known /\ (wiring # "injected" \/ "checker" \in case.turns)
isOwnedLocally == ownsTenant \/ Fresh(tier1[Given])

(* Touch renews a fresh entry; activated and updated alike.                *)
handleTenantUpdated(p, e) ==
    /\ e.kind = "touched" /\ isOwnedLocally /\ Done(p) /\ UNCHANGED <<cont, got>>
    /\ tier1' = AfterGet(Given)

(* The entry is made from the event's payload, at once or after a delay.   *)
handleServiceAssociated(p, e) ==
    e.kind = "associated" /\ tier1' = [tier1 EXCEPT ![Given] = Entry(e.v, "event")] /\ Move(p, "added") /\ UNCHANGED <<cont, got>>

handleServiceReactivated(p, e) ==
    e.kind = "reactivated" /\ got' = [got EXCEPT ![p] = e.v] /\ Move(p, "jitter") /\ UNCHANGED <<cont, tier1>>

handleTenantSuspended(p, e) ==
    e.kind = "suspended" /\ isOwnedLocally /\ ThenTo(p, "remove", "done") /\ UNCHANGED <<tier1, got>>

handleServiceSuspended(p, e) ==
    e.kind = "serviceSuspended" /\ ThenTo(p, "remove", "done") /\ UNCHANGED <<tier1, got>>

handleCredentialsRotated(p, e) ==
    e.kind = "rotated" /\ ThenTo(p, "remove", "reload") /\ UNCHANGED <<tier1, got>>

handleCacheInvalidate(p, e) ==
    /\ e.kind = "invalidate" /\ ThenTo(p, "remove", IF isOwnedLocally THEN "reload" ELSE "done")
    /\ tier1' = IF ownsTenant THEN tier1 ELSE AfterGet(Given)
    /\ UNCHANGED got

NotOwned(p, e) ==
    e.kind \in {"touched", "suspended"} /\ ~isOwnedLocally /\ tier1' = AfterGet(Given) /\ Done(p) /\ UNCHANGED <<cont, got>>

HandleEvent(p) ==
    /\ pc[p] \in {"idle", "done"} /\ p = Listener /\ handled < MaxEvents
    /\ \E e \in news :
         \/ handleTenantUpdated(p, e) \/ handleServiceAssociated(p, e) \/ handleServiceReactivated(p, e)
         \/ handleTenantSuspended(p, e) \/ handleServiceSuspended(p, e)
         \/ handleCredentialsRotated(p, e) \/ handleCacheInvalidate(p, e) \/ NotOwned(p, e)
    /\ handled' = handled + 1
    /\ UNCHANGED <<World, tier2, cb, loadLock, Consumer, LockSet, rabbit, retries, Ghost>>

Rebuild(p) ==
    /\ pc[p] = "jitter" /\ tier1' = [tier1 EXCEPT ![Given] = Entry(got[p], "event")] /\ Move(p, "added")
    /\ UNCHANGED <<World, handled, tier2, cb, loadLock, Consumer, LockSet, rabbit, retries, cont, got, Ghost>>

(* reloadAndNotify, after the jitter.                                      *)
reloadAndNotify(p) ==
    /\ \/ pc[p] = "reload" /\ ThenTo(p, "load", "notify")
       \/ pc[p] = "loaded" /\ cont[p] = "notify" /\ Move(p, "added") /\ UNCHANGED cont
       \/ pc[p] = "notLoaded" /\ cont[p] = "notify" /\ Done(p) /\ UNCHANGED cont
    /\ UNCHANGED <<World, handled, Caches, cb, loadLock, Consumer, LockSet, rabbit, retries, got, Ghost>>

onTenantAdded(p) ==
    /\ pc[p] = "added" /\ known' = TRUE /\ Move(p, "ensure")
    /\ UNCHANGED <<World, handled, Caches, cb, loadLock, tenant, shut, cancelled, LockSet, rabbit, retries, cont, got, Ghost>>

-----------------------------------------------------------------------------
(* attemptConsumeConnection.  A tenant that is suspended is removed from   *)
(* inside its own loop; other failures are retried after a delay.          *)
attemptConsumeConnection(l) ==
    /\ l \in Loops /\ pc[l] = "queue"
    /\ \/ l \in cancelled /\ Move(l, "done") /\ UNCHANGED <<rabbit, retries, cont, failures>>
       \/ /\ l \notin cancelled /\ (rabbit \/ ~truth.suspended)
          /\ rabbit' = TRUE /\ retries' = 0 /\ Move(l, "consume") /\ UNCHANGED <<cont, failures>>
       \/ /\ l \notin cancelled /\ ~rabbit /\ truth.suspended
          /\ ThenTo(l, "remove", "done") /\ UNCHANGED <<rabbit, retries, failures>>
       \/ /\ l \notin cancelled /\ "fail" \in case.turns /\ failures < MaxFailures /\ failures' = failures + 1
          /\ retries' = IF retries < maxRetryBeforeDegraded THEN retries + 1 ELSE retries
          /\ UNCHANGED <<rabbit, pc, cont>>
    /\ UNCHANGED <<case, truth, news, handled, Caches, cb, loadLock, Consumer, LockSet, got, Ghost>>

(* processMessages ends with the context or with the channel.              *)
processMessages(l) ==
    /\ l \in Loops /\ pc[l] = "consume" /\ (l \in cancelled \/ ~rabbit) /\ Move(l, "queue")
    /\ UNCHANGED <<World, handled, Caches, cb, loadLock, Consumer, LockSet, rabbit, retries, cont, got, Ghost>>

-----------------------------------------------------------------------------
(* The application starts a consumer, or stops it.                         *)
Request(p) ==
    /\ p \in Requests /\ pc[p] = "idle"
    /\ \/ Move(p, "ensure") /\ UNCHANGED cont
       \/ "stop" \in case.turns /\ ThenTo(p, "stop", "done")
    /\ UNCHANGED <<World, handled, Caches, cb, loadLock, Consumer, LockSet, rabbit, retries, got, Ghost>>

CloseConsumer ==
    /\ "close" \in case.turns /\ ~shut /\ shut' = TRUE /\ cancelled' = Cancel /\ tenant' = Nobody /\ known' = FALSE
    /\ UNCHANGED <<World, handled, Caches, cb, loadLock, LockSet, rabbit, retries, pc, cont, got, Ghost>>

(* The Tenant Manager changes its mind and says so, as events; an          *)
(* operator asks for an invalidation.                                      *)
Changes ==
    /\ \/ truth.v < MaxVersion /\ truth' = [truth EXCEPT !.v = @ + 1]
       \/ "suspend" \in case.turns /\ ~truth.suspended /\ truth' = [truth EXCEPT !.suspended = TRUE]
    /\ news' = news \cup {[kind |-> k, v |-> truth'.v] : k \in case.events}
    /\ UNCHANGED <<case, handled, failures, Caches, cb, loadLock, Consumer, LockSet, rabbit, retries, pc, cont, got, Ghost>>

(* Entries expire; the connection breaks.                                  *)
Expire ==
    /\ \/ /\ "expire" \in case.turns /\ UNCHANGED rabbit
          /\ \E s \in Sides :
               \/ Fresh(tier1[s]) /\ tier1' = [tier1 EXCEPT ![s].fresh = FALSE] /\ UNCHANGED tier2
               \/ tier2[s] # None /\ tier2' = [tier2 EXCEPT ![s] = None] /\ UNCHANGED tier1
       \/ "break" \in case.turns /\ rabbit /\ rabbit' = FALSE /\ UNCHANGED Caches
    /\ UNCHANGED <<World, handled, cb, loadLock, Consumer, LockSet, retries, pc, cont, got, Ghost>>

Step(p) ==
    \/ EnsureConsumerStarted(p) \/ EnsureLoaded(p) \/ takeLock(p) \/ lockTenant(p) \/ doubleCheck(p)
    \/ startTenantConsumer(p)
    \/ LoadTenant(p) \/ getCachedTenantConfig(p) \/ fetchTenantConfig(p) \/ cacheTenantConfig(p)
    \/ cacheSet(p) \/ onTenantLoaded(p)
    \/ removeTenant(p) \/ InvalidateClientCache(p) \/ closePools(p) \/ onTenantRemoved(p)
    \/ StopConsumer(p) \/ StopUnderLock(p) \/ StopForgets(p)
    \/ Rebuild(p) \/ reloadAndNotify(p) \/ onTenantAdded(p)
    \/ attemptConsumeConnection(p) \/ processMessages(p)

LifecycleNext ==
    \/ \E p \in Procs : Step(p) \/ Request(p) \/ HandleEvent(p)
    \/ CloseConsumer \/ Changes \/ Expire

Everybody == UNION {c.requests : c \in Cases} \cup {Listener} \cup Loops

(* Goroutines that can go on do.                                           *)
LifecycleFairness == \A p \in Everybody : WF_lvars(p \in Procs /\ Step(p))

LifecycleSpec == LifecycleInit /\ [][LifecycleNext]_lvars /\ LifecycleFairness

-----------------------------------------------------------------------------
Live == {l \in Loops : pc[l] \in {"queue", "consume"}} \ cancelled

(* What the comment on EnsureConsumerStarted guarantees: one consumer per  *)
(* tenant.  A loop that lost its place in the map can never be stopped.    *)
OneConsumer == Live \subseteq {tenant}

(* It holds unless StopConsumer is called, by an injected dispatcher or by *)
(* the application: nothing else deletes the per-tenant lock.              *)
OneConsumerUnlessStopped == ~Stoppable => OneConsumer

(* An invalidation that no load overlaps leaves nothing behind in the      *)
(* caches of the dispatcher: what either has later from the Tenant Manager *)
(* was fetched after it.  With an injected dispatcher the caches of the    *)
(* consumer's own loader are not invalidated at all.                       *)
NothingStale ==
    /\ tier1[Given] # None /\ tier1[Given].src = "api" => tier1[Given].v >= floor
    /\ tier2[Given] # None => tier2[Given] >= floor

ConsumerSound == LifecycleTypeOK /\ OneConsumerUnlessStopped /\ NothingStale

Calling(p) == pc[p] \notin {"idle", "done"}

(* No request or event is under way and cancelled loops have ended.        *)
LifecycleQuiet ==
    /\ \A p \in Procs \ Loops : ~Calling(p)
    /\ \A l \in cancelled : pc[l] = "done"
=============================================================================
