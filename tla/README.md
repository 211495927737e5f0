# A TLA+ model of lib-commons

lib-commons is the shared Go library of the Lerian services. It is not one
program but a set of components that services assemble: a transactional outbox
on Postgres or MongoDB, an idempotency middleware, a distributed lock, messaging
and database clients, circuit breakers, a tenant manager with its connection
pools and consumers, rate limiting and pacing, object storage, and a server
lifecycle. The parts worth modelling are the ones whose state several processes,
goroutines or messages touch at once, and the few algorithms whose corner cases
no table of examples exhausts. This project specifies them, model-checks them
with TLC and proves with TLAPS the safety properties of all of them but one.

Paths below are relative to `src/commons`.

## 1. The system's parts

### Modelled

| Component | State it keeps | Operations | Who it interacts with |
| --- | --- | --- | --- |
| Outbox dispatcher and Postgres repository (`outbox`, `outbox/postgres`) | rows of the outbox table; per dispatcher the claimed batch | create, claim by layer, publish, marks, reclaim, retention purge, callbacks | the table is shared by every replica's dispatcher |
| Outbox on MongoDB (`outbox/mongo`) | documents with a claim token; a cache of databases that have their indexes | claim without transaction (find, compare-and-set, read-back, rollback), marks, purge; the choice of the tenant's database | the same dispatchers |
| Outbox dispatcher lifecycle, scheduling, list-failure counters (`outbox/dispatcher.go`) | run state, stop channel, Once; activity and sweep times per scope; counters per tenant | RunContext, Stop, Shutdown; the cycle over tenants | decide when and whose rows are worked on |
| Outbox tenant pools and resolvers (`outbox/postgres/*resolver.go`, `table_presence.go`) | cached topology, tenant list, presence of tables | refresh, evict, invalidate, route a call, discover tenants | tenant events against dispatchers |
| Idempotency middleware (`net/http/idempotency`) | one record per tenant and key in Redis and the lease on it; captured headers | acquire, route, complete, fence, release, heartbeat, replay | HTTP handlers, Redis scripts |
| Rate limiting and pacing (`net/http/ratelimit`, `net/http/pacing`) | counters with expiry; the time of a bucket's last grant | count and judge, repair, Reset; reserve a slot | Redis scripts and the server's clock |
| Cursors and pages (`net/http/cursor.go`, `pagination*.go`) | none | directions, page cut, cursors | the service's queries |
| Redis lock (`redis/lock.go`) | a key with a value and an expiry; a handle | TryLock, WithLock, Extend, Unlock | redsync, one node |
| Redis, Postgres and MongoDB clients (`redis`, `postgres`, `mongo`) | the client or pools, backoff, token and refresh loop | connect on demand, replace, read-only transactions, indexes, migrations, Close | databases, the token source |
| Circuit breaker manager and health checker (`circuitbreaker`) | one breaker per (tenant, service); bounded queues of news | GetOrCreate, Execute, resets, removal; sweeps, Start, Stop | callers keep handles, listeners |
| Server manager, errgroup, app launcher (`server`, `errgroup`, `app.go`) | launches, shutdown stage; goroutines under a wait group | launch, signal, staged drain, hooks; Go, Wait, Add, RunWithError | HTTP and gRPC servers, goroutines |
| Dead-letter queue (`dlq`) | Redis lists per tenant; retry counts and times | Enqueue, poll cycle, retry, prune, Run, Stop | Redis, the retry function |
| RabbitMQ connection and confirmable publisher (`rabbitmq`) | connection and channel; the publisher's channel, confirms, returns, monitor | connect, ensure, open, close; publish, recover, Reconnect, Close | the broker |
| Webhook delivery (`webhook`) | a result per endpoint | fan-out, attempts, backoff, signatures | receivers |
| Tenant connection managers (`tenant-manager/{postgres,mongo,rabbitmq}`) | a cache of pools per tenant, a health gate, LRU times, applied settings | get, create, evict, revalidate, swap, close | callers, the Tenant Manager |
| Tenant consumer, events and caches (`tenant-manager/{consumer,event,cache,tenantcache}`) | loops and locks per tenant, two cache tiers | start on demand, stop, Close; lifecycle events | pub/sub, the managers |
| Tenant Manager client (`tenant-manager/client`) | one breaker for all calls, a cache | reads and writes of the management API | the Tenant Manager |
| Object storage (`tenant-manager/s3`) | versions of an object | upload, create, retained writes with recovery, delete | S3 |
| Certificate manager (`certificate`), cron (`cron`), ledger plans (`transaction`) | certificate and key; none; none | load, rotate, read; parse, next; plan, check, post | files; callers that store balances |

What makes them hard, and the property that makes each correct:

* the outbox's marks match id and status, not owner, and claims are taken over
  after a timeout: nothing may be PUBLISHED that no handler accepted, no row may
  be handed out more often than its budget, and every row must settle; on
  MongoDB the same without a transaction around the claim;
* RunContext, Stop and Shutdown overlap, under a lock that covers only parts of
  each: one loop at a time, nothing running after Shutdown, both must end;
* scopes come and go between cycles while their schedule is remembered, and
  evictions meet refreshes that began before them: nobody is forgotten, nobody
  evicted comes back, nobody is skipped longer than a cache lives;
* the idempotency key is acquired before a handler of any length and used after
  it, over a store whose answers get lost: a caller told that all is well must
  be the only one, and a replay repeats the handler's headers and no others;
* a lock's call is sent, applied and answered at three different times: no two
  holders may believe in a valid lease;
* counters lose their expiry and clocks step back: a limit must hold and must
  not lock anyone out;
* breakers are replaced under running calls, clients under running users: late
  results must not count for what they do not belong to, and no connection may
  be left that nobody can close;
* news of open breakers is dropped when queues are full: recovery must not
  depend on it;
* shutdown races launches that have not reached their socket and requests that
  never return: it must end, in order, in time, with nothing left serving;
* a dead letter is taken out of Redis before it is retried, by a client that
  sends commands again whose answers it lost: it must be in one place, be
  doubled only by such a push, and vanish only where the code says so;
* confirms carry no link to the publish they answer, receivers get requests late
  or twice: what the caller is told must be what happened;
* a pool is checked, replaced, evicted and closed by different goroutines that
  give up the lock in between: no pool may leak, and what is handed out must be
  what the cache has;
* lifecycle events come late, twice or never, while lookups refill what they
  remove: one consumer per tenant, and nothing stale after an invalidation;
* writes to S3 and to the Tenant Manager are carried out although their answer
  is lost: a repeated call must find out, and never claim another's write;
* two files, a calendar and a page walk have corners that examples miss.

### Not modelled, and why

PROJECT.json lists every other component with its reason: sanitising of
payloads, errors and logs, crypto and tokens, HTTP helpers, key prefixes, the
observability facade and constants transform single values; the breaker
passthrough, the dead-letter topology and backoff keep no state (backoff's delays
are steps of the models that use it); secrets and the license handler are single
calls to a store or a hook; the tenant middleware resolves request by request
over the managers, whose model has its decisions. Of the outbox's resolvers the
schema resolver is left out: it sets a search path and keeps nothing.

## 2. The modules

| Module | Code it stands for |
| --- | --- |
| `Outbox` | `outbox/dispatcher.go` (dispatch cycle, marks, callbacks), `outbox/postgres/{repository,state_transitions,pending_types,batch,retention,…}.go` |
| `OutboxLifecycle` | the status machine of `outbox/status.go`: the abstract specification `Outbox` implements |
| `OutboxMongo`, `MongoDatabases` | `outbox/mongo/{claim,repository,document,retention}.go`; the routing and the index cache of its repository |
| `DispatcherLifecycle`, `OutboxScheduler` | `outbox/dispatcher.go`: the run and its end; the cycle over tenants and the list-failure counters |
| `OutboxTopology`, `TenantDiscovery` | `outbox/postgres/{module_pool_resolver,pool_resolver,manager_pool_resolver}.go`; `table_presence.go`, `column_resolver.go` |
| `Idempotency`, `ReplayHeaders` | `net/http/idempotency` |
| `RateLimit`, `Pacing`, `Paging` | `net/http/ratelimit`, `net/http/pacing`, `net/http/{cursor,pagination,pagination_sort}.go` |
| `RedisLock`, `RedisClient` | `redis/lock.go`, `redis/redis.go` |
| `DatabaseClients`, `Migrations` | `postgres/{postgres,pools,readonly}.go` and `mongo/mongo.go`; Migrator.Up |
| `CircuitBreaker`, `HealthChecker` | `circuitbreaker`; gobreaker from its use |
| `ServerShutdown`, `Groups` | `server/shutdown.go`; `errgroup`, `app.go` |
| `DeadLetterQueue` | `dlq` |
| `RabbitMQConnection`, `ConfirmablePublisher` | `rabbitmq/rabbitmq.go`, `rabbitmq/publisher.go` |
| `WebhookDelivery` | `webhook` |
| `TenantPools`, `TenantSettings` | the three connection managers; settings of a Postgres pool |
| `TenantLifecycle`, `TenantClient` | consumer, event dispatcher, both caches and the loader; the client with its breaker |
| `ObjectStorage` | `tenant-manager/s3` |
| `Ledger`, `Cron`, `Certificate` | `transaction`, `cron`, `certificate` |
| `OutboxProofs`, `StoresProofs`, `RequestsProofs`, `TenantPoolsProofs`, `MessagingProofs`, `StopsProofs`, `ClocksProofs` | theorems about `Outbox`; `OutboxMongo`, `MongoDatabases`, `OutboxTopology`, `TenantDiscovery` and `ObjectStorage`; `Idempotency`, `CircuitBreaker`, `ReplayHeaders`, `RateLimit`, `Pacing`, `RedisClient`, `DatabaseClients`, `Migrations` and `Paging`; `TenantPools`, `TenantSettings`, `TenantClient` and `TenantLifecycle`; `RabbitMQConnection`, `ConfirmablePublisher`, `DeadLetterQueue` and `WebhookDelivery`; `ServerShutdown`, `HealthChecker`, `DispatcherLifecycle` and `Groups`; `RedisLock`, `Certificate`, `OutboxScheduler` and `Cron` |
| `MC…` | instances for TLC |

The outbox runs check `Outbox` itself. The MC modules group components that share
no state by the question they answer: `MCClocks` what lives by the clock,
`MCRequests` what a request meets, `MCStops` what runs until it is stopped,
`MCMessaging` messages on their way, `MCTenants` the tenant manager, `MCStores`
stored data. In such a module a variable `focus`, chosen in the initial state,
says which component moves; the others stand still.

An MC module EXTENDS the components that have theorems, which are all but the
ledger: while another part runs they stand in an initial state, and the definition
the run checks is the one the theorem proves. `Ledger` in `MCStores` is an instance,
whose variables are replaced by slots the MC module declares; its property there is
an implication from `focus`. Every component module can also be checked alone: it
has its own initial states, next-state relation and specification.

Where a component is checked in several configurations the configuration is a
variable (`cfg`, `mode`, `setup`, `plan`, `case`) that the initial state picks
from a constant set and no action changes; that is how the code holds it, fixed
by a constructor. A plan says who calls what.

Definitions named in a comment `Mutant: …` are not part of the model. Each is a
plausible mistake in the definition that follows it; replacing that definition
by it must make the named property fail, which shows that the property looks at
the code it is about.

### How state and actions correspond to the code

*Outbox.* One repository call is one transaction. A claim is two steps, `Select`
(`SELECT … FOR UPDATE SKIP LOCKED`, locks the rows) and `Commit` (the UPDATE), so
that dispatchers really meet each other's locks. The layers of `collectEvents`
are the values of `pc`. Time is the set `aged`: rows whose `updated_at` is older
than the window of their status; every write takes its row out. `ClaimFails`,
`MarkFails` and `Abort` are a failed call, a call applied but reported as failed,
a lost cycle. `acked`, `claims`, `reclaimed` and `reported` are history.

*OutboxMongo.* There are no locks to hold: the find, each update of the unordered
bulk, the read-back by token and the rollback are steps, and a document written
since the find may still compare equal (`updated_at` has milliseconds). This
repository cannot list several types at once, so a dispatcher's priority types are
no scope here: its cycle claims them first, within their budget, and then goes on
to stuck, failed and pending documents in the same batch.
*MongoDatabases* is the resolution of the database in order (context of the
module, context of the service, resolver, default) and the double-checked index
cache, each database with one client: the cache's key also has the client, so a
database that gets a new one has its indexes ensured once more.

*DispatcherLifecycle.* Each critical section of `runStateMu`, each channel
operation and each `Once` or `WaitGroup` operation is a step of its own.
*OutboxScheduler.* A cycle is `StartCycle`, a `Visit` per scope and the closing
sweep; the time is read before a dispatch and used after it, as in the code. The
counters of failed listings are its second half, with variables of their own: a
failure and a success are one step each, under their lock; the shared bucket is
there from the start and counts towards the cap.

*OutboxTopology.* A refresh draws its id, reads the directory, resolves each
tenant and commits, under `refreshMu` but without `topologyMu`; events draw an id
and delete under `topologyMu`. `epoch` numbers the events, so that properties can
say what a committed entry was read before. *TenantDiscovery.* A look at a cache,
joining the flight, the second look, the query and the store are steps of several
dispatchers; values carry the tick they were read in.

*Idempotency.* `rec` is the record under one key. Acquire is SET NX; Complete,
Release and Extend compare the stored bytes, modelled as equality with the request's
own processing record. Each store call may fail before it is applied or after, or be
applied once its caller has given up on it (`late`). A handler may answer 4xx
whether or not it had its effect: under the releasing policy its key is given up
either way. `answer` is what the client is told. *ReplayHeaders.* A header is the
list of its values; the capture is the difference the handler made.

*RateLimit*, *Pacing.* A script is one step. A rate limit's counter has a
remaining life, possibly lost; a pacing script runs some steps after its caller
read the rate, over a clock that may step back, and the paced call leaves any time
after its permit: permits are spaced, departures are not.

*RedisLock.* A call is asked, applied by the server and answered in three steps
with clock ticks in between; redsync's validity deadline is computed from the
time before the call. `leaseMu` is the variable `lease`. A command whose caller
gave up stays in `late` until the server executes it, if it does, and the client
sends an unanswered one again. *RedisClient* and
*DatabaseClients.* What is done under `c.mu` is one step, network calls included
where the code holds the lock over them; clients and pools are numbered as they
are made, so that a leak is a number that is open and that nobody holds. A
read-only function that does not ask its rows for an error also returns nil when
the server or the connection cut them short.
*Migrations.* golang-migrate's lock, version and dirty flag are external; Up's
reading of its errors is the code's.

*CircuitBreaker.* Instances are numbered as they are made; `slots` is the manager's
map. A call remembers the instance and the generation it was admitted in. gobreaker
is external: its lazy time-outs are `Elapse`, after which the next use changes
state. *ServerShutdown.* A stage is what `executeShutdown` is at; `spent` is the
time since its budget began. A forced close or stop ends a drain, but not the
handlers: `busy` keeps the server until they return. *Groups.* A goroutine's fate is
a chain of steps through `errOnce`; the launcher's apps are added one by one, and an
app that an option could not add refuses the whole run.

*DeadLetterQueue.* One source, since sources are visited in turn and share
nothing. `hand` is the message taken out of Redis by the destructive read. The
client sends a command again whose answer it lost: a push then leaves a second
copy, a message of its own with the same `origin`, and a read drops the message it
took first.
*RabbitMQConnection.* A snapshot under the lock, dials outside it, a commit under
it. *ConfirmablePublisher.* The broker confirms and returns in the order of each
channel's publishes and by nothing else; a channel's number also names its
monitor. *WebhookDelivery.* A request may be lost, late, answered or not; the
receiver's check is a step of its own, at the event's age then. The wait between
two attempts always ends by itself: `fanOut` detaches the context, so the branch
for a cancelled wait is never taken and is no step of the model.

*TenantPools.* One module for three managers: `Kind` guards the steps in which
they differ. A lookup, a verdict of the health gate, a creation, an eviction, a
revalidation and a swap are separate steps wherever the lock is given up.
Revalidations are goroutines of their own, a bounded number (`Revals`) of them.
With the gate disabled nobody waits for another's verdict.
Two can be at work for one tenant, although the comment at
`tenant-manager/postgres/manager.go:461` expects one: an eviction deletes the
time of the last check, so the next call starts another. The properties, and the
theorem, hold all the same.
*TenantSettings.* A pool is what it was made from and the limits last applied. The
limit is the tenant's, or else the default of the manager's options, which may be
any number: one below 1 is replaced by the package's default when a pool is made
(`withDefaults`) and means no limit when it is applied to an existing one.
*TenantLifecycle.* One tenant; requests, the event listener, loops and Close are
processes with program counters; locks are objects, so that a deleted lock and
its successor are two. An injected dispatcher has a loader of its own, so caches,
breaker and load lock exist once per side; the consumer looks at the dispatcher's
tier 1 and loads through its own, and events invalidate only the dispatcher's.
Whether the dispatcher can ask the consumer for the tenants it knows
(`WithTenantOwnershipChecker`) and whether the application calls StopConsumer are
part of the scenario. *TenantClient.* A call passes the breaker, is carried out
by the Tenant Manager, and is read by its own handler, in three steps: what was
carried out and what is answered come apart.

*ObjectStorage.* The bucket is the sequence of versions and markers of one key; puts
in flight may land after their caller gave up. *Ledger.* The package's functions are
operators on values; storing the result is the caller's step, with other
transactions in between. Amounts are whole numbers: the checks that bound a
decimal's digits and exponent are left out. *Cron.* The search is a step per
iteration, in a calendar whose lengths are constants. *Certificate.* The two files
are written one after the other and read one after the other.

## 3. The runs

Each finishes in about three minutes or less on two cores.

| Run | Instance | What it shows |
| --- | --- | --- |
| `outbox_safety` | 2 events, 2 dispatchers, one of them scoped, 2 attempts, batch 2, retention of both final states, a kept type, one id created again after its purge, 1 failure anywhere (2.5 million states) | PUBLISHED only after an accepted publish and OnInvalid only for INVALID rows (`ReportsAreTrue`); the attempts column counts every hand-out (`AttemptsBudget`); one owner unless a claim timed out (`SingleOwner`); the table implements `OutboxLifecycle` |
| `outbox_liveness` | the same two dispatchers, batch 1, 1 failure | no cycle collects more than its batch over all claim layers (`BatchBounded`); every stored event ends PUBLISHED or INVALID (`EventsSettle`) |
| `outbox_callback` | 2 dispatchers, no failure | *violation*, see section 6 |
| `clocks` | lock: 2 callers, 2 tries, lease 2, clock to 3, 1 lost answer; scheduler: three configurations of two or three scopes; 3 tenants with room for 3 counters, the shared bucket among them; 72 cron expressions (malformed ones among them) in a six-month calendar; 3 certificate generations, 2 reloaders (2.7 million states) | mutual exclusion of valid leases, failures classified on evidence, renewals that are real; nobody waits longer than its interval, leaders rotate, failures are counted and logged, sweeps keep their distance though their memory is pruned; the cron search finds the first due minute; no certificate is served with another one's key or chain |
| `requests` | 3 requests, 2 of them alike, 3 configurations and records of older versions; a heartbeat of lease 6; 3 headers, 2 cookies; a limit of 2 in a window of 2, with a foreign writer; 2 paced callers, 2 buckets, 1 change of rate; 5 rows, pages of 1 and 2, 1 change; breakers for a tenant and the process; Redis, Postgres and MongoDB clients with 2 goroutines; 2 migrating instances (1.2 million states) | at most one caller is told that all is well and answers come from one's own record; one failed beat is survived when the timeout leaves room for it; a replay is the receipt; limits and paces hold (`LimitsHold`); page walks meet every row that stays once, and turning back retraces them; breakers open on their own evidence and late results do not count; clients leave no connection behind and migrations reported done are applied, without a gap (`ClientsSound`) |
| `stops` | 4 servers, budget 2, 2 hooks; 2 services, queues of 1; 2 runs and 2 shutdowns of the dispatcher; 3 goroutines in six groups (142 thousand states) | order, budgets and end of shutdowns; a recovered service is found; Stop leaves nothing behind; one loop, silence after Shutdown; the first error is the one returned |
| `lifecycle_lost_stop` | 1 run, 1 shutdown | *violation*, see section 6 |
| `messaging` | 2 consumers and 2 messages, or 1 consumer with a pruner and a message under a wrong key, room for a second copy, 1 failure, 1 stop; five pairs of calls on a connection with 3 dials; 2 publishes over 3 channels; three events with 2 or 3 endpoints (412 thousand states) | dead letters: each in one place and doubled only by a push sent again, nothing vanishes unaccounted, retries bounded, tenants kept apart; no connection without an owner, no publish takes another's confirm; webhook results tell what happened and stale events are refused; all of it ends |
| `tenants` | each manager with 2 callers and Close, and with 2 tenants and room for one pool; with and without the gate; a changing configuration under defaults of 0 and 1; eight scenarios of requests and events for one tenant; 2 clients with five pairs of calls, 3 troubles (564 thousand states) | no pool leaks and only cached pools are handed out; settings within the cap unless nobody set a limit, swaps for cause; one consumer unless StopConsumer is called, nothing stale in the dispatcher's caches after an invalidation that no load overlaps; the client's breaker opens on failures of the service alone, and who is told that a write took effect is told the truth; calls and Close end, lost answers are made up for |
| `tenants_afterclose`, `tenants_two_consumers` | 1 tenant, 2 callers | *violations*, see section 6 |
| `stores` | MongoDB: 2 documents, 2 dispatchers, one of them with priority types, four scenarios; 2 callers of four repositories in six contexts; topology of 2 tenants with 3 callers; 2 dispatchers over caches of lifetime 2; 3 writers of an object in five plans with 2 faults, listed in at most 2 pages of 1 entry; 3 transactions over 5 accounts (811 thousand states) | documents have one owner and keep within their attempts; evictions hold against refreshes, cached knowledge is no older than its lifetime, no call reaches another tenant's database; writers of an immutable object agree on its one version; plans balance and holds are those of the transactions held; documents settle and enumerations end |

Where several invariants say together what one mechanism promises, the run checks
their conjunction, and each part keeps its own definition and comment in its
module.

### Why these bounds are enough to be interesting

Two dispatchers and two events suffice for every takeover: one holder, one
reclaimer, and a second row in the same batch that ages while the first is
published; two attempts give a first, a retried and an exhausted state. One
infrastructure failure may fall on any call of any dispatcher; a second one only
repeats what `Abort` already allows. Three requests are needed in the
idempotency model: two that compete and one whose fingerprint differs. The lock
needs a clock that passes one whole lease and one more tick, so that a lease ends
under its holder, is taken by the other and the first one's late answer arrives.
The breaker needs an instance, its replacement, and two calls that straddle
both; the Tenant Manager client needs two failures to open, a third to fail the
trial call. A pool that is replaced, evicted and made again needs three numbers;
a lock that is deleted under a waiter needs a holder, a waiter and a newcomer,
which are two requests and the event that stops the loop. A refresh that is
overtaken by an eviction needs one more enumeration that may bring the tenant
back. A recovery after an ambiguous put needs the put in flight, another writer's
and a page of versions in between. Pages of one and two over five rows with ties
have a first, a middle and a last page, an exactly full one and a short one. The
small calendar has a leap day, weeks that cut across months and a field of every
kind. One dropped message in queues of one is as good as many. Where a bound cuts
behaviour off (`MaxTime`, `MaxFaults`, `maxGen`, `MaxCount`, `MaxTroubles`, …) it
sits in a guard and is named in the module that has it.

Symmetry is used only in `clocks` and `requests`, over the lock's callers and over
requests that no configuration tells apart.

### Fairness

* `Outbox`, `OutboxMongo`: each dispatcher keeps taking steps (the loop ticks for
  ever) and rows get older. Nothing is assumed of producers or failures. Replays
  are switched off where liveness is checked: an endless stream of re-created
  rows may be selected for ever before the others, since a claim's order among
  rows of equal age is not fixed.
* `OutboxTopology`, `TenantPools`, `TenantLifecycle`: a goroutine that can go on
  does; calls to databases and to the Tenant Manager return.
* `DispatcherLifecycle`, `Groups`: goroutines that can run do run, cycles end, a
  `WaitGroup` waiter is released when the count is zero again and again.
* `HealthChecker`: the loop is scheduled, checks return within their timeout,
  and a `select` with two ready channels picks each sometime. Nothing is assumed
  of news, breaker time-outs or requests.
* `ServerShutdown`: goroutines are scheduled, timers fire, hooks return.
  Requests need not return and launches need not reach their sockets.
* `DeadLetterQueue`: running consumers tick, retry functions return, time
  passes. Nobody must start a consumer, and the property asks nothing while none
  runs.
* `ConfirmablePublisher`: publishers, monitors and Reconnect go on; the broker
  need not confirm, since the publisher's timer ends the wait.
* `WebhookDelivery`: endpoints' goroutines and their timers go on; receivers
  need not answer.
* `TenantClient`: callers repeat their calls, the breaker's timeout passes, the
  Tenant Manager answers once the bounded trouble is over.

## 4. What is proved

Each theorem holds for every value of the constants that satisfies the named
assumptions of its modules: any number of rows, documents, dispatchers, requests,
callers, tenants, messages, consumers, publishes, channels, endpoints, runs,
shutdowns and tasks, all limits and intervals, every calendar and every cron
expression.
The bounds that keep TLC's instances finite (`MaxFaults`, `MaxTime`, `maxDials`,
…) are constants too, so a theorem speaks of any number of failures.

| Module | Theorem | Property |
| --- | --- | --- |
| `OutboxProofs` | `TypeCorrect`, `AttemptsBudgetHolds`, `SingleOwnerHolds`, `ReportsAreTrueHolds`, `BatchBoundedHolds`, `Refinement` | the outbox on Postgres |
| `StoresProofs` | `MongoSoundHolds`, `RoutingSoundHolds` (of `TopologySoundHolds`, `SkipIsBoundedHolds`, `TenantsStayApartHolds`), `ObjectStorageSoundHolds` | the outbox on MongoDB, tenant routing, immutable objects |
| `RequestsProofs` | `TypeCorrect`, `AtMostOnceHolds`, `AnsweredFromOwnRecordHolds`, `OneFailedBeatIsSurvivedHolds`, `ReplayIsTheReceiptHolds`, `BreakerSoundHolds` | idempotency, its heartbeat, the headers of a replay, circuit breaker |
| `RequestsProofs` | `LimitsAlwaysHold` (of `RateLimitSoundHolds`, `PermitsAreSpacedHolds`) | rate limiting and pacing |
| `RequestsProofs` | `PagingSoundHolds` | cursors and pages |
| `RequestsProofs` | `ClientsAlwaysSound` (of `RedisClientSoundHolds`, `DatabaseSoundHolds`, `MigrationsSoundHolds`) | Redis, Postgres and MongoDB clients, migrations |
| `ClocksProofs` | `TypeCorrect`, `LeaseBackedHolds`, `MutualExclusionHolds`, `RenewalIsRealHolds`, `OutcomeMatchesEvidenceHolds` | the lock |
| `ClocksProofs` | `NobodyIsForgottenHolds` (of `CyclesServeAll`, `CountersSoundHolds`), `SweepsAreRememberedHolds` | the dispatcher's cycle over tenants, its failure counters and its retention sweeps |
| `ClocksProofs` | `NextIsTheFirstDueHolds`; `CertificateSoundHolds` | the cron search; certificate rotation |
| `TenantPoolsProofs` | `TypeCorrect`, `NoPoolLeaksHolds`, `HandedOutIsCachedHolds`, `SettingsSoundHolds`, `LifecycleSoundHolds` (of `ConsumerSoundHolds`, `ClientSoundHolds`) | connection managers, settings of a pool, tenant consumer and caches, Tenant Manager client |
| `MessagingProofs` | `ConnectionSoundHolds`, `PublisherSoundHolds`, `BrokerSoundHolds`, `DeadLettersSoundHolds`, `WebhookSoundHolds` | RabbitMQ, dead letters, webhooks |
| `StopsProofs` | `OrderlyStopsHolds` (of `OrderlyShutdownHolds`, `CheckerTypeCorrect`, `OrderlyRunsHolds`, `GroupsSoundHolds`), `StopIsFinalHolds` | server shutdown, health checker, dispatcher lifecycle, groups |

Each proof has the same shape: the initial states satisfy the invariant, one lemma
shows that types are kept, one per action or kind of step that the other parts
are, and the theorem combines them with the temporal rule. TLC checked the
properties first on the instances above. What the invariants add to the
properties, and why:

**Outbox.** What each dispatcher's local state means: locked rows are disjoint
between dispatchers and still in the status they were selected in (`LocksOK`), the
current event comes from the batch of a publishing dispatcher (`CurOK`), and the
attempts of a claimed copy never exceed the row's column (`SnapOK`). Without the
last, the claim that OnInvalid is truthful is not inductive: the callback looks at
the copy, the row at the column. `BatchBounded` counts what is locked as well as
what is collected, since a limit is computed before the claim that fills it
commits. `Refinement` shows that the table implements `OutboxLifecycle`.

**OutboxMongo.** Without a transaction a document may be claimed by a bulk whose
dispatcher has not read it back. Unless a stuck reclaim took it over, whoever holds
a document holds it alone, and a token on it is of the one claim under way
(`OwnedOnce`). That it is handed out at most `MaxAttempts` times needs a sum: the
handings so far, those the dispatchers have read back, the one under way and those
its attempts still leave are never more (`HandedOK`). `Shape` says what each state
of a dispatcher allows it to have.

**OutboxTopology.** Ids and epochs are drawn together, so a later id has no earlier
epoch (`Drawn`); what is not superseded was drawn after the evictions and
invalidations that have finished (`InTime`). Whoever holds the refresh
lock loads into a copy of its own, marked with the epoch it drew (`RefreshOK`),
and installs it only if nothing superseded it, so cached scopes are never older
than their tenant's last eviction (`CachedOK`).

**TenantDiscovery.** What the cache, a reader and a query under way know is as old
as the clock and the query's timeout allow at each of their steps (`CacheOK`,
`LookOK`, `FlightOK`).

**MongoDatabases.** A context leads to its own tenant's database, to none, or, for
lack of a tenant or of a way to find one, to the repository's own (lemma
`Resolution`). A client past that works for its context's tenant, and the one
that creates indexes holds the lock and found none (`ClientOK`).

**ObjectStorage.** Versions are numbered by the puts and none goes away, so a page
is a stretch of one sequence, wherever the listing stands and whatever is put
meanwhile (`BucketOK`, lemma `PageIs`). A listing has seen the newest version and,
behind it, only markers; if only markers follow to the end, that version was the
sole one when the listing began (`Listing`). The proof corrected the property:
"ambiguous" is also said of a sole version with more markers behind it than
`MaxPages` pages show.

**Idempotency.** Which kinds of record can stand for whom (`Shape`), which answers
belong to which state (`Control`), that an assured answer leaves a final record of
its own (`Assurance`), and, for configurations whose lease holds, that a running
handler's own processing record is under the key (`Exclusive`). A write still on
its way says what its sender wanted (`Underway`), so one that arrives late finds
the record it expects only where it changes nothing anybody was assured of. Of
requests answered 4xx under the releasing policy nothing is claimed but that they
were told so: the middleware cannot know whether their handler had an effect.

**Idempotency's heartbeat.** The beat after n failures begins within n + 1 gaps of
the last renewal, a gap being the longer of a tick and a timeout (`InTime`,
`Regular`). The code does not compare the timeout, 500 ms by default, with the tick,
which is at most a third of the lease and may be 50 ms. So the property states the cases: with a
timeout of at most a third of the lease it takes two failed beats in a row to lose
it, with one of at most half it takes one, and a shorter lease may lapse under a
beat that hangs. `HeartbeatAssumption` asks only for what the code enforces, a lease
of at least three of the shortest ticks.

**ReplayHeaders.** The receipt is the difference between the response as it was sent
and what the handler found (`ReceiptKept`); half way through a replay every header
is the receipt's or still the duplicate's own, by whether its name is ahead
(`HalfApplied`).

**RateLimit.** Of the requests let through, two that are `Limit` places apart were
let through by counters whose lives do not overlap, and the counter that stands
has counted the last ones (`Lives`, `Earlier`); from that no span of a window
holds more than twice the limit. A promised Retry-After is the end of the counter
that stands (`PromiseKept`).

**Pacing.** The script judges by the Redis clock, permits are spaced in real time.
What ties them is how far the clock is behind (`ClockBehind`): no grant is later
than the high-water mark, whose key outlives the grants but for the tolerance
(`MarkAboveGrants`, `MarkLives`), and no permit is later than its grant read in
real time (`PermitsAfterGrants`). A call leaves after its own permit, so never
within its interval of the permit before; that two calls leave an interval apart
is not claimed and not true. `PacingAssumption` asks that all failovers together set
the clock back by less than a key lives; for larger steps nothing is claimed.

**Paging.** A page is a stretch of the table it was read from, its cursors name its
ends, and one that a next cursor leads on from is full or has nothing before it
(`PageOK`); the walk's cursor parts the rows that were returned from those to come
(`WalkOK`); the page that was left is the last one before the page there is
(`BackOK`). That a step back shows this very page again needs that a set can be
sorted in one way only (lemmas `OneSorting`, `OneLastPage`), which is proved by
counting: a row's place is the number of rows that do not come after it. The query
is external and given by what it returns, the first rows on the cursor's side in
the order of the rules.

**RedisClient.** The open client is the current one (`OneClient`), and every refresh
loop but the latest was cancelled (`OneLoop`), so a token that comes late is not
applied.

**DatabaseClients.** Every open pool is in use, in the hands of the goroutine that
builds it under the lock, or of the one that closes it (`Accounted`), and one being
built is younger than all others (`Ages`). For reads and indexes: what a goroutine
has seen of its rows decides the error it may report (`Knows`). A read that the
server cut short under a live context is not among the errors when its function
does not ask for one; the property speaks of reads whose context ended.

**Migrations.** The schema row says exactly which migrations ran to their end, the
dirty one excluded (`RowIsTrue`); an answer of golang-migrate is about the source
the caller has (`AnswersAreTrue`).

**CircuitBreaker.** The failures an instance counted and the calls of its generation
still in flight are together at most those it admitted (`InstanceOK`), a caller
inside knows its instance and a generation no newer than the instance's
(`CallerOK`), and a slot's instance was made for its own pair, whose failures are
the evidence it opened on (`SlotOK`). The assumption `Configured` is what
`Config.Validate` accepts.

**RedisLock.** What the key held when a call was applied is remembered with its
answer (`AnswerBacked`), no lease outlives the expiry it was computed from
(`LeaseBacked`), times read lie in the past (`Clocked`). Two valid leases would both
be backed by one key. A delete on its way is of an attempt given up, or of an Unlock
that missed its answer (`DeletesKnown`): only after such an Unlock can a renewal be
overtaken (`Overtaken`). For the outcomes the invariant ties what a caller has seen
to the error it will report.

**OutboxScheduler.** Activity tells when a scope was last dispatched and how long it
was to wait, although it is reset and deleted meanwhile (`ActivityInv`), and a
listed scope is in the queue of the running cycle or was served (`ServedInv`).
That leaders rotate needs the place in the listing of whoever led each remembered
cycle (`RotationInv`), and arithmetic of remainders that the provers were given as
lemmas. For the sweeps: what the memory has forgotten was an interval old when it
was last pruned (`SweepMemory`), and no sweep is later than the clock, or than the
earlier reading of it that the dispatch under way will sweep with (`SweepInv`). For
the counters: the shared bucket is never lost, and a tenant none of whose failures
went to it has a counter of its own equal to its streak (`CountersInv`).

**Cron.** The parsed sets contain what the text of each field says (`ScheduleSays`).
The lemmas on the calendar say that all minutes up to the next hour, day or month
share the unit the search found wanting, so a jump passes over no due minute; and
every iteration moves on by a minute at least (`CronInv`), so a search that gives
up has looked at `MaxIterations` of them.

**TenantPools.** Every open pool is cached, about to be closed, or in the hands of
the call or revalidation that will store, swap or close it (`AllOwned`); `HandsOK`
says at which of their steps they have one.

**TenantSettings.** The pool a revalidation has read and writes back later has the
form of the one that is cached, its limit included (`SettingsInv`), so a write
back after the cache was left cannot exceed the cap. Who gave a pool its limit is
remembered with it: with a default below 1 and no wish of the tenant the limit is
none or the package's, whatever the cap (`Allowed`). That a reconnection has a
cause is a fact about the two spellings of "no replica" (lemma `ServesAlike`).

**TenantClient.** The breaker has counted no more failures than there were since a
call was last served, and unless it is closed it has counted the threshold
(`BreakerOK`); that every kind of call reads the statuses in a way that keeps this
is lemma `ReadingSteps`. What a caller will report as an effect, or has reported,
was one (`ClientTruth`), because a success or a conflict of the Tenant Manager is
of what then holds (`RepliesAreTrue`).

**TenantLifecycle.** Unless StopConsumer is called, by an injected dispatcher or by
the application, nobody deletes the tenant's lock, so who waits for it waits for the
one there is, and who is inside it found no consumer (`LockedOut`); with
StopConsumer this fails, as the run `tenants_two_consumers` shows. For the
dispatcher's caches: a load under way holds the load lock of its side and what it
has fetched is not stale (`LoadOK`), and while an invalidation is clean no load runs
on that side and its tier 1 has nothing that was loaded (`CleanOK`). Of the caches
of the consumer's loader beside an injected dispatcher nothing is claimed: no event
invalidates them.

**RabbitMQConnection.** A live connection is the published one, in the keeping of a
goroutine between its dial and its commit, or one of those a failed ConnectContext
left behind (`Kept`); a goroutine that is about to commit has a channel of the
connection it commits, and one that redials saw a connection that is dead for good
(`CLocal`).

**ConfirmablePublisher.** Confirms carry no name, so that a publish takes its own
is a fact about the whole channel: while a publish waits, its message is at the
broker or its answer is the only one on the way; when none does, an open and
trusted channel is silent (`WireOK`). A fresh channel belongs to one recovery
(`FreshOK`); with automatic recovery alone one monitor is at work at a time and
every open channel is in its keeping or published (`AloneOK`, `ClosedOK`).

**DeadLetterQueue.** Every step does one of eight things with a message (lemma
`Steps`): a message enters, gets a second copy, is taken into a hand, is discarded
on the way, is served, returned or lost, or all stay where they are. Each keeps that
a message is once in one list or in one hand (`PlaceOK`), that a hand took it from
the list of its own tenant unless it was moved there by the operator (`TenantOK`),
and that its calls are at most its count as long as it can still be retried
(`RetryOK`), and that there are second copies only after a failed call (`OriginOK`):
a message that was served with success is out of reach, so its last call need not be
counted.

**WebhookDelivery.** What is on the wire or was answered went to an endpoint that is
active and not blocked (`HWire`); what a goroutine's step says of its endpoint's
result, attempts and metrics is local to the endpoint (`HookLocal`); who is not
started yet and how many run is the caller's (`HCall`). A strict receiver's check
ties the timestamp it is shown to the one that was signed, so that the age it
computes is the real one.

**ServerShutdown.** A stage begins when the drains before it are over
(`StagesInOrder`). What a drain achieves depends on its kind (`DrainAchieves`): a
net/http or grpc server that was told to stop will not serve, even if its launch
has not reached the socket; a fiber app is awaited and has stopped listening
unless its budget is used up. Neither has a handler running unless its budget was:
a forced close does not wait for handlers, so telemetry may be torn down under
those. Time passes only while a drain
of the stage waits within its budget, which bounds the stage.

**HealthChecker.** Stop has waited for the loop unless Start came after it
(`StopWaits`), so a step that resets a breaker cannot follow its return.

**DispatcherLifecycle.** A run owns the loop only while the dispatcher counts as
running (`Owned`), what Stop read is cancelled before it closes the channel
(`Silenced`), and someone is inside `stopOnce.Do` exactly while it is busy, with
nobody registering meanwhile unless the calls overlap (`Inside`).

**Groups.** One task at most is inside `errOnce`, and until one has been through it
a failure is on its way to it (`GOnce`); one that waits for the context fails too
late to get in (`GHeeds`); a launcher starts all that was added or nothing
(`GLauncher`).

**Certificate.** What a reloader has read and accepted is one generation's pair
whose lifetime has begun, and stays so until it is installed.

Assumptions beyond numbers being positive: `FiniteTable`, `MongoAssumption` and
`QueueAssumption` (finite sets of rows, documents, dispatchers and tenants),
`PoolsAssumption` (a manager has tenants), `PublisherAssumption`,
`WebhookAssumption` (what the options of a deliverer can be), `LockAssumption` (the
drift is smaller than the lease), `ServersAssumption` (which servers can be
configured), `CheckerAssumption`, `LifecycleAssumption`, `GroupsAssumption`,
`DatabasesAssumption`, `DiscoveryAssumption` and `TopologyAssumption` (the value for
no service, run, task or tenant is none), `ObjectsAssumption` (a retention is at
least the second S3 counts in, a page has an entry), `SettingsAssumption` and
`ClientsAssumption` (a cap of at least one, a threshold, what can be asked for; the
defaults are any integers), `ConsumersAssumption` (the value for nobody is none),
`HeadersAssumption` (Set-Cookie is handled apart from the other names),
`PagingAssumption` (a finite table at the start, a default limit within the
maximum), `DatabaseAssumption`, `MigrationsAssumption` and `CountersAssumption`
(which set-ups and deployments there can be, a source without gaps; the value for
nobody is none, the shared bucket is no tenant), `SchedulerAssumption` (the cold
interval is at least the ordinary one), `CronAssumption` (months follow each other
without a gap and none is longer than its field), `RateAssumption`,
`RedisAssumption`, `PacingAssumption`, `HeartbeatAssumption` and `ConfigAssumption`
(above). TLC evaluates each in the run that extends its module.

Only model-checked, because out of this prover's reach: liveness (`EventsSettle`,
`StopsEnd`, `HealsEventually`, `MessagingSettles`, `TenantCallsEnd`, `StoresSettle`),
which needs fairness and `ENABLED`; and `LedgerSound`, which is about sums over the
entries of a plan and about a fold of postings over balances, so that it takes an
induction over data. Every other property of a passing run is a theorem.

## 5. Hazards

PROJECT.json lists, each at its line, the places in this code that are hard to
test, with the properties that would catch them going wrong. Every one of them
has a property now.

## 6. Where the code and its words part

Four runs are expected to fail:

* `outbox_callback`: `handlePublishError` chooses between OnFailed and OnInvalid
  from the attempts of the claimed copy, MarkFailed decides from the column. After
  another dispatcher reclaimed the row, the late MarkFailed makes it INVALID and
  OnFailed fires, although `outbox/config.go:76` says that OnFailed means the event
  "remains retryable".
* `lifecycle_lost_stop`: a Stop or Shutdown after RunContext was called and before
  it registered is forgotten, because `registerRun` replaces a closed stop channel:
  Shutdown returns nil and the loop runs for ever (`outbox/dispatcher.go:205`:
  "until Stop is called").
* `tenants_afterclose`: a revalidation asks under the lock whether the manager is
  open, gives the lock up and swaps its new pool in under it later; after a Close in
  between the pool stays open in a closed manager, against "Close closes all
  connections" (`tenant-manager/postgres/manager.go:1124`).
* `tenants_two_consumers`: StopConsumer, here called by an injected dispatcher,
  deletes the tenant's mutex after unlocking it, so a request that waits for it and
  one that makes a new one both start a consumer; the comment at
  `tenant-manager/consumer/multi_tenant_consume.go:402` promises one.

Noted while modelling, and reflected in how properties are stated rather than in
runs of their own.

*Requests.* Of two failed heartbeats in a row the next begins when the lease ends
and lands after it (`net/http/idempotency/heartbeat.go:241`); the property claims
one, and none for a timeout above half the lease. A 4xx releases the key although
the handler may have had its effect (`net/http/idempotency/idempotency.go:1960`). A
paced call may leave beside the next one, if its goroutine is held up after its
permit (`net/http/pacing/round_tripper.go:63`). A cookie the handler deletes stays
live on a duplicate (documented). A tier and an identity joined by ":" can collide
in the rate limiter's key. A forward jump of the Redis clock shortens a paced gap;
the comment on a clock that steps back speaks of a re-issued budget, but waits only
get longer. An empty page that is not the first makes CalculateCursor return
ErrInvalidCursor; an unspecified direction is ascending in CursorDirectionRules and
descending in SortCursorDirection.

*Outbox.* Past the cap all untracked tenants share one failure counter, which any
of their successes resets, so a tenant may fail for ever without the log
`outbox/config.go:46` promises. On MongoDB a failed read-back leaves documents
PROCESSING and drops the earlier batches of the call; one document that cannot be
decoded fails its batch each time; a rollback writes PROCESSING back to PENDING,
which CanTransitionTo does not have; a repository that requires a tenant but has
a resolver and no module sends a call without tenant to the default database; the
index cache grows with every evicted client. A topology refresh that draws its
id after an eviction and loads before its delete restores the tenant
(`outbox/postgres/module_pool_resolver.go:380`).

*Clients.* redsync's "failed" answers count as contention (`redis/lock.go:757`). The
delete of an Unlock that timed out may land amid a later Extend, which then
reports a renewal of a key that is gone (`redis/lock.go:225`). A read cut short by
the statement cap is reported as a success when its function ignores `rows.Err`
(`postgres/readonly.go:148`). A
failed Connect marks the Redis client unconnected while the old client works; a
cancelled refresh loop can set the error of its successor; a panic leaves
refreshLoopRunning set. AllowMissingMigrations also swallows a schema that is
ahead of the files. RunReadOnly between resolver and pool read meets Close as
ErrNilClient. A failed RabbitMQ connect clears a connection that another
goroutine has published meanwhile; a publisher is healthy after Close.

*Breakers and messages.* A Reset replaces the breaker without telling listeners
(`circuitbreaker/manager.go:402`, against `types.go:167`). A dead-letter consumer
whose context is cancelled loses the message in its hand: the push that should
return it uses the cancelled context. A push that the client sends again doubles a
dead letter, a read sent again drops one without a word (`redis/redis.go:959`).
Handlers may still run when telemetry is torn down, after a forced close
(`server/shutdown.go:1015`, `:1208`). A webhook success may carry the error of an
earlier attempt, and a panicking decryptor leaves a result that is neither.

*Tenants.* A swap keeps the settings last applied, so a pool made with other
limits is not corrected when the configuration returns to them
(`tenant-manager/postgres/manager.go:1380`). Close between the double check and
the start lets a loop start afterwards. removeTenant deletes tier 1 before tier
2, so a load in between brings the old configuration back: the property speaks of
invalidations that no load overlaps. With an injected dispatcher the consumer's
loader keeps its own cache and client, which removeTenant does not invalidate
(`tenant-manager/event/dispatcher_helpers.go:108`). A default limit of 0 in the
options means no limit at all to an existing pool and the package's 25 to a new
one, possibly above the cap. In the client, statuses are read differently by call:
an unauthorised answer resets the breaker for metadata and writes and says
nothing for configurations and principals, and an answer that does not parse says
nothing for any of them, except the transitions, which read no body.

*Values.* The documented order of TransactionStatus contradicts the code; the
APPROVED plan of a pending transaction credits destinations again; two sources on
one balance are each checked against all of it; an approval without a hold can
consume another's. The cron search's bound of four years counts iterations. Recovery
lists 32 pages of two entries: a sole version with more delete markers behind it
is called ambiguous (`tenant-manager/s3/retained_storage.go:324`). A
certificate and a signer read in two calls may be of two generations, and of two
reloaders the older may install last.

## 7. Plan

All components with state or order of their own are modelled, and every safety
property but `LedgerSound` is proved. What could be added:

1. `OutboxMongo` shown to implement `OutboxLifecycle` as `Outbox` does, with the
   rollback as the step back to PENDING that the status machine lacks.
2. The ledger restated so that postings are applied in steps and totals are history
   variables, if its induction over data can be turned into one over steps.

The modules are written for it: parameters are constants, an operation is an
action, no operator is recursive.
