-------------------------- MODULE OutboxScheduler --------------------------
(***************************************************************************)
(* The outbox dispatcher's cycle over tenants: which scopes a cycle        *)
(* visits and in which order, which of them it polls (hot and cold         *)
(* scopes), and when it runs the retention sweep of a scope.  Times are    *)
(* readings of one clock; 0 is Go's zero time, and the clock starts at 1.  *)
(* What happens to the rows of one scope is module Outbox.  The counters   *)
(* of failed listings follow: they share nothing with the cycle.           *)
(***************************************************************************)
EXTENDS Integers, FiniteSets, Sequences, SequencesExt

CONSTANTS
    Blank,     \* a listed scope whose tenant id is blank once trimmed
    NoScope,   \* no fallback scope: the repository requires a tenant
    Configs    \* configurations and environments of a dispatcher:
               \*   tenants    tenant dispatch scopes
               \*   fallback   scope used when no tenant is listed, or NoScope
               \*   listings   what ListTenants may return: sequences of scopes
               \*   dispatch, cold, sweep   the three intervals
               \*   maxTime    bound: last clock reading explored

(* Intervals are positive and the cold one is the longer (normalize);      *)
(* listings name tenants or blanks.                                        *)
ASSUME SchedulerAssumption ==
    \A k \in Configs :
      /\ k.dispatch \in Nat \ {0} /\ k.sweep \in Nat \ {0} /\ k.maxTime \in Nat \ {0}
      /\ k.cold \in Nat /\ k.cold >= k.dispatch
      /\ k.listings \subseteq Seq(k.tenants \cup {Blank}) /\ {Blank, NoScope} \cap k.tenants = {}

VARIABLES
    cfg,               \* the dispatcher's configuration, fixed by NewDispatcher
    time,
    cancelled,         \* the run's context is cancelled
    dpc,               \* where the dispatcher goroutine is
    queue,             \* scopes the running cycle has still to visit
    now,               \* the time read for the visited scope
    scopeActivity,     \* scope -> [lastWorkAt, nextPollAt]
    retentionSweptAt,  \* scope -> time of its last sweep, pruned by age
    retentionPrunedAt,
    retentionListedAt,
    tenantTurn,
    listed,            \* history: the running cycle's normalised listing
    considered,        \* history: scope -> time this cycle looked at it
    ran, worked,       \* history: last dispatch of a scope, and last with work
    swept,             \* history: last sweep of each scope, never pruned
    firsts             \* history: who led each cycle since the listing changed

scheduling == <<scopeActivity, tenantTurn>>
retention == <<retentionSweptAt, retentionPrunedAt, retentionListedAt, swept>>
history == <<listed, considered, ran, worked, firsts>>
moving == <<time, cancelled, dpc, queue, now, scheduling, retention, history>>
schedulerVars == <<cfg, moving>>

Scopes == cfg.tenants
FallbackScope == cfg.fallback
DispatchInterval == cfg.dispatch
ColdDispatchInterval == cfg.cold
RetentionSweepInterval == cfg.sweep
LastTick == cfg.maxTime

Times == 0 .. LastTick
Swept == Scopes \cup {FallbackScope}

SchedulerTypeOK ==
    /\ cfg \in Configs
    /\ time \in 1 .. LastTick /\ cancelled \in BOOLEAN
    /\ dpc \in {"idle", "visit", "dispatch", "fallback", "list"}
    /\ ToSet(queue) \subseteq Scopes /\ now \in Times
    /\ DOMAIN scopeActivity \subseteq Scopes
    /\ \A s \in DOMAIN scopeActivity :
         scopeActivity[s] \in [lastWorkAt : Times, nextPollAt : 0 .. LastTick + ColdDispatchInterval]
    /\ DOMAIN retentionSweptAt \subseteq Swept
    /\ \A s \in DOMAIN retentionSweptAt : retentionSweptAt[s] \in Times
    /\ {retentionPrunedAt, retentionListedAt} \subseteq Times
    /\ tenantTurn \in Nat
    /\ ToSet(listed) \subseteq Scopes /\ DOMAIN considered \subseteq Scopes
    /\ ran \in [Scopes -> Times] /\ worked \in [Scopes -> Times]
    /\ swept \in [Swept -> Times]
    /\ ToSet(firsts) \subseteq Scopes

Restricted(f, S) == [s \in DOMAIN f \cap S |-> f[s]]
Updated(f, s, v) == [t \in DOMAIN f \cup {s} |-> IF t = s THEN v ELSE f[t]]

-----------------------------------------------------------------------------
(* normalizeTenantDispatchScopes: blank tenants are dropped and exact      *)
(* duplicates are kept once, at their first place.  One sequence fits.     *)
normalizeTenantDispatchScopes(scopes) ==
    {kept \in UNION {[1 .. n -> ToSet(scopes)] : n \in 0 .. Len(scopes)} :
       /\ ToSet(kept) = ToSet(scopes) \ {Blank}
       /\ \A i, j \in DOMAIN kept : i < j =>
            \E m \in DOMAIN scopes : scopes[m] = kept[i] /\ \A k \in 1 .. m : scopes[k] # kept[j]}

(* tenantDispatchScopeOrder: the listing rotated by tenantTurn.            *)
tenantDispatchScopeOrder(scopes) ==
    IF Len(scopes) <= 1 THEN scopes
    ELSE LET start == tenantTurn % Len(scopes)
         IN  SubSeq(scopes, start + 1, Len(scopes)) \o SubSeq(scopes, 1, start)

nextTurn(scopes) ==
    IF Len(scopes) <= 1 THEN tenantTurn ELSE (tenantTurn + 1) % Len(scopes)

(* shouldDispatchScope: a scope never polled, or whose time has come.      *)
shouldDispatchScope(s, t) ==
    s \notin DOMAIN scopeActivity \/ t >= scopeActivity[s].nextPollAt

(* recordScopeActivity(scope, result, now) with result.Processed > 0 or    *)
(* not: a scope is hot for ColdDispatchInterval after its last work.       *)
recordScopeActivity(s, work, t) ==
    LET old  == IF s \in DOMAIN scopeActivity THEN scopeActivity[s].lastWorkAt ELSE 0
        last == IF work THEN t ELSE old
        hot  == last # 0 /\ t - last < ColdDispatchInterval
    IN  Updated(scopeActivity, s,
                [lastWorkAt |-> last,
                 nextPollAt |-> t + (IF hot THEN DispatchInterval ELSE ColdDispatchInterval)])

(* Mutant: activity of scopes that are no longer listed is kept.           *)
reconcileScopeActivityKeeps(scopes) == scopeActivity

reconcileScopeActivity(scopes) == Restricted(scopeActivity, ToSet(scopes))

resetScopePollSchedule ==
    [s \in DOMAIN scopeActivity |-> [scopeActivity[s] EXCEPT !.nextPollAt = 0]]

-----------------------------------------------------------------------------
(* The retention sweep.                                                    *)
SweepDue(S, t) ==
    {s \in S : s \in DOMAIN retentionSweptAt => t - retentionSweptAt[s] >= RetentionSweepInterval}

PruneDue(t) == retentionPrunedAt = 0 \/ t - retentionPrunedAt >= RetentionSweepInterval

Aged(t) ==
    {s \in DOMAIN retentionSweptAt : t - retentionSweptAt[s] >= RetentionSweepInterval}

(* Mutant: sweep memory follows discovery instead of age.                  *)
claimRetentionSweepForgets(S, t) ==
    LET granted == SweepDue(S, t) IN
    /\ retentionSweptAt' = [s \in granted |-> t]
    /\ swept' = [s \in Swept |-> IF s \in granted THEN t ELSE swept[s]]
    /\ UNCHANGED retentionPrunedAt

(* claimRetentionSweep, called for each scope of S with the same time: the *)
(* scopes due are recorded and swept; the first granted claim prunes aged  *)
(* memory when an interval has passed since the last prune.                *)
claimRetentionSweep(S, t) ==
    LET granted == SweepDue(S, t)
        prune   == granted # {} /\ PruneDue(t)
        kept    == IF prune THEN DOMAIN retentionSweptAt \ Aged(t) ELSE DOMAIN retentionSweptAt
    IN  /\ retentionSweptAt' = [s \in kept \cup granted |->
                                  IF s \in granted THEN t ELSE retentionSweptAt[s]]
        /\ retentionPrunedAt' = IF prune THEN t ELSE retentionPrunedAt
        /\ swept' = [s \in Swept |-> IF s \in granted THEN t ELSE swept[s]]

(* sweepRetention: nothing when the context is cancelled.  A failed delete *)
(* is logged and the scope waits for the next interval all the same.       *)
sweepRetention(S, t) ==
    IF cancelled THEN UNCHANGED <<retentionSweptAt, retentionPrunedAt, swept>>
    ELSE claimRetentionSweep(S, t)

-----------------------------------------------------------------------------
SchedulerInit ==
    /\ cfg \in Configs
    /\ time = 1 /\ cancelled = FALSE /\ dpc = "idle" /\ queue = <<>> /\ now = 0
    /\ scopeActivity = <<>> /\ tenantTurn = 0
    /\ retentionSweptAt = <<>> /\ retentionPrunedAt = 0 /\ retentionListedAt = 0
    /\ listed = <<>> /\ considered = <<>> /\ firsts = <<>>
    /\ ran = [s \in Scopes |-> 0] /\ worked = [s \in Scopes |-> 0]
    /\ swept = [s \in Swept |-> 0]

SchedulerTick ==
    /\ time < LastTick
    /\ time' = time + 1
    /\ UNCHANGED <<cancelled, dpc, queue, now, scheduling, retention, history>>

Cancel ==
    /\ ~cancelled
    /\ cancelled' = TRUE
    /\ UNCHANGED <<time, dpc, queue, now, scheduling, retention, history>>

(* A new RunContext after the run before has ended.                        *)
Restart ==
    /\ cancelled /\ dpc = "idle"
    /\ cancelled' = FALSE
    /\ scopeActivity' = resetScopePollSchedule
    /\ ran' = [s \in Scopes |-> 0]
    /\ UNCHANGED <<time, dpc, queue, now, tenantTurn, retention, listed, considered, worked, firsts>>

(* dispatchAcrossTenants: list, normalise, reconcile, rotate.  A listing   *)
(* error ends the cycle (nothing changes); no tenant means the fallback.   *)
StartCycle(listing) ==
    /\ dpc = "idle" /\ ~cancelled
    /\ \E scopes \in normalizeTenantDispatchScopes(listing) :
         LET order == tenantDispatchScopeOrder(scopes) IN
         /\ scopeActivity' = reconcileScopeActivity(scopes)
         /\ queue' = order
         /\ tenantTurn' = nextTurn(scopes)
         /\ dpc' = IF order = <<>> THEN "fallback" ELSE "visit"
         /\ listed' = scopes /\ considered' = <<>>
         /\ ran' = [s \in Scopes |-> IF s \in ToSet(scopes) THEN ran[s] ELSE 0]
         /\ worked' = [s \in Scopes |-> IF s \in ToSet(scopes) THEN worked[s] ELSE 0]
         /\ firsts' = IF scopes = <<>> THEN <<>>
                      ELSE IF scopes # listed THEN <<Head(order)>>
                      ELSE IF Len(firsts) = Len(scopes) THEN Append(Tail(firsts), Head(order))
                      ELSE Append(firsts, Head(order))
    /\ UNCHANGED <<time, cancelled, now, retention>>

(* The loop over the scopes: stop when cancelled, skip a scope not due.    *)
Visit ==
    /\ dpc = "visit" /\ queue # <<>> /\ ~cancelled
    /\ now' = time
    /\ considered' = Updated(considered, Head(queue), time)
    /\ IF shouldDispatchScope(Head(queue), time)
         THEN dpc' = "dispatch" /\ UNCHANGED queue
         ELSE queue' = Tail(queue) /\ UNCHANGED dpc
    /\ UNCHANGED <<time, cancelled, scheduling, retention, listed, ran, worked, firsts>>

(* DispatchOnceResult has returned, with work or without, maybe much later *)
(* than now; the activity is recorded and the scope swept with that time.  *)
Dispatched(work) ==
    LET s == Head(queue) IN
    /\ dpc = "dispatch"
    /\ scopeActivity' = recordScopeActivity(s, work, now)
    /\ sweepRetention({s}, now)
    /\ ran' = [ran EXCEPT ![s] = now]
    /\ worked' = [worked EXCEPT ![s] = IF work THEN now ELSE @]
    /\ queue' = Tail(queue) /\ dpc' = "visit"
    /\ UNCHANGED <<time, cancelled, now, tenantTurn, retentionListedAt, listed, considered, firsts>>

LeaveLoop ==
    /\ dpc = "visit" /\ (queue = <<>> \/ cancelled)
    /\ dpc' = "list"
    /\ UNCHANGED <<time, cancelled, queue, now, scheduling, retention, history>>

(* dispatchWithoutDiscoveredTenant: dispatch the fallback scope, if there  *)
(* is one, and sweep it with the time read after the dispatch.             *)
dispatchWithoutDiscoveredTenant ==
    /\ dpc = "fallback"
    /\ IF FallbackScope = NoScope
         THEN UNCHANGED <<retentionSweptAt, retentionPrunedAt, swept>>
         ELSE sweepRetention({FallbackScope}, time)
    /\ dpc' = "list"
    /\ UNCHANGED <<time, cancelled, queue, now, scheduling, retentionListedAt, history>>

(* sweepListedTenants: once per interval, the tenants the repository lists *)
(* as having events to delete are swept; their own claims still apply.     *)
sweepListedTenants(S) ==
    LET due == retentionListedAt = 0 \/ time - retentionListedAt >= RetentionSweepInterval IN
    /\ dpc = "list"
    /\ IF cancelled \/ ~due
         THEN UNCHANGED <<retention, now>>
         ELSE /\ retentionListedAt' = time /\ now' = time
              /\ sweepRetention(S, time)
    /\ dpc' = "idle" /\ queue' = <<>>
    /\ UNCHANGED <<time, cancelled, scheduling, history>>

SchedulerNext ==
    /\ UNCHANGED cfg
    /\ \/ SchedulerTick \/ Cancel \/ Restart
       \/ \E listing \in cfg.listings : StartCycle(listing)
       \/ Visit
       \/ \E work \in BOOLEAN : Dispatched(work)
       \/ LeaveLoop
       \/ dispatchWithoutDiscoveredTenant
       \/ \E S \in SUBSET Scopes : sweepListedTenants(S)

SchedulerSpec == SchedulerInit /\ [][SchedulerNext]_schedulerVars

-----------------------------------------------------------------------------
(* When a cycle has gone through its scopes without being cancelled, every *)
(* listed scope was looked at, and was dispatched recently enough as of    *)
(* that look: within ColdDispatchInterval always, within DispatchInterval  *)
(* when work was found in it during the cold interval before.  The bound   *)
(* counts only dispatches since the scope was last (re)listed and since    *)
(* the last restart: both must lead to an immediate poll.                  *)
ServedInTime ==
    dpc = "list" /\ ~cancelled /\ queue = <<>> =>
      \A s \in ToSet(listed) :
        /\ s \in DOMAIN considered
        /\ ran[s] # 0
        /\ considered[s] - ran[s] < ColdDispatchInterval
        /\ worked[s] # 0 /\ ran[s] - worked[s] < ColdDispatchInterval
             => considered[s] - ran[s] < DispatchInterval

(* As long as the listing stays the same, the rotation gives every scope   *)
(* the first place once in as many cycles as there are scopes.             *)
RotationIsFair ==
    listed # <<>> /\ Len(firsts) = Len(listed) => ToSet(firsts) = ToSet(listed)

(* Two sweeps of the same scope are at least RetentionSweepInterval apart, *)
(* although the memory of past sweeps is pruned and the scope may be swept *)
(* from the dispatch loop, the fallback and the tenant listing.            *)
SweepsAreSpaced ==
    \A s \in Swept : swept'[s] # swept[s] /\ swept[s] # 0
                       => swept'[s] - swept[s] >= RetentionSweepInterval

(* "The map holds at most the scopes swept within two intervals": what a   *)
(* sweep leaves in the map is that recent.                                 *)
SweepMemoryIsRecent ==
    swept' # swept
      => \A s, u \in DOMAIN retentionSweptAt' :
           retentionSweptAt'[s] + 2 * RetentionSweepInterval > retentionSweptAt'[u]

(* The sweep memory is neither pruned too early, which would repeat a      *)
(* sweep within the interval, nor too late (claimRetentionSweep).          *)
SweepIsRemembered == SweepsAreSpaced /\ SweepMemoryIsRecent

-----------------------------------------------------------------------------
(* The dispatcher's in-memory counters of failed ListPending calls, one    *)
(* per tenant up to a cap and one shared bucket for the others, and the    *)
(* error log a counter at its threshold leads to.                          *)
CONSTANTS
    Tenants,
    Fallback,      \* the shared bucket, "_default"
    MaxTracked,    \* MaxTrackedListPendingFailureTenants
    Threshold,     \* ListPendingFailureThreshold
    MaxCount       \* bound: no counter goes higher in the instances explored

ASSUME CountersAssumption ==
    Fallback \notin Tenants /\ MaxTracked \in Nat \ {0} /\ Threshold \in Nat \ {0} /\ MaxCount \in Nat

VARIABLES
    listPendingFailureCounts,  \* bucket -> count
    streak,                    \* history: key -> failures in a row
    logged,                    \* history: tenants whose streak led to an error log
    folded                     \* history: tenants whose streak was counted, at
                               \* least in part, in the shared bucket

counterVars == <<listPendingFailureCounts, streak, logged, folded>>

Tracked == DOMAIN listPendingFailureCounts

(* tenantKeyFromContext: listings without a tenant count for the fallback. *)
Keys == Tenants \cup {Fallback}

(* NewDispatcher, ensureFailureCounterFallback.                            *)
CountersInit ==
    /\ listPendingFailureCounts = [k \in {Fallback} |-> 0]
    /\ streak = [t \in Keys |-> 0]
    /\ logged = {} /\ folded = {}

Count(k) == IF k \in Tracked THEN listPendingFailureCounts[k] ELSE 0

SetTo(k, n) ==
    listPendingFailureCounts' =
      [j \in Tracked \cup {k} |-> IF j = k THEN n ELSE listPendingFailureCounts[j]]

(* The bucket a failure under key t is counted in.                         *)
Bucket(t) ==
    IF MaxTracked <= 1 \/ (t \notin Tracked /\ Cardinality(Tracked) >= MaxTracked)
      THEN Fallback ELSE t

Logs(count) == count >= Threshold

(* handleListPendingError.                                                 *)
ListFails(t) ==
    LET k == Bucket(t) IN
    /\ Count(k) < MaxCount /\ streak[t] < MaxCount
    /\ SetTo(k, Count(k) + 1)
    /\ streak' = [streak EXCEPT ![t] = @ + 1]
    /\ logged' = IF Logs(Count(k) + 1) THEN logged \cup {t} ELSE logged
    /\ folded' = IF k = Fallback THEN folded \cup {t} ELSE folded

(* clearListPendingFailureCount, after a successful ListPending.           *)
ListSucceeds(t) ==
    /\ IF t \in Tracked \ {Fallback}
         THEN listPendingFailureCounts' = [k \in Tracked \ {t} |-> listPendingFailureCounts[k]]
         ELSE SetTo(Fallback, 0)
    /\ streak' = [streak EXCEPT ![t] = 0]
    /\ logged' = logged \ {t} /\ folded' = folded \ {t}

CountersNext == \E t \in Keys : ListFails(t) \/ ListSucceeds(t)

CountersSpec == CountersInit /\ [][CountersNext]_counterVars

-----------------------------------------------------------------------------
(* However many tenants fail, the counters stay within the cap, the shared *)
(* bucket, which is never lost, among them.                                *)
CountersBounded == Fallback \in Tracked /\ Cardinality(Tracked) <= MaxTracked

(* "Emits an error log once repeated list failures reach this count": a    *)
(* tenant whose last Threshold listings all failed has been logged, as     *)
(* long as none of these failures was folded into the shared bucket, which *)
(* the success of any other tenant without a counter resets.               *)
RepeatedFailuresLogged ==
    \A t \in Tenants \ folded : streak[t] >= Threshold => t \in logged
=============================================================================
