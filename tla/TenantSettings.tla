--------------------------- MODULE TenantSettings ---------------------------
(***************************************************************************)
(* What a pool of the Postgres tenant manager is made from and kept at:    *)
(* the connection strings that decide whether a revalidation reconnects,   *)
(* and the pool settings it otherwise applies to the pool in place.  One   *)
(* tenant, one pool at a time; TenantPools has the cache itself.  The two  *)
(* limits (open, idle) are resolved alike, and one stands for both.        *)
(***************************************************************************)
EXTENDS Integers

CONSTANTS DSNs,      \* connection strings
          Asks,      \* settings a tenant may ask for: a limit, 0 for none, and a timeout
          Timeouts,  \* the valid statement timeouts
          Defaults,  \* the limits the manager's options may set as its default
          PackageDefault,  \* the limit of the postgres package
          Cap

(* The manager has a cap of at least one (WithConnectionLimitCaps takes no *)
(* other); its options take any number as the default, zero too.           *)
ASSUME SettingsAssumption ==
    Cap \in Nat \ {0} /\ Defaults \subseteq Int /\ PackageDefault \in Nat /\ Asks \subseteq [limit : Int, timeout : STRING]

NoDSN == "none"
Broken == "broken"   \* configured, but no connection string can be built
Unset == "unset"     \* no statement timeout
NotMade == [primary |-> NoDSN]
NoAnswer == [primary |-> NoDSN]
Never == [limit |-> 0, timeout |-> "never"]   \* differs from all that can be applied

VARIABLES default,  \* maxOpenConns, maxIdleConns: what the manager's options set
          config,   \* what the Tenant Manager would answer now
          cached,   \* the tenant's pool
          applied,  \* lastAppliedSettings[tenant]
          step,     \* what the one revalidation is doing
          fetched,  \* its answer to the revalidation
          read,     \* the pool the revalidation sets, while it is cached
          prev      \* what had been applied when it read the pool

svars == <<default, config, cached, applied, step, fetched, read, prev>>

(* module: connectionSettings under the module's database; top: the older  *)
(* ones beside it.                                                         *)
Configs == [primary : DSNs \cup {Broken}, replica : DSNs \cup {NoDSN, Broken},
            module : Asks, hasModule : BOOLEAN, top : Asks]

-----------------------------------------------------------------------------
(* The module's own settings win over the top-level ones.                  *)
resolveConnectionSettingsFromConfig(c) == IF c.hasModule THEN c.module ELSE c.top

(* Mutant: no cap.                                                         *)
noClamp(n) == n

clampPoolSettings(n) == IF Cap > 0 /\ n > Cap THEN Cap ELSE n

resolveConnectionPoolSettings(c) ==
    LET s == resolveConnectionSettingsFromConfig(c)
    IN  clampPoolSettings(IF s.limit > 0 THEN s.limit ELSE default)

resolveEffectiveSettings(c) ==
    LET s == resolveConnectionSettingsFromConfig(c)
    IN  [limit |-> IF s.limit > 0 THEN s.limit ELSE default, timeout |-> s.timeout]

(* Every spelling of "no replica" is one.                                  *)
normalizeReplicaConnStr(replica, primary) == IF replica = primary THEN NoDSN ELSE replica

(* hasPostgresConfigChanged: something is cached and it was made from      *)
(* other connection strings.                                               *)
hasPostgresConfigChanged(p, c) ==
    /\ p # NotMade
    /\ \/ p.primary # c.primary
       \/ normalizeReplicaConnStr(p.replica, p.primary) # normalizeReplicaConnStr(c.replica, c.primary)

(* A connection string that cannot be built, of the primary or of a        *)
(* replica that is configured, ends the construction.                      *)
Buildable(c) == c.primary # Broken /\ c.replica # Broken

(* A limit below one is replaced on the way to a new pool.                 *)
withDefaults(n) == IF n < 1 THEN PackageDefault ELSE n

(* Who gives the limit, for the properties.                                *)
Giver(c) == IF resolveConnectionSettingsFromConfig(c).limit > 0 THEN "tenant" ELSE "manager"

(* resolveReplicaConnection: none when none is configured.                 *)
PoolFrom(c) == [primary |-> c.primary, replica |-> c.replica, giver |-> Giver(c),
                limit |-> withDefaults(resolveConnectionPoolSettings(c)), timeout |-> Unset]

-----------------------------------------------------------------------------
SettingsInit ==
    /\ default \in Defaults /\ config \in {c \in Configs : Buildable(c)}
    /\ cached = NotMade /\ applied = Never /\ step = "off"
    /\ fetched = NoAnswer /\ read = NotMade /\ prev = Never

(* The Tenant Manager's answer changes, in one respect.                    *)
Retune ==
    /\ config' \in {[config EXCEPT !.primary = d] : d \in DSNs \cup {Broken}}
              \cup {[config EXCEPT !.replica = d] : d \in DSNs \cup {NoDSN, Broken}}
              \cup {[config EXCEPT !.hasModule = h] : h \in BOOLEAN}
    /\ config' # config
    /\ UNCHANGED <<default, cached, applied, step, fetched, read, prev>>

(* createConnection, when nothing is cached.                               *)
Create ==
    /\ cached = NotMade /\ Buildable(config) /\ cached' = PoolFrom(config)
    /\ UNCHANGED <<default, config, applied, step, fetched, read, prev>>

(* Every way out of the cache deletes the applied settings as well.        *)
Leave ==
    /\ cached # NotMade /\ cached' = NotMade /\ applied' = Never /\ read' = NotMade
    /\ UNCHANGED <<default, config, step, fetched, prev>>

(* revalidatePoolSettings                                                  *)
RevalidateSettings ==
    /\ step = "off" /\ cached # NotMade
    /\ fetched' = config /\ step' = "detect"
    /\ UNCHANGED <<default, config, cached, applied, read, prev>>

(* detectAndReconnectPostgres: what cannot be built keeps the pool, and    *)
(* the settings are looked at.                                             *)
detectAndReconnectPostgres ==
    /\ step = "detect"
    /\ step' = IF Buildable(fetched) /\ hasPostgresConfigChanged(cached, fetched) THEN "reconnect" ELSE "apply"
    /\ UNCHANGED <<default, config, cached, applied, fetched, read, prev>>

(* reconnectPostgres: the new pool, if it connects, takes the place of the *)
(* old one; the applied settings stay as they are.                         *)
reconnects ==
    /\ step = "reconnect" /\ step' = "off" /\ fetched' = NoAnswer
    /\ \/ UNCHANGED cached
       \/ cached # NotMade /\ cached' = PoolFrom(fetched)
    /\ UNCHANGED <<default, config, applied, read, prev>>

(* ApplyConnectionSettings reads pool and settings under the read lock     *)
(* and goes on without it.                                                 *)
ReadSettings ==
    /\ step = "apply"
    /\ IF cached = NotMade THEN step' = "off" /\ fetched' = NoAnswer /\ UNCHANGED <<read, prev>>
                          ELSE step' = "set" /\ read' = cached /\ prev' = applied /\ UNCHANGED fetched
    /\ UNCHANGED <<default, config, cached, applied>>

newSettings == [resolveEffectiveSettings(fetched) EXCEPT !.limit = clampPoolSettings(@)]

(* SetMaxOpenConns, SetMaxIdleConns                                        *)
Tuned(p) == [p EXCEPT !.limit = newSettings.limit, !.giver = Giver(fetched)]

(* Only what differs from what was last applied is set, and recorded       *)
(* whatever became of it: a statement timeout may be refused.              *)
ApplyConnectionSettings ==
    LET news(f) == newSettings[f] # prev[f]
        lands   == IF news("timeout") THEN {newSettings.timeout} \cap Timeouts ELSE {}
    IN  /\ step = "set" /\ step' = "off"
        /\ \/ ~news("limit") /\ ~news("timeout") /\ UNCHANGED <<cached, applied>>
           \/ /\ news("limit") \/ news("timeout")
              /\ applied' = newSettings
              /\ \/ read = NotMade /\ UNCHANGED cached
                 \/ /\ read # NotMade
                    /\ \E t \in {read.timeout} \cup lands :
                         cached' = [(IF news("limit") THEN Tuned(read) ELSE read) EXCEPT !.timeout = t]
        /\ read' = NotMade /\ fetched' = NoAnswer /\ prev' = Never
        /\ UNCHANGED <<default, config>>

SettingsNext ==
    \/ Retune \/ Create \/ Leave \/ RevalidateSettings \/ detectAndReconnectPostgres \/ reconnects
    \/ ReadSettings \/ ApplyConnectionSettings

SettingsSpec == SettingsInit /\ [][SettingsNext]_svars

-----------------------------------------------------------------------------
(* Where a pool made from these strings writes, and where it also reads.   *)
Serves(p) == <<p.primary, {p.replica} \ {NoDSN, p.primary}>>

(* Whatever the tenant asks for, and whichever of the two ways sets it, a  *)
(* pool stays within the manager's cap and has a limit.  One that asks for *)
(* nothing has them too, unless the manager's options set no default: it   *)
(* then has the package's limit, or none at all once settings were applied *)
(* to it (SetMaxOpenConns), and the cap holds for neither.                 *)
WithinCap ==
    cached # NotMade =>
        \/ cached.limit \in 1 .. Cap
        \/ default < 1 /\ cached.giver = "manager" /\ (cached.limit < 1 \/ cached.limit = PackageDefault)

(* A revalidation reconnects exactly when the tenant's databases changed:  *)
(* dropping a replica that was a copy of the primary costs no              *)
(* reconnection, and a pool made from a configuration is not replaced      *)
(* because of it.                                                          *)
ReconnectsForCause ==
    step = "detect" /\ step' # step /\ cached # NotMade /\ Buildable(fetched) =>
        (step' = "reconnect" <=> Serves(cached) # Serves(fetched))

(* Both, of every step.                                                    *)
SettingsSound == [][WithinCap' /\ ReconnectsForCause]_svars
=============================================================================
