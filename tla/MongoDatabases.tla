--------------------------- MODULE MongoDatabases ---------------------------
(***************************************************************************)
(* Which database an operation of the MongoDB outbox goes to               *)
(* (commons/outbox/mongo/repository.go): the one the tenant middleware put *)
(* in the context, the one a resolver finds for the tenant, or the         *)
(* repository's own.  The first use of a tenant database creates the       *)
(* outbox's indexes; who has been created is remembered in a map that is   *)
(* read without the lock, then read again under it.                        *)
(*                                                                         *)
(* A context is the tenant in it and the tenant databases the middleware   *)
(* put there, for the module or for the service as a whole; a tenant's     *)
(* database is named after the tenant.                                     *)
(***************************************************************************)
EXTENDS Integers, FiniteSets

CONSTANTS Clients,
          TenantIDs,          \* valid tenant IDs
          Repositories,       \* [module, resolver, requireTenant : BOOLEAN]
          CallContexts,       \* [tenant, moduleDB, plainDB], see above
          MaxCalls,           \* operations a caller starts
          MaxIndexFaults      \* index creations that fail

OwnDatabase == "default"      \* the repository's own database
NoTenant == "none"            \* no tenant in the context
BadTenant == "bad"            \* a tenant ID that is not valid
NoDatabase == "no database"

(* Words for what is no tenant are no tenant IDs.                          *)
ASSUME DatabasesAssumption ==
    /\ TenantIDs \cap {OwnDatabase, NoTenant, BadTenant, "required", "invalid", "default scope", "unknown", "failed"} = {}
    /\ NoTenant \notin Clients
    /\ Repositories \subseteq [module : BOOLEAN, resolver : BOOLEAN, requireTenant : BOOLEAN]
    /\ CallContexts \subseteq
         [tenant : TenantIDs \cup {NoTenant, BadTenant}, moduleDB : BOOLEAN, plainDB : BOOLEAN]
    /\ CallContexts # {}

VARIABLES repo,
          at,                 \* per caller: "idle", "resolve", "index", "lock", "create"
          context,            \* per caller: the context of the call
          database,           \* per caller: the database resolved so far
          used,               \* calls that got a collection: [context, database, ready]
          indexed,            \* indexedTenantDatabases
          indexMu,            \* the caller in the critical section, or NoTenant
          built,              \* databases that have the indexes
          creations,          \* successful creations per tenant database
          indexFaults, calls

mdVars == <<repo, at, context, database, used, indexed, indexMu, built,
            creations, indexFaults, calls>>

-----------------------------------------------------------------------------
(* Resolution: a tenant, then a database, or the reason there is none.     *)

\* No tenant is the default scope, unless the repository requires one.
tenantIDFromContext(x) ==
    IF x.tenant = NoTenant THEN IF repo.requireTenant THEN "required" ELSE "default scope"
    ELSE IF x.tenant = BadTenant THEN "invalid" ELSE x.tenant

\* The resolver (external) may know no database, or fail.
resolveTenantDatabase(x, answer) ==
    LET t == tenantIDFromContext(x) IN
    IF t \in {"required", "default scope"} THEN "required"
    ELSE IF t = "invalid" \/ answer = "found" THEN t ELSE answer

\* Without a module the service's own database serves who has no tenant.
resolvedTenantDatabase(x, answer) ==
    IF ~repo.resolver \/ resolveTenantDatabase(x, answer) = "required" THEN OwnDatabase
    ELSE resolveTenantDatabase(x, answer)

\* The context first, then the resolver; with a module there is no default.
collectionDatabase(x, answer) ==
    IF repo.module
    THEN IF x.moduleDB THEN x.tenant
         ELSE IF repo.resolver THEN resolveTenantDatabase(x, answer) ELSE "required"
    ELSE IF x.plainDB THEN x.tenant ELSE resolvedTenantDatabase(x, answer)

-----------------------------------------------------------------------------
Begin(c) ==
    /\ at[c] = "idle"
    /\ calls[c] < MaxCalls
    /\ \E x \in CallContexts : context' = [context EXCEPT ![c] = x]
    /\ calls' = [calls EXCEPT ![c] = @ + 1]
    /\ at' = [at EXCEPT ![c] = "resolve"]
    /\ UNCHANGED <<repo, database, used, indexed, indexMu, built, creations, indexFaults>>

hands(c, db) ==
    used' = used \cup {[context |-> context[c], database |-> db, ready |-> db \in built \cup {OwnDatabase}]}

collection(c) ==
    /\ at[c] = "resolve"
    /\ \E answer \in {"found", "unknown", "failed"} :
          LET db == collectionDatabase(context[c], answer) IN
          \/ /\ db \in TenantIDs
             /\ database' = [database EXCEPT ![c] = db]
             /\ at' = [at EXCEPT ![c] = "index"]
             /\ UNCHANGED used
          \/ /\ db = OwnDatabase
             /\ hands(c, OwnDatabase)
             /\ at' = [at EXCEPT ![c] = "idle"]
             /\ UNCHANGED database
          \/ /\ db \notin TenantIDs \cup {OwnDatabase}
             /\ at' = [at EXCEPT ![c] = "idle"]
             /\ UNCHANGED <<database, used>>
    /\ UNCHANGED <<repo, context, indexed, indexMu, built, creations, indexFaults, calls>>

\* The map, without the lock.
Load(c) ==
    /\ at[c] = "index"
    /\ IF database[c] \in indexed
       THEN hands(c, database[c]) /\ at' = [at EXCEPT ![c] = "idle"]
       ELSE at' = [at EXCEPT ![c] = "lock"] /\ UNCHANGED used
    /\ UNCHANGED <<repo, context, database, indexed, indexMu, built, creations, indexFaults, calls>>

knownByNow(c) == database[c] \in indexed

\* The lock, and the map again.
Lock(c) ==
    /\ at[c] = "lock"
    /\ indexMu = NoTenant
    /\ IF knownByNow(c)
       THEN /\ hands(c, database[c])
            /\ at' = [at EXCEPT ![c] = "idle"]
            /\ UNCHANGED indexMu
       ELSE /\ indexMu' = c
            /\ at' = [at EXCEPT ![c] = "create"]
            /\ UNCHANGED used
    /\ UNCHANGED <<repo, context, database, indexed, built, creations, indexFaults, calls>>

\* CreateMany, and the entry in the map when it succeeds; a failure leaves the
\* next caller to try again.
ensureDatabaseIndexes(c) ==
    LET db == database[c] IN
    /\ at[c] = "create"
    /\ \/ /\ built' = built \cup {db}
          /\ creations' = [creations EXCEPT ![db] = @ + 1]
          /\ indexed' = indexed \cup {db}
          /\ used' = used \cup {[context |-> context[c], database |-> db, ready |-> TRUE]}
          /\ UNCHANGED indexFaults
       \/ /\ indexFaults < MaxIndexFaults
          /\ indexFaults' = indexFaults + 1
          /\ UNCHANGED <<built, creations, indexed, used>>
    /\ indexMu' = NoTenant
    /\ at' = [at EXCEPT ![c] = "idle"]
    /\ UNCHANGED <<repo, context, database, calls>>

MongoDatabasesInit ==
    /\ repo \in Repositories
    /\ at = [c \in Clients |-> "idle"]
    /\ context = [c \in Clients |-> CHOOSE x \in CallContexts : TRUE]
    /\ database = [c \in Clients |-> NoDatabase]
    /\ used = {}
    /\ indexed = {} /\ built = {}
    /\ indexMu = NoTenant
    /\ creations = [t \in TenantIDs |-> 0]
    /\ indexFaults = 0
    /\ calls = [c \in Clients |-> 0]

MongoDatabasesNext ==
    \E c \in Clients : \/ Begin(c) \/ collection(c) \/ Load(c) \/ Lock(c)
                       \/ ensureDatabaseIndexes(c)

MongoDatabasesSpec == MongoDatabasesInit /\ [][MongoDatabasesNext]_mdVars

-----------------------------------------------------------------------------
(* An outbox operation reaches its own tenant's database (repository.go): a*)
(* call with a tenant in its context works on that tenant's database, or on*)
(* the default one only in a repository that has neither a module nor a    *)
(* resolver, and never on somebody else's because its own could not be     *)
(* found; a repository with a module serves nobody from the default one;   *)
(* every tenant database has its indexes before anybody works on it, and   *)
(* they are created once, by the client the model gives a database, however*)
(* many callers come first at the same time.                               *)
TenantsStayApart ==
    /\ \A u \in used :
          /\ u.context.tenant \in TenantIDs =>
                u.database = u.context.tenant
                  \/ (u.database = OwnDatabase /\ ~repo.module /\ ~repo.resolver)
          /\ u.context.tenant = BadTenant => u.database = OwnDatabase /\ ~repo.module /\ ~repo.resolver
          /\ repo.module => u.database # OwnDatabase
          /\ u.ready
    /\ \A t \in TenantIDs : creations[t] <= 1
=============================================================================
