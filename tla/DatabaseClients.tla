-------------------------- MODULE DatabaseClients --------------------------
(***************************************************************************)
(* The Postgres and the MongoDB client: connected on demand, replaced by   *)
(* Connect, taken away by Close, and used meanwhile for read-only          *)
(* transactions and for index creation.  The pools are built under the     *)
(* write lock, one call to the database at a time, and each call may fail  *)
(* and leaves what was built before it to be cleaned up.                   *)
(***************************************************************************)
EXTENDS Naturals, FiniteSets

CONSTANTS Users,     \* goroutines
          DatabaseSetups,    \* [kind, plan]: the client, and what each goroutine calls
          MaxBuilds, \* bound: connections built
          MaxIndex   \* indexes EnsureIndexes is asked for

VARIABLES db,          \* one of DatabaseSetups
          primary, replica, \* the pools in use; the MongoDB client is a primary
          closed,      \* c.closed of the MongoDB client
          backingOff,     \* an attempt failed and its backoff has not passed
          mu,          \* the holder of the write lock
          builds, openPools, observed,  \* pools made, open, and seen by telemetry
          upc, built, leaving, handle,  \* a goroutine: its step, the pools it builds, closes, uses
          ctx,         \* its context: live, deadline or cancelled
          tx, cause, result,   \* its transaction, the error in hand, what it returned
          saw,         \* ghost: its read got all rows, was cut short by the server, died with its
                       \* context, or hit the statement cap while its caller waited
          indexed, next   \* indexes that exist, and the next each goroutine creates

dvars == <<db, primary, replica, closed, backingOff, mu, builds, openPools, observed, upc, built, leaving, handle, ctx, tx,
           cause, result, saw, indexed, next>>

Free   == "free"
NoPool == [build |-> 0, role |-> "none"]
Pool(n, r) == [build |-> n, role |-> r]
Mongo  == db.kind = "mongo"
Plan(u) == db.plan[u]

ASSUME DatabaseAssumption ==
    /\ Free \notin Users /\ MaxIndex \in Nat /\ MaxBuilds \in Nat
    /\ DatabaseSetups \subseteq [kind : {"replicated", "single", "injected", "mongo"},
                               plan : [Users -> {"connect", "resolve", "read", "close", "indexes"}]]

DatabaseTypeOK ==
    /\ mu \in Users \cup {Free} /\ closed \in BOOLEAN /\ backingOff \in BOOLEAN
    /\ (\A p \in openPools : p.build \in 0 .. builds) /\ indexed \subseteq 1 .. MaxIndex

(* Not connected yet, or a client over pools the caller opened.            *)
DatabaseInit ==
    /\ db \in DatabaseSetups
    /\ primary = IF db.kind = "injected" THEN Pool(0, "primary") ELSE NoPool
    /\ replica = NoPool /\ openPools = {primary} \ {NoPool} /\ observed = {}
    /\ closed = FALSE /\ backingOff = FALSE /\ mu = Free /\ builds = 0 /\ indexed = {}
    /\ upc = [u \in Users |-> "start"] /\ built = [u \in Users |-> {}] /\ leaving = [u \in Users |-> {}]
    /\ handle = [u \in Users |-> NoPool] /\ ctx = [u \in Users |-> "live"] /\ tx = [u \in Users |-> "none"]
    /\ cause = [u \in Users |-> "none"] /\ result = [u \in Users |-> "none"] /\ saw = [u \in Users |-> "nothing"]
    /\ next = [u \in Users |-> 1]

-----------------------------------------------------------------------------
Shared == <<primary, replica, closed, backingOff>>
Pools  == <<builds, openPools, observed>>
Mine   == <<built, leaving>>
Read   == <<tx, cause, saw>>

UserGoesTo(u, l)     == upc' = [upc EXCEPT ![u] = l]
Returns(u, r)  == UserGoesTo(u, "done") /\ result' = [result EXCEPT ![u] = r]
Fails(u, e)    == UserGoesTo(u, "done") /\ result' = [result EXCEPT ![u] = e]
Current        == {primary, replica} \ {NoPool}

(* What a caller of Resolver or ResolveClient does with what it got.       *)
Handed(u) ==
    IF Plan(u) = "resolve" THEN Returns(u, "nil") ELSE UserGoesTo(u, "pick") /\ UNCHANGED result

(* Connect of the Postgres client: it builds, whatever there is.           *)
ConnectPostgres(u) ==
    /\ upc[u] = "start" /\ Plan(u) = "connect" /\ ~Mongo /\ mu = Free
    /\ \/ db.kind = "injected" /\ Fails(u, "injected") /\ UNCHANGED mu
       \/ db.kind # "injected" /\ mu' = u /\ UserGoesTo(u, "primary") /\ UNCHANGED result
    /\ UNCHANGED <<db, Shared, Pools, Mine, handle, ctx, Read, indexed, next>>

(* Connect of the MongoDB client: only if there is none.                   *)
ConnectMongo(u) ==
    /\ upc[u] = "start" /\ Plan(u) = "connect" /\ Mongo /\ mu = Free
    /\ \/ closed /\ Fails(u, "closed") /\ UNCHANGED mu
       \/ ~closed /\ primary # NoPool /\ Returns(u, "nil") /\ UNCHANGED mu
       \/ ~closed /\ primary = NoPool /\ mu' = u /\ UserGoesTo(u, "primary") /\ UNCHANGED result
    /\ UNCHANGED <<db, Shared, Pools, Mine, handle, ctx, Read, indexed, next>>

(* Resolver and ResolveClient: the fast path, and the second look under    *)
(* the write lock.                                                         *)
ResolverFast(u) ==
    /\ upc[u] = "start" /\ Plan(u) \in {"resolve", "read"} /\ mu = Free
    /\ \/ closed /\ Fails(u, "closed")
       \/ ~closed /\ primary # NoPool /\ Handed(u)
       \/ ~closed /\ primary = NoPool /\ UserGoesTo(u, "slow") /\ UNCHANGED result
    /\ UNCHANGED <<db, Shared, mu, Pools, Mine, handle, ctx, Read, indexed, next>>

Resolver(u) ==
    /\ upc[u] = "slow" /\ mu = Free
    /\ \/ closed /\ Fails(u, "closed") /\ UNCHANGED mu
       \/ ~closed /\ primary # NoPool /\ Handed(u) /\ UNCHANGED mu
       \/ /\ ~closed /\ primary = NoPool /\ db.kind = "injected" /\ Fails(u, "injected") /\ UNCHANGED mu
       \/ /\ ~closed /\ primary = NoPool /\ db.kind # "injected" /\ backingOff
          /\ Fails(u, "backingOff") /\ UNCHANGED mu
       \/ /\ ~closed /\ primary = NoPool /\ db.kind # "injected" /\ ~backingOff
          /\ mu' = u /\ UserGoesTo(u, "primary") /\ UNCHANGED result
    /\ UNCHANGED <<db, Shared, Pools, Mine, handle, ctx, Read, indexed, next>>

(* One more pool, observed from the moment it is opened.                   *)
newSQLDB(u, p) ==
    /\ builds' = p.build /\ builds' <= MaxBuilds
    /\ openPools' = openPools \cup {p} /\ built' = [built EXCEPT ![u] = @ \cup {p}]
    /\ observed' = IF Mongo THEN observed ELSE observed \cup {p}

(* A step of the build failed: what was built goes away.                   *)
Unbuild(u) ==
    /\ openPools' = openPools \ built[u] /\ observed' = observed \ built[u]
    /\ built' = [built EXCEPT ![u] = {}] /\ mu' = Free /\ Fails(u, "failed")
    /\ backingOff' = (backingOff \/ Plan(u) # "connect") /\ UNCHANGED builds

OpenPrimary(u) ==
    /\ upc[u] = "primary"
    /\ \/ /\ newSQLDB(u, Pool(builds + 1, "primary"))
          /\ UserGoesTo(u, IF db.kind = "replicated" THEN "replica" ELSE "ping")
          /\ UNCHANGED <<backingOff, mu, result>>
       \/ Unbuild(u)
    /\ UNCHANGED <<db, primary, replica, closed, leaving, handle, ctx, Read, indexed, next>>

buildConnection(u) ==
    /\ upc[u] = "replica"
    /\ \/ newSQLDB(u, Pool(builds, "replica")) /\ UserGoesTo(u, "ping") /\ UNCHANGED <<backingOff, mu, result>>
       \/ Unbuild(u)
    /\ UNCHANGED <<db, primary, replica, closed, leaving, handle, ctx, Read, indexed, next>>

(* connectPostgresLocked: the ping, under the caller's context, and the exchange.  *)
Exchange(u) ==
    /\ primary' = Pool(builds, "primary")
    /\ replica' = IF db.kind = "replicated" THEN Pool(builds, "replica") ELSE NoPool
    /\ openPools' = openPools \ Current /\ observed' = observed \ Current
    /\ built' = [built EXCEPT ![u] = {}] /\ mu' = Free /\ UNCHANGED builds
    /\ backingOff' = IF Plan(u) = "connect" THEN backingOff ELSE FALSE
    /\ IF Plan(u) = "connect" THEN Returns(u, "nil") ELSE Handed(u)

connectPostgresLocked(u) ==
    /\ upc[u] = "ping" /\ ~Mongo
    /\ \/ ctx[u] = "live" /\ Exchange(u)
       \/ Unbuild(u) /\ UNCHANGED <<primary, replica>>
    /\ UNCHANGED <<db, closed, leaving, handle, ctx, Read, indexed, next>>

connectMongoLocked(u) ==
    /\ upc[u] = "ping" /\ Mongo
    /\ \/ ctx[u] = "live" /\ Exchange(u)
       \/ Unbuild(u) /\ UNCHANGED <<primary, replica>>
    /\ UNCHANGED <<db, closed, leaving, handle, ctx, Read, indexed, next>>

(* Close of the Postgres client: taken out under the lock, closed after it.*)
ClosePostgres(u) ==
    /\ upc[u] = "start" /\ Plan(u) = "close" /\ ~Mongo /\ mu = Free
    /\ leaving' = [leaving EXCEPT ![u] = Current] /\ primary' = NoPool /\ replica' = NoPool
    /\ UserGoesTo(u, "closing")
    /\ UNCHANGED <<db, closed, backingOff, mu, Pools, built, handle, ctx, Read, result, indexed, next>>

ClosesPools(u) ==
    /\ upc[u] = "closing" /\ Returns(u, "nil")
    /\ openPools' = openPools \ leaving[u] /\ observed' = observed \ leaving[u]
    /\ leaving' = [leaving EXCEPT ![u] = {}]
    /\ UNCHANGED <<db, Shared, mu, builds, built, handle, ctx, Read, indexed, next>>

(* Close of the MongoDB client is final, and disconnects under the lock.   *)
CloseMongo(u) ==
    /\ upc[u] = "start" /\ Plan(u) = "close" /\ Mongo /\ mu = Free
    /\ closed' = TRUE /\ openPools' = openPools \ {primary} /\ primary' = NoPool
    /\ \/ Returns(u, "nil")
       \/ primary # NoPool /\ Fails(u, "disconnect")
    /\ UNCHANGED <<db, replica, backingOff, mu, builds, observed, Mine, handle, ctx, Read, indexed, next>>

-----------------------------------------------------------------------------
(* EnsureIndexes: one index after the other on the client there was; what  *)
(* fails is collected and the rest is tried.                               *)
Client(u) ==
    /\ upc[u] = "start" /\ Plan(u) = "indexes" /\ mu = Free
    /\ IF primary = NoPool THEN Fails(u, "closed") /\ UNCHANGED handle
       ELSE UserGoesTo(u, "index") /\ handle' = [handle EXCEPT ![u] = primary] /\ UNCHANGED result
    /\ UNCHANGED <<db, Shared, mu, Pools, Mine, ctx, Read, indexed, next>>

indexErrors(u, ok) == [cause EXCEPT ![u] = IF ok THEN @ ELSE "index"]

EnsureIndexes(u) ==
    /\ upc[u] = "index"
    /\ \/ ctx[u] # "live" /\ Fails(u, "index") /\ UNCHANGED <<cause, indexed, next>>
       \/ /\ next[u] > MaxIndex /\ UNCHANGED <<cause, indexed, next>>
          /\ IF cause[u] = "none" THEN Returns(u, "nil") ELSE Fails(u, "index")
       \/ /\ ctx[u] = "live" /\ next[u] <= MaxIndex /\ next' = [next EXCEPT ![u] = @ + 1]
          /\ \E ok \in {handle[u] \in openPools, FALSE} :
               /\ cause' = indexErrors(u, ok)
               /\ indexed' = IF ok THEN indexed \cup {next[u]} ELSE indexed
          /\ UNCHANGED <<upc, result>>
    /\ UNCHANGED <<db, Shared, mu, Pools, Mine, handle, ctx, tx, saw>>

-----------------------------------------------------------------------------
(* RunReadOnly of the client: the pool is read again after Resolver has    *)
(* returned; Close may have come between.                                  *)
PicksPool(u) ==
    /\ upc[u] = "pick" /\ mu = Free
    /\ LET p == IF replica # NoPool THEN replica ELSE primary IN
       IF p = NoPool THEN Fails(u, "nilClient") /\ UNCHANGED handle
       ELSE UserGoesTo(u, "begin") /\ handle' = [handle EXCEPT ![u] = p] /\ UNCHANGED result
    /\ UNCHANGED <<db, Shared, mu, Pools, Mine, ctx, Read, indexed, next>>

(* What the driver says of a statement that did not finish: its own error, *)
(* or SQLSTATE 57014, which a dead context shares with the statement cap.  *)
Errors(u) == IF ctx[u] = "live" THEN {"57014", "other"} ELSE {"57014", "context", "other"}

ReadRaises(u, e) == cause' = [cause EXCEPT ![u] = e] /\ UserGoesTo(u, "classify")

RunReadOnly(u) ==
    /\ upc[u] = "begin"
    /\ \/ /\ handle[u] \in openPools /\ ctx[u] = "live" /\ tx' = [tx EXCEPT ![u] = "open"]
          /\ UserGoesTo(u, "cap") /\ UNCHANGED cause
       \/ \E e \in Errors(u) \ {"57014"} : ReadRaises(u, e) /\ UNCHANGED tx
    /\ UNCHANGED <<db, Shared, mu, Pools, Mine, handle, ctx, result, saw, indexed, next>>

(* SET LOCAL statement_timeout; without it nothing is read.                *)
applyStatementTimeout(u) ==
    /\ upc[u] = "cap"
    /\ \/ ctx[u] = "live" /\ tx' = [tx EXCEPT ![u] = "capped"] /\ UserGoesTo(u, "fn") /\ UNCHANGED cause
       \/ \E e \in Errors(u) \ (IF ctx[u] = "live" THEN {"57014"} ELSE {}) : ReadRaises(u, e) /\ UNCHANGED tx
    /\ UNCHANGED <<db, Shared, mu, Pools, Mine, handle, ctx, result, saw, indexed, next>>

(* How a loop over the rows may end with nobody asking why: after the last *)
(* row; early, because the server cancelled it under the statement cap or  *)
(* the connection went away; or early because the context died.            *)
Endings(u) == {"all", "cut"} \cup (IF ctx[u] = "live" THEN {} ELSE {"died"})

(* The caller's function: the end of such a loop and a nil, or an error.   *)
RunsFn(u) ==
    /\ upc[u] = "fn"
    /\ \/ /\ \E end \in Endings(u) : saw' = [saw EXCEPT ![u] = end]
          /\ UserGoesTo(u, "checkCtx") /\ UNCHANGED cause
       \/ \E e \in Errors(u) : ReadRaises(u, e) /\ saw' = [saw EXCEPT ![u] = IF ctx[u] = "live" /\ e = "57014" THEN "cap" ELSE @]
    /\ UNCHANGED <<db, Shared, mu, Pools, Mine, handle, ctx, tx, result, indexed, next>>

(* A nil from the function is not enough: the context is asked as well.    *)
readCompleted(u) == ctx[u] = "live"

AsksContext(u) ==
    /\ upc[u] = "checkCtx"
    /\ \/ readCompleted(u) /\ UserGoesTo(u, "rollback") /\ UNCHANGED cause
       \/ ~readCompleted(u) /\ ReadRaises(u, "context")
    /\ UNCHANGED <<db, Shared, mu, Pools, Mine, handle, ctx, tx, result, saw, indexed, next>>

(* classifyReadOnly: the context first, then the SQLSTATE.                 *)
classifyReadOnly(c, e) ==
    IF c # "live" THEN (IF c = "deadline" THEN "txDeadline" ELSE "cancelled")
    ELSE IF e = "57014" THEN "statementTimeout" ELSE e

Classifies(u) ==
    /\ upc[u] = "classify" /\ cause' = [cause EXCEPT ![u] = classifyReadOnly(ctx[u], @)]
    /\ IF tx[u] = "none" THEN Fails(u, cause'[u]) ELSE UserGoesTo(u, "rollback") /\ UNCHANGED result
    /\ UNCHANGED <<db, Shared, mu, Pools, Mine, handle, ctx, tx, saw, indexed, next>>

(* closeReadOnly: always rolled back; that this may fail is told only if   *)
(* nothing else went wrong.                                                *)
closeReadOnly(u) ==
    /\ upc[u] = "rollback" /\ tx' = [tx EXCEPT ![u] = "ended"]
    /\ \/ IF cause[u] = "none" THEN Returns(u, "nil") ELSE Fails(u, cause[u])
       \/ ctx[u] = "live" /\ IF cause[u] = "none" THEN Fails(u, "rollback") ELSE Fails(u, cause[u])
    /\ UNCHANGED <<db, Shared, mu, Pools, Mine, handle, ctx, cause, saw, indexed, next>>

-----------------------------------------------------------------------------
(* A context ends: by its deadline, or because the caller went away.       *)
ContextEnds(u) ==
    /\ ctx[u] = "live" /\ upc[u] # "done" /\ \E c \in {"deadline", "cancelled"} : ctx' = [ctx EXCEPT ![u] = c]
    /\ UNCHANGED <<db, Shared, mu, Pools, upc, Mine, handle, Read, result, indexed, next>>

BackoffPasses ==
    /\ backingOff /\ backingOff' = FALSE
    /\ UNCHANGED <<db, primary, replica, closed, mu, Pools, upc, Mine, handle, ctx, Read, result, indexed, next>>

DatabaseNext ==
    \/ BackoffPasses
    \/ \E u \in Users :
         \/ ConnectPostgres(u) \/ ConnectMongo(u) \/ ResolverFast(u) \/ Resolver(u) \/ OpenPrimary(u) \/ buildConnection(u)
         \/ connectPostgresLocked(u) \/ connectMongoLocked(u) \/ ClosePostgres(u) \/ ClosesPools(u) \/ CloseMongo(u)
         \/ Client(u) \/ EnsureIndexes(u) \/ PicksPool(u) \/ RunReadOnly(u) \/ applyStatementTimeout(u)
         \/ RunsFn(u) \/ AsksContext(u) \/ Classifies(u) \/ closeReadOnly(u) \/ ContextEnds(u)

DatabaseSpec == DatabaseInit /\ [][DatabaseNext]_dvars

-----------------------------------------------------------------------------
InWork == UNION {built[u] \cup leaving[u] : u \in Users}

(* Whichever call of the build fails, and however Connect, the lazy        *)
(* connections and Close overlap: a pool is open only while it is in use,  *)
(* being built or being closed, what is in use is open and observed, and a *)
(* closed MongoDB client stays closed.                                     *)
PoolsAccounted ==
    /\ Current \subseteq openPools /\ openPools \subseteq Current \cup InWork
    /\ observed \subseteq openPools /\ (db.kind \in {"replicated", "single"} => Current \subseteq observed)
    /\ closed => primary = NoPool /\ mu = Free
    /\ mu = Free => \A u \in Users : built[u] = {}

(* A read whose context ended before its rows did is never reported as a   *)
(* success, whatever its function says (one that the server cut short is,  *)
(* when the function does not ask); a statement timeout is reported only   *)
(* of a read whose caller still waited; and no call leaves its transaction *)
(* open.                                                                   *)
ReadsAreTrue ==
    \A u \in Users : upc[u] = "done" =>
        /\ Plan(u) = "read" /\ result[u] = "nil" => saw[u] # "died"
        /\ result[u] = "statementTimeout" => saw[u] = "cap"
        /\ tx[u] \in {"none", "ended"}
        /\ result[u] # "context"

(* EnsureIndexes succeeds only when every index is there.                  *)
IndexesAreThere == \A u \in Users : Plan(u) = "indexes" /\ result[u] = "nil" => 1 .. MaxIndex \subseteq indexed

DatabaseSound == DatabaseTypeOK /\ PoolsAccounted /\ ReadsAreTrue /\ IndexesAreThere
=============================================================================
