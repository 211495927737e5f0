------------------------------ MODULE MCStores ------------------------------
(***************************************************************************)
(* The parts that keep or route stored data, one of them running per       *)
(* behaviour: the outbox on MongoDB, its tenant databases and indexes, the *)
(* tenant topology of the Postgres pools, the discovery caches of the      *)
(* column resolver, immutable objects in s3, and the ledger's transaction  *)
(* plans.  They share no state.  The parts with theorems are extended and  *)
(* stand in an initial state while another runs; v1 to v4 hold the         *)
(* variables of the ledger, or Idle.                                       *)
(***************************************************************************)
EXTENDS OutboxMongo, MongoDatabases, OutboxTopology, TenantDiscovery, ObjectStorage, TLC

CONSTANTS e1, e2, d1, d2

VARIABLES focus, v1, v2, v3, v4

-----------------------------------------------------------------------------
Results == {"ok", "retryable", "nonretryable"}

Scenario(running, priority, a, b, results, n) ==
    [running |-> running, priority |-> priority, inserts |-> (e1 :> a @@ e2 :> b), results |-> results, faults |-> n]

(* Two documents and two dispatchers, one with priority types; two         *)
(* documents and one dispatcher, whose calls are lost;                     *)
(* one document with every result and a lost call; an id created           *)
(* again after its document was purged.                                    *)
Scenarios ==
    {Scenario({d1, d2}, {d2}, 1, 1, {"ok"}, 0), Scenario({d2}, {d2}, 1, 1, Results, 2),
     Scenario({d1, d2}, {d2}, 1, 0, Results, 1), Scenario({d1, d2}, {}, 2, 0, {"ok"}, 0)}

(* A repository without module and resolver, and ones with either or both. *)
Repository(m, r, q) == [module |-> m, resolver |-> r, requireTenant |-> q]

FourRepositories ==
    {Repository(FALSE, FALSE, FALSE), Repository(FALSE, TRUE, TRUE), Repository(TRUE, TRUE, TRUE),
     Repository(TRUE, FALSE, FALSE)}

(* A tenant's id alone, with a database the request path resolved, and no  *)
(* or no valid id.                                                         *)
SomeContexts ==
    [tenant : {"t1", "t2", "none", "bad"}, moduleDB : {FALSE}, plainDB : {FALSE}]
      \cup [tenant : {"t1"}, moduleDB : {TRUE}, plainDB : {FALSE}]
      \cup [tenant : {"t1"}, moduleDB : {FALSE}, plainDB : {TRUE}]

-----------------------------------------------------------------------------
Of(x, y, z) == [a |-> x, b |-> y, c |-> z]

Op(op) == [op |-> op, tenant |-> "t1"]

(* Enumerations beside an eviction, an invalidation or a repository call.  *)
ThreeCalls ==
    {Of(Op("list"), Op("list"), Op("evict")), Of(Op("list"), Op("evict"), Op("invalidate")),
     Of(Op("list"), Op("evict"), Op("pool"))}

-----------------------------------------------------------------------------
Write(op, until, fits, large) == [op |-> op, until |-> until, fits |-> fits, large |-> large]

(* Writers that recover with the same, a longer and a wrong retention;     *)
(* beside one that does not recover and a delete; beside plain uploads;    *)
(* beside deletes that make the history longer than the pages listed.      *)
FiveWishes ==
    LET same == Write("recover", 5, TRUE, FALSE)
        erase == Write("delete", 0, TRUE, FALSE)
    IN
    {Of(same, same, same),
     Of(same, Write("recover", 8, TRUE, FALSE), Write("recover", 4, FALSE, FALSE)),
     Of(same, Write("retain", 5, TRUE, TRUE), erase),
     Of(same, Write("upload", 0, TRUE, TRUE), Write("create", 0, TRUE, FALSE)),
     Of(same, erase, erase)}

-----------------------------------------------------------------------------
OwnerOf == [x |-> "X", y |-> "Y", z |-> "Z", e |-> "E", f |-> "F"]

Allocation(b, strategy, n) == [account |-> OwnerOf[b], balance |-> b, strategy |-> strategy, n |-> n]
Amount(b, n) == Allocation(b, "amount", n)
Share(b, n)  == Allocation(b, "share", n)
Rest(b)      == Allocation(b, "remainder", 0)

Intent(pending, total, from, to) ==
    [total |-> total, pending |-> pending, asset |-> "A", sources |-> from, destinations |-> to]

Account(owner, start, external, scope) ==
    [owner |-> owner, start |-> start, external |-> external, send |-> TRUE, receive |-> TRUE, scope |-> scope, asset |-> "A"]

(* Two with funds, an empty one, one outside the ledger, and one of        *)
(* another scope.                                                          *)
FiveAccounts ==
    [x |-> Account("X", 300, FALSE, "o"), y |-> Account("Y", 100, FALSE, "o"), z |-> Account("Z", 0, FALSE, ""),
     e |-> Account("E", 0, TRUE, "o"), f |-> Account("F", 200, FALSE, "q")]

From == {<<Amount("x", 200)>>, <<Amount("x", 100), Amount("y", 100)>>, <<Share("x", 25), Rest("y")>>,
         <<Amount("x", 200), Rest("x")>>, <<Amount("x", 100), Amount("x", 100)>>, <<Amount("f", 200)>>}
To   == {<<Amount("z", 200)>>, <<[Rest("z") EXCEPT !.account = "Y"]>>, <<Share("z", 50), Share("e", 50)>>, <<Rest("y")>>,
         <<Share("y", 75), Share("z", 75)>>}

(* Two transactions of 200 that meet on their accounts, and one back.      *)
ThreeIntents ==
    LET there == {Intent(p, 200, s, d) : p \in BOOLEAN, s \in From, d \in To}
        back  == {Intent(p, 100, <<Amount("z", 100)>>, <<Amount("x", 100)>>) : p \in BOOLEAN}
    IN  [s : there, t : there, u : back]

Books == INSTANCE Ledger WITH
         Transactions <- {"s", "t", "u"}, Intents <- ThreeIntents, Accounts <- FiveAccounts,
         intent <- v1, balances <- v2, phase <- v3, plan <- v4

-----------------------------------------------------------------------------
Idle == "idle"

idleSlots == v1 = Idle /\ v2 = Idle /\ v3 = Idle /\ v4 = Idle
slots == <<v1, v2, v3, v4>>

MCInit ==
    /\ focus \in {"mongo", "databases", "topology", "discovery", "objects", "ledger"}
    /\ MongoInit /\ (focus # "mongo" => setup = CHOOSE s \in Setups : TRUE)
    /\ MongoDatabasesInit /\ (focus # "databases" => repo = CHOOSE r \in Repositories : TRUE)
    /\ TopologyInit /\ (focus # "topology" => plan = (CHOOSE p \in Plans : TRUE) /\ apart = {})
    /\ DiscoveryInit /\ (focus # "discovery" => kind = CHOOSE k \in Kinds : TRUE)
    /\ ObjectStorageInit /\ (focus # "objects" => wish = CHOOSE w \in Wishes : TRUE)
    /\ IF focus = "ledger" THEN Books!LedgerInit ELSE idleSlots

MCNext ==
    /\ UNCHANGED focus
    /\ \/ focus = "mongo" /\ MongoNext /\ UNCHANGED <<mdVars, tvars, qvars, osvars, slots>>
       \/ focus = "databases" /\ MongoDatabasesNext /\ UNCHANGED <<mongoVars, tvars, qvars, osvars, slots>>
       \/ focus = "topology" /\ TopologyNext /\ UNCHANGED <<mongoVars, mdVars, qvars, osvars, slots>>
       \/ focus = "discovery" /\ DiscoveryNext /\ UNCHANGED <<mongoVars, mdVars, tvars, osvars, slots>>
       \/ focus = "objects" /\ ObjectStorageNext /\ UNCHANGED <<mongoVars, mdVars, tvars, qvars, slots>>
       \/ focus = "ledger" /\ Books!LedgerNext /\ UNCHANGED <<mongoVars, mdVars, tvars, qvars, osvars>>

(* Dispatchers run cycle after cycle and time passes: processing and retry *)
(* deadlines come.  Calls of the topology resolver go on.                  *)
MongoFairness ==
    /\ \A d \in Dispatchers : WF_mongoVars(focus = "mongo" /\ DispatcherStep(d))
    /\ \A e \in Documents : WF_mongoVars(focus = "mongo" /\ Age(e))

TopologyFairness == \A c \in Callers : WF_tvars(focus = "topology" /\ CallerStep(c))

MCSpec == MCInit /\ [][MCNext]_<<focus, mongoVars, mdVars, tvars, qvars, osvars, slots>> /\ MongoFairness /\ TopologyFairness

-----------------------------------------------------------------------------
(* OutboxTopology, TenantDiscovery and MongoDatabases: an evicted tenant   *)
(* is not restored by a refresh that began before, answers of the caches   *)
(* are no older than their lifetimes, and no call reaches another tenant's *)
(* database (EvictTenant, DiscoverTenants, resolvedTenantDatabase).        *)
RoutingSound == TopologySound /\ SkipIsBounded /\ TenantsStayApart

(* Ledger: plans balance, nothing is overdrawn, and holds are those of the *)
(* transactions held (BuildIntentPlan, ApplyPosting).                      *)
LedgerSound == focus = "ledger" => Books!LedgerSound

(* Every document reaches a terminal status, and every enumeration, evic-  *)
(* tion and invalidation returns, one refresh at a time (ListPending,      *)
(* ReclaimStuckProcessing, ListTenantDispatchScopes).                      *)
StoresSettle ==
    []<>(/\ focus = "mongo" => MongoQuiet
         /\ focus = "topology" => TopologyQuiet)
=============================================================================
