SPECIFICATION MCSpec
CONSTANTS
  e1 = e1
  e2 = e2
  d1 = d1
  d2 = d2
  Documents = {e1, e2}
  Dispatchers = {d1, d2}
  Priority = {e1}
  Kept = {e2}
  Setups <- Scenarios
  BatchSize = 2
  PriorityBudget = 1
  MaxFailedPerBatch = 1
  MaxAttempts = 2
  MaxScans = 2
  Clients = {"a", "b"}
  TenantIDs = {"t1", "t2"}
  Repositories <- FourRepositories
  CallContexts <- SomeContexts
  MaxCalls = 2
  MaxIndexFaults = 1
  Callers = {"a", "b", "c"}
  Tenants = {"p", "t1"}
  Default = "p"
  Plans <- ThreeCalls
  MaxRounds = 2
  MaxLapses = 1
  MaxErrors = 1
  Readers = {"a", "b"}
  Kinds = {"presence", "discovery"}
  TTL = 2
  QueryTimeout = 1
  MaxClock = 6
  Writers = {"a", "b", "c"}
  Wishes <- FiveWishes
  PageSize = 1
  MaxPages = 2
  MaxPuts = 3
  MaxStorageFaults = 2
INVARIANTS MongoSound RoutingSound ObjectStorageSound LedgerSound
PROPERTY StoresSettle
CHECK_DEADLOCK FALSE
