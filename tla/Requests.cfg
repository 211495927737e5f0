SPECIFICATION MCSpec
CONSTANTS
  r1 = r1
  r2 = r2
  r3 = r3
  same = same
  other = other
  Requests = {r1, r2, r3}
  Nobody = Nobody
  Fingerprint <- TwoAlike
  Modes <- ThreeModes
  FirstRecords = {"absent", "legacyProcessing", "legacyComplete", "unrecognised", "unreadable"}
  MaxLate = 1
  Lease = 9
  Interval = 6
  MinTick = 1
  RedisTimeout = 3
  MaxTime = 40
  Callers = {c1, c2}
  Services = {"s1"}
  NoTenant = "none"
  NoKey = NoKey
  Configs <- TwoWaysToTrip
  HeaderNames = {"x", "y", "te"}
  UncapturedNames = {"te"}
  Cookies = {"k", "l"}
  Values = {"h"}
  Above <- AboveWrites
  MaxWrites = 2
  RateSetups <- FourSetups
  TierNames = {"n1", "n2", "n3"}
  Limit = 2
  Window = 2
  MaxCount = 4
  MaxLogged = 2
  MaxClock = 5
  Senders = {"a", "b"}
  Wants <- CallBuckets
  Intervals <- BucketRates
  TTL = 4
  Tolerance = 1
  MaxStep = 3
  MaxPacingTime = 6
  MaxChanges = 1
  MaxFaults = 1
  MaxClients = 4
  MaxTokens = 4
  MaxLoops = 3
  Users = {"a", "b"}
  DatabaseSetups <- Databases
  MaxBuilds = 2
  MaxIndex = 2
  Migrators = {"x", "y"}
  Deploys <- Deployments
  MaxVersion = 3
  Ids = {1, 2, 3, 4, 5, 6}
  Value <- SortValue
  Tables <- LongAndShort
  RawLimits = {0, 1}
  DefaultLimit = 2
  MaxLimit = 3
  MaxEdits = 1
INVARIANTS AtMostOnce AnsweredFromOwnRecord OneFailedBeatIsSurvived ReplayIsTheReceipt LimitsHold PagingSound BreakerSound ClientsSound
SYMMETRY Symmetry
CHECK_DEADLOCK FALSE
