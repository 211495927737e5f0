SPECIFICATION MCSpec
CONSTANTS
  Servers = {"main", "extra", "grpc", "admin"}
  Timeout = 2
  Hooks = 2
  MaxSpent = 5
  Services = {s1, s2}
  NoService = NoService
  QueueCap = 1
  ListenerSem = 1
  MaxOutages = 1
  Runs = {"r1", "r2"}
  Shutdowns = {"s1", "s2"}
  NoRun = "none"
  Tasks = {"a", "b", "c"}
  GroupSetups <- ThreeTasks
INVARIANT OrderlyStops
PROPERTIES StopIsFinal StopsEnd HealsEventually
CHECK_DEADLOCK FALSE
