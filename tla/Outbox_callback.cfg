SPECIFICATION Spec
CONSTANTS
  NoEvent = NoEvent
  Events = {e1, e2}
  Dispatchers = {d1, d2}
  Scoped = {}
  Priority = {}
  Kept = {}
  Retention = {}
  MaxDispatchAttempts = 2
  BatchSize = 2
  PriorityBudget = 1
  MaxFailedPerBatch = 1
  RetentionBatchSize = 1
  Replayed = {}
  MaxFaults = 0
INVARIANT FailedReportIsTrue
