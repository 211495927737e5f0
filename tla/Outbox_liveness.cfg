SPECIFICATION FairSpec
CONSTANTS
  NoEvent = NoEvent
  Events = {e1, e2}
  Dispatchers = {d1, d2}
  Scoped = {d1}
  Priority = {e1}
  Kept = {}
  Retention = {"PUBLISHED"}
  MaxDispatchAttempts = 2
  BatchSize = 1
  PriorityBudget = 1
  MaxFailedPerBatch = 1
  RetentionBatchSize = 1
  Replayed = {}
  MaxFaults = 1
INVARIANT BatchBounded
PROPERTY EventsSettle
