SPECIFICATION Spec
CONSTANTS
  NoEvent = NoEvent
  Events = {e1, e2}
  Dispatchers = {d1, d2}
  Scoped = {d1}
  Priority = {e1}
  Kept = {e2}
  Retention = {"PUBLISHED", "INVALID"}
  MaxDispatchAttempts = 2
  BatchSize = 2
  PriorityBudget = 1
  MaxFailedPerBatch = 1
  RetentionBatchSize = 1
  Replayed = {e1}
  MaxFaults = 1
INVARIANTS TypeOK ReportsAreTrue AttemptsBudget SingleOwner
PROPERTY ImplementsLifecycle
