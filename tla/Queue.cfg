SPECIFICATION FairSpec
CONSTANTS
  e1 = e1  t1 = t1  t2 = t2
  Events = {e1, e2}
  Workers = {w1, w2}
  Dispatchers = {w1}
  Targets = {t1, t2}
  NoTarget = NoTarget
  TargetOf <- MCTargetOf
  BatchSize <- MCBatchSize
  MaxAttempts <- MCMaxAttempts
  DefaultMaxAttempts = 2
  LateWorkers = FALSE
  MaxFaults = 1
  MaxSchemaChanges = 1
INVARIANTS OneHandler CopiesFresh AttemptsBounded
PROPERTIES Progresses EventsResolved
CHECK_DEADLOCK FALSE
