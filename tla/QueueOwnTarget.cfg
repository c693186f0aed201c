SPECIFICATION Spec
CONSTANTS
  e1 = e1  t1 = t1  t2 = t2
  Events = {e1, e2}
  Workers = {w1}
  Dispatchers = {w1}
  Targets = {t1, t2}
  NoTarget = NoTarget
  TargetOf <- MCTargetOf
  BatchSize <- MCBatchSize
  MaxAttempts <- MCMaxAttempts
  DefaultMaxAttempts = 2
  LateWorkers = TRUE
  MaxFaults = 0
  MaxSchemaChanges = 0
INVARIANT SentToOwnTarget
CHECK_DEADLOCK FALSE
