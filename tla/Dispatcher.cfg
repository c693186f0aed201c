SPECIFICATION FairSpec
CONSTANTS
  Events = {e1, e2}
  MaxRetries = 2
  MaxFaults = 1
  MayLose = TRUE
  MayEnd = TRUE
PROPERTIES Retried ErrorSurfaces EndSettles
CHECK_DEADLOCK FALSE
