SPECIFICATION FairSpec
CONSTANTS
  Instances = {i1, i2, i3}
  NoInstance = NoInstance
  Closing = {i1, i2}
  Max = 4
  StartupMax = 3
  MinBackoff = 2
  MaxBackoff = 9
INVARIANT RestartsBounded
PROPERTIES BacksOff Recovers EndStops
CHECK_DEADLOCK FALSE
