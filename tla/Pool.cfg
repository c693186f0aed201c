SPECIFICATION FairSpec
CONSTANTS
  Conns = {c1, c2, c3}
  Items = {i1, i2, i3}
  NoConn = NoConn
  MaxConnections = 2
  MaxConnecting = 2
  MaxIdle = 1
  RateLimitCount = 1
  MaxUses = 0
  HasMaxAge = TRUE
INVARIANTS Capacity PooledUsable NoLeak
PROPERTIES LendingSpec WaitersServed EndDrains
CHECK_DEADLOCK FALSE
