SPECIFICATION WorkersFairSpec
CONSTANTS
  Boot = boot
  Reloads = {n1}
  Calls = {boot, n1, r1}
  Containers = {c1, c2, c3}
  Workers = {w1, w2}
  None = None
  Failure = Failure
  NoWorker = NoWorker
  MaxVersion = 2
INVARIANT NoneForgotten
PROPERTIES CallsSettle ReloadRestores RunSettles
CHECK_DEADLOCK FALSE
