SPECIFICATION ContainersSpec
CONSTANTS
  Calls = {r1, r2, r3}
  Containers = {c1, c2, c3}
  None = None
  Failure = Failure
  MaxVersion = 2
SYMMETRY ContainersSymmetry
INVARIANTS StoreHoldsLive ServedFresh AbsentJustified
CHECK_DEADLOCK FALSE
