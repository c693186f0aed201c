SPECIFICATION Spec
CONSTANTS
  Roots = {r1, r2}
  Nodes = {n1, n2}
  Gone = Gone
  None = None
  Batch = 2
SYMMETRY TriggersSymmetry

PROPERTIES Complete NoFalseAlarm SelectionFresh
