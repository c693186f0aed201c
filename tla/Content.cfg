SPECIFICATION Spec
CONSTANTS
  a1 = a1
  a2 = a2
  a3 = a3
  b1 = b1
  b2 = b2
  b3 = b3
  Owners = {a1, a2, a3}
  Inverses = {b1, b2, b3}
  None = None
  Gone = Gone
  Batch = 2
SYMMETRY Symmetry
PROPERTIES Exact OrphansRemoved RequiredKept NoSpuriousError
