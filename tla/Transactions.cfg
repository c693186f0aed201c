SPECIFICATION FairSpec
CONSTANTS
  Root = root
  Savepoints = {p1, p2}
  Stmts = {s1, s2, s3}
  NoNode = NoNode
INVARIANTS RejectedLeavesNothing ResolvedLeavesAll SavepointsExclusive
PROPERTIES Settles
CHECK_DEADLOCK FALSE
