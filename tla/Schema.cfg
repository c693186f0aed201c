SPECIFICATION SchemaSpec
SYMMETRY Symmetry
CONSTANTS
  Calls = {m1, m2}
  NoCall = NoCall
  Inputs <- MCInputs
  Debug = TRUE
  MaxAlters = 1
  Readers = {r1, r2}
  Stages = {live}
  NoStage = NoStage
INVARIANTS ReplayMatches FailedLeavesNothing
PROPERTIES BaseFresh StageFresh
CHECK_DEADLOCK FALSE
