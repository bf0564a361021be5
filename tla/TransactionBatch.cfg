SPECIFICATION Spec
CONSTANTS
  Tx = {x1, x2}
  Client = {c1, c2}
  Worker = {w1, w2}
  Result = {"terRETRY", "temMALFORMED"}
  MaxSubmits = 3
INVARIANTS
  ApplyingOnce
  NothingStranded
PROPERTIES
  ReturnsWithResult
  EverySubmissionEnds
CHECK_DEADLOCK FALSE
