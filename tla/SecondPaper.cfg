SPECIFICATION Spec
CONSTANTS
  Lost = Lost
  TargetCount = 2
  MaxRounds = 3
  MaxRetries = 2
  RunBound = 3
  MishapBound = 0
INVARIANTS
  EachPaperHasItsRounds
CHECK_DEADLOCK FALSE
