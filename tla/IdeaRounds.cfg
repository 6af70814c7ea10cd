SPECIFICATION Spec
CONSTANTS
  Lost = Lost
  TargetCount = 2
  MaxRounds = 3
  MaxRetries = 2
  RunBound = 3
  MishapBound = 3
INVARIANTS
  EvolvesFromWhatCameBefore
  RoundsAreMade
PROPERTY
  RunsFinish
CHECK_DEADLOCK FALSE
