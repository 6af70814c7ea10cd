SPECIFICATION Spec
CONSTANTS
  Papers = {p1, p2, p3}
  NoUrl = {p3}
  MaxConcurrent = 2
  MaxRetries = 2
  RunBound = 3
  CrashBound = 2
  FaultBound = 1
INVARIANT
  SkippedMeansDone
CHECK_DEADLOCK FALSE
