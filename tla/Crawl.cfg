SPECIFICATION Spec
CONSTANTS
  Papers = {p1, p2, p3}
  NoUrl = {p3}
  MaxConcurrent = 2
  MaxRetries = 2
  RunBound = 3
  CrashBound = 2
  FaultBound = 1
INVARIANTS
  CrashStrandsFew
  SuccessHasPdf
  RequestsBounded
CHECK_DEADLOCK FALSE
