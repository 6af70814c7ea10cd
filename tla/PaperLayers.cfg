SPECIFICATION Spec
CONSTANTS
  N = 2
  Untitled = {2}
  CrashBound = 1
CHECK_DEADLOCK FALSE
INVARIANTS
  NothingSkipsALayer
  MovedMeansMarked
  CrashLosesOneInHand
PROPERTIES
  PersistedOnce
  MarkedIsPersisted
