SPECIFICATION Spec
CONSTANTS
  Tasks = {t1, t2, t3, t4}
  CancelBound = 2
INVARIANTS Exclusion SleepersAreOwedACall
PROPERTIES WritersAreNotStarved
CHECK_DEADLOCK FALSE
