SPECIFICATION Spec
CONSTANTS
  Nodes = {n1, n2}
  InProcess = TRUE
  Papers = 2
  MinInterval = 3
  Backoffs <- TenThirty
  Horizon = 30
  StopBound = 1
PROPERTY
  RefusalBacksOff
CHECK_DEADLOCK FALSE
