SPECIFICATION Spec
CONSTANTS
  Nodes = {n1, n2}
  InProcess = FALSE
  Papers = 2
  MinInterval = 3
  Backoffs <- TenThirty
  Horizon = 3
  StopBound = 1
PROPERTY
  GapKept
CHECK_DEADLOCK FALSE
