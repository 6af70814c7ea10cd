SPECIFICATION Spec
CONSTANTS
  Nodes = {n1, n2}
  InProcess = TRUE
  Papers = 2
  MinInterval = 3
  Backoffs <- TenThirty
  Horizon = 3
  StopBound = 1
PROPERTIES
  GapKept
  EveryDownloadEnds
CHECK_DEADLOCK FALSE
