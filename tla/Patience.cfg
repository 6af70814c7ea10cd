SPECIFICATION LoopSpec
CONSTANTS
  None = None
  Null = Null
  Unrouted = Unrouted
  Nodes = {"gen", "control", "eval"}
  RouteKeys = {"default", "continue", "exit"}
  Graphs <- ControlledGraphs
  Policies <- PatientPolicies
  TopScore = 2
  MaxRounds = 9
INVARIANT PatienceRunsOut
CHECK_DEADLOCK FALSE
