SPECIFICATION Spec
CONSTANTS
  None = None
  Null = Null
  Unrouted = Unrouted
  Nodes = {"retrieve", "generate", "evaluate", "judge", "saver", "counter", "export"}
  RouteKeys = {"default", "accept", "reject", "continue", "exit", "exhausted"}
  Graphs <- ReadmeLoopOnly
  MaxRounds = 14
INVARIANT RejectedIdeaNotSaved
CHECK_DEADLOCK FALSE
