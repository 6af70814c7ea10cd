SPECIFICATION LoopSpec
CONSTANTS
  None = None
  Null = Null
  Unrouted = Unrouted
  Nodes = {"retrieve", "generate", "evaluate", "judge", "saver", "counter", "export",
           "paper_retriever", "paper_summary", "accumulate", "idea_evolution",
           "round_control", "idea_scoring", "best_selector", "experiment_plan",
           "experiment_exec", "experiment_gate", "experiment_report", "chart_gen",
           "paper_draft", "paper_output", "persist_summary", "persist_idea",
           "persist_scoring", "persist_exp_plan", "persist_exp_result",
           "persist_exp_report", "persist_paper", "gen", "control", "eval"}
  RouteKeys = {"default", "accept", "reject", "continue", "exit", "exhausted",
               "need_more", "ready", "retry", "pass", "skip"}
  Graphs <- AllGraphs
  MaxRounds = 21
  a = "retrieve"
  b = "generate"
  c = "evaluate"
  d = "judge"
  Policies <- SomePolicies
  TopScore = 2
INVARIANTS
  CausallyClosed
  PlainGraphCovered
  OneIdeaAtATime
  SuccessMeansPaper
  PaperAfterExperiment
  PlainTapsKeepUp
  ActiveNodesMayRun
  MaxParallelRespected
  LoopLeavesThroughExit
  TargetEndsTheLoop
PROPERTIES
  ImplementsPromise
  RoundsAreBarriers
  RunEndsOrWaitsForever
CHECK_DEADLOCK FALSE
