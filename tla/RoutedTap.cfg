SPECIFICATION Spec
CONSTANTS
  None = None
  Null = Null
  Unrouted = Unrouted
  Nodes = {"paper_retriever", "paper_summary", "accumulate", "idea_evolution",
           "round_control", "idea_scoring", "best_selector", "experiment_plan",
           "experiment_exec", "experiment_gate", "experiment_report", "chart_gen",
           "paper_draft", "paper_output", "persist_summary", "persist_idea",
           "persist_scoring", "persist_exp_plan", "persist_exp_result",
           "persist_exp_report", "persist_paper"}
  RouteKeys = {"default", "need_more", "ready", "continue", "exit", "retry", "pass", "skip"}
  Graphs <- PaperGraphs
  MaxRounds = 21
INVARIANT TapsKeepUp
CHECK_DEADLOCK FALSE
