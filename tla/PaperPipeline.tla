--------------------------- MODULE PaperPipeline ----------------------------
(***************************************************************************)
(* The pipeline shipped as config/pipelines/auto_idea_to_paper.yaml, run   *)
(* by GraphRunner: two nested idea loops, the experiment gate's retry      *)
(* loop, paper writing, and the incremental persistence taps.              *)
(***************************************************************************)
EXTENDS PipelineDocs

DependsOn ==
  [ paper_summary      |-> {"paper_retriever"},
    accumulate         |-> {"paper_summary"},
    idea_evolution     |-> {"accumulate"},
    round_control      |-> {"idea_evolution"},
    idea_scoring       |-> {"round_control"},
    best_selector      |-> {"idea_scoring"},
    experiment_plan    |-> {"best_selector"},
    experiment_exec    |-> {"experiment_plan"},
    experiment_gate    |-> {"experiment_exec"},
    experiment_report  |-> {"experiment_gate"},
    chart_gen          |-> {"experiment_report"},
    paper_draft        |-> {"experiment_report", "chart_gen", "best_selector"},
    paper_output       |-> {"paper_draft", "chart_gen"},
    persist_summary    |-> {"paper_summary"},
    persist_idea       |-> {"idea_evolution"},
    persist_scoring    |-> {"idea_scoring"},
    persist_exp_plan   |-> {"experiment_plan"},
    persist_exp_result |-> {"experiment_gate"},
    persist_exp_report |-> {"experiment_report"},
    persist_paper      |-> {"paper_draft"} ]

(* Faulty variant: the outer loop's exit is wired nowhere.                  *)
RoutesExitUnwired ==
  [ accumulate      |-> [need_more |-> "paper_retriever", ready |-> "idea_evolution"],
    round_control   |-> [continue |-> "paper_retriever", exit |-> Null],
    experiment_gate |-> [ retry |-> "experiment_exec", pass |-> "experiment_report",
                          skip |-> "experiment_report" ] ]

Routes ==
  [ accumulate      |-> [need_more |-> "paper_retriever", ready |-> "idea_evolution"],
    round_control   |-> [continue |-> "paper_retriever", exit |-> "idea_scoring"],
    experiment_gate |-> [ retry |-> "experiment_exec", pass |-> "experiment_report",
                          skip |-> "experiment_report" ] ]

ASSUME PaperKeysAssumption ==
  {"need_more", "ready", "continue", "exit", "retry", "pass", "skip"} \subseteq RouteKeys

(* input_mapping edges that are not depends_on edges as well.               *)
Reads ==
  [ experiment_report  |-> {"experiment_exec", "best_selector"},
    chart_gen          |-> {"experiment_exec"},
    paper_output       |-> {"best_selector"},
    persist_exp_result |-> {"experiment_exec"} ]

AutoIdeaToPaper ==
  Document({"paper_retriever"} \cup DOMAIN DependsOn, DependsOn, Reads, Routes,
           [n \in DOMAIN Routes |-> Answers(DOMAIN Routes[n])], {}, MaxRounds)

PaperGraphs == {AutoIdeaToPaper}
-----------------------------------------------------------------------------
(* No dead end: a run that reports success without being cut off by         *)
(* max_rounds has written the paper, whatever the three routing nodes       *)
(* answered on the way.                                                     *)
SuccessMeansPaper ==
  graph \in PaperGraphs /\ pc = "done" /\ Success /\ round < MaxRounds
    => "paper_output" \in completed

(* The paper is assembled once, from the draft of this run, after the last  *)
(* execution of the experiment and of the gate.                             *)
PaperAfterExperiment ==
  graph \in PaperGraphs /\ Active("paper_output")
    => /\ count["paper_draft"] = 1 /\ count["paper_output"] = 0
       /\ count["experiment_exec"] = count["experiment_gate"]
       /\ route["experiment_gate"] # "retry"

(* The tapped node of a persistence tap.                                    *)
Taps == {"persist_summary", "persist_idea", "persist_scoring", "persist_exp_plan",
         "persist_exp_result", "persist_exp_report", "persist_paper"}
Tapped(t) == CHOOSE n \in DependsOn[t] : TRUE

(* No result of a tapped node is lost or written twice: between rounds a    *)
(* tap has run as often as its node, or has it still to do in the next      *)
(* round.                                                                   *)
TapKeepsUp(t) ==
  graph \in PaperGraphs /\ pc \in {"loop", "done"} /\ failed = {} /\ round < MaxRounds
    => count[Tapped(t)] = count[t] + (IF t \in ready /\ pc = "loop" THEN 1 ELSE 0)

(* Taps on nodes without routes keep up.                                    *)
PlainTapsKeepUp == \A t \in Taps : Tapped(t) \notin DOMAIN Routes => TapKeepsUp(t)

(* The README's promise for every tap: they "can be wired onto any node".   *)
TapsKeepUp == \A t \in Taps : TapKeepsUp(t)
=============================================================================
