------------------------ MODULE IterationControllers ------------------------
(***************************************************************************)
(* The iteration controllers of adapters/iteration_controllers.py at work: *)
(* a loop  gen -> control -> (continue: gen | exit: eval)  run by          *)
(* GraphRunner, with the controller's answer computed from the inputs the  *)
(* runner really hands it (_resolve_inputs, _process_node_result).         *)
(*                                                                         *)
(* Scores are ranks that lie further apart than min_delta, so "better by   *)
(* min_delta" is ">".  0 is the default of a score that is not there.      *)
(***************************************************************************)
EXTENDS PipelineDocs

CONSTANTS
  Policies,   (* controllers and their params: one of them is chosen         *)
  TopScore    (* the scores are 0..TopScore                                  *)

Kinds == {"threshold", "patience", "improving", "llm", "judged", "multi"}

ASSUME PoliciesAssumption ==
  /\ TopScore \in Nat
  /\ Policies \subseteq [kind : Kinds, maxAttempts : Nat \ {0}, target : Nat, patience : Nat]

VARIABLES
  policy,     (* the controller and its params, None in any other graph      *)
  given,      (* the score in the latest output of gen, or None              *)
  nodeScore,  (* ctx.node_scores["gen"]: the latest score there was          *)
  lastSeen,   (* history: the score the controller saw last                  *)
  stalled     (* history: its decisions in a row on a score not improved     *)

loopVars == <<policy, given, nodeScore, lastSeen, stalled>>
allVars == <<vars, loopVars>>

ASSUME DecisionKeysAssumption == {"continue", "exit"} \subseteq RouteKeys

ControlledLoop ==
  [ Document({"gen", "control", "eval"},
             [control |-> {"gen"}, eval |-> {"control"}], <<>>,
             [control |-> [continue |-> "gen", exit |-> "eval"]],
             [control |-> Answers({"continue", "exit"})],
             Nodes, MaxRounds)
    EXCEPT !.retries = [n \in Nodes |-> IF n = "control" THEN 1 ELSE 0] ]

ControlledGraphs == {ControlledLoop}

(* Rounds enough for every budget: two per iteration, of which a controller *)
(* may allow one more than max_attempts, and one for eval.                  *)
RoundsSuffice == \A p \in Policies : MaxRounds >= 2 * (p.maxAttempts + 1) + 1
-----------------------------------------------------------------------------
(* What the controller is given.                                            *)

OrDefault(score) == IF score = None THEN 0 ELSE score

(* The multi-criteria controller reads the output itself; the others read   *)
(* _score, which the runner keeps when an output carries none.              *)
Seen == OrDefault(IF policy.kind = "multi" THEN given ELSE nodeScore)

(* Faulty variant: the count of executions is not handed over.              *)
AttemptForgotten == 1

(* _iteration_attempt is one less than the executions completed, and the    *)
(* controller adds one for this execution.                                  *)
Attempt == (IF count["control"] > 0 THEN count["control"] - 1 ELSE 0) + 1

(* The other _iteration_ values of a controller's answer are dropped with   *)
(* every key that starts with "_": it finds their defaults.                 *)
PrevScore == 0
NoImprove == 0

Spent == Attempt >= policy.maxAttempts
Met == Seen >= policy.target

(* execute() of each controller: may it answer exit (TRUE) or continue?     *)
(* Faulty variant first: a score equal to the target is not enough.         *)
ThresholdExitsAbove == {Seen > policy.target \/ Spent}

ThresholdExits == {Met \/ Spent}

PatienceExits ==
  LET improved == Seen > PrevScore
      noImprove == IF improved THEN 0 ELSE NoImprove + 1
  IN  {noImprove >= policy.patience \/ Spent}

ImprovingExits ==
  LET stillImproving == Seen > PrevScore
  IN  {~stillImproving \/ Spent}

(* Without a client the target decides.  An LLM judges as it likes, and     *)
(* when its call fails the target decides: every answer is possible.        *)
LLMExits ==
  IF Spent THEN {TRUE}
  ELSE IF policy.kind = "llm" THEN {Met}
  ELSE BOOLEAN

MultiCriteriaExits == {Met \/ Spent}

Exits ==
  CASE policy.kind = "threshold"        -> ThresholdExits
    [] policy.kind = "patience"         -> PatienceExits
    [] policy.kind = "improving"        -> ImprovingExits
    [] policy.kind \in {"llm", "judged"} -> LLMExits
    [] policy.kind = "multi"            -> MultiCriteriaExits
-----------------------------------------------------------------------------
LoopInit ==
  /\ Init
  /\ policy \in IF graph \in ControlledGraphs THEN Policies ELSE {None}
  /\ given = None /\ nodeScore = None
  /\ lastSeen = 0 /\ stalled = 0

(* gen has answered, with a score or without.                               *)
Scored ==
  /\ graph \in ControlledGraphs
  /\ CollectResult("gen")
  /\ given' \in (0..TopScore) \cup {None}
  /\ nodeScore' = IF given' = None THEN nodeScore ELSE given'
  /\ UNCHANGED <<policy, lastSeen, stalled>>

(* The controller has answered.                                             *)
Decided ==
  /\ graph \in ControlledGraphs
  /\ CollectResult("control")
  /\ (route'["control"] = "exit") \in Exits
  /\ lastSeen' = Seen
  /\ stalled' = IF Seen > lastSeen THEN 0 ELSE stalled + 1
  /\ UNCHANGED <<policy, given, nodeScore>>

(* Everything else the runner does: nothing is collected from gen or the    *)
(* controller.                                                              *)
Elsewhere ==
  /\ Next
  /\ graph \in ControlledGraphs => UNCHANGED <<count["gen"], count["control"]>>
  /\ UNCHANGED loopVars

LoopNext == Scored \/ Decided \/ Elsewhere

LoopSpec == LoopInit /\ [][LoopNext]_allVars /\ Fairness
-----------------------------------------------------------------------------
(* A controlled loop ends through its exit: whatever the scores, the judge  *)
(* and failed attempts of the controller, a run without failed nodes has    *)
(* handed over to eval; max_rounds never cuts it.                           *)
LoopLeavesThroughExit ==
  graph \in ControlledGraphs /\ pc = "done" /\ failed = {} => "eval" \in completed

(* "Continue iterating until score >= threshold or max attempts reached":   *)
(* gen is executed max_attempts times at most.                              *)
AttemptsWithinBudget ==
  graph \in ControlledGraphs => count["gen"] <= policy.maxAttempts

(* A controller that looks at the target decides by it: a result that meets *)
(* it is never iterated away - gen runs again only after a score below it   *)
(* was seen - and short of it the loop is given up only when max_attempts   *)
(* iterations are over.                                                     *)
TargetEndsTheLoop ==
  graph \in ControlledGraphs /\ policy.kind \in {"threshold", "multi", "llm"} =>
    /\ Active("gen") /\ count["control"] > 0 => lastSeen < policy.target
    /\ Active("eval") /\ lastSeen < policy.target
         => count["gen"] >= policy.maxAttempts

(* "exit after N rounds without improvement".                               *)
PatienceRunsOut ==
  /\ graph \in ControlledGraphs
  /\ policy.kind = "patience"
  /\ stalled > 0 /\ stalled >= policy.patience
    => route["control"] = "exit"
=============================================================================
