----------------------------- MODULE IdeaRounds -----------------------------
(***************************************************************************)
(* The loops of auto_idea_to_paper.yaml and the three state files their    *)
(* gates keep: summary_accumulator, round_controller and                   *)
(* experiment_success_gate count in a file, not in the run, and the run    *)
(* can die or be started again at any point.                               *)
(*                                                                         *)
(* Ideas are numbered; 0 is no ideas.  A summary is counted, its text is   *)
(* left out (the list of summaries is as long as current_count).  A save   *)
(* truncates the file, then writes it; its errors are logged and ignored.  *)
(* That GraphRunner follows the routes is PaperPipeline's subject; its cap *)
(* of 300 rounds is left out.                                              *)
(***************************************************************************)
EXTENDS Naturals

CONSTANTS
  Lost,         (* a file that is missing or is not JSON                     *)
  TargetCount,  (* accumulate: summaries merged into one idea round          *)
  MaxRounds,    (* round_control: idea rounds before the scoring             *)
  MaxRetries,   (* experiment_gate: failed experiments before it gives up    *)
  RunBound,     (* bound: runs of the pipeline                               *)
  MishapBound   (* bound: crashes and failed saves                           *)

ASSUME RoundsAssumption ==
  /\ {TargetCount, MaxRounds, MaxRetries} \subseteq Nat \ {0}
  /\ {RunBound, MishapBound} \subseteq Nat

(* What was saved does not read as a file that is lost.                     *)
ASSUME LostAssumption == Lost \notin [count : Nat, previous : Nat]

VARIABLES
  files,    (* accumulator_state, round_state and experiment_gate_state      *)
  at,       (* the node the run is at, or "saving", or "idle" between runs   *)
  hand,     (* the last save: its file, the state, and where it goes on      *)
  merged,   (* summaries merged for the idea round under way                 *)
  ideas,    (* output.idea_evolution.ideas                                   *)
  rounds,   (* history: idea rounds made, in all runs                        *)
  spent,    (* history: those made when the last paper came out              *)
  settled,  (* history: the last round's ideas were handed to the            *)
            (* accumulator, and no crash or error has hit its file since     *)
  runs,     (* runs started                                                  *)
  mishaps   (* crashes and failed saves so far                               *)

vars == <<files, at, hand, merged, ideas, rounds, spent, settled, runs, mishaps>>

Fresh == [ accumulator |-> [count |-> 0, previous |-> 0],
           round |-> [number |-> 0],
           gate |-> [tries |-> 0] ]

(* _load_state of each gate.                                                *)
Load(f) == IF files[f] = Lost THEN Fresh[f] ELSE files[f]

Init ==
  /\ files = [f \in DOMAIN Fresh |-> Lost]
  /\ at = "idle" /\ hand = [file |-> "gate", state |-> Fresh.gate, next |-> "idle"]
  /\ merged = 0 /\ ideas = 0 /\ rounds = 0 /\ spent = 0 /\ settled = TRUE
  /\ runs = 0 /\ mishaps = 0
-----------------------------------------------------------------------------
Mishap == mishaps < MishapBound /\ mishaps' = mishaps + 1

(* _save_state up to the truncation; or the file cannot be opened, and the  *)
(* node answers all the same.                                               *)
Save(f, state, next) ==
  /\ hand' = [file |-> f, state |-> state, next |-> next]
  /\ \/ /\ files' = [files EXCEPT ![f] = Lost]
        /\ at' = "saving" /\ settled' = (settled \/ at = "sync")
        /\ UNCHANGED mishaps
     \/ /\ Mishap
        /\ at' = next /\ settled' = (settled /\ f # "accumulator")
        /\ UNCHANGED files

(* The rest of the save: the state, or an error half-way.                   *)
Saved ==
  /\ at = "saving"
  /\ at' = hand.next
  /\ \/ /\ files' = [files EXCEPT ![hand.file] = hand.state]
        /\ UNCHANGED <<settled, mishaps>>
     \/ /\ Mishap
        /\ settled' = (settled /\ hand.file # "accumulator")
        /\ UNCHANGED files
  /\ UNCHANGED <<hand, merged, ideas, rounds, spent, runs>>

Start ==
  /\ at = "idle" /\ runs < RunBound
  /\ at' = "accumulate" /\ runs' = runs + 1
  /\ UNCHANGED <<files, hand, merged, ideas, rounds, spent, settled, mishaps>>

(* The process dies, or a node fails and the runner stops.                  *)
Crash ==
  /\ at # "idle" /\ Mishap
  /\ at' = "idle"
  /\ settled' = (settled /\ ~(at = "saving" /\ hand.file = "accumulator"))
  /\ UNCHANGED <<files, hand, merged, ideas, rounds, spent, runs>>
-----------------------------------------------------------------------------
(* summary_accumulator, the first save: a paper was summarised, or the      *)
(* agent answered with no summary.                                          *)
Accumulate(summaries) ==
  /\ at = "accumulate"
  /\ LET count == Load("accumulator").count + summaries
     IN  Save("accumulator", [Load("accumulator") EXCEPT !.count = count],
              IF count < TargetCount THEN "accumulate" ELSE "full")
  /\ UNCHANGED <<merged, ideas, rounds, spent, runs>>

(* ... and the second: the summaries are merged and the count starts again. *)
Drain ==
  /\ at = "full"
  /\ merged' = hand.state.count
  /\ Save("accumulator", [hand.state EXCEPT !.count = 0], "evolve")
  /\ UNCHANGED <<ideas, rounds, spent, runs>>

(* idea_evolution, from the summaries and hand.state.previous; it may find  *)
(* no idea.                                                                 *)
Evolve ==
  /\ at = "evolve"
  /\ ideas' \in {0, rounds + 1}
  /\ at' = "count" /\ settled' = FALSE
  /\ UNCHANGED <<files, hand, merged, rounds, spent, runs, mishaps>>

(* round_controller counts the round, ...                                   *)
CountRound ==
  /\ at = "count"
  /\ rounds' = rounds + 1
  /\ Save("round", [number |-> Load("round").number + 1], "sync")
  /\ UNCHANGED <<merged, ideas, spent, runs>>

(* Faulty variant: starts the count again, and keeps the ideas that were    *)
(* there.                                                                   *)
SyncForgets ==
  /\ at = "sync"
  /\ Save("accumulator", [Load("accumulator") EXCEPT !.count = 0],
          IF hand.state.number >= MaxRounds THEN "experiment" ELSE "accumulate")
  /\ UNCHANGED <<merged, ideas, rounds, spent, runs>>

(* Faulty variant: leaves with the last round still to make.                *)
SyncEarly ==
  /\ at = "sync"
  /\ Save("accumulator", [count |-> 0, previous |-> ideas],
          IF hand.state.number + 1 >= MaxRounds THEN "experiment" ELSE "accumulate")
  /\ UNCHANGED <<merged, ideas, rounds, spent, runs>>

(* ... hands its ideas to the accumulator, and goes round or on.            *)
Sync ==
  /\ at = "sync"
  /\ Save("accumulator", [count |-> 0, previous |-> ideas],
          IF hand.state.number >= MaxRounds THEN "experiment" ELSE "accumulate")
  /\ UNCHANGED <<merged, ideas, rounds, spent, runs>>

(* Faulty variant: a retry is not counted in the file.                      *)
ExperimentUncounted(success) ==
  /\ at = "experiment"
  /\ LET tries == Load("gate").tries + 1
         again == ~success /\ tries < MaxRetries
     IN  Save("gate", [tries |-> IF again THEN Load("gate").tries ELSE 0],
              IF again THEN "experiment" ELSE "report")
  /\ UNCHANGED <<merged, ideas, rounds, spent, runs>>

(* Scoring, plan, experiment, and experiment_success_gate: pass, retry, or  *)
(* skip after too many.                                                     *)
Experiment(success) ==
  /\ at = "experiment"
  /\ LET tries == Load("gate").tries + 1
         again == ~success /\ tries < MaxRetries
     IN  Save("gate", [tries |-> IF again THEN tries ELSE 0],
              IF again THEN "experiment" ELSE "report")
  /\ UNCHANGED <<merged, ideas, rounds, spent, runs>>

(* The report and the paper.                                                *)
Report ==
  /\ at = "report"
  /\ at' = "idle" /\ spent' = rounds
  /\ UNCHANGED <<files, hand, merged, ideas, rounds, settled, runs, mishaps>>

Step ==
  \/ Accumulate(0) \/ Accumulate(1) \/ Drain \/ Evolve
  \/ CountRound \/ Sync
  \/ \E success \in BOOLEAN : Experiment(success)
  \/ Report \/ Saved

Next == Start \/ Crash \/ Step

(* The runner keeps going; an agent asked again and again summarises a      *)
(* paper some time.  The experiment need never succeed.                     *)
Spec ==
  /\ Init /\ [][Next]_vars
  /\ WF_vars(Step) /\ SF_vars(Accumulate(1))
-----------------------------------------------------------------------------
(* Every evolution is given a full merge, with no more papers than the      *)
(* target but for one kept by each crash or failed save, and the ideas of   *)
(* the round before it, in this run or an earlier one: the two nodes that   *)
(* write the accumulator's file, some of it twice for one answer, never     *)
(* undo each other's part (summary_accumulator.py, round_controller.py).    *)
EvolvesFromWhatCameBefore ==
  at = "evolve" =>
    /\ merged \in TargetCount .. TargetCount + mishaps
    /\ settled => hand.state.previous = ideas

(* Until a paper has come out, the scoring starts only after MaxRounds      *)
(* rounds, of this run and of those that died on the way: whatever is lost, *)
(* nothing counts a round that was not made.  Every later paper has a round *)
(* of its own at least.                                                     *)
RoundsAreMade ==
  at \in {"experiment", "report"} =>
    /\ spent = 0 => rounds >= MaxRounds
    /\ rounds > spent

(* "10 rounds x 3 papers": each paper comes out of MaxRounds rounds.        *)
EachPaperHasItsRounds ==
  at \in {"experiment", "report"} => rounds - spent >= MaxRounds

(* A run, whatever an earlier one left in the files, comes to its paper or  *)
(* dies: no count it finds keeps it in a loop for ever.                     *)
RunsFinish == at # "idle" ~> at = "idle"
=============================================================================
