----------------------------- MODULE IdeaLoops ------------------------------
(***************************************************************************)
(* Pipelines with routes, loops and fan-out, run by GraphRunner: the       *)
(* quality-gate loop of the README, the loop shipped as                    *)
(* config/pipelines/idea_generation_loop.yaml, and a loop whose judge fans *)
(* out to two sinks ("Save + persist simultaneously").  What the modules   *)
(* emit is what idea_judge and idea_counter can answer.                    *)
(***************************************************************************)
EXTENDS PipelineDocs
-----------------------------------------------------------------------------
(* In every loop the generator has no timeout.                              *)
Timed == Nodes \ {"generate"}

ASSUME LoopKeysAssumption ==
  {"accept", "reject", "continue", "exit", "exhausted"} \subseteq RouteKeys

(* The verdicts of idea_judge (any score) and of idea_counter (any count).  *)
JudgeAnswers == Answers({"accept", "reject"})
CounterAnswers == Answers({"continue", "exit"})
LoopAnswers == [judge |-> JudgeAnswers, counter |-> CounterAnswers]

ReadmeLoop ==
  Document({"retrieve", "generate", "evaluate", "judge", "saver", "counter"},
           [ generate |-> {"retrieve"}, evaluate |-> {"generate"},
             judge |-> {"evaluate"}, saver |-> {"judge"},
             counter |-> {"judge", "saver"} ],
           <<>>,
           [ judge   |-> [accept |-> "saver", reject |-> "counter"],
             counter |-> [continue |-> "generate", exhausted |-> Null] ],
           LoopAnswers, Timed, MaxRounds)

ShippedLoop ==
  Document({"retrieve", "generate", "evaluate", "judge", "saver", "counter", "export"},
           [ generate |-> {"retrieve"}, evaluate |-> {"generate"},
             judge |-> {"evaluate"}, counter |-> {"judge"},
             export |-> {"counter"} ],
           [ generate |-> {"retrieve"}, evaluate |-> {"generate"},
             judge |-> {"evaluate"}, saver |-> {"judge"},
             counter |-> {"judge"}, export |-> {"counter"} ],
           [ judge   |-> [accept |-> "saver", reject |-> "counter"],
             saver   |-> [default |-> "counter"],
             counter |-> [continue |-> "retrieve", exit |-> "export"] ],
           LoopAnswers, Timed, MaxRounds)

(* A judge that sends every verdict to a saver and a counter at once, then  *)
(* leaves for the export or loops; two subprocesses at most, one retry.     *)
FanOutLoop ==
  [ Document({"generate", "judge", "saver", "counter", "export"},
             [ judge |-> {"generate"}, saver |-> {"judge"},
               counter |-> {"judge"}, export |-> {"judge"} ],
             <<>>,
             [judge |-> [ accept |-> "saver", reject |-> "counter",
                          continue |-> "generate", exit |-> "export" ]],
             [judge |-> { [route |-> r, multi |-> {"accept", "reject"}] :
                            r \in {"continue", "exit"} }],
             Timed, 5)
    EXCEPT !.retries = [n \in Nodes |-> 1], !.maxParallel = 2 ]

Loops == {ReadmeLoop, ShippedLoop, FanOutLoop}
ReadmeLoopOnly == {ReadmeLoop}
-----------------------------------------------------------------------------
(* idea_saver runs only on the accept verdict: "Accept/reject ideas" by     *)
(* conditional routing.                                                     *)
RejectedIdeaNotSaved == Active("saver") => route["judge"] = "accept"

(* One idea at a time: the runner carries a single token round the loop, so *)
(* each generated idea is evaluated, judged and counted exactly once before *)
(* the next is generated, whatever route the judge and the counter take and *)
(* wherever the run breaks off (routes of both idea loops).  In the shipped *)
(* loop a rejected idea is never saved.                                     *)
OneIdeaAtATime ==
  /\ graph = ShippedLoop => RejectedIdeaNotSaved
  /\ graph \in {ReadmeLoop, ShippedLoop}
       => /\ count["counter"] <= count["judge"]
          /\ count["judge"] <= count["evaluate"]
          /\ count["evaluate"] <= count["generate"]
          /\ count["generate"] <= count["counter"] + 1
=============================================================================
