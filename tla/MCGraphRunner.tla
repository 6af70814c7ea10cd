--------------------------- MODULE MCGraphRunner ----------------------------
(***************************************************************************)
(* The runner on every graph this development writes down, one of them     *)
(* given to run(): the small graphs without routes, the idea loops,        *)
(* auto_idea_to_paper, and the loop of an iteration controller.  With the  *)
(* other graphs there is no controller and LoopSpec is the runner's Spec.  *)
(***************************************************************************)
EXTENDS SmallGraphs, IdeaLoops, PaperPipeline, MCIterationControllers

AllGraphs == PlainGraphs \cup Loops \cup PaperGraphs \cup ControlledGraphs
=============================================================================
