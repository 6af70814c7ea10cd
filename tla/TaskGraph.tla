----------------------------- MODULE TaskGraph ------------------------------
(***************************************************************************)
(* What the graph runner promises to the author of a pipeline, without     *)
(* rounds, semaphores, retries or subprocesses: a node runs only when the  *)
(* nodes it depends on have completed, a node whose failure is recorded    *)
(* never runs again, and what is recorded stays recorded.  A completed     *)
(* node may run again: routes may lead back to it.                         *)
(***************************************************************************)

CONSTANT Nodes

VARIABLES
  deps,       (* depends_on of every node; fixed by the graph document       *)
  running,    (* nodes with an attempt under way or a retry pending          *)
  completed,  (* nodes that have completed at least once                     *)
  failed      (* nodes whose failure is final                                *)

vars == <<deps, running, completed, failed>>

Init ==
  /\ running = {}
  /\ completed = {}
  /\ failed = {}

MayRun(n) == n \notin running \cup failed /\ deps[n] \subseteq completed

Start(n) ==
  /\ MayRun(n)
  /\ running' = running \cup {n}
  /\ UNCHANGED <<deps, completed, failed>>

(* A node without a module has nothing to run: it completes at once.        *)
Skip(n) ==
  /\ MayRun(n)
  /\ completed' = completed \cup {n}
  /\ UNCHANGED <<deps, running, failed>>

(* A node that is asked to run before its dependencies is failed instead.   *)
Reject(n) ==
  /\ n \notin running \cup failed
  /\ ~(deps[n] \subseteq completed)
  /\ failed' = failed \cup {n}
  /\ UNCHANGED <<deps, running, completed>>

Succeed(n) ==
  /\ n \in running
  /\ running' = running \ {n}
  /\ completed' = completed \cup {n}
  /\ UNCHANGED <<deps, failed>>

Fail(n) ==
  /\ n \in running
  /\ running' = running \ {n}
  /\ failed' = failed \cup {n}
  /\ UNCHANGED <<deps, completed>>

Next == \E n \in Nodes : Start(n) \/ Skip(n) \/ Reject(n) \/ Succeed(n) \/ Fail(n)

Spec == Init /\ [][Next]_vars
=============================================================================
