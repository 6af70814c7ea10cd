---------------------------- MODULE GraphRunner -----------------------------
(***************************************************************************)
(* GraphRunner of src/orchestrator/iteration/graph_runner.py: one call of  *)
(* run(graph).  The runner works in rounds.  A round executes a set of     *)
(* ready nodes (a level) concurrently, one coroutine per node; every       *)
(* attempt of a node is a fresh subprocess that answers over a fresh       *)
(* queue.  When every coroutine of the level has returned, the routes the  *)
(* nodes emitted and the depends_on lists decide the next ready set.       *)
(*                                                                         *)
(* Node outputs, scores and metadata are abstracted away: no decision of   *)
(* the runner reads them.                                                  *)
(***************************************************************************)
EXTENDS Integers, FiniteSets

CONSTANTS
  Nodes,      (* node ids                                                    *)
  RouteKeys,  (* keys of the nodes' routes tables, "default" among them      *)
  Graphs,     (* the graphs run() may be given: one of them is chosen        *)
  None,       (* no _route / no _routes in an answer, or none recorded yet   *)
  Null,       (* a route key mapped to null: the branch ends there           *)
  Unrouted    (* a route key absent from a node's routes table               *)

(* What a module's answer says about control flow: _route and _routes.      *)
Emissions == [route : RouteKeys \cup {None}, multi : (SUBSET RouteKeys) \cup {None}]

GraphType ==
  [ nodes       : SUBSET Nodes,              (* the ids that have a node     *)
    deps        : [Nodes -> SUBSET Nodes],   (* depends_on, unknown ids too  *)
    reads       : [Nodes -> SUBSET Nodes],   (* "output.X" in input_mapping  *)
    routes      : [Nodes -> [RouteKeys -> Nodes \cup {Null, Unrouted}]],
    emits       : [Nodes -> SUBSET Emissions],
    modules     : SUBSET Nodes,              (* nodes that name a module     *)
    timed       : SUBSET Nodes,              (* nodes with timeout > 0       *)
    retries     : [Nodes -> Nat],            (* retry["max_attempts"]        *)
    maxRounds   : Nat,
    maxParallel : Nat ]                      (* 0: no semaphore              *)

ASSUME RouteKeysAssumption == "default" \in RouteKeys /\ None \notin RouteKeys
ASSUME NodesAssumption == IsFiniteSet(Nodes) /\ {Null, Unrouted} \cap Nodes = {}
ASSUME GraphsAssumption == Graphs \subseteq GraphType

VARIABLES
  graph,      (* the argument of run(); never changes                        *)
  pc,         (* "loop": at the while test; "level": in _execute_level;      *)
              (* "done": run() has returned                                  *)
  round,      (* round_num                                                   *)
  ready,      (* the ready set of the current or next round                  *)
  completed,  (* ctx.completed_nodes                                         *)
  failed,     (* ctx.failed_nodes                                            *)
  count,      (* ctx.node_iteration_counts                                   *)
  route,      (* ctx.node_routes                                             *)
  multi,      (* ctx.node_multi_routes                                       *)
  task,       (* where the coroutine _run_node(n) of this level stands       *)
  attempt,    (* its loop variable attempt                                   *)
  child,      (* the subprocess of the current attempt                       *)
  permits     (* free permits of the level's semaphore                       *)

ctx == <<completed, failed, count, route, multi>>
vars == <<graph, pc, round, ready, ctx, task, attempt, child, permits>>

TaskStates == {"idle", "start", "wait", "exec", "backoff", "settled"}
ChildStates == {"none", "working", "ok", "error", "dead"}

Deps(n) == graph.deps[n]
(* Faulty variant: one completed dependency is enough.                      *)
DepsMetAny(n) == Deps(n) = {} \/ Deps(n) \cap completed # {}

DepsMet(n) == Deps(n) \subseteq completed
-----------------------------------------------------------------------------
(* Resolving which nodes come next.                                         *)

(* The first level of _topological_levels, the only one run() uses: nodes   *)
(* without an incoming depends_on or input_mapping edge from a known node.  *)
FirstLevel(g) == {n \in g.nodes : (g.deps[n] \cup g.reads[n]) \cap g.nodes = {}}

(* Faulty variants, kept to show that the properties notice them: a         *)
(* followed route does not suppress the dependents; only one dependent is   *)
(* notified.                                                                *)
SuccessorsAlsoDependents(n) ==
  LET table == graph.routes[n]
      chosen == route[n] # None /\ table[route[n]] # Unrouted
  IN  (IF chosen THEN {table[route[n]]} \cap graph.nodes
       ELSE IF table["default"] # Unrouted THEN {table["default"]} \cap graph.nodes
       ELSE {}) \cup {m \in graph.nodes : n \in Deps(m)}
SuccessorsOneDependent(n) ==
  LET table == graph.routes[n]
      chosen == route[n] # None /\ table[route[n]] # Unrouted
      dependents == {m \in graph.nodes : n \in Deps(m)}
  IN  IF chosen THEN {table[route[n]]} \cap graph.nodes
      ELSE IF table["default"] # Unrouted THEN {table["default"]} \cap graph.nodes
      ELSE IF dependents = {} THEN {} ELSE {CHOOSE m \in dependents : TRUE}

(* Where node n sends control once it has run: its recorded route if the    *)
(* routes table has it, else the default route, else every dependent.       *)
Successors(n) ==
  LET table == graph.routes[n]
      chosen == route[n] # None /\ table[route[n]] # Unrouted
  IN  IF chosen THEN {table[route[n]]} \cap graph.nodes
      ELSE IF table["default"] # Unrouted THEN {table["default"]} \cap graph.nodes
      ELSE {m \in graph.nodes : n \in Deps(m)}

(* The extra targets of a recorded _routes list.                            *)
FanOut(n) ==
  IF n \in completed /\ multi[n] # None
  THEN {graph.routes[n][k] : k \in multi[n]} \cap graph.nodes
  ELSE {}

(* Faulty variant: failed nodes are not removed.                            *)
CandidatesWithFailed ==
  (UNION {Successors(n) : n \in ready \ failed}) \cup (UNION {FanOut(n) : n \in ready})

Candidates ==
  ((UNION {Successors(n) : n \in ready \ failed}) \cup (UNION {FanOut(n) : n \in ready}))
    \ failed

(* A candidate that still waits for a dependency is replaced by those of    *)
(* its missing dependencies that can run now.                               *)
Pulled(n) == {d \in (Deps(n) \cap graph.nodes) \ (completed \cup failed) : DepsMet(d)}

NextReady ==
  {n \in Candidates : DepsMet(n)}
    \cup (UNION {Pulled(n) : n \in {c \in Candidates : ~DepsMet(c)}})

(* Faulty variant: any failure stops the run.                               *)
HasReachableNodesNever == FALSE

HasReachableNodes == \E n \in graph.nodes \ (failed \cup completed) : DepsMet(n)
-----------------------------------------------------------------------------
Init ==
  /\ graph \in Graphs
  /\ pc = "loop"
  /\ round = 0
  /\ ready = FirstLevel(graph)
  /\ completed = {}
  /\ failed = {}
  /\ count = [n \in Nodes |-> 0]
  /\ route = [n \in Nodes |-> None]
  /\ multi = [n \in Nodes |-> None]
  /\ task = [n \in Nodes |-> "idle"]
  /\ attempt = [n \in Nodes |-> 0]
  /\ child = [n \in Nodes |-> "none"]
  /\ permits = 0

(* One turn of the while loop begins: a coroutine per ready node, a fresh   *)
(* semaphore for the level.                                                 *)
BeginRound ==
  /\ pc = "loop"
  /\ ready # {}
  /\ round < graph.maxRounds
  /\ pc' = "level"
  /\ round' = round + 1
  /\ task' = [n \in Nodes |-> IF n \in ready THEN "start" ELSE "idle"]
  /\ attempt' = [n \in Nodes |-> 0]
  /\ permits' = graph.maxParallel
  /\ UNCHANGED <<graph, ready, ctx, child>>

(* Faulty variants: no dependency check; the module-less node is completed  *)
(* before the check.                                                        *)
BeginNodeUnchecked(n) ==
  /\ task[n] = "start"
  /\ task' = [task EXCEPT ![n] = "wait"]
  /\ UNCHANGED <<graph, pc, round, ready, ctx, attempt, child, permits>>
BeginNodeSkipFirst(n) ==
  /\ task[n] = "start"
  /\ IF n \notin graph.modules
     THEN /\ completed' = completed \cup {n}
          /\ task' = [task EXCEPT ![n] = "settled"]
     ELSE /\ DepsMet(n)
          /\ task' = [task EXCEPT ![n] = "wait"]
          /\ UNCHANGED completed
  /\ UNCHANGED <<graph, pc, round, ready, failed, count, route, multi, attempt, child, permits>>

(* _run_node up to its first attempt.                                       *)
BeginNode(n) ==
  /\ task[n] = "start"
  /\ \/ /\ ~DepsMet(n)
        /\ failed' = failed \cup {n}
        /\ task' = [task EXCEPT ![n] = "settled"]
        /\ UNCHANGED completed
     \/ /\ DepsMet(n)
        /\ n \notin graph.modules
        /\ completed' = completed \cup {n}
        /\ task' = [task EXCEPT ![n] = "settled"]
        /\ UNCHANGED failed
     \/ /\ DepsMet(n)
        /\ n \in graph.modules
        /\ task' = [task EXCEPT ![n] = "wait"]
        /\ UNCHANGED <<completed, failed>>
  /\ UNCHANGED <<graph, pc, round, ready, count, route, multi, attempt, child, permits>>

Bounded == graph.maxParallel > 0

(* An attempt takes a permit and starts its subprocess.                     *)
Dispatch(n) ==
  /\ task[n] = "wait"
  /\ Bounded => permits > 0
  /\ permits' = IF Bounded THEN permits - 1 ELSE permits
  /\ task' = [task EXCEPT ![n] = "exec"]
  /\ child' = [child EXCEPT ![n] = "working"]
  /\ UNCHANGED <<graph, pc, round, ready, ctx, attempt>>

(* The subprocess puts the module's answer or the exception it raised into  *)
(* the queue, or dies without a word: killed from outside, or its answer    *)
(* cannot be pickled by the queue's feeder thread.                          *)
ChildEnds(n) ==
  /\ child[n] = "working"
  /\ \E end \in {"ok", "error", "dead"} : child' = [child EXCEPT ![n] = end]
  /\ UNCHANGED <<graph, pc, round, ready, ctx, task, attempt, permits>>

(* Faulty variant: a failed attempt releases its permit twice, in except    *)
(* and in finally.                                                          *)
EndAttemptReleaseTwice(n, next) ==
  /\ task' = [task EXCEPT ![n] = next]
  /\ child' = [child EXCEPT ![n] = "none"]
  /\ permits' = IF ~Bounded THEN permits
                ELSE IF next = "backoff" THEN permits + 2 ELSE permits + 1

(* The permit of an attempt is given back however the attempt ended.        *)
EndAttempt(n, next) ==
  /\ task' = [task EXCEPT ![n] = next]
  /\ child' = [child EXCEPT ![n] = "none"]
  /\ permits' = IF Bounded THEN permits + 1 ELSE permits

(* _process_node_result: a route key or list replaces the recorded one only *)
(* when the answer carries one.                                             *)
CollectResult(n) ==
  /\ task[n] = "exec"
  /\ child[n] = "ok"
  /\ \E e \in graph.emits[n] :
       /\ route' = IF e.route = None THEN route ELSE [route EXCEPT ![n] = e.route]
       /\ multi' = IF e.multi = None THEN multi ELSE [multi EXCEPT ![n] = e.multi]
  /\ completed' = completed \cup {n}
  /\ count' = [count EXCEPT ![n] = @ + 1]
  /\ EndAttempt(n, "settled")
  /\ UNCHANGED <<graph, pc, round, ready, failed, attempt>>

(* Faulty variant: the timeout only notices a subprocess that is alive.     *)
AttemptFailedIfAlive(n) ==
  /\ task[n] = "exec"
  /\ \/ child[n] = "error"
     \/ n \in graph.timed /\ child[n] = "working"

(* The attempt has failed: the worker reported an error, or q.get timed out *)
(* while the subprocess had not answered (it is terminated if alive).       *)
AttemptFailed(n) ==
  /\ task[n] = "exec"
  /\ \/ child[n] = "error"
     \/ n \in graph.timed /\ child[n] \in {"working", "dead"}

Retry(n) ==
  /\ AttemptFailed(n)
  /\ attempt[n] < graph.retries[n]
  /\ attempt' = [attempt EXCEPT ![n] = @ + 1]
  /\ EndAttempt(n, "backoff")
  /\ UNCHANGED <<graph, pc, round, ready, ctx>>

GiveUp(n) ==
  /\ AttemptFailed(n)
  /\ attempt[n] >= graph.retries[n]
  /\ failed' = failed \cup {n}
  /\ EndAttempt(n, "settled")
  /\ UNCHANGED <<graph, pc, round, ready, completed, count, route, multi, attempt>>

(* _backoff_delay is over (at once for "none"): the next attempt queues up. *)
BackoffOver(n) ==
  /\ task[n] = "backoff"
  /\ task' = [task EXCEPT ![n] = "wait"]
  /\ UNCHANGED <<graph, pc, round, ready, ctx, attempt, child, permits>>

(* Faulty variant: a pending retry counts as settled.                       *)
LevelSettledBackoff == \A n \in ready : task[n] \in {"settled", "backoff"}

LevelSettled == \A n \in ready : task[n] = "settled"

(* gather() has returned: stop after failures that leave nothing reachable, *)
(* otherwise resolve the next ready set.                                    *)
EndRound ==
  /\ pc = "level"
  /\ LevelSettled
  /\ IF failed # {} /\ ~HasReachableNodes
     THEN pc' = "done" /\ UNCHANGED ready
     ELSE pc' = "loop" /\ ready' = NextReady
  /\ task' = [n \in Nodes |-> "idle"]
  /\ UNCHANGED <<graph, round, ctx, attempt, child, permits>>

(* The while test fails and run() returns.                                  *)
Finish ==
  /\ pc = "loop"
  /\ ready = {} \/ round >= graph.maxRounds
  /\ pc' = "done"
  /\ UNCHANGED <<graph, round, ready, ctx, task, attempt, child, permits>>

Step(n) ==
  \/ BeginNode(n)
  \/ Dispatch(n)
  \/ CollectResult(n)
  \/ Retry(n)
  \/ GiveUp(n)
  \/ BackoffOver(n)

Next ==
  \/ BeginRound
  \/ EndRound
  \/ Finish
  \/ \E n \in Nodes : Step(n) \/ ChildEnds(n)

(* asyncio runs every runnable coroutine and fires every timer.  Nothing    *)
(* makes a subprocess end: ChildEnds has no fairness.                       *)
Fairness ==
  /\ WF_vars(BeginRound)
  /\ WF_vars(EndRound)
  /\ WF_vars(Finish)
  /\ \A n \in Nodes : WF_vars(Step(n))

Spec == Init /\ [][Next]_vars /\ Fairness

(* run() reports success; an empty first level raises "Graph has no nodes". *)
Success == failed = {} /\ FirstLevel(graph) # {}
-----------------------------------------------------------------------------
(* Type invariant: every variable keeps to the values its Python            *)
(* counterpart can hold in run().                                           *)
TypeOK ==
  /\ graph \in GraphType
  /\ pc \in {"loop", "level", "done"}
  /\ round \in Nat
  /\ ready \subseteq Nodes
  /\ completed \subseteq Nodes
  /\ failed \subseteq Nodes
  /\ count \in [Nodes -> Nat]
  /\ route \in [Nodes -> RouteKeys \cup {None}]
  /\ multi \in [Nodes -> (SUBSET RouteKeys) \cup {None}]
  /\ task \in [Nodes -> TaskStates]
  /\ attempt \in [Nodes -> Nat]
  /\ child \in [Nodes -> ChildStates]
  /\ permits \in Nat

Active(n) == task[n] \in {"wait", "exec", "backoff"}

(* A node with an attempt under way has all its dependencies completed and  *)
(* no recorded failure, in whatever order routes, loops and pulled          *)
(* dependencies brought the runner there (_resolve_next_ready,              *)
(* _check_dependencies).                                                    *)
ActiveNodesMayRun == \A n \in Nodes : Active(n) => DepsMet(n) /\ n \notin failed

(* The completed set is causally closed: no node has ever completed ahead   *)
(* of a node it depends on.                                                 *)
CausallyClosed == \A n \in completed : Deps(n) \subseteq completed

(* The nodes of the level never occupy more than max_parallel subprocesses, *)
(* through every retry, error and timeout path of _run_node.                *)
MaxParallelRespected ==
  Bounded => Cardinality({n \in Nodes : child[n] # "none"}) <= graph.maxParallel

(* run() returns with no subprocess of its own left behind and no coroutine *)
(* unfinished.                                                              *)
NothingLeftBehind ==
  pc = "done" => \A n \in Nodes : task[n] = "idle" /\ child[n] = "none"

(* A graph in which routes play no part and every data dependency is also   *)
(* in depends_on, as the pipeline authoring guide asks.                     *)
PlainGraph ==
  \A n \in graph.nodes :
    /\ \A k \in RouteKeys : graph.routes[n][k] = Unrouted
    /\ graph.reads[n] \subseteq Deps(n)

(* A plain graph that was given rounds enough is covered: when run()        *)
(* returns, a node that neither completed nor failed is missing one of its  *)
(* dependencies.  No failure elsewhere and no order of completions makes    *)
(* the runner forget a node that could have run (_has_reachable_nodes and   *)
(* _resolve_next_ready agree).                                              *)
PlainGraphCovered ==
  pc = "done" /\ PlainGraph /\ graph.maxRounds >= Cardinality(graph.nodes)
    => \A n \in graph.nodes \ (completed \cup failed) : ~DepsMet(n)

(* Rounds are barriers: the next round, and the decision to stop, wait for  *)
(* every coroutine of the level, and the level's membership is fixed while  *)
(* it runs.                                                                 *)
RoundsAreBarriers ==
  [][ready' # ready \/ round' # round
       => \A n \in Nodes : task[n] \in {"idle", "settled"} /\ child[n] = "none"]_vars

(* The only way run() never returns is a node without a timeout whose       *)
(* subprocess never answers; retries, failures and loops always end.        *)
Outstanding(n) ==
  task[n] = "exec" /\ n \notin graph.timed /\ child[n] \in {"working", "dead"}
RunEndsOrWaitsForever ==
  <>(pc = "done") \/ \E n \in Nodes : <>[]Outstanding(n)
-----------------------------------------------------------------------------
(* The inductive invariant behind the safety properties.  Coroutines exist  *)
(* only inside a level and are those of the ready nodes; a subprocess       *)
(* exists exactly while its attempt is in flight; ready nodes have not      *)
(* failed; permits in the semaphore and permits in use add up.              *)
TasksAreOfLevel ==
  /\ pc # "level" => \A n \in Nodes : task[n] = "idle"
  /\ pc = "level" => \A n \in Nodes : task[n] # "idle" <=> n \in ready

ChildrenAreOfAttempts == \A n \in Nodes : child[n] # "none" <=> task[n] = "exec"

ReadyNotFailed ==
  /\ pc = "loop" => ready \cap failed = {}
  /\ \A n \in Nodes : task[n] = "start" => n \notin failed

Busy == {n \in Nodes : child[n] # "none"}

PermitsAddUp ==
  pc = "level" /\ Bounded => permits + Cardinality(Busy) = graph.maxParallel

IInv ==
  /\ TypeOK
  /\ TasksAreOfLevel
  /\ ChildrenAreOfAttempts
  /\ ReadyNotFailed
  /\ ActiveNodesMayRun
  /\ CausallyClosed
  /\ PermitsAddUp
-----------------------------------------------------------------------------
(* The runner implements the promise of TaskGraph.                          *)
Promise == INSTANCE TaskGraph WITH
  deps <- graph.deps,
  running <- {n \in Nodes : Active(n)}

ImplementsPromise == Promise!Spec
=============================================================================
