------------------------- MODULE GraphRunnerProofs --------------------------
(***************************************************************************)
(* Proofs about GraphRunner, for every set of nodes and route keys and     *)
(* every set of graphs; then, by the same lemmas, about the documents it   *)
(* runs: the idea loops, the controlled loop and the paper pipeline, for   *)
(* every max_rounds.                                                       *)
(***************************************************************************)
EXTENDS IdeaLoops, PaperPipeline, IterationControllers, FiniteSetTheorems, TLAPS

(* The fields of a graph, as the proofs use them.                           *)
LEMMA GraphFields ==
  ASSUME graph \in GraphType
  PROVE  /\ graph.nodes \subseteq Nodes
         /\ graph.maxParallel \in Nat
         /\ graph.maxRounds \in Nat
         /\ \A n \in Nodes : graph.emits[n] \subseteq Emissions
         /\ \A n \in Nodes : graph.deps[n] \subseteq Nodes
  BY DEF GraphType

(* A recorded answer carries a route key or none, a key list or none.       *)
LEMMA EmissionFields ==
  ASSUME NEW e \in Emissions
  PROVE  /\ e.route \in RouteKeys \cup {None}
         /\ e.multi \in (SUBSET RouteKeys) \cup {None}
  BY DEF Emissions

(* Whatever the routes say, only nodes of the graph become ready, none of   *)
(* them failed and all of them with their dependencies completed.           *)
LEMMA NextReadyFacts ==
  ASSUME TypeOK
  PROVE  /\ NextReady \subseteq Nodes
         /\ NextReady \cap failed = {}
         /\ \A n \in NextReady : DepsMet(n)
  <1>1. graph.nodes \subseteq Nodes
    BY GraphFields DEF TypeOK
  <1>2. \A n : Successors(n) \subseteq graph.nodes
    BY Zenon DEF Successors
  <1>3. \A n : FanOut(n) \subseteq graph.nodes
    BY Zenon DEF FanOut
  <1>4. Candidates \subseteq graph.nodes /\ Candidates \cap failed = {}
    BY <1>2, <1>3, Zenon DEF Candidates
  <1>5. \A n : Pulled(n) \subseteq graph.nodes \ failed /\ \A d \in Pulled(n) : DepsMet(d)
    BY DEF Pulled
  <1> QED
    BY <1>1, <1>4, <1>5 DEF NextReady
-----------------------------------------------------------------------------
(* No step of the runner takes a variable out of its range.                 *)
LEMMA TypeKept == TypeOK /\ [Next]_vars => TypeOK'
  <1> SUFFICES ASSUME TypeOK, [Next]_vars
               PROVE  TypeOK'
    OBVIOUS
  <1> USE DEF TypeOK, ctx, TaskStates, ChildStates
  <1>1. CASE BeginRound
    BY <1>1, GraphFields DEF BeginRound
  <1>2. CASE EndRound
    BY <1>2, NextReadyFacts DEF EndRound
  <1>3. CASE Finish
    BY <1>3 DEF Finish
  <1>4. ASSUME NEW n \in Nodes, BeginNode(n)
        PROVE  TypeOK'
    BY <1>4 DEF BeginNode
  <1>5. ASSUME NEW n \in Nodes, Dispatch(n)
        PROVE  TypeOK'
    BY <1>5, GraphFields DEF Dispatch, Bounded
  <1>6. ASSUME NEW n \in Nodes, CollectResult(n)
        PROVE  TypeOK'
    <2>1. PICK e \in graph.emits[n] :
            /\ route' = IF e.route = None THEN route ELSE [route EXCEPT ![n] = e.route]
            /\ multi' = IF e.multi = None THEN multi ELSE [multi EXCEPT ![n] = e.multi]
      BY <1>6 DEF CollectResult
    <2>2. e.route \in RouteKeys \cup {None} /\ e.multi \in (SUBSET RouteKeys) \cup {None}
      BY GraphFields, EmissionFields
    <2>3. route' \in [Nodes -> RouteKeys \cup {None}]
      BY <2>1, <2>2
    <2>4. multi' \in [Nodes -> (SUBSET RouteKeys) \cup {None}]
      BY <2>1, <2>2
    <2> QED
      BY <1>6, <2>3, <2>4 DEF CollectResult, EndAttempt
  <1>7. ASSUME NEW n \in Nodes, Retry(n)
        PROVE  TypeOK'
    BY <1>7 DEF Retry, EndAttempt
  <1>8. ASSUME NEW n \in Nodes, GiveUp(n)
        PROVE  TypeOK'
    BY <1>8 DEF GiveUp, EndAttempt
  <1>9. ASSUME NEW n \in Nodes, BackoffOver(n)
        PROVE  TypeOK'
    BY <1>9 DEF BackoffOver
  <1>10. ASSUME NEW n \in Nodes, ChildEnds(n)
         PROVE  TypeOK'
    BY <1>10 DEF ChildEnds
  <1>11. CASE UNCHANGED vars
    BY <1>11 DEF vars
  <1> QED
    BY <1>1, <1>2, <1>3, <1>4, <1>5, <1>6, <1>7, <1>8, <1>9, <1>10, <1>11 DEF Next, Step

(* Type correctness: no sequence of rounds, retries and routes takes a      *)
(* variable of the runner out of its range.                                 *)
THEOREM TypeCorrect == Spec => []TypeOK
  <1>1. Init => TypeOK
    BY GraphsAssumption DEF Init, TypeOK, TaskStates, ChildStates, FirstLevel, GraphType
  <1> QED
    BY <1>1, TypeKept, PTL DEF Spec

-----------------------------------------------------------------------------
(* The inductive invariant holds initially.                                 *)
LEMMA InitIInv == Init => IInv
  <1> SUFFICES ASSUME Init PROVE IInv
    OBVIOUS
  <1>1. TypeOK
    BY GraphsAssumption DEF Init, TypeOK, TaskStates, ChildStates, FirstLevel, GraphType
  <1>2. TasksAreOfLevel /\ ChildrenAreOfAttempts /\ ReadyNotFailed
    BY DEF Init, TasksAreOfLevel, ChildrenAreOfAttempts, ReadyNotFailed
  <1>3. ActiveNodesMayRun /\ CausallyClosed /\ PermitsAddUp
    BY DEF Init, ActiveNodesMayRun, Active, CausallyClosed, PermitsAddUp
  <1> QED
    BY <1>1, <1>2, <1>3 DEF IInv

(* Busy is finite, and gains or loses one node as an attempt begins or ends.*)
LEMMA BusyChanges ==
  ASSUME TypeOK, TypeOK'
  PROVE  /\ IsFiniteSet(Busy)
         /\ Cardinality(Busy) \in Nat
         /\ \A n \in Nodes : n \notin Busy /\ Busy' = Busy \cup {n}
              => Cardinality(Busy') = Cardinality(Busy) + 1
         /\ \A n \in Nodes : n \in Busy /\ Busy' = Busy \ {n}
              => Cardinality(Busy') = Cardinality(Busy) - 1
  <1>1. IsFiniteSet(Busy)
    BY NodesAssumption, FS_Subset DEF Busy
  <1> QED
    BY <1>1, FS_CardinalityType, FS_AddElement, FS_RemoveElement

(* Every conjunct of the invariant but the permits is kept by a step that   *)
(* concerns one node.                                                       *)
LEMMA StepKeepsControl ==
  ASSUME IInv, TypeOK', NEW m \in Nodes, Step(m) \/ ChildEnds(m)
  PROVE  /\ TasksAreOfLevel'
         /\ ChildrenAreOfAttempts'
         /\ ReadyNotFailed'
         /\ ActiveNodesMayRun'
         /\ CausallyClosed'
  <1> USE DEF IInv, TypeOK, TaskStates, ChildStates, ctx
  <1>1. TasksAreOfLevel'
    BY DEF TasksAreOfLevel, Step, BeginNode, Dispatch, CollectResult, Retry, GiveUp,
           BackoffOver, ChildEnds, EndAttempt, AttemptFailed
  <1>2. ChildrenAreOfAttempts'
    BY DEF ChildrenAreOfAttempts, Step, BeginNode, Dispatch, CollectResult, Retry, GiveUp,
           BackoffOver, ChildEnds, EndAttempt, AttemptFailed
  <1>3. pc = "level" \/ ChildEnds(m)
    BY DEF TasksAreOfLevel, Step, BeginNode, Dispatch, CollectResult, Retry, GiveUp,
           BackoffOver, AttemptFailed
  <1>4. ReadyNotFailed'
    BY <1>3 DEF ReadyNotFailed, Step, BeginNode, Dispatch, CollectResult, Retry, GiveUp,
           BackoffOver, ChildEnds, EndAttempt, AttemptFailed
  <1>5. completed \subseteq completed' /\ graph' = graph
    BY DEF Step, BeginNode, Dispatch, CollectResult, Retry, GiveUp, BackoffOver, ChildEnds
  <1>6. ActiveNodesMayRun'
    BY <1>5 DEF ActiveNodesMayRun, Active, DepsMet, Deps, ReadyNotFailed, Step, BeginNode,
           Dispatch, CollectResult, Retry, GiveUp, BackoffOver, ChildEnds, EndAttempt,
           AttemptFailed
  <1>7. completed' \subseteq completed \cup {m} /\ (m \notin completed' \/ m \in completed \/ DepsMet(m))
    BY DEF ActiveNodesMayRun, Active, Step, BeginNode, Dispatch, CollectResult, Retry, GiveUp,
           BackoffOver, ChildEnds
  <1>8. CausallyClosed'
    BY <1>5, <1>7 DEF CausallyClosed, DepsMet, Deps
  <1> QED
    BY <1>1, <1>2, <1>4, <1>6, <1>8

(* Every path through an attempt returns its permit exactly once.          *)
LEMMA StepKeepsPermits ==
  ASSUME IInv, TypeOK', NEW m \in Nodes, Step(m) \/ ChildEnds(m)
  PROVE  PermitsAddUp'
  <1> USE DEF IInv, TypeOK, TaskStates, ChildStates, ctx
  <1>1. CASE Dispatch(m)
    <2>1. m \notin Busy /\ Busy' = Busy \cup {m}
      BY <1>1 DEF Dispatch, Busy, ChildrenAreOfAttempts
    <2>2. Cardinality(Busy') = Cardinality(Busy) + 1 /\ Cardinality(Busy) \in Nat
      BY <2>1, BusyChanges
    <2> QED
      BY <1>1, <2>2, GraphFields DEF Dispatch, PermitsAddUp, Bounded
  <1>2. ASSUME CollectResult(m) \/ Retry(m) \/ GiveUp(m)
        PROVE  PermitsAddUp'
    <2>1. m \in Busy /\ Busy' = Busy \ {m}
      BY <1>2 DEF CollectResult, Retry, GiveUp, AttemptFailed, EndAttempt, Busy,
                  ChildrenAreOfAttempts
    <2>2. Cardinality(Busy') = Cardinality(Busy) - 1 /\ Cardinality(Busy) \in Nat
      BY <2>1, BusyChanges
    <2>3. /\ graph' = graph
          /\ pc' = pc
          /\ permits' = IF Bounded THEN permits + 1 ELSE permits
      BY <1>2 DEF CollectResult, Retry, GiveUp, EndAttempt
    <2> QED
      BY <2>2, <2>3, GraphFields DEF PermitsAddUp, Bounded
  <1>3. ASSUME BeginNode(m) \/ BackoffOver(m) \/ ChildEnds(m)
        PROVE  PermitsAddUp'
    <2>1. Busy' = Busy
      BY <1>3 DEF BeginNode, BackoffOver, ChildEnds, Busy
    <2>2. graph' = graph /\ pc' = pc /\ permits' = permits
      BY <1>3 DEF BeginNode, BackoffOver, ChildEnds
    <2> QED
      BY <2>1, <2>2 DEF PermitsAddUp, Bounded
  <1> QED
    BY <1>1, <1>2, <1>3 DEF Step

(* The steps of the round loop keep the invariant.                          *)
LEMMA RoundKeepsIInv ==
  ASSUME IInv, TypeOK', BeginRound \/ EndRound \/ Finish
  PROVE  IInv'
  <1> USE DEF IInv, TypeOK, TaskStates, ChildStates, ctx
  <1>1. CASE BeginRound
    <2>1. TasksAreOfLevel' /\ ChildrenAreOfAttempts' /\ ReadyNotFailed'
      BY <1>1 DEF BeginRound, TasksAreOfLevel, ChildrenAreOfAttempts, ReadyNotFailed
    <2>2. ActiveNodesMayRun' /\ CausallyClosed'
      BY <1>1 DEF BeginRound, ActiveNodesMayRun, Active, CausallyClosed, Deps
    <2>3. Busy' = {}
      BY <1>1 DEF BeginRound, Busy, TasksAreOfLevel, ChildrenAreOfAttempts
    <2>4. PermitsAddUp'
      BY <1>1, <2>3, FS_EmptySet, GraphFields DEF BeginRound, PermitsAddUp, Bounded
    <2> QED
      BY <2>1, <2>2, <2>4
  <1>2. CASE EndRound
    <2>1. \A n \in Nodes : child[n] = "none"
      BY <1>2 DEF EndRound, LevelSettled, TasksAreOfLevel, ChildrenAreOfAttempts
    <2>2. TasksAreOfLevel' /\ ChildrenAreOfAttempts'
      BY <1>2, <2>1 DEF EndRound, TasksAreOfLevel, ChildrenAreOfAttempts
    <2>3. ReadyNotFailed'
      BY <1>2, NextReadyFacts DEF EndRound, ReadyNotFailed
    <2>4. ActiveNodesMayRun' /\ CausallyClosed' /\ PermitsAddUp'
      BY <1>2 DEF EndRound, ActiveNodesMayRun, Active, CausallyClosed, Deps, PermitsAddUp
    <2> QED
      BY <2>2, <2>3, <2>4
  <1>3. CASE Finish
    BY <1>3 DEF Finish, TasksAreOfLevel, ChildrenAreOfAttempts, ReadyNotFailed,
                ActiveNodesMayRun, Active, DepsMet, CausallyClosed, Deps, PermitsAddUp
  <1> QED
    BY <1>1, <1>2, <1>3

(* No step of the runner breaks the inductive invariant.                    *)
LEMMA IInvKept == IInv /\ TypeOK' /\ [Next]_vars => IInv'
  <1> SUFFICES ASSUME IInv, TypeOK', [Next]_vars
               PROVE  IInv'
    OBVIOUS
  <1>1. CASE BeginRound \/ EndRound \/ Finish
    BY <1>1, RoundKeepsIInv
  <1>2. ASSUME NEW m \in Nodes, Step(m) \/ ChildEnds(m)
        PROVE  IInv'
    BY <1>2, StepKeepsControl, StepKeepsPermits DEF IInv
  <1>3. CASE UNCHANGED vars
    BY <1>3 DEF vars, ctx, IInv, TypeOK, TasksAreOfLevel, ChildrenAreOfAttempts,
                ReadyNotFailed, ActiveNodesMayRun, Active, DepsMet, Deps, CausallyClosed,
                PermitsAddUp, Bounded, Busy
  <1> QED
    BY <1>1, <1>2, <1>3 DEF Next

(* The inductive invariant is an invariant.                                 *)
THEOREM Inductive == Spec => []IInv
  BY InitIInv, IInvKept, TypeCorrect, PTL DEF Spec
-----------------------------------------------------------------------------
(* No node is executed before its dependencies have completed or after its  *)
(* failure was recorded, whatever the graph, the routes and the order of    *)
(* events.                                                                  *)
THEOREM RunsOnlyWhenAllowed == Spec => []ActiveNodesMayRun
  BY Inductive, PTL DEF IInv

(* No node ever completes ahead of a node it depends on.                    *)
THEOREM CompletionIsCausal == Spec => []CausallyClosed
  BY Inductive, PTL DEF IInv

(* max_parallel bounds the subprocesses in flight, on every path through    *)
(* retries, errors and timeouts.                                            *)
THEOREM ParallelismBounded == Spec => []MaxParallelRespected
  <1>1. IInv => MaxParallelRespected
    <2> SUFFICES ASSUME IInv, Bounded
                 PROVE  Cardinality(Busy) <= graph.maxParallel
      BY DEF MaxParallelRespected, Busy
    <2>1. CASE pc = "level"
      <3>1. Cardinality(Busy) \in Nat
        BY NodesAssumption, FS_Subset, FS_CardinalityType DEF Busy
      <3> QED
        BY <2>1, <3>1, GraphFields DEF IInv, PermitsAddUp, TypeOK
    <2>2. CASE pc # "level"
      <3>1. Busy = {}
        BY <2>2 DEF IInv, TasksAreOfLevel, ChildrenAreOfAttempts, Busy
      <3> QED
        BY <3>1, FS_EmptySet, GraphFields DEF IInv, TypeOK
    <2> QED
      BY <2>1, <2>2
  <1> QED
    BY <1>1, Inductive, PTL

(* run() returns with nothing of its own still running.                     *)
THEOREM ReturnsClean == Spec => []NothingLeftBehind
  <1>1. IInv => NothingLeftBehind
    BY DEF IInv, TypeOK, ChildStates, NothingLeftBehind, TasksAreOfLevel, ChildrenAreOfAttempts
  <1> QED
    BY <1>1, Inductive, PTL

(* A round neither begins nor ends while a coroutine of a level is at work. *)
THEOREM Barriers == Spec => RoundsAreBarriers
  <1>1. IInv /\ [Next]_vars =>
          [ready' # ready \/ round' # round
             => \A n \in Nodes : task[n] \in {"idle", "settled"} /\ child[n] = "none"]_vars
    <2> SUFFICES ASSUME IInv, Next, ready' # ready \/ round' # round, NEW n \in Nodes
                 PROVE  task[n] \in {"idle", "settled"} /\ child[n] = "none"
      OBVIOUS
    <2>1. BeginRound \/ EndRound
      BY DEF Next, Step, BeginNode, Dispatch, CollectResult, Retry, GiveUp, BackoffOver,
             ChildEnds, Finish
    <2>2. task[n] \in {"idle", "settled"}
      BY <2>1 DEF BeginRound, EndRound, LevelSettled, IInv, TasksAreOfLevel
    <2> QED
      BY <2>2 DEF IInv, ChildrenAreOfAttempts, TypeOK
  <1> QED
    BY <1>1, Inductive, PTL DEF Spec, RoundsAreBarriers
-----------------------------------------------------------------------------
(* What the refinement calls running.                                       *)
Running == {n \in Nodes : Active(n)}

(* A step of one node is a step of TaskGraph or leaves it where it is.      *)
LEMMA StepRefines ==
  ASSUME IInv, NEW m \in Nodes, Step(m) \/ ChildEnds(m)
  PROVE  [Promise!Next]_(Promise!vars)
  <1> USE DEF IInv, TypeOK, TaskStates, ChildStates, ctx
  <1>1. CASE BeginNode(m)
    <2>1. m \notin Running \cup failed
      BY <1>1 DEF BeginNode, Running, Active, ReadyNotFailed
    <2>2. CASE ~DepsMet(m)
      <3>1. Running' = Running /\ failed' = failed \cup {m} /\ UNCHANGED <<graph, completed>>
        BY <1>1, <2>2 DEF BeginNode, Running, Active
      <3>2. Promise!Reject(m)
        BY <2>1, <2>2, <3>1 DEF Promise!Reject, Running, DepsMet, Deps
      <3> QED
        BY <3>2 DEF Promise!Next
    <2>3. CASE DepsMet(m) /\ m \notin graph.modules
      <3>1. Running' = Running /\ completed' = completed \cup {m} /\ UNCHANGED <<graph, failed>>
        BY <1>1, <2>3 DEF BeginNode, Running, Active
      <3>2. Promise!Skip(m)
        BY <2>1, <2>3, <3>1 DEF Promise!Skip, Promise!MayRun, Running, DepsMet, Deps
      <3> QED
        BY <3>2 DEF Promise!Next
    <2>4. CASE DepsMet(m) /\ m \in graph.modules
      <3>1. Running' = Running \cup {m} /\ UNCHANGED <<graph, completed, failed>>
        BY <1>1, <2>4 DEF BeginNode, Running, Active
      <3>2. Promise!Start(m)
        BY <2>1, <2>4, <3>1 DEF Promise!Start, Promise!MayRun, Running, DepsMet, Deps
      <3> QED
        BY <3>2 DEF Promise!Next
    <2> QED
      BY <2>2, <2>3, <2>4
  <1>2. CASE CollectResult(m)
    <2>1. /\ m \in Running
          /\ Running' = Running \ {m}
          /\ completed' = completed \cup {m}
          /\ UNCHANGED <<graph, failed>>
      BY <1>2 DEF CollectResult, EndAttempt, Running, Active
    <2>2. Promise!Succeed(m)
      BY <2>1 DEF Promise!Succeed, Running
    <2> QED
      BY <2>2 DEF Promise!Next
  <1>3. CASE GiveUp(m)
    <2>1. /\ m \in Running
          /\ Running' = Running \ {m}
          /\ failed' = failed \cup {m}
          /\ UNCHANGED <<graph, completed>>
      BY <1>3 DEF GiveUp, AttemptFailed, EndAttempt, Running, Active
    <2>2. Promise!Fail(m)
      BY <2>1 DEF Promise!Fail, Running
    <2> QED
      BY <2>2 DEF Promise!Next
  <1>4. ASSUME Dispatch(m) \/ Retry(m) \/ BackoffOver(m) \/ ChildEnds(m)
        PROVE  UNCHANGED Promise!vars
    <2>1. Running' = Running /\ UNCHANGED <<graph, completed, failed>>
      BY <1>4 DEF Dispatch, Retry, AttemptFailed, BackoffOver, ChildEnds, EndAttempt,
                  Running, Active
    <2> QED
      BY <2>1 DEF Promise!vars, Running
  <1> QED
    BY <1>1, <1>2, <1>3, <1>4 DEF Step

(* The runner implements the promise: in every graph each of its steps is a *)
(* step of TaskGraph or is invisible to it.                                 *)
THEOREM Refinement == Spec => ImplementsPromise
  <1>1. Init => Promise!Init
    BY DEF Init, Promise!Init, Active
  <1>2. IInv /\ [Next]_vars => [Promise!Next]_(Promise!vars)
    <2> SUFFICES ASSUME IInv, [Next]_vars
                 PROVE  [Promise!Next]_(Promise!vars)
      OBVIOUS
    <2>1. CASE BeginRound \/ EndRound \/ Finish
      <3>1. (Running = {} /\ Running' = {}) \/ Running' = Running
        BY <2>1 DEF BeginRound, EndRound, Finish, Running, Active, LevelSettled, IInv,
                    TasksAreOfLevel, TypeOK
      <3>2. UNCHANGED <<graph, completed, failed>>
        BY <2>1 DEF BeginRound, EndRound, Finish, ctx
      <3> QED
        BY <3>1, <3>2 DEF Promise!vars, Running
    <2>2. ASSUME NEW m \in Nodes, Step(m) \/ ChildEnds(m)
          PROVE  [Promise!Next]_(Promise!vars)
      BY <2>2, StepRefines
    <2>3. CASE UNCHANGED vars
      BY <2>3 DEF vars, ctx, Promise!vars, Active
    <2> QED
      BY <2>1, <2>2, <2>3 DEF Next
  <1> QED
    BY <1>1, <1>2, Inductive, PTL DEF Spec, ImplementsPromise, Promise!Spec
-----------------------------------------------------------------------------
(* Covering a plain graph.  In a graph without routes a node becomes ready  *)
(* once; what the runner covers is the nodes that completed or failed.      *)
Covered == completed \cup failed

(* No node that is ready, or has completed, depends on a ready one: a round *)
(* never executes a node a second time.                                     *)
ReadyIsNew == \A n \in ready \cup completed : Deps(n) \cap ready = {}

(* At the while test a node that could run is ready; in a level, one that   *)
(* could run and is not of the level has a dependency that is.              *)
Frontier ==
  \A n \in graph.nodes \ (Covered \cup ready) :
    DepsMet(n) => pc = "level" /\ Deps(n) \cap ready # {}

(* A round begun covered a node, but for the round that is under way.       *)
EveryRoundCovers ==
  /\ pc = "loop" => Cardinality(Covered) >= round
  /\ pc = "level" => Cardinality(Covered \ ready) >= round - 1

PlainInv ==
  PlainGraph =>
    /\ Covered \cup ready \subseteq graph.nodes /\ completed \cap failed = {}
    /\ pc = "loop" => ready \cap Covered = {}
    /\ pc = "level" => /\ ready # {}
                       /\ \A n \in ready : task[n] = "settled" <=> n \in Covered
    /\ pc # "done" => ReadyIsNew /\ Frontier /\ EveryRoundCovers
    /\ PlainGraphCovered

(* In a plain graph a node hands control to its dependents and to no other. *)
LEMMA PlainSuccessors ==
  ASSUME TypeOK, PlainGraph, NEW n \in graph.nodes
  PROVE  /\ Successors(n) = {m \in graph.nodes : n \in Deps(m)}
         /\ FanOut(n) = {}
  <1>1. n \in Nodes /\ Unrouted \notin graph.nodes
    BY GraphFields, NodesAssumption DEF TypeOK
  <1>2. \A k \in RouteKeys : graph.routes[n][k] = Unrouted
    BY DEF PlainGraph
  <1>3. /\ route[n] # None => route[n] \in RouteKeys
        /\ multi[n] # None => multi[n] \subseteq RouteKeys
    BY <1>1 DEF TypeOK
  <1>4. Successors(n) = {m \in graph.nodes : n \in Deps(m)}
    BY <1>2, <1>3, RouteKeysAssumption, Zenon DEF Successors
  <1>5. FanOut(n) = {}
    BY <1>1, <1>2, <1>3 DEF FanOut
  <1> QED
    BY <1>4, <1>5

(* The next ready set of a plain graph: nothing that completed, unless a    *)
(* node it depends on has just run; and every dependent of a node that has  *)
(* just completed that can run.                                             *)
LEMMA PlainNextReady ==
  ASSUME TypeOK, PlainGraph, ready \subseteq graph.nodes
  PROVE  /\ NextReady \subseteq graph.nodes
         /\ \A n \in NextReady : n \notin completed \/ Deps(n) \cap ready # {}
         /\ \A n \in graph.nodes \ failed :
              DepsMet(n) /\ Deps(n) \cap (ready \ failed) # {} => n \in NextReady
  <1>1. \A n \in ready : /\ Successors(n) = {m \in graph.nodes : n \in Deps(m)}
                         /\ FanOut(n) = {}
    BY PlainSuccessors
  <1>2. Candidates = {m \in graph.nodes \ failed : Deps(m) \cap (ready \ failed) # {}}
    BY <1>1 DEF Candidates
  <1> QED
    BY <1>2 DEF NextReady, Pulled

(* Sets of nodes are finite, and so have a size.                            *)
LEMMA CoveredFinite ==
  ASSUME TypeOK
  PROVE  \A S \in SUBSET Nodes : IsFiniteSet(S) /\ Cardinality(S) \in Nat
  BY NodesAssumption, FS_Subset, FS_CardinalityType

(* At first the ready nodes are those that depend on nothing.               *)
LEMMA InitPlain == Init => PlainInv
  <1> SUFFICES ASSUME Init, PlainGraph
               PROVE  PlainInv
    BY DEF PlainInv
  <1>1. Covered = {} /\ ready \subseteq graph.nodes /\ pc = "loop" /\ round = 0
    BY DEF Init, Covered, FirstLevel
  <1>2. ReadyIsNew
    BY DEF Init, ReadyIsNew, FirstLevel, Deps
  <1>3. Frontier
    BY DEF Init, Frontier, FirstLevel, Deps, DepsMet, PlainGraph
  <1>4. EveryRoundCovers
    BY <1>1, FS_EmptySet DEF EveryRoundCovers
  <1> QED
    BY <1>1, <1>2, <1>3, <1>4 DEF PlainInv, PlainGraphCovered, Covered, Init

(* A coroutine covers its node when it settles, and no other.               *)
LEMMA StepCovers ==
  ASSUME IInv, PlainInv, TypeOK', NEW m \in Nodes, Step(m) \/ ChildEnds(m)
  PROVE  PlainInv'
  <1> USE DEF IInv, TypeOK, TaskStates, ChildStates, ctx
  <1>1. /\ pc' = pc /\ round' = round /\ ready' = ready /\ graph' = graph
        /\ completed \subseteq completed'
    BY DEF Step, BeginNode, Dispatch, CollectResult, Retry, GiveUp, BackoffOver, ChildEnds
  <1>2. PlainGraph' = PlainGraph
    BY <1>1 DEF PlainGraph, Deps
  <1> SUFFICES ASSUME PlainGraph
               PROVE  PlainInv'
    BY <1>2 DEF PlainInv
  <1>3. \/ UNCHANGED <<completed, failed>> /\ (task'[m] = "settled" <=> task[m] = "settled")
        \/ /\ pc = "level" /\ m \in ready /\ task[m] # "settled" /\ task'[m] = "settled"
           /\ \/ completed' = completed \cup {m} /\ failed' = failed
              \/ failed' = failed \cup {m} /\ completed' = completed
    BY DEF TasksAreOfLevel, Step, BeginNode, Dispatch, CollectResult, Retry, GiveUp,
           BackoffOver, ChildEnds, EndAttempt, AttemptFailed
  <1>4. \A n \in Nodes : n # m => task'[n] = task[n]
    BY DEF Step, BeginNode, Dispatch, CollectResult, Retry, GiveUp, BackoffOver, ChildEnds,
           EndAttempt
  <1>5. CASE UNCHANGED <<completed, failed>> /\ (task'[m] = "settled" <=> task[m] = "settled")
    <2>1. ready \subseteq Nodes /\ \A n \in ready : task'[n] = "settled" <=> task[n] = "settled"
      BY <1>4, <1>5
    <2> QED
      BY <1>1, <1>5, <2>1 DEF PlainInv, Covered, ReadyIsNew, Frontier, EveryRoundCovers,
                              PlainGraphCovered, PlainGraph, Deps, DepsMet
  <1>6. CASE /\ pc = "level" /\ m \in ready /\ task[m] # "settled" /\ task'[m] = "settled"
             /\ \/ completed' = completed \cup {m} /\ failed' = failed
                \/ failed' = failed \cup {m} /\ completed' = completed
    <2>1. /\ Covered \cup ready \subseteq graph.nodes /\ completed \cap failed = {}
          /\ \A n \in ready : task[n] = "settled" <=> n \in Covered
          /\ ReadyIsNew /\ Frontier /\ EveryRoundCovers
      BY <1>6 DEF PlainInv
    <2>2. Covered' = Covered \cup {m} /\ Covered' \ ready' = Covered \ ready
      BY <1>1, <1>6 DEF Covered
    <2>3. Covered' \cup ready' \subseteq graph'.nodes /\ completed' \cap failed' = {}
      BY <1>1, <1>6, <2>1, <2>2 DEF Covered
    <2>4. \A n \in ready' : task'[n] = "settled" <=> n \in Covered'
      BY <1>1, <1>4, <1>6, <2>1, <2>2
    <2>5. ReadyIsNew'
      BY <1>1, <1>6, <2>1 DEF ReadyIsNew, Deps
    <2>6. Frontier'
      BY <1>1, <1>6, <2>1, <2>2 DEF Frontier, Deps, DepsMet
    <2>7. EveryRoundCovers'
      BY <1>1, <1>6, <2>1, <2>2 DEF EveryRoundCovers
    <2> QED
      BY <1>1, <1>6, <2>3, <2>4, <2>5, <2>6, <2>7 DEF PlainInv, PlainGraphCovered
  <1> QED
    BY <1>3, <1>5, <1>6

(* Rounds: the next ready set is new, misses no node that could run, and    *)
(* each round leaves one node less to cover.                                *)
LEMMA RoundCovers ==
  ASSUME IInv, PlainInv, TypeOK', BeginRound \/ EndRound \/ Finish
  PROVE  PlainInv'
  <1> USE DEF IInv, TypeOK, ctx
  <1>1. graph' = graph /\ UNCHANGED <<completed, failed>> /\ (PlainGraph' <=> PlainGraph)
    BY DEF BeginRound, EndRound, Finish, PlainGraph, Deps
  <1> SUFFICES ASSUME PlainGraph
               PROVE  PlainInv'
    BY <1>1 DEF PlainInv
  <1>2. /\ Covered \cup ready \subseteq graph.nodes /\ completed \cap failed = {}
        /\ pc # "done" => ReadyIsNew /\ Frontier /\ EveryRoundCovers
        /\ Covered' = Covered
    BY <1>1 DEF PlainInv, Covered
  <1>3. CASE BeginRound
    <2>1. /\ pc = "loop" /\ pc' = "level" /\ ready' = ready /\ ready # {}
          /\ round' = round + 1 /\ \A n \in ready : task'[n] = "start"
      BY <1>3 DEF BeginRound
    <2>2. ready \cap Covered = {} /\ Covered \ ready = Covered
      BY <2>1 DEF PlainInv
    <2>3. ReadyIsNew' /\ Frontier'
      BY <1>1, <1>2, <2>1 DEF ReadyIsNew, Frontier, Deps, DepsMet
    <2>4. EveryRoundCovers'
      <3>1. Cardinality(Covered) >= round /\ Cardinality(Covered) \in Nat
        BY <1>2, <2>1, CoveredFinite DEF EveryRoundCovers, Covered
      <3>2. Covered' \ ready' = Covered
        BY <1>2, <2>1, <2>2
      <3>3. Cardinality(Covered) >= (round + 1) - 1
        BY <3>1
      <3> QED
        BY <2>1, <3>2, <3>3 DEF EveryRoundCovers
    <2> QED
      BY <1>1, <1>2, <2>1, <2>2, <2>3, <2>4 DEF PlainInv, PlainGraphCovered
  <1>4. CASE EndRound
    <2>1. /\ pc = "level" /\ LevelSettled /\ round' = round /\ ready # {}
          /\ ready \subseteq Covered
      BY <1>4 DEF EndRound, LevelSettled, PlainInv
    <2>2. CASE pc' = "done"
      <3>1. ~HasReachableNodes /\ ready' = ready
        BY <1>4, <2>2 DEF EndRound
      <3>2. PlainGraphCovered'
        BY <1>1, <3>1 DEF PlainGraphCovered, HasReachableNodes, DepsMet, Deps
      <3> QED
        BY <1>1, <1>2, <2>2, <3>1, <3>2 DEF PlainInv
    <2>3. CASE pc' = "loop" /\ ready' = NextReady
      <3>1. /\ NextReady \subseteq graph.nodes
            /\ \A n \in NextReady : n \notin completed \/ Deps(n) \cap ready # {}
            /\ \A n \in graph.nodes \ failed :
                 DepsMet(n) /\ Deps(n) \cap (ready \ failed) # {} => n \in NextReady
        BY <1>2, PlainNextReady
      <3>2. NextReady \cap Covered = {}
        BY <1>2, <2>1, <3>1, NextReadyFacts DEF Covered, ReadyIsNew
      <3>3. ReadyIsNew'
        <4>1. \A n \in NextReady \cup completed : Deps(n) \subseteq completed
          BY NextReadyFacts DEF DepsMet, CausallyClosed
        <4> QED
          BY <1>1, <2>3, <3>2, <4>1 DEF ReadyIsNew, Deps, Covered
      <3>4. Frontier'
        <4>1. SUFFICES ASSUME NEW n \in graph.nodes \ (Covered \cup NextReady), DepsMet(n)
                       PROVE  FALSE
          BY <1>1, <1>2, <2>3 DEF Frontier, DepsMet, Deps
        <4>2. Deps(n) \cap ready # {} /\ Deps(n) \subseteq completed
          BY <1>2, <2>1, <4>1 DEF Frontier, DepsMet
        <4>3. Deps(n) \cap (ready \ failed) # {}
          BY <1>2, <4>2
        <4> QED
          BY <3>1, <4>1, <4>3 DEF Covered
      <3>5. EveryRoundCovers'
        <4>1. PICK r : r \in ready
          BY <2>1
        <4>2. /\ IsFiniteSet(Covered) /\ Covered \ ready \in SUBSET (Covered \ {r})
              /\ IsFiniteSet(Covered \ {r}) /\ r \in Covered
              /\ Cardinality(Covered \ ready) \in Nat /\ Cardinality(Covered) \in Nat
          BY <2>1, <4>1, CoveredFinite DEF Covered
        <4>3. Cardinality(Covered \ {r}) = Cardinality(Covered) - 1
          BY <4>2, FS_RemoveElement
        <4>4. Cardinality(Covered \ ready) <= Cardinality(Covered \ {r})
          BY <4>2, FS_Subset
        <4>5. Cardinality(Covered \ ready) >= round - 1
          BY <1>2, <2>1 DEF EveryRoundCovers
        <4> QED
          BY <1>2, <2>1, <2>3, <4>2, <4>3, <4>4, <4>5 DEF EveryRoundCovers
      <3> QED
        BY <1>1, <1>2, <2>3, <3>1, <3>2, <3>3, <3>4, <3>5 DEF PlainInv, PlainGraphCovered
    <2> QED
      BY <1>4, <2>2, <2>3 DEF EndRound
  <1>5. CASE Finish
    <2>1. /\ pc = "loop" /\ pc' = "done" /\ ready' = ready
          /\ ready = {} \/ round >= graph.maxRounds
      BY <1>5 DEF Finish
    <2>2. PlainGraphCovered'
      <3>1. SUFFICES ASSUME graph.maxRounds >= Cardinality(graph.nodes)
                     PROVE  \A n \in graph.nodes \ Covered : ~DepsMet(n)
        BY <1>1 DEF PlainGraphCovered, Covered, DepsMet, Deps
      <3>2. CASE ready = {}
        BY <1>2, <2>1, <3>2 DEF Frontier
      <3>3. CASE round >= graph.maxRounds
        <4>1. /\ IsFiniteSet(graph.nodes) /\ Covered \in SUBSET graph.nodes
              /\ Cardinality(graph.nodes) \in Nat /\ Cardinality(Covered) \in Nat
          BY <1>2, CoveredFinite, GraphFields
        <4>2. Cardinality(Covered) >= round
          BY <1>2, <2>1 DEF EveryRoundCovers
        <4>3. Cardinality(Covered) <= Cardinality(graph.nodes)
          BY <4>1, FS_Subset
        <4>4. Cardinality(graph.nodes) = Cardinality(Covered)
          BY <3>1, <3>3, <4>1, <4>2, <4>3, GraphFields
        <4>5. graph.nodes = Covered
          BY <4>1, <4>4, FS_Subset
        <4> QED
          BY <4>5
      <3> QED
        BY <2>1, <3>2, <3>3
    <2> QED
      BY <1>1, <1>2, <2>1, <2>2 DEF PlainInv
  <1> QED
    BY <1>3, <1>4, <1>5

(* A plain graph that was given rounds enough is covered: whatever fails    *)
(* and in whatever order things complete, run() returns only when no node   *)
(* is left that could run.                                                  *)
THEOREM PlainGraphsAreCovered == Spec => []PlainGraphCovered
  <1>1. IInv /\ PlainInv /\ TypeOK' /\ [Next]_vars => PlainInv'
    <2> SUFFICES ASSUME IInv, PlainInv, TypeOK', [Next]_vars
                 PROVE  PlainInv'
      OBVIOUS
    <2>1. CASE BeginRound \/ EndRound \/ Finish
      BY <2>1, RoundCovers
    <2>2. ASSUME NEW m \in Nodes, Step(m) \/ ChildEnds(m)
          PROVE  PlainInv'
      BY <2>2, StepCovers
    <2>3. CASE UNCHANGED vars
      BY <2>3 DEF vars, ctx, PlainInv, PlainGraph, PlainGraphCovered, Covered, ReadyIsNew,
                  Frontier, EveryRoundCovers, Deps, DepsMet
    <2> QED
      BY <2>1, <2>2, <2>3 DEF Next
  <1>2. PlainInv => PlainGraphCovered
    BY DEF PlainInv, PlainGraphCovered
  <1> QED
    BY <1>1, <1>2, InitPlain, Inductive, TypeCorrect, PTL DEF Spec
-----------------------------------------------------------------------------
(* Documents with routes. What a level does to a run is told apart from     *)
(* where the level stands by counting only the executions before it         *)
(* (Earlier): a level then changes nothing until it ends.                   *)

(* Documents whose nodes all name a module and emit one route always, or    *)
(* never, and no list.                                                      *)
OneRoute ==
  /\ graph.modules = graph.nodes
  /\ \A n \in Nodes : \A e \in graph.emits[n] : e.multi = None
  /\ \A n \in Nodes : \/ \A e \in graph.emits[n] : e.route = None
                      \/ \A e \in graph.emits[n] : e.route # None

(* A node that has completed in the level under way, and the executions of  *)
(* a node before the level began.                                           *)
Landed(n) == pc = "level" /\ task[n] = "settled" /\ n \notin failed
Earlier(n) == IF Landed(n) THEN count[n] - 1 ELSE count[n]

(* A completed node has been executed and has recorded one of its routes;   *)
(* a coroutine of the level that has returned completed or failed its node. *)
RoutedInv ==
  OneRoute =>
    /\ ready \subseteq graph.nodes
    /\ \A n \in Nodes : n \in completed <=> count[n] > 0
    /\ pc = "level" => \A n \in ready : task[n] = "settled" => n \in Covered
    /\ \A n \in Nodes : multi[n] = None
    /\ \A n \in Nodes : IF n \in completed
                       THEN \E e \in graph.emits[n] : e.route = route[n]
                       ELSE route[n] = None

(* The graph is the argument of run(): it never changes.                    *)
LEMMA SameGraph == [Next]_vars => graph' = graph
  BY DEF Next, BeginRound, EndRound, Finish, Step, BeginNode, Dispatch, CollectResult, Retry,
         GiveUp, BackoffOver, ChildEnds, vars

(* Nothing has run at the start.                                            *)
LEMMA InitRouted == Init => RoutedInv
  BY DEF Init, RoutedInv, FirstLevel, Covered

(* Only nodes of the graph become ready.                                    *)
LEMMA NextReadyInGraph == NextReady \subseteq graph.nodes
  <1>1. \A n : Successors(n) \subseteq graph.nodes
    BY Zenon DEF Successors
  <1>2. \A n : FanOut(n) \subseteq graph.nodes
    BY Zenon DEF FanOut
  <1>3. Candidates \subseteq graph.nodes
    BY <1>1, <1>2, Zenon DEF Candidates
  <1> QED
    BY <1>3 DEF NextReady, Pulled

(* A step of one node's coroutine or subprocess leaves the executions before*)
(* the level alone, and the routes of the other nodes.                      *)
LEMMA StepOfLevel ==
  ASSUME IInv, RoutedInv, OneRoute, TypeOK', NEW m \in Nodes, Step(m) \/ ChildEnds(m)
  PROVE  /\ UNCHANGED <<graph, pc, round, ready>>
         /\ pc = "level" /\ m \in ready /\ task[m] # "settled"
         /\ failed \subseteq failed'
         /\ \A n \in Nodes : Earlier(n)' = Earlier(n)
         /\ \A n \in Nodes \ {m} : route'[n] = route[n] /\ count'[n] = count[n]
  <1> USE DEF IInv, TypeOK, TaskStates, ChildStates, ctx
  <1>1. /\ UNCHANGED <<graph, pc, round, ready>>
        /\ failed \subseteq failed'
        /\ \A n \in Nodes \ {m} : /\ route'[n] = route[n] /\ count'[n] = count[n]
                                  /\ task'[n] = task[n]
                                  /\ n \in failed' <=> n \in failed
    BY DEF Step, BeginNode, Dispatch, CollectResult, Retry, GiveUp, BackoffOver, ChildEnds,
           EndAttempt
  <1>2. task[m] \notin {"idle", "settled"}
    BY DEF Step, BeginNode, Dispatch, CollectResult, Retry, GiveUp, BackoffOver, ChildEnds,
           AttemptFailed, ChildrenAreOfAttempts
  <1>3. pc = "level" /\ m \in ready
    BY <1>2 DEF TasksAreOfLevel
  <1>4. m \in graph.modules
    BY <1>3 DEF RoutedInv, OneRoute
  <1>5. m \notin failed
    BY <1>2 DEF ReadyNotFailed, ActiveNodesMayRun, Active
  <1>6. Earlier(m)' = Earlier(m)
    <2>1. CASE BeginNode(m)
      BY <2>1, <1>2, <1>4 DEF BeginNode, Earlier, Landed
    <2>2. CASE CollectResult(m)
      BY <2>2, <1>1, <1>2, <1>3, <1>5 DEF CollectResult, EndAttempt, Earlier, Landed
    <2>3. CASE GiveUp(m)
      BY <2>3, <1>2 DEF GiveUp, EndAttempt, Earlier, Landed
    <2>4. CASE Dispatch(m) \/ Retry(m) \/ BackoffOver(m) \/ ChildEnds(m)
      BY <2>4, <1>2 DEF Dispatch, Retry, BackoffOver, ChildEnds, EndAttempt, Earlier, Landed
    <2> QED
      BY <2>1, <2>2, <2>3, <2>4 DEF Step
  <1>7. \A n \in Nodes \ {m} : Earlier(n)' = Earlier(n)
    BY <1>1 DEF Earlier, Landed
  <1> QED
    BY <1>1, <1>2, <1>3, <1>6, <1>7

(* A node completes when its answer is collected, with one of its routes.   *)
LEMMA StepKeepsRouted ==
  ASSUME IInv, RoutedInv, OneRoute, TypeOK', NEW m \in Nodes, Step(m) \/ ChildEnds(m)
  PROVE  RoutedInv'
  <1> USE DEF IInv, TypeOK, TaskStates, ChildStates, ctx, RoutedInv, Covered
  <1>1. /\ UNCHANGED <<graph, pc, round, ready>>
        /\ pc = "level" /\ m \in ready /\ m \in graph.modules
    BY StepOfLevel DEF OneRoute
  <1>2. CASE CollectResult(m)
    <2>1. PICK e \in graph.emits[m] :
            /\ route' = IF e.route = None THEN route ELSE [route EXCEPT ![m] = e.route]
            /\ multi' = IF e.multi = None THEN multi ELSE [multi EXCEPT ![m] = e.multi]
      BY <1>2 DEF CollectResult
    <2>2. e.multi = None
      BY DEF OneRoute
    <2>3. multi' = multi
      BY <2>1, <2>2
    <2>4. completed' = completed \cup {m} /\ count' = [count EXCEPT ![m] = @ + 1]
          /\ failed' = failed /\ task' = [task EXCEPT ![m] = "settled"]
      BY <1>2 DEF CollectResult, EndAttempt
    <2>5. \E f \in graph.emits[m] : f.route = route'[m]
      <3>1. CASE e.route # None
        BY <2>1, <3>1
      <3>2. CASE e.route = None /\ m \in completed
        BY <2>1, <3>2
      <3>3. CASE e.route = None /\ m \notin completed
        BY <2>1, <3>3
      <3> QED BY <3>1, <3>2, <3>3
    <2>6. \A n \in Nodes : IF n \in completed'
                        THEN \E f \in graph.emits[n] : f.route = route'[n]
                        ELSE route'[n] = None
      BY <2>1, <2>4, <2>5
    <2> QED
      BY <1>1, <2>3, <2>4, <2>6
  <1>3. CASE ~CollectResult(m)
    <2>1. UNCHANGED <<completed, count, route, multi>>
      BY <1>1, <1>3 DEF Step, BeginNode, Dispatch, Retry, GiveUp, BackoffOver, ChildEnds
    <2>2. \A n \in ready : task'[n] = "settled" => n \in completed \/ n \in failed'
      BY <1>1, <1>3 DEF Step, BeginNode, Dispatch, Retry, GiveUp, BackoffOver, ChildEnds,
                        EndAttempt
    <2> QED
      BY <1>1, <2>1, <2>2
  <1> QED
    BY <1>2, <1>3

(* Rounds begin and end without anything being executed.                    *)
LEMMA RoundKeepsRouted ==
  ASSUME IInv, RoutedInv, OneRoute, TypeOK', BeginRound \/ EndRound \/ Finish
  PROVE  RoutedInv'
  <1>1. UNCHANGED <<graph, ctx>>
    BY DEF BeginRound, EndRound, Finish
  <1>2. ready' \subseteq graph.nodes
    BY <1>1, NextReadyInGraph DEF BeginRound, EndRound, Finish, RoutedInv
  <1>3. pc' = "level" => \A n \in ready' : task'[n] # "settled"
    BY DEF BeginRound, EndRound, Finish, IInv, TypeOK
  <1> QED
    BY <1>1, <1>2, <1>3 DEF RoutedInv, ctx, Covered

(* What a graph's nodes have completed, emitted and counted agree.          *)
LEMMA RoutedKept == IInv /\ RoutedInv /\ TypeOK' /\ [Next]_vars => RoutedInv'
  <1> SUFFICES ASSUME IInv, RoutedInv, TypeOK', [Next]_vars, OneRoute
               PROVE  RoutedInv'
    BY SameGraph DEF RoutedInv, OneRoute
  <1>1. CASE UNCHANGED vars
    BY <1>1 DEF vars, ctx, RoutedInv, Covered
  <1>2. ASSUME NEW m \in Nodes, Step(m) \/ ChildEnds(m)
        PROVE  RoutedInv'
    BY <1>2, StepKeepsRouted
  <1> QED
    BY <1>1, <1>2, RoundKeepsRouted DEF Next

(* A level that begins has executed nothing; one that ends has executed the *)
(* ready nodes that did not fail, once.                                     *)
LEMMA RoundsCount ==
  ASSUME IInv, RoutedInv, OneRoute
  PROVE  /\ BeginRound => \A n \in Nodes : Earlier(n)' = Earlier(n) /\ Earlier(n) = count[n]
         /\ EndRound =>
              /\ \A n \in Nodes :
                   Earlier(n)' = Earlier(n) + (IF n \in ready \ failed THEN 1 ELSE 0)
              /\ ready \ failed \subseteq completed
         /\ Finish => \A n \in Nodes : Earlier(n)' = Earlier(n)
         /\ \A n \in Nodes : Earlier(n) \in Nat /\ (Earlier(n) > 0 => n \in completed)
  <1> USE DEF IInv, TypeOK, TaskStates, ChildStates, ctx, RoutedInv, Covered, Earlier, Landed
  <1>1. BeginRound => \A n \in Nodes : Earlier(n)' = Earlier(n) /\ Earlier(n) = count[n]
    BY DEF BeginRound
  <1>2. Finish => \A n \in Nodes : Earlier(n)' = Earlier(n)
    BY DEF Finish
  <1>3. ASSUME EndRound
        PROVE  /\ \A n \in Nodes :
                    Earlier(n)' = Earlier(n) + (IF n \in ready \ failed THEN 1 ELSE 0)
               /\ ready \ failed \subseteq completed
    BY <1>3 DEF EndRound, LevelSettled, TasksAreOfLevel
  <1>4. \A n \in Nodes : Earlier(n) \in Nat /\ (Earlier(n) > 0 => n \in completed)
    BY DEF TasksAreOfLevel
  <1> QED
    BY <1>1, <1>2, <1>3, <1>4
-----------------------------------------------------------------------------
(* Control passes on from the node of the level that sends it anywhere.     *)
LEMMA OnlyCandidates ==
  ASSUME IInv, RoutedInv, OneRoute, NEW n \in ready,
         \A m \in ready \ {n} : Successors(m) = {}
  PROVE  Candidates = IF n \in failed THEN {} ELSE Successors(n) \ failed
  <1>1. \A m \in ready : FanOut(m) = {}
    BY DEF RoutedInv, FanOut, IInv, TypeOK
  <1>2. UNION {FanOut(m) : m \in ready} = {}
    BY <1>1
  <1>3. CASE n \in failed
    <2>1. UNION {Successors(m) : m \in ready \ failed} = {}
      BY <1>3
    <2> QED
      BY <1>2, <1>3, <2>1 DEF Candidates
  <1>4. CASE n \notin failed
    <2>1. UNION {Successors(m) : m \in ready \ failed} = Successors(n)
      BY <1>4
    <2> QED
      BY <1>2, <1>4, <2>1 DEF Candidates
  <1> QED
    BY <1>3, <1>4

(* A candidate runs if it can; otherwise those of its dependencies do that  *)
(* can.                                                                     *)
LEMMA OneNext ==
  ASSUME NEW c
  PROVE  /\ Candidates = {} => NextReady = {}
         /\ Candidates = {c} => NextReady = IF DepsMet(c) THEN {c} ELSE Pulled(c)
         /\ Candidates = {c} \ failed /\ DepsMet(c) => NextReady \subseteq {c}
  BY DEF NextReady

(* A node whose route is not in its table and that has no default hands     *)
(* control to its dependents; one whose route is in the table to its        *)
(* target, one that emits none to its default.                              *)
LEMMA WhereControlGoes ==
  ASSUME TypeOK, NEW n \in graph.nodes
  PROVE  /\ (route[n] = None \/ graph.routes[n][route[n]] = Unrouted)
              /\ graph.routes[n]["default"] = Unrouted
              => Successors(n) = {m \in graph.nodes : n \in Deps(m)}
         /\ \A t \in graph.nodes, k \in RouteKeys :
              route[n] = k /\ graph.routes[n][k] = t => Successors(n) = {t}
         /\ \A t \in graph.nodes :
              route[n] = None /\ graph.routes[n]["default"] = t => Successors(n) = {t}
  <1>1. n \in Nodes /\ Unrouted \notin graph.nodes
    BY GraphFields, NodesAssumption DEF TypeOK
  <1>2. route[n] # None => route[n] \in RouteKeys
    BY <1>1 DEF TypeOK
  <1>3. ASSUME route[n] = None \/ graph.routes[n][route[n]] = Unrouted,
               graph.routes[n]["default"] = Unrouted
        PROVE  Successors(n) = {m \in graph.nodes : n \in Deps(m)}
    BY <1>3, Zenon DEF Successors
  <1>4. ASSUME NEW t \in graph.nodes, NEW k \in RouteKeys, route[n] = k, graph.routes[n][k] = t
        PROVE  Successors(n) = {t}
    BY <1>1, <1>4, RouteKeysAssumption DEF Successors
  <1>5. ASSUME NEW t \in graph.nodes, route[n] = None, graph.routes[n]["default"] = t
        PROVE  Successors(n) = {t}
    BY <1>1, <1>5 DEF Successors
  <1> QED
    BY <1>3, <1>4, <1>5

(* A node that has completed emitted one of its routes, or none.            *)
LEMMA RouteOfCompleted ==
  ASSUME RoutedInv, OneRoute, NEW n \in Nodes, NEW keys, graph.emits[n] = Answers(keys),
         n \in completed
  PROVE  route[n] \in keys
  BY DEF RoutedInv, Answers

(* A document whose nodes answer with a route each, or with none.           *)
LEMMA RoutesAreOne ==
  ASSUME graph.modules = graph.nodes,
         \A n \in Nodes : \E keys \in (SUBSET RouteKeys) \cup {{None}} :
           graph.emits[n] = Answers(keys)
  PROVE  OneRoute
  <1>1. ASSUME NEW n \in Nodes
        PROVE  /\ \A e \in graph.emits[n] : e.multi = None
               /\ \/ \A e \in graph.emits[n] : e.route = None
                  \/ \A e \in graph.emits[n] : e.route # None
    <2>1. PICK keys \in (SUBSET RouteKeys) \cup {{None}} : graph.emits[n] = Answers(keys)
      OBVIOUS
    <2>2. \A e \in graph.emits[n] : e.multi = None /\ e.route \in keys
      BY <2>1 DEF Answers
    <2>3. CASE keys = {None}
      BY <2>2, <2>3
    <2>4. CASE keys \in SUBSET RouteKeys
      BY <2>2, <2>4, RouteKeysAssumption
    <2> QED
      BY <2>3, <2>4
  <1> QED
    BY <1>1 DEF OneRoute
-----------------------------------------------------------------------------
(* The idea loops: one token goes round, and where it stands says which     *)
(* nodes have had their turn with the idea under way.                       *)

(* The nodes that have a turn with each idea, and those that have had it    *)
(* when control is at a node; with control at n, every node has run as      *)
(* often as the counter, once more if it has had its turn.                  *)
Turn == {"generate", "evaluate", "judge"}
Turned ==
  [ retrieve |-> {}, generate |-> {}, evaluate |-> {"generate"},
    judge |-> {"generate", "evaluate"}, saver |-> Turn, counter |-> Turn, export |-> {} ]
InTurn(n) ==
  \A m \in Turn : Earlier(m) = Earlier("counter") + (IF m \in Turned[n] THEN 1 ELSE 0)

IdeaLoop == graph \in {ReadmeLoop, ShippedLoop}

(* What is claimed of the counts.                                           *)
InStep ==
  /\ count["counter"] <= count["judge"]
  /\ count["judge"] <= count["evaluate"]
  /\ count["evaluate"] <= count["generate"]
  /\ count["generate"] <= count["counter"] + 1

(* Control is at one node; where that is fixes the counts, and when it is   *)
(* nowhere any more the counts are final.                                   *)
TokenInv ==
  IdeaLoop =>
    /\ pc # "done" => \A n \in ready : ready = {n} /\ InTurn(n)
    /\ graph = ShippedLoop /\ pc # "done" /\ "saver" \in ready
         => route["judge"] = "accept"
    /\ pc = "done" \/ ready = {} => InStep

(* The shipped loop: what depends on what, and where routes lead.           *)
LEMMA ShippedWiring ==
  ASSUME graph = ShippedLoop, graph \in GraphType
  PROVE  /\ graph.nodes = Turn \cup {"retrieve", "saver", "counter", "export"}
         /\ Deps("retrieve") = {} /\ Deps("generate") = {"retrieve"}
         /\ Deps("evaluate") = {"generate"} /\ Deps("judge") = {"evaluate"}
         /\ Deps("saver") = {} /\ Deps("counter") = {"judge"} /\ Deps("export") = {"counter"}
         /\ FirstLevel(graph) = {"retrieve"}
         /\ {m \in graph.nodes : "retrieve" \in Deps(m)} = {"generate"}
         /\ {m \in graph.nodes : "generate" \in Deps(m)} = {"evaluate"}
         /\ {m \in graph.nodes : "evaluate" \in Deps(m)} = {"judge"}
         /\ {m \in graph.nodes : "export" \in Deps(m)} = {}
  <1>1. graph.nodes = {"retrieve", "generate", "evaluate", "judge", "saver", "counter",
                       "export"}
    BY DEF ShippedLoop, Document
  <1>2. graph.nodes \subseteq Nodes
    BY GraphFields
  <1>3. /\ Deps("retrieve") = {} /\ Deps("generate") = {"retrieve"}
        /\ Deps("evaluate") = {"generate"} /\ Deps("judge") = {"evaluate"}
        /\ Deps("saver") = {} /\ Deps("counter") = {"judge"} /\ Deps("export") = {"counter"}
    BY <1>1, <1>2 DEF ShippedLoop, Document, Complete, Deps
  <1>4. /\ graph.reads["retrieve"] = {} /\ graph.reads["saver"] = {"judge"}
    BY <1>1, <1>2 DEF ShippedLoop, Document, Complete
  <1>5. FirstLevel(graph) = {"retrieve"}
    BY <1>1, <1>3, <1>4 DEF FirstLevel, Deps
  <1>6. /\ {m \in graph.nodes : "retrieve" \in Deps(m)} = {"generate"}
        /\ {m \in graph.nodes : "generate" \in Deps(m)} = {"evaluate"}
        /\ {m \in graph.nodes : "evaluate" \in Deps(m)} = {"judge"}
        /\ {m \in graph.nodes : "export" \in Deps(m)} = {}
    BY <1>1, <1>3
  <1> QED
    BY <1>1, <1>3, <1>5, <1>6 DEF Turn

(* The shipped loop's routes tables and the answers of its nodes.           *)
LEMMA ShippedRoutes ==
  ASSUME graph = ShippedLoop, graph \in GraphType
  PROVE  /\ \A n \in {"retrieve", "generate", "evaluate", "export"} :
              \A k \in RouteKeys : graph.routes[n][k] = Unrouted
         /\ graph.routes["judge"]["accept"] = "saver"
         /\ graph.routes["judge"]["reject"] = "counter"
         /\ graph.routes["saver"]["default"] = "counter"
         /\ graph.routes["counter"]["continue"] = "retrieve"
         /\ graph.routes["counter"]["exit"] = "export"
         /\ graph.emits["judge"] = Answers({"accept", "reject"})
         /\ graph.emits["counter"] = Answers({"continue", "exit"})
         /\ \A n \in Nodes \ {"judge", "counter"} : graph.emits[n] = Answers({None})
  <1>1. {"retrieve", "generate", "evaluate", "judge", "saver", "counter", "export"}
          \subseteq Nodes
    BY GraphFields DEF ShippedLoop, Document
  <1>2. \A n \in {"retrieve", "generate", "evaluate", "export"} :
          \A k \in RouteKeys : graph.routes[n][k] = Unrouted
    BY <1>1 DEF ShippedLoop, Document, Complete, Table
  <1>3. /\ graph.routes["judge"]["accept"] = "saver"
        /\ graph.routes["judge"]["reject"] = "counter"
    BY <1>1, LoopKeysAssumption DEF ShippedLoop, Document, Complete, Table
  <1>4. graph.routes["saver"]["default"] = "counter"
    BY <1>1, RouteKeysAssumption DEF ShippedLoop, Document, Complete, Table
  <1>5. /\ graph.routes["counter"]["continue"] = "retrieve"
        /\ graph.routes["counter"]["exit"] = "export"
    BY <1>1, LoopKeysAssumption DEF ShippedLoop, Document, Complete, Table
  <1>6. /\ graph.emits["judge"] = Answers({"accept", "reject"})
        /\ graph.emits["counter"] = Answers({"continue", "exit"})
    BY <1>1 DEF ShippedLoop, Document, Complete, LoopAnswers, JudgeAnswers, CounterAnswers
  <1>7. \A n \in Nodes \ {"judge", "counter"} : graph.emits[n] = Answers({None})
    BY <1>1 DEF ShippedLoop, Document, Complete, LoopAnswers, JudgeAnswers, CounterAnswers
  <1> QED
    BY <1>2, <1>3, <1>4, <1>5, <1>6, <1>7

(* In the shipped loop a node answers with one route or with none.          *)
LEMMA ShippedOneRoute ==
  ASSUME graph = ShippedLoop, graph \in GraphType
  PROVE  OneRoute
  <1>1. graph.modules = graph.nodes
    BY DEF ShippedLoop, Document
  <1>2. ASSUME NEW n \in Nodes
        PROVE  \E keys \in (SUBSET RouteKeys) \cup {{None}} : graph.emits[n] = Answers(keys)
    <2>1. {"accept", "reject"} \in SUBSET RouteKeys /\ {"continue", "exit"} \in SUBSET RouteKeys
      BY LoopKeysAssumption
    <2>2. CASE n \in {"judge", "counter"}
      BY <2>1, <2>2, ShippedRoutes
    <2>3. CASE n \notin {"judge", "counter"}
      BY <2>3, ShippedRoutes
    <2> QED
      BY <2>2, <2>3
  <1> QED
    BY <1>1, <1>2, RoutesAreOne

(* Where control may go from a node of either loop.                         *)
Onward(n) ==
  CASE n = "retrieve" -> {"generate"}
    [] n = "generate" -> {"evaluate"}
    [] n = "evaluate" -> {"judge"}
    [] n = "judge" -> {"saver", "counter"}
    [] n = "saver" -> {"counter"}
    [] n = "counter" -> {"retrieve", "generate", "export"}
    [] OTHER -> {}

(* Control goes round the loop, one node at a time.                         *)
LEMMA ShippedOnward ==
  ASSUME IInv, RoutedInv, graph = ShippedLoop, EndRound, NEW n, ready = {n}, InTurn(n),
         NEW m \in NextReady
  PROVE  /\ NextReady = {m} /\ n \notin failed
         /\ m \in Onward(n)
         /\ m = "saver" => route["judge"] = "accept"
  <1>1. graph \in GraphType /\ TypeOK /\ OneRoute
    BY ShippedOneRoute DEF IInv, TypeOK
  <1>2. /\ n \in graph.nodes /\ graph.nodes \subseteq Nodes
        /\ \A c \in Nodes : Earlier(c) \in Nat /\ (Earlier(c) > 0 => c \in completed)
        /\ n \notin failed => n \in completed
    BY <1>1, GraphFields, RoundsCount DEF RoutedInv
  <1>3. Candidates = IF n \in failed THEN {} ELSE Successors(n) \ failed
    BY <1>1, OnlyCandidates
  <1>4. n \notin failed
    BY <1>3, OneNext
  <1>5. ASSUME NEW c, Successors(n) = {c}, Deps(c) \subseteq completed
        PROVE  NextReady = {m} /\ m = c
    BY <1>3, <1>4, <1>5, OneNext DEF DepsMet
  <1> USE DEF Onward
  <1>6. CASE n \in {"retrieve", "generate", "evaluate", "export"}
    <2>1. Successors(n) = {c \in graph.nodes : n \in Deps(c)}
      BY <1>1, <1>2, <1>6, ShippedRoutes, WhereControlGoes, RouteKeysAssumption DEF TypeOK
    <2>2. CASE n = "retrieve"
      <3>1. Successors(n) = {"generate"} /\ Deps("generate") = {n}
        BY <1>1, <2>1, <2>2, ShippedWiring
      <3> QED
        BY <1>2, <1>4, <1>5, <2>2, <3>1
    <2>3. CASE n = "generate"
      <3>1. Successors(n) = {"evaluate"} /\ Deps("evaluate") = {n}
        BY <1>1, <2>1, <2>3, ShippedWiring
      <3> QED
        BY <1>2, <1>4, <1>5, <2>3, <3>1
    <2>4. CASE n = "evaluate"
      <3>1. Successors(n) = {"judge"} /\ Deps("judge") = {n}
        BY <1>1, <2>1, <2>4, ShippedWiring
      <3> QED
        BY <1>2, <1>4, <1>5, <2>4, <3>1
    <2>5. CASE n = "export"
      BY <1>1, <1>3, <2>1, <2>5, ShippedWiring, OneNext
    <2> QED
      BY <1>6, <2>2, <2>3, <2>4, <2>5
  <1>7. CASE n = "judge"
    <2>1. route["judge"] \in {"accept", "reject"}
      BY <1>1, <1>2, <1>4, <1>7, ShippedRoutes, RouteOfCompleted
    <2>2. CASE route["judge"] = "accept"
      <3>1. Successors(n) = {"saver"} /\ Deps("saver") = {}
        BY <1>1, <1>2, <1>7, <2>2, ShippedWiring, ShippedRoutes, WhereControlGoes,
           LoopKeysAssumption
      <3> QED
        BY <1>4, <1>5, <1>7, <2>2, <3>1
    <2>3. CASE route["judge"] = "reject"
      <3>1. Successors(n) = {"counter"} /\ Deps("counter") = {n}
        BY <1>1, <1>2, <1>7, <2>3, ShippedWiring, ShippedRoutes, WhereControlGoes,
           LoopKeysAssumption
      <3> QED
        BY <1>2, <1>4, <1>5, <1>7, <3>1
    <2> QED
      BY <2>1, <2>2, <2>3
  <1>8. CASE n = "saver"
    <2>1. route["saver"] \in {None}
      BY <1>1, <1>2, <1>4, <1>8, ShippedRoutes, RouteOfCompleted
    <2>2. Successors(n) = {"counter"} /\ Deps("counter") = {"judge"}
      BY <1>1, <1>2, <1>8, <2>1, ShippedWiring, ShippedRoutes, WhereControlGoes
    <2>3. "judge" \in completed
      BY <1>1, <1>2, <1>8, ShippedWiring DEF InTurn, Turn, Turned
    <2> QED
      BY <1>4, <1>5, <1>8, <2>2, <2>3
  <1>9. CASE n = "counter"
    <2>1. route["counter"] \in {"continue", "exit"}
      BY <1>1, <1>2, <1>4, <1>9, ShippedRoutes, RouteOfCompleted
    <2>2. CASE route["counter"] = "continue"
      <3>1. Successors(n) = {"retrieve"} /\ Deps("retrieve") = {}
        BY <1>1, <1>2, <1>9, <2>2, ShippedWiring, ShippedRoutes, WhereControlGoes,
           LoopKeysAssumption
      <3> QED
        BY <1>4, <1>5, <1>9, <3>1
    <2>3. CASE route["counter"] = "exit"
      <3>1. Successors(n) = {"export"} /\ Deps("export") = {n}
        BY <1>1, <1>2, <1>9, <2>3, ShippedWiring, ShippedRoutes, WhereControlGoes,
           LoopKeysAssumption
      <3> QED
        BY <1>2, <1>4, <1>5, <1>9, <3>1
    <2> QED
      BY <2>1, <2>2, <2>3
  <1> QED
    BY <1>1, <1>2, <1>6, <1>7, <1>8, <1>9, ShippedWiring DEF Turn

(* The README's loop: what depends on what, and where routes lead.          *)
LEMMA ReadmeWiring ==
  ASSUME graph = ReadmeLoop, graph \in GraphType
  PROVE  /\ graph.nodes = {"retrieve", "generate", "evaluate", "judge", "saver", "counter"}
         /\ Deps("retrieve") = {} /\ Deps("generate") = {"retrieve"}
         /\ Deps("evaluate") = {"generate"} /\ Deps("judge") = {"evaluate"}
         /\ Deps("saver") = {"judge"} /\ Deps("counter") = {"judge", "saver"}
         /\ FirstLevel(graph) = {"retrieve"}
         /\ {m \in graph.nodes : "retrieve" \in Deps(m)} = {"generate"}
         /\ {m \in graph.nodes : "generate" \in Deps(m)} = {"evaluate"}
         /\ {m \in graph.nodes : "evaluate" \in Deps(m)} = {"judge"}
         /\ {m \in graph.nodes : "saver" \in Deps(m)} = {"counter"}
         /\ {m \in graph.nodes : "counter" \in Deps(m)} = {}
  <1>1. graph.nodes = {"retrieve", "generate", "evaluate", "judge", "saver", "counter"}
    BY DEF ReadmeLoop, Document
  <1>2. graph.nodes \subseteq Nodes
    BY GraphFields
  <1>3. /\ Deps("retrieve") = {} /\ Deps("generate") = {"retrieve"}
        /\ Deps("evaluate") = {"generate"} /\ Deps("judge") = {"evaluate"}
        /\ Deps("saver") = {"judge"} /\ Deps("counter") = {"judge", "saver"}
    BY <1>1, <1>2 DEF ReadmeLoop, Document, Complete, Deps
  <1>4. \A n \in Nodes : graph.reads[n] = {}
    BY DEF ReadmeLoop, Document, Complete
  <1>5. FirstLevel(graph) = {"retrieve"}
    BY <1>1, <1>2, <1>3, <1>4 DEF FirstLevel, Deps
  <1>6. /\ {m \in graph.nodes : "retrieve" \in Deps(m)} = {"generate"}
        /\ {m \in graph.nodes : "generate" \in Deps(m)} = {"evaluate"}
        /\ {m \in graph.nodes : "evaluate" \in Deps(m)} = {"judge"}
        /\ {m \in graph.nodes : "saver" \in Deps(m)} = {"counter"}
        /\ {m \in graph.nodes : "counter" \in Deps(m)} = {}
    BY <1>1, <1>3
  <1> QED
    BY <1>1, <1>3, <1>5, <1>6

(* The routes tables of the README's loop and the answers of its nodes.     *)
LEMMA ReadmeRoutes ==
  ASSUME graph = ReadmeLoop, graph \in GraphType
  PROVE  /\ \A n \in {"retrieve", "generate", "evaluate", "saver"} :
              \A k \in RouteKeys : graph.routes[n][k] = Unrouted
         /\ graph.routes["judge"]["accept"] = "saver"
         /\ graph.routes["judge"]["reject"] = "counter"
         /\ graph.routes["counter"]["continue"] = "generate"
         /\ graph.routes["counter"]["exit"] = Unrouted
         /\ graph.routes["counter"]["default"] = Unrouted
         /\ graph.emits["judge"] = Answers({"accept", "reject"})
         /\ graph.emits["counter"] = Answers({"continue", "exit"})
         /\ \A n \in Nodes \ {"judge", "counter"} : graph.emits[n] = Answers({None})
  <1>1. {"retrieve", "generate", "evaluate", "judge", "saver", "counter"} \subseteq Nodes
    BY GraphFields DEF ReadmeLoop, Document
  <1>2. \A n \in {"retrieve", "generate", "evaluate", "saver"} :
          \A k \in RouteKeys : graph.routes[n][k] = Unrouted
    BY <1>1 DEF ReadmeLoop, Document, Complete, Table
  <1>3. /\ graph.routes["judge"]["accept"] = "saver"
        /\ graph.routes["judge"]["reject"] = "counter"
    BY <1>1, LoopKeysAssumption DEF ReadmeLoop, Document, Complete, Table
  <1>4. /\ graph.routes["counter"]["continue"] = "generate"
        /\ graph.routes["counter"]["exit"] = Unrouted
        /\ graph.routes["counter"]["default"] = Unrouted
    BY <1>1, LoopKeysAssumption, RouteKeysAssumption DEF ReadmeLoop, Document, Complete, Table
  <1>5. /\ graph.emits["judge"] = Answers({"accept", "reject"})
        /\ graph.emits["counter"] = Answers({"continue", "exit"})
        /\ \A n \in Nodes \ {"judge", "counter"} : graph.emits[n] = Answers({None})
    BY <1>1 DEF ReadmeLoop, Document, Complete, LoopAnswers, JudgeAnswers, CounterAnswers
  <1> QED
    BY <1>2, <1>3, <1>4, <1>5

(* In the README's loop a node answers with one route or with none.         *)
LEMMA ReadmeOneRoute ==
  ASSUME graph = ReadmeLoop, graph \in GraphType
  PROVE  OneRoute
  <1>1. graph.modules = graph.nodes
    BY DEF ReadmeLoop, Document
  <1>2. ASSUME NEW n \in Nodes
        PROVE  \E keys \in (SUBSET RouteKeys) \cup {{None}} : graph.emits[n] = Answers(keys)
    <2>1. {"accept", "reject"} \in SUBSET RouteKeys /\ {"continue", "exit"} \in SUBSET RouteKeys
      BY LoopKeysAssumption
    <2>2. CASE n \in {"judge", "counter"}
      BY <2>1, <2>2, ReadmeRoutes
    <2>3. CASE n \notin {"judge", "counter"}
      BY <2>3, ReadmeRoutes
    <2> QED
      BY <2>2, <2>3
  <1> QED
    BY <1>1, <1>2, RoutesAreOne

(* Control goes round the loop, one node at a time; a counter whose saver   *)
(* has never run waits for it.                                              *)
LEMMA ReadmeOnward ==
  ASSUME IInv, RoutedInv, graph = ReadmeLoop, EndRound, NEW n, ready = {n}, InTurn(n),
         NEW m \in NextReady
  PROVE  NextReady = {m} /\ n \notin failed /\ m \in Onward(n)
  <1>1. graph \in GraphType /\ TypeOK /\ OneRoute
    BY ReadmeOneRoute DEF IInv, TypeOK
  <1>2. /\ n \in graph.nodes /\ graph.nodes \subseteq Nodes
        /\ \A c \in Nodes : Earlier(c) \in Nat /\ (Earlier(c) > 0 => c \in completed)
        /\ n \notin failed => n \in completed
    BY <1>1, GraphFields, RoundsCount DEF RoutedInv
  <1>3. Candidates = IF n \in failed THEN {} ELSE Successors(n) \ failed
    BY <1>1, OnlyCandidates
  <1>4. n \notin failed
    BY <1>3, OneNext
  <1>5. ASSUME NEW c, Successors(n) = {c}
        PROVE  NextReady = IF DepsMet(c) THEN {c} ELSE Pulled(c)
    BY <1>3, <1>4, <1>5, OneNext
  <1> USE DEF Onward
  <1>6. CASE n \in {"retrieve", "generate", "evaluate", "saver"}
    <2>1. Successors(n) = {c \in graph.nodes : n \in Deps(c)}
      BY <1>1, <1>2, <1>6, ReadmeRoutes, WhereControlGoes, RouteKeysAssumption DEF TypeOK
    <2>2. CASE n = "retrieve"
      <3>1. Successors(n) = {"generate"} /\ Deps("generate") = {n}
        BY <1>1, <2>1, <2>2, ReadmeWiring
      <3> QED
        BY <1>2, <1>4, <1>5, <2>2, <3>1 DEF DepsMet
    <2>3. CASE n = "generate"
      <3>1. Successors(n) = {"evaluate"} /\ Deps("evaluate") = {n}
        BY <1>1, <2>1, <2>3, ReadmeWiring
      <3> QED
        BY <1>2, <1>4, <1>5, <2>3, <3>1 DEF DepsMet
    <2>4. CASE n = "evaluate"
      <3>1. Successors(n) = {"judge"} /\ Deps("judge") = {n}
        BY <1>1, <2>1, <2>4, ReadmeWiring
      <3> QED
        BY <1>2, <1>4, <1>5, <2>4, <3>1 DEF DepsMet
    <2>5. CASE n = "saver"
      <3>1. Successors(n) = {"counter"} /\ Deps("counter") = {"judge", n}
        BY <1>1, <2>1, <2>5, ReadmeWiring
      <3>2. "judge" \in completed
        BY <1>1, <1>2, <2>5, ReadmeWiring DEF InTurn, Turn, Turned
      <3> QED
        BY <1>2, <1>4, <1>5, <2>5, <3>1, <3>2 DEF DepsMet
    <2> QED
      BY <1>6, <2>2, <2>3, <2>4, <2>5
  <1>7. CASE n = "judge"
    <2>1. route["judge"] \in {"accept", "reject"}
      BY <1>1, <1>2, <1>4, <1>7, ReadmeRoutes, RouteOfCompleted
    <2>2. CASE route["judge"] = "accept"
      <3>1. Successors(n) = {"saver"} /\ Deps("saver") = {n}
        BY <1>1, <1>2, <1>7, <2>2, ReadmeWiring, ReadmeRoutes, WhereControlGoes,
           LoopKeysAssumption
      <3> QED
        BY <1>2, <1>4, <1>5, <1>7, <3>1 DEF DepsMet
    <2>3. CASE route["judge"] = "reject"
      <3>1. Successors(n) = {"counter"} /\ Deps("counter") = {n, "saver"}
        BY <1>1, <1>2, <1>7, <2>3, ReadmeWiring, ReadmeRoutes, WhereControlGoes,
           LoopKeysAssumption
      <3>2. Pulled("counter") \subseteq {"saver"}
        BY <1>2, <1>4, <3>1 DEF Pulled
      <3> QED
        BY <1>5, <1>7, <1>4, <3>1, <3>2
    <2> QED
      BY <2>1, <2>2, <2>3
  <1>8. CASE n = "counter"
    <2>1. route["counter"] \in {"continue", "exit"}
      BY <1>1, <1>2, <1>4, <1>8, ReadmeRoutes, RouteOfCompleted
    <2>2. CASE route["counter"] = "continue"
      <3>1. Successors(n) = {"generate"} /\ Deps("generate") = {"retrieve"}
        BY <1>1, <1>2, <1>8, <2>2, ReadmeWiring, ReadmeRoutes, WhereControlGoes,
           LoopKeysAssumption
      <3>2. Pulled("generate") \subseteq {"retrieve"}
        BY <3>1 DEF Pulled
      <3> QED
        BY <1>5, <1>8, <1>4, <3>1, <3>2
    <2>3. CASE route["counter"] = "exit"
      <3>1. Successors(n) = {}
        BY <1>1, <1>2, <1>8, <2>3, ReadmeWiring, ReadmeRoutes, WhereControlGoes
      <3> QED
        BY <1>3, <3>1, OneNext
    <2> QED
      BY <2>1, <2>2, <2>3
  <1> QED
    BY <1>1, <1>2, <1>6, <1>7, <1>8, ReadmeWiring

(* What the two loops have in common.                                       *)
LEMMA LoopFacts ==
  ASSUME IdeaLoop, TypeOK
  PROVE  /\ Turn \cup {"counter", "retrieve", "saver"} \subseteq graph.nodes
         /\ graph.nodes \subseteq DOMAIN Turned
         /\ graph.nodes \subseteq Nodes
         /\ FirstLevel(graph) = {"retrieve"}
         /\ OneRoute
  <1>1. graph \in GraphType
    BY DEF TypeOK
  <1>2. CASE graph = ReadmeLoop
    BY <1>1, <1>2, ReadmeWiring, ReadmeOneRoute, GraphFields DEF Turn, Turned
  <1>3. CASE graph = ShippedLoop
    BY <1>1, <1>3, ShippedWiring, ShippedOneRoute, GraphFields DEF Turn, Turned
  <1> QED
    BY <1>2, <1>3 DEF IdeaLoop

(* A run starts at the retriever, with no idea under way.                   *)
LEMMA InitToken == Init => TokenInv
  <1> SUFFICES ASSUME Init, IdeaLoop PROVE TokenInv
    BY DEF TokenInv
  <1>1. TypeOK
    BY InitIInv DEF IInv
  <1>2. ready = {"retrieve"} /\ pc = "loop" /\ \A n \in Nodes : count[n] = 0 /\ Earlier(n) = 0
    BY <1>1, LoopFacts DEF Init, Earlier, Landed
  <1>3. InTurn("retrieve")
    BY <1>1, <1>2, LoopFacts DEF InTurn, Turn, Turned
  <1> QED
    BY <1>2, <1>3 DEF TokenInv

(* With one token in the loop the four counts are in step.                  *)
LEMMA TokenInStep ==
  ASSUME IInv, RoutedInv, TokenInv, IdeaLoop
  PROVE  InStep
  <1>1. CASE pc = "done" \/ ready = {}
    BY <1>1 DEF TokenInv
  <1>2. CASE pc # "done" /\ ready # {}
    <2>1. PICK n : n \in ready /\ ready = {n} /\ InTurn(n)
      BY <1>2 DEF TokenInv
    <2>2. /\ {"generate", "evaluate", "judge", "counter"} \subseteq Nodes
          /\ \A m \in Nodes : count[m] \in Nat
      BY LoopFacts DEF IInv, TypeOK, Turn
    <2>3. \A m \in Nodes : count[m] = Earlier(m) \/ (m = n /\ count[m] = Earlier(m) + 1)
      <3>1. \A m \in Nodes : Landed(m) => m = n
        BY <2>1 DEF IInv, TasksAreOfLevel, Landed
      <3> QED
        BY <2>2, <3>1 DEF Earlier
    <2>4. \A m \in Nodes : Earlier(m) \in Nat
      BY RoundsCount, LoopFacts DEF IInv
    <2>5. /\ Earlier("generate")
               = Earlier("counter") + (IF "generate" \in Turned[n] THEN 1 ELSE 0)
          /\ Earlier("evaluate")
               = Earlier("counter") + (IF "evaluate" \in Turned[n] THEN 1 ELSE 0)
          /\ Earlier("judge")
               = Earlier("counter") + (IF "judge" \in Turned[n] THEN 1 ELSE 0)
      BY <2>1 DEF InTurn, Turn
    <2>6. n \in DOMAIN Turned
      BY <2>1, LoopFacts DEF IInv, RoutedInv
    <2>7. CASE n = "generate"
      BY <2>2, <2>3, <2>4, <2>5, <2>7 DEF InStep, Turned, Turn
    <2>8. CASE n = "evaluate"
      BY <2>2, <2>3, <2>4, <2>5, <2>8 DEF InStep, Turned, Turn
    <2>9. CASE n = "judge"
      BY <2>2, <2>3, <2>4, <2>5, <2>9 DEF InStep, Turned, Turn
    <2>10. CASE n \in {"saver", "counter"}
      BY <2>2, <2>3, <2>4, <2>5, <2>10 DEF InStep, Turned, Turn
    <2>11. CASE n \in {"retrieve", "export"}
      BY <2>2, <2>3, <2>4, <2>5, <2>11 DEF InStep, Turned, Turn
    <2> QED
      BY <2>6, <2>7, <2>8, <2>9, <2>10, <2>11 DEF Turned
  <1> QED
    BY <1>1, <1>2

(* A level that ends passes the token on, or drops it.                      *)
LEMMA RoundPassesToken ==
  ASSUME IInv, RoutedInv, TokenInv, IdeaLoop, EndRound, NEW m \in NextReady
  PROVE  /\ NextReady = {m}
         /\ \A x \in Turn : Earlier(x)' = Earlier("counter")' + (IF x \in Turned[m] THEN 1 ELSE 0)
         /\ graph = ShippedLoop /\ m = "saver" => route["judge"] = "accept"
  <1>1. TypeOK /\ OneRoute /\ pc # "done"
    BY LoopFacts DEF IInv, EndRound
  <1>2. PICK n : n \in ready /\ ready = {n} /\ InTurn(n)
    <2>1. ready # {}
      BY <1>1 DEF NextReady, Candidates, Pulled
    <2> QED
      BY <1>1, <2>1 DEF TokenInv
  <1>3. /\ NextReady = {m} /\ n \notin failed /\ m \in Onward(n)
        /\ graph = ShippedLoop /\ m = "saver" => route["judge"] = "accept"
    BY <1>2, ShippedOnward, ReadmeOnward DEF IdeaLoop
  <1>4. Turn \cup {"counter"} \subseteq Nodes
    BY <1>1, LoopFacts
  <1>5. /\ \A c \in Nodes : Earlier(c)' = Earlier(c) + (IF c = n THEN 1 ELSE 0)
        /\ \A c \in Nodes : Earlier(c) \in Nat
    BY <1>1, <1>2, <1>3, RoundsCount
  <1>6. \A x \in Turn : Earlier(x) = Earlier("counter") + (IF x \in Turned[n] THEN 1 ELSE 0)
    BY <1>2 DEF InTurn
  <1>7. n \in DOMAIN Turned
    BY <1>1, <1>2, LoopFacts DEF RoutedInv
  <1>8. \A x \in Turn : Earlier(x)' = Earlier("counter")' + (IF x \in Turned[m] THEN 1 ELSE 0)
    <2> SUFFICES ASSUME NEW x \in Turn
                 PROVE  Earlier(x)' = Earlier("counter")' + (IF x \in Turned[m] THEN 1 ELSE 0)
      OBVIOUS
    <2>0. /\ Earlier(x)' = Earlier(x) + (IF x = n THEN 1 ELSE 0)
          /\ Earlier("counter")' = Earlier("counter") + (IF "counter" = n THEN 1 ELSE 0)
          /\ Earlier(x) \in Nat /\ Earlier("counter") \in Nat
          /\ Earlier(x) = Earlier("counter") + (IF x \in Turned[n] THEN 1 ELSE 0)
      BY <1>4, <1>5, <1>6
    <2> HIDE DEF Earlier
    <2>1. CASE n = "retrieve"
      BY <1>3, <2>0, <2>1 DEF Onward, Turned, Turn
    <2>2. CASE n = "generate"
      BY <1>3, <2>0, <2>2 DEF Onward, Turned, Turn
    <2>3. CASE n = "evaluate"
      BY <1>3, <2>0, <2>3 DEF Onward, Turned, Turn
    <2>4. CASE n = "judge"
      BY <1>3, <2>0, <2>4 DEF Onward, Turned, Turn
    <2>5. CASE n = "saver"
      BY <1>3, <2>0, <2>5 DEF Onward, Turned, Turn
    <2>6. CASE n = "counter"
      BY <1>3, <2>0, <2>6 DEF Onward, Turned, Turn
    <2>7. CASE n = "export"
      BY <1>3, <2>0, <2>7 DEF Onward
    <2> QED
      BY <1>7, <2>1, <2>2, <2>3, <2>4, <2>5, <2>6, <2>7 DEF Turned
  <1> QED
    BY <1>3, <1>8

(* No step of the runner doubles the token or lets it skip a node.          *)
LEMMA TokenKept == IInv /\ RoutedInv /\ TokenInv /\ TypeOK' /\ [Next]_vars => TokenInv'
  <1> SUFFICES ASSUME IInv, RoutedInv, TokenInv, TypeOK', [Next]_vars, IdeaLoop
               PROVE  TokenInv'
    BY SameGraph DEF TokenInv, IdeaLoop
  <1>1. graph' = graph /\ OneRoute /\ InStep
    BY SameGraph, LoopFacts, TokenInStep DEF IInv
  <1>2. Turn \cup {"counter"} \subseteq Nodes
    BY LoopFacts DEF IInv
  <1>3. CASE UNCHANGED vars
    BY <1>3 DEF vars, ctx, TokenInv, IdeaLoop, InTurn, Earlier, Landed, InStep
  <1>4. CASE BeginRound
    <2>1. \A n \in ready : InTurn(n) => InTurn(n)'
      BY <1>1, <1>2, <1>4, RoundsCount DEF InTurn
    <2>2. pc = "loop" /\ ready' = ready /\ ready # {} /\ UNCHANGED ctx /\ pc' = "level"
      BY <1>4 DEF BeginRound
    <2> QED
      BY <1>1, <2>1, <2>2 DEF TokenInv, ctx
  <1>5. CASE Finish
    BY <1>1, <1>5 DEF Finish, TokenInv, ctx, InStep
  <1>6. CASE EndRound
    <2>1. UNCHANGED ctx /\ InStep'
      BY <1>1, <1>6 DEF EndRound, ctx, InStep
    <2>2. CASE pc' = "done"
      BY <2>1, <2>2 DEF TokenInv
    <2>3. CASE pc' # "done"
      <3>1. ready' = NextReady
        BY <1>6, <2>3 DEF EndRound
      <3>2. ASSUME NEW m \in ready'
            PROVE  /\ ready' = {m} /\ InTurn(m)'
                   /\ graph = ShippedLoop /\ m = "saver" => route'["judge"] = "accept"
        BY <1>6, <2>1, <3>1, RoundPassesToken DEF InTurn, ctx
      <3> QED
        BY <1>1, <2>1, <3>2 DEF TokenInv
    <2> QED
      BY <2>2, <2>3
  <1>7. ASSUME NEW m \in Nodes, Step(m) \/ ChildEnds(m)
        PROVE  TokenInv'
    <2>1. /\ UNCHANGED <<pc, ready>> /\ pc = "level" /\ m \in ready
          /\ \A n \in Nodes : Earlier(n)' = Earlier(n)
          /\ \A n \in Nodes \ {m} : route'[n] = route[n]
      BY <1>1, <1>7, StepOfLevel
    <2>2. \A n \in ready : InTurn(n) => InTurn(n)'
      BY <1>2, <2>1 DEF InTurn
    <2>3. ready = {m}
      BY <2>1 DEF TokenInv
    <2>4. "saver" \in ready => route'["judge"] = route["judge"]
      BY <1>2, <2>1, <2>3 DEF Turn
    <2> QED
      BY <1>1, <2>1, <2>2, <2>3, <2>4 DEF TokenInv
  <1> QED
    BY <1>3, <1>4, <1>5, <1>6, <1>7 DEF Next

(* In every document whose nodes answer with one route or with none, a node *)
(* has completed exactly when it has been executed, and its recorded route  *)
(* is one of its answers: no failure, retry or repeated execution leaves a  *)
(* route behind that the node did not emit.                                 *)
THEOREM RoutedGraphs == Spec => []RoutedInv
  BY InitRouted, RoutedKept, Inductive, TypeCorrect, PTL DEF Spec

(* One idea at a time (idea_generation_loop.yaml and the README's loop):    *)
(* whatever the judge and the counter answer, whatever fails, and however   *)
(* large max_rounds is, every idea is evaluated, judged and counted once    *)
(* before the next is generated; the shipped loop saves accepted ideas      *)
(* only.                                                                    *)
THEOREM IdeasOneAtATime == Spec => []OneIdeaAtATime
  <1>1. IInv /\ RoutedInv /\ TokenInv => OneIdeaAtATime
    <2> SUFFICES ASSUME IInv, RoutedInv, TokenInv, IdeaLoop
                 PROVE  OneIdeaAtATime
      BY DEF OneIdeaAtATime, IdeaLoop
    <2>1. InStep
      BY TokenInStep
    <2>2. graph = ShippedLoop => RejectedIdeaNotSaved
      <3>1. "saver" \in Nodes
        BY LoopFacts DEF IInv
      <3> QED
        BY <3>1 DEF RejectedIdeaNotSaved, Active, IInv, TasksAreOfLevel, TokenInv
    <2> QED
      BY <2>1, <2>2 DEF OneIdeaAtATime, InStep
  <1> QED
    BY <1>1, InitToken, TokenKept, RoutedGraphs, Inductive, TypeCorrect, PTL DEF Spec
-----------------------------------------------------------------------------
(* The controlled loop: one token again, with the rounds and the decisions  *)
(* it stands for.                                                           *)

(* Rounds that have ended; controllers that look at the target.             *)
RoundsOver == IF pc = "level" THEN round - 1 ELSE round
Targeted == policy.kind \in {"threshold", "multi", "llm"}

(* Control is at node n: two rounds per decision, and only a decision to    *)
(* continue leads back to gen.                                              *)
LoopToken(n) ==
  /\ ready = {n}
  /\ RoundsOver = 2 * Earlier("control") + (IF n = "control" THEN 1 ELSE 0)
  /\ Earlier("gen") = Earlier("control") + (IF n = "control" THEN 1 ELSE 0)
  /\ n # "eval" => Earlier("control") <= policy.maxAttempts
  /\ n = "gen" /\ Earlier("control") > 0 => route["control"] = "continue"
  /\ n = "eval" => route["control"] = "exit"

(* What the decisions say of the budget and of the score they were made on. *)
Decisions ==
  count["control"] > 0 =>
    /\ route["control"] = "continue" =>
         /\ count["control"] <= policy.maxAttempts
         /\ Targeted => lastSeen < policy.target
    /\ route["control"] = "exit" /\ Targeted /\ lastSeen < policy.target
         => count["control"] >= policy.maxAttempts

(* The controlled loop's invariant.                                         *)
ControlInv ==
  /\ graph = ControlledLoop
  /\ policy \in Policies
  /\ {given, nodeScore} \subseteq (0..TopScore) \cup {None}
  /\ Decisions
  /\ pc # "done" =>
       /\ \A n \in ready : LoopToken(n)
       /\ ready = {} /\ failed = {} => count["eval"] > 0
  /\ count["control"] <= policy.maxAttempts + 1
  /\ count["gen"] <= policy.maxAttempts + 1
  /\ pc = "done" /\ failed = {} => "eval" \in completed

(* It holds of every run that was given the controlled loop.                *)
LoopInv == graph \in ControlledGraphs => ControlInv

(* The controlled loop: what depends on what.                               *)
LEMMA ControlWiring ==
  ASSUME graph = ControlledLoop, graph \in GraphType
  PROVE  /\ graph.nodes = {"gen", "control", "eval"} /\ graph.nodes \subseteq Nodes
         /\ Deps("gen") = {} /\ Deps("control") = {"gen"} /\ Deps("eval") = {"control"}
         /\ FirstLevel(graph) = {"gen"}
         /\ {m \in graph.nodes : "gen" \in Deps(m)} = {"control"}
         /\ {m \in graph.nodes : "eval" \in Deps(m)} = {}
         /\ graph.maxRounds = MaxRounds
  <1>1. graph.nodes = {"gen", "control", "eval"} /\ graph.maxRounds = MaxRounds
    BY DEF ControlledLoop, Document
  <1>2. graph.nodes \subseteq Nodes
    BY GraphFields
  <1>3. Deps("gen") = {} /\ Deps("control") = {"gen"} /\ Deps("eval") = {"control"}
    BY <1>1, <1>2 DEF ControlledLoop, Document, Complete, Deps
  <1>4. \A n \in Nodes : graph.reads[n] = {}
    BY DEF ControlledLoop, Document, Complete
  <1>5. FirstLevel(graph) = {"gen"}
    BY <1>1, <1>2, <1>3, <1>4 DEF FirstLevel, Deps
  <1> QED
    BY <1>1, <1>2, <1>3, <1>5

(* Its routes tables and the answers of its nodes.                          *)
LEMMA ControlRoutes ==
  ASSUME graph = ControlledLoop, graph \in GraphType
  PROVE  /\ \A n \in {"gen", "eval"} : \A k \in RouteKeys : graph.routes[n][k] = Unrouted
         /\ graph.routes["control"]["continue"] = "gen"
         /\ graph.routes["control"]["exit"] = "eval"
         /\ graph.emits["control"] = Answers({"continue", "exit"})
         /\ \A n \in Nodes \ {"control"} : graph.emits[n] = Answers({None})
  <1>1. {"gen", "control", "eval"} \subseteq Nodes
    BY ControlWiring
  <1>2. \A n \in {"gen", "eval"} : \A k \in RouteKeys : graph.routes[n][k] = Unrouted
    BY <1>1 DEF ControlledLoop, Document, Complete, Table
  <1>3. graph.routes["control"]["continue"] = "gen" /\ graph.routes["control"]["exit"] = "eval"
    BY <1>1, DecisionKeysAssumption DEF ControlledLoop, Document, Complete, Table
  <1>4. /\ graph.emits["control"] = Answers({"continue", "exit"})
        /\ \A n \in Nodes \ {"control"} : graph.emits[n] = Answers({None})
    BY <1>1 DEF ControlledLoop, Document, Complete
  <1> QED
    BY <1>2, <1>3, <1>4

(* Its nodes answer with one route or with none.                            *)
LEMMA ControlOneRoute ==
  ASSUME graph = ControlledLoop, graph \in GraphType
  PROVE  OneRoute
  <1>1. graph.modules = graph.nodes
    BY DEF ControlledLoop, Document
  <1>2. ASSUME NEW n \in Nodes
        PROVE  \E keys \in (SUBSET RouteKeys) \cup {{None}} : graph.emits[n] = Answers(keys)
    <2>1. {"continue", "exit"} \in SUBSET RouteKeys
      BY DecisionKeysAssumption
    <2> QED
      BY <2>1, ControlRoutes
  <1> QED
    BY <1>1, <1>2, RoutesAreOne

(* Control passes from gen to the controller and from there where the       *)
(* decision says.                                                           *)
LEMMA ControlOnward ==
  ASSUME IInv, RoutedInv, graph = ControlledLoop, NEW n, ready = {n}, EndRound
  PROVE  /\ NextReady # {} => n \notin failed
         /\ NextReady \subseteq CASE n = "gen" -> {"control"}
                                 [] n = "control" ->
                                      {IF route["control"] = "exit" THEN "eval" ELSE "gen"}
                                 [] OTHER -> {}
         /\ n = "control" /\ NextReady # {} => route["control"] \in {"continue", "exit"}
         /\ failed = {} /\ n # "eval" => NextReady # {}
         /\ n \in {"gen", "control", "eval"}
  <1>1. graph \in GraphType /\ TypeOK /\ OneRoute
    BY ControlOneRoute DEF IInv, TypeOK
  <1>2. /\ n \in graph.nodes /\ graph.nodes \subseteq Nodes /\ n \in {"gen", "control", "eval"}
        /\ n \notin failed => n \in completed
    BY <1>1, ControlWiring, RoundsCount DEF RoutedInv
  <1>3. Candidates = IF n \in failed THEN {} ELSE Successors(n) \ failed
    BY <1>1, OnlyCandidates
  <1>4. CASE n \in failed
    BY <1>2, <1>3, <1>4, OneNext
  <1>5. ASSUME n \notin failed, NEW c, Successors(n) = {c}, Deps(c) \subseteq completed
        PROVE  NextReady \subseteq {c} /\ (failed = {} => NextReady = {c})
    BY <1>3, <1>5, OneNext DEF DepsMet
  <1>6. CASE n = "gen" /\ n \notin failed
    <2>1. Successors(n) = {"control"} /\ Deps("control") = {n}
      BY <1>1, <1>2, <1>6, ControlWiring, ControlRoutes, WhereControlGoes, RouteKeysAssumption
         DEF TypeOK
    <2> QED
      BY <1>2, <1>5, <1>6, <2>1
  <1>7. CASE n = "control" /\ n \notin failed
    <2>1. route["control"] \in {"continue", "exit"}
      BY <1>1, <1>2, <1>7, ControlRoutes, RouteOfCompleted
    <2>2. Successors(n) = {IF route["control"] = "exit" THEN "eval" ELSE "gen"}
      <3>1. CASE route["control"] = "exit"
        BY <1>1, <1>2, <1>7, <3>1, ControlWiring, ControlRoutes, WhereControlGoes,
           DecisionKeysAssumption
      <3>2. CASE route["control"] = "continue"
        BY <1>1, <1>2, <1>7, <3>2, ControlWiring, ControlRoutes, WhereControlGoes,
           DecisionKeysAssumption
      <3> QED
        BY <2>1, <3>1, <3>2
    <2>3. Deps("eval") = {n} /\ Deps("gen") = {}
      BY <1>1, <1>7, ControlWiring
    <2> QED
      BY <1>2, <1>5, <1>7, <2>1, <2>2, <2>3
  <1>8. CASE n = "eval" /\ n \notin failed
    <2>1. Successors(n) = {}
      BY <1>1, <1>2, <1>8, ControlWiring, ControlRoutes, WhereControlGoes, RouteKeysAssumption
         DEF TypeOK
    <2> QED
      BY <1>2, <1>3, <1>8, <2>1, OneNext
  <1> QED
    BY <1>2, <1>4, <1>6, <1>7, <1>8

(* A step with a controller is a step of the runner.                        *)
LEMMA LoopStepsAreSteps ==
  ASSUME TypeOK, [LoopNext]_allVars
  PROVE  [Next]_vars
  <1>1. graph \in ControlledGraphs => {"gen", "control", "eval"} \subseteq Nodes
    BY ControlWiring DEF TypeOK, ControlledGraphs
  <1> QED
    BY <1>1 DEF LoopNext, Scored, Decided, Elsewhere, Next, Step, allVars

(* A run starts at gen, with no decision taken.                             *)
LEMMA InitControl ==
  LoopInit => LoopInv
  <1> SUFFICES ASSUME LoopInit, graph \in ControlledGraphs PROVE ControlInv
    BY DEF LoopInv
  <1>1. TypeOK /\ graph = ControlledLoop
    BY InitIInv DEF IInv, LoopInit, Init, ControlledGraphs
  <1>2. /\ ready = {"gen"} /\ pc = "loop" /\ round = 0
        /\ {"gen", "control", "eval"} \subseteq Nodes
        /\ \A n \in Nodes : count[n] = 0 /\ Earlier(n) = 0 /\ route[n] = None
    BY <1>1, ControlWiring DEF LoopInit, Init, Earlier, Landed, TypeOK
  <1>3. policy \in Policies /\ policy.maxAttempts \in Nat \ {0}
    BY PoliciesAssumption DEF LoopInit
  <1>4. LoopToken("gen")
    BY <1>2, <1>3 DEF LoopToken, RoundsOver
  <1>5. Decisions /\ count["gen"] <= policy.maxAttempts + 1
    BY <1>2, <1>3 DEF Decisions
  <1> QED
    BY <1>1, <1>2, <1>3, <1>4, <1>5 DEF ControlInv, LoopInit

(* What the controllers that look at the target answer.                     *)
LEMMA TargetDecides ==
  ASSUME IInv, ControlInv
  PROVE  /\ policy.maxAttempts \in Nat \ {0} /\ policy.target \in Nat
         /\ Seen \in Nat
         /\ Spent => Exits \subseteq {TRUE}
         /\ Targeted /\ Met => Exits \subseteq {TRUE}
         /\ Targeted /\ ~Met /\ ~Spent => Exits \subseteq {FALSE}
  <1>1. /\ policy.maxAttempts \in Nat \ {0} /\ policy.target \in Nat /\ policy.kind \in Kinds
    BY PoliciesAssumption DEF ControlInv
  <1>2. Seen \in Nat
    BY PoliciesAssumption DEF Seen, OrDefault, ControlInv
  <1>3. Spent => Exits \subseteq {TRUE}
    BY <1>1 DEF Exits, Kinds, ThresholdExits, PatienceExits, ImprovingExits, LLMExits,
                MultiCriteriaExits
  <1>4. Targeted =>
          Exits = CASE policy.kind = "threshold" -> ThresholdExits
                    [] policy.kind = "llm"       -> LLMExits
                    [] policy.kind = "multi"     -> MultiCriteriaExits
    BY DEF Targeted, Exits
  <1>5. ASSUME Targeted
        PROVE  /\ Met => Exits \subseteq {TRUE}
               /\ ~Met /\ ~Spent => Exits \subseteq {FALSE}
    <2>1. CASE policy.kind = "threshold"
      <3>1. Exits = {Met \/ Spent}
        BY <1>4, <1>5, <2>1 DEF ThresholdExits
      <3> QED
        BY <3>1 DEF Met, Spent
    <2>2. CASE policy.kind = "multi"
      <3>1. Exits = {Met \/ Spent}
        BY <1>4, <1>5, <2>2 DEF MultiCriteriaExits
      <3> QED
        BY <3>1 DEF Met, Spent
    <2>3. CASE policy.kind = "llm"
      <3>1. Exits = IF Spent THEN {TRUE} ELSE {Met}
        BY <1>4, <1>5, <2>3 DEF LLMExits
      <3>2. Met => Met = TRUE
        BY DEF Met
      <3>3. ~Met => Met = FALSE
        BY DEF Met
      <3> QED
        BY <3>1, <3>2, <3>3, Zenon
    <2>4. policy.kind = "threshold" \/ policy.kind = "multi" \/ policy.kind = "llm"
      BY <1>5 DEF Targeted
    <2> QED
      BY <2>1, <2>2, <2>3, <2>4
  <1> QED
    BY <1>1, <1>2, <1>3, <1>5

(* A decision.                                                              *)
LEMMA DecidedKeeps ==
  ASSUME IInv, RoutedInv, ControlInv, TypeOK', RoutedInv', Decided
  PROVE  /\ Decisions'
         /\ count'["control"] <= policy.maxAttempts + 1
  <1>1. /\ graph = ControlledLoop /\ graph \in GraphType /\ graph' = graph
        /\ {"gen", "control", "eval"} \subseteq Nodes
    BY ControlWiring DEF ControlInv, IInv, TypeOK, Decided, CollectResult
  <1>2. pc = "level" /\ "control" \in ready /\ Earlier("control") = count["control"]
    BY <1>1 DEF Decided, CollectResult, IInv, TasksAreOfLevel, Earlier, Landed
  <1>3. count["control"] \in Nat /\ count["control"] <= policy.maxAttempts
    BY <1>1, <1>2 DEF ControlInv, LoopToken, IInv, TypeOK
  <1>4. /\ count'["control"] = count["control"] + 1 /\ "control" \in completed'
        /\ lastSeen' = Seen /\ policy' = policy
        /\ (route'["control"] = "exit") \in Exits
    BY <1>1 DEF Decided, CollectResult, IInv, TypeOK, ctx
  <1>5. route'["control"] \in {"continue", "exit"}
    BY <1>1, <1>4, ControlRoutes, ControlOneRoute DEF RoutedInv, OneRoute, Answers
  <1>6. /\ policy.maxAttempts \in Nat \ {0} /\ policy.target \in Nat /\ Seen \in Nat
        /\ Spent => route'["control"] = "exit"
        /\ Targeted /\ Met => route'["control"] = "exit"
        /\ Targeted /\ ~Met /\ ~Spent => route'["control"] # "exit"
    BY <1>4, TargetDecides
  <1>7. Spent <=> (IF count["control"] > 0 THEN count["control"] ELSE 1) >= policy.maxAttempts
    BY <1>3, <1>6 DEF Spent, Attempt
  <1>8. /\ route'["control"] = "continue" =>
             /\ count'["control"] <= policy.maxAttempts
             /\ Targeted => lastSeen' < policy.target
        /\ route'["control"] = "exit" /\ Targeted /\ lastSeen' < policy.target
             => count'["control"] >= policy.maxAttempts
    <2>1. Met <=> Seen >= policy.target
      BY DEF Met
    <2>2. CASE route'["control"] = "continue"
      BY <1>3, <1>4, <1>6, <1>7, <2>1, <2>2
    <2>3. CASE route'["control"] = "exit"
      BY <1>3, <1>4, <1>6, <1>7, <2>1, <2>3
    <2> QED
      BY <1>5, <2>2, <2>3
  <1>9. Decisions'
    BY <1>4, <1>8 DEF Decisions, Targeted
  <1> QED
    BY <1>3, <1>4, <1>6, <1>9

(* A level ends.                                                            *)
LEMMA RoundPassesControl ==
  ASSUME IInv, RoutedInv, ControlInv, EndRound, UNCHANGED loopVars, NEW m \in NextReady
  PROVE  /\ NextReady = {m}
         /\ ready' = NextReady /\ pc' = "loop" => LoopToken(m)'
  <1>1. TypeOK /\ OneRoute /\ pc = "level" /\ graph = ControlledLoop /\ graph' = graph
    BY ControlOneRoute DEF IInv, EndRound, ControlInv, TypeOK
  <1>2. PICK n : n \in ready /\ ready = {n} /\ LoopToken(n)
    <2>1. ready # {}
      BY <1>1 DEF NextReady, Candidates, Pulled
    <2> QED
      BY <1>1, <2>1 DEF ControlInv, LoopToken
  <1>3. /\ n \notin failed /\ n \in {"gen", "control", "eval"}
        /\ NextReady \subseteq CASE n = "gen" -> {"control"}
                                 [] n = "control" ->
                                      {IF route["control"] = "exit" THEN "eval" ELSE "gen"}
                                 [] OTHER -> {}
        /\ n = "control" => route["control"] \in {"continue", "exit"}
    BY <1>1, <1>2, ControlOnward
  <1>4. {"gen", "control", "eval"} \subseteq Nodes
    BY <1>1, ControlWiring DEF TypeOK
  <1>5. /\ \A c \in Nodes : Earlier(c)' = Earlier(c) + (IF c = n THEN 1 ELSE 0)
        /\ \A c \in Nodes : Earlier(c) \in Nat /\ count[c] \in Nat
        /\ \A c \in Nodes : Earlier(c)' = count[c]
    <2>1. \A c \in Nodes : Earlier(c)' = Earlier(c) + (IF c = n THEN 1 ELSE 0)
      BY <1>1, <1>2, <1>3, RoundsCount
    <2>2. \A c \in Nodes : Earlier(c) \in Nat /\ count[c] \in Nat
      BY <1>1, RoundsCount DEF TypeOK
    <2>3. \A c \in Nodes : Earlier(c)' = count[c]
      BY <1>1 DEF EndRound, Earlier, Landed, ctx, TypeOK
    <2> QED
      BY <2>1, <2>2, <2>3
  <1>6. UNCHANGED <<route, round, policy>>
    BY DEF EndRound, ctx, loopVars
  <1>7. round \in Nat /\ policy.maxAttempts \in Nat
    BY <1>1, TargetDecides DEF TypeOK
  <1>8. ASSUME ready' = NextReady, pc' = "loop"
        PROVE  LoopToken(m)'
    <2>1. RoundsOver' = RoundsOver + 1
      BY <1>1, <1>6, <1>7, <1>8 DEF RoundsOver
    <2>2. /\ RoundsOver = 2 * Earlier("control") + (IF n = "control" THEN 1 ELSE 0)
          /\ RoundsOver \in Int
      BY <1>1, <1>2, <1>7 DEF LoopToken, RoundsOver
    <2>3. Earlier("gen") = Earlier("control") + (IF n = "control" THEN 1 ELSE 0)
      BY <1>2 DEF LoopToken
    <2>4. n # "eval" => Earlier("control") <= policy.maxAttempts
      BY <1>2 DEF LoopToken
    <2>5. /\ Earlier("control")' = Earlier("control") + (IF n = "control" THEN 1 ELSE 0)
          /\ Earlier("gen")' = Earlier("gen") + (IF n = "gen" THEN 1 ELSE 0)
          /\ Earlier("control") \in Nat /\ Earlier("gen") \in Nat
          /\ Earlier("control")' = count["control"] /\ count["control"] \in Nat
      BY <1>4, <1>5
    <2> HIDE DEF Earlier, RoundsOver
    <2>6. CASE n = "gen"
      <3>1. m = "control" /\ NextReady = {"control"}
        BY <1>3, <2>6
      <3> QED
        BY <1>6, <1>8, <2>1, <2>2, <2>3, <2>4, <2>5, <2>6, <3>1 DEF LoopToken
    <2>7. CASE n = "control" /\ route["control"] = "exit"
      <3>1. m = "eval" /\ NextReady = {"eval"}
        BY <1>3, <2>7
      <3> QED
        BY <1>6, <1>8, <2>1, <2>2, <2>3, <2>5, <2>7, <3>1 DEF LoopToken
    <2>8. CASE n = "control" /\ route["control"] = "continue"
      <3>1. m = "gen" /\ NextReady = {"gen"}
        BY <1>3, <2>8
      <3>2. Earlier("control")' <= policy.maxAttempts
        BY <2>5, <2>8 DEF ControlInv, Decisions
      <3> QED
        BY <1>6, <1>8, <2>1, <2>2, <2>3, <2>5, <2>8, <3>1, <3>2 DEF LoopToken
    <2> QED
      BY <1>3, <2>6, <2>7, <2>8
  <1> QED
    BY <1>3, <1>8

(* No step breaks the controlled loop's invariant: rounds and decisions are *)
(* counted together, and a budget is never overdrawn.                       *)
LEMMA ControlKept ==
  ASSUME RoundsSuffice
  PROVE  /\ IInv /\ RoutedInv /\ ControlInv /\ TypeOK' /\ RoutedInv' /\ [LoopNext]_allVars
         => ControlInv'
  <1> SUFFICES ASSUME IInv, RoutedInv, ControlInv, TypeOK', RoutedInv', [LoopNext]_allVars
               PROVE  ControlInv'
    OBVIOUS
  <1>1. /\ graph = ControlledLoop /\ graph' = graph /\ OneRoute /\ TypeOK
        /\ {"gen", "control", "eval"} \subseteq Nodes /\ graph.maxRounds = MaxRounds
        /\ ready \subseteq {"gen", "control", "eval"}
    BY SameGraph, LoopStepsAreSteps, ControlOneRoute, ControlWiring
       DEF IInv, ControlInv, TypeOK, RoutedInv
  <1>2. /\ policy' = policy /\ policy.maxAttempts \in Nat \ {0} /\ Seen \in Nat
        /\ policy.target \in Nat
        /\ MaxRounds >= 2 * (policy.maxAttempts + 1) + 1 /\ MaxRounds \in Nat
        /\ {given', nodeScore'} \subseteq (0..TopScore) \cup {None}
    BY TargetDecides, MaxRoundsAssumption
       DEF LoopNext, Scored, Decided, Elsewhere, loopVars, allVars, ControlInv, RoundsSuffice
  <1>3. /\ \A c \in Nodes : count[c] \in Nat /\ Earlier(c) \in Nat
        /\ \A c \in Nodes : c \in completed <=> count[c] > 0
    BY <1>1, RoundsCount DEF TypeOK, RoutedInv
  (* Rounds: nothing is executed.                                           *)
  <1>4. CASE /\ UNCHANGED <<ctx, loopVars, graph>>
             /\ UNCHANGED vars \/ BeginRound \/ EndRound \/ Finish
    <2>1. Decisions' /\ count'["control"] <= policy'.maxAttempts + 1
          /\ count'["gen"] <= policy'.maxAttempts + 1
      BY <1>4 DEF ControlInv, Decisions, Targeted, ctx, loopVars
    <2>2. UNCHANGED <<count, failed, completed, route>>
      BY <1>4 DEF ctx
    <2>3. CASE UNCHANGED vars
      <3>1. \A n \in ready' : LoopToken(n)' = LoopToken(n)
        BY <1>4, <2>3 DEF vars, ctx, loopVars, LoopToken, Earlier, Landed, RoundsOver
      <3> QED
        BY <1>1, <1>2, <2>1, <2>2, <2>3, <3>1 DEF ControlInv, vars
    <2>4. CASE BeginRound
      <3>1. /\ pc = "loop" /\ pc' = "level" /\ ready' = ready /\ ready # {}
            /\ round' = round + 1 /\ round \in Nat
        BY <1>1, <2>4 DEF BeginRound, TypeOK
      <3>2. RoundsOver' = RoundsOver
        BY <3>1 DEF RoundsOver
      <3>3. \A c \in Nodes : Earlier(c)' = Earlier(c)
        BY <1>1, <2>4, RoundsCount
      <3>4. \A n \in ready' : LoopToken(n)'
        BY <1>1, <1>2, <2>2, <3>1, <3>2, <3>3 DEF ControlInv, LoopToken
      <3> QED
        BY <1>1, <1>2, <2>1, <2>2, <3>1, <3>4 DEF ControlInv
    <2>5. CASE EndRound
      <3>1. CASE pc' = "done"
        BY <1>1, <1>2, <2>1, <2>2, <2>5, <3>1 DEF EndRound, ControlInv
      <3>2. CASE pc' # "done"
        <4>1. pc' = "loop" /\ pc = "level" /\ ready' = NextReady
          BY <2>5, <3>2 DEF EndRound
        <4>2. \A n \in ready' : LoopToken(n)'
          BY <1>4, <2>5, <4>1, RoundPassesControl
        <4>3. ready' = {} /\ failed' = {} => count'["eval"] > 0
          <5> SUFFICES ASSUME NextReady = {}, failed = {}
                       PROVE  count["eval"] > 0
            BY <2>2, <4>1
          <5>1. CASE ready = {}
            BY <4>1, <5>1 DEF ControlInv
          <5>2. ASSUME NEW n \in ready
                PROVE  count["eval"] > 0
            <6>1. ready = {n}
              BY <4>1 DEF ControlInv, LoopToken
            <6>2. n = "eval"
              BY <1>1, <2>5, <6>1, ControlOnward
            <6> QED
              BY <1>1, <1>3, <2>5, <6>1, <6>2, RoundsCount
          <5> QED
            BY <5>1, <5>2
        <4> QED
          BY <1>1, <1>2, <2>1, <2>2, <4>1, <4>2, <4>3 DEF ControlInv
      <3> QED
        BY <3>1, <3>2
    <2>6. CASE Finish
      <3>1. pc = "loop" /\ pc' = "done" /\ (ready = {} \/ round >= MaxRounds) /\ round \in Nat
        BY <1>1, <2>6 DEF Finish, TypeOK
      <3>2. failed = {} => "eval" \in completed
        <4> SUFFICES ASSUME failed = {}
                     PROVE  "eval" \in completed
          OBVIOUS
        <4>1. CASE ready = {}
          BY <1>1, <1>3, <3>1, <4>1 DEF ControlInv
        <4>2. ASSUME NEW n \in ready, round >= MaxRounds
              PROVE  FALSE
          <5>1. LoopToken(n) /\ n \in {"gen", "control", "eval"}
            BY <1>1, <3>1 DEF ControlInv
          <5>2. round = 2 * Earlier("control") + (IF n = "control" THEN 1 ELSE 0)
            BY <3>1, <5>1 DEF LoopToken, RoundsOver
          <5>3. /\ Earlier("control") \in Nat /\ Earlier("control") <= policy.maxAttempts + 1
                /\ n # "eval" => Earlier("control") <= policy.maxAttempts
            <6>1. Earlier("control") = count["control"]
              BY <3>1 DEF Earlier, Landed
            <6> QED
              BY <1>1, <1>3, <5>1, <6>1 DEF ControlInv, LoopToken
          <5> QED
            BY <1>2, <4>2, <5>1, <5>2, <5>3
        <4> QED
          BY <3>1, <4>1, <4>2
      <3> QED
        BY <1>1, <1>2, <2>1, <2>2, <3>1, <3>2 DEF ControlInv
    <2> QED
      BY <1>4, <2>3, <2>4, <2>5, <2>6
  (* A step of one of the three nodes.                                      *)
  <1>5. ASSUME NEW m \in {"gen", "control", "eval"}, Step(m) \/ ChildEnds(m),
               \/ m = "control" /\ Decided
               \/ /\ ~(m = "control" /\ CollectResult(m))
                  /\ UNCHANGED <<policy, lastSeen>>
        PROVE  ControlInv'
    <2>1. /\ UNCHANGED <<pc, round, ready>>
          /\ pc = "level" /\ m \in ready /\ task[m] # "settled"
          /\ failed \subseteq failed'
          /\ \A n \in Nodes : Earlier(n)' = Earlier(n)
          /\ \A n \in Nodes \ {m} : route'[n] = route[n] /\ count'[n] = count[n]
      BY <1>1, <1>5, StepOfLevel
    <2>2. /\ ready = {m} /\ LoopToken(m)
          /\ RoundsOver' = RoundsOver
      BY <2>1 DEF ControlInv, LoopToken, RoundsOver
    <2>3. LoopToken(m)'
      <3>1. m # "control" => route'["control"] = route["control"]
        BY <1>1, <2>1
      <3> QED
        BY <1>1, <1>2, <2>1, <2>2, <3>1 DEF LoopToken
    <2>4. Decisions' /\ count'["control"] <= policy.maxAttempts + 1
      <3>1. CASE Decided
        BY <3>1, DecidedKeeps
      <3>2. CASE ~Decided
        <4>1. count'["control"] = count["control"] /\ route'["control"] = route["control"]
          <5>1. CASE m # "control"
            BY <1>1, <2>1, <5>1
          <5>2. CASE m = "control"
            BY <1>1, <1>5, <3>2, <5>2 DEF Step, BeginNode, Dispatch, Retry, GiveUp, BackoffOver,
                                          ChildEnds, ctx
          <5> QED
            BY <5>1, <5>2
        <4>2. UNCHANGED <<policy, lastSeen>>
          BY <1>5, <3>2
        <4> QED
          BY <4>1, <4>2 DEF ControlInv, Decisions, Targeted
      <3> QED
        BY <3>1, <3>2
    <2>5. count'["gen"] <= policy.maxAttempts + 1
      <3>1. CASE m = "gen"
        <4>1. count["gen"] = Earlier("gen")
          BY <2>1, <3>1 DEF Earlier, Landed
        <4>2. Earlier("gen") <= policy.maxAttempts
          BY <1>1, <1>3, <2>2, <3>1 DEF LoopToken
        <4>3. count'["gen"] = count["gen"] \/ count'["gen"] = count["gen"] + 1
          BY <1>1, <1>5, <3>1 DEF Step, BeginNode, Dispatch, CollectResult, Retry, GiveUp,
                                  BackoffOver, ChildEnds, ctx, TypeOK
        <4> QED
          BY <1>1, <1>2, <1>3, <4>1, <4>2, <4>3
      <3>2. CASE m # "gen"
        BY <1>1, <2>1, <3>2 DEF ControlInv
      <3> QED
        BY <3>1, <3>2
    <2> QED
      BY <1>1, <1>2, <2>1, <2>2, <2>3, <2>4, <2>5 DEF ControlInv
  <1>6. CASE UNCHANGED allVars
    BY <1>4, <1>6 DEF allVars, vars
  <1>7. CASE Scored
    BY <1>5, <1>7 DEF Scored, Step
  <1>8. CASE Decided
    BY <1>5, <1>8 DEF Decided, Step
  <1>9. CASE Elsewhere
    <2>1. CASE BeginRound \/ EndRound \/ Finish
      BY <1>4, <1>9, <2>1 DEF Elsewhere, BeginRound, EndRound, Finish
    <2>2. ASSUME NEW m \in Nodes, Step(m) \/ ChildEnds(m)
          PROVE  ControlInv'
      <3>1. m \in {"gen", "control", "eval"}
        BY <1>1, <2>2, StepOfLevel
      <3>2. ~(m = "control" /\ CollectResult(m))
        BY <1>1, <1>3, <1>9 DEF Elsewhere, CollectResult, ControlledGraphs, TypeOK
      <3> QED
        BY <1>5, <1>9, <2>2, <3>1, <3>2 DEF Elsewhere, loopVars
    <2> QED
      BY <1>9, <2>1, <2>2 DEF Elsewhere, Next
  <1> QED
    BY <1>6, <1>7, <1>8, <1>9 DEF LoopNext

(* The invariants of the runner and of the controlled loop hold together.   *)
LEMMA LoopInductive ==
  ASSUME RoundsSuffice
  PROVE  LoopSpec => [](IInv /\ RoutedInv /\ LoopInv)
  <1>1. LoopInit => IInv /\ TypeOK /\ RoutedInv /\ LoopInv
    BY InitIInv, InitRouted, InitControl DEF LoopInit, IInv
  <1>2. IInv /\ TypeOK /\ RoutedInv /\ [LoopNext]_allVars
        => (IInv /\ TypeOK /\ RoutedInv)' /\ graph' = graph
    BY TypeKept, IInvKept, RoutedKept, LoopStepsAreSteps, SameGraph
  <1>3. /\ IInv /\ TypeOK /\ RoutedInv /\ LoopInv /\ [LoopNext]_allVars
        => (IInv /\ TypeOK /\ RoutedInv /\ LoopInv)'
    BY <1>2, ControlKept DEF LoopInv
  <1> QED
    BY <1>1, <1>3, PTL DEF LoopSpec

(* Every controlled loop ends through its exit, for every set of graphs and *)
(* of controllers with their parameters, every number of scores and every   *)
(* max_rounds that leaves two rounds per iteration and one for eval: a run  *)
(* without failed nodes has reached eval.                                   *)
THEOREM LoopsLeaveThroughExit ==
  ASSUME RoundsSuffice
  PROVE  LoopSpec => []LoopLeavesThroughExit
  <1>1. LoopInv => LoopLeavesThroughExit
    BY DEF LoopInv, ControlInv, LoopLeavesThroughExit
  <1> QED
    BY <1>1, LoopInductive, PTL

(* How far the budget is overdrawn: AttemptsWithinBudget is false, but gen  *)
(* is never executed more than once beyond max_attempts.                    *)
THEOREM OverdrawnByOneAtMost ==
  ASSUME RoundsSuffice
  PROVE  LoopSpec => [](graph \in ControlledGraphs => count["gen"] <= policy.maxAttempts + 1)
  <1>1. LoopInv => (graph \in ControlledGraphs => count["gen"] <= policy.maxAttempts + 1)
    BY DEF LoopInv, ControlInv
  <1> QED
    BY <1>1, LoopInductive, PTL

(* The threshold, multi-criteria and client-less LLM controllers decide by  *)
(* the target: gen runs again only after a score short of it, and short of  *)
(* it the loop is left only when max_attempts iterations are over.          *)
THEOREM TargetsEndLoops ==
  ASSUME RoundsSuffice
  PROVE  LoopSpec => []TargetEndsTheLoop
  <1>1. IInv /\ RoutedInv /\ LoopInv => TargetEndsTheLoop
    <2> SUFFICES ASSUME IInv, RoutedInv, ControlInv, Targeted
                 PROVE  /\ Active("gen") /\ count["control"] > 0 => lastSeen < policy.target
                        /\ Active("eval") /\ lastSeen < policy.target
                             => count["gen"] >= policy.maxAttempts
      BY DEF TargetEndsTheLoop, Targeted, LoopInv
    <2>1. /\ {"gen", "control", "eval"} \subseteq Nodes /\ Deps("eval") = {"control"}
      BY ControlWiring DEF IInv, TypeOK, ControlInv
    <2>2. ASSUME NEW n \in Nodes, Active(n)
          PROVE  /\ LoopToken(n) /\ \A m \in Nodes : Earlier(m) = count[m]
      <3>1. pc = "level" /\ n \in ready /\ ~Landed(n)
        BY <2>2 DEF Active, IInv, TasksAreOfLevel, Landed
      <3>2. LoopToken(n)
        BY <3>1 DEF ControlInv
      <3>3. \A m \in Nodes : ~Landed(m)
        BY <3>1, <3>2 DEF LoopToken, IInv, TasksAreOfLevel, Landed
      <3> QED
        BY <3>2, <3>3 DEF Earlier
    <2>3. Active("gen") /\ count["control"] > 0 => lastSeen < policy.target
      BY <2>1, <2>2 DEF LoopToken, ControlInv, Decisions
    <2>4. ASSUME Active("eval"), lastSeen < policy.target
          PROVE  count["gen"] >= policy.maxAttempts
      <3>1. count["gen"] = count["control"] /\ route["control"] = "exit"
        BY <2>1, <2>2, <2>4 DEF LoopToken, IInv, TypeOK
      <3>2. count["control"] > 0
        <4>1. "control" \in completed
          BY <2>1, <2>4 DEF IInv, ActiveNodesMayRun, DepsMet
        <4> QED
          BY <2>1, <4>1, ControlOneRoute DEF IInv, TypeOK, RoutedInv, ControlInv
      <3> QED
        BY <2>1, <2>4, <3>1, <3>2 DEF ControlInv, Decisions
    <2> QED
      BY <2>3, <2>4
  <1> QED
    BY <1>1, LoopInductive, PTL
-----------------------------------------------------------------------------
(* The paper pipeline: one token on the way to the paper, taps beside it,   *)
(* and what is still ahead has not run.                                     *)

(* The end of the way, which is walked once; and the nodes that cannot have *)
(* run when control is at n.                                                *)
Late == {"experiment_report", "chart_gen", "paper_draft", "paper_output"}

Unreached(n) ==
  CASE n \in {"experiment_exec", "experiment_gate", "experiment_report"} -> Late
    [] n = "chart_gen" -> Late \ {"experiment_report"}
    [] n = "paper_draft" -> {"paper_draft", "paper_output"}
    [] n = "paper_output" -> {"paper_output"}
    [] OTHER -> Late \cup {"experiment_gate"}

(* Control is at node n of the way, besides taps.                           *)
PaperToken(n) ==
  /\ ready \ Taps = {n}
  /\ \A m \in Unreached(n) : Earlier(m) = 0
  /\ Earlier("experiment_exec")
       = Earlier("experiment_gate") + (IF n = "experiment_gate" THEN 1 ELSE 0)
  /\ n \in Late => route["experiment_gate"] # "retry"
  /\ n = "paper_output" => Earlier("paper_draft") = 1

(* Taps on nodes without routes.                                            *)
PlainTaps == {t \in Taps : Tapped(t) \notin DOMAIN Routes}

(* One node of the way is under way, or all that is left is taps and the    *)
(* paper is written, or something has failed; no tap is behind its node.    *)
PaperInv ==
  graph \in PaperGraphs =>
    /\ pc # "done" =>
         /\ \A n \in ready \ Taps : PaperToken(n)
         /\ ready \subseteq Taps /\ failed = {} => Earlier("paper_output") > 0
         /\ failed = {} =>
              \A t \in PlainTaps :
                Earlier(Tapped(t)) = Earlier(t) + (IF t \in ready THEN 1 ELSE 0)
    /\ SuccessMeansPaper /\ PlainTapsKeepUp

(* The nodes of auto_idea_to_paper.yaml.                                    *)
PaperNodes == {"paper_retriever"} \cup DOMAIN DependsOn

(* The paper pipeline: what depends on what.                                *)
LEMMA PaperDeps ==
  ASSUME graph = AutoIdeaToPaper, graph \in GraphType
  PROVE  /\ graph.nodes = PaperNodes /\ PaperNodes \subseteq Nodes /\ graph.maxRounds = MaxRounds
         /\ Deps("paper_retriever") = {}
         /\ \A n \in DOMAIN DependsOn : Deps(n) = DependsOn[n]
         /\ FirstLevel(graph) = {"paper_retriever"}
  <1>1. /\ graph.nodes = PaperNodes /\ graph.maxRounds = MaxRounds
        /\ "paper_retriever" \notin DOMAIN DependsOn
    BY DEF AutoIdeaToPaper, Document, PaperNodes, DependsOn
  <1>2. graph.nodes \subseteq Nodes
    BY GraphFields
  <1>3. graph.deps = Complete(DependsOn, Nodes, {}) /\ graph.reads = Complete(Reads, Nodes, {})
    BY DEF AutoIdeaToPaper, Document
  <1>4. Deps("paper_retriever") = {} /\ \A n \in DOMAIN DependsOn : Deps(n) = DependsOn[n]
    BY <1>1, <1>2, <1>3 DEF Complete, Deps, PaperNodes
  <1>5. graph.reads["paper_retriever"] = {}
    BY <1>1, <1>2, <1>3 DEF Complete, PaperNodes, Reads
  <1>6. \A n \in DOMAIN DependsOn : DependsOn[n] \cap PaperNodes # {}
    BY DEF DependsOn, PaperNodes
  <1>7. FirstLevel(graph) = {"paper_retriever"}
    BY <1>1, <1>4, <1>5, <1>6 DEF FirstLevel, Deps, PaperNodes
  <1> QED
    BY <1>1, <1>2, <1>4, <1>7

(* Its routes tables and the answers of its nodes.                          *)
LEMMA PaperRoutes ==
  ASSUME graph = AutoIdeaToPaper, graph \in GraphType
  PROVE  /\ \A n \in PaperNodes \ DOMAIN Routes :
              \A k \in RouteKeys : graph.routes[n][k] = Unrouted
         /\ \A n \in DOMAIN Routes : \A k \in DOMAIN Routes[n] :
              k \in RouteKeys /\ graph.routes[n][k] = Routes[n][k]
         /\ \A n \in DOMAIN Routes : graph.emits[n] = Answers(DOMAIN Routes[n])
         /\ \A n \in Nodes \ DOMAIN Routes : graph.emits[n] = Answers({None})
         /\ graph.modules = graph.nodes
         /\ DOMAIN Routes \subseteq PaperNodes
  <1>1. PaperNodes \subseteq Nodes
    BY PaperDeps
  <1>2. DOMAIN Routes = {"accumulate", "round_control", "experiment_gate"}
    BY DEF Routes
  <1>3. DOMAIN Routes \subseteq PaperNodes
    BY <1>2 DEF PaperNodes, DependsOn
  <1>4. \A n \in DOMAIN Routes : \A k \in DOMAIN Routes[n] : k \in RouteKeys
    BY PaperKeysAssumption DEF Routes
  <1>5. /\ graph.routes = [n \in Nodes |-> Table(IF n \in DOMAIN Routes THEN Routes[n] ELSE <<>>)]
        /\ graph.emits = Complete([n \in DOMAIN Routes |-> Answers(DOMAIN Routes[n])], Nodes,
                                  Answers({None}))
        /\ graph.modules = graph.nodes
    BY DEF AutoIdeaToPaper, Document
  <1>6. \A n \in PaperNodes \ DOMAIN Routes : \A k \in RouteKeys : graph.routes[n][k] = Unrouted
    <2> SUFFICES ASSUME NEW n \in PaperNodes \ DOMAIN Routes, NEW k \in RouteKeys
                 PROVE  graph.routes[n][k] = Unrouted
      OBVIOUS
    <2>1. graph.routes[n] = Table(<<>>)
      BY <1>1, <1>5
    <2> QED
      BY <2>1 DEF Table, Complete
  <1>7. \A n \in DOMAIN Routes : \A k \in DOMAIN Routes[n] : graph.routes[n][k] = Routes[n][k]
    <2> SUFFICES ASSUME NEW n \in DOMAIN Routes, NEW k \in DOMAIN Routes[n]
                 PROVE  graph.routes[n][k] = Routes[n][k]
      OBVIOUS
    <2>1. graph.routes[n] = Table(Routes[n])
      BY <1>1, <1>3, <1>5
    <2> QED
      BY <1>4, <2>1 DEF Table, Complete
  <1>8. /\ \A n \in DOMAIN Routes : graph.emits[n] = Answers(DOMAIN Routes[n])
        /\ \A n \in Nodes \ DOMAIN Routes : graph.emits[n] = Answers({None})
    BY <1>1, <1>3, <1>5 DEF Complete
  <1> QED
    BY <1>3, <1>4, <1>5, <1>6, <1>7, <1>8

(* Its nodes answer with one route or with none.                            *)
LEMMA PaperOneRoute ==
  ASSUME graph = AutoIdeaToPaper, graph \in GraphType
  PROVE  OneRoute
  <1>1. ASSUME NEW n \in Nodes
        PROVE  \E keys \in (SUBSET RouteKeys) \cup {{None}} : graph.emits[n] = Answers(keys)
    BY PaperRoutes
  <1> QED
    BY <1>1, PaperRoutes, RoutesAreOne

(* Where a node sends control.                                              *)
LEMMA PaperSuccessors ==
  ASSUME graph = AutoIdeaToPaper, IInv, RoutedInv, NEW n \in PaperNodes
  PROVE  /\ n \notin DOMAIN Routes =>
              Successors(n) = {m \in DOMAIN DependsOn : n \in DependsOn[m]}
         /\ n \in DOMAIN Routes /\ n \in completed =>
              /\ route[n] \in DOMAIN Routes[n]
              /\ Successors(n) = {Routes[n][route[n]]}
  <1>1. graph \in GraphType /\ TypeOK /\ OneRoute /\ n \in Nodes /\ n \in graph.nodes
        /\ graph.nodes = PaperNodes
    BY PaperOneRoute, PaperDeps DEF IInv, TypeOK
  <1>2. ASSUME n \notin DOMAIN Routes
        PROVE  Successors(n) = {m \in DOMAIN DependsOn : n \in DependsOn[m]}
    <2>1. route[n] \in RouteKeys \cup {None}
      BY <1>1 DEF TypeOK
    <2>2. Successors(n) = {m \in graph.nodes : n \in Deps(m)}
      BY <1>1, <1>2, <2>1, PaperRoutes, WhereControlGoes, RouteKeysAssumption
    <2>3. \A m : m \in graph.nodes /\ n \in Deps(m)
                   <=> m \in DOMAIN DependsOn /\ n \in DependsOn[m]
      BY <1>1, PaperDeps DEF PaperNodes
    <2> QED
      BY <2>2, <2>3
  <1>3. ASSUME n \in DOMAIN Routes, n \in completed
        PROVE  /\ route[n] \in DOMAIN Routes[n]
               /\ Successors(n) = {Routes[n][route[n]]}
    <2>1. route[n] \in DOMAIN Routes[n]
      BY <1>1, <1>3, PaperRoutes, RouteOfCompleted
    <2>2. route[n] \in RouteKeys /\ graph.routes[n][route[n]] = Routes[n][route[n]]
      BY <1>1, <1>3, <2>1, PaperRoutes
    <2>3. Routes[n][route[n]] \in PaperNodes
      BY <1>3, <2>1 DEF Routes, PaperNodes, DependsOn
    <2> QED
      BY <1>1, <2>1, <2>2, <2>3, WhereControlGoes
  <1> QED
    BY <1>2, <1>3

(* The nodes that name n in depends_on.                                     *)
Dependents(n) == {m \in DOMAIN DependsOn : n \in DependsOn[m]}

(* The dependents of every node that has no routes table.                   *)
LEMMA PaperDependents ==
  /\ Dependents("paper_retriever") = {"paper_summary"}
  /\ Dependents("paper_summary") = {"accumulate", "persist_summary"}
  /\ Dependents("idea_evolution") = {"round_control", "persist_idea"}
  /\ Dependents("idea_scoring") = {"best_selector", "persist_scoring"}
  /\ Dependents("best_selector") = {"experiment_plan", "paper_draft"}
  /\ Dependents("experiment_plan") = {"experiment_exec", "persist_exp_plan"}
  /\ Dependents("experiment_exec") = {"experiment_gate"}
  /\ Dependents("experiment_report") = {"chart_gen", "paper_draft", "persist_exp_report"}
  /\ Dependents("chart_gen") = {"paper_draft", "paper_output"}
  /\ Dependents("paper_draft") = {"paper_output", "persist_paper"}
  /\ Dependents("paper_output") = {}
  /\ \A t \in Taps : Dependents(t) = {}
  <1>1. Dependents("paper_retriever") = {"paper_summary"}
    BY DEF Dependents, DependsOn
  <1>2. Dependents("paper_summary") = {"accumulate", "persist_summary"}
    BY DEF Dependents, DependsOn
  <1>3. Dependents("idea_evolution") = {"round_control", "persist_idea"}
    BY DEF Dependents, DependsOn
  <1>4. Dependents("idea_scoring") = {"best_selector", "persist_scoring"}
    BY DEF Dependents, DependsOn
  <1>5. Dependents("best_selector") = {"experiment_plan", "paper_draft"}
    BY DEF Dependents, DependsOn
  <1>6. Dependents("experiment_plan") = {"experiment_exec", "persist_exp_plan"}
    BY DEF Dependents, DependsOn
  <1>7. Dependents("experiment_exec") = {"experiment_gate"}
    BY DEF Dependents, DependsOn
  <1>8. Dependents("experiment_report") = {"chart_gen", "paper_draft", "persist_exp_report"}
    BY DEF Dependents, DependsOn
  <1>9. Dependents("chart_gen") = {"paper_draft", "paper_output"}
    BY DEF Dependents, DependsOn
  <1>10. Dependents("paper_draft") = {"paper_output", "persist_paper"}
    BY DEF Dependents, DependsOn
  <1>11. Dependents("paper_output") = {}
    BY DEF Dependents, DependsOn
  <1>12. \A t \in Taps : Dependents(t) = {}
    BY DEF Dependents, DependsOn, Taps
  <1> QED
    BY <1>1, <1>2, <1>3, <1>4, <1>5, <1>6, <1>7, <1>8, <1>9, <1>10, <1>11, <1>12

(* The node that follows n on the way to the paper.                         *)
PaperNext(n) ==
  CASE n \in DOMAIN Routes -> Routes[n][route[n]]
    [] n = "paper_retriever" -> "paper_summary"
    [] n = "paper_summary" -> "accumulate"
    [] n = "idea_evolution" -> "round_control"
    [] n = "idea_scoring" -> "best_selector"
    [] n = "best_selector" -> "experiment_plan"
    [] n = "experiment_plan" -> "experiment_exec"
    [] n = "experiment_exec" -> "experiment_gate"
    [] n = "experiment_report" -> "chart_gen"
    [] n = "chart_gen" -> "paper_draft"
    [] n = "paper_draft" -> "paper_output"

(* A node of the way hands over to the next one, besides taps: a dependent  *)
(* that is still ahead waits, and pulls in no one but the next node.        *)
LEMMA PaperTurn ==
  ASSUME graph = AutoIdeaToPaper, IInv, RoutedInv, EndRound, NEW n, ready \ Taps = {n},
         \A m \in Unreached(n) : Earlier(m) = 0, n \notin failed
  PROVE  /\ n \in completed
         /\ n # "paper_output" => /\ NextReady \ Taps \subseteq {PaperNext(n)}
                                  /\ failed = {} => PaperNext(n) \in NextReady
         /\ n = "paper_output" => NextReady = {}
  <1>1. /\ graph \in GraphType /\ TypeOK /\ OneRoute /\ graph.nodes = PaperNodes
        /\ PaperNodes \subseteq Nodes /\ n \in PaperNodes /\ ready \subseteq PaperNodes
    BY PaperOneRoute, PaperDeps DEF IInv, TypeOK, RoutedInv
  <1>2. n \in completed
    BY <1>1, RoundsCount
  <1>3. Candidates = Successors(n) \ failed
    <2>1. \A m \in ready \ {n} : Successors(m) = {}
      <3> SUFFICES ASSUME NEW m \in ready \ {n} PROVE Successors(m) = {}
        OBVIOUS
      <3>1. m \in Taps /\ m \in PaperNodes
        BY <1>1
      <3>2. m \notin DOMAIN Routes
        BY <3>1 DEF Taps, Routes
      <3> QED
        BY <3>1, <3>2, PaperSuccessors, PaperDependents DEF Dependents
    <2> QED
      BY <1>1, <2>1, OnlyCandidates
  <1>4. /\ n \notin DOMAIN Routes => Successors(n) = Dependents(n)
        /\ n \in DOMAIN Routes =>
             /\ route[n] \in DOMAIN Routes[n]
             /\ Successors(n) = {Routes[n][route[n]]}
    BY <1>1, <1>2, PaperSuccessors DEF Dependents
  <1>5. ASSUME NEW S, Successors(n) = S, \A c \in S : DepsMet(c)
        PROVE  NextReady \subseteq S /\ (failed = {} => NextReady = S)
    BY <1>3, <1>5 DEF NextReady
  <1>6. ASSUME NEW m \in Unreached(n), m # n, m \in PaperNodes \ Taps
        PROVE  m \notin completed
    <2>1. Earlier(m) = count[m]
      BY <1>1, <1>6 DEF Earlier, Landed, IInv, TasksAreOfLevel, EndRound
    <2> QED
      BY <1>1, <1>6, <2>1 DEF RoutedInv
  <1>7. \A c \in completed \cap DOMAIN DependsOn : DependsOn[c] \subseteq completed
    BY <1>1, PaperDeps DEF IInv, CausallyClosed
  <1>8. /\ Deps("paper_retriever") = {}
        /\ \A c \in DOMAIN DependsOn : Deps(c) = DependsOn[c]
    BY <1>1, PaperDeps
  <1>9. CASE n = "paper_retriever"
    <2>1. Successors(n) = {"paper_summary"} /\ n \notin DOMAIN Routes
      BY <1>4, <1>9, PaperDependents DEF Routes
    <2>2. DepsMet("paper_summary")
      BY <1>2, <1>8, <1>9 DEF DepsMet, DependsOn
    <2> QED
      BY <1>2, <1>5, <1>9, <2>1, <2>2 DEF PaperNext
  <1>10. CASE n = "paper_summary"
    <2>1. Successors(n) = {"accumulate", "persist_summary"} /\ n \notin DOMAIN Routes
      BY <1>4, <1>10, PaperDependents DEF Routes
    <2>2. DepsMet("accumulate") /\ DepsMet("persist_summary")
      BY <1>2, <1>8, <1>10 DEF DepsMet, DependsOn
    <2> QED
      BY <1>2, <1>5, <1>10, <2>1, <2>2 DEF PaperNext, Taps
  <1>11. CASE n = "idea_evolution"
    <2>1. Successors(n) = {"round_control", "persist_idea"} /\ n \notin DOMAIN Routes
      BY <1>4, <1>11, PaperDependents DEF Routes
    <2>2. DepsMet("round_control") /\ DepsMet("persist_idea")
      BY <1>2, <1>8, <1>11 DEF DepsMet, DependsOn
    <2> QED
      BY <1>2, <1>5, <1>11, <2>1, <2>2 DEF PaperNext, Taps
  <1>12. CASE n = "idea_scoring"
    <2>1. Successors(n) = {"best_selector", "persist_scoring"} /\ n \notin DOMAIN Routes
      BY <1>4, <1>12, PaperDependents DEF Routes
    <2>2. DepsMet("best_selector") /\ DepsMet("persist_scoring")
      BY <1>2, <1>8, <1>12 DEF DepsMet, DependsOn
    <2> QED
      BY <1>2, <1>5, <1>12, <2>1, <2>2 DEF PaperNext, Taps
  <1>13. CASE n = "experiment_plan"
    <2>1. Successors(n) = {"experiment_exec", "persist_exp_plan"} /\ n \notin DOMAIN Routes
      BY <1>4, <1>13, PaperDependents DEF Routes
    <2>2. DepsMet("experiment_exec") /\ DepsMet("persist_exp_plan")
      BY <1>2, <1>8, <1>13 DEF DepsMet, DependsOn
    <2> QED
      BY <1>2, <1>5, <1>13, <2>1, <2>2 DEF PaperNext, Taps
  <1>14. CASE n = "experiment_exec"
    <2>1. Successors(n) = {"experiment_gate"} /\ n \notin DOMAIN Routes
      BY <1>4, <1>14, PaperDependents DEF Routes
    <2>2. DepsMet("experiment_gate")
      BY <1>2, <1>8, <1>14 DEF DepsMet, DependsOn
    <2> QED
      BY <1>2, <1>5, <1>14, <2>1, <2>2 DEF PaperNext
  <1>15. CASE n = "best_selector"
    <2>1. Successors(n) = {"experiment_plan", "paper_draft"} /\ n \notin DOMAIN Routes
      BY <1>4, <1>15, PaperDependents DEF Routes
    <2>2. DepsMet("experiment_plan")
      BY <1>2, <1>8, <1>15 DEF DepsMet, DependsOn
    <2>3. /\ "experiment_report" \notin completed /\ "chart_gen" \notin completed
          /\ "experiment_gate" \notin completed
      BY <1>6, <1>15 DEF Unreached, Late, PaperNodes, DependsOn, Taps
    <2>4. /\ Deps("paper_draft") = {"experiment_report", "chart_gen", "best_selector"}
          /\ Deps("experiment_report") = {"experiment_gate"}
          /\ Deps("chart_gen") = {"experiment_report"}
      BY <1>8 DEF DependsOn
    <2>5. ~DepsMet("paper_draft") /\ Pulled("paper_draft") = {}
      BY <1>2, <1>15, <2>3, <2>4 DEF DepsMet, Pulled
    <2>6. /\ NextReady \subseteq {"experiment_plan"}
          /\ failed = {} => "experiment_plan" \in NextReady
      BY <1>3, <2>1, <2>2, <2>5 DEF NextReady
    <2> QED
      BY <1>2, <1>15, <2>1, <2>6 DEF PaperNext
  <1>16. CASE n = "experiment_report"
    <2>1. /\ Successors(n) = {"chart_gen", "paper_draft", "persist_exp_report"}
          /\ n \notin DOMAIN Routes
      BY <1>4, <1>16, PaperDependents DEF Routes
    <2>2. DepsMet("chart_gen") /\ DepsMet("persist_exp_report")
      BY <1>2, <1>8, <1>16 DEF DepsMet, DependsOn
    <2>3. "best_selector" \in completed
      BY <1>2, <1>7, <1>16 DEF DependsOn
    <2>4. Deps("paper_draft") = {"experiment_report", "chart_gen", "best_selector"}
      BY <1>8 DEF DependsOn
    <2>5. Pulled("paper_draft") \subseteq {"chart_gen"}
      BY <1>2, <1>16, <2>3, <2>4 DEF Pulled
    <2>6. "chart_gen" \notin completed
      BY <1>6, <1>16 DEF Unreached, Late, PaperNodes, DependsOn, Taps
    <2>7. ~DepsMet("paper_draft")
      BY <2>4, <2>6 DEF DepsMet
    <2>8. /\ NextReady \subseteq {"chart_gen", "persist_exp_report"}
          /\ failed = {} => "chart_gen" \in NextReady
      BY <1>3, <2>1, <2>2, <2>5, <2>7 DEF NextReady
    <2> QED
      BY <1>2, <1>16, <2>1, <2>8 DEF PaperNext, Taps
  <1>17. CASE n = "chart_gen"
    <2>1. Successors(n) = {"paper_draft", "paper_output"} /\ n \notin DOMAIN Routes
      BY <1>4, <1>17, PaperDependents DEF Routes
    <2>2. "best_selector" \in completed /\ "experiment_report" \in completed
      BY <1>2, <1>7, <1>17 DEF DependsOn
    <2>3. /\ Deps("paper_draft") = {"experiment_report", "chart_gen", "best_selector"}
          /\ Deps("paper_output") = {"paper_draft", "chart_gen"}
      BY <1>8 DEF DependsOn
    <2>4. DepsMet("paper_draft")
      BY <1>2, <1>17, <2>2, <2>3 DEF DepsMet
    <2>5. "paper_draft" \notin completed
      BY <1>6, <1>17 DEF Unreached, Late, PaperNodes, DependsOn, Taps
    <2>6. ~DepsMet("paper_output") /\ Pulled("paper_output") \subseteq {"paper_draft"}
      BY <1>2, <1>17, <2>3, <2>5 DEF DepsMet, Pulled
    <2>7. NextReady \subseteq {"paper_draft"} /\ (failed = {} => "paper_draft" \in NextReady)
      BY <1>3, <2>1, <2>4, <2>6 DEF NextReady
    <2> QED
      BY <1>2, <1>17, <2>1, <2>7 DEF PaperNext
  <1>18. CASE n = "paper_draft"
    <2>1. Successors(n) = {"paper_output", "persist_paper"} /\ n \notin DOMAIN Routes
      BY <1>4, <1>18, PaperDependents DEF Routes
    <2>2. "chart_gen" \in completed
      BY <1>2, <1>7, <1>18 DEF DependsOn
    <2>3. DepsMet("paper_output") /\ DepsMet("persist_paper")
      BY <1>2, <1>8, <1>18, <2>2 DEF DepsMet, DependsOn
    <2> QED
      BY <1>2, <1>5, <1>18, <2>1, <2>3 DEF PaperNext, Taps
  <1>19. CASE n = "paper_output"
    <2>1. Successors(n) = {}
      BY <1>4, <1>19, PaperDependents DEF Routes
    <2> QED
      BY <1>2, <1>5, <1>19, <2>1
  <1>20. CASE n \in DOMAIN Routes
    <2>0. n \in {"accumulate", "round_control", "experiment_gate"}
      BY <1>20 DEF Routes
    <2>1. /\ PaperNext(n) = Routes[n][route[n]] /\ Successors(n) = {PaperNext(n)}
          /\ route[n] \in DOMAIN Routes[n]
      BY <1>4, <1>20, <2>0 DEF PaperNext
    <2>2. DepsMet(PaperNext(n))
      <3>1. CASE n = "accumulate"
        <4>1. PaperNext(n) \in {"paper_retriever", "idea_evolution"}
          BY <2>1, <3>1 DEF Routes
        <4>2. Deps("idea_evolution") = {"accumulate"}
          BY <1>8 DEF DependsOn
        <4> QED
          BY <1>2, <1>8, <3>1, <4>1, <4>2 DEF DepsMet
      <3>2. CASE n = "round_control"
        <4>1. PaperNext(n) \in {"paper_retriever", "idea_scoring"}
          BY <2>1, <3>2 DEF Routes
        <4>2. Deps("idea_scoring") = {"round_control"}
          BY <1>8 DEF DependsOn
        <4> QED
          BY <1>2, <1>8, <3>2, <4>1, <4>2 DEF DepsMet
      <3>3. CASE n = "experiment_gate"
        <4>1. PaperNext(n) \in {"experiment_exec", "experiment_report"}
          BY <2>1, <3>3 DEF Routes
        <4>2. Deps("experiment_exec") = {"experiment_plan"} /\ Deps("experiment_report") = {n}
          BY <1>8, <3>3 DEF DependsOn
        <4>3. "experiment_plan" \in completed
          BY <1>2, <1>7, <3>3 DEF DependsOn
        <4> QED
          BY <1>2, <4>1, <4>2, <4>3 DEF DepsMet
      <3> QED
        BY <1>20, <3>1, <3>2, <3>3 DEF Routes
    <2>3. n # "paper_output"
      BY <1>20 DEF Routes
    <2> QED
      BY <1>2, <1>5, <2>1, <2>2, <2>3
  <1>21. n \notin Taps
    OBVIOUS
  <1>22. \/ n \in DOMAIN Routes \/ n = "paper_retriever" \/ n = "paper_summary"
         \/ n = "idea_evolution" \/ n = "idea_scoring" \/ n = "best_selector"
         \/ n = "experiment_plan" \/ n = "experiment_exec" \/ n = "experiment_report"
         \/ n = "chart_gen" \/ n = "paper_draft" \/ n = "paper_output"
    BY <1>1, <1>21 DEF PaperNodes, DependsOn, Taps, Routes
  <1> QED
    BY <1>9, <1>10, <1>11, <1>12, <1>13, <1>14, <1>15, <1>16, <1>17, <1>18, <1>19, <1>20,
       <1>22, Zenon

(* A tap hangs on one node.                                                 *)
LEMMA TappedNodes ==
  ASSUME NEW t \in Taps
  PROVE  t \in DOMAIN DependsOn /\ DependsOn[t] = {Tapped(t)} /\ Tapped(t) \notin Taps
  <1>1. t \in DOMAIN DependsOn /\ \E n : DependsOn[t] = {n} /\ n \notin Taps
    BY DEF Taps, DependsOn
  <1>2. PICK n : DependsOn[t] = {n} /\ n \notin Taps
    BY <1>1
  <1>3. Tapped(t) = n
    BY <1>2 DEF Tapped
  <1> QED
    BY <1>1, <1>2, <1>3

(* A tap becomes ready exactly when its node, which has no routes, has run. *)
LEMMA TapsFollow ==
  ASSUME graph = AutoIdeaToPaper, IInv, RoutedInv, EndRound, failed = {}, NEW t \in PlainTaps
  PROVE  t \in NextReady <=> Tapped(t) \in ready
  <1>1. /\ graph \in GraphType /\ TypeOK /\ OneRoute /\ graph.nodes = PaperNodes
        /\ PaperNodes \subseteq Nodes /\ ready \subseteq PaperNodes
        /\ ready \subseteq completed
    BY PaperOneRoute, PaperDeps, RoundsCount DEF IInv, TypeOK, RoutedInv
  <1>2. /\ t \in Taps /\ t \in DOMAIN DependsOn /\ DependsOn[t] = {Tapped(t)}
        /\ Tapped(t) \notin DOMAIN Routes
    BY TappedNodes DEF PlainTaps
  <1>3. \A n : FanOut(n) = {}
    BY <1>1 DEF FanOut, RoutedInv, TypeOK
  <1>4. Candidates = UNION {Successors(n) : n \in ready}
    BY <1>3 DEF Candidates
  <1>5. ASSUME NEW n \in ready
        PROVE  t \in Successors(n) <=> n = Tapped(t)
    <2>1. n \in PaperNodes /\ n \in completed
      BY <1>1
    <2>2. CASE n \notin DOMAIN Routes
      BY <1>2, <2>1, <2>2, PaperSuccessors
    <2>3. CASE n \in DOMAIN Routes
      <3>1. Successors(n) = {Routes[n][route[n]]} /\ route[n] \in DOMAIN Routes[n]
        BY <2>1, <2>3, PaperSuccessors
      <3>2. Routes[n][route[n]] \notin Taps
        BY <2>3, <3>1 DEF Routes, Taps
      <3> QED
        BY <1>2, <2>3, <3>1, <3>2
    <2> QED
      BY <2>2, <2>3
  <1>6. t \in Candidates <=> Tapped(t) \in ready
    BY <1>4, <1>5
  <1>7. Tapped(t) \in ready => DepsMet(t)
    <2>1. Deps(t) = {Tapped(t)}
      BY <1>1, <1>2, PaperDeps
    <2> QED
      BY <1>1, <2>1 DEF DepsMet
  <1>8. \A c \in PaperNodes : t \notin Pulled(c)
    <2> SUFFICES ASSUME NEW c \in PaperNodes PROVE t \notin Deps(c)
      BY DEF Pulled
    <2>1. c \in DOMAIN DependsOn => t \notin DependsOn[c]
      BY <1>2, PaperDependents DEF Dependents
    <2> QED
      BY <1>1, <2>1, PaperDeps DEF PaperNodes
  <1>9. Candidates \subseteq PaperNodes
    BY <1>1, <1>4, Zenon DEF Successors
  <1> QED
    BY <1>6, <1>7, <1>8, <1>9 DEF NextReady

(* What lies ahead shrinks as control moves on.                             *)
LEMMA PaperAhead ==
  ASSUME NEW n \in PaperNodes \ Taps, n # "paper_output",
         n \in DOMAIN Routes => route[n] \in DOMAIN Routes[n]
  PROVE  /\ Unreached(PaperNext(n)) \subseteq Unreached(n) \ {n}
         /\ PaperNext(n) = "experiment_gate" <=> n = "experiment_exec"
         /\ PaperNext(n) = "paper_output" <=> n = "paper_draft"
         /\ PaperNext(n) \in Late =>
              \/ n \in Late
              \/ n = "experiment_gate" /\ route["experiment_gate"] # "retry"
         /\ PaperNext(n) \notin Taps
  <1>1. CASE n \in {"accumulate", "round_control", "experiment_gate"}
    <2>1. n \in DOMAIN Routes /\ route[n] \in DOMAIN Routes[n]
      BY <1>1 DEF Routes
    <2>2. PaperNext(n) = Routes[n][route[n]]
      BY <1>1, <2>1 DEF PaperNext
    <2>3. CASE n = "accumulate"
      <3>1. PaperNext(n) \in {"paper_retriever", "idea_evolution"}
        BY <2>1, <2>2, <2>3 DEF Routes
      <3> QED
        BY <2>3, <3>1 DEF Unreached, Late, Taps
    <2>4. CASE n = "round_control"
      <3>1. PaperNext(n) \in {"paper_retriever", "idea_scoring"}
        BY <2>1, <2>2, <2>4 DEF Routes
      <3> QED
        BY <2>4, <3>1 DEF Unreached, Late, Taps
    <2>5. CASE n = "experiment_gate"
      <3>1. \/ PaperNext(n) = "experiment_exec"
            \/ PaperNext(n) = "experiment_report" /\ route[n] # "retry"
        BY <2>1, <2>2, <2>5 DEF Routes
      <3> QED
        BY <2>5, <3>1 DEF Unreached, Late, Taps
    <2> QED
      BY <1>1, <2>3, <2>4, <2>5
  <1>2. CASE n \in {"paper_retriever", "paper_summary", "idea_evolution", "idea_scoring",
                    "best_selector", "experiment_plan", "experiment_exec"}
    <2>1. PaperNext(n) \in {"paper_summary", "accumulate", "round_control", "best_selector",
                    "experiment_plan", "experiment_exec", "experiment_gate"}
          /\ (PaperNext(n) = "experiment_gate" <=> n = "experiment_exec")
          /\ (PaperNext(n) = "experiment_exec" => n = "experiment_plan")
      BY <1>2 DEF PaperNext, Routes
    <2> QED
      BY <1>2, <2>1 DEF Unreached, Late, Taps
  <1>3. CASE n \in {"experiment_report", "chart_gen", "paper_draft"}
    <2>1. \/ n = "experiment_report" /\ PaperNext(n) = "chart_gen"
          \/ n = "chart_gen" /\ PaperNext(n) = "paper_draft"
          \/ n = "paper_draft" /\ PaperNext(n) = "paper_output"
      BY <1>3 DEF PaperNext, Routes
    <2> QED
      BY <2>1 DEF Unreached, Late, Taps
  <1> QED
    BY <1>1, <1>2, <1>3 DEF PaperNodes, DependsOn, Taps

(* Which nodes are on the way, and which are taps.                          *)
LEMMA PaperNames ==
  /\ Late \cup {"experiment_exec", "experiment_gate", "paper_retriever"}
       \subseteq PaperNodes \ Taps
  /\ \A n : Unreached(n) \subseteq Late \cup {"experiment_gate"}
  /\ "experiment_gate" \notin Late /\ "experiment_exec" \notin Late
  /\ Taps \subseteq PaperNodes
  /\ \A t \in PlainTaps : t \in Taps /\ Tapped(t) \in PaperNodes /\ Tapped(t) # t
  <1>1. /\ Late \cup {"experiment_exec", "experiment_gate", "paper_retriever"}
             \subseteq PaperNodes \ Taps
        /\ "experiment_gate" \notin Late /\ "experiment_exec" \notin Late
        /\ Taps \subseteq PaperNodes
    BY DEF Late, PaperNodes, DependsOn, Taps
  <1>2. \A n : Unreached(n) \subseteq Late \cup {"experiment_gate"}
    BY DEF Unreached, Late
  <1>3. ASSUME NEW t \in PlainTaps
        PROVE  t \in Taps /\ Tapped(t) \in PaperNodes /\ Tapped(t) # t
    <2>1. t \in Taps /\ DependsOn[t] = {Tapped(t)} /\ Tapped(t) # t
      BY <1>3, TappedNodes DEF PlainTaps
    <2>2. DependsOn[t] \subseteq PaperNodes
      BY <2>1 DEF Taps, DependsOn, PaperNodes
    <2> QED
      BY <2>1, <2>2
  <1> QED
    BY <1>1, <1>2, <1>3

(* A level that ends passes control on along the way, with every tap of the *)
(* level's nodes, or has written the paper.                                 *)
LEMMA RoundPassesPaper ==
  ASSUME graph = AutoIdeaToPaper, IInv, RoutedInv, PaperInv, EndRound,
         pc' = "loop", ready' = NextReady
  PROVE  /\ \A s \in ready' \ Taps : PaperToken(s)'
         /\ ready' \subseteq Taps /\ failed' = {} => Earlier("paper_output")' > 0
         /\ failed' = {} =>
              \A t \in PlainTaps :
                Earlier(Tapped(t))' = Earlier(t)' + (IF t \in ready' THEN 1 ELSE 0)
  <1>1. /\ graph \in GraphType /\ TypeOK /\ OneRoute /\ PaperNodes \subseteq Nodes
        /\ ready \subseteq PaperNodes /\ pc = "level" /\ UNCHANGED <<failed, route, completed>>
    BY PaperOneRoute, PaperDeps DEF IInv, TypeOK, RoutedInv, EndRound, ctx
  <1>2. /\ \A m \in Nodes : Earlier(m)' = Earlier(m) + (IF m \in ready \ failed THEN 1 ELSE 0)
        /\ \A m \in Nodes : Earlier(m) \in Nat
    BY <1>1, RoundsCount
  <1>3. /\ \A n \in ready \ Taps : PaperToken(n)
        /\ ready \subseteq Taps /\ failed = {} => Earlier("paper_output") > 0
        /\ failed = {} =>
              \A t \in PlainTaps :
                Earlier(Tapped(t)) = Earlier(t) + (IF t \in ready THEN 1 ELSE 0)
    BY <1>1 DEF PaperInv, PaperGraphs
  (* A level of taps alone sends control nowhere.                           *)
  <1>4. ASSUME ready \subseteq Taps
        PROVE  /\ \A s \in NextReady \ Taps : PaperToken(s)'
               /\ NextReady \subseteq Taps /\ failed = {} => Earlier("paper_output")' > 0
    <2>1. \A m \in ready : Successors(m) = {}
      <3> SUFFICES ASSUME NEW m \in ready PROVE Successors(m) = {}
        OBVIOUS
      <3>1. m \in Taps /\ m \in PaperNodes /\ m \notin DOMAIN Routes
        BY <1>1, <1>4 DEF Taps, Routes
      <3> QED
        BY <3>1, PaperSuccessors, PaperDependents DEF Dependents
    <2>2. \A m \in ready : FanOut(m) = {}
      BY <1>1 DEF FanOut, RoutedInv, TypeOK
    <2>3. NextReady = {}
      BY <2>1, <2>2, OneNext DEF Candidates
    <2>4. failed = {} => Earlier("paper_output")' > 0
      BY <1>1, <1>2, <1>3, <1>4, PaperNames DEF Late
    <2> QED
      BY <2>3, <2>4
  (* Otherwise the one other node of the level does.                        *)
  <1>5. ASSUME NEW n \in ready \ Taps
        PROVE  /\ \A s \in NextReady \ Taps : PaperToken(s)'
               /\ NextReady \subseteq Taps /\ failed = {} => Earlier("paper_output")' > 0
    <2>1. /\ ready \ Taps = {n} /\ n \in PaperNodes \ Taps
          /\ \A m \in Unreached(n) : Earlier(m) = 0
          /\ Earlier("experiment_exec")
               = Earlier("experiment_gate") + (IF n = "experiment_gate" THEN 1 ELSE 0)
          /\ n \in Late => route["experiment_gate"] # "retry"
      BY <1>1, <1>3, <1>5 DEF PaperToken
    <2>2. CASE n \in failed
      <3>1. NextReady = {}
        <4>1. \A m \in ready \ {n} : Successors(m) = {}
          <5> SUFFICES ASSUME NEW m \in ready \ {n} PROVE Successors(m) = {}
            OBVIOUS
          <5>1. m \in Taps /\ m \in PaperNodes /\ m \notin DOMAIN Routes
            BY <1>1, <2>1 DEF Taps, Routes
          <5> QED
            BY <5>1, PaperSuccessors, PaperDependents DEF Dependents
        <4> QED
          BY <1>1, <1>5, <2>2, <4>1, OnlyCandidates, OneNext
      <3> QED
        BY <2>2, <3>1
    <2>3. CASE n \notin failed /\ n = "paper_output"
      <3>1. NextReady = {}
        BY <2>1, <2>3, PaperTurn
      <3>2. Earlier("paper_output")' > 0
        BY <1>1, <1>2, <2>1, <2>3
      <3> QED
        BY <3>1, <3>2
    <2>4. CASE n \notin failed /\ n # "paper_output"
      <3>1. /\ NextReady \ Taps \subseteq {PaperNext(n)}
            /\ failed = {} => PaperNext(n) \in NextReady
            /\ n \in DOMAIN Routes => route[n] \in DOMAIN Routes[n]
        BY <2>1, <2>4, PaperTurn, PaperSuccessors
      <3>2. /\ Unreached(PaperNext(n)) \subseteq Unreached(n) \ {n}
            /\ PaperNext(n) = "experiment_gate" <=> n = "experiment_exec"
            /\ PaperNext(n) = "paper_output" <=> n = "paper_draft"
            /\ PaperNext(n) \in Late =>
                 \/ n \in Late
                 \/ n = "experiment_gate" /\ route["experiment_gate"] # "retry"
            /\ PaperNext(n) \notin Taps
        BY <2>1, <2>4, <3>1, PaperAhead
      <3>3. ASSUME NEW s \in NextReady \ Taps
            PROVE  PaperToken(s)'
        <4>1. s = PaperNext(n) /\ NextReady \ Taps = {s}
          BY <3>1, <3>3
        <4>2. ASSUME NEW m \in PaperNodes \ Taps
              PROVE  /\ Earlier(m)' = Earlier(m) + (IF m = n THEN 1 ELSE 0)
                     /\ Earlier(m) \in Nat
          BY <1>1, <1>2, <2>1, <2>4
        <4>3. \A m \in Unreached(s) : Earlier(m)' = 0
          BY <2>1, <3>2, <4>1, <4>2, PaperNames
        <4>4. Earlier("experiment_exec")'
                = Earlier("experiment_gate")' + (IF s = "experiment_gate" THEN 1 ELSE 0)
          <5>1. /\ Earlier("experiment_exec")'
                     = Earlier("experiment_exec") + (IF n = "experiment_exec" THEN 1 ELSE 0)
                /\ Earlier("experiment_gate")'
                     = Earlier("experiment_gate") + (IF n = "experiment_gate" THEN 1 ELSE 0)
                /\ Earlier("experiment_exec") \in Nat /\ Earlier("experiment_gate") \in Nat
            BY <4>2, PaperNames
          <5> QED
            BY <2>1, <3>2, <4>1, <5>1
        <4>5. s \in Late => route'["experiment_gate"] # "retry"
          BY <1>1, <2>1, <3>2, <4>1
        <4>6. s = "paper_output" => Earlier("paper_draft")' = 1
          <5> SUFFICES ASSUME s = "paper_output" PROVE Earlier("paper_draft")' = 1
            OBVIOUS
          <5>1. n = "paper_draft" /\ "paper_draft" \in PaperNodes \ Taps
            BY <2>1, <3>2, <4>1
          <5>2. Earlier("paper_draft") = 0
            BY <2>1, <5>1 DEF Unreached
          <5> QED
            BY <4>2, <5>1, <5>2
        <4> QED
          BY <4>1, <4>3, <4>4, <4>5, <4>6 DEF PaperToken
      <3> QED
        BY <3>1, <3>2, <3>3
    <2> QED
      BY <2>2, <2>3, <2>4
  <1>6. ASSUME failed = {}, NEW t \in PlainTaps
        PROVE  Earlier(Tapped(t))' = Earlier(t)' + (IF t \in NextReady THEN 1 ELSE 0)
    <2>1. t \in NextReady <=> Tapped(t) \in ready
      BY <1>6, TapsFollow
    <2>2. t \in Nodes /\ Tapped(t) \in Nodes
      BY <1>1, PaperNames
    <2>3. Earlier(Tapped(t)) = Earlier(t) + (IF t \in ready THEN 1 ELSE 0)
      BY <1>3, <1>6
    <2> QED
      BY <1>2, <1>6, <2>1, <2>2, <2>3
  <1> QED
    BY <1>1, <1>4, <1>5, <1>6

(* A run starts at the retriever, with the whole way ahead.                 *)
LEMMA InitPaper == Init => PaperInv
  <1> SUFFICES ASSUME Init, graph = AutoIdeaToPaper PROVE PaperInv
    BY DEF PaperInv, PaperGraphs
  <1>1. TypeOK /\ graph \in GraphType
    BY InitIInv DEF IInv, TypeOK
  <1>2. /\ ready = {"paper_retriever"} /\ pc = "loop" /\ PaperNodes \subseteq Nodes
        /\ \A n \in Nodes : count[n] = 0 /\ Earlier(n) = 0 /\ route[n] = None
    BY <1>1, PaperDeps DEF Init, Earlier, Landed
  <1>3. PaperToken("paper_retriever")
    <2>1. ready \ Taps = {"paper_retriever"} /\ "paper_retriever" \notin Late
      BY <1>2 DEF Taps, Late
    <2> QED
      BY <1>2, <2>1, PaperNames DEF PaperToken, Late
  <1>4. \A t \in PlainTaps : t \in Nodes /\ Tapped(t) \in Nodes /\ t \notin ready
    BY <1>2, PaperNames DEF Taps
  <1>5. SuccessMeansPaper
    BY <1>2 DEF SuccessMeansPaper
  <1>6. PlainTapsKeepUp
    BY <1>2, <1>4 DEF PlainTapsKeepUp, TapKeepsUp, PlainTaps
  <1> QED
    BY <1>2, <1>3, <1>4, <1>5, <1>6, PaperNames DEF PaperInv

(* The token stays where it is while no level ends.                         *)
LEMMA PaperTokenStays ==
  ASSUME PaperNodes \subseteq Nodes, NEW n, PaperToken(n), ready' = ready,
         n \in Late => route'["experiment_gate"] = route["experiment_gate"],
         \A m \in Nodes : Earlier(m)' = Earlier(m)
  PROVE  PaperToken(n)'
  <1>1. \A m \in Late \cup {"experiment_gate", "experiment_exec"} : Earlier(m)' = Earlier(m)
    BY PaperNames
  <1>2. \A m \in Unreached(n) : Earlier(m)' = 0
    BY <1>1, PaperNames DEF PaperToken
  <1>3. "paper_draft" \in Late
    BY DEF Late
  <1>4. /\ Earlier("experiment_exec")' = Earlier("experiment_exec")
        /\ Earlier("experiment_gate")' = Earlier("experiment_gate")
        /\ Earlier("paper_draft")' = Earlier("paper_draft")
    BY <1>1, <1>3
  <1> QED
    BY <1>2, <1>4 DEF PaperToken

(* No step of the runner loses the token of the paper pipeline or a tap.    *)
LEMMA PaperKept == IInv /\ RoutedInv /\ PaperInv /\ TypeOK' /\ [Next]_vars => PaperInv'
  <1> SUFFICES ASSUME IInv, RoutedInv, PaperInv, TypeOK', [Next]_vars, graph = AutoIdeaToPaper
               PROVE  PaperInv'
    BY SameGraph DEF PaperInv, PaperGraphs
  <1>1. /\ graph' = graph /\ graph \in GraphType /\ TypeOK /\ OneRoute
        /\ PaperNodes \subseteq Nodes /\ graph.maxRounds = MaxRounds
        /\ ready \subseteq PaperNodes
    BY SameGraph, PaperOneRoute, PaperDeps DEF IInv, TypeOK, RoutedInv
  <1>2. /\ SuccessMeansPaper /\ PlainTapsKeepUp
        /\ pc # "done" => \A n \in ready \ Taps : PaperToken(n)
        /\ pc # "done" /\ ready \subseteq Taps /\ failed = {} => Earlier("paper_output") > 0
        /\ pc # "done" /\ failed = {} =>
             \A t \in PlainTaps :
               Earlier(Tapped(t)) = Earlier(t) + (IF t \in ready THEN 1 ELSE 0)
    BY DEF PaperInv, PaperGraphs
  <1>3. PlainTaps' = PlainTaps /\ \A t \in PlainTaps : Tapped(t)' = Tapped(t)
    BY DEF PlainTaps, Tapped
  <1>4. CASE UNCHANGED vars
    BY <1>4 DEF vars, ctx, PaperInv, PaperToken, Earlier, Landed, SuccessMeansPaper, Success,
                PlainTapsKeepUp, TapKeepsUp
  <1>6. CASE BeginRound
    <2>1. /\ pc = "loop" /\ pc' = "level" /\ UNCHANGED <<ready, route, failed>>
          /\ \A n \in Nodes : Earlier(n)' = Earlier(n)
      BY <1>1, <1>6, RoundsCount DEF BeginRound, ctx
    <2>2. \A n \in ready \ Taps : PaperToken(n)'
      BY <1>1, <1>2, <2>1, PaperTokenStays
    <2>3. \A t \in PlainTaps :
            Earlier(t)' = Earlier(t) /\ Earlier(Tapped(t))' = Earlier(Tapped(t))
      BY <1>1, <2>1, PaperNames
    <2>4. Earlier("paper_output")' = Earlier("paper_output")
      BY <1>1, <2>1, PaperNames DEF Late
    <2>5. SuccessMeansPaper' /\ PlainTapsKeepUp'
      BY <2>1 DEF SuccessMeansPaper, PlainTapsKeepUp, TapKeepsUp
    <2> QED
      BY <1>2, <1>3, <2>1, <2>2, <2>3, <2>4, <2>5 DEF PaperInv
  <1>7. CASE EndRound
    <2>1. pc' = "done" => failed' # {}
      BY <1>7 DEF EndRound, ctx
    <2>2. CASE pc' = "done"
      BY <2>1, <2>2 DEF PaperInv, SuccessMeansPaper, Success, PlainTapsKeepUp, TapKeepsUp
    <2>3. CASE pc' # "done"
      <3>1. pc' = "loop" /\ ready' = NextReady
        BY <1>7, <2>3 DEF EndRound
      <3>2. /\ \A s \in ready' \ Taps : PaperToken(s)'
            /\ ready' \subseteq Taps /\ failed' = {} => Earlier("paper_output")' > 0
            /\ failed' = {} =>
                 \A t \in PlainTaps :
                   Earlier(Tapped(t))' = Earlier(t)' + (IF t \in ready' THEN 1 ELSE 0)
        BY <1>7, <3>1, RoundPassesPaper
      <3>3. SuccessMeansPaper'
        BY <3>1 DEF SuccessMeansPaper
      <3>4. PlainTapsKeepUp'
        <4>1. \A n \in Nodes : Earlier(n)' = count'[n]
          BY <3>1 DEF Earlier, Landed
        <4>2. \A t \in PlainTaps : t \in Nodes /\ Tapped(t) \in Nodes
          BY <1>1, PaperNames
        <4> QED
          BY <3>1, <3>2, <4>1, <4>2 DEF PlainTapsKeepUp, TapKeepsUp, PlainTaps
      <3> QED
        BY <3>1, <3>2, <3>3, <3>4 DEF PaperInv
    <2> QED
      BY <2>2, <2>3
  <1>8. CASE Finish
    <2>1. /\ pc = "loop" /\ pc' = "done" /\ UNCHANGED <<ready, round, ctx>>
          /\ ready = {} \/ round >= MaxRounds
          /\ round \in Nat /\ MaxRounds \in Nat
      BY <1>1, <1>8, MaxRoundsAssumption DEF Finish, TypeOK
    <2>2. SuccessMeansPaper'
      <3>1. ready = {} /\ failed = {} => "paper_output" \in completed
        BY <1>1, <1>2, <2>1, RoundsCount, PaperNames DEF Late
      <3> QED
        BY <2>1, <3>1 DEF SuccessMeansPaper, Success, ctx
    <2>3. PlainTapsKeepUp'
      <3>1. \A t \in PlainTaps : TapKeepsUp(t)
        BY <1>2 DEF PlainTapsKeepUp, PlainTaps
      <3>2. \A t \in PlainTaps : TapKeepsUp(t)'
        BY <1>1, <2>1, <3>1 DEF TapKeepsUp, ctx
      <3> QED
        BY <3>2 DEF PlainTapsKeepUp, PlainTaps
    <2> QED
      BY <2>1, <2>2, <2>3 DEF PaperInv
  <1>9. ASSUME NEW m \in Nodes, Step(m) \/ ChildEnds(m)
        PROVE  PaperInv'
    <2>1. /\ UNCHANGED <<pc, ready>> /\ pc = "level" /\ m \in ready /\ failed \subseteq failed'
          /\ \A n \in Nodes : Earlier(n)' = Earlier(n)
          /\ \A n \in Nodes \ {m} : route'[n] = route[n]
      BY <1>1, <1>9, StepOfLevel
    <2>2. ASSUME NEW n \in ready \ Taps
          PROVE  PaperToken(n)'
      <3>1. PaperToken(n)
        BY <1>2, <2>1
      <3>2. n \in Late => route'["experiment_gate"] = route["experiment_gate"]
        <4>1. n \in Late => m # "experiment_gate"
          BY <2>1, <3>1, PaperNames DEF PaperToken
        <4> QED
          BY <1>1, <2>1, <4>1, PaperNames
      <3> QED
        BY <1>1, <2>1, <3>1, <3>2, PaperTokenStays
    <2>3. \A t \in PlainTaps :
            Earlier(t)' = Earlier(t) /\ Earlier(Tapped(t))' = Earlier(Tapped(t))
      BY <1>1, <2>1, PaperNames
    <2>4. Earlier("paper_output")' = Earlier("paper_output")
      BY <1>1, <2>1, PaperNames DEF Late
    <2>5. SuccessMeansPaper' /\ PlainTapsKeepUp'
      BY <2>1 DEF SuccessMeansPaper, PlainTapsKeepUp, TapKeepsUp
    <2> QED
      BY <1>2, <1>3, <2>1, <2>2, <2>3, <2>4, <2>5 DEF PaperInv
  <1> QED
    BY <1>4, <1>6, <1>7, <1>8, <1>9 DEF Next

(* One node of the way at a time, for every max_rounds and whatever fails.  *)
THEOREM PaperInductive == Spec => []PaperInv
  BY InitPaper, PaperKept, RoutedGraphs, Inductive, TypeCorrect, PTL DEF Spec

(* No dead end in auto_idea_to_paper.yaml: whatever the three routing nodes *)
(* answer and however often they loop, a run that reports success without   *)
(* being cut off by max_rounds has written the paper.                       *)
THEOREM SuccessWritesPaper == Spec => []SuccessMeansPaper
  <1>1. PaperInv => SuccessMeansPaper
    BY DEF PaperInv, SuccessMeansPaper
  <1> QED
    BY <1>1, PaperInductive, PTL

(* The paper is assembled once, from the one draft of the run, when the     *)
(* experiment and its gate have run equally often and the gate did not ask  *)
(* for another run.                                                         *)
THEOREM PaperComesLast == Spec => []PaperAfterExperiment
  <1>1. IInv /\ RoutedInv /\ PaperInv => PaperAfterExperiment
    <2> SUFFICES ASSUME IInv, RoutedInv, PaperInv, graph \in PaperGraphs, Active("paper_output")
                 PROVE  /\ count["paper_draft"] = 1 /\ count["paper_output"] = 0
                        /\ count["experiment_exec"] = count["experiment_gate"]
                        /\ route["experiment_gate"] # "retry"
      BY DEF PaperAfterExperiment
    <2>1. PaperNodes \subseteq Nodes /\ {"paper_output", "paper_draft"} \subseteq Late
      BY PaperDeps DEF IInv, TypeOK, PaperGraphs, Late
    <2>2. pc = "level" /\ "paper_output" \in ready \ Taps
      BY <2>1, PaperNames DEF Active, IInv, TasksAreOfLevel
    <2>3. PaperToken("paper_output")
      BY <2>2 DEF PaperInv
    <2>4. \A m \in PaperNodes \ Taps : Earlier(m) = count[m]
      <3>1. \A m \in PaperNodes \ Taps : ~Landed(m)
        BY <2>1, <2>2, <2>3 DEF PaperToken, Landed, Active, IInv, TasksAreOfLevel
      <3> QED
        BY <3>1 DEF Earlier
    <2>5. "paper_output" \in Unreached("paper_output")
      BY DEF Unreached, Late
    <2>6. \A m \in {"paper_output", "paper_draft", "experiment_exec", "experiment_gate"} :
            Earlier(m) = count[m]
      BY <2>1, <2>4, PaperNames
    <2>7. count["experiment_exec"] \in Nat /\ count["experiment_gate"] \in Nat
      BY <2>1, PaperNames DEF IInv, TypeOK
    <2> QED
      BY <2>1, <2>3, <2>5, <2>6, <2>7 DEF PaperToken
  <1> QED
    BY <1>1, PaperInductive, RoutedGraphs, Inductive, PTL

(* No result of a node without routes is lost by its persistence tap or     *)
(* written twice, whatever the loops do.                                    *)
THEOREM TapsKeepPace == Spec => []PlainTapsKeepUp
  <1>1. PaperInv => PlainTapsKeepUp
    BY DEF PaperInv, PlainTapsKeepUp, TapKeepsUp
  <1> QED
    BY <1>1, PaperInductive, PTL
=============================================================================
