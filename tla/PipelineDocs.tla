---------------------------- MODULE PipelineDocs ----------------------------
(***************************************************************************)
(* Pipeline documents as graphs: IterationGraph.from_dict and the defaults *)
(* of IterationNode.  A document leaves out what it does not need; here as *)
(* there, a missing entry takes its default.  A mapping of the document is *)
(* a record from node ids or route keys.                                   *)
(***************************************************************************)
EXTENDS GraphRunner

CONSTANT MaxRounds   (* max_rounds; 300 in the shipped documents             *)
ASSUME MaxRoundsAssumption == MaxRounds \in Nat

(* f where it is defined, v everywhere else on S.                           *)
Complete(f, S, v) == [x \in S |-> IF x \in DOMAIN f THEN f[x] ELSE v]

Table(f) == Complete(f, RouteKeys, Unrouted)

(* The answers of a module that emits one of these routes and no list.      *)
Answers(routes) == {[route |-> r, multi |-> None] : r \in routes}

(* A document in which every node names a module, none is retried and no    *)
(* limit on parallel nodes is set.                                          *)
Document(nodes, dependsOn, reads, routes, emits, timed, maxRounds) ==
  [ nodes       |-> nodes,
    deps        |-> Complete(dependsOn, Nodes, {}),
    reads       |-> Complete(reads, Nodes, {}),
    routes      |-> [n \in Nodes |-> Table(IF n \in DOMAIN routes THEN routes[n] ELSE <<>>)],
    emits       |-> Complete(emits, Nodes, Answers({None})),
    modules     |-> nodes,
    timed       |-> timed,
    retries     |-> [n \in Nodes |-> 0],
    maxRounds   |-> maxRounds,
    maxParallel |-> 0 ]
=============================================================================
