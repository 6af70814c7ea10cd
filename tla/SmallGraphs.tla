---------------------------- MODULE SmallGraphs -----------------------------
(***************************************************************************)
(* Graphs over four nodes in which routes play no part: every depends_on   *)
(* relation that respects the order a, b, c, d, with and without a back    *)
(* edge from a to d (which closes cycles), and the same relations when the *)
(* document has no node b.  d names no module, a may emit a route and a    *)
(* fan-out list its empty table does not have, b and c have no timeout, b  *)
(* is retried once.                                                        *)
(***************************************************************************)
EXTENDS GraphRunner

CONSTANTS a, b, c, d

ASSUME {a, b, c, d} \subseteq Nodes

Silent == [route |-> None, multi |-> None]
Stray == [route |-> "default", multi |-> {"default"}]

SmallGraph(nodes, da, db, dc, dd) ==
  LET ds == [n \in Nodes |-> CASE n = a -> da [] n = b -> db [] n = c -> dc
                               [] n = d -> dd [] OTHER -> {}]
  IN  [ nodes       |-> nodes,
        deps        |-> ds,
        reads       |-> [n \in Nodes |-> ds[n] \cap {a}],
        routes      |-> [n \in Nodes |-> [k \in RouteKeys |-> Unrouted]],
        emits       |-> [n \in Nodes |-> IF n = a THEN {Silent, Stray} ELSE {Silent}],
        modules     |-> {a, b, c},
        timed       |-> {a},
        retries     |-> [n \in Nodes |-> IF n = b THEN 1 ELSE 0],
        maxRounds   |-> 4,
        maxParallel |-> 0 ]

SmallGraphsOver(nodes) ==
  { SmallGraph(nodes, da, db, dc, dd) : da \in SUBSET {d}, db \in SUBSET {a},
                                        dc \in SUBSET {a, b}, dd \in SUBSET {a, b, c} }

PlainGraphs == SmallGraphsOver({a, b, c, d}) \cup SmallGraphsOver({a, c, d})
=============================================================================
