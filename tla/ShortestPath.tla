---------------------------- MODULE ShortestPath ----------------------------
(***************************************************************************)
(* The vertex program of single-source shortest paths                      *)
(* (include/havoqgt/single_source_shortest_path.hpp).  Unlike              *)
(* breadth-first search, visit does not write the path length of its       *)
(* vertex, so a broadcast never updates a hub's copies.                    *)
(***************************************************************************)
EXTENDS StoredGraph, FiniteSets

CONSTANTS
  Weight,    \* Weight[v][w]: weight of the edges from v to w
  Source,
  Infinity   \* numeric_limits<path_type>::max(), above every path length

Value == 0..Infinity
Data == [Vertex -> Value]

Held(a, u) == a[u]
Carried(v) == v.val

\* sssp_visitor::pre_visit
PreVisit(a, v) ==
  LET better == a[v.vertex] > v.val
  IN  [ret |-> better, data |-> IF better THEN [a EXCEPT ![v.vertex] = v.val] ELSE a]

\* Mutation of Visit: <= has become <.
VisitIfShorter(r, a, v) ==
  LET Longer == [w \in Vertex |-> Weight[v.vertex][w] + v.val]
  IN  IF v.val < a[v.vertex]
      THEN [ret |-> TRUE, data |-> a, spawn |-> ToNeighbours(r, v.vertex, Longer)]
      ELSE [ret |-> FALSE, data |-> a, spawn |-> << >>]

\* sssp_visitor::visit
Visit(r, a, v) ==
  LET Longer == [w \in Vertex |-> Weight[v.vertex][w] + v.val]
  IN  IF v.val <= a[v.vertex]
      THEN [ret |-> TRUE, data |-> a, spawn |-> ToNeighbours(r, v.vertex, Longer)]
      ELSE [ret |-> FALSE, data |-> a, spawn |-> << >>]

\* run_sssp resets the lengths; single_source_shortest_path queues the source.
Start == FromSource(NewVisitor(Source, 0), [r \in Rank |-> [v \in Vertex |-> Infinity]])

-----------------------------------------------------------------------------
\* Walks[n]: pairs of a vertex and the length of a walk to it from Source, of at
\* most n edges.
Walks[n \in Nat] ==
  IF n = 0 THEN {<<Source, 0>>}
  ELSE LET near == Walks[n - 1]
           Extend(x) == {<<w, x[2] + Weight[x[1]][w]>> : w \in {y \in Vertex : Edge(x[1], y)}}
       IN  near \cup UNION {Extend(x) : x \in near}

\* The length of the shortest path.
Distance ==
  LET walks == Walks[Cardinality(Vertex) - 1]
      Lengths(w) == {x[2] : x \in {y \in walks : y[1] = w}}
  IN  [w \in Vertex |->
        IF Lengths(w) = {} THEN Infinity
        ELSE CHOOSE n \in Lengths(w) : \A m \in Lengths(w) : n <= m]
=============================================================================
