------------------------ MODULE ConnectedComponents ------------------------
(***************************************************************************)
(* The vertex program of connected components                              *)
(* (include/havoqgt/connected_components.hpp): every vertex spreads its    *)
(* own label, and every vertex keeps the least label it hears of.          *)
(* Vertices are their labels; predicates select the vertices and the edges *)
(* that count.                                                             *)
(***************************************************************************)
EXTENDS StoredGraph, FiniteSets

CONSTANTS
  VertexPasses,  \* vertices that satisfy v_predicate
  EdgePasses,    \* pairs whose edges satisfy e_predicate
  DefaultLabel   \* of a copy nobody initialised: above every label

Value == Vertex
Data == [Vertex -> Vertex \cup {DefaultLabel}]

Held(a, u) == a[u]
Carried(v) == v.val

\* cc_visitor::pre_visit
PreVisit(a, v) ==
  LET better == v.vertex \in VertexPasses /\ v.val < a[v.vertex]
  IN  [ret |-> better, data |-> IF better THEN [a EXCEPT ![v.vertex] = v.val] ELSE a]

\* The members of the list at the chosen positions, in order: a loop over the
\* edges that skips some of them.
Picked(list, chosen) ==
  LET upto[n \in Nat] ==
        IF n = 0 THEN << >>
        ELSE IF n \in chosen THEN Append(upto[n - 1], list[n]) ELSE upto[n - 1]
  IN  upto[Len(list)]

\* The visitors of the edges of v on r whose targets v's label could lower.
Useful(r, v) ==
  LET new == ToNeighbours(r, v.vertex, [w \in Vertex |-> v.val])
  IN  Picked(new, {i \in DOMAIN new : /\ <<v.vertex, new[i].vertex>> \in EdgePasses
                                      /\ v.val < new[i].vertex})

\* Mutation of Visit: as in shortest paths, the label is left to pre_visit.
VisitWithoutLabel(r, a, v) ==
  IF v.vertex \in VertexPasses /\ a[v.vertex] >= v.val
  THEN [ret |-> TRUE, data |-> a, spawn |-> Useful(r, v)]
  ELSE [ret |-> FALSE, data |-> a, spawn |-> << >>]

\* cc_visitor::visit, which is init_visit too.
Visit(r, a, v) ==
  IF v.vertex \in VertexPasses /\ a[v.vertex] >= v.val
  THEN [ret |-> TRUE, data |-> [a EXCEPT ![v.vertex] = v.val], spawn |-> Useful(r, v)]
  ELSE [ret |-> FALSE, data |-> a, spawn |-> << >>]

InList(v, list) == \E i \in DOMAIN list : list[i] = v

\* connected_components: every rank writes the labels of its own vertices and
\* of the hubs it controls; the other copies of a hub keep the default.
Start ==
  LET Own == [v \in Vertex |-> v]
  IN  FromEveryVertex(Own,
        [r \in Rank |-> [v \in Vertex |->
          IF InList(v, Controllers[r]) \/ InList(v, OwnedVertices[r]) THEN v ELSE DefaultLabel]])

-----------------------------------------------------------------------------
\* The graph the predicates select.
Selected(u, w) == {u, w} \subseteq VertexPasses /\ <<u, w>> \in EdgePasses /\ Edge(u, w)

\* Within[n]: the pairs of vertices that at most n edges connect.
Within[n \in Nat] ==
  IF n = 0 THEN {<<v, v>> : v \in Vertex}
  ELSE LET near == Within[n - 1]
       IN  near \cup {p \in Vertex \X Vertex : \E u \in Vertex : <<p[1], u>> \in near /\ Selected(u, p[2])}

Connected == Within[Cardinality(Vertex)]

LeastLabel ==
  [v \in Vertex |->
    CHOOSE x \in Vertex : <<v, x>> \in Connected /\ \A y \in Vertex : <<v, y>> \in Connected => x <= y]
=============================================================================
