------------------------------ MODULE PageRank ------------------------------
(***************************************************************************)
(* The vertex program of one PageRank iteration                            *)
(* (include/havoqgt/page_rank.hpp): every vertex sends an equal share of   *)
(* its rank along each of its edges.  The share a vertex u sends is named  *)
(* by u: all edges of u carry the same amount, and every copy of a hub     *)
(* computes it from the same rank and the same global degree.              *)
(***************************************************************************)
EXTENDS StoredGraph, FiniteSets, FiniteSetsExt

Value == Vertex
Data == [Vertex -> [Vertex -> Nat]]

\* pr_visitor::pre_visit: next_rank[vertex] += rank, and never a visit.
PreVisit(a, v) == [ret |-> FALSE, data |-> [a EXCEPT ![v.vertex][v.val] = @ + 1]]

\* pr_visitor::visit, which is init_visit too.
Visit(r, a, v) ==
  LET Share == [w \in Vertex |-> v.vertex]
  IN  [ret |-> TRUE, data |-> a, spawn |-> ToNeighbours(r, v.vertex, Share)]

\* page_rank: every vertex starts.  A start visitor carries no rank of its own;
\* visit does not read it.
Start ==
  LET Any == [v \in Vertex |-> v]
  IN  FromEveryVertex(Any, [r \in Rank |-> [v \in Vertex |-> [u \in Vertex |-> 0]]])

\* Mutation of AllReduced: the controller's copy is taken for the sum.
NotReduced(a, v, u) == a[Master[v]][v][u]

\* next_rank.all_reduce(): the copies of a hub are summed.
AllReduced(a, v, u) ==
  IF v \in Delegate THEN MapThenSumSet(LAMBDA r : a[r][v][u], Rank) ELSE a[Master[v]][v][u]

-----------------------------------------------------------------------------
EdgeCount(u, v) ==
  MapThenSumSet(LAMBDA r : Cardinality({i \in DOMAIN Stored[r][u] : Stored[r][u][i] = v}), Rank)
=============================================================================
