----------------------------- MODULE StoredGraph -----------------------------
(***************************************************************************)
(* What the vertex programs use of the delegate-partitioned graph          *)
(* (include/havoqgt/delegate_partitioned_graph.hpp): the edges each rank   *)
(* stores for a vertex, and where copies of a vertex's data are.           *)
(***************************************************************************)
EXTENDS Naturals, Sequences

CONSTANTS
  Rank, Vertex,
  Delegate,       \* the hubs
  Master,         \* owner of a low-degree vertex, controller of a hub
  Stored,         \* Stored[r][v]: targets of the edges of v kept on rank r
  Controllers,    \* Controllers[r]: the hubs controller_begin() lists on r
  OwnedVertices   \* OwnedVertices[r]: the vertices vertices_begin() lists on r

\* A vertex_data has an entry for the vertex on this rank.
HoldsCopy(r, v) == v \in Delegate \/ Master[v] = r

\* A copy of a hub that is not the controller.
Replica(r, v) == v \in Delegate /\ Master[v] # r

Stores(r, u, w) == \E i \in DOMAIN Stored[r][u] : Stored[r][u][i] = w

\* The edges that the ranks store together.
Edge(u, w) == \E r \in Rank : Stores(r, u, w)

\* A new visitor of the vertex, carrying val.
NewVisitor(v, val) == [vertex |-> v, bcast |-> FALSE, val |-> val]

\* One visitor for every stored edge (u, w) of u on r, carrying val[w].
ToNeighbours(r, u, val) ==
  [i \in DOMAIN Stored[r][u] |-> NewVisitor(Stored[r][u][i], val[Stored[r][u][i]])]

\* Outcomes of a pre_visit, of a visit, and of a visit that does nothing.
Answer(ret, a) == {[ret |-> ret, data |-> a]}
Effect(ret, a, spawn) == {[ret |-> ret, data |-> a, spawn |-> spawn]}
Ignore(a) == Effect(FALSE, a, << >>)

Silent == [r \in Rank |-> << >>]

\* init_visitor_traversal(source) on every rank: rank 0 queues the one visitor.
FromSource(visitor, a) ==
  [citr |-> Silent, vitr |-> Silent, source |-> [Silent EXCEPT ![0] = <<visitor>>], data |-> a]

\* init_visitor_traversal(): every controller and every vertex has a visitor,
\* built from its locator alone and so carrying val[v].
FromEveryVertex(val, a) ==
  LET Visitors(list) == [i \in DOMAIN list |-> NewVisitor(list[i], val[list[i]])]
  IN  [citr |-> [r \in Rank |-> Visitors(Controllers[r])],
       vitr |-> [r \in Rank |-> Visitors(OwnedVertices[r])],
       source |-> Silent, data |-> a]
=============================================================================
