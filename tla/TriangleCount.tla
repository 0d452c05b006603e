---------------------------- MODULE TriangleCount ----------------------------
(***************************************************************************)
(* The two traversals of the triangle programs (include/havoqgt/           *)
(* triangle_count_global.hpp, triangle_count_per_edge.hpp,                 *)
(* new_triangle_count.hpp and ktruss_unroll.hpp): one that makes the       *)
(* degree-ordered directed graph, and one that counts over it.             *)
(***************************************************************************)
EXTENDS StoredGraph, FiniteSets, FiniteSetsExt, SequencesExt, TLC

-----------------------------------------------------------------------------
(* directed_core2: every vertex sends its degree to its neighbours, and    *)
(* each edge is stored at the end that comes first.                        *)

\* graph.degree: stored edges of all ranks, loops and multiples included.
Degree == [v \in Vertex |-> MapThenSumSet(LAMBDA r : Len(Stored[r][v]), Rank)]

\* vertex_locator <: owners, then local ids; hubs last, by their number.
LocatorBefore(u, w) ==
  IF u \in Delegate \/ w \in Delegate
  THEN w \in Delegate /\ (u \in Delegate => u < w)
  ELSE Master[u] < Master[w] \/ (Master[u] = Master[w] /\ u < w)

\* edge_order_gt(du, dw, u, w).
EdgeOrderGt(du, dw, u, w) == du > dw \/ (du = dw /\ LocatorBefore(w, u))

\* An entry of the edge map of a vertex.
NewEdge(degree) == [degree |-> degree, count |-> 0, marked |-> FALSE, deleted |-> FALSE]

\* core2_directed[u][w].target_degree = degree.
Enter(a, u, w, degree) ==
  [a EXCEPT !.edge[u] = IF w \in DOMAIN @ THEN [@ EXCEPT ![w].degree = degree]
                        ELSE (w :> NewEdge(degree)) @@ @]

\* directed_core2: the start visitor of a vertex, and one that carries a degree.
DegreeStart == [init |-> TRUE, from |-> CHOOSE v \in Vertex : TRUE, degree |-> 0]
DegreeOf(u) == [init |-> FALSE, from |-> u, degree |-> Degree[u]]

\* Mutation of Precedes: ties are stored at both ends.
PrecedesOrTies(u, v) == v.val.degree >= Degree[u]

\* The sender comes after u in the order.
Precedes(u, v) == EdgeOrderGt(v.val.degree, Degree[u], v.val.from, u)

\* pre_visit.  new_triangle_count ("filtered") has the hub's controller tell the
\* replicas of the edge.
DegreePreVisit(r, a, v) ==
  LET u == v.vertex
      stores == Precedes(u, v) /\ (a.program = "filtered" => Degree[u] >= 2)
  IN  IF v.val.degree < Degree[u] THEN Answer(FALSE, a)
      ELSE IF Replica(r, u) THEN Answer(TRUE, a)
      ELSE IF ~stores THEN Answer(FALSE, a)
      ELSE Answer(a.program = "filtered" /\ u \in Delegate, Enter(a, u, v.val.from, v.val.degree))

\* visit and init_visit: the degree goes along every edge of this copy, never
\* along a self loop.
DegreeVisit(r, a, v) ==
  LET u == v.vertex
      to == SelectSeq(Stored[r][u], LAMBDA w : w # u)
  IN  IF ~v.val.init THEN Effect(TRUE, Enter(a, u, v.val.from, v.val.degree), << >>)
      ELSE IF Degree[u] < 2 THEN Ignore(a)
      ELSE Effect(TRUE, a, [i \in DOMAIN to |-> NewVisitor(to[i], DegreeOf(u))])

-----------------------------------------------------------------------------
(* core2_wedges: a vertex i with edges to j and k asks the first of them   *)
(* for the edge (j, k); where counts are kept per edge, j counts (j, k)    *)
(* and has i count the other two.                                          *)

\* core2_wedges: a check of the edge (vertex, close) for from, or the answer to
\* from that (from, close) and (from, of) lie on a triangle.
WedgeStart == [kind |-> "start"]
Check(j, k, i) == NewVisitor(j, [kind |-> "check", close |-> k, from |-> i])
Found(i, k, j) == NewVisitor(i, [kind |-> "found", close |-> k, from |-> j])

Has(a, u, w) == w \in DOMAIN a.edge[u]
Alive(a, u, w) == Has(a, u, w) /\ ~a.edge[u][w].deleted

\* increment_edge; decrement_edge stops at 0.
Increment(a, u, w) == [a EXCEPT !.edge[u][w].count = @ + 1]
Decrement(a, u, w) == [a EXCEPT !.edge[u][w].count = IF @ > 0 THEN @ - 1 ELSE @]

\* Pairs of edges of u, the one whose end comes first in front.
Wedges(a, u) ==
  LET ends == {w \in DOMAIN a.edge[u] : Alive(a, u, w)}
  IN  {<<j, k>> \in ends \X ends :
         j # k /\ EdgeOrderGt(a.edge[u][k].degree, a.edge[u][j].degree, k, j)}

\* One visitor for every element of the set.
Each(S, Visitor(_)) == LET list == SetToSeq(S) IN [i \in DOMAIN list |-> Visitor(list[i])]

Checks(S, u) == Each(S, LAMBDA p : Check(p[1], p[2], u))

InitVisit(r, a, v) == Effect(FALSE, a, Checks(Wedges(a, v.vertex), v.vertex))

\* Mutation of NoteSource: a set of sources, as in the code commented out.
NoteSourceOnce(a, j, i) == [a EXCEPT !.iedges[j] = (i :> 1) @@ @]

\* iedges[j][i]++: triangles of i that (j, ...) closes, kept for the k-truss.
NoteSource(a, j, i) ==
  [a EXCEPT !.iedges[j] = IF i \in DOMAIN @ THEN [@ EXCEPT ![i] = @ + 1] ELSE (i :> 1) @@ @]

\* A check on the owner or controller.
CheckOnMaster(a, v) ==
  LET j == v.vertex
      k == v.val.close
      counted == [a EXCEPT !.found = @ + 1]
  IN  IF ~Alive(a, j, k) THEN Answer(FALSE, a)
      ELSE CASE a.program = "global" -> Answer(FALSE, counted)
             [] a.program = "truss"  -> Answer(TRUE, NoteSource(Increment(counted, j, k), j, v.val.from))
             [] OTHER                -> Answer(TRUE, Increment(counted, j, k))

\* An answer on the owner or controller.  new_triangle_count leaves the edges of
\* hubs out.
FoundOnMaster(a, v) ==
  LET i == v.vertex
  IN  IF \/ ~Has(a, i, v.val.close) \/ ~Has(a, i, v.val.from)
         \/ a.program = "filtered" /\ i \in Delegate
      THEN Answer(FALSE, a)
      ELSE Answer(FALSE, Increment(Increment(a, i, v.val.close), i, v.val.from))

\* A replica of new_triangle_count drops a check that its own edges deny.
PreVisit(r, a, v) ==
  CASE Replica(r, v.vertex) ->
         Answer(a.program = "filtered" /\ v.val.kind = "check" => Has(a, v.vertex, v.val.close), a)
    [] ~Replica(r, v.vertex) /\ v.val.kind = "check" -> CheckOnMaster(a, v)
    [] OTHER -> FoundOnMaster(a, v)

\* visit; for an answer, or in triangle_count_global, the program would exit.
Visit(r, a, v) ==
  IF v.val.kind = "check" /\ a.program # "global"
  THEN Effect(FALSE, a, <<Found(v.val.from, v.val.close, v.vertex)>>)
  ELSE {}
=============================================================================
