------------------------------ MODULE Triangles ------------------------------
(***************************************************************************)
(* The triangle programs: triangle_count_global ("global"),                *)
(* triangle_count_per_edge ("per_edge"), new_triangle_count ("filtered")   *)
(* and ktruss_unroll ("truss"), each a series of traversals                *)
(* (AsyncTraversal) with a barrier in between.                             *)
(***************************************************************************)
EXTENDS KTruss

CONSTANTS
  Programs,     \* of "global", "per_edge", "filtered"
  TrussGraphs   \* the graphs ktruss_unroll runs on: sets of edges {u, w}

VARIABLES
  pending, data,  \* of the traversal, see AsyncTraversal
  graph,          \* the edges {u, w} the program works on; it never changes
  done            \* the program has returned

vars == <<pending, data, graph, done>>

PreVisitStep(r, a, v) ==
  CASE a.step = "degrees"   -> DegreePreVisit(r, a, v)
    [] a.step = "count"     -> PreVisit(r, a, v)
    [] a.step = "decompose" -> DecomposePreVisit(r, a, v)
    [] a.step = "unroll"    -> UnrollPreVisit(r, a, v)

\* A visitor of unroll_iedges_visitor is never visited.
VisitStep(r, a, v) ==
  CASE a.step = "degrees"                -> DegreeVisit(r, a, v)
    [] a.step \in {"count", "decompose"} -> Visit(r, a, v)
    [] a.step = "unroll"                 -> {}

InitVisitStep(r, a, v) ==
  CASE a.step = "degrees"   -> DegreeVisit(r, a, v)
    [] a.step = "count"     -> InitVisit(r, a, v)
    [] a.step = "decompose" -> DecomposeInit(r, a, v)
    [] a.step = "unroll"    -> UnrollInit(r, a, v)

OtherRanks(r) == Rank \ {r}

INSTANCE AsyncTraversal WITH
  Others <- OtherRanks, PreVisit <- PreVisitStep, Visit <- VisitStep, InitVisit <- InitVisitStep

The == data[CHOOSE r \in Rank : TRUE]

\* init_visitor_traversal().
AllVertices(val) ==
  LET Listed(r) == ToSet(Controllers[r] \o OwnedVertices[r])
  IN  SetToBag(UNION {{Waiting(r, "start", NewVisitor(v, val)) : v \in Listed(r)} : r \in Rank})

NoEdges == [v \in Vertex |-> << >>]

Fresh(program, step, edge) ==
  [program |-> program, step |-> step, k |-> 3, edge |-> edge, iedges |-> NoEdges, found |-> 0]

\* construct_dod_graph of ktruss_unroll in one step: its traversal is the one of
\* TriangleCount.  The loop that should copy the edges of hubs is empty.
CopiedEdges(E, r) ==
  LET DegreeIn(u) == Cardinality({e \in E : u \in e})
      Ends(u) == {w \in Vertex : /\ {u, w} \in E /\ DegreeIn(u) >= 2
                                 /\ EdgeOrderGt(DegreeIn(w), DegreeIn(u), w, u)}
  IN  [u \in Vertex |-> IF u \in Delegate \/ Master[u] # r THEN << >>
                        ELSE [w \in Ends(u) |-> NewEdge(DegreeIn(w))]]

\* The edges that all ranks hold.
Held(edges) == {{u, w} : <<u, w>> \in {p \in Vertex \X Vertex : \E r \in Rank : p[2] \in DOMAIN edges[r][p[1]]}}

-----------------------------------------------------------------------------
Init ==
  /\ done = FALSE
  /\ \/ \E p \in Programs :
          /\ data = [r \in Rank |-> Fresh(p, "degrees", NoEdges)]
          /\ pending = AllVertices(DegreeStart)
          /\ graph = {e \in {{u, w} : u, w \in Vertex} :
                        Cardinality(e) = 2 /\ \A u, w \in e : u # w => Edge(u, w)}
     \/ \E E \in TrussGraphs :
          /\ data = [r \in Rank |-> Fresh("truss", "count", CopiedEdges(E, r))]
          /\ pending = AllVertices(WedgeStart)
          /\ graph = Held([r \in Rank |-> CopiedEdges(E, r)])

Traverse == Step /\ UNCHANGED <<graph, done>>

\* The next traversal of the program, with the data d.
Begin(d, step) ==
  /\ data' = [r \in Rank |-> [d[r] EXCEPT !.step = step]]
  /\ pending' = AllVertices(WedgeStart)
  /\ UNCHANGED <<graph, done>>

\* The end of construct_dod_graph.
EndDegrees == Quiescent /\ The.step = "degrees" /\ Begin(data, "count")

Return == done' = TRUE /\ UNCHANGED <<pending, graph>>

\* The end of count_all_triangles_from_scratch.
EndCount ==
  /\ Quiescent /\ ~done /\ The.step = "count"
  /\ IF The.program = "truss" THEN Begin(data, "decompose") ELSE Return /\ UNCHANGED data

EndDecompose == Quiescent /\ The.step = "decompose" /\ Begin(data, "unroll")

\* A round of decompose_truss ends; if it removed nothing, k grows until no edge
\* remains.
EndRound ==
  /\ Quiescent /\ ~done /\ The.step = "unroll"
  /\ LET removed == [r \in Rank |-> RemoveMarked(data[r])]
     IN  IF \E r \in Rank : RemovesSome(data[r]) THEN Begin(removed, "decompose")
         ELSE IF \E r \in Rank : \E u \in Vertex : Remains(data[r], u) # {}
         THEN Begin([r \in Rank |-> [removed[r] EXCEPT !.k = @ + 1]], "decompose")
         ELSE Return /\ data' = removed

Next ==
  \/ Traverse
  \/ EndDegrees
  \/ EndCount
  \/ EndDecompose
  \/ EndRound
  \/ done /\ UNCHANGED vars

Spec == Init /\ [][Next]_vars

-----------------------------------------------------------------------------
\* Triangles of a set of edges on the edge e.
OnEdge(E, e) == {x \in Vertex \ e : \A u \in e : {u, x} \in E}

TrianglesOf(E) == {t \in {e \cup {x} : e \in E, x \in Vertex} :
                     Cardinality(t) = 3 /\ \A u, w \in t : u # w => {u, w} \in E}

\* The entry of edge (u, w) at its controller or owner.
Entry(u, w) == data[Master[u]].edge[u][w]

Entries == {p \in Vertex \X Vertex : p[2] \in DOMAIN data[Master[p[1]]].edge[p[1]]}

\* However the degrees and the checks race, hubs and ties included, each edge of
\* a triangle is stored at one end, each triangle is found once, and
\* triangle_count_per_edge has it on its three edges.
TrianglesAreCounted ==
  done /\ The.program # "truss" =>
    /\ MapThenSumSet(LAMBDA r : data[r].found, Rank) = Cardinality(TrianglesOf(graph))
    /\ \A e \in graph : OnEdge(graph, e) # {} =>
         Cardinality({p \in Entries : {p[1], p[2]} = e}) = 1
    /\ The.program = "per_edge" =>
         \A p \in Entries : Entry(p[1], p[2]).count = Cardinality(OnEdge(graph, {p[1], p[2]}))

\* The edges that are neither marked nor deleted.
Left == {{p[1], p[2]} : p \in {q \in Entries : ~Entry(q[1], q[2]).marked /\ ~Entry(q[1], q[2]).deleted}}

\* Between two rounds every edge left counts the triangles left: no triangle
\* was taken off twice or forgotten, whichever of its edges were marked and in
\* whatever order the visitors of both traversals ran.
SupportsAgree ==
  Quiescent /\ The.step = "unroll" =>
    \A p \in Entries :
      {p[1], p[2]} \in Left =>
        Entry(p[1], p[2]).count = Cardinality(OnEdge(Left, {p[1], p[2]}))

\* The largest set of edges of which each lies on k - 2 triangles of the set.
Truss(E, k) == UNION {F \in SUBSET E : \A e \in F : Cardinality(OnEdge(F, e)) >= k - 2}

\* A round never marks an edge of the k-truss, and one that removes nothing
\* leaves exactly the k-truss of the edges that were copied.
TrussIsExact ==
  Quiescent /\ The.step = "unroll" =>
    /\ Truss(graph, The.k) \subseteq Left
    /\ (\A r \in Rank : ~RemovesSome(data[r])) => Left = Truss(graph, The.k)

\* The program never says NOT EXPECTED: each check of the first traversal finds
\* its source among those counted at j, with a triangle of theirs still to lose.
SourcesAreExpected ==
  The.step = "decompose" =>
    \A w \in BagToSet(pending) :
      LET v == w.visitor
      IN  w.step = "arrive" /\ ~Replica(w.rank, v.vertex) /\ v.val.kind = "check" =>
            (Alive(data[w.rank], v.vertex, v.val.close) =>
               v.val.from \in DOMAIN data[w.rank].iedges[v.vertex])
=============================================================================
