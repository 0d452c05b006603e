------------------------------- MODULE KTruss -------------------------------
(***************************************************************************)
(* One round of the k-truss decomposition                                  *)
(* (include/havoqgt/ktruss_unroll.hpp, decompose_truss): edges on fewer    *)
(* than k - 2 triangles are marked, and two traversals take the triangles  *)
(* that die with them off the counts of the other edges.  The first finds  *)
(* them from their first vertex i, whose edges are marked; the second from *)
(* j, for triangles of which only the edge (j, k) is marked.               *)
(***************************************************************************)
EXTENDS TriangleCount

\* Mutation of ToDelete: edges on k - 2 triangles are marked too.
ToDeleteOneMore(a, u) ==
  {w \in DOMAIN a.edge[u] : Alive(a, u, w) /\ ~a.edge[u][w].marked /\ a.edge[u][w].count <= a.k - 2}

ToDelete(a, u) ==
  {w \in DOMAIN a.edge[u] : Alive(a, u, w) /\ ~a.edge[u][w].marked /\ a.edge[u][w].count < a.k - 2}

\* core2_wedges<..., true>::init_visit: mark, and look for the triangles.
DecomposeInit(r, a, v) ==
  LET u == v.vertex
      to_delete == ToDelete(a, u)
      lost == {p \in Wedges(a, u) : p[1] \in to_delete \/ p[2] \in to_delete}
      marked == [w \in DOMAIN a.edge[u] |->
                   [a.edge[u][w] EXCEPT !.marked = @ \/ w \in to_delete]]
  IN  IF to_delete = {} THEN Ignore(a)
      ELSE Effect(FALSE, [a EXCEPT !.edge[u] = marked], Checks(lost, u))

\* --iedges[j][i], the entry leaves with its last triangle.
DropSource(a, j, i) ==
  [a EXCEPT !.iedges[j] =
     IF @[i] = 1 THEN [x \in DOMAIN @ \ {i} |-> @[x]] ELSE [@ EXCEPT ![i] = @ - 1]]

\* pre_visit.  An unknown source would be counted below 0: no outcome.
DecomposePreVisit(r, a, v) ==
  LET u == v.vertex
      close == v.val.close
      from == v.val.from
  IN  CASE Replica(r, u) -> Answer(TRUE, a)
        [] ~Replica(r, u) /\ v.val.kind = "check" ->
             IF ~Alive(a, u, close) THEN Answer(FALSE, a)
             ELSE IF from \notin DOMAIN a.iedges[u] THEN {}
             ELSE Answer(TRUE, DropSource(Decrement(a, u, close), u, from))
        [] OTHER ->
             IF ~Has(a, u, close) \/ ~Has(a, u, from) THEN Answer(FALSE, a)
             ELSE Answer(FALSE, Decrement(Decrement(a, u, close), u, from))

-----------------------------------------------------------------------------
(* unroll_iedges_visitor.                                                  *)

Unroll(i, j, k) == NewVisitor(i, [kind |-> "unroll", j |-> j, k |-> k])

\* init_visit: each marked edge (j, k) is reported to every source known at j.
UnrollInit(r, a, v) ==
  LET j == v.vertex
      marked == {k \in DOMAIN a.edge[j] : Alive(a, j, k) /\ a.edge[j][k].marked}
  IN  Effect(FALSE, a, Each((DOMAIN a.iedges[j]) \X marked, LAMBDA p : Unroll(p[1], j, p[2])))

\* Mutation of UnrollPreVisit: triangles that the first traversal took off too.
UnrollMarkedToo(r, a, v) ==
  LET i == v.vertex
  IN  IF Replica(r, i) THEN Answer(TRUE, a)
      ELSE IF ~Alive(a, i, v.val.j) \/ ~Alive(a, i, v.val.k) THEN Answer(FALSE, a)
      ELSE Answer(FALSE, Decrement(Decrement(a, i, v.val.j), i, v.val.k))

\* pre_visit: a triangle with a marked edge at i is off the counts already.
UnrollPreVisit(r, a, v) ==
  LET i == v.vertex
      Kept(w) == Alive(a, i, w) /\ ~a.edge[i][w].marked
  IN  IF Replica(r, i) THEN Answer(TRUE, a)
      ELSE IF ~Kept(v.val.j) \/ ~Kept(v.val.k) THEN Answer(FALSE, a)
      ELSE Answer(FALSE, Decrement(Decrement(a, i, v.val.j), i, v.val.k))

-----------------------------------------------------------------------------
(* The end of a round, on the vertices and hubs a rank iterates over.      *)

Remains(a, u) == {w \in DOMAIN a.edge[u] : Alive(a, u, w) /\ ~a.edge[u][w].marked}

\* Marked edges are deleted; a vertex without edges forgets them all.
RemoveMarked(a) ==
  [a EXCEPT !.edge = [u \in Vertex |->
     IF Remains(a, u) = {} THEN << >>
     ELSE [w \in DOMAIN @[u] |-> [@[u][w] EXCEPT !.deleted = @ \/ a.edge[u][w].marked]]]]

\* local_total_removed_count > 0.
RemovesSome(a) == \E u \in Vertex : \E w \in DOMAIN a.edge[u] : Alive(a, u, w) /\ a.edge[u][w].marked
=============================================================================
