-------------------------- MODULE LocalConstraints --------------------------
(***************************************************************************)
(* Local constraint checking                                               *)
(* (include/prunejuice/local_constraint_checking.hpp): in supersteps,      *)
(* every vertex tells its neighbours its candidate roles and gives up the  *)
(* roles for which it did not hear of every neighbouring role.             *)
(***************************************************************************)
EXTENDS PatternTemplate

\* lppm_visitor: msg 0 starts a vertex, msg 1 carries its roles.
StartValue == [msg |-> 0, parent |-> CHOOSE v \in Vertex : TRUE, roles |-> {}]

Alive(neighbour, vertex, roles) ==
  NewVisitor(neighbour, [msg |-> 1, parent |-> vertex, roles |-> roles])

\* Mutation of Heard: the last sender's roles replace those heard before.
HeardLast(a, v, roles) ==
  IF ~Touches(a.search, roles, v.val.roles) THEN a
  ELSE [a EXCEPT !.cell[v.vertex] =
          [@ EXCEPT !.state = IF a.cell[v.vertex].listed THEN @ ELSE roles,
                    !.listed = TRUE, !.heard = v.val.roles,
                    !.edges = (v.val.parent :> 1) @@ @]]

\* lppm_visitor::verify_and_update_vertex_state: a role of the sender is next to
\* one of mine; its edge is marked, and in the first superstep entered.
Heard(a, v, roles) ==
  IF ~Touches(a.search, roles, v.val.roles) THEN a
  ELSE [a EXCEPT !.cell[v.vertex] =
          [@ EXCEPT !.state = IF a.cell[v.vertex].listed THEN @ ELSE roles,
                    !.listed = TRUE,
                    !.heard = @ \cup v.val.roles,
                    !.edges = IF a.first \/ v.val.parent \in DOMAIN @
                              THEN (v.val.parent :> 1) @@ @ ELSE @]]

\* pre_visit on a replica in the first superstep.  The loop over the template
\* stops at the first role next to one of the sender's: the replica records the
\* roles up to that one only.
FirstOnReplica(a, v) ==
  LET u == v.vertex
      roles == Matching(a.search, u)
      found == {p \in roles : Touches(a.search, {p}, v.val.roles)}
  IN  IF roles = {} THEN Answer(FALSE, [a EXCEPT !.cell[u].active = FALSE])
      ELSE IF found = {} THEN Answer(FALSE, a)
      ELSE Answer(TRUE, [a EXCEPT !.cell[u].roles = {p \in roles : p <= Min(found)}])

\* pre_visit on the owner or controller in the first superstep.
FirstOnMaster(a, v) ==
  LET u == v.vertex
      roles == Matching(a.search, u)
  IN  IF roles = {} THEN Answer(FALSE, [a EXCEPT !.cell[u].active = FALSE])
      ELSE IF v.val.roles = {} THEN Answer(FALSE, a)
      ELSE Answer(FALSE, Heard([a EXCEPT !.cell[u].roles = roles], v, roles))

LaterOnReplica(a, v) ==
  Answer(Touches(a.search, a.cell[v.vertex].roles, v.val.roles), a)

LaterOnMaster(a, v) ==
  LET c == a.cell[v.vertex]
  IN  Answer(FALSE, IF c.listed /\ c.state # {} /\ c.roles # {} THEN Heard(a, v, c.roles) ELSE a)

PreVisit(r, a, v) ==
  CASE ~a.cell[v.vertex].active -> Answer(FALSE, a)
    [] OTHER ->
         CASE a.first /\ Replica(r, v.vertex)  -> FirstOnReplica(a, v)
           [] a.first /\ ~Replica(r, v.vertex) -> FirstOnMaster(a, v)
           [] ~a.first /\ Replica(r, v.vertex) -> LaterOnReplica(a, v)
           [] OTHER                            -> LaterOnMaster(a, v)

\* visit in the first superstep: tell every neighbour, and have the replicas of
\* a hub do the same.
FirstVisit(r, a, v) ==
  LET u == v.vertex
      roles == Matching(a.search, u)
  IN  IF roles = {} THEN Ignore([a EXCEPT !.cell[u].active = FALSE])
      ELSE Effect(TRUE, [a EXCEPT !.cell[u].roles = roles],
                  [i \in DOMAIN Stored[r][u] |-> Alive(Stored[r][u][i], u, roles)])

\* visit in a later superstep: the owner or controller knows all edges left.
LaterVisit(r, a, v) ==
  LET c == a.cell[v.vertex]
      neighbours == SetToSeq(DOMAIN c.edges)
  IN  IF c.roles = {} \/ (~Replica(r, v.vertex) /\ ~c.listed) THEN Ignore(a)
      ELSE Effect(FALSE, a,
                  [i \in DOMAIN neighbours |-> Alive(neighbours[i], v.vertex, c.roles)])

\* init_visit calls visit; only visitors with msg 0 come here.
Visit(r, a, v) ==
  IF ~a.cell[v.vertex].active THEN Ignore(a)
  ELSE IF a.first THEN FirstVisit(r, a, v) ELSE LaterVisit(r, a, v)

-----------------------------------------------------------------------------
(* The end of a superstep.                                                 *)

\* Mutation of Kept: one neighbouring role is enough.
KeptByAny(s, c) == {p \in c.state : Adjacent[s][p] \cap c.heard # {}}

\* Roles for which every neighbouring role was heard of.
Kept(s, c) ==
  {p \in c.state : Adjacent[s][p] \subseteq c.heard /\ Adjacent[s][p] # {}}

\* A vertex nobody answered in the first superstep.
Unheard(a, r, v) ==
  a.first /\ Master[v] = r /\ ~a.cell[v].listed /\ (a.cell[v].active \/ v \in Delegate)

Dropped(c) == [c EXCEPT !.active = FALSE, !.listed = FALSE, !.state = {}, !.heard = {},
                        !.edges = << >>]

Marked(c) == {w \in DOMAIN c.edges : c.edges[w] = 1}

VerifyCell(a, r, v) ==
  LET c == a.cell[v]
      kept == Kept(a.search, c)
  IN  IF Replica(r, v) THEN [c EXCEPT !.roles = {}]
      ELSE IF Unheard(a, r, v) THEN [c EXCEPT !.active = FALSE, !.edges = << >>]
      ELSE IF ~c.listed THEN c
      ELSE IF kept = {} THEN Dropped(c)
      ELSE [c EXCEPT !.state = kept, !.roles = kept, !.heard = {},
                     !.edges = [w \in Marked(c) |-> 0]]

\* Mutation of NotFinished: an edge that is left counts as a change.
NotFinishedWhileEdges(a, r) ==
  \E v \in Vertex : Unheard(a, r, v) \/ (a.cell[v].listed /\ Marked(a.cell[v]) # {})

\* A vertex, a role or an edge was given up: one more superstep.
NotFinished(a, r) ==
  \E v \in Vertex :
    \/ Unheard(a, r, v)
    \/ a.cell[v].listed /\ (Kept(a.search, a.cell[v]) # a.cell[v].state
                             \/ Marked(a.cell[v]) # DOMAIN a.cell[v].edges)

\* verify_and_update_vertex_state on all ranks, between two barriers.  What an
\* inactive replica still has of active edges is cleared.
VerifyAndUpdate(d) ==
  LET verified == [r \in Rank |->
        [d[r] EXCEPT !.cell = [v \in Vertex |-> VerifyCell(d[r], r, v)]]]
  IN  [r \in Rank |-> [ReduceCopies(verified)[r] EXCEPT !.first = FALSE]]
=============================================================================
