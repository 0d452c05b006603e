-------------------------- MODULE TokenPassingTds --------------------------
(***************************************************************************)
(* Template-driven search                                                  *)
(* (include/prunejuice/non_local_constraint_checking_tds_batch.hpp): like  *)
(* TokenPassing, but a token carries the vertices of its walk and each     *)
(* position must be a new vertex or a given earlier one; sources start in  *)
(* batches of ranks.  Tokens whose rest does not depend on how they came   *)
(* are passed on once: a token has the label of the last vertex at which   *)
(* the constraint says its way matters, and a number given there.          *)
(***************************************************************************)
EXTENDS PatternTemplate

\* tppm_visitor_tds.  visited: the walk so far, the receiver included; label and
\* number: target_vertex_label and sequence_number.
StartValue ==
  [kind |-> "init", target |-> CHOOSE v \in Vertex : TRUE, label |-> CHOOSE v \in Vertex : TRUE,
   number |-> 0, visited |-> << >>, itr |-> 0, role |-> 0]

Token(vertex, target, label, number, visited, itr, role) ==
  NewVisitor(vertex, [kind |-> "token", target |-> target, label |-> label,
                      number |-> number, visited |-> Append(visited, vertex),
                      itr |-> itr, role |-> role])

Ack(target, itr) ==
  NewVisitor(target, [StartValue EXCEPT !.kind = "ack", !.target = target, !.itr = itr])

FitsNext(a, v) ==
  LET next == v.val.itr + 1
  IN  /\ Search[a.search].label[v.vertex] = LabelAt(a.search, a.pl, next)
      /\ PathAt(a.search, a.pl, next) \in a.cell[v.vertex].roles
      /\ v.val.role = PathAt(a.search, a.pl, next - 1)

InnerHop(a, v) == v.val.itr < LastItr(a.search, a.pl)

\* w may take position i of a walk that has visited the positions before it.
MayTake(a, visited, i, w) ==
  LET k == Enumeration(a.search, a.pl, i)
  IN  IF k = i THEN \A j \in 1..i : visited[j] # w ELSE visited[k + 1] = w

\* Mutation of KeyOf: tokens are told apart by their position only.
KeyOfPosition(v) == <<v.val.itr>>

\* VisitorCompare: what makes two tokens at a vertex the same.
KeyOf(v) == <<v.val.itr, v.val.label, v.val.number>>

\* pre_visit; visited_vertices[0..new_itr_count - 1] are the positions before.
PreVisit(r, a, v) ==
  LET c == a.cell[v.vertex]
  IN  CASE ~c.active -> Answer(FALSE, a)
        [] c.active /\ v.val.kind = "ack" -> Answer(TRUE, a)
        [] OTHER ->
             IF ~InnerHop(a, v) THEN Answer(FitsNext(a, v), a)
             ELSE IF \/ ~FitsNext(a, v) \/ KeyOf(v) \in c.seen
                     \/ ~MayTake(a, v.val.visited, v.val.itr + 1, v.vertex)
             THEN Answer(FALSE, a)
             ELSE Answer(TRUE, [a EXCEPT !.cell[v.vertex].seen = @ \cup {KeyOf(v)}])

\* A source of this batch starts a token for every neighbour.
InitVisit(r, a, v) ==
  LET u == v.vertex
      to == SetToSeq(DOMAIN a.cell[u].edges)
  IN  IF a.cell[u].batch = "none" \/ ~a.cell[u].active THEN Ignore(a)
      ELSE Effect(FALSE, a,
             [i \in DOMAIN to |-> Token(to[i], u, u, a.cell[u].sequence, <<u>>, 0,
                                        PathAt(a.search, a.pl, 0))])

\* The filter before a token is sent on to w.
WorthSending(a, v, w) ==
  LET next == v.val.itr + 2
      cyclic == Constraint(a.search, a.pl).cyclic
  IN  IF next = LastItr(a.search, a.pl) + 1
      THEN IF cyclic THEN w = v.val.target
           ELSE w # v.val.target /\ MayTake(a, v.val.visited, next, w)
      ELSE MayTake(a, v.val.visited, next, w)

\* visit of a token in the middle of its walk.  At a position of the aggregation
\* line every copy becomes a token of its own.
Forward(a, v) ==
  LET u == v.vertex
      next == v.val.itr + 1
      to == SetToSeq({w \in DOMAIN a.cell[u].edges : WorthSending(a, v, w)})
      fresh == Constraint(a.search, a.pl).aggregate[next + 1]
      Copy(i) == Token(to[i], v.val.target,
                       IF fresh THEN u ELSE v.val.label,
                       IF fresh THEN a.cell[u].sequence + i - 1 ELSE v.val.number,
                       v.val.visited, next, PathAt(a.search, a.pl, next))
  IN  IF ~FitsNext(a, v) \/ ~MayTake(a, v.val.visited, next, u) THEN Ignore(a)
      ELSE Effect(FALSE, [a EXCEPT !.cell[u].sequence = IF fresh THEN @ + Len(to) ELSE @],
                  [i \in DOMAIN to |-> Copy(i)])

Confirm(a, u) == [a EXCEPT !.cell[u].batch = IF @ = "none" THEN @ ELSE "found"]

\* visit of a token on its last hop.
Complete(a, v) ==
  LET u == v.vertex
  IN  CASE ~FitsNext(a, v) -> Ignore(a)
        [] FitsNext(a, v) /\ Constraint(a.search, a.pl).cyclic ->
             IF u = v.val.target /\ u = v.val.visited[1]
             THEN Effect(FALSE, Confirm(a, u), << >>) ELSE Ignore(a)
        [] OTHER ->
             IF u = v.val.target THEN Ignore(a)
             ELSE Effect(FALSE, a, <<Ack(v.val.target, v.val.itr)>>)

Visit(r, a, v) ==
  IF ~a.cell[v.vertex].active \/ Replica(r, v.vertex) THEN Ignore(a)
  ELSE IF v.val.kind = "ack" THEN Effect(FALSE, Confirm(a, v.vertex), << >>)
  ELSE IF InnerHop(a, v) THEN Forward(a, v) ELSE Complete(a, v)

-----------------------------------------------------------------------------
(* Batches.                                                                *)

\* token_source_set: who takes part, when the rank's turn comes.
IsSource(a, r, u) ==
  /\ Master[u] = r /\ a.cell[u].active
  /\ Search[a.search].label[u] = LabelAt(a.search, a.pl, 0)
  /\ PathAt(a.search, a.pl, 0) \in a.cell[u].roles

\* The start of a batch: its ranks offer their sources, all caches are emptied.
BeginBatch(a, r, ranks) ==
  [a EXCEPT !.cell = [u \in Vertex |->
     [@[u] EXCEPT !.batch = IF r \in ranks /\ IsSource(a, r, u) THEN "sought" ELSE "none",
                  !.seen = {}, !.sequence = 0]]]

\* The end of a batch: its result joins token_source_map.
EndBatch(a) ==
  [a EXCEPT !.cell = [u \in Vertex |->
     [@[u] EXCEPT !.source = IF a.cell[u].batch = "none" THEN @ ELSE a.cell[u].batch,
                  !.batch = "none", !.seen = {}, !.sequence = 0]]]
=============================================================================
