---------------------------- MODULE TokenPassing ----------------------------
(***************************************************************************)
(* Non-local constraint checking for constraints whose inner positions     *)
(* have labels of their own                                                *)
(* (include/prunejuice/non_local_constraint_checking_unique.hpp).  Every   *)
(* vertex that may take the first position sends a token around; a token   *)
(* that completes the walk confirms its source.  The options that the      *)
(* driver never turns on (selected vertices and edges, join vertices) are  *)
(* left out.                                                               *)
(***************************************************************************)
EXTENDS PatternTemplate

\* tppm_visitor: itr counts the hops before this one, last is max_itr_count,
\* role is the template vertex of the sender.
StartValue ==
  [kind |-> "init", parent |-> CHOOSE v \in Vertex : TRUE,
   target |-> CHOOSE v \in Vertex : TRUE, itr |-> 0, role |-> 0]

Token(vertex, parent, target, itr, role) ==
  NewVisitor(vertex, [kind |-> "token", parent |-> parent, target |-> target,
                      itr |-> itr, role |-> role])

Ack(target, vertex, itr) ==
  NewVisitor(target, [kind |-> "ack", parent |-> vertex, target |-> target,
                      itr |-> itr, role |-> 0])

\* The vertex can take the position after the sender's.
FitsNext(a, v) ==
  LET next == v.val.itr + 1
  IN  /\ Search[a.search].label[v.vertex] = LabelAt(a.search, a.pl, next)
      /\ PathAt(a.search, a.pl, next) \in a.cell[v.vertex].roles
      /\ v.val.role = PathAt(a.search, a.pl, next - 1)

InnerHop(a, v) == v.val.itr < LastItr(a.search, a.pl)

\* pre_visit: a token is passed on once for each source.
PreVisit(r, a, v) ==
  LET c == a.cell[v.vertex]
  IN  CASE ~c.active           -> Answer(FALSE, a)
        [] c.active /\ v.val.kind = "ack" -> Answer(TRUE, a)
        [] OTHER ->
             IF ~InnerHop(a, v) THEN Answer(FitsNext(a, v), a)
             ELSE IF v.val.target \in c.seen \/ v.vertex = v.val.target \/ ~FitsNext(a, v)
             THEN Answer(FALSE, a)
             ELSE Answer(TRUE, [a EXCEPT !.cell[v.vertex].seen = @ \cup {v.val.target}])

\* The vertex can take the first position; for a path, also the last.
IsSource(a, u) ==
  LET path == Constraint(a.search, a.pl).path
  IN  /\ Search[a.search].label[u] = LabelAt(a.search, a.pl, 0)
      /\ path[1] \in a.cell[u].roles
      /\ Constraint(a.search, a.pl).cyclic \/ Last(path) \in a.cell[u].roles

\* A token to every vertex of the set.
Tokens(S, u, target, itr, role) ==
  LET to == SetToSeq(S)
  IN  [i \in DOMAIN to |-> Token(to[i], u, target, itr, role)]

InitVisit(r, a, v) ==
  LET u == v.vertex
  IN  IF ~a.cell[u].active \/ ~IsSource(a, u) THEN Ignore(a)
      ELSE Effect(FALSE, [a EXCEPT !.cell[u].source = IF @ = "none" THEN "sought" ELSE @],
                  Tokens(DOMAIN a.cell[u].edges, u, u, 0, PathAt(a.search, a.pl, 0)))

Confirm(a, u) ==
  [a EXCEPT !.cell[u].source = IF @ = "none" THEN @ ELSE "found"]

\* visit of a token in the middle of its walk: on to all neighbours but the sender.
Forward(a, v) ==
  LET u == v.vertex
      next == v.val.itr + 1
  IN  IF u = v.val.target \/ ~FitsNext(a, v) THEN Ignore(a)
      ELSE Effect(FALSE, a, Tokens(DOMAIN a.cell[u].edges \ {v.val.parent}, u,
                                   v.val.target, next, PathAt(a.search, a.pl, next)))

\* visit of a token on its last hop.  A cycle must end at its source, which then
\* marks the edge it came by; a path must end elsewhere and tells its source.
Complete(a, v) ==
  LET u == v.vertex
      Closed == [Confirm(a, u) EXCEPT !.cell[u].edges =
                   IF a.cell[u].source # "none" /\ v.val.parent \in DOMAIN @
                   THEN [@ EXCEPT ![v.val.parent] = 1] ELSE @]
  IN  CASE ~FitsNext(a, v) -> Ignore(a)
        [] FitsNext(a, v) /\ Constraint(a.search, a.pl).cyclic ->
             IF u = v.val.target THEN Effect(FALSE, Closed, << >>) ELSE Ignore(a)
        [] OTHER ->
             IF u = v.val.target THEN Ignore(a)
             ELSE Effect(FALSE, a, <<Ack(v.val.target, u, v.val.itr)>>)

Visit(r, a, v) ==
  IF ~a.cell[v.vertex].active \/ Replica(r, v.vertex) THEN Ignore(a)
  ELSE IF v.val.kind = "ack" THEN Effect(FALSE, Confirm(a, v.vertex), << >>)
  ELSE IF InnerHop(a, v) THEN Forward(a, v) ELSE Complete(a, v)
=============================================================================
