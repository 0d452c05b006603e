-------------------------- MODULE PatternTemplate --------------------------
(***************************************************************************)
(* The template to search for (include/prunejuice/template.hpp), its       *)
(* non-local constraints (include/prunejuice/non_local_constraint.hpp),    *)
(* and what a rank keeps of the search                                     *)
(* (include/prunejuice/algorithm_state.hpp and the vertex data of          *)
(* run_pattern_matching_beta_1.1.cpp).                                     *)
(***************************************************************************)
EXTENDS StoredGraph, FiniteSets, FiniteSetsExt, SequencesExt

CONSTANT Search  \* the searches: a sequence of [label, pattern, edges, constraints]

\* One search.  label: metadata of the vertices; pattern: labels of the template
\* vertices 0, 1, ...; edges: the lines of the edge file; constraints: the lines
\* of the constraint file, [path, aggregate, cyclic, tds, lcc].
Searches == DOMAIN Search

TemplateVertex(s) == 0..Len(Search[s].pattern) - 1

PatternLabel(s, p) == Search[s].pattern[p + 1]

\* The template vertices whose label the vertex has.
Matching(s, v) == {p \in TemplateVertex(s) : PatternLabel(s, p) = Search[s].label[v]}

\* Edges with source p from line i on, without a gap.
RunOf(list, p, i) ==
  CHOOSE n \in 0..Len(list) - i :
    /\ \A k \in i + 1..i + n : list[k][1] = p
    /\ i + n < Len(list) => list[i + n + 1][1] # p

\* generate_vertex_list: where the edges of each template vertex begin.  The
\* read behind the last line is taken to find another source.
Offsets(s) ==
  LET list == Search[s].edges
      f[p \in 0..Len(Search[s].pattern)] ==
        IF p = 0 THEN 0 ELSE f[p - 1] + RunOf(list, p - 1, f[p - 1])
  IN  f

\* Neighbours of every template vertex: edges[vertices[p]..vertices[p + 1]).
Adjacent ==
  [s \in Searches |->
     LET vertices == Offsets(s)
     IN  [p \in TemplateVertex(s) |->
            {Search[s].edges[e][2] : e \in vertices[p] + 1..vertices[p + 1]}]]

\* Some template vertex of one set has a neighbour in the other.
Touches(s, roles, others) == \E p \in roles : Adjacent[s][p] \cap others # {}

\* read_non_local_constraint: the walk a token takes, position by position from
\* 0, and its length less one (itr_count starts at 0).
Constraint(s, pl) == Search[s].constraints[pl]
PathAt(s, pl, i) == Constraint(s, pl).path[i + 1]
LabelAt(s, pl, i) == PatternLabel(s, PathAt(s, pl, i))
LastItr(s, pl) == Len(Constraint(s, pl).path) - 2

\* The enumeration line: position i must be a new vertex (Enumeration = i), or
\* the vertex of an earlier position.
Enumeration(s, pl, i) ==
  CHOOSE k \in 0..i :
    /\ PathAt(s, pl, k) = PathAt(s, pl, i)
    /\ \A j \in 0..k - 1 : PathAt(s, pl, j) # PathAt(s, pl, i)

-----------------------------------------------------------------------------
(* What a rank keeps of a vertex.                                          *)

\* active: vertex_active; roles: template_vertices; listed, state, heard: the
\* entry of vertex_state_map; edges: vertex_active_edges_map, the neighbours
\* with their mark; source: token_source_map; batch: batch_token_source_map;
\* seen: vertex_token_source_set or visitor_set_receive; sequence:
\* vertex_sequence_number.
FreshCell ==
  [active |-> TRUE, roles |-> {}, listed |-> FALSE, state |-> {}, heard |-> {},
   edges |-> << >>, source |-> "none", batch |-> "none", seen |-> {}, sequence |-> 0]

\* The data of a rank while one algorithm runs: search s, its program, whether
\* this is the very first superstep, and the constraint.
FreshData(s) ==
  [search |-> s, program |-> "lcc", first |-> TRUE, pl |-> 0,
   cell |-> [v \in Vertex |-> FreshCell]]

\* vertex_data::all_min_reduce and all_max_reduce over the copies of a hub.
Value(roles) == MapThenSumSet(LAMBDA p : 2 ^ p, roles)

ReduceCopies(d) ==
  [r \in Rank |-> [d[r] EXCEPT !.cell = [v \in Vertex |->
     IF v \notin Delegate THEN @[v]
     ELSE [@[v] EXCEPT
             !.active = \A q \in Rank : d[q].cell[v].active,
             !.roles = LET R == {d[q].cell[v].roles : q \in Rank}
                       IN  CHOOSE S \in R : \A T \in R : Value(T) <= Value(S)]]]]
=============================================================================
