-------------------------- MODULE PatternMatching --------------------------
(***************************************************************************)
(* The search for a template in a labelled graph                           *)
(* (src/run_pattern_matching_beta_1.1.cpp): local constraint checking      *)
(* until nothing changes, then one round of token passing per non-local    *)
(* constraint, each followed by the removal of unconfirmed sources and, if *)
(* the constraint asks for it, by local checking again.  Traversals are    *)
(* those of AsyncTraversal; what the ranks do between two barriers is one  *)
(* step.                                                                   *)
(***************************************************************************)
EXTENDS PatternTemplate

CONSTANT BatchRanks  \* tp_vertex_batch_size: ranks per batch of sources

\* Rank 0 to Cardinality(Rank) - 1; the assert of token_passing_pattern_matching.
ASSUME BatchAssumption ==
  /\ Rank = 0..Cardinality(Rank) - 1
  /\ BatchRanks \in Rank \cup {Cardinality(Rank)} /\ BatchRanks > 0
  /\ Cardinality(Rank) % BatchRanks = 0

VARIABLES
  pending, data,  \* of the traversal, see AsyncTraversal
  batch,          \* first rank of the batch of sources
  done            \* the result has been written

vars == <<pending, data, batch, done>>

LCC == INSTANCE LocalConstraints
TP  == INSTANCE TokenPassing
TDS == INSTANCE TokenPassingTds

PreVisit(r, a, v) ==
  CASE a.program = "lcc"    -> LCC!PreVisit(r, a, v)
    [] a.program = "unique" -> TP!PreVisit(r, a, v)
    [] a.program = "tds"    -> TDS!PreVisit(r, a, v)

Visit(r, a, v) ==
  CASE a.program = "lcc"    -> LCC!Visit(r, a, v)
    [] a.program = "unique" -> TP!Visit(r, a, v)
    [] a.program = "tds"    -> TDS!Visit(r, a, v)

InitVisit(r, a, v) ==
  CASE a.program = "lcc"    -> LCC!Visit(r, a, v)
    [] a.program = "unique" -> TP!InitVisit(r, a, v)
    [] a.program = "tds"    -> TDS!InitVisit(r, a, v)

OtherRanks(r) == Rank \ {r}

INSTANCE AsyncTraversal WITH Others <- OtherRanks

\* The search, program and constraint, the same on every rank.
The == data[0]

\* init_visitor_traversal(): a visitor for every vertex and every controller.
AllVertices(program) ==
  LET val == CASE program = "lcc"    -> LCC!StartValue
               [] program = "unique" -> TP!StartValue
               [] program = "tds"    -> TDS!StartValue
      Listed(r) == ToSet(Controllers[r] \o OwnedVertices[r])
  IN  SetToBag(UNION {{Waiting(r, "start", NewVisitor(v, val)) : v \in Listed(r)} : r \in Rank})

RanksFrom(b) == b..b + BatchRanks - 1

-----------------------------------------------------------------------------
Init ==
  /\ \E s \in Searches : data = [r \in Rank |-> FreshData(s)]
  /\ pending = AllVertices("lcc")
  /\ batch = 0
  /\ done = FALSE

Traverse == Step /\ UNCHANGED <<batch, done>>

\* Local constraint checking begins, or its next superstep.
BeginSuperstep(d) ==
  /\ data' = [r \in Rank |-> [d[r] EXCEPT !.program = "lcc"]]
  /\ pending' = AllVertices("lcc")
  /\ UNCHANGED <<batch, done>>

\* The turn of constraint pl, if there is one: token_source_map and
\* vertex_token_source_set are cleared, and the tokens start.
BeginConstraint(d, pl) ==
  LET cleared == [r \in Rank |->
        [d[r] EXCEPT !.pl = pl,
                     !.cell = [v \in Vertex |-> [@[v] EXCEPT !.source = "none", !.seen = {}]]]]
      program == IF Constraint(d[0].search, pl).tds THEN "tds" ELSE "unique"
      Offered(r) == IF program = "unique" THEN cleared[r]
                    ELSE TDS!BeginBatch(cleared[r], r, RanksFrom(0))
  IN  IF pl > Len(Search[d[0].search].constraints)
      THEN data' = d /\ done' = TRUE /\ UNCHANGED <<pending, batch>>
      ELSE /\ data' = [r \in Rank |-> [Offered(r) EXCEPT !.program = program]]
           /\ pending' = AllVertices(program)
           /\ batch' = 0
           /\ UNCHANGED done

EndSuperstep ==
  /\ Quiescent /\ ~done /\ The.program = "lcc"
  /\ IF \E r \in Rank : LCC!NotFinished(data[r], r)
     THEN BeginSuperstep(LCC!VerifyAndUpdate(data))
     ELSE BeginConstraint(LCC!VerifyAndUpdate(data), The.pl + 1)

\* A batch of sources is through and another is left.
NextBatch ==
  /\ Quiescent /\ The.program = "tds"
  /\ batch + BatchRanks < Cardinality(Rank)
  /\ batch' = batch + BatchRanks
  /\ data' = [r \in Rank |-> TDS!BeginBatch(TDS!EndBatch(data[r]), r, RanksFrom(batch'))]
  /\ pending' = AllVertices("tds")
  /\ UNCHANGED done

Unconfirmed(c) == c.source = "sought" /\ c.roles # {}

\* An unconfirmed source loses the role of the first position (but keeps it in
\* vertex_state_map); replicas lose all theirs until the reduction.
PruneCell(a, r, v) ==
  LET c == a.cell[v]
      left == c.roles \ {PathAt(a.search, a.pl, 0)}
  IN  IF Replica(r, v) THEN [c EXCEPT !.roles = {}]
      ELSE IF ~Unconfirmed(c) THEN c
      ELSE [c EXCEPT !.roles = left, !.active = @ /\ left # {}]

\* Sources that are left without a role leave vertex_state_map.
Unlist(c) ==
  IF c.source = "none" \/ c.active THEN c
  ELSE [c EXCEPT !.listed = FALSE, !.state = {}, !.heard = {}]

Pruned(d) ==
  LET pruned == [r \in Rank |->
        [d[r] EXCEPT !.cell = [v \in Vertex |-> PruneCell(d[r], r, v)]]]
      reduced == ReduceCopies(pruned)
  IN  [r \in Rank |-> [reduced[r] EXCEPT !.cell = [v \in Vertex |-> Unlist(@[v])]]]

\* token_source_deleted
Deleted(d) == \E r \in Rank : \E v \in Vertex : Unconfirmed(d[r].cell[v])

\* All tokens of the constraint are through.
EndConstraint ==
  /\ Quiescent /\ ~done
  /\ \/ The.program = "unique"
     \/ The.program = "tds" /\ batch + BatchRanks = Cardinality(Rank)
  /\ LET d == IF The.program = "unique" THEN data ELSE [r \in Rank |-> TDS!EndBatch(data[r])]
     IN  IF Deleted(d) /\ Constraint(The.search, The.pl).lcc
         THEN BeginSuperstep(Pruned(d))
         ELSE BeginConstraint(Pruned(d), The.pl + 1)

Next ==
  \/ Traverse
  \/ EndSuperstep
  \/ NextBatch
  \/ EndConstraint
  \/ done /\ UNCHANGED vars

Spec == Init /\ [][Next]_vars

\* Every rank keeps running its visitors and enters the collective calls.
FairSpec == Spec /\ WF_vars(Next)

-----------------------------------------------------------------------------
(* The matches of a template: a vertex for every role.                     *)

Matches ==
  [s \in Searches |->
     {m \in [TemplateVertex(s) -> Vertex] :
        /\ \A p, q \in TemplateVertex(s) : p # q => m[p] # m[q]
        /\ \A p \in TemplateVertex(s) : Search[s].label[m[p]] = PatternLabel(s, p)
        /\ \A p \in TemplateVertex(s) : \A q \in Adjacent[s][p] : Edge(m[p], m[q])}]

Cell(v) == data[Master[v]].cell[v]

\* No order of visitors loses part of a match: its vertices stay active on every
\* copy, keep their roles, and their edges stay.
MatchesSurvive ==
  \A m \in Matches[The.search] : \A p \in TemplateVertex(The.search) :
    /\ \A r \in Rank : HoldsCopy(r, m[p]) => data[r].cell[m[p]].active
    /\ ~The.first =>
         /\ \A r \in Rank : HoldsCopy(r, m[p]) => p \in data[r].cell[m[p]].roles
         /\ p \in Cell(m[p]).state
         /\ \A q \in Adjacent[The.search][p] : m[q] \in DOMAIN Cell(m[p]).edges

\* A walk from u that satisfies constraint pl in what is left of the graph:
\* positions are the same vertex exactly when they are the same template vertex.
WalkFrom(u) ==
  LET path == Constraint(The.search, The.pl).path
      Extends(w, v) ==
        LET i == Len(w) + 1
        IN  /\ Cell(v).active
            /\ path[i] \in Cell(v).roles
            /\ w # << >> => v \in DOMAIN Cell(w[i - 1]).edges
            /\ \A j \in 1..i - 1 : (w[j] = v) <=> (path[j] = path[i])
      walks[i \in 1..Len(path)] ==
        IF i = 1 THEN {<<v>> : v \in {x \in {u} : Extends(<< >>, x)}}
        ELSE {Append(x[1], x[2]) : x \in {y \in walks[i - 1] \X Vertex : Extends(y[1], y[2])}}
  IN  walks[Len(path)] # {}

\* Token passing decides its constraint: when no token is left, a source is
\* confirmed exactly if such a walk starts at it, although tokens are passed on
\* only once and race for it.
SourcesAreRight ==
  Quiescent /\ ~done /\ The.program # "lcc" =>
    \A v \in Vertex :
      LET c == Cell(v)
      IN  (c.source = "found" \/ c.batch = "found")
            <=> (c.source # "none" \/ c.batch # "none") /\ WalkFrom(v)

\* Local checking ends in a fixed point, by what owners and controllers hold: a
\* role left at a listed vertex has each of its neighbours among the roles left
\* at an active far end of an edge, and edges are left at both ends or at none.
LocalFixpoint ==
  \A u, w \in Vertex :
    /\ Cell(u).listed =>
         \A p \in Cell(u).roles : \A q \in Adjacent[The.search][p] :
           \E x \in DOMAIN Cell(u).edges : q \in Cell(x).roles /\ Cell(x).active
    /\ w \in DOMAIN Cell(u).edges /\ Cell(u).listed => u \in DOMAIN Cell(w).edges /\ Cell(w).listed

SurvivorsFit ==
  [][The.program = "lcc" /\ (The.program' # "lcc" \/ done') => LocalFixpoint']_vars

\* The search comes to an end.
Terminates == <>done

\* The comment in local_constraint_checking.hpp: the roles in vertex_state_map and
\* those in template_vertices are synced.
RolesAreSynced ==
  \A v \in Vertex : Cell(v).listed => Cell(v).state = Cell(v).roles
=============================================================================
