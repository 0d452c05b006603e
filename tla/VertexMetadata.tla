--------------------------- MODULE VertexMetadata ---------------------------
(***************************************************************************)
(* The two vertex programs that give every vertex its metadata, the value  *)
(* that pattern matching compares: the values of a list of files           *)
(* (include/metadata/vertex_data_db.hpp), and the degree's class           *)
(* (vertex_data_db_degree.hpp).                                            *)
(***************************************************************************)
EXTENDS StoredGraph, FiniteSets

CONSTANT Files   \* the files' entries: a sequence of sequences of <<vertex, value>>

NoUpdate == 0    \* carried by a visitor that is built from its vertex alone

FileValues == UNION {{Files[f][i][2] : i \in DOMAIN Files[f]} : f \in DOMAIN Files}
Value == {NoUpdate} \cup FileValues
Data == [Vertex -> Nat]

\* Both visitors' pre_visit: every copy of a hub lets every visitor through.
PreVisit(a, v) == [ret |-> TRUE, data |-> a]

\* Mutation of Visit: a visitor without an entry writes too, as in
\* vertex_data_db_degree, where the test is commented out.
VisitAnyway(r, a, v) ==
  [ret |-> TRUE, data |-> [a EXCEPT ![v.vertex] = v.val], spawn |-> << >>]

\* vertex_data_visitor::visit, which is init_visit too.
Visit(r, a, v) ==
  IF v.val = NoUpdate THEN [ret |-> FALSE, data |-> a, spawn |-> << >>]
  ELSE [ret |-> TRUE, data |-> [a EXCEPT ![v.vertex] = v.val], spawn |-> << >>]

\* delegate_partitioned_graph::degree: the edges on all ranks for a hub.
Degree(v) == Cardinality(UNION {{r} \X DOMAIN Stored[r][v] : r \in Rank})

PowerOfTwo[k \in Nat] == IF k = 0 THEN 1 ELSE 2 * PowerOfTwo[k - 1]

\* ceil(log2(degree + 1))
DegreeClass(v) ==
  CHOOSE k \in 0..Degree(v) :
    /\ PowerOfTwo[k] >= Degree(v) + 1
    /\ k = 0 \/ PowerOfTwo[k - 1] < Degree(v) + 1

\* Mutation of VisitByDegree: the class is not passed on to the replicas.
VisitByDegreeOnly(r, a, v) ==
  [ret |-> FALSE, data |-> [a EXCEPT ![v.vertex] = DegreeClass(v.vertex)], spawn |-> << >>]

\* vertex_data_degree_visitor::visit, which is init_visit too.
VisitByDegree(r, a, v) ==
  [ret |-> TRUE, data |-> [a EXCEPT ![v.vertex] = DegreeClass(v.vertex)], spawn |-> << >>]

\* The file rank r reads: its own, or one that another rank reads too.
FileOf(r) == IF r < Len(Files) THEN r + 1 ELSE (r % Len(Files)) + 1

NoMetadata == [r \in Rank |-> [v \in Vertex |-> 0]]
EveryVertex == FromEveryVertex([v \in Vertex |-> NoUpdate], NoMetadata)

\* vertex_data_db: every rank queues its file's entries; every vertex starts.
Start ==
  LET Entries(f) == [i \in DOMAIN f |-> NewVisitor(f[i][1], f[i][2])]
  IN  [EveryVertex EXCEPT !.source = [r \in Rank |-> Entries(Files[FileOf(r)])]]

-----------------------------------------------------------------------------
Listed(v, x) == \E f \in DOMAIN Files : \E i \in DOMAIN Files[f] : Files[f][i] = <<v, x>>

\* What rank r's copy of v must hold after vertex_data_db, and after
\* vertex_data_db_degree.
HoldsEntry(a, r, v) ==
  IF \E x \in FileValues : Listed(v, x) THEN Listed(v, a[r][v]) ELSE a[r][v] = 0
HoldsDegree(a, r, v) ==
  LET top == PowerOfTwo[a[r][v]]
  IN  top > Degree(v) /\ Degree(v) + 1 > top \div 2
=============================================================================
