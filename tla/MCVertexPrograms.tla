-------------------------- MODULE MCVertexPrograms --------------------------
(***************************************************************************)
(* All vertex programs on one small graph of SampleGraphs.                 *)
(***************************************************************************)
EXTENDS VertexPrograms, SampleGraphs

Programs == {"bfs", "sssp", "cc", "pagerank", "metadata", "degrees"}

\* The direct edges 0-5 and 1-2 are longer than the ways around them.
HouseWeight ==
  [v \in House |-> [w \in House |-> IF {v, w} \in {{0, 5}, {1, 2}} THEN 4 ELSE 1]]

\* Predicates that leave out vertex 5 and the edges 2-3 and 2-4, so that the
\* two hubs end in different components.
NotFive == House \ {5}
UncutEdges == {p \in House \X House : {p[1], p[2]} \notin {{2, 3}, {2, 4}}}

\* Two files for three ranks: the third rank reads the first file again.  No
\* entry of the first file is of a vertex that rank 0 owns, so that rank 0 fills
\* a batch before it has started a visitor; vertex 6 has no entry.
HouseFiles == <<<<<<3, 1>>, <<1, 2>>, <<4, 3>>, <<5, 2>>>>, <<<<2, 2>>, <<0, 1>>>>>>
=============================================================================
