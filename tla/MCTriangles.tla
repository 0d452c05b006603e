----------------------------- MODULE MCTriangles -----------------------------
(***************************************************************************)
(* The counting programs on the square of SampleGraphs, with two adjacent  *)
(* hubs, and the k-truss decomposition of a graph on the same vertices.    *)
(***************************************************************************)
EXTENDS Triangles, SampleGraphs

CountingPrograms == {"global", "per_edge", "filtered"}

\* With 0-6 a triangle dies because of the edge between its two later vertices
\* alone, with 0-4 because of that edge and another one.
Common == {{0, 1}, {0, 2}, {0, 3}, {1, 2}, {1, 3}, {1, 5}, {1, 6}, {2, 3}, {2, 4}, {2, 5}, {3, 4}}
TrussSamples == {Common \cup {{0, 4}}, Common \cup {{0, 6}}}
=============================================================================
