------------------------- MODULE MCPatternMatching -------------------------
(***************************************************************************)
(* Searches on the kite of SampleGraphs: edges 0-1, 1-2, 2-3, 1-3, 0-2 and *)
(* 1-4, vertex 1 a hub on both ranks.                                      *)
(***************************************************************************)
EXTENDS PatternMatching, SampleGraphs

\* Vertex 4 has a label of its own.
Labels(list) == [v \in Kite |-> IF v = 4 THEN "X" ELSE list[v + 1]]

TriangleEdges == << <<0, 1>>, <<0, 2>>, <<1, 0>>, <<1, 2>>, <<2, 0>>, <<2, 1>> >>
PathEdges == << <<0, 1>>, <<1, 0>>, <<1, 2>>, <<2, 1>> >>

Line(path, cyclic, tds, lcc) ==
  [path |-> path, aggregate |-> [i \in DOMAIN path |-> TRUE], cyclic |-> cyclic, tds |-> tds, lcc |-> lcc]

\* Two triangles of three labels share the edge 1-2.
TwoTriangles ==
  [label |-> Labels(<<"A", "B", "C", "A">>), pattern |-> <<"A", "B", "C">>,
   edges |-> TriangleEdges, constraints |-> <<Line(<<0, 1, 2, 0>>, TRUE, FALSE, TRUE)>>]

\* A path between two vertices of one label, which is there or not.
TwoEnds ==
  [label |-> Labels(<<"A", "B", "X", "A">>), pattern |-> <<"A", "B", "A">>,
   edges |-> PathEdges, constraints |-> <<Line(<<0, 1, 2>>, FALSE, FALSE, TRUE)>>]
OneEnd == [TwoEnds EXCEPT !.label = Labels(<<"A", "B", "X", "X">>)]
OneEndUnchecked == [OneEnd EXCEPT !.constraints = <<Line(<<0, 1, 2>>, FALSE, TRUE, FALSE)>>]

\* A triangle with two roles of one label: vertex 3 passes local checking, but
\* no triangle starts at it.
FalseTip ==
  [label |-> Labels(<<"A", "A", "B", "B">>), pattern |-> <<"A", "A", "B">>,
   edges |-> TriangleEdges, constraints |-> <<Line(<<2, 0, 1, 2>>, TRUE, TRUE, TRUE)>>]

\* The cycle A-B-C-B, found twice around the square: first the walk B-A-B, then
\* the cycle, where the tokens that reach C by one B and by the other differ.
Diamond ==
  [label |-> Labels(<<"A", "B", "B", "C">>), pattern |-> <<"A", "B", "C", "B">>,
   edges |-> << <<0, 1>>, <<0, 3>>, <<1, 0>>, <<1, 2>>, <<2, 1>>, <<2, 3>>, <<3, 0>>, <<3, 2>> >>,
   constraints |-> <<Line(<<1, 0, 3>>, FALSE, TRUE, FALSE), Line(<<0, 1, 2, 3, 0>>, TRUE, TRUE, TRUE)>>]

\* Two walks A-B-C-X from one source that meet at the hub: they are told apart
\* nowhere, so that only the first goes on.
MergedWalks ==
  [label |-> Labels(<<"B", "C", "A", "B">>), pattern |-> <<"A", "B", "C", "X">>,
   edges |-> << <<0, 1>>, <<1, 0>>, <<1, 2>>, <<2, 1>>, <<2, 3>>, <<3, 2>> >>,
   constraints |-> <<[Line(<<0, 1, 2, 3>>, FALSE, TRUE, TRUE)
                        EXCEPT !.aggregate = [i \in 1..4 |-> FALSE]]>>]

\* A path with a middle that lacks one end (vertex 3), and a longer path without
\* its last vertex, given up from one end to the other.
Path3 ==
  [label |-> Labels(<<"A", "B", "C", "B">>), pattern |-> <<"A", "B", "C">>,
   edges |-> PathEdges, constraints |-> << >>]
Path4 ==
  [label |-> Labels(<<"A", "B", "C", "X">>), pattern |-> <<"A", "B", "C", "D">>,
   edges |-> << <<0, 1>>, <<1, 0>>, <<1, 2>>, <<2, 1>>, <<2, 3>>, <<3, 2>> >>,
   constraints |-> << >>]

AllSearches ==
  <<TwoTriangles, TwoEnds, OneEnd, OneEndUnchecked, FalseTip, Diamond, MergedWalks,
    Path3, Path4>>
OneEndOnly == <<OneEnd>>
=============================================================================
