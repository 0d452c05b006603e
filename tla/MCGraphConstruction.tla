------------------------ MODULE MCGraphConstruction ------------------------
(***************************************************************************)
(* Two nodes of two cores.  Vertices 0, 1, 4 and 5 have outgoing edges: at *)
(* threshold 2 two of them can be hubs at once, at threshold 3 a vertex    *)
(* that is no hub can have two edges.  2 and 3 have none unless the graph  *)
(* is made undirected.  Ranks that read need one or two rounds, so one may *)
(* run out before the other.                                               *)
(***************************************************************************)
EXTENDS GraphConstruction

Pool == {<<1, 2>>, <<1, 3>>, <<5, 1>>, <<4, 5>>, <<0, 4>>}

\* Five files, of which the given ones have lines: at most most in all and three
\* in each.
FilesOf(written, most) ==
  LET Line(i, l, pair) == [source |-> pair[1], target |-> pair[2], data |-> 5 * l + i]
      lists == {f \in [written -> BoundedSeq(Pool, 3)] :
                  MapThenSumSet(LAMBDA i : Len(f[i]), written) <= most}
  IN  {[i \in 1..5 |-> IF i - 1 \notin written THEN << >>
                       ELSE [l \in DOMAIN f[i - 1] |-> Line(i, l, f[i - 1][l])]] : f \in lists}

Input(files, undirected) == [files |-> files, undirected |-> undirected]

\* Files 0 and 4 go to rank 0, file 2 to rank 1, file 1 to rank 2.
MCInputs ==
  {Input(files, FALSE) : files \in FilesOf({0, 2}, 4) \cup FilesOf({1, 4}, 3)}
    \cup {Input(files, TRUE) : files \in FilesOf({0, 2}, 2) \cup FilesOf({0, 4}, 2)}
FewInputs == {Input(files, FALSE) : files \in FilesOf({0, 2}, 2)}

MCThresholds == {2, 3}
MCChunkSizes == {2}
MCPassCounts == {1, 2}
=============================================================================
