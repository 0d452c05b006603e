--------------------------- MODULE EdgeListReader ---------------------------
(***************************************************************************)
(* parallel_edge_list_reader (include/havoqgt/                             *)
(* parallel_edge_list_reader.hpp): which files a rank reads, and what its  *)
(* iterator yields, from the first edge again whenever begin() is called.  *)
(***************************************************************************)
EXTENDS Integers, Sequences, SequencesExt, FiniteSets, FiniteSetsExt

CONSTANTS
  Size,     \* ranks
  PerNode   \* ranks per node, the same on every node, numbered in blocks

Ranks == 0..(Size - 1)

\* File i goes to a node, then to a core of it.
ReadBy(r, i) ==
  LET nodes == Size \div PerNode
  IN  i % nodes = r \div PerNode /\ (i \div nodes) % PerNode = r % PerNode

\* The lines that r reads, one file after another; a line is an edge
\* [source, target, data].  Files are numbered from 0.
LinesOf(files, r) ==
  FlattenSeq([i \in 1..Len(files) |-> IF ReadBy(r, i - 1) THEN files[i] ELSE << >>])

-----------------------------------------------------------------------------
(* The iterator: the edge it stands on, the lines not read yet, m_count    *)
(* and m_make_undirected.                                                  *)

Swapped(e) == [e EXCEPT !.source = e.target, !.target = e.source]

\* get_next: the line once more, the other way round, or the next line.  After
\* the last line the edge stays and the count goes on.
GetNext(it, undirected) ==
  IF undirected /\ it.make_undirected
  THEN [it EXCEPT !.current = Swapped(@), !.make_undirected = FALSE]
  ELSE [current |-> IF it.unread = << >> THEN it.current ELSE Head(it.unread),
        unread |-> IF it.unread = << >> THEN << >> ELSE Tail(it.unread),
        count |-> it.count + 1, make_undirected |-> TRUE]

\* begin(): the files are opened again and the first line is read.
BeginOf(lines, undirected) ==
  LET fresh == [current |-> [source |-> 0, target |-> 0, data |-> 0],
                unread |-> lines, count |-> 0, make_undirected |-> FALSE]
  IN  [GetNext(fresh, undirected) EXCEPT !.count = 0]

\* What a loop from begin() to end(), which is equal at m_local_edge_count, sees.
Yields(lines, undirected) ==
  LET at[k \in 0..2 * Len(lines)] ==
        IF k = 0 THEN BeginOf(lines, undirected) ELSE GetNext(at[k - 1], undirected)
      steps == Min({k \in DOMAIN at : at[k].count = Len(lines)})
  IN  [k \in 1..steps |-> at[k - 1].current]
=============================================================================
