--------------------------- MODULE VertexPrograms ---------------------------
(***************************************************************************)
(* The vertex programs run by the visitor queue: the composition of        *)
(* VisitorQueue with the visitors of breadth_first_search.hpp,             *)
(* single_source_shortest_path.hpp, connected_components.hpp,              *)
(* page_rank.hpp and metadata/vertex_data_db*.hpp.  A traversal runs one   *)
(* program, chosen at the start; each program's result is compared with a  *)
(* reference definition of it.                                             *)
(***************************************************************************)
EXTENDS StoredGraph, FiniteSets, Bags

CONSTANTS
  Batch, BcastCost,                      \* of the mailbox, see VisitorQueue
  Program,                               \* the programs to run
  Source, LevelBits, NoParent,           \* of the searches
  Weight, Infinity,                      \* of shortest paths
  VertexPasses, EdgePasses, DefaultLabel, \* of connected components
  Files                                  \* of the vertex metadata

VARIABLES pc, citr, vitr, todo, data, owned, controllers,
          box, sendCount, call, round, posted, wire

BFS == INSTANCE BreadthFirstSearch
SP  == INSTANCE ShortestPath
CC  == INSTANCE ConnectedComponents
PR  == INSTANCE PageRank
VM  == INSTANCE VertexMetadata

\* Edges of a vertex are only kept on ranks that hold a copy of it; the two
\* iterators of a rank list the vertices it is the master of; rank 0 is one of
\* the ranks, and only a rank alone needs no copy to broadcast.
ASSUME GraphAssumption ==
  /\ IsFiniteSet(Rank) /\ 0 \in Rank
  /\ IsFiniteSet(Vertex) /\ Delegate \subseteq Vertex
  /\ Master \in [Vertex -> Rank]
  /\ Stored \in [Rank -> [Vertex -> Seq(Vertex)]]
  /\ \A r \in Rank : \A u, w \in Vertex : Stores(r, u, w) => HoldsCopy(r, u)
  /\ Controllers \in [Rank -> Seq(Vertex)] /\ OwnedVertices \in [Rank -> Seq(Vertex)]
  /\ \A r \in Rank : \A v \in Vertex :
       /\ CC!InList(v, Controllers[r]) <=> v \in Delegate /\ Master[v] = r
       /\ CC!InList(v, OwnedVertices[r]) <=> v \notin Delegate /\ Master[v] = r
  /\ Batch \in Nat \ {0}
  /\ BcastCost \in [Rank -> Nat]
  /\ \A r \in Rank : BcastCost[r] = 0 => Rank = {r}

\* A level has at least one bit; the default parent is not a vertex.
ASSUME SearchAssumption ==
  /\ Program \subseteq {"bfs", "sssp", "cc", "pagerank", "metadata", "degrees"}
  /\ Source \in Vertex
  /\ 2 ^ LevelBits \in Nat \ {0, 1}
  /\ NoParent \notin Vertex

\* The largest path length is above every length there is.
ASSUME PathAssumption ==
  /\ Weight \in [Vertex -> [Vertex -> Nat]]
  /\ Infinity \in Nat
  /\ \A x \in SP!Walks[Cardinality(Vertex) - 1] : x[2] < Infinity

\* Labels are numbers, and the edges that count go both ways.
ASSUME LabelAssumption ==
  /\ Vertex \subseteq Nat /\ VertexPasses \subseteq Vertex
  /\ DefaultLabel \in Nat /\ \A v \in Vertex : v < DefaultLabel
  /\ \A u, w \in Vertex : CC!Selected(u, w) => CC!Selected(w, u)

\* Ranks are numbers, and there are at most as many files, so that each rank
\* calls vertex_data_db once; entries do not contradict one another.
ASSUME FilesAssumption ==
  /\ Files \in Seq(Seq(Vertex \X (Nat \ {0})))
  /\ Rank \subseteq Nat
  /\ Len(Files) >= 1 /\ 0..(Len(Files) - 1) \subseteq Rank
  /\ \A v \in Vertex : \A x, y \in VM!FileValues : VM!Listed(v, x) /\ VM!Listed(v, y) => x = y

\* One rank's data: the program it runs and that program's data.
AlgData ==
  [program : {"bfs"}, d : BFS!Data] \cup [program : {"sssp"}, d : SP!Data] \cup
  [program : {"cc"}, d : CC!Data] \cup [program : {"pagerank"}, d : PR!Data] \cup
  [program : {"metadata", "degrees"}, d : VM!Data]

Payload == BFS!Value \cup SP!Value \cup CC!Value \cup PR!Value \cup VM!Value

\* The data is tagged with its program, before and after a visitor runs.
Tagged(a, out) == {[out EXCEPT !.data = [program |-> a.program, d |-> out.data]]}

PreVisit(r, a, v) ==
  Tagged(a, CASE a.program = "bfs"      -> BFS!PreVisit(a.d, v)
              [] a.program = "sssp"     -> SP!PreVisit(a.d, v)
              [] a.program = "cc"       -> CC!PreVisit(a.d, v)
              [] a.program = "pagerank" -> PR!PreVisit(a.d, v)
              [] a.program \in {"metadata", "degrees"} -> VM!PreVisit(a.d, v))

\* The programs that define init_visit define it as visit.
Visit(r, a, v) ==
  Tagged(a, CASE a.program = "bfs"      -> BFS!Visit(r, a.d, v)
              [] a.program = "sssp"     -> SP!Visit(r, a.d, v)
              [] a.program = "cc"       -> CC!Visit(r, a.d, v)
              [] a.program = "pagerank" -> PR!Visit(r, a.d, v)
              [] a.program = "metadata" -> VM!Visit(r, a.d, v)
              [] a.program = "degrees"  -> VM!VisitByDegree(r, a.d, v))

StartOf(p) ==
  CASE p = "bfs" -> BFS!Start [] p = "sssp" -> SP!Start
    [] p = "cc" -> CC!Start [] p = "pagerank" -> PR!Start
    [] p = "metadata" -> VM!Start [] p = "degrees" -> VM!EveryVertex

InitialWork ==
  {[StartOf(p) EXCEPT !.data = [r \in Rank |-> [program |-> p, d |-> @[r]]]] : p \in Program}

INSTANCE VisitorQueue WITH InitVisit <- Visit

-----------------------------------------------------------------------------
Runs(p) == \A r \in Rank : data[r].program = p
Result == [r \in Rank |-> data[r].d]

\* Every rank has returned from the traversal: callers read the result.
Finished == \A r \in Rank : HasLeft(r)

\* Every copy of every vertex, hubs' replicas included, ends with the level that
\* is its distance from the source (run_bfs counts levels; the tests read the
\* replicas), whatever order the visitors ran in; a vertex too far for the
\* width of m_level stays unvisited.
LevelsAreDistances ==
  Finished /\ Runs("bfs") =>
    \A r \in Rank : \A v \in Vertex : HoldsCopy(r, v) => BFS!LevelIsDistance(Result, r, v)

\* The parents form a tree of shortest paths, and all copies of a hub agree on
\* its parent, although several visitors of equal level raced.
ParentsFormTree ==
  Finished /\ Runs("bfs") =>
    \A r \in Rank : \A v \in Vertex : HoldsCopy(r, v) => BFS!ParentIsNearer(Result, r, v)

\* At no time does a copy hold a level below its distance: nothing wraps.
LevelsNeverTooLow ==
  Runs("bfs") => \A r \in Rank : \A v \in Vertex : BFS!LevelNotTooLow(Result, r, v)

\* The path length on the master of every vertex is its distance.
PathsAreShortest ==
  Finished /\ Runs("sssp") => \A v \in Vertex : Result[Master[v]][v] = SP!Distance[v]

\* A label names the component of its vertex, on every copy: labels are equal
\* exactly on vertices that selected edges connect.
LabelsAreComponents ==
  Finished /\ Runs("cc") =>
    \A r \in Rank : \A v \in VertexPasses :
      HoldsCopy(r, v) => Result[r][v] = CC!LeastLabel[v]

\* Every edge adds its share once, however its source's edges are spread and
\* whichever copy of its target took it.
EveryEdgeCountsOnce ==
  Finished /\ Runs("pagerank") =>
    \A u, v \in Vertex : PR!AllReduced(Result, v, u) = PR!EdgeCount(u, v)

\* Every copy of a vertex, hubs' replicas included, ends with the value its file
\* entry gives, whichever ranks read the entry and however its visitors met the
\* start visitors, which carry no value.
MetadataIsEverywhere ==
  Finished /\ Runs("metadata") =>
    \A r \in Rank : \A v \in Vertex : HoldsCopy(r, v) => VM!HoldsEntry(Result, r, v)

\* Every copy of a vertex ends with the class of its degree.
DegreesAreEverywhere ==
  Finished /\ Runs("degrees") =>
    \A r \in Rank : \A v \in Vertex : HoldsCopy(r, v) => VM!HoldsDegree(Result, r, v)

\* A visitor of h that carries x is on its way from r to the rank that controls h.
OnItsWay(r, h, x, Carried(_)) ==
  \E b \in {box[r][Master[h]], wire[Master[h]][0], wire[Master[h]][1]} :
    \E v \in BagToSet(b) : v.vertex = h /\ ~v.bcast /\ Carried(v) = x

\* A replica of a hub drops every visitor that is no better than the best it
\* has seen.  That is sound: when a replica is ahead of its controller, the
\* visitor that put it ahead is on its way there.
FilterFor(p, Held(_, _), Carried(_)) ==
  Runs(p) =>
    \A h \in Delegate : \A r \in Rank :
      Held(Result[r], h) < Held(Result[Master[h]], h) =>
        OnItsWay(r, h, Held(Result[r], h), Carried)

FilterIsSound ==
  /\ FilterFor("bfs", BFS!Held, BFS!Carried)
  /\ FilterFor("sssp", SP!Held, SP!Carried)
  /\ FilterFor("cc", CC!Held, CC!Carried)
=============================================================================
