------------------------- MODULE BreadthFirstSearch -------------------------
(***************************************************************************)
(* The vertex program of breadth-first search                              *)
(* (include/havoqgt/breadth_first_search.hpp).  A level is an unsigned     *)
(* number of LevelBits bits (16 in bfs_visitor::m_level and in the level   *)
(* data of run_bfs); its largest value means "not visited".                *)
(***************************************************************************)
EXTENDS StoredGraph

CONSTANTS
  Source,      \* vertex the search starts from
  LevelBits,
  NoParent     \* the default vertex_locator, which is not a vertex

Unvisited == 2 ^ LevelBits - 1

Level == 0..Unvisited
Value == [level : Level, parent : Vertex]
Data == [level : [Vertex -> Level], parent : [Vertex -> Vertex \cup {NoParent}]]

\* What a copy of a vertex holds, and what a visitor brings it.
Held(a, u) == a.level[u]
Carried(v) == v.val.level

\* bfs_visitor::pre_visit
PreVisit(a, v) ==
  LET better == a.level[v.vertex] > v.val.level
  IN  [ret |-> better,
       data |-> IF better THEN [a EXCEPT !.level[v.vertex] = v.val.level] ELSE a]

\* Mutation of Visit: <= has become <.
VisitIfNearer(r, a, v) ==
  LET u == v.vertex
      l == v.val.level
      Next == [w \in Vertex |-> [level |-> (l + 1) % 2 ^ LevelBits, parent |-> u]]
  IN  IF l < a.level[u]
      THEN [ret |-> TRUE,
            data |-> [a EXCEPT !.level[u] = l, !.parent[u] = v.val.parent],
            spawn |-> ToNeighbours(r, u, Next)]
      ELSE [ret |-> FALSE, data |-> a, spawn |-> << >>]

\* Mutation of Visit: m_level is one bit too narrow.
VisitInLessBits(r, a, v) ==
  LET u == v.vertex
      l == v.val.level
      Next == [w \in Vertex |-> [level |-> (l + 1) % 2 ^ (LevelBits - 1), parent |-> u]]
  IN  IF l <= a.level[u]
      THEN [ret |-> TRUE,
            data |-> [a EXCEPT !.level[u] = l, !.parent[u] = v.val.parent],
            spawn |-> ToNeighbours(r, u, Next)]
      ELSE [ret |-> FALSE, data |-> a, spawn |-> << >>]

\* Mutation of Visit: a new visitor names the parent of this vertex, not this vertex.
VisitWithOldParent(r, a, v) ==
  LET u == v.vertex
      l == v.val.level
      Next == [w \in Vertex |-> [level |-> (l + 1) % 2 ^ LevelBits, parent |-> v.val.parent]]
  IN  IF l <= a.level[u]
      THEN [ret |-> TRUE,
            data |-> [a EXCEPT !.level[u] = l, !.parent[u] = v.val.parent],
            spawn |-> ToNeighbours(r, u, Next)]
      ELSE [ret |-> FALSE, data |-> a, spawn |-> << >>]

\* bfs_visitor::visit; a new level is cut to the width of m_level.
Visit(r, a, v) ==
  LET u == v.vertex
      l == v.val.level
      Next == [w \in Vertex |-> [level |-> (l + 1) % 2 ^ LevelBits, parent |-> u]]
  IN  IF l <= a.level[u]
      THEN [ret |-> TRUE,
            data |-> [a EXCEPT !.level[u] = l, !.parent[u] = v.val.parent],
            spawn |-> ToNeighbours(r, u, Next)]
      ELSE [ret |-> FALSE, data |-> a, spawn |-> << >>]

\* run_bfs resets the levels; breadth_first_search queues the source.
Start ==
  FromSource(NewVisitor(Source, [level |-> 0, parent |-> Source]),
             [r \in Rank |-> [level |-> [v \in Vertex |-> Unvisited],
                              parent |-> [v \in Vertex |-> NoParent]]])

-----------------------------------------------------------------------------
\* Ball[n]: the vertices at distance at most n from the source.
Ball[n \in Nat] ==
  IF n = 0 THEN {Source}
  ELSE LET near == Ball[n - 1]
       IN  near \cup {w \in Vertex : \E u \in near : Edge(u, w)}

\* The level of v on r is its distance, or v is too far for a level.
LevelIsDistance(a, r, v) ==
  LET l == a[r].level[v]
  IN  IF l = Unvisited THEN v \notin Ball[Unvisited - 1]
      ELSE v \in Ball[l] /\ (l > 0 => v \notin Ball[l - 1])

\* The parent of v on r is one level nearer, has an edge to it, and is the
\* parent its master knows.
ParentIsNearer(a, r, v) ==
  LET p == a[r].parent[v]
  IN  /\ p = NoParent <=> a[r].level[v] = Unvisited
      /\ p = a[Master[v]].parent[v]
      /\ p # NoParent /\ v # Source =>
           Edge(p, v) /\ a[Master[p]].level[p] + 1 = a[r].level[v]

\* The level of v on r is not below its distance.
LevelNotTooLow(a, r, v) == a[r].level[v] # Unvisited => v \in Ball[a[r].level[v]]
=============================================================================
