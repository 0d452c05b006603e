------------------------- MODULE GraphConstruction -------------------------
(***************************************************************************)
(* Construction of the delegate-partitioned graph from edges that lie on   *)
(* the ranks in any order (include/havoqgt/impl/                           *)
(* delegate_partitioned_graph.ipp).  The edges are too many to keep: each  *)
(* phase reads them again, a chunk at a time, and what one phase counts    *)
(* must be exactly what a later one stores.                                *)
(*                                                                         *)
(* Between two collective calls a rank touches nothing but its own fields, *)
(* so what happens up to the end of a collective call is one step of all   *)
(* ranks.                                                                  *)
(***************************************************************************)
EXTENDS EdgeListReader, Functions

CONSTANTS
  Inputs,          \* the files and whether to make them undirected, a set
  Thresholds,      \* values of delegate_degree_threshold
  ChunkSizes,      \* values of edge_chunk_size
  PassCounts,      \* values of the argument _node_partitions
  None

ASSUME SizesAssumption ==
  /\ Size \in Nat \ {0} /\ PerNode \in 1..Size /\ Size % PerNode = 0
  /\ Thresholds \subseteq Nat \ {0}
  /\ ChunkSizes \subseteq Nat \ {0} /\ PassCounts \subseteq Nat \ {0}
  /\ None \notin Nat

\* Each line has data of its own, so that a lost and a doubled edge show; a self
\* loop would be its own mirror image.
ASSUME InputsAssumption ==
  \A in \in Inputs :
    /\ in.files \in Seq(Seq([source : Nat, target : Nat, data : Nat])) /\ in.undirected \in BOOLEAN
    /\ \A i, j \in DOMAIN in.files : \A k \in DOMAIN in.files[i], l \in DOMAIN in.files[j] :
         LET e == in.files[i][k]
             f == in.files[j][l]
         IN  e.source # e.target /\ (e.data = f.data => i = j /\ k = l)

EdgesIn(files) == UNION {Range(files[i]) : i \in DOMAIN files}

VARIABLES
  wanted,    \* the edges of the input, mirrored if it is to be undirected
  edges,     \* edges[r]: what the iterator of r yields, [source, target, data]
  threshold, \* m_delegate_degree_threshold
  chunk,     \* edge_chunk_size
  passes,    \* node_partitions
  phase,     \* the phase function that runs, or "ready", "aborted"
  itr,       \* itr[r]: position of unsorted_itr
  turn,      \* node_turn
  hubs,      \* m_delegate_label, and through it m_map_delegate_locator
  local,     \* local[r]: the other members of the graph on rank r
  walker,    \* the rank whose loop over its vertices is followed
  index,     \* m_owned_vert_index of the iterator in use
  skipping,  \* it was decremented, and update_locator is to run
  end,       \* that of the iterator vertices_end() returned
  seen       \* labels of the vertices the loop has visited

walk == <<walker, index, skipping, end, seen>>
input == <<wanted, edges, threshold, chunk, passes>>
vars == <<input, phase, itr, turn, hubs, local, walk>>

-----------------------------------------------------------------------------
Owner(v) == v % Size
LocalId(v) == v \div Size
Label(r, i) == i * Size + r

AllEdges == UNION {Range(edges[r]) : r \in Ranks}

\* max_vertex_id() of the edge reader, which it finds in a pass of its own.
MaxVertex == Max({0} \cup UNION {{e.source, e.target} : e \in AllEdges})

\* m_max_vertex, the division rounded up.
MaxLocal == (MaxVertex + Size - 1) \div Size
Cells == 0..MaxLocal

IsHub(v) == \E i \in DOMAIN hubs : hubs[i] = v
HubNumberFromOne(v) == CHOOSE i \in DOMAIN hubs : hubs[i] = v

HubNumber(v) == (CHOOSE i \in DOMAIN hubs : hubs[i] = v) - 1
HubNumbers == 0..(Len(hubs) - 1)

\* std::sort of labels without duplicates.
Ascending(S) ==
  CHOOSE q \in [1..Cardinality(S) -> S] : \A i, j \in DOMAIN q : i < j => q[i] < q[j]

LabelToLocator(v) ==
  IF IsHub(v) THEN [is_delegate |-> TRUE, local_id |-> HubNumber(v), owner |-> Owner(v)]
              ELSE [is_delegate |-> FALSE, local_id |-> LocalId(v), owner |-> Owner(v)]

LocatorToLabel(l) ==
  IF l.is_delegate THEN hubs[l.local_id + 1] ELSE Label(l.owner, l.local_id)

\* From counts to the index of each one's first slot.
FirstSlots(count, last) ==
  LET first[i \in 0..last] == IF i = 0 THEN 0 ELSE first[i - 1] + count[i - 1] IN first

-----------------------------------------------------------------------------
Least(a, b) == IF a < b THEN a ELSE b

\* The edges that all ranks read in this round of a loop.
Round ==
  UNION {Range(SubSeq(edges[r], itr[r], Least(itr[r] + chunk - 1, Len(edges[r])))) : r \in Ranks}

Unread == UNION {Range(SubSeq(edges[r], itr[r], Len(edges[r]))) : r \in Ranks}

\* global_iterator_range_empty
AllRead == Unread = {}

Advance == itr' = [r \in Ranks |-> Least(itr[r] + chunk, Len(edges[r]) + 1)]
Rewind == itr' = [r \in Ranks |-> 1]

\* A rank's members after the constructor has allocated them.
Allocated ==
  [outgoing |-> [i \in Cells |-> 0], high_vertex_count |-> 0,
   edges_low_count |-> 0, edges_high_count |-> 0,
   low_csr_idx |-> [i \in 0..(MaxLocal + 1) |-> 0],
   delegate_id |-> [i \in 0..(MaxLocal + 1) |-> None],
   tracker |-> [i \in Cells |-> 0],
   delegate_info |-> << >>, delegate_degree |-> << >>,
   owned_targets |-> << >>, delegate_targets |-> << >>, controllers |-> << >>]

Init ==
  /\ \E in \in Inputs :
       /\ edges = [r \in Ranks |-> Yields(LinesOf(in.files, r), in.undirected)]
       /\ wanted = EdgesIn(in.files) \cup
                    IF in.undirected THEN {Swapped(e) : e \in EdgesIn(in.files)} ELSE {}
  /\ threshold \in Thresholds /\ chunk \in ChunkSizes
  /\ passes \in {Least(n, PerNode) : n \in PassCounts}
  /\ phase = "count_edge_degrees" /\ turn = 0 /\ hubs = << >>
  /\ itr = [r \in Ranks |-> 1]
  /\ local = [r \in Ranks |-> Allocated]
  /\ walker = None /\ index = 0 /\ skipping = FALSE /\ end = None /\ seen = << >>

-----------------------------------------------------------------------------
(***************************************************************************)
(* count_edge_degrees.  The owner of a source counts it; edges read        *)
(* elsewhere reach it as counts, added after its own.                      *)
(***************************************************************************)
Crossing(before, after) == {i \in DOMAIN before : before[i] < threshold /\ after[i] >= threshold}

CountedHere(r, S) ==
  [i \in Cells |-> Cardinality({e \in S : e.source = Label(r, i)})]

Plus(f, g) == [i \in DOMAIN f |-> f[i] + g[i]]

CountEdgeDegrees ==
  /\ phase = "count_edge_degrees" /\ ~AllRead
  /\ local' = [r \in Ranks |->
       LET own  == Round \cap Range(edges[r])
           old  == local[r].outgoing
           mine == Plus(old, CountedHere(r, own))
           sum  == Plus(mine, CountedHere(r, Round \ own))
       IN  [local[r] EXCEPT
              !.outgoing = sum,
              !.high_vertex_count = @ + Cardinality(Crossing(old, mine))
                                      + Cardinality(Crossing(mine, sum))]]
  /\ Advance
  /\ UNCHANGED <<input, phase, turn, hubs, walk>>

IsHigh(r, i) == local[r].outgoing[i] >= threshold
TempHubs(r) == {Label(r, i) : i \in {j \in Cells : IsHigh(r, j)}}
LowCount(r) == [i \in Cells |-> IF IsHigh(r, i) THEN 0 ELSE local[r].outgoing[i]]

\* The end of count_edge_degrees: its two assertions, and the gathering.
HubsAsserted ==
  \A r \in Ranks : 0 \notin TempHubs(r) /\ Cardinality(TempHubs(r)) = local[r].high_vertex_count

GatherHubs ==
  /\ phase = "count_edge_degrees" /\ AllRead /\ HubsAsserted
  /\ hubs' = Ascending(UNION {TempHubs(r) : r \in Ranks})
  /\ local' = [r \in Ranks |->
                 [local[r] EXCEPT !.edges_low_count = FirstSlots(LowCount(r), MaxLocal + 1)[MaxLocal + 1]]]
  /\ phase' = "initialize_low_meta_data"
  /\ UNCHANGED <<input, itr, turn, walk>>

\* A hub takes no room among the low-degree edges.
InitializeLowMetaData ==
  /\ phase = "initialize_low_meta_data"
  /\ local' = [r \in Ranks |->
                 [local[r] EXCEPT !.low_csr_idx = FirstSlots(LowCount(r), MaxLocal + 1)]]
  /\ phase' = "initialize_high_meta_data"
  /\ UNCHANGED <<input, itr, turn, hubs, walk>>

InitializeHighMetaData ==
  /\ phase = "initialize_high_meta_data"
  /\ local' = [r \in Ranks |->
       [local[r] EXCEPT
          !.delegate_info = [h \in 0..Len(hubs) |-> 0],
          !.delegate_degree = [h \in HubNumbers |-> 0],
          !.delegate_id = [i \in DOMAIN @ |->
                             IF IsHub(Label(r, i)) THEN HubNumber(Label(r, i)) ELSE @[i]]]]
  /\ phase' = "count_high_degree_edges" /\ Rewind
  /\ UNCHANGED <<input, turn, hubs, walk>>

\* An edge of a hub is counted where its target is owned.
HighEdgesTo(r, S) == {e \in S : IsHub(e.source) /\ Owner(e.target) = r}

CountHighDegreeEdges ==
  /\ phase = "count_high_degree_edges" /\ ~AllRead
  /\ local' = [r \in Ranks |->
       LET new == HighEdgesTo(r, Round)
       IN  [local[r] EXCEPT
              !.delegate_info = [h \in DOMAIN @ |->
                 @[h] + Cardinality({e \in new : HubNumber(e.source) = h})],
              !.edges_high_count = @ + Cardinality(new)]]
  /\ Advance
  /\ UNCHANGED <<input, phase, turn, hubs, walk>>

\* Counts become first slots, and the targets are allocated.
InitializeEdgeStorage ==
  /\ phase = "count_high_degree_edges" /\ AllRead
  /\ local' = [r \in Ranks |->
       [local[r] EXCEPT
          !.delegate_info = FirstSlots(@, Len(hubs)),
          !.owned_targets = [i \in 0..(local[r].edges_low_count - 1) |-> None],
          !.delegate_targets = [i \in 0..(local[r].edges_high_count - 1) |-> None]]]
  /\ phase' = "partition_low_degree" /\ turn' = 0 /\ Rewind
  /\ UNCHANGED <<input, hubs, walk>>

-----------------------------------------------------------------------------
(***************************************************************************)
(* The two partition phases: in pass number turn only edges that go to     *)
(* every passes-th core of a node are exchanged.  Received edges are       *)
(* sorted; each takes the next free slot of its source.                    *)
(***************************************************************************)
TheirTurn(r) == (r % PerNode) % passes = turn

SortsBefore(e, f) == e.target < f.target \/ (e.target = f.target /\ e.data < f.data)

\* The place of e among the edges of its source that came with it.
PlaceAmong(e, S) == Cardinality({f \in S : f.source = e.source /\ SortsBefore(f, e)})

LowEdgesToInAnyTurn(r) ==
  {e \in Round : Owner(e.source) = r /\ ~IsHub(e.source)}

LowEdgesTo(r) ==
  {e \in Round : Owner(e.source) = r /\ TheirTurn(Owner(e.source)) /\ ~IsHub(e.source)}

LowSlotOfFirst(r, e) ==
  local[r].low_csr_idx[LocalId(e.source)] + local[r].tracker[LocalId(e.source)]

LowSlot(r, e) ==
  LET v == LocalId(e.source)
  IN  local[r].low_csr_idx[v] + local[r].tracker[v] + PlaceAmong(e, LowEdgesTo(r))

LowFits == \A r \in Ranks : \A e \in LowEdgesTo(r) :
             LowSlot(r, e) < local[r].low_csr_idx[LocalId(e.source) + 1]

\* What is stored of an edge: the target's locator, and its data beside it.
Stored(e) == [target |-> LabelToLocator(e.target), data |-> e.data]

PartitionLowDegree ==
  /\ phase = "partition_low_degree" /\ ~AllRead /\ LowFits
  /\ local' = [r \in Ranks |->
       [local[r] EXCEPT
          !.owned_targets = [i \in DOMAIN @ |->
             IF \E e \in LowEdgesTo(r) : LowSlot(r, e) = i
               THEN Stored(CHOOSE e \in LowEdgesTo(r) : LowSlot(r, e) = i) ELSE @[i]],
          !.tracker = Plus(@, CountedHere(r, LowEdgesTo(r)))]]
  /\ Advance
  /\ UNCHANGED <<input, phase, turn, hubs, walk>>

HighEdgesNow(r) == HighEdgesTo(r, IF TheirTurn(r) THEN Round ELSE {})

HighSlot(r, e) ==
  LET h == HubNumber(e.source)
  IN  local[r].delegate_info[h] + local[r].delegate_degree[h] + PlaceAmong(e, HighEdgesNow(r))

\* transfer_info is always empty, so nobody else has room either.
HighFits == \A r \in Ranks : \A e \in HighEdgesNow(r) :
              HighSlot(r, e) < local[r].delegate_info[HubNumber(e.source) + 1]

PartitionHighDegree ==
  /\ phase = "partition_high_degree" /\ ~AllRead /\ HighFits
  /\ local' = [r \in Ranks |->
       [local[r] EXCEPT
          !.delegate_targets = [i \in DOMAIN @ |->
             IF \E e \in HighEdgesNow(r) : HighSlot(r, e) = i
               THEN Stored(CHOOSE e \in HighEdgesNow(r) : HighSlot(r, e) = i) ELSE @[i]],
          !.delegate_degree = [h \in DOMAIN @ |->
             @[h] + Cardinality({e \in HighEdgesNow(r) : HubNumber(e.source) = h})]]]
  /\ Advance
  /\ UNCHANGED <<input, phase, turn, hubs, walk>>

\* The next pass, or the next phase.
NextPass ==
  /\ phase \in {"partition_low_degree", "partition_high_degree"} /\ AllRead
  /\ Rewind
  /\ IF turn + 1 < passes THEN turn' = turn + 1 /\ UNCHANGED phase
     ELSE /\ turn' = 0
          /\ phase' = IF phase = "partition_low_degree" THEN "partition_high_degree"
                                                        ELSE "build_controllers"
  /\ UNCHANGED <<input, hubs, local, walk>>

\* The last part of complete_construction: degrees are summed over the ranks.
BuildControllers ==
  /\ phase = "build_controllers"
  /\ local' = [r \in Ranks |->
       [local[r] EXCEPT
          !.delegate_degree = [h \in DOMAIN @ |->
             MapThenSumSet(LAMBDA q : local[q].delegate_degree[h], Ranks)],
          !.controllers = Ascending({h \in HubNumbers : h % Size = r})]]
  /\ phase' = "ready"
  /\ UNCHANGED <<input, itr, turn, hubs, walk>>

-----------------------------------------------------------------------------
(***************************************************************************)
(* for (v = vertices_begin(); v != vertices_end(); ++v) on one rank.  The  *)
(* iterator passes over cells of hubs; vertices_end() steps back from the  *)
(* last cell to the last vertex, and one on.                               *)
(***************************************************************************)
SkipNothing(r, i) == i

SkipHubs(r, i) ==
  Min({j \in i..(MaxLocal + 2) : j = MaxLocal + 2 \/ local[r].delegate_id[j] = None})

BeyondLast == Label(walker, index) > MaxVertex

VerticesEnd(r) ==
  /\ phase = "ready" /\ walker = None
  /\ walker' = r /\ index' = SkipHubs(r, MaxLocal + 1)
  /\ UNCHANGED <<input, phase, itr, turn, hubs, local, skipping, end, seen>>

\* The loop in vertices_end(): operator-- in two steps.
StepBack ==
  /\ phase = "ready" /\ walker # None /\ end = None /\ ~skipping /\ BeyondLast /\ index > 0
  /\ index' = index - 1 /\ skipping' = TRUE
  /\ UNCHANGED <<input, phase, itr, turn, hubs, local, walker, end, seen>>

UpdateLocator ==
  /\ skipping /\ skipping' = FALSE
  /\ index' = SkipHubs(walker, index)
  /\ UNCHANGED <<input, phase, itr, turn, hubs, local, walker, end, seen>>

\* vertices_end() returns, and the loop starts at vertices_begin().
StartLoop ==
  /\ phase = "ready" /\ walker # None /\ end = None /\ ~skipping /\ ~BeyondLast
  /\ end' = SkipHubs(walker, index + 1) /\ index' = SkipHubs(walker, 0)
  /\ UNCHANGED <<input, phase, itr, turn, hubs, local, walker, skipping, seen>>

NextVertex ==
  /\ phase = "ready" /\ end # None /\ index # end
  /\ seen' = Append(seen, Label(walker, index))
  /\ index' = SkipHubs(walker, index + 1)
  /\ UNCHANGED <<input, phase, itr, turn, hubs, local, walker, skipping, end>>

\* The assertion that the code has at this point does not hold.
AssertionFails ==
  CASE phase = "count_edge_degrees"    -> AllRead /\ ~HubsAsserted
    [] phase = "partition_low_degree"  -> ~LowFits
    [] phase = "partition_high_degree" -> ~HighFits
    [] phase = "ready"                 -> walker # None /\ end = None /\ ~skipping /\ BeyondLast /\ index = 0
    [] OTHER                           -> FALSE

Abort ==
  /\ AssertionFails /\ phase' = "aborted"
  /\ UNCHANGED <<input, itr, turn, hubs, local, walk>>

Next ==
  \/ CountEdgeDegrees \/ GatherHubs \/ InitializeLowMetaData \/ InitializeHighMetaData
  \/ CountHighDegreeEdges \/ InitializeEdgeStorage
  \/ PartitionLowDegree \/ PartitionHighDegree \/ NextPass \/ BuildControllers
  \/ \E r \in Ranks : VerticesEnd(r)
  \/ StepBack \/ UpdateLocator \/ StartLoop \/ NextVertex \/ Abort

Spec == Init /\ [][Next]_vars /\ WF_vars(Next)

-----------------------------------------------------------------------------
(***************************************************************************)
(* Every member has its range: counts, indices of slots, locators.         *)
(***************************************************************************)
Slots(count) == 0..(count - 1)
Locators == [is_delegate : BOOLEAN, local_id : 0..(MaxVertex + 1), owner : Ranks]
Contents == {None} \cup [target : Locators, data : {e.data : e \in AllEdges}]

TypeOK ==
  /\ phase \in {"count_edge_degrees", "initialize_low_meta_data", "initialize_high_meta_data",
                "count_high_degree_edges", "partition_low_degree", "partition_high_degree",
                "build_controllers", "ready", "aborted"}
  /\ turn \in 0..(passes - 1)
  /\ itr \in [Ranks -> Nat] /\ \A r \in Ranks : itr[r] \in 1..(Len(edges[r]) + 1)
  /\ \A i \in DOMAIN hubs : hubs[i] \in 1..MaxVertex
  /\ \A r \in Ranks :
       /\ local[r].outgoing \in [Cells -> 0..Cardinality(AllEdges)]
       /\ local[r].high_vertex_count \in 0..(MaxLocal + 1)
       /\ local[r].low_csr_idx \in [0..(MaxLocal + 1) -> 0..Cardinality(AllEdges)]
       /\ local[r].delegate_id \in [0..(MaxLocal + 1) -> HubNumbers \cup {None}]
       /\ Range(local[r].owned_targets) \cup Range(local[r].delegate_targets) \subseteq Contents
  /\ walker \in Ranks \cup {None} /\ index \in 0..(MaxLocal + 2)
  /\ end \in 0..(MaxLocal + 2) \cup {None}

(***************************************************************************)
(* In every pass, for every vertex a rank owns and for every hub, the free *)
(* slots on that rank are as many as the edges it has yet to receive: what *)
(* the counting phases added up in another order, in chunks of other       *)
(* vertices, some as counts from elsewhere, fits to the edge.              *)
(***************************************************************************)
ToCome(r) ==
  CASE (r % PerNode) % passes > turn -> AllEdges
    [] (r % PerNode) % passes = turn -> Unread
    [] OTHER                         -> {}

RoomForTheRest ==
  /\ phase = "partition_low_degree" =>
       \A r \in Ranks : \A i \in {j \in Cells : local[r].delegate_id[j] = None} :
         local[r].low_csr_idx[i + 1] - local[r].low_csr_idx[i] - local[r].tracker[i]
           = Cardinality({e \in ToCome(r) : e.source = Label(r, i)})
  /\ phase = "partition_high_degree" =>
       \A r \in Ranks : \A h \in HubNumbers :
         local[r].delegate_info[h + 1] - local[r].delegate_info[h] - local[r].delegate_degree[h]
           = Cardinality({e \in HighEdgesTo(r, ToCome(r)) : HubNumber(e.source) = h})

(***************************************************************************)
(* The graph that is ready holds every line of the files once, and its     *)
(* mirror image if it is to be undirected, each with its data, where       *)
(* edges_begin() and edges_end() of its source find it: at the owner of a  *)
(* low-degree source, at the owner of its target if the source is a hub.   *)
(* degree() is the out-degree, of a hub on every rank; hubs are the        *)
(* vertices of at least the threshold, and a label comes back from         *)
(* label_to_locator and locator_to_label.                                  *)
(***************************************************************************)
EdgesBegin(r, l) == IF l.is_delegate THEN local[r].delegate_info[l.local_id]
                                     ELSE local[r].low_csr_idx[l.local_id]
EdgesEnd(r, l) == IF l.is_delegate THEN local[r].delegate_info[l.local_id + 1]
                                   ELSE local[r].low_csr_idx[l.local_id + 1]
Target(r, l, i) == IF l.is_delegate THEN local[r].delegate_targets[i]
                                    ELSE local[r].owned_targets[i]
Degree(r, l) == IF l.is_delegate THEN local[r].delegate_degree[l.local_id]
                                 ELSE EdgesEnd(r, l) - EdgesBegin(r, l)

Vertices == 0..MaxVertex
HoldsEdges(r, v) == IsHub(v) \/ Owner(v) = r
EdgesOf(v) == {e \in wanted : e.source = v}

FoundAt(r, v) ==
  LET l == LabelToLocator(v)
  IN  {Target(r, l, i) : i \in EdgesBegin(r, l)..(EdgesEnd(r, l) - 1)}

StoredOnce == phase = "ready" =>
  \A v \in Vertices :
    /\ IsHub(v) <=> Cardinality(EdgesOf(v)) >= threshold
    /\ LocatorToLabel(LabelToLocator(v)) = v
    /\ \A r \in Ranks : HoldsEdges(r, v) =>
         LET l == LabelToLocator(v)
             here == {e \in EdgesOf(v) : IsHub(v) => Owner(e.target) = r}
         IN  /\ Degree(r, l) = Cardinality(EdgesOf(v))
             /\ EdgesEnd(r, l) - EdgesBegin(r, l) = Cardinality(here)
             /\ None \notin FoundAt(r, v)
             /\ {<<LocatorToLabel(t.target), t.data>> : t \in FoundAt(r, v)}
                  = {<<e.target, e.data>> : e \in here}

(***************************************************************************)
(* A loop from vertices_begin() to vertices_end() visits each low-degree   *)
(* vertex the rank owns once, and the controllers are the rest: over all   *)
(* ranks a traversal starts every vertex once, isolated ones too.          *)
(***************************************************************************)
Master(v) == IF IsHub(v) THEN HubNumber(v) % Size ELSE Owner(v)

EveryVertexListed == end # None /\ index = end =>
  /\ IsInjective(seen)
  /\ Range(seen) \cup {hubs[h + 1] : h \in Range(local[walker].controllers)}
       = {v \in Vertices : Master(v) = walker}

(***************************************************************************)
(* vertices_end() "returns an end iterator for all local vertices".        *)
(***************************************************************************)
EndIsReturned == walker # None ~> end # None \/ phase = "aborted"
=============================================================================
