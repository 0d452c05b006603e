# A TLA+ model of HavoqGT

HavoqGT computes on graphs that are spread over the ranks of an MPI job.  A
*visitor* is a small message for one vertex; an algorithm is a class of visitors
with three callbacks (`pre_visit`, `visit`, `init_visit`); the *visitor queue*
delivers visitors until none is left anywhere.  Vertices of high degree
(*hubs*, *delegates*) have a copy on every rank, one of which, the *controller*,
is the master.  Everything a user relies on goes through one loop,
`init_visitor_traversal`, and one collective call under it, `do_exchange`.
These modules model that core from the vertex programs down to the MPI calls,
and over it the larger programs that make one traversal after another: triangle
counting, the k-truss, and the search for a labelled pattern.

Paths are relative to the repository; `tlc`, `tlapm` and the community modules
are all that is needed.

## Inventory

| Component | State | Operations | Talks to | What is hard |
|---|---|---|---|---|
| Visitor queue (`include/havoqgt/visitor_queue.hpp`) | local priority queue, FIFO of broadcast visitors, iterators over controllers and vertices | `init_visitor_traversal` (3 forms), `queue_visitor`, `do_visit`, `process_pending_controllers`, `handle_mailbox_receive`, `pop_top` | mailbox (calls; receives by callback), vertex programs (callbacks), graph | a collective call in the middle of a visit; deciding that nothing is left; hubs' replicas |
| Vertex programs (`breadth_first_search.hpp`, `single_source_shortest_path.hpp`, `connected_components.hpp`, `page_rank.hpp`, `impl/vertex_data.hpp`) | one value per vertex and one per hub and rank | the three callbacks, set-up, `all_reduce` | visitor queue, graph | order of visitors, stale visitors, replicas that filter |
| Mailbox (`include/ygm/mailbox_p2p_nlnr.hpp`) | three exchangers, `m_send_count`, deferred calls | `send`, `send_bcast`, `global_empty`, `wait_empty`, `do_exchange` | exchangers (calls), visitor queue (callback) | three groups of ranks in one collective call, calls made inside it, routes |
| Exchanger (`include/ygm/comm_exchanger.hpp`) | send vectors, receives posted ahead, tag | `queue`, `exchange` | MPI point to point | blocking sends, members one exchange apart, buffers in use by MPI |
| Mailbox variants (`mailbox_p2p_nlroute.hpp`, `mailbox_p2p_nrroute.hpp`, `mailbox_p2p_noroute.hpp`) | two exchangers, or one | as the mailbox | exchangers, edge list tools | two exchanges in either order, batches per node |
| Communicators (`include/ygm/impl/mpi.ipp`) | which ranks share a node | `init`, `init_nl_comm`, `init_nr_comm`, `init_nlnr_comm` | shared memory, `MPI_Comm_split` | start-up order, shapes that are not full |
| Partitioned graph (`delegate_partitioned_graph.hpp`, `impl/*.ipp`) | CSR of owned edges, CSR of hub edges, hub tables | construction in several passes over the edges, iterators, locators | MPI collectives, edge readers | every edge placed once in several passes, edges of hubs balanced, labels and locators |
| Triangles, k-truss (`triangle_count_global.hpp`, `triangle_count_per_edge.hpp`, `new_triangle_count.hpp`, `ktruss_unroll.hpp`) | a directed copy of the graph, a count per edge, the sources of checks | directing the edges, wedge checks and their answers, marking and unrolling in rounds | visitor queue | checks and answers that cross; triangles that lose two edges in one round |
| Pattern matching (`include/prunejuice/`, `src/run_pattern_matching_beta_1.1.cpp`) | roles, active edges and token sources per vertex, hubs' copies of them | local checking in supersteps, token passing per constraint, pruning, reductions | visitor queue | replicas with partial data, tokens passed on once, marks of one phase met by the next |
| Vertex metadata (`include/metadata/`) | one value per vertex | `vertex_data_db`, `vertex_data_db_degree` | visitor queue | visitors queued before the traversal, replicas |
| Legacy mailbox, termination detection (`mailbox.hpp`, `termination_detection.hpp`) | tree of counts | asynchronous waves | MPI | detecting the end from stale counts |
| Shared-memory mailbox (`new_mailbox.hpp`) | rings and bundles in shared memory | `send`, `receive` | MPI, shared memory | full rings, concurrent readers |
| Edge reader (`parallel_edge_list_reader.hpp`) | files of this rank, open streams, counts | `begin`, `end`, the iterator | graph construction | the same edges in every pass, mirrored edges and the end by count |
| Generators, other readers, persistent storage, MPI wrappers, programs | streams, files | reading, opening, copying | the above | mostly input and output |

What makes each correct, and the steps at which it could go wrong, is listed
line by line under `hazards` in `PROJECT.json`.

## Modules

```
 VertexPrograms (BreadthFirstSearch, ShortestPath,    PatternMatching (LocalConstraints,
     |           ConnectedComponents, PageRank,           |   TokenPassing, TokenPassingTds)
     |           VertexMetadata)                      Triangles (TriangleCount, KTruss)
     |                                                    |
     v                                                    v
 VisitorQueue ------ implements (VisitorTraversal) -> AsyncTraversal
     |        ------ implements ----> VisitorFlow (what programs are proved over)
     |        ------ implements ----> TraversalContract
     |  keeps
 CollectiveExchange <-- implements -- Mailbox, in a YgmJob  (MailboxRouting; MailboxRoutes)
     ^                                   |  after NodeDiscovery
     +---- implements -- CommExchanger   +-- Communicators
                          (over MPI, external)

 GraphConstruction   (what a StoredGraph is built by, and the loop over it)
     over EdgeListReader
```

`TraversalContract` is what the developer guide promises a caller: a rank
returns only when no visitor is left.  `CollectiveExchange` is what an exchange
promises its members: everybody receives in exchange *k* all that was sent to it
in exchange *k*, and learns whether anything was sent at all.  The same contract
stands between the visitor queue and the mailbox, and between the mailbox and
its exchangers; each side is checked against it.  `AsyncTraversal` is the
traversal as an algorithm sees it, a bag of visitors that wait at some rank for
some step and run in any order: the visitor queue is shown to only restrict that
order, and programs of many traversals are modelled over the bag, which keeps
them within reach.

### VisitorQueue

One copy of the traversal loop per rank.  `pc` is the place in the loop
(`controllers`, `vertices`: the two starts of a turn; `pending`: the call of
`process_pending_controllers`; `while`: the test of `empty()`; `drain`: the body
of the inner loop; `left`: returned; `gone`: mailbox destroyed).  A visit is not
one step: its calls of `queue_visitor` and `send_bcast` are put in `todo` and
executed one by one, because each may fill a batch and run a whole exchange,
whose arriving visitors change the data the visit has read.  `owned`,
`controllers` are the two local queues, `box` and `sendCount` the mailbox,
`call` says who called `do_exchange`, and `round`, `posted`, `wire` are the
exchange: what each rank announced and what is still to arrive, in two slots
that are used in turn (`LockStep` says why two are enough).

Abstractions: the pop order of the priority queue is open (a template
parameter; each order is a subset of the behaviours).  What an exchange does
inside is `Deliver` in any order, `FinishExchange` when all have entered and
nothing is left.  The algorithm is a parameter: sets of outcomes of the three
callbacks.  `init_visitor_traversal(local_sources)` is the case in which the
vertex iterator is empty.  `BcastCost` is the number of copies a broadcast
queues, which depends on the machine's shape (`DoSendBcast` in `MailboxRouting`).

### Vertex programs

Each module has `PreVisit`, `Visit` and `Start` of one program, line by line,
and its reference result; `VertexPrograms` puts all of them on the visitor
queue, instantiated once, with the program chosen in the initial state.
Levels have `LevelBits` bits, so that the wrap of the 16-bit `m_level` is in
reach.  Ranks of PageRank are abstracted to the multiset of edges that
contributed (floating point would hide a lost or doubled one).  The two metadata
programs of `VertexMetadata` queue the entries of their rank's file before the
loop.  The first file has entries enough to fill a batch, so rank 0 enters an
exchange before it has started a visitor, and the others join it from their own
loops.  One vertex has no entry.  A 0 in the code's visitor means that it carries
none.

### AsyncTraversal, VisitorTraversal

`pending` is a bag of visitors, each with its rank and the step it waits for:
`start` (an iterator), `arrive` (`pre_visit`), `visit` (the local queue of the
owner or controller), `hear` (broadcast by the controller: visited without
`pre_visit`, result ignored).  `VisitorTraversal` maps every place in which a
visitor of `VisitorQueue` can be (iterators, the rest of a visit, buffers, the
wire, both queues) to such an entry.

`VisitorFlow` is the same traversal made for proofs: a set instead of a bag, from
which a visitor that is taken may or may not vanish (another equal one may be
left), and `call` apart from `sent`, because `queue_visitor` asks `pre_visit` on
the rank of the visit and `handle_mailbox_receive` on the rank of the master.

### Pattern matching

`PatternTemplate` has the data of the search: for each template its labels,
edges and constraints (their paths and which token-passing program checks them),
and for each rank and vertex a *cell* with the entries of all the maps the
driver passes to the visitors: `vertex_active`, `template_vertices` (`roles`),
`vertex_state_map` (`listed`, `state`, `heard`), `vertex_active_edges_map`,
`token_source_map`, `vertex_token_source_set`.  `LocalConstraints` is
`local_constraint_checking.hpp`, `TokenPassing` is
`non_local_constraint_checking_unique.hpp`, `TokenPassingTds` is
`non_local_constraint_checking_tds_batch.hpp`: the callbacks, and what each does
between its barriers.  `PatternMatching` is the driver's loop: supersteps of
local checking until no rank changed anything, then a round of token passing per
constraint (in batches of ranks for the tds program), the pruning of sources
that were not confirmed, the reductions over replicas, and local checking again
if the constraint asks for it.

### Triangles and the k-truss

`TriangleCount` is the traversal in which each vertex sends its degree to its
neighbours and the edge is stored at the end that comes first, and then the wedge
checks and their answers, in the four forms of the four headers; `KTruss` the two traversals of a round of `ktruss_unroll` and the
deletion at its end.  `Triangles` puts them in the order of the programs, with
`graph` the set of edges they work on.

### Communicators, MailboxRouting, MailboxRoutes, Mailbox

`Communicators` and `MailboxRouting` have no state.  `Communicators` has node,
core and layer of a rank and the three communicators, ordered as
`MPI_Comm_split` orders them.  `MailboxRouting` has the indices that `do_send` of
the nlnr mailbox computes, the parity rule of `do_send_bcast`, and what the
handlers of `do_exchange` relay; the same for `nlroute` and `nrroute`, which are
each other's mirror image, and for `noroute`; and the choice by the kind of
mailbox.  `MailboxRoutes` sends one message, or one broadcast,
over one of them; all copies of a stage are handed on in one step (`HandOn`).  `Mailbox` is the mailbox in full, for each kind:
`out` are the exchangers' queues, `stage` which exchange a rank is in,
`deferred` the calls made by receivers inside an exchange.  Its refinement
mapping counts for each message on the way how often its destination will still
get it; what was put into the first exchange at any rank must come out at the
destination before that returns.

### NodeDiscovery, YgmJob

`NodeDiscovery` is `comm::init_nl_comm`: unlink, barrier, one rank after the
other opens or creates the shared object of its node, barrier, read, barrier,
unlink.  `named` is what the name refers to on each node, which at the start may
be an object of an earlier job.  `YgmJob` runs it before the mailbox, as `init`
does.

### CommExchanger

The MPI calls of `exchange`: the blocking sends of the counts, the receives
posted one exchange ahead, the polling loop, the data messages and
`MPI_Waitall`.  MPI is external and as weak as its standard: a blocking send may
or may not be buffered, receives from any source match in any order, and data is
read from the send buffer only when its receive matches.

### GraphConstruction

One action per phase function of `delegate_partitioned_graph`, or per round of
its loop: count the degrees, gather the hubs, lay out the low-degree edges, count
the edges of hubs where their targets are owned, allocate, partition the
low-degree edges, partition the hubs' edges, sum the degrees and list the
controllers.  `edges[r]` is what the iterator of the rank's reader yields, in each
phase again, computed by `EdgeListReader` from the files: which files the rank
opens, and what a loop from `begin()` to `end()` sees, each line twice if the
graph is to be undirected;
`local[r]` are the members of the graph on rank *r* under their own names; `hubs`
is `m_delegate_label`, which every rank computes from the same gathered list.
A round up to the end of its `mpi_all_to_all` is one step of all ranks: until
then a rank reads and writes only its own fields.  An assertion that fails ends
the job (`Abort`).  When the graph is ready, one rank's loop from
`vertices_begin()` to `vertices_end()` is followed step by step (`walker`).

Abstractions: incoming degrees are left out (no decision reads them any more);
edge data is a mark that tells edges apart; `calculate_overflow` is commented out
of the construction, so `transfer_info` is always empty; all nodes have the same
number of cores.

## Runs

| Run | What it asks | Bounds |
|---|---|---|
| `vq_two` | Is the invariant that the proofs use true; does every visitor come to the right rank, and none get dropped there; does the queue implement its contract and the abstract traversal, and keep the exchange's contract? | 2 ranks, a hub and another vertex, visitors of 3 generations, any callbacks, batch 1: every send runs an exchange |
| `vq_three` | Does nobody leave early, is nobody stranded, does the traversal end? | 3 ranks, one with replicas only, 2 generations with up to 2 new visitors each, batch 2: batches fill in the middle of a visit |
| `vq_pop` | Does `pop_top` always find a visitor? **No**, see below | as `vq_two` |
| `vertex_programs` | Do all orders end in the reference result? | 3 ranks, 7 vertices, 2 hubs, a cycle with a short and a long way, a vertex with nothing but a self loop; two metadata files for three ranks; batch 4 |
| `pattern` | Does every match survive, is each source decided rightly, does the search end in a fixed point, and end? | 2 ranks, 5 vertices, a hub, 9 searches (cycles, paths, repeated labels, walks that merge), batches of one rank |
| `pattern_roles` | Are `vertex_state_map` and `template_vertices` in step? **No**, see below | one of those searches |
| `triangles` | Are triangles counted once, on the right edges; does each round of the k-truss leave right counts and a set that contains the truss? | 2 ranks, 7 vertices, 2 adjacent hubs, 3 counting programs; 2 graphs of 12 edges for the truss |
| `nlnr_mailbox` | Do the ranks find their nodes; do the exchanges behave as one; does `wait_empty` end when and only when nothing is left? | 2 nodes of 2 cores, each of the four mailboxes, two ranks that send or answer 3 messages or broadcasts (nlnr) or 2, batch 2; an earlier job's object on either node |
| `nlnr_routes` | Is each message delivered once by each mailbox? | 7 nodes of 4 cores, all senders and destinations; the last layer has one node less, the field for the core is just wide enough; every shape in the proof |
| `comm_exchanger` | Does the point-to-point protocol implement the exchange, and return? | 2 members, 2 exchanges, up to 2 messages per member and exchange |
| `graph` | Do the phases agree to the edge; is each edge stored once and each vertex listed once? | 4 ranks on 2 nodes, 5 files; every list of up to 4 lines from 5 pairs on 2 ranks of a node, of up to 3 on 2 nodes, of up to 2 mirrored, also with two files on one rank; thresholds 2 and 3, chunks of 2, 1 or 2 passes |
| `graph_end` | Does `vertices_end()` return? **No**, see below | up to 2 lines |

Why the bounds are enough.  The queue's protocol compares counts of the same
exchange only, and ranks are never two exchanges apart (proved); two ranks show
every combination of positions of a pair, the third adds a rank that has nothing
to do.  Batch 1 and 2 are the extreme in which every visit is interrupted; the
default of the code is a million.  With `vertex_programs` the batch is the
smallest with which the assertion of `pop_top` does not end the traversal on
this graph (with 1 or 2 every search on it aborts, so the results would be
compared in no state); batches still fill in the middle of visits.  Two nodes of
two cores are the smallest machine with all three stages, a core that is the
door to its own layer and one that is not; a larger shape is in
`nlnr_routes`.  In `comm_exchanger` a member also sends to itself, so counts of
different sources can match in either order, and one can be an exchange ahead.
In `graph` a vertex can cross the threshold by its own rank's edges, by counts
from the other, or by both; there are up to two hubs, a low-degree vertex with
two edges in one round, doubled edges, a rank that runs out of edges first and
two that have none, and vertices without edges.
In `pattern` the searches are chosen one by one for what they make happen: a
superstep that gives up a role and one that gives up a vertex far from the first;
two triangles over one edge; a vertex that local checking keeps and only a token
can refute, with and without another local checking; a label twice in a cycle,
where walks that reach a vertex by different ways must not be taken for one; two
walks that meet at the hub and may be taken for one, so that only the first goes
on; a walk that is not closed; the hub as a source, in the middle of a walk, and with
one neighbour on the other rank.  In `triangles` both hubs lie on triangles with
each other and with vertices of both ranks, degrees tie, and new checks meet
replicas; the two truss graphs are the smallest found in which a round marks an
edge whose triangle has another marked edge (0-4) and in which a triangle is
lost by the edge between its later vertices alone (0-6), so that every branch of
the unrolling is taken.  The code copies no edges that are kept at a hub
(its loop over the controllers has no body), so hubs occur in the truss graphs
only as the far ends of edges copied from other vertices, and an edge that would
be kept at a hub is in no truss.  In `nlnr_mailbox` two messages are
enough to fill a batch, and an answer made inside an exchange is put off and
replayed; the variants have fewer stages and get one message per rank less.

Fairness.  `VisitorQueue`, `Mailbox` and `YgmJob` assume weak fairness of each rank's
steps: a rank is a process that runs, and its program goes on calling.  The
termination of a traversal (`EveryRankEnds`) is claimed of algorithms that stop
creating visitors.  `CommExchanger` assumes that members go on calling
`exchange`, that MPI matches a message with a posted receive in the end, and
only that a blocking send returns once its message was received; no buffering
is assumed, so `EveryExchangeEnds` shows that the receives posted ahead are
what keeps the blocking sends from waiting on each other.

`GraphConstruction` and `PatternMatching` assume that the program goes on (weak
fairness of `Next`): every rank keeps running visitors, which `EveryRankEnds`
supports for any program that stops creating them, and enters the collective
calls after a traversal.  `Triangles` states no liveness; its run shows that it
does not stop before the program has returned.

Every property of a passing run has a mutation of the code's model (in the
module, before the definition it replaces) that breaks it.

### What the violation runs show

`PopFindsVisitor` is the assertion at `visitor_queue.hpp:337`.  The loop tests
`empty()`, which counts the FIFO of broadcast visitors too; then drains that
FIFO; then pops the other queue, which may never have held anything.  It takes
an exchange in the middle of a visit (a full batch) that delivers broadcasts and
nothing else.  With the default batch this is rare, which is why it has gone
unseen; with assertions compiled out, `top()` of an empty queue is undefined.
The model ends the job there (`aborted`).

`EndIsReturned` is what the header says of `vertices_end()`.  The function steps
back from the last cell while the label is above the largest vertex; the
iterator's `operator--` then steps forward over cells of hubs.  If the last
vertex of a rank is a hub, each step back is undone and the loop never ends; the
visitor queue calls it in every turn of `init_visitor_traversal`, so no traversal
of such a graph ends on that rank.  With few hubs among many vertices it is rare.
The same loop asserts on a rank that owns no vertex at all (fewer labels than
ranks), and `count_edge_degrees` asserts that vertex 0 is no hub; both are
`Abort` in the model.

`RolesAreSynced` is a comment at `local_constraint_checking.hpp:927`: the roles
in `vertex_state_map` and those in `template_vertices` are the same.  When token
passing does not confirm a source, the driver takes the role from
`template_vertices` only, and drops the entry of `vertex_state_map` only if no
role is left; the next local checking copies the old roles back.  The run has a
path A-B-A in a graph with one A: that A loses its role 0, keeps role 2, and is
given role 0 again.  `SourcesAreRight` holds all the same: what token passing
decides is right for the roles it is given.

## Proofs

Eight modules, by component.  Nothing is
assumed but the named assumptions of the modules: in each case that the constants
have their types and that the machine has at least one node, core or member.  For
the vertex programs also:

* there are finitely many ranks, rank 0 among them; a rank keeps edges only of
  vertices it has a copy of, and its iterators list the vertices it is the master
  of (`GraphAssumption`);
* a level has a bit at least, and the parent that a vertex begins with is not a
  vertex (`SearchAssumption`: the code has a default locator there);
* lengths are natural numbers, and the initial one, the largest of its type, is
  above that of every walk of fewer edges than there are vertices
  (`PathAssumption`; a length that the code's type cannot hold would overflow);
* labels are numbers, and the edges that count go both ways (`LabelAssumption`:
  the program is for undirected graphs, whose edges are given in both directions).

### The visitor queue

`VisitorQueue_proofs`, for every number of ranks, every graph, every algorithm,
every start and every batch size:

* `TypeCorrect`, `Inductive`: `IInv` is an invariant.  It has seven parts.
  `TypeOK`; `LockStep` (ranks are at most one exchange apart and the slot they
  are about to reuse is empty); `BuffersAreCounted`, `WireIsAnnounced` (a visitor
  in a buffer or on the way shows in a count); `InExchange` (what a rank inside
  `do_exchange` can still have); `WentOnTogether` (a rank that went on after an
  exchange did so because the exchange carried something, which the ranks still
  in it will see too); `LeftTogether` (ranks that left, left at the same
  exchange, and there is nothing in it or after it).  The properties are not
  inductive: that nobody leaves early depends on the counts the others posted
  and on where they can be when one rank reads a total of zero.
* `TerminationIsSafe` (`LeaveOnlyWhenQuiescent`), `NobodyIsStranded`
  (`LeaveTogether`), `ExchangesInLockStep`: from `IInv`.
* `ResultStaysFinal` (`ResultIsFinal`): no step changes the data of a rank that
  has left.
* `Refinement` (`ImplementsContract`): every step is a step of
  `TraversalContract` or leaves it unchanged.

The second half of the module shows what the queue implements:

* `VisitorsArriveRight` (`ArrivesRight`), of two parts.  `VisitorsReachMaster`
  (`SentToMaster`, whose strengthening says the same of the buffers): what is no
  broadcast goes to the master of its vertex.  `NoVisitorIsDropped`
  (`NothingDropped`): no visitor that comes to the controller of its hub carries
  the bcast bit, with which `handle_mailbox_receive` would drop it.  The mark is set
  on a copy, yet visits copy the locators they are given; `ArrivalInv` says the
  same of the buffers, and that only a hub's controller broadcasts a visitor of
  it.  The second part is proved under `NewVisitorsArePlain` (see `VisitorsFlow`
  below).
* `ExchangesKeepContract` (`KeepsExchange`): what the queue does with its mailbox
  is an exchange of `CollectiveExchange`, so that the two halves of the
  development meet.
* `VisitorsFlow`: it implements `VisitorFlow`.  `Items` is the set of all places
  in which a visitor can be (`Starting`, `Calling`, `Coming`, `Visiting`,
  `Hearing`, `Casting`) with the step it waits for there, and each action of the
  queue moves one visitor from one place to the next, or none
  (`StartControllerFlows` to `DeliverFlows`).  The hypothesis,
  `NewVisitorsArePlain`, is that callbacks create no visitors that are marked as
  broadcasts; `do_visit` is the only place where the code sets the mark.

### Programs that keep the least value: searches, shortest paths, components

`Relaxation_proofs` is about any program over `VisitorFlow` in which a copy of a
vertex keeps the least value it hears of, and a visit makes the edges on its rank
offer the targets what follows from the value (`Relaxes`, `Starts`).

* `FlowKeepsOffers`: `IInv` is an invariant.  `PlaceInv` (a visitor waits for its
  visit on the master only, and its master holds no more than it carries);
  `AheadInv` (when a hub's replica is below its master, the visitor that put it
  there is on its way to the master: why a replica may drop a visitor that is not
  better than the best it has seen); `SpreadInv` (for each copy of a vertex that
  is not ahead, either the visitor waits that will make the edges kept there
  offer the master's value, at the master or broadcast to the replica, or they
  have offered it, and each offer has reached its target or is on its way);
  `SeedInv` (the same of what was queued before the traversal); `CeilingInv`
  (what a target can never have a use for need not be offered: `visit` of
  connected components leaves such visitors out).  `SpreadInv` needs the others:
  an offer that a replica dropped, that another visitor overtook, or whose visit
  found a lesser value is accounted for by the value that took its place.
* `TraversalSettles` (`Settled`): with no visitor left, no edge on any rank could
  lower its target, and replicas agree with their master if a visit writes.
* `FlowStaysSound`: what the callbacks keep right of one rank's data and one
  visitor stays right in the traversal.

`VertexPrograms_proofs` (over the lemmas about tags and numbers with which it
begins) takes these through the visitor queue for
`BreadthFirstSearch`: `LevelsStaySound` (`LevelsNeverTooLow`: no level below the
distance, nothing wraps, at any time) and `SearchFindsDistances`
(`LevelsAreDistances`: when all ranks have returned, every copy of every vertex
has its distance as its level, and only vertices too far for the width of a
level are unvisited).  The argument: the data of every rank carries the tag of
one program and keeps it (`ProgramStays`); under the tag `bfs`, `VertexPrograms` is a
visitor queue over the callbacks of the search (`SameNext`), so it is a flow
(`VisitorsFlow`) that relaxes (`BfsRelaxes`) and stays sound (`BfsStaysSound`);
a rank returns only when no visitor is left (`TerminationIsSafe`), and then the
levels are settled, which together with their soundness makes them distances
(`SettledMeansDistances`).  Of runs of the other programs the two properties say
nothing.  That the recursive function `Ball` is what its definition says
(`BallFacts`) is shown with least counterexamples (`Least`) and with `Recursion`,
in place of the library's induction theorems, whose operator parameters the
provers cannot instantiate.

`SearchFindsTree` (`ParentsFormTree`) is about more than the least value: which of
several visitors of one level gives a vertex its parent is decided by a race.
`ParentInv`: for each vertex whose master was reached there is one parent, joined
to it by an edge and one level nearer, such that every visitor of the master's
level that still waits for a visit carries it, and each copy has it, is still to
be visited by such a visitor, or knows of a lower level already.  `pre_visit` lets
no second visitor of a level through, neither on the master nor on a replica, so
whichever won the race decides for all copies.

The same is done for two more programs, in the same module and in
`ConnectedComponents_proofs`, each with its own instances of the visitor queue
(`SQ`, `CQ`; `BQ` for the search) and of the theory above (`SR`, `CR`; `BR`):

* `PathsFound` (`PathsAreShortest`): when all ranks have returned from single-source
  shortest paths, the master of every vertex holds the length of its shortest
  path.  Only masters do: `visit` never writes a length, so what a broadcast says
  does not reach the replicas (`Writes` is false).  What is sound here is that
  every length is that of a walk (`PathLengths`, `Walkable`); settled lengths are
  below those of all walks (`SettledLengths`).  The reference `SP!Distance` only
  looks at walks of fewer edges than there are vertices.  `ShortWalks` shows that
  these are enough: a vertex whose shortest path needs k edges is next to one
  whose shortest path needs k - 1, so some vertex needs each lesser number, and
  no number is as large as there are vertices (`Rungs`).
* `ComponentsFound` (`LabelsAreComponents`): when all ranks have returned from
  connected components, every copy of a vertex that counts, replicas included,
  has the least vertex of its component as its label.  Every vertex starts with
  its own visitor, and a visit leaves out the edges to vertices that are not
  above the label; they need no offer, since no vertex ever holds a label above
  itself (`CeilingInv`).  Every label is that of a connected vertex (`Linked`),
  which uses that the edges that count go both ways (`LinkedNext`), and settled
  labels are at most those of connected vertices (`SettledLabels`).  `Picked`, the
  loop that skips edges, is a recursive function; `PickedFacts` says what it
  leaves.

### What a replica may drop

`ReplicaFilter_proofs` is about the visitor queue itself and any program with a
value per copy that only goes down (`Filters`).  `ReplicasAreExplained`: when a
replica of a hub is ahead of the controller, a visitor with just that value is in
that replica's buffer for the controller or on its way there (`FilterInv`).  The
flow of visitors cannot say this, since it forgets who sent a visitor; the proof
therefore goes over the steps of `VisitorQueue`, buffers, batches and exchanges
included.  Of the flow it uses that no visitor which waits for its visit has been
overtaken on its master (`Levelled`, a part of `PlaceInv`).  `FilterStaysSound` (`FilterIsSound`), in
`ConnectedComponents_proofs`, gives it to the three searches.

### Vertex metadata

The first part of `VertexPrograms_proofs`: `MetadataReachesEveryCopy`
(`MetadataIsEverywhere`) and
`DegreesReachEveryCopy` (`DegreesAreEverywhere`), over the flow of visitors.
`GivenInv` has four parts: types; where visitors wait, and that each brings what
its vertex is to get (`GivenPlace`); that no copy holds anything else
(`GivenRight`); and that a copy that lacks its value has a visitor bound for it,
at the master or already broadcast to that copy (`GivenCover`).  The files' entries
must not contradict each other, ranks are numbered, and there are at most as many
files as ranks (`FilesAssumption`; with more the code makes one call after
another); that every file is then read by some rank (`FilesAreRead`) and that the
visitors of a file's entries are all queued is part of the proof.  For degrees,
`ClassFits` shows that the chosen class is ceil(log2(degree + 1)) for any number
(`PowerFacts`, `PowersGrow`: no induction theorem is at hand, so by least
counterexamples).

### The exchanger

`CommExchanger_proofs`, for any number of members, exchanges and messages:

* `Invariance`: `IInv` is an invariant.  `TypeInv`; `LoopInv` (at each place in
  `exchange`, which members are still to be heard, and what is left over outside
  it); `StepInv` (a member is at most one exchange ahead, and only of one that
  waits inside); `CountInv` (a count that was sent is on the way or was received,
  once, in the exchange it was sent for); `QueueInv` (a count is zero exactly when
  the queue it announces is empty); `DataInv` (a data message is on the way
  exactly while its sender has heard of the receiver and the receive for it was
  not matched); `RecvInv` (one receive of data for each member that announced
  some); `TotalInv` (what a member has added up is zero only if all the counts it
  was sent are).  Each part needs the others: tags tell exchanges apart because
  nobody is two exchanges ahead, which holds because everybody's count of the
  one before had to be received.
* `NothingIsStray` (`NothingStray`): no message is left of an exchange that is
  over.
* `ExchangerKeepsContract` (`ImplementsExchange`): the protocol of blocking sends
  and posted receives is one collective exchange.  What is owed to a member by
  another is, by the mapping, what that one still holds in its queue or its send
  buffer or has on the way for that exchange (`FromHere`, `FromNext`); posting
  counts, completing receives and waiting for sends leaves it as it is
  (`SilentStep`), reading a message takes it away, and only the entry and the
  return from `exchange` are visible.

### The mailboxes, in a job

`YgmJob_proofs`, for every number of nodes and cores, each of the four mailboxes,
every batch size and number of messages.  `ShapeAssumption` says that the
header's bit field has room for the core of a rank (and that `2 ^ LocalBits` is a
number, which the provers do not know of powers).

First, what the routes promise the exchanges, for every shape (`CallHops`,
`RelayHops`): whatever `do_send`, `do_send_bcast` and the receivers queue goes to a
member of the group of its exchange, and what a receiver queues is for a later
exchange; so the indices that the code computes by division and parity never
point outside a communicator, also where the last layer of nodes is not full
(`NlnrFacts`, `DoorFacts`).  And the groups lead everywhere (`GroupsLead`): from any
rank a member of its first group, one of whose second group shares a third group
with any other rank.

The invariant (`IInv`) has seven parts.

* `TypeInv`: types of all queues and of what is on the wire.
* `Ordered`: nobody leaves an exchange that a member of its group has not entered.
  With `GroupsLead`, when a group has entered the last exchange of a `do_exchange`,
  all ranks of the job have entered its first (`AllPosted`), and two ranks are at
  most one `do_exchange` apart (`Near`), so that two buffers are enough.
* `ZerosAgree`: who posts 0 in one exchange had the sum 0 in the one before
  (`extracount`), so all its group had posted 0 there.  With `GroupsLead` again, a
  sum of 0 in the last exchange says that every rank of the job came with nothing
  (`AllZero`).
* `WireIsCounted`: a message on the wire was counted by a rank of the group that is
  still to read the sum, so a sum of 0 leaves none behind.
* `SilenceIsQuiet`, `GoneInSilence`, `NobodyGoesOn`: in a `do_exchange` to which
  everybody so far has come with nothing (`Silent`), they all are in their
  destructors with empty queues; a rank is gone only after such a one, which all
  have entered; and nobody goes on from it to another.  None of the three is
  inductive without the other two: a receiver could fill a queue again, and what
  it would receive somebody must have counted.

From it follow `MailboxTypes` (`TypeOK`) and `MailboxClosesEmpty`
(`GoneMeansEmpty`): when the first destructor returns, no message of any rank is
queued, put off or on the wire, those that others relay included.  That a sum over
a group is a number, and 0 only if all its counts are (`SumFacts`), is
about a recursive function of the library; it is shown by taking members away
one after the other (`OneByOne`), with a least counterexample instead of the
induction theorems.

The start-up: `JobFindsNodes` (`NodesAreFound`).  Its invariant (`StartInv`) says
what the three barriers keep apart (`Phases`), what a name may stand for
(`NameInv`), that a rank has mapped what the name stood for until its creator
removed it (`MapInv`), that ranks of one node have mapped one object
(`OneObject`), and what they read from it (`ColorInv`).  The turns the ranks take
do not appear in it: they keep `open` and `create` of two ranks apart, which is
one step in the model.  `JobStartsUp` and `JobWorks` show that a job is a start-up
and mailboxes that leave each other alone, hence `JobClosesEmpty`.

The routes: `MessagesArriveOnce` (`MailboxRoutes.DeliveredOnce`), for one message
or broadcast on a machine of any shape, from any sender (the run has one shape).
A hop that is still to be made has a set of ranks that will get the message by it
or by what follows it (`Covers`): behind a rank's door to a layer of nodes, for
instance, that rank and all nodes of the layer but its own (`Layers`).  The invariant
(`RouteInv`) is that the hops under way share out the ranks that are still without
the message: together they cover all of them, no two cover the same, and
none covers a rank that has been told (`Splits`); besides, each hop is under way once.
That a call starts so (`CallSplits`) and that each handler divides what its hop
covers into its own rank and the hops it queues (`HandlersHandOn`) is shown for
each mailbox, from what the indices of `comm_nlnr` lead to: the place of a member
is computed from its node and core (`NlnrPlace`), by listing the members before it
in the order in which the doors between two layers alternate (`DoorOrder`,
`CountBelow`).  This is where the test of the parity is needed: without it the
other nodes of a rank's own layer would be covered from several of its node's cores.
A step only replaces hops by their parts (`SomeArrive`), and after
the last exchange there are none, so everybody has been told.

### The construction of the graph

`GraphConstruction_proofs`, for any files, with lines of any number on any rank,
any threshold, size of chunks, number of passes, ranks and nodes.  Assumed of the
input (`InputsAssumption`) is that lines can be told apart by their data and are no
self loops: it makes a set of edges out of what the code counts line by line, and
the same line turned round another edge.

* `SlotsFitTheEdges` (`RoomForTheRest`): in every pass the free slots of a vertex
  or a hub are as many as the edges it has yet to receive.
* `PartitionNeverAborts`: so the assertions of the two partition phases never fail.
  (An edge takes its place among those of its round: `PlaceBelow`.)

The invariant (`ConstructionInv`) says of each phase what a rank's members amount
to.  While degrees are counted, `outgoing` is the number of edges of each vertex
among those read so far, whoever read them (`Degrees`); hubs are then just the
vertices with enough edges (`HubsAreHigh`), and cells are marked as theirs
(`Identifiers`); the first slots follow each other by these numbers, with none
for hubs (`LowSlots`), or by the numbers of hubs' edges whose targets the rank owns
(`HighSlots`); and the slots that are taken are as many as the edges that came to
the rank in its own passes (`LowTaken`, `HighTaken`).  It needs two facts about
reading.  A round takes its edges from those that are unread, and takes each once
(`Advancing`), because no edge is held twice.  That this is so at the start is a
statement about the readers: a file has one reader (`OneReader`), so no two ranks
have a line in common (`Reading`), and the iterator yields each line once, or once
and once more turned round (`YieldsOnce`, `YieldsTwice`).  Three recursive functions
are in the way (the iterator, the concatenation of files, the prefix sums of
`FirstSlots`); that each satisfies its definition is shown from least numbers
(`SlotsFollow`, `Recursion`).  `std::sort` and `max_vertex_id` are
operators that choose, so `AscendingHasAll` and `GreatestNumber` show that there is
something to choose.

### What is only model-checked

Liveness (fairness is out of the prover's reach); the refinements of the mailbox
(`ImplementsExchange`) and of the abstract traversal, which count copies of many
messages, where the invariants of the mailbox only say where copies can be; of
the construction of the graph, that every slot gets the right edge (`StoredOnce`),
the loop over the vertices (`EveryVertexListed`) and `TypeOK`, whose bounds on slots
are sharper than the invariant of the proof; PageRank (each visitor
counts there, and `VisitorFlow` is about which visitors there are, not how
many); and the results of the triangle and pattern programs. `Mailbox` over
`CommExchanger` and `VisitorQueue` over `Mailbox` meet in the contract they are
proved or checked against; their composition in one specification is not stated.

## Not modelled, and why

* Generators, the HDF5 reader, storage, MPI wrappers, logging and the command-line
  programs are input and output around the core.  Of the text reader, parsing and
  the detection of edge data are left out.
* The legacy mailbox with its termination detection, and the shared-memory mailbox,
  have no caller in the algorithms; the second is used by edge list tools.
* `AsyncTraversal` allows more orders than the queue does (any visitor next, on any
  rank); what holds over it holds over the queue, not the other way round.
* Pattern matching: options that the driver never enables, edge metadata, the
  counts and files of matches, and the readers of the template's files.  The
  unique token passing is only given constraints whose inner labels are unique,
  as the driver's input must be.
* `ktruss_unroll`: the directed copy it decomposes is made in one step, by the
  rules of `TriangleCount`.  The loop that should copy the edges of hubs is
  empty in the code and in `CopiedEdges`; the truss properties are about the edges
  that are copied.
* `kth_core.hpp` only counts degrees so far.
* Metadata: with more files than ranks the code makes several calls in a row.
* `init()` aborts a job whose first node is not a block of ranks, and leaves the
  other nodes unchecked; the models take blocks on every node.
* Overflow of MPI tags depends on the MPI in use and is listed as a hazard.

## Plan

In this order, each with the abstract statement it should meet:

1. The refinement of `AsyncTraversal` by the visitor queue as a theorem
   (`VisitorsFlow` with counts), and from it `EveryEdgeCountsOnce`.
2. Pattern matching: that local checking never gives up a vertex of a match
   (`MatchesSurvive`) from an inductive invariant over `pending` and the cells;
   the same for the counts of `Triangles`.
3. From `SlotsFitTheEdges`, that no slot is taken twice, and so `StoredOnce`; and
   that the loop over the vertices lists each once (`EveryVertexListed`).
4. `ShmRing`: the rings of the shared-memory mailbox and their progress.
