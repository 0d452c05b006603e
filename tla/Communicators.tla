---------------------------- MODULE Communicators ----------------------------
(***************************************************************************)
(* The communicators of include/ygm/impl/mpi.ipp and what the mailboxes    *)
(* need of them: ranks are numbered in blocks, one block for each node.    *)
(***************************************************************************)
EXTENDS Naturals, FiniteSets

CONSTANTS
  Nodes, Cores,  \* nodes, and ranks per node
  LocalBits      \* width of message::local, 6 in the code

Rank == 0..(Nodes * Cores - 1)

Node(r) == r \div Cores
Core(r) == r % Cores

\* The layers in which mailbox_p2p_nlnr deals the nodes.
Layer(r) == Node(r) % Cores

\* comm_nl: the ranks of the node.
Nl == [r \in Rank |-> {q \in Rank : Node(q) = Node(r)}]

\* comm_nr: the ranks that are the same core of their nodes.
Nr == [r \in Rank |-> {q \in Rank : Core(q) = Core(r)}]

\* comm_nlnr: its color is the pair of core and layer, in either order.
Color(r) == {Core(r), Layer(r)}
Nlnr == [r \in Rank |-> {q \in Rank : Color(q) = Color(r)}]

\* The rank of q in a communicator, which is ordered by world rank.
RankIn(comm, q) == Cardinality({p \in comm : p < q})

\* queue_bytes of msg for index i of the communicator of a stage's exchanger.
Hop(comm, stage, i, msg) ==
  [stage |-> stage, msg |-> msg, to |-> CHOOSE q \in comm : RankIn(comm, q) = i]
=============================================================================
