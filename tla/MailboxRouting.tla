--------------------------- MODULE MailboxRouting ---------------------------
(***************************************************************************)
(* The routes of the four mailboxes of include/ygm over the communicators  *)
(* of include/ygm/impl/mpi.ipp: nlnr, which the visitor queue uses,        *)
(* nrroute, which the edge list tools use, nlroute, and noroute, whose     *)
(* only exchange is among all ranks.                                       *)
(***************************************************************************)
EXTENDS Communicators, FiniteSetsExt

\* Ranks are mapped to nodes in blocks of equal size: init() aborts otherwise
\* on the first node, and leaves the other nodes unchecked (a @todo).
ASSUME ShapeAssumption ==
  /\ Nodes \in Nat \ {0} /\ Cores \in Nat \ {0}
  /\ LocalBits \in Nat /\ 2 ^ LocalBits \in Nat /\ Cores <= 2 ^ LocalBits

-----------------------------------------------------------------------------
(***************************************************************************)
(* mailbox_p2p_nlnr.hpp: a message goes to a rank of its own node, from    *)
(* there to another node, and from there to its core, so that a rank       *)
(* talks to few ranks of other nodes.  Nodes are dealt in layers; core c   *)
(* of a node is the door to the nodes of layer c.                          *)
(***************************************************************************)

Parity(r) == RankIn(Nlnr[r], r) % 2

\* The exchangers that a rank goes through in one do_exchange.
FirstLocal == 1
Remote == 2
SecondLocal == 3

NlnrGroup(stage, r) == IF stage = Remote THEN Nlnr[r] ELSE Nl[r]

NlnrTo(r, stage, i, msg) == Hop(NlnrGroup(stage, r), stage, i, msg)

\* The index of the node of dest in the communicator its message takes.
RemoteIndex(r, dest) ==
  LET layer == Layer(dest)
      group == Node(dest) \div Cores
  IN  IF layer = Layer(r) THEN group
      ELSE IF layer > Layer(r) THEN 2 * group + 1 ELSE 2 * group

\* do_send; message::node holds the index, not the node.
NlnrDoSend(r, dest, data) ==
  LET msg(node) == [bcast |-> FALSE, local |-> Core(dest) % 2 ^ LocalBits,
                    node |-> node, data |-> data]
      remote == RemoteIndex(r, dest)
  IN  IF Node(dest) = Node(r) THEN {NlnrTo(r, SecondLocal, Core(dest), msg(Node(dest)))}
      ELSE IF Core(r) = Layer(dest) THEN {NlnrTo(r, Remote, remote, msg(remote))}
      ELSE {NlnrTo(r, FirstLocal, Layer(dest), msg(remote))}

\* Mutation of BcastRemotes: without the test of the parity.
BcastRemotesToAll(r) == {i \in 0..(Cardinality(Nlnr[r]) - 1) : i # RankIn(Nlnr[r], r)}

\* The members of comm_nlnr to which r hands a broadcast of its node.  On a door
\* to another layer, the members of the own layer are left to another core.
BcastRemotes(r) ==
  {i \in 0..(Cardinality(Nlnr[r]) - 1) :
     i # RankIn(Nlnr[r], r) /\ (Core(r) # Layer(r) => Parity(r) # i % 2)}

\* do_send_bcast
NlnrDoSendBcast(r, data) ==
  LET msg == [bcast |-> TRUE, local |-> 0, node |-> 0, data |-> data]
  IN  {NlnrTo(r, FirstLocal, j, msg) : j \in 0..(Cores - 1) \ {Core(r)}}
        \cup {NlnrTo(r, Remote, i, msg) : i \in BcastRemotes(r)}

\* What the handler of each exchange of do_exchange queues for the next one.
NlnrRelay(stage, r, msg) ==
  CASE stage = FirstLocal /\ msg.bcast   -> {NlnrTo(r, Remote, i, msg) : i \in BcastRemotes(r)}
    [] stage = FirstLocal /\ ~msg.bcast  -> {NlnrTo(r, Remote, msg.node, msg)}
    [] stage = Remote /\ msg.bcast  ->
         {NlnrTo(r, SecondLocal, i, msg) : i \in 0..(Cores - 1) \ {Core(r)}}
    [] stage = Remote /\ ~msg.bcast ->
         IF msg.local = Core(r) THEN {} ELSE {NlnrTo(r, SecondLocal, msg.local, msg)}
    [] stage = SecondLocal -> {}

\* Whether it also hands the message to the receiver of the mailbox.
NlnrIsForMe(stage, r, msg) ==
  stage = SecondLocal \/ msg.bcast \/ (stage = Remote /\ msg.local = Core(r))

-----------------------------------------------------------------------------
(***************************************************************************)
(* nlroute (mailbox_p2p_nlroute.hpp): to the right core of the own node,   *)
(* and from there to the node.  nrroute (mailbox_p2p_nrroute.hpp): to the  *)
(* right node, and from there to the core.  They are one another's mirror  *)
(* image.                                                                  *)
(***************************************************************************)

\* Whether the exchanger of a stage of mailbox k is m_local_exchanger.
Local(k, stage) == (stage = 1) <=> (k = "nlroute")

TwoStageGroup(k, stage, r) == IF Local(k, stage) THEN Nl[r] ELSE Nr[r]

\* The index of r in the communicator of a stage, and that of a message's destination.
At(k, stage, r) == IF Local(k, stage) THEN Core(r) ELSE Node(r)
Goal(k, stage, msg) == IF Local(k, stage) THEN msg.local ELSE msg.node

To(k, r, stage, i, msg) == Hop(TwoStageGroup(k, stage, r), stage, i, msg)

\* do_send
TwoStageDoSend(k, r, dest, data) ==
  LET msg == [bcast |-> FALSE, local |-> Core(dest) % 2 ^ LocalBits,
              node |-> Node(dest), data |-> data]
      stage == IF At(k, 1, dest) = At(k, 1, r) THEN 2 ELSE 1
  IN  {To(k, r, stage, At(k, stage, dest), msg)}

\* Everybody else in the communicator of a stage.
ToOthers(k, r, stage, msg) ==
  {To(k, r, stage, i, msg) : i \in 0..(Cardinality(TwoStageGroup(k, stage, r)) - 1) \ {At(k, stage, r)}}

\* do_send_bcast
TwoStageDoSendBcast(k, r, data) ==
  LET msg == [bcast |-> TRUE, local |-> 0, node |-> 0, data |-> data]
  IN  ToOthers(k, r, 1, msg) \cup ToOthers(k, r, 2, msg)

\* Whether the handler of a stage hands the message to the receiver.
TwoStageIsForMe(stage, r, msg) ==
  stage = 2 \/ msg.bcast \/ (msg.local = Core(r) /\ msg.node = Node(r))

\* What it queues for the next stage.
TwoStageRelay(k, stage, r, msg) ==
  CASE stage = 2 -> {}
    [] stage = 1 /\ msg.bcast -> ToOthers(k, r, 2, msg)
    [] stage = 1 /\ ~msg.bcast ->
         IF TwoStageIsForMe(stage, r, msg) THEN {} ELSE {To(k, r, 2, Goal(k, 2, msg), msg)}

-----------------------------------------------------------------------------
(* The choice between them, and noroute (mailbox_p2p_noroute.hpp).         *)

Kinds == {"nlnr", "nlroute", "nrroute", "noroute"}

\* The exchanges of one do_exchange.
First == 1
Last(k) == CASE k = "nlnr" -> 3 [] k = "noroute" -> 1 [] OTHER -> 2

Group(k, stage, r) ==
  CASE k = "nlnr"    -> NlnrGroup(stage, r)
    [] k = "noroute" -> Rank
    [] OTHER         -> TwoStageGroup(k, stage, r)

\* do_send and do_send_bcast of noroute.
Direct(Dest, bcast, data) ==
  {Hop(Rank, First, d, [bcast |-> bcast, dest |-> d, data |-> data]) : d \in Dest}

DoSend(k, r, dest, data) ==
  CASE k = "nlnr"    -> NlnrDoSend(r, dest, data)
    [] k = "noroute" -> Direct({dest}, FALSE, data)
    [] OTHER         -> TwoStageDoSend(k, r, dest, data)

DoSendBcast(k, r, data) ==
  CASE k = "nlnr"    -> NlnrDoSendBcast(r, data)
    [] k = "noroute" -> Direct(Rank \ {r}, TRUE, data)
    [] OTHER         -> TwoStageDoSendBcast(k, r, data)

\* What the handler of an exchange queues for the next ones, and whether it
\* hands the message to the receiver of the mailbox.
Relay(k, stage, r, msg) ==
  CASE k = "nlnr"    -> NlnrRelay(stage, r, msg)
    [] k = "noroute" -> {}
    [] OTHER         -> TwoStageRelay(k, stage, r, msg)

IsForMe(k, stage, r, msg) ==
  CASE k = "nlnr"    -> NlnrIsForMe(stage, r, msg)
    [] k = "noroute" -> TRUE
    [] OTHER         -> TwoStageIsForMe(stage, r, msg)

\* The extracount of the first exchange: m_send_count, which noroute leaves out.
Extra(k, sendCount) == IF k = "noroute" THEN 0 ELSE sendCount

-----------------------------------------------------------------------------
\* How often q gets a message that is about to make the hop: by this hop, and by
\* those that follow it.
Deliveries(k, hop, q) ==
  LET Here(h) == IF h.to = q /\ IsForMe(k, h.stage, h.to, h.msg) THEN 1 ELSE 0
      Further(F(_), h) == MapThenSumSet(F, Relay(k, h.stage, h.to, h.msg))
      Two(h) == Here(h) + Further(Here, h)
  IN  Here(hop) + Further(Two, hop)
=============================================================================
