---------------------------- MODULE VisitorQueue ----------------------------
(***************************************************************************)
(* The distributed asynchronous visitor queue                              *)
(* (include/havoqgt/visitor_queue.hpp) over the exchange rounds of its     *)
(* mailbox (include/ygm/mailbox_p2p_nlnr.hpp).                             *)
(*                                                                         *)
(* Every rank runs the same traversal loop: it takes its start visitors,   *)
(* drains its local queues, and when they are empty joins a collective     *)
(* exchange; it leaves when an exchange carried nothing.  An exchange is   *)
(* also entered from the middle of a visit, when the mailbox holds a       *)
(* batch.  The graph algorithm (pre_visit, visit, init_visit) and the      *)
(* order of the local queue (a template parameter of the class) are        *)
(* parameters, so what is shown here holds of every algorithm.             *)
(***************************************************************************)
EXTENDS Naturals, Sequences, Bags

CONSTANTS
  Rank,             \* the MPI ranks
  Vertex,           \* the vertices
  Delegate,         \* the hubs: vertices with a copy on every rank
  Master,           \* owner of a low-degree vertex, controller of a delegate
  Payload,          \* what a visitor carries besides its vertex
  AlgData,          \* the values of one rank's algorithm data
  Batch,            \* m_batch_size of the mailbox
  BcastCost,        \* copies do_send_bcast queues on a rank (see MailboxRouting)
  InitialWork,      \* how a traversal may begin, see Init
  PreVisit(_, _, _),  \* (rank, data, visitor): outcomes [ret, data]
  Visit(_, _, _),     \* (rank, data, visitor): outcomes [ret, data, spawn]
  InitVisit(_, _, _)

\* A visitor; bcast is the bit the code keeps inside the vertex locator.
Visitor == [vertex : Vertex, bcast : BOOLEAN, val : Payload]

\* The steps left of the visit that a rank is executing.
Op == [op : {"queue_visitor", "send_bcast"}, visitor : Visitor]

ASSUME TopologyAssumption ==
  /\ Rank # {}
  /\ Delegate \subseteq Vertex
  /\ Master \in [Vertex -> Rank]
  /\ Batch \in Nat \ {0}
  /\ BcastCost \in [Rank -> Nat]
  /\ \A r \in Rank : BcastCost[r] = 0 => Rank = {r}

ASSUME AlgorithmAssumption ==
  \A r \in Rank, a \in AlgData, v \in Visitor :
    /\ PreVisit(r, a, v) \subseteq [ret : BOOLEAN, data : AlgData]
    /\ Visit(r, a, v) \subseteq [ret : BOOLEAN, data : AlgData, spawn : Seq(Visitor)]
    /\ InitVisit(r, a, v) \subseteq [ret : BOOLEAN, data : AlgData, spawn : Seq(Visitor)]

\* citr, vitr: what each rank's controller and vertex iterators still hold;
\* source: visitors queued before the loop; data: the initial algorithm data.
ASSUME InitialWorkAssumption ==
  InitialWork \subseteq [citr : [Rank -> Seq(Visitor)], vitr : [Rank -> Seq(Visitor)],
                         source : [Rank -> Seq(Visitor)], data : [Rank -> AlgData]]

VARIABLES
  pc,          \* where each rank is in init_visitor_traversal
  citr, vitr,  \* start visitors not yet visited
  todo,        \* rest of the visit being executed
  data,        \* algorithm data (one copy of every delegate per rank)
  owned,       \* m_localqueue_owned, a bag
  controllers, \* m_local_controller_queue, a FIFO
  box,         \* box[r][d]: visitors buffered on r for d, a bag
  sendCount,   \* m_send_count of the mailbox
  call,        \* who called do_exchange, "none" outside an exchange
  round,       \* exchanges entered
  posted,      \* posted[r][k % 2]: count r announced in exchange k
  wire         \* wire[d][k % 2]: visitors posted to d in exchange k, a bag

local == <<pc, citr, vitr, todo, data, owned, controllers>>
mailbox == <<box, sendCount, call, round, posted, wire>>
vars == <<pc, citr, vitr, todo, data, owned, controllers,
          box, sendCount, call, round, posted, wire>>

-----------------------------------------------------------------------------
\* A visitor more, or one less, in a bag.
Add(b, v) == b (+) SetToBag({v})
Remove(b, v) == b (-) SetToBag({v})

\* Slot of an exchange: two suffice, since ranks are never two exchanges apart.
Slot(k) == k % 2

\* visitor_queue::empty()
Empty(r) == owned[r] = EmptyBag /\ controllers[r] = <<>>

\* The rank executes its own code: it is not inside do_exchange, nor about to
\* enter it because the last send filled a batch.
Running(r) == call[r] = "none" /\ sendCount[r] < Batch

Idle(r) == Running(r) /\ todo[r] = <<>>

\* Mutation of AllEntered: the exchange waits for nobody.
AllEnteredAtOnce(r) == TRUE

\* Every rank has entered the exchange r is in.
AllEntered(r) == \A q \in Rank : round[q] >= round[r]

\* Mutation of TotalIsZero: a rank looks at its own count only.
TotalIsZeroLocally(r) == posted[r][Slot(round[r])] = 0

\* do_exchange() == 0 on r.
TotalIsZero(r) == \A q \in Rank : posted[q][Slot(round[r])] = 0

\* A list of visitors as calls of queue_visitor.
Queue(vs) == [i \in 1..Len(vs) |-> [op |-> "queue_visitor", visitor |-> vs[i]]]

\* do_visit: the visit, then a broadcast when it returned true on the master.
VisitOps(r, v, out) ==
  Queue(out.spawn) \o
    IF out.ret /\ v.vertex \in Delegate /\ Master[v.vertex] = r
    THEN << [op |-> "send_bcast", visitor |-> [v EXCEPT !.bcast = TRUE]] >>
    ELSE << >>

-----------------------------------------------------------------------------
Init ==
  /\ \E w \in InitialWork :
       /\ citr = w.citr
       /\ vitr = w.vitr
       /\ todo = [r \in Rank |-> Queue(w.source[r])]
       /\ data = w.data
  /\ pc = [r \in Rank |-> "controllers"]
  /\ owned = [r \in Rank |-> EmptyBag]
  /\ controllers = [r \in Rank |-> << >>]
  /\ box = [r \in Rank |-> [d \in Rank |-> EmptyBag]]
  /\ sendCount = [r \in Rank |-> 0]
  /\ call = [r \in Rank |-> "none"]
  /\ round = [r \in Rank |-> 0]
  /\ posted = [r \in Rank |-> [p \in 0..1 |-> 0]]
  /\ wire = [r \in Rank |-> [p \in 0..1 |-> EmptyBag]]

-----------------------------------------------------------------------------
(* The traversal loop.                                                     *)

\* do_init_visit of the next start visitor of one iterator, if it has one.
StartVisit(r, itr, next) ==
  /\ pc' = [pc EXCEPT ![r] = next]
  /\ IF itr = << >> THEN UNCHANGED <<todo, data>>
     ELSE \E out \in InitVisit(r, data[r], Head(itr)) :
            /\ data' = [data EXCEPT ![r] = out.data]
            /\ todo' = [todo EXCEPT ![r] = VisitOps(r, Head(itr), out)]
  /\ UNCHANGED <<owned, controllers, mailbox>>

StartController(r) ==
  /\ Idle(r) /\ pc[r] = "controllers"
  /\ citr' = [citr EXCEPT ![r] = IF @ = << >> THEN @ ELSE Tail(@)]
  /\ StartVisit(r, citr[r], "vertices")
  /\ UNCHANGED vitr

StartVertex(r) ==
  /\ Idle(r) /\ pc[r] = "vertices"
  /\ vitr' = [vitr EXCEPT ![r] = IF @ = << >> THEN @ ELSE Tail(@)]
  /\ StartVisit(r, vitr[r], "pending")
  /\ UNCHANGED citr

\* Mutation of ProcessPendingController: what the visit queues for its own hub
\* keeps the bcast bit of the locator it was copied from.
ProcessPendingWithBit(r) ==
  /\ Idle(r) /\ pc[r] \in {"pending", "drain"}
  /\ controllers[r] # << >>
  /\ controllers' = [controllers EXCEPT ![r] = Tail(@)]
  /\ \E out \in Visit(r, data[r], Head(controllers[r])) :
       LET Copied(w) == [w EXCEPT !.bcast = w.vertex = Head(controllers[r]).vertex]
       IN  /\ data' = [data EXCEPT ![r] = out.data]
           /\ todo' = [todo EXCEPT ![r] = Queue([i \in DOMAIN out.spawn |-> Copied(out.spawn[i])])]
  /\ UNCHANGED <<pc, citr, vitr, owned, mailbox>>

\* One turn of the loop of process_pending_controllers: the visit of a
\* broadcast visitor; its result is ignored.
ProcessPendingController(r) ==
  /\ Idle(r) /\ pc[r] \in {"pending", "drain"}
  /\ controllers[r] # << >>
  /\ controllers' = [controllers EXCEPT ![r] = Tail(@)]
  /\ \E out \in Visit(r, data[r], Head(controllers[r])) :
       /\ data' = [data EXCEPT ![r] = out.data]
       /\ todo' = [todo EXCEPT ![r] = Queue(out.spawn)]
  /\ UNCHANGED <<pc, citr, vitr, owned, mailbox>>

\* process_pending_controllers has returned: test while (!empty()).
EndPending(r) ==
  /\ Idle(r) /\ pc[r] = "pending" /\ controllers[r] = << >>
  /\ pc' = [pc EXCEPT ![r] = "while"]
  /\ UNCHANGED <<citr, vitr, todo, data, owned, controllers, mailbox>>

WhileNotEmpty(r) ==
  /\ Idle(r) /\ pc[r] = "while" /\ ~Empty(r)
  /\ pc' = [pc EXCEPT ![r] = "drain"]
  /\ UNCHANGED <<citr, vitr, todo, data, owned, controllers, mailbox>>

\* pop_top and do_visit.
PopAndVisit(r) ==
  /\ Idle(r) /\ pc[r] = "drain" /\ controllers[r] = << >>
  /\ \E v \in BagToSet(owned[r]) :
       /\ owned' = [owned EXCEPT ![r] = Remove(@, v)]
       /\ \E out \in Visit(r, data[r], v) :
            /\ data' = [data EXCEPT ![r] = out.data]
            /\ todo' = [todo EXCEPT ![r] = VisitOps(r, v, out)]
  /\ pc' = [pc EXCEPT ![r] = "while"]
  /\ UNCHANGED <<citr, vitr, controllers, mailbox>>

\* pop_top finds the local queue empty: its assertion fails.
PopOfEmptyQueue(r) ==
  /\ Idle(r) /\ pc[r] = "drain" /\ controllers[r] = << >>
  /\ owned[r] = EmptyBag
  /\ pc' = [pc EXCEPT ![r] = "aborted"]
  /\ UNCHANGED <<citr, vitr, todo, data, owned, controllers, mailbox>>

\* The local queues are empty but start visitors remain: next turn of the loop.
NextStart(r) ==
  /\ Idle(r) /\ pc[r] = "while" /\ Empty(r)
  /\ citr[r] # << >> \/ vitr[r] # << >>
  /\ pc' = [pc EXCEPT ![r] = "controllers"]
  /\ UNCHANGED <<citr, vitr, todo, data, owned, controllers, mailbox>>

-----------------------------------------------------------------------------
(* The calls a visit makes.                                                *)

Performing(r, op) ==
  /\ Running(r) /\ todo[r] # << >>
  /\ Head(todo[r]).op = op
  /\ todo' = [todo EXCEPT ![r] = Tail(@)]

\* push: the visitor enters the local queue.
Push(r, v) == owned' = [owned EXCEPT ![r] = Add(@, v)]

\* Mutation of Send: the visitor is not counted.
SendUncounted(r, d, v) ==
  /\ box' = [box EXCEPT ![r][d] = Add(@, v)]
  /\ UNCHANGED sendCount

\* m_p_mailbox->send: one more visitor in the buffer for d.
Send(r, d, v) ==
  /\ box' = [box EXCEPT ![r][d] = Add(@, v)]
  /\ sendCount' = [sendCount EXCEPT ![r] = @ + 1]

\* Mutation of QueueHere: a replica keeps what passes its pre_visit to itself.
QueueHereOnly(r, v) ==
  /\ \E out \in PreVisit(r, data[r], v) :
       /\ data' = [data EXCEPT ![r] = out.data]
       /\ IF out.ret /\ Master[v.vertex] = r THEN Push(r, v) ELSE UNCHANGED owned
  /\ UNCHANGED <<box, sendCount>>

\* Mutation of QueueHere: a replica passes a visitor on without its pre_visit.
QueueHereUnasked(r, v) ==
  IF Master[v.vertex] # r THEN Send(r, Master[v.vertex], v) /\ UNCHANGED <<data, owned>>
  ELSE /\ \E out \in PreVisit(r, data[r], v) :
            /\ data' = [data EXCEPT ![r] = out.data]
            /\ IF out.ret THEN Push(r, v) ELSE UNCHANGED owned
       /\ UNCHANGED <<box, sendCount>>

\* queue_visitor of a vertex owned here, or local_delegate_visit: pre_visit
\* decides; a delegate's visitor goes on to the rank that controls it.
QueueHere(r, v) ==
  \E out \in PreVisit(r, data[r], v) :
    /\ data' = [data EXCEPT ![r] = out.data]
    /\ \/ /\ ~out.ret
          /\ UNCHANGED <<owned, box, sendCount>>
       \/ /\ out.ret /\ Master[v.vertex] = r
          /\ Push(r, v)
          /\ UNCHANGED <<box, sendCount>>
       \/ /\ out.ret /\ Master[v.vertex] # r
          /\ Send(r, Master[v.vertex], v)
          /\ UNCHANGED owned

QueueVisitor(r) ==
  /\ Performing(r, "queue_visitor")
  /\ LET v == Head(todo[r]).visitor
     IN  IF v.vertex \in Delegate \/ Master[v.vertex] = r
         THEN QueueHere(r, v)
         ELSE Send(r, Master[v.vertex], v) /\ UNCHANGED <<data, owned>>
  /\ UNCHANGED <<pc, citr, vitr, controllers, call, round, posted, wire>>

\* Mutation of SendBcast: the copies are not counted.
SendBcastUncounted(r) ==
  /\ Performing(r, "send_bcast")
  /\ LET v == Head(todo[r]).visitor
     IN  box' = [box EXCEPT ![r] =
                   [d \in Rank |-> IF d = r THEN @[d] ELSE Add(@[d], v)]]
  /\ UNCHANGED <<pc, citr, vitr, data, owned, controllers, sendCount,
                 call, round, posted, wire>>

\* m_p_mailbox->send_bcast: a copy for every other rank.
SendBcast(r) ==
  /\ Performing(r, "send_bcast")
  /\ LET v == Head(todo[r]).visitor
     IN  box' = [box EXCEPT ![r] =
                   [d \in Rank |-> IF d = r THEN @[d] ELSE Add(@[d], v)]]
  /\ sendCount' = [sendCount EXCEPT ![r] = @ + BcastCost[r]]
  /\ UNCHANGED <<pc, citr, vitr, data, owned, controllers, call, round, posted, wire>>

-----------------------------------------------------------------------------
(* The exchange of the mailbox, do_exchange.                               *)

\* do_exchange is entered: the counts and the buffers go out.  The code resets
\* m_send_count on the way out; nothing is sent in between, because
\* handle_mailbox_receive only runs pre_visit and pushes.
EnterExchange(r, why) ==
  LET k == round[r] + 1
  IN  /\ call' = [call EXCEPT ![r] = why]
      /\ round' = [round EXCEPT ![r] = k]
      /\ posted' = [posted EXCEPT ![r][Slot(k)] = sendCount[r]]
      /\ wire' = [d \in Rank |-> [wire[d] EXCEPT ![Slot(k)] = @ (+) box[r][d]]]
      /\ box' = [box EXCEPT ![r] = [d \in Rank |-> EmptyBag]]
      /\ sendCount' = [sendCount EXCEPT ![r] = 0]
      /\ UNCHANGED local

\* A send filled the batch.
BatchFull(r) ==
  /\ call[r] = "none" /\ sendCount[r] >= Batch
  /\ EnterExchange(r, "batch")

\* The loop has nothing left and asks global_empty().
TestGlobalEmpty(r) ==
  /\ Idle(r) /\ pc[r] = "while" /\ Empty(r)
  /\ citr[r] = << >> /\ vitr[r] = << >>
  /\ EnterExchange(r, "global_empty")

\* The destructor of the mailbox: wait_empty().
DestroyMailbox(r) ==
  /\ Idle(r) /\ pc[r] = "left"
  /\ EnterExchange(r, "wait_empty")

\* handle_mailbox_receive of one visitor.  The master's own broadcast is
\* ignored; a replica keeps it for process_pending_controllers; anything else
\* passes pre_visit and is queued.
HandleMailboxReceive(r, v) ==
  IF v.vertex \in Delegate /\ v.bcast
  THEN /\ controllers' = [controllers EXCEPT ![r] =
                            IF Master[v.vertex] = r THEN @ ELSE Append(@, v)]
       /\ UNCHANGED <<data, owned>>
  ELSE /\ \E out \in PreVisit(r, data[r], v) :
            /\ data' = [data EXCEPT ![r] = out.data]
            /\ IF out.ret THEN Push(r, v) ELSE UNCHANGED owned
       /\ UNCHANGED controllers

\* A visitor arrives as soon as both ends are in the exchange; other ranks may
\* not have entered it yet.
Deliver(r) ==
  /\ call[r] # "none"
  /\ \E v \in BagToSet(wire[r][Slot(round[r])]) :
       /\ wire' = [wire EXCEPT ![r][Slot(round[r])] = Remove(@, v)]
       /\ HandleMailboxReceive(r, v)
  /\ UNCHANGED <<pc, citr, vitr, todo, box, sendCount, call, round, posted>>

\* Mutation of Return: a rank leaves on its own count.
ReturnOnOwnCount(r) ==
  CASE call[r] = "batch"        -> pc[r]
    [] call[r] = "global_empty" -> IF TotalIsZeroLocally(r) THEN "left" ELSE "controllers"
    [] call[r] = "wait_empty"   -> IF TotalIsZeroLocally(r) THEN "gone" ELSE "left"

\* Where the caller of do_exchange goes on.
Return(r) ==
  CASE call[r] = "batch"        -> pc[r]
    [] call[r] = "global_empty" -> IF TotalIsZero(r) THEN "left" ELSE "controllers"
    [] call[r] = "wait_empty"   -> IF TotalIsZero(r) THEN "gone" ELSE "left"

\* Mutation of FinishExchange: m_send_count is taken off once more on the way out.
FinishExchangeTwice(r) ==
  /\ call[r] # "none" /\ AllEntered(r)
  /\ wire[r][Slot(round[r])] = EmptyBag
  /\ pc' = [pc EXCEPT ![r] = Return(r)]
  /\ call' = [call EXCEPT ![r] = "none"]
  /\ sendCount' = [sendCount EXCEPT ![r] = @ - posted[r][Slot(round[r])]]
  /\ UNCHANGED <<citr, vitr, todo, data, owned, controllers,
                 box, round, posted, wire>>

\* Mutation of FinishExchange: what has not arrived yet is left behind.
FinishExchangeEarly(r) ==
  /\ call[r] # "none" /\ AllEntered(r)
  /\ pc' = [pc EXCEPT ![r] = Return(r)]
  /\ call' = [call EXCEPT ![r] = "none"]
  /\ UNCHANGED <<citr, vitr, todo, data, owned, controllers,
                 box, sendCount, round, posted, wire>>

FinishExchange(r) ==
  /\ call[r] # "none" /\ AllEntered(r)
  /\ wire[r][Slot(round[r])] = EmptyBag
  /\ pc' = [pc EXCEPT ![r] = Return(r)]
  /\ call' = [call EXCEPT ![r] = "none"]
  /\ UNCHANGED <<citr, vitr, todo, data, owned, controllers,
                 box, sendCount, round, posted, wire>>

-----------------------------------------------------------------------------
Step(r) ==
  \/ StartController(r)
  \/ StartVertex(r)
  \/ ProcessPendingController(r)
  \/ EndPending(r)
  \/ WhileNotEmpty(r)
  \/ PopAndVisit(r)
  \/ PopOfEmptyQueue(r)
  \/ NextStart(r)
  \/ QueueVisitor(r)
  \/ SendBcast(r)
  \/ BatchFull(r)
  \/ TestGlobalEmpty(r)
  \/ DestroyMailbox(r)
  \/ Deliver(r)
  \/ FinishExchange(r)

\* A failed assertion ends the whole MPI job.
Aborted == \E r \in Rank : pc[r] = "aborted"

\* Every rank has destroyed its queue, or the job is dead.
Done ==
  /\ Aborted \/ \A r \in Rank : pc[r] = "gone"
  /\ UNCHANGED vars

Next == (~Aborted /\ \E r \in Rank : Step(r)) \/ Done

Spec == Init /\ [][Next]_vars

\* Every rank is a process that keeps running; MPI makes progress.
FairSpec == Spec /\ \A r \in Rank : WF_vars(~Aborted /\ Step(r))

-----------------------------------------------------------------------------
VisitorBag(b) == IsABag(b) /\ BagToSet(b) \subseteq Visitor

TypeOK ==
  /\ pc \in [Rank -> {"controllers", "vertices", "pending", "while", "drain",
                      "left", "gone", "aborted"}]
  /\ citr \in [Rank -> Seq(Visitor)]
  /\ vitr \in [Rank -> Seq(Visitor)]
  /\ todo \in [Rank -> Seq(Op)]
  /\ data \in [Rank -> AlgData]
  /\ DOMAIN owned = Rank
  /\ \A r \in Rank : VisitorBag(owned[r])
  /\ controllers \in [Rank -> Seq(Visitor)]
  /\ DOMAIN box = Rank
  /\ \A r \in Rank : DOMAIN box[r] = Rank /\ \A d \in Rank : VisitorBag(box[r][d])
  /\ sendCount \in [Rank -> Nat]
  /\ call \in [Rank -> {"none", "batch", "global_empty", "wait_empty"}]
  /\ round \in [Rank -> Nat]
  /\ posted \in [Rank -> [0..1 -> Nat]]
  /\ DOMAIN wire = Rank
  /\ \A d \in Rank : DOMAIN wire[d] = 0..1 /\ \A p \in 0..1 : VisitorBag(wire[d][p])

\* No visitor anywhere: not at a start iterator, in a queue, in a running
\* visit, in a buffer or on its way.
QuiescentAt(r) ==
  /\ citr[r] = << >> /\ vitr[r] = << >> /\ todo[r] = << >>
  /\ Empty(r)
  /\ \A d \in Rank : box[r][d] = EmptyBag
  /\ \A p \in 0..1 : wire[r][p] = EmptyBag

Quiescent == \A r \in Rank : QuiescentAt(r)

HasLeft(r) == pc[r] \in {"left", "gone"}

\* A rank leaves the traversal only when no visitor is left on any rank, in any
\* buffer or on the way: what global_empty() answers one rank is true of all.
LeaveOnlyWhenQuiescent == (\E r \in Rank : HasLeft(r)) => Quiescent

\* A rank still in the loop while another has left is inside the very test
\* that will let it leave too; nobody is stranded in an exchange the others
\* will not join (do_exchange is collective).
LeaveTogether ==
  \A r, q \in Rank :
    HasLeft(r) /\ ~HasLeft(q) =>
      /\ call[q] = "global_empty"
      /\ TotalIsZero(q)
      /\ round[q] = IF call[r] = "none" THEN round[r] ELSE round[r] - 1

\* The two slots of the exchange buffers suffice: a rank enters an exchange
\* only when every rank has entered the one before, and what was posted two
\* exchanges ago has been consumed.
LockStep ==
  \A r, q \in Rank :
    /\ round[q] <= round[r] + 1
    /\ call[r] = "none" => /\ round[q] >= round[r]
                           /\ wire[r][Slot(round[r])] = EmptyBag

\* What a rank computed is final once it has left the traversal: no late
\* visitor changes its algorithm data (the callers read it right away).
ResultIsFinal == [][\A r \in Rank : HasLeft(r) => data'[r] = data[r]]_vars

\* The asserts of handle_mailbox_receive: a visitor that is not a broadcast
\* only ever travels to the owner or controller of its vertex.
SentToMaster ==
  \A d \in Rank, p \in 0..1 : \A v \in BagToSet(wire[d][p]) :
    ~(v.vertex \in Delegate /\ v.bcast) => Master[v.vertex] = d

\* No visitor is lost on its arrival: handle_mailbox_receive drops a visitor of a
\* hub that reaches the hub's controller with the bcast bit set, so none may.
\* The bit lives in the locator, which visits copy; and a broadcast, unlike what
\* the comment there says, does not return to its sender.
NothingDropped ==
  \A d \in Rank, p \in 0..1 : \A v \in BagToSet(wire[d][p]) :
    v.vertex \in Delegate /\ v.bcast => Master[v.vertex] # d

\* What comes to a rank has come to the right one: handle_mailbox_receive neither
\* fails an assert nor drops it.
ArrivesRight == SentToMaster /\ NothingDropped

\* The assert of pop_top: there is a visitor to pop.
PopFindsVisitor == \A r \in Rank : pc[r] # "aborted"

\* Every traversal whose algorithm stops sending visitors ends on every rank.
EveryRankEnds == <>(Aborted \/ \A r \in Rank : pc[r] = "gone")

\* The guarantee of the developer guide: see TraversalContract.
Contract == INSTANCE TraversalContract WITH
              busy <- ~Quiescent,
              left <- {r \in Rank : HasLeft(r)}

ImplementsContract == Contract!Spec

\* The exchanges among the ranks keep the contract that the mailbox below
\* implements (Mailbox, and CommExchanger under it).
Exchange == INSTANCE CollectiveExchange WITH
  Member <- Rank,
  answer <- [r \in Rank |-> IF call[r] # "none" THEN "none"
                            ELSE IF TotalIsZero(r) THEN "empty" ELSE "some"],
  carries <- [r \in Rank |-> {p \in 0..1 : posted[r][p] > 0}]

KeepsExchange == Exchange!Spec

-----------------------------------------------------------------------------
(* Why the count of an exchange may be believed: the inductive invariant.  *)

\* A rank that has entered exchange k announced something in it.
Announced(k) == \E s \in Rank : round[s] >= k /\ posted[s][Slot(k)] > 0

\* The rank is done with exchange k.
Passed(s, k) == round[s] > k \/ (round[s] = k /\ call[s] = "none")

\* The exchange that let r leave the traversal.
LeftAt(r) == IF pc[r] = "left" /\ call[r] = "none" THEN round[r] ELSE round[r] - 1

\* Buffered visitors have been counted.
BuffersAreCounted ==
  \A r \in Rank : sendCount[r] = 0 => \A d \in Rank : box[r][d] = EmptyBag

\* Visitors on their way have been announced.
WireIsAnnounced ==
  \A d \in Rank :
    /\ call[d] # "none" /\ wire[d][Slot(round[d])] # EmptyBag => Announced(round[d])
    /\ wire[d][Slot(round[d] + 1)] # EmptyBag => Announced(round[d] + 1)

\* What a rank inside do_exchange has: no visitor of its own, unless the
\* exchange carries some.
InExchange ==
  \A q \in Rank : call[q] # "none" =>
    /\ sendCount[q] = 0
    /\ call[q] = "batch" => posted[q][Slot(round[q])] > 0
    /\ call[q] = "wait_empty" => pc[q] = "left"
    /\ call[q] = "global_empty" =>
         /\ pc[q] = "while"
         /\ citr[q] = << >> /\ vitr[q] = << >> /\ todo[q] = << >>
         /\ Empty(q) \/ Announced(round[q])

\* A rank that went on after an exchange did so for the same reason the others
\* will: the exchange carried something.
WentOnTogether ==
  \A r, s \in Rank :
    call[r] # "none" /\ Passed(s, round[r]) /\ ~HasLeft(s) => Announced(round[r])

\* Ranks that leave, leave at the same exchange, and nothing is announced in it
\* or after it.
LeftTogether ==
  \A r, q \in Rank : HasLeft(r) =>
    /\ call[r] \in {"none", "wait_empty"}
    /\ IF HasLeft(q) THEN LeftAt(q) = LeftAt(r)
       ELSE call[q] = "global_empty" /\ round[q] = LeftAt(r)
    /\ posted[q][Slot(LeftAt(r))] = 0
    /\ round[q] > LeftAt(r) => posted[q][Slot(round[q])] = 0
    /\ pc[r] = "gone" => round[q] = LeftAt(r) + 1
    /\ sendCount[q] = 0
    /\ QuiescentAt(q)

\* The inductive invariant: together with the count, each rank's view of an
\* exchange determines what every other rank can still do.
IInv ==
  /\ TypeOK
  /\ LockStep
  /\ BuffersAreCounted
  /\ WireIsAnnounced
  /\ InExchange
  /\ WentOnTogether
  /\ LeftTogether
=============================================================================
