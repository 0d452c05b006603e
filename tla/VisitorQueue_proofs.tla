------------------------ MODULE VisitorQueue_proofs ------------------------
(***************************************************************************)
(* Proofs about VisitorQueue, for any number of ranks, any partition of    *)
(* the vertices, any batch size and any algorithm: what its exchanges and  *)
(* its termination guarantee, and what it implements.  Every visitor goes  *)
(* where handle_mailbox_receive asserts that it goes, the exchanges keep   *)
(* the contract of CollectiveExchange, and the traversal is the flow of    *)
(* visitors of VisitorFlow.                                                *)
(***************************************************************************)
EXTENDS VisitorQueue, SequenceTheorems, TLAPS

-----------------------------------------------------------------------------
(* Bags of visitors.                                                       *)

\* The empty bag has no element.
LEMMA EmptyBagFact ==
  /\ VisitorBag(EmptyBag)
  /\ BagToSet(EmptyBag) = {}
BY DEF VisitorBag, IsABag, BagToSet, EmptyBag, SetToBag

\* A bag without elements is the empty bag.
LEMMA NoElement ==
  ASSUME NEW b, IsABag(b), BagToSet(b) = {}
  PROVE  b = EmptyBag
BY DEF IsABag, BagToSet, EmptyBag, SetToBag

\* The union of two bags of visitors is one, and it is empty only if both are.
LEMMA BagSum ==
  ASSUME NEW a, NEW b, VisitorBag(a), VisitorBag(b)
  PROVE  /\ VisitorBag(a (+) b)
         /\ a = EmptyBag /\ b = EmptyBag => a (+) b = EmptyBag
<1>1. VisitorBag(a (+) b)
  BY DEF VisitorBag, IsABag, BagToSet, (+)
<1>2. BagToSet(a (+) b) = BagToSet(a) \cup BagToSet(b)
  BY DEF BagToSet, (+)
<1> QED
  BY <1>1, <1>2, EmptyBagFact, NoElement DEF VisitorBag

\* A visitor more is still a bag of visitors.
LEMMA BagAdd ==
  ASSUME NEW b, VisitorBag(b), NEW v \in Visitor
  PROVE  VisitorBag(Add(b, v))
<1>1. VisitorBag(SetToBag({v}))
  BY DEF VisitorBag, IsABag, BagToSet, SetToBag
<1> QED
  BY <1>1, BagSum DEF Add

\* A visitor less is still a bag of visitors.
LEMMA BagRemove ==
  ASSUME NEW b, VisitorBag(b), NEW v
  PROVE  VisitorBag(Remove(b, v))
<1>1. b (-) SetToBag({v}) = [e \in {d \in DOMAIN b : (IF d = v THEN b[d] - 1 ELSE b[d]) > 0}
                              |-> IF e = v THEN b[e] - 1 ELSE b[e]]
  BY DEF (-), SetToBag
<1> QED
  BY <1>1 DEF Remove, VisitorBag, IsABag, BagToSet

-----------------------------------------------------------------------------
(* Type correctness.                                                       *)

\* What the algorithm's functions return.
LEMMA OutcomeTypes ==
  ASSUME NEW r \in Rank, NEW a \in AlgData, NEW v \in Visitor
  PROVE  /\ \A out \in PreVisit(r, a, v) : out.data \in AlgData
         /\ \A out \in Visit(r, a, v) : out.data \in AlgData /\ out.spawn \in Seq(Visitor)
         /\ \A out \in InitVisit(r, a, v) : out.data \in AlgData /\ out.spawn \in Seq(Visitor)
BY AlgorithmAssumption

\* A list of visitors becomes a list of calls.
LEMMA QueueType ==
  ASSUME NEW vs \in Seq(Visitor)
  PROVE  Queue(vs) \in Seq(Op)
<1>1. Len(vs) \in Nat /\ \A i \in 1..Len(vs) : vs[i] \in Visitor
  OBVIOUS
<1>2. \A i \in 1..Len(vs) : [op |-> "queue_visitor", visitor |-> vs[i]] \in Op
  BY <1>1 DEF Op
<1> QED
  BY <1>1, <1>2 DEF Queue

\* So does a visit.
LEMMA VisitOpsType ==
  ASSUME NEW r, NEW v \in Visitor, NEW out, out.spawn \in Seq(Visitor)
  PROVE  VisitOps(r, v, out) \in Seq(Op)
<1>1. [v EXCEPT !.bcast = TRUE] \in Visitor
  BY DEF Visitor
<1>2. << [op |-> "send_bcast", visitor |-> [v EXCEPT !.bcast = TRUE]] >> \in Seq(Op)
  BY <1>1 DEF Op
<1>3. Queue(out.spawn) \in Seq(Op)
  BY QueueType
<1> QED
  BY <1>2, <1>3 DEF VisitOps

\* The variables of a rank's own code.
LocalType ==
  /\ pc \in [Rank -> {"controllers", "vertices", "pending", "while", "drain",
                      "left", "gone", "aborted"}]
  /\ citr \in [Rank -> Seq(Visitor)]
  /\ vitr \in [Rank -> Seq(Visitor)]
  /\ todo \in [Rank -> Seq(Op)]
  /\ data \in [Rank -> AlgData]
  /\ DOMAIN owned = Rank
  /\ \A r \in Rank : VisitorBag(owned[r])
  /\ controllers \in [Rank -> Seq(Visitor)]

\* The variables of the mailbox.
MailboxType ==
  /\ DOMAIN box = Rank
  /\ \A r \in Rank : DOMAIN box[r] = Rank /\ \A d \in Rank : VisitorBag(box[r][d])
  /\ sendCount \in [Rank -> Nat]
  /\ call \in [Rank -> {"none", "batch", "global_empty", "wait_empty"}]
  /\ round \in [Rank -> Nat]
  /\ posted \in [Rank -> [0..1 -> Nat]]
  /\ DOMAIN wire = Rank
  /\ \A d \in Rank : DOMAIN wire[d] = 0..1 /\ \A p \in 0..1 : VisitorBag(wire[d][p])

\* The two parts are the whole.
LEMMA TypeParts == TypeOK <=> LocalType /\ MailboxType
BY DEF TypeOK, LocalType, MailboxType

\* A start visitor is visited: the loop's variables keep their types.
LEMMA StartVisitType ==
  ASSUME NEW r \in Rank, NEW itr \in Seq(Visitor), NEW next \in {"vertices", "pending"},
         LocalType, StartVisit(r, itr, next)
  PROVE  /\ pc' \in [Rank -> {"controllers", "vertices", "pending", "while", "drain",
                      "left", "gone", "aborted"}]
         /\ todo' \in [Rank -> Seq(Op)]
         /\ data' \in [Rank -> AlgData]
         /\ UNCHANGED <<owned, controllers, mailbox>>
<1>1. CASE itr = << >>
  BY <1>1 DEF StartVisit, LocalType
<1>2. CASE itr # << >>
  <2>1. Head(itr) \in Visitor
    BY <1>2
  <2>2. PICK out \in InitVisit(r, data[r], Head(itr)) :
          /\ data' = [data EXCEPT ![r] = out.data]
          /\ todo' = [todo EXCEPT ![r] = VisitOps(r, Head(itr), out)]
    BY <1>2 DEF StartVisit
  <2>3. data[r] \in AlgData
    BY DEF LocalType
  <2>4. out.data \in AlgData /\ VisitOps(r, Head(itr), out) \in Seq(Op)
    BY <2>1, <2>2, <2>3, OutcomeTypes, VisitOpsType
  <2> QED
    BY <2>2, <2>4 DEF StartVisit, LocalType
<1> QED
  BY <1>1, <1>2

\* One visitor delivered: the queues keep their types.
LEMMA HandleMailboxReceiveType ==
  ASSUME NEW r \in Rank, NEW v \in Visitor, LocalType, HandleMailboxReceive(r, v),
         UNCHANGED <<pc, citr, vitr, todo>>
  PROVE  LocalType'
<1>1. CASE v.vertex \in Delegate /\ v.bcast
  <2> DEFINE rest == IF Master[v.vertex] = r THEN controllers[r] ELSE Append(controllers[r], v)
  <2>1. rest \in Seq(Visitor)
    BY DEF LocalType
  <2>2. controllers' = [controllers EXCEPT ![r] = rest] /\ UNCHANGED <<data, owned>>
    BY <1>1 DEF HandleMailboxReceive
  <2> HIDE DEF rest
  <2> QED
    BY <2>1, <2>2 DEF LocalType
<1>2. CASE ~(v.vertex \in Delegate /\ v.bcast)
  <2>1. PICK out \in PreVisit(r, data[r], v) :
          /\ data' = [data EXCEPT ![r] = out.data]
          /\ IF out.ret THEN Push(r, v) ELSE UNCHANGED owned
    BY <1>2 DEF HandleMailboxReceive
  <2>2. out.data \in AlgData
    BY <2>1, OutcomeTypes DEF LocalType
  <2>3. VisitorBag(Add(owned[r], v))
    BY BagAdd DEF LocalType
  <2>4. DOMAIN owned' = Rank /\ \A q \in Rank : VisitorBag(owned'[q])
    BY <2>1, <2>3 DEF Push, LocalType
  <2> QED
    BY <1>2, <2>1, <2>2, <2>4 DEF HandleMailboxReceive, LocalType
<1> QED
  BY <1>1, <1>2

\* The exchange is entered: the mailbox's variables keep their types.
LEMMA EnterExchangeType ==
  ASSUME NEW r \in Rank, NEW why \in {"batch", "global_empty", "wait_empty"},
         MailboxType, EnterExchange(r, why)
  PROVE  MailboxType'
<1> DEFINE k == round[r] + 1
<1>1. round[r] \in Nat /\ sendCount[r] \in Nat /\ k \in Nat /\ Slot(k) \in 0..1
  BY DEF MailboxType, Slot
<1>2. /\ call' \in [Rank -> {"none", "batch", "global_empty", "wait_empty"}]
      /\ round' \in [Rank -> Nat]
      /\ sendCount' \in [Rank -> Nat]
  BY <1>1 DEF EnterExchange, MailboxType
<1>3. posted' \in [Rank -> [0..1 -> Nat]]
  BY <1>1 DEF EnterExchange, MailboxType
<1>4. /\ DOMAIN box' = Rank
      /\ \A q \in Rank : DOMAIN box'[q] = Rank /\ \A d \in Rank : VisitorBag(box'[q][d])
  BY EmptyBagFact DEF EnterExchange, MailboxType
<1>5. DOMAIN wire' = Rank /\ \A d \in Rank : DOMAIN wire'[d] = 0..1
  BY DEF EnterExchange, MailboxType
<1>6. ASSUME NEW d \in Rank, NEW p \in 0..1
      PROVE  VisitorBag(wire'[d][p])
  <2>1. wire'[d] = [wire[d] EXCEPT ![Slot(k)] = @ (+) box[r][d]]
    BY DEF EnterExchange
  <2>2. VisitorBag(wire[d][Slot(k)] (+) box[r][d])
    BY <1>1, BagSum DEF MailboxType
  <2> HIDE DEF k
  <2> QED
    BY <2>1, <2>2 DEF MailboxType
<1> QED
  BY <1>2, <1>3, <1>4, <1>5, <1>6 DEF MailboxType

\* A call of queue_visitor keeps the types.
LEMMA QueueVisitorType ==
  ASSUME NEW r \in Rank, TypeOK, QueueVisitor(r)
  PROVE  TypeOK'
<1> DEFINE v == Head(todo[r]).visitor
<1>1. /\ todo[r] \in Seq(Op) /\ todo[r] # << >>
      /\ Head(todo[r]) \in Op /\ Tail(todo[r]) \in Seq(Op)
  BY DEF QueueVisitor, Performing, TypeOK
<1>2. v \in Visitor
  BY <1>1 DEF Op
<1>3. Master[v.vertex] \in Rank
  BY <1>2, TopologyAssumption DEF Visitor
<1>4. todo' \in [Rank -> Seq(Op)]
  BY <1>1 DEF QueueVisitor, Performing, TypeOK
<1>5. ASSUME Push(r, v)
      PROVE  DOMAIN owned' = Rank /\ \A q \in Rank : VisitorBag(owned'[q])
  BY <1>2, <1>5, BagAdd DEF Push, TypeOK
<1>6. ASSUME NEW d \in Rank, Send(r, d, v)
      PROVE  /\ DOMAIN box' = Rank
             /\ \A q \in Rank : DOMAIN box'[q] = Rank /\ \A c \in Rank : VisitorBag(box'[q][c])
             /\ sendCount' \in [Rank -> Nat]
  <2>1. VisitorBag(Add(box[r][d], v))
    BY <1>2, BagAdd DEF TypeOK
  <2>2. box' = [box EXCEPT ![r] = [box[r] EXCEPT ![d] = Add(box[r][d], v)]]
    BY <1>6 DEF Send
  <2>3. sendCount' \in [Rank -> Nat]
    <3>1. sendCount \in [Rank -> Nat]
      BY DEF TypeOK
    <3>2. sendCount' = [sendCount EXCEPT ![r] = sendCount[r] + 1]
      BY <1>6 DEF Send
    <3> QED
      BY <3>1, <3>2
  <2>4. DOMAIN box' = Rank /\ \A q \in Rank : DOMAIN box'[q] = Rank
    BY <2>2 DEF TypeOK
  <2>5. ASSUME NEW q \in Rank, NEW c \in Rank
        PROVE  VisitorBag(box'[q][c])
    BY <2>1, <2>2 DEF TypeOK
  <2> QED
    BY <2>3, <2>4, <2>5
<1>7. UNCHANGED <<pc, citr, vitr, controllers, call, round, posted, wire>>
  BY DEF QueueVisitor
<1>8. CASE v.vertex \in Delegate \/ Master[v.vertex] = r
  <2>1. QueueHere(r, v)
    BY <1>8 DEF QueueVisitor
  <2>2. PICK out \in PreVisit(r, data[r], v) :
          /\ data' = [data EXCEPT ![r] = out.data]
          /\ \/ UNCHANGED <<owned, box, sendCount>>
             \/ Push(r, v) /\ UNCHANGED <<box, sendCount>>
             \/ Send(r, Master[v.vertex], v) /\ UNCHANGED owned
    BY <2>1 DEF QueueHere
  <2>3. data' \in [Rank -> AlgData]
    BY <1>2, <2>2, OutcomeTypes DEF TypeOK
  <2> HIDE DEF v
  <2>4. CASE UNCHANGED <<owned, box, sendCount>>
    BY <1>4, <1>7, <2>3, <2>4 DEF TypeOK
  <2>5. CASE Push(r, v) /\ UNCHANGED <<box, sendCount>>
    BY <1>4, <1>5, <1>7, <2>3, <2>5 DEF TypeOK
  <2>6. CASE Send(r, Master[v.vertex], v) /\ UNCHANGED owned
    BY <1>3, <1>4, <1>6, <1>7, <2>3, <2>6 DEF TypeOK
  <2> QED
    BY <2>2, <2>4, <2>5, <2>6
<1>9. CASE ~(v.vertex \in Delegate \/ Master[v.vertex] = r)
  <2>1. Send(r, Master[v.vertex], v) /\ UNCHANGED <<data, owned>>
    BY <1>9 DEF QueueVisitor
  <2> HIDE DEF v
  <2> QED
    BY <1>3, <1>4, <1>6, <1>7, <2>1 DEF TypeOK
<1> QED
  BY <1>8, <1>9

\* So does a call of send_bcast.
LEMMA SendBcastType ==
  ASSUME NEW r \in Rank, TypeOK, SendBcast(r)
  PROVE  TypeOK'
<1> DEFINE v == Head(todo[r]).visitor
<1>1. /\ todo[r] \in Seq(Op) /\ todo[r] # << >>
      /\ Head(todo[r]) \in Op /\ Tail(todo[r]) \in Seq(Op)
  BY DEF SendBcast, Performing, TypeOK
<1>2. v \in Visitor
  BY <1>1 DEF Op
<1>3. todo' \in [Rank -> Seq(Op)]
  BY <1>1 DEF SendBcast, Performing, TypeOK
<1>4. sendCount' \in [Rank -> Nat]
  <2>1. BcastCost[r] \in Nat /\ sendCount[r] \in Nat
    BY TopologyAssumption DEF TypeOK
  <2>2. sendCount' = [sendCount EXCEPT ![r] = sendCount[r] + BcastCost[r]]
    BY DEF SendBcast
  <2> QED
    BY <2>1, <2>2 DEF TypeOK
<1>5. box' = [box EXCEPT ![r] = [d \in Rank |-> IF d = r THEN box[r][d] ELSE Add(box[r][d], v)]]
  BY DEF SendBcast
<1>6. \A d \in Rank : VisitorBag(Add(box[r][d], v))
  BY <1>2, BagAdd DEF TypeOK
<1>7. UNCHANGED <<pc, citr, vitr, data, owned, controllers, call, round, posted, wire>>
  BY DEF SendBcast
<1> HIDE DEF v
<1>8. /\ DOMAIN box' = Rank
      /\ \A q \in Rank : DOMAIN box'[q] = Rank /\ \A c \in Rank : VisitorBag(box'[q][c])
  BY <1>5, <1>6 DEF TypeOK
<1> QED
  BY <1>3, <1>4, <1>7, <1>8 DEF TypeOK

\* The initial states are well typed.
LEMMA InitType ==
  ASSUME Init
  PROVE  TypeOK
<1>1. PICK w \in InitialWork :
        /\ citr = w.citr /\ vitr = w.vitr
        /\ todo = [r \in Rank |-> Queue(w.source[r])]
        /\ data = w.data
  BY DEF Init
<1>2. /\ w.citr \in [Rank -> Seq(Visitor)] /\ w.vitr \in [Rank -> Seq(Visitor)]
      /\ w.source \in [Rank -> Seq(Visitor)] /\ w.data \in [Rank -> AlgData]
  BY InitialWorkAssumption
<1>3. todo \in [Rank -> Seq(Op)]
  BY <1>1, <1>2, QueueType
<1>4. \A S : << >> \in Seq(S)
  OBVIOUS
<1> QED
  BY <1>1, <1>2, <1>3, <1>4, EmptyBagFact DEF Init, TypeOK

\* Every step of a rank keeps the types.
LEMMA StepType ==
  ASSUME NEW r \in Rank, TypeOK, Step(r)
  PROVE  TypeOK'
<1>a. LocalType /\ MailboxType
  BY TypeParts
<1>b. LocalType' /\ MailboxType' => TypeOK'
  BY DEF TypeOK, LocalType, MailboxType
<1> USE <1>a, <1>b
<1>1. CASE StartController(r)
  <2>1. StartVisit(r, citr[r], "vertices") /\ citr[r] \in Seq(Visitor)
    BY <1>1 DEF StartController, LocalType
  <2>2. citr' \in [Rank -> Seq(Visitor)]
    BY <1>1 DEF StartController, LocalType
  <2>3. vitr' = vitr
    BY <1>1 DEF StartController
  <2> QED
    BY <2>1, <2>2, <2>3, StartVisitType DEF LocalType, MailboxType, mailbox
<1>2. CASE StartVertex(r)
  <2>1. StartVisit(r, vitr[r], "pending") /\ vitr[r] \in Seq(Visitor)
    BY <1>2 DEF StartVertex, LocalType
  <2>2. vitr' \in [Rank -> Seq(Visitor)]
    BY <1>2 DEF StartVertex, LocalType
  <2>3. citr' = citr
    BY <1>2 DEF StartVertex
  <2> QED
    BY <2>1, <2>2, <2>3, StartVisitType DEF LocalType, MailboxType, mailbox
<1>3. CASE ProcessPendingController(r)
  <2>1. /\ controllers[r] \in Seq(Visitor) /\ data[r] \in AlgData
        /\ Head(controllers[r]) \in Visitor /\ Tail(controllers[r]) \in Seq(Visitor)
    BY <1>3 DEF ProcessPendingController, LocalType
  <2>2. PICK out \in Visit(r, data[r], Head(controllers[r])) :
          /\ data' = [data EXCEPT ![r] = out.data]
          /\ todo' = [todo EXCEPT ![r] = Queue(out.spawn)]
    BY <1>3 DEF ProcessPendingController
  <2>3. out.data \in AlgData /\ Queue(out.spawn) \in Seq(Op)
    BY <2>1, <2>2, OutcomeTypes, QueueType
  <2>4. /\ controllers' = [controllers EXCEPT ![r] = Tail(controllers[r])]
        /\ UNCHANGED <<pc, citr, vitr, owned, mailbox>>
    BY <1>3 DEF ProcessPendingController
  <2>5. MailboxType'
    BY <2>4 DEF MailboxType, mailbox
  <2>6. data' \in [Rank -> AlgData] /\ todo' \in [Rank -> Seq(Op)]
    BY <2>2, <2>3 DEF LocalType
  <2>7. controllers' \in [Rank -> Seq(Visitor)]
    BY <2>1, <2>4 DEF LocalType
  <2> QED
    BY <2>4, <2>5, <2>6, <2>7 DEF LocalType
<1>4. CASE EndPending(r) \/ WhileNotEmpty(r) \/ PopOfEmptyQueue(r) \/ NextStart(r)
  BY <1>4 DEF EndPending, WhileNotEmpty, PopOfEmptyQueue, NextStart, LocalType, MailboxType, mailbox
<1>5. CASE PopAndVisit(r)
  <2>1. PICK v \in BagToSet(owned[r]) :
          /\ owned' = [owned EXCEPT ![r] = Remove(@, v)]
          /\ \E out \in Visit(r, data[r], v) :
               /\ data' = [data EXCEPT ![r] = out.data]
               /\ todo' = [todo EXCEPT ![r] = VisitOps(r, v, out)]
    BY <1>5 DEF PopAndVisit
  <2>2. v \in Visitor /\ data[r] \in AlgData
    BY <2>1 DEF LocalType, VisitorBag
  <2>3. PICK out \in Visit(r, data[r], v) :
          /\ data' = [data EXCEPT ![r] = out.data]
          /\ todo' = [todo EXCEPT ![r] = VisitOps(r, v, out)]
    BY <2>1
  <2>4. out.data \in AlgData /\ VisitOps(r, v, out) \in Seq(Op)
    BY <2>2, <2>3, OutcomeTypes, VisitOpsType
  <2>5. VisitorBag(Remove(owned[r], v))
    BY BagRemove DEF LocalType
  <2>6. pc' = [pc EXCEPT ![r] = "while"] /\ UNCHANGED <<citr, vitr, controllers, mailbox>>
    BY <1>5 DEF PopAndVisit
  <2>7. MailboxType'
    BY <2>6 DEF MailboxType, mailbox
  <2>8. DOMAIN owned' = Rank /\ \A q \in Rank : VisitorBag(owned'[q])
    BY <2>1, <2>5 DEF LocalType
  <2> QED
    BY <2>3, <2>4, <2>6, <2>7, <2>8 DEF LocalType
<1>6. CASE QueueVisitor(r)
  BY <1>6, QueueVisitorType
<1>7. CASE SendBcast(r)
  BY <1>7, SendBcastType
<1>8. CASE BatchFull(r) \/ TestGlobalEmpty(r) \/ DestroyMailbox(r)
  <2>1. PICK why \in {"batch", "global_empty", "wait_empty"} : EnterExchange(r, why)
    BY <1>8 DEF BatchFull, TestGlobalEmpty, DestroyMailbox
  <2>2. MailboxType'
    BY <2>1, EnterExchangeType
  <2>3. UNCHANGED local
    BY <2>1 DEF EnterExchange
  <2> QED
    BY <2>2, <2>3 DEF LocalType, local
<1>9. CASE Deliver(r)
  <2> DEFINE k == Slot(round[r])
  <2>1. PICK v \in BagToSet(wire[r][k]) :
          /\ wire' = [wire EXCEPT ![r][k] = Remove(@, v)]
          /\ HandleMailboxReceive(r, v)
    BY <1>9 DEF Deliver
  <2>2. k \in 0..1
    <3>1. round[r] \in Nat
      BY DEF MailboxType
    <3> QED
      BY <3>1 DEF Slot
  <2>3. v \in Visitor /\ VisitorBag(Remove(wire[r][k], v))
    BY <2>1, <2>2, BagRemove DEF MailboxType, VisitorBag
  <2>4. UNCHANGED <<pc, citr, vitr, todo, box, sendCount, call, round, posted>>
    BY <1>9 DEF Deliver
  <2>5. LocalType'
    BY <2>1, <2>3, <2>4, HandleMailboxReceiveType
  <2>6. wire' = [wire EXCEPT ![r] = [wire[r] EXCEPT ![k] = Remove(wire[r][k], v)]]
    BY <2>1
  <2> HIDE DEF k
  <2>7. DOMAIN wire' = Rank /\ \A d \in Rank : DOMAIN wire'[d] = 0..1
    BY <2>6 DEF MailboxType
  <2>8. ASSUME NEW d \in Rank, NEW p \in 0..1
        PROVE  VisitorBag(wire'[d][p])
    BY <2>2, <2>3, <2>6 DEF MailboxType
  <2> QED
    BY <2>4, <2>5, <2>7, <2>8 DEF MailboxType
<1>10. CASE FinishExchange(r)
  <2>1. call[r] \in {"batch", "global_empty", "wait_empty"}
    BY <1>10 DEF FinishExchange, MailboxType
  <2>2. Return(r) \in {"controllers", "vertices", "pending", "while", "drain",
                       "left", "gone", "aborted"}
    BY <2>1 DEF Return, LocalType
  <2>3. pc' = [pc EXCEPT ![r] = Return(r)] /\ call' = [call EXCEPT ![r] = "none"]
    BY <1>10 DEF FinishExchange
  <2> QED
    BY <1>10, <2>2, <2>3 DEF FinishExchange, LocalType, MailboxType
<1> QED
  BY <1>1, <1>2, <1>3, <1>4, <1>5, <1>6, <1>7, <1>8, <1>9, <1>10 DEF Step

\* Steps keep the types; so does the end of the job.
LEMMA NextType ==
  ASSUME TypeOK, [Next]_vars
  PROVE  TypeOK'
<1>1. CASE UNCHANGED vars
  BY <1>1 DEF vars, TypeOK
<1>2. CASE Done
  BY <1>2 DEF Done, vars, TypeOK
<1>3. CASE \E r \in Rank : Step(r)
  BY <1>3, StepType
<1> QED
  BY <1>1, <1>2, <1>3 DEF Next

\* The model's variables keep their types: queues and buffers only ever hold
\* visitors, and the counters of the mailbox never go below zero.
THEOREM TypeCorrect == Spec => []TypeOK
<1>1. Init => TypeOK
  BY InitType
<1>2. TypeOK /\ [Next]_vars => TypeOK'
  BY NextType
<1> QED
  BY <1>1, <1>2, PTL DEF Spec

-----------------------------------------------------------------------------
(* The inductive invariant, outside the exchange.                          *)

\* The slots of consecutive exchanges differ, every second one is the same.
LEMMA SlotFact ==
  ASSUME NEW k \in Nat
  PROVE  Slot(k) \in 0..1 /\ Slot(k + 1) \in 0..1 /\ Slot(k + 1) # Slot(k) /\ Slot(k + 2) = Slot(k)
BY DEF Slot

\* What a rank that runs its own code leaves alone.
OwnCode(r) ==
  /\ call[r] = "none"
  /\ UNCHANGED <<call, round, posted, wire>>
  /\ pc[r] \notin {"left", "gone"} /\ pc'[r] \notin {"left", "gone"}
  /\ \A q \in Rank \ {r} :
       /\ pc'[q] = pc[q] /\ citr'[q] = citr[q] /\ vitr'[q] = vitr[q] /\ todo'[q] = todo[q]
       /\ owned'[q] = owned[q] /\ controllers'[q] = controllers[q]
       /\ sendCount'[q] = sendCount[q] /\ box'[q] = box[q]
  /\ sendCount'[r] = 0 => \A d \in Rank : box'[r][d] = EmptyBag

\* While a rank runs its own code, nobody has left.
LEMMA RunningMeansNobodyLeft ==
  ASSUME LeftTogether, NEW r \in Rank, call[r] = "none", ~HasLeft(r)
  PROVE  \A q \in Rank : ~HasLeft(q)
BY DEF LeftTogether

\* Whatever a rank does in its own code keeps the invariant.
LEMMA OwnCodeInv ==
  ASSUME IInv, NEW r \in Rank, OwnCode(r), TypeOK'
  PROVE  IInv'
<1>1. \A q \in Rank : ~HasLeft(q)
  BY RunningMeansNobodyLeft DEF IInv, OwnCode, HasLeft
<1>2. \A q \in Rank : ~HasLeft(q)'
  BY <1>1 DEF OwnCode, HasLeft
<1>3. LockStep'
  BY DEF IInv, LockStep, OwnCode
<1>4. BuffersAreCounted'
  BY DEF IInv, BuffersAreCounted, OwnCode
<1>5. \A k : Announced(k)' <=> Announced(k)
  BY DEF OwnCode, Announced
<1>6. WireIsAnnounced'
  BY <1>5 DEF IInv, WireIsAnnounced, OwnCode
<1>7. InExchange'
  BY <1>5 DEF IInv, InExchange, OwnCode, Empty
<1>8. WentOnTogether'
  BY <1>1, <1>5 DEF IInv, WentOnTogether, OwnCode, Passed
<1>9. LeftTogether'
  BY <1>2 DEF LeftTogether
<1> QED
  BY <1>3, <1>4, <1>6, <1>7, <1>8, <1>9 DEF IInv

\* The steps of the traversal loop and of a visit are a rank's own code.
LEMMA OwnSteps ==
  ASSUME IInv, TypeOK', NEW r \in Rank,
         \/ StartController(r) \/ StartVertex(r) \/ ProcessPendingController(r)
         \/ EndPending(r) \/ WhileNotEmpty(r) \/ PopAndVisit(r) \/ PopOfEmptyQueue(r)
         \/ NextStart(r) \/ QueueVisitor(r) \/ SendBcast(r)
  PROVE  OwnCode(r)
<1> USE DEF mailbox
<1>1. sendCount[r] = 0 => \A d \in Rank : box[r][d] = EmptyBag
  BY DEF IInv, BuffersAreCounted
<1>t. TypeOK
  BY DEF IInv
<1>2. CASE StartController(r)
  BY SMTT(60), <1>1, <1>2, <1>t DEF StartController, StartVisit, OwnCode, Idle, Running, TypeOK
<1>3. CASE StartVertex(r)
  BY SMTT(60), <1>1, <1>3, <1>t DEF StartVertex, StartVisit, OwnCode, Idle, Running, TypeOK
<1>4. CASE ProcessPendingController(r)
  BY <1>1, <1>4, <1>t DEF ProcessPendingController, OwnCode, Idle, Running, TypeOK
<1>5. CASE EndPending(r) \/ WhileNotEmpty(r) \/ PopOfEmptyQueue(r) \/ NextStart(r)
  BY <1>1, <1>5, <1>t DEF EndPending, WhileNotEmpty, PopOfEmptyQueue, NextStart, OwnCode, Idle,
                          Running, TypeOK
<1>6. CASE PopAndVisit(r)
  BY <1>1, <1>6, <1>t DEF PopAndVisit, OwnCode, Idle, Running, TypeOK
<1>7. ASSUME Running(r), todo[r] # << >>
      PROVE  call[r] = "none" /\ pc[r] \notin {"left", "gone"}
  BY <1>7 DEF IInv, LeftTogether, HasLeft, QuiescentAt, Running
<1>8. CASE QueueVisitor(r)
  <2> DEFINE v == Head(todo[r]).visitor
             sent(d) == /\ box' = [box EXCEPT ![r][d] = Add(@, v)]
                        /\ sendCount' = [sendCount EXCEPT ![r] = @ + 1]
  <2>1. Running(r) /\ todo[r] # << >> /\ todo' = [todo EXCEPT ![r] = Tail(@)]
    BY <1>8 DEF QueueVisitor, Performing
  <2>2. \/ UNCHANGED <<box, sendCount>>
        \/ \E d \in Rank : sent(d)
    <3>1. Head(todo[r]) \in Op
      BY <1>t, <2>1 DEF TypeOK
    <3>2. Master[v.vertex] \in Rank
      BY <3>1, TopologyAssumption DEF Op, Visitor
    <3>3. CASE QueueHere(r, v)
      BY <3>2, <3>3 DEF QueueHere, Send
    <3>4. CASE Send(r, Master[v.vertex], v)
      BY <3>2, <3>4 DEF Send
    <3>5. QueueHere(r, v) \/ Send(r, Master[v.vertex], v)
      BY <1>8 DEF QueueVisitor
    <3> QED
      BY <3>3, <3>4, <3>5
  <2>3. \A q \in Rank \ {r} : owned'[q] = owned[q]
    BY <1>8, <1>t DEF QueueVisitor, QueueHere, Push, TypeOK
  <2>4. UNCHANGED <<pc, citr, vitr, controllers, call, round, posted, wire>>
    BY <1>8 DEF QueueVisitor
  <2>5. CASE UNCHANGED <<box, sendCount>>
    BY <1>1, <1>7, <1>t, <2>1, <2>3, <2>4, <2>5 DEF OwnCode, TypeOK
  <2>6. ASSUME NEW d \in Rank, sent(d)
        PROVE  OwnCode(r)
    <3>0. sendCount \in [Rank -> Nat] /\ sendCount' = [sendCount EXCEPT ![r] = sendCount[r] + 1]
      BY <1>t, <2>6 DEF TypeOK
    <3>1. sendCount'[r] # 0
      BY <3>0
    <3>2. \A q \in Rank \ {r} : sendCount'[q] = sendCount[q] /\ box'[q] = box[q]
      BY <1>t, <2>6 DEF TypeOK
    <3>3. \A q \in Rank \ {r} : todo'[q] = todo[q]
      BY <1>t, <2>1 DEF TypeOK
    <3>4. call[r] = "none" /\ pc[r] \notin {"left", "gone"}
      BY <1>7, <2>1
    <3>5. pc'[r] \notin {"left", "gone"}
      BY <2>4, <3>4
    <3>6. ASSUME NEW q \in Rank \ {r}
          PROVE  /\ pc'[q] = pc[q] /\ citr'[q] = citr[q] /\ vitr'[q] = vitr[q]
                 /\ todo'[q] = todo[q] /\ owned'[q] = owned[q]
                 /\ controllers'[q] = controllers[q]
                 /\ sendCount'[q] = sendCount[q] /\ box'[q] = box[q]
      BY <2>3, <2>4, <3>2, <3>3
    <3> HIDE DEF sent
    <3> QED
      BY <2>4, <3>1, <3>4, <3>5, <3>6 DEF OwnCode
  <2> QED
    BY <2>2, <2>5, <2>6
<1>9. CASE SendBcast(r)
  <2> DEFINE v == Head(todo[r]).visitor
  <2>1. /\ Running(r) /\ todo[r] # << >> /\ todo' = [todo EXCEPT ![r] = Tail(@)]
        /\ UNCHANGED <<pc, citr, vitr, data, owned, controllers, call, round, posted, wire>>
    BY <1>9 DEF SendBcast, Performing
  <2>2. /\ box' = [box EXCEPT ![r] = [d \in Rank |-> IF d = r THEN @[d] ELSE Add(@[d], v)]]
        /\ sendCount' = [sendCount EXCEPT ![r] = sendCount[r] + BcastCost[r]]
    BY <1>9 DEF SendBcast
  <2>3. BcastCost[r] \in Nat /\ (BcastCost[r] = 0 => Rank = {r}) /\ sendCount[r] \in Nat
    BY <1>t, TopologyAssumption DEF TypeOK
  <2> HIDE DEF v
  <2>4. sendCount'[r] = 0 => \A d \in Rank : box'[r][d] = EmptyBag
    <3>1. SUFFICES ASSUME sendCount'[r] = 0
                   PROVE  \A d \in Rank : box'[r][d] = EmptyBag
      OBVIOUS
    <3>2. sendCount[r] = 0 /\ BcastCost[r] = 0
      <4>1. sendCount \in [Rank -> Nat]
        BY <1>t DEF TypeOK
      <4>2. sendCount'[r] = sendCount[r] + BcastCost[r]
        BY <2>2, <4>1
      <4> QED
        BY <2>3, <3>1, <4>2
    <3> QED
      BY <1>1, <1>t, <2>2, <2>3, <3>2 DEF TypeOK
  <2>5. \A q \in Rank \ {r} : sendCount'[q] = sendCount[q] /\ box'[q] = box[q]
    BY <1>t, <2>2 DEF TypeOK
  <2> QED
    BY <1>7, <1>t, <2>1, <2>4, <2>5 DEF OwnCode, TypeOK
<1> QED
  BY <1>2, <1>3, <1>4, <1>5, <1>6, <1>8, <1>9

-----------------------------------------------------------------------------
(* The inductive invariant, at the door of an exchange.                    *)

\* What do_exchange changes on its way in, variable by variable.
LEMMA EnterEffects ==
  ASSUME TypeOK, NEW r \in Rank, NEW why \in {"batch", "global_empty", "wait_empty"},
         EnterExchange(r, why)
  PROVE  /\ call' = [call EXCEPT ![r] = why]
         /\ round' = [round EXCEPT ![r] = round[r] + 1]
         /\ sendCount' = [sendCount EXCEPT ![r] = 0]
         /\ \A q \in Rank, p \in 0..1 :
              posted'[q][p] = IF q = r /\ p = Slot(round[r] + 1) THEN sendCount[r] ELSE posted[q][p]
         /\ \A d \in Rank : box'[r][d] = EmptyBag
         /\ \A q \in Rank \ {r} : box'[q] = box[q]
         /\ \A d \in Rank, p \in 0..1 :
              wire'[d][p] = IF p = Slot(round[r] + 1) THEN wire[d][p] (+) box[r][d] ELSE wire[d][p]
         /\ UNCHANGED <<pc, citr, vitr, todo, owned, controllers>>
<1>1. round[r] \in Nat
  BY DEF TypeOK
<1>2. Slot(round[r] + 1) \in 0..1
  BY <1>1 DEF Slot
<1>3. ASSUME NEW q \in Rank, NEW p \in 0..1
      PROVE  posted'[q][p] = IF q = r /\ p = Slot(round[r] + 1) THEN sendCount[r] ELSE posted[q][p]
  BY <1>2 DEF EnterExchange, TypeOK
<1>4. ASSUME NEW d \in Rank, NEW p \in 0..1
      PROVE  wire'[d][p] = IF p = Slot(round[r] + 1) THEN wire[d][p] (+) box[r][d] ELSE wire[d][p]
  <2>1. wire'[d] = [wire[d] EXCEPT ![Slot(round[r] + 1)] = @ (+) box[r][d]]
    BY DEF EnterExchange
  <2> QED
    BY <1>2, <2>1 DEF TypeOK
<1>5. (\A d \in Rank : box'[r][d] = EmptyBag) /\ (\A q \in Rank \ {r} : box'[q] = box[q])
  BY DEF EnterExchange, TypeOK
<1> QED
  BY <1>3, <1>4, <1>5 DEF EnterExchange, local

\* A rank enters an exchange with what its caller has established.
LEMMA EnterExchangeInv ==
  ASSUME IInv, TypeOK', NEW r \in Rank, call[r] = "none",
         NEW why \in {"batch", "global_empty", "wait_empty"},
         EnterExchange(r, why),
         why = "batch" => sendCount[r] >= Batch,
         why = "global_empty" => /\ pc[r] = "while" /\ Empty(r)
                                 /\ citr[r] = << >> /\ vitr[r] = << >> /\ todo[r] = << >>,
         why = "wait_empty" => pc[r] = "left"
  PROVE  IInv'
<1>t. TypeOK
  BY DEF IInv
<1>0. round \in [Rank -> Nat] /\ sendCount \in [Rank -> Nat]
  BY <1>t DEF TypeOK
<1>i. PICK i \in Nat : i = round[r]
  BY <1>0
<1> DEFINE k == i + 1
<1>n. /\ round \in [Rank -> Nat] /\ sendCount \in [Rank -> Nat]
      /\ i \in Nat /\ k \in Nat /\ k = i + 1 /\ round[r] = i /\ Batch \in Nat /\ Batch > 0
  BY <1>0, <1>i, TopologyAssumption
<1>p. \A q \in Rank, p \in 0..1 : posted[q][p] \in Nat
  BY <1>t DEF TypeOK
<1>c. call \in [Rank -> {"none", "batch", "global_empty", "wait_empty"}]
  BY <1>t DEF TypeOK
<1>e. /\ call' = [call EXCEPT ![r] = why]
      /\ round' = [round EXCEPT ![r] = k]
      /\ sendCount' = [sendCount EXCEPT ![r] = 0]
      /\ \A q \in Rank, p \in 0..1 :
           posted'[q][p] = IF q = r /\ p = Slot(k) THEN sendCount[r] ELSE posted[q][p]
      /\ \A d \in Rank : box'[r][d] = EmptyBag
      /\ \A q \in Rank \ {r} : box'[q] = box[q]
      /\ \A d \in Rank, p \in 0..1 :
           wire'[d][p] = IF p = Slot(k) THEN wire[d][p] (+) box[r][d] ELSE wire[d][p]
      /\ UNCHANGED <<pc, citr, vitr, todo, owned, controllers>>
  BY <1>i, <1>t, EnterEffects
<1> HIDE DEF k
<1>r. /\ round'[r] = k /\ call'[r] = why /\ sendCount'[r] = 0
      /\ \A q \in Rank \ {r} : round'[q] = round[q] /\ call'[q] = call[q] /\ sendCount'[q] = sendCount[q]
  BY <1>c, <1>e, <1>n
<1>l. \A q \in Rank : /\ round[q] = i \/ round[q] = k
                      /\ round[q] = k => call[q] # "none"
                      /\ call[q] = "none" => round[q] = i
                      /\ round[q] >= i /\ round[q] <= k
  BY <1>n DEF IInv, LockStep
<1>m. \A q \in Rank : round'[q] >= i /\ round'[q] <= k /\ (round'[q] = i \/ round'[q] = k)
  BY <1>l, <1>n, <1>r
<1>s. /\ Slot(k) \in 0..1 /\ Slot(i) \in 0..1 /\ Slot(k) # Slot(i) /\ Slot(k + 1) = Slot(i)
  <2>1. k + 1 = i + 2
    BY <1>n
  <2> QED
    BY <1>n, <2>1, SlotFact
<1>a. (Announced(i)' <=> Announced(i)) /\ (Announced(k) => Announced(k)')
  <2>1. \A s \in Rank : /\ posted'[s][Slot(i)] = posted[s][Slot(i)]
                        /\ round'[s] >= i /\ round[s] >= i
    BY <1>e, <1>l, <1>m, <1>s
  <2>2. \A s \in Rank : round[s] >= k /\ posted[s][Slot(k)] > 0
                         => round'[s] >= k /\ posted'[s][Slot(k)] > 0
    <3>1. SUFFICES ASSUME NEW s \in Rank, round[s] >= k, posted[s][Slot(k)] > 0
                   PROVE  round'[s] >= k /\ posted'[s][Slot(k)] > 0
      OBVIOUS
    <3>2. s # r
      BY <1>n, <3>1
    <3> QED
      BY <1>e, <1>r, <1>s, <3>1, <3>2
  <2> QED
    BY <2>1, <2>2 DEF Announced
<1>b. \A d \in Rank : box[r][d] # EmptyBag => Announced(k)'
  <2>1. SUFFICES ASSUME NEW d \in Rank, box[r][d] # EmptyBag
                 PROVE  Announced(k)'
    OBVIOUS
  <2>2. sendCount[r] # 0
    BY <2>1 DEF IInv, BuffersAreCounted
  <2>3. round'[r] >= k /\ posted'[r][Slot(k)] > 0
    BY <1>e, <1>n, <1>r, <1>s, <2>2
  <2> QED
    BY <2>3 DEF Announced
<1>w. \A d \in Rank : wire[d][Slot(k)] # EmptyBag => Announced(k)
  <2>1. SUFFICES ASSUME NEW d \in Rank, wire[d][Slot(k)] # EmptyBag
                 PROVE  Announced(k)
    OBVIOUS
  <2>2. CASE round[d] = i
    <3>1. round[d] + 1 = k
      BY <1>n, <2>2
    <3> QED
      BY <2>1, <3>1 DEF IInv, WireIsAnnounced
  <2>3. CASE round[d] = k
    BY <1>l, <2>1, <2>3 DEF IInv, WireIsAnnounced
  <2> QED
    BY <1>l, <2>2, <2>3
<1>1. LockStep'
  <2>1. SUFFICES ASSUME NEW x \in Rank, NEW q \in Rank
                 PROVE  /\ round'[q] <= round'[x] + 1
                        /\ call'[x] = "none" => /\ round'[q] >= round'[x]
                                                /\ wire'[x][Slot(round'[x])] = EmptyBag
    BY DEF LockStep
  <2>2. round'[q] <= round'[x] + 1
    BY <1>m, <1>n
  <2>3. ASSUME call'[x] = "none"
        PROVE  round'[q] >= round'[x] /\ wire'[x][Slot(round'[x])] = EmptyBag
    <3>1. x # r
      BY <1>r, <2>3
    <3>2. call[x] = "none" /\ round'[x] = round[x]
      BY <1>r, <2>3, <3>1
    <3>3. round[x] = i
      BY <1>l, <3>2
    <3>4. round'[q] >= round'[x]
      BY <1>m, <3>2, <3>3
    <3>5. wire[x][Slot(i)] = EmptyBag
      BY <3>2, <3>3 DEF IInv, LockStep
    <3> QED
      BY <1>e, <1>s, <3>2, <3>3, <3>4, <3>5
  <2> QED
    BY <2>2, <2>3
<1>2. BuffersAreCounted'
  BY <1>e, <1>r DEF IInv, BuffersAreCounted
<1>3. WireIsAnnounced'
  <2>1. SUFFICES ASSUME NEW d \in Rank
                 PROVE  /\ call'[d] # "none" /\ wire'[d][Slot(round'[d])] # EmptyBag => Announced(round[d])'
                        /\ wire'[d][Slot(round'[d] + 1)] # EmptyBag => Announced(round[d] + 1)'
    BY DEF WireIsAnnounced
  <2>0. VisitorBag(wire[d][Slot(k)]) /\ VisitorBag(box[r][d])
    BY <1>s, <1>t DEF TypeOK
  <2>2. wire'[d][Slot(k)] # EmptyBag => Announced(k)'
    <3>1. wire'[d][Slot(k)] = wire[d][Slot(k)] (+) box[r][d]
      BY <1>e, <1>s
    <3>2. wire'[d][Slot(k)] # EmptyBag => wire[d][Slot(k)] # EmptyBag \/ box[r][d] # EmptyBag
      BY <2>0, <3>1, BagSum
    <3> QED
      BY <1>a, <1>b, <1>w, <3>2
  <2>3. wire'[d][Slot(i)] = wire[d][Slot(i)]
    BY <1>e, <1>s
  <2>4. CASE d = r
    <3>1. round'[d] = k
      BY <1>r, <2>4
    <3>2. wire[d][Slot(i)] = EmptyBag
      BY <1>n, <2>4 DEF IInv, LockStep
    <3>3. Announced(round[d])' <=> Announced(k)'
      BY <3>1 DEF Announced
    <3> QED
      BY <1>s, <2>2, <2>3, <3>1, <3>2, <3>3
  <2>5. CASE d # r /\ round[d] = i
    <3>1. round'[d] = i /\ call'[d] = call[d] /\ round'[d] + 1 = k
      BY <1>n, <1>r, <2>5
    <3>2. (Announced(round[d])' <=> Announced(i)') /\ (Announced(round[d] + 1)' <=> Announced(k)')
      BY <3>1 DEF Announced
    <3>3. call[d] # "none" /\ wire[d][Slot(i)] # EmptyBag => Announced(i)
      BY <2>5 DEF IInv, WireIsAnnounced
    <3> QED
      BY <1>a, <2>2, <2>3, <3>1, <3>2, <3>3
  <2>6. CASE d # r /\ round[d] = k
    <3>1. round'[d] = k
      BY <1>r, <2>6
    <3>2. Announced(round[d])' <=> Announced(k)'
      BY <3>1 DEF Announced
    <3>3. ~Announced(k + 1)
      BY <1>l, <1>n DEF Announced
    <3>4. wire[d][Slot(k + 1)] = EmptyBag
      BY <2>6, <3>3 DEF IInv, WireIsAnnounced
    <3> QED
      BY <1>s, <2>2, <2>3, <3>1, <3>2, <3>4
  <2> QED
    BY <1>l, <2>4, <2>5, <2>6
<1>4. InExchange'
  <2>1. SUFFICES ASSUME NEW q \in Rank, call'[q] # "none"
                 PROVE  /\ sendCount'[q] = 0
                        /\ call'[q] = "batch" => posted'[q][Slot(round'[q])] > 0
                        /\ call'[q] = "wait_empty" => pc'[q] = "left"
                        /\ call'[q] = "global_empty" =>
                             /\ pc'[q] = "while"
                             /\ citr'[q] = << >> /\ vitr'[q] = << >> /\ todo'[q] = << >>
                             /\ Empty(q)' \/ Announced(round[q])'
    BY DEF InExchange
  <2>2. CASE q = r
    <3>1. posted'[q][Slot(k)] = sendCount[r]
      BY <1>e, <1>s, <2>2
    <3>2. why = "batch" => sendCount[r] > 0
      BY <1>n
    <3> QED
      BY <1>e, <1>r, <2>2, <3>1, <3>2 DEF Empty
  <2>3. CASE q # r
    <3>1. call'[q] = call[q] /\ round'[q] = round[q] /\ sendCount'[q] = sendCount[q]
      BY <1>r, <2>3
    <3>2. Slot(round[q]) \in 0..1
      BY <1>l, <1>s
    <3>3. Announced(round[q]) => Announced(round[q])'
      <4>1. CASE round[q] = i
        <5>1. Announced(round[q])' <=> Announced(i)'
          BY <3>1, <4>1 DEF Announced
        <5> QED
          BY <1>a, <4>1, <5>1
      <4>2. CASE round[q] = k
        <5>1. Announced(round[q])' <=> Announced(k)'
          BY <3>1, <4>2 DEF Announced
        <5> QED
          BY <1>a, <4>2, <5>1
      <4> QED
        BY <1>l, <4>1, <4>2
    <3>4. posted'[q][Slot(round[q])] = posted[q][Slot(round[q])]
      BY <1>e, <2>3, <3>2
    <3> QED
      BY <1>e, <2>1, <3>1, <3>3, <3>4 DEF IInv, InExchange, Empty
  <2> QED
    BY <2>2, <2>3
<1>5. WentOnTogether'
  <2>1. SUFFICES ASSUME NEW x \in Rank, NEW s \in Rank, call'[x] # "none",
                        round'[s] > round'[x] \/ (round'[s] = round'[x] /\ call'[s] = "none"),
                        ~HasLeft(s)'
                 PROVE  Announced(round[x])'
    BY DEF WentOnTogether, Passed
  <2>2. ~HasLeft(s)
    BY <1>e, <2>1 DEF HasLeft
  <2>3. round'[x] # k
    <3>1. SUFFICES ASSUME round'[x] = k PROVE FALSE
      OBVIOUS
    <3>2. round'[s] = k /\ call'[s] = "none"
      BY <1>m, <1>n, <2>1, <3>1
    <3>3. s # r
      BY <1>r, <3>2
    <3> QED
      BY <1>l, <1>r, <3>2, <3>3
  <2>4. round'[x] = i /\ x # r
    BY <1>m, <1>r, <2>3
  <2>5. call[x] # "none" /\ round[x] = i
    BY <1>r, <2>1, <2>4
  <2>6. round[s] > i \/ (round[s] = i /\ call[s] = "none")
    <3>1. CASE s = r
      BY <1>n, <3>1
    <3>2. CASE s # r
      BY <1>r, <2>1, <2>4, <3>2
    <3> QED
      BY <3>1, <3>2
  <2>7. Announced(i)
    BY <2>2, <2>5, <2>6 DEF IInv, WentOnTogether, Passed
  <2>8. Announced(round[x])' <=> Announced(i)'
    BY <2>4 DEF Announced
  <2> QED
    BY <1>a, <2>7, <2>8
<1>6. LeftTogether'
  <2>1. SUFFICES ASSUME NEW x \in Rank, NEW q \in Rank, HasLeft(x)
                 PROVE  /\ call'[x] \in {"none", "wait_empty"}
                        /\ IF HasLeft(q)' THEN LeftAt(q)' = LeftAt(x)'
                           ELSE call'[q] = "global_empty" /\ round'[q] = LeftAt(x)'
                        /\ posted'[q][Slot(LeftAt(x)')] = 0
                        /\ round'[q] > LeftAt(x)' => posted'[q][Slot(round'[q])] = 0
                        /\ pc'[x] = "gone" => round'[q] = LeftAt(x)' + 1
                        /\ sendCount'[q] = 0
                        /\ QuiescentAt(q)'
    BY <1>e DEF LeftTogether, HasLeft
  <2>2. \A y \in Rank : /\ call[x] \in {"none", "wait_empty"}
                        /\ IF HasLeft(y) THEN LeftAt(y) = LeftAt(x)
                           ELSE call[y] = "global_empty" /\ round[y] = LeftAt(x)
                        /\ posted[y][Slot(LeftAt(x))] = 0
                        /\ round[y] > LeftAt(x) => posted[y][Slot(round[y])] = 0
                        /\ pc[x] = "gone" => round[y] = LeftAt(x) + 1
                        /\ sendCount[y] = 0
                        /\ QuiescentAt(y)
    BY <2>1 DEF IInv, LeftTogether
  <2>3. HasLeft(r) /\ sendCount[r] = 0
    BY <2>2
  <2>4. why = "wait_empty" /\ pc[r] = "left"
    BY <1>n, <2>3 DEF HasLeft
  <2>5. LeftAt(r) = i /\ LeftAt(x) = i
    BY <1>n, <2>2, <2>3, <2>4 DEF LeftAt
  <2>6. pc[x] # "gone"
    BY <1>n, <2>2, <2>5
  <2>7. LeftAt(x)' = i /\ (HasLeft(q) => LeftAt(q)' = i)
    <3>1. LeftAt(r)' = i
      <4>1. call'[r] # "none" /\ round'[r] - 1 = i
        BY <1>n, <1>r, <2>4
      <4> QED
        BY <4>1 DEF LeftAt
    <3>2. ASSUME NEW y \in Rank \ {r}
          PROVE  LeftAt(y)' = LeftAt(y)
      <4>1. pc'[y] = pc[y] /\ call'[y] = call[y] /\ round'[y] = round[y]
        BY <1>e, <1>r
      <4> QED
        BY <4>1 DEF LeftAt
    <3>3. HasLeft(q) => LeftAt(q) = i
      BY <2>2, <2>5
    <3>4. \A y \in Rank : LeftAt(y) = i => LeftAt(y)' = i
      <4>1. SUFFICES ASSUME NEW y \in Rank, LeftAt(y) = i
                     PROVE  LeftAt(y)' = i
        OBVIOUS
      <4>2. CASE y = r
        BY <3>1, <4>2
      <4>3. CASE y # r
        BY <3>2, <4>1, <4>3
      <4> QED
        BY <4>2, <4>3
    <3> QED
      BY <2>5, <3>3, <3>4
  <2>8. call'[x] \in {"none", "wait_empty"}
    BY <1>r, <2>2, <2>4
  <2>9. IF HasLeft(q)' THEN LeftAt(q)' = LeftAt(x)'
        ELSE call'[q] = "global_empty" /\ round'[q] = LeftAt(x)'
    <3>1. HasLeft(q)' <=> HasLeft(q)
      BY <1>e DEF HasLeft
    <3>2. CASE ~HasLeft(q)
      <4>1. q # r
        BY <2>3, <3>2
      <4> QED
        BY <1>r, <2>2, <2>5, <2>7, <3>1, <3>2, <4>1
    <3> QED
      BY <2>7, <3>1, <3>2
  <2>10. posted'[q][Slot(i)] = 0
    BY <1>e, <1>s, <2>2, <2>5
  <2>11. round'[q] > i => posted'[q][Slot(round'[q])] = 0
    <3>1. CASE q = r
      BY <1>e, <1>r, <1>s, <2>3, <3>1
    <3>2. CASE q # r
      <4>1. round'[q] = round[q] /\ (round[q] > i => round[q] = k)
        BY <1>l, <1>n, <1>r, <3>2
      <4> QED
        BY <1>e, <1>s, <2>2, <2>5, <3>2, <4>1
    <3> QED
      BY <3>1, <3>2
  <2>12. sendCount'[q] = 0
    BY <1>r, <2>2
  <2>13. QuiescentAt(q)'
    <3>1. \A d \in Rank : box'[q][d] = EmptyBag
      BY <1>e, <2>2 DEF QuiescentAt
    <3>2. ASSUME NEW p \in 0..1
          PROVE  wire'[q][p] = EmptyBag
      <4>1. wire[q][p] = EmptyBag /\ box[r][q] = EmptyBag
        BY <2>2 DEF QuiescentAt
      <4> QED
        BY <1>e, <4>1, BagSum, EmptyBagFact
    <3> QED
      BY <1>e, <2>2, <3>1, <3>2 DEF QuiescentAt, Empty
  <2> QED
    BY <1>e, <2>6, <2>7, <2>8, <2>9, <2>10, <2>11, <2>12, <2>13
<1> QED
  BY <1>1, <1>2, <1>3, <1>4, <1>5, <1>6 DEF IInv

-----------------------------------------------------------------------------
(* The inductive invariant, inside an exchange.                            *)

\* A delivery only happens in an exchange in which somebody announced
\* something, hence in one that lets nobody leave.
LEMMA DeliverInv ==
  ASSUME IInv, TypeOK', NEW r \in Rank, Deliver(r)
  PROVE  IInv'
<1>t. TypeOK
  BY DEF IInv
<1>1. /\ call[r] # "none"
      /\ UNCHANGED <<pc, citr, vitr, todo, box, sendCount, call, round, posted>>
  BY DEF Deliver
<1>2. Slot(round[r]) \in 0..1
  <2>1. round[r] \in Nat
    BY <1>t DEF TypeOK
  <2> QED
    BY <2>1, SlotFact
<1>3. PICK v \in BagToSet(wire[r][Slot(round[r])]) :
        /\ wire' = [wire EXCEPT ![r][Slot(round[r])] = Remove(@, v)]
        /\ HandleMailboxReceive(r, v)
  BY DEF Deliver
<1>4. wire[r][Slot(round[r])] # EmptyBag
  BY <1>3, EmptyBagFact
<1>5. \A q \in Rank \ {r} : /\ wire'[q] = wire[q]
                            /\ owned'[q] = owned[q] /\ controllers'[q] = controllers[q]
  <2>1. \A q \in Rank \ {r} : wire'[q] = wire[q]
    BY <1>3, <1>t DEF TypeOK
  <2>2. \A q \in Rank \ {r} : owned'[q] = owned[q] /\ controllers'[q] = controllers[q]
    <3>1. /\ UNCHANGED owned \/ Push(r, v)
          /\ \/ UNCHANGED controllers
             \/ \E c : controllers' = [controllers EXCEPT ![r] = c]
      BY <1>3 DEF HandleMailboxReceive
    <3> QED
      BY <1>t, <3>1 DEF Push, TypeOK
  <2> QED
    BY <2>1, <2>2
<1>6. \A p \in 0..1 : p # Slot(round[r]) => wire'[r][p] = wire[r][p]
  <2>1. wire'[r] = [wire[r] EXCEPT ![Slot(round[r])] = Remove(@, v)]
    BY <1>3, <1>t DEF TypeOK
  <2> QED
    BY <1>t, <2>1 DEF TypeOK
<1>7. \A j : Announced(j)' <=> Announced(j)
  BY <1>1 DEF Announced
<1>8. Announced(round[r])
  BY <1>1, <1>4 DEF IInv, WireIsAnnounced
<1>9. \A q \in Rank : ~HasLeft(q) /\ ~HasLeft(q)'
  <2>1. ~QuiescentAt(r)
    BY <1>2, <1>4 DEF QuiescentAt
  <2> QED
    BY <1>1, <2>1 DEF IInv, LeftTogether, HasLeft
<1>10. LockStep'
  BY <1>1, <1>5 DEF IInv, LockStep
<1>11. BuffersAreCounted'
  BY <1>1 DEF IInv, BuffersAreCounted
<1>12. WireIsAnnounced'
  <2>1. SUFFICES ASSUME NEW d \in Rank
                 PROVE  /\ call[d] # "none" /\ wire'[d][Slot(round[d])] # EmptyBag => Announced(round[d])
                        /\ wire'[d][Slot(round[d] + 1)] # EmptyBag => Announced(round[d] + 1)
    BY <1>1, <1>7 DEF WireIsAnnounced
  <2>2. CASE d = r
    <3>1. Slot(round[d] + 1) \in 0..1 /\ Slot(round[d] + 1) # Slot(round[d])
      BY <1>t, SlotFact DEF TypeOK
    <3>2. wire'[d][Slot(round[d] + 1)] = wire[d][Slot(round[d] + 1)]
      BY <1>6, <2>2, <3>1
    <3> QED
      BY <1>8, <2>2, <3>2 DEF IInv, WireIsAnnounced
  <2>3. CASE d # r
    BY <1>5, <2>3 DEF IInv, WireIsAnnounced
  <2> QED
    BY <2>2, <2>3
<1>13. InExchange'
  BY <1>1, <1>5, <1>7, <1>8 DEF IInv, InExchange, Empty
<1>14. WentOnTogether'
  BY <1>1, <1>7, <1>9 DEF IInv, WentOnTogether, Passed
<1>15. LeftTogether'
  BY <1>9 DEF LeftTogether
<1> QED
  BY <1>10, <1>11, <1>12, <1>13, <1>14, <1>15 DEF IInv

\* When a rank finds the total of its exchange zero, nothing is left anywhere,
\* and every other rank is in the same exchange or has left after it.
LEMMA ZeroMeansQuiescent ==
  ASSUME IInv, NEW r \in Rank, call[r] = "global_empty", AllEntered(r), TotalIsZero(r),
         wire[r][Slot(round[r])] = EmptyBag
  PROVE  \A q \in Rank :
           /\ IF HasLeft(q) THEN LeftAt(q) = round[r]
              ELSE call[q] = "global_empty" /\ round[q] = round[r]
           /\ round[q] > round[r] => posted[q][Slot(round[q])] = 0
           /\ sendCount[q] = 0
           /\ QuiescentAt(q)
<1>t. TypeOK
  BY DEF IInv
<1>n. round \in [Rank -> Nat]
  BY <1>t DEF TypeOK
<1>1. ~Announced(round[r])
  BY DEF Announced, TotalIsZero
<1>2. ~HasLeft(r)
  BY DEF IInv, InExchange, HasLeft
<1> SUFFICES ASSUME NEW q \in Rank
             PROVE  /\ IF HasLeft(q) THEN LeftAt(q) = round[r]
                       ELSE call[q] = "global_empty" /\ round[q] = round[r]
                    /\ round[q] > round[r] => posted[q][Slot(round[q])] = 0
                    /\ sendCount[q] = 0
                    /\ QuiescentAt(q)
  OBVIOUS
<1>3. CASE HasLeft(q)
  BY <1>2, <1>3 DEF IInv, LeftTogether
<1>4. CASE ~HasLeft(q)
  <2>1. ~Passed(q, round[r])
    BY <1>1, <1>4 DEF IInv, WentOnTogether
  <2>2. round[q] = round[r] /\ call[q] # "none"
    BY <1>n, <2>1 DEF AllEntered, Passed
  <2>3. call[q] = "global_empty"
    <3>1. call[q] # "batch"
      BY <2>2 DEF IInv, InExchange, TotalIsZero
    <3>2. call[q] # "wait_empty"
      BY <1>4, <2>2 DEF IInv, InExchange, HasLeft
    <3>3. call[q] \in {"none", "batch", "global_empty", "wait_empty"}
      BY <1>t DEF TypeOK
    <3> QED
      BY <2>2, <3>1, <3>2, <3>3
  <2>4. /\ sendCount[q] = 0 /\ citr[q] = << >> /\ vitr[q] = << >> /\ todo[q] = << >>
        /\ Empty(q)
    BY <1>1, <2>2, <2>3 DEF IInv, InExchange
  <2>5. \A d \in Rank : box[q][d] = EmptyBag
    BY <2>4 DEF IInv, BuffersAreCounted
  <2>6. wire[q][Slot(round[q])] = EmptyBag
    BY <1>1, <2>2 DEF IInv, WireIsAnnounced
  <2>7. ~Announced(round[q] + 1)
    <3>1. SUFFICES ASSUME NEW s \in Rank, round[s] >= round[r] + 1,
                          posted[s][Slot(round[r] + 1)] > 0
                   PROVE  FALSE
      BY <2>2 DEF Announced
    <3>2. Passed(s, round[r])
      BY <1>n, <3>1 DEF Passed
    <3>3. HasLeft(s)
      BY <1>1, <3>2 DEF IInv, WentOnTogether
    <3>4. round[s] = round[r] + 1
      BY <1>n, <3>1 DEF IInv, LockStep
    <3>5. LeftAt(s) = round[r] /\ (round[s] > LeftAt(s) => posted[s][Slot(round[s])] = 0)
      BY <1>2, <3>3 DEF IInv, LeftTogether
    <3> QED
      BY <1>n, <3>1, <3>4, <3>5
  <2>8. wire[q][Slot(round[q] + 1)] = EmptyBag
    BY <2>7 DEF IInv, WireIsAnnounced
  <2>9. \A p \in 0..1 : p = Slot(round[q]) \/ p = Slot(round[q] + 1)
    BY <1>n, SlotFact
  <2> QED
    BY <1>4, <1>n, <2>2, <2>3, <2>4, <2>5, <2>6, <2>8, <2>9 DEF QuiescentAt
<1> QED
  BY <1>3, <1>4

\* A rank leaves an exchange the way every other rank will.
LEMMA FinishExchangeInv ==
  ASSUME IInv, TypeOK', NEW r \in Rank, FinishExchange(r)
  PROVE  IInv'
<1>t. TypeOK
  BY DEF IInv
<1>n. round \in [Rank -> Nat]
  BY <1>t DEF TypeOK
<1>g. call[r] # "none" /\ AllEntered(r) /\ wire[r][Slot(round[r])] = EmptyBag
  BY DEF FinishExchange
<1>c. call[r] \in {"batch", "global_empty", "wait_empty"}
  BY <1>g, <1>t DEF TypeOK
<1>e. /\ pc'[r] = Return(r) /\ call'[r] = "none"
      /\ \A q \in Rank \ {r} : pc'[q] = pc[q] /\ call'[q] = call[q]
      /\ UNCHANGED <<citr, vitr, todo, data, owned, controllers,
                     box, sendCount, round, posted, wire>>
  BY <1>t DEF FinishExchange, TypeOK
<1>a. \A j : Announced(j)' <=> Announced(j)
  BY <1>e DEF Announced
<1>q. \A q \in Rank : QuiescentAt(q)' <=> QuiescentAt(q)
  BY <1>e DEF QuiescentAt, Empty
<1>p. \A q \in Rank : posted[q][Slot(round[r])] \in Nat
  <2>1. Slot(round[r]) \in 0..1
    BY <1>n, SlotFact
  <2>2. posted \in [Rank -> [0..1 -> Nat]]
    BY <1>t DEF TypeOK
  <2> QED
    BY <2>1, <2>2
<1>z. ~TotalIsZero(r) => Announced(round[r])
  BY <1>g, <1>p DEF TotalIsZero, AllEntered, Announced
<1>w. call[r] = "wait_empty" => pc[r] = "left" /\ TotalIsZero(r)
  <2>1. SUFFICES ASSUME call[r] = "wait_empty"
                 PROVE  pc[r] = "left" /\ TotalIsZero(r)
    OBVIOUS
  <2>2. pc[r] = "left"
    BY <1>g, <2>1 DEF IInv, InExchange
  <2>3. HasLeft(r) /\ LeftAt(r) = round[r] - 1
    BY <2>1, <2>2 DEF HasLeft, LeftAt
  <2>4. ASSUME NEW q \in Rank
        PROVE  posted[q][Slot(round[r])] = 0
    <3>1. CASE ~HasLeft(q)
      BY <1>g, <1>n, <2>3, <3>1 DEF IInv, LeftTogether, AllEntered
    <3>2. CASE HasLeft(q)
      <4>1. LeftAt(q) = round[r] - 1 /\ (round[q] > LeftAt(r) => posted[q][Slot(round[q])] = 0)
        BY <2>3, <3>2 DEF IInv, LeftTogether
      <4>2. round[q] = round[r]
        BY <1>g, <1>n, <4>1 DEF LeftAt, AllEntered
      <4> QED
        BY <1>n, <2>3, <4>1, <4>2
    <3> QED
      BY <3>1, <3>2
  <2> QED
    BY <2>2, <2>4 DEF TotalIsZero
<1>b. call[r] = "batch" => ~HasLeft(r) /\ Announced(round[r])
  <2>1. SUFFICES ASSUME call[r] = "batch"
                 PROVE  ~HasLeft(r) /\ Announced(round[r])
    OBVIOUS
  <2>2. ~HasLeft(r)
    BY <2>1 DEF IInv, LeftTogether
  <2>3. round[r] >= round[r] /\ posted[r][Slot(round[r])] > 0
    BY <1>n, <2>1 DEF IInv, InExchange
  <2> QED
    BY <2>2, <2>3 DEF Announced
\* Where r goes.
<1>h. \/ /\ call[r] = "global_empty" /\ TotalIsZero(r) /\ ~HasLeft(r) /\ pc'[r] = "left"
      \/ /\ call[r] = "wait_empty" /\ pc[r] = "left" /\ TotalIsZero(r) /\ pc'[r] = "gone"
      \/ ~HasLeft(r) /\ ~HasLeft(r)' /\ Announced(round[r])
  <2>1. CASE call[r] = "batch"
    BY <1>b, <1>e, <2>1 DEF Return, HasLeft
  <2>2. CASE call[r] = "global_empty"
    <3>1. pc[r] = "while"
      BY <2>2 DEF IInv, InExchange
    <3> QED
      BY <1>e, <1>z, <2>2, <3>1 DEF Return, HasLeft
  <2>3. CASE call[r] = "wait_empty"
    BY <1>e, <1>w, <2>3 DEF Return
  <2> QED
    BY <1>c, <2>1, <2>2, <2>3
<1>1. LockStep'
  BY <1>e, <1>g DEF IInv, LockStep, AllEntered
<1>2. BuffersAreCounted'
  BY <1>e DEF IInv, BuffersAreCounted
<1>3. WireIsAnnounced'
  BY <1>a, <1>e DEF IInv, WireIsAnnounced
<1>4. InExchange'
  BY <1>a, <1>e DEF IInv, InExchange, Empty
<1>5. WentOnTogether'
  <2>1. SUFFICES ASSUME NEW x \in Rank, NEW s \in Rank, call'[x] # "none",
                        round[s] > round[x] \/ (round[s] = round[x] /\ call'[s] = "none"),
                        ~HasLeft(s)'
                 PROVE  Announced(round[x])
    BY <1>a, <1>e DEF WentOnTogether, Passed
  <2>2. x # r /\ call[x] # "none"
    BY <1>e, <2>1
  <2>3. CASE s = r
    <3>1. ~HasLeft(r) /\ Announced(round[r])
      BY <1>h, <2>1, <2>3 DEF HasLeft
    <3>2. CASE round[x] = round[r]
      BY <3>1, <3>2
    <3>3. CASE round[x] # round[r]
      BY <2>1, <2>2, <2>3, <3>1, <3>3 DEF IInv, WentOnTogether, Passed
    <3> QED
      BY <3>2, <3>3
  <2>4. CASE s # r
    <3>1. ~HasLeft(s) /\ call'[s] = call[s]
      BY <1>e, <2>1, <2>4 DEF HasLeft
    <3> QED
      BY <2>1, <2>2, <3>1 DEF IInv, WentOnTogether, Passed
  <2> QED
    BY <2>3, <2>4
<1>6. LeftTogether'
  <2> DEFINE Together(x, q) ==
               /\ call[x] \in {"none", "wait_empty"}
               /\ IF HasLeft(q) THEN LeftAt(q) = LeftAt(x)
                  ELSE call[q] = "global_empty" /\ round[q] = LeftAt(x)
               /\ posted[q][Slot(LeftAt(x))] = 0
               /\ round[q] > LeftAt(x) => posted[q][Slot(round[q])] = 0
               /\ pc[x] = "gone" => round[q] = LeftAt(x) + 1
               /\ sendCount[q] = 0
               /\ QuiescentAt(q)
  <2>0. \A x, q \in Rank : HasLeft(x) => Together(x, q)
    BY DEF IInv, LeftTogether
  <2>1. SUFFICES ASSUME NEW x \in Rank, NEW q \in Rank, HasLeft(x)'
                 PROVE  Together(x, q)'
    BY DEF LeftTogether
  <2>2. \A y \in Rank \ {r} : (HasLeft(y)' <=> HasLeft(y)) /\ LeftAt(y)' = LeftAt(y)
    BY <1>e DEF HasLeft, LeftAt
  \* The first to leave, or one more that does.
  <2>3. CASE call[r] = "global_empty" /\ TotalIsZero(r) /\ ~HasLeft(r) /\ pc'[r] = "left"
    <3>1. \A y \in Rank :
           /\ IF HasLeft(y) THEN LeftAt(y) = round[r]
              ELSE call[y] = "global_empty" /\ round[y] = round[r]
           /\ round[y] > round[r] => posted[y][Slot(round[y])] = 0
           /\ sendCount[y] = 0
           /\ QuiescentAt(y)
      BY <1>g, <2>3, ZeroMeansQuiescent
    <3>2. HasLeft(r)' /\ LeftAt(r)' = round[r]
      BY <1>e, <2>3 DEF HasLeft, LeftAt
    <3>3. \A y \in Rank : HasLeft(y)' => LeftAt(y)' = round[r]
      BY <2>2, <3>1, <3>2
    <3>4. LeftAt(x)' = round[r]
      BY <2>1, <3>3
    <3>5. IF HasLeft(q)' THEN LeftAt(q)' = LeftAt(x)'
          ELSE call'[q] = "global_empty" /\ round'[q] = LeftAt(x)'
      BY <1>e, <2>2, <3>1, <3>2, <3>3, <3>4
    <3>6. posted'[q][Slot(LeftAt(x)')] = 0
      BY <1>e, <2>3, <3>4 DEF TotalIsZero
    <3>7. call'[x] \in {"none", "wait_empty"}
      BY <1>e, <2>0, <2>1, <2>2
    <3>8. pc'[x] = "gone" => round'[q] = LeftAt(x)' + 1
      <4>1. SUFFICES ASSUME pc'[x] = "gone" PROVE FALSE
        OBVIOUS
      <4>2. x # r /\ pc[x] = "gone"
        BY <1>e, <2>3, <4>1
      <4>3. HasLeft(x) /\ round[r] = LeftAt(x) + 1 /\ LeftAt(x) = round[r]
        BY <2>0, <3>1, <4>2 DEF HasLeft
      <4> QED
        BY <1>n, <4>3
    <3> QED
      BY <1>e, <1>q, <3>1, <3>4, <3>5, <3>6, <3>7, <3>8
  \* A rank that had left is done with wait_empty.
  <2>4. CASE call[r] = "wait_empty" /\ pc[r] = "left" /\ TotalIsZero(r) /\ pc'[r] = "gone"
    <3>1. HasLeft(r) /\ HasLeft(r)' /\ LeftAt(r) = round[r] - 1 /\ LeftAt(r)' = round[r] - 1
      BY <1>e, <2>4 DEF HasLeft, LeftAt
    <3>2. \A y \in Rank : (HasLeft(y)' <=> HasLeft(y)) /\ LeftAt(y)' = LeftAt(y)
      BY <2>2, <3>1
    <3>3. Together(x, q)
      BY <2>0, <2>1, <3>2
    <3>4. \A y \in Rank : round[y] = LeftAt(r) + 1
      <4>1. \A y \in Rank : round[y] >= round[r]
        BY <1>g DEF AllEntered
      <4>2. \A y \in Rank : HasLeft(y) => LeftAt(y) = LeftAt(r)
        BY <2>0, <3>1
      <4>3. \A y \in Rank : ~HasLeft(y) => round[y] = LeftAt(r)
        BY <2>0, <3>1
      <4> QED
        BY <1>n, <3>1, <4>1, <4>2, <4>3 DEF LeftAt
    <3>5. LeftAt(x) = LeftAt(r)
      BY <2>0, <2>1, <3>1, <3>2
    <3>6. call'[x] \in {"none", "wait_empty"}
      BY <1>e, <3>3
    <3>7. HasLeft(q)
      <4>1. ~HasLeft(q) => round[q] = LeftAt(r)
        BY <2>0, <3>1
      <4> QED
        BY <1>n, <3>1, <3>4, <4>1
    <3>8. pc'[x] = "gone" => round'[q] = LeftAt(x)' + 1
      BY <1>e, <3>2, <3>4, <3>5
    <3> QED
      BY <1>e, <1>q, <3>2, <3>3, <3>6, <3>7, <3>8
  \* Everybody goes on.
  <2>5. CASE ~HasLeft(r) /\ ~HasLeft(r)' /\ Announced(round[r])
    <3>1. x # r /\ HasLeft(x)
      BY <2>1, <2>2, <2>5
    <3>2. \A y \in Rank : Together(x, y)
      BY <2>0, <3>1
    <3>3. call[r] = "global_empty" /\ round[r] = LeftAt(x)
      BY <2>5, <3>2
    <3>4. \A y \in Rank : posted[y][Slot(round[r])] = 0
      BY <3>2, <3>3
    <3> QED
      BY <2>5, <3>4 DEF Announced
  <2> QED
    BY <1>h, <2>3, <2>4, <2>5
<1> QED
  BY <1>1, <1>2, <1>3, <1>4, <1>5, <1>6 DEF IInv

-----------------------------------------------------------------------------
(* The theorems.                                                           *)

\* At the start every rank is idle and every counter is zero.
LEMMA InitInv ==
  ASSUME Init
  PROVE  IInv
<1>1. TypeOK
  BY InitType
<1>2. /\ \A r \in Rank : /\ pc[r] = "controllers" /\ call[r] = "none" /\ round[r] = 0
                       /\ sendCount[r] = 0
                       /\ \A d \in Rank : box[r][d] = EmptyBag
                       /\ \A p \in 0..1 : wire[r][p] = EmptyBag
  BY DEF Init
<1>3. Slot(0) \in 0..1 /\ Slot(0 + 1) \in 0..1
  BY SlotFact
<1>4. LockStep
  BY <1>2, <1>3 DEF LockStep
<1>5. BuffersAreCounted /\ InExchange /\ WentOnTogether /\ LeftTogether
  BY <1>2 DEF BuffersAreCounted, InExchange, WentOnTogether, LeftTogether, HasLeft
<1>6. WireIsAnnounced
  BY <1>2, <1>3 DEF WireIsAnnounced
<1> QED
  BY <1>1, <1>4, <1>5, <1>6 DEF IInv

\* Every step of a rank keeps the invariant.
LEMMA StepInv ==
  ASSUME IInv, NEW r \in Rank, Step(r)
  PROVE  IInv'
<1>1. TypeOK'
  BY StepType DEF IInv
<1>2. CASE \/ StartController(r) \/ StartVertex(r) \/ ProcessPendingController(r)
           \/ EndPending(r) \/ WhileNotEmpty(r) \/ PopAndVisit(r) \/ PopOfEmptyQueue(r)
           \/ NextStart(r) \/ QueueVisitor(r) \/ SendBcast(r)
  BY <1>1, <1>2, OwnSteps, OwnCodeInv
<1>3. CASE BatchFull(r)
  BY <1>1, <1>3, EnterExchangeInv DEF BatchFull
<1>4. CASE TestGlobalEmpty(r)
  BY <1>1, <1>4, EnterExchangeInv DEF TestGlobalEmpty, Idle, Running
<1>5. CASE DestroyMailbox(r)
  BY <1>1, <1>5, EnterExchangeInv DEF DestroyMailbox, Idle, Running
<1>6. CASE Deliver(r)
  BY <1>1, <1>6, DeliverInv
<1>7. CASE FinishExchange(r)
  BY <1>1, <1>7, FinishExchangeInv
<1> QED
  BY <1>2, <1>3, <1>4, <1>5, <1>6, <1>7 DEF Step

\* Stuttering changes nothing.
LEMMA StutterInv ==
  ASSUME IInv, UNCHANGED vars
  PROVE  IInv'
<1> USE DEF vars
<1>1. TypeOK'
  BY DEF IInv, TypeOK
<1>2. \A k : Announced(k)' <=> Announced(k)
  BY DEF Announced
<1>3. LockStep' /\ BuffersAreCounted'
  BY DEF IInv, LockStep, BuffersAreCounted
<1>4. WireIsAnnounced'
  BY <1>2 DEF IInv, WireIsAnnounced
<1>5. InExchange'
  BY <1>2 DEF IInv, InExchange, Empty
<1>6. WentOnTogether'
  BY <1>2 DEF IInv, WentOnTogether, Passed, HasLeft
<1>7. LeftTogether'
  BY DEF IInv, LeftTogether, HasLeft, LeftAt, QuiescentAt, Empty
<1> QED
  BY <1>1, <1>3, <1>4, <1>5, <1>6, <1>7 DEF IInv

\* The counts of an exchange tell every rank enough about all others: the
\* inductive invariant holds in every reachable state.
THEOREM Inductive == Spec => []IInv
<1>1. Init => IInv
  BY InitInv
<1>2. IInv /\ [Next]_vars => IInv'
  <2>1. SUFFICES ASSUME IInv, [Next]_vars
                 PROVE  IInv'
    OBVIOUS
  <2>2. CASE \E r \in Rank : Step(r)
    BY <2>1, <2>2, StepInv
  <2>3. CASE UNCHANGED vars \/ Done
    BY <2>1, <2>3, StutterInv DEF Done
  <2> QED
    BY <2>1, <2>2, <2>3 DEF Next
<1> QED
  BY <1>1, <1>2, PTL DEF Spec

\* A rank leaves init_visitor_traversal only when no visitor is left on any
\* rank, in any buffer or on its way.
THEOREM TerminationIsSafe == Spec => []LeaveOnlyWhenQuiescent
<1>1. IInv => LeaveOnlyWhenQuiescent
  BY DEF IInv, LeftTogether, LeaveOnlyWhenQuiescent, Quiescent
<1> QED
  BY <1>1, Inductive, PTL

\* Nobody is stranded: a rank still in the loop when another has left is inside
\* the exchange that lets it leave too.
THEOREM NobodyIsStranded == Spec => []LeaveTogether
<1>1. IInv => LeaveTogether
  <2>1. SUFFICES ASSUME IInv, NEW r \in Rank, NEW q \in Rank, HasLeft(r), ~HasLeft(q)
                 PROVE  /\ call[q] = "global_empty"
                        /\ TotalIsZero(q)
                        /\ round[q] = IF call[r] = "none" THEN round[r] ELSE round[r] - 1
    BY DEF LeaveTogether
  <2>2. /\ call[q] = "global_empty" /\ round[q] = LeftAt(r)
        /\ \A s \in Rank : posted[s][Slot(LeftAt(r))] = 0
    BY <2>1 DEF IInv, LeftTogether
  <2>3. pc[r] # "gone"
    <3>1. pc[r] = "gone" => round[q] = LeftAt(r) + 1
      BY <2>1 DEF IInv, LeftTogether
    <3>2. round[q] \in Nat
      BY <2>1 DEF IInv, TypeOK
    <3> QED
      BY <2>2, <3>1, <3>2
  <2> QED
    BY <2>1, <2>2, <2>3 DEF TotalIsZero, LeftAt, HasLeft
<1> QED
  BY <1>1, Inductive, PTL

\* Exchanges are entered in lock step, so the buffers of two exchanges never
\* meet.
THEOREM ExchangesInLockStep == Spec => []LockStep
<1>1. IInv => LockStep
  BY DEF IInv
<1> QED
  BY <1>1, Inductive, PTL

-----------------------------------------------------------------------------
(* The contract of the developer guide.                                    *)

\* When no visitor is left, none appears.
LEMMA QuiescentStays ==
  ASSUME TypeOK, Quiescent, NEW r \in Rank, Step(r)
  PROVE  Quiescent'
<1>1. \A q \in Rank : /\ citr[q] = << >> /\ vitr[q] = << >> /\ todo[q] = << >>
                      /\ owned[q] = EmptyBag /\ controllers[q] = << >>
                      /\ \A d \in Rank : box[q][d] = EmptyBag
                      /\ \A p \in 0..1 : wire[q][p] = EmptyBag
  BY DEF Quiescent, QuiescentAt, Empty
<1>2. SUFFICES UNCHANGED <<citr, vitr, todo, owned, controllers>>
               /\ \A q \in Rank : /\ \A d \in Rank : box'[q][d] = EmptyBag
                                  /\ \A p \in 0..1 : wire'[q][p] = EmptyBag
  BY <1>1 DEF Quiescent, QuiescentAt, Empty
<1> USE DEF mailbox
<1>3. CASE StartController(r) \/ StartVertex(r)
  <2>1. /\ citr' \in {citr, [citr EXCEPT ![r] = citr[r]]}
        /\ vitr' \in {vitr, [vitr EXCEPT ![r] = vitr[r]]}
        /\ UNCHANGED <<todo, owned, controllers, box, wire>>
    BY <1>1, <1>3 DEF StartController, StartVertex, StartVisit
  <2>2. citr' = citr /\ vitr' = vitr
    BY <2>1 DEF TypeOK
  <2> QED
    BY <1>1, <2>1, <2>2
<1>4. CASE ProcessPendingController(r) \/ PopAndVisit(r) \/ QueueVisitor(r) \/ SendBcast(r)
  BY <1>1, <1>4, EmptyBagFact DEF ProcessPendingController, PopAndVisit, QueueVisitor, SendBcast,
                                  Performing
<1>5. CASE EndPending(r) \/ WhileNotEmpty(r) \/ PopOfEmptyQueue(r) \/ NextStart(r)
  BY <1>1, <1>5 DEF EndPending, WhileNotEmpty, PopOfEmptyQueue, NextStart
<1>6. CASE BatchFull(r) \/ TestGlobalEmpty(r) \/ DestroyMailbox(r)
  <2>1. PICK why \in {"batch", "global_empty", "wait_empty"} : EnterExchange(r, why)
    BY <1>6 DEF BatchFull, TestGlobalEmpty, DestroyMailbox
  <2>2. EmptyBag (+) EmptyBag = EmptyBag
    BY EmptyBagFact, BagSum
  <2> QED
    BY <1>1, <2>1, <2>2, EnterEffects
<1>7. CASE Deliver(r)
  <2>0. round[r] \in Nat
    BY DEF TypeOK
  <2>1. Slot(round[r]) \in 0..1
    BY <2>0, SlotFact
  <2> QED
    BY <1>1, <1>7, <2>1, EmptyBagFact DEF Deliver
<1>8. CASE FinishExchange(r)
  BY <1>1, <1>8 DEF FinishExchange
<1> QED
  BY <1>3, <1>4, <1>5, <1>6, <1>7, <1>8 DEF Step

\* Who has left changes only at the end of an exchange.
LEMMA LeavingIsFinishing ==
  ASSUME IInv, NEW r \in Rank, Step(r)
  PROVE  \/ \A q \in Rank : HasLeft(q)' <=> HasLeft(q)
         \/ /\ FinishExchange(r)
            /\ HasLeft(r)'
            /\ \A q \in Rank \ {r} : HasLeft(q)' <=> HasLeft(q)
<1>t. TypeOK
  BY DEF IInv
<1>1. TypeOK'
  BY <1>t, StepType
<1>2. CASE \/ StartController(r) \/ StartVertex(r) \/ ProcessPendingController(r)
           \/ EndPending(r) \/ WhileNotEmpty(r) \/ PopAndVisit(r) \/ PopOfEmptyQueue(r)
           \/ NextStart(r) \/ QueueVisitor(r) \/ SendBcast(r)
  BY <1>1, <1>2, OwnSteps DEF OwnCode, HasLeft
<1>3. CASE BatchFull(r) \/ TestGlobalEmpty(r) \/ DestroyMailbox(r) \/ Deliver(r)
  BY <1>3 DEF BatchFull, TestGlobalEmpty, DestroyMailbox, Deliver, EnterExchange, local, HasLeft
<1>4. CASE FinishExchange(r)
  <2>1. \A q \in Rank \ {r} : HasLeft(q)' <=> HasLeft(q)
    BY <1>4, <1>t DEF FinishExchange, TypeOK, HasLeft
  <2>2. HasLeft(r) => HasLeft(r)'
    <3>1. SUFFICES ASSUME HasLeft(r) PROVE HasLeft(r)'
      OBVIOUS
    <3>2. call[r] = "wait_empty" /\ pc'[r] = Return(r)
      BY <1>4, <1>t, <3>1 DEF IInv, LeftTogether, FinishExchange, TypeOK
    <3> QED
      BY <3>2 DEF Return, HasLeft
  <2>3. CASE HasLeft(r)'
    BY <1>4, <2>1, <2>3
  <2>4. CASE ~HasLeft(r)'
    BY <2>1, <2>2, <2>4
  <2> QED
    BY <2>3, <2>4
<1> QED
  BY <1>2, <1>3, <1>4 DEF Step

\* The traversal implements what the developer guide promises: visitors work
\* until none is left, and only then do ranks return.
THEOREM Refinement == Spec => ImplementsContract
<1>1. Init => Contract!Init
  BY DEF Init, Contract!Init, HasLeft
<1>2. IInv /\ IInv' /\ [Next]_vars => [Contract!Next]_<<~Quiescent, {r \in Rank : HasLeft(r)}>>
  <2> DEFINE left == {q \in Rank : HasLeft(q)}
  <2>1. SUFFICES ASSUME IInv, IInv', [Next]_vars
                 PROVE  [Contract!Next]_<<~Quiescent, left>>
    OBVIOUS
  <2>2. CASE UNCHANGED vars \/ Done
    BY <2>2 DEF Done, vars, Quiescent, QuiescentAt, Empty, HasLeft
  <2>3. ASSUME NEW r \in Rank, Step(r)
        PROVE  [Contract!Next]_<<~Quiescent, left>>
    <3>1. Quiescent => Quiescent'
      BY <2>1, <2>3, QuiescentStays DEF IInv
    <3>2. CASE \A q \in Rank : HasLeft(q)' <=> HasLeft(q)
      <4>1. left' = left
        BY <3>2
      <4> QED
        BY <3>1, <4>1 DEF Contract!Next, Contract!Work
    <3>3. CASE /\ FinishExchange(r)
               /\ HasLeft(r)'
               /\ \A q \in Rank \ {r} : HasLeft(q)' <=> HasLeft(q)
      <4>1. CASE HasLeft(r)
        <5>1. left' = left
          BY <3>3, <4>1
        <5> QED
          BY <3>1, <5>1 DEF Contract!Next, Contract!Work
      <4>2. CASE ~HasLeft(r)
        <5>1. left' = left \cup {r}
          BY <3>3, <4>2
        <5>2. Quiescent'
          <6>1. LeftTogether'
            BY <2>1 DEF IInv
          <6>2. \A q \in Rank : QuiescentAt(q)'
            BY <3>3, <6>1 DEF LeftTogether
          <6> QED
            BY <6>2 DEF Quiescent
        <5>3. Quiescent
          BY <3>3, <5>2 DEF FinishExchange, Quiescent, QuiescentAt, Empty
        <5> QED
          BY <5>1, <5>2, <5>3 DEF Contract!Next, Contract!Leave
      <4> QED
        BY <4>1, <4>2
    <3> QED
      BY <2>1, <2>3, <3>2, <3>3, LeavingIsFinishing
  <2> QED
    BY <2>1, <2>2, <2>3 DEF Next
<1> QED
  BY <1>1, <1>2, Inductive, PTL DEF Spec, ImplementsContract, Contract!Spec

\* No visitor reaches a rank that has left: what it computed is final.
THEOREM ResultStaysFinal == Spec => ResultIsFinal
<1>1. IInv /\ [Next]_vars => [\A r \in Rank : HasLeft(r) => data'[r] = data[r]]_vars
  <2>1. SUFFICES ASSUME IInv, NEW q \in Rank, Step(q), NEW r \in Rank, HasLeft(r)
                 PROVE  data'[r] = data[r]
    BY DEF Next, Done
  <2>2. TypeOK /\ TypeOK'
    BY <2>1, StepType DEF IInv
  <2>3. /\ \A s \in Rank : call[s] \in {"none", "wait_empty", "global_empty"}
        /\ \A s \in Rank : QuiescentAt(s) /\ (call[s] = "none" => HasLeft(s))
    BY <2>1 DEF IInv, LeftTogether
  <2>4. CASE \/ StartController(q) \/ StartVertex(q) \/ ProcessPendingController(q)
             \/ EndPending(q) \/ WhileNotEmpty(q) \/ PopAndVisit(q) \/ PopOfEmptyQueue(q)
             \/ NextStart(q) \/ QueueVisitor(q) \/ SendBcast(q)
    <3>1. OwnCode(q)
      BY <2>1, <2>2, <2>4, OwnSteps
    <3> QED
      BY <2>3, <3>1 DEF OwnCode, HasLeft
  <2>5. CASE BatchFull(q) \/ TestGlobalEmpty(q) \/ DestroyMailbox(q)
    BY <2>5 DEF BatchFull, TestGlobalEmpty, DestroyMailbox, EnterExchange, local
  <2>6. CASE Deliver(q)
    <3>0. round[q] \in Nat
      BY <2>2 DEF TypeOK
    <3>1. Slot(round[q]) \in 0..1
      BY <3>0, SlotFact
    <3>2. QuiescentAt(q)
      BY <2>3
    <3>3. BagToSet(wire[q][Slot(round[q])]) = {}
      BY <3>1, <3>2, EmptyBagFact DEF QuiescentAt
    <3> QED
      BY <2>6, <3>3 DEF Deliver
  <2>7. CASE FinishExchange(q)
    BY <2>7 DEF FinishExchange
  <2> QED
    BY <2>1, <2>4, <2>5, <2>6, <2>7 DEF Step
<1> QED
  BY <1>1, Inductive, PTL DEF Spec, ResultIsFinal

-----------------------------------------------------------------------------
(* The elements of a bag.                                                  *)

\* The elements of a union.
LEMMA SumElements ==
  ASSUME NEW a, NEW b, VisitorBag(a), VisitorBag(b)
  PROVE  BagToSet(a (+) b) = BagToSet(a) \cup BagToSet(b)
BY DEF VisitorBag, IsABag, BagToSet, (+)

\* A visitor more.
LEMMA AddElements ==
  ASSUME NEW b, VisitorBag(b), NEW v \in Visitor
  PROVE  BagToSet(Add(b, v)) = BagToSet(b) \cup {v}
<1>1. VisitorBag(SetToBag({v})) /\ BagToSet(SetToBag({v})) = {v}
  BY DEF VisitorBag, IsABag, BagToSet, SetToBag
<1> QED
  BY <1>1, SumElements DEF Add

\* A visitor less.
LEMMA RemoveElements ==
  ASSUME NEW b, VisitorBag(b), NEW v
  PROVE  BagToSet(Remove(b, v)) \subseteq BagToSet(b)
BY DEF Remove, (-), VisitorBag, IsABag, BagToSet, SetToBag

-----------------------------------------------------------------------------
(* Where a visitor may travel.                                             *)

\* A broadcast of a hub goes to every rank, anything else to the master.
GoesTo(v, d) == ~(v.vertex \in Delegate /\ v.bcast) => Master[v.vertex] = d

\* A list of calls in which only visitors of hubs, with their bit set, are
\* broadcast.
Marked(ops) ==
  \A i \in 1..Len(ops) : ops[i].op = "send_bcast" =>
    ops[i].visitor.vertex \in Delegate /\ ops[i].visitor.bcast

\* The rest of every visit is such a list.
BroadcastsAreMarked == \A r \in Rank : Marked(todo[r])

\* What is buffered for a rank may travel to it.
BufferedForMaster ==
  \A r, d \in Rank : \A v \in BagToSet(box[r][d]) : GoesTo(v, d)

\* The inductive invariant behind SentToMaster.
DestinationInv == BroadcastsAreMarked /\ BufferedForMaster /\ SentToMaster

\* The calls that a list of visitors becomes contain no broadcast.
LEMMA QueueMarked ==
  ASSUME NEW vs \in Seq(Visitor)
  PROVE  Marked(Queue(vs))
<1>1. Len(vs) \in Nat
  OBVIOUS
<1>2. Len(Queue(vs)) = Len(vs)
  BY <1>1 DEF Queue
<1> QED
  BY <1>1, <1>2 DEF Queue, Marked

\* The broadcast that follows a visit is marked.
LEMMA VisitOpsMarked ==
  ASSUME NEW r, NEW v \in Visitor, NEW out, out.spawn \in Seq(Visitor)
  PROVE  Marked(VisitOps(r, v, out))
<1> DEFINE q == Queue(out.spawn)
           w == [v EXCEPT !.bcast = TRUE]
           b == << [op |-> "send_bcast", visitor |-> w] >>
<1>1. q \in Seq(Op) /\ Marked(q)
  BY QueueType, QueueMarked
<1>2. w \in Visitor /\ w.vertex = v.vertex /\ w.bcast
  BY DEF Visitor
<1>3. b \in Seq(Op) /\ Len(b) = 1 /\ b[1] = [op |-> "send_bcast", visitor |-> w]
  BY <1>2 DEF Op
<1> HIDE DEF q, w, b
<1>4. CASE out.ret /\ v.vertex \in Delegate /\ Master[v.vertex] = r
  <2>1. VisitOps(r, v, out) = q \o b
    BY <1>4 DEF VisitOps, q, b, w
  <2>2. /\ Len(q \o b) = Len(q) + 1 /\ Len(q) \in Nat
        /\ \A i \in 1..Len(q \o b) : (q \o b)[i] = IF i <= Len(q) THEN q[i] ELSE b[i - Len(q)]
    <3>1. /\ Len(q \o b) = Len(q) + Len(b)
          /\ \A i \in 1..Len(q) + Len(b) : (q \o b)[i] = IF i <= Len(q) THEN q[i] ELSE b[i - Len(q)]
      BY <1>1, <1>3, ConcatProperties, Zenon
    <3>2. Len(q) \in Nat
      BY <1>1
    <3> QED
      BY <1>3, <3>1, <3>2
  <2>3. ASSUME NEW i \in 1..Len(q \o b), (q \o b)[i].op = "send_bcast"
        PROVE  (q \o b)[i].visitor.vertex \in Delegate /\ (q \o b)[i].visitor.bcast
    <3>1. CASE i <= Len(q)
      <4>1. (q \o b)[i] = q[i]
        BY <2>2, <3>1
      <4> QED
        BY <1>1, <2>2, <2>3, <3>1, <4>1 DEF Marked
    <3>2. CASE i = Len(q) + 1
      <4>1. (q \o b)[i] = b[1]
        BY <2>2, <3>2
      <4> QED
        BY <1>2, <1>3, <1>4, <4>1
    <3> QED
      BY <2>2, <3>1, <3>2
  <2> QED
    BY <2>1, <2>3 DEF Marked
<1>5. CASE ~(out.ret /\ v.vertex \in Delegate /\ Master[v.vertex] = r)
  <2>1. VisitOps(r, v, out) = q \o << >>
    BY <1>5 DEF VisitOps, q
  <2>2. q \o << >> = q
    BY <1>1
  <2> QED
    BY <1>1, <2>1, <2>2
<1> QED
  BY <1>4, <1>5

\* What is left of a list keeps the property.
LEMMA TailMarked ==
  ASSUME NEW ops \in Seq(Op), ops # << >>, Marked(ops)
  PROVE  /\ Marked(Tail(ops))
         /\ Head(ops).op = "send_bcast" =>
              Head(ops).visitor.vertex \in Delegate /\ Head(ops).visitor.bcast
<1>1. Len(ops) \in Nat /\ Len(ops) >= 1 /\ Head(ops) = ops[1]
  OBVIOUS
<1>2. Len(Tail(ops)) = Len(ops) - 1 /\ \A i \in 1..Len(Tail(ops)) : Tail(ops)[i] = ops[i + 1]
  BY <1>1
<1>3. \A i \in 1..Len(Tail(ops)) : i + 1 \in 1..Len(ops)
  BY <1>1, <1>2
<1> QED
  BY <1>1, <1>2, <1>3 DEF Marked

\* A step that adds marked calls and leaves the mailbox alone.
LEMMA LoopDestinations ==
  ASSUME TypeOK, DestinationInv, NEW r \in Rank, NEW ops, Marked(ops),
         todo' = [todo EXCEPT ![r] = ops], UNCHANGED <<box, wire>>
  PROVE  DestinationInv'
<1>1. \A q \in Rank : todo'[q] = IF q = r THEN ops ELSE todo[q]
  BY DEF TypeOK
<1>2. BroadcastsAreMarked'
  BY <1>1 DEF DestinationInv, BroadcastsAreMarked, Marked
<1>3. BufferedForMaster' /\ SentToMaster'
  BY DEF DestinationInv, BufferedForMaster, SentToMaster, GoesTo
<1> QED
  BY <1>2, <1>3 DEF DestinationInv

\* A rank puts a visitor into some of its buffers, where it may be.
Buffers(r, v) ==
  /\ \A d \in Rank :
       box'[r][d] = box[r][d] \/ (box'[r][d] = Add(box[r][d], v) /\ GoesTo(v, d))
  /\ \A q \in Rank \ {r} : box'[q] = box[q]

\* A call that does so.
LEMMA SendDestinations ==
  ASSUME TypeOK, DestinationInv, NEW r \in Rank,
         NEW v \in Visitor, Marked(Tail(todo[r])), todo' = [todo EXCEPT ![r] = Tail(@)],
         Buffers(r, v), UNCHANGED wire
  PROVE  DestinationInv'
<1>1. \A q \in Rank : todo'[q] = IF q = r THEN Tail(todo[r]) ELSE todo[q]
  BY DEF TypeOK
<1>2. BroadcastsAreMarked'
  BY <1>1 DEF DestinationInv, BroadcastsAreMarked, Marked
<1>3. ASSUME NEW q \in Rank, NEW d \in Rank, NEW w \in BagToSet(box'[q][d])
      PROVE  GoesTo(w, d)
  <2>1. VisitorBag(box[r][d])
    BY DEF TypeOK
  <2>2. \A x \in BagToSet(box[q][d]) : GoesTo(x, d)
    BY DEF DestinationInv, BufferedForMaster
  <2>3. CASE q = r /\ box'[r][d] = Add(box[r][d], v) /\ GoesTo(v, d)
    <3>1. BagToSet(box'[q][d]) = BagToSet(box[r][d]) \cup {v}
      BY <2>1, <2>3, AddElements
    <3> QED
      BY <1>3, <2>2, <2>3, <3>1
  <2>4. CASE box'[q][d] = box[q][d]
    BY <1>3, <2>2, <2>4
  <2> QED
    BY <2>3, <2>4 DEF Buffers
<1>4. BufferedForMaster'
  BY <1>3 DEF BufferedForMaster, GoesTo
<1>5. SentToMaster'
  BY DEF DestinationInv, SentToMaster
<1> QED
  BY <1>2, <1>4, <1>5 DEF DestinationInv

\* A call of queue_visitor: to the master, or nowhere.
LEMMA QueueVisitorDestinations ==
  ASSUME TypeOK, DestinationInv, NEW r \in Rank, QueueVisitor(r)
  PROVE  DestinationInv'
<1> DEFINE v == Head(todo[r]).visitor
           m == Master[v.vertex]
<1>1. /\ todo[r] \in Seq(Op) /\ todo[r] # << >>
      /\ todo' = [todo EXCEPT ![r] = Tail(todo[r])]
      /\ UNCHANGED wire
  BY DEF QueueVisitor, Performing, TypeOK
<1>2. Marked(Tail(todo[r]))
  BY <1>1, TailMarked DEF DestinationInv, BroadcastsAreMarked
<1>3. v \in Visitor /\ m \in Rank
  <2>1. Head(todo[r]) \in Op
    BY <1>1
  <2> QED
    BY <2>1, TopologyAssumption DEF Op, Visitor
<1>4. UNCHANGED box \/ box' = [box EXCEPT ![r][m] = Add(@, v)]
  BY DEF QueueVisitor, QueueHere, Send
<1>5. CASE UNCHANGED box
  BY <1>1, <1>2, <1>5, LoopDestinations
<1>6. CASE box' = [box EXCEPT ![r][m] = Add(@, v)]
  <2>1. GoesTo(v, m)
    BY <1>3 DEF GoesTo
  <2> HIDE DEF v, m
  <2>2. /\ \A d \in Rank : box'[r][d] = IF d = m THEN Add(box[r][d], v) ELSE box[r][d]
        /\ \A q \in Rank \ {r} : box'[q] = box[q]
    BY <1>3, <1>6 DEF TypeOK
  <2>3. Buffers(r, v)
    BY <2>1, <2>2 DEF Buffers
  <2> QED
    BY <1>1, <1>2, <1>3, <2>3, SendDestinations
<1> QED
  BY <1>4, <1>5, <1>6

\* A call of send_bcast: a marked visitor, to everybody.
LEMMA SendBcastDestinations ==
  ASSUME TypeOK, DestinationInv, NEW r \in Rank, SendBcast(r)
  PROVE  DestinationInv'
<1> DEFINE v == Head(todo[r]).visitor
<1>1. /\ todo[r] \in Seq(Op) /\ todo[r] # << >> /\ Head(todo[r]).op = "send_bcast"
      /\ todo' = [todo EXCEPT ![r] = Tail(todo[r])]
      /\ UNCHANGED wire
  BY DEF SendBcast, Performing, TypeOK
<1>2. Marked(Tail(todo[r])) /\ v.vertex \in Delegate /\ v.bcast
  BY <1>1, TailMarked DEF DestinationInv, BroadcastsAreMarked
<1>3. v \in Visitor
  <2>1. Head(todo[r]) \in Op
    BY <1>1
  <2> QED
    BY <2>1 DEF Op
<1>4. box' = [box EXCEPT ![r] = [d \in Rank |-> IF d = r THEN box[r][d] ELSE Add(box[r][d], v)]]
  BY DEF SendBcast
<1> HIDE DEF v
<1>5. /\ \A d \in Rank : box'[r][d] = IF d = r THEN box[r][d] ELSE Add(box[r][d], v)
      /\ \A q \in Rank \ {r} : box'[q] = box[q]
  BY <1>4 DEF TypeOK
<1>6. Buffers(r, v)
  BY <1>2, <1>5 DEF Buffers, GoesTo
<1>7. UNCHANGED wire /\ todo' = [todo EXCEPT ![r] = Tail(@)] /\ Marked(Tail(todo[r]))
  BY <1>1, <1>2
<1> QED
  BY <1>3, <1>6, <1>7, SendDestinations

\* The buffers go out as they are.
LEMMA EnterDestinations ==
  ASSUME TypeOK, DestinationInv, NEW r \in Rank,
         NEW why \in {"batch", "global_empty", "wait_empty"}, EnterExchange(r, why)
  PROVE  DestinationInv'
<1>1. /\ \A d \in Rank : box'[r][d] = EmptyBag
      /\ \A q \in Rank \ {r} : box'[q] = box[q]
      /\ \A d \in Rank, p \in 0..1 :
           wire'[d][p] = IF p = Slot(round[r] + 1) THEN wire[d][p] (+) box[r][d] ELSE wire[d][p]
      /\ UNCHANGED todo
  BY EnterEffects
<1>2. BroadcastsAreMarked'
  BY <1>1 DEF DestinationInv, BroadcastsAreMarked, Marked
<1>3. BufferedForMaster'
  BY <1>1, EmptyBagFact DEF DestinationInv, BufferedForMaster, GoesTo
<1>4. ASSUME NEW d \in Rank, NEW p \in 0..1, NEW v \in BagToSet(wire'[d][p])
      PROVE  GoesTo(v, d)
  <2>1. VisitorBag(wire[d][p]) /\ VisitorBag(box[r][d])
    BY DEF TypeOK
  <2>2. v \in BagToSet(wire[d][p]) \cup BagToSet(box[r][d])
    BY <1>1, <1>4, <2>1, SumElements
  <2> QED
    BY <2>2 DEF DestinationInv, BufferedForMaster, SentToMaster, GoesTo
<1> QED
  BY <1>2, <1>3, <1>4 DEF DestinationInv, SentToMaster, GoesTo

\* Every step of a rank keeps visitors on their way to the right rank.
LEMMA StepDestinations ==
  ASSUME TypeOK, DestinationInv, NEW r \in Rank, Step(r)
  PROVE  DestinationInv'
<1> USE DEF mailbox
<1>1. ASSUME NEW itr \in Seq(Visitor), NEW next, StartVisit(r, itr, next)
      PROVE  DestinationInv'
  <2>1. CASE itr = << >>
    <3>1. UNCHANGED <<todo, box, wire>>
      BY <1>1, <2>1 DEF StartVisit
    <3> QED
      BY <3>1 DEF DestinationInv, BroadcastsAreMarked, Marked, BufferedForMaster, SentToMaster, GoesTo
  <2>2. CASE itr # << >>
    <3>1. PICK out \in InitVisit(r, data[r], Head(itr)) :
            todo' = [todo EXCEPT ![r] = VisitOps(r, Head(itr), out)]
      BY <1>1, <2>2 DEF StartVisit
    <3>2. Head(itr) \in Visitor /\ data[r] \in AlgData
      BY <2>2 DEF TypeOK
    <3>3. out.spawn \in Seq(Visitor)
      BY <3>1, <3>2, OutcomeTypes
    <3>4. Marked(VisitOps(r, Head(itr), out))
      BY <3>2, <3>3, VisitOpsMarked
    <3>5. UNCHANGED <<box, wire>>
      BY <1>1 DEF StartVisit
    <3> QED
      BY <3>1, <3>4, <3>5, LoopDestinations
  <2> QED
    BY <2>1, <2>2
<1>2. CASE StartController(r)
  BY <1>1, <1>2 DEF StartController, TypeOK
<1>3. CASE StartVertex(r)
  BY <1>1, <1>3 DEF StartVertex, TypeOK
<1>4. CASE ProcessPendingController(r)
  <2>1. PICK out \in Visit(r, data[r], Head(controllers[r])) :
          todo' = [todo EXCEPT ![r] = Queue(out.spawn)]
    BY <1>4 DEF ProcessPendingController
  <2>2. controllers[r] \in Seq(Visitor) /\ data[r] \in AlgData
    BY DEF TypeOK
  <2>3. Head(controllers[r]) \in Visitor
    BY <1>4, <2>2 DEF ProcessPendingController
  <2>4. Marked(Queue(out.spawn))
    BY <2>1, <2>2, <2>3, OutcomeTypes, QueueMarked
  <2>5. UNCHANGED <<box, wire>>
    BY <1>4 DEF ProcessPendingController
  <2> QED
    BY <2>1, <2>4, <2>5, LoopDestinations
<1>5. CASE PopAndVisit(r)
  <2>1. PICK v \in BagToSet(owned[r]) :
          \E out \in Visit(r, data[r], v) : todo' = [todo EXCEPT ![r] = VisitOps(r, v, out)]
    BY <1>5 DEF PopAndVisit
  <2>2. v \in Visitor /\ data[r] \in AlgData
    BY <2>1 DEF TypeOK, VisitorBag
  <2>3. PICK out \in Visit(r, data[r], v) : todo' = [todo EXCEPT ![r] = VisitOps(r, v, out)]
    BY <2>1
  <2>4. Marked(VisitOps(r, v, out))
    BY <2>2, <2>3, OutcomeTypes, VisitOpsMarked
  <2>5. UNCHANGED <<box, wire>>
    BY <1>5 DEF PopAndVisit
  <2> QED
    BY <2>3, <2>4, <2>5, LoopDestinations
<1>6. CASE \/ EndPending(r) \/ WhileNotEmpty(r) \/ PopOfEmptyQueue(r) \/ NextStart(r)
           \/ FinishExchange(r)
  <2>1. UNCHANGED <<todo, box, wire>>
    BY <1>6 DEF EndPending, WhileNotEmpty, PopOfEmptyQueue, NextStart, FinishExchange
  <2> QED
    BY <2>1 DEF DestinationInv, BroadcastsAreMarked, Marked, BufferedForMaster, SentToMaster, GoesTo
<1>7. CASE QueueVisitor(r)
  BY <1>7, QueueVisitorDestinations
<1>8. CASE SendBcast(r)
  BY <1>8, SendBcastDestinations
<1>9. CASE BatchFull(r) \/ TestGlobalEmpty(r) \/ DestroyMailbox(r)
  <2>1. PICK why \in {"batch", "global_empty", "wait_empty"} : EnterExchange(r, why)
    BY <1>9 DEF BatchFull, TestGlobalEmpty, DestroyMailbox
  <2> QED
    BY <2>1, EnterDestinations
<1>10. CASE Deliver(r)
  <2> DEFINE k == Slot(round[r])
  <2>1. PICK v \in BagToSet(wire[r][k]) : wire' = [wire EXCEPT ![r][k] = Remove(@, v)]
    BY <1>10 DEF Deliver
  <2>2. UNCHANGED <<todo, box>>
    BY <1>10 DEF Deliver
  <2>3. k \in 0..1
    BY DEF TypeOK, Slot
  <2> HIDE DEF k
  <2>4. \A d \in Rank, p \in 0..1 :
          wire'[d][p] = IF d = r /\ p = k THEN Remove(wire[r][k], v) ELSE wire[d][p]
    BY <2>1, <2>3 DEF TypeOK
  <2>5. BagToSet(Remove(wire[r][k], v)) \subseteq BagToSet(wire[r][k])
    BY <2>3, RemoveElements DEF TypeOK
  <2>6. SentToMaster'
    BY <2>4, <2>5 DEF DestinationInv, SentToMaster
  <2>7. BroadcastsAreMarked' /\ BufferedForMaster'
    BY <2>2 DEF DestinationInv, BroadcastsAreMarked, Marked, BufferedForMaster, GoesTo
  <2> QED
    BY <2>6, <2>7 DEF DestinationInv
<1> QED
  BY <1>2, <1>3, <1>4, <1>5, <1>6, <1>7, <1>8, <1>9, <1>10 DEF Step

\* Visitors only ever are where they may be.
LEMMA Destinations == Spec => []DestinationInv
<1>1. Init => DestinationInv
  <2>1. SUFFICES ASSUME Init PROVE DestinationInv
    OBVIOUS
  <2>2. PICK w \in InitialWork : todo = [r \in Rank |-> Queue(w.source[r])]
    BY <2>1 DEF Init
  <2>3. \A r \in Rank : w.source[r] \in Seq(Visitor)
    BY InitialWorkAssumption
  <2>4. BroadcastsAreMarked
    BY <2>2, <2>3, QueueMarked DEF BroadcastsAreMarked
  <2>5. BufferedForMaster /\ SentToMaster
    BY <2>1, EmptyBagFact DEF Init, BufferedForMaster, SentToMaster
  <2> QED
    BY <2>4, <2>5 DEF DestinationInv
<1>2. TypeOK /\ DestinationInv /\ [Next]_vars => DestinationInv'
  <2>1. SUFFICES ASSUME TypeOK, DestinationInv, [Next]_vars
                 PROVE  DestinationInv'
    OBVIOUS
  <2>2. CASE UNCHANGED vars \/ Done
    BY <2>1, <2>2 DEF Done, vars, DestinationInv, BroadcastsAreMarked, Marked, BufferedForMaster,
                      SentToMaster, GoesTo
  <2>3. CASE \E r \in Rank : Step(r)
    BY <2>1, <2>3, StepDestinations
  <2> QED
    BY <2>1, <2>2, <2>3 DEF Next
<1> QED
  BY <1>1, <1>2, TypeCorrect, PTL DEF Spec

\* The asserts of handle_mailbox_receive hold: a visitor that is not the
\* broadcast of a hub only ever arrives at the owner or controller of its vertex.
THEOREM VisitorsReachMaster == Spec => []SentToMaster
<1>1. DestinationInv => SentToMaster
  BY DEF DestinationInv
<1> QED
  BY <1>1, Destinations, PTL

-----------------------------------------------------------------------------
(* The exchanges keep their contract.                                      *)

\* Nothing is lost from a bag that something is added to.
LEMMA SumContains ==
  ASSUME NEW a, NEW b, VisitorBag(a), VisitorBag(b)
  PROVE  /\ a \sqsubseteq a (+) b
         /\ b = EmptyBag => a (+) b = a
<1>1. \A e \in DOMAIN a \cup DOMAIN b :
        (a (+) b)[e] = (IF e \in DOMAIN a THEN a[e] ELSE 0) + (IF e \in DOMAIN b THEN b[e] ELSE 0)
  BY DEF (+)
<1>2. DOMAIN (a (+) b) = DOMAIN a \cup DOMAIN b
  BY DEF (+)
<1>3. /\ \A e \in DOMAIN a : a[e] \in Nat
      /\ \A e \in DOMAIN b : b[e] \in Nat
  BY DEF VisitorBag, IsABag
<1>4. a \sqsubseteq a (+) b
  BY <1>1, <1>2, <1>3 DEF \sqsubseteq
<1>5. ASSUME b = EmptyBag PROVE a (+) b = a
  <2>1. DOMAIN b = {}
    BY <1>5 DEF EmptyBag, SetToBag
  <2>2. a = [e \in DOMAIN a |-> a[e]]
    BY DEF VisitorBag, IsABag
  <2>3. a (+) b = [e \in DOMAIN a |-> (a (+) b)[e]]
    BY <2>1 DEF (+)
  <2>4. \A e \in DOMAIN a : (a (+) b)[e] = a[e]
    BY <1>1, <1>3, <2>1
  <2> QED
    BY <2>2, <2>3, <2>4
<1> QED
  BY <1>4, <1>5

\* A bag loses what is taken from it.
LEMMA RemoveShrinks ==
  ASSUME NEW b, VisitorBag(b), NEW v \in BagToSet(b)
  PROVE  /\ Remove(b, v) \sqsubseteq b
         /\ Remove(b, v) # b
<1>1. Remove(b, v) = [e \in {d \in DOMAIN b : (IF d = v THEN b[d] - 1 ELSE b[d]) > 0}
                        |-> IF e = v THEN b[e] - 1 ELSE b[e]]
  BY DEF Remove, (-), SetToBag
<1>2. v \in DOMAIN b /\ \A e \in DOMAIN b : b[e] \in Nat /\ b[e] > 0
  BY DEF VisitorBag, IsABag, BagToSet
<1>3. Remove(b, v) \sqsubseteq b
  BY <1>1, <1>2 DEF \sqsubseteq
<1>4. CASE b[v] = 1
  <2>1. v \notin DOMAIN Remove(b, v)
    BY <1>1, <1>4
  <2> QED
    BY <1>2, <1>3, <2>1
<1>5. CASE b[v] # 1
  <2>1. v \in DOMAIN Remove(b, v)
    BY <1>1, <1>2, <1>5
  <2>2. Remove(b, v)[v] # b[v]
    BY <1>1, <1>2, <2>1
  <2> QED
    BY <1>3, <2>2
<1> QED
  BY <1>4, <1>5

\* What a rank was told by its last exchange, and what it announced: the
\* variables of the contract.
Answer == [r \in Rank |-> IF call[r] # "none" THEN "none"
                          ELSE IF TotalIsZero(r) THEN "empty" ELSE "some"]
Carries == [r \in Rank |-> {p \in 0..1 : posted[r][p] > 0}]

\* The empty bag of the contract is the one of the code.
LEMMA SameEmptyBag == Exchange!EmptyBag = EmptyBag
BY DEF Exchange!EmptyBag, Exchange!SetToBag, EmptyBag, SetToBag

\* What is on its way is a table of bags.
WireShape == wire = [d \in Rank |-> [p \in 0..1 |-> wire[d][p]]]

\* The table keeps its shape.
LEMMA ShapeStays ==
  ASSUME WireShape, [Next]_vars
  PROVE  WireShape'
<1>0. wire = [d \in Rank |-> wire[d]] /\ \A d \in Rank : wire[d] = [p \in 0..1 |-> wire[d][p]]
  BY DEF WireShape
<1>1. ASSUME NEW r \in Rank, NEW why, EnterExchange(r, why)
      PROVE  WireShape'
  <2>1. wire' = [d \in Rank |-> [wire[d] EXCEPT ![Slot(round[r] + 1)] = @ (+) box[r][d]]]
    BY <1>1 DEF EnterExchange
  <2> QED
    BY <1>0, <2>1 DEF WireShape
<1>2. ASSUME NEW r \in Rank, Deliver(r)
      PROVE  WireShape'
  <2>1. PICK v : wire' = [wire EXCEPT ![r] = [wire[r] EXCEPT ![Slot(round[r])] =
                                                Remove(wire[r][Slot(round[r])], v)]]
    BY <1>2 DEF Deliver
  <2> QED
    BY <1>0, <2>1 DEF WireShape
<1>3. CASE wire' = wire
  BY <1>3 DEF WireShape
<1>4. CASE UNCHANGED vars \/ Done
  BY <1>3, <1>4 DEF Done, vars
<1>5. ASSUME NEW r \in Rank, Step(r)
      PROVE  WireShape'
  <2>1. CASE StartController(r) \/ StartVertex(r)
    BY <1>3, <2>1 DEF StartController, StartVertex, StartVisit, mailbox
  <2>2. CASE \/ ProcessPendingController(r) \/ EndPending(r) \/ WhileNotEmpty(r) \/ PopAndVisit(r)
             \/ PopOfEmptyQueue(r) \/ NextStart(r) \/ QueueVisitor(r) \/ SendBcast(r)
             \/ FinishExchange(r)
    BY <1>3, <2>2 DEF ProcessPendingController, EndPending, WhileNotEmpty, PopAndVisit,
                      PopOfEmptyQueue, NextStart, QueueVisitor, SendBcast, FinishExchange, mailbox
  <2>3. CASE BatchFull(r) \/ TestGlobalEmpty(r) \/ DestroyMailbox(r)
    BY <1>1, <2>3 DEF BatchFull, TestGlobalEmpty, DestroyMailbox
  <2>4. CASE Deliver(r)
    BY <1>2, <2>4
  <2> QED
    BY <1>5, <2>1, <2>2, <2>3, <2>4 DEF Step
<1> QED
  BY <1>4, <1>5 DEF Next

\* A rank that is not in an exchange keeps its answer while others enter.
LEMMA AnswersStay ==
  ASSUME IInv, NEW r \in Rank, call[r] = "none",
         NEW why \in {"batch", "global_empty", "wait_empty"}, EnterExchange(r, why)
  PROVE  Answer' = [Answer EXCEPT ![r] = "none"]
<1>t. TypeOK
  BY DEF IInv
<1>n. round[r] \in Nat /\ Slot(round[r]) \in 0..1 /\ Slot(round[r] + 1) \in 0..1
      /\ Slot(round[r] + 1) # Slot(round[r])
  BY <1>t, SlotFact DEF TypeOK
<1>e. /\ call' = [call EXCEPT ![r] = why]
      /\ round' = [round EXCEPT ![r] = round[r] + 1]
      /\ \A q \in Rank, p \in 0..1 :
           posted'[q][p] = IF q = r /\ p = Slot(round[r] + 1) THEN sendCount[r] ELSE posted[q][p]
  BY <1>t, EnterEffects
<1>1. (\A q \in Rank \ {r} : call'[q] = call[q] /\ round'[q] = round[q]) /\ call'[r] = why
  <2>1. DOMAIN call = Rank /\ DOMAIN round = Rank
    BY <1>t DEF TypeOK
  <2> QED
    BY <1>e, <2>1
<1>2. call'[r] # "none"
  BY <1>1
<1>3. ASSUME NEW q \in Rank \ {r}, call[q] = "none"
      PROVE  TotalIsZero(q)' <=> TotalIsZero(q)
  <2>1. round[q] = round[r]
    <3>1. round[q] >= round[r] /\ round[r] >= round[q]
      BY <1>3 DEF IInv, LockStep
    <3>2. round[q] \in Nat
      BY <1>t DEF TypeOK
    <3> QED
      BY <1>n, <3>1, <3>2
  <2>2. \A s \in Rank : posted'[s][Slot(round[r])] = posted[s][Slot(round[r])]
    BY <1>e, <1>n
  <2>3. round'[q] = round[r]
    BY <1>1, <2>1
  <2> QED
    BY <2>1, <2>2, <2>3 DEF TotalIsZero
<1>4. ASSUME NEW q \in Rank
      PROVE  Answer'[q] = IF q = r THEN "none" ELSE Answer[q]
  BY <1>1, <1>2, <1>3 DEF Answer
<1> QED
  BY <1>4 DEF Answer

\* Entering do_exchange enters the exchange of the contract.
LEMMA EnterKeepsContract ==
  ASSUME IInv, WireShape, NEW r \in Rank, call[r] = "none",
         NEW why \in {"batch", "global_empty", "wait_empty"}, EnterExchange(r, why)
  PROVE  Exchange!Enter(r)
<1>t. TypeOK
  BY DEF IInv
<1> DEFINE p == Slot(round[r] + 1)
<1>n. round[r] \in Nat /\ sendCount[r] \in Nat /\ p \in 0..1
  BY <1>t, SlotFact DEF TypeOK
<1>1. Answer' = [Answer EXCEPT ![r] = "none"] /\ Answer[r] # "none"
  BY AnswersStay DEF Answer
<1>2. round' = [round EXCEPT ![r] = @ + 1]
  BY <1>t, EnterEffects
<1>3. Carries' = [Carries EXCEPT ![r] = IF sendCount[r] > 0 THEN @ \cup {p} ELSE @ \ {p}]
  <2>1. \A q \in Rank, s \in 0..1 :
          posted'[q][s] = IF q = r /\ s = p THEN sendCount[r] ELSE posted[q][s]
    BY <1>t, EnterEffects
  <2> HIDE DEF p
  <2>2. ASSUME NEW q \in Rank \ {r}
        PROVE  Carries'[q] = Carries[q]
    BY <2>1 DEF Carries
  <2>3. Carries'[r] = IF sendCount[r] > 0 THEN Carries[r] \cup {p} ELSE Carries[r] \ {p}
    BY <1>n, <2>1 DEF Carries
  <2>4. Carries' = [q \in Rank |-> Carries'[q]] /\ Carries = [q \in Rank |-> Carries[q]]
    BY DEF Carries
  <2> QED
    BY <2>2, <2>3, <2>4
<1>4. \A d \in Rank, s \in 0..1 :
        wire'[d][s] = IF s = p THEN wire[d][s] (+) box[r][d] ELSE wire[d][s]
  BY <1>t, EnterEffects
<1>5. \A d \in Rank : wire'[d] = [wire[d] EXCEPT ![p] = wire[d][p] (+) box[r][d]]
  BY DEF EnterExchange
<1>6. /\ wire' = [d \in Rank |-> wire'[d]] /\ wire = [d \in Rank |-> wire[d]]
      /\ \A d \in Rank : wire[d] = [s \in 0..1 |-> wire[d][s]]
  <2>1. wire' = [d \in Rank |-> wire'[d]]
    BY DEF EnterExchange
  <2> QED
    BY <2>1 DEF WireShape
<1>7. \A d \in Rank : VisitorBag(wire[d][p]) /\ VisitorBag(box[r][d])
  BY <1>n, <1>t DEF TypeOK
<1> HIDE DEF p
<1>8. ~(sendCount[r] > 0) => wire' = wire
  <2>1. SUFFICES ASSUME sendCount[r] = 0, NEW d \in Rank
                 PROVE  wire'[d] = wire[d]
    <3>1. ~(sendCount[r] > 0) => sendCount[r] = 0
      BY <1>n
    <3> QED
      BY <1>6, <3>1
  <2>2. box[r][d] = EmptyBag
    BY <2>1 DEF IInv, BuffersAreCounted
  <2>3. wire[d][p] (+) box[r][d] = wire[d][p]
    BY <1>7, <2>2, SumContains
  <2> QED
    BY <1>5, <1>6, <2>3
<1>9. ASSUME NEW d \in Rank
      PROVE  wire[d][p] \sqsubseteq wire'[d][p] /\ wire'[d][1 - p] = wire[d][1 - p]
  <2>1. 1 - p \in 0..1 /\ 1 - p # p
    BY <1>n
  <2> QED
    BY <1>4, <1>7, <1>n, <2>1, SumContains
<1>10. Exchange!Slot(round[r] + 1) = p
  BY DEF Exchange!Slot, Slot, p
<1>11. \/ Carries' = [Carries EXCEPT ![r] = @ \cup {p}]
       \/ Carries' = [Carries EXCEPT ![r] = @ \ {p}] /\ wire' = wire
  BY <1>3, <1>8
<1> QED
  BY <1>1, <1>2, <1>9, <1>10, <1>11
     DEF Exchange!Enter, Exchange!Inside, Answer, Carries, Exchange!\sqsubseteq, \sqsubseteq

\* A delivery receives in the exchange of the contract.
LEMMA DeliverKeepsContract ==
  ASSUME IInv, NEW r \in Rank, Deliver(r)
  PROVE  Exchange!Receive(r)
<1>t. TypeOK
  BY DEF IInv
<1> DEFINE p == Slot(round[r])
<1>n. p \in 0..1
  BY <1>t, SlotFact DEF TypeOK
<1>1. PICK v \in BagToSet(wire[r][p]) : wire' = [wire EXCEPT ![r][p] = Remove(@, v)]
  BY DEF Deliver
<1>2. call[r] # "none" /\ UNCHANGED <<call, round, posted>>
  BY DEF Deliver
<1>3. UNCHANGED <<Answer, round, Carries>> /\ Answer[r] = "none"
  BY <1>2 DEF Answer, Carries, TotalIsZero
<1> HIDE DEF p
<1>4. wire'[r][p] = Remove(wire[r][p], v)
  BY <1>1, <1>n, <1>t DEF TypeOK
<1>5. wire' = [wire EXCEPT ![r][p] = wire'[r][p]]
  BY <1>1, <1>4
<1>6. wire'[r][p] # wire[r][p] /\ wire'[r][p] \sqsubseteq wire[r][p]
  BY <1>4, <1>n, <1>t, RemoveShrinks DEF TypeOK
<1>7. Exchange!Slot(round[r]) = p
  BY DEF Exchange!Slot, Slot, p
<1> QED
  BY <1>3, <1>5, <1>6, <1>7 DEF Exchange!Receive, Exchange!Inside, Answer, Carries,
     Exchange!\sqsubseteq, \sqsubseteq

\* The end of do_exchange leaves the exchange of the contract.
LEMMA FinishKeepsContract ==
  ASSUME IInv, NEW r \in Rank, FinishExchange(r)
  PROVE  Exchange!Leave(r)
<1>t. TypeOK
  BY DEF IInv
<1> DEFINE p == Slot(round[r])
<1>n. p \in 0..1
  BY <1>t, SlotFact DEF TypeOK
<1>1. /\ call[r] # "none" /\ \A q \in Rank : round[q] >= round[r]
      /\ wire[r][p] = EmptyBag
      /\ call' = [call EXCEPT ![r] = "none"]
      /\ UNCHANGED <<round, posted, wire>>
  BY DEF FinishExchange, AllEntered
<1>2. TotalIsZero(r) <=> \A q \in Rank : p \notin Carries[q]
  <2>1. \A q \in Rank : posted[q][p] \in Nat
    BY <1>n, <1>t DEF TypeOK
  <2> QED
    BY <1>n, <2>1 DEF TotalIsZero, Carries
<1>3. \A q \in Rank : TotalIsZero(q)' <=> TotalIsZero(q)
  BY <1>1 DEF TotalIsZero
<1>4. ASSUME NEW q \in Rank
      PROVE  Answer'[q] = IF q = r THEN IF TotalIsZero(r) THEN "empty" ELSE "some" ELSE Answer[q]
  <2>1. call'[q] = IF q = r THEN "none" ELSE call[q]
    BY <1>1, <1>t DEF TypeOK
  <2> QED
    BY <1>3, <2>1 DEF Answer
<1>5. Answer' = [Answer EXCEPT ![r] = IF \A q \in Rank : p \notin Carries[q] THEN "empty" ELSE "some"]
  BY <1>2, <1>4 DEF Answer
<1>6. UNCHANGED <<round, Carries, wire>> /\ Answer[r] = "none"
  BY <1>1 DEF Answer, Carries
<1>7. Exchange!Slot(round[r]) = p
  BY DEF Exchange!Slot, Slot
<1> HIDE DEF p
<1> QED
  BY <1>1, <1>5, <1>6, <1>7, SameEmptyBag DEF Exchange!Leave, Exchange!Inside, Answer, Carries

\* The exchanges among the ranks, as the visitor queue sees them, keep the
\* contract of CollectiveExchange: all that was sent to a rank in an exchange
\* arrives in it, and what every rank is told is whether anything was sent.
THEOREM ExchangesKeepContract == Spec => KeepsExchange
<1>1. Init => Exchange!Init
  <2>1. SUFFICES ASSUME Init PROVE Exchange!Init
    OBVIOUS
  <2>2. \A r \in Rank : call[r] = "none" /\ round[r] = 0 /\ \A p \in 0..1 : posted[r][p] = 0
    BY <2>1 DEF Init
  <2>3. Slot(0) \in 0..1
    BY SlotFact
  <2>4. \A r \in Rank : TotalIsZero(r)
    BY <2>2, <2>3 DEF TotalIsZero
  <2>5. Answer = [r \in Rank |-> "empty"]
    BY <2>2, <2>4 DEF Answer
  <2>6. Carries = [r \in Rank |-> {}]
    BY <2>2 DEF Carries
  <2> QED
    BY <2>1, <2>5, <2>6, SameEmptyBag DEF Exchange!Init, Init, Answer, Carries
<1>2. IInv /\ WireShape /\ [Next]_vars => [Exchange!Next]_<<Answer, round, Carries, wire>>
  <2>1. SUFFICES ASSUME IInv, WireShape, [Next]_vars
                 PROVE  [Exchange!Next]_<<Answer, round, Carries, wire>>
    OBVIOUS
  <2>2. ASSUME UNCHANGED <<call, round, posted, wire>>
        PROVE  UNCHANGED <<Answer, round, Carries, wire>>
    BY <2>2 DEF Answer, Carries, TotalIsZero
  <2>3. CASE UNCHANGED vars \/ Done
    <3>1. UNCHANGED <<call, round, posted, wire>>
      BY <2>3 DEF Done, vars
    <3> QED
      BY <2>2, <3>1
  <2>4. ASSUME NEW r \in Rank, Step(r)
        PROVE  [Exchange!Next]_<<Answer, round, Carries, wire>>
    <3>1. CASE \/ StartController(r) \/ StartVertex(r) \/ ProcessPendingController(r)
               \/ EndPending(r) \/ WhileNotEmpty(r) \/ PopAndVisit(r) \/ PopOfEmptyQueue(r)
               \/ NextStart(r) \/ QueueVisitor(r) \/ SendBcast(r)
      <4>1. TypeOK'
        BY <2>1, <2>4, StepType DEF IInv
      <4>2. UNCHANGED <<call, round, posted, wire>>
        BY <2>1, <3>1, <4>1, OwnSteps DEF OwnCode
      <4> QED
        BY <2>2, <4>2
    <3>2. CASE BatchFull(r) \/ TestGlobalEmpty(r) \/ DestroyMailbox(r)
      <4>1. PICK why \in {"batch", "global_empty", "wait_empty"} : EnterExchange(r, why)
        BY <3>2 DEF BatchFull, TestGlobalEmpty, DestroyMailbox
      <4>2. call[r] = "none"
        BY <3>2 DEF BatchFull, TestGlobalEmpty, DestroyMailbox, Idle, Running
      <4> QED
        BY <2>1, <4>1, <4>2, EnterKeepsContract DEF Exchange!Next
    <3>3. CASE Deliver(r)
      BY <2>1, <3>3, DeliverKeepsContract DEF Exchange!Next
    <3>4. CASE FinishExchange(r)
      BY <2>1, <3>4, FinishKeepsContract DEF Exchange!Next
    <3> QED
      BY <2>4, <3>1, <3>2, <3>3, <3>4 DEF Step
  <2> QED
    BY <2>1, <2>3, <2>4 DEF Next
<1>3. Init => WireShape
  BY DEF Init, WireShape
<1>4. WireShape /\ [Next]_vars => WireShape'
  BY ShapeStays
<1> QED
  BY <1>1, <1>2, <1>3, <1>4, Inductive, PTL DEF Spec, KeepsExchange, Exchange!Spec, Exchange!vars, Answer, Carries

-----------------------------------------------------------------------------
(* The places of the visitors.                                             *)

Elements(s) == {s[i] : i \in DOMAIN s}

\* The visitors of one kind of calls in a list of calls.
Those(ops, op) == {ops[i].visitor : i \in {j \in 1..Len(ops) : ops[j].op = op}}

\* The elements of a list, of which one has been taken off or put on.
LEMMA ListElements ==
  ASSUME NEW S, NEW s \in Seq(S)
  PROVE  /\ Elements(s) \subseteq S
         /\ s = << >> => Elements(s) = {}
         /\ s # << >> => /\ Head(s) \in Elements(s) /\ Elements(Tail(s)) \subseteq Elements(s)
                         /\ Elements(s) \subseteq Elements(Tail(s)) \cup {Head(s)}
         /\ \A x \in S : Elements(Append(s, x)) = Elements(s) \cup {x}
<1>1. Len(s) \in Nat /\ \A i \in 1..Len(s) : s[i] \in S
  OBVIOUS
<1>2. Elements(s) \subseteq S
  BY <1>1 DEF Elements
<1>3. s = << >> => Elements(s) = {}
  BY DEF Elements
<1>4. ASSUME s # << >>
      PROVE  /\ Head(s) \in Elements(s) /\ Elements(Tail(s)) \subseteq Elements(s)
             /\ Elements(s) \subseteq Elements(Tail(s)) \cup {Head(s)}
  <2>1. Len(s) >= 1 /\ Head(s) = s[1]
    BY <1>1, <1>4
  <2>2. /\ Len(Tail(s)) = Len(s) - 1 /\ \A i \in 1..Len(s) - 1 : Tail(s)[i] = s[i + 1]
        /\ DOMAIN Tail(s) = 1..Len(s) - 1
    BY <1>1, <1>4
  <2>3. ASSUME NEW i \in 1..Len(s), i # 1
        PROVE  s[i] \in Elements(Tail(s))
    <3>1. i - 1 \in 1..Len(s) - 1 /\ Tail(s)[i - 1] = s[i]
      BY <1>1, <2>2, <2>3
    <3> QED
      BY <2>2, <3>1 DEF Elements
  <2>4. Elements(Tail(s)) \subseteq Elements(s)
    <3> SUFFICES ASSUME NEW i \in 1..Len(s) - 1
                 PROVE  Tail(s)[i] \in Elements(s)
      BY <2>2 DEF Elements
    <3>1. i + 1 \in 1..Len(s) /\ Tail(s)[i] = s[i + 1]
      BY <1>1, <2>2
    <3> QED
      BY <3>1 DEF Elements
  <2>5. Head(s) \in Elements(s)
    BY <1>1, <2>1 DEF Elements
  <2>6. ASSUME NEW x \in Elements(s), x # Head(s)
        PROVE  x \in Elements(Tail(s))
    <3>1. PICK i \in 1..Len(s) : x = s[i]
      BY DEF Elements
    <3>2. i # 1
      BY <2>1, <2>6, <3>1
    <3> QED
      BY <2>3, <3>1, <3>2
  <2> QED
    BY <2>4, <2>5, <2>6
<1>5. ASSUME NEW x \in S
      PROVE  Elements(Append(s, x)) = Elements(s) \cup {x}
  <2>1. Len(Append(s, x)) = Len(s) + 1
    BY <1>1
  <2>2. \A i \in 1..Len(s) + 1 : Append(s, x)[i] = IF i = Len(s) + 1 THEN x ELSE s[i]
    BY <1>1
  <2>3. \A y : y \in Elements(Append(s, x)) <=> y \in Elements(s) \/ y = x
    BY <1>1, <2>1, <2>2 DEF Elements
  <2> QED
    BY <2>3
<1> QED
  BY <1>2, <1>3, <1>4, <1>5

\* The calls of a list, of which the first is made.
LEMMA ThoseOfTail ==
  ASSUME NEW ops \in Seq(Op), ops # << >>, NEW op
  PROVE  /\ Those(Tail(ops), op) \subseteq Those(ops, op)
         /\ Those(ops, op) \subseteq Those(Tail(ops), op) \cup {Head(ops).visitor}
         /\ Head(ops).op = op => Head(ops).visitor \in Those(ops, op)
         /\ Head(ops).op # op => Those(Tail(ops), op) = Those(ops, op)
<1>1. Len(ops) \in Nat /\ Len(ops) >= 1 /\ Head(ops) = ops[1]
  OBVIOUS
<1>2. Len(Tail(ops)) = Len(ops) - 1 /\ \A i \in 1..Len(ops) - 1 : Tail(ops)[i] = ops[i + 1]
  BY <1>1
<1>3. \A i \in 1..Len(ops) : i # 1 => i - 1 \in 1..Len(ops) - 1 /\ Tail(ops)[i - 1] = ops[i]
  BY <1>1, <1>2
<1>4. \A i \in 1..Len(ops) - 1 : i + 1 \in 1..Len(ops)
  BY <1>1
<1>5. \A x : x \in Those(ops, op) <=> \E i \in 1..Len(ops) : ops[i].op = op /\ x = ops[i].visitor
  BY DEF Those
<1>6. \A x : x \in Those(Tail(ops), op) <=>
               \E i \in 1..Len(ops) - 1 : Tail(ops)[i].op = op /\ x = Tail(ops)[i].visitor
  BY <1>2 DEF Those
<1>7. Those(Tail(ops), op) \subseteq Those(ops, op)
  BY <1>2, <1>4, <1>5, <1>6
<1>8. \A x \in Those(ops, op) : x \in Those(Tail(ops), op) \/ (Head(ops).op = op /\ x = Head(ops).visitor)
  BY <1>1, <1>3, <1>5, <1>6
<1>9. Head(ops).op = op => Head(ops).visitor \in Those(ops, op)
  BY <1>1, <1>5
<1> QED
  BY <1>7, <1>8, <1>9

\* The calls that a list of visitors becomes.
LEMMA ThoseOfQueue ==
  ASSUME NEW vs \in Seq(Visitor)
  PROVE  Those(Queue(vs), "queue_visitor") = Elements(vs) /\ Those(Queue(vs), "send_bcast") = {}
<1>1. Len(vs) \in Nat /\ Len(Queue(vs)) = Len(vs)
  BY DEF Queue
<1>2. \A i \in 1..Len(vs) : Queue(vs)[i].op = "queue_visitor" /\ Queue(vs)[i].visitor = vs[i]
  BY <1>1 DEF Queue
<1>3. \A x : x \in Those(Queue(vs), "queue_visitor") <=> x \in Elements(vs)
  BY <1>1, <1>2 DEF Those, Elements
<1>4. \A x : x \notin Those(Queue(vs), "send_bcast")
  BY <1>1, <1>2 DEF Those
<1> QED
  BY <1>3, <1>4

\* The broadcast that follows a visit.
Copy(r, v, out) ==
  IF out.ret /\ v.vertex \in Delegate /\ Master[v.vertex] = r THEN {[v EXCEPT !.bcast = TRUE]} ELSE {}

\* The calls of a visit, and the broadcast that follows it.
LEMMA ThoseOfVisit ==
  ASSUME NEW r, NEW v \in Visitor, NEW out, out.spawn \in Seq(Visitor)
  PROVE  /\ Those(VisitOps(r, v, out), "queue_visitor") = Elements(out.spawn)
         /\ Those(VisitOps(r, v, out), "send_bcast") = Copy(r, v, out)
<1> DEFINE q == Queue(out.spawn)
           w == [v EXCEPT !.bcast = TRUE]
           b == << [op |-> "send_bcast", visitor |-> w] >>
<1>1. q \in Seq(Op) /\ Those(q, "queue_visitor") = Elements(out.spawn) /\ Those(q, "send_bcast") = {}
  BY QueueType, ThoseOfQueue
<1>2. b \in Seq(Op) /\ Len(b) = 1 /\ b[1] = [op |-> "send_bcast", visitor |-> w]
  <2>1. w \in Visitor
    BY DEF Visitor
  <2> QED
    BY <2>1 DEF Op
<1> HIDE DEF q, w, b
<1>3. CASE out.ret /\ v.vertex \in Delegate /\ Master[v.vertex] = r
  <2>1. VisitOps(r, v, out) = q \o b /\ Copy(r, v, out) = {w}
    BY <1>3 DEF VisitOps, Copy, q, b, w
  <2>2. /\ Len(q \o b) = Len(q) + Len(b)
        /\ \A i \in 1..Len(q) + Len(b) : (q \o b)[i] = IF i <= Len(q) THEN q[i] ELSE b[i - Len(q)]
    BY <1>1, <1>2, ConcatProperties, Zenon
  <2>3. Len(q) \in Nat
    BY <1>1
  <2>4. \A i \in 1..Len(q) : i \in 1..Len(q) + 1 /\ (q \o b)[i] = q[i]
    BY <1>2, <2>2, <2>3
  <2>5. Len(q) + 1 \in 1..Len(q) + 1 /\ (q \o b)[Len(q) + 1] = b[1]
    BY <1>2, <2>2, <2>3
  <2>6. \A i \in 1..Len(q) + 1 : i \in 1..Len(q) \/ i = Len(q) + 1
    BY <2>3
  <2>7. ASSUME NEW op
        PROVE  \A x : x \in Those(q \o b, op) <=> x \in Those(q, op) \/ (op = "send_bcast" /\ x = w)
    <3>1. \A x : x \in Those(q \o b, op) <=>
                   \E i \in 1..Len(q) + 1 : (q \o b)[i].op = op /\ x = (q \o b)[i].visitor
      BY <1>2, <2>2 DEF Those
    <3>2. \A x : x \in Those(q, op) <=> \E i \in 1..Len(q) : q[i].op = op /\ x = q[i].visitor
      BY DEF Those
    <3>3. b[1].op = "send_bcast" /\ b[1].visitor = w
      BY <1>2
    <3>4. ASSUME NEW x \in Those(q \o b, op)
          PROVE  x \in Those(q, op) \/ (op = "send_bcast" /\ x = w)
      <4>1. PICK i \in 1..Len(q) + 1 : (q \o b)[i].op = op /\ x = (q \o b)[i].visitor
        BY <3>1
      <4>2. CASE i \in 1..Len(q)
        BY <2>4, <3>2, <4>1, <4>2
      <4>3. CASE i = Len(q) + 1
        BY <2>5, <3>3, <4>1, <4>3
      <4> QED
        BY <2>6, <4>2, <4>3
    <3>5. ASSUME NEW x \in Those(q, op)
          PROVE  x \in Those(q \o b, op)
      BY <2>4, <3>1, <3>2
    <3>6. op = "send_bcast" => w \in Those(q \o b, op)
      BY <2>5, <3>1, <3>3
    <3> QED
      BY <3>4, <3>5, <3>6
  <2> QED
    BY <1>1, <2>1, <2>7
<1>4. CASE ~(out.ret /\ v.vertex \in Delegate /\ Master[v.vertex] = r)
  <2>1. VisitOps(r, v, out) = q \o << >> /\ Copy(r, v, out) = {}
    BY <1>4 DEF VisitOps, Copy, q
  <2>2. q \o << >> = q
    BY <1>1
  <2> QED
    BY <1>1, <2>1, <2>2
<1> QED
  BY <1>3, <1>4

-----------------------------------------------------------------------------
(* The items of the flow.                                                  *)

\* What each rank has at the start iterators, in the calls of the visit it is
\* executing, in its local queues, and in the buffers and messages for it.
Starting(r) == Elements(citr[r]) \cup Elements(vitr[r])
Calling(r) == Those(todo[r], "queue_visitor")
Casting(r) == Those(todo[r], "send_bcast")
Visiting(r) == BagToSet(owned[r])
Hearing(r) == Elements(controllers[r])
Coming(r) ==
  (UNION {BagToSet(box[q][r]) : q \in Rank}) \cup BagToSet(wire[r][0]) \cup BagToSet(wire[r][1])

IsBroadcast(v) == v.vertex \in Delegate /\ v.bcast

\* Only the visitor that is taken may be missed in a bag.
LEMMA RemoveKeeps ==
  ASSUME NEW b, VisitorBag(b), NEW v
  PROVE  BagToSet(b) \subseteq BagToSet(Remove(b, v)) \cup {v}
BY DEF Remove, (-), VisitorBag, IsABag, BagToSet, SetToBag

\* The visitor waits on r for the step.  A broadcast is heard by the replicas.
Waits(r, step, v) ==
  \/ step = "start" /\ v \in Starting(r)
  \/ step = "call" /\ v \in Calling(r)
  \/ step = "sent" /\ v \in Coming(r) /\ ~IsBroadcast(v)
  \/ step = "visit" /\ v \in Visiting(r)
  \/ /\ step = "hear"
     /\ \/ v \in Hearing(r)
        \/ /\ Master[v.vertex] # r
           /\ \/ v \in Coming(r) /\ IsBroadcast(v)
              \/ \E q \in Rank \ {r} : v \in Casting(q)

Items ==
  {w \in [rank : Rank, step : {"start", "call", "sent", "visit", "hear"}, visitor : Visitor] :
     Waits(w.rank, w.step, w.visitor)}

Flow == INSTANCE VisitorFlow WITH items <- Items

\* New visitors do not carry the bit of a broadcast.
NewVisitorsArePlain ==
  /\ \A r \in Rank, a \in AlgData, v \in Visitor :
       \A out \in Visit(r, a, v) \cup InitVisit(r, a, v) :
         \A i \in DOMAIN out.spawn : ~out.spawn[i].bcast
  /\ \A w \in InitialWork : \A r \in Rank :
       \A i \in DOMAIN w.source[r] : ~w.source[r][i].bcast

\* Nor do the visitors that a rank is about to queue.
CallsArePlain == \A r \in Rank : \A v \in Calling(r) : ~v.bcast

\* Where visitors are when the types are right.
LEMMA PlacesType ==
  ASSUME TypeOK, NEW r \in Rank
  PROVE  /\ citr[r] \in Seq(Visitor) /\ vitr[r] \in Seq(Visitor)
         /\ todo[r] \in Seq(Op) /\ data[r] \in AlgData
         /\ controllers[r] \in Seq(Visitor)
         /\ VisitorBag(owned[r])
         /\ \A d \in Rank : VisitorBag(box[r][d])
         /\ \A p \in 0..1 : VisitorBag(wire[r][p])
BY DEF TypeOK

LEMMA ComingElement ==
  ASSUME NEW r \in Rank, NEW v
  PROVE  v \in Coming(r) <=> \/ \E q \in Rank : v \in BagToSet(box[q][r])
                             \/ \E p \in 0..1 : v \in BagToSet(wire[r][p])
<1>1. \A p : p \in 0..1 <=> p = 0 \/ p = 1
  OBVIOUS
<1> QED
  BY <1>1 DEF Coming

LEMMA ComingNext ==
  ASSUME NEW r \in Rank, NEW v
  PROVE  v \in Coming(r)' <=> \/ \E q \in Rank : v \in BagToSet(box'[q][r])
                              \/ \E p \in 0..1 : v \in BagToSet(wire'[r][p])
<1>1. \A p : p \in 0..1 <=> p = 0 \/ p = 1
  OBVIOUS
<1> QED
  BY <1>1 DEF Coming

\* A step that moves no visitor.
LEMMA SameItems ==
  ASSUME \A q \in Rank : /\ Starting(q)' = Starting(q) /\ Calling(q)' = Calling(q)
                         /\ Casting(q)' = Casting(q) /\ Visiting(q)' = Visiting(q)
                         /\ Hearing(q)' = Hearing(q) /\ Coming(q)' = Coming(q)
  PROVE  Items' = Items
<1>1. ASSUME NEW r \in Rank, NEW step, NEW v
      PROVE  Waits(r, step, v)' <=> Waits(r, step, v)
  BY DEF Waits
<1> QED
  BY <1>1 DEF Items

\* A step that takes one item and makes others.
LEMMA ItemsMove ==
  ASSUME NEW w \in Items, NEW new,
         new \subseteq Flow!Item,
         \A x \in new : Waits(x.rank, x.step, x.visitor)',
         \A x \in Flow!Item : Waits(x.rank, x.step, x.visitor)'
                                => Waits(x.rank, x.step, x.visitor) \/ x \in new,
         \A x \in Flow!Item : Waits(x.rank, x.step, x.visitor)
                                => Waits(x.rank, x.step, x.visitor)' \/ x = w
  PROVE  Flow!Moves(w, new)
<1>1. new \subseteq Items'
  BY DEF Items, Flow!Item
<1>2. Items' \subseteq Items \cup new
  BY DEF Items, Flow!Item
<1>3. Items \ {w} \subseteq Items'
  BY DEF Items, Flow!Item
<1> QED
  BY <1>1, <1>2, <1>3 DEF Flow!Moves

\* What the visit of v on r leads to.
Copies(r, v, out) == {Flow!At(d, "hear", x) : d \in Rank \ {r}, x \in Copy(r, v, out)}

LEMMA CopiesAreBroadcast ==
  ASSUME NEW r \in Rank, NEW v \in Visitor, NEW out
  PROVE  /\ Copies(r, v, out) = Flow!Broadcast(r, v, out)
         /\ \A x \in Copy(r, v, out) : x \in Visitor /\ Master[x.vertex] = r /\ IsBroadcast(x)
<1>1. [v EXCEPT !.bcast = TRUE] \in Visitor /\ [v EXCEPT !.bcast = TRUE].vertex = v.vertex
      /\ [v EXCEPT !.bcast = TRUE].bcast
  BY DEF Visitor
<1>2. \A x \in Copy(r, v, out) : x \in Visitor /\ Master[x.vertex] = r /\ IsBroadcast(x)
  BY <1>1 DEF Copy, IsBroadcast
<1>3. Copies(r, v, out) = Flow!Broadcast(r, v, out)
  <2> DEFINE b == [v EXCEPT !.bcast = TRUE]
             on == out.ret /\ v.vertex \in Delegate /\ Master[v.vertex] = r
  <2>1. Copy(r, v, out) = IF on THEN {b} ELSE {}
    BY DEF Copy
  <2>2. Flow!Broadcast(r, v, out) = IF on THEN {Flow!At(d, "hear", b) : d \in Rank \ {r}} ELSE {}
    BY DEF Flow!Broadcast
  <2> HIDE DEF b, on
  <2>3. CASE on
    <3>1. \A y : y \in Copies(r, v, out) <=> \E d \in Rank \ {r} : y = Flow!At(d, "hear", b)
      BY <2>1, <2>3 DEF Copies
    <3>2. \A y : y \in Flow!Broadcast(r, v, out) <=> \E d \in Rank \ {r} : y = Flow!At(d, "hear", b)
      BY <2>2, <2>3
    <3> QED
      BY <3>1, <3>2
  <2>4. CASE ~on
    BY <2>1, <2>2, <2>4 DEF Copies
  <2> QED
    BY <2>3, <2>4
<1> QED
  BY <1>2, <1>3

\* A visit: its visitor is taken from where it waits, its calls and a broadcast
\* are what the rank executes now.
VisitEffect(r, step, v, out, sent) ==
  /\ \A q \in Rank :
       /\ Calling(q)' = IF q = r THEN Elements(out.spawn) ELSE Calling(q)
       /\ Casting(q)' = IF q = r THEN sent ELSE Casting(q)
       /\ Starting(q)' \subseteq Starting(q)
       /\ Visiting(q)' \subseteq Visiting(q)
       /\ Hearing(q)' \subseteq Hearing(q)
       /\ Coming(q)' = Coming(q)
  /\ \A q \in Rank : \A x :
       /\ x \in Starting(q) => x \in Starting(q)' \/ (q = r /\ step = "start" /\ x = v)
       /\ x \in Visiting(q) => x \in Visiting(q)' \/ (q = r /\ step = "visit" /\ x = v)
       /\ x \in Hearing(q) => x \in Hearing(q)' \/ (q = r /\ step = "hear" /\ x = v)

LEMMA VisitMoves ==
  ASSUME TypeOK, NEW r \in Rank, NEW step \in {"start", "visit", "hear"}, NEW v \in Visitor,
         NEW out, out.spawn \in Seq(Visitor), NEW sent, sent \subseteq Copy(r, v, out),
         Waits(r, step, v), Calling(r) = {}, Casting(r) = {},
         VisitEffect(r, step, v, out, sent)
  PROVE  Flow!Moves(Flow!At(r, step, v),
           Flow!Calls(r, out) \cup {Flow!At(d, "hear", x) : d \in Rank \ {r}, x \in sent})
<1> DEFINE w == Flow!At(r, step, v)
           bc == {Flow!At(d, "hear", x) : d \in Rank \ {r}, x \in sent}
           new == Flow!Calls(r, out) \cup bc
<1>1. w \in Items
  BY DEF Items, Flow!At
<1>2. \A x : x \in Flow!Calls(r, out) <=> \E y \in Elements(out.spawn) : x = Flow!At(r, "call", y)
  BY DEF Flow!Calls, Elements
<1>3. \A x : x \in bc <=> \E d \in Rank \ {r} : \E y \in sent : x = Flow!At(d, "hear", y)
  OBVIOUS
<1>4. Elements(out.spawn) \subseteq Visitor
  BY ListElements
<1>5. \A x \in sent : x \in Visitor /\ Master[x.vertex] = r /\ IsBroadcast(x)
  BY CopiesAreBroadcast
<1>6. new \subseteq Flow!Item
  BY <1>2, <1>3, <1>4, <1>5 DEF Flow!Item, Flow!At
<1> HIDE DEF bc
<1>7. ASSUME NEW x \in new
      PROVE  Waits(x.rank, x.step, x.visitor)'
  <2>1. CASE x \in Flow!Calls(r, out)
    <3>1. PICK y \in Elements(out.spawn) : x = Flow!At(r, "call", y)
      BY <1>2, <2>1
    <3>2. x.rank = r /\ x.step = "call" /\ x.visitor = y
      BY <3>1 DEF Flow!At
    <3>3. y \in Calling(r)'
      BY DEF VisitEffect
    <3> QED
      BY <3>2, <3>3 DEF Waits
  <2>2. CASE x \in bc
    <3>1. PICK d \in Rank \ {r}, y \in sent : x = Flow!At(d, "hear", y)
      BY <1>3, <2>2
    <3>2. x.rank = d /\ x.step = "hear" /\ x.visitor = y
      BY <3>1 DEF Flow!At
    <3>3. y \in Casting(r)' /\ Master[y.vertex] # d
      BY <1>5 DEF VisitEffect
    <3> QED
      BY <3>2, <3>3 DEF Waits
  <2> QED
    BY <2>1, <2>2
<1>8. ASSUME NEW x \in Flow!Item, Waits(x.rank, x.step, x.visitor)'
      PROVE  Waits(x.rank, x.step, x.visitor) \/ x \in new
  <2> DEFINE q == x.rank
             y == x.visitor
  <2>1. q \in Rank /\ y \in Visitor /\ x = Flow!At(q, x.step, y)
    BY DEF Flow!Item, Flow!At
  <2> HIDE DEF q, y
  <2>2. CASE x.step = "call" /\ q = r
    <3>1. y \in Elements(out.spawn)
      BY <1>8, <2>1, <2>2 DEF VisitEffect, Waits, q, y
    <3> QED
      BY <1>2, <2>1, <2>2, <3>1
  <2>3. CASE x.step = "hear" /\ q # r /\ y \in Casting(r)'
    <3>1. y \in sent
      BY <2>1, <2>3 DEF VisitEffect
    <3> QED
      BY <1>3, <2>1, <2>3, <3>1
  <2>4. CASE ~(x.step = "call" /\ q = r) /\ ~(x.step = "hear" /\ q # r /\ y \in Casting(r)')
    <3>1. Waits(q, x.step, y)'
      BY <1>8 DEF q, y
    <3>2. Waits(q, x.step, y)
      BY <2>1, <2>4, <3>1 DEF VisitEffect, Waits
    <3> QED
      BY <3>2 DEF q, y
  <2> QED
    BY <2>2, <2>3, <2>4
<1>9. ASSUME NEW x \in Flow!Item, Waits(x.rank, x.step, x.visitor), x # w
      PROVE  Waits(x.rank, x.step, x.visitor)'
  <2> DEFINE q == x.rank
             y == x.visitor
  <2>1. q \in Rank /\ y \in Visitor /\ x = Flow!At(q, x.step, y)
    BY DEF Flow!Item, Flow!At
  <2>2. ~(q = r /\ x.step = step /\ y = v)
    BY <1>9, <2>1
  <2>3. Waits(q, x.step, y)
    BY <1>9
  <2> HIDE DEF q, y
  <2>4. Waits(q, x.step, y)'
    BY <2>1, <2>2, <2>3 DEF VisitEffect, Waits
  <2> QED
    BY <2>4 DEF q, y
<1> HIDE DEF w, new
<1>10. Flow!Moves(w, new)
  BY <1>1, <1>6, <1>7, <1>8, <1>9, ItemsMove
<1> QED
  BY <1>10 DEF w, new, bc

\* What the steps of a traversal leave alone.
SameBuffers == \A q \in Rank : Coming(q)' = Coming(q)

LEMMA BuffersStay ==
  ASSUME UNCHANGED <<box, wire>>
  PROVE  SameBuffers
BY DEF SameBuffers, Coming

\* The calls of one rank have changed.
LEMMA CallsOf ==
  ASSUME TypeOK, NEW r \in Rank, NEW ops, todo' = [todo EXCEPT ![r] = ops]
  PROVE  \A q \in Rank :
           /\ Calling(q)' = IF q = r THEN Those(ops, "queue_visitor") ELSE Calling(q)
           /\ Casting(q)' = IF q = r THEN Those(ops, "send_bcast") ELSE Casting(q)
<1>1. \A q \in Rank : todo'[q] = IF q = r THEN ops ELSE todo[q]
  BY DEF TypeOK
<1> QED
  BY <1>1 DEF Calling, Casting

LEMMA NoCalls ==
  ASSUME NEW r \in Rank, todo[r] = << >>
  PROVE  Calling(r) = {} /\ Casting(r) = {}
BY DEF Calling, Casting, Those

\* An iterator gives its next start visitor.
LEMMA StartFlows ==
  ASSUME TypeOK, NEW r \in Rank, Idle(r), NEW itr \in Seq(Visitor), NEW next,
         StartVisit(r, itr, next), Elements(itr) \subseteq Starting(r),
         \A q \in Rank :
           /\ Starting(q)' \subseteq Starting(q)
           /\ itr = << >> => Starting(q)' = Starting(q)
           /\ \A x \in Starting(q) :
                x \in Starting(q)' \/ (q = r /\ itr # << >> /\ x = Head(itr))
  PROVE  \/ Items' = Items /\ data' = data
         \/ \E w \in Items : Flow!Start(w)
<1>1. /\ UNCHANGED <<owned, controllers, box, wire>>
      /\ todo[r] = << >>
  BY DEF StartVisit, mailbox, Idle
<1>2. \A q \in Rank : Visiting(q)' = Visiting(q) /\ Hearing(q)' = Hearing(q) /\ Coming(q)' = Coming(q)
  BY <1>1, BuffersStay DEF Visiting, Hearing, SameBuffers
<1>3. CASE itr = << >>
  <2>1. UNCHANGED <<todo, data>>
    BY <1>3 DEF StartVisit
  <2>2. \A q \in Rank : Calling(q)' = Calling(q) /\ Casting(q)' = Casting(q)
    BY <2>1 DEF Calling, Casting
  <2> QED
    BY <1>2, <1>3, <2>1, <2>2, SameItems
<1>4. CASE itr # << >>
  <2> DEFINE v == Head(itr)
  <2>1. PICK out \in InitVisit(r, data[r], v) :
          data' = [data EXCEPT ![r] = out.data] /\ todo' = [todo EXCEPT ![r] = VisitOps(r, v, out)]
    BY <1>4 DEF StartVisit
  <2>2. v \in Visitor /\ v \in Elements(itr) /\ data[r] \in AlgData
    BY <1>4, ListElements, PlacesType
  <2>3. out.spawn \in Seq(Visitor)
    BY <2>1, <2>2, OutcomeTypes
  <2>4. Waits(r, "start", v)
    BY <2>2 DEF Waits
  <2> HIDE DEF v
  <2>5. VisitEffect(r, "start", v, out, Copy(r, v, out))
    <3> DEFINE ops == VisitOps(r, v, out)
    <3>1. Those(ops, "queue_visitor") = Elements(out.spawn) /\ Those(ops, "send_bcast") = Copy(r, v, out)
      BY <2>2, <2>3, ThoseOfVisit
    <3>2. todo' = [todo EXCEPT ![r] = ops]
      BY <2>1
    <3> HIDE DEF ops
    <3>3. \A q \in Rank : /\ Calling(q)' = IF q = r THEN Elements(out.spawn) ELSE Calling(q)
                          /\ Casting(q)' = IF q = r THEN Copy(r, v, out) ELSE Casting(q)
      BY <3>1, <3>2, CallsOf
    <3>4. \A q \in Rank : \A x \in Starting(q) : x \in Starting(q)' \/ (q = r /\ x = v)
      BY DEF v
    <3> QED
      BY <1>2, <3>3, <3>4 DEF VisitEffect
  <2>6. Calling(r) = {} /\ Casting(r) = {}
    BY <1>1, NoCalls
  <2>7. Flow!Moves(Flow!At(r, "start", v), Flow!Calls(r, out) \cup Flow!Broadcast(r, v, out))
    <3> DEFINE sent == Copy(r, v, out)
    <3> HIDE DEF sent
    <3>1. sent \subseteq Copy(r, v, out) /\ VisitEffect(r, "start", v, out, sent)
      BY <2>5 DEF sent
    <3>2. Flow!Moves(Flow!At(r, "start", v),
            Flow!Calls(r, out) \cup {Flow!At(d, "hear", x) : d \in Rank \ {r}, x \in sent})
      BY <2>2, <2>3, <2>4, <2>6, <3>1, VisitMoves
    <3>3. {Flow!At(d, "hear", x) : d \in Rank \ {r}, x \in sent} = Flow!Broadcast(r, v, out)
      BY <2>2, CopiesAreBroadcast DEF Copies, sent
    <3> QED
      BY <3>2, <3>3 DEF Flow!Moves
  <2>8. Flow!At(r, "start", v) \in Items
    BY <2>2, <2>4 DEF Items, Flow!At
  <2>9. Flow!Start(Flow!At(r, "start", v))
    BY <2>1, <2>7 DEF Flow!Start, Flow!At, Flow!Became
  <2> QED
    BY <2>8, <2>9
<1> QED
  BY <1>3, <1>4

LEMMA StartControllerFlows ==
  ASSUME TypeOK, NEW r \in Rank, StartController(r)
  PROVE  \/ Items' = Items /\ data' = data
         \/ \E w \in Items : Flow!Start(w)
<1> DEFINE itr == citr[r]
<1>1. /\ Idle(r) /\ itr \in Seq(Visitor) /\ StartVisit(r, itr, "vertices")
      /\ citr' = [citr EXCEPT ![r] = IF itr = << >> THEN itr ELSE Tail(itr)] /\ vitr' = vitr
  BY PlacesType DEF StartController
<1>2. \A q \in Rank : citr'[q] = IF q = r /\ itr # << >> THEN Tail(itr) ELSE citr[q]
  BY <1>1 DEF TypeOK
<1>3. /\ Elements(itr) \subseteq Starting(r)
      /\ itr # << >> => /\ Elements(Tail(itr)) \subseteq Elements(itr)
                        /\ Elements(itr) \subseteq Elements(Tail(itr)) \cup {Head(itr)}
  BY <1>1, ListElements DEF Starting
<1>4. ASSUME NEW q \in Rank
      PROVE  /\ Starting(q)' \subseteq Starting(q)
             /\ itr = << >> => Starting(q)' = Starting(q)
             /\ \A x \in Starting(q) :
                  x \in Starting(q)' \/ (q = r /\ itr # << >> /\ x = Head(itr))
  <2>1. Starting(q)' = Elements(citr'[q]) \cup Elements(vitr[q])
    BY <1>1 DEF Starting
  <2>2. CASE q = r /\ itr # << >>
    <3>1. citr'[q] = Tail(itr) /\ citr[q] = itr
      BY <1>2, <2>2
    <3> HIDE DEF itr
    <3> QED
      BY <1>3, <2>1, <2>2, <3>1 DEF Starting
  <2>3. CASE ~(q = r /\ itr # << >>)
    <3>1. citr'[q] = citr[q]
      BY <1>2, <2>3
    <3> QED
      BY <2>1, <2>3, <3>1 DEF Starting
  <2> QED
    BY <2>2, <2>3
<1> HIDE DEF itr
<1> QED
  BY <1>1, <1>3, <1>4, StartFlows

LEMMA StartVertexFlows ==
  ASSUME TypeOK, NEW r \in Rank, StartVertex(r)
  PROVE  \/ Items' = Items /\ data' = data
         \/ \E w \in Items : Flow!Start(w)
<1> DEFINE itr == vitr[r]
<1>1. /\ Idle(r) /\ itr \in Seq(Visitor) /\ StartVisit(r, itr, "pending")
      /\ vitr' = [vitr EXCEPT ![r] = IF itr = << >> THEN itr ELSE Tail(itr)] /\ citr' = citr
  BY PlacesType DEF StartVertex
<1>2. \A q \in Rank : vitr'[q] = IF q = r /\ itr # << >> THEN Tail(itr) ELSE vitr[q]
  BY <1>1 DEF TypeOK
<1>3. /\ Elements(itr) \subseteq Starting(r)
      /\ itr # << >> => /\ Elements(Tail(itr)) \subseteq Elements(itr)
                        /\ Elements(itr) \subseteq Elements(Tail(itr)) \cup {Head(itr)}
  BY <1>1, ListElements DEF Starting
<1>4. ASSUME NEW q \in Rank
      PROVE  /\ Starting(q)' \subseteq Starting(q)
             /\ itr = << >> => Starting(q)' = Starting(q)
             /\ \A x \in Starting(q) :
                  x \in Starting(q)' \/ (q = r /\ itr # << >> /\ x = Head(itr))
  <2>1. Starting(q)' = Elements(citr[q]) \cup Elements(vitr'[q])
    BY <1>1 DEF Starting
  <2>2. CASE q = r /\ itr # << >>
    <3>1. vitr'[q] = Tail(itr) /\ vitr[q] = itr
      BY <1>2, <2>2
    <3> HIDE DEF itr
    <3> QED
      BY <1>3, <2>1, <2>2, <3>1 DEF Starting
  <2>3. CASE ~(q = r /\ itr # << >>)
    <3>1. vitr'[q] = vitr[q]
      BY <1>2, <2>3
    <3> QED
      BY <2>1, <2>3, <3>1 DEF Starting
  <2> QED
    BY <2>2, <2>3
<1> HIDE DEF itr
<1> QED
  BY <1>1, <1>3, <1>4, StartFlows

\* A broadcast visitor is visited.
LEMMA ProcessPendingControllerFlows ==
  ASSUME TypeOK, NEW r \in Rank, ProcessPendingController(r)
  PROVE  \E w \in Items : Flow!Hear(w)
<1> DEFINE v == Head(controllers[r])
<1>1. /\ todo[r] = << >> /\ controllers[r] # << >>
      /\ controllers' = [controllers EXCEPT ![r] = Tail(controllers[r])]
      /\ UNCHANGED <<citr, vitr, owned, box, wire>>
  BY DEF ProcessPendingController, Idle, mailbox
<1>2. PICK out \in Visit(r, data[r], v) :
        data' = [data EXCEPT ![r] = out.data] /\ todo' = [todo EXCEPT ![r] = Queue(out.spawn)]
  BY DEF ProcessPendingController
<1>3. /\ v \in Visitor /\ v \in Elements(controllers[r]) /\ data[r] \in AlgData
      /\ Elements(Tail(controllers[r])) \subseteq Elements(controllers[r])
      /\ Elements(controllers[r]) \subseteq Elements(Tail(controllers[r])) \cup {v}
  BY <1>1, ListElements, PlacesType
<1>4. out.spawn \in Seq(Visitor)
  BY <1>2, <1>3, OutcomeTypes
<1>5. \A q \in Rank : controllers'[q] = IF q = r THEN Tail(controllers[r]) ELSE controllers[q]
  BY <1>1 DEF TypeOK
<1> HIDE DEF v
<1>6. Waits(r, "hear", v)
  BY <1>3 DEF Waits, Hearing
<1>7. VisitEffect(r, "hear", v, out, {})
  <2> DEFINE ops == Queue(out.spawn)
  <2>1. Those(ops, "queue_visitor") = Elements(out.spawn) /\ Those(ops, "send_bcast") = {}
    BY <1>4, ThoseOfQueue
  <2>2. todo' = [todo EXCEPT ![r] = ops]
    BY <1>2
  <2> HIDE DEF ops
  <2>3. \A q \in Rank : /\ Calling(q)' = IF q = r THEN Elements(out.spawn) ELSE Calling(q)
                        /\ Casting(q)' = IF q = r THEN {} ELSE Casting(q)
    BY <2>1, <2>2, CallsOf
  <2>4. \A q \in Rank : /\ Hearing(q)' \subseteq Hearing(q)
                        /\ \A x \in Hearing(q) : x \in Hearing(q)' \/ (q = r /\ x = v)
    BY <1>3, <1>5 DEF Hearing
  <2>5. \A q \in Rank : Starting(q)' = Starting(q) /\ Visiting(q)' = Visiting(q) /\ Coming(q)' = Coming(q)
    BY <1>1, BuffersStay DEF Starting, Visiting, SameBuffers
  <2> QED
    BY <2>3, <2>4, <2>5 DEF VisitEffect
<1>8. Flow!Moves(Flow!At(r, "hear", v), Flow!Calls(r, out))
  <2> DEFINE sent == {}
  <2>1. {Flow!At(d, "hear", x) : d \in Rank \ {r}, x \in sent} = {}
    OBVIOUS
  <2>2. sent \subseteq Copy(r, v, out) /\ VisitEffect(r, "hear", v, out, sent)
    BY <1>7
  <2> HIDE DEF sent
  <2>3. Calling(r) = {} /\ Casting(r) = {}
    BY <1>1, NoCalls
  <2>4. Flow!Moves(Flow!At(r, "hear", v),
          Flow!Calls(r, out) \cup {Flow!At(d, "hear", x) : d \in Rank \ {r}, x \in sent})
    BY <1>3, <1>4, <1>6, <2>2, <2>3, VisitMoves
  <2> QED
    BY <2>1, <2>4 DEF Flow!Moves
<1>9. Flow!At(r, "hear", v) \in Items
  BY <1>3, <1>6 DEF Items, Flow!At
<1>10. Flow!Hear(Flow!At(r, "hear", v))
  BY <1>2, <1>8 DEF Flow!Hear, Flow!At, Flow!Became, v
<1> QED
  BY <1>9, <1>10

\* A visitor of the local queue is visited.
LEMMA PopAndVisitFlows ==
  ASSUME TypeOK, NEW r \in Rank, PopAndVisit(r)
  PROVE  \E w \in Items : Flow!Run(w)
<1>1. PICK v \in BagToSet(owned[r]) :
        /\ owned' = [owned EXCEPT ![r] = Remove(owned[r], v)]
        /\ \E out \in Visit(r, data[r], v) :
             data' = [data EXCEPT ![r] = out.data] /\ todo' = [todo EXCEPT ![r] = VisitOps(r, v, out)]
  BY DEF PopAndVisit
<1>2. PICK out \in Visit(r, data[r], v) :
        data' = [data EXCEPT ![r] = out.data] /\ todo' = [todo EXCEPT ![r] = VisitOps(r, v, out)]
  BY <1>1
<1>3. todo[r] = << >> /\ UNCHANGED <<citr, vitr, controllers, box, wire>>
  BY DEF PopAndVisit, Idle, mailbox
<1>4. v \in Visitor /\ data[r] \in AlgData /\ VisitorBag(owned[r])
  BY PlacesType DEF VisitorBag
<1>5. out.spawn \in Seq(Visitor)
  BY <1>2, <1>4, OutcomeTypes
<1>6. \A q \in Rank : owned'[q] = IF q = r THEN Remove(owned[r], v) ELSE owned[q]
  BY <1>1 DEF TypeOK
<1>7. Waits(r, "visit", v)
  BY DEF Waits, Visiting
<1>8. VisitEffect(r, "visit", v, out, Copy(r, v, out))
  <2> DEFINE ops == VisitOps(r, v, out)
  <2>1. Those(ops, "queue_visitor") = Elements(out.spawn) /\ Those(ops, "send_bcast") = Copy(r, v, out)
    BY <1>4, <1>5, ThoseOfVisit
  <2>2. todo' = [todo EXCEPT ![r] = ops]
    BY <1>2
  <2> HIDE DEF ops
  <2>3. \A q \in Rank : /\ Calling(q)' = IF q = r THEN Elements(out.spawn) ELSE Calling(q)
                        /\ Casting(q)' = IF q = r THEN Copy(r, v, out) ELSE Casting(q)
    BY <2>1, <2>2, CallsOf
  <2>4. \A q \in Rank : /\ Visiting(q)' \subseteq Visiting(q)
                        /\ \A x \in Visiting(q) : x \in Visiting(q)' \/ (q = r /\ x = v)
    BY <1>4, <1>6, RemoveElements, RemoveKeeps DEF Visiting
  <2>5. \A q \in Rank : Starting(q)' = Starting(q) /\ Hearing(q)' = Hearing(q) /\ Coming(q)' = Coming(q)
    BY <1>3, BuffersStay DEF Starting, Hearing, SameBuffers
  <2> QED
    BY <2>3, <2>4, <2>5 DEF VisitEffect
<1>9. Flow!Moves(Flow!At(r, "visit", v), Flow!Calls(r, out) \cup Flow!Broadcast(r, v, out))
  <2> DEFINE sent == Copy(r, v, out)
  <2> HIDE DEF sent
  <2>1. sent \subseteq Copy(r, v, out) /\ VisitEffect(r, "visit", v, out, sent)
    BY <1>8 DEF sent
  <2>2. Calling(r) = {} /\ Casting(r) = {}
    BY <1>3, NoCalls
  <2>3. Flow!Moves(Flow!At(r, "visit", v),
          Flow!Calls(r, out) \cup {Flow!At(d, "hear", x) : d \in Rank \ {r}, x \in sent})
    BY <1>4, <1>5, <1>7, <2>1, <2>2, VisitMoves
  <2>4. {Flow!At(d, "hear", x) : d \in Rank \ {r}, x \in sent} = Flow!Broadcast(r, v, out)
    BY <1>4, CopiesAreBroadcast DEF Copies, sent
  <2> QED
    BY <2>3, <2>4 DEF Flow!Moves
<1>10. Flow!At(r, "visit", v) \in Items
  BY <1>4, <1>7 DEF Items, Flow!At
<1>11. Flow!Run(Flow!At(r, "visit", v))
  BY <1>2, <1>9 DEF Flow!Run, Flow!At, Flow!Became
<1> QED
  BY <1>10, <1>11

-----------------------------------------------------------------------------
(* The calls of a visit and the exchanges.                                 *)

\* The item w is taken and those of new appear, in local queues and buffers.
PassEffect(w, new) ==
  \A q \in Rank : \A x :
    /\ x \in Starting(q)' <=> x \in Starting(q)
    /\ x \in Casting(q)' <=> x \in Casting(q)
    /\ x \in Hearing(q)' <=> x \in Hearing(q)
    /\ x \in Calling(q)' => x \in Calling(q)
    /\ x \in Calling(q) => x \in Calling(q)' \/ w = Flow!At(q, "call", x)
    /\ x \in Visiting(q)' <=> x \in Visiting(q) \/ Flow!At(q, "visit", x) \in new
    /\ x \in Coming(q)' => x \in Coming(q) \/ Flow!At(q, "sent", x) \in new
    /\ x \in Coming(q) => x \in Coming(q)' \/ w = Flow!At(q, "sent", x)
    /\ Flow!At(q, "sent", x) \in new => x \in Coming(q)'

LEMMA PassMoves ==
  ASSUME NEW w \in Items, w.step = "sent" => ~IsBroadcast(w.visitor),
         NEW new, new \subseteq Flow!Item,
         \A x \in new : x.step = "visit" \/ (x.step = "sent" /\ ~IsBroadcast(x.visitor)),
         PassEffect(w, new)
  PROVE  Flow!Moves(w, new)
<1>1. \A x \in Flow!Item : x.rank \in Rank /\ x = Flow!At(x.rank, x.step, x.visitor)
  BY DEF Flow!Item, Flow!At
<1>2. \A q, step, x : /\ Flow!At(q, step, x).rank = q /\ Flow!At(q, step, x).step = step
                      /\ Flow!At(q, step, x).visitor = x
  BY DEF Flow!At
<1>3. ASSUME NEW x \in new
      PROVE  Waits(x.rank, x.step, x.visitor)'
  <2> DEFINE q == x.rank
             y == x.visitor
  <2>1. q \in Rank /\ x = Flow!At(q, x.step, y) /\ (x.step = "sent" => ~IsBroadcast(y))
    BY <1>1
  <2> HIDE DEF q, y
  <2>2. CASE x.step = "visit"
    <3>1. y \in Visiting(q)'
      BY <2>1, <2>2 DEF PassEffect
    <3> QED
      BY <2>2, <3>1 DEF Waits, q, y
  <2>3. CASE x.step = "sent"
    <3>1. y \in Coming(q)'
      BY <2>1, <2>3 DEF PassEffect
    <3>2. Waits(q, "sent", y)'
      BY <2>1, <2>3, <3>1 DEF Waits, IsBroadcast
    <3> QED
      BY <2>3, <3>2 DEF q, y
  <2> QED
    BY <2>2, <2>3
<1>4. ASSUME NEW q \in Rank, NEW step, NEW y, Waits(q, step, y)', Flow!At(q, step, y) \notin new
      PROVE  Waits(q, step, y)
  <2>1. CASE step = "hear"
    <3>1. y \in Coming(q)' /\ IsBroadcast(y) => y \in Coming(q)
      BY <1>2 DEF PassEffect
    <3> QED
      BY <1>4, <2>1, <3>1 DEF PassEffect, Waits, IsBroadcast
  <2>2. CASE step # "hear"
    BY <1>4, <2>2 DEF PassEffect, Waits, IsBroadcast
  <2> QED
    BY <2>1, <2>2
<1>5. ASSUME NEW q \in Rank, NEW step, NEW y, Waits(q, step, y), Flow!At(q, step, y) # w
      PROVE  Waits(q, step, y)'
  <2>1. CASE step = "hear"
    <3>1. y \in Coming(q) /\ IsBroadcast(y) => y \in Coming(q)'
      BY <1>2 DEF PassEffect
    <3> QED
      BY <1>5, <2>1, <3>1 DEF PassEffect, Waits, IsBroadcast
  <2>2. CASE step # "hear"
    BY <1>5, <2>2 DEF PassEffect, Waits, IsBroadcast
  <2> QED
    BY <2>1, <2>2
<1>6. \A x \in Flow!Item : Waits(x.rank, x.step, x.visitor)'
                             => Waits(x.rank, x.step, x.visitor) \/ x \in new
  BY <1>1, <1>4
<1>7. \A x \in Flow!Item : Waits(x.rank, x.step, x.visitor)
                             => Waits(x.rank, x.step, x.visitor)' \/ x = w
  BY <1>1, <1>5
<1> QED
  BY <1>3, <1>6, <1>7, ItemsMove

\* A visitor enters a local queue.
LEMMA PushPlaces ==
  ASSUME TypeOK, NEW r \in Rank, NEW v \in Visitor, Push(r, v)
  PROVE  \A q \in Rank : \A x : x \in Visiting(q)' <=> x \in Visiting(q) \/ (q = r /\ x = v)
<1>1. \A q \in Rank : owned'[q] = IF q = r THEN Add(owned[r], v) ELSE owned[q]
  BY DEF Push, TypeOK
<1>2. BagToSet(Add(owned[r], v)) = BagToSet(owned[r]) \cup {v}
  BY PlacesType, AddElements
<1>3. \A q \in Rank : Visiting(q)' = IF q = r THEN BagToSet(owned[r]) \cup {v} ELSE Visiting(q)
  BY <1>1, <1>2 DEF Visiting
<1> QED
  BY <1>3 DEF Visiting

\* A visitor enters a buffer.
LEMMA SendPlaces ==
  ASSUME TypeOK, NEW r \in Rank, NEW d \in Rank, NEW v \in Visitor, Send(r, d, v), wire' = wire
  PROVE  \A q \in Rank : \A x : x \in Coming(q)' <=> x \in Coming(q) \/ (q = d /\ x = v)
<1>1. \A s, q \in Rank : box'[s][q] = IF s = r /\ q = d THEN Add(box[r][d], v) ELSE box[s][q]
  BY DEF Send, TypeOK
<1>2. BagToSet(Add(box[r][d], v)) = BagToSet(box[r][d]) \cup {v}
  BY PlacesType, AddElements
<1> SUFFICES ASSUME NEW q \in Rank, NEW x
             PROVE  x \in Coming(q)' <=> x \in Coming(q) \/ (q = d /\ x = v)
  OBVIOUS
<1>3. \A s \in Rank : x \in BagToSet(box'[s][q]) <=>
                        x \in BagToSet(box[s][q]) \/ (s = r /\ q = d /\ x = v)
  BY <1>1, <1>2
<1> QED
  BY <1>3, ComingElement, ComingNext

\* A call of queue_visitor.
LEMMA QueueVisitorFlows ==
  ASSUME TypeOK, CallsArePlain, NEW r \in Rank, QueueVisitor(r)
  PROVE  \E w \in Items : Flow!Call(w)
<1> DEFINE v == Head(todo[r]).visitor
           m == Master[v.vertex]
           w == Flow!At(r, "call", v)
<1>1. /\ todo[r] # << >> /\ Head(todo[r]).op = "queue_visitor"
      /\ todo' = [todo EXCEPT ![r] = Tail(todo[r])]
      /\ UNCHANGED <<citr, vitr, controllers, wire>>
  BY DEF QueueVisitor, Performing
<1>2. /\ Head(todo[r]) \in Op
      /\ Those(Tail(todo[r]), "queue_visitor") \subseteq Calling(r)
      /\ Calling(r) \subseteq Those(Tail(todo[r]), "queue_visitor") \cup {v}
      /\ Those(Tail(todo[r]), "send_bcast") = Casting(r)
      /\ v \in Calling(r)
  BY <1>1, PlacesType, ThoseOfTail DEF Calling, Casting
<1>3. v \in Visitor /\ m \in Rank /\ ~v.bcast
  BY <1>2, TopologyAssumption DEF Op, Visitor, CallsArePlain
<1>4. \A q \in Rank : /\ Calling(q)' = IF q = r THEN Those(Tail(todo[r]), "queue_visitor") ELSE Calling(q)
                      /\ Casting(q)' = IF q = r THEN Casting(r) ELSE Casting(q)
  BY <1>1, <1>2, CallsOf
<1>5. \A q \in Rank : \A x :
        /\ x \in Starting(q)' <=> x \in Starting(q)
        /\ x \in Casting(q)' <=> x \in Casting(q)
        /\ x \in Hearing(q)' <=> x \in Hearing(q)
        /\ x \in Calling(q)' => x \in Calling(q)
        /\ x \in Calling(q) => x \in Calling(q)' \/ (q = r /\ x = v)
  BY <1>1, <1>2, <1>4 DEF Starting, Hearing
<1>6. w \in Items /\ w.step = "call" /\ w.rank = r /\ w.visitor = v
  BY <1>2, <1>3 DEF Items, Flow!At, Waits
<1>7. ASSUME UNCHANGED <<owned, box>>
      PROVE  Flow!Moves(w, {})
  <2>1. SameBuffers /\ \A q \in Rank : Visiting(q)' = Visiting(q)
    BY <1>1, <1>7, BuffersStay DEF Visiting
  <2>2. PassEffect(w, {})
    BY <1>5, <2>1 DEF PassEffect, SameBuffers
  <2> QED
    BY <1>6, <2>2, PassMoves
<1>8. ASSUME Push(r, v), UNCHANGED box
      PROVE  Flow!Moves(w, {Flow!At(r, "visit", v)})
  <2> DEFINE new == {Flow!At(r, "visit", v)}
  <2>1. SameBuffers
    BY <1>1, <1>8, BuffersStay
  <2>2. \A q \in Rank : \A x : x \in Visiting(q)' <=> x \in Visiting(q) \/ (q = r /\ x = v)
    BY <1>3, <1>8, PushPlaces
  <2>3. \A q \in Rank : \A x : /\ Flow!At(q, "visit", x) \in new <=> q = r /\ x = v
                               /\ Flow!At(q, "sent", x) \notin new
    BY DEF Flow!At
  <2>4. new \subseteq Flow!Item /\ \A x \in new : x.step = "visit"
    BY <1>3 DEF Flow!Item, Flow!At
  <2> HIDE DEF v, w, new
  <2>5. PassEffect(w, new)
    BY <1>5, <2>1, <2>2, <2>3 DEF PassEffect, SameBuffers, w
  <2>6. Flow!Moves(w, new)
    BY <1>6, <2>4, <2>5, PassMoves
  <2> QED
    BY <2>6 DEF new
<1>9. ASSUME Send(r, m, v), UNCHANGED owned
      PROVE  Flow!Moves(w, {Flow!At(m, "sent", v)})
  <2> DEFINE new == {Flow!At(m, "sent", v)}
  <2>1. \A q \in Rank : Visiting(q)' = Visiting(q)
    BY <1>9 DEF Visiting
  <2>2. \A q \in Rank : \A x : x \in Coming(q)' <=> x \in Coming(q) \/ (q = m /\ x = v)
    <3> HIDE DEF v, m
    <3> QED
      BY <1>1, <1>3, <1>9, SendPlaces
  <2>3. \A q \in Rank : \A x : /\ Flow!At(q, "sent", x) \in new <=> q = m /\ x = v
                               /\ Flow!At(q, "visit", x) \notin new
    BY DEF Flow!At
  <2>4. new \subseteq Flow!Item /\ \A x \in new : x.step = "sent" /\ ~IsBroadcast(x.visitor)
    BY <1>3 DEF Flow!Item, Flow!At, IsBroadcast
  <2> HIDE DEF v, m, w, new
  <2>5. PassEffect(w, new)
    BY <1>5, <2>1, <2>2, <2>3 DEF PassEffect, w
  <2>6. Flow!Moves(w, new)
    BY <1>6, <2>4, <2>5, PassMoves
  <2> QED
    BY <2>6 DEF new
<1>10. CASE v.vertex \in Delegate \/ m = r
  <2>1. QueueHere(r, v)
    BY <1>10 DEF QueueVisitor
  <2> HIDE DEF v, m, w
  <2>2. PICK out \in PreVisit(r, data[r], v) :
          /\ data' = [data EXCEPT ![r] = out.data]
          /\ \/ ~out.ret /\ UNCHANGED <<owned, box>>
             \/ out.ret /\ m = r /\ Push(r, v) /\ UNCHANGED box
             \/ out.ret /\ m # r /\ Send(r, m, v) /\ UNCHANGED owned
    BY <2>1 DEF QueueHere, m
  <2>3. Flow!Moves(w, IF ~out.ret THEN {} ELSE {Flow!At(m, IF m = r THEN "visit" ELSE "sent", v)})
    <3>1. CASE ~out.ret /\ UNCHANGED <<owned, box>>
      BY <1>7, <3>1
    <3>2. CASE out.ret /\ m = r /\ Push(r, v) /\ UNCHANGED box
      BY <1>8, <3>2
    <3>3. CASE out.ret /\ m # r /\ Send(r, m, v) /\ UNCHANGED owned
      BY <1>9, <3>3
    <3> QED
      BY <2>2, <3>1, <3>2, <3>3
  <2>4. Flow!Call(w)
    BY <1>6, <1>10, <2>2, <2>3 DEF Flow!Call, Flow!Became, m
  <2> QED
    BY <1>6, <2>4
<1>11. CASE ~(v.vertex \in Delegate \/ m = r)
  <2>1. Send(r, m, v) /\ UNCHANGED <<data, owned>>
    BY <1>11 DEF QueueVisitor
  <2>2. Flow!Call(w)
    BY <1>6, <1>9, <1>11, <2>1 DEF Flow!Call
  <2> QED
    BY <1>6, <2>2
<1> QED
  BY <1>10, <1>11

\* The copies of a broadcast enter the buffers for the other ranks.
LEMMA SendBcastPlaces ==
  ASSUME TypeOK, NEW r \in Rank, NEW v \in Visitor, wire' = wire,
         box' = [box EXCEPT ![r] = [d \in Rank |-> IF d = r THEN box[r][d] ELSE Add(box[r][d], v)]]
  PROVE  \A q \in Rank : \A x : x \in Coming(q)' <=> x \in Coming(q) \/ (q # r /\ x = v)
<1> SUFFICES ASSUME NEW q \in Rank, NEW x
             PROVE  x \in Coming(q)' <=> x \in Coming(q) \/ (q # r /\ x = v)
  OBVIOUS
<1>1. \A s, d \in Rank : box'[s][d] = IF s = r /\ d # r THEN Add(box[r][d], v) ELSE box[s][d]
  BY DEF TypeOK
<1>2. BagToSet(Add(box[r][q], v)) = BagToSet(box[r][q]) \cup {v}
  BY PlacesType, AddElements
<1>3. \A s \in Rank : x \in BagToSet(box'[s][q]) <=>
                        x \in BagToSet(box[s][q]) \/ (s = r /\ q # r /\ x = v)
  BY <1>1, <1>2
<1> QED
  BY <1>3, ComingElement, ComingNext

\* A call of send_bcast: the visitor is on its way to all other ranks.
LEMMA SendBcastFlows ==
  ASSUME TypeOK, BroadcastsAreMarked, NEW r \in Rank, SendBcast(r)
  PROVE  Items' = Items /\ data' = data
<1> DEFINE v == Head(todo[r]).visitor
<1>1. /\ todo[r] # << >> /\ Head(todo[r]).op = "send_bcast"
      /\ todo' = [todo EXCEPT ![r] = Tail(todo[r])]
      /\ box' = [box EXCEPT ![r] = [d \in Rank |-> IF d = r THEN box[r][d] ELSE Add(box[r][d], v)]]
      /\ UNCHANGED <<citr, vitr, data, owned, controllers, wire>>
  BY DEF SendBcast, Performing
<1>2. /\ Head(todo[r]) \in Op
      /\ Those(Tail(todo[r]), "send_bcast") \subseteq Casting(r)
      /\ Casting(r) \subseteq Those(Tail(todo[r]), "send_bcast") \cup {v}
      /\ Those(Tail(todo[r]), "queue_visitor") = Calling(r)
      /\ v \in Casting(r)
  BY <1>1, PlacesType, ThoseOfTail DEF Calling, Casting
<1>3. v \in Visitor /\ IsBroadcast(v)
  BY <1>1, <1>2, PlacesType, TailMarked DEF Op, BroadcastsAreMarked, IsBroadcast
<1>4. \A q \in Rank : /\ Calling(q)' = Calling(q)
                      /\ Casting(q)' = IF q = r THEN Those(Tail(todo[r]), "send_bcast") ELSE Casting(q)
  BY <1>1, <1>2, CallsOf
<1>5. \A q \in Rank : Starting(q)' = Starting(q) /\ Visiting(q)' = Visiting(q) /\ Hearing(q)' = Hearing(q)
  BY <1>1 DEF Starting, Visiting, Hearing
<1> HIDE DEF v
<1>7. \A q \in Rank : \A x : x \in Coming(q)' <=> x \in Coming(q) \/ (q # r /\ x = v)
  BY <1>1, <1>3, SendBcastPlaces
<1>8. ASSUME NEW q \in Rank, NEW x
      PROVE  (\/ x \in Coming(q)' /\ IsBroadcast(x)
              \/ \E s \in Rank \ {q} : x \in Casting(s)')
             <=> (\/ x \in Coming(q) /\ IsBroadcast(x)
                  \/ \E s \in Rank \ {q} : x \in Casting(s))
  <2>1. \A s \in Rank : /\ x \in Casting(s)' => x \in Casting(s)
                        /\ x \in Casting(s) => x \in Casting(s)' \/ (s = r /\ x = v)
    BY <1>2, <1>4
  <2>2. x \in Coming(q)' => x \in Coming(q) \/ (q # r /\ x = v)
    BY <1>7
  <2>3. x = v => v \in Casting(r) /\ IsBroadcast(x) /\ (q # r => x \in Coming(q)')
    BY <1>2, <1>3, <1>7
  <2>4. x \in Coming(q) => x \in Coming(q)'
    BY <1>7
  <2> QED
    BY <2>1, <2>2, <2>3, <2>4
<1>9. ASSUME NEW q \in Rank, NEW step, NEW x
      PROVE  Waits(q, step, x)' <=> Waits(q, step, x)
  <2>1. CASE step = "hear"
    BY <1>5, <1>8, <2>1 DEF Waits, IsBroadcast
  <2>2. CASE step = "sent"
    BY <1>3, <1>7, <2>2 DEF Waits, IsBroadcast
  <2>3. CASE step \notin {"hear", "sent"}
    BY <1>4, <1>5, <2>3 DEF Waits
  <2> QED
    BY <2>1, <2>2, <2>3
<1> QED
  BY <1>1, <1>9 DEF Items

\* Entering an exchange only moves visitors from buffers to messages.
LEMMA EnterPlaces ==
  ASSUME TypeOK, NEW r \in Rank, NEW why \in {"batch", "global_empty", "wait_empty"},
         EnterExchange(r, why)
  PROVE  SameBuffers
<1>1. /\ \A d \in Rank : box'[r][d] = EmptyBag
      /\ \A q \in Rank \ {r} : box'[q] = box[q]
      /\ \A d \in Rank, p \in 0..1 :
           wire'[d][p] = IF p = Slot(round[r] + 1) THEN wire[d][p] (+) box[r][d] ELSE wire[d][p]
  BY EnterEffects
<1>2. Slot(round[r] + 1) \in 0..1
  BY DEF TypeOK, Slot
<1>3. ASSUME NEW q \in Rank, NEW x
      PROVE  x \in Coming(q)' <=> x \in Coming(q)
  <2>1. \A p \in 0..1 : x \in BagToSet(wire'[q][p]) <=>
          x \in BagToSet(wire[q][p]) \/ (p = Slot(round[r] + 1) /\ x \in BagToSet(box[r][q]))
    BY <1>1, PlacesType, SumElements
  <2>2. \A s \in Rank : x \in BagToSet(box'[s][q]) <=> s # r /\ x \in BagToSet(box[s][q])
    BY <1>1, EmptyBagFact
  <2> QED
    BY <1>2, <2>1, <2>2, ComingElement, ComingNext
<1> QED
  BY <1>3 DEF SameBuffers

LEMMA EnterFlows ==
  ASSUME TypeOK, NEW r \in Rank, NEW why \in {"batch", "global_empty", "wait_empty"},
         EnterExchange(r, why)
  PROVE  Items' = Items /\ data' = data
<1>1. UNCHANGED <<citr, vitr, todo, data, owned, controllers>>
  BY DEF EnterExchange, local
<1>2. \A q \in Rank : Coming(q)' = Coming(q)
  BY EnterPlaces DEF SameBuffers
<1>3. \A q \in Rank : /\ Starting(q)' = Starting(q) /\ Calling(q)' = Calling(q)
                      /\ Casting(q)' = Casting(q) /\ Visiting(q)' = Visiting(q)
                      /\ Hearing(q)' = Hearing(q)
  BY <1>1 DEF Starting, Calling, Casting, Visiting, Hearing
<1> QED
  BY <1>1, <1>2, <1>3, SameItems

\* A visitor arrives.
LEMMA DeliverFlows ==
  ASSUME TypeOK, NEW r \in Rank, Deliver(r)
  PROVE  \/ Items' = Items /\ data' = data
         \/ \E w \in Items : Flow!Receive(w)
<1> DEFINE k == Slot(round[r])
<1>1. PICK v \in BagToSet(wire[r][k]) :
        /\ wire' = [wire EXCEPT ![r][k] = Remove(wire[r][k], v)]
        /\ HandleMailboxReceive(r, v)
  BY DEF Deliver
<1>2. UNCHANGED <<citr, vitr, todo, box>>
  BY DEF Deliver
<1>3. k \in 0..1
  BY DEF TypeOK, Slot
<1> HIDE DEF k
<1>4. VisitorBag(wire[r][k]) /\ v \in Visitor /\ data[r] \in AlgData
  BY <1>3, PlacesType DEF VisitorBag
<1>5. \A d \in Rank, p \in 0..1 :
        wire'[d][p] = IF d = r /\ p = k THEN Remove(wire[r][k], v) ELSE wire[d][p]
  BY <1>1, <1>3 DEF TypeOK
<1>6. /\ BagToSet(Remove(wire[r][k], v)) \subseteq BagToSet(wire[r][k])
      /\ BagToSet(wire[r][k]) \subseteq BagToSet(Remove(wire[r][k], v)) \cup {v}
  BY <1>4, RemoveElements, RemoveKeeps
<1>7. \A q \in Rank : \A x : /\ x \in Coming(q)' => x \in Coming(q)
                             /\ x \in Coming(q) => x \in Coming(q)' \/ (q = r /\ x = v)
  <2> SUFFICES ASSUME NEW q \in Rank, NEW x
               PROVE  /\ x \in Coming(q)' => x \in Coming(q)
                      /\ x \in Coming(q) => x \in Coming(q)' \/ (q = r /\ x = v)
    OBVIOUS
  <2>1. \A p \in 0..1 :
          /\ x \in BagToSet(wire'[q][p]) => x \in BagToSet(wire[q][p])
          /\ x \in BagToSet(wire[q][p]) => x \in BagToSet(wire'[q][p]) \/ (q = r /\ x = v)
    BY <1>5, <1>6
  <2>2. \A s \in Rank : box'[s][q] = box[s][q]
    BY <1>2
  <2> QED
    BY <2>1, <2>2, ComingElement, ComingNext
<1>8. v \in Coming(r)
  BY <1>3, ComingElement
<1>9. \A q \in Rank : Starting(q)' = Starting(q) /\ Calling(q)' = Calling(q) /\ Casting(q)' = Casting(q)
  BY <1>2 DEF Starting, Calling, Casting
<1>10. CASE IsBroadcast(v)
  <2>1. /\ UNCHANGED <<data, owned>>
        /\ controllers' = [controllers EXCEPT ![r] =
             IF Master[v.vertex] = r THEN controllers[r] ELSE Append(controllers[r], v)]
    BY <1>1, <1>10 DEF HandleMailboxReceive, IsBroadcast
  <2>2. \A q \in Rank : \A x : x \in Hearing(q)' <=>
          x \in Hearing(q) \/ (q = r /\ Master[v.vertex] # r /\ x = v)
    <3>1. \A q \in Rank : controllers'[q] =
            IF q = r /\ Master[v.vertex] # r THEN Append(controllers[r], v) ELSE controllers[q]
      BY <2>1 DEF TypeOK
    <3>2. Elements(Append(controllers[r], v)) = Elements(controllers[r]) \cup {v}
      BY <1>4, PlacesType, ListElements
    <3>3. \A q \in Rank : Hearing(q)' =
            IF q = r /\ Master[v.vertex] # r THEN Hearing(r) \cup {v} ELSE Hearing(q)
      BY <3>1, <3>2 DEF Hearing
    <3> QED
      BY <3>3
  <2>3. \A q \in Rank : Visiting(q)' = Visiting(q)
    BY <2>1 DEF Visiting
  <2>4. ASSUME NEW q \in Rank, NEW step, NEW x
        PROVE  Waits(q, step, x)' <=> Waits(q, step, x)
    <3>1. CASE step = "hear"
      <4>1. \A s \in Rank : x \in Casting(s)' <=> x \in Casting(s)
        BY <1>9
      <4>2. (x \in Hearing(q)' \/ (Master[x.vertex] # q /\ x \in Coming(q)' /\ IsBroadcast(x)))
            <=> (x \in Hearing(q) \/ (Master[x.vertex] # q /\ x \in Coming(q) /\ IsBroadcast(x)))
        BY <1>7, <1>8, <1>10, <2>2
      <4> QED
        BY <3>1, <4>1, <4>2 DEF Waits, IsBroadcast
    <3>2. CASE step = "sent"
      <4>1. ~IsBroadcast(x) => (x \in Coming(q)' <=> x \in Coming(q))
        BY <1>7, <1>10
      <4> QED
        BY <3>2, <4>1 DEF Waits, IsBroadcast
    <3>3. CASE step \notin {"hear", "sent"}
      BY <1>9, <2>3, <3>3 DEF Waits
    <3> QED
      BY <3>1, <3>2, <3>3
  <2> QED
    BY <2>1, <2>4 DEF Items
<1>11. CASE ~IsBroadcast(v)
  <2> DEFINE w == Flow!At(r, "sent", v)
  <2>1. PICK out \in PreVisit(r, data[r], v) :
          /\ data' = [data EXCEPT ![r] = out.data]
          /\ IF out.ret THEN Push(r, v) ELSE UNCHANGED owned
    BY <1>1, <1>11 DEF HandleMailboxReceive, IsBroadcast
  <2>2. controllers' = controllers
    BY <1>1, <1>11 DEF HandleMailboxReceive, IsBroadcast
  <2>3. w \in Items /\ w.rank = r /\ w.step = "sent" /\ w.visitor = v
    BY <1>4, <1>8, <1>11 DEF Items, Waits, Flow!At
  <2> DEFINE new == IF out.ret THEN {Flow!At(r, "visit", v)} ELSE {}
  <2>4. /\ new \subseteq Flow!Item /\ \A x \in new : x.step = "visit"
        /\ \A q \in Rank : \A x : /\ Flow!At(q, "visit", x) \in new <=> out.ret /\ q = r /\ x = v
                                  /\ Flow!At(q, "sent", x) \notin new
                                  /\ w # Flow!At(q, "call", x)
                                  /\ q = r /\ x = v => w = Flow!At(q, "sent", x)
    BY <1>4 DEF Flow!Item, Flow!At
  <2> HIDE DEF w, new
  <2>5. \A q \in Rank : \A x : x \in Visiting(q)' <=> x \in Visiting(q) \/ (out.ret /\ q = r /\ x = v)
    <3>1. CASE out.ret
      BY <1>4, <2>1, <3>1, PushPlaces
    <3>2. CASE ~out.ret
      BY <2>1, <3>2 DEF Visiting
    <3> QED
      BY <3>1, <3>2
  <2>6. \A q \in Rank : Hearing(q)' = Hearing(q)
    BY <2>2 DEF Hearing
  <2>7. PassEffect(w, new)
    BY <1>7, <1>9, <2>4, <2>5, <2>6 DEF PassEffect
  <2>8. Flow!Moves(w, new)
    BY <1>11, <2>3, <2>4, <2>7, PassMoves
  <2>9. Flow!Receive(w)
    BY <2>1, <2>3, <2>8 DEF Flow!Receive, Flow!Became, new
  <2> QED
    BY <2>3, <2>9
<1> QED
  BY <1>10, <1>11

\* Every step of a rank is a step of the flow, or moves nothing.
LEMMA StepFlows ==
  ASSUME TypeOK, DestinationInv, CallsArePlain, NEW r \in Rank, Step(r)
  PROVE  Flow!Next \/ (Items' = Items /\ data' = data)
<1>1. CASE StartController(r)
  BY <1>1, StartControllerFlows DEF Flow!Next
<1>2. CASE StartVertex(r)
  BY <1>2, StartVertexFlows DEF Flow!Next
<1>3. CASE ProcessPendingController(r)
  BY <1>3, ProcessPendingControllerFlows DEF Flow!Next
<1>4. CASE PopAndVisit(r)
  BY <1>4, PopAndVisitFlows DEF Flow!Next
<1>5. CASE EndPending(r) \/ WhileNotEmpty(r) \/ PopOfEmptyQueue(r) \/ NextStart(r) \/ FinishExchange(r)
  <2>1. UNCHANGED <<citr, vitr, todo, data, owned, controllers, box, wire>>
    BY <1>5 DEF EndPending, WhileNotEmpty, PopOfEmptyQueue, NextStart, FinishExchange, mailbox
  <2>2. \A q \in Rank : /\ Starting(q)' = Starting(q) /\ Calling(q)' = Calling(q)
                        /\ Casting(q)' = Casting(q) /\ Visiting(q)' = Visiting(q)
                        /\ Hearing(q)' = Hearing(q) /\ Coming(q)' = Coming(q)
    BY <2>1 DEF Starting, Calling, Casting, Visiting, Hearing, Coming
  <2> QED
    BY <2>1, <2>2, SameItems
<1>6. CASE QueueVisitor(r)
  BY <1>6, QueueVisitorFlows DEF Flow!Next
<1>7. CASE SendBcast(r)
  BY <1>7, SendBcastFlows DEF DestinationInv
<1>8. CASE BatchFull(r) \/ TestGlobalEmpty(r) \/ DestroyMailbox(r)
  <2>1. PICK why \in {"batch", "global_empty", "wait_empty"} : EnterExchange(r, why)
    BY <1>8 DEF BatchFull, TestGlobalEmpty, DestroyMailbox
  <2> QED
    BY <2>1, EnterFlows
<1>9. CASE Deliver(r)
  BY <1>9, DeliverFlows DEF Flow!Next
<1> QED
  BY <1>1, <1>2, <1>3, <1>4, <1>5, <1>6, <1>7, <1>8, <1>9 DEF Step

\* The visitors that a visit creates are plain, and calls are only made.
LEMMA VisitsArePlain ==
  ASSUME TypeOK, CallsArePlain, NEW r \in Rank, NEW v \in Visitor, NEW out,
         out.spawn \in Seq(Visitor), \A i \in DOMAIN out.spawn : ~out.spawn[i].bcast,
         NEW ops, ops = VisitOps(r, v, out) \/ ops = Queue(out.spawn),
         todo' = [todo EXCEPT ![r] = ops]
  PROVE  CallsArePlain'
<1>1. Those(ops, "queue_visitor") = Elements(out.spawn)
  BY ThoseOfVisit, ThoseOfQueue
<1>2. \A q \in Rank : Calling(q)' = IF q = r THEN Elements(out.spawn) ELSE Calling(q)
  BY <1>1, CallsOf
<1> QED
  BY <1>2 DEF CallsArePlain, Elements

LEMMA CallsStayPlain ==
  ASSUME TypeOK, NewVisitorsArePlain, CallsArePlain, NEW r \in Rank, Step(r)
  PROVE  CallsArePlain'
<1>1. ASSUME NEW itr \in Seq(Visitor), NEW next, StartVisit(r, itr, next)
      PROVE  CallsArePlain'
  <2>1. CASE itr = << >>
    BY <1>1, <2>1 DEF StartVisit, CallsArePlain, Calling
  <2>2. CASE itr # << >>
    <3>1. PICK out \in InitVisit(r, data[r], Head(itr)) :
            todo' = [todo EXCEPT ![r] = VisitOps(r, Head(itr), out)]
      BY <1>1, <2>2 DEF StartVisit
    <3>2. Head(itr) \in Visitor /\ data[r] \in AlgData
      BY <2>2, PlacesType
    <3>3. out.spawn \in Seq(Visitor) /\ \A i \in DOMAIN out.spawn : ~out.spawn[i].bcast
      BY <3>1, <3>2, OutcomeTypes DEF NewVisitorsArePlain
    <3> QED
      BY <3>1, <3>2, <3>3, VisitsArePlain
  <2> QED
    BY <2>1, <2>2
<1>2. CASE StartController(r)
  BY <1>1, <1>2, PlacesType DEF StartController
<1>3. CASE StartVertex(r)
  BY <1>1, <1>3, PlacesType DEF StartVertex
<1>4. CASE ProcessPendingController(r)
  <2>1. PICK out \in Visit(r, data[r], Head(controllers[r])) :
          todo' = [todo EXCEPT ![r] = Queue(out.spawn)]
    BY <1>4 DEF ProcessPendingController
  <2>2. Head(controllers[r]) \in Visitor /\ data[r] \in AlgData
    BY <1>4, PlacesType DEF ProcessPendingController
  <2>3. out.spawn \in Seq(Visitor) /\ \A i \in DOMAIN out.spawn : ~out.spawn[i].bcast
    BY <2>1, <2>2, OutcomeTypes DEF NewVisitorsArePlain
  <2> QED
    BY <2>1, <2>2, <2>3, VisitsArePlain
<1>5. CASE PopAndVisit(r)
  <2>a. PICK v \in BagToSet(owned[r]) :
          \E out \in Visit(r, data[r], v) : todo' = [todo EXCEPT ![r] = VisitOps(r, v, out)]
    BY <1>5 DEF PopAndVisit
  <2>1. PICK out \in Visit(r, data[r], v) : todo' = [todo EXCEPT ![r] = VisitOps(r, v, out)]
    BY <2>a
  <2>2. v \in Visitor /\ data[r] \in AlgData
    BY PlacesType DEF VisitorBag
  <2>3. out.spawn \in Seq(Visitor) /\ \A i \in DOMAIN out.spawn : ~out.spawn[i].bcast
    BY <2>1, <2>2, OutcomeTypes DEF NewVisitorsArePlain
  <2> QED
    BY <2>1, <2>2, <2>3, VisitsArePlain
<1>6. CASE QueueVisitor(r) \/ SendBcast(r)
  <2>1. todo[r] # << >> /\ todo' = [todo EXCEPT ![r] = Tail(todo[r])]
    BY <1>6 DEF QueueVisitor, SendBcast, Performing
  <2>2. Those(Tail(todo[r]), "queue_visitor") \subseteq Calling(r)
    BY <2>1, PlacesType, ThoseOfTail DEF Calling
  <2>3. \A q \in Rank : Calling(q)' = IF q = r THEN Those(Tail(todo[r]), "queue_visitor") ELSE Calling(q)
    BY <2>1, CallsOf
  <2> QED
    BY <2>2, <2>3 DEF CallsArePlain
<1>7. CASE \/ EndPending(r) \/ WhileNotEmpty(r) \/ PopOfEmptyQueue(r) \/ NextStart(r)
           \/ FinishExchange(r) \/ Deliver(r) \/ BatchFull(r) \/ TestGlobalEmpty(r)
           \/ DestroyMailbox(r)
  <2>1. todo' = todo
    BY <1>7 DEF EndPending, WhileNotEmpty, PopOfEmptyQueue, NextStart, FinishExchange, Deliver,
                BatchFull, TestGlobalEmpty, DestroyMailbox, EnterExchange, local, mailbox
  <2> QED
    BY <2>1 DEF CallsArePlain, Calling
<1> QED
  BY <1>2, <1>3, <1>4, <1>5, <1>6, <1>7 DEF Step

\* The visitors of a traversal that has not begun, and its items.
LEMMA InitPlaces ==
  ASSUME NEW w \in InitialWork, Init, citr = w.citr, vitr = w.vitr, data = w.data,
         todo = [r \in Rank |-> Queue(w.source[r])]
  PROVE  \A q \in Rank : /\ Calling(q) = Elements(w.source[q]) /\ Casting(q) = {}
                         /\ Visiting(q) = {} /\ Hearing(q) = {} /\ Coming(q) = {}
<1>1. \A q \in Rank : w.source[q] \in Seq(Visitor)
  BY InitialWorkAssumption
<1>2. \A q \in Rank : Calling(q) = Elements(w.source[q]) /\ Casting(q) = {}
  BY <1>1, ThoseOfQueue DEF Calling, Casting
<1>3. \A q \in Rank : Visiting(q) = {} /\ Hearing(q) = {}
  BY EmptyBagFact DEF Init, Visiting, Hearing, Elements
<1>4. \A q \in Rank : Coming(q) = {}
  <2> SUFFICES ASSUME NEW q \in Rank, NEW x PROVE x \notin Coming(q)
    OBVIOUS
  <2>1. /\ \A s \in Rank : box[s][q] = EmptyBag
        /\ \A p \in 0..1 : wire[q][p] = EmptyBag
    BY DEF Init
  <2> QED
    BY <2>1, EmptyBagFact, ComingElement
<1> QED
  BY <1>2, <1>3, <1>4

LEMMA InitItems ==
  ASSUME NEW w \in InitialWork, Init, citr = w.citr, vitr = w.vitr, data = w.data,
         todo = [r \in Rank |-> Queue(w.source[r])]
  PROVE  \A x \in Items :
           \/ x.step = "start" /\ x.visitor \in Elements(w.citr[x.rank]) \cup Elements(w.vitr[x.rank])
           \/ x.step = "call" /\ x.visitor \in Elements(w.source[x.rank])
BY InitPlaces DEF Items, Waits, Starting

\* The step of the flow that a step of the queue is.
LEMMA NextFlows ==
  ASSUME NewVisitorsArePlain, TypeOK, DestinationInv, CallsArePlain, [Next]_vars
  PROVE  CallsArePlain' /\ [Flow!Next]_<<Items, data>>
<1>1. CASE UNCHANGED vars \/ Done
  <2>1. UNCHANGED vars
    BY <1>1 DEF Done
  <2>2. \A q \in Rank : /\ Starting(q)' = Starting(q) /\ Calling(q)' = Calling(q)
                        /\ Casting(q)' = Casting(q) /\ Visiting(q)' = Visiting(q)
                        /\ Hearing(q)' = Hearing(q) /\ Coming(q)' = Coming(q)
    BY <2>1 DEF vars, Starting, Calling, Casting, Visiting, Hearing, Coming
  <2> QED
    BY <2>1, <2>2, SameItems DEF vars, CallsArePlain
<1>2. CASE \E r \in Rank : Step(r)
  BY <1>2, StepFlows, CallsStayPlain
<1> QED
  BY <1>1, <1>2 DEF Next

\* The visitor queue is one way to run the flow of visitors: its queues, its
\* buffers and its exchanges lose no visitor and let none skip its pre_visit.
THEOREM VisitorsFlow ==
  ASSUME NewVisitorsArePlain
  PROVE  Spec => Flow!Spec
<1>1. Init => CallsArePlain /\ Flow!Init
  <2> SUFFICES ASSUME Init PROVE CallsArePlain /\ Flow!Init
    OBVIOUS
  <2>1. PICK w \in InitialWork : /\ citr = w.citr /\ vitr = w.vitr /\ data = w.data
                                 /\ todo = [r \in Rank |-> Queue(w.source[r])]
    BY DEF Init
  <2>2. \A q \in Rank : w.source[q] \in Seq(Visitor)
    BY InitialWorkAssumption
  <2>3. \A q \in Rank : Calling(q) = Elements(w.source[q])
    BY <2>1, <2>2, ThoseOfQueue DEF Calling
  <2>4. CallsArePlain
    BY <2>3 DEF CallsArePlain, NewVisitorsArePlain, Elements
  <2>5. \A x \in Items : x \in Flow!Item /\ x.step \in {"start", "call"}
    BY <2>1, InitItems DEF Items, Flow!Item
  <2>6. data \in [Rank -> AlgData]
    BY <2>1, InitialWorkAssumption
  <2> QED
    BY <2>4, <2>5, <2>6 DEF Flow!Init
<1>2. TypeOK /\ DestinationInv /\ CallsArePlain /\ [Next]_vars
        => CallsArePlain' /\ [Flow!Next]_<<Items, data>>
  BY NextFlows
<1> QED
  BY <1>1, <1>2, TypeCorrect, Destinations, PTL DEF Spec, Flow!Spec

\* When the queue is quiescent, so is the flow.
LEMMA QuiescentFlow ==
  ASSUME Quiescent
  PROVE  Items = {}
<1>1. \A r \in Rank : /\ citr[r] = << >> /\ vitr[r] = << >> /\ todo[r] = << >>
                      /\ owned[r] = EmptyBag /\ controllers[r] = << >>
                      /\ \A d \in Rank : box[r][d] = EmptyBag
                      /\ \A p \in 0..1 : wire[r][p] = EmptyBag
  BY DEF Quiescent, QuiescentAt, Empty
<1>2. \A r \in Rank : Calling(r) = {} /\ Casting(r) = {}
  BY <1>1, NoCalls
<1>3. \A r \in Rank : Starting(r) = {} /\ Visiting(r) = {} /\ Hearing(r) = {}
  BY <1>1, EmptyBagFact DEF Starting, Visiting, Hearing, Elements
<1>4. \A r \in Rank : \A x : x \notin Coming(r)
  BY <1>1, EmptyBagFact, ComingElement
<1> QED
  BY <1>2, <1>3, <1>4 DEF Items, Waits

-----------------------------------------------------------------------------
(* Nothing is dropped on arrival.                                          *)

\* handle_mailbox_receive of v on r would ignore it.
DroppedOn(v, r) == IsBroadcast(v) /\ Master[v.vertex] = r

\* The inductive invariant behind NothingDropped: a broadcast is sent by the
\* controller of its hub, and what comes to a rank will not be dropped there.
ArrivalInv ==
  /\ \A r \in Rank : \A v \in Casting(r) : Master[v.vertex] = r
  /\ \A r \in Rank : \A v \in Coming(r) : ~DroppedOn(v, r)

\* A visit queues its calls and the broadcast of its hub's controller.
LEMMA VisitKeepsArrivals ==
  ASSUME TypeOK, ArrivalInv, NEW r \in Rank, NEW v \in Visitor, NEW out,
         out.spawn \in Seq(Visitor),
         NEW ops, ops = VisitOps(r, v, out) \/ ops = Queue(out.spawn),
         todo' = [todo EXCEPT ![r] = ops], UNCHANGED <<box, wire>>
  PROVE  ArrivalInv'
<1>1. \A x \in Those(ops, "send_bcast") : Master[x.vertex] = r
  BY ThoseOfVisit, ThoseOfQueue, CopiesAreBroadcast
<1>2. \A q \in Rank : Casting(q)' = IF q = r THEN Those(ops, "send_bcast") ELSE Casting(q)
  BY CallsOf
<1>3. \A q \in Rank : Coming(q)' = Coming(q)
  BY BuffersStay DEF SameBuffers
<1> QED
  BY <1>1, <1>2, <1>3 DEF ArrivalInv, DroppedOn, IsBroadcast

\* A call of queue_visitor sends a plain visitor; one of send_bcast sends to
\* everybody but the controller.
LEMMA CallKeepsArrivals ==
  ASSUME TypeOK, ArrivalInv, CallsArePlain, NEW r \in Rank, QueueVisitor(r) \/ SendBcast(r)
  PROVE  ArrivalInv'
<1> DEFINE v == Head(todo[r]).visitor
           m == Master[v.vertex]
<1>1. /\ todo[r] # << >> /\ todo' = [todo EXCEPT ![r] = Tail(todo[r])]
      /\ UNCHANGED wire
  BY DEF QueueVisitor, SendBcast, Performing
<1>2. v \in Visitor /\ m \in Rank
  <2>1. Head(todo[r]) \in Op
    BY <1>1, PlacesType
  <2> QED
    BY <2>1, TopologyAssumption DEF Op, Visitor
<1>3. Those(Tail(todo[r]), "send_bcast") \subseteq Casting(r)
  BY <1>1, PlacesType, ThoseOfTail DEF Casting
<1>4. \A q \in Rank : Casting(q)' = IF q = r THEN Those(Tail(todo[r]), "send_bcast") ELSE Casting(q)
  BY <1>1, CallsOf
<1>5. \A q \in Rank : \A x \in Casting(q)' : Master[x.vertex] = q
  BY <1>3, <1>4 DEF ArrivalInv
<1>6. \A q \in Rank : \A x \in Coming(q)' : x \in Coming(q) \/ (x = v /\ ~DroppedOn(v, q))
  <2>1. CASE QueueVisitor(r)
    <3>1. Head(todo[r]).op = "queue_visitor"
      BY <2>1 DEF QueueVisitor, Performing
    <3>2. v \in Calling(r)
      BY <1>1, <3>1, PlacesType, ThoseOfTail DEF Calling
    <3>3. ~v.bcast
      BY <3>2 DEF CallsArePlain
    <3>4. UNCHANGED box \/ Send(r, m, v)
      BY <2>1 DEF QueueVisitor, QueueHere
    <3> HIDE DEF v, m
    <3>5. CASE UNCHANGED box
      BY <1>1, <3>5, BuffersStay DEF SameBuffers
    <3>6. CASE Send(r, m, v)
      <4>1. \A q \in Rank : \A x : x \in Coming(q)' <=> x \in Coming(q) \/ (q = m /\ x = v)
        BY <1>1, <1>2, <3>6, SendPlaces
      <4> QED
        BY <3>3, <4>1 DEF DroppedOn, IsBroadcast
    <3> QED
      BY <3>4, <3>5, <3>6
  <2>2. CASE SendBcast(r)
    <3>1. Head(todo[r]).op = "send_bcast"
      BY <2>2 DEF SendBcast, Performing
    <3>2. v \in Casting(r)
      BY <1>1, <3>1, PlacesType, ThoseOfTail DEF Casting
    <3>3. m = r
      BY <3>2 DEF ArrivalInv
    <3>4. box' = [box EXCEPT ![r] = [d \in Rank |-> IF d = r THEN box[r][d] ELSE Add(box[r][d], v)]]
      BY <2>2 DEF SendBcast
    <3>5. \A q \in Rank : q # r => ~DroppedOn(v, q)
      BY <3>3 DEF DroppedOn
    <3> HIDE DEF v, m
    <3>6. \A q \in Rank : \A x : x \in Coming(q)' <=> x \in Coming(q) \/ (q # r /\ x = v)
      BY <1>1, <1>2, <3>4, SendBcastPlaces
    <3> QED
      BY <3>5, <3>6
  <2> QED
    BY <2>1, <2>2
<1>7. \A q \in Rank : \A x \in Coming(q)' : ~DroppedOn(x, q)
  BY <1>6 DEF ArrivalInv
<1> QED
  BY <1>5, <1>7 DEF ArrivalInv, DroppedOn, IsBroadcast

\* Every step of a rank keeps what comes to a rank from being dropped.
LEMMA StepArrivals ==
  ASSUME TypeOK, ArrivalInv, CallsArePlain, NEW r \in Rank, Step(r)
  PROVE  ArrivalInv'
<1> USE DEF mailbox
<1>1. ASSUME UNCHANGED todo, \A q \in Rank : Coming(q)' \subseteq Coming(q)
      PROVE  ArrivalInv'
  BY <1>1 DEF ArrivalInv, Casting, DroppedOn, IsBroadcast
<1>2. ASSUME UNCHANGED <<todo, box, wire>>
      PROVE  ArrivalInv'
  BY <1>1, <1>2, BuffersStay DEF SameBuffers
<1>3. ASSUME NEW itr \in Seq(Visitor), NEW next, StartVisit(r, itr, next)
      PROVE  ArrivalInv'
  <2>1. CASE itr = << >>
    BY <1>2, <1>3, <2>1 DEF StartVisit
  <2>2. CASE itr # << >>
    <3>1. PICK out \in InitVisit(r, data[r], Head(itr)) :
            todo' = [todo EXCEPT ![r] = VisitOps(r, Head(itr), out)]
      BY <1>3, <2>2 DEF StartVisit
    <3>2. Head(itr) \in Visitor /\ data[r] \in AlgData
      BY <2>2, PlacesType
    <3>3. out.spawn \in Seq(Visitor) /\ UNCHANGED <<box, wire>>
      BY <1>3, <3>1, <3>2, OutcomeTypes DEF StartVisit
    <3> QED
      BY <3>1, <3>2, <3>3, VisitKeepsArrivals
  <2> QED
    BY <2>1, <2>2
<1>4. CASE StartController(r)
  BY <1>3, <1>4, PlacesType DEF StartController
<1>5. CASE StartVertex(r)
  BY <1>3, <1>5, PlacesType DEF StartVertex
<1>6. CASE ProcessPendingController(r)
  <2>1. PICK out \in Visit(r, data[r], Head(controllers[r])) :
          todo' = [todo EXCEPT ![r] = Queue(out.spawn)]
    BY <1>6 DEF ProcessPendingController
  <2>2. Head(controllers[r]) \in Visitor /\ data[r] \in AlgData
    BY <1>6, PlacesType DEF ProcessPendingController
  <2>3. out.spawn \in Seq(Visitor) /\ UNCHANGED <<box, wire>>
    BY <1>6, <2>1, <2>2, OutcomeTypes DEF ProcessPendingController
  <2> QED
    BY <2>1, <2>2, <2>3, VisitKeepsArrivals
<1>7. CASE PopAndVisit(r)
  <2>1. PICK v \in BagToSet(owned[r]) :
          \E out \in Visit(r, data[r], v) : todo' = [todo EXCEPT ![r] = VisitOps(r, v, out)]
    BY <1>7 DEF PopAndVisit
  <2>2. PICK out \in Visit(r, data[r], v) : todo' = [todo EXCEPT ![r] = VisitOps(r, v, out)]
    BY <2>1
  <2>3. v \in Visitor /\ data[r] \in AlgData
    BY PlacesType DEF VisitorBag
  <2>4. out.spawn \in Seq(Visitor) /\ UNCHANGED <<box, wire>>
    BY <1>7, <2>2, <2>3, OutcomeTypes DEF PopAndVisit
  <2> QED
    BY <2>2, <2>3, <2>4, VisitKeepsArrivals
<1>8. CASE QueueVisitor(r) \/ SendBcast(r)
  BY <1>8, CallKeepsArrivals
<1>9. CASE EndPending(r) \/ WhileNotEmpty(r) \/ PopOfEmptyQueue(r) \/ NextStart(r) \/ FinishExchange(r)
  BY <1>2, <1>9 DEF EndPending, WhileNotEmpty, PopOfEmptyQueue, NextStart, FinishExchange
<1>10. CASE BatchFull(r) \/ TestGlobalEmpty(r) \/ DestroyMailbox(r)
  <2>1. PICK why \in {"batch", "global_empty", "wait_empty"} : EnterExchange(r, why)
    BY <1>10 DEF BatchFull, TestGlobalEmpty, DestroyMailbox
  <2>2. SameBuffers
    BY <2>1, EnterPlaces
  <2>3. UNCHANGED todo
    BY <2>1 DEF EnterExchange, local
  <2> QED
    BY <1>1, <2>2, <2>3 DEF SameBuffers
<1>11. CASE Deliver(r)
  <2> DEFINE k == Slot(round[r])
  <2>1. PICK v \in BagToSet(wire[r][k]) : wire' = [wire EXCEPT ![r][k] = Remove(@, v)]
    BY <1>11 DEF Deliver
  <2>2. UNCHANGED <<todo, box>>
    BY <1>11 DEF Deliver
  <2>3. k \in 0..1
    BY DEF TypeOK, Slot
  <2> HIDE DEF k
  <2>4. \A d \in Rank, p \in 0..1 :
          wire'[d][p] = IF d = r /\ p = k THEN Remove(wire[r][k], v) ELSE wire[d][p]
    BY <2>1, <2>3 DEF TypeOK
  <2>5. \A d \in Rank, p \in 0..1 : BagToSet(wire'[d][p]) \subseteq BagToSet(wire[d][p])
    BY <2>3, <2>4, RemoveElements DEF TypeOK
  <2>6. ASSUME NEW q \in Rank, NEW x \in Coming(q)'
        PROVE  x \in Coming(q)
    BY <2>2, <2>5, <2>6, ComingElement, ComingNext
  <2> QED
    BY <1>1, <2>2, <2>6
<1> QED
  BY <1>4, <1>5, <1>6, <1>7, <1>8, <1>9, <1>10, <1>11 DEF Step

\* If visits create no visitor with the bcast bit set, no visitor is dropped by
\* handle_mailbox_receive, whatever the algorithm and the order of its visits.
THEOREM NoVisitorIsDropped ==
  ASSUME NewVisitorsArePlain
  PROVE  Spec => []NothingDropped
<1>1. Init => CallsArePlain /\ ArrivalInv
  <2> SUFFICES ASSUME Init PROVE CallsArePlain /\ ArrivalInv
    OBVIOUS
  <2>1. PICK w \in InitialWork : /\ citr = w.citr /\ vitr = w.vitr /\ data = w.data
                                 /\ todo = [r \in Rank |-> Queue(w.source[r])]
    BY DEF Init
  <2>2. \A q \in Rank : Calling(q) = Elements(w.source[q]) /\ Casting(q) = {} /\ Coming(q) = {}
    BY <2>1, InitPlaces
  <2> QED
    BY <2>2 DEF CallsArePlain, ArrivalInv, NewVisitorsArePlain, Elements
<1>2. TypeOK /\ CallsArePlain /\ ArrivalInv /\ [Next]_vars => CallsArePlain' /\ ArrivalInv'
  <2> SUFFICES ASSUME TypeOK, CallsArePlain, ArrivalInv, [Next]_vars
               PROVE  CallsArePlain' /\ ArrivalInv'
    OBVIOUS
  <2>1. CASE UNCHANGED vars \/ Done
    <3>1. UNCHANGED <<todo, box, wire>>
      BY <2>1 DEF Done, vars
    <3> QED
      BY <3>1 DEF CallsArePlain, Calling, Casting, Coming, ArrivalInv, DroppedOn, IsBroadcast
  <2>2. CASE \E r \in Rank : Step(r)
    BY <2>2, CallsStayPlain, StepArrivals
  <2> QED
    BY <2>1, <2>2 DEF Next
<1>3. ArrivalInv => NothingDropped
  BY ComingElement DEF ArrivalInv, NothingDropped, DroppedOn, IsBroadcast
<1> QED
  BY <1>1, <1>2, <1>3, TypeCorrect, PTL DEF Spec

\* Under the same condition every visitor comes to the right rank: its master, or,
\* if it is the broadcast of a hub, a rank that is not the controller.
THEOREM VisitorsArriveRight ==
  ASSUME NewVisitorsArePlain
  PROVE  Spec => []ArrivesRight
<1>1. SentToMaster /\ NothingDropped => ArrivesRight
  BY DEF ArrivesRight
<1>2. Spec => []NothingDropped
  BY NoVisitorIsDropped
<1> QED
  BY <1>1, <1>2, VisitorsReachMaster, PTL
=============================================================================
