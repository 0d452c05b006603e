----------------------- MODULE CommExchanger_proofs -----------------------
(***************************************************************************)
(* Proofs about CommExchanger, for any number of members, any messages,    *)
(* any extra counts and any number of exchanges: no message strays, and an *)
(* exchange keeps the contract CollectiveExchange.                         *)
(***************************************************************************)
EXTENDS CommExchanger, FiniteSetTheorems, TLAPS

-----------------------------------------------------------------------------
(* The inductive invariant.  Everything is said of a sender s, a receiver  *)
(* d and a tag t; where messages may be of two exchanges, t is the tag of  *)
(* the one that d is in or will enter next, or the tag after it.           *)

Count == [src : Member, tag : Nat, first : Nat, second : Nat]
Datum == [src : Member, tag : Nat]

\* A queue of messages, of which there are finitely many.
MsgBag(b) ==
  IsABag(b) /\ BagToSet(b) \subseteq Message /\ IsFiniteSet(Copies(b))

\* A posted receive of data; a matched one holds the queue.
IsDataRecv(q) ==
  /\ q = [src |-> q.src, size |-> q.size, matched |-> q.matched, buff |-> q.buff]
  /\ q.src \in Member /\ q.matched \in BOOLEAN
  /\ q.matched => MsgBag(q.buff)

QueueType ==
  /\ sendQ = [m \in Member |-> [d \in Member |-> sendQ[m][d]]]
  /\ \A m, d \in Member : MsgBag(sendQ[m][d])

RecvType ==
  /\ recvs = [m \in Member |-> recvs[m]]
  /\ \A m \in Member : \A q \in recvs[m] : IsDataRecv(q)

TypeInv ==
  /\ pc \in [Member -> {"idle", "counts", "poll", "destroyed"}]
  /\ tag \in [Member -> Nat]
  /\ QueueType
  /\ counted \in [Member -> Nat]
  /\ sent \in [Member -> 0..Size]
  /\ posted \in [Member -> [0..1 -> Nat]]
  /\ total \in [Member -> Nat]
  /\ expected \in [Member -> 0..Size]
  /\ arrived \in [Member -> Seq(Count)]
  /\ heard \in [Member -> SUBSET Member]
  /\ RecvType
  /\ isends \in [Member -> SUBSET Member]
  /\ counts \in [Member -> SUBSET Count]
  /\ data \in [Member -> SUBSET Datum]

\* Targets of the counts that s has sent since it entered.
SentTo(s) == {Target(s, i) : i \in 0..(sent[s] - 1)}

\* s has sent d its count with tag t.
Reached(s, d, t) == tag[s] > t \/ (tag[s] = t /\ Inside(s) /\ d \in SentTo(s))

InFlight(s, d, t) == \E c \in counts[d] : c.src = s /\ c.tag = 2 * t

Arrived(d) == {arrived[d][i].src : i \in 1..Len(arrived[d])}

\* Members whose count of its exchange d has received.
Got(d) == Arrived(d) \cup heard[d]

Unmatched(s, d) == \E q \in recvs[d] : q.src = s /\ ~q.matched

\* What is left over outside the loop, and the receives that remain.
LoopInvAt(m) ==
  /\ tag[m] = FirstTag + 2 * Finished(m) /\ Finished(m) \in 0..MaxExchanges
  /\ Inside(m) => Finished(m) < MaxExchanges
  /\ pc[m] = "destroyed" => Finished(m) = MaxExchanges /\ expected[m] = 0
  /\ pc[m] # "destroyed" => expected[m] + Cardinality(Got(m)) = Size
  /\ pc[m] = "poll" => sent[m] = Size
  /\ pc[m] # "poll" => heard[m] = {} /\ recvs[m] = {} /\ isends[m] = {}
  /\ counted[m] = 0 => \A d \in Member : sendQ[m][d] = EmptyBag

LoopInv == \A m \in Member : LoopInvAt(m)

\* A member is at most one exchange ahead, and only of one that waits inside.
StepInv ==
  \A s, d \in Member : tag[s] > tag[d] =>
    tag[s] = tag[d] + 2 /\ Inside(d) /\ s \in SentTo(d)

\* A count that was sent is in flight or was received: once, and by the
\* exchange it was sent for.
Accounted(s, d) ==
  /\ Reached(s, d, tag[d]) <=> InFlight(s, d, tag[d]) \/ s \in Got(d)
  /\ Reached(s, d, tag[d] + 2) <=> InFlight(s, d, tag[d] + 2)
  /\ ~(InFlight(s, d, tag[d]) /\ s \in Got(d))

FlightInv(d) ==
  /\ \A c \in counts[d] : c.tag = CountTag(d) \/ c.tag = CountTag(d) + 4
  /\ \A b, c \in counts[d] : b.src = c.src /\ b.tag = c.tag => b = c

ArrivedInv(d) ==
  /\ \A i \in 1..Len(arrived[d]) :
       arrived[d][i].tag = CountTag(d) /\ arrived[d][i].src \notin heard[d]
  /\ \A i, j \in 1..Len(arrived[d]) : arrived[d][i].src = arrived[d][j].src => i = j

CountInv ==
  \A d \in Member :
    /\ \A s \in Member : Accounted(s, d)
    /\ FlightInv(d)
    /\ ArrivedInv(d)

\* c is a count on its way to d, or received by d and not tested.
OnItsWay(c, d) == c \in counts[d] \/ \E i \in 1..Len(arrived[d]) : c = arrived[d][i]

\* A count says whether the queue holds anything as long as its sender is in
\* the exchange.
QueueInv ==
  \A d \in Member : \A c \in Count :
    OnItsWay(c, d) /\ c.tag = CountTag(c.src) /\ Inside(c.src) =>
      (c.first = 0 <=> sendQ[c.src][d] = EmptyBag)

\* Data is in flight from s to d exactly while s has heard of d and the receive
\* of d was not matched; data for d waits for s to hear of d.
DatumInv(d) ==
  \A x \in data[d] :
    /\ Inside(x.src) /\ tag[x.src] = tag[d] /\ x.tag = DataTag(d)
    /\ d \in isends[x.src] /\ d \in heard[x.src] /\ sendQ[x.src][d] # EmptyBag
    /\ x.src \in heard[d] => Unmatched(x.src, d)

PairInv(s, d) ==
  Inside(s) /\ sendQ[s][d] # EmptyBag =>
    /\ tag[d] = tag[s] + 2 => d \in heard[s]
    /\ tag[s] = tag[d] =>
         /\ s \in heard[d] /\ d \notin heard[s] => Unmatched(s, d)
         /\ d \in heard[s] /\ (s \in heard[d] => Unmatched(s, d)) => \E x \in data[d] : x.src = s

DataInv == \A d \in Member : DatumInv(d) /\ \A s \in Member : PairInv(s, d)

\* The receives of data are of members that were heard, one of each, and what
\* they receive is not empty.
RecvInvAt(d) ==
  /\ \A q \in recvs[d] : q.src \in heard[d] /\ (q.matched => q.buff # EmptyBag)
  /\ \A p, q \in recvs[d] : p.src = q.src => p = q

RecvInv == \A d \in Member : RecvInvAt(d)

\* The exchange that a tag belongs to.
Number(t) == (t - FirstTag) \div 2 + 1

\* What the counts announce is still known, and so is whether a member that
\* was heard announced anything.
AnnouncedInv(d) ==
  \A c \in Count :
    OnItsWay(c, d) => c.second = posted[c.src][Slot(Number(c.tag \div 2))]

TotalInvAt(d) ==
  /\ Inside(d) => (total[d] = 0 <=> \A s \in heard[d] : posted[s][Slot(Number(tag[d]))] = 0)
  /\ ~Inside(d) /\ tag[d] # FirstTag =>
       (total[d] = 0 <=> \A s \in Member : posted[s][Slot(Finished(d))] = 0)
  /\ ~Inside(d) /\ tag[d] = FirstTag => total[d] = 0

TotalInv == \A d \in Member : AnnouncedInv(d) /\ TotalInvAt(d)

IInv == /\ TypeInv /\ LoopInv /\ StepInv /\ CountInv /\ QueueInv /\ DataInv
        /\ RecvInv /\ TotalInv

-----------------------------------------------------------------------------
(* The members and their order.                                            *)

\* There are Size members.
LEMMA MemberFacts == IsFiniteSet(Member) /\ Cardinality(Member) = Size /\ Member # {}
<1>1. 0 \in Int /\ Size - 1 \in Int /\ 0 \in Member
  BY ExchangerAssumption DEF Member
<1>2. IsFiniteSet(Member) /\ Cardinality(Member) = IF 0 > Size - 1 THEN 0 ELSE Size - 1 - 0 + 1
  BY <1>1, FS_Interval, Zenon DEF Member
<1>3. ~(0 > Size - 1) /\ Size - 1 - 0 + 1 = Size
  BY ExchangerAssumption
<1> QED
  BY <1>1, <1>2, <1>3

\* The targets of m in turn are all the members, each once.
LEMMA TargetFacts ==
  ASSUME NEW m \in Member
  PROVE  /\ \A i \in Member : Target(m, i) \in Member
         /\ \A i, j \in Member : Target(m, i) = Target(m, j) => i = j
         /\ \A d \in Member : \E i \in Member : Target(m, i) = d
<1>1. m \in Nat /\ m < Size /\ Size \in Nat \ {0}
  BY ExchangerAssumption DEF Member
<1>2. ASSUME NEW i \in Member
      PROVE  Target(m, i) = IF i + m < Size THEN i + m ELSE i + m - Size
  <2>1. i \in Nat /\ i + m \in Nat /\ i + m < 2 * Size
    BY <1>1 DEF Member
  <2>2. CASE i + m < Size
    BY <1>1, <2>1, <2>2 DEF Target
  <2>3. CASE ~(i + m < Size)
    BY <1>1, <2>1, <2>3 DEF Target
  <2> QED
    BY <2>2, <2>3
<1>3. \A i \in Member : i \in Nat /\ i < Size
  BY <1>1 DEF Member
<1>4. ASSUME NEW i \in Member PROVE Target(m, i) \in Member
  BY <1>1, <1>2, <1>3 DEF Member
<1>5. ASSUME NEW i \in Member, NEW j \in Member, Target(m, i) = Target(m, j) PROVE i = j
  BY <1>1, <1>2, <1>3, <1>5
<1>6. ASSUME NEW d \in Member PROVE \E i \in Member : Target(m, i) = d
  <2>1. CASE d >= m
    <3>1. d - m \in Member /\ d - m + m = d
      BY <1>1, <1>3, <2>1 DEF Member
    <3> QED
      BY <1>1, <1>2, <1>3, <3>1
  <2>2. CASE ~(d >= m)
    <3>1. d - m + Size \in Member /\ d - m + Size + m = d + Size
      BY <1>1, <1>3, <2>2 DEF Member
    <3> QED
      BY <1>1, <1>2, <1>3, <3>1
  <2> QED
    BY <2>1, <2>2
<1> QED
  BY <1>4, <1>5, <1>6

\* The next target is new, and after Size counts all members were targets.
LEMMA SentFacts ==
  ASSUME NEW s \in Member, sent[s] \in 0..Size
  PROVE  /\ sent[s] = Size => SentTo(s) = Member
         /\ sent[s] = 0 => SentTo(s) = {}
         /\ sent[s] < Size => /\ Target(s, sent[s]) \in Member
                              /\ Target(s, sent[s]) \notin SentTo(s)
<1>1. Size \in Nat \ {0} /\ sent[s] \in Nat /\ Member = 0..(Size - 1)
  BY ExchangerAssumption DEF Member
<1>0. /\ \A i \in Member : Target(s, i) \in Member
      /\ \A i, j \in Member : Target(s, i) = Target(s, j) => i = j
      /\ \A d \in Member : \E i \in Member : Target(s, i) = d
  BY TargetFacts
<1>2. ASSUME sent[s] = Size PROVE SentTo(s) = Member
  <2>1. 0..(sent[s] - 1) = Member
    BY <1>1, <1>2
  <2>2. SentTo(s) = {Target(s, i) : i \in Member}
    BY <2>1 DEF SentTo
  <2> QED
    BY <1>0, <2>2
<1>3. sent[s] = 0 => SentTo(s) = {}
  BY <1>1 DEF SentTo
<1>4. ASSUME sent[s] < Size
      PROVE  Target(s, sent[s]) \in Member /\ Target(s, sent[s]) \notin SentTo(s)
  <2>1. sent[s] \in Member /\ \A i \in 0..(sent[s] - 1) : i \in Member /\ i # sent[s]
    BY <1>1, <1>4
  <2> QED
    BY <1>0, <2>1 DEF SentTo
<1> QED
  BY <1>2, <1>3, <1>4

-----------------------------------------------------------------------------
(* Queues.                                                                 *)

\* The empty queue.
LEMMA EmptyQueue == MsgBag(EmptyBag) /\ Copies(EmptyBag) = {} /\ BagToSet(EmptyBag) = {}
<1>1. BagToSet(EmptyBag) = {}
  BY DEF BagToSet, EmptyBag, SetToBag
<1>2. Copies(EmptyBag) = {}
  BY <1>1 DEF Copies
<1>3. IsABag(EmptyBag)
  BY DEF IsABag, BagToSet, EmptyBag, SetToBag
<1> QED
  BY <1>1, <1>2, <1>3, FS_EmptySet DEF MsgBag

\* A queue without messages is the empty queue.
LEMMA NoMessage ==
  ASSUME NEW b, MsgBag(b), BagToSet(b) = {}
  PROVE  b = EmptyBag
BY DEF MsgBag, IsABag, BagToSet, EmptyBag, SetToBag

\* The size of a queue is zero only if it is empty.
LEMMA QueueSizeFacts ==
  ASSUME NEW b, MsgBag(b)
  PROVE  QueueSize(b) \in Nat /\ (QueueSize(b) = 0 <=> b = EmptyBag)
<1>1. IsFiniteSet(Copies(b))
  BY DEF MsgBag
<1>2. QueueSize(b) \in Nat /\ (QueueSize(b) = 0 <=> Copies(b) = {})
  BY <1>1, FS_CardinalityType, FS_EmptySet DEF QueueSize
<1>3. ASSUME b # EmptyBag PROVE Copies(b) # {}
  <2>1. PICK e \in BagToSet(b) : TRUE
    BY <1>3, NoMessage
  <2>2. 1 \in 1..b[e]
    BY <2>1 DEF MsgBag, IsABag, BagToSet
  <2>3. <<e, 1>> \in {e} \X (1..b[e])
    BY <2>2
  <2> QED
    BY <2>1, <2>3 DEF Copies
<1> QED
  BY <1>2, <1>3, EmptyQueue

\* A queue with a message more is a queue that is not empty.
LEMMA QueueAdd ==
  ASSUME NEW b, MsgBag(b), NEW msg \in Message
  PROVE  MsgBag(b (+) SetToBag({msg})) /\ b (+) SetToBag({msg}) # EmptyBag
<1> DEFINE more == b (+) SetToBag({msg})
<1>1. BagToSet(more) = BagToSet(b) \cup {msg}
  BY DEF BagToSet, (+), SetToBag
<1>2. /\ \A e \in BagToSet(b) : b[e] \in Nat /\ b[e] > 0
      /\ \A e \in BagToSet(b) \ {msg} : more[e] = b[e]
      /\ msg \in BagToSet(b) => more[msg] = b[msg] + 1
      /\ msg \notin BagToSet(b) => more[msg] = 1
  BY DEF MsgBag, IsABag, BagToSet, (+), SetToBag
<1>3. IsABag(more)
  BY DEF MsgBag, IsABag, BagToSet, (+), SetToBag
<1>4. Copies(more) = Copies(b) \cup {<<msg, more[msg]>>}
  <2>1. ASSUME NEW e, NEW k
        PROVE  <<e, k>> \in Copies(more) <=> <<e, k>> \in Copies(b) \/ (e = msg /\ k = more[msg])
    <3> HIDE DEF more
    <3>1. <<e, k>> \in Copies(b) <=> e \in BagToSet(b) /\ k \in 1..b[e]
      BY DEF Copies
    <3>2. <<e, k>> \in Copies(more) <=> e \in BagToSet(more) /\ k \in 1..more[e]
      BY DEF Copies
    <3>3. CASE e = msg /\ msg \in BagToSet(b)
      BY <1>1, <1>2, <3>1, <3>2, <3>3
    <3>4. CASE e = msg /\ msg \notin BagToSet(b)
      BY <1>1, <1>2, <3>1, <3>2, <3>4
    <3>5. CASE e # msg
      BY <1>1, <1>2, <3>1, <3>2, <3>5
    <3> QED
      BY <3>3, <3>4, <3>5
  <2>2. \A x \in Copies(more) \cup Copies(b) : \E e, k : x = <<e, k>>
    BY DEF Copies
  <2> HIDE DEF more
  <2> QED
    BY <2>1, <2>2
<1>5. IsFiniteSet(Copies(more))
  BY <1>4, FS_AddElement DEF MsgBag
<1> QED
  BY <1>1, <1>3, <1>5, EmptyQueue DEF MsgBag

-----------------------------------------------------------------------------
(* Type correctness.                                                       *)

\* A count that arrived is a count, and so are those behind it.
LEMMA ArrivedFacts ==
  ASSUME TypeInv, NEW m \in Member, arrived[m] # << >>
  PROVE  /\ Head(arrived[m]) \in Count /\ Tail(arrived[m]) \in Seq(Count)
         /\ Len(arrived[m]) \in Nat \ {0} /\ Len(Tail(arrived[m])) = Len(arrived[m]) - 1
         /\ Head(arrived[m]) = arrived[m][1]
         /\ \A i \in 1..Len(Tail(arrived[m])) : Tail(arrived[m])[i] = arrived[m][i + 1]
<1>1. arrived[m] \in Seq(Count)
  BY DEF TypeInv
<1> QED
  BY <1>1

\* A count is sent with the type of one.
LEMMA SentCountType ==
  ASSUME TypeInv, NEW m \in Member, NEW d \in Member
  PROVE  [src |-> m, tag |-> CountTag(m), first |-> QueueSize(sendQ[m][d]),
          second |-> posted[m][Slot(Finished(m) + 1)]] \in Count
<1>1. QueueSize(sendQ[m][d]) \in Nat
  BY QueueSizeFacts DEF TypeInv, QueueType
<1>2. tag[m] \in Nat /\ FirstTag \in Nat
  BY ExchangerAssumption DEF TypeInv
<1>3. CountTag(m) \in Nat
  BY <1>2 DEF CountTag
<1>4. Slot(Finished(m) + 1) \in 0..1
  BY <1>2 DEF Slot, Finished
<1>5. posted[m][Slot(Finished(m) + 1)] \in Nat
  BY <1>4 DEF TypeInv
<1> QED
  BY <1>1, <1>3, <1>5 DEF Count

\* The receive that is posted for the data behind a count, and the data sent.
RecvFor(c) == [src |-> c.src, size |-> c.first, matched |-> FALSE, buff |-> EmptyBag]
DataOf(m) == [src |-> m, tag |-> DataTag(m)]

\* What the test of a count does.
TestCountEffects(m, c) ==
  /\ pc[m] = "poll" /\ arrived[m] # << >> /\ c = Head(arrived[m]) /\ c = arrived[m][1]
  /\ c.src \in Member /\ c.first \in Nat /\ c.second \in Nat
  /\ IsDataRecv(RecvFor(c)) /\ DataOf(m) \in Datum /\ Tail(arrived[m]) \in Seq(Count)
  /\ total' = [total EXCEPT ![m] = @ + c.second]
  /\ heard' = [heard EXCEPT ![m] = @ \cup {c.src}]
  /\ recvs' = [recvs EXCEPT ![m] = IF c.first = 0 THEN @ ELSE @ \cup {RecvFor(c)}]
  /\ sendQ[m][c.src] = EmptyBag => UNCHANGED <<isends, data>>
  /\ sendQ[m][c.src] # EmptyBag =>
       /\ isends' = [isends EXCEPT ![m] = @ \cup {c.src}]
       /\ data' = [data EXCEPT ![c.src] = @ \cup {DataOf(m)}]
  /\ arrived' = [arrived EXCEPT ![m] = Tail(@)]
  /\ UNCHANGED <<pc, tag, sendQ, counted, sent, posted, expected, counts>>

LEMMA TestCountFacts ==
  ASSUME TypeInv, NEW m \in Member, TestCount(m)
  PROVE  \E c \in Count : TestCountEffects(m, c)
<1>1. arrived[m] # << >>
  BY DEF TestCount
<1>2. PICK c : c = Head(arrived[m])
  OBVIOUS
<1>3. c \in Count /\ Tail(arrived[m]) \in Seq(Count) /\ c = arrived[m][1]
  BY <1>1, <1>2, ArrivedFacts
<1>4. c.src \in Member /\ c.first \in Nat /\ c.second \in Nat
  BY <1>3 DEF Count
<1>5. IsDataRecv(RecvFor(c))
  BY <1>4 DEF IsDataRecv, RecvFor
<1>6. DataOf(m) \in Datum
  BY DEF DataOf, DataTag, TypeInv, Datum
<1>7. /\ total' = [total EXCEPT ![m] = @ + c.second]
      /\ heard' = [heard EXCEPT ![m] = @ \cup {c.src}]
      /\ recvs' = [recvs EXCEPT ![m] = IF c.first = 0 THEN @ ELSE @ \cup {RecvFor(c)}]
  BY <1>2 DEF TestCount, RecvFor
<1>8. /\ sendQ[m][c.src] = EmptyBag => UNCHANGED <<isends, data>>
      /\ sendQ[m][c.src] # EmptyBag =>
           /\ isends' = [isends EXCEPT ![m] = @ \cup {c.src}]
           /\ data' = [data EXCEPT ![c.src] = @ \cup {DataOf(m)}]
  BY <1>2 DEF TestCount, DataOf
<1>9. /\ pc[m] = "poll"
      /\ arrived' = [arrived EXCEPT ![m] = Tail(@)]
      /\ UNCHANGED <<pc, tag, sendQ, counted, sent, posted, expected, counts>>
  BY DEF TestCount
<1> QED
  BY <1>1, <1>2, <1>3, <1>4, <1>5, <1>6, <1>7, <1>8, <1>9 DEF TestCountEffects

\* Every step keeps the types.
LEMMA TypeStays ==
  ASSUME TypeInv, [Next]_vars
  PROVE  TypeInv'
<1>0. CASE UNCHANGED vars
  BY <1>0 DEF TypeInv, vars, QueueType, RecvType
<1> SUFFICES ASSUME NEW m \in Member, Step(m) PROVE TypeInv'
  BY <1>0 DEF Next, Done
<1>1. CASE \E d \in Member, msg \in Message : QueueMessage(m, d, msg)
  <2>1. PICK d \in Member, msg \in Message : QueueMessage(m, d, msg)
    BY <1>1
  <2>2. MsgBag(sendQ[m][d] (+) SetToBag({msg}))
    BY QueueAdd DEF TypeInv, QueueType
  <2>3. QueueType'
    BY <2>1, <2>2 DEF QueueMessage, TypeInv, QueueType
  <2>4. counted' \in [Member -> Nat]
    <3>1. counted' = [counted EXCEPT ![m] = @ + 1]
      BY <2>1 DEF QueueMessage
    <3>2. counted \in [Member -> Nat]
      BY DEF TypeInv
    <3> QED
      BY <3>1, <3>2
  <2> QED
    BY <2>1, <2>3, <2>4 DEF QueueMessage, TypeInv, RecvType
<1>2. CASE \E x \in ExtraCount[m] : EnterExchange(m, x)
  <2>1. PICK x \in ExtraCount[m] : EnterExchange(m, x)
    BY <1>2
  <2>2. x \in Nat /\ 0 \in 0..Size
    BY ExchangerAssumption
  <2>3. posted \in [Member -> [0..1 -> Nat]] /\ counted[m] + x \in Nat
    BY <2>2 DEF TypeInv
  <2>4. posted' = [posted EXCEPT ![m][Slot(Finished(m) + 1)] = counted[m] + x]
    BY <2>1 DEF EnterExchange
  <2>5. posted' \in [Member -> [0..1 -> Nat]]
    BY <2>3, <2>4
  <2>6. /\ pc' \in [Member -> {"idle", "counts", "poll", "destroyed"}]
        /\ sent' \in [Member -> 0..Size] /\ total' \in [Member -> Nat]
    BY <2>1, <2>2 DEF EnterExchange, TypeInv
  <2>7. UNCHANGED <<tag, sendQ, counted, expected, arrived, heard, recvs, isends, counts, data>>
    BY <2>1 DEF EnterExchange
  <2>8. QueueType' /\ RecvType'
    BY <2>7 DEF TypeInv, QueueType, RecvType
  <2> QED
    BY <2>5, <2>6, <2>7, <2>8 DEF TypeInv
<1>3. CASE Destroy(m)
  <2>1. 0 \in 0..Size
    BY ExchangerAssumption
  <2> QED
    BY <1>3, <2>1 DEF Destroy, TypeInv, QueueType, RecvType
<1>4. CASE SendCount(m)
  <2>1. sent[m] + 1 \in 0..Size
    BY <1>4, ExchangerAssumption DEF SendCount, TypeInv
  <2>2. sent[m] < Size /\ sent[m] \in 0..Size
    BY <1>4 DEF SendCount, TypeInv
  <2>3. Target(m, sent[m]) \in Member
    BY <2>2, SentFacts
  <2>4. counts' \in [Member -> SUBSET Count]
    BY <1>4, <2>3, SentCountType DEF SendCount, TypeInv
  <2> QED
    BY <1>4, <2>1, <2>4 DEF SendCount, TypeInv, QueueType, RecvType
<1>5. CASE AllCountsSent(m)
  BY <1>5 DEF AllCountsSent, TypeInv, QueueType, RecvType
<1>6. CASE TestCount(m)
  <2>1. PICK c \in Count : TestCountEffects(m, c)
    BY <1>6, TestCountFacts
  <2>2. /\ c.src \in Member /\ c.second \in Nat
        /\ Tail(arrived[m]) \in Seq(Count) /\ DataOf(m) \in Datum
        /\ IsDataRecv(RecvFor(c))
    BY <2>1 DEF TestCountEffects
  <2>3. /\ data \in [Member -> SUBSET Datum] /\ isends \in [Member -> SUBSET Member]
        /\ total \in [Member -> Nat] /\ heard \in [Member -> SUBSET Member]
        /\ arrived \in [Member -> Seq(Count)] /\ RecvType
    BY DEF TypeInv
  <2>4. data' \in [Member -> SUBSET Datum] /\ isends' \in [Member -> SUBSET Member]
    <3>1. CASE sendQ[m][c.src] = EmptyBag
      BY <2>1, <2>3, <3>1 DEF TestCountEffects
    <3>2. CASE sendQ[m][c.src] # EmptyBag
      <4>1. /\ isends' = [isends EXCEPT ![m] = @ \cup {c.src}]
            /\ data' = [data EXCEPT ![c.src] = @ \cup {DataOf(m)}]
        BY <2>1, <3>2 DEF TestCountEffects
      <4> QED
        BY <2>2, <2>3, <4>1
    <3> QED
      BY <3>1, <3>2
  <2>5. total' \in [Member -> Nat] /\ heard' \in [Member -> SUBSET Member]
    BY <2>1, <2>2, <2>3 DEF TestCountEffects
  <2>6. arrived' \in [Member -> Seq(Count)]
    BY <2>1, <2>2, <2>3 DEF TestCountEffects
  <2>7. RecvType'
    BY <2>1, <2>2, <2>3 DEF TestCountEffects, RecvType
  <2>8. UNCHANGED <<pc, tag, sendQ, counted, sent, posted, expected, counts>>
    BY <2>1 DEF TestCountEffects
  <2> QED
    BY <2>4, <2>5, <2>6, <2>7, <2>8 DEF TypeInv, QueueType
<1>7. CASE TestData(m)
  <2>1. PICK q \in recvs[m] : recvs' = [recvs EXCEPT ![m] = @ \ {q}]
    BY <1>7 DEF TestData
  <2>2. RecvType
    BY DEF TypeInv
  <2>3. RecvType'
    BY <2>1, <2>2 DEF RecvType
  <2> QED
    BY <1>7, <2>3 DEF TestData, TypeInv, QueueType
<1>8. CASE Finish(m)
  <2>1. QueueType'
    BY <1>8, EmptyQueue DEF Finish, TypeInv, QueueType, NoMessages
  <2>2. tag' \in [Member -> Nat] /\ expected' \in [Member -> 0..Size]
    BY <1>8, ExchangerAssumption DEF Finish, TypeInv
  <2> QED
    BY <1>8, <2>1, <2>2 DEF Finish, TypeInv, RecvType
<1>9. CASE MatchCount(m)
  <2>1. PICK c \in counts[m] :
          /\ arrived' = [arrived EXCEPT ![m] = Append(@, c)]
          /\ counts' = [counts EXCEPT ![m] = @ \ {c}]
    BY <1>9 DEF MatchCount
  <2>2. c \in Count /\ arrived[m] \in Seq(Count)
    BY <2>1 DEF TypeInv
  <2>3. Append(arrived[m], c) \in Seq(Count)
    BY <2>2
  <2> arrived \in [Member -> Seq(Count)] /\ counts \in [Member -> SUBSET Count]
    BY DEF TypeInv
  <2>4. arrived' \in [Member -> Seq(Count)] /\ counts' \in [Member -> SUBSET Count]
    BY <2>1, <2>3
  <2>5. expected' \in [Member -> 0..Size]
    BY <1>9, ExchangerAssumption DEF MatchCount, TypeInv
  <2> QED
    BY <1>9, <2>4, <2>5 DEF MatchCount, TypeInv, QueueType, RecvType
<1>10. CASE MatchData(m)
  <2>1. PICK q \in recvs[m], x \in data[m] :
          /\ recvs' = [recvs EXCEPT ![m] = (@ \ {q}) \cup
                         {[src |-> q.src, size |-> q.size, matched |-> TRUE,
                           buff |-> sendQ[q.src][m]]}]
          /\ data' = [data EXCEPT ![m] = @ \ {x}]
          /\ isends' = [isends EXCEPT ![q.src] = @ \ {m}]
    BY <1>10 DEF MatchData
  <2>2. IsDataRecv(q)
    BY DEF TypeInv, RecvType
  <2>4. MsgBag(sendQ[q.src][m])
    BY <2>2 DEF TypeInv, QueueType, IsDataRecv
  <2>5. IsDataRecv([src |-> q.src, size |-> q.size, matched |-> TRUE,
                    buff |-> sendQ[q.src][m]])
    BY <2>2, <2>4 DEF IsDataRecv
  <2>6. RecvType'
    BY <2>1, <2>5 DEF TypeInv, RecvType
  <2> data \in [Member -> SUBSET Datum] /\ isends \in [Member -> SUBSET Member]
    BY DEF TypeInv
  <2>7. data' \in [Member -> SUBSET Datum] /\ isends' \in [Member -> SUBSET Member]
    BY <2>1
  <2>8. UNCHANGED <<pc, tag, sendQ, counted, sent, posted, total, expected, arrived,
                    heard, counts>>
    BY <1>10 DEF MatchData
  <2> QED
    BY <2>6, <2>7, <2>8 DEF TypeInv, QueueType
<1> QED
  BY <1>1, <1>2, <1>3, <1>4, <1>5, <1>6, <1>7, <1>8, <1>9, <1>10 DEF Step

-----------------------------------------------------------------------------
(* Exchanges in step.                                                      *)

\* Tags are two apart or more.
LEMMA Parity ==
  ASSUME TypeInv, LoopInv, NEW s \in Member, NEW d \in Member
  PROVE  /\ tag[s] \in Nat /\ tag[d] \in Nat
         /\ tag[d] # tag[s] + 1 /\ tag[d] + 2 # tag[s] + 1
         /\ tag[d] > tag[s] => tag[d] >= tag[s] + 2
<1>1. /\ tag[s] \in Nat /\ tag[d] \in Nat /\ FirstTag \in Nat
      /\ tag[s] = FirstTag + 2 * Finished(s) /\ Finished(s) \in Nat
      /\ tag[d] = FirstTag + 2 * Finished(d) /\ Finished(d) \in Nat
  BY ExchangerAssumption DEF TypeInv, LoopInv, LoopInvAt
<1> QED
  BY <1>1

\* A count more is sent.
LEMMA SendGrows ==
  ASSUME TypeInv, NEW m \in Member, SendCount(m)
  PROVE  /\ Target(m, sent[m]) \in Member /\ Target(m, sent[m]) \notin SentTo(m)
         /\ SentTo(m)' = SentTo(m) \cup {Target(m, sent[m])}
         /\ \A s \in Member : s # m => SentTo(s)' = SentTo(s)
<1>1. sent[m] \in 0..Size /\ sent[m] < Size /\ Size \in Nat /\ sent[m] \in Nat
  BY ExchangerAssumption DEF SendCount, TypeInv
<1>2. Target(m, sent[m]) \in Member /\ Target(m, sent[m]) \notin SentTo(m)
  BY <1>1, SentFacts
<1>3. sent' = [sent EXCEPT ![m] = sent[m] + 1] /\ sent \in [Member -> 0..Size]
  BY DEF SendCount, TypeInv
<1>4. 0..(sent'[m] - 1) = 0..(sent[m] - 1) \cup {sent[m]}
  BY <1>1, <1>3
<1>5. SentTo(m)' = SentTo(m) \cup {Target(m, sent[m])}
  BY <1>4 DEF SentTo, Target
<1>6. \A s \in Member : s # m => SentTo(s)' = SentTo(s)
  BY <1>3 DEF SentTo, Target
<1> QED
  BY <1>2, <1>5, <1>6

\* The steps that change where a member is.
Moves(m) ==
  \/ \E x \in ExtraCount[m] : EnterExchange(m, x)
  \/ Destroy(m)
  \/ AllCountsSent(m)
  \/ Finish(m)

\* The steps that leave every member where it is.
Stays(m) ==
  \/ \E d \in Member, msg \in Message : QueueMessage(m, d, msg)
  \/ TestCount(m) \/ TestData(m) \/ MatchCount(m) \/ MatchData(m)

LEMMA StepParts ==
  ASSUME NEW m \in Member, Step(m)
  PROVE  Moves(m) \/ Stays(m) \/ SendCount(m)
BY DEF Step, Moves, Stays

\* Only SendCount sends a count.
LEMMA ReachedStays ==
  ASSUME TypeInv, LoopInv, NEW m \in Member, Moves(m) \/ Stays(m) \/ UNCHANGED vars,
         NEW s \in Member, NEW d \in Member, NEW t \in Nat, t # tag[s] + 1
  PROVE  Reached(s, d, t)' <=> Reached(s, d, t)
<1> tag \in [Member -> Nat] /\ sent \in [Member -> 0..Size] /\ Size \in Nat
  BY ExchangerAssumption DEF TypeInv
<1> pc \in [Member -> {"idle", "counts", "poll", "destroyed"}]
  BY DEF TypeInv
<1>1. CASE Stays(m) \/ UNCHANGED vars
  <2>1. UNCHANGED <<pc, tag, sent>>
    BY <1>1 DEF Stays, vars, QueueMessage, TestCount, TestData, MatchCount, MatchData
  <2> QED
    BY <2>1 DEF Reached, Inside, SentTo, Target
<1>2. CASE \E x \in ExtraCount[m] : EnterExchange(m, x)
  <2>1. /\ tag' = tag /\ pc[m] = "idle" /\ pc' = [pc EXCEPT ![m] = "counts"]
        /\ sent' = [sent EXCEPT ![m] = 0]
    BY <1>2 DEF EnterExchange
  <2>2. SentTo(m)' = {}
    BY <2>1 DEF SentTo
  <2>3. s # m => SentTo(s)' = SentTo(s)
    BY <2>1 DEF SentTo, Target
  <2> QED
    BY <2>1, <2>2, <2>3 DEF Reached, Inside
<1>3. CASE Destroy(m) \/ AllCountsSent(m)
  <2>1. /\ tag' = tag /\ sent' = sent
        /\ Inside(s)' <=> Inside(s)
    BY <1>3 DEF Destroy, AllCountsSent, Inside
  <2> QED
    BY <2>1 DEF Reached, SentTo, Target
<1>4. CASE Finish(m)
  <2>1. /\ tag' = [tag EXCEPT ![m] = @ + 2] /\ sent' = sent
        /\ pc[m] = "poll" /\ pc' = [pc EXCEPT ![m] = "idle"]
    BY <1>4 DEF Finish
  <2>2. SentTo(s)' = SentTo(s)
    BY <2>1 DEF SentTo, Target
  <2>3. CASE s # m
    BY <2>1, <2>2, <2>3 DEF Reached, Inside
  <2>4. CASE s = m
    <3>1. SentTo(m) = Member
      BY <2>1, SentFacts DEF LoopInv, LoopInvAt
    <3> QED
      BY <2>1, <2>4, <3>1 DEF Reached, Inside
  <2> QED
    BY <2>3, <2>4
<1> QED
  BY <1>1, <1>2, <1>3, <1>4 DEF Moves

\* SendCount sends one.
LEMMA ReachedGrows ==
  ASSUME TypeInv, LoopInv, NEW m \in Member, SendCount(m),
         NEW s \in Member, NEW d \in Member, NEW t \in Nat
  PROVE  Reached(s, d, t)' <=> \/ Reached(s, d, t)
                               \/ s = m /\ d = Target(m, sent[m]) /\ t = tag[m]
<1>1. pc' = pc /\ tag' = tag /\ Inside(m)
  BY DEF SendCount, Inside
<1> QED
  BY <1>1, SendGrows DEF Reached, Inside

\* A member that has tested all counts has heard all members.
LEMMA AllHeard ==
  ASSUME TypeInv, LoopInv, NEW m \in Member, Finish(m)
  PROVE  heard[m] = Member
<1>1. expected[m] = 0 /\ arrived[m] = << >> /\ pc[m] = "poll"
  BY DEF Finish
<1>2. Arrived(m) = {}
  BY <1>1 DEF Arrived
<1>3. Got(m) = heard[m] /\ heard[m] \subseteq Member
  BY <1>2 DEF Got, TypeInv
<1>4. expected[m] + Cardinality(Got(m)) = Size
  BY <1>1 DEF LoopInv, LoopInvAt
<1>5. IsFiniteSet(heard[m]) /\ Cardinality(heard[m]) = Cardinality(Member)
  BY <1>1, <1>3, <1>4, MemberFacts, FS_Subset, FS_CardinalityType, ExchangerAssumption
<1> QED
  BY <1>3, <1>5, MemberFacts, FS_Subset

\* Whoever was heard of has sent its count.
LEMMA HeardReached ==
  ASSUME CountInv, NEW d \in Member, NEW s \in Member, s \in Got(d)
  PROVE  Reached(s, d, tag[d])
BY DEF CountInv, Accounted

\* Members stay in step.
LEMMA StepInvStays ==
  ASSUME TypeInv, LoopInv, StepInv, CountInv, [Next]_vars
  PROVE  StepInv'
<1> tag \in [Member -> Nat]
  BY DEF TypeInv
<1> pc \in [Member -> {"idle", "counts", "poll", "destroyed"}]
  BY DEF TypeInv
<1> SUFFICES ASSUME NEW s \in Member, NEW d \in Member, tag'[s] > tag'[d]
             PROVE  tag'[s] = tag'[d] + 2 /\ Inside(d)' /\ (s \in SentTo(d))'
  BY DEF StepInv
<1>0. tag[s] > tag[d] => tag[s] = tag[d] + 2 /\ Inside(d) /\ s \in SentTo(d)
  BY DEF StepInv
<1>1. ASSUME UNCHANGED <<pc, tag, sent>>
      PROVE  tag'[s] = tag'[d] + 2 /\ Inside(d)' /\ (s \in SentTo(d))'
  BY <1>0, <1>1 DEF Inside, SentTo, Target
<1>2. CASE UNCHANGED vars \/ \E m \in Member : Stays(m)
  BY <1>1, <1>2 DEF Stays, vars, QueueMessage, TestCount, TestData, MatchCount, MatchData
<1>3. ASSUME NEW m \in Member, SendCount(m)
      PROVE  tag'[s] = tag'[d] + 2 /\ Inside(d)' /\ (s \in SentTo(d))'
  <2>1. pc' = pc /\ tag' = tag
    BY <1>3 DEF SendCount
  <2> QED
    BY <1>0, <1>3, <2>1, SendGrows DEF Inside
<1>4. ASSUME NEW m \in Member, \E x \in ExtraCount[m] : EnterExchange(m, x)
      PROVE  tag'[s] = tag'[d] + 2 /\ Inside(d)' /\ (s \in SentTo(d))'
  <2>1. /\ tag' = tag /\ pc[m] = "idle" /\ pc' = [pc EXCEPT ![m] = "counts"]
        /\ sent' = [sent EXCEPT ![m] = 0]
    BY <1>4 DEF EnterExchange
  <2>2. d # m
    BY <1>0, <2>1 DEF Inside
  <2> QED
    BY <1>0, <2>1, <2>2 DEF Inside, SentTo, Target
<1>5. ASSUME NEW m \in Member, Destroy(m) \/ AllCountsSent(m)
      PROVE  tag'[s] = tag'[d] + 2 /\ Inside(d)' /\ (s \in SentTo(d))'
  <2>1. tag' = tag /\ sent' = sent /\ (Inside(d)' <=> Inside(d))
    BY <1>5 DEF Destroy, AllCountsSent, Inside
  <2> QED
    BY <1>0, <2>1 DEF SentTo, Target
<1>6. ASSUME NEW m \in Member, Finish(m)
      PROVE  tag'[s] = tag'[d] + 2 /\ Inside(d)' /\ (s \in SentTo(d))'
  <2>1. /\ tag' = [tag EXCEPT ![m] = @ + 2] /\ sent' = sent
        /\ pc[m] = "poll" /\ pc' = [pc EXCEPT ![m] = "idle"]
    BY <1>6 DEF Finish
  <2>2. \A e \in Member : Reached(e, m, tag[m])
    BY <1>6, AllHeard, HeardReached DEF Got
  <2>3. /\ tag[s] \in Nat /\ tag[d] \in Nat /\ tag[m] \in Nat
        /\ tag[m] > tag[s] => tag[m] = tag[s] + 2
        /\ tag[s] > tag[m] => tag[s] = tag[m] + 2
        /\ tag[d] > tag[m] => tag[d] = tag[m] + 2
    BY DEF StepInv
  <2>4. CASE d = m
    <3>1. s # m /\ tag[s] > tag[m] + 2
      BY <2>1, <2>3, <2>4
    <3> QED
      BY <2>3, <3>1
  <2>5. CASE d # m /\ s = m
    <3>1. tag[d] >= tag[m] /\ (tag[d] = tag[m] => Inside(d) /\ m \in SentTo(d))
      BY <2>2, <2>3 DEF Reached
    <3>2. tag[d] = tag[m]
      BY <2>1, <2>3, <2>5, <3>1
    <3> QED
      BY <2>1, <2>5, <3>1, <3>2 DEF Inside, SentTo, Target
  <2>6. CASE d # m /\ s # m
    BY <1>0, <2>1, <2>6 DEF Inside, SentTo, Target
  <2> QED
    BY <2>4, <2>5, <2>6
<1> QED
  BY <1>2, <1>3, <1>4, <1>5, <1>6, StepParts DEF Next, Done, Moves

-----------------------------------------------------------------------------
(* Every count is delivered once.                                          *)

\* A count is received.
LEMMA MatchCountFacts ==
  ASSUME TypeInv, NEW m \in Member, MatchCount(m)
  PROVE  \E c \in counts[m] :
           /\ c \in Count /\ c.tag = CountTag(m) /\ expected[m] > 0
           /\ counts' = [counts EXCEPT ![m] = @ \ {c}]
           /\ Len(arrived'[m]) = Len(arrived[m]) + 1
           /\ \A i \in 1..Len(arrived[m]) : arrived'[m][i] = arrived[m][i]
           /\ arrived'[m][Len(arrived[m]) + 1] = c
           /\ \A d \in Member : d # m => arrived'[d] = arrived[d]
           /\ Arrived(m)' = Arrived(m) \cup {c.src}
<1>1. PICK c \in counts[m] :
        /\ c.tag = CountTag(m)
        /\ arrived' = [arrived EXCEPT ![m] = Append(@, c)]
        /\ counts' = [counts EXCEPT ![m] = @ \ {c}]
  BY DEF MatchCount
<1>2. c \in Count /\ arrived \in [Member -> Seq(Count)]
  BY DEF TypeInv
<1>3. /\ Len(arrived'[m]) = Len(arrived[m]) + 1
      /\ \A i \in 1..Len(arrived[m]) : arrived'[m][i] = arrived[m][i]
      /\ arrived'[m][Len(arrived[m]) + 1] = c
      /\ \A d \in Member : d # m => arrived'[d] = arrived[d]
      /\ Len(arrived[m]) \in Nat
  BY <1>1, <1>2
<1>4. 1..(Len(arrived[m]) + 1) = 1..Len(arrived[m]) \cup {Len(arrived[m]) + 1}
  BY <1>3
<1>5. Arrived(m)' = Arrived(m) \cup {c.src}
  <2>1. \A x : x \in Arrived(m) <=> \E i \in 1..Len(arrived[m]) : x = arrived[m][i].src
    BY DEF Arrived
  <2>2. \A x : x \in Arrived(m)' <=> \E i \in 1..Len(arrived'[m]) : x = arrived'[m][i].src
    BY DEF Arrived
  <2>3. \A x : x \in Arrived(m)' <=> x \in Arrived(m) \/ x = c.src
    BY <1>3, <1>4, <2>1, <2>2
  <2> QED
    BY <2>3
<1>6. expected[m] > 0
  BY DEF MatchCount
<1> QED
  BY <1>1, <1>2, <1>3, <1>5, <1>6

\* A count that was received is tested: its source was not heard before.
LEMMA TestCountGot ==
  ASSUME TypeInv, CountInv, NEW m \in Member, NEW c, TestCountEffects(m, c)
  PROVE  /\ c.tag = CountTag(m) /\ c.src \in Got(m) /\ c.src \notin heard[m]
         /\ \A d \in Member : Got(d)' = Got(d)
         /\ ArrivedInv(m)'
         /\ \A i \in 1..Len(arrived'[m]) : arrived'[m][i] = arrived[m][i + 1]
         /\ Len(arrived[m]) = Len(arrived'[m]) + 1 /\ Len(arrived'[m]) \in Nat
<1>1. /\ arrived[m] # << >> /\ c = arrived[m][1] /\ arrived'[m] = Tail(arrived[m])
      /\ heard'[m] = heard[m] \cup {c.src} /\ tag' = tag
      /\ \A d \in Member : d # m => arrived'[d] = arrived[d] /\ heard'[d] = heard[d]
  BY DEF TestCountEffects, TypeInv
<1>2. /\ Len(arrived[m]) \in Nat \ {0} /\ Len(arrived'[m]) = Len(arrived[m]) - 1
      /\ \A i \in 1..Len(arrived'[m]) : arrived'[m][i] = arrived[m][i + 1]
  BY <1>1, ArrivedFacts
<1>3. 1 \in 1..Len(arrived[m]) /\ \A i \in 1..Len(arrived'[m]) : i + 1 \in 1..Len(arrived[m])
  BY <1>2
<1>4. ArrivedInv(m)
  BY DEF CountInv
<1>5. c.tag = CountTag(m) /\ c.src \notin heard[m]
  BY <1>1, <1>3, <1>4 DEF ArrivedInv
<1>6. \A i \in 1..Len(arrived'[m]) : arrived'[m][i].src # c.src
  <2> SUFFICES ASSUME NEW i \in 1..Len(arrived'[m]), arrived'[m][i].src = c.src PROVE FALSE
    OBVIOUS
  <2>1. i \in Nat /\ i + 1 \in 1..Len(arrived[m]) /\ arrived[m][i + 1].src = arrived[m][1].src
    BY <1>1, <1>2, <1>3
  <2>2. i + 1 = 1
    BY <1>3, <1>4, <2>1 DEF ArrivedInv
  <2> QED
    BY <2>1, <2>2
<1>7. ArrivedInv(m)'
  <2>1. ASSUME NEW i \in 1..Len(arrived'[m])
        PROVE  arrived'[m][i].tag = CountTag(m) /\ arrived'[m][i].src \notin heard'[m]
    BY <1>1, <1>2, <1>3, <1>4, <1>6 DEF ArrivedInv
  <2>2. ASSUME NEW i \in 1..Len(arrived'[m]), NEW j \in 1..Len(arrived'[m]),
               arrived'[m][i].src = arrived'[m][j].src
        PROVE  i = j
    <3>0. /\ i + 1 \in 1..Len(arrived[m]) /\ j + 1 \in 1..Len(arrived[m])
          /\ arrived[m][i + 1].src = arrived[m][j + 1].src
      BY <1>2, <1>3, <2>2
    <3>1. i + 1 = j + 1
      BY <1>4, <3>0 DEF ArrivedInv
    <3> QED
      BY <3>1
  <2>3. CountTag(m)' = CountTag(m)
    BY <1>1 DEF CountTag
  <2> QED
    BY <2>1, <2>2, <2>3 DEF ArrivedInv
<1>8. Arrived(m) = Arrived(m)' \cup {c.src}
  <2>1. \A x : x \in Arrived(m) <=> \E i \in 1..Len(arrived[m]) : x = arrived[m][i].src
    BY DEF Arrived
  <2>2. \A x : x \in Arrived(m)' <=> \E i \in 1..Len(arrived'[m]) : x = arrived'[m][i].src
    BY DEF Arrived
  <2>3. ASSUME NEW x \in Arrived(m) PROVE x \in Arrived(m)' \cup {c.src}
    <3>1. PICK i \in 1..Len(arrived[m]) : x = arrived[m][i].src
      BY <2>1
    <3>2. CASE i = 1
      BY <1>1, <3>1, <3>2
    <3>3. CASE i # 1
      <4>1. i - 1 \in 1..Len(arrived'[m]) /\ i - 1 + 1 = i
        BY <1>2, <3>3
      <4>2. arrived'[m][i - 1] = arrived[m][i]
        BY <1>2, <4>1
      <4> QED
        BY <2>2, <3>1, <4>1, <4>2
    <3> QED
      BY <3>2, <3>3
  <2>4. ASSUME NEW x \in Arrived(m)' PROVE x \in Arrived(m)
    BY <1>2, <1>3, <2>1, <2>2, <2>4
  <2>5. c.src \in Arrived(m)
    BY <1>1, <1>3, <2>1
  <2> QED
    BY <2>3, <2>4, <2>5
<1>9. \A d \in Member : Got(d)' = Got(d)
  <2>1. \A d \in Member : d # m => Arrived(d)' = Arrived(d)
    BY <1>1 DEF Arrived
  <2> QED
    BY <1>1, <1>8, <2>1 DEF Got
<1> QED
  BY <1>2, <1>5, <1>7, <1>8, <1>9 DEF Got

\* Only these steps change what is in flight or received.
LEMMA CountsStay ==
  ASSUME TypeInv, NEW m \in Member,
         \/ Moves(m) /\ ~Finish(m)
         \/ Stays(m) /\ ~TestCount(m) /\ ~MatchCount(m)
         \/ UNCHANGED vars
  PROVE  UNCHANGED <<tag, arrived, heard, counts>>
BY DEF Moves, Stays, vars, EnterExchange, Destroy, AllCountsSent, Finish, QueueMessage,
       TestCount, TestData, MatchCount, MatchData

\* SendCount keeps the counts in order.
LEMMA SendCountKeepsCounts ==
  ASSUME TypeInv, LoopInv, StepInv, CountInv, NEW m \in Member, SendCount(m)
  PROVE  CountInv'
<1> tag \in [Member -> Nat] /\ counts \in [Member -> SUBSET Count]
  BY DEF TypeInv
<1> DEFINE e == Target(m, sent[m])
<1>1. PICK c : /\ c = [src |-> m, tag |-> CountTag(m), first |-> QueueSize(sendQ[m][e]),
                       second |-> posted[m][Slot(Finished(m) + 1)]]
               /\ counts' = [counts EXCEPT ![e] = @ \cup {c}]
  BY DEF SendCount
<1>2. c.src = m /\ c.tag = 2 * tag[m] /\ c.tag = CountTag(m)
  BY <1>1 DEF CountTag
<1>3. UNCHANGED <<tag, arrived, heard>> /\ Inside(m)
  BY DEF SendCount, Inside
<1>4. e \in Member /\ e \notin SentTo(m)
  BY SendGrows
<1> HIDE DEF e
<1>5. ~Reached(m, e, tag[m]) /\ (tag[e] = tag[m] \/ tag[m] = tag[e] + 2)
  BY <1>4 DEF Reached, StepInv
<1>6. \A s, d \in Member, t \in Nat :
        InFlight(s, d, t)' <=> InFlight(s, d, t) \/ (s = m /\ d = e /\ t = tag[m])
  BY <1>1, <1>2, <1>4 DEF InFlight
<1>7. \A s, d \in Member, t \in Nat :
        Reached(s, d, t)' <=> Reached(s, d, t) \/ (s = m /\ d = e /\ t = tag[m])
  BY ReachedGrows DEF e
<1>8. \A d \in Member : Got(d)' = Got(d) /\ tag'[d] = tag[d] /\ tag[d] \in Nat
  BY <1>3 DEF Got, Arrived
<1>9. ASSUME NEW s \in Member, NEW d \in Member PROVE Accounted(s, d)'
  <2>1. Accounted(s, d)
    BY DEF CountInv
  <2>2. Accounted(m, e)
    BY <1>4 DEF CountInv
  <2>3. tag[e] = tag[m] => ~InFlight(m, e, tag[m]) /\ m \notin Got(e)
    BY <1>5, <2>2 DEF Accounted
  <2>4. tag[d] \in Nat /\ tag[d] + 2 \in Nat /\ tag[m] \in Nat
    OBVIOUS
  <2>5. /\ InFlight(s, d, tag[d])' <=> InFlight(s, d, tag[d]) \/ (s = m /\ d = e /\ tag[d] = tag[m])
        /\ InFlight(s, d, tag[d] + 2)' <=> \/ InFlight(s, d, tag[d] + 2)
                                           \/ (s = m /\ d = e /\ tag[d] + 2 = tag[m])
        /\ Reached(s, d, tag[d])' <=> Reached(s, d, tag[d]) \/ (s = m /\ d = e /\ tag[d] = tag[m])
        /\ Reached(s, d, tag[d] + 2)' <=> \/ Reached(s, d, tag[d] + 2)
                                          \/ (s = m /\ d = e /\ tag[d] + 2 = tag[m])
    BY <1>3, <1>6, <1>7, <2>4
  <2> QED
    BY <1>8, <2>1, <2>3, <2>5 DEF Accounted
<1>10. ASSUME NEW d \in Member PROVE FlightInv(d)' /\ ArrivedInv(d)'
  <2>1. FlightInv(d) /\ ArrivedInv(d) /\ Accounted(m, d)
    BY DEF CountInv
  <2>2. ArrivedInv(d)'
    BY <1>3, <2>1 DEF ArrivedInv, CountTag
  <2>3. CountTag(d)' = CountTag(d)
    BY <1>3 DEF CountTag
  <2>4. CASE d # e
    <3>1. counts'[d] = counts[d]
      BY <1>1, <2>4
    <3> QED
      BY <2>1, <2>2, <2>3, <3>1 DEF FlightInv
  <2>5. CASE d = e
    <3>1. counts'[d] = counts[d] \cup {c}
      BY <1>1, <1>4, <2>5
    <3>2. c.tag = CountTag(d) \/ c.tag = CountTag(d) + 4
      BY <1>2, <1>5, <2>5 DEF CountTag
    <3>3. ~InFlight(m, d, tag[m])
      BY <1>5, <2>1, <2>5 DEF Accounted
    <3>4. \A b \in counts[d] : ~(b.src = c.src /\ b.tag = c.tag)
      BY <1>2, <3>3 DEF InFlight
    <3> QED
      BY <2>1, <2>2, <2>3, <3>1, <3>2, <3>4 DEF FlightInv
  <2> QED
    BY <2>2, <2>4, <2>5
<1> QED
  BY <1>9, <1>10 DEF CountInv

\* So does MatchCount.
LEMMA MatchCountKeepsCounts ==
  ASSUME TypeInv, LoopInv, StepInv, CountInv, NEW m \in Member, MatchCount(m)
  PROVE  CountInv'
<1> tag \in [Member -> Nat] /\ counts \in [Member -> SUBSET Count]
  BY DEF TypeInv
<1>1. PICK c \in counts[m] :
        /\ c \in Count /\ c.tag = CountTag(m)
        /\ counts' = [counts EXCEPT ![m] = @ \ {c}]
        /\ Len(arrived'[m]) = Len(arrived[m]) + 1
        /\ \A i \in 1..Len(arrived[m]) : arrived'[m][i] = arrived[m][i]
        /\ arrived'[m][Len(arrived[m]) + 1] = c
        /\ \A d \in Member : d # m => arrived'[d] = arrived[d]
        /\ Arrived(m)' = Arrived(m) \cup {c.src}
  BY MatchCountFacts
<1>2. UNCHANGED <<pc, tag, sent, heard>>
  BY DEF MatchCount
<1>3. c.src \in Member /\ c.tag = 2 * tag[m] /\ Len(arrived[m]) \in Nat
  BY <1>1 DEF Count, CountTag, TypeInv
<1>4. FlightInv(m) /\ ArrivedInv(m) /\ Accounted(c.src, m) /\ InFlight(c.src, m, tag[m])
  BY <1>1, <1>3 DEF CountInv, InFlight
<1>5. \A s, d \in Member, t \in Nat : Reached(s, d, t)' <=> Reached(s, d, t)
  BY <1>2 DEF Reached, Inside, SentTo, Target
<1>6. \A s, d \in Member, t \in Nat :
        InFlight(s, d, t)' <=> InFlight(s, d, t) /\ ~(s = c.src /\ d = m /\ t = tag[m])
  <2> SUFFICES ASSUME NEW s \in Member, NEW d \in Member, NEW t \in Nat
               PROVE  InFlight(s, d, t)' <=>
                        InFlight(s, d, t) /\ ~(s = c.src /\ d = m /\ t = tag[m])
    OBVIOUS
  <2>1. CASE d # m
    BY <1>1, <2>1 DEF InFlight
  <2>2. CASE d = m
    <3>1. counts'[m] = counts[m] \ {c}
      BY <1>1
    <3>2. \A b \in counts[m] : b.src = c.src /\ b.tag = c.tag => b = c
      BY <1>1, <1>4 DEF FlightInv
    <3>3. ASSUME InFlight(s, d, t)'
          PROVE  InFlight(s, d, t) /\ ~(s = c.src /\ d = m /\ t = tag[m])
      BY <1>3, <2>2, <3>1, <3>2, <3>3 DEF InFlight
    <3>4. ASSUME InFlight(s, d, t), ~(s = c.src /\ t = tag[m])
          PROVE  InFlight(s, d, t)'
      <4>1. PICK b \in counts[m] : b.src = s /\ b.tag = 2 * t
        BY <2>2, <3>4 DEF InFlight
      <4>2. b # c
        BY <1>3, <3>4, <4>1
      <4> QED
        BY <2>2, <3>1, <4>1, <4>2 DEF InFlight
    <3> QED
      BY <2>2, <3>3, <3>4
  <2> QED
    BY <2>1, <2>2
<1>7. /\ Got(m)' = Got(m) \cup {c.src}
      /\ \A d \in Member : d # m => Got(d)' = Got(d)
  <2>1. Got(m)' = Got(m) \cup {c.src}
    BY <1>1, <1>2 DEF Got
  <2>2. ASSUME NEW d \in Member, d # m PROVE Got(d)' = Got(d)
    BY <1>1, <1>2, <2>2 DEF Got, Arrived
  <2> QED
    BY <2>1, <2>2
<1>8. c.src \notin Got(m)
  BY <1>4 DEF Accounted
<1>9. ASSUME NEW s \in Member, NEW d \in Member PROVE Accounted(s, d)'
  <2>1. Accounted(s, d) /\ tag'[d] = tag[d] /\ tag[d] \in Nat /\ tag[d] + 2 \in Nat
    BY <1>2 DEF CountInv
  <2>2. /\ InFlight(s, d, tag[d])' <=> InFlight(s, d, tag[d]) /\ ~(s = c.src /\ d = m)
        /\ InFlight(s, d, tag[d] + 2)' <=> InFlight(s, d, tag[d] + 2)
        /\ Reached(s, d, tag[d])' <=> Reached(s, d, tag[d])
        /\ Reached(s, d, tag[d] + 2)' <=> Reached(s, d, tag[d] + 2)
    BY <1>2, <1>5, <1>6, <2>1
  <2>3. s \in Got(d)' <=> s \in Got(d) \/ (s = c.src /\ d = m)
    BY <1>7
  <2>4. s = c.src /\ d = m => InFlight(s, d, tag[d])
    BY <1>4
  <2> QED
    BY <2>1, <2>2, <2>3, <2>4 DEF Accounted
<1>10. ASSUME NEW d \in Member PROVE FlightInv(d)'
  <2>1. FlightInv(d) /\ CountTag(d)' = CountTag(d) /\ counts'[d] \subseteq counts[d]
    BY <1>1, <1>2 DEF CountInv, CountTag
  <2> QED
    BY <2>1 DEF FlightInv
<1>11. ASSUME NEW d \in Member PROVE ArrivedInv(d)'
  <2>1. ArrivedInv(d) /\ CountTag(d)' = CountTag(d)
    BY <1>2 DEF CountInv, CountTag
  <2>2. CASE d # m
    BY <1>1, <1>2, <2>1, <2>2 DEF ArrivedInv
  <2>3. CASE d = m
    <3>1. \A i \in 1..Len(arrived[m]) : arrived[m][i].src # c.src
      BY <1>8 DEF Got, Arrived
    <3>2. \A i \in 1..Len(arrived'[m]) : i \in 1..Len(arrived[m]) \/ i = Len(arrived[m]) + 1
      BY <1>1, <1>3
    <3>3. c.src \notin heard[m]
      BY <1>8 DEF Got
    <3>4. ASSUME NEW i \in 1..Len(arrived'[m])
          PROVE  arrived'[m][i].tag = CountTag(m) /\ arrived'[m][i].src \notin heard[m]
      BY <1>1, <2>1, <2>3, <3>2, <3>3 DEF ArrivedInv
    <3>5. ASSUME NEW i \in 1..Len(arrived'[m]), NEW j \in 1..Len(arrived'[m]),
                 arrived'[m][i].src = arrived'[m][j].src
          PROVE  i = j
      BY <1>1, <2>1, <2>3, <3>1, <3>2, <3>5 DEF ArrivedInv
    <3> QED
      BY <1>2, <2>1, <2>3, <3>4, <3>5 DEF ArrivedInv
  <2> QED
    BY <2>2, <2>3
<1> QED
  BY <1>9, <1>10, <1>11 DEF CountInv

\* So does Finish: everybody's count of this exchange was received.
LEMMA FinishKeepsCounts ==
  ASSUME TypeInv, LoopInv, StepInv, CountInv, NEW m \in Member, Finish(m)
  PROVE  CountInv'
<1> tag \in [Member -> Nat] /\ counts \in [Member -> SUBSET Count]
  BY DEF TypeInv
<1>1. /\ pc[m] = "poll" /\ arrived[m] = << >> /\ pc' = [pc EXCEPT ![m] = "idle"]
      /\ tag' = [tag EXCEPT ![m] = @ + 2] /\ heard' = [heard EXCEPT ![m] = {}]
      /\ UNCHANGED <<sent, arrived, counts>>
  BY DEF Finish
<1>2. heard[m] = Member /\ Got(m) = Member /\ Arrived(m) = {}
  BY <1>1, AllHeard DEF Got, Arrived, TypeInv
<1>3. Got(m)' = {} /\ \A d \in Member : d # m => Got(d)' = Got(d)
  <2>1. heard'[m] = {} /\ \A d \in Member : d # m => heard'[d] = heard[d]
    BY <1>1 DEF TypeInv
  <2>2. \A d \in Member : Arrived(d)' = Arrived(d)
    BY <1>1 DEF Arrived
  <2> QED
    BY <1>2, <2>1, <2>2 DEF Got
<1>4. \A s, d \in Member, t \in Nat : InFlight(s, d, t)' <=> InFlight(s, d, t)
  BY <1>1 DEF InFlight
<1>5. ASSUME NEW s \in Member, NEW t \in Nat, t # tag[s] + 1, NEW d \in Member
      PROVE  Reached(s, d, t)' <=> Reached(s, d, t)
  BY <1>5, ReachedStays DEF Moves
<1>6. ASSUME NEW s \in Member, NEW d \in Member, d # m PROVE Accounted(s, d)'
  <2>1. Accounted(s, d) /\ tag'[d] = tag[d]
    BY <1>1, <1>6 DEF CountInv
  <2>2. tag[d] \in Nat /\ tag[d] + 2 \in Nat /\ tag[d] # tag[s] + 1 /\ tag[d] + 2 # tag[s] + 1
    BY Parity
  <2>3. /\ Reached(s, d, tag[d])' <=> Reached(s, d, tag[d])
        /\ Reached(s, d, tag[d] + 2)' <=> Reached(s, d, tag[d] + 2)
    BY <1>5, <2>1, <2>2
  <2> QED
    BY <1>3, <1>4, <1>6, <2>1, <2>2, <2>3 DEF Accounted
<1>7. ASSUME NEW s \in Member PROVE Accounted(s, m)'
  <2>1. Accounted(s, m) /\ tag'[m] = tag[m] + 2 /\ FlightInv(m)
    BY <1>1 DEF CountInv
  <2>2. tag[m] \in Nat /\ tag[m] + 2 \in Nat /\ tag[m] + 4 \in Nat /\ tag[m] + 2 # tag[s] + 1
    BY Parity
  <2>3. ASSUME NEW t \in Nat, t = tag[m] + 2
        PROVE  Reached(s, m, t)' <=> InFlight(s, m, t)'
    <3>1. Reached(s, m, t) <=> InFlight(s, m, t)
      BY <2>1, <2>3 DEF Accounted
    <3> QED
      BY <1>4, <1>5, <2>2, <2>3, <3>1
  <2>4. ASSUME NEW t \in Nat, t = tag[m] + 4
        PROVE  ~Reached(s, m, t)' /\ ~InFlight(s, m, t)'
    <3>1. \A c \in counts[m] : c.tag # 2 * t
      BY <2>1, <2>2, <2>4 DEF FlightInv, CountTag
    <3>2. ~InFlight(s, m, t)'
      BY <1>1, <3>1 DEF InFlight
    <3>3. tag[s] <= tag[m] + 2 /\ tag[s] \in Nat
      BY DEF StepInv
    <3>4. tag'[s] \in Nat /\ tag'[s] < t
      BY <1>1, <2>2, <2>4, <3>3
    <3> QED
      BY <2>4, <3>2, <3>4 DEF Reached
  <2>5. tag'[m] \in Nat /\ tag'[m] + 2 \in Nat /\ tag'[m] + 2 = tag[m] + 4
    BY <2>1, <2>2
  <2>6. /\ Reached(s, m, tag[m])' <=> InFlight(s, m, tag[m])'
        /\ ~Reached(s, m, tag[m] + 2)' /\ ~InFlight(s, m, tag[m] + 2)'
    BY <2>1, <2>3, <2>4, <2>5
  <2> QED
    BY <1>3, <2>6 DEF Accounted
<1>8. ASSUME NEW d \in Member PROVE FlightInv(d)' /\ ArrivedInv(d)'
  <2>1. FlightInv(d) /\ ArrivedInv(d) /\ counts'[d] = counts[d] /\ arrived'[d] = arrived[d]
    BY <1>1 DEF CountInv
  <2>2. CASE d # m
    <3>1. tag'[d] = tag[d] /\ heard'[d] = heard[d]
      BY <1>1, <2>2 DEF TypeInv
    <3> QED
      BY <2>1, <3>1 DEF FlightInv, ArrivedInv, CountTag
  <2>3. CASE d = m
    <3>1. ArrivedInv(m)'
      BY <1>1 DEF ArrivedInv
    <3>2. tag'[m] = tag[m] + 2
      BY <1>1
    <3>3. ASSUME NEW c \in counts[m] PROVE c.tag # CountTag(m)
      <4>1. c.src \in Member /\ Accounted(c.src, m)
        BY DEF CountInv, Count
      <4>2. ~InFlight(c.src, m, tag[m])
        BY <1>2, <4>1 DEF Accounted
      <4> QED
        BY <4>2 DEF InFlight, CountTag
    <3>4. \A c \in counts[m] : c.tag = CountTag(m)'
      BY <2>1, <2>3, <3>2, <3>3 DEF FlightInv, CountTag
    <3> QED
      BY <2>1, <2>3, <3>1, <3>4 DEF FlightInv
  <2> QED
    BY <2>2, <2>3
<1> QED
  BY <1>6, <1>7, <1>8 DEF CountInv

\* So does every other step.
LEMMA CountInvStays ==
  ASSUME TypeInv, LoopInv, StepInv, CountInv, [Next]_vars
  PROVE  CountInv'
<1>1. ASSUME NEW m \in Member,
             \/ Moves(m) /\ ~Finish(m)
             \/ Stays(m) /\ ~TestCount(m) /\ ~MatchCount(m)
             \/ UNCHANGED vars
      PROVE  CountInv'
  <2>1. UNCHANGED <<tag, arrived, heard, counts>>
    BY <1>1, CountsStay
  <2>2. ASSUME NEW s \in Member, NEW d \in Member PROVE Accounted(s, d)'
    <3>1. Accounted(s, d)
      BY DEF CountInv
    <3>2. tag[d] \in Nat /\ tag[d] + 2 \in Nat /\ tag[d] # tag[s] + 1 /\ tag[d] + 2 # tag[s] + 1
      BY Parity
    <3>3. /\ Reached(s, d, tag[d])' <=> Reached(s, d, tag[d])
          /\ Reached(s, d, tag[d] + 2)' <=> Reached(s, d, tag[d] + 2)
      BY <1>1, <2>1, <3>2, ReachedStays
    <3> QED
      BY <2>1, <3>1, <3>3 DEF Accounted, InFlight, Got, Arrived
  <2>3. \A d \in Member : FlightInv(d)' /\ ArrivedInv(d)'
    BY <2>1 DEF CountInv, FlightInv, ArrivedInv, CountTag
  <2> QED
    BY <2>2, <2>3 DEF CountInv
<1>2. ASSUME NEW m \in Member, TestCount(m) PROVE CountInv'
  <2>1. PICK c \in Count : TestCountEffects(m, c)
    BY <1>2, TestCountFacts
  <2>2. /\ \A d \in Member : Got(d)' = Got(d)
        /\ ArrivedInv(m)'
    BY <2>1, TestCountGot
  <2>3. /\ UNCHANGED <<pc, tag, sent, counts>>
        /\ \A d \in Member : d # m => arrived'[d] = arrived[d] /\ heard'[d] = heard[d]
    BY <2>1 DEF TestCountEffects, TypeInv
  <2>4. ASSUME NEW s \in Member, NEW d \in Member PROVE Accounted(s, d)'
    <3>1. Accounted(s, d)
      BY DEF CountInv
    <3> QED
      BY <2>2, <2>3, <3>1 DEF Accounted, InFlight, Reached, Inside, SentTo, Target
  <2>5. ASSUME NEW d \in Member PROVE FlightInv(d)' /\ ArrivedInv(d)'
    <3>1. FlightInv(d) /\ ArrivedInv(d) /\ CountTag(d)' = CountTag(d)
      BY <2>3 DEF CountInv, CountTag
    <3>2. FlightInv(d)'
      BY <2>3, <3>1 DEF FlightInv
    <3>3. ArrivedInv(d)'
      BY <2>2, <2>3, <3>1 DEF ArrivedInv
    <3> QED
      BY <3>2, <3>3
  <2> QED
    BY <2>4, <2>5 DEF CountInv
<1>3. Member # {}
  BY MemberFacts
<1> QED
  BY <1>1, <1>2, <1>3, SendCountKeepsCounts, MatchCountKeepsCounts, FinishKeepsCounts, StepParts
     DEF Next, Done

-----------------------------------------------------------------------------
(* The loop.                                                               *)

\* Whom a member has counts of are members.
LEMMA GotFinite ==
  ASSUME TypeInv, NEW d \in Member
  PROVE  Got(d) \subseteq Member /\ IsFiniteSet(Got(d)) /\ Cardinality(Got(d)) \in Nat
<1>1. \A i \in 1..Len(arrived[d]) : arrived[d][i] \in Count
  BY DEF TypeInv
<1>2. \A i \in 1..Len(arrived[d]) : arrived[d][i].src \in Member
  BY <1>1 DEF Count
<1>3. Got(d) \subseteq Member
  BY <1>2 DEF Got, Arrived, TypeInv
<1> QED
  BY <1>3, MemberFacts, FS_Subset, FS_CardinalityType

\* The state of d in the loop is the same; data of d may have been taken.
SameLoop(d) ==
  /\ pc'[d] = pc[d] /\ tag'[d] = tag[d] /\ counted'[d] = counted[d] /\ sent'[d] = sent[d]
  /\ expected'[d] = expected[d] /\ arrived'[d] = arrived[d] /\ heard'[d] = heard[d]
  /\ isends'[d] \subseteq isends[d] /\ recvs'[d] = recvs[d] /\ sendQ'[d] = sendQ[d]

LEMMA SameLoopKeeps ==
  ASSUME TypeInv, LoopInv, NEW d \in Member, SameLoop(d)
  PROVE  LoopInvAt(d)'
<1>1. LoopInvAt(d)
  BY DEF LoopInv
<1>2. Got(d)' = Got(d) /\ Finished(d)' = Finished(d) /\ (Inside(d)' <=> Inside(d))
  BY DEF SameLoop, Got, Arrived, Finished, Inside
<1> QED
  BY <1>1, <1>2 DEF LoopInvAt, SameLoop

\* The steps of a member say nothing of another's loop.
LEMMA LoopOfOthers ==
  ASSUME TypeInv, NEW m \in Member, Step(m), NEW d \in Member, d # m
  PROVE  SameLoop(d)
<1> /\ pc \in [Member -> {"idle", "counts", "poll", "destroyed"}] /\ tag \in [Member -> Nat]
    /\ counted \in [Member -> Nat] /\ sent \in [Member -> 0..Size]
    /\ expected \in [Member -> 0..Size] /\ arrived \in [Member -> Seq(Count)]
    /\ heard \in [Member -> SUBSET Member] /\ isends \in [Member -> SUBSET Member]
  BY DEF TypeInv
<1> recvs = [e \in Member |-> recvs[e]]
  BY DEF TypeInv, RecvType
<1> sendQ = [e \in Member |-> [r \in Member |-> sendQ[e][r]]]
  BY DEF TypeInv, QueueType
<1>1. CASE \E e \in Member, msg \in Message : QueueMessage(m, e, msg)
  BY <1>1 DEF QueueMessage, SameLoop
<1>2. CASE \E x \in ExtraCount[m] : EnterExchange(m, x)
  BY <1>2 DEF EnterExchange, SameLoop
<1>3. CASE Destroy(m)
  BY <1>3 DEF Destroy, SameLoop
<1>4. CASE SendCount(m)
  BY <1>4 DEF SendCount, SameLoop
<1>5. CASE AllCountsSent(m)
  BY <1>5 DEF AllCountsSent, SameLoop
<1>6. CASE TestCount(m)
  <2>1. PICK c \in Count : TestCountEffects(m, c)
    BY <1>6, TestCountFacts
  <2>2. isends'[d] = isends[d]
    BY <2>1 DEF TestCountEffects
  <2> QED
    BY <2>1, <2>2 DEF TestCountEffects, SameLoop
<1>7. CASE TestData(m)
  BY <1>7 DEF TestData, SameLoop
<1>8. CASE Finish(m)
  BY <1>8 DEF Finish, SameLoop
<1>9. CASE MatchCount(m)
  BY <1>9 DEF MatchCount, SameLoop
<1>10. CASE MatchData(m)
  <2>1. recvs'[d] = recvs[d]
    BY <1>10 DEF MatchData
  <2>2. isends'[d] \subseteq isends[d]
    BY <1>10 DEF MatchData
  <2>3. UNCHANGED <<pc, tag, sendQ, counted, sent, expected, arrived, heard>>
    BY <1>10 DEF MatchData
  <2> QED
    BY <2>1, <2>2, <2>3 DEF SameLoop
<1> QED
  BY <1>1, <1>2, <1>3, <1>4, <1>5, <1>6, <1>7, <1>8, <1>9, <1>10 DEF Step

\* The state of the loop stays in order.
LEMMA LoopInvStays ==
  ASSUME TypeInv, LoopInv, StepInv, CountInv, [Next]_vars
  PROVE  LoopInv'
<1>0. ASSUME UNCHANGED vars, NEW d \in Member PROVE LoopInvAt(d)'
  <2>1. SameLoop(d)
    BY <1>0 DEF vars, SameLoop
  <2> QED
    BY <2>1, SameLoopKeeps
<1> SUFFICES ASSUME NEW m \in Member, Step(m) PROVE LoopInvAt(m)'
  BY <1>0, LoopOfOthers, SameLoopKeeps DEF Next, Done, LoopInv
<1> tag \in [Member -> Nat] /\ FirstTag \in Nat /\ MaxExchanges \in Nat /\ Size \in Nat
  BY ExchangerAssumption DEF TypeInv
<1> pc \in [Member -> {"idle", "counts", "poll", "destroyed"}]
  BY DEF TypeInv
<1> LoopInvAt(m)
  BY DEF LoopInv
<1>1. CASE \E d \in Member, msg \in Message : QueueMessage(m, d, msg)
  <2>1. /\ UNCHANGED <<pc, tag, expected, arrived, heard, recvs, isends, sent>>
        /\ counted'[m] = counted[m] + 1 /\ counted[m] \in Nat
    BY <1>1 DEF QueueMessage, TypeInv
  <2>2. counted'[m] # 0
    BY <2>1
  <2> QED
    BY <2>1, <2>2 DEF LoopInvAt, Finished, Inside, Got, Arrived
<1>2. CASE \E x \in ExtraCount[m] : EnterExchange(m, x)
  <2>1. /\ pc[m] = "idle" /\ Finished(m) < MaxExchanges
        /\ pc'[m] = "counts"
        /\ UNCHANGED <<tag, sendQ, counted, expected, arrived, heard, recvs, isends>>
    BY <1>2 DEF EnterExchange
  <2> QED
    BY <2>1 DEF LoopInvAt, Finished, Inside, Got, Arrived
<1>3. CASE Destroy(m)
  <2>1. /\ pc[m] = "idle" /\ Finished(m) = MaxExchanges
        /\ pc'[m] = "destroyed" /\ expected'[m] = 0
        /\ UNCHANGED <<tag, sendQ, counted, sent, arrived, heard, recvs, isends>>
    BY <1>3 DEF Destroy, TypeInv
  <2> QED
    BY <2>1 DEF LoopInvAt, Finished, Inside, Got, Arrived
<1>4. CASE SendCount(m)
  <2>1. /\ pc[m] = "counts"
        /\ UNCHANGED <<pc, tag, sendQ, counted, expected, arrived, heard, recvs, isends>>
    BY <1>4 DEF SendCount
  <2> QED
    BY <2>1 DEF LoopInvAt, Finished, Inside, Got, Arrived
<1>5. CASE AllCountsSent(m)
  <2>1. /\ pc[m] = "counts" /\ pc'[m] = "poll" /\ sent[m] = Size
        /\ UNCHANGED <<tag, sendQ, counted, sent, expected, arrived, heard, recvs, isends>>
    BY <1>5 DEF AllCountsSent
  <2> QED
    BY <2>1 DEF LoopInvAt, Finished, Inside, Got, Arrived
<1>6. CASE TestCount(m)
  <2>1. PICK c \in Count : TestCountEffects(m, c)
    BY <1>6, TestCountFacts
  <2>2. pc[m] = "poll" /\ UNCHANGED <<pc, tag, sendQ, counted, sent, expected>>
    BY <2>1 DEF TestCountEffects
  <2>3. Got(m)' = Got(m)
    BY <2>1, TestCountGot
  <2> QED
    BY <2>2, <2>3 DEF LoopInvAt, Finished, Inside
<1>7. CASE TestData(m)
  <2>1. /\ pc[m] = "poll"
        /\ UNCHANGED <<pc, tag, sendQ, counted, sent, expected, arrived, heard, isends>>
    BY <1>7 DEF TestData
  <2> QED
    BY <2>1 DEF LoopInvAt, Finished, Inside, Got, Arrived
<1>8. CASE Finish(m)
  <2>1. /\ pc[m] = "poll" /\ pc'[m] = "idle" /\ arrived[m] = << >> /\ recvs[m] = {}
        /\ isends[m] = {} /\ tag'[m] = tag[m] + 2 /\ expected'[m] = Size /\ heard'[m] = {}
        /\ UNCHANGED <<sent, arrived, recvs, isends>>
    BY <1>8 DEF Finish, TypeInv
  <2>2. sendQ'[m] = NoMessages
    BY <1>8 DEF Finish, TypeInv, QueueType
  <2>3. \A d \in Member : sendQ'[m][d] = EmptyBag
    BY <2>2 DEF NoMessages
  <2>4. Finished(m)' = Finished(m) + 1 /\ Finished(m) < MaxExchanges /\ Finished(m) \in Nat
    BY <2>1 DEF LoopInvAt, Finished, Inside
  <2>5. Got(m)' = {} /\ Cardinality({}) = 0
    BY <2>1, FS_EmptySet DEF Got, Arrived
  <2>6. tag'[m] = FirstTag + 2 * Finished(m)' /\ Finished(m)' \in 0..MaxExchanges
    BY <2>1, <2>4 DEF LoopInvAt
  <2> QED
    BY <2>1, <2>3, <2>5, <2>6 DEF LoopInvAt, Inside
<1>9. CASE MatchCount(m)
  <2>1. PICK c \in counts[m] :
          /\ c \in Count /\ c.tag = CountTag(m) /\ expected[m] > 0
          /\ Arrived(m)' = Arrived(m) \cup {c.src}
    BY <1>9, MatchCountFacts
  <2>2. /\ expected'[m] = expected[m] - 1 /\ expected[m] \in Nat
        /\ UNCHANGED <<pc, tag, sendQ, counted, sent, heard, recvs, isends>>
    BY <1>9 DEF MatchCount, TypeInv
  <2>3. Got(m)' = Got(m) \cup {c.src}
    BY <2>1, <2>2 DEF Got
  <2>4. InFlight(c.src, m, tag[m]) /\ c.src \in Member
    BY <2>1 DEF InFlight, CountTag, Count
  <2>5. c.src \notin Got(m)
    BY <2>4 DEF CountInv, Accounted
  <2>6. Cardinality(Got(m)') = Cardinality(Got(m)) + 1 /\ Cardinality(Got(m)) \in Nat
    BY <2>3, <2>5, GotFinite, FS_AddElement
  <2>7. pc[m] # "destroyed"
    BY <2>1, <2>2 DEF LoopInvAt
  <2>8. expected'[m] + Cardinality(Got(m)') = Size
    BY <2>2, <2>6, <2>7 DEF LoopInvAt
  <2> QED
    BY <2>2, <2>7, <2>8 DEF LoopInvAt, Finished, Inside
<1>10. CASE MatchData(m)
  <2>1. UNCHANGED <<pc, tag, sendQ, counted, sent, expected, arrived, heard>>
    BY <1>10 DEF MatchData
  <2>2. recvs[m] # {}
    BY <1>10 DEF MatchData
  <2>3. pc[m] = "poll"
    BY <2>2 DEF LoopInvAt
  <2> QED
    BY <2>1, <2>3 DEF LoopInvAt, Finished, Inside, Got, Arrived
<1> QED
  BY <1>1, <1>2, <1>3, <1>4, <1>5, <1>6, <1>7, <1>8, <1>9, <1>10 DEF Step

-----------------------------------------------------------------------------
(* What a count tells.                                                     *)

\* Only SendCount puts a count on its way.
LEMMA WayShrinks ==
  ASSUME TypeInv, CountInv, NEW m \in Member, Step(m), ~SendCount(m),
         NEW c, NEW d \in Member, OnItsWay(c, d)'
  PROVE  OnItsWay(c, d)
<1>1. CASE TestCount(m)
  <2>1. PICK b \in Count : TestCountEffects(m, b)
    BY <1>1, TestCountFacts
  <2>2. /\ \A i \in 1..Len(arrived'[m]) : arrived'[m][i] = arrived[m][i + 1]
        /\ Len(arrived[m]) = Len(arrived'[m]) + 1 /\ Len(arrived'[m]) \in Nat
    BY <2>1, TestCountGot
  <2>3. counts' = counts /\ (d # m => arrived'[d] = arrived[d])
    BY <2>1 DEF TestCountEffects, TypeInv
  <2>4. \A i \in 1..Len(arrived'[m]) : i + 1 \in 1..Len(arrived[m])
    BY <2>2
  <2> QED
    BY <2>2, <2>3, <2>4 DEF OnItsWay
<1>2. CASE MatchCount(m)
  <2>1. PICK b \in counts[m] :
          /\ counts' = [counts EXCEPT ![m] = @ \ {b}]
          /\ Len(arrived'[m]) = Len(arrived[m]) + 1
          /\ \A i \in 1..Len(arrived[m]) : arrived'[m][i] = arrived[m][i]
          /\ arrived'[m][Len(arrived[m]) + 1] = b
          /\ \A e \in Member : e # m => arrived'[e] = arrived[e]
    BY <1>2, MatchCountFacts
  <2>2. counts'[d] \subseteq counts[d] /\ Len(arrived[m]) \in Nat
    <3>1. /\ counts \in [Member -> SUBSET Count] /\ arrived[m] \in Seq(Count)
      BY DEF TypeInv
    <3>2. counts' = [counts EXCEPT ![m] = @ \ {b}]
      BY <2>1
    <3> QED
      BY <3>1, <3>2
  <2>3. \A i \in 1..Len(arrived'[m]) : i \in 1..Len(arrived[m]) \/ i = Len(arrived[m]) + 1
    BY <2>1, <2>2
  <2> QED
    BY <2>1, <2>2, <2>3 DEF OnItsWay
<1>3. CASE ~TestCount(m) /\ ~MatchCount(m)
  <2>1. UNCHANGED <<arrived, counts>>
    BY <1>3 DEF Step, EnterExchange, Destroy, AllCountsSent, Finish, QueueMessage,
                TestData, MatchData
  <2> QED
    BY <2>1 DEF OnItsWay
<1> QED
  BY <1>1, <1>2, <1>3

\* SendCount puts one on its way.
LEMMA WayGrows ==
  ASSUME TypeInv, NEW m \in Member, SendCount(m),
         NEW c, NEW d \in Member, OnItsWay(c, d)'
  PROVE  \/ OnItsWay(c, d)
         \/ c = [src |-> m, tag |-> CountTag(m), first |-> QueueSize(sendQ[m][d]),
                 second |-> posted[m][Slot(Finished(m) + 1)]]
<1>1. /\ arrived' = arrived
      /\ counts' = [counts EXCEPT ![Target(m, sent[m])] = @ \cup
           {[src |-> m, tag |-> CountTag(m), first |-> QueueSize(sendQ[m][Target(m, sent[m])]),
             second |-> posted[m][Slot(Finished(m) + 1)]]}]
  BY DEF SendCount
<1>2. counts \in [Member -> SUBSET Count]
  BY DEF TypeInv
<1> QED
  BY <1>1, <1>2 DEF OnItsWay

\* A count on its way was sent in this exchange of its receiver or the next.
LEMMA WayReached ==
  ASSUME TypeInv, CountInv, NEW c \in Count, NEW d \in Member, OnItsWay(c, d)
  PROVE  \E t \in {tag[d], tag[d] + 2} :
           t \in Nat /\ c.tag = 2 * t /\ c.src \in Member /\ Reached(c.src, d, t)
<1>1. c.src \in Member /\ tag[d] \in Nat
  BY DEF Count, TypeInv
<1>2. Accounted(c.src, d) /\ FlightInv(d) /\ ArrivedInv(d)
  BY <1>1 DEF CountInv
<1>3. CASE c \in counts[d]
  <2>1. c.tag = 2 * tag[d] \/ c.tag = 2 * (tag[d] + 2)
    BY <1>1, <1>2, <1>3 DEF FlightInv, CountTag
  <2>2. CASE c.tag = 2 * tag[d]
    <3>1. InFlight(c.src, d, tag[d])
      BY <1>3, <2>2 DEF InFlight
    <3> QED
      BY <1>1, <1>2, <2>2, <3>1 DEF Accounted
  <2>3. CASE c.tag = 2 * (tag[d] + 2)
    <3>1. InFlight(c.src, d, tag[d] + 2)
      BY <1>3, <2>3 DEF InFlight
    <3> QED
      BY <1>1, <1>2, <2>3, <3>1 DEF Accounted
  <2> QED
    BY <2>1, <2>2, <2>3
<1>4. CASE \E i \in 1..Len(arrived[d]) : c = arrived[d][i]
  <2>1. c.tag = 2 * tag[d]
    BY <1>2, <1>4 DEF ArrivedInv, CountTag
  <2>2. c.src \in Got(d)
    BY <1>4 DEF Got, Arrived
  <2> QED
    BY <1>1, <1>2, <2>1, <2>2 DEF Accounted
<1> QED
  BY <1>3, <1>4 DEF OnItsWay

\* What a count says of the queue stays true.
LEMMA QueueInvStays ==
  ASSUME TypeInv, LoopInv, StepInv, CountInv, QueueInv, [Next]_vars
  PROVE  QueueInv'
<1>0. CASE UNCHANGED vars
  BY <1>0 DEF vars, QueueInv, OnItsWay, CountTag, Inside
<1> SUFFICES ASSUME NEW m \in Member, Step(m), NEW d \in Member, NEW c \in Count,
                    OnItsWay(c, d)', (c.tag = CountTag(c.src))', Inside(c.src)'
             PROVE  c.first = 0 <=> sendQ'[c.src][d] = EmptyBag
  BY <1>0 DEF Next, Done, QueueInv
<1> DEFINE s == c.src
<1>1. s \in Member
  BY DEF Count
<1> HIDE DEF s
<1>2. ASSUME OnItsWay(c, d), Inside(s)' <=> Inside(s), tag'[s] = tag[s], sendQ'[s] = sendQ[s]
      PROVE  c.first = 0 <=> sendQ'[s][d] = EmptyBag
  BY <1>2 DEF QueueInv, CountTag, s
<1>3. CASE s # m
  <2>1. SameLoop(s)
    BY <1>1, <1>3, LoopOfOthers
  <2>2. ~SendCount(m) => OnItsWay(c, d)
    BY WayShrinks
  <2>3. SendCount(m) => OnItsWay(c, d)
    BY <1>3, WayGrows DEF s
  <2> QED
    BY <1>2, <2>1, <2>2, <2>3 DEF SameLoop, Inside, s
<1>4. CASE s = m /\ SendCount(m)
  <2>1. UNCHANGED <<pc, tag, sendQ>>
    BY <1>4 DEF SendCount
  <2>2. CASE OnItsWay(c, d)
    BY <1>2, <2>1, <2>2 DEF Inside, s
  <2>3. CASE ~OnItsWay(c, d)
    <3>1. c.first = QueueSize(sendQ[m][d])
      BY <1>4, <2>3, WayGrows
    <3>2. MsgBag(sendQ[m][d])
      BY DEF TypeInv, QueueType
    <3> QED
      BY <1>4, <2>1, <3>1, <3>2, QueueSizeFacts DEF s
  <2> QED
    BY <2>2, <2>3
<1>5. CASE s = m /\ ~SendCount(m)
  <2>1. OnItsWay(c, d)
    BY <1>5, WayShrinks
  <2>2. CASE \E x \in ExtraCount[m] : EnterExchange(m, x)
    <3>1. pc[m] = "idle" /\ tag' = tag
      BY <2>2 DEF EnterExchange
    <3>2. PICK t \in {tag[d], tag[d] + 2} : t \in Nat /\ c.tag = 2 * t /\ Reached(m, d, t)
      BY <1>5, <2>1, WayReached DEF s
    <3>3. c.tag = 2 * tag[m] /\ tag[m] \in Nat
      BY <1>5, <3>1 DEF CountTag, s, TypeInv
    <3>4. t = tag[m]
      BY <3>2, <3>3
    <3> QED
      BY <3>1, <3>2, <3>3, <3>4 DEF Reached, Inside
  <2>3. CASE (\E e \in Member, msg \in Message : QueueMessage(m, e, msg)) \/ Destroy(m)
    <3>1. pc'[m] \in {"idle", "destroyed"}
      BY <2>3 DEF QueueMessage, Destroy, TypeInv
    <3> QED
      BY <1>5, <3>1 DEF Inside, s
  <2>4. CASE Finish(m)
    <3>1. pc'[m] = "idle"
      BY <2>4 DEF Finish, TypeInv
    <3> QED
      BY <1>5, <3>1 DEF Inside, s
  <2>5. CASE AllCountsSent(m) \/ TestCount(m) \/ TestData(m) \/ MatchCount(m) \/ MatchData(m)
    <3>1. UNCHANGED <<tag, sendQ>> /\ (Inside(m)' <=> Inside(m))
      BY <2>5 DEF AllCountsSent, TestCount, TestData, MatchCount, MatchData, Inside, TypeInv
    <3> QED
      BY <1>2, <1>5, <2>1, <3>1 DEF s
  <2> QED
    BY <1>5, <2>2, <2>3, <2>4, <2>5 DEF Step
<1> QED
  BY <1>3, <1>4, <1>5

-----------------------------------------------------------------------------
(* Data.                                                                   *)

\* A receive of data is matched.
MatchDataEffects(m, q, x) ==
  /\ q \in recvs[m] /\ x \in data[m] /\ ~q.matched /\ x.src = q.src
  /\ q.src \in Member /\ x.tag = DataTag(m)
  /\ recvs' = [recvs EXCEPT ![m] = (@ \ {q}) \cup
                 {[src |-> q.src, size |-> q.size, matched |-> TRUE, buff |-> sendQ[q.src][m]]}]
  /\ data' = [data EXCEPT ![m] = @ \ {x}]
  /\ isends' = [isends EXCEPT ![q.src] = @ \ {m}]
  /\ UNCHANGED <<pc, tag, sendQ, counted, sent, posted, total, expected, arrived,
                 heard, counts>>

LEMMA MatchDataFacts ==
  ASSUME TypeInv, NEW m \in Member, MatchData(m)
  PROVE  \E q \in recvs[m], x \in data[m] : MatchDataEffects(m, q, x)
BY DEF MatchData, MatchDataEffects, TypeInv, RecvType, IsDataRecv

\* The steps that touch neither data nor what is said of it.
LEMMA DataInvSame ==
  ASSUME TypeInv, DataInv, RecvInv, NEW m \in Member,
         \/ SendCount(m) \/ AllCountsSent(m) \/ MatchCount(m) \/ Destroy(m) \/ UNCHANGED vars
  PROVE  DataInv' /\ RecvInv'
<1>1. UNCHANGED <<tag, sendQ, recvs, heard, isends, data>> /\ \A e \in Member : Inside(e)' <=> Inside(e)
  BY DEF SendCount, AllCountsSent, MatchCount, Destroy, vars, Inside, TypeInv
<1>2. ASSUME NEW d \in Member PROVE DatumInv(d)' /\ RecvInvAt(d)'
  <2>1. DatumInv(d) /\ RecvInvAt(d) /\ data[d] \subseteq Datum
    BY DEF DataInv, RecvInv, TypeInv
  <2>2. \A x \in data[d] : x.src \in Member
    BY <2>1 DEF Datum
  <2> QED
    BY <1>1, <2>1, <2>2 DEF DatumInv, RecvInvAt, Unmatched, DataTag
<1>3. ASSUME NEW d \in Member, NEW s \in Member PROVE PairInv(s, d)'
  <2>1. PairInv(s, d)
    BY DEF DataInv
  <2> QED
    BY <1>1, <2>1 DEF PairInv, Unmatched
<1> QED
  BY <1>2, <1>3 DEF DataInv, RecvInv

\* A message more in a queue outside the exchange.
LEMMA QueueMessageKeepsData ==
  ASSUME TypeInv, DataInv, RecvInv, NEW m \in Member, NEW e \in Member, NEW msg \in Message,
         QueueMessage(m, e, msg)
  PROVE  DataInv' /\ RecvInv'
<1>1. UNCHANGED <<pc, tag, recvs, heard, isends, data>> /\ ~Inside(m)
  BY DEF QueueMessage, Inside
<1>2. \A s \in Member : s # m => sendQ'[s] = sendQ[s]
  BY DEF QueueMessage, TypeInv, QueueType
<1>3. ASSUME NEW d \in Member PROVE DatumInv(d)' /\ RecvInvAt(d)'
  <2>1. DatumInv(d) /\ RecvInvAt(d) /\ data[d] \subseteq Datum
    BY DEF DataInv, RecvInv, TypeInv
  <2>2. \A x \in data[d] : x.src \in Member /\ x.src # m
    BY <1>1, <2>1 DEF Datum, DatumInv
  <2> QED
    BY <1>1, <1>2, <2>1, <2>2 DEF DatumInv, RecvInvAt, Unmatched, DataTag, Inside
<1>4. ASSUME NEW d \in Member, NEW s \in Member PROVE PairInv(s, d)'
  <2>1. PairInv(s, d)
    BY DEF DataInv
  <2> QED
    BY <1>1, <1>2, <2>1 DEF PairInv, Unmatched, Inside
<1> QED
  BY <1>3, <1>4 DEF DataInv, RecvInv

\* A member enters: nobody has heard of it in this exchange, nor it of anybody.
LEMMA EnterKeepsData ==
  ASSUME TypeInv, LoopInv, StepInv, CountInv, DataInv, RecvInv, NEW m \in Member,
         NEW z \in ExtraCount[m], EnterExchange(m, z)
  PROVE  DataInv' /\ RecvInv'
<1>1. /\ UNCHANGED <<tag, sendQ, recvs, heard, isends, data>> /\ ~Inside(m) /\ pc[m] = "idle"
      /\ \A s \in Member : s # m => (Inside(s)' <=> Inside(s))
      /\ Inside(m)'
  BY DEF EnterExchange, Inside, TypeInv
<1>2. heard[m] = {}
  BY <1>1 DEF LoopInv, LoopInvAt
<1>3. ASSUME NEW d \in Member PROVE DatumInv(d)' /\ RecvInvAt(d)'
  <2>1. DatumInv(d) /\ RecvInvAt(d) /\ data[d] \subseteq Datum
    BY DEF DataInv, RecvInv, TypeInv
  <2>2. \A x \in data[d] : x.src \in Member /\ x.src # m
    BY <1>1, <2>1 DEF Datum, DatumInv
  <2> QED
    BY <1>1, <2>1, <2>2 DEF DatumInv, RecvInvAt, Unmatched, DataTag
<1>4. ASSUME NEW d \in Member, NEW s \in Member PROVE PairInv(s, d)'
  <2>1. PairInv(s, d)
    BY DEF DataInv
  <2>2. CASE s # m
    BY <1>1, <2>1, <2>2 DEF PairInv, Unmatched
  <2>3. CASE s = m
    <3>0. tag[d] \in Nat /\ tag[m] \in Nat
      BY DEF TypeInv
    <3>1. ~(tag[d] = tag[m] + 2)
      BY <1>1, <3>0 DEF StepInv
    <3>2. tag[m] = tag[d] => m \notin heard[d]
      BY <1>1, <3>0, HeardReached DEF Reached, Got
    <3> QED
      BY <1>1, <1>2, <2>3, <3>1, <3>2 DEF PairInv
  <2> QED
    BY <2>2, <2>3
<1> QED
  BY <1>3, <1>4 DEF DataInv, RecvInv

\* Data that was received is handled.
LEMMA TestDataKeepsData ==
  ASSUME TypeInv, DataInv, RecvInv, NEW m \in Member, TestData(m)
  PROVE  DataInv' /\ RecvInv'
<1>1. PICK q \in recvs[m] : q.matched /\ recvs' = [recvs EXCEPT ![m] = @ \ {q}]
  BY DEF TestData
<1>2. UNCHANGED <<pc, tag, sendQ, heard, isends, data>>
  BY DEF TestData
<1>3. \A d \in Member : recvs'[d] \subseteq recvs[d] /\ \A p \in recvs[d] : p \in recvs'[d] \/ p = q
  BY <1>1 DEF TypeInv, RecvType
<1>4. \A s, d \in Member : Unmatched(s, d)' <=> Unmatched(s, d)
  BY <1>1, <1>3 DEF Unmatched
<1>5. ASSUME NEW d \in Member PROVE DatumInv(d)' /\ RecvInvAt(d)'
  <2>1. DatumInv(d) /\ RecvInvAt(d) /\ data[d] \subseteq Datum
    BY DEF DataInv, RecvInv, TypeInv
  <2>2. \A x \in data[d] : x.src \in Member
    BY <2>1 DEF Datum
  <2>3. RecvInvAt(d)'
    BY <1>2, <1>3, <2>1 DEF RecvInvAt
  <2> QED
    BY <1>2, <1>4, <2>1, <2>2, <2>3 DEF DatumInv, DataTag, Inside
<1>6. ASSUME NEW d \in Member, NEW s \in Member PROVE PairInv(s, d)'
  <2>1. PairInv(s, d)
    BY DEF DataInv
  <2> QED
    BY <1>2, <1>4, <2>1 DEF PairInv, Inside
<1> QED
  BY <1>5, <1>6 DEF DataInv, RecvInv

\* A receive meets its data: no other data of this sender is in flight.
LEMMA MatchDataKeepsData ==
  ASSUME TypeInv, DataInv, RecvInv, NEW m \in Member, MatchData(m)
  PROVE  DataInv' /\ RecvInv'
<1>1. PICK q \in recvs[m], x \in data[m] : MatchDataEffects(m, q, x)
  BY MatchDataFacts
<1> DEFINE o == q.src
           p == [src |-> o, size |-> q.size, matched |-> TRUE, buff |-> sendQ[o][m]]
<1>2. /\ o \in Member /\ x.src = o /\ x.tag = DataTag(m) /\ ~q.matched
      /\ UNCHANGED <<pc, tag, sendQ, heard>>
      /\ recvs'[m] = (recvs[m] \ {q}) \cup {p} /\ data'[m] = data[m] \ {x}
      /\ \A d \in Member : d # m => recvs'[d] = recvs[d] /\ data'[d] = data[d]
      /\ isends'[o] = isends[o] \ {m}
      /\ \A s \in Member : s # o => isends'[s] = isends[s]
  BY <1>1 DEF MatchDataEffects, TypeInv, RecvType
<1>3. p.src = o /\ p.matched /\ p.buff = sendQ[o][m]
  OBVIOUS
<1> HIDE DEF o, p
<1>4. DatumInv(m) /\ RecvInvAt(m)
  BY DEF DataInv, RecvInv
<1>5. sendQ[o][m] # EmptyBag /\ m \in heard[o] /\ o \in heard[m]
  BY <1>2, <1>4 DEF DatumInv, RecvInvAt, o
<1>6. ~Unmatched(o, m)'
  BY <1>2, <1>3, <1>4 DEF Unmatched, RecvInvAt, o
<1>7. ASSUME NEW s \in Member, NEW d \in Member, s # o \/ d # m
      PROVE  Unmatched(s, d)' <=> Unmatched(s, d)
  <2>1. CASE d # m
    BY <1>2, <2>1 DEF Unmatched
  <2>2. CASE d = m /\ s # o
    BY <1>2, <1>3, <2>2 DEF Unmatched, o
  <2> QED
    BY <1>7, <2>1, <2>2
<1>8. \A y \in data'[m] : y \in data[m] /\ y.src # o
  <2> SUFFICES ASSUME NEW y \in data[m], y # x, y.src = o PROVE FALSE
    BY <1>2
  <2>1. y.tag = x.tag /\ y.src = x.src
    BY <1>2, <1>4 DEF DatumInv
  <2>2. y \in Datum /\ x \in Datum
    BY DEF TypeInv
  <2> QED
    BY <2>1, <2>2 DEF Datum
<1>9. ASSUME NEW d \in Member PROVE DatumInv(d)'
  <2>1. DatumInv(d) /\ data[d] \subseteq Datum
    BY DEF DataInv, TypeInv
  <2> SUFFICES ASSUME NEW y \in data'[d]
               PROVE  /\ Inside(y.src)' /\ tag'[y.src] = tag'[d] /\ y.tag = DataTag(d)'
                      /\ d \in isends'[y.src] /\ d \in heard'[y.src]
                      /\ sendQ'[y.src][d] # EmptyBag
                      /\ y.src \in heard'[d] => Unmatched(y.src, d)'
    BY DEF DatumInv
  <2>2. y \in data[d] /\ (d # m \/ y.src # o)
    BY <1>2, <1>8
  <2>3. y.src \in Member
    BY <2>1, <2>2 DEF Datum
  <2>4. /\ Inside(y.src) /\ tag[y.src] = tag[d] /\ y.tag = DataTag(d)
        /\ d \in isends[y.src] /\ d \in heard[y.src] /\ sendQ[y.src][d] # EmptyBag
        /\ y.src \in heard[d] => Unmatched(y.src, d)
    BY <2>1, <2>2 DEF DatumInv
  <2>5. d \in isends'[y.src]
    BY <1>2, <2>2, <2>3, <2>4
  <2>6. y.src \in heard[d] => Unmatched(y.src, d)'
    BY <1>7, <2>2, <2>3, <2>4
  <2> QED
    BY <1>2, <2>4, <2>5, <2>6 DEF Inside, DataTag
<1>10. ASSUME NEW d \in Member PROVE RecvInvAt(d)'
  <2>1. RecvInvAt(d)
    BY DEF RecvInv
  <2>2. CASE d # m
    BY <1>2, <2>1, <2>2 DEF RecvInvAt
  <2>3. CASE d = m
    <3>1. \A r \in recvs'[m] : r = p \/ (r \in recvs[m] /\ r.src # o)
      BY <1>2, <1>4 DEF RecvInvAt, o
    <3> QED
      BY <1>2, <1>3, <1>5, <2>1, <2>3, <3>1 DEF RecvInvAt
  <2> QED
    BY <2>2, <2>3
<1>11. ASSUME NEW d \in Member, NEW s \in Member PROVE PairInv(s, d)'
  <2>1. PairInv(s, d)
    BY DEF DataInv
  <2>2. CASE d # m
    BY <1>2, <1>7, <2>1, <2>2 DEF PairInv, Inside
  <2>3. CASE d = m /\ s # o
    <3>1. (\E y \in data[m] : y.src = s) => \E y \in data'[m] : y.src = s
      BY <1>2, <2>3
    <3> QED
      BY <1>2, <1>7, <2>1, <2>3, <3>1 DEF PairInv, Inside
  <2>4. CASE d = m /\ s = o
    BY <1>2, <1>5, <1>6, <2>1, <2>4 DEF PairInv, Inside
  <2> QED
    BY <2>2, <2>3, <2>4
<1> QED
  BY <1>9, <1>10, <1>11 DEF DataInv, RecvInv

\* A count is tested: the receive for the data behind it is posted, and the own
\* data is sent.
LEMMA TestCountKeepsData ==
  ASSUME TypeInv, LoopInv, StepInv, CountInv, QueueInv, DataInv, RecvInv,
         NEW m \in Member, TestCount(m)
  PROVE  DataInv' /\ RecvInv'
<1>1. PICK c \in Count : TestCountEffects(m, c)
  BY TestCountFacts
<1> DEFINE e == c.src
           p == RecvFor(c)
           y == DataOf(m)
<1>2. /\ e \in Member /\ Inside(m) /\ arrived[m] # << >> /\ c = arrived[m][1]
      /\ UNCHANGED <<pc, tag, sendQ>>
      /\ heard'[m] = heard[m] \cup {e}
      /\ \A d \in Member : d # m => heard'[d] = heard[d] /\ recvs'[d] = recvs[d]
      /\ recvs'[m] = IF c.first = 0 THEN recvs[m] ELSE recvs[m] \cup {p}
  BY <1>1 DEF TestCountEffects, TypeInv, RecvType, Inside
<1>3. p.src = e /\ ~p.matched /\ y.src = m /\ y.tag = DataTag(m)
  BY DEF RecvFor, DataOf
<1>4. c.tag = CountTag(m) /\ e \in Got(m) /\ e \notin heard[m]
  BY <1>1, TestCountGot
<1>5. /\ \A s \in Member : isends[s] \subseteq isends'[s]
      /\ \A d \in Member : data[d] \subseteq data'[d]
      /\ \A d \in Member : \A x \in data'[d] :
           x \in data[d] \/ (x = y /\ d = e /\ sendQ[m][e] # EmptyBag)
      /\ sendQ[m][e] # EmptyBag => e \in isends'[m] /\ y \in data'[e]
  <2>1. isends \in [Member -> SUBSET Member] /\ data \in [Member -> SUBSET Datum]
    BY DEF TypeInv
  <2>2. CASE sendQ[m][e] = EmptyBag
    BY <1>1, <2>1, <2>2 DEF TestCountEffects
  <2>3. CASE sendQ[m][e] # EmptyBag
    <3>1. /\ isends' = [isends EXCEPT ![m] = @ \cup {e}]
          /\ data' = [data EXCEPT ![e] = @ \cup {y}]
      BY <1>1, <2>3 DEF TestCountEffects
    <3> HIDE DEF e, y
    <3> QED
      BY <1>2, <2>1, <2>3, <3>1
  <2> QED
    BY <2>2, <2>3
<1> HIDE DEF e, p, y
<1>6. Inside(e) /\ tag[e] = tag[m] => (c.first = 0 <=> sendQ[e][m] = EmptyBag)
  <2>1. 1 \in 1..Len(arrived[m])
    BY <1>2, ArrivedFacts
  <2>2. OnItsWay(c, m)
    BY <1>2, <2>1 DEF OnItsWay
  <2> QED
    BY <1>4, <2>2 DEF QueueInv, CountTag, e
<1>7. sendQ[m][e] # EmptyBag => tag[e] = tag[m]
  <2> SUFFICES ASSUME sendQ[m][e] # EmptyBag PROVE tag[e] = tag[m]
    OBVIOUS
  <2>1. tag[e] \in Nat /\ tag[m] \in Nat /\ Reached(e, m, tag[m])
    BY <1>2, <1>4, HeardReached DEF TypeInv
  <2>2. tag[e] = tag[m] \/ tag[e] = tag[m] + 2
    BY <1>2, <2>1 DEF Reached, StepInv
  <2>3. PairInv(m, e)
    BY <1>2 DEF DataInv
  <2> QED
    BY <1>2, <1>4, <2>2, <2>3 DEF PairInv
<1>8. \A s, d \in Member : Unmatched(s, d) => Unmatched(s, d)'
  BY <1>2 DEF Unmatched
<1>9. c.first # 0 => Unmatched(e, m)'
  BY <1>2, <1>3 DEF Unmatched
<1>10. \A s, d \in Member : Unmatched(s, d)' => Unmatched(s, d) \/ (s = e /\ d = m)
  BY <1>2, <1>3 DEF Unmatched
<1>11. \A d \in Member : heard[d] \subseteq heard'[d] /\ heard'[d] \subseteq Member
  <2>1. heard \in [Member -> SUBSET Member]
    BY DEF TypeInv
  <2> QED
    BY <1>2, <2>1
<1>12. ASSUME NEW s \in Member, NEW d \in Member, Inside(s), tag[s] = tag[d],
              sendQ[s][d] # EmptyBag, s \in heard'[d], s \in heard[d] => Unmatched(s, d)
       PROVE  Unmatched(s, d)'
  BY <1>2, <1>6, <1>8, <1>9, <1>12
<1>13. ASSUME NEW d \in Member PROVE DatumInv(d)'
  <2>1. DatumInv(d) /\ data[d] \subseteq Datum
    BY DEF DataInv, TypeInv
  <2> SUFFICES ASSUME NEW x \in data'[d]
               PROVE  /\ Inside(x.src)' /\ tag'[x.src] = tag'[d] /\ x.tag = DataTag(d)'
                      /\ d \in isends'[x.src] /\ d \in heard'[x.src]
                      /\ sendQ'[x.src][d] # EmptyBag
                      /\ x.src \in heard'[d] => Unmatched(x.src, d)'
    BY DEF DatumInv
  <2>2. CASE x \in data[d]
    <3>1. x.src \in Member
      BY <2>1, <2>2 DEF Datum
    <3>2. /\ Inside(x.src) /\ tag[x.src] = tag[d] /\ x.tag = DataTag(d)
          /\ d \in isends[x.src] /\ d \in heard[x.src] /\ sendQ[x.src][d] # EmptyBag
          /\ x.src \in heard[d] => Unmatched(x.src, d)
      BY <2>1, <2>2 DEF DatumInv
    <3>3. x.src \in heard'[d] => Unmatched(x.src, d)'
      BY <1>12, <3>1, <3>2
    <3> QED
      BY <1>2, <1>5, <1>11, <3>1, <3>2, <3>3 DEF Inside, DataTag
  <2>3. CASE x \notin data[d]
    <3>1. x = y /\ d = e /\ sendQ[m][e] # EmptyBag /\ x.src = m
      BY <1>3, <1>5, <2>3
    <3>2. tag[e] = tag[m] /\ PairInv(m, e)
      BY <1>2, <1>7, <3>1 DEF DataInv
    <3>3. m \in heard[e] => Unmatched(m, e)
      BY <1>2, <1>4, <3>1, <3>2 DEF PairInv
    <3>4. m \in heard'[e] => Unmatched(m, e)'
      BY <1>2, <1>12, <3>1, <3>2, <3>3
    <3> QED
      BY <1>2, <1>3, <1>5, <3>1, <3>2, <3>4 DEF Inside, DataTag
  <2> QED
    BY <2>2, <2>3
<1>14. ASSUME NEW d \in Member, NEW s \in Member PROVE PairInv(s, d)'
  <2>1. PairInv(s, d)
    BY DEF DataInv
  <2> SUFFICES ASSUME Inside(s), sendQ[s][d] # EmptyBag
               PROVE  /\ tag[d] = tag[s] + 2 => d \in heard'[s]
                      /\ tag[s] = tag[d] =>
                           /\ s \in heard'[d] /\ d \notin heard'[s] => Unmatched(s, d)'
                           /\ d \in heard'[s] /\ (s \in heard'[d] => Unmatched(s, d)') =>
                                \E x \in data'[d] : x.src = s
    BY <1>2 DEF PairInv, Inside
  <2>2. tag[d] = tag[s] + 2 => d \in heard'[s]
    BY <1>11, <2>1 DEF PairInv
  <2>3. ASSUME tag[s] = tag[d], s \in heard'[d], d \notin heard'[s]
        PROVE  Unmatched(s, d)'
    <3>1. s \in heard[d] => Unmatched(s, d)
      BY <1>11, <2>1, <2>3 DEF PairInv
    <3> QED
      BY <1>12, <2>3, <3>1
  <2>4. ASSUME tag[s] = tag[d], d \in heard'[s], s \in heard'[d] => Unmatched(s, d)'
        PROVE  \E x \in data'[d] : x.src = s
    <3>1. CASE d \in heard[s]
      <4>1. s \in heard[d] => Unmatched(s, d)
        BY <1>4, <1>10, <1>11, <2>4
      <4>2. \E x \in data[d] : x.src = s
        BY <2>1, <2>4, <3>1, <4>1 DEF PairInv
      <4> QED
        BY <1>5, <4>2
    <3>2. CASE d \notin heard[s]
      <4>1. s = m /\ d = e
        BY <1>2, <2>4, <3>2
      <4> QED
        BY <1>3, <1>5, <4>1
    <3> QED
      BY <3>1, <3>2
  <2> QED
    BY <2>2, <2>3, <2>4
<1>15. ASSUME NEW d \in Member PROVE RecvInvAt(d)'
  <2>1. RecvInvAt(d)
    BY DEF RecvInv
  <2>2. CASE d # m
    BY <1>2, <2>1, <2>2 DEF RecvInvAt
  <2>3. CASE d = m
    <3>1. \A q \in recvs[m] : q.src # e
      BY <1>4, <2>1, <2>3 DEF RecvInvAt
    <3>2. recvs'[m] \subseteq recvs[m] \cup {p} /\ e \in heard'[m]
      BY <1>2
    <3> QED
      BY <1>3, <1>11, <2>1, <2>3, <3>1, <3>2 DEF RecvInvAt
  <2> QED
    BY <2>2, <2>3
<1> QED
  BY <1>13, <1>14, <1>15 DEF DataInv, RecvInv

\* A member finishes: its data was taken, and it has taken all data.
LEMMA FinishKeepsData ==
  ASSUME TypeInv, LoopInv, StepInv, CountInv, DataInv, RecvInv, NEW m \in Member, Finish(m)
  PROVE  DataInv' /\ RecvInv'
<1>1. /\ pc[m] = "poll" /\ recvs[m] = {} /\ isends[m] = {}
      /\ pc' = [pc EXCEPT ![m] = "idle"] /\ tag' = [tag EXCEPT ![m] = @ + 2]
      /\ heard' = [heard EXCEPT ![m] = {}]
      /\ UNCHANGED <<recvs, isends, data>>
      /\ tag \in [Member -> Nat] /\ heard \in [Member -> SUBSET Member]
      /\ pc \in [Member -> {"idle", "counts", "poll", "destroyed"}]
  BY DEF Finish, TypeInv
<1>2. \A s \in Member : s # m => sendQ'[s] = sendQ[s]
  BY DEF Finish, TypeInv, QueueType
<1>3. heard[m] = Member /\ ~Inside(m)'
  BY <1>1, AllHeard DEF Inside
<1>4. \A s \in Member : ~Unmatched(s, m)
  BY <1>1 DEF Unmatched
<1>5. ASSUME NEW d \in Member, NEW x \in data[d] PROVE d # m /\ x.src \in Member /\ x.src # m
  <2>1. DatumInv(d) /\ x.src \in Member
    BY DEF DataInv, TypeInv, Datum
  <2> QED
    BY <1>1, <1>3, <1>4, <2>1 DEF DatumInv
<1>6. ASSUME NEW d \in Member PROVE DatumInv(d)' /\ RecvInvAt(d)'
  <2>1. DatumInv(d) /\ RecvInvAt(d)
    BY DEF DataInv, RecvInv
  <2>2. DatumInv(d)'
    BY <1>1, <1>2, <1>5, <2>1 DEF DatumInv, Unmatched, DataTag, Inside
  <2>3. RecvInvAt(d)'
    BY <1>1, <2>1 DEF RecvInvAt
  <2> QED
    BY <2>2, <2>3
<1>7. ASSUME NEW d \in Member, NEW s \in Member PROVE PairInv(s, d)'
  <2>1. PairInv(s, d)
    BY DEF DataInv
  <2>2. CASE s = m
    BY <1>3, <2>2 DEF PairInv
  <2>3. CASE s # m /\ d # m
    BY <1>1, <1>2, <2>1, <2>3 DEF PairInv, Unmatched, Inside
  <2>4. CASE s # m /\ d = m
    <3>1. tag'[m] = tag[m] + 2 /\ tag'[s] = tag[s] /\ tag[m] \in Nat /\ tag[s] \in Nat
      BY <1>1, <2>4
    <3>2. heard'[m] = {} /\ heard'[s] = heard[s] /\ sendQ'[s] = sendQ[s] /\ (Inside(s)' <=> Inside(s))
      BY <1>1, <1>2, <2>4 DEF Inside
    <3>3. tag[s] = tag[m] + 2 => m \notin heard[s]
      BY <3>1, HeardReached DEF Reached, Got
    <3>4. Inside(s) /\ sendQ[s][m] # EmptyBag /\ tag[m] = tag[s] => m \in heard[s]
      BY <1>3, <1>4, <2>1, <2>4 DEF PairInv
    <3> QED
      BY <2>4, <3>1, <3>2, <3>3, <3>4 DEF PairInv
  <2> QED
    BY <2>2, <2>3, <2>4
<1> QED
  BY <1>6, <1>7 DEF DataInv, RecvInv

\* Every step.
LEMMA DataInvStays ==
  ASSUME TypeInv, LoopInv, StepInv, CountInv, QueueInv, DataInv, RecvInv, [Next]_vars
  PROVE  DataInv' /\ RecvInv'
<1>1. CASE UNCHANGED vars
  BY <1>1, MemberFacts, DataInvSame
<1>2. ASSUME NEW m \in Member, Step(m) PROVE DataInv' /\ RecvInv'
  BY <1>2, DataInvSame, QueueMessageKeepsData, EnterKeepsData, TestDataKeepsData,
     MatchDataKeepsData, TestCountKeepsData, FinishKeepsData DEF Step
<1> QED
  BY <1>1, <1>2 DEF Next, Done

-----------------------------------------------------------------------------
(* What the counts announce.                                               *)

\* Exchanges alternate between the two slots.
LEMMA SlotFacts ==
  ASSUME NEW k \in Nat
  PROVE  Slot(k) \in 0..1 /\ Slot(k + 1) \in 0..1 /\ Slot(k + 1) # Slot(k) /\ Slot(k + 2) = Slot(k)
BY DEF Slot

\* Tags count the exchanges.
LEMMA NumberFacts ==
  ASSUME TypeInv, LoopInv, NEW s \in Member, NEW d \in Member
  PROVE  /\ Number(tag[d]) = Finished(d) + 1 /\ Finished(d) \in Nat
         /\ (2 * tag[d]) \div 2 = tag[d]
         /\ tag[s] = tag[d] => Finished(s) = Finished(d)
         /\ tag[s] = tag[d] + 2 => Finished(s) = Finished(d) + 1
<1>1. /\ tag[s] \in Nat /\ tag[d] \in Nat /\ FirstTag \in Nat
      /\ tag[s] = FirstTag + 2 * Finished(s) /\ Finished(s) \in Nat
      /\ tag[d] = FirstTag + 2 * Finished(d) /\ Finished(d) \in Nat
  BY ExchangerAssumption DEF TypeInv, LoopInv, LoopInvAt
<1>2. Number(tag[d]) = Finished(d) + 1
  BY DEF Number, Finished
<1> QED
  BY <1>1, <1>2

\* A member enters and announces: its count of the exchange before is in the
\* other slot.
LEMMA EnterAnnounces ==
  ASSUME TypeInv, LoopInv, NEW m \in Member, NEW x \in ExtraCount[m], EnterExchange(m, x)
  PROVE  /\ \A s \in Member : s # m => posted'[s] = posted[s]
         /\ \A k \in Nat : Slot(k) # Slot(Finished(m) + 1) => posted'[m][Slot(k)] = posted[m][Slot(k)]
<1>1. /\ posted \in [Member -> [0..1 -> Nat]]
      /\ posted' = [posted EXCEPT ![m][Slot(Finished(m) + 1)] = counted[m] + x]
  BY DEF EnterExchange, TypeInv
<1>2. \A k \in Nat : Slot(k) \in 0..1
  BY DEF Slot
<1> QED
  BY <1>1, <1>2

\* Counts on their way keep announcing what their senders announced.
LEMMA AnnouncedStays ==
  ASSUME TypeInv, LoopInv, StepInv, CountInv, TotalInv, [Next]_vars, NEW d \in Member
  PROVE  AnnouncedInv(d)'
<1> SUFFICES ASSUME NEW c \in Count, OnItsWay(c, d)'
             PROVE  c.second = posted'[c.src][Slot(Number(c.tag \div 2))]
  BY DEF AnnouncedInv, Number
<1>1. OnItsWay(c, d) => c.second = posted[c.src][Slot(Number(c.tag \div 2))]
  BY DEF TotalInv, AnnouncedInv
<1>2. CASE UNCHANGED vars
  BY <1>1, <1>2 DEF vars, OnItsWay
<1>3. ASSUME NEW m \in Member, SendCount(m)
      PROVE  c.second = posted'[c.src][Slot(Number(c.tag \div 2))]
  <2>1. posted' = posted
    BY <1>3 DEF SendCount
  <2>2. CASE OnItsWay(c, d)
    BY <1>1, <2>1, <2>2
  <2>3. CASE ~OnItsWay(c, d)
    <3>1. c.src = m /\ c.tag = 2 * tag[m] /\ c.second = posted[m][Slot(Finished(m) + 1)]
      BY <1>3, <2>3, WayGrows DEF CountTag
    <3>2. c.tag \div 2 = tag[m] /\ Number(tag[m]) = Finished(m) + 1
      BY <3>1, NumberFacts
    <3> QED
      BY <2>1, <3>1, <3>2
  <2> QED
    BY <2>2, <2>3
<1>4. ASSUME NEW m \in Member, NEW x \in ExtraCount[m], EnterExchange(m, x)
      PROVE  c.second = posted'[c.src][Slot(Number(c.tag \div 2))]
  <2>1. OnItsWay(c, d) /\ ~Inside(m)
    BY <1>4 DEF EnterExchange, OnItsWay, Inside
  <2>2. PICK t \in {tag[d], tag[d] + 2} :
          t \in Nat /\ c.tag = 2 * t /\ c.src \in Member /\ Reached(c.src, d, t)
    BY <2>1, WayReached
  <2>3. CASE c.src # m
    BY <1>1, <1>4, <2>1, <2>2, <2>3, EnterAnnounces
  <2>4. CASE c.src = m
    <3>1. tag[m] \in Nat /\ tag[d] \in Nat
      BY DEF TypeInv
    <3>2. t = tag[d] /\ tag[m] = tag[d] + 2
      BY <2>1, <2>2, <2>4, <3>1 DEF Reached, StepInv
    <3>3. /\ c.tag \div 2 = tag[d] /\ Number(tag[d]) = Finished(d) + 1
          /\ Finished(m) = Finished(d) + 1 /\ Finished(d) \in Nat
      BY <2>2, <3>2, NumberFacts
    <3>4. Slot(Finished(d) + 1) # Slot(Finished(m) + 1)
      BY <3>3, SlotFacts
    <3> QED
      BY <1>1, <1>4, <2>1, <2>4, <3>3, <3>4, EnterAnnounces
  <2> QED
    BY <2>3, <2>4
<1>5. ASSUME NEW m \in Member, Step(m), ~SendCount(m),
             ~\E x \in ExtraCount[m] : EnterExchange(m, x)
      PROVE  c.second = posted'[c.src][Slot(Number(c.tag \div 2))]
  <2>1. posted' = posted
    BY <1>5 DEF Step, QueueMessage, Destroy, AllCountsSent, TestCount, TestData, Finish,
                MatchCount, MatchData
  <2>2. OnItsWay(c, d)
    BY <1>5, WayShrinks
  <2> QED
    BY <1>1, <2>1, <2>2
<1> QED
  BY <1>2, <1>3, <1>4, <1>5 DEF Next, Done

\* The total tells whether anybody announced anything.
LEMMA TotalStays ==
  ASSUME TypeInv, LoopInv, StepInv, CountInv, TotalInv, [Next]_vars, NEW d \in Member
  PROVE  TotalInvAt(d)'
<1> /\ tag \in [Member -> Nat] /\ posted \in [Member -> [0..1 -> Nat]]
    /\ total \in [Member -> Nat] /\ heard \in [Member -> SUBSET Member]
    /\ pc \in [Member -> {"idle", "counts", "poll", "destroyed"}] /\ FirstTag \in Nat
  BY ExchangerAssumption DEF TypeInv
<1> USE DEF Number
<1>0. /\ Inside(d) => (total[d] = 0 <=> \A s \in heard[d] : posted[s][Slot(Number(tag[d]))] = 0)
      /\ ~Inside(d) /\ tag[d] # FirstTag =>
           (total[d] = 0 <=> \A s \in Member : posted[s][Slot(Finished(d))] = 0)
      /\ ~Inside(d) /\ tag[d] = FirstTag => total[d] = 0
  BY DEF TotalInv, TotalInvAt
<1>1. ASSUME /\ tag'[d] = tag[d] /\ total'[d] = total[d] /\ heard'[d] = heard[d]
             /\ posted' = posted /\ (Inside(d)' <=> Inside(d))
      PROVE  TotalInvAt(d)'
  <2>1. Finished(d)' = Finished(d) /\ Number(tag[d])' = Number(tag[d])
    BY <1>1 DEF Finished
  <2> QED
    BY <1>0, <1>1, <2>1 DEF TotalInvAt
<1>2. CASE UNCHANGED vars
  BY <1>1, <1>2 DEF vars, Inside
<1>3. ASSUME NEW m \in Member, Step(m), d # m \/ ~(TestCount(m) \/ Finish(m)),
             ~\E x \in ExtraCount[m] : EnterExchange(m, x)
      PROVE  TotalInvAt(d)'
  <2>1. /\ tag'[d] = tag[d] /\ total'[d] = total[d] /\ heard'[d] = heard[d]
        /\ posted' = posted /\ (Inside(d)' <=> Inside(d))
    BY <1>3 DEF Step, QueueMessage, Destroy, SendCount, AllCountsSent, TestCount, TestData,
                Finish, MatchCount, MatchData, Inside
  <2> QED
    BY <1>1, <2>1
<1>4. ASSUME NEW m \in Member, NEW x \in ExtraCount[m], EnterExchange(m, x)
      PROVE  TotalInvAt(d)'
  <2>1. /\ pc[m] = "idle" /\ pc' = [pc EXCEPT ![m] = "counts"]
        /\ total' = [total EXCEPT ![m] = 0] /\ UNCHANGED <<tag, heard>>
    BY <1>4 DEF EnterExchange
  <2>2. CASE d = m
    <3>1. heard'[m] = {} /\ total'[m] = 0 /\ Inside(m)'
      BY <2>1 DEF LoopInv, LoopInvAt, Inside
    <3> QED
      BY <2>2, <3>1 DEF TotalInvAt
  <2>3. CASE d # m
    <3>1. /\ total'[d] = total[d] /\ (Inside(d)' <=> Inside(d)) /\ Finished(d)' = Finished(d)
          /\ ~Inside(m) /\ tag[m] \in Nat /\ tag[d] \in Nat
      BY <2>1, <2>3 DEF Inside, Finished
    <3>2. /\ \A s \in Member : s # m => posted'[s] = posted[s]
          /\ \A k \in Nat : Slot(k) # Slot(Finished(m) + 1) =>
               posted'[m][Slot(k)] = posted[m][Slot(k)]
      BY <1>4, EnterAnnounces
    <3>3. CASE Inside(d)
      <4>1. ASSUME m \in heard[d]
            PROVE  posted'[m][Slot(Number(tag[d]))] = posted[m][Slot(Number(tag[d]))]
        <5>1. tag[m] = tag[d] + 2
          BY <3>1, <4>1, HeardReached DEF Got, Reached, StepInv
        <5>2. Number(tag[d]) = Finished(d) + 1 /\ Finished(d) \in Nat /\ Finished(m) = Finished(d) + 1
          BY <5>1, NumberFacts
        <5>3. Slot(Finished(d) + 1) # Slot(Finished(m) + 1)
          BY <5>2, SlotFacts
        <5> HIDE DEF Number
        <5> QED
          BY <3>2, <5>2, <5>3
      <4>2. \A s \in heard[d] : posted'[s][Slot(Number(tag[d]))] = posted[s][Slot(Number(tag[d]))]
        BY <3>2, <4>1
      <4> QED
        BY <1>0, <2>1, <3>1, <3>3, <4>2 DEF TotalInvAt
    <3>4. CASE ~Inside(d)
      <4>1. tag[m] = tag[d]
        BY <3>1, <3>4 DEF StepInv
      <4>2. Finished(m) = Finished(d) /\ Finished(d) \in Nat
        BY <4>1, NumberFacts
      <4>3. Slot(Finished(d)) # Slot(Finished(m) + 1)
        BY <4>2, SlotFacts
      <4>4. \A s \in Member : posted'[s][Slot(Finished(d))] = posted[s][Slot(Finished(d))]
        BY <3>2, <4>2, <4>3
      <4> QED
        BY <1>0, <2>1, <3>1, <3>4, <4>4 DEF TotalInvAt
    <3> QED
      BY <3>3, <3>4
  <2> QED
    BY <2>2, <2>3
<1>5. ASSUME NEW m \in Member, TestCount(m), d = m PROVE TotalInvAt(d)'
  <2>1. PICK c \in Count : TestCountEffects(m, c)
    BY <1>5, TestCountFacts
  <2>2. /\ Inside(m) /\ Inside(m)' /\ UNCHANGED <<tag, posted>>
        /\ total'[m] = total[m] + c.second /\ heard'[m] = heard[m] \cup {c.src}
        /\ c.src \in Member /\ c.second \in Nat /\ total[m] \in Nat
        /\ arrived[m] # << >> /\ c = arrived[m][1]
    BY <2>1 DEF TestCountEffects, Inside
  <2>3. c.tag = 2 * tag[m]
    BY <2>1, TestCountGot DEF CountTag
  <2>4. OnItsWay(c, m)
    <3>1. 1 \in 1..Len(arrived[m])
      BY <2>2, ArrivedFacts
    <3> QED
      BY <2>2, <3>1 DEF OnItsWay
  <2>5. c.second = posted[c.src][Slot(Number(tag[m]))]
    <3>1. c.tag \div 2 = tag[m]
      BY <2>3, NumberFacts
    <3>2. AnnouncedInv(m)
      BY DEF TotalInv
    <3> QED
      BY <2>4, <3>1, <3>2 DEF AnnouncedInv
  <2>6. total'[m] = 0 <=> total[m] = 0 /\ c.second = 0
    <3>1. \A a, b \in Nat : a + b = 0 <=> a = 0 /\ b = 0
      OBVIOUS
    <3> QED
      BY <2>2, <3>1
  <2> QED
    BY <1>0, <1>5, <2>2, <2>5, <2>6 DEF TotalInvAt
<1>6. ASSUME NEW m \in Member, Finish(m), d = m PROVE TotalInvAt(d)'
  <2>1. /\ pc[m] = "poll" /\ pc'[m] = "idle" /\ tag'[m] = tag[m] + 2 /\ UNCHANGED <<posted, total>>
        /\ tag[m] \in Nat
    BY <1>6 DEF Finish
  <2>2. heard[m] = Member
    BY <1>6, AllHeard
  <2>3. Number(tag[m]) = Finished(m) + 1 /\ Finished(m) \in Nat /\ tag[m] = FirstTag + 2 * Finished(m)
    BY NumberFacts DEF LoopInv, LoopInvAt
  <2>4. Finished(m)' = Finished(m) + 1 /\ tag'[m] # FirstTag
    BY <2>1, <2>3 DEF Finished
  <2> HIDE DEF Number
  <2> QED
    BY <1>0, <1>6, <2>1, <2>2, <2>3, <2>4 DEF TotalInvAt, Inside
<1> QED
  BY <1>2, <1>3, <1>4, <1>5, <1>6 DEF Next, Done

LEMMA TotalInvStays ==
  ASSUME TypeInv, LoopInv, StepInv, CountInv, TotalInv, [Next]_vars
  PROVE  TotalInv'
BY AnnouncedStays, TotalStays DEF TotalInv

-----------------------------------------------------------------------------
(* The invariant, and what follows from it.                                *)

\* The first state.
LEMMA InitInv == Init => IInv
<1> SUFFICES ASSUME Init PROVE IInv
  OBVIOUS
<1> Size \in Nat \ {0} /\ FirstTag \in Nat /\ MaxExchanges \in Nat
  BY ExchangerAssumption
<1>1. \A m \in Member :
        /\ pc[m] = "idle" /\ tag[m] = FirstTag /\ sent[m] = 0 /\ expected[m] = Size
        /\ \A d \in Member : sendQ[m][d] = EmptyBag
        /\ total[m] = 0 /\ arrived[m] = << >> /\ heard[m] = {} /\ recvs[m] = {}
        /\ isends[m] = {} /\ counts[m] = {} /\ data[m] = {} /\ ~Inside(m)
  BY DEF Init, NoMessages, Inside
<1>2. TypeInv
  <2>1. QueueType
    BY EmptyQueue DEF Init, QueueType, NoMessages
  <2>2. RecvType
    BY DEF Init, RecvType
  <2>3. 0 \in 0..Size /\ Size \in 0..Size /\ << >> \in Seq(Count)
    OBVIOUS
  <2> QED
    BY <2>1, <2>2, <2>3 DEF Init, TypeInv
<1>3. \A m \in Member : Finished(m) = 0 /\ Got(m) = {} /\ Arrived(m) = {}
  BY <1>1 DEF Finished, Got, Arrived
<1>4. \A s, d \in Member : ~Reached(s, d, tag[d]) /\ ~Reached(s, d, tag[d] + 2)
  BY <1>1 DEF Reached
<1>5. \A d \in Member : \A c : ~OnItsWay(c, d)
  BY <1>1 DEF OnItsWay
<1>6. LoopInv
  <2>1. Cardinality({}) = 0 /\ 0 \in 0..MaxExchanges
    BY FS_EmptySet
  <2> SUFFICES ASSUME NEW m \in Member PROVE LoopInvAt(m)
    BY DEF LoopInv
  <2>2. FirstTag = FirstTag + 2 * 0 /\ Size + 0 = Size
    OBVIOUS
  <2>3. Finished(m) = 0 /\ Cardinality(Got(m)) = 0
    BY <1>3, <2>1
  <2>4. tag[m] = FirstTag + 2 * Finished(m)
    BY <1>1, <2>2, <2>3, Zenon
  <2>5. expected[m] + Cardinality(Got(m)) = Size
    BY <1>1, <2>2, <2>3, Zenon
  <2> QED
    BY <1>1, <1>3, <2>1, <2>4, <2>5 DEF LoopInvAt
<1>7. StepInv
  BY <1>1 DEF StepInv
<1>8. CountInv
  BY <1>1, <1>3, <1>4 DEF CountInv, Accounted, InFlight, FlightInv, ArrivedInv
<1>9. QueueInv
  BY <1>5 DEF QueueInv
<1>10. DataInv /\ RecvInv
  BY <1>1 DEF DataInv, DatumInv, PairInv, RecvInv, RecvInvAt
<1>11. TotalInv
  BY <1>1, <1>5 DEF TotalInv, AnnouncedInv, TotalInvAt
<1> QED
  BY <1>2, <1>6, <1>7, <1>8, <1>9, <1>10, <1>11 DEF IInv

\* Every step.
LEMMA Inductive == IInv /\ [Next]_vars => IInv'
BY TypeStays, LoopInvStays, StepInvStays, CountInvStays, QueueInvStays, DataInvStays,
   TotalInvStays DEF IInv

\* The state of every member is of its type, and members, counts and data are
\* where the other members expect them.
THEOREM Invariance == Spec => []IInv
BY InitInv, Inductive, PTL DEF Spec

\* What NothingStray says of one state.
LEMMA StrayFacts == IInv => NothingStray
<1> SUFFICES ASSUME IInv, NEW m \in Member
             PROVE  /\ \A c \in counts[m] : c.tag \in {CountTag(m), CountTag(m) + 4}
                    /\ \A x \in data[m] : x.tag = DataTag(m)
                    /\ pc[m] = "destroyed" => counts[m] = {} /\ data[m] = {}
  BY DEF NothingStray
<1>1. FlightInv(m) /\ DatumInv(m)
  BY DEF IInv, CountInv, DataInv
<1>2. ASSUME pc[m] = "destroyed", NEW s \in Member
      PROVE  ~(Inside(s) /\ tag[s] >= tag[m]) /\ ~(tag[s] > tag[m])
  <2>1. Finished(m) = MaxExchanges /\ ~Inside(m)
    BY <1>2 DEF IInv, LoopInv, LoopInvAt, Inside
  <2>2. /\ tag[s] = FirstTag + 2 * Finished(s) /\ tag[m] = FirstTag + 2 * Finished(m)
        /\ Finished(s) \in 0..MaxExchanges /\ (Inside(s) => Finished(s) < MaxExchanges)
    BY DEF IInv, LoopInv, LoopInvAt
  <2> QED
    BY <2>1, <2>2, ExchangerAssumption
<1>3. ASSUME pc[m] = "destroyed", NEW c \in counts[m] PROVE FALSE
  <2>1. c \in Count /\ OnItsWay(c, m)
    BY DEF IInv, TypeInv, OnItsWay
  <2>2. PICK t \in {tag[m], tag[m] + 2} :
          t \in Nat /\ c.tag = 2 * t /\ c.src \in Member /\ Reached(c.src, m, t)
    BY <2>1, WayReached DEF IInv
  <2>3. tag[m] \in Nat /\ tag[c.src] \in Nat
    BY <2>2 DEF IInv, TypeInv
  <2> QED
    BY <1>2, <1>3, <2>2, <2>3 DEF Reached
<1>4. ASSUME pc[m] = "destroyed", NEW x \in data[m] PROVE FALSE
  <2>1. x.src \in Member /\ tag[m] \in Nat
    BY DEF IInv, TypeInv, Datum
  <2> QED
    BY <1>1, <1>2, <1>4, <2>1 DEF DatumInv
<1> QED
  BY <1>1, <1>3, <1>4 DEF FlightInv, DatumInv

\* Counts and data of different exchanges never share a tag, and nothing is in
\* flight to an exchanger whose destructor cancelled its receives.
THEOREM NothingIsStray == Spec => []NothingStray
BY Invariance, StrayFacts, PTL

-----------------------------------------------------------------------------
(* The variables of the contract.                                          *)

Answer == [m \in Member |-> IF Inside(m) THEN "none" ELSE IF total[m] = 0 THEN "empty" ELSE "some"]
Round == [m \in Member |-> Entered(m)]
Carries == [m \in Member |-> {p \in 0..1 : posted[m][p] > 0}]
Table ==
  [d \in Member |-> [p \in 0..1 |->
    IF p = Slot(Entered(d)) THEN Merge([s \in Member |-> FromHere(s, d)])
    ELSE Merge([s \in Member |-> FromNext(s, d)])]]

\* What d has to handle of s in the exchanges of slot p.
Link(s, d, p) == IF p = Slot(Entered(d)) THEN FromHere(s, d) ELSE FromNext(s, d)

Links(d, p) == [s \in Member |-> Link(s, d, p)]

\* The table merges the links.
TableInv ==
  /\ \A d \in Member, p \in 0..1 : Table[d][p] = Merge(Links(d, p))
  /\ Table = [d \in Member |-> [p \in 0..1 |-> Table[d][p]]]

LEMMA TableFacts == TableInv
<1>1. ASSUME NEW d \in Member, NEW p \in 0..1 PROVE Table[d][p] = Merge(Links(d, p))
  <2>1. CASE p = Slot(Entered(d))
    <3>1. Links(d, p) = [s \in Member |-> FromHere(s, d)]
      BY <2>1 DEF Links, Link
    <3> QED
      BY <2>1, <3>1 DEF Table
  <2>2. CASE p # Slot(Entered(d))
    <3>1. Links(d, p) = [s \in Member |-> FromNext(s, d)]
      BY <2>2 DEF Links, Link
    <3> QED
      BY <2>2, <3>1 DEF Table
  <2> QED
    BY <2>1, <2>2
<1>2. Table = [d \in Member |-> [p \in 0..1 |-> Table[d][p]]]
  BY DEF Table
<1> QED
  BY <1>1, <1>2 DEF TableInv

LEMMA TableNext == TableInv'
BY TableFacts, PTL

\* Members whose links stay find the same in the table.
LEMMA SameCell ==
  ASSUME NEW d \in Member, NEW p \in 0..1, \A s \in Member : Link(s, d, p)' = Link(s, d, p)
  PROVE  Table'[d][p] = Table[d][p]
<1>1. Links(d, p)' = Links(d, p)
  BY DEF Links
<1>2. Table[d][p] = Merge(Links(d, p)) /\ Table'[d][p] = Merge(Links(d, p)')
  BY TableFacts, TableNext DEF TableInv
<1> QED
  BY <1>1, <1>2

LEMMA SameTable ==
  ASSUME \A d \in Member, p \in 0..1 : Table'[d][p] = Table[d][p]
  PROVE  Table' = Table
BY TableFacts, TableNext DEF TableInv

-----------------------------------------------------------------------------
(* Merged queues.                                                          *)

\* The empty bag of the contract is the one of the code.
LEMMA SameEmptyBag == Exchange!EmptyBag = EmptyBag
BY DEF Exchange!EmptyBag, Exchange!SetToBag, EmptyBag, SetToBag

\* The messages in merged queues.
LEMMA MergeDomain ==
  ASSUME NEW from
  PROVE  /\ \A s \in Member : \A e \in DOMAIN from[s] :
              <<s, e>> \in DOMAIN Merge(from) /\ Merge(from)[<<s, e>>] = from[s][e]
         /\ \A x \in DOMAIN Merge(from) :
              \E s \in Member : \E e \in DOMAIN from[s] : x = <<s, e>>
<1>1. DOMAIN Merge(from) = UNION {{s} \X DOMAIN from[s] : s \in Member}
  BY DEF Merge, BagToSet
<1>2. \A x \in DOMAIN Merge(from) : Merge(from)[x] = from[x[1]][x[2]]
  BY DEF Merge
<1> HIDE DEF Merge
<1>3. ASSUME NEW s \in Member, NEW e \in DOMAIN from[s]
      PROVE  <<s, e>> \in DOMAIN Merge(from) /\ Merge(from)[<<s, e>>] = from[s][e]
  BY <1>1, <1>2
<1>4. ASSUME NEW x \in DOMAIN Merge(from)
      PROVE  \E s \in Member : \E e \in DOMAIN from[s] : x = <<s, e>>
  <2>1. PICK s \in Member : x \in {s} \X DOMAIN from[s]
    BY <1>1
  <2>2. x = <<s, x[2]>> /\ x[2] \in DOMAIN from[s]
    BY <2>1
  <2> QED
    BY <2>2
<1> QED
  BY <1>3, <1>4

\* Empty queues merge to nothing.
LEMMA MergeEmpty ==
  ASSUME NEW from, \A s \in Member : from[s] = EmptyBag
  PROVE  Merge(from) = EmptyBag
<1>1. DOMAIN EmptyBag = {}
  BY DEF EmptyBag, SetToBag
<1>2. DOMAIN Merge(from) = {}
  BY <1>1, MergeDomain
<1>3. Merge(from) = [x \in DOMAIN Merge(from) |-> from[x[1]][x[2]]]
  BY DEF Merge
<1>4. EmptyBag = [x \in {} |-> 1]
  BY DEF EmptyBag, SetToBag
<1> QED
  BY <1>2, <1>3, <1>4

\* Queues that grow from nothing merge to more.
LEMMA MergeGrows ==
  ASSUME NEW from, NEW to,
         \A s \in Member : MsgBag(to[s]) /\ (from[s] = to[s] \/ from[s] = EmptyBag)
  PROVE  /\ Merge(from) \sqsubseteq Merge(to)
         /\ (\E s \in Member : from[s] = EmptyBag /\ to[s] # EmptyBag) => Merge(from) # Merge(to)
<1>1. DOMAIN EmptyBag = {}
  BY DEF EmptyBag, SetToBag
<1>2. \A s \in Member : \A e \in DOMAIN from[s] :
        from[s] = to[s] /\ e \in DOMAIN to[s] /\ to[s][e] \in Nat
  BY <1>1 DEF MsgBag, IsABag
<1>3. ASSUME NEW x \in DOMAIN Merge(from)
      PROVE  x \in DOMAIN Merge(to) /\ Merge(from)[x] <= Merge(to)[x]
  <2>1. PICK s \in Member : \E e \in DOMAIN from[s] : x = <<s, e>>
    BY MergeDomain
  <2>2. PICK e \in DOMAIN from[s] : x = <<s, e>>
    BY <2>1
  <2>3. from[s] = to[s] /\ e \in DOMAIN to[s] /\ to[s][e] \in Nat
    BY <1>2, <2>2
  <2>4. x \in DOMAIN Merge(to) /\ Merge(to)[x] = to[s][e] /\ Merge(from)[x] = to[s][e]
    BY <2>2, <2>3, MergeDomain
  <2> QED
    BY <2>3, <2>4
<1>4. Merge(from) \sqsubseteq Merge(to)
  BY <1>3 DEF \sqsubseteq
<1>5. ASSUME NEW s \in Member, from[s] = EmptyBag, to[s] # EmptyBag
      PROVE  Merge(from) # Merge(to)
  <2>1. PICK e \in DOMAIN to[s] : TRUE
    BY <1>5, NoMessage DEF BagToSet
  <2>2. <<s, e>> \in DOMAIN Merge(to)
    BY <2>1, MergeDomain
  <2>3. <<s, e>> \notin DOMAIN Merge(from)
    <3> SUFFICES ASSUME <<s, e>> \in DOMAIN Merge(from) PROVE FALSE
      OBVIOUS
    <3>1. PICK r \in Member : \E f \in DOMAIN from[r] : <<s, e>> = <<r, f>>
      BY MergeDomain
    <3> QED
      BY <1>1, <1>5, <3>1
  <2> QED
    BY <2>2, <2>3
<1> QED
  BY <1>4, <1>5

-----------------------------------------------------------------------------
(* What a member still has to handle.                                      *)

\* A matched receive is what there is to handle; without one it is the queue,
\* if that is still owed.
HereInv ==
  \A s, d \in Member :
    /\ \A q \in recvs[d] : q.src = s /\ q.matched => FromHere(s, d) = q.buff
    /\ (\A q \in recvs[d] : ~(q.src = s /\ q.matched)) =>
         FromHere(s, d) = IF Owes(s, d) THEN sendQ[s][d] ELSE EmptyBag

LEMMA HereFacts == RecvInv => HereInv
<1> SUFFICES ASSUME RecvInv, NEW s \in Member, NEW d \in Member
             PROVE  /\ \A q \in recvs[d] : q.src = s /\ q.matched => FromHere(s, d) = q.buff
                    /\ (\A q \in recvs[d] : ~(q.src = s /\ q.matched)) =>
                         FromHere(s, d) = IF Owes(s, d) THEN sendQ[s][d] ELSE EmptyBag
  BY DEF HereInv
<1>1. \A p, q \in Received(s, d) : p = q
  BY DEF RecvInv, RecvInvAt, Received
<1>2. ASSUME NEW q \in Received(s, d) PROVE FromHere(s, d) = q.buff
  <2>1. (CHOOSE r \in Received(s, d) : TRUE) \in Received(s, d)
    BY <1>2
  <2>2. (CHOOSE r \in Received(s, d) : TRUE) = q
    BY <1>1, <2>1
  <2> QED
    BY <1>2, <2>2 DEF FromHere
<1>3. ASSUME Received(s, d) = {}
      PROVE  FromHere(s, d) = IF Owes(s, d) THEN sendQ[s][d] ELSE EmptyBag
  BY <1>3 DEF FromHere
<1>4. \A q : q \in Received(s, d) <=> q \in recvs[d] /\ q.src = s /\ q.matched
  BY DEF Received
<1> QED
  BY <1>2, <1>3, <1>4

LEMMA HereNext == RecvInv' => HereInv'
BY HereFacts, PTL

\* What is to be handled is a queue.
LEMMA LinkBag ==
  ASSUME TypeInv, HereInv, NEW s \in Member, NEW d \in Member, NEW p \in 0..1
  PROVE  MsgBag(Link(s, d, p))
<1>1. MsgBag(sendQ[s][d]) /\ MsgBag(EmptyBag)
  BY EmptyQueue DEF TypeInv, QueueType
<1>2. MsgBag(FromNext(s, d))
  BY <1>1 DEF FromNext
<1>3. CASE \E q \in recvs[d] : q.src = s /\ q.matched
  <2>1. PICK q \in recvs[d] : q.src = s /\ q.matched
    BY <1>3
  <2>2. MsgBag(q.buff)
    BY <2>1 DEF TypeInv, RecvType, IsDataRecv
  <2>3. FromHere(s, d) = q.buff
    BY <2>1 DEF HereInv
  <2> QED
    BY <1>2, <2>2, <2>3 DEF Link
<1>4. CASE ~\E q \in recvs[d] : q.src = s /\ q.matched
  <2>1. FromHere(s, d) = IF Owes(s, d) THEN sendQ[s][d] ELSE EmptyBag
    BY <1>4 DEF HereInv
  <2> QED
    BY <1>1, <1>2, <2>1 DEF Link
<1> QED
  BY <1>3, <1>4

\* Neither of two members moves.
SamePlace(s, d) ==
  /\ tag'[s] = tag[s] /\ tag'[d] = tag[d]
  /\ Inside(s)' <=> Inside(s)
  /\ Inside(d)' <=> Inside(d)
  /\ Inside(s) => sendQ'[s][d] = sendQ[s][d]

\* What is to be handled now stays the same.
LEMMA HereStays ==
  ASSUME HereInv, HereInv', NEW s \in Member, NEW d \in Member,
         Inside(s)' <=> Inside(s), Inside(s) => sendQ'[s][d] = sendQ[s][d],
         \A q : q.src = s /\ q.matched => (q \in recvs'[d] <=> q \in recvs[d]),
         Inside(s) /\ sendQ[s][d] # EmptyBag => (Owes(s, d)' <=> Owes(s, d))
  PROVE  FromHere(s, d)' = FromHere(s, d)
<1>1. CASE \E q \in recvs[d] : q.src = s /\ q.matched
  <2>1. PICK q \in recvs[d] : q.src = s /\ q.matched
    BY <1>1
  <2>2. q \in recvs'[d]
    BY <2>1
  <2> QED
    BY <2>1, <2>2 DEF HereInv
<1>2. CASE ~\E q \in recvs[d] : q.src = s /\ q.matched
  <2>1. FromHere(s, d) = IF Owes(s, d) THEN sendQ[s][d] ELSE EmptyBag
    BY <1>2 DEF HereInv
  <2>2. FromHere(s, d)' = IF Owes(s, d)' THEN sendQ'[s][d] ELSE EmptyBag
    BY <1>2 DEF HereInv
  <2>3. (Owes(s, d) => Inside(s)) /\ (Owes(s, d)' => Inside(s)')
    BY DEF Owes
  <2> QED
    BY <2>1, <2>2, <2>3
<1> QED
  BY <1>1, <1>2

\* And so does what is to be handled in either exchange.
LEMMA LinkStays ==
  ASSUME NEW s \in Member, NEW d \in Member, NEW p \in 0..1, SamePlace(s, d),
         FromHere(s, d)' = FromHere(s, d)
  PROVE  Link(s, d, p)' = Link(s, d, p)
<1>1. Entered(s)' = Entered(s) /\ Entered(d)' = Entered(d)
  BY DEF SamePlace, Entered, Finished
<1>2. FromNext(s, d)' = FromNext(s, d)
  BY <1>1 DEF SamePlace, FromNext
<1> QED
  BY <1>1, <1>2 DEF Link

-----------------------------------------------------------------------------
(* The steps inside an exchange that the contract does not see.            *)

\* A step that leaves what the contract speaks of.
LEMMA SilentStep ==
  ASSUME UNCHANGED <<tag, posted>>,
         \A m \in Member : (Inside(m)' <=> Inside(m)) /\ (~Inside(m) => total'[m] = total[m]),
         \A d \in Member, p \in 0..1, s \in Member : Link(s, d, p)' = Link(s, d, p)
  PROVE  UNCHANGED <<Answer, Round, Carries, Table>>
<1>1. Answer' = Answer
  BY DEF Answer
<1>2. \A m \in Member : Entered(m)' = Entered(m)
  BY DEF Entered, Finished
<1>3. Round' = Round
  BY <1>2 DEF Round
<1>4. Carries' = Carries
  BY DEF Carries
<1>5. Table' = Table
  BY SameCell, SameTable
<1> QED
  BY <1>1, <1>3, <1>4, <1>5

\* The steps of the callers and of the counts.
LEMMA CountsAreSilent ==
  ASSUME TypeInv, HereInv, HereInv', NEW m \in Member,
         \/ \E d \in Member, msg \in Message : QueueMessage(m, d, msg)
         \/ Destroy(m) \/ SendCount(m) \/ AllCountsSent(m) \/ MatchCount(m)
  PROVE  UNCHANGED <<Answer, Round, Carries, Table>>
<1>1. /\ UNCHANGED <<tag, posted, total, heard, recvs>>
      /\ \A s \in Member : Inside(s)' <=> Inside(s)
      /\ \A s \in Member : Inside(s) => sendQ'[s] = sendQ[s]
  <2> pc \in [Member -> {"idle", "counts", "poll", "destroyed"}]
    BY DEF TypeInv
  <2>1. CASE \E d \in Member, msg \in Message : QueueMessage(m, d, msg)
    BY <2>1 DEF QueueMessage, Inside, TypeInv, QueueType
  <2>2. CASE Destroy(m) \/ SendCount(m) \/ AllCountsSent(m) \/ MatchCount(m)
    BY <2>2 DEF Destroy, SendCount, AllCountsSent, MatchCount, Inside
  <2> QED
    BY <2>1, <2>2
<1>2. ASSUME NEW s \in Member, NEW d \in Member, NEW p \in 0..1
      PROVE  Link(s, d, p)' = Link(s, d, p)
  <2>1. Owes(s, d)' <=> Owes(s, d)
    BY <1>1 DEF Owes
  <2>2. FromHere(s, d)' = FromHere(s, d)
    BY <1>1, <2>1, HereStays
  <2> QED
    BY <1>1, <2>2, LinkStays DEF SamePlace
<1> QED
  BY <1>1, <1>2, SilentStep

\* The test of a count: the queue of its sender is owed as before.
LEMMA TestCountIsSilent ==
  ASSUME IInv, HereInv, HereInv', NEW m \in Member, TestCount(m)
  PROVE  UNCHANGED <<Answer, Round, Carries, Table>>
<1>0. TypeInv /\ CountInv /\ QueueInv
  BY DEF IInv
<1>1. PICK c \in Count : TestCountEffects(m, c)
  BY <1>0, TestCountFacts
<1> DEFINE e == c.src
           q == RecvFor(c)
<1>2. /\ e \in Member /\ Inside(m) /\ arrived[m] # << >> /\ c = arrived[m][1]
      /\ UNCHANGED <<pc, tag, sendQ, posted>>
      /\ heard'[m] = heard[m] \cup {e}
      /\ \A d \in Member : d # m => heard'[d] = heard[d] /\ recvs'[d] = recvs[d] /\ total'[d] = total[d]
      /\ recvs'[m] = IF c.first = 0 THEN recvs[m] ELSE recvs[m] \cup {q}
  BY <1>0, <1>1 DEF TestCountEffects, TypeInv, RecvType, Inside
<1>3. q.src = e /\ ~q.matched
  BY DEF RecvFor
<1>4. c.tag = CountTag(m) /\ e \notin heard[m]
  BY <1>0, <1>1, TestCountGot
<1>5. OnItsWay(c, m)
  <2>1. 1 \in 1..Len(arrived[m])
    BY <1>0, <1>2, ArrivedFacts
  <2> QED
    BY <1>2, <2>1 DEF OnItsWay
<1>6. Inside(e) /\ tag[e] = tag[m] => (c.first = 0 <=> sendQ[e][m] = EmptyBag)
  BY <1>0, <1>4, <1>5 DEF QueueInv, CountTag
<1> HIDE DEF e, q
<1>7. \A r : r.matched => \A d \in Member : r \in recvs'[d] <=> r \in recvs[d]
  BY <1>2, <1>3
<1>8. ASSUME NEW s \in Member, NEW d \in Member, sendQ[s][d] # EmptyBag
      PROVE  Owes(s, d)' <=> Owes(s, d)
  <2>1. Inside(s)' <=> Inside(s)
    BY <1>2 DEF Inside
  <2>2. Inside(d)' <=> Inside(d)
    BY <1>2 DEF Inside
  <2>3. CASE d # m
    BY <1>2, <2>1, <2>2, <2>3 DEF Owes
  <2>4. CASE d = m /\ s # e
    <3>1. s \in heard'[m] <=> s \in heard[m]
      BY <1>2, <2>4
    <3>2. (\E r \in recvs'[m] : r.src = s /\ ~r.matched) <=> \E r \in recvs[m] : r.src = s /\ ~r.matched
      BY <1>2, <1>3, <2>4
    <3> QED
      BY <1>2, <2>1, <2>2, <2>4, <3>1, <3>2 DEF Owes
  <2>5. CASE d = m /\ s = e
    <3>1. Inside(e) /\ tag[e] = tag[m] => q \in recvs'[m]
      BY <1>2, <1>6, <1>8, <2>5
    <3> QED
      BY <1>2, <1>3, <1>4, <2>1, <2>2, <2>5, <3>1 DEF Owes
  <2> QED
    BY <2>3, <2>4, <2>5
<1>9. ASSUME NEW s \in Member, NEW d \in Member, NEW p \in 0..1
      PROVE  Link(s, d, p)' = Link(s, d, p)
  <2>1. SamePlace(s, d)
    BY <1>2 DEF SamePlace, Inside
  <2>2. FromHere(s, d)' = FromHere(s, d)
    BY <1>7, <1>8, <2>1, HereStays DEF SamePlace
  <2> QED
    BY <2>1, <2>2, LinkStays
<1>10. \A d \in Member : (Inside(d)' <=> Inside(d)) /\ (~Inside(d) => total'[d] = total[d])
  BY <1>2 DEF Inside
<1> QED
  BY <1>2, <1>9, <1>10, SilentStep

\* Data meets its receive, which holds then what was owed.
LEMMA MatchDataIsSilent ==
  ASSUME IInv, HereInv, HereInv', NEW m \in Member, MatchData(m)
  PROVE  UNCHANGED <<Answer, Round, Carries, Table>>
<1>0. TypeInv /\ LoopInvAt(m) /\ DatumInv(m) /\ RecvInvAt(m)
  BY DEF IInv, LoopInv, DataInv, RecvInv
<1>1. PICK q \in recvs[m], x \in data[m] : MatchDataEffects(m, q, x)
  BY <1>0, MatchDataFacts
<1> DEFINE o == q.src
           r == [src |-> o, size |-> q.size, matched |-> TRUE, buff |-> sendQ[o][m]]
<1>2. /\ o \in Member /\ x.src = o /\ ~q.matched
      /\ UNCHANGED <<pc, tag, sendQ, heard, posted, total>>
      /\ recvs'[m] = (recvs[m] \ {q}) \cup {r}
      /\ \A d \in Member : d # m => recvs'[d] = recvs[d]
  BY <1>0, <1>1 DEF MatchDataEffects, TypeInv, RecvType
<1>3. r.src = o /\ r.matched /\ r.buff = sendQ[o][m]
  OBVIOUS
<1>4. q.src = o
  OBVIOUS
<1> HIDE DEF o, r
<1>5. Owes(o, m) /\ \A p \in recvs[m] : p.src = o => p = q
  <2>1. Inside(o) /\ tag[o] = tag[m]
    BY <1>0, <1>2 DEF DatumInv
  <2>2. Inside(m)
    BY <1>0 DEF LoopInvAt, Inside
  <2> QED
    BY <1>0, <1>2, <1>4, <2>1, <2>2 DEF Owes, RecvInvAt
<1>6. FromHere(o, m)' = FromHere(o, m)
  <2>1. FromHere(o, m) = sendQ[o][m]
    BY <1>2, <1>5 DEF HereInv
  <2>2. FromHere(o, m)' = sendQ[o][m]
    BY <1>2, <1>3 DEF HereInv
  <2> QED
    BY <2>1, <2>2
<1>7. ASSUME NEW s \in Member, NEW d \in Member
      PROVE  SamePlace(s, d) /\ FromHere(s, d)' = FromHere(s, d)
  <2>1. SamePlace(s, d)
    BY <1>2 DEF SamePlace, Inside
  <2>2. CASE s # o \/ d # m
    <3>1. \A p : p.src = s => (p \in recvs'[d] <=> p \in recvs[d])
      BY <1>2, <1>3, <1>4, <2>2
    <3>2. Owes(s, d)' <=> Owes(s, d)
      BY <1>2, <2>1, <3>1 DEF Owes, SamePlace
    <3> QED
      BY <2>1, <3>1, <3>2, HereStays DEF SamePlace
  <2> QED
    BY <1>6, <2>1, <2>2
<1>8. \A d \in Member : (Inside(d)' <=> Inside(d)) /\ (~Inside(d) => total'[d] = total[d])
  BY <1>2 DEF Inside
<1> QED
  BY <1>2, <1>7, <1>8, LinkStays, SilentStep

-----------------------------------------------------------------------------
(* The steps of the contract.                                              *)

\* Received data is handled: a step that receives.
LEMMA TestDataReceives ==
  ASSUME IInv, HereInv, HereInv', NEW m \in Member, TestData(m)
  PROVE  Exchange!Receive(m)
<1>0. TypeInv /\ LoopInvAt(m) /\ RecvInvAt(m)
  BY DEF IInv, LoopInv, RecvInv
<1>1. PICK q \in recvs[m] : q.matched /\ recvs' = [recvs EXCEPT ![m] = @ \ {q}]
  BY DEF TestData
<1>2. Inside(m) /\ UNCHANGED <<pc, tag, sendQ, heard, posted, total>>
  BY DEF TestData, Inside
<1> DEFINE o == q.src
<1>3. /\ recvs'[m] = recvs[m] \ {q} /\ \A d \in Member : d # m => recvs'[d] = recvs[d]
      /\ o \in Member /\ o \in heard[m] /\ q.buff # EmptyBag
      /\ \A p \in recvs[m] : p.src = o => p = q
  BY <1>0, <1>1 DEF TypeInv, RecvType, IsDataRecv, RecvInvAt
<1>4. PICK k \in 0..1 : k = Slot(Entered(m))
  BY <1>0, SlotFacts DEF LoopInvAt, Entered
<1>5. FromHere(o, m) # EmptyBag /\ FromHere(o, m)' = EmptyBag
  <2>1. FromHere(o, m) = q.buff
    BY <1>1, <1>3 DEF HereInv
  <2>2. ~Owes(o, m)' /\ \A p \in recvs'[m] : p.src # o
    BY <1>2, <1>3 DEF Owes
  <2>3. FromHere(o, m)' = EmptyBag
    BY <1>3, <2>2 DEF HereInv
  <2> QED
    BY <1>3, <2>1, <2>3
<1>6. q.src = o
  OBVIOUS
<1> HIDE DEF o
<1>7. ASSUME NEW s \in Member, NEW d \in Member, NEW p \in 0..1
      PROVE  /\ s # o \/ d # m \/ p # k => Link(s, d, p)' = Link(s, d, p)
             /\ s = o /\ d = m /\ p = k => Link(s, d, p) # EmptyBag /\ Link(s, d, p)' = EmptyBag
  <2>1. SamePlace(s, d) /\ Entered(s)' = Entered(s) /\ Entered(d)' = Entered(d)
    BY <1>2 DEF SamePlace, Inside, Entered, Finished
  <2>2. CASE s # o \/ d # m
    <3>1. \A r : r.src = s => (r \in recvs'[d] <=> r \in recvs[d])
      BY <1>3, <1>6, <2>2
    <3>2. Owes(s, d)' <=> Owes(s, d)
      BY <1>2, <2>1, <3>1 DEF Owes, SamePlace
    <3>3. FromHere(s, d)' = FromHere(s, d)
      BY <2>1, <3>1, <3>2, HereStays DEF SamePlace
    <3> QED
      BY <2>1, <2>2, <3>3, LinkStays
  <2>3. CASE s = o /\ d = m
    <3>0. Slot(Entered(m))' = Slot(Entered(m))
      BY <2>1, <2>3
    <3>1. FromNext(o, m)' = FromNext(o, m)
      BY <1>2, <2>1, <2>3 DEF FromNext, SamePlace
    <3> QED
      BY <1>4, <1>5, <2>3, <3>0, <3>1 DEF Link
  <2> QED
    BY <2>2, <2>3
<1>8. Table'[m][k] # Table[m][k] /\ Table'[m][k] \sqsubseteq Table[m][k]
  <2> DEFINE from == Links(m, k)'
             to == Links(m, k)
  <2>1. \A s \in Member : from[s] = Link(s, m, k)' /\ to[s] = Link(s, m, k)
    BY <1>4 DEF Links
  <2>2. \A s \in Member : MsgBag(Link(s, m, k))
    BY <1>0, <1>4, LinkBag
  <2>3. Table[m][k] = Merge(to) /\ Table'[m][k] = Merge(from)
    BY <1>4, TableFacts, TableNext DEF TableInv
  <2> HIDE DEF from, to
  <2>4. \A s \in Member : MsgBag(to[s]) /\ (from[s] = to[s] \/ from[s] = EmptyBag)
    BY <1>4, <1>7, <2>1, <2>2
  <2>5. from[o] = EmptyBag /\ to[o] # EmptyBag
    BY <1>3, <1>4, <1>7, <2>1
  <2> QED
    BY <1>3, <2>3, <2>4, <2>5, MergeGrows
<1>9. \A d \in Member, p \in 0..1 : d # m \/ p # k => Table'[d][p] = Table[d][p]
  BY <1>7, SameCell
<1>10. Table' = [Table EXCEPT ![m][k] = Table'[m][k]]
  BY <1>4, <1>9, TableFacts, TableNext DEF TableInv
<1>11. UNCHANGED <<Answer, Round, Carries>> /\ Answer[m] = "none"
  BY <1>2 DEF Answer, Round, Carries, Inside, Entered, Finished
<1>12. Exchange!Slot(Round[m]) = k
  BY <1>4 DEF Exchange!Slot, Slot, Round
<1> QED
  BY <1>8, <1>10, <1>11, <1>12 DEF Exchange!Receive, Exchange!Inside, Answer, Round, Carries, Table,
     Exchange!\sqsubseteq, \sqsubseteq

\* A member leaves: nothing of the others is left for it, and nothing of it for
\* them that they have not met.
LEMMA FinishLinks ==
  ASSUME IInv, HereInv, HereInv', NEW m \in Member, Finish(m),
         NEW s \in Member, NEW d \in Member, NEW p \in 0..1
  PROVE  /\ Link(s, d, p)' = Link(s, d, p)
         /\ d = m /\ p = Slot(Entered(m)) => Link(s, d, p) = EmptyBag
<1>0. TypeInv /\ LoopInv /\ StepInv /\ CountInv
  BY DEF IInv
<1>1. /\ pc[m] = "poll" /\ recvs[m] = {} /\ isends[m] = {}
      /\ pc' = [pc EXCEPT ![m] = "idle"] /\ tag' = [tag EXCEPT ![m] = @ + 2]
      /\ heard' = [heard EXCEPT ![m] = {}] /\ UNCHANGED recvs
      /\ tag \in [Member -> Nat] /\ heard \in [Member -> SUBSET Member]
      /\ pc \in [Member -> {"idle", "counts", "poll", "destroyed"}]
  BY <1>0 DEF Finish, TypeInv
<1>2. \A r \in Member : r # m => sendQ'[r] = sendQ[r]
  BY <1>0 DEF Finish, TypeInv, QueueType
<1>3. heard[m] = Member /\ Inside(m) /\ ~Inside(m)'
  BY <1>0, <1>1, AllHeard DEF Inside
<1>4. \A r \in Member : r # m => (Inside(r)' <=> Inside(r)) /\ tag'[r] = tag[r] /\ heard'[r] = heard[r]
  BY <1>1 DEF Inside
<1>5. \A r \in Member : Entered(r)' = Entered(r) /\ Entered(r) \in Nat
  <2>1. ASSUME NEW r \in Member, r # m PROVE Entered(r)' = Entered(r)
    BY <1>4, <2>1 DEF Entered, Finished
  <2>2. Finished(m)' = Finished(m) + 1
    <3>1. /\ tag[m] = FirstTag + 2 * Finished(m) /\ Finished(m) \in Nat /\ FirstTag \in Nat
          /\ tag'[m] = tag[m] + 2
      BY <1>0, <1>1, NumberFacts, ExchangerAssumption DEF LoopInv, LoopInvAt
    <3> QED
      BY <3>1 DEF Finished
  <2>3. Entered(m)' = Entered(m)
    BY <1>3, <2>2 DEF Entered
  <2>4. \A r \in Member : Entered(r) \in Nat
    BY <1>0, NumberFacts DEF Entered
  <2> QED
    BY <2>1, <2>3, <2>4
<1>6. CASE d = m
  <2>1. FromHere(s, m) = EmptyBag
    BY <1>1, <1>3 DEF HereInv, Owes
  <2>2. FromHere(s, m)' = EmptyBag
    BY <1>1, <1>3 DEF HereInv, Owes
  <2>3. FromNext(s, m)' = FromNext(s, m)
    BY <1>2, <1>4, <1>5 DEF FromNext
  <2> QED
    BY <1>5, <1>6, <2>1, <2>2, <2>3 DEF Link
<1>7. CASE d # m /\ s = m
  <2>1. Owes(m, d) => sendQ[m][d] = EmptyBag
    <3> SUFFICES ASSUME Owes(m, d), sendQ[m][d] # EmptyBag PROVE FALSE
      OBVIOUS
    <3>1. PairInv(m, d) /\ DatumInv(d)
      BY DEF IInv, DataInv
    <3>2. d \in heard[m] /\ Inside(m) /\ tag[m] = tag[d] /\ (m \in heard[d] => Unmatched(m, d))
      BY <1>3 DEF Owes, Unmatched
    <3>3. \E x \in data[d] : x.src = m
      BY <3>1, <3>2 DEF PairInv
    <3> QED
      BY <1>1, <3>1, <3>3 DEF DatumInv
  <2>2. ~Owes(m, d)'
    BY <1>3 DEF Owes
  <2>3. FromHere(m, d)' = FromHere(m, d)
    BY <1>1, <2>1, <2>2 DEF HereInv
  <2>4. FromNext(m, d) = EmptyBag
    <3>1. d \in Got(m)
      BY <1>3 DEF Got
    <3>2. Reached(d, m, tag[m])
      BY <1>0, <3>1, HeardReached
    <3>3. (tag[d] = tag[m] /\ Inside(d)) \/ tag[d] = tag[m] + 2
      BY <1>0, <1>1, <3>2 DEF Reached, StepInv
    <3>4. Entered(d) # Entered(m) - 1
      BY <1>0, <1>3, <3>3, NumberFacts DEF Entered
    <3> QED
      BY <1>5, <3>4 DEF FromNext
  <2>5. FromNext(m, d)' = EmptyBag
    BY <1>3 DEF FromNext
  <2> QED
    BY <1>5, <1>7, <2>3, <2>4, <2>5 DEF Link
<1>8. CASE d # m /\ s # m
  <2>1. SamePlace(s, d)
    BY <1>2, <1>4, <1>8 DEF SamePlace
  <2>2. Owes(s, d)' <=> Owes(s, d)
    BY <1>1, <1>4, <1>8 DEF Owes
  <2>3. FromHere(s, d)' = FromHere(s, d)
    BY <1>1, <2>1, <2>2, HereStays DEF SamePlace
  <2> QED
    BY <1>8, <2>1, <2>3, LinkStays
<1> QED
  BY <1>6, <1>7, <1>8

LEMMA FinishLeaves ==
  ASSUME IInv, HereInv, HereInv', NEW m \in Member, Finish(m)
  PROVE  Exchange!Leave(m)
<1>0. TypeInv /\ LoopInv /\ StepInv /\ CountInv
  BY DEF IInv
<1>1. /\ pc[m] = "poll" /\ UNCHANGED <<posted, total>>
      /\ pc' = [pc EXCEPT ![m] = "idle"] /\ tag' = [tag EXCEPT ![m] = @ + 2]
      /\ tag \in [Member -> Nat] /\ pc \in [Member -> {"idle", "counts", "poll", "destroyed"}]
  BY <1>0 DEF Finish, TypeInv
<1>2. heard[m] = Member /\ Inside(m) /\ ~Inside(m)'
  BY <1>0, <1>1, AllHeard DEF Inside
<1>3. \A r \in Member : r # m => (Inside(r)' <=> Inside(r)) /\ Finished(r)' = Finished(r)
  BY <1>1 DEF Inside, Finished
<1>n. Finished(m) \in Nat /\ Number(tag[m]) = Finished(m) + 1 /\ Entered(m) = Finished(m) + 1
  BY <1>0, <1>2, NumberFacts DEF Entered
<1>4. PICK k \in 0..1 : k = Slot(Entered(m))
  BY <1>n, SlotFacts
<1>5. \A q \in Member : Round[q] >= Round[m]
  <2> SUFFICES ASSUME NEW q \in Member PROVE Entered(q) >= Entered(m)
    BY DEF Round
  <2>1. q \in Got(m)
    BY <1>2 DEF Got
  <2>2. Reached(q, m, tag[m])
    BY <1>0, <2>1, HeardReached
  <2>3. (tag[q] = tag[m] /\ Inside(q)) \/ tag[q] = tag[m] + 2
    BY <1>0, <1>1, <2>2 DEF Reached, StepInv
  <2> QED
    BY <1>0, <1>2, <2>3, NumberFacts DEF Entered
<1>6. total[m] = 0 <=> \A q \in Member : k \notin Carries[q]
  <2>1. total[m] = 0 <=> \A q \in Member : posted[q][k] = 0
    BY <1>2, <1>4, <1>n DEF IInv, TotalInv, TotalInvAt
  <2>2. \A q \in Member : posted[q][k] \in Nat
    BY <1>0, <1>4 DEF TypeInv
  <2> QED
    BY <1>4, <2>1, <2>2 DEF Carries
<1>7. Answer' = [Answer EXCEPT ![m] = IF \A q \in Member : k \notin Carries[q] THEN "empty" ELSE "some"]
  <2>1. \A q \in Member : Answer'[q] = IF q = m THEN IF total[m] = 0 THEN "empty" ELSE "some" ELSE Answer[q]
    BY <1>1, <1>2, <1>3 DEF Answer
  <2> QED
    BY <1>6, <2>1 DEF Answer
<1>8. \A d \in Member, p \in 0..1 : Table'[d][p] = Table[d][p]
  BY FinishLinks, SameCell
<1>9. Table[m][k] = EmptyBag
  <2>1. \A s \in Member : Links(m, k)[s] = EmptyBag
    BY <1>4, FinishLinks DEF Links
  <2> QED
    BY <1>4, <2>1, MergeEmpty, TableFacts DEF TableInv
<1>10. Round' = Round
  <2>1. Finished(m)' = Finished(m) + 1
    <3>1. /\ tag[m] = FirstTag + 2 * Finished(m) /\ FirstTag \in Nat /\ tag'[m] = tag[m] + 2
      BY <1>0, <1>1, ExchangerAssumption DEF LoopInv, LoopInvAt
    <3> QED
      BY <1>n, <3>1 DEF Finished
  <2>2. \A q \in Member : Entered(q)' = Entered(q)
    BY <1>2, <1>3, <2>1 DEF Entered
  <2> QED
    BY <2>2 DEF Round
<1>11. Carries' = Carries /\ Table' = Table /\ Answer[m] = "none"
  BY <1>1, <1>2, <1>8, SameTable DEF Carries, Answer
<1>12. Exchange!Slot(Round[m]) = k
  BY <1>4 DEF Exchange!Slot, Slot, Round
<1> QED
  BY <1>5, <1>7, <1>9, <1>10, <1>11, <1>12, SameEmptyBag
     DEF Exchange!Leave, Exchange!Inside, Answer, Round, Carries, Table

\* A member enters: what it queued for d shows in the exchange it enters, where
\* there was nothing of it before; all else stays.
LEMMA EnterLinks ==
  ASSUME IInv, HereInv, HereInv', NEW m \in Member, NEW x \in ExtraCount[m], EnterExchange(m, x),
         NEW s \in Member, NEW d \in Member, NEW p \in 0..1
  PROVE  /\ s # m \/ p # Slot(Entered(m) + 1) => Link(s, d, p)' = Link(s, d, p)
         /\ s = m /\ p = Slot(Entered(m) + 1) =>
              Link(s, d, p) = EmptyBag /\ Link(s, d, p)' \in {EmptyBag, sendQ[m][d]}
<1>0. TypeInv /\ LoopInv /\ StepInv /\ CountInv
  BY DEF IInv
<1>1. /\ pc[m] = "idle" /\ pc' = [pc EXCEPT ![m] = "counts"]
      /\ UNCHANGED <<tag, sendQ, recvs, heard>>
      /\ tag \in [Member -> Nat] /\ pc \in [Member -> {"idle", "counts", "poll", "destroyed"}]
  BY <1>0 DEF EnterExchange, TypeInv
<1>2. /\ ~Inside(m) /\ Inside(m)' /\ \A r \in Member : r # m => (Inside(r)' <=> Inside(r))
      /\ heard[m] = {} /\ recvs[m] = {}
  BY <1>0, <1>1 DEF Inside, LoopInv, LoopInvAt
<1>3. /\ Finished(m) \in Nat /\ Finished(d) \in Nat /\ Finished(s) \in Nat
      /\ tag[s] = tag[m] => Finished(s) = Finished(m)
      /\ tag[d] = tag[m] => Finished(d) = Finished(m)
      /\ tag[m] = tag[d] + 2 => Finished(m) = Finished(d) + 1
      /\ tag[d] = tag[m] + 2 => Finished(d) = Finished(m) + 1
  BY <1>0, NumberFacts
<1>4. /\ Entered(m) = Finished(m) /\ Entered(m)' = Finished(m) + 1
      /\ s # m => Entered(s)' = Entered(s)
      /\ d # m => Entered(d)' = Entered(d)
  BY <1>1, <1>2 DEF Entered, Finished
<1>5. tag[s] <= tag[m] /\ tag[d] <= tag[m]
  BY <1>0, <1>1, <1>2 DEF StepInv
<1>6. CASE d = m
  <2>1. FromHere(s, m) = EmptyBag
    BY <1>2 DEF HereInv, Owes
  <2>2. FromNext(s, m)' = EmptyBag
    <3>1. Entered(s)' # Finished(m) + 2
      <4>1. CASE s = m
        BY <1>3, <1>4, <4>1
      <4>2. CASE s # m
        <5>1. Finished(s) <= Finished(m)
          BY <1>0, <1>1, <1>5, ExchangerAssumption DEF LoopInv, LoopInvAt
        <5> QED
          BY <1>3, <1>4, <4>2, <5>1 DEF Entered
      <4> QED
        BY <4>1, <4>2
    <3> QED
      BY <1>3, <1>4, <3>1 DEF FromNext
  <2>3. FromHere(s, m)' = IF Inside(s)' /\ tag[s] = tag[m] THEN sendQ[s][m] ELSE EmptyBag
    BY <1>1, <1>2 DEF HereInv, Owes
  <2>4. s # m => (Inside(s) /\ Entered(s) = Entered(m) + 1 <=> Inside(s)' /\ tag[s] = tag[m])
    <3> SUFFICES ASSUME s # m, Inside(s) PROVE Finished(s) = Finished(m) <=> tag[s] = tag[m]
      BY <1>2, <1>3, <1>4 DEF Entered
    <3>1. Finished(s) = Finished(m) => tag[s] = tag[m]
      BY <1>0 DEF LoopInv, LoopInvAt
    <3> QED
      BY <1>3, <3>1
  <2>5. s # m => FromHere(s, m)' = FromNext(s, m)
    BY <2>3, <2>4 DEF FromNext
  <2>6. FromNext(m, m) = EmptyBag
    BY <1>2 DEF FromNext
  <2>7. Slot(Entered(m)) \in 0..1 /\ Slot(Entered(m) + 1) \in 0..1 /\ Slot(Entered(m) + 1) # Slot(Entered(m))
    BY <1>3, <1>4, SlotFacts
  <2>8. CASE p = Slot(Entered(m) + 1)
    <3>1. Link(s, m, p) = FromNext(s, m)
      BY <2>7, <2>8 DEF Link
    <3>2. Link(s, m, p)' = FromHere(s, m)'
      BY <1>4, <2>8 DEF Link
    <3> QED
      BY <1>6, <2>3, <2>5, <2>6, <2>8, <3>1, <3>2
  <2>9. CASE p # Slot(Entered(m) + 1)
    <3>1. Link(s, m, p) = FromHere(s, m)
      BY <2>7, <2>9 DEF Link
    <3>2. Link(s, m, p)' = FromNext(s, m)'
      BY <1>4, <2>9 DEF Link
    <3> QED
      BY <1>6, <2>1, <2>2, <2>9, <3>1, <3>2
  <2> QED
    BY <2>8, <2>9
<1>7. CASE d # m /\ s = m
  <2>1. FromNext(m, d) = EmptyBag /\ ~Owes(m, d)
    BY <1>2 DEF FromNext, Owes
  <2>2. /\ Slot(Entered(m) + 1) \in 0..1 /\ Slot(Entered(d)) \in 0..1
        /\ Slot(Entered(d) + 1) # Slot(Entered(d))
    BY <1>3, <1>4, SlotFacts DEF Entered
  <2>3. Inside(d)' <=> Inside(d)
    BY <1>2, <1>7
  <2>4. FromNext(m, d)' = IF Entered(m) + 1 = Entered(d) + 1 THEN sendQ[m][d] ELSE EmptyBag
    BY <1>1, <1>2, <1>4, <1>7 DEF FromNext
  <2>5. CASE m \in heard[d]
    <3>1. Reached(m, d, tag[d])
      BY <1>0, <2>5, HeardReached DEF Got
    <3>2. tag[m] = tag[d] + 2 /\ Inside(d)
      BY <1>0, <1>1, <1>2, <3>1 DEF Reached, StepInv
    <3>3. Entered(d) = Finished(m) /\ Entered(d)' = Finished(m)
      BY <1>3, <1>4, <1>7, <3>2 DEF Entered
    <3>4. ~Owes(m, d)'
      BY <1>1, <3>2 DEF Owes
    <3>5. FromHere(m, d)' = FromHere(m, d)
      BY <1>1, <2>1, <3>4 DEF HereInv
    <3>6. CASE p = Slot(Entered(d))
      <4>1. p # Slot(Entered(m) + 1)
        BY <1>4, <2>2, <3>3, <3>6
      <4> QED
        BY <1>4, <1>7, <3>5, <3>6, <4>1 DEF Link
    <3>7. CASE p # Slot(Entered(d))
      <4>1. p = Slot(Entered(m) + 1)
        BY <1>4, <2>2, <3>3, <3>7
      <4> QED
        BY <1>4, <1>7, <2>1, <2>4, <3>7, <4>1 DEF Link
    <3> QED
      BY <3>6, <3>7
  <2>6. CASE m \notin heard[d]
    <3>1. \A q \in recvs[d] : q.src # m
      BY <2>6 DEF IInv, RecvInv, RecvInvAt
    <3>2. FromHere(m, d) = EmptyBag
      BY <2>1, <3>1 DEF HereInv
    <3>3. Owes(m, d)' <=> Inside(d) /\ tag[m] = tag[d]
      BY <1>1, <1>2, <2>3, <2>6 DEF Owes
    <3>4. FromHere(m, d)' = IF Inside(d) /\ tag[m] = tag[d] THEN sendQ[m][d] ELSE EmptyBag
      BY <1>1, <3>1, <3>3 DEF HereInv
    <3>5. CASE p = Slot(Entered(d))
      <4>1. Inside(d) /\ tag[m] = tag[d] => Entered(d) = Entered(m) + 1
        BY <1>3, <1>4 DEF Entered
      <4>2. Link(m, d, p) = EmptyBag /\ Link(m, d, p)' = FromHere(m, d)'
        BY <1>4, <1>7, <3>2, <3>5 DEF Link
      <4> QED
        BY <1>7, <3>4, <3>5, <4>1, <4>2
    <3>6. CASE p # Slot(Entered(d))
      <4>1. Entered(m) + 1 = Entered(d) + 1 => p = Slot(Entered(m) + 1)
        <5>1. Slot(Entered(d) + 1) \in 0..1
          BY <1>3, SlotFacts DEF Entered
        <5> QED
          BY <2>2, <3>6, <5>1
      <4>2. Link(m, d, p) = EmptyBag /\ Link(m, d, p)' = FromNext(m, d)'
        BY <1>4, <1>7, <2>1, <3>6 DEF Link
      <4> QED
        BY <1>7, <2>4, <4>1, <4>2
    <3> QED
      BY <3>5, <3>6
  <2> QED
    BY <2>5, <2>6
<1>8. CASE d # m /\ s # m
  <2>1. SamePlace(s, d)
    BY <1>1, <1>2, <1>8 DEF SamePlace
  <2>2. Owes(s, d)' <=> Owes(s, d)
    BY <1>1, <2>1 DEF Owes, SamePlace
  <2>3. FromHere(s, d)' = FromHere(s, d)
    BY <1>1, <2>1, <2>2, HereStays DEF SamePlace
  <2> QED
    BY <1>8, <2>1, <2>3, LinkStays
<1> QED
  BY <1>6, <1>7, <1>8

LEMMA EnterEnters ==
  ASSUME IInv, HereInv, HereInv', NEW m \in Member, NEW x \in ExtraCount[m],
         EnterExchange(m, x)
  PROVE  Exchange!Enter(m)
<1>0. TypeInv /\ LoopInv /\ StepInv
  BY DEF IInv
<1>1. /\ pc[m] = "idle" /\ pc' = [pc EXCEPT ![m] = "counts"] /\ UNCHANGED <<tag, sendQ>>
      /\ total' = [total EXCEPT ![m] = 0]
      /\ posted' = [posted EXCEPT ![m][Slot(Finished(m) + 1)] = counted[m] + x]
      /\ pc \in [Member -> {"idle", "counts", "poll", "destroyed"}]
      /\ posted \in [Member -> [0..1 -> Nat]] /\ total \in [Member -> Nat]
      /\ counted[m] \in Nat /\ x \in Nat
  BY <1>0, ExchangerAssumption DEF EnterExchange, TypeInv
<1>2. ~Inside(m) /\ Inside(m)' /\ \A r \in Member : r # m => (Inside(r)' <=> Inside(r))
  BY <1>1 DEF Inside
<1>3. Finished(m) \in Nat /\ Entered(m) = Finished(m)
  BY <1>0, <1>2, NumberFacts DEF Entered
<1>4. PICK k \in 0..1 : k = Slot(Entered(m) + 1)
  BY <1>3, SlotFacts
<1>5. Answer' = [Answer EXCEPT ![m] = "none"] /\ Answer[m] # "none"
  <2>1. \A r \in Member : Answer'[r] = IF r = m THEN "none" ELSE Answer[r]
    BY <1>1, <1>2 DEF Answer
  <2> QED
    BY <1>2, <2>1 DEF Answer
<1>6. Round' = [Round EXCEPT ![m] = @ + 1]
  <2>1. \A r \in Member : Entered(r)' = IF r = m THEN Entered(m) + 1 ELSE Entered(r)
    BY <1>1, <1>2 DEF Entered, Finished
  <2> QED
    BY <2>1 DEF Round
<1>7. Carries' = [Carries EXCEPT ![m] = IF counted[m] + x > 0 THEN @ \cup {k} ELSE @ \ {k}]
  <2>1. /\ \A r \in Member : r # m => posted'[r] = posted[r]
        /\ \A p \in 0..1 : posted'[m][p] = IF p = k THEN counted[m] + x ELSE posted[m][p]
    BY <1>1, <1>3, <1>4
  <2>2. \A r \in Member : r # m => Carries'[r] = Carries[r]
    BY <2>1 DEF Carries
  <2>3. Carries'[m] = IF counted[m] + x > 0 THEN Carries[m] \cup {k} ELSE Carries[m] \ {k}
    BY <1>4, <2>1 DEF Carries
  <2>4. Carries' = [r \in Member |-> Carries'[r]] /\ Carries = [r \in Member |-> Carries[r]]
    BY DEF Carries
  <2> QED
    BY <2>2, <2>3, <2>4
<1>8. ASSUME NEW d \in Member, NEW p \in 0..1, p # k PROVE Table'[d][p] = Table[d][p]
  BY <1>4, <1>8, EnterLinks, SameCell
<1>9. ASSUME NEW d \in Member
      PROVE  Table[d][k] \sqsubseteq Table'[d][k]
  <2> DEFINE from == Links(d, k)
             to == Links(d, k)'
  <2>1. \A s \in Member : from[s] = Link(s, d, k) /\ to[s] = Link(s, d, k)'
    BY DEF Links
  <2>2. \A s \in Member : MsgBag(Link(s, d, k))
    BY <1>0, LinkBag
  <2>3. \A s \in Member : MsgBag(Link(s, d, k)')
    <3>1. MsgBag(sendQ[m][d]) /\ MsgBag(EmptyBag)
      BY <1>0, EmptyQueue DEF TypeInv, QueueType
    <3> QED
      BY <1>4, <2>2, <3>1, EnterLinks
  <2>4. \A s \in Member : Link(s, d, k) = Link(s, d, k)' \/ Link(s, d, k) = EmptyBag
    BY <1>4, EnterLinks
  <2>5. Table[d][k] = Merge(from) /\ Table'[d][k] = Merge(to)
    BY TableFacts, TableNext DEF TableInv
  <2> HIDE DEF from, to
  <2>6. \A s \in Member : MsgBag(to[s]) /\ (from[s] = to[s] \/ from[s] = EmptyBag)
    BY <2>1, <2>3, <2>4
  <2> QED
    BY <2>5, <2>6, MergeGrows
<1>10. ~(counted[m] + x > 0) => Table' = Table
  <2>0. ~(counted[m] + x > 0) => counted[m] = 0
    <3>1. \A a, b \in Nat : ~(a + b > 0) => a = 0
      OBVIOUS
    <3> QED
      BY <1>1, <3>1
  <2> SUFFICES ASSUME counted[m] = 0, NEW d \in Member, NEW p \in 0..1
               PROVE  Table'[d][p] = Table[d][p]
    BY <2>0, SameTable
  <2>1. sendQ[m][d] = EmptyBag
    BY <1>0 DEF LoopInv, LoopInvAt
  <2>2. \A s \in Member : Link(s, d, p)' = Link(s, d, p)
    BY <2>1, EnterLinks
  <2> QED
    BY <2>2, SameCell
<1>11. \/ Carries' = [Carries EXCEPT ![m] = @ \cup {k}]
       \/ Carries' = [Carries EXCEPT ![m] = @ \ {k}] /\ Table' = Table
  BY <1>7, <1>10
<1>12. \A d \in Member : Table[d][k] \sqsubseteq Table'[d][k] /\ Table'[d][1 - k] = Table[d][1 - k]
  <2>1. 1 - k \in 0..1 /\ 1 - k # k
    BY <1>4
  <2> QED
    BY <1>8, <1>9, <2>1
<1>13. Exchange!Slot(Round[m] + 1) = k
  BY <1>4 DEF Exchange!Slot, Slot, Round
<1> QED
  BY <1>5, <1>6, <1>11, <1>12, <1>13 DEF Exchange!Enter, Exchange!Inside, Answer, Round, Carries,
     Table, Exchange!\sqsubseteq, \sqsubseteq

-----------------------------------------------------------------------------
(* The contract.                                                           *)

LEMMA InitContract ==
  ASSUME Init
  PROVE  Exchange!Init
<1>1. /\ \A m \in Member : /\ ~Inside(m) /\ total[m] = 0 /\ Entered(m) = 0 /\ recvs[m] = {}
                           /\ \A p \in 0..1 : posted[m][p] = 0
  BY ExchangerAssumption DEF Init, Inside, Entered, Finished
<1>2. HereInv
  BY InitInv, HereFacts DEF IInv
<1>3. Answer = [m \in Member |-> "empty"] /\ Round = [m \in Member |-> 0] /\ Carries = [m \in Member |-> {}]
  BY <1>1 DEF Answer, Round, Carries
<1>4. \A s, d \in Member, p \in 0..1 : Link(s, d, p) = EmptyBag
  <2>1. \A s, d \in Member : FromHere(s, d) = EmptyBag /\ FromNext(s, d) = EmptyBag
    BY <1>1, <1>2 DEF HereInv, Owes, FromNext
  <2> QED
    BY <2>1 DEF Link
<1>5. ASSUME NEW d \in Member, NEW p \in 0..1 PROVE Table[d][p] = EmptyBag
  <2>1. \A s \in Member : Links(d, p)[s] = EmptyBag
    BY <1>4 DEF Links
  <2> QED
    BY <2>1, MergeEmpty, TableFacts DEF TableInv
<1>6. Table = [d \in Member |-> [p \in 0..1 |-> EmptyBag]]
  BY <1>5, TableFacts DEF TableInv
<1> QED
  BY <1>3, <1>6, SameEmptyBag DEF Exchange!Init, Answer, Round, Carries, Table

LEMMA StepContract ==
  ASSUME IInv, HereInv, HereInv', [Next]_vars
  PROVE  [Exchange!Next]_<<Answer, Round, Carries, Table>>
<1>0. TypeInv
  BY DEF IInv
<1>1. CASE UNCHANGED vars
  BY <1>1 DEF vars, Answer, Round, Carries, Table, Inside, Entered, Finished, FromHere, FromNext,
              Received, Owes
<1>2. ASSUME NEW m \in Member, Step(m)
      PROVE  [Exchange!Next]_<<Answer, Round, Carries, Table>>
  <2>1. CASE \/ \E d \in Member, msg \in Message : QueueMessage(m, d, msg)
             \/ Destroy(m) \/ SendCount(m) \/ AllCountsSent(m) \/ MatchCount(m)
    BY <1>0, <2>1, CountsAreSilent
  <2>2. CASE TestCount(m) \/ MatchData(m)
    BY <2>2, TestCountIsSilent, MatchDataIsSilent
  <2>3. CASE \E x \in ExtraCount[m] : EnterExchange(m, x)
    BY <1>0, <2>3, EnterEnters DEF Exchange!Next
  <2>4. CASE TestData(m)
    BY <2>4, TestDataReceives DEF Exchange!Next
  <2>5. CASE Finish(m)
    BY <2>5, FinishLeaves DEF Exchange!Next
  <2> QED
    BY <1>2, <2>1, <2>2, <2>3, <2>4, <2>5 DEF Step
<1> QED
  BY <1>1, <1>2 DEF Next, Done

\* Counts and data over point-to-point messages make a collective exchange:
\* every message is handled in the exchange it was queued for, nobody returns
\* before everybody has called, and zero is returned only if nobody announced
\* anything.
THEOREM ExchangerKeepsContract == Spec => ImplementsExchange
<1>1. IInv /\ IInv' /\ [Next]_vars => [Exchange!Next]_<<Answer, Round, Carries, Table>>
  <2>1. RecvInv /\ RecvInv' => HereInv /\ HereInv'
    BY HereFacts, HereNext
  <2> QED
    BY <2>1, StepContract DEF IInv
<1> QED
  BY <1>1, InitContract, Invariance, PTL
     DEF Spec, ImplementsExchange, Exchange!Spec, Exchange!vars, Answer, Round, Carries, Table

=============================================================================
