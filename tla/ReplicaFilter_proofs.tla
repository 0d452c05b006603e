------------------------ MODULE ReplicaFilter_proofs ------------------------
(***************************************************************************)
(* A replica of a hub drops every visitor that is no better than the best  *)
(* it has seen (queue_visitor asks pre_visit first).  For a program in     *)
(* which every vertex keeps the least value it hears of, that is sound:    *)
(* what put a replica ahead of its controller is still on its way from     *)
(* that very rank, in its buffer or in a message of an exchange.           *)
(***************************************************************************)
EXTENDS VisitorQueue_proofs

CONSTANTS
  Held(_, _),  \* (data, vertex): the value of a rank's copy
  Carried(_),  \* (visitor): the value it brings
  Passes       \* the vertices that take part

\* The value of the copy on r.
H(r, u) == Held(data[r], u)

\* pre_visit passes what is less, and lowers the copy; a visit at most makes its
\* copy hold what it carries.
Filters ==
  /\ \A a \in AlgData, u \in Vertex : Held(a, u) \in Nat
  /\ \A v \in Visitor : Carried(v) \in Nat
  /\ \A r \in Rank, a \in AlgData, v \in Visitor : \A out \in PreVisit(r, a, v) :
       /\ out.ret <=> v.vertex \in Passes /\ Carried(v) < Held(a, v.vertex)
       /\ \A u \in Vertex :
            Held(out.data, u) = IF out.ret /\ u = v.vertex THEN Carried(v) ELSE Held(a, u)
  /\ \A r \in Rank, a \in AlgData, v \in Visitor :
       \A out \in Visit(r, a, v) \cup InitVisit(r, a, v) : \A u \in Vertex :
         \/ Held(out.data, u) = Held(a, u)
         \/ u = v.vertex /\ Held(out.data, u) = Carried(v) /\ Carried(v) <= Held(a, u)

\* What waits for a visit has not been overtaken on its master.
Levelled ==
  \A x \in Items :
    LET u == x.visitor.vertex
        c == Carried(x.visitor)
    IN  /\ x.step \in {"start", "visit"} => x.rank = Master[u] /\ H(Master[u], u) <= c
        /\ x.step = "hear" => H(Master[u], u) <= c

\* The visitor is on its way from r to the master of h.
Underway(r, h, v) ==
  \/ v \in BagToSet(box[r][Master[h]])
  \/ \E p \in 0..1 : v \in BagToSet(wire[Master[h]][p])

\* It is a plain visitor of h and brings the value c.
Brings(v, h, c) == v \in Visitor /\ v.vertex = h /\ ~v.bcast /\ Carried(v) = c

Explained(r, h) ==
  h \in Passes /\ \E v : Underway(r, h, v) /\ Brings(v, h, H(r, h))

FilterInv ==
  \A h \in Delegate, r \in Rank : H(r, h) < H(Master[h], h) => Explained(r, h)

-----------------------------------------------------------------------------
(* What keeps the invariant.                                               *)

\* Values are numbers.
LEMMA HeldType ==
  ASSUME Filters, TypeOK
  PROVE  \A r \in Rank, u \in Vertex : H(r, u) \in Nat
BY DEF Filters, TypeOK, H

LEMMA HeldTypeNext ==
  ASSUME Filters, TypeOK'
  PROVE  \A r \in Rank, u \in Vertex : H(r, u)' \in Nat
BY DEF Filters, TypeOK, H

\* One rank's data has changed.
LEMMA HeldNext ==
  ASSUME TypeOK, NEW r \in Rank, NEW a, data' = [data EXCEPT ![r] = a]
  PROVE  \A q \in Rank : \A u : H(q, u)' = IF q = r THEN Held(a, u) ELSE H(q, u)
<1>1. \A q \in Rank : data'[q] = IF q = r THEN a ELSE data[q]
  BY DEF TypeOK
<1> QED
  BY <1>1 DEF H

\* Masters do not rise; a replica that has changed is not ahead or explained;
\* and a visitor that is not under way any more has lowered its master.
KeepsFilter ==
  \A h \in Delegate :
    /\ H(Master[h], h)' <= H(Master[h], h)
    /\ \A q \in Rank :
         \/ H(q, h)' = H(q, h)
         \/ q = Master[h]
         \/ H(Master[h], h)' <= H(q, h)'
         \/ h \in Passes /\ \E v : Underway(q, h, v)' /\ Brings(v, h, H(q, h)')
    /\ \A q \in Rank : \A v :
         Underway(q, h, v) /\ v \in Visitor /\ v.vertex = h /\ ~v.bcast /\ h \in Passes =>
           Underway(q, h, v)' \/ H(Master[h], h)' <= Carried(v)

LEMMA FilterKept ==
  ASSUME Filters, TypeOK, TypeOK', FilterInv, KeepsFilter
  PROVE  FilterInv'
<1> SUFFICES ASSUME NEW h \in Delegate, NEW q \in Rank, H(q, h)' < H(Master[h], h)'
             PROVE  Explained(q, h)'
  BY DEF FilterInv
<1> DEFINE m == Master[h]
<1>1. h \in Vertex /\ m \in Rank
  BY TopologyAssumption
<1>2. /\ H(q, h) \in Nat /\ H(m, h) \in Nat
      /\ H(q, h)' \in Nat /\ H(m, h)' \in Nat
  BY <1>1, HeldType, HeldTypeNext
<1>3. CASE h \in Passes /\ \E v : Underway(q, h, v)' /\ Brings(v, h, H(q, h)')
  BY <1>3 DEF Explained, Brings
<1>4. CASE ~(h \in Passes /\ \E v : Underway(q, h, v)' /\ Brings(v, h, H(q, h)'))
  <2>1. H(q, h)' = H(q, h)
    BY <1>2, <1>4 DEF KeepsFilter
  <2>2. H(q, h) < H(m, h)
    BY <1>2, <2>1 DEF KeepsFilter
  <2>3. Explained(q, h)
    BY <2>2 DEF FilterInv
  <2>4. PICK v : Underway(q, h, v) /\ Brings(v, h, H(q, h))
    BY <2>3 DEF Explained
  <2>5. h \in Passes /\ v \in Visitor /\ v.vertex = h /\ ~v.bcast /\ Carried(v) = H(q, h)
    BY <2>3, <2>4 DEF Explained, Brings
  <2>6. Underway(q, h, v)' \/ H(m, h)' <= Carried(v)
    BY <2>4, <2>5 DEF KeepsFilter
  <2>7. Underway(q, h, v)'
    BY <1>2, <2>1, <2>5, <2>6
  <2>8. Brings(v, h, H(q, h)')
    BY <2>1, <2>5 DEF Brings
  <2> QED
    BY <1>4, <2>5, <2>7, <2>8
<1> QED
  BY <1>3, <1>4

\* Buffers and messages that do not change.
LEMMA SameWay ==
  ASSUME UNCHANGED <<box, wire>>
  PROVE  \A h, q, v : Underway(q, h, v)' <=> Underway(q, h, v)
BY DEF Underway

\* A visit.
LEMMA VisitKeepsFilter ==
  ASSUME Filters, TypeOK, Levelled, UNCHANGED <<box, wire>>,
         NEW r \in Rank, NEW step \in {"start", "visit", "hear"}, NEW v \in Visitor, Waits(r, step, v),
         NEW out \in Visit(r, data[r], v) \cup InitVisit(r, data[r], v),
         data' = [data EXCEPT ![r] = out.data]
  PROVE  KeepsFilter
<1> DEFINE w == [rank |-> r, step |-> step, visitor |-> v]
           u == v.vertex
<1>1. w \in Items /\ w.rank = r /\ w.step = step /\ w.visitor = v
  BY DEF Items
<1>2. u \in Vertex /\ Master[u] \in Rank /\ data[r] \in AlgData /\ Carried(v) \in Nat
  BY TopologyAssumption DEF Visitor, TypeOK, Filters
<1>3. H(Master[u], u) <= Carried(v) /\ (step # "hear" => r = Master[u])
  BY <1>1 DEF Levelled
<1>4. \A q \in Rank : \A x : H(q, x)' = IF q = r THEN Held(out.data, x) ELSE H(q, x)
  BY HeldNext
<1>5. \A x \in Vertex : \/ H(r, x)' = H(r, x)
                        \/ x = u /\ H(r, x)' = Carried(v) /\ Carried(v) <= H(r, x)
  <2>1. \A x \in Vertex : \/ Held(out.data, x) = Held(data[r], x)
                          \/ x = u /\ Held(out.data, x) = Carried(v) /\ Carried(v) <= Held(data[r], x)
    BY <1>2 DEF Filters
  <2>2. \A x : H(r, x)' = Held(out.data, x)
    BY <1>4
  <2> QED
    BY <2>1, <2>2 DEF H
<1>6. \A q \in Rank, x \in Vertex : H(q, x) \in Nat
  BY HeldType
<1> HIDE DEF w, u
<1>7. \A q \in Rank, x \in Vertex : H(q, x)' # H(q, x) => q = r /\ x = u /\ H(q, x)' = Carried(v)
                                                          /\ Carried(v) <= H(q, x)
  BY <1>4, <1>5
<1>8. H(Master[u], u)' = H(Master[u], u)
  BY <1>2, <1>3, <1>6, <1>7
<1> SUFFICES ASSUME NEW h \in Delegate
             PROVE  /\ H(Master[h], h)' <= H(Master[h], h)
                    /\ \A q \in Rank : H(q, h)' = H(q, h) \/ H(Master[h], h)' <= H(q, h)'
  BY SameWay DEF KeepsFilter
<1>9. h \in Vertex /\ Master[h] \in Rank
  BY TopologyAssumption
<1>10. H(Master[h], h)' = H(Master[h], h)
  BY <1>7, <1>8, <1>9
<1>11. \A q \in Rank : H(q, h)' = H(q, h) \/ H(Master[h], h)' <= H(q, h)'
  BY <1>3, <1>7, <1>8, <1>9
<1> QED
  BY <1>6, <1>9, <1>10, <1>11

\* pre_visit on r, which is the controller or puts what passes into its buffer.
LEMMA AskKeepsFilter ==
  ASSUME Filters, TypeOK, NEW r \in Rank, NEW v \in Visitor,
         NEW out \in PreVisit(r, data[r], v), data' = [data EXCEPT ![r] = out.data],
         \/ r = Master[v.vertex]
         \/ ~v.bcast /\ (out.ret => v \in BagToSet(box'[r][Master[v.vertex]])),
         \A h \in Delegate, q \in Rank : \A x : Underway(q, h, x) =>
           \/ Underway(q, h, x)'
           \/ r = Master[h] /\ x = v
  PROVE  KeepsFilter
<1> DEFINE u == v.vertex
<1>1. u \in Vertex /\ Master[u] \in Rank /\ data[r] \in AlgData /\ Carried(v) \in Nat
  BY TopologyAssumption DEF Visitor, TypeOK, Filters
<1>2. \A q \in Rank, x \in Vertex : H(q, x) \in Nat
  BY HeldType
<1>3. \A q \in Rank : \A x : H(q, x)' = IF q = r THEN Held(out.data, x) ELSE H(q, x)
  BY HeldNext
<1>4. /\ out.ret <=> u \in Passes /\ Carried(v) < H(r, u)
      /\ \A x \in Vertex : Held(out.data, x) = IF out.ret /\ x = u THEN Carried(v) ELSE H(r, x)
  BY <1>1 DEF Filters, H
<1> HIDE DEF u
<1>5. \A q \in Rank, x \in Vertex :
        H(q, x)' = IF out.ret /\ q = r /\ x = u THEN Carried(v) ELSE H(q, x)
  BY <1>3, <1>4
<1> SUFFICES ASSUME NEW h \in Delegate
             PROVE  /\ H(Master[h], h)' <= H(Master[h], h)
                    /\ \A q \in Rank :
                         \/ H(q, h)' = H(q, h)
                         \/ q = Master[h]
                         \/ h \in Passes /\ \E x : Underway(q, h, x)' /\ Brings(x, h, H(q, h)')
                    /\ \A q \in Rank : \A x :
                         Underway(q, h, x) /\ x \in Visitor /\ x.vertex = h /\ ~x.bcast /\ h \in Passes =>
                           Underway(q, h, x)' \/ H(Master[h], h)' <= Carried(x)
  BY DEF KeepsFilter
<1>6. h \in Vertex /\ Master[h] \in Rank
  BY TopologyAssumption
<1>7. H(Master[h], h)' <= H(Master[h], h)
  BY <1>1, <1>2, <1>4, <1>5, <1>6
<1>8. ASSUME NEW q \in Rank, H(q, h)' # H(q, h), q # Master[h]
      PROVE  h \in Passes /\ \E x : Underway(q, h, x)' /\ Brings(x, h, H(q, h)')
  <2>1. out.ret /\ q = r /\ h = u /\ H(q, h)' = Carried(v)
    BY <1>5, <1>6, <1>8
  <2>2. ~v.bcast /\ v \in BagToSet(box'[r][Master[h]])
    BY <1>8, <2>1 DEF u
  <2>3. Underway(q, h, v)'
    BY <2>1, <2>2 DEF Underway
  <2>4. Brings(v, h, H(q, h)')
    BY <2>1, <2>2 DEF Brings, u
  <2> QED
    BY <1>4, <2>1, <2>3, <2>4
<1>9. ASSUME NEW q \in Rank, NEW x, Underway(q, h, x), x \in Visitor, x.vertex = h, h \in Passes,
             ~Underway(q, h, x)'
      PROVE  H(Master[h], h)' <= Carried(x)
  <2>1. r = Master[h] /\ x = v /\ h = u
    BY <1>9 DEF u
  <2> QED
    BY <1>1, <1>2, <1>4, <1>5, <1>6, <1>9, <2>1
<1> QED
  BY <1>7, <1>8, <1>9

\* Buffers that only grow.
LEMMA GrowingWay ==
  ASSUME wire' = wire,
         \A s, d \in Rank : BagToSet(box[s][d]) \subseteq BagToSet(box'[s][d])
  PROVE  \A h \in Delegate, q \in Rank : \A x : Underway(q, h, x) => Underway(q, h, x)'
<1> SUFFICES ASSUME NEW h \in Delegate, NEW q \in Rank, NEW x, Underway(q, h, x)
             PROVE  Underway(q, h, x)'
  OBVIOUS
<1>1. Master[h] \in Rank
  BY TopologyAssumption
<1> QED
  BY <1>1 DEF Underway

LEMMA QueueVisitorKeepsFilter ==
  ASSUME Filters, TypeOK, CallsArePlain, NEW r \in Rank, QueueVisitor(r)
  PROVE  KeepsFilter
<1>0. PICK v : v = Head(todo[r]).visitor
  OBVIOUS
<1> DEFINE m == Master[v.vertex]
<1>1. todo[r] # << >> /\ Head(todo[r]).op = "queue_visitor" /\ wire' = wire
  BY DEF QueueVisitor, Performing
<1>2. Head(todo[r]) \in Op /\ v \in Calling(r)
  BY <1>0, <1>1, PlacesType, ThoseOfTail DEF Calling
<1>3. v \in Visitor /\ m \in Rank /\ ~v.bcast
  BY <1>0, <1>2, TopologyAssumption DEF Op, Visitor, CallsArePlain
<1>4. ASSUME NEW d \in Rank, Send(r, d, v)
      PROVE  /\ \A s, c \in Rank : BagToSet(box[s][c]) \subseteq BagToSet(box'[s][c])
             /\ v \in BagToSet(box'[r][d])
  <2>1. \A s, q \in Rank : box'[s][q] = IF s = r /\ q = d THEN Add(box[r][d], v) ELSE box[s][q]
    BY <1>4 DEF Send, TypeOK
  <2>2. BagToSet(Add(box[r][d], v)) = BagToSet(box[r][d]) \cup {v}
    BY <1>3, PlacesType, AddElements
  <2> QED
    BY <2>1, <2>2
<1>5. CASE v.vertex \in Delegate \/ m = r
  <2>1. QueueHere(r, v)
    BY <1>0, <1>5 DEF QueueVisitor
  <2> HIDE DEF m
  <2>2. PICK out \in PreVisit(r, data[r], v) :
          /\ data' = [data EXCEPT ![r] = out.data]
          /\ (UNCHANGED box /\ (out.ret => m = r)) \/ Send(r, m, v)
    BY <2>1 DEF QueueHere, m
  <2>3. \A h \in Delegate, q \in Rank : \A x : Underway(q, h, x) => Underway(q, h, x)'
    <3>1. \A s, d \in Rank : BagToSet(box[s][d]) \subseteq BagToSet(box'[s][d])
      BY <1>3, <1>4, <2>2
    <3> QED
      BY <1>1, <3>1, GrowingWay
  <2>4. \/ r = Master[v.vertex]
        \/ ~v.bcast /\ (out.ret => v \in BagToSet(box'[r][Master[v.vertex]]))
    BY <1>3, <1>4, <2>2 DEF m
  <2> QED
    BY <1>3, <2>2, <2>3, <2>4, AskKeepsFilter
<1>6. CASE ~(v.vertex \in Delegate \/ m = r)
  <2>1. Send(r, m, v) /\ data' = data
    BY <1>0, <1>6 DEF QueueVisitor
  <2> HIDE DEF m
  <2>2. \A h \in Delegate, q \in Rank : \A x : Underway(q, h, x) => Underway(q, h, x)'
    BY <1>1, <1>3, <1>4, <2>1, GrowingWay
  <2>3. \A q \in Rank : \A u : H(q, u)' = H(q, u)
    BY <2>1 DEF H
  <2>4. \A h \in Delegate : Master[h] \in Rank /\ H(Master[h], h) \in Nat
    BY HeldType, TopologyAssumption
  <2> QED
    BY <2>2, <2>3, <2>4 DEF KeepsFilter
<1> QED
  BY <1>5, <1>6

\* Steps that leave the algorithm data alone and lose no visitor.
LEMMA QuietKeepsFilter ==
  ASSUME Filters, TypeOK, data' = data,
         \A h \in Delegate, q \in Rank : \A x :
           Underway(q, h, x) /\ ~x.bcast => Underway(q, h, x)'
  PROVE  KeepsFilter
<1>1. \A q \in Rank : \A u : H(q, u)' = H(q, u)
  BY DEF H
<1>2. \A h \in Delegate : Master[h] \in Rank /\ H(Master[h], h) \in Nat
  BY HeldType, TopologyAssumption
<1> QED
  BY <1>1, <1>2 DEF KeepsFilter

LEMMA SendBcastKeepsFilter ==
  ASSUME Filters, TypeOK, NEW r \in Rank, SendBcast(r)
  PROVE  KeepsFilter
<1>0. PICK v : v = Head(todo[r]).visitor
  OBVIOUS
<1>1. /\ todo[r] # << >> /\ wire' = wire /\ data' = data
      /\ box' = [box EXCEPT ![r] = [d \in Rank |-> IF d = r THEN box[r][d] ELSE Add(box[r][d], v)]]
  BY <1>0 DEF SendBcast, Performing
<1>2. v \in Visitor
  <2>1. Head(todo[r]) \in Op
    BY <1>1, PlacesType, ThoseOfTail
  <2> QED
    BY <1>0, <2>1 DEF Op
<1>3. \A s, d \in Rank : box'[s][d] = IF s = r /\ d # r THEN Add(box[r][d], v) ELSE box[s][d]
  BY <1>1 DEF TypeOK
<1>4. \A d \in Rank : BagToSet(Add(box[r][d], v)) = BagToSet(box[r][d]) \cup {v}
  BY <1>2, PlacesType, AddElements
<1>5. \A s, d \in Rank : BagToSet(box[s][d]) \subseteq BagToSet(box'[s][d])
  BY <1>3, <1>4
<1> QED
  BY <1>1, <1>5, GrowingWay, QuietKeepsFilter

LEMMA EnterKeepsFilter ==
  ASSUME Filters, TypeOK, NEW r \in Rank, NEW why \in {"batch", "global_empty", "wait_empty"},
         EnterExchange(r, why)
  PROVE  KeepsFilter
<1>1. /\ \A q \in Rank \ {r} : box'[q] = box[q]
      /\ \A d \in Rank, p \in 0..1 :
           wire'[d][p] = IF p = Slot(round[r] + 1) THEN wire[d][p] (+) box[r][d] ELSE wire[d][p]
  BY EnterEffects
<1>2. data' = data
  BY DEF EnterExchange, local
<1>3. Slot(round[r] + 1) \in 0..1
  BY DEF TypeOK, Slot
<1>4. ASSUME NEW h \in Delegate, NEW q \in Rank, NEW x, Underway(q, h, x)
      PROVE  Underway(q, h, x)'
  <2> DEFINE m == Master[h]
  <2>1. m \in Rank
    BY TopologyAssumption
  <2> HIDE DEF m
  <2>2. \A p \in 0..1 : x \in BagToSet(wire'[m][p]) <=>
          x \in BagToSet(wire[m][p]) \/ (p = Slot(round[r] + 1) /\ x \in BagToSet(box[r][m]))
    BY <1>1, <2>1, PlacesType, SumElements
  <2>3. x \in BagToSet(box[q][m]) => x \in BagToSet(box'[q][m]) \/ \E p \in 0..1 : x \in BagToSet(wire'[m][p])
    BY <1>1, <1>3, <2>2
  <2>4. \A p \in 0..1 : x \in BagToSet(wire[m][p]) => x \in BagToSet(wire'[m][p])
    BY <2>2
  <2>5. x \in BagToSet(box[q][m]) \/ \E p \in 0..1 : x \in BagToSet(wire[m][p])
    BY <1>4 DEF Underway, m
  <2>6. x \in BagToSet(box'[q][m]) \/ \E p \in 0..1 : x \in BagToSet(wire'[m][p])
    BY <2>3, <2>4, <2>5
  <2> QED
    BY <2>6 DEF Underway, m
<1> QED
  BY <1>2, <1>4, QuietKeepsFilter

LEMMA DeliverKeepsFilter ==
  ASSUME Filters, TypeOK, SentToMaster, NEW r \in Rank, Deliver(r)
  PROVE  KeepsFilter
<1> DEFINE k == Slot(round[r])
<1>1. PICK v \in BagToSet(wire[r][k]) :
        /\ wire' = [wire EXCEPT ![r][k] = Remove(wire[r][k], v)]
        /\ HandleMailboxReceive(r, v)
  BY DEF Deliver
<1>2. box' = box
  BY DEF Deliver
<1>3. k \in 0..1
  BY DEF TypeOK, Slot
<1> HIDE DEF k
<1>4. VisitorBag(wire[r][k]) /\ v \in Visitor
  BY <1>3, PlacesType DEF VisitorBag
<1>5. \A d \in Rank, p \in 0..1 :
        wire'[d][p] = IF d = r /\ p = k THEN Remove(wire[r][k], v) ELSE wire[d][p]
  BY <1>1, <1>3 DEF TypeOK
<1>6. BagToSet(wire[r][k]) \subseteq BagToSet(Remove(wire[r][k], v)) \cup {v}
  BY <1>4, RemoveKeeps
<1>7. ASSUME NEW h \in Delegate, NEW q \in Rank, NEW x, Underway(q, h, x), ~Underway(q, h, x)'
      PROVE  r = Master[h] /\ x = v
  <2> DEFINE m == Master[h]
  <2>1. m \in Rank
    BY TopologyAssumption
  <2> HIDE DEF m
  <2>2. x \in BagToSet(box[q][m]) \/ \E p \in 0..1 : x \in BagToSet(wire[m][p])
    BY <1>7 DEF Underway, m
  <2>3. ~(x \in BagToSet(box'[q][m]) \/ \E p \in 0..1 : x \in BagToSet(wire'[m][p]))
    BY <1>7 DEF Underway, m
  <2>4. PICK p \in 0..1 : x \in BagToSet(wire[m][p]) /\ x \notin BagToSet(wire'[m][p])
    BY <1>2, <2>2, <2>3
  <2> QED
    BY <1>5, <1>6, <2>1, <2>4 DEF m
<1>8. CASE IsBroadcast(v)
  <2>1. data' = data
    BY <1>1, <1>8 DEF HandleMailboxReceive, IsBroadcast
  <2>2. \A h \in Delegate, q \in Rank : \A x : Underway(q, h, x) /\ ~x.bcast => Underway(q, h, x)'
    BY <1>7, <1>8 DEF IsBroadcast
  <2> QED
    BY <2>1, <2>2, QuietKeepsFilter
<1>9. CASE ~IsBroadcast(v)
  <2>1. PICK out \in PreVisit(r, data[r], v) : data' = [data EXCEPT ![r] = out.data]
    BY <1>1, <1>9 DEF HandleMailboxReceive, IsBroadcast
  <2>2. r = Master[v.vertex]
    BY <1>3, <1>9 DEF SentToMaster, IsBroadcast
  <2>3. \A h \in Delegate, q \in Rank : \A x : Underway(q, h, x) =>
          Underway(q, h, x)' \/ (r = Master[h] /\ x = v)
    BY <1>7
  <2> QED
    BY <1>4, <2>1, <2>2, <2>3, AskKeepsFilter
<1> QED
  BY <1>8, <1>9

LEMMA StepKeepsFilter ==
  ASSUME Filters, TypeOK, CallsArePlain, SentToMaster, Levelled, NEW r \in Rank, Step(r)
  PROVE  KeepsFilter
<1>1. ASSUME NEW itr \in Seq(Visitor), NEW next, StartVisit(r, itr, next),
             itr # << >> => Waits(r, "start", Head(itr))
      PROVE  KeepsFilter
  <2>1. UNCHANGED <<box, wire>>
    BY <1>1 DEF StartVisit, mailbox
  <2>2. CASE itr = << >>
    <3>1. data' = data
      BY <1>1, <2>2 DEF StartVisit
    <3> QED
      BY <2>1, <3>1, SameWay, QuietKeepsFilter
  <2>3. CASE itr # << >>
    <3>1. PICK out \in InitVisit(r, data[r], Head(itr)) : data' = [data EXCEPT ![r] = out.data]
      BY <1>1, <2>3 DEF StartVisit
    <3>2. Head(itr) \in Visitor
      BY <2>3
    <3> QED
      BY <1>1, <2>1, <2>3, <3>1, <3>2, VisitKeepsFilter
  <2> QED
    BY <2>2, <2>3
<1>2. CASE StartController(r)
  <2>1. citr[r] \in Seq(Visitor) /\ StartVisit(r, citr[r], "vertices")
    BY <1>2, PlacesType DEF StartController
  <2>2. citr[r] # << >> => Head(citr[r]) \in Starting(r)
    BY <2>1, ListElements DEF Starting
  <2> QED
    BY <1>1, <2>1, <2>2 DEF Waits
<1>3. CASE StartVertex(r)
  <2>1. vitr[r] \in Seq(Visitor) /\ StartVisit(r, vitr[r], "pending")
    BY <1>3, PlacesType DEF StartVertex
  <2>2. vitr[r] # << >> => Head(vitr[r]) \in Starting(r)
    BY <2>1, ListElements DEF Starting
  <2> QED
    BY <1>1, <2>1, <2>2 DEF Waits
<1>4. CASE ProcessPendingController(r)
  <2>1. /\ controllers[r] # << >> /\ controllers[r] \in Seq(Visitor)
        /\ UNCHANGED <<box, wire>>
    BY <1>4, PlacesType DEF ProcessPendingController, mailbox
  <2>2. PICK out \in Visit(r, data[r], Head(controllers[r])) : data' = [data EXCEPT ![r] = out.data]
    BY <1>4 DEF ProcessPendingController
  <2>3. Head(controllers[r]) \in Visitor /\ Head(controllers[r]) \in Hearing(r)
    BY <2>1, ListElements DEF Hearing
  <2>4. Waits(r, "hear", Head(controllers[r]))
    BY <2>3 DEF Waits
  <2> QED
    BY <2>1, <2>2, <2>3, <2>4, VisitKeepsFilter
<1>5. CASE PopAndVisit(r)
  <2>1. PICK v \in BagToSet(owned[r]) :
          \E out \in Visit(r, data[r], v) : data' = [data EXCEPT ![r] = out.data]
    BY <1>5 DEF PopAndVisit
  <2>2. PICK out \in Visit(r, data[r], v) : data' = [data EXCEPT ![r] = out.data]
    BY <2>1
  <2>3. v \in Visitor /\ Waits(r, "visit", v) /\ UNCHANGED <<box, wire>>
    BY <1>5, PlacesType DEF VisitorBag, Waits, Visiting, PopAndVisit, mailbox
  <2> QED
    BY <2>2, <2>3, VisitKeepsFilter
<1>6. CASE EndPending(r) \/ WhileNotEmpty(r) \/ PopOfEmptyQueue(r) \/ NextStart(r) \/ FinishExchange(r)
  <2>1. UNCHANGED <<data, box, wire>>
    BY <1>6 DEF EndPending, WhileNotEmpty, PopOfEmptyQueue, NextStart, FinishExchange, mailbox
  <2> QED
    BY <2>1, SameWay, QuietKeepsFilter
<1>7. CASE BatchFull(r) \/ TestGlobalEmpty(r) \/ DestroyMailbox(r)
  <2>1. PICK why \in {"batch", "global_empty", "wait_empty"} : EnterExchange(r, why)
    BY <1>7 DEF BatchFull, TestGlobalEmpty, DestroyMailbox
  <2> QED
    BY <2>1, EnterKeepsFilter
<1> QED
  BY <1>2, <1>3, <1>4, <1>5, <1>6, <1>7, QueueVisitorKeepsFilter, SendBcastKeepsFilter,
     DeliverKeepsFilter DEF Step

LEMMA NextKeepsFilter ==
  ASSUME Filters, TypeOK, TypeOK', CallsArePlain, SentToMaster, Levelled, FilterInv, [Next]_vars
  PROVE  FilterInv'
<1>1. CASE UNCHANGED vars \/ Done
  <2>1. UNCHANGED <<data, box, wire>>
    BY <1>1 DEF Done, vars
  <2> QED
    BY <2>1, SameWay, QuietKeepsFilter, FilterKept
<1>2. CASE \E r \in Rank : Step(r)
  BY <1>2, StepKeepsFilter, FilterKept
<1> QED
  BY <1>1, <1>2 DEF Next

\* No copy is ahead when the traversal begins.
StartsLevel == \A h \in Delegate, r \in Rank : H(Master[h], h) <= H(r, h)

\* What puts a replica of a hub ahead of its controller is on its way there,
\* from the rank of that replica.
THEOREM ReplicasAreExplained ==
  ASSUME NewVisitorsArePlain, Filters
  PROVE  Spec /\ StartsLevel /\ []Levelled => []FilterInv
<1>1. Init /\ StartsLevel => FilterInv
  <2> SUFFICES ASSUME Init, StartsLevel, NEW h \in Delegate, NEW r \in Rank
               PROVE  ~(H(r, h) < H(Master[h], h))
    BY DEF FilterInv
  <2>1. \A q \in Rank, u \in Vertex : H(q, u) \in Nat
    BY InitType, HeldType
  <2>2. Master[h] \in Rank /\ h \in Vertex
    BY TopologyAssumption
  <2>3. H(r, h) \in Nat /\ H(Master[h], h) \in Nat
    BY <2>1, <2>2
  <2> QED
    BY <2>3 DEF StartsLevel
<1>2. Init => CallsArePlain
  <2> SUFFICES ASSUME Init PROVE CallsArePlain
    OBVIOUS
  <2>1. PICK w \in InitialWork : todo = [r \in Rank |-> Queue(w.source[r])]
    BY DEF Init
  <2>2. \A q \in Rank : w.source[q] \in Seq(Visitor)
    BY InitialWorkAssumption
  <2>3. \A q \in Rank : Calling(q) = Elements(w.source[q])
    BY <2>1, <2>2, ThoseOfQueue DEF Calling
  <2> QED
    BY <2>3 DEF CallsArePlain, NewVisitorsArePlain, Elements
<1>3. TypeOK /\ DestinationInv /\ CallsArePlain /\ [Next]_vars => CallsArePlain'
  BY NextFlows
<1>4. /\ TypeOK /\ TypeOK' /\ DestinationInv /\ CallsArePlain /\ Levelled /\ FilterInv
      /\ [Next]_vars
      => FilterInv'
  BY NextKeepsFilter DEF DestinationInv
<1> QED
  BY <1>1, <1>2, <1>3, <1>4, TypeCorrect, Destinations, PTL DEF Spec
=============================================================================
