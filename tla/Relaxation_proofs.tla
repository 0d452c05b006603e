-------------------------- MODULE Relaxation_proofs --------------------------
(***************************************************************************)
(* Vertex programs in which every vertex keeps the least value it hears of *)
(* and offers its neighbours what follows from it: breadth-first search,   *)
(* shortest paths, connected components.  When their traversal ends, no    *)
(* edge is left that could lower its target, whatever the order of the     *)
(* visitors and wherever the hubs and their edges are.                     *)
(***************************************************************************)
EXTENDS VisitorFlow, Naturals, TLAPS

CONSTANTS
  Vertex,
  Held(_, _),      \* (data, vertex): the value of a rank's copy
  Carried(_),      \* (visitor): the value it brings
  Passes,          \* the vertices that take part
  Targets(_, _),   \* (rank, vertex): targets of the edges kept there
  Offer(_, _, _),  \* (vertex, target, value): what an edge offers its target
  Ceiling(_),      \* (vertex): its master never holds more
  Writes,          \* whether a visit writes the value it carries
  Seeds,           \* calls of queue_visitor made before the traversal
  Sound,           \* visitors that are right to be queued,
  SoundVisit,      \* to be visited,
  SoundData        \* and what they leave behind

\* The value of the copy on r.
H(r, u) == Held(data[r], u)

HoldsCopy(r, u) == u \in Delegate \/ Master[u] = r

\* What the flow is about.
GraphType ==
  /\ Master \in [Vertex -> Rank]
  /\ Delegate \subseteq Vertex /\ Passes \subseteq Vertex
  /\ \A v \in Visitor :
       /\ v.vertex \in Vertex /\ Carried(v) \in Nat
       /\ LET b == [v EXCEPT !.bcast = TRUE]
          IN  b \in Visitor /\ b.vertex = v.vertex /\ Carried(b) = Carried(v)
  /\ \A a \in AlgData, u \in Vertex : Held(a, u) \in Nat
  /\ \A r \in Rank, u \in Vertex : Targets(r, u) \subseteq Passes
  /\ \A u, w \in Vertex, c \in Nat : Offer(u, w, c) \in Nat
  /\ \A u \in Vertex : Ceiling(u) \in Nat

\* A visitor passes pre_visit when it brings a lesser value, and lowers the copy.
PreVisitLowers ==
  \A r \in Rank, a \in AlgData, v \in Visitor : \A out \in PreVisit(r, a, v) :
    /\ out.data \in AlgData
    /\ out.ret <=> v.vertex \in Passes /\ Carried(v) < Held(a, v.vertex)
    /\ \A u \in Vertex :
         Held(out.data, u) = IF out.ret /\ u = v.vertex THEN Carried(v) ELSE Held(a, u)

\* A visit whose value is still the least makes every edge on its rank offer it,
\* unless the target can have no use of it.
VisitOffers ==
  \A r \in Rank, a \in AlgData, v \in Visitor : \A out \in Visit(r, a, v) :
    /\ out.data \in AlgData
    /\ \A i \in DOMAIN out.spawn : out.spawn[i] \in Visitor
    /\ out.ret <=> v.vertex \in Passes /\ Carried(v) <= Held(a, v.vertex)
    /\ \A u \in Vertex :
         Held(out.data, u) = IF out.ret /\ Writes /\ u = v.vertex THEN Carried(v) ELSE Held(a, u)
    /\ out.ret =>
         \A w \in Targets(r, v.vertex) :
           \/ Ceiling(w) <= Offer(v.vertex, w, Carried(v))
           \/ \E i \in DOMAIN out.spawn :
                out.spawn[i].vertex = w /\ Carried(out.spawn[i]) <= Offer(v.vertex, w, Carried(v))

Relaxes ==
  /\ GraphType /\ PreVisitLowers /\ VisitOffers
  /\ \A r \in Rank, a \in AlgData, v \in Visitor : InitVisit(r, a, v) \subseteq Visit(r, a, v)

\* Every vertex has a start visitor with its value, or a value that no edge can
\* pass on.
Starts ==
  /\ Init
  /\ Seeds \subseteq items /\ \A x \in Seeds : x.step = "call" /\ x.visitor.vertex \in Passes
  /\ \A x \in items : x.step = "start" =>
       LET u == x.visitor.vertex
       IN  x.rank = Master[u] /\ H(x.rank, u) <= Carried(x.visitor)
  /\ \A u \in Vertex : H(Master[u], u) <= Ceiling(u)
  /\ \A h \in Delegate, r \in Rank : H(Master[h], h) <= H(r, h)
  /\ \A u \in Passes :
       LET c == H(Master[u], u)
       IN  \/ \E x \in items : x.step = "start" /\ x.visitor.vertex = u /\ Carried(x.visitor) = c
           \/ \A r \in Rank : HoldsCopy(r, u) =>
                /\ Writes => H(r, u) = c
                /\ \A w \in Targets(r, u) : Ceiling(w) <= Offer(u, w, c)

\* The copies of a hub are not ahead of their master, and level with it when a
\* visit writes; no edge offers less than its target holds.
Settled ==
  /\ \A u \in Passes : \A r \in Rank : HoldsCopy(r, u) =>
       /\ H(Master[u], u) <= H(r, u)
       /\ Writes => H(r, u) = H(Master[u], u)
       /\ \A w \in Targets(r, u) : H(Master[w], w) <= Offer(u, w, H(Master[u], u))
  /\ \A x \in Seeds : H(Master[x.visitor.vertex], x.visitor.vertex) <= Carried(x.visitor)

-----------------------------------------------------------------------------
(* The inductive invariant.                                                *)

TypeInv == items \subseteq Item /\ data \in [Rank -> AlgData]

\* Where visitors wait, and that nothing above them has been overtaken.
PlaceInv ==
  \A x \in items :
    LET u == x.visitor.vertex
        c == Carried(x.visitor)
    IN  /\ x.step \in {"start", "visit"} => x.rank = Master[u] /\ H(Master[u], u) <= c
        /\ x.step = "sent" => x.rank = Master[u]
        /\ x.step = "hear" => u \in Delegate /\ H(Master[u], u) <= c

CeilingInv == \A u \in Vertex : H(Master[u], u) <= Ceiling(u)

\* When a replica is ahead of its master, the visitor that put it ahead is on
\* its way there: what makes the filter of the replicas sound.
AheadInv ==
  \A h \in Delegate, r \in Rank :
    H(r, h) < H(Master[h], h) =>
      /\ h \in Passes
      /\ \E x \in items : /\ x.step = "sent" /\ x.visitor.vertex = h
                          /\ Carried(x.visitor) = H(r, h)

\* The value o, offered on r, has reached w or is on its way there.
Reached(r, w, o) ==
  \/ H(Master[w], w) <= o
  \/ w \in Delegate /\ H(r, w) <= o
  \/ \E x \in items : /\ x.step = "sent" \/ (x.step = "call" /\ x.rank = r)
                      /\ x.visitor.vertex = w /\ Carried(x.visitor) <= o

\* The visitor that will make the edges of u on r offer its value.
Pending(r, u) ==
  \E x \in items :
    /\ x.step \in {"start", "visit"} \/ (x.step = "hear" /\ x.rank = r /\ Master[u] # r)
    /\ x.visitor.vertex = u /\ Carried(x.visitor) = H(Master[u], u)

\* The edges of u on r have offered it.
Spread(r, u) ==
  /\ Writes => H(r, u) = H(Master[u], u)
  /\ \A w \in Targets(r, u) : Reached(r, w, Offer(u, w, H(Master[u], u)))

SpreadInv ==
  \A u \in Passes, r \in Rank :
    HoldsCopy(r, u) /\ H(Master[u], u) <= H(r, u) => Pending(r, u) \/ Spread(r, u)

SeedInv ==
  \A x \in Seeds : /\ x \in Item /\ x.visitor.vertex \in Passes
                   /\ Reached(x.rank, x.visitor.vertex, Carried(x.visitor))

IInv == TypeInv /\ PlaceInv /\ CeilingInv /\ AheadInv /\ SpreadInv /\ SeedInv

-----------------------------------------------------------------------------
(* The three kinds of steps.                                               *)

\* A visitor asks pre_visit, on a rank that holds a copy.
Asks(w) ==
  LET r == w.rank
      v == w.visitor
      u == v.vertex
      m == Master[u]
      pass == u \in Passes /\ Carried(v) < H(r, u)
      next == At(m, IF m = r THEN "visit" ELSE "sent", v)
  IN  /\ w.step \in {"call", "sent"} /\ HoldsCopy(r, u)
      /\ \A q \in Rank, x \in Vertex :
           H(q, x)' = IF pass /\ q = r /\ x = u THEN Carried(v) ELSE H(q, x)
      /\ items \ {w} \subseteq items'
      /\ \A x \in items' : x \in items \/ (pass /\ x = next)
      /\ pass => next \in items'

\* A visitor is sent to the owner of its vertex.
Forwards(w) ==
  LET next == At(Master[w.visitor.vertex], "sent", w.visitor)
  IN  /\ w.step = "call" /\ ~HoldsCopy(w.rank, w.visitor.vertex)
      /\ \A q \in Rank, x \in Vertex : H(q, x)' = H(q, x)
      /\ items \ {w} \subseteq items'
      /\ \A x \in items' : x \in items \/ x = next
      /\ next \in items'

\* A visitor is visited.
Visits(w) ==
  LET r == w.rank
      v == w.visitor
      u == v.vertex
      pass == u \in Passes /\ Carried(v) <= H(r, u)
      casts == pass /\ w.step # "hear" /\ u \in Delegate /\ Master[u] = r
  IN  /\ w.step \in {"start", "visit", "hear"}
      /\ \A q \in Rank, x \in Vertex :
           H(q, x)' = IF pass /\ Writes /\ q = r /\ x = u THEN Carried(v) ELSE H(q, x)
      /\ items \ {w} \subseteq items'
      /\ \A x \in items' :
           \/ x \in items
           \/ x.step = "call"
           \/ /\ casts /\ x.step = "hear"
              /\ x.visitor.vertex = u /\ Carried(x.visitor) = Carried(v)
      /\ casts => \A d \in Rank \ {r} : \E x \in items' :
           /\ x.step = "hear" /\ x.rank = d
           /\ x.visitor.vertex = u /\ Carried(x.visitor) = Carried(v)
      /\ pass => \A t \in Targets(r, u) :
           \/ Ceiling(t) <= Offer(u, t, Carried(v))
           \/ \E x \in items' : /\ x.step = "call" /\ x.rank = r
                                /\ x.visitor.vertex = t /\ Carried(x.visitor) <= Offer(u, t, Carried(v))

LEMMA ItemFacts ==
  ASSUME Relaxes, TypeInv, NEW w \in items
  PROVE  /\ w \in Item /\ w.rank \in Rank /\ w.visitor \in Visitor
         /\ w.visitor.vertex \in Vertex /\ Carried(w.visitor) \in Nat
         /\ Master[w.visitor.vertex] \in Rank
         /\ data[w.rank] \in AlgData
BY DEF Relaxes, GraphType, TypeInv, Item

\* Values are numbers.
LEMMA HeldType ==
  ASSUME Relaxes, TypeInv
  PROVE  \A q \in Rank, u \in Vertex : H(q, u) \in Nat
BY DEF Relaxes, GraphType, TypeInv, H

LEMMA HeldTypeNext ==
  ASSUME Relaxes, TypeInv'
  PROVE  \A q \in Rank, u \in Vertex : H(q, u)' \in Nat
BY DEF Relaxes, GraphType, TypeInv, H

\* One rank's data has changed.
LEMMA HeldNext ==
  ASSUME TypeInv, NEW r \in Rank, NEW a, Became(r, a)
  PROVE  \A q \in Rank : \A u : H(q, u)' = IF q = r THEN Held(a, u) ELSE H(q, u)
<1>1. \A q \in Rank : data'[q] = IF q = r THEN a ELSE data[q]
  BY DEF TypeInv, Became
<1> QED
  BY <1>1 DEF H

LEMMA AskSteps ==
  ASSUME Relaxes, TypeInv, PlaceInv, NEW w \in items, Call(w) \/ Receive(w)
  PROVE  TypeInv' /\ (Asks(w) \/ Forwards(w))
<1> DEFINE r == w.rank
           v == w.visitor
           u == v.vertex
           m == Master[u]
           next == At(m, IF m = r THEN "visit" ELSE "sent", v)
           pass == u \in Passes /\ Carried(v) < H(r, u)
<1>1. r \in Rank /\ v \in Visitor /\ u \in Vertex /\ m \in Rank /\ data[r] \in AlgData
  BY ItemFacts
<1>2. next \in Item /\ At(m, "sent", v) \in Item
  BY <1>1 DEF At, Item
<1>3. ASSUME HoldsCopy(r, u), NEW out \in PreVisit(r, data[r], v), Became(r, out.data),
             Moves(w, IF out.ret THEN {next} ELSE {}), w.step \in {"call", "sent"}
      PROVE  TypeInv' /\ Asks(w)
  <2>1. /\ out.data \in AlgData
        /\ out.ret <=> pass
        /\ \A x \in Vertex : Held(out.data, x) = IF out.ret /\ x = u THEN Carried(v) ELSE H(r, x)
    BY <1>1 DEF Relaxes, PreVisitLowers, H
  <2>2. \A q \in Rank, x \in Vertex : H(q, x)' = IF q = r THEN Held(out.data, x) ELSE H(q, x)
    BY <1>1, <1>3, HeldNext
  <2>3. \A q \in Rank, x \in Vertex :
           H(q, x)' = IF pass /\ q = r /\ x = u THEN Carried(v) ELSE H(q, x)
    BY <2>1, <2>2
  <2>4. /\ items \ {w} \subseteq items'
        /\ \A x \in items' : x \in items \/ (pass /\ x = next)
        /\ pass => next \in items'
    BY <1>3, <2>1 DEF Moves
  <2>5. items' \subseteq Item
    BY <1>2, <2>4 DEF TypeInv
  <2>6. data' \in [Rank -> AlgData]
    BY <1>1, <1>3, <2>1 DEF TypeInv, Became
  <2>7. TypeInv'
    BY <2>5, <2>6 DEF TypeInv
  <2> QED
    BY <1>3, <2>3, <2>4, <2>7 DEF Asks
<1>4. CASE Receive(w)
  <2>1. r = m /\ w.step = "sent" /\ HoldsCopy(r, u)
    BY <1>4 DEF Receive, PlaceInv, HoldsCopy
  <2>2. next = At(r, "visit", v)
    BY <2>1
  <2>3. PICK out \in PreVisit(r, data[r], v) :
          Moves(w, IF out.ret THEN {next} ELSE {}) /\ Became(r, out.data)
    BY <1>4, <2>2 DEF Receive, Moves
  <2> QED
    BY <1>3, <2>1, <2>3
<1>5. CASE Call(w) /\ HoldsCopy(r, u)
  <2>1. PICK out \in PreVisit(r, data[r], v) :
          Moves(w, IF ~out.ret THEN {} ELSE {next}) /\ Became(r, out.data)
    BY <1>5 DEF Call, HoldsCopy
  <2>2. Moves(w, IF out.ret THEN {next} ELSE {}) /\ w.step = "call"
    BY <1>5, <2>1 DEF Call, Moves
  <2> QED
    BY <1>3, <1>5, <2>1, <2>2
<1>6. CASE Call(w) /\ ~HoldsCopy(r, u)
  <2>1. Moves(w, {At(m, "sent", v)}) /\ data' = data /\ w.step = "call"
    BY <1>6 DEF Call, HoldsCopy
  <2>2. \A q \in Rank, x \in Vertex : H(q, x)' = H(q, x)
    BY <2>1 DEF H
  <2>3. TypeInv'
    BY <1>2, <2>1 DEF TypeInv, Moves
  <2> QED
    BY <1>6, <2>1, <2>2, <2>3 DEF Forwards, Moves
<1> QED
  BY <1>4, <1>5, <1>6

LEMMA VisitSteps ==
  ASSUME Relaxes, TypeInv, PlaceInv, NEW w \in items, Start(w) \/ Run(w) \/ Hear(w)
  PROVE  TypeInv' /\ Visits(w)
<1> DEFINE r == w.rank
           v == w.visitor
           u == v.vertex
           pass == u \in Passes /\ Carried(v) <= H(r, u)
           casts == pass /\ w.step # "hear" /\ u \in Delegate /\ Master[u] = r
           b == [v EXCEPT !.bcast = TRUE]
<1>1. r \in Rank /\ v \in Visitor /\ u \in Vertex /\ Master[u] \in Rank /\ data[r] \in AlgData
  BY ItemFacts
<1>2. PICK out \in Visit(r, data[r], v) :
        /\ Became(r, out.data)
        /\ Moves(w, Calls(r, out) \cup (IF w.step = "hear" THEN {} ELSE Broadcast(r, v, out)))
  <2>1. CASE Start(w)
    BY <1>1, <2>1 DEF Start, Relaxes, Moves
  <2>2. CASE Run(w)
    BY <2>2 DEF Run, Moves
  <2>3. CASE Hear(w)
    BY <2>3 DEF Hear, Moves
  <2> QED
    BY <2>1, <2>2, <2>3
<1>3. w.step \in {"start", "visit", "hear"}
  BY DEF Start, Run, Hear
<1>4. /\ out.data \in AlgData
      /\ out.ret <=> pass
      /\ \A i \in DOMAIN out.spawn : out.spawn[i] \in Visitor
      /\ \A x \in Vertex :
           Held(out.data, x) = IF out.ret /\ Writes /\ x = u THEN Carried(v) ELSE H(r, x)
      /\ out.ret => \A t \in Targets(r, u) :
           \/ Ceiling(t) <= Offer(u, t, Carried(v))
           \/ \E i \in DOMAIN out.spawn :
                out.spawn[i].vertex = t /\ Carried(out.spawn[i]) <= Offer(u, t, Carried(v))
  BY <1>1 DEF Relaxes, VisitOffers, H
<1>5. b \in Visitor /\ b.vertex = u /\ Carried(b) = Carried(v)
  BY <1>1 DEF Relaxes, GraphType
<1> DEFINE bc == IF casts THEN {At(d, "hear", b) : d \in Rank \ {r}} ELSE {}
           new == Calls(r, out) \cup bc
<1>6. Moves(w, new)
  <2>1. (IF w.step = "hear" THEN {} ELSE Broadcast(r, v, out)) = bc
    BY <1>4 DEF Broadcast
  <2> HIDE DEF bc
  <2> QED
    BY <1>2, <2>1 DEF Moves
<1> HIDE DEF b
<1>7. \A x \in Calls(r, out) :
        /\ x \in Item /\ x.step = "call" /\ x.rank = r
        /\ \E i \in DOMAIN out.spawn : x.visitor = out.spawn[i]
  BY <1>1, <1>4 DEF Calls, At, Item
<1>8. \A i \in DOMAIN out.spawn : \E x \in Calls(r, out) : x.visitor = out.spawn[i]
  <2> SUFFICES ASSUME NEW i \in DOMAIN out.spawn
               PROVE  \E x \in Calls(r, out) : x.visitor = out.spawn[i]
    OBVIOUS
  <2>1. At(r, "call", out.spawn[i]) \in Calls(r, out)
    BY DEF Calls
  <2> QED
    BY <2>1 DEF At
<1>9. \A x \in bc : /\ casts /\ x \in Item /\ x.step = "hear" /\ x.visitor = b
  BY <1>1, <1>5 DEF At, Item
<1>10. casts => \A d \in Rank \ {r} : \E x \in bc : x.step = "hear" /\ x.rank = d /\ x.visitor = b
  <2> SUFFICES ASSUME casts, NEW d \in Rank \ {r}
               PROVE  \E x \in bc : x.step = "hear" /\ x.rank = d /\ x.visitor = b
    OBVIOUS
  <2>1. At(d, "hear", b) \in bc
    OBVIOUS
  <2> QED
    BY <2>1 DEF At
<1> HIDE DEF bc
<1>11. /\ items \ {w} \subseteq items' /\ Calls(r, out) \subseteq items' /\ bc \subseteq items'
       /\ \A x \in items' : x \in items \/ x \in Calls(r, out) \/ x \in bc
  BY <1>6 DEF Moves
<1>12. TypeInv'
  <2>1. items' \subseteq Item
    BY <1>7, <1>9, <1>11 DEF TypeInv
  <2>2. data' \in [Rank -> AlgData]
    BY <1>1, <1>2, <1>4 DEF TypeInv, Became
  <2> QED
    BY <2>1, <2>2 DEF TypeInv
<1>13. \A q \in Rank, x \in Vertex :
         H(q, x)' = IF pass /\ Writes /\ q = r /\ x = u THEN Carried(v) ELSE H(q, x)
  <2>1. \A q \in Rank : \A x : H(q, x)' = IF q = r THEN Held(out.data, x) ELSE H(q, x)
    BY <1>1, <1>2, HeldNext
  <2> QED
    BY <1>4, <2>1
<1>14. \A x \in items' :
         \/ x \in items
         \/ x.step = "call"
         \/ /\ casts /\ x.step = "hear"
            /\ x.visitor.vertex = u /\ Carried(x.visitor) = Carried(v)
  BY <1>5, <1>7, <1>9, <1>11
<1>15. casts => \A d \in Rank \ {r} : \E x \in items' :
         /\ x.step = "hear" /\ x.rank = d
         /\ x.visitor.vertex = u /\ Carried(x.visitor) = Carried(v)
  BY <1>5, <1>10, <1>11
<1>16. pass => \A t \in Targets(r, u) :
         \/ Ceiling(t) <= Offer(u, t, Carried(v))
         \/ \E x \in items' : /\ x.step = "call" /\ x.rank = r
                              /\ x.visitor.vertex = t /\ Carried(x.visitor) <= Offer(u, t, Carried(v))
  <2> SUFFICES ASSUME pass, NEW t \in Targets(r, u), ~(Ceiling(t) <= Offer(u, t, Carried(v)))
               PROVE  \E x \in items' : /\ x.step = "call" /\ x.rank = r
                              /\ x.visitor.vertex = t /\ Carried(x.visitor) <= Offer(u, t, Carried(v))
    OBVIOUS
  <2>1. PICK i \in DOMAIN out.spawn :
               out.spawn[i].vertex = t /\ Carried(out.spawn[i]) <= Offer(u, t, Carried(v))
    BY <1>4
  <2>2. PICK x \in Calls(r, out) : x.visitor = out.spawn[i]
    BY <1>8
  <2>3. x \in items' /\ x.step = "call" /\ x.rank = r
    BY <1>7, <1>11, <2>2
  <2> QED
    BY <2>1, <2>2, <2>3
<1>17. items \ {w} \subseteq items'
  BY <1>11
<1> QED
  BY <1>3, <1>12, <1>13, <1>14, <1>15, <1>16, <1>17 DEF Visits

-----------------------------------------------------------------------------
(* The steps keep the invariant.                                           *)

Effect(w) == Asks(w) \/ Forwards(w) \/ Visits(w)

\* Values never rise, and only the visitor that is taken can be missed.
LEMMA NothingRises ==
  ASSUME Relaxes, TypeInv, NEW w \in items, Effect(w)
  PROVE  /\ \A q \in Rank, x \in Vertex : H(q, x)' <= H(q, x)
         /\ items \ {w} \subseteq items'
         /\ \A q \in Rank, x \in Vertex :
              H(q, x)' # H(q, x) => /\ q = w.rank /\ x = w.visitor.vertex
                                    /\ x \in Passes /\ H(q, x)' = Carried(w.visitor)
<1>1. \A q \in Rank, x \in Vertex : H(q, x) \in Nat
  BY HeldType
<1>2. w.rank \in Rank /\ w.visitor.vertex \in Vertex /\ Carried(w.visitor) \in Nat
  BY ItemFacts
<1>3. CASE Asks(w)
  BY <1>1, <1>2, <1>3 DEF Asks
<1>4. CASE Forwards(w)
  BY <1>1, <1>4 DEF Forwards
<1>5. CASE Visits(w)
  BY <1>1, <1>2, <1>5 DEF Visits
<1> QED
  BY <1>3, <1>4, <1>5 DEF Effect

\* The value of a master only changes when a visitor arrives there, which waits
\* for its visit then.
LEMMA MasterChanges ==
  ASSUME Relaxes, TypeInv, PlaceInv, NEW w \in items, Effect(w),
         NEW u \in Vertex, H(Master[u], u)' # H(Master[u], u)
  PROVE  /\ u \in Passes /\ u = w.visitor.vertex /\ w.rank = Master[u]
         /\ H(Master[u], u)' = Carried(w.visitor)
         /\ At(Master[u], "visit", w.visitor) \in items'
<1>1. Master[u] \in Rank
  BY DEF Relaxes, GraphType
<1>2. /\ w.rank = Master[u] /\ u = w.visitor.vertex /\ u \in Passes
      /\ H(Master[u], u)' = Carried(w.visitor)
  BY <1>1, NothingRises
<1>3. CASE Asks(w)
  BY <1>1, <1>2, <1>3 DEF Asks
<1>4. CASE Forwards(w)
  BY <1>1, <1>4 DEF Forwards
<1>5. CASE Visits(w)
  <2>1. H(Master[u], u) <= Carried(w.visitor)
    BY <1>2, <1>5 DEF Visits, PlaceInv
  <2>2. Carried(w.visitor) <= H(Master[u], u)
    BY <1>1, <1>2, <1>5 DEF Visits
  <2>3. H(Master[u], u) \in Nat /\ Carried(w.visitor) \in Nat
    BY <1>1, HeldType, ItemFacts
  <2> QED
    BY <1>2, <2>1, <2>2, <2>3
<1> QED
  BY <1>2, <1>3, <1>4, <1>5 DEF Effect

LEMMA PlaceNext ==
  ASSUME Relaxes, TypeInv, PlaceInv, NEW w \in items, Effect(w), TypeInv'
  PROVE  PlaceInv'
<1> DEFINE Placed(x) ==
             LET u == x.visitor.vertex
                 c == Carried(x.visitor)
             IN  /\ x.step \in {"start", "visit"} => x.rank = Master[u] /\ H(Master[u], u)' <= c
                 /\ x.step = "sent" => x.rank = Master[u]
                 /\ x.step = "hear" => u \in Delegate /\ H(Master[u], u)' <= c
           v == w.visitor
           u == v.vertex
<1>1. \A q \in Rank, y \in Vertex : H(q, y) \in Nat /\ H(q, y)' \in Nat /\ H(q, y)' <= H(q, y)
  BY HeldType, HeldTypeNext, NothingRises
<1>2. ASSUME NEW x \in items PROVE Placed(x)
  <2>1. Master[x.visitor.vertex] \in Rank /\ x.visitor.vertex \in Vertex /\ Carried(x.visitor) \in Nat
    BY ItemFacts
  <2>2. LET y == x.visitor.vertex IN H(Master[y], y)' <= H(Master[y], y)
          /\ H(Master[y], y) \in Nat /\ H(Master[y], y)' \in Nat
    BY <1>1, <2>1
  <2> QED
    BY <2>1, <2>2 DEF PlaceInv
<1>3. w.rank \in Rank /\ u \in Vertex /\ Carried(v) \in Nat /\ Master[u] \in Rank
  BY ItemFacts
<1>4. ASSUME NEW x \in items', x \notin items PROVE Placed(x)
  <2>1. CASE Asks(w)
    <3>1. /\ u \in Passes /\ Carried(v) < H(w.rank, u)
          /\ x = At(Master[u], IF Master[u] = w.rank THEN "visit" ELSE "sent", v)
          /\ H(w.rank, u)' = Carried(v)
      BY <1>3, <1>4, <2>1 DEF Asks
    <3> QED
      BY <1>3, <3>1 DEF At
  <2>2. CASE Forwards(w)
    <3>1. x = At(Master[u], "sent", v)
      BY <1>4, <2>2 DEF Forwards
    <3> QED
      BY <3>1 DEF At
  <2>3. CASE Visits(w)
    <3>1. \/ x.step = "call"
          \/ /\ w.step \in {"start", "visit"} /\ u \in Delegate
             /\ x.step = "hear" /\ x.visitor.vertex = u /\ Carried(x.visitor) = Carried(v)
      BY <1>4, <2>3 DEF Visits
    <3>2. w.step \in {"start", "visit"} => H(Master[u], u)' <= Carried(v)
      BY <1>2
    <3> QED
      BY <3>1, <3>2
  <2> QED
    BY <2>1, <2>2, <2>3 DEF Effect
<1> QED
  BY <1>2, <1>4 DEF PlaceInv

LEMMA CeilingNext ==
  ASSUME Relaxes, TypeInv, CeilingInv, NEW w \in items, Effect(w), TypeInv'
  PROVE  CeilingInv'
<1>1. \A u \in Vertex : Master[u] \in Rank /\ Ceiling(u) \in Nat
  BY DEF Relaxes, GraphType
<1>2. \A u \in Vertex : /\ H(Master[u], u)' <= H(Master[u], u)
                        /\ H(Master[u], u)' \in Nat /\ H(Master[u], u) \in Nat
  BY <1>1, HeldType, HeldTypeNext, NothingRises
<1> QED
  BY <1>1, <1>2 DEF CeilingInv

\* A copy that was not ahead of its master gets ahead of it only by a visitor
\* it sends there; one that was ahead stays so until that visitor arrives.
LEMMA AheadNext ==
  ASSUME Relaxes, TypeInv, PlaceInv, AheadInv, NEW w \in items, Effect(w), TypeInv'
  PROVE  AheadInv'
<1> DEFINE v == w.visitor
           u == v.vertex
           r == w.rank
<1>1. \A q \in Rank, y \in Vertex : H(q, y) \in Nat /\ H(q, y)' \in Nat /\ H(q, y)' <= H(q, y)
  BY HeldType, HeldTypeNext, NothingRises
<1>2. r \in Rank /\ u \in Vertex /\ Carried(v) \in Nat /\ Master[u] \in Rank
  BY ItemFacts
<1> SUFFICES ASSUME NEW h \in Delegate, NEW q \in Rank, H(q, h)' < H(Master[h], h)'
             PROVE  /\ h \in Passes
                    /\ \E x \in items' : /\ x.step = "sent" /\ x.visitor.vertex = h
                                         /\ Carried(x.visitor) = H(q, h)'
  BY DEF AheadInv
<1>3. h \in Vertex /\ Master[h] \in Rank
  BY DEF Relaxes, GraphType
<1>4. CASE H(q, h)' = H(q, h)
  <2>1. H(q, h) < H(Master[h], h)
    BY <1>1, <1>3, <1>4
  <2>2. PICK x \in items : /\ x.step = "sent" /\ x.visitor.vertex = h
                           /\ Carried(x.visitor) = H(q, h)
    BY <2>1 DEF AheadInv
  <2>3. h \in Passes
    BY <2>1 DEF AheadInv
  <2>4. x # w
    <3> SUFFICES ASSUME x = w PROVE FALSE
      OBVIOUS
    <3>1. Asks(w)
      BY <2>2 DEF Effect, Forwards, Visits
    <3>2. r = Master[h]
      BY <2>2 DEF PlaceInv
    <3>3. H(Master[h], h)' <= Carried(v)
      BY <1>1, <1>3, <2>1, <2>2, <2>3, <3>1, <3>2 DEF Asks
    <3> QED
      BY <1>1, <1>3, <1>4, <2>2, <3>3
  <2>5. x \in items'
    BY <2>4, NothingRises
  <2> QED
    BY <1>4, <2>2, <2>3, <2>5
<1>5. CASE H(q, h)' # H(q, h)
  <2>1. q = r /\ h = u /\ h \in Passes /\ H(q, h)' = Carried(v)
    BY <1>3, <1>5, NothingRises
  <2>2. Master[h] # q
    BY <1>1, <1>3
  <2>3. CASE Asks(w)
    <3>1. /\ At(Master[u], "sent", v) \in items'
      BY <1>2, <1>5, <2>1, <2>2, <2>3 DEF Asks
    <3> QED
      BY <2>1, <3>1 DEF At
  <2>4. CASE Forwards(w)
    BY <1>3, <1>5, <2>4 DEF Forwards
  <2>5. CASE Visits(w)
    <3>1. w.step \in {"start", "visit", "hear"} /\ H(Master[u], u) <= Carried(v)
      BY <2>5 DEF Visits, PlaceInv
    <3> QED
      BY <1>1, <1>2, <1>3, <2>1, <3>1
  <2> QED
    BY <2>3, <2>4, <2>5 DEF Effect
<1> QED
  BY <1>4, <1>5

\* What has been offered is not forgotten.
LEMMA ReachedNext ==
  ASSUME Relaxes, TypeInv, PlaceInv, NEW w \in items, Effect(w), TypeInv',
         NEW q \in Rank, NEW t \in Passes, NEW o \in Nat, Reached(q, t, o)
  PROVE  Reached(q, t, o)'
<1> DEFINE v == w.visitor
           u == v.vertex
           r == w.rank
<1>1. \A p \in Rank, y \in Vertex : H(p, y) \in Nat /\ H(p, y)' \in Nat /\ H(p, y)' <= H(p, y)
  BY HeldType, HeldTypeNext, NothingRises
<1>2. r \in Rank /\ u \in Vertex /\ Carried(v) \in Nat /\ Master[u] \in Rank
  BY ItemFacts
<1>3. t \in Vertex /\ Master[t] \in Rank
  BY DEF Relaxes, GraphType
<1>4. CASE H(Master[t], t) <= o
  <2>1. H(Master[t], t)' <= o
    BY <1>1, <1>3, <1>4
  <2> QED
    BY <2>1 DEF Reached
<1>5. CASE t \in Delegate /\ H(q, t) <= o
  <2>1. H(q, t)' <= o
    BY <1>1, <1>3, <1>5
  <2> QED
    BY <1>5, <2>1 DEF Reached
<1>6. CASE \E x \in items : /\ x.step = "sent" \/ (x.step = "call" /\ x.rank = q)
                            /\ x.visitor.vertex = t /\ Carried(x.visitor) <= o
  <2>1. PICK x \in items : /\ x.step = "sent" \/ (x.step = "call" /\ x.rank = q)
                           /\ x.visitor.vertex = t /\ Carried(x.visitor) <= o
    BY <1>6
  <2>2. CASE x # w
    <3>1. x \in items'
      BY <2>2, NothingRises
    <3> QED
      BY <2>1, <3>1 DEF Reached
  <2>3. CASE x = w /\ Forwards(w)
    <3>1. At(Master[u], "sent", v) \in items'
      BY <2>3 DEF Forwards
    <3>2. LET y == At(Master[u], "sent", v)
          IN  y.step = "sent" /\ y.visitor.vertex = t /\ Carried(y.visitor) <= o
      BY <2>1, <2>3 DEF At
    <3> QED
      BY <3>1, <3>2 DEF Reached
  <2>4. CASE x = w /\ Asks(w)
    <3>1. H(r, t)' <= o
      BY <1>1, <1>2, <1>3, <2>1, <2>4 DEF Asks
    <3>2. w.step = "sent" => r = Master[t]
      BY <2>1, <2>4 DEF PlaceInv
    <3>3. (t \in Delegate /\ r = q) \/ r = Master[t]
      BY <2>1, <2>4, <3>2 DEF Asks, HoldsCopy
    <3> QED
      BY <3>1, <3>3 DEF Reached
  <2>5. CASE x = w /\ Visits(w)
    BY <2>1, <2>5 DEF Visits
  <2> QED
    BY <2>2, <2>3, <2>4, <2>5 DEF Effect
<1> QED
  BY <1>4, <1>5, <1>6 DEF Reached

\* The edges of u on r offer the value of the visitor that is visited there.
LEMMA VisitSpreads ==
  ASSUME Relaxes, TypeInv, CeilingInv', TypeInv', NEW w \in items, Visits(w),
         w.visitor.vertex \in Passes,
         LET u == w.visitor.vertex
         IN  /\ Carried(w.visitor) = H(Master[u], u)' /\ Carried(w.visitor) <= H(w.rank, u)
  PROVE  Spread(w.rank, w.visitor.vertex)'
<1> DEFINE v == w.visitor
           u == v.vertex
           r == w.rank
           c == Carried(v)
<1>1. r \in Rank /\ u \in Vertex /\ c \in Nat /\ Master[u] \in Rank
  BY ItemFacts
<1>2. Writes => H(r, u)' = H(Master[u], u)'
  BY <1>1 DEF Visits
<1>3. ASSUME NEW t \in Targets(r, u) PROVE Reached(r, t, Offer(u, t, c))'
  <2>1. /\ t \in Vertex /\ Master[t] \in Rank /\ Ceiling(t) \in Nat /\ Offer(u, t, c) \in Nat
    BY <1>1 DEF Relaxes, GraphType
  <2>2. CASE Ceiling(t) <= Offer(u, t, c)
    <3>1. H(Master[t], t)' <= Ceiling(t) /\ H(Master[t], t)' \in Nat
      BY <2>1, HeldTypeNext DEF CeilingInv
    <3>2. H(Master[t], t)' <= Offer(u, t, c)
      BY <2>1, <2>2, <3>1
    <3> QED
      BY <3>2 DEF Reached
  <2>3. CASE ~(Ceiling(t) <= Offer(u, t, c))
    <3>1. PICK x \in items' : /\ x.step = "call" /\ x.rank = r
                              /\ x.visitor.vertex = t /\ Carried(x.visitor) <= Offer(u, t, c)
      BY <2>3 DEF Visits
    <3> QED
      BY <3>1 DEF Reached
  <2> QED
    BY <2>2, <2>3
<1> QED
  BY <1>2, <1>3 DEF Spread

LEMMA SpreadNext ==
  ASSUME Relaxes, TypeInv, PlaceInv, SpreadInv, NEW w \in items, Effect(w), TypeInv', CeilingInv'
  PROVE  SpreadInv'
<1> DEFINE v == w.visitor
           r == w.rank
<1>1. \A p \in Rank, y \in Vertex : H(p, y) \in Nat /\ H(p, y)' \in Nat /\ H(p, y)' <= H(p, y)
  BY HeldType, HeldTypeNext, NothingRises
<1>2. r \in Rank /\ v.vertex \in Vertex /\ Carried(v) \in Nat /\ Master[v.vertex] \in Rank
  BY ItemFacts
<1> SUFFICES ASSUME NEW u \in Passes, NEW q \in Rank, HoldsCopy(q, u), H(Master[u], u)' <= H(q, u)'
             PROVE  Pending(q, u)' \/ Spread(q, u)'
  BY DEF SpreadInv, HoldsCopy
<1>3. u \in Vertex /\ Master[u] \in Rank
  BY DEF Relaxes, GraphType
<1>4. CASE H(Master[u], u)' # H(Master[u], u)
  <2>1. /\ u = v.vertex /\ H(Master[u], u)' = Carried(v)
        /\ At(Master[u], "visit", v) \in items'
    BY <1>3, <1>4, MasterChanges
  <2>2. LET x == At(Master[u], "visit", v)
        IN  x.step = "visit" /\ x.visitor = v
    BY DEF At
  <2> QED
    BY <2>1, <2>2 DEF Pending
<1>5. CASE H(Master[u], u)' = H(Master[u], u) /\ Spread(q, u)
  <2>1. Writes => H(q, u)' = H(Master[u], u)'
    BY <1>1, <1>3, <1>5 DEF Spread
  <2>2. ASSUME NEW t \in Targets(q, u) PROVE Reached(q, t, Offer(u, t, H(Master[u], u)))'
    <3>1. t \in Passes /\ Reached(q, t, Offer(u, t, H(Master[u], u)))
      BY <1>3, <1>5 DEF Relaxes, GraphType, Spread
    <3> DEFINE o == Offer(u, t, H(Master[u], u))
    <3>2. t \in Vertex /\ o \in Nat
      BY <1>1, <1>3, <3>1 DEF Relaxes, GraphType
    <3>3. PICK k \in Nat : k = o
      BY <3>2
    <3>4. Reached(q, t, k)'
      BY <3>1, <3>3, ReachedNext
    <3>5. k = Offer(u, t, H(Master[u], u)')
      BY <1>5, <3>3
    <3> QED
      BY <3>4, <3>5
  <2> QED
    BY <1>5, <2>1, <2>2 DEF Spread
<1>6. CASE H(Master[u], u)' = H(Master[u], u) /\ Pending(q, u)
  <2>1. PICK x \in items :
          /\ x.step \in {"start", "visit"} \/ (x.step = "hear" /\ x.rank = q /\ Master[u] # q)
          /\ x.visitor.vertex = u /\ Carried(x.visitor) = H(Master[u], u)
    BY <1>6 DEF Pending
  <2>2. CASE x # w
    <3>1. x \in items'
      BY <2>2, NothingRises
    <3> QED
      BY <1>6, <2>1, <3>1 DEF Pending
  <2>3. CASE x = w
    <3>1. Visits(w)
      BY <2>1, <2>3 DEF Effect, Asks, Forwards
    <3>2. x.step \in {"start", "visit"} => r = Master[u]
      BY <2>1, <2>3 DEF PlaceInv
    <3>3. CASE r = q
      <4>1. Carried(v) <= H(r, u)
        BY <1>1, <1>3, <1>6, <2>1, <2>3, <3>3
      <4>2. Spread(r, v.vertex)'
        BY <1>6, <2>1, <2>3, <3>1, <4>1, VisitSpreads
      <4> QED
        BY <2>1, <2>3, <3>3, <4>2
    <3>4. CASE r # q
      <4>1. r = Master[u] /\ w.step # "hear" /\ u \in Delegate /\ Carried(v) <= H(r, u)
        BY <1>1, <1>3, <2>1, <2>3, <3>2, <3>4 DEF HoldsCopy
      <4>2. \E y \in items' : /\ y.step = "hear" /\ y.rank = q
                              /\ y.visitor.vertex = u /\ Carried(y.visitor) = Carried(v)
        BY <2>1, <2>3, <3>1, <3>4, <4>1 DEF Visits
      <4> QED
        BY <1>6, <2>1, <2>3, <3>4, <4>1, <4>2 DEF Pending
    <3> QED
      BY <3>3, <3>4
  <2> QED
    BY <2>2, <2>3
<1>7. H(Master[u], u)' = H(Master[u], u) => Pending(q, u) \/ Spread(q, u)
  <2>1. H(Master[u], u)' = H(Master[u], u) => H(Master[u], u) <= H(q, u)
    BY <1>1, <1>3
  <2> QED
    BY <2>1 DEF SpreadInv
<1> QED
  BY <1>4, <1>5, <1>6, <1>7

LEMMA SeedNext ==
  ASSUME Relaxes, TypeInv, PlaceInv, SeedInv, NEW w \in items, Effect(w), TypeInv'
  PROVE  SeedInv'
<1> SUFFICES ASSUME NEW x \in Seeds
             PROVE  /\ x \in Item /\ x.visitor.vertex \in Passes
                    /\ Reached(x.rank, x.visitor.vertex, Carried(x.visitor))'
  BY DEF SeedInv
<1>1. /\ x \in Item /\ x.visitor.vertex \in Passes
      /\ Reached(x.rank, x.visitor.vertex, Carried(x.visitor))
  BY DEF SeedInv
<1>2. x.rank \in Rank /\ Carried(x.visitor) \in Nat
  BY <1>1 DEF Item, Relaxes, GraphType
<1> QED
  BY <1>1, <1>2, ReachedNext

-----------------------------------------------------------------------------
LEMMA StartInv ==
  ASSUME Relaxes, Starts
  PROVE  IInv
<1>1. TypeInv /\ \A x \in items : x.step \in {"start", "call"}
  BY DEF Starts, Init, TypeInv
<1>2. \A u \in Vertex : Master[u] \in Rank /\ Ceiling(u) \in Nat
  BY DEF Relaxes, GraphType
<1>3. \A p \in Rank, y \in Vertex : H(p, y) \in Nat
  BY <1>1, HeldType
<1>4. PlaceInv
  BY <1>1, <1>2 DEF Starts, PlaceInv
<1>5. CeilingInv
  BY DEF Starts, CeilingInv
<1>6. AheadInv
  <2>1. \A h \in Delegate : h \in Vertex
    BY DEF Relaxes, GraphType
  <2> QED
    BY <1>2, <1>3, <2>1 DEF Starts, AheadInv
<1>7. SpreadInv
  <2> SUFFICES ASSUME NEW u \in Passes, NEW r \in Rank, HoldsCopy(r, u)
               PROVE  Pending(r, u) \/ Spread(r, u)
    BY DEF SpreadInv
  <2> DEFINE c == H(Master[u], u)
  <2>1. u \in Vertex /\ c \in Nat
    BY <1>2, <1>3 DEF Relaxes, GraphType
  <2>2. CASE \E x \in items : x.step = "start" /\ x.visitor.vertex = u /\ Carried(x.visitor) = c
    BY <2>2 DEF Pending
  <2>3. CASE /\ Writes => H(r, u) = c
             /\ \A w \in Targets(r, u) : Ceiling(w) <= Offer(u, w, c)
    <3>1. ASSUME NEW w \in Targets(r, u) PROVE H(Master[w], w) <= Offer(u, w, c)
      <4>1. w \in Vertex /\ Offer(u, w, c) \in Nat
        BY <2>1 DEF Relaxes, GraphType
      <4>2. H(Master[w], w) <= Ceiling(w) /\ H(Master[w], w) \in Nat /\ Ceiling(w) \in Nat
        BY <1>2, <1>3, <1>5, <4>1 DEF CeilingInv
      <4> QED
        BY <2>3, <4>1, <4>2
    <3> QED
      BY <2>3, <3>1 DEF Spread, Reached
  <2> QED
    BY <2>2, <2>3 DEF Starts
<1>8. SeedInv
  <2> SUFFICES ASSUME NEW x \in Seeds
               PROVE  /\ x \in Item /\ x.visitor.vertex \in Passes
                      /\ Reached(x.rank, x.visitor.vertex, Carried(x.visitor))
    BY DEF SeedInv
  <2>1. x \in items /\ x \in Item /\ x.step = "call" /\ x.visitor.vertex \in Passes
    BY <1>1 DEF Starts, TypeInv
  <2>2. Carried(x.visitor) <= Carried(x.visitor)
    <3>1. Carried(x.visitor) \in Nat
      BY <2>1 DEF Item, Relaxes, GraphType
    <3> QED
      BY <3>1
  <2> QED
    BY <2>1, <2>2 DEF Reached
<1> QED
  BY <1>1, <1>4, <1>5, <1>6, <1>7, <1>8 DEF IInv

LEMMA NextInv ==
  ASSUME Relaxes, IInv, [Next]_<<items, data>>
  PROVE  IInv'
<1>1. CASE UNCHANGED <<items, data>>
  BY <1>1 DEF IInv, TypeInv, PlaceInv, CeilingInv, AheadInv, SpreadInv, SeedInv,
              Pending, Spread, Reached, H, HoldsCopy
<1>2. CASE Next
  <2>1. PICK w \in items : Start(w) \/ Call(w) \/ Receive(w) \/ Run(w) \/ Hear(w)
    BY <1>2 DEF Next
  <2>2. TypeInv' /\ Effect(w)
    BY <2>1, AskSteps, VisitSteps DEF IInv, Effect
  <2> QED
    BY <2>2, PlaceNext, CeilingNext, AheadNext, SpreadNext, SeedNext DEF IInv
<1> QED
  BY <1>1, <1>2

\* The invariant of every flow whose program relaxes.
THEOREM FlowKeepsOffers ==
  ASSUME Relaxes
  PROVE  Starts /\ [][Next]_<<items, data>> => []IInv
<1>1. Starts => IInv
  BY StartInv
<1>2. IInv /\ [Next]_<<items, data>> => IInv'
  BY NextInv
<1> QED
  BY <1>1, <1>2, PTL

\* When no visitor is left, nothing is left to lower.
LEMMA EmptySettled ==
  ASSUME Relaxes, IInv, items = {}
  PROVE  Settled
<1>1. \A u \in Vertex : Master[u] \in Rank
  BY DEF Relaxes, GraphType
<1>2. \A p \in Rank, y \in Vertex : H(p, y) \in Nat
  BY HeldType DEF IInv
<1>3. ASSUME NEW u \in Vertex, NEW r \in Rank, HoldsCopy(r, u)
      PROVE  H(Master[u], u) <= H(r, u)
  <2>1. CASE u \in Delegate
    BY <1>1, <1>2, <2>1 DEF IInv, AheadInv
  <2>2. CASE Master[u] = r
    BY <1>2, <2>2
  <2> QED
    BY <1>3, <2>1, <2>2 DEF HoldsCopy
<1>4. ASSUME NEW r \in Rank, NEW w \in Vertex, NEW o \in Nat, Reached(r, w, o)
      PROVE  H(Master[w], w) <= o
  <2>1. CASE w \in Delegate /\ H(r, w) <= o
    <3>1. H(Master[w], w) <= H(r, w)
      BY <1>3, <2>1 DEF HoldsCopy
    <3> QED
      BY <1>1, <1>2, <2>1, <3>1
  <2> QED
    BY <1>4, <2>1 DEF Reached
<1>5. ASSUME NEW u \in Passes, NEW r \in Rank, HoldsCopy(r, u)
      PROVE  /\ H(Master[u], u) <= H(r, u)
             /\ Writes => H(r, u) = H(Master[u], u)
             /\ \A w \in Targets(r, u) : H(Master[w], w) <= Offer(u, w, H(Master[u], u))
  <2>1. u \in Vertex
    BY DEF Relaxes, GraphType
  <2>2. H(Master[u], u) <= H(r, u)
    BY <1>3, <1>5, <2>1
  <2>3. Spread(r, u)
    BY <1>5, <2>2 DEF IInv, SpreadInv, Pending
  <2>4. \A w \in Targets(r, u) : w \in Vertex /\ Offer(u, w, H(Master[u], u)) \in Nat
    BY <1>1, <1>2, <2>1 DEF Relaxes, GraphType
  <2> QED
    BY <1>4, <2>2, <2>3, <2>4 DEF Spread
<1>6. ASSUME NEW x \in Seeds
      PROVE  H(Master[x.visitor.vertex], x.visitor.vertex) <= Carried(x.visitor)
  <2>1. /\ x \in Item /\ x.visitor.vertex \in Passes
        /\ Reached(x.rank, x.visitor.vertex, Carried(x.visitor))
    BY DEF IInv, SeedInv
  <2>2. x.rank \in Rank /\ x.visitor.vertex \in Vertex /\ Carried(x.visitor) \in Nat
    BY <2>1 DEF Item, Relaxes, GraphType
  <2> QED
    BY <1>4, <2>1, <2>2
<1> QED
  BY <1>5, <1>6 DEF Settled

\* A traversal that ends leaves every copy of a vertex, hubs' replicas included,
\* with a value that no edge of any rank could lower: an edge whose offer was
\* dropped by the filter of a replica, overtaken or outdated was not needed.
THEOREM TraversalSettles ==
  ASSUME Relaxes
  PROVE  Starts /\ [][Next]_<<items, data>> => [](items = {} => Settled)
<1>1. IInv => (items = {} => Settled)
  BY EmptySettled
<1> QED
  BY <1>1, FlowKeepsOffers, PTL

-----------------------------------------------------------------------------
(* No step makes something wrong from what is right.                       *)

StaysSound ==
  /\ \A r \in Rank : \A a \in SoundData : \A v \in Sound : \A out \in PreVisit(r, a, v) :
       out.data \in SoundData /\ (out.ret => v \in SoundVisit)
  /\ \A r \in Rank : \A a \in SoundData : \A v \in SoundVisit : \A out \in Visit(r, a, v) :
       out.data \in SoundData /\ \A i \in DOMAIN out.spawn : out.spawn[i] \in Sound
  /\ \A r \in Rank : \A a \in SoundData : \A v \in SoundVisit : InitVisit(r, a, v) \subseteq Visit(r, a, v)
  /\ \A v \in SoundVisit : v \in Sound /\ [v EXCEPT !.bcast = TRUE] \in SoundVisit

SoundInv ==
  /\ data \in [Rank -> SoundData]
  /\ \A x \in items : /\ x.rank \in Rank
                      /\ x.visitor \in (IF x.step \in {"call", "sent"} THEN Sound ELSE SoundVisit)

LEMMA SoundNext ==
  ASSUME StaysSound, Master \in [Vertex -> Rank], \A v \in Sound : v.vertex \in Vertex,
         SoundInv, NEW w \in items, Start(w) \/ Call(w) \/ Receive(w) \/ Run(w) \/ Hear(w)
  PROVE  SoundInv'
<1> DEFINE r == w.rank
           v == w.visitor
           m == Master[v.vertex]
           Right(x) == /\ x.rank \in Rank
                       /\ x.visitor \in (IF x.step \in {"call", "sent"} THEN Sound ELSE SoundVisit)
<1>1. r \in Rank /\ data[r] \in SoundData /\ v \in Sound /\ m \in Rank
  BY DEF SoundInv, StaysSound
<1>2. ASSUME NEW new, Moves(w, new), \A x \in new : Right(x), data' \in [Rank -> SoundData]
      PROVE  SoundInv'
  <2>1. \A x \in items' : x \in items \/ x \in new
    BY <1>2 DEF Moves
  <2>2. \A x \in items' : Right(x)
    BY <1>2, <2>1 DEF SoundInv
  <2> QED
    BY <1>2, <2>2 DEF SoundInv
<1>3. ASSUME NEW a \in SoundData, Became(r, a) PROVE data' \in [Rank -> SoundData]
  BY <1>1, <1>3 DEF Became, SoundInv
<1>4. CASE Call(w) \/ Receive(w)
  <2>1. Right(At(m, "sent", v))
    BY <1>1 DEF At
  <2>2. v \in SoundVisit => Right(At(m, "visit", v)) /\ Right(At(r, "visit", v))
    BY <1>1 DEF At
  <2>3. CASE Receive(w)
    <3>1. PICK out \in PreVisit(r, data[r], v) :
            /\ Moves(w, IF out.ret THEN {At(r, "visit", v)} ELSE {})
            /\ Became(r, out.data)
      BY <2>3 DEF Receive, Moves
    <3>2. out.data \in SoundData /\ (out.ret => v \in SoundVisit)
      BY <1>1 DEF StaysSound
    <3> QED
      BY <1>2, <1>3, <2>2, <3>1, <3>2
  <2>4. CASE Call(w) /\ (v.vertex \in Delegate \/ m = r)
    <3>1. PICK out \in PreVisit(r, data[r], v) :
            /\ Moves(w, IF ~out.ret THEN {} ELSE {At(m, IF m = r THEN "visit" ELSE "sent", v)})
            /\ Became(r, out.data)
      BY <2>4 DEF Call
    <3>2. out.data \in SoundData /\ (out.ret => v \in SoundVisit)
      BY <1>1 DEF StaysSound
    <3>3. out.ret => Right(At(m, IF m = r THEN "visit" ELSE "sent", v))
      BY <2>1, <2>2, <3>2
    <3> QED
      BY <1>2, <1>3, <3>1, <3>2, <3>3
  <2>5. CASE Call(w) /\ ~(v.vertex \in Delegate \/ m = r)
    <3>1. Moves(w, {At(m, "sent", v)}) /\ data' = data
      BY <2>5 DEF Call
    <3> QED
      BY <1>2, <2>1, <3>1 DEF SoundInv
  <2> QED
    BY <1>4, <2>3, <2>4, <2>5
<1>5. CASE Start(w) \/ Run(w) \/ Hear(w)
  <2>1. v \in SoundVisit /\ w.step # "call" /\ w.step # "sent"
    BY <1>5 DEF SoundInv, Start, Run, Hear
  <2>2. PICK out \in Visit(r, data[r], v), cast \in {TRUE, FALSE} :
          /\ Became(r, out.data)
          /\ Moves(w, Calls(r, out) \cup (IF cast THEN Broadcast(r, v, out) ELSE {}))
    <3>1. CASE Start(w)
      BY <1>1, <2>1, <3>1 DEF Start, StaysSound
    <3>2. CASE Run(w)
      BY <3>2 DEF Run
    <3>3. CASE Hear(w)
      BY <3>3 DEF Hear, Moves
    <3> QED
      BY <1>5, <3>1, <3>2, <3>3
  <2>3. out.data \in SoundData /\ \A i \in DOMAIN out.spawn : out.spawn[i] \in Sound
    BY <1>1, <2>1 DEF StaysSound
  <2>4. \A x \in Calls(r, out) : Right(x)
    BY <1>1, <2>3 DEF Calls, At
  <2>5. [v EXCEPT !.bcast = TRUE] \in SoundVisit
    BY <2>1 DEF StaysSound
  <2>6. \A x \in Broadcast(r, v, out) : Right(x)
    <3>1. PICK b \in SoundVisit : b = [v EXCEPT !.bcast = TRUE]
      BY <2>5
    <3>2. \A x \in Broadcast(r, v, out) : \E d \in Rank \ {r} : x = At(d, "hear", b)
      BY <3>1 DEF Broadcast
    <3> QED
      BY <3>2 DEF At
  <2>7. \A x \in Calls(r, out) \cup (IF cast THEN Broadcast(r, v, out) ELSE {}) : Right(x)
    BY <2>4, <2>6
  <2> HIDE DEF Right
  <2>8. data' \in [Rank -> SoundData]
    BY <1>3, <2>2, <2>3
  <2> QED
    BY <1>2, <2>2, <2>7, <2>8
<1> QED
  BY <1>4, <1>5

\* Values that are right stay right, on every rank and in every visitor.
THEOREM FlowStaysSound ==
  ASSUME StaysSound, Master \in [Vertex -> Rank], \A v \in Sound : v.vertex \in Vertex
  PROVE  SoundInv /\ [][Next]_<<items, data>> => []SoundInv
<1>1. SoundInv /\ [Next]_<<items, data>> => SoundInv'
  <2> SUFFICES ASSUME SoundInv, [Next]_<<items, data>> PROVE SoundInv'
    OBVIOUS
  <2>1. CASE UNCHANGED <<items, data>>
    BY <2>1 DEF SoundInv
  <2>2. CASE Next
    <3>1. PICK w \in items : Start(w) \/ Call(w) \/ Receive(w) \/ Run(w) \/ Hear(w)
      BY <2>2 DEF Next
    <3> QED
      BY <3>1, SoundNext
  <2> QED
    BY <2>1, <2>2
<1> QED
  BY <1>1, PTL
=============================================================================
