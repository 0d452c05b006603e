--------------------------- MODULE AsyncTraversal ---------------------------
(***************************************************************************)
(* A traversal as a graph algorithm sees it: visitors that wait somewhere, *)
(* run in any order, and create visitors.  VisitorQueue implements it (see *)
(* VisitorTraversal): its queues, buffers, exchanges and test of emptiness *)
(* only restrict the order.  Programs of many traversals are modelled over *)
(* this module instead of the queue itself.                                *)
(***************************************************************************)
EXTENDS Naturals, Sequences, Bags

CONSTANTS
  Delegate,           \* the hubs
  Others(_),          \* the other ranks
  Master,             \* owner of a low-degree vertex, controller of a hub
  PreVisit(_, _, _),  \* (rank, data, visitor): outcomes [ret, data]
  Visit(_, _, _),     \* (rank, data, visitor): outcomes [ret, data, spawn]
  InitVisit(_, _, _)

VARIABLES
  pending,  \* visitors, each with the rank and the step it waits for, a bag
  data      \* algorithm data of every rank

\* The visitor waits on the rank for
\*   "start":  init_visit, at one of the iterators of the traversal
\*   "arrive": pre_visit, queued by a visit on the rank or sent to it
\*   "visit":  visit, in the local queue of the owner or controller
\*   "hear":   visit without pre_visit, broadcast by the controller
Waiting(r, step, v) == [rank |-> r, step |-> step, visitor |-> v]

\* queue_visitor on r: a replica here has the first word on a hub's visitor.
Queued(r, v) ==
  Waiting(IF v.vertex \in Delegate THEN r ELSE Master[v.vertex], "arrive", v)

BagOf(list) ==
  [w \in {list[i] : i \in DOMAIN list} |-> Len(SelectSeq(list, LAMBDA x : x = w))]

\* The visitors that the visit queues.
Children(r, out) == BagOf([i \in DOMAIN out.spawn |-> Queued(r, out.spawn[i])])

\* The broadcast of a visit that returned true on the controller.
Broadcast(r, v, out) ==
  IF out.ret /\ v.vertex \in Delegate /\ Master[v.vertex] = r
  THEN SetToBag({Waiting(d, "hear", [v EXCEPT !.bcast = TRUE]) : d \in Others(r)})
  ELSE EmptyBag

Take(w) == pending (-) SetToBag({w})

Became(r, a) == data' = [data EXCEPT ![r] = a]

Quiescent == pending = EmptyBag

-----------------------------------------------------------------------------
\* Visitors wait at the iterators, or were queued before the traversal.
AllReady == \A w \in BagToSet(pending) : w.step \in {"start", "arrive"}

Start(w) ==
  /\ w.step = "start"
  /\ \E out \in InitVisit(w.rank, data[w.rank], w.visitor) :
       /\ pending' = Take(w) (+) Children(w.rank, out) (+) Broadcast(w.rank, w.visitor, out)
       /\ Became(w.rank, out.data)

\* queue_visitor or handle_mailbox_receive: what passes pre_visit joins the
\* local queue of the owner or controller, or is sent there.
Arrive(w) ==
  /\ w.step = "arrive"
  /\ \E out \in PreVisit(w.rank, data[w.rank], w.visitor) :
       /\ pending' = IF ~out.ret THEN Take(w)
                     ELSE LET m == Master[w.visitor.vertex]
                          IN  Take(w) (+) SetToBag({Waiting(m,
                                IF m = w.rank THEN "visit" ELSE "arrive", w.visitor)})
       /\ Became(w.rank, out.data)

Run(w) ==
  /\ w.step = "visit"
  /\ \E out \in Visit(w.rank, data[w.rank], w.visitor) :
       /\ pending' = Take(w) (+) Children(w.rank, out) (+) Broadcast(w.rank, w.visitor, out)
       /\ Became(w.rank, out.data)

\* process_pending_controllers on a replica: the result is ignored.
Hear(w) ==
  /\ w.step = "hear"
  /\ \E out \in Visit(w.rank, data[w.rank], w.visitor) :
       /\ pending' = Take(w) (+) Children(w.rank, out)
       /\ Became(w.rank, out.data)

Step == \E w \in BagToSet(pending) : Start(w) \/ Arrive(w) \/ Run(w) \/ Hear(w)

TraversalSpec == AllReady /\ [][Step]_<<pending, data>>
=============================================================================
