----------------------------- MODULE VisitorFlow -----------------------------
(***************************************************************************)
(* A traversal as its vertex program sees it, for proofs: visitors wait at *)
(* steps of their way, and taking one leads to others.  It is the          *)
(* traversal of AsyncTraversal without the count of equal visitors: items  *)
(* is a set, so a visitor that is taken may leave a copy of itself behind. *)
(* What a program shows of this flow holds of it over VisitorQueue, which  *)
(* only restricts the order (VisitorQueue_proofs).                         *)
(***************************************************************************)

CONSTANTS
  Rank,
  Delegate,           \* the hubs
  Master,             \* owner of a low-degree vertex, controller of a hub
  Visitor,
  AlgData,            \* the values of one rank's algorithm data
  PreVisit(_, _, _),  \* (rank, data, visitor): outcomes [ret, data]
  Visit(_, _, _),     \* (rank, data, visitor): outcomes [ret, data, spawn]
  InitVisit(_, _, _)

VARIABLES
  items,  \* the visitors, each with its rank and the step it waits for
  data    \* algorithm data of every rank

\* The visitor waits on the rank for
\*   "start": init_visit, at one of the iterators of the traversal
\*   "call":  queue_visitor, which the visit running on the rank will call
\*   "sent":  handle_mailbox_receive, in a buffer for the rank or on its way
\*   "visit": visit, in the local queue of the owner or controller
\*   "hear":  visit without pre_visit, broadcast by the controller
Item == [rank : Rank, step : {"start", "call", "sent", "visit", "hear"}, visitor : Visitor]

At(r, step, v) == [rank |-> r, step |-> step, visitor |-> v]

\* The item is taken and leads to new ones.
Moves(w, new) == (items \ {w}) \cup new \subseteq items' /\ items' \subseteq items \cup new

Became(r, a) == data' = [data EXCEPT ![r] = a]

\* What a visit leads to: its calls, and the broadcast of a hub's controller.
Calls(r, out) == {At(r, "call", out.spawn[i]) : i \in DOMAIN out.spawn}

Broadcast(r, v, out) ==
  IF out.ret /\ v.vertex \in Delegate /\ Master[v.vertex] = r
  THEN {At(d, "hear", [v EXCEPT !.bcast = TRUE]) : d \in Rank \ {r}}
  ELSE {}

-----------------------------------------------------------------------------
Init ==
  /\ items \subseteq {w \in Item : w.step \in {"start", "call"}}
  /\ data \in [Rank -> AlgData]

Start(w) ==
  /\ w.step = "start"
  /\ \E out \in InitVisit(w.rank, data[w.rank], w.visitor) :
       /\ Moves(w, Calls(w.rank, out) \cup Broadcast(w.rank, w.visitor, out))
       /\ Became(w.rank, out.data)

\* queue_visitor: a rank with a copy of the vertex asks pre_visit first.
Call(w) ==
  LET r == w.rank
      v == w.visitor
      m == Master[v.vertex]
  IN  /\ w.step = "call"
      /\ IF v.vertex \in Delegate \/ m = r
         THEN \E out \in PreVisit(r, data[r], v) :
                /\ Moves(w, IF ~out.ret THEN {}
                            ELSE {At(m, IF m = r THEN "visit" ELSE "sent", v)})
                /\ Became(r, out.data)
         ELSE Moves(w, {At(m, "sent", v)}) /\ data' = data

\* handle_mailbox_receive of a visitor that is not a broadcast.
Receive(w) ==
  /\ w.step = "sent"
  /\ \E out \in PreVisit(w.rank, data[w.rank], w.visitor) :
       /\ Moves(w, IF out.ret THEN {At(w.rank, "visit", w.visitor)} ELSE {})
       /\ Became(w.rank, out.data)

Run(w) ==
  /\ w.step = "visit"
  /\ \E out \in Visit(w.rank, data[w.rank], w.visitor) :
       /\ Moves(w, Calls(w.rank, out) \cup Broadcast(w.rank, w.visitor, out))
       /\ Became(w.rank, out.data)

\* process_pending_controllers on a replica: the result is ignored.
Hear(w) ==
  /\ w.step = "hear"
  /\ \E out \in Visit(w.rank, data[w.rank], w.visitor) :
       /\ Moves(w, Calls(w.rank, out))
       /\ Became(w.rank, out.data)

Next == \E w \in items : Start(w) \/ Call(w) \/ Receive(w) \/ Run(w) \/ Hear(w)

Spec == Init /\ [][Next]_<<items, data>>
=============================================================================
