-------------------------- MODULE TraversalContract --------------------------
(***************************************************************************)
(* What a traversal promises its caller (doc/developer_guide.dox): "The    *)
(* traversal completes when all visitors have completed, and the           *)
(* distributed queue is globally empty."                                   *)
(***************************************************************************)
CONSTANT Rank

VARIABLES
  busy,   \* some visitor is waiting, running or on its way
  left    \* ranks that have returned from init_visitor_traversal

Init == busy \in BOOLEAN /\ left = {}

\* Visitors run and create visitors, until none is left.
Work == busy /\ busy' \in BOOLEAN /\ UNCHANGED left

\* A rank returns, when there is nothing left to do anywhere.
Leave(r) == ~busy /\ left' = left \cup {r} /\ UNCHANGED busy

Next == Work \/ \E r \in Rank : Leave(r)

Spec == Init /\ [][Next]_<<busy, left>>
=============================================================================
