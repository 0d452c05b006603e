--------------------------- MODULE MCVisitorQueue ---------------------------
(***************************************************************************)
(* VisitorQueue on a small world, with the most general algorithm: every   *)
(* pre_visit and every visit may return either result, and a visit may     *)
(* queue any list of at most MaxFanout visitors, of one hop less each.     *)
(***************************************************************************)
EXTENDS VisitorTraversal

CONSTANTS MaxHops, MaxFanout

\* Rank 0 controls the hub "h", rank 1 owns the low-degree vertex "b", a third
\* rank only has a copy of the hub.  All ranks are on one node.
Vertices == {"b", "h"}
Hubs == {"h"}
Masters == [v \in Vertices |-> IF v = "b" THEN 1 ELSE 0]
TwoRanks == {0, 1}
OneNode2 == [r \in TwoRanks |-> 1]
ThreeRanks == {0, 1, 2}
OneNode3 == [r \in ThreeRanks |-> 2]

Hops == 0..MaxHops
Bit == 0..1

Hop(v, h) == [vertex |-> v, bcast |-> FALSE, val |-> h]

Lists(S) == UNION {[1..n -> S] : n \in 0..MaxFanout}

\* The algorithm data is a bit that every call of pre_visit flips, so that no
\* call goes unnoticed.
AnyPreVisit(r, a, v) == [ret : BOOLEAN, data : {1 - a}]

AnyVisit(r, a, v) ==
  [ret : BOOLEAN, data : {a},
   spawn : IF v.val = 0 THEN {<< >>} ELSE Lists({Hop(w, v.val - 1) : w \in Vertex})]

\* One source visitor on rank 0, as in init_visitor_traversal(source).
FromSource ==
  {[citr |-> [r \in Rank |-> << >>], vitr |-> [r \in Rank |-> << >>],
    source |-> [r \in Rank |-> IF r = 0 THEN <<Hop(v, MaxHops)>> ELSE << >>],
    data |-> [r \in Rank |-> 0]] : v \in Vertex}

\* Every vertex starts at its master, as in init_visitor_traversal().
FromAll ==
  LET StartsAt(r, S) == {v \in S : Master[v] = r}
      AsList(S) == IF S = {} THEN << >> ELSE <<Hop(CHOOSE v \in S : TRUE, MaxHops)>>
  IN  {[citr |-> [r \in Rank |-> AsList(StartsAt(r, Delegate))],
        vitr |-> [r \in Rank |-> AsList(StartsAt(r, Vertex \ Delegate))],
        source |-> [r \in Rank |-> << >>],
        data |-> [r \in Rank |-> 0]]}
=============================================================================
