---------------------------- MODULE SampleGraphs ----------------------------
(***************************************************************************)
(* Small delegate-partitioned graphs for the algorithm models: who owns a  *)
(* vertex, which vertices are hubs, and which edges each rank stores.      *)
(* A low-degree vertex v is owned by rank v % N and keeps its edges there; *)
(* hub number i is controlled by rank i % N and its edges are spread.      *)
(***************************************************************************)
EXTENDS Naturals, Sequences, FiniteSets, TLC

Owner(v, n) == v % n

\* All edges of a map from vertices to lists, empty lists elsewhere.
Fill(S, f) == [v \in S |-> IF v \in DOMAIN f THEN f[v] ELSE << >>]

\* Cost of a broadcast when all ranks share one node: a copy for each other.
OneNode(R) == [r \in R |-> Cardinality(R) - 1]

-----------------------------------------------------------------------------
\* Two ranks and a kite: the edges 0-1, 1-2, 2-3, 1-3, 0-2 and the tail 1-4; hub 1.
Ranks2 == {0, 1}
Cost2 == OneNode(Ranks2)
Kite == 0..4
KiteHubs == {1}
KiteMaster == [v \in Kite |-> IF v = 1 THEN 0 ELSE Owner(v, 2)]
KiteControllers == 0 :> <<1>> @@ 1 :> << >>
KiteOwned == 0 :> <<0, 2, 4>> @@ 1 :> <<3>>
KiteStored ==
  (0 :> Fill(Kite, 0 :> <<1, 2>> @@ 1 :> <<0, 2, 4>> @@ 2 :> <<1, 3, 0>> @@ 4 :> <<1>>)) @@
  (1 :> Fill(Kite, 1 :> <<3>> @@ 3 :> <<2, 1>>))

-----------------------------------------------------------------------------
\* Two ranks, the kite without its tail, and three vertices without edges; hubs
\* 1 (number 0) and 2 (number 1).
Square == 0..6
SquareHubs == {1, 2}
SquareMaster == [v \in Square |-> IF v = 1 THEN 0 ELSE IF v = 2 THEN 1 ELSE Owner(v, 2)]
SquareControllers == 0 :> <<1>> @@ 1 :> <<2>>
SquareOwned == 0 :> <<0, 4, 6>> @@ 1 :> <<3, 5>>
SquareStored ==
  (0 :> Fill(Square, 0 :> <<1, 2>> @@ 1 :> <<0, 2>> @@ 2 :> <<0>>)) @@
  (1 :> Fill(Square, 1 :> <<3>> @@ 2 :> <<1, 3>> @@ 3 :> <<2, 1>>))

-----------------------------------------------------------------------------
\* Three ranks, vertices 0..6, hubs 2 (number 0) and 3 (number 1).  The cycle
\* 0-1-2-3-5-0 gives hub 3 a short and a long way from 0; 4 hangs on both hubs;
\* 6 has a self loop and nothing else.
Ranks3 == {0, 1, 2}
Cost3 == OneNode(Ranks3)
House == 0..6
HouseHubs == {2, 3}
HouseMaster == [v \in House |-> IF v = 2 THEN 0 ELSE IF v = 3 THEN 1 ELSE Owner(v, 3)]
HouseControllers == 0 :> <<2>> @@ 1 :> <<3>> @@ 2 :> << >>
HouseOwned == 0 :> <<0, 6>> @@ 1 :> <<1, 4>> @@ 2 :> <<5>>
HouseStored ==
  (0 :> Fill(House, 0 :> <<1, 5>> @@ 2 :> <<3>> @@ 6 :> <<6>>)) @@
  (1 :> Fill(House, 1 :> <<0, 2>> @@ 2 :> <<1, 4>> @@ 3 :> <<4>> @@ 4 :> <<2, 3>>)) @@
  (2 :> Fill(House, 3 :> <<2, 5>> @@ 5 :> <<3, 0>>))
=============================================================================
