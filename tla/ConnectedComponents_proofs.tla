---------------------- MODULE ConnectedComponents_proofs --------------------
(***************************************************************************)
(* Connected components labels the components of any graph, on any         *)
(* partition of it, with any hubs and any batch size: like the programs of *)
(* VertexPrograms_proofs, it relaxes and stays sound.                      *)
(***************************************************************************)
EXTENDS VertexPrograms_proofs

-----------------------------------------------------------------------------
(* What a loop that skips some of a list's elements has kept.              *)

\* f[n] is what the loop over the list has kept after n positions.
Loops(f, list, chosen) ==
  /\ f[0] = << >>
  /\ \A n \in Nat : n # 0 =>
       f[n] = IF n \in chosen THEN Append(f[n - 1], list[n]) ELSE f[n - 1]

LEMMA SomeLoops ==
  ASSUME NEW S, NEW list, NEW chosen, \A j \in chosen : list[j] \in S
  PROVE  \E f \in [Nat -> Seq(S)] : Loops(f, list, chosen)
<1> DEFINE U == Nat \X Seq(S)
           Onward(x) == <<x[1] + 1, IF x[1] + 1 \in chosen THEN Append(x[2], list[x[1] + 1]) ELSE x[2]>>
           G == [x \in U |-> Onward(x)]
           start == <<0, << >>>>
<1>1. start \in U
  <2>1. << >> \in Seq(S)
    OBVIOUS
  <2> QED
    BY <2>1
<1>2. G \in [U -> U]
  <2> SUFFICES ASSUME NEW x \in U PROVE Onward(x) \in U
    OBVIOUS
  <2>1. x[1] + 1 \in Nat /\ x[2] \in Seq(S)
    OBVIOUS
  <2>2. x[1] + 1 \in chosen => Append(x[2], list[x[1] + 1]) \in Seq(S)
    BY <2>1
  <2> QED
    BY <2>1, <2>2
<1>3. \A x \in U : G[x] = Onward(x)
  OBVIOUS
<1>0. \A x \in U : x[1] \in Nat /\ x[2] \in Seq(S)
  OBVIOUS
<1> HIDE DEF G, U, start, Onward
<1>4. PICK b \in [Nat -> U] : b[0] = start /\ \A n \in Nat : b[n + 1] = G[b[n]]
  BY <1>1, <1>2, Recursion
<1> DEFINE Bad == {n \in Nat : b[n][1] # n}
<1>5. Bad = {}
  <2> SUFFICES ASSUME Bad # {} PROVE FALSE
    OBVIOUS
  <2>1. PICK n \in Bad : \A m \in Bad : n <= m
    <3>1. Bad \subseteq Nat
      OBVIOUS
    <3> HIDE DEF Bad
    <3> QED
      BY <3>1, Least
  <2>2. n # 0
    BY <1>4 DEF start
  <2>3. n - 1 \in Nat /\ ~(n <= n - 1) /\ (n - 1) + 1 = n
    BY <2>2
  <2>4. b[n - 1][1] = n - 1
    BY <2>1, <2>3
  <2>5. b[n] = Onward(b[n - 1])
    BY <1>3, <1>4, <2>3
  <2> QED
    BY <2>1, <2>3, <2>4, <2>5 DEF Onward
<1>6. \A n \in Nat : b[n][1] = n
  BY <1>5
<1> HIDE DEF Bad
<1> DEFINE upto == [n \in Nat |-> b[n][2]]
<1>7. upto[0] = << >> /\ upto \in [Nat -> Seq(S)]
  BY <1>0, <1>4 DEF start
<1>8. \A n \in Nat : n # 0 => upto[n] = IF n \in chosen THEN Append(upto[n - 1], list[n]) ELSE upto[n - 1]
  <2> SUFFICES ASSUME NEW n \in Nat, n # 0
               PROVE  upto[n] = IF n \in chosen THEN Append(upto[n - 1], list[n]) ELSE upto[n - 1]
    OBVIOUS
  <2>1. n - 1 \in Nat /\ (n - 1) + 1 = n
    OBVIOUS
  <2>2. b[n] = Onward(b[n - 1]) /\ b[n - 1][1] = n - 1
    BY <1>3, <1>4, <1>6, <2>1
  <2>3. b[n][2] = IF n \in chosen THEN Append(b[n - 1][2], list[n]) ELSE b[n - 1][2]
    BY <2>1, <2>2 DEF Onward
  <2> QED
    BY <2>1, <2>3
<1> QED
  BY <1>7, <1>8 DEF Loops

\* The members of a list.
Members(s) == {s[i] : i \in DOMAIN s}

LEMMA AppendedMembers ==
  ASSUME NEW S, NEW s \in Seq(S), NEW e \in S
  PROVE  Append(s, e) \in Seq(S) /\ Members(Append(s, e)) = Members(s) \cup {e}
<1> DEFINE t == Append(s, e)
<1>1. /\ t \in Seq(S) /\ Len(s) \in Nat /\ DOMAIN s = 1..Len(s) /\ DOMAIN t = 1..(Len(s) + 1)
      /\ t[Len(s) + 1] = e /\ \A i \in 1..Len(s) : t[i] = s[i]
  OBVIOUS
<1> HIDE DEF t
<1>2. \A i \in DOMAIN t : i \in DOMAIN s \/ i = Len(s) + 1
  BY <1>1
<1>3. DOMAIN s \subseteq DOMAIN t /\ Len(s) + 1 \in DOMAIN t
  BY <1>1
<1>4. Members(t) = Members(s) \cup {e}
  BY <1>1, <1>2, <1>3 DEF Members
<1> QED
  BY <1>1, <1>4 DEF t

\* The members of the list that the loop has kept after n positions.
Kept(list, chosen, n) == {list[j] : j \in {k \in chosen : k <= n}}

\* The chosen positions hold members of S.
Positions(S, list, chosen) == \A j \in chosen : j \in Nat \ {0} /\ list[j] \in S

LEMMA LoopMembers ==
  ASSUME NEW S, NEW list, NEW chosen, Positions(S, list, chosen),
         NEW f, Loops(f, list, chosen)
  PROVE  \A n \in Nat : f[n] \in Seq(S) /\ Members(f[n]) = Kept(list, chosen, n)
<1> DEFINE Wrong == {n \in Nat : ~(f[n] \in Seq(S) /\ Members(f[n]) = Kept(list, chosen, n))}
<1> SUFFICES ASSUME Wrong # {} PROVE FALSE
  OBVIOUS
<1>1. PICK n \in Wrong : \A m \in Wrong : n <= m
  <2>1. Wrong \subseteq Nat
    OBVIOUS
  <2> HIDE DEF Wrong
  <2> QED
    BY <2>1, Least
<1>0. \A j \in chosen : j \in Nat \ {0} /\ list[j] \in S
  BY DEF Positions
<1>2. n # 0
  <2>1. << >> \in Seq(S) /\ Members(<< >>) = {}
    BY DEF Members
  <2>2. Kept(list, chosen, 0) = {}
    BY <1>0 DEF Kept
  <2> QED
    BY <1>1, <2>1, <2>2 DEF Loops
<1>3. n \in Nat /\ n - 1 \in Nat /\ ~(n <= n - 1)
  BY <1>2
<1>4. f[n - 1] \in Seq(S) /\ Members(f[n - 1]) = Kept(list, chosen, n - 1)
  BY <1>1, <1>3
<1>5. f[n] = IF n \in chosen THEN Append(f[n - 1], list[n]) ELSE f[n - 1]
  BY <1>2, <1>3 DEF Loops
<1>6. \A j \in chosen : j <= n <=> j <= n - 1 \/ j = n
  BY <1>0, <1>3
<1>7. Kept(list, chosen, n) = Kept(list, chosen, n - 1) \cup (IF n \in chosen THEN {list[n]} ELSE {})
  BY <1>6 DEF Kept
<1>8. f[n] \in Seq(S) /\ Members(f[n]) = Kept(list, chosen, n)
  <2>1. CASE n \in chosen
    <3>1. /\ Append(f[n - 1], list[n]) \in Seq(S)
          /\ Members(Append(f[n - 1], list[n])) = Members(f[n - 1]) \cup {list[n]}
      BY <1>0, <1>4, <2>1, AppendedMembers
    <3> QED
      BY <1>4, <1>5, <1>7, <2>1, <3>1
  <2>2. CASE n \notin chosen
    BY <1>4, <1>5, <1>7, <2>2
  <2> QED
    BY <2>1, <2>2
<1> QED
  BY <1>1, <1>8

LEMMA PickedFacts ==
  ASSUME NEW S, NEW list, NEW chosen, Len(list) \in Nat,
         \A j \in chosen : j \in 1..Len(list) /\ list[j] \in S
  PROVE  /\ CC!Picked(list, chosen) \in Seq(S)
         /\ Members(CC!Picked(list, chosen)) = {list[j] : j \in chosen}
<1> DEFINE Fits(f) == f = [n \in Nat |-> IF n = 0 THEN << >>
                             ELSE IF n \in chosen THEN Append(f[n - 1], list[n]) ELSE f[n - 1]]
           g == CHOOSE f : Fits(f)
<1>1. CC!Picked(list, chosen) = g[Len(list)]
  BY DEF CC!Picked
<1>2. \E f : Fits(f)
  <2>1. PICK f \in [Nat -> Seq(S)] : Loops(f, list, chosen)
    BY SomeLoops
  <2>2. f = [n \in Nat |-> f[n]]
    OBVIOUS
  <2>3. \A n \in Nat : f[n] = IF n = 0 THEN << >>
                             ELSE IF n \in chosen THEN Append(f[n - 1], list[n]) ELSE f[n - 1]
    BY <2>1 DEF Loops
  <2> QED
    BY <2>2, <2>3
<1>3. Fits(g)
  <2> HIDE DEF Fits
  <2> QED
    BY <1>2
<1> HIDE DEF g
<1>4. Loops(g, list, chosen)
  BY <1>3 DEF Loops
<1> HIDE DEF Fits
<1>5. \A j \in chosen : j \in Nat \ {0} /\ list[j] \in S /\ j <= Len(list)
  OBVIOUS
<1>6. g[Len(list)] \in Seq(S) /\ Members(g[Len(list)]) = Kept(list, chosen, Len(list))
  <2>1. Positions(S, list, chosen)
    BY <1>5 DEF Positions
  <2>2. PICK f : f = g
    OBVIOUS
  <2>3. Loops(f, list, chosen)
    BY <1>4, <2>2
  <2>4. \A n \in Nat : f[n] \in Seq(S) /\ Members(f[n]) = Kept(list, chosen, n)
    BY <2>1, <2>3, LoopMembers, Zenon
  <2> QED
    BY <2>2, <2>4
<1>7. Kept(list, chosen, Len(list)) = {list[j] : j \in chosen}
  BY <1>5 DEF Kept
<1> QED
  BY <1>1, <1>6, <1>7

\* The pairs in near, and those an edge more connects.
Joined(near) ==
  near \cup {p \in Vertex \X Vertex : \E u \in Vertex : <<p[1], u>> \in near /\ CC!Selected(u, p[2])}

\* The recursive definition of the pairs that are connected.
LEMMA WithinFacts ==
  /\ \A k \in Nat : CC!Within[k] \subseteq Vertex \X Vertex
  /\ CC!Within[0] = {<<v, v>> : v \in Vertex}
  /\ \A n \in Nat : CC!Within[n + 1] = Joined(CC!Within[n])
<1> DEFINE U == SUBSET (Vertex \X Vertex)
           G == [near \in U |-> Joined(near)]
           start == {<<v, v>> : v \in Vertex}
<1>1. start \in U
  OBVIOUS
<1>2. G \in [U -> U]
  BY DEF Joined
<1>3. \A near \in U : G[near] = Joined(near)
  OBVIOUS
<1>0. \A x \in U : x \subseteq Vertex \X Vertex
  OBVIOUS
<1> HIDE DEF G, U, start
<1>4. PICK b \in [Nat -> U] : b[0] = start /\ \A n \in Nat : b[n + 1] = G[b[n]]
  BY <1>1, <1>2, Recursion
<1>5. \A n \in Nat : b[n] = IF n = 0 THEN start ELSE Joined(b[n - 1])
  <2> SUFFICES ASSUME NEW n \in Nat, n # 0 PROVE b[n] = Joined(b[n - 1])
    BY <1>4
  <2>1. n - 1 \in Nat /\ (n - 1) + 1 = n
    OBVIOUS
  <2>2. b[n - 1] \in U
    BY <1>4, <2>1
  <2> QED
    BY <1>3, <1>4, <2>1, <2>2
<1> DEFINE Fits(f) == f = [n \in Nat |-> IF n = 0 THEN start ELSE Joined(f[n - 1])]
<1>6. Fits(b)
  BY <1>4, <1>5
<1>7. CC!Within = CHOOSE f : Fits(f)
  BY DEF CC!Within, Joined, start
<1>8. Fits(CC!Within)
  <2> HIDE DEF Fits
  <2> QED
    BY <1>6, <1>7
<1>9. \A n \in Nat : CC!Within[n] = IF n = 0 THEN start ELSE Joined(CC!Within[n - 1])
  BY <1>8
<1>10. ASSUME NEW n \in Nat PROVE CC!Within[n + 1] = Joined(CC!Within[n])
  <2>1. n + 1 \in Nat /\ n + 1 # 0 /\ n + 1 - 1 = n
    OBVIOUS
  <2> QED
    BY <1>9, <2>1
<1>11. \A n \in Nat : CC!Within[n] \in U
  <2> DEFINE Bad == {n \in Nat : CC!Within[n] \notin U}
  <2> SUFFICES ASSUME Bad # {} PROVE FALSE
    OBVIOUS
  <2>1. PICK n \in Bad : \A m \in Bad : n <= m
    <3>1. Bad \subseteq Nat
      OBVIOUS
    <3> HIDE DEF Bad
    <3> QED
      BY <3>1, Least
  <2>2. n # 0
    BY <1>1, <1>9
  <2>3. n - 1 \in Nat /\ ~(n <= n - 1)
    BY <2>2
  <2>4. CC!Within[n - 1] \in U
    BY <2>1, <2>3
  <2>5. CC!Within[n] = G[CC!Within[n - 1]]
    BY <1>3, <1>9, <2>2, <2>4
  <2> QED
    BY <1>2, <2>4, <2>5
<1> QED
  BY <1>0, <1>9, <1>10, <1>11 DEF start

\* Edges connect the two.
Linked(u, x) == \E k \in Nat : <<u, x>> \in CC!Within[k]

LEMMA WithinSteps ==
  /\ \A n \in Nat : CC!Within[n] \subseteq CC!Within[n + 1]
  /\ \A u \in Vertex : <<u, u>> \in CC!Within[0]
  /\ \A u, x \in Vertex : <<u, x>> \in CC!Within[0] => u = x
  /\ \A n \in Nat, u, x, y \in Vertex :
       <<u, x>> \in CC!Within[n] /\ CC!Selected(x, y) => <<u, y>> \in CC!Within[n + 1]
  /\ \A n \in Nat, u, y \in Vertex : <<u, y>> \in CC!Within[n + 1] =>
       \/ <<u, y>> \in CC!Within[n]
       \/ \E x \in Vertex : <<u, x>> \in CC!Within[n] /\ CC!Selected(x, y)
<1>1. \A n \in Nat : CC!Within[n] \subseteq CC!Within[n + 1]
  BY WithinFacts DEF Joined
<1>2. \A u \in Vertex : <<u, u>> \in CC!Within[0]
  BY WithinFacts
<1>3. \A u, x \in Vertex : <<u, x>> \in CC!Within[0] => u = x
  BY WithinFacts
<1>4. ASSUME NEW n \in Nat, NEW u \in Vertex, NEW x \in Vertex, NEW y \in Vertex,
             <<u, x>> \in CC!Within[n], CC!Selected(x, y)
      PROVE  <<u, y>> \in CC!Within[n + 1]
  <2> DEFINE p == <<u, y>>
  <2>1. p \in Vertex \X Vertex /\ p[1] = u /\ p[2] = y
    OBVIOUS
  <2> HIDE DEF p
  <2>2. p \in Joined(CC!Within[n])
    BY <1>4, <2>1 DEF Joined
  <2> QED
    BY <2>2, WithinFacts DEF p
<1>5. ASSUME NEW n \in Nat, NEW u \in Vertex, NEW y \in Vertex,
             <<u, y>> \in CC!Within[n + 1], <<u, y>> \notin CC!Within[n]
      PROVE  \E x \in Vertex : <<u, x>> \in CC!Within[n] /\ CC!Selected(x, y)
  <2> DEFINE p == <<u, y>>
  <2>1. p \in Joined(CC!Within[n]) /\ p \notin CC!Within[n]
    BY <1>5, WithinFacts
  <2>2. p[1] = u /\ p[2] = y
    OBVIOUS
  <2> HIDE DEF p
  <2> QED
    BY <2>1, <2>2 DEF Joined
<1>6. \A n \in Nat, u, x, y \in Vertex :
       <<u, x>> \in CC!Within[n] /\ CC!Selected(x, y) => <<u, y>> \in CC!Within[n + 1]
  BY <1>4
<1>7. \A n \in Nat, u, y \in Vertex : <<u, y>> \in CC!Within[n + 1] =>
       \/ <<u, y>> \in CC!Within[n]
       \/ \E x \in Vertex : <<u, x>> \in CC!Within[n] /\ CC!Selected(x, y)
  BY <1>5
<1> QED
  BY <1>1, <1>2, <1>3, <1>6, <1>7, Zenon

\* What is connected is so by fewer edges than there are vertices.
LEMMA ShortLinks ==
  ASSUME NEW u \in Vertex
  PROVE  \A x \in Vertex : Linked(u, x) => <<u, x>> \in CC!Connected
<1> DEFINE S == {x \in Vertex : Linked(u, x)}
           Closest(x, n) == <<u, x>> \in CC!Within[n] /\ \A m \in Nat : <<u, x>> \in CC!Within[m] => n <= m
           K == [x \in S |-> CHOOSE n \in Nat : Closest(x, n)]
<1>1. \A x \in S : K[x] \in Nat /\ Closest(x, K[x])
  <2> SUFFICES ASSUME NEW x \in S PROVE \E n \in Nat : Closest(x, n)
    OBVIOUS
  <2> DEFINE p == <<u, x>>
  <2>1. PICK k \in Nat : p \in CC!Within[k]
    BY DEF Linked
  <2> HIDE DEF p
  <2>2. \E n \in Nat : p \in CC!Within[n] /\ \A m \in Nat : p \in CC!Within[m] => n <= m
    BY <2>1, FirstIn
  <2> QED
    BY <2>2 DEF p
<1>2. K \in [S -> Nat] /\ S \in SUBSET Vertex
  BY <1>1
<1> HIDE DEF K
<1>3. ASSUME NEW y \in S, K[y] # 0 PROVE \E x \in S : K[x] = K[y] - 1
  <2> DEFINE k == K[y]
  <2>1. k \in Nat /\ k # 0 /\ <<u, y>> \in CC!Within[k] /\ \A m \in Nat : <<u, y>> \in CC!Within[m] => k <= m
    BY <1>1, <1>3
  <2> HIDE DEF k
  <2>2. k - 1 \in Nat /\ ~(k <= k - 1) /\ (k - 1) + 1 = k
    BY <2>1
  <2>3. PICK x \in Vertex : <<u, x>> \in CC!Within[k - 1] /\ CC!Selected(x, y)
    BY <2>1, <2>2, WithinSteps
  <2>4. x \in S
    BY <2>2, <2>3 DEF Linked
  <2>5. K[x] \in Nat /\ <<u, x>> \in CC!Within[K[x]] /\ K[x] <= k - 1
    BY <1>1, <2>2, <2>3, <2>4
  <2>6. <<u, y>> \in CC!Within[K[x] + 1]
    BY <2>3, <2>5, WithinSteps
  <2>7. k <= K[x] + 1
    BY <2>1, <2>5, <2>6
  <2>8. K[x] = k - 1
    BY <2>1, <2>5, <2>7
  <2> QED
    BY <2>4, <2>8 DEF k
<1>4. \A x \in S : K[x] < Cardinality(Vertex)
  BY <1>2, <1>3, GraphAssumption, Rungs
<1>5. CC!Connected = CC!Within[Cardinality(Vertex)]
  <2>1. CC!Cardinality(Vertex) = Cardinality(Vertex)
    BY Zenon DEF CC!Cardinality, Cardinality
  <2> QED
    BY <2>1 DEF CC!Connected
<1>6. ASSUME NEW x \in S PROVE <<u, x>> \in CC!Connected
  <2>1. K[x] \in Nat /\ <<u, x>> \in CC!Within[K[x]]
    BY <1>1
  <2>2. Cardinality(Vertex) \in Nat
    BY GraphAssumption, FS_CardinalityType
  <2>3. K[x] <= Cardinality(Vertex)
    BY <1>4, <2>1, <2>2
  <2>4. CC!Within[K[x]] \subseteq CC!Within[Cardinality(Vertex)]
    BY <2>1, <2>2, <2>3, WithinSteps, Rising
  <2> QED
    BY <1>5, <2>1, <2>4
<1> QED
  BY <1>6

\* An edge in front connects, because it goes both ways.
LEMMA LinkedNext ==
  ASSUME NEW u \in Vertex, NEW w \in Vertex, CC!Selected(u, w)
  PROVE  \A x \in Vertex : Linked(u, x) => Linked(w, x)
<1> DEFINE Bad == {n \in Nat : \E x \in Vertex : <<u, x>> \in CC!Within[n] /\ <<w, x>> \notin CC!Within[n + 1]}
<1>0. CC!Selected(w, u)
  BY LabelAssumption
<1>1. Bad = {}
  <2> SUFFICES ASSUME Bad # {} PROVE FALSE
    OBVIOUS
  <2>1. PICK n \in Bad : \A m \in Bad : n <= m
    <3>1. Bad \subseteq Nat
      OBVIOUS
    <3> HIDE DEF Bad
    <3> QED
      BY <3>1, Least
  <2>2. PICK x \in Vertex : <<u, x>> \in CC!Within[n] /\ <<w, x>> \notin CC!Within[n + 1]
    OBVIOUS
  <2>3. n # 0
    <3> SUFFICES ASSUME n = 0 PROVE FALSE
      OBVIOUS
    <3>1. x = u
      BY <2>2, WithinSteps
    <3>2. <<w, w>> \in CC!Within[0] /\ 0 \in Nat
      BY WithinSteps
    <3>3. <<w, u>> \in CC!Within[0 + 1]
      BY <1>0, <3>2, WithinSteps
    <3> QED
      BY <2>2, <3>1, <3>3
  <2>4. n \in Nat /\ n - 1 \in Nat /\ ~(n <= n - 1) /\ (n - 1) + 1 = n
    BY <2>3
  <2>5. \A y \in Vertex : <<u, y>> \in CC!Within[n - 1] => <<w, y>> \in CC!Within[n]
    <3>1. n - 1 \notin Bad
      BY <2>1, <2>4
    <3> QED
      BY <2>4, <3>1
  <2>6. <<w, x>> \notin CC!Within[n]
    BY <2>2, <2>4, WithinSteps
  <2>7. <<u, x>> \notin CC!Within[n - 1]
    BY <2>5, <2>6
  <2>8. PICK y \in Vertex : <<u, y>> \in CC!Within[n - 1] /\ CC!Selected(y, x)
    BY <2>2, <2>4, <2>7, WithinSteps
  <2> QED
    BY <2>2, <2>4, <2>5, <2>8, WithinSteps
<1> QED
  BY <1>1 DEF Linked

\* Labels that no edge could lower, and that are at most the vertex's own, are
\* at most those of all that is connected.
LEMMA SettledLabels ==
  ASSUME NEW L, \A u \in Vertex : L[u] \in Nat /\ L[u] <= u,
         \A u, w \in Vertex : CC!Selected(u, w) => L[w] <= L[u]
  PROVE  \A u, x \in Vertex : Linked(u, x) => L[u] <= x
<1> DEFINE Bad == {n \in Nat : \E u, x \in Vertex : <<u, x>> \in CC!Within[n] /\ ~(L[u] <= L[x])}
<1>1. Bad = {}
  <2> SUFFICES ASSUME Bad # {} PROVE FALSE
    OBVIOUS
  <2>1. PICK n \in Bad : \A m \in Bad : n <= m
    <3>1. Bad \subseteq Nat
      OBVIOUS
    <3> HIDE DEF Bad
    <3> QED
      BY <3>1, Least
  <2>2. PICK u \in Vertex, x \in Vertex : <<u, x>> \in CC!Within[n] /\ ~(L[u] <= L[x])
    OBVIOUS
  <2>3. L[u] \in Nat /\ L[x] \in Nat /\ L[u] # L[x]
    BY <2>2
  <2>4. n # 0
    BY <2>2, <2>3, WithinSteps
  <2>5. n - 1 \in Nat /\ ~(n <= n - 1) /\ (n - 1) + 1 = n
    BY <2>4
  <2>6. \A y \in Vertex : <<u, y>> \in CC!Within[n - 1] => L[u] <= L[y]
    <3>1. n - 1 \notin Bad
      BY <2>1, <2>5
    <3> QED
      BY <2>5, <3>1
  <2>7. PICK y \in Vertex : <<u, y>> \in CC!Within[n - 1] /\ CC!Selected(y, x)
    BY <2>2, <2>5, <2>6, WithinSteps
  <2>8. CC!Selected(x, y)
    BY <2>7, LabelAssumption
  <2>9. L[u] <= L[y] /\ L[y] <= L[x] /\ L[y] \in Nat
    BY <2>6, <2>7, <2>8
  <2> QED
    BY <2>2, <2>3, <2>9
<1>2. ASSUME NEW u \in Vertex, NEW x \in Vertex, Linked(u, x) PROVE L[u] <= x
  <2>1. PICK k \in Nat : <<u, x>> \in CC!Within[k]
    BY <1>2 DEF Linked
  <2>2. L[u] <= L[x]
    BY <1>1, <2>1
  <2>3. x \in Nat /\ L[u] \in Nat /\ L[x] \in Nat /\ L[x] <= x
    BY LabelAssumption
  <2> QED
    BY <2>2, <2>3
<1> QED
  BY <1>2

\* Such labels, when they are connected to their vertices, are the least ones.
LEMMA LabelsAreLeast ==
  ASSUME NEW L, \A u \in Vertex : L[u] \in Nat /\ L[u] <= u,
         \A u, w \in Vertex : CC!Selected(u, w) => L[w] <= L[u],
         NEW u \in Vertex, L[u] \in Vertex, Linked(u, L[u])
  PROVE  L[u] = CC!LeastLabel[u]
<1> DEFINE Is(x) == <<u, x>> \in CC!Connected /\ \A y \in Vertex : <<u, y>> \in CC!Connected => x <= y
           c == CHOOSE x \in Vertex : Is(x)
<1>1. CC!LeastLabel[u] = c
  BY DEF CC!LeastLabel
<1>2. \A y \in Vertex : <<u, y>> \in CC!Connected => Linked(u, y)
  <2>1. CC!Cardinality(Vertex) = Cardinality(Vertex)
    BY Zenon DEF CC!Cardinality, Cardinality
  <2>2. Cardinality(Vertex) \in Nat
    BY GraphAssumption, FS_CardinalityType
  <2> QED
    BY <2>1, <2>2 DEF CC!Connected, Linked
<1>3. Is(L[u])
  <2>1. <<u, L[u]>> \in CC!Connected
    BY ShortLinks
  <2>2. \A y \in Vertex : <<u, y>> \in CC!Connected => L[u] <= y
    BY <1>2, SettledLabels
  <2> QED
    BY <2>1, <2>2
<1>4. c \in Vertex /\ Is(c)
  <2> HIDE DEF Is
  <2> QED
    BY <1>3
<1> HIDE DEF c
<1>5. c <= L[u] /\ L[u] <= c
  BY <1>3, <1>4
<1>6. c \in Nat /\ L[u] \in Nat
  BY <1>4, LabelAssumption
<1> QED
  BY <1>1, <1>5, <1>6

-----------------------------------------------------------------------------
(* The visitor queue of connected components alone, and its flow.          *)

LabelData == [program : {"cc"}, d : CC!Data]
LabelWork == [CC!Start EXCEPT !.data = [r \in Rank |-> [program |-> "cc", d |-> @[r]]]]

HeldLabel(a, u) == CC!Held(a.d, u)
CarriedLabel(v) == CC!Carried(v)

CQ == INSTANCE ReplicaFilter_proofs
       WITH InitVisit <- Visit, Payload <- Vertex, AlgData <- LabelData, InitialWork <- {LabelWork},
            Held <- HeldLabel, Carried <- CarriedLabel, Passes <- VertexPasses

SameLabel(u, w, c) == c
OwnLabel(u) == u

\* The targets of the edges of u on r that count.
Neighbours(r, u) == {w \in VertexPasses : Stores(r, u, w) /\ <<u, w>> \in EdgePasses}

\* A visitor of a vertex that counts brings the label of a vertex connected to
\* it; a copy holds such a label, or none yet.
LabelVisitors == {v \in CQ!Visitor : v.vertex \in VertexPasses => Linked(v.vertex, v.val)}
LabelVisits == {v \in CQ!Visitor : Linked(v.vertex, v.val)}
LinkedLabels == {a \in LabelData : \A u \in Vertex : a.d[u] # DefaultLabel => Linked(u, a.d[u])}

CR == INSTANCE Relaxation_proofs
       WITH items <- CQ!Items, Visitor <- CQ!Visitor, AlgData <- LabelData, InitVisit <- Visit,
            Held <- HeldLabel, Carried <- CarriedLabel, Passes <- VertexPasses, Targets <- Neighbours,
            Offer <- SameLabel, Ceiling <- OwnLabel, Writes <- TRUE, Seeds <- {},
            Sound <- LabelVisitors, SoundVisit <- LabelVisits, SoundData <- LinkedLabels

\* What pre_visit and visit return.
LEMMA LabelPreVisit ==
  ASSUME NEW r \in Rank, NEW a \in LabelData, NEW v \in CQ!Visitor, NEW out \in PreVisit(r, a, v)
  PROVE  /\ out \in [ret : BOOLEAN, data : LabelData]
         /\ out.ret <=> v.vertex \in VertexPasses /\ v.val < a.d[v.vertex]
         /\ \A u \in Vertex : out.data.d[u] = IF out.ret /\ u = v.vertex THEN v.val ELSE a.d[u]
<1> DEFINE p == CC!PreVisit(a.d, v)
           d == a.d
           better == v.vertex \in VertexPasses /\ v.val < d[v.vertex]
<1>1. a.program = "cc" /\ d \in [Vertex -> Vertex \cup {DefaultLabel}]
  BY DEF LabelData, CC!Data
<1>2. v.vertex \in Vertex /\ v.val \in Vertex
  BY DEF CQ!Visitor
<1>3. p = [ret |-> better, data |-> IF better THEN [d EXCEPT ![v.vertex] = v.val] ELSE d]
  BY DEF CC!PreVisit
<1>4. PreVisit(r, a, v) = {[p EXCEPT !.data = [program |-> "cc", d |-> p.data]]}
  <2>1. PreVisit(r, a, v) = Tagged(a, p)
    BY <1>1 DEF PreVisit
  <2> HIDE DEF p
  <2> QED
    BY <1>1, <2>1 DEF Tagged
<1>0. better \in BOOLEAN
  OBVIOUS
<1>5. better <=> v.vertex \in VertexPasses /\ v.val < a.d[v.vertex]
  OBVIOUS
<1> HIDE DEF p, better, d
<1>6. out = [ret |-> better, data |-> [program |-> "cc", d |-> p.data]]
  BY <1>3, <1>4
<1>7. p.data = IF better THEN [d EXCEPT ![v.vertex] = v.val] ELSE d
  BY <1>3
<1>8. p.data \in [Vertex -> Vertex \cup {DefaultLabel}]
  BY <1>1, <1>2, <1>7
<1>9. \A u \in Vertex : p.data[u] = IF better /\ u = v.vertex THEN v.val ELSE d[u]
  BY <1>1, <1>2, <1>7
<1>10. out \in [ret : BOOLEAN, data : LabelData] /\ out.ret = better /\ out.data.d = p.data
  BY <1>0, <1>6, <1>8 DEF LabelData, CC!Data
<1> QED
  BY <1>5, <1>9, <1>10 DEF d

\* The visitors a visit makes.
LEMMA UsefulFacts ==
  ASSUME NEW r \in Rank, NEW v \in CQ!Visitor
  PROVE  /\ CC!Useful(r, v) \in Seq(CQ!Visitor)
         /\ \A n \in Members(CC!Useful(r, v)) :
              /\ ~n.bcast /\ n.val = v.val
              /\ Stores(r, v.vertex, n.vertex) /\ <<v.vertex, n.vertex>> \in EdgePasses
         /\ \A w \in Neighbours(r, v.vertex) : v.val < w =>
              \E n \in Members(CC!Useful(r, v)) : n.vertex = w
<1> DEFINE u == v.vertex
           list == Stored[r][u]
           new == CC!ToNeighbours(r, u, [w \in Vertex |-> v.val])
           chosen == {i \in DOMAIN new : <<u, new[i].vertex>> \in EdgePasses /\ v.val < new[i].vertex}
<1>1. u \in Vertex /\ v.val \in Vertex
  BY DEF CQ!Visitor
<1>2. list \in Seq(Vertex)
  BY <1>1, Partition
<1>3. Len(list) \in Nat /\ DOMAIN list = 1..Len(list) /\ \A i \in DOMAIN list : list[i] \in Vertex
  BY <1>2
<1>4. CC!Useful(r, v) = CC!Picked(new, chosen)
  BY DEF CC!Useful
<1>5. \A i \in DOMAIN list : Stores(r, u, list[i])
  BY DEF Stores
<1>6. \A w \in Neighbours(r, u) : <<u, w>> \in EdgePasses /\ \E i \in DOMAIN list : list[i] = w
  BY DEF Neighbours, Stores
<1> HIDE DEF list
<1>7. new = [i \in DOMAIN list |-> [vertex |-> list[i], bcast |-> FALSE, val |-> v.val]]
  BY <1>3 DEF CC!ToNeighbours, CC!NewVisitor, list
<1>8. \A i \in DOMAIN list : [vertex |-> list[i], bcast |-> FALSE, val |-> v.val] \in CQ!Visitor
  BY <1>1, <1>3 DEF CQ!Visitor
<1> HIDE DEF new
<1>9. new \in Seq(CQ!Visitor) /\ DOMAIN new = DOMAIN list
  BY <1>2, <1>7, <1>8
<1>10. \A i \in DOMAIN new : new[i] = [vertex |-> list[i], bcast |-> FALSE, val |-> v.val]
  BY <1>7, <1>9
<1>11. Len(new) \in Nat /\ \A j \in chosen : j \in 1..Len(new) /\ new[j] \in CQ!Visitor
  BY <1>9
<1> DEFINE kept == CC!Picked(new, chosen)
<1>12. kept \in Seq(CQ!Visitor) /\ Members(kept) = {new[j] : j \in chosen}
  <2> HIDE DEF chosen
  <2> QED
    BY <1>11, PickedFacts
<1>13. \A n \in Members(kept) :
         /\ ~n.bcast /\ n.val = v.val
         /\ Stores(r, u, n.vertex) /\ <<u, n.vertex>> \in EdgePasses
  <2>1. \A j \in chosen : /\ ~new[j].bcast /\ new[j].val = v.val
                          /\ Stores(r, u, new[j].vertex) /\ <<u, new[j].vertex>> \in EdgePasses
    BY <1>5, <1>9, <1>10
  <2> HIDE DEF kept, chosen
  <2>2. \A n \in Members(kept) : \E j \in chosen : n = new[j]
    BY <1>12
  <2> QED
    BY <2>1, <2>2
<1>14. ASSUME NEW w \in Neighbours(r, u), v.val < w PROVE \E n \in Members(kept) : n.vertex = w
  <2>1. PICK i \in DOMAIN list : list[i] = w
    BY <1>6
  <2>2. new[i].vertex = w /\ i \in DOMAIN new
    BY <1>9, <1>10, <2>1
  <2>3. i \in chosen
    BY <1>6, <1>14, <2>2
  <2> QED
    BY <1>12, <2>2, <2>3
<1> QED
  BY <1>4, <1>12, <1>13, <1>14

LEMMA LabelVisit ==
  ASSUME NEW r \in Rank, NEW a \in LabelData, NEW v \in CQ!Visitor, NEW out \in Visit(r, a, v)
  PROVE  /\ out \in [ret : BOOLEAN, data : LabelData, spawn : Seq(CQ!Visitor)]
         /\ out.ret <=> v.vertex \in VertexPasses /\ v.val <= a.d[v.vertex]
         /\ \A u \in Vertex : out.data.d[u] = IF out.ret /\ u = v.vertex THEN v.val ELSE a.d[u]
         /\ out.spawn = IF out.ret THEN CC!Useful(r, v) ELSE << >>
<1> DEFINE p == CC!Visit(r, a.d, v)
           d == a.d
           low == v.vertex \in VertexPasses /\ d[v.vertex] >= v.val
           new == CC!Useful(r, v)
<1>1. a.program = "cc" /\ d \in [Vertex -> Vertex \cup {DefaultLabel}]
  BY DEF LabelData, CC!Data
<1>2. v.vertex \in Vertex /\ v.val \in Vertex
  BY DEF CQ!Visitor
<1>3. p = IF low THEN [ret |-> TRUE, data |-> [d EXCEPT ![v.vertex] = v.val], spawn |-> new]
                 ELSE [ret |-> FALSE, data |-> d, spawn |-> << >>]
  BY DEF CC!Visit
<1>4. Visit(r, a, v) = {[p EXCEPT !.data = [program |-> "cc", d |-> p.data]]}
  <2>1. Visit(r, a, v) = Tagged(a, p)
    <3>1. a.program = "cc"
      BY <1>1
    <3> QED
      BY <3>1 DEF Visit
  <2> HIDE DEF p
  <2> QED
    BY <1>1, <2>1 DEF Tagged
<1>0. low \in BOOLEAN
  OBVIOUS
<1>5. low <=> v.vertex \in VertexPasses /\ v.val <= a.d[v.vertex]
  <2>1. d[v.vertex] \in Nat /\ v.val \in Nat
    BY <1>1, <1>2, LabelAssumption
  <2> QED
    BY <2>1
<1>6. new \in Seq(CQ!Visitor)
  BY UsefulFacts
<1> HIDE DEF p, low, d, new
<1>7. out = [ret |-> p.ret, data |-> [program |-> "cc", d |-> p.data], spawn |-> p.spawn]
  BY <1>3, <1>4
<1>8. /\ p.ret = low /\ p.spawn = (IF low THEN new ELSE << >>)
      /\ p.data = IF low THEN [d EXCEPT ![v.vertex] = v.val] ELSE d
  BY <1>0, <1>3
<1>9. p.data \in [Vertex -> Vertex \cup {DefaultLabel}]
  BY <1>1, <1>2, <1>8
<1>10. \A u \in Vertex : p.data[u] = IF low /\ u = v.vertex THEN v.val ELSE d[u]
  BY <1>1, <1>2, <1>8
<1>11. /\ out \in [ret : BOOLEAN, data : LabelData, spawn : Seq(CQ!Visitor)]
       /\ out.ret = low /\ out.data.d = p.data /\ out.spawn = IF low THEN new ELSE << >>
  <2>1. p.spawn \in Seq(CQ!Visitor) /\ p.ret \in BOOLEAN
    BY <1>0, <1>6, <1>8
  <2>2. [program |-> "cc", d |-> p.data] \in LabelData
    BY <1>9 DEF LabelData, CC!Data
  <2>3. out \in [ret : BOOLEAN, data : LabelData, spawn : Seq(CQ!Visitor)]
    BY <1>7, <2>1, <2>2
  <2>4. out.ret = p.ret /\ out.data.d = p.data /\ out.spawn = p.spawn
    BY <1>7
  <2> QED
    BY <1>8, <2>3, <2>4
<1> QED
  BY <1>5, <1>10, <1>11 DEF d, new

\* The visitors that a visit makes, by what they do.
LEMMA LabelSpawn ==
  ASSUME NEW r \in Rank, NEW a \in LabelData, NEW v \in CQ!Visitor, NEW out \in Visit(r, a, v)
  PROVE  /\ \A i \in DOMAIN out.spawn :
              /\ out.spawn[i] \in CQ!Visitor /\ out.ret
              /\ ~out.spawn[i].bcast /\ out.spawn[i].val = v.val
              /\ Stores(r, v.vertex, out.spawn[i].vertex)
              /\ <<v.vertex, out.spawn[i].vertex>> \in EdgePasses
         /\ out.ret => \A w \in Neighbours(r, v.vertex) : v.val < w =>
              \E i \in DOMAIN out.spawn : out.spawn[i].vertex = w
<1> DEFINE new == out.spawn
<1>1. new \in Seq(CQ!Visitor) /\ new = IF out.ret THEN CC!Useful(r, v) ELSE << >>
  BY LabelVisit
<1> HIDE DEF new
<1>2. \A i \in DOMAIN new : new[i] \in CQ!Visitor /\ new[i] \in Members(new)
  BY <1>1 DEF Members
<1>3. CASE ~out.ret
  <2>1. DOMAIN new = {}
    BY <1>1, <1>3
  <2> QED
    BY <1>3, <2>1 DEF new
<1>4. CASE out.ret
  <2>1. new = CC!Useful(r, v)
    BY <1>1, <1>4
  <2>2. /\ \A n \in Members(new) :
             /\ ~n.bcast /\ n.val = v.val
             /\ Stores(r, v.vertex, n.vertex) /\ <<v.vertex, n.vertex>> \in EdgePasses
        /\ \A w \in Neighbours(r, v.vertex) : v.val < w => \E n \in Members(new) : n.vertex = w
    BY <2>1, UsefulFacts
  <2>3. ASSUME NEW w \in Neighbours(r, v.vertex), v.val < w PROVE \E i \in DOMAIN new : new[i].vertex = w
    <3>1. PICK n \in Members(new) : n.vertex = w
      BY <2>2, <2>3
    <3> QED
      BY <3>1 DEF Members
  <2> QED
    BY <1>2, <1>4, <2>2, <2>3 DEF new
<1> QED
  BY <1>3, <1>4

\* The list's vertices have their own visitors.
Own(u) == NewVisitor(u, u)

LEMMA OwnVisitors ==
  ASSUME NEW list \in Seq(Vertex)
  PROVE  LET new == [i \in DOMAIN list |-> Own(list[i])]
         IN  /\ new \in Seq(CQ!Visitor)
             /\ \A v \in CQ!Elements(new) : ~v.bcast /\ v.val = v.vertex /\ CC!InList(v.vertex, list)
             /\ \A u : CC!InList(u, list) => Own(u) \in CQ!Elements(new)
<1> DEFINE new == [i \in DOMAIN list |-> Own(list[i])]
<1>1. \A i \in DOMAIN list : list[i] \in Vertex /\ CC!InList(list[i], list)
  BY DEF CC!InList
<1>2. \A u \in Vertex : Own(u) \in CQ!Visitor
  BY DEF Own, NewVisitor, CQ!Visitor
<1>3. \A u : Own(u).vertex = u /\ ~Own(u).bcast /\ Own(u).val = u
  BY DEF Own, NewVisitor
<1>4. new \in Seq(CQ!Visitor)
  BY <1>1, <1>2
<1>5. DOMAIN new = DOMAIN list /\ \A i \in DOMAIN list : new[i] = Own(list[i])
  OBVIOUS
<1> HIDE DEF new
<1>6. \A v \in CQ!Elements(new) : ~v.bcast /\ v.val = v.vertex /\ CC!InList(v.vertex, list)
  BY <1>1, <1>3, <1>5 DEF CQ!Elements
<1>7. \A u : CC!InList(u, list) => Own(u) \in CQ!Elements(new)
  <2> SUFFICES ASSUME NEW u, NEW i \in DOMAIN list, list[i] = u PROVE Own(u) \in CQ!Elements(new)
    BY DEF CC!InList
  <2> QED
    BY <1>5 DEF CQ!Elements
<1> QED
  BY <1>4, <1>6, <1>7 DEF new

\* The work that connected components begins with.
LEMMA LabelStart ==
  /\ LabelWork = [citr |-> LabelWork.citr, vitr |-> LabelWork.vitr, source |-> LabelWork.source,
                  data |-> LabelWork.data]
  /\ LabelWork.citr \in [Rank -> Seq(CQ!Visitor)] /\ LabelWork.vitr \in [Rank -> Seq(CQ!Visitor)]
  /\ LabelWork.source = [r \in Rank |-> << >>]
  /\ \A r \in Rank :
       LET first == CQ!Elements(LabelWork.citr[r]) \cup CQ!Elements(LabelWork.vitr[r])
       IN  /\ \A v \in first : ~v.bcast /\ v.val = v.vertex /\ Master[v.vertex] = r
           /\ \A u \in Vertex : Master[u] = r => Own(u) \in first
  /\ LabelWork.data \in [Rank -> LabelData]
  /\ \A r \in Rank, u \in Vertex : LabelWork.data[r].d[u] = IF Master[u] = r THEN u ELSE DefaultLabel
<1> DEFINE New(list) == [i \in DOMAIN list |-> Own(list[i])]
           blank(r) == [u \in Vertex |-> IF CC!InList(u, Controllers[r]) \/ CC!InList(u, OwnedVertices[r])
                                         THEN u ELSE DefaultLabel]
           citrs == [r \in Rank |-> New(Controllers[r])]
           vitrs == [r \in Rank |-> New(OwnedVertices[r])]
<1>1. \A r \in Rank : Controllers[r] \in Seq(Vertex) /\ OwnedVertices[r] \in Seq(Vertex)
  BY GraphAssumption
<1>2. \A list \in Seq(Vertex) : \A i \in DOMAIN list : list[i] \in Vertex
  OBVIOUS
<1>3. \A list \in Seq(Vertex) :
        [i \in DOMAIN list |-> CC!NewVisitor(list[i], [v \in Vertex |-> v][list[i]])] = New(list)
  BY <1>2 DEF CC!NewVisitor, NewVisitor, Own
<1> DEFINE blanks == [r \in Rank |-> blank(r)]
<1>4. CC!Start = [citr |-> citrs, vitr |-> vitrs, source |-> Silent, data |-> blanks]
  BY <1>1, <1>3 DEF CC!Start, CC!FromEveryVertex, CC!Silent, Silent
<1>5. \A list \in Seq(Vertex) :
        /\ New(list) \in Seq(CQ!Visitor)
        /\ \A v \in CQ!Elements(New(list)) : ~v.bcast /\ v.val = v.vertex /\ CC!InList(v.vertex, list)
        /\ \A u : CC!InList(u, list) => Own(u) \in CQ!Elements(New(list))
  BY OwnVisitors
<1>6. \A r \in Rank : blank(r) \in CC!Data
  BY DEF CC!Data
<1>7. \A r \in Rank : \A v \in Vertex :
        CC!InList(v, Controllers[r]) \/ CC!InList(v, OwnedVertices[r]) <=> Master[v] = r
  BY GraphAssumption
<1>8. \A r \in Rank, u \in Vertex : blank(r)[u] = IF Master[u] = r THEN u ELSE DefaultLabel
  BY <1>7
<1> HIDE DEF New, blank
<1>9. \A r \in Rank : citrs[r] = New(Controllers[r]) /\ vitrs[r] = New(OwnedVertices[r])
  OBVIOUS
<1>10. citrs \in [Rank -> Seq(CQ!Visitor)] /\ vitrs \in [Rank -> Seq(CQ!Visitor)]
  BY <1>1, <1>5
<1>14. blanks \in [Rank -> CC!Data] /\ \A r \in Rank, u \in Vertex :
         blanks[r][u] = IF Master[u] = r THEN u ELSE DefaultLabel
  BY <1>6, <1>8
<1> HIDE DEF citrs, vitrs, blanks
<1>11. ASSUME NEW r \in Rank
       PROVE  LET first == CQ!Elements(citrs[r]) \cup CQ!Elements(vitrs[r])
              IN  /\ \A v \in first : ~v.bcast /\ v.val = v.vertex /\ Master[v.vertex] = r
                  /\ \A u \in Vertex : Master[u] = r => Own(u) \in first
  <2>1. \A v : CC!InList(v, Controllers[r]) \/ CC!InList(v, OwnedVertices[r]) => v \in Vertex
    BY <1>1, <1>2 DEF CC!InList
  <2>2. \A v \in CQ!Elements(citrs[r]) : ~v.bcast /\ v.val = v.vertex /\ CC!InList(v.vertex, Controllers[r])
    BY <1>1, <1>5, <1>9
  <2>3. \A v \in CQ!Elements(vitrs[r]) : ~v.bcast /\ v.val = v.vertex /\ CC!InList(v.vertex, OwnedVertices[r])
    BY <1>1, <1>5, <1>9
  <2>4. \A u : CC!InList(u, Controllers[r]) => Own(u) \in CQ!Elements(citrs[r])
    BY <1>1, <1>5, <1>9
  <2>5. \A u : CC!InList(u, OwnedVertices[r]) => Own(u) \in CQ!Elements(vitrs[r])
    BY <1>1, <1>5, <1>9
  <2> QED
    BY <1>7, <2>1, <2>2, <2>3, <2>4, <2>5
<1>12. LabelWork = [citr |-> citrs, vitr |-> vitrs, source |-> Silent,
                    data |-> [r \in Rank |-> [program |-> "cc", d |-> blanks[r]]]]
  BY <1>4 DEF LabelWork
<1>13. \A r \in Rank : [program |-> "cc", d |-> blanks[r]] \in LabelData
  BY <1>14 DEF LabelData
<1> QED
  BY <1>10, <1>11, <1>12, <1>13, <1>14 DEF Silent

LEMMA LabelQueueAssumed ==
  CQ!TopologyAssumption /\ CQ!AlgorithmAssumption /\ CQ!InitialWorkAssumption
<1>1. CQ!TopologyAssumption
  BY GraphAssumption DEF CQ!TopologyAssumption
<1>2. CQ!AlgorithmAssumption
  BY LabelPreVisit, LabelVisit DEF CQ!AlgorithmAssumption
<1>3. CQ!InitialWorkAssumption
  <2>1. LabelWork \in [citr : [Rank -> Seq(CQ!Visitor)], vitr : [Rank -> Seq(CQ!Visitor)],
                       source : [Rank -> Seq(CQ!Visitor)], data : [Rank -> LabelData]]
    <3>1. [r \in Rank |-> << >>] \in [Rank -> Seq(CQ!Visitor)]
      OBVIOUS
    <3> QED
      BY <3>1, LabelStart
  <2> QED
    BY <2>1 DEF CQ!InitialWorkAssumption
<1> QED
  BY <1>1, <1>2, <1>3

LEMMA LabelIsPlain == CQ!NewVisitorsArePlain
<1>1. \A r \in Rank : \A i \in DOMAIN LabelWork.source[r] : ~LabelWork.source[r][i].bcast
  BY LabelStart
<1>2. ASSUME NEW r \in Rank, NEW a \in LabelData, NEW v \in CQ!Visitor, NEW out \in Visit(r, a, v),
             NEW i \in DOMAIN out.spawn
      PROVE  ~out.spawn[i].bcast
  BY LabelSpawn
<1> QED
  BY <1>1, <1>2 DEF CQ!NewVisitorsArePlain

\* Connected components relaxes.
LEMMA LabelsRelax == CR!Relaxes
<1>1. CR!GraphType
  <2>1. \A v \in CQ!Visitor :
          /\ v.vertex \in Vertex /\ CarriedLabel(v) \in Nat
          /\ LET b == [v EXCEPT !.bcast = TRUE]
             IN  b \in CQ!Visitor /\ b.vertex = v.vertex /\ CarriedLabel(b) = CarriedLabel(v)
    <3> SUFFICES ASSUME NEW v \in CQ!Visitor
                 PROVE  /\ v.vertex \in Vertex /\ v.val \in Nat
                        /\ LET b == [v EXCEPT !.bcast = TRUE]
                           IN  b \in CQ!Visitor /\ b.vertex = v.vertex /\ b.val = v.val
      BY DEF CarriedLabel, CC!Carried
    <3> QED
      BY LabelAssumption DEF CQ!Visitor
  <2>2. \A a \in LabelData, u \in Vertex : HeldLabel(a, u) \in Nat
    BY LabelAssumption DEF LabelData, CC!Data, HeldLabel, CC!Held
  <2>3. \A r \in Rank, u \in Vertex : Neighbours(r, u) \subseteq VertexPasses
    BY DEF Neighbours
  <2>4. /\ \A u, w \in Vertex, c \in Nat : SameLabel(u, w, c) \in Nat
        /\ \A u \in Vertex : OwnLabel(u) \in Nat
    BY LabelAssumption DEF SameLabel, OwnLabel
  <2> QED
    BY <2>1, <2>2, <2>3, <2>4, Partition, LabelAssumption DEF CR!GraphType
<1>2. CR!PreVisitLowers
  <2> SUFFICES ASSUME NEW r \in Rank, NEW a \in LabelData, NEW v \in CQ!Visitor, NEW out \in PreVisit(r, a, v)
               PROVE  /\ out.data \in LabelData
                      /\ out.ret <=> v.vertex \in VertexPasses /\ CarriedLabel(v) < HeldLabel(a, v.vertex)
                      /\ \A u \in Vertex :
                           HeldLabel(out.data, u) = IF out.ret /\ u = v.vertex THEN CarriedLabel(v)
                                                    ELSE HeldLabel(a, u)
    BY DEF CR!PreVisitLowers
  <2> QED
    BY LabelPreVisit DEF HeldLabel, CarriedLabel, CC!Held, CC!Carried
<1>3. CR!VisitOffers
  <2> SUFFICES ASSUME NEW r \in Rank, NEW a \in LabelData, NEW v \in CQ!Visitor, NEW out \in Visit(r, a, v)
               PROVE  /\ out.data \in LabelData
                      /\ \A i \in DOMAIN out.spawn : out.spawn[i] \in CQ!Visitor
                      /\ out.ret <=> v.vertex \in VertexPasses /\ CarriedLabel(v) <= HeldLabel(a, v.vertex)
                      /\ \A u \in Vertex :
                           HeldLabel(out.data, u) = IF out.ret /\ TRUE /\ u = v.vertex
                                                    THEN CarriedLabel(v) ELSE HeldLabel(a, u)
                      /\ out.ret => \A w \in Neighbours(r, v.vertex) :
                           \/ OwnLabel(w) <= SameLabel(v.vertex, w, CarriedLabel(v))
                           \/ \E i \in DOMAIN out.spawn :
                                /\ out.spawn[i].vertex = w
                                /\ CarriedLabel(out.spawn[i]) <= SameLabel(v.vertex, w, CarriedLabel(v))
    BY DEF CR!VisitOffers
  <2>1. out.data \in LabelData /\ \A i \in DOMAIN out.spawn : out.spawn[i] \in CQ!Visitor
    BY LabelVisit, LabelSpawn
  <2>2. /\ out.ret <=> v.vertex \in VertexPasses /\ CarriedLabel(v) <= HeldLabel(a, v.vertex)
        /\ \A u \in Vertex : HeldLabel(out.data, u) =
             IF out.ret /\ u = v.vertex THEN CarriedLabel(v) ELSE HeldLabel(a, u)
    BY LabelVisit DEF HeldLabel, CarriedLabel, CC!Held, CC!Carried
  <2>3. \A i \in DOMAIN out.spawn :
          /\ out.spawn[i] \in CQ!Visitor /\ out.ret
          /\ ~out.spawn[i].bcast /\ out.spawn[i].val = v.val
          /\ Stores(r, v.vertex, out.spawn[i].vertex)
          /\ <<v.vertex, out.spawn[i].vertex>> \in EdgePasses
    BY LabelSpawn
  <2>4. ASSUME out.ret, NEW w \in Neighbours(r, v.vertex), ~(w <= v.val)
        PROVE  \E i \in DOMAIN out.spawn : out.spawn[i].vertex = w /\ out.spawn[i].val <= v.val
    <3>1. w \in Nat /\ v.val \in Nat
      BY LabelAssumption DEF Neighbours, CQ!Visitor
    <3>2. v.val < w
      BY <2>4, <3>1
    <3>3. out.ret => \A x \in Neighbours(r, v.vertex) : v.val < x =>
            \E i \in DOMAIN out.spawn : out.spawn[i].vertex = x
      BY LabelSpawn
    <3>4. PICK i \in DOMAIN out.spawn : out.spawn[i].vertex = w
      BY <2>4, <3>2, <3>3
    <3>5. out.spawn[i].val = v.val
      BY <2>3, <3>4
    <3> QED
      BY <3>1, <3>4, <3>5
  <2>5. out.ret => \A w \in Neighbours(r, v.vertex) :
          \/ OwnLabel(w) <= SameLabel(v.vertex, w, CarriedLabel(v))
          \/ \E i \in DOMAIN out.spawn :
               /\ out.spawn[i].vertex = w
               /\ CarriedLabel(out.spawn[i]) <= SameLabel(v.vertex, w, CarriedLabel(v))
    BY <2>4 DEF OwnLabel, SameLabel, CarriedLabel, CC!Carried
  <2> QED
    BY <2>1, <2>2, <2>5
<1> QED
  BY <1>1, <1>2, <1>3 DEF CR!Relaxes

LEMMA LabelsStaySound ==
  /\ CR!StaysSound
  /\ \A v \in LabelVisitors : v.vertex \in Vertex
<1>1. ASSUME NEW r \in Rank, NEW a \in LinkedLabels, NEW v \in LabelVisitors, NEW out \in PreVisit(r, a, v)
      PROVE  out.data \in LinkedLabels /\ (out.ret => v \in LabelVisits)
  BY LabelPreVisit DEF LinkedLabels, LabelVisitors, LabelVisits
<1>2. ASSUME NEW r \in Rank, NEW a \in LinkedLabels, NEW v \in LabelVisits, NEW out \in Visit(r, a, v)
      PROVE  out.data \in LinkedLabels /\ \A i \in DOMAIN out.spawn : out.spawn[i] \in LabelVisitors
  <2>1. a \in LabelData /\ v \in CQ!Visitor /\ Linked(v.vertex, v.val)
    BY DEF LinkedLabels, LabelVisits
  <2>2. v.vertex \in Vertex /\ v.val \in Vertex
    BY <2>1 DEF CQ!Visitor
  <2>3. out.data \in LinkedLabels
    BY <2>1, LabelVisit DEF LinkedLabels
  <2>4. ASSUME NEW i \in DOMAIN out.spawn PROVE out.spawn[i] \in LabelVisitors
    <3> DEFINE n == out.spawn[i]
    <3>1. /\ n \in CQ!Visitor /\ out.ret /\ n.val = v.val
          /\ Stores(r, v.vertex, n.vertex) /\ <<v.vertex, n.vertex>> \in EdgePasses
      BY <2>1, LabelSpawn
    <3> HIDE DEF n
    <3>2. n.vertex \in Vertex
      BY <3>1 DEF CQ!Visitor
    <3>3. v.vertex \in VertexPasses
      BY <2>1, <3>1, LabelVisit
    <3>4. CC!Edge(v.vertex, n.vertex)
      BY <3>1 DEF CC!Edge, CC!Stores, Stores
    <3>5. n.vertex \in VertexPasses => CC!Selected(v.vertex, n.vertex)
      BY <3>1, <3>3, <3>4 DEF CC!Selected
    <3>6. n.vertex \in VertexPasses => Linked(n.vertex, n.val)
      BY <2>1, <2>2, <3>1, <3>2, <3>5, LinkedNext
    <3> QED
      BY <3>1, <3>6 DEF LabelVisitors, n
  <2> QED
    BY <2>3, <2>4
<1>3. ASSUME NEW v \in LabelVisits PROVE v \in LabelVisitors /\ [v EXCEPT !.bcast = TRUE] \in LabelVisits
  BY DEF LabelVisits, LabelVisitors, CQ!Visitor
<1> QED
  BY <1>1, <1>2, <1>3 DEF CR!StaysSound, LabelVisitors, CQ!Visitor

LEMMA SameLabelNext ==
  [Next]_vars => [CQ!Next]_(CQ!vars)
<1>1. \A r \in Rank :
        /\ StartController(r) => CQ!StartController(r)
        /\ StartVertex(r) => CQ!StartVertex(r)
  BY Zenon DEF StartController, CQ!StartController, StartVertex, CQ!StartVertex,
         StartVisit, CQ!StartVisit, VisitOps, CQ!VisitOps, Queue, CQ!Queue, Idle,
         CQ!Idle, Running, CQ!Running, mailbox, CQ!mailbox
<1>2. \A r \in Rank :
        /\ ProcessPendingController(r) => CQ!ProcessPendingController(r)
        /\ EndPending(r) => CQ!EndPending(r)
        /\ WhileNotEmpty(r) => CQ!WhileNotEmpty(r)
        /\ NextStart(r) => CQ!NextStart(r)
  BY Zenon DEF ProcessPendingController, CQ!ProcessPendingController, EndPending,
         CQ!EndPending, WhileNotEmpty, CQ!WhileNotEmpty, NextStart, CQ!NextStart, Queue,
         CQ!Queue, Idle, CQ!Idle, Running, CQ!Running, Empty, CQ!Empty, mailbox,
         CQ!mailbox, EmptyBag, CQ!EmptyBag, SetToBag, CQ!SetToBag
<1>3. \A r \in Rank :
        /\ PopAndVisit(r) => CQ!PopAndVisit(r)
        /\ PopOfEmptyQueue(r) => CQ!PopOfEmptyQueue(r)
  BY Zenon DEF PopAndVisit, CQ!PopAndVisit, PopOfEmptyQueue, CQ!PopOfEmptyQueue,
         VisitOps, CQ!VisitOps, Queue, CQ!Queue, Idle, CQ!Idle, Running, CQ!Running,
         mailbox, CQ!mailbox, Remove, CQ!Remove, EmptyBag, CQ!EmptyBag, BagToSet,
         CQ!BagToSet, SetToBag, CQ!SetToBag, (-), CQ!(-)
<1>4. \A r \in Rank :
        /\ QueueVisitor(r) => CQ!QueueVisitor(r)
        /\ SendBcast(r) => CQ!SendBcast(r)
  BY Zenon DEF QueueVisitor, CQ!QueueVisitor, SendBcast, CQ!SendBcast, Performing,
         CQ!Performing, QueueHere, CQ!QueueHere, Push, CQ!Push, Send, CQ!Send, Running,
         CQ!Running, Add, CQ!Add, SetToBag, CQ!SetToBag, (+), CQ!(+)
<1>5. \A r \in Rank :
        /\ BatchFull(r) => CQ!BatchFull(r)
        /\ TestGlobalEmpty(r) => CQ!TestGlobalEmpty(r)
        /\ DestroyMailbox(r) => CQ!DestroyMailbox(r)
  BY Zenon DEF BatchFull, CQ!BatchFull, TestGlobalEmpty, CQ!TestGlobalEmpty,
         DestroyMailbox, CQ!DestroyMailbox, EnterExchange, CQ!EnterExchange, Idle,
         CQ!Idle, Running, CQ!Running, Empty, CQ!Empty, local, CQ!local, Slot, CQ!Slot,
         EmptyBag, CQ!EmptyBag, SetToBag, CQ!SetToBag, (+), CQ!(+)
<1>6. \A r \in Rank :
        /\ Deliver(r) => CQ!Deliver(r)
        /\ FinishExchange(r) => CQ!FinishExchange(r)
  BY Zenon DEF Deliver, CQ!Deliver, FinishExchange, CQ!FinishExchange,
         HandleMailboxReceive, CQ!HandleMailboxReceive, Push, CQ!Push, AllEntered,
         CQ!AllEntered, Return, CQ!Return, TotalIsZero, CQ!TotalIsZero, Slot, CQ!Slot,
         Add, CQ!Add, Remove, CQ!Remove, EmptyBag, CQ!EmptyBag, BagToSet, CQ!BagToSet,
         SetToBag, CQ!SetToBag, (+), CQ!(+), (-), CQ!(-)
<1> QED
  BY Zenon, <1>1, <1>2, <1>3, <1>4, <1>5, <1>6 DEF vars, CQ!vars, Next, CQ!Next, Step,
         CQ!Step, Done, CQ!Done, Aborted, CQ!Aborted

\* A traversal of connected components begins as its queue does.
LEMMA LabelsOrOther == Init => CQ!Init \/ Others("cc")
<1> SUFFICES ASSUME Init, ~Others("cc") PROVE CQ!Init
  OBVIOUS
<1>1. PICK w : Begins("cc", w)
  BY OneProgram DEF Others
<1>2. \A vs : CQ!Queue(vs) = Queue(vs)
  BY DEF CQ!Queue, Queue
<1>3. CQ!EmptyBag = EmptyBag
  BY DEF CQ!EmptyBag, EmptyBag, CQ!SetToBag, SetToBag
<1>4. \E x \in {LabelWork} : /\ citr = x.citr /\ vitr = x.vitr /\ data = x.data
                             /\ todo = [r \in Rank |-> CQ!Queue(x.source[r])]
  BY <1>1, <1>2 DEF Begins, LabelWork, StartOf
<1> QED
  BY <1>3, <1>4 DEF Init, CQ!Init

\* At first every vertex has its own visitor, with its master; masters hold the
\* labels of their vertices, the other copies the default.
LEMMA LabelsBegin ==
  ASSUME CQ!Init
  PROVE  /\ CQ!Items \subseteq CR!Item /\ data \in [Rank -> LabelData]
         /\ \A x \in CQ!Items :
              /\ x.step = "start" /\ ~x.visitor.bcast /\ x.visitor \in CQ!Visitor
              /\ x.visitor.val = x.visitor.vertex /\ x.rank = Master[x.visitor.vertex]
         /\ \A u \in Vertex : \E x \in CQ!Items : x.step = "start" /\ x.visitor.vertex = u /\ x.visitor.val = u
         /\ \A r \in Rank, u \in Vertex : data[r].d[u] = IF Master[u] = r THEN u ELSE DefaultLabel
<1> DEFINE Opening(r) == CQ!Elements(LabelWork.citr[r]) \cup CQ!Elements(LabelWork.vitr[r])
<1>1. /\ citr = LabelWork.citr /\ vitr = LabelWork.vitr /\ data = LabelWork.data
      /\ todo = [r \in Rank |-> CQ!Queue(LabelWork.source[r])]
  BY DEF CQ!Init
<1>2. \A x \in CQ!Items :
        \/ x.step = "start" /\ x.visitor \in Opening(x.rank)
        \/ x.step = "call" /\ x.visitor \in CQ!Elements(LabelWork.source[x.rank])
  BY <1>1, CQ!InitItems, LabelQueueAssumed
<1>3. \A r \in Rank : CQ!Elements(LabelWork.source[r]) = {}
  <2>1. LabelWork.source = [r \in Rank |-> << >>]
    BY LabelStart
  <2>2. \A r \in Rank : LabelWork.source[r] = << >>
    BY <2>1
  <2>3. CQ!Elements(<< >>) = {}
    BY DEF CQ!Elements
  <2> QED
    BY <2>2, <2>3
<1>4. \A r \in Rank :
        /\ \A v \in Opening(r) : ~v.bcast /\ v.val = v.vertex /\ Master[v.vertex] = r
        /\ \A u \in Vertex : Master[u] = r => Own(u) \in Opening(r)
  BY LabelStart
<1>5. \A r \in Rank : CQ!Starting(r) = Opening(r)
  BY <1>1 DEF CQ!Starting
<1> HIDE DEF Opening
<1>6. \A x \in CQ!Items : x.rank \in Rank /\ x.visitor \in CQ!Visitor /\ x \in CR!Item
  BY DEF CQ!Items, CR!Item
<1>7. ASSUME NEW x \in CQ!Items
      PROVE  /\ x.step = "start" /\ ~x.visitor.bcast /\ x.visitor \in CQ!Visitor
             /\ x.visitor.val = x.visitor.vertex /\ x.rank = Master[x.visitor.vertex]
  <2>1. x.step = "start" /\ x.visitor \in Opening(x.rank)
    BY <1>2, <1>3, <1>6
  <2> QED
    BY <1>4, <1>6, <2>1
<1>8. ASSUME NEW u \in Vertex
      PROVE  \E x \in CQ!Items : x.step = "start" /\ x.visitor.vertex = u /\ x.visitor.val = u
  <2> DEFINE x == [rank |-> Master[u], step |-> "start", visitor |-> Own(u)]
  <2>1. Master[u] \in Rank
    BY Partition
  <2>2. Own(u) \in CQ!Starting(Master[u])
    BY <1>4, <1>5, <2>1
  <2>3. Own(u) \in CQ!Visitor /\ Own(u).vertex = u /\ Own(u).val = u
    BY DEF Own, NewVisitor, CQ!Visitor
  <2>4. x \in CQ!Items
    BY <2>1, <2>2, <2>3 DEF CQ!Items, CQ!Waits
  <2> QED
    BY <2>3, <2>4
<1> QED
  BY <1>1, <1>6, <1>7, <1>8, LabelStart

LEMMA LabelsStart ==
  ASSUME CQ!Init
  PROVE  CR!Starts /\ CR!SoundInv
<1>1. /\ CQ!Items \subseteq CR!Item /\ data \in [Rank -> LabelData]
      /\ \A x \in CQ!Items :
           /\ x.step = "start" /\ ~x.visitor.bcast /\ x.visitor \in CQ!Visitor
           /\ x.visitor.val = x.visitor.vertex /\ x.rank = Master[x.visitor.vertex]
      /\ \A u \in Vertex : \E x \in CQ!Items : x.step = "start" /\ x.visitor.vertex = u /\ x.visitor.val = u
      /\ \A r \in Rank, u \in Vertex : data[r].d[u] = IF Master[u] = r THEN u ELSE DefaultLabel
  BY LabelsBegin
<1>2. \A r \in Rank, u \in Vertex : CR!H(r, u) = IF Master[u] = r THEN u ELSE DefaultLabel
  BY <1>1 DEF CR!H, HeldLabel, CC!Held
<1>3. \A u \in Vertex : Master[u] \in Rank /\ CR!H(Master[u], u) = u
  BY <1>2, Partition
<1>4. \A u \in Vertex : u \in Nat /\ DefaultLabel \in Nat /\ u <= u /\ u <= DefaultLabel
  BY LabelAssumption
<1>5. \A v \in CQ!Visitor : v.vertex \in Vertex
  BY DEF CQ!Visitor
<1>6. CR!Starts
  <2>1. CR!Init
    BY <1>1 DEF CR!Init
  <2>2. ASSUME NEW x \in CQ!Items, x.step = "start"
        PROVE  x.rank = Master[x.visitor.vertex] /\ CR!H(x.rank, x.visitor.vertex) <= CarriedLabel(x.visitor)
    BY <1>1, <1>3, <1>4, <1>5 DEF CarriedLabel, CC!Carried
  <2>3. \A u \in Vertex : CR!H(Master[u], u) <= OwnLabel(u)
    BY <1>3, <1>4 DEF OwnLabel
  <2>4. ASSUME NEW h \in Delegate, NEW r \in Rank PROVE CR!H(Master[h], h) <= CR!H(r, h)
    <3>1. h \in Vertex
      BY Partition
    <3> QED
      BY <1>2, <1>3, <1>4, <3>1
  <2>5. ASSUME NEW u \in VertexPasses
        PROVE  \E x \in CQ!Items : /\ x.step = "start" /\ x.visitor.vertex = u
                                   /\ CarriedLabel(x.visitor) = CR!H(Master[u], u)
    BY <1>1, <1>3, LabelAssumption DEF CarriedLabel, CC!Carried
  <2> QED
    BY <2>1, <2>2, <2>3, <2>4, <2>5 DEF CR!Starts
<1>7. CR!SoundInv
  <2>1. \A u \in Vertex : Linked(u, u)
    BY WithinSteps DEF Linked
  <2>2. ASSUME NEW r \in Rank PROVE data[r] \in LinkedLabels
    <3>1. data[r] \in LabelData /\ \A u \in Vertex : data[r].d[u] = IF Master[u] = r THEN u ELSE DefaultLabel
      BY <1>1
    <3> QED
      BY <2>1, <3>1 DEF LinkedLabels
  <2>3. \A x \in CQ!Items : x.visitor \in LabelVisits
    BY <1>1, <1>5, <2>1 DEF LabelVisits
  <2>4. \A x \in CQ!Items : x.rank \in Rank
    BY <1>1 DEF CR!Item
  <2> QED
    BY <1>1, <2>2, <2>3, <2>4 DEF CR!SoundInv
<1> QED
  BY <1>6, <1>7

LEMMA SameLabelFlow ==
  [CQ!Flow!Next]_<<CQ!Items, data>> => [CR!Next]_<<CQ!Items, data>>
BY DEF CQ!Flow!Next, CR!Next, CQ!Flow!Start, CR!Start, CQ!Flow!Call, CR!Call, CQ!Flow!Receive, CR!Receive,
       CQ!Flow!Run, CR!Run, CQ!Flow!Hear, CR!Hear, CQ!Flow!Moves, CR!Moves, CQ!Flow!Became, CR!Became,
       CQ!Flow!Calls, CR!Calls, CQ!Flow!Broadcast, CR!Broadcast, CQ!Flow!At, CR!At

LEMMA SettledMeansComponents ==
  ASSUME CR!IInv, CR!SoundInv, CQ!LeaveOnlyWhenQuiescent
  PROVE  LabelsAreComponents
<1> SUFFICES ASSUME Finished, NEW r \in Rank, NEW v \in VertexPasses, HoldsCopy(r, v)
             PROVE  Result[r][v] = CC!LeastLabel[v]
  BY DEF LabelsAreComponents
<1>1. CQ!Items = {}
  <2>1. \E q \in Rank : CQ!HasLeft(q)
    BY Partition DEF Finished, HasLeft, CQ!HasLeft
  <2> QED
    BY <2>1, CQ!QuiescentFlow, LabelQueueAssumed DEF CQ!LeaveOnlyWhenQuiescent
<1>2. CR!Settled
  BY <1>1, LabelsRelax, CR!EmptySettled
<1> DEFINE L == [u \in Vertex |-> CR!H(Master[u], u)]
<1>3. \A u \in Vertex : Master[u] \in Rank /\ u \in Nat /\ u < DefaultLabel /\ DefaultLabel \in Nat
  BY Partition, LabelAssumption
<1>4. \A q \in Rank, u \in Vertex : CR!H(q, u) \in Nat
  BY LabelsRelax, CR!HeldType DEF CR!IInv
<1>5. \A u \in Vertex : L[u] = CR!H(Master[u], u) /\ L[u] \in Nat /\ L[u] = data[Master[u]].d[u]
  BY <1>3, <1>4 DEF CR!H, HeldLabel, CC!Held
<1> HIDE DEF L
<1>6. \A u \in Vertex : L[u] <= u
  BY <1>5 DEF CR!IInv, CR!CeilingInv, OwnLabel
<1>7. ASSUME NEW u \in Vertex, NEW w \in Vertex, CC!Selected(u, w) PROVE L[w] <= L[u]
  <2>1. u \in VertexPasses /\ w \in VertexPasses /\ <<u, w>> \in EdgePasses /\ CC!Edge(u, w)
    BY <1>7 DEF CC!Selected
  <2>2. PICK q \in Rank : Stores(q, u, w)
    BY <2>1 DEF CC!Edge, CC!Stores, Stores
  <2>3. CR!HoldsCopy(q, u)
    BY <2>2, Partition DEF CR!HoldsCopy, HoldsCopy
  <2>4. w \in Neighbours(q, u)
    BY <2>1, <2>2 DEF Neighbours
  <2>5. CR!H(Master[w], w) <= SameLabel(u, w, CR!H(Master[u], u))
    BY <1>2, <2>1, <2>3, <2>4 DEF CR!Settled
  <2> QED
    BY <1>5, <2>5 DEF SameLabel
<1>8. v \in Vertex
  BY LabelAssumption
<1>9. L[v] \in Vertex /\ Linked(v, L[v])
  <2>1. data[Master[v]] \in LinkedLabels
    BY <1>3, <1>8 DEF CR!SoundInv
  <2>2. L[v] # DefaultLabel
    BY <1>3, <1>5, <1>6, <1>8
  <2>3. L[v] \in Vertex \cup {DefaultLabel}
    <3>1. data[Master[v]].d \in [Vertex -> Vertex \cup {DefaultLabel}]
      BY <2>1 DEF LinkedLabels, LabelData, CC!Data
    <3> QED
      BY <1>5, <1>8, <3>1
  <2> QED
    BY <1>5, <1>8, <2>1, <2>2, <2>3 DEF LinkedLabels
<1>10. L[v] = CC!LeastLabel[v]
  <2>1. /\ \A u \in Vertex : L[u] \in Nat /\ L[u] <= u
        /\ \A u, w \in Vertex : CC!Selected(u, w) => L[w] <= L[u]
    BY <1>5, <1>6, <1>7
  <2> QED
    BY <1>8, <1>9, <2>1, LabelsAreLeast
<1>11. CR!H(r, v) = CR!H(Master[v], v)
  <2>1. CR!HoldsCopy(r, v)
    BY DEF CR!HoldsCopy, HoldsCopy
  <2> QED
    BY <1>2, <2>1 DEF CR!Settled
<1> QED
  BY <1>5, <1>8, <1>10, <1>11 DEF Result, CR!H, HeldLabel, CC!Held

\* A traversal of connected components keeps the two invariants of its flow.
LEMMA LabelsKeep ==
  CQ!Init /\ [][Next]_vars => [](CR!IInv /\ CR!SoundInv /\ CQ!LeaveOnlyWhenQuiescent)
<1>1. CQ!Init /\ [][Next]_vars => CQ!Spec
  BY SameLabelNext, PTL DEF CQ!Spec
<1>2. CQ!Spec => [][CR!Next]_<<CQ!Items, data>>
  <2>1. CQ!Spec => CQ!Flow!Spec
    BY CQ!VisitorsFlow, LabelQueueAssumed, LabelIsPlain
  <2> QED
    BY <2>1, SameLabelFlow, PTL DEF CQ!Flow!Spec
<1>3. CR!Starts /\ [][CR!Next]_<<CQ!Items, data>> => []CR!IInv
  BY LabelsRelax, CR!FlowKeepsOffers
<1>4. CR!SoundInv /\ [][CR!Next]_<<CQ!Items, data>> => []CR!SoundInv
  <2>1. Master \in [Vertex -> Rank]
    BY Partition
  <2> QED
    BY <2>1, LabelsStaySound, CR!FlowStaysSound
<1>5. CQ!Spec => []CQ!LeaveOnlyWhenQuiescent
  BY CQ!TerminationIsSafe, LabelQueueAssumed
<1>6. CQ!Init => CR!Starts /\ CR!SoundInv
  BY LabelsStart
<1> QED
  BY <1>1, <1>2, <1>3, <1>4, <1>5, <1>6, PTL

\* When every rank has returned from connected components, every copy of a
\* vertex that counts, hubs' replicas included, names the least vertex of its
\* component, though visitors spread labels only downwards and edge by edge.
THEOREM ComponentsFound == Spec => []LabelsAreComponents
<1>1. Others("cc") /\ [Next]_vars => Others("cc")'
  BY OthersStay
<1>2. Others("cc") => LabelsAreComponents
  BY OthersRun DEF LabelsAreComponents
<1>3. CR!IInv /\ CR!SoundInv /\ CQ!LeaveOnlyWhenQuiescent => LabelsAreComponents
  BY SettledMeansComponents
<1> QED
  BY <1>1, <1>2, <1>3, LabelsOrOther, LabelsKeep, PTL DEF Spec

-----------------------------------------------------------------------------
(* The filter of the replicas.                                             *)

\* Connected components filter.
LEMMA LabelsFilter == CQ!Filters
<1>1. CR!GraphType /\ CR!PreVisitLowers /\ CR!VisitOffers
  BY LabelsRelax DEF CR!Relaxes
<1>2. /\ \A a \in LabelData, u \in Vertex : HeldLabel(a, u) \in Nat
      /\ \A v \in CQ!Visitor : CarriedLabel(v) \in Nat
  BY <1>1 DEF CR!GraphType
<1>3. ASSUME NEW r \in Rank, NEW a \in LabelData, NEW v \in CQ!Visitor, NEW out \in PreVisit(r, a, v)
      PROVE  /\ out.ret <=> v.vertex \in VertexPasses /\ CarriedLabel(v) < HeldLabel(a, v.vertex)
             /\ \A u \in Vertex :
                  HeldLabel(out.data, u) = IF out.ret /\ u = v.vertex THEN CarriedLabel(v) ELSE HeldLabel(a, u)
  BY <1>1 DEF CR!PreVisitLowers
<1>4. ASSUME NEW r \in Rank, NEW a \in LabelData, NEW v \in CQ!Visitor, NEW out \in Visit(r, a, v), NEW u \in Vertex
      PROVE  \/ HeldLabel(out.data, u) = HeldLabel(a, u)
             \/ u = v.vertex /\ HeldLabel(out.data, u) = CarriedLabel(v) /\ CarriedLabel(v) <= HeldLabel(a, u)
  BY <1>1 DEF CR!VisitOffers
<1> QED
  BY <1>2, <1>3, <1>4 DEF CQ!Filters

\* Its flow and its queue speak of the same places.
LEMMA LabelsLevelled ==
  /\ CR!IInv => CQ!Levelled
  /\ CR!Starts => CQ!StartsLevel
BY DEF CR!IInv, CR!PlaceInv, CQ!Levelled, CR!H, CQ!H, CR!Starts, CQ!StartsLevel

LabelFilter == FilterFor("cc", CC!Held, CC!Carried)

LEMMA LabelsFiltered == CQ!FilterInv => LabelFilter
<1> SUFFICES ASSUME CQ!FilterInv, NEW h \in Delegate, NEW r \in Rank,
                    CC!Held(Result[r], h) < CC!Held(Result[Master[h]], h)
             PROVE  OnItsWay(r, h, CC!Held(Result[r], h), CC!Carried)
  BY DEF LabelFilter, FilterFor
<1>1. Master[h] \in Rank
  BY Partition
<1>2. CQ!H(r, h) < CQ!H(Master[h], h) /\ CQ!H(r, h) = CC!Held(Result[r], h)
  BY <1>1 DEF CQ!H, HeldLabel, Result
<1>3. PICK v : CQ!Underway(r, h, v) /\ CQ!Brings(v, h, CC!Held(Result[r], h))
  BY <1>2 DEF CQ!FilterInv, CQ!Explained
<1>4. v.vertex = h /\ ~v.bcast /\ CC!Carried(v) = CC!Held(Result[r], h)
  BY <1>3 DEF CQ!Brings, CarriedLabel
<1>5. \E b \in {box[r][Master[h]], wire[Master[h]][0], wire[Master[h]][1]} : v \in BagToSet(b)
  <2>1. \A b : CQ!BagToSet(b) = BagToSet(b)
    BY DEF CQ!BagToSet, BagToSet
  <2>2. \A p \in 0..1 : p = 0 \/ p = 1
    OBVIOUS
  <2> QED
    BY <1>3, <2>1, <2>2 DEF CQ!Underway
<1> QED
  BY <1>4, <1>5 DEF OnItsWay

LEMMA LabelsKeepFilter == CQ!Init /\ [][Next]_vars => []LabelFilter
<1>1. CQ!Init /\ [][Next]_vars => CQ!Spec
  BY SameLabelNext, PTL DEF CQ!Spec
<1>2. CQ!Spec /\ CQ!StartsLevel /\ []CQ!Levelled => []CQ!FilterInv
  BY CQ!ReplicasAreExplained, LabelQueueAssumed, LabelIsPlain, LabelsFilter
<1>3. CQ!Init => CQ!StartsLevel
  BY LabelsStart, LabelsLevelled
<1>4. CR!IInv => CQ!Levelled
  BY LabelsLevelled
<1> QED
  BY <1>1, <1>2, <1>3, <1>4, LabelsKeep, LabelsFiltered, PTL

\* A replica of a hub may drop what is no better than the best it has seen, in
\* each of the three programs, at any time: what put it ahead of its controller
\* is on its way there.
THEOREM FilterStaysSound == Spec => []FilterIsSound
<1>1. Others("bfs") => BfsFilter
  BY OthersRun DEF BfsFilter, FilterFor
<1>2. Others("sssp") => PathFilter
  BY OthersRun DEF PathFilter, FilterFor
<1>3. Others("cc") => LabelFilter
  BY OthersRun DEF LabelFilter, FilterFor
<1>4. Spec => []BfsFilter
  <2>1. Others("bfs") /\ [Next]_vars => Others("bfs")'
    BY OthersStay
  <2> QED
    BY <2>1, <1>1, BfsOrOther, BfsKeepsFilter, PTL DEF Spec
<1>5. Spec => []PathFilter
  <2>1. Others("sssp") /\ [Next]_vars => Others("sssp")'
    BY OthersStay
  <2> QED
    BY <2>1, <1>2, PathsOrOther, PathsKeepFilter, PTL DEF Spec
<1>6. Spec => []LabelFilter
  <2>1. Others("cc") /\ [Next]_vars => Others("cc")'
    BY OthersStay
  <2> QED
    BY <2>1, <1>3, LabelsOrOther, LabelsKeepFilter, PTL DEF Spec
<1>7. BfsFilter /\ PathFilter /\ LabelFilter => FilterIsSound
  BY DEF BfsFilter, PathFilter, LabelFilter, FilterIsSound
<1> QED
  BY <1>4, <1>5, <1>6, <1>7, PTL
=============================================================================
