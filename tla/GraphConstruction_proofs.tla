---------------------- MODULE GraphConstruction_proofs ----------------------
(***************************************************************************)
(* Proofs about the construction of the graph, for all inputs, thresholds, *)
(* sizes of chunks and numbers of passes and ranks.  The ranks read each   *)
(* line once; a vertex's count is at any time that of the edges read so    *)
(* far, whatever rank has read them; and so the slots that are left for a  *)
(* vertex or a hub are as many as the edges that are still to come.        *)
(***************************************************************************)
EXTENDS GraphConstruction, FiniteSetTheorems, WellFoundedInduction, TLAPS

-----------------------------------------------------------------------------
(* Induction and recursion over numbers.                                   *)

\* A set of numbers has a least member.
LEMMA LeastNumber ==
  ASSUME NEW T, T \subseteq Nat, T # {}
  PROVE  \E n \in T : \A m \in T : n <= m
<1> DEFINE Below == {0..n : n \in T}
           Smaller == StrictSubsetOrdering(Nat)
<1>1. Below \subseteq FiniteSubsetsOf(Nat) /\ Below # {}
  <2>1. ASSUME NEW n \in T PROVE 0..n \in FiniteSubsetsOf(Nat)
    <3>1. IsFiniteSet(0..n)
      BY FS_Interval
    <3> QED
      BY <3>1 DEF FiniteSubsetsOf
  <2> QED
    BY <2>1
<1>2. IsWellFoundedOn(Smaller, FiniteSubsetsOf(Nat))
  BY FS_StrictSubsetOrderingWellFounded
<1>3. PICK b \in Below : \A a \in Below : ~(<<a, b>> \in Smaller)
  <2> HIDE DEF Below, Smaller
  <2> QED
    BY <1>1, <1>2, WFMin
<1>4. PICK n \in T : b = 0..n
  OBVIOUS
<1>5. ASSUME NEW m \in T, m < n PROVE FALSE
  <2>1. 0..m \in Below /\ 0..m \subseteq 0..n /\ 0..m # 0..n
    <3>1. n \in 0..n /\ n \notin 0..m
      BY <1>5
    <3> QED
      BY <1>5, <3>1
  <2>2. <<0..m, b>> \in Smaller
    BY <1>1, <1>4, <2>1 DEF StrictSubsetOrdering
  <2> QED
    BY <1>3, <2>1, <2>2
<1> QED
  BY <1>5

\* A set that has 0 and, with a number, the next one.
LEMMA StepByStep ==
  ASSUME NEW P, 0 \in P, \A n \in Nat : n \in P => n + 1 \in P
  PROVE  Nat \subseteq P
<1> SUFFICES ASSUME NEW x \in Nat, x \notin P PROVE FALSE
  OBVIOUS
<1> DEFINE Bad == {n \in Nat : n \notin P}
<1>1. PICK n \in Bad : \A m \in Bad : n <= m
  <2>1. Bad \subseteq Nat /\ Bad # {}
    OBVIOUS
  <2> HIDE DEF Bad
  <2> QED
    BY <2>1, LeastNumber
<1>2. n # 0 /\ n \in Nat /\ n \notin P
  OBVIOUS
<1>3. n - 1 \in Nat /\ ~(n <= n - 1) /\ (n - 1) + 1 = n
  BY <1>2
<1>4. n - 1 \in P
  BY <1>1, <1>3
<1> QED
  BY <1>2, <1>3, <1>4

\* The first slots are what the recursion says: one after the other.
LEMMA SlotsFollow ==
  ASSUME NEW count, NEW last \in Nat
  PROVE  /\ FirstSlots(count, last) = [i \in 0..last |-> FirstSlots(count, last)[i]]
         /\ FirstSlots(count, last)[0] = 0
         /\ \A i \in 0..(last - 1) :
              FirstSlots(count, last)[i + 1] = FirstSlots(count, last)[i] + count[i]
<1> DEFINE Following(g, i) == IF i = 0 THEN 0 ELSE g[i - 1] + count[i - 1]
           P == {n \in Nat : \E g : \A i \in 0..n : g[i] = Following(g, i)}
<1>1. 0 \in P
  <2> DEFINE g == [i \in {0} |-> 0]
  <2>1. \A i \in 0..0 : g[i] = Following(g, i)
    OBVIOUS
  <2> QED
    BY <2>1
<1>2. ASSUME NEW n \in Nat, n \in P PROVE n + 1 \in P
  <2>1. PICK g : \A i \in 0..n : g[i] = Following(g, i)
    BY <1>2
  <2> DEFINE h == [i \in 0..(n + 1) |-> IF i = n + 1 THEN g[n] + count[n] ELSE g[i]]
  <2>2. ASSUME NEW i \in 0..(n + 1) PROVE h[i] = Following(h, i)
    <3>1. CASE i = n + 1
      BY <3>1
    <3>2. CASE i \in 0..n
      <4>1. g[i] = Following(g, i) /\ h[i] = g[i]
        BY <2>1, <3>2
      <4>2. i # 0 => i - 1 \in 0..(n + 1) /\ h[i - 1] = g[i - 1]
        BY <3>2
      <4> QED
        BY <4>1, <4>2
    <3> QED
      BY <3>1, <3>2
  <2> HIDE DEF h
  <2> QED
    BY <2>2
<1>3. last \in P
  <2> HIDE DEF P
  <2> QED
    BY <1>1, <1>2, StepByStep
<1>4. PICK g : \A i \in 0..last : g[i] = Following(g, i)
  BY <1>3
<1> DEFINE Fits(f) == f = [i \in 0..last |-> IF i = 0 THEN 0 ELSE f[i - 1] + count[i - 1]]
<1>5. \E f : Fits(f)
  <2> DEFINE f == [i \in 0..last |-> g[i]]
  <2>1. \A i \in 0..last : i # 0 => i - 1 \in 0..last
    OBVIOUS
  <2>2. \A i \in 0..last : f[i] = IF i = 0 THEN 0 ELSE f[i - 1] + count[i - 1]
    BY <1>4, <2>1
  <2>3. Fits(f)
    BY <2>2
  <2> QED
    BY <2>3
<1>6. FirstSlots(count, last) = CHOOSE f : Fits(f)
  BY DEF FirstSlots
<1>7. Fits(FirstSlots(count, last))
  <2> HIDE DEF Fits
  <2> QED
    BY <1>5, <1>6
<1>8. PICK f : f = FirstSlots(count, last)
  OBVIOUS
<1>9. /\ f = [i \in 0..last |-> f[i]]
      /\ \A i \in 0..last : f[i] = IF i = 0 THEN 0 ELSE f[i - 1] + count[i - 1]
  BY <1>7, <1>8
<1>10. \A i \in 0..(last - 1) : i + 1 \in 0..last /\ i + 1 # 0 /\ (i + 1) - 1 = i
  OBVIOUS
<1>11. 0 \in 0..last
  OBVIOUS
<1> QED
  BY <1>8, <1>9, <1>10, <1>11

\* Slots of countable vertices are numbers.
LEMMA SlotsAreNumbers ==
  ASSUME NEW last \in Nat, NEW count, \A i \in 0..(last - 1) : count[i] \in Nat
  PROVE  FirstSlots(count, last) \in [0..last -> Nat]
<1> DEFINE P == {i \in Nat : i \in 0..last => FirstSlots(count, last)[i] \in Nat}
<1>1. /\ FirstSlots(count, last) = [i \in 0..last |-> FirstSlots(count, last)[i]]
      /\ FirstSlots(count, last)[0] = 0
      /\ \A i \in 0..(last - 1) :
           FirstSlots(count, last)[i + 1] = FirstSlots(count, last)[i] + count[i]
  BY SlotsFollow
<1>2. 0 \in P
  BY <1>1
<1>3. ASSUME NEW i \in Nat, i \in P PROVE i + 1 \in P
  <2>1. CASE i + 1 \in 0..last
    <3>1. i \in 0..last /\ i \in 0..(last - 1)
      BY <2>1
    <3>2. FirstSlots(count, last)[i] \in Nat /\ count[i] \in Nat
      BY <1>3, <3>1
    <3>3. FirstSlots(count, last)[i + 1] = FirstSlots(count, last)[i] + count[i]
      BY <1>1, <3>1, Zenon
    <3>4. FirstSlots(count, last)[i + 1] \in Nat
      BY <3>2, <3>3
    <3> QED
      BY <3>4
  <2>2. CASE i + 1 \notin 0..last
    BY <2>2
  <2> QED
    BY <2>1, <2>2
<1>4. Nat \subseteq P
  <2> HIDE DEF P
  <2> QED
    BY <1>2, <1>3, StepByStep
<1>5. \A i \in 0..last : FirstSlots(count, last)[i] \in Nat
  BY <1>4
<1> HIDE DEF P
<1> QED
  BY <1>1, <1>5

\* A finite set of numbers has a greatest member, and Max is that.
LEMMA GreatestNumber ==
  ASSUME NEW S, S \subseteq Nat, IsFiniteSet(S), S # {}
  PROVE  Max(S) \in S /\ \A x \in S : x <= Max(S)
<1> DEFINE P == {n \in Nat : \A T \in SUBSET Nat : IsFiniteSet(T) /\ Cardinality(T) = n + 1 =>
                               \E u \in T : \A x \in T : x <= u}
<1>1. 0 \in P
  <2>1. ASSUME NEW T \in SUBSET Nat, IsFiniteSet(T), Cardinality(T) = 0 + 1
        PROVE  \E u \in T : \A x \in T : x <= u
    <3>1. Cardinality(T) = 1
      BY <2>1
    <3>2. PICK u : T = {u}
      BY <2>1, <3>1, FS_Singleton, Zenon
    <3> QED
      BY <3>2
  <2> QED
    BY <2>1
<1>2. ASSUME NEW n \in Nat, n \in P PROVE n + 1 \in P
  <2>1. ASSUME NEW T \in SUBSET Nat, IsFiniteSet(T), Cardinality(T) = (n + 1) + 1
        PROVE  \E u \in T : \A x \in T : x <= u
    <3>1. PICK w \in T : TRUE
      <4>1. Cardinality(T) # 0
        BY <2>1
      <4> QED
        BY <4>1, FS_EmptySet, Zenon
    <3>2. IsFiniteSet(T \ {w}) /\ Cardinality(T \ {w}) = n + 1
      BY <2>1, FS_RemoveElement
    <3>3. PICK u \in T \ {w} : \A x \in T \ {w} : x <= u
      <4>1. T \ {w} \in SUBSET Nat
        OBVIOUS
      <4> QED
        BY <1>2, <3>2, <4>1
    <3>4. CASE w <= u
      BY <3>3, <3>4
    <3>5. CASE u <= w
      <4>1. \A x \in T : x <= w
        BY <3>3, <3>5
      <4> QED
        BY <4>1
    <3> QED
      BY <3>4, <3>5
  <2> QED
    BY <2>1
<1>3. Nat \subseteq P
  <2> HIDE DEF P
  <2> QED
    BY <1>1, <1>2, StepByStep
<1>4. Cardinality(S) \in Nat /\ Cardinality(S) # 0
  BY FS_CardinalityType, FS_EmptySet
<1>5. Cardinality(S) - 1 \in P /\ (Cardinality(S) - 1) + 1 = Cardinality(S)
  <2> HIDE DEF P
  <2> QED
    BY <1>3, <1>4
<1>6. PICK u \in S : \A x \in S : x <= u
  BY <1>5
<1>7. \A x \in S : u >= x
  BY <1>6
<1>8. Max(S) \in S /\ \A x \in S : Max(S) >= x
  BY <1>7, Zenon DEF Max
<1> QED
  BY <1>8

\* Two sets without a common member.
LEMMA CountsAdd ==
  ASSUME NEW A, NEW B, IsFiniteSet(A), IsFiniteSet(B), A \cap B = {}
  PROVE  /\ IsFiniteSet(A \cup B) /\ Cardinality(A) \in Nat /\ Cardinality(B) \in Nat
         /\ Cardinality(A \cup B) = Cardinality(A) + Cardinality(B)
<1>1. Cardinality(A) \in Nat /\ Cardinality(B) \in Nat
  BY FS_CardinalityType
<1>2. /\ IsFiniteSet(A \cup B)
      /\ Cardinality(A \cup B) = Cardinality(A) + Cardinality(B) - Cardinality(A \cap B)
  BY FS_Union
<1>3. Cardinality(A \cap B) = 0
  BY FS_EmptySet
<1> QED
  BY <1>1, <1>2, <1>3

\* The two parts of a division.
LEMMA Division ==
  ASSUME NEW c \in Nat \ {0}, NEW x \in Nat
  PROVE  x \div c \in Nat /\ x % c \in 0..(c - 1) /\ x = (x \div c) * c + (x % c)
OBVIOUS

\* Owner and number of a vertex give it and come from it.
LEMMA Numbering ==
  ASSUME NEW r \in Ranks, NEW i \in Nat
  PROVE  Label(r, i) \in Nat /\ Owner(Label(r, i)) = r /\ LocalId(Label(r, i)) = i
<1>1. Size \in Nat \ {0} /\ r \in 0..(Size - 1)
  BY SizesAssumption DEF Ranks
<1>2. i * Size \in Nat
  BY <1>1
<1>3. i * Size + r \in Nat
  BY <1>1, <1>2
<1> DEFINE x == i * Size + r
           d == x \div Size
           e == x % Size
<1>4. d \in Nat /\ e \in 0..(Size - 1) /\ x = d * Size + e
  BY <1>1, <1>3, Division
<1> HIDE DEF d, e
<1>5. d = i
  <2>1. CASE d > i
    <3>1. d = i + (d - i) /\ d - i \in Nat /\ d - i >= 1
      BY <1>4, <2>1
    <3>2. (i + (d - i)) * Size = i * Size + (d - i) * Size /\ (d - i) * Size >= Size
      BY <1>1, <3>1
    <3> QED
      BY <1>1, <1>2, <1>4, <3>1, <3>2
  <2>2. CASE d < i
    <3>1. i = d + (i - d) /\ i - d \in Nat /\ i - d >= 1
      BY <1>4, <2>2
    <3>2. (d + (i - d)) * Size = d * Size + (i - d) * Size /\ (i - d) * Size >= Size
      BY <1>1, <1>4, <3>1
    <3>3. d * Size \in Nat
      BY <1>1, <1>4
    <3> QED
      BY <1>1, <1>2, <1>4, <3>1, <3>2, <3>3
  <2> QED
    BY <1>4, <2>1, <2>2
<1>6. e = r
  BY <1>1, <1>2, <1>4, <1>5
<1> QED
  BY <1>3, <1>5, <1>6 DEF d, e, Label, Owner, LocalId

-----------------------------------------------------------------------------
(* Reading: what the ranks hold, what is still to be read, what a round    *)
(* takes away.                                                             *)

EdgeType == [source : Nat, target : Nat, data : Nat]

\* No edge is held twice.
Apart(es) ==
  \A r, q \in Ranks : \A i \in 1..Len(es[r]), j \in 1..Len(es[q]) :
    es[r][i] = es[q][j] => r = q /\ i = j

InputOK ==
  /\ edges \in [Ranks -> Seq(EdgeType)] /\ Apart(edges)
  /\ chunk \in Nat \ {0} /\ passes \in Nat \ {0}

Positioned == itr \in [Ranks -> Nat \ {0}] /\ \A r \in Ranks : itr[r] <= Len(edges[r]) + 1

LEMMA FiniteRange ==
  ASSUME NEW D, IsFiniteSet(D), NEW f, f = [x \in D |-> f[x]]
  PROVE  IsFiniteSet(Range(f))
<1>1. f \in Surjection(D, Range(f))
  BY DEF Surjection, Range
<1> QED
  BY <1>1, FS_Surjection

\* What a part of a sequence has.
LEMMA Slice ==
  ASSUME NEW T, NEW s \in Seq(T), NEW m \in Nat \ {0}, NEW n \in 0..Len(s)
  PROVE  \A e : e \in Range(SubSeq(s, m, n)) <=> \E k \in m..n : e = s[k]
<1> DEFINE t == SubSeq(s, m, n)
<1>1. DOMAIN t = 1..(IF m <= n THEN n - m + 1 ELSE 0) /\ \A i \in DOMAIN t : t[i] = s[m + i - 1]
  OBVIOUS
<1> HIDE DEF t
<1>2. ASSUME NEW e, e \in Range(t) PROVE \E k \in m..n : e = s[k]
  <2>1. PICK i \in DOMAIN t : e = t[i]
    BY <1>2 DEF Range
  <2>2. m + i - 1 \in m..n /\ e = s[m + i - 1]
    BY <1>1, <2>1
  <2> QED
    BY <2>2
<1>3. ASSUME NEW e, NEW k \in m..n, e = s[k] PROVE e \in Range(t)
  <2>1. k - m + 1 \in DOMAIN t /\ m + (k - m + 1) - 1 = k
    BY <1>1
  <2>2. t[k - m + 1] = s[k]
    BY <1>1, <2>1
  <2> QED
    BY <1>3, <2>1, <2>2 DEF Range
<1>4. \A e : e \in Range(t) <=> \E k \in m..n : e = s[k]
  BY <1>2, <1>3
<1> QED
  BY <1>4 DEF t

\* What the slices of all ranks have.
InSlices(es, first, last) == UNION {Range(SubSeq(es[r], first[r], last[r])) : r \in Ranks}

SlicesHave(es, first, last) ==
  \A e : e \in InSlices(es, first, last)
           <=> \E r \in Ranks : \E k \in first[r]..last[r] : e = es[r][k]

LEMMA Slices ==
  ASSUME NEW es \in [Ranks -> Seq(EdgeType)], NEW first \in [Ranks -> Nat \ {0}],
         NEW last \in [Ranks -> Nat], \A r \in Ranks : last[r] <= Len(es[r])
  PROVE  SlicesHave(es, first, last)
<1>1. ASSUME NEW r \in Ranks
      PROVE  \A e : e \in Range(SubSeq(es[r], first[r], last[r]))
                      <=> \E k \in first[r]..last[r] : e = es[r][k]
  <2>1. es[r] \in Seq(EdgeType) /\ first[r] \in Nat \ {0} /\ last[r] \in 0..Len(es[r])
    OBVIOUS
  <2> QED
    BY <2>1, Slice
<1> QED
  BY <1>1 DEF SlicesHave, InSlices

\* The round's slice on a rank.
RoundEnd == [r \in Ranks |-> Least(itr[r] + chunk - 1, Len(edges[r]))]

LEMMA WhatIsRead ==
  ASSUME InputOK, Positioned
  PROVE  /\ \A e : e \in AllEdges <=> \E r \in Ranks : \E k \in 1..Len(edges[r]) : e = edges[r][k]
         /\ \A e : e \in Unread <=> \E r \in Ranks : \E k \in itr[r]..Len(edges[r]) : e = edges[r][k]
         /\ \A e : e \in Round <=> \E r \in Ranks : \E k \in itr[r]..RoundEnd[r] : e = edges[r][k]
         /\ Round \subseteq Unread /\ Unread \subseteq AllEdges
         /\ AllEdges \subseteq EdgeType /\ IsFiniteSet(AllEdges)
<1>1. /\ edges \in [Ranks -> Seq(EdgeType)] /\ itr \in [Ranks -> Nat \ {0}] /\ chunk \in Nat \ {0}
      /\ \A r \in Ranks : itr[r] <= Len(edges[r]) + 1
  BY DEF InputOK, Positioned
<1>2. \A r \in Ranks : /\ edges[r] \in Seq(EdgeType) /\ Len(edges[r]) \in Nat
                       /\ DOMAIN edges[r] = 1..Len(edges[r])
                       /\ \A k \in 1..Len(edges[r]) : edges[r][k] \in EdgeType
  BY <1>1
<1>3. \A e : e \in AllEdges <=> \E r \in Ranks : \E k \in 1..Len(edges[r]) : e = edges[r][k]
  BY <1>2 DEF AllEdges, Range
<1>4. \A e : e \in Unread <=> \E r \in Ranks : \E k \in itr[r]..Len(edges[r]) : e = edges[r][k]
  <2> DEFINE lens == [r \in Ranks |-> Len(edges[r])]
  <2>1. lens \in [Ranks -> Nat] /\ \A r \in Ranks : lens[r] <= Len(edges[r])
    BY <1>2
  <2>2. SlicesHave(edges, itr, lens)
    <3> HIDE DEF lens
    <3> QED
      BY <1>1, <2>1, Slices
  <2>3. \A r \in Ranks : lens[r] = Len(edges[r])
    OBVIOUS
  <2> HIDE DEF lens
  <2>4. InSlices(edges, itr, lens) = Unread
    BY <2>3 DEF Unread, InSlices
  <2>5. \A e : (\E r \in Ranks : \E k \in itr[r]..lens[r] : e = edges[r][k])
                 <=> \E r \in Ranks : \E k \in itr[r]..Len(edges[r]) : e = edges[r][k]
    BY <2>3
  <2> QED
    BY <2>2, <2>4, <2>5 DEF SlicesHave
<1>5. \A e : e \in Round <=> \E r \in Ranks : \E k \in itr[r]..RoundEnd[r] : e = edges[r][k]
  <2>1. RoundEnd \in [Ranks -> Nat] /\ \A r \in Ranks : RoundEnd[r] <= Len(edges[r])
    <3>1. ASSUME NEW r \in Ranks
          PROVE  /\ RoundEnd[r] = Least(itr[r] + chunk - 1, Len(edges[r]))
                 /\ Least(itr[r] + chunk - 1, Len(edges[r])) \in 0..Len(edges[r])
      <4>1. itr[r] \in Nat \ {0} /\ chunk \in Nat \ {0} /\ Len(edges[r]) \in Nat
        BY <1>1, <1>2
      <4>2. Least(itr[r] + chunk - 1, Len(edges[r])) \in 0..Len(edges[r])
        BY <4>1 DEF Least
      <4> QED
        BY <4>2 DEF RoundEnd
    <3>2. RoundEnd = [r \in Ranks |-> RoundEnd[r]]
      BY DEF RoundEnd
    <3> QED
      BY <1>2, <3>1, <3>2
  <2>2. Round = InSlices(edges, itr, RoundEnd)
    BY DEF Round, RoundEnd, InSlices
  <2>3. SlicesHave(edges, itr, RoundEnd)
    BY <1>1, <2>1, Slices
  <2> QED
    BY <2>2, <2>3 DEF SlicesHave
<1>6. Round \subseteq Unread /\ Unread \subseteq AllEdges /\ AllEdges \subseteq EdgeType
  <2>1. ASSUME NEW r \in Ranks, NEW k \in itr[r]..RoundEnd[r] PROVE k \in itr[r]..Len(edges[r])
    <3>1. itr[r] \in Nat \ {0} /\ chunk \in Nat \ {0} /\ Len(edges[r]) \in Nat
      BY <1>1, <1>2
    <3>2. Least(itr[r] + chunk - 1, Len(edges[r])) \in 0..Len(edges[r])
      BY <3>1 DEF Least
    <3> QED
      BY <2>1, <3>1, <3>2 DEF RoundEnd
  <2>2. ASSUME NEW r \in Ranks, NEW k \in itr[r]..Len(edges[r]) PROVE k \in 1..Len(edges[r])
    BY <1>1, <1>2
  <2> QED
    BY <1>2, <1>3, <1>4, <1>5, <2>1, <2>2
<1>7. IsFiniteSet(AllEdges)
  <2> DEFINE sets == [r \in Ranks |-> Range(edges[r])]
  <2>1. IsFiniteSet(Ranks)
    BY SizesAssumption, FS_Interval DEF Ranks
  <2>2. IsFiniteSet(Range(sets))
    BY <2>1, FiniteRange
  <2>3. \A T \in Range(sets) : IsFiniteSet(T)
    <3>1. ASSUME NEW r \in Ranks PROVE IsFiniteSet(Range(edges[r]))
      <4>1. IsFiniteSet(1..Len(edges[r]))
        BY <1>2, FS_Interval
      <4>2. edges[r] = [k \in 1..Len(edges[r]) |-> edges[r][k]]
        BY <1>2
      <4> QED
        BY <4>1, <4>2, FiniteRange
    <3> QED
      BY <3>1 DEF Range
  <2>4. IsFiniteSet(UNION Range(sets))
    <3> HIDE DEF sets
    <3> QED
      BY <2>2, <2>3, FS_UNION
  <2>5. AllEdges = UNION Range(sets)
    BY DEF AllEdges, Range
  <2> QED
    BY <2>4, <2>5
<1> QED
  BY <1>3, <1>4, <1>5, <1>6, <1>7

\* A round takes its edges from those to be read.
LEMMA Advancing ==
  ASSUME InputOK, Positioned, Advance, edges' = edges, chunk' = chunk
  PROVE  Unread' = Unread \ Round /\ Positioned'
<1>1. /\ edges \in [Ranks -> Seq(EdgeType)] /\ itr \in [Ranks -> Nat \ {0}] /\ chunk \in Nat \ {0}
      /\ \A r \in Ranks : itr[r] <= Len(edges[r]) + 1
  BY DEF InputOK, Positioned
<1>2. ASSUME NEW r \in Ranks
      PROVE  /\ itr[r] \in Nat \ {0} /\ Len(edges[r]) \in Nat
             /\ RoundEnd[r] = Least(itr[r] + chunk - 1, Len(edges[r]))
             /\ itr'[r] = Least(itr[r] + chunk, Len(edges[r]) + 1)
             /\ itr'[r] = RoundEnd[r] + 1 /\ RoundEnd[r] \in 0..Len(edges[r])
             /\ itr'[r] >= itr[r]
  <2>1. itr[r] \in Nat \ {0} /\ Len(edges[r]) \in Nat /\ itr[r] <= Len(edges[r]) + 1
    BY <1>1
  <2>2. /\ RoundEnd[r] = Least(itr[r] + chunk - 1, Len(edges[r]))
        /\ itr'[r] = Least(itr[r] + chunk, Len(edges[r]) + 1)
    BY DEF RoundEnd, Advance
  <2>3. /\ Least(itr[r] + chunk, Len(edges[r]) + 1) = Least(itr[r] + chunk - 1, Len(edges[r])) + 1
        /\ Least(itr[r] + chunk - 1, Len(edges[r])) \in 0..Len(edges[r])
        /\ Least(itr[r] + chunk, Len(edges[r]) + 1) >= itr[r]
    BY <1>1, <2>1 DEF Least
  <2> QED
    BY <2>1, <2>2, <2>3
<1>3. PICK i : i = itr'
  OBVIOUS
<1>4. i \in [Ranks -> Nat \ {0}] /\ \A r \in Ranks : i[r] <= Len(edges[r]) + 1
  <2>1. i = [r \in Ranks |-> i[r]]
    BY <1>3 DEF Advance
  <2>2. ASSUME NEW r \in Ranks PROVE i[r] \in Nat \ {0} /\ i[r] <= Len(edges[r]) + 1
    BY <1>2, <1>3
  <2> QED
    BY <2>1, <2>2
<1>5. Positioned'
  BY <1>3, <1>4 DEF Positioned
<1> DEFINE lens == [r \in Ranks |-> Len(edges[r])]
<1>6. lens \in [Ranks -> Nat] /\ \A r \in Ranks : lens[r] <= Len(edges[r])
  BY <1>2
<1>7. \A r \in Ranks : lens[r] = Len(edges[r])
  OBVIOUS
<1> HIDE DEF lens
<1>8. SlicesHave(edges, i, lens)
  BY <1>1, <1>4, <1>6, Slices
<1>9. InSlices(edges, i, lens) = Unread'
  BY <1>3, <1>7 DEF Unread, InSlices
<1>10. \A e : e \in Unread' <=> \E r \in Ranks : \E k \in i[r]..Len(edges[r]) : e = edges[r][k]
  BY <1>7, <1>8, <1>9 DEF SlicesHave
<1>11. /\ \A e : e \in Unread <=> \E r \in Ranks : \E k \in itr[r]..Len(edges[r]) : e = edges[r][k]
       /\ \A e : e \in Round <=> \E r \in Ranks : \E k \in itr[r]..RoundEnd[r] : e = edges[r][k]
  BY WhatIsRead
<1>12. ASSUME NEW e \in Unread' PROVE e \in Unread \ Round
  <2>4. PICK r \in Ranks : \E k \in i[r]..Len(edges[r]) : e = edges[r][k]
    BY <1>10
  <2>1. PICK k \in i[r]..Len(edges[r]) : e = edges[r][k]
    BY <2>4
  <2>2. k \in itr[r]..Len(edges[r]) /\ k \in 1..Len(edges[r]) /\ k > RoundEnd[r]
    BY <1>2, <1>3, <2>1
  <2>3. ASSUME NEW q \in Ranks, NEW j \in itr[q]..RoundEnd[q], e = edges[q][j] PROVE FALSE
    <3>1. j \in 1..Len(edges[q])
      BY <1>2, <2>3
    <3>2. edges[r][k] = edges[q][j] /\ Apart(edges)
      BY <2>1, <2>3 DEF InputOK
    <3>3. q = r /\ j = k
      BY <2>2, <3>1, <3>2 DEF Apart
    <3> QED
      BY <1>2, <2>2, <2>3, <3>3
  <2> QED
    BY <1>11, <2>1, <2>2, <2>3
<1>13. ASSUME NEW e \in Unread, e \notin Round PROVE e \in Unread'
  <2>4. PICK r \in Ranks : \E k \in itr[r]..Len(edges[r]) : e = edges[r][k]
    BY <1>11
  <2>1. PICK k \in itr[r]..Len(edges[r]) : e = edges[r][k]
    BY <2>4
  <2>2. ~(k \in itr[r]..RoundEnd[r])
    BY <1>11, <1>13, <2>1
  <2>3. k \in i[r]..Len(edges[r])
    BY <1>2, <1>3, <2>1, <2>2
  <2> QED
    BY <1>10, <2>1, <2>3
<1> QED
  BY <1>5, <1>12, <1>13

\* From the first edge again.
LEMMA Rewinding ==
  ASSUME InputOK, Rewind, edges' = edges
  PROVE  Unread' = AllEdges /\ Positioned'
<1>1. edges \in [Ranks -> Seq(EdgeType)]
  BY DEF InputOK
<1>2. \A r \in Ranks : edges[r] \in Seq(EdgeType) /\ Len(edges[r]) \in Nat
  BY <1>1
<1>3. PICK i : i = itr'
  OBVIOUS
<1>4. i = [r \in Ranks |-> 1]
  BY <1>3 DEF Rewind
<1>5. Positioned'
  BY <1>2, <1>3, <1>4 DEF Positioned
<1>6. ASSUME NEW r \in Ranks
      PROVE  Range(SubSeq(edges[r], i[r], Len(edges[r]))) = Range(edges[r])
  <2>1. SubSeq(edges[r], 1, Len(edges[r])) = edges[r]
    BY <1>2
  <2> QED
    BY <1>4, <2>1
<1>7. Unread' = AllEdges
  BY <1>3, <1>6 DEF Unread, AllEdges
<1> QED
  BY <1>5, <1>7

-----------------------------------------------------------------------------
\* Sorting a set loses nothing and adds nothing.
LEMMA AscendingHasAll ==
  ASSUME NEW S, S \subseteq Nat, IsFiniteSet(S)
  PROVE  /\ Ascending(S) \in Seq(Nat)
         /\ \A x : x \in S <=> \E i \in DOMAIN Ascending(S) : Ascending(S)[i] = x
<1> DEFINE n == Cardinality(S)
           upTo(x) == {y \in S : y <= x}
           rank == [x \in S |-> Cardinality(upTo(x))]
<1>1. n \in Nat /\ IsFiniteSet(1..n) /\ Cardinality(1..n) = n
  BY FS_CardinalityType, FS_Interval
<1>2. ASSUME NEW x \in S
      PROVE  IsFiniteSet(upTo(x)) /\ Cardinality(upTo(x)) \in 1..n
  <2>1. upTo(x) \in SUBSET S /\ x \in upTo(x)
    OBVIOUS
  <2> HIDE DEF upTo
  <2>2. IsFiniteSet(upTo(x)) /\ Cardinality(upTo(x)) <= n
    BY <2>1, FS_Subset
  <2>3. Cardinality(upTo(x)) \in Nat /\ Cardinality(upTo(x)) # 0
    BY <2>1, <2>2, FS_CardinalityType, FS_EmptySet
  <2> QED
    BY <1>1, <2>2, <2>3
<1> HIDE DEF n
<1>3. ASSUME NEW x \in S, NEW y \in S, x < y
      PROVE  Cardinality(upTo(x)) < Cardinality(upTo(y))
  <2>1. upTo(x) \in SUBSET upTo(y) /\ y \in upTo(y) /\ y \notin upTo(x)
    <3>1. x \in Nat /\ y \in Nat /\ y <= y /\ ~(y <= x)
      BY <1>3
    <3>2. \A z \in S : z <= x => z <= y
      BY <1>3, <3>1
    <3> QED
      BY <3>1, <3>2
  <2>2. upTo(x) # upTo(y)
    BY <2>1
  <2> HIDE DEF upTo
  <2>3. /\ IsFiniteSet(upTo(y)) /\ Cardinality(upTo(y)) \in 1..n
        /\ Cardinality(upTo(x)) \in 1..n
    BY <1>2, Zenon
  <2>4. Cardinality(upTo(x)) <= Cardinality(upTo(y)) /\ Cardinality(upTo(x)) # Cardinality(upTo(y))
    BY <2>1, <2>2, <2>3, FS_Subset
  <2> QED
    BY <2>3, <2>4
<1>4. rank \in [S -> 1..n]
  <2> HIDE DEF upTo
  <2> QED
    BY <1>2
<1>5. \A x, y \in S : x < y => rank[x] < rank[y]
  <2> HIDE DEF upTo
  <2> QED
    BY <1>3
<1> HIDE DEF rank
<1>6. \A x, y \in S : rank[x] = rank[y] => x = y
  <2>1. ASSUME NEW x \in S, NEW y \in S, rank[x] = rank[y] PROVE x = y
    <3>1. PICK a, b : a = rank[x] /\ b = rank[y]
      OBVIOUS
    <3>2. a \in Nat /\ b = a
      BY <1>1, <1>4, <2>1, <3>1
    <3>3. ~(a < b) /\ ~(b < a)
      BY <3>2
    <3>4. ~(x < y) /\ ~(y < x)
      BY <1>5, <3>1, <3>3
    <3> QED
      BY <3>4
  <2> QED
    BY <2>1
<1>7. \A i \in 1..n : \E x \in S : rank[x] = i
  <2>1. rank \in Injection(S, 1..n)
    BY <1>4, <1>6 DEF Injection, IsInjective
  <2>2. Cardinality(S) = Cardinality(1..n)
    BY <1>1 DEF n
  <2>3. rank \in Surjection(S, 1..n)
    BY <1>1, <2>1, <2>2, FS_Injection
  <2> QED
    BY <2>3 DEF Surjection
<1> DEFINE q == [i \in 1..n |-> CHOOSE x \in S : rank[x] = i]
<1>8. \A i \in 1..n : q[i] \in S /\ rank[q[i]] = i
  <2>1. ASSUME NEW i \in 1..n PROVE q[i] \in S /\ rank[q[i]] = i
    <3>1. \E x \in S : rank[x] = i
      BY <1>7
    <3>2. q[i] = CHOOSE x \in S : rank[x] = i
      OBVIOUS
    <3> QED
      BY <3>1, <3>2, Zenon
  <2> QED
    BY <2>1
<1>9. q = [i \in 1..n |-> q[i]]
  OBVIOUS
<1> HIDE DEF q
<1>10. q \in [1..n -> S]
  BY <1>8, <1>9
<1>11. ASSUME NEW i \in 1..n, NEW j \in 1..n, i < j PROVE q[i] < q[j]
  <2>1. PICK x \in S, y \in S : x = q[i] /\ y = q[j] /\ rank[x] = i /\ rank[y] = j
    BY <1>8
  <2>2. ~(y < x) /\ x # y
    <3>1. ~(j < i) /\ i # j
      BY <1>1, <1>11
    <3> QED
      BY <1>5, <2>1, <3>1
  <2> QED
    BY <2>1, <2>2
<1> DEFINE Sorted(t) == \A i, j \in DOMAIN t : i < j => t[i] < t[j]
<1>12. Sorted(q)
  BY <1>10, <1>11
<1>13. Ascending(S) = CHOOSE t \in [1..n -> S] : Sorted(t)
  BY DEF Ascending, n
<1>14. PICK t : t = Ascending(S)
  OBVIOUS
<1>15. t \in [1..n -> S] /\ Sorted(t)
  <2> HIDE DEF Sorted
  <2> QED
    BY <1>10, <1>12, <1>13, <1>14, Zenon
<1>16. t \in Seq(Nat) /\ DOMAIN t = 1..n
  <2>1. t \in [1..n -> Nat]
    BY <1>15
  <2> QED
    BY <1>1, <2>1
<1>17. \A i \in 1..n : t[i] \in S
  BY <1>15
<1>18. \A x \in S : \E i \in 1..n : t[i] = x
  <2>1. ASSUME NEW i \in 1..n, NEW j \in 1..n, t[i] = t[j] PROVE i = j
    <3>1. ~(i < j) /\ ~(j < i)
      <4>1. PICK x \in S : x = t[i] /\ x = t[j]
        BY <1>17, <2>1
      <4>2. x \in Nat /\ ~(x < x)
        BY <4>1
      <4> QED
        BY <1>15, <1>16, <4>1, <4>2
    <3> QED
      BY <1>1, <3>1
  <2>2. t \in Injection(1..n, S)
    BY <1>15, <2>1 DEF Injection, IsInjective
  <2>3. Cardinality(1..n) = Cardinality(S)
    BY <1>1 DEF n
  <2>4. t \in Surjection(1..n, S)
    BY <2>2, <2>3, FS_Injection
  <2> QED
    BY <2>4 DEF Surjection
<1> QED
  BY <1>14, <1>16, <1>17, <1>18

-----------------------------------------------------------------------------
(* The input: no line is read by two ranks or twice by one, and a rank's   *)
(* iterator yields each of its lines once, or once each way round.         *)

\* A function may be defined from one number to the next.
GoesBy(f, lo, n, a, h) ==
  f[lo] = a /\ \A i \in lo..(lo + n) : i # lo => f[i] = h[<<i, f[i - 1]>>]

LEMMA Recursion ==
  ASSUME NEW D, NEW lo \in Nat, NEW a \in D, NEW h \in [Nat \X D -> D], NEW n \in Nat
  PROVE  \E f \in [lo..(lo + n) -> D] : GoesBy(f, lo, n, a, h)
<1> DEFINE Fits(f, m) == /\ f \in [lo..(lo + m) -> D] /\ f[lo] = a
                         /\ \A i \in lo..(lo + m) : i # lo => f[i] = h[<<i, f[i - 1]>>]
           P == {m \in Nat : \E f : Fits(f, m)}
<1>1. 0 \in P
  <2> DEFINE f == [i \in lo..(lo + 0) |-> a]
  <2>1. Fits(f, 0)
    OBVIOUS
  <2> QED
    BY <2>1
<1>2. ASSUME NEW m \in Nat, m \in P PROVE m + 1 \in P
  <2>1. PICK f : Fits(f, m)
    BY <1>2
  <2> DEFINE x == h[<<lo + m + 1, f[lo + m]>>]
             g == [i \in lo..(lo + (m + 1)) |-> IF i = lo + m + 1 THEN x ELSE f[i]]
  <2>2. f[lo + m] \in D /\ x \in D
    <3>1. f[lo + m] \in D
      BY <2>1
    <3>2. <<lo + m + 1, f[lo + m]>> \in Nat \X D
      BY <3>1
    <3> QED
      BY <3>1, <3>2
  <2> HIDE DEF x
  <2>3. \A i \in lo..(lo + (m + 1)) : i = lo + m + 1 \/ i \in lo..(lo + m)
    OBVIOUS
  <2>4. g \in [lo..(lo + (m + 1)) -> D] /\ g[lo] = a
    BY <2>1, <2>2, <2>3
  <2>5. ASSUME NEW i \in lo..(lo + (m + 1)), i # lo PROVE g[i] = h[<<i, g[i - 1]>>]
    <3>1. CASE i = lo + m + 1
      <4>1. i - 1 = lo + m /\ i - 1 \in lo..(lo + (m + 1)) /\ i - 1 # lo + m + 1
        BY <3>1
      <4>2. g[i - 1] = f[lo + m] /\ g[i] = x
        BY <3>1, <4>1
      <4> QED
        BY <3>1, <4>2 DEF x
    <3>2. CASE i \in lo..(lo + m)
      <4>1. i - 1 \in lo..(lo + (m + 1)) /\ i - 1 # lo + m + 1 /\ i # lo + m + 1
        BY <2>5, <3>2
      <4>2. g[i - 1] = f[i - 1] /\ g[i] = f[i]
        BY <4>1
      <4>3. f[i] = h[<<i, f[i - 1]>>]
        BY <2>1, <2>5, <3>2
      <4> QED
        BY <4>2, <4>3
    <3> QED
      BY <2>3, <3>1, <3>2
  <2> HIDE DEF g
  <2>6. Fits(g, m + 1)
    BY <2>4, <2>5
  <2> QED
    BY <2>6
<1>3. n \in P
  <2> HIDE DEF P
  <2> QED
    BY <1>1, <1>2, StepByStep
<1> QED
  BY <1>3 DEF GoesBy

\* Sequences one after the other: whose members the result has.
LEMMA Flattened ==
  ASSUME NEW T, NEW s \in Seq(Seq(T)),
         \A i, j \in 1..Len(s) : \A k \in 1..Len(s[i]), l \in 1..Len(s[j]) :
           s[i][k] = s[j][l] => i = j /\ k = l
  PROVE  /\ FlattenSeq(s) \in Seq(T)
         /\ \A p \in 1..Len(FlattenSeq(s)) : \E i \in 1..Len(s) : \E k \in 1..Len(s[i]) :
              FlattenSeq(s)[p] = s[i][k]
         /\ \A p, q \in 1..Len(FlattenSeq(s)) : FlattenSeq(s)[p] = FlattenSeq(s)[q] => p = q
<1>1. CASE Len(s) = 0
  <2>1. FlattenSeq(s) = s
    BY <1>1 DEF FlattenSeq
  <2>2. s = << >>
    BY <1>1
  <2> QED
    BY <2>1, <2>2
<1>2. CASE Len(s) # 0
  <2> DEFINE n == Len(s)
             Is(f) == f = [i \in 1..n |-> IF i = 1 THEN s[i] ELSE f[i - 1] \o s[i]]
             g == CHOOSE f : Is(f)
  <2>1. n \in Nat \ {0} /\ \A i \in 1..n : s[i] \in Seq(T) /\ Len(s[i]) \in Nat
    BY <1>2
  <2>2. FlattenSeq(s) = g[n]
    BY <1>2 DEF FlattenSeq
  <2> HIDE DEF n
  <2>3. \E f : Is(f)
    <3> DEFINE h == [x \in Nat \X Seq(T) |-> IF x[1] \in 1..n THEN x[2] \o s[x[1]] ELSE x[2]]
    <3>1. h \in [Nat \X Seq(T) -> Seq(T)]
      BY <2>1
    <3>2. \A i \in 1..n, x \in Seq(T) : h[<<i, x>>] = x \o s[i]
      <4>1. ASSUME NEW i \in 1..n, NEW x \in Seq(T) PROVE h[<<i, x>>] = x \o s[i]
        <5>1. <<i, x>> \in Nat \X Seq(T)
          BY <2>1
        <5> QED
          BY <5>1
      <4> QED
        BY <4>1
    <3> HIDE DEF h
    <3>3. PICK m \in Nat : 1 + m = n
      BY <2>1
    <3>4. s[1] \in Seq(T)
      BY <2>1
    <3>8. PICK f \in [1..(1 + m) -> Seq(T)] : GoesBy(f, 1, m, s[1], h)
      BY <3>1, <3>4, Recursion
    <3>5. f[1] = s[1] /\ \A i \in 1..(1 + m) : i # 1 => f[i] = h[<<i, f[i - 1]>>]
      BY <3>8 DEF GoesBy
    <3>6. \A i \in 1..n : f[i] = IF i = 1 THEN s[i] ELSE f[i - 1] \o s[i]
      <4>1. ASSUME NEW i \in 1..n, i # 1 PROVE f[i] = f[i - 1] \o s[i]
        <5>1. f[i - 1] \in Seq(T)
          BY <2>1, <3>3, <3>5, <4>1
        <5>2. f[i] = h[<<i, f[i - 1]>>]
          BY <3>3, <3>5, <4>1
        <5> QED
          BY <3>2, <5>1, <5>2
      <4> QED
        BY <3>5, <4>1
    <3>7. Is(f)
      BY <3>3, <3>5, <3>6
    <3> QED
      BY <3>7
  <2>4. Is(g)
    <3> HIDE DEF Is
    <3> QED
      BY <2>3, Zenon
  <2>5. g[1] = s[1] /\ \A i \in 1..n : i # 1 => g[i] = g[i - 1] \o s[i]
    <3>1. 1 \in 1..n
      BY <2>1
    <3>2. PICK f : f = g
      OBVIOUS
    <3> HIDE DEF g
    <3>3. f = [i \in 1..n |-> IF i = 1 THEN s[i] ELSE f[i - 1] \o s[i]]
      BY <2>4, <3>2
    <3> QED
      BY <3>1, <3>2, <3>3
  <2> HIDE DEF g
  <2> DEFINE From(x, i) ==
               \A p \in 1..Len(x) : \E j \in 1..i : \E k \in 1..Len(s[j]) : x[p] = s[j][k]
             Once(x) == \A p, q \in 1..Len(x) : x[p] = x[q] => p = q
             P == {m \in Nat : m + 1 \in 1..n =>
                     g[m + 1] \in Seq(T) /\ From(g[m + 1], m + 1) /\ Once(g[m + 1])}
  <2>6. 0 \in P
    <3>1. g[1] \in Seq(T) /\ 1 \in 1..1
      BY <2>1, <2>5
    <3>2. From(g[1], 1)
      BY <2>5, <3>1
    <3>3. 1 \in 1..n /\ n = Len(s)
      BY <2>1 DEF n
    <3>4. Once(g[1])
      BY <2>5, <3>3
    <3> QED
      BY <3>1, <3>2, <3>4
  <2>7. ASSUME NEW m \in Nat, m \in P PROVE m + 1 \in P
    <3>1. CASE (m + 1) + 1 \notin 1..n
      BY <3>1
    <3>2. CASE (m + 1) + 1 \in 1..n
      <4>0. PICK i \in 1..n : i = (m + 1) + 1
        BY <3>2
      <4>1. PICK x, y, z : i = (m + 1) + 1 /\ x = g[m + 1] /\ y = s[i] /\ z = g[i]
        BY <4>0
      <4>2. i # 1 /\ i - 1 = m + 1 /\ i - 1 \in 1..n
        BY <2>1, <4>1
      <4>3. x \in Seq(T) /\ From(x, i - 1) /\ Once(x)
        BY <2>7, <4>1, <4>2
      <4>4. z = x \o y /\ y \in Seq(T)
        BY <2>1, <2>5, <4>1, <4>2
      <4>5. z \in Seq(T) /\ Len(z) = Len(x) + Len(y) /\ Len(x) \in Nat /\ Len(y) \in Nat
        BY <4>3, <4>4
      <4>6. \A p \in 1..Len(x) : z[p] = x[p]
        BY <4>3, <4>4
      <4>7. \A p \in 1..Len(z) : p \in 1..Len(x) \/ (p - Len(x) \in 1..Len(y) /\ z[p] = y[p - Len(x)])
        BY <4>3, <4>4, <4>5
      <4>8. From(z, i)
        <5>1. ASSUME NEW p \in 1..Len(z)
              PROVE  \E j \in 1..i : \E k \in 1..Len(s[j]) : z[p] = s[j][k]
          <6>1. CASE p \in 1..Len(x)
            <7>1. PICK j \in 1..(i - 1) : \E k \in 1..Len(s[j]) : x[p] = s[j][k]
              BY <4>3, <6>1
            <7>2. j \in 1..i
              BY <4>2
            <7> QED
              BY <4>6, <6>1, <7>1, <7>2
          <6>2. CASE p - Len(x) \in 1..Len(y) /\ z[p] = y[p - Len(x)]
            <7>1. i \in 1..i
              BY <4>2
            <7> QED
              BY <4>1, <6>2, <7>1
          <6> QED
            BY <4>7, <6>1, <6>2
        <5> QED
          BY <5>1
      <4>9. Once(z)
        <5>1. \A p \in 1..Len(x) : \A k \in 1..Len(y) : x[p] # y[k]
          <6>1. ASSUME NEW p \in 1..Len(x), NEW k \in 1..Len(y), x[p] = y[k] PROVE FALSE
            <7>1. PICK j \in 1..(i - 1) : \E l \in 1..Len(s[j]) : x[p] = s[j][l]
              BY <4>3
            <7>2. PICK l \in 1..Len(s[j]) : x[p] = s[j][l]
              BY <7>1
            <7>3. j \in 1..Len(s) /\ i \in 1..Len(s) /\ j # i /\ k \in 1..Len(s[i])
              BY <2>1, <4>1, <4>2 DEF n
            <7>4. s[j][l] = s[i][k]
              BY <4>1, <6>1, <7>2
            <7> QED
              BY <7>2, <7>3, <7>4
          <6> QED
            BY <6>1
        <5>2. \A k, l \in 1..Len(y) : y[k] = y[l] => k = l
          <6>1. i \in 1..Len(s)
            BY DEF n
          <6> QED
            BY <4>1, <6>1
        <5>3. ASSUME NEW p \in 1..Len(z), NEW q \in 1..Len(z), z[p] = z[q] PROVE p = q
          <6>1. CASE p \in 1..Len(x) /\ q \in 1..Len(x)
            <7>1. x[p] = x[q]
              BY <4>6, <5>3, <6>1
            <7> QED
              BY <4>3, <6>1, <7>1
          <6>2. CASE p \in 1..Len(x) /\ q \notin 1..Len(x)
            BY <4>6, <4>7, <5>1, <5>3, <6>2
          <6>3. CASE p \notin 1..Len(x) /\ q \in 1..Len(x)
            BY <4>6, <4>7, <5>1, <5>3, <6>3
          <6>4. CASE p \notin 1..Len(x) /\ q \notin 1..Len(x)
            <7>1. p - Len(x) \in 1..Len(y) /\ z[p] = y[p - Len(x)]
              BY <4>7, <6>4
            <7>2. q - Len(x) \in 1..Len(y) /\ z[q] = y[q - Len(x)]
              BY <4>7, <6>4
            <7>3. p - Len(x) = q - Len(x)
              BY <5>2, <5>3, <7>1, <7>2
            <7> QED
              BY <4>5, <7>3
          <6> QED
            BY <6>1, <6>2, <6>3, <6>4
        <5> QED
          BY <5>3
      <4> HIDE DEF From, Once
      <4>10. m + 1 \in Nat
        OBVIOUS
      <4> QED
        BY <4>1, <4>5, <4>8, <4>9, <4>10
    <3> QED
      BY <3>1, <3>2
  <2>8. Nat \subseteq P
    <3> HIDE DEF P
    <3> QED
      BY <2>6, <2>7, StepByStep
  <2>9. n - 1 \in Nat /\ (n - 1) + 1 = n /\ n \in 1..n
    BY <2>1
  <2>10. g[n] \in Seq(T) /\ From(g[n], n) /\ Once(g[n])
    <3> HIDE DEF From, Once
    <3>1. n - 1 \in P
      <4> HIDE DEF P
      <4> QED
        BY <2>8, <2>9
    <3> QED
      BY <2>9, <3>1
  <2> DEFINE Good(x) == /\ x \in Seq(T)
                        /\ \A p \in 1..Len(x) : \E i \in 1..Len(s) : \E k \in 1..Len(s[i]) :
                             x[p] = s[i][k]
                        /\ \A p, q \in 1..Len(x) : x[p] = x[q] => p = q
  <2>11. Good(g[n])
    BY <2>10 DEF n
  <2>12. Good(FlattenSeq(s))
    <3> HIDE DEF Good
    <3> QED
      BY <2>2, <2>11
  <2> QED
    BY <2>12
<1> QED
  BY <1>1, <1>2

-----------------------------------------------------------------------------
(***************************************************************************)
(* The inductive invariant.  Per phase it says what the members of a rank  *)
(* amount to: counts of what was read, first slots that follow each other  *)
(* by these counts, and slots taken by what has come.                      *)
(***************************************************************************)
Members ==
  {"outgoing", "high_vertex_count", "edges_low_count", "edges_high_count", "low_csr_idx",
   "delegate_id", "tracker", "delegate_info", "delegate_degree", "owned_targets",
   "delegate_targets", "controllers"}

BeforeHubs == {"count_edge_degrees"}
BeforeHighCounts == {"initialize_low_meta_data", "initialize_high_meta_data"}
WithHubs == BeforeHighCounts \cup
  {"count_high_degree_edges", "partition_low_degree", "partition_high_degree"}

\* The edges of v in S, and those of hub number h that belong on r.
CountOf(v, S) == Cardinality({e \in S : e.source = v})
HighCountOf(r, h, S) == Cardinality({e \in HighEdgesTo(r, S) : HubNumber(e.source) = h})

Degrees(r) ==
  /\ phase \in BeforeHubs =>
       local[r].outgoing = [i \in Cells |-> CountOf(Label(r, i), AllEdges \ Unread)]
  /\ phase \in WithHubs =>
       local[r].outgoing = [i \in Cells |-> CountOf(Label(r, i), AllEdges)]

HubsAreHigh(r) ==
  phase \in WithHubs =>
    \A i \in Cells : IsHub(Label(r, i)) <=> CountOf(Label(r, i), AllEdges) >= threshold

Identifiers(r) ==
  /\ phase \in BeforeHubs \cup BeforeHighCounts =>
       local[r].delegate_id = [i \in 0..(MaxLocal + 1) |-> None]
  /\ phase \in {"count_high_degree_edges", "partition_low_degree"} =>
       \A i \in Cells : local[r].delegate_id[i] = None <=> ~IsHub(Label(r, i))

LowSlots(r) ==
  phase \in {"initialize_high_meta_data", "count_high_degree_edges", "partition_low_degree"} =>
    \A i \in Cells :
      /\ local[r].low_csr_idx[i] \in Nat
      /\ local[r].low_csr_idx[i + 1] = local[r].low_csr_idx[i]
           + (IF IsHub(Label(r, i)) THEN 0 ELSE CountOf(Label(r, i), AllEdges))

LowTaken(r) ==
  /\ phase \in BeforeHubs \cup BeforeHighCounts \cup {"count_high_degree_edges"} =>
       local[r].tracker = [i \in Cells |-> 0]
  /\ phase = "partition_low_degree" =>
       /\ local[r].tracker \in [Cells -> Nat]
       /\ \A i \in Cells : ~IsHub(Label(r, i)) =>
            local[r].tracker[i] = CountOf(Label(r, i), AllEdges \ ToCome(r))

HighSlots(r) ==
  /\ phase = "count_high_degree_edges" =>
       local[r].delegate_info = [h \in 0..Len(hubs) |-> HighCountOf(r, h, AllEdges \ Unread)]
  /\ phase \in {"partition_low_degree", "partition_high_degree"} =>
       \A h \in HubNumbers :
         /\ local[r].delegate_info[h] \in Nat
         /\ local[r].delegate_info[h + 1]
              = local[r].delegate_info[h] + HighCountOf(r, h, AllEdges)

HighTaken(r) ==
  /\ phase \in {"count_high_degree_edges", "partition_low_degree"} =>
       local[r].delegate_degree = [h \in HubNumbers |-> 0]
  /\ phase = "partition_high_degree" =>
       local[r].delegate_degree
         = [h \in HubNumbers |-> HighCountOf(r, h, AllEdges \ ToCome(r))]

Sums(r) ==
  /\ Degrees(r) /\ HubsAreHigh(r) /\ Identifiers(r)
  /\ LowSlots(r) /\ LowTaken(r) /\ HighSlots(r) /\ HighTaken(r)

ShapeOK ==
  /\ InputOK /\ Positioned
  /\ turn \in Nat /\ hubs \in Seq(Nat)
  /\ \A r \in Ranks : DOMAIN local[r] = Members

ConstructionInv == ShapeOK /\ \A r \in Ranks : Sums(r)

\* What depends on the edges alone, and what on the hubs alone.
LEMMA EdgesKept ==
  ASSUME edges' = edges
  PROVE  AllEdges' = AllEdges /\ MaxLocal' = MaxLocal /\ Cells' = Cells
<1>1. AllEdges' = AllEdges
  BY DEF AllEdges
<1>2. MaxVertex' = MaxVertex
  BY <1>1 DEF MaxVertex
<1>3. MaxLocal' = MaxLocal
  BY <1>2 DEF MaxLocal
<1> QED
  BY <1>1, <1>3 DEF Cells

LEMMA HubsKept ==
  ASSUME hubs' = hubs
  PROVE  /\ HubNumbers' = HubNumbers
         /\ \A v : IsHub(v)' <=> IsHub(v)
         /\ \A r, h, S : HighCountOf(r, h, S)' = HighCountOf(r, h, S)
<1>1. HubNumbers' = HubNumbers
  BY DEF HubNumbers
<1>2. \A v : (IsHub(v)' <=> IsHub(v)) /\ HubNumber(v)' = HubNumber(v)
  BY DEF IsHub, HubNumber
<1>3. \A r, S : HighEdgesTo(r, S)' = HighEdgesTo(r, S)
  BY <1>2 DEF HighEdgesTo
<1>4. \A r, h, S : HighCountOf(r, h, S)' = HighCountOf(r, h, S)
  BY <1>2, <1>3 DEF HighCountOf
<1> QED
  BY <1>1, <1>2, <1>4

LEMMA CellNumbers ==
  ASSUME InputOK, Positioned
  PROVE  MaxVertex \in Nat /\ MaxLocal \in Nat /\ (\A e \in AllEdges : e.source <= MaxVertex)
<1>1. AllEdges \subseteq EdgeType /\ IsFiniteSet(AllEdges)
  BY WhatIsRead
<1> DEFINE ends == [e \in AllEdges |-> {e.source, e.target}]
           all == {0} \cup UNION Range(ends)
<1>2. \A e \in AllEdges : /\ e.source \in Nat /\ e.target \in Nat
                          /\ IsFiniteSet({e.source, e.target})
  <2>1. \A e \in AllEdges : e.source \in Nat /\ e.target \in Nat
    BY <1>1 DEF EdgeType
  <2>2. \A a, b : IsFiniteSet({a, b})
    <3>1. ASSUME NEW a, NEW b PROVE IsFiniteSet({a, b})
      <4>1. IsFiniteSet({a})
        BY FS_Singleton
      <4>2. {a, b} = {a} \cup {b}
        OBVIOUS
      <4> QED
        BY <4>1, <4>2, FS_AddElement
    <3> QED
      BY <3>1
  <2> QED
    BY <2>1, <2>2
<1>3. IsFiniteSet(UNION Range(ends))
  <2>1. IsFiniteSet(Range(ends))
    BY <1>1, FiniteRange
  <2>2. \A T \in Range(ends) : IsFiniteSet(T)
    BY <1>2 DEF Range
  <2> HIDE DEF ends
  <2> QED
    BY <2>1, <2>2, FS_UNION
<1>4. IsFiniteSet(all)
  <2>1. IsFiniteSet({0})
    BY FS_Singleton
  <2> HIDE DEF ends
  <2> QED
    BY <1>3, <2>1, FS_Union
<1>5. \A x : x \in UNION Range(ends) <=> \E e \in AllEdges : x \in {e.source, e.target}
  BY DEF Range
<1>6. all \subseteq Nat /\ all # {}
  <2>1. ASSUME NEW x \in UNION Range(ends) PROVE x \in Nat
    <3>1. PICK e \in AllEdges : x \in {e.source, e.target}
      BY <1>5
    <3> QED
      BY <1>2, <3>1
  <2> HIDE DEF ends
  <2> QED
    BY <2>1
<1>7. MaxVertex = Max(all)
  <2>1. UNION Range(ends) = UNION {{e.source, e.target} : e \in AllEdges}
    BY <1>5
  <2> HIDE DEF ends
  <2> QED
    BY <2>1 DEF MaxVertex
<1>8. Max(all) \in all /\ \A x \in all : x <= Max(all)
  <2> HIDE DEF all
  <2> QED
    BY <1>4, <1>6, GreatestNumber
<1>9. MaxVertex \in Nat
  BY <1>6, <1>7, <1>8
<1>10. \A e \in AllEdges : e.source <= MaxVertex
  <2>1. \A e \in AllEdges : e.source \in all
    BY <1>5
  <2> HIDE DEF all
  <2> QED
    BY <1>7, <1>8, <2>1
<1>11. MaxLocal \in Nat
  <2>1. Size \in Nat \ {0}
    BY SizesAssumption
  <2>2. MaxVertex + Size - 1 \in Nat
    BY <1>9, <2>1
  <2> QED
    BY <2>1, <2>2, Division DEF MaxLocal
<1> QED
  BY <1>9, <1>10, <1>11

\* Counts of parts, and of two parts together.
LEMMA PartsCount ==
  ASSUME NEW A, IsFiniteSet(A), NEW S \in SUBSET A, NEW T \in SUBSET A, S \cap T = {}, NEW v
  PROVE  /\ CountOf(v, S) \in Nat /\ CountOf(v, T) \in Nat
         /\ CountOf(v, S \cup T) = CountOf(v, S) + CountOf(v, T)
<1> DEFINE s == {e \in S : e.source = v}
           t == {e \in T : e.source = v}
<1>1. IsFiniteSet(s) /\ IsFiniteSet(t)
  <2>1. s \in SUBSET A /\ t \in SUBSET A
    OBVIOUS
  <2> HIDE DEF s, t
  <2> QED
    BY <2>1, FS_Subset
<1>2. s \cap t = {} /\ {e \in S \cup T : e.source = v} = s \cup t
  OBVIOUS
<1>3. /\ Cardinality(s) \in Nat /\ Cardinality(t) \in Nat
      /\ Cardinality(s \cup t) = Cardinality(s) + Cardinality(t)
  <2> HIDE DEF s, t
  <2> QED
    BY <1>1, <1>2, CountsAdd
<1> QED
  BY <1>2, <1>3 DEF CountOf

LEMMA HighPartsCount ==
  ASSUME NEW A, IsFiniteSet(A), NEW S \in SUBSET A, NEW T \in SUBSET A, S \cap T = {},
         NEW r, NEW h
  PROVE  /\ HighCountOf(r, h, S) \in Nat /\ HighCountOf(r, h, T) \in Nat
         /\ HighCountOf(r, h, S \cup T) = HighCountOf(r, h, S) + HighCountOf(r, h, T)
<1> DEFINE s == {e \in HighEdgesTo(r, S) : HubNumber(e.source) = h}
           t == {e \in HighEdgesTo(r, T) : HubNumber(e.source) = h}
<1>1. IsFiniteSet(s) /\ IsFiniteSet(t)
  <2>1. s \in SUBSET A /\ t \in SUBSET A
    BY DEF HighEdgesTo
  <2> HIDE DEF s, t
  <2> QED
    BY <2>1, FS_Subset
<1>2. s \cap t = {} /\ {e \in HighEdgesTo(r, S \cup T) : HubNumber(e.source) = h} = s \cup t
  BY DEF HighEdgesTo
<1>3. /\ Cardinality(s) \in Nat /\ Cardinality(t) \in Nat
      /\ Cardinality(s \cup t) = Cardinality(s) + Cardinality(t)
  <2> HIDE DEF s, t
  <2> QED
    BY <1>1, <1>2, CountsAdd
<1> QED
  BY <1>2, <1>3 DEF HighCountOf

\* Of nothing there is no count.
LEMMA NothingCounts ==
  (\A v : CountOf(v, {}) = 0) /\ (\A r, h : HighCountOf(r, h, {}) = 0)
<1>1. \A v : {e \in {} : e.source = v} = {}
  OBVIOUS
<1>2. \A r, h : {e \in HighEdgesTo(r, {}) : HubNumber(e.source) = h} = {}
  BY DEF HighEdgesTo
<1> QED
  BY <1>1, <1>2, FS_EmptySet DEF CountOf, HighCountOf

-----------------------------------------------------------------------------
(* Every step keeps the invariant.                                         *)

\* A phase has one name.
LEMMA OnePhaseEach ==
  /\ "count_edge_degrees" \in BeforeHubs /\ "count_edge_degrees" \notin WithHubs
  /\ "count_edge_degrees" \notin BeforeHighCounts
  /\ "initialize_low_meta_data" \in WithHubs /\ "initialize_low_meta_data" \in BeforeHighCounts
  /\ "initialize_high_meta_data" \in WithHubs /\ "initialize_high_meta_data" \in BeforeHighCounts
  /\ \A p \in {"count_high_degree_edges", "partition_low_degree", "partition_high_degree"} :
       p \in WithHubs /\ p \notin BeforeHubs /\ p \notin BeforeHighCounts
  /\ "initialize_low_meta_data" \notin BeforeHubs /\ "initialize_high_meta_data" \notin BeforeHubs
BY DEF BeforeHubs, WithHubs, BeforeHighCounts

LEMMA CountEdgeDegreesKeeps ==
  ASSUME ConstructionInv, CountEdgeDegrees
  PROVE  ConstructionInv'
<1>1. /\ InputOK /\ Positioned /\ turn \in Nat /\ hubs \in Seq(Nat)
      /\ \A r \in Ranks : DOMAIN local[r] = Members /\ Sums(r)
  BY DEF ConstructionInv, ShapeOK
<1>2. /\ phase = "count_edge_degrees" /\ phase' = phase /\ turn' = turn /\ hubs' = hubs
      /\ edges' = edges /\ chunk' = chunk /\ passes' = passes /\ threshold' = threshold /\ Advance
  <2>1. phase = "count_edge_degrees" /\ Advance /\ UNCHANGED <<input, phase, turn, hubs, walk>>
    BY Zenon DEF CountEdgeDegrees
  <2> QED
    BY <2>1 DEF input
<1>3. /\ Unread' = Unread \ Round /\ Positioned' /\ AllEdges' = AllEdges /\ Cells' = Cells
      /\ MaxLocal' = MaxLocal
  BY <1>1, <1>2, Advancing, EdgesKept
<1>4. /\ Round \subseteq Unread /\ Unread \subseteq AllEdges /\ IsFiniteSet(AllEdges)
  BY <1>1, WhatIsRead
<1>5. ASSUME NEW r \in Ranks
      PROVE  /\ DOMAIN local'[r] = Members
             /\ local'[r].outgoing =
                  Plus(Plus(local[r].outgoing, CountedHere(r, Round \cap Range(edges[r]))),
                       CountedHere(r, Round \ (Round \cap Range(edges[r]))))
             /\ local'[r].delegate_id = local[r].delegate_id
             /\ local'[r].tracker = local[r].tracker
  <2> DEFINE Mine(q) == Plus(local[q].outgoing, CountedHere(q, Round \cap Range(edges[q])))
             Out(q) == Plus(Mine(q), CountedHere(q, Round \ (Round \cap Range(edges[q]))))
             High(q) == local[q].high_vertex_count
                          + Cardinality(Crossing(local[q].outgoing, Mine(q)))
                          + Cardinality(Crossing(Mine(q), Out(q)))
  <2>1. local' = [q \in Ranks |-> [local[q] EXCEPT !.outgoing = Out(q), !.high_vertex_count = High(q)]]
    BY Zenon DEF CountEdgeDegrees
  <2>2. \A q \in Ranks : DOMAIN local[q] = Members
    BY <1>1
  <2> HIDE DEF Out, High
  <2>3. PICK m, o, h : m = local[r] /\ o = Out(r) /\ h = High(r)
    OBVIOUS
  <2>6. local'[r] = [local[r] EXCEPT !.outgoing = Out(r), !.high_vertex_count = High(r)]
    BY <2>1, Zenon
  <2>4. local'[r] = [m EXCEPT !.outgoing = o, !.high_vertex_count = h] /\ DOMAIN m = Members
    BY <2>2, <2>3, <2>6, Zenon
  <2>5. /\ DOMAIN local'[r] = Members /\ local'[r].outgoing = o
        /\ local'[r].delegate_id = m.delegate_id /\ local'[r].tracker = m.tracker
    BY <2>4 DEF Members
  <2> QED
    BY <2>3, <2>5 DEF Out
<1>6. ASSUME NEW r \in Ranks
      PROVE  local'[r].outgoing = [i \in Cells |-> CountOf(Label(r, i), AllEdges \ (Unread \ Round))]
  <2> DEFINE own == Round \cap Range(edges[r])
             foreign == Round \ own
             read == AllEdges \ Unread
  <2>1. local[r].outgoing = [i \in Cells |-> CountOf(Label(r, i), read)]
    BY <1>1, <1>2, OnePhaseEach DEF Sums, Degrees
  <2>2. /\ own \in SUBSET AllEdges /\ foreign \in SUBSET AllEdges /\ read \in SUBSET AllEdges
        /\ read \cup own \in SUBSET AllEdges
        /\ read \cap own = {} /\ (read \cup own) \cap foreign = {}
        /\ (read \cup own) \cup foreign = AllEdges \ (Unread \ Round)
    BY <1>4
  <2>3. local'[r].outgoing = Plus(Plus(local[r].outgoing, CountedHere(r, own)), CountedHere(r, foreign))
    BY <1>5
  <2> HIDE DEF own, foreign, read
  <2>4. ASSUME NEW v
        PROVE  CountOf(v, read) + CountOf(v, own) + CountOf(v, foreign)
                 = CountOf(v, AllEdges \ (Unread \ Round))
    <3>1. CountOf(v, read \cup own) = CountOf(v, read) + CountOf(v, own)
      BY <1>4, <2>2, PartsCount
    <3>2. CountOf(v, (read \cup own) \cup foreign) = CountOf(v, read \cup own) + CountOf(v, foreign)
      BY <1>4, <2>2, PartsCount
    <3> QED
      BY <2>2, <3>1, <3>2
  <2>5. CountedHere(r, own) = [i \in Cells |-> CountOf(Label(r, i), own)]
    BY DEF CountedHere, CountOf
  <2>6. CountedHere(r, foreign) = [i \in Cells |-> CountOf(Label(r, i), foreign)]
    BY DEF CountedHere, CountOf
  <2>7. local'[r].outgoing =
          [i \in Cells |-> CountOf(Label(r, i), read) + CountOf(Label(r, i), own)
                             + CountOf(Label(r, i), foreign)]
    BY <2>1, <2>3, <2>5, <2>6 DEF Plus
  <2> QED
    BY <2>4, <2>7
<1>7. ASSUME NEW r \in Ranks PROVE Sums(r)'
  <2>1. Degrees(r)'
    BY <1>2, <1>3, <1>6, OnePhaseEach DEF Degrees
  <2>2. HubsAreHigh(r)' /\ LowSlots(r)' /\ HighSlots(r)' /\ HighTaken(r)'
    BY <1>2, OnePhaseEach DEF HubsAreHigh, LowSlots, HighSlots, HighTaken
  <2>3. Identifiers(r)'
    BY <1>1, <1>2, <1>3, <1>5, OnePhaseEach DEF Sums, Identifiers
  <2>4. LowTaken(r)'
    BY <1>1, <1>2, <1>3, <1>5, OnePhaseEach DEF Sums, LowTaken
  <2> QED
    BY <2>1, <2>2, <2>3, <2>4 DEF Sums
<1>8. ShapeOK'
  BY <1>1, <1>2, <1>3, <1>5 DEF ShapeOK, InputOK
<1> QED
  BY <1>7, <1>8 DEF ConstructionInv

\* Labels of the cells are numbers up to some bound.
LEMMA LabelsEnd ==
  ASSUME NEW m \in Nat
  PROVE  \E b \in Nat : \A r \in Ranks, i \in 0..m : Label(r, i) \in 0..b
<1>1. Size \in Nat \ {0}
  BY SizesAssumption
<1>2. m * Size \in Nat
  BY <1>1
<1>3. ASSUME NEW r \in Ranks, NEW i \in 0..m PROVE Label(r, i) \in 0..(m * Size + Size)
  <2>1. r \in 0..(Size - 1)
    BY DEF Ranks
  <2>2. m = i + (m - i) /\ m - i \in Nat
    OBVIOUS
  <2>3. (i + (m - i)) * Size = i * Size + (m - i) * Size /\ (m - i) * Size \in Nat /\ i * Size \in Nat
    BY <1>1, <2>2
  <2> QED
    BY <1>1, <1>2, <2>1, <2>2, <2>3 DEF Label
<1>4. m * Size + Size \in Nat
  BY <1>1, <1>2
<1> QED
  BY <1>3, <1>4

LEMMA GatherHubsKeeps ==
  ASSUME ConstructionInv, GatherHubs
  PROVE  ConstructionInv'
<1>1. /\ InputOK /\ Positioned /\ turn \in Nat /\ hubs \in Seq(Nat)
      /\ \A r \in Ranks : DOMAIN local[r] = Members /\ Sums(r)
  BY DEF ConstructionInv, ShapeOK
<1>2. /\ phase = "count_edge_degrees" /\ phase' = "initialize_low_meta_data"
      /\ turn' = turn /\ itr' = itr /\ AllRead /\ hubs' = Ascending(UNION {TempHubs(r) : r \in Ranks})
      /\ edges' = edges /\ chunk' = chunk /\ passes' = passes /\ threshold' = threshold
  BY DEF GatherHubs, input
<1>3. AllEdges' = AllEdges /\ Cells' = Cells /\ MaxLocal' = MaxLocal
  BY <1>2, EdgesKept
<1>4. MaxLocal \in Nat /\ Cells = 0..MaxLocal /\ AllEdges \ Unread = AllEdges
  BY <1>1, <1>2, CellNumbers DEF Cells, AllRead
<1>5. ASSUME NEW r \in Ranks
      PROVE  /\ DOMAIN local'[r] = Members /\ local'[r].outgoing = local[r].outgoing
             /\ local'[r].delegate_id = local[r].delegate_id /\ local'[r].tracker = local[r].tracker
  <2> DEFINE Low(q) == FirstSlots(LowCount(q), MaxLocal + 1)[MaxLocal + 1]
  <2>1. local' = [q \in Ranks |-> [local[q] EXCEPT !.edges_low_count = Low(q)]]
    BY Zenon DEF GatherHubs
  <2> HIDE DEF Low
  <2>2. PICK m, l : m = local[r] /\ l = Low(r)
    OBVIOUS
  <2>3. local'[r] = [m EXCEPT !.edges_low_count = l] /\ DOMAIN m = Members
    BY <1>1, <2>1, <2>2, Zenon
  <2> QED
    BY <2>2, <2>3 DEF Members
<1>6. \A r \in Ranks : local[r].outgoing = [i \in Cells |-> CountOf(Label(r, i), AllEdges)]
  BY <1>1, <1>2, <1>4, OnePhaseEach DEF Sums, Degrees
<1>7. \A r \in Ranks, i \in Cells : IsHigh(r, i) <=> CountOf(Label(r, i), AllEdges) >= threshold
  BY <1>6 DEF IsHigh
<1> DEFINE all == UNION {TempHubs(r) : r \in Ranks}
<1>8. \A v : v \in all <=> \E r \in Ranks, i \in Cells : IsHigh(r, i) /\ v = Label(r, i)
  BY DEF TempHubs
<1>9. all \subseteq Nat /\ IsFiniteSet(all)
  <2>1. PICK b \in Nat : \A r \in Ranks, i \in Cells : Label(r, i) \in 0..b
    BY <1>4, LabelsEnd
  <2>2. all \in SUBSET (0..b)
    <3> HIDE DEF all
    <3> QED
      BY <1>8, <2>1
  <2>3. IsFiniteSet(0..b)
    BY FS_Interval
  <2> HIDE DEF all
  <2>4. IsFiniteSet(all)
    BY <2>2, <2>3, FS_Subset
  <2>5. 0..b \subseteq Nat
    OBVIOUS
  <2> QED
    BY <2>2, <2>4, <2>5
<1>10. hubs' = Ascending(all)
  BY <1>2
<1> HIDE DEF all
<1>11. hubs' \in Seq(Nat) /\ \A v : v \in all <=> \E i \in DOMAIN hubs' : hubs'[i] = v
  BY <1>9, <1>10, AscendingHasAll
<1>12. \A v : IsHub(v)' <=> v \in all
  BY <1>11 DEF IsHub
<1>13. ASSUME NEW r \in Ranks, NEW i \in Cells
       PROVE  IsHub(Label(r, i))' <=> CountOf(Label(r, i), AllEdges) >= threshold
  <2>1. Label(r, i) \in all => IsHigh(r, i)
    <3> SUFFICES ASSUME Label(r, i) \in all PROVE IsHigh(r, i)
      OBVIOUS
    <3>1. PICK q \in Ranks, j \in Cells : IsHigh(q, j) /\ Label(r, i) = Label(q, j)
      BY <1>8
    <3>2. i \in Nat /\ j \in Nat
      BY <1>4
    <3>3. Owner(Label(r, i)) = r /\ LocalId(Label(r, i)) = i
      BY <3>2, Numbering
    <3>4. Owner(Label(q, j)) = q /\ LocalId(Label(q, j)) = j
      BY <3>2, Numbering
    <3> QED
      BY <3>1, <3>3, <3>4
  <2>2. IsHigh(r, i) => Label(r, i) \in all
    BY <1>8
  <2>3. Label(r, i)' = Label(r, i)
    BY DEF Label
  <2> QED
    BY <1>7, <1>12, <2>1, <2>2, <2>3
<1>14. ASSUME NEW r \in Ranks PROVE Sums(r)'
  <2>1. Degrees(r)'
    BY <1>2, <1>3, <1>5, <1>6, OnePhaseEach DEF Degrees
  <2>2. HubsAreHigh(r)'
    BY <1>2, <1>3, <1>13 DEF HubsAreHigh
  <2>3. Identifiers(r)'
    BY <1>1, <1>2, <1>3, <1>5, OnePhaseEach DEF Sums, Identifiers
  <2>4. LowTaken(r)'
    BY <1>1, <1>2, <1>3, <1>5, OnePhaseEach DEF Sums, LowTaken
  <2>5. LowSlots(r)' /\ HighSlots(r)' /\ HighTaken(r)'
    BY <1>2 DEF LowSlots, HighSlots, HighTaken
  <2> QED
    BY <2>1, <2>2, <2>3, <2>4, <2>5 DEF Sums
<1>15. ShapeOK'
  BY <1>1, <1>2, <1>5, <1>11 DEF ShapeOK, InputOK, Positioned
<1> QED
  BY <1>14, <1>15 DEF ConstructionInv

LEMMA InitializeLowMetaDataKeeps ==
  ASSUME ConstructionInv, InitializeLowMetaData
  PROVE  ConstructionInv'
<1>1. /\ InputOK /\ Positioned /\ turn \in Nat /\ hubs \in Seq(Nat)
      /\ \A r \in Ranks : DOMAIN local[r] = Members /\ Sums(r)
  BY DEF ConstructionInv, ShapeOK
<1>2. /\ phase = "initialize_low_meta_data" /\ phase' = "initialize_high_meta_data"
      /\ turn' = turn /\ itr' = itr /\ hubs' = hubs
      /\ edges' = edges /\ chunk' = chunk /\ passes' = passes /\ threshold' = threshold
  BY DEF InitializeLowMetaData, input
<1>3. /\ AllEdges' = AllEdges /\ Cells' = Cells /\ MaxLocal' = MaxLocal
      /\ \A v : IsHub(v)' <=> IsHub(v)
  BY <1>2, EdgesKept, HubsKept
<1>4. MaxLocal \in Nat /\ Cells = 0..MaxLocal /\ IsFiniteSet(AllEdges)
  BY <1>1, CellNumbers, WhatIsRead DEF Cells
<1>5. ASSUME NEW r \in Ranks
      PROVE  /\ DOMAIN local'[r] = Members /\ local'[r].outgoing = local[r].outgoing
             /\ local'[r].delegate_id = local[r].delegate_id /\ local'[r].tracker = local[r].tracker
             /\ local'[r].low_csr_idx = FirstSlots(LowCount(r), MaxLocal + 1)
  <2> DEFINE Low(q) == FirstSlots(LowCount(q), MaxLocal + 1)
  <2>1. local' = [q \in Ranks |-> [local[q] EXCEPT !.low_csr_idx = Low(q)]]
    BY Zenon DEF InitializeLowMetaData
  <2> HIDE DEF Low
  <2>2. PICK m, l : m = local[r] /\ l = Low(r)
    OBVIOUS
  <2>3. local'[r] = [m EXCEPT !.low_csr_idx = l] /\ DOMAIN m = Members
    BY <1>1, <2>1, <2>2, Zenon
  <2>4. /\ DOMAIN local'[r] = Members /\ local'[r].outgoing = m.outgoing
        /\ local'[r].delegate_id = m.delegate_id /\ local'[r].tracker = m.tracker
        /\ local'[r].low_csr_idx = l
    BY <2>3 DEF Members
  <2> QED
    BY <2>2, <2>4 DEF Low
<1>6. ASSUME NEW r \in Ranks, NEW i \in Cells
      PROVE  /\ local'[r].low_csr_idx[i] \in Nat
             /\ local'[r].low_csr_idx[i + 1] = local'[r].low_csr_idx[i]
                  + (IF IsHub(Label(r, i)) THEN 0 ELSE CountOf(Label(r, i), AllEdges))
  <2> DEFINE count == LowCount(r)
             last == MaxLocal + 1
  <2>1. \A j \in Cells : count[j] = IF IsHub(Label(r, j)) THEN 0 ELSE CountOf(Label(r, j), AllEdges)
    <3>1. local[r].outgoing = [j \in Cells |-> CountOf(Label(r, j), AllEdges)]
      BY <1>1, <1>2, OnePhaseEach DEF Sums, Degrees
    <3>2. \A j \in Cells : IsHub(Label(r, j)) <=> CountOf(Label(r, j), AllEdges) >= threshold
      BY <1>1, <1>2, OnePhaseEach DEF Sums, HubsAreHigh
    <3> QED
      BY <3>1, <3>2 DEF LowCount, IsHigh
  <2>2. \A j \in Cells : CountOf(Label(r, j), AllEdges) \in Nat
    <3>1. \A v : CountOf(v, AllEdges) \in Nat
      <4>1. {} \in SUBSET AllEdges /\ AllEdges \in SUBSET AllEdges /\ AllEdges \cap {} = {}
        OBVIOUS
      <4> QED
        BY <1>4, <4>1, PartsCount
    <3> QED
      BY <3>1
  <2>3. last \in Nat /\ 0..(last - 1) = Cells
    BY <1>4
  <2> HIDE DEF count, last
  <2>4. \A j \in 0..(last - 1) : count[j] \in Nat
    BY <2>1, <2>2, <2>3
  <2>5. FirstSlots(count, last) \in [0..last -> Nat]
    BY <2>3, <2>4, SlotsAreNumbers
  <2>6. \A j \in 0..(last - 1) : FirstSlots(count, last)[j + 1] = FirstSlots(count, last)[j] + count[j]
    BY <2>3, SlotsFollow
  <2>7. local'[r].low_csr_idx = FirstSlots(count, last)
    BY <1>5 DEF count, last
  <2>8. i \in 0..(last - 1) /\ i \in 0..last
    BY <2>3
  <2>9. FirstSlots(count, last)[i + 1] = FirstSlots(count, last)[i] + count[i]
    BY <2>6, <2>8
  <2>10. FirstSlots(count, last)[i] \in Nat
    BY <2>5, <2>8
  <2>11. count[i] = IF IsHub(Label(r, i)) THEN 0 ELSE CountOf(Label(r, i), AllEdges)
    BY <2>1
  <2> QED
    BY <2>7, <2>9, <2>10, <2>11
<1>7. ASSUME NEW r \in Ranks PROVE Sums(r)'
  <2>1. Degrees(r)' /\ HubsAreHigh(r)'
    BY <1>1, <1>2, <1>3, <1>5, OnePhaseEach DEF Sums, Degrees, HubsAreHigh, Label
  <2>2. Identifiers(r)' /\ LowTaken(r)'
    BY <1>1, <1>2, <1>3, <1>5, OnePhaseEach DEF Sums, Identifiers, LowTaken
  <2>3. LowSlots(r)'
    BY <1>2, <1>3, <1>6 DEF LowSlots
  <2>4. HighSlots(r)' /\ HighTaken(r)'
    BY <1>2 DEF HighSlots, HighTaken
  <2> QED
    BY <2>1, <2>2, <2>3, <2>4 DEF Sums
<1>8. ShapeOK'
  BY <1>1, <1>2, <1>5 DEF ShapeOK, InputOK, Positioned
<1> QED
  BY <1>7, <1>8 DEF ConstructionInv

LEMMA InitializeHighMetaDataKeeps ==
  ASSUME ConstructionInv, InitializeHighMetaData
  PROVE  ConstructionInv'
<1>1. /\ InputOK /\ Positioned /\ turn \in Nat /\ hubs \in Seq(Nat)
      /\ \A r \in Ranks : DOMAIN local[r] = Members /\ Sums(r)
  BY DEF ConstructionInv, ShapeOK
<1>2. /\ phase = "initialize_high_meta_data" /\ phase' = "count_high_degree_edges"
      /\ turn' = turn /\ Rewind /\ hubs' = hubs
      /\ edges' = edges /\ chunk' = chunk /\ passes' = passes /\ threshold' = threshold
  <2>1. /\ phase = "initialize_high_meta_data" /\ phase' = "count_high_degree_edges" /\ Rewind
        /\ UNCHANGED <<input, turn, hubs, walk>>
    BY Zenon DEF InitializeHighMetaData
  <2> QED
    BY <2>1 DEF input
<1>3. /\ AllEdges' = AllEdges /\ Cells' = Cells /\ MaxLocal' = MaxLocal
      /\ Unread' = AllEdges /\ Positioned'
  BY <1>1, <1>2, EdgesKept, Rewinding
<1>4. /\ HubNumbers' = HubNumbers /\ \A v : IsHub(v)' <=> IsHub(v)
      /\ \A r, h, S : HighCountOf(r, h, S)' = HighCountOf(r, h, S)
  BY <1>2, HubsKept
<1>5. MaxLocal \in Nat /\ Cells = 0..MaxLocal
  BY <1>1, CellNumbers DEF Cells
<1> DEFINE Info == [h \in 0..Len(hubs) |-> 0]
           None0 == [h \in HubNumbers |-> 0]
           Id(q) == [i \in DOMAIN local[q].delegate_id |->
                       IF IsHub(Label(q, i)) THEN HubNumber(Label(q, i))
                                             ELSE local[q].delegate_id[i]]
<1>6. ASSUME NEW r \in Ranks
      PROVE  /\ DOMAIN local'[r] = Members /\ local'[r].outgoing = local[r].outgoing
             /\ local'[r].low_csr_idx = local[r].low_csr_idx /\ local'[r].tracker = local[r].tracker
             /\ local'[r].delegate_info = Info /\ local'[r].delegate_degree = None0
             /\ local'[r].delegate_id = Id(r)
  <2>1. local' = [q \in Ranks |-> [local[q] EXCEPT
                    !.delegate_info = Info, !.delegate_degree = None0, !.delegate_id = Id(q)]]
    BY Zenon DEF InitializeHighMetaData
  <2> HIDE DEF Info, None0, Id
  <2>2. PICK m, a, b, c : m = local[r] /\ a = Info /\ b = None0 /\ c = Id(r)
    OBVIOUS
  <2>3. /\ local'[r] = [m EXCEPT !.delegate_info = a, !.delegate_degree = b, !.delegate_id = c]
        /\ DOMAIN m = Members
    BY <1>1, <2>1, <2>2, Zenon
  <2>4. /\ DOMAIN local'[r] = Members /\ local'[r].outgoing = m.outgoing
        /\ local'[r].low_csr_idx = m.low_csr_idx /\ local'[r].tracker = m.tracker
        /\ local'[r].delegate_info = a /\ local'[r].delegate_degree = b
        /\ local'[r].delegate_id = c
    BY <2>3 DEF Members
  <2> QED
    BY <2>2, <2>4
<1>7. ASSUME NEW r \in Ranks, NEW i \in Cells
      PROVE  local'[r].delegate_id[i] = None <=> ~IsHub(Label(r, i))
  <2>1. local[r].delegate_id = [j \in 0..(MaxLocal + 1) |-> None]
    BY <1>1, <1>2, OnePhaseEach DEF Sums, Identifiers
  <2>2. i \in 0..(MaxLocal + 1)
    BY <1>5
  <2>3. local'[r].delegate_id[i] = IF IsHub(Label(r, i)) THEN HubNumber(Label(r, i)) ELSE None
    <3>1. Id(r)[i] = IF IsHub(Label(r, i)) THEN HubNumber(Label(r, i)) ELSE None
      BY <2>1, <2>2
    <3> HIDE DEF Id
    <3>2. local'[r].delegate_id = Id(r)
      BY <1>6
    <3> QED
      BY <3>1, <3>2
  <2>4. IsHub(Label(r, i)) => HubNumber(Label(r, i)) \in Nat
    <3>1. DOMAIN hubs \subseteq Nat \ {0}
      BY <1>1
    <3>2. ASSUME NEW v, IsHub(v) PROVE HubNumber(v) \in Nat
      <4>1. PICK i0 : i0 = CHOOSE i1 \in DOMAIN hubs : hubs[i1] = v
        OBVIOUS
      <4>2. i0 \in DOMAIN hubs
        BY <3>2, <4>1, Zenon DEF IsHub
      <4> QED
        BY <3>1, <4>1, <4>2 DEF HubNumber
    <3> QED
      BY <3>2
  <2>5. None \notin Nat
    BY SizesAssumption
  <2> QED
    BY <2>3, <2>4, <2>5
<1>8. ASSUME NEW r \in Ranks PROVE Sums(r)'
  <2>1. Degrees(r)' /\ HubsAreHigh(r)'
    BY <1>1, <1>2, <1>3, <1>4, <1>6, OnePhaseEach DEF Sums, Degrees, HubsAreHigh, Label
  <2>2. Identifiers(r)'
    BY <1>2, <1>3, <1>4, <1>7, OnePhaseEach DEF Identifiers, Label
  <2>3. LowSlots(r)'
    BY <1>1, <1>2, <1>3, <1>4, <1>6 DEF Sums, LowSlots, Label
  <2>4. LowTaken(r)'
    BY <1>1, <1>2, <1>3, <1>6, OnePhaseEach DEF Sums, LowTaken
  <2>5. HighSlots(r)'
    <3>1. \A h : HighCountOf(r, h, AllEdges \ AllEdges) = 0
      <4>1. AllEdges \ AllEdges = {}
        OBVIOUS
      <4> QED
        BY <4>1, NothingCounts
    <3>2. local'[r].delegate_info = [h \in 0..Len(hubs) |-> HighCountOf(r, h, AllEdges \ AllEdges)]
      BY <1>6, <3>1
    <3>3. (local[r].delegate_info = [h \in 0..Len(hubs) |-> HighCountOf(r, h, AllEdges \ Unread)])'
      BY <1>2, <1>3, <1>4, <3>2
    <3> QED
      BY <1>2, <3>3 DEF HighSlots
  <2>6. HighTaken(r)'
    BY <1>2, <1>4, <1>6 DEF HighTaken
  <2> QED
    BY <2>1, <2>2, <2>3, <2>4, <2>5, <2>6 DEF Sums
<1>9. ShapeOK'
  BY <1>1, <1>2, <1>3, <1>6 DEF ShapeOK, InputOK
<1> QED
  BY <1>8, <1>9 DEF ConstructionInv

LEMMA CountHighDegreeEdgesKeeps ==
  ASSUME ConstructionInv, CountHighDegreeEdges
  PROVE  ConstructionInv'
<1>1. /\ InputOK /\ Positioned /\ turn \in Nat /\ hubs \in Seq(Nat)
      /\ \A r \in Ranks : DOMAIN local[r] = Members /\ Sums(r)
  BY DEF ConstructionInv, ShapeOK
<1>2. /\ phase = "count_high_degree_edges" /\ phase' = phase /\ turn' = turn /\ hubs' = hubs
      /\ edges' = edges /\ chunk' = chunk /\ passes' = passes /\ threshold' = threshold /\ Advance
  <2>1. phase = "count_high_degree_edges" /\ Advance /\ UNCHANGED <<input, phase, turn, hubs, walk>>
    BY Zenon DEF CountHighDegreeEdges
  <2> QED
    BY <2>1 DEF input
<1>3. /\ Unread' = Unread \ Round /\ Positioned' /\ AllEdges' = AllEdges /\ Cells' = Cells
      /\ MaxLocal' = MaxLocal
  BY <1>1, <1>2, Advancing, EdgesKept
<1>4. /\ HubNumbers' = HubNumbers /\ \A v : IsHub(v)' <=> IsHub(v)
      /\ \A r, h, S : HighCountOf(r, h, S)' = HighCountOf(r, h, S)
  BY <1>2, HubsKept
<1>5. /\ Round \subseteq Unread /\ Unread \subseteq AllEdges /\ IsFiniteSet(AllEdges)
  BY <1>1, WhatIsRead
<1> DEFINE Info(q) == [h \in DOMAIN local[q].delegate_info |->
                         local[q].delegate_info[h]
                           + Cardinality({e \in HighEdgesTo(q, Round) : HubNumber(e.source) = h})]
           Count(q) == local[q].edges_high_count + Cardinality(HighEdgesTo(q, Round))
<1>6. ASSUME NEW r \in Ranks
      PROVE  /\ DOMAIN local'[r] = Members /\ local'[r].outgoing = local[r].outgoing
             /\ local'[r].low_csr_idx = local[r].low_csr_idx /\ local'[r].tracker = local[r].tracker
             /\ local'[r].delegate_info = Info(r) /\ local'[r].delegate_degree = local[r].delegate_degree
             /\ local'[r].delegate_id = local[r].delegate_id
  <2>1. local' = [q \in Ranks |-> [local[q] EXCEPT
                    !.delegate_info = Info(q), !.edges_high_count = Count(q)]]
    BY Zenon DEF CountHighDegreeEdges
  <2> HIDE DEF Info, Count
  <2>2. PICK m, a, b : m = local[r] /\ a = Info(r) /\ b = Count(r)
    OBVIOUS
  <2>3. /\ local'[r] = [m EXCEPT !.delegate_info = a, !.edges_high_count = b]
        /\ DOMAIN m = Members
    BY <1>1, <2>1, <2>2, Zenon
  <2>4. /\ DOMAIN local'[r] = Members /\ local'[r].outgoing = m.outgoing
        /\ local'[r].low_csr_idx = m.low_csr_idx /\ local'[r].tracker = m.tracker
        /\ local'[r].delegate_info = a /\ local'[r].delegate_degree = m.delegate_degree
        /\ local'[r].delegate_id = m.delegate_id
    BY <2>3 DEF Members
  <2> QED
    BY <2>2, <2>4
<1>7. ASSUME NEW r \in Ranks
      PROVE  local'[r].delegate_info
               = [h \in 0..Len(hubs) |-> HighCountOf(r, h, AllEdges \ (Unread \ Round))]
  <2> DEFINE read == AllEdges \ Unread
  <2>1. local[r].delegate_info = [h \in 0..Len(hubs) |-> HighCountOf(r, h, read)]
    BY <1>1, <1>2 DEF Sums, HighSlots
  <2>2. /\ read \in SUBSET AllEdges /\ Round \in SUBSET AllEdges /\ read \cap Round = {}
        /\ read \cup Round = AllEdges \ (Unread \ Round)
    BY <1>5
  <2> HIDE DEF read
  <2>3. \A h : HighCountOf(r, h, read \cup Round) = HighCountOf(r, h, read) + HighCountOf(r, h, Round)
    BY <1>5, <2>2, HighPartsCount
  <2>4. Info(r) = [h \in 0..Len(hubs) |-> HighCountOf(r, h, read) + HighCountOf(r, h, Round)]
    BY <2>1 DEF HighCountOf
  <2> HIDE DEF Info
  <2>5. local'[r].delegate_info = Info(r)
    BY <1>6
  <2>6. local'[r].delegate_info = [h \in 0..Len(hubs) |-> HighCountOf(r, h, read \cup Round)]
    BY <2>3, <2>4, <2>5
  <2> QED
    BY <2>2, <2>6
<1>8. ASSUME NEW r \in Ranks PROVE Sums(r)'
  <2>1. Degrees(r)' /\ HubsAreHigh(r)'
    BY <1>1, <1>2, <1>3, <1>4, <1>6, OnePhaseEach DEF Sums, Degrees, HubsAreHigh, Label
  <2>2. Identifiers(r)'
    BY <1>1, <1>2, <1>3, <1>4, <1>6, OnePhaseEach DEF Sums, Identifiers, Label
  <2>3. LowSlots(r)'
    BY <1>1, <1>2, <1>3, <1>4, <1>6 DEF Sums, LowSlots, Label
  <2>4. LowTaken(r)'
    BY <1>1, <1>2, <1>3, <1>6, OnePhaseEach DEF Sums, LowTaken
  <2>5. HighSlots(r)'
    BY <1>2, <1>3, <1>4, <1>7 DEF HighSlots
  <2>6. HighTaken(r)'
    BY <1>1, <1>2, <1>4, <1>6 DEF Sums, HighTaken
  <2> QED
    BY <2>1, <2>2, <2>3, <2>4, <2>5, <2>6 DEF Sums
<1>9. ShapeOK'
  BY <1>1, <1>2, <1>3, <1>6 DEF ShapeOK, InputOK
<1> QED
  BY <1>8, <1>9 DEF ConstructionInv

\* Which edges are still to come to a rank, from one step to the next.
ComingNow(r) == IF TheirTurn(r) THEN Round ELSE {}

LEMMA PassOf ==
  ASSUME InputOK, NEW r \in Ranks
  PROVE  (r % PerNode) % passes \in Nat
<1>1. r \in Nat /\ PerNode \in Nat \ {0} /\ passes \in Nat \ {0}
  BY SizesAssumption DEF InputOK, Ranks
<1>2. r % PerNode \in Nat
  BY <1>1
<1> QED
  BY <1>1, <1>2

LEMMA FirstPass ==
  ASSUME InputOK, edges' = edges, passes' = passes, turn' = 0, Unread' = AllEdges
  PROVE  \A r \in Ranks : ToCome(r)' = AllEdges
<1>1. AllEdges' = AllEdges
  BY EdgesKept
<1>2. ASSUME NEW r \in Ranks PROVE ToCome(r)' = AllEdges
  <2>1. PICK k \in Nat : k = (r % PerNode) % passes
    BY PassOf
  <2>2. ToCome(r)' = CASE k > turn' -> AllEdges' [] k = turn' -> Unread' [] OTHER -> {}
    BY <2>1 DEF ToCome
  <2>3. k > 0 \/ k = 0
    BY <2>1
  <2>4. ToCome(r)' = CASE k > 0 -> AllEdges [] k = 0 -> AllEdges [] OTHER -> {}
    BY <1>1, <2>2, Zenon
  <2> QED
    BY <2>1, <2>3, <2>4
<1> QED
  BY <1>2

LEMMA SecondPass ==
  ASSUME InputOK, turn \in Nat, edges' = edges, passes' = passes, turn' = turn + 1,
         Unread = {}, Unread' = AllEdges
  PROVE  \A r \in Ranks : ToCome(r)' = ToCome(r)
<1>1. AllEdges' = AllEdges
  BY EdgesKept
<1>2. ASSUME NEW r \in Ranks PROVE ToCome(r)' = ToCome(r)
  <2>1. PICK k \in Nat : k = (r % PerNode) % passes
    BY PassOf
  <2>2. PICK t \in Nat : t = turn
    OBVIOUS
  <2>3. ToCome(r) = CASE k > t -> AllEdges [] k = t -> {} [] OTHER -> {}
    BY <2>1, <2>2 DEF ToCome
  <2>4. ToCome(r)' = CASE k > t + 1 -> AllEdges [] k = t + 1 -> AllEdges [] OTHER -> {}
    <3>1. ToCome(r)' = CASE k > turn' -> AllEdges' [] k = turn' -> Unread' [] OTHER -> {}
      BY <2>1 DEF ToCome
    <3>2. turn' = t + 1
      BY <2>2
    <3> QED
      BY <1>1, <3>1, <3>2, Zenon
  <2>5. CASE k > t + 1
    BY <2>1, <2>2, <2>3, <2>4, <2>5
  <2>6. CASE k = t + 1
    BY <2>1, <2>2, <2>3, <2>4, <2>6
  <2>7. CASE k <= t
    BY <2>1, <2>2, <2>3, <2>4, <2>7
  <2> QED
    BY <2>1, <2>2, <2>5, <2>6, <2>7
<1> QED
  BY <1>2

LEMMA WithinPass ==
  ASSUME InputOK, Positioned, turn \in Nat, edges' = edges, passes' = passes, turn' = turn,
         Unread' = Unread \ Round, NEW r \in Ranks
  PROVE  /\ AllEdges \ ToCome(r) \in SUBSET AllEdges /\ ComingNow(r) \in SUBSET AllEdges
         /\ (AllEdges \ ToCome(r)) \cap ComingNow(r) = {}
         /\ AllEdges \ ToCome(r)' = (AllEdges \ ToCome(r)) \cup ComingNow(r)
<1>1. AllEdges' = AllEdges
  BY EdgesKept
<1>2. Round \subseteq Unread /\ Unread \subseteq AllEdges
  BY WhatIsRead
<1>3. PICK k \in Nat : k = (r % PerNode) % passes
  BY PassOf
<1>4. PICK t \in Nat : t = turn
  OBVIOUS
<1>5. ToCome(r) = CASE k > t -> AllEdges [] k = t -> Unread [] OTHER -> {}
  BY <1>3, <1>4 DEF ToCome
<1>6. ToCome(r)' = CASE k > t -> AllEdges [] k = t -> Unread \ Round [] OTHER -> {}
  <2>1. ToCome(r)' = CASE k > turn' -> AllEdges' [] k = turn' -> Unread' [] OTHER -> {}
    BY <1>3 DEF ToCome
  <2> QED
    BY <1>1, <1>4, <2>1, Zenon
<1>7. ComingNow(r) = IF k = t THEN Round ELSE {}
  BY <1>3, <1>4 DEF ComingNow, TheirTurn
<1>8. CASE k > t
  <2>1. ToCome(r) = AllEdges /\ ToCome(r)' = AllEdges /\ ComingNow(r) = {}
    BY <1>5, <1>6, <1>7, <1>8
  <2> QED
    BY <2>1
<1>9. CASE k = t
  <2>1. ToCome(r) = Unread /\ ToCome(r)' = Unread \ Round /\ ComingNow(r) = Round
    BY <1>5, <1>6, <1>7, <1>9
  <2> QED
    BY <1>2, <2>1
<1>10. CASE k < t
  <2>1. ToCome(r) = {} /\ ToCome(r)' = {} /\ ComingNow(r) = {}
    BY <1>5, <1>6, <1>7, <1>10
  <2> QED
    BY <2>1
<1> QED
  BY <1>8, <1>9, <1>10

LEMMA InitializeEdgeStorageKeeps ==
  ASSUME ConstructionInv, InitializeEdgeStorage
  PROVE  ConstructionInv'
<1>1. /\ InputOK /\ Positioned /\ turn \in Nat /\ hubs \in Seq(Nat)
      /\ \A r \in Ranks : DOMAIN local[r] = Members /\ Sums(r)
  BY DEF ConstructionInv, ShapeOK
<1>2. /\ phase = "count_high_degree_edges" /\ phase' = "partition_low_degree"
      /\ turn' = 0 /\ Rewind /\ AllRead /\ hubs' = hubs
      /\ edges' = edges /\ chunk' = chunk /\ passes' = passes /\ threshold' = threshold
  <2>1. /\ phase = "count_high_degree_edges" /\ phase' = "partition_low_degree"
        /\ turn' = 0 /\ Rewind /\ AllRead /\ UNCHANGED <<input, hubs, walk>>
    BY Zenon DEF InitializeEdgeStorage
  <2> QED
    BY <2>1 DEF input
<1>3. /\ AllEdges' = AllEdges /\ Cells' = Cells /\ MaxLocal' = MaxLocal
      /\ Unread' = AllEdges /\ Positioned'
  BY <1>1, <1>2, EdgesKept, Rewinding
<1>4. /\ HubNumbers' = HubNumbers /\ \A v : IsHub(v)' <=> IsHub(v)
      /\ \A r, h, S : HighCountOf(r, h, S)' = HighCountOf(r, h, S)
  BY <1>2, HubsKept
<1>5. /\ \A r \in Ranks : ToCome(r)' = AllEdges
      /\ AllEdges \ AllEdges = {} /\ AllEdges \ Unread = AllEdges /\ IsFiniteSet(AllEdges)
  BY <1>1, <1>2, <1>3, FirstPass, WhatIsRead DEF AllRead
<1> DEFINE Owned(q) == [i \in 0..(local[q].edges_low_count - 1) |-> None]
           High(q) == [i \in 0..(local[q].edges_high_count - 1) |-> None]
           Info(q) == FirstSlots(local[q].delegate_info, Len(hubs))
<1>6. ASSUME NEW r \in Ranks
      PROVE  /\ DOMAIN local'[r] = Members /\ local'[r].outgoing = local[r].outgoing
             /\ local'[r].low_csr_idx = local[r].low_csr_idx /\ local'[r].tracker = local[r].tracker
             /\ local'[r].delegate_info = FirstSlots(local[r].delegate_info, Len(hubs))
             /\ local'[r].delegate_degree = local[r].delegate_degree
             /\ local'[r].delegate_id = local[r].delegate_id
  <2>1. local' = [q \in Ranks |-> [local[q] EXCEPT
                    !.delegate_info = Info(q), !.owned_targets = Owned(q), !.delegate_targets = High(q)]]
    BY Zenon DEF InitializeEdgeStorage
  <2> HIDE DEF Info, Owned, High
  <2>2. PICK m, a, b, c : m = local[r] /\ a = Info(r) /\ b = Owned(r) /\ c = High(r)
    OBVIOUS
  <2>3. /\ local'[r] = [m EXCEPT !.delegate_info = a, !.owned_targets = b, !.delegate_targets = c]
        /\ DOMAIN m = Members
    BY <1>1, <2>1, <2>2, Zenon
  <2>4. /\ DOMAIN local'[r] = Members /\ local'[r].outgoing = m.outgoing
        /\ local'[r].low_csr_idx = m.low_csr_idx /\ local'[r].tracker = m.tracker
        /\ local'[r].delegate_info = a /\ local'[r].delegate_degree = m.delegate_degree
        /\ local'[r].delegate_id = m.delegate_id
    BY <2>3 DEF Members
  <2> QED
    BY <2>2, <2>4 DEF Info
<1>7. ASSUME NEW r \in Ranks, NEW h \in HubNumbers
      PROVE  /\ local'[r].delegate_info[h] \in Nat
             /\ local'[r].delegate_info[h + 1]
                  = local'[r].delegate_info[h] + HighCountOf(r, h, AllEdges)
  <2> DEFINE count == local[r].delegate_info
             last == Len(hubs)
  <2>1. count = [k \in 0..Len(hubs) |-> HighCountOf(r, k, AllEdges)]
    BY <1>1, <1>2, <1>5 DEF Sums, HighSlots
  <2>2. \A k : HighCountOf(r, k, AllEdges) \in Nat
    <3>1. {} \in SUBSET AllEdges /\ AllEdges \in SUBSET AllEdges /\ AllEdges \cap {} = {}
      OBVIOUS
    <3> QED
      BY <1>5, <3>1, HighPartsCount
  <2>3. last \in Nat /\ HubNumbers = 0..(last - 1) /\ h \in 0..last /\ h \in 0..(last - 1)
    BY <1>1 DEF HubNumbers
  <2>4. \A k \in 0..(last - 1) : k \in 0..Len(hubs)
    BY <2>3
  <2>5. local'[r].delegate_info = FirstSlots(count, last)
    BY <1>6
  <2>6. \A k \in 0..(last - 1) : count[k] = HighCountOf(r, k, AllEdges)
    BY <2>1, <2>4
  <2> HIDE DEF count, last
  <2>7. \A k \in 0..(last - 1) : count[k] \in Nat
    BY <2>2, <2>6
  <2>8. FirstSlots(count, last) \in [0..last -> Nat]
    BY <2>3, <2>7, SlotsAreNumbers
  <2>9. \A k \in 0..(last - 1) : FirstSlots(count, last)[k + 1] = FirstSlots(count, last)[k] + count[k]
    BY <2>3, SlotsFollow
  <2>10. FirstSlots(count, last)[h + 1] = FirstSlots(count, last)[h] + count[h]
    BY <2>3, <2>9
  <2>11. FirstSlots(count, last)[h] \in Nat
    BY <2>3, <2>8
  <2> QED
    BY <2>3, <2>5, <2>6, <2>10, <2>11
<1>8. ASSUME NEW r \in Ranks PROVE Sums(r)'
  <2>1. Degrees(r)' /\ HubsAreHigh(r)'
    BY <1>1, <1>2, <1>3, <1>4, <1>6, OnePhaseEach DEF Sums, Degrees, HubsAreHigh, Label
  <2>2. Identifiers(r)'
    BY <1>1, <1>2, <1>3, <1>4, <1>6, OnePhaseEach DEF Sums, Identifiers, Label
  <2>3. LowSlots(r)'
    BY <1>1, <1>2, <1>3, <1>4, <1>6 DEF Sums, LowSlots, Label
  <2>4. LowTaken(r)'
    <3>1. local'[r].tracker = [i \in Cells |-> 0]
      BY <1>1, <1>2, <1>6 DEF Sums, LowTaken
    <3>2. local'[r].tracker \in [Cells -> Nat]
      BY <3>1
    <3>3. \A i \in Cells : local'[r].tracker[i] = CountOf(Label(r, i), AllEdges' \ ToCome(r)')
      BY <1>3, <1>5, <3>1, NothingCounts
    <3> QED
      BY <1>2, <1>3, <3>2, <3>3, OnePhaseEach DEF LowTaken, Label
  <2>5. HighSlots(r)'
    BY <1>2, <1>3, <1>4, <1>7 DEF HighSlots
  <2>6. HighTaken(r)'
    BY <1>1, <1>2, <1>4, <1>6 DEF Sums, HighTaken
  <2> QED
    BY <2>1, <2>2, <2>3, <2>4, <2>5, <2>6 DEF Sums
<1>9. ShapeOK'
  BY <1>1, <1>2, <1>3, <1>6 DEF ShapeOK, InputOK
<1> QED
  BY <1>8, <1>9 DEF ConstructionInv

LEMMA PartitionLowDegreeKeeps ==
  ASSUME ConstructionInv, PartitionLowDegree
  PROVE  ConstructionInv'
<1>1. /\ InputOK /\ Positioned /\ turn \in Nat /\ hubs \in Seq(Nat)
      /\ \A r \in Ranks : DOMAIN local[r] = Members /\ Sums(r)
  BY DEF ConstructionInv, ShapeOK
<1>2. /\ phase = "partition_low_degree" /\ phase' = phase /\ turn' = turn /\ hubs' = hubs
      /\ edges' = edges /\ chunk' = chunk /\ passes' = passes /\ threshold' = threshold /\ Advance
  <2>1. phase = "partition_low_degree" /\ Advance /\ UNCHANGED <<input, phase, turn, hubs, walk>>
    BY Zenon DEF PartitionLowDegree
  <2> QED
    BY <2>1 DEF input
<1>3. /\ Unread' = Unread \ Round /\ Positioned' /\ AllEdges' = AllEdges /\ Cells' = Cells
      /\ MaxLocal' = MaxLocal
  BY <1>1, <1>2, Advancing, EdgesKept
<1>4. /\ HubNumbers' = HubNumbers /\ \A v : IsHub(v)' <=> IsHub(v)
      /\ \A r, h, S : HighCountOf(r, h, S)' = HighCountOf(r, h, S)
  BY <1>2, HubsKept
<1>5. IsFiniteSet(AllEdges) /\ Cells \subseteq Nat
  BY <1>1, WhatIsRead, CellNumbers DEF Cells
<1> DEFINE Owned(q) == [i \in DOMAIN local[q].owned_targets |->
                          IF \E e \in LowEdgesTo(q) : LowSlot(q, e) = i
                            THEN Stored(CHOOSE e \in LowEdgesTo(q) : LowSlot(q, e) = i)
                            ELSE local[q].owned_targets[i]]
           Taken(q) == Plus(local[q].tracker, CountedHere(q, LowEdgesTo(q)))
<1>6. ASSUME NEW r \in Ranks
      PROVE  /\ DOMAIN local'[r] = Members /\ local'[r].outgoing = local[r].outgoing
             /\ local'[r].low_csr_idx = local[r].low_csr_idx /\ local'[r].tracker = Taken(r)
             /\ local'[r].delegate_info = local[r].delegate_info
             /\ local'[r].delegate_degree = local[r].delegate_degree
             /\ local'[r].delegate_id = local[r].delegate_id
  <2>1. local' = [q \in Ranks |-> [local[q] EXCEPT !.owned_targets = Owned(q), !.tracker = Taken(q)]]
    BY Zenon DEF PartitionLowDegree
  <2> HIDE DEF Owned, Taken
  <2>2. PICK m, a, b : m = local[r] /\ a = Owned(r) /\ b = Taken(r)
    OBVIOUS
  <2>3. /\ local'[r] = [m EXCEPT !.owned_targets = a, !.tracker = b] /\ DOMAIN m = Members
    BY <1>1, <2>1, <2>2, Zenon
  <2>4. /\ DOMAIN local'[r] = Members /\ local'[r].outgoing = m.outgoing
        /\ local'[r].low_csr_idx = m.low_csr_idx /\ local'[r].tracker = b
        /\ local'[r].delegate_info = m.delegate_info /\ local'[r].delegate_degree = m.delegate_degree
        /\ local'[r].delegate_id = m.delegate_id
    BY <2>3 DEF Members
  <2> QED
    BY <2>2, <2>4
<1> HIDE DEF Taken, Owned
<1>7. ASSUME NEW r \in Ranks
      PROVE  /\ Taken(r) \in [Cells -> Nat]
             /\ \A i \in Cells : ~IsHub(Label(r, i)) =>
                  Taken(r)[i] = CountOf(Label(r, i), AllEdges \ ToCome(r)')
  <2>1. /\ local[r].tracker \in [Cells -> Nat]
        /\ \A i \in Cells : ~IsHub(Label(r, i)) =>
             local[r].tracker[i] = CountOf(Label(r, i), AllEdges \ ToCome(r))
    BY <1>1, <1>2 DEF Sums, LowTaken
  <2>2. /\ AllEdges \ ToCome(r) \in SUBSET AllEdges /\ ComingNow(r) \in SUBSET AllEdges
        /\ (AllEdges \ ToCome(r)) \cap ComingNow(r) = {}
        /\ AllEdges \ ToCome(r)' = (AllEdges \ ToCome(r)) \cup ComingNow(r)
    BY <1>1, <1>2, <1>3, WithinPass
  <2>3. \A v : /\ CountOf(v, AllEdges \ ToCome(r)')
                    = CountOf(v, AllEdges \ ToCome(r)) + CountOf(v, ComingNow(r))
    BY <1>5, <2>2, PartsCount
  <2>4. LowEdgesTo(r) \in SUBSET AllEdges /\ {} \in SUBSET AllEdges /\ LowEdgesTo(r) \cap {} = {}
    <3>1. Round \subseteq AllEdges
      BY <1>1, WhatIsRead
    <3> QED
      BY <3>1 DEF LowEdgesTo
  <2>5. \A v : CountOf(v, LowEdgesTo(r)) \in Nat
    BY <1>5, <2>4, PartsCount
  <2>6. Taken(r) = [i \in Cells |-> local[r].tracker[i] + CountOf(Label(r, i), LowEdgesTo(r))]
    <3>1. CountedHere(r, LowEdgesTo(r)) = [i \in Cells |-> CountOf(Label(r, i), LowEdgesTo(r))]
      BY DEF CountedHere, CountOf
    <3>2. DOMAIN local[r].tracker = Cells
      BY <2>1
    <3> QED
      BY <3>1, <3>2 DEF Taken, Plus
  <2>7. Taken(r) \in [Cells -> Nat]
    BY <2>1, <2>5, <2>6
  <2>8. ASSUME NEW i \in Cells, ~IsHub(Label(r, i))
        PROVE  CountOf(Label(r, i), LowEdgesTo(r)) = CountOf(Label(r, i), ComingNow(r))
    <3>1. Owner(Label(r, i)) = r
      BY <1>5, Numbering
    <3>2. PICK v : v = Label(r, i)
      OBVIOUS
    <3>3. \A e : e \in LowEdgesTo(r) /\ e.source = v <=> e \in ComingNow(r) /\ e.source = v
      <4>1. \A e : e.source = v => Owner(e.source) = r /\ ~IsHub(e.source)
        BY <2>8, <3>1, <3>2
      <4> QED
        BY <4>1 DEF LowEdgesTo, ComingNow
    <3>4. {e \in LowEdgesTo(r) : e.source = v} = {e \in ComingNow(r) : e.source = v}
      BY <3>3
    <3> QED
      BY <3>2, <3>4 DEF CountOf
  <2>9. ASSUME NEW i \in Cells, ~IsHub(Label(r, i))
        PROVE  Taken(r)[i] = CountOf(Label(r, i), AllEdges \ ToCome(r)')
    BY <2>1, <2>3, <2>6, <2>8, <2>9
  <2> QED
    BY <2>7, <2>9
<1>8. ASSUME NEW r \in Ranks PROVE Sums(r)'
  <2>1. Degrees(r)' /\ HubsAreHigh(r)'
    BY <1>1, <1>2, <1>3, <1>4, <1>6, OnePhaseEach DEF Sums, Degrees, HubsAreHigh, Label
  <2>2. Identifiers(r)'
    BY <1>1, <1>2, <1>3, <1>4, <1>6, OnePhaseEach DEF Sums, Identifiers, Label
  <2>3. LowSlots(r)'
    BY <1>1, <1>2, <1>3, <1>4, <1>6 DEF Sums, LowSlots, Label
  <2>4. LowTaken(r)'
    BY <1>2, <1>3, <1>4, <1>6, <1>7, OnePhaseEach DEF LowTaken, Label
  <2>5. HighSlots(r)'
    BY <1>1, <1>2, <1>3, <1>4, <1>6 DEF Sums, HighSlots
  <2>6. HighTaken(r)'
    BY <1>1, <1>2, <1>4, <1>6 DEF Sums, HighTaken
  <2> QED
    BY <2>1, <2>2, <2>3, <2>4, <2>5, <2>6 DEF Sums
<1>9. ShapeOK'
  BY <1>1, <1>2, <1>3, <1>6 DEF ShapeOK, InputOK
<1> QED
  BY <1>8, <1>9 DEF ConstructionInv

LEMMA PartitionHighDegreeKeeps ==
  ASSUME ConstructionInv, PartitionHighDegree
  PROVE  ConstructionInv'
<1>1. /\ InputOK /\ Positioned /\ turn \in Nat /\ hubs \in Seq(Nat)
      /\ \A r \in Ranks : DOMAIN local[r] = Members /\ Sums(r)
  BY DEF ConstructionInv, ShapeOK
<1>2. /\ phase = "partition_high_degree" /\ phase' = phase /\ turn' = turn /\ hubs' = hubs
      /\ edges' = edges /\ chunk' = chunk /\ passes' = passes /\ threshold' = threshold /\ Advance
  <2>1. phase = "partition_high_degree" /\ Advance /\ UNCHANGED <<input, phase, turn, hubs, walk>>
    BY Zenon DEF PartitionHighDegree
  <2> QED
    BY <2>1 DEF input
<1>3. /\ Unread' = Unread \ Round /\ Positioned' /\ AllEdges' = AllEdges /\ Cells' = Cells
      /\ MaxLocal' = MaxLocal
  BY <1>1, <1>2, Advancing, EdgesKept
<1>4. /\ HubNumbers' = HubNumbers /\ \A v : IsHub(v)' <=> IsHub(v)
      /\ \A r, h, S : HighCountOf(r, h, S)' = HighCountOf(r, h, S)
  BY <1>2, HubsKept
<1>5. IsFiniteSet(AllEdges)
  BY <1>1, WhatIsRead
<1> DEFINE Targets(q) == [i \in DOMAIN local[q].delegate_targets |->
                            IF \E e \in HighEdgesNow(q) : HighSlot(q, e) = i
                              THEN Stored(CHOOSE e \in HighEdgesNow(q) : HighSlot(q, e) = i)
                              ELSE local[q].delegate_targets[i]]
           Taken(q) == [h \in DOMAIN local[q].delegate_degree |->
                          local[q].delegate_degree[h]
                            + Cardinality({e \in HighEdgesNow(q) : HubNumber(e.source) = h})]
<1>6. ASSUME NEW r \in Ranks
      PROVE  /\ DOMAIN local'[r] = Members /\ local'[r].outgoing = local[r].outgoing
             /\ local'[r].delegate_info = local[r].delegate_info
             /\ local'[r].delegate_degree = Taken(r)
  <2>1. local' = [q \in Ranks |-> [local[q] EXCEPT
                    !.delegate_targets = Targets(q), !.delegate_degree = Taken(q)]]
    BY Zenon DEF PartitionHighDegree
  <2> HIDE DEF Targets, Taken
  <2>2. PICK m, a, b : m = local[r] /\ a = Targets(r) /\ b = Taken(r)
    OBVIOUS
  <2>3. /\ local'[r] = [m EXCEPT !.delegate_targets = a, !.delegate_degree = b] /\ DOMAIN m = Members
    BY <1>1, <2>1, <2>2, Zenon
  <2>4. /\ DOMAIN local'[r] = Members /\ local'[r].outgoing = m.outgoing
        /\ local'[r].delegate_info = m.delegate_info /\ local'[r].delegate_degree = b
    BY <2>3 DEF Members
  <2> QED
    BY <2>2, <2>4
<1> HIDE DEF Taken, Targets
<1>7. ASSUME NEW r \in Ranks
      PROVE  Taken(r) = [h \in HubNumbers |-> HighCountOf(r, h, AllEdges \ ToCome(r)')]
  <2>1. local[r].delegate_degree
          = [h \in HubNumbers |-> HighCountOf(r, h, AllEdges \ ToCome(r))]
    BY <1>1, <1>2 DEF Sums, HighTaken
  <2>2. /\ AllEdges \ ToCome(r) \in SUBSET AllEdges /\ ComingNow(r) \in SUBSET AllEdges
        /\ (AllEdges \ ToCome(r)) \cap ComingNow(r) = {}
        /\ AllEdges \ ToCome(r)' = (AllEdges \ ToCome(r)) \cup ComingNow(r)
    BY <1>1, <1>2, <1>3, WithinPass
  <2>3. \A h : HighCountOf(r, h, AllEdges \ ToCome(r)')
                 = HighCountOf(r, h, AllEdges \ ToCome(r)) + HighCountOf(r, h, ComingNow(r))
    BY <1>5, <2>2, HighPartsCount
  <2>4. HighEdgesNow(r) = HighEdgesTo(r, ComingNow(r))
    BY DEF HighEdgesNow, ComingNow
  <2>5. \A h : Cardinality({e \in HighEdgesNow(r) : HubNumber(e.source) = h})
                 = HighCountOf(r, h, ComingNow(r))
    BY <2>4 DEF HighCountOf
  <2>6. Taken(r) = [h \in HubNumbers |-> HighCountOf(r, h, AllEdges \ ToCome(r))
                                           + HighCountOf(r, h, ComingNow(r))]
    BY <2>1, <2>5 DEF Taken
  <2> QED
    BY <2>3, <2>6
<1>8. ASSUME NEW r \in Ranks PROVE Sums(r)'
  <2>1. Degrees(r)' /\ HubsAreHigh(r)'
    BY <1>1, <1>2, <1>3, <1>4, <1>6, OnePhaseEach DEF Sums, Degrees, HubsAreHigh, Label
  <2>2. Identifiers(r)' /\ LowSlots(r)' /\ LowTaken(r)'
    BY <1>2, OnePhaseEach DEF Identifiers, LowSlots, LowTaken
  <2>3. HighSlots(r)'
    BY <1>1, <1>2, <1>3, <1>4, <1>6 DEF Sums, HighSlots
  <2>4. HighTaken(r)'
    BY <1>2, <1>3, <1>4, <1>6, <1>7 DEF HighTaken
  <2> QED
    BY <2>1, <2>2, <2>3, <2>4 DEF Sums
<1>9. ShapeOK'
  BY <1>1, <1>2, <1>3, <1>6 DEF ShapeOK, InputOK
<1> QED
  BY <1>8, <1>9 DEF ConstructionInv

LEMMA NextPassKeeps ==
  ASSUME ConstructionInv, NextPass
  PROVE  ConstructionInv'
<1>1. /\ InputOK /\ Positioned /\ turn \in Nat /\ hubs \in Seq(Nat)
      /\ \A r \in Ranks : DOMAIN local[r] = Members /\ Sums(r)
  BY DEF ConstructionInv, ShapeOK
<1>2. /\ phase \in {"partition_low_degree", "partition_high_degree"} /\ AllRead /\ Rewind
      /\ \/ turn' = turn + 1 /\ phase' = phase
         \/ turn' = 0 /\ phase = "partition_low_degree" /\ phase' = "partition_high_degree"
         \/ turn' = 0 /\ phase' = "build_controllers"
      /\ hubs' = hubs /\ local' = local
      /\ edges' = edges /\ chunk' = chunk /\ passes' = passes /\ threshold' = threshold
  BY DEF NextPass, input
<1>3. /\ AllEdges' = AllEdges /\ Cells' = Cells /\ MaxLocal' = MaxLocal
      /\ Unread' = AllEdges /\ Positioned' /\ Unread = {}
  BY <1>1, <1>2, EdgesKept, Rewinding DEF AllRead
<1>4. /\ HubNumbers' = HubNumbers /\ \A v : IsHub(v)' <=> IsHub(v)
      /\ \A r, h, S : HighCountOf(r, h, S)' = HighCountOf(r, h, S)
  BY <1>2, HubsKept
<1>5. ASSUME NEW r \in Ranks PROVE Sums(r)'
  <2>1. CASE turn' = turn + 1 /\ phase' = phase
    <3>1. ToCome(r)' = ToCome(r)
      BY <1>1, <1>2, <1>3, <2>1, SecondPass
    <3>2. Degrees(r)' /\ HubsAreHigh(r)'
      BY <1>1, <1>2, <1>3, <1>4, <2>1, OnePhaseEach DEF Sums, Degrees, HubsAreHigh, Label
    <3>3. Identifiers(r)'
      BY <1>1, <1>2, <1>3, <1>4, <2>1, OnePhaseEach DEF Sums, Identifiers, Label
    <3>4. LowSlots(r)'
      BY <1>1, <1>2, <1>3, <1>4, <2>1 DEF Sums, LowSlots, Label
    <3>5. LowTaken(r)'
      BY <1>1, <1>2, <1>3, <1>4, <2>1, <3>1, OnePhaseEach DEF Sums, LowTaken, Label
    <3>6. HighSlots(r)'
      BY <1>1, <1>2, <1>3, <1>4, <2>1 DEF Sums, HighSlots
    <3>7. HighTaken(r)'
      BY <1>1, <1>2, <1>3, <1>4, <2>1, <3>1 DEF Sums, HighTaken
    <3> QED
      BY <3>2, <3>3, <3>4, <3>5, <3>6, <3>7 DEF Sums
  <2>2. CASE turn' = 0 /\ phase = "partition_low_degree" /\ phase' = "partition_high_degree"
    <3>1. ToCome(r)' = AllEdges /\ AllEdges \ AllEdges = {}
      BY <1>1, <1>2, <1>3, <2>2, FirstPass
    <3>2. Degrees(r)' /\ HubsAreHigh(r)'
      BY <1>1, <1>2, <1>3, <1>4, <2>2, OnePhaseEach DEF Sums, Degrees, HubsAreHigh, Label
    <3>3. Identifiers(r)' /\ LowSlots(r)' /\ LowTaken(r)'
      BY <2>2, OnePhaseEach DEF Identifiers, LowSlots, LowTaken
    <3>4. HighSlots(r)'
      BY <1>1, <1>2, <1>3, <1>4, <2>2 DEF Sums, HighSlots
    <3>5. HighTaken(r)'
      <4>1. local'[r].delegate_degree = [h \in HubNumbers |-> 0]
        BY <1>1, <1>2, <2>2 DEF Sums, HighTaken
      <4>2. \A h : HighCountOf(r, h, {})' = 0
        BY <1>4, NothingCounts
      <4>3. AllEdges' \ ToCome(r)' = {}
        BY <1>3, <3>1
      <4> QED
        BY <1>4, <2>2, <4>1, <4>2, <4>3 DEF HighTaken
    <3> QED
      BY <3>2, <3>3, <3>4, <3>5 DEF Sums
  <2>3. CASE phase' = "build_controllers"
    BY <2>3 DEF Sums, Degrees, HubsAreHigh, Identifiers, LowSlots, LowTaken, HighSlots, HighTaken,
                WithHubs, BeforeHubs, BeforeHighCounts
  <2> QED
    BY <1>2, <2>1, <2>2, <2>3
<1>6. turn' \in Nat
  BY <1>1, <1>2
<1>7. ShapeOK'
  BY <1>1, <1>2, <1>3, <1>6 DEF ShapeOK, InputOK
<1> QED
  BY <1>5, <1>7 DEF ConstructionInv

\* A phase the sums say nothing about.
LEMMA NoSumsAfter ==
  ASSUME phase' \in {"ready", "aborted"}
  PROVE  \A r : Sums(r)'
BY DEF Sums, Degrees, HubsAreHigh, Identifiers, LowSlots, LowTaken, HighSlots, HighTaken,
       WithHubs, BeforeHubs, BeforeHighCounts

LEMMA BuildControllersKeeps ==
  ASSUME ConstructionInv, BuildControllers
  PROVE  ConstructionInv'
<1>1. /\ InputOK /\ Positioned /\ turn \in Nat /\ hubs \in Seq(Nat)
      /\ \A r \in Ranks : DOMAIN local[r] = Members
  BY DEF ConstructionInv, ShapeOK
<1>2. /\ phase' = "ready" /\ turn' = turn /\ itr' = itr /\ hubs' = hubs
      /\ edges' = edges /\ chunk' = chunk /\ passes' = passes /\ threshold' = threshold
  <2>1. phase' = "ready" /\ UNCHANGED <<input, itr, turn, hubs, walk>>
    BY Zenon DEF BuildControllers
  <2> QED
    BY <2>1 DEF input
<1>3. ASSUME NEW r \in Ranks PROVE DOMAIN local'[r] = Members
  <2> DEFINE Summed(q) == [h \in DOMAIN local[q].delegate_degree |->
                             MapThenSumSet(LAMBDA p : local[p].delegate_degree[h], Ranks)]
             Own(q) == Ascending({h \in HubNumbers : h % Size = q})
  <2>1. local' = [q \in Ranks |-> [local[q] EXCEPT
                    !.delegate_degree = Summed(q), !.controllers = Own(q)]]
    BY Zenon DEF BuildControllers
  <2> HIDE DEF Summed, Own
  <2>2. PICK m, a, b : m = local[r] /\ a = Summed(r) /\ b = Own(r)
    OBVIOUS
  <2>3. local'[r] = [m EXCEPT !.delegate_degree = a, !.controllers = b] /\ DOMAIN m = Members
    BY <1>1, <2>1, <2>2, Zenon
  <2> QED
    BY <2>3
<1>4. ShapeOK'
  BY <1>1, <1>2, <1>3 DEF ShapeOK, InputOK, Positioned
<1> QED
  BY <1>2, <1>4, NoSumsAfter DEF ConstructionInv

\* What the loop over the vertices leaves alone, and a step that stutters.
Construction == <<input, phase, itr, turn, hubs, local>>

LEMMA OthersKeep ==
  ASSUME ConstructionInv, UNCHANGED Construction
  PROVE  ConstructionInv'
<1>1. /\ InputOK /\ Positioned /\ turn \in Nat /\ hubs \in Seq(Nat)
      /\ \A r \in Ranks : DOMAIN local[r] = Members /\ Sums(r)
  BY DEF ConstructionInv, ShapeOK
<1>2. /\ phase' = phase /\ turn' = turn /\ itr' = itr /\ hubs' = hubs /\ local' = local
      /\ edges' = edges /\ chunk' = chunk /\ passes' = passes /\ threshold' = threshold
  BY DEF Construction, input
<1>3. /\ AllEdges' = AllEdges /\ Cells' = Cells /\ MaxLocal' = MaxLocal /\ Unread' = Unread
  <2>1. AllEdges' = AllEdges /\ Cells' = Cells /\ MaxLocal' = MaxLocal
    BY <1>2, EdgesKept
  <2>2. Unread' = Unread
    BY <1>2 DEF Unread
  <2> QED
    BY <2>1, <2>2
<1>4. /\ HubNumbers' = HubNumbers /\ \A v : IsHub(v)' <=> IsHub(v)
      /\ \A r, h, S : HighCountOf(r, h, S)' = HighCountOf(r, h, S)
  BY <1>2, HubsKept
<1>5. ASSUME NEW r \in Ranks PROVE Sums(r)'
  <2>7. ToCome(r)' = ToCome(r)
    BY <1>2, <1>3 DEF ToCome
  <2>1. Degrees(r)' /\ HubsAreHigh(r)'
    BY <1>1, <1>2, <1>3, <1>4 DEF Sums, Degrees, HubsAreHigh, Label
  <2>2. Identifiers(r)'
    BY <1>1, <1>2, <1>3, <1>4 DEF Sums, Identifiers, Label
  <2>3. LowSlots(r)'
    BY <1>1, <1>2, <1>3, <1>4 DEF Sums, LowSlots, Label
  <2>4. LowTaken(r)'
    BY <1>1, <1>2, <1>3, <1>4, <2>7 DEF Sums, LowTaken, Label
  <2>5. HighSlots(r)'
    BY <1>1, <1>2, <1>3, <1>4 DEF Sums, HighSlots
  <2>6. HighTaken(r)'
    BY <1>1, <1>2, <1>3, <1>4, <2>7 DEF Sums, HighTaken
  <2> QED
    BY <2>1, <2>2, <2>3, <2>4, <2>5, <2>6 DEF Sums
<1>6. ShapeOK'
  BY <1>1, <1>2 DEF ShapeOK, InputOK, Positioned
<1> QED
  BY <1>5, <1>6 DEF ConstructionInv

LEMMA AbortKeeps ==
  ASSUME ConstructionInv, Abort
  PROVE  ConstructionInv'
<1>1. /\ phase' = "aborted" /\ turn' = turn /\ itr' = itr /\ hubs' = hubs /\ local' = local
      /\ edges' = edges /\ chunk' = chunk /\ passes' = passes
  <2>1. phase' = "aborted" /\ UNCHANGED <<input, itr, turn, hubs, local, walk>>
    BY Zenon DEF Abort
  <2> QED
    BY <2>1 DEF input
<1>2. ShapeOK'
  BY <1>1 DEF ConstructionInv, ShapeOK, InputOK, Positioned
<1> QED
  BY <1>1, <1>2, NoSumsAfter DEF ConstructionInv

LEMMA EveryStepKeeps ==
  ASSUME ConstructionInv, [Next]_vars
  PROVE  ConstructionInv'
<1>1. CASE CountEdgeDegrees
  BY <1>1, CountEdgeDegreesKeeps
<1>2. CASE GatherHubs
  BY <1>2, GatherHubsKeeps
<1>3. CASE InitializeLowMetaData
  BY <1>3, InitializeLowMetaDataKeeps
<1>4. CASE InitializeHighMetaData
  BY <1>4, InitializeHighMetaDataKeeps
<1>5. CASE CountHighDegreeEdges
  BY <1>5, CountHighDegreeEdgesKeeps
<1>6. CASE InitializeEdgeStorage
  BY <1>6, InitializeEdgeStorageKeeps
<1>7. CASE PartitionLowDegree
  BY <1>7, PartitionLowDegreeKeeps
<1>8. CASE PartitionHighDegree
  BY <1>8, PartitionHighDegreeKeeps
<1>9. CASE NextPass
  BY <1>9, NextPassKeeps
<1>10. CASE BuildControllers
  BY <1>10, BuildControllersKeeps
<1>11. CASE \/ \E r \in Ranks : VerticesEnd(r)
            \/ StepBack \/ UpdateLocator \/ StartLoop \/ NextVertex \/ UNCHANGED vars
  <2>1. UNCHANGED Construction
    BY <1>11 DEF VerticesEnd, StepBack, UpdateLocator, StartLoop, NextVertex, vars, Construction
  <2> QED
    BY <2>1, OthersKeep
<1>12. CASE Abort
  BY <1>12, AbortKeeps
<1> QED
  BY <1>1, <1>2, <1>3, <1>4, <1>5, <1>6, <1>7, <1>8, <1>9, <1>10, <1>11, <1>12 DEF Next

\* The free slots are as many as the edges to come.
LEMMA SumsGiveRoom == ConstructionInv => RoomForTheRest
<1> SUFFICES ASSUME ConstructionInv PROVE RoomForTheRest
  OBVIOUS
<1>1. /\ InputOK /\ Positioned /\ \A r \in Ranks : Sums(r)
  BY DEF ConstructionInv, ShapeOK
<1>2. IsFiniteSet(AllEdges)
  BY <1>1, WhatIsRead
<1>3. ASSUME NEW r \in Ranks
      PROVE  /\ ToCome(r) \in SUBSET AllEdges /\ AllEdges \ ToCome(r) \in SUBSET AllEdges
             /\ (AllEdges \ ToCome(r)) \cap ToCome(r) = {}
             /\ (AllEdges \ ToCome(r)) \cup ToCome(r) = AllEdges
  <2>1. Unread \subseteq AllEdges
    BY <1>1, WhatIsRead
  <2>2. ToCome(r) \subseteq AllEdges
    <3>1. PICK k \in Nat : k = (r % PerNode) % passes
      BY <1>1, PassOf
    <3>2. ToCome(r) = CASE k > turn -> AllEdges [] k = turn -> Unread [] OTHER -> {}
      BY <3>1 DEF ToCome
    <3> QED
      BY <2>1, <3>2
  <2> QED
    BY <2>2
<1>4. ASSUME phase = "partition_low_degree", NEW r \in Ranks, NEW i \in Cells,
             local[r].delegate_id[i] = None
      PROVE  local[r].low_csr_idx[i + 1] - local[r].low_csr_idx[i] - local[r].tracker[i]
               = Cardinality({e \in ToCome(r) : e.source = Label(r, i)})
  <2>1. ~IsHub(Label(r, i))
    BY <1>1, <1>4 DEF Sums, Identifiers
  <2>2. /\ local[r].low_csr_idx[i] \in Nat
        /\ local[r].low_csr_idx[i + 1] = local[r].low_csr_idx[i] + CountOf(Label(r, i), AllEdges)
    BY <1>1, <1>4, <2>1 DEF Sums, LowSlots
  <2>3. local[r].tracker[i] = CountOf(Label(r, i), AllEdges \ ToCome(r))
    BY <1>1, <1>4, <2>1 DEF Sums, LowTaken
  <2>4. /\ CountOf(Label(r, i), ToCome(r)) \in Nat
        /\ CountOf(Label(r, i), AllEdges \ ToCome(r)) \in Nat
        /\ CountOf(Label(r, i), AllEdges)
             = CountOf(Label(r, i), AllEdges \ ToCome(r)) + CountOf(Label(r, i), ToCome(r))
    <3>1. /\ CountOf(Label(r, i), ToCome(r)) \in Nat
          /\ CountOf(Label(r, i), AllEdges \ ToCome(r)) \in Nat
          /\ CountOf(Label(r, i), (AllEdges \ ToCome(r)) \cup ToCome(r))
               = CountOf(Label(r, i), AllEdges \ ToCome(r)) + CountOf(Label(r, i), ToCome(r))
      <4>0. PICK v : v = Label(r, i)
        OBVIOUS
      <4>1. PICK S \in SUBSET AllEdges, T \in SUBSET AllEdges :
              S = AllEdges \ ToCome(r) /\ T = ToCome(r)
        BY <1>3
      <4>2. S \cap T = {}
        BY <1>3, <4>1
      <4>3. /\ CountOf(v, S) \in Nat /\ CountOf(v, T) \in Nat
            /\ CountOf(v, S \cup T) = CountOf(v, S) + CountOf(v, T)
        <5>1. \A w : CountOf(w, S) \in Nat /\ CountOf(w, T) \in Nat
          BY <1>2, <4>2, PartsCount
        <5>2. \A w : CountOf(w, S \cup T) = CountOf(w, S) + CountOf(w, T)
          BY <1>2, <4>2, PartsCount
        <5> QED
          BY <5>1, <5>2
      <4> QED
        BY <4>0, <4>1, <4>3
    <3> QED
      BY <1>3, <3>1
  <2>5. local[r].low_csr_idx[i + 1] - local[r].low_csr_idx[i] - local[r].tracker[i]
          = CountOf(Label(r, i), ToCome(r))
    BY <2>2, <2>3, <2>4
  <2> QED
    BY <2>5 DEF CountOf
<1>5. ASSUME phase = "partition_high_degree", NEW r \in Ranks, NEW h \in HubNumbers
      PROVE  local[r].delegate_info[h + 1] - local[r].delegate_info[h] - local[r].delegate_degree[h]
               = Cardinality({e \in HighEdgesTo(r, ToCome(r)) : HubNumber(e.source) = h})
  <2>1. /\ local[r].delegate_info[h] \in Nat
        /\ local[r].delegate_info[h + 1] = local[r].delegate_info[h] + HighCountOf(r, h, AllEdges)
    BY <1>1, <1>5 DEF Sums, HighSlots
  <2>2. local[r].delegate_degree[h] = HighCountOf(r, h, AllEdges \ ToCome(r))
    BY <1>1, <1>5 DEF Sums, HighTaken
  <2>3. /\ HighCountOf(r, h, ToCome(r)) \in Nat
        /\ HighCountOf(r, h, AllEdges \ ToCome(r)) \in Nat
        /\ HighCountOf(r, h, AllEdges)
             = HighCountOf(r, h, AllEdges \ ToCome(r)) + HighCountOf(r, h, ToCome(r))
    <3>1. /\ HighCountOf(r, h, ToCome(r)) \in Nat
          /\ HighCountOf(r, h, AllEdges \ ToCome(r)) \in Nat
          /\ HighCountOf(r, h, (AllEdges \ ToCome(r)) \cup ToCome(r))
               = HighCountOf(r, h, AllEdges \ ToCome(r)) + HighCountOf(r, h, ToCome(r))
      BY <1>2, <1>3, HighPartsCount
    <3> QED
      BY <1>3, <3>1
  <2>4. local[r].delegate_info[h + 1] - local[r].delegate_info[h] - local[r].delegate_degree[h]
          = HighCountOf(r, h, ToCome(r))
    BY <2>1, <2>2, <2>3
  <2> QED
    BY <2>4 DEF HighCountOf
<1>6. /\ phase = "partition_low_degree" =>
           \A r \in Ranks : \A i \in {j \in Cells : local[r].delegate_id[j] = None} :
             local[r].low_csr_idx[i + 1] - local[r].low_csr_idx[i] - local[r].tracker[i]
               = Cardinality({e \in ToCome(r) : e.source = Label(r, i)})
      /\ phase = "partition_high_degree" =>
           \A r \in Ranks : \A h \in HubNumbers :
             local[r].delegate_info[h + 1] - local[r].delegate_info[h] - local[r].delegate_degree[h]
               = Cardinality({e \in HighEdgesTo(r, ToCome(r)) : HubNumber(e.source) = h})
  BY <1>4, <1>5
<1> QED
  BY <1>6 DEF RoomForTheRest

-----------------------------------------------------------------------------
\* A file has one reader.
LEMMA OneReader ==
  ASSUME NEW r \in Ranks, NEW q \in Ranks, NEW i \in Nat, ReadBy(r, i), ReadBy(q, i)
  PROVE  r = q
<1>1. PerNode \in Nat \ {0} /\ r \in Nat /\ q \in Nat
  BY SizesAssumption DEF Ranks
<1>2. r \div PerNode = q \div PerNode /\ r % PerNode = q % PerNode
  BY DEF ReadBy
<1>3. r = (r \div PerNode) * PerNode + (r % PerNode)
  BY <1>1, Division
<1>4. q = (q \div PerNode) * PerNode + (q % PerNode)
  BY <1>1, Division
<1> QED
  BY <1>2, <1>3, <1>4

\* The lines of all ranks: none twice, as their data tell, and no self loop.
LinesAreApart(files) ==
  /\ \A r \in Ranks : LinesOf(files, r) \in Seq(EdgeType)
  /\ \A r \in Ranks : \A p \in 1..Len(LinesOf(files, r)) :
       LinesOf(files, r)[p].source # LinesOf(files, r)[p].target
  /\ \A r, q \in Ranks : \A i \in 1..Len(LinesOf(files, r)), j \in 1..Len(LinesOf(files, q)) :
       LinesOf(files, r)[i].data = LinesOf(files, q)[j].data => r = q /\ i = j

LEMMA Reading ==
  ASSUME NEW in \in Inputs
  PROVE  LinesAreApart(in.files)
<1>1. PICK fs : fs = in.files
  OBVIOUS
<1>2. /\ fs \in Seq(Seq(EdgeType)) /\ DOMAIN fs = 1..Len(fs) /\ Len(fs) \in Nat
      /\ \A i \in 1..Len(fs) : fs[i] \in Seq(EdgeType) /\ DOMAIN fs[i] = 1..Len(fs[i])
  <2>1. fs \in Seq(Seq(EdgeType))
    BY <1>1, InputsAssumption DEF EdgeType
  <2> QED
    BY <2>1
<1>3. /\ \A i \in 1..Len(fs) : \A k \in 1..Len(fs[i]) : fs[i][k].source # fs[i][k].target
      /\ \A i, j \in 1..Len(fs) : \A k \in 1..Len(fs[i]), l \in 1..Len(fs[j]) :
           fs[i][k].data = fs[j][l].data => i = j /\ k = l
  <2> DEFINE Different(e) == e.source # e.target
             Told(i, j, k, l) == fs[i][k].data = fs[j][l].data => i = j /\ k = l
  <2>1. ASSUME NEW i \in 1..Len(fs), NEW j \in 1..Len(fs),
               NEW k \in 1..Len(fs[i]), NEW l \in 1..Len(fs[j])
        PROVE  /\ fs[i][k].source # fs[i][k].target
               /\ fs[i][k].data = fs[j][l].data => i = j /\ k = l
    <3> DEFINE Fine(f) == \A x, y \in DOMAIN f : \A z \in DOMAIN f[x], w \in DOMAIN f[y] :
                 f[x][z].source # f[x][z].target /\ (f[x][z].data = f[y][w].data => x = y /\ z = w)
    <3>1. Fine(in.files)
      BY InputsAssumption
    <3>2. Fine(fs)
      <4> HIDE DEF Fine
      <4> QED
        BY <1>1, <3>1
    <3>3. \A x, y \in DOMAIN fs : \A z \in DOMAIN fs[x], w \in DOMAIN fs[y] :
            fs[x][z].source # fs[x][z].target /\ (fs[x][z].data = fs[y][w].data => x = y /\ z = w)
      BY <3>2
    <3>4. i \in DOMAIN fs /\ j \in DOMAIN fs /\ k \in DOMAIN fs[i] /\ l \in DOMAIN fs[j]
      BY <1>2
    <3> QED
      BY <3>3, <3>4
  <2>2. /\ \A i \in 1..Len(fs) : \A k \in 1..Len(fs[i]) : Different(fs[i][k])
        /\ \A i, j \in 1..Len(fs) : \A k \in 1..Len(fs[i]), l \in 1..Len(fs[j]) : Told(i, j, k, l)
    <3>1. ASSUME NEW i \in 1..Len(fs), NEW j \in 1..Len(fs),
                 NEW k \in 1..Len(fs[i]), NEW l \in 1..Len(fs[j])
          PROVE  Different(fs[i][k]) /\ Told(i, j, k, l)
      BY <2>1
    <3> HIDE DEF Different, Told
    <3> QED
      BY <3>1
  <2> QED
    BY <2>2
<1> DEFINE s(r) == [i \in 1..Len(fs) |-> IF ReadBy(r, i - 1) THEN fs[i] ELSE << >>]
           Has(x, r) == /\ x \in Seq(EdgeType)
                        /\ \A p \in 1..Len(x) : \E i \in 1..Len(fs) : \E k \in 1..Len(fs[i]) :
                             ReadBy(r, i - 1) /\ x[p] = fs[i][k]
                        /\ \A p, q \in 1..Len(x) : x[p] = x[q] => p = q
<1>4. ASSUME NEW r \in Ranks PROVE Has(LinesOf(fs, r), r)
  <2>1. PICK t : t = s(r)
    OBVIOUS
  <2>2. /\ t \in Seq(Seq(EdgeType)) /\ Len(t) = Len(fs)
        /\ \A i \in 1..Len(fs) : t[i] = IF ReadBy(r, i - 1) THEN fs[i] ELSE << >>
    BY <1>2, <2>1
  <2>3. ASSUME NEW i \in 1..Len(fs), NEW k \in 1..Len(t[i])
        PROVE  ReadBy(r, i - 1) /\ t[i] = fs[i]
    BY <2>2, <2>3
  <2>4. \A i, j \in 1..Len(t) : \A k \in 1..Len(t[i]), l \in 1..Len(t[j]) :
          t[i][k] = t[j][l] => i = j /\ k = l
    <3>1. ASSUME NEW i \in 1..Len(fs), NEW j \in 1..Len(fs),
                 NEW k \in 1..Len(t[i]), NEW l \in 1..Len(t[j]), t[i][k] = t[j][l]
          PROVE  i = j /\ k = l
      <4>1. t[i] = fs[i] /\ t[j] = fs[j]
        BY <2>3
      <4>2. fs[i][k].data = fs[j][l].data /\ k \in 1..Len(fs[i]) /\ l \in 1..Len(fs[j])
        BY <3>1, <4>1
      <4> QED
        BY <1>3, <4>2
    <3> QED
      BY <2>2, <3>1
  <2>5. /\ FlattenSeq(t) \in Seq(EdgeType)
        /\ \A p \in 1..Len(FlattenSeq(t)) : \E i \in 1..Len(t) : \E k \in 1..Len(t[i]) :
             FlattenSeq(t)[p] = t[i][k]
        /\ \A p, q \in 1..Len(FlattenSeq(t)) : FlattenSeq(t)[p] = FlattenSeq(t)[q] => p = q
    <3>1. t \in Seq(Seq(EdgeType))
      BY <2>2
    <3> QED
      BY ONLY <3>1, <2>4, Flattened
  <2>6. LinesOf(fs, r) = FlattenSeq(t)
    BY <2>1 DEF LinesOf
  <2>7. ASSUME NEW p \in 1..Len(FlattenSeq(t))
        PROVE  \E i \in 1..Len(fs) : \E k \in 1..Len(fs[i]) :
                 ReadBy(r, i - 1) /\ FlattenSeq(t)[p] = fs[i][k]
    <3>1. PICK i \in 1..Len(fs) : \E k \in 1..Len(t[i]) : FlattenSeq(t)[p] = t[i][k]
      BY <2>2, <2>5
    <3>2. PICK k \in 1..Len(t[i]) : FlattenSeq(t)[p] = t[i][k]
      BY <3>1
    <3>3. ReadBy(r, i - 1) /\ t[i] = fs[i]
      BY <2>3
    <3> QED
      BY <3>2, <3>3
  <2>8. Has(FlattenSeq(t), r)
    BY <2>5, <2>7
  <2> HIDE DEF Has
  <2> QED
    BY <2>6, <2>8
<1> HIDE DEF s
<1>5. ASSUME NEW r \in Ranks, NEW p \in 1..Len(LinesOf(fs, r))
      PROVE  \E i \in 1..Len(fs) : \E k \in 1..Len(fs[i]) :
               ReadBy(r, i - 1) /\ LinesOf(fs, r)[p] = fs[i][k]
  BY <1>4
<1>6. ASSUME NEW r \in Ranks, NEW p \in 1..Len(LinesOf(fs, r))
      PROVE  LinesOf(fs, r)[p].source # LinesOf(fs, r)[p].target
  <2>1. PICK i \in 1..Len(fs) : \E k \in 1..Len(fs[i]) :
               ReadBy(r, i - 1) /\ LinesOf(fs, r)[p] = fs[i][k]
    BY <1>5
  <2>2. PICK k \in 1..Len(fs[i]) : LinesOf(fs, r)[p] = fs[i][k]
    BY <2>1
  <2> QED
    BY <1>3, <2>2
<1>7. ASSUME NEW r \in Ranks, NEW q \in Ranks, NEW x \in 1..Len(LinesOf(fs, r)),
             NEW y \in 1..Len(LinesOf(fs, q)),
             LinesOf(fs, r)[x].data = LinesOf(fs, q)[y].data
      PROVE  r = q /\ x = y
  <2>1. PICK i \in 1..Len(fs) : \E k \in 1..Len(fs[i]) :
               ReadBy(r, i - 1) /\ LinesOf(fs, r)[x] = fs[i][k]
    BY <1>5
  <2>2. PICK k \in 1..Len(fs[i]) : ReadBy(r, i - 1) /\ LinesOf(fs, r)[x] = fs[i][k]
    BY <2>1
  <2>3. PICK j \in 1..Len(fs) : \E l \in 1..Len(fs[j]) :
               ReadBy(q, j - 1) /\ LinesOf(fs, q)[y] = fs[j][l]
    BY <1>5
  <2>4. PICK l \in 1..Len(fs[j]) : ReadBy(q, j - 1) /\ LinesOf(fs, q)[y] = fs[j][l]
    BY <2>3
  <2>5. fs[i][k].data = fs[j][l].data
    BY <1>7, <2>2, <2>4
  <2>6. i = j /\ k = l /\ i - 1 \in Nat
    BY <1>3, <2>5
  <2>7. r = q
    BY <2>2, <2>4, <2>6, OneReader
  <2>8. LinesOf(fs, r)[x] = LinesOf(fs, r)[y] /\ y \in 1..Len(LinesOf(fs, r))
    BY <2>2, <2>4, <2>6, <2>7
  <2> QED
    BY <1>4, <2>7, <2>8
<1>8. LinesAreApart(fs)
  BY <1>4, <1>6, <1>7 DEF LinesAreApart
<1> QED
  BY <1>1, <1>8

-----------------------------------------------------------------------------
(* The iterator: it stands on each line, and on the line turned round.     *)

Iterators == [current : EdgeType, unread : Seq(EdgeType), count : Nat, make_undirected : BOOLEAN]

LEMMA GetNextType ==
  ASSUME NEW it \in Iterators, NEW u \in BOOLEAN
  PROVE  GetNext(it, u) \in Iterators
<1>1. /\ it.current \in EdgeType /\ it.unread \in Seq(EdgeType)
      /\ it.count \in Nat /\ it.make_undirected \in BOOLEAN
  BY DEF Iterators
<1>2. CASE u /\ it.make_undirected
  <2>1. GetNext(it, u) = [it EXCEPT !.current = Swapped(it.current), !.make_undirected = FALSE]
    BY <1>2 DEF GetNext
  <2>2. Swapped(it.current) \in EdgeType
    BY <1>1 DEF Swapped, EdgeType
  <2> QED
    BY <2>1, <2>2 DEF Iterators
<1>3. CASE ~(u /\ it.make_undirected)
  <2>1. GetNext(it, u) = [current |-> IF it.unread = << >> THEN it.current ELSE Head(it.unread),
                          unread |-> IF it.unread = << >> THEN << >> ELSE Tail(it.unread),
                          count |-> it.count + 1, make_undirected |-> TRUE]
    BY <1>3 DEF GetNext
  <2>2. /\ (IF it.unread = << >> THEN it.current ELSE Head(it.unread)) \in EdgeType
        /\ (IF it.unread = << >> THEN << >> ELSE Tail(it.unread)) \in Seq(EdgeType)
    BY <1>1
  <2> QED
    BY <1>1, <2>1, <2>2 DEF Iterators
<1> QED
  BY <1>2, <1>3

\* m lines have been left behind, and the rest but one is unread.
Left(it, lines, m) ==
  /\ it \in Iterators /\ it.count = m
  /\ m < Len(lines) =>
       /\ Len(it.unread) = Len(lines) - 1 - m
       /\ \A j \in 1..(Len(lines) - 1 - m) : it.unread[j] = lines[m + 1 + j]

\* On line m, counted from 0, which has not been turned round.
On(it, lines, m) ==
  Left(it, lines, m) /\ it.make_undirected /\ (m < Len(lines) => it.current = lines[m + 1])

LEMMA NextLine ==
  ASSUME NEW lines \in Seq(EdgeType), NEW m \in Nat, m < Len(lines), NEW it, Left(it, lines, m),
         NEW u \in BOOLEAN, ~(u /\ it.make_undirected)
  PROVE  On(GetNext(it, u), lines, m + 1)
<1> DEFINE x == GetNext(it, u)
           n == Len(lines)
<1>1. /\ it.unread \in Seq(EdgeType) /\ it.count = m /\ Len(it.unread) = n - 1 - m
      /\ \A j \in 1..(n - 1 - m) : it.unread[j] = lines[m + 1 + j]
      /\ n \in Nat /\ x \in Iterators
  BY GetNextType DEF Left, Iterators
<1>2. /\ x.current = (IF it.unread = << >> THEN it.current ELSE Head(it.unread))
      /\ x.unread = (IF it.unread = << >> THEN << >> ELSE Tail(it.unread))
      /\ x.count = m + 1 /\ x.make_undirected = TRUE
  BY <1>1 DEF GetNext
<1>3. ASSUME m + 1 < n
      PROVE  /\ x.current = lines[m + 2] /\ Len(x.unread) = n - 1 - (m + 1)
             /\ \A j \in 1..(n - 1 - (m + 1)) : x.unread[j] = lines[(m + 1) + 1 + j]
  <2>1. it.unread # << >> /\ 1 \in 1..(n - 1 - m)
    BY <1>1, <1>3
  <2>2. x.current = it.unread[1] /\ x.unread = Tail(it.unread)
    BY <1>1, <1>2, <2>1
  <2>3. Len(x.unread) = n - 1 - (m + 1)
    BY <1>1, <1>3, <2>1, <2>2
  <2>4. x.current = lines[m + 2]
    BY <1>1, <2>1, <2>2
  <2>5. ASSUME NEW j \in 1..(n - 1 - (m + 1)) PROVE x.unread[j] = lines[(m + 1) + 1 + j]
    <3>1. j + 1 \in 1..(n - 1 - m) /\ j \in 1..Len(x.unread)
      BY <1>1, <1>3, <2>3
    <3>2. x.unread[j] = it.unread[j + 1]
      BY <1>1, <2>1, <2>2, <3>1
    <3>3. it.unread[j + 1] = lines[m + 1 + (j + 1)] /\ m + 1 + (j + 1) = (m + 1) + 1 + j
      BY <1>1, <3>1
    <3> QED
      BY <3>2, <3>3
  <2> QED
    BY <2>3, <2>4, <2>5
<1> HIDE DEF x
<1>4. (m + 1) + 1 = m + 2
  OBVIOUS
<1>5. On(x, lines, m + 1)
  BY <1>1, <1>2, <1>3, <1>4 DEF On, Left
<1> QED
  BY <1>5 DEF x

LEMMA OtherWay ==
  ASSUME NEW lines, NEW m, NEW it, On(it, lines, m)
  PROVE  /\ Left(GetNext(it, TRUE), lines, m) /\ ~GetNext(it, TRUE).make_undirected
         /\ GetNext(it, TRUE).current = Swapped(it.current)
<1>1. it \in Iterators /\ it.make_undirected
  BY DEF On, Left
<1> DEFINE x == GetNext(it, TRUE)
<1>2. x = [it EXCEPT !.current = Swapped(it.current), !.make_undirected = FALSE]
  BY <1>1 DEF GetNext
<1>3. x \in Iterators
  BY <1>1, GetNextType
<1> HIDE DEF x
<1>4. /\ x.current = Swapped(it.current) /\ x.make_undirected = FALSE
      /\ x.unread = it.unread /\ x.count = it.count
  BY <1>1, <1>2 DEF Iterators
<1>5. Left(x, lines, m)
  BY <1>3, <1>4 DEF On, Left
<1> QED
  BY <1>4, <1>5 DEF x

LEMMA Beginning ==
  ASSUME NEW lines \in Seq(EdgeType), NEW u \in BOOLEAN
  PROVE  On(BeginOf(lines, u), lines, 0)
<1> DEFINE fresh == [current |-> [source |-> 0, target |-> 0, data |-> 0],
                     unread |-> lines, count |-> 0, make_undirected |-> FALSE]
           x == GetNext(fresh, u)
           y == [x EXCEPT !.count = 0]
           n == Len(lines)
<1>1. /\ x.current = (IF lines = << >> THEN [source |-> 0, target |-> 0, data |-> 0]
                                       ELSE Head(lines))
      /\ x.unread = (IF lines = << >> THEN << >> ELSE Tail(lines))
      /\ x.make_undirected = TRUE /\ x \in Iterators
  <2>1. fresh \in Iterators /\ fresh.current = [source |-> 0, target |-> 0, data |-> 0]
        /\ fresh.unread = lines /\ ~fresh.make_undirected
    BY DEF Iterators, EdgeType
  <2>2. x \in Iterators
    <3> HIDE DEF fresh
    <3> QED
      BY <2>1, GetNextType
  <2>3. x = [current |-> IF fresh.unread = << >> THEN fresh.current ELSE Head(fresh.unread),
             unread |-> IF fresh.unread = << >> THEN << >> ELSE Tail(fresh.unread),
             count |-> fresh.count + 1, make_undirected |-> TRUE]
    BY DEF GetNext
  <2> HIDE DEF fresh, x
  <2> QED
    BY <2>1, <2>2, <2>3
<1> HIDE DEF x
<1>2. /\ y.current = x.current /\ y.unread = x.unread /\ y.count = 0
      /\ y.make_undirected = TRUE /\ y \in Iterators
  BY <1>1 DEF Iterators
<1>3. BeginOf(lines, u) = y
  BY DEF BeginOf, x
<1> HIDE DEF y
<1>4. ASSUME 0 < n
      PROVE  /\ y.current = lines[1] /\ Len(y.unread) = n - 1
             /\ \A j \in 1..(n - 1) : y.unread[j] = lines[1 + j]
  <2>1. lines # << >>
    BY <1>4
  <2>2. y.current = Head(lines) /\ y.unread = Tail(lines)
    BY <1>1, <1>2, <2>1
  <2> QED
    BY <2>1, <2>2
<1>5. ASSUME 0 < n
      PROVE  /\ y.current = lines[0 + 1] /\ Len(y.unread) = n - 1 - 0
             /\ \A j \in 1..(n - 1 - 0) : y.unread[j] = lines[0 + 1 + j]
  <2>1. n \in Nat /\ n - 1 - 0 = n - 1 /\ 0 + 1 = 1
    OBVIOUS
  <2>2. y.current = lines[0 + 1] /\ Len(y.unread) = n - 1 - 0
    BY <1>4, <1>5, <2>1, Zenon
  <2>3. ASSUME NEW j \in 1..(n - 1 - 0) PROVE y.unread[j] = lines[0 + 1 + j]
    <3>1. j \in 1..(n - 1) /\ 0 + 1 + j = 1 + j
      BY <2>1
    <3>2. y.unread[j] = lines[1 + j]
      BY <1>4, <1>5, <3>1, Zenon
    <3> QED
      BY <3>1, <3>2, Zenon
  <2> QED
    BY <2>2, <2>3
<1>6. Left(y, lines, 0)
  BY <1>2, <1>5, Zenon DEF Left
<1>7. On(y, lines, 0)
  BY <1>2, <1>5, <1>6, Zenon DEF On
<1> QED
  BY <1>3, <1>7

\* The recursion of the iterator, and that the loop ends no later than this many
\* steps on.
Goes(at, lines, u) ==
  /\ at[0] = BeginOf(lines, u)
  /\ \A k \in 1..(2 * Len(lines)) : at[k] = GetNext(at[k - 1], u)

LEMMA TheLoop ==
  ASSUME NEW lines \in Seq(EdgeType), NEW u \in BOOLEAN
  PROVE  \E at \in [0..(2 * Len(lines)) -> Iterators] :
           /\ Goes(at, lines, u)
           /\ \A k \in 0..(2 * Len(lines)) : at[k].count = Len(lines) =>
                \E steps \in 0..k : Yields(lines, u) = [i \in 1..steps |-> at[i - 1].current]
<1> DEFINE n == 2 * Len(lines)
           Is(f) == f = [k \in 0..n |-> IF k = 0 THEN BeginOf(lines, u) ELSE GetNext(f[k - 1], u)]
           at == CHOOSE f : Is(f)
           Ends(f) == {k \in DOMAIN f : f[k].count = Len(lines)}
<1>1. Yields(lines, u) = [k \in 1..Min(Ends(at)) |-> at[k - 1].current]
  BY DEF Yields
<1>2. n \in Nat /\ Len(lines) \in Nat
  OBVIOUS
<1>3. BeginOf(lines, u) \in Iterators
  BY Beginning DEF On, Left
<1> HIDE DEF n
<1>4. \E f \in [0..n -> Iterators] : Is(f)
  <2> DEFINE h == [x \in Nat \X Iterators |-> GetNext(x[2], u)]
  <2>1. h \in [Nat \X Iterators -> Iterators]
    BY GetNextType
  <2>2. \A i \in Nat, it \in Iterators : h[<<i, it>>] = GetNext(it, u)
    OBVIOUS
  <2> HIDE DEF h
  <2>3. PICK f \in [0..(0 + n) -> Iterators] : GoesBy(f, 0, n, BeginOf(lines, u), h)
    BY <1>2, <1>3, <2>1, Recursion
  <2>4. /\ 0 + n = n /\ f \in [0..n -> Iterators] /\ f[0] = BeginOf(lines, u)
        /\ \A k \in 0..n : k # 0 => f[k] = h[<<k, f[k - 1]>>]
    BY <1>2, <2>3 DEF GoesBy
  <2>5. ASSUME NEW k \in 0..n, k # 0 PROVE f[k] = GetNext(f[k - 1], u)
    <3>1. k - 1 \in 0..n /\ k \in Nat
      BY <1>2, <2>5
    <3> QED
      BY <2>2, <2>4, <2>5, <3>1
  <2>6. Is(f)
    BY <2>4, <2>5
  <2> QED
    BY <2>4, <2>6
<1>5. PICK f \in [0..n -> Iterators] : Is(f)
  BY <1>4
<1>6. Is(at)
  <2> HIDE DEF Is
  <2> QED
    BY <1>5, Zenon
<1>7. \A k \in 0..n : k - 1 \in 0..n \/ k = 0
  BY <1>2
<1>8. PICK g : g = at
  OBVIOUS
<1> HIDE DEF at
<1>9. /\ g = [k \in 0..n |-> IF k = 0 THEN BeginOf(lines, u) ELSE GetNext(g[k - 1], u)]
  BY <1>6, <1>8
<1>10. DOMAIN g = 0..n /\ g = [k \in 0..n |-> g[k]] /\ g[0] = BeginOf(lines, u)
       /\ \A k \in 1..n : g[k] = GetNext(g[k - 1], u)
  <2>1. 0 \in 0..n /\ \A k \in 1..n : k \in 0..n /\ k # 0
    BY <1>2
  <2>2. \A k \in 0..n : g[k] = IF k = 0 THEN BeginOf(lines, u) ELSE GetNext(g[k - 1], u)
    BY <1>9
  <2>3. DOMAIN g = 0..n /\ g = [k \in 0..n |-> g[k]]
    BY <1>9
  <2>4. g[0] = BeginOf(lines, u)
    BY <2>1, <2>2
  <2>5. ASSUME NEW k \in 1..n PROVE g[k] = GetNext(g[k - 1], u)
    BY <2>1, <2>2
  <2> QED
    BY <2>3, <2>4, <2>5
<1>11. g \in [0..n -> Iterators]
  <2> DEFINE P == {k \in Nat : k \in 0..n => g[k] \in Iterators}
  <2>1. 0 \in P
    BY <1>3, <1>10
  <2>2. ASSUME NEW k \in Nat, k \in P PROVE k + 1 \in P
    <3>1. CASE k + 1 \in 0..n
      <4>1. k \in 0..n /\ k + 1 \in 1..n /\ (k + 1) - 1 = k
        BY <1>2, <3>1
      <4>2. g[k + 1] = GetNext(g[k], u) /\ g[k] \in Iterators
        BY <1>10, <2>2, <4>1
      <4>3. GetNext(g[k], u) \in Iterators
        BY <4>2, GetNextType
      <4> QED
        BY <4>2, <4>3
    <3> QED
      BY <3>1
  <2>3. Nat \subseteq P
    <3> HIDE DEF P
    <3> QED
      BY <2>1, <2>2, StepByStep
  <2>4. \A k \in 0..n : g[k] \in Iterators
    BY <1>2, <2>3
  <2> QED
    BY <1>10, <2>4
<1>12. Goes(g, lines, u)
  BY <1>10 DEF Goes, n
<1>13. ASSUME NEW k \in 0..n, g[k].count = Len(lines)
       PROVE  \E steps \in 0..k : Yields(lines, u) = [i \in 1..steps |-> g[i - 1].current]
  <2> DEFINE S == Ends(g)
  <2>1. S \subseteq Nat /\ k \in S
    BY <1>2, <1>10, <1>13
  <2>2. \E m \in S : \A y \in S : m <= y
    <3> HIDE DEF S
    <3> QED
      BY <2>1, LeastNumber
  <2>3. Min(S) \in S /\ \A y \in S : Min(S) <= y
    <3> HIDE DEF S
    <3> QED
      BY <2>2 DEF Min
  <2>4. Min(S) \in 0..k
    <3> HIDE DEF S
    <3>1. Min(S) \in Nat /\ Min(S) <= k /\ k \in Nat
      BY <2>1, <2>3
    <3> QED
      BY <3>1
  <2>5. Yields(lines, u) = [i \in 1..Min(S) |-> g[i - 1].current]
    BY <1>1, <1>8
  <2> QED
    BY <2>4, <2>5
<1> QED
  BY <1>11, <1>12, <1>13 DEF n

\* Each line once, in order, or each line and then the same turned round.
LinesOnce(y, lines) ==
  y \in Seq(EdgeType) /\ \A k \in 1..Len(y) : k \in 1..Len(lines) /\ y[k] = lines[k]

LinesTwice(y, lines) ==
  y \in Seq(EdgeType) /\ \A k \in 1..Len(y) : \E m \in 1..Len(lines) :
    (k = 2 * m - 1 /\ y[k] = lines[m]) \/ (k = 2 * m /\ y[k] = Swapped(lines[m]))

LEMMA YieldsOnce ==
  ASSUME NEW lines \in Seq(EdgeType)
  PROVE  LinesOnce(Yields(lines, FALSE), lines)
<1> DEFINE n == Len(lines)
<1>1. PICK at \in [0..(2 * n) -> Iterators] :
         /\ Goes(at, lines, FALSE)
         /\ \A k \in 0..(2 * n) : at[k].count = n =>
              \E steps \in 0..k : Yields(lines, FALSE) = [i \in 1..steps |-> at[i - 1].current]
  BY TheLoop
<1>2. n \in Nat
  OBVIOUS
<1> HIDE DEF n
<1> DEFINE P == {k \in Nat : k <= n => On(at[k], lines, k)}
<1>3. 0 \in P
  BY <1>1, Beginning DEF Goes
<1>4. ASSUME NEW k \in Nat, k \in P PROVE k + 1 \in P
  <2>1. CASE k + 1 <= n
    <3>1. k <= n /\ k < n /\ k + 1 \in 1..(2 * n) /\ (k + 1) - 1 = k
      BY <1>2, <2>1
    <3>2. On(at[k], lines, k)
      BY <1>4, <3>1
    <3>3. Left(at[k], lines, k) /\ k < Len(lines)
      BY <3>1, <3>2 DEF On, n
    <3>4. On(GetNext(at[k], FALSE), lines, k + 1)
      BY <3>3, NextLine
    <3>5. at[k + 1] = GetNext(at[k], FALSE)
      BY <1>1, <3>1 DEF Goes, n
    <3>6. On(at[k + 1], lines, k + 1)
      BY <3>4, <3>5, Zenon
    <3> QED
      BY <3>6
  <2> QED
    BY <2>1
<1>5. \A k \in 0..n : On(at[k], lines, k)
  <2>1. Nat \subseteq P
    <3> HIDE DEF P
    <3> QED
      BY <1>3, <1>4, StepByStep
  <2> QED
    BY <1>2, <2>1
<1>6. PICK steps \in 0..n : Yields(lines, FALSE) = [i \in 1..steps |-> at[i - 1].current]
  <2>1. n \in 0..n /\ n \in 0..(2 * n)
    BY <1>2
  <2>2. at[n].count = n
    BY <1>5, <2>1 DEF On, Left
  <2> QED
    BY <1>1, <2>1, <2>2
<1>7. ASSUME NEW i \in 1..steps
      PROVE  i \in 1..n /\ at[i - 1].current = lines[i] /\ lines[i] \in EdgeType
  <2>1. i \in 1..n /\ i - 1 \in 0..n /\ i - 1 < n /\ (i - 1) + 1 = i
    BY <1>2
  <2>2. On(at[i - 1], lines, i - 1)
    BY <1>5, <2>1
  <2>3. at[i - 1].current = lines[i]
    BY <2>1, <2>2 DEF On, n
  <2> QED
    BY <2>1, <2>3 DEF n
<1>8. PICK y : y = Yields(lines, FALSE)
  OBVIOUS
<1>9. y \in Seq(EdgeType) /\ Len(y) = steps /\ \A i \in 1..steps : y[i] = at[i - 1].current
  <2>1. steps \in Nat
    BY <1>2
  <2>2. y = [i \in 1..steps |-> at[i - 1].current]
    BY <1>6, <1>8
  <2>3. \A i \in 1..steps : y[i] = at[i - 1].current /\ y[i] \in EdgeType
    BY <1>7, <2>2
  <2>4. y \in [1..steps -> EdgeType]
    BY <2>2, <2>3
  <2> QED
    BY <2>1, <2>3, <2>4
<1>10. LinesOnce(y, lines)
  BY <1>7, <1>9 DEF LinesOnce, n
<1> QED
  BY <1>8, <1>10

LEMMA YieldsTwice ==
  ASSUME NEW lines \in Seq(EdgeType)
  PROVE  LinesTwice(Yields(lines, TRUE), lines)
<1> DEFINE n == Len(lines)
<1>1. PICK at \in [0..(2 * n) -> Iterators] :
         /\ Goes(at, lines, TRUE)
         /\ \A k \in 0..(2 * n) : at[k].count = n =>
              \E steps \in 0..k : Yields(lines, TRUE) = [i \in 1..steps |-> at[i - 1].current]
  BY TheLoop
<1>2. n \in Nat
  OBVIOUS
<1> HIDE DEF n
<1> DEFINE P == {m \in Nat : m <= n => On(at[2 * m], lines, m)}
<1>3. 0 \in P
  <2>1. 2 * 0 = 0
    OBVIOUS
  <2> QED
    BY <1>1, <2>1, Beginning DEF Goes
<1>4. ASSUME NEW m \in Nat, m < n, On(at[2 * m], lines, m)
      PROVE  /\ at[2 * m + 1] = GetNext(at[2 * m], TRUE)
             /\ Left(at[2 * m + 1], lines, m) /\ ~at[2 * m + 1].make_undirected
             /\ at[2 * m + 1].current = Swapped(lines[m + 1])
  <2>1. 2 * m + 1 \in 1..(2 * n) /\ (2 * m + 1) - 1 = 2 * m
    BY <1>2, <1>4
  <2>2. at[2 * m + 1] = GetNext(at[2 * m], TRUE)
    BY <1>1, <2>1 DEF Goes, n
  <2>3. at[2 * m].current = lines[m + 1]
    BY <1>4 DEF On, n
  <2>4. PICK it : it = at[2 * m]
    OBVIOUS
  <2>5. /\ Left(GetNext(it, TRUE), lines, m) /\ ~GetNext(it, TRUE).make_undirected
        /\ GetNext(it, TRUE).current = Swapped(it.current)
    BY <1>4, <2>4, OtherWay
  <2> QED
    BY <2>2, <2>3, <2>4, <2>5, Zenon
<1>5. ASSUME NEW m \in Nat, m \in P PROVE m + 1 \in P
  <2>1. CASE m + 1 <= n
    <3>1. /\ m <= n /\ m < n /\ 2 * (m + 1) \in 1..(2 * n)
          /\ 2 * (m + 1) - 1 = 2 * m + 1
      BY <1>2, <2>1
    <3>2. Left(at[2 * m + 1], lines, m) /\ ~at[2 * m + 1].make_undirected /\ m < Len(lines)
      BY <1>4, <1>5, <3>1 DEF n
    <3>3. On(GetNext(at[2 * m + 1], TRUE), lines, m + 1)
      BY <3>2, NextLine
    <3>4. at[2 * (m + 1)] = GetNext(at[2 * m + 1], TRUE)
      BY <1>1, <3>1 DEF Goes, n
    <3>5. On(at[2 * (m + 1)], lines, m + 1)
      BY <3>3, <3>4, Zenon
    <3> QED
      BY <3>5
  <2> QED
    BY <2>1
<1>6. \A m \in 0..n : On(at[2 * m], lines, m)
  <2>1. Nat \subseteq P
    <3> HIDE DEF P
    <3> QED
      BY <1>3, <1>5, StepByStep
  <2> QED
    BY <1>2, <2>1
<1>7. PICK steps \in 0..(2 * n) : Yields(lines, TRUE) = [i \in 1..steps |-> at[i - 1].current]
  <2>1. n \in 0..n /\ 2 * n \in 0..(2 * n)
    BY <1>2
  <2>2. at[2 * n].count = n
    BY <1>6, <2>1 DEF On, Left
  <2> QED
    BY <1>1, <2>1, <2>2
<1>8. ASSUME NEW i \in 1..steps
      PROVE  \E m \in 1..n : \/ i = 2 * m - 1 /\ at[i - 1].current = lines[m]
                             \/ i = 2 * m /\ at[i - 1].current = Swapped(lines[m])
  <2>1. \E m \in 0..(n - 1) : i - 1 = 2 * m \/ i - 1 = 2 * m + 1
    <3>1. (i - 1) \div 2 \in Nat /\ (i - 1) % 2 \in 0..1
          /\ i - 1 = ((i - 1) \div 2) * 2 + ((i - 1) % 2)
      <4>1. i - 1 \in Nat /\ 2 \in Nat \ {0} /\ 2 - 1 = 1
        BY <1>2
      <4> QED
        BY <4>1, Division
    <3>2. PICK m \in Nat : i - 1 = 2 * m \/ i - 1 = 2 * m + 1
      BY <3>1
    <3>3. m \in 0..(n - 1)
      BY <1>2, <3>2
    <3> QED
      BY <3>2, <3>3
  <2>2. PICK m \in 0..(n - 1) : i - 1 = 2 * m \/ i - 1 = 2 * m + 1
    BY <2>1
  <2>3. m \in Nat /\ m < n /\ m \in 0..n /\ m + 1 \in 1..n
    BY <1>2
  <2>4. On(at[2 * m], lines, m)
    BY <1>6, <2>3
  <2>5. at[2 * m].current = lines[m + 1]
    BY <2>3, <2>4 DEF On, n
  <2>6. at[2 * m + 1].current = Swapped(lines[m + 1])
    BY <1>4, <2>3, <2>4
  <2>7. i = 2 * (m + 1) - 1 \/ i = 2 * (m + 1)
    BY <1>2, <2>2
  <2>8. CASE i - 1 = 2 * m
    <3>1. i = 2 * (m + 1) - 1
      BY <1>2, <2>8
    <3> QED
      BY <2>3, <2>5, <2>8, <3>1
  <2>9. CASE i - 1 = 2 * m + 1
    <3>1. i = 2 * (m + 1)
      BY <1>2, <2>9
    <3> QED
      BY <2>3, <2>6, <2>9, <3>1
  <2> QED
    BY <2>2, <2>8, <2>9
<1>9. PICK y : y = Yields(lines, TRUE)
  OBVIOUS
<1>10. y \in Seq(EdgeType) /\ Len(y) = steps /\ \A i \in 1..steps : y[i] = at[i - 1].current
  <2>1. steps \in Nat
    BY <1>2
  <2>2. ASSUME NEW i \in 1..steps PROVE at[i - 1].current \in EdgeType
    <3>1. i - 1 \in 0..(2 * n)
      BY <1>2
    <3>2. at[i - 1] \in Iterators
      BY <1>1, <3>1 DEF n
    <3> QED
      BY <3>2 DEF Iterators
  <2>3. y = [i \in 1..steps |-> at[i - 1].current]
    BY <1>7, <1>9
  <2>4. \A i \in 1..steps : y[i] = at[i - 1].current /\ y[i] \in EdgeType
    BY <2>2, <2>3
  <2>5. y \in [1..steps -> EdgeType]
    BY <2>3, <2>4
  <2> QED
    BY <2>1, <2>4, <2>5
<1>11. LinesTwice(y, lines)
  BY <1>8, <1>10 DEF LinesTwice, n
<1> QED
  BY <1>9, <1>11

-----------------------------------------------------------------------------
\* What the iterators of two ranks yield is apart, both ways round or not.
LEMMA YieldsApart ==
  ASSUME NEW in \in Inputs, NEW es,
         es = [r \in Ranks |-> Yields(LinesOf(in.files, r), in.undirected)]
  PROVE  es \in [Ranks -> Seq(EdgeType)] /\ Apart(es)
<1>1. PICK ls : ls = [r \in Ranks |-> LinesOf(in.files, r)]
  OBVIOUS
<1>2. /\ \A r \in Ranks : ls[r] = LinesOf(in.files, r) /\ ls[r] \in Seq(EdgeType)
      /\ \A r \in Ranks : \A p \in 1..Len(ls[r]) : ls[r][p].source # ls[r][p].target
      /\ \A r, q \in Ranks : \A i \in 1..Len(ls[r]), j \in 1..Len(ls[q]) :
           ls[r][i].data = ls[q][j].data => r = q /\ i = j
  <2>1. \A r \in Ranks : ls[r] = LinesOf(in.files, r)
    BY <1>1
  <2>2. LinesAreApart(in.files)
    BY Reading
  <2> QED
    BY <2>1, <2>2 DEF LinesAreApart
<1>3. in.undirected \in BOOLEAN
  BY InputsAssumption
<1>4. CASE ~in.undirected
  <2>1. ASSUME NEW r \in Ranks PROVE LinesOnce(es[r], ls[r])
    <3>1. es[r] = Yields(ls[r], FALSE)
      BY <1>2, <1>3, <1>4
    <3> QED
      BY <1>2, <3>1, YieldsOnce
  <2>2. ASSUME NEW r \in Ranks, NEW q \in Ranks, NEW i \in 1..Len(es[r]), NEW j \in 1..Len(es[q]),
               es[r][i] = es[q][j]
        PROVE  r = q /\ i = j
    <3>1. i \in 1..Len(ls[r]) /\ es[r][i] = ls[r][i]
      BY <2>1 DEF LinesOnce
    <3>2. j \in 1..Len(ls[q]) /\ es[q][j] = ls[q][j]
      BY <2>1 DEF LinesOnce
    <3>3. ls[r][i].data = ls[q][j].data
      BY <2>2, <3>1, <3>2
    <3> QED
      BY <1>2, <3>1, <3>2, <3>3
  <2>3. es \in [Ranks -> Seq(EdgeType)]
    BY <2>1 DEF LinesOnce
  <2> QED
    BY <2>2, <2>3 DEF Apart
<1>5. CASE in.undirected
  <2>1. ASSUME NEW r \in Ranks PROVE LinesTwice(es[r], ls[r])
    <3>1. es[r] = Yields(ls[r], TRUE)
      BY <1>2, <1>3, <1>5
    <3> QED
      BY <1>2, <3>1, YieldsTwice
  <2>2. ASSUME NEW r \in Ranks, NEW m \in 1..Len(ls[r])
        PROVE  /\ Swapped(ls[r][m]).data = ls[r][m].data
               /\ Swapped(ls[r][m]) # ls[r][m]
    <3>1. ls[r][m] \in EdgeType /\ ls[r][m].source # ls[r][m].target
      BY <1>2
    <3>2. PICK e \in EdgeType : e = ls[r][m]
      BY <3>1
    <3>3. Swapped(e).data = e.data /\ Swapped(e).source = e.target
      BY DEF Swapped, EdgeType
    <3> QED
      BY <3>1, <3>2, <3>3
  <2>3. ASSUME NEW r \in Ranks, NEW q \in Ranks, NEW i \in 1..Len(es[r]), NEW j \in 1..Len(es[q]),
               es[r][i] = es[q][j]
        PROVE  r = q /\ i = j
    <3>1. PICK m \in 1..Len(ls[r]) : \/ i = 2 * m - 1 /\ es[r][i] = ls[r][m]
                                     \/ i = 2 * m /\ es[r][i] = Swapped(ls[r][m])
      BY <2>1 DEF LinesTwice
    <3>2. PICK l \in 1..Len(ls[q]) : \/ j = 2 * l - 1 /\ es[q][j] = ls[q][l]
                                     \/ j = 2 * l /\ es[q][j] = Swapped(ls[q][l])
      BY <2>1 DEF LinesTwice
    <3>3. es[r][i].data = ls[r][m].data
      BY <2>2, <3>1
    <3>4. es[q][j].data = ls[q][l].data
      BY <2>2, <3>2
    <3>5. ls[r][m].data = ls[q][l].data
      BY <2>3, <3>3, <3>4
    <3>6. r = q /\ m = l
      BY <1>2, <3>5
    <3>7. Swapped(ls[r][m]) # ls[r][m]
      BY <2>2
    <3>8. (i = 2 * m - 1 /\ j = 2 * l - 1) \/ (i = 2 * m /\ j = 2 * l)
      BY <2>3, <3>1, <3>2, <3>6, <3>7
    <3> QED
      BY <3>6, <3>8
  <2>4. es \in [Ranks -> Seq(EdgeType)]
    BY <2>1 DEF LinesTwice
  <2> QED
    BY <2>3, <2>4 DEF Apart
<1> QED
  BY <1>4, <1>5

-----------------------------------------------------------------------------
LEMMA StartInput ==
  ASSUME Init
  PROVE  InputOK /\ Positioned
<1>1. PICK in \in Inputs : edges = [r \in Ranks |-> Yields(LinesOf(in.files, r), in.undirected)]
  BY Zenon DEF Init
<1>2. PICK es : es = edges
  OBVIOUS
<1>3. es \in [Ranks -> Seq(EdgeType)] /\ Apart(es)
  BY <1>1, <1>2, YieldsApart
<1>4. chunk \in Nat \ {0}
  BY SizesAssumption DEF Init
<1>5. passes \in Nat \ {0}
  <2>1. PICK n \in PassCounts : passes = Least(n, PerNode)
    BY DEF Init
  <2>2. n \in Nat \ {0} /\ PerNode \in Nat \ {0}
    BY SizesAssumption
  <2> QED
    BY <2>1, <2>2 DEF Least
<1>6. itr = [r \in Ranks |-> 1]
  BY DEF Init
<1>7. ASSUME NEW r \in Ranks PROVE itr[r] = 1 /\ itr[r] <= Len(edges[r]) + 1
  <2>1. edges[r] \in Seq(EdgeType)
    BY <1>2, <1>3
  <2>2. Len(edges[r]) \in Nat
    BY <2>1
  <2> QED
    BY <1>6, <2>2
<1>8. Positioned
  BY <1>6, <1>7 DEF Positioned
<1> QED
  BY <1>2, <1>3, <1>4, <1>5, <1>8 DEF InputOK

LEMMA Start == Init => ConstructionInv
<1> SUFFICES ASSUME Init PROVE ConstructionInv
  OBVIOUS
<1>1. InputOK /\ Positioned
  BY StartInput
<1>2. /\ phase = "count_edge_degrees" /\ turn = 0 /\ hubs = << >>
      /\ itr = [r \in Ranks |-> 1] /\ local = [r \in Ranks |-> Allocated]
  BY DEF Init
<1>3. \A r \in Ranks : local[r] = Allocated /\ DOMAIN local[r] = Members
  <2>1. DOMAIN Allocated = Members
    BY DEF Allocated, Members
  <2> QED
    BY <1>2, <2>1
<1>4. AllEdges \ Unread = {}
  <2>1. \A r \in Ranks : itr[r] = 1
    BY <1>2
  <2>2. \A e : e \in AllEdges <=> \E r \in Ranks : \E k \in 1..Len(edges[r]) : e = edges[r][k]
    BY <1>1, WhatIsRead
  <2>3. \A e : e \in Unread <=> \E r \in Ranks : \E k \in itr[r]..Len(edges[r]) : e = edges[r][k]
    BY <1>1, WhatIsRead
  <2>4. \A e \in AllEdges : e \in Unread
    BY <2>1, <2>2, <2>3
  <2> QED
    BY <2>4
<1>5. ASSUME NEW r \in Ranks PROVE Sums(r)
  <2>1. /\ local[r].outgoing = [i \in Cells |-> 0] /\ local[r].tracker = [i \in Cells |-> 0]
        /\ local[r].delegate_id = [i \in 0..(MaxLocal + 1) |-> None]
    <3>1. local[r] = Allocated
      BY <1>3
    <3>2. /\ Allocated.outgoing = [i \in Cells |-> 0] /\ Allocated.tracker = [i \in Cells |-> 0]
          /\ Allocated.delegate_id = [i \in 0..(MaxLocal + 1) |-> None]
      BY DEF Allocated
    <3> QED
      BY <3>1, <3>2
  <2>2. Degrees(r)
    <3>1. [i \in Cells |-> CountOf(Label(r, i), AllEdges \ Unread)] = [i \in Cells |-> 0]
      BY <1>4, NothingCounts
    <3> QED
      BY <1>2, <2>1, <3>1 DEF Degrees, WithHubs, BeforeHighCounts
  <2>3. HubsAreHigh(r)
    BY <1>2 DEF HubsAreHigh, WithHubs, BeforeHighCounts
  <2>4. Identifiers(r)
    BY <1>2, <2>1 DEF Identifiers, BeforeHighCounts
  <2>5. LowSlots(r)
    BY <1>2 DEF LowSlots
  <2>6. LowTaken(r)
    BY <1>2, <2>1 DEF LowTaken
  <2>7. HighSlots(r) /\ HighTaken(r)
    BY <1>2 DEF HighSlots, HighTaken
  <2> QED
    BY <2>2, <2>3, <2>4, <2>5, <2>6, <2>7 DEF Sums
<1>6. turn \in Nat /\ hubs \in Seq(Nat)
  BY <1>2
<1> QED
  BY <1>1, <1>3, <1>5, <1>6 DEF ConstructionInv, ShapeOK

-----------------------------------------------------------------------------
(* The assertions of the two partition phases.                             *)

\* A vertex has its cell at its owner.
LEMMA CellOf ==
  ASSUME InputOK, Positioned, NEW e \in AllEdges
  PROVE  LocalId(e.source) \in Cells /\ Label(Owner(e.source), LocalId(e.source)) = e.source
<1>1. PICK v \in Nat, top \in Nat : v = e.source /\ top = MaxVertex /\ v <= top
  <2>1. e \in EdgeType /\ e.source <= MaxVertex /\ MaxVertex \in Nat
    BY WhatIsRead, CellNumbers
  <2> QED
    BY <2>1 DEF EdgeType
<1>2. Size \in Nat \ {0}
  BY SizesAssumption
<1>3. PICK d \in Nat, x \in 0..(Size - 1) : d = v \div Size /\ x = v % Size /\ v = d * Size + x
  BY <1>2, Division
<1>4. top + Size - 1 \in Nat
  BY <1>2
<1>5. PICK m \in Nat, y \in 0..(Size - 1) :
        m = (top + Size - 1) \div Size /\ top + Size - 1 = m * Size + y
  BY <1>2, <1>4, Division
<1>6. d <= m
  <2>1. CASE d > m
    <3>1. d = m + (d - m) /\ d - m \in Nat /\ d - m >= 1
      BY <2>1
    <3>2. (m + (d - m)) * Size = m * Size + (d - m) * Size /\ (d - m) * Size >= Size
      BY <1>2, <3>1
    <3>3. m * Size \in Nat
      BY <1>2
    <3> QED
      BY <1>1, <1>2, <1>3, <1>5, <3>1, <3>2, <3>3
  <2> QED
    BY <2>1
<1>7. LocalId(e.source) = d /\ Owner(e.source) = x /\ MaxLocal = m
  BY <1>1, <1>3, <1>5 DEF LocalId, Owner, MaxLocal
<1>8. Label(x, d) = v
  BY <1>3 DEF Label
<1> QED
  BY <1>1, <1>6, <1>7, <1>8 DEF Cells

\* The last edge of a source comes to a place below their number.
LEMMA PlaceBelow ==
  ASSUME NEW S, IsFiniteSet(S), S \subseteq EdgeType, NEW e \in S
  PROVE  PlaceAmong(e, S) \in Nat /\ PlaceAmong(e, S) < CountOf(e.source, S)
<1> DEFINE A == {f \in S : f.source = e.source /\ SortsBefore(f, e)}
           B == {f \in S : f.source = e.source}
<1>1. e \in B /\ e \notin A /\ A \in SUBSET (B \ {e})
  BY DEF SortsBefore, EdgeType
<1>2. IsFiniteSet(B)
  BY FS_Subset
<1> HIDE DEF A, B
<1>3. IsFiniteSet(B \ {e}) /\ Cardinality(B \ {e}) = Cardinality(B) - 1
  BY <1>1, <1>2, FS_RemoveElement
<1>4. IsFiniteSet(A) /\ Cardinality(A) <= Cardinality(B \ {e})
  BY <1>1, <1>3, FS_Subset
<1>5. Cardinality(A) \in Nat /\ Cardinality(B) \in Nat
  BY <1>2, <1>4, FS_CardinalityType
<1>6. Cardinality(A) < Cardinality(B)
  BY <1>3, <1>4, <1>5
<1> QED
  BY <1>5, <1>6 DEF A, B, PlaceAmong, CountOf

\* A part and the rest make up the whole.
LEMMA RestCounts ==
  ASSUME NEW A, IsFiniteSet(A), NEW T \in SUBSET A, NEW S \in SUBSET T
  PROVE  \A v : /\ CountOf(v, S) \in Nat /\ CountOf(v, T \ S) \in Nat
                /\ CountOf(v, T) = CountOf(v, T \ S) + CountOf(v, S)
<1>1. PICK U \in SUBSET A, V \in SUBSET A : U = T \ S /\ V = S
  OBVIOUS
<1>2. U \cap V = {} /\ U \cup V = T
  BY <1>1
<1>3. \A v : CountOf(v, U) \in Nat /\ CountOf(v, V) \in Nat
  BY <1>2, PartsCount
<1>4. \A v : CountOf(v, U \cup V) = CountOf(v, U) + CountOf(v, V)
  BY <1>2, PartsCount
<1> QED
  BY <1>1, <1>2, <1>3, <1>4, Zenon

LEMMA HighRestCounts ==
  ASSUME NEW A, IsFiniteSet(A), NEW T \in SUBSET A, NEW S \in SUBSET T
  PROVE  \A r, h : /\ HighCountOf(r, h, S) \in Nat /\ HighCountOf(r, h, T \ S) \in Nat
                   /\ HighCountOf(r, h, T) = HighCountOf(r, h, T \ S) + HighCountOf(r, h, S)
<1>1. PICK U \in SUBSET A, V \in SUBSET A : U = T \ S /\ V = S
  OBVIOUS
<1>2. U \cap V = {} /\ U \cup V = T
  BY <1>1
<1>3. \A r, h : HighCountOf(r, h, U) \in Nat /\ HighCountOf(r, h, V) \in Nat
  BY <1>2, HighPartsCount
<1>4. \A r, h : HighCountOf(r, h, U \cup V) = HighCountOf(r, h, U) + HighCountOf(r, h, V)
  BY <1>2, HighPartsCount
<1> QED
  BY <1>1, <1>2, <1>3, <1>4, Zenon

\* In its turn a rank waits for what is unread.
LEMMA InItsTurn ==
  ASSUME InputOK, Positioned, turn \in Nat, NEW r \in Ranks, TheirTurn(r)
  PROVE  ToCome(r) = Unread
<1>1. PICK k \in Nat, t \in Nat : k = (r % PerNode) % passes /\ t = turn
  BY PassOf
<1>2. k = t /\ ToCome(r) = CASE k > t -> AllEdges [] k = t -> Unread [] OTHER -> {}
  BY <1>1 DEF ToCome, TheirTurn
<1> QED
  BY <1>2

LEMMA LowEdgesFit ==
  ASSUME ConstructionInv, phase = "partition_low_degree"
  PROVE  LowFits
<1>1. /\ InputOK /\ Positioned /\ turn \in Nat /\ \A r \in Ranks : Sums(r)
  BY DEF ConstructionInv, ShapeOK
<1>2. /\ Round \subseteq Unread /\ Unread \subseteq AllEdges
      /\ AllEdges \subseteq EdgeType /\ IsFiniteSet(AllEdges)
  BY <1>1, WhatIsRead
<1>3. ASSUME NEW r \in Ranks, NEW e \in LowEdgesTo(r)
      PROVE  LowSlot(r, e) < local[r].low_csr_idx[LocalId(e.source) + 1]
  <2>1. e \in Round /\ Owner(e.source) = r /\ TheirTurn(r) /\ ~IsHub(e.source)
    BY DEF LowEdgesTo
  <2>2. PICK i, v : i = LocalId(e.source) /\ v = e.source
    OBVIOUS
  <2>3. i \in Cells /\ Label(r, i) = v /\ i \in Nat
    <3>1. Cells \subseteq Nat
      BY <1>1, CellNumbers DEF Cells
    <3>2. e \in AllEdges
      BY <1>2, <2>1
    <3> QED
      BY <1>1, <2>1, <2>2, <3>1, <3>2, CellOf
  <2>4. /\ local[r].low_csr_idx[i] \in Nat
        /\ local[r].low_csr_idx[i + 1] = local[r].low_csr_idx[i] + CountOf(v, AllEdges)
    BY <1>1, <1>3, <2>1, <2>2, <2>3 DEF Sums, LowSlots
  <2>5. local[r].tracker[i] = CountOf(v, AllEdges \ ToCome(r))
    <3>1. LowTaken(r) /\ ~IsHub(Label(r, i))
      BY <1>1, <2>1, <2>2, <2>3 DEF Sums
    <3>2. \A j \in Cells : ~IsHub(Label(r, j)) =>
            local[r].tracker[j] = CountOf(Label(r, j), AllEdges \ ToCome(r))
      BY <3>1 DEF LowTaken
    <3>3. local[r].tracker[i] = CountOf(Label(r, i), AllEdges \ ToCome(r))
      BY <2>3, <3>1, <3>2
    <3> QED
      BY <2>3, <3>3
  <2>6. ToCome(r) = Unread
    BY <1>1, <2>1, InItsTurn
  <2>7. LowEdgesTo(r) \in SUBSET Unread /\ Unread \in SUBSET AllEdges
        /\ LowEdgesTo(r) \in SUBSET AllEdges
    BY <1>2 DEF LowEdgesTo
  <2>8. IsFiniteSet(LowEdgesTo(r)) /\ LowEdgesTo(r) \subseteq EdgeType
    BY <1>2, <2>7, FS_Subset
  <2>9. PlaceAmong(e, LowEdgesTo(r)) \in Nat /\ PlaceAmong(e, LowEdgesTo(r)) < CountOf(v, LowEdgesTo(r))
    BY <2>2, <2>8, PlaceBelow
  <2>10. /\ CountOf(v, LowEdgesTo(r)) \in Nat /\ CountOf(v, Unread) \in Nat
         /\ CountOf(v, LowEdgesTo(r)) <= CountOf(v, Unread)
    <3>1. /\ CountOf(v, LowEdgesTo(r)) \in Nat /\ CountOf(v, Unread \ LowEdgesTo(r)) \in Nat
          /\ CountOf(v, Unread) = CountOf(v, Unread \ LowEdgesTo(r)) + CountOf(v, LowEdgesTo(r))
      BY <1>2, <2>7, RestCounts
    <3> QED
      BY <3>1
  <2>11. /\ CountOf(v, AllEdges \ Unread) \in Nat
         /\ CountOf(v, AllEdges) = CountOf(v, AllEdges \ Unread) + CountOf(v, Unread)
    <3>1. AllEdges \in SUBSET AllEdges /\ Unread \in SUBSET AllEdges
      BY <2>7
    <3> QED
      BY <1>2, <3>1, RestCounts
  <2>12. LowSlot(r, e) = local[r].low_csr_idx[i] + local[r].tracker[i] + PlaceAmong(e, LowEdgesTo(r))
    BY <2>2 DEF LowSlot
  <2>13. LowSlot(r, e) < local[r].low_csr_idx[i + 1]
    BY <2>4, <2>5, <2>6, <2>9, <2>10, <2>11, <2>12
  <2> QED
    BY <2>2, <2>13
<1> QED
  BY <1>3 DEF LowFits

LEMMA HighEdgesFit ==
  ASSUME ConstructionInv, phase = "partition_high_degree"
  PROVE  HighFits
<1>1. /\ InputOK /\ Positioned /\ turn \in Nat /\ hubs \in Seq(Nat) /\ \A r \in Ranks : Sums(r)
  BY DEF ConstructionInv, ShapeOK
<1>2. /\ Round \subseteq Unread /\ Unread \subseteq AllEdges
      /\ AllEdges \subseteq EdgeType /\ IsFiniteSet(AllEdges)
  BY <1>1, WhatIsRead
<1>3. ASSUME NEW r \in Ranks, NEW e \in HighEdgesNow(r)
      PROVE  HighSlot(r, e) < local[r].delegate_info[HubNumber(e.source) + 1]
  <2>1. TheirTurn(r) /\ IsHub(e.source) /\ HighEdgesNow(r) = HighEdgesTo(r, Round)
    <3>1. TheirTurn(r)
      BY DEF HighEdgesNow, HighEdgesTo
    <3> QED
      BY <3>1 DEF HighEdgesNow, HighEdgesTo
  <2>2. PICK h : h = HubNumber(e.source)
    OBVIOUS
  <2>3. h \in HubNumbers
    <3>1. PICK u : u = e.source
      OBVIOUS
    <3>2. \E i \in DOMAIN hubs : hubs[i] = u
      BY <2>1, <3>1 DEF IsHub
    <3>3. (CHOOSE i \in DOMAIN hubs : hubs[i] = u) \in DOMAIN hubs
      BY <3>2
    <3>4. PICK i : i = CHOOSE j \in DOMAIN hubs : hubs[j] = u
      OBVIOUS
    <3>5. i \in 1..Len(hubs) /\ h = i - 1 /\ Len(hubs) \in Nat
      BY <1>1, <2>2, <3>1, <3>3, <3>4 DEF HubNumber
    <3> QED
      BY <3>5 DEF HubNumbers
  <2>4. /\ local[r].delegate_info[h] \in Nat
        /\ local[r].delegate_info[h + 1] = local[r].delegate_info[h] + HighCountOf(r, h, AllEdges)
    BY <1>1, <2>3 DEF Sums, HighSlots
  <2>5. local[r].delegate_degree[h] = HighCountOf(r, h, AllEdges \ ToCome(r))
    BY <1>1, <2>3 DEF Sums, HighTaken
  <2>6. ToCome(r) = Unread
    BY <1>1, <2>1, InItsTurn
  <2>7. HighEdgesNow(r) \in SUBSET AllEdges
    BY <1>2, <2>1 DEF HighEdgesTo
  <2>8. IsFiniteSet(HighEdgesNow(r)) /\ HighEdgesNow(r) \subseteq EdgeType
    BY <1>2, <2>7, FS_Subset
  <2>9. /\ PlaceAmong(e, HighEdgesNow(r)) \in Nat
        /\ PlaceAmong(e, HighEdgesNow(r)) < CountOf(e.source, HighEdgesNow(r))
    BY <2>8, PlaceBelow
  <2>10. /\ CountOf(e.source, HighEdgesNow(r)) \in Nat /\ HighCountOf(r, h, Round) \in Nat
         /\ CountOf(e.source, HighEdgesNow(r)) <= HighCountOf(r, h, Round)
    <3>1. {f \in HighEdgesNow(r) : f.source = e.source}
            \in SUBSET {f \in HighEdgesNow(r) : HubNumber(f.source) = h}
      BY <2>2
    <3>2. {f \in HighEdgesNow(r) : HubNumber(f.source) = h} \in SUBSET HighEdgesNow(r)
      OBVIOUS
    <3>3. IsFiniteSet({f \in HighEdgesNow(r) : HubNumber(f.source) = h})
      BY <2>8, <3>2, FS_Subset
    <3>4. /\ IsFiniteSet({f \in HighEdgesNow(r) : f.source = e.source})
          /\ Cardinality({f \in HighEdgesNow(r) : f.source = e.source})
               <= Cardinality({f \in HighEdgesNow(r) : HubNumber(f.source) = h})
      BY <3>1, <3>3, FS_Subset
    <3> QED
      BY <2>1, <3>3, <3>4, FS_CardinalityType DEF CountOf, HighCountOf
  <2>11. /\ HighCountOf(r, h, Unread) \in Nat
         /\ HighCountOf(r, h, Round) <= HighCountOf(r, h, Unread)
    <3>1. Unread \in SUBSET AllEdges /\ Round \in SUBSET Unread
      BY <1>2
    <3>2. \A q, g : /\ HighCountOf(q, g, Round) \in Nat /\ HighCountOf(q, g, Unread \ Round) \in Nat
                    /\ HighCountOf(q, g, Unread)
                         = HighCountOf(q, g, Unread \ Round) + HighCountOf(q, g, Round)
      BY <1>2, <3>1, HighRestCounts
    <3> QED
      BY <3>2
  <2>12. /\ HighCountOf(r, h, AllEdges \ Unread) \in Nat
         /\ HighCountOf(r, h, AllEdges)
              = HighCountOf(r, h, AllEdges \ Unread) + HighCountOf(r, h, Unread)
    <3>1. AllEdges \in SUBSET AllEdges /\ Unread \in SUBSET AllEdges
      BY <1>2
    <3>2. PICK A, U : A = AllEdges /\ U = Unread
      OBVIOUS
    <3>3. A \in SUBSET A /\ U \in SUBSET A /\ IsFiniteSet(A)
      BY <1>2, <3>1, <3>2
    <3>4. \A q, g : /\ HighCountOf(q, g, A \ U) \in Nat
                    /\ HighCountOf(q, g, A) = HighCountOf(q, g, A \ U) + HighCountOf(q, g, U)
      BY <3>3, HighRestCounts
    <3> QED
      BY <3>2, <3>4
  <2>13. HighSlot(r, e) = local[r].delegate_info[h] + local[r].delegate_degree[h]
                            + PlaceAmong(e, HighEdgesNow(r))
    BY <2>2 DEF HighSlot
  <2>14. HighSlot(r, e) < local[r].delegate_info[h + 1]
    BY <2>4, <2>5, <2>6, <2>9, <2>10, <2>11, <2>12, <2>13
  <2> QED
    BY <2>2, <2>14
<1> QED
  BY <1>3 DEF HighFits

-----------------------------------------------------------------------------
\* In every pass the free slots of a vertex or a hub are as many as the edges
\* that are still to come for it: what count_edge_degrees and
\* count_high_degree_edges added up in any order fits what partition_low_degree
\* and partition_high_degree store, edge for edge.
THEOREM SlotsFitTheEdges == Spec => []RoomForTheRest
<1>1. Init => ConstructionInv
  BY Start
<1>2. ConstructionInv /\ [Next]_vars => ConstructionInv'
  BY EveryStepKeeps
<1>3. ConstructionInv => RoomForTheRest
  BY SumsGiveRoom
<1> QED
  BY <1>1, <1>2, <1>3, PTL DEF Spec

\* The assertions of the partition phases hold, whatever the files, the chunks
\* and the passes: no edge comes to a vertex or a hub whose slots are taken.
THEOREM PartitionNeverAborts ==
  Spec => [](phase \in {"partition_low_degree", "partition_high_degree"} => ~AssertionFails)
<1>1. Init => ConstructionInv
  BY Start
<1>2. ConstructionInv /\ [Next]_vars => ConstructionInv'
  BY EveryStepKeeps
<1>3. ConstructionInv =>
        (phase \in {"partition_low_degree", "partition_high_degree"} => ~AssertionFails)
  <2>1. CASE phase = "partition_low_degree"
    BY <2>1, LowEdgesFit DEF AssertionFails
  <2>2. CASE phase = "partition_high_degree"
    BY <2>2, HighEdgesFit DEF AssertionFails
  <2> QED
    BY <2>1, <2>2
<1> QED
  BY <1>1, <1>2, <1>3, PTL DEF Spec
=============================================================================
