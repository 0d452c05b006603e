--------------------------- MODULE YgmJob_proofs ---------------------------
(***************************************************************************)
(* Proofs about a job on include/ygm, on every machine.  First its         *)
(* mailboxes: hops stay in their groups whatever the shape, an invariant   *)
(* orders the exchanges and hands sums of 0 on through them, and so a      *)
(* mailbox is destroyed only when no message is left anywhere.  Then the   *)
(* start-up, and the job that is made of both.  Last the routes: the hops  *)
(* under way share out the ranks that still have to get the message.       *)
(***************************************************************************)
EXTENDS YgmJob, MailboxRoutes, FiniteSets, FiniteSetsExt, FiniteSetTheorems, WellFoundedInduction, TLAPS

\* A set of numbers has a least member.
LEMMA Least ==
  ASSUME NEW T, T \subseteq Nat, T # {}
  PROVE  \E n \in T : \A m \in T : n <= m
<1> DEFINE Before == OpToRel(<, Nat)
<1>1. IsWellFoundedOn(Before, Nat)
  BY NatLessThanWellFounded
<1>2. \A m, n \in Nat : <<m, n>> \in Before <=> m < n
  BY DEF OpToRel
<1> HIDE DEF Before
<1>3. PICK n \in T : \A m \in T : ~(<<m, n>> \in Before)
  BY <1>1, WFMin
<1>4. \A m \in T : ~(m < n)
  BY <1>2, <1>3, Zenon
<1>5. \A m \in T : m \in Nat /\ n \in Nat
  OBVIOUS
<1> QED
  BY <1>4, <1>5

-----------------------------------------------------------------------------
(* Sums over a set.                                                        *)

Member(s) == CHOOSE x \in s : TRUE

\* Members are taken away one after the other until none is left.
LEMMA OneByOne ==
  ASSUME NEW S, IsFiniteSet(S), NEW P, {} \in P,
         \A s \in SUBSET S : s # {} /\ s \ {Member(s)} \in P => s \in P
  PROVE  SUBSET S \subseteq P
<1> DEFINE Bad == {n \in Nat : \E s \in SUBSET S : Cardinality(s) = n /\ s \notin P}
<1> SUFFICES ASSUME NEW x \in SUBSET S, x \notin P PROVE FALSE
  OBVIOUS
<1>1. \A s \in SUBSET S : IsFiniteSet(s) /\ Cardinality(s) \in Nat
  BY FS_Subset, FS_CardinalityType
<1>2. PICK n \in Bad : \A m \in Bad : n <= m
  <2>1. Bad \subseteq Nat /\ Bad # {}
    BY <1>1
  <2> HIDE DEF Bad
  <2> QED
    BY <2>1, Least
<1>3. PICK s \in SUBSET S : Cardinality(s) = n /\ s \notin P
  OBVIOUS
<1>4. Member(s) \in s
  BY <1>3 DEF Member
<1>5. s \ {Member(s)} \in SUBSET S /\ Cardinality(s \ {Member(s)}) = n - 1 /\ n - 1 \in Nat
  <2>1. IsFiniteSet(s)
    BY <1>1
  <2>2. Cardinality(s \ {Member(s)}) = Cardinality(s) - 1
    BY <1>4, <2>1, FS_RemoveElement
  <2>3. s \ {Member(s)} \in SUBSET S
    OBVIOUS
  <2> QED
    BY <1>1, <1>3, <2>2, <2>3
<1>6. ~(n <= n - 1)
  BY <1>5
<1>7. s \ {Member(s)} \in P
  BY <1>2, <1>5, <1>6
<1> QED
  BY <1>3, <1>4, <1>7

\* g[s] is the sum of F over s.
Sums(g, F, S) ==
  \A s \in SUBSET S : g[s] = IF s = {} THEN 0 ELSE F[Member(s)] + g[s \ {Member(s)}]

\* Every finite set has such sums.
LEMMA SumsExist ==
  ASSUME NEW S, IsFiniteSet(S), NEW F
  PROVE  \E g : Sums(g, F, S)
<1> DEFINE Extend(g, s) == IF s = {} THEN 0 ELSE F[Member(s)] + g[s \ {Member(s)}]
           Good(n) == \E g : \A s \in SUBSET S : Cardinality(s) <= n => g[s] = Extend(g, s)
           Bad == {n \in Nat : ~Good(n)}
<1>0. \A s \in SUBSET S : IsFiniteSet(s) /\ Cardinality(s) \in Nat /\ (Cardinality(s) = 0 <=> s = {})
  BY FS_Subset, FS_CardinalityType, FS_EmptySet
<1>1. \A s \in SUBSET S : s # {} =>
        s \ {Member(s)} \in SUBSET S /\ Cardinality(s \ {Member(s)}) = Cardinality(s) - 1
  <2> SUFFICES ASSUME NEW s \in SUBSET S, s # {}
               PROVE  Cardinality(s \ {Member(s)}) = Cardinality(s) - 1
    OBVIOUS
  <2>1. Member(s) \in s
    BY DEF Member
  <2> QED
    BY <1>0, <2>1, FS_RemoveElement
<1>2. Good(0)
  <2> DEFINE g == [s \in SUBSET S |-> 0]
  <2>1. \A s \in SUBSET S : Cardinality(s) <= 0 => g[s] = Extend(g, s)
    BY <1>0
  <2> QED
    BY <2>1
<1>3. ASSUME NEW n \in Nat, Good(n) PROVE Good(n + 1)
  <2>1. PICK g : \A s \in SUBSET S : Cardinality(s) <= n => g[s] = Extend(g, s)
    BY <1>3
  <2> DEFINE h == [s \in SUBSET S |-> Extend(g, s)]
  <2>2. \A s \in SUBSET S : h[s] = Extend(g, s)
    OBVIOUS
  <2> HIDE DEF h
  <2>3. ASSUME NEW s \in SUBSET S, Cardinality(s) <= n + 1 PROVE h[s] = Extend(h, s)
    <3>1. CASE s = {}
      BY <2>2, <3>1
    <3>2. CASE s # {}
      <4>1. s \ {Member(s)} \in SUBSET S /\ Cardinality(s \ {Member(s)}) <= n
        BY <1>0, <1>1, <2>3, <3>2
      <4>2. h[s \ {Member(s)}] = g[s \ {Member(s)}]
        BY <2>1, <2>2, <4>1
      <4> QED
        BY <2>2, <3>2, <4>2
    <3> QED
      BY <3>1, <3>2
  <2> QED
    BY <2>3
<1>4. Good(Cardinality(S))
  <2> SUFFICES ASSUME ~Good(Cardinality(S)) PROVE FALSE
    OBVIOUS
  <2>1. Bad # {} /\ Bad \subseteq Nat
    BY <1>0
  <2>2. PICK n \in Bad : \A m \in Bad : n <= m
    <3> HIDE DEF Bad
    <3> QED
      BY <2>1, Least
  <2> HIDE DEF Good
  <2>3. n # 0 /\ n \in Nat /\ ~Good(n)
    BY <1>2
  <2>4. n - 1 \in Nat /\ ~(n <= n - 1) /\ n = (n - 1) + 1
    BY <2>3
  <2>5. Good(n - 1)
    BY <2>2, <2>4
  <2> QED
    BY <1>3, <2>3, <2>4, <2>5
<1>5. \A s \in SUBSET S : Cardinality(s) <= Cardinality(S)
  BY FS_Subset
<1> QED
  BY <1>4, <1>5 DEF Sums

\* The library's sum is one of these.
LEMMA SumOnSet ==
  ASSUME NEW S, IsFiniteSet(S), NEW F
  PROVE  \E g : Sums(g, F, S) /\ SumFunctionOnSet(F, S) = g[S]
<1> DEFINE Fits(g) ==
      g = [s \in SUBSET S |-> IF s = {} THEN 0
                              ELSE LET x == CHOOSE x \in s : TRUE IN F[x] + g[s \ {x}]]
<1>1. PICK h : Sums(h, F, S)
  BY SumsExist
<1> DEFINE g == [s \in SUBSET S |-> h[s]]
<1>2. Fits(g)
  <2>1. \A s \in SUBSET S : s \ {Member(s)} \in SUBSET S
    OBVIOUS
  <2>2. \A s \in SUBSET S : h[s] = IF s = {} THEN 0 ELSE F[Member(s)] + g[s \ {Member(s)}]
    BY <1>1, <2>1 DEF Sums
  <2> QED
    BY <2>2 DEF Member
<1>3. SumFunctionOnSet(F, S) = (CHOOSE f : Fits(f))[S]
  BY DEF SumFunctionOnSet, FoldFunctionOnSet, MapThenFoldSet
<1> HIDE DEF g
<1>4. PICK f : Fits(f) /\ SumFunctionOnSet(F, S) = f[S]
  <2> HIDE DEF Fits
  <2> QED
    BY <1>2, <1>3
<1>5. Sums(f, F, S)
  BY <1>4 DEF Sums, Member
<1> QED
  BY <1>4, <1>5

\* A sum of numbers is a number, at least each of them, and 0 if all are 0.
LEMMA SumFacts ==
  ASSUME NEW S, IsFiniteSet(S), NEW F, \A x \in S : F[x] \in Nat
  PROVE  /\ SumFunctionOnSet(F, S) \in Nat
         /\ \A x \in S : F[x] <= SumFunctionOnSet(F, S)
         /\ (\A x \in S : F[x] = 0) => SumFunctionOnSet(F, S) = 0
<1>1. PICK g : Sums(g, F, S) /\ SumFunctionOnSet(F, S) = g[S]
  BY SumOnSet
<1> DEFINE P == {s \in SUBSET S : /\ g[s] \in Nat /\ \A x \in s : F[x] <= g[s]
                                  /\ (\A x \in S : F[x] = 0) => g[s] = 0}
<1>2. {} \in P
  <2>1. {} \in SUBSET S /\ g[{}] = 0
    BY <1>1 DEF Sums
  <2> QED
    BY <2>1
<1>3. ASSUME NEW s \in SUBSET S, s # {}, s \ {Member(s)} \in P PROVE s \in P
  <2>1. g[s] = F[Member(s)] + g[s \ {Member(s)}]
    BY <1>1, <1>3 DEF Sums
  <2>2. Member(s) \in s /\ F[Member(s)] \in Nat
    BY <1>3 DEF Member
  <2>3. \A x \in s : x = Member(s) \/ x \in s \ {Member(s)}
    OBVIOUS
  <2>4. g[s \ {Member(s)}] \in Nat /\ \A x \in s \ {Member(s)} : F[x] <= g[s \ {Member(s)}]
    BY <1>3
  <2>5. g[s] \in Nat /\ F[Member(s)] <= g[s] /\ g[s \ {Member(s)}] <= g[s]
    BY <2>1, <2>2, <2>4
  <2>6. \A x \in s : F[x] \in Nat
    OBVIOUS
  <2>7. \A x \in s : F[x] <= g[s]
    BY <2>3, <2>4, <2>5, <2>6
  <2>8. (\A x \in S : F[x] = 0) => g[s] = 0
    BY <1>3, <2>1, <2>2
  <2> QED
    BY <2>5, <2>7, <2>8
<1> HIDE DEF P
<1>4. SUBSET S \subseteq P
  BY <1>2, <1>3, OneByOne
<1> QED
  BY <1>1, <1>4 DEF P

-----------------------------------------------------------------------------
(* Ranks, nodes and cores.                                                 *)

\* A number is its quotient and its rest.
LEMMA Division ==
  ASSUME NEW c \in Nat \ {0}, NEW x \in Nat
  PROVE  x \div c \in Nat /\ x % c \in 0..(c - 1) /\ x = (x \div c) * c + (x % c)
OBVIOUS

\* Multiplication keeps an order.
LEMMA Multiples ==
  ASSUME NEW a \in Nat, NEW b \in Nat, NEW c \in Nat, a <= b
  PROVE  a * c <= b * c
<1>1. b = a + (b - a) /\ b - a \in Nat
  OBVIOUS
<1>2. (a + (b - a)) * c = a * c + (b - a) * c /\ (b - a) * c \in Nat /\ a * c \in Nat
  BY <1>1
<1> QED
  BY <1>1, <1>2

\* Rank numbers are read back as they are composed (rank = node * cores + core).
LEMMA Quotient ==
  ASSUME NEW c \in Nat \ {0}, NEW a \in Nat, NEW b \in 0..(c - 1)
  PROVE  (a * c + b) \div c = a /\ (a * c + b) % c = b
<1>1. a * c \in Nat
  OBVIOUS
<1>2. a * c + b \in Nat
  BY <1>1
<1> DEFINE x == a * c + b
           d == x \div c
           e == x % c
<1>3. d \in Nat /\ e \in 0..(c - 1) /\ x = d * c + e
  BY <1>2, Division
<1> HIDE DEF d, e
<1>4. ~(d < a)
  <2> SUFFICES ASSUME d < a PROVE FALSE
    OBVIOUS
  <2>1. (d + 1) * c <= a * c
    BY <1>3
  <2>2. (d + 1) * c = d * c + c /\ d * c \in Nat
    BY <1>3
  <2> QED
    BY <1>1, <1>3, <2>1, <2>2
<1>5. ~(a < d)
  <2> SUFFICES ASSUME a < d PROVE FALSE
    OBVIOUS
  <2>1. (a + 1) * c <= d * c
    BY <1>3
  <2>2. (a + 1) * c = a * c + c /\ d * c \in Nat
    BY <1>3
  <2> QED
    BY <1>1, <1>3, <2>1, <2>2
<1>6. d = a
  BY <1>3, <1>4, <1>5
<1>7. e = b
  BY <1>1, <1>3, <1>6
<1> QED
  BY <1>6, <1>7 DEF d, e

\* A machine has nodes and cores.
LEMMA Shape == Nodes \in Nat \ {0} /\ Cores \in Nat \ {0} /\ Nodes * Cores \in Nat
BY ShapeAssumption

\* Ranks are finitely many numbers, each with its node, its core and its layer.
LEMMA RankFacts ==
  /\ Rank \subseteq Nat /\ IsFiniteSet(Rank)
  /\ \A r \in Rank : /\ Node(r) \in 0..(Nodes - 1) /\ Core(r) \in 0..(Cores - 1)
                     /\ Layer(r) \in 0..(Cores - 1) /\ r = Node(r) * Cores + Core(r)
<1>1. Rank \subseteq Nat /\ IsFiniteSet(Rank)
  BY Shape, FS_Interval DEF Rank
<1>2. ASSUME NEW r \in Rank
      PROVE  /\ Node(r) \in 0..(Nodes - 1) /\ Core(r) \in 0..(Cores - 1)
             /\ Layer(r) \in 0..(Cores - 1) /\ r = Node(r) * Cores + Core(r)
  <2>1. r \in Nat /\ r < Nodes * Cores
    BY Shape DEF Rank
  <2>2. Node(r) \in Nat /\ Core(r) \in 0..(Cores - 1) /\ r = Node(r) * Cores + Core(r)
    BY <2>1, Shape, Division DEF Node, Core
  <2>3. Node(r) < Nodes
    <3> SUFFICES ASSUME Nodes <= Node(r) PROVE FALSE
      BY <2>2, Shape
    <3>1. Nodes * Cores <= Node(r) * Cores
      BY <2>2, Shape
    <3>2. Node(r) * Cores \in Nat
      BY <2>2, Shape
    <3> QED
      BY <2>1, <2>2, <3>1, <3>2, Shape
  <2>4. Layer(r) \in 0..(Cores - 1)
    BY <2>2, Shape, Division DEF Layer
  <2> QED
    BY <2>2, <2>3, <2>4, Shape
<1> QED
  BY <1>1, <1>2

\* Every core of every node has a rank.
LEMMA RankAt ==
  ASSUME NEW n \in 0..(Nodes - 1), NEW c \in 0..(Cores - 1)
  PROVE  /\ n * Cores + c \in Rank
         /\ Node(n * Cores + c) = n /\ Core(n * Cores + c) = c
<1>1. n \in Nat /\ c \in Nat /\ n + 1 <= Nodes
  BY Shape
<1>2. n * Cores \in Nat /\ (n + 1) * Cores = n * Cores + Cores
  BY <1>1, Shape
<1>3. (n + 1) * Cores <= Nodes * Cores
  BY <1>1, Shape
<1>4. n * Cores + c < Nodes * Cores
  BY <1>1, <1>2, <1>3, Shape
<1>5. n * Cores + c \in Rank
  BY <1>1, <1>2, <1>4, Shape DEF Rank
<1> QED
  BY <1>1, <1>5, Shape, Quotient DEF Node, Core

-----------------------------------------------------------------------------
(* Finite sets of ranks.                                                   *)

\* A function has finitely many values on a finite set.
LEMMA ImageIsFinite ==
  ASSUME NEW S, IsFiniteSet(S), NEW f
  PROVE  IsFiniteSet({f[x] : x \in S})
<1> DEFINE T == {f[x] : x \in S}
           g == [x \in S |-> f[x]]
<1>1. g \in Surjection(S, T)
  BY DEF Surjection
<1> HIDE DEF g, T
<1>2. IsFiniteSet(T)
  BY <1>1, FS_Surjection
<1> QED
  BY <1>2 DEF T

\* Each number below the size of a set of numbers is the place of a member.
LEMMA NthExists ==
  ASSUME NEW S, S \subseteq Nat, IsFiniteSet(S), NEW i \in Nat, i < Cardinality(S)
  PROVE  \E q \in S : RankIn(S, q) = i
<1> DEFINE Has(j) == \E q \in S : RankIn(S, q) = j
           Bad == {j \in Nat : j < Cardinality(S) /\ ~Has(j)}
<1>0. Cardinality(S) \in Nat
  BY FS_CardinalityType
<1> SUFFICES ASSUME Bad # {} PROVE FALSE
  OBVIOUS
<1>1. PICK j \in Bad : \A k \in Bad : j <= k
  <2>1. Bad \subseteq Nat
    OBVIOUS
  <2> HIDE DEF Bad
  <2> QED
    BY <2>1, Least
<1>2. j \in Nat /\ j < Cardinality(S) /\ ~Has(j)
  OBVIOUS
<1>3. PICK T : T \subseteq S /\ T # {} /\ \A q \in T : (\A p \in T : q <= p) => RankIn(S, q) = j
  <2>1. CASE j = 0
    <3>1. S # {}
      BY <2>1, <1>2, FS_EmptySet
    <3>2. ASSUME NEW q \in S, \A p \in S : q <= p PROVE RankIn(S, q) = 0
      <4>1. \A p \in S : p \in Nat /\ q \in Nat /\ q <= p
        BY <3>2
      <4>3. \A p \in S : ~(p < q)
        BY <4>1
      <4>2. {p \in S : p < q} = {}
        BY <4>3
      <4> QED
        BY <4>2, FS_EmptySet DEF RankIn
    <3> QED
      BY <3>1, <3>2, <2>1
  <2>2. CASE j # 0
    <3>1. j - 1 \in Nat /\ j - 1 < Cardinality(S) /\ ~(j <= j - 1)
      BY <2>2, <1>0, <1>2
    <3>2. PICK q \in S : RankIn(S, q) = j - 1
      BY <3>1, <1>1
    <3> DEFINE Low == {p \in S : p < q}
               T == {p \in S : p > q}
    <3>3. IsFiniteSet(Low) /\ Cardinality(Low) = j - 1
      BY <3>2, FS_Subset DEF RankIn
    <3>4. IsFiniteSet(Low \cup {q}) /\ Cardinality(Low \cup {q}) = j
      <4>1. q \notin Low
        OBVIOUS
      <4>2. Cardinality(Low \cup {q}) = Cardinality(Low) + 1 /\ IsFiniteSet(Low \cup {q})
        BY <3>3, <4>1, FS_AddElement
      <4> QED
        BY <4>2, <3>3, <1>2
    <3>0. \A p \in S : p \in Nat
      OBVIOUS
    <3>5. T # {}
      <4> SUFFICES ASSUME T = {} PROVE FALSE
        OBVIOUS
      <4>1. \A p \in S : p < q \/ p = q
        BY <3>0
      <4>2. S = Low \cup {q}
        BY <4>1
      <4> QED
        BY <4>2, <3>4, <1>2
    <3>6. ASSUME NEW t \in T, \A p \in T : t <= p PROVE RankIn(S, t) = j
      <4>1. t \in Nat /\ q \in Nat /\ t > q
        BY <3>0
      <4>2. \A p \in S : p > q => t <= p
        BY <3>6
      <4>3. \A p \in S : p < t <=> (p < q \/ p = q)
        BY <4>1, <4>2, <3>0
      <4>4. {p \in S : p < t} = Low \cup {q}
        BY <4>3
      <4> QED
        BY <4>4, <3>4 DEF RankIn
    <3>7. T \subseteq S
      OBVIOUS
    <3> HIDE DEF T
    <3> QED
      BY <3>5, <3>6, <3>7
  <2> QED
    BY <2>1, <2>2
<1>4. PICK q \in T : \A p \in T : q <= p
  <2>1. T \subseteq Nat
    BY <1>3
  <2> QED
    BY <1>3, <2>1, Least
<1> QED
  BY <1>2, <1>3, <1>4

\* A set with i + 1 different members has more than i.
LEMMA Enough ==
  ASSUME NEW S, IsFiniteSet(S), NEW i \in Nat, NEW f,
         \A j \in 0..i : f[j] \in S,
         \A j, k \in 0..i : f[j] = f[k] => j = k
  PROVE  i < Cardinality(S)
<1> DEFINE g == [j \in 0..i |-> f[j]]
           I == 0..i
<1>1. g \in Injection(I, S)
  BY DEF Injection, IsInjective
<1>2. Cardinality(I) = i + 1
  BY FS_Interval
<1> HIDE DEF g, I
<1>3. Cardinality(I) <= Cardinality(S) /\ Cardinality(S) \in Nat
  BY <1>1, FS_Injection, FS_CardinalityType
<1> QED
  BY <1>2, <1>3

\* Where a hop goes.
LEMMA HopGoes ==
  ASSUME NEW comm, comm \subseteq Rank, NEW i \in Nat, i < Cardinality(comm), NEW s, NEW msg
  PROVE  \E q \in comm : /\ RankIn(comm, q) = i
                         /\ Hop(comm, s, i, msg) = [stage |-> s, msg |-> msg, to |-> q]
<1>1. comm \subseteq Nat /\ IsFiniteSet(comm)
  BY RankFacts, FS_Subset
<1>2. \E q \in comm : RankIn(comm, q) = i
  BY <1>1, NthExists
<1> DEFINE q == CHOOSE q \in comm : RankIn(comm, q) = i
<1>3. q \in comm /\ RankIn(comm, q) = i
  BY <1>2
<1>4. Hop(comm, s, i, msg) = [stage |-> s, msg |-> msg, to |-> q]
  BY DEF Hop
<1> HIDE DEF q
<1> QED
  BY <1>3, <1>4

-----------------------------------------------------------------------------
(* The groups that exchange.                                               *)

\* A rank belongs to the group it exchanges with, and its members to each other's.
LEMMA GroupType ==
  ASSUME NEW k \in Kinds, NEW s \in 1..Last(k), NEW r \in Rank
  PROVE  /\ Group(k, s, r) \subseteq Rank /\ IsFiniteSet(Group(k, s, r))
         /\ r \in Group(k, s, r)
         /\ \A q \in Group(k, s, r) : r \in Group(k, s, q)
<1>1. Group(k, s, r) \in {Rank, Nl[r], Nr[r], Nlnr[r]}
  BY DEF Kinds, Group, NlnrGroup, TwoStageGroup
<1>2. /\ \A x \in {Rank, Nl[r], Nr[r], Nlnr[r]} : x \subseteq Rank /\ r \in x
  BY DEF Nl, Nr, Nlnr
<1>3. Group(k, s, r) \subseteq Rank /\ IsFiniteSet(Group(k, s, r)) /\ r \in Group(k, s, r)
  BY <1>1, <1>2, RankFacts, FS_Subset
<1>4. ASSUME NEW q \in Group(k, s, r) PROVE r \in Group(k, s, q)
  <2>1. q \in Rank
    BY <1>3
  <2> QED
    BY <1>4, <2>1 DEF Kinds, Group, NlnrGroup, TwoStageGroup, Nl, Nr, Nlnr
<1> QED
  BY <1>3, <1>4

\* From the last stage back to the first, groups lead from a rank to all ranks.
Leads(k, r, x, y, q) ==
  /\ IF Last(k) = 3 THEN x \in Group(k, 3, r) ELSE x = r
  /\ IF Last(k) >= 2 THEN y \in Group(k, 2, x) ELSE y = x
  /\ q \in Group(k, 1, y)

\* One exchange after the other, everybody is reached: from r over a group of the
\* first stage, one of the second and one of the third to each q.
LEMMA GroupsLead ==
  ASSUME NEW k \in Kinds, NEW r \in Rank, NEW q \in Rank
  PROVE  \E x, y \in Rank : Leads(k, r, x, y, q)
<1>0. /\ \A z \in Rank : Node(z) \in 0..(Nodes - 1) /\ Core(z) \in 0..(Cores - 1) /\ Layer(z) \in 0..(Cores - 1)
  BY RankFacts
<1>1. CASE k = "nlnr"
  <2>1. PICK x \in Rank : Node(x) = Node(r) /\ Core(x) = Layer(q)
    BY <1>0, RankAt
  <2>2. PICK y \in Rank : Node(y) = Node(q) /\ Core(y) = Layer(r)
    BY <1>0, RankAt
  <2>3. Layer(x) = Layer(r) /\ Layer(y) = Layer(q)
    BY <2>1, <2>2 DEF Layer
  <2>4. Color(x) = Color(y)
    BY <2>1, <2>2, <2>3 DEF Color
  <2>5. x \in Group(k, 3, r) /\ y \in Group(k, 2, x) /\ q \in Group(k, 1, y) /\ Last(k) = 3
    BY <1>1, <2>1, <2>2, <2>4 DEF Group, NlnrGroup, Remote, Nl, Nlnr, Last
  <2> QED
    BY <2>5 DEF Leads
<1>2. CASE k = "noroute"
  <2>1. Last(k) = 1 /\ q \in Group(k, 1, r)
    BY <1>2 DEF Last, Group
  <2> QED
    BY <2>1 DEF Leads
<1>3. CASE k = "nlroute"
  <2>1. PICK y \in Rank : Node(y) = Node(q) /\ Core(y) = Core(r)
    BY <1>0, RankAt
  <2>2. Last(k) = 2 /\ y \in Group(k, 2, r) /\ q \in Group(k, 1, y)
    BY <1>3, <2>1 DEF Last, Group, TwoStageGroup, Local, Nl, Nr
  <2> QED
    BY <2>2 DEF Leads
<1>4. CASE k = "nrroute"
  <2>1. PICK y \in Rank : Node(y) = Node(r) /\ Core(y) = Core(q)
    BY <1>0, RankAt
  <2>2. Last(k) = 2 /\ y \in Group(k, 2, r) /\ q \in Group(k, 1, y)
    BY <1>4, <2>1 DEF Last, Group, TwoStageGroup, Local, Nl, Nr
  <2> QED
    BY <2>2 DEF Leads
<1> QED
  BY <1>1, <1>2, <1>3, <1>4 DEF Kinds

\* A node's communicator has its cores, in order.
LEMMA NlFacts ==
  ASSUME NEW r \in Rank
  PROVE  /\ \A c \in 0..(Cores - 1) : c < Cardinality(Nl[r])
         /\ \A q \in Nl[r] : RankIn(Nl[r], q) = Core(q)
<1> DEFINE n == Node(r)
<1>1. n \in 0..(Nodes - 1) /\ n * Cores \in Nat
  BY RankFacts, Shape
<1>2. Nl[r] \subseteq Rank /\ IsFiniteSet(Nl[r])
  BY RankFacts, FS_Subset DEF Nl
<1>3. ASSUME NEW c \in 0..(Cores - 1) PROVE c < Cardinality(Nl[r])
  <2> DEFINE f == [j \in 0..c |-> n * Cores + j]
  <2>1. c \in Nat /\ \A j \in 0..c : j \in 0..(Cores - 1)
    BY Shape
  <2>2. \A j \in 0..c : f[j] \in Nl[r]
    BY <1>1, <2>1, RankAt DEF Nl
  <2>3. \A j, k \in 0..c : f[j] = f[k] => j = k
    BY <1>1, <2>1
  <2> HIDE DEF f
  <2> QED
    BY <1>2, <2>1, <2>2, <2>3, Enough
<1>4. ASSUME NEW q \in Nl[r] PROVE RankIn(Nl[r], q) = Core(q)
  <2> DEFINE a == n * Cores
             c == Core(q)
  <2>1. q \in Rank /\ Node(q) = n /\ c \in 0..(Cores - 1) /\ q = a + c
    BY <1>4, RankFacts DEF Nl
  <2>2. ASSUME NEW p \in Nl[r], p < q PROVE p \in a..(q - 1)
    <3>1. p \in Rank /\ Node(p) = n /\ Core(p) \in 0..(Cores - 1) /\ p = a + Core(p)
      BY <2>2, RankFacts DEF Nl
    <3> QED
      BY <1>1, <2>1, <2>2, <3>1, Shape
  <2>3. ASSUME NEW p \in a..(q - 1) PROVE p \in Nl[r] /\ p < q
    <3> DEFINE j == p - a
    <3>1. j \in 0..(Cores - 1) /\ p = a + j /\ p < q
      BY <1>1, <2>1, Shape
    <3> HIDE DEF j
    <3>2. a + j \in Rank /\ Node(a + j) = n
      BY <1>1, <3>1, RankAt
    <3> QED
      BY <3>1, <3>2 DEF Nl
  <2>4. {p \in Nl[r] : p < q} = a..(q - 1)
    <3>1. {p \in Nl[r] : p < q} \subseteq a..(q - 1)
      BY <2>2
    <3>2. a..(q - 1) \subseteq {p \in Nl[r] : p < q}
      BY <2>3
    <3> QED
      BY <3>1, <3>2
  <2>5. a \in Int /\ q - 1 \in Int /\ (IF a > q - 1 THEN 0 ELSE (q - 1) - a + 1) = c
    BY <1>1, <2>1, Shape
  <2> HIDE DEF a, c
  <2>6. Cardinality(a..(q - 1)) = c
    BY <2>5, FS_Interval
  <2> QED
    BY <2>4, <2>6 DEF RankIn, c
<1> QED
  BY <1>3, <1>4

\* The communicator of a core has all nodes.
LEMMA NrFacts ==
  ASSUME NEW r \in Rank, NEW n \in 0..(Nodes - 1)
  PROVE  n < Cardinality(Nr[r])
<1> DEFINE c == Core(r)
           f == [j \in 0..n |-> j * Cores + c]
<1>1. c \in 0..(Cores - 1) /\ n \in Nat /\ \A j \in 0..n : j \in 0..(Nodes - 1)
  BY RankFacts, Shape
<1>2. \A j \in 0..n : f[j] \in Rank /\ Core(f[j]) = c /\ Node(f[j]) = j
  BY <1>1, RankAt
<1> HIDE DEF f
<1>3. \A j \in 0..n : f[j] \in Nr[r]
  BY <1>2 DEF Nr
<1>4. \A j, k \in 0..n : f[j] = f[k] => j = k
  BY <1>2
<1>5. IsFiniteSet(Nr[r])
  BY RankFacts, FS_Subset DEF Nr
<1> QED
  BY <1>1, <1>3, <1>4, <1>5, Enough

\* Nodes of two layers alternate in the communicator of a door between them; its
\* member j is on the node after j that belong to these layers.
Door(low, high, j) ==
  ((j \div 2) * Cores + (IF j % 2 = 0 THEN low ELSE high)) * Cores
    + (IF j % 2 = 0 THEN high ELSE low)

Doors(low, high, i) ==
  /\ \A j \in 0..i : Door(low, high, j) \in Rank
  /\ \A j \in 0..i : {Core(Door(low, high, j)), Layer(Door(low, high, j))} = {low, high}
  /\ \A j, k \in 0..i : Door(low, high, j) = Door(low, high, k) => j = k

\* The nlnr communicator of a layer has a member for each group of nodes at each end.
LEMMA DoorFacts ==
  ASSUME NEW low \in 0..(Cores - 1), NEW high \in 0..(Cores - 1), low < high,
         NEW g \in Nat, NEW i \in Nat,
         \/ i = 2 * g /\ g * Cores + low < Nodes
         \/ i = 2 * g + 1 /\ g * Cores + high < Nodes
  PROVE  Doors(low, high, i)
<1> DEFINE l(j) == IF j % 2 = 0 THEN low ELSE high
           c(j) == IF j % 2 = 0 THEN high ELSE low
           n(j) == (j \div 2) * Cores + l(j)
<1>0. low \in Nat /\ high \in Nat /\ low < Cores /\ high < Cores
  BY Shape
<1>1. ASSUME NEW j \in 0..i
      PROVE  /\ j \div 2 \in Nat /\ j % 2 \in {0, 1} /\ j = 2 * (j \div 2) + (j % 2)
             /\ n(j) \in 0..(Nodes - 1) /\ n(j) % Cores = l(j) /\ n(j) \div Cores = j \div 2
             /\ l(j) \in 0..(Cores - 1) /\ c(j) \in 0..(Cores - 1)
  <2>1. j \div 2 \in Nat /\ j % 2 \in {0, 1} /\ j = 2 * (j \div 2) + (j % 2)
    OBVIOUS
  <2>2. l(j) \in 0..(Cores - 1) /\ c(j) \in 0..(Cores - 1)
    OBVIOUS
  <2>3. n(j) % Cores = l(j) /\ n(j) \div Cores = j \div 2
    BY <2>1, <2>2, Shape, Quotient
  <2>4. (j \div 2) * Cores \in Nat /\ g * Cores \in Nat
    BY <2>1, Shape
  <2>5. n(j) < Nodes
    <3>1. CASE j \div 2 < g
      <4>1. (j \div 2 + 1) * Cores <= g * Cores
        BY <2>1, <3>1, Shape
      <4>2. (j \div 2 + 1) * Cores = (j \div 2) * Cores + Cores
        BY <2>1, Shape
      <4>3. g * Cores < Nodes
        BY <2>4, <1>0, Shape
      <4> QED
        BY <4>1, <4>2, <4>3, <2>2, <2>4, <1>0, Shape
    <3>2. CASE j \div 2 = g
      BY <3>2, <2>1, <2>4, <1>0, Shape
    <3>3. j \div 2 <= g
      BY <2>1
    <3> QED
      BY <3>1, <3>2, <3>3, <2>1
  <2>6. n(j) \in Nat
    BY <2>4, <1>0
  <2> QED
    BY <2>1, <2>2, <2>3, <2>5, <2>6, Shape
<1>2. ASSUME NEW j \in 0..i
      PROVE  /\ Door(low, high, j) = n(j) * Cores + c(j)
             /\ Door(low, high, j) \in Rank
             /\ Node(Door(low, high, j)) = n(j) /\ Core(Door(low, high, j)) = c(j)
             /\ Layer(Door(low, high, j)) = l(j)
  <2>1. Door(low, high, j) = n(j) * Cores + c(j)
    BY DEF Door
  <2> HIDE DEF n, c, l
  <2> QED
    BY <2>1, <1>1, RankAt DEF Layer
<1>3. ASSUME NEW j \in 0..i, NEW k \in 0..i, Door(low, high, j) = Door(low, high, k)
      PROVE  j = k
  <2>1. n(j) = n(k)
    BY <1>2, <1>3
  <2>2. l(j) = l(k) /\ j \div 2 = k \div 2
    BY <1>1, <2>1
  <2>3. j % 2 = k % 2
    BY <2>2, <1>0, <1>1
  <2> QED
    BY <2>2, <2>3, <1>1
<1> QED
  BY <1>2, <1>3 DEF Doors

\* A door leads to every node of its layer.
LEMMA NlnrFacts ==
  ASSUME NEW r \in Rank, NEW dest \in Rank, Core(r) = Layer(dest)
  PROVE  RemoteIndex(r, dest) \in Nat /\ RemoteIndex(r, dest) < Cardinality(Nlnr[r])
<1> DEFINE g == Node(dest) \div Cores
           c == Layer(dest)
           l == Layer(r)
           i == RemoteIndex(r, dest)
<1>1. g \in Nat /\ c \in 0..(Cores - 1) /\ l \in 0..(Cores - 1) /\ Node(dest) = g * Cores + c /\ Node(dest) < Nodes
  <2>1. Node(dest) \in Nat /\ Node(dest) < Nodes /\ c \in 0..(Cores - 1) /\ l \in 0..(Cores - 1)
    BY RankFacts, Shape
  <2>2. g \in Nat /\ Node(dest) = g * Cores + c
    BY <2>1, Shape, Division DEF Layer
  <2> QED
    BY <2>1, <2>2
<1>2. i = IF c = l THEN g ELSE IF c > l THEN 2 * g + 1 ELSE 2 * g
  BY DEF RemoteIndex
<1>3. Color(r) = {c, l} /\ IsFiniteSet(Nlnr[r])
  BY RankFacts, FS_Subset DEF Color, Nlnr
<1> HIDE DEF g, c, l, i
<1>4. i \in Nat
  BY <1>1, <1>2
<1>5. PICK f : /\ \A j \in 0..i : f[j] \in Rank /\ {Core(f[j]), Layer(f[j])} = {c, l}
               /\ \A j, k \in 0..i : f[j] = f[k] => j = k
  <2>1. CASE c = l
    <3> DEFINE n(j) == j * Cores + c
               f == [j \in 0..i |-> n(j) * Cores + c]
    <3>1. ASSUME NEW j \in 0..i PROVE n(j) \in 0..(Nodes - 1) /\ n(j) % Cores = c /\ n(j) \div Cores = j
      <4>1. j \in Nat /\ j <= g /\ j * Cores \in Nat /\ g * Cores \in Nat
        BY <2>1, <1>1, <1>2, Shape
      <4>2. j * Cores <= g * Cores
        BY <4>1, <1>1, Shape, Multiples
      <4> QED
        BY <4>1, <4>2, <1>1, Shape, Quotient
    <3>2. \A j \in 0..i : f[j] = n(j) * Cores + c
      OBVIOUS
    <3> HIDE DEF n, f
    <3>3. \A j \in 0..i : f[j] \in Rank /\ Node(f[j]) = n(j) /\ Core(f[j]) = c
      BY <3>1, <3>2, <1>1, RankAt
    <3>4. \A j \in 0..i : Layer(f[j]) = c
      BY <3>1, <3>3 DEF Layer
    <3>5. \A j, k \in 0..i : f[j] = f[k] => j = k
      BY <3>1, <3>3
    <3> QED
      BY <2>1, <3>3, <3>4, <3>5
  <2>2. CASE c < l
    <3> DEFINE f == [j \in 0..i |-> Door(c, l, j)]
    <3>1. i = 2 * g /\ g * Cores + c < Nodes
      BY <2>2, <1>1, <1>2
    <3>2. Doors(c, l, i)
      BY <3>1, <2>2, <1>1, <1>4, DoorFacts
    <3>3. \A j \in 0..i : f[j] = Door(c, l, j)
      OBVIOUS
    <3> HIDE DEF f
    <3> QED
      BY <3>2, <3>3 DEF Doors
  <2>3. CASE l < c
    <3> DEFINE f == [j \in 0..i |-> Door(l, c, j)]
    <3>1. i = 2 * g + 1 /\ g * Cores + c < Nodes
      BY <2>3, <1>1, <1>2
    <3>2. Doors(l, c, i)
      BY <3>1, <2>3, <1>1, <1>4, DoorFacts
    <3>3. \A j \in 0..i : f[j] = Door(l, c, j)
      OBVIOUS
    <3>4. {l, c} = {c, l}
      OBVIOUS
    <3> HIDE DEF f
    <3> QED
      BY <3>2, <3>3, <3>4 DEF Doors
  <2>4. c \in Nat /\ l \in Nat
    BY <1>1, Shape
  <2> QED
    BY <2>1, <2>2, <2>3, <2>4
<1>6. \A j \in 0..i : f[j] \in Nlnr[r]
  BY <1>3, <1>5 DEF Nlnr, Color
<1>7. i < Cardinality(Nlnr[r])
  BY <1>3, <1>4, <1>5, <1>6, Enough
<1> QED
  BY <1>4, <1>7 DEF i

-----------------------------------------------------------------------------
(* Hops stay among the ranks that exchange.                                *)

\* A message that arrives at q in stage s can be handed on from there.
MsgOK(k, s, q, m) ==
  \/ m.bcast
  \/ k = "noroute"
  \/ /\ k = "nlnr" /\ m.local \in 0..(Cores - 1)
     /\ s = FirstLocal => m.node \in Nat /\ m.node < Cardinality(Nlnr[q])
  \/ /\ k \in {"nlroute", "nrroute"}
     /\ m.local \in 0..(Cores - 1) /\ m.node \in 0..(Nodes - 1)

\* A hop from r.
HopOK(k, r, h) ==
  /\ h = [stage |-> h.stage, msg |-> h.msg, to |-> h.to]
  /\ h.stage \in 1..Last(k) /\ h.to \in Group(k, h.stage, r)
  /\ MsgOK(k, h.stage, h.to, h.msg)

HopsOK(k, r, hops) == IsFiniteSet(hops) /\ \A h \in hops : HopOK(k, r, h)

\* A hop to one of a group, and to several of it.
LEMMA OneHop ==
  ASSUME NEW k \in Kinds, NEW s \in 1..Last(k), NEW r \in Rank,
         NEW i \in Nat, i < Cardinality(Group(k, s, r)), NEW m,
         \A q \in Group(k, s, r) : RankIn(Group(k, s, r), q) = i => MsgOK(k, s, q, m)
  PROVE  HopOK(k, r, Hop(Group(k, s, r), s, i, m)) /\ Hop(Group(k, s, r), s, i, m).stage = s
<1>1. Group(k, s, r) \subseteq Rank
  BY GroupType
<1>2. PICK q \in Group(k, s, r) :
        /\ RankIn(Group(k, s, r), q) = i
        /\ Hop(Group(k, s, r), s, i, m) = [stage |-> s, msg |-> m, to |-> q]
  BY <1>1, HopGoes
<1> QED
  BY <1>2 DEF HopOK

\* Hops of a broadcast to some of a group.
LEMMA SomeHops ==
  ASSUME NEW k \in Kinds, NEW s \in 1..Last(k), NEW r \in Rank, NEW m, m.bcast,
         NEW I, I \subseteq 0..(Cardinality(Group(k, s, r)) - 1)
  PROVE  /\ HopsOK(k, r, {Hop(Group(k, s, r), s, i, m) : i \in I})
         /\ \A h \in {Hop(Group(k, s, r), s, i, m) : i \in I} : h.stage = s
<1> DEFINE f == [i \in I |-> Hop(Group(k, s, r), s, i, m)]
           n == Cardinality(Group(k, s, r))
<1>1. IsFiniteSet(Group(k, s, r))
  BY GroupType
<1>2. n \in Nat
  BY <1>1, FS_CardinalityType
<1>3. IsFiniteSet(I)
  <2>1. IsFiniteSet(0..(n - 1))
    BY <1>2, FS_Interval
  <2> QED
    BY <2>1, FS_Subset
<1>4. {Hop(Group(k, s, r), s, i, m) : i \in I} = {f[i] : i \in I}
  OBVIOUS
<1>5. IsFiniteSet({f[i] : i \in I})
  <2> HIDE DEF f
  <2> QED
    BY <1>3, ImageIsFinite
<1>6. ASSUME NEW i \in I
      PROVE  HopOK(k, r, Hop(Group(k, s, r), s, i, m)) /\ Hop(Group(k, s, r), s, i, m).stage = s
  <2>1. i \in Nat /\ i < n
    BY <1>2
  <2>2. \A q \in Group(k, s, r) : RankIn(Group(k, s, r), q) = i => MsgOK(k, s, q, m)
    BY DEF MsgOK
  <2> QED
    BY <2>1, <2>2, OneHop
<1> QED
  BY <1>4, <1>5, <1>6 DEF HopsOK

\* Nothing is queued.
LEMMA NoHops ==
  ASSUME NEW k, NEW r
  PROVE  HopsOK(k, r, {})
BY FS_EmptySet DEF HopsOK

\* One hop is queued.
LEMMA OneIsFinite ==
  ASSUME NEW k, NEW r, NEW h, HopOK(k, r, h)
  PROVE  HopsOK(k, r, {h})
BY FS_Singleton DEF HopsOK

\* The header's bit field has room for the core of a rank (local_bits).
LEMMA LocalIndex ==
  ASSUME NEW dest \in Rank
  PROVE  Core(dest) % 2 ^ LocalBits = Core(dest)
<1>1. Core(dest) \in Nat /\ Core(dest) < 2 ^ LocalBits
  BY RankFacts, ShapeAssumption
<1>2. \A n \in Nat : Core(dest) < n => Core(dest) % n = Core(dest)
  BY <1>1
<1> QED
  BY <1>1, <1>2, ShapeAssumption

-----------------------------------------------------------------------------
\* do_send of mailbox_p2p_nlnr queues a hop of the first stage it needs.
LEMMA NlnrSend ==
  ASSUME NEW r \in Rank, NEW dest \in Rank, NEW d
  PROVE  HopsOK("nlnr", r, NlnrDoSend(r, dest, d))
<1> DEFINE remote == RemoteIndex(r, dest)
           m(node) == [bcast |-> FALSE, local |-> Core(dest) % 2 ^ LocalBits,
                       node |-> node, data |-> d]
<1>0. /\ "nlnr" \in Kinds /\ 1 \in 1..Last("nlnr") /\ 2 \in 1..Last("nlnr") /\ 3 \in 1..Last("nlnr")
      /\ Group("nlnr", 1, r) = Nl[r] /\ Group("nlnr", 2, r) = Nlnr[r] /\ Group("nlnr", 3, r) = Nl[r]
      /\ NlnrGroup(1, r) = Nl[r] /\ NlnrGroup(2, r) = Nlnr[r] /\ NlnrGroup(3, r) = Nl[r]
  BY DEF Kinds, Last, Group, NlnrGroup, Remote
<1>1. Core(dest) \in 0..(Cores - 1) /\ Layer(dest) \in 0..(Cores - 1)
  BY RankFacts
<1>2. \A n : ~m(n).bcast /\ m(n).local \in 0..(Cores - 1) /\ m(n).node = n
  BY <1>1, LocalIndex
<1>3. CASE Node(dest) = Node(r)
  <2>1. NlnrDoSend(r, dest, d) = {Hop(Nl[r], 3, Core(dest), m(Node(dest)))}
    BY <1>0, <1>3 DEF NlnrDoSend, NlnrTo, SecondLocal
  <2>2. Core(dest) \in Nat /\ Core(dest) < Cardinality(Nl[r])
    BY <1>1, NlFacts, Shape
  <2>3. \A q : MsgOK("nlnr", 3, q, m(Node(dest)))
    BY <1>2 DEF MsgOK, FirstLocal
  <2> HIDE DEF m
  <2>4. HopOK("nlnr", r, Hop(Nl[r], 3, Core(dest), m(Node(dest))))
    <3>1. 3 \in 1..Last("nlnr") /\ Core(dest) < Cardinality(Group("nlnr", 3, r))
      BY <1>0, <2>2
    <3>2. HopOK("nlnr", r, Hop(Group("nlnr", 3, r), 3, Core(dest), m(Node(dest))))
      BY <3>1, <1>0, <2>2, <2>3, OneHop
    <3> QED
      BY <3>2, <1>0
  <2> QED
    BY <2>1, <2>4, OneIsFinite
<1>4. CASE Node(dest) # Node(r) /\ Core(r) = Layer(dest)
  <2>1. NlnrDoSend(r, dest, d) = {Hop(Nlnr[r], 2, remote, m(remote))}
    BY <1>0, <1>4 DEF NlnrDoSend, NlnrTo, Remote
  <2>2. remote \in Nat /\ remote < Cardinality(Nlnr[r])
    BY <1>4, NlnrFacts
  <2>3. \A q : MsgOK("nlnr", 2, q, m(remote))
    BY <1>2 DEF MsgOK, FirstLocal
  <2> HIDE DEF m, remote
  <2>4. HopOK("nlnr", r, Hop(Nlnr[r], 2, remote, m(remote)))
    <3>1. 2 \in 1..Last("nlnr") /\ remote < Cardinality(Group("nlnr", 2, r))
      BY <1>0, <2>2
    <3>2. HopOK("nlnr", r, Hop(Group("nlnr", 2, r), 2, remote, m(remote)))
      BY <3>1, <1>0, <2>2, <2>3, OneHop
    <3> QED
      BY <3>2, <1>0
  <2> QED
    BY <2>1, <2>4, OneIsFinite
<1>5. CASE Node(dest) # Node(r) /\ Core(r) # Layer(dest)
  <2>1. NlnrDoSend(r, dest, d) = {Hop(Nl[r], 1, Layer(dest), m(remote))}
    BY <1>0, <1>5 DEF NlnrDoSend, NlnrTo, FirstLocal
  <2>2. Layer(dest) \in Nat /\ Layer(dest) < Cardinality(Nl[r])
    BY <1>1, NlFacts, Shape
  <2>3. ASSUME NEW q \in Nl[r], RankIn(Nl[r], q) = Layer(dest)
        PROVE  MsgOK("nlnr", 1, q, m(remote))
    <3>1. q \in Rank /\ Core(q) = Layer(dest) /\ Layer(q) = Layer(r)
      BY <2>3, NlFacts DEF Nl, Layer
    <3>2. RemoteIndex(q, dest) = remote
      BY <3>1 DEF RemoteIndex
    <3>3. remote \in Nat /\ remote < Cardinality(Nlnr[q])
      BY <3>1, <3>2, NlnrFacts
    <3> QED
      BY <1>2, <3>3 DEF MsgOK
  <2> HIDE DEF m, remote
  <2>4. HopOK("nlnr", r, Hop(Nl[r], 1, Layer(dest), m(remote)))
    <3>1. 1 \in 1..Last("nlnr") /\ Layer(dest) < Cardinality(Group("nlnr", 1, r))
      BY <1>0, <2>2
    <3>2. \A q \in Group("nlnr", 1, r) : RankIn(Group("nlnr", 1, r), q) = Layer(dest) =>
            MsgOK("nlnr", 1, q, m(remote))
      BY <1>0, <2>3
    <3>3. HopOK("nlnr", r, Hop(Group("nlnr", 1, r), 1, Layer(dest), m(remote)))
      BY <3>1, <3>2, <1>0, <2>2, OneHop
    <3> QED
      BY <3>3, <1>0
  <2> QED
    BY <2>1, <2>4, OneIsFinite
<1> QED
  BY <1>3, <1>4, <1>5

\* do_send_bcast of mailbox_p2p_nlnr queues hops in all three exchangers.
LEMMA NlnrBcast ==
  ASSUME NEW r \in Rank, NEW d
  PROVE  HopsOK("nlnr", r, NlnrDoSendBcast(r, d))
<1> DEFINE m == [bcast |-> TRUE, local |-> 0, node |-> 0, data |-> d]
           A == {Hop(Nl[r], 1, j, m) : j \in 0..(Cores - 1) \ {Core(r)}}
           B == {Hop(Nlnr[r], 2, i, m) : i \in BcastRemotes(r)}
<1>0. /\ "nlnr" \in Kinds /\ 1 \in 1..Last("nlnr") /\ 2 \in 1..Last("nlnr")
      /\ Group("nlnr", 1, r) = Nl[r] /\ Group("nlnr", 2, r) = Nlnr[r]
  BY DEF Kinds, Last, Group, NlnrGroup, Remote
<1>1. NlnrDoSendBcast(r, d) = A \cup B
  BY DEF NlnrDoSendBcast, NlnrTo, NlnrGroup, FirstLocal, Remote
<1>2. m.bcast
  OBVIOUS
<1> HIDE DEF m
<1>3. HopsOK("nlnr", r, A)
  <2>1. 0..(Cores - 1) \ {Core(r)} \subseteq 0..(Cardinality(Group("nlnr", 1, r)) - 1)
    <3>1. Cardinality(Nl[r]) \in Nat
      BY RankFacts, FS_Subset, FS_CardinalityType DEF Nl
    <3> QED
      BY <3>1, <1>0, NlFacts, Shape
  <2> DEFINE I == 0..(Cores - 1) \ {Core(r)}
             H == {Hop(Group("nlnr", 1, r), 1, i, m) : i \in I}
  <2>2. A = H
    BY <1>0
  <2>3. I \subseteq 0..(Cardinality(Group("nlnr", 1, r)) - 1)
    BY <2>1
  <2> HIDE DEF I
  <2>4. HopsOK("nlnr", r, H) /\ \A h \in H : h.stage = 1
    BY <2>3, <1>0, <1>2, SomeHops
  <2> HIDE DEF H
  <2> QED
    BY <2>2, <2>4
<1>4. HopsOK("nlnr", r, B)
  <2>1. BcastRemotes(r) \subseteq 0..(Cardinality(Group("nlnr", 2, r)) - 1)
    BY <1>0 DEF BcastRemotes
  <2>2. HopsOK("nlnr", r, {Hop(Group("nlnr", 2, r), 2, i, m) : i \in BcastRemotes(r)})
    BY <2>1, <1>0, <1>2, SomeHops
  <2> QED
    BY <2>2, <1>0
<1> HIDE DEF A, B
<1> QED
  BY <1>1, <1>3, <1>4, FS_Union DEF HopsOK

\* What a handler queues is for a later stage.
LaterHops(k, s, r, hops) == HopsOK(k, r, hops) /\ \A h \in hops : h.stage > s

\* What the receivers of mailbox_p2p_nlnr queue is for a later exchange.
LEMMA NlnrRelays ==
  ASSUME NEW r \in Rank, NEW s \in 1..3, NEW m, MsgOK("nlnr", s, r, m)
  PROVE  LaterHops("nlnr", s, r, NlnrRelay(s, r, m))
<1>0. /\ "nlnr" \in Kinds /\ 2 \in 1..Last("nlnr") /\ 3 \in 1..Last("nlnr")
      /\ Group("nlnr", 2, r) = Nlnr[r] /\ Group("nlnr", 3, r) = Nl[r]
  BY DEF Kinds, Last, Group, NlnrGroup, Remote
<1>1. Cardinality(Nl[r]) \in Nat
  BY RankFacts, FS_Subset, FS_CardinalityType DEF Nl
<1>2. CASE s = 1 /\ m.bcast
  <2>1. NlnrRelay(s, r, m) = {Hop(Nlnr[r], 2, i, m) : i \in BcastRemotes(r)}
    BY <1>2 DEF NlnrRelay, NlnrTo, NlnrGroup, FirstLocal, Remote, SecondLocal
  <2>2. BcastRemotes(r) \subseteq 0..(Cardinality(Group("nlnr", 2, r)) - 1)
    BY <1>0 DEF BcastRemotes
  <2> DEFINE H == {Hop(Group("nlnr", 2, r), 2, i, m) : i \in BcastRemotes(r)}
  <2>3. HopsOK("nlnr", r, H) /\ \A h \in H : h.stage = 2
    BY <2>2, <1>0, <1>2, SomeHops
  <2>4. NlnrRelay(s, r, m) = H
    BY <2>1, <1>0
  <2> HIDE DEF H
  <2> QED
    BY <2>3, <2>4, <1>2 DEF LaterHops
<1>3. CASE s = 1 /\ ~m.bcast
  <2>1. NlnrRelay(s, r, m) = {Hop(Nlnr[r], 2, m.node, m)}
    BY <1>3 DEF NlnrRelay, NlnrTo, NlnrGroup, FirstLocal, Remote, SecondLocal
  <2>2. m.node \in Nat /\ m.node < Cardinality(Nlnr[r]) /\ m.local \in 0..(Cores - 1)
    BY <1>3 DEF MsgOK, FirstLocal
  <2>3. \A q : MsgOK("nlnr", 2, q, m)
    BY <2>2 DEF MsgOK, FirstLocal
  <2>4. HopOK("nlnr", r, Hop(Group("nlnr", 2, r), 2, m.node, m)) /\ Hop(Group("nlnr", 2, r), 2, m.node, m).stage = 2
    <3>1. m.node < Cardinality(Group("nlnr", 2, r))
      BY <2>2, <1>0
    <3> QED
      BY <3>1, <1>0, <2>2, <2>3, OneHop
  <2> QED
    BY <2>1, <2>4, <1>0, <1>3, OneIsFinite DEF LaterHops
<1>4. CASE s = 2 /\ m.bcast
  <2> DEFINE I == 0..(Cores - 1) \ {Core(r)}
             H == {Hop(Group("nlnr", 3, r), 3, i, m) : i \in I}
  <2>1. NlnrRelay(s, r, m) = H
    BY <1>0, <1>4 DEF NlnrRelay, NlnrTo, NlnrGroup, FirstLocal, Remote, SecondLocal
  <2>2. I \subseteq 0..(Cardinality(Group("nlnr", 3, r)) - 1)
    BY <1>0, <1>1, NlFacts, Shape
  <2> HIDE DEF I
  <2>3. HopsOK("nlnr", r, H) /\ \A h \in H : h.stage = 3
    BY <2>2, <1>0, <1>4, SomeHops
  <2> HIDE DEF H
  <2> QED
    BY <2>1, <2>3, <1>4 DEF LaterHops
<1>5. CASE s = 2 /\ ~m.bcast
  <2>1. NlnrRelay(s, r, m) = {} \/ NlnrRelay(s, r, m) = {Hop(Nl[r], 3, m.local, m)}
    BY <1>5 DEF NlnrRelay, NlnrTo, NlnrGroup, FirstLocal, Remote, SecondLocal
  <2>2. m.local \in 0..(Cores - 1) /\ m.local \in Nat /\ m.local < Cardinality(Nl[r])
    BY <1>5, NlFacts, Shape DEF MsgOK, FirstLocal
  <2>3. \A q : MsgOK("nlnr", 3, q, m)
    BY <2>2 DEF MsgOK, FirstLocal
  <2>4. HopOK("nlnr", r, Hop(Group("nlnr", 3, r), 3, m.local, m)) /\ Hop(Group("nlnr", 3, r), 3, m.local, m).stage = 3
    <3>1. m.local < Cardinality(Group("nlnr", 3, r))
      BY <2>2, <1>0
    <3> QED
      BY <3>1, <1>0, <2>2, <2>3, OneHop
  <2> QED
    BY <2>1, <2>4, <1>0, <1>5, OneIsFinite, NoHops DEF LaterHops
<1>6. CASE s = 3
  <2>1. NlnrRelay(s, r, m) = {}
    BY <1>6 DEF NlnrRelay, FirstLocal, Remote, SecondLocal
  <2> QED
    BY <2>1, NoHops DEF LaterHops
<1> QED
  BY <1>2, <1>3, <1>4, <1>5, <1>6

-----------------------------------------------------------------------------
TwoStages == {"nlroute", "nrroute"}

\* In nrroute and nlroute the index of each rank and node is one of the group.
LEMMA TwoStageFacts ==
  ASSUME NEW k \in TwoStages, NEW r \in Rank
  PROVE  /\ k \in Kinds /\ Last(k) = 2 /\ 1 \in 1..Last(k) /\ 2 \in 1..Last(k)
         /\ \A s : Group(k, s, r) = TwoStageGroup(k, s, r)
         /\ \A q \in Rank : \A s : At(k, s, q) \in Nat /\ At(k, s, q) < Cardinality(TwoStageGroup(k, s, r))
         /\ \A m, s : m.local \in 0..(Cores - 1) /\ m.node \in 0..(Nodes - 1) =>
              Goal(k, s, m) \in Nat /\ Goal(k, s, m) < Cardinality(TwoStageGroup(k, s, r))
<1>1. /\ \A c \in 0..(Cores - 1) : c < Cardinality(Nl[r])
      /\ \A n \in 0..(Nodes - 1) : n < Cardinality(Nr[r])
      /\ 0..(Cores - 1) \subseteq Nat /\ 0..(Nodes - 1) \subseteq Nat
  BY NlFacts, NrFacts, Shape
<1>2. \A q \in Rank : Core(q) \in 0..(Cores - 1) /\ Node(q) \in 0..(Nodes - 1)
  BY RankFacts
<1>3. k \in Kinds /\ Last(k) = 2 /\ 1 \in 1..Last(k) /\ 2 \in 1..Last(k)
  BY DEF TwoStages, Kinds, Last
<1>4. \A s : Group(k, s, r) = TwoStageGroup(k, s, r)
  BY DEF TwoStages, Group
<1>5. ASSUME NEW q \in Rank, NEW s
      PROVE  At(k, s, q) \in Nat /\ At(k, s, q) < Cardinality(TwoStageGroup(k, s, r))
  BY <1>1, <1>2 DEF At, TwoStageGroup
<1>6. ASSUME NEW m, NEW s, m.local \in 0..(Cores - 1), m.node \in 0..(Nodes - 1)
      PROVE  Goal(k, s, m) \in Nat /\ Goal(k, s, m) < Cardinality(TwoStageGroup(k, s, r))
  BY <1>1, <1>6 DEF Goal, TwoStageGroup
<1> QED
  BY <1>3, <1>4, <1>5, <1>6

\* do_send of the two mailboxes with two stages.
LEMMA TwoStageSend ==
  ASSUME NEW k \in TwoStages, NEW r \in Rank, NEW dest \in Rank, NEW d
  PROVE  HopsOK(k, r, TwoStageDoSend(k, r, dest, d))
<1>1. PICK m : m = [bcast |-> FALSE, local |-> Core(dest) % 2 ^ LocalBits,
                    node |-> Node(dest), data |-> d]
  OBVIOUS
<1>2. PICK s \in 1..2 : s = IF At(k, 1, dest) = At(k, 1, r) THEN 2 ELSE 1
  OBVIOUS
<1>3. TwoStageDoSend(k, r, dest, d) = {Hop(Group(k, s, r), s, At(k, s, dest), m)}
  BY <1>1, <1>2, TwoStageFacts DEF TwoStageDoSend, To
<1>4. \A q : MsgOK(k, s, q, m)
  BY <1>1, RankFacts, LocalIndex DEF MsgOK, TwoStages
<1>5. s \in 1..Last(k) /\ k \in Kinds /\ At(k, s, dest) \in Nat /\ At(k, s, dest) < Cardinality(Group(k, s, r))
  BY TwoStageFacts
<1>6. HopOK(k, r, Hop(Group(k, s, r), s, At(k, s, dest), m))
  BY <1>4, <1>5, OneHop
<1> QED
  BY <1>3, <1>6, OneIsFinite

\* A broadcast to the others of a group.
LEMMA TwoStageOthers ==
  ASSUME NEW k \in TwoStages, NEW r \in Rank, NEW s \in 1..2, NEW m, m.bcast
  PROVE  HopsOK(k, r, ToOthers(k, r, s, m)) /\ \A h \in ToOthers(k, r, s, m) : h.stage = s
<1> DEFINE I == 0..(Cardinality(Group(k, s, r)) - 1) \ {At(k, s, r)}
<1>1. ToOthers(k, r, s, m) = {Hop(Group(k, s, r), s, i, m) : i \in I}
  BY TwoStageFacts DEF ToOthers, To
<1>2. I \subseteq 0..(Cardinality(Group(k, s, r)) - 1)
  OBVIOUS
<1>3. s \in 1..Last(k) /\ k \in Kinds
  BY TwoStageFacts
<1> HIDE DEF I
<1> DEFINE H == {Hop(Group(k, s, r), s, i, m) : i \in I}
<1>4. HopsOK(k, r, H) /\ \A h \in H : h.stage = s
  BY <1>2, <1>3, SomeHops
<1> HIDE DEF H
<1> QED
  BY <1>1, <1>4 DEF H

\* do_send_bcast of the two mailboxes with two stages.
LEMMA TwoStageBcast ==
  ASSUME NEW k \in TwoStages, NEW r \in Rank, NEW d
  PROVE  HopsOK(k, r, TwoStageDoSendBcast(k, r, d))
<1>1. PICK m : m = [bcast |-> TRUE, local |-> 0, node |-> 0, data |-> d]
  OBVIOUS
<1>2. TwoStageDoSendBcast(k, r, d) = ToOthers(k, r, 1, m) \cup ToOthers(k, r, 2, m)
  BY <1>1 DEF TwoStageDoSendBcast
<1>3. m.bcast /\ 1 \in 1..2 /\ 2 \in 1..2
  BY <1>1
<1>4. HopsOK(k, r, ToOthers(k, r, 1, m)) /\ HopsOK(k, r, ToOthers(k, r, 2, m))
  BY <1>3, TwoStageOthers
<1> QED
  BY <1>2, <1>4, FS_Union DEF HopsOK

\* What their receivers queue is for the second exchange.
LEMMA TwoStageRelays ==
  ASSUME NEW k \in TwoStages, NEW r \in Rank, NEW s \in 1..2, NEW m, MsgOK(k, s, r, m)
  PROVE  LaterHops(k, s, r, TwoStageRelay(k, s, r, m))
<1>1. CASE s = 2
  <2>1. TwoStageRelay(k, s, r, m) = {}
    BY <1>1 DEF TwoStageRelay
  <2> QED
    BY <2>1, NoHops DEF LaterHops
<1>2. CASE s = 1 /\ m.bcast
  <2>1. TwoStageRelay(k, s, r, m) = ToOthers(k, r, 2, m) /\ 2 \in 1..2
    BY <1>2 DEF TwoStageRelay
  <2> QED
    BY <2>1, <1>2, TwoStageOthers DEF LaterHops
<1>3. CASE s = 1 /\ ~m.bcast
  <2>1. \/ TwoStageRelay(k, s, r, m) = {}
        \/ TwoStageRelay(k, s, r, m) = {Hop(Group(k, 2, r), 2, Goal(k, 2, m), m)}
    BY <1>3, TwoStageFacts DEF TwoStageRelay, To
  <2>2. m.local \in 0..(Cores - 1) /\ m.node \in 0..(Nodes - 1)
    BY <1>3 DEF MsgOK, TwoStages
  <2>3. \A q : MsgOK(k, 2, q, m)
    BY <2>2 DEF MsgOK, TwoStages
  <2>4. /\ k \in Kinds /\ 2 \in 1..Last(k)
        /\ Goal(k, 2, m) \in Nat /\ Goal(k, 2, m) < Cardinality(Group(k, 2, r))
    BY <2>2, TwoStageFacts
  <2>5. HopOK(k, r, Hop(Group(k, 2, r), 2, Goal(k, 2, m), m)) /\ Hop(Group(k, 2, r), 2, Goal(k, 2, m), m).stage = 2
    BY <2>3, <2>4, OneHop
  <2> QED
    BY <2>1, <2>5, <1>3, OneIsFinite, NoHops DEF LaterHops
<1> QED
  BY <1>1, <1>2, <1>3

-----------------------------------------------------------------------------
\* noroute sends to the ranks themselves.
LEMMA DirectHops ==
  ASSUME NEW r \in Rank, NEW Dest, Dest \subseteq Rank, NEW b, NEW d
  PROVE  HopsOK("noroute", r, Direct(Dest, b, d))
<1> DEFINE m(q) == [bcast |-> b, dest |-> q, data |-> d]
           f == [q \in Dest |-> Hop(Rank, First, q, m(q))]
<1>0. "noroute" \in Kinds /\ 1 \in 1..Last("noroute") /\ Group("noroute", 1, r) = Rank /\ First = 1
  BY DEF Kinds, Last, Group, First
<1>1. Direct(Dest, b, d) = {f[q] : q \in Dest}
  BY DEF Direct
<1>2. IsFiniteSet(Direct(Dest, b, d))
  <2>1. IsFiniteSet(Dest)
    BY RankFacts, FS_Subset
  <2> HIDE DEF f
  <2> QED
    BY <1>1, <2>1, ImageIsFinite
<1>3. Cardinality(Rank) = Nodes * Cores
  <2>1. PICK n \in Nat : n = Nodes * Cores
    BY Shape
  <2>2. 0 \in Int /\ n - 1 \in Int /\ n > 0
    <3>1. Nodes * Cores > 0
      BY Shape
    <3> QED
      BY <2>1, <3>1
  <2>3. Cardinality(0..(n - 1)) = n
    BY <2>2, FS_Interval
  <2> QED
    BY <2>1, <2>3 DEF Rank
<1>4. ASSUME NEW q \in Dest PROVE HopOK("noroute", r, f[q])
  <2>1. q \in Nat /\ q < Cardinality(Group("noroute", 1, r))
    BY <1>0, <1>3, Shape DEF Rank
  <2>2. \A p : MsgOK("noroute", 1, p, m(q))
    BY DEF MsgOK
  <2>3. f[q] = Hop(Group("noroute", 1, r), 1, q, m(q))
    BY <1>0
  <2> HIDE DEF f, m
  <2> QED
    BY <1>0, <2>1, <2>2, <2>3, OneHop
<1> QED
  BY <1>1, <1>2, <1>4 DEF HopsOK

\* The hops that a call of send or send_bcast queues, and those that a handler
\* queues in its turn, go to ranks of the group of their stage.
LEMMA CallHops ==
  ASSUME NEW k \in Kinds, NEW r \in Rank, NEW dest \in Rank, NEW d
  PROVE  HopsOK(k, r, DoSend(k, r, dest, d)) /\ HopsOK(k, r, DoSendBcast(k, r, d))
<1>1. CASE k = "nlnr"
  BY <1>1, NlnrSend, NlnrBcast DEF DoSend, DoSendBcast
<1>2. CASE k = "noroute"
  <2>1. {dest} \subseteq Rank /\ Rank \ {r} \subseteq Rank
    OBVIOUS
  <2> QED
    BY <1>2, <2>1, DirectHops DEF DoSend, DoSendBcast
<1>3. CASE k \in TwoStages
  BY <1>3, TwoStageSend, TwoStageBcast DEF DoSend, DoSendBcast, TwoStages
<1> QED
  BY <1>1, <1>2, <1>3 DEF Kinds, TwoStages

\* What a receiver queues belongs to a later exchange, with a member of its group.
LEMMA RelayHops ==
  ASSUME NEW k \in Kinds, NEW s \in 1..Last(k), NEW r \in Rank, NEW m, MsgOK(k, s, r, m)
  PROVE  LaterHops(k, s, r, Relay(k, s, r, m))
<1>1. CASE k = "nlnr"
  <2>1. s \in 1..3
    BY <1>1 DEF Last
  <2> QED
    BY <1>1, <2>1, NlnrRelays DEF Relay
<1>2. CASE k = "noroute"
  BY <1>2, NoHops DEF Relay, LaterHops
<1>3. CASE k \in TwoStages
  <2>1. s \in 1..2
    BY <1>3 DEF Last, TwoStages
  <2>2. Relay(k, s, r, m) = TwoStageRelay(k, s, r, m)
    BY <1>3 DEF Relay, TwoStages
  <2> QED
    BY <1>3, <2>1, <2>2, TwoStageRelays
<1> QED
  BY <1>1, <1>2, <1>3 DEF Kinds, TwoStages

-----------------------------------------------------------------------------
(* The invariant.                                                          *)

\* The exchange of stage s in the k-th do_exchange: q has entered it, q has left it.
Posted(q, s, k) == round[q] > k \/ (round[q] = k /\ (stage[q] = 0 \/ stage[q] >= s))
Left(q, s, k)   == round[q] > k \/ (round[q] = k /\ (stage[q] = 0 \/ stage[q] > s))

\* The second count that q has posted there.
Count(q, s, k) == posted[q][s][Slot(k)]

FiniteBag(b) == IsABag(b) /\ IsFiniteSet(DOMAIN b)

RankType(r) ==
  /\ FiniteBag(out[r])
  /\ \A h \in DOMAIN out[r] : HopOK(kind, r, h) /\ (stage[r] > 0 => h.stage > stage[r])
  /\ stage[r] > 0 => round[r] > 0
  /\ stage[r] = 0 => deferred[r] = {} /\ (sendCount[r] = 0 <=> DOMAIN out[r] = {})
  /\ IsFiniteSet(deferred[r])
  /\ \A call \in deferred[r] : call.dest \in Rank
  /\ made[r] \in Nat /\ made[r] <= MaxMade[kind][r]

WireType(q, s, p) ==
  /\ IsABag(wire[q][s][p])
  /\ \A msg \in DOMAIN wire[q][s][p] : s <= Last(kind) /\ MsgOK(kind, s, q, msg)

Ranges ==
  /\ kind \in Kind
  /\ pc \in [Rank -> {"running", "closing", "gone"}]
  /\ sendCount \in [Rank -> Nat] /\ stage \in [Rank -> 0..Last(kind)]
  /\ round \in [Rank -> Nat] /\ total \in [Rank -> Nat]
  /\ posted \in [Rank -> [Stages -> [0..1 -> Nat]]]
  /\ DOMAIN out = Rank /\ DOMAIN deferred = Rank /\ DOMAIN made = Rank /\ DOMAIN wire = Rank
  /\ \A q \in Rank : DOMAIN wire[q] = Stages /\ \A s \in Stages : DOMAIN wire[q][s] = 0..1

TypeInv ==
  /\ Ranges
  /\ \A r \in Rank : RankType(r)
  /\ \A q \in Rank, s \in Stages, p \in 0..1 : WireType(q, s, p)

\* Nobody leaves an exchange that a member of its group has not entered.
Ordered ==
  \A r \in Rank, s \in 1..Last(kind), k \in Nat :
    Left(r, s, k) => \A q \in Group(kind, s, r) : Posted(q, s, k)

\* Some rank has not entered the do_exchange after the k-th.
Open(k) == \E r \in Rank : round[r] <= k

\* A count of 0 says that the group had the sum 0 one stage before.
ZerosAgree ==
  \A q \in Rank, s \in 1..Last(kind), k \in Nat :
    Open(k) /\ s > 1 /\ Posted(q, s, k) /\ Count(q, s, k) = 0 =>
      \A x \in Group(kind, s - 1, q) : Count(x, s - 1, k) = 0

\* A message is in an exchange that a rank with a positive count has entered and
\* its receiver has not left.
WireIsCounted ==
  \A q \in Rank, s \in Stages, p \in 0..1 :
    DOMAIN wire[q][s][p] # {} =>
      \E k \in Nat : /\ Slot(k) = p /\ ~Left(q, s, k)
                     /\ \E x \in Group(kind, s, q) : Posted(x, s, k) /\ Count(x, s, k) > 0

\* The k-th do_exchange is the latest, and whoever has entered it has come with nothing.
Silent(k) == \A x \in Rank : round[x] <= k /\ (round[x] = k => Count(x, 1, k) = 0)

Quiet(q, k) ==
  /\ pc[q] # "running" /\ sendCount[q] = 0 /\ DOMAIN out[q] = {} /\ deferred[q] = {}
  /\ total[q] = 0
  /\ \A s \in 1..Last(kind) : Posted(q, s, k) => Count(q, s, k) = 0
  /\ stage[q] = 0 => pc[q] = "gone"

\* In a silent do_exchange everybody is quiet.
SilenceIsQuiet ==
  \A k \in Nat, q \in Rank : k > 0 /\ Silent(k) /\ round[q] = k => Quiet(q, k)

\* A rank is gone after a silent do_exchange that everybody has entered.
GoneInSilence ==
  \A r \in Rank : pc[r] = "gone" =>
    stage[r] = 0 /\ round[r] > 0 /\ Silent(round[r]) /\ \A x \in Rank : round[x] >= round[r]

\* Nobody has gone on from a silent do_exchange to the next one.
NobodyGoesOn ==
  \A q \in Rank, k \in Nat :
    k > 0 /\ round[q] = k + 1 /\ Open(k) => \E x \in Rank : Count(x, 1, k) # 0

IInv ==
  /\ TypeInv
  /\ Ordered /\ ZerosAgree /\ WireIsCounted
  /\ SilenceIsQuiet /\ GoneInSilence /\ NobodyGoesOn

-----------------------------------------------------------------------------
(* Bags.                                                                   *)

\* The members of a union of bags.
LEMMA BagPlus ==
  ASSUME NEW A, NEW B, IsABag(A), IsABag(B)
  PROVE  IsABag(A (+) B) /\ DOMAIN (A (+) B) = DOMAIN A \cup DOMAIN B
<1> DEFINE D == DOMAIN A \cup DOMAIN B
           f(e) == (IF e \in DOMAIN A THEN A[e] ELSE 0) + (IF e \in DOMAIN B THEN B[e] ELSE 0)
<1>1. A (+) B = [e \in D |-> f(e)]
  BY DEF (+)
<1>2. /\ \A e \in DOMAIN A : A[e] \in Nat /\ A[e] > 0
      /\ \A e \in DOMAIN B : B[e] \in Nat /\ B[e] > 0
  BY DEF IsABag
<1>3. \A e \in D : f(e) \in {n \in Nat : n > 0}
  BY <1>2
<1> HIDE DEF f, D
<1>4. DOMAIN (A (+) B) = D /\ A (+) B \in [D -> {n \in Nat : n > 0}]
  BY <1>1, <1>3
<1> QED
  BY <1>4 DEF IsABag, D

\* The members of a difference of bags.
LEMMA BagMinus ==
  ASSUME NEW A, NEW B, IsABag(A), \A e \in DOMAIN B : B[e] \in Nat
  PROVE  /\ IsABag(A (-) B)
         /\ DOMAIN (A (-) B) = {e \in DOMAIN A : e \in DOMAIN B => A[e] > B[e]}
<1> DEFINE f(e) == IF e \in DOMAIN B THEN A[e] - B[e] ELSE A[e]
           C == [e \in DOMAIN A |-> f(e)]
           D == {d \in DOMAIN C : C[d] > 0}
<1>1. A (-) B = [e \in D |-> C[e]]
  BY DEF (-)
<1>2. \A e \in DOMAIN A : A[e] \in Nat /\ A[e] > 0
  BY DEF IsABag
<1>3. \A e \in DOMAIN A : f(e) \in Int /\ (f(e) > 0 <=> (e \in DOMAIN B => A[e] > B[e]))
  BY <1>2
<1>4. D = {e \in DOMAIN A : e \in DOMAIN B => A[e] > B[e]} /\ \A e \in D : C[e] \in {n \in Nat : n > 0}
  <2> HIDE DEF f
  <2>1. DOMAIN C = DOMAIN A /\ \A e \in DOMAIN A : C[e] = f(e)
    OBVIOUS
  <2> HIDE DEF C
  <2>2. \A e \in D : C[e] \in {n \in Nat : n > 0}
    BY <1>3, <2>1
  <2>3. \A e \in DOMAIN A : e \in D <=> (e \in DOMAIN B => A[e] > B[e])
    BY <1>3, <2>1
  <2>4. D \subseteq DOMAIN A
    BY <2>1
  <2> HIDE DEF D
  <2> QED
    BY <2>2, <2>3, <2>4
<1> HIDE DEF C, D
<1>5. DOMAIN (A (-) B) = D /\ A (-) B \in [D -> {n \in Nat : n > 0}]
  BY <1>1, <1>4
<1> QED
  BY <1>4, <1>5 DEF IsABag

\* A set as a bag.
LEMMA SetBag ==
  ASSUME NEW S
  PROVE  IsABag(SetToBag(S)) /\ DOMAIN SetToBag(S) = S
BY DEF SetToBag, IsABag

\* The empty bag is the one without a member.
LEMMA EmptyBagIs ==
  ASSUME NEW B, IsABag(B)
  PROVE  B = EmptyBag <=> DOMAIN B = {}
<1>1. B = EmptyBag => DOMAIN B = {}
  BY DEF EmptyBag, SetToBag
<1>2. ASSUME DOMAIN B = {} PROVE B = EmptyBag
  <2>1. B \in [{} -> {n \in Nat : n > 0}]
    BY <1>2 DEF IsABag
  <2>2. EmptyBag \in [{} -> {n \in Nat : n > 0}]
    BY DEF EmptyBag, SetToBag
  <2> QED
    BY <2>1, <2>2
<1> QED
  BY <1>1, <1>2

\* An exchange uses one of two buffers in turn.
LEMMA SlotIs == \A k \in Nat : Slot(k) \in 0..1
BY DEF Slot

\* The mailbox has one to three exchanges.
LEMMA StagesAre ==
  ASSUME kind \in Kind
  PROVE  /\ kind \in Kinds /\ Last(kind) \in 1..3 /\ 1..Last(kind) \subseteq Stages
         /\ First = 1 /\ First \in 1..Last(kind) /\ Last(kind) \in 1..Last(kind)
BY MailboxAssumption DEF Kinds, Last, Stages, First

-----------------------------------------------------------------------------
(* What Post does.                                                         *)

Without(r, s) == \A h \in DOMAIN out[r] : h.stage # s

PostOut(r, s) ==
  /\ DOMAIN out' = Rank /\ \A q \in Rank : q # r => out'[q] = out[q]
  /\ FiniteBag(out'[r]) /\ DOMAIN out'[r] = {h \in DOMAIN out[r] : h.stage # s}

PostCount(r, s, k, extra, c) ==
  /\ posted' \in [Rank -> [Stages -> [0..1 -> Nat]]]
  /\ \A q \in Rank, t \in Stages, p \in 0..1 :
       posted'[q][t][p] = IF q = r /\ t = s /\ p = Slot(k) THEN c ELSE posted[q][t][p]
  /\ c \in Nat /\ (c = 0 <=> extra = 0 /\ Without(r, s))

PostWire(r, s, k) ==
  /\ DOMAIN wire' = Rank
  /\ \A q \in Rank : DOMAIN wire'[q] = Stages /\ \A t \in Stages : DOMAIN wire'[q][t] = 0..1
  /\ \A q \in Rank, t \in Stages, p \in 0..1 :
       /\ WireType(q, t, p)'
       /\ DOMAIN wire'[q][t][p] # {} =>
            \/ DOMAIN wire[q][t][p] # {}
            \/ t = s /\ p = Slot(k) /\ q \in Group(kind, s, r) /\ ~Without(r, s)

\* Entering an exchange moves what is queued for it to the wire, and posts counts.
LEMMA PostDoes ==
  ASSUME TypeInv, NEW r \in Rank, NEW s \in 1..Last(kind), NEW k \in Nat, NEW x \in Nat,
         Post(r, s, k, x), kind' = kind
  PROVE  /\ stage' = [stage EXCEPT ![r] = s]
         /\ PostOut(r, s) /\ PostWire(r, s, k)
         /\ \E c : PostCount(r, s, k, x, c)
<1> DEFINE D == {h \in DOMAIN out[r] : h.stage = s}
           mine == [h \in D |-> out[r][h]]
           For(q) == [msg \in {h.msg : h \in {y \in DOMAIN mine : y.to = q}} |->
                        mine[[stage |-> s, msg |-> msg, to |-> q]]]
           p0 == Slot(k)
<1>1. /\ FiniteBag(out[r])
      /\ \A h \in DOMAIN out[r] : HopOK(kind, r, h)
  BY DEF TypeInv, RankType, Ranges
<1>2. /\ stage' = [stage EXCEPT ![r] = s]
      /\ posted' = [posted EXCEPT ![r][s][p0] = SumFunction(mine) + x]
      /\ wire' = [q \in Rank |-> [wire[q] EXCEPT ![s][p0] = @ (+) For(q)]]
      /\ out' = [out EXCEPT ![r] = @ (-) mine]
  BY DEF Post
<1>3. \A h \in DOMAIN out[r] : out[r][h] \in Nat /\ out[r][h] > 0
  BY <1>1 DEF FiniteBag, IsABag
<1>4. DOMAIN mine = D /\ \A h \in D : mine[h] = out[r][h]
  OBVIOUS
<1>5. s \in Stages /\ p0 \in 0..1
  BY StagesAre, SlotIs DEF TypeInv, Ranges
<1>6. D = {} <=> Without(r, s)
  BY DEF Without
<1> HIDE DEF mine
<1>7. IsFiniteSet(D) /\ D \subseteq DOMAIN out[r]
  BY <1>1, FS_Subset DEF FiniteBag
<1>8. PostOut(r, s)
  <2>1. /\ IsABag(out[r] (-) mine)
        /\ DOMAIN (out[r] (-) mine) = {h \in DOMAIN out[r] : h \in D => out[r][h] > mine[h]}
    <3>1. \A h \in DOMAIN mine : mine[h] \in Nat
      BY <1>3, <1>4, <1>7
    <3>2. IsABag(out[r])
      BY <1>1 DEF FiniteBag
    <3> HIDE DEF D
    <3>3. /\ IsABag(out[r] (-) mine)
          /\ DOMAIN (out[r] (-) mine) = {h \in DOMAIN out[r] : h \in DOMAIN mine => out[r][h] > mine[h]}
      BY <3>1, <3>2, BagMinus
    <3> QED
      BY <3>3, <1>4
  <2>2. {h \in DOMAIN out[r] : h \in D => out[r][h] > mine[h]} = {h \in DOMAIN out[r] : h.stage # s}
    <3>1. \A h \in DOMAIN out[r] : (h \in D => out[r][h] > mine[h]) <=> h.stage # s
      BY <1>3, <1>4
    <3> QED
      BY <3>1
  <2>3. DOMAIN out' = Rank /\ (\A q \in Rank : q # r => out'[q] = out[q]) /\ out'[r] = out[r] (-) mine
    BY <1>2 DEF TypeInv, Ranges
  <2>4. IsFiniteSet({h \in DOMAIN out[r] : h.stage # s})
    BY <1>1, FS_Subset DEF FiniteBag
  <2> HIDE DEF D
  <2> QED
    BY <2>1, <2>2, <2>3, <2>4 DEF PostOut, FiniteBag
<1>9. \E c : PostCount(r, s, k, x, c)
  <2> DEFINE c == SumFunction(mine) + x
  <2>1. SumFunction(mine) = SumFunctionOnSet(mine, D)
    BY <1>4 DEF SumFunction, SumFunctionOnSet, FoldFunction
  <2>2. /\ SumFunctionOnSet(mine, D) \in Nat
        /\ \A h \in D : mine[h] <= SumFunctionOnSet(mine, D)
        /\ (\A h \in D : mine[h] = 0) => SumFunctionOnSet(mine, D) = 0
    <3>1. \A h \in D : mine[h] \in Nat
      BY <1>3, <1>4
    <3> HIDE DEF D
    <3> QED
      BY <3>1, <1>7, SumFacts
  <2>3. \A h \in D : mine[h] > 0 /\ mine[h] \in Nat
    BY <1>3, <1>4
  <2>4. SumFunction(mine) \in Nat /\ (SumFunction(mine) = 0 <=> D = {})
    <3> HIDE DEF D
    <3> QED
      BY <2>1, <2>2, <2>3
  <2>5. c \in Nat /\ (c = 0 <=> x = 0 /\ Without(r, s))
    BY <2>4, <1>6
  <2> HIDE DEF c, p0
  <2>6. posted' = [posted EXCEPT ![r][s][p0] = c]
    BY <1>2 DEF c
  <2>7. posted \in [Rank -> [Stages -> [0..1 -> Nat]]]
    BY DEF TypeInv, Ranges
  <2>8. posted' \in [Rank -> [Stages -> [0..1 -> Nat]]]
    BY <2>5, <2>6, <2>7, <1>5
  <2>9. \A q \in Rank, t \in Stages, p \in 0..1 :
          posted'[q][t][p] = IF q = r /\ t = s /\ p = p0 THEN c ELSE posted[q][t][p]
    BY <2>6, <2>7, <1>5
  <2> QED
    BY <2>5, <2>8, <2>9 DEF PostCount, p0
<1>10. PostWire(r, s, k)
  <2>0. /\ DOMAIN wire = Rank
        /\ \A q \in Rank : DOMAIN wire[q] = Stages /\ \A t \in Stages : DOMAIN wire[q][t] = 0..1
        /\ \A q \in Rank, t \in Stages, p \in 0..1 : WireType(q, t, p)
    BY DEF TypeInv, Ranges
  <2>1. ASSUME NEW q \in Rank
        PROVE  /\ IsABag(For(q))
               /\ \A msg \in DOMAIN For(q) : q \in Group(kind, s, r) /\ ~Without(r, s) /\ MsgOK(kind, s, q, msg)
    <3> DEFINE M == {h.msg : h \in {y \in DOMAIN mine : y.to = q}}
    <3>1. DOMAIN For(q) = M /\ \A msg \in M : For(q)[msg] = mine[[stage |-> s, msg |-> msg, to |-> q]]
      OBVIOUS
    <3>2. ASSUME NEW msg \in M
          PROVE  /\ [stage |-> s, msg |-> msg, to |-> q] \in D
                 /\ q \in Group(kind, s, r) /\ ~Without(r, s) /\ MsgOK(kind, s, q, msg)
      <4>1. PICK h \in DOMAIN mine : h.to = q /\ h.msg = msg
        OBVIOUS
      <4>2. h \in DOMAIN out[r] /\ h.stage = s /\ h \in D
        BY <1>4
      <4>3. /\ h = [stage |-> h.stage, msg |-> h.msg, to |-> h.to]
            /\ h.to \in Group(kind, h.stage, r) /\ MsgOK(kind, h.stage, h.to, h.msg)
        BY <1>1, <4>2 DEF HopOK
      <4> QED
        BY <4>1, <4>2, <4>3 DEF Without
    <3>3. \A msg \in M : For(q)[msg] \in {n \in Nat : n > 0}
      BY <3>1, <3>2, <1>3, <1>4
    <3>4. IsABag(For(q))
      <4>1. For(q) = [msg \in M |-> For(q)[msg]]
        BY <3>1
      <4> HIDE DEF M, For
      <4> QED
        BY <4>1, <3>1, <3>3 DEF IsABag
    <3> HIDE DEF For, M
    <3> QED
      BY <3>1, <3>2, <3>4
  <2> HIDE DEF For, p0
  <2>2. ASSUME NEW q \in Rank
        PROVE  /\ DOMAIN wire'[q] = Stages /\ \A t \in Stages : DOMAIN wire'[q][t] = 0..1
               /\ \A t \in Stages, p \in 0..1 :
                    wire'[q][t][p] = IF t = s /\ p = p0 THEN wire[q][t][p] (+) For(q) ELSE wire[q][t][p]
    <3>1. PICK b : b = wire[q][s][p0] (+) For(q)
      OBVIOUS
    <3>2. wire'[q] = [wire[q] EXCEPT ![s][p0] = b]
      BY <1>2, <3>1
    <3> QED
      BY <3>1, <3>2, <2>0, <1>5
  <2>3. ASSUME NEW q \in Rank, NEW t \in Stages, NEW p \in 0..1
        PROVE  /\ WireType(q, t, p)'
               /\ DOMAIN wire'[q][t][p] # {} =>
                    \/ DOMAIN wire[q][t][p] # {}
                    \/ t = s /\ p = p0 /\ q \in Group(kind, s, r) /\ ~Without(r, s)
    <3>0. /\ IsABag(wire[q][t][p])
          /\ \A msg \in DOMAIN wire[q][t][p] : t <= Last(kind) /\ MsgOK(kind, t, q, msg)
      BY <2>0 DEF WireType
    <3>1. CASE t = s /\ p = p0
      <4>1. wire'[q][t][p] = wire[q][t][p] (+) For(q)
        BY <2>2, <3>1
      <4>2. IsABag(wire'[q][t][p]) /\ DOMAIN wire'[q][t][p] = DOMAIN wire[q][t][p] \cup DOMAIN For(q)
        BY <4>1, <3>0, <2>1, BagPlus
      <4>3. \A msg \in DOMAIN wire'[q][t][p] : t <= Last(kind) /\ MsgOK(kind, t, q, msg)
        BY <4>2, <3>0, <2>1, <3>1
      <4>4. WireType(q, t, p)'
        BY <4>2, <4>3, kind' = kind DEF WireType, MsgOK, Nlnr
      <4> QED
        BY <4>2, <4>4, <2>1, <3>1
    <3>2. CASE ~(t = s /\ p = p0)
      <4>1. wire'[q][t][p] = wire[q][t][p]
        BY <2>2, <3>2
      <4> QED
        BY <4>1, <3>0, kind' = kind DEF WireType
    <3> QED
      BY <3>1, <3>2
  <2>4. DOMAIN wire' = Rank
    BY <1>2
  <2> QED
    BY <2>2, <2>3, <2>4 DEF PostWire, p0
<1> QED
  BY <1>2, <1>8, <1>9, <1>10

-----------------------------------------------------------------------------
(* Types.                                                                  *)

\* A step of r leaves the others alone.
OnlyOf(r) ==
  \A q \in Rank : q # r =>
    /\ out'[q] = out[q] /\ stage'[q] = stage[q] /\ round'[q] = round[q]
    /\ deferred'[q] = deferred[q] /\ sendCount'[q] = sendCount[q] /\ made'[q] = made[q]

\* A step of r keeps the types if those of r and of the wire are kept.
LEMMA TypeStep ==
  ASSUME TypeInv, NEW r \in Rank, kind' = kind, Ranges', OnlyOf(r), RankType(r)',
         \A q \in Rank, s \in Stages, p \in 0..1 : WireType(q, s, p)'
  PROVE  TypeInv'
<1>1. ASSUME NEW q \in Rank, q # r PROVE RankType(q)'
  <2>1. RankType(q)
    BY DEF TypeInv
  <2>2. /\ out'[q] = out[q] /\ stage'[q] = stage[q] /\ round'[q] = round[q]
        /\ deferred'[q] = deferred[q] /\ sendCount'[q] = sendCount[q] /\ made'[q] = made[q]
    BY <1>1 DEF OnlyOf
  <2> QED
    BY <2>1, <2>2, kind' = kind DEF RankType
<1> QED
  BY <1>1 DEF TypeInv

\* What a call of send or send_bcast queues stays in its groups.
LEMMA HopsOfCall ==
  ASSUME TypeInv, NEW r \in Rank, NEW call, call.dest \in Rank
  PROVE  HopsOK(kind, r, Hops(r, call))
BY StagesAre, CallHops DEF Hops, TypeInv, Ranges

\* A call names a rank of the job.
LEMMA CallsAreToRanks ==
  ASSUME NEW r \in Rank
  PROVE  \A call \in Calls(r) : call.dest \in Rank
BY DEF Calls

\* What becomes of the queue when hops are added to it.
LEMMA QueueHops ==
  ASSUME NEW k, NEW r, NEW b, FiniteBag(b), NEW hops, HopsOK(k, r, hops),
         \A h \in DOMAIN b : HopOK(k, r, h)
  PROVE  /\ FiniteBag(b (+) SetToBag(hops))
         /\ DOMAIN (b (+) SetToBag(hops)) = DOMAIN b \cup hops
         /\ \A h \in DOMAIN (b (+) SetToBag(hops)) : HopOK(k, r, h)
         /\ Cardinality(hops) \in Nat /\ (Cardinality(hops) = 0 <=> hops = {})
<1>1. IsFiniteSet(hops) /\ IsFiniteSet(DOMAIN b) /\ IsABag(b)
  BY DEF HopsOK, FiniteBag
<1>2. IsABag(b (+) SetToBag(hops)) /\ DOMAIN (b (+) SetToBag(hops)) = DOMAIN b \cup hops
  BY <1>1, SetBag, BagPlus
<1>3. IsFiniteSet(DOMAIN b \cup hops)
  BY <1>1, FS_Union
<1>4. Cardinality(hops) \in Nat /\ (Cardinality(hops) = 0 <=> hops = {})
  BY <1>1, FS_CardinalityType, FS_EmptySet
<1> QED
  BY <1>2, <1>3, <1>4 DEF FiniteBag, HopsOK

\* The bound of the calls is a number.
LEMMA MadeIsBounded ==
  ASSUME TypeInv, NEW r \in Rank
  PROVE  MaxMade[kind][r] \in Nat
BY MailboxAssumption DEF TypeInv, Ranges

-----------------------------------------------------------------------------
SendDoes(r) ==
  /\ pc[r] = "running" /\ UNCHANGED <<pc, deferred, stage, round, total, posted, wire>>
  /\ \A q \in Rank : q # r => out'[q] = out[q] /\ sendCount'[q] = sendCount[q]

\* What send and send_bcast do, and the types after them.
LEMMA SendType ==
  ASSUME TypeInv, NEW r \in Rank, Send(r), kind' = kind
  PROVE  SendDoes(r) /\ TypeInv'
<1>1. PICK call \in Calls(r) :
        /\ out' = [out EXCEPT ![r] = @ (+) SetToBag(Hops(r, call))]
        /\ sendCount' = [sendCount EXCEPT ![r] = @ + Cardinality(Hops(r, call))]
  BY DEF Send
<1>2. PICK hops : hops = Hops(r, call)
  OBVIOUS
<1>3. HopsOK(kind, r, hops)
  BY <1>2, HopsOfCall, CallsAreToRanks
<1>4. /\ pc[r] = "running" /\ stage[r] = 0 /\ made[r] < MaxMade[kind][r]
      /\ made' = [made EXCEPT ![r] = @ + 1]
      /\ UNCHANGED <<pc, deferred, stage, round, total, posted, wire>>
  BY DEF Send
<1>5. RankType(r) /\ Ranges
  BY DEF TypeInv
<1>6. /\ FiniteBag(out[r] (+) SetToBag(hops))
      /\ DOMAIN (out[r] (+) SetToBag(hops)) = DOMAIN out[r] \cup hops
      /\ \A h \in DOMAIN (out[r] (+) SetToBag(hops)) : HopOK(kind, r, h)
      /\ Cardinality(hops) \in Nat /\ (Cardinality(hops) = 0 <=> hops = {})
  <2>1. FiniteBag(out[r]) /\ \A h \in DOMAIN out[r] : HopOK(kind, r, h)
    BY <1>5 DEF RankType
  <2> QED
    BY <2>1, <1>3, QueueHops
<1>7. PICK b : b = out[r] (+) SetToBag(hops)
  OBVIOUS
<1>8. PICK n : n = Cardinality(hops)
  OBVIOUS
<1>9. /\ out'[r] = b /\ sendCount'[r] = sendCount[r] + n /\ made'[r] = made[r] + 1
      /\ DOMAIN out' = Rank /\ DOMAIN made' = Rank
      /\ sendCount' \in [Rank -> Nat]
      /\ \A q \in Rank : q # r => out'[q] = out[q] /\ sendCount'[q] = sendCount[q] /\ made'[q] = made[q]
  BY <1>1, <1>2, <1>4, <1>5, <1>6, <1>7, <1>8 DEF Ranges
<1>10. RankType(r)'
  <2>1. (sendCount[r] + n = 0) <=> (DOMAIN b = {})
    <3>1. sendCount[r] \in Nat /\ n \in Nat /\ (n = 0 <=> hops = {}) /\ DOMAIN b = DOMAIN out[r] \cup hops
      BY <1>5, <1>6, <1>7, <1>8 DEF Ranges
    <3>2. sendCount[r] = 0 <=> DOMAIN out[r] = {}
      BY <1>4, <1>5 DEF RankType
    <3> QED
      BY <3>1, <3>2
  <2>2. FiniteBag(b) /\ \A h \in DOMAIN b : HopOK(kind, r, h)
    BY <1>6, <1>7
  <2>3. FiniteBag(out'[r]) /\ \A h \in DOMAIN out'[r] : HopOK(kind', r, h)
    BY <2>2, <1>9, kind' = kind
  <2>4. made'[r] \in Nat /\ made'[r] <= MaxMade[kind'][r]
    BY <1>4, <1>5, <1>9, MadeIsBounded, kind' = kind DEF RankType
  <2>5. stage'[r] = 0 /\ deferred'[r] = {} /\ (sendCount'[r] = 0 <=> DOMAIN out'[r] = {})
    BY <2>1, <1>4, <1>5, <1>9 DEF RankType
  <2>6. IsFiniteSet(deferred'[r]) /\ \A c \in deferred'[r] : c.dest \in Rank
    BY <1>4, <1>5 DEF RankType
  <2> QED
    BY <2>3, <2>4, <2>5, <2>6 DEF RankType, FiniteBag
<1>11. Ranges'
  BY <1>4, <1>5, <1>9, kind' = kind DEF Ranges
<1>12. \A q \in Rank, s \in Stages, p \in 0..1 : WireType(q, s, p)'
  BY <1>4, kind' = kind DEF TypeInv, WireType
<1>13. OnlyOf(r)
  BY <1>4, <1>9 DEF OnlyOf
<1> QED
  BY <1>4, <1>9, <1>10, <1>11, <1>12, <1>13, TypeStep, kind' = kind DEF SendDoes

-----------------------------------------------------------------------------
EnterDoes(r, c) ==
  /\ stage[r] = 0 /\ pc[r] # "gone" /\ sendCount'[r] = sendCount[r]
  /\ \A q \in Rank : q # r => pc'[q] = pc[q]
  /\ pc'[r] # "gone" /\ (sendCount[r] = 0 => pc'[r] = "closing")
  /\ UNCHANGED <<sendCount, deferred>>
  /\ round' = [round EXCEPT ![r] = @ + 1] /\ stage' = [stage EXCEPT ![r] = 1]
  /\ total' = [total EXCEPT ![r] = 0]
  /\ PostOut(r, 1) /\ PostWire(r, 1, round[r] + 1)
  /\ PostCount(r, 1, round[r] + 1, Extra(kind, sendCount[r]), c)
  /\ c = 0 => sendCount[r] = 0 /\ DOMAIN out'[r] = {} /\ deferred[r] = {}

\* What the start of do_exchange does, and the types after it.
LEMMA EnterType ==
  ASSUME TypeInv, NEW r \in Rank, EnterExchange(r), kind' = kind
  PROVE  (\E c : EnterDoes(r, c)) /\ TypeInv'
<1>1. /\ stage[r] = 0 /\ pc[r] # "gone"
      /\ \/ sendCount[r] >= Batch /\ pc' = pc
         \/ sendCount[r] < Batch /\ pc' = [pc EXCEPT ![r] = "closing"]
      /\ round' = [round EXCEPT ![r] = @ + 1]
      /\ total' = [total EXCEPT ![r] = 0]
      /\ Post(r, 1, round[r] + 1, Extra(kind, sendCount[r]))
      /\ UNCHANGED <<made, sendCount, deferred>>
  BY DEF EnterExchange, First
<1>2. RankType(r) /\ Ranges
  BY DEF TypeInv
<1>3. PICK x \in Nat : x = Extra(kind, sendCount[r])
  BY <1>2 DEF Ranges, Extra
<1>4. PICK k \in Nat : k = round[r] + 1
  BY <1>2 DEF Ranges
<1>5. /\ stage' = [stage EXCEPT ![r] = 1]
      /\ PostOut(r, 1) /\ PostWire(r, 1, k)
      /\ \E c : PostCount(r, 1, k, x, c)
  <2>1. Post(r, 1, k, x)
    BY <1>1, <1>3, <1>4
  <2>2. PICK s \in 1..Last(kind) : s = 1
    BY <1>2, StagesAre DEF Ranges, First
  <2>3. Post(r, s, k, x)
    BY <2>1, <2>2
  <2>4. /\ stage' = [stage EXCEPT ![r] = s]
        /\ PostOut(r, s) /\ PostWire(r, s, k)
        /\ \E c : PostCount(r, s, k, x, c)
    BY <2>3, PostDoes, kind' = kind
  <2> QED
    BY <2>2, <2>4
<1>6. PICK c : PostCount(r, 1, k, x, c)
  BY <1>5
<1>7. /\ \A h \in DOMAIN out[r] : HopOK(kind, r, h)
      /\ deferred[r] = {} /\ (sendCount[r] = 0 <=> DOMAIN out[r] = {})
  BY <1>1, <1>2 DEF RankType
<1>8. c = 0 => sendCount[r] = 0 /\ DOMAIN out'[r] = {}
  <2> SUFFICES ASSUME c = 0 PROVE sendCount[r] = 0 /\ DOMAIN out'[r] = {}
    OBVIOUS
  <2>1. x = 0 /\ Without(r, 1)
    BY <1>6 DEF PostCount
  <2>2. sendCount[r] = 0 /\ DOMAIN out[r] = {}
    <3>1. CASE kind # "noroute"
      BY <3>1, <2>1, <1>3, <1>7 DEF Extra
    <3>2. CASE kind = "noroute"
      <4>1. \A h \in DOMAIN out[r] : h.stage = 1
        BY <1>7, <3>2 DEF HopOK, Last
      <4>2. DOMAIN out[r] = {}
        BY <4>1, <2>1 DEF Without
      <4> QED
        BY <4>2, <1>7
    <3> QED
      BY <3>1, <3>2
  <2> QED
    BY <1>5, <2>2 DEF PostOut
<1>9. /\ \A q \in Rank : q # r => pc'[q] = pc[q]
      /\ pc'[r] # "gone" /\ (sendCount[r] = 0 => pc'[r] = "closing")
      /\ pc' \in [Rank -> {"running", "closing", "gone"}]
  <2>1. pc[r] \in {"running", "closing"} /\ pc \in [Rank -> {"running", "closing", "gone"}]
    BY <1>1, <1>2 DEF Ranges
  <2>2. ~(0 >= Batch) /\ (sendCount[r] = 0 => sendCount[r] < Batch)
    BY MailboxAssumption
  <2>3. CASE sendCount[r] >= Batch /\ pc' = pc
    BY <2>1, <2>2, <2>3
  <2>4. CASE sendCount[r] < Batch /\ pc' = [pc EXCEPT ![r] = "closing"]
    BY <2>1, <2>4
  <2> QED
    BY <2>3, <2>4, <1>1
<1>10. EnterDoes(r, c)
  BY <1>1, <1>3, <1>4, <1>5, <1>6, <1>7, <1>8, <1>9 DEF EnterDoes
<1>11. /\ stage'[r] = 1 /\ round'[r] = k
       /\ \A q \in Rank : q # r => stage'[q] = stage[q] /\ round'[q] = round[q]
       /\ stage' \in [Rank -> 0..Last(kind)] /\ round' \in [Rank -> Nat] /\ total' \in [Rank -> Nat]
  <2>1. 1 \in 0..Last(kind)
    BY <1>2, StagesAre DEF Ranges
  <2> QED
    BY <2>1, <1>1, <1>2, <1>4, <1>5 DEF Ranges
<1>12. RankType(r)'
  <2>1. FiniteBag(out'[r]) /\ \A h \in DOMAIN out'[r] : h \in DOMAIN out[r] /\ h.stage # 1
    BY <1>5 DEF PostOut
  <2>2. \A h \in DOMAIN out'[r] : HopOK(kind', r, h) /\ h.stage > 1
    <3> SUFFICES ASSUME NEW h \in DOMAIN out'[r] PROVE HopOK(kind, r, h) /\ h.stage > 1
      BY kind' = kind
    <3>1. HopOK(kind, r, h) /\ h.stage # 1
      BY <2>1, <1>7
    <3>2. h.stage \in 1..Last(kind) /\ Last(kind) \in 1..3
      BY <3>1, <1>2, StagesAre DEF HopOK, Ranges
    <3> QED
      BY <3>1, <3>2
  <2>3. made'[r] \in Nat /\ made'[r] <= MaxMade[kind'][r]
    BY <1>1, <1>2, kind' = kind DEF RankType
  <2>4. stage'[r] > 0 /\ stage'[r] # 0 /\ round'[r] > 0
    BY <1>2, <1>4, <1>11 DEF Ranges
  <2>5. IsFiniteSet(deferred'[r]) /\ \A d \in deferred'[r] : d.dest \in Rank
    BY <1>1, <1>2 DEF RankType
  <2> QED
    BY <2>1, <2>2, <2>3, <2>4, <2>5, <1>11 DEF RankType, FiniteBag
<1>13. Ranges'
  <2>1. /\ DOMAIN out' = Rank /\ DOMAIN wire' = Rank /\ posted' \in [Rank -> [Stages -> [0..1 -> Nat]]]
        /\ \A q \in Rank : DOMAIN wire'[q] = Stages /\ \A s \in Stages : DOMAIN wire'[q][s] = 0..1
    BY <1>5, <1>6 DEF PostOut, PostWire, PostCount
  <2> QED
    BY <2>1, <1>1, <1>2, <1>9, <1>11, kind' = kind DEF Ranges
<1>14. \A q \in Rank, s \in Stages, p \in 0..1 : WireType(q, s, p)'
  BY <1>5 DEF PostWire
<1>15. OnlyOf(r)
  BY <1>1, <1>5, <1>11 DEF OnlyOf, PostOut
<1>16. TypeInv'
  BY <1>12, <1>13, <1>14, <1>15, TypeStep, kind' = kind
<1> QED
  BY <1>10, <1>16

-----------------------------------------------------------------------------
ReceiveDoes(r) ==
  /\ stage[r] # 0 /\ DOMAIN wire[r][stage[r]][Slot(round[r])] # {}
  /\ UNCHANGED <<pc, sendCount, stage, round, total, posted>>
  /\ \A q \in Rank : q # r => out'[q] = out[q] /\ deferred'[q] = deferred[q]
  /\ \A q \in Rank, t \in Stages, p \in 0..1 : DOMAIN wire'[q][t][p] \subseteq DOMAIN wire[q][t][p]

\* What a receiver does, and the types after it.
LEMMA ReceiveType ==
  ASSUME TypeInv, NEW r \in Rank, Receive(r), kind' = kind
  PROVE  ReceiveDoes(r) /\ TypeInv'
<1>1. RankType(r) /\ Ranges
  BY DEF TypeInv
<1>2. PICK s, p : s = stage[r] /\ p = Slot(round[r])
  OBVIOUS
<1>3. PICK msg \in DOMAIN wire[r][s][p] :
        /\ wire' = [wire EXCEPT ![r][s][p] = @ (-) SetToBag({msg})]
        /\ out' = [out EXCEPT ![r] = @ (+) SetToBag(Relay(kind, s, r, msg))]
        /\ IF IsForMe(kind, s, r, msg) THEN Handle(r) ELSE UNCHANGED <<deferred, made>>
  BY <1>2 DEF Receive, BagToSet
<1>4. s # 0 /\ UNCHANGED <<pc, sendCount, stage, round, total, posted>>
  BY <1>2 DEF Receive
<1>5. s \in 1..Last(kind) /\ s \in Stages /\ p \in 0..1
  <2>1. stage[r] \in 0..Last(kind) /\ round[r] \in Nat /\ Last(kind) \in 1..3
    BY <1>1, StagesAre DEF Ranges
  <2> QED
    BY <2>1, <1>2, <1>4, SlotIs DEF Stages
<1>6. /\ IsABag(wire[r][s][p])
      /\ \A m \in DOMAIN wire[r][s][p] : MsgOK(kind, s, r, m)
  BY <1>5 DEF TypeInv, WireType
<1>7. PICK hops : hops = Relay(kind, s, r, msg)
  OBVIOUS
<1>8. HopsOK(kind, r, hops) /\ \A h \in hops : h.stage > s
  <2>1. MsgOK(kind, s, r, msg) /\ kind \in Kinds
    BY <1>1, <1>6, StagesAre DEF Ranges
  <2> QED
    BY <2>1, <1>5, <1>7, RelayHops DEF LaterHops
<1>9. /\ FiniteBag(out[r] (+) SetToBag(hops))
      /\ DOMAIN (out[r] (+) SetToBag(hops)) = DOMAIN out[r] \cup hops
      /\ \A h \in DOMAIN (out[r] (+) SetToBag(hops)) : HopOK(kind, r, h)
      /\ Cardinality(hops) \in Nat /\ (Cardinality(hops) = 0 <=> hops = {})
  <2>1. FiniteBag(out[r]) /\ \A h \in DOMAIN out[r] : HopOK(kind, r, h)
    BY <1>1 DEF RankType
  <2> QED
    BY <2>1, <1>8, QueueHops
<1>10. PICK b : b = out[r] (+) SetToBag(hops)
  OBVIOUS
<1>11. /\ out'[r] = b /\ DOMAIN out' = Rank
       /\ \A q \in Rank : q # r => out'[q] = out[q]
  BY <1>1, <1>3, <1>7, <1>10 DEF Ranges
<1>12. PICK w : w = wire[r][s][p] (-) SetToBag({msg})
  OBVIOUS
<1>13. IsABag(w) /\ DOMAIN w \subseteq DOMAIN wire[r][s][p]
  <2>1. \A e \in DOMAIN SetToBag({msg}) : SetToBag({msg})[e] \in Nat
    BY DEF SetToBag
  <2>2. /\ IsABag(wire[r][s][p] (-) SetToBag({msg}))
        /\ DOMAIN (wire[r][s][p] (-) SetToBag({msg})) =
             {e \in DOMAIN wire[r][s][p] : e \in DOMAIN SetToBag({msg}) => wire[r][s][p][e] > SetToBag({msg})[e]}
    BY <2>1, <1>6, BagMinus
  <2> QED
    BY <2>2, <1>12
<1>14. /\ DOMAIN wire' = Rank
       /\ \A q \in Rank : DOMAIN wire'[q] = Stages /\ \A t \in Stages : DOMAIN wire'[q][t] = 0..1
       /\ \A q \in Rank, t \in Stages, u \in 0..1 :
            wire'[q][t][u] = IF q = r /\ t = s /\ u = p THEN w ELSE wire[q][t][u]
  <2>1. wire' = [wire EXCEPT ![r][s][p] = w]
    BY <1>3, <1>12
  <2> QED
    BY <2>1, <1>1, <1>5 DEF Ranges
<1>15. \A q \in Rank, t \in Stages, u \in 0..1 :
         WireType(q, t, u)' /\ DOMAIN wire'[q][t][u] \subseteq DOMAIN wire[q][t][u]
  <2> SUFFICES ASSUME NEW q \in Rank, NEW t \in Stages, NEW u \in 0..1
               PROVE  WireType(q, t, u)' /\ DOMAIN wire'[q][t][u] \subseteq DOMAIN wire[q][t][u]
    OBVIOUS
  <2>1. WireType(q, t, u)
    BY DEF TypeInv
  <2>2. IsABag(wire'[q][t][u]) /\ DOMAIN wire'[q][t][u] \subseteq DOMAIN wire[q][t][u]
    BY <2>1, <1>13, <1>14 DEF WireType
  <2> QED
    BY <2>1, <2>2, kind' = kind DEF WireType
<1>16. /\ \A q \in Rank : q # r => deferred'[q] = deferred[q] /\ made'[q] = made[q]
       /\ DOMAIN deferred' = Rank /\ DOMAIN made' = Rank
       /\ IsFiniteSet(deferred'[r]) /\ \A call \in deferred'[r] : call.dest \in Rank
       /\ made'[r] \in Nat /\ made'[r] <= MaxMade[kind][r]
  <2>0. /\ IsFiniteSet(deferred[r]) /\ \A call \in deferred[r] : call.dest \in Rank
        /\ made[r] \in Nat /\ made[r] <= MaxMade[kind][r]
        /\ DOMAIN deferred = Rank /\ DOMAIN made = Rank
    BY <1>1 DEF RankType, Ranges
  <2>1. CASE UNCHANGED <<deferred, made>>
    BY <2>0, <2>1
  <2>2. CASE /\ made[r] < MaxMade[kind][r]
             /\ \E call \in Calls(r) : deferred' = [deferred EXCEPT ![r] = @ \cup {call}]
             /\ made' = [made EXCEPT ![r] = @ + 1]
    <3>1. PICK call \in Calls(r) : deferred' = [deferred EXCEPT ![r] = @ \cup {call}]
      BY <2>2
    <3>2. call.dest \in Rank
      BY CallsAreToRanks
    <3>3. IsFiniteSet(deferred[r] \cup {call})
      BY <2>0, FS_AddElement
    <3> QED
      BY <2>0, <2>2, <3>1, <3>2, <3>3, MadeIsBounded
  <2> QED
    BY <2>1, <2>2, <1>3 DEF Handle
<1>17. RankType(r)'
  <2>1. FiniteBag(b) /\ \A h \in DOMAIN b : HopOK(kind, r, h) /\ h.stage > s
    <3>1. \A h \in DOMAIN out[r] : h.stage > s
      <4>1. s > 0
        BY <1>5, <1>1, StagesAre DEF Ranges
      <4> QED
        BY <4>1, <1>1, <1>2 DEF RankType
    <3> QED
      BY <3>1, <1>8, <1>9, <1>10
  <2>2. /\ FiniteBag(out'[r]) /\ stage'[r] = s
        /\ \A h \in DOMAIN out'[r] : HopOK(kind', r, h) /\ h.stage > stage'[r]
    BY <2>1, <1>2, <1>4, <1>11, kind' = kind
  <2>3. stage'[r] # 0 /\ round'[r] > 0
    <3>1. s > 0
      BY <1>1, <1>5, StagesAre DEF Ranges
    <3> QED
      BY <3>1, <1>1, <1>2, <1>4 DEF RankType
  <2> QED
    BY <2>2, <2>3, <1>16, kind' = kind DEF RankType, FiniteBag
<1>18. Ranges'
  BY <1>1, <1>4, <1>11, <1>14, <1>16, kind' = kind DEF Ranges
<1>19. OnlyOf(r)
  BY <1>4, <1>11, <1>16 DEF OnlyOf
<1>20. TypeInv'
  BY <1>15, <1>17, <1>18, <1>19, TypeStep, kind' = kind
<1> QED
  BY <1>2, <1>3, <1>4, <1>11, <1>15, <1>16, <1>20 DEF ReceiveDoes

-----------------------------------------------------------------------------
\* The sum of an exchange is 0 only if its group has posted nothing but 0.
LEMMA SumIs ==
  ASSUME TypeInv, NEW r \in Rank, NEW s \in 1..Last(kind)
  PROVE  /\ SumOf(r, s) \in Nat
         /\ SumOf(r, s) = 0 <=> total[r] = 0 /\ \A x \in Group(kind, s, r) : Count(x, s, round[r]) = 0
<1> DEFINE F == [q \in Rank |-> posted[q][s][Slot(round[r])]]
           G == Group(kind, s, r)
<1>1. Ranges /\ kind \in Kinds /\ s \in Stages
  BY StagesAre DEF TypeInv, Ranges
<1>2. G \subseteq Rank /\ IsFiniteSet(G)
  BY <1>1, GroupType
<1>3. \A x \in Rank : F[x] = Count(x, s, round[r]) /\ F[x] \in Nat
  <2>1. round[r] \in Nat /\ posted \in [Rank -> [Stages -> [0..1 -> Nat]]]
    BY <1>1 DEF Ranges
  <2>2. Slot(round[r]) \in 0..1
    BY <2>1, SlotIs
  <2> QED
    BY <2>1, <2>2, <1>1 DEF Count
<1>4. SumOf(r, s) = total[r] + SumFunctionOnSet(F, G) /\ total[r] \in Nat
  BY <1>1 DEF SumOf, Ranges
<1> HIDE DEF F
<1>5. /\ SumFunctionOnSet(F, G) \in Nat
      /\ \A x \in G : F[x] <= SumFunctionOnSet(F, G)
      /\ (\A x \in G : F[x] = 0) => SumFunctionOnSet(F, G) = 0
  <2>1. \A x \in G : F[x] \in Nat
    BY <1>2, <1>3
  <2> HIDE DEF G
  <2> QED
    BY <2>1, <1>2, SumFacts
<1>6. SumFunctionOnSet(F, G) = 0 <=> \A x \in G : F[x] = 0
  <2>1. ASSUME SumFunctionOnSet(F, G) = 0, NEW x \in G PROVE F[x] = 0
    <3>1. F[x] \in Nat /\ F[x] <= 0
      BY <2>1, <1>2, <1>3, <1>5
    <3> QED
      BY <3>1
  <2> QED
    BY <2>1, <1>5
<1>7. (\A x \in G : F[x] = 0) <=> \A x \in G : Count(x, s, round[r]) = 0
  BY <1>2, <1>3
<1> HIDE DEF G
<1>8. /\ SumOf(r, s) \in Nat
      /\ SumOf(r, s) = 0 <=> total[r] = 0 /\ \A x \in G : Count(x, s, round[r]) = 0
  <2> HIDE DEF Count
  <2>1. PICK n \in Nat : n = SumFunctionOnSet(F, G)
    BY <1>5
  <2>2. total[r] + n = 0 <=> total[r] = 0 /\ n = 0
    BY <1>4
  <2> QED
    BY <2>1, <2>2, <1>4, <1>6, <1>7
<1> QED
  BY <1>8 DEF G

\* r returns from the exchange of its stage.
Ended(r, s) ==
  /\ stage[r] = s /\ s # 0 /\ DOMAIN wire[r][s][Slot(round[r])] = {}
  /\ \A x \in Group(kind, s, r) : Posted(x, s, round[r])

\* An exchange ends when its group has entered it and its messages are received.
LEMMA EndIs ==
  ASSUME TypeInv, NEW r \in Rank, NEW s \in 1..Last(kind), EndOfStage(r, s)
  PROVE  Ended(r, s)
<1>1. Ranges /\ kind \in Kinds /\ s \in Stages /\ Last(kind) \in 1..3
  BY StagesAre DEF TypeInv, Ranges
<1>2. stage[r] = s /\ wire[r][s][Slot(round[r])] = EmptyBag
  BY DEF EndOfStage
<1>3. ASSUME NEW x \in Group(kind, s, r) PROVE Posted(x, s, round[r])
  <2>1. x \in Rank
    BY <1>1, GroupType
  <2>2. round[x] > round[r] \/ (round[x] = round[r] /\ stage[x] \in {0} \cup s..Last(kind))
    BY DEF EndOfStage
  <2> QED
    BY <2>1, <2>2, <1>1 DEF Posted, Ranges
<1>4. DOMAIN wire[r][s][Slot(round[r])] = {}
  BY <1>2 DEF EmptyBag, SetToBag
<1>5. s # 0
  BY <1>1
<1> QED
  BY <1>2, <1>3, <1>4, <1>5 DEF Ended

NextDoes(r, s, c) ==
  /\ Ended(r, s)
  /\ UNCHANGED <<pc, sendCount, deferred, round>>
  /\ stage' = [stage EXCEPT ![r] = s + 1]
  /\ total' = [total EXCEPT ![r] = SumOf(r, s)]
  /\ PostOut(r, s + 1) /\ PostWire(r, s + 1, round[r])
  /\ PostCount(r, s + 1, round[r], SumOf(r, s), c)

\* What the next exchange of do_exchange does, and the types after it.
LEMMA NextType ==
  ASSUME TypeInv, NEW r \in Rank, NextStage(r), kind' = kind
  PROVE  (\E s \in 1..Last(kind) : \E c : s + 1 \in 1..Last(kind) /\ NextDoes(r, s, c)) /\ TypeInv'
<1>1. PICK s \in 1..(Last(kind) - 1) :
        /\ EndOfStage(r, s)
        /\ total' = [total EXCEPT ![r] = SumOf(r, s)]
        /\ Post(r, s + 1, round[r], SumOf(r, s))
        /\ UNCHANGED <<pc, made, sendCount, deferred, round>>
  BY DEF NextStage, First
<1>2. RankType(r) /\ Ranges /\ Last(kind) \in 1..3
  BY StagesAre DEF TypeInv, Ranges
<1>3. s \in 1..Last(kind) /\ s + 1 \in 1..Last(kind) /\ s \in Nat
  BY <1>2
<1>4. PICK x \in Nat : x = SumOf(r, s)
  BY <1>3, SumIs
<1>5. PICK t \in 1..Last(kind) : t = s + 1
  BY <1>3
<1>6. PICK k \in Nat : k = round[r]
  BY <1>2 DEF Ranges
<1>7. /\ stage' = [stage EXCEPT ![r] = t]
      /\ PostOut(r, t) /\ PostWire(r, t, k)
      /\ \E c : PostCount(r, t, k, x, c)
  <2>1. Post(r, t, k, x)
    BY <1>1, <1>4, <1>5, <1>6
  <2> QED
    BY <2>1, PostDoes, kind' = kind
<1>8. PICK c : PostCount(r, t, k, x, c)
  BY <1>7
<1>9. Ended(r, s)
  BY <1>1, <1>3, EndIs
<1>10. NextDoes(r, s, c)
  BY <1>1, <1>4, <1>5, <1>6, <1>7, <1>8, <1>9 DEF NextDoes
<1>11. /\ stage'[r] = t /\ stage[r] = s /\ t > s /\ s > 0
       /\ \A q \in Rank : q # r => stage'[q] = stage[q]
       /\ stage' \in [Rank -> 0..Last(kind)] /\ total' \in [Rank -> Nat]
  <2>1. stage[r] = s
    BY <1>9 DEF Ended
  <2>2. t \in 0..Last(kind) /\ t > s /\ s > 0
    BY <1>2, <1>3, <1>5
  <2> QED
    BY <2>1, <2>2, <1>1, <1>2, <1>4, <1>7 DEF Ranges
<1>12. RankType(r)'
  <2>1. FiniteBag(out'[r]) /\ \A h \in DOMAIN out'[r] : h \in DOMAIN out[r] /\ h.stage # t
    BY <1>7 DEF PostOut
  <2>2. \A h \in DOMAIN out'[r] : HopOK(kind', r, h) /\ h.stage > t
    <3> SUFFICES ASSUME NEW h \in DOMAIN out'[r] PROVE HopOK(kind, r, h) /\ h.stage > t
      BY kind' = kind
    <3>1. HopOK(kind, r, h) /\ h.stage # t /\ h.stage > s
      BY <2>1, <1>2, <1>11 DEF RankType
    <3>2. h.stage \in 1..Last(kind)
      BY <3>1 DEF HopOK
    <3> QED
      BY <3>1, <3>2, <1>2, <1>3, <1>5
  <2>3. made'[r] \in Nat /\ made'[r] <= MaxMade[kind'][r] /\ round'[r] > 0
    BY <1>1, <1>2, <1>11, kind' = kind DEF RankType
  <2>4. stage'[r] > 0 /\ stage'[r] # 0
    BY <1>3, <1>5, <1>11
  <2>5. IsFiniteSet(deferred'[r]) /\ \A d \in deferred'[r] : d.dest \in Rank
    BY <1>1, <1>2 DEF RankType
  <2> QED
    BY <2>1, <2>2, <2>3, <2>4, <2>5, <1>11 DEF RankType, FiniteBag
<1>13. Ranges'
  <2>1. /\ DOMAIN out' = Rank /\ DOMAIN wire' = Rank /\ posted' \in [Rank -> [Stages -> [0..1 -> Nat]]]
        /\ \A q \in Rank : DOMAIN wire'[q] = Stages /\ \A i \in Stages : DOMAIN wire'[q][i] = 0..1
    BY <1>7, <1>8 DEF PostOut, PostWire, PostCount
  <2> QED
    BY <2>1, <1>1, <1>2, <1>11, kind' = kind DEF Ranges
<1>14. \A q \in Rank, i \in Stages, p \in 0..1 : WireType(q, i, p)'
  BY <1>7 DEF PostWire
<1>15. OnlyOf(r)
  BY <1>1, <1>7, <1>11 DEF OnlyOf, PostOut
<1>16. TypeInv'
  BY <1>12, <1>13, <1>14, <1>15, TypeStep, kind' = kind
<1> QED
  BY <1>3, <1>10, <1>16

-----------------------------------------------------------------------------
FinishDoes(r) ==
  /\ Ended(r, Last(kind))
  /\ UNCHANGED <<round, posted, wire>>
  /\ stage' = [stage EXCEPT ![r] = 0]
  /\ total' = [total EXCEPT ![r] = SumOf(r, Last(kind))]
  /\ pc' = [pc EXCEPT ![r] = IF @ = "closing" /\ SumOf(r, Last(kind)) = 0 THEN "gone" ELSE @]
  /\ deferred' = [deferred EXCEPT ![r] = {}]
  /\ \A q \in Rank : q # r => out'[q] = out[q] /\ sendCount'[q] = sendCount[q]
  /\ deferred[r] = {} => sendCount'[r] = 0 /\ DOMAIN out'[r] = {}

\* What the end of do_exchange does, and the types after it.
LEMMA FinishType ==
  ASSUME TypeInv, NEW r \in Rank, FinishExchange(r), kind' = kind
  PROVE  FinishDoes(r) /\ TypeInv'
<1>1. PICK hops : hops = UNION {Hops(r, call) : call \in deferred[r]}
  OBVIOUS
<1>2. /\ EndOfStage(r, Last(kind))
      /\ total' = [total EXCEPT ![r] = SumOf(r, Last(kind))]
      /\ out' = [out EXCEPT ![r] = @ (+) SetToBag(hops)]
      /\ sendCount' = [sendCount EXCEPT ![r] = Cardinality(hops)]
      /\ deferred' = [deferred EXCEPT ![r] = {}]
      /\ stage' = [stage EXCEPT ![r] = 0]
      /\ pc' = [pc EXCEPT ![r] = IF @ = "closing" /\ SumOf(r, Last(kind)) = 0 THEN "gone" ELSE @]
      /\ UNCHANGED <<made, round, posted, wire>>
  BY <1>1 DEF FinishExchange
<1>3. RankType(r) /\ Ranges /\ Last(kind) \in 1..3 /\ Last(kind) \in 1..Last(kind)
  BY StagesAre DEF TypeInv, Ranges
<1>4. PICK x \in Nat : x = SumOf(r, Last(kind))
  BY <1>3, SumIs
<1>5. Ended(r, Last(kind))
  BY <1>2, <1>3, EndIs
<1>6. HopsOK(kind, r, hops) /\ (deferred[r] = {} => hops = {})
  <2> DEFINE f == [call \in deferred[r] |-> Hops(r, call)]
             H == {f[call] : call \in deferred[r]}
  <2>1. IsFiniteSet(deferred[r]) /\ \A call \in deferred[r] : call.dest \in Rank
    BY <1>3 DEF RankType
  <2>2. \A call \in deferred[r] : HopsOK(kind, r, f[call])
    BY <2>1, HopsOfCall
  <2>3. hops = UNION H
    BY <1>1
  <2> HIDE DEF f
  <2>4. IsFiniteSet(H)
    BY <2>1, ImageIsFinite
  <2>5. \A T \in H : HopsOK(kind, r, T)
    BY <2>2
  <2>6. deferred[r] = {} => H = {}
    OBVIOUS
  <2> HIDE DEF H
  <2>7. IsFiniteSet(hops)
    BY <2>3, <2>4, <2>5, FS_UNION DEF HopsOK
  <2> QED
    BY <2>3, <2>5, <2>6, <2>7 DEF HopsOK
<1>7. DOMAIN out[r] = {}
  <2>1. stage[r] = Last(kind) /\ Last(kind) > 0
    BY <1>3, <1>5 DEF Ended
  <2>2. \A h \in DOMAIN out[r] : h.stage > Last(kind) /\ h.stage \in 1..Last(kind)
    BY <2>1, <1>3 DEF RankType, HopOK
  <2> QED
    BY <2>2, <1>3
<1>8. /\ FiniteBag(out[r] (+) SetToBag(hops))
      /\ DOMAIN (out[r] (+) SetToBag(hops)) = DOMAIN out[r] \cup hops
      /\ \A h \in DOMAIN (out[r] (+) SetToBag(hops)) : HopOK(kind, r, h)
      /\ Cardinality(hops) \in Nat /\ (Cardinality(hops) = 0 <=> hops = {})
  <2>1. FiniteBag(out[r]) /\ \A h \in DOMAIN out[r] : HopOK(kind, r, h)
    BY <1>3 DEF RankType
  <2>2. HopsOK(kind, r, hops)
    BY <1>6
  <2> QED
    BY <2>1, <2>2, QueueHops
<1>9. PICK b : b = out[r] (+) SetToBag(hops)
  OBVIOUS
<1>10. PICK n \in Nat : n = Cardinality(hops)
  BY <1>8
<1>11. /\ out'[r] = b /\ DOMAIN out' = Rank /\ sendCount'[r] = n
       /\ DOMAIN b = hops /\ (n = 0 <=> hops = {})
       /\ \A q \in Rank : q # r => out'[q] = out[q] /\ sendCount'[q] = sendCount[q]
       /\ sendCount' \in [Rank -> Nat]
  BY <1>2, <1>3, <1>7, <1>8, <1>9, <1>10 DEF Ranges
<1>12. FinishDoes(r)
  BY <1>2, <1>5, <1>6, <1>11 DEF FinishDoes
<1>13. /\ stage'[r] = 0 /\ deferred'[r] = {} /\ DOMAIN deferred' = Rank
       /\ \A q \in Rank : q # r => stage'[q] = stage[q] /\ deferred'[q] = deferred[q]
       /\ stage' \in [Rank -> 0..Last(kind)] /\ total' \in [Rank -> Nat]
  <2>1. 0 \in 0..Last(kind)
    BY <1>3
  <2> QED
    BY <2>1, <1>2, <1>3, <1>4 DEF Ranges
<1>14. pc' \in [Rank -> {"running", "closing", "gone"}]
  <2>1. PICK v : v = IF pc[r] = "closing" /\ SumOf(r, Last(kind)) = 0 THEN "gone" ELSE pc[r]
    OBVIOUS
  <2>2. v \in {"running", "closing", "gone"} /\ pc' = [pc EXCEPT ![r] = v]
    BY <2>1, <1>2, <1>3 DEF Ranges
  <2> QED
    BY <2>2, <1>3 DEF Ranges
<1>15. RankType(r)'
  <2>1. FiniteBag(out'[r]) /\ \A h \in DOMAIN out'[r] : HopOK(kind', r, h)
    BY <1>8, <1>9, <1>11, kind' = kind
  <2>2. made'[r] \in Nat /\ made'[r] <= MaxMade[kind'][r]
    BY <1>2, <1>3, kind' = kind DEF RankType
  <2>3. ~(stage'[r] > 0) /\ (sendCount'[r] = 0 <=> DOMAIN out'[r] = {})
    BY <1>11, <1>13
  <2>4. IsFiniteSet(deferred'[r]) /\ \A d \in deferred'[r] : d.dest \in Rank
    BY <1>13, FS_EmptySet
  <2> QED
    BY <2>1, <2>2, <2>3, <2>4, <1>13 DEF RankType, FiniteBag
<1>16. Ranges'
  BY <1>2, <1>3, <1>11, <1>13, <1>14, kind' = kind DEF Ranges
<1>17. \A q \in Rank, i \in Stages, p \in 0..1 : WireType(q, i, p)'
  BY <1>2, kind' = kind DEF TypeInv, WireType
<1>18. OnlyOf(r)
  BY <1>2, <1>11, <1>13 DEF OnlyOf
<1>19. TypeInv'
  BY <1>15, <1>16, <1>17, <1>18, TypeStep, kind' = kind
<1> QED
  BY <1>12, <1>19

-----------------------------------------------------------------------------
(* Who has entered and left which exchange.                                *)

\* The types that the proofs below need.
LEMMA Known ==
  ASSUME TypeInv
  PROVE  /\ kind \in Kinds /\ Last(kind) \in 1..3 /\ Last(kind) \in 1..Last(kind)
         /\ 1 \in 1..Last(kind) /\ 1..Last(kind) \subseteq Stages
         /\ \A q \in Rank : /\ round[q] \in Nat /\ stage[q] \in 0..Last(kind)
                            /\ stage[q] > 0 => round[q] > 0
         /\ \A q \in Rank, s \in 1..Last(kind), k \in Nat : Count(q, s, k) \in Nat
<1>1. Ranges
  BY DEF TypeInv
<1>2. /\ kind \in Kinds /\ Last(kind) \in 1..3 /\ Last(kind) \in 1..Last(kind)
      /\ 1 \in 1..Last(kind) /\ 1..Last(kind) \subseteq Stages
  BY <1>1, StagesAre DEF Ranges, First
<1>3. ASSUME NEW q \in Rank, NEW s \in 1..Last(kind), NEW k \in Nat PROVE Count(q, s, k) \in Nat
  <2>1. Slot(k) \in 0..1 /\ s \in Stages
    BY <1>2, SlotIs
  <2> QED
    BY <2>1, <1>1 DEF Ranges, Count
<1>4. ASSUME NEW q \in Rank
      PROVE  round[q] \in Nat /\ stage[q] \in 0..Last(kind) /\ (stage[q] > 0 => round[q] > 0)
  <2>1. RankType(q)
    BY DEF TypeInv
  <2> QED
    BY <2>1, <1>1 DEF RankType, Ranges
<1> QED
  BY <1>2, <1>3, <1>4

\* Whoever has entered one exchange has left the one before.
LEMMA PostedLeft ==
  ASSUME TypeInv, NEW q \in Rank, NEW s \in 1..Last(kind), NEW t \in 1..Last(kind), t = s + 1,
         NEW k \in Nat, Posted(q, t, k)
  PROVE  Left(q, s, k)
BY Known DEF Posted, Left

\* When a group has entered its last exchange, everybody has entered the first.
LEMMA AllPosted ==
  ASSUME TypeInv, Ordered, NEW r \in Rank, NEW k \in Nat,
         \A x \in Group(kind, Last(kind), r) : Posted(x, Last(kind), k), NEW q \in Rank
  PROVE  Posted(q, 1, k)
<1>0. kind \in Kinds /\ Last(kind) \in 1..3
  BY Known
<1>1. PICK x, y \in Rank : Leads(kind, r, x, y, q)
  BY <1>0, GroupsLead
<1>2. CASE Last(kind) = 1
  BY <1>1, <1>2 DEF Leads
<1>3. CASE Last(kind) = 2
  <2>1. 1 \in 1..Last(kind) /\ 2 \in 1..Last(kind) /\ 2 = 1 + 1
    BY <1>3
  <2>2. y \in Group(kind, 2, r) /\ q \in Group(kind, 1, y)
    BY <1>1, <1>3 DEF Leads
  <2>3. Posted(y, 2, k)
    BY <2>2, <1>3
  <2>4. Left(y, 1, k)
    BY <2>1, <2>3, PostedLeft
  <2> QED
    BY <2>1, <2>2, <2>4 DEF Ordered
<1>4. CASE Last(kind) = 3
  <2>1. 1 \in 1..Last(kind) /\ 2 \in 1..Last(kind) /\ 3 \in 1..Last(kind) /\ 2 = 1 + 1 /\ 3 = 2 + 1
    BY <1>4
  <2>2. x \in Group(kind, 3, r) /\ y \in Group(kind, 2, x) /\ q \in Group(kind, 1, y)
    BY <1>1, <1>4 DEF Leads
  <2>3. Posted(x, 3, k)
    BY <2>2, <1>4
  <2>4. Left(x, 2, k)
    BY <2>1, <2>3, PostedLeft
  <2>5. Posted(y, 2, k)
    BY <2>1, <2>2, <2>4 DEF Ordered
  <2>6. Left(y, 1, k)
    BY <2>1, <2>5, PostedLeft
  <2> QED
    BY <2>1, <2>2, <2>6 DEF Ordered
<1> QED
  BY <1>0, <1>2, <1>3, <1>4

\* If it has the sum 0 there, nobody has come with anything.
LEMMA AllZero ==
  ASSUME TypeInv, Ordered, ZerosAgree, NEW r \in Rank, NEW k \in Nat, Open(k),
         \A x \in Group(kind, Last(kind), r) : Posted(x, Last(kind), k) /\ Count(x, Last(kind), k) = 0,
         NEW q \in Rank
  PROVE  Count(q, 1, k) = 0
<1>0. kind \in Kinds /\ Last(kind) \in 1..3
  BY Known
<1>1. PICK x, y \in Rank : Leads(kind, r, x, y, q)
  BY <1>0, GroupsLead
<1>2. CASE Last(kind) = 1
  BY <1>1, <1>2 DEF Leads
<1>3. CASE Last(kind) = 2
  <2>1. 1 \in 1..Last(kind) /\ 2 \in 1..Last(kind) /\ 2 > 1 /\ 1 = 2 - 1
    BY <1>3
  <2>2. y \in Group(kind, 2, r) /\ q \in Group(kind, 1, y)
    BY <1>1, <1>3 DEF Leads
  <2>3. Posted(y, 2, k) /\ Count(y, 2, k) = 0
    BY <2>2, <1>3
  <2>4. \A z \in Group(kind, 2 - 1, y) : Count(z, 2 - 1, k) = 0
    BY <2>1, <2>3 DEF ZerosAgree
  <2> QED
    BY <2>1, <2>2, <2>4
<1>4. CASE Last(kind) = 3
  <2>1. /\ 1 \in 1..Last(kind) /\ 2 \in 1..Last(kind) /\ 3 \in 1..Last(kind)
        /\ 2 > 1 /\ 1 = 2 - 1 /\ 3 > 1 /\ 2 = 3 - 1 /\ 3 = 2 + 1
    BY <1>4
  <2>2. x \in Group(kind, 3, r) /\ y \in Group(kind, 2, x) /\ q \in Group(kind, 1, y)
    BY <1>1, <1>4 DEF Leads
  <2>3. Posted(x, 3, k) /\ Count(x, 3, k) = 0
    BY <2>2, <1>4
  <2>4. \A z \in Group(kind, 3 - 1, x) : Count(z, 3 - 1, k) = 0
    BY <2>1, <2>3 DEF ZerosAgree
  <2>5. Left(x, 2, k)
    BY <2>1, <2>3, PostedLeft
  <2>6. Posted(y, 2, k) /\ Count(y, 2, k) = 0
    BY <2>1, <2>2, <2>4, <2>5 DEF Ordered
  <2>7. \A z \in Group(kind, 2 - 1, y) : Count(z, 2 - 1, k) = 0
    BY <2>1, <2>6 DEF ZerosAgree
  <2> QED
    BY <2>1, <2>2, <2>7
<1> QED
  BY <1>0, <1>2, <1>3, <1>4

\* Two ranks are at most one do_exchange apart, and a rank outside it is not ahead.
LEMMA Near ==
  ASSUME TypeInv, Ordered, NEW r \in Rank, NEW q \in Rank
  PROVE  round[r] <= round[q] + 1 /\ (stage[r] = 0 => round[r] <= round[q])
<1>0. /\ round[r] \in Nat /\ round[q] \in Nat /\ stage[r] \in 0..Last(kind) /\ Last(kind) \in 1..Last(kind)
      /\ stage[r] > 0 => round[r] > 0
  BY Known
<1>1. ASSUME NEW k \in Nat, Left(r, Last(kind), k) PROVE k <= round[q]
  <2>1. \A x \in Group(kind, Last(kind), r) : Posted(x, Last(kind), k)
    BY <1>0, <1>1 DEF Ordered
  <2>2. Posted(q, 1, k)
    BY <2>1, AllPosted
  <2> QED
    BY <2>2, <1>0 DEF Posted
<1>2. CASE stage[r] = 0
  <2>1. Left(r, Last(kind), round[r])
    BY <1>2 DEF Left
  <2> QED
    BY <2>1, <1>0, <1>1
<1>3. CASE stage[r] # 0
  <2>1. round[r] - 1 \in Nat /\ round[r] > round[r] - 1
    BY <1>0, <1>3
  <2>2. Left(r, Last(kind), round[r] - 1)
    BY <2>1 DEF Left
  <2>3. round[r] - 1 <= round[q]
    BY <2>1, <2>2, <1>1
  <2> QED
    BY <2>3, <1>0, <1>3
<1> QED
  BY <1>2, <1>3

-----------------------------------------------------------------------------
(* Progress of a rank.                                                     *)

\* r enters the exchange of stage s in the k-th do_exchange, and nobody any other.
Enters(r, s, k) ==
  \A q \in Rank, t \in 1..Last(kind), j \in Nat :
    Posted(q, t, j)' <=> Posted(q, t, j) \/ (q = r /\ t = s /\ j = k)

NobodyEnters ==
  \A q \in Rank, t \in 1..Last(kind), j \in Nat : Posted(q, t, j)' <=> Posted(q, t, j)

Leaves(r, s, k) ==
  \A q \in Rank, t \in 1..Last(kind), j \in Nat :
    Left(q, t, j)' <=> Left(q, t, j) \/ (q = r /\ t = s /\ j = k)

NobodyLeaves ==
  \A q \in Rank, t \in 1..Last(kind), j \in Nat : Left(q, t, j)' <=> Left(q, t, j)

\* Who enters what at the start of do_exchange,
LEMMA EnterMoves ==
  ASSUME TypeInv, NEW r \in Rank, NEW c, EnterDoes(r, c)
  PROVE  Enters(r, 1, round[r] + 1) /\ NobodyLeaves /\ ~Posted(r, 1, round[r] + 1)
<1>1. Ranges
  BY DEF TypeInv
<1>2. /\ stage[r] = 0 /\ round' = [round EXCEPT ![r] = @ + 1] /\ stage' = [stage EXCEPT ![r] = 1]
  BY DEF EnterDoes
<1>3. /\ round'[r] = round[r] + 1 /\ stage'[r] = 1
      /\ \A q \in Rank : q # r => round'[q] = round[q] /\ stage'[q] = stage[q]
  BY <1>1, <1>2 DEF Ranges
<1>4. ASSUME NEW q \in Rank, NEW t \in 1..Last(kind), NEW j \in Nat
      PROVE  /\ Posted(q, t, j)' <=> Posted(q, t, j) \/ (q = r /\ t = 1 /\ j = round[r] + 1)
             /\ Left(q, t, j)' <=> Left(q, t, j)
  <2>1. CASE q = r
    BY <2>1, <1>2, <1>3, Known DEF Posted, Left
  <2>2. CASE q # r
    BY <2>2, <1>3 DEF Posted, Left
  <2> QED
    BY <2>1, <2>2
<1>5. ~Posted(r, 1, round[r] + 1)
  BY Known DEF Posted
<1> QED
  BY <1>4, <1>5 DEF Enters, NobodyLeaves

\* between two of its exchanges,
LEMMA NextMoves ==
  ASSUME TypeInv, NEW r \in Rank, NEW s \in 1..Last(kind), NEW t \in 1..Last(kind), t = s + 1,
         stage[r] = s, round' = round, stage' = [stage EXCEPT ![r] = t]
  PROVE  Enters(r, t, round[r]) /\ Leaves(r, s, round[r]) /\ ~Posted(r, t, round[r])
<1>1. Ranges
  BY DEF TypeInv
<1>2. stage'[r] = t /\ \A q \in Rank : q # r => stage'[q] = stage[q]
  BY <1>1 DEF Ranges
<1>3. ASSUME NEW q \in Rank, NEW i \in 1..Last(kind), NEW j \in Nat
      PROVE  /\ Posted(q, i, j)' <=> Posted(q, i, j) \/ (q = r /\ i = t /\ j = round[r])
             /\ Left(q, i, j)' <=> Left(q, i, j) \/ (q = r /\ i = s /\ j = round[r])
  <2>1. CASE q = r
    BY <2>1, <1>2, Known DEF Posted, Left
  <2>2. CASE q # r
    BY <2>2, <1>2 DEF Posted, Left
  <2> QED
    BY <2>1, <2>2
<1>4. ~Posted(r, t, round[r])
  BY Known DEF Posted
<1> QED
  BY <1>3, <1>4 DEF Enters, Leaves

\* and at its end.
LEMMA FinishMoves ==
  ASSUME TypeInv, NEW r \in Rank, FinishDoes(r)
  PROVE  NobodyEnters /\ Leaves(r, Last(kind), round[r])
<1>1. Ranges /\ round' = round /\ stage' = [stage EXCEPT ![r] = 0] /\ stage[r] = Last(kind)
  BY DEF TypeInv, FinishDoes, Ended
<1>2. stage'[r] = 0 /\ \A q \in Rank : q # r => stage'[q] = stage[q]
  BY <1>1 DEF Ranges
<1>3. ASSUME NEW q \in Rank, NEW i \in 1..Last(kind), NEW j \in Nat
      PROVE  /\ Posted(q, i, j)' <=> Posted(q, i, j)
             /\ Left(q, i, j)' <=> Left(q, i, j) \/ (q = r /\ i = Last(kind) /\ j = round[r])
  <2>1. CASE q = r
    BY <2>1, <1>1, <1>2, Known DEF Posted, Left
  <2>2. CASE q # r
    BY <2>2, <1>1, <1>2 DEF Posted, Left
  <2> QED
    BY <2>1, <2>2
<1> QED
  BY <1>3 DEF NobodyEnters, Leaves

-----------------------------------------------------------------------------
(* The order of the exchanges.                                             *)

\* The order is kept if a rank only leaves what its whole group has entered.
LEMMA OrderedStep ==
  ASSUME TypeInv, Ordered, kind' = kind, NEW r \in Rank, NEW s \in 1..Last(kind),
         \A q \in Rank, t \in 1..Last(kind), j \in Nat : Posted(q, t, j) => Posted(q, t, j)',
         \/ NobodyLeaves
         \/ /\ Leaves(r, s, round[r])
            /\ \A x \in Group(kind, s, r) : Posted(x, s, round[r])
  PROVE  Ordered'
<1> SUFFICES ASSUME NEW q \in Rank, NEW t \in 1..Last(kind), NEW j \in Nat, Left(q, t, j)',
                    NEW x \in Group(kind, t, q)
             PROVE  Posted(x, t, j)'
  BY kind' = kind DEF Ordered
<1>1. x \in Rank
  BY Known, GroupType
<1>2. CASE Left(q, t, j)
  <2>1. Posted(x, t, j)
    BY <1>2 DEF Ordered
  <2> QED
    BY <2>1, <1>1
<1>3. CASE ~Left(q, t, j)
  <2>1. q = r /\ t = s /\ j = round[r] /\ \A y \in Group(kind, s, r) : Posted(y, s, round[r])
    BY <1>3 DEF NobodyLeaves, Leaves
  <2>2. Posted(x, t, j)
    BY <2>1
  <2> QED
    BY <2>2, <1>1
<1> QED
  BY <1>2, <1>3

\* The place for the count that r posts is free: nobody looks there for another one.
Free(r, s, k) ==
  /\ ~Posted(r, s, k)
  /\ \A x \in Rank, t \in 1..Last(kind), j \in Nat :
       Open(j)' /\ Posted(x, t, j) /\ Slot(j) = Slot(k) => j = k

\* Two exchanges with one buffer are at least two apart.
LEMMA SlotsDiffer ==
  ASSUME NEW j \in Nat, NEW k \in Nat, Slot(j) = Slot(k), j # k
  PROVE  j + 2 <= k \/ k + 2 <= j
BY DEF Slot

\* Nobody needs the buffer that the start of do_exchange writes,
LEMMA EnterIsFree ==
  ASSUME TypeInv, Ordered, NEW r \in Rank, NEW c, EnterDoes(r, c)
  PROVE  Free(r, 1, round[r] + 1) /\ \A j \in Nat : Open(j)' => Open(j)
<1>0. Ranges /\ \A q \in Rank : round[q] \in Nat
  BY Known DEF TypeInv
<1>1. ~Posted(r, 1, round[r] + 1)
  BY EnterMoves
<1>2. stage[r] = 0 /\ round'[r] = round[r] + 1 /\ \A q \in Rank : q # r => round'[q] = round[q]
  BY <1>0 DEF EnterDoes, Ranges
<1>3. ASSUME NEW x \in Rank, NEW t \in 1..Last(kind), NEW j \in Nat,
             Open(j)', Posted(x, t, j), Slot(j) = Slot(round[r] + 1), j # round[r] + 1
      PROVE  FALSE
  <2>1. PICK y \in Rank : round'[y] <= j
    BY <1>3 DEF Open
  <2>2. round[r] <= round[y] /\ round[x] <= round[r] + 1 /\ round[r] \in Nat /\ round[x] \in Nat /\ round[y] \in Nat
    BY <1>0, <1>2, Near
  <2>3. j <= round[x]
    BY <1>3, <2>2 DEF Posted
  <2>4. round[r] <= j
    BY <2>1, <2>2, <1>2
  <2>5. round[r] + 1 \in Nat
    BY <2>2
  <2>6. j + 2 <= round[r] + 1 \/ round[r] + 1 + 2 <= j
    BY <1>3, <2>5, SlotsDiffer
  <2> QED
    BY <2>2, <2>3, <2>4, <2>6
<1>4. ASSUME NEW j \in Nat, Open(j)' PROVE Open(j)
  <2>1. PICK y \in Rank : round'[y] <= j
    BY <1>4 DEF Open
  <2>2. CASE y # r
    BY <2>1, <2>2, <1>2 DEF Open
  <2>3. CASE y = r
    <3>1. round[r] + 1 <= j
      BY <2>1, <2>3, <1>2
    <3> QED
      BY <3>1, <1>0 DEF Open
  <2> QED
    BY <2>2, <2>3
<1> QED
  BY <1>1, <1>3, <1>4 DEF Free

\* nor the one of its next exchange.
LEMMA NextIsFree ==
  ASSUME TypeInv, Ordered, NEW r \in Rank, NEW t \in 1..Last(kind), round' = round,
         ~Posted(r, t, round[r])
  PROVE  Free(r, t, round[r]) /\ \A j \in Nat : Open(j)' => Open(j)
<1>0. \A q \in Rank : round[q] \in Nat
  BY Known
<1>1. ASSUME NEW x \in Rank, NEW i \in 1..Last(kind), NEW j \in Nat,
             Open(j)', Posted(x, i, j), Slot(j) = Slot(round[r]), j # round[r]
      PROVE  FALSE
  <2>1. PICK y \in Rank : round[y] <= j
    BY <1>1 DEF Open
  <2>2. /\ round[r] <= round[y] + 1 /\ round[x] <= round[r] + 1
        /\ round[r] \in Nat /\ round[x] \in Nat /\ round[y] \in Nat
    BY <1>0, Near
  <2>3. j <= round[x]
    BY <1>1, <2>2 DEF Posted
  <2>4. j + 2 <= round[r] \/ round[r] + 2 <= j
    BY <1>1, <2>2, SlotsDiffer
  <2> QED
    BY <2>1, <2>2, <2>3, <2>4
<1> QED
  BY <1>1 DEF Free, Open

-----------------------------------------------------------------------------
(* Counts and messages.                                                    *)

\* One count changes when a rank posts.
LEMMA CountStep ==
  ASSUME TypeInv, NEW r \in Rank, NEW s \in 1..Last(kind), NEW k \in Nat, NEW x, NEW c,
         PostCount(r, s, k, x, c)
  PROVE  \A q \in Rank, t \in 1..Last(kind), j \in Nat :
           Count(q, t, j)' = IF q = r /\ t = s /\ Slot(j) = Slot(k) THEN c ELSE Count(q, t, j)
<1> SUFFICES ASSUME NEW q \in Rank, NEW t \in 1..Last(kind), NEW j \in Nat
             PROVE  Count(q, t, j)' = IF q = r /\ t = s /\ Slot(j) = Slot(k) THEN c ELSE Count(q, t, j)
  OBVIOUS
<1>1. t \in Stages /\ Slot(j) \in 0..1
  BY Known, SlotIs
<1> QED
  BY <1>1 DEF PostCount, Count

\* Nobody of the group leaves before r enters.
LEMMA NotBefore ==
  ASSUME TypeInv, Ordered, NEW r \in Rank, NEW s \in 1..Last(kind), NEW k \in Nat, ~Posted(r, s, k),
         NEW q \in Rank, r \in Group(kind, s, q) \/ q \in Group(kind, s, r)
  PROVE  ~Left(q, s, k) /\ r \in Group(kind, s, q)
<1>1. r \in Group(kind, s, q)
  BY Known, GroupType
<1> QED
  BY <1>1 DEF Ordered

\* Counts of 0 are handed on if a rank posts 0 only after the sum 0 (extracount).
LEMMA ZerosStep ==
  ASSUME TypeInv, Ordered, ZerosAgree, kind' = kind,
         NEW r \in Rank, NEW s \in 1..Last(kind), NEW k \in Nat, NEW x, NEW c,
         PostCount(r, s, k, x, c), Enters(r, s, k), Free(r, s, k),
         \A j \in Nat : Open(j)' => Open(j),
         s > 1 /\ x = 0 => \A y \in Group(kind, s - 1, r) : Count(y, s - 1, k) = 0
  PROVE  ZerosAgree'
<1> SUFFICES ASSUME NEW q \in Rank, NEW t \in 1..Last(kind), NEW j \in Nat,
                    Open(j)', t > 1, Posted(q, t, j)', Count(q, t, j)' = 0,
                    NEW y \in Group(kind, t - 1, q)
             PROVE  Count(y, t - 1, j)' = 0
  BY kind' = kind DEF ZerosAgree
<1>1. \A p \in Rank, i \in 1..Last(kind), l \in Nat :
        Count(p, i, l)' = IF p = r /\ i = s /\ Slot(l) = Slot(k) THEN c ELSE Count(p, i, l)
  BY CountStep
<1>2. t - 1 \in 1..Last(kind) /\ y \in Rank /\ t = (t - 1) + 1 /\ t - 1 # t
  <2>1. PICK n \in 1..3 : n = Last(kind)
    BY Known
  <2>2. t \in 1..n /\ t > 1
    BY <2>1
  <2>3. t - 1 \in 1..n /\ t = (t - 1) + 1 /\ t - 1 # t
    BY <2>2
  <2>4. t - 1 \in 1..Last(kind) /\ kind \in Kinds
    BY <2>1, <2>3, Known
  <2> QED
    BY <2>3, <2>4, GroupType
<1>3. CASE q = r /\ t = s /\ j = k
  <2>1. c = 0
    BY <1>1, <1>3
  <2>2. x = 0
    BY <2>1 DEF PostCount
  <2>3. Count(y, t - 1, j) = 0
    BY <2>2, <1>3
  <2> QED
    BY <2>3, <1>1, <1>2, <1>3
<1>4. CASE ~(q = r /\ t = s /\ j = k)
  <2>1. Posted(q, t, j)
    BY <1>4 DEF Enters
  <2>2. ~(q = r /\ t = s /\ Slot(j) = Slot(k))
    BY <2>1, <1>4 DEF Free
  <2>3. Count(q, t, j) = 0 /\ Open(j)
    BY <2>2, <1>1
  <2>4. Count(y, t - 1, j) = 0
    BY <2>1, <2>3 DEF ZerosAgree
  <2>5. ~(y = r /\ t - 1 = s /\ Slot(j) = Slot(k))
    <3> SUFFICES ASSUME y = r, t - 1 = s, Slot(j) = Slot(k) PROVE FALSE
      OBVIOUS
    <3>1. j = k
      BY <2>1 DEF Free
    <3>2. Left(q, s, k)
      BY <2>1, <3>1, <1>2, PostedLeft
    <3>3. ~Posted(r, s, k)
      BY DEF Free
    <3> QED
      BY <3>2, <3>3, NotBefore
  <2> QED
    BY <2>4, <2>5, <1>1, <1>2
<1> QED
  BY <1>3, <1>4

\* r may leave an exchange in which nothing is left for it.
LeavesEmpty(r) ==
  \/ NobodyLeaves
  \/ \E s \in 1..Last(kind) : Leaves(r, s, round[r]) /\ DOMAIN wire[r][s][Slot(round[r])] = {}

\* A rank leaves an exchange only when nothing is on the wire for it.
LEMMA NotLeftStays ==
  ASSUME NEW r \in Rank, LeavesEmpty(r), NEW q \in Rank, NEW t \in 1..Last(kind), NEW j \in Nat,
         ~Left(q, t, j), DOMAIN wire[q][t][Slot(j)] # {}
  PROVE  ~Left(q, t, j)'
<1>1. CASE NobodyLeaves
  BY <1>1 DEF NobodyLeaves
<1>2. CASE \E s \in 1..Last(kind) : Leaves(r, s, round[r]) /\ DOMAIN wire[r][s][Slot(round[r])] = {}
  BY <1>2 DEF Leaves
<1> QED
  BY <1>1, <1>2 DEF LeavesEmpty

\* What a rank puts on the wire it has counted.
LEMMA WirePosted ==
  ASSUME TypeInv, Ordered, WireIsCounted, kind' = kind, TypeInv',
         NEW r \in Rank, NEW s \in 1..Last(kind), NEW k \in Nat, NEW x, NEW c,
         PostCount(r, s, k, x, c), PostWire(r, s, k), Enters(r, s, k), Free(r, s, k),
         LeavesEmpty(r), \A q \in Rank : Left(q, s, k)' => Left(q, s, k)
  PROVE  WireIsCounted'
<1> SUFFICES ASSUME NEW q \in Rank, NEW t \in Stages, NEW p \in 0..1, DOMAIN wire'[q][t][p] # {}
             PROVE  \E j \in Nat : /\ Slot(j) = p /\ ~Left(q, t, j)'
                                   /\ \E y \in Group(kind, t, q) : Posted(y, t, j)' /\ Count(y, t, j)' > 0
  BY kind' = kind DEF WireIsCounted
<1>0. \A y \in Rank, i \in 1..Last(kind), j \in Nat :
        Count(y, i, j)' = IF y = r /\ i = s /\ Slot(j) = Slot(k) THEN c ELSE Count(y, i, j)
  BY CountStep
<1>1. CASE DOMAIN wire[q][t][p] # {}
  <2>1. PICK j \in Nat : /\ Slot(j) = p /\ ~Left(q, t, j)
                         /\ \E y \in Group(kind, t, q) : Posted(y, t, j) /\ Count(y, t, j) > 0
    BY <1>1 DEF WireIsCounted
  <2>2. PICK y \in Group(kind, t, q) : Posted(y, t, j) /\ Count(y, t, j) > 0
    BY <2>1
  <2>3. t \in 1..Last(kind)
    <3>1. WireType(q, t, p) /\ t \in Nat /\ t >= 1 /\ Last(kind) \in 1..3
      BY Known DEF TypeInv, Stages
    <3> QED
      BY <3>1, <1>1 DEF WireType
  <2>4. y \in Rank
    BY <2>3, Known, GroupType
  <2>5. ~Left(q, t, j)'
    BY <2>1, <2>3, <1>1, NotLeftStays
  <2>6. Open(j)'
    <3>1. round'[q] \in Nat
      BY DEF TypeInv, Ranges
    <3>2. round'[q] <= j
      BY <2>5, <3>1 DEF Left
    <3> QED
      BY <3>2 DEF Open
  <2>7. ~(y = r /\ t = s /\ Slot(j) = Slot(k))
    BY <2>2, <2>3, <2>4, <2>6 DEF Free
  <2>8. Count(y, t, j)' > 0 /\ Posted(y, t, j)'
    BY <2>2, <2>3, <2>4, <2>7, <1>0 DEF Enters
  <2> QED
    BY <2>1, <2>5, <2>8
<1>2. CASE DOMAIN wire[q][t][p] = {}
  <2>1. t = s /\ p = Slot(k) /\ q \in Group(kind, s, r) /\ ~Without(r, s)
    BY <1>2 DEF PostWire
  <2>2. ~Left(q, s, k) /\ r \in Group(kind, s, q)
    BY <2>1, NotBefore DEF Free
  <2>3. ~Left(q, s, k)'
    BY <2>2
  <2>4. c > 0
    BY <2>1 DEF PostCount
  <2>5. Count(r, s, k)' > 0 /\ Posted(r, s, k)'
    BY <2>4, <1>0 DEF Enters
  <2> QED
    BY <2>1, <2>2, <2>3, <2>5
<1> QED
  BY <1>1, <1>2

\* Nothing else comes on the wire.
LEMMA WireKept ==
  ASSUME TypeInv, WireIsCounted, kind' = kind, posted' = posted, NEW r \in Rank,
         \A q \in Rank, t \in Stages, p \in 0..1 : DOMAIN wire'[q][t][p] \subseteq DOMAIN wire[q][t][p],
         NobodyEnters, LeavesEmpty(r)
  PROVE  WireIsCounted'
<1> SUFFICES ASSUME NEW q \in Rank, NEW t \in Stages, NEW p \in 0..1, DOMAIN wire'[q][t][p] # {}
             PROVE  \E j \in Nat : /\ Slot(j) = p /\ ~Left(q, t, j)'
                                   /\ \E y \in Group(kind, t, q) : Posted(y, t, j)' /\ Count(y, t, j)' > 0
  BY kind' = kind DEF WireIsCounted
<1>1. DOMAIN wire[q][t][p] # {}
  OBVIOUS
<1>2. PICK j \in Nat : /\ Slot(j) = p /\ ~Left(q, t, j)
                       /\ \E y \in Group(kind, t, q) : Posted(y, t, j) /\ Count(y, t, j) > 0
  BY <1>1 DEF WireIsCounted
<1>3. PICK y \in Group(kind, t, q) : Posted(y, t, j) /\ Count(y, t, j) > 0
  BY <1>2
<1>4. t \in 1..Last(kind)
  <2>1. WireType(q, t, p) /\ t \in Nat /\ t >= 1 /\ Last(kind) \in 1..3
    BY Known DEF TypeInv, Stages
  <2> QED
    BY <2>1, <1>1 DEF WireType
<1>5. y \in Rank
  BY <1>4, Known, GroupType
<1>6. ~Left(q, t, j)'
  BY <1>1, <1>2, <1>4, NotLeftStays
<1>7. Posted(y, t, j)' /\ Count(y, t, j)' > 0
  BY <1>3, <1>4, <1>5, posted' = posted DEF NobodyEnters, Count
<1> QED
  BY <1>2, <1>6, <1>7

-----------------------------------------------------------------------------
(* Silence.                                                                *)

\* A step of r as the others see it.
Alone(r) ==
  \A q \in Rank : q # r =>
    /\ pc'[q] = pc[q] /\ sendCount'[q] = sendCount[q] /\ out'[q] = out[q]
    /\ deferred'[q] = deferred[q] /\ total'[q] = total[q]
    /\ stage'[q] = stage[q] /\ round'[q] = round[q]
    /\ \A s \in 1..Last(kind), k \in Nat : Count(q, s, k)' = Count(q, s, k)

\* A rank stays quiet while others make steps.
LEMMA QuietKept ==
  ASSUME kind' = kind, NEW r \in Rank, Alone(r), NEW q \in Rank, q # r, NEW k \in Nat, Quiet(q, k)
  PROVE  Quiet(q, k)'
<1>1. /\ pc'[q] = pc[q] /\ sendCount'[q] = sendCount[q] /\ out'[q] = out[q]
      /\ deferred'[q] = deferred[q] /\ total'[q] = total[q]
      /\ stage'[q] = stage[q] /\ round'[q] = round[q]
      /\ \A s \in 1..Last(kind) : Count(q, s, k)' = Count(q, s, k)
  BY DEF Alone
<1>2. \A s \in 1..Last(kind) : Posted(q, s, k)' <=> Posted(q, s, k)
  BY <1>1 DEF Posted
<1> QED
  BY <1>1, <1>2, kind' = kind DEF Quiet

\* A step of r in which nobody goes on to the next do_exchange.
Steady(r) ==
  /\ Alone(r) /\ round' = round
  /\ \A q \in Rank, k \in Nat : Count(q, 1, k)' = Count(q, 1, k)

\* It keeps silence if a quiet rank remains quiet and only silence lets one go.
LEMMA SteadyStep ==
  ASSUME TypeInv, SilenceIsQuiet, GoneInSilence, NobodyGoesOn, kind' = kind,
         NEW r \in Rank, Steady(r),
         round[r] > 0 /\ Silent(round[r]) /\ Quiet(r, round[r]) => Quiet(r, round[r])',
         pc[r] = "gone" => stage'[r] = 0,
         pc'[r] = "gone" /\ pc[r] # "gone" =>
           /\ stage'[r] = 0 /\ round[r] > 0 /\ Silent(round[r])
           /\ \A x \in Rank : round[x] >= round[r]
  PROVE  SilenceIsQuiet' /\ GoneInSilence' /\ NobodyGoesOn'
<1>0. \A q \in Rank : round[q] \in Nat
  BY Known
<1>1. round' = round /\ Alone(r) /\ \A q \in Rank, k \in Nat : Count(q, 1, k)' = Count(q, 1, k)
  BY DEF Steady
<1>2. \A k \in Nat : Silent(k)' <=> Silent(k)
  <2> SUFFICES ASSUME NEW k \in Nat PROVE Silent(k)' <=> Silent(k)
    OBVIOUS
  <2>1. \A q \in Rank : Count(q, 1, k)' = Count(q, 1, k)
    BY <1>1
  <2> QED
    BY <2>1, <1>1 DEF Silent
<1>3. SilenceIsQuiet'
  <2> SUFFICES ASSUME NEW k \in Nat, NEW q \in Rank, k > 0, Silent(k)', round'[q] = k
               PROVE  Quiet(q, k)'
    BY DEF SilenceIsQuiet
  <2>1. Silent(k) /\ round[q] = k
    BY <1>1, <1>2
  <2>2. Quiet(q, k)
    BY <2>1 DEF SilenceIsQuiet
  <2>3. CASE q # r
    BY <2>2, <2>3, <1>1, QuietKept, kind' = kind
  <2>4. CASE q = r
    <3>1. Quiet(r, round[r])'
      BY <2>1, <2>2, <2>4
    <3>2. round'[r] = k /\ round[r] = k
      BY <2>1, <2>4, <1>1
    <3> QED
      BY <3>1, <3>2, <2>4
  <2> QED
    BY <2>3, <2>4
<1>4. ASSUME NEW q \in Rank, pc'[q] = "gone"
      PROVE  /\ stage'[q] = 0 /\ round[q] > 0 /\ Silent(round[q])
             /\ \A x \in Rank : round[x] >= round[q]
  <2>1. CASE pc[q] = "gone"
    <3>1. /\ stage[q] = 0 /\ round[q] > 0 /\ Silent(round[q])
          /\ \A x \in Rank : round[x] >= round[q]
      BY <2>1 DEF GoneInSilence
    <3>2. stage'[q] = 0
      BY <3>1, <2>1, <1>1 DEF Alone
    <3> QED
      BY <3>1, <3>2
  <2>2. CASE pc[q] # "gone"
    <3>1. q = r
      BY <2>2, <1>1, <1>4 DEF Alone
    <3> QED
      BY <3>1, <2>2, <1>4
  <2> QED
    BY <2>1, <2>2
<1>6. GoneInSilence'
  <2> SUFFICES ASSUME NEW q \in Rank, pc'[q] = "gone"
               PROVE  /\ stage'[q] = 0 /\ round'[q] > 0 /\ Silent(round[q])'
                      /\ \A x \in Rank : round'[x] >= round'[q]
    BY DEF GoneInSilence
  <2>1. PICK k \in Nat : k = round[q]
    BY <1>0
  <2>2. Silent(k)' /\ round'[q] = k
    BY <2>1, <1>1, <1>2, <1>4
  <2> QED
    BY <2>1, <2>2, <1>1, <1>4
<1>5. NobodyGoesOn'
  <2> SUFFICES ASSUME NEW q \in Rank, NEW k \in Nat, k > 0, round[q] = k + 1, Open(k)
               PROVE  \E x \in Rank : Count(x, 1, k)' # 0
    BY <1>1 DEF NobodyGoesOn, Open
  <2>1. PICK x \in Rank : Count(x, 1, k) # 0
    BY DEF NobodyGoesOn
  <2> QED
    BY <2>1, <1>1
<1> QED
  BY <1>3, <1>5, <1>6

\* Nobody receives anything in silence.
LEMMA NothingInSilence ==
  ASSUME TypeInv, WireIsCounted, SilenceIsQuiet, NEW s \in 1..Last(kind),
         NEW k \in Nat, k > 0, Silent(k), NEW q \in Rank, round[q] = k, NEW p \in 0..1
  PROVE  DOMAIN wire[q][s][p] = {}
<1> SUFFICES ASSUME DOMAIN wire[q][s][p] # {} PROVE FALSE
  OBVIOUS
<1>0. s \in Stages /\ kind \in Kinds /\ round[q] \in Nat
  BY Known
<1>1. PICK j \in Nat : /\ Slot(j) = p /\ ~Left(q, s, j)
                       /\ \E x \in Group(kind, s, q) : Posted(x, s, j) /\ Count(x, s, j) > 0
  BY <1>0 DEF WireIsCounted
<1>2. PICK x \in Group(kind, s, q) : Posted(x, s, j) /\ Count(x, s, j) > 0
  BY <1>1
<1>3. x \in Rank /\ round[x] \in Nat
  BY <1>0, Known, GroupType
<1>4. round[q] <= j /\ j <= round[x] /\ round[x] <= k
  BY <1>0, <1>1, <1>2, <1>3 DEF Left, Posted, Silent
<1>5. j = k /\ round[x] = k
  BY <1>0, <1>3, <1>4
<1>6. Quiet(x, k)
  BY <1>3, <1>5 DEF SilenceIsQuiet
<1>7. Count(x, s, k) = 0
  BY <1>2, <1>5, <1>6 DEF Quiet
<1> QED
  BY <1>2, <1>5, <1>7

\* In silence the sums are 0.
LEMMA SumInSilence ==
  ASSUME TypeInv, SilenceIsQuiet, NEW r \in Rank, NEW s \in 1..Last(kind), Ended(r, s),
         round[r] > 0, Silent(round[r])
  PROVE  SumOf(r, s) = 0
<1>0. kind \in Kinds /\ round[r] \in Nat
  BY Known
<1>1. ASSUME NEW x \in Group(kind, s, r) PROVE Count(x, s, round[r]) = 0
  <2>1. x \in Rank /\ round[x] \in Nat
    BY <1>0, Known, GroupType
  <2>2. Posted(x, s, round[r])
    BY DEF Ended
  <2>3. round[x] = round[r]
    BY <2>1, <2>2, <1>0 DEF Posted, Silent
  <2>4. Quiet(x, round[r])
    BY <2>1, <2>3, <1>0 DEF SilenceIsQuiet
  <2> QED
    BY <2>2, <2>4 DEF Quiet
<1>2. total[r] = 0
  BY <1>0 DEF SilenceIsQuiet, Quiet
<1> QED
  BY <1>1, <1>2, SumIs

-----------------------------------------------------------------------------
(* The steps.                                                              *)

\* The parts of the invariant.
LEMMA InvParts ==
  IInv => /\ TypeInv /\ Ordered /\ ZerosAgree /\ WireIsCounted
          /\ SilenceIsQuiet /\ GoneInSilence /\ NobodyGoesOn
BY DEF IInv

\* A step that only touches the queues of r.
LEMMA SendStep ==
  ASSUME IInv, NEW r \in Rank, Send(r), kind' = kind
  PROVE  IInv'
<1>1. SendDoes(r) /\ TypeInv'
  BY InvParts, SendType, kind' = kind
<1>2. /\ pc' = pc /\ deferred' = deferred /\ stage' = stage /\ round' = round /\ total' = total
      /\ posted' = posted /\ wire' = wire /\ pc[r] = "running"
      /\ \A q \in Rank : q # r => out'[q] = out[q] /\ sendCount'[q] = sendCount[q]
  BY <1>1 DEF SendDoes
<1>3. NobodyEnters /\ NobodyLeaves
  BY <1>2 DEF NobodyEnters, NobodyLeaves, Posted, Left
<1>4. Ordered'
  <2>1. PICK s \in 1..Last(kind) : TRUE
    BY InvParts, Known
  <2>2. \A q \in Rank, t \in 1..Last(kind), j \in Nat : Posted(q, t, j) => Posted(q, t, j)'
    BY <1>3 DEF NobodyEnters
  <2> QED
    BY <2>2, <1>3, InvParts, OrderedStep, kind' = kind
<1>5. ZerosAgree'
  BY <1>2, InvParts, kind' = kind DEF ZerosAgree, Open, Posted, Count
<1>6. WireIsCounted'
  <2>1. \A q \in Rank, t \in Stages, p \in 0..1 : DOMAIN wire'[q][t][p] \subseteq DOMAIN wire[q][t][p]
    BY <1>2
  <2>2. LeavesEmpty(r)
    BY <1>3 DEF LeavesEmpty
  <2> QED
    BY <2>1, <2>2, <1>2, <1>3, InvParts, WireKept, kind' = kind
<1>7. SilenceIsQuiet' /\ GoneInSilence' /\ NobodyGoesOn'
  <2>1. Steady(r)
    BY <1>2 DEF Steady, Alone, Count
  <2>2. ~Quiet(r, round[r])
    BY <1>2 DEF Quiet
  <2>3. pc[r] # "gone" /\ pc'[r] # "gone"
    BY <1>2
  <2> QED
    BY <2>1, <2>2, <2>3, InvParts, SteadyStep, kind' = kind
<1> QED
  BY <1>1, <1>4, <1>5, <1>6, <1>7 DEF IInv

\* A receiver only runs while somebody has counted its message.
LEMMA ReceiveStep ==
  ASSUME IInv, NEW r \in Rank, Receive(r), kind' = kind
  PROVE  IInv'
<1>1. ReceiveDoes(r) /\ TypeInv'
  BY InvParts, ReceiveType, kind' = kind
<1>2. /\ pc' = pc /\ sendCount' = sendCount /\ stage' = stage /\ round' = round /\ total' = total
      /\ posted' = posted /\ stage[r] # 0 /\ DOMAIN wire[r][stage[r]][Slot(round[r])] # {}
      /\ \A q \in Rank : q # r => out'[q] = out[q] /\ deferred'[q] = deferred[q]
      /\ \A q \in Rank, t \in Stages, p \in 0..1 : DOMAIN wire'[q][t][p] \subseteq DOMAIN wire[q][t][p]
  BY <1>1 DEF ReceiveDoes
<1>3. NobodyEnters /\ NobodyLeaves
  BY <1>2 DEF NobodyEnters, NobodyLeaves, Posted, Left
<1>4. Ordered'
  <2>1. PICK s \in 1..Last(kind) : TRUE
    BY InvParts, Known
  <2>2. \A q \in Rank, t \in 1..Last(kind), j \in Nat : Posted(q, t, j) => Posted(q, t, j)'
    BY <1>3 DEF NobodyEnters
  <2> QED
    BY <2>2, <1>3, InvParts, OrderedStep, kind' = kind
<1>5. ZerosAgree'
  BY <1>2, InvParts, kind' = kind DEF ZerosAgree, Open, Posted, Count
<1>6. WireIsCounted'
  <2>1. LeavesEmpty(r)
    BY <1>3 DEF LeavesEmpty
  <2> QED
    BY <2>1, <1>2, <1>3, InvParts, WireKept, kind' = kind
<1>7. SilenceIsQuiet' /\ GoneInSilence' /\ NobodyGoesOn'
  <2>1. Steady(r)
    BY <1>2 DEF Steady, Alone, Count
  <2>2. stage[r] \in 1..Last(kind) /\ round[r] \in Nat
    <3>1. stage[r] \in 0..Last(kind) /\ Last(kind) \in 1..3 /\ round[r] \in Nat
      BY InvParts, Known
    <3> QED
      BY <3>1, <1>2
  <2>3. ~(round[r] > 0 /\ Silent(round[r]))
    <3> SUFFICES ASSUME round[r] > 0, Silent(round[r]) PROVE FALSE
      OBVIOUS
    <3>1. PICK s \in 1..Last(kind), k \in Nat : s = stage[r] /\ k = round[r]
      BY <2>2
    <3>2. PICK p \in 0..1 : p = Slot(k)
      BY SlotIs
    <3>3. DOMAIN wire[r][s][p] = {}
      BY <3>1, InvParts, NothingInSilence
    <3> QED
      BY <3>1, <3>2, <3>3, <1>2
  <2>4. pc[r] # "gone" /\ pc'[r] # "gone"
    BY <1>2, InvParts DEF GoneInSilence
  <2> QED
    BY <2>1, <2>3, <2>4, InvParts, SteadyStep, kind' = kind
<1> QED
  BY <1>1, <1>4, <1>5, <1>6, <1>7 DEF IInv

\* The next exchange begins with the sum of the one before.
LEMMA NextStep ==
  ASSUME IInv, NEW r \in Rank, NextStage(r), kind' = kind
  PROVE  IInv'
<1>1. (\E s \in 1..Last(kind) : \E c : s + 1 \in 1..Last(kind) /\ NextDoes(r, s, c)) /\ TypeInv'
  BY InvParts, NextType, kind' = kind
<1>2. PICK s \in 1..Last(kind) : \E c : s + 1 \in 1..Last(kind) /\ NextDoes(r, s, c)
  BY <1>1
<1>3. PICK c : s + 1 \in 1..Last(kind) /\ NextDoes(r, s, c)
  BY <1>2
<1>4. PICK t \in 1..Last(kind) : t = s + 1
  BY <1>3
<1>5. PICK k \in Nat : k = round[r]
  BY InvParts, Known
<1>6. PICK x \in Nat : x = SumOf(r, s)
  BY InvParts, SumIs
<1>7. /\ Ended(r, s) /\ pc' = pc /\ sendCount' = sendCount /\ deferred' = deferred /\ round' = round
      /\ stage' = [stage EXCEPT ![r] = t] /\ total' = [total EXCEPT ![r] = x]
      /\ PostOut(r, t) /\ PostWire(r, t, k) /\ PostCount(r, t, k, x, c)
  BY <1>3, <1>4, <1>5, <1>6 DEF NextDoes
<1>8. Enters(r, t, round[r]) /\ Leaves(r, s, round[r]) /\ ~Posted(r, t, round[r])
  <2>1. stage[r] = s
    BY <1>7 DEF Ended
  <2> QED
    BY <2>1, <1>4, <1>7, InvParts, NextMoves
<1>9. Enters(r, t, k) /\ Leaves(r, s, k) /\ ~Posted(r, t, k)
  BY <1>5, <1>8
<1>10. \A x1 \in Group(kind, s, r) : Posted(x1, s, round[r])
  BY <1>7 DEF Ended
<1>11. Ordered'
  <2>1. \A q \in Rank, i \in 1..Last(kind), j \in Nat : Posted(q, i, j) => Posted(q, i, j)'
    BY <1>8 DEF Enters
  <2> QED
    BY <2>1, <1>8, <1>10, InvParts, OrderedStep, kind' = kind
<1>12. Free(r, t, k) /\ \A j \in Nat : Open(j)' => Open(j)
  <2>1. Free(r, t, round[r]) /\ \A j \in Nat : Open(j)' => Open(j)
    BY <1>7, <1>8, InvParts, NextIsFree
  <2> QED
    BY <2>1, <1>5
<1>13. ZerosAgree'
  <2>1. s = t - 1 /\ s # t
    <3>1. s \in Int
      BY InvParts, Known
    <3> QED
      BY <3>1, <1>4
  <2>2. t > 1 /\ x = 0 => \A y \in Group(kind, t - 1, r) : Count(y, t - 1, k) = 0
    BY <2>1, <1>5, <1>6, InvParts, SumIs
  <2> QED
    BY <2>2, <1>7, <1>9, <1>12, InvParts, ZerosStep, kind' = kind
<1>14. WireIsCounted'
  <2>1. LeavesEmpty(r)
    BY <1>7, <1>8 DEF LeavesEmpty, Ended
  <2>2. \A q \in Rank : Left(q, t, k)' => Left(q, t, k)
    <3>1. s # t
      BY InvParts, Known, <1>4
    <3> QED
      BY <3>1, <1>9 DEF Leaves
  <2> QED
    BY <2>1, <2>2, <1>1, <1>7, <1>9, <1>12, InvParts, WirePosted, kind' = kind
<1>15. \A q \in Rank, i \in 1..Last(kind), j \in Nat :
         Count(q, i, j)' = IF q = r /\ i = t /\ Slot(j) = Slot(k) THEN c ELSE Count(q, i, j)
  BY <1>7, InvParts, CountStep
<1>16. SilenceIsQuiet' /\ GoneInSilence' /\ NobodyGoesOn'
  <2>0. Ranges /\ stage[r] = s /\ s # 0 /\ t # 0 /\ t # 1 /\ 1 \in 1..Last(kind)
    <3>1. s \in 1..Last(kind) /\ Last(kind) \in 1..3 /\ 1 \in 1..Last(kind)
      BY InvParts, Known
    <3>2. s # 0 /\ t # 0 /\ t # 1
      BY <3>1, <1>4
    <3> QED
      BY <3>1, <3>2, <1>7, InvParts DEF TypeInv, Ended
  <2>1. Steady(r)
    <3>1. \A q \in Rank, j \in Nat : Count(q, 1, j)' = Count(q, 1, j)
      BY <2>0, <1>15
    <3>2. \A q \in Rank : q # r => stage'[q] = stage[q] /\ total'[q] = total[q]
      BY <2>0, <1>7 DEF Ranges
    <3>3. Alone(r)
      BY <3>2, <1>7, <1>15 DEF Alone, PostOut
    <3> QED
      BY <3>1, <3>3, <1>7 DEF Steady
  <2>2. ASSUME round[r] > 0, Silent(round[r]), Quiet(r, round[r]) PROVE Quiet(r, round[r])'
    <3>1. SumOf(r, s) = 0
      BY <2>2, <1>7, InvParts, SumInSilence
    <3>2. x = 0 /\ total'[r] = 0 /\ stage'[r] # 0
      BY <3>1, <1>6, <1>7, <2>0 DEF Ranges
    <3>3. DOMAIN out[r] = {} /\ DOMAIN out'[r] = {}
      BY <2>2, <1>7 DEF Quiet, PostOut
    <3>4. c = 0
      BY <3>2, <3>3, <1>7 DEF PostCount, Without
    <3>5. \A i \in 1..Last(kind) : Posted(r, i, k)' => Count(r, i, k)' = 0
      BY <3>4, <1>5, <1>9, <1>15, <2>2 DEF Enters, Quiet
    <3>6. pc[r] # "running" /\ sendCount[r] = 0 /\ deferred[r] = {}
      BY <2>2 DEF Quiet
    <3>7. Quiet(r, k)'
      BY <3>2, <3>3, <3>5, <3>6, <1>7, kind' = kind DEF Quiet
    <3> QED
      BY <3>7, <1>5, <1>7
  <2>3. pc[r] # "gone" /\ pc'[r] # "gone"
    BY <2>0, <1>7, InvParts DEF GoneInSilence
  <2> QED
    BY <2>1, <2>2, <2>3, InvParts, SteadyStep, kind' = kind
<1> QED
  BY <1>1, <1>11, <1>13, <1>14, <1>16 DEF IInv

\* The end of do_exchange: with the sum 0 it was silent.
LEMMA FinishStep ==
  ASSUME IInv, NEW r \in Rank, FinishExchange(r), kind' = kind
  PROVE  IInv'
<1>1. FinishDoes(r) /\ TypeInv'
  BY InvParts, FinishType, kind' = kind
<1>2. PICK s \in 1..Last(kind) : s = Last(kind)
  BY InvParts, Known
<1>3. PICK x \in Nat : x = SumOf(r, s)
  BY InvParts, SumIs
<1>4. PICK k \in Nat : k = round[r]
  BY InvParts, Known
<1>5. /\ Ended(r, s) /\ round' = round /\ posted' = posted /\ wire' = wire
      /\ stage' = [stage EXCEPT ![r] = 0] /\ total' = [total EXCEPT ![r] = x]
      /\ pc' = [pc EXCEPT ![r] = IF @ = "closing" /\ x = 0 THEN "gone" ELSE @]
      /\ deferred' = [deferred EXCEPT ![r] = {}]
      /\ \A q \in Rank : q # r => out'[q] = out[q] /\ sendCount'[q] = sendCount[q]
      /\ deferred[r] = {} => sendCount'[r] = 0 /\ DOMAIN out'[r] = {}
  BY <1>1, <1>2, <1>3 DEF FinishDoes
<1>6. Ranges /\ stage[r] = s /\ s # 0 /\ k > 0 /\ 1 \in 1..Last(kind)
  <2>1. /\ s \in 1..Last(kind) /\ Last(kind) \in 1..3 /\ 1 \in 1..Last(kind)
        /\ stage[r] \in 0..Last(kind) /\ (stage[r] > 0 => round[r] > 0)
    BY InvParts, Known
  <2>2. stage[r] = s
    BY <1>5 DEF Ended
  <2>3. s > 0
    BY <2>1
  <2> QED
    BY <2>1, <2>2, <2>3, <1>4, InvParts DEF TypeInv
<1>7. /\ stage'[r] = 0 /\ total'[r] = x /\ deferred'[r] = {}
      /\ pc'[r] = IF pc[r] = "closing" /\ x = 0 THEN "gone" ELSE pc[r]
      /\ \A q \in Rank : q # r => /\ stage'[q] = stage[q] /\ total'[q] = total[q]
                                  /\ deferred'[q] = deferred[q] /\ pc'[q] = pc[q]
  BY <1>5, <1>6 DEF Ranges
<1>8. NobodyEnters /\ Leaves(r, s, round[r])
  BY <1>1, <1>2, InvParts, FinishMoves
<1>9. \A y \in Group(kind, s, r) : Posted(y, s, round[r])
  BY <1>5 DEF Ended
<1>10. Ordered'
  <2>1. \A q \in Rank, i \in 1..Last(kind), j \in Nat : Posted(q, i, j) => Posted(q, i, j)'
    BY <1>8 DEF NobodyEnters
  <2> QED
    BY <2>1, <1>8, <1>9, InvParts, OrderedStep, kind' = kind
<1>11. \A q \in Rank, i \in 1..Last(kind), j \in Nat : Count(q, i, j)' = Count(q, i, j)
  BY <1>5 DEF Count
<1>12. ZerosAgree'
  <2> SUFFICES ASSUME NEW q \in Rank, NEW i \in 1..Last(kind), NEW j \in Nat,
                      Open(j)', i > 1, Posted(q, i, j)', Count(q, i, j)' = 0,
                      NEW y \in Group(kind, i - 1, q)
               PROVE  Count(y, i - 1, j)' = 0
    BY kind' = kind DEF ZerosAgree
  <2>1. Open(j) /\ Posted(q, i, j) /\ Count(q, i, j) = 0
    BY <1>5, <1>8, <1>11 DEF Open, NobodyEnters
  <2>2. Count(y, i - 1, j) = 0
    BY <2>1, InvParts DEF ZerosAgree
  <2> QED
    BY <2>2, <1>5 DEF Count
<1>13. WireIsCounted'
  <2>1. LeavesEmpty(r)
    BY <1>5, <1>8 DEF LeavesEmpty, Ended
  <2>2. \A q \in Rank, t \in Stages, p \in 0..1 : DOMAIN wire'[q][t][p] \subseteq DOMAIN wire[q][t][p]
    BY <1>5
  <2> QED
    BY <2>1, <2>2, <1>5, <1>8, InvParts, WireKept, kind' = kind
<1>14. pc[r] # "gone"
  BY <1>6, InvParts DEF GoneInSilence
<1>15. SilenceIsQuiet' /\ GoneInSilence' /\ NobodyGoesOn'
  <2>1. Steady(r)
    <3>1. \A q \in Rank, j \in Nat : Count(q, 1, j)' = Count(q, 1, j)
      BY <1>6, <1>11
    <3>2. Alone(r)
      BY <1>5, <1>7, <1>11 DEF Alone
    <3> QED
      BY <3>1, <3>2, <1>5 DEF Steady
  <2>2. ASSUME round[r] > 0, Silent(round[r]), Quiet(r, round[r]) PROVE Quiet(r, round[r])'
    <3>1. x = 0
      BY <2>2, <1>3, <1>5, InvParts, SumInSilence
    <3>2. pc[r] = "closing"
      BY <2>2, <1>6, <1>14 DEF Quiet, Ranges
    <3>3. sendCount'[r] = 0 /\ DOMAIN out'[r] = {}
      BY <2>2, <1>5 DEF Quiet
    <3>4. \A i \in 1..Last(kind) : Posted(r, i, k)' => Count(r, i, k)' = 0
      BY <1>4, <1>8, <1>11, <2>2 DEF NobodyEnters, Quiet
    <3>5. Quiet(r, k)'
      BY <3>1, <3>2, <3>3, <3>4, <1>7, kind' = kind DEF Quiet
    <3> QED
      BY <3>5, <1>4, <1>5
  <2>3. ASSUME pc'[r] = "gone"
        PROVE  /\ stage'[r] = 0 /\ round[r] > 0 /\ Silent(round[r])
               /\ \A y \in Rank : round[y] >= round[r]
    <3>1. x = 0
      BY <2>3, <1>7, <1>14
    <3>2. \A y \in Group(kind, Last(kind), r) : Posted(y, Last(kind), k) /\ Count(y, Last(kind), k) = 0
      BY <3>1, <1>2, <1>3, <1>4, <1>9, InvParts, SumIs
    <3>3. Open(k)
      BY <1>4 DEF Open
    <3>4. ASSUME NEW y \in Rank
          PROVE  Posted(y, 1, k) /\ Count(y, 1, k) = 0 /\ round[y] <= k + 1 /\ round[y] \in Nat
      <4>1. Posted(y, 1, k)
        BY <3>2, InvParts, AllPosted
      <4>2. Count(y, 1, k) = 0
        BY <3>2, <3>3, InvParts, AllZero
      <4>3. round[y] <= round[r] + 1 /\ round[y] \in Nat
        BY InvParts, Near, Known
      <4> QED
        BY <4>1, <4>2, <4>3, <1>4
    <3>5. \A y \in Rank : round[y] # k + 1
      BY <3>3, <3>4, <1>6, InvParts DEF NobodyGoesOn
    <3>6. \A y \in Rank : round[y] = k
      BY <3>4, <3>5 DEF Posted
    <3>7. Silent(k)
      BY <3>4, <3>6 DEF Silent
    <3> QED
      BY <3>6, <3>7, <1>4, <1>6, <1>7
  <2> QED
    BY <2>1, <2>2, <2>3, <1>14, InvParts, SteadyStep, kind' = kind
<1> QED
  BY <1>1, <1>10, <1>12, <1>13, <1>15 DEF IInv

\* The start of do_exchange, by a rank that has something or by a destructor.
LEMMA EnterStep ==
  ASSUME IInv, NEW r \in Rank, EnterExchange(r), kind' = kind
  PROVE  IInv'
<1>1. (\E c : EnterDoes(r, c)) /\ TypeInv'
  BY InvParts, EnterType, kind' = kind
<1>2. PICK c : EnterDoes(r, c)
  BY <1>1
<1>3. PICK k \in Nat : k = round[r] + 1
  BY InvParts, Known
<1>4. PICK t \in 1..Last(kind) : t = 1
  BY InvParts, Known
<1>5. PICK x : x = Extra(kind, sendCount[r])
  OBVIOUS
<1>6. /\ stage[r] = 0 /\ pc[r] # "gone" /\ pc'[r] # "gone" /\ (sendCount[r] = 0 => pc'[r] = "closing")
      /\ \A q \in Rank : q # r => pc'[q] = pc[q]
      /\ sendCount' = sendCount /\ deferred' = deferred
      /\ round' = [round EXCEPT ![r] = @ + 1] /\ stage' = [stage EXCEPT ![r] = t]
      /\ total' = [total EXCEPT ![r] = 0]
      /\ PostOut(r, t) /\ PostWire(r, t, k) /\ PostCount(r, t, k, x, c)
      /\ c = 0 => sendCount[r] = 0 /\ DOMAIN out'[r] = {} /\ deferred[r] = {}
  BY <1>2, <1>3, <1>4, <1>5 DEF EnterDoes
<1>7. Ranges /\ \A q \in Rank : round[q] \in Nat
  BY InvParts, Known DEF TypeInv
<1>8. /\ round'[r] = k /\ stage'[r] = t /\ total'[r] = 0
      /\ \A q \in Rank : q # r => round'[q] = round[q] /\ stage'[q] = stage[q] /\ total'[q] = total[q]
  BY <1>3, <1>6, <1>7 DEF Ranges
<1>9. Enters(r, t, k) /\ NobodyLeaves /\ ~Posted(r, t, k)
  <2>1. Enters(r, 1, round[r] + 1) /\ NobodyLeaves /\ ~Posted(r, 1, round[r] + 1)
    BY <1>2, InvParts, EnterMoves
  <2> QED
    BY <2>1, <1>3, <1>4
<1>10. Free(r, t, k) /\ \A j \in Nat : Open(j)' => Open(j)
  <2>1. Free(r, 1, round[r] + 1) /\ \A j \in Nat : Open(j)' => Open(j)
    BY <1>2, InvParts, EnterIsFree
  <2> QED
    BY <2>1, <1>3, <1>4
<1>11. Ordered'
  <2>1. \A q \in Rank, i \in 1..Last(kind), j \in Nat : Posted(q, i, j) => Posted(q, i, j)'
    BY <1>9 DEF Enters
  <2> QED
    BY <2>1, <1>9, InvParts, OrderedStep, kind' = kind
<1>12. ZerosAgree'
  <2>1. ~(t > 1)
    BY <1>4
  <2> QED
    BY <2>1, <1>6, <1>9, <1>10, InvParts, ZerosStep, kind' = kind
<1>13. WireIsCounted'
  <2>1. LeavesEmpty(r)
    BY <1>9 DEF LeavesEmpty
  <2>2. \A q \in Rank : Left(q, t, k)' => Left(q, t, k)
    BY <1>9 DEF NobodyLeaves
  <2> QED
    BY <2>1, <2>2, <1>1, <1>6, <1>9, <1>10, InvParts, WirePosted, kind' = kind
<1>14. \A q \in Rank, i \in 1..Last(kind), j \in Nat :
         Count(q, i, j)' = IF q = r /\ i = t /\ Slot(j) = Slot(k) THEN c ELSE Count(q, i, j)
  BY <1>6, InvParts, CountStep
<1>15. Alone(r)
  BY <1>6, <1>8, <1>14 DEF Alone, PostOut
<1>16. SilenceIsQuiet'
  <2> SUFFICES ASSUME NEW j \in Nat, NEW q \in Rank, j > 0, Silent(j)', round'[q] = j
               PROVE  Quiet(q, j)'
    BY DEF SilenceIsQuiet
  <2>1. \A y \in Rank : round'[y] <= j /\ (round'[y] = j => Count(y, t, j)' = 0)
    BY <1>4 DEF Silent
  <2>2. Silent(j)
    <3>1. ASSUME NEW y \in Rank, y # r PROVE round[y] <= j /\ (round[y] = j => Count(y, t, j) = 0)
      BY <2>1, <3>1, <1>8, <1>14
    <3>2. round[r] <= j /\ round[r] # j
      <4>1. k <= j
        BY <2>1, <1>8
      <4> QED
        BY <4>1, <1>3, <1>7
    <3> QED
      BY <3>1, <3>2, <1>4 DEF Silent
  <2>3. CASE q # r
    <3>1. round[q] = j
      BY <2>3, <1>8
    <3>2. Quiet(q, j)
      BY <3>1, <2>2, InvParts DEF SilenceIsQuiet
    <3> QED
      BY <3>2, <2>3, <1>15, QuietKept, kind' = kind
  <2>4. CASE q = r
    <3>1. j = k
      BY <2>4, <1>8
    <3>2. c = 0
      BY <2>1, <3>1, <1>8, <1>14
    <3>3. \A i \in 1..Last(kind) : Posted(r, i, k)' => Count(r, i, k)' = 0
      <4>1. \A i \in 1..Last(kind) : ~Posted(r, i, k)
        BY <1>3, <1>7 DEF Posted
      <4> QED
        BY <4>1, <3>2, <1>9, <1>14 DEF Enters
    <3>4. stage'[r] # 0
      BY <1>4, <1>8
    <3>5. Quiet(r, k)'
      BY <3>2, <3>3, <3>4, <1>6, <1>8, kind' = kind DEF Quiet
    <3> QED
      BY <3>5, <3>1, <2>4
  <2> QED
    BY <2>3, <2>4
<1>17. GoneInSilence'
  <2> SUFFICES ASSUME NEW q \in Rank, pc'[q] = "gone" PROVE FALSE
    BY DEF GoneInSilence
  <2>1. q # r /\ pc[q] = "gone"
    BY <1>6
  <2>2. PICK j \in Nat : j = round[q]
    BY <1>7
  <2>3. j > 0 /\ Silent(j) /\ \A y \in Rank : round[y] >= j
    BY <2>1, <2>2, InvParts DEF GoneInSilence
  <2>4. round[r] = j
    <3>1. round[r] <= j /\ round[r] >= j /\ round[r] \in Nat
      BY <2>3, <1>7 DEF Silent
    <3> QED
      BY <3>1
  <2>5. Quiet(r, j)
    BY <2>3, <2>4, InvParts DEF SilenceIsQuiet
  <2> QED
    BY <2>5, <1>6 DEF Quiet
<1>18. NobodyGoesOn'
  <2> SUFFICES ASSUME NEW q \in Rank, NEW j \in Nat, j > 0, round'[q] = j + 1, Open(j)',
                      \A y \in Rank : Count(y, 1, j)' = 0
               PROVE  FALSE
    BY DEF NobodyGoesOn
  <2>1. PICK y \in Rank : round'[y] <= j
    BY DEF Open
  <2>2. round[r] = j
    <3>1. CASE q = r
      BY <3>1, <1>3, <1>7, <1>8
    <3>2. CASE q # r
      <4>1. round[q] = j + 1 /\ round[q] <= round[r] + 1
        BY <3>2, <1>8, InvParts, Near
      <4>2. y # r
        BY <4>1, <2>1, <1>3, <1>7, <1>8
      <4>3. round[y] <= j /\ round[r] <= round[y]
        BY <4>2, <2>1, <1>6, <1>8, InvParts, Near
      <4> QED
        BY <4>1, <4>3, <1>7
    <3> QED
      BY <3>1, <3>2
  <2>3. Slot(j) # Slot(k)
    BY <2>2, <1>3 DEF Slot
  <2>4. \A z \in Rank : Count(z, 1, j) = 0
    BY <2>3, <1>4, <1>14
  <2>5. Open(j)
    BY <2>2 DEF Open
  <2>6. \A z \in Rank : round[z] # j + 1
    BY <2>4, <2>5, InvParts DEF NobodyGoesOn
  <2>7. Silent(j)
    <3>1. ASSUME NEW z \in Rank PROVE round[z] <= j
      <4>1. round[z] <= round[r] + 1 /\ round[z] \in Nat
        BY <1>7, InvParts, Near
      <4> QED
        BY <4>1, <2>2, <2>6
    <3> QED
      BY <3>1, <2>4 DEF Silent
  <2>8. Quiet(r, j)
    BY <2>2, <2>7, InvParts DEF SilenceIsQuiet
  <2> QED
    BY <2>8, <1>6 DEF Quiet
<1> QED
  BY <1>1, <1>11, <1>12, <1>13, <1>16, <1>17, <1>18 DEF IInv

-----------------------------------------------------------------------------
\* All mailboxes start empty.
LEMMA InvInit == Init => IInv
<1> SUFFICES ASSUME Init PROVE IInv
  OBVIOUS
<1>1. kind \in Kind /\ kind \in Kinds /\ Last(kind) \in 1..3
  BY StagesAre DEF Init
<1>2. \A r \in Rank : /\ pc[r] = "running" /\ made[r] = 0 /\ sendCount[r] = 0 /\ out[r] = EmptyBag
                      /\ deferred[r] = {} /\ stage[r] = 0 /\ round[r] = 0 /\ total[r] = 0
  BY DEF Init
<1>3. IsABag(EmptyBag) /\ DOMAIN EmptyBag = {} /\ IsFiniteSet(DOMAIN EmptyBag)
  BY SetBag, FS_EmptySet DEF EmptyBag
<1>4. \A q \in Rank, s \in Stages, p \in 0..1 : wire[q][s][p] = EmptyBag /\ posted[q][s][p] = 0
  BY DEF Init
<1>5. TypeInv
  <2>1. ASSUME NEW r \in Rank PROVE RankType(r)
    <3>1. MaxMade[kind][r] \in Nat
      BY <1>1, MailboxAssumption
    <3>2. FiniteBag(out[r]) /\ DOMAIN out[r] = {}
      BY <1>2, <1>3 DEF FiniteBag
    <3>3. ~(stage[r] > 0) /\ made[r] \in Nat /\ made[r] <= MaxMade[kind][r]
      BY <3>1, <1>2
    <3>4. IsFiniteSet(deferred[r]) /\ deferred[r] = {}
      BY <1>2, FS_EmptySet
    <3> QED
      BY <3>2, <3>3, <3>4, <1>2 DEF RankType
  <2>2. \A q \in Rank, s \in Stages, p \in 0..1 : WireType(q, s, p)
    BY <1>3, <1>4 DEF WireType
  <2>3. Ranges
    <3>1. 0 \in 0..Last(kind)
      BY <1>1
    <3> QED
      BY <3>1 DEF Init, Ranges
  <2> QED
    BY <2>1, <2>2, <2>3 DEF TypeInv
<1>6. \A q \in Rank, s \in 1..Last(kind), k \in Nat :
        (Posted(q, s, k) <=> k = 0) /\ (Left(q, s, k) <=> k = 0) /\ Count(q, s, k) = 0
  <2> SUFFICES ASSUME NEW q \in Rank, NEW s \in 1..Last(kind), NEW k \in Nat
               PROVE  (Posted(q, s, k) <=> k = 0) /\ (Left(q, s, k) <=> k = 0) /\ Count(q, s, k) = 0
    OBVIOUS
  <2>1. s \in Stages /\ Slot(k) \in 0..1
    BY <1>1, SlotIs DEF Stages
  <2> QED
    BY <2>1, <1>2, <1>4 DEF Posted, Left, Count
<1>7. Ordered
  BY <1>1, <1>6, GroupType DEF Ordered
<1>8. ZerosAgree
  <2> SUFFICES ASSUME NEW q \in Rank, NEW s \in 1..Last(kind), NEW k \in Nat, s > 1,
                      NEW x \in Group(kind, s - 1, q)
               PROVE  Count(x, s - 1, k) = 0
    BY DEF ZerosAgree
  <2>1. PICK n \in 1..3 : n = Last(kind)
    BY <1>1
  <2>2. s - 1 \in 1..n
    BY <2>1
  <2>3. s - 1 \in 1..Last(kind)
    BY <2>1, <2>2
  <2>4. x \in Rank
    BY <1>1, <2>3, GroupType
  <2> QED
    BY <2>3, <2>4, <1>6
<1>9. WireIsCounted
  BY <1>3, <1>4 DEF WireIsCounted
<1>10. SilenceIsQuiet /\ GoneInSilence /\ NobodyGoesOn
  BY <1>2 DEF SilenceIsQuiet, GoneInSilence, NobodyGoesOn
<1> QED
  BY <1>5, <1>7, <1>8, <1>9, <1>10 DEF IInv

\* Every step of a mailbox keeps the invariant.
LEMMA InvStep == IInv /\ [Next]_vars => IInv'
<1> SUFFICES ASSUME IInv, [Next]_vars PROVE IInv'
  OBVIOUS
<1>1. ASSUME NEW r \in Rank, kind' = kind, Step(r) PROVE IInv'
  <2>1. CASE Send(r)
    BY <2>1, <1>1, SendStep
  <2>2. CASE EnterExchange(r)
    BY <2>2, <1>1, EnterStep
  <2>3. CASE Receive(r)
    BY <2>3, <1>1, ReceiveStep
  <2>4. CASE NextStage(r)
    BY <2>4, <1>1, NextStep
  <2>5. CASE FinishExchange(r)
    BY <2>5, <1>1, FinishStep
  <2> QED
    BY <2>1, <2>2, <2>3, <2>4, <2>5, <1>1 DEF Step
<1>2. CASE UNCHANGED vars
  <2>1. /\ \A q, s, k : Posted(q, s, k)' <=> Posted(q, s, k)
        /\ \A q, s, k : Left(q, s, k)' <=> Left(q, s, k)
        /\ \A q, s, k : Count(q, s, k)' = Count(q, s, k)
    BY <1>2 DEF vars, Posted, Left, Count
  <2>2. TypeInv'
    BY <1>2 DEF vars, IInv, TypeInv, Ranges, RankType, WireType
  <2>3. Ordered' /\ ZerosAgree' /\ WireIsCounted'
    BY <1>2, <2>1 DEF vars, IInv, Ordered, ZerosAgree, WireIsCounted, Open
  <2>4. SilenceIsQuiet' /\ GoneInSilence' /\ NobodyGoesOn'
    BY <1>2, <2>1 DEF vars, IInv, SilenceIsQuiet, GoneInSilence, NobodyGoesOn, Silent,
       Quiet, Open
  <2> QED
    BY <2>2, <2>3, <2>4 DEF IInv
<1>3. CASE Next
  BY <1>1, <1>2, <1>3 DEF Next, Done
<1> QED
  BY <1>2, <1>3

\* The invariant says what is wanted.
LEMMA InvImplies == IInv => TypeOK /\ GoneMeansEmpty
<1> SUFFICES ASSUME IInv PROVE TypeOK /\ GoneMeansEmpty
  OBVIOUS
<1>0. Ranges /\ (\A r \in Rank : RankType(r)) /\ \A q \in Rank, s \in Stages, p \in 0..1 : WireType(q, s, p)
  BY InvParts DEF TypeInv
<1>1. TypeOK
  <2>1. \A r \in Rank : made[r] \in 0..MaxMade[kind][r]
    <3> SUFFICES ASSUME NEW r \in Rank PROVE made[r] \in 0..MaxMade[kind][r]
      OBVIOUS
    <3>1. MaxMade[kind][r] \in Nat /\ made[r] \in Nat /\ made[r] <= MaxMade[kind][r]
      BY <1>0, InvParts, MadeIsBounded DEF RankType
    <3> QED
      BY <3>1
  <2>2. \A r \in Rank : /\ IsABag(out[r])
                        /\ stage[r] > 0 => \A h \in DOMAIN out[r] : h.stage > stage[r]
                        /\ stage[r] = 0 => deferred[r] = {}
    BY <1>0 DEF RankType, FiniteBag
  <2>3. \A r \in Rank, s \in Stages, p \in 0..1 : IsABag(wire[r][s][p])
    BY <1>0 DEF WireType
  <2> QED
    BY <1>0, <2>1, <2>2, <2>3 DEF TypeOK, Ranges
<1>2. GoneMeansEmpty
  <2> SUFFICES ASSUME NEW r \in Rank, pc[r] = "gone", NEW q \in Rank
               PROVE  /\ pc[q] # "running"
                      /\ sendCount[q] = 0 /\ out[q] = EmptyBag /\ deferred[q] = {}
                      /\ \A s \in Stages, p \in 0..1 : wire[q][s][p] = EmptyBag
    BY DEF GoneMeansEmpty
  <2>1. PICK k \in Nat : k = round[r]
    BY InvParts, Known
  <2>2. k > 0 /\ Silent(k) /\ \A x \in Rank : round[x] >= k
    BY <2>1, InvParts DEF GoneInSilence
  <2>3. round[q] = k
    <3>1. round[q] <= k /\ round[q] >= k /\ round[q] \in Nat
      BY <2>2, InvParts, Known DEF Silent
    <3> QED
      BY <3>1
  <2>4. Quiet(q, k)
    BY <2>2, <2>3, InvParts DEF SilenceIsQuiet
  <2>5. out[q] = EmptyBag
    BY <2>4, <1>0, EmptyBagIs DEF Quiet, RankType, FiniteBag
  <2>6. ASSUME NEW s \in Stages, NEW p \in 0..1 PROVE wire[q][s][p] = EmptyBag
    <3>1. DOMAIN wire[q][s][p] = {}
      <4>1. CASE s \in 1..Last(kind)
        BY <4>1, <2>2, <2>3, InvParts, NothingInSilence
      <4>2. CASE s \notin 1..Last(kind)
        <5>1. ~(s <= Last(kind))
          BY <4>2, InvParts, Known DEF Stages
        <5> QED
          BY <5>1, <1>0 DEF WireType
      <4> QED
        BY <4>1, <4>2
    <3> QED
      BY <3>1, <1>0, EmptyBagIs DEF WireType
  <2> QED
    BY <2>4, <2>5, <2>6 DEF Quiet
<1> QED
  BY <1>1, <1>2

\* Each variable of the mailboxes keeps its type: hops are queued for exchanges
\* still to come, and a rank outside do_exchange has no deferred call.
THEOREM MailboxTypes == Spec => []TypeOK
BY InvInit, InvStep, InvImplies, PTL DEF Spec

\* When a destructor returns (~mailbox_p2p_nlnr and its three variants), every rank
\* has come to its own, and no message of any rank is queued, deferred or on the
\* wire: for every machine, mailbox, batch size and number of messages.
THEOREM MailboxClosesEmpty == Spec => []GoneMeansEmpty
BY InvInit, InvStep, InvImplies, PTL DEF Spec

-----------------------------------------------------------------------------
(* The start-up (comm::init_nl_comm): its invariant.                       *)

Object == Startup!Rank \cup {Startup!Old}
NodeId == 0..(Nodes - 1)

HasCounted(r) == step[r] \in {"counted", "read", "done"}

StartTypes ==
  /\ step \in [Startup!Rank -> {"start", "unlinked", "counted", "read", "done"}]
  /\ named \in [NodeId -> Object \cup {Startup!NoObject}]
  /\ content \in [Object -> [first : Int, second : Int]]
  /\ mapped \in [Startup!Rank -> Object \cup {Startup!NoObject}]
  /\ color \in [Startup!Rank -> Int]

\* What the three barriers keep apart.
Phases ==
  /\ (\E q \in Startup!Rank : step[q] = "start") =>
       \A r \in Startup!Rank : step[r] \in {"start", "unlinked"}
  /\ (\E q \in Startup!Rank : step[q] \in {"start", "unlinked"}) =>
       \A r \in Startup!Rank : step[r] \in {"start", "unlinked", "counted"}
  /\ (\E q \in Startup!Rank : step[q] = "counted") => \A r \in Startup!Rank : step[r] # "done"

\* A name stands for nothing, for what an earlier job has left as long as no
\* rank of the node has come, or for an object that a rank of the node created.
NameInv ==
  /\ \A r \in Startup!Rank : step[r] # "start" => named[Startup!Node(r)] # Startup!Old
  /\ \A n \in NodeId : named[n] \in Startup!Rank =>
       Startup!Node(named[n]) = n /\ HasCounted(named[n]) /\ mapped[named[n]] = named[n]

\* A rank has mapped what the name stood for until its creator removed it.
MapInv ==
  \A r \in Startup!Rank : HasCounted(r) =>
    LET o == mapped[r]
    IN  /\ o \in Startup!Rank /\ Startup!Node(o) = Startup!Node(r)
        /\ HasCounted(o) /\ mapped[o] = o
        /\ named[Startup!Node(r)] = IF step[o] = "done" THEN Startup!NoObject ELSE o
        /\ content[o].first \in Startup!Rank /\ Startup!Node(content[o].first) = Startup!Node(r)

\* Ranks of a node have mapped one object.
OneObject ==
  \A q, r \in Startup!Rank : HasCounted(q) /\ HasCounted(r) /\ Startup!Node(q) = Startup!Node(r) => mapped[q] = mapped[r]

ColorInv ==
  \A r \in Startup!Rank : step[r] \in {"read", "done"} => color[r] = content[mapped[r]].first

StartInv == StartTypes /\ Phases /\ NameInv /\ MapInv /\ OneObject /\ ColorInv

\* Every rank has a node, and every node a rank.
LEMMA NodeOfRank ==
  /\ \A r \in Startup!Rank : Startup!Node(r) \in NodeId
  /\ \A n \in NodeId : \E r \in Startup!Rank : Startup!Node(r) = n
<1>1. Nodes \in Nat /\ Nodes > 0 /\ Cores \in Nat /\ Cores > 0
  BY ShapeAssumption
<1>2. ASSUME NEW r \in Startup!Rank PROVE Startup!Node(r) \in NodeId
  <2>1. r \in Int /\ 0 <= r /\ r < Nodes * Cores
    BY <1>1, <1>2 DEF Startup!Rank
  <2>2. r \div Cores \in Int /\ 0 <= r \div Cores /\ r \div Cores < Nodes
    BY <1>1, <2>1
  <2> QED
    BY <1>1, <2>2 DEF Startup!Node, NodeId
<1>3. ASSUME NEW n \in NodeId PROVE \E r \in Startup!Rank : Startup!Node(r) = n
  <2>1. n \in Int /\ 0 <= n /\ n < Nodes
    BY <1>1 DEF NodeId
  <2>2. n * Cores \in Startup!Rank
    <3>1. n * Cores >= 0
      BY <1>1, <2>1
    <3>2. n * Cores + Cores <= Nodes * Cores
      BY <1>1, <2>1
    <3> QED
      BY <1>1, <2>1, <3>1, <3>2 DEF Startup!Rank
  <2>3. (n * Cores) \div Cores = n
    BY <1>1, <2>1
  <2> QED
    BY <2>2, <2>3 DEF Startup!Node
<1> QED
  BY <1>2, <1>3

\* Objects of this job are neither the earlier one nor none.
LEMMA ObjectsApart ==
  /\ Startup!Rank \subseteq Nat
  /\ Startup!Old \notin Startup!Rank /\ Startup!NoObject \notin Startup!Rank
  /\ Startup!Old # Startup!NoObject
BY ShapeAssumption DEF Startup!Rank, Startup!Old, Startup!NoObject

-----------------------------------------------------------------------------
\* Whatever names an earlier job has left.
LEMMA StartInit == Startup!Init => StartInv
<1> SUFFICES ASSUME Startup!Init PROVE StartInv
  OBVIOUS
<1>1. StartTypes
  <2>1. [first |-> 0, second |-> 0] \in [first : Int, second : Int]
    OBVIOUS
  <2>2. content \in [Object -> [first : Int, second : Int]]
    BY <2>1 DEF Startup!Init, Object
  <2> QED
    BY <2>2, ObjectsApart DEF Startup!Init, StartTypes, NodeId, Object, Startup!Old,
       Startup!NoObject
<1>2. NameInv
  BY ObjectsApart DEF Startup!Init, NameInv, NodeId, Startup!Old, Startup!NoObject
<1> QED
  BY <1>1, <1>2 DEF Startup!Init, StartInv, Phases, MapInv, OneObject, ColorInv,
     HasCounted

\* A rank removes the name that it finds before anybody has created an object.
LEMMA UnlinkInv ==
  ASSUME StartInv, NEW r \in Startup!Rank, Startup!Unlink(r)
  PROVE  StartInv'
<1> USE DEF StartInv
<1>1. \A q \in Startup!Rank : step[q] \in {"start", "unlinked"} /\ ~HasCounted(q)
  BY DEF Startup!Unlink, Phases, HasCounted
<1>2. Startup!Node(r) \in NodeId
  BY NodeOfRank
<1>3. step' \in [Startup!Rank -> {"start", "unlinked", "counted", "read", "done"}]
  BY DEF Startup!Unlink, StartTypes
<1>4. \A q \in Startup!Rank : step'[q] \in {"start", "unlinked"} /\ ~HasCounted(q)'
  BY <1>1 DEF Startup!Unlink, StartTypes, HasCounted
<1>5. StartTypes'
  BY <1>2, <1>3 DEF Startup!Unlink, StartTypes
<1>6. Phases'
  BY <1>4 DEF Phases
<1>7. NameInv'
  <2>1. \A n \in NodeId : named[n] \notin Startup!Rank
    BY <1>1 DEF NameInv
  <2>2. \A n \in NodeId : named'[n] \notin Startup!Rank
    BY <2>1, <1>2, ObjectsApart DEF Startup!Unlink, StartTypes
  <2>3. ASSUME NEW q \in Startup!Rank, step'[q] # "start" PROVE named'[Startup!Node(q)] # Startup!Old
    <3>1. Startup!Node(q) \in NodeId
      BY NodeOfRank
    <3>2. CASE q = r
      BY <3>2, <1>2, ObjectsApart DEF Startup!Unlink, StartTypes
    <3>3. CASE q # r
      BY <3>1, <3>3, <1>2, <2>3, ObjectsApart DEF Startup!Unlink, StartTypes, NameInv
    <3> QED
      BY <3>2, <3>3
  <2> QED
    BY <2>2, <2>3 DEF NameInv
<1>8. MapInv' /\ OneObject' /\ ColorInv'
  BY <1>4 DEF MapInv, OneObject, ColorInv, HasCounted
<1> QED
  BY <1>5, <1>6, <1>7, <1>8

\* Nobody has removed a name while somebody still counts.
LEMMA CountCreates ==
  ASSUME StartInv, NEW r \in Startup!Rank, Startup!Count(r), named[Startup!Node(r)] = Startup!NoObject
  PROVE  StartInv'
<1> USE DEF StartInv
<1>1. Startup!Node(r) \in NodeId /\ r \in Object /\ r \in Int
  BY NodeOfRank, ObjectsApart DEF Object
<1>2. \A q \in Startup!Rank : step[q] \in {"unlinked", "counted"}
  BY DEF Startup!Count, Startup!InTurn, Startup!AllPast, Phases, StartTypes
<1>3. \A q \in Startup!Rank : HasCounted(q) => mapped[q] = named[Startup!Node(q)] /\ mapped[q] \in Startup!Rank
  BY <1>2 DEF MapInv
<1>4. \A q \in Startup!Rank : HasCounted(q) => Startup!Node(q) # Startup!Node(r)
  BY <1>3, ObjectsApart
<1>5. /\ named' = [named EXCEPT ![Startup!Node(r)] = r]
      /\ mapped' = [mapped EXCEPT ![r] = r]
      /\ content' = [content EXCEPT ![r] = [first |-> r, second |-> 1]]
      /\ step' = [step EXCEPT ![r] = "counted"] /\ step[r] = "unlinked"
      /\ color' = color
  BY DEF Startup!Count
<1>6. \A q \in Startup!Rank : step'[q] = IF q = r THEN "counted" ELSE step[q]
  BY <1>5 DEF StartTypes
<1>7. \A q \in Startup!Rank : HasCounted(q)' <=> (q = r \/ HasCounted(q))
  BY <1>6 DEF HasCounted
<1>8. \A q \in Startup!Rank : mapped'[q] = IF q = r THEN r ELSE mapped[q]
  BY <1>5 DEF StartTypes
<1>9. \A n \in NodeId : named'[n] = IF n = Startup!Node(r) THEN r ELSE named[n]
  BY <1>1, <1>5 DEF StartTypes
<1>10. \A o \in Startup!Rank : content'[o].first = IF o = r THEN r ELSE content[o].first
  BY <1>1, <1>5 DEF StartTypes, Object
<1>11. StartTypes'
  <2>1. [first |-> r, second |-> 1] \in [first : Int, second : Int]
    BY <1>1
  <2>2. content' \in [Object -> [first : Int, second : Int]]
    BY <1>1, <1>5, <2>1 DEF StartTypes
  <2> QED
    BY <1>1, <1>5, <2>2 DEF StartTypes
<1>12. Phases'
  BY <1>2, <1>6 DEF Phases
<1>13. NameInv'
  <2>1. ASSUME NEW q \in Startup!Rank PROVE named'[Startup!Node(q)] # Startup!Old
    BY <1>2, <1>9, ObjectsApart, NodeOfRank DEF NameInv
  <2>2. ASSUME NEW n \in NodeId, named'[n] \in Startup!Rank
        PROVE  /\ Startup!Node(named'[n]) = n
               /\ step'[named'[n]] \in {"counted", "read", "done"}
               /\ mapped'[named'[n]] = named'[n]
    <3>1. CASE n = Startup!Node(r)
      BY <3>1, <1>6, <1>8, <1>9
    <3>2. CASE n # Startup!Node(r)
      <4>1. named'[n] = named[n] /\ named[n] \in Startup!Rank
        BY <3>2, <2>2, <1>9
      <4>2. /\ Startup!Node(named[n]) = n /\ mapped[named[n]] = named[n]
            /\ step[named[n]] \in {"counted", "read", "done"}
        BY <4>1 DEF NameInv, HasCounted
      <4>3. named[n] # r
        BY <3>2, <4>2
      <4> QED
        BY <4>1, <4>2, <4>3, <1>6, <1>8
    <3> QED
      BY <3>1, <3>2
  <2> QED
    BY <2>1, <2>2 DEF NameInv, HasCounted
<1>14. MapInv'
  <2> SUFFICES ASSUME NEW q \in Startup!Rank, HasCounted(q)'
               PROVE  /\ mapped'[q] \in Startup!Rank /\ Startup!Node(mapped'[q]) = Startup!Node(q)
                      /\ step'[mapped'[q]] \in {"counted", "read", "done"}
                      /\ mapped'[mapped'[q]] = mapped'[q]
                      /\ named'[Startup!Node(q)] = IF step'[mapped'[q]] = "done" THEN Startup!NoObject ELSE mapped'[q]
                      /\ content'[mapped'[q]].first \in Startup!Rank
                      /\ Startup!Node(content'[mapped'[q]].first) = Startup!Node(q)
    BY DEF MapInv, HasCounted
  <2>1. CASE q = r
    BY <2>1, <1>1, <1>6, <1>8, <1>9, <1>10
  <2>2. CASE q # r
    <3>1. HasCounted(q) /\ Startup!Node(q) # Startup!Node(r) /\ Startup!Node(q) \in NodeId
      BY <2>2, <1>4, <1>7, NodeOfRank
    <3>2. /\ mapped[q] \in Startup!Rank /\ Startup!Node(mapped[q]) = Startup!Node(q)
          /\ step[mapped[q]] \in {"counted", "read", "done"} /\ mapped[mapped[q]] = mapped[q]
          /\ named[Startup!Node(q)] = IF step[mapped[q]] = "done" THEN Startup!NoObject ELSE mapped[q]
          /\ content[mapped[q]].first \in Startup!Rank /\ Startup!Node(content[mapped[q]].first) = Startup!Node(q)
      BY <3>1 DEF MapInv, HasCounted
    <3>3. mapped[q] # r
      BY <3>1, <3>2
    <3> QED
      BY <2>2, <3>1, <3>2, <3>3, <1>6, <1>8, <1>9, <1>10
  <2> QED
    BY <2>1, <2>2
<1>15. OneObject'
  BY <1>4, <1>7, <1>8 DEF OneObject
<1>16. ColorInv'
  BY <1>2, <1>6 DEF ColorInv
<1> QED
  BY <1>11, <1>12, <1>13, <1>14, <1>15, <1>16

\* Or the object of the node is there, and was created by this job.
LEMMA CountJoins ==
  ASSUME StartInv, NEW r \in Startup!Rank, Startup!Count(r), named[Startup!Node(r)] # Startup!NoObject
  PROVE  StartInv'
<1> USE DEF StartInv
<1>1. Startup!Node(r) \in NodeId /\ r \in Int
  BY NodeOfRank, ObjectsApart
<1>2. \A q \in Startup!Rank : step[q] \in {"unlinked", "counted"}
  BY DEF Startup!Count, Startup!InTurn, Startup!AllPast, Phases, StartTypes
<1>3. PICK old \in Startup!Rank : old = named[Startup!Node(r)]
  BY <1>1, <1>2 DEF StartTypes, NameInv, Object
<1>4. Startup!Node(old) = Startup!Node(r) /\ HasCounted(old) /\ mapped[old] = old /\ old \in Object
  BY <1>1, <1>3 DEF NameInv, Object
<1>5. step[r] = "unlinked" /\ r # old
  BY <1>4 DEF Startup!Count, HasCounted
<1>6. PICK c \in [first : Int, second : Int] : c = content[old]
  BY <1>4 DEF StartTypes
<1>7. PICK d \in [first : Int, second : Int] :
        d = [first |-> IF r < c.first THEN r ELSE c.first, second |-> c.second + 1]
  <2>1. (IF r < c.first THEN r ELSE c.first) \in Int /\ c.second + 1 \in Int
    BY <1>1, <1>6
  <2> QED
    BY <2>1
<1>8. /\ named' = named
      /\ mapped' = [mapped EXCEPT ![r] = old]
      /\ content' = [content EXCEPT ![old] = d]
      /\ step' = [step EXCEPT ![r] = "counted"]
      /\ color' = color
  BY <1>3, <1>6, <1>7 DEF Startup!Count
<1>9. c.first \in Startup!Rank /\ Startup!Node(c.first) = Startup!Node(r)
  BY <1>4, <1>6 DEF MapInv
<1>10. d.first \in Startup!Rank /\ Startup!Node(d.first) = Startup!Node(r)
  BY <1>7, <1>9
<1>11. \A q \in Startup!Rank : step'[q] = IF q = r THEN "counted" ELSE step[q]
  BY <1>8 DEF StartTypes
<1>12. \A q \in Startup!Rank : HasCounted(q)' <=> (q = r \/ HasCounted(q))
  BY <1>11 DEF HasCounted
<1>13. \A q \in Startup!Rank : mapped'[q] = IF q = r THEN old ELSE mapped[q]
  BY <1>8 DEF StartTypes
<1>14. \A o \in Startup!Rank : content'[o] = IF o = old THEN d ELSE content[o]
  BY <1>8 DEF StartTypes, Object
<1>15. \A q \in Startup!Rank : HasCounted(q) =>
         mapped[q] = named[Startup!Node(q)] /\ mapped[q] \in Startup!Rank /\ Startup!Node(mapped[q]) = Startup!Node(q)
  BY <1>2 DEF MapInv
<1>16. StartTypes'
  BY <1>4, <1>8 DEF StartTypes, Object
<1>17. Phases'
  BY <1>2, <1>11 DEF Phases
<1>18. NameInv'
  <2>1. \A q \in Startup!Rank : named'[Startup!Node(q)] # Startup!Old
    BY <1>2, <1>8 DEF NameInv
  <2>2. \A n \in NodeId : named[n] \in Startup!Rank => named[n] # r
    BY <1>5 DEF NameInv, HasCounted
  <2>3. \A n \in NodeId : named'[n] \in Startup!Rank =>
          /\ Startup!Node(named'[n]) = n
          /\ step'[named'[n]] \in {"counted", "read", "done"}
          /\ mapped'[named'[n]] = named'[n]
    BY <2>2, <1>8, <1>11, <1>13 DEF NameInv, HasCounted
  <2> QED
    BY <2>1, <2>3 DEF NameInv, HasCounted
<1>19. MapInv'
  <2> SUFFICES ASSUME NEW q \in Startup!Rank, HasCounted(q)'
               PROVE  /\ mapped'[q] \in Startup!Rank /\ Startup!Node(mapped'[q]) = Startup!Node(q)
                      /\ step'[mapped'[q]] \in {"counted", "read", "done"}
                      /\ mapped'[mapped'[q]] = mapped'[q]
                      /\ named'[Startup!Node(q)] = IF step'[mapped'[q]] = "done" THEN Startup!NoObject ELSE mapped'[q]
                      /\ content'[mapped'[q]].first \in Startup!Rank
                      /\ Startup!Node(content'[mapped'[q]].first) = Startup!Node(q)
    BY DEF MapInv, HasCounted
  <2>1. CASE q = r
    <3>1. step'[old] = "counted" /\ mapped'[q] = old /\ mapped'[old] = old /\ content'[old] = d
      BY <2>1, <1>2, <1>4, <1>5, <1>11, <1>13, <1>14 DEF HasCounted
    <3> QED
      BY <2>1, <3>1, <1>3, <1>4, <1>8, <1>10
  <2>2. CASE q # r
    <3>1. HasCounted(q)
      BY <2>2, <1>12
    <3>2. /\ mapped[q] \in Startup!Rank /\ Startup!Node(mapped[q]) = Startup!Node(q)
          /\ step[mapped[q]] \in {"counted", "read", "done"} /\ mapped[mapped[q]] = mapped[q]
          /\ named[Startup!Node(q)] = IF step[mapped[q]] = "done" THEN Startup!NoObject ELSE mapped[q]
          /\ content[mapped[q]].first \in Startup!Rank /\ Startup!Node(content[mapped[q]].first) = Startup!Node(q)
      BY <3>1 DEF MapInv, HasCounted
    <3>3. mapped[q] # r
      BY <3>2, <1>5
    <3>4. content'[mapped[q]].first \in Startup!Rank /\ Startup!Node(content'[mapped[q]].first) = Startup!Node(q)
      BY <3>2, <1>4, <1>10, <1>14
    <3> QED
      BY <2>2, <3>2, <3>3, <3>4, <1>8, <1>11, <1>13
  <2> QED
    BY <2>1, <2>2
<1>20. OneObject'
  BY <1>3, <1>12, <1>13, <1>15 DEF OneObject
<1>21. ColorInv'
  BY <1>2, <1>11 DEF ColorInv
<1> QED
  BY <1>16, <1>17, <1>18, <1>19, <1>20, <1>21

\* All ranks of the node have entered themselves when one reads the color.
LEMMA ReadInv ==
  ASSUME StartInv, NEW r \in Startup!Rank, Startup!Read(r)
  PROVE  StartInv'
<1> USE DEF StartInv
<1>1. /\ step[r] = "counted" /\ step' = [step EXCEPT ![r] = "read"]
      /\ color' = [color EXCEPT ![r] = content[mapped[r]].first]
      /\ UNCHANGED <<named, content, mapped>>
  BY DEF Startup!Read
<1>2. \A q \in Startup!Rank : step[q] \in {"counted", "read"}
  BY <1>1 DEF Startup!Read, Startup!AllPast, Phases, StartTypes
<1>3. \A q \in Startup!Rank : step'[q] = IF q = r THEN "read" ELSE step[q]
  BY <1>1 DEF StartTypes
<1>4. \A q \in Startup!Rank : step'[q] \in {"counted", "read"}
  BY <1>2, <1>3
<1>5. content[mapped[r]].first \in Int
  <2>1. content[mapped[r]].first \in Startup!Rank
    BY <1>1 DEF MapInv, HasCounted
  <2> QED
    BY <2>1, ShapeAssumption DEF Startup!Rank
<1>6. StartTypes'
  BY <1>1, <1>5 DEF StartTypes
<1>7. Phases'
  BY <1>4 DEF Phases
<1>8. NameInv'
  BY <1>1, <1>2, <1>4 DEF NameInv, HasCounted
<1>9. MapInv'
  BY <1>1, <1>2, <1>4 DEF MapInv, HasCounted
<1>10. OneObject'
  BY <1>1, <1>2 DEF OneObject, HasCounted
<1>11. ColorInv'
  <2>1. \A q \in Startup!Rank : color'[q] = IF q = r THEN content[mapped[r]].first ELSE color[q]
    BY <1>1 DEF StartTypes
  <2> QED
    BY <2>1, <1>1, <1>3 DEF ColorInv
<1> QED
  BY <1>6, <1>7, <1>8, <1>9, <1>10, <1>11

\* Only the creator of an object removes its name, and nobody looks for the
\* name any more.
LEMMA LeaveInv ==
  ASSUME StartInv, NEW r \in Startup!Rank, Startup!Leave(r)
  PROVE  StartInv'
<1> USE DEF StartInv
<1>1. /\ step[r] = "read" /\ step' = [step EXCEPT ![r] = "done"]
      /\ named' = [named EXCEPT ![Startup!Node(r)] = IF mapped[r] = r THEN Startup!NoObject ELSE @]
      /\ UNCHANGED <<content, mapped, color>>
  BY DEF Startup!Leave
<1>2. \A q \in Startup!Rank : step[q] \in {"read", "done"} /\ HasCounted(q)
  BY <1>1 DEF Startup!Leave, Startup!AllPast, StartTypes, HasCounted
<1>3. \A q \in Startup!Rank : step'[q] = IF q = r THEN "done" ELSE step[q]
  BY <1>1 DEF StartTypes
<1>4. \A q \in Startup!Rank : step'[q] \in {"read", "done"} /\ HasCounted(q)'
  BY <1>2, <1>3 DEF HasCounted
<1>5. Startup!Node(r) \in NodeId
  BY NodeOfRank
<1>6. \A n \in NodeId :
        named'[n] = IF n = Startup!Node(r) /\ mapped[r] = r THEN Startup!NoObject ELSE named[n]
  BY <1>1, <1>5 DEF StartTypes
<1>7. StartTypes'
  BY <1>1, <1>5 DEF StartTypes
<1>8. Phases'
  BY <1>4 DEF Phases
<1>9. NameInv'
  <2>1. \A q \in Startup!Rank : named'[Startup!Node(q)] # Startup!Old
    BY <1>2, <1>6, NodeOfRank, ObjectsApart DEF NameInv
  <2>2. \A n \in NodeId : named'[n] \in Startup!Rank =>
          /\ Startup!Node(named'[n]) = n
          /\ step'[named'[n]] \in {"counted", "read", "done"}
          /\ mapped'[named'[n]] = named'[n]
    <3> SUFFICES ASSUME NEW n \in NodeId, named'[n] \in Startup!Rank
                 PROVE  /\ Startup!Node(named'[n]) = n
                        /\ step'[named'[n]] \in {"counted", "read", "done"}
                        /\ mapped'[named'[n]] = named'[n]
      OBVIOUS
    <3>1. named'[n] = named[n]
      BY <1>6, ObjectsApart
    <3>2. Startup!Node(named[n]) = n /\ mapped[named[n]] = named[n]
      BY <3>1 DEF NameInv
    <3>3. step'[named'[n]] \in {"read", "done"}
      BY <1>4
    <3> QED
      BY <1>1, <3>1, <3>2, <3>3
  <2> QED
    BY <2>1, <2>2 DEF NameInv, HasCounted
<1>10. MapInv'
  <2> SUFFICES ASSUME NEW q \in Startup!Rank
               PROVE  /\ mapped'[q] \in Startup!Rank /\ Startup!Node(mapped'[q]) = Startup!Node(q)
                      /\ step'[mapped'[q]] \in {"counted", "read", "done"}
                      /\ mapped'[mapped'[q]] = mapped'[q]
                      /\ named'[Startup!Node(q)] = IF step'[mapped'[q]] = "done" THEN Startup!NoObject ELSE mapped'[q]
                      /\ content'[mapped'[q]].first \in Startup!Rank
                      /\ Startup!Node(content'[mapped'[q]].first) = Startup!Node(q)
    BY DEF MapInv, HasCounted
  <2>1. /\ mapped[q] \in Startup!Rank /\ Startup!Node(mapped[q]) = Startup!Node(q)
        /\ mapped[mapped[q]] = mapped[q]
        /\ named[Startup!Node(q)] = IF step[mapped[q]] = "done" THEN Startup!NoObject ELSE mapped[q]
        /\ content[mapped[q]].first \in Startup!Rank /\ Startup!Node(content[mapped[q]].first) = Startup!Node(q)
    BY <1>2 DEF MapInv
  <2>2. Startup!Node(q) \in NodeId
    BY NodeOfRank
  <2>3. Startup!Node(q) = Startup!Node(r) => mapped[q] = mapped[r]
    BY <1>2 DEF OneObject
  <2>4. named'[Startup!Node(q)] = IF step'[mapped[q]] = "done" THEN Startup!NoObject ELSE mapped[q]
    <3>1. CASE mapped[q] = r
      BY <3>1, <2>1, <2>2, <1>3, <1>6
    <3>2. CASE mapped[q] # r
      <4>1. ~(Startup!Node(q) = Startup!Node(r) /\ mapped[r] = r)
        BY <3>2, <2>3
      <4> QED
        BY <4>1, <3>2, <2>1, <2>2, <1>3, <1>6
    <3> QED
      BY <3>1, <3>2
  <2> QED
    BY <2>1, <2>4, <1>1, <1>4
<1>11. OneObject'
  BY <1>1, <1>2 DEF OneObject, HasCounted
<1>12. ColorInv'
  BY <1>1, <1>2 DEF ColorInv
<1> QED
  BY <1>7, <1>8, <1>9, <1>10, <1>11, <1>12

-----------------------------------------------------------------------------
\* Every step of the start-up keeps its invariant.
LEMMA StartKeeps ==
  ASSUME StartInv, [Startup!Next]_(Startup!vars)
  PROVE  StartInv'
<1>1. ASSUME NEW r \in Startup!Rank, Startup!Step(r) PROVE StartInv'
  <2>1. CASE Startup!Unlink(r)
    BY <2>1, UnlinkInv
  <2>2. CASE Startup!Count(r)
    BY <2>2, CountCreates, CountJoins
  <2>3. CASE Startup!Read(r)
    BY <2>3, ReadInv
  <2>4. CASE Startup!Leave(r)
    BY <2>4, LeaveInv
  <2> QED
    BY <1>1, <2>1, <2>2, <2>3, <2>4 DEF Startup!Step
<1>2. CASE UNCHANGED Startup!vars
  BY <1>2 DEF Startup!vars, StartInv, StartTypes, Phases, NameInv, MapInv, OneObject,
     ColorInv, HasCounted
<1> QED
  BY <1>1, <1>2 DEF Startup!Next

\* Ranks of a node have one color, which is a rank of theirs.
LEMMA StartImplies ==
  ASSUME StartInv
  PROVE  Startup!NodesAreFound
<1> USE DEF StartInv
<1> SUFFICES ASSUME Startup!Found PROVE Startup!NodesAreFound
  BY DEF Startup!NodesAreFound
<1>1. \A r \in Startup!Rank : step[r] = "done" /\ HasCounted(r)
  BY DEF Startup!Found, HasCounted
<1>2. \A r \in Startup!Rank : /\ mapped[r] \in Startup!Rank /\ named[Startup!Node(r)] = Startup!NoObject
                      /\ color[r] = content[mapped[r]].first /\ Startup!Node(color[r]) = Startup!Node(r)
  BY <1>1 DEF MapInv, ColorInv
<1>3. \A q, r \in Startup!Rank : Startup!Node(q) = Startup!Node(r) => color[q] = color[r]
  BY <1>1, <1>2 DEF OneObject
<1>4. \A r \in Startup!Rank : {q \in Startup!Rank : color[q] = color[r]} = Startup!Nl[r]
  BY <1>2, <1>3 DEF Startup!Nl
<1>5. \A n \in NodeId : named[n] = Startup!NoObject
  BY <1>2, NodeOfRank
<1>6. DOMAIN named = NodeId
  BY DEF StartTypes
<1> QED
  BY <1>4, <1>5, <1>6 DEF Startup!NodesAreFound

-----------------------------------------------------------------------------
(* The job.                                                                *)

\* A job, as its start-up sees it, only makes the steps of the start-up.
LEMMA JobStartsUp == JobSpec => Startup!Spec
<1>1. JobInit => Startup!Init
  BY DEF JobInit
<1>2. ASSUME NEW r \in Rank, StartStep(r) PROVE Startup!Next
  BY <1>2 DEF StartStep, Startup!Next, Startup!Rank, Rank
<1>3. [JobNext]_job => [Startup!Next]_(Startup!vars)
  BY <1>2 DEF JobNext, job, startup, WorkStep, JobDone, Startup!vars
<1> QED
  BY <1>1, <1>3, PTL DEF JobSpec, Startup!Spec

\* As its mailboxes see it, only those of the mailboxes.
LEMMA JobWorks == JobSpec => Spec
<1>1. JobInit => Init
  BY DEF JobInit
<1>2. [JobNext]_job => [Next]_vars
  BY DEF JobNext, job, StartStep, WorkStep, JobDone, Next, vars
<1> QED
  BY <1>1, <1>2, PTL DEF JobSpec, Spec

\* Whatever an earlier job has left in shared memory, the ranks of each node
\* have found each other when the first of them uses its mailbox
\* (comm::init_nl_comm of include/ygm/impl/mpi.ipp).
THEOREM JobFindsNodes == JobSpec => []NodesAreFound
<1>1. StartInv => NodesAreFound
  BY StartImplies DEF NodesAreFound
<1> QED
  BY <1>1, StartInit, StartKeeps, JobStartsUp, PTL DEF Startup!Spec

\* In a job, too, the mailboxes are empty when the first of them is gone.
THEOREM JobClosesEmpty == JobSpec => [](TypeOK /\ GoneMeansEmpty)
BY JobWorks, MailboxTypes, MailboxClosesEmpty, PTL

-----------------------------------------------------------------------------
(* The routes: where the index of a communicator leads.                    *)

\* Two members of a communicator have different places in it.
LEMMA PlaceInGroup ==
  ASSUME NEW S, S \subseteq Nat, IsFiniteSet(S), NEW q \in S
  PROVE  /\ RankIn(S, q) \in Nat /\ RankIn(S, q) < Cardinality(S)
         /\ \A p \in S : p < q => RankIn(S, p) < RankIn(S, q)
<1>1. ASSUME NEW T, T \subseteq S, NEW x \in T
      PROVE  /\ Cardinality(T) \in Nat /\ Cardinality({p \in S : p < x} \cap T) < Cardinality(T)
  <2> DEFINE U == {p \in S : p < x} \cap T
  <2>1. IsFiniteSet(T) /\ U \in SUBSET T /\ x \notin U
    <3>1. IsFiniteSet(T)
      BY <1>1, FS_Subset
    <3>2. x \in Nat /\ ~(x < x)
      BY <1>1
    <3> QED
      BY <3>1, <3>2
  <2>2. Cardinality(U) \in Nat /\ Cardinality(T) \in Nat
    BY <2>1, FS_Subset, FS_CardinalityType
  <2>3. Cardinality(U) <= Cardinality(T) /\ (Cardinality(T) = Cardinality(U) => T = U)
    <3> HIDE DEF U
    <3> QED
      BY <2>1, FS_Subset
  <2>4. T # U
    BY <1>1, <2>1
  <2> HIDE DEF U
  <2> QED
    BY <2>2, <2>3, <2>4 DEF U
<1>2. RankIn(S, q) = Cardinality({p \in S : p < q}) /\ {p \in S : p < q} = {p \in S : p < q} \cap S
  BY DEF RankIn
<1>3. RankIn(S, q) \in Nat /\ RankIn(S, q) < Cardinality(S)
  <2>1. IsFiniteSet({p \in S : p < q})
    BY FS_Subset
  <2>2. Cardinality({p \in S : p < q}) \in Nat
    BY <2>1, FS_CardinalityType
  <2> QED
    BY <1>1, <1>2, <2>2
<1>4. ASSUME NEW p \in S, p < q PROVE RankIn(S, p) < RankIn(S, q)
  <2> DEFINE T == {x \in S : x < q}
  <2>1. T \subseteq S /\ p \in T
    BY <1>4
  <2>2. {x \in S : x < p} \cap T = {x \in S : x < p}
    <3>1. \A x \in S : x \in Nat /\ p \in Nat /\ q \in Nat
      OBVIOUS
    <3>2. \A x \in S : x < p => x < q
      BY <1>4, <3>1
    <3> QED
      BY <3>2
  <2> HIDE DEF T
  <2>3. Cardinality({x \in S : x < p}) < Cardinality(T)
    BY <1>1, <2>1, <2>2
  <2> QED
    BY <2>3 DEF RankIn, T
<1> QED
  BY <1>3, <1>4

HopFor(s, m, q) == [stage |-> s, msg |-> m, to |-> q]
HopsFor(s, m, D) == {HopFor(s, m, q) : q \in D}
HopsAt(comm, s, I, m) == {Hop(comm, s, i, m) : i \in I}

\* The index of a member leads to it.
LEMMA HopTo ==
  ASSUME NEW comm, comm \subseteq Rank, NEW q \in comm, NEW s, NEW m
  PROVE  /\ Hop(comm, s, RankIn(comm, q), m) = HopFor(s, m, q)
         /\ RankIn(comm, q) \in 0..(Cardinality(comm) - 1)
<1>1. comm \subseteq Nat /\ IsFiniteSet(comm)
  BY RankFacts, FS_Subset
<1>2. RankIn(comm, q) \in Nat /\ RankIn(comm, q) < Cardinality(comm) /\ Cardinality(comm) \in Nat
  BY <1>1, PlaceInGroup, FS_CardinalityType
<1>3. PICK p \in comm : /\ RankIn(comm, p) = RankIn(comm, q)
                        /\ Hop(comm, s, RankIn(comm, q), m) = HopFor(s, m, p)
  BY <1>2, HopGoes DEF HopFor
<1>4. p = q
  <2>1. p \in Nat /\ q \in Nat
    BY <1>1
  <2>2. ~(p < q) /\ ~(q < p)
    <3>1. p < q => RankIn(comm, p) < RankIn(comm, q)
      BY <1>1, PlaceInGroup
    <3>2. q < p => RankIn(comm, q) < RankIn(comm, p)
      BY <1>1, PlaceInGroup
    <3> QED
      BY <3>1, <3>2, <1>2, <1>3
  <2> QED
    BY <2>1, <2>2
<1> QED
  BY <1>2, <1>3, <1>4

\* I are the indices of D.
Indexes(comm, I, D) ==
  /\ D \subseteq comm /\ I \subseteq 0..(Cardinality(comm) - 1)
  /\ \A q \in comm : RankIn(comm, q) \in I <=> q \in D

\* Hops to some indices are hops to the members with these indices.
LEMMA HopsTo ==
  ASSUME NEW comm, comm \subseteq Rank, NEW s, NEW m, NEW D, NEW I, Indexes(comm, I, D)
  PROVE  HopsAt(comm, s, I, m) = HopsFor(s, m, D)
<1>0. /\ D \subseteq comm /\ I \subseteq 0..(Cardinality(comm) - 1)
      /\ \A q \in comm : RankIn(comm, q) \in I <=> q \in D
  BY DEF Indexes
<1>1. Cardinality(comm) \in Nat
  BY RankFacts, FS_Subset, FS_CardinalityType
<1>2. ASSUME NEW i \in I
      PROVE  \E q \in D : Hop(comm, s, i, m) = HopFor(s, m, q)
  <2>1. i \in Nat /\ i < Cardinality(comm)
    BY <1>0, <1>1
  <2>2. PICK q \in comm : RankIn(comm, q) = i /\ Hop(comm, s, i, m) = HopFor(s, m, q)
    BY <2>1, HopGoes DEF HopFor
  <2> QED
    BY <2>2, <1>0
<1>3. ASSUME NEW q \in D
      PROVE  \E i \in I : Hop(comm, s, i, m) = HopFor(s, m, q)
  <2>1. q \in comm /\ RankIn(comm, q) \in I
    BY <1>0
  <2>2. Hop(comm, s, RankIn(comm, q), m) = HopFor(s, m, q)
    BY <2>1, HopTo
  <2> QED
    BY <2>1, <2>2
<1> QED
  BY <1>2, <1>3 DEF HopsAt, HopsFor

\* f lists the members below q.
ListsBelow(f, i, S, q) ==
  /\ \A j \in 0..(i - 1) : f[j] \in S /\ f[j] < q
  /\ \A j, k \in 0..(i - 1) : f[j] = f[k] => j = k
  /\ \A p \in S : p < q => \E j \in 0..(i - 1) : f[j] = p

\* A member's place is the number of those before it.
LEMMA CountBelow ==
  ASSUME NEW S, NEW q, NEW i \in Nat, NEW f, ListsBelow(f, i, S, q)
  PROVE  RankIn(S, q) = i
<1> DEFINE I == 0..(i - 1)
           T == {p \in S : p < q}
           g == [j \in I |-> f[j]]
<1>1. g \in Injection(I, T) /\ g \in Surjection(I, T)
  BY DEF Injection, IsInjective, Surjection, ListsBelow
<1>2. ExistsBijection(I, T)
  BY <1>1 DEF ExistsBijection, Bijection
<1>3. IsFiniteSet(I) /\ Cardinality(I) = i
  BY FS_Interval
<1> HIDE DEF I, T, g
<1>4. Cardinality(T) = i
  BY <1>2, <1>3, FS_Bijection
<1> QED
  BY <1>4 DEF RankIn, T

\* The place in the communicators that are no doors: the core, the node, the rank.
LEMMA PlainPlaces ==
  ASSUME NEW q \in Rank
  PROVE  RankIn(Nr[q], q) = Node(q) /\ RankIn(Rank, q) = q
<1>0. /\ Rank \subseteq Nat /\ Node(q) \in 0..(Nodes - 1) /\ Core(q) \in 0..(Cores - 1)
      /\ q = Node(q) * Cores + Core(q) /\ q \in Nat
  BY RankFacts
<1>1. RankIn(Nr[q], q) = Node(q)
  <2> DEFINE n == Node(q)
             c == Core(q)
             f == [j \in 0..(n - 1) |-> j * Cores + c]
  <2>1. n \in Nat /\ n < Nodes /\ c \in Nat
    BY <1>0, Shape
  <2>2. \A j \in 0..(n - 1) : j \in 0..(Nodes - 1) /\ f[j] = j * Cores + c
    BY <2>1, Shape
  <2>3. ASSUME NEW j \in 0..(n - 1) PROVE f[j] \in Nr[q] /\ f[j] < q /\ Node(f[j]) = j
    <3>1. f[j] \in Rank /\ Node(f[j]) = j /\ Core(f[j]) = c
      BY <2>2, <1>0, RankAt
    <3>2. j * Cores \in Nat /\ (j + 1) * Cores = j * Cores + Cores /\ (j + 1) * Cores <= n * Cores
      <4>1. j \in Nat /\ j + 1 \in Nat /\ j + 1 <= n
        BY <2>1
      <4>2. (j + 1) * Cores <= n * Cores
        BY <4>1, <2>1, Shape, Multiples
      <4> QED
        BY <4>1, <4>2, Shape
    <3>3. f[j] < q
      BY <2>1, <2>2, <3>2, <1>0, Shape
    <3> QED
      BY <3>1, <3>3 DEF Nr
  <2>4. ASSUME NEW p \in Nr[q], p < q PROVE \E j \in 0..(n - 1) : f[j] = p
    <3>1. p \in Rank /\ Core(p) = c /\ Node(p) \in Nat /\ p = Node(p) * Cores + c /\ p \in Nat
      BY <2>4, RankFacts, Shape DEF Nr
    <3>2. ~(n <= Node(p))
      <4> SUFFICES ASSUME n <= Node(p) PROVE FALSE
        OBVIOUS
      <4>1. n * Cores <= Node(p) * Cores /\ n * Cores \in Nat /\ Node(p) * Cores \in Nat
        BY <3>1, <2>1, Shape, Multiples
      <4> QED
        BY <4>1, <3>1, <2>1, <2>4, <1>0
    <3>3. Node(p) \in 0..(n - 1)
      BY <3>1, <3>2, <2>1
    <3> QED
      BY <3>1, <3>3, <2>2
  <2>5. \A j, k \in 0..(n - 1) : f[j] = f[k] => j = k
    BY <2>3
  <2> HIDE DEF f, n
  <2>6. ListsBelow(f, n, Nr[q], q)
    BY <2>3, <2>4, <2>5 DEF ListsBelow
  <2>7. RankIn(Nr[q], q) = n
    BY <2>1, <2>6, CountBelow
  <2> QED
    BY <2>7 DEF n
<1>2. RankIn(Rank, q) = q
  <2> DEFINE f == [j \in 0..(q - 1) |-> j]
  <2>1. \A j \in 0..(q - 1) : f[j] = j /\ j \in Rank /\ j < q
    BY <1>0, Shape DEF Rank
  <2>2. \A p \in Rank : p < q => p \in 0..(q - 1)
    BY <1>0
  <2> HIDE DEF f
  <2>3. ListsBelow(f, q, Rank, q)
    BY <2>1, <2>2 DEF ListsBelow
  <2> QED
    BY <2>3, <1>0, CountBelow
<1> QED
  BY <1>1, <1>2

\* A rank's number, its node's and its layer's.
LEMMA NodeFacts ==
  ASSUME NEW q \in Rank
  PROVE  /\ Core(q) \in 0..(Cores - 1) /\ Layer(q) \in 0..(Cores - 1)
         /\ Node(q) \in Nat /\ Node(q) < Nodes /\ Node(q) \div Cores \in Nat
         /\ Node(q) = (Node(q) \div Cores) * Cores + Layer(q)
         /\ q = Node(q) * Cores + Core(q) /\ q \in Nat
<1>1. /\ Core(q) \in 0..(Cores - 1) /\ Layer(q) \in 0..(Cores - 1)
      /\ Node(q) \in 0..(Nodes - 1) /\ q = Node(q) * Cores + Core(q) /\ q \in Nat
  BY RankFacts
<1>2. Node(q) \in Nat /\ Node(q) < Nodes
  BY <1>1, Shape
<1>3. Node(q) \div Cores \in Nat /\ Node(q) = (Node(q) \div Cores) * Cores + Layer(q)
  BY <1>2, Shape, Division DEF Layer
<1> QED
  BY <1>1, <1>2, <1>3

\* Node n of layer l in group d of the nodes, and the core c of door number i.
DoorParts(low, high, i, d, b, l, c, n) ==
  /\ i = 2 * d + b /\ l < Cores /\ c < Cores /\ n * Cores \in Nat
  /\ (b = 0 => l = low /\ c = high) /\ (b = 1 => l = high /\ c = low)
  /\ d * Cores \in Nat /\ n = d * Cores + l
  /\ Door(low, high, i) = n * Cores + c

\* A door's number is that of its node and core.
LEMMA DoorIs ==
  ASSUME NEW low \in 0..(Cores - 1), NEW high \in 0..(Cores - 1), NEW i \in Nat
  PROVE  \E d \in Nat, b \in {0, 1}, l \in Nat, c \in Nat, n \in Nat :
           DoorParts(low, high, i, d, b, l, c, n)
<1>0. low \in Nat /\ high \in Nat /\ low < Cores /\ high < Cores
  BY Shape
<1>1. PICK d \in Nat, b \in {0, 1} : d = i \div 2 /\ b = i % 2 /\ i = 2 * d + b
  OBVIOUS
<1>2. PICK l \in Nat, c \in Nat : l = (IF i % 2 = 0 THEN low ELSE high) /\ c = (IF i % 2 = 0 THEN high ELSE low)
  BY <1>0
<1>3. d * Cores \in Nat
  BY <1>1, Shape
<1>4. PICK n \in Nat : n = d * Cores + l
  BY <1>3
<1>5. n * Cores \in Nat
  BY Shape
<1>6. Door(low, high, i) = n * Cores + c
  BY <1>1, <1>2, <1>4 DEF Door
<1>7. /\ l < Cores /\ c < Cores
      /\ (b = 0 => l = low /\ c = high) /\ (b = 1 => l = high /\ c = low)
  BY <1>0, <1>1, <1>2
<1> QED
  BY <1>1, <1>3, <1>4, <1>5, <1>6, <1>7 DEF DoorParts

\* Doors between two layers in the order of their nodes.
LEMMA DoorOrder ==
  ASSUME NEW low \in 0..(Cores - 1), NEW high \in 0..(Cores - 1), low < high,
         NEW j \in Nat, NEW k \in Nat, j < k
  PROVE  Door(low, high, j) < Door(low, high, k)
<1>0. low \in Nat /\ high \in Nat
  BY Shape
<1>1. PICK d \in Nat, b \in {0, 1}, l \in Nat, c \in Nat, n \in Nat : DoorParts(low, high, j, d, b, l, c, n)
  BY DoorIs
<1>2. PICK d2 \in Nat, b2 \in {0, 1}, l2 \in Nat, c2 \in Nat, n2 \in Nat : DoorParts(low, high, k, d2, b2, l2, c2, n2)
  BY DoorIs
<1>3. n < n2
  <2>1. d < d2 \/ (d = d2 /\ b = 0 /\ b2 = 1)
    BY <1>1, <1>2 DEF DoorParts
  <2>2. CASE d = d2 /\ b = 0 /\ b2 = 1
    BY <1>0, <1>1, <1>2, <2>2 DEF DoorParts
  <2>3. CASE d < d2
    <3>1. d + 1 \in Nat /\ d + 1 <= d2
      BY <2>3
    <3>2. (d + 1) * Cores <= d2 * Cores /\ (d + 1) * Cores = d * Cores + Cores
      BY <3>1, Shape, Multiples
    <3> QED
      BY <3>2, <1>1, <1>2, Shape DEF DoorParts
  <2> QED
    BY <2>1, <2>2, <2>3
<1>4. n + 1 \in Nat /\ n + 1 <= n2
  BY <1>3
<1>5. (n + 1) * Cores <= n2 * Cores /\ (n + 1) * Cores = n * Cores + Cores
  BY <1>4, Shape, Multiples
<1> QED
  BY <1>1, <1>2, <1>5, Shape DEF DoorParts

\* The place of a door in its communicator: nodes of its two layers take turns.
DoorPlace(q) ==
  LET g == Node(q) \div Cores
  IN  IF Layer(q) = Core(q) THEN g ELSE IF Layer(q) > Core(q) THEN 2 * g + 1 ELSE 2 * g

\* A rank at the door between two layers is the one with its place's number.
LEMMA DoorAt ==
  ASSUME NEW low \in 0..(Cores - 1), NEW high \in 0..(Cores - 1), low < high,
         NEW q \in Rank, Color(q) = {low, high}
  PROVE  DoorPlace(q) \in Nat /\ Door(low, high, DoorPlace(q)) = q /\ Doors(low, high, DoorPlace(q))
<1> DEFINE g == Node(q) \div Cores
           i == DoorPlace(q)
<1>0. low \in Nat /\ high \in Nat
  BY Shape
<1>1. /\ g \in Nat /\ Node(q) = g * Cores + Layer(q) /\ Node(q) < Nodes
      /\ q = Node(q) * Cores + Core(q)
  BY NodeFacts
<1>2. \/ Core(q) = low /\ Layer(q) = high
      \/ Core(q) = high /\ Layer(q) = low
  BY <1>0 DEF Color
<1>3. CASE Core(q) = low /\ Layer(q) = high
  <2>1. i = 2 * g + 1 /\ i \in Nat
    BY <1>0, <1>1, <1>3 DEF DoorPlace
  <2>2. i \div 2 = g /\ i % 2 = 1
    BY <2>1, <1>1
  <2>3. Door(low, high, i) = q
    BY <1>1, <1>3, <2>2 DEF Door
  <2>4. g * Cores + high < Nodes
    BY <1>1, <1>3
  <2> HIDE DEF i, g
  <2>5. Doors(low, high, i)
    BY <2>1, <2>4, <1>1, DoorFacts
  <2> QED
    BY <2>1, <2>3, <2>5 DEF i
<1>4. CASE Core(q) = high /\ Layer(q) = low
  <2>1. i = 2 * g /\ i \in Nat
    BY <1>0, <1>1, <1>4 DEF DoorPlace
  <2>2. i \div 2 = g /\ i % 2 = 0
    BY <2>1, <1>1
  <2>3. Door(low, high, i) = q
    BY <1>1, <1>4, <2>2 DEF Door
  <2>4. g * Cores + low < Nodes
    BY <1>1, <1>4
  <2> HIDE DEF i, g
  <2>5. Doors(low, high, i)
    BY <2>1, <2>4, <1>1, DoorFacts
  <2> QED
    BY <2>1, <2>3, <2>5 DEF i
<1> QED
  BY <1>2, <1>3, <1>4

\* Each rank of comm_nlnr is at that place.
LEMMA NlnrPlace ==
  ASSUME NEW q \in Rank
  PROVE  RankIn(Nlnr[q], q) = DoorPlace(q) /\ DoorPlace(q) \in Nat
<1> DEFINE g == Node(q) \div Cores
           c == Core(q)
           l == Layer(q)
<1>0. /\ c \in 0..(Cores - 1) /\ l \in 0..(Cores - 1) /\ c \in Nat /\ l \in Nat
      /\ g \in Nat /\ Node(q) = g * Cores + l /\ Node(q) < Nodes /\ Node(q) \in Nat
      /\ q = Node(q) * Cores + c /\ q \in Nat
  BY NodeFacts, Shape
<1>1. Nlnr[q] \subseteq Rank /\ Nlnr[q] \subseteq Nat /\ \A p \in Rank : p \in Nlnr[q] <=> Color(p) = {c, l}
  BY RankFacts DEF Nlnr, Color
<1>2. CASE c # l
  <2>1. PICK low \in 0..(Cores - 1), high \in 0..(Cores - 1) : low < high /\ {low, high} = {c, l}
    <3>1. c < l \/ l < c
      BY <1>0, <1>2
    <3>2. {c, l} = {l, c}
      OBVIOUS
    <3> HIDE DEF c, l
    <3> QED
      BY <1>0, <3>1, <3>2
  <2> DEFINE i == DoorPlace(q)
             f == [j \in 0..(i - 1) |-> Door(low, high, j)]
  <2>2. \A p \in Nlnr[q] : DoorPlace(p) \in Nat /\ Door(low, high, DoorPlace(p)) = p /\ Doors(low, high, DoorPlace(p))
    BY <2>1, <1>1, DoorAt
  <2>3. q \in Nlnr[q]
    BY DEF Nlnr
  <2>4. i \in Nat /\ Door(low, high, i) = q /\ Doors(low, high, i)
    BY <2>2, <2>3
  <2>5. ASSUME NEW j \in 0..(i - 1) PROVE f[j] \in Nlnr[q] /\ f[j] < q
    <3>1. j \in 0..i /\ j \in Nat /\ j < i /\ f[j] = Door(low, high, j)
      BY <2>4
    <3>2. f[j] \in Rank /\ {Core(f[j]), Layer(f[j])} = {low, high}
      BY <3>1, <2>4 DEF Doors
    <3>3. f[j] < q
      BY <3>1, <2>1, <2>4, DoorOrder
    <3> HIDE DEF f
    <3> QED
      BY <3>2, <3>3, <2>1, <1>1 DEF Color
  <2>6. ASSUME NEW p \in Nlnr[q], p < q PROVE \E j \in 0..(i - 1) : f[j] = p
    <3>1. DoorPlace(p) \in Nat /\ Door(low, high, DoorPlace(p)) = p
      BY <2>2, <2>6
    <3>2. ~(i < DoorPlace(p))
      <4> SUFFICES ASSUME i < DoorPlace(p) PROVE FALSE
        OBVIOUS
      <4>1. q < p
        BY <2>1, <2>4, <3>1, DoorOrder
      <4> QED
        BY <4>1, <2>6, <1>1, <1>0
    <3>3. i # DoorPlace(p)
      BY <2>4, <2>6, <3>1, <1>0
    <3>4. DoorPlace(p) \in 0..(i - 1)
      BY <3>1, <3>2, <3>3, <2>4
    <3> QED
      BY <3>1, <3>4
  <2>7. \A j, k \in 0..(i - 1) : f[j] = f[k] => j = k
    <3>1. \A j \in 0..(i - 1) : j \in 0..i /\ f[j] = Door(low, high, j)
      BY <2>4
    <3> HIDE DEF f
    <3> QED
      BY <3>1, <2>4 DEF Doors
  <2> HIDE DEF f, i
  <2>8. ListsBelow(f, i, Nlnr[q], q)
    BY <2>5, <2>6, <2>7 DEF ListsBelow
  <2>9. RankIn(Nlnr[q], q) = i
    BY <2>4, <2>8, CountBelow
  <2> QED
    BY <2>4, <2>9 DEF i
<1>3. CASE c = l
  <2> DEFINE n(j) == j * Cores + c
             f == [j \in 0..(g - 1) |-> n(j) * Cores + c]
  <2>0. DoorPlace(q) = g
    BY <1>3 DEF DoorPlace
  <2>1. ASSUME NEW p \in Nlnr[q]
        PROVE  /\ p \in Rank /\ Node(p) \div Cores \in Nat /\ Node(p) = n(Node(p) \div Cores)
               /\ p = n(Node(p) \div Cores) * Cores + c
    <3>1. p \in Rank /\ Core(p) = c /\ Layer(p) = c
      BY <1>1, <1>3 DEF Color
    <3>2. Node(p) \in Nat /\ p = Node(p) * Cores + Core(p)
      BY <3>1, RankFacts, Shape
    <3>3. Node(p) \div Cores \in Nat /\ Node(p) = (Node(p) \div Cores) * Cores + Layer(p)
      BY <3>2, Shape, Division DEF Layer
    <3> QED
      BY <3>1, <3>2, <3>3
  <2>2. ASSUME NEW j \in Nat, NEW k \in Nat, j < k
        PROVE  n(j) \in Nat /\ n(k) \in Nat /\ n(j) < n(k) /\ n(j) * Cores + c < n(k) * Cores + c
    <3>1. j + 1 \in Nat /\ j + 1 <= k
      BY <2>2
    <3>2. (j + 1) * Cores <= k * Cores /\ (j + 1) * Cores = j * Cores + Cores /\ j * Cores \in Nat /\ k * Cores \in Nat
      BY <3>1, Shape, Multiples
    <3>3. n(j) \in Nat /\ n(k) \in Nat /\ n(j) + 1 <= n(k)
      BY <3>2, <1>0, Shape
    <3> HIDE DEF n
    <3>4. (n(j) + 1) * Cores <= n(k) * Cores /\ (n(j) + 1) * Cores = n(j) * Cores + Cores
      <4>1. n(j) + 1 \in Nat
        BY <3>3
      <4> QED
        BY <4>1, <3>3, Shape, Multiples
    <3>5. n(j) * Cores \in Nat /\ n(k) * Cores \in Nat
      BY <3>3, Shape
    <3> QED
      BY <3>3, <3>4, <3>5, <1>0, Shape
  <2>3. Node(q) = n(g) /\ q = n(g) * Cores + c
    BY <1>0, <1>3
  <2>4. ASSUME NEW j \in 0..(g - 1) PROVE f[j] \in Nlnr[q] /\ f[j] < q
    <3>1. j \in Nat /\ j < g /\ f[j] = n(j) * Cores + c
      BY <1>0
    <3>2. n(j) \in Nat /\ n(j) < n(g) /\ f[j] < q
      BY <3>1, <2>2, <2>3, <1>0
    <3>3. n(j) \in 0..(Nodes - 1)
      <4> DEFINE own == Node(q)
      <4>1. own = n(g) /\ own \in Nat /\ own < Nodes
        BY <2>3, <1>0
      <4> HIDE DEF n, f, g, c, l, own
      <4> QED
        BY <4>1, <3>2, Shape
    <3>4. f[j] \in Rank /\ Node(f[j]) = n(j) /\ Core(f[j]) = c
      <4> HIDE DEF n, f
      <4> QED
        BY <3>1, <3>3, <1>0, RankAt
    <3>5. n(j) % Cores = c
      BY <3>1, <1>0, Shape, Quotient
    <3> HIDE DEF f, n
    <3>6. Layer(f[j]) = c
      BY <3>4, <3>5 DEF Layer
    <3> QED
      BY <3>2, <3>4, <3>6, <1>1, <1>3 DEF Color
  <2>5. ASSUME NEW p \in Nlnr[q], p < q PROVE \E j \in 0..(g - 1) : f[j] = p
    <3> DEFINE k == Node(p) \div Cores
    <3>1. k \in Nat /\ p = n(k) * Cores + c /\ p \in Nat
      BY <2>1, <1>1
    <3>2. ~(g < k) /\ g # k
      <4>1. g < k => q < p
        BY <2>2, <2>3, <3>1, <1>0
      <4> QED
        BY <4>1, <2>3, <2>5, <3>1, <1>0
    <3>3. k \in 0..(g - 1)
      BY <3>1, <3>2, <1>0
    <3> QED
      BY <3>1, <3>3
  <2>6. \A j, k \in 0..(g - 1) : f[j] = f[k] => j = k
    <3> SUFFICES ASSUME NEW j \in 0..(g - 1), NEW k \in 0..(g - 1), f[j] = f[k] PROVE j = k
      OBVIOUS
    <3>1. j \in Nat /\ k \in Nat /\ f[j] = n(j) * Cores + c /\ f[k] = n(k) * Cores + c
      BY <1>0
    <3>2. /\ j < k => n(j) \in Nat /\ n(k) \in Nat /\ f[j] < f[k]
          /\ k < j => n(j) \in Nat /\ n(k) \in Nat /\ f[k] < f[j]
      BY <3>1, <2>2
    <3>3. f[j] \in Nat
      <4>1. f[j] \in Nlnr[q]
        BY <2>4
      <4> QED
        BY <4>1, <1>1
    <3> QED
      BY <3>1, <3>2, <3>3
  <2> HIDE DEF f, g
  <2>7. ListsBelow(f, g, Nlnr[q], q)
    BY <2>4, <2>5, <2>6 DEF ListsBelow
  <2>8. RankIn(Nlnr[q], q) = g
    BY <2>7, <1>0, CountBelow
  <2> QED
    BY <2>0, <2>8, <1>0
<1> QED
  BY <1>2, <1>3

-----------------------------------------------------------------------------
(* Hops by the rank they go to.                                            *)

\* The members of comm_nlnr to which r hands a broadcast: the nodes that its core
\* is the door to.
Fan(r) == {q \in Rank : Layer(q) = Core(r) /\ Core(q) = Layer(r) /\ q # r}

\* BcastRemotes picks them by the parity of their index.
LEMMA FanHops ==
  ASSUME NEW r \in Rank, NEW m
  PROVE  {NlnrTo(r, Remote, i, m) : i \in BcastRemotes(r)} = HopsFor(2, m, Fan(r))
<1> DEFINE comm == Nlnr[r]
<1>0. comm \subseteq Rank /\ r \in comm /\ \A q \in Rank : q \in comm <=> Color(q) = Color(r)
  BY DEF Nlnr
<1>1. Fan(r) \subseteq comm /\ BcastRemotes(r) \subseteq 0..(Cardinality(comm) - 1)
  BY <1>0 DEF Fan, Color, BcastRemotes
<1>2. ASSUME NEW q \in comm PROVE RankIn(comm, q) \in BcastRemotes(r) <=> q \in Fan(r)
  <2>1. q \in Rank /\ Color(q) = Color(r)
    BY <1>0, <1>2
  <2>2. Nlnr[q] = comm
    BY <2>1 DEF Nlnr
  <2>3. /\ RankIn(comm, q) = DoorPlace(q) /\ DoorPlace(q) \in Nat
        /\ RankIn(comm, r) = DoorPlace(r) /\ DoorPlace(r) \in Nat
    <3>1. RankIn(Nlnr[q], q) = DoorPlace(q) /\ DoorPlace(q) \in Nat
      BY <2>1, NlnrPlace
    <3>2. RankIn(Nlnr[r], r) = DoorPlace(r) /\ DoorPlace(r) \in Nat
      BY NlnrPlace
    <3> QED
      BY <3>1, <3>2, <2>2
  <2>4. RankIn(comm, q) \in 0..(Cardinality(comm) - 1) /\ (RankIn(comm, q) = RankIn(comm, r) <=> q = r)
    <3>1. comm \subseteq Nat /\ IsFiniteSet(comm)
      BY <1>0, RankFacts, FS_Subset
    <3>2. /\ q < r => RankIn(comm, q) < RankIn(comm, r)
          /\ r < q => RankIn(comm, r) < RankIn(comm, q)
      BY <3>1, <1>0, PlaceInGroup
    <3>3. q \in Nat /\ r \in Nat
      BY <3>1, <1>0
    <3>4. RankIn(comm, q) \in 0..(Cardinality(comm) - 1)
      BY <1>0, HopTo
    <3> QED
      BY <3>2, <3>3, <3>4, <2>3
  <2>5. /\ Core(q) \in Nat /\ Core(r) \in Nat /\ Layer(q) \in Nat /\ Layer(r) \in Nat
        /\ Node(q) \div Cores \in Nat /\ Node(r) \div Cores \in Nat
    BY <2>1, NodeFacts, Shape
  <2>6. \/ Core(q) = Core(r) /\ Layer(q) = Layer(r)
        \/ Core(q) = Layer(r) /\ Layer(q) = Core(r)
    BY <2>1 DEF Color
  <2>7. CASE Core(r) = Layer(r)
    BY <2>1, <2>4, <2>6, <2>7 DEF BcastRemotes, Fan
  <2>8. CASE Core(r) # Layer(r)
    <3>1. /\ DoorPlace(q) % 2 = IF Layer(q) > Core(q) THEN 1 ELSE 0
          /\ DoorPlace(r) % 2 = IF Layer(r) > Core(r) THEN 1 ELSE 0
      BY <2>5, <2>6, <2>8 DEF DoorPlace
    <3>2. Parity(r) = DoorPlace(r) % 2
      BY <2>3 DEF Parity
    <3>3. Parity(r) # DoorPlace(q) % 2 <=> (Layer(q) = Core(r) /\ Core(q) = Layer(r))
      BY <3>1, <3>2, <2>5, <2>6, <2>8
    <3> QED
      BY <3>3, <2>1, <2>3, <2>4, <2>8 DEF BcastRemotes, Fan
  <2> QED
    BY <2>7, <2>8
<1> DEFINE H == HopsAt(comm, 2, BcastRemotes(r), m)
<1>3. H = HopsFor(2, m, Fan(r))
  <2> HIDE DEF comm
  <2>1. Indexes(comm, BcastRemotes(r), Fan(r))
    BY <1>1, <1>2 DEF Indexes
  <2> QED
    BY <2>1, <1>0, HopsTo
<1>4. {NlnrTo(r, Remote, i, m) : i \in BcastRemotes(r)} = H
  BY DEF NlnrTo, NlnrGroup, Remote, HopsAt
<1> QED
  BY <1>3, <1>4

\* To all other cores of the own node, and to one.
LEMMA NodeHops ==
  ASSUME NEW r \in Rank, NEW s \in {1, 3}, NEW m
  PROVE  /\ {NlnrTo(r, s, i, m) : i \in 0..(Cores - 1) \ {Core(r)}} = HopsFor(s, m, Nl[r] \ {r})
         /\ \A q \in Nl[r] : NlnrTo(r, s, Core(q), m) = HopFor(s, m, q)
<1> DEFINE I == 0..(Cores - 1) \ {Core(r)}
           D == Nl[r] \ {r}
           H == HopsAt(Nl[r], s, I, m)
<1>0. \A i : NlnrTo(r, s, i, m) = Hop(Nl[r], s, i, m)
  BY DEF NlnrTo, NlnrGroup, Remote
<1>1. Nl[r] \subseteq Rank /\ r \in Nl[r] /\ D \subseteq Nl[r]
  BY DEF Nl
<1>2. \A q \in Nl[r] : RankIn(Nl[r], q) = Core(q) /\ Core(q) \in 0..(Cores - 1)
  BY <1>1, NlFacts, RankFacts
<1>3. \A q \in Nl[r] : Core(q) = Core(r) => q = r
  <2>1. \A q \in Nl[r] : Node(q) = Node(r) /\ q = Node(q) * Cores + Core(q) /\ r = Node(r) * Cores + Core(r)
    BY <1>1, RankFacts DEF Nl
  <2> QED
    BY <2>1
<1>4. I \subseteq 0..(Cardinality(Nl[r]) - 1)
  <2>1. Cardinality(Nl[r]) \in Nat
    BY <1>1, RankFacts, FS_Subset, FS_CardinalityType
  <2> QED
    BY <2>1, NlFacts, Shape
<1>5. \A q \in Nl[r] : RankIn(Nl[r], q) \in I <=> q \in D
  BY <1>2, <1>3
<1> HIDE DEF I, D
<1>6. H = HopsFor(s, m, D)
  <2>1. Indexes(Nl[r], I, D)
    BY <1>1, <1>4, <1>5 DEF Indexes
  <2> QED
    BY <2>1, <1>1, HopsTo
<1>7. {NlnrTo(r, s, i, m) : i \in I} = H
  BY <1>0 DEF HopsAt
<1>8. ASSUME NEW q \in Nl[r]
      PROVE  NlnrTo(r, s, Core(q), m) = HopFor(s, m, q)
  <2>1. Hop(Nl[r], s, RankIn(Nl[r], q), m) = HopFor(s, m, q)
    BY <1>1, HopTo
  <2> QED
    BY <2>1, <1>0, <1>2
<1> QED
  BY <1>6, <1>7, <1>8 DEF I, D

\* The node of a message's destination is reached from the door to its layer.
LEMMA RemoteHop ==
  ASSUME NEW r \in Rank, NEW dest \in Rank, Core(r) = Layer(dest), NEW m
  PROVE  \E q \in Rank : /\ Node(q) = Node(dest)
                         /\ NlnrTo(r, Remote, RemoteIndex(r, dest), m) = HopFor(2, m, q)
<1>0. /\ Node(dest) \in 0..(Nodes - 1) /\ Layer(r) \in 0..(Cores - 1)
  BY RankFacts
<1>1. PICK q \in Rank : Node(q) = Node(dest) /\ Core(q) = Layer(r)
  BY <1>0, RankAt
<1>2. Layer(q) = Layer(dest)
  BY <1>1 DEF Layer
<1>3. Color(q) = Color(r) /\ q \in Nlnr[r] /\ Nlnr[r] \subseteq Rank /\ Nlnr[q] = Nlnr[r]
  BY <1>1, <1>2 DEF Color, Nlnr
<1>4. RankIn(Nlnr[r], q) = DoorPlace(q)
  <2>1. RankIn(Nlnr[q], q) = DoorPlace(q)
    BY NlnrPlace
  <2> QED
    BY <2>1, <1>3
<1>5. DoorPlace(q) = RemoteIndex(r, dest)
  BY <1>1, <1>2 DEF DoorPlace, RemoteIndex
<1>6. Hop(Nlnr[r], 2, RankIn(Nlnr[r], q), m) = HopFor(2, m, q)
  BY <1>3, HopTo
<1>7. NlnrTo(r, Remote, RemoteIndex(r, dest), m) = HopFor(2, m, q)
  BY <1>4, <1>5, <1>6 DEF NlnrTo, NlnrGroup, Remote
<1> QED
  BY <1>1, <1>7

Finds(k, r, s, m) ==
  \A q \in TwoStageGroup(k, s, r) : To(k, r, s, At(k, s, q), m) = HopFor(s, m, q)

\* The two stages of nrroute and nlroute: a rank's index is its core or its node.
LEMMA TwoStageHops ==
  ASSUME NEW k \in TwoStages, NEW r \in Rank, NEW s \in 1..2, NEW m
  PROVE  /\ ToOthers(k, r, s, m) = HopsFor(s, m, TwoStageGroup(k, s, r) \ {r})
         /\ Finds(k, r, s, m)
<1> DEFINE comm == TwoStageGroup(k, s, r)
           I == 0..(Cardinality(comm) - 1) \ {At(k, s, r)}
           D == comm \ {r}
<1>1. comm \subseteq Rank /\ r \in comm /\ \A q \in comm : TwoStageGroup(k, s, q) = comm
  BY DEF TwoStageGroup, Nl, Nr
<1>2. ASSUME NEW q \in comm PROVE RankIn(comm, q) = At(k, s, q)
  <2>1. q \in Rank
    BY <1>1
  <2>2. CASE Local(k, s)
    <3>1. q \in Nl[r] /\ comm = Nl[r]
      BY <1>2, <2>2 DEF TwoStageGroup
    <3> QED
      BY <3>1, <2>2, NlFacts DEF At
  <2>3. CASE ~Local(k, s)
    <3>1. comm = Nr[q]
      BY <2>1, <2>3, <1>1, <1>2 DEF TwoStageGroup
    <3> QED
      BY <3>1, <2>1, <2>3, PlainPlaces DEF At
  <2> QED
    BY <2>2, <2>3
<1>3. ASSUME NEW q \in comm, At(k, s, q) = At(k, s, r) PROVE q = r
  <2>1. comm \subseteq Nat /\ IsFiniteSet(comm)
    BY <1>1, RankFacts, FS_Subset
  <2>2. RankIn(comm, q) = RankIn(comm, r) /\ RankIn(comm, q) \in Nat
    BY <1>1, <1>2, <1>3, <2>1, PlaceInGroup
  <2>3. /\ q < r => RankIn(comm, q) < RankIn(comm, r)
        /\ r < q => RankIn(comm, r) < RankIn(comm, q)
    BY <1>1, <2>1, PlaceInGroup
  <2> QED
    BY <1>1, <2>1, <2>2, <2>3
<1>4. \A q \in comm : RankIn(comm, q) \in 0..(Cardinality(comm) - 1)
  BY <1>1, HopTo
<1>5. Indexes(comm, I, D)
  BY <1>1, <1>2, <1>3, <1>4 DEF Indexes
<1>6. ToOthers(k, r, s, m) = HopsAt(comm, s, I, m)
  BY DEF ToOthers, To, HopsAt
<1> HIDE DEF I, D
<1>7. HopsAt(comm, s, I, m) = HopsFor(s, m, D)
  BY <1>1, <1>5, HopsTo
<1>8. ASSUME NEW q \in comm PROVE To(k, r, s, At(k, s, q), m) = HopFor(s, m, q)
  <2>1. Hop(comm, s, RankIn(comm, q), m) = HopFor(s, m, q)
    BY <1>1, HopTo
  <2> QED
    BY <2>1, <1>2 DEF To
<1> QED
  BY <1>6, <1>7, <1>8 DEF D, Finds

\* The hops of noroute to the ranks D.
DirectlyTo(D, b, x) == {HopFor(1, [bcast |-> b, dest |-> q, data |-> x], q) : q \in D}

\* The only stage of noroute.
LEMMA DirectTo ==
  ASSUME NEW D, D \subseteq Rank, NEW b, NEW x
  PROVE  Direct(D, b, x) = DirectlyTo(D, b, x)
<1>1. ASSUME NEW q \in D, NEW m PROVE Hop(Rank, First, q, m) = HopFor(1, m, q)
  <2>1. q \in Rank /\ RankIn(Rank, q) = q
    BY PlainPlaces
  <2>2. Hop(Rank, 1, RankIn(Rank, q), m) = HopFor(1, m, q)
    BY <2>1, HopTo
  <2> QED
    BY <2>1, <2>2 DEF First
<1> QED
  BY <1>1 DEF Direct, DirectlyTo

-----------------------------------------------------------------------------
(* What is still to come of a hop.                                         *)

\* The nodes of the layer that rank r is the door to.
Layers(r) == {r} \cup {q \in Rank : Node(q) # Node(r) /\ Layer(q) = Core(r)}

\* The ranks that get a message from sender f to d (a broadcast if they are the
\* same) by hop h and those that follow it.
Covers(k, f, d, h) ==
  IF f # d THEN {d}
  ELSE CASE k = "nlnr" /\ h.stage = 1 -> Layers(h.to)
         [] k = "nlnr" /\ h.stage = 2 -> Nl[h.to]
         [] k \in TwoStages /\ h.stage = 1 -> TwoStageGroup(k, 2, h.to)
         [] OTHER -> {h.to}

\* A message to one rank has come to a place from where its header leads on.
OnItsWay(k, d, h) ==
  /\ ~h.msg.bcast
  /\ k = "nlnr" /\ h.stage = 1 =>
       /\ Core(h.to) = Layer(d) /\ Node(h.to) # Node(d)
       /\ h.msg.local = Core(d) /\ h.msg.node = RemoteIndex(h.to, d)
  /\ k = "nlnr" /\ h.stage = 2 => Node(h.to) = Node(d) /\ h.msg.local = Core(d)
  /\ k \in TwoStages /\ h.stage = 1 =>
       /\ At(k, 1, h.to) = At(k, 1, d)
       /\ h.msg.local = Core(d) /\ h.msg.node = Node(d)
  /\ h.stage = Last(k) => h.to = d

\* A hop that a handler or a call may have queued.
Sound(k, f, d, h) ==
  /\ h.to \in Rank /\ h.stage \in 1..Last(k)
  /\ IF f = d THEN h.msg.bcast ELSE OnItsWay(k, d, h)

\* Each rank of W has the message (M) or gets it by just one of the hops H.
Splits(k, f, d, W, M, H) ==
  /\ M \subseteq W
  /\ \A h \in H : Sound(k, f, d, h) /\ Covers(k, f, d, h) \subseteq W \ M
  /\ \A q \in W : q \in M \/ \E h \in H : q \in Covers(k, f, d, h)
  /\ \A g, h \in H, q \in W : q \in Covers(k, f, d, g) /\ q \in Covers(k, f, d, h) => g = h

\* A hop to each of some ranks.
LEMMA ManyHops ==
  ASSUME NEW k, NEW f, NEW W, NEW M, M \subseteq W, NEW s \in 1..Last(k), NEW m, m.bcast,
         NEW D, D \subseteq Rank, NEW C,
         \A q \in D : Covers(k, f, f, HopFor(s, m, q)) = C[q] /\ C[q] \subseteq W \ M,
         \A x \in W : x \in M \/ \E q \in D : x \in C[q],
         \A p \in D : \A q \in D : \A x \in W : x \in C[p] /\ x \in C[q] => p = q
  PROVE  Splits(k, f, f, W, M, HopsFor(s, m, D))
<1>1. \A q \in D : HopFor(s, m, q) \in HopsFor(s, m, D) /\ Sound(k, f, f, HopFor(s, m, q))
  BY DEF HopsFor, HopFor, Sound
<1>2. \A h \in HopsFor(s, m, D) : \E q \in D : h = HopFor(s, m, q)
  BY DEF HopsFor
<1> QED
  BY <1>1, <1>2 DEF Splits

\* A last hop to each of a group but its sender.
LEMMA ToEach ==
  ASSUME NEW k, NEW f, NEW W, W \subseteq Rank, NEW r \in W, NEW s \in 1..Last(k), NEW m, m.bcast,
         \A q \in Rank : Covers(k, f, f, HopFor(s, m, q)) = {q}
  PROVE  Splits(k, f, f, W, {r}, HopsFor(s, m, W \ {r}))
<1> DEFINE C == [q \in W |-> {q}]
           D == W \ {r}
<1>1. /\ \A q \in D : Covers(k, f, f, HopFor(s, m, q)) = C[q] /\ C[q] \subseteq W \ {r}
      /\ \A x \in W : x \in {r} \/ \E q \in D : x \in C[q]
      /\ \A p \in D : \A q \in D : \A x \in W : x \in C[p] /\ x \in C[q] => p = q
  OBVIOUS
<1>2. {r} \subseteq W /\ D \subseteq Rank
  OBVIOUS
<1> HIDE DEF C, D
<1>3. Splits(k, f, f, W, {r}, HopsFor(s, m, D))
  BY <1>1, <1>2, ManyHops
<1> QED
  BY <1>3 DEF D

\* One hop.
LEMMA OneWay ==
  ASSUME NEW k, NEW f, NEW d, f # d, NEW h, Sound(k, f, d, h)
  PROVE  Splits(k, f, d, {d}, {}, {h})
BY DEF Splits, Covers

\* No other rank has the same node and core.
LEMMA SameRank ==
  ASSUME NEW p \in Rank, NEW q \in Rank, Node(p) = Node(q), Core(p) = Core(q)
  PROVE  p = q
<1>1. p = Node(p) * Cores + Core(p) /\ q = Node(q) * Cores + Core(q)
  BY RankFacts
<1> QED
  BY <1>1

\* The rank that handles the message at the end of the hop.
Handler(k, h) == IF IsForMe(k, h.stage, h.to, h.msg) THEN {h.to} ELSE {}

\* A handler leaves nobody out of those its message was to reach, and tells none twice.
HandsOn(k, f, d, h) ==
  /\ Splits(k, f, d, Covers(k, f, d, h), Handler(k, h), Relay(k, h.stage, h.to, h.msg))
  /\ \A g \in Relay(k, h.stage, h.to, h.msg) : g.stage > h.stage

\* From the door to a layer a broadcast gets to its nodes.
LEMMA FanSplits ==
  ASSUME NEW r \in Rank, NEW f, NEW m, m.bcast
  PROVE  Splits("nlnr", f, f, Layers(r), {r}, HopsFor(2, m, Fan(r)))
<1> DEFINE W == Layers(r)
<1>1. 2 \in 1..Last("nlnr")
  BY DEF Last
<1>2. W = {r} \cup {q \in Rank : Node(q) # Node(r) /\ Layer(q) = Core(r)}
  BY DEF Layers
<1>3. ASSUME NEW q \in Fan(r)
      PROVE  Covers("nlnr", f, f, HopFor(2, m, q)) = Nl[q] /\ Nl[q] \subseteq W \ {r}
  <2>1. q \in Rank /\ Layer(q) = Core(r) /\ Core(q) = Layer(r) /\ q # r
    BY <1>3 DEF Fan
  <2>2. Node(q) # Node(r)
    <3> SUFFICES ASSUME Node(q) = Node(r) PROVE FALSE
      OBVIOUS
    <3>1. Layer(q) = Layer(r)
      BY DEF Layer
    <3> QED
      BY <3>1, <2>1, SameRank
  <2>3. \A x \in Nl[q] : x \in Rank /\ Node(x) = Node(q) /\ Layer(x) = Layer(q)
    BY <2>1 DEF Nl, Layer
  <2>4. Covers("nlnr", f, f, HopFor(2, m, q)) = Nl[q]
    BY DEF Covers, HopFor
  <2> QED
    BY <1>2, <2>1, <2>2, <2>3, <2>4
<1>4. ASSUME NEW x \in W PROVE x \in {r} \/ \E q \in Fan(r) : x \in Nl[q]
  <2> SUFFICES ASSUME x # r PROVE \E q \in Fan(r) : x \in Nl[q]
    OBVIOUS
  <2>1. x \in Rank /\ Node(x) # Node(r) /\ Layer(x) = Core(r)
    BY <1>2
  <2>2. Node(x) \in 0..(Nodes - 1) /\ Layer(r) \in 0..(Cores - 1)
    BY <2>1, RankFacts
  <2>3. PICK q \in Rank : Node(q) = Node(x) /\ Core(q) = Layer(r)
    BY <2>2, RankAt
  <2>4. Layer(q) = Layer(x)
    BY <2>3 DEF Layer
  <2> QED
    BY <2>1, <2>3, <2>4 DEF Fan, Nl
<1>5. ASSUME NEW p \in Fan(r), NEW q \in Fan(r), NEW x, x \in Nl[p], x \in Nl[q] PROVE p = q
  <2>1. p \in Rank /\ q \in Rank /\ Core(p) = Core(q)
    BY DEF Fan
  <2>2. Node(p) = Node(q)
    BY <2>1, <1>5 DEF Nl
  <2> QED
    BY <2>1, <2>2, SameRank
<1>6. Fan(r) \subseteq Rank /\ {r} \subseteq W
  BY <1>2 DEF Fan
<1> HIDE DEF W
<1>7. Splits("nlnr", f, f, W, {r}, HopsFor(2, m, Fan(r)))
  <2>1. /\ \A q \in Fan(r) : Covers("nlnr", f, f, HopFor(2, m, q)) = Nl[q] /\ Nl[q] \subseteq W \ {r}
        /\ \A x \in W : x \in {r} \/ \E q \in Fan(r) : x \in Nl[q]
        /\ \A p \in Fan(r) : \A q \in Fan(r) : \A x \in W : x \in Nl[p] /\ x \in Nl[q] => p = q
    BY <1>3, <1>4, <1>5
  <2> QED
    BY <2>1, <1>1, <1>6, ManyHops
<1> QED
  BY <1>7 DEF W

\* A broadcast in mailbox_p2p_nlnr.
LEMMA NlnrBcastOn ==
  ASSUME NEW f \in Rank, NEW h, Sound("nlnr", f, f, h)
  PROVE  HandsOn("nlnr", f, f, h)
<1> DEFINE r == h.to
           m == h.msg
           W == Covers("nlnr", f, f, h)
           R == Relay("nlnr", h.stage, h.to, h.msg)
<1>0. r \in Rank /\ m.bcast /\ h.stage \in 1..3 /\ Last("nlnr") = 3 /\ "nlnr" \notin TwoStages
  BY DEF Sound, Last, TwoStages
<1>1. Handler("nlnr", h) = {r}
  BY <1>0 DEF Handler, IsForMe, NlnrIsForMe
<1>2. CASE h.stage = 1
  <2>1. R = HopsFor(2, m, Fan(r))
    <3>1. R = {NlnrTo(r, Remote, i, m) : i \in BcastRemotes(r)}
      BY <1>0, <1>2 DEF Relay, NlnrRelay, FirstLocal, Remote, SecondLocal
    <3> QED
      BY <3>1, <1>0, FanHops
  <2>2. W = Layers(r)
    BY <1>0, <1>2 DEF Covers
  <2> HIDE DEF W, R
  <2>7. Splits("nlnr", f, f, W, {r}, HopsFor(2, m, Fan(r)))
    BY <2>2, <1>0, FanSplits
  <2>8. \A g \in R : g.stage > h.stage
    BY <2>1, <1>2 DEF HopsFor, HopFor
  <2> QED
    BY <2>1, <2>7, <2>8, <1>1 DEF HandsOn, W, R
<1>3. CASE h.stage = 2
  <2>1. R = HopsFor(3, m, Nl[r] \ {r})
    <3>1. R = {NlnrTo(r, 3, i, m) : i \in 0..(Cores - 1) \ {Core(r)}}
      BY <1>0, <1>3 DEF Relay, NlnrRelay, FirstLocal, Remote, SecondLocal
    <3> QED
      BY <3>1, <1>0, NodeHops
  <2>2. W = Nl[r] /\ Nl[r] \subseteq Rank /\ r \in Nl[r]
    BY <1>0, <1>3 DEF Covers, Nl
  <2>3. ASSUME NEW q \in Rank PROVE Covers("nlnr", f, f, HopFor(3, m, q)) = {q}
    BY <1>0 DEF Covers, HopFor
  <2>4. Splits("nlnr", f, f, W, {r}, HopsFor(3, m, W \ {r}))
    BY <2>2, <2>3, <1>0, ToEach
  <2>5. \A g \in R : g.stage > h.stage
    BY <2>1, <1>3 DEF HopsFor, HopFor
  <2> QED
    BY <2>1, <2>2, <2>4, <2>5, <1>1 DEF HandsOn
<1>4. CASE h.stage = 3
  <2>1. R = {} /\ W = {r}
    BY <1>0, <1>4 DEF Relay, NlnrRelay, Covers, FirstLocal, Remote, SecondLocal
  <2> QED
    BY <2>1, <1>1 DEF HandsOn, Splits
<1> QED
  BY <1>0, <1>2, <1>3, <1>4

\* A message to one rank.
LEMMA NlnrOn ==
  ASSUME NEW f \in Rank, NEW d \in Rank, f # d, NEW h, Sound("nlnr", f, d, h)
  PROVE  HandsOn("nlnr", f, d, h)
<1> DEFINE r == h.to
           m == h.msg
           R == Relay("nlnr", h.stage, h.to, h.msg)
<1>0. r \in Rank /\ ~m.bcast /\ h.stage \in 1..3 /\ Last("nlnr") = 3 /\ "nlnr" \notin TwoStages
  BY DEF Sound, OnItsWay, Last, TwoStages
<1>1. OnItsWay("nlnr", d, h) /\ Covers("nlnr", f, d, h) = {d}
  BY DEF Sound, Covers
<1>2. CASE h.stage = 1
  <2>1. Core(r) = Layer(d) /\ Node(r) # Node(d) /\ m.local = Core(d) /\ m.node = RemoteIndex(r, d)
    BY <1>1, <1>2 DEF OnItsWay
  <2>2. PICK q \in Rank : Node(q) = Node(d) /\ NlnrTo(r, Remote, RemoteIndex(r, d), m) = HopFor(2, m, q)
    BY <2>1, <1>0, RemoteHop
  <2>3. R = {HopFor(2, m, q)}
    BY <2>1, <2>2, <1>0, <1>2 DEF Relay, NlnrRelay, FirstLocal, Remote, SecondLocal
  <2>4. Sound("nlnr", f, d, HopFor(2, m, q))
    BY <2>1, <2>2, <1>0 DEF Sound, OnItsWay, HopFor
  <2>5. Handler("nlnr", h) = {}
    BY <1>0, <1>2 DEF Handler, IsForMe, NlnrIsForMe, SecondLocal, Remote
  <2>6. HopFor(2, m, q).stage > h.stage
    BY <1>2 DEF HopFor
  <2> HIDE DEF R
  <2> QED
    BY <1>1, <2>3, <2>4, <2>5, <2>6, OneWay DEF HandsOn, R
<1>3. CASE h.stage = 2
  <2>1. Node(r) = Node(d) /\ m.local = Core(d) /\ d \in Nl[r]
    BY <1>0, <1>1, <1>3 DEF OnItsWay, Nl
  <2>2. CASE Core(d) = Core(r)
    <3>1. r = d
      BY <2>1, <2>2, <1>0, SameRank
    <3>2. R = {} /\ Handler("nlnr", h) = {r}
      BY <2>1, <2>2, <1>0, <1>3
         DEF Relay, NlnrRelay, FirstLocal, Remote, SecondLocal, Handler, IsForMe, NlnrIsForMe
    <3> QED
      BY <3>1, <3>2, <1>1 DEF HandsOn, Splits
  <2>3. CASE Core(d) # Core(r)
    <3>1. NlnrTo(r, 3, Core(d), m) = HopFor(3, m, d)
      BY <2>1, <1>0, NodeHops
    <3>2. R = {HopFor(3, m, d)} /\ Handler("nlnr", h) = {}
      BY <2>1, <2>3, <3>1, <1>0, <1>3
         DEF Relay, NlnrRelay, FirstLocal, Remote, SecondLocal, Handler, IsForMe, NlnrIsForMe
    <3>3. Sound("nlnr", f, d, HopFor(3, m, d)) /\ HopFor(3, m, d).stage > h.stage
      BY <1>0, <1>3 DEF Sound, OnItsWay, HopFor
    <3> HIDE DEF R
    <3> QED
      BY <1>1, <3>2, <3>3, OneWay DEF HandsOn, R
  <2> QED
    BY <2>2, <2>3
<1>4. CASE h.stage = 3
  <2>1. r = d
    BY <1>0, <1>1, <1>4 DEF OnItsWay
  <2>2. R = {} /\ Handler("nlnr", h) = {r}
    BY <1>4 DEF Relay, NlnrRelay, FirstLocal, Remote, SecondLocal, Handler, IsForMe, NlnrIsForMe
  <2> QED
    BY <2>1, <2>2, <1>1 DEF HandsOn, Splits
<1> QED
  BY <1>0, <1>2, <1>3, <1>4

\* nrroute and nlroute.
LEMMA TwoStageOn ==
  ASSUME NEW k \in TwoStages, NEW f \in Rank, NEW d \in Rank, NEW h, Sound(k, f, d, h)
  PROVE  HandsOn(k, f, d, h)
<1> DEFINE r == h.to
           m == h.msg
           R == Relay(k, h.stage, h.to, h.msg)
           G == TwoStageGroup(k, 2, r)
<1>0. /\ r \in Rank /\ h.stage \in 1..2 /\ Last(k) = 2 /\ k # "nlnr" /\ k # "noroute"
      /\ R = TwoStageRelay(k, h.stage, r, m)
      /\ Handler(k, h) = IF TwoStageIsForMe(h.stage, r, m) THEN {r} ELSE {}
  BY DEF Sound, Last, TwoStages, Relay, Handler, IsForMe
<1>1. G \subseteq Rank /\ r \in G
  BY <1>0 DEF TwoStageGroup, Nl, Nr
<1>2. CASE h.stage = 2
  <2>1. R = {} /\ Handler(k, h) = {r}
    BY <1>0, <1>2 DEF TwoStageRelay, TwoStageIsForMe
  <2>2. Covers(k, f, d, h) = {r}
    BY <1>0, <1>2 DEF Covers, Sound, OnItsWay
  <2> QED
    BY <2>1, <2>2 DEF HandsOn, Splits
<1>3. CASE h.stage = 1 /\ f = d
  <2>1. m.bcast
    BY <1>3 DEF Sound
  <2>2. R = HopsFor(2, m, G \ {r}) /\ Handler(k, h) = {r}
    <3>1. 2 \in 1..2 /\ R = ToOthers(k, r, 2, m) /\ Handler(k, h) = {r}
      BY <2>1, <1>0, <1>3 DEF TwoStageRelay, TwoStageIsForMe
    <3> QED
      BY <3>1, <1>0, TwoStageHops
  <2>3. Covers(k, f, d, h) = G
    BY <1>0, <1>3 DEF Covers
  <2>4. \A q \in Rank : Covers(k, f, f, HopFor(2, m, q)) = {q}
    BY <1>0 DEF Covers, HopFor
  <2>5. \A g \in R : g.stage > h.stage
    BY <2>2, <1>3 DEF HopsFor, HopFor
  <2> HIDE DEF G, R
  <2>6. Splits(k, f, f, G, {r}, HopsFor(2, m, G \ {r}))
    BY <2>1, <2>4, <1>0, <1>1, ToEach
  <2> QED
    BY <2>2, <2>3, <2>5, <2>6, <1>3 DEF HandsOn, R
<1>4. CASE h.stage = 1 /\ f # d
  <2>1. /\ ~m.bcast /\ At(k, 1, r) = At(k, 1, d) /\ m.local = Core(d) /\ m.node = Node(d)
        /\ Covers(k, f, d, h) = {d}
    BY <1>4 DEF Sound, OnItsWay, Covers
  <2>2. d \in G /\ Goal(k, 2, m) = At(k, 2, d)
    BY <2>1, <1>0 DEF At, Goal, Local, TwoStageGroup, TwoStages, Nl, Nr
  <2>3. CASE r = d
    <3>1. R = {} /\ Handler(k, h) = {r}
      BY <2>1, <2>3, <1>0, <1>4 DEF TwoStageRelay, TwoStageIsForMe
    <3> QED
      BY <2>1, <2>3, <3>1 DEF HandsOn, Splits
  <2>4. CASE r # d
    <3>1. ~TwoStageIsForMe(1, r, m)
      BY <2>1, <2>4, <1>0, SameRank DEF TwoStageIsForMe
    <3>2. To(k, r, 2, At(k, 2, d), m) = HopFor(2, m, d)
      <4>1. 2 \in 1..2
        OBVIOUS
      <4>2. Finds(k, r, 2, m)
        BY <4>1, <1>0, TwoStageHops
      <4> QED
        BY <2>2, <4>2 DEF Finds
    <3>3. R = {HopFor(2, m, d)} /\ Handler(k, h) = {}
      BY <2>1, <2>2, <3>1, <3>2, <1>0, <1>4 DEF TwoStageRelay
    <3>4. Sound(k, f, d, HopFor(2, m, d)) /\ HopFor(2, m, d).stage > h.stage
      BY <2>1, <1>0, <1>4 DEF Sound, OnItsWay, HopFor
    <3> HIDE DEF R, G
    <3> QED
      BY <2>1, <3>3, <3>4, <1>4, OneWay DEF HandsOn, R
  <2> QED
    BY <2>3, <2>4
<1> QED
  BY <1>0, <1>2, <1>3, <1>4

\* In every mailbox.
LEMMA HandlersHandOn ==
  ASSUME NEW k \in Kinds, NEW f \in Rank, NEW d \in Rank, NEW h, Sound(k, f, d, h)
  PROVE  HandsOn(k, f, d, h)
<1>1. CASE k = "nlnr"
  BY <1>1, NlnrBcastOn, NlnrOn
<1>2. CASE k = "noroute"
  <2>1. Last(k) = 1 /\ k \notin TwoStages /\ k # "nlnr"
    BY <1>2 DEF Last, TwoStages
  <2>2. Relay(k, h.stage, h.to, h.msg) = {} /\ Handler(k, h) = {h.to}
    BY <1>2 DEF Relay, Handler, IsForMe
  <2>3. Covers(k, f, d, h) = {h.to}
    BY <2>1 DEF Covers, Sound, OnItsWay
  <2> QED
    BY <2>2, <2>3 DEF HandsOn, Splits
<1>3. CASE k \in TwoStages
  BY <1>3, TwoStageOn
<1> QED
  BY <1>1, <1>2, <1>3 DEF Kinds, TwoStages

-----------------------------------------------------------------------------
(* What a call queues.                                                     *)

\* Hops that reach different ranks.
LEMMA BothSplit ==
  ASSUME NEW k, NEW f, NEW d, NEW V, NEW W, V \cap W = {}, NEW G, NEW H,
         Splits(k, f, d, V, {}, G), Splits(k, f, d, W, {}, H)
  PROVE  Splits(k, f, d, V \cup W, {}, G \cup H)
<1>1. /\ \A h \in G : Sound(k, f, d, h) /\ Covers(k, f, d, h) \subseteq V
      /\ \A h \in H : Sound(k, f, d, h) /\ Covers(k, f, d, h) \subseteq W
      /\ \A q \in V : \E h \in G : q \in Covers(k, f, d, h)
      /\ \A q \in W : \E h \in H : q \in Covers(k, f, d, h)
      /\ \A g, h \in G, q \in V : q \in Covers(k, f, d, g) /\ q \in Covers(k, f, d, h) => g = h
      /\ \A g, h \in H, q \in W : q \in Covers(k, f, d, g) /\ q \in Covers(k, f, d, h) => g = h
  BY DEF Splits
<1>2. ASSUME NEW g \in G \cup H, NEW h \in G \cup H, NEW q \in V \cup W,
             q \in Covers(k, f, d, g), q \in Covers(k, f, d, h)
      PROVE  g = h
  <2>1. CASE q \in V
    BY <1>1, <1>2, <2>1
  <2>2. CASE q \in W
    BY <1>1, <1>2, <2>2
  <2> QED
    BY <2>1, <2>2
<1>3. \A h \in G \cup H : Sound(k, f, d, h) /\ Covers(k, f, d, h) \subseteq (V \cup W) \ {}
  BY <1>1
<1>4. \A q \in V \cup W : \E h \in G \cup H : q \in Covers(k, f, d, h)
  BY <1>1
<1> QED
  BY <1>2, <1>3, <1>4 DEF Splits

\* Without those that have the message.
LEMMA RestSplits ==
  ASSUME NEW k, NEW f, NEW d, NEW W, NEW M, NEW H, Splits(k, f, d, W, M, H)
  PROVE  Splits(k, f, d, W \ M, {}, H)
BY DEF Splits

\* Whom a call is for.
Wanted(f, d) == IF f = d THEN Rank \ {f} ELSE {d}

\* do_send_bcast of mailbox_p2p_nlnr.
LEMMA NlnrBcastCall ==
  ASSUME NEW f \in Rank, NEW x
  PROVE  Splits("nlnr", f, f, Rank \ {f}, {}, NlnrDoSendBcast(f, x))
<1>1. PICK m : m = [bcast |-> TRUE, local |-> 0, node |-> 0, data |-> x]
  OBVIOUS
<1> DEFINE D == Nl[f] \ {f}
           V == {q \in Rank \ {f} : Node(q) = Node(f) \/ Layer(q) # Core(f)}
           W == Layers(f) \ {f}
           C == [q \in Rank |-> Layers(q)]
<1>2. m.bcast /\ 1 \in 1..Last("nlnr") /\ "nlnr" \notin TwoStages
  BY <1>1 DEF Last, TwoStages
<1>3. NlnrDoSendBcast(f, x) = HopsFor(1, m, D) \cup HopsFor(2, m, Fan(f))
  <2>1. {NlnrTo(f, 1, j, m) : j \in 0..(Cores - 1) \ {Core(f)}} = HopsFor(1, m, D)
    BY NodeHops
  <2>2. {NlnrTo(f, Remote, i, m) : i \in BcastRemotes(f)} = HopsFor(2, m, Fan(f))
    BY FanHops
  <2> HIDE DEF D
  <2> QED
    BY <2>1, <2>2, <1>1 DEF NlnrDoSendBcast, FirstLocal
<1>4. \A q \in D : q \in Rank /\ Node(q) = Node(f) /\ q # f /\ Layer(q) = Layer(f) /\ Core(q) # Core(f)
  BY SameRank DEF Nl, Layer
<1>5. \A q \in Rank : q \notin D <=> Node(q) # Node(f) \/ q = f
  BY DEF Nl
<1>6. Splits("nlnr", f, f, V, {}, HopsFor(1, m, D))
  <2>1. ASSUME NEW q \in D
        PROVE  Covers("nlnr", f, f, HopFor(1, m, q)) = C[q] /\ C[q] \subseteq V \ {}
    <3>1. Covers("nlnr", f, f, HopFor(1, m, q)) = Layers(q)
      BY <1>2 DEF Covers, HopFor
    <3>2. ASSUME NEW y \in Layers(q) PROVE y \in V
      <4>1. y = q \/ (y \in Rank /\ Node(y) # Node(f) /\ Layer(y) = Core(q))
        BY <3>2, <1>4 DEF Layers
      <4> QED
        BY <4>1, <1>4
    <3> QED
      BY <3>1, <3>2, <1>4
  <2>2. ASSUME NEW y \in V PROVE \E q \in D : y \in C[q]
    <3>1. CASE Node(y) = Node(f)
      <4>1. y \in D /\ y \in Layers(y)
        BY <3>1 DEF Nl, Layers
      <4> QED
        BY <4>1
    <3>2. CASE Node(y) # Node(f)
      <4>1. Layer(y) # Core(f) /\ y \in Rank
        BY <3>2
      <4>2. Node(f) \in 0..(Nodes - 1) /\ Layer(y) \in 0..(Cores - 1)
        BY <4>1, RankFacts
      <4>3. PICK q \in Rank : Node(q) = Node(f) /\ Core(q) = Layer(y)
        BY <4>2, RankAt
      <4>4. q \in D /\ y \in Layers(q)
        BY <3>2, <4>1, <4>3 DEF Nl, Layers
      <4> QED
        BY <4>4
    <3> QED
      BY <3>1, <3>2
  <2>3. ASSUME NEW p \in D, NEW q \in D, NEW y, y \in C[p], y \in C[q] PROVE p = q
    <3>1. y \in Layers(p) /\ y \in Layers(q)
      BY <2>3, <1>4
    <3>2. y \in D => y = p /\ y = q
      BY <3>1, <1>4 DEF Layers
    <3>3. y \notin D => Layer(y) = Core(p) /\ Layer(y) = Core(q)
      BY <3>1 DEF Layers
    <3> QED
      BY <3>2, <3>3, <1>4, SameRank
  <2>4. D \subseteq Rank /\ {} \subseteq V
    BY <1>4
  <2> HIDE DEF D, V, C
  <2>5. /\ \A q \in D : Covers("nlnr", f, f, HopFor(1, m, q)) = C[q] /\ C[q] \subseteq V \ {}
        /\ \A y \in V : y \in {} \/ \E q \in D : y \in C[q]
        /\ \A p \in D : \A q \in D : \A y \in V : y \in C[p] /\ y \in C[q] => p = q
    BY <2>1, <2>2, <2>3
  <2> QED
    BY <2>4, <2>5, <1>2, ManyHops
<1>7. Splits("nlnr", f, f, W, {}, HopsFor(2, m, Fan(f)))
  <2>1. Splits("nlnr", f, f, Layers(f), {f}, HopsFor(2, m, Fan(f)))
    BY <1>2, FanSplits
  <2> QED
    BY <2>1, RestSplits
<1>8. V \cap W = {} /\ V \cup W = Rank \ {f}
  BY DEF Layers
<1> HIDE DEF D, V, W
<1> QED
  BY <1>3, <1>6, <1>7, <1>8, BothSplit

\* do_send of mailbox_p2p_nlnr.
LEMMA NlnrCall ==
  ASSUME NEW f \in Rank, NEW d \in Rank, f # d, NEW x
  PROVE  Splits("nlnr", f, d, {d}, {}, NlnrDoSend(f, d, x))
<1> DEFINE remote == RemoteIndex(f, d)
           msg(n) == [bcast |-> FALSE, local |-> Core(d) % 2 ^ LocalBits, node |-> n, data |-> x]
<1>0. /\ "nlnr" \notin TwoStages /\ Last("nlnr") = 3 /\ Core(d) % 2 ^ LocalBits = Core(d)
      /\ Core(d) \in 0..(Cores - 1) /\ Layer(d) \in 0..(Cores - 1) /\ Node(f) \in 0..(Nodes - 1)
  BY LocalIndex, RankFacts DEF TwoStages, Last
<1>1. \A n : ~msg(n).bcast /\ msg(n).local = Core(d) /\ msg(n).node = n
  BY <1>0
<1>2. CASE Node(d) = Node(f)
  <2>1. NlnrDoSend(f, d, x) = {NlnrTo(f, 3, Core(d), msg(Node(d)))}
    BY <1>2 DEF NlnrDoSend, SecondLocal
  <2> HIDE DEF msg
  <2>2. NlnrTo(f, 3, Core(d), msg(Node(d))) = HopFor(3, msg(Node(d)), d)
    BY <1>2, NodeHops DEF Nl
  <2>3. Sound("nlnr", f, d, HopFor(3, msg(Node(d)), d))
    BY <1>0, <1>1 DEF Sound, OnItsWay, HopFor
  <2> QED
    BY <2>1, <2>2, <2>3, OneWay
<1>3. CASE Node(d) # Node(f) /\ Core(f) = Layer(d)
  <2>1. NlnrDoSend(f, d, x) = {NlnrTo(f, Remote, remote, msg(remote))}
    BY <1>3 DEF NlnrDoSend
  <2> HIDE DEF msg
  <2>2. PICK q \in Rank : Node(q) = Node(d) /\ NlnrTo(f, Remote, RemoteIndex(f, d), msg(remote)) = HopFor(2, msg(remote), q)
    BY <1>3, RemoteHop
  <2>3. Sound("nlnr", f, d, HopFor(2, msg(remote), q))
    BY <2>2, <1>0, <1>1 DEF Sound, OnItsWay, HopFor
  <2> QED
    BY <2>1, <2>2, <2>3, OneWay
<1>4. CASE Node(d) # Node(f) /\ Core(f) # Layer(d)
  <2>1. NlnrDoSend(f, d, x) = {NlnrTo(f, 1, Layer(d), msg(remote))}
    BY <1>4 DEF NlnrDoSend, FirstLocal
  <2>2. PICK q \in Rank : Node(q) = Node(f) /\ Core(q) = Layer(d)
    BY <1>0, RankAt
  <2>3. q \in Nl[f] /\ Layer(q) = Layer(f)
    BY <2>2 DEF Nl, Layer
  <2>4. RemoteIndex(q, d) = remote
    BY <2>3 DEF RemoteIndex
  <2> HIDE DEF msg, remote
  <2>5. NlnrTo(f, 1, Core(q), msg(remote)) = HopFor(1, msg(remote), q)
    BY <2>3, NodeHops
  <2>6. Sound("nlnr", f, d, HopFor(1, msg(remote), q))
    BY <2>2, <2>4, <1>0, <1>1, <1>4 DEF Sound, OnItsWay, HopFor
  <2> QED
    BY <2>1, <2>2, <2>5, <2>6, OneWay
<1> QED
  BY <1>2, <1>3, <1>4

\* A rank is reached from every other in two stages, in one way.
LEMMA Crossing ==
  ASSUME NEW k \in TwoStages, NEW f \in Rank, NEW q \in Rank
  PROVE  /\ \E p \in TwoStageGroup(k, 1, f) : q \in TwoStageGroup(k, 2, p)
         /\ \A p \in TwoStageGroup(k, 1, f) : \A j \in TwoStageGroup(k, 1, f) :
              q \in TwoStageGroup(k, 2, p) /\ q \in TwoStageGroup(k, 2, j) => p = j
<1>0. \A p \in Rank : Node(p) \in 0..(Nodes - 1) /\ Core(p) \in 0..(Cores - 1)
  BY RankFacts
<1>1. CASE k = "nlroute"
  <2>1. \A p \in Rank : TwoStageGroup(k, 1, p) = Nl[p] /\ TwoStageGroup(k, 2, p) = Nr[p]
    BY <1>1 DEF TwoStageGroup, Local
  <2>2. PICK p \in Rank : Node(p) = Node(f) /\ Core(p) = Core(q)
    BY <1>0, RankAt
  <2>3. p \in Nl[f] /\ q \in Nr[p] /\ Nl[f] \subseteq Rank
    BY <2>2 DEF Nl, Nr
  <2>4. ASSUME NEW i \in Nl[f], NEW j \in Nl[f], q \in Nr[i], q \in Nr[j] PROVE i = j
    <3>1. i \in Rank /\ j \in Rank
      BY <2>3
    <3>2. Node(i) = Node(j) /\ Core(i) = Core(j)
      BY <3>1, <2>4 DEF Nl, Nr
    <3> QED
      BY <3>1, <3>2, SameRank
  <2> QED
    BY <2>1, <2>3, <2>4
<1>2. CASE k = "nrroute"
  <2>1. \A p \in Rank : TwoStageGroup(k, 1, p) = Nr[p] /\ TwoStageGroup(k, 2, p) = Nl[p]
    BY <1>2 DEF TwoStageGroup, Local
  <2>2. PICK p \in Rank : Node(p) = Node(q) /\ Core(p) = Core(f)
    BY <1>0, RankAt
  <2>3. p \in Nr[f] /\ q \in Nl[p] /\ Nr[f] \subseteq Rank
    BY <2>2 DEF Nl, Nr
  <2>4. ASSUME NEW i \in Nr[f], NEW j \in Nr[f], q \in Nl[i], q \in Nl[j] PROVE i = j
    <3>1. i \in Rank /\ j \in Rank
      BY <2>3
    <3>2. Node(i) = Node(j) /\ Core(i) = Core(j)
      BY <3>1, <2>4 DEF Nl, Nr
    <3> QED
      BY <3>1, <3>2, SameRank
  <2> QED
    BY <2>1, <2>3, <2>4
<1> QED
  BY <1>1, <1>2 DEF TwoStages

\* do_send_bcast of nrroute and nlroute.
LEMMA TwoStageBcastCall ==
  ASSUME NEW k \in TwoStages, NEW f \in Rank, NEW x
  PROVE  Splits(k, f, f, Rank \ {f}, {}, TwoStageDoSendBcast(k, f, x))
<1>1. PICK m : m = [bcast |-> TRUE, local |-> 0, node |-> 0, data |-> x]
  OBVIOUS
<1> DEFINE G(s, q) == TwoStageGroup(k, s, q)
           D == G(1, f) \ {f}
           W == G(2, f) \ {f}
           V == Rank \ G(2, f)
           C == [q \in Rank |-> G(2, q)]
<1>2. m.bcast /\ 1 \in 1..2 /\ 2 \in 1..2 /\ Last(k) = 2 /\ k # "nlnr" /\ k # "noroute"
  BY <1>1 DEF Last, TwoStages
<1>3. TwoStageDoSendBcast(k, f, x) = HopsFor(1, m, D) \cup HopsFor(2, m, W)
  <2>1. TwoStageDoSendBcast(k, f, x) = ToOthers(k, f, 1, m) \cup ToOthers(k, f, 2, m)
    BY <1>1 DEF TwoStageDoSendBcast
  <2>2. ToOthers(k, f, 1, m) = HopsFor(1, m, D) /\ ToOthers(k, f, 2, m) = HopsFor(2, m, W)
    BY <1>2, TwoStageHops
  <2> QED
    BY <2>1, <2>2
<1>4. \A q \in Rank : \A s \in {1, 2} : G(s, q) \subseteq Rank /\ q \in G(s, q)
  BY DEF TwoStageGroup, Nl, Nr
<1>5. ASSUME NEW q \in Rank
      PROVE  /\ \E p \in G(1, f) : q \in G(2, p)
             /\ \A p \in G(1, f) : \A j \in G(1, f) : q \in G(2, p) /\ q \in G(2, j) => p = j
  BY Crossing
<1>6. Splits(k, f, f, V, {}, HopsFor(1, m, D))
  <2>1. ASSUME NEW q \in D PROVE Covers(k, f, f, HopFor(1, m, q)) = C[q] /\ C[q] \subseteq V \ {}
    <3>0. q \in Rank /\ q \in G(1, f) /\ q # f /\ f \in G(1, f)
      BY <1>4
    <3>1. Covers(k, f, f, HopFor(1, m, q)) = G(2, q)
      BY <1>2 DEF Covers, HopFor
    <3>2. ASSUME NEW y \in G(2, q) PROVE y \in V
      <4>1. y \in Rank
        BY <3>0, <1>4
      <4>2. y \notin G(2, f)
        BY <4>1, <3>0, <3>2, <1>5
      <4> QED
        BY <4>1, <4>2
    <3> QED
      BY <3>0, <3>1, <3>2
  <2>2. ASSUME NEW y \in V PROVE \E q \in D : y \in C[q]
    <3>1. PICK q \in G(1, f) : y \in G(2, q)
      BY <1>5
    <3>2. q # f /\ q \in Rank
      BY <3>1, <1>4
    <3> QED
      BY <3>1, <3>2
  <2>3. ASSUME NEW p \in D, NEW q \in D, NEW y \in V, y \in C[p], y \in C[q] PROVE p = q
    <3>1. p \in Rank /\ q \in Rank /\ p \in G(1, f) /\ q \in G(1, f) /\ y \in Rank
      BY <1>4
    <3>2. y \in G(2, p) /\ y \in G(2, q)
      BY <2>3, <3>1
    <3> QED
      BY <3>1, <3>2, <1>5
  <2>4. D \subseteq Rank /\ {} \subseteq V /\ 1 \in 1..Last(k)
    BY <1>2, <1>4
  <2> HIDE DEF D, V, C
  <2>5. /\ \A q \in D : Covers(k, f, f, HopFor(1, m, q)) = C[q] /\ C[q] \subseteq V \ {}
        /\ \A y \in V : y \in {} \/ \E q \in D : y \in C[q]
        /\ \A p \in D : \A q \in D : \A y \in V : y \in C[p] /\ y \in C[q] => p = q
    BY <2>1, <2>2, <2>3
  <2> QED
    BY <2>4, <2>5, <1>2, ManyHops
<1>7. Splits(k, f, f, W, {}, HopsFor(2, m, W))
  <2> DEFINE U == G(2, f)
  <2>1. U \subseteq Rank /\ f \in U /\ 2 \in 1..Last(k)
    BY <1>2, <1>4
  <2>2. \A q \in Rank : Covers(k, f, f, HopFor(2, m, q)) = {q}
    BY <1>2 DEF Covers, HopFor
  <2> HIDE DEF U
  <2>3. Splits(k, f, f, U, {f}, HopsFor(2, m, U \ {f}))
    BY <2>1, <2>2, <1>2, ToEach
  <2>4. Splits(k, f, f, U \ {f}, {}, HopsFor(2, m, U \ {f}))
    BY <2>3, RestSplits
  <2> QED
    BY <2>4 DEF U
<1>8. V \cap W = {} /\ V \cup W = Rank \ {f}
  BY <1>4
<1> HIDE DEF D, V, W
<1> QED
  BY <1>3, <1>6, <1>7, <1>8, BothSplit

\* do_send of nrroute and nlroute.
LEMMA TwoStageCall ==
  ASSUME NEW k \in TwoStages, NEW f \in Rank, NEW d \in Rank, f # d, NEW x
  PROVE  Splits(k, f, d, {d}, {}, TwoStageDoSend(k, f, d, x))
<1>1. PICK m : m = [bcast |-> FALSE, local |-> Core(d) % 2 ^ LocalBits, node |-> Node(d), data |-> x]
  OBVIOUS
<1>2. Last(k) = 2 /\ k # "nlnr" /\ 1 \in 1..2 /\ 2 \in 1..2 /\ ~m.bcast /\ m.local = Core(d) /\ m.node = Node(d)
  BY <1>1, LocalIndex DEF Last, TwoStages
<1>3. CASE At(k, 1, d) = At(k, 1, f)
  <2>1. TwoStageDoSend(k, f, d, x) = {To(k, f, 2, At(k, 2, d), m)}
    BY <1>1, <1>3 DEF TwoStageDoSend
  <2>2. d \in TwoStageGroup(k, 2, f)
    BY <1>3 DEF At, Local, TwoStageGroup, TwoStages, Nl, Nr
  <2>3. Finds(k, f, 2, m)
    BY <1>2, TwoStageHops
  <2>4. Sound(k, f, d, HopFor(2, m, d))
    BY <1>2 DEF Sound, OnItsWay, HopFor
  <2> QED
    BY <2>1, <2>2, <2>3, <2>4, OneWay DEF Finds
<1>4. CASE At(k, 1, d) # At(k, 1, f)
  <2>1. TwoStageDoSend(k, f, d, x) = {To(k, f, 1, At(k, 1, d), m)}
    BY <1>1, <1>4 DEF TwoStageDoSend
  <2>2. PICK q \in TwoStageGroup(k, 1, f) : d \in TwoStageGroup(k, 2, q)
    BY Crossing
  <2>3. q \in Rank /\ At(k, 1, q) = At(k, 1, d)
    BY <2>2 DEF At, Local, TwoStageGroup, TwoStages, Nl, Nr
  <2>4. Finds(k, f, 1, m)
    BY <1>2, TwoStageHops
  <2>5. Sound(k, f, d, HopFor(1, m, q))
    BY <2>3, <1>2 DEF Sound, OnItsWay, HopFor
  <2> QED
    BY <2>1, <2>2, <2>3, <2>4, <2>5, OneWay DEF Finds
<1> QED
  BY <1>3, <1>4

\* In every mailbox a call queues just the hops that its message needs.
LEMMA CallSplits ==
  ASSUME NEW k \in Kinds, NEW f \in Rank, NEW d \in Rank, NEW x
  PROVE  Splits(k, f, d, Wanted(f, d), {}, IF d = f THEN DoSendBcast(k, f, x) ELSE DoSend(k, f, d, x))
<1>1. CASE k = "nlnr"
  BY <1>1, NlnrBcastCall, NlnrCall DEF Wanted, DoSend, DoSendBcast
<1>2. CASE k \in TwoStages
  <2>1. DoSendBcast(k, f, x) = TwoStageDoSendBcast(k, f, x) /\ DoSend(k, f, d, x) = TwoStageDoSend(k, f, d, x)
    BY <1>2 DEF DoSend, DoSendBcast, TwoStages
  <2> QED
    BY <2>1, <1>2, TwoStageBcastCall, TwoStageCall DEF Wanted
<1>3. CASE k = "noroute"
  <2>0. k \notin TwoStages /\ k # "nlnr" /\ Last(k) = 1
    BY <1>3 DEF TwoStages, Last
  <2>1. CASE d = f
    <3> DEFINE m(q) == [bcast |-> TRUE, dest |-> q, data |-> x]
               D == Rank \ {f}
               H == {HopFor(1, m(q), q) : q \in D}
    <3>1. DoSendBcast(k, f, x) = H
      <4>1. D \subseteq Rank
        OBVIOUS
      <4> HIDE DEF D
      <4>2. Direct(D, TRUE, x) = DirectlyTo(D, TRUE, x)
        BY <4>1, DirectTo
      <4> QED
        BY <4>2, <1>3 DEF DoSendBcast, D, DirectlyTo
    <3>2. \A q \in Rank : /\ Covers(k, f, f, HopFor(1, m(q), q)) = {q}
                          /\ Sound(k, f, f, HopFor(1, m(q), q))
      BY <2>0 DEF Covers, Sound, HopFor
    <3>3. \A h \in H : \E q \in D : h = HopFor(1, m(q), q)
      OBVIOUS
    <3>4. \A q \in D : HopFor(1, m(q), q) \in H
      OBVIOUS
    <3> HIDE DEF m, H
    <3>5. Splits(k, f, f, D, {}, H)
      BY <3>2, <3>3, <3>4 DEF Splits
    <3> QED
      BY <3>1, <3>5, <2>1 DEF Wanted
  <2>2. CASE d # f
    <3> DEFINE m == [bcast |-> FALSE, dest |-> d, data |-> x]
    <3>1. DoSend(k, f, d, x) = {HopFor(1, m, d)}
      <4> DEFINE D == {d}
      <4>1. D \subseteq Rank
        OBVIOUS
      <4> HIDE DEF D
      <4>2. Direct(D, FALSE, x) = DirectlyTo(D, FALSE, x)
        BY <4>1, DirectTo
      <4> QED
        BY <4>2, <1>3 DEF DoSend, D, DirectlyTo
    <3>2. Sound(k, f, d, HopFor(1, m, d))
      BY <2>0, <2>2 DEF Sound, OnItsWay, HopFor
    <3> HIDE DEF m
    <3>3. Splits(k, f, d, {d}, {}, {HopFor(1, m, d)})
      BY <3>2, <2>2, OneWay
    <3> QED
      BY <3>1, <3>3, <2>2 DEF Wanted
  <2> QED
    BY <2>1, <2>2
<1> QED
  BY <1>1, <1>2, <1>3 DEF Kinds, TwoStages

-----------------------------------------------------------------------------
(* One exchange of the routes.                                             *)

Relayed(k, A) == UNION {Relay(k, h.stage, h.to, h.msg) : h \in A}
ToldBy(k, A) == UNION {Handler(k, h) : h \in A}

\* A hop always leads to somebody.
LEMMA HopsCover ==
  ASSUME NEW k \in Kinds, NEW f \in Rank, NEW d \in Rank, NEW h, Sound(k, f, d, h)
  PROVE  Covers(k, f, d, h) # {}
<1>1. h.to \in Rank
  BY DEF Sound
<1>2. h.to \in Layers(h.to) /\ h.to \in Nl[h.to] /\ h.to \in Nr[h.to]
  BY <1>1 DEF Layers, Nl, Nr
<1>3. h.to \in TwoStageGroup(k, 2, h.to)
  BY <1>2 DEF TwoStageGroup
<1>4. CASE f # d
  BY <1>4 DEF Covers
<1>5. CASE f = d
  <2>1. CASE k = "nlnr" /\ h.stage = 1
    BY <1>2, <1>5, <2>1 DEF Covers, TwoStages
  <2>2. CASE k = "nlnr" /\ h.stage = 2
    BY <1>2, <1>5, <2>2 DEF Covers, TwoStages
  <2>3. CASE k \in TwoStages /\ h.stage = 1
    BY <1>3, <1>5, <2>3 DEF Covers, TwoStages
  <2>4. CASE ~(k = "nlnr" /\ h.stage = 1) /\ ~(k = "nlnr" /\ h.stage = 2) /\ ~(k \in TwoStages /\ h.stage = 1)
    BY <1>5, <2>4 DEF Covers
  <2> QED
    BY <2>1, <2>2, <2>3, <2>4
<1> QED
  BY <1>4, <1>5

\* The hops A of H have been made: those left and those that follow are again
\* a distribution, every new hop has one cause, and everybody is told once.
Advances(k, f, d, W, M, H, A) ==
  /\ Splits(k, f, d, W, M \cup ToldBy(k, A), (H \ A) \cup Relayed(k, A))
  /\ \A g \in Relayed(k, A) :
       g \notin H \ A /\ \E h \in A : {x \in A : g \in Relay(k, x.stage, x.to, x.msg)} = {h}
  /\ \A q \in ToldBy(k, A) : q \notin M /\ \E h \in A : {x \in A : q \in Handler(k, x)} = {h}

\* What becomes of a distribution of hops when some of them are made.
LEMMA SomeArrive ==
  ASSUME NEW k \in Kinds, NEW f \in Rank, NEW d \in Rank, NEW W, NEW M, NEW H,
         NEW A, A \subseteq H, Splits(k, f, d, W, M, H)
  PROVE  Advances(k, f, d, W, M, H, A)
<1> DEFINE C(h) == Covers(k, f, d, h)
           T(h) == Handler(k, h)
           R(h) == Relay(k, h.stage, h.to, h.msg)
           S(h) == Sound(k, f, d, h)
           New == Relayed(k, A)
           Told == ToldBy(k, A)
<1>1. /\ M \subseteq W
      /\ \A h \in H : S(h) /\ C(h) \subseteq W /\ \A q \in C(h) : q \notin M
      /\ \A q \in W : q \in M \/ \E h \in H : q \in C(h)
      /\ \A g, h \in H, q \in W : q \in C(g) /\ q \in C(h) => g = h
  BY DEF Splits
<1>2. ASSUME NEW h \in A
      PROVE  /\ T(h) \subseteq C(h)
             /\ \A g \in R(h) : S(g) /\ C(g) \subseteq C(h) /\ (\A q \in C(g) : q \notin T(h)) /\ C(g) # {}
             /\ \A q \in C(h) : q \in T(h) \/ \E g \in R(h) : q \in C(g)
             /\ \A g, e \in R(h), q \in C(h) : q \in C(g) /\ q \in C(e) => g = e
  <2>1. Sound(k, f, d, h)
    BY <1>1
  <2>2. Splits(k, f, d, C(h), T(h), R(h))
    BY <2>1, HandlersHandOn DEF HandsOn
  <2>3. \A g \in R(h) : Sound(k, f, d, g)
    BY <2>2 DEF Splits
  <2>4. \A g \in R(h) : C(g) # {}
    BY <2>3, HopsCover
  <2> QED
    BY <2>2, <2>4 DEF Splits
<1>3. /\ \A g : g \in New <=> \E h \in A : g \in R(h)
      /\ \A q : q \in Told <=> \E h \in A : q \in T(h)
  BY DEF Relayed, ToldBy
<1> HIDE DEF C, T, R, S, New, Told
<1>4. \A g \in New : g \notin H \ A
  <2> SUFFICES ASSUME NEW g \in New, g \in H \ A PROVE FALSE
    OBVIOUS
  <2>1. PICK h \in A : g \in R(h)
    BY <1>3
  <2>2. PICK q \in C(g) : q \in C(h)
    BY <1>2, <2>1
  <2>3. q \in W /\ h \in H
    BY <1>1, <2>2
  <2>4. g = h
    BY <1>1, <2>2, <2>3
  <2> QED
    BY <2>4
<1>5. ASSUME NEW g, NEW h \in A, NEW e \in A, g \in R(h), g \in R(e) PROVE h = e
  <2>1. PICK q \in C(g) : q \in C(h)
    BY <1>2, <1>5
  <2>2. q \in C(e)
    BY <1>2, <1>5, <2>1
  <2>3. q \in W
    BY <1>1, <2>1
  <2> QED
    BY <1>1, <2>1, <2>2, <2>3
<1>6. \A g \in New : \E h \in A : {x \in A : g \in R(x)} = {h}
  BY <1>3, <1>5
<1>7. ASSUME NEW q, NEW h \in A, q \in T(h)
      PROVE  q \in W /\ q \notin M /\ \A e \in H : q \in C(e) => e = h
  <2>1. q \in C(h) /\ h \in H
    BY <1>2, <1>7
  <2>2. q \in W /\ q \notin M
    BY <1>1, <2>1
  <2> QED
    BY <1>1, <2>1, <2>2
<1>8. \A q \in Told : q \notin M /\ \E h \in A : {x \in A : q \in T(x)} = {h}
  <2> SUFFICES ASSUME NEW q \in Told
               PROVE  q \notin M /\ \E h \in A : {x \in A : q \in T(x)} = {h}
    OBVIOUS
  <2>1. PICK h \in A : q \in T(h)
    BY <1>3
  <2>2. \A x \in A : q \in T(x) => x = h
    BY <1>2, <1>7, <2>1
  <2> QED
    BY <1>7, <2>1, <2>2
<1>9. Splits(k, f, d, W, M \cup Told, (H \ A) \cup New)
  <2> DEFINE N == (H \ A) \cup New
  <2>1. M \cup Told \subseteq W
    BY <1>1, <1>3, <1>7
  <2>2. ASSUME NEW g \in New
        PROVE  \E h \in A : g \in R(h) /\ S(g) /\ C(g) \subseteq C(h) /\ \A q \in C(g) : q \notin T(h)
    BY <1>2, <1>3
  <2>3. ASSUME NEW g \in N, NEW q \in C(g) PROVE q \in W /\ q \notin M /\ q \notin Told
    <3>1. CASE g \in H \ A
      <4>1. q \in W /\ q \notin M
        BY <1>1, <2>3, <3>1
      <4>2. \A h \in A : q \notin T(h)
        BY <1>7, <2>3, <3>1
      <4> QED
        BY <1>3, <4>1, <4>2
    <3>2. CASE g \in New
      <4>1. PICK h \in A : C(g) \subseteq C(h) /\ \A x \in C(g) : x \notin T(h)
        BY <2>2, <3>2
      <4>2. q \in C(h) /\ q \notin T(h) /\ h \in H
        BY <2>3, <4>1
      <4>3. q \in W /\ q \notin M
        BY <1>1, <4>2
      <4>4. \A e \in A : q \notin T(e)
        BY <1>7, <4>2
      <4> QED
        BY <1>3, <4>3, <4>4
    <3> QED
      BY <3>1, <3>2
  <2>4. \A g \in N : S(g)
    BY <1>1, <2>2
  <2>5. ASSUME NEW q \in W, q \notin M, q \notin Told PROVE \E g \in N : q \in C(g)
    <3>1. PICK h \in H : q \in C(h)
      BY <1>1, <2>5
    <3>2. CASE h \in A
      <4>1. PICK g \in R(h) : q \in C(g)
        BY <1>2, <1>3, <2>5, <3>1, <3>2
      <4> QED
        BY <1>3, <3>2, <4>1
    <3> QED
      BY <3>1, <3>2
  <2>6. ASSUME NEW g \in N, NEW e \in N, NEW q \in W, q \in C(g), q \in C(e) PROVE g = e
    <3>1. \A x \in N : q \in C(x) => \E h \in H : /\ q \in C(h)
                                                 /\ (x \in H \ A => x = h)
                                                 /\ (x \notin H \ A => x \in R(h) /\ h \in A)
      BY <1>2, <1>3
    <3>2. PICK h \in H : /\ q \in C(h)
                         /\ (g \in H \ A => g = h)
                         /\ (g \notin H \ A => g \in R(h) /\ h \in A)
      BY <2>6, <3>1
    <3>3. PICK j \in H : /\ q \in C(j)
                         /\ (e \in H \ A => e = j)
                         /\ (e \notin H \ A => e \in R(j) /\ j \in A)
      BY <2>6, <3>1
    <3>4. h = j
      BY <1>1, <3>2, <3>3
    <3>5. CASE h \in A
      <4>1. g \in R(h) /\ e \in R(h)
        BY <3>2, <3>3, <3>4, <3>5
      <4> QED
        BY <1>2, <2>6, <3>2, <3>5, <4>1
    <3>6. CASE h \notin A
      BY <3>2, <3>3, <3>4, <3>6
    <3> QED
      BY <3>5, <3>6
  <2>7. /\ M \cup Told \subseteq W
        /\ \A h \in N : S(h) /\ C(h) \subseteq W \ (M \cup Told)
        /\ \A q \in W : q \in M \cup Told \/ \E h \in N : q \in C(h)
        /\ \A g, h \in N, q \in W : q \in C(g) /\ q \in C(h) => g = h
    <3> HIDE DEF N
    <3>1. \A h \in N : C(h) \subseteq W \ (M \cup Told)
      BY <2>3
    <3> QED
      BY <2>1, <2>4, <2>5, <2>6, <3>1
  <2> HIDE DEF N
  <2>8. Splits(k, f, d, W, M \cup Told, N)
    BY <2>7 DEF Splits, S, C
  <2> QED
    BY <2>8 DEF N
<1> QED
  BY <1>4, <1>6, <1>8, <1>9 DEF Advances, C, T, R, S, New, Told

-----------------------------------------------------------------------------
(* The invariant of the routes, and that each rank is told once.           *)

Told == {r \in Rank : handled[r] = 1}

RouteInv ==
  /\ mail \in Kinds /\ origin \in Rank /\ goal \in Rank
  /\ exchange \in 1..(Last(mail) + 1)
  /\ handled \in [Rank -> {0, 1}]
  /\ copies = [h \in DOMAIN copies |-> 1]
  /\ \A h \in DOMAIN copies : h.stage >= exchange
  /\ Splits(mail, origin, goal, Wanted(origin, goal), Told, DOMAIN copies)

Copies(H) == MapThenSumSet(LAMBDA h : copies[h], H)

\* The sums that an exchange takes are those of one copy, or of none.
LEMMA CopiesOfOne ==
  /\ Copies({}) = 0
  /\ \A h : copies[h] = 1 => Copies({h}) = 1
<1>1. \A S : Copies(S) = SumFunctionOnSet(copies, S)
  BY SMT DEF Copies, MapThenSumSet, MapThenFoldSet, SumFunctionOnSet,
             FoldFunctionOnSet, MapThenFoldSet
<1>2. Copies({}) = 0
  <2>1. PICK g : Sums(g, copies, {}) /\ SumFunctionOnSet(copies, {}) = g[{}]
    BY FS_EmptySet, SumOnSet
  <2> QED
    BY <1>1, <2>1 DEF Sums
<1>3. ASSUME NEW h, copies[h] = 1 PROVE Copies({h}) = 1
  <2>1. PICK g : Sums(g, copies, {h}) /\ SumFunctionOnSet(copies, {h}) = g[{h}]
    BY FS_Singleton, SumOnSet
  <2>2. Member({h}) = h /\ {h} \ {h} = {} /\ {} \in SUBSET {h} /\ {h} \in SUBSET {h} /\ {h} # {}
    BY DEF Member
  <2>3. g[{}] = 0
    BY <2>1, <2>2 DEF Sums
  <2>4. g[{h}] = copies[Member({h})] + g[{h} \ {Member({h})}]
    BY <2>1, <2>2 DEF Sums
  <2> QED
    BY <1>1, <1>3, <2>1, <2>2, <2>3, <2>4
<1> QED
  BY <1>2, <1>3

\* The copies A of the next stage arrive, and are handed on.
Arrive(A) ==
  /\ A = {h \in DOMAIN copies : h.stage = exchange}
  /\ copies' = [h \in (DOMAIN copies \ A) \cup Relayed(mail, A) |-> 1]
  /\ handled' = [r \in Rank |-> IF r \in ToldBy(mail, A) THEN 1 ELSE handled[r]]
  /\ exchange <= Last(mail) /\ exchange' = exchange + 1
  /\ UNCHANGED <<mail, origin, goal>>

\* What an exchange does to the copies and to the counts, given RouteInv.
LEMMA ExchangeEffect ==
  ASSUME RouteInv, HandOn
  PROVE  \E A : Arrive(A)
<1>1. PICK A : A = {h \in DOMAIN copies : h.stage = exchange}
  OBVIOUS
<1> DEFINE R(h) == Relay(mail, exchange, h.to, h.msg)
           N == UNION {R(h) : h \in A}
           Hears(r, h) == h.to = r /\ IsForMe(mail, exchange, r, h.msg)
<1>2. /\ exchange <= Last(mail) /\ exchange' = exchange + 1
      /\ copies' = [h \in DOMAIN copies \ A |-> copies[h]]
                  (+) [g \in N |-> Copies({h \in A : g \in R(h)})]
      /\ handled' = [r \in Rank |-> handled[r] + Copies({h \in A : Hears(r, h)})]
      /\ UNCHANGED <<mail, origin, goal>>
  BY <1>1 DEF HandOn, Copies
<1>3. /\ N = Relayed(mail, A)
      /\ \A g, h : h \in A => (g \in Relay(mail, h.stage, h.to, h.msg) <=> g \in R(h))
      /\ \A r, h : h \in A => (r \in Handler(mail, h) <=> Hears(r, h))
  <2>1. \A h \in A : h.stage = exchange
    BY <1>1
  <2> QED
    BY <2>1 DEF Relayed, Handler
<1>4. /\ A \subseteq DOMAIN copies
      /\ \A h \in A : copies[h] = 1
      /\ mail \in Kinds /\ origin \in Rank /\ goal \in Rank
      /\ Splits(mail, origin, goal, Wanted(origin, goal), Told, DOMAIN copies)
  BY <1>1 DEF RouteInv
<1>5. /\ \A g \in Relayed(mail, A) :
           /\ g \notin DOMAIN copies \ A
           /\ \E h \in A : {x \in A : g \in Relay(mail, x.stage, x.to, x.msg)} = {h}
      /\ \A q \in ToldBy(mail, A) :
           q \notin Told /\ \E h \in A : {x \in A : q \in Handler(mail, x)} = {h}
  <2> DEFINE D == DOMAIN copies
             W == Wanted(origin, goal)
  <2> HIDE DEF D, W
  <2>1. A \subseteq D /\ Splits(mail, origin, goal, W, Told, D)
    BY <1>4 DEF D, W
  <2>2. Advances(mail, origin, goal, W, Told, D, A)
    BY <1>4, <2>1, SomeArrive
  <2> QED
    BY <2>2 DEF Advances, D
<1>6. \A g \in N : g \notin DOMAIN copies \ A /\ Copies({h \in A : g \in R(h)}) = 1
  <2> SUFFICES ASSUME NEW g \in N
               PROVE  g \notin DOMAIN copies \ A /\ Copies({h \in A : g \in R(h)}) = 1
    OBVIOUS
  <2>1. PICK e \in A : {x \in A : g \in Relay(mail, x.stage, x.to, x.msg)} = {e}
    BY <1>3, <1>5
  <2>2. {h \in A : g \in R(h)} = {e}
    BY <1>3, <2>1
  <2>3. Copies({e}) = 1
    BY <1>4, CopiesOfOne
  <2> QED
    BY <1>3, <1>5, <2>2, <2>3
<1>7. \A r \in Rank : handled[r] + Copies({h \in A : Hears(r, h)}) =
                         IF r \in ToldBy(mail, A) THEN 1 ELSE handled[r]
  <2> SUFFICES ASSUME NEW r \in Rank
               PROVE  handled[r] + Copies({h \in A : Hears(r, h)}) =
                        IF r \in ToldBy(mail, A) THEN 1 ELSE handled[r]
    OBVIOUS
  <2>1. {h \in A : Hears(r, h)} = {h \in A : r \in Handler(mail, h)}
    BY <1>3
  <2>2. handled[r] \in {0, 1}
    BY DEF RouteInv
  <2>3. CASE r \in ToldBy(mail, A)
    <3>1. PICK e \in A : {x \in A : r \in Handler(mail, x)} = {e}
      BY <1>5, <2>3
    <3>2. Copies({h \in A : Hears(r, h)}) = 1
      <4>1. Copies({e}) = 1
        BY <1>4, CopiesOfOne
      <4> QED
        BY <2>1, <3>1, <4>1
    <3>3. handled[r] = 0
      BY <1>5, <2>2, <2>3 DEF Told
    <3> QED
      BY <2>3, <3>2, <3>3
  <2>4. CASE r \notin ToldBy(mail, A)
    <3>1. {h \in A : r \in Handler(mail, h)} = {}
      BY <2>4 DEF ToldBy
    <3>2. Copies({h \in A : Hears(r, h)}) = 0
      BY <2>1, <3>1, CopiesOfOne
    <3> QED
      BY <2>2, <2>4, <3>2
  <2> QED
    BY <2>3, <2>4
<1>8. copies' = [h \in (DOMAIN copies \ A) \cup Relayed(mail, A) |-> 1]
  <2> DEFINE W == DOMAIN copies \ A
             P == [h \in W |-> copies[h]]
             Q == [g \in N |-> Copies({h \in A : g \in R(h)})]
  <2>1. DOMAIN P = W /\ DOMAIN Q = N
    OBVIOUS
  <2>2. /\ \A h \in W : P[h] = 1 /\ h \notin N
        /\ \A h \in N : Q[h] = 1 /\ h \notin W
    BY <1>6 DEF RouteInv
  <2> HIDE DEF P, Q, W, N
  <2>3. P (+) Q = [h \in W \cup N |-> 1]
    <3>1. P (+) Q = [e \in W \cup N |-> (IF e \in W THEN P[e] ELSE 0) + (IF e \in N THEN Q[e] ELSE 0)]
      BY <2>1, SMT DEF (+)
    <3>2. \A e \in W \cup N : (IF e \in W THEN P[e] ELSE 0) + (IF e \in N THEN Q[e] ELSE 0) = 1
      BY <2>2
    <3> QED
      BY <3>1, <3>2
  <2> QED
    BY <1>2, <1>3, <2>3 DEF P, Q, W
<1>9. handled' = [r \in Rank |-> IF r \in ToldBy(mail, A) THEN 1 ELSE handled[r]]
  BY <1>2, <1>7
<1>10. Arrive(A)
  BY <1>1, <1>2, <1>8, <1>9 DEF Arrive
<1> QED
  BY <1>10

\* An exchange keeps the invariant.
LEMMA ExchangeKeepsRouteInv == RouteInv /\ HandOn => RouteInv'
<1> SUFFICES ASSUME RouteInv, HandOn PROVE RouteInv'
  OBVIOUS
<1>1. PICK A : Arrive(A)
  BY ExchangeEffect
<1>2. \A k : Last(k) \in Nat
  BY DEF Last
<1>3. /\ mail' = mail /\ origin' = origin /\ goal' = goal
      /\ exchange' = exchange + 1 /\ exchange' \in 1..(Last(mail) + 1)
      /\ exchange \in Nat
      /\ handled' \in [Rank -> {0, 1}]
      /\ DOMAIN copies' = (DOMAIN copies \ A) \cup Relayed(mail, A)
  BY <1>1, <1>2 DEF RouteInv, Arrive
<1>4. Told' = Told \cup ToldBy(mail, A)
  <2>1. \A h \in A : h \in DOMAIN copies
    BY <1>1 DEF Arrive
  <2>2. \A r \in ToldBy(mail, A) : r \in Rank
    BY <2>1 DEF ToldBy, Handler, RouteInv, Splits, Sound
  <2>3. \A r \in Rank : handled'[r] = IF r \in ToldBy(mail, A) THEN 1 ELSE handled[r]
    BY <1>1 DEF Arrive
  <2> QED
    BY <2>2, <2>3 DEF Told
<1>5. Splits(mail, origin, goal, Wanted(origin, goal), Told', DOMAIN copies')
  <2> DEFINE D == DOMAIN copies
             W == Wanted(origin, goal)
             M == Told
  <2>1. /\ A \subseteq D /\ Splits(mail, origin, goal, W, M, D)
        /\ mail \in Kinds /\ origin \in Rank /\ goal \in Rank
    BY <1>1 DEF RouteInv, Arrive
  <2> HIDE DEF D, W, M
  <2>2. Advances(mail, origin, goal, W, M, D, A)
    BY <2>1, SomeArrive
  <2>3. Splits(mail, origin, goal, W, M \cup ToldBy(mail, A), (D \ A) \cup Relayed(mail, A))
    BY <2>2 DEF Advances
  <2> QED
    BY <1>3, <1>4, <2>3 DEF D, W, M
<1>6. \A h \in DOMAIN copies' : h.stage >= exchange + 1
  <2> SUFFICES ASSUME NEW h \in (DOMAIN copies \ A) \cup Relayed(mail, A)
               PROVE  h.stage >= exchange + 1
    BY <1>3
  <2>1. \A g \in DOMAIN copies : Sound(mail, origin, goal, g) /\ g.stage \in Nat /\ g.stage >= exchange
    BY <1>2 DEF RouteInv, Splits, Sound
  <2>2. CASE h \in DOMAIN copies \ A
    BY <1>1, <1>3, <2>1, <2>2 DEF Arrive
  <2>3. CASE h \in Relayed(mail, A)
    <3>1. PICK g \in A : h \in Relay(mail, g.stage, g.to, g.msg)
      BY <2>3 DEF Relayed
    <3>2. g \in DOMAIN copies /\ g.stage = exchange
      BY <1>1, <3>1 DEF Arrive
    <3>3. HandsOn(mail, origin, goal, g)
      BY <2>1, <3>2, HandlersHandOn DEF RouteInv
    <3>4. h.stage > exchange /\ h.stage \in Nat
      BY <1>2, <3>1, <3>2, <3>3 DEF HandsOn, Splits, Sound
    <3> QED
      BY <1>3, <3>4
  <2> QED
    BY <2>2, <2>3
<1>7. \A h \in DOMAIN copies' : h.stage >= exchange'
  BY <1>3, <1>6
<1>8. copies' = [h \in DOMAIN copies' |-> 1]
  BY <1>1, <1>3 DEF Arrive
<1> QED
  BY <1>3, <1>5, <1>7, <1>8 DEF RouteInv

\* The call that starts a route sets the invariant up.
LEMMA RouteStarts == RouteInit => RouteInv
<1> SUFFICES ASSUME RouteInit PROVE RouteInv
  OBVIOUS
<1> DEFINE H == IF goal = origin THEN DoSendBcast(mail, origin, "data")
                ELSE DoSend(mail, origin, goal, "data")
           W == Wanted(origin, goal)
<1>1. /\ mail \in Kinds /\ origin \in Rank /\ goal \in Rank /\ exchange = 1
      /\ copies = [h \in H |-> 1]
      /\ handled = [r \in Rank |-> 0]
  BY SMT DEF RouteInit, SetToBag, First
<1>2. Splits(mail, origin, goal, W, {}, H)
  BY <1>1, CallSplits
<1>3. Told = {}
  BY <1>1 DEF Told
<1> HIDE DEF H, W
<1>4. DOMAIN copies = H /\ copies = [h \in DOMAIN copies |-> 1]
  BY <1>1
<1>5. \A h \in H : h.stage >= 1
  <2>1. \A h \in H : h.stage \in 1..Last(mail)
    BY <1>2 DEF Splits, Sound
  <2>2. Last(mail) \in Nat
    BY DEF Last
  <2> QED
    BY <2>1, <2>2
<1>6. exchange \in 1..(Last(mail) + 1) /\ handled \in [Rank -> {0, 1}]
  BY <1>1 DEF Last
<1>7. \A h \in DOMAIN copies : h.stage >= exchange
  BY <1>1, <1>4, <1>5
<1>8. Splits(mail, origin, goal, W, Told, DOMAIN copies)
  BY <1>2, <1>3, <1>4
<1> QED
  BY <1>1, <1>4, <1>6, <1>7, <1>8 DEF RouteInv, W

\* After the last exchange no copy is left, so that all who should be told have been.
LEMMA RouteEnds == RouteInv => DeliveredOnce
<1> SUFFICES ASSUME RouteInv, exchange > Last(mail)
             PROVE  /\ copies = EmptyBag
                    /\ \A r \in Rank :
                         handled[r] = IF (goal = origin /\ r # origin) \/ (goal # origin /\ r = goal)
                                      THEN 1 ELSE 0
  BY DEF DeliveredOnce
<1>1. DOMAIN copies = {}
  <2> SUFFICES ASSUME NEW h \in DOMAIN copies PROVE FALSE
    OBVIOUS
  <2>1. h.stage \in 1..Last(mail) /\ h.stage >= exchange
    BY DEF RouteInv, Splits, Sound
  <2>2. Last(mail) \in Nat /\ exchange \in Nat
    BY DEF RouteInv, Last
  <2> QED
    BY <2>1, <2>2
<1>2. copies = EmptyBag
  BY <1>1, SMT DEF RouteInv, EmptyBag, SetToBag
<1>3. Told = Wanted(origin, goal)
  BY <1>1 DEF RouteInv, Splits
<1>4. \A r \in Rank : handled[r] = IF r \in Wanted(origin, goal) THEN 1 ELSE 0
  BY <1>3 DEF RouteInv, Told
<1>5. \A r \in Rank :
        r \in Wanted(origin, goal) <=> (goal = origin /\ r # origin) \/ (goal # origin /\ r = goal)
  BY DEF Wanted, RouteInv
<1> QED
  BY <1>2, <1>4, <1>5

\* On a machine of any shape a message is handled once by its destination and by
\* nobody else, and a broadcast once by every rank but its sender, with any of the
\* four mailboxes, and nothing is left over after their last exchange (do_send,
\* do_send_bcast and the handlers of the exchangers).
THEOREM MessagesArriveOnce == RouteSpec => []DeliveredOnce
<1>1. RouteInv /\ [RouteNext]_route => RouteInv'
  <2> SUFFICES ASSUME RouteInv, [RouteNext]_route PROVE RouteInv'
    OBVIOUS
  <2>1. CASE HandOn
    BY <2>1, ExchangeKeepsRouteInv
  <2>2. CASE Arrived \/ UNCHANGED route
    <3>1. UNCHANGED <<mail, origin, goal, exchange, copies, handled>>
      BY <2>2 DEF Arrived, route
    <3> QED
      BY <3>1 DEF RouteInv, Told
  <2> QED
    BY <2>1, <2>2 DEF RouteNext
<1> QED
  BY <1>1, RouteStarts, RouteEnds, PTL DEF RouteSpec
=============================================================================
