----------------------- MODULE VertexPrograms_proofs -----------------------
(***************************************************************************)
(* Proofs about the programs on the visitor queue, for any graph, any      *)
(* partition of it, any hubs and any batch size.  First what they share,   *)
(* and the programs that give every vertex its metadata: these reach every *)
(* copy of it.  Then breadth-first search and shortest paths, which        *)
(* compute distances: the flow of their visitors (VisitorQueue_proofs) is  *)
(* one that relaxes (Relaxation_proofs).                                   *)
(***************************************************************************)
EXTENDS VertexPrograms, FiniteSetTheorems, WellFoundedInduction, TLAPS

\* What most proofs need of the partition.
LEMMA Partition ==
  /\ 0 \in Rank /\ Delegate \subseteq Vertex
  /\ Master \in [Vertex -> Rank] /\ Stored \in [Rank -> [Vertex -> Seq(Vertex)]]
  /\ \A r \in Rank : \A u, w \in Vertex : Stores(r, u, w) => HoldsCopy(r, u)
BY GraphAssumption

-----------------------------------------------------------------------------
(* Numbers, and functions of numbers that are defined by recursion.        *)

\* A set of numbers that is not empty has a least member.
LEMMA Least ==
  ASSUME NEW T, T \subseteq Nat, T # {}
  PROVE  \E n \in T : \A m \in T : n <= m
<1> DEFINE Before == OpToRel(<, Nat)
<1>1. IsWellFoundedOn(Before, Nat)
  BY NatLessThanWellFounded
<1>2. \A m, n \in Nat : <<m, n>> \in Before <=> m < n
  BY DEF OpToRel
<1> HIDE DEF Before
<1>3. PICK n \in T : \A m \in T : ~(<<m, n>> \in Before)
  BY <1>1, WFMin
<1>4. \A m \in T : ~(m < n)
  BY <1>2, <1>3, Zenon
<1>5. \A m \in T : m \in Nat /\ n \in Nat
  OBVIOUS
<1> QED
  BY <1>4, <1>5

\* f is what n steps of G make of start.
Iterates(f, start, G, n) == f[0] = start /\ \A k \in 1..n : f[k] = G[f[k - 1]]

LEMMA SomeIterates ==
  ASSUME NEW U, NEW start \in U, NEW G \in [U -> U]
  PROVE  \A n \in Nat : \E f \in [0..n -> U] : Iterates(f, start, G, n)
<1> SUFFICES ASSUME NEW x \in Nat, ~ \E f \in [0..x -> U] : Iterates(f, start, G, x) PROVE FALSE
  OBVIOUS
<1> DEFINE T == {n \in Nat : ~ \E f \in [0..n -> U] : Iterates(f, start, G, n)}
<1>1. PICK n \in T : \A m \in T : n <= m
  <2>1. T # {} /\ T \subseteq Nat
    OBVIOUS
  <2> HIDE DEF T
  <2> QED
    BY <2>1, Least
<1>2. CASE n = 0
  <2> DEFINE f == [k \in 0..n |-> start]
  <2>1. f \in [0..n -> U] /\ Iterates(f, start, G, n)
    BY <1>2 DEF Iterates
  <2> QED
    BY <1>1, <2>1
<1>3. CASE n # 0
  <2>1. n - 1 \in Nat /\ ~(n <= n - 1)
    BY <1>3
  <2>2. PICK f \in [0..(n - 1) -> U] : Iterates(f, start, G, n - 1)
    BY <1>1, <2>1
  <2> DEFINE g == [k \in 0..n |-> IF k = n THEN G[f[n - 1]] ELSE f[k]]
  <2>3. g[0] = start /\ g \in [0..n -> U]
    BY <1>3, <2>1, <2>2 DEF Iterates
  <2>4. ASSUME NEW k \in 1..n PROVE g[k] = G[g[k - 1]]
    <3>1. k - 1 \in 0..n /\ k \in 0..n /\ k - 1 # n /\ g[k - 1] = f[k - 1]
      OBVIOUS
    <3>2. g[k] = G[f[k - 1]]
      BY <2>2, <3>1 DEF Iterates
    <3> QED
      BY <3>1, <3>2
  <2>5. Iterates(g, start, G, n)
    BY <2>3, <2>4 DEF Iterates
  <2> QED
    BY <1>1, <2>3, <2>5
<1> QED
  BY <1>2, <1>3

LEMMA IteratesAgree ==
  ASSUME NEW U, NEW start \in U, NEW G \in [U -> U], NEW n \in Nat, NEW f, NEW g,
         Iterates(f, start, G, n), Iterates(g, start, G, n)
  PROVE  f[n] = g[n]
<1> DEFINE T == {k \in 0..n : f[k] # g[k]}
<1> SUFFICES ASSUME T # {} PROVE FALSE
  OBVIOUS
<1>1. PICK k \in T : \A m \in T : k <= m
  <2>1. T \subseteq Nat
    OBVIOUS
  <2> HIDE DEF T
  <2> QED
    BY <2>1, Least
<1>2. k # 0
  BY DEF Iterates
<1>3. k - 1 \in 0..n /\ ~(k <= k - 1) /\ k \in 1..n
  BY <1>2
<1>4. f[k - 1] = g[k - 1]
  BY <1>1, <1>3
<1> QED
  BY <1>3, <1>4 DEF Iterates

\* A function of numbers may be defined by its first value and its steps.
LEMMA Recursion ==
  ASSUME NEW U, NEW start \in U, NEW G \in [U -> U]
  PROVE  \E f \in [Nat -> U] : f[0] = start /\ \A n \in Nat : f[n + 1] = G[f[n]]
<1> DEFINE F(n) == CHOOSE f \in [0..n -> U] : Iterates(f, start, G, n)
           b == [n \in Nat |-> F(n)[n]]
<1>1. \A n \in Nat : F(n) \in [0..n -> U] /\ Iterates(F(n), start, G, n)
  BY SomeIterates
<1> HIDE DEF F
<1>2. b \in [Nat -> U]
  <2>1. \A n \in Nat : n \in 0..n /\ F(n)[n] \in U
    BY <1>1
  <2> QED
    BY <2>1
<1>3. b[0] = start
  BY <1>1 DEF Iterates
<1>4. ASSUME NEW n \in Nat PROVE b[n + 1] = G[b[n]]
  <2>1. n + 1 \in Nat /\ n + 1 \in 1..(n + 1) /\ (n + 1) - 1 = n
    OBVIOUS
  <2>2. Iterates(F(n + 1), start, G, n + 1)
    BY <1>1, <2>1
  <2>3. Iterates(F(n + 1), start, G, n) /\ F(n + 1)[n + 1] = G[F(n + 1)[n]]
    BY <2>1, <2>2 DEF Iterates
  <2>4. F(n + 1)[n] = F(n)[n]
    BY <1>1, <2>3, IteratesAgree
  <2> QED
    BY <2>1, <2>3, <2>4
<1> QED
  BY <1>2, <1>3, <1>4

\* Rungs without a gap are fewer than the things that stand on them.
LEMMA Rungs ==
  ASSUME NEW V, IsFiniteSet(V), NEW S \in SUBSET V, NEW K \in [S -> Nat],
         \A u \in S : K[u] # 0 => \E p \in S : K[p] = K[u] - 1
  PROVE  \A u \in S : K[u] < Cardinality(V)
<1> SUFFICES ASSUME NEW u \in S PROVE K[u] < Cardinality(V)
  OBVIOUS
<1> DEFINE m == K[u]
           Gap == {j \in 0..m : \A p \in S : K[p] # m - j}
<1>0. m \in Nat
  OBVIOUS
<1>1. \A j \in 0..m : \E p \in S : K[p] = m - j
  <2> SUFFICES ASSUME Gap # {} PROVE FALSE
    OBVIOUS
  <2>1. PICK j \in Gap : \A i \in Gap : j <= i
    <3>1. Gap \subseteq Nat
      OBVIOUS
    <3> HIDE DEF Gap
    <3> QED
      BY <3>1, Least
  <2>2. j # 0
    BY <1>0
  <2>3. j - 1 \in 0..m /\ ~(j <= j - 1)
    BY <2>2, <1>0
  <2>4. PICK p \in S : K[p] = m - (j - 1)
    BY <2>1, <2>3
  <2>5. K[p] # 0 /\ K[p] - 1 = m - j
    BY <1>0, <2>2, <2>4
  <2> QED
    BY <2>5
<1>2. \A i \in 0..m : \E p \in S : K[p] = i
  <2> SUFFICES ASSUME NEW i \in 0..m PROVE \E p \in S : K[p] = i
    OBVIOUS
  <2>1. m - i \in 0..m /\ m - (m - i) = i
    BY <1>0
  <2> QED
    BY <1>1, <2>1
<1> HIDE DEF m
<1> DEFINE f == [i \in 0..m |-> CHOOSE p \in S : K[p] = i]
<1>3. \A i \in 0..m : f[i] \in S /\ K[f[i]] = i
  BY <1>2
<1>4. f \in Injection(0..m, V)
  <2>1. f \in [0..m -> V]
    BY <1>3
  <2>2. \A i, j \in 0..m : f[i] = f[j] => i = j
    BY <1>3
  <2> HIDE DEF f
  <2> QED
    BY <2>1, <2>2 DEF Injection, IsInjective
<1>5. Cardinality(0..m) <= Cardinality(V)
  BY <1>4, FS_Injection
<1>6. Cardinality(0..m) = m + 1
  BY <1>0, FS_Interval
<1>7. Cardinality(V) \in Nat
  BY FS_CardinalityType
<1> QED
  BY <1>0, <1>5, <1>6, <1>7 DEF m

-----------------------------------------------------------------------------
(* A traversal runs one program.                                           *)

\* All ranks run the program p.
Tags(p) == DOMAIN data = Rank /\ \A r \in Rank : data[r].program = p

Names == {"bfs", "sssp", "cc", "pagerank", "metadata", "degrees"}

\* What a program returns keeps the tag.
LEMMA OutcomesAreTagged ==
  ASSUME NEW r, NEW a, a.program \in Names, NEW v
  PROVE  /\ \A out \in PreVisit(r, a, v) : out.data.program = a.program
         /\ \A out \in Visit(r, a, v) : out.data.program = a.program
<1>1. ASSUME NEW out, "data" \in DOMAIN out
      PROVE  \A x \in Tagged(a, out) : x.data.program = a.program
  BY <1>1 DEF Tagged
<1>2. "data" \in DOMAIN BFS!PreVisit(a.d, v) /\ "data" \in DOMAIN BFS!Visit(r, a.d, v)
  BY DEF BFS!PreVisit, BFS!Visit
<1>3. "data" \in DOMAIN SP!PreVisit(a.d, v) /\ "data" \in DOMAIN SP!Visit(r, a.d, v)
  BY DEF SP!PreVisit, SP!Visit
<1>4. "data" \in DOMAIN CC!PreVisit(a.d, v) /\ "data" \in DOMAIN CC!Visit(r, a.d, v)
  BY DEF CC!PreVisit, CC!Visit
<1>5. "data" \in DOMAIN PR!PreVisit(a.d, v) /\ "data" \in DOMAIN PR!Visit(r, a.d, v)
  BY DEF PR!PreVisit, PR!Visit
<1>6. /\ "data" \in DOMAIN VM!PreVisit(a.d, v) /\ "data" \in DOMAIN VM!Visit(r, a.d, v)
      /\ "data" \in DOMAIN VM!VisitByDegree(r, a.d, v)
  BY DEF VM!PreVisit, VM!Visit, VM!VisitByDegree
<1>7. \E out : "data" \in DOMAIN out /\ PreVisit(r, a, v) = Tagged(a, out)
  BY <1>2, <1>3, <1>4, <1>5, <1>6 DEF PreVisit, Names
<1>8. \E out : "data" \in DOMAIN out /\ Visit(r, a, v) = Tagged(a, out)
  BY <1>2, <1>3, <1>4, <1>5, <1>6 DEF Visit, Names
<1> QED
  BY <1>1, <1>7, <1>8

LEMMA ProgramStays ==
  ASSUME NEW p \in Names, Tags(p), [Next]_vars
  PROVE  Tags(p)'
<1>1. ASSUME NEW r \in Rank, NEW v, NEW out \in PreVisit(r, data[r], v) \cup Visit(r, data[r], v),
             data' = [data EXCEPT ![r] = out.data]
      PROVE  Tags(p)'
  BY <1>1, OutcomesAreTagged DEF Tags
<1>2. data' = data => Tags(p)'
  BY DEF Tags
<1> SUFFICES ASSUME NEW r \in Rank, Step(r) PROVE Tags(p)'
  BY <1>2 DEF Next, Done, vars
<1>3. ASSUME NEW itr, NEW next, StartVisit(r, itr, next) PROVE Tags(p)'
  <2>1. CASE itr = << >>
    BY <1>2, <1>3, <2>1 DEF StartVisit
  <2>2. CASE itr # << >>
    <3>1. PICK out \in Visit(r, data[r], Head(itr)) : data' = [data EXCEPT ![r] = out.data]
      BY <1>3, <2>2 DEF StartVisit
    <3> QED
      BY <1>1, <3>1
  <2> QED
    BY <2>1, <2>2
<1>4. CASE StartController(r) \/ StartVertex(r)
  BY <1>3, <1>4 DEF StartController, StartVertex
<1>5. CASE ProcessPendingController(r)
  <2>1. PICK out \in Visit(r, data[r], Head(controllers[r])) : data' = [data EXCEPT ![r] = out.data]
    BY <1>5 DEF ProcessPendingController
  <2> QED
    BY <1>1, <2>1
<1>6. CASE PopAndVisit(r)
  <2>1. PICK v \in BagToSet(owned[r]) :
          \E out \in Visit(r, data[r], v) : data' = [data EXCEPT ![r] = out.data]
    BY <1>6 DEF PopAndVisit
  <2> QED
    BY <1>1, <2>1
<1>7. CASE QueueVisitor(r)
  <2> DEFINE v == Head(todo[r]).visitor
  <2>1. CASE v.vertex \in Delegate \/ Master[v.vertex] = r
    <3>1. PICK out \in PreVisit(r, data[r], v) : data' = [data EXCEPT ![r] = out.data]
      BY <1>7, <2>1 DEF QueueVisitor, QueueHere
    <3> QED
      BY <1>1, <3>1
  <2>2. CASE ~(v.vertex \in Delegate \/ Master[v.vertex] = r)
    BY <1>2, <1>7, <2>2 DEF QueueVisitor
  <2> QED
    BY <2>1, <2>2
<1>8. CASE Deliver(r)
  <2>1. PICK v : HandleMailboxReceive(r, v)
    BY <1>8 DEF Deliver
  <2>2. CASE v.vertex \in Delegate /\ v.bcast
    BY <1>2, <2>1, <2>2 DEF HandleMailboxReceive
  <2>3. CASE ~(v.vertex \in Delegate /\ v.bcast)
    <3>1. PICK out \in PreVisit(r, data[r], v) : data' = [data EXCEPT ![r] = out.data]
      BY <2>1, <2>3 DEF HandleMailboxReceive
    <3> QED
      BY <1>1, <3>1
  <2> QED
    BY <2>2, <2>3
<1>9. CASE \/ EndPending(r) \/ WhileNotEmpty(r) \/ PopOfEmptyQueue(r) \/ NextStart(r)
           \/ SendBcast(r) \/ BatchFull(r) \/ TestGlobalEmpty(r) \/ DestroyMailbox(r)
           \/ FinishExchange(r)
  BY <1>2, <1>9 DEF EndPending, WhileNotEmpty, PopOfEmptyQueue, NextStart, SendBcast, BatchFull,
                    TestGlobalEmpty, DestroyMailbox, FinishExchange, EnterExchange, local
<1> QED
  BY <1>4, <1>5, <1>6, <1>7, <1>8, <1>9 DEF Step

\* The traversal begins with w, the work of the program p.
Begins(p, w) ==
  /\ w = [StartOf(p) EXCEPT !.data = [r \in Rank |-> [program |-> p, d |-> @[r]]]]
  /\ citr = w.citr /\ vitr = w.vitr /\ data = w.data
  /\ todo = [r \in Rank |-> Queue(w.source[r])]

\* It begins with one program on all ranks.
LEMMA OneProgram ==
  ASSUME Init
  PROVE  \E p \in Names : Tags(p) /\ \E w : Begins(p, w)
<1>1. PICK w \in InitialWork : /\ citr = w.citr /\ vitr = w.vitr /\ data = w.data
                               /\ todo = [r \in Rank |-> Queue(w.source[r])]
  BY DEF Init
<1>2. PICK p \in Program :
        w = [StartOf(p) EXCEPT !.data = [r \in Rank |-> [program |-> p, d |-> @[r]]]]
  BY DEF InitialWork
<1>3. p \in Names
  BY SearchAssumption DEF Names
<1>4. "data" \in DOMAIN StartOf(p)
  <2>1. "data" \in DOMAIN BFS!Start
    BY DEF BFS!Start, BFS!FromSource
  <2>2. "data" \in DOMAIN SP!Start
    BY DEF SP!Start, SP!FromSource
  <2>3. "data" \in DOMAIN CC!Start
    BY DEF CC!Start, CC!FromEveryVertex
  <2>4. "data" \in DOMAIN PR!Start
    BY DEF PR!Start, PR!FromEveryVertex
  <2>5. "data" \in DOMAIN VM!EveryVertex
    BY DEF VM!EveryVertex, VM!FromEveryVertex
  <2>6. "data" \in DOMAIN VM!Start
    BY <2>5 DEF VM!Start
  <2> QED
    BY <1>3, <2>1, <2>2, <2>3, <2>4, <2>5, <2>6 DEF Names, StartOf
<1>5. w.data = [r \in Rank |-> [program |-> p, d |-> StartOf(p).data[r]]]
  BY <1>2, <1>4
<1>6. Tags(p)
  BY <1>1, <1>5 DEF Tags
<1>7. Begins(p, w)
  BY <1>1, <1>2 DEF Begins
<1> QED
  BY <1>3, <1>6, <1>7

\* Another program than p runs on all ranks.
Others(p) == \E q \in Names \ {p} : Tags(q)

LEMMA OthersStay ==
  ASSUME NEW p
  PROVE  Others(p) /\ [Next]_vars => Others(p)'
BY ProgramStays DEF Others

LEMMA OthersRun ==
  ASSUME NEW p, Others(p)
  PROVE  ~Runs(p)
BY GraphAssumption DEF Others, Tags, Runs

-----------------------------------------------------------------------------
(* The programs that give every vertex its metadata.                       *)

GivenData ==
  [program : {"metadata", "degrees"},
   d : [Vertex -> Nat \cup {VM!DegreeClass(u) : u \in Vertex}]]
WorkOf(p) == [StartOf(p) EXCEPT !.data = [r \in Rank |-> [program |-> p, d |-> @[r]]]]

GQ == INSTANCE VisitorQueue_proofs
       WITH InitVisit <- Visit, Payload <- VM!Value, AlgData <- GivenData,
            InitialWork <- {WorkOf("metadata"), WorkOf("degrees")}

\* The value that u is to get, and the one that a visitor writes.
Wanted(p, u, y) ==
  IF p = "metadata" THEN y \in VM!FileValues /\ VM!Listed(u, y) ELSE y = VM!DegreeClass(u)
Brings(p, v, y) ==
  IF p = "metadata" THEN y = v.val /\ v.val # VM!NoUpdate ELSE y = VM!DegreeClass(v.vertex)

\* A vertex is to get one value at most.
LEMMA OneWanted ==
  ASSUME NEW p, NEW u \in Vertex, NEW x, NEW y, Wanted(p, u, x), Wanted(p, u, y)
  PROVE  x = y
BY FilesAssumption DEF Wanted

LEMMA FileFacts ==
  /\ VM!NoUpdate = 0 /\ VM!FileValues \subseteq Nat \ {0}
  /\ \A u, y : VM!Listed(u, y) => u \in Vertex /\ y \in VM!FileValues
<1>1. \A f \in DOMAIN Files : Files[f] \in Seq(Vertex \X (Nat \ {0}))
  BY FilesAssumption
<1>2. ASSUME NEW f \in DOMAIN Files, NEW i \in DOMAIN Files[f]
      PROVE  /\ Files[f][i][1] \in Vertex /\ Files[f][i][2] \in Nat \ {0}
             /\ Files[f][i] = <<Files[f][i][1], Files[f][i][2]>>
  <2>1. Files[f][i] \in Vertex \X (Nat \ {0})
    BY <1>1
  <2> QED
    BY <2>1
<1>3. VM!FileValues \subseteq Nat \ {0}
  BY <1>2 DEF VM!FileValues
<1>4. ASSUME NEW u, NEW y, VM!Listed(u, y) PROVE u \in Vertex /\ y \in VM!FileValues
  <2>1. PICK f \in DOMAIN Files : \E i \in DOMAIN Files[f] : Files[f][i] = <<u, y>>
    BY <1>4 DEF VM!Listed
  <2>2. PICK i \in DOMAIN Files[f] : Files[f][i] = <<u, y>>
    BY <2>1
  <2>3. Files[f][i][1] = u /\ Files[f][i][2] = y
    BY <2>2
  <2>4. Files[f][i][2] \in VM!FileValues
    BY DEF VM!FileValues
  <2> QED
    BY <1>2, <2>3, <2>4
<1> QED
  BY <1>3, <1>4 DEF VM!NoUpdate

\* What pre_visit and visit return.
LEMMA GivenPreVisit ==
  ASSUME NEW r \in Rank, NEW a \in GivenData, NEW v \in GQ!Visitor, NEW out \in PreVisit(r, a, v)
  PROVE  out = [ret |-> TRUE, data |-> a]
<1>1. a.program \in {"metadata", "degrees"} /\ a = [program |-> a.program, d |-> a.d]
  BY DEF GivenData
<1>2. PreVisit(r, a, v) = Tagged(a, [ret |-> TRUE, data |-> a.d])
  BY <1>1 DEF PreVisit, VM!PreVisit
<1>3. out = [ret |-> TRUE, data |-> [program |-> a.program, d |-> a.d]]
  BY <1>2 DEF Tagged
<1> QED
  BY <1>1, <1>3

LEMMA GivenVisit ==
  ASSUME NEW r \in Rank, NEW a \in GivenData, NEW v \in GQ!Visitor, NEW out \in Visit(r, a, v)
  PROVE  /\ out \in [ret : BOOLEAN, data : GivenData, spawn : Seq(GQ!Visitor)]
         /\ out.spawn = << >> /\ out.data.program = a.program
         /\ \/ out.data = a /\ \A y : ~Brings(a.program, v, y)
            \/ /\ out.ret
               /\ \E y : /\ Brings(a.program, v, y)
                         /\ \A u \in Vertex : out.data.d[u] = IF u = v.vertex THEN y ELSE a.d[u]
<1> DEFINE p == a.program
           c == IF p = "metadata" THEN v.val ELSE VM!DegreeClass(v.vertex)
           skips == p = "metadata" /\ v.val = VM!NoUpdate
           Values == Nat \cup {VM!DegreeClass(u) : u \in Vertex}
           new == [a.d EXCEPT ![v.vertex] = c]
<1>1. p \in {"metadata", "degrees"} /\ a = [program |-> p, d |-> a.d] /\ a.d \in [Vertex -> Values]
  BY DEF GivenData
<1>2. v.vertex \in Vertex /\ v.val \in VM!Value
  BY DEF GQ!Visitor
<1>3. c \in Values
  <2>1. VM!Value \subseteq Nat
    BY FileFacts DEF VM!Value
  <2>2. VM!DegreeClass(v.vertex) \in Values
    BY <1>2
  <2> HIDE DEF Values
  <2>3. v.val \in Nat
    BY <1>2, <2>1
  <2> QED
    BY <2>2, <2>3 DEF Values
<1>4. new \in [Vertex -> Values] /\ \A u \in Vertex : new[u] = IF u = v.vertex THEN c ELSE a.d[u]
  BY <1>1, <1>2, <1>3
<1>5. CASE skips
  <2>1. Visit(r, a, v) = Tagged(a, [ret |-> FALSE, data |-> a.d, spawn |-> << >>])
    BY <1>1, <1>5 DEF Visit, VM!Visit
  <2>2. out = [ret |-> FALSE, data |-> a, spawn |-> << >>]
    BY <1>1, <2>1 DEF Tagged
  <2>3. \A y : ~Brings(p, v, y)
    BY <1>5 DEF Brings
  <2>4. << >> \in Seq(GQ!Visitor)
    OBVIOUS
  <2> QED
    BY <2>2, <2>3, <2>4
<1>6. CASE ~skips
  <2>1. Visit(r, a, v) = Tagged(a, [ret |-> TRUE, data |-> new, spawn |-> << >>])
    <3>1. CASE p = "metadata"
      BY <1>6, <3>1 DEF Visit, VM!Visit
    <3>2. CASE p = "degrees"
      BY <3>2 DEF Visit, VM!VisitByDegree
    <3> QED
      BY <1>1, <3>1, <3>2
  <2> HIDE DEF new
  <2>2. out = [ret |-> TRUE, data |-> [program |-> p, d |-> new], spawn |-> << >>]
    BY <2>1 DEF Tagged
  <2>3. [program |-> p, d |-> new] \in GivenData
    BY <1>1, <1>4 DEF GivenData
  <2>4. << >> \in Seq(GQ!Visitor)
    OBVIOUS
  <2>5. Brings(p, v, c)
    BY <1>6 DEF Brings
  <2>6. \A u \in Vertex : out.data.d[u] = IF u = v.vertex THEN c ELSE a.d[u]
    BY <1>4, <2>2
  <2> HIDE DEF c
  <2> QED
    BY <2>2, <2>3, <2>4, <2>5, <2>6
<1> QED
  BY <1>5, <1>6

\* The visitors of a list of vertices.
LEMMA ListedVisitors ==
  ASSUME NEW list \in Seq(Vertex)
  PROVE  LET new == [i \in DOMAIN list |->
                       VM!NewVisitor(list[i], [v \in Vertex |-> VM!NoUpdate][list[i]])]
         IN  /\ new \in Seq(GQ!Visitor)
             /\ \A v \in GQ!Elements(new) :
                  ~v.bcast /\ v.val = VM!NoUpdate /\ CC!InList(v.vertex, list)
             /\ \A u : CC!InList(u, list) => NewVisitor(u, VM!NoUpdate) \in GQ!Elements(new)
<1> DEFINE Made(u) == [vertex |-> u, bcast |-> FALSE, val |-> VM!NoUpdate]
           new == [i \in DOMAIN list |->
                     VM!NewVisitor(list[i], [v \in Vertex |-> VM!NoUpdate][list[i]])]
<1>1. \A i \in DOMAIN list : list[i] \in Vertex /\ CC!InList(list[i], list)
  BY DEF CC!InList
<1>2. \A u \in Vertex : Made(u) \in GQ!Visitor
  BY DEF GQ!Visitor, VM!Value
<1>3. new = [i \in DOMAIN list |-> Made(list[i])]
  BY <1>1 DEF VM!NewVisitor
<1>4. \A u : Made(u).vertex = u /\ ~Made(u).bcast /\ Made(u).val = VM!NoUpdate
             /\ NewVisitor(u, VM!NoUpdate) = Made(u)
  BY DEF NewVisitor
<1> HIDE DEF Made, new
<1>5. new \in Seq(GQ!Visitor)
  BY <1>1, <1>2, <1>3
<1>6. DOMAIN new = DOMAIN list /\ \A i \in DOMAIN list : new[i] = Made(list[i])
  BY <1>3
<1>7. \A v \in GQ!Elements(new) : ~v.bcast /\ v.val = VM!NoUpdate /\ CC!InList(v.vertex, list)
  BY <1>1, <1>4, <1>6 DEF GQ!Elements
<1>8. \A u : CC!InList(u, list) => NewVisitor(u, VM!NoUpdate) \in GQ!Elements(new)
  <2> SUFFICES ASSUME NEW u, NEW i \in DOMAIN list, list[i] = u PROVE Made(u) \in GQ!Elements(new)
    BY <1>4 DEF CC!InList
  <2> QED
    BY <1>6 DEF GQ!Elements
<1> QED
  BY <1>5, <1>7, <1>8 DEF new

\* Every file has a rank that reads it.
LEMMA FilesAreRead ==
  /\ \A r \in Rank : VM!FileOf(r) \in DOMAIN Files
  /\ \A f \in DOMAIN Files : \E r \in Rank : VM!FileOf(r) = f
<1>1. Len(Files) \in Nat /\ Len(Files) >= 1 /\ DOMAIN Files = 1..Len(Files)
  BY FilesAssumption
<1> DEFINE n == Len(Files)
<1>2. ASSUME NEW r \in Rank PROVE VM!FileOf(r) \in 1..n
  <2>1. r \in Nat
    BY FilesAssumption
  <2> HIDE DEF n
  <2>2. n \in Nat /\ n >= 1
    BY <1>1 DEF n
  <2>3. r % n \in 0..(n - 1)
    BY <2>1, <2>2
  <2>4. (IF r < n THEN r + 1 ELSE (r % n) + 1) \in 1..n
    BY <2>1, <2>2, <2>3
  <2> QED
    BY <2>4 DEF VM!FileOf, n
<1>3. ASSUME NEW f \in 1..n PROVE \E r \in Rank : VM!FileOf(r) = f
  <2>1. f - 1 \in Rank
    <3> HIDE DEF n
    <3>1. n \in Nat /\ 0..(n - 1) \subseteq Rank
      BY <1>1, FilesAssumption DEF n
    <3>2. f - 1 \in 0..(n - 1)
      BY <3>1
    <3> QED
      BY <3>1, <3>2
  <2>2. f - 1 < n /\ (f - 1) + 1 = f
    BY <1>1
  <2>3. VM!FileOf(f - 1) = f
    BY <2>2 DEF VM!FileOf
  <2> QED
    BY <2>1, <2>3
<1> QED
  BY <1>1, <1>2, <1>3

\* The visitors of a file's entries.
LEMMA EntryVisitors ==
  ASSUME NEW f \in DOMAIN Files
  PROVE  LET new == [i \in DOMAIN Files[f] |-> VM!NewVisitor(Files[f][i][1], Files[f][i][2])]
         IN  /\ new \in Seq(GQ!Visitor)
             /\ \A v \in GQ!Elements(new) : ~v.bcast /\ VM!Listed(v.vertex, v.val)
             /\ \A i \in DOMAIN Files[f] :
                  NewVisitor(Files[f][i][1], Files[f][i][2]) \in GQ!Elements(new)
<1> DEFINE list == Files[f]
           Made(i) == [vertex |-> list[i][1], bcast |-> FALSE, val |-> list[i][2]]
           new == [i \in DOMAIN list |-> VM!NewVisitor(list[i][1], list[i][2])]
<1>1. list \in Seq(Vertex \X (Nat \ {0}))
  BY FilesAssumption
<1>2. \A i \in DOMAIN list : list[i] = <<list[i][1], list[i][2]>>
  <2> SUFFICES ASSUME NEW i \in DOMAIN list PROVE list[i] = <<list[i][1], list[i][2]>>
    OBVIOUS
  <2>1. list[i] \in Vertex \X (Nat \ {0})
    BY <1>1
  <2> QED
    BY <2>1
<1>3. \A i \in DOMAIN list : VM!Listed(list[i][1], list[i][2])
  BY <1>2 DEF VM!Listed
<1>4. \A i \in DOMAIN list : Made(i) \in GQ!Visitor
  BY <1>3, FileFacts DEF GQ!Visitor, VM!Value
<1>5. new = [i \in DOMAIN list |-> Made(i)]
  BY DEF VM!NewVisitor
<1>6. \A i \in DOMAIN list : /\ Made(i).vertex = list[i][1] /\ Made(i).val = list[i][2] /\ ~Made(i).bcast
                             /\ NewVisitor(list[i][1], list[i][2]) = Made(i)
  BY DEF NewVisitor
<1> HIDE DEF new, Made, list
<1>7. new \in Seq(GQ!Visitor)
  <2>1. DOMAIN list = 1..Len(list) /\ Len(list) \in Nat
    BY <1>1
  <2> QED
    BY <1>4, <1>5, <2>1
<1>8. DOMAIN new = DOMAIN list /\ \A i \in DOMAIN list : new[i] = Made(i)
  BY <1>5
<1>9. \A v \in GQ!Elements(new) : ~v.bcast /\ VM!Listed(v.vertex, v.val)
  BY <1>3, <1>6, <1>8 DEF GQ!Elements
<1>10. \A i \in DOMAIN list : NewVisitor(list[i][1], list[i][2]) \in GQ!Elements(new)
  BY <1>6, <1>8 DEF GQ!Elements
<1> QED
  BY <1>7, <1>9, <1>10 DEF new, list
\* The work that the two programs begin with.
Works(p, w) ==
  /\ w = [citr |-> w.citr, vitr |-> w.vitr, source |-> w.source, data |-> w.data]
  /\ w.citr \in [Rank -> Seq(GQ!Visitor)] /\ w.vitr \in [Rank -> Seq(GQ!Visitor)]
  /\ w.source \in [Rank -> Seq(GQ!Visitor)]
  /\ \A r \in Rank :
       LET first == GQ!Elements(w.citr[r]) \cup GQ!Elements(w.vitr[r])
       IN  /\ \A v \in first : ~v.bcast /\ v.val = VM!NoUpdate /\ Master[v.vertex] = r
           /\ \A u \in Vertex : Master[u] = r => NewVisitor(u, VM!NoUpdate) \in first
  /\ \A r \in Rank : \A v \in GQ!Elements(w.source[r]) :
       p = "metadata" /\ ~v.bcast /\ VM!Listed(v.vertex, v.val)
  /\ p = "metadata" => \A u, y : VM!Listed(u, y) =>
       \E r \in Rank : NewVisitor(u, y) \in GQ!Elements(w.source[r])
  /\ w.data \in [Rank -> GivenData]
  /\ \A r \in Rank : w.data[r].program = p /\ \A u \in Vertex : w.data[r].d[u] = 0

LEMMA GivenStart ==
  ASSUME NEW p \in {"metadata", "degrees"}
  PROVE  Works(p, WorkOf(p))
<1> DEFINE New(list) == [i \in DOMAIN list |->
                           VM!NewVisitor(list[i], [v \in Vertex |-> VM!NoUpdate][list[i]])]
           Entries(f) == [i \in DOMAIN f |-> VM!NewVisitor(f[i][1], f[i][2])]
           citrs == [r \in Rank |-> New(Controllers[r])]
           vitrs == [r \in Rank |-> New(OwnedVertices[r])]
           blanks == [r \in Rank |-> [v \in Vertex |-> 0]]
           entries == [r \in Rank |-> Entries(Files[VM!FileOf(r)])]
           sources == IF p = "metadata" THEN entries ELSE Silent
           datas == [r \in Rank |-> [program |-> p, d |-> blanks[r]]]
<1>1. \A r \in Rank : Controllers[r] \in Seq(Vertex) /\ OwnedVertices[r] \in Seq(Vertex)
  BY GraphAssumption
<1>2. VM!EveryVertex = [citr |-> citrs, vitr |-> vitrs, source |-> Silent, data |-> blanks]
  BY DEF VM!EveryVertex, VM!FromEveryVertex, VM!NoMetadata, VM!Silent, Silent
<1>3. \A list \in Seq(Vertex) :
        /\ New(list) \in Seq(GQ!Visitor)
        /\ \A v \in GQ!Elements(New(list)) : ~v.bcast /\ v.val = VM!NoUpdate /\ CC!InList(v.vertex, list)
        /\ \A u : CC!InList(u, list) => NewVisitor(u, VM!NoUpdate) \in GQ!Elements(New(list))
  BY ListedVisitors
<1>4. \A f \in DOMAIN Files :
        /\ Entries(Files[f]) \in Seq(GQ!Visitor)
        /\ \A v \in GQ!Elements(Entries(Files[f])) : ~v.bcast /\ VM!Listed(v.vertex, v.val)
        /\ \A i \in DOMAIN Files[f] :
             NewVisitor(Files[f][i][1], Files[f][i][2]) \in GQ!Elements(Entries(Files[f]))
  BY EntryVisitors
<1>5. VM!Start = [VM!EveryVertex EXCEPT !.source = entries]
  BY DEF VM!Start
<1> HIDE DEF New, Entries
<1>6. \A r \in Rank : citrs[r] = New(Controllers[r]) /\ vitrs[r] = New(OwnedVertices[r])
  OBVIOUS
<1>7. citrs \in [Rank -> Seq(GQ!Visitor)] /\ vitrs \in [Rank -> Seq(GQ!Visitor)]
  BY <1>1, <1>3
<1>8. entries \in [Rank -> Seq(GQ!Visitor)] /\ \A r \in Rank : entries[r] = Entries(Files[VM!FileOf(r)])
  BY <1>4, FilesAreRead
<1>9. \A r \in Rank, u \in Vertex : blanks[r][u] = 0
  OBVIOUS
<1>10. datas \in [Rank -> GivenData] /\ \A r \in Rank : datas[r].program = p /\ datas[r].d = blanks[r]
  BY DEF GivenData
<1> HIDE DEF citrs, vitrs, blanks, entries
<1>11. sources \in [Rank -> Seq(GQ!Visitor)]
  BY <1>8 DEF Silent
<1>12. StartOf(p) = [citr |-> citrs, vitr |-> vitrs, source |-> sources, data |-> blanks]
  BY <1>2, <1>5 DEF StartOf
<1>13. WorkOf(p) = [citr |-> citrs, vitr |-> vitrs, source |-> sources, data |-> datas]
  BY <1>12 DEF WorkOf
<1>14. ASSUME NEW r \in Rank
       PROVE  LET first == GQ!Elements(citrs[r]) \cup GQ!Elements(vitrs[r])
              IN  /\ \A v \in first : ~v.bcast /\ v.val = VM!NoUpdate /\ Master[v.vertex] = r
                  /\ \A u \in Vertex : Master[u] = r => NewVisitor(u, VM!NoUpdate) \in first
  <2>1. \A v : CC!InList(v, Controllers[r]) \/ CC!InList(v, OwnedVertices[r]) => v \in Vertex
    <3>1. \A list \in Seq(Vertex) : \A i \in DOMAIN list : list[i] \in Vertex
      OBVIOUS
    <3> QED
      BY <1>1, <3>1 DEF CC!InList
  <2>2. \A v \in Vertex :
          CC!InList(v, Controllers[r]) \/ CC!InList(v, OwnedVertices[r]) <=> Master[v] = r
    BY GraphAssumption
  <2>3. \A v \in GQ!Elements(citrs[r]) :
          ~v.bcast /\ v.val = VM!NoUpdate /\ CC!InList(v.vertex, Controllers[r])
    BY <1>1, <1>3, <1>6
  <2>4. \A v \in GQ!Elements(vitrs[r]) :
          ~v.bcast /\ v.val = VM!NoUpdate /\ CC!InList(v.vertex, OwnedVertices[r])
    BY <1>1, <1>3, <1>6
  <2>5. \A u : CC!InList(u, Controllers[r]) => NewVisitor(u, VM!NoUpdate) \in GQ!Elements(citrs[r])
    BY <1>1, <1>3, <1>6
  <2>6. \A u : CC!InList(u, OwnedVertices[r]) => NewVisitor(u, VM!NoUpdate) \in GQ!Elements(vitrs[r])
    BY <1>1, <1>3, <1>6
  <2> QED
    BY <2>1, <2>2, <2>3, <2>4, <2>5, <2>6
<1>15. ASSUME NEW r \in Rank, NEW v \in GQ!Elements(sources[r])
       PROVE  p = "metadata" /\ ~v.bcast /\ VM!Listed(v.vertex, v.val)
  <2>1. CASE p = "metadata"
    BY <1>4, <1>8, <2>1, FilesAreRead
  <2>2. CASE p # "metadata"
    BY <2>2 DEF GQ!Elements, Silent
  <2> QED
    BY <2>1, <2>2
<1>16. ASSUME p = "metadata", NEW u, NEW y, VM!Listed(u, y)
       PROVE  \E r \in Rank : NewVisitor(u, y) \in GQ!Elements(sources[r])
  <2>1. PICK f \in DOMAIN Files : \E i \in DOMAIN Files[f] : Files[f][i] = <<u, y>>
    BY <1>16 DEF VM!Listed
  <2>2. PICK i \in DOMAIN Files[f] : Files[f][i] = <<u, y>>
    BY <2>1
  <2>3. Files[f][i][1] = u /\ Files[f][i][2] = y
    BY <2>2
  <2>4. PICK r \in Rank : VM!FileOf(r) = f
    BY FilesAreRead
  <2>5. sources[r] = Entries(Files[f])
    BY <1>8, <1>16, <2>4
  <2> QED
    BY <1>4, <2>3, <2>5
<1> HIDE DEF sources, datas
<1> DEFINE w == WorkOf(p)
<1>17. w.citr = citrs /\ w.vitr = vitrs /\ w.source = sources /\ w.data = datas
  BY <1>13
<1>18. w = [citr |-> w.citr, vitr |-> w.vitr, source |-> w.source, data |-> w.data]
  BY <1>13, <1>17
<1> HIDE DEF w
<1>19. \A r \in Rank :
         LET first == GQ!Elements(w.citr[r]) \cup GQ!Elements(w.vitr[r])
         IN  /\ \A v \in first : ~v.bcast /\ v.val = VM!NoUpdate /\ Master[v.vertex] = r
             /\ \A u \in Vertex : Master[u] = r => NewVisitor(u, VM!NoUpdate) \in first
  BY <1>14, <1>17
<1>20. \A r \in Rank : \A v \in GQ!Elements(w.source[r]) :
         p = "metadata" /\ ~v.bcast /\ VM!Listed(v.vertex, v.val)
  BY <1>15, <1>17
<1>21. p = "metadata" => \A u, y : VM!Listed(u, y) =>
         \E r \in Rank : NewVisitor(u, y) \in GQ!Elements(w.source[r])
  BY <1>16, <1>17
<1>22. w.data \in [Rank -> GivenData]
       /\ \A r \in Rank : w.data[r].program = p /\ \A u \in Vertex : w.data[r].d[u] = 0
  BY <1>9, <1>10, <1>17
<1>23. /\ w.citr \in [Rank -> Seq(GQ!Visitor)] /\ w.vitr \in [Rank -> Seq(GQ!Visitor)]
       /\ w.source \in [Rank -> Seq(GQ!Visitor)]
  BY <1>7, <1>11, <1>17
<1> QED
  BY <1>18, <1>19, <1>20, <1>21, <1>22, <1>23 DEF w, Works

LEMMA GivenQueueAssumed ==
  GQ!TopologyAssumption /\ GQ!AlgorithmAssumption /\ GQ!InitialWorkAssumption
<1>1. GQ!TopologyAssumption
  BY GraphAssumption DEF GQ!TopologyAssumption
<1>2. \A r \in Rank, a \in GivenData, v \in GQ!Visitor : \A out \in PreVisit(r, a, v) :
        out \in [ret : BOOLEAN, data : GivenData]
  <2> SUFFICES ASSUME NEW r \in Rank, NEW a \in GivenData, NEW v \in GQ!Visitor, NEW out \in PreVisit(r, a, v)
               PROVE  out \in [ret : BOOLEAN, data : GivenData]
    OBVIOUS
  <2>1. out = [ret |-> TRUE, data |-> a]
    BY GivenPreVisit
  <2> QED
    BY <2>1
<1>3. GQ!AlgorithmAssumption
  BY <1>2, GivenVisit DEF GQ!AlgorithmAssumption
<1>4. GQ!InitialWorkAssumption
  <2>1. \A p \in {"metadata", "degrees"} :
          WorkOf(p) \in [citr : [Rank -> Seq(GQ!Visitor)], vitr : [Rank -> Seq(GQ!Visitor)],
                         source : [Rank -> Seq(GQ!Visitor)], data : [Rank -> GivenData]]
    BY GivenStart DEF Works
  <2> QED
    BY <2>1 DEF GQ!InitialWorkAssumption
<1> QED
  BY <1>1, <1>3, <1>4

LEMMA GivenIsPlain == GQ!NewVisitorsArePlain
<1>1. \A p \in {"metadata", "degrees"} : \A r \in Rank : \A i \in DOMAIN WorkOf(p).source[r] :
        ~WorkOf(p).source[r][i].bcast
  <2> SUFFICES ASSUME NEW p \in {"metadata", "degrees"}, NEW r \in Rank, NEW i \in DOMAIN WorkOf(p).source[r]
               PROVE  ~WorkOf(p).source[r][i].bcast
    OBVIOUS
  <2>1. \A v \in GQ!Elements(WorkOf(p).source[r]) : ~v.bcast
    BY GivenStart DEF Works
  <2>2. WorkOf(p).source[r][i] \in GQ!Elements(WorkOf(p).source[r])
    BY DEF GQ!Elements
  <2> QED
    BY <2>1, <2>2
<1>2. ASSUME NEW r \in Rank, NEW a \in GivenData, NEW v \in GQ!Visitor, NEW out \in Visit(r, a, v),
             NEW i \in DOMAIN out.spawn
      PROVE  ~out.spawn[i].bcast
  BY GivenVisit
<1> QED
  BY <1>1, <1>2 DEF GQ!NewVisitorsArePlain
\* Steps do not depend on which visitors and data there may be.
LEMMA SameGivenNext ==
  [Next]_vars => [GQ!Next]_(GQ!vars)
<1>1. \A r \in Rank :
        /\ StartController(r) => GQ!StartController(r)
        /\ StartVertex(r) => GQ!StartVertex(r)
  BY Zenon DEF StartController, GQ!StartController, StartVertex, GQ!StartVertex,
         StartVisit, GQ!StartVisit, VisitOps, GQ!VisitOps, Queue, GQ!Queue, Idle,
         GQ!Idle, Running, GQ!Running, mailbox, GQ!mailbox
<1>2. \A r \in Rank :
        /\ ProcessPendingController(r) => GQ!ProcessPendingController(r)
        /\ EndPending(r) => GQ!EndPending(r)
        /\ WhileNotEmpty(r) => GQ!WhileNotEmpty(r)
        /\ NextStart(r) => GQ!NextStart(r)
  BY Zenon DEF ProcessPendingController, GQ!ProcessPendingController, EndPending,
         GQ!EndPending, WhileNotEmpty, GQ!WhileNotEmpty, NextStart, GQ!NextStart, Queue,
         GQ!Queue, Idle, GQ!Idle, Running, GQ!Running, Empty, GQ!Empty, mailbox,
         GQ!mailbox, EmptyBag, GQ!EmptyBag, SetToBag, GQ!SetToBag
<1>3. \A r \in Rank :
        /\ PopAndVisit(r) => GQ!PopAndVisit(r)
        /\ PopOfEmptyQueue(r) => GQ!PopOfEmptyQueue(r)
  BY Zenon DEF PopAndVisit, GQ!PopAndVisit, PopOfEmptyQueue, GQ!PopOfEmptyQueue,
         VisitOps, GQ!VisitOps, Queue, GQ!Queue, Idle, GQ!Idle, Running, GQ!Running,
         mailbox, GQ!mailbox, Remove, GQ!Remove, EmptyBag, GQ!EmptyBag, BagToSet,
         GQ!BagToSet, SetToBag, GQ!SetToBag, (-), GQ!(-)
<1>4. \A r \in Rank :
        /\ QueueVisitor(r) => GQ!QueueVisitor(r)
        /\ SendBcast(r) => GQ!SendBcast(r)
  BY Zenon DEF QueueVisitor, GQ!QueueVisitor, SendBcast, GQ!SendBcast, Performing,
         GQ!Performing, QueueHere, GQ!QueueHere, Push, GQ!Push, Send, GQ!Send, Running,
         GQ!Running, Add, GQ!Add, SetToBag, GQ!SetToBag, (+), GQ!(+)
<1>5. \A r \in Rank :
        /\ BatchFull(r) => GQ!BatchFull(r)
        /\ TestGlobalEmpty(r) => GQ!TestGlobalEmpty(r)
        /\ DestroyMailbox(r) => GQ!DestroyMailbox(r)
  BY Zenon DEF BatchFull, GQ!BatchFull, TestGlobalEmpty, GQ!TestGlobalEmpty,
         DestroyMailbox, GQ!DestroyMailbox, EnterExchange, GQ!EnterExchange, Idle,
         GQ!Idle, Running, GQ!Running, Empty, GQ!Empty, local, GQ!local, Slot, GQ!Slot,
         EmptyBag, GQ!EmptyBag, SetToBag, GQ!SetToBag, (+), GQ!(+)
<1>6. \A r \in Rank :
        /\ Deliver(r) => GQ!Deliver(r)
        /\ FinishExchange(r) => GQ!FinishExchange(r)
  BY Zenon DEF Deliver, GQ!Deliver, FinishExchange, GQ!FinishExchange,
         HandleMailboxReceive, GQ!HandleMailboxReceive, Push, GQ!Push, AllEntered,
         GQ!AllEntered, Return, GQ!Return, TotalIsZero, GQ!TotalIsZero, Slot, GQ!Slot,
         Add, GQ!Add, Remove, GQ!Remove, EmptyBag, GQ!EmptyBag, BagToSet, GQ!BagToSet,
         SetToBag, GQ!SetToBag, (+), GQ!(+), (-), GQ!(-)
<1> QED
  BY Zenon, <1>1, <1>2, <1>3, <1>4, <1>5, <1>6 DEF vars, GQ!vars, Next, GQ!Next, Step,
         GQ!Step, Done, GQ!Done, Aborted, GQ!Aborted

\* A traversal of one of the two programs begins as their queue does.
LEMMA GivenOrOther ==
  ASSUME NEW p \in {"metadata", "degrees"}
  PROVE  Init => (GQ!Init /\ Begins(p, WorkOf(p))) \/ Others(p)
<1> SUFFICES ASSUME Init, ~Others(p) PROVE GQ!Init /\ Begins(p, WorkOf(p))
  OBVIOUS
<1>1. PICK w : Begins(p, w)
  BY OneProgram DEF Others
<1>2. w = WorkOf(p)
  BY <1>1 DEF Begins, WorkOf
<1>3. \A vs : GQ!Queue(vs) = Queue(vs)
  BY DEF GQ!Queue, Queue
<1>4. GQ!EmptyBag = EmptyBag
  BY DEF GQ!EmptyBag, EmptyBag, GQ!SetToBag, SetToBag
<1>5. \E x \in {WorkOf("metadata"), WorkOf("degrees")} :
        /\ citr = x.citr /\ vitr = x.vitr /\ data = x.data
        /\ todo = [r \in Rank |-> GQ!Queue(x.source[r])]
  BY <1>1, <1>2, <1>3 DEF Begins
<1> QED
  BY <1>1, <1>2, <1>4, <1>5 DEF Init, GQ!Init

-----------------------------------------------------------------------------
(* The flow of the two programs.                                           *)

Given(r, u) == data[r].d[u]

\* The visitor will write y to the copy of u on r.
Bound(p, x, r, u, y) ==
  x.visitor.vertex = u /\ Brings(p, x.visitor, y) /\ (x.step = "hear" => x.rank = r)

GivenType(p) ==
  /\ GQ!Items \subseteq GQ!Flow!Item
  /\ data \in [Rank -> GivenData] /\ \A r \in Rank : data[r].program = p

\* Visitors wait with the master of their vertex, or were broadcast to a copy;
\* all bring what their vertex is to get.
GivenPlace(p) ==
  \A x \in GQ!Items :
    /\ x.step \in {"start", "sent", "visit"} => x.rank = Master[x.visitor.vertex]
    /\ x.step = "hear" => x.visitor.vertex \in Delegate
    /\ \A y : Brings(p, x.visitor, y) => Wanted(p, x.visitor.vertex, y)

\* Nothing else is written, and no copy misses what its vertex is to get.
GivenRight(p) == \A r \in Rank, u \in Vertex : Given(r, u) = 0 \/ Wanted(p, u, Given(r, u))

GivenCover(p) ==
  \A u \in Vertex : \A y : Wanted(p, u, y) =>
    \A r \in Rank : HoldsCopy(r, u) =>
      Given(r, u) = y \/ \E x \in GQ!Items : Bound(p, x, r, u, y)

GivenInv(p) == GivenType(p) /\ GivenPlace(p) /\ GivenRight(p) /\ GivenCover(p)

LEMMA GivenBegins ==
  ASSUME NEW p \in {"metadata", "degrees"}, GQ!Init, Begins(p, WorkOf(p))
  PROVE  GivenInv(p)
<1>0. PICK w : w = WorkOf(p) /\ Works(p, w)
  BY GivenStart
<1> DEFINE Opening(r) == GQ!Elements(w.citr[r]) \cup GQ!Elements(w.vitr[r])
<1>1. /\ citr = w.citr /\ vitr = w.vitr /\ data = w.data
      /\ todo = [r \in Rank |-> GQ!Queue(w.source[r])]
  <2>1. \A vs : GQ!Queue(vs) = Queue(vs)
    BY DEF GQ!Queue, Queue
  <2> QED
    BY <1>0, <2>1 DEF Begins
<1>2. \A x \in GQ!Items :
        \/ x.step = "start" /\ x.visitor \in Opening(x.rank)
        \/ x.step = "call" /\ x.visitor \in GQ!Elements(w.source[x.rank])
  <2>1. w \in {WorkOf("metadata"), WorkOf("degrees")}
    BY <1>0
  <2> QED
    BY <1>1, <2>1, GQ!InitItems, GivenQueueAssumed
<1>3. \A r \in Rank :
        /\ \A v \in Opening(r) : v.val = VM!NoUpdate /\ Master[v.vertex] = r
        /\ \A u \in Vertex : Master[u] = r => NewVisitor(u, VM!NoUpdate) \in Opening(r)
  <2>1. \A r \in Rank :
          LET first == GQ!Elements(w.citr[r]) \cup GQ!Elements(w.vitr[r])
          IN  /\ \A v \in first : ~v.bcast /\ v.val = VM!NoUpdate /\ Master[v.vertex] = r
              /\ \A u \in Vertex : Master[u] = r => NewVisitor(u, VM!NoUpdate) \in first
    BY <1>0 DEF Works
  <2> QED
    BY <2>1
<1>4. /\ \A r \in Rank : \A v \in GQ!Elements(w.source[r]) : p = "metadata" /\ VM!Listed(v.vertex, v.val)
      /\ p = "metadata" => \A u, y : VM!Listed(u, y) =>
           \E r \in Rank : NewVisitor(u, y) \in GQ!Elements(w.source[r])
      /\ \A r \in Rank : w.source[r] \in Seq(GQ!Visitor)
  BY <1>0 DEF Works
<1>5. data \in [Rank -> GivenData]
      /\ \A r \in Rank : data[r].program = p /\ \A u \in Vertex : data[r].d[u] = 0
  BY <1>0, <1>1 DEF Works
<1>6. \A r \in Rank : GQ!Starting(r) = Opening(r)
  BY <1>1 DEF GQ!Starting
<1>7. \A r \in Rank : GQ!Calling(r) = GQ!Elements(w.source[r])
  <2> SUFFICES ASSUME NEW r \in Rank PROVE GQ!Calling(r) = GQ!Elements(w.source[r])
    OBVIOUS
  <2>1. w.source[r] \in Seq(GQ!Visitor) /\ todo[r] = GQ!Queue(w.source[r])
    BY <1>1, <1>4
  <2>2. GQ!Those(GQ!Queue(w.source[r]), "queue_visitor") = GQ!Elements(w.source[r])
    BY <2>1, GQ!ThoseOfQueue, GivenQueueAssumed
  <2> QED
    BY <2>1, <2>2 DEF GQ!Calling
<1> HIDE DEF Opening
<1>8. GivenType(p)
  BY <1>5 DEF GivenType, GQ!Items, GQ!Flow!Item
<1>9. \A x \in GQ!Items : x.rank \in Rank /\ x.visitor \in GQ!Visitor /\ x.visitor.vertex \in Vertex
  BY DEF GQ!Items, GQ!Visitor
<1>10. ASSUME NEW x \in GQ!Items
       PROVE  /\ x.step \in {"start", "sent", "visit"} => x.rank = Master[x.visitor.vertex]
              /\ x.step = "hear" => x.visitor.vertex \in Delegate
              /\ \A y : Brings(p, x.visitor, y) => Wanted(p, x.visitor.vertex, y)
  <2>1. CASE x.step = "start" /\ x.visitor \in Opening(x.rank)
    BY <1>3, <1>9, <2>1 DEF Brings, Wanted
  <2>2. CASE x.step = "call" /\ x.visitor \in GQ!Elements(w.source[x.rank])
    <3>1. p = "metadata" /\ VM!Listed(x.visitor.vertex, x.visitor.val)
      BY <1>4, <1>9, <2>2
    <3> QED
      BY <2>2, <3>1, FileFacts DEF Brings, Wanted
  <2> QED
    BY <1>2, <2>1, <2>2
<1>11. GivenRight(p)
  BY <1>5 DEF GivenRight, Given
<1>12. ASSUME NEW u \in Vertex, NEW y, Wanted(p, u, y), NEW r \in Rank
       PROVE  \E x \in GQ!Items : Bound(p, x, r, u, y)
  <2>1. CASE p = "metadata"
    <3>1. y \in VM!FileValues /\ VM!Listed(u, y)
      BY <1>12, <2>1 DEF Wanted
    <3>2. PICK q \in Rank : NewVisitor(u, y) \in GQ!Elements(w.source[q])
      BY <1>4, <2>1, <3>1
    <3> DEFINE x == [rank |-> q, step |-> "call", visitor |-> NewVisitor(u, y)]
    <3>3. NewVisitor(u, y) \in GQ!Visitor /\ NewVisitor(u, y).vertex = u /\ NewVisitor(u, y).val = y
      BY <3>1 DEF NewVisitor, GQ!Visitor, VM!Value
    <3>4. x \in GQ!Items
      BY <1>7, <3>2, <3>3 DEF GQ!Items, GQ!Waits
    <3>5. y # VM!NoUpdate
      BY <3>1, FileFacts
    <3>6. Bound(p, x, r, u, y)
      BY <2>1, <3>3, <3>5 DEF Bound, Brings
    <3> QED
      BY <3>4, <3>6
  <2>2. CASE p # "metadata"
    <3> DEFINE x == [rank |-> Master[u], step |-> "start", visitor |-> NewVisitor(u, VM!NoUpdate)]
    <3>1. Master[u] \in Rank
      BY Partition
    <3>2. NewVisitor(u, VM!NoUpdate) \in GQ!Visitor /\ NewVisitor(u, VM!NoUpdate).vertex = u
      BY DEF NewVisitor, GQ!Visitor, VM!Value
    <3>3. x \in GQ!Items
      BY <1>3, <1>6, <3>1, <3>2 DEF GQ!Items, GQ!Waits
    <3>4. Bound(p, x, r, u, y)
      BY <1>12, <2>2, <3>2 DEF Bound, Brings, Wanted
    <3> QED
      BY <3>3, <3>4
  <2> QED
    BY <2>1, <2>2
<1> QED
  BY <1>8, <1>10, <1>11, <1>12 DEF GivenInv, GivenPlace, GivenCover
-----------------------------------------------------------------------------
(* Steps of the two programs.                                              *)

LEMMA GivenItem ==
  ASSUME NEW p, GivenType(p), NEW x \in GQ!Items
  PROVE  /\ x.rank \in Rank /\ x.visitor \in GQ!Visitor /\ x.visitor.vertex \in Vertex
         /\ Master[x.visitor.vertex] \in Rank /\ data[x.rank] \in GivenData
BY Partition DEF GivenType, GQ!Flow!Item, GQ!Visitor

\* A visitor only moves on.
MovesOn(w) ==
  /\ data' = data
  /\ \E y \in GQ!Items' :
       /\ y \in GQ!Flow!Item /\ y.visitor = w.visitor /\ y.step \in {"sent", "visit"}
       /\ y.rank = Master[w.visitor.vertex]
       /\ \A x \in GQ!Items' : x \in GQ!Items \/ x = y
  /\ GQ!Items \ {w} \subseteq GQ!Items'

LEMMA GivenMoves ==
  ASSUME NEW p, GivenType(p), GivenPlace(p), NEW w \in GQ!Items, GQ!Flow!Call(w) \/ GQ!Flow!Receive(w)
  PROVE  MovesOn(w)
<1> DEFINE r == w.rank
           v == w.visitor
           m == Master[v.vertex]
<1>1. r \in Rank /\ v \in GQ!Visitor /\ v.vertex \in Vertex /\ m \in Rank /\ data[r] \in GivenData
  BY GivenItem
<1>2. data = [data EXCEPT ![r] = data[r]]
  BY DEF GivenType
<1>3. \A out \in PreVisit(r, data[r], v) : out.ret /\ (GQ!Flow!Became(r, out.data) => data' = data)
  BY <1>1, <1>2, GivenPreVisit DEF GQ!Flow!Became
<1>4. \E step \in {"sent", "visit"} : data' = data /\ GQ!Flow!Moves(w, {GQ!Flow!At(m, step, v)})
  <2>1. CASE GQ!Flow!Receive(w)
    <3>1. PICK out \in PreVisit(r, data[r], v) :
            /\ GQ!Flow!Moves(w, IF out.ret THEN {GQ!Flow!At(r, "visit", v)} ELSE {})
            /\ GQ!Flow!Became(r, out.data)
      BY <2>1 DEF GQ!Flow!Receive, GQ!Flow!Moves
    <3>2. r = m
      BY <2>1 DEF GQ!Flow!Receive, GivenPlace
    <3> QED
      BY <1>3, <3>1, <3>2
  <2>2. CASE GQ!Flow!Call(w) /\ (v.vertex \in Delegate \/ m = r)
    <3>1. PICK out \in PreVisit(r, data[r], v) :
            /\ GQ!Flow!Moves(w, IF ~out.ret THEN {}
                                ELSE {GQ!Flow!At(m, IF m = r THEN "visit" ELSE "sent", v)})
            /\ GQ!Flow!Became(r, out.data)
      BY <2>2 DEF GQ!Flow!Call
    <3> QED
      BY <1>3, <3>1
  <2>3. CASE GQ!Flow!Call(w) /\ ~(v.vertex \in Delegate \/ m = r)
    BY <2>3 DEF GQ!Flow!Call
  <2> QED
    BY <2>1, <2>2, <2>3
<1>5. PICK step \in {"sent", "visit"} : data' = data /\ GQ!Flow!Moves(w, {GQ!Flow!At(m, step, v)})
  BY <1>4
<1> DEFINE y == GQ!Flow!At(m, step, v)
<1>6. y \in GQ!Flow!Item /\ y.visitor = v /\ y.step \in {"sent", "visit"} /\ y.rank = m
  BY <1>1 DEF GQ!Flow!At, GQ!Flow!Item
<1> HIDE DEF y
<1>7. /\ y \in GQ!Items' /\ GQ!Items \ {w} \subseteq GQ!Items'
      /\ \A x \in GQ!Items' : x \in GQ!Items \/ x = y
  BY <1>5 DEF GQ!Flow!Moves, y
<1> QED
  BY <1>5, <1>6, <1>7 DEF MovesOn

\* A visitor is visited: what it brings is written, and passed to the replicas.
GivenWritten(p, w) ==
  LET u == w.visitor.vertex
      r == w.rank
  IN  /\ w.step \in {"start", "visit", "hear"}
      /\ GQ!Items \ {w} \subseteq GQ!Items'
      /\ data' \in [Rank -> GivenData] /\ \A q \in Rank : data'[q].program = p
      /\ \A x \in GQ!Items' :
           \/ x \in GQ!Items
           \/ /\ x \in GQ!Flow!Item /\ x.step = "hear" /\ u \in Delegate
              /\ x.visitor.vertex = u /\ x.visitor.val = w.visitor.val
      /\ \/ /\ \A q \in Rank, x \in Vertex : Given(q, x)' = Given(q, x)
            /\ \A y : ~Brings(p, w.visitor, y)
         \/ /\ \E y : /\ Brings(p, w.visitor, y)
                      /\ \A q \in Rank, x \in Vertex :
                           Given(q, x)' = IF q = r /\ x = u THEN y ELSE Given(q, x)
            /\ w.step # "hear" /\ u \in Delegate =>
                 \A q \in Rank \ {r} : \E x \in GQ!Items' :
                   /\ x.step = "hear" /\ x.rank = q
                   /\ x.visitor.vertex = u /\ x.visitor.val = w.visitor.val

LEMMA GivenWrites ==
  ASSUME NEW p, GivenType(p), GivenPlace(p), NEW w \in GQ!Items,
         GQ!Flow!Start(w) \/ GQ!Flow!Run(w) \/ GQ!Flow!Hear(w)
  PROVE  GivenWritten(p, w)
<1> DEFINE r == w.rank
           v == w.visitor
           u == v.vertex
           b == [v EXCEPT !.bcast = TRUE]
<1>1. /\ r \in Rank /\ v \in GQ!Visitor /\ u \in Vertex /\ Master[u] \in Rank
      /\ data[r] \in GivenData /\ data[r].program = p
  BY GivenItem DEF GivenType
<1>2. PICK out \in Visit(r, data[r], v) :
        /\ GQ!Flow!Became(r, out.data)
        /\ GQ!Flow!Moves(w, GQ!Flow!Calls(r, out) \cup
                              (IF w.step = "hear" THEN {} ELSE GQ!Flow!Broadcast(r, v, out)))
  <2>1. CASE GQ!Flow!Start(w)
    BY <1>1, <2>1 DEF GQ!Flow!Start, GQ!Flow!Moves
  <2>2. CASE GQ!Flow!Run(w)
    BY <2>2 DEF GQ!Flow!Run, GQ!Flow!Moves
  <2>3. CASE GQ!Flow!Hear(w)
    BY <2>3 DEF GQ!Flow!Hear, GQ!Flow!Moves
  <2> QED
    BY <2>1, <2>2, <2>3
<1>3. w.step \in {"start", "visit", "hear"}
  BY DEF GQ!Flow!Start, GQ!Flow!Run, GQ!Flow!Hear
<1>4. /\ out.data \in GivenData /\ out.spawn = << >> /\ out.data.program = p
      /\ \/ out.data = data[r] /\ \A y : ~Brings(p, v, y)
         \/ /\ out.ret
            /\ \E y : /\ Brings(p, v, y)
                      /\ \A x \in Vertex : out.data.d[x] = IF x = u THEN y ELSE data[r].d[x]
  <2>1. PICK a \in GivenData : a = data[r]
    BY <1>1
  <2>2. out \in Visit(r, a, v)
    BY <2>1
  <2>3. /\ out \in [ret : BOOLEAN, data : GivenData, spawn : Seq(GQ!Visitor)]
        /\ out.spawn = << >> /\ out.data.program = a.program
        /\ \/ out.data = a /\ \A y : ~Brings(a.program, v, y)
           \/ /\ out.ret
              /\ \E y : /\ Brings(a.program, v, y)
                        /\ \A x \in Vertex : out.data.d[x] = IF x = v.vertex THEN y ELSE a.d[x]
    <3> HIDE DEF r, v, u
    <3> QED
      BY <1>1, <2>2, GivenVisit
  <2>4. a.program = p
    BY <1>1, <2>1
  <2>5. u = v.vertex
    OBVIOUS
  <2> HIDE DEF r, v, u
  <2> QED
    BY Zenon, <2>1, <2>3, <2>4, <2>5
<1>5. \A q \in Rank : data'[q] = IF q = r THEN out.data ELSE data[q]
  BY <1>1, <1>2 DEF GivenType, GQ!Flow!Became
<1>6. data' \in [Rank -> GivenData] /\ \A q \in Rank : data'[q].program = p
  BY <1>1, <1>2, <1>4 DEF GivenType, GQ!Flow!Became
<1>7. GQ!Flow!Calls(r, out) = {}
  BY <1>4 DEF GQ!Flow!Calls
<1>8. b \in GQ!Visitor /\ b.vertex = u /\ b.val = v.val
  BY <1>1 DEF GQ!Visitor
<1> DEFINE casts == w.step # "hear" /\ out.ret /\ u \in Delegate /\ Master[u] = r
           bc == IF casts THEN {GQ!Flow!At(d, "hear", b) : d \in Rank \ {r}} ELSE {}
<1>9. GQ!Flow!Moves(w, bc)
  <2>1. (IF w.step = "hear" THEN {} ELSE GQ!Flow!Broadcast(r, v, out)) = bc
    BY DEF GQ!Flow!Broadcast
  <2> HIDE DEF bc
  <2> QED
    BY <1>2, <1>7, <2>1 DEF GQ!Flow!Moves
<1> HIDE DEF b
<1>10. \A x \in bc : casts /\ x \in GQ!Flow!Item /\ x.step = "hear" /\ x.visitor = b
  BY <1>1, <1>8 DEF GQ!Flow!At, GQ!Flow!Item
<1>11. casts => \A q \in Rank \ {r} : \E x \in bc : x.step = "hear" /\ x.rank = q /\ x.visitor = b
  <2> SUFFICES ASSUME casts, NEW q \in Rank \ {r}
               PROVE  \E x \in bc : x.step = "hear" /\ x.rank = q /\ x.visitor = b
    OBVIOUS
  <2>1. GQ!Flow!At(q, "hear", b) \in bc
    OBVIOUS
  <2> QED
    BY <2>1 DEF GQ!Flow!At
<1> HIDE DEF bc
<1>12. /\ GQ!Items \ {w} \subseteq GQ!Items' /\ bc \subseteq GQ!Items'
       /\ \A x \in GQ!Items' : x \in GQ!Items \/ x \in bc
  BY <1>9 DEF GQ!Flow!Moves
<1>13. \A x \in GQ!Items' :
         \/ x \in GQ!Items
         \/ /\ x \in GQ!Flow!Item /\ x.step = "hear" /\ u \in Delegate
            /\ x.visitor.vertex = u /\ x.visitor.val = v.val
  BY <1>8, <1>10, <1>12
<1>14. CASE out.data = data[r] /\ \A y : ~Brings(p, v, y)
  <2>1. \A q \in Rank, x \in Vertex : Given(q, x)' = Given(q, x)
    BY <1>5, <1>14 DEF Given
  <2> QED
    BY <1>3, <1>6, <1>12, <1>13, <1>14, <2>1 DEF GivenWritten
<1>15. ASSUME out.ret, NEW y, Brings(p, v, y),
              \A x \in Vertex : out.data.d[x] = IF x = u THEN y ELSE data[r].d[x]
       PROVE  GivenWritten(p, w)
  <2>1. \A q \in Rank, x \in Vertex : Given(q, x)' = IF q = r /\ x = u THEN y ELSE Given(q, x)
    BY <1>5, <1>15 DEF Given
  <2>2. w.step # "hear" => Master[u] = r
    BY <1>3 DEF GivenPlace
  <2>3. w.step # "hear" /\ u \in Delegate =>
          \A q \in Rank \ {r} : \E x \in GQ!Items' :
            x.step = "hear" /\ x.rank = q /\ x.visitor.vertex = u /\ x.visitor.val = v.val
    BY <1>8, <1>11, <1>12, <1>15, <2>2
  <2> QED
    BY <1>3, <1>6, <1>12, <1>13, <1>15, <2>1, <2>3 DEF GivenWritten
<1> QED
  BY <1>4, <1>14, <1>15
-----------------------------------------------------------------------------
(* They keep the invariant.                                                *)

LEMMA SameBrought ==
  ASSUME NEW p, NEW v, NEW z, v.vertex = z.vertex, v.val = z.val, NEW y, Brings(p, v, y)
  PROVE  Brings(p, z, y)
BY DEF Brings

LEMMA MovesKeep ==
  ASSUME NEW p, GivenInv(p), NEW w \in GQ!Items, MovesOn(w)
  PROVE  GivenInv(p)'
<1>1. PICK y \in GQ!Items' :
        /\ y \in GQ!Flow!Item /\ y.visitor = w.visitor /\ y.step \in {"sent", "visit"}
        /\ y.rank = Master[w.visitor.vertex]
        /\ \A x \in GQ!Items' : x \in GQ!Items \/ x = y
  BY DEF MovesOn
<1>2. data' = data /\ GQ!Items \ {w} \subseteq GQ!Items'
  BY DEF MovesOn
<1>3. \A q \in Rank, u \in Vertex : Given(q, u)' = Given(q, u)
  BY <1>2 DEF Given
<1>4. GivenType(p)'
  BY <1>1, <1>2 DEF GivenInv, GivenType
<1>5. GivenPlace(p)'
  BY <1>1 DEF GivenInv, GivenPlace
<1>6. GivenRight(p)'
  BY <1>3 DEF GivenInv, GivenRight
<1>7. ASSUME NEW u \in Vertex, NEW z, Wanted(p, u, z), NEW r \in Rank, HoldsCopy(r, u)
      PROVE  Given(r, u)' = z \/ \E x \in GQ!Items' : Bound(p, x, r, u, z)
  <2>1. Given(r, u) = z \/ \E x \in GQ!Items : Bound(p, x, r, u, z)
    BY <1>7 DEF GivenInv, GivenCover
  <2>2. Bound(p, w, r, u, z) => Bound(p, y, r, u, z)
    BY <1>1 DEF Bound
  <2>3. \A x \in GQ!Items : x \in GQ!Items' \/ x = w
    BY <1>2
  <2> QED
    BY <1>1, <1>3, <2>1, <2>2, <2>3
<1>8. GivenCover(p)'
  BY <1>7 DEF GivenCover
<1> QED
  BY <1>4, <1>5, <1>6, <1>8 DEF GivenInv

LEMMA WritesKeep ==
  ASSUME NEW p, GivenInv(p), NEW w \in GQ!Items, GivenWritten(p, w)
  PROVE  GivenInv(p)'
<1> DEFINE v == w.visitor
           u == w.visitor.vertex
           r == w.rank
<1>1. r \in Rank /\ u \in Vertex
  BY GivenItem DEF GivenInv
<1>2. /\ w.step \in {"start", "visit", "hear"}
      /\ GQ!Items \ {w} \subseteq GQ!Items'
      /\ data' \in [Rank -> GivenData] /\ \A q \in Rank : data'[q].program = p
  BY DEF GivenWritten
<1>3. \A x \in GQ!Items' :
        \/ x \in GQ!Items
        \/ /\ x \in GQ!Flow!Item /\ x.step = "hear" /\ u \in Delegate
           /\ x.visitor.vertex = u /\ x.visitor.val = v.val
  BY DEF GivenWritten
<1>4. \/ /\ \A q \in Rank, x \in Vertex : Given(q, x)' = Given(q, x)
         /\ \A y : ~Brings(p, v, y)
      \/ /\ \E y : /\ Brings(p, v, y)
                   /\ \A q \in Rank, x \in Vertex :
                        Given(q, x)' = IF q = r /\ x = u THEN y ELSE Given(q, x)
         /\ w.step # "hear" /\ u \in Delegate =>
              \A q \in Rank \ {r} : \E x \in GQ!Items' :
                x.step = "hear" /\ x.rank = q /\ x.visitor.vertex = u /\ x.visitor.val = v.val
  BY DEF GivenWritten
<1>5. \A y : Brings(p, v, y) => Wanted(p, u, y)
  BY DEF GivenInv, GivenPlace
<1>6. w.step # "hear" => r = Master[u]
  BY <1>2 DEF GivenInv, GivenPlace
<1> HIDE DEF v, u, r
<1>7. GivenType(p)'
  BY <1>2, <1>3 DEF GivenInv, GivenType
<1>8. GivenPlace(p)'
  <2> SUFFICES ASSUME NEW x \in GQ!Items'
               PROVE  /\ x.step \in {"start", "sent", "visit"} => x.rank = Master[x.visitor.vertex]
                      /\ x.step = "hear" => x.visitor.vertex \in Delegate
                      /\ \A y : Brings(p, x.visitor, y) => Wanted(p, x.visitor.vertex, y)
    BY DEF GivenPlace
  <2>1. CASE x \in GQ!Items
    BY <2>1 DEF GivenInv, GivenPlace
  <2>2. CASE x.step = "hear" /\ u \in Delegate /\ x.visitor.vertex = u /\ x.visitor.val = v.val
    <3>1. \A y : Brings(p, x.visitor, y) => Brings(p, v, y)
      BY <2>2, SameBrought DEF u, v
    <3> QED
      BY <1>5, <2>2, <3>1
  <2> QED
    BY <1>3, <2>1, <2>2
<1>9. GivenRight(p)'
  <2>1. \A q \in Rank, x \in Vertex :
          \/ Given(q, x)' = Given(q, x)
          \/ x = u /\ Brings(p, v, Given(q, x)')
    BY <1>4
  <2>2. \A q \in Rank, x \in Vertex : Given(q, x)' = 0 \/ Wanted(p, x, Given(q, x)')
    BY <1>5, <2>1 DEF GivenInv, GivenRight
  <2> QED
    BY <2>2 DEF GivenRight
<1>10. ASSUME NEW x \in Vertex, NEW z, Wanted(p, x, z), NEW q \in Rank, HoldsCopy(q, x)
       PROVE  Given(q, x)' = z \/ \E i \in GQ!Items' : Bound(p, i, q, x, z)
  <2>1. Given(q, x) = z \/ \E i \in GQ!Items : Bound(p, i, q, x, z)
    BY <1>10 DEF GivenInv, GivenCover
  <2>2. \A i \in GQ!Items : i \in GQ!Items' \/ i = w
    BY <1>2
  <2>3. CASE x = u /\ q = r
    <3>1. CASE \A y : ~Brings(p, v, y)
      <4>1. ~Bound(p, w, q, x, z)
        BY <3>1 DEF Bound, v
      <4> QED
        BY <1>4, <2>1, <2>2, <3>1, <4>1
    <3>2. CASE \E y : Brings(p, v, y)
      <4>1. PICK y : Brings(p, v, y) /\ Given(q, x)' = y
        BY <1>4, <2>3, <3>2
      <4>2. y = z
        BY <1>5, <1>10, <2>3, <4>1, OneWanted
      <4> QED
        BY <4>1, <4>2
    <3> QED
      BY <3>1, <3>2
  <2>4. CASE ~(x = u /\ q = r)
    <3>1. Given(q, x)' = Given(q, x)
      BY <1>4, <2>4
    <3>2. CASE Bound(p, w, q, x, z)
      <4>1. x = u /\ Brings(p, v, z) /\ (w.step = "hear" => w.rank = q)
        BY <3>2 DEF Bound, u, v
      <4>2. w.step # "hear" /\ q # r
        BY <2>4, <4>1 DEF r
      <4>3. u \in Delegate
        BY <1>6, <1>10, <4>1, <4>2 DEF HoldsCopy
      <4>4. PICK i \in GQ!Items' : /\ i.step = "hear" /\ i.rank = q
                                   /\ i.visitor.vertex = u /\ i.visitor.val = v.val
        BY <1>4, <4>1, <4>2, <4>3
      <4>5. Brings(p, i.visitor, z)
        BY <4>1, <4>4, SameBrought DEF u, v
      <4>6. Bound(p, i, q, x, z)
        BY <4>1, <4>4, <4>5 DEF Bound
      <4> QED
        BY <4>6
    <3> QED
      BY <2>1, <2>2, <3>1, <3>2
  <2> QED
    BY <2>3, <2>4
<1>11. GivenCover(p)'
  BY <1>10 DEF GivenCover
<1> QED
  BY <1>7, <1>8, <1>9, <1>11 DEF GivenInv

LEMMA GivenStays ==
  ASSUME NEW p
  PROVE  GivenInv(p) /\ [GQ!Flow!Next]_<<GQ!Items, data>> => GivenInv(p)'
<1> SUFFICES ASSUME GivenInv(p), [GQ!Flow!Next]_<<GQ!Items, data>> PROVE GivenInv(p)'
  OBVIOUS
<1>1. GivenType(p) /\ GivenPlace(p)
  BY DEF GivenInv
<1>2. CASE UNCHANGED <<GQ!Items, data>>
  BY <1>2 DEF GivenInv, GivenType, GivenPlace, GivenRight, GivenCover, Given
<1>3. CASE GQ!Flow!Next
  <2>1. PICK w \in GQ!Items : \/ GQ!Flow!Start(w) \/ GQ!Flow!Call(w) \/ GQ!Flow!Receive(w)
                              \/ GQ!Flow!Run(w) \/ GQ!Flow!Hear(w)
    BY <1>3 DEF GQ!Flow!Next
  <2>2. CASE GQ!Flow!Call(w) \/ GQ!Flow!Receive(w)
    BY <1>1, <2>2, GivenMoves, MovesKeep
  <2>3. CASE GQ!Flow!Start(w) \/ GQ!Flow!Run(w) \/ GQ!Flow!Hear(w)
    BY <1>1, <2>3, GivenWrites, WritesKeep
  <2> QED
    BY <2>1, <2>2, <2>3
<1> QED
  BY <1>2, <1>3

-----------------------------------------------------------------------------
(* What every copy holds in the end.                                       *)

LEMMA GivenEnds ==
  ASSUME NEW p, GivenInv(p), GQ!LeaveOnlyWhenQuiescent, Finished,
         NEW r \in Rank, NEW u \in Vertex, HoldsCopy(r, u)
  PROVE  /\ \A y : Wanted(p, u, y) => Given(r, u) = y
         /\ Given(r, u) = 0 \/ Wanted(p, u, Given(r, u))
<1>1. \E q \in Rank : GQ!HasLeft(q)
  BY Partition DEF Finished, HasLeft, GQ!HasLeft
<1>2. GQ!Items = {}
  BY <1>1, GQ!QuiescentFlow, GivenQueueAssumed DEF GQ!LeaveOnlyWhenQuiescent
<1> QED
  BY <1>2 DEF GivenInv, GivenCover, GivenRight

\* One copy of a vertex, at the end.
LEMMA EntryEnds ==
  ASSUME GivenInv("metadata"), GQ!LeaveOnlyWhenQuiescent
  PROVE  MetadataIsEverywhere
<1> SUFFICES ASSUME Finished, NEW r \in Rank, NEW u \in Vertex, HoldsCopy(r, u)
             PROVE  VM!HoldsEntry(Result, r, u)
  BY DEF MetadataIsEverywhere
<1>1. /\ \A y : Wanted("metadata", u, y) => Given(r, u) = y
      /\ Given(r, u) = 0 \/ Wanted("metadata", u, Given(r, u))
  BY GivenEnds
<1>2. Result[r][u] = Given(r, u)
  BY DEF Result, Given
<1>3. \A y \in VM!FileValues : VM!Listed(u, y) => VM!Listed(u, Result[r][u])
  BY <1>1, <1>2 DEF Wanted
<1>4. (\A y \in VM!FileValues : ~VM!Listed(u, y)) => Result[r][u] = 0
  BY <1>1, <1>2 DEF Wanted
<1> QED
  BY <1>3, <1>4 DEF VM!HoldsEntry

LEMMA GivenFlows ==
  GQ!Init /\ [][Next]_vars
    => /\ [][GQ!Flow!Next]_<<GQ!Items, data>>
       /\ []GQ!LeaveOnlyWhenQuiescent
<1>1. GQ!Spec => GQ!Flow!Spec
  BY GQ!VisitorsFlow, GivenQueueAssumed, GivenIsPlain
<1>2. GQ!Spec => []GQ!LeaveOnlyWhenQuiescent
  BY GQ!TerminationIsSafe, GivenQueueAssumed
<1> QED
  BY <1>1, <1>2, SameGivenNext, PTL DEF GQ!Spec, GQ!Flow!Spec

\* When every rank has returned from vertex_data_db, each copy of a vertex holds
\* the value that its entry of the files gives, or 0, although visitors without
\* a value run beside the entries' and several ranks may read a file.
THEOREM MetadataReachesEveryCopy == Spec => []MetadataIsEverywhere
<1> DEFINE Mine == Begins("metadata", WorkOf("metadata"))
<1>1. Init => (GQ!Init /\ Mine) \/ Others("metadata")
  BY GivenOrOther
<1>2. Others("metadata") /\ [Next]_vars => Others("metadata")'
  BY OthersStay
<1>3. Others("metadata") => MetadataIsEverywhere
  BY OthersRun DEF MetadataIsEverywhere
<1>4. GQ!Init /\ Mine => GivenInv("metadata")
  BY GivenBegins
<1>5. GivenInv("metadata") /\ [GQ!Flow!Next]_<<GQ!Items, data>> => GivenInv("metadata")'
  BY GivenStays
<1>6. GivenInv("metadata") /\ GQ!LeaveOnlyWhenQuiescent => MetadataIsEverywhere
  BY EntryEnds
<1> HIDE DEF Mine
<1> QED
  BY <1>1, <1>2, <1>3, <1>4, <1>5, <1>6, GivenFlows, PTL DEF Spec

-----------------------------------------------------------------------------
(* Degrees.                                                                *)

\* Powers of two.
LEMMA PowerFacts ==
  /\ VM!PowerOfTwo[0] = 1
  /\ \A k \in Nat : VM!PowerOfTwo[k] \in Nat /\ VM!PowerOfTwo[k + 1] = 2 * VM!PowerOfTwo[k]
<1> DEFINE G == [x \in Nat |-> 2 * x]
           Fits(f) == f = [k \in Nat |-> IF k = 0 THEN 1 ELSE 2 * f[k - 1]]
<1>1. 1 \in Nat /\ G \in [Nat -> Nat] /\ \A x \in Nat : G[x] = 2 * x
  OBVIOUS
<1> DEFINE U == Nat
<1>2. PICK b \in [Nat -> U] : b[0] = 1 /\ \A k \in Nat : b[k + 1] = G[b[k]]
  <2>1. PICK start \in U : start = 1
    OBVIOUS
  <2>2. G \in [U -> U]
    BY <1>1
  <2> HIDE DEF U, G
  <2>3. \E b \in [Nat -> U] : b[0] = start /\ \A k \in Nat : b[k + 1] = G[b[k]]
    BY <2>2, Recursion
  <2> QED
    BY <2>1, <2>3
<1> HIDE DEF G
<1>3. ASSUME NEW k \in Nat, k # 0 PROVE b[k] = 2 * b[k - 1]
  <2>1. k - 1 \in Nat /\ (k - 1) + 1 = k
    BY <1>3
  <2>2. b[k - 1] \in Nat
    BY <1>2, <2>1
  <2> QED
    BY <1>1, <1>2, <2>1, <2>2
<1>4. Fits(b)
  BY <1>2, <1>3
<1>5. VM!PowerOfTwo = CHOOSE f : Fits(f)
  BY DEF VM!PowerOfTwo
<1> DEFINE p == VM!PowerOfTwo
<1>6. Fits(p)
  <2> HIDE DEF Fits
  <2> QED
    BY <1>4, <1>5
<1>7. p[0] = 1 /\ \A k \in Nat : k # 0 => p[k] = 2 * p[k - 1]
  BY <1>6
<1> HIDE DEF p
<1>8. \A k \in Nat : p[k + 1] = 2 * p[k]
  <2> SUFFICES ASSUME NEW k \in Nat PROVE p[k + 1] = 2 * p[k]
    OBVIOUS
  <2>1. k + 1 \in Nat /\ k + 1 # 0 /\ (k + 1) - 1 = k
    OBVIOUS
  <2> QED
    BY <1>7, <2>1
<1>9. \A k \in Nat : p[k] \in Nat
  <2> DEFINE Bad == {k \in Nat : p[k] \notin Nat}
  <2> SUFFICES ASSUME Bad # {} PROVE FALSE
    OBVIOUS
  <2>1. PICK k \in Bad : \A m \in Bad : k <= m
    <3>1. Bad \subseteq Nat
      OBVIOUS
    <3> HIDE DEF Bad
    <3> QED
      BY <3>1, Least
  <2>2. k \in Nat /\ k # 0 /\ p[k] \notin Nat
    BY <1>7
  <2>3. k - 1 \in Nat /\ ~(k <= k - 1)
    BY <2>2
  <2>4. p[k - 1] \in Nat
    BY <2>1, <2>3
  <2>5. 2 * p[k - 1] \in Nat
    BY <2>4
  <2> QED
    BY <1>7, <2>2, <2>5
<1> QED
  BY <1>7, <1>8, <1>9 DEF p

\* Some power is large enough.
LEMMA PowersGrow == \A n \in Nat : VM!PowerOfTwo[n] >= n + 1
<1> DEFINE p == VM!PowerOfTwo
           Bad == {n \in Nat : ~(p[n] >= n + 1)}
<1> SUFFICES ASSUME Bad # {} PROVE FALSE
  OBVIOUS
<1>0. p[0] = 1 /\ \A k \in Nat : p[k] \in Nat /\ p[k + 1] = 2 * p[k]
  BY PowerFacts
<1> HIDE DEF p
<1>1. PICK n \in Bad : \A m \in Bad : n <= m
  <2>1. Bad \subseteq Nat
    OBVIOUS
  <2> HIDE DEF Bad
  <2> QED
    BY <2>1, Least
<1>2. n \in Nat /\ n # 0 /\ ~(p[n] >= n + 1)
  BY <1>0
<1>3. n - 1 \in Nat /\ ~(n <= n - 1) /\ (n - 1) + 1 = n
  BY <1>2
<1>4. p[n - 1] >= (n - 1) + 1
  BY <1>1, <1>3
<1>5. p[n] = 2 * p[n - 1] /\ p[n - 1] \in Nat
  BY <1>0, <1>3
<1> QED
  BY <1>2, <1>4, <1>5

LEMMA DegreeIsNumber == \A v \in Vertex : VM!Degree(v) \in Nat
<1> SUFFICES ASSUME NEW v \in Vertex PROVE VM!Degree(v) \in Nat
  OBVIOUS
<1> DEFINE On(r) == {r} \X DOMAIN Stored[r][v]
<1>1. \A r \in Rank : IsFiniteSet(On(r))
  <2> SUFFICES ASSUME NEW r \in Rank PROVE IsFiniteSet(On(r))
    OBVIOUS
  <2>1. DOMAIN Stored[r][v] = 1..Len(Stored[r][v]) /\ Len(Stored[r][v]) \in Nat
    BY GraphAssumption
  <2>2. IsFiniteSet(DOMAIN Stored[r][v])
    BY <2>1, FS_Interval
  <2>3. IsFiniteSet({r})
    BY FS_Singleton
  <2> QED
    BY <2>2, <2>3, FS_Product
<1>2. IsFiniteSet({On(r) : r \in Rank})
  <2> DEFINE f == [r \in Rank |-> On(r)]
           T == {On(r) : r \in Rank}
  <2>1. f \in Surjection(Rank, T)
    BY DEF Surjection
  <2> HIDE DEF f, T
  <2>2. IsFiniteSet(T)
    BY <2>1, GraphAssumption, FS_Surjection
  <2> QED
    BY <2>2 DEF T
<1>3. IsFiniteSet(UNION {On(r) : r \in Rank})
  <2>1. \A s \in {On(r) : r \in Rank} : IsFiniteSet(s)
    BY <1>1
  <2> HIDE DEF On
  <2> QED
    BY <1>2, <2>1, FS_UNION
<1>4. Cardinality(UNION {On(r) : r \in Rank}) \in Nat
  BY <1>3, FS_CardinalityType
<1> QED
  BY <1>4, Zenon DEF VM!Degree, VM!Cardinality, Cardinality, VM!IsFiniteSet, IsFiniteSet

\* The class is ceil(log2(degree + 1)).
LEMMA ClassFits ==
  ASSUME NEW v \in Vertex
  PROVE  LET top == VM!PowerOfTwo[VM!DegreeClass(v)]
         IN  top > VM!Degree(v) /\ VM!Degree(v) + 1 > top \div 2
<1> DEFINE p == VM!PowerOfTwo
           n == VM!Degree(v)
           Fits(k) == p[k] >= n + 1 /\ (k = 0 \/ p[k - 1] < n + 1)
           T == {k \in 0..n : p[k] >= n + 1}
<1>1. n \in Nat
  BY DegreeIsNumber
<1>2. p[0] = 1 /\ \A k \in Nat : p[k] \in Nat /\ p[k + 1] = 2 * p[k] /\ p[k] >= k + 1
  BY PowerFacts, PowersGrow
<1>3. VM!DegreeClass(v) = CHOOSE k \in 0..n : Fits(k)
  BY DEF VM!DegreeClass
<1> HIDE DEF p, n
<1>4. PICK k \in T : \A m \in T : k <= m
  <2>1. T \subseteq Nat /\ n \in T
    BY <1>1, <1>2
  <2> HIDE DEF T
  <2> QED
    BY <2>1, Least
<1>5. Fits(k) /\ k \in 0..n
  <2>1. k \in Nat /\ k \in 0..n /\ p[k] >= n + 1
    BY <1>1, <1>4
  <2>2. CASE k = 0
    BY <2>1, <2>2
  <2>3. CASE k # 0
    <3>1. k - 1 \in 0..n /\ ~(k <= k - 1) /\ k - 1 \in Nat
      BY <1>1, <2>1, <2>3
    <3>2. ~(p[k - 1] >= n + 1)
      BY <1>4, <3>1
    <3> QED
      BY <1>1, <1>2, <2>1, <3>1, <3>2
  <2> QED
    BY <2>2, <2>3
<1>6. PICK c : c = VM!DegreeClass(v) /\ c \in 0..n /\ Fits(c)
  <2> HIDE DEF Fits
  <2> QED
    BY <1>3, <1>5
<1>7. p[c] \in Nat /\ p[c] > n
  BY <1>1, <1>2, <1>6
<1>8. n + 1 > p[c] \div 2
  <2>1. CASE c = 0
    <3>1. p[c] = 1 /\ 1 \div 2 = 0
      BY <1>2, <2>1
    <3> QED
      BY <1>1, <3>1
  <2>2. CASE c # 0
    <3>1. c - 1 \in Nat /\ (c - 1) + 1 = c
      BY <1>1, <1>6, <2>2
    <3>2. p[c] = 2 * p[c - 1] /\ p[c - 1] \in Nat /\ p[c - 1] < n + 1
      BY <1>2, <1>6, <2>2, <3>1
    <3>3. p[c] \div 2 = p[c - 1]
      BY <3>2
    <3> QED
      BY <3>2, <3>3
  <2> QED
    BY <2>1, <2>2
<1> QED
  BY <1>6, <1>7, <1>8 DEF p, n

LEMMA DegreesEnd ==
  ASSUME GivenInv("degrees"), GQ!LeaveOnlyWhenQuiescent
  PROVE  DegreesAreEverywhere
<1> SUFFICES ASSUME Finished, NEW r \in Rank, NEW u \in Vertex, HoldsCopy(r, u)
             PROVE  VM!HoldsDegree(Result, r, u)
  BY DEF DegreesAreEverywhere
<1>1. \A y : Wanted("degrees", u, y) => Given(r, u) = y
  BY GivenEnds
<1>2. Result[r][u] = VM!DegreeClass(u)
  BY <1>1 DEF Result, Given, Wanted
<1> QED
  BY <1>2, ClassFits DEF VM!HoldsDegree

\* When every rank has returned from vertex_data_db_degree, each copy of a
\* vertex holds ceil(log2(degree + 1)), the degree being that of all ranks.
THEOREM DegreesReachEveryCopy == Spec => []DegreesAreEverywhere
<1> DEFINE Mine == Begins("degrees", WorkOf("degrees"))
<1>1. Init => (GQ!Init /\ Mine) \/ Others("degrees")
  BY GivenOrOther
<1>2. Others("degrees") /\ [Next]_vars => Others("degrees")'
  BY OthersStay
<1>3. Others("degrees") => DegreesAreEverywhere
  BY OthersRun DEF DegreesAreEverywhere
<1>4. GQ!Init /\ Mine => GivenInv("degrees")
  BY GivenBegins
<1>5. GivenInv("degrees") /\ [GQ!Flow!Next]_<<GQ!Items, data>> => GivenInv("degrees")'
  BY GivenStays
<1>6. GivenInv("degrees") /\ GQ!LeaveOnlyWhenQuiescent => DegreesAreEverywhere
  BY DegreesEnd
<1> HIDE DEF Mine
<1> QED
  BY <1>1, <1>2, <1>3, <1>4, <1>5, <1>6, GivenFlows, PTL DEF Spec

-----------------------------------------------------------------------------
(* The balls around the source.                                            *)

\* The vertices that are near, and those one edge further.
Grown(near) == near \cup {w \in Vertex : \E u \in near : BFS!Edge(u, w)}

\* The recursive definition of the balls around the source.
LEMMA BallFacts ==
  /\ BFS!Ball[0] = {Source}
  /\ \A n \in Nat : BFS!Ball[n + 1] = Grown(BFS!Ball[n])
<1> DEFINE U == SUBSET Vertex
           G == [near \in U |-> Grown(near)]
<1>1. {Source} \in U
  BY SearchAssumption
<1>2. G \in [U -> U]
  BY DEF Grown
<1>3. \A near \in U : G[near] = Grown(near)
  OBVIOUS
<1> HIDE DEF G, U
<1>4. PICK b \in [Nat -> U] : b[0] = {Source} /\ \A n \in Nat : b[n + 1] = G[b[n]]
  BY <1>1, <1>2, Recursion
<1>5. \A n \in Nat : b[n] = IF n = 0 THEN {Source} ELSE Grown(b[n - 1])
  <2> SUFFICES ASSUME NEW n \in Nat, n # 0 PROVE b[n] = Grown(b[n - 1])
    BY <1>4
  <2>1. n - 1 \in Nat /\ (n - 1) + 1 = n
    OBVIOUS
  <2>2. b[n - 1] \in U
    BY <1>4, <2>1
  <2> QED
    BY <1>3, <1>4, <2>1, <2>2
<1>6. b = [n \in Nat |-> IF n = 0 THEN {Source} ELSE Grown(b[n - 1])]
  BY <1>4, <1>5
<1>7. BFS!Ball = [n \in Nat |-> IF n = 0 THEN {Source} ELSE Grown(BFS!Ball[n - 1])]
  BY <1>6 DEF BFS!Ball, Grown
<1>8. ASSUME NEW n \in Nat PROVE BFS!Ball[n + 1] = Grown(BFS!Ball[n])
  <2>1. n + 1 \in Nat /\ n + 1 # 0 /\ n + 1 - 1 = n
    OBVIOUS
  <2> QED
    BY <1>7, <2>1
<1> QED
  BY <1>7, <1>8

-----------------------------------------------------------------------------
(* The visitor queue of breadth-first search alone, and its flow.          *)

BfsData == [program : {"bfs"}, d : BFS!Data]
BfsWork == [BFS!Start EXCEPT !.data = [r \in Rank |-> [program |-> "bfs", d |-> @[r]]]]

\* What a copy holds, what a visitor brings, and what an edge offers.
HeldLevel(a, u) == BFS!Held(a.d, u)
CarriedLevel(v) == BFS!Carried(v)
StoredTargets(r, u) == {w \in Vertex : Stores(r, u, w)}
NextLevel(u, w, l) == l + 1
Highest(u) == BFS!Unvisited

BQ == INSTANCE ReplicaFilter_proofs
       WITH InitVisit <- Visit, Payload <- BFS!Value, AlgData <- BfsData, InitialWork <- {BfsWork},
            Held <- HeldLevel, Carried <- CarriedLevel, Passes <- Vertex

First == NewVisitor(Source, [level |-> 0, parent |-> Source])
Seed == [rank |-> 0, step |-> "call", visitor |-> First]

\* A level is right for its vertex, or the largest number; a visitor that has
\* passed pre_visit brings less than that.  Its parent is one step nearer.
Near(u, l) == u \in BFS!Ball[l]
RightParent(u, l, p) ==
  p \in Vertex /\ (u = Source \/ (l > 0 /\ BFS!Edge(p, u) /\ Near(p, l - 1)))
Right(v) == Near(v.vertex, v.val.level) /\ RightParent(v.vertex, v.val.level, v.val.parent)
SoundVisitors == {v \in BQ!Visitor : v.val.level # BFS!Unvisited => Right(v)}
SoundVisits == {v \in BQ!Visitor : v.val.level # BFS!Unvisited /\ Right(v)}
SoundLevels ==
  {a \in BfsData : \A u \in Vertex : a.d.level[u] # BFS!Unvisited => Near(u, a.d.level[u])}

BR == INSTANCE Relaxation_proofs
       WITH items <- BQ!Items, Visitor <- BQ!Visitor, AlgData <- BfsData, InitVisit <- Visit,
            Held <- HeldLevel, Carried <- CarriedLevel, Passes <- Vertex, Targets <- StoredTargets,
            Offer <- NextLevel, Ceiling <- Highest, Writes <- TRUE, Seeds <- {Seed},
            Sound <- SoundVisitors, SoundVisit <- SoundVisits, SoundData <- SoundLevels

Bfs == Init /\ Runs("bfs") /\ [][Next]_vars

\* Levels are numbers.
LEMMA LevelFacts ==
  /\ BFS!Unvisited \in Nat /\ BFS!Unvisited >= 1
  /\ BFS!Level = 0..BFS!Unvisited
  /\ 2 ^ LevelBits = BFS!Unvisited + 1
<1>1. 2 ^ LevelBits \in Nat /\ 2 ^ LevelBits # 0 /\ 2 ^ LevelBits # 1
  BY SearchAssumption
<1> DEFINE k == 2 ^ LevelBits
<1>2. k \in Nat /\ k # 0 /\ k # 1
  BY <1>1
<1>3. BFS!Unvisited = k - 1
  BY DEF BFS!Unvisited
<1> HIDE DEF k
<1>4. BFS!Unvisited \in Nat /\ BFS!Unvisited >= 1 /\ k = BFS!Unvisited + 1
  BY <1>2, <1>3
<1> QED
  BY <1>4 DEF BFS!Level, k

\* What pre_visit and visit return.
LEMMA BfsPreVisit ==
  ASSUME NEW r \in Rank, NEW a \in BfsData, NEW v \in BQ!Visitor, NEW out \in PreVisit(r, a, v)
  PROVE  /\ out \in [ret : BOOLEAN, data : BfsData]
         /\ out.ret <=> v.val.level < a.d.level[v.vertex]
         /\ \A u \in Vertex : out.data.d.level[u] =
              IF out.ret /\ u = v.vertex THEN v.val.level ELSE a.d.level[u]
         /\ out.data.d.parent = a.d.parent
<1> DEFINE p == BFS!PreVisit(a.d, v)
           d == a.d
           better == d.level[v.vertex] > v.val.level
<1>1. a.program = "bfs" /\ d \in BFS!Data
  BY DEF BfsData
<1>2. v.vertex \in Vertex /\ v.val.level \in BFS!Level
  BY DEF BQ!Visitor, BFS!Value
<1>3. p = [ret |-> better, data |-> IF better THEN [d EXCEPT !.level[v.vertex] = v.val.level] ELSE d]
  BY DEF BFS!PreVisit
<1>4. PreVisit(r, a, v) = {[p EXCEPT !.data = [program |-> "bfs", d |-> p.data]]}
  BY <1>1 DEF PreVisit, Tagged
<1>0. better \in BOOLEAN
  OBVIOUS
<1> HIDE DEF p
<1>5. out = [ret |-> better, data |-> [program |-> "bfs", d |-> p.data]]
  BY <1>3, <1>4
<1>6. /\ d.level \in [Vertex -> BFS!Level] /\ d.parent \in [Vertex -> Vertex \cup {NoParent}]
      /\ d = [level |-> d.level, parent |-> d.parent]
  BY <1>1 DEF BFS!Data
<1> HIDE DEF d, better
<1>7. p.data = [level |-> IF better THEN [d.level EXCEPT ![v.vertex] = v.val.level] ELSE d.level,
                parent |-> d.parent]
  BY <1>3, <1>6
<1>8. p.data \in BFS!Data
  BY <1>2, <1>6, <1>7 DEF BFS!Data
<1>9. out \in [ret : BOOLEAN, data : BfsData] /\ (out.ret <=> better) /\ out.data.d = p.data
  BY <1>0, <1>5, <1>8 DEF BfsData
<1>10. d.level[v.vertex] \in Nat /\ v.val.level \in Nat
  BY <1>2, <1>6, LevelFacts
<1>11. better <=> v.val.level < d.level[v.vertex]
  BY <1>10 DEF better
<1>12. \A u \in Vertex : p.data.level[u] = IF better /\ u = v.vertex THEN v.val.level ELSE d.level[u]
  BY <1>2, <1>6, <1>7
<1>13. p.data.parent = d.parent
  BY <1>7
<1> QED
  BY <1>9, <1>11, <1>12, <1>13 DEF d

\* The vertices that a visit sends visitors to.
Addressed(out) == {out.spawn[i].vertex : i \in DOMAIN out.spawn}

LEMMA BfsVisit ==
  ASSUME NEW r \in Rank, NEW a \in BfsData, NEW v \in BQ!Visitor, NEW out \in Visit(r, a, v)
  PROVE  /\ out \in [ret : BOOLEAN, data : BfsData, spawn : Seq(BQ!Visitor)]
         /\ out.ret <=> v.val.level <= a.d.level[v.vertex]
         /\ \A u \in Vertex : out.data.d.level[u] =
              IF out.ret /\ u = v.vertex THEN v.val.level ELSE a.d.level[u]
         /\ \A u \in Vertex : out.data.d.parent[u] =
              IF out.ret /\ u = v.vertex THEN v.val.parent ELSE a.d.parent[u]
         /\ \A i \in DOMAIN out.spawn :
              /\ out.ret /\ ~out.spawn[i].bcast
              /\ Stores(r, v.vertex, out.spawn[i].vertex)
              /\ out.spawn[i].val.level =
                   IF v.val.level = BFS!Unvisited THEN 0 ELSE v.val.level + 1
              /\ out.spawn[i].val.parent = v.vertex
         /\ out.ret => StoredTargets(r, v.vertex) \subseteq Addressed(out)
<1> DEFINE p == BFS!Visit(r, a.d, v)
           d == a.d
           u == v.vertex
           l == v.val.level
           near == l <= d.level[u]
           list == Stored[r][u]
           level == (l + 1) % 2 ^ LevelBits
           val == [w \in Vertex |-> [level |-> level, parent |-> u]]
           new == BFS!ToNeighbours(r, u, val)
           next == IF l = BFS!Unvisited THEN 0 ELSE l + 1
<1>1. a.program = "bfs" /\ d \in BFS!Data
  BY DEF BfsData
<1>2. u \in Vertex /\ l \in BFS!Level /\ v.val.parent \in Vertex
  BY DEF BQ!Visitor, BFS!Value
<1>3. p = IF near
          THEN [ret |-> TRUE, data |-> [d EXCEPT !.level[u] = l, !.parent[u] = v.val.parent],
                spawn |-> new]
          ELSE [ret |-> FALSE, data |-> d, spawn |-> << >>]
  BY DEF BFS!Visit
<1>4. Visit(r, a, v) = {[p EXCEPT !.data = [program |-> "bfs", d |-> p.data]]}
  BY <1>1 DEF Visit, Tagged
<1>5. /\ d.level \in [Vertex -> BFS!Level] /\ d.parent \in [Vertex -> Vertex \cup {NoParent}]
      /\ d = [level |-> d.level, parent |-> d.parent]
  BY <1>1 DEF BFS!Data
<1>6. list \in Seq(Vertex)
  BY <1>2, Partition
<1>7. level = next /\ next \in BFS!Level
  <2>1. l \in 0..BFS!Unvisited
    BY <1>2, LevelFacts
  <2> DEFINE k == 2 ^ LevelBits
  <2>2. k = BFS!Unvisited + 1 /\ BFS!Unvisited \in Nat
    BY LevelFacts
  <2> HIDE DEF k
  <2>3. CASE l = BFS!Unvisited
    <3>1. (l + 1) % k = 0
      BY <2>1, <2>2, <2>3
    <3> QED
      BY <2>1, <2>2, <2>3, <3>1, LevelFacts DEF k
  <2>4. CASE l # BFS!Unvisited
    <3>1. l + 1 \in 0..BFS!Unvisited
      BY <2>1, <2>2, <2>4
    <3>2. (l + 1) % k = l + 1
      BY <2>2, <3>1
    <3> QED
      BY <2>4, <3>1, <3>2, LevelFacts DEF k
  <2> QED
    BY <2>3, <2>4
<1> HIDE DEF p, next, level
<1>8. \A i \in DOMAIN list :
        BFS!NewVisitor(list[i], val[list[i]]) =
          [vertex |-> list[i], bcast |-> FALSE, val |-> [level |-> next, parent |-> u]]
  <2>1. \A i \in DOMAIN list : list[i] \in Vertex
    BY <1>6
  <2> HIDE DEF list
  <2>2. \A w \in Vertex : val[w] = [level |-> next, parent |-> u]
    BY <1>7
  <2> HIDE DEF val
  <2> QED
    BY <2>1, <2>2 DEF BFS!NewVisitor
<1>9. new = [i \in DOMAIN list |-> [vertex |-> list[i], bcast |-> FALSE,
                                    val |-> [level |-> next, parent |-> u]]]
  BY <1>8 DEF BFS!ToNeighbours
<1>10. \A i \in DOMAIN list : [vertex |-> list[i], bcast |-> FALSE,
                               val |-> [level |-> next, parent |-> u]] \in BQ!Visitor
  BY <1>2, <1>6, <1>7 DEF BQ!Visitor, BFS!Value
<1>0. near \in BOOLEAN
  OBVIOUS
<1> HIDE DEF new, d, list, near
<1>11. new \in Seq(BQ!Visitor) /\ DOMAIN new = DOMAIN list
  BY <1>6, <1>9, <1>10
<1>12. out = [ret |-> p.ret, data |-> [program |-> "bfs", d |-> p.data], spawn |-> p.spawn]
  BY <1>3, <1>4
<1>13. /\ p.ret = near /\ p.spawn = IF near THEN new ELSE << >>
       /\ p.data = [level |-> IF near THEN [d.level EXCEPT ![u] = l] ELSE d.level,
                    parent |-> IF near THEN [d.parent EXCEPT ![u] = v.val.parent] ELSE d.parent]
  BY <1>0, <1>3, <1>5 DEF d
<1>14. p.data \in BFS!Data
  BY <1>2, <1>5, <1>13 DEF BFS!Data
<1>15. /\ out \in [ret : BOOLEAN, data : BfsData, spawn : Seq(BQ!Visitor)]
       /\ out.ret = near /\ out.data.d = p.data /\ out.spawn = IF near THEN new ELSE << >>
  <2>1. p.spawn \in Seq(BQ!Visitor) /\ p.ret \in BOOLEAN
    BY <1>0, <1>11, <1>13
  <2>2. [program |-> "bfs", d |-> p.data] \in BfsData
    BY <1>14 DEF BfsData
  <2>3. out \in [ret : BOOLEAN, data : BfsData, spawn : Seq(BQ!Visitor)]
    BY <1>12, <2>1, <2>2
  <2>4. out.ret = p.ret /\ out.data.d = p.data /\ out.spawn = p.spawn
    BY <1>12
  <2> QED
    BY <1>13, <2>3, <2>4
<1>16. \A w \in Vertex : p.data.level[w] = IF near /\ w = u THEN l ELSE d.level[w]
  BY <1>2, <1>5, <1>13
<1>17. \A i \in DOMAIN out.spawn :
         /\ near /\ i \in DOMAIN list /\ ~out.spawn[i].bcast /\ out.spawn[i].vertex = list[i]
         /\ out.spawn[i].val.level = next /\ out.spawn[i].val.parent = u
  BY <1>9, <1>11, <1>15
<1>18. near => \A i \in DOMAIN list : i \in DOMAIN out.spawn /\ out.spawn[i].vertex = list[i]
  BY <1>9, <1>11, <1>15
<1>19. \A i \in DOMAIN list : Stores(r, u, list[i])
  BY DEF Stores, list
<1>20. \A w \in StoredTargets(r, u) : \E i \in DOMAIN list : list[i] = w
  BY DEF StoredTargets, Stores, list
<1>21. \A w \in Vertex : p.data.parent[w] = IF near /\ w = u THEN v.val.parent ELSE d.parent[w]
  BY <1>2, <1>5, <1>13
<1> QED
  BY <1>15, <1>16, <1>17, <1>18, <1>19, <1>20, <1>21 DEF d, next, near, Addressed

\* The work that breadth-first search begins with.
LEMMA BfsStart ==
  /\ First \in BQ!Visitor /\ ~First.bcast /\ First.vertex = Source
  /\ First.val.level = 0 /\ First.val.parent = Source
  /\ BfsWork = [citr |-> BfsWork.citr, vitr |-> BfsWork.vitr, source |-> BfsWork.source,
                data |-> BfsWork.data]
  /\ BfsWork.citr = [r \in Rank |-> << >>] /\ BfsWork.vitr = [r \in Rank |-> << >>]
  /\ BfsWork.source \in [Rank -> Seq(BQ!Visitor)]
  /\ \A r \in Rank : BfsWork.source[r] = IF r = 0 THEN <<First>> ELSE << >>
  /\ BfsWork.data \in [Rank -> BfsData]
  /\ \A r \in Rank, u \in Vertex : 
       BfsWork.data[r].d.level[u] = BFS!Unvisited /\ BfsWork.data[r].d.parent[u] = NoParent
<1> DEFINE blank == [level |-> [v \in Vertex |-> BFS!Unvisited], parent |-> [v \in Vertex |-> NoParent]]
           sources == [Silent EXCEPT ![0] = <<First>>]
<1>1. BFS!Start = [citr |-> Silent, vitr |-> Silent, source |-> sources,
                   data |-> [r \in Rank |-> blank]]
  BY DEF BFS!Start, BFS!FromSource, BFS!Silent, Silent, First, BFS!NewVisitor, NewVisitor
<1>2. blank \in BFS!Data
      /\ \A u \in Vertex : blank.level[u] = BFS!Unvisited /\ blank.parent[u] = NoParent
  BY LevelFacts DEF BFS!Data
<1>3. /\ First \in BQ!Visitor /\ ~First.bcast /\ First.vertex = Source
      /\ First.val.level = 0 /\ First.val.parent = Source
  BY SearchAssumption, LevelFacts DEF First, NewVisitor, BQ!Visitor, BFS!Value
<1>4. sources \in [Rank -> Seq(BQ!Visitor)] /\ \A r \in Rank : sources[r] = IF r = 0 THEN <<First>> ELSE << >>
  <2>1. <<First>> \in Seq(BQ!Visitor) /\ << >> \in Seq(BQ!Visitor)
    BY <1>3
  <2>2. PICK one \in Seq(BQ!Visitor) : one = <<First>>
    BY <2>1
  <2>3. PICK none \in Seq(BQ!Visitor) : none = << >>
    BY <2>1
  <2>4. sources = [[r \in Rank |-> none] EXCEPT ![0] = one]
    BY <2>2, <2>3 DEF Silent
  <2> HIDE DEF sources
  <2>5. /\ sources \in [Rank -> Seq(BQ!Visitor)]
        /\ \A r \in Rank : sources[r] = IF r = 0 THEN one ELSE none
    BY <2>4, Partition
  <2> QED
    BY <2>2, <2>3, <2>5
<1> HIDE DEF blank, sources
<1>5. BfsWork = [citr |-> Silent, vitr |-> Silent, source |-> sources,
                 data |-> [r \in Rank |-> [program |-> "bfs", d |-> blank]]]
  BY <1>1 DEF BfsWork
<1>6. [program |-> "bfs", d |-> blank] \in BfsData
  BY <1>2 DEF BfsData
<1> QED
  BY <1>2, <1>3, <1>4, <1>5, <1>6 DEF Silent

\* What the proofs about the visitor queue assume.
LEMMA QueueAssumed ==
  BQ!TopologyAssumption /\ BQ!AlgorithmAssumption /\ BQ!InitialWorkAssumption
<1>1. BQ!TopologyAssumption
  BY GraphAssumption DEF BQ!TopologyAssumption
<1>2. BQ!AlgorithmAssumption
  BY BfsPreVisit, BfsVisit DEF BQ!AlgorithmAssumption
<1>3. BQ!InitialWorkAssumption
  <2>1. BfsWork \in [citr : [Rank -> Seq(BQ!Visitor)], vitr : [Rank -> Seq(BQ!Visitor)],
                     source : [Rank -> Seq(BQ!Visitor)], data : [Rank -> BfsData]]
    <3>1. [r \in Rank |-> << >>] \in [Rank -> Seq(BQ!Visitor)]
      OBVIOUS
    <3> QED
      BY <3>1, BfsStart
  <2> QED
    BY <2>1 DEF BQ!InitialWorkAssumption
<1> QED
  BY <1>1, <1>2, <1>3

LEMMA BfsIsPlain == BQ!NewVisitorsArePlain
<1>1. \A i \in DOMAIN <<First>> : <<First>>[i] = First
  OBVIOUS
<1>2. \A r \in Rank : \A i \in DOMAIN BfsWork.source[r] : ~BfsWork.source[r][i].bcast
  BY <1>1, BfsStart
<1>3. ASSUME NEW r \in Rank, NEW a \in BfsData, NEW v \in BQ!Visitor, NEW out \in Visit(r, a, v),
             NEW i \in DOMAIN out.spawn
      PROVE  ~out.spawn[i].bcast
  BY BfsVisit
<1> QED
  BY <1>2, <1>3 DEF BQ!NewVisitorsArePlain

\* Breadth-first search relaxes.
LEMMA BfsRelaxes == BR!Relaxes
<1>1. BR!GraphType
  <2>1. \A v \in BQ!Visitor :
          /\ v.vertex \in Vertex /\ CarriedLevel(v) \in Nat
          /\ LET b == [v EXCEPT !.bcast = TRUE]
             IN  b \in BQ!Visitor /\ b.vertex = v.vertex /\ CarriedLevel(b) = CarriedLevel(v)
    <3> SUFFICES ASSUME NEW v \in BQ!Visitor
                 PROVE  /\ v.vertex \in Vertex /\ v.val.level \in Nat
                        /\ LET b == [v EXCEPT !.bcast = TRUE]
                           IN  b \in BQ!Visitor /\ b.vertex = v.vertex /\ b.val = v.val
      BY DEF CarriedLevel, BFS!Carried
    <3>1. v.vertex \in Vertex /\ v.val.level \in BFS!Level
      BY DEF BQ!Visitor, BFS!Value
    <3>2. LET b == [v EXCEPT !.bcast = TRUE]
          IN  b \in BQ!Visitor /\ b.vertex = v.vertex /\ b.val = v.val
      BY DEF BQ!Visitor
    <3> QED
      BY <3>1, <3>2, LevelFacts
  <2>2. \A a \in BfsData, u \in Vertex : HeldLevel(a, u) \in Nat
    BY LevelFacts DEF BfsData, BFS!Data, HeldLevel, BFS!Held
  <2> QED
    <3>1. /\ \A r \in Rank, u \in Vertex : StoredTargets(r, u) \subseteq Vertex
          /\ \A u, w \in Vertex, c \in Nat : NextLevel(u, w, c) \in Nat
          /\ \A u \in Vertex : Highest(u) \in Nat
      BY LevelFacts DEF StoredTargets, NextLevel, Highest
    <3> QED
      BY <2>1, <2>2, <3>1, Partition DEF BR!GraphType
<1>2. BR!PreVisitLowers
  <2> SUFFICES ASSUME NEW r \in Rank, NEW a \in BfsData, NEW v \in BQ!Visitor, NEW out \in PreVisit(r, a, v)
               PROVE  /\ out.data \in BfsData
                      /\ out.ret <=> v.vertex \in Vertex /\ CarriedLevel(v) < HeldLevel(a, v.vertex)
                      /\ \A u \in Vertex :
                           HeldLevel(out.data, u) = IF out.ret /\ u = v.vertex THEN CarriedLevel(v)
                                                    ELSE HeldLevel(a, u)
    BY DEF BR!PreVisitLowers
  <2>1. v.vertex \in Vertex
    BY DEF BQ!Visitor
  <2> QED
    BY <2>1, BfsPreVisit DEF HeldLevel, CarriedLevel, BFS!Held, BFS!Carried
<1>3. BR!VisitOffers
  <2> SUFFICES ASSUME NEW r \in Rank, NEW a \in BfsData, NEW v \in BQ!Visitor, NEW out \in Visit(r, a, v)
               PROVE  /\ out.data \in BfsData
                      /\ \A i \in DOMAIN out.spawn : out.spawn[i] \in BQ!Visitor
                      /\ out.ret <=> v.vertex \in Vertex /\ CarriedLevel(v) <= HeldLevel(a, v.vertex)
                      /\ \A u \in Vertex :
                           HeldLevel(out.data, u) = IF out.ret /\ TRUE /\ u = v.vertex
                                                    THEN CarriedLevel(v) ELSE HeldLevel(a, u)
                      /\ out.ret => \A w \in StoredTargets(r, v.vertex) :
                           \/ Highest(w) <= NextLevel(v.vertex, w, CarriedLevel(v))
                           \/ \E i \in DOMAIN out.spawn :
                                /\ out.spawn[i].vertex = w
                                /\ CarriedLevel(out.spawn[i]) <= NextLevel(v.vertex, w, CarriedLevel(v))
    BY DEF BR!VisitOffers
  <2>1. v.vertex \in Vertex /\ v.val.level \in Nat
    BY LevelFacts DEF BQ!Visitor, BFS!Value
  <2>2. \A i \in DOMAIN out.spawn : out.spawn[i].val.level <= v.val.level + 1
    BY <2>1, BfsVisit
  <2>3. out.spawn \in Seq(BQ!Visitor) /\ out.data \in BfsData
    BY BfsVisit
  <2>4. \A i \in DOMAIN out.spawn : out.spawn[i] \in BQ!Visitor
    BY <2>3
  <2>5. out.ret => \A w \in StoredTargets(r, v.vertex) : \E i \in DOMAIN out.spawn :
          out.spawn[i].vertex = w /\ CarriedLevel(out.spawn[i]) <= NextLevel(v.vertex, w, CarriedLevel(v))
    <3> SUFFICES ASSUME out.ret, NEW w \in StoredTargets(r, v.vertex)
                 PROVE  \E i \in DOMAIN out.spawn :
                          out.spawn[i].vertex = w /\ out.spawn[i].val.level <= v.val.level + 1
      BY DEF CarriedLevel, BFS!Carried, NextLevel
    <3>1. w \in Addressed(out)
      BY BfsVisit
    <3>2. PICK i \in DOMAIN out.spawn : out.spawn[i].vertex = w
      BY <3>1 DEF Addressed
    <3> QED
      BY <2>2, <3>2
  <2>6. /\ out.ret <=> CarriedLevel(v) <= HeldLevel(a, v.vertex)
        /\ \A u \in Vertex : HeldLevel(out.data, u) =
             IF out.ret /\ u = v.vertex THEN CarriedLevel(v) ELSE HeldLevel(a, u)
    BY BfsVisit DEF HeldLevel, CarriedLevel, BFS!Held, BFS!Carried
  <2> QED
    BY <2>1, <2>3, <2>4, <2>5, <2>6
<1> QED
  BY <1>1, <1>2, <1>3 DEF BR!Relaxes

\* A visitor's level is one more than a distance, so never too low.
LEMMA NearNext ==
  ASSUME NEW r \in Rank, NEW u \in Vertex, NEW w \in Vertex, Stores(r, u, w), NEW l \in Nat, Near(u, l)
  PROVE  Near(w, l + 1) /\ BFS!Edge(u, w)
<1>1. BFS!Edge(u, w)
  BY DEF BFS!Edge, BFS!Stores, Stores
<1> QED
  BY <1>1, BallFacts DEF Near, Grown

LEMMA BfsStaysSound ==
  /\ BR!StaysSound
  /\ \A v \in SoundVisitors : v.vertex \in Vertex
<1>1. ASSUME NEW r \in Rank, NEW a \in SoundLevels, NEW v \in SoundVisitors, NEW out \in PreVisit(r, a, v)
      PROVE  out.data \in SoundLevels /\ (out.ret => v \in SoundVisits)
  <2>1. a \in BfsData /\ v \in BQ!Visitor
    BY DEF SoundLevels, SoundVisitors
  <2>2. out.data \in BfsData /\ (out.ret <=> v.val.level < a.d.level[v.vertex])
        /\ \A u \in Vertex : out.data.d.level[u] =
              IF out.ret /\ u = v.vertex THEN v.val.level ELSE a.d.level[u]
    BY <2>1, BfsPreVisit
  <2>3. v.vertex \in Vertex /\ a.d.level[v.vertex] \in BFS!Level /\ v.val.level \in BFS!Level
    BY <2>1 DEF BQ!Visitor, BFS!Value, BfsData, BFS!Data
  <2>4. out.ret => v \in SoundVisits
    BY <2>1, <2>2, <2>3, LevelFacts DEF SoundVisitors, SoundVisits
  <2> QED
    BY <2>2, <2>4 DEF SoundLevels, SoundVisits, Right
<1>2. ASSUME NEW r \in Rank, NEW a \in SoundLevels, NEW v \in SoundVisits, NEW out \in Visit(r, a, v)
      PROVE  out.data \in SoundLevels /\ \A i \in DOMAIN out.spawn : out.spawn[i] \in SoundVisitors
  <2>1. a \in BfsData /\ v \in BQ!Visitor
    BY DEF SoundLevels, SoundVisits
  <2>2. /\ out.data \in BfsData
        /\ \A u \in Vertex : out.data.d.level[u] =
              IF out.ret /\ u = v.vertex THEN v.val.level ELSE a.d.level[u]
        /\ out.spawn \in Seq(BQ!Visitor)
        /\ \A i \in DOMAIN out.spawn :
              /\ Stores(r, v.vertex, out.spawn[i].vertex)
              /\ out.spawn[i].val.level =
                   IF v.val.level = BFS!Unvisited THEN 0 ELSE v.val.level + 1
              /\ out.spawn[i].val.parent = v.vertex
    BY <2>1, BfsVisit
  <2>3. v.vertex \in Vertex /\ v.val.level \in Nat
    BY <2>1, LevelFacts DEF BQ!Visitor, BFS!Value
  <2>4. ASSUME NEW i \in DOMAIN out.spawn PROVE out.spawn[i] \in SoundVisitors
    <3>1. out.spawn[i] \in BQ!Visitor /\ out.spawn[i].vertex \in Vertex
      <4>1. out.spawn[i] \in BQ!Visitor
        BY <2>2
      <4> QED
        BY <4>1 DEF BQ!Visitor
    <3>2. v.val.level # BFS!Unvisited /\ Near(v.vertex, v.val.level)
      BY DEF SoundVisits, Right
    <3>3. /\ Near(out.spawn[i].vertex, v.val.level + 1)
          /\ BFS!Edge(v.vertex, out.spawn[i].vertex)
      BY <2>2, <2>3, <3>1, <3>2, NearNext
    <3>4. v.val.level + 1 > 0 /\ (v.val.level + 1) - 1 = v.val.level
      BY <2>3
    <3>5. RightParent(out.spawn[i].vertex, v.val.level + 1, v.vertex)
      BY <2>3, <3>2, <3>3, <3>4 DEF RightParent
    <3>6. out.spawn[i].val.level = v.val.level + 1 /\ out.spawn[i].val.parent = v.vertex
      BY <2>2, <3>2
    <3> QED
      BY <3>1, <3>3, <3>5, <3>6 DEF SoundVisitors, Right
  <2> QED
    BY <2>2, <2>4 DEF SoundLevels, SoundVisits, Right
<1>3. ASSUME NEW v \in SoundVisits PROVE v \in SoundVisitors /\ [v EXCEPT !.bcast = TRUE] \in SoundVisits
  BY DEF SoundVisits, SoundVisitors, Right, BQ!Visitor
<1> QED
  BY <1>1, <1>2, <1>3 DEF BR!StaysSound, SoundVisitors, BQ!Visitor

-----------------------------------------------------------------------------
(* A traversal that runs breadth-first search is one of its visitor queue. *)

\* Steps do not depend on which visitors and data there may be.
LEMMA SameNext ==
  [Next]_vars => [BQ!Next]_(BQ!vars)
<1>1. \A r \in Rank :
        /\ StartController(r) => BQ!StartController(r)
        /\ StartVertex(r) => BQ!StartVertex(r)
  BY Zenon DEF StartController, BQ!StartController, StartVertex, BQ!StartVertex,
         StartVisit, BQ!StartVisit, VisitOps, BQ!VisitOps, Queue, BQ!Queue, Idle,
         BQ!Idle, Running, BQ!Running, mailbox, BQ!mailbox
<1>2. \A r \in Rank :
        /\ ProcessPendingController(r) => BQ!ProcessPendingController(r)
        /\ EndPending(r) => BQ!EndPending(r)
        /\ WhileNotEmpty(r) => BQ!WhileNotEmpty(r)
        /\ NextStart(r) => BQ!NextStart(r)
  BY Zenon DEF ProcessPendingController, BQ!ProcessPendingController, EndPending,
         BQ!EndPending, WhileNotEmpty, BQ!WhileNotEmpty, NextStart, BQ!NextStart, Queue,
         BQ!Queue, Idle, BQ!Idle, Running, BQ!Running, Empty, BQ!Empty, mailbox,
         BQ!mailbox, EmptyBag, BQ!EmptyBag, SetToBag, BQ!SetToBag
<1>3. \A r \in Rank :
        /\ PopAndVisit(r) => BQ!PopAndVisit(r)
        /\ PopOfEmptyQueue(r) => BQ!PopOfEmptyQueue(r)
  BY Zenon DEF PopAndVisit, BQ!PopAndVisit, PopOfEmptyQueue, BQ!PopOfEmptyQueue,
         VisitOps, BQ!VisitOps, Queue, BQ!Queue, Idle, BQ!Idle, Running, BQ!Running,
         mailbox, BQ!mailbox, Remove, BQ!Remove, EmptyBag, BQ!EmptyBag, BagToSet,
         BQ!BagToSet, SetToBag, BQ!SetToBag, (-), BQ!(-)
<1>4. \A r \in Rank :
        /\ QueueVisitor(r) => BQ!QueueVisitor(r)
        /\ SendBcast(r) => BQ!SendBcast(r)
  BY Zenon DEF QueueVisitor, BQ!QueueVisitor, SendBcast, BQ!SendBcast, Performing,
         BQ!Performing, QueueHere, BQ!QueueHere, Push, BQ!Push, Send, BQ!Send, Running,
         BQ!Running, Add, BQ!Add, SetToBag, BQ!SetToBag, (+), BQ!(+)
<1>5. \A r \in Rank :
        /\ BatchFull(r) => BQ!BatchFull(r)
        /\ TestGlobalEmpty(r) => BQ!TestGlobalEmpty(r)
        /\ DestroyMailbox(r) => BQ!DestroyMailbox(r)
  BY Zenon DEF BatchFull, BQ!BatchFull, TestGlobalEmpty, BQ!TestGlobalEmpty,
         DestroyMailbox, BQ!DestroyMailbox, EnterExchange, BQ!EnterExchange, Idle,
         BQ!Idle, Running, BQ!Running, Empty, BQ!Empty, local, BQ!local, Slot, BQ!Slot,
         EmptyBag, BQ!EmptyBag, SetToBag, BQ!SetToBag, (+), BQ!(+)
<1>6. \A r \in Rank :
        /\ Deliver(r) => BQ!Deliver(r)
        /\ FinishExchange(r) => BQ!FinishExchange(r)
  BY Zenon DEF Deliver, BQ!Deliver, FinishExchange, BQ!FinishExchange,
         HandleMailboxReceive, BQ!HandleMailboxReceive, Push, BQ!Push, AllEntered,
         BQ!AllEntered, Return, BQ!Return, TotalIsZero, BQ!TotalIsZero, Slot, BQ!Slot,
         Add, BQ!Add, Remove, BQ!Remove, EmptyBag, BQ!EmptyBag, BagToSet, BQ!BagToSet,
         SetToBag, BQ!SetToBag, (+), BQ!(+), (-), BQ!(-)
<1> QED
  BY Zenon, <1>1, <1>2, <1>3, <1>4, <1>5, <1>6 DEF vars, BQ!vars, Next, BQ!Next, Step,
         BQ!Step, Done, BQ!Done, Aborted, BQ!Aborted

\* A traversal of breadth-first search begins as its queue does.
LEMMA BfsOrOther == Init => BQ!Init \/ Others("bfs")
<1> SUFFICES ASSUME Init, ~Others("bfs") PROVE BQ!Init
  OBVIOUS
<1>1. PICK w : Begins("bfs", w)
  BY OneProgram DEF Others
<1>2. \A vs : BQ!Queue(vs) = Queue(vs)
  BY DEF BQ!Queue, Queue
<1>3. BQ!EmptyBag = EmptyBag
  BY DEF BQ!EmptyBag, EmptyBag, BQ!SetToBag, SetToBag
<1>4. \E x \in {BfsWork} : /\ citr = x.citr /\ vitr = x.vitr /\ data = x.data
                           /\ todo = [r \in Rank |-> BQ!Queue(x.source[r])]
  BY <1>1, <1>2 DEF Begins, BfsWork, StartOf
<1> QED
  BY <1>3, <1>4 DEF Init, BQ!Init

-----------------------------------------------------------------------------
(* The flow of breadth-first search.                                       *)

\* Rank 0 is about to queue the source's visitor, and nothing else waits.
LEMMA BfsBegins ==
  ASSUME BQ!Init
  PROVE  /\ BQ!Items = {Seed}
         /\ data \in [Rank -> BfsData]
         /\ \A r \in Rank, u \in Vertex :
              data[r].d.level[u] = BFS!Unvisited /\ data[r].d.parent[u] = NoParent
<1>1. /\ citr = BfsWork.citr /\ vitr = BfsWork.vitr /\ data = BfsWork.data
      /\ todo = [r \in Rank |-> BQ!Queue(BfsWork.source[r])]
  BY DEF BQ!Init
<1>2. \A x \in BQ!Items :
        \/ /\ x.step = "start"
           /\ x.visitor \in BQ!Elements(BfsWork.citr[x.rank]) \cup BQ!Elements(BfsWork.vitr[x.rank])
        \/ x.step = "call" /\ x.visitor \in BQ!Elements(BfsWork.source[x.rank])
  BY <1>1, BQ!InitItems, QueueAssumed
<1>3. BQ!Elements(<< >>) = {} /\ BQ!Elements(<<First>>) = {First}
  BY DEF BQ!Elements
<1>4. ASSUME NEW x \in BQ!Items PROVE x = Seed
  <2>1. x \in [rank : Rank, step : {"start", "call", "sent", "visit", "hear"}, visitor : BQ!Visitor]
    BY DEF BQ!Items
  <2>2. x.step = "call" /\ x.visitor \in BQ!Elements(BfsWork.source[x.rank])
    BY <1>2, <1>3, <2>1, BfsStart
  <2>3. x.rank = 0 /\ x.visitor = First
    BY <1>3, <2>1, <2>2, BfsStart
  <2> QED
    BY <2>1, <2>2, <2>3 DEF Seed
<1>5. Seed \in BQ!Items
  <2>1. 0 \in Rank /\ First \in BQ!Visitor /\ <<First>> \in Seq(BQ!Visitor)
    BY Partition, BfsStart
  <2>2. todo[0] = BQ!Queue(<<First>>)
    BY <1>1, <2>1, BfsStart
  <2>3. BQ!Those(BQ!Queue(<<First>>), "queue_visitor") = BQ!Elements(<<First>>)
    BY <2>1, BQ!ThoseOfQueue, QueueAssumed
  <2>4. First \in BQ!Calling(0)
    BY <1>3, <2>2, <2>3 DEF BQ!Calling
  <2> QED
    BY <2>1, <2>4 DEF BQ!Items, BQ!Waits, Seed
<1> QED
  BY <1>1, <1>4, <1>5, BfsStart

LEMMA BfsStarts ==
  ASSUME BQ!Init
  PROVE  BR!Starts /\ BR!SoundInv
<1>1. /\ BQ!Items = {Seed}
      /\ data \in [Rank -> BfsData]
      /\ \A r \in Rank, u \in Vertex : data[r].d.level[u] = BFS!Unvisited
  BY BfsBegins
<1>2. \A r \in Rank, u \in Vertex : BR!H(r, u) = BFS!Unvisited
  BY <1>1 DEF BR!H, HeldLevel, BFS!Held
<1>3. /\ Seed.rank = 0 /\ Seed.step = "call" /\ Seed.visitor = First
      /\ Seed \in BR!Item /\ First \in BQ!Visitor /\ First.vertex = Source /\ First.val.level = 0
  BY Partition, BfsStart DEF Seed, BR!Item
<1>4. \A u \in Vertex : Master[u] \in Rank
  BY Partition
<1>5. BFS!Unvisited <= BFS!Unvisited /\ BFS!Unvisited <= BFS!Unvisited + 1
  BY LevelFacts
<1>6. BR!Starts
  <2>1. BR!Init
    BY <1>1, <1>3 DEF BR!Init
  <2>2. {Seed} \subseteq BQ!Items /\ \A x \in {Seed} : x.step = "call" /\ x.visitor.vertex \in Vertex
    BY <1>1, <1>3, SearchAssumption
  <2>3. \A x \in BQ!Items : x.step # "start"
    BY <1>1, <1>3
  <2>4. \A u \in Vertex : BR!H(Master[u], u) <= Highest(u)
    BY <1>2, <1>4, <1>5 DEF Highest
  <2>5. \A h \in Delegate, r \in Rank : BR!H(Master[h], h) <= BR!H(r, h)
    BY <1>2, <1>4, <1>5, Partition
  <2>6. ASSUME NEW u \in Vertex, NEW r \in Rank
        PROVE  /\ BR!H(r, u) = BR!H(Master[u], u)
               /\ \A w \in StoredTargets(r, u) : Highest(w) <= NextLevel(u, w, BR!H(Master[u], u))
    BY <1>2, <1>4, <1>5 DEF Highest, NextLevel
  <2> QED
    BY <2>1, <2>2, <2>3, <2>4, <2>5, <2>6 DEF BR!Starts
<1>7. BR!SoundInv
  <2>1. data \in [Rank -> SoundLevels]
    BY <1>1 DEF SoundLevels
  <2>2. First \in SoundVisitors
    <3>1. /\ First.val.level = 0 /\ First.val.parent = Source /\ First.vertex = Source
          /\ First \in BQ!Visitor
      BY BfsStart
    <3>2. Near(Source, 0) /\ RightParent(Source, 0, Source)
      BY BallFacts, SearchAssumption DEF Near, RightParent
    <3> QED
      BY <3>1, <3>2 DEF SoundVisitors, Right
  <2> QED
    BY <1>1, <1>3, <2>1, <2>2, Partition DEF BR!SoundInv
<1> QED
  BY <1>6, <1>7

\* The steps of the queue's flow are those of the flow that relaxes.
LEMMA SameFlow ==
  [BQ!Flow!Next]_<<BQ!Items, data>> => [BR!Next]_<<BQ!Items, data>>
BY DEF BQ!Flow!Next, BR!Next, BQ!Flow!Start, BR!Start, BQ!Flow!Call, BR!Call, BQ!Flow!Receive, BR!Receive,
       BQ!Flow!Run, BR!Run, BQ!Flow!Hear, BR!Hear, BQ!Flow!Moves, BR!Moves, BQ!Flow!Became, BR!Became,
       BQ!Flow!Calls, BR!Calls, BQ!Flow!Broadcast, BR!Broadcast, BQ!Flow!At, BR!At

-----------------------------------------------------------------------------
(* Levels are distances.                                                   *)

\* Levels that no edge could lower are at most the distances.
LEMMA SettledLevels ==
  ASSUME NEW L, \A u \in Vertex : L[u] \in Nat, L[Source] <= 0,
         \A u, w \in Vertex : BFS!Edge(u, w) => L[w] <= L[u] + 1
  PROVE  \A n \in Nat : \A u \in BFS!Ball[n] : u \in Vertex /\ L[u] <= n
<1> DEFINE Bad == {n \in Nat : \E u \in BFS!Ball[n] : ~(u \in Vertex /\ L[u] <= n)}
<1> SUFFICES ASSUME Bad # {} PROVE FALSE
  OBVIOUS
<1>1. PICK n \in Bad : \A m \in Bad : n <= m
  <2>1. Bad \subseteq Nat
    OBVIOUS
  <2> HIDE DEF Bad
  <2> QED
    BY <2>1, Least
<1>2. PICK u \in BFS!Ball[n] : ~(u \in Vertex /\ L[u] <= n)
  OBVIOUS
<1>3. CASE n = 0
  BY <1>2, <1>3, BallFacts, SearchAssumption
<1>4. CASE n # 0
  <2>1. n - 1 \in Nat /\ ~(n <= n - 1) /\ n = (n - 1) + 1
    BY <1>4
  <2>2. \A w \in BFS!Ball[n - 1] : w \in Vertex /\ L[w] <= n - 1
    BY <1>1, <2>1
  <2>3. BFS!Ball[n] = Grown(BFS!Ball[n - 1])
    BY <2>1, BallFacts
  <2>4. CASE u \in BFS!Ball[n - 1]
    BY <1>2, <2>1, <2>2, <2>4
  <2>5. CASE u \notin BFS!Ball[n - 1]
    <3>1. u \in Vertex /\ \E w \in BFS!Ball[n - 1] : BFS!Edge(w, u)
      BY <2>3, <2>5 DEF Grown
    <3>2. PICK w \in BFS!Ball[n - 1] : BFS!Edge(w, u)
      BY <3>1
    <3>3. L[u] <= L[w] + 1 /\ L[w] <= n - 1 /\ L[w] \in Nat /\ L[u] \in Nat
      BY <2>2, <3>1, <3>2
    <3> QED
      BY <1>2, <2>1, <3>1, <3>3
  <2> QED
    BY <2>4, <2>5
<1> QED
  BY <1>3, <1>4

LEMMA SoundMeansNotTooLow ==
  ASSUME BR!SoundInv
  PROVE  LevelsNeverTooLow
<1>1. \A r \in Rank : data[r] \in SoundLevels
  BY DEF BR!SoundInv
<1> QED
  BY <1>1 DEF LevelsNeverTooLow, BFS!LevelNotTooLow, Result, SoundLevels, Near

LEMMA FinishedMeansEmpty ==
  ASSUME BQ!LeaveOnlyWhenQuiescent, Finished
  PROVE  BQ!Items = {}
<1>1. \E q \in Rank : BQ!HasLeft(q)
  BY Partition DEF Finished, HasLeft, BQ!HasLeft
<1> QED
  BY <1>1, BQ!QuiescentFlow, QueueAssumed DEF BQ!LeaveOnlyWhenQuiescent

\* No edge is left that could lower a level.
LEMMA SettledEdges ==
  ASSUME BR!Settled, NEW u \in Vertex, NEW w \in Vertex, BFS!Edge(u, w)
  PROVE  BR!H(Master[w], w) <= BR!H(Master[u], u) + 1
<1>1. PICK q \in Rank : Stores(q, u, w)
  BY DEF BFS!Edge, BFS!Stores, Stores
<1>2. BR!HoldsCopy(q, u)
  BY <1>1, Partition DEF BR!HoldsCopy, HoldsCopy
<1>3. w \in StoredTargets(q, u)
  BY <1>1 DEF StoredTargets
<1> QED
  BY <1>2, <1>3 DEF BR!Settled, NextLevel

LEMMA SettledBalls ==
  ASSUME BR!IInv, BR!Settled
  PROVE  \A n \in Nat : \A u \in BFS!Ball[n] : u \in Vertex /\ BR!H(Master[u], u) <= n
<1> DEFINE L == [u \in Vertex |-> BR!H(Master[u], u)]
<1>1. \A u \in Vertex : L[u] = BR!H(Master[u], u) /\ L[u] \in Nat
  BY BfsRelaxes, BR!HeldType, Partition DEF BR!IInv
<1> HIDE DEF L
<1>2. L[Source] <= 0
  <2>1. Seed.visitor.vertex = Source /\ CarriedLevel(Seed.visitor) = 0
    BY BfsStart DEF Seed, CarriedLevel, BFS!Carried
  <2>2. \A x \in {Seed} : BR!H(Master[x.visitor.vertex], x.visitor.vertex) <= CarriedLevel(x.visitor)
    BY DEF BR!Settled
  <2> QED
    BY <1>1, <2>1, <2>2, SearchAssumption
<1>3. \A u, w \in Vertex : BFS!Edge(u, w) => L[w] <= L[u] + 1
  BY <1>1, SettledEdges
<1>4. \A n \in Nat : \A u \in BFS!Ball[n] : u \in Vertex /\ L[u] <= n
  BY <1>1, <1>2, <1>3, SettledLevels
<1> QED
  BY <1>1, <1>4

LEMMA SettledMeansDistances ==
  ASSUME BR!IInv, BR!SoundInv, BQ!LeaveOnlyWhenQuiescent
  PROVE  LevelsAreDistances
<1> SUFFICES ASSUME Finished, NEW r \in Rank, NEW v \in Vertex, HoldsCopy(r, v)
             PROVE  BFS!LevelIsDistance(Result, r, v)
  BY DEF LevelsAreDistances
<1>1. BR!Settled
  BY FinishedMeansEmpty, BfsRelaxes, BR!EmptySettled
<1> DEFINE l == data[r].d.level[v]
<1>2. l = BR!H(Master[v], v) /\ l \in Nat
  <2>1. BR!HoldsCopy(r, v)
    BY DEF BR!HoldsCopy, HoldsCopy
  <2>2. BR!H(r, v) = BR!H(Master[v], v)
    BY <1>1, <2>1 DEF BR!Settled
  <2>3. BR!H(r, v) \in Nat
    BY BfsRelaxes, BR!HeldType DEF BR!IInv
  <2> QED
    BY <2>2, <2>3 DEF BR!H, HeldLevel, BFS!Held
<1>3. \A n \in Nat : v \in BFS!Ball[n] => l <= n
  BY <1>1, <1>2, SettledBalls
<1>4. l # BFS!Unvisited => v \in BFS!Ball[l]
  <2>1. data[r] \in SoundLevels
    BY DEF BR!SoundInv
  <2> QED
    BY <2>1 DEF SoundLevels, Near
<1>5. l = BFS!Unvisited => v \notin BFS!Ball[BFS!Unvisited - 1]
  <2>1. BFS!Unvisited - 1 \in Nat /\ ~(BFS!Unvisited <= BFS!Unvisited - 1)
    BY LevelFacts
  <2> QED
    BY <1>3, <2>1
<1>6. l > 0 => v \notin BFS!Ball[l - 1]
  <2> HIDE DEF l
  <2>1. l > 0 => l - 1 \in Nat /\ ~(l <= l - 1)
    BY <1>2
  <2> QED
    BY <1>3, <2>1
<1> QED
  BY <1>4, <1>5, <1>6 DEF BFS!LevelIsDistance, Result

\* A traversal of breadth-first search keeps the two invariants of its flow.
LEMMA BfsFlows == BQ!Init /\ [][Next]_vars => BQ!Spec /\ [][BR!Next]_<<BQ!Items, data>>
<1>1. BQ!Init /\ [][Next]_vars => BQ!Spec
  BY SameNext, PTL DEF BQ!Spec
<1>2. BQ!Spec => BQ!Flow!Spec
  BY BQ!VisitorsFlow, QueueAssumed, BfsIsPlain
<1> QED
  BY <1>1, <1>2, SameFlow, PTL DEF BQ!Flow!Spec

LEMMA BfsKeeps ==
  BQ!Init /\ [][Next]_vars => [](BR!IInv /\ BR!SoundInv /\ BQ!LeaveOnlyWhenQuiescent)
<1>1. BQ!Init /\ [][Next]_vars => BQ!Spec /\ [][BR!Next]_<<BQ!Items, data>>
  BY BfsFlows
<1>2. BR!Starts /\ [][BR!Next]_<<BQ!Items, data>> => []BR!IInv
  BY BfsRelaxes, BR!FlowKeepsOffers
<1>3. BR!SoundInv /\ [][BR!Next]_<<BQ!Items, data>> => []BR!SoundInv
  <2>1. Master \in [Vertex -> Rank]
    BY Partition
  <2> QED
    BY <2>1, BfsStaysSound, BR!FlowStaysSound
<1>4. BQ!Spec => []BQ!LeaveOnlyWhenQuiescent
  BY BQ!TerminationIsSafe, QueueAssumed
<1>5. BQ!Init => BR!Starts /\ BR!SoundInv
  BY BfsStarts
<1> QED
  BY <1>1, <1>2, <1>3, <1>4, <1>5, PTL

\* At no time does a copy of a vertex hold a level below its distance from the
\* source: nothing wraps, and no visitor is taken for another's.
THEOREM LevelsStaySound == Spec => []LevelsNeverTooLow
<1>1. Others("bfs") /\ [Next]_vars => Others("bfs")'
  BY OthersStay
<1>2. Others("bfs") => LevelsNeverTooLow
  BY OthersRun DEF LevelsNeverTooLow
<1>3. BR!SoundInv => LevelsNeverTooLow
  BY SoundMeansNotTooLow
<1> QED
  BY <1>1, <1>2, <1>3, BfsOrOther, BfsKeeps, PTL DEF Spec

\* When every rank has returned from a breadth-first search, every copy of every
\* vertex, hubs' replicas included, has the level that is its distance.
THEOREM SearchFindsDistances == Spec => []LevelsAreDistances
<1>1. Others("bfs") /\ [Next]_vars => Others("bfs")'
  BY OthersStay
<1>2. Others("bfs") => LevelsAreDistances
  BY OthersRun DEF LevelsAreDistances
<1>3. BR!IInv /\ BR!SoundInv /\ BQ!LeaveOnlyWhenQuiescent => LevelsAreDistances
  BY SettledMeansDistances
<1> QED
  BY <1>1, <1>2, <1>3, BfsOrOther, BfsKeeps, PTL DEF Spec

-----------------------------------------------------------------------------
(* Parents form a tree.                                                    *)

ParentAt(r, u) == data[r].d.parent[u]
LevelAt(r, u) == BR!H(r, u)
LeadLevel(u) == LevelAt(Master[u], u)

\* The visitor is about to be visited, and has the level that u's master holds.
Named(x, u) ==
  /\ x.step \in {"start", "visit", "hear"}
  /\ x.visitor.vertex = u /\ x.visitor.val.level = LeadLevel(u)

\* One that will reach the copy on r.
Due(r, u) ==
  \E x \in BQ!Items : Named(x, u) /\ (x.step = "hear" => x.rank = r)

\* The copy on r has the parent p, or will have it, or knows a visitor of a
\* lower level than the master does.
Follows(r, u, p) ==
  \/ LevelAt(r, u) = LeadLevel(u) /\ ParentAt(r, u) = p
  \/ Due(r, u)
  \/ LevelAt(r, u) < LeadLevel(u)

\* Of the visitors of equal level that raced to u only one is on its way to the
\* copies of u, or has been there.
OneParent(u, p) ==
  /\ RightParent(u, LeadLevel(u), p)
  /\ \A x \in BQ!Items : Named(x, u) => x.visitor.val.parent = p
  /\ \A r \in Rank : HoldsCopy(r, u) => Follows(r, u, p)

ParentOf(u) ==
  /\ LeadLevel(u) = BFS!Unvisited =>
       \A r \in Rank : HoldsCopy(r, u) /\ LevelAt(r, u) = BFS!Unvisited => ParentAt(r, u) = NoParent
  /\ LeadLevel(u) # BFS!Unvisited => \E p \in Vertex : OneParent(u, p)

ParentInv == \A u \in Vertex : ParentOf(u)

\* What a step does to the parents.
AskParents == \A q \in Rank, x \in Vertex : ParentAt(q, x)' = ParentAt(q, x)

VisitParents(w) ==
  LET u == w.visitor.vertex
  IN  /\ \A q \in Rank, x \in Vertex :
           ParentAt(q, x)' = IF q = w.rank /\ x = u /\ w.visitor.val.level <= LevelAt(q, u)
                      THEN w.visitor.val.parent ELSE ParentAt(q, x)
      /\ \A x \in BQ!Items' :
           x \in BQ!Items \/ x.step = "call" \/ x.visitor.val = w.visitor.val
      /\ /\ w.step # "hear" /\ u \in Delegate /\ Master[u] = w.rank
         /\ w.visitor.val.level <= LevelAt(w.rank, u)
         =>
           \A d \in Rank \ {w.rank} : \E x \in BQ!Items' :
             x.step = "hear" /\ x.rank = d /\ x.visitor.vertex = u /\ x.visitor.val = w.visitor.val

\* One rank's data has changed.
LEMMA ParentNext ==
  ASSUME BR!TypeInv, NEW r \in Rank, NEW a, BR!Became(r, a)
  PROVE  \A q \in Rank, u \in Vertex : ParentAt(q, u)' = IF q = r THEN a.d.parent[u] ELSE ParentAt(q, u)
<1>1. \A q \in Rank : data'[q] = IF q = r THEN a ELSE data[q]
  BY DEF BR!TypeInv, BR!Became
<1> QED
  BY <1>1 DEF ParentAt

LEMMA AskKeepsParents ==
  ASSUME BR!TypeInv, NEW w \in BQ!Items, BR!Call(w) \/ BR!Receive(w)
  PROVE  AskParents
<1> DEFINE r == w.rank
           v == w.visitor
<1>1. r \in Rank /\ v \in BQ!Visitor /\ data[r] \in BfsData
  BY BfsRelaxes, BR!ItemFacts
<1>2. CASE data' = data
  BY <1>2 DEF AskParents, ParentAt
<1>3. CASE \E out \in PreVisit(r, data[r], v) : BR!Became(r, out.data)
  <2>1. PICK out \in PreVisit(r, data[r], v) : BR!Became(r, out.data)
    BY <1>3
  <2>2. out.data.d.parent = data[r].d.parent
    BY <1>1, BfsPreVisit
  <2>3. \A q \in Rank, u \in Vertex : ParentAt(q, u)' = IF q = r THEN out.data.d.parent[u] ELSE ParentAt(q, u)
    BY <1>1, <2>1, ParentNext
  <2> QED
    BY <2>2, <2>3 DEF AskParents, ParentAt
<1> QED
  BY <1>2, <1>3 DEF BR!Call, BR!Receive

LEMMA VisitSetsParents ==
  ASSUME BR!TypeInv, NEW w \in BQ!Items, BR!Start(w) \/ BR!Run(w) \/ BR!Hear(w)
  PROVE  VisitParents(w)
<1> DEFINE r == w.rank
           v == w.visitor
           u == v.vertex
           near == v.val.level <= LevelAt(r, u)
           b == [v EXCEPT !.bcast = TRUE]
           casts == w.step # "hear" /\ u \in Delegate /\ Master[u] = r /\ near
<1>1. r \in Rank /\ v \in BQ!Visitor /\ u \in Vertex /\ data[r] \in BfsData
  BY BfsRelaxes, BR!ItemFacts
<1>2. PICK out \in Visit(r, data[r], v) :
        /\ BR!Became(r, out.data)
        /\ BR!Moves(w, BR!Calls(r, out) \cup (IF w.step = "hear" THEN {} ELSE BR!Broadcast(r, v, out)))
  <2>1. CASE BR!Start(w)
    BY <1>1, <2>1 DEF BR!Start, BR!Moves
  <2>2. CASE BR!Run(w)
    BY <2>2 DEF BR!Run, BR!Moves
  <2>3. CASE BR!Hear(w)
    BY <2>3 DEF BR!Hear, BR!Moves
  <2> QED
    BY <2>1, <2>2, <2>3
<1>3. /\ out.ret <=> near
      /\ \A x \in Vertex : out.data.d.parent[x] =
           IF out.ret /\ x = u THEN v.val.parent ELSE ParentAt(r, x)
  BY <1>1, BfsVisit DEF ParentAt, LevelAt, BR!H, HeldLevel, BFS!Held
<1>4. \A q \in Rank, x \in Vertex : ParentAt(q, x)' = IF q = r THEN out.data.d.parent[x] ELSE ParentAt(q, x)
  BY <1>1, <1>2, ParentNext
<1>5. \A q \in Rank, x \in Vertex :
        ParentAt(q, x)' = IF q = r /\ x = u /\ v.val.level <= LevelAt(q, u) THEN v.val.parent ELSE ParentAt(q, x)
  BY <1>3, <1>4
<1>6. b.vertex = u /\ b.val = v.val
  BY <1>1 DEF BQ!Visitor
<1> DEFINE bc == IF casts THEN {BR!At(d, "hear", b) : d \in Rank \ {r}} ELSE {}
<1>7. (IF w.step = "hear" THEN {} ELSE BR!Broadcast(r, v, out)) = bc
  BY <1>3 DEF BR!Broadcast
<1> HIDE DEF b
<1>8. \A x \in bc : x.visitor = b
  BY DEF BR!At
<1>9. casts => \A d \in Rank \ {r} : \E x \in bc : x.step = "hear" /\ x.rank = d /\ x.visitor = b
  <2> SUFFICES ASSUME casts, NEW d \in Rank \ {r}
               PROVE  \E x \in bc : x.step = "hear" /\ x.rank = d /\ x.visitor = b
    OBVIOUS
  <2>1. BR!At(d, "hear", b) \in bc
    OBVIOUS
  <2> QED
    BY <2>1 DEF BR!At
<1> HIDE DEF bc
<1>10. /\ bc \subseteq BQ!Items'
       /\ \A x \in BQ!Items' : x \in BQ!Items \/ x \in BR!Calls(r, out) \/ x \in bc
  BY <1>2, <1>7 DEF BR!Moves
<1>11. \A x \in BR!Calls(r, out) : x.step = "call"
  BY DEF BR!Calls, BR!At
<1>12. \A x \in BQ!Items' : x \in BQ!Items \/ x.step = "call" \/ x.visitor.val = v.val
  BY <1>6, <1>8, <1>10, <1>11
<1>13. casts => \A d \in Rank \ {r} : \E x \in BQ!Items' :
         x.step = "hear" /\ x.rank = d /\ x.visitor.vertex = u /\ x.visitor.val = v.val
  BY <1>6, <1>9, <1>10
<1> QED
  BY <1>5, <1>12, <1>13 DEF VisitParents
\* The effects of a step on levels and on parents.
Asked(w) == AskParents /\ (BR!Asks(w) \/ BR!Forwards(w))
Visited(w) == VisitParents(w) /\ BR!Visits(w)

LEMMA ParentSteps ==
  ASSUME BR!IInv, NEW w \in BQ!Items,
         BR!Start(w) \/ BR!Call(w) \/ BR!Receive(w) \/ BR!Run(w) \/ BR!Hear(w)
  PROVE  BR!TypeInv' /\ BR!Effect(w) /\ (Asked(w) \/ Visited(w))
<1>1. BR!TypeInv /\ BR!PlaceInv
  BY DEF BR!IInv
<1>2. CASE BR!Call(w) \/ BR!Receive(w)
  BY <1>1, <1>2, BfsRelaxes, BR!AskSteps, AskKeepsParents DEF Asked, BR!Effect
<1>3. CASE BR!Start(w) \/ BR!Run(w) \/ BR!Hear(w)
  BY <1>1, <1>3, BfsRelaxes, BR!VisitSteps, VisitSetsParents DEF Visited, BR!Effect
<1> QED
  BY <1>2, <1>3

\* Levels are numbers, and fall.
LEMMA LevelsFall ==
  ASSUME BR!IInv, BR!TypeInv', NEW w \in BQ!Items, BR!Effect(w)
  PROVE  /\ \A q \in Rank, u \in Vertex : LevelAt(q, u) \in Nat /\ LevelAt(q, u) <= BFS!Unvisited
         /\ \A q \in Rank, u \in Vertex : LevelAt(q, u)' \in Nat /\ LevelAt(q, u)' <= LevelAt(q, u)
         /\ \A x \in BQ!Items : /\ x.rank \in Rank /\ x.visitor \in BQ!Visitor
                                /\ x.visitor.vertex \in Vertex
                                /\ x.visitor.val.level \in Nat /\ x.visitor.val.level <= BFS!Unvisited
                                /\ x.visitor.val.parent \in Vertex
<1>1. BR!TypeInv
  BY DEF BR!IInv
<1>2. \A q \in Rank : data[q] \in BfsData
  BY <1>1 DEF BR!TypeInv
<1>3. \A q \in Rank, u \in Vertex : LevelAt(q, u) \in BFS!Level
  BY <1>2 DEF LevelAt, BR!H, HeldLevel, BFS!Held, BfsData, BFS!Data
<1>4. \A q \in Rank, u \in Vertex : LevelAt(q, u)' \in Nat
  BY BfsRelaxes, BR!HeldTypeNext DEF LevelAt
<1>5. \A q \in Rank, u \in Vertex : LevelAt(q, u)' <= LevelAt(q, u)
  BY <1>1, BfsRelaxes, BR!NothingRises DEF LevelAt
<1>6. \A x \in BQ!Items : x.rank \in Rank /\ x.visitor \in BQ!Visitor
  BY <1>1, BfsRelaxes, BR!ItemFacts
<1>7. \A v \in BQ!Visitor : /\ v.vertex \in Vertex /\ v.val.level \in BFS!Level /\ v.val.parent \in Vertex
  BY DEF BQ!Visitor, BFS!Value
<1>8. \A l \in BFS!Level : l \in Nat /\ l <= BFS!Unvisited
  BY LevelFacts
<1> QED
  BY <1>3, <1>4, <1>5, <1>6, <1>7, <1>8

\* What a step adds brings the value of the visitor that it takes.
LEMMA NewItems ==
  ASSUME NEW w \in BQ!Items, Asked(w) \/ Visited(w)
  PROVE  \A x \in BQ!Items' : x \in BQ!Items \/ x.step = "call" \/ x.visitor.val = w.visitor.val
<1>1. CASE Asked(w)
  BY <1>1 DEF Asked, BR!Asks, BR!Forwards, BR!At
<1>2. CASE Visited(w)
  BY <1>2 DEF Visited, VisitParents
<1> QED
  BY <1>1, <1>2

\* The visitor that reaches the master brings the parent.
LEMMA NewParent ==
  ASSUME BR!IInv, BR!SoundInv, BR!TypeInv', NEW w \in BQ!Items, BR!Effect(w), Asked(w) \/ Visited(w),
         NEW u \in Vertex, LeadLevel(u)' # LeadLevel(u)
  PROVE  ParentOf(u)'
<1> DEFINE m == Master[u]
           v == w.visitor
           p == v.val.parent
           l == v.val.level
<1>1. /\ u = v.vertex /\ w.rank = m /\ LeadLevel(u)' = l
      /\ BR!At(m, "visit", v) \in BQ!Items'
  BY BfsRelaxes, BR!MasterChanges DEF BR!IInv, LeadLevel, LevelAt, CarriedLevel, BFS!Carried
<1>2. m \in Rank
  BY Partition
<1>3. /\ LeadLevel(u) \in Nat /\ LeadLevel(u) <= BFS!Unvisited
      /\ LeadLevel(u)' <= LeadLevel(u) /\ l \in Nat /\ p \in Vertex
  BY <1>2, LevelsFall DEF LeadLevel
<1>4. l < LeadLevel(u) /\ l # BFS!Unvisited
  BY <1>1, <1>3, LevelFacts
<1>5. RightParent(u, l, p)
  <2>1. v \in SoundVisitors \/ v \in SoundVisits
    BY DEF BR!SoundInv
  <2> QED
    BY <1>1, <1>4, <2>1 DEF SoundVisitors, SoundVisits, Right
<1>6. ASSUME NEW x \in BQ!Items', Named(x, u)' PROVE x.visitor.val.parent = p
  <2>1. x.step \in {"start", "visit", "hear"} /\ x.visitor.vertex = u /\ x.visitor.val.level = l
    BY <1>1, <1>6 DEF Named
  <2>2. CASE x \in BQ!Items
    <3>1. LeadLevel(u) <= x.visitor.val.level
      BY <2>1, <2>2 DEF BR!IInv, BR!PlaceInv, LeadLevel, LevelAt, CarriedLevel, BFS!Carried
    <3> QED
      BY <1>3, <1>4, <2>1, <3>1
  <2>3. CASE x \notin BQ!Items
    BY <2>1, <2>3, NewItems
  <2> QED
    BY <2>2, <2>3
<1>7. ASSUME NEW r \in Rank PROVE Follows(r, u, p)'
  <2> DEFINE x == BR!At(m, "visit", v)
  <2>1. x \in BQ!Items' /\ x.step = "visit" /\ x.visitor = v
    BY <1>1 DEF BR!At
  <2> HIDE DEF x
  <2>2. Named(x, u)'
    BY <1>1, <2>1 DEF Named
  <2> QED
    BY <2>1, <2>2 DEF Follows, Due
<1> HIDE DEF p
<1>8. OneParent(u, p)'
  BY <1>1, <1>5, <1>6, <1>7 DEF OneParent
<1> QED
  BY <1>1, <1>3, <1>4, <1>8 DEF ParentOf

\* A vertex that nothing has reached has no parent.
LEMMA NoParentYet ==
  ASSUME BR!IInv, BR!SoundInv, BR!TypeInv', NEW w \in BQ!Items, BR!Effect(w), Asked(w) \/ Visited(w),
         NEW u \in Vertex, LeadLevel(u)' = LeadLevel(u), LeadLevel(u) = BFS!Unvisited, ParentOf(u)
  PROVE  ParentOf(u)'
<1> SUFFICES ASSUME NEW r \in Rank, HoldsCopy(r, u), LevelAt(r, u)' = BFS!Unvisited
             PROVE  ParentAt(r, u)' = NoParent
  BY DEF ParentOf
<1>1. LevelAt(r, u) = BFS!Unvisited
  BY LevelsFall, LevelFacts
<1>2. ParentAt(r, u) = NoParent
  BY <1>1 DEF ParentOf
<1>3. CASE Asked(w)
  BY <1>2, <1>3 DEF Asked, AskParents
<1>4. CASE Visited(w)
  <2> SUFFICES ASSUME r = w.rank, u = w.visitor.vertex, w.visitor.val.level <= LevelAt(r, u) PROVE FALSE
    BY <1>2, <1>4 DEF Visited, VisitParents
  <2>1. LevelAt(r, u)' = w.visitor.val.level
    BY <1>4 DEF Visited, BR!Visits, LevelAt, CarriedLevel, BFS!Carried
  <2>2. w.visitor \in SoundVisits
    BY <1>4 DEF Visited, BR!Visits, BR!SoundInv
  <2> QED
    BY <2>1, <2>2 DEF SoundVisits
<1> QED
  BY <1>3, <1>4

\* While the master keeps its level, it keeps its parent.
LEMMA SameParent ==
  ASSUME BR!IInv, BR!SoundInv, BR!TypeInv', NEW w \in BQ!Items, BR!Effect(w), Asked(w) \/ Visited(w),
         NEW u \in Vertex, LeadLevel(u)' = LeadLevel(u), NEW p \in Vertex, OneParent(u, p)
  PROVE  OneParent(u, p)'
<1> DEFINE m == Master[u]
           v == w.visitor
           q == w.rank
<1>1. m \in Rank /\ q \in Rank /\ v.vertex \in Vertex /\ v.val.level \in Nat
  BY Partition, LevelsFall
<1>2. \A r \in Rank : LevelAt(r, u) \in Nat /\ LevelAt(r, u)' \in Nat /\ LevelAt(r, u)' <= LevelAt(r, u)
  BY LevelsFall
<1>3. LeadLevel(u) \in Nat
  BY <1>1, <1>2 DEF LeadLevel
<1>4. ASSUME NEW x \in BQ!Items', Named(x, u)' PROVE x.visitor.val.parent = p
  <2>1. /\ x.step \in {"start", "visit", "hear"} /\ x.visitor.vertex = u
        /\ x.visitor.val.level = LeadLevel(u)
    BY <1>4 DEF Named
  <2>2. CASE x \in BQ!Items
    BY <2>1, <2>2 DEF Named, OneParent
  <2>3. CASE x \notin BQ!Items /\ Asked(w)
    <3>1. BR!Asks(w) /\ x = BR!At(Master[v.vertex], IF Master[v.vertex] = q THEN "visit" ELSE "sent", v)
          /\ LevelAt(q, v.vertex)' = v.val.level /\ v.val.level < LevelAt(q, v.vertex)
      <4>1. BR!Asks(w)
        BY <2>1, <2>3 DEF Asked, BR!Forwards, BR!At
      <4> QED
        BY <1>1, <2>3, <4>1 DEF BR!Asks, LevelAt, CarriedLevel, BFS!Carried
    <3>2. v.vertex = u /\ q = m
      BY <2>1, <3>1 DEF BR!At
    <3> QED
      BY <1>3, <3>1, <3>2 DEF LeadLevel
  <2>4. CASE x \notin BQ!Items /\ Visited(w)
    <3>1. /\ w.step \in {"start", "visit", "hear"} /\ v.vertex = u
          /\ v.val.level = LeadLevel(u)
      BY <2>1, <2>4 DEF Visited, BR!Visits, CarriedLevel, BFS!Carried
    <3>2. v.val.parent = p
      BY <3>1 DEF OneParent, Named
    <3>3. x.visitor.val = v.val
      BY <2>1, <2>4, NewItems
    <3> QED
      BY <3>2, <3>3
  <2> QED
    BY <2>2, <2>3, <2>4
<1>5. ASSUME NEW r \in Rank, HoldsCopy(r, u) PROVE Follows(r, u, p)'
  <2>1. CASE LevelAt(r, u) < LeadLevel(u)
    <3>1. LevelAt(r, u)' < LeadLevel(u)
      BY <1>2, <1>3, <2>1
    <3> QED
      BY <3>1 DEF Follows
  <2>2. CASE LevelAt(r, u) = LeadLevel(u) /\ ParentAt(r, u) = p
    <3>1. CASE LevelAt(r, u)' # LevelAt(r, u)
      <4>1. LevelAt(r, u)' < LeadLevel(u)
        BY <1>2, <1>3, <2>2, <3>1
      <4> QED
        BY <4>1 DEF Follows
    <3>2. CASE LevelAt(r, u)' = LevelAt(r, u) /\ ParentAt(r, u)' = ParentAt(r, u)
      BY <2>2, <3>2 DEF Follows
    <3>3. CASE LevelAt(r, u)' = LevelAt(r, u) /\ ParentAt(r, u)' # ParentAt(r, u)
      <4>1. Visited(w)
        BY <3>3 DEF Asked, AskParents
      <4>2. r = q /\ u = v.vertex /\ v.val.level <= LevelAt(r, u) /\ ParentAt(r, u)' = v.val.parent
        BY <3>3, <4>1 DEF Visited, VisitParents
      <4>3. LevelAt(r, u)' = v.val.level /\ w.step \in {"start", "visit", "hear"}
        BY <4>1, <4>2 DEF Visited, BR!Visits, LevelAt, CarriedLevel, BFS!Carried
      <4>4. Named(w, u)
        BY <2>2, <3>3, <4>2, <4>3 DEF Named
      <4>5. v.val.parent = p
        BY <4>4 DEF OneParent
      <4> QED
        BY <2>2, <3>3, <4>2, <4>5 DEF Follows
    <3> QED
      BY <3>1, <3>2, <3>3
  <2>3. CASE Due(r, u)
    <3>1. PICK x \in BQ!Items : Named(x, u) /\ (x.step = "hear" => x.rank = r)
      BY <2>3 DEF Due
    <3>2. CASE x \in BQ!Items'
      <4>1. Named(x, u)'
        BY <3>1 DEF Named
      <4> QED
        BY <3>1, <3>2, <4>1 DEF Follows, Due
    <3>3. CASE x \notin BQ!Items'
      <4>1. x = w
        BY <3>3, BfsRelaxes, BR!NothingRises DEF BR!IInv
      <4>2. w.step \in {"start", "visit", "hear"} /\ v.vertex = u /\ v.val.level = LeadLevel(u)
            /\ v.val.parent = p
        BY <3>1, <4>1 DEF Named, OneParent
      <4>3. Visited(w)
        BY <4>2 DEF Asked, BR!Asks, BR!Forwards
      <4>4. w.step # "hear" => q = m
        BY <4>2 DEF BR!IInv, BR!PlaceInv
      <4>5. CASE r = q /\ v.val.level <= LevelAt(r, u)
        <5>1. LevelAt(r, u)' = v.val.level /\ ParentAt(r, u)' = p
          BY <4>2, <4>3, <4>5 DEF Visited, VisitParents, BR!Visits, LevelAt, CarriedLevel, BFS!Carried
        <5> QED
          BY <4>2, <5>1 DEF Follows
      <4>6. CASE r = q /\ ~(v.val.level <= LevelAt(r, u))
        <5>1. LevelAt(r, u)' < LeadLevel(u)
          BY <1>2, <1>3, <4>2, <4>6
        <5> QED
          BY <5>1 DEF Follows
      <4>7. CASE r # q
        <5>1. w.step # "hear" /\ q = m
          BY <3>1, <4>1, <4>4, <4>7
        <5>2. u \in Delegate
          BY <1>5, <4>7, <5>1, Partition DEF HoldsCopy
        <5>3. v.val.level <= LevelAt(q, u)
          BY <1>3, <4>2, <5>1 DEF LeadLevel
        <5>4. PICK y \in BQ!Items' : y.step = "hear" /\ y.rank = r /\ y.visitor.vertex = u
                                     /\ y.visitor.val = v.val
          BY <4>2, <4>3, <4>7, <5>1, <5>2, <5>3 DEF Visited, VisitParents
        <5>5. Named(y, u)'
          BY <4>2, <5>4 DEF Named
        <5> QED
          BY <5>4, <5>5 DEF Follows, Due
      <4> QED
        BY <4>5, <4>6, <4>7
    <3> QED
      BY <3>2, <3>3
  <2> QED
    BY <1>5, <2>1, <2>2, <2>3 DEF OneParent, Follows
<1>6. RightParent(u, LeadLevel(u)', p)
  BY DEF OneParent
<1> QED
  BY <1>4, <1>5, <1>6 DEF OneParent

LEMMA ParentsKept ==
  ASSUME BR!IInv, BR!SoundInv, ParentInv, [BR!Next]_<<BQ!Items, data>>
  PROVE  ParentInv'
<1>1. CASE UNCHANGED <<BQ!Items, data>>
  BY <1>1 DEF ParentInv, ParentOf, OneParent, Follows, Due, Named, LeadLevel, LevelAt, ParentAt, BR!H
<1>2. CASE BR!Next
  <2>1. PICK w \in BQ!Items :
          BR!Start(w) \/ BR!Call(w) \/ BR!Receive(w) \/ BR!Run(w) \/ BR!Hear(w)
    BY <1>2 DEF BR!Next
  <2>2. BR!TypeInv' /\ BR!Effect(w) /\ (Asked(w) \/ Visited(w))
    BY <2>1, ParentSteps
  <2>3. ASSUME NEW u \in Vertex PROVE ParentOf(u)'
    <3>0. ParentOf(u)
      BY DEF ParentInv
    <3>1. CASE LeadLevel(u)' # LeadLevel(u)
      BY <2>2, <3>1, NewParent
    <3>2. CASE LeadLevel(u)' = LeadLevel(u) /\ LeadLevel(u) = BFS!Unvisited
      BY <2>2, <3>0, <3>2, NoParentYet
    <3>3. CASE LeadLevel(u)' = LeadLevel(u) /\ LeadLevel(u) # BFS!Unvisited
      <4>1. PICK p \in Vertex : OneParent(u, p)
        BY <3>0, <3>3 DEF ParentOf
      <4>2. OneParent(u, p)'
        BY <2>2, <3>3, <4>1, SameParent
      <4> QED
        BY <3>3, <4>2 DEF ParentOf
    <3> QED
      BY <3>1, <3>2, <3>3
  <2> QED
    BY <2>3 DEF ParentInv
<1> QED
  BY <1>1, <1>2
LEMMA ParentsStart ==
  ASSUME BQ!Init
  PROVE  ParentInv
<1>1. \A r \in Rank, u \in Vertex :
        data[r].d.level[u] = BFS!Unvisited /\ data[r].d.parent[u] = NoParent
  BY BfsBegins
<1>2. \A u \in Vertex : Master[u] \in Rank
  BY Partition
<1>3. \A r \in Rank, u \in Vertex : LevelAt(r, u) = BFS!Unvisited /\ ParentAt(r, u) = NoParent
  BY <1>1 DEF LevelAt, ParentAt, BR!H, HeldLevel, BFS!Held
<1> QED
  BY <1>2, <1>3 DEF ParentInv, ParentOf, LeadLevel

\* When no visitor is left, the parents are one level nearer to the source.
LEMMA SettledMeansTree ==
  ASSUME BR!IInv, BR!SoundInv, ParentInv, BQ!LeaveOnlyWhenQuiescent
  PROVE  ParentsFormTree
<1> SUFFICES ASSUME Finished, NEW r \in Rank, NEW v \in Vertex, HoldsCopy(r, v)
             PROVE  BFS!ParentIsNearer(Result, r, v)
  BY DEF ParentsFormTree
<1>1. BQ!Items = {}
  BY FinishedMeansEmpty
<1>2. BR!Settled
  BY <1>1, BfsRelaxes, BR!EmptySettled
<1>3. \A u \in Vertex : LeadLevel(u) \in Nat
  BY BfsRelaxes, BR!HeldType, Partition DEF BR!IInv, LeadLevel, LevelAt
<1>4. LevelAt(r, v) = LeadLevel(v)
  <2>1. BR!HoldsCopy(r, v)
    BY DEF BR!HoldsCopy, HoldsCopy
  <2> QED
    BY <1>2, <2>1 DEF BR!Settled, LevelAt, LeadLevel
<1> DEFINE m == Master[v]
<1>5. m \in Rank /\ HoldsCopy(m, v)
  BY Partition DEF HoldsCopy
<1>6. /\ Result[r].parent[v] = ParentAt(r, v) /\ Result[m].parent[v] = ParentAt(m, v)
      /\ Result[r].level[v] = LeadLevel(v)
  BY <1>4, <1>5 DEF Result, ParentAt, LevelAt, BR!H, HeldLevel, BFS!Held
<1>7. CASE LeadLevel(v) = BFS!Unvisited
  <2>1. ParentAt(r, v) = NoParent /\ ParentAt(m, v) = NoParent
    BY <1>4, <1>5, <1>7 DEF ParentInv, ParentOf, LeadLevel
  <2> QED
    BY <1>6, <1>7, <2>1 DEF BFS!ParentIsNearer
<1>8. CASE LeadLevel(v) # BFS!Unvisited
  <2>1. PICK p \in Vertex : OneParent(v, p)
    BY <1>8 DEF ParentInv, ParentOf
  <2>2. Follows(r, v, p) /\ Follows(m, v, p)
    BY <1>5, <2>1 DEF OneParent
  <2>3. ParentAt(r, v) = p
    BY <1>1, <1>3, <1>4, <2>2 DEF Follows, Due
  <2>4. ParentAt(m, v) = p
    BY <1>1, <1>3, <2>2 DEF Follows, Due, LeadLevel
  <2>5. p # NoParent
    BY SearchAssumption
  <2>6. ASSUME v # Source
        PROVE  BFS!Edge(p, v) /\ LeadLevel(p) + 1 = LeadLevel(v)
    <3> DEFINE l == LeadLevel(v)
    <3>1. l > 0 /\ BFS!Edge(p, v) /\ Near(p, l - 1)
      BY <2>1, <2>6 DEF OneParent, RightParent
    <3>2. l \in Nat /\ LeadLevel(p) \in Nat
      BY <1>3
    <3>3. LeadLevel(p) <= l - 1
      <4>1. l - 1 \in Nat
        BY <3>1, <3>2
      <4> HIDE DEF l
      <4> QED
        BY <1>2, <3>1, <4>1, SettledBalls DEF Near, LeadLevel, LevelAt
    <3>4. l <= LeadLevel(p) + 1
      BY <1>2, <3>1, SettledEdges DEF LeadLevel, LevelAt
    <3> QED
      BY <3>1, <3>2, <3>3, <3>4
  <2>7. Result[Master[p]].level[p] = LeadLevel(p)
    BY Partition DEF Result, LeadLevel, LevelAt, BR!H, HeldLevel, BFS!Held
  <2> QED
    BY <1>6, <1>8, <2>3, <2>4, <2>5, <2>6, <2>7 DEF BFS!ParentIsNearer
<1> QED
  BY <1>7, <1>8
LEMMA ParentsStay == BQ!Init /\ [][Next]_vars => []ParentInv
<1>1. BQ!Init /\ [][Next]_vars => [][BR!Next]_<<BQ!Items, data>>
  BY BfsFlows
<1>2. BQ!Init /\ [][Next]_vars => [](BR!IInv /\ BR!SoundInv)
  BY BfsKeeps, PTL
<1>3. BR!IInv /\ BR!SoundInv /\ ParentInv /\ [BR!Next]_<<BQ!Items, data>> => ParentInv'
  BY ParentsKept
<1>4. BQ!Init => ParentInv
  BY ParentsStart
<1> QED
  BY <1>1, <1>2, <1>3, <1>4, PTL

\* When every rank has returned from a breadth-first search, the parents lead
\* back to the source along shortest paths, and every copy of a vertex has the
\* parent that its master has, however visitors of equal level raced to it.
THEOREM SearchFindsTree == Spec => []ParentsFormTree
<1>1. Others("bfs") /\ [Next]_vars => Others("bfs")'
  BY OthersStay
<1>2. Others("bfs") => ParentsFormTree
  BY OthersRun DEF ParentsFormTree
<1>3. BR!IInv /\ BR!SoundInv /\ BQ!LeaveOnlyWhenQuiescent /\ ParentInv => ParentsFormTree
  BY SettledMeansTree
<1> QED
  BY <1>1, <1>2, <1>3, BfsOrOther, BfsKeeps, ParentsStay, PTL DEF Spec

-----------------------------------------------------------------------------
(* The filter of the replicas.                                             *)

\* Breadth-first search filters.
LEMMA BfsFilters == BQ!Filters
<1>1. BR!GraphType /\ BR!PreVisitLowers /\ BR!VisitOffers
  BY BfsRelaxes DEF BR!Relaxes
<1>2. /\ \A a \in BfsData, u \in Vertex : HeldLevel(a, u) \in Nat
      /\ \A v \in BQ!Visitor : CarriedLevel(v) \in Nat
  BY <1>1 DEF BR!GraphType
<1>3. ASSUME NEW r \in Rank, NEW a \in BfsData, NEW v \in BQ!Visitor, NEW out \in PreVisit(r, a, v)
      PROVE  /\ out.ret <=> v.vertex \in Vertex /\ CarriedLevel(v) < HeldLevel(a, v.vertex)
             /\ \A u \in Vertex :
                  HeldLevel(out.data, u) = IF out.ret /\ u = v.vertex THEN CarriedLevel(v) ELSE HeldLevel(a, u)
  BY <1>1 DEF BR!PreVisitLowers
<1>4. ASSUME NEW r \in Rank, NEW a \in BfsData, NEW v \in BQ!Visitor, NEW out \in Visit(r, a, v), NEW u \in Vertex
      PROVE  \/ HeldLevel(out.data, u) = HeldLevel(a, u)
             \/ u = v.vertex /\ HeldLevel(out.data, u) = CarriedLevel(v) /\ CarriedLevel(v) <= HeldLevel(a, u)
  BY <1>1 DEF BR!VisitOffers
<1> QED
  BY <1>2, <1>3, <1>4 DEF BQ!Filters

\* Its flow and its queue speak of the same places.
LEMMA BfsLevelled ==
  /\ BR!IInv => BQ!Levelled
  /\ BR!Starts => BQ!StartsLevel
BY DEF BR!IInv, BR!PlaceInv, BQ!Levelled, BR!H, BQ!H, BR!Starts, BQ!StartsLevel

BfsFilter == FilterFor("bfs", BFS!Held, BFS!Carried)

LEMMA BfsFiltered == BQ!FilterInv => BfsFilter
<1> SUFFICES ASSUME BQ!FilterInv, NEW h \in Delegate, NEW r \in Rank,
                    BFS!Held(Result[r], h) < BFS!Held(Result[Master[h]], h)
             PROVE  OnItsWay(r, h, BFS!Held(Result[r], h), BFS!Carried)
  BY DEF BfsFilter, FilterFor
<1>1. Master[h] \in Rank
  BY Partition
<1>2. BQ!H(r, h) < BQ!H(Master[h], h) /\ BQ!H(r, h) = BFS!Held(Result[r], h)
  BY <1>1 DEF BQ!H, HeldLevel, Result
<1>3. PICK v : BQ!Underway(r, h, v) /\ BQ!Brings(v, h, BFS!Held(Result[r], h))
  BY <1>2 DEF BQ!FilterInv, BQ!Explained
<1>4. v.vertex = h /\ ~v.bcast /\ BFS!Carried(v) = BFS!Held(Result[r], h)
  BY <1>3 DEF BQ!Brings, CarriedLevel
<1>5. \E b \in {box[r][Master[h]], wire[Master[h]][0], wire[Master[h]][1]} : v \in BagToSet(b)
  <2>1. \A b : BQ!BagToSet(b) = BagToSet(b)
    BY DEF BQ!BagToSet, BagToSet
  <2>2. \A p \in 0..1 : p = 0 \/ p = 1
    OBVIOUS
  <2> QED
    BY <1>3, <2>1, <2>2 DEF BQ!Underway
<1> QED
  BY <1>4, <1>5 DEF OnItsWay

LEMMA BfsKeepsFilter == BQ!Init /\ [][Next]_vars => []BfsFilter
<1>1. BQ!Init /\ [][Next]_vars => BQ!Spec
  BY SameNext, PTL DEF BQ!Spec
<1>2. BQ!Spec /\ BQ!StartsLevel /\ []BQ!Levelled => []BQ!FilterInv
  BY BQ!ReplicasAreExplained, QueueAssumed, BfsIsPlain, BfsFilters
<1>3. BQ!Init => BQ!StartsLevel
  BY BfsStarts, BfsLevelled
<1>4. BR!IInv => BQ!Levelled
  BY BfsLevelled
<1> QED
  BY <1>1, <1>2, <1>3, <1>4, BfsKeeps, BfsFiltered, PTL

-----------------------------------------------------------------------------
(* Walks from the source.                                                  *)

\* The walks in near, and those of an edge more.
Lengthened(near) ==
  near \cup UNION {{<<w, x[2] + Weight[x[1]][w]>> : w \in {y \in Vertex : SP!Edge(x[1], y)}} : x \in near}

\* The recursive definition of the walks.
LEMMA WalkFacts ==
  /\ \A k \in Nat : SP!Walks[k] \subseteq Vertex \X Nat
  /\ SP!Walks[0] = {<<Source, 0>>}
  /\ \A n \in Nat : SP!Walks[n + 1] = Lengthened(SP!Walks[n])
<1> DEFINE U == SUBSET (Vertex \X Nat)
           G == [near \in U |-> Lengthened(near)]
           start == {<<Source, 0>>}
<1>1. start \in U
  BY SearchAssumption
<1>2. G \in [U -> U]
  <2> SUFFICES ASSUME NEW near \in U PROVE Lengthened(near) \in U
    OBVIOUS
  <2>1. ASSUME NEW x \in near, NEW w \in Vertex PROVE <<w, x[2] + Weight[x[1]][w]>> \in Vertex \X Nat
    <3>1. x[1] \in Vertex /\ x[2] \in Nat
      OBVIOUS
    <3>2. Weight[x[1]][w] \in Nat
      BY <3>1, PathAssumption
    <3> QED
      BY <3>1, <3>2
  <2> QED
    BY <2>1 DEF Lengthened
<1>3. \A near \in U : G[near] = Lengthened(near)
  OBVIOUS
<1>0. \A x \in U : x \subseteq Vertex \X Nat
  OBVIOUS
<1> HIDE DEF G, U, start
<1>4. PICK b \in [Nat -> U] : b[0] = start /\ \A n \in Nat : b[n + 1] = G[b[n]]
  BY <1>1, <1>2, Recursion
<1>5. \A n \in Nat : b[n] = IF n = 0 THEN start ELSE Lengthened(b[n - 1])
  <2> SUFFICES ASSUME NEW n \in Nat, n # 0 PROVE b[n] = Lengthened(b[n - 1])
    BY <1>4
  <2>1. n - 1 \in Nat /\ (n - 1) + 1 = n
    OBVIOUS
  <2>2. b[n - 1] \in U
    BY <1>4, <2>1
  <2> QED
    BY <1>3, <1>4, <2>1, <2>2
<1> DEFINE Fits(f) == f = [n \in Nat |-> IF n = 0 THEN start ELSE Lengthened(f[n - 1])]
<1>6. Fits(b)
  BY <1>4, <1>5
<1>7. SP!Walks = CHOOSE f : Fits(f)
  BY DEF SP!Walks, Lengthened, start
<1>8. Fits(SP!Walks)
  <2> HIDE DEF Fits
  <2> QED
    BY <1>6, <1>7
<1>9. \A n \in Nat : SP!Walks[n] = IF n = 0 THEN start ELSE Lengthened(SP!Walks[n - 1])
  BY <1>8
<1>10. ASSUME NEW n \in Nat PROVE SP!Walks[n + 1] = Lengthened(SP!Walks[n])
  <2>1. n + 1 \in Nat /\ n + 1 # 0 /\ n + 1 - 1 = n
    OBVIOUS
  <2> QED
    BY <1>9, <2>1
<1>11. \A n \in Nat : SP!Walks[n] \in U
  <2> DEFINE Bad == {n \in Nat : SP!Walks[n] \notin U}
  <2> SUFFICES ASSUME Bad # {} PROVE FALSE
    OBVIOUS
  <2>1. PICK n \in Bad : \A m \in Bad : n <= m
    <3>1. Bad \subseteq Nat
      OBVIOUS
    <3> HIDE DEF Bad
    <3> QED
      BY <3>1, Least
  <2>2. n # 0
    BY <1>1, <1>9
  <2>3. n - 1 \in Nat /\ ~(n <= n - 1)
    BY <2>2
  <2>4. SP!Walks[n - 1] \in U
    BY <2>1, <2>3
  <2>5. SP!Walks[n] = G[SP!Walks[n - 1]]
    BY <1>3, <1>9, <2>2, <2>4
  <2> QED
    BY <1>2, <2>4, <2>5
<1> QED
  BY <1>0, <1>9, <1>10, <1>11 DEF start

\* There is a walk of length l to u.
Walkable(u, l) == \E k \in Nat : <<u, l>> \in SP!Walks[k]

\* A walk of length l to w has an edge more than one that Walks[n] has.
EndsWith(n, w, l) ==
  \E u \in Vertex, c \in Nat :
    <<u, c>> \in SP!Walks[n] /\ SP!Edge(u, w) /\ w \in Vertex /\ l = c + Weight[u][w]

LEMMA WalkSteps ==
  /\ Walkable(Source, 0)
  /\ \A u, l : Walkable(u, l) => u \in Vertex /\ l \in Nat
  /\ \A u, w \in Vertex, l \in Nat : SP!Edge(u, w) /\ Walkable(u, l) => Walkable(w, l + Weight[u][w])
  /\ \A n \in Nat : SP!Walks[n] \subseteq SP!Walks[n + 1]
  /\ \A n \in Nat, u, w \in Vertex, l \in Nat :
       SP!Edge(u, w) /\ <<u, l>> \in SP!Walks[n] => <<w, l + Weight[u][w]>> \in SP!Walks[n + 1]
  /\ \A n \in Nat : \A w, l : <<w, l>> \in SP!Walks[n + 1] =>
       \/ <<w, l>> \in SP!Walks[n]
       \/ EndsWith(n, w, l)
<1>1. Walkable(Source, 0)
  BY WalkFacts DEF Walkable
<1>2. \A u, l : Walkable(u, l) => u \in Vertex /\ l \in Nat
  BY WalkFacts DEF Walkable
<1>3. \A n \in Nat : SP!Walks[n] \subseteq SP!Walks[n + 1]
  BY WalkFacts DEF Lengthened
<1>4. ASSUME NEW n \in Nat, NEW u \in Vertex, NEW w \in Vertex, NEW l \in Nat,
             SP!Edge(u, w), <<u, l>> \in SP!Walks[n]
      PROVE  <<w, l + Weight[u][w]>> \in SP!Walks[n + 1]
  <2> DEFINE x == <<u, l>>
  <2>1. x \in SP!Walks[n] /\ x[1] = u /\ x[2] = l
    BY <1>4
  <2> HIDE DEF x
  <2>2. <<w, x[2] + Weight[x[1]][w]>> \in {<<y, x[2] + Weight[x[1]][y]>> : y \in {z \in Vertex : SP!Edge(x[1], z)}}
    BY <1>4, <2>1
  <2>3. <<w, x[2] + Weight[x[1]][w]>> \in Lengthened(SP!Walks[n])
    BY <2>1, <2>2 DEF Lengthened
  <2> QED
    BY <2>1, <2>3, WalkFacts
<1>5. ASSUME NEW n \in Nat, NEW w, NEW l, <<w, l>> \in SP!Walks[n + 1], <<w, l>> \notin SP!Walks[n]
      PROVE  EndsWith(n, w, l)
  <2>1. <<w, l>> \in Lengthened(SP!Walks[n])
    BY <1>5, WalkFacts
  <2>2. PICK x \in SP!Walks[n] :
          <<w, l>> \in {<<y, x[2] + Weight[x[1]][y]>> : y \in {z \in Vertex : SP!Edge(x[1], z)}}
    BY <1>5, <2>1 DEF Lengthened
  <2>3. w \in Vertex /\ SP!Edge(x[1], w) /\ l = x[2] + Weight[x[1]][w]
    BY <2>2
  <2>4. x \in Vertex \X Nat
    BY WalkFacts
  <2>5. x = <<x[1], x[2]>> /\ x[1] \in Vertex /\ x[2] \in Nat
    BY <2>4
  <2> QED
    BY <2>3, <2>5 DEF EndsWith
<1>6. ASSUME NEW u \in Vertex, NEW w \in Vertex, NEW l \in Nat, SP!Edge(u, w), Walkable(u, l)
      PROVE  Walkable(w, l + Weight[u][w])
  <2>1. PICK k \in Nat : <<u, l>> \in SP!Walks[k]
    BY <1>6 DEF Walkable
  <2>2. k + 1 \in Nat
    OBVIOUS
  <2> QED
    BY <1>4, <1>6, <2>1, <2>2 DEF Walkable
<1>7. \A n \in Nat : \A w, l : <<w, l>> \in SP!Walks[n + 1] =>
       \/ <<w, l>> \in SP!Walks[n]
       \/ EndsWith(n, w, l)
  BY <1>5, Zenon
<1>8. \A u, w \in Vertex, l \in Nat : SP!Edge(u, w) /\ Walkable(u, l) => Walkable(w, l + Weight[u][w])
  BY <1>6
<1>9. \A n \in Nat, u, w \in Vertex, l \in Nat :
       SP!Edge(u, w) /\ <<u, l>> \in SP!Walks[n] => <<w, l + Weight[u][w]>> \in SP!Walks[n + 1]
  BY <1>4
<1> QED
  BY <1>1, <1>2, <1>3, <1>7, <1>8, <1>9, Zenon

\* A family of sets that only grows.
LEMMA Rising ==
  ASSUME NEW f, \A n \in Nat : f[n] \subseteq f[n + 1]
  PROVE  \A m, n \in Nat : m <= n => f[m] \subseteq f[n]
<1> SUFFICES ASSUME NEW m \in Nat, NEW z \in Nat, m <= z, ~(f[m] \subseteq f[z]) PROVE FALSE
  OBVIOUS
<1> DEFINE Bad == {n \in Nat : m <= n /\ ~(f[m] \subseteq f[n])}
<1>1. PICK n \in Bad : \A k \in Bad : n <= k
  <2>1. Bad \subseteq Nat /\ Bad # {}
    OBVIOUS
  <2> HIDE DEF Bad
  <2> QED
    BY <2>1, Least
<1>2. n # m
  OBVIOUS
<1>3. n - 1 \in Nat /\ m <= n - 1 /\ ~(n <= n - 1) /\ (n - 1) + 1 = n
  BY <1>2
<1>4. f[m] \subseteq f[n - 1]
  BY <1>1, <1>3
<1>5. f[n - 1] \subseteq f[n]
  BY <1>3
<1> QED
  BY <1>4, <1>5

\* What is in some set of a family is in a first one.
LEMMA FirstIn ==
  ASSUME NEW f, NEW x, NEW k \in Nat, x \in f[k]
  PROVE  \E n \in Nat : x \in f[n] /\ \A m \in Nat : x \in f[m] => n <= m
<1> DEFINE T == {n \in Nat : x \in f[n]}
<1>1. T \subseteq Nat /\ T # {}
  OBVIOUS
<1>2. \E n \in T : \A m \in T : n <= m
  <2> HIDE DEF T
  <2> QED
    BY <1>1, Least
<1> QED
  BY <1>2

\* Lengths that no edge could lower are at most those of all walks.
LEMMA SettledLengths ==
  ASSUME NEW L, \A u \in Vertex : L[u] \in Nat, L[Source] <= 0,
         \A u, w \in Vertex : SP!Edge(u, w) => L[w] <= L[u] + Weight[u][w]
  PROVE  \A n \in Nat : \A u \in Vertex, l \in Nat : <<u, l>> \in SP!Walks[n] => L[u] <= l
<1> DEFINE Bad == {n \in Nat : \E u \in Vertex, l \in Nat : <<u, l>> \in SP!Walks[n] /\ ~(L[u] <= l)}
<1> SUFFICES ASSUME Bad # {} PROVE FALSE
  OBVIOUS
<1>1. PICK n \in Bad : \A m \in Bad : n <= m
  <2>1. Bad \subseteq Nat
    OBVIOUS
  <2> HIDE DEF Bad
  <2> QED
    BY <2>1, Least
<1>2. PICK u \in Vertex, l \in Nat : <<u, l>> \in SP!Walks[n] /\ ~(L[u] <= l)
  OBVIOUS
<1>3. CASE n = 0
  <2>1. u = Source /\ l = 0
    BY <1>2, <1>3, WalkFacts
  <2> QED
    BY <1>2, <2>1
<1>4. CASE n # 0
  <2>1. n - 1 \in Nat /\ ~(n <= n - 1) /\ n = (n - 1) + 1
    BY <1>4
  <2>2. \A w \in Vertex, c \in Nat : <<w, c>> \in SP!Walks[n - 1] => L[w] <= c
    BY <1>1, <2>1
  <2>3. EndsWith(n - 1, u, l)
    BY <1>2, <2>1, <2>2, WalkSteps
  <2>4. PICK w \in Vertex, c \in Nat :
          <<w, c>> \in SP!Walks[n - 1] /\ SP!Edge(w, u) /\ l = c + Weight[w][u]
    BY <2>3 DEF EndsWith
  <2>5. L[w] <= c /\ L[u] <= L[w] + Weight[w][u]
    BY <2>2, <2>4
  <2>6. Weight[w][u] \in Nat /\ L[w] \in Nat /\ L[u] \in Nat
    BY PathAssumption
  <2> QED
    BY <1>2, <2>4, <2>5, <2>6
<1> QED
  BY <1>3, <1>4

\* Such lengths, when they are lengths of walks, are those of short ones.
LEMMA ShortWalks ==
  ASSUME NEW L, \A u \in Vertex : L[u] \in Nat, L[Source] <= 0,
         \A u, w \in Vertex : SP!Edge(u, w) => L[w] <= L[u] + Weight[u][w]
  PROVE  \A u \in Vertex : Walkable(u, L[u]) => <<u, L[u]>> \in SP!Walks[Cardinality(Vertex) - 1]
<1> DEFINE S == {u \in Vertex : Walkable(u, L[u])}
           Fewest(u, n) == <<u, L[u]>> \in SP!Walks[n] /\ \A m \in Nat : <<u, L[u]>> \in SP!Walks[m] => n <= m
           K == [u \in S |-> CHOOSE n \in Nat : Fewest(u, n)]
<1>1. \A n \in Nat : \A u \in Vertex, l \in Nat : <<u, l>> \in SP!Walks[n] => L[u] <= l
  BY SettledLengths
<1>2. \A u \in S : K[u] \in Nat /\ Fewest(u, K[u])
  <2> SUFFICES ASSUME NEW u \in S PROVE \E n \in Nat : Fewest(u, n)
    OBVIOUS
  <2> DEFINE x == <<u, L[u]>>
  <2>1. PICK k \in Nat : x \in SP!Walks[k]
    BY DEF Walkable
  <2> HIDE DEF x
  <2>2. \E n \in Nat : x \in SP!Walks[n] /\ \A m \in Nat : x \in SP!Walks[m] => n <= m
    BY <2>1, FirstIn
  <2> QED
    BY <2>2 DEF x
<1>3. K \in [S -> Nat] /\ S \in SUBSET Vertex
  BY <1>2
<1> HIDE DEF K
<1>4. ASSUME NEW u \in S, K[u] # 0 PROVE \E p \in S : K[p] = K[u] - 1
  <2> DEFINE k == K[u]
  <2>1. k \in Nat /\ k # 0 /\ <<u, L[u]>> \in SP!Walks[k] /\ \A m \in Nat : <<u, L[u]>> \in SP!Walks[m] => k <= m
    BY <1>2, <1>4
  <2> HIDE DEF k
  <2>2. k - 1 \in Nat /\ ~(k <= k - 1) /\ (k - 1) + 1 = k
    BY <2>1
  <2>3. EndsWith(k - 1, u, L[u])
    BY <2>1, <2>2, WalkSteps
  <2>4. PICK p \in Vertex, c \in Nat :
          <<p, c>> \in SP!Walks[k - 1] /\ SP!Edge(p, u) /\ L[u] = c + Weight[p][u]
    BY <2>3 DEF EndsWith
  <2>5. L[p] <= c /\ L[u] <= L[p] + Weight[p][u]
    BY <1>1, <2>2, <2>4
  <2>6. Weight[p][u] \in Nat /\ L[p] \in Nat /\ L[u] \in Nat
    BY PathAssumption
  <2>7. L[p] = c
    BY <2>4, <2>5, <2>6
  <2>8. p \in S
    BY <2>2, <2>4, <2>7 DEF Walkable
  <2>9. K[p] \in Nat /\ <<p, L[p]>> \in SP!Walks[K[p]] /\ K[p] <= k - 1
    BY <1>2, <2>2, <2>4, <2>7, <2>8
  <2>10. <<u, L[u]>> \in SP!Walks[K[p] + 1]
    BY <2>4, <2>7, <2>9, WalkSteps
  <2>11. k <= K[p] + 1
    BY <2>1, <2>9, <2>10
  <2>12. K[p] = k - 1
    BY <2>1, <2>9, <2>11
  <2> QED
    BY <2>8, <2>12 DEF k
<1>5. \A u \in S : K[u] < Cardinality(Vertex)
  BY <1>3, <1>4, GraphAssumption, Rungs
<1>6. ASSUME NEW u \in S PROVE <<u, L[u]>> \in SP!Walks[Cardinality(Vertex) - 1]
  <2>1. K[u] \in Nat /\ <<u, L[u]>> \in SP!Walks[K[u]]
    BY <1>2
  <2>2. Cardinality(Vertex) \in Nat
    BY GraphAssumption, FS_CardinalityType
  <2>3. Cardinality(Vertex) - 1 \in Nat /\ K[u] <= Cardinality(Vertex) - 1
    BY <1>5, <2>1, <2>2
  <2>4. SP!Walks[K[u]] \subseteq SP!Walks[Cardinality(Vertex) - 1]
    BY <2>1, <2>3, WalkSteps, Rising
  <2> QED
    BY <2>1, <2>4
<1> QED
  BY <1>6

\* Lengths that no edge could lower, and that walks have, are the distances.
LEMMA LengthsAreDistances ==
  ASSUME NEW L, \A u \in Vertex : L[u] \in Nat, L[Source] <= 0,
         \A u, w \in Vertex : SP!Edge(u, w) => L[w] <= L[u] + Weight[u][w],
         \A u \in Vertex : L[u] # Infinity => Walkable(u, L[u])
  PROVE  \A u \in Vertex : L[u] = SP!Distance[u]
<1> SUFFICES ASSUME NEW u \in Vertex PROVE L[u] = SP!Distance[u]
  OBVIOUS
<1> DEFINE near == SP!Walks[Cardinality(Vertex) - 1]
           LengthsOf(w) == {x[2] : x \in {y \in near : y[1] = w}}
           Nearest(w) == IF LengthsOf(w) = {} THEN Infinity
                         ELSE CHOOSE n \in LengthsOf(w) : \A m \in LengthsOf(w) : n <= m
           Lengths == LengthsOf(u)
<1>1. SP!Distance[u] = IF Lengths = {} THEN Infinity
                       ELSE CHOOSE n \in Lengths : \A m \in Lengths : n <= m
  <2>1. SP!Cardinality(Vertex) = Cardinality(Vertex)
    BY Zenon DEF SP!Cardinality, Cardinality
  <2>2. SP!Distance = [w \in Vertex |-> Nearest(w)]
    BY <2>1 DEF SP!Distance
  <2> HIDE DEF LengthsOf
  <2> QED
    BY <2>2
<1>0. Cardinality(Vertex) - 1 \in Nat
  <2>1. Cardinality(Vertex) \in Nat /\ Cardinality(Vertex) # 0
    BY GraphAssumption, SearchAssumption, FS_CardinalityType, FS_EmptySet
  <2> QED
    BY <2>1
<1>2. \A m \in Lengths : m \in Nat /\ L[u] <= m /\ m < Infinity
  <2> SUFFICES ASSUME NEW x \in near, x[1] = u PROVE x[2] \in Nat /\ L[u] <= x[2] /\ x[2] < Infinity
    OBVIOUS
  <2>1. x \in Vertex \X Nat
    BY <1>0, WalkFacts
  <2>2. x = <<u, x[2]>> /\ x[2] \in Nat
    BY <2>1
  <2>3. L[u] <= x[2]
    BY <1>0, <2>2, SettledLengths
  <2> QED
    BY <2>2, <2>3, PathAssumption
<1>3. Walkable(u, L[u]) => L[u] \in Lengths
  <2> SUFFICES ASSUME <<u, L[u]>> \in near PROVE L[u] \in Lengths
    BY ShortWalks
  <2>1. PICK x \in near : x = <<u, L[u]>>
    OBVIOUS
  <2>2. x[1] = u /\ x[2] = L[u]
    BY <2>1
  <2> QED
    BY <2>2
<1> HIDE DEF Lengths
<1>4. CASE L[u] \in Lengths
  <2> DEFINE n == CHOOSE l \in Lengths : \A m \in Lengths : l <= m
  <2>1. n \in Lengths /\ \A m \in Lengths : n <= m
    BY <1>2, <1>4
  <2>2. n <= L[u] /\ L[u] <= n /\ n \in Nat
    BY <1>2, <1>4, <2>1
  <2>3. n = L[u]
    BY <2>2
  <2> QED
    BY <1>1, <1>4, <2>3
<1>5. CASE L[u] \notin Lengths
  <2>1. L[u] = Infinity
    BY <1>3, <1>5
  <2>2. Lengths = {}
    BY <1>2, <2>1, PathAssumption
  <2> QED
    BY <1>1, <2>1, <2>2
<1> QED
  BY <1>4, <1>5

-----------------------------------------------------------------------------
(* The visitor queue of shortest paths alone, and its flow.                *)

PathData == [program : {"sssp"}, d : [Vertex -> Nat]]
PathWork == [SP!Start EXCEPT !.data = [r \in Rank |-> [program |-> "sssp", d |-> @[r]]]]

HeldLength(a, u) == SP!Held(a.d, u)
CarriedLength(v) == SP!Carried(v)
Longer(u, w, c) == Weight[u][w] + c
Longest(u) == Infinity

SQ == INSTANCE ReplicaFilter_proofs
       WITH InitVisit <- Visit, Payload <- Nat, AlgData <- PathData, InitialWork <- {PathWork},
            Held <- HeldLength, Carried <- CarriedLength, Passes <- Vertex

FirstPath == NewVisitor(Source, 0)
PathSeed == [rank |-> 0, step |-> "call", visitor |-> FirstPath]

\* A visitor brings the length of a walk; a copy holds one, or the largest number.
PathVisitors == {v \in SQ!Visitor : Walkable(v.vertex, v.val)}
PathLengths == {a \in PathData : \A u \in Vertex : a.d[u] # Infinity => Walkable(u, a.d[u])}

SR == INSTANCE Relaxation_proofs
       WITH items <- SQ!Items, Visitor <- SQ!Visitor, AlgData <- PathData, InitVisit <- Visit,
            Held <- HeldLength, Carried <- CarriedLength, Passes <- Vertex, Targets <- StoredTargets,
            Offer <- Longer, Ceiling <- Longest, Writes <- FALSE, Seeds <- {PathSeed},
            Sound <- PathVisitors, SoundVisit <- PathVisitors, SoundData <- PathLengths

\* What pre_visit and visit return.
LEMMA PathPreVisit ==
  ASSUME NEW r \in Rank, NEW a \in PathData, NEW v \in SQ!Visitor, NEW out \in PreVisit(r, a, v)
  PROVE  /\ out \in [ret : BOOLEAN, data : PathData]
         /\ out.ret <=> v.val < a.d[v.vertex]
         /\ \A u \in Vertex : out.data.d[u] = IF out.ret /\ u = v.vertex THEN v.val ELSE a.d[u]
<1> DEFINE p == SP!PreVisit(a.d, v)
           d == a.d
           better == d[v.vertex] > v.val
<1>1. a.program = "sssp" /\ d \in [Vertex -> Nat]
  BY DEF PathData
<1>2. v.vertex \in Vertex /\ v.val \in Nat
  BY DEF SQ!Visitor
<1>3. p = [ret |-> better, data |-> IF better THEN [d EXCEPT ![v.vertex] = v.val] ELSE d]
  BY DEF SP!PreVisit
<1>4. PreVisit(r, a, v) = {[p EXCEPT !.data = [program |-> "sssp", d |-> p.data]]}
  BY <1>1 DEF PreVisit, Tagged
<1>5. better <=> v.val < d[v.vertex]
  BY <1>1, <1>2
<1>0. better \in BOOLEAN
  OBVIOUS
<1> HIDE DEF p, better, d
<1>6. out = [ret |-> better, data |-> [program |-> "sssp", d |-> p.data]]
  BY <1>3, <1>4
<1>7. p.data = IF better THEN [d EXCEPT ![v.vertex] = v.val] ELSE d
  BY <1>3
<1>8. p.data \in [Vertex -> Nat]
  BY <1>1, <1>2, <1>7
<1>9. \A u \in Vertex : p.data[u] = IF better /\ u = v.vertex THEN v.val ELSE d[u]
  BY <1>1, <1>2, <1>7
<1>10. out \in [ret : BOOLEAN, data : PathData] /\ out.ret = better /\ out.data.d = p.data
  BY <1>0, <1>6, <1>8 DEF PathData
<1> QED
  BY <1>5, <1>9, <1>10 DEF d

LEMMA PathVisit ==
  ASSUME NEW r \in Rank, NEW a \in PathData, NEW v \in SQ!Visitor, NEW out \in Visit(r, a, v)
  PROVE  /\ out \in [ret : BOOLEAN, data : PathData, spawn : Seq(SQ!Visitor)]
         /\ out.ret <=> v.val <= a.d[v.vertex]
         /\ \A u \in Vertex : out.data.d[u] = a.d[u]
         /\ \A i \in DOMAIN out.spawn :
              /\ out.ret /\ ~out.spawn[i].bcast
              /\ Stores(r, v.vertex, out.spawn[i].vertex)
              /\ out.spawn[i].val = Longer(v.vertex, out.spawn[i].vertex, v.val)
         /\ out.ret => StoredTargets(r, v.vertex) \subseteq Addressed(out)
<1> DEFINE p == SP!Visit(r, a.d, v)
           d == a.d
           u == v.vertex
           shorter == v.val <= d[u]
           list == Stored[r][u]
           val == [w \in Vertex |-> Weight[u][w] + v.val]
           new == SP!ToNeighbours(r, u, val)
<1>1. a.program = "sssp" /\ d \in [Vertex -> Nat]
  BY DEF PathData
<1>2. u \in Vertex /\ v.val \in Nat
  BY DEF SQ!Visitor
<1>3. p = IF shorter THEN [ret |-> TRUE, data |-> d, spawn |-> new]
                     ELSE [ret |-> FALSE, data |-> d, spawn |-> << >>]
  BY DEF SP!Visit
<1>4. Visit(r, a, v) = {[p EXCEPT !.data = [program |-> "sssp", d |-> p.data]]}
  BY <1>1 DEF Visit, Tagged
<1>5. list \in Seq(Vertex)
  BY <1>2, Partition
<1>6. \A i \in DOMAIN list : list[i] \in Vertex
  BY <1>5
<1>7. \A w \in Vertex : val[w] = Longer(u, w, v.val) /\ val[w] \in Nat
  BY <1>2, PathAssumption DEF Longer
<1>0. shorter \in BOOLEAN
  OBVIOUS
<1> HIDE DEF p, val, list
<1>8. new = [i \in DOMAIN list |-> [vertex |-> list[i], bcast |-> FALSE, val |-> val[list[i]]]]
  BY DEF SP!ToNeighbours, SP!NewVisitor, list
<1>9. \A i \in DOMAIN list : [vertex |-> list[i], bcast |-> FALSE, val |-> val[list[i]]] \in SQ!Visitor
  BY <1>6, <1>7 DEF SQ!Visitor
<1> HIDE DEF new, d, shorter
<1>10. new \in Seq(SQ!Visitor) /\ DOMAIN new = DOMAIN list
  BY <1>5, <1>8, <1>9
<1>11. out = [ret |-> p.ret, data |-> [program |-> "sssp", d |-> p.data], spawn |-> p.spawn]
  BY <1>3, <1>4
<1>12. p.ret = shorter /\ p.spawn = (IF shorter THEN new ELSE << >>) /\ p.data = d
  BY <1>0, <1>3
<1>13. /\ out \in [ret : BOOLEAN, data : PathData, spawn : Seq(SQ!Visitor)]
       /\ out.ret = shorter /\ out.data.d = d /\ out.spawn = IF shorter THEN new ELSE << >>
  <2>1. p.spawn \in Seq(SQ!Visitor) /\ p.ret \in BOOLEAN
    BY <1>0, <1>10, <1>12
  <2>2. [program |-> "sssp", d |-> p.data] \in PathData
    BY <1>1, <1>12 DEF PathData
  <2>3. out \in [ret : BOOLEAN, data : PathData, spawn : Seq(SQ!Visitor)]
    BY <1>11, <2>1, <2>2
  <2>4. out.ret = p.ret /\ out.data.d = p.data /\ out.spawn = p.spawn
    BY <1>11
  <2> QED
    BY <1>12, <2>3, <2>4
<1>14. \A i \in DOMAIN out.spawn :
         /\ shorter /\ i \in DOMAIN list /\ ~out.spawn[i].bcast /\ out.spawn[i].vertex = list[i]
         /\ out.spawn[i].val = val[list[i]]
  BY <1>8, <1>10, <1>13
<1>15. shorter => \A i \in DOMAIN list : i \in DOMAIN out.spawn /\ out.spawn[i].vertex = list[i]
  BY <1>8, <1>10, <1>13
<1>16. \A i \in DOMAIN list : Stores(r, u, list[i])
  BY DEF Stores, list
<1>17. \A w \in StoredTargets(r, u) : \E i \in DOMAIN list : list[i] = w
  BY DEF StoredTargets, Stores, list
<1> QED
  BY <1>6, <1>7, <1>13, <1>14, <1>15, <1>16, <1>17 DEF d, shorter, Addressed

\* The work that shortest paths begins with.
LEMMA PathStart ==
  /\ FirstPath \in SQ!Visitor /\ ~FirstPath.bcast /\ FirstPath.vertex = Source /\ FirstPath.val = 0
  /\ PathWork = [citr |-> PathWork.citr, vitr |-> PathWork.vitr, source |-> PathWork.source,
                 data |-> PathWork.data]
  /\ PathWork.citr = [r \in Rank |-> << >>] /\ PathWork.vitr = [r \in Rank |-> << >>]
  /\ PathWork.source \in [Rank -> Seq(SQ!Visitor)]
  /\ \A r \in Rank : PathWork.source[r] = IF r = 0 THEN <<FirstPath>> ELSE << >>
  /\ PathWork.data \in [Rank -> PathData]
  /\ \A r \in Rank, u \in Vertex : PathWork.data[r].d[u] = Infinity
<1> DEFINE blank == [v \in Vertex |-> Infinity]
           sources == [Silent EXCEPT ![0] = <<FirstPath>>]
<1>1. SP!Start = [citr |-> Silent, vitr |-> Silent, source |-> sources,
                  data |-> [r \in Rank |-> blank]]
  BY DEF SP!Start, SP!FromSource, SP!Silent, Silent, FirstPath, SP!NewVisitor, NewVisitor
<1>2. blank \in [Vertex -> Nat] /\ \A u \in Vertex : blank[u] = Infinity
  BY PathAssumption
<1>3. FirstPath \in SQ!Visitor /\ ~FirstPath.bcast /\ FirstPath.vertex = Source /\ FirstPath.val = 0
  BY SearchAssumption DEF FirstPath, NewVisitor, SQ!Visitor
<1>4. sources \in [Rank -> Seq(SQ!Visitor)]
      /\ \A r \in Rank : sources[r] = IF r = 0 THEN <<FirstPath>> ELSE << >>
  <2>1. <<FirstPath>> \in Seq(SQ!Visitor) /\ << >> \in Seq(SQ!Visitor)
    BY <1>3
  <2>2. PICK one \in Seq(SQ!Visitor) : one = <<FirstPath>>
    BY <2>1
  <2>3. PICK none \in Seq(SQ!Visitor) : none = << >>
    BY <2>1
  <2>4. sources = [[r \in Rank |-> none] EXCEPT ![0] = one]
    BY <2>2, <2>3 DEF Silent
  <2> HIDE DEF sources
  <2>5. /\ sources \in [Rank -> Seq(SQ!Visitor)]
        /\ \A r \in Rank : sources[r] = IF r = 0 THEN one ELSE none
    BY <2>4, Partition
  <2> QED
    BY <2>2, <2>3, <2>5
<1> HIDE DEF blank, sources
<1>5. PathWork = [citr |-> Silent, vitr |-> Silent, source |-> sources,
                  data |-> [r \in Rank |-> [program |-> "sssp", d |-> blank]]]
  BY <1>1 DEF PathWork
<1>6. [program |-> "sssp", d |-> blank] \in PathData
  BY <1>2 DEF PathData
<1> QED
  BY <1>2, <1>3, <1>4, <1>5, <1>6 DEF Silent

LEMMA PathQueueAssumed ==
  SQ!TopologyAssumption /\ SQ!AlgorithmAssumption /\ SQ!InitialWorkAssumption
<1>1. SQ!TopologyAssumption
  BY GraphAssumption DEF SQ!TopologyAssumption
<1>2. SQ!AlgorithmAssumption
  BY PathPreVisit, PathVisit DEF SQ!AlgorithmAssumption
<1>3. SQ!InitialWorkAssumption
  <2>1. PathWork \in [citr : [Rank -> Seq(SQ!Visitor)], vitr : [Rank -> Seq(SQ!Visitor)],
                      source : [Rank -> Seq(SQ!Visitor)], data : [Rank -> PathData]]
    <3>1. [r \in Rank |-> << >>] \in [Rank -> Seq(SQ!Visitor)]
      OBVIOUS
    <3> QED
      BY <3>1, PathStart
  <2> QED
    BY <2>1 DEF SQ!InitialWorkAssumption
<1> QED
  BY <1>1, <1>2, <1>3

LEMMA PathIsPlain == SQ!NewVisitorsArePlain
<1>1. \A i \in DOMAIN <<FirstPath>> : <<FirstPath>>[i] = FirstPath
  OBVIOUS
<1>2. \A r \in Rank : \A i \in DOMAIN PathWork.source[r] : ~PathWork.source[r][i].bcast
  BY <1>1, PathStart
<1>3. ASSUME NEW r \in Rank, NEW a \in PathData, NEW v \in SQ!Visitor, NEW out \in Visit(r, a, v),
             NEW i \in DOMAIN out.spawn
      PROVE  ~out.spawn[i].bcast
  BY PathVisit
<1> QED
  BY <1>2, <1>3 DEF SQ!NewVisitorsArePlain

\* Shortest paths relax.
LEMMA PathsRelax == SR!Relaxes
<1>1. SR!GraphType
  <2>1. \A v \in SQ!Visitor :
          /\ v.vertex \in Vertex /\ CarriedLength(v) \in Nat
          /\ LET b == [v EXCEPT !.bcast = TRUE]
             IN  b \in SQ!Visitor /\ b.vertex = v.vertex /\ CarriedLength(b) = CarriedLength(v)
    <3> SUFFICES ASSUME NEW v \in SQ!Visitor
                 PROVE  /\ v.vertex \in Vertex /\ v.val \in Nat
                        /\ LET b == [v EXCEPT !.bcast = TRUE]
                           IN  b \in SQ!Visitor /\ b.vertex = v.vertex /\ b.val = v.val
      BY DEF CarriedLength, SP!Carried
    <3> QED
      BY DEF SQ!Visitor
  <2>2. \A a \in PathData, u \in Vertex : HeldLength(a, u) \in Nat
    BY DEF PathData, HeldLength, SP!Held
  <2>3. \A u, w \in Vertex, c \in Nat : Longer(u, w, c) \in Nat
    BY PathAssumption DEF Longer
  <2> QED
    BY <2>1, <2>2, <2>3, Partition, PathAssumption DEF SR!GraphType, StoredTargets, Longest
<1>2. SR!PreVisitLowers
  <2> SUFFICES ASSUME NEW r \in Rank, NEW a \in PathData, NEW v \in SQ!Visitor, NEW out \in PreVisit(r, a, v)
               PROVE  /\ out.data \in PathData
                      /\ out.ret <=> v.vertex \in Vertex /\ CarriedLength(v) < HeldLength(a, v.vertex)
                      /\ \A u \in Vertex :
                           HeldLength(out.data, u) = IF out.ret /\ u = v.vertex THEN CarriedLength(v)
                                                     ELSE HeldLength(a, u)
    BY DEF SR!PreVisitLowers
  <2>1. v.vertex \in Vertex
    BY DEF SQ!Visitor
  <2> QED
    BY <2>1, PathPreVisit DEF HeldLength, CarriedLength, SP!Held, SP!Carried
<1>3. SR!VisitOffers
  <2> SUFFICES ASSUME NEW r \in Rank, NEW a \in PathData, NEW v \in SQ!Visitor, NEW out \in Visit(r, a, v)
               PROVE  /\ out.data \in PathData
                      /\ \A i \in DOMAIN out.spawn : out.spawn[i] \in SQ!Visitor
                      /\ out.ret <=> v.vertex \in Vertex /\ CarriedLength(v) <= HeldLength(a, v.vertex)
                      /\ \A u \in Vertex :
                           HeldLength(out.data, u) = IF out.ret /\ FALSE /\ u = v.vertex
                                                     THEN CarriedLength(v) ELSE HeldLength(a, u)
                      /\ out.ret => \A w \in StoredTargets(r, v.vertex) :
                           \/ Longest(w) <= Longer(v.vertex, w, CarriedLength(v))
                           \/ \E i \in DOMAIN out.spawn :
                                /\ out.spawn[i].vertex = w
                                /\ CarriedLength(out.spawn[i]) <= Longer(v.vertex, w, CarriedLength(v))
    BY DEF SR!VisitOffers
  <2>1. v.vertex \in Vertex /\ v.val \in Nat
    BY DEF SQ!Visitor
  <2>2. out.spawn \in Seq(SQ!Visitor) /\ out.data \in PathData
    BY PathVisit
  <2>3. \A i \in DOMAIN out.spawn : out.spawn[i] \in SQ!Visitor
    BY <2>2
  <2>4. out.ret => \A w \in StoredTargets(r, v.vertex) : \E i \in DOMAIN out.spawn :
          out.spawn[i].vertex = w /\ CarriedLength(out.spawn[i]) <= Longer(v.vertex, w, CarriedLength(v))
    <3> SUFFICES ASSUME out.ret, NEW w \in StoredTargets(r, v.vertex)
                 PROVE  \E i \in DOMAIN out.spawn :
                          out.spawn[i].vertex = w /\ out.spawn[i].val <= Longer(v.vertex, w, v.val)
      BY DEF CarriedLength, SP!Carried
    <3>1. w \in Addressed(out)
      BY PathVisit
    <3>2. PICK i \in DOMAIN out.spawn : out.spawn[i].vertex = w
      BY <3>1 DEF Addressed
    <3>3. out.spawn[i].val = Longer(v.vertex, w, v.val)
      BY <3>2, PathVisit
    <3>4. out.spawn[i].val \in Nat
      BY <2>3 DEF SQ!Visitor
    <3> QED
      BY <3>2, <3>3, <3>4
  <2>5. /\ out.ret <=> CarriedLength(v) <= HeldLength(a, v.vertex)
        /\ \A u \in Vertex : HeldLength(out.data, u) = HeldLength(a, u)
    BY PathVisit DEF HeldLength, CarriedLength, SP!Held, SP!Carried
  <2> QED
    BY <2>1, <2>2, <2>3, <2>4, <2>5
<1> QED
  BY <1>1, <1>2, <1>3 DEF SR!Relaxes

LEMMA PathsStaySound ==
  /\ SR!StaysSound
  /\ \A v \in PathVisitors : v.vertex \in Vertex
<1>1. ASSUME NEW r \in Rank, NEW a \in PathLengths, NEW v \in PathVisitors, NEW out \in PreVisit(r, a, v)
      PROVE  out.data \in PathLengths
  BY PathPreVisit DEF PathLengths, PathVisitors
<1>2. ASSUME NEW r \in Rank, NEW a \in PathLengths, NEW v \in PathVisitors, NEW out \in Visit(r, a, v)
      PROVE  out.data \in PathLengths /\ \A i \in DOMAIN out.spawn : out.spawn[i] \in PathVisitors
  <2>1. a \in PathData /\ v \in SQ!Visitor
    BY DEF PathLengths, PathVisitors
  <2>2. /\ out.data \in PathData /\ out.spawn \in Seq(SQ!Visitor)
        /\ \A u \in Vertex : out.data.d[u] = a.d[u]
        /\ \A i \in DOMAIN out.spawn :
              /\ Stores(r, v.vertex, out.spawn[i].vertex)
              /\ out.spawn[i].val = Weight[v.vertex][out.spawn[i].vertex] + v.val
    BY <2>1, PathVisit DEF Longer
  <2>3. v.vertex \in Vertex /\ v.val \in Nat /\ Walkable(v.vertex, v.val)
    BY <2>1 DEF SQ!Visitor, PathVisitors
  <2>4. ASSUME NEW i \in DOMAIN out.spawn PROVE out.spawn[i] \in PathVisitors
    <3>1. out.spawn[i] \in SQ!Visitor
      BY <2>2
    <3>2. out.spawn[i].vertex \in Vertex
      BY <3>1 DEF SQ!Visitor
    <3>3. SP!Edge(v.vertex, out.spawn[i].vertex)
      BY <2>2 DEF SP!Edge, SP!Stores, Stores
    <3>4. Walkable(out.spawn[i].vertex, v.val + Weight[v.vertex][out.spawn[i].vertex])
      BY <2>3, <3>2, <3>3, WalkSteps
    <3>5. Weight[v.vertex][out.spawn[i].vertex] + v.val = v.val + Weight[v.vertex][out.spawn[i].vertex]
      BY <2>3, <3>2, PathAssumption
    <3> QED
      BY <2>2, <3>1, <3>4, <3>5 DEF PathVisitors
  <2> QED
    BY <2>2, <2>4 DEF PathLengths
<1>3. ASSUME NEW v \in PathVisitors PROVE [v EXCEPT !.bcast = TRUE] \in PathVisitors
  BY DEF PathVisitors, SQ!Visitor
<1> QED
  BY <1>1, <1>2, <1>3 DEF SR!StaysSound, PathVisitors, SQ!Visitor

LEMMA SamePathNext ==
  [Next]_vars => [SQ!Next]_(SQ!vars)
<1>1. \A r \in Rank :
        /\ StartController(r) => SQ!StartController(r)
        /\ StartVertex(r) => SQ!StartVertex(r)
  BY Zenon DEF StartController, SQ!StartController, StartVertex, SQ!StartVertex,
         StartVisit, SQ!StartVisit, VisitOps, SQ!VisitOps, Queue, SQ!Queue, Idle,
         SQ!Idle, Running, SQ!Running, mailbox, SQ!mailbox
<1>2. \A r \in Rank :
        /\ ProcessPendingController(r) => SQ!ProcessPendingController(r)
        /\ EndPending(r) => SQ!EndPending(r)
        /\ WhileNotEmpty(r) => SQ!WhileNotEmpty(r)
        /\ NextStart(r) => SQ!NextStart(r)
  BY Zenon DEF ProcessPendingController, SQ!ProcessPendingController, EndPending,
         SQ!EndPending, WhileNotEmpty, SQ!WhileNotEmpty, NextStart, SQ!NextStart, Queue,
         SQ!Queue, Idle, SQ!Idle, Running, SQ!Running, Empty, SQ!Empty, mailbox,
         SQ!mailbox, EmptyBag, SQ!EmptyBag, SetToBag, SQ!SetToBag
<1>3. \A r \in Rank :
        /\ PopAndVisit(r) => SQ!PopAndVisit(r)
        /\ PopOfEmptyQueue(r) => SQ!PopOfEmptyQueue(r)
  BY Zenon DEF PopAndVisit, SQ!PopAndVisit, PopOfEmptyQueue, SQ!PopOfEmptyQueue,
         VisitOps, SQ!VisitOps, Queue, SQ!Queue, Idle, SQ!Idle, Running, SQ!Running,
         mailbox, SQ!mailbox, Remove, SQ!Remove, EmptyBag, SQ!EmptyBag, BagToSet,
         SQ!BagToSet, SetToBag, SQ!SetToBag, (-), SQ!(-)
<1>4. \A r \in Rank :
        /\ QueueVisitor(r) => SQ!QueueVisitor(r)
        /\ SendBcast(r) => SQ!SendBcast(r)
  BY Zenon DEF QueueVisitor, SQ!QueueVisitor, SendBcast, SQ!SendBcast, Performing,
         SQ!Performing, QueueHere, SQ!QueueHere, Push, SQ!Push, Send, SQ!Send, Running,
         SQ!Running, Add, SQ!Add, SetToBag, SQ!SetToBag, (+), SQ!(+)
<1>5. \A r \in Rank :
        /\ BatchFull(r) => SQ!BatchFull(r)
        /\ TestGlobalEmpty(r) => SQ!TestGlobalEmpty(r)
        /\ DestroyMailbox(r) => SQ!DestroyMailbox(r)
  BY Zenon DEF BatchFull, SQ!BatchFull, TestGlobalEmpty, SQ!TestGlobalEmpty,
         DestroyMailbox, SQ!DestroyMailbox, EnterExchange, SQ!EnterExchange, Idle,
         SQ!Idle, Running, SQ!Running, Empty, SQ!Empty, local, SQ!local, Slot, SQ!Slot,
         EmptyBag, SQ!EmptyBag, SetToBag, SQ!SetToBag, (+), SQ!(+)
<1>6. \A r \in Rank :
        /\ Deliver(r) => SQ!Deliver(r)
        /\ FinishExchange(r) => SQ!FinishExchange(r)
  BY Zenon DEF Deliver, SQ!Deliver, FinishExchange, SQ!FinishExchange,
         HandleMailboxReceive, SQ!HandleMailboxReceive, Push, SQ!Push, AllEntered,
         SQ!AllEntered, Return, SQ!Return, TotalIsZero, SQ!TotalIsZero, Slot, SQ!Slot,
         Add, SQ!Add, Remove, SQ!Remove, EmptyBag, SQ!EmptyBag, BagToSet, SQ!BagToSet,
         SetToBag, SQ!SetToBag, (+), SQ!(+), (-), SQ!(-)
<1> QED
  BY Zenon, <1>1, <1>2, <1>3, <1>4, <1>5, <1>6 DEF vars, SQ!vars, Next, SQ!Next, Step,
         SQ!Step, Done, SQ!Done, Aborted, SQ!Aborted

\* A traversal of shortest paths begins as its queue does.
LEMMA PathsOrOther == Init => SQ!Init \/ Others("sssp")
<1> SUFFICES ASSUME Init, ~Others("sssp") PROVE SQ!Init
  OBVIOUS
<1>1. PICK w : Begins("sssp", w)
  BY OneProgram DEF Others
<1>2. \A vs : SQ!Queue(vs) = Queue(vs)
  BY DEF SQ!Queue, Queue
<1>3. SQ!EmptyBag = EmptyBag
  BY DEF SQ!EmptyBag, EmptyBag, SQ!SetToBag, SetToBag
<1>4. \E x \in {PathWork} : /\ citr = x.citr /\ vitr = x.vitr /\ data = x.data
                            /\ todo = [r \in Rank |-> SQ!Queue(x.source[r])]
  BY <1>1, <1>2 DEF Begins, PathWork, StartOf
<1> QED
  BY <1>3, <1>4 DEF Init, SQ!Init

LEMMA PathsBegin ==
  ASSUME SQ!Init
  PROVE  /\ SQ!Items = {PathSeed}
         /\ data \in [Rank -> PathData]
         /\ \A r \in Rank, u \in Vertex : data[r].d[u] = Infinity
<1>1. /\ citr = PathWork.citr /\ vitr = PathWork.vitr /\ data = PathWork.data
      /\ todo = [r \in Rank |-> SQ!Queue(PathWork.source[r])]
  BY DEF SQ!Init
<1>2. \A x \in SQ!Items :
        \/ /\ x.step = "start"
           /\ x.visitor \in SQ!Elements(PathWork.citr[x.rank]) \cup SQ!Elements(PathWork.vitr[x.rank])
        \/ x.step = "call" /\ x.visitor \in SQ!Elements(PathWork.source[x.rank])
  BY <1>1, SQ!InitItems, PathQueueAssumed
<1>3. SQ!Elements(<< >>) = {} /\ SQ!Elements(<<FirstPath>>) = {FirstPath}
  BY DEF SQ!Elements
<1>4. ASSUME NEW x \in SQ!Items PROVE x = PathSeed
  <2>1. x \in [rank : Rank, step : {"start", "call", "sent", "visit", "hear"}, visitor : SQ!Visitor]
    BY DEF SQ!Items
  <2>2. x.step = "call" /\ x.visitor \in SQ!Elements(PathWork.source[x.rank])
    BY <1>2, <1>3, <2>1, PathStart
  <2>3. x.rank = 0 /\ x.visitor = FirstPath
    BY <1>3, <2>1, <2>2, PathStart
  <2> QED
    BY <2>1, <2>2, <2>3 DEF PathSeed
<1>5. PathSeed \in SQ!Items
  <2>1. 0 \in Rank /\ FirstPath \in SQ!Visitor /\ <<FirstPath>> \in Seq(SQ!Visitor)
    BY Partition, PathStart
  <2>2. todo[0] = SQ!Queue(<<FirstPath>>)
    BY <1>1, <2>1, PathStart
  <2>3. SQ!Those(SQ!Queue(<<FirstPath>>), "queue_visitor") = SQ!Elements(<<FirstPath>>)
    BY <2>1, SQ!ThoseOfQueue, PathQueueAssumed
  <2>4. FirstPath \in SQ!Calling(0)
    BY <1>3, <2>2, <2>3 DEF SQ!Calling
  <2> QED
    BY <2>1, <2>4 DEF SQ!Items, SQ!Waits, PathSeed
<1> QED
  BY <1>1, <1>4, <1>5, PathStart

LEMMA PathsStart ==
  ASSUME SQ!Init
  PROVE  SR!Starts /\ SR!SoundInv
<1>1. /\ SQ!Items = {PathSeed}
      /\ data \in [Rank -> PathData]
      /\ \A r \in Rank, u \in Vertex : data[r].d[u] = Infinity
  BY PathsBegin
<1>2. \A r \in Rank, u \in Vertex : SR!H(r, u) = Infinity
  BY <1>1 DEF SR!H, HeldLength, SP!Held
<1>3. /\ PathSeed.rank = 0 /\ PathSeed.step = "call" /\ PathSeed.visitor = FirstPath
      /\ PathSeed \in SR!Item /\ FirstPath \in SQ!Visitor /\ FirstPath.vertex = Source /\ FirstPath.val = 0
  BY Partition, PathStart DEF PathSeed, SR!Item
<1>4. \A u \in Vertex : Master[u] \in Rank
  BY Partition
<1>5. Infinity <= Infinity /\ \A u, w \in Vertex : Infinity <= Weight[u][w] + Infinity
  BY PathAssumption
<1>6. SR!Starts
  <2>1. SR!Init
    BY <1>1, <1>3 DEF SR!Init
  <2>2. {PathSeed} \subseteq SQ!Items /\ \A x \in {PathSeed} : x.step = "call" /\ x.visitor.vertex \in Vertex
    BY <1>1, <1>3, SearchAssumption
  <2>3. \A x \in SQ!Items : x.step # "start"
    BY <1>1, <1>3
  <2>4. \A u \in Vertex : SR!H(Master[u], u) <= Longest(u)
    BY <1>2, <1>4, <1>5 DEF Longest
  <2>5. ASSUME NEW h \in Delegate, NEW r \in Rank PROVE SR!H(Master[h], h) <= SR!H(r, h)
    <3>1. SR!H(Master[h], h) = Infinity /\ SR!H(r, h) = Infinity
      BY <1>2, <1>4, Partition
    <3> QED
      BY <1>5, <3>1
  <2>6. ASSUME NEW u \in Vertex, NEW r \in Rank
        PROVE  \A w \in StoredTargets(r, u) : Longest(w) <= Longer(u, w, SR!H(Master[u], u))
    BY <1>2, <1>4, <1>5 DEF Longest, Longer, StoredTargets
  <2> QED
    BY <2>1, <2>2, <2>3, <2>4, <2>5, <2>6 DEF SR!Starts
<1>7. SR!SoundInv
  <2>1. data \in [Rank -> PathLengths]
    BY <1>1 DEF PathLengths
  <2>2. FirstPath \in PathVisitors
    BY <1>3, WalkSteps DEF PathVisitors
  <2> QED
    BY <1>1, <1>3, <2>1, <2>2, Partition DEF SR!SoundInv
<1> QED
  BY <1>6, <1>7

LEMMA SamePathFlow ==
  [SQ!Flow!Next]_<<SQ!Items, data>> => [SR!Next]_<<SQ!Items, data>>
BY DEF SQ!Flow!Next, SR!Next, SQ!Flow!Start, SR!Start, SQ!Flow!Call, SR!Call, SQ!Flow!Receive, SR!Receive,
       SQ!Flow!Run, SR!Run, SQ!Flow!Hear, SR!Hear, SQ!Flow!Moves, SR!Moves, SQ!Flow!Became, SR!Became,
       SQ!Flow!Calls, SR!Calls, SQ!Flow!Broadcast, SR!Broadcast, SQ!Flow!At, SR!At

LEMMA SettledMeansShortest ==
  ASSUME SR!IInv, SR!SoundInv, SQ!LeaveOnlyWhenQuiescent
  PROVE  PathsAreShortest
<1> SUFFICES ASSUME Finished PROVE \A v \in Vertex : Result[Master[v]][v] = SP!Distance[v]
  BY DEF PathsAreShortest
<1>1. SQ!Items = {}
  <2>1. \E q \in Rank : SQ!HasLeft(q)
    BY Partition DEF Finished, HasLeft, SQ!HasLeft
  <2> QED
    BY <2>1, SQ!QuiescentFlow, PathQueueAssumed DEF SQ!LeaveOnlyWhenQuiescent
<1>2. SR!Settled
  BY <1>1, PathsRelax, SR!EmptySettled
<1> DEFINE L == [u \in Vertex |-> SR!H(Master[u], u)]
<1>3. \A u \in Vertex : Master[u] \in Rank
  BY Partition
<1>4. \A q \in Rank, u \in Vertex : SR!H(q, u) \in Nat
  BY PathsRelax, SR!HeldType DEF SR!IInv
<1>5. \A u \in Vertex : L[u] = SR!H(Master[u], u) /\ L[u] \in Nat /\ L[u] = data[Master[u]].d[u]
  BY <1>3, <1>4 DEF SR!H, HeldLength, SP!Held
<1> HIDE DEF L
<1>6. L[Source] <= 0
  <2>1. PathSeed.visitor.vertex = Source /\ CarriedLength(PathSeed.visitor) = 0
    BY PathStart DEF PathSeed, CarriedLength, SP!Carried
  <2>2. \A x \in {PathSeed} : SR!H(Master[x.visitor.vertex], x.visitor.vertex) <= CarriedLength(x.visitor)
    BY <1>2 DEF SR!Settled
  <2> QED
    BY <1>5, <2>1, <2>2, SearchAssumption
<1>7. ASSUME NEW u \in Vertex, NEW w \in Vertex, SP!Edge(u, w) PROVE L[w] <= L[u] + Weight[u][w]
  <2>1. PICK q \in Rank : Stores(q, u, w)
    BY <1>7 DEF SP!Edge, SP!Stores, Stores
  <2>2. SR!HoldsCopy(q, u)
    BY <2>1, Partition DEF SR!HoldsCopy, HoldsCopy
  <2>3. w \in StoredTargets(q, u)
    BY <2>1 DEF StoredTargets
  <2>4. SR!H(Master[w], w) <= Longer(u, w, SR!H(Master[u], u))
    BY <1>2, <2>2, <2>3 DEF SR!Settled
  <2>5. Longer(u, w, L[u]) = L[u] + Weight[u][w]
    BY <1>5, PathAssumption DEF Longer
  <2> QED
    BY <1>5, <2>4, <2>5
<1>8. \A u \in Vertex : L[u] # Infinity => Walkable(u, L[u])
  <2> SUFFICES ASSUME NEW u \in Vertex, L[u] # Infinity PROVE Walkable(u, L[u])
    OBVIOUS
  <2>1. data[Master[u]] \in PathLengths
    BY <1>3 DEF SR!SoundInv
  <2> QED
    BY <1>5, <2>1 DEF PathLengths
<1>9. \A u \in Vertex : L[u] = SP!Distance[u]
  <2>1. \A u \in Vertex : L[u] \in Nat
    BY <1>5
  <2> QED
    BY <1>6, <1>7, <1>8, <2>1, LengthsAreDistances
<1> QED
  BY <1>3, <1>5, <1>9 DEF Result

\* A traversal of shortest paths keeps the two invariants of its flow.
LEMMA PathsKeep ==
  SQ!Init /\ [][Next]_vars => [](SR!IInv /\ SR!SoundInv /\ SQ!LeaveOnlyWhenQuiescent)
<1>1. SQ!Init /\ [][Next]_vars => SQ!Spec
  BY SamePathNext, PTL DEF SQ!Spec
<1>2. SQ!Spec => [][SR!Next]_<<SQ!Items, data>>
  <2>1. SQ!Spec => SQ!Flow!Spec
    BY SQ!VisitorsFlow, PathQueueAssumed, PathIsPlain
  <2> QED
    BY <2>1, SamePathFlow, PTL DEF SQ!Flow!Spec
<1>3. SR!Starts /\ [][SR!Next]_<<SQ!Items, data>> => []SR!IInv
  BY PathsRelax, SR!FlowKeepsOffers
<1>4. SR!SoundInv /\ [][SR!Next]_<<SQ!Items, data>> => []SR!SoundInv
  <2>1. Master \in [Vertex -> Rank]
    BY Partition
  <2> QED
    BY <2>1, PathsStaySound, SR!FlowStaysSound
<1>5. SQ!Spec => []SQ!LeaveOnlyWhenQuiescent
  BY SQ!TerminationIsSafe, PathQueueAssumed
<1>6. SQ!Init => SR!Starts /\ SR!SoundInv
  BY PathsStart
<1> QED
  BY <1>1, <1>2, <1>3, <1>4, <1>5, <1>6, PTL

\* When every rank has returned from single-source shortest paths, the master of
\* every vertex holds the length of its shortest path, though visit never writes
\* a length and broadcasts never reach the replicas' lengths.
THEOREM PathsFound == Spec => []PathsAreShortest
<1>1. Others("sssp") /\ [Next]_vars => Others("sssp")'
  BY OthersStay
<1>2. Others("sssp") => PathsAreShortest
  BY OthersRun DEF PathsAreShortest
<1>3. SR!IInv /\ SR!SoundInv /\ SQ!LeaveOnlyWhenQuiescent => PathsAreShortest
  BY SettledMeansShortest
<1> QED
  BY <1>1, <1>2, <1>3, PathsOrOther, PathsKeep, PTL DEF Spec

-----------------------------------------------------------------------------
(* The filter of the replicas.                                             *)

\* Shortest paths filter.
LEMMA PathsFilter == SQ!Filters
<1>1. SR!GraphType /\ SR!PreVisitLowers /\ SR!VisitOffers
  BY PathsRelax DEF SR!Relaxes
<1>2. /\ \A a \in PathData, u \in Vertex : HeldLength(a, u) \in Nat
      /\ \A v \in SQ!Visitor : CarriedLength(v) \in Nat
  BY <1>1 DEF SR!GraphType
<1>3. ASSUME NEW r \in Rank, NEW a \in PathData, NEW v \in SQ!Visitor, NEW out \in PreVisit(r, a, v)
      PROVE  /\ out.ret <=> v.vertex \in Vertex /\ CarriedLength(v) < HeldLength(a, v.vertex)
             /\ \A u \in Vertex :
                  HeldLength(out.data, u) = IF out.ret /\ u = v.vertex THEN CarriedLength(v) ELSE HeldLength(a, u)
  BY <1>1 DEF SR!PreVisitLowers
<1>4. ASSUME NEW r \in Rank, NEW a \in PathData, NEW v \in SQ!Visitor, NEW out \in Visit(r, a, v), NEW u \in Vertex
      PROVE  \/ HeldLength(out.data, u) = HeldLength(a, u)
             \/ u = v.vertex /\ HeldLength(out.data, u) = CarriedLength(v) /\ CarriedLength(v) <= HeldLength(a, u)
  BY <1>1 DEF SR!VisitOffers
<1> QED
  BY <1>2, <1>3, <1>4 DEF SQ!Filters

\* Its flow and its queue speak of the same places.
LEMMA PathsLevelled ==
  /\ SR!IInv => SQ!Levelled
  /\ SR!Starts => SQ!StartsLevel
BY DEF SR!IInv, SR!PlaceInv, SQ!Levelled, SR!H, SQ!H, SR!Starts, SQ!StartsLevel

PathFilter == FilterFor("sssp", SP!Held, SP!Carried)

LEMMA PathsFiltered == SQ!FilterInv => PathFilter
<1> SUFFICES ASSUME SQ!FilterInv, NEW h \in Delegate, NEW r \in Rank,
                    SP!Held(Result[r], h) < SP!Held(Result[Master[h]], h)
             PROVE  OnItsWay(r, h, SP!Held(Result[r], h), SP!Carried)
  BY DEF PathFilter, FilterFor
<1>1. Master[h] \in Rank
  BY Partition
<1>2. SQ!H(r, h) < SQ!H(Master[h], h) /\ SQ!H(r, h) = SP!Held(Result[r], h)
  BY <1>1 DEF SQ!H, HeldLength, Result
<1>3. PICK v : SQ!Underway(r, h, v) /\ SQ!Brings(v, h, SP!Held(Result[r], h))
  BY <1>2 DEF SQ!FilterInv, SQ!Explained
<1>4. v.vertex = h /\ ~v.bcast /\ SP!Carried(v) = SP!Held(Result[r], h)
  BY <1>3 DEF SQ!Brings, CarriedLength
<1>5. \E b \in {box[r][Master[h]], wire[Master[h]][0], wire[Master[h]][1]} : v \in BagToSet(b)
  <2>1. \A b : SQ!BagToSet(b) = BagToSet(b)
    BY DEF SQ!BagToSet, BagToSet
  <2>2. \A p \in 0..1 : p = 0 \/ p = 1
    OBVIOUS
  <2> QED
    BY <1>3, <2>1, <2>2 DEF SQ!Underway
<1> QED
  BY <1>4, <1>5 DEF OnItsWay

LEMMA PathsKeepFilter == SQ!Init /\ [][Next]_vars => []PathFilter
<1>1. SQ!Init /\ [][Next]_vars => SQ!Spec
  BY SamePathNext, PTL DEF SQ!Spec
<1>2. SQ!Spec /\ SQ!StartsLevel /\ []SQ!Levelled => []SQ!FilterInv
  BY SQ!ReplicasAreExplained, PathQueueAssumed, PathIsPlain, PathsFilter
<1>3. SQ!Init => SQ!StartsLevel
  BY PathsStart, PathsLevelled
<1>4. SR!IInv => SQ!Levelled
  BY PathsLevelled
<1> QED
  BY <1>1, <1>2, <1>3, <1>4, PathsKeep, PathsFiltered, PTL
=============================================================================
