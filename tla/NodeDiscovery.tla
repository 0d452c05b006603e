---------------------------- MODULE NodeDiscovery ----------------------------
(***************************************************************************)
(* How the ranks of a node find each other (comm::init_nl_comm of          *)
(* include/ygm/impl/mpi.ipp): through one shared-memory object, whose name *)
(* is the same on every node and in every job.  World ranks take turns at  *)
(* it; those of one node read the same smallest rank from it in the end,   *)
(* which is the color of their communicator.                               *)
(***************************************************************************)
EXTENDS Communicators, Integers

\* Objects are named by the ranks that create them, and Old is one that an
\* earlier job has left behind.
NoObject == -1
Old == -2

VARIABLES
  step,    \* "start", "unlinked", "counted", "read" or "done"
  named,   \* named[n]: the object that the name stands for on node n
  content, \* content[o]: the pair in an object, o the rank that created it
  mapped,  \* the object that a rank has opened and mapped
  color    \* color[r]: local_color, min_shm_rank before the second barrier

vars == <<step, named, content, mapped, color>>

Init ==
  /\ step = [r \in Rank |-> "start"]
  /\ named \in [0..(Nodes - 1) -> {NoObject, Old}]
  /\ content = [o \in Rank \cup {Old} |-> [first |-> 0, second |-> 0]]
  /\ mapped = [r \in Rank |-> NoObject]
  /\ color = [r \in Rank |-> -1]

\* A barrier that r waits in opens when everybody has come to it.
AllPast(steps) == \A q \in Rank : step[q] \notin steps

Unlink(r) ==
  /\ step[r] = "start"
  /\ named' = [named EXCEPT ![Node(r)] = NoObject]
  /\ step' = [step EXCEPT ![r] = "unlinked"]
  /\ UNCHANGED <<content, mapped, color>>

\* Mutation of InTurn: the first barrier is missing.
InTurnUnwaited(r) == r > 0 => step[r - 1] \notin {"start", "unlinked"}

\* After the first barrier, rank 0 goes first and each rank tells the next.
InTurn(r) == AllPast({"start"}) /\ (r > 0 => step[r - 1] # "unlinked")

\* r opens the object, or creates it, and enters itself.
Count(r) ==
  LET old == named[Node(r)]
      Entered(c) == [first |-> IF r < c.first THEN r ELSE c.first, second |-> c.second + 1]
  IN  /\ step[r] = "unlinked" /\ InTurn(r)
      /\ IF old = NoObject
         THEN /\ named' = [named EXCEPT ![Node(r)] = r]
              /\ mapped' = [mapped EXCEPT ![r] = r]
              /\ content' = [content EXCEPT ![r] = [first |-> r, second |-> 1]]
         ELSE /\ mapped' = [mapped EXCEPT ![r] = old]
              /\ content' = [content EXCEPT ![old] = Entered(@)]
              /\ UNCHANGED named
      /\ step' = [step EXCEPT ![r] = "counted"]
      /\ UNCHANGED color

\* After the second barrier.
Read(r) ==
  /\ step[r] = "counted" /\ AllPast({"start", "unlinked"})
  /\ color' = [color EXCEPT ![r] = content[mapped[r]].first]
  /\ step' = [step EXCEPT ![r] = "read"]
  /\ UNCHANGED <<named, content, mapped>>

\* After the third, the rank that created the object removes its name.
Leave(r) ==
  /\ step[r] = "read" /\ AllPast({"start", "unlinked", "counted"})
  /\ named' = [named EXCEPT ![Node(r)] = IF mapped[r] = r THEN NoObject ELSE @]
  /\ step' = [step EXCEPT ![r] = "done"]
  /\ UNCHANGED <<content, mapped, color>>

Step(r) == Unlink(r) \/ Count(r) \/ Read(r) \/ Leave(r)

Next == \E r \in Rank : Step(r)

Spec == Init /\ [][Next]_vars

-----------------------------------------------------------------------------
\* Everybody is in MPI_Comm_split, which makes comm_nl of equal colors.
Found == \A r \in Rank : step[r] = "done"

\* Then the ranks with the color of r are the ranks of its node, although an
\* earlier job may have left its object behind; and this job leaves none.
NodesAreFound ==
  Found =>
    /\ \A r \in Rank : {q \in Rank : color[q] = color[r]} = Nl[r]
    /\ \A n \in DOMAIN named : named[n] = NoObject
=============================================================================
