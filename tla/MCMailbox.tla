----------------------------- MODULE MCMailbox -----------------------------
(***************************************************************************)
(* The mailboxes on two nodes of two cores: the smallest world in which    *)
(* nlnr has all its exchanges, a rank that is a door and one that is not.  *)
(***************************************************************************)
EXTENDS YgmJob

\* Rank 0 may send two messages and rank 3 one, of their own accord or in answer
\* to one they receive; in the variants each of them one.
Some ==
  [k \in Kinds |-> [r \in Rank |-> IF r = 0 /\ k = "nlnr" THEN 2 ELSE IF r \in {0, 3} THEN 1 ELSE 0]]
AllKinds == Kinds
=============================================================================
