------------------------- MODULE CollectiveExchange -------------------------
(***************************************************************************)
(* What an exchange among a group of ranks promises: every member enters   *)
(* it with messages for others, receives all that was sent to it in this   *)
(* same exchange and nothing else, and learns whether the exchange carried *)
(* anything at all.  It is the contract of a comm_exchanger towards the    *)
(* mailbox, and of the whole mailbox's do_exchange towards the visitor     *)
(* queue.                                                                  *)
(***************************************************************************)
EXTENDS Naturals, Bags

CONSTANT Member

VARIABLES
  answer,   \* of the last exchange: "empty" or "some"; "none" inside one
  round,    \* exchanges entered
  carries,  \* k % 2 \in carries[m]: m brought something to exchange k
  wire      \* wire[m][k % 2]: messages for m still to be received in exchange k

vars == <<answer, round, carries, wire>>

Slot(k) == k % 2

Inside(m) == answer[m] = "none"

Init ==
  /\ answer = [m \in Member |-> "empty"]
  /\ round = [m \in Member |-> 0]
  /\ carries = [m \in Member |-> {}]
  /\ wire = [m \in Member |-> [p \in 0..1 |-> EmptyBag]]

\* A member enters with any messages, as long as it announces that it has some.
Enter(m) ==
  LET p == Slot(round[m] + 1)
  IN  /\ ~Inside(m)
      /\ answer' = [answer EXCEPT ![m] = "none"]
      /\ round' = [round EXCEPT ![m] = @ + 1]
      /\ \/ carries' = [carries EXCEPT ![m] = @ \cup {p}]
         \/ /\ carries' = [carries EXCEPT ![m] = @ \ {p}]
            /\ wire' = wire
      /\ \A d \in Member :
           /\ wire[d][p] \sqsubseteq wire'[d][p]
           /\ wire'[d][1 - p] = wire[d][1 - p]

\* A member receives some of the messages for it in its exchange.
Receive(m) ==
  LET p == Slot(round[m])
  IN  /\ Inside(m)
      /\ UNCHANGED <<answer, round, carries>>
      /\ wire'[m][p] # wire[m][p]
      /\ wire'[m][p] \sqsubseteq wire[m][p]
      /\ wire' = [wire EXCEPT ![m][p] = wire'[m][p]]

\* A member leaves when everybody has entered and nothing is left for it.
Leave(m) ==
  LET p == Slot(round[m])
  IN  /\ Inside(m)
      /\ \A q \in Member : round[q] >= round[m]
      /\ answer' = [answer EXCEPT ![m] =
                      IF \A q \in Member : p \notin carries[q] THEN "empty" ELSE "some"]
      /\ wire[m][p] = EmptyBag
      /\ UNCHANGED <<round, carries, wire>>

Next == \E m \in Member : Enter(m) \/ Receive(m) \/ Leave(m)

Spec == Init /\ [][Next]_vars
=============================================================================
