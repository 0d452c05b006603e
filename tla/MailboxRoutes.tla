---------------------------- MODULE MailboxRoutes ---------------------------
(***************************************************************************)
(* One message, or one broadcast, on its way through the exchanges of one  *)
(* of the mailboxes (MailboxRouting).                                      *)
(***************************************************************************)
EXTENDS MailboxRouting, Bags

VARIABLES
  mail,     \* the mailbox
  origin,   \* world rank of the sender
  goal,     \* world rank, the sender itself for a broadcast
  exchange, \* the exchange that comes next
  copies,   \* hops under way, a bag
  handled   \* how often each rank has handled the message

route == <<mail, origin, goal, exchange, copies, handled>>

RouteInit ==
  /\ mail \in Kinds
  /\ origin \in Rank /\ goal \in Rank
  /\ exchange = First
  /\ copies = SetToBag(IF goal = origin THEN DoSendBcast(mail, origin, "data")
                       ELSE DoSend(mail, origin, goal, "data"))
  /\ handled = [r \in Rank |-> 0]

\* All copies of a stage arrive; each rank relays what it gets.
HandOn ==
  LET arriving == {h \in DOMAIN copies : h.stage = exchange}
      waiting == DOMAIN copies \ arriving
      relayed == UNION {Relay(mail, exchange, h.to, h.msg) : h \in arriving}
      Sources(next) == {h \in arriving : next \in Relay(mail, exchange, h.to, h.msg)}
      Copies(H) == MapThenSumSet(LAMBDA h : copies[h], H)
  IN  /\ exchange <= Last(mail)
      /\ exchange' = exchange + 1
      /\ copies' = [h \in waiting |-> copies[h]] (+) [h \in relayed |-> Copies(Sources(h))]
      /\ handled' = [r \in Rank |-> handled[r] +
           Copies({h \in arriving : h.to = r /\ IsForMe(mail, exchange, r, h.msg)})]
      /\ UNCHANGED <<mail, origin, goal>>

Arrived == exchange > Last(mail) /\ UNCHANGED route

RouteNext == HandOn \/ Arrived

RouteSpec == RouteInit /\ [][RouteNext]_route

\* A message is handled once by its destination and by nobody else, and a
\* broadcast once by every rank but its sender, whatever the number of nodes
\* and cores: also when the last layers have no node.  Nothing is left over
\* after the last exchange.
DeliveredOnce ==
  exchange > Last(mail) =>
    /\ copies = EmptyBag
    /\ \A r \in Rank :
         handled[r] = IF (goal = origin /\ r # origin) \/ (goal # origin /\ r = goal) THEN 1 ELSE 0
=============================================================================
