------------------------------ MODULE Mailbox ------------------------------
(***************************************************************************)
(* The mailboxes of include/ygm: mailbox_p2p_nlnr.hpp, which the visitor   *)
(* queue uses, and its three variants.  A do_exchange is up to three       *)
(* exchanges in a row among different groups of ranks (MailboxRouting);    *)
(* each hands its total on to the next as extracount.  What one            *)
(* comm_exchanger does is taken from CollectiveExchange here (see          *)
(* CommExchanger): all members post, receive, and leave with the sum.      *)
(***************************************************************************)
EXTENDS MailboxRouting, Bags

CONSTANTS
  Kind,    \* the mailboxes to check
  Batch,   \* m_batch_size
  MaxMade  \* bound: MaxMade[k][r] messages that r sends or broadcasts in kind k

VARIABLES
  kind,      \* the mailbox
  pc,        \* "running", "closing" in the destructor, "gone"
  made,      \* m_local_send + m_local_bcast
  sendCount, \* m_send_count
  out,       \* out[r]: hops queued in the three exchangers of r, a bag
  deferred,  \* m_send_queue and m_bcast_queue
  stage,     \* the exchange that r is in, 0 outside do_exchange
  round,     \* m_count_exchanges
  total,     \* total of the current or last do_exchange
  posted,    \* posted[r][s][k % 2]: second count of r in stage s of exchange k
  wire       \* wire[r][s][k % 2]: messages for r in stage s of exchange k, a bag

vars == <<kind, pc, made, sendCount, out, deferred, stage, round, total, posted, wire>>

\* nrroute also enters an exchange when m_per_node_send_count, which is never
\* counted up, reaches 2 * m_batch_size / m_num_nodes: never, or else always.
ASSUME MailboxAssumption ==
  /\ Kind \subseteq Kinds
  /\ Batch \in Nat \ {0} /\ 2 * Batch >= Nodes
  /\ MaxMade \in [Kind -> [Rank -> Nat]]

Stages == 1..3

Slot(k) == k % 2

\* A call of send or send_bcast; the message is named by its sender and number.
Calls(r) ==
  {[bcast |-> FALSE, dest |-> d, data |-> <<r, made[r]>>] : d \in Rank \ {r}}
    \cup {[bcast |-> TRUE, dest |-> r, data |-> <<r, made[r]>>]}

\* The hops that a call queues.
Hops(r, call) ==
  IF call.bcast THEN DoSendBcast(kind, r, call.data) ELSE DoSend(kind, r, call.dest, call.data)

Init ==
  /\ kind \in Kind
  /\ pc = [r \in Rank |-> "running"]
  /\ made = [r \in Rank |-> 0]
  /\ sendCount = [r \in Rank |-> 0]
  /\ out = [r \in Rank |-> EmptyBag]
  /\ deferred = [r \in Rank |-> {}]
  /\ stage = [r \in Rank |-> 0]
  /\ round = [r \in Rank |-> 0]
  /\ total = [r \in Rank |-> 0]
  /\ posted = [r \in Rank |-> [s \in Stages |-> [p \in 0..1 |-> 0]]]
  /\ wire = [r \in Rank |-> [s \in Stages |-> [p \in 0..1 |-> EmptyBag]]]

-----------------------------------------------------------------------------
\* send to another rank, or send_bcast, outside do_exchange.  (A message to the
\* own rank is handled at once and never enters the mailbox.)
Send(r) ==
  /\ pc[r] = "running" /\ stage[r] = 0 /\ sendCount[r] < Batch
  /\ made[r] < MaxMade[kind][r]
  /\ \E call \in Calls(r) :
       /\ out' = [out EXCEPT ![r] = @ (+) SetToBag(Hops(r, call))]
       /\ sendCount' = [sendCount EXCEPT ![r] = @ + Cardinality(Hops(r, call))]
  /\ made' = [made EXCEPT ![r] = @ + 1]
  /\ UNCHANGED <<pc, deferred, stage, round, total, posted, wire>>

\* r enters the exchange of a stage: its counts and its messages go out.
Post(r, s, k, extracount) ==
  LET mine == [h \in {x \in DOMAIN out[r] : x.stage = s} |-> out[r][h]]
      For(q) == [msg \in {h.msg : h \in {x \in DOMAIN mine : x.to = q}} |->
                   mine[[stage |-> s, msg |-> msg, to |-> q]]]
  IN  /\ stage' = [stage EXCEPT ![r] = s]
      /\ posted' = [posted EXCEPT ![r][s][Slot(k)] = SumFunction(mine) + extracount]
      /\ wire' = [q \in Rank |-> [wire[q] EXCEPT ![s][Slot(k)] = @ (+) For(q)]]
      /\ out' = [out EXCEPT ![r] = @ (-) mine]

\* do_exchange is called, because the batch is full or by wait_empty.
EnterExchange(r) ==
  /\ stage[r] = 0 /\ pc[r] # "gone"
  /\ \/ sendCount[r] >= Batch /\ pc' = pc
     \/ sendCount[r] < Batch /\ pc' = [pc EXCEPT ![r] = "closing"]
  /\ round' = [round EXCEPT ![r] = @ + 1]
  /\ total' = [total EXCEPT ![r] = 0]
  /\ Post(r, First, round[r] + 1, Extra(kind, sendCount[r]))
  /\ UNCHANGED <<made, sendCount, deferred>>

\* m_recv_func: the receiver may send a message in its turn, which is put off
\* until the exchange is over.
Handle(r) ==
  \/ UNCHANGED <<deferred, made>>
  \/ /\ made[r] < MaxMade[kind][r]
     /\ \E call \in Calls(r) : deferred' = [deferred EXCEPT ![r] = @ \cup {call}]
     /\ made' = [made EXCEPT ![r] = @ + 1]

\* A message arrives in the exchange that r is in.
Receive(r) ==
  LET s == stage[r]
      p == Slot(round[r])
  IN  /\ s # 0
      /\ \E msg \in BagToSet(wire[r][s][p]) :
           /\ wire' = [wire EXCEPT ![r][s][p] = @ (-) SetToBag({msg})]
           /\ out' = [out EXCEPT ![r] = @ (+) SetToBag(Relay(kind, s, r, msg))]
           /\ IF IsForMe(kind, s, r, msg) THEN Handle(r) ELSE UNCHANGED <<deferred, made>>
      /\ UNCHANGED <<pc, sendCount, stage, round, total, posted>>

\* r returns from the exchange of its stage with the sum of the second counts.
EndOfStage(r, s) ==
  /\ stage[r] = s
  /\ \A q \in Group(kind, s, r) :
       round[q] > round[r] \/ (round[q] = round[r] /\ stage[q] \in {0} \cup s..Last(kind))
  /\ wire[r][s][Slot(round[r])] = EmptyBag

SumOf(r, s) ==
  total[r] + SumFunctionOnSet([q \in Rank |-> posted[q][s][Slot(round[r])]], Group(kind, s, r))

\* Mutation of NextStage: extracount is left out.
NextStageAfresh(r) ==
  \E s \in First..(Last(kind) - 1) :
    /\ EndOfStage(r, s)
    /\ total' = [total EXCEPT ![r] = SumOf(r, s)]
    /\ Post(r, s + 1, round[r], 0)
    /\ UNCHANGED <<pc, made, sendCount, deferred, round>>

NextStage(r) ==
  \E s \in First..(Last(kind) - 1) :
    /\ EndOfStage(r, s)
    /\ total' = [total EXCEPT ![r] = SumOf(r, s)]
    /\ Post(r, s + 1, round[r], SumOf(r, s))
    /\ UNCHANGED <<pc, made, sendCount, deferred, round>>

\* Mutation of FinishExchange: the deferred calls are not cleared.
FinishExchangeUncleared(r) ==
  LET hops == UNION {Hops(r, call) : call \in deferred[r]}
  IN  /\ EndOfStage(r, Last(kind))
      /\ total' = [total EXCEPT ![r] = SumOf(r, Last(kind))]
      /\ out' = [out EXCEPT ![r] = @ (+) SetToBag(hops)]
      /\ sendCount' = [sendCount EXCEPT ![r] = Cardinality(hops)]
      /\ stage' = [stage EXCEPT ![r] = 0]
      /\ pc' = [pc EXCEPT ![r] =
                  IF @ = "closing" /\ SumOf(r, Last(kind)) = 0 THEN "gone" ELSE @]
      /\ UNCHANGED <<deferred, made, round, posted, wire>>

\* Mutation of FinishExchange: the count is cleared after the replay.
FinishExchangeUncounted(r) ==
  LET hops == UNION {Hops(r, call) : call \in deferred[r]}
  IN  /\ EndOfStage(r, Last(kind))
      /\ total' = [total EXCEPT ![r] = SumOf(r, Last(kind))]
      /\ out' = [out EXCEPT ![r] = @ (+) SetToBag(hops)]
      /\ sendCount' = [sendCount EXCEPT ![r] = 0]
      /\ deferred' = [deferred EXCEPT ![r] = {}]
      /\ stage' = [stage EXCEPT ![r] = 0]
      /\ pc' = [pc EXCEPT ![r] =
                  IF @ = "closing" /\ SumOf(r, Last(kind)) = 0 THEN "gone" ELSE @]
      /\ UNCHANGED <<made, round, posted, wire>>

\* Mutation of FinishExchange: wait_empty looks at the messages of this rank.
FinishExchangeAlone(r) ==
  LET hops == UNION {Hops(r, call) : call \in deferred[r]}
  IN  /\ EndOfStage(r, Last(kind))
      /\ total' = [total EXCEPT ![r] = SumOf(r, Last(kind))]
      /\ out' = [out EXCEPT ![r] = @ (+) SetToBag(hops)]
      /\ sendCount' = [sendCount EXCEPT ![r] = Cardinality(hops)]
      /\ deferred' = [deferred EXCEPT ![r] = {}]
      /\ stage' = [stage EXCEPT ![r] = 0]
      /\ pc' = [pc EXCEPT ![r] =
                  IF @ = "closing" /\ sendCount[r] = 0 THEN "gone" ELSE @]
      /\ UNCHANGED <<made, round, posted, wire>>

\* The end of do_exchange: the deferred calls are replayed, without another
\* exchange however many they are; wait_empty goes on until the total is zero.
FinishExchange(r) ==
  LET hops == UNION {Hops(r, call) : call \in deferred[r]}
  IN  /\ EndOfStage(r, Last(kind))
      /\ total' = [total EXCEPT ![r] = SumOf(r, Last(kind))]
      /\ out' = [out EXCEPT ![r] = @ (+) SetToBag(hops)]
      /\ sendCount' = [sendCount EXCEPT ![r] = Cardinality(hops)]
      /\ deferred' = [deferred EXCEPT ![r] = {}]
      /\ stage' = [stage EXCEPT ![r] = 0]
      /\ pc' = [pc EXCEPT ![r] =
                  IF @ = "closing" /\ SumOf(r, Last(kind)) = 0 THEN "gone" ELSE @]
      /\ UNCHANGED <<made, round, posted, wire>>

Step(r) ==
  \/ Send(r)
  \/ EnterExchange(r)
  \/ Receive(r)
  \/ NextStage(r)
  \/ FinishExchange(r)

Done == (\A r \in Rank : pc[r] = "gone") /\ UNCHANGED vars

Next == (\E r \in Rank : UNCHANGED kind /\ Step(r)) \/ Done

Spec == Init /\ [][Next]_vars

-----------------------------------------------------------------------------
TypeOK ==
  /\ pc \in [Rank -> {"running", "closing", "gone"}]
  /\ \A r \in Rank : made[r] \in 0..MaxMade[kind][r]
  /\ sendCount \in [Rank -> Nat]
  /\ \A r \in Rank : IsABag(out[r]) /\ (stage[r] > 0 => \A h \in DOMAIN out[r] : h.stage > stage[r])
  /\ \A r \in Rank : stage[r] = 0 => deferred[r] = {}
  /\ stage \in [Rank -> 0..Last(kind)]
  /\ round \in [Rank -> Nat]
  /\ total \in [Rank -> Nat]
  /\ posted \in [Rank -> [Stages -> [0..1 -> Nat]]]
  /\ \A r \in Rank, s \in Stages, p \in 0..1 : IsABag(wire[r][s][p])

\* wait_empty returns, and the mailbox is destroyed, only when no message is
\* left in any mailbox or on the way, those that receivers sent included.
GoneMeansEmpty ==
  (\E r \in Rank : pc[r] = "gone") =>
    \A q \in Rank :
      /\ pc[q] # "running"
      /\ sendCount[q] = 0 /\ out[q] = EmptyBag /\ deferred[q] = {}
      /\ \A s \in Stages, p \in 0..1 : wire[q][s][p] = EmptyBag

\* Hops on the way in exchange k % 2 = p: posted to a rank, or queued on a rank
\* that is inside do_exchange for a later stage of it; n copies of each.
OnTheWay(p) ==
  UNION {{[queued |-> {}, n |-> wire[q][s][p][msg], hop |-> [stage |-> s, msg |-> msg, to |-> q]] :
            msg \in DOMAIN wire[q][s][p]} : q \in Rank, s \in Stages}
  \cup
  UNION {{[queued |-> {r}, n |-> out[r][h], hop |-> h] : h \in DOMAIN out[r]} :
            r \in {x \in Rank : stage[x] # 0 /\ Slot(round[x]) = p}}

\* The messages that will still be handed to the receiver of d.
Owed(d, way) ==
  LET shares == {[data |-> w.hop.msg.data, of |-> w, n |-> w.n * Deliveries(kind, w.hop, d)] : w \in way}
      Data == {s.data : s \in {x \in shares : x.n > 0}}
  IN  [data \in Data |-> MapThenSumSet(LAMBDA s : s.n, {s \in shares : s.data = data})]

OwedToAll ==
  LET even == OnTheWay(0)
      odd == OnTheWay(1)
  IN  [d \in Rank |-> [p \in 0..1 |-> Owed(d, IF p = 0 THEN even ELSE odd)]]

Exchange == INSTANCE CollectiveExchange WITH
  Member <- Rank,
  answer <- [r \in Rank |-> IF stage[r] # 0 THEN "none" ELSE IF total[r] = 0 THEN "empty" ELSE "some"],
  carries <- [r \in Rank |-> {p \in 0..1 : posted[r][First][p] > 0}],
  wire <- OwedToAll

\* Up to three exchanges among small groups make one among all ranks: what goes in at
\* any rank comes out once at its destinations before these return, and all
\* ranks learn alike whether any rank sent anything.
ImplementsExchange == Exchange!Spec

\* Every rank gets rid of its mailbox.
EveryMailboxCloses == <>(\A r \in Rank : pc[r] = "gone")
=============================================================================
