---------------------------- MODULE CommExchanger ----------------------------
(***************************************************************************)
(* One collective exchange of messages over MPI point-to-point calls       *)
(* (include/ygm/comm_exchanger.hpp).  Every member sends its counts to all *)
(* with blocking sends, then polls: a count that arrived makes it post the *)
(* receive for the data behind it and send its own data the other way.     *)
(* Members may be in different exchanges; the tag keeps these apart.       *)
(*                                                                         *)
(* MPI is external: a send may be buffered or wait for its receive, and    *)
(* messages with the tag of a posted receive may match in any order of     *)
(* sources (MPI_ANY_SOURCE).  Data is read from the send buffer when the   *)
(* receive matches, so clearing the buffer too early would show.           *)
(***************************************************************************)
EXTENDS Naturals, Sequences, FiniteSets, Bags

CONSTANTS
  Size,         \* m_comm_size
  Message,
  FirstTag,     \* m_tag at construction
  ExtraCount,   \* the values each member's extracount may take
  MaxQueued,    \* bound: messages a member queues for one exchange
  MaxExchanges  \* bound: exchanges until the exchanger is destroyed

Member == 0..(Size - 1)

ASSUME ExchangerAssumption ==
  /\ Size \in Nat \ {0}
  /\ FirstTag \in Nat
  /\ ExtraCount \in [Member -> SUBSET Nat]
  /\ MaxQueued \in Nat /\ MaxExchanges \in Nat

VARIABLES
  pc,        \* where each member is in exchange()
  tag,       \* m_tag
  sendQ,     \* sendQ[m][d]: m_vec_send, a bag
  counted,   \* m_local_count
  sent,      \* counts already sent in this exchange
  posted,    \* posted[m][k % 2]: second count m announced in its exchange k
  total,     \* to_return
  expected,  \* m_req_irecv_counts: receives of counts not matched yet
  arrived,   \* m_req_irecv_counts: matched and not tested yet, in posted order
  heard,     \* sources whose count was tested
  recvs,     \* q_req_irecv_data: receives of data, with what has met them
  isends,    \* vec_req_isend_data: destinations whose data is not yet taken
  counts,    \* counts[d]: count messages in flight to d
  data       \* data[d]: data messages in flight to d

vars == <<pc, tag, sendQ, counted, sent, posted, total, expected, arrived,
          heard, recvs, isends, counts, data>>

-----------------------------------------------------------------------------
\* Exchanges the member has finished.
Finished(m) == (tag[m] - FirstTag) \div 2

Inside(m) == pc[m] \in {"counts", "poll"}

\* Exchanges the member has entered.
Entered(m) == IF Inside(m) THEN Finished(m) + 1 ELSE Finished(m)

Slot(k) == k % 2

CountTag(m) == 2 * tag[m]
DataTag(m) == 2 * tag[m] + 1

\* The members in the order in which m sends its counts, itself first.
Target(m, i) == (i + m) % Size

NoMessages == [d \in Member |-> EmptyBag]

\* m_vec_send[d].size(): the copies in a bag, each counted.
Copies(b) == UNION {{e} \X (1..b[e]) : e \in BagToSet(b)}
QueueSize(b) == Cardinality(Copies(b))

Init ==
  /\ pc = [m \in Member |-> "idle"]
  /\ tag = [m \in Member |-> FirstTag]
  /\ sendQ = [m \in Member |-> NoMessages]
  /\ counted = [m \in Member |-> 0]
  /\ sent = [m \in Member |-> 0]
  /\ posted = [m \in Member |-> [p \in 0..1 |-> 0]]
  /\ total = [m \in Member |-> 0]
  /\ expected = [m \in Member |-> Size]
  /\ arrived = [m \in Member |-> << >>]
  /\ heard = [m \in Member |-> {}]
  /\ recvs = [m \in Member |-> {}]
  /\ isends = [m \in Member |-> {}]
  /\ counts = [m \in Member |-> {}]
  /\ data = [m \in Member |-> {}]

-----------------------------------------------------------------------------
(* The callers.                                                            *)

\* queue, and queue_bytes.
QueueMessage(m, d, msg) ==
  /\ pc[m] = "idle" /\ counted[m] < MaxQueued /\ Finished(m) < MaxExchanges
  /\ sendQ' = [sendQ EXCEPT ![m][d] = @ (+) SetToBag({msg})]
  /\ counted' = [counted EXCEPT ![m] = @ + 1]
  /\ UNCHANGED <<pc, tag, sent, posted, total, expected, arrived, heard, recvs,
                 isends, counts, data>>

\* exchange is called.
EnterExchange(m, extracount) ==
  /\ pc[m] = "idle" /\ Finished(m) < MaxExchanges
  /\ pc' = [pc EXCEPT ![m] = "counts"]
  /\ posted' = [posted EXCEPT ![m][Slot(Finished(m) + 1)] = counted[m] + extracount]
  /\ sent' = [sent EXCEPT ![m] = 0]
  /\ total' = [total EXCEPT ![m] = 0]
  /\ UNCHANGED <<tag, sendQ, counted, expected, arrived, heard, recvs, isends,
                 counts, data>>

\* The destructor cancels the receives of the exchange that will not come.
Destroy(m) ==
  /\ pc[m] = "idle" /\ Finished(m) = MaxExchanges
  /\ pc' = [pc EXCEPT ![m] = "destroyed"]
  /\ expected' = [expected EXCEPT ![m] = 0]
  /\ UNCHANGED <<tag, sendQ, counted, sent, posted, total, arrived, heard, recvs,
                 isends, counts, data>>

-----------------------------------------------------------------------------
(* The exchange.                                                           *)

\* The last MPI_Send has been received, or there was none.
LastSendTaken(m) ==
  sent[m] > 0 => \A c \in counts[Target(m, sent[m] - 1)] : c.src # m \/ c.tag # CountTag(m)

\* MPI_Send of the next count; MPI may have buffered the one before.
SendCount(m) ==
  /\ pc[m] = "counts" /\ sent[m] < Size
  /\ LET d == Target(m, sent[m])
     IN  counts' = [counts EXCEPT ![d] = @ \cup
           {[src |-> m, tag |-> CountTag(m), first |-> QueueSize(sendQ[m][d]),
             second |-> posted[m][Slot(Finished(m) + 1)]]}]
  /\ sent' = [sent EXCEPT ![m] = @ + 1]
  /\ UNCHANGED <<pc, tag, sendQ, counted, posted, total, expected, arrived, heard,
                 recvs, isends, data>>

AllCountsSent(m) ==
  /\ pc[m] = "counts" /\ sent[m] = Size
  /\ pc' = [pc EXCEPT ![m] = "poll"]
  /\ UNCHANGED <<tag, sendQ, counted, sent, posted, total, expected, arrived, heard,
                 recvs, isends, counts, data>>

\* MPI_Test of the oldest receive of a count succeeds.
TestCount(m) ==
  /\ pc[m] = "poll" /\ arrived[m] # << >>
  /\ LET c == Head(arrived[m])
     IN  /\ total' = [total EXCEPT ![m] = @ + c.second]
         /\ heard' = [heard EXCEPT ![m] = @ \cup {c.src}]
         /\ recvs' = [recvs EXCEPT ![m] =
              IF c.first = 0 THEN @
              ELSE @ \cup {[src |-> c.src, size |-> c.first, matched |-> FALSE,
                            buff |-> EmptyBag]}]
         /\ IF sendQ[m][c.src] # EmptyBag
            THEN /\ isends' = [isends EXCEPT ![m] = @ \cup {c.src}]
                 /\ data' = [data EXCEPT ![c.src] = @ \cup {[src |-> m, tag |-> DataTag(m)]}]
            ELSE UNCHANGED <<isends, data>>
  /\ arrived' = [arrived EXCEPT ![m] = Tail(@)]
  /\ UNCHANGED <<pc, tag, sendQ, counted, sent, posted, expected, counts>>

\* MPI_Test of a receive of data succeeds: recv_func runs on every message.
\* The queue of requests is rotated, so any of them may come first.
TestData(m) ==
  /\ pc[m] = "poll"
  /\ \E q \in recvs[m] :
       /\ q.matched
       /\ recvs' = [recvs EXCEPT ![m] = @ \ {q}]
  /\ UNCHANGED <<pc, tag, sendQ, counted, sent, posted, total, expected, arrived,
                 heard, isends, counts, data>>

\* Mutation of Finish: the loop ends when all counts are in.
FinishUnreceived(m) ==
  /\ pc[m] = "poll"
  /\ expected[m] = 0 /\ arrived[m] = << >>
  /\ isends[m] = {}
  /\ pc' = [pc EXCEPT ![m] = "idle"]
  /\ sendQ' = [sendQ EXCEPT ![m] = NoMessages]
  /\ counted' = [counted EXCEPT ![m] = 0]
  /\ tag' = [tag EXCEPT ![m] = @ + 2]
  /\ expected' = [expected EXCEPT ![m] = Size]
  /\ recvs' = [recvs EXCEPT ![m] = {}]
  /\ heard' = [heard EXCEPT ![m] = {}]
  /\ UNCHANGED <<sent, posted, total, arrived, isends, counts, data>>

\* Mutation of Finish: the send queues are not cleared.
FinishUncleared(m) ==
  /\ pc[m] = "poll"
  /\ expected[m] = 0 /\ arrived[m] = << >> /\ recvs[m] = {}
  /\ isends[m] = {}
  /\ pc' = [pc EXCEPT ![m] = "idle"]
  /\ counted' = [counted EXCEPT ![m] = 0]
  /\ tag' = [tag EXCEPT ![m] = @ + 2]
  /\ expected' = [expected EXCEPT ![m] = Size]
  /\ heard' = [heard EXCEPT ![m] = {}]
  /\ UNCHANGED <<sendQ, sent, posted, total, arrived, recvs, isends, counts, data>>

\* Mutation of Finish: the receives of the next exchange are not posted.
FinishUnposted(m) ==
  /\ pc[m] = "poll"
  /\ expected[m] = 0 /\ arrived[m] = << >> /\ recvs[m] = {}
  /\ isends[m] = {}
  /\ pc' = [pc EXCEPT ![m] = "idle"]
  /\ sendQ' = [sendQ EXCEPT ![m] = NoMessages]
  /\ counted' = [counted EXCEPT ![m] = 0]
  /\ tag' = [tag EXCEPT ![m] = @ + 2]
  /\ heard' = [heard EXCEPT ![m] = {}]
  /\ UNCHANGED <<sent, posted, total, expected, arrived, recvs, isends, counts, data>>

\* Nothing is left to receive and MPI_Waitall returns: the queues are cleared
\* and the receives of the next exchange are posted.
Finish(m) ==
  /\ pc[m] = "poll"
  /\ expected[m] = 0 /\ arrived[m] = << >> /\ recvs[m] = {}
  /\ isends[m] = {}
  /\ pc' = [pc EXCEPT ![m] = "idle"]
  /\ sendQ' = [sendQ EXCEPT ![m] = NoMessages]
  /\ counted' = [counted EXCEPT ![m] = 0]
  /\ tag' = [tag EXCEPT ![m] = @ + 2]
  /\ expected' = [expected EXCEPT ![m] = Size]
  /\ heard' = [heard EXCEPT ![m] = {}]
  /\ UNCHANGED <<sent, posted, total, arrived, recvs, isends, counts, data>>

-----------------------------------------------------------------------------
(* MPI: a message meets the receive posted for it.                         *)

MatchCount(m) ==
  /\ expected[m] > 0
  /\ \E c \in counts[m] :
       /\ c.tag = CountTag(m)
       /\ arrived' = [arrived EXCEPT ![m] = Append(@, c)]
       /\ counts' = [counts EXCEPT ![m] = @ \ {c}]
  /\ expected' = [expected EXCEPT ![m] = @ - 1]
  /\ UNCHANGED <<pc, tag, sendQ, counted, sent, posted, total, heard, recvs, isends, data>>

MatchData(m) ==
  /\ \E q \in recvs[m], x \in data[m] :
       /\ ~q.matched /\ x.src = q.src /\ x.tag = DataTag(m)
       /\ recvs' = [recvs EXCEPT ![m] = (@ \ {q}) \cup
                      {[src |-> q.src, size |-> q.size, matched |-> TRUE,
                        buff |-> sendQ[q.src][m]]}]
       /\ data' = [data EXCEPT ![m] = @ \ {x}]
       /\ isends' = [isends EXCEPT ![q.src] = @ \ {m}]
  /\ UNCHANGED <<pc, tag, sendQ, counted, sent, posted, total, expected, arrived,
                 heard, counts>>

-----------------------------------------------------------------------------
Step(m) ==
  \/ \E d \in Member, msg \in Message : QueueMessage(m, d, msg)
  \/ \E x \in ExtraCount[m] : EnterExchange(m, x)
  \/ Destroy(m)
  \/ SendCount(m)
  \/ AllCountsSent(m)
  \/ TestCount(m)
  \/ TestData(m)
  \/ Finish(m)
  \/ MatchCount(m)
  \/ MatchData(m)

Done == (\A m \in Member : pc[m] = "destroyed") /\ UNCHANGED vars

Next == (\E m \in Member : Step(m)) \/ Done

Spec == Init /\ [][Next]_vars

\* Every member calls exchange again and again, MPI makes progress, and a
\* blocking send is only sure to return once it was received.
Progress(m) ==
  \/ \E x \in ExtraCount[m] : EnterExchange(m, x)
  \/ Destroy(m)
  \/ LastSendTaken(m) /\ (SendCount(m) \/ AllCountsSent(m))
  \/ TestCount(m) \/ TestData(m) \/ Finish(m)

FairSpec ==
  /\ Spec
  /\ \A m \in Member : WF_vars(Progress(m)) /\ WF_vars(MatchCount(m)) /\ WF_vars(MatchData(m))

-----------------------------------------------------------------------------
\* Messages of different exchanges, and counts and data, never share a tag, and
\* nothing is left in flight to an exchanger that was destroyed.
NothingStray ==
  \A m \in Member :
    /\ \A c \in counts[m] : c.tag \in {CountTag(m), CountTag(m) + 4}
    /\ \A x \in data[m] : x.tag = DataTag(m)
    /\ pc[m] = "destroyed" => counts[m] = {} /\ data[m] = {}

\* The queue of s for d is still to be received: d has not tested the count of s
\* yet, or waits for the data.
Owes(s, d) ==
  /\ Inside(s) /\ Inside(d) /\ tag[s] = tag[d]
  /\ s \in heard[d] => \E q \in recvs[d] : q.src = s /\ ~q.matched

\* Data of s that d received and has not handled yet.
Received(s, d) == {q \in recvs[d] : q.src = s /\ q.matched}

\* What d still has to handle of s: in the exchange d is in, and in the one it
\* will enter next.
FromHere(s, d) ==
  IF Received(s, d) # {} THEN (CHOOSE q \in Received(s, d) : TRUE).buff
  ELSE IF Owes(s, d) THEN sendQ[s][d]
  ELSE EmptyBag

FromNext(s, d) ==
  IF Inside(s) /\ Entered(s) = Entered(d) + 1 THEN sendQ[s][d] ELSE EmptyBag

\* Messages of all members, each with its source.
Merge(from) ==
  [x \in UNION {{s} \X BagToSet(from[s]) : s \in Member} |-> from[x[1]][x[2]]]

Exchange == INSTANCE CollectiveExchange WITH
  answer <- [m \in Member |-> IF Inside(m) THEN "none" ELSE IF total[m] = 0 THEN "empty" ELSE "some"],
  round <- [m \in Member |-> Entered(m)],
  carries <- [m \in Member |-> {p \in 0..1 : posted[m][p] > 0}],
  wire <- [d \in Member |-> [p \in 0..1 |->
            IF p = Slot(Entered(d)) THEN Merge([s \in Member |-> FromHere(s, d)])
            ELSE Merge([s \in Member |-> FromNext(s, d)])]]

\* Every message is received in the exchange it was queued for, once, by the
\* member it was queued for; nobody returns before everybody has called; and
\* zero is returned exactly when nobody announced anything.
ImplementsExchange == Exchange!Spec

\* Every call of exchange returns, even when no MPI_Send is buffered.
EveryExchangeEnds == <>(\A m \in Member : pc[m] = "destroyed")
=============================================================================
