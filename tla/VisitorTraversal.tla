-------------------------- MODULE VisitorTraversal --------------------------
(***************************************************************************)
(* VisitorQueue implements AsyncTraversal: where a visitor of the abstract *)
(* traversal waits follows from the queue, buffer or message it is in.     *)
(***************************************************************************)
EXTENDS VisitorQueue, FiniteSetsExt

OtherRanks(r) == Rank \ {r}

At(r, step, v) == [rank |-> r, step |-> step, visitor |-> v]

\* The visitors of a list, each at its place.
FromList(list, Place(_)) ==
  [w \in {Place(list[i]) : i \in DOMAIN list} |->
     Cardinality({i \in DOMAIN list : Place(list[i]) = w})]

\* The bags of all elements of a set together.
Together(S, BagFor(_)) ==
  [w \in UNION {BagToSet(BagFor(s)) : s \in S} |->
     MapThenSumSet(LAMBDA s : CopiesIn(w, BagFor(s)), S)]

\* A visitor in a buffer or on its way: broadcast visitors are only visited.
Sent(d, v) == At(d, IF v.vertex \in Delegate /\ v.bcast THEN "hear" ELSE "arrive", v)

\* The rest of the visit that r executes.
Operations(r) ==
  LET Calls == SelectSeq(todo[r], LAMBDA c : c.op = "queue_visitor")
      Bcasts == SelectSeq(todo[r], LAMBDA c : c.op = "send_bcast")
  IN  FromList(Calls, LAMBDA c :
        At(IF c.visitor.vertex \in Delegate THEN r ELSE Master[c.visitor.vertex], "arrive", c.visitor))
      (+) Together(OtherRanks(r), LAMBDA d : FromList(Bcasts, LAMBDA c : At(d, "hear", c.visitor)))

\* All visitors that started from r, wait on r or are on their way to r.
PendingAt(r) ==
  FromList(citr[r] \o vitr[r], LAMBDA v : At(r, "start", v))
  (+) Operations(r)
  (+) BagOfAll(LAMBDA v : At(r, "visit", v), owned[r])
  (+) FromList(controllers[r], LAMBDA v : At(r, "hear", v))
  (+) Together(Rank, LAMBDA q : BagOfAll(LAMBDA v : Sent(r, v), box[q][r]))
  (+) Together(0..1, LAMBDA p : BagOfAll(LAMBDA v : Sent(r, v), wire[r][p]))

Traversal == INSTANCE AsyncTraversal WITH
  Others <- OtherRanks,
  pending <- Together(Rank, PendingAt)

\* No visitor is lost, doubled or visited twice, and none skips its pre_visit on
\* the way to its owner or controller, whatever buffer a rank leaves it in while
\* it enters an exchange in the middle of a visit.
ImplementsTraversal == Traversal!TraversalSpec
=============================================================================
