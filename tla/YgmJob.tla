------------------------------- MODULE YgmJob -------------------------------
(***************************************************************************)
(* A job of a program on include/ygm: init() first makes the communicators *)
(* (NodeDiscovery), then every rank works with its mailbox (Mailbox).      *)
(***************************************************************************)
EXTENDS Mailbox

VARIABLES step, named, content, mapped, color

Startup == INSTANCE NodeDiscovery

startup == <<step, named, content, mapped, color>>
job == <<vars, startup>>

JobInit == Init /\ Startup!Init

\* MPI_Comm_split is collective: nobody has a mailbox before all are in it.
StartStep(r) == Startup!Step(r) /\ UNCHANGED vars
WorkStep(r) == Startup!Found /\ UNCHANGED <<startup, kind>> /\ Step(r)

JobDone == Done /\ UNCHANGED startup

JobNext == (\E r \in Rank : StartStep(r) \/ WorkStep(r)) \/ JobDone

\* Every rank is a process that keeps running and in the end destroys its
\* mailbox.
JobSpec ==
  /\ JobInit /\ [][JobNext]_job
  /\ \A r \in Rank : WF_job(StartStep(r)) /\ WF_job(WorkStep(r))

\* Whoever has queued or received a message has found its node, with the other
\* ranks of it and nobody else, and no shared memory is left behind.
NodesAreFound == Startup!NodesAreFound

=============================================================================
