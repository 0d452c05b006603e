-------------------------- MODULE MCCommExchanger --------------------------
(***************************************************************************)
(* CommExchanger for two members.  That is enough for a member to be one   *)
(* exchange ahead of another, for counts to match in either order (a       *)
(* member also sends to itself), and for data to be slower than counts.    *)
(***************************************************************************)
EXTENDS CommExchanger

OneMessage == {"m"}

\* Member 0 may have forwarded something in an earlier exchange of its mailbox.
ExtraOfZero == [m \in Member |-> IF m = 0 THEN {0, 1} ELSE {0}]
=============================================================================
