-------------------------- MODULE MC_Conversation --------------------------
(* One message of the person and one result of an Execution.  The history  *)
(* is short enough to lose a message, the pool small enough to run out.    *)
EXTENDS Conversation

CONSTANTS m1, r1, c1, c2

MCInbounds == {m1}
MCResults == {r1}
MCCalls == {c1, c2}
=============================================================================
