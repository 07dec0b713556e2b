-------------------------- MODULE MC_ExecutionRun --------------------------
(***************************************************************************)
(* Values for the model checking of ExecutionRun: a detached goal and one  *)
(* automation occurrence compete for one slot of a contact.                *)
(***************************************************************************)
EXTENDS ExecutionRun

CONSTANTS goalA, dueX

MCDetachedKeys == {goalA}
MCScheduledKeys == {dueX}
=============================================================================
