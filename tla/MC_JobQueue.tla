---------------------------- MODULE MC_JobQueue ----------------------------
(***************************************************************************)
(* Values for the model checking of JobQueue.                              *)
(***************************************************************************)
EXTENDS JobQueue

CONSTANTS j1, j2, w1, w2

MCJobs == {j1, j2}
MCUnknownJobs == {j2}
MCWorkers == {w1, w2}
=============================================================================
