--------------------------- MODULE MC_Automation ---------------------------
(***************************************************************************)
(* Values for the model checking of Automation: a rule that matches every  *)
(* instant, and one that matches every second one in a zone whose clock is *)
(* set back by two.                                                        *)
(***************************************************************************)
EXTENDS Automation

CONSTANTS j1, j2, j3, w1, w2

MCJobs == {j1, j2, j3}
MCWorkers == {w1, w2}
MCOneWorker == {w1}
=============================================================================
