-------------------------- MODULE MC_JobDelivery --------------------------
(***************************************************************************)
(* Values for the model checking of JobDelivery: a reminder or a           *)
(* notification, with two workers on its job.                              *)
(***************************************************************************)
EXTENDS JobDelivery

CONSTANTS j1, j2, w1, w2

MCJobs == {j1, j2}
MCReminderJobs == {j1}
MCNone == {}
MCWorkers == {w1, w2}

\* The handlers of the two kinds meet in nothing but the contact's lock.
OneKind == jobStatus[j1] = "none" \/ jobStatus[j2] = "none"
=============================================================================
