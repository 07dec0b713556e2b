-------------------------- MODULE MC_PendingAction --------------------------
(***************************************************************************)
(* Values for the model checking of PendingAction: e-mails and events.     *)
(***************************************************************************)
EXTENDS PendingAction, RevisionFacts

CONSTANTS sendEmail, createEvent, e1, e2, c1, c2

MCKinds == {sendEmail, createEvent}
MCOneKind == {sendEmail}
MCRuns == {e1, e2}
MCOneRun == {e1}
MCConfirms == {c1, c2}
MCOneConfirm == {c1}
=============================================================================
