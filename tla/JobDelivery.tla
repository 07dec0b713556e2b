---------------------------- MODULE JobDelivery ----------------------------
(***************************************************************************)
(* What the worker's handlers deliver: the reminder ping                   *)
(* (src/app/worker/handlers/reminder_due.py) and the confirmation of a     *)
(* connected account (integration_notify.py), step by step, on the queue   *)
(* of JobQueue.  All jobs are of one contact, so that the handlers share   *)
(* its Interaction lock (src/app/db/session.py); the goals of an Execution *)
(* set and cancel reminders without that lock.                             *)
(***************************************************************************)
EXTENDS Integers, FiniteSets

CONSTANTS
    Jobs,
    UnknownJobs,
    Workers,
    MaxAttempts,
    MaxFaults,
    NoJob,
    ReminderJobs  \* the reminder_due jobs; the others are integration_notify

VARIABLES jobStatus, attempts, lock, due, worker, claimed, heldTooLong, faults

Queue == INSTANCE JobQueue

ASSUME DeliveryAssumption ==
    /\ NoJob \notin Jobs
    /\ MaxAttempts \in Nat \ {0}
    /\ MaxFaults \in Nat
    /\ UnknownJobs = {}
    /\ ReminderJobs \subseteq Jobs

VARIABLES
    step,      \* where in its handler each worker is
    reminder,  \* reminder.status of the reminder of the job
    recorded,  \* the notify jobs that outbound_exists_since would say yes to
    pings,     \* how often the message of the job reached the contact
    unknown    \* how often a call delivered it and raised all the same

queueVars == <<jobStatus, attempts, lock, due, worker, claimed, heldTooLong, faults>>
deliveryVars == <<reminder, recorded, pings, unknown>>
vars == <<queueVars, step, deliveryVars>>

NotifyJobs == Jobs \ ReminderJobs

-----------------------------------------------------------------------------
Steps == {"none", "locking", "reading", "claiming", "sending", "persisting", "releasing"}
ReminderStatuses == {"none", "active", "sent", "cancelled"}

Init ==
    /\ Queue!Init
    /\ step = [w \in Workers |-> "none"]
    /\ reminder = [j \in ReminderJobs |-> "none"]
    /\ recorded = {}
    /\ pings = [j \in Jobs |-> 0]
    /\ unknown = [j \in Jobs |-> 0]

\* pg_advisory_xact_lock of the contact: held from the end of the wait to the
\* end of the handler, or to the end of its connection.
HoldsContact(w) == step[w] \notin {"none", "locking"}

JobOf(w) == worker[w].job
Reminding(w) == JobOf(w) \in ReminderJobs

Goto(w, s) ==
    /\ step' = [step EXCEPT ![w] = s]
    /\ UNCHANGED queueVars

\* The handler is over and lets go of the contact.
Return(w) ==
    /\ step' = [step EXCEPT ![w] = "none"]
    /\ Queue!HandlerEnds(w, TRUE)
Raise(w) ==
    /\ step' = [step EXCEPT ![w] = "none"]
    /\ Queue!HandlerEnds(w, FALSE)

-----------------------------------------------------------------------------
\* create_reminder and enqueue_reminder_due in one transaction of set_reminder;
\* enqueue_integration_notify at the end of the connect flow.
Enqueue(j) ==
    /\ Queue!Enqueue(j)
    /\ reminder' = IF j \in ReminderJobs THEN [reminder EXCEPT ![j] = "active"] ELSE reminder
    /\ UNCHANGED <<step, recorded, pings, unknown>>

\* cancel_reminder: the job is left alone.
CancelReminder(j) ==
    /\ j \in ReminderJobs
    /\ reminder[j] = "active"
    /\ reminder' = [reminder EXCEPT ![j] = "cancelled"]
    /\ UNCHANGED <<queueVars, step, recorded, pings, unknown>>

ClaimJob(w, j) ==
    /\ Queue!ClaimJob(w, j)
    /\ step' = [step EXCEPT ![w] = "locking"]
    /\ UNCHANGED deliveryVars

ContactFree_Ignored == TRUE
ContactFree == \A w \in Workers : ~ HoldsContact(w)

\* contact_interaction_lock.
LockContact(w) ==
    /\ step[w] = "locking"
    /\ ContactFree
    /\ Goto(w, "reading")
    /\ UNCHANGED deliveryVars

\* _run_reminder_due returns early for a reminder that is not active.
ReadReminder(w) ==
    /\ step[w] = "reading"
    /\ Reminding(w)
    /\ IF reminder[JobOf(w)] = "active" THEN Goto(w, "claiming") ELSE Return(w)
    /\ UNCHANGED deliveryVars

ClaimReminder_Unguarded(w) ==
    /\ step[w] = "claiming"
    /\ reminder' = [reminder EXCEPT ![JobOf(w)] = "sent"]
    /\ Goto(w, "sending")
    /\ UNCHANGED <<recorded, pings, unknown>>

\* claim_reminder_for_send: active -> sent, or nothing to do.
ClaimReminder(w) ==
    /\ step[w] = "claiming"
    /\ IF reminder[JobOf(w)] = "active"
       THEN reminder' = [reminder EXCEPT ![JobOf(w)] = "sent"] /\ Goto(w, "sending")
       ELSE Return(w) /\ UNCHANGED reminder
    /\ UNCHANGED <<recorded, pings, unknown>>

AlreadySent_Never(j) == FALSE
AlreadySent(j) == j \in recorded

\* _run_integration_notify asks outbound_exists_since first.
ReadNotify(w) ==
    /\ step[w] = "reading"
    /\ ~ Reminding(w)
    /\ IF AlreadySent(JobOf(w)) THEN Return(w) ELSE Goto(w, "sending")
    /\ UNCHANGED deliveryVars

\* The error of a send: only the reminder has a claim to release.
SendRaises(w) == IF Reminding(w) THEN Goto(w, "releasing") ELSE Raise(w)

\* send_text or send_content_template answers.
SendAnswered(w) ==
    /\ step[w] = "sending"
    /\ pings' = [pings EXCEPT ![JobOf(w)] = @ + 1]
    /\ Goto(w, "persisting")
    /\ UNCHANGED <<reminder, recorded, unknown>>

\* It raises although Twilio took the message: the answer was lost.
SendAnswerLost(w) ==
    /\ step[w] = "sending"
    /\ pings' = [pings EXCEPT ![JobOf(w)] = @ + 1]
    /\ unknown' = [unknown EXCEPT ![JobOf(w)] = @ + 1]
    /\ SendRaises(w)
    /\ UNCHANGED <<reminder, recorded>>

\* It raises and nothing was sent.
SendRejected(w) ==
    /\ step[w] = "sending"
    /\ SendRaises(w)
    /\ UNCHANGED deliveryVars

\* insert_outbound_message: from now on the same text is found by every notify
\* job that is not younger than it.
PersistOutbound(w) ==
    /\ step[w] = "persisting"
    /\ recorded' =
         IF Reminding(w)
         THEN recorded
         ELSE recorded \cup {j \in NotifyJobs : jobStatus[j] # "none"}
    /\ Return(w)
    /\ UNCHANGED <<reminder, pings, unknown>>

ReleaseReminder_Keeps(w) ==
    /\ step[w] = "releasing"
    /\ Raise(w)
    /\ UNCHANGED deliveryVars

\* release_reminder_claim: sent -> active, then the error goes on.
ReleaseReminder(w) ==
    /\ step[w] = "releasing"
    /\ reminder' =
         [reminder EXCEPT ![JobOf(w)] = IF @ = "sent" THEN "active" ELSE @]
    /\ Raise(w)
    /\ UNCHANGED <<recorded, pings, unknown>>

HandlerFaults_Releases(w) ==
    /\ step[w] \notin {"none", "sending"}
    /\ Queue!HandlerFaults(w)
    /\ step' = [step EXCEPT ![w] = "none"]
    /\ reminder' = IF Reminding(w)
                   THEN [reminder EXCEPT ![JobOf(w)] = IF @ = "sent" THEN "active" ELSE @]
                   ELSE reminder
    /\ UNCHANGED <<recorded, pings, unknown>>

\* A database call of the handler raises: the transaction is rolled back.  A
\* failed insert after a send releases nothing, and neither does a failed release.
HandlerFaults(w) ==
    /\ step[w] \notin {"none", "sending"}
    /\ Queue!HandlerFaults(w)
    /\ step' = [step EXCEPT ![w] = "none"]
    /\ UNCHANGED deliveryVars

\* The process dies between any two steps, and its connections end with it.
WorkerCrash(w) ==
    /\ Queue!WorkerCrash(w)
    /\ step' = [step EXCEPT ![w] = "none"]
    /\ UNCHANGED deliveryVars

-----------------------------------------------------------------------------
\* What a live worker does with the job in its hands.
HandlerStep(w) ==
    \/ LockContact(w)
    \/ ReadReminder(w)
    \/ ClaimReminder(w)
    \/ ReadNotify(w)
    \/ SendAnswered(w)
    \/ SendAnswerLost(w)
    \/ SendRejected(w)
    \/ PersistOutbound(w)
    \/ ReleaseReminder(w)

LoopStep(w) == Queue!LoopStep(w) /\ UNCHANGED <<step, deliveryVars>>
TimeStep(j) == Queue!TimeStep(j) /\ UNCHANGED <<step, deliveryVars>>

Next ==
    \/ \E j \in Jobs : Enqueue(j) \/ TimeStep(j)
    \/ \E j \in ReminderJobs : CancelReminder(j)
    \/ \E w \in Workers, j \in Jobs : ClaimJob(w, j)
    \/ \E w \in Workers : LoopStep(w) \/ HandlerStep(w) \/ HandlerFaults(w) \/ WorkerCrash(w)

Spec == Init /\ [][Next]_vars

\* As in JobQueue; a waiter gets the contact once it is free again and again.
Fairness ==
    /\ \A j \in Jobs : WF_vars(TimeStep(j))
    /\ \A w \in Workers :
         /\ WF_vars(LoopStep(w))
         /\ WF_vars(\E j \in Jobs : ClaimJob(w, j))
         /\ WF_vars(HandlerStep(w))
         /\ SF_vars(LockContact(w))

FairSpec == Spec /\ Fairness

-----------------------------------------------------------------------------
(***************************************************************************)
(* Properties.                                                             *)
(***************************************************************************)

\* Every variable has its type, and a worker is in a handler exactly while its
\* loop waits for one.
HandlersTypeOK ==
    /\ step \in [Workers -> Steps]
    /\ \A w \in Workers : step[w] # "none" <=> worker[w].pc = "handling"
    /\ reminder \in [ReminderJobs -> ReminderStatuses]
    /\ recorded \subseteq NotifyJobs
    /\ pings \in [Jobs -> Nat]
    /\ unknown \in [Jobs -> Nat]
TypeOK == Queue!QueueTypeOK /\ HandlersTypeOK

\* However often the wake-up of a reminder is retried, recovered or handled twice,
\* the contact is pinged once more only for a send whose answer was lost
\* (claim_reminder_for_send, release_reminder_claim).
RemindedOnce == \A j \in ReminderJobs : pings[j] <= 1 + unknown[j]

\* A reminder that was cancelled stays so, and no worker that had read it before
\* pings about it (cancel_reminder_row, check-at-fire).
KeepsSilent ==
    \A j \in ReminderJobs :
        reminder[j] = "cancelled" => UNCHANGED <<reminder[j], pings[j]>>
CancelledIsSilent == [][KeepsSilent]_vars

\* A wake-up is only done without a ping if the reminder was cancelled: no worker
\* takes the claim of another one, which may still be released, for a ping.
DoneWasReminded ==
    \A j \in ReminderJobs :
        jobStatus[j] = "done" /\ faults = 0 => pings[j] > 0 \/ reminder[j] = "cancelled"

\* The confirmation is sent again only if its text was delivered but not recorded:
\* an answer was lost, or a crash or a failed insert came in between.
NotifiedOnce == \A j \in NotifyJobs : pings[j] <= 1 + unknown[j] + faults

\* A reminder that was not cancelled gets to the contact or its job is dead.
RemindersArrive ==
    \A j \in ReminderJobs :
        reminder[j] = "active" ~>
            pings[j] > 0 \/ reminder[j] = "cancelled" \/ jobStatus[j] = "dead" \/ faults > 0

=============================================================================
