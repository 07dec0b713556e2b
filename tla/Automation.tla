----------------------------- MODULE Automation -----------------------------
(***************************************************************************)
(* One recurring automation and the chain of its wake-ups: the handler     *)
(* fire_due_automation (src/app/services/automation.py), the rows of       *)
(* automation and job it writes (src/app/db/automations.py), and the tools *)
(* that create, pause, resume and cancel it                                *)
(* (src/app/agent/automation_tools.py), on the queue of JobQueue and the   *)
(* rules of Recurrence.                                                    *)
(*                                                                         *)
(* A transaction that first takes the row lock of the automation and then  *)
(* looks for the pending wake-up has two steps: the workers claim and fail *)
(* jobs between its SELECT and its write.  The partial unique index of the *)
(* table allows one pending wake-up: whoever would make a second one       *)
(* fails.                                                                  *)
(*                                                                         *)
(* A definition named X_Y in front of X is X with a plausible bug Y; no    *)
(* action uses it.                                                         *)
(***************************************************************************)
EXTENDS Integers, FiniteSets

CONSTANTS
    Jobs, Workers, MaxAttempts, MaxFaults, NoJob,
    OffsetBefore, OffsetAfter, Transition, Period, Phase, LastWall, NoInstant,
    Horizon,   \* bound on the clock
    Resumer,   \* the transaction of resume_automation
    Nobody     \* holds no row lock

VARIABLES jobStatus, attempts, lock, due, worker, claimed, heldTooLong, faults

Queue == INSTANCE JobQueue WITH UnknownJobs <- {}
Rule == INSTANCE Recurrence

Parties == Workers \cup {Resumer}

ASSUME AutomationAssumption ==
    /\ NoJob \notin Jobs
    /\ MaxAttempts \in Nat \ {0}
    /\ MaxFaults \in Nat
    /\ Horizon \in Nat
    /\ Resumer \notin Workers
    /\ Nobody \notin Parties
ASSUME CalendarAssumption ==
    /\ OffsetBefore \in Int /\ OffsetAfter \in Int /\ Transition \in Int
    /\ Period \in Nat \ {0} /\ Phase \in Int /\ LastWall \in Int
    /\ NoInstant \notin Int

VARIABLES
    now,            \* the clock; the automation is created at 0
    occurrence,     \* occurrence_at in the payload of each job
    autoStatus,     \* automation.status
    nextRun,        \* automation.next_run_at
    lastOccurrence, \* automation.last_occurrence_at
    rowLock,        \* who has updated the row of the automation, uncommitted
    handler,        \* where in fire_due_automation each worker is
    tx,             \* what a party computed and read: see NoTx
    mishaps         \* what went wrong so far: "missed", an upsert updated a wake-up that
                    \* was not pending any more; "shared", a worker claimed one that
                    \* another one still had; "collided", a worker died of the index

queueVars == <<jobStatus, attempts, lock, due, worker, claimed, heldTooLong, faults>>
autoVars == <<autoStatus, nextRun, lastOccurrence>>
txVars == <<rowLock, handler, tx>>
vars == <<queueVars, now, occurrence, autoVars, txVars, mishaps>>

-----------------------------------------------------------------------------
AutoStatuses == {"none", "active", "paused", "cancelled"}
Steps == {"none", "reading", "executing", "closing", "replaying", "upserting", "returning"}

\* occ: the occurrence in the payload the worker claimed.  next: the instant to
\* wake up at.  seen: what get_pending_automation_due gave.  owned: complete_job
\* matched, and holds the row of the worker's own job until the commit.
NoTx == [occ |-> NoInstant, next |-> NoInstant, seen |-> NoJob, owned |-> FALSE]

Instants == Int \cup {NoInstant}
NextAfter(t) == Rule!NextOccurrence(t, 0)

Pending == {j \in Jobs : jobStatus[j] = "pending"}
JobOf(w) == worker[w].job

\* A new row of the table.
Unused(j) == jobStatus[j] = "none"
NewJob == CHOOSE j \in Jobs : Unused(j)
HasNewJob == \E j \in Jobs : Unused(j)

Init ==
    /\ Queue!Init
    /\ now = 0
    /\ occurrence = [j \in Jobs |-> NoInstant]
    /\ autoStatus = "none"
    /\ nextRun = NoInstant
    /\ lastOccurrence = NoInstant
    /\ rowLock = Nobody
    /\ handler = [w \in Workers |-> "none"]
    /\ tx = [p \in Parties |-> NoTx]
    /\ mishaps = {}

-----------------------------------------------------------------------------
(***************************************************************************)
(* upsert_automation_due, second half: update what was seen if it is still *)
(* pending, or insert.  status is the job table as the transaction has     *)
(* left it so far.                                                         *)
(***************************************************************************)
SeePending == IF Pending = {} THEN NoJob ELSE CHOOSE j \in Pending : TRUE

Schedule(status, j, next) ==
    /\ jobStatus' = [status EXCEPT ![j] = "pending"]
    /\ occurrence' = [occurrence EXCEPT ![j] = next]
    /\ due' = [due EXCEPT ![j] = FALSE]
    /\ UNCHANGED mishaps

Upsert(status, seen, next) ==
    \/ /\ seen # NoJob
       /\ status[seen] = "pending"
       /\ Schedule(status, seen, next)
    \/ /\ seen # NoJob
       /\ status[seen] # "pending"
       /\ jobStatus' = status
       /\ mishaps' = mishaps \cup {"missed"}
       /\ UNCHANGED <<occurrence, due>>
    \/ /\ seen = NoJob
       /\ Pending = {}
       /\ HasNewJob
       /\ Schedule(status, NewJob, next)

\* The insert ran into the unique index: look again.
UpsertCollides(p) ==
    /\ p = rowLock \/ (p \in Workers /\ handler[p] = "upserting")
    /\ tx[p].seen = NoJob
    /\ Pending # {}
    /\ tx' = [tx EXCEPT ![p].seen = SeePending]
    /\ UNCHANGED <<queueVars, now, occurrence, autoVars, rowLock, handler, mishaps>>

-----------------------------------------------------------------------------
(***************************************************************************)
(* The tools of an Execution run.                                          *)
(***************************************************************************)

CreateAutomation ==
    /\ autoStatus = "none"
    /\ now = 0
    /\ NextAfter(now) # NoInstant
    /\ autoStatus' = "active"
    /\ nextRun' = NextAfter(now)
    /\ Upsert(jobStatus, NoJob, NextAfter(now))
    /\ UNCHANGED <<attempts, lock, worker, claimed, heldTooLong, faults, now,
                   lastOccurrence, txVars>>

\* pause_automation and cancel_automation leave the wake-up alone.  An UPDATE of
\* the row waits for the one that holds it.
PauseAutomation ==
    /\ autoStatus = "active"
    /\ rowLock = Nobody
    /\ autoStatus' = "paused"
    /\ UNCHANGED <<queueVars, now, occurrence, nextRun, lastOccurrence, txVars, mishaps>>

CancelAutomation ==
    /\ autoStatus \in {"active", "paused"}
    /\ rowLock = Nobody
    /\ autoStatus' = "cancelled"
    /\ nextRun' = NoInstant
    /\ UNCHANGED <<queueVars, now, occurrence, lastOccurrence, txVars, mishaps>>

\* resume_automation up to the SELECT of the pending wake-up ...
ResumeBegins ==
    /\ autoStatus = "paused"
    /\ rowLock = Nobody
    /\ NextAfter(now) # NoInstant
    /\ rowLock' = Resumer
    /\ tx' = [tx EXCEPT ![Resumer] =
         [NoTx EXCEPT !.next = NextAfter(now), !.seen = SeePending]]
    /\ UNCHANGED <<queueVars, now, occurrence, autoVars, handler, mishaps>>

ResumeCommits_WakesNobody ==
    /\ rowLock = Resumer
    /\ autoStatus' = "active"
    /\ nextRun' = tx[Resumer].next
    /\ rowLock' = Nobody
    /\ tx' = [tx EXCEPT ![Resumer] = NoTx]
    /\ UNCHANGED <<queueVars, now, occurrence, lastOccurrence, handler, mishaps>>

\* ... and its write.
ResumeCommits ==
    /\ rowLock = Resumer
    /\ autoStatus' = "active"
    /\ nextRun' = tx[Resumer].next
    /\ Upsert(jobStatus, tx[Resumer].seen, tx[Resumer].next)
    /\ rowLock' = Nobody
    /\ tx' = [tx EXCEPT ![Resumer] = NoTx]
    /\ UNCHANGED <<attempts, lock, worker, claimed, heldTooLong, faults, now,
                   lastOccurrence, handler>>

-----------------------------------------------------------------------------
(***************************************************************************)
(* fire_due_automation.                                                    *)
(***************************************************************************)

Goto(w, s) == handler' = [handler EXCEPT ![w] = s]

ClaimJob(w, j) ==
    /\ Queue!ClaimJob(w, j)
    /\ Goto(w, "reading")
    /\ tx' = [tx EXCEPT ![w] = [NoTx EXCEPT !.occ = occurrence[j]]]
    /\ mishaps' = mishaps \cup {m \in {"shared"} : \E v \in Workers : JobOf(v) = j}
    /\ UNCHANGED <<now, occurrence, autoVars, rowLock>>

\* The handler is over; what it has not committed is rolled back.
Leave(w) ==
    /\ Goto(w, "none")
    /\ tx' = [tx EXCEPT ![w] = NoTx]
    /\ rowLock' = IF rowLock = w THEN Nobody ELSE rowLock
    /\ UNCHANGED <<now, occurrence, autoVars, mishaps>>

\* The first read: an automation that is not active is none of its business ...
NotActive(w) ==
    /\ handler[w] = "reading"
    /\ autoStatus # "active"
    /\ Queue!HandlerEnds(w, TRUE)
    /\ Leave(w)

\* ... an occurrence that is on record only needs its successor, the one that
\* was read here ...
AlreadyRun(w) ==
    /\ handler[w] = "reading"
    /\ autoStatus = "active"
    /\ lastOccurrence = tx[w].occ
    /\ Goto(w, "replaying")
    /\ tx' = [tx EXCEPT ![w].next = nextRun]
    /\ UNCHANGED <<queueVars, now, occurrence, autoVars, rowLock, mishaps>>

\* ... and any other is run.
StartExecution(w) ==
    /\ handler[w] = "reading"
    /\ autoStatus = "active"
    /\ lastOccurrence # tx[w].occ
    /\ Goto(w, "executing")
    /\ UNCHANGED <<queueVars, now, occurrence, autoVars, rowLock, tx, mishaps>>

\* run_scheduled_execution started and ended, was deduped, or skipped for want
\* of a toolkit; _close_wake_up then computes the next occurrence.
ExecutionEnds(w) ==
    /\ handler[w] = "executing"
    /\ Goto(w, "closing")
    /\ tx' = [tx EXCEPT ![w].next = NextAfter(now)]
    /\ UNCHANGED <<queueVars, now, occurrence, autoVars, rowLock, mishaps>>

\* It was busy, or raised.
ExecutionFails(w) ==
    /\ handler[w] = "executing"
    /\ Queue!HandlerEnds(w, FALSE)
    /\ Leave(w)

\* The row of a job that another worker's transaction has completed, uncommitted.
RowHeld(j, w) == \E v \in Workers \ {w} : tx[v].owned /\ JobOf(v) = j

\* _close_wake_up up to the SELECT of the pending wake-up: record_automation_run
\* has matched an active automation, and complete_job the job if it still runs.
\* The replay has no row of the automation to update.
BeginsUpsert(w) ==
    /\ ~ RowHeld(JobOf(w), w)
    /\ Goto(w, "upserting")
    /\ tx' = [tx EXCEPT ![w].seen = SeePending, ![w].owned = Queue!StillRunning(JobOf(w))]
    /\ UNCHANGED <<queueVars, now, occurrence, autoVars, mishaps>>
CloseBegins(w) ==
    /\ handler[w] = "closing"
    /\ autoStatus = "active"
    /\ rowLock = Nobody
    /\ rowLock' = w
    /\ BeginsUpsert(w)
ReplayBegins(w) ==
    /\ handler[w] = "replaying"
    /\ BeginsUpsert(w)
    /\ UNCHANGED rowLock

\* record_automation_run found it paused or cancelled: only the job is completed.
CloseUnrecorded(w) ==
    LET j == JobOf(w)
    IN  /\ handler[w] = "closing"
        /\ autoStatus # "active"
        /\ ~ RowHeld(j, w)
        /\ jobStatus' = [jobStatus EXCEPT ![j] = IF @ = "running" THEN "done" ELSE @]
        /\ lock' = [lock EXCEPT ![j] = IF jobStatus[j] = "running" THEN "null" ELSE @]
        /\ Goto(w, "returning")
        /\ UNCHANGED <<attempts, due, worker, claimed, heldTooLong, faults, now,
                       occurrence, autoVars, rowLock, tx, mishaps>>

\* The job table after complete_job, and the rest of the transaction.
Completed(w) == IF tx[w].owned THEN [jobStatus EXCEPT ![JobOf(w)] = "done"] ELSE jobStatus

CommitsUpsert(w) ==
    /\ handler[w] = "upserting"
    /\ \/ /\ tx[w].next = NoInstant
          /\ jobStatus' = Completed(w)
          /\ UNCHANGED <<due, occurrence, mishaps>>
       \/ /\ tx[w].next # NoInstant
          /\ Upsert(Completed(w), tx[w].seen, tx[w].next)
    /\ lock' = IF tx[w].owned THEN [lock EXCEPT ![JobOf(w)] = "null"] ELSE lock
    /\ Goto(w, "returning")
    /\ tx' = [tx EXCEPT ![w] = NoTx]
    /\ UNCHANGED <<attempts, worker, claimed, heldTooLong, faults, now, autoStatus>>
CloseCommits_KeepsNextRun(w) ==
    /\ rowLock = w
    /\ CommitsUpsert(w)
    /\ lastOccurrence' = tx[w].occ
    /\ rowLock' = Nobody
    /\ UNCHANGED nextRun
CloseCommits(w) ==
    /\ rowLock = w
    /\ CommitsUpsert(w)
    /\ nextRun' = tx[w].next
    /\ lastOccurrence' = tx[w].occ
    /\ rowLock' = Nobody
ReplayCommits(w) ==
    /\ rowLock # w
    /\ CommitsUpsert(w)
    /\ UNCHANGED <<nextRun, lastOccurrence, rowLock>>

Return(w) ==
    /\ handler[w] = "returning"
    /\ Queue!HandlerEnds(w, TRUE)
    /\ Leave(w)

-----------------------------------------------------------------------------
(***************************************************************************)
(* The loop of the workers with the unique index, faults and time.         *)
(***************************************************************************)
Unrelated == UNCHANGED <<now, occurrence, autoVars, txVars>>

\* recover_stale_jobs would leave more than one wake-up pending: it raises, and
\* the worker does not get into its loop.
ToRecover == {j \in Jobs : Queue!Recoverable(j)}
RecoveryCollides == \E i, j \in Pending \cup ToRecover : i # j /\ ToRecover # {}
StartWorker(w) ==
    /\ Queue!StartWorker(w)
    /\ ~ RecoveryCollides
    /\ \A j \in ToRecover : ~ RowHeld(j, w)
    /\ Unrelated
    /\ UNCHANGED mishaps

\* fail_job would leave a second one: the error goes through run_worker.
Requeues(w) ==
    /\ worker[w].pc = "requeueing"
    /\ Queue!StillRunning(JobOf(w))
    /\ worker[w].attempts + 1 < MaxAttempts
FailCollides(w) ==
    /\ Requeues(w)
    /\ Pending # {}
    /\ worker' = [worker EXCEPT ![w] = Queue!Loop("down")]
    /\ mishaps' = mishaps \cup {"collided"}
    /\ UNCHANGED <<jobStatus, attempts, lock, due, claimed, heldTooLong, faults>>
    /\ Unrelated

LoopStep(w) ==
    \/ StartWorker(w)
    \/ FailCollides(w)
    \/ /\ \/ Queue!CompleteJob(w) /\ ~ RowHeld(JobOf(w), w)
          \/ Queue!ReadFailed(w)
          \/ Queue!FailJob(w) /\ ~ RowHeld(JobOf(w), w) /\ ~ (Requeues(w) /\ Pending # {})
       /\ Unrelated
       /\ UNCHANGED mishaps

Tick ==
    /\ now < Horizon
    /\ now' = now + 1
    /\ UNCHANGED <<queueVars, occurrence, autoVars, txVars, mishaps>>

\* run_at is the occurrence, or a backoff after it.
TimeStep(j) ==
    /\ \/ Queue!RunAtPasses(j) /\ occurrence[j] <= now
       \/ Queue!LockAges(j)
    /\ Unrelated
    /\ UNCHANGED mishaps

\* A database call of the handler raises, or the process dies.
HandlerFaults(w) ==
    /\ handler[w] \in {"reading", "closing", "replaying", "upserting"}
    /\ Queue!HandlerFaults(w)
    /\ Leave(w)
WorkerCrash(w) ==
    /\ Queue!WorkerCrash(w)
    /\ Leave(w)

\* So does one of resume_automation, or the run it is in is cancelled.
ResumeAborts ==
    /\ rowLock = Resumer
    /\ faults < MaxFaults
    /\ faults' = faults + 1
    /\ rowLock' = Nobody
    /\ tx' = [tx EXCEPT ![Resumer] = NoTx]
    /\ UNCHANGED <<jobStatus, attempts, lock, due, worker, claimed, heldTooLong,
                   now, occurrence, autoVars, handler, mishaps>>

-----------------------------------------------------------------------------
HandlerStep(w) ==
    \/ NotActive(w)
    \/ AlreadyRun(w)
    \/ StartExecution(w)
    \/ ExecutionEnds(w)
    \/ ExecutionFails(w)
    \/ CloseBegins(w)
    \/ ReplayBegins(w)
    \/ CloseUnrecorded(w)
    \/ UpsertCollides(w)
    \/ CloseCommits(w)
    \/ ReplayCommits(w)
    \/ Return(w)

ResumeStep == UpsertCollides(Resumer) \/ ResumeCommits

Next ==
    \/ CreateAutomation
    \/ PauseAutomation
    \/ CancelAutomation
    \/ ResumeBegins
    \/ ResumeStep
    \/ ResumeAborts
    \/ Tick
    \/ \E j \in Jobs : TimeStep(j)
    \/ \E w \in Workers, j \in Jobs : ClaimJob(w, j)
    \/ \E w \in Workers : LoopStep(w) \/ HandlerStep(w) \/ HandlerFaults(w) \/ WorkerCrash(w)

Spec == Init /\ [][Next]_vars

\* As in JobQueue; time passes up to the bound, and a transaction that has begun
\* goes on.
Fairness ==
    /\ WF_vars(Tick)
    /\ WF_vars(ResumeStep)
    /\ \A j \in Jobs : WF_vars(TimeStep(j))
    /\ \A w \in Workers :
         /\ WF_vars(LoopStep(w))
         /\ WF_vars(\E j \in Jobs : ClaimJob(w, j))
         /\ WF_vars(HandlerStep(w))

FairSpec == Spec /\ Fairness

-----------------------------------------------------------------------------
(***************************************************************************)
(* Properties.                                                             *)
(***************************************************************************)

\* Every variable has its type, a worker is in the handler exactly while its
\* loop waits for one, and only a transaction in progress holds rows.
HandlersTypeOK ==
    /\ now \in Nat
    /\ occurrence \in [Jobs -> Instants]
    /\ autoStatus \in AutoStatuses
    /\ nextRun \in Instants
    /\ lastOccurrence \in Instants
    /\ rowLock \in Parties \cup {Nobody}
    /\ handler \in [Workers -> Steps]
    /\ \A w \in Workers : handler[w] # "none" <=> worker[w].pc = "handling"
    /\ tx \in [Parties -> [occ : Instants, next : Instants,
                           seen : Jobs \cup {NoJob}, owned : BOOLEAN]]
    /\ mishaps \subseteq {"missed", "shared", "collided"}
TypeOK == Queue!QueueTypeOK /\ HandlersTypeOK

\* The chain does not break: an active automation with a next run has a wake-up
\* that is pending or claimed, through retries, pauses, resumptions and crashes --
\* unless a wake-up is dead, an upsert updated one that a worker had claimed in
\* between ("missed"), or a worker claimed one that another still had ("shared").
AlwaysWakesUp ==
    autoStatus = "active" /\ nextRun # NoInstant =>
        \/ \E j \in Jobs : jobStatus[j] \in {"pending", "running"}
        \/ \E j \in Jobs : jobStatus[j] = "dead"
        \/ {"missed", "shared"} \cap mishaps # {}

\* Whenever an occurrence is put on record, the next run is later than it.
\* (tasks/done/045: "scheduler advances to the next future occurrence".)
RecordAdvances ==
    lastOccurrence' # lastOccurrence /\ nextRun' # NoInstant => nextRun' > lastOccurrence'
Advances == [][RecordAdvances]_vars

\* Every run the user was told of is over some day: it took place, or a pause, a
\* cancellation, five failures or a mishap intervened.
NextRunsPass ==
    \A t \in 1 .. Horizon :
        autoStatus = "active" /\ nextRun = t ~>
            \/ autoStatus # "active" \/ nextRun # t
            \/ \E j \in Jobs : jobStatus[j] = "dead"
            \/ mishaps # {} \/ faults > 0 \/ ~ HasNewJob

\* A worker that the platform starts gets into its loop.  (docs/deploy.md: "a
\* stale lock is recovered".)
WorkersComeUp == \A w \in Workers : worker[w].pc = "down" ~> worker[w].pc # "down"

=============================================================================
