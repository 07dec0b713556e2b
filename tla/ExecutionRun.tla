---------------------------- MODULE ExecutionRun ----------------------------
(***************************************************************************)
(* The lifecycle of the detached and scheduled Execution runs of one       *)
(* contact: src/app/services/execution.py over src/app/db/executions.py.   *)
(*                                                                         *)
(* A row of execution_run is written by up to five parties that share      *)
(* nothing but the database: the asyncio task that runs the goal in the    *)
(* API process, the finalizer that cancel_execution leaves behind, the     *)
(* result re-entry task, the worker that retries a scheduled wake-up, and  *)
(* the sweep the API runs when it starts.  Every database transaction is   *)
(* one action; the code between two awaits belongs to the action before    *)
(* the second one.  A fault is a crash of a process or a failing database  *)
(* call; MaxFaults bounds how many of them a behaviour has.                *)
(*                                                                         *)
(* A definition named X_Y in front of X is X with a plausible bug Y.  No   *)
(* action uses it: it shows which property the bug would break.            *)
(*                                                                         *)
(* Every statement of db/executions.py but the sweep names one contact_id, *)
(* and the sweep treats each row by itself, so the rows of one contact are *)
(* modelled.                                                               *)
(***************************************************************************)
EXTENDS Integers, Sequences, FiniteSets

CONSTANTS
    MaxRuns,        \* bound on the rows; row ids are also the created_at order
    MaxDetached,    \* bound on the rows dispatched by Interaction
    MaxActive,      \* max_active_runs of create_or_get_execution_run
    DetachedKeys,   \* dedupe keys of goals dispatched by Interaction
    ScheduledKeys,  \* dedupe keys of automation occurrences
    Workers,        \* worker replicas
    MaxAttempts,    \* job.max_attempts
    MaxFaults,      \* bound on crashes and failing database calls
    NoKey, NoRun

ASSUME RunsAssumption ==
    MaxRuns \in Nat /\ MaxDetached \in Nat /\ MaxActive \in Nat
ASSUME KeysAssumption ==
    /\ DetachedKeys \cap ScheduledKeys = {}
    /\ NoKey \notin DetachedKeys \cup ScheduledKeys
ASSUME NoRunAssumption == NoRun \notin Nat
ASSUME FaultsAssumption == MaxFaults \in Nat
ASSUME AttemptsAssumption == MaxAttempts \in Nat \ {0}

Runs == 1 .. MaxRuns
Keys == DetachedKeys \cup ScheduledKeys

VARIABLES
    status,          \* execution_run.status, "none" before the row exists
    dedupeKey,       \* execution_run.dedupe_key
    cancelRequested, \* execution_run.cancel_requested
    startedAt,       \* execution_run.started_at against the execution timeout
    events,          \* execution_event rows of the run, oldest first
    task,            \* the asyncio task of a detached run
    canceller,       \* the finalizer task of cancel_execution
    reentryTask,     \* _reenter_interaction runs as a task of the API
    reentries,       \* how often Interaction was asked to tell the result
    worker,          \* run_scheduled_execution in each worker
    wakeUp,          \* what became of the occurrence: see WakeUpStates
    attempts,        \* job.attempts of the occurrence's job
    apiUp,           \* the API process is serving
    faults           \* crashes and failing database calls so far

rowVars == <<status, dedupeKey, cancelRequested, startedAt>>
apiVars == <<task, canceller, reentryTask>>
jobVars == <<wakeUp, attempts>>
workerVars == <<worker, jobVars>>
vars == <<rowVars, events, apiVars, reentries, workerVars, apiUp, faults>>

-----------------------------------------------------------------------------
ActiveStatuses == {"pending", "running", "cancel_requested"}
TerminalStatuses ==
    {"succeeded", "failed", "timed_out", "cancelled", "abandoned"}

\* What _run_execution can end with while nobody cancels it: the agent's
\* outcome (needs_input and a failed staging check become "failed", as does
\* any exception) or the expiry of wait_for.
GoalOutcomes == {"succeeded", "failed", "timed_out"}
Outcomes == {"succeeded", "failed", "timed_out", "cancelled"}

TaskStates ==
    {"none", "committed", "queued", "working", "finishing", "finished", "done"}
WorkerStates ==
    {"idle", "skipping", "creating", "reclaiming", "queued", "working",
     "finishing", "reentering", "checking"}

\* "due": the job is pending or running.  Else it is over: closed with what
\* automation.last_run_status then tells of the run (a member of Outcomes, by
\* _LAST_RUN_FROM_EXECUTION), closed as "skipped" without one, "dropped" as the
\* wake-up of an automation that is not active, or "dead" after max_attempts.
WakeUpStates == Outcomes \cup {"due", "skipped", "dropped", "dead"}
LastRunFromExecution(s) == IF s = "abandoned" THEN "failed" ELSE s
NoTask == [pc |-> "none", outcome |-> "failed"]
IdleWorker == [pc |-> "idle", run |-> NoRun, key |-> NoKey, outcome |-> "failed"]

Active(r) == status[r] \in ActiveStatuses
Terminal(r) == status[r] \in TerminalStatuses
ActiveRuns == {r \in Runs : Active(r)}
RowsOf(k) == {r \in Runs : status[r] # "none" /\ dedupeKey[r] = k}

\* get_execution_run_by_dedupe: the newest row of the key, terminal ones too.
HasRow_Active(k) == \E r \in RowsOf(k) : Active(r)
HasRow(k) == RowsOf(k) # {}
Latest(r, k) == r \in RowsOf(k) /\ \A q \in RowsOf(k) : q <= r

\* The id the database gives to the next row.
NextRow(r) == status[r] = "none" /\ \A q \in Runs : q < r => status[q] # "none"

Init ==
    /\ status = [r \in Runs |-> "none"]
    /\ dedupeKey = [r \in Runs |-> NoKey]
    /\ cancelRequested = [r \in Runs |-> FALSE]
    /\ startedAt = [r \in Runs |-> "null"]
    /\ events = [r \in Runs |-> <<>>]
    /\ task = [r \in Runs |-> NoTask]
    /\ canceller = [r \in Runs |-> "none"]
    /\ reentryTask = [r \in Runs |-> FALSE]
    /\ reentries = [r \in Runs |-> 0]
    /\ worker = [w \in Workers |-> IdleWorker]
    /\ wakeUp = [k \in ScheduledKeys |-> "due"]
    /\ attempts = [k \in ScheduledKeys |-> 0]
    /\ apiUp = TRUE
    /\ faults = 0

-----------------------------------------------------------------------------
(***************************************************************************)
(* Transactions of db/executions.py.                                       *)
(***************************************************************************)

\* The part of create_or_get_execution_run that inserts: under the lock on the
\* contact's row no active run has the key and there is room for one more.
HasActiveRow(k) == \E q \in RowsOf(k) : Active(q)
HasRoom_CountsRunning == Cardinality({r \in Runs : status[r] = "running"}) < MaxActive
HasRoom == Cardinality(ActiveRuns) < MaxActive
CreateExecutionRun(r, k) ==
    /\ ~ HasActiveRow(k)
    /\ HasRoom
    /\ NextRow(r)
    /\ status' = [status EXCEPT ![r] = "pending"]
    /\ dedupeKey' = [dedupeKey EXCEPT ![r] = k]
    /\ UNCHANGED <<cancelRequested, startedAt>>

Claimable(r) == status[r] = "pending" /\ ~ cancelRequested[r]
ClaimExecutionRun(r) ==
    /\ status' = [status EXCEPT ![r] = "running"]
    /\ startedAt' = [startedAt EXCEPT ![r] = "fresh"]
    /\ UNCHANGED <<dedupeKey, cancelRequested>>

\* The WHERE clause of finish_execution_run.
Finishable_Any(r) == status[r] # "none"
Finishable(r) == Active(r)

\* finish_execution_run with append_execution_event in the same transaction:
\* nothing happens unless the row is still active.
FinishExecutionRun(r, s) ==
    /\ IF Finishable(r)
       THEN /\ status' = [status EXCEPT ![r] = s]
            /\ events' = [events EXCEPT ![r] = Append(@, s)]
       ELSE UNCHANGED <<status, events>>
    /\ UNCHANGED <<dedupeKey, cancelRequested, startedAt>>

Cancellable(r) == status[r] \in {"pending", "running"}
RequestExecutionCancellation(r) ==
    /\ status' = [status EXCEPT ![r] = "cancel_requested"]
    /\ cancelRequested' = [cancelRequested EXCEPT ![r] = TRUE]
    /\ UNCHANGED <<dedupeKey, startedAt>>

Reclaimable_RunningOnly(r) == status[r] = "running"
Reclaimable(r) == status[r] \in {"running", "cancel_requested"}
ReclaimExecutionRunForRetry(r) ==
    /\ status' = [status EXCEPT ![r] = "pending"]
    /\ startedAt' = [startedAt EXCEPT ![r] = "null"]
    /\ cancelRequested' = [cancelRequested EXCEPT ![r] = FALSE]
    /\ UNCHANGED dedupeKey

\* The WHERE clause of abandon_stale_execution_runs.
Stale(r) ==
    status[r] \in {"running", "cancel_requested"} /\ startedAt[r] = "expired"

-----------------------------------------------------------------------------
(***************************************************************************)
(* The detached run in the API process: dispatch_execution, its task       *)
(* (_run_execution) and cancel_execution.                                  *)
(***************************************************************************)

\* dispatch_execution up to its commit.  A goal that is deduped, over capacity
\* or lacks a toolkit changes nothing and is not a step.
DispatchExecution(k, r) ==
    /\ apiUp
    /\ Cardinality({q \in Runs : dedupeKey[q] \in DetachedKeys}) < MaxDetached
    /\ CreateExecutionRun(r, k)
    /\ task' = [task EXCEPT ![r] = [pc |-> "committed", outcome |-> "failed"]]
    /\ UNCHANGED <<events, canceller, reentryTask, reentries, workerVars,
                   apiUp, faults>>

\* The rest of dispatch_execution: create_task and register.
RegisterTask(r) ==
    /\ task[r].pc = "committed"
    /\ task' = [task EXCEPT ![r].pc = "queued"]
    /\ UNCHANGED <<rowVars, events, canceller, reentryTask, reentries,
                   workerVars, apiUp, faults>>

\* The task starts: the claim decides whether it runs the goal or returns.
ClaimDetached(r) ==
    /\ task[r].pc = "queued"
    /\ \/ /\ Claimable(r)
          /\ ClaimExecutionRun(r)
          /\ task' = [task EXCEPT ![r].pc = "working"]
       \/ /\ ~ Claimable(r)
          /\ task' = [task EXCEPT ![r].pc = "done"]
          /\ UNCHANGED rowVars
    /\ UNCHANGED <<events, canceller, reentryTask, reentries, workerVars,
                   apiUp, faults>>

DetachedGoalEnds(r, outcome) ==
    /\ task[r].pc = "working"
    /\ task' = [task EXCEPT ![r] = [pc |-> "finishing", outcome |-> outcome]]
    /\ UNCHANGED <<rowVars, events, canceller, reentryTask, reentries,
                   workerVars, apiUp, faults>>

FinishDetached_IgnoresLoss(r) ==
    /\ task[r].pc = "finishing"
    /\ FinishExecutionRun(r, task[r].outcome)
    /\ task' = [task EXCEPT ![r].pc = "finished"]
    /\ UNCHANGED <<canceller, reentryTask, reentries, workerVars, apiUp, faults>>

\* _finish_and_schedule_reentry up to its commit.
FinishDetached(r) ==
    /\ task[r].pc = "finishing"
    /\ FinishExecutionRun(r, task[r].outcome)
    /\ task' = [task EXCEPT ![r].pc = IF Active(r) THEN "finished" ELSE "done"]
    /\ UNCHANGED <<canceller, reentryTask, reentries, workerVars, apiUp, faults>>

\* ... and its create_task of _reenter_interaction.
StartReentry(r) ==
    /\ reentryTask' = [reentryTask EXCEPT ![r] = TRUE]
    /\ reentries' = [reentries EXCEPT ![r] = @ + 1]

ScheduleReentry(r) ==
    /\ task[r].pc = "finished"
    /\ task' = [task EXCEPT ![r].pc = "done"]
    /\ StartReentry(r)
    /\ UNCHANGED <<rowVars, events, canceller, workerVars, apiUp, faults>>

\* cancel_execution up to its commit.  One call per run is in flight.
RequestCancellation(r) ==
    /\ apiUp
    /\ canceller[r] = "none"
    /\ Cancellable(r)
    /\ RequestExecutionCancellation(r)
    /\ canceller' = [canceller EXCEPT ![r] = "requested"]
    /\ UNCHANGED <<events, task, reentryTask, reentries, workerVars, apiUp,
                   faults>>

\* The pcs a task can be in after CancelledError is thrown at its next await.
\* A task that never started, that still waits for its claim or that is writing
\* its result dies there; one inside the goal goes on to write "cancelled".
AfterCancel_Ignored(t) == {t}
AfterCancel(t) ==
    CASE t.pc \in {"queued", "finishing", "finished"} -> {[t EXCEPT !.pc = "done"]}
      [] t.pc = "working" ->
            {[t EXCEPT !.pc = "done"], [pc |-> "finishing", outcome |-> "cancelled"]}
      [] OTHER -> {t}

CancelTask_NoFinalizer(r) ==
    /\ canceller[r] = "requested"
    /\ canceller' = [canceller EXCEPT ![r] = "none"]
    /\ \E t \in AfterCancel(task[r]) : task' = [task EXCEPT ![r] = t]
    /\ UNCHANGED <<rowVars, events, reentryTask, reentries, workerVars,
                   apiUp, faults>>

\* cancel_execution after its commit: local_execution_tasks.cancel and the
\* create_task of the finalizer, with no await in between.
CancelTask(r) ==
    /\ canceller[r] = "requested"
    /\ canceller' = [canceller EXCEPT ![r] = "finalizing"]
    /\ \E t \in AfterCancel(task[r]) : task' = [task EXCEPT ![r] = t]
    /\ UNCHANGED <<rowVars, events, reentryTask, reentries, workerVars,
                   apiUp, faults>>

\* The finalizer: _finish_and_schedule_reentry with CANCELLED.
FinishCancelled(r) ==
    /\ canceller[r] = "finalizing"
    /\ FinishExecutionRun(r, "cancelled")
    /\ canceller' =
         [canceller EXCEPT ![r] = IF Active(r) THEN "finished" ELSE "none"]
    /\ UNCHANGED <<task, reentryTask, reentries, workerVars, apiUp, faults>>

ScheduleCancelReentry(r) ==
    /\ canceller[r] = "finished"
    /\ canceller' = [canceller EXCEPT ![r] = "none"]
    /\ StartReentry(r)
    /\ UNCHANGED <<rowVars, events, task, workerVars, apiUp, faults>>

\* _reenter_interaction ends, delivered or not: the turn it runs and the event it
\* then marks processed are those of Conversation.
ReenterInteraction(r) ==
    /\ reentryTask[r]
    /\ reentryTask' = [reentryTask EXCEPT ![r] = FALSE]
    /\ UNCHANGED <<rowVars, events, task, canceller, reentries, workerVars,
                   apiUp, faults>>

-----------------------------------------------------------------------------
(***************************************************************************)
(* fire_due_automation with run_scheduled_execution in a worker.  The job  *)
(* of an occurrence is claimed again after every failure and every crash,  *)
(* until a call of the handler closes it or fail_job gives it up.  Its     *)
(* locks and its claims are those of JobQueue; the automation's row is     *)
(* that of Automation.                                                     *)
(***************************************************************************)

FailJob(k) ==
    IF wakeUp[k] = "due"
    THEN /\ attempts' = [attempts EXCEPT ![k] = @ + 1]
         /\ wakeUp' = IF attempts[k] + 1 >= MaxAttempts
                      THEN [wakeUp EXCEPT ![k] = "dead"] ELSE wakeUp
    ELSE UNCHANGED jobVars

\* _close_wake_up.
CloseWakeUp(k, lastRun) ==
    /\ wakeUp' = [wakeUp EXCEPT ![k] = lastRun]
    /\ UNCHANGED attempts

\* fire_due_automation up to the read of the newest row of the occurrence.  A
\* paused or cancelled automation drops the wake-up.  An empty goal or a toolkit
\* that is not connected skips it without looking for a row: one that an earlier
\* attempt left active stays so.  A terminal row closes the wake-up as "deduped".
WakeUpScheduled(w, k) ==
    /\ worker[w].pc = "idle"
    /\ wakeUp[k] = "due"
    /\ LET begin(pc, r) ==
             /\ worker' = [worker EXCEPT ![w] =
                   [pc |-> pc, run |-> r, key |-> k, outcome |-> "failed"]]
             /\ UNCHANGED jobVars
           end(lastRun) == CloseWakeUp(k, lastRun) /\ UNCHANGED worker
       IN  \/ end("dropped")
           \/ begin("skipping", NoRun)
           \/ ~ HasRow(k) /\ begin("creating", NoRun)
           \/ \E r \in Runs :
                /\ HasRow(k) /\ Latest(r, k)
                /\ \/ Reclaimable(r) /\ begin("reclaiming", r)
                   \/ status[r] = "pending" /\ begin("queued", r)
                   \/ Terminal(r) /\ end(LastRunFromExecution(status[r]))
    /\ UNCHANGED <<rowVars, events, apiVars, reentries, apiUp, faults>>

\* _reenter_skipped tells Interaction, then the wake-up is closed.
SkipScheduled(w) ==
    /\ worker[w].pc = "skipping"
    /\ worker' = [worker EXCEPT ![w] = IdleWorker]
    /\ CloseWakeUp(worker[w].key, "skipped")
    /\ UNCHANGED <<rowVars, events, apiVars, reentries, apiUp, faults>>

\* create_or_get_execution_run: an active row of the key is run as it is, a
\* contact without room is "busy" and the handler raises.
CreateScheduled(w) ==
    /\ worker[w].pc = "creating"
    /\ LET k == worker[w].key
           proceed(r) == worker' = [worker EXCEPT ![w].pc = "queued", ![w].run = r]
       IN  \/ /\ \E r \in RowsOf(k) : Active(r) /\ proceed(r)
              /\ UNCHANGED <<rowVars, jobVars>>
           \/ /\ \E r \in Runs : CreateExecutionRun(r, k) /\ proceed(r)
              /\ UNCHANGED jobVars
           \/ /\ ~ HasActiveRow(k)
              /\ ~ HasRoom
              /\ worker' = [worker EXCEPT ![w] = IdleWorker]
              /\ FailJob(k)
              /\ UNCHANGED rowVars
    /\ UNCHANGED <<events, apiVars, reentries, apiUp, faults>>

ReclaimScheduled(w) ==
    /\ worker[w].pc = "reclaiming"
    /\ LET r == worker[w].run
       IN  \/ /\ Reclaimable(r)
              /\ ReclaimExecutionRunForRetry(r)
              /\ worker' = [worker EXCEPT ![w].pc = "queued"]
              /\ UNCHANGED jobVars
           \/ /\ ~ Reclaimable(r)
              /\ worker' = [worker EXCEPT ![w] = IdleWorker]
              /\ FailJob(worker[w].key)
              /\ UNCHANGED rowVars
    /\ UNCHANGED <<events, apiVars, reentries, apiUp, faults>>

ClaimScheduled(w) ==
    /\ worker[w].pc = "queued"
    /\ LET r == worker[w].run
       IN  \/ /\ Claimable(r)
              /\ ClaimExecutionRun(r)
              /\ worker' = [worker EXCEPT ![w].pc = "working"]
           \/ /\ ~ Claimable(r)
              /\ worker' = [worker EXCEPT ![w].pc = "checking"]
              /\ UNCHANGED rowVars
    /\ UNCHANGED <<events, apiVars, reentries, jobVars, apiUp, faults>>

ScheduledGoalEnds(w, outcome) ==
    /\ worker[w].pc = "working"
    /\ worker' = [worker EXCEPT ![w].pc = "finishing", ![w].outcome = outcome]
    /\ UNCHANGED <<rowVars, events, apiVars, reentries, jobVars, apiUp, faults>>

\* _finish_and_schedule_reentry with await_reentry: the worker that wrote the
\* result goes on to re-enter Interaction itself.
FinishScheduled(w) ==
    /\ worker[w].pc = "finishing"
    /\ LET r == worker[w].run
       IN  /\ FinishExecutionRun(r, worker[w].outcome)
           /\ worker' = [worker EXCEPT
                 ![w].pc = IF Active(r) THEN "reentering" ELSE "checking"]
           /\ reentries' = IF Active(r) THEN [reentries EXCEPT ![r] = @ + 1]
                                        ELSE reentries
    /\ UNCHANGED <<apiVars, jobVars, apiUp, faults>>

ReenterScheduled(w) ==
    /\ worker[w].pc = "reentering"
    /\ worker' = [worker EXCEPT ![w].pc = "checking"]
    /\ UNCHANGED <<rowVars, events, apiVars, reentries, jobVars, apiUp, faults>>

CheckScheduled_AlwaysCloses(w) ==
    /\ worker[w].pc = "checking"
    /\ worker' = [worker EXCEPT ![w] = IdleWorker]
    /\ CloseWakeUp(worker[w].key, "succeeded")
    /\ UNCHANGED <<rowVars, events, apiVars, reentries, apiUp, faults>>

\* The last read: a terminal row closes the wake-up with its status, at any other
\* the handler raises.
CheckScheduled(w) ==
    /\ worker[w].pc = "checking"
    /\ worker' = [worker EXCEPT ![w] = IdleWorker]
    /\ IF Terminal(worker[w].run)
       THEN CloseWakeUp(worker[w].key, LastRunFromExecution(status[worker[w].run]))
       ELSE FailJob(worker[w].key)
    /\ UNCHANGED <<rowVars, events, apiVars, reentries, apiUp, faults>>

-----------------------------------------------------------------------------
(***************************************************************************)
(* Time, crashes, restarts and failing database calls.                     *)
(***************************************************************************)

\* started_at becomes older than execution_timeout_seconds.
TimeoutPasses(r) ==
    /\ startedAt[r] = "fresh"
    /\ Active(r)
    /\ startedAt' = [startedAt EXCEPT ![r] = "expired"]
    /\ UNCHANGED <<status, dedupeKey, cancelRequested, events, apiVars,
                   reentries, workerVars, apiUp, faults>>

Fault == faults < MaxFaults /\ faults' = faults + 1

\* Every task of the API process is lost with it.
LoseTask(t) == IF t.pc = "none" THEN t ELSE [t EXCEPT !.pc = "done"]
ApiCrash ==
    /\ apiUp
    /\ Fault
    /\ apiUp' = FALSE
    /\ task' = [r \in Runs |-> LoseTask(task[r])]
    /\ canceller' = [r \in Runs |-> "none"]
    /\ reentryTask' = [r \in Runs |-> FALSE]
    /\ UNCHANGED <<rowVars, events, reentries, workerVars>>

\* lifespan: abandon_expired_executions writes no event and replays nothing;
\* the API serves even when the sweep raises.
ApiStart ==
    /\ ~ apiUp
    /\ apiUp' = TRUE
    /\ \/ /\ status' = [r \in Runs |-> IF Stale(r) THEN "abandoned" ELSE status[r]]
          /\ UNCHANGED faults
       \/ Fault /\ UNCHANGED status
    /\ UNCHANGED <<dedupeKey, cancelRequested, startedAt, events, apiVars,
                   reentries, workerVars>>

\* A database call of the task or of the finalizer raises: nobody awaits either
\* of them, so both end there.
DetachedDbFault(r) ==
    /\ Fault
    /\ \/ /\ task[r].pc \in {"queued", "finishing"}
          /\ task' = [task EXCEPT ![r].pc = "done"]
          /\ UNCHANGED canceller
       \/ /\ canceller[r] = "finalizing"
          /\ canceller' = [canceller EXCEPT ![r] = "none"]
          /\ UNCHANGED task
    /\ UNCHANGED <<rowVars, events, reentryTask, reentries, workerVars, apiUp>>

\* A worker crashes, and recover_stale_jobs puts its job back whatever the number
\* of its attempts, or a call in the handler raises.
WorkerFault(w) ==
    /\ worker[w].pc # "idle"
    /\ Fault
    /\ worker' = [worker EXCEPT ![w] = IdleWorker]
    /\ \/ /\ attempts' = [attempts EXCEPT ![worker[w].key] = @ + 1]
          /\ UNCHANGED wakeUp
       \/ FailJob(worker[w].key)
    /\ UNCHANGED <<rowVars, events, apiVars, reentries, apiUp>>

-----------------------------------------------------------------------------
DetachedStep(r) ==
    \/ RegisterTask(r)
    \/ ClaimDetached(r)
    \/ \E o \in GoalOutcomes : DetachedGoalEnds(r, o)
    \/ FinishDetached(r)
    \/ ScheduleReentry(r)

CancelStep(r) ==
    \/ CancelTask(r)
    \/ FinishCancelled(r)
    \/ ScheduleCancelReentry(r)

WorkerStep(w) ==
    \/ SkipScheduled(w)
    \/ CreateScheduled(w)
    \/ ReclaimScheduled(w)
    \/ ClaimScheduled(w)
    \/ \E o \in GoalOutcomes : ScheduledGoalEnds(w, o)
    \/ FinishScheduled(w)
    \/ ReenterScheduled(w)
    \/ CheckScheduled(w)

Next ==
    \/ \E k \in DetachedKeys, r \in Runs : DispatchExecution(k, r)
    \/ \E r \in Runs : DetachedStep(r)
    \/ \E r \in Runs : RequestCancellation(r)
    \/ \E r \in Runs : CancelStep(r)
    \/ \E r \in Runs : ReenterInteraction(r)
    \/ \E w \in Workers, k \in ScheduledKeys : WakeUpScheduled(w, k)
    \/ \E w \in Workers : WorkerStep(w)
    \/ \E r \in Runs : TimeoutPasses(r)
    \/ ApiCrash
    \/ ApiStart
    \/ \E r \in Runs : DetachedDbFault(r)
    \/ \E w \in Workers : WorkerFault(w)

Spec == Init /\ [][Next]_vars

\* The event loop of the API resumes every task, the platform restarts the API, and
\* the worker polls the jobs that are due.  wait_for ends every goal.  Nothing
\* obliges a user to dispatch or to cancel, a model to answer a re-entry or the
\* clock to reach a timeout, and no fault has to happen.
Fairness ==
    /\ \A r \in Runs : WF_vars(DetachedStep(r)) /\ WF_vars(CancelStep(r))
    /\ \A w \in Workers :
         /\ WF_vars(WorkerStep(w))
         /\ \A k \in ScheduledKeys : WF_vars(WakeUpScheduled(w, k))
    /\ WF_vars(ApiStart)

FairSpec == Spec /\ Fairness

-----------------------------------------------------------------------------
(***************************************************************************)
(* Properties.                                                             *)
(***************************************************************************)

\* Every variable holds what its column or task can hold.
RowTypeOK ==
    /\ status \in [Runs -> ActiveStatuses \cup TerminalStatuses \cup {"none"}]
    /\ dedupeKey \in [Runs -> Keys \cup {NoKey}]
    /\ cancelRequested \in [Runs -> BOOLEAN]
    /\ startedAt \in [Runs -> {"null", "fresh", "expired"}]
    /\ events \in [Runs -> Seq(Outcomes)]
TaskTypeOK ==
    /\ task \in [Runs -> [pc : TaskStates, outcome : Outcomes]]
    /\ canceller \in [Runs -> {"none", "requested", "finalizing", "finished"}]
    /\ reentryTask \in [Runs -> BOOLEAN]
    /\ reentries \in [Runs -> Nat]
WorkerTypeOK ==
    /\ worker \in [Workers -> [pc : WorkerStates, run : Runs \cup {NoRun},
                               key : Keys \cup {NoKey}, outcome : Outcomes]]
    /\ \A w \in Workers :
         /\ worker[w].pc \notin {"idle", "skipping", "creating"} => worker[w].run \in Runs
         /\ worker[w].pc # "idle" => worker[w].key \in ScheduledKeys
JobTypeOK ==
    /\ wakeUp \in [ScheduledKeys -> WakeUpStates]
    /\ attempts \in [ScheduledKeys -> Nat]
TypeOK ==
    /\ RowTypeOK
    /\ TaskTypeOK
    /\ WorkerTypeOK
    /\ JobTypeOK
    /\ apiUp \in BOOLEAN
    /\ faults \in Nat

\* A contact never has more than max_active_runs runs pending, running or being
\* cancelled, whoever creates, reclaims and finishes them at the same time
\* (create_or_get_execution_run).
ActiveWithinLimit == Cardinality(ActiveRuns) <= MaxActive

\* Two active runs of a contact never share a dedupe key: the same goal, or the
\* same occurrence of an automation, is never worked on under two rows.
OneActiveRunPerKey ==
    \A q, r \in Runs :
        Active(q) /\ Active(r) /\ dedupeKey[q] = dedupeKey[r] => q = r

\* The task, the finalizer of a cancellation and any number of workers race to
\* end a run, and exactly one of them does: a run that ended has one event and
\* it tells the status the row kept; an abandoned or unfinished run has none
\* (finish_execution_run with append_execution_event).
EventTellsTheEnd ==
    \A r \in Runs :
        events[r] = IF status[r] \in Outcomes THEN <<status[r]>> ELSE <<>>

\* No goal of a detached run is worked on once the user can have been told that
\* the run is over: while its task works, the row is running or is only being
\* cancelled, whatever the finalizer and the startup sweep do.
DetachedWorkIsLive ==
    \A r \in Runs :
        task[r].pc = "working" => status[r] \in {"running", "cancel_requested"}

\* With one worker, no retry after a crash, a cancellation or a failed call
\* creates a second run for the occurrence of an automation.
OneRowPerOccurrence ==
    \A k \in ScheduledKeys : Cardinality(RowsOf(k)) <= 1

\* What a wake-up is closed with is true: unless it was skipped, dropped or given
\* up, a run of its own occurrence has ended the way last_run_status says, and
\* after a crash, a cancellation and a retry it is still that run.
RanTo(k) ==
    /\ wakeUp[k] \in Outcomes
    /\ \E r \in RowsOf(k) : Terminal(r) /\ LastRunFromExecution(status[r]) = wakeUp[k]
ClosedHasEnded == \A k \in ScheduledKeys : wakeUp[k] \in Outcomes => RanTo(k)

\* An ended run is never reopened, renamed or ended differently: not by a late
\* task, a reclaim, a cancellation or the sweep.
KeepsEnds ==
    \A r \in Runs : Terminal(r) => UNCHANGED <<status[r], dedupeKey[r], events[r]>>
TerminalIsFinal == [][KeepsEnds]_vars

\* The rows, seen from outside, keep the promise of RunLedger: the task, the
\* finalizer, the workers and the sweep together end and tell each run once.
EndOf(r) ==
    IF status[r] = "none" THEN "absent" ELSE IF Active(r) THEN "open" ELSE status[r]
Ledger == INSTANCE RunLedger WITH
    end <- [r \in Runs |-> EndOf(r)],
    told <- reentries
KeepsTheLedger == Ledger!Spec

\* Without a crash or a failing call every dispatched run ends.
DetachedRunsEnd ==
    \A r \in Runs :
        Active(r) /\ dedupeKey[r] \in DetachedKeys ~> Terminal(r) \/ faults > 0


=============================================================================
