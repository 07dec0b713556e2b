------------------------ MODULE ExecutionRun_proofs ------------------------
(***************************************************************************)
(* Theorems about ExecutionRun, for every number of rows, workers, keys,   *)
(* slots and faults.                                                       *)
(***************************************************************************)
EXTENDS ExecutionRun, FiniteSetTheorems, TLAPS

-----------------------------------------------------------------------------
(***************************************************************************)
(* Types.                                                                  *)
(***************************************************************************)
LEMMA FinishTypes ==
    ASSUME RowTypeOK, NEW r \in Runs, NEW s \in Outcomes, FinishExecutionRun(r, s)
    PROVE  RowTypeOK'
<1>1. CASE Finishable(r)
  <2>1. status' = [status EXCEPT ![r] = s] /\ events' = [events EXCEPT ![r] = Append(@, s)]
    BY <1>1 DEF FinishExecutionRun
  <2>2. Append(events[r], s) \in Seq(Outcomes)
    BY DEF RowTypeOK
  <2>3. events' \in [Runs -> Seq(Outcomes)]
    BY <2>1, <2>2 DEF RowTypeOK
  <2>4. status' \in [Runs -> ActiveStatuses \cup TerminalStatuses \cup {"none"}]
    BY <2>1 DEF RowTypeOK, TerminalStatuses, Outcomes
  <2> QED
    BY <2>3, <2>4 DEF RowTypeOK, FinishExecutionRun
<1>2. CASE ~ Finishable(r)
  BY <1>2 DEF FinishExecutionRun, RowTypeOK
<1> QED
  BY <1>1, <1>2

LEMMA TypeInit == Init => TypeOK
  BY RunsAssumption DEF Init, TypeOK, RowTypeOK, TaskTypeOK, WorkerTypeOK, NoTask,
     IdleWorker, TaskStates, WorkerStates, Outcomes, Runs, JobTypeOK, WakeUpStates

\* What a step does to the jobs of the occurrences.  A row that closes one is the
\* newest row of the occurrence or the row its worker has.
ClosesWith(k, r) ==
    /\ Terminal(r)
    /\ CloseWakeUp(k, LastRunFromExecution(status[r]))
    /\ r \in RowsOf(k) \/ \E w \in Workers : worker[w].run = r /\ worker[w].key = k
JobAction ==
    \/ UNCHANGED jobVars
    \/ \E k \in ScheduledKeys : FailJob(k)
    \/ UNCHANGED wakeUp /\ \E k \in ScheduledKeys : attempts' = [attempts EXCEPT ![k] = @ + 1]
    \/ \E k \in ScheduledKeys, end \in {"skipped", "dropped"} : CloseWakeUp(k, end)
    \/ \E k \in ScheduledKeys, r \in Runs : ClosesWith(k, r)

LEMMA JobActions == WorkerTypeOK /\ [Next]_vars => JobAction
<1> SUFFICES ASSUME WorkerTypeOK, [Next]_vars PROVE JobAction
  OBVIOUS
<1> USE DEF JobAction
<1>k. ASSUME NEW w \in Workers, worker[w].pc # "idle"
      PROVE  worker[w].key \in ScheduledKeys
  BY <1>k DEF WorkerTypeOK
<1>1. ASSUME NEW w \in Workers, NEW k \in ScheduledKeys, WakeUpScheduled(w, k)
      PROVE  JobAction
  BY <1>1 DEF WakeUpScheduled, Latest, ClosesWith
<1>2. ASSUME NEW w \in Workers, SkipScheduled(w)
      PROVE  JobAction
  BY <1>2, <1>k DEF SkipScheduled
<1>3. ASSUME NEW w \in Workers, CreateScheduled(w)
      PROVE  JobAction
  BY <1>3, <1>k DEF CreateScheduled
<1>4. ASSUME NEW w \in Workers, ReclaimScheduled(w)
      PROVE  JobAction
  BY <1>4, <1>k DEF ReclaimScheduled
<1>5. ASSUME NEW w \in Workers, CheckScheduled(w)
      PROVE  JobAction
  <2>1. worker[w].run \in Runs
    BY <1>5 DEF CheckScheduled, WorkerTypeOK
  <2> QED
    BY <1>5, <1>k, <2>1 DEF CheckScheduled, ClosesWith
<1>6. ASSUME NEW w \in Workers, WorkerFault(w)
      PROVE  JobAction
  BY <1>6, <1>k DEF WorkerFault
<1>7. CASE
      \/ \E k \in DetachedKeys, r \in Runs : DispatchExecution(k, r)
      \/ \E r \in Runs : DetachedStep(r) \/ RequestCancellation(r) \/ CancelStep(r)
      \/ \E r \in Runs : ReenterInteraction(r) \/ TimeoutPasses(r) \/ DetachedDbFault(r)
      \/ \E w \in Workers :
           \/ ClaimScheduled(w) \/ (\E o \in GoalOutcomes : ScheduledGoalEnds(w, o))
           \/ FinishScheduled(w) \/ ReenterScheduled(w)
      \/ ApiCrash \/ ApiStart \/ UNCHANGED vars
  BY <1>7 DEF DispatchExecution, DetachedStep, RegisterTask, ClaimDetached, DetachedGoalEnds,
     FinishDetached, ScheduleReentry, RequestCancellation, CancelStep, CancelTask,
     FinishCancelled, ScheduleCancelReentry, ReenterInteraction, TimeoutPasses,
     DetachedDbFault, ClaimScheduled, ScheduledGoalEnds, FinishScheduled, ReenterScheduled,
     ApiCrash, ApiStart, vars, workerVars
<1> QED
  BY <1>1, <1>2, <1>3, <1>4, <1>5, <1>6, <1>7 DEF Next, WorkerStep

LEMMA JobTypes == TypeOK /\ [Next]_vars => JobTypeOK'
<1> SUFFICES ASSUME TypeOK, [Next]_vars PROVE JobTypeOK'
  OBVIOUS
<1> USE DEF TypeOK, JobTypeOK
<1>1. JobAction
  BY JobActions
<1>2. ASSUME NEW k \in ScheduledKeys, NEW end \in WakeUpStates, CloseWakeUp(k, end)
      PROVE  JobTypeOK'
  BY <1>2 DEF CloseWakeUp
<1>3. ASSUME NEW k \in ScheduledKeys, NEW r \in Runs, ClosesWith(k, r)
      PROVE  JobTypeOK'
  <2>1. LastRunFromExecution(status[r]) \in WakeUpStates
    BY <1>3 DEF ClosesWith, Terminal, TerminalStatuses, LastRunFromExecution, WakeUpStates,
       Outcomes
  <2> QED
    BY <1>2, <1>3, <2>1 DEF ClosesWith
<1>4. ASSUME NEW k \in ScheduledKeys, FailJob(k)
      PROVE  JobTypeOK'
  BY <1>4 DEF FailJob, jobVars, WakeUpStates
<1>5. {"skipped", "dropped"} \subseteq WakeUpStates
  BY DEF WakeUpStates
<1> QED
  BY <1>1, <1>2, <1>3, <1>4, <1>5 DEF JobAction, jobVars

\* Every step keeps the types: one step of the proof per action, one leaf for
\* the columns, the API's tasks, the workers and the counters.
LEMMA TypeStep == TypeOK /\ [Next]_vars => TypeOK'
<1> SUFFICES ASSUME TypeOK, [Next]_vars PROVE TypeOK'
  OBVIOUS
<1>j. JobTypeOK'
  BY JobTypes
<1> USE DEF TypeOK
<1>1. ASSUME NEW k \in DetachedKeys, NEW r \in Runs, DispatchExecution(k, r)
      PROVE  TypeOK'
  <2>1. RowTypeOK'
    BY <1>1 DEF RowTypeOK, DispatchExecution, rowVars,
       CreateExecutionRun, Keys, ActiveStatuses
  <2>2. TaskTypeOK'
    BY <1>1 DEF TaskTypeOK, DispatchExecution, apiVars, TaskStates, Outcomes
  <2>3. WorkerTypeOK'
    BY <1>1 DEF WorkerTypeOK, DispatchExecution, workerVars
  <2>4. apiUp' \in BOOLEAN /\ faults' \in Nat
    BY <1>1 DEF DispatchExecution
  <2> QED
    BY <1>j, <2>1, <2>2, <2>3, <2>4
<1>2. ASSUME NEW r \in Runs, RegisterTask(r)
      PROVE  TypeOK'
  <2>1. RowTypeOK'
    BY <1>2 DEF RowTypeOK, RegisterTask, rowVars
  <2>2. TaskTypeOK'
    BY <1>2 DEF TaskTypeOK, RegisterTask, apiVars, TaskStates
  <2>3. WorkerTypeOK'
    BY <1>2 DEF WorkerTypeOK, RegisterTask, workerVars
  <2>4. apiUp' \in BOOLEAN /\ faults' \in Nat
    BY <1>2 DEF RegisterTask
  <2> QED
    BY <1>j, <2>1, <2>2, <2>3, <2>4
<1>3. ASSUME NEW r \in Runs, ClaimDetached(r)
      PROVE  TypeOK'
  <2>1. RowTypeOK'
    BY <1>3 DEF RowTypeOK, ClaimDetached, rowVars,
       ClaimExecutionRun, ActiveStatuses
  <2>2. TaskTypeOK'
    <3>1. /\ UNCHANGED <<canceller, reentryTask, reentries>>
          /\ \/ task' = [task EXCEPT ![r].pc = "working"]
             \/ task' = [task EXCEPT ![r].pc = "done"]
      BY <1>3 DEF ClaimDetached, apiVars
    <3>2. ASSUME NEW pc \in TaskStates, task' = [task EXCEPT ![r].pc = pc]
          PROVE  task' \in [Runs -> [pc : TaskStates, outcome : Outcomes]]
      BY <3>2 DEF TaskTypeOK
    <3>3. task' \in [Runs -> [pc : TaskStates, outcome : Outcomes]]
      BY <3>1, <3>2 DEF TaskStates
    <3> QED
      BY <3>1, <3>3 DEF TaskTypeOK
  <2>3. WorkerTypeOK'
    BY <1>3 DEF WorkerTypeOK, ClaimDetached, workerVars
  <2>4. apiUp' \in BOOLEAN /\ faults' \in Nat
    BY <1>3 DEF ClaimDetached
  <2> QED
    BY <1>j, <2>1, <2>2, <2>3, <2>4
<1>4. ASSUME NEW r \in Runs, NEW o \in GoalOutcomes, DetachedGoalEnds(r, o)
      PROVE  TypeOK'
  <2>1. RowTypeOK'
    BY <1>4 DEF RowTypeOK, DetachedGoalEnds, rowVars
  <2>2. TaskTypeOK'
    BY <1>4 DEF TaskTypeOK, DetachedGoalEnds, apiVars, TaskStates, Outcomes, GoalOutcomes
  <2>3. WorkerTypeOK'
    BY <1>4 DEF WorkerTypeOK, DetachedGoalEnds, workerVars
  <2>4. apiUp' \in BOOLEAN /\ faults' \in Nat
    BY <1>4 DEF DetachedGoalEnds
  <2> QED
    BY <1>j, <2>1, <2>2, <2>3, <2>4
<1>5. ASSUME NEW r \in Runs, FinishDetached(r)
      PROVE  TypeOK'
  <2>0. task[r].outcome \in Outcomes
    BY <1>5 DEF TaskTypeOK
  <2>1. RowTypeOK'
    BY <1>5, <2>0, FinishTypes DEF FinishDetached
  <2>2. TaskTypeOK'
    BY <1>5 DEF TaskTypeOK, FinishDetached, apiVars, TaskStates
  <2>3. WorkerTypeOK'
    BY <1>5 DEF WorkerTypeOK, FinishDetached, workerVars
  <2>4. apiUp' \in BOOLEAN /\ faults' \in Nat
    BY <1>5 DEF FinishDetached
  <2> QED
    BY <1>j, <2>1, <2>2, <2>3, <2>4
<1>6. ASSUME NEW r \in Runs, ScheduleReentry(r)
      PROVE  TypeOK'
  <2>1. RowTypeOK'
    BY <1>6 DEF RowTypeOK, ScheduleReentry, rowVars
  <2>2. TaskTypeOK'
    BY <1>6 DEF TaskTypeOK, ScheduleReentry, apiVars, TaskStates, StartReentry
  <2>3. WorkerTypeOK'
    BY <1>6 DEF WorkerTypeOK, ScheduleReentry, workerVars
  <2>4. apiUp' \in BOOLEAN /\ faults' \in Nat
    BY <1>6 DEF ScheduleReentry
  <2> QED
    BY <1>j, <2>1, <2>2, <2>3, <2>4
<1>7. ASSUME NEW r \in Runs, RequestCancellation(r)
      PROVE  TypeOK'
  <2>1. RowTypeOK'
    BY <1>7 DEF RowTypeOK, RequestCancellation, rowVars,
       RequestExecutionCancellation, ActiveStatuses
  <2>2. TaskTypeOK'
    BY <1>7 DEF TaskTypeOK, RequestCancellation, apiVars
  <2>3. WorkerTypeOK'
    BY <1>7 DEF WorkerTypeOK, RequestCancellation, workerVars
  <2>4. apiUp' \in BOOLEAN /\ faults' \in Nat
    BY <1>7 DEF RequestCancellation
  <2> QED
    BY <1>j, <2>1, <2>2, <2>3, <2>4
<1>8. ASSUME NEW r \in Runs, CancelTask(r)
      PROVE  TypeOK'
  <2>1. RowTypeOK'
    BY <1>8 DEF RowTypeOK, CancelTask, rowVars
  <2>2. TaskTypeOK'
    BY <1>8 DEF TaskTypeOK, CancelTask, apiVars, TaskStates, AfterCancel, Outcomes
  <2>3. WorkerTypeOK'
    BY <1>8 DEF WorkerTypeOK, CancelTask, workerVars
  <2>4. apiUp' \in BOOLEAN /\ faults' \in Nat
    BY <1>8 DEF CancelTask
  <2> QED
    BY <1>j, <2>1, <2>2, <2>3, <2>4
<1>9. ASSUME NEW r \in Runs, FinishCancelled(r)
      PROVE  TypeOK'
  <2>0. "cancelled" \in Outcomes
    BY <1>9 DEF Outcomes
  <2>1. RowTypeOK'
    BY <1>9, <2>0, FinishTypes DEF FinishCancelled
  <2>2. TaskTypeOK'
    BY <1>9 DEF TaskTypeOK, FinishCancelled, apiVars
  <2>3. WorkerTypeOK'
    BY <1>9 DEF WorkerTypeOK, FinishCancelled, workerVars
  <2>4. apiUp' \in BOOLEAN /\ faults' \in Nat
    BY <1>9 DEF FinishCancelled
  <2> QED
    BY <1>j, <2>1, <2>2, <2>3, <2>4
<1>10. ASSUME NEW r \in Runs, ScheduleCancelReentry(r)
       PROVE  TypeOK'
  <2>1. RowTypeOK'
    BY <1>10 DEF RowTypeOK, ScheduleCancelReentry, rowVars
  <2>2. TaskTypeOK'
    BY <1>10 DEF TaskTypeOK, ScheduleCancelReentry, apiVars, StartReentry
  <2>3. WorkerTypeOK'
    BY <1>10 DEF WorkerTypeOK, ScheduleCancelReentry, workerVars
  <2>4. apiUp' \in BOOLEAN /\ faults' \in Nat
    BY <1>10 DEF ScheduleCancelReentry
  <2> QED
    BY <1>j, <2>1, <2>2, <2>3, <2>4
<1>11. ASSUME NEW r \in Runs, ReenterInteraction(r)
       PROVE  TypeOK'
  <2>1. RowTypeOK'
    BY <1>11 DEF RowTypeOK, ReenterInteraction, rowVars
  <2>2. TaskTypeOK'
    BY <1>11 DEF TaskTypeOK, ReenterInteraction, apiVars
  <2>3. WorkerTypeOK'
    BY <1>11 DEF WorkerTypeOK, ReenterInteraction, workerVars
  <2>4. apiUp' \in BOOLEAN /\ faults' \in Nat
    BY <1>11 DEF ReenterInteraction
  <2> QED
    BY <1>j, <2>1, <2>2, <2>3, <2>4
<1>12. ASSUME NEW w \in Workers, NEW k \in ScheduledKeys, WakeUpScheduled(w, k)
       PROVE  TypeOK'
  <2>1. RowTypeOK'
    BY <1>12 DEF RowTypeOK, WakeUpScheduled, rowVars
  <2>2. TaskTypeOK'
    BY <1>12 DEF TaskTypeOK, WakeUpScheduled, apiVars
  <2>3. WorkerTypeOK'
    BY <1>12 DEF WorkerTypeOK, WakeUpScheduled, WorkerStates, Outcomes, Keys
  <2>4. apiUp' \in BOOLEAN /\ faults' \in Nat
    BY <1>12 DEF WakeUpScheduled
  <2> QED
    BY <1>j, <2>1, <2>2, <2>3, <2>4
<1>26. ASSUME NEW w \in Workers, SkipScheduled(w)
       PROVE  TypeOK'
  <2>1. RowTypeOK'
    BY <1>26 DEF RowTypeOK, SkipScheduled, rowVars
  <2>2. TaskTypeOK'
    BY <1>26 DEF TaskTypeOK, SkipScheduled, apiVars
  <2>3. WorkerTypeOK'
    BY <1>26 DEF WorkerTypeOK, SkipScheduled, WorkerStates, IdleWorker, Outcomes
  <2>4. apiUp' \in BOOLEAN /\ faults' \in Nat
    BY <1>26 DEF SkipScheduled
  <2> QED
    BY <1>j, <2>1, <2>2, <2>3, <2>4
<1>13. ASSUME NEW w \in Workers, CreateScheduled(w)
       PROVE  TypeOK'
  <2>1. RowTypeOK'
    <3>0. worker[w].key \in Keys
      BY <1>13 DEF CreateScheduled, WorkerTypeOK, Keys
    <3>1. CASE UNCHANGED rowVars
      BY <1>13, <3>1 DEF CreateScheduled, RowTypeOK, rowVars
    <3>2. ASSUME NEW r \in Runs, CreateExecutionRun(r, worker[w].key)
          PROVE  RowTypeOK'
      BY <1>13, <3>0, <3>2 DEF CreateScheduled, RowTypeOK, CreateExecutionRun, ActiveStatuses
    <3> QED
      BY <1>13, <3>1, <3>2 DEF CreateScheduled
  <2>2. TaskTypeOK'
    BY <1>13 DEF TaskTypeOK, CreateScheduled, apiVars
  <2>3. WorkerTypeOK'
    BY <1>13 DEF WorkerTypeOK, CreateScheduled, workerVars,
       WorkerStates, IdleWorker, Outcomes, RowsOf
  <2>4. apiUp' \in BOOLEAN /\ faults' \in Nat
    BY <1>13 DEF CreateScheduled
  <2> QED
    BY <1>j, <2>1, <2>2, <2>3, <2>4
<1>14. ASSUME NEW w \in Workers, ReclaimScheduled(w)
       PROVE  TypeOK'
  <2>1. RowTypeOK'
    <3>0. worker[w].run \in Runs
      BY <1>14 DEF ReclaimScheduled, WorkerTypeOK
    <3>1. CASE UNCHANGED rowVars
      BY <1>14, <3>1 DEF ReclaimScheduled, RowTypeOK, rowVars
    <3>2. CASE ReclaimExecutionRunForRetry(worker[w].run)
      BY <1>14, <3>0, <3>2 DEF ReclaimScheduled, RowTypeOK, ReclaimExecutionRunForRetry, ActiveStatuses
    <3> QED
      BY <1>14, <3>1, <3>2 DEF ReclaimScheduled
  <2>2. TaskTypeOK'
    BY <1>14 DEF TaskTypeOK, ReclaimScheduled, apiVars
  <2>3. WorkerTypeOK'
    BY <1>14 DEF WorkerTypeOK, ReclaimScheduled, workerVars,
       WorkerStates, IdleWorker, Outcomes
  <2>4. apiUp' \in BOOLEAN /\ faults' \in Nat
    BY <1>14 DEF ReclaimScheduled
  <2> QED
    BY <1>j, <2>1, <2>2, <2>3, <2>4
<1>15. ASSUME NEW w \in Workers, ClaimScheduled(w)
       PROVE  TypeOK'
  <2>1. RowTypeOK'
    <3>0. worker[w].run \in Runs
      BY <1>15 DEF ClaimScheduled, WorkerTypeOK
    <3>1. CASE UNCHANGED rowVars
      BY <1>15, <3>1 DEF ClaimScheduled, RowTypeOK, rowVars
    <3>2. CASE ClaimExecutionRun(worker[w].run)
      BY <1>15, <3>0, <3>2 DEF ClaimScheduled, RowTypeOK, ClaimExecutionRun, ActiveStatuses
    <3> QED
      BY <1>15, <3>1, <3>2 DEF ClaimScheduled
  <2>2. TaskTypeOK'
    BY <1>15 DEF TaskTypeOK, ClaimScheduled, apiVars
  <2>3. WorkerTypeOK'
    BY <1>15 DEF WorkerTypeOK, ClaimScheduled, workerVars,
       WorkerStates, IdleWorker, Outcomes
  <2>4. apiUp' \in BOOLEAN /\ faults' \in Nat
    BY <1>15 DEF ClaimScheduled
  <2> QED
    BY <1>j, <2>1, <2>2, <2>3, <2>4
<1>16. ASSUME NEW w \in Workers, NEW o \in GoalOutcomes, ScheduledGoalEnds(w, o)
       PROVE  TypeOK'
  <2>1. RowTypeOK'
    BY <1>16 DEF RowTypeOK, ScheduledGoalEnds, rowVars
  <2>2. TaskTypeOK'
    BY <1>16 DEF TaskTypeOK, ScheduledGoalEnds, apiVars
  <2>3. WorkerTypeOK'
    <3>1. /\ worker[w].pc = "working"
          /\ worker' = [worker EXCEPT ![w].pc = "finishing", ![w].outcome = o]
      BY <1>16 DEF ScheduledGoalEnds
    <3>2. o \in Outcomes
      BY DEF Outcomes, GoalOutcomes
    <3>3. "finishing" \in WorkerStates
      BY DEF WorkerStates
    <3>4. worker' \in [Workers -> [pc : WorkerStates, run : Runs \cup {NoRun},
                                   key : Keys \cup {NoKey}, outcome : Outcomes]]
      <4> DEFINE q == [worker[w] EXCEPT !.pc = "finishing", !.outcome = o]
                 Rows == [pc : WorkerStates, run : Runs \cup {NoRun},
                          key : Keys \cup {NoKey}, outcome : Outcomes]
      <4>1. worker[w] \in Rows /\ worker \in [Workers -> Rows]
        BY DEF WorkerTypeOK
      <4>2. q \in Rows
        BY <3>2, <3>3, <4>1
      <4>3. worker' = [worker EXCEPT ![w] = q]
        BY <3>1, <4>1
      <4> QED
        BY <4>1, <4>2, <4>3
    <3> QED
      BY <3>1, <3>4 DEF WorkerTypeOK
  <2>4. apiUp' \in BOOLEAN /\ faults' \in Nat
    BY <1>16 DEF ScheduledGoalEnds
  <2> QED
    BY <1>j, <2>1, <2>2, <2>3, <2>4
<1>17. ASSUME NEW w \in Workers, FinishScheduled(w)
       PROVE  TypeOK'
  <2>0. worker[w].outcome \in Outcomes /\ worker[w].run \in Runs
    BY <1>17 DEF WorkerTypeOK, FinishScheduled
  <2>1. RowTypeOK'
    BY <1>17, <2>0, FinishTypes DEF FinishScheduled
  <2>2. TaskTypeOK'
    <3>1. [reentries EXCEPT ![worker[w].run] = @ + 1] \in [Runs -> Nat]
      BY <2>0 DEF TaskTypeOK
    <3> QED
      BY <1>17, <3>1 DEF TaskTypeOK, FinishScheduled, apiVars
  <2>3. WorkerTypeOK'
    BY <1>17 DEF WorkerTypeOK, FinishScheduled, workerVars,
       WorkerStates, IdleWorker, Outcomes
  <2>4. apiUp' \in BOOLEAN /\ faults' \in Nat
    BY <1>17 DEF FinishScheduled
  <2> QED
    BY <1>j, <2>1, <2>2, <2>3, <2>4
<1>18. ASSUME NEW w \in Workers, ReenterScheduled(w)
       PROVE  TypeOK'
  <2>1. RowTypeOK'
    BY <1>18 DEF RowTypeOK, ReenterScheduled, rowVars, WorkerTypeOK
  <2>2. TaskTypeOK'
    BY <1>18 DEF TaskTypeOK, ReenterScheduled, apiVars
  <2>3. WorkerTypeOK'
    BY <1>18 DEF WorkerTypeOK, ReenterScheduled, workerVars,
       WorkerStates, IdleWorker, Outcomes
  <2>4. apiUp' \in BOOLEAN /\ faults' \in Nat
    BY <1>18 DEF ReenterScheduled
  <2> QED
    BY <1>j, <2>1, <2>2, <2>3, <2>4
<1>19. ASSUME NEW w \in Workers, CheckScheduled(w)
       PROVE  TypeOK'
  <2>1. RowTypeOK'
    BY <1>19 DEF RowTypeOK, CheckScheduled, rowVars
  <2>2. TaskTypeOK'
    BY <1>19 DEF TaskTypeOK, CheckScheduled, apiVars
  <2>3. WorkerTypeOK'
    BY <1>19 DEF WorkerTypeOK, CheckScheduled, workerVars,
       WorkerStates, IdleWorker, Outcomes
  <2>4. apiUp' \in BOOLEAN /\ faults' \in Nat
    BY <1>19 DEF CheckScheduled
  <2> QED
    BY <1>j, <2>1, <2>2, <2>3, <2>4
<1>20. ASSUME NEW r \in Runs, TimeoutPasses(r)
       PROVE  TypeOK'
  <2>1. RowTypeOK'
    BY <1>20 DEF RowTypeOK, TimeoutPasses, rowVars
  <2>2. TaskTypeOK'
    BY <1>20 DEF TaskTypeOK, TimeoutPasses, apiVars
  <2>3. WorkerTypeOK'
    BY <1>20 DEF WorkerTypeOK, TimeoutPasses, workerVars
  <2>4. apiUp' \in BOOLEAN /\ faults' \in Nat
    BY <1>20 DEF TimeoutPasses
  <2> QED
    BY <1>j, <2>1, <2>2, <2>3, <2>4
<1>21. ASSUME ApiCrash
       PROVE  TypeOK'
  <2>1. RowTypeOK'
    BY <1>21 DEF RowTypeOK, ApiCrash, rowVars
  <2>2. TaskTypeOK'
    BY <1>21 DEF TaskTypeOK, ApiCrash, apiVars, TaskStates, LoseTask
  <2>3. WorkerTypeOK'
    BY <1>21 DEF WorkerTypeOK, ApiCrash, workerVars
  <2>4. faults' \in Nat
    BY <1>21 DEF ApiCrash, Fault
  <2>5. apiUp' \in BOOLEAN
    BY <1>21 DEF ApiCrash
  <2> QED
    BY <1>j, <2>1, <2>2, <2>3, <2>4, <2>5
<1>22. ASSUME ApiStart
       PROVE  TypeOK'
  <2>1. RowTypeOK'
    BY <1>22 DEF RowTypeOK, ApiStart, rowVars,
       TerminalStatuses
  <2>2. TaskTypeOK'
    BY <1>22 DEF TaskTypeOK, ApiStart, apiVars
  <2>3. WorkerTypeOK'
    BY <1>22 DEF WorkerTypeOK, ApiStart, workerVars
  <2>4. apiUp' \in BOOLEAN /\ faults' \in Nat
    BY <1>22 DEF ApiStart, Fault
  <2> QED
    BY <1>j, <2>1, <2>2, <2>3, <2>4
<1>23. ASSUME NEW r \in Runs, DetachedDbFault(r)
       PROVE  TypeOK'
  <2>1. RowTypeOK'
    BY <1>23 DEF RowTypeOK, DetachedDbFault, rowVars
  <2>2. TaskTypeOK'
    BY <1>23 DEF TaskTypeOK, DetachedDbFault, apiVars, TaskStates
  <2>3. WorkerTypeOK'
    BY <1>23 DEF WorkerTypeOK, DetachedDbFault, workerVars
  <2>4. apiUp' \in BOOLEAN /\ faults' \in Nat
    BY <1>23 DEF DetachedDbFault, Fault
  <2> QED
    BY <1>j, <2>1, <2>2, <2>3, <2>4
<1>24. ASSUME NEW w \in Workers, WorkerFault(w)
       PROVE  TypeOK'
  <2>1. RowTypeOK'
    BY <1>24 DEF RowTypeOK, WorkerFault, rowVars
  <2>2. TaskTypeOK'
    BY <1>24 DEF TaskTypeOK, WorkerFault, apiVars
  <2>3. WorkerTypeOK'
    BY <1>24 DEF WorkerTypeOK, WorkerFault, workerVars,
       WorkerStates, IdleWorker, Outcomes
  <2>4. apiUp' \in BOOLEAN /\ faults' \in Nat
    BY <1>24 DEF WorkerFault, Fault
  <2> QED
    BY <1>j, <2>1, <2>2, <2>3, <2>4
<1>25. CASE UNCHANGED vars
  BY <1>25, <1>j DEF vars, rowVars, apiVars, workerVars, RowTypeOK, TaskTypeOK,
     WorkerTypeOK
<1> QED
  BY <1>1, <1>2, <1>3, <1>4, <1>5, <1>6, <1>7, <1>8, <1>9, <1>10, <1>11, <1>12, <1>13,
     <1>14, <1>15, <1>16, <1>17, <1>18, <1>19, <1>20, <1>21, <1>22, <1>23, <1>24, <1>25, <1>26
     DEF Next, DetachedStep, CancelStep, WorkerStep

\* The columns, tasks and counters keep their types in every behaviour.
THEOREM TypeCorrect == Spec => []TypeOK
  BY TypeInit, TypeStep, PTL DEF Spec

-----------------------------------------------------------------------------
(***************************************************************************)
(* Rows.  Whatever the actor, a step does one of seven things to the rows. *)
(***************************************************************************)
Sweep == status' = [r \in Runs |-> IF Stale(r) THEN "abandoned" ELSE status[r]]

RowAction ==
    \/ UNCHANGED <<status, dedupeKey, events>>
    \/ \E r \in Runs, k \in Keys : CreateExecutionRun(r, k) /\ UNCHANGED events
    \/ \E r \in Runs : Claimable(r) /\ ClaimExecutionRun(r) /\ UNCHANGED events
    \/ \E r \in Runs, s \in Outcomes : FinishExecutionRun(r, s)
    \/ \E r \in Runs : Cancellable(r) /\ RequestExecutionCancellation(r) /\ UNCHANGED events
    \/ \E r \in Runs : Reclaimable(r) /\ ReclaimExecutionRunForRetry(r) /\ UNCHANGED events
    \/ Sweep /\ UNCHANGED <<dedupeKey, events>>

LEMMA RowActions == TypeOK /\ [Next]_vars => RowAction
<1> SUFFICES ASSUME TypeOK, [Next]_vars PROVE RowAction
  OBVIOUS
<1> USE DEF TypeOK, RowAction
<1>1. ASSUME NEW k \in DetachedKeys, NEW r \in Runs, DispatchExecution(k, r)
      PROVE  RowAction
  BY <1>1 DEF DispatchExecution, rowVars, Keys
<1>2. ASSUME NEW r \in Runs, RegisterTask(r)
      PROVE  RowAction
  BY <1>2 DEF RegisterTask, rowVars
<1>3. ASSUME NEW r \in Runs, ClaimDetached(r)
      PROVE  RowAction
  BY <1>3 DEF ClaimDetached, rowVars
<1>4. ASSUME NEW r \in Runs, NEW o \in GoalOutcomes, DetachedGoalEnds(r, o)
      PROVE  RowAction
  BY <1>4 DEF DetachedGoalEnds, rowVars
<1>5. ASSUME NEW r \in Runs, FinishDetached(r)
      PROVE  RowAction
  BY <1>5 DEF FinishDetached, rowVars, TaskTypeOK
<1>6. ASSUME NEW r \in Runs, ScheduleReentry(r)
      PROVE  RowAction
  BY <1>6 DEF ScheduleReentry, rowVars
<1>7. ASSUME NEW r \in Runs, RequestCancellation(r)
      PROVE  RowAction
  BY <1>7 DEF RequestCancellation, rowVars
<1>8. ASSUME NEW r \in Runs, CancelTask(r)
      PROVE  RowAction
  BY <1>8 DEF CancelTask, rowVars
<1>9. ASSUME NEW r \in Runs, FinishCancelled(r)
      PROVE  RowAction
  BY <1>9 DEF FinishCancelled, rowVars, Outcomes
<1>10. ASSUME NEW r \in Runs, ScheduleCancelReentry(r)
       PROVE  RowAction
  BY <1>10 DEF ScheduleCancelReentry, rowVars
<1>11. ASSUME NEW r \in Runs, ReenterInteraction(r)
       PROVE  RowAction
  BY <1>11 DEF ReenterInteraction, rowVars
<1>12. ASSUME NEW w \in Workers, NEW k \in ScheduledKeys, WakeUpScheduled(w, k)
       PROVE  RowAction
  BY <1>12 DEF WakeUpScheduled, rowVars
<1>13. ASSUME NEW w \in Workers, CreateScheduled(w)
       PROVE  RowAction
  <2>1. worker[w].key \in Keys
    BY <1>13 DEF CreateScheduled, WorkerTypeOK, Keys
  <2> QED
    BY <1>13, <2>1 DEF CreateScheduled, rowVars
<1>14. ASSUME NEW w \in Workers, ReclaimScheduled(w)
       PROVE  RowAction
  <2>1. worker[w].run \in Runs /\ worker[w].outcome \in Outcomes
    BY <1>14 DEF ReclaimScheduled, WorkerTypeOK
  <2> QED
    BY <1>14, <2>1 DEF ReclaimScheduled, rowVars
<1>15. ASSUME NEW w \in Workers, ClaimScheduled(w)
       PROVE  RowAction
  <2>1. worker[w].run \in Runs /\ worker[w].outcome \in Outcomes
    BY <1>15 DEF ClaimScheduled, WorkerTypeOK
  <2> QED
    BY <1>15, <2>1 DEF ClaimScheduled, rowVars
<1>16. ASSUME NEW w \in Workers, NEW o \in GoalOutcomes, ScheduledGoalEnds(w, o)
       PROVE  RowAction
  BY <1>16 DEF ScheduledGoalEnds, rowVars
<1>17. ASSUME NEW w \in Workers, FinishScheduled(w)
       PROVE  RowAction
  <2>1. worker[w].run \in Runs /\ worker[w].outcome \in Outcomes
    BY <1>17 DEF FinishScheduled, WorkerTypeOK
  <2> QED
    BY <1>17, <2>1 DEF FinishScheduled, rowVars
<1>18. ASSUME NEW w \in Workers, ReenterScheduled(w)
       PROVE  RowAction
  BY <1>18 DEF ReenterScheduled, rowVars
<1>19. ASSUME NEW w \in Workers, CheckScheduled(w)
       PROVE  RowAction
  BY <1>19 DEF CheckScheduled, rowVars
<1>20. ASSUME NEW r \in Runs, TimeoutPasses(r)
       PROVE  RowAction
  BY <1>20 DEF TimeoutPasses, rowVars
<1>21. ASSUME ApiCrash
       PROVE  RowAction
  BY <1>21 DEF ApiCrash, rowVars
<1>22. ASSUME ApiStart
       PROVE  RowAction
  BY <1>22 DEF ApiStart, rowVars, Sweep
<1>23. ASSUME NEW r \in Runs, DetachedDbFault(r)
       PROVE  RowAction
  BY <1>23 DEF DetachedDbFault, rowVars
<1>24. ASSUME NEW w \in Workers, WorkerFault(w)
       PROVE  RowAction
  BY <1>24 DEF WorkerFault, rowVars
<1>25. CASE UNCHANGED vars
  BY <1>25 DEF vars, rowVars
<1>26. ASSUME NEW w \in Workers, SkipScheduled(w)
       PROVE  RowAction
  BY <1>26 DEF SkipScheduled, rowVars
<1> QED
  BY <1>1, <1>2, <1>3, <1>4, <1>5, <1>6, <1>7, <1>8, <1>9, <1>10, <1>11, <1>12, <1>13,
     <1>14, <1>15, <1>16, <1>17, <1>18, <1>19, <1>20, <1>21, <1>22, <1>23, <1>24, <1>25,
     <1>26
     DEF Next, DetachedStep, CancelStep, WorkerStep

\* The event of a run is written in the transaction that ends it.
LEMMA EventStep == TypeOK /\ EventTellsTheEnd /\ RowAction => EventTellsTheEnd'
<1> SUFFICES ASSUME TypeOK, EventTellsTheEnd, RowAction, NEW q \in Runs
             PROVE  events'[q] = IF status'[q] \in Outcomes THEN <<status'[q]>> ELSE <<>>
  BY DEF EventTellsTheEnd
<1> USE DEF TypeOK, RowTypeOK, EventTellsTheEnd, Outcomes
<1>1. CASE UNCHANGED <<status, dedupeKey, events>>
  BY <1>1
<1>2. ASSUME NEW r \in Runs, NEW k \in Keys, CreateExecutionRun(r, k), UNCHANGED events
      PROVE  events'[q] = IF status'[q] \in Outcomes THEN <<status'[q]>> ELSE <<>>
  BY <1>2 DEF CreateExecutionRun, NextRow
<1>3. ASSUME NEW r \in Runs, Claimable(r), ClaimExecutionRun(r), UNCHANGED events
      PROVE  events'[q] = IF status'[q] \in Outcomes THEN <<status'[q]>> ELSE <<>>
  BY <1>3 DEF Claimable, ClaimExecutionRun
<1>4. ASSUME NEW r \in Runs, NEW s \in Outcomes, FinishExecutionRun(r, s)
      PROVE  events'[q] = IF status'[q] \in Outcomes THEN <<status'[q]>> ELSE <<>>
  <2>1. CASE Finishable(r) /\ q = r
    <3>1. events[r] = <<>>
      BY <2>1 DEF Finishable, Active, ActiveStatuses
    <3>2. events'[r] = Append(events[r], s) /\ status'[r] = s
      BY <1>4, <2>1 DEF FinishExecutionRun
    <3> QED
      BY <2>1, <3>1, <3>2
  <2>2. CASE ~ (Finishable(r) /\ q = r)
    BY <1>4, <2>2 DEF FinishExecutionRun
  <2> QED
    BY <2>1, <2>2
<1>5. ASSUME NEW r \in Runs, Cancellable(r), RequestExecutionCancellation(r),
             UNCHANGED events
      PROVE  events'[q] = IF status'[q] \in Outcomes THEN <<status'[q]>> ELSE <<>>
  BY <1>5 DEF Cancellable, RequestExecutionCancellation
<1>6. ASSUME NEW r \in Runs, Reclaimable(r), ReclaimExecutionRunForRetry(r),
             UNCHANGED events
      PROVE  events'[q] = IF status'[q] \in Outcomes THEN <<status'[q]>> ELSE <<>>
  BY <1>6 DEF Reclaimable, ReclaimExecutionRunForRetry
<1>7. CASE Sweep /\ UNCHANGED <<dedupeKey, events>>
  BY <1>7 DEF Sweep, Stale
<1> QED
  BY <1>1, <1>2, <1>3, <1>4, <1>5, <1>6, <1>7 DEF RowAction

\* A run that ended, one way or the other, has exactly the event of that end,
\* whoever raced to end it: finish_execution_run is exactly-once.
THEOREM ExactlyOneEvent == Spec => []EventTellsTheEnd
<1>1. Init => EventTellsTheEnd
  BY DEF Init, EventTellsTheEnd, Outcomes
<1>2. TypeOK /\ EventTellsTheEnd /\ [Next]_vars => EventTellsTheEnd'
  BY RowActions, EventStep
<1> QED
  BY <1>1, <1>2, TypeCorrect, PTL DEF Spec

LEMMA EndedRowsStay ==
    ASSUME TypeOK, RowAction, NEW q \in Runs, Terminal(q)
    PROVE  UNCHANGED <<status[q], dedupeKey[q], events[q]>>
<1> USE DEF TypeOK, RowTypeOK, Terminal, TerminalStatuses
<1>1. CASE UNCHANGED <<status, dedupeKey, events>>
  BY <1>1
<1>2. ASSUME NEW r \in Runs, NEW k \in Keys, CreateExecutionRun(r, k), UNCHANGED events
      PROVE  UNCHANGED <<status[q], dedupeKey[q], events[q]>>
  BY <1>2 DEF CreateExecutionRun, NextRow
<1>3. ASSUME NEW r \in Runs, Claimable(r), ClaimExecutionRun(r), UNCHANGED events
      PROVE  UNCHANGED <<status[q], dedupeKey[q], events[q]>>
  BY <1>3 DEF Claimable, ClaimExecutionRun
<1>4. ASSUME NEW r \in Runs, NEW s \in Outcomes, FinishExecutionRun(r, s)
      PROVE  UNCHANGED <<status[q], dedupeKey[q], events[q]>>
  BY <1>4 DEF FinishExecutionRun, Finishable, Active, ActiveStatuses
<1>5. ASSUME NEW r \in Runs, Cancellable(r), RequestExecutionCancellation(r),
             UNCHANGED events
      PROVE  UNCHANGED <<status[q], dedupeKey[q], events[q]>>
  BY <1>5 DEF Cancellable, RequestExecutionCancellation
<1>6. ASSUME NEW r \in Runs, Reclaimable(r), ReclaimExecutionRunForRetry(r),
             UNCHANGED events
      PROVE  UNCHANGED <<status[q], dedupeKey[q], events[q]>>
  BY <1>6 DEF Reclaimable, ReclaimExecutionRunForRetry
<1>7. CASE Sweep /\ UNCHANGED <<dedupeKey, events>>
  BY <1>7 DEF Sweep, Stale
<1> QED
  BY <1>1, <1>2, <1>3, <1>4, <1>5, <1>6, <1>7 DEF RowAction

\* No transaction touches a row that is terminal.
THEOREM EndsAreFinal == Spec => TerminalIsFinal
<1>1. TypeOK /\ [Next]_vars => [KeepsEnds]_vars
  BY RowActions, EndedRowsStay DEF KeepsEnds
<1> QED
  BY <1>1, TypeCorrect, PTL DEF Spec, TerminalIsFinal

-----------------------------------------------------------------------------
(***************************************************************************)
(* The limit and the dedupe key, which create_or_get_execution_run checks  *)
(* on insertion only: no other statement makes a run active again.         *)
(***************************************************************************)
Creates(r, k) == CreateExecutionRun(r, k) /\ ActiveRuns' = ActiveRuns \cup {r}

LEMMA ActiveSets ==
    ASSUME TypeOK, RowAction
    PROVE  \/ ActiveRuns' \subseteq ActiveRuns /\ UNCHANGED dedupeKey
           \/ \E r \in Runs, k \in Keys : Creates(r, k)
<1> DEFINE Shrinks == ActiveRuns' \subseteq ActiveRuns /\ UNCHANGED dedupeKey
<1> USE DEF TypeOK, RowTypeOK, ActiveRuns, Active, ActiveStatuses
<1>1. CASE UNCHANGED <<status, dedupeKey, events>>
  BY <1>1
<1>2. ASSUME NEW r \in Runs, NEW k \in Keys, CreateExecutionRun(r, k)
      PROVE  Creates(r, k)
  BY <1>2 DEF CreateExecutionRun, Creates
<1>3. ASSUME NEW r \in Runs, Claimable(r), ClaimExecutionRun(r)
      PROVE  Shrinks
  BY <1>3 DEF Claimable, ClaimExecutionRun
<1>4. ASSUME NEW r \in Runs, NEW s \in Outcomes, FinishExecutionRun(r, s)
      PROVE  Shrinks
  BY <1>4 DEF FinishExecutionRun, Finishable, Outcomes
<1>5. ASSUME NEW r \in Runs, Cancellable(r), RequestExecutionCancellation(r)
      PROVE  Shrinks
  BY <1>5 DEF Cancellable, RequestExecutionCancellation
<1>6. ASSUME NEW r \in Runs, Reclaimable(r), ReclaimExecutionRunForRetry(r)
      PROVE  Shrinks
  BY <1>6 DEF Reclaimable, ReclaimExecutionRunForRetry
<1>7. CASE Sweep /\ UNCHANGED <<dedupeKey, events>>
  BY <1>7 DEF Sweep
<1> QED
  BY <1>1, <1>2, <1>3, <1>4, <1>5, <1>6, <1>7 DEF RowAction

LEMMA ActiveRunsFinite == IsFiniteSet(ActiveRuns) /\ Cardinality(ActiveRuns) \in Nat
<1>1. IsFiniteSet(Runs)
  BY RunsAssumption, FS_Interval DEF Runs
<1>2. IsFiniteSet(ActiveRuns)
  BY <1>1, FS_Subset DEF ActiveRuns
<1> QED
  BY <1>2, FS_CardinalityType

\* However many parties create, reclaim, cancel and end runs at the same time,
\* a contact has at most max_active_runs of them active.
THEOREM WithinLimit == Spec => []ActiveWithinLimit
<1>1. Init => ActiveWithinLimit
  <2> SUFFICES ASSUME Init PROVE ActiveWithinLimit
    OBVIOUS
  <2>1. ActiveRuns = {}
    BY DEF Init, ActiveRuns, Active, ActiveStatuses
  <2> QED
    BY <2>1, FS_EmptySet, RunsAssumption DEF ActiveWithinLimit
<1>2. ASSUME TypeOK, ActiveWithinLimit, RowAction PROVE ActiveWithinLimit'
  <2> USE <1>2 DEF ActiveWithinLimit
  <2>1. CASE ActiveRuns' \subseteq ActiveRuns
    <3>1. Cardinality(ActiveRuns') <= Cardinality(ActiveRuns)
      BY <2>1, ActiveRunsFinite, FS_Subset
    <3>2. Cardinality(ActiveRuns') \in Nat
      BY <2>1, ActiveRunsFinite, FS_Subset, FS_CardinalityType
    <3> QED
      BY <3>1, <3>2, ActiveRunsFinite, RunsAssumption
  <2>2. ASSUME NEW r \in Runs, NEW k \in Keys, Creates(r, k)
        PROVE  ActiveWithinLimit'
    <3>1. Cardinality(ActiveRuns) < MaxActive
      BY <2>2 DEF Creates, CreateExecutionRun, HasRoom
    <3>2. Cardinality(ActiveRuns') <= Cardinality(ActiveRuns) + 1
      BY <2>2, ActiveRunsFinite, FS_AddElement DEF Creates
    <3>3. Cardinality(ActiveRuns') \in Nat
      BY <2>2, ActiveRunsFinite, FS_AddElement, FS_CardinalityType DEF Creates
    <3> QED
      BY <3>1, <3>2, <3>3, ActiveRunsFinite, RunsAssumption
  <2> QED
    BY <2>1, <2>2, ActiveSets
<1>3. TypeOK /\ ActiveWithinLimit /\ [Next]_vars => ActiveWithinLimit'
  BY <1>2, RowActions
<1> QED
  BY <1>1, <1>3, TypeCorrect, PTL DEF Spec

\* A goal, or an occurrence of an automation, is never active under two rows.
THEOREM NeverTwice == Spec => []OneActiveRunPerKey
<1>1. Init => OneActiveRunPerKey
  BY DEF Init, OneActiveRunPerKey, Active, ActiveStatuses
<1>2. ASSUME TypeOK, OneActiveRunPerKey, RowAction PROVE OneActiveRunPerKey'
  <2> SUFFICES ASSUME NEW p \in Runs, NEW q \in Runs, p \in ActiveRuns', q \in ActiveRuns',
                      dedupeKey'[p] = dedupeKey'[q]
               PROVE  p = q
    BY DEF OneActiveRunPerKey, ActiveRuns, Active
  <2> USE <1>2 DEF OneActiveRunPerKey, TypeOK, RowTypeOK
  <2>1. CASE ActiveRuns' \subseteq ActiveRuns /\ UNCHANGED dedupeKey
    BY <2>1 DEF ActiveRuns
  <2>2. ASSUME NEW r \in Runs, NEW k \in Keys, Creates(r, k)
        PROVE  p = q
    <3>1. /\ dedupeKey'[r] = k
          /\ \A o \in Runs : o # r => dedupeKey'[o] = dedupeKey[o]
      BY <2>2 DEF Creates, CreateExecutionRun
    <3>2. \A o \in ActiveRuns : dedupeKey[o] # k
      BY <2>2 DEF Creates, CreateExecutionRun, HasActiveRow, RowsOf, ActiveRuns, Active,
         ActiveStatuses
    <3>3. \A o \in Runs : o \in ActiveRuns' /\ o # r => o \in ActiveRuns
      BY <2>2 DEF Creates
    <3>4. CASE p # r /\ q # r
      BY <3>1, <3>3, <3>4 DEF ActiveRuns
    <3>5. CASE p = r \/ q = r
      BY <3>1, <3>2, <3>3, <3>5
    <3> QED
      BY <3>4, <3>5
  <2> QED
    BY <2>1, <2>2, ActiveSets
<1>3. TypeOK /\ OneActiveRunPerKey /\ [Next]_vars => OneActiveRunPerKey'
  BY <1>2, RowActions
<1> QED
  BY <1>1, <1>3, TypeCorrect, PTL DEF Spec

-----------------------------------------------------------------------------
(***************************************************************************)
(* Who works on which row.  A task and its canceller belong to a detached  *)
(* run; a worker has a row of the occurrence it was woken for; once the    *)
(* canceller has cancelled the task, the task does not work any more, and  *)
(* a run that is being cancelled is not claimed again.  No task outlives   *)
(* its process.                                                            *)
(***************************************************************************)
Owned(r) ==
    /\ task[r].pc # "none" => dedupeKey[r] \in DetachedKeys /\ status[r] # "none"
    /\ canceller[r] # "none" => status[r] # "none"
    /\ canceller[r] # "none" /\ dedupeKey[r] \in DetachedKeys => status[r] # "pending"
    /\ canceller[r] \in {"finalizing", "finished"} => task[r].pc # "working"
    /\ task[r].pc \notin {"none", "done"} => apiUp
    /\ task[r].pc = "working" => status[r] \in {"running", "cancel_requested"}
Serves(w) ==
    worker[w].run \in Runs =>
        /\ status[worker[w].run] # "none"
        /\ dedupeKey[worker[w].run] = worker[w].key
OwnerInv ==
    /\ \A r \in Runs : Owned(r)
    /\ \A w \in Workers : Serves(w)

\* A row stays, and keeps its key.
LEMMA RowsStay ==
    ASSUME TypeOK, RowAction, NEW r \in Runs, status[r] # "none"
    PROVE  status'[r] # "none" /\ dedupeKey'[r] = dedupeKey[r]
<1> USE DEF TypeOK, RowTypeOK
<1>1. CASE UNCHANGED <<status, dedupeKey, events>>
  BY <1>1
<1>2. ASSUME NEW q \in Runs, NEW k \in Keys, CreateExecutionRun(q, k)
      PROVE  status'[r] # "none" /\ dedupeKey'[r] = dedupeKey[r]
  BY <1>2 DEF CreateExecutionRun, NextRow
<1>3. ASSUME NEW q \in Runs, ClaimExecutionRun(q)
      PROVE  status'[r] # "none" /\ dedupeKey'[r] = dedupeKey[r]
  BY <1>3 DEF ClaimExecutionRun
<1>4. ASSUME NEW q \in Runs, NEW o \in Outcomes, FinishExecutionRun(q, o)
      PROVE  status'[r] # "none" /\ dedupeKey'[r] = dedupeKey[r]
  BY <1>4 DEF FinishExecutionRun, Outcomes
<1>5. ASSUME NEW q \in Runs, RequestExecutionCancellation(q)
      PROVE  status'[r] # "none" /\ dedupeKey'[r] = dedupeKey[r]
  BY <1>5 DEF RequestExecutionCancellation
<1>6. ASSUME NEW q \in Runs, ReclaimExecutionRunForRetry(q)
      PROVE  status'[r] # "none" /\ dedupeKey'[r] = dedupeKey[r]
  BY <1>6 DEF ReclaimExecutionRunForRetry
<1>7. CASE Sweep /\ UNCHANGED <<dedupeKey, events>>
  BY <1>7 DEF Sweep
<1> QED
  BY <1>1, <1>2, <1>3, <1>4, <1>5, <1>6, <1>7 DEF RowAction

\* A worker keeps the row it took, or takes one of the key it was woken for.
LEMMA WorkersServe ==
    ASSUME TypeOK, OwnerInv, [Next]_vars, NEW w \in Workers
    PROVE  Serves(w)'
<1>r. RowAction
  BY RowActions
<1>w. worker \in [Workers -> [pc : WorkerStates, run : Runs \cup {NoRun},
                              key : Keys \cup {NoKey}, outcome : Outcomes]]
  BY DEF TypeOK, WorkerTypeOK
<1>1. CASE worker'[w].run = worker[w].run /\ worker'[w].key = worker[w].key
  BY <1>1, <1>r, RowsStay DEF OwnerInv, Serves
<1>2. CASE worker'[w].run \notin Runs
  BY <1>2 DEF Serves
<1>3. IdleWorker.run \notin Runs
  BY NoRunAssumption, RunsAssumption DEF IdleWorker, Runs
<1>4. ASSUME NEW r \in Runs, r \in RowsOf(worker'[w].key), worker'[w].run = r
      PROVE  Serves(w)'
  BY <1>4, <1>r, RowsStay DEF Serves, RowsOf
<1>5. CASE UNCHANGED worker
  BY <1>1, <1>5
<1>6. ASSUME NEW v \in Workers, NEW k \in ScheduledKeys, WakeUpScheduled(v, k)
      PROVE  Serves(w)'
  <2>1. CASE UNCHANGED worker
    BY <1>5, <2>1
  <2>2. ASSUME NEW pc \in {"skipping", "creating", "reclaiming", "queued"},
               NEW r \in Runs \cup {NoRun}, r = NoRun \/ Latest(r, k),
               worker' = [worker EXCEPT ![v] =
                            [pc |-> pc, run |-> r, key |-> k, outcome |-> "failed"]]
        PROVE  Serves(w)'
    <3>1. CASE v # w
      BY <1>1, <1>w, <2>2, <3>1
    <3>2. CASE v = w /\ r = NoRun
      BY <1>2, <1>w, <2>2, <3>2, NoRunAssumption, RunsAssumption DEF Runs
    <3>3. CASE v = w /\ r # NoRun
      BY <1>4, <1>w, <2>2, <3>3 DEF Latest
    <3> QED
      BY <3>1, <3>2, <3>3
  <2> QED
    BY <1>6, <2>1, <2>2 DEF WakeUpScheduled
<1>7. ASSUME NEW v \in Workers, CreateScheduled(v)
      PROVE  Serves(w)'
  <2>1. CASE worker' = [worker EXCEPT ![v] = IdleWorker]
    <3>1. CASE v = w
      BY <1>2, <1>3, <1>w, <2>1, <3>1
    <3>2. CASE v # w
      BY <1>1, <1>w, <2>1, <3>2
    <3> QED
      BY <3>1, <3>2
  <2>2. ASSUME NEW r \in Runs,
               worker' = [worker EXCEPT ![v].pc = "queued", ![v].run = r],
               r \in RowsOf(worker[v].key) \/ CreateExecutionRun(r, worker[v].key)
        PROVE  Serves(w)'
    <3>1. CASE v # w
      BY <1>1, <1>w, <2>2, <3>1
    <3>2. CASE v = w
      <4>1. worker'[w].run = r /\ worker'[w].key = worker[w].key
        BY <1>w, <2>2, <3>2
      <4>2. CASE r \in RowsOf(worker[v].key)
        BY <1>4, <3>2, <4>1, <4>2
      <4>3. CASE CreateExecutionRun(r, worker[v].key)
        BY <3>2, <4>1, <4>3 DEF CreateExecutionRun, Serves, TypeOK, RowTypeOK
      <4> QED
        BY <2>2, <4>2, <4>3
    <3> QED
      BY <3>1, <3>2
  <2> QED
    BY <1>7, <2>1, <2>2 DEF CreateScheduled, RowsOf
<1>8. ASSUME NEW v \in Workers, NEW pc \in WorkerStates,
             worker' = [worker EXCEPT ![v].pc = pc] \/ worker' = [worker EXCEPT ![v] = IdleWorker]
      PROVE  Serves(w)'
  <2>1. CASE v = w /\ worker' = [worker EXCEPT ![v] = IdleWorker]
    BY <1>2, <1>3, <1>w, <2>1
  <2>2. CASE v # w \/ worker' = [worker EXCEPT ![v].pc = pc]
    BY <1>1, <1>8, <1>w, <2>2
  <2> QED
    BY <1>8, <2>1, <2>2
<1>9. ASSUME NEW v \in Workers, NEW o \in GoalOutcomes, ScheduledGoalEnds(v, o)
      PROVE  Serves(w)'
  BY <1>1, <1>9, <1>w DEF ScheduledGoalEnds
<1>10. ASSUME NEW v \in Workers,
              \/ ReclaimScheduled(v) \/ ClaimScheduled(v) \/ FinishScheduled(v)
              \/ ReenterScheduled(v) \/ CheckScheduled(v) \/ SkipScheduled(v)
              \/ WorkerFault(v)
       PROVE  Serves(w)'
  BY <1>8, <1>10 DEF SkipScheduled, ReclaimScheduled, ClaimScheduled, FinishScheduled, ReenterScheduled,
     CheckScheduled, WorkerFault, WorkerStates
<1>11. CASE
       \/ \E k \in DetachedKeys, r \in Runs : DispatchExecution(k, r)
       \/ \E r \in Runs : DetachedStep(r) \/ RequestCancellation(r) \/ CancelStep(r)
       \/ \E r \in Runs : ReenterInteraction(r)
       \/ \E r \in Runs : TimeoutPasses(r) \/ DetachedDbFault(r)
       \/ ApiCrash \/ ApiStart
       \/ UNCHANGED vars
  BY <1>5, <1>11 DEF DispatchExecution, DetachedStep, RegisterTask, ClaimDetached,
     DetachedGoalEnds, FinishDetached, ScheduleReentry, RequestCancellation, CancelStep,
     CancelTask, FinishCancelled, ScheduleCancelReentry, ReenterInteraction, TimeoutPasses,
     DetachedDbFault, ApiCrash, ApiStart, vars, workerVars
<1> QED
  BY <1>6, <1>7, <1>9, <1>10, <1>11 DEF Next, WorkerStep

\* A scheduled run has no task: what a worker does to its row leaves the tasks
\* of the detached runs with the rows they work on.
LEMMA TasksOwned ==
    ASSUME TypeOK, OwnerInv, [Next]_vars, NEW r \in Runs
    PROVE  Owned(r)'
<1> DEFINE Same == /\ task'[r].pc = task[r].pc
                   /\ canceller'[r] = canceller[r]
                   /\ status'[r] = status[r]
                   /\ dedupeKey'[r] = dedupeKey[r]
                   /\ apiUp' = apiUp
<1>o. Owned(r)
  BY DEF OwnerInv
<1>t. /\ task \in [Runs -> [pc : TaskStates, outcome : Outcomes]]
      /\ canceller \in [Runs -> {"none", "requested", "finalizing", "finished"}]
      /\ status \in [Runs -> ActiveStatuses \cup TerminalStatuses \cup {"none"}]
      /\ dedupeKey \in [Runs -> Keys \cup {NoKey}]
      /\ apiUp \in BOOLEAN
  BY DEF TypeOK, RowTypeOK, TaskTypeOK
<1>a. CASE Same
  BY <1>a, <1>o DEF Owned
<1>b. CASE UNCHANGED <<rowVars, apiVars, apiUp>>
  BY <1>a, <1>b DEF rowVars, apiVars
<1>c. ASSUME NEW q \in Runs, NEW k \in Keys, CreateExecutionRun(q, k), q # r,
             task'[r].pc = task[r].pc, canceller'[r] = canceller[r], apiUp' = apiUp
      PROVE  Owned(r)'
  BY <1>a, <1>c, <1>t DEF CreateExecutionRun
<1>d. ASSUME dedupeKey'[r] \in ScheduledKeys, status'[r] # "none", task[r].pc = "none",
             UNCHANGED apiVars
      PROVE  Owned(r)'
  BY <1>d, KeysAssumption DEF Owned, apiVars
<1>e. ASSUME NEW w \in Workers, worker[w].run = r, worker[w].pc \notin {"idle", "creating"}
      PROVE  /\ dedupeKey[r] \in ScheduledKeys /\ status[r] # "none"
             /\ task[r].pc = "none"
  <2>1. Serves(w)
    BY DEF OwnerInv
  <2>2. worker[w].key \in ScheduledKeys
    BY <1>e DEF TypeOK, WorkerTypeOK
  <2> QED
    BY <1>e, <1>o, <2>1, <2>2, KeysAssumption DEF Serves, Owned
<1>1. ASSUME NEW k \in DetachedKeys, NEW q \in Runs, DispatchExecution(k, q)
      PROVE  Owned(r)'
  <2>1. CASE q # r
    BY <1>1, <1>c, <1>t, <2>1 DEF DispatchExecution, Keys
  <2>2. CASE q = r
    BY <1>1, <1>o, <1>t, <2>2 DEF DispatchExecution, CreateExecutionRun, NextRow, Owned
  <2> QED
    BY <2>1, <2>2
<1>2. ASSUME NEW q \in Runs, RegisterTask(q)
      PROVE  Owned(r)'
  BY <1>2, <1>o, <1>t DEF RegisterTask, Owned, rowVars
<1>3. ASSUME NEW q \in Runs, ClaimDetached(q)
      PROVE  Owned(r)'
  BY <1>3, <1>o, <1>t DEF ClaimDetached, Claimable, ClaimExecutionRun, Owned, rowVars
<1>4. ASSUME NEW q \in Runs, NEW o \in GoalOutcomes, DetachedGoalEnds(q, o)
      PROVE  Owned(r)'
  BY <1>4, <1>o, <1>t DEF DetachedGoalEnds, Owned, rowVars
<1>5. ASSUME NEW q \in Runs, FinishDetached(q)
      PROVE  Owned(r)'
  BY <1>5, <1>o, <1>t DEF FinishDetached, FinishExecutionRun, Owned, Outcomes
<1>6. ASSUME NEW q \in Runs, ScheduleReentry(q)
      PROVE  Owned(r)'
  BY <1>6, <1>o, <1>t DEF ScheduleReentry, Owned, rowVars
<1>7. ASSUME NEW q \in Runs, RequestCancellation(q)
      PROVE  Owned(r)'
  BY <1>7, <1>o, <1>t DEF RequestCancellation, RequestExecutionCancellation, Cancellable, Owned
<1>8. ASSUME NEW q \in Runs, CancelTask(q)
      PROVE  Owned(r)'
  BY <1>8, <1>o, <1>t DEF CancelTask, AfterCancel, Owned, rowVars
<1>9. ASSUME NEW q \in Runs, FinishCancelled(q)
      PROVE  Owned(r)'
  BY <1>9, <1>o, <1>t DEF FinishCancelled, FinishExecutionRun, Owned
<1>10. ASSUME NEW q \in Runs, ScheduleCancelReentry(q)
       PROVE  Owned(r)'
  BY <1>10, <1>o, <1>t DEF ScheduleCancelReentry, Owned, rowVars
<1>11. ASSUME NEW w \in Workers, CreateScheduled(w)
       PROVE  Owned(r)'
  <2>1. worker[w].key \in ScheduledKeys
    BY <1>11 DEF CreateScheduled, TypeOK, WorkerTypeOK
  <2>2. CASE UNCHANGED rowVars
    BY <1>11, <1>b, <2>2 DEF CreateScheduled
  <2>3. ASSUME NEW q \in Runs, CreateExecutionRun(q, worker[w].key)
        PROVE  Owned(r)'
    <3>1. CASE q # r
      BY <1>11, <1>c, <2>1, <2>3, <3>1 DEF CreateScheduled, Keys, apiVars
    <3>2. CASE q = r
      BY <1>11, <1>d, <1>o, <1>t, <2>1, <2>3, <3>2 DEF CreateScheduled, CreateExecutionRun,
         NextRow, Owned
    <3> QED
      BY <3>1, <3>2
  <2> QED
    BY <1>11, <2>2, <2>3 DEF CreateScheduled
<1>12. ASSUME NEW w \in Workers, ReclaimScheduled(w)
       PROVE  Owned(r)'
  <2>1. CASE worker[w].run = r
    BY <1>12, <1>b, <1>d, <1>e, <1>t, <2>1 DEF ReclaimScheduled, ReclaimExecutionRunForRetry
  <2>2. CASE worker[w].run # r
    BY <1>12, <1>a, <1>b, <1>t, <2>2 DEF ReclaimScheduled, ReclaimExecutionRunForRetry, apiVars
  <2> QED
    BY <2>1, <2>2
<1>13. ASSUME NEW w \in Workers, ClaimScheduled(w)
       PROVE  Owned(r)'
  <2>1. CASE worker[w].run = r
    BY <1>13, <1>b, <1>d, <1>e, <1>t, <2>1 DEF ClaimScheduled, ClaimExecutionRun
  <2>2. CASE worker[w].run # r
    BY <1>13, <1>a, <1>b, <1>t, <2>2 DEF ClaimScheduled, ClaimExecutionRun, apiVars
  <2> QED
    BY <2>1, <2>2
<1>14. ASSUME NEW w \in Workers, FinishScheduled(w)
       PROVE  Owned(r)'
  <2>0. worker[w].outcome \in Outcomes
    BY DEF TypeOK, WorkerTypeOK
  <2>1. CASE worker[w].run = r
    <3>1. dedupeKey'[r] \in ScheduledKeys /\ task[r].pc = "none" /\ UNCHANGED apiVars
      BY <1>14, <1>e, <2>1 DEF FinishScheduled, FinishExecutionRun
    <3>2. status'[r] # "none"
      BY <1>14, <1>e, <1>t, <2>0, <2>1 DEF FinishScheduled, FinishExecutionRun, Outcomes
    <3> QED
      BY <1>d, <3>1, <3>2
  <2>2. CASE worker[w].run # r
    BY <1>14, <1>a, <1>t, <2>2 DEF FinishScheduled, FinishExecutionRun, apiVars
  <2> QED
    BY <2>1, <2>2
<1>15. CASE
       \/ \E q \in Runs : ReenterInteraction(q)
       \/ \E w \in Workers, k \in ScheduledKeys : WakeUpScheduled(w, k)
       \/ \E w \in Workers, o \in GoalOutcomes : ScheduledGoalEnds(w, o)
       \/ \E w \in Workers : ReenterScheduled(w)
       \/ \E w \in Workers : SkipScheduled(w) \/ CheckScheduled(w) \/ WorkerFault(w)
       \/ \E q \in Runs : TimeoutPasses(q)
       \/ UNCHANGED vars
  BY <1>15, <1>a DEF SkipScheduled, ReenterInteraction, WakeUpScheduled, ScheduledGoalEnds, ReenterScheduled,
     CheckScheduled, WorkerFault, TimeoutPasses, vars, rowVars, apiVars
<1>16. ASSUME ApiCrash
       PROVE  Owned(r)'
  BY <1>16, <1>o, <1>t DEF ApiCrash, LoseTask, Owned, rowVars
<1>17. ASSUME ApiStart
       PROVE  Owned(r)'
  BY <1>17, <1>o, <1>t DEF ApiStart, Stale, Owned, apiVars
<1>18. ASSUME NEW q \in Runs, DetachedDbFault(q)
       PROVE  Owned(r)'
  BY <1>18, <1>o, <1>t DEF DetachedDbFault, Owned, rowVars
<1> QED
  BY <1>1, <1>2, <1>3, <1>4, <1>5, <1>6, <1>7, <1>8, <1>9, <1>10, <1>11, <1>12, <1>13,
     <1>14, <1>15, <1>16, <1>17, <1>18 DEF Next, DetachedStep, CancelStep, WorkerStep

LEMMA OwnersKept == Spec => []OwnerInv
<1>1. Init => OwnerInv
  BY NoRunAssumption, RunsAssumption DEF Init, OwnerInv, Owned, Serves, NoTask, IdleWorker, Runs
<1>2. TypeOK /\ OwnerInv /\ [Next]_vars => OwnerInv'
  <2> SUFFICES ASSUME TypeOK, OwnerInv, [Next]_vars
               PROVE  (\A r \in Runs : Owned(r)') /\ (\A w \in Workers : Serves(w)')
    BY DEF OwnerInv
  <2> QED
    BY TasksOwned, WorkersServe
<1> QED
  BY <1>1, <1>2, TypeCorrect, PTL DEF Spec

\* However the finalizer of a cancellation, the sweep, the workers and crashes
\* interleave, a task that works on a goal has a row that has not ended.
THEOREM WorksOnLiveRuns == Spec => []DetachedWorkIsLive
<1>1. OwnerInv => DetachedWorkIsLive
  BY DEF OwnerInv, Owned, DetachedWorkIsLive
<1> QED
  BY <1>1, OwnersKept, PTL

\* A wake-up that is closed with the end of a run tells the end of a run of its own
\* occurrence, and that run keeps both its key and its end.  A wake-up that is skipped
\* (a toolkit is missing), dropped (the automation is not active) or given up (its
\* attempts are used up) is closed with no run, and is not what this is about.
THEOREM ClosesEnded == Spec => []ClosedHasEnded
<1>1. Init => ClosedHasEnded
  BY DEF Init, ClosedHasEnded, Outcomes
<1>2. ASSUME TypeOK, OwnerInv, ClosedHasEnded, [Next]_vars, NEW k \in ScheduledKeys,
             wakeUp'[k] \in Outcomes
      PROVE  RanTo(k)'
  <2> DEFINE Ended(r, end) == r \in RowsOf(k) /\ Terminal(r) /\ LastRunFromExecution(status[r]) = end
  <2>w. wakeUp \in [ScheduledKeys -> WakeUpStates]
    BY <1>2 DEF TypeOK, JobTypeOK
  <2>1. ASSUME NEW r \in Runs, Ended(r, wakeUp'[k])
        PROVE  RanTo(k)'
    <3>1. UNCHANGED <<status[r], dedupeKey[r]>>
      BY <1>2, <2>1, RowActions, EndedRowsStay
    <3> QED
      BY <1>2, <2>1, <3>1 DEF RanTo, RowsOf, Terminal
  <2>2. CASE wakeUp'[k] = wakeUp[k]
    <3>1. PICK r \in RowsOf(k) : Ended(r, wakeUp[k])
      BY <1>2, <2>2 DEF ClosedHasEnded, RanTo
    <3> QED
      BY <2>1, <2>2, <3>1 DEF RowsOf
  <2>3. ASSUME NEW j \in ScheduledKeys, NEW r \in Runs, ClosesWith(j, r), j = k
        PROVE  RanTo(k)'
    <3>1. r \in RowsOf(k)
      BY <1>2, <2>3 DEF ClosesWith, OwnerInv, Serves, RowsOf
    <3>2. Terminal(r) /\ wakeUp'[k] = LastRunFromExecution(status[r])
      BY <2>3, <2>w DEF ClosesWith, CloseWakeUp
    <3> QED
      BY <2>1, <3>1, <3>2
  <2>4. ASSUME NEW j \in ScheduledKeys, NEW end, CloseWakeUp(j, end),
               j # k \/ end \in {"skipped", "dropped"}
        PROVE  wakeUp'[k] = wakeUp[k]
    BY <1>2, <2>4, <2>w DEF CloseWakeUp, Outcomes
  <2>5. ASSUME NEW j \in ScheduledKeys, FailJob(j)
        PROVE  wakeUp'[k] = wakeUp[k]
    BY <1>2, <2>5, <2>w DEF FailJob, jobVars, Outcomes
  <2>6. JobAction
    BY <1>2, JobActions DEF TypeOK
  <2> QED
    BY <2>2, <2>3, <2>4, <2>5, <2>6 DEF JobAction, ClosesWith, jobVars
<1>3. TypeOK /\ OwnerInv /\ ClosedHasEnded /\ [Next]_vars => ClosedHasEnded'
  BY <1>2 DEF ClosedHasEnded
<1> QED
  BY <1>1, <1>3, TypeCorrect, OwnersKept, PTL DEF Spec

-----------------------------------------------------------------------------
(***************************************************************************)
(* The rows implement RunLedger.  Who wrote the end of a run, and only     *)
(* that party, is on its way to tell it; the run was not told before.      *)
(***************************************************************************)
TellInv ==
    \A r \in Runs :
        /\ reentries[r] \in {0, 1}
        /\ status[r] \notin Outcomes =>
             reentries[r] = 0 /\ task[r].pc # "finished" /\ canceller[r] # "finished"
        /\ task[r].pc = "finished" => reentries[r] = 0 /\ canceller[r] # "finished"
        /\ canceller[r] = "finished" => reentries[r] = 0

Ends == [r \in Runs |-> EndOf(r)]

\* What ending an active row does to the ledger.
LEMMA FinishEnds ==
    ASSUME TypeOK, NEW q \in Runs, NEW s \in Outcomes, FinishExecutionRun(q, s), Active(q)
    PROVE  /\ Ends[q] = "open"
           /\ Ends' = [Ends EXCEPT ![q] = s]
           /\ status'[q] = s
<1>1. status' = [status EXCEPT ![q] = s]
  BY DEF FinishExecutionRun, Finishable
<1>2. Ends[q] = "open"
  BY DEF Ends, EndOf, Active, ActiveStatuses
<1>3. ASSUME NEW r \in Runs
      PROVE  EndOf(r)' = IF r = q THEN s ELSE EndOf(r)
  BY <1>1 DEF TypeOK, RowTypeOK, EndOf, Active, ActiveStatuses, Outcomes
<1> QED
  BY <1>1, <1>2, <1>3 DEF Ends, TypeOK, RowTypeOK

\* A transaction that tells nothing is a step of the ledger or none.
LEMMA QuietSteps ==
    ASSUME TypeOK, RowAction, UNCHANGED reentries
    PROVE  [Ledger!Next]_(Ledger!vars)
<1> USE DEF TypeOK, RowTypeOK
<1>0. ASSUME \A r \in Runs : EndOf(r)' = EndOf(r)
      PROVE  [Ledger!Next]_(Ledger!vars)
  BY <1>0 DEF Ledger!vars
<1>1. CASE UNCHANGED <<status, dedupeKey, events>>
  BY <1>0, <1>1 DEF EndOf, Active
<1>2. ASSUME NEW q \in Runs, NEW k \in Keys, CreateExecutionRun(q, k)
      PROVE  [Ledger!Next]_(Ledger!vars)
  <2>1. Ends[q] = "absent"
    BY <1>2 DEF CreateExecutionRun, NextRow, Ends, EndOf
  <2>2. \A r \in Runs : EndOf(r)' = IF r = q THEN "open" ELSE EndOf(r)
    BY <1>2 DEF CreateExecutionRun, EndOf, Active, ActiveStatuses
  <2>3. Ends' = [Ends EXCEPT ![q] = "open"]
    BY <2>2 DEF Ends
  <2> QED
    BY <2>1, <2>3 DEF Ends, Ledger!Next, Ledger!Begin
<1>3. ASSUME NEW q \in Runs, Claimable(q), ClaimExecutionRun(q)
      PROVE  [Ledger!Next]_(Ledger!vars)
  <2>1. \A r \in Runs : EndOf(r)' = EndOf(r)
    BY <1>3 DEF Claimable, ClaimExecutionRun, EndOf, Active, ActiveStatuses
  <2> QED
    BY <1>0, <2>1
<1>4. ASSUME NEW q \in Runs, NEW s \in Outcomes, FinishExecutionRun(q, s)
      PROVE  [Ledger!Next]_(Ledger!vars)
  <2>1. CASE Active(q)
    BY <1>4, <2>1, FinishEnds DEF Ends, Ledger!Next, Ledger!End
  <2>2. CASE ~ Active(q)
    BY <1>0, <1>4, <2>2 DEF FinishExecutionRun, Finishable, EndOf, Active
  <2> QED
    BY <2>1, <2>2
<1>5. ASSUME NEW q \in Runs, Cancellable(q), RequestExecutionCancellation(q)
      PROVE  [Ledger!Next]_(Ledger!vars)
  <2>1. \A r \in Runs : EndOf(r)' = EndOf(r)
    BY <1>5 DEF Cancellable, RequestExecutionCancellation, EndOf, Active, ActiveStatuses
  <2> QED
    BY <1>0, <2>1
<1>6. ASSUME NEW q \in Runs, Reclaimable(q), ReclaimExecutionRunForRetry(q)
      PROVE  [Ledger!Next]_(Ledger!vars)
  <2>1. \A r \in Runs : EndOf(r)' = EndOf(r)
    BY <1>6 DEF Reclaimable, ReclaimExecutionRunForRetry, EndOf, Active, ActiveStatuses
  <2> QED
    BY <1>0, <2>1
<1>7. CASE Sweep
  <2> DEFINE S == {r \in Runs : Stale(r)}
  <2>1. \A r \in S : Ends[r] = "open"
    BY DEF Ends, EndOf, Stale, Active, ActiveStatuses
  <2>2. \A r \in Runs : EndOf(r)' = IF r \in S THEN "abandoned" ELSE EndOf(r)
    BY <1>7 DEF Sweep, EndOf, Active, ActiveStatuses
  <2>3. Ends' = [r \in Runs |-> IF r \in S THEN "abandoned" ELSE Ends[r]]
    BY <2>2 DEF Ends
  <2>4. S \in SUBSET Runs
    OBVIOUS
  <2> HIDE DEF S
  <2> QED
    BY <2>1, <2>3, <2>4 DEF Ends, Ledger!Next, Ledger!Abandon
<1> QED
  BY <1>1, <1>2, <1>3, <1>4, <1>5, <1>6, <1>7 DEF RowAction

\* The steps that do not tell, and that hand nobody an end to be told.
LEMMA QuietTells ==
    ASSUME TypeOK, TellInv, RowAction, UNCHANGED reentries,
           \A r \in Runs : task'[r].pc = "finished" => task[r].pc = "finished",
           \A r \in Runs : canceller'[r] = "finished" => canceller[r] = "finished"
    PROVE  TellInv' /\ [Ledger!Next]_(Ledger!vars)
<1>1. \A r \in Runs : status[r] \in Outcomes => status'[r] \in Outcomes
  BY EndedRowsStay DEF Terminal, TerminalStatuses, Outcomes
<1> QED
  BY <1>1, QuietSteps DEF TellInv

LEMMA LedgerSteps ==
    ASSUME TypeOK, TellInv, [Next]_vars
    PROVE  TellInv' /\ [Ledger!Next]_(Ledger!vars)
<1>r. RowAction
  BY RowActions
<1>t. /\ task \in [Runs -> [pc : TaskStates, outcome : Outcomes]]
      /\ canceller \in [Runs -> {"none", "requested", "finalizing", "finished"}]
      /\ reentries \in [Runs -> Nat]
      /\ status \in [Runs -> ActiveStatuses \cup TerminalStatuses \cup {"none"}]
  BY DEF TypeOK, RowTypeOK, TaskTypeOK
<1>a. ASSUME NEW q \in Runs, Active(q)
      PROVE  /\ reentries[q] = 0
             /\ task[q].pc # "finished" /\ canceller[q] # "finished"
  BY <1>a DEF TellInv, Active, ActiveStatuses, Outcomes
<1>b. ASSUME NEW q \in Runs, reentries' = [reentries EXCEPT ![q] = @ + 1], reentries[q] = 0,
             status[q] \in Outcomes, UNCHANGED rowVars
      PROVE  [Ledger!Next]_(Ledger!vars)
  <2>1. Ends[q] \in Outcomes /\ Ends' = Ends
    BY <1>b DEF Ends, EndOf, Active, ActiveStatuses, Outcomes, rowVars
  <2>2. reentries' = [reentries EXCEPT ![q] = 1]
    BY <1>b, <1>t
  <2> QED
    BY <1>b, <2>1, <2>2 DEF Ends, Ledger!Next, Ledger!Tell
<1>1. ASSUME NEW q \in Runs, FinishDetached(q)
      PROVE  TellInv' /\ [Ledger!Next]_(Ledger!vars)
  <2>0. task[q].outcome \in Outcomes
    BY <1>t
  <2>1. CASE Active(q)
    <3>1. status'[q] \in Outcomes /\ \A r \in Runs : r # q => status'[r] = status[r]
      BY <1>1, <1>t, <2>0, <2>1, FinishEnds DEF FinishDetached, FinishExecutionRun
    <3> QED
      BY <1>1, <1>a, <1>r, <1>t, <2>1, <3>1, QuietSteps DEF FinishDetached, TellInv
  <2>2. CASE ~ Active(q)
    BY <1>1, <1>r, <1>t, <2>2, QuietTells DEF FinishDetached
  <2> QED
    BY <2>1, <2>2
<1>2. ASSUME NEW q \in Runs, FinishCancelled(q)
      PROVE  TellInv' /\ [Ledger!Next]_(Ledger!vars)
  <2>1. CASE Active(q)
    <3>0. "cancelled" \in Outcomes
      BY DEF Outcomes
    <3>1. status'[q] \in Outcomes /\ \A r \in Runs : r # q => status'[r] = status[r]
      BY <1>2, <1>t, <2>1, <3>0, FinishEnds DEF FinishCancelled, FinishExecutionRun
    <3> QED
      BY <1>2, <1>a, <1>r, <1>t, <2>1, <3>1, QuietSteps DEF FinishCancelled, TellInv
  <2>2. CASE ~ Active(q)
    BY <1>2, <1>r, <1>t, <2>2, QuietTells DEF FinishCancelled
  <2> QED
    BY <2>1, <2>2
<1>3. ASSUME NEW q \in Runs, ScheduleReentry(q)
      PROVE  TellInv' /\ [Ledger!Next]_(Ledger!vars)
  <2>1. reentries[q] = 0 /\ status[q] \in Outcomes /\ canceller[q] # "finished"
    BY <1>3 DEF ScheduleReentry, TellInv
  <2>2. TellInv'
    BY <1>3, <1>t, <2>1 DEF ScheduleReentry, StartReentry, TellInv, rowVars
  <2> QED
    BY <1>3, <1>b, <2>1, <2>2 DEF ScheduleReentry, StartReentry
<1>4. ASSUME NEW q \in Runs, ScheduleCancelReentry(q)
      PROVE  TellInv' /\ [Ledger!Next]_(Ledger!vars)
  <2>1. reentries[q] = 0 /\ status[q] \in Outcomes /\ task[q].pc # "finished"
    BY <1>4 DEF ScheduleCancelReentry, TellInv
  <2>2. TellInv'
    BY <1>4, <1>t, <2>1 DEF ScheduleCancelReentry, StartReentry, TellInv, rowVars
  <2> QED
    BY <1>4, <1>b, <2>1, <2>2 DEF ScheduleCancelReentry, StartReentry
<1>5. ASSUME NEW w \in Workers, FinishScheduled(w)
      PROVE  TellInv' /\ [Ledger!Next]_(Ledger!vars)
  <2> DEFINE q == worker[w].run
             s == worker[w].outcome
  <2>0. q \in Runs /\ s \in Outcomes
    BY <1>5 DEF FinishScheduled, TypeOK, WorkerTypeOK
  <2>1. FinishExecutionRun(q, s) /\ UNCHANGED apiVars
    BY <1>5 DEF FinishScheduled
  <2>2. CASE ~ Active(q)
    BY <1>5, <1>r, <2>1, <2>2, QuietTells DEF FinishScheduled, apiVars
  <2>3. CASE Active(q)
    <3>0. reentries' = [reentries EXCEPT ![q] = @ + 1]
      BY <1>5, <2>3 DEF FinishScheduled
    <3> HIDE DEF q, s
    <3>a. reentries[q] = 0
      BY <1>a, <2>0, <2>3
    <3>1. reentries' = [reentries EXCEPT ![q] = 1]
      BY <1>t, <2>0, <3>0, <3>a
    <3>2. /\ Ends[q] = "open" /\ Ends' = [Ends EXCEPT ![q] = s]
          /\ status'[q] = s /\ \A r \in Runs : r # q => status'[r] = status[r]
      BY <1>t, <2>0, <2>1, <2>3, FinishEnds DEF FinishExecutionRun
    <3>3. TellInv'
      BY <1>a, <1>t, <2>0, <2>1, <2>3, <3>1, <3>2 DEF TellInv, apiVars
    <3> QED
      BY <2>0, <3>a, <3>1, <3>2, <3>3 DEF Ends, Ledger!Next, Ledger!EndAndTell
  <2> QED
    BY <2>2, <2>3
<1>6. CASE
      \/ \E k \in DetachedKeys, q \in Runs : DispatchExecution(k, q)
      \/ \E q \in Runs : RegisterTask(q) \/ ClaimDetached(q)
      \/ \E q \in Runs, o \in GoalOutcomes : DetachedGoalEnds(q, o)
      \/ \E q \in Runs : RequestCancellation(q)
      \/ \E q \in Runs : ReenterInteraction(q)
      \/ ApiCrash \/ ApiStart
      \/ \E q \in Runs : DetachedDbFault(q) \/ TimeoutPasses(q)
  <2>1. UNCHANGED reentries
    BY <1>6 DEF DispatchExecution, RegisterTask, ClaimDetached, DetachedGoalEnds,
       RequestCancellation, ReenterInteraction, ApiCrash, ApiStart,
       DetachedDbFault, TimeoutPasses
  <2>2. \A r \in Runs : task'[r].pc = "finished" => task[r].pc = "finished"
    <3> DEFINE Keeps == \A r \in Runs : task'[r].pc = "finished" => task[r].pc = "finished"
    <3>1. ASSUME NEW k \in DetachedKeys, NEW q \in Runs, DispatchExecution(k, q) PROVE Keeps
      BY <1>t, <3>1 DEF DispatchExecution
    <3>2. ASSUME NEW q \in Runs, RegisterTask(q) \/ ClaimDetached(q) PROVE Keeps
      BY <1>t, <3>2 DEF RegisterTask, ClaimDetached
    <3>3. ASSUME NEW q \in Runs, NEW o \in GoalOutcomes, DetachedGoalEnds(q, o) PROVE Keeps
      BY <1>t, <3>3 DEF DetachedGoalEnds
    <3>4. ASSUME NEW q \in Runs, DetachedDbFault(q) PROVE Keeps
      BY <1>t, <3>4 DEF DetachedDbFault
    <3>5. CASE ApiCrash
      BY <1>t, <3>5 DEF ApiCrash, LoseTask
    <3>6. CASE UNCHANGED task
      BY <3>6
    <3> QED
      BY <1>6, <3>1, <3>2, <3>3, <3>4, <3>5, <3>6 DEF RequestCancellation,
         ReenterInteraction, ApiStart, TimeoutPasses, apiVars
  <2>3. \A r \in Runs : canceller'[r] = "finished" => canceller[r] = "finished"
    BY <1>6, <1>t DEF DispatchExecution, RegisterTask, ClaimDetached, DetachedGoalEnds,
       RequestCancellation, ReenterInteraction, ApiCrash,
       ApiStart, DetachedDbFault, TimeoutPasses, apiVars
  <2> QED
    BY <1>r, <2>1, <2>2, <2>3, QuietTells
<1>7. CASE
      \/ \E w \in Workers, k \in ScheduledKeys : WakeUpScheduled(w, k)
      \/ \E w \in Workers : CreateScheduled(w) \/ ReclaimScheduled(w) \/ ClaimScheduled(w)
      \/ \E w \in Workers, o \in GoalOutcomes : ScheduledGoalEnds(w, o)
      \/ \E w \in Workers : ReenterScheduled(w)
      \/ \E w \in Workers : SkipScheduled(w) \/ CheckScheduled(w) \/ WorkerFault(w)
      \/ UNCHANGED vars
  <2>1. UNCHANGED <<apiVars, reentries>>
    BY <1>7 DEF SkipScheduled, WakeUpScheduled, CreateScheduled, ReclaimScheduled, ClaimScheduled,
       ScheduledGoalEnds, ReenterScheduled, CheckScheduled, WorkerFault, vars
  <2> QED
    BY <1>r, <2>1, QuietTells DEF apiVars
<1>8. ASSUME NEW q \in Runs, CancelTask(q)
      PROVE  TellInv' /\ [Ledger!Next]_(Ledger!vars)
  <2>1. \A t \in AfterCancel(task[q]) : t.pc = "finished" => task[q].pc = "finished"
    BY <1>t DEF AfterCancel
  <2>2. \A r \in Runs : task'[r].pc = "finished" => task[r].pc = "finished"
    BY <1>8, <1>t, <2>1 DEF CancelTask
  <2>3. \A r \in Runs : canceller'[r] = "finished" => canceller[r] = "finished"
    BY <1>8, <1>t DEF CancelTask
  <2> QED
    BY <1>8, <1>r, <2>2, <2>3, QuietTells DEF CancelTask
<1> QED
  BY <1>1, <1>2, <1>3, <1>4, <1>5, <1>6, <1>7, <1>8 DEF Next, DetachedStep, CancelStep,
     WorkerStep

\* Whoever races to end a run - the task, the finalizer, the workers, the sweep -
\* each run ends once, keeps its end, and that end is told at most once and never
\* before it is final: every behaviour of the runs is one of RunLedger.
THEOREM ImplementsTheLedger == Spec => KeepsTheLedger
<1>1. Init => Ledger!Init /\ TellInv
  BY DEF Init, Ledger!Init, TellInv, EndOf, NoTask, Outcomes
<1>2. TypeOK /\ TellInv /\ [Next]_vars => TellInv' /\ [Ledger!Next]_(Ledger!vars)
  BY LedgerSteps
<1> QED
  BY <1>1, <1>2, TypeCorrect, PTL DEF Spec, KeepsTheLedger, Ledger!Spec

-----------------------------------------------------------------------------
(***************************************************************************)
(* One row for an occurrence.  The read of the newest row and the insert   *)
(* are two transactions, so two workers that are both awake for one        *)
(* occurrence may both insert, the second after the first one's run has    *)
(* ended.  The hypothesis excludes just that: it is what claim_job gives   *)
(* while no lock goes stale (OneWorkerPerJob of JobQueue), whatever the    *)
(* number of workers, and what a single worker gives always.               *)
(***************************************************************************)
AloneAtWakeUp ==
    \A v, w \in Workers :
        worker[v].pc # "idle" /\ worker[w].pc # "idle" /\ worker[v].key = worker[w].key
        => v = w

RowsInv ==
    \A k \in ScheduledKeys :
        /\ \A q, r \in RowsOf(k) : q = r
        /\ \A w \in Workers : worker[w].pc = "creating" /\ worker[w].key = k => RowsOf(k) = {}

QuietRows ==
    /\ \A r \in Runs : status'[r] = "none" <=> status[r] = "none"
    /\ UNCHANGED dedupeKey
CreatesFor(w, r) ==
    /\ worker[w].pc = "creating"
    /\ CreateExecutionRun(r, worker[w].key)
    /\ worker' = [worker EXCEPT ![w].pc = "queued", ![w].run = r]

\* Only a dispatch and a worker that is creating add a row.
LEMMA NewRows ==
    ASSUME TypeOK, [Next]_vars
    PROVE  \/ QuietRows
           \/ \E k \in DetachedKeys, r \in Runs : CreateExecutionRun(r, k) /\ UNCHANGED worker
           \/ \E w \in Workers, r \in Runs : CreatesFor(w, r)
<1>s. status \in [Runs -> ActiveStatuses \cup TerminalStatuses \cup {"none"}]
  BY DEF TypeOK, RowTypeOK
<1>0. ASSUME UNCHANGED <<status, dedupeKey>> PROVE QuietRows
  BY <1>0 DEF QuietRows
<1>1. ASSUME NEW k \in DetachedKeys, NEW r \in Runs, DispatchExecution(k, r)
      PROVE  CreateExecutionRun(r, k) /\ UNCHANGED worker
  BY <1>1 DEF DispatchExecution, workerVars
<1>2. ASSUME NEW r \in Runs, Claimable(r), ClaimExecutionRun(r) PROVE QuietRows
  BY <1>s, <1>2 DEF Claimable, ClaimExecutionRun, QuietRows
<1>3. ASSUME NEW r \in Runs, NEW o \in Outcomes, FinishExecutionRun(r, o) PROVE QuietRows
  BY <1>s, <1>3 DEF FinishExecutionRun, Finishable, Active, ActiveStatuses, Outcomes, QuietRows
<1>4. ASSUME NEW r \in Runs, RequestCancellation(r) PROVE QuietRows
  BY <1>s, <1>4 DEF RequestCancellation, Cancellable, RequestExecutionCancellation, QuietRows
<1>5. ASSUME NEW r \in Runs, Reclaimable(r), ReclaimExecutionRunForRetry(r) PROVE QuietRows
  BY <1>s, <1>5 DEF Reclaimable, ReclaimExecutionRunForRetry, QuietRows
<1>6. CASE ApiStart
  BY <1>s, <1>6 DEF ApiStart, Stale, QuietRows
<1>7. ASSUME NEW r \in Runs, TimeoutPasses(r) PROVE QuietRows
  BY <1>7 DEF TimeoutPasses, QuietRows
<1>8. ASSUME NEW r \in Runs, DetachedStep(r) PROVE QuietRows
  <2>1. task[r].outcome \in Outcomes
    BY DEF TypeOK, TaskTypeOK
  <2> QED
    BY <1>0, <1>2, <1>3, <1>8, <2>1 DEF DetachedStep, RegisterTask, ClaimDetached,
       DetachedGoalEnds, FinishDetached, ScheduleReentry, rowVars
<1>9. ASSUME NEW r \in Runs, CancelStep(r) PROVE QuietRows
  BY <1>0, <1>3, <1>9 DEF CancelStep, CancelTask, FinishCancelled, ScheduleCancelReentry,
     Outcomes, rowVars
<1>10. ASSUME NEW w \in Workers, WorkerStep(w), ~ CreateScheduled(w) PROVE QuietRows
  <2>1. worker[w].outcome \in Outcomes
    BY DEF TypeOK, WorkerTypeOK
  <2>2. worker[w].pc \in {"reclaiming", "queued", "finishing"} => worker[w].run \in Runs
    BY DEF TypeOK, WorkerTypeOK
  <2>3. ASSUME ReclaimScheduled(w) PROVE QuietRows
    BY <1>0, <1>5, <2>2, <2>3 DEF ReclaimScheduled, rowVars
  <2>4. ASSUME ClaimScheduled(w) PROVE QuietRows
    BY <1>0, <1>2, <2>2, <2>4 DEF ClaimScheduled, rowVars
  <2>5. ASSUME FinishScheduled(w) PROVE QuietRows
    BY <1>3, <2>1, <2>2, <2>5 DEF FinishScheduled
  <2> QED
    BY <1>0, <1>10, <2>3, <2>4, <2>5 DEF WorkerStep, SkipScheduled, ScheduledGoalEnds, ReenterScheduled,
       CheckScheduled, rowVars
<1>11. ASSUME NEW w \in Workers, CreateScheduled(w)
       PROVE  QuietRows \/ \E r \in Runs : CreatesFor(w, r)
  BY <1>0, <1>11 DEF CreateScheduled, CreatesFor, rowVars, RowsOf
<1>12. CASE \/ \E r \in Runs : ReenterInteraction(r)
            \/ \E w \in Workers, k \in ScheduledKeys : WakeUpScheduled(w, k)
            \/ ApiCrash
            \/ \E r \in Runs : DetachedDbFault(r)
            \/ \E w \in Workers : WorkerFault(w)
            \/ UNCHANGED vars
  BY <1>0, <1>12 DEF ReenterInteraction, WakeUpScheduled, ApiCrash, DetachedDbFault,
     WorkerFault, vars, rowVars
<1> QED
  BY <1>1, <1>4, <1>6, <1>7, <1>8, <1>9, <1>10, <1>11, <1>12 DEF Next

\* A worker goes on to create a row only from a read that found none.
LEMMA Creators ==
    ASSUME TypeOK, [Next]_vars, NEW w \in Workers, worker'[w].pc = "creating"
    PROVE  \/ worker'[w] = worker[w]
           \/ ~ HasRow(worker'[w].key) /\ UNCHANGED <<status, dedupeKey>>
<1>w. worker \in [Workers -> [pc : WorkerStates, run : Runs \cup {NoRun},
                              key : Keys \cup {NoKey}, outcome : Outcomes]]
  BY DEF TypeOK, WorkerTypeOK
<1>1. ASSUME NEW v \in Workers, NEW k \in ScheduledKeys, WakeUpScheduled(v, k)
      PROVE  \/ worker'[w] = worker[w]
             \/ ~ HasRow(worker'[w].key) /\ UNCHANGED <<status, dedupeKey>>
  <2>1. CASE v = w
    BY <1>1, <1>w, <2>1 DEF WakeUpScheduled, rowVars
  <2>2. CASE v # w
    BY <1>1, <1>w, <2>2 DEF WakeUpScheduled
  <2> QED
    BY <2>1, <2>2
<1>2. ASSUME NEW v \in Workers, NEW new, worker' = [worker EXCEPT ![v] = new],
             new.pc # "creating"
      PROVE  worker'[w] = worker[w]
  BY <1>2, <1>w
<1>3. ASSUME NEW v \in Workers, WorkerStep(v) \/ WorkerFault(v)
      PROVE  worker'[w] = worker[w]
  <2>1. CASE worker' = [worker EXCEPT ![v] = IdleWorker]
    BY <1>2, <2>1 DEF IdleWorker
  <2>2. ASSUME NEW pc \in WorkerStates \ {"creating"}, worker' = [worker EXCEPT ![v].pc = pc]
        PROVE  worker'[w] = worker[w]
    BY <1>w, <2>2
  <2>3. ASSUME NEW r \in Runs, worker' = [worker EXCEPT ![v].pc = "queued", ![v].run = r]
        PROVE  worker'[w] = worker[w]
    BY <1>w, <2>3
  <2>4. CASE CreateScheduled(v)
    BY <2>1, <2>3, <2>4 DEF CreateScheduled, RowsOf
  <2>5. ASSUME NEW o \in GoalOutcomes, ScheduledGoalEnds(v, o) PROVE worker'[w] = worker[w]
    BY <1>w, <2>5 DEF ScheduledGoalEnds
  <2>6. CASE \/ ReclaimScheduled(v) \/ ClaimScheduled(v) \/ FinishScheduled(v)
             \/ ReenterScheduled(v) \/ CheckScheduled(v) \/ SkipScheduled(v)
             \/ WorkerFault(v)
    BY <2>1, <2>2, <2>6 DEF SkipScheduled, ReclaimScheduled, ClaimScheduled, FinishScheduled,
       ReenterScheduled, CheckScheduled, WorkerFault, WorkerStates
  <2> QED
    BY <1>3, <2>4, <2>5, <2>6 DEF WorkerStep
<1>4. CASE
       \/ \E k \in DetachedKeys, r \in Runs : DispatchExecution(k, r)
       \/ \E r \in Runs : DetachedStep(r) \/ RequestCancellation(r) \/ CancelStep(r)
       \/ \E r \in Runs : ReenterInteraction(r)
       \/ \E r \in Runs : TimeoutPasses(r) \/ DetachedDbFault(r)
       \/ ApiCrash \/ ApiStart
       \/ UNCHANGED vars
  BY <1>4 DEF DispatchExecution, DetachedStep, RegisterTask, ClaimDetached,
     DetachedGoalEnds, FinishDetached, ScheduleReentry, RequestCancellation, CancelStep,
     CancelTask, FinishCancelled, ScheduleCancelReentry, ReenterInteraction, TimeoutPasses,
     DetachedDbFault, ApiCrash, ApiStart, vars, workerVars
<1> QED
  BY <1>1, <1>3, <1>4 DEF Next

LEMMA RowsStep == TypeOK /\ AloneAtWakeUp /\ RowsInv /\ [Next]_vars => RowsInv'
<1> SUFFICES ASSUME TypeOK, AloneAtWakeUp, RowsInv, [Next]_vars, NEW k \in ScheduledKeys
             PROVE  /\ \A q, r \in RowsOf(k)' : q = r
                    /\ \A w \in Workers :
                         worker'[w].pc = "creating" /\ worker'[w].key = k => RowsOf(k)' = {}
  BY DEF RowsInv
<1>t. dedupeKey \in [Runs -> Keys \cup {NoKey}] /\ status \in [Runs -> ActiveStatuses \cup TerminalStatuses \cup {"none"}]
  BY DEF TypeOK, RowTypeOK
<1>1. CASE RowsOf(k)' = RowsOf(k)
  <2>1. ASSUME NEW w \in Workers, worker'[w].pc = "creating", worker'[w].key = k
        PROVE  RowsOf(k)' = {}
    BY <1>1, <2>1, Creators DEF RowsInv, HasRow
  <2> QED
    BY <1>1, <2>1 DEF RowsInv
<1>2. CASE QuietRows
  <2>1. RowsOf(k)' = RowsOf(k)
    BY <1>2 DEF QuietRows, RowsOf
  <2> QED
    BY <1>1, <2>1
<1>3. ASSUME NEW d \in Keys, NEW r \in Runs, CreateExecutionRun(r, d)
      PROVE  RowsOf(k)' = IF d = k THEN RowsOf(k) \cup {r} ELSE RowsOf(k)
  <2>1. /\ status[r] = "none" /\ status'[r] = "pending" /\ dedupeKey'[r] = d
        /\ \A q \in Runs : q # r => status'[q] = status[q] /\ dedupeKey'[q] = dedupeKey[q]
    BY <1>3, <1>t DEF CreateExecutionRun, NextRow
  <2> QED
    BY <2>1 DEF RowsOf
<1>4. ASSUME NEW d \in DetachedKeys, NEW r \in Runs, CreateExecutionRun(r, d)
      PROVE  RowsOf(k)' = RowsOf(k)
  BY <1>3, <1>4, KeysAssumption DEF Keys
<1>5. ASSUME NEW w \in Workers, NEW r \in Runs, CreatesFor(w, r)
      PROVE  /\ \A p, q \in RowsOf(k)' : p = q
             /\ \A v \in Workers :
                  worker'[v].pc = "creating" /\ worker'[v].key = k => RowsOf(k)' = {}
  <2>1. worker[w].key \in ScheduledKeys
    BY <1>5 DEF CreatesFor, TypeOK, WorkerTypeOK
  <2>2. CASE worker[w].key # k
    <3>1. RowsOf(k)' = RowsOf(k)
      BY <1>3, <1>5, <2>1, <2>2 DEF CreatesFor, Keys
    <3> QED
      BY <1>1, <3>1
  <2>3. CASE worker[w].key = k
    <3>1. RowsOf(k) = {}
      BY <1>5, <2>3 DEF RowsInv, CreatesFor
    <3>2. RowsOf(k)' = {r}
      BY <1>3, <1>5, <2>1, <2>3, <3>1 DEF CreatesFor, Keys
    <3>3. ASSUME NEW v \in Workers, worker'[v].pc = "creating", worker'[v].key = k PROVE FALSE
      <4>1. v # w /\ worker'[v] = worker[v]
        BY <1>5, <3>3 DEF CreatesFor, TypeOK, WorkerTypeOK
      <4> QED
        BY <1>5, <2>3, <3>3, <4>1 DEF CreatesFor, AloneAtWakeUp
    <3> QED
      BY <3>2, <3>3
  <2> QED
    BY <2>2, <2>3
<1> QED
  BY <1>1, <1>2, <1>4, <1>5, NewRows

\* While no two workers are awake for the same occurrence, no retry after a crash, a
\* cancellation or a failed call creates a second run for it, whatever the number of
\* workers (run_scheduled_execution).
THEOREM OneRowWhileAlone == Spec /\ []AloneAtWakeUp => []OneRowPerOccurrence
<1>1. Init => RowsInv
  BY DEF Init, RowsInv, RowsOf
<1>2. RowsInv => OneRowPerOccurrence
  <2> SUFFICES ASSUME RowsInv, NEW k \in ScheduledKeys PROVE Cardinality(RowsOf(k)) <= 1
    BY DEF OneRowPerOccurrence
  <2>1. CASE RowsOf(k) = {}
    BY <2>1, FS_EmptySet
  <2>2. ASSUME NEW r \in RowsOf(k) PROVE Cardinality(RowsOf(k)) <= 1
    <3>1. RowsOf(k) = {r}
      BY <2>2 DEF RowsInv
    <3> QED
      BY <3>1, FS_Singleton
  <2> QED
    BY <2>1, <2>2
<1> QED
  BY <1>1, <1>2, RowsStep, TypeCorrect, PTL DEF Spec

\* A deployment with one worker needs no hypothesis about time: no second row, ever.
THEOREM OneRowWithOneWorker ==
    ASSUME \A v, w \in Workers : v = w
    PROVE  Spec => []OneRowPerOccurrence
<1>1. AloneAtWakeUp
  BY DEF AloneAtWakeUp
<1> QED
  BY <1>1, OneRowWhileAlone, PTL

=============================================================================
