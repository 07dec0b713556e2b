--------------------------- MODULE JobQueue_proofs ---------------------------
(***************************************************************************)
(* Theorems about JobQueue, for every number of jobs, workers, attempts    *)
(* and faults.                                                             *)
(***************************************************************************)
EXTENDS JobQueue, TLAPS

-----------------------------------------------------------------------------
\* What SettleJob writes, whichever of its callers it is.
LEMMA SettleTypes ==
    ASSUME QueueTypeOK, NEW w \in Workers, Busy(w),
           NEW s \in {"done", "dead", "pending"}, NEW n \in Nat, NEW d \in BOOLEAN,
           SettleJob(w, s, n, d)
    PROVE  QueueTypeOK'
<1>1. worker[w].job \in Jobs
  BY DEF QueueTypeOK, ColumnsTypeOK
<1>2. /\ jobStatus' \in [Jobs -> JobStatuses]
      /\ attempts' \in [Jobs -> Nat]
      /\ lock' \in [Jobs -> Locks]
      /\ due' \in [Jobs -> BOOLEAN]
  <2>1. /\ jobStatus \in [Jobs -> JobStatuses]
        /\ attempts \in [Jobs -> Nat]
        /\ lock \in [Jobs -> Locks]
        /\ due \in [Jobs -> BOOLEAN]
    BY DEF QueueTypeOK, ColumnsTypeOK
  <2>2. CASE StillRunning(worker[w].job)
    BY <1>1, <2>1, <2>2 DEF SettleJob, JobStatuses, Locks
  <2>3. CASE ~ StillRunning(worker[w].job)
    BY <2>1, <2>3 DEF SettleJob, jobVars
  <2> QED
    BY <2>2, <2>3
<1>3. LockedWhileRunning'
  <2>1. CASE StillRunning(worker[w].job)
    BY <1>1, <2>1 DEF SettleJob, QueueTypeOK, ColumnsTypeOK, LockedWhileRunning
  <2>2. CASE ~ StillRunning(worker[w].job)
    BY <2>2 DEF SettleJob, jobVars, QueueTypeOK, LockedWhileRunning
  <2> QED
    BY <2>1, <2>2
<1>4. /\ worker' \in [Workers -> [pc : WorkerSteps, job : Jobs \cup {NoJob}, attempts : Nat]]
      /\ \A v \in Workers : Busy(v)' => worker'[v].job \in Jobs
  BY DEF SettleJob, QueueTypeOK, ColumnsTypeOK, Loop, WorkerSteps, Busy
<1>5. UNCHANGED <<claimed, heldTooLong, faults>>
  BY DEF SettleJob, historyVars
<1> QED
  BY <1>2, <1>3, <1>4, <1>5 DEF QueueTypeOK, ColumnsTypeOK

LEMMA TypeInit == Init => QueueTypeOK
<1> SUFFICES ASSUME Init PROVE QueueTypeOK
  OBVIOUS
<1>1. worker \in [Workers -> [pc : WorkerSteps, job : Jobs \cup {NoJob}, attempts : Nat]]
  BY DEF Init, Loop, WorkerSteps
<1>2. \A w \in Workers : ~ Busy(w)
  BY DEF Init, Loop, Busy
<1>3. ColumnsTypeOK
  BY <1>1, <1>2 DEF Init, ColumnsTypeOK, JobStatuses, Locks
<1>4. LockedWhileRunning
  BY DEF Init, LockedWhileRunning
<1> QED
  BY <1>3, <1>4 DEF QueueTypeOK

LEMMA TypeStep == QueueTypeOK /\ [Next]_queueVars => QueueTypeOK'
<1> SUFFICES ASSUME QueueTypeOK, [Next]_queueVars PROVE QueueTypeOK'
  OBVIOUS
<1> USE DEF jobVars, historyVars
<1>1. ASSUME NEW j \in Jobs, Enqueue(j) PROVE QueueTypeOK'
  BY <1>1 DEF Enqueue, QueueTypeOK, ColumnsTypeOK, LockedWhileRunning, JobStatuses, Busy
<1>2. ASSUME NEW j \in Jobs, TimeStep(j) PROVE QueueTypeOK'
  <2>1. CASE RunAtPasses(j)
    BY <2>1 DEF RunAtPasses, QueueTypeOK, ColumnsTypeOK, LockedWhileRunning, Busy
  <2>2. CASE LockAges(j)
    BY <2>2 DEF LockAges, QueueTypeOK, ColumnsTypeOK, LockedWhileRunning, Locks, Busy
  <2> QED
    BY <1>2, <2>1, <2>2 DEF TimeStep
<1>3. ASSUME NEW w \in Workers, StartWorker(w) PROVE QueueTypeOK'
  <2>1. /\ jobStatus' \in [Jobs -> JobStatuses]
        /\ attempts' \in [Jobs -> Nat]
        /\ lock' \in [Jobs -> Locks]
    BY <1>3 DEF StartWorker, RecoverStaleJobs, QueueTypeOK, ColumnsTypeOK, JobStatuses, Locks
  <2>2. LockedWhileRunning'
    BY <1>3 DEF StartWorker, RecoverStaleJobs, QueueTypeOK, ColumnsTypeOK,
                LockedWhileRunning, Recoverable
  <2>3. /\ worker' \in [Workers -> [pc : WorkerSteps, job : Jobs \cup {NoJob}, attempts : Nat]]
        /\ \A v \in Workers : Busy(v)' => worker'[v].job \in Jobs
    BY <1>3 DEF StartWorker, QueueTypeOK, ColumnsTypeOK, Loop, WorkerSteps, Busy
  <2>4. UNCHANGED <<due, claimed, heldTooLong, faults>>
    BY <1>3 DEF StartWorker, RecoverStaleJobs
  <2> QED
    BY <2>1, <2>2, <2>3, <2>4 DEF QueueTypeOK, ColumnsTypeOK
<1>4. ASSUME NEW w \in Workers, NEW j \in Jobs, ClaimJob(w, j) PROVE QueueTypeOK'
  <2>1. /\ worker' \in [Workers -> [pc : WorkerSteps, job : Jobs \cup {NoJob}, attempts : Nat]]
        /\ \A v \in Workers : Busy(v)' => worker'[v].job \in Jobs
    BY <1>4 DEF ClaimJob, QueueTypeOK, ColumnsTypeOK, WorkerSteps, Busy
  <2>2. /\ jobStatus' \in [Jobs -> JobStatuses]
        /\ lock' \in [Jobs -> Locks]
        /\ claimed' \in [Jobs -> BOOLEAN]
    BY <1>4 DEF ClaimJob, QueueTypeOK, ColumnsTypeOK, JobStatuses, Locks
  <2>3. LockedWhileRunning'
    BY <1>4 DEF ClaimJob, QueueTypeOK, ColumnsTypeOK, LockedWhileRunning
  <2>4. UNCHANGED <<attempts, due, heldTooLong, faults>>
    BY <1>4 DEF ClaimJob
  <2> QED
    BY <2>1, <2>2, <2>3, <2>4 DEF QueueTypeOK, ColumnsTypeOK
<1>5. ASSUME NEW w \in Workers, NEW ok \in BOOLEAN, HandlerReturns(w, ok),
             faults' \in Nat
      PROVE  QueueTypeOK'
  BY <1>5 DEF HandlerReturns, QueueTypeOK, ColumnsTypeOK, LockedWhileRunning, WorkerSteps, Busy
<1>6. ASSUME NEW w \in Workers, CompleteJob(w) PROVE QueueTypeOK'
  <2>1. Busy(w) /\ worker[w].job \in Jobs
    BY <1>6 DEF CompleteJob, Busy, QueueTypeOK, ColumnsTypeOK
  <2> QED
    BY <1>6, <2>1, SettleTypes DEF CompleteJob, QueueTypeOK, ColumnsTypeOK
<1>7. ASSUME NEW w \in Workers, DeadLetter(w) PROVE QueueTypeOK'
  <2>1. Busy(w) /\ worker[w].job \in Jobs /\ worker[w].attempts + 1 \in Nat
    BY <1>7 DEF DeadLetter, Busy, QueueTypeOK, ColumnsTypeOK
  <2> QED
    BY <1>7, <2>1, SettleTypes DEF DeadLetter, QueueTypeOK, ColumnsTypeOK
<1>8. ASSUME NEW w \in Workers, ReadFailed(w) PROVE QueueTypeOK'
  <2>1. worker[w].job \in Jobs
    BY <1>8 DEF ReadFailed, Busy, QueueTypeOK, ColumnsTypeOK
  <2>2. /\ worker' \in [Workers -> [pc : WorkerSteps, job : Jobs \cup {NoJob}, attempts : Nat]]
        /\ \A v \in Workers : Busy(v)' => worker'[v].job \in Jobs
    BY <1>8, <2>1 DEF ReadFailed, QueueTypeOK, ColumnsTypeOK, Loop, WorkerSteps, Busy
  <2> QED
    BY <1>8, <2>2 DEF ReadFailed, QueueTypeOK, ColumnsTypeOK, LockedWhileRunning
<1>9. ASSUME NEW w \in Workers, FailJob(w) PROVE QueueTypeOK'
  <2>1. Busy(w) /\ worker[w].attempts + 1 \in Nat
    BY <1>9 DEF FailJob, Busy, QueueTypeOK, ColumnsTypeOK
  <2> QED
    BY <1>9, <2>1, SettleTypes DEF FailJob
<1>10. ASSUME NEW w \in Workers, WorkerCrash(w) PROVE QueueTypeOK'
  <2>1. faults' \in Nat
    BY <1>10 DEF WorkerCrash, Fault, QueueTypeOK, ColumnsTypeOK
  <2> QED
    BY <1>10, <2>1 DEF WorkerCrash, QueueTypeOK, ColumnsTypeOK, LockedWhileRunning, Loop,
                       WorkerSteps, Busy
<1>11. CASE UNCHANGED queueVars
  BY <1>11 DEF queueVars, QueueTypeOK, ColumnsTypeOK, LockedWhileRunning, Busy
<1>12. ASSUME NEW w \in Workers, HandlerFaults(w) PROVE QueueTypeOK'
  <2>1. faults' \in Nat
    BY <1>12 DEF HandlerFaults, Fault, QueueTypeOK, ColumnsTypeOK
  <2> QED
    BY <1>5, <1>12, <2>1 DEF HandlerFaults
<1>13. ASSUME NEW w \in Workers, NEW ok \in BOOLEAN, HandlerEnds(w, ok) PROVE QueueTypeOK'
  <2>1. faults' \in Nat
    BY <1>13 DEF HandlerEnds, QueueTypeOK, ColumnsTypeOK
  <2> QED
    BY <1>5, <1>13, <2>1 DEF HandlerEnds
<1> QED
  BY <1>1, <1>2, <1>3, <1>4, <1>6, <1>7, <1>8, <1>9, <1>10, <1>11, <1>12, <1>13
  DEF Next, LoopStep

\* Every column and every loop holds what it can hold, and a job has a lock exactly
\* while it runs, however the workers interleave (db/jobs.py, worker/loop.py).
THEOREM TypeCorrect == Spec => []QueueTypeOK
<1> QED
  BY TypeInit, TypeStep, PTL DEF Spec

-----------------------------------------------------------------------------
\* The inductive invariant of the safety properties.
NewIsUntouched == \A j \in Jobs : jobStatus[j] = "none" => ~ claimed[j] /\ attempts[j] = 0
StaleWasHeld == \A j \in Jobs : lock[j] = "stale" => heldTooLong[j]
BusyRuns ==
    \A w \in Workers :
        Busy(w) /\ ~ heldTooLong[worker[w].job] => jobStatus[worker[w].job] = "running"
QueueInv ==
    /\ NewIsUntouched
    /\ StaleWasHeld
    /\ BusyRuns
    /\ OneWorkerPerJob
    /\ RetryIsMarked
    /\ ExhaustedIsDead

LEMMA InvInit == Init => QueueInv
<1> SUFFICES ASSUME Init PROVE QueueInv
  OBVIOUS
<1>1. \A w \in Workers : ~ Busy(w)
  BY DEF Init, Loop, Busy
<1>2. \A j \in Jobs : jobStatus[j] = "none" /\ ~ claimed[j] /\ attempts[j] = 0 /\ lock[j] = "null"
  BY DEF Init
<1> QED
  BY <1>1, <1>2 DEF QueueInv, NewIsUntouched, StaleWasHeld, BusyRuns, OneWorkerPerJob,
                    RetryIsMarked, ExhaustedIsDead

\* A step that changes no row and gives no worker a job keeps the invariant.
LEMMA InvQuiet ==
    ASSUME QueueInv, UNCHANGED <<jobStatus, attempts, lock, claimed, heldTooLong>>,
           \A v \in Workers : Busy(v)' => Busy(v) /\ worker'[v].job = worker[v].job
    PROVE  QueueInv'
<1>1. (NewIsUntouched /\ StaleWasHeld)'
  BY DEF QueueInv, NewIsUntouched, StaleWasHeld
<1>2. (RetryIsMarked /\ ExhaustedIsDead)'
  BY DEF QueueInv, RetryIsMarked, ExhaustedIsDead
<1>3. BusyRuns'
  BY DEF QueueInv, BusyRuns
<1>4. OneWorkerPerJob'
  BY DEF QueueInv, OneWorkerPerJob
<1> QED
  BY <1>1, <1>2, <1>3, <1>4 DEF QueueInv

\* A worker that settles its job lets go of it, and every other worker that is
\* busy with it was given it after its lock had gone stale.
LEMMA InvSettle ==
    ASSUME QueueTypeOK, QueueInv, NEW w \in Workers, Busy(w),
           NEW s \in {"done", "dead", "pending"}, NEW n \in Nat, NEW d,
           SettleJob(w, s, n, d),
           s = "pending" => n > 0 /\ n < MaxAttempts
    PROVE  QueueInv'
<1> DEFINE j == worker[w].job
<1>1. j \in Jobs
  BY DEF QueueTypeOK, ColumnsTypeOK
<1>2. \A v \in Workers : Busy(v)' => v # w /\ Busy(v) /\ worker'[v].job = worker[v].job
  BY DEF SettleJob, QueueTypeOK, ColumnsTypeOK, Loop, Busy
<1>3. UNCHANGED <<claimed, heldTooLong>>
  BY DEF SettleJob, historyVars
<1>4. CASE ~ StillRunning(j)
  BY <1>2, <1>3, <1>4, InvQuiet DEF SettleJob, jobVars
<1>5. CASE StillRunning(j)
  <2>1. /\ jobStatus' = [jobStatus EXCEPT ![j] = s]
        /\ attempts' = [attempts EXCEPT ![j] = n]
        /\ lock' = [lock EXCEPT ![j] = "null"]
    BY <1>5 DEF SettleJob
  <2>2. /\ jobStatus \in [Jobs -> JobStatuses]
        /\ attempts \in [Jobs -> Nat]
        /\ lock \in [Jobs -> Locks]
    BY DEF QueueTypeOK, ColumnsTypeOK
  <2>3. NewIsUntouched'
    BY <1>1, <1>3, <2>1, <2>2 DEF QueueInv, NewIsUntouched
  <2>4. StaleWasHeld'
    BY <1>1, <1>3, <2>1, <2>2 DEF QueueInv, StaleWasHeld
  <2>5. BusyRuns'
    <3> SUFFICES ASSUME NEW v \in Workers, Busy(v)', ~ heldTooLong'[worker'[v].job]
                 PROVE  jobStatus'[worker'[v].job] = "running"
      BY DEF BusyRuns
    <3>1. v # w /\ Busy(v) /\ worker'[v].job = worker[v].job /\ ~ heldTooLong[worker[v].job]
      BY <1>2, <1>3
    <3>2. worker[v].job # j
      BY <3>1 DEF QueueInv, OneWorkerPerJob
    <3>3. jobStatus[worker[v].job] = "running"
      BY <3>1 DEF QueueInv, BusyRuns
    <3> QED
      BY <2>1, <3>1, <3>2, <3>3
  <2>6. OneWorkerPerJob'
    BY <1>2, <1>3 DEF QueueInv, OneWorkerPerJob
  <2>7. RetryIsMarked'
    BY <1>1, <1>3, <2>1, <2>2 DEF QueueInv, RetryIsMarked
  <2>8. ExhaustedIsDead'
    BY <1>1, <1>3, <2>1, <2>2 DEF QueueInv, ExhaustedIsDead
  <2> QED
    BY <2>3, <2>4, <2>5, <2>6, <2>7, <2>8 DEF QueueInv
<1> QED
  BY <1>4, <1>5

LEMMA InvRecover ==
    ASSUME QueueTypeOK, QueueInv, NEW w \in Workers, StartWorker(w)
    PROVE  QueueInv'
<1>1. \A v \in Workers : Busy(v)' => Busy(v) /\ worker'[v].job = worker[v].job
  BY DEF StartWorker, QueueTypeOK, ColumnsTypeOK, Loop, Busy
<1>2. UNCHANGED <<claimed, heldTooLong>>
  BY DEF StartWorker, RecoverStaleJobs, historyVars
<1>3. \A j \in Jobs :
        \/ UNCHANGED <<jobStatus[j], attempts[j], lock[j]>>
        \/ /\ jobStatus'[j] = "pending"
           /\ attempts'[j] = attempts[j] + 1
           /\ lock'[j] = "null"
           /\ heldTooLong[j]
  BY DEF StartWorker, RecoverStaleJobs, Recoverable, QueueInv, StaleWasHeld
<1>4. \A j \in Jobs : attempts[j] \in Nat
  BY DEF QueueTypeOK, ColumnsTypeOK
<1>5. (NewIsUntouched /\ StaleWasHeld)'
  BY <1>2, <1>3 DEF QueueInv, NewIsUntouched, StaleWasHeld
<1>6. BusyRuns'
  BY <1>1, <1>2, <1>3 DEF QueueInv, BusyRuns, QueueTypeOK, ColumnsTypeOK
<1>7. OneWorkerPerJob'
  BY <1>1, <1>2 DEF QueueInv, OneWorkerPerJob
<1>8. (RetryIsMarked /\ ExhaustedIsDead)'
  BY <1>2, <1>3, <1>4 DEF QueueInv, RetryIsMarked, ExhaustedIsDead
<1> QED
  BY <1>5, <1>6, <1>7, <1>8 DEF QueueInv

LEMMA InvClaim ==
    ASSUME QueueTypeOK, QueueInv, NEW w \in Workers, NEW j \in Jobs, ClaimJob(w, j)
    PROVE  QueueInv'
<1>1. /\ worker'[w].job = j
      /\ \A v \in Workers :
           Busy(v)' => v = w \/ (Busy(v) /\ worker'[v].job = worker[v].job)
  BY DEF ClaimJob, QueueTypeOK, ColumnsTypeOK, Busy
<1>2. /\ jobStatus' = [jobStatus EXCEPT ![j] = "running"]
      /\ jobStatus \in [Jobs -> JobStatuses]
      /\ jobStatus[j] = "pending"
  BY DEF ClaimJob, QueueTypeOK, ColumnsTypeOK
<1>3. /\ lock' = [lock EXCEPT ![j] = "fresh"]
      /\ lock \in [Jobs -> Locks]
      /\ claimed' = [claimed EXCEPT ![j] = TRUE]
      /\ claimed \in [Jobs -> BOOLEAN]
      /\ UNCHANGED <<attempts, heldTooLong>>
  BY DEF ClaimJob, QueueTypeOK, ColumnsTypeOK
<1>4. NewIsUntouched'
  BY <1>2, <1>3 DEF QueueInv, NewIsUntouched
<1>5. StaleWasHeld'
  BY <1>3 DEF QueueInv, StaleWasHeld
<1>6. \A v \in Workers : Busy(v) /\ worker[v].job = j => heldTooLong[j]
  BY <1>2 DEF QueueInv, BusyRuns
<1>7. BusyRuns'
  BY <1>1, <1>2, <1>3 DEF QueueInv, BusyRuns, QueueTypeOK, ColumnsTypeOK
<1>8. OneWorkerPerJob'
  BY <1>1, <1>3, <1>6 DEF QueueInv, OneWorkerPerJob
<1>9. RetryIsMarked'
  BY <1>2, <1>3 DEF QueueInv, RetryIsMarked
<1>10. ExhaustedIsDead'
  BY <1>2, <1>3 DEF QueueInv, ExhaustedIsDead
<1> QED
  BY <1>4, <1>5, <1>7, <1>8, <1>9, <1>10 DEF QueueInv

LEMMA InvStep == QueueTypeOK /\ QueueInv /\ [Next]_queueVars => QueueInv'
<1> SUFFICES ASSUME QueueTypeOK, QueueInv, [Next]_queueVars PROVE QueueInv'
  OBVIOUS
<1>1. ASSUME NEW j \in Jobs, Enqueue(j) PROVE QueueInv'
  <2>1. /\ jobStatus' = [jobStatus EXCEPT ![j] = "pending"]
        /\ jobStatus \in [Jobs -> JobStatuses]
        /\ jobStatus[j] = "none"
        /\ UNCHANGED <<attempts, lock, worker, claimed, heldTooLong>>
    BY <1>1 DEF Enqueue, historyVars, QueueTypeOK, ColumnsTypeOK
  <2>2. ~ claimed[j] /\ attempts[j] = 0
    BY <2>1 DEF QueueInv, NewIsUntouched
  <2>3. (NewIsUntouched /\ StaleWasHeld)'
    BY <2>1 DEF QueueInv, NewIsUntouched, StaleWasHeld
  <2>4. BusyRuns'
    BY <2>1 DEF QueueInv, BusyRuns, Busy, QueueTypeOK, ColumnsTypeOK
  <2>5. OneWorkerPerJob'
    BY <2>1 DEF QueueInv, OneWorkerPerJob, Busy
  <2>6. RetryIsMarked'
    BY <2>1, <2>2 DEF QueueInv, RetryIsMarked
  <2>7. ExhaustedIsDead'
    BY <2>1, <2>2, QueueAssumption DEF QueueInv, ExhaustedIsDead
  <2> QED
    BY <2>3, <2>4, <2>5, <2>6, <2>7 DEF QueueInv
<1>2. ASSUME NEW j \in Jobs, RunAtPasses(j) PROVE QueueInv'
  BY <1>2, InvQuiet DEF RunAtPasses, historyVars, Busy
<1>3. ASSUME NEW j \in Jobs, LockAges(j) PROVE QueueInv'
  <2>1. /\ lock' = [lock EXCEPT ![j] = "stale"]
        /\ lock \in [Jobs -> Locks]
        /\ heldTooLong' = [heldTooLong EXCEPT ![j] = TRUE]
        /\ heldTooLong \in [Jobs -> BOOLEAN]
        /\ UNCHANGED <<jobStatus, attempts, worker, claimed>>
    BY <1>3 DEF LockAges, QueueTypeOK, ColumnsTypeOK
  <2>2. (NewIsUntouched /\ StaleWasHeld)'
    BY <2>1 DEF QueueInv, NewIsUntouched, StaleWasHeld
  <2>3. (BusyRuns /\ OneWorkerPerJob)'
    BY <2>1 DEF QueueInv, BusyRuns, OneWorkerPerJob, Busy, QueueTypeOK, ColumnsTypeOK
  <2>4. (RetryIsMarked /\ ExhaustedIsDead)'
    BY <2>1 DEF QueueInv, RetryIsMarked, ExhaustedIsDead
  <2> QED
    BY <2>2, <2>3, <2>4 DEF QueueInv
<1>4. ASSUME NEW w \in Workers, CompleteJob(w) PROVE QueueInv'
  <2>1. Busy(w) /\ attempts[worker[w].job] \in Nat
    BY <1>4 DEF CompleteJob, Busy, QueueTypeOK, ColumnsTypeOK
  <2> QED
    BY <1>4, <2>1, InvSettle DEF CompleteJob
<1>5. ASSUME NEW w \in Workers, DeadLetter(w) PROVE QueueInv'
  <2>1. Busy(w) /\ worker[w].attempts + 1 \in Nat
    BY <1>5 DEF DeadLetter, Busy, QueueTypeOK, ColumnsTypeOK
  <2> QED
    BY <1>5, <2>1, InvSettle DEF DeadLetter
<1>6. ASSUME NEW w \in Workers, ReadFailed(w) PROVE QueueInv'
  <2>1. \A v \in Workers : Busy(v)' => Busy(v) /\ worker'[v].job = worker[v].job
    BY <1>6 DEF ReadFailed, QueueTypeOK, ColumnsTypeOK, Loop, Busy
  <2> QED
    BY <1>6, <2>1, InvQuiet DEF ReadFailed, jobVars, historyVars
<1>7. ASSUME NEW w \in Workers, FailJob(w) PROVE QueueInv'
  <2>1. Busy(w) /\ worker[w].attempts \in Nat /\ worker[w].attempts + 1 \in Nat
    BY <1>7 DEF FailJob, Busy, QueueTypeOK, ColumnsTypeOK
  <2>2. MaxAttempts \in Nat
    BY QueueAssumption
  <2>3. CASE worker[w].attempts + 1 >= MaxAttempts
    <3>1. SettleJob(w, "dead", worker[w].attempts + 1, FALSE)
      BY <1>7, <2>3 DEF FailJob
    <3> QED
      BY <2>1, <3>1, InvSettle, Zenon
  <2>4. CASE ~ worker[w].attempts + 1 >= MaxAttempts
    <3>1. SettleJob(w, "pending", worker[w].attempts + 1, FALSE)
      BY <1>7, <2>4 DEF FailJob
    <3>2. worker[w].attempts + 1 > 0 /\ worker[w].attempts + 1 < MaxAttempts
      BY <2>1, <2>2, <2>4
    <3> QED
      BY <2>1, <3>1, <3>2, InvSettle
  <2> QED
    BY <2>3, <2>4
<1>8. ASSUME NEW w \in Workers, NEW ok \in BOOLEAN, HandlerReturns(w, ok) PROVE QueueInv'
  <2>1. \A v \in Workers : Busy(v)' => Busy(v) /\ worker'[v].job = worker[v].job
    BY <1>8 DEF HandlerReturns, QueueTypeOK, ColumnsTypeOK, Busy
  <2> QED
    BY <1>8, <2>1, InvQuiet DEF HandlerReturns, jobVars, historyVars
<1>9. ASSUME NEW w \in Workers, WorkerCrash(w) PROVE QueueInv'
  <2>1. \A v \in Workers : Busy(v)' => Busy(v) /\ worker'[v].job = worker[v].job
    BY <1>9 DEF WorkerCrash, QueueTypeOK, ColumnsTypeOK, Loop, Busy
  <2> QED
    BY <1>9, <2>1, InvQuiet DEF WorkerCrash, jobVars, historyVars
<1>10. CASE UNCHANGED queueVars
  BY <1>10, InvQuiet DEF queueVars, jobVars, historyVars, Busy
<1> QED
  BY <1>1, <1>2, <1>3, <1>4, <1>5, <1>6, <1>7, <1>8, <1>9, <1>10, InvRecover, InvClaim
  DEF Next, TimeStep, LoopStep, HandlerEnds, HandlerFaults

LEMMA InvHolds == Spec => []QueueInv
<1> QED
  BY InvInit, InvStep, TypeCorrect, PTL DEF Spec

\* Only a lock that had gone stale ever gives a second worker the same job
\* (claim_job's FOR UPDATE SKIP LOCKED, recover_stale_jobs).
THEOREM OneAtATime == Spec => []OneWorkerPerJob
<1>1. QueueInv => OneWorkerPerJob
  BY DEF QueueInv
<1> QED
  BY <1>1, InvHolds, PTL

\* Whatever happened to the worker that had it, a job that may have had a side
\* effect comes back with attempts > 0 (fail_job, recover_stale_jobs).
THEOREM RetriesAreMarked == Spec => []RetryIsMarked
<1>1. QueueInv => RetryIsMarked
  BY DEF QueueInv
<1> QED
  BY <1>1, InvHolds, PTL

\* No failure gives a job more attempts than it has, however late the worker that
\* writes it read the row (fail_job).
THEOREM AttemptsRunOut == Spec => []ExhaustedIsDead
<1>1. QueueInv => ExhaustedIsDead
  BY DEF QueueInv
<1> QED
  BY <1>1, InvHolds, PTL

-----------------------------------------------------------------------------
LEMMA ConcludedStep == QueueTypeOK /\ [Next]_queueVars => [KeepsConcluded]_queueVars
<1> SUFFICES ASSUME QueueTypeOK, [Next]_queueVars,
                    NEW j \in Jobs, jobStatus[j] \in Concluded
             PROVE  UNCHANGED <<jobStatus[j], attempts[j]>>
  BY DEF KeepsConcluded
<1>1. /\ jobStatus[j] \notin {"none", "pending", "running"}
      /\ jobStatus \in [Jobs -> JobStatuses]
      /\ attempts \in [Jobs -> Nat]
  BY DEF Concluded, QueueTypeOK, ColumnsTypeOK
<1>2. ASSUME NEW i \in Jobs, Enqueue(i) \/ TimeStep(i)
      PROVE  UNCHANGED <<jobStatus[j], attempts[j]>>
  <2>1. CASE Enqueue(i)
    BY <1>1, <2>1 DEF Enqueue
  <2>2. CASE TimeStep(i)
    BY <2>2 DEF TimeStep, RunAtPasses, LockAges
  <2> QED
    BY <1>2, <2>1, <2>2
<1>3. ASSUME NEW w \in Workers, NEW i \in Jobs, ClaimJob(w, i)
      PROVE  UNCHANGED <<jobStatus[j], attempts[j]>>
  BY <1>1, <1>3 DEF ClaimJob
<1>4. ASSUME NEW w \in Workers, StartWorker(w)
      PROVE  UNCHANGED <<jobStatus[j], attempts[j]>>
  BY <1>1, <1>4 DEF StartWorker, RecoverStaleJobs, Recoverable
<1>5. ASSUME NEW w \in Workers, NEW s, NEW n, NEW d, SettleJob(w, s, n, d)
      PROVE  UNCHANGED <<jobStatus[j], attempts[j]>>
  <2>1. CASE StillRunning(worker[w].job)
    BY <1>1, <1>5, <2>1 DEF SettleJob, StillRunning
  <2>2. CASE ~ StillRunning(worker[w].job)
    BY <1>5, <2>2 DEF SettleJob, jobVars
  <2> QED
    BY <2>1, <2>2
<1>6. ASSUME NEW w \in Workers, CompleteJob(w) \/ DeadLetter(w) \/ FailJob(w)
      PROVE  UNCHANGED <<jobStatus[j], attempts[j]>>
  BY <1>5, <1>6 DEF CompleteJob, DeadLetter, FailJob
<1>7. ASSUME NEW w \in Workers, NEW ok,
             ReadFailed(w) \/ HandlerReturns(w, ok) \/ WorkerCrash(w)
      PROVE  UNCHANGED <<jobStatus[j], attempts[j]>>
  BY <1>7 DEF ReadFailed, HandlerReturns, WorkerCrash, jobVars
<1>8. CASE UNCHANGED queueVars
  BY <1>8 DEF queueVars, jobVars
<1> QED
  BY <1>2, <1>3, <1>4, <1>6, <1>7, <1>8
  DEF Next, LoopStep, HandlerEnds, HandlerFaults

\* A worker that was taken for dead and writes late changes no job that is done or
\* dead (the WHERE status = running of complete_job, fail_job and _dead_letter).
THEOREM ConcludedStays == Spec => ConcludedIsFinal
<1> QED
  BY TypeCorrect, ConcludedStep, PTL DEF Spec, ConcludedIsFinal

=============================================================================
