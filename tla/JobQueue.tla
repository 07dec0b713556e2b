------------------------------ MODULE JobQueue ------------------------------
(***************************************************************************)
(* The durable job queue: the job table (src/app/db/jobs.py) and the claim *)
(* loop of any number of worker replicas (src/app/worker/loop.py).  What a *)
(* handler does is left open here: it returns or raises.  JobDelivery puts *)
(* the handlers in.                                                        *)
(*                                                                         *)
(* A definition named X_Y in front of X is X with a plausible bug Y; no    *)
(* action uses it.                                                         *)
(***************************************************************************)
EXTENDS Integers, FiniteSets

CONSTANTS
    Jobs,
    UnknownJobs,  \* jobs whose kind has no handler
    Workers,
    MaxAttempts,  \* job.max_attempts
    MaxFaults,    \* bound on worker crashes and failing database calls
    NoJob

ASSUME QueueAssumption ==
    /\ UnknownJobs \subseteq Jobs
    /\ NoJob \notin Jobs
    /\ MaxAttempts \in Nat \ {0}
    /\ MaxFaults \in Nat

VARIABLES
    jobStatus,   \* job.status, "none" before it is enqueued
    attempts,    \* job.attempts
    lock,        \* job.locked_at: null, or its age against STALE_LOCK_MINUTES
    due,         \* job.run_at has come
    worker,      \* the claim loop of each worker
    claimed,     \* whether the job was ever handed to a handler
    heldTooLong, \* whether a lock of the job ever went stale
    faults

jobVars == <<jobStatus, attempts, lock, due>>
historyVars == <<claimed, heldTooLong>>
queueVars == <<jobVars, worker, historyVars, faults>>

-----------------------------------------------------------------------------
JobStatuses == {"none", "pending", "running", "done", "dead"}
Concluded == {"done", "dead"}
Locks == {"null", "fresh", "stale"}
WorkerSteps == {"down", "polling", "handling", "completing", "failing", "requeueing"}

\* A worker that has a job in hand, and the attempts of the row it last read.
Busy(w) == worker[w].pc \notin {"down", "polling"}
Loop(pc) == [pc |-> pc, job |-> NoJob, attempts |-> 0]

Init ==
    /\ jobStatus = [j \in Jobs |-> "none"]
    /\ attempts = [j \in Jobs |-> 0]
    /\ lock = [j \in Jobs |-> "null"]
    /\ due = [j \in Jobs |-> FALSE]
    /\ worker = [w \in Workers |-> Loop("down")]
    /\ claimed = [j \in Jobs |-> FALSE]
    /\ heldTooLong = [j \in Jobs |-> FALSE]
    /\ faults = 0

-----------------------------------------------------------------------------
\* enqueue_integration_notify, enqueue_reminder_due: a new row whose run_at
\* comes with time.
Enqueue(j) ==
    /\ jobStatus[j] = "none"
    /\ jobStatus' = [jobStatus EXCEPT ![j] = "pending"]
    /\ UNCHANGED <<attempts, lock, due, worker, historyVars, faults>>

\* run_at <= now().
RunAtPasses(j) ==
    /\ jobStatus[j] = "pending"
    /\ ~ due[j]
    /\ due' = [due EXCEPT ![j] = TRUE]
    /\ UNCHANGED <<jobStatus, attempts, lock, worker, historyVars, faults>>

\* locked_at < now() - STALE_LOCK_MINUTES.
LockAges(j) ==
    /\ lock[j] = "fresh"
    /\ lock' = [lock EXCEPT ![j] = "stale"]
    /\ heldTooLong' = [heldTooLong EXCEPT ![j] = TRUE]
    /\ UNCHANGED <<jobStatus, attempts, due, worker, claimed, faults>>

-----------------------------------------------------------------------------
Recoverable_AnyRunning(j) == jobStatus[j] = "running"
Recoverable(j) == jobStatus[j] = "running" /\ lock[j] = "stale"

\* recover_stale_jobs: one UPDATE, which counts an attempt but asks for no
\* maximum of them.
RecoverStaleJobs ==
    /\ jobStatus' = [j \in Jobs |-> IF Recoverable(j) THEN "pending" ELSE jobStatus[j]]
    /\ lock' = [j \in Jobs |-> IF Recoverable(j) THEN "null" ELSE lock[j]]
    /\ attempts' =
         [j \in Jobs |-> IF Recoverable(j) THEN attempts[j] + 1 ELSE attempts[j]]
    /\ UNCHANGED <<due, historyVars>>

\* run_worker up to its loop.
StartWorker(w) ==
    /\ worker[w].pc = "down"
    /\ worker' = [worker EXCEPT ![w] = Loop("polling")]
    /\ RecoverStaleJobs
    /\ UNCHANGED faults

\* claim_job in the loop of run_worker.  Which of the due jobs is the oldest is
\* left open; FOR UPDATE SKIP LOCKED gives a row to one worker.
ClaimJob(w, j) ==
    /\ worker[w].pc = "polling"
    /\ jobStatus[j] = "pending"
    /\ due[j]
    /\ jobStatus' = [jobStatus EXCEPT ![j] = "running"]
    /\ lock' = [lock EXCEPT ![j] = "fresh"]
    /\ worker' = [worker EXCEPT ![w] =
         [pc |-> "handling", job |-> j, attempts |-> attempts[j]]]
    /\ claimed' = [claimed EXCEPT ![j] = TRUE]
    /\ UNCHANGED <<attempts, due, heldTooLong, faults>>

\* process_job: the handler returns, or raises.
HandlerReturns(w, ok) ==
    /\ worker[w].pc = "handling"
    /\ worker[w].job \notin UnknownJobs
    /\ worker' = [worker EXCEPT ![w].pc = IF ok THEN "completing" ELSE "failing"]
    /\ UNCHANGED <<jobVars, historyVars>>
HandlerEnds(w, ok) == HandlerReturns(w, ok) /\ UNCHANGED faults

\* The WHERE clause of every write after a handler: there is no owner in it.
StillRunning(j) == jobStatus[j] = "running"

\* Write status s to the job, if it still runs, and poll again.
SettleJob(w, s, n, isDue) ==
    LET j == worker[w].job
    IN  /\ IF StillRunning(j)
           THEN /\ jobStatus' = [jobStatus EXCEPT ![j] = s]
                /\ attempts' = [attempts EXCEPT ![j] = n]
                /\ lock' = [lock EXCEPT ![j] = "null"]
                /\ due' = [due EXCEPT ![j] = isDue]
           ELSE UNCHANGED jobVars
        /\ worker' = [worker EXCEPT ![w] = Loop("polling")]
        /\ UNCHANGED <<historyVars, faults>>

\* complete_job.
CompleteJob(w) ==
    /\ worker[w].pc = "completing"
    /\ SettleJob(w, "done", attempts[worker[w].job], due[worker[w].job])

\* _dead_letter of a kind without a handler.
DeadLetter(w) ==
    /\ worker[w].pc = "handling"
    /\ worker[w].job \in UnknownJobs
    /\ SettleJob(w, "dead", worker[w].attempts + 1, due[worker[w].job])

ReadFailed_Swallows(w) ==
    /\ worker[w].pc = "failing"
    /\ worker' = [worker EXCEPT ![w] = Loop("polling")]
    /\ UNCHANGED <<jobVars, historyVars, faults>>

\* _mark_failed reads the row first ...
ReadFailed(w) ==
    /\ worker[w].pc = "failing"
    /\ LET j == worker[w].job
       IN  worker' = [worker EXCEPT ![w] =
             IF jobStatus[j] = "running"
             THEN [pc |-> "requeueing", job |-> j, attempts |-> attempts[j]]
             ELSE Loop("polling")]
    /\ UNCHANGED <<jobVars, historyVars, faults>>

FailJob_OneTooMany(w) ==
    /\ worker[w].pc = "requeueing"
    /\ LET n == worker[w].attempts + 1
       IN  SettleJob(w, IF n > MaxAttempts THEN "dead" ELSE "pending", n, FALSE)

\* ... and fail_job writes what follows from the attempts it read: dead, or
\* pending with a backoff.
FailJob(w) ==
    /\ worker[w].pc = "requeueing"
    /\ LET n == worker[w].attempts + 1
       IN  SettleJob(w, IF n >= MaxAttempts THEN "dead" ELSE "pending", n, FALSE)

Fault == faults < MaxFaults /\ faults' = faults + 1

\* A database call inside a handler raises.
HandlerFaults(w) == HandlerReturns(w, FALSE) /\ Fault

\* The process of a worker dies, or a database call outside of a handler raises
\* out of run_worker.  The platform starts it again.
WorkerCrash(w) ==
    /\ worker[w].pc # "down"
    /\ Fault
    /\ worker' = [worker EXCEPT ![w] = Loop("down")]
    /\ UNCHANGED <<jobVars, historyVars>>

-----------------------------------------------------------------------------
TimeStep(j) == RunAtPasses(j) \/ LockAges(j)

\* The steps of the loop around the handlers.
LoopStep(w) ==
    \/ StartWorker(w)
    \/ CompleteJob(w)
    \/ DeadLetter(w)
    \/ ReadFailed(w)
    \/ FailJob(w)

Next ==
    \/ \E j \in Jobs : Enqueue(j)
    \/ \E j \in Jobs : TimeStep(j)
    \/ \E w \in Workers : LoopStep(w)
    \/ \E w \in Workers, j \in Jobs : ClaimJob(w, j)
    \/ \E w \in Workers, ok \in BOOLEAN : HandlerEnds(w, ok)
    \/ \E w \in Workers : HandlerFaults(w) \/ WorkerCrash(w)

Spec == Init /\ [][Next]_queueVars

\* Time passes, the platform restarts a worker, a live worker goes on, and a
\* handler ends: every call in it has a timeout.
Fairness ==
    /\ \A j \in Jobs : WF_queueVars(TimeStep(j))
    /\ \A w \in Workers :
         /\ WF_queueVars(LoopStep(w))
         /\ WF_queueVars(\E j \in Jobs : ClaimJob(w, j))
         /\ WF_queueVars(\E ok \in BOOLEAN : HandlerEnds(w, ok))

FairSpec == Spec /\ Fairness

-----------------------------------------------------------------------------
(***************************************************************************)
(* Properties.                                                             *)
(***************************************************************************)

\* Every variable holds what its column or loop can hold; a busy worker has a
\* job, and a job has a lock exactly while it runs.
ColumnsTypeOK ==
    /\ jobStatus \in [Jobs -> JobStatuses]
    /\ attempts \in [Jobs -> Nat]
    /\ lock \in [Jobs -> Locks]
    /\ due \in [Jobs -> BOOLEAN]
    /\ worker \in [Workers -> [pc : WorkerSteps, job : Jobs \cup {NoJob}, attempts : Nat]]
    /\ \A w \in Workers : Busy(w) => worker[w].job \in Jobs
    /\ claimed \in [Jobs -> BOOLEAN]
    /\ heldTooLong \in [Jobs -> BOOLEAN]
    /\ faults \in Nat
LockedWhileRunning == \A j \in Jobs : lock[j] # "null" <=> jobStatus[j] = "running"
QueueTypeOK == ColumnsTypeOK /\ LockedWhileRunning

\* Two workers are never busy with the same job unless its lock had been held
\* for so long that it was taken for stale (claim_job, recover_stale_jobs).
OneWorkerPerJob ==
    \A v, w \in Workers :
        Busy(v) /\ Busy(w) /\ worker[v].job = worker[w].job
        => v = w \/ heldTooLong[worker[v].job]

\* A job that may already have had a side effect says so: one that was handed to
\* a handler before is pending again only with attempts > 0, whoever lost a
\* race to write it.  (recover_stale_jobs: "handlers rely on attempts > 0".)
RetryIsMarked ==
    \A j \in Jobs : jobStatus[j] = "pending" /\ claimed[j] => attempts[j] > 0

\* A job that is done or dead stays so: a worker that was taken for dead and
\* comes late with its success or its failure changes nothing.
KeepsConcluded ==
    \A j \in Jobs : jobStatus[j] \in Concluded => UNCHANGED <<jobStatus[j], attempts[j]>>
ConcludedIsFinal == [][KeepsConcluded]_queueVars

\* No failure puts a job back in the queue that has used up its attempts; only
\* the recovery of a stale lock, which does not count to the maximum, does.
ExhaustedIsDead ==
    \A j \in Jobs :
        jobStatus[j] \in {"pending", "running"} /\ ~ heldTooLong[j] => attempts[j] < MaxAttempts

\* Without a fault every job that was enqueued is done or dead in the end.
JobsConclude ==
    \A j \in Jobs : jobStatus[j] = "pending" ~> jobStatus[j] \in Concluded \/ faults > 0

=============================================================================
