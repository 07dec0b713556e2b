-------------------------- MODULE Automation_proofs --------------------------
(***************************************************************************)
(* Theorems about Automation, for every number of jobs, workers, attempts  *)
(* and faults, and every rule in every zone with one transition.           *)
(***************************************************************************)
EXTENDS Automation, TLAPS

QueueProofs == INSTANCE JobQueue_proofs WITH UnknownJobs <- {}

-----------------------------------------------------------------------------
(***************************************************************************)
(* The rule.                                                               *)
(***************************************************************************)
NoFallBack == OffsetBefore <= OffsetAfter

LEMMA MatchIsLater ==
    ASSUME NEW wall \in Int
    PROVE  Rule!NextMatch(wall) \in Int /\ Rule!NextMatch(wall) > wall
<1>1. (Phase - wall - 1) % Period \in 0 .. (Period - 1)
  BY CalendarAssumption
<1> QED
  BY <1>1, CalendarAssumption DEF Rule!NextMatch

LEMMA NextIsInstant == \A t \in Int : NextAfter(t) \in Instants
<1> SUFFICES ASSUME NEW t \in Int PROVE NextAfter(t) \in Instants
  OBVIOUS
<1>1. \A u \in Int : Rule!NaiveLocal(u) \in Int
  BY CalendarAssumption DEF Rule!NaiveLocal
<1>2. \A m \in Int : Rule!ToUtc(m) \in Int
  BY CalendarAssumption DEF Rule!ToUtc
<1> QED
  BY <1>1, <1>2, MatchIsLater DEF NextAfter, Rule!NextOccurrence, Instants

\* Where the clock is never set back, the next occurrence is later than the instant
\* it is asked for (next_occurrence_utc: "strictly after").
THEOREM NextIsLater ==
    ASSUME NoFallBack
    PROVE  \A t \in Int : NextAfter(t) # NoInstant => NextAfter(t) > t
<1> SUFFICES ASSUME NEW t \in Int, NextAfter(t) # NoInstant PROVE NextAfter(t) > t
  OBVIOUS
<1> DEFINE wall == Rule!NaiveLocal(t)
           start == Rule!NaiveLocal(0)
           from == IF wall < start THEN start - 1 ELSE wall
           match == Rule!NextMatch(from)
<1>1. wall \in Int /\ start \in Int
  BY CalendarAssumption DEF Rule!NaiveLocal
<1>2. match \in Int /\ match > wall
  <2>1. from \in Int /\ from >= wall
    BY <1>1
  <2> QED
    BY <1>1, <2>1, MatchIsLater
<1>3. NextAfter(t) = Rule!ToUtc(match)
  BY DEF NextAfter, Rule!NextOccurrence
<1>4. Rule!ToUtc(match) > t
  BY <1>1, <1>2, CalendarAssumption DEF NoFallBack, Rule!ToUtc, Rule!LaterOffset, Rule!NaiveLocal
<1> QED
  BY <1>3, <1>4

-----------------------------------------------------------------------------
(***************************************************************************)
(* Types.                                                                  *)
(***************************************************************************)
Txs == [occ : Instants, next : Instants, seen : Jobs \cup {NoJob}, owned : BOOLEAN]

\* What the queue does by itself keeps its types: JobQueue_proofs.
LEMMA QueueStepTypes == Queue!QueueTypeOK /\ Queue!Next => Queue!QueueTypeOK'
<1>1. Queue!Next => QueueProofs!Next
  BY Zenon DEF Queue!queueVars, Queue!jobVars, Queue!historyVars,
     QueueProofs!queueVars, QueueProofs!jobVars, QueueProofs!historyVars,
     Queue!Next, Queue!Enqueue, Queue!TimeStep, Queue!RunAtPasses, Queue!LockAges,
     Queue!LoopStep, Queue!StartWorker, Queue!RecoverStaleJobs, Queue!Recoverable,
     Queue!CompleteJob, Queue!DeadLetter, Queue!SettleJob, Queue!StillRunning,
     Queue!ReadFailed, Queue!FailJob, Queue!ClaimJob, Queue!HandlerEnds,
     Queue!HandlerReturns, Queue!HandlerFaults, Queue!WorkerCrash, Queue!Fault, Queue!Loop,
     QueueProofs!Next, QueueProofs!Enqueue, QueueProofs!TimeStep,
     QueueProofs!RunAtPasses, QueueProofs!LockAges, QueueProofs!LoopStep,
     QueueProofs!StartWorker, QueueProofs!RecoverStaleJobs, QueueProofs!Recoverable,
     QueueProofs!CompleteJob, QueueProofs!DeadLetter, QueueProofs!SettleJob,
     QueueProofs!StillRunning, QueueProofs!ReadFailed, QueueProofs!FailJob,
     QueueProofs!ClaimJob, QueueProofs!HandlerEnds, QueueProofs!HandlerReturns,
     QueueProofs!HandlerFaults, QueueProofs!WorkerCrash, QueueProofs!Fault,
     QueueProofs!Loop
<1>2. Queue!QueueTypeOK <=> QueueProofs!QueueTypeOK
  BY DEF Queue!QueueTypeOK, Queue!ColumnsTypeOK, Queue!LockedWhileRunning,
     Queue!JobStatuses, Queue!Locks, Queue!WorkerSteps, Queue!Busy,
     QueueProofs!QueueTypeOK, QueueProofs!ColumnsTypeOK, QueueProofs!LockedWhileRunning,
     QueueProofs!JobStatuses, QueueProofs!Locks, QueueProofs!WorkerSteps, QueueProofs!Busy
<1>3. Queue!QueueTypeOK' <=> QueueProofs!QueueTypeOK'
  BY DEF Queue!QueueTypeOK, Queue!ColumnsTypeOK, Queue!LockedWhileRunning,
     Queue!JobStatuses, Queue!Locks, Queue!WorkerSteps, Queue!Busy,
     QueueProofs!QueueTypeOK, QueueProofs!ColumnsTypeOK, QueueProofs!LockedWhileRunning,
     QueueProofs!JobStatuses, QueueProofs!Locks, QueueProofs!WorkerSteps, QueueProofs!Busy
<1>4. QueueProofs!QueueAssumption
  BY AutomationAssumption DEF QueueProofs!QueueAssumption
<1> QED
  BY <1>1, <1>2, <1>3, <1>4, QueueProofs!TypeStep

\* What is seen as pending is a pending job.
LEMMA SeesPending ==
    SeePending \in Jobs \cup {NoJob} /\ (Pending # {} => SeePending \in Pending)
  BY DEF SeePending, Pending

LEMMA NewJobIsUnused == HasNewJob => NewJob \in Jobs /\ Unused(NewJob)
  BY DEF HasNewJob, NewJob

\* An upsert touches one job, which it leaves pending and not due.
LEMMA UpsertTypes ==
    ASSUME Queue!QueueTypeOK, HandlersTypeOK,
           NEW status \in [Jobs -> Queue!JobStatuses],
           NEW seen \in Jobs \cup {NoJob}, NEW next \in Instants,
           Upsert(status, seen, next)
    PROVE  /\ jobStatus' \in [Jobs -> Queue!JobStatuses]
           /\ occurrence' \in [Jobs -> Instants]
           /\ due' \in [Jobs -> BOOLEAN]
           /\ mishaps' \subseteq {"missed", "shared", "collided"}
           /\ \A k \in Jobs :
                jobStatus'[k] = status[k] \/
                (jobStatus'[k] = "pending" /\ (status[k] = "pending" \/ Unused(k)))
           /\ \A k \in Jobs : due'[k] => due[k] /\ occurrence'[k] = occurrence[k]
           /\ \A k \in Jobs : occurrence'[k] = next \/
                (occurrence'[k] = occurrence[k] /\ jobStatus'[k] = status[k])
<1> USE DEF Queue!JobStatuses
<1>0. /\ occurrence \in [Jobs -> Instants]
      /\ due \in [Jobs -> BOOLEAN]
      /\ mishaps \subseteq {"missed", "shared", "collided"}
  BY DEF Queue!QueueTypeOK, Queue!ColumnsTypeOK, HandlersTypeOK
<1>1. ASSUME NEW j \in Jobs, Schedule(status, j, next)
      PROVE  /\ jobStatus' \in [Jobs -> Queue!JobStatuses]
             /\ occurrence' \in [Jobs -> Instants]
             /\ due' \in [Jobs -> BOOLEAN]
             /\ mishaps' = mishaps
             /\ jobStatus'[j] = "pending"
             /\ ~ due'[j]
             /\ occurrence'[j] = next
             /\ \A k \in Jobs \ {j} :
                  /\ jobStatus'[k] = status[k]
                  /\ due'[k] = due[k]
                  /\ occurrence'[k] = occurrence[k]
  BY <1>0, <1>1 DEF Schedule
<1>2. CASE seen # NoJob /\ status[seen] = "pending" /\ Schedule(status, seen, next)
  BY <1>0, <1>1, <1>2
<1>3. CASE /\ jobStatus' = status
           /\ mishaps' = mishaps \cup {"missed"}
           /\ UNCHANGED <<occurrence, due>>
  BY <1>0, <1>3
<1>4. CASE HasNewJob /\ Schedule(status, NewJob, next)
  BY <1>0, <1>1, <1>4, NewJobIsUnused
<1> QED
  BY <1>2, <1>3, <1>4 DEF Upsert

\* A transaction that ends with an upsert, and has completed the job of its worker or
\* none, leaves the queue well-typed.
LEMMA UpsertedTypes ==
    ASSUME TypeOK,
           jobStatus' \in [Jobs -> Queue!JobStatuses],
           due' \in [Jobs -> BOOLEAN],
           lock' \in [Jobs -> Queue!Locks],
           \A k \in Jobs : lock'[k] # "null" <=> jobStatus'[k] = "running",
           UNCHANGED <<attempts, worker, claimed, heldTooLong, faults>>
    PROVE  Queue!QueueTypeOK'
  BY DEF TypeOK, Queue!QueueTypeOK, Queue!ColumnsTypeOK, Queue!LockedWhileRunning, Queue!Busy

LEMMA SameQueue == Queue!QueueTypeOK /\ UNCHANGED queueVars => Queue!QueueTypeOK'
  BY DEF queueVars, Queue!QueueTypeOK, Queue!ColumnsTypeOK, Queue!LockedWhileRunning,
         Queue!Busy

LEMMA QueueTypeStep == TypeOK /\ [Next]_vars => Queue!QueueTypeOK'
<1> SUFFICES ASSUME TypeOK, [Next]_vars PROVE Queue!QueueTypeOK'
  OBVIOUS
<1>0. Queue!QueueTypeOK /\ HandlersTypeOK
  BY DEF TypeOK
<1>a. /\ jobStatus \in [Jobs -> Queue!JobStatuses]
      /\ lock \in [Jobs -> Queue!Locks]
      /\ due \in [Jobs -> BOOLEAN]
      /\ \A k \in Jobs : lock[k] # "null" <=> jobStatus[k] = "running"
  BY <1>0 DEF Queue!QueueTypeOK, Queue!ColumnsTypeOK, Queue!LockedWhileRunning
<1>b. \A p \in Parties : tx[p].seen \in Jobs \cup {NoJob} /\ tx[p].next \in Instants
  BY <1>0 DEF HandlersTypeOK
<1>1. CASE CreateAutomation
  <2>1. NextAfter(now) \in Instants
    BY <1>0, NextIsInstant DEF HandlersTypeOK
  <2>2. Upsert(jobStatus, NoJob, NextAfter(now))
    BY <1>1 DEF CreateAutomation
  <2>3. /\ jobStatus' \in [Jobs -> Queue!JobStatuses]
        /\ due' \in [Jobs -> BOOLEAN]
        /\ \A k \in Jobs :
             jobStatus'[k] = jobStatus[k] \/
             (jobStatus'[k] = "pending" /\ (jobStatus[k] = "pending" \/ Unused(k)))
    BY <1>0, <1>a, <2>1, <2>2, UpsertTypes
  <2> QED
    BY <1>1, <1>a, <2>3, UpsertedTypes DEF CreateAutomation, Unused
<1>2. CASE ResumeCommits
  <2>1. Resumer \in Parties
    BY DEF Parties
  <2>2. Upsert(jobStatus, tx[Resumer].seen, tx[Resumer].next)
    BY <1>2 DEF ResumeCommits
  <2>3. /\ jobStatus' \in [Jobs -> Queue!JobStatuses]
        /\ due' \in [Jobs -> BOOLEAN]
        /\ \A k \in Jobs :
             jobStatus'[k] = jobStatus[k] \/
             (jobStatus'[k] = "pending" /\ (jobStatus[k] = "pending" \/ Unused(k)))
    BY <1>0, <1>a, <1>b, <2>1, <2>2, UpsertTypes
  <2> QED
    BY <1>2, <1>a, <2>3, UpsertedTypes DEF ResumeCommits, Unused
<1>3. ASSUME NEW w \in Workers, CommitsUpsert(w) PROVE Queue!QueueTypeOK'
  <2>0. w \in Parties
    BY DEF Parties
  <2>1. Completed(w) \in [Jobs -> Queue!JobStatuses]
    BY <1>a DEF Completed, Queue!JobStatuses
  <2>2. /\ jobStatus' \in [Jobs -> Queue!JobStatuses]
        /\ due' \in [Jobs -> BOOLEAN]
        /\ \A k \in Jobs :
             jobStatus'[k] = Completed(w)[k] \/
             (jobStatus'[k] = "pending" /\ (Completed(w)[k] = "pending" \/ Unused(k)))
    <3>1. CASE jobStatus' = Completed(w) /\ UNCHANGED due
      BY <1>a, <2>1, <3>1
    <3>2. CASE Upsert(Completed(w), tx[w].seen, tx[w].next)
      BY <1>0, <1>b, <2>0, <2>1, <3>2, UpsertTypes
    <3> QED
      BY <1>3, <3>1, <3>2 DEF CommitsUpsert
  <2>3. lock' = IF tx[w].owned THEN [lock EXCEPT ![JobOf(w)] = "null"] ELSE lock
    BY <1>3 DEF CommitsUpsert
  <2>4. lock' \in [Jobs -> Queue!Locks]
    BY <1>a, <2>3 DEF Queue!Locks
  <2>5. \A k \in Jobs : lock'[k] # "null" <=> jobStatus'[k] = "running"
    <3>1. CASE tx[w].owned
      BY <1>a, <2>2, <2>3, <3>1 DEF Completed, Unused
    <3>2. CASE ~ tx[w].owned
      BY <1>a, <2>2, <2>3, <3>2 DEF Completed, Unused
    <3> QED
      BY <3>1, <3>2
  <2> QED
    BY <1>3, <2>2, <2>4, <2>5, UpsertedTypes DEF CommitsUpsert
<1>4. ASSUME NEW w \in Workers, CloseUnrecorded(w) PROVE Queue!QueueTypeOK'
  <2>1. /\ jobStatus' \in [Jobs -> Queue!JobStatuses]
        /\ lock' \in [Jobs -> Queue!Locks]
        /\ \A k \in Jobs : lock'[k] # "null" <=> jobStatus'[k] = "running"
    BY <1>4, <1>a DEF CloseUnrecorded, Queue!JobStatuses, Queue!Locks
  <2> QED
    BY <1>4, <1>a, <2>1, UpsertedTypes DEF CloseUnrecorded
<1>5. ASSUME NEW w \in Workers, FailCollides(w) PROVE Queue!QueueTypeOK'
  BY <1>5, <1>0 DEF FailCollides, Queue!Loop, Queue!QueueTypeOK, Queue!ColumnsTypeOK,
     Queue!LockedWhileRunning, Queue!Busy, Queue!WorkerSteps
<1>6. CASE ResumeAborts
  BY <1>6, <1>0 DEF ResumeAborts, Queue!QueueTypeOK, Queue!ColumnsTypeOK,
     Queue!LockedWhileRunning, Queue!Busy
<1>7. ASSUME NEW w \in Workers,
             NotActive(w) \/ ExecutionFails(w) \/ Return(w) \/ HandlerFaults(w) \/ WorkerCrash(w)
      PROVE  Queue!QueueTypeOK'
  BY <1>7, <1>0, QueueStepTypes DEF NotActive, ExecutionFails, Return, HandlerFaults,
     WorkerCrash, Queue!Next
<1>8. ASSUME NEW w \in Workers, NEW j \in Jobs, ClaimJob(w, j) PROVE Queue!QueueTypeOK'
  BY <1>8, <1>0, QueueStepTypes DEF ClaimJob, Queue!Next
<1>9. ASSUME NEW j \in Jobs, TimeStep(j) PROVE Queue!QueueTypeOK'
  BY <1>9, <1>0, QueueStepTypes DEF TimeStep, Queue!TimeStep, Queue!Next
<1>10. ASSUME NEW w \in Workers, LoopStep(w) PROVE Queue!QueueTypeOK'
  BY <1>10, <1>0, <1>5, QueueStepTypes DEF LoopStep, StartWorker, Queue!LoopStep, Queue!Next
<1>11. ASSUME NEW w \in Workers,
              AlreadyRun(w) \/ StartExecution(w) \/ ExecutionEnds(w) \/ BeginsUpsert(w)
              \/ UpsertCollides(w)
       PROVE  Queue!QueueTypeOK'
  BY <1>11, <1>0, SameQueue DEF AlreadyRun, StartExecution, ExecutionEnds, BeginsUpsert,
     UpsertCollides
<1>12. CASE \/ PauseAutomation \/ CancelAutomation \/ ResumeBegins \/ Tick
            \/ UpsertCollides(Resumer) \/ UNCHANGED vars
  BY <1>12, <1>0, SameQueue DEF PauseAutomation, CancelAutomation, ResumeBegins, Tick,
     UpsertCollides, vars
<1>13. ASSUME NEW w \in Workers, HandlerStep(w) PROVE Queue!QueueTypeOK'
  BY <1>3, <1>4, <1>7, <1>11, <1>13 DEF HandlerStep, CloseBegins, ReplayBegins, CloseCommits,
     ReplayCommits
<1> QED
  BY <1>1, <1>2, <1>6, <1>7, <1>8, <1>9, <1>10, <1>12, <1>13 DEF Next, ResumeStep

\* The loops around the handlers neither begin nor end one.
LEMMA LoopKeepsHands ==
    ASSUME Queue!QueueTypeOK, NEW w \in Workers, LoopStep(w)
    PROVE  /\ \A v \in Workers : worker'[v].pc = "handling" <=> worker[v].pc = "handling"
           /\ UNCHANGED <<now, occurrence, autoVars, txVars>>
           /\ mishaps' \subseteq mishaps \cup {"collided"}
<1>1. worker \in [Workers -> [pc : Queue!WorkerSteps, job : Jobs \cup {NoJob}, attempts : Nat]]
  BY DEF Queue!QueueTypeOK, Queue!ColumnsTypeOK
<1>2. ASSUME NEW s, NEW n, NEW d, Queue!SettleJob(w, s, n, d)
      PROVE  worker' = [worker EXCEPT ![w] = Queue!Loop("polling")]
  BY <1>2 DEF Queue!SettleJob
<1>3. CASE StartWorker(w)
  BY <1>1, <1>3 DEF StartWorker, Queue!StartWorker, Queue!Loop, Unrelated
<1>4. CASE FailCollides(w)
  BY <1>1, <1>4 DEF FailCollides, Requeues, Queue!Loop, Unrelated
<1>5. CASE Queue!CompleteJob(w) /\ Unrelated /\ UNCHANGED mishaps
  BY <1>1, <1>2, <1>5 DEF Queue!CompleteJob, Queue!Loop, Unrelated
<1>6. CASE Queue!ReadFailed(w) /\ Unrelated /\ UNCHANGED mishaps
  BY <1>1, <1>6 DEF Queue!ReadFailed, Queue!Loop, Unrelated
<1>7. CASE Queue!FailJob(w) /\ Unrelated /\ UNCHANGED mishaps
  BY <1>1, <1>7 DEF Queue!FailJob, Queue!SettleJob, Queue!Loop, Unrelated
<1> QED
  BY <1>3, <1>4, <1>5, <1>6, <1>7 DEF LoopStep

\* Where a worker that has left its handler stands.
LEMMA LeaveTypes ==
    ASSUME TypeOK, NEW w \in Workers, Leave(w),
           NEW l \in [pc : Queue!WorkerSteps \ {"handling"}, job : Jobs \cup {NoJob}, attempts : Nat],
           worker' = [worker EXCEPT ![w] = l]
    PROVE  HandlersTypeOK'
<1>1. worker \in [Workers -> [pc : Queue!WorkerSteps, job : Jobs \cup {NoJob}, attempts : Nat]]
  BY DEF TypeOK, Queue!QueueTypeOK, Queue!ColumnsTypeOK
<1>2. /\ handler \in [Workers -> Steps]
      /\ \A v \in Workers : handler[v] # "none" <=> worker[v].pc = "handling"
      /\ tx \in [Parties -> Txs]
  BY DEF TypeOK, HandlersTypeOK, Txs
<1>3. /\ handler' \in [Workers -> Steps]
      /\ \A v \in Workers : handler'[v] # "none" <=> worker'[v].pc = "handling"
  BY <1>1, <1>2 DEF Leave, Goto, Steps
<1>4. tx' \in [Parties -> Txs]
  BY <1>2 DEF Leave, NoTx, Txs, Instants
<1> QED
  BY <1>3, <1>4 DEF TypeOK, HandlersTypeOK, Leave, autoVars, Txs

\* A step inside of a handler: to s, with t as what the worker has read and computed.
LEMMA GotoTypes ==
    ASSUME TypeOK, NEW w \in Workers, NEW s \in Steps \ {"none"}, NEW t \in Txs,
           handler[w] # "none", Goto(w, s), tx' = [tx EXCEPT ![w] = t],
           UNCHANGED <<now, worker>>,
           autoStatus' \in AutoStatuses, nextRun' \in Instants, lastOccurrence' \in Instants,
           occurrence' \in [Jobs -> Instants], rowLock' \in Parties \cup {Nobody},
           mishaps' \subseteq {"missed", "shared", "collided"}
    PROVE  HandlersTypeOK'
<1>1. /\ handler \in [Workers -> Steps]
      /\ \A v \in Workers : handler[v] # "none" <=> worker[v].pc = "handling"
      /\ tx \in [Parties -> Txs]
      /\ now \in Nat
  BY DEF TypeOK, HandlersTypeOK, Txs
<1>2. /\ handler' \in [Workers -> Steps]
      /\ \A v \in Workers : handler'[v] # "none" <=> worker'[v].pc = "handling"
  BY <1>1 DEF Goto
<1>3. tx' \in [Parties -> Txs]
  BY <1>1
<1> QED
  BY <1>1, <1>2, <1>3 DEF HandlersTypeOK, Txs

\* What a party may put into its transaction.
LEMMA TxUpdates ==
    ASSUME TypeOK, NEW p \in Parties
    PROVE  /\ tx[p] \in Txs
           /\ NoTx \in Txs
           /\ \A t \in Txs, i \in Instants : [t EXCEPT !.next = i] \in Txs
           /\ \A t \in Txs, i \in Instants : [t EXCEPT !.occ = i] \in Txs
           /\ \A t \in Txs : [t EXCEPT !.seen = SeePending] \in Txs
           /\ \A t \in Txs, b \in BOOLEAN : [t EXCEPT !.owned = b] \in Txs
  BY SeesPending DEF TypeOK, HandlersTypeOK, Txs, NoTx, Instants

\* What an upsert of a party that is about to commit does to the payloads.
LEMMA CommitTypes ==
    ASSUME TypeOK, NEW w \in Workers, CommitsUpsert(w)
    PROVE  /\ occurrence' \in [Jobs -> Instants]
           /\ mishaps' \subseteq {"missed", "shared", "collided"}
<1>1. Queue!QueueTypeOK /\ HandlersTypeOK
  BY DEF TypeOK
<1>2. Completed(w) \in [Jobs -> Queue!JobStatuses]
  BY <1>1 DEF Completed, Queue!JobStatuses, Queue!QueueTypeOK, Queue!ColumnsTypeOK
<1>3. tx[w].seen \in Jobs \cup {NoJob} /\ tx[w].next \in Instants
  BY <1>1 DEF HandlersTypeOK, Parties
<1>4. CASE UNCHANGED <<due, occurrence, mishaps>>
  BY <1>1, <1>4 DEF HandlersTypeOK
<1>5. CASE Upsert(Completed(w), tx[w].seen, tx[w].next)
  BY <1>1, <1>2, <1>3, <1>5, UpsertTypes
<1> QED
  BY <1>4, <1>5 DEF CommitsUpsert

LEMMA HandlersTypeStep == TypeOK /\ [Next]_vars => HandlersTypeOK'
<1> SUFFICES ASSUME TypeOK, [Next]_vars PROVE HandlersTypeOK'
  OBVIOUS
<1>0. Queue!QueueTypeOK /\ HandlersTypeOK
  BY DEF TypeOK
<1>a. /\ now \in Nat
      /\ autoStatus \in AutoStatuses
      /\ nextRun \in Instants
      /\ lastOccurrence \in Instants
      /\ occurrence \in [Jobs -> Instants]
      /\ rowLock \in Parties \cup {Nobody}
      /\ tx \in [Parties -> Txs]
      /\ mishaps \subseteq {"missed", "shared", "collided"}
  BY <1>0 DEF HandlersTypeOK, Txs
<1>b. Workers \subseteq Parties /\ Resumer \in Parties
  BY DEF Parties
<1>c. NextAfter(now) \in Instants
  BY <1>a, NextIsInstant
<1>d. NoInstant \in Instants
  BY DEF Instants
<1>e. jobStatus \in [Jobs -> Queue!JobStatuses]
  BY <1>0 DEF Queue!QueueTypeOK, Queue!ColumnsTypeOK
<1>1. CASE CreateAutomation
  <2>1. /\ occurrence' \in [Jobs -> Instants]
        /\ mishaps' \subseteq {"missed", "shared", "collided"}
    BY <1>0, <1>1, <1>c, <1>e, UpsertTypes DEF CreateAutomation
  <2> QED
    BY <1>0, <1>1, <1>c, <2>1 DEF CreateAutomation, HandlersTypeOK, AutoStatuses, txVars
<1>2. CASE PauseAutomation \/ CancelAutomation \/ Tick
  <2>1. CASE PauseAutomation
    BY <1>0, <2>1 DEF PauseAutomation, HandlersTypeOK, AutoStatuses, txVars, queueVars
  <2>2. CASE CancelAutomation
    BY <1>0, <2>2, <1>d DEF CancelAutomation, HandlersTypeOK, AutoStatuses, txVars, queueVars
  <2>3. CASE Tick
    BY <1>0, <2>3 DEF Tick, HandlersTypeOK, autoVars, txVars, queueVars
  <2> QED
    BY <1>2, <2>1, <2>2, <2>3
<1>3. CASE ResumeBegins
  <2>1. [NoTx EXCEPT !.next = NextAfter(now), !.seen = SeePending] \in Txs
    BY <1>b, <1>c, TxUpdates
  <2>2. tx' \in [Parties -> Txs]
    BY <1>3, <1>a, <2>1 DEF ResumeBegins
  <2> QED
    BY <1>0, <1>3, <1>b, <2>2 DEF ResumeBegins, HandlersTypeOK, Txs, autoVars, queueVars
<1>4. CASE ResumeCommits
  <2>1. tx[Resumer].seen \in Jobs \cup {NoJob} /\ tx[Resumer].next \in Instants
    BY <1>a, <1>b DEF Txs
  <2>2. /\ occurrence' \in [Jobs -> Instants]
        /\ mishaps' \subseteq {"missed", "shared", "collided"}
    BY <1>0, <1>4, <1>e, <2>1, UpsertTypes DEF ResumeCommits
  <2>3. tx' \in [Parties -> Txs]
    BY <1>4, <1>a, <1>b, TxUpdates DEF ResumeCommits
  <2> QED
    BY <1>0, <1>4, <2>1, <2>2, <2>3 DEF ResumeCommits, HandlersTypeOK, Txs, AutoStatuses
<1>5. CASE ResumeAborts
  <2>1. tx' \in [Parties -> Txs]
    BY <1>5, <1>a, <1>b, TxUpdates DEF ResumeAborts
  <2> QED
    BY <1>0, <1>5, <2>1 DEF ResumeAborts, HandlersTypeOK, Txs, autoVars
<1>6. ASSUME NEW p \in Parties, UpsertCollides(p) PROVE HandlersTypeOK'
  <2>1. tx' = [tx EXCEPT ![p] = [tx[p] EXCEPT !.seen = SeePending]]
    BY <1>6, <1>a DEF UpsertCollides
  <2>2. tx' \in [Parties -> Txs]
    BY <1>a, <2>1, TxUpdates
  <2> QED
    BY <1>0, <1>6, <2>2 DEF UpsertCollides, HandlersTypeOK, Txs, autoVars, queueVars
<1>7. ASSUME NEW j \in Jobs, TimeStep(j) PROVE HandlersTypeOK'
  BY <1>0, <1>7 DEF TimeStep, Queue!RunAtPasses, Queue!LockAges, Unrelated, HandlersTypeOK,
     autoVars, txVars
<1>8. ASSUME NEW w \in Workers, NEW j \in Jobs, ClaimJob(w, j) PROVE HandlersTypeOK'
  <2>1. worker \in [Workers -> [pc : Queue!WorkerSteps, job : Jobs \cup {NoJob}, attempts : Nat]]
    BY <1>0 DEF Queue!QueueTypeOK, Queue!ColumnsTypeOK
  <2>2. /\ handler' \in [Workers -> Steps]
        /\ \A v \in Workers : handler'[v] # "none" <=> worker'[v].pc = "handling"
    BY <1>0, <1>8, <2>1 DEF ClaimJob, Queue!ClaimJob, Goto, Steps, HandlersTypeOK
  <2>3. [NoTx EXCEPT !.occ = occurrence[j]] \in Txs
    BY <1>a, <1>b, TxUpdates
  <2>4. tx' \in [Parties -> Txs]
    BY <1>8, <1>a, <2>3 DEF ClaimJob
  <2>5. mishaps' \subseteq {"missed", "shared", "collided"}
    BY <1>8, <1>a DEF ClaimJob
  <2> QED
    BY <1>0, <1>8, <2>2, <2>4, <2>5 DEF ClaimJob, HandlersTypeOK, Txs, autoVars
<1>9. ASSUME NEW w \in Workers, LoopStep(w) PROVE HandlersTypeOK'
  BY <1>0, <1>9, LoopKeepsHands DEF HandlersTypeOK, autoVars, txVars
<1>10. ASSUME NEW w \in Workers,
              NotActive(w) \/ ExecutionFails(w) \/ Return(w) \/ HandlerFaults(w) \/ WorkerCrash(w)
       PROVE  HandlersTypeOK'
  <2> DEFINE left == [pc : Queue!WorkerSteps \ {"handling"}, job : Jobs \cup {NoJob}, attempts : Nat]
  <2>0. worker \in [Workers -> [pc : Queue!WorkerSteps, job : Jobs \cup {NoJob}, attempts : Nat]]
    BY <1>0 DEF Queue!QueueTypeOK, Queue!ColumnsTypeOK
  <2>1. ASSUME NEW ok \in BOOLEAN, Queue!HandlerReturns(w, ok)
        PROVE  \E l \in left : worker' = [worker EXCEPT ![w] = l]
    <3>1. worker' = [worker EXCEPT ![w] =
            [worker[w] EXCEPT !.pc = IF ok THEN "completing" ELSE "failing"]]
      BY <2>0, <2>1 DEF Queue!HandlerReturns
    <3>2. [worker[w] EXCEPT !.pc = IF ok THEN "completing" ELSE "failing"] \in left
      BY <2>0 DEF Queue!WorkerSteps
    <3> QED
      BY <3>1, <3>2
  <2>2. \E l \in left : worker' = [worker EXCEPT ![w] = l]
    <3>1. CASE NotActive(w) \/ Return(w)
      BY <2>1, <3>1 DEF NotActive, Return, Queue!HandlerEnds
    <3>2. CASE ExecutionFails(w) \/ HandlerFaults(w)
      BY <2>1, <3>2 DEF ExecutionFails, HandlerFaults, Queue!HandlerEnds, Queue!HandlerFaults
    <3>3. CASE WorkerCrash(w)
      <4>1. Queue!Loop("down") \in left
        BY DEF Queue!Loop, Queue!WorkerSteps
      <4> QED
        BY <3>3, <4>1 DEF WorkerCrash, Queue!WorkerCrash
    <3> QED
      BY <1>10, <3>1, <3>2, <3>3
  <2>3. Leave(w)
    BY <1>10 DEF NotActive, ExecutionFails, Return, HandlerFaults, WorkerCrash
  <2> QED
    BY <2>2, <2>3, LeaveTypes
<1>11. ASSUME NEW w \in Workers, AlreadyRun(w) PROVE HandlersTypeOK'
  <2>1. tx' = [tx EXCEPT ![w] = [tx[w] EXCEPT !.next = nextRun]]
    BY <1>11, <1>a, <1>b DEF AlreadyRun
  <2>2. [tx[w] EXCEPT !.next = nextRun] \in Txs
    BY <1>a, <1>b, TxUpdates
  <2> QED
    BY <1>11, <1>a, <2>1, <2>2, GotoTypes DEF AlreadyRun, Steps, autoVars, queueVars
<1>12. ASSUME NEW w \in Workers, StartExecution(w) PROVE HandlersTypeOK'
  <2>1. tx' = [tx EXCEPT ![w] = tx[w]] /\ tx[w] \in Txs
    BY <1>12, <1>a, <1>b DEF StartExecution
  <2> QED
    BY <1>12, <1>a, <2>1, GotoTypes DEF StartExecution, Steps, autoVars, queueVars
<1>13. ASSUME NEW w \in Workers, ExecutionEnds(w) PROVE HandlersTypeOK'
  <2>1. tx' = [tx EXCEPT ![w] = [tx[w] EXCEPT !.next = NextAfter(now)]]
    BY <1>13, <1>a, <1>b DEF ExecutionEnds
  <2>2. [tx[w] EXCEPT !.next = NextAfter(now)] \in Txs
    BY <1>a, <1>b, <1>c, TxUpdates
  <2> QED
    BY <1>13, <1>a, <2>1, <2>2, GotoTypes DEF ExecutionEnds, Steps, autoVars, queueVars
<1>14. ASSUME NEW w \in Workers, CloseBegins(w) \/ ReplayBegins(w) PROVE HandlersTypeOK'
  <2> DEFINE t == [tx[w] EXCEPT !.seen = SeePending, !.owned = Queue!StillRunning(JobOf(w))]
  <2>0. BeginsUpsert(w)
    BY <1>14 DEF CloseBegins, ReplayBegins
  <2>1. tx' = [tx EXCEPT ![w] = t]
    BY <2>0, <1>a, <1>b DEF BeginsUpsert
  <2>2. t \in Txs
    <3>1. Queue!StillRunning(JobOf(w)) \in BOOLEAN
      BY DEF Queue!StillRunning
    <3> QED
      BY <1>a, <1>b, <3>1, TxUpdates
  <2>3. rowLock' \in Parties \cup {Nobody}
    BY <1>14, <1>a, <1>b DEF CloseBegins, ReplayBegins
  <2>4. handler[w] # "none"
    BY <1>14 DEF CloseBegins, ReplayBegins
  <2> HIDE DEF t
  <2> QED
    BY <2>0, <1>a, <2>1, <2>2, <2>3, <2>4, GotoTypes DEF BeginsUpsert, Steps, autoVars, queueVars
<1>15. ASSUME NEW w \in Workers, CloseUnrecorded(w) PROVE HandlersTypeOK'
  <2>1. tx' = [tx EXCEPT ![w] = tx[w]] /\ tx[w] \in Txs
    BY <1>15, <1>a, <1>b DEF CloseUnrecorded
  <2> QED
    BY <1>15, <1>a, <2>1, GotoTypes DEF CloseUnrecorded, Steps, autoVars
<1>16. ASSUME NEW w \in Workers, CloseCommits(w) \/ ReplayCommits(w) PROVE HandlersTypeOK'
  <2>1. CommitsUpsert(w)
    BY <1>16 DEF CloseCommits, ReplayCommits
  <2>2. tx' = [tx EXCEPT ![w] = NoTx] /\ NoTx \in Txs
    BY <2>1, <1>b, TxUpdates DEF CommitsUpsert
  <2>3. /\ nextRun' \in Instants
        /\ lastOccurrence' \in Instants
        /\ rowLock' \in Parties \cup {Nobody}
    BY <1>16, <1>a, <1>b DEF CloseCommits, ReplayCommits, Txs
  <2>4. /\ handler[w] # "none"
        /\ Goto(w, "returning")
        /\ UNCHANGED <<now, worker, autoStatus>>
    BY <2>1 DEF CommitsUpsert
  <2> QED
    BY <1>a, <2>1, <2>2, <2>3, <2>4, CommitTypes, GotoTypes DEF Steps
<1>17. CASE UNCHANGED vars
  BY <1>0, <1>17 DEF vars, queueVars, autoVars, txVars, HandlersTypeOK
<1>18. ASSUME NEW w \in Workers, HandlerStep(w) PROVE HandlersTypeOK'
  BY <1>b, <1>6, <1>10, <1>11, <1>12, <1>13, <1>14, <1>15, <1>16, <1>18 DEF HandlerStep
<1> QED
  BY <1>b, <1>1, <1>2, <1>3, <1>4, <1>5, <1>6, <1>7, <1>8, <1>9, <1>10, <1>17, <1>18
  DEF Next, ResumeStep

LEMMA TypeInit == Init => TypeOK
<1> SUFFICES ASSUME Init PROVE TypeOK
  OBVIOUS
<1>1. Queue!Init
  BY DEF Init
<1>2. worker \in [Workers -> [pc : Queue!WorkerSteps, job : Jobs \cup {NoJob}, attempts : Nat]]
  BY <1>1 DEF Queue!Init, Queue!Loop, Queue!WorkerSteps
<1>3. Queue!QueueTypeOK
  BY <1>1, <1>2 DEF Queue!Init, Queue!QueueTypeOK, Queue!ColumnsTypeOK,
     Queue!LockedWhileRunning, Queue!JobStatuses, Queue!Locks, Queue!Busy, Queue!Loop
<1>4. tx \in [Parties -> Txs]
  BY DEF Init, NoTx, Txs, Instants
<1> QED
  BY <1>1, <1>3, <1>4 DEF Init, Queue!Init, Queue!Loop, TypeOK, HandlersTypeOK, Txs,
     AutoStatuses, Steps, Instants

\* Every variable of the automation and of its queue keeps its type: a worker is in
\* the handler exactly while its loop waits for one, and a job has a lock exactly
\* while it runs (fire_due_automation, worker/loop.py).
THEOREM TypeCorrect == Spec => []TypeOK
<1>1. TypeOK /\ [Next]_vars => TypeOK'
  BY QueueTypeStep, HandlersTypeStep DEF TypeOK
<1> QED
  BY <1>1, TypeInit, PTL DEF Spec

-----------------------------------------------------------------------------
(***************************************************************************)
(* The next run is later than the one on record.  What is claimed has come *)
(* (JobsKnow), so what a worker handles is not ahead of the clock, while   *)
(* the next occurrence is computed from the clock (WorkersKnow).           *)
(***************************************************************************)
Open == {"pending", "running"}

JobsKnow ==
    /\ \A j \in Jobs : jobStatus[j] \in Open => occurrence[j] \in Int
    /\ \A j \in Jobs : due[j] => occurrence[j] \in Int /\ occurrence[j] <= now

AtWork(w) == handler[w] \notin {"none", "returning"}

WorkersKnow ==
    /\ rowLock = Resumer => tx[Resumer].next \in Int
    /\ \A w \in Workers : AtWork(w) => tx[w].occ \in Int /\ tx[w].occ <= now
    /\ \A w \in Workers : rowLock = w => handler[w] = "upserting"
    /\ \A w \in Workers :
         handler[w] = "closing" \/ rowLock = w
         => tx[w].next = NoInstant \/ (tx[w].next \in Int /\ tx[w].next > tx[w].occ)

\* What does not open a job or make one due.
LEMMA QuietJobs ==
    ASSUME TypeOK, JobsKnow, now' \in Nat, now' >= now, UNCHANGED occurrence,
           \A j \in Jobs : jobStatus'[j] \in Open => jobStatus[j] \in Open,
           \A j \in Jobs : due'[j] => due[j]
    PROVE  JobsKnow'
<1>1. now \in Nat
  BY DEF TypeOK, HandlersTypeOK
<1> QED
  BY <1>1 DEF JobsKnow

LEMMA QueueKeepsDue ==
    ASSUME TypeOK, NEW w \in Workers, LoopStep(w)
    PROVE  /\ \A j \in Jobs : jobStatus'[j] \in Open => jobStatus[j] \in Open
           /\ \A j \in Jobs : due'[j] => due[j]
<1>1. /\ jobStatus \in [Jobs -> Queue!JobStatuses]
      /\ due \in [Jobs -> BOOLEAN]
  BY DEF TypeOK, Queue!QueueTypeOK, Queue!ColumnsTypeOK
<1>2. ASSUME NEW s, NEW n, NEW d, Queue!SettleJob(w, s, n, d), d => due[JobOf(w)]
      PROVE  /\ \A j \in Jobs : jobStatus'[j] \in Open => jobStatus[j] \in Open
             /\ \A j \in Jobs : due'[j] => due[j]
  <2>1. CASE Queue!StillRunning(JobOf(w))
    BY <1>1, <1>2, <2>1 DEF Queue!SettleJob, Queue!StillRunning, JobOf, Open
  <2>2. CASE ~ Queue!StillRunning(JobOf(w))
    BY <1>2, <2>2 DEF Queue!SettleJob, JobOf, Queue!jobVars
  <2> QED
    BY <2>1, <2>2
<1>3. CASE StartWorker(w)
  BY <1>1, <1>3 DEF StartWorker, Queue!StartWorker, Queue!RecoverStaleJobs, Queue!Recoverable,
     Open
<1>4. CASE FailCollides(w)
  BY <1>4 DEF FailCollides
<1>5. CASE Queue!CompleteJob(w)
  BY <1>2, <1>5 DEF Queue!CompleteJob, JobOf
<1>6. CASE Queue!ReadFailed(w)
  BY <1>6 DEF Queue!ReadFailed, Queue!jobVars
<1>7. CASE Queue!FailJob(w)
  BY <1>2, <1>7 DEF Queue!FailJob
<1> QED
  BY <1>3, <1>4, <1>5, <1>6, <1>7 DEF LoopStep

\* An upsert of an instant opens one job for it, which is not due.
LEMMA UpsertKnows ==
    ASSUME TypeOK, JobsKnow, UNCHANGED now,
           NEW status \in [Jobs -> Queue!JobStatuses],
           \A k \in Jobs : status[k] \in Open => jobStatus[k] \in Open,
           NEW seen \in Jobs \cup {NoJob}, NEW next \in Int,
           Upsert(status, seen, next)
    PROVE  JobsKnow'
<1>1. Queue!QueueTypeOK /\ HandlersTypeOK /\ next \in Instants
  BY DEF TypeOK, Instants
<1>2. /\ \A k \in Jobs : due'[k] => due[k] /\ occurrence'[k] = occurrence[k]
      /\ \A k \in Jobs : occurrence'[k] = next \/
           (occurrence'[k] = occurrence[k] /\ jobStatus'[k] = status[k])
  BY <1>1, UpsertTypes
<1> QED
  BY <1>2 DEF JobsKnow

LEMMA JobsKnowStep == TypeOK /\ JobsKnow /\ WorkersKnow /\ [Next]_vars => JobsKnow'
<1> SUFFICES ASSUME TypeOK, JobsKnow, WorkersKnow, [Next]_vars PROVE JobsKnow'
  OBVIOUS
<1>a. /\ jobStatus \in [Jobs -> Queue!JobStatuses]
      /\ due \in [Jobs -> BOOLEAN]
      /\ now \in Nat
      /\ occurrence \in [Jobs -> Instants]
      /\ tx \in [Parties -> Txs]
  BY DEF TypeOK, Queue!QueueTypeOK, Queue!ColumnsTypeOK, HandlersTypeOK, Txs
<1>b. Workers \subseteq Parties /\ Resumer \in Parties
  BY DEF Parties
<1>1. CASE CreateAutomation
  <2>1. NextAfter(now) \in Int
    BY <1>1, <1>a, NextIsInstant DEF CreateAutomation, Instants
  <2> QED
    BY <1>1, <1>a, <2>1, UpsertKnows DEF CreateAutomation
<1>2. CASE ResumeCommits
  <2>1. tx[Resumer].next \in Int /\ tx[Resumer].seen \in Jobs \cup {NoJob}
    BY <1>2, <1>a, <1>b DEF ResumeCommits, WorkersKnow, Txs
  <2> QED
    BY <1>2, <1>a, <2>1, UpsertKnows DEF ResumeCommits
<1>3. ASSUME NEW w \in Workers, CommitsUpsert(w) PROVE JobsKnow'
  <2>1. /\ Completed(w) \in [Jobs -> Queue!JobStatuses]
        /\ \A k \in Jobs : Completed(w)[k] \in Open => jobStatus[k] \in Open
    BY <1>a DEF Completed, Queue!JobStatuses, Open
  <2>2. tx[w].next \in Instants /\ tx[w].seen \in Jobs \cup {NoJob}
    BY <1>a, <1>b DEF Txs
  <2>3. CASE jobStatus' = Completed(w) /\ UNCHANGED <<due, occurrence, mishaps>>
    BY <1>3, <1>a, <2>1, <2>3, QuietJobs DEF CommitsUpsert
  <2>4. CASE tx[w].next # NoInstant /\ Upsert(Completed(w), tx[w].seen, tx[w].next)
    BY <1>3, <2>1, <2>2, <2>4, UpsertKnows DEF CommitsUpsert, Instants
  <2> QED
    BY <1>3, <2>3, <2>4 DEF CommitsUpsert
<1>4. ASSUME NEW w \in Workers, CloseUnrecorded(w) PROVE JobsKnow'
  <2>1. \A k \in Jobs : jobStatus'[k] \in Open => jobStatus[k] \in Open
    BY <1>4, <1>a DEF CloseUnrecorded, Open
  <2> QED
    BY <1>4, <1>a, <2>1, QuietJobs DEF CloseUnrecorded
<1>5. ASSUME NEW w \in Workers, LoopStep(w) PROVE JobsKnow'
  <2>1. UNCHANGED <<now, occurrence>>
    BY <1>5, LoopKeepsHands DEF TypeOK
  <2> QED
    BY <1>5, <1>a, <2>1, QueueKeepsDue, QuietJobs
<1>6. ASSUME NEW w \in Workers, NEW j \in Jobs, ClaimJob(w, j) PROVE JobsKnow'
  <2>1. \A k \in Jobs : jobStatus'[k] \in Open => jobStatus[k] \in Open
    BY <1>6, <1>a DEF ClaimJob, Queue!ClaimJob, Open
  <2> QED
    BY <1>6, <1>a, <2>1, QuietJobs DEF ClaimJob, Queue!ClaimJob
<1>7. ASSUME NEW j \in Jobs, TimeStep(j) PROVE JobsKnow'
  <2>1. UNCHANGED <<now, occurrence, jobStatus>>
    BY <1>7 DEF TimeStep, Unrelated, Queue!RunAtPasses, Queue!LockAges
  <2>2. CASE Queue!LockAges(j)
    BY <1>a, <2>1, <2>2, QuietJobs DEF Queue!LockAges
  <2>3. CASE Queue!RunAtPasses(j) /\ occurrence[j] <= now
    BY <1>a, <2>1, <2>3 DEF Queue!RunAtPasses, JobsKnow, Open
  <2> QED
    BY <1>7, <2>2, <2>3 DEF TimeStep
<1>8. CASE Tick
  BY <1>8, <1>a, QuietJobs DEF Tick, queueVars
<1>9. ASSUME NEW w \in Workers,
             NotActive(w) \/ ExecutionFails(w) \/ Return(w) \/ HandlerFaults(w) \/ WorkerCrash(w)
      PROVE  JobsKnow'
  <2>1. UNCHANGED <<now, occurrence>>
    BY <1>9 DEF NotActive, ExecutionFails, Return, HandlerFaults, WorkerCrash, Leave
  <2>2. UNCHANGED <<jobStatus, due>>
    BY <1>9 DEF NotActive, ExecutionFails, Return, HandlerFaults, WorkerCrash, Queue!HandlerEnds,
       Queue!HandlerFaults, Queue!HandlerReturns, Queue!WorkerCrash, Queue!jobVars
  <2> QED
    BY <1>a, <2>1, <2>2, QuietJobs
<1>10. ASSUME UNCHANGED <<now, occurrence, jobStatus, due>> PROVE JobsKnow'
  BY <1>a, <1>10, QuietJobs
<1>11. ASSUME NEW w \in Workers,
              AlreadyRun(w) \/ StartExecution(w) \/ ExecutionEnds(w) \/ BeginsUpsert(w)
              \/ UpsertCollides(w)
       PROVE  JobsKnow'
  BY <1>10, <1>11 DEF AlreadyRun, StartExecution, ExecutionEnds, BeginsUpsert, UpsertCollides,
     queueVars
<1>12. CASE \/ PauseAutomation \/ CancelAutomation \/ ResumeBegins \/ ResumeAborts
            \/ UpsertCollides(Resumer) \/ UNCHANGED vars
  BY <1>10, <1>12 DEF PauseAutomation, CancelAutomation, ResumeBegins, ResumeAborts,
     UpsertCollides, vars, queueVars
<1>13. ASSUME NEW w \in Workers, HandlerStep(w) PROVE JobsKnow'
  BY <1>3, <1>4, <1>9, <1>11, <1>13 DEF HandlerStep, CloseBegins, ReplayBegins, CloseCommits,
     ReplayCommits
<1> QED
  BY <1>1, <1>2, <1>5, <1>6, <1>7, <1>8, <1>9, <1>12, <1>13 DEF Next, ResumeStep

\* One worker moves to s with t in its transaction.
LEMMA WorkerMoves ==
    ASSUME TypeOK, WorkersKnow, UNCHANGED now,
           NEW w \in Workers, NEW s \in Steps, NEW t \in Txs,
           Goto(w, s), tx' = [tx EXCEPT ![w] = t], rowLock' \in {rowLock, w, Nobody},
           s \notin {"none", "returning"} => t.occ \in Int /\ t.occ <= now,
           rowLock' = w => s = "upserting",
           s = "closing" \/ rowLock' = w
           => t.next = NoInstant \/ (t.next \in Int /\ t.next > t.occ)
    PROVE  WorkersKnow'
<1>1. /\ handler \in [Workers -> Steps]
      /\ tx \in [Parties -> Txs]
  BY DEF TypeOK, HandlersTypeOK, Txs
<1>2. /\ handler'[w] = s
      /\ tx'[w] = t
      /\ \A v \in Workers \ {w} : handler'[v] = handler[v] /\ tx'[v] = tx[v]
      /\ tx'[Resumer] = tx[Resumer]
  BY <1>1, AutomationAssumption DEF Goto, Parties
<1>3. /\ rowLock' = Resumer => rowLock = Resumer
      /\ \A v \in Workers \ {w} : rowLock' = v => rowLock = v
  BY AutomationAssumption DEF Parties
<1>4. ASSUME NEW v \in Workers
      PROVE  /\ AtWork(v)' => tx'[v].occ \in Int /\ tx'[v].occ <= now'
             /\ rowLock' = v => handler'[v] = "upserting"
             /\ handler'[v] = "closing" \/ rowLock' = v
                => tx'[v].next = NoInstant \/ (tx'[v].next \in Int /\ tx'[v].next > tx'[v].occ)
  <2>1. CASE v = w
    BY <1>2, <2>1 DEF AtWork
  <2>2. CASE v # w
    BY <1>2, <1>3, <2>2 DEF AtWork, WorkersKnow
  <2> QED
    BY <2>1, <2>2
<1>5. rowLock' = Resumer => tx'[Resumer].next \in Int
  BY <1>2, <1>3 DEF WorkersKnow
<1> QED
  BY <1>4, <1>5 DEF WorkersKnow, AtWork

\* Nobody moves, and what is known of the transactions stays.
LEMMA NobodyMoves ==
    ASSUME TypeOK, WorkersKnow, now' \in Nat, now' >= now,
           UNCHANGED handler, rowLock' \in {rowLock, Nobody},
           \A v \in Workers : tx'[v].occ = tx[v].occ /\ tx'[v].next = tx[v].next,
           rowLock' = Resumer => tx'[Resumer].next = tx[Resumer].next
    PROVE  WorkersKnow'
<1>1. now \in Nat
  BY DEF TypeOK, HandlersTypeOK
<1>2. /\ rowLock' = Resumer => rowLock = Resumer
      /\ \A v \in Workers : rowLock' = v => rowLock = v
  BY AutomationAssumption DEF Parties
<1> QED
  BY <1>1, <1>2 DEF WorkersKnow, AtWork

LEMMA WorkersKnowStep ==
    ASSUME NoFallBack, TypeOK, JobsKnow, WorkersKnow, [Next]_vars
    PROVE  WorkersKnow'
<1>a. /\ now \in Nat
      /\ tx \in [Parties -> Txs]
      /\ handler \in [Workers -> Steps]
      /\ \A w \in Workers : handler[w] # "none" <=> worker[w].pc = "handling"
      /\ nextRun \in Instants
  BY DEF TypeOK, HandlersTypeOK, Txs
<1>b. Workers \subseteq Parties /\ Resumer \in Parties
  BY DEF Parties
<1>c. NextAfter(now) = NoInstant \/ (NextAfter(now) \in Int /\ NextAfter(now) > now)
  BY <1>a, NextIsInstant, NextIsLater DEF Instants
<1>1. ASSUME UNCHANGED <<now, handler, rowLock, tx>> PROVE WorkersKnow'
  BY <1>a, <1>1, NobodyMoves
<1>2. CASE \/ CreateAutomation \/ PauseAutomation \/ CancelAutomation \/ UNCHANGED vars
  BY <1>1, <1>2 DEF CreateAutomation, PauseAutomation, CancelAutomation, vars, txVars
<1>3. CASE Tick
  BY <1>a, <1>3, NobodyMoves DEF Tick, txVars
<1>4. ASSUME NEW j \in Jobs, TimeStep(j) PROVE WorkersKnow'
  BY <1>1, <1>4 DEF TimeStep, Unrelated, txVars
<1>5. ASSUME NEW w \in Workers, LoopStep(w) PROVE WorkersKnow'
  BY <1>1, <1>5, LoopKeepsHands DEF TypeOK, txVars
<1>6. CASE ResumeBegins
  <2>1. /\ rowLock' = Resumer
        /\ UNCHANGED <<now, handler>>
        /\ tx'[Resumer].next = NextAfter(now)
        /\ NextAfter(now) \in Int
        /\ \A v \in Workers : tx'[v] = tx[v]
    BY <1>6, <1>a, <1>b, <1>c, AutomationAssumption DEF ResumeBegins, NoTx
  <2> QED
    BY <2>1, AutomationAssumption DEF WorkersKnow, AtWork
<1>7. CASE ResumeCommits \/ ResumeAborts
  <2>1. /\ rowLock' = Nobody
        /\ UNCHANGED <<now, handler>>
        /\ \A v \in Workers : tx'[v] = tx[v]
    BY <1>7, <1>a, <1>b, AutomationAssumption DEF ResumeCommits, ResumeAborts
  <2>2. Nobody # Resumer
    BY <1>b, AutomationAssumption
  <2> QED
    BY <1>a, <2>1, <2>2, NobodyMoves
<1>8. ASSUME NEW p \in Parties, UpsertCollides(p) PROVE WorkersKnow'
  <2>1. /\ UNCHANGED <<now, handler, rowLock>>
        /\ \A q \in Parties : tx'[q].occ = tx[q].occ /\ tx'[q].next = tx[q].next
    BY <1>8, <1>a DEF UpsertCollides, Txs
  <2> QED
    BY <1>a, <1>b, <2>1, NobodyMoves
<1>9. ASSUME NEW w \in Workers, handler[w] # "upserting" PROVE rowLock # w
  BY <1>9 DEF WorkersKnow
<1>10. ASSUME NEW w \in Workers, NEW j \in Jobs, ClaimJob(w, j) PROVE WorkersKnow'
  <2> DEFINE t == [NoTx EXCEPT !.occ = occurrence[j]]
  <2>1. occurrence[j] \in Int /\ occurrence[j] <= now
    BY <1>10 DEF ClaimJob, Queue!ClaimJob, JobsKnow
  <2>2. t \in Txs /\ t.occ = occurrence[j]
    BY <2>1 DEF NoTx, Txs, Instants
  <2>3. rowLock # w
    BY <1>10, <1>a, <1>9 DEF ClaimJob, Queue!ClaimJob
  <2>4. UNCHANGED <<now, rowLock>> /\ Goto(w, "reading") /\ tx' = [tx EXCEPT ![w] = t]
    BY <1>10 DEF ClaimJob
  <2> HIDE DEF t
  <2> QED
    BY <2>1, <2>2, <2>3, <2>4, WorkerMoves DEF Steps
<1>11. ASSUME NEW w \in Workers, Leave(w) PROVE WorkersKnow'
  <2>1. UNCHANGED now /\ Goto(w, "none") /\ tx' = [tx EXCEPT ![w] = NoTx]
    BY <1>11 DEF Leave
  <2>2. rowLock' \in {rowLock, w, Nobody} /\ rowLock' # w
    BY <1>11, <1>b, AutomationAssumption DEF Leave
  <2>3. NoTx \in Txs
    BY TxUpdates, <1>b
  <2> QED
    BY <2>1, <2>2, <2>3, WorkerMoves DEF Steps
<1>12. ASSUME NEW w \in Workers, AlreadyRun(w) PROVE WorkersKnow'
  <2> DEFINE t == [tx[w] EXCEPT !.next = nextRun]
  <2>1. t \in Txs /\ t.occ = tx[w].occ
    BY <1>a, <1>b DEF Txs
  <2>2. UNCHANGED <<now, rowLock>> /\ Goto(w, "replaying") /\ tx' = [tx EXCEPT ![w] = t]
    BY <1>12, <1>a, <1>b DEF AlreadyRun
  <2>3. tx[w].occ \in Int /\ tx[w].occ <= now /\ rowLock # w
    BY <1>12, <1>9 DEF AlreadyRun, WorkersKnow, AtWork
  <2> HIDE DEF t
  <2> QED
    BY <2>1, <2>2, <2>3, WorkerMoves DEF Steps
<1>13. ASSUME NEW w \in Workers, StartExecution(w) PROVE WorkersKnow'
  <2>1. tx[w] \in Txs /\ tx' = [tx EXCEPT ![w] = tx[w]]
    BY <1>13, <1>a, <1>b DEF StartExecution
  <2>2. UNCHANGED <<now, rowLock>> /\ Goto(w, "executing")
    BY <1>13 DEF StartExecution
  <2>3. tx[w].occ \in Int /\ tx[w].occ <= now /\ rowLock # w
    BY <1>13, <1>9 DEF StartExecution, WorkersKnow, AtWork
  <2> QED
    BY <2>1, <2>2, <2>3, WorkerMoves DEF Steps
<1>14. ASSUME NEW w \in Workers, ExecutionEnds(w) PROVE WorkersKnow'
  <2> DEFINE t == [tx[w] EXCEPT !.next = NextAfter(now)]
  <2>1. t \in Txs /\ t.occ = tx[w].occ /\ t.next = NextAfter(now)
    BY <1>a, <1>b, <1>c DEF Txs, Instants
  <2>2. UNCHANGED <<now, rowLock>> /\ Goto(w, "closing") /\ tx' = [tx EXCEPT ![w] = t]
    BY <1>14, <1>a, <1>b DEF ExecutionEnds
  <2>3. tx[w].occ \in Int /\ tx[w].occ <= now /\ rowLock # w
    BY <1>14, <1>9 DEF ExecutionEnds, WorkersKnow, AtWork
  <2>4. t.next = NoInstant \/ (t.next \in Int /\ t.next > t.occ)
    BY <1>a, <1>c, <2>1, <2>3
  <2> HIDE DEF t
  <2> QED
    BY <2>1, <2>2, <2>3, <2>4, WorkerMoves DEF Steps
<1>15. ASSUME NEW w \in Workers, CloseBegins(w) \/ ReplayBegins(w) PROVE WorkersKnow'
  <2> DEFINE t == [tx[w] EXCEPT !.seen = SeePending, !.owned = Queue!StillRunning(JobOf(w))]
  <2>0. BeginsUpsert(w)
    BY <1>15 DEF CloseBegins, ReplayBegins
  <2>1. t \in Txs /\ t.occ = tx[w].occ /\ t.next = tx[w].next
    BY <1>a, <1>b, SeesPending DEF Txs, Queue!StillRunning
  <2>2. UNCHANGED now /\ Goto(w, "upserting") /\ tx' = [tx EXCEPT ![w] = t]
    BY <2>0, <1>a, <1>b DEF BeginsUpsert
  <2>3. rowLock' \in {rowLock, w, Nobody}
    BY <1>15 DEF CloseBegins, ReplayBegins
  <2>4. tx[w].occ \in Int /\ tx[w].occ <= now
    BY <1>15 DEF CloseBegins, ReplayBegins, WorkersKnow, AtWork
  <2>5. rowLock' = w => tx[w].next = NoInstant \/ (tx[w].next \in Int /\ tx[w].next > tx[w].occ)
    <3>1. CASE CloseBegins(w)
      BY <3>1 DEF CloseBegins, WorkersKnow
    <3>2. CASE ReplayBegins(w)
      BY <3>2, <1>9 DEF ReplayBegins
    <3> QED
      BY <1>15, <3>1, <3>2
  <2> HIDE DEF t
  <2> QED
    BY <2>1, <2>2, <2>3, <2>4, <2>5, WorkerMoves DEF Steps
<1>16. ASSUME NEW w \in Workers, CloseUnrecorded(w) PROVE WorkersKnow'
  <2>1. tx[w] \in Txs /\ tx' = [tx EXCEPT ![w] = tx[w]]
    BY <1>16, <1>a, <1>b DEF CloseUnrecorded
  <2>2. UNCHANGED <<now, rowLock>> /\ Goto(w, "returning")
    BY <1>16 DEF CloseUnrecorded
  <2>3. rowLock # w
    BY <1>16, <1>9 DEF CloseUnrecorded
  <2> QED
    BY <2>1, <2>2, <2>3, WorkerMoves DEF Steps
<1>17. ASSUME NEW w \in Workers, CloseCommits(w) \/ ReplayCommits(w) PROVE WorkersKnow'
  <2>1. /\ UNCHANGED now
        /\ Goto(w, "returning")
        /\ tx' = [tx EXCEPT ![w] = NoTx]
    BY <1>17 DEF CloseCommits, ReplayCommits, CommitsUpsert
  <2>2. rowLock' \in {rowLock, w, Nobody} /\ rowLock' # w
    BY <1>17, <1>b, AutomationAssumption DEF CloseCommits, ReplayCommits
  <2>3. NoTx \in Txs
    BY TxUpdates, <1>b
  <2> QED
    BY <2>1, <2>2, <2>3, WorkerMoves DEF Steps
<1>18. ASSUME NEW w \in Workers,
              NotActive(w) \/ ExecutionFails(w) \/ Return(w) \/ HandlerFaults(w) \/ WorkerCrash(w)
       PROVE  WorkersKnow'
  BY <1>11, <1>18 DEF NotActive, ExecutionFails, Return, HandlerFaults, WorkerCrash
<1>19. ASSUME NEW w \in Workers, HandlerStep(w) PROVE WorkersKnow'
  BY <1>b, <1>8, <1>12, <1>13, <1>14, <1>15, <1>16, <1>17, <1>18, <1>19 DEF HandlerStep
<1> QED
  BY <1>b, <1>2, <1>3, <1>4, <1>5, <1>6, <1>7, <1>8, <1>10, <1>18, <1>19 DEF Next, ResumeStep

LEMMA KnowInit == Init => JobsKnow /\ WorkersKnow
  BY AutomationAssumption DEF Init, Queue!Init, JobsKnow, WorkersKnow, AtWork, Open, Parties

\* Only a close records an occurrence, and it records the next run with it.
LEMMA AdvanceStep == TypeOK /\ WorkersKnow /\ [Next]_vars => [RecordAdvances]_vars
<1> SUFFICES ASSUME TypeOK, WorkersKnow, [Next]_vars,
                    lastOccurrence' # lastOccurrence, nextRun' # NoInstant
             PROVE  nextRun' > lastOccurrence'
  BY DEF RecordAdvances
<1>1. ASSUME NEW w \in Workers, CloseCommits(w) PROVE nextRun' > lastOccurrence'
  BY <1>1 DEF CloseCommits, WorkersKnow
<1>2. ASSUME UNCHANGED lastOccurrence PROVE FALSE
  BY <1>2
<1>3. ASSUME NEW w \in Workers, HandlerStep(w) PROVE \E v \in Workers : CloseCommits(v)
  BY <1>2, <1>3 DEF HandlerStep, NotActive, AlreadyRun, StartExecution, ExecutionEnds,
     ExecutionFails, CloseBegins, ReplayBegins, BeginsUpsert, CloseUnrecorded, UpsertCollides,
     ReplayCommits, Return, Leave, autoVars
<1>4. ASSUME NEW w \in Workers, LoopStep(w) PROVE FALSE
  BY <1>2, <1>4, LoopKeepsHands DEF TypeOK, autoVars
<1>5. ASSUME NEW w \in Workers, HandlerFaults(w) \/ WorkerCrash(w) PROVE FALSE
  BY <1>2, <1>5 DEF HandlerFaults, WorkerCrash, Leave, autoVars
<1>6. ASSUME NEW w \in Workers, NEW j \in Jobs, ClaimJob(w, j) PROVE FALSE
  BY <1>2, <1>6 DEF ClaimJob, autoVars
<1>7. ASSUME NEW j \in Jobs, TimeStep(j) PROVE FALSE
  BY <1>2, <1>7 DEF TimeStep, Unrelated, autoVars
<1>8. CASE \/ CreateAutomation \/ PauseAutomation \/ CancelAutomation \/ ResumeBegins
           \/ ResumeStep \/ ResumeAborts \/ Tick \/ UNCHANGED vars
  BY <1>2, <1>8 DEF CreateAutomation, PauseAutomation, CancelAutomation, ResumeBegins,
     ResumeStep, UpsertCollides, ResumeCommits, ResumeAborts, Tick, vars, autoVars
<1> QED
  BY <1>1, <1>3, <1>4, <1>5, <1>6, <1>7, <1>8 DEF Next

\* Where the clock is never set back, the next run that is recorded with an
\* occurrence is later than that occurrence, whatever the workers, the user and
\* the faults do (_close_wake_up; automation_falls_back shows that the
\* assumption is needed).
THEOREM NextRunIsLater == ASSUME NoFallBack PROVE Spec => Advances
<1>1. JobsKnow /\ WorkersKnow /\ TypeOK /\ [Next]_vars => JobsKnow' /\ WorkersKnow'
  BY JobsKnowStep, WorkersKnowStep
<1>2. Spec => [](JobsKnow /\ WorkersKnow)
  BY <1>1, KnowInit, TypeCorrect, PTL DEF Spec
<1> QED
  BY <1>2, TypeCorrect, AdvanceStep, PTL DEF Spec, Advances

-----------------------------------------------------------------------------
(***************************************************************************)
(* The chain of wake-ups.  A job carries it that is pending, or that runs  *)
(* and is in no hands but such as will fail it or leave a successor.  What *)
(* a transaction has completed is running until it commits, and is its own *)
(* (OwnedRuns), so no job that carries the chain is lost without one.      *)
(***************************************************************************)
OwnedRuns ==
    /\ \A w \in Workers :
         tx[w].owned => handler[w] = "upserting" /\ jobStatus[JobOf(w)] = "running"
    /\ \A v, w \in Workers : tx[v].owned /\ tx[w].owned /\ JobOf(v) = JobOf(w) => v = w
    /\ \A w \in Workers : rowLock = w => handler[w] = "upserting"

Keeps(w) ==
    \/ worker[w].pc \in {"failing", "requeueing"}
    \/ handler[w] \in {"reading", "executing", "closing"}
    \/ handler[w] \in {"replaying", "upserting"} /\ (tx[w].next # NoInstant \/ rowLock = w)
Carried(j) ==
    \/ jobStatus[j] = "pending"
    \/ /\ jobStatus[j] = "running"
       /\ \A w \in Workers : Queue!Busy(w) /\ JobOf(w) = j => Keeps(w)
Broken ==
    \/ \E j \in Jobs : jobStatus[j] = "dead"
    \/ {"missed", "shared"} \cap mishaps # {}
Wakes == autoStatus = "active" /\ nextRun # NoInstant
Carries == Wakes => Broken \/ \E j \in Jobs : Carried(j)
WakeInv == OwnedRuns /\ Carries

\* What is dead or went wrong stays so, and whatever carries the chain still does.
LEMMA CarriesOn ==
    ASSUME Carries, Wakes' => Wakes \/ Broken' \/ \E j \in Jobs : Carried(j)',
           mishaps \subseteq mishaps',
           \A j \in Jobs : jobStatus[j] = "dead" => jobStatus'[j] = "dead",
           Wakes /\ Wakes' => \A j \in Jobs :
             Carried(j) => Broken' \/ \E i \in Jobs : Carried(i)'
    PROVE  Carries'
<1>1. Broken => Broken'
  BY DEF Broken
<1> QED
  BY <1>1 DEF Carries

\* A step that leaves the jobs, and lets nobody take one in hand.
LEMMA WakeQuiet ==
    ASSUME TypeOK, WakeInv, Wakes' => Wakes, UNCHANGED jobStatus, mishaps \subseteq mishaps',
           \A v \in Workers : tx'[v].owned
             => tx[v].owned /\ handler'[v] = handler[v] /\ JobOf(v)' = JobOf(v),
           \A v \in Workers : rowLock' = v => rowLock = v /\ handler'[v] = handler[v],
           \A v \in Workers : Queue!Busy(v)'
             => Queue!Busy(v) /\ JobOf(v)' = JobOf(v) /\ (Keeps(v) => Keeps(v)')
    PROVE  WakeInv'
<1>1. OwnedRuns'
  BY DEF WakeInv, OwnedRuns
<1>2. \A j \in Jobs : Carried(j) => Carried(j)'
  BY DEF Carried
<1>3. Carries'
  BY <1>2, CarriesOn DEF WakeInv
<1> QED
  BY <1>1, <1>3 DEF WakeInv

\* An upsert leaves a wake-up pending, or has missed it.
LEMMA UpsertWakes ==
    ASSUME NEW status \in [Jobs -> Queue!JobStatuses],
           NEW seen \in Jobs \cup {NoJob}, NEW next,
           Upsert(status, seen, next)
    PROVE  Broken' \/ \E j \in Jobs : Carried(j)'
<1>1. ASSUME NEW j \in Jobs, Schedule(status, j, next) PROVE jobStatus'[j] = "pending"
  BY <1>1 DEF Schedule
<1>2. CASE seen # NoJob /\ Schedule(status, seen, next)
  BY <1>1, <1>2 DEF Carried
<1>3. CASE mishaps' = mishaps \cup {"missed"}
  BY <1>3 DEF Broken
<1>4. CASE HasNewJob /\ Schedule(status, NewJob, next)
  BY <1>1, <1>4, NewJobIsUnused DEF Carried
<1> QED
  BY <1>2, <1>3, <1>4 DEF Upsert

\* An upsert forgets nothing that went wrong.
LEMMA UpsertForgetsNot ==
    ASSUME NEW status, NEW seen, NEW next, Upsert(status, seen, next)
    PROVE  mishaps \subseteq mishaps'
  BY DEF Upsert, Schedule

\* What the loop does to the jobs: it only touches a running one whose row is free,
\* and makes it done only for a worker that has left its handler.
LEMMA LoopJobs ==
    ASSUME TypeOK, NEW w \in Workers, LoopStep(w)
    PROVE  /\ \A v \in Workers : v # w => worker'[v] = worker[v]
           /\ worker[w].pc # "handling"
           /\ \/ worker'[w].pc \in {"down", "polling"}
              \/ worker'[w].pc = "requeueing" /\ worker[w].pc = "failing" /\ JobOf(w)' = JobOf(w)
           /\ \A j \in Jobs : jobStatus'[j] # jobStatus[j] =>
                /\ jobStatus[j] = "running"
                /\ ~ RowHeld(j, w)
                /\ \/ jobStatus'[j] \in {"pending", "dead"}
                   \/ jobStatus'[j] = "done" /\ worker[w].pc = "completing" /\ JobOf(w) = j
<1>1. /\ worker \in [Workers -> [pc : Queue!WorkerSteps, job : Jobs \cup {NoJob}, attempts : Nat]]
      /\ jobStatus \in [Jobs -> Queue!JobStatuses]
  BY DEF TypeOK, Queue!QueueTypeOK, Queue!ColumnsTypeOK
<1>2. ASSUME NEW s, NEW n, NEW d, Queue!SettleJob(w, s, n, d)
      PROVE  /\ worker' = [worker EXCEPT ![w] = Queue!Loop("polling")]
             /\ \A j \in Jobs : jobStatus'[j] # jobStatus[j] =>
                  jobStatus[j] = "running" /\ j = JobOf(w) /\ jobStatus'[j] = s
  <2>1. worker' = [worker EXCEPT ![w] = Queue!Loop("polling")]
    BY <1>2 DEF Queue!SettleJob
  <2>2. CASE Queue!StillRunning(JobOf(w))
    <3>1. jobStatus' = [jobStatus EXCEPT ![JobOf(w)] = s]
      BY <1>2, <2>2 DEF Queue!SettleJob, JobOf
    <3> QED
      BY <1>1, <2>1, <2>2, <3>1 DEF Queue!StillRunning
  <2>3. CASE ~ Queue!StillRunning(JobOf(w))
    BY <1>2, <2>1, <2>3 DEF Queue!SettleJob, JobOf, Queue!jobVars
  <2> QED
    BY <2>2, <2>3
<1>3. CASE StartWorker(w)
  <2>1. /\ worker[w].pc = "down"
        /\ worker' = [worker EXCEPT ![w] = Queue!Loop("polling")]
    BY <1>3 DEF StartWorker, Queue!StartWorker
  <2>2. \A j \in Jobs : jobStatus'[j] # jobStatus[j] =>
          jobStatus[j] = "running" /\ ~ RowHeld(j, w) /\ jobStatus'[j] = "pending"
    BY <1>3 DEF StartWorker, Queue!StartWorker, Queue!RecoverStaleJobs, ToRecover,
                Queue!Recoverable
  <2> QED
    BY <1>1, <2>1, <2>2 DEF Queue!Loop
<1>4. CASE FailCollides(w)
  BY <1>1, <1>4 DEF FailCollides, Requeues, Queue!Loop
<1>5. CASE Queue!CompleteJob(w) /\ ~ RowHeld(JobOf(w), w)
  <2>1. \E n \in {attempts[JobOf(w)]}, d \in {due[JobOf(w)]} : Queue!SettleJob(w, "done", n, d)
    BY <1>5 DEF Queue!CompleteJob, JobOf
  <2>2. worker[w].pc = "completing"
    BY <1>5 DEF Queue!CompleteJob
  <2> QED
    BY <1>1, <1>2, <1>5, <2>1, <2>2 DEF Queue!Loop
<1>6. CASE Queue!ReadFailed(w)
  <2>1. UNCHANGED jobStatus /\ worker[w].pc = "failing"
    BY <1>6 DEF Queue!ReadFailed, Queue!jobVars
  <2>2. \/ worker' = [worker EXCEPT ![w] =
             [pc |-> "requeueing", job |-> JobOf(w), attempts |-> attempts[JobOf(w)]]]
        \/ worker' = [worker EXCEPT ![w] = Queue!Loop("polling")]
    BY <1>6 DEF Queue!ReadFailed, JobOf
  <2> QED
    BY <1>1, <2>1, <2>2 DEF Queue!Loop, JobOf
<1>7. CASE Queue!FailJob(w) /\ ~ RowHeld(JobOf(w), w)
  <2>1. \E s \in {"dead", "pending"}, n \in {worker[w].attempts + 1}, d \in BOOLEAN :
          Queue!SettleJob(w, s, n, d)
    BY <1>7 DEF Queue!FailJob
  <2>2. worker[w].pc = "requeueing"
    BY <1>7 DEF Queue!FailJob
  <2> QED
    BY <1>1, <1>2, <1>7, <2>1, <2>2 DEF Queue!Loop
<1> QED
  BY <1>3, <1>4, <1>5, <1>6, <1>7 DEF LoopStep

LEMMA WakeLoop ==
    ASSUME TypeOK, WakeInv, NEW w \in Workers, LoopStep(w)
    PROVE  WakeInv'
<1>1. /\ \A v \in Workers : v # w => worker'[v] = worker[v]
      /\ worker[w].pc # "handling"
      /\ \/ worker'[w].pc \in {"down", "polling"}
         \/ worker'[w].pc = "requeueing" /\ worker[w].pc = "failing" /\ JobOf(w)' = JobOf(w)
  BY LoopJobs
<1>2. \A j \in Jobs : jobStatus'[j] # jobStatus[j] =>
                /\ jobStatus[j] = "running"
                /\ ~ RowHeld(j, w)
                /\ \/ jobStatus'[j] \in {"pending", "dead"}
                   \/ jobStatus'[j] = "done" /\ worker[w].pc = "completing" /\ JobOf(w) = j
  BY LoopJobs
<1>3. UNCHANGED <<autoStatus, nextRun, rowLock, handler, tx>>
  BY LoopKeepsHands DEF TypeOK, autoVars, txVars
<1>4. mishaps \subseteq mishaps'
  BY DEF LoopStep, StartWorker, FailCollides
<1>5. /\ \A v \in Workers : handler[v] # "none" <=> worker[v].pc = "handling"
      /\ \A v \in Workers : Queue!Busy(v) => JobOf(v) \in Jobs
  BY DEF TypeOK, HandlersTypeOK, Queue!QueueTypeOK, Queue!ColumnsTypeOK, JobOf
<1>6. OwnedRuns'
  <2>1. ASSUME NEW v \in Workers, tx[v].owned
        PROVE  /\ v # w
               /\ JobOf(v)' = JobOf(v)
               /\ handler'[v] = "upserting"
               /\ jobStatus'[JobOf(v)] = "running"
    <3>1. handler[v] = "upserting" /\ jobStatus[JobOf(v)] = "running"
      BY <2>1 DEF WakeInv, OwnedRuns
    <3>2. v # w /\ JobOf(v) \in Jobs
      BY <1>1, <1>5, <3>1 DEF Queue!Busy
    <3>3. RowHeld(JobOf(v), w)
      BY <2>1, <3>2 DEF RowHeld
    <3> QED
      BY <1>1, <1>2, <1>3, <3>1, <3>2, <3>3 DEF JobOf
  <2> QED
    BY <1>3, <2>1 DEF WakeInv, OwnedRuns
<1>7. ASSUME NEW j \in Jobs, Carried(j) PROVE Broken' \/ Carried(j)'
  <2>1. CASE jobStatus'[j] = "pending"
    BY <2>1 DEF Carried
  <2>2. CASE jobStatus'[j] = "dead"
    BY <2>2 DEF Broken
  <2>3. ~ (jobStatus'[j] # jobStatus[j] /\ jobStatus'[j] = "done")
    BY <1>2, <1>5, <1>7 DEF Carried, Keeps, Queue!Busy
  <2>4. CASE jobStatus'[j] = jobStatus[j] /\ jobStatus[j] = "running"
    <3>1. ASSUME NEW v \in Workers, Queue!Busy(v)', JobOf(v)' = j PROVE Keeps(v)'
      <4>1. CASE v = w
        BY <1>1, <3>1, <4>1 DEF Queue!Busy, Keeps
      <4>2. CASE v # w
        BY <1>1, <1>3, <1>7, <2>4, <3>1, <4>2 DEF Carried, Queue!Busy, JobOf, Keeps
      <4> QED
        BY <4>1, <4>2
    <3> QED
      BY <2>4, <3>1 DEF Carried
  <2> QED
    BY <1>2, <1>7, <2>1, <2>2, <2>3, <2>4 DEF Carried
<1>8. Carries'
  <2>1. \A j \in Jobs : jobStatus[j] = "dead" => jobStatus'[j] = "dead"
    BY <1>2
  <2>2. Wakes' => Wakes
    BY <1>3 DEF Wakes
  <2> QED
    BY <1>4, <1>7, <2>1, <2>2, CarriesOn DEF WakeInv
<1> QED
  BY <1>6, <1>8 DEF WakeInv

\* What a step of a handler does to the rows, to the other workers and to the lock.
LEMMA HandlerJobs ==
    ASSUME TypeOK, OwnedRuns, NEW w \in Workers, HandlerStep(w)
    PROVE  /\ \A v \in Workers : v # w =>
                worker'[v] = worker[v] /\ handler'[v] = handler[v] /\ tx'[v] = tx[v]
           /\ \A v \in Workers : v # w => (rowLock' = v <=> rowLock = v)
           /\ JobOf(w)' = JobOf(w) /\ handler[w] # "none"
           /\ mishaps \subseteq mishaps'
           /\ \A j \in Jobs : jobStatus'[j] # jobStatus[j] =>
                \/ jobStatus[j] = "none" /\ jobStatus'[j] = "pending"
                \/ jobStatus[j] = "running" /\ JobOf(w) = j /\ ~ RowHeld(j, w)
<1>1. /\ worker \in [Workers -> [pc : Queue!WorkerSteps, job : Jobs \cup {NoJob}, attempts : Nat]]
      /\ jobStatus \in [Jobs -> Queue!JobStatuses]
      /\ handler \in [Workers -> Steps]
      /\ tx \in [Parties -> Txs]
      /\ Workers \subseteq Parties
  BY DEF TypeOK, HandlersTypeOK, Queue!QueueTypeOK, Queue!ColumnsTypeOK, Txs, Parties
<1> DEFINE Others == \A v \in Workers : v # w =>
                worker'[v] = worker[v] /\ handler'[v] = handler[v] /\ tx'[v] = tx[v]
           Lock == \A v \in Workers : v # w => (rowLock' = v <=> rowLock = v)
           Mine == JobOf(w)' = JobOf(w) /\ handler[w] # "none"
           Rows == \A j \in Jobs : jobStatus'[j] # jobStatus[j] =>
                \/ jobStatus[j] = "none" /\ jobStatus'[j] = "pending"
                \/ jobStatus[j] = "running" /\ JobOf(w) = j /\ ~ RowHeld(j, w)
<1>2. ASSUME NotActive(w) \/ ExecutionFails(w) \/ Return(w)
      PROVE  Others /\ Lock /\ Mine /\ mishaps \subseteq mishaps' /\ Rows
  <2>1. \E ok \in BOOLEAN : Queue!HandlerReturns(w, ok)
    BY <1>2 DEF NotActive, ExecutionFails, Return, Queue!HandlerEnds
  <2>2. Leave(w)
    BY <1>2 DEF NotActive, ExecutionFails, Return
  <2>3. /\ \A v \in Workers : v # w => worker'[v] = worker[v]
        /\ JobOf(w)' = JobOf(w)
        /\ UNCHANGED jobStatus
    BY <1>1, <2>1 DEF Queue!HandlerReturns, Queue!jobVars, JobOf
  <2>4. /\ \A v \in Workers : v # w => handler'[v] = handler[v] /\ tx'[v] = tx[v]
        /\ Lock
        /\ UNCHANGED mishaps
    BY <1>1, <2>2, AutomationAssumption DEF Leave, Goto, Parties
  <2>5. handler[w] # "none"
    BY <1>2 DEF NotActive, ExecutionFails, Return
  <2> QED
    BY <2>3, <2>4, <2>5
<1>3. ASSUME AlreadyRun(w) \/ StartExecution(w) \/ ExecutionEnds(w) \/ CloseBegins(w)
             \/ ReplayBegins(w) \/ UpsertCollides(w)
      PROVE  Others /\ Lock /\ Mine /\ mishaps \subseteq mishaps' /\ Rows
  <2>1. UNCHANGED <<worker, jobStatus, mishaps>>
    BY <1>3 DEF AlreadyRun, StartExecution, ExecutionEnds, CloseBegins, ReplayBegins,
                BeginsUpsert, UpsertCollides, queueVars
  <2>2. \A v \in Workers : v # w => handler'[v] = handler[v] /\ tx'[v] = tx[v]
    BY <1>1, <1>3 DEF AlreadyRun, StartExecution, ExecutionEnds, CloseBegins, ReplayBegins,
                      BeginsUpsert, UpsertCollides, Goto
  <2>3. Lock
    BY <1>3, AutomationAssumption
    DEF AlreadyRun, StartExecution, ExecutionEnds, CloseBegins, ReplayBegins, UpsertCollides,
        Parties
  <2>4. handler[w] # "none"
    <3>1. CASE UpsertCollides(w)
      BY <3>1 DEF UpsertCollides, OwnedRuns
    <3> QED
      BY <1>3, <3>1 DEF AlreadyRun, StartExecution, ExecutionEnds, CloseBegins, ReplayBegins
  <2> QED
    BY <2>1, <2>2, <2>3, <2>4 DEF JobOf
<1>4. ASSUME CloseUnrecorded(w)
      PROVE  Others /\ Lock /\ Mine /\ mishaps \subseteq mishaps' /\ Rows
  BY <1>1, <1>4 DEF CloseUnrecorded, Goto, JobOf
<1>5. ASSUME CloseCommits(w) \/ ReplayCommits(w)
      PROVE  Others /\ Lock /\ Mine /\ mishaps \subseteq mishaps' /\ Rows
  <2>1. CommitsUpsert(w)
    BY <1>5 DEF CloseCommits, ReplayCommits
  <2>2. Lock
    BY <1>5, AutomationAssumption DEF CloseCommits, ReplayCommits, Parties
  <2>3. Others /\ Mine
    BY <1>1, <2>1 DEF CommitsUpsert, Goto, JobOf
  <2>4. mishaps \subseteq mishaps'
    BY <2>1, UpsertForgetsNot DEF CommitsUpsert
  <2>5. Completed(w) \in [Jobs -> Queue!JobStatuses]
    BY <1>1 DEF Completed, Queue!JobStatuses
  <2>6. \A j \in Jobs :
          jobStatus'[j] = Completed(w)[j] \/
          (jobStatus'[j] = "pending" /\ (Completed(w)[j] = "pending" \/ Unused(j)))
    <3>1. tx[w].seen \in Jobs \cup {NoJob} /\ tx[w].next \in Instants
      BY <1>1 DEF Txs
    <3>2. CASE Upsert(Completed(w), tx[w].seen, tx[w].next)
      BY <2>5, <3>1, <3>2, UpsertTypes DEF TypeOK
    <3> QED
      BY <2>1, <3>2 DEF CommitsUpsert
  <2>7. \A j \in Jobs : Completed(w)[j] # jobStatus[j] =>
          /\ Completed(w)[j] = "done"
          /\ jobStatus[j] = "running"
          /\ JobOf(w) = j
          /\ ~ RowHeld(j, w)
    BY <1>1 DEF Completed, OwnedRuns, RowHeld
  <2>8. Rows
    BY <2>6, <2>7 DEF Unused
  <2> QED
    BY <2>2, <2>3, <2>4, <2>8
<1> HIDE DEF Others, Lock, Mine, Rows
<1>6. Others /\ Lock /\ Mine /\ mishaps \subseteq mishaps' /\ Rows
  BY <1>2, <1>3, <1>4, <1>5 DEF HandlerStep
<1> QED
  BY <1>6 DEF Others, Lock, Mine, Rows

\* A handler owns a row only between the two steps of its close, and nobody else does.
LEMMA HandlerOwns ==
    ASSUME TypeOK, OwnedRuns, NEW w \in Workers, HandlerStep(w)
    PROVE  OwnedRuns'
<1>1. /\ \A v \in Workers : v # w =>
           worker'[v] = worker[v] /\ handler'[v] = handler[v] /\ tx'[v] = tx[v]
      /\ JobOf(w)' = JobOf(w)
      /\ \A v \in Workers : v # w => (rowLock' = v <=> rowLock = v)
      /\ \A j \in Jobs : jobStatus'[j] # jobStatus[j] =>
           \/ jobStatus[j] = "none"
           \/ jobStatus[j] = "running" /\ JobOf(w) = j /\ ~ RowHeld(j, w)
  BY HandlerJobs
<1>2. /\ handler \in [Workers -> Steps]
      /\ tx \in [Parties -> Txs]
      /\ Workers \subseteq Parties
      /\ \A v \in Workers : handler[v] # "none" <=> worker[v].pc = "handling"
      /\ \A v \in Workers : Queue!Busy(v) => JobOf(v) \in Jobs
  BY DEF TypeOK, HandlersTypeOK, Queue!QueueTypeOK, Queue!ColumnsTypeOK, Txs, Parties, JobOf
<1>3. ASSUME NEW v \in Workers, v # w, tx[v].owned
      PROVE  /\ handler'[v] = "upserting"
             /\ JobOf(v)' = JobOf(v)
             /\ jobStatus'[JobOf(v)] = "running"
  <2>1. handler[v] = "upserting" /\ jobStatus[JobOf(v)] = "running" /\ JobOf(v) \in Jobs
    BY <1>2, <1>3 DEF OwnedRuns, Queue!Busy
  <2>2. RowHeld(JobOf(v), w)
    BY <1>3 DEF RowHeld
  <2> QED
    BY <1>1, <1>3, <2>1, <2>2 DEF JobOf
<1>4. tx'[w].owned => /\ handler'[w] = "upserting"
                      /\ jobStatus'[JobOf(w)] = "running"
                      /\ \A v \in Workers : v # w /\ tx[v].owned => JobOf(v) # JobOf(w)
  <2>1. CASE BeginsUpsert(w)
    <3>1. /\ handler'[w] = "upserting"
          /\ tx'[w].owned = Queue!StillRunning(JobOf(w))
          /\ UNCHANGED jobStatus
          /\ ~ RowHeld(JobOf(w), w)
      BY <1>2, <2>1 DEF BeginsUpsert, Goto, queueVars, Txs
    <3> QED
      BY <3>1 DEF Queue!StillRunning, RowHeld
  <2>2. CASE UpsertCollides(w)
    BY <1>2, <2>2 DEF UpsertCollides, queueVars, OwnedRuns, Txs
  <2>3. CASE AlreadyRun(w) \/ StartExecution(w) \/ ExecutionEnds(w) \/ CloseUnrecorded(w)
    <3>1. tx'[w].owned = tx[w].owned
      BY <1>2, <2>3 DEF AlreadyRun, StartExecution, ExecutionEnds, CloseUnrecorded, Txs
    <3>2. handler[w] # "upserting"
      BY <2>3 DEF AlreadyRun, StartExecution, ExecutionEnds, CloseUnrecorded
    <3> QED
      BY <3>1, <3>2 DEF OwnedRuns
  <2>4. CASE NotActive(w) \/ ExecutionFails(w) \/ Return(w) \/ CloseCommits(w) \/ ReplayCommits(w)
    <3>1. tx' = [tx EXCEPT ![w] = NoTx]
      BY <2>4 DEF NotActive, ExecutionFails, Return, CloseCommits, ReplayCommits,
                  CommitsUpsert, Leave
    <3>2. tx'[w].owned = FALSE
      BY <1>2, <3>1 DEF NoTx
    <3> QED
      BY <3>2
  <2> QED
    BY <2>1, <2>2, <2>3, <2>4 DEF HandlerStep, CloseBegins, ReplayBegins
<1>5. rowLock' = w => handler'[w] = "upserting"
  <2>1. CASE BeginsUpsert(w)
    BY <1>2, <2>1 DEF BeginsUpsert, Goto
  <2>2. CASE NotActive(w) \/ ExecutionFails(w) \/ Return(w) \/ CloseCommits(w) \/ ReplayCommits(w)
    BY <2>2, AutomationAssumption DEF NotActive, ExecutionFails, Return, CloseCommits,
       ReplayCommits, Leave, Parties
  <2>3. CASE \/ AlreadyRun(w) \/ StartExecution(w) \/ ExecutionEnds(w)
             \/ CloseUnrecorded(w) \/ UpsertCollides(w)
    BY <2>3 DEF AlreadyRun, StartExecution, ExecutionEnds, CloseUnrecorded, UpsertCollides,
                OwnedRuns
  <2> QED
    BY <2>1, <2>2, <2>3 DEF HandlerStep, CloseBegins, ReplayBegins
<1> QED
  BY <1>1, <1>3, <1>4, <1>5 DEF OwnedRuns

\* The worker that has a job in hand keeps the chain, or leaves a successor.
LEMMA HandlerKeeps ==
    ASSUME TypeOK, Wakes, Wakes', NEW w \in Workers, HandlerStep(w), Keeps(w)
    PROVE  \/ Broken' \/ \E j \in Jobs : Carried(j)'
           \/ Keeps(w)' /\ UNCHANGED jobStatus
<1>1. /\ worker \in [Workers -> [pc : Queue!WorkerSteps, job : Jobs \cup {NoJob}, attempts : Nat]]
      /\ handler \in [Workers -> Steps]
      /\ tx \in [Parties -> Txs]
      /\ w \in Parties
      /\ handler[w] # "none" <=> worker[w].pc = "handling"
      /\ jobStatus \in [Jobs -> Queue!JobStatuses]
  BY DEF TypeOK, HandlersTypeOK, Queue!QueueTypeOK, Queue!ColumnsTypeOK, Txs, Parties
<1>2. CASE CommitsUpsert(w) /\ tx[w].next # NoInstant
  <2>1. Upsert(Completed(w), tx[w].seen, tx[w].next)
    BY <1>2 DEF CommitsUpsert
  <2>2. Completed(w) \in [Jobs -> Queue!JobStatuses] /\ tx[w].seen \in Jobs \cup {NoJob}
    BY <1>1 DEF Completed, Queue!JobStatuses, Txs
  <2> QED
    BY <2>1, <2>2, UpsertWakes
<1>3. CASE CloseCommits(w)
  <2>1. CommitsUpsert(w) /\ tx[w].next # NoInstant
    BY <1>3 DEF CloseCommits, Wakes
  <2> QED
    BY <1>2, <2>1
<1>4. CASE ReplayCommits(w)
  <2>1. CommitsUpsert(w) /\ handler[w] = "upserting" /\ rowLock # w
    BY <1>4 DEF ReplayCommits, CommitsUpsert
  <2>2. tx[w].next # NoInstant
    BY <1>1, <2>1 DEF Keeps
  <2> QED
    BY <1>2, <2>1, <2>2
<1>5. CASE NotActive(w) \/ CloseUnrecorded(w) \/ Return(w)
  <2>1. ~ Return(w)
    BY <1>1 DEF Return, Keeps
  <2> QED
    BY <1>5, <2>1 DEF NotActive, CloseUnrecorded, Wakes
<1>6. CASE ExecutionFails(w)
  <2>1. worker'[w].pc = "failing" /\ UNCHANGED jobStatus
    BY <1>1, <1>6 DEF ExecutionFails, Queue!HandlerEnds, Queue!HandlerReturns, Queue!jobVars
  <2> QED
    BY <2>1 DEF Keeps
<1>7. CASE AlreadyRun(w)
  <2>1. handler'[w] = "replaying" /\ tx'[w].next = nextRun /\ UNCHANGED jobStatus
    BY <1>1, <1>7 DEF AlreadyRun, Goto, queueVars, Txs
  <2> QED
    BY <2>1 DEF Keeps, Wakes
<1>8. CASE StartExecution(w) \/ ExecutionEnds(w)
  BY <1>1, <1>8 DEF StartExecution, ExecutionEnds, Goto, queueVars, Keeps
<1>9. CASE CloseBegins(w)
  BY <1>1, <1>9 DEF CloseBegins, BeginsUpsert, Goto, queueVars, Keeps
<1>10. CASE ReplayBegins(w)
  <2>1. /\ handler[w] = "replaying" /\ handler'[w] = "upserting"
        /\ tx'[w].next = tx[w].next
        /\ UNCHANGED <<rowLock, jobStatus>>
    BY <1>1, <1>10 DEF ReplayBegins, BeginsUpsert, Goto, queueVars, Txs
  <2> QED
    BY <1>1, <2>1 DEF Keeps
<1>11. CASE UpsertCollides(w)
  <2>1. /\ UNCHANGED <<rowLock, jobStatus, handler, worker>>
        /\ tx'[w].next = tx[w].next
    BY <1>1, <1>11 DEF UpsertCollides, queueVars, Txs
  <2> QED
    BY <2>1 DEF Keeps
<1> QED
  BY <1>3, <1>4, <1>5, <1>6, <1>7, <1>8, <1>9, <1>10, <1>11 DEF HandlerStep

LEMMA WakeHandler ==
    ASSUME TypeOK, WakeInv, NEW w \in Workers, HandlerStep(w)
    PROVE  WakeInv'
<1>0. OwnedRuns
  BY DEF WakeInv
<1>1. /\ \A v \in Workers : v # w =>
           worker'[v] = worker[v] /\ handler'[v] = handler[v] /\ tx'[v] = tx[v]
      /\ \A v \in Workers : v # w => (rowLock' = v <=> rowLock = v)
      /\ JobOf(w)' = JobOf(w) /\ handler[w] # "none"
      /\ mishaps \subseteq mishaps'
      /\ \A j \in Jobs : jobStatus'[j] # jobStatus[j] =>
           \/ jobStatus[j] = "none" /\ jobStatus'[j] = "pending"
           \/ jobStatus[j] = "running" /\ JobOf(w) = j
  BY <1>0, HandlerJobs
<1>2. worker[w].pc = "handling"
  BY <1>1 DEF TypeOK, HandlersTypeOK
<1>3. ASSUME NEW v \in Workers, v # w
      PROVE  (Keeps(v) => Keeps(v)') /\ (Queue!Busy(v)' <=> Queue!Busy(v)) /\ JobOf(v)' = JobOf(v)
  BY <1>1, <1>3 DEF Keeps, Queue!Busy, JobOf
<1>4. ASSUME NEW j \in Jobs, Carried(j), Wakes, Wakes'
      PROVE  Broken' \/ \E i \in Jobs : Carried(i)'
  <2>1. CASE jobStatus[j] = "pending"
    BY <1>1, <2>1 DEF Carried
  <2>2. CASE jobStatus[j] = "running" /\ JobOf(w) # j
    BY <1>1, <1>3, <1>4, <2>2 DEF Carried
  <2>3. CASE jobStatus[j] = "running" /\ JobOf(w) = j
    <3>1. Keeps(w)
      BY <1>2, <1>4, <2>3 DEF Carried, Queue!Busy
    <3>2. CASE Keeps(w)' /\ UNCHANGED jobStatus
      <4>1. \A v \in Workers : Queue!Busy(v)' /\ JobOf(v)' = j => Keeps(v)'
        BY <1>3, <1>4, <2>3, <3>2 DEF Carried
      <4>2. Carried(j)'
        BY <2>3, <3>2, <4>1 DEF Carried
      <4> QED
        BY <4>2
    <3> QED
      BY <1>4, <3>1, <3>2, HandlerKeeps
  <2> QED
    BY <1>4, <2>1, <2>2, <2>3 DEF Carried
\* Only a close changes the next run.
<1>5. Wakes' => Wakes \/ Broken' \/ \E j \in Jobs : Carried(j)'
  <2>1. CASE CloseCommits(w)
    <3>1. Wakes' => tx[w].next # NoInstant
      BY <2>1 DEF CloseCommits, Wakes
    <3>2. CommitsUpsert(w)
      BY <2>1 DEF CloseCommits
    <3>3. tx[w].next # NoInstant => Upsert(Completed(w), tx[w].seen, tx[w].next)
      BY <3>2 DEF CommitsUpsert
    <3>4. Completed(w) \in [Jobs -> Queue!JobStatuses] /\ tx[w].seen \in Jobs \cup {NoJob}
      BY DEF Completed, Queue!JobStatuses, TypeOK, HandlersTypeOK, Queue!QueueTypeOK,
             Queue!ColumnsTypeOK, Parties
    <3> QED
      BY <3>1, <3>3, <3>4, UpsertWakes
  <2>2. CASE ~ CloseCommits(w)
    <3>1. UNCHANGED <<autoStatus, nextRun>>
      BY <2>2 DEF HandlerStep, NotActive, AlreadyRun, StartExecution, ExecutionEnds,
         ExecutionFails, CloseBegins, ReplayBegins, BeginsUpsert, CloseUnrecorded,
         UpsertCollides, ReplayCommits, CommitsUpsert, Return, Leave, autoVars
    <3> QED
      BY <3>1 DEF Wakes
  <2> QED
    BY <2>1, <2>2
<1>6. \A j \in Jobs : jobStatus[j] = "dead" => jobStatus'[j] = "dead"
  BY <1>1
<1>7. Carries'
  BY <1>1, <1>4, <1>5, <1>6, CarriesOn DEF WakeInv
<1> QED
  BY <1>0, <1>7, HandlerOwns DEF WakeInv

\* A tool that ends with an upsert leaves the workers alone.
LEMMA WakeUpserts ==
    ASSUME TypeOK, WakeInv, NEW seen \in Jobs \cup {NoJob}, NEW next \in Instants,
           Upsert(jobStatus, seen, next),
           UNCHANGED <<worker, handler>>,
           \A v \in Workers : tx'[v] = tx[v] /\ (rowLock' = v => rowLock = v)
    PROVE  WakeInv'
<1>1. jobStatus \in [Jobs -> Queue!JobStatuses]
  BY DEF TypeOK, Queue!QueueTypeOK, Queue!ColumnsTypeOK
<1>2. \A j \in Jobs :
        jobStatus'[j] = jobStatus[j] \/
        (jobStatus'[j] = "pending" /\ (jobStatus[j] = "pending" \/ Unused(j)))
  BY <1>1, UpsertTypes DEF TypeOK
<1>3. \A v \in Workers : tx[v].owned => JobOf(v) \in Jobs
  BY DEF WakeInv, OwnedRuns, TypeOK, HandlersTypeOK, Queue!QueueTypeOK, Queue!ColumnsTypeOK,
         Queue!Busy, JobOf
<1>4. OwnedRuns'
  BY <1>2, <1>3 DEF WakeInv, OwnedRuns, JobOf, Unused
<1>5. Broken' \/ \E j \in Jobs : Carried(j)'
  BY <1>1, UpsertWakes
<1>6. Carries'
  BY <1>5 DEF Carries
<1> QED
  BY <1>4, <1>6 DEF WakeInv

\* The worker that claims a wake-up has it in hand alone, or shares it.
LEMMA WakeClaim ==
    ASSUME TypeOK, WakeInv, NEW w \in Workers, NEW j \in Jobs, ClaimJob(w, j)
    PROVE  WakeInv'
<1>1. /\ worker \in [Workers -> [pc : Queue!WorkerSteps, job : Jobs \cup {NoJob}, attempts : Nat]]
      /\ jobStatus \in [Jobs -> Queue!JobStatuses]
      /\ handler \in [Workers -> Steps]
      /\ tx \in [Parties -> Txs]
      /\ Workers \subseteq Parties
      /\ \A v \in Workers : handler[v] # "none" <=> worker[v].pc = "handling"
      /\ \A v \in Workers : Queue!Busy(v) => JobOf(v) \in Jobs
  BY DEF TypeOK, HandlersTypeOK, Queue!QueueTypeOK, Queue!ColumnsTypeOK, Txs, Parties, JobOf
<1>2. /\ worker[w].pc = "polling"
      /\ jobStatus[j] = "pending"
      /\ jobStatus' = [jobStatus EXCEPT ![j] = "running"]
      /\ worker' = [worker EXCEPT ![w] = [pc |-> "handling", job |-> j, attempts |-> attempts[j]]]
      /\ handler' = [handler EXCEPT ![w] = "reading"]
      /\ UNCHANGED <<rowLock, autoStatus, nextRun>>
  BY DEF ClaimJob, Queue!ClaimJob, Goto, autoVars
<1>3. mishaps' = mishaps \cup {m \in {"shared"} : \E v \in Workers : JobOf(v) = j}
  BY DEF ClaimJob
<1>4. tx'[w].owned = FALSE /\ \A v \in Workers : v # w => tx'[v] = tx[v]
  BY <1>1 DEF ClaimJob, NoTx
<1>5. handler'[w] = "reading" /\ JobOf(w)' = j
  BY <1>1, <1>2 DEF JobOf
<1>6. \A v \in Workers : v # w =>
        worker'[v] = worker[v] /\ handler'[v] = handler[v] /\ JobOf(v)' = JobOf(v)
  BY <1>1, <1>2 DEF JobOf
<1>7. OwnedRuns'
  <2>1. ASSUME NEW v \in Workers, tx'[v].owned
        PROVE  /\ v # w /\ tx[v].owned
               /\ handler'[v] = "upserting"
               /\ jobStatus'[JobOf(v)'] = "running"
    BY <1>1, <1>2, <1>4, <1>6, <2>1 DEF WakeInv, OwnedRuns, Queue!Busy
  <2>2. \A v \in Workers : rowLock' = v => handler'[v] = "upserting"
    BY <1>1, <1>2, <1>6 DEF WakeInv, OwnedRuns
  <2>3. \A u, v \in Workers :
          tx'[u].owned /\ tx'[v].owned /\ JobOf(u)' = JobOf(v)' => u = v
    BY <1>6, <2>1 DEF WakeInv, OwnedRuns
  <2> QED
    BY <2>1, <2>2, <2>3 DEF OwnedRuns
<1>8. CASE \E v \in Workers : JobOf(v) = j
  <2>1. Broken'
    BY <1>3, <1>8 DEF Broken
  <2> QED
    BY <1>7, <2>1 DEF WakeInv, Carries
<1>9. CASE \A v \in Workers : JobOf(v) # j
  <2>1. ASSUME NEW i \in Jobs, Carried(i) PROVE Carried(i)'
    <3>1. ASSUME NEW v \in Workers, Queue!Busy(v)', JobOf(v)' = i, jobStatus'[i] # "pending"
          PROVE  Keeps(v)'
      <4>1. CASE v = w
        BY <1>5, <4>1 DEF Keeps
      <4>2. CASE v # w
        <5>1. i # j /\ Queue!Busy(v) /\ JobOf(v) = i
          BY <1>6, <1>9, <3>1, <4>2 DEF Queue!Busy
        <5>2. jobStatus[i] = jobStatus'[i]
          BY <1>1, <1>2, <5>1
        <5>3. jobStatus[i] # "pending" => Keeps(v)
          BY <2>1, <5>1 DEF Carried
        <5>4. Keeps(v) => Keeps(v)'
          BY <1>2, <1>4, <1>6, <4>2 DEF Keeps
        <5> QED
          BY <3>1, <5>2, <5>3, <5>4
      <4> QED
        BY <4>1, <4>2
    <3> QED
      BY <1>1, <1>2, <2>1, <3>1 DEF Carried
  <2>2. \A i \in Jobs : jobStatus[i] = "dead" => jobStatus'[i] = "dead"
    BY <1>1, <1>2
  <2>3. Wakes' => Wakes
    BY <1>2 DEF Wakes
  <2>4. mishaps \subseteq mishaps'
    BY <1>3
  <2>5. Carries'
    BY <2>1, <2>2, <2>3, <2>4, CarriesOn DEF WakeInv
  <2> QED
    BY <1>7, <2>5 DEF WakeInv
<1> QED
  BY <1>8, <1>9

\* A worker that fails or dies in its handler gives up what it had not committed, and
\* whatever it had in hand is left to the recovery, or to its own fail_job.
LEMMA WakeLeave ==
    ASSUME TypeOK, WakeInv, NEW w \in Workers, HandlerFaults(w) \/ WorkerCrash(w)
    PROVE  WakeInv'
<1>1. /\ worker \in [Workers -> [pc : Queue!WorkerSteps, job : Jobs \cup {NoJob}, attempts : Nat]]
      /\ handler \in [Workers -> Steps]
      /\ tx \in [Parties -> Txs]
      /\ Workers \subseteq Parties
  BY DEF TypeOK, HandlersTypeOK, Queue!QueueTypeOK, Queue!ColumnsTypeOK, Txs, Parties
<1>2. /\ UNCHANGED <<jobStatus, autoStatus, nextRun, mishaps>>
      /\ Leave(w)
  BY DEF HandlerFaults, WorkerCrash, Leave, autoVars, Queue!HandlerFaults, Queue!HandlerReturns,
         Queue!WorkerCrash, Queue!jobVars
<1>3. /\ \A v \in Workers : v # w => worker'[v] = worker[v]
      /\ \/ worker'[w].pc = "down"
         \/ worker[w].pc = "handling" /\ worker'[w].pc = "failing" /\ JobOf(w)' = JobOf(w)
  <2>1. CASE HandlerFaults(w)
    BY <1>1, <2>1 DEF HandlerFaults, Queue!HandlerFaults, Queue!HandlerReturns, JobOf
  <2>2. CASE WorkerCrash(w)
    BY <1>1, <2>2 DEF WorkerCrash, Queue!WorkerCrash, Queue!Loop
  <2> QED
    BY <2>1, <2>2
<1>4. /\ \A v \in Workers : v # w => handler'[v] = handler[v] /\ tx'[v] = tx[v]
      /\ tx'[w].owned = FALSE
      /\ rowLock' = IF rowLock = w THEN Nobody ELSE rowLock
  BY <1>1, <1>2 DEF Leave, Goto, NoTx
<1>5. \A v \in Workers : rowLock' = v => v # w /\ rowLock = v
  BY <1>4, AutomationAssumption DEF Parties
<1>6. ASSUME NEW v \in Workers, Queue!Busy(v)'
      PROVE  Queue!Busy(v) /\ JobOf(v)' = JobOf(v) /\ (Keeps(v) => Keeps(v)')
  <2>1. CASE v = w
    BY <1>3, <1>6, <2>1 DEF Queue!Busy, Keeps
  <2>2. CASE v # w
    <3>1. rowLock = v => rowLock' = v
      BY <1>4, <2>2
    <3> QED
      BY <1>3, <1>4, <1>6, <2>2, <3>1 DEF Queue!Busy, Keeps, JobOf
  <2> QED
    BY <2>1, <2>2
<1>7. Wakes' => Wakes
  BY <1>2 DEF Wakes
<1>8. \A v \in Workers : tx'[v].owned
        => tx[v].owned /\ handler'[v] = handler[v] /\ JobOf(v)' = JobOf(v)
  BY <1>3, <1>4 DEF JobOf
<1> QED
  BY <1>2, <1>4, <1>5, <1>6, <1>7, <1>8, WakeQuiet

LEMMA WakeStep == TypeOK /\ WakeInv /\ [Next]_vars => WakeInv'
<1> SUFFICES ASSUME TypeOK, WakeInv, [Next]_vars PROVE WakeInv'
  OBVIOUS
<1>1. tx \in [Parties -> Txs] /\ Resumer \notin Workers /\ Nobody \notin Workers
  BY AutomationAssumption DEF TypeOK, HandlersTypeOK, Txs, Parties
<1>2. CASE CreateAutomation
  <2>1. NextAfter(now) \in Instants
    BY NextIsInstant DEF TypeOK, HandlersTypeOK
  <2> QED
    BY <1>2, <2>1, WakeUpserts DEF CreateAutomation, txVars
<1>3. CASE ResumeCommits
  <2>1. tx[Resumer].seen \in Jobs \cup {NoJob} /\ tx[Resumer].next \in Instants
    BY <1>1 DEF Parties, Txs
  <2>2. \A v \in Workers : tx'[v] = tx[v] /\ (rowLock' = v => rowLock = v)
    BY <1>1, <1>3 DEF ResumeCommits, Parties
  <2> QED
    BY <1>3, <2>1, <2>2, WakeUpserts DEF ResumeCommits
\* The steps that leave the workers and what they have in hand.
<1>4. ASSUME UNCHANGED <<jobStatus, worker, handler, mishaps>>, Wakes' => Wakes,
             \A v \in Workers : tx'[v] = tx[v] /\ (rowLock' = v <=> rowLock = v)
      PROVE  WakeInv'
  <2>1. \A v \in Workers : Queue!Busy(v)'
          => Queue!Busy(v) /\ JobOf(v)' = JobOf(v) /\ (Keeps(v) => Keeps(v)')
    BY <1>4 DEF Queue!Busy, JobOf, Keeps
  <2>2. \A v \in Workers : tx'[v].owned
          => tx[v].owned /\ handler'[v] = handler[v] /\ JobOf(v)' = JobOf(v)
    BY <1>4 DEF JobOf
  <2> QED
    BY <1>4, <2>1, <2>2, WakeQuiet
<1>5. CASE PauseAutomation \/ CancelAutomation \/ Tick \/ UNCHANGED vars
  BY <1>4, <1>5 DEF PauseAutomation, CancelAutomation, Tick, vars, queueVars, txVars, autoVars,
     Wakes
<1>6. CASE ResumeBegins \/ ResumeAborts \/ UpsertCollides(Resumer)
  <2>1. \A v \in Workers : tx'[v] = tx[v] /\ (rowLock' = v <=> rowLock = v)
    BY <1>1, <1>6 DEF ResumeBegins, ResumeAborts, UpsertCollides, Parties
  <2>2. UNCHANGED <<jobStatus, worker, handler, mishaps, autoStatus, nextRun>>
    BY <1>6 DEF ResumeBegins, ResumeAborts, UpsertCollides, queueVars, autoVars
  <2> QED
    BY <1>4, <2>1, <2>2 DEF Wakes
<1>7. ASSUME NEW j \in Jobs, TimeStep(j) PROVE WakeInv'
  <2>1. UNCHANGED <<jobStatus, worker, mishaps>> /\ UNCHANGED <<autoVars, txVars>>
    BY <1>7 DEF TimeStep, Queue!RunAtPasses, Queue!LockAges, Unrelated
  <2> QED
    BY <1>4, <2>1 DEF autoVars, txVars, Wakes
<1>8. ASSUME NEW w \in Workers, NEW j \in Jobs, ClaimJob(w, j) PROVE WakeInv'
  BY <1>8, WakeClaim
<1>9. ASSUME NEW w \in Workers,
             LoopStep(w) \/ HandlerStep(w) \/ HandlerFaults(w) \/ WorkerCrash(w)
      PROVE  WakeInv'
  BY <1>9, WakeLoop, WakeHandler, WakeLeave
<1> QED
  BY <1>2, <1>3, <1>5, <1>6, <1>7, <1>8, <1>9 DEF Next, ResumeStep

\* The chain does not break: an active automation with a next run has a wake-up that
\* is pending or claimed -- or one is dead, an upsert met one that had been claimed
\* ("missed"), or two workers had one ("shared").  No moment lies between one and the
\* next, for a close commits the successor with the completion (upsert_automation_due,
\* complete_job).
THEOREM ChainHolds == Spec => []AlwaysWakesUp
<1>1. Init => WakeInv
  <2> SUFFICES ASSUME Init PROVE WakeInv
    OBVIOUS
  <2>1. autoStatus = "none" /\ rowLock = Nobody
    BY DEF Init
  <2>2. \A w \in Workers : tx[w].owned = FALSE
    BY DEF Init, Parties, NoTx
  <2> QED
    BY <2>1, <2>2, AutomationAssumption DEF WakeInv, OwnedRuns, Carries, Wakes, Parties
<1>2. WakeInv => AlwaysWakesUp
  BY DEF WakeInv, Carries, Carried, Wakes, Broken, AlwaysWakesUp
<1> QED
  BY <1>1, <1>2, WakeStep, TypeCorrect, PTL DEF Spec

-----------------------------------------------------------------------------
(***************************************************************************)
(* When a wake-up is shared: only when its lock had been held for so long  *)
(* that it was taken for stale, and only where several workers run.        *)
(***************************************************************************)

\* What a worker has in hand it has alone, and nobody puts it back, unless its lock
\* went stale.
HandsFree == \A v \in Workers : ~ Queue!Busy(v) => JobOf(v) = NoJob
HandsAlone ==
    \A v, w \in Workers :
        Queue!Busy(v) /\ Queue!Busy(w) /\ JobOf(v) = JobOf(w) /\ v # w => heldTooLong[JobOf(v)]
Claimable(j) == jobStatus[j] \in {"none", "pending"}
HandsKeep ==
    \A v \in Workers : Queue!Busy(v) /\ Claimable(JobOf(v)) => heldTooLong[JobOf(v)]
StaleIsHeld == \A j \in Jobs : lock[j] = "stale" => heldTooLong[j]
SharedIsStale ==
    "shared" \in mishaps =>
        /\ \E j \in Jobs : heldTooLong[j]
        /\ \E v, w \in Workers : v # w
HandsInv == HandsFree /\ HandsAlone /\ HandsKeep /\ StaleIsHeld /\ SharedIsStale

\* A step in which nobody takes a job in hand.
LEMMA HandsQuiet ==
    ASSUME TypeOK, HandsInv,
           \A v \in Workers : ~ Queue!Busy(v)' => JobOf(v)' = NoJob,
           \A v \in Workers : Queue!Busy(v)' => Queue!Busy(v) /\ JobOf(v)' = JobOf(v),
           \A v \in Workers : Queue!Busy(v)' /\ Claimable(JobOf(v))'
             => Claimable(JobOf(v)) \/ heldTooLong[JobOf(v)],
           \A j \in Jobs : heldTooLong[j] => heldTooLong'[j],
           \A j \in Jobs : lock'[j] = "stale" => lock[j] = "stale" \/ heldTooLong'[j],
           "shared" \in mishaps' => "shared" \in mishaps
    PROVE  HandsInv'
<1>1. \A v \in Workers : Queue!Busy(v) => JobOf(v) \in Jobs
  BY DEF TypeOK, Queue!QueueTypeOK, Queue!ColumnsTypeOK, JobOf
<1>2. HandsFree'
  BY DEF HandsFree
<1>3. HandsAlone'
  BY <1>1 DEF HandsInv, HandsAlone
<1>4. HandsKeep'
  <2> SUFFICES ASSUME NEW v \in Workers, Queue!Busy(v)', Claimable(JobOf(v))'
               PROVE  heldTooLong'[JobOf(v)']
    BY DEF HandsKeep
  <2>1. Queue!Busy(v) /\ JobOf(v)' = JobOf(v) /\ JobOf(v) \in Jobs
    BY <1>1
  <2>2. heldTooLong[JobOf(v)]
    BY <2>1 DEF HandsInv, HandsKeep
  <2> QED
    BY <2>1, <2>2
<1>5. StaleIsHeld' /\ SharedIsStale'
  BY DEF HandsInv, StaleIsHeld, SharedIsStale
<1> QED
  BY <1>2, <1>3, <1>4, <1>5 DEF HandsInv

\* An upsert makes pending what was pending or not there.
LEMMA UpsertRows ==
    ASSUME TypeOK, NEW status \in [Jobs -> Queue!JobStatuses],
           NEW seen \in Jobs \cup {NoJob}, NEW next,
           \A j \in Jobs : status[j] \in {"none", "pending"} => Claimable(j),
           Upsert(status, seen, next)
    PROVE  /\ \A j \in Jobs : Claimable(j)' => Claimable(j)
           /\ "shared" \in mishaps' => "shared" \in mishaps
<1>1. ASSUME NEW i \in Jobs, Claimable(i), Schedule(status, i, next)
      PROVE  /\ \A j \in Jobs : Claimable(j)' => Claimable(j)
             /\ "shared" \in mishaps' => "shared" \in mishaps
  <2>1. jobStatus' = [status EXCEPT ![i] = "pending"] /\ UNCHANGED mishaps
    BY <1>1 DEF Schedule
  <2>2. \A j \in Jobs : j # i => jobStatus'[j] = status[j]
    BY <2>1
  <2> QED
    BY <1>1, <2>1, <2>2 DEF Claimable
<1>2. CASE seen # NoJob /\ status[seen] = "pending" /\ Schedule(status, seen, next)
  BY <1>1, <1>2
<1>3. CASE jobStatus' = status /\ mishaps' = mishaps \cup {"missed"}
  BY <1>3 DEF Claimable
<1>4. CASE HasNewJob /\ Schedule(status, NewJob, next)
  <2>1. NewJob \in Jobs /\ Claimable(NewJob)
    BY <1>4, NewJobIsUnused DEF Unused, Claimable
  <2> QED
    BY <1>1, <1>4, <2>1
<1> QED
  BY <1>2, <1>3, <1>4 DEF Upsert

\* The loop puts a job back that the worker had in hand, or whose lock was stale.
LEMMA HandsLoop ==
    ASSUME TypeOK, HandsInv, NEW w \in Workers, LoopStep(w)
    PROVE  HandsInv'
<1>1. /\ worker \in [Workers -> [pc : Queue!WorkerSteps, job : Jobs \cup {NoJob}, attempts : Nat]]
      /\ jobStatus \in [Jobs -> Queue!JobStatuses]
      /\ lock \in [Jobs -> Queue!Locks]
      /\ \A v \in Workers : Queue!Busy(v) => JobOf(v) \in Jobs
  BY DEF TypeOK, Queue!QueueTypeOK, Queue!ColumnsTypeOK, JobOf
<1> DEFINE Leaves == worker'[w].pc \in {"down", "polling"} /\ JobOf(w)' = NoJob
           Others == \A v \in Workers : v # w => worker'[v] = worker[v]
           Puts(j) == jobStatus'[j] # jobStatus[j] => JobOf(w) = j /\ Queue!Busy(w)
           Locking == \A j \in Jobs : lock'[j] = "stale" => lock[j] = "stale"
           Told == "shared" \in mishaps' => "shared" \in mishaps
\* The worker leaves its job, or goes on with it, and only its job changes.
<1>2. ASSUME Others, Locking, Told, UNCHANGED heldTooLong,
             Leaves \/ (Queue!Busy(w) /\ Queue!Busy(w)' /\ JobOf(w)' = JobOf(w)
                        /\ UNCHANGED jobStatus),
             \A j \in Jobs : Puts(j) \/ heldTooLong[j]
      PROVE  HandsInv'
  <2>1. ASSUME NEW v \in Workers
        PROVE  /\ ~ Queue!Busy(v)' => JobOf(v)' = NoJob
               /\ Queue!Busy(v)' => Queue!Busy(v) /\ JobOf(v)' = JobOf(v)
               /\ Queue!Busy(v)' /\ Claimable(JobOf(v))'
                    => Claimable(JobOf(v)) \/ heldTooLong[JobOf(v)]
    <3>1. CASE v = w
      BY <1>2, <3>1 DEF Queue!Busy, Claimable
    <3>2. CASE v # w
      <4>1. JobOf(v)' = JobOf(v) /\ (Queue!Busy(v)' <=> Queue!Busy(v))
        BY <1>2, <3>2 DEF JobOf, Queue!Busy
      <4>2. ASSUME Queue!Busy(v), jobStatus'[JobOf(v)] # jobStatus[JobOf(v)]
            PROVE  heldTooLong[JobOf(v)]
        BY <1>1, <1>2, <3>2, <4>2 DEF HandsInv, HandsAlone
      <4> QED
        BY <4>1, <4>2 DEF HandsInv, HandsFree, Claimable
    <3> QED
      BY <3>1, <3>2
  <2> HIDE DEF Leaves, Puts
  <2> QED
    BY <1>2, <2>1, HandsQuiet
<1>3. ASSUME NEW s, NEW n, NEW d, Queue!SettleJob(w, s, n, d), Queue!Busy(w), UNCHANGED mishaps
      PROVE  HandsInv'
  <2>1. Others /\ Leaves
    BY <1>1, <1>3 DEF Queue!SettleJob, Queue!Loop, JobOf
  <2>2. Told /\ UNCHANGED heldTooLong
    BY <1>3 DEF Queue!SettleJob, Queue!historyVars
  <2>3. \A j \in Jobs : Puts(j) /\ (lock'[j] = "stale" => lock[j] = "stale")
    <3>1. CASE Queue!StillRunning(JobOf(w))
      <4>1. /\ jobStatus' = [jobStatus EXCEPT ![JobOf(w)] = s]
            /\ lock' = [lock EXCEPT ![JobOf(w)] = "null"]
        BY <1>3, <3>1 DEF Queue!SettleJob, JobOf
      <4> QED
        BY <1>1, <1>3, <4>1
    <3>2. CASE ~ Queue!StillRunning(JobOf(w))
      BY <1>3, <3>2 DEF Queue!SettleJob, JobOf, Queue!jobVars
    <3> QED
      BY <3>1, <3>2
  <2> HIDE DEF Leaves, Puts, Others, Told
  <2> QED
    BY <1>2, <2>1, <2>2, <2>3
<1>4. CASE StartWorker(w)
  <2>1. /\ worker' = [worker EXCEPT ![w] = Queue!Loop("polling")]
        /\ UNCHANGED <<heldTooLong, mishaps>>
        /\ \A j \in Jobs : Queue!Recoverable(j) \/ jobStatus'[j] = jobStatus[j]
        /\ \A j \in Jobs : lock'[j] = "null" \/ lock'[j] = lock[j]
    BY <1>4 DEF StartWorker, Queue!StartWorker, Queue!RecoverStaleJobs, Queue!historyVars
  <2>2. Others /\ Leaves
    BY <1>1, <2>1 DEF Queue!Loop, JobOf
  <2>3. \A j \in Jobs : Puts(j) \/ heldTooLong[j]
    BY <2>1 DEF Queue!Recoverable, HandsInv, StaleIsHeld
  <2>4. Locking /\ Told
    BY <2>1
  <2> HIDE DEF Leaves, Puts, Others, Told, Locking
  <2> QED
    BY <1>2, <2>1, <2>2, <2>3, <2>4
<1>5. CASE FailCollides(w)
  <2>1. /\ worker' = [worker EXCEPT ![w] = Queue!Loop("down")]
        /\ UNCHANGED <<heldTooLong, jobStatus, lock>>
        /\ mishaps' = mishaps \cup {"collided"}
    BY <1>5 DEF FailCollides
  <2>2. Others /\ Leaves /\ Locking /\ Told
    BY <1>1, <2>1 DEF Queue!Loop, JobOf
  <2>3. \A j \in Jobs : Puts(j) \/ heldTooLong[j]
    BY <2>1
  <2> HIDE DEF Leaves, Puts, Others, Told, Locking
  <2> QED
    BY <1>2, <2>1, <2>2, <2>3
<1>6. CASE Queue!ReadFailed(w) /\ UNCHANGED mishaps
  <2>1. /\ worker[w].pc = "failing"
        /\ \/ worker' = [worker EXCEPT ![w] = Queue!Loop("polling")]
           \/ \E n : worker' = [worker EXCEPT ![w] =
                [pc |-> "requeueing", job |-> JobOf(w), attempts |-> n]]
        /\ UNCHANGED <<heldTooLong, jobStatus, lock>>
    BY <1>6 DEF Queue!ReadFailed, Queue!historyVars, Queue!jobVars, JobOf
  <2>2. Leaves \/ (Queue!Busy(w) /\ Queue!Busy(w)' /\ JobOf(w)' = JobOf(w)
                   /\ UNCHANGED jobStatus)
    BY <1>1, <2>1 DEF Queue!Loop, Queue!Busy, JobOf
  <2>3. Others /\ Locking /\ Told /\ \A j \in Jobs : Puts(j) \/ heldTooLong[j]
    BY <1>1, <1>6, <2>1
  <2> HIDE DEF Leaves, Puts, Others, Told, Locking
  <2> QED
    BY <1>2, <2>1, <2>2, <2>3
<1>7. CASE (Queue!CompleteJob(w) \/ Queue!FailJob(w)) /\ UNCHANGED mishaps
  <2>1. worker[w].pc \in {"completing", "requeueing"}
    BY <1>7 DEF Queue!CompleteJob, Queue!FailJob
  <2>2. Queue!Busy(w)
    BY <2>1 DEF Queue!Busy
  <2>3. \E s, n, d : Queue!SettleJob(w, s, n, d)
    BY <1>7 DEF Queue!CompleteJob, Queue!FailJob
  <2> QED
    BY <1>3, <1>7, <2>2, <2>3
<1> QED
  BY <1>4, <1>5, <1>6, <1>7 DEF LoopStep

\* A handler changes the jobs by an upsert, or by completing its own.
LEMMA HandsHandler ==
    ASSUME TypeOK, HandsInv, NEW w \in Workers, HandlerStep(w)
    PROVE  HandsInv'
<1>1. /\ worker \in [Workers -> [pc : Queue!WorkerSteps, job : Jobs \cup {NoJob}, attempts : Nat]]
      /\ jobStatus \in [Jobs -> Queue!JobStatuses]
      /\ lock \in [Jobs -> Queue!Locks]
      /\ tx \in [Parties -> Txs]
      /\ Workers \subseteq Parties
  BY DEF TypeOK, HandlersTypeOK, Queue!QueueTypeOK, Queue!ColumnsTypeOK, Txs, Parties
<1>2. ASSUME \A v \in Workers : (Queue!Busy(v)' <=> Queue!Busy(v)) /\ JobOf(v)' = JobOf(v),
             \A j \in Jobs : Claimable(j)' => Claimable(j),
             \A j \in Jobs : lock'[j] = "stale" => lock[j] = "stale",
             UNCHANGED heldTooLong, "shared" \in mishaps' => "shared" \in mishaps
      PROVE  HandsInv'
  <2>1. \A v \in Workers : Queue!Busy(v) => JobOf(v) \in Jobs
    BY DEF TypeOK, Queue!QueueTypeOK, Queue!ColumnsTypeOK, JobOf
  <2>2. \A v \in Workers : Queue!Busy(v)' /\ Claimable(JobOf(v))' => Claimable(JobOf(v))
    BY <1>2, <2>1 DEF Claimable
  <2>3. \A v \in Workers : ~ Queue!Busy(v)' => JobOf(v)' = NoJob
    BY <1>2 DEF HandsInv, HandsFree
  <2> QED
    BY <1>2, <2>2, <2>3, HandsQuiet
<1>3. ASSUME UNCHANGED worker
      PROVE  \A v \in Workers : (Queue!Busy(v)' <=> Queue!Busy(v)) /\ JobOf(v)' = JobOf(v)
  BY <1>3 DEF Queue!Busy, JobOf
<1>4. CASE \/ AlreadyRun(w) \/ StartExecution(w) \/ ExecutionEnds(w) \/ CloseBegins(w)
           \/ ReplayBegins(w) \/ UpsertCollides(w)
  <2>1. UNCHANGED <<worker, jobStatus, lock, heldTooLong, mishaps>>
    BY <1>4 DEF AlreadyRun, StartExecution, ExecutionEnds, CloseBegins, ReplayBegins,
       BeginsUpsert, UpsertCollides, queueVars
  <2> QED
    BY <1>2, <1>3, <2>1 DEF Claimable
<1>5. CASE NotActive(w) \/ ExecutionFails(w) \/ Return(w)
  <2>1. \E ok \in BOOLEAN : Queue!HandlerReturns(w, ok)
    BY <1>5 DEF NotActive, ExecutionFails, Return, Queue!HandlerEnds
  <2>2. /\ UNCHANGED <<jobStatus, lock, heldTooLong>>
        /\ worker[w].pc = "handling"
        /\ \E s \in {"completing", "failing"} : worker' = [worker EXCEPT ![w].pc = s]
    BY <2>1 DEF Queue!HandlerReturns, Queue!jobVars, Queue!historyVars
  <2>3. UNCHANGED mishaps
    BY <1>5 DEF NotActive, ExecutionFails, Return, Leave
  <2>4. \A v \in Workers : (Queue!Busy(v)' <=> Queue!Busy(v)) /\ JobOf(v)' = JobOf(v)
    BY <1>1, <2>2 DEF Queue!Busy, JobOf
  <2> QED
    BY <1>2, <2>2, <2>3, <2>4 DEF Claimable
<1>6. CASE CloseUnrecorded(w)
  <2>1. /\ UNCHANGED <<worker, heldTooLong, mishaps>>
        /\ jobStatus' = [jobStatus EXCEPT ![JobOf(w)] = IF @ = "running" THEN "done" ELSE @]
        /\ lock' = [lock EXCEPT ![JobOf(w)] =
                      IF jobStatus[JobOf(w)] = "running" THEN "null" ELSE @]
    BY <1>6 DEF CloseUnrecorded
  <2>2. \A j \in Jobs : Claimable(j)' => Claimable(j)
    BY <1>1, <2>1 DEF Claimable
  <2>3. \A j \in Jobs : lock'[j] = "stale" => lock[j] = "stale"
    BY <1>1, <2>1
  <2> QED
    BY <1>2, <1>3, <2>1, <2>2, <2>3
<1>7. CASE CloseCommits(w) \/ ReplayCommits(w)
  <2>1. CommitsUpsert(w)
    BY <1>7 DEF CloseCommits, ReplayCommits
  <2>2. /\ UNCHANGED <<worker, heldTooLong>>
        /\ lock' = IF tx[w].owned THEN [lock EXCEPT ![JobOf(w)] = "null"] ELSE lock
    BY <2>1 DEF CommitsUpsert
  <2>3. \A j \in Jobs : lock'[j] = "stale" => lock[j] = "stale"
    BY <1>1, <2>2
  <2>4. /\ Completed(w) \in [Jobs -> Queue!JobStatuses]
        /\ \A j \in Jobs : Completed(w)[j] \in {"none", "pending"} => Claimable(j)
    BY <1>1 DEF Completed, Claimable, Queue!JobStatuses
  <2>5. tx[w].seen \in Jobs \cup {NoJob}
    BY <1>1 DEF Txs
  <2>6. CASE jobStatus' = Completed(w) /\ UNCHANGED mishaps
    BY <1>2, <1>3, <2>2, <2>3, <2>4, <2>6 DEF Claimable
  <2>7. CASE Upsert(Completed(w), tx[w].seen, tx[w].next)
    BY <1>2, <1>3, <2>2, <2>3, <2>4, <2>5, <2>7, UpsertRows
  <2> QED
    BY <2>1, <2>6, <2>7 DEF CommitsUpsert
<1> QED
  BY <1>4, <1>5, <1>6, <1>7 DEF HandlerStep

\* A worker that claims a pending job has empty hands; another one that still has it
\* is another worker, and the lock went stale.
LEMMA HandsClaim ==
    ASSUME TypeOK, HandsInv, NEW w \in Workers, NEW j \in Jobs, ClaimJob(w, j)
    PROVE  HandsInv'
<1>1. /\ worker \in [Workers -> [pc : Queue!WorkerSteps, job : Jobs \cup {NoJob}, attempts : Nat]]
      /\ jobStatus \in [Jobs -> Queue!JobStatuses]
      /\ lock \in [Jobs -> Queue!Locks]
      /\ \A v \in Workers : Queue!Busy(v) => JobOf(v) \in Jobs
  BY DEF TypeOK, Queue!QueueTypeOK, Queue!ColumnsTypeOK, JobOf
<1>2. /\ worker[w].pc = "polling"
      /\ jobStatus[j] = "pending"
      /\ jobStatus' = [jobStatus EXCEPT ![j] = "running"]
      /\ lock' = [lock EXCEPT ![j] = "fresh"]
      /\ worker' = [worker EXCEPT ![w] = [pc |-> "handling", job |-> j, attempts |-> attempts[j]]]
      /\ UNCHANGED heldTooLong
  BY DEF ClaimJob, Queue!ClaimJob
<1>3. mishaps' = mishaps \cup {m \in {"shared"} : \E v \in Workers : JobOf(v) = j}
  BY DEF ClaimJob
<1>4. /\ ~ Queue!Busy(w)
      /\ JobOf(w)' = j /\ Queue!Busy(w)'
      /\ \A v \in Workers : v # w => JobOf(v)' = JobOf(v) /\ (Queue!Busy(v)' <=> Queue!Busy(v))
  BY <1>1, <1>2 DEF Queue!Busy, JobOf
<1>5. ASSUME NEW v \in Workers, JobOf(v) = j PROVE v # w /\ heldTooLong[j]
  <2>1. Queue!Busy(v)
    BY <1>5, AutomationAssumption DEF HandsInv, HandsFree
  <2> QED
    BY <1>2, <1>4, <1>5, <2>1 DEF HandsInv, HandsKeep, Claimable
<1>6. HandsFree'
  BY <1>4 DEF HandsInv, HandsFree
<1>7. HandsAlone'
  <2> SUFFICES ASSUME NEW u \in Workers, NEW v \in Workers, Queue!Busy(u)', Queue!Busy(v)',
                      JobOf(u)' = JobOf(v)', u # v
               PROVE  heldTooLong[JobOf(u)']
    BY <1>2 DEF HandsAlone
  <2>1. CASE u # w /\ v # w
    BY <1>4, <2>1 DEF HandsInv, HandsAlone
  <2>2. CASE u = w \/ v = w
    BY <1>4, <1>5, <2>2
  <2> QED
    BY <2>1, <2>2
<1>8. HandsKeep'
  <2> SUFFICES ASSUME NEW v \in Workers, Queue!Busy(v)', Claimable(JobOf(v))'
               PROVE  heldTooLong[JobOf(v)']
    BY <1>2 DEF HandsKeep
  <2>1. v # w
    BY <1>1, <1>2, <1>4 DEF Claimable
  <2>2. Queue!Busy(v) /\ JobOf(v)' = JobOf(v) /\ JobOf(v) \in Jobs
    BY <1>1, <1>4, <2>1
  <2>3. Claimable(JobOf(v))
    BY <1>1, <1>2, <2>2 DEF Claimable
  <2> QED
    BY <2>2, <2>3 DEF HandsInv, HandsKeep
<1>9. StaleIsHeld'
  BY <1>1, <1>2 DEF HandsInv, StaleIsHeld
<1>10. SharedIsStale'
  <2>1. CASE "shared" \in mishaps
    BY <1>2, <2>1 DEF HandsInv, SharedIsStale
  <2>2. CASE "shared" \notin mishaps /\ "shared" \in mishaps'
    BY <1>2, <1>3, <1>5, <2>2 DEF SharedIsStale
  <2> QED
    BY <2>1, <2>2 DEF SharedIsStale
<1> QED
  BY <1>6, <1>7, <1>8, <1>9, <1>10 DEF HandsInv

LEMMA HandsStep == TypeOK /\ HandsInv /\ [Next]_vars => HandsInv'
<1> SUFFICES ASSUME TypeOK, HandsInv, [Next]_vars PROVE HandsInv'
  OBVIOUS
<1>1. /\ worker \in [Workers -> [pc : Queue!WorkerSteps, job : Jobs \cup {NoJob}, attempts : Nat]]
      /\ jobStatus \in [Jobs -> Queue!JobStatuses]
      /\ lock \in [Jobs -> Queue!Locks]
      /\ heldTooLong \in [Jobs -> BOOLEAN]
      /\ \A v \in Workers : Queue!Busy(v) => JobOf(v) \in Jobs
      /\ tx \in [Parties -> Txs]
  BY DEF TypeOK, HandlersTypeOK, Queue!QueueTypeOK, Queue!ColumnsTypeOK, JobOf, Txs
<1>2. ASSUME UNCHANGED worker,
             \A j \in Jobs : Claimable(j)' => Claimable(j),
             \A j \in Jobs : heldTooLong[j] => heldTooLong'[j],
             \A j \in Jobs : lock'[j] = "stale" => lock[j] = "stale" \/ heldTooLong'[j],
             "shared" \in mishaps' => "shared" \in mishaps
      PROVE  HandsInv'
  <2>1. \A v \in Workers : (Queue!Busy(v)' <=> Queue!Busy(v)) /\ JobOf(v)' = JobOf(v)
    BY <1>2 DEF Queue!Busy, JobOf
  <2>2. \A v \in Workers : Queue!Busy(v)' /\ Claimable(JobOf(v))' => Claimable(JobOf(v))
    BY <1>1, <1>2, <2>1 DEF Claimable
  <2>3. \A v \in Workers : ~ Queue!Busy(v)' => JobOf(v)' = NoJob
    BY <2>1 DEF HandsInv, HandsFree
  <2> QED
    BY <1>2, <2>1, <2>2, <2>3, HandsQuiet
<1>3. CASE \/ PauseAutomation \/ CancelAutomation \/ ResumeBegins \/ UpsertCollides(Resumer)
           \/ ResumeAborts \/ Tick \/ UNCHANGED vars
  <2>1. UNCHANGED <<worker, jobStatus, lock, heldTooLong, mishaps>>
    BY <1>3 DEF PauseAutomation, CancelAutomation, ResumeBegins, UpsertCollides, ResumeAborts,
       Tick, vars, queueVars
  <2> QED
    BY <1>2, <2>1 DEF Claimable
<1>4. ASSUME NEW j \in Jobs, TimeStep(j) PROVE HandsInv'
  <2>1. UNCHANGED <<worker, jobStatus, mishaps>>
    BY <1>4 DEF TimeStep, Queue!RunAtPasses, Queue!LockAges
  <2>2. \/ UNCHANGED <<lock, heldTooLong>>
        \/ /\ lock' = [lock EXCEPT ![j] = "stale"]
           /\ heldTooLong' = [heldTooLong EXCEPT ![j] = TRUE]
    BY <1>4 DEF TimeStep, Queue!RunAtPasses, Queue!LockAges, Queue!historyVars
  <2>3. \A i \in Jobs : heldTooLong[i] => heldTooLong'[i]
    BY <1>1, <2>2
  <2>4. \A i \in Jobs : lock'[i] = "stale" => lock[i] = "stale" \/ heldTooLong'[i]
    BY <1>1, <2>2
  <2> QED
    BY <1>2, <2>1, <2>3, <2>4 DEF Claimable
<1>5. CASE CreateAutomation \/ ResumeCommits
  <2>1. UNCHANGED <<worker, lock, heldTooLong>>
    BY <1>5 DEF CreateAutomation, ResumeCommits
  <2>2. tx[Resumer].seen \in Jobs \cup {NoJob}
    BY <1>1 DEF Parties, Txs
  <2>3. \A j \in Jobs : jobStatus[j] \in {"none", "pending"} => Claimable(j)
    BY DEF Claimable
  <2>4. /\ \A j \in Jobs : Claimable(j)' => Claimable(j)
        /\ "shared" \in mishaps' => "shared" \in mishaps
    BY <1>1, <1>5, <2>2, <2>3, UpsertRows DEF CreateAutomation, ResumeCommits
  <2> QED
    BY <1>2, <2>1, <2>4
<1>6. ASSUME NEW w \in Workers, NEW j \in Jobs, ClaimJob(w, j) PROVE HandsInv'
  BY <1>6, HandsClaim
<1>7. ASSUME NEW w \in Workers, HandlerFaults(w) PROVE HandsInv'
  <2>1. /\ UNCHANGED <<jobStatus, lock, heldTooLong, mishaps>>
        /\ worker[w].pc = "handling"
        /\ worker' = [worker EXCEPT ![w].pc = "failing"]
    BY <1>7 DEF HandlerFaults, Leave, Queue!HandlerFaults, Queue!HandlerReturns, Queue!jobVars,
       Queue!historyVars
  <2>2. \A v \in Workers : (Queue!Busy(v)' <=> Queue!Busy(v)) /\ JobOf(v)' = JobOf(v)
    BY <1>1, <2>1 DEF Queue!Busy, JobOf
  <2>3. \A v \in Workers : ~ Queue!Busy(v)' => JobOf(v)' = NoJob
    BY <2>2 DEF HandsInv, HandsFree
  <2> QED
    BY <2>1, <2>2, <2>3, HandsQuiet DEF Claimable
<1>8. ASSUME NEW w \in Workers, WorkerCrash(w) PROVE HandsInv'
  <2>1. /\ UNCHANGED <<jobStatus, lock, heldTooLong, mishaps>>
        /\ worker' = [worker EXCEPT ![w] = Queue!Loop("down")]
    BY <1>8 DEF WorkerCrash, Leave, Queue!WorkerCrash, Queue!jobVars, Queue!historyVars
  <2>2. /\ ~ Queue!Busy(w)' /\ JobOf(w)' = NoJob
        /\ \A v \in Workers : v # w =>
             (Queue!Busy(v)' <=> Queue!Busy(v)) /\ JobOf(v)' = JobOf(v)
    BY <1>1, <2>1 DEF Queue!Busy, JobOf, Queue!Loop
  <2>3. \A v \in Workers : ~ Queue!Busy(v)' => JobOf(v)' = NoJob
    BY <2>2 DEF HandsInv, HandsFree
  <2>4. \A v \in Workers : Queue!Busy(v)' => Queue!Busy(v) /\ JobOf(v)' = JobOf(v)
    BY <2>2
  <2> QED
    BY <2>1, <2>3, <2>4, HandsQuiet DEF Claimable
<1>9. ASSUME NEW w \in Workers, LoopStep(w) \/ HandlerStep(w) PROVE HandsInv'
  BY <1>9, HandsLoop, HandsHandler
<1> QED
  BY <1>3, <1>4, <1>5, <1>6, <1>7, <1>8, <1>9 DEF Next, ResumeStep

LEMMA HandsInit == Init => HandsInv
<1> SUFFICES ASSUME Init PROVE HandsInv
  OBVIOUS
<1>1. /\ \A w \in Workers : worker[w].pc = "down" /\ JobOf(w) = NoJob
      /\ \A j \in Jobs : lock[j] = "null"
      /\ mishaps = {}
  BY DEF Init, Queue!Init, Queue!Loop, JobOf
<1> QED
  BY <1>1 DEF HandsInv, HandsFree, HandsAlone, HandsKeep, StaleIsHeld, SharedIsStale, Queue!Busy

\* No worker claims a wake-up that another one still has, unless several run and a lock
\* of the queue was held for so long that it was recovered: every other write that puts
\* a wake-up back is its own worker's, or finds it pending (fail_job,
\* upsert_automation_due, recover_stale_jobs).
THEOREM SharedWasStale == Spec => []SharedIsStale
<1>1. HandsInv => SharedIsStale
  BY DEF HandsInv
<1> QED
  BY <1>1, HandsInit, HandsStep, TypeCorrect, PTL DEF Spec

\* Of a single worker, and of several none of whose locks went stale, the chain of an
\* active automation ends in two ways only: a wake-up is dead, or an upsert met one that
\* had been claimed.
THEOREM ChainOfOne ==
    Spec => [](\/ AlwaysWakesUp /\ "shared" \notin mishaps
               \/ (\E v, w \in Workers : v # w) /\ \E j \in Jobs : heldTooLong[j])
<1>1. AlwaysWakesUp /\ SharedIsStale =>
        \/ AlwaysWakesUp /\ "shared" \notin mishaps
        \/ (\E v, w \in Workers : v # w) /\ \E j \in Jobs : heldTooLong[j]
  BY DEF SharedIsStale
<1> QED
  BY <1>1, ChainHolds, SharedWasStale, PTL

=============================================================================
