------------------------- MODULE JobDelivery_proofs -------------------------
(***************************************************************************)
(* Theorems about JobDelivery, for every number of jobs, workers, attempts *)
(* and faults.                                                             *)
(***************************************************************************)
EXTENDS JobDelivery, TLAPS

QueueProofs == INSTANCE JobQueue_proofs

-----------------------------------------------------------------------------
(***************************************************************************)
(* Every step of the handlers is a step of the queue or leaves it alone.   *)
(***************************************************************************)
LEMMA QueueStep == [Next]_vars => [Queue!Next]_Queue!queueVars
<1> SUFFICES ASSUME [Next]_vars PROVE Queue!Next \/ UNCHANGED queueVars
  BY DEF queueVars, Queue!queueVars, Queue!jobVars, Queue!historyVars
<1>1. ASSUME NEW j \in Jobs, Enqueue(j) \/ TimeStep(j) PROVE Queue!Next
  BY <1>1 DEF Enqueue, TimeStep, Queue!Next
<1>2. ASSUME NEW j \in Jobs, CancelReminder(j) PROVE UNCHANGED queueVars
  BY <1>2 DEF CancelReminder
<1>3. ASSUME NEW w \in Workers, NEW j \in Jobs, ClaimJob(w, j) PROVE Queue!Next
  BY <1>3 DEF ClaimJob, Queue!Next
<1>4. ASSUME NEW w \in Workers, LoopStep(w) PROVE Queue!Next
  BY <1>4 DEF LoopStep, Queue!Next
<1>5. ASSUME NEW w \in Workers, Return(w) \/ Raise(w) PROVE Queue!Next
  BY <1>5 DEF Return, Raise, Queue!Next
<1>6. ASSUME NEW w \in Workers, HandlerStep(w) PROVE Queue!Next \/ UNCHANGED queueVars
  BY <1>5, <1>6 DEF HandlerStep, LockContact, ReadReminder, ClaimReminder, ReadNotify,
     SendAnswered, SendAnswerLost, SendRejected, SendRaises, PersistOutbound,
     ReleaseReminder, Goto
<1>7. ASSUME NEW w \in Workers, HandlerFaults(w) \/ WorkerCrash(w) PROVE Queue!Next
  BY <1>7 DEF HandlerFaults, WorkerCrash, Queue!Next
<1>8. CASE UNCHANGED vars
  BY <1>8 DEF vars
<1> QED
  BY <1>1, <1>2, <1>3, <1>4, <1>6, <1>7, <1>8, DeliveryAssumption DEF Next

\* The handlers of the worker use the queue as JobQueue says: whatever is proved of
\* JobQueue holds of the deliveries (worker/loop.py, process_job).
THEOREM UsesTheQueue == Spec => Queue!Spec
<1>1. Init => Queue!Init
  BY DEF Init
<1> QED
  BY <1>1, QueueStep, PTL DEF Spec, Queue!Spec

\* So the queue's columns and loops keep their types.
LEMMA QueueTypes == Spec => []Queue!QueueTypeOK
<1>1. Queue!Init => QueueProofs!Init
  BY DEF Queue!Init, QueueProofs!Init, Queue!Loop, QueueProofs!Loop
<1>2. [Queue!Next]_Queue!queueVars => [QueueProofs!Next]_QueueProofs!queueVars
  BY Zenon DEF Queue!queueVars, Queue!jobVars, Queue!historyVars,
     QueueProofs!queueVars, QueueProofs!jobVars, QueueProofs!historyVars,
     Queue!Next, Queue!Enqueue, Queue!TimeStep, Queue!RunAtPasses, Queue!LockAges,
     Queue!LoopStep, Queue!StartWorker, Queue!RecoverStaleJobs, Queue!Recoverable,
     Queue!CompleteJob, Queue!DeadLetter, Queue!SettleJob, Queue!StillRunning,
     Queue!ReadFailed, Queue!FailJob, Queue!ClaimJob, Queue!HandlerEnds,
     Queue!HandlerReturns, Queue!HandlerFaults, Queue!WorkerCrash, Queue!Fault, Queue!Loop,
     QueueProofs!Next, QueueProofs!Enqueue, QueueProofs!TimeStep,
     QueueProofs!RunAtPasses, QueueProofs!LockAges, QueueProofs!LoopStep,
     QueueProofs!StartWorker, QueueProofs!RecoverStaleJobs, QueueProofs!Recoverable,
     QueueProofs!CompleteJob, QueueProofs!DeadLetter, QueueProofs!SettleJob,
     QueueProofs!StillRunning, QueueProofs!ReadFailed, QueueProofs!FailJob,
     QueueProofs!ClaimJob, QueueProofs!HandlerEnds, QueueProofs!HandlerReturns,
     QueueProofs!HandlerFaults, QueueProofs!WorkerCrash, QueueProofs!Fault,
     QueueProofs!Loop
<1>3. QueueProofs!QueueTypeOK => Queue!QueueTypeOK
  BY DEF Queue!QueueTypeOK, Queue!ColumnsTypeOK, Queue!LockedWhileRunning,
     Queue!JobStatuses, Queue!Locks, Queue!WorkerSteps, Queue!Busy,
     QueueProofs!QueueTypeOK, QueueProofs!ColumnsTypeOK, QueueProofs!LockedWhileRunning,
     QueueProofs!JobStatuses, QueueProofs!Locks, QueueProofs!WorkerSteps, QueueProofs!Busy
<1>4. QueueProofs!QueueAssumption
  BY DeliveryAssumption DEF QueueProofs!QueueAssumption
<1>5. QueueProofs!Spec => []QueueProofs!QueueTypeOK
  BY <1>4, QueueProofs!TypeCorrect
<1> QED
  BY <1>1, <1>2, <1>3, <1>5, UsesTheQueue, PTL DEF Queue!Spec, QueueProofs!Spec

-----------------------------------------------------------------------------
\* What the steps of the queue do to the worker that is in a handler.
LEMMA LoopKeepsHands ==
    ASSUME Queue!QueueTypeOK, NEW w \in Workers, Queue!LoopStep(w)
    PROVE  \A v \in Workers :
             /\ worker'[v].pc = "handling" <=> worker[v].pc = "handling"
             /\ worker[v].pc = "handling" => worker'[v].job = worker[v].job
<1>1. worker \in [Workers -> [pc : Queue!WorkerSteps, job : Jobs \cup {NoJob}, attempts : Nat]]
  BY DEF Queue!QueueTypeOK, Queue!ColumnsTypeOK
<1>2. ASSUME NEW s, NEW n, NEW d, Queue!SettleJob(w, s, n, d)
      PROVE  worker' = [worker EXCEPT ![w] = Queue!Loop("polling")]
  BY <1>2 DEF Queue!SettleJob
<1>3. CASE Queue!StartWorker(w)
  BY <1>1, <1>3 DEF Queue!StartWorker, Queue!Loop
<1>4. CASE Queue!CompleteJob(w)
  BY <1>1, <1>2, <1>4 DEF Queue!CompleteJob, Queue!Loop
<1>5. CASE Queue!DeadLetter(w)
  BY <1>5, DeliveryAssumption DEF Queue!DeadLetter
<1>6. CASE Queue!ReadFailed(w)
  BY <1>1, <1>6 DEF Queue!ReadFailed, Queue!Loop
<1>7. CASE Queue!FailJob(w)
  BY <1>1, <1>7 DEF Queue!FailJob, Queue!SettleJob, Queue!Loop
<1> QED
  BY <1>3, <1>4, <1>5, <1>6, <1>7 DEF Queue!LoopStep

\* ... and the end of a handler.
LEMMA ReturnTypes ==
    ASSUME Queue!QueueTypeOK, HandlersTypeOK, NEW w \in Workers, NEW ok \in BOOLEAN,
           Queue!HandlerReturns(w, ok),
           step' = [step EXCEPT ![w] = "none"]
    PROVE  /\ step' \in [Workers -> Steps]
           /\ \A v \in Workers : step'[v] # "none" <=> worker'[v].pc = "handling"
           /\ \A v \in Workers : v # w => worker'[v] = worker[v]
           /\ UNCHANGED jobStatus
  BY DEF Queue!HandlerReturns, Queue!QueueTypeOK, Queue!ColumnsTypeOK, HandlersTypeOK, Steps,
         Queue!jobVars

\* What every step of a handler does to the loops.
LEMMA StepTypes ==
    ASSUME Queue!QueueTypeOK, HandlersTypeOK, NEW w \in Workers, HandlerStep(w)
    PROVE  /\ step' \in [Workers -> Steps]
           /\ \A v \in Workers : step'[v] # "none" <=> worker'[v].pc = "handling"
           /\ \A v \in Workers : v # w => worker'[v] = worker[v] /\ step'[v] = step[v]
           /\ step[w] # "none"
           /\ step'[w] # "none" => worker'[w] = worker[w]
           /\ UNCHANGED jobStatus
<1>1. step \in [Workers -> Steps]
  BY DEF HandlersTypeOK
<1>2. step[w] # "none"
  BY DEF HandlerStep, LockContact, ReadReminder, ClaimReminder, ReadNotify, SendAnswered,
         SendAnswerLost, SendRejected, PersistOutbound, ReleaseReminder
<1>3. \/ \E s \in Steps \ {"none"} : Goto(w, s)
      \/ Return(w)
      \/ Raise(w)
  BY DEF HandlerStep, LockContact, ReadReminder, ClaimReminder, ReadNotify, SendAnswered,
         SendAnswerLost, SendRejected, SendRaises, PersistOutbound, ReleaseReminder, Steps
<1>4. ASSUME NEW s \in Steps \ {"none"}, Goto(w, s)
      PROVE  /\ step' = [step EXCEPT ![w] = s]
             /\ UNCHANGED <<worker, jobStatus>>
  BY <1>4 DEF Goto, queueVars
<1>5. CASE \E s \in Steps \ {"none"} : Goto(w, s)
  BY <1>1, <1>2, <1>4, <1>5 DEF HandlersTypeOK
<1>6. CASE Return(w) \/ Raise(w)
  <2>1. \E ok \in BOOLEAN : Queue!HandlerReturns(w, ok)
    BY <1>6 DEF Return, Raise, Queue!HandlerEnds
  <2>2. step' = [step EXCEPT ![w] = "none"]
    BY <1>6 DEF Return, Raise
  <2> QED
    BY <1>1, <1>2, <2>1, <2>2, ReturnTypes
<1> QED
  BY <1>3, <1>5, <1>6

LEMMA TypeStep == Queue!QueueTypeOK /\ HandlersTypeOK /\ [Next]_vars => HandlersTypeOK'
<1> SUFFICES ASSUME Queue!QueueTypeOK, HandlersTypeOK, [Next]_vars PROVE HandlersTypeOK'
  OBVIOUS
<1>1. ASSUME NEW j \in Jobs, Enqueue(j) PROVE HandlersTypeOK'
  BY <1>1 DEF Enqueue, Queue!Enqueue, HandlersTypeOK, ReminderStatuses
<1>2. ASSUME NEW j \in Jobs, TimeStep(j) PROVE HandlersTypeOK'
  BY <1>2 DEF TimeStep, Queue!TimeStep, Queue!RunAtPasses, Queue!LockAges, HandlersTypeOK,
              deliveryVars
<1>3. ASSUME NEW j \in Jobs, CancelReminder(j) PROVE HandlersTypeOK'
  BY <1>3 DEF CancelReminder, HandlersTypeOK, ReminderStatuses, queueVars
<1>4. ASSUME NEW w \in Workers, NEW j \in Jobs, ClaimJob(w, j) PROVE HandlersTypeOK'
  <2>1. /\ step' \in [Workers -> Steps]
        /\ \A v \in Workers : step'[v] # "none" <=> worker'[v].pc = "handling"
    BY <1>4 DEF ClaimJob, Queue!ClaimJob, HandlersTypeOK, Steps, Queue!QueueTypeOK,
                Queue!ColumnsTypeOK
  <2> QED
    BY <1>4, <2>1 DEF ClaimJob, deliveryVars, HandlersTypeOK
<1>5. ASSUME NEW w \in Workers, LoopStep(w) PROVE HandlersTypeOK'
  <2>1. \A v \in Workers : step'[v] # "none" <=> worker'[v].pc = "handling"
    BY <1>5, LoopKeepsHands DEF LoopStep, HandlersTypeOK
  <2> QED
    BY <1>5, <2>1 DEF LoopStep, deliveryVars, HandlersTypeOK
<1>6. ASSUME NEW w \in Workers, HandlerStep(w) PROVE HandlersTypeOK'
  <2>1. pings' \in [Jobs -> Nat] /\ unknown' \in [Jobs -> Nat]
    BY <1>6 DEF HandlerStep, LockContact, ReadReminder, ClaimReminder, ReadNotify,
       SendAnswered, SendAnswerLost, SendRejected, PersistOutbound, ReleaseReminder,
       HandlersTypeOK, deliveryVars
  <2>2. reminder' \in [ReminderJobs -> ReminderStatuses]
    BY <1>6 DEF HandlerStep, LockContact, ReadReminder, ClaimReminder, ReadNotify,
       SendAnswered, SendAnswerLost, SendRejected, PersistOutbound, ReleaseReminder,
       HandlersTypeOK, deliveryVars, ReminderStatuses
  <2>3. recorded' \subseteq NotifyJobs
    BY <1>6 DEF HandlerStep, LockContact, ReadReminder, ClaimReminder, ReadNotify,
       SendAnswered, SendAnswerLost, SendRejected, PersistOutbound, ReleaseReminder,
       HandlersTypeOK, deliveryVars
  <2> QED
    BY <1>6, <2>1, <2>2, <2>3, StepTypes DEF HandlersTypeOK
<1>7. ASSUME NEW w \in Workers, HandlerFaults(w) PROVE HandlersTypeOK'
  BY <1>7, ReturnTypes DEF HandlerFaults, Queue!HandlerFaults, HandlersTypeOK, deliveryVars
<1>8. ASSUME NEW w \in Workers, WorkerCrash(w) PROVE HandlersTypeOK'
  <2>1. /\ step' \in [Workers -> Steps]
        /\ \A v \in Workers : step'[v] # "none" <=> worker'[v].pc = "handling"
    BY <1>8 DEF WorkerCrash, Queue!WorkerCrash, Queue!Loop, HandlersTypeOK, Steps,
                Queue!QueueTypeOK, Queue!ColumnsTypeOK
  <2> QED
    BY <1>8, <2>1 DEF WorkerCrash, deliveryVars, HandlersTypeOK
<1>9. CASE UNCHANGED vars
  BY <1>9 DEF vars, queueVars, deliveryVars, HandlersTypeOK
<1> QED
  BY <1>1, <1>2, <1>3, <1>4, <1>5, <1>6, <1>7, <1>8, <1>9, DeliveryAssumption DEF Next

\* The types of the queue and of the handlers, and a handler runs exactly while its
\* worker's loop waits for it, crashes and failing calls included (process_job).
THEOREM TypeCorrect == Spec => []TypeOK
<1>1. Init => HandlersTypeOK
  <2> SUFFICES ASSUME Init PROVE HandlersTypeOK
    OBVIOUS
  <2>1. \A w \in Workers : worker[w].pc = "down"
    BY DEF Init, Queue!Init, Queue!Loop
  <2> QED
    BY <2>1 DEF Init, HandlersTypeOK, Steps, ReminderStatuses
<1> QED
  BY <1>1, TypeStep, QueueTypes, PTL DEF Spec, TypeOK

-----------------------------------------------------------------------------
\* The inductive invariant behind RemindedOnce: the contact lock lets one handler in,
\* and only a claimed reminder can have been pinged about more often than calls
\* with an unknown outcome account for.
Unpinged(j) == pings[j] <= unknown[j]
OneHolder == \A v, w \in Workers : HoldsContact(v) /\ HoldsContact(w) => v = w
UnsentIsUnpinged == \A j \in ReminderJobs : reminder[j] # "sent" => Unpinged(j)
InHandIsClaimed ==
    \A w \in Workers :
        Reminding(w) /\ step[w] \in {"sending", "releasing"}
        => reminder[JobOf(w)] = "sent" /\ Unpinged(JobOf(w))
OnceInv == OneHolder /\ UnsentIsUnpinged /\ InHandIsClaimed /\ RemindedOnce

\* A step that lets nobody in, leaves the reminders and gives no handler another
\* job keeps the invariant.
LEMMA OnceQuiet ==
    ASSUME OnceInv, UNCHANGED <<reminder, pings, unknown>>,
           \A v \in Workers :
             step'[v] \notin {"none", "locking"} => step'[v] = step[v] /\ JobOf(v)' = JobOf(v)
    PROVE  OnceInv'
<1>1. OneHolder'
  BY DEF OnceInv, OneHolder, HoldsContact
<1>2. (UnsentIsUnpinged /\ RemindedOnce)'
  BY DEF OnceInv, UnsentIsUnpinged, RemindedOnce, Unpinged
<1>3. InHandIsClaimed'
  BY DEF OnceInv, InHandIsClaimed, Reminding, Unpinged, JobOf
<1> QED
  BY <1>1, <1>2, <1>3 DEF OnceInv

\* What the worker that holds the contact does leaves the other workers' part alone.
LEMMA OnceHolder ==
    ASSUME TypeOK, OnceInv, NEW w \in Workers, HandlerStep(w), HoldsContact(w),
           UnsentIsUnpinged', RemindedOnce',
           Reminding(w) /\ step'[w] \in {"sending", "releasing"}
             => reminder'[JobOf(w)] = "sent" /\ Unpinged(JobOf(w))'
    PROVE  OnceInv'
<1>1. /\ \A v \in Workers : v # w => worker'[v] = worker[v] /\ step'[v] = step[v]
      /\ step'[w] # "none" => worker'[w] = worker[w]
  BY StepTypes DEF TypeOK
<1>2. \A v \in Workers : v # w => ~ HoldsContact(v)
  BY DEF OnceInv, OneHolder
<1>3. OneHolder'
  BY <1>1, <1>2 DEF OneHolder, HoldsContact
<1>4. InHandIsClaimed'
  BY <1>1, <1>2 DEF InHandIsClaimed, HoldsContact, Reminding, JobOf, Unpinged
<1> QED
  BY <1>3, <1>4 DEF OnceInv

LEMMA OnceHandler ==
    ASSUME TypeOK, OnceInv, NEW w \in Workers, HandlerStep(w)
    PROVE  OnceInv'
<1>1. /\ \A v \in Workers : v # w => worker'[v] = worker[v] /\ step'[v] = step[v]
      /\ step'[w] # "none" => worker'[w] = worker[w]
      /\ step \in [Workers -> Steps]
  BY StepTypes DEF TypeOK, HandlersTypeOK
<1>2. /\ reminder \in [ReminderJobs -> ReminderStatuses]
      /\ pings \in [Jobs -> Nat]
      /\ unknown \in [Jobs -> Nat]
  BY DEF TypeOK, HandlersTypeOK
<1>3. JobOf(w) \in Jobs
  <2>1. worker[w].pc = "handling"
    BY StepTypes DEF TypeOK, HandlersTypeOK
  <2> QED
    BY <2>1 DEF TypeOK, Queue!QueueTypeOK, Queue!ColumnsTypeOK, Queue!Busy, JobOf
<1>4. CASE LockContact(w)
  <2>1. /\ step' = [step EXCEPT ![w] = "reading"]
        /\ UNCHANGED <<worker, reminder, pings, unknown>>
        /\ \A v \in Workers : ~ HoldsContact(v)
    BY <1>4 DEF LockContact, Goto, queueVars, deliveryVars, ContactFree
  <2>2. OneHolder'
    BY <1>1, <2>1 DEF OneHolder, HoldsContact
  <2>3. (UnsentIsUnpinged /\ RemindedOnce)'
    BY <2>1 DEF OnceInv, UnsentIsUnpinged, RemindedOnce, Unpinged
  <2>4. InHandIsClaimed'
    BY <1>1, <2>1 DEF OnceInv, InHandIsClaimed, Reminding, JobOf, Unpinged
  <2> QED
    BY <2>2, <2>3, <2>4 DEF OnceInv
<1>5. ASSUME UNCHANGED <<reminder, pings, unknown>>, HoldsContact(w),
             Reminding(w) /\ step'[w] \in {"sending", "releasing"}
               => step[w] \in {"sending", "releasing"}
      PROVE  OnceInv'
  <2>1. (UnsentIsUnpinged /\ RemindedOnce)'
    BY <1>5 DEF OnceInv, UnsentIsUnpinged, RemindedOnce, Unpinged
  <2>2. Reminding(w) /\ step'[w] \in {"sending", "releasing"}
          => reminder'[JobOf(w)] = "sent" /\ Unpinged(JobOf(w))'
    BY <1>1, <1>5 DEF OnceInv, InHandIsClaimed, Unpinged, JobOf
  <2> QED
    BY <1>5, <2>1, <2>2, OnceHolder
<1>6. CASE ReadReminder(w) \/ ReadNotify(w) \/ PersistOutbound(w) \/ SendRejected(w)
  <2>1. HoldsContact(w)
    BY <1>6 DEF ReadReminder, ReadNotify, PersistOutbound, SendRejected, HoldsContact
  <2>2. UNCHANGED <<reminder, pings, unknown>>
    BY <1>6 DEF ReadReminder, ReadNotify, PersistOutbound, SendRejected, deliveryVars
  <2>3. Reminding(w) /\ step'[w] \in {"sending", "releasing"}
          => step[w] \in {"sending", "releasing"}
    BY <1>1, <1>6 DEF ReadReminder, ReadNotify, PersistOutbound, SendRejected, Goto, Return
  <2> QED
    BY <1>5, <2>1, <2>2, <2>3
<1>7. CASE ClaimReminder(w)
  <2>1. HoldsContact(w)
    BY <1>7 DEF ClaimReminder, HoldsContact
  <2>2. CASE reminder[JobOf(w)] = "active"
    <3>1. /\ reminder' = [reminder EXCEPT ![JobOf(w)] = "sent"]
          /\ UNCHANGED <<worker, pings, unknown>>
      BY <1>7, <2>2 DEF ClaimReminder, Goto, queueVars
    <3>2. UnsentIsUnpinged'
      BY <1>2, <3>1 DEF OnceInv, UnsentIsUnpinged, Unpinged
    <3>3. RemindedOnce'
      BY <3>1 DEF OnceInv, RemindedOnce
    <3>4. Reminding(w) => reminder'[JobOf(w)] = "sent" /\ Unpinged(JobOf(w))'
      BY <1>2, <2>2, <3>1 DEF OnceInv, UnsentIsUnpinged, Unpinged, Reminding, JobOf
    <3> QED
      BY <2>1, <3>2, <3>3, <3>4, OnceHolder
  <2>3. CASE reminder[JobOf(w)] # "active"
    <3>1. UNCHANGED <<reminder, pings, unknown>> /\ step'[w] = "none"
      BY <1>1, <1>7, <2>3 DEF ClaimReminder, Return
    <3> QED
      BY <1>5, <2>1, <3>1
  <2> QED
    BY <2>2, <2>3
<1>8. CASE SendAnswered(w)
  <2>1. /\ HoldsContact(w)
        /\ step[w] = "sending"
        /\ pings' = [pings EXCEPT ![JobOf(w)] = @ + 1]
        /\ UNCHANGED <<reminder, unknown>>
        /\ step'[w] = "persisting"
    BY <1>1, <1>8 DEF SendAnswered, HoldsContact, Goto
  <2>2. Reminding(w) => reminder[JobOf(w)] = "sent" /\ Unpinged(JobOf(w))
    BY <2>1 DEF OnceInv, InHandIsClaimed
  <2>3. UnsentIsUnpinged'
    BY <1>2, <1>3, <2>1, <2>2 DEF OnceInv, UnsentIsUnpinged, Unpinged, Reminding
  <2>4. RemindedOnce'
    BY <1>2, <1>3, <2>1, <2>2, DeliveryAssumption
    DEF OnceInv, RemindedOnce, Unpinged, Reminding
  <2> QED
    BY <2>1, <2>3, <2>4, OnceHolder
<1>9. CASE SendAnswerLost(w)
  <2>1. /\ HoldsContact(w)
        /\ step[w] = "sending"
        /\ pings' = [pings EXCEPT ![JobOf(w)] = @ + 1]
        /\ unknown' = [unknown EXCEPT ![JobOf(w)] = @ + 1]
        /\ UNCHANGED reminder
    BY <1>9 DEF SendAnswerLost, HoldsContact
  <2>2. Reminding(w) => reminder[JobOf(w)] = "sent" /\ Unpinged(JobOf(w))
    BY <2>1 DEF OnceInv, InHandIsClaimed
  <2>3. UnsentIsUnpinged'
    BY <1>2, <1>3, <2>1, DeliveryAssumption DEF OnceInv, UnsentIsUnpinged, Unpinged
  <2>4. RemindedOnce'
    BY <1>2, <1>3, <2>1, DeliveryAssumption DEF OnceInv, RemindedOnce
  <2>5. Reminding(w) => reminder'[JobOf(w)] = "sent" /\ pings'[JobOf(w)] <= unknown'[JobOf(w)]
    BY <1>2, <1>3, <2>1, <2>2 DEF Unpinged
  <2>6. step'[w] # "none" => JobOf(w)' = JobOf(w)
    BY <1>1 DEF JobOf
  <2> QED
    BY <2>1, <2>3, <2>4, <2>5, <2>6, OnceHolder DEF Unpinged
<1>10. CASE ReleaseReminder(w)
  <2>1. /\ HoldsContact(w)
        /\ step[w] = "releasing"
        /\ reminder' = [reminder EXCEPT ![JobOf(w)] = IF @ = "sent" THEN "active" ELSE @]
        /\ UNCHANGED <<pings, unknown>>
        /\ step'[w] = "none"
    BY <1>1, <1>10 DEF ReleaseReminder, HoldsContact, Raise
  <2>2. Reminding(w) => Unpinged(JobOf(w))
    BY <2>1 DEF OnceInv, InHandIsClaimed
  <2>3. UnsentIsUnpinged'
    BY <1>2, <2>1, <2>2 DEF OnceInv, UnsentIsUnpinged, Unpinged, Reminding
  <2>4. RemindedOnce'
    BY <2>1 DEF OnceInv, RemindedOnce
  <2> QED
    BY <2>1, <2>3, <2>4, OnceHolder
<1> QED
  BY <1>4, <1>6, <1>7, <1>8, <1>9, <1>10 DEF HandlerStep

\* A job that was not enqueued yet has no reminder.
NewHasNone == \A j \in ReminderJobs : jobStatus[j] = "none" => reminder[j] = "none"

LEMMA NewStep == TypeOK /\ NewHasNone /\ [Next]_vars => NewHasNone'
<1> SUFFICES ASSUME TypeOK, NewHasNone, [Next]_vars PROVE NewHasNone'
  OBVIOUS
<1>1. /\ jobStatus \in [Jobs -> Queue!JobStatuses]
      /\ reminder \in [ReminderJobs -> ReminderStatuses]
  BY DEF TypeOK, HandlersTypeOK, Queue!QueueTypeOK, Queue!ColumnsTypeOK
<1>2. ASSUME NEW j \in Jobs, Enqueue(j) PROVE NewHasNone'
  BY <1>1, <1>2, DeliveryAssumption DEF Enqueue, Queue!Enqueue, NewHasNone
<1>3. ASSUME NEW j \in Jobs, TimeStep(j) PROVE NewHasNone'
  BY <1>3 DEF TimeStep, Queue!TimeStep, Queue!RunAtPasses, Queue!LockAges, deliveryVars,
              NewHasNone
<1>4. ASSUME NEW j \in ReminderJobs, CancelReminder(j) PROVE NewHasNone'
  BY <1>1, <1>4 DEF CancelReminder, queueVars, NewHasNone
<1>5. ASSUME NEW w \in Workers, NEW j \in Jobs, ClaimJob(w, j) PROVE NewHasNone'
  BY <1>1, <1>5, DeliveryAssumption DEF ClaimJob, Queue!ClaimJob, deliveryVars, NewHasNone
<1>6. ASSUME NEW w \in Workers, LoopStep(w) PROVE NewHasNone'
  <2>1. ASSUME NEW s \in {"done", "dead", "pending"}, NEW n, NEW d,
               Queue!SettleJob(w, s, n, d), NEW j \in Jobs, jobStatus'[j] = "none"
        PROVE  jobStatus[j] = "none"
    <3>1. CASE Queue!StillRunning(worker[w].job)
      BY <1>1, <2>1, <3>1 DEF Queue!SettleJob
    <3>2. CASE ~ Queue!StillRunning(worker[w].job)
      BY <2>1, <3>2 DEF Queue!SettleJob, Queue!jobVars
    <3> QED
      BY <3>1, <3>2
  <2>2. ASSUME NEW j \in Jobs, jobStatus'[j] = "none" PROVE jobStatus[j] = "none"
    <3>1. CASE Queue!StartWorker(w)
      BY <2>2, <3>1 DEF Queue!StartWorker, Queue!RecoverStaleJobs
    <3>2. CASE Queue!CompleteJob(w)
      BY <2>1, <2>2, <3>2 DEF Queue!CompleteJob
    <3>3. CASE Queue!DeadLetter(w)
      BY <2>1, <2>2, <3>3 DEF Queue!DeadLetter
    <3>4. CASE Queue!ReadFailed(w)
      BY <2>2, <3>4 DEF Queue!ReadFailed, Queue!jobVars
    <3>5. CASE Queue!FailJob(w)
      <4>1. \E s \in {"done", "dead", "pending"}, n \in {worker[w].attempts + 1}, d \in BOOLEAN :
              Queue!SettleJob(w, s, n, d)
        BY <3>5 DEF Queue!FailJob
      <4> QED
        BY <2>1, <2>2, <4>1
    <3> QED
      BY <1>6, <3>1, <3>2, <3>3, <3>4, <3>5 DEF LoopStep, Queue!LoopStep
  <2> QED
    BY <1>6, <2>2, DeliveryAssumption DEF LoopStep, deliveryVars, NewHasNone
<1>7. ASSUME NEW w \in Workers, HandlerStep(w) PROVE NewHasNone'
  <2>1. UNCHANGED jobStatus
    BY <1>7, StepTypes DEF TypeOK
  <2>2. \A j \in ReminderJobs : reminder[j] = "none" => reminder'[j] = "none"
    BY <1>1, <1>7 DEF HandlerStep, LockContact, ReadReminder, ClaimReminder, ReadNotify,
       SendAnswered, SendAnswerLost, SendRejected, PersistOutbound, ReleaseReminder,
       deliveryVars
  <2> QED
    BY <2>1, <2>2 DEF NewHasNone
<1>8. ASSUME NEW w \in Workers, HandlerFaults(w) \/ WorkerCrash(w) PROVE NewHasNone'
  BY <1>8 DEF HandlerFaults, WorkerCrash, Queue!HandlerFaults, Queue!HandlerReturns,
     Queue!WorkerCrash, Queue!jobVars, deliveryVars, NewHasNone
<1>9. CASE UNCHANGED vars
  BY <1>9 DEF vars, queueVars, deliveryVars, NewHasNone
<1> QED
  BY <1>2, <1>3, <1>4, <1>5, <1>6, <1>7, <1>8, <1>9 DEF Next

LEMMA OnceStep == TypeOK /\ NewHasNone /\ OnceInv /\ [Next]_vars => OnceInv'
<1> SUFFICES ASSUME TypeOK, NewHasNone, OnceInv, [Next]_vars PROVE OnceInv'
  OBVIOUS
<1>1. /\ step \in [Workers -> Steps]
      /\ reminder \in [ReminderJobs -> ReminderStatuses]
      /\ \A v \in Workers : step[v] # "none" <=> worker[v].pc = "handling"
      /\ worker \in [Workers -> [pc : Queue!WorkerSteps, job : Jobs \cup {NoJob}, attempts : Nat]]
  BY DEF TypeOK, HandlersTypeOK, Queue!QueueTypeOK, Queue!ColumnsTypeOK
<1>2. ASSUME NEW j \in Jobs, Enqueue(j) PROVE OnceInv'
  <2>1. UNCHANGED <<step, worker, pings, unknown>>
    BY <1>2 DEF Enqueue, Queue!Enqueue
  <2>2. CASE j \notin ReminderJobs
    <3>1. UNCHANGED reminder
      BY <1>2, <2>2 DEF Enqueue
    <3> QED
      BY <2>1, <3>1, OnceQuiet DEF JobOf
  <2>3. CASE j \in ReminderJobs
    <3>1. reminder' = [reminder EXCEPT ![j] = "active"] /\ reminder[j] = "none"
      BY <1>2, <2>3 DEF Enqueue, Queue!Enqueue, NewHasNone
    <3>2. UnsentIsUnpinged'
      BY <1>1, <2>1, <3>1 DEF OnceInv, UnsentIsUnpinged, Unpinged
    <3>3. (OneHolder /\ RemindedOnce)'
      BY <2>1 DEF OnceInv, OneHolder, HoldsContact, RemindedOnce
    <3>4. InHandIsClaimed'
      BY <1>1, <2>1, <3>1 DEF OnceInv, InHandIsClaimed, Reminding, JobOf, Unpinged
    <3> QED
      BY <3>2, <3>3, <3>4 DEF OnceInv
  <2> QED
    BY <2>2, <2>3
<1>3. ASSUME NEW j \in Jobs, TimeStep(j) PROVE OnceInv'
  BY <1>3, OnceQuiet DEF TimeStep, Queue!TimeStep, Queue!RunAtPasses, Queue!LockAges,
     deliveryVars, JobOf
<1>4. ASSUME NEW j \in ReminderJobs, CancelReminder(j) PROVE OnceInv'
  <2>1. /\ reminder[j] = "active"
        /\ reminder' = [reminder EXCEPT ![j] = "cancelled"]
        /\ UNCHANGED <<step, worker, pings, unknown>>
    BY <1>4 DEF CancelReminder, queueVars
  <2>2. UnsentIsUnpinged'
    BY <1>1, <2>1 DEF OnceInv, UnsentIsUnpinged, Unpinged
  <2>3. (OneHolder /\ RemindedOnce)'
    BY <2>1 DEF OnceInv, OneHolder, HoldsContact, RemindedOnce
  <2>4. InHandIsClaimed'
    BY <1>1, <2>1 DEF OnceInv, InHandIsClaimed, Reminding, JobOf, Unpinged
  <2> QED
    BY <2>2, <2>3, <2>4 DEF OnceInv
<1>5. ASSUME NEW w \in Workers, NEW j \in Jobs, ClaimJob(w, j) PROVE OnceInv'
  <2>1. /\ UNCHANGED <<reminder, pings, unknown>>
        /\ step' = [step EXCEPT ![w] = "locking"]
        /\ \A v \in Workers : v # w => worker'[v] = worker[v]
    BY <1>1, <1>5 DEF ClaimJob, Queue!ClaimJob, deliveryVars
  <2> QED
    BY <1>1, <2>1, OnceQuiet DEF JobOf
<1>6. ASSUME NEW w \in Workers, LoopStep(w) PROVE OnceInv'
  <2>1. UNCHANGED <<step, reminder, pings, unknown>>
    BY <1>6 DEF LoopStep, deliveryVars
  <2>2. \A v \in Workers : worker[v].pc = "handling" => worker'[v].job = worker[v].job
    BY <1>6, LoopKeepsHands DEF LoopStep, TypeOK
  <2> QED
    BY <1>1, <2>1, <2>2, OnceQuiet DEF JobOf
<1>7. ASSUME NEW w \in Workers, HandlerStep(w) PROVE OnceInv'
  BY <1>7, OnceHandler
<1>8. ASSUME NEW w \in Workers, HandlerFaults(w) \/ WorkerCrash(w) PROVE OnceInv'
  <2>1. /\ UNCHANGED <<reminder, pings, unknown>>
        /\ step' = [step EXCEPT ![w] = "none"]
        /\ \A v \in Workers : v # w => worker'[v] = worker[v]
    BY <1>1, <1>8 DEF HandlerFaults, WorkerCrash, Queue!HandlerFaults,
       Queue!HandlerReturns, Queue!WorkerCrash, deliveryVars
  <2> QED
    BY <1>1, <2>1, OnceQuiet DEF JobOf
<1>9. CASE UNCHANGED vars
  BY <1>9, OnceQuiet DEF vars, queueVars, deliveryVars, JobOf
<1> QED
  BY <1>2, <1>3, <1>4, <1>5, <1>6, <1>7, <1>8, <1>9 DEF Next

LEMMA OnceInit == Init => NewHasNone /\ OnceInv
<1> SUFFICES ASSUME Init PROVE NewHasNone /\ OnceInv
  OBVIOUS
<1>1. /\ \A w \in Workers : step[w] = "none"
      /\ \A j \in ReminderJobs : reminder[j] = "none"
      /\ \A j \in Jobs : pings[j] = 0 /\ unknown[j] = 0
  BY DEF Init
<1>2. NewHasNone
  BY <1>1 DEF NewHasNone
<1>3. OneHolder /\ InHandIsClaimed
  BY <1>1 DEF OneHolder, InHandIsClaimed, HoldsContact
<1>4. UnsentIsUnpinged /\ RemindedOnce
  BY <1>1, DeliveryAssumption DEF UnsentIsUnpinged, RemindedOnce, Unpinged
<1> QED
  BY <1>2, <1>3, <1>4 DEF OnceInv

LEMMA OnceHolds == Spec => [](TypeOK /\ NewHasNone /\ OnceInv)
<1> QED
  BY OnceInit, TypeCorrect, NewStep, OnceStep, PTL DEF Spec

\* However many workers retry, recover and crash, a reminder pings a second time only
\* for a call that delivered it and raised (claim_reminder_for_send).
THEOREM RemindsOnce == Spec => []RemindedOnce
<1>1. OnceInv => RemindedOnce
  BY DEF OnceInv
<1> QED
  BY <1>1, OnceHolds, PTL

-----------------------------------------------------------------------------
LEMMA SilentStep == TypeOK /\ NewHasNone /\ OnceInv /\ [Next]_vars => [KeepsSilent]_vars
<1> SUFFICES ASSUME TypeOK, NewHasNone, OnceInv, [Next]_vars,
                    NEW j \in ReminderJobs, reminder[j] = "cancelled"
             PROVE  UNCHANGED <<reminder[j], pings[j]>>
  BY DEF KeepsSilent
<1>1. /\ reminder \in [ReminderJobs -> ReminderStatuses]
      /\ pings \in [Jobs -> Nat]
      /\ j \in Jobs
  BY DeliveryAssumption DEF TypeOK, HandlersTypeOK
<1>2. ASSUME NEW i \in Jobs, Enqueue(i) PROVE UNCHANGED <<reminder[j], pings[j]>>
  <2>1. i # j
    BY <1>2 DEF Enqueue, Queue!Enqueue, NewHasNone
  <2> QED
    BY <1>1, <1>2, <2>1 DEF Enqueue
<1>3. ASSUME NEW i \in Jobs, CancelReminder(i) PROVE UNCHANGED <<reminder[j], pings[j]>>
  BY <1>1, <1>3 DEF CancelReminder
<1>4. ASSUME NEW w \in Workers, HandlerStep(w) PROVE UNCHANGED <<reminder[j], pings[j]>>
  <2>1. step[w] = "sending" => JobOf(w) # j
    BY DEF OnceInv, InHandIsClaimed, Reminding
  <2>2. CASE SendAnswered(w) \/ SendAnswerLost(w)
    BY <1>1, <2>1, <2>2 DEF SendAnswered, SendAnswerLost
  <2>3. CASE ClaimReminder(w) \/ ReleaseReminder(w)
    BY <1>1, <2>3 DEF ClaimReminder, ReleaseReminder
  <2>4. CASE LockContact(w) \/ ReadReminder(w) \/ ReadNotify(w) \/ SendRejected(w)
             \/ PersistOutbound(w)
    BY <2>4 DEF LockContact, ReadReminder, ReadNotify, SendRejected, PersistOutbound,
                deliveryVars
  <2> QED
    BY <1>4, <2>2, <2>3, <2>4 DEF HandlerStep
<1>5. ASSUME UNCHANGED deliveryVars PROVE UNCHANGED <<reminder[j], pings[j]>>
  BY <1>5 DEF deliveryVars
<1> QED
  BY <1>2, <1>3, <1>4, <1>5, DeliveryAssumption
  DEF Next, TimeStep, ClaimJob, LoopStep, HandlerFaults, WorkerCrash, vars

\* A cancelled reminder is never pinged about, whatever a worker had read before
\* (cancel_reminder_row leaves the job alone; claim_reminder_for_send checks again).
THEOREM CancelledStaysSilent == Spec => CancelledIsSilent
<1> QED
  BY OnceHolds, SilentStep, PTL DEF Spec, CancelledIsSilent

-----------------------------------------------------------------------------
\* What else the loop does: it counts no fault, forgets no job, puts no worker in
\* front of complete_job, and only from there makes a job done.
LEMMA LoopFrame ==
    ASSUME Queue!QueueTypeOK, NEW w \in Workers, Queue!LoopStep(w)
    PROVE  /\ UNCHANGED faults
           /\ \A v \in Workers : worker'[v].pc = "completing" => worker'[v] = worker[v]
           /\ \A j \in Jobs : jobStatus'[j] = "none" => jobStatus[j] = "none"
           /\ \A j \in Jobs : jobStatus'[j] = "done"
                => jobStatus[j] = "done" \/ (worker[w].pc = "completing" /\ JobOf(w) = j)
<1>1. /\ worker \in [Workers -> [pc : Queue!WorkerSteps, job : Jobs \cup {NoJob}, attempts : Nat]]
      /\ jobStatus \in [Jobs -> Queue!JobStatuses]
  BY DEF Queue!QueueTypeOK, Queue!ColumnsTypeOK
<1>2. ASSUME NEW s \in {"done", "dead", "pending"}, NEW n, NEW d, Queue!SettleJob(w, s, n, d)
      PROVE  /\ UNCHANGED faults
             /\ \A v \in Workers : worker'[v].pc = "completing" => worker'[v] = worker[v]
             /\ \A j \in Jobs : jobStatus'[j] = jobStatus[j] \/ (jobStatus'[j] = s /\ j = JobOf(w))
  <2>1. UNCHANGED faults /\ worker' = [worker EXCEPT ![w] = Queue!Loop("polling")]
    BY <1>2 DEF Queue!SettleJob
  <2>2. \A j \in Jobs : jobStatus'[j] = jobStatus[j] \/ (jobStatus'[j] = s /\ j = JobOf(w))
    <3>1. CASE Queue!StillRunning(worker[w].job)
      BY <1>1, <1>2, <3>1 DEF Queue!SettleJob, JobOf
    <3>2. CASE ~ Queue!StillRunning(worker[w].job)
      BY <1>2, <3>2 DEF Queue!SettleJob, Queue!jobVars
    <3> QED
      BY <3>1, <3>2
  <2> QED
    BY <1>1, <2>1, <2>2 DEF Queue!Loop
<1>3. CASE Queue!StartWorker(w)
  BY <1>1, <1>3 DEF Queue!StartWorker, Queue!RecoverStaleJobs, Queue!Recoverable, Queue!Loop
<1>4. CASE Queue!CompleteJob(w)
  BY <1>2, <1>4 DEF Queue!CompleteJob
<1>5. CASE Queue!DeadLetter(w)
  BY <1>5, DeliveryAssumption DEF Queue!DeadLetter
<1>6. CASE Queue!ReadFailed(w)
  BY <1>1, <1>6 DEF Queue!ReadFailed, Queue!Loop, Queue!jobVars
<1>7. CASE Queue!FailJob(w)
  <2>1. \E s \in {"dead", "pending"}, n \in {worker[w].attempts + 1}, d \in BOOLEAN :
          Queue!SettleJob(w, s, n, d)
    BY <1>7 DEF Queue!FailJob
  <2> QED
    BY <1>2, <2>1
<1> QED
  BY <1>3, <1>4, <1>5, <1>6, <1>7 DEF Queue!LoopStep

\* A handler works on a job that was enqueued, and the job of a reminder comes with
\* its reminder.
InHandIsEnqueued == \A w \in Workers : step[w] # "none" => jobStatus[JobOf(w)] # "none"
EnqueuedHasOne == \A j \in ReminderJobs : jobStatus[j] # "none" => reminder[j] # "none"
EnqueuedInv == InHandIsEnqueued /\ EnqueuedHasOne

LEMMA EnqueuedStep == TypeOK /\ EnqueuedInv /\ [Next]_vars => EnqueuedInv'
<1> SUFFICES ASSUME TypeOK, EnqueuedInv, [Next]_vars PROVE EnqueuedInv'
  OBVIOUS
<1>1. /\ step \in [Workers -> Steps]
      /\ reminder \in [ReminderJobs -> ReminderStatuses]
      /\ jobStatus \in [Jobs -> Queue!JobStatuses]
      /\ worker \in [Workers -> [pc : Queue!WorkerSteps, job : Jobs \cup {NoJob}, attempts : Nat]]
      /\ \A v \in Workers : step[v] # "none" <=> worker[v].pc = "handling"
      /\ \A v \in Workers : step[v] # "none" => JobOf(v) \in Jobs
  BY DEF TypeOK, HandlersTypeOK, Queue!QueueTypeOK, Queue!ColumnsTypeOK, Queue!Busy, JobOf
<1>2. ASSUME UNCHANGED reminder,
             \A j \in Jobs : jobStatus'[j] = "none" <=> jobStatus[j] = "none",
             \A v \in Workers : step'[v] # "none" => step[v] # "none" /\ JobOf(v)' = JobOf(v)
      PROVE  EnqueuedInv'
  BY <1>1, <1>2, DeliveryAssumption DEF EnqueuedInv, InHandIsEnqueued, EnqueuedHasOne
<1>3. ASSUME NEW j \in Jobs, Enqueue(j) PROVE EnqueuedInv'
  <2>1. /\ jobStatus' = [jobStatus EXCEPT ![j] = "pending"]
        /\ UNCHANGED <<worker, step>>
    BY <1>3 DEF Enqueue, Queue!Enqueue
  <2>2. InHandIsEnqueued'
    BY <1>1, <2>1 DEF EnqueuedInv, InHandIsEnqueued, JobOf
  <2>3. EnqueuedHasOne'
    BY <1>1, <1>3, <2>1, DeliveryAssumption DEF EnqueuedInv, EnqueuedHasOne, Enqueue
  <2> QED
    BY <2>2, <2>3 DEF EnqueuedInv
<1>4. ASSUME NEW j \in Jobs, TimeStep(j) PROVE EnqueuedInv'
  BY <1>2, <1>4 DEF TimeStep, Queue!TimeStep, Queue!RunAtPasses, Queue!LockAges, deliveryVars,
                    JobOf
<1>5. ASSUME NEW j \in ReminderJobs, CancelReminder(j) PROVE EnqueuedInv'
  BY <1>1, <1>5 DEF CancelReminder, queueVars, EnqueuedInv, InHandIsEnqueued, EnqueuedHasOne,
                    JobOf
<1>6. ASSUME NEW w \in Workers, NEW j \in Jobs, ClaimJob(w, j) PROVE EnqueuedInv'
  <2>1. /\ jobStatus[j] = "pending"
        /\ jobStatus' = [jobStatus EXCEPT ![j] = "running"]
        /\ worker' = [worker EXCEPT ![w] =
             [pc |-> "handling", job |-> j, attempts |-> attempts[j]]]
        /\ step' = [step EXCEPT ![w] = "locking"]
        /\ UNCHANGED reminder
    BY <1>6 DEF ClaimJob, Queue!ClaimJob, deliveryVars
  <2>2. /\ worker'[w].job = j
        /\ \A v \in Workers : v # w => worker'[v] = worker[v] /\ step'[v] = step[v]
    BY <1>1, <2>1
  <2>3. InHandIsEnqueued'
    BY <1>1, <2>1, <2>2 DEF EnqueuedInv, InHandIsEnqueued, JobOf
  <2>4. EnqueuedHasOne'
    BY <1>1, <2>1, DeliveryAssumption DEF EnqueuedInv, EnqueuedHasOne
  <2> QED
    BY <2>3, <2>4 DEF EnqueuedInv
<1>7. ASSUME NEW w \in Workers, LoopStep(w) PROVE EnqueuedInv'
  <2>1. UNCHANGED <<step, reminder>>
    BY <1>7 DEF LoopStep, deliveryVars
  <2>2. \A v \in Workers : step[v] # "none" => JobOf(v)' = JobOf(v)
    BY <1>1, <1>7, LoopKeepsHands DEF LoopStep, TypeOK, JobOf
  <2>3. \A j \in Jobs : jobStatus'[j] = "none" => jobStatus[j] = "none"
    BY <1>7, LoopFrame DEF LoopStep, TypeOK
  <2>4. \A j \in Jobs : jobStatus[j] = "none" => jobStatus'[j] = "none"
    <3>1. ASSUME NEW s, NEW n, NEW d, Queue!SettleJob(w, s, n, d), NEW j \in Jobs,
                 jobStatus[j] = "none"
          PROVE  jobStatus'[j] = "none"
      BY <1>1, <3>1 DEF Queue!SettleJob, Queue!StillRunning, Queue!jobVars
    <3> QED
      BY <1>7, <3>1 DEF LoopStep, Queue!LoopStep, Queue!StartWorker, Queue!RecoverStaleJobs,
         Queue!Recoverable, Queue!CompleteJob, Queue!DeadLetter, Queue!ReadFailed,
         Queue!FailJob, Queue!jobVars
  <2> QED
    BY <1>2, <2>1, <2>2, <2>3, <2>4
<1>8. ASSUME NEW w \in Workers, HandlerStep(w) PROVE EnqueuedInv'
  <2>1. /\ UNCHANGED jobStatus
        /\ \A v \in Workers : step'[v] # "none" => step[v] # "none" /\ JobOf(v)' = JobOf(v)
    BY <1>8, StepTypes DEF TypeOK, JobOf
  <2>2. \A j \in ReminderJobs : reminder[j] # "none" => reminder'[j] # "none"
    BY <1>1, <1>8 DEF HandlerStep, LockContact, ReadReminder, ClaimReminder, ReadNotify,
       SendAnswered, SendAnswerLost, SendRejected, PersistOutbound, ReleaseReminder,
       deliveryVars
  <2> QED
    BY <2>1, <2>2 DEF EnqueuedInv, InHandIsEnqueued, EnqueuedHasOne
<1>9. ASSUME NEW w \in Workers, HandlerFaults(w) \/ WorkerCrash(w) PROVE EnqueuedInv'
  <2>1. /\ UNCHANGED <<reminder, jobStatus>>
        /\ step' = [step EXCEPT ![w] = "none"]
        /\ \A v \in Workers : v # w => worker'[v] = worker[v]
    BY <1>1, <1>9 DEF HandlerFaults, WorkerCrash, Queue!HandlerFaults,
       Queue!HandlerReturns, Queue!WorkerCrash, Queue!jobVars, deliveryVars
  <2> QED
    BY <1>1, <1>2, <2>1 DEF JobOf
<1>10. CASE UNCHANGED vars
  BY <1>2, <1>10 DEF vars, queueVars, deliveryVars, JobOf
<1> QED
  BY <1>3, <1>4, <1>5, <1>6, <1>7, <1>8, <1>9, <1>10 DEF Next

LEMMA DeliveryHolds == Spec => [](TypeOK /\ NewHasNone /\ OnceInv /\ EnqueuedInv)
<1>1. Init => EnqueuedInv
  BY DeliveryAssumption
  DEF Init, Queue!Init, EnqueuedInv, InHandIsEnqueued, EnqueuedHasOne
<1> QED
  BY <1>1, OnceHolds, EnqueuedStep, PTL DEF Spec

-----------------------------------------------------------------------------
\* The inductive invariant behind NotifiedOnce: whoever sends a confirmation found no
\* record of it, and one that is not recorded was delivered no more often than lost
\* answers and faults account for, except by the handler that is about to record it.
SendingIsUnrecorded == \A w \in Workers : step[w] = "sending" => JobOf(w) \notin recorded
Persisting(j) == \E w \in Workers : step[w] = "persisting" /\ JobOf(w) = j
Accounted(j) == pings[j] <= unknown[j] + faults
ClaimingIsReminder == \A w \in Workers : step[w] = "claiming" => Reminding(w)
UnrecordedIsAccounted ==
    \A j \in NotifyJobs : j \notin recorded => Accounted(j) \/ Persisting(j)
NotifyInv ==
    SendingIsUnrecorded /\ ClaimingIsReminder /\ UnrecordedIsAccounted /\ NotifiedOnce

\* A step that sends and records nothing keeps the invariant: a handler that was to
\* record its message still is, or the fault that ended it is counted.
LEMMA NotifyQuiet ==
    ASSUME TypeOK, NotifyInv, UNCHANGED <<recorded, pings, unknown>>,
           \A v \in Workers :
             step'[v] \in {"claiming", "sending"} => step'[v] = step[v] /\ JobOf(v)' = JobOf(v),
           \/ faults' = faults + 1
           \/ /\ faults' = faults
              /\ \A v \in Workers :
                   step[v] = "persisting" => step'[v] = "persisting" /\ JobOf(v)' = JobOf(v)
    PROVE  NotifyInv'
<1>1. /\ \A j \in NotifyJobs : pings[j] \in Nat /\ unknown[j] \in Nat
      /\ faults \in Nat
  BY DEF TypeOK, HandlersTypeOK, Queue!QueueTypeOK, Queue!ColumnsTypeOK, NotifyJobs
<1>2. SendingIsUnrecorded' /\ ClaimingIsReminder'
  BY DEF NotifyInv, SendingIsUnrecorded, ClaimingIsReminder, Reminding
<1>3. NotifiedOnce'
  BY <1>1 DEF NotifyInv, NotifiedOnce
<1>4. CASE faults' = faults + 1
  <2>1. \A j \in NotifyJobs : Accounted(j)'
    BY <1>1, <1>4 DEF NotifyInv, NotifiedOnce, Accounted
  <2> QED
    BY <1>2, <1>3, <2>1 DEF NotifyInv, UnrecordedIsAccounted
<1>5. CASE /\ faults' = faults
           /\ \A v \in Workers :
                step[v] = "persisting" => step'[v] = "persisting" /\ JobOf(v)' = JobOf(v)
  <2>1. \A j \in NotifyJobs : Persisting(j) => Persisting(j)'
    BY <1>5 DEF Persisting
  <2>2. \A j \in NotifyJobs : Accounted(j) => Accounted(j)'
    BY <1>5 DEF Accounted
  <2> QED
    BY <1>2, <1>3, <2>1, <2>2 DEF NotifyInv, UnrecordedIsAccounted
<1> QED
  BY <1>4, <1>5

LEMMA NotifyHandler ==
    ASSUME TypeOK, OneHolder, InHandIsEnqueued, NotifyInv, NEW w \in Workers, HandlerStep(w)
    PROVE  NotifyInv'
<1>1. /\ \A v \in Workers : v # w => worker'[v] = worker[v] /\ step'[v] = step[v]
      /\ step'[w] # "none" => worker'[w] = worker[w]
      /\ step[w] # "none"
  BY StepTypes DEF TypeOK
<1>2. /\ pings \in [Jobs -> Nat]
      /\ unknown \in [Jobs -> Nat]
      /\ step \in [Workers -> Steps]
      /\ faults \in Nat
      /\ JobOf(w) \in Jobs
      /\ NotifyJobs \subseteq Jobs
  BY <1>1 DEF TypeOK, HandlersTypeOK, Queue!QueueTypeOK, Queue!ColumnsTypeOK, Queue!Busy, JobOf,
              NotifyJobs
<1>3. UNCHANGED faults
  BY DEF HandlerStep, LockContact, ReadReminder, ClaimReminder, ReadNotify, SendAnswered,
         SendAnswerLost, SendRejected, SendRaises, PersistOutbound, ReleaseReminder, Goto,
         Return, Raise, Queue!HandlerEnds, queueVars
<1>4. ASSUME HoldsContact(w), NEW v \in Workers, v # w
      PROVE  step[v] \notin {"sending", "persisting"} /\ step'[v] = step[v]
  BY <1>1, <1>4 DEF OneHolder, HoldsContact
\* What the holder of the contact does to its own job is all that matters.
<1>5. ASSUME HoldsContact(w),
             step'[w] = "sending" => JobOf(w) \notin recorded',
             step'[w] = "claiming" => Reminding(w),
             UnrecordedIsAccounted', NotifiedOnce',
             UNCHANGED recorded \/ step'[w] # "sending"
      PROVE  NotifyInv'
  <2>1. SendingIsUnrecorded'
    BY <1>1, <1>4, <1>5 DEF NotifyInv, SendingIsUnrecorded, JobOf
  <2>2. ClaimingIsReminder'
    BY <1>1, <1>5 DEF NotifyInv, ClaimingIsReminder, Reminding, JobOf
  <2> QED
    BY <1>5, <2>1, <2>2 DEF NotifyInv
<1>6. ASSUME UNCHANGED <<recorded, pings, unknown>>, step[w] # "persisting"
      PROVE  UnrecordedIsAccounted' /\ NotifiedOnce'
  <2>1. \A j \in NotifyJobs : Persisting(j) => Persisting(j)'
    BY <1>1, <1>6 DEF Persisting, JobOf
  <2> QED
    BY <1>3, <1>6, <2>1 DEF NotifyInv, UnrecordedIsAccounted, NotifiedOnce, Accounted
<1>7. CASE LockContact(w)
  <2>1. /\ UNCHANGED <<recorded, pings, unknown>>
        /\ step[w] = "locking"
        /\ step'[w] = "reading"
    BY <1>2, <1>7 DEF LockContact, Goto, deliveryVars
  <2> QED
    BY <1>1, <1>3, <2>1, NotifyQuiet DEF JobOf
<1>8. CASE ReadReminder(w) \/ ClaimReminder(w) \/ ReadNotify(w) \/ SendRejected(w)
           \/ ReleaseReminder(w)
  <2>1. /\ UNCHANGED <<recorded, pings, unknown>>
        /\ step[w] \in {"reading", "claiming", "sending", "releasing"}
    BY <1>8 DEF ReadReminder, ClaimReminder, ReadNotify, SendRejected, ReleaseReminder,
                deliveryVars
  <2>2. step'[w] = "sending" => JobOf(w) \notin recorded
    <3>1. CASE ClaimReminder(w)
      <4>1. Reminding(w)
        BY <3>1 DEF ClaimReminder, NotifyInv, ClaimingIsReminder
      <4> QED
        BY <4>1 DEF Reminding, TypeOK, HandlersTypeOK, NotifyJobs
    <3>2. CASE ReadNotify(w)
      BY <1>2, <3>2 DEF ReadNotify, AlreadySent, Return
    <3>3. CASE ReadReminder(w) \/ SendRejected(w) \/ ReleaseReminder(w)
      BY <1>2, <3>3 DEF ReadReminder, SendRejected, ReleaseReminder, SendRaises, Goto, Return,
                        Raise
    <3> QED
      BY <1>8, <3>1, <3>2, <3>3
  <2>3. step'[w] = "claiming" => Reminding(w)
    BY <1>2, <1>8 DEF ReadReminder, ClaimReminder, ReadNotify, SendRejected, ReleaseReminder,
                      SendRaises, Goto, Return, Raise
  <2>4. UnrecordedIsAccounted' /\ NotifiedOnce'
    BY <1>6, <2>1
  <2> QED
    BY <1>5, <2>1, <2>2, <2>3, <2>4 DEF HoldsContact
<1>9. CASE SendAnswered(w)
  <2>1. /\ step[w] = "sending"
        /\ step'[w] = "persisting"
        /\ pings' = [pings EXCEPT ![JobOf(w)] = @ + 1]
        /\ UNCHANGED <<recorded, unknown>>
    BY <1>2, <1>9 DEF SendAnswered, Goto
  <2>2. HoldsContact(w) /\ JobOf(w) \notin recorded /\ JobOf(w)' = JobOf(w)
    BY <1>1, <2>1 DEF HoldsContact, NotifyInv, SendingIsUnrecorded, JobOf
  <2>3. \A j \in NotifyJobs : ~ Persisting(j)
    BY <1>4, <2>1, <2>2 DEF Persisting
  <2>4. /\ pings'[JobOf(w)] = pings[JobOf(w)] + 1
        /\ \A j \in Jobs : j # JobOf(w) => pings'[j] = pings[j]
    BY <1>2, <2>1
  <2>5. ASSUME NEW j \in NotifyJobs, j # JobOf(w)
        PROVE  /\ j \notin recorded' => Accounted(j)'
               /\ pings'[j] <= 1 + unknown'[j] + faults'
    BY <1>2, <1>3, <2>1, <2>3, <2>4, <2>5
    DEF NotifyInv, UnrecordedIsAccounted, Accounted, NotifiedOnce
  <2>6. ASSUME JobOf(w) \in NotifyJobs
        PROVE  pings'[JobOf(w)] <= 1 + unknown'[JobOf(w)] + faults'
    <3>1. pings[JobOf(w)] <= unknown[JobOf(w)] + faults
      BY <2>2, <2>3, <2>6 DEF NotifyInv, UnrecordedIsAccounted, Accounted
    <3>2. pings[JobOf(w)] \in Nat /\ unknown[JobOf(w)] \in Nat
      BY <1>2
    <3> QED
      BY <1>2, <1>3, <2>1, <2>4, <3>1, <3>2
  <2>7. Persisting(JobOf(w))'
    BY <2>1, <2>2 DEF Persisting
  <2> QED
    BY <1>5, <2>1, <2>2, <2>5, <2>6, <2>7 DEF UnrecordedIsAccounted, NotifiedOnce
<1>10. CASE SendAnswerLost(w)
  <2>1. /\ step[w] = "sending"
        /\ pings' = [pings EXCEPT ![JobOf(w)] = @ + 1]
        /\ unknown' = [unknown EXCEPT ![JobOf(w)] = @ + 1]
        /\ UNCHANGED recorded
        /\ step'[w] \notin {"sending", "claiming"}
    BY <1>2, <1>10 DEF SendAnswerLost, SendRaises, Goto, Raise
  <2>2. HoldsContact(w)
    BY <2>1 DEF HoldsContact
  <2>3. \A j \in NotifyJobs : ~ Persisting(j)
    BY <1>4, <2>1, <2>2 DEF Persisting
  <2>4. \A j \in Jobs : \/ pings'[j] = pings[j] /\ unknown'[j] = unknown[j]
                        \/ pings'[j] = pings[j] + 1 /\ unknown'[j] = unknown[j] + 1
    BY <1>2, <2>1
  <2>5. \A j \in Jobs : pings[j] \in Nat /\ unknown[j] \in Nat
    BY <1>2
  <2>6. ASSUME NEW j \in NotifyJobs
        PROVE  /\ j \notin recorded' => Accounted(j)'
               /\ pings'[j] <= 1 + unknown'[j] + faults'
    <3>1. /\ j \notin recorded => pings[j] <= unknown[j] + faults
          /\ pings[j] <= 1 + unknown[j] + faults
      BY <2>3, <2>6 DEF NotifyInv, UnrecordedIsAccounted, Accounted, NotifiedOnce
    <3> QED
      BY <1>2, <1>3, <2>1, <2>4, <2>5, <3>1 DEF Accounted
  <2> QED
    BY <1>5, <2>1, <2>2, <2>6 DEF UnrecordedIsAccounted, NotifiedOnce
<1>11. CASE PersistOutbound(w)
  <2>1. /\ step[w] = "persisting"
        /\ step'[w] = "none"
        /\ UNCHANGED <<pings, unknown>>
    BY <1>2, <1>11 DEF PersistOutbound, Return
  <2>2. HoldsContact(w)
    BY <2>1 DEF HoldsContact
  <2>3. recorded \subseteq recorded' /\ (JobOf(w) \in NotifyJobs => JobOf(w) \in recorded')
    BY <1>1, <1>11 DEF PersistOutbound, InHandIsEnqueued, Reminding, NotifyJobs
  <2>4. \A j \in NotifyJobs : Persisting(j) => j = JobOf(w)
    BY <1>4, <2>2 DEF Persisting
  <2>5. UnrecordedIsAccounted'
    BY <1>3, <2>1, <2>3, <2>4 DEF NotifyInv, UnrecordedIsAccounted, Accounted
  <2>6. NotifiedOnce'
    BY <1>3, <2>1 DEF NotifyInv, NotifiedOnce
  <2> QED
    BY <1>5, <2>1, <2>2, <2>5, <2>6
<1> QED
  BY <1>7, <1>8, <1>9, <1>10, <1>11 DEF HandlerStep

LEMMA NotifyStep ==
    TypeOK /\ OnceInv /\ EnqueuedInv /\ NotifyInv /\ [Next]_vars => NotifyInv'
<1> SUFFICES ASSUME TypeOK, OnceInv, EnqueuedInv, NotifyInv, [Next]_vars PROVE NotifyInv'
  OBVIOUS
<1>1. /\ step \in [Workers -> Steps]
      /\ \A v \in Workers : step[v] # "none" <=> worker[v].pc = "handling"
      /\ worker \in [Workers -> [pc : Queue!WorkerSteps, job : Jobs \cup {NoJob}, attempts : Nat]]
  BY DEF TypeOK, HandlersTypeOK, Queue!QueueTypeOK, Queue!ColumnsTypeOK
<1>2. ASSUME NEW j \in Jobs, Enqueue(j) PROVE NotifyInv'
  BY <1>2, NotifyQuiet DEF Enqueue, Queue!Enqueue, JobOf
<1>3. ASSUME NEW j \in Jobs, TimeStep(j) PROVE NotifyInv'
  BY <1>3, NotifyQuiet DEF TimeStep, Queue!TimeStep, Queue!RunAtPasses, Queue!LockAges,
     deliveryVars, JobOf
<1>4. ASSUME NEW j \in ReminderJobs, CancelReminder(j) PROVE NotifyInv'
  BY <1>4, NotifyQuiet DEF CancelReminder, queueVars, JobOf
<1>5. ASSUME NEW w \in Workers, NEW j \in Jobs, ClaimJob(w, j) PROVE NotifyInv'
  <2>1. /\ UNCHANGED <<recorded, pings, unknown, faults>>
        /\ step[w] = "none"
        /\ step' = [step EXCEPT ![w] = "locking"]
        /\ \A v \in Workers : v # w => worker'[v] = worker[v]
    BY <1>1, <1>5 DEF ClaimJob, Queue!ClaimJob, deliveryVars
  <2> QED
    BY <1>1, <2>1, NotifyQuiet DEF JobOf
<1>6. ASSUME NEW w \in Workers, LoopStep(w) PROVE NotifyInv'
  <2>1. UNCHANGED <<step, recorded, pings, unknown, faults>>
    BY <1>6, LoopFrame DEF LoopStep, deliveryVars, TypeOK
  <2>2. \A v \in Workers : step[v] # "none" => JobOf(v)' = JobOf(v)
    BY <1>1, <1>6, LoopKeepsHands DEF LoopStep, TypeOK, JobOf
  <2> QED
    BY <2>1, <2>2, NotifyQuiet
<1>7. ASSUME NEW w \in Workers, HandlerStep(w) PROVE NotifyInv'
  BY <1>7, NotifyHandler DEF OnceInv, EnqueuedInv
<1>8. ASSUME NEW w \in Workers, HandlerFaults(w) \/ WorkerCrash(w) PROVE NotifyInv'
  <2>1. /\ UNCHANGED <<recorded, pings, unknown>>
        /\ step' = [step EXCEPT ![w] = "none"]
        /\ \A v \in Workers : v # w => worker'[v] = worker[v]
        /\ faults' = faults + 1
    BY <1>1, <1>8 DEF HandlerFaults, WorkerCrash, Queue!HandlerFaults,
       Queue!HandlerReturns, Queue!WorkerCrash, Queue!Fault, deliveryVars
  <2> QED
    BY <1>1, <2>1, NotifyQuiet DEF JobOf
<1>9. CASE UNCHANGED vars
  BY <1>9, NotifyQuiet DEF vars, queueVars, deliveryVars, JobOf
<1> QED
  BY <1>2, <1>3, <1>4, <1>5, <1>6, <1>7, <1>8, <1>9 DEF Next

\* The confirmation of a connection repeats only for an answer that was lost and for a
\* fault between its delivery and its record (outbound_exists_since, under the
\* contact's lock).
THEOREM NotifiesOnce == Spec => []NotifiedOnce
<1>1. Init => NotifyInv
  <2> SUFFICES ASSUME Init PROVE NotifyInv
    OBVIOUS
  <2>1. /\ \A w \in Workers : step[w] = "none"
        /\ \A j \in NotifyJobs : pings[j] = 0 /\ unknown[j] = 0
        /\ faults = 0
    BY DEF Init, Queue!Init, NotifyJobs
  <2>2. SendingIsUnrecorded /\ ClaimingIsReminder
    BY <2>1 DEF SendingIsUnrecorded, ClaimingIsReminder
  <2>3. UnrecordedIsAccounted /\ NotifiedOnce
    BY <2>1 DEF UnrecordedIsAccounted, Accounted, NotifiedOnce
  <2> QED
    BY <2>2, <2>3 DEF NotifyInv
<1>2. NotifyInv => NotifiedOnce
  BY DEF NotifyInv
<1> QED
  BY <1>1, <1>2, DeliveryHolds, NotifyStep, PTL DEF Spec

-----------------------------------------------------------------------------
\* The inductive invariant behind DoneWasReminded, while nothing has failed: a claim
\* without a ping is in the hands of the worker that holds the contact, and a worker
\* that is about to complete its reminder has seen it told or cancelled.
Told(j) == pings[j] > 0 \/ reminder[j] = "cancelled"
SendingOf(j) == \E w \in Workers : step[w] \in {"sending", "releasing"} /\ JobOf(w) = j
ClaimIsInHand ==
    \A j \in ReminderJobs : reminder[j] = "sent" => pings[j] > 0 \/ SendingOf(j)
PersistingIsTold ==
    \A w \in Workers : Reminding(w) /\ step[w] = "persisting" => pings[JobOf(w)] > 0
CompletingIsTold ==
    \A w \in Workers : Reminding(w) /\ worker[w].pc = "completing" => Told(JobOf(w))
DoneIsTold == \A j \in ReminderJobs : jobStatus[j] = "done" => Told(j)
DoneInv ==
    faults = 0 => ClaimIsInHand /\ PersistingIsTold /\ CompletingIsTold /\ DoneIsTold

\* Nobody takes a ping back, and no cancellation.
LEMMA ToldStays ==
    TypeOK /\ NewHasNone /\ OnceInv /\ [Next]_vars
    => \A j \in ReminderJobs : /\ pings[j] > 0 => pings'[j] > 0
                               /\ Told(j) => Told(j)'
<1> SUFFICES ASSUME TypeOK, NewHasNone, OnceInv, [Next]_vars, NEW j \in ReminderJobs
             PROVE  /\ pings[j] > 0 => pings'[j] > 0
                    /\ Told(j) => Told(j)'
  OBVIOUS
<1>1. pings \in [Jobs -> Nat] /\ j \in Jobs
  BY DeliveryAssumption DEF TypeOK, HandlersTypeOK
<1>2. CASE reminder[j] = "cancelled"
  <2>1. UNCHANGED <<reminder[j], pings[j]>>
    <3>1. KeepsSilent \/ UNCHANGED vars
      BY SilentStep
    <3> QED
      BY <1>2, <3>1 DEF KeepsSilent, vars, deliveryVars
  <2> QED
    BY <1>2, <2>1 DEF Told
<1>3. pings'[j] = pings[j] \/ pings'[j] = pings[j] + 1
  <2>1. ASSUME NEW w \in Workers, HandlerStep(w)
        PROVE  pings'[j] = pings[j] \/ pings'[j] = pings[j] + 1
    BY <1>1, <2>1 DEF HandlerStep, LockContact, ReadReminder, ClaimReminder, ReadNotify,
       SendAnswered, SendAnswerLost, SendRejected, PersistOutbound, ReleaseReminder,
       deliveryVars
  <2> QED
    BY <2>1 DEF Next, Enqueue, TimeStep, CancelReminder, ClaimJob, LoopStep, HandlerFaults,
       WorkerCrash, vars, deliveryVars
<1>4. pings[j] > 0 => pings'[j] > 0
  BY <1>1, <1>3
<1> QED
  BY <1>2, <1>4 DEF Told

\* A step that claims nothing, and ends no handler and no send.
LEMMA DoneQuiet ==
    ASSUME TypeOK, NewHasNone, OnceInv, [Next]_vars, DoneInv, faults = 0,
           \A j \in ReminderJobs : reminder'[j] = "sent" => reminder[j] = "sent",
           \A v \in Workers : step[v] \in {"sending", "releasing"}
             => step'[v] = step[v] /\ JobOf(v)' = JobOf(v),
           \A v \in Workers : step'[v] = "persisting"
             => step[v] = "persisting" /\ JobOf(v)' = JobOf(v),
           \A v \in Workers : worker'[v].pc = "completing"
             => worker[v].pc = "completing" /\ JobOf(v)' = JobOf(v),
           \A j \in ReminderJobs : jobStatus'[j] = "done" => jobStatus[j] = "done" \/ Told(j)
    PROVE  DoneInv'
<1>1. \A j \in ReminderJobs : /\ pings[j] > 0 => pings'[j] > 0
                              /\ Told(j) => Told(j)'
  BY ToldStays
<1>2. ClaimIsInHand'
  BY <1>1 DEF DoneInv, ClaimIsInHand, SendingOf
<1>3. PersistingIsTold' /\ CompletingIsTold'
  BY <1>1 DEF DoneInv, PersistingIsTold, CompletingIsTold, Reminding
<1>4. DoneIsTold'
  BY <1>1 DEF DoneInv, DoneIsTold
<1> QED
  BY <1>2, <1>3, <1>4 DEF DoneInv

\* What a handler does to its own job, while nothing fails: it claims it and has it in
\* hand, pings, gives the claim back, or returns only once the job is told.
LEMMA DoneHandler ==
    ASSUME TypeOK, NewHasNone, OnceInv, EnqueuedInv, NEW w \in Workers, HandlerStep(w),
           DoneInv, faults = 0
    PROVE  DoneInv'
<1>1. /\ \A v \in Workers : v # w => worker'[v] = worker[v] /\ step'[v] = step[v]
      /\ step'[w] # "none" => worker'[w] = worker[w]
      /\ step[w] # "none"
      /\ UNCHANGED jobStatus
  BY StepTypes DEF TypeOK
<1>2. /\ pings \in [Jobs -> Nat]
      /\ reminder \in [ReminderJobs -> ReminderStatuses]
      /\ step \in [Workers -> Steps]
      /\ \A v \in Workers : step[v] # "none" <=> worker[v].pc = "handling"
      /\ worker \in [Workers -> [pc : Queue!WorkerSteps, job : Jobs \cup {NoJob}, attempts : Nat]]
      /\ JobOf(w) \in Jobs
      /\ ReminderJobs \subseteq Jobs
  BY <1>1, DeliveryAssumption
  DEF TypeOK, HandlersTypeOK, Queue!QueueTypeOK, Queue!ColumnsTypeOK, Queue!Busy, JobOf
<1>3. ClaimIsInHand /\ PersistingIsTold /\ CompletingIsTold /\ DoneIsTold
  BY DEF DoneInv
<1>4. \A j \in ReminderJobs : /\ pings[j] > 0 => pings'[j] > 0
                              /\ Told(j) => Told(j)'
  <2>1. [Next]_vars
    BY DEF Next
  <2> QED
    BY <2>1, ToldStays
<1>5. DoneIsTold'
  BY <1>1, <1>3, <1>4 DEF DoneIsTold
<1>6. ASSUME ClaimIsInHand',
             Reminding(w) /\ step'[w] = "persisting" => pings'[JobOf(w)] > 0,
             Reminding(w) /\ worker'[w].pc = "completing" => Told(JobOf(w)),
             worker'[w].job = worker[w].job
      PROVE  DoneInv'
  <2>1. PersistingIsTold'
    BY <1>1, <1>3, <1>4, <1>6 DEF PersistingIsTold, Reminding, JobOf
  <2>2. CompletingIsTold'
    BY <1>1, <1>3, <1>4, <1>6 DEF CompletingIsTold, Reminding, JobOf
  <2> QED
    BY <1>5, <1>6, <2>1, <2>2 DEF DoneInv
<1>7. ASSUME Return(w) PROVE /\ worker'[w].pc = "completing"
                             /\ worker'[w].job = worker[w].job
                             /\ step'[w] = "none"
  BY <1>2, <1>7 DEF Return, Queue!HandlerEnds, Queue!HandlerReturns
<1>8. ASSUME Raise(w) PROVE /\ worker'[w].pc = "failing"
                            /\ worker'[w].job = worker[w].job
                            /\ step'[w] = "none"
  BY <1>2, <1>8 DEF Raise, Queue!HandlerEnds, Queue!HandlerReturns
<1>9. ASSUME NEW s, Goto(w, s)
      PROVE  /\ worker' = worker
             /\ step'[w] = s
             /\ worker[w].pc = "handling"
  BY <1>1, <1>2, <1>9 DEF Goto, queueVars
\* Nobody else has a claim in hand.
<1>10. ASSUME HoldsContact(w), step[w] \notin {"sending", "releasing"}
       PROVE  \A j \in ReminderJobs : reminder[j] = "sent" => pings[j] > 0
  <2>1. \A v \in Workers : step[v] \notin {"sending", "releasing"}
    BY <1>10 DEF OnceInv, OneHolder, HoldsContact
  <2> QED
    BY <1>3, <2>1 DEF ClaimIsInHand, SendingOf
<1>11. CASE LockContact(w)
  <2>1. /\ step[w] = "locking" /\ step'[w] = "reading"
        /\ UNCHANGED <<worker, reminder, pings>>
        /\ worker[w].pc = "handling"
    BY <1>9, <1>11 DEF LockContact, deliveryVars
  <2>2. ClaimIsInHand'
    BY <1>1, <1>3, <2>1 DEF ClaimIsInHand, SendingOf, JobOf
  <2> QED
    BY <1>6, <2>1, <2>2
<1>12. CASE ReadReminder(w)
  <2>1. UNCHANGED <<reminder, pings>> /\ step[w] = "reading" /\ HoldsContact(w)
    BY <1>12 DEF ReadReminder, deliveryVars, HoldsContact
  <2>2. ClaimIsInHand'
    BY <1>10, <2>1 DEF ClaimIsInHand
  <2>3. CASE reminder[JobOf(w)] = "active"
    BY <1>6, <1>9, <1>12, <2>2, <2>3 DEF ReadReminder
  <2>4. CASE reminder[JobOf(w)] # "active"
    <3>1. JobOf(w) \in ReminderJobs /\ reminder[JobOf(w)] \in {"sent", "cancelled"}
      BY <1>1, <1>2, <1>12, <2>4
      DEF ReadReminder, Reminding, EnqueuedInv, InHandIsEnqueued, EnqueuedHasOne,
          ReminderStatuses
    <3>2. Told(JobOf(w))
      BY <1>10, <2>1, <3>1 DEF Told
    <3> QED
      BY <1>6, <1>7, <1>12, <2>2, <2>4, <3>2 DEF ReadReminder
  <2> QED
    BY <2>3, <2>4
<1>13. CASE ClaimReminder(w)
  <2>1. UNCHANGED pings /\ step[w] = "claiming" /\ HoldsContact(w)
    BY <1>13 DEF ClaimReminder, HoldsContact
  <2>2. CASE reminder[JobOf(w)] = "active"
    <3>1. /\ reminder' = [reminder EXCEPT ![JobOf(w)] = "sent"]
          /\ worker' = worker
          /\ step'[w] = "sending"
          /\ worker[w].pc = "handling"
      BY <1>9, <1>13, <2>2 DEF ClaimReminder
    <3>2. SendingOf(JobOf(w))'
      BY <3>1 DEF SendingOf, JobOf
    <3>3. ClaimIsInHand'
      BY <1>2, <1>10, <2>1, <3>1, <3>2 DEF ClaimIsInHand, JobOf
    <3> QED
      BY <1>6, <3>1, <3>3
  <2>3. CASE reminder[JobOf(w)] # "active"
    <3>1. Return(w) /\ UNCHANGED reminder
      BY <1>13, <2>3 DEF ClaimReminder
    <3>2. ClaimIsInHand'
      BY <1>10, <2>1, <3>1 DEF ClaimIsInHand
    <3>3. Reminding(w) => Told(JobOf(w))
      BY <1>1, <1>2, <1>10, <2>1, <2>3
      DEF Reminding, EnqueuedInv, InHandIsEnqueued, EnqueuedHasOne, ReminderStatuses, Told
    <3> QED
      BY <1>6, <1>7, <3>1, <3>2, <3>3
  <2> QED
    BY <2>2, <2>3
<1>14. CASE ReadNotify(w)
  <2>1. /\ UNCHANGED <<reminder, pings>>
        /\ step[w] = "reading" /\ HoldsContact(w)
        /\ ~ Reminding(w)
    BY <1>14 DEF ReadNotify, deliveryVars, HoldsContact
  <2>2. ClaimIsInHand'
    BY <1>10, <2>1 DEF ClaimIsInHand
  <2>3. worker'[w].job = worker[w].job
    BY <1>7, <1>9, <1>14 DEF ReadNotify
  <2> QED
    BY <1>6, <2>1, <2>2, <2>3
<1>15. CASE SendAnswered(w) \/ SendAnswerLost(w)
  <2>1. /\ step[w] = "sending"
        /\ pings' = [pings EXCEPT ![JobOf(w)] = @ + 1]
        /\ UNCHANGED reminder
    BY <1>15 DEF SendAnswered, SendAnswerLost
  <2>2. /\ worker'[w].job = worker[w].job
        /\ worker'[w].pc # "completing"
    BY <1>8, <1>9, <1>15 DEF SendAnswered, SendAnswerLost, SendRaises
  <2>3. pings'[JobOf(w)] > 0
    BY <1>2, <2>1
  <2>4. ClaimIsInHand'
    <3>1. \A j \in ReminderJobs : j # JobOf(w) /\ SendingOf(j) => SendingOf(j)'
      BY <1>1 DEF SendingOf, JobOf
    <3> QED
      BY <1>3, <1>4, <2>1, <2>3, <3>1 DEF ClaimIsInHand
  <2> QED
    BY <1>6, <2>2, <2>3, <2>4
<1>16. CASE SendRejected(w)
  <2>1. step[w] = "sending" /\ UNCHANGED <<reminder, pings>>
    BY <1>16 DEF SendRejected, deliveryVars
  <2>2. /\ worker'[w].job = worker[w].job
        /\ worker'[w].pc # "completing"
        /\ step'[w] # "persisting"
        /\ Reminding(w) => step'[w] = "releasing"
    BY <1>8, <1>9, <1>16 DEF SendRejected, SendRaises
  <2>3. \A j \in ReminderJobs : SendingOf(j) => SendingOf(j)'
    BY <1>1, <2>1, <2>2 DEF SendingOf, Reminding, JobOf
  <2>4. ClaimIsInHand'
    BY <1>3, <2>1, <2>3 DEF ClaimIsInHand
  <2> QED
    BY <1>6, <2>2, <2>4
<1>17. CASE PersistOutbound(w)
  <2>1. /\ step[w] = "persisting" /\ HoldsContact(w)
        /\ UNCHANGED <<reminder, pings>>
        /\ Return(w)
    BY <1>17 DEF PersistOutbound, HoldsContact
  <2>2. ClaimIsInHand'
    BY <1>10, <2>1 DEF ClaimIsInHand
  <2>3. Reminding(w) => Told(JobOf(w))
    BY <1>3, <2>1 DEF PersistingIsTold, Told
  <2> QED
    BY <1>6, <1>7, <2>1, <2>2, <2>3
<1>18. CASE ReleaseReminder(w)
  <2>1. /\ step[w] = "releasing" /\ HoldsContact(w)
        /\ reminder' = [reminder EXCEPT ![JobOf(w)] = IF @ = "sent" THEN "active" ELSE @]
        /\ UNCHANGED pings
        /\ Raise(w)
    BY <1>18 DEF ReleaseReminder, HoldsContact
  <2>2. \A j \in ReminderJobs : reminder'[j] = "sent" => reminder[j] = "sent" /\ j # JobOf(w)
    BY <1>2, <2>1
  <2>3. \A j \in ReminderJobs : j # JobOf(w) /\ SendingOf(j) => SendingOf(j)'
    BY <1>1 DEF SendingOf, JobOf
  <2>4. ClaimIsInHand'
    BY <1>3, <2>1, <2>2, <2>3 DEF ClaimIsInHand
  <2> QED
    BY <1>6, <1>8, <2>1, <2>4
<1> QED
  BY <1>11, <1>12, <1>13, <1>14, <1>15, <1>16, <1>17, <1>18 DEF HandlerStep

LEMMA DoneStep ==
    TypeOK /\ NewHasNone /\ OnceInv /\ EnqueuedInv /\ DoneInv /\ [Next]_vars => DoneInv'
<1> SUFFICES ASSUME TypeOK, NewHasNone, OnceInv, EnqueuedInv, DoneInv, [Next]_vars
             PROVE  DoneInv'
  OBVIOUS
<1>1. /\ step \in [Workers -> Steps]
      /\ reminder \in [ReminderJobs -> ReminderStatuses]
      /\ jobStatus \in [Jobs -> Queue!JobStatuses]
      /\ faults \in Nat
      /\ \A v \in Workers : step[v] # "none" <=> worker[v].pc = "handling"
      /\ worker \in [Workers -> [pc : Queue!WorkerSteps, job : Jobs \cup {NoJob}, attempts : Nat]]
      /\ ReminderJobs \subseteq Jobs
  BY DeliveryAssumption DEF TypeOK, HandlersTypeOK, Queue!QueueTypeOK, Queue!ColumnsTypeOK
<1>2. ASSUME NEW j \in Jobs, Enqueue(j), faults = 0 PROVE DoneInv'
  <2>1. /\ UNCHANGED <<step, worker>>
        /\ \A i \in ReminderJobs : reminder'[i] = "sent" => reminder[i] = "sent"
        /\ \A i \in ReminderJobs : jobStatus'[i] = "done" => jobStatus[i] = "done"
    BY <1>1, <1>2 DEF Enqueue, Queue!Enqueue
  <2> QED
    BY <1>2, <2>1, DoneQuiet DEF JobOf
<1>3. ASSUME NEW j \in Jobs, TimeStep(j), faults = 0 PROVE DoneInv'
  BY <1>3, DoneQuiet DEF TimeStep, Queue!TimeStep, Queue!RunAtPasses, Queue!LockAges,
     deliveryVars, JobOf
<1>4. ASSUME NEW j \in ReminderJobs, CancelReminder(j), faults = 0 PROVE DoneInv'
  <2>1. /\ UNCHANGED <<step, worker, jobStatus>>
        /\ \A i \in ReminderJobs : reminder'[i] = "sent" => reminder[i] = "sent"
    BY <1>1, <1>4 DEF CancelReminder, queueVars
  <2> QED
    BY <1>4, <2>1, DoneQuiet DEF JobOf
<1>5. ASSUME NEW w \in Workers, NEW j \in Jobs, ClaimJob(w, j), faults = 0 PROVE DoneInv'
  <2>1. /\ UNCHANGED reminder
        /\ step[w] = "none" /\ step' = [step EXCEPT ![w] = "locking"]
        /\ worker'[w].pc = "handling"
        /\ \A v \in Workers : v # w => worker'[v] = worker[v]
        /\ \A i \in Jobs : jobStatus'[i] = "done" => jobStatus[i] = "done"
    BY <1>1, <1>5 DEF ClaimJob, Queue!ClaimJob, deliveryVars
  <2> QED
    BY <1>1, <1>5, <2>1, DoneQuiet DEF JobOf
<1>6. ASSUME NEW w \in Workers, LoopStep(w), faults = 0 PROVE DoneInv'
  <2>1. UNCHANGED <<step, reminder>>
    BY <1>6 DEF LoopStep, deliveryVars
  <2>2. /\ \A v \in Workers : worker'[v].pc = "completing" => worker'[v] = worker[v]
        /\ \A j \in Jobs : jobStatus'[j] = "done"
             => jobStatus[j] = "done" \/ (worker[w].pc = "completing" /\ JobOf(w) = j)
    BY <1>6, LoopFrame DEF LoopStep, TypeOK
  <2>3. \A v \in Workers : step[v] # "none" => JobOf(v)' = JobOf(v)
    BY <1>1, <1>6, LoopKeepsHands DEF LoopStep, TypeOK, JobOf
  <2>4. \A j \in ReminderJobs : jobStatus'[j] = "done" => jobStatus[j] = "done" \/ Told(j)
    BY <1>1, <1>6, <2>2 DEF DoneInv, CompletingIsTold, Reminding
  <2> QED
    BY <1>6, <2>1, <2>2, <2>3, <2>4, DoneQuiet DEF JobOf
<1>7. ASSUME NEW w \in Workers, HandlerStep(w), faults = 0 PROVE DoneInv'
  BY <1>7, DoneHandler
<1>8. ASSUME NEW w \in Workers, HandlerFaults(w) \/ WorkerCrash(w) PROVE faults' > 0
  <2>1. faults' = faults + 1
    BY <1>8 DEF HandlerFaults, WorkerCrash, Queue!HandlerFaults, Queue!WorkerCrash,
                Queue!Fault
  <2>2. faults \in Nat
    BY <1>1
  <2> QED
    BY <2>1, <2>2
<1>9. CASE UNCHANGED vars
  BY <1>9 DEF vars, queueVars, deliveryVars, DoneInv, ClaimIsInHand, PersistingIsTold,
     CompletingIsTold, DoneIsTold, Told, SendingOf, Reminding, JobOf
<1>10. faults' = 0 => faults = 0
  <2>1. ASSUME NEW w \in Workers, LoopStep(w) PROVE UNCHANGED faults
    BY <2>1, LoopFrame DEF LoopStep, TypeOK
  <2>2. ASSUME NEW w \in Workers, HandlerStep(w) PROVE UNCHANGED faults
    BY <2>2 DEF HandlerStep, LockContact, ReadReminder, ClaimReminder, ReadNotify,
       SendAnswered, SendAnswerLost, SendRejected, SendRaises, PersistOutbound,
       ReleaseReminder, Goto, Return, Raise, Queue!HandlerEnds, queueVars
  <2> QED
    BY <1>8, <2>1, <2>2 DEF Next, Enqueue, Queue!Enqueue, TimeStep, Queue!TimeStep,
       Queue!RunAtPasses, Queue!LockAges, CancelReminder, ClaimJob, Queue!ClaimJob, vars,
       queueVars
<1> QED
  BY <1>2, <1>3, <1>4, <1>5, <1>6, <1>7, <1>8, <1>9, <1>10 DEF Next, DoneInv

\* While nothing has failed, a wake-up that is done was pinged or cancelled: a worker
\* that finds the claim taken is never in front of one that may still be released
\* (claim_reminder_for_send, release_reminder_claim, under the contact's lock).
THEOREM DoneMeansReminded == Spec => []DoneWasReminded
<1>1. Init => DoneInv
  <2> SUFFICES ASSUME Init PROVE DoneInv
    OBVIOUS
  <2>1. /\ \A w \in Workers : step[w] = "none" /\ worker[w].pc = "down"
        /\ \A j \in ReminderJobs : reminder[j] = "none" /\ jobStatus[j] = "none"
    BY DeliveryAssumption DEF Init, Queue!Init, Queue!Loop
  <2> QED
    BY <2>1 DEF DoneInv, ClaimIsInHand, PersistingIsTold, CompletingIsTold, DoneIsTold
<1>2. DoneInv => DoneWasReminded
  BY DEF DoneInv, DoneIsTold, DoneWasReminded, Told
<1> QED
  BY <1>1, <1>2, DeliveryHolds, DoneStep, PTL DEF Spec

=============================================================================
