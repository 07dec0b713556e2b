---------------------------- MODULE Conversation ----------------------------
(***************************************************************************)
(* What one person sees of the Interaction agent: from the webhook         *)
(* (src/app/api/main.py, api/dispatch.py) through the turn                 *)
(* (src/app/agent/interaction.py) to the messages it reserves and sends    *)
(* (src/app/db/executions.py, src/app/transport/twilio_wa.py).             *)
(*                                                                         *)
(* A turn answers an inbound message or tells the result of an Execution.  *)
(* It holds a pooled connection with the contact's advisory lock for its   *)
(* whole run and takes a second one for every transaction, so that waiting *)
(* turns can starve the one they wait for (src/app/db/session.py).  Every  *)
(* transaction is one action, and so is every call of Twilio.  The model   *)
(* chooses freely what to say, when to stop and when to fail.  A fault is  *)
(* a crash, a database call that raises or a lock connection that breaks;  *)
(* a pool that runs out is none.                                           *)
(*                                                                         *)
(* A definition named X_Y in front of X is X with a plausible bug Y.  No   *)
(* action uses it: it shows which property the bug would break.            *)
(***************************************************************************)
EXTENDS Integers, Sequences, FiniteSets

CONSTANTS
    Inbounds,      \* messages of the person, by MessageSid
    Results,       \* execution_event rows that re-enter Interaction
    Calls,         \* tool_call_id of the send_message_to_user calls of the model
    MaxVisible,    \* MAX_VISIBLE_OUTBOUNDS
    HistoryLimit,  \* HISTORY_LIMIT, or what HISTORY_MAX_CHARS leaves of it
    PoolSizes,     \* how many connections the turns of others may leave
    MaxRequests,   \* bound on the messages of one model run (request_limit)
    MaxPosts,      \* bound on how often Twilio posts a message
    MaxFaults,     \* bound on the faults
    NoCall, NoOne

ASSUME TurnsAssumption ==
    /\ Inbounds \cap Results = {}
    /\ NoOne \notin Inbounds \cup Results
ASSUME CallsAssumption ==
    /\ IsFiniteSet(Calls)
    /\ {"result", "confirmation", "fallback"} \cap Calls = {}
    /\ NoCall \notin Calls \cup {"result", "confirmation", "fallback"}
ASSUME LimitsAssumption ==
    /\ MaxVisible \in Nat \ {0}
    /\ HistoryLimit \in Nat \ {0}
    /\ PoolSizes \subseteq Nat \ {0}
    /\ MaxRequests \in Nat
    /\ MaxPosts \in Nat
    /\ MaxFaults \in Nat

Turns == Inbounds \cup Results
\* The code sends under ids of its own besides those of the model.
CallIds == Calls \cup {"result", "confirmation", "fallback"}
Numbers == 1 .. MaxVisible

VARIABLES
    log,        \* the message rows of the contact by created_at
    delivery,   \* message.delivery_state by turn and sequence, "none" before the row
    sends,      \* how often Twilio took the message of that row
    unknown,    \* the rows whose send raised although Twilio took it
    turn,       \* run_interaction_event of each turn
    lock,       \* who holds the advisory lock of the contact
    processed,  \* the results whose event is marked processed
    posts,      \* how often each inbound was posted
    pool,       \* connections of the engine that are left to this contact
    starved,    \* the turns a connection was refused to
    faults

messageVars == <<log, delivery, sends, unknown>>
vars == <<messageVars, turn, lock, processed, posts, pool, starved, faults>>

-----------------------------------------------------------------------------
PCs == {"none", "addressed", "dispatched", "waiting", "loading", "matching",
        "thinking", "reserving", "sending", "recording", "failing", "acking", "over"}
Ends == {"open", "model", "code", "stopped", "raised", "skipped", "forgotten", "lost"}
Outcomes == {"sent", "sent_persist_failed", "send_failed", "deduplicated", "skipped_limit"}
DeliveryStates == {"none", "reserved", "sent", "failed"}

NewTurn ==
    [pc |-> "none", end |-> "open", attempt |-> 0, requests |-> 0, seen |-> 0,
     call |-> NoCall, sequence |-> [c \in CallIds |-> 0],
     reserved |-> {}, outcomes |-> {}]

Over(t) == turn[t].pc = "over"
\* The turn works on what it loaded, under the lock if nobody broke it.
Running(t) ==
    turn[t].pc \in {"matching", "thinking", "reserving", "sending", "recording", "failing"}
Connected(t) == turn[t].pc \in {"waiting", "loading"} \/ Running(t)
Free == pool - Cardinality({t \in Turns : Connected(t)})

\* load_recent_messages: the newest rows, whatever became of their delivery.
Window(n) == {i \in 1 .. n : i > n - HistoryLimit}
\* history_to_prompt_and_messages raises unless one of them is of the person.
HasPrompt(n) == \E i \in Window(n) : log[i].seq = 0

Init ==
    /\ log = <<>>
    /\ delivery = [t \in Turns |-> [n \in Numbers |-> "none"]]
    /\ sends = [t \in Turns |-> [n \in Numbers |-> 0]]
    /\ unknown = {}
    /\ turn = [t \in Turns |-> NewTurn]
    /\ lock = NoOne
    /\ processed = {}
    /\ posts = [m \in Inbounds |-> 0]
    /\ pool \in PoolSizes
    /\ starved = {}
    /\ faults = 0

-----------------------------------------------------------------------------
(***************************************************************************)
(* Control flow of a turn.                                                 *)
(***************************************************************************)
Become(t, r) == turn' = [turn EXCEPT ![t] = r] /\ UNCHANGED lock

\* The lock's connection is closed on the way out.  If it broke before, its
\* commit raises and the caller never gets the outcome.  What the turn knew
\* goes with it; that a row was found reserved is kept for AcknowledgedWasSent.
LeaveAs(t, r, how, delivered) ==
    /\ turn' = [turn EXCEPT ![t] =
                  [NewTurn EXCEPT !.pc = IF t \in Results /\ delivered /\ lock = t
                                         THEN "acking" ELSE "over",
                                  !.end = how,
                                  !.outcomes = r.outcomes \cap {"deduplicated"}]]
    /\ lock' = IF lock = t THEN NoOne ELSE lock
Leave(t, how, delivered) == LeaveAs(t, turn[t], how, delivered)

Delivered_Tried(outcomes) == outcomes # {}
Delivered(outcomes) == outcomes \cap {"sent", "deduplicated", "sent_persist_failed"} # {}

\* What follows once _send_visible returned with outcome o to the turn in state r.
EndSend(t, r, o) ==
    LET s == [r EXCEPT !.outcomes = @ \cup {o}]
    IN  IF s.call \in Calls
        THEN Become(t, [s EXCEPT !.pc = "thinking", !.requests = @ + 1])
        ELSE LeaveAs(t, s, "code", s.call # "fallback" /\ Delivered(s.outcomes))

\* sequence_for: a call keeps the number it had.
SequenceFor(s, c) ==
    IF s[c] > 0 THEN s[c] ELSE 1 + Cardinality({d \in CallIds : s[d] > 0})

\* The head of _send_visible.
BeginSend(t, c) ==
    LET n == SequenceFor(turn[t].sequence, c)
        r == [turn[t] EXCEPT !.call = c, !.sequence[c] = n]
    IN  IF n <= MaxVisible
        THEN Become(t, [r EXCEPT !.pc = "reserving"])
        ELSE EndSend(t, r, "skipped_limit")

AttemptFails_GivesUp(t) ==
    IF turn[t].reserved # {} \/ turn[t].attempt = 1
    THEN Leave(t, "stopped", FALSE)
    ELSE Become(t, [turn[t] EXCEPT !.pc = "thinking", !.attempt = 1, !.requests = 0])

\* except Exception around the model run: once something is reserved the turn
\* stops; before that it is run once more, then the fallback is sent.
AttemptFails(t) ==
    IF turn[t].reserved # {}
    THEN Leave(t, "stopped", FALSE)
    ELSE IF turn[t].attempt = 0
         THEN Become(t, [turn[t] EXCEPT !.pc = "thinking", !.attempt = 1, !.requests = 0])
         ELSE BeginSend(t, "fallback")

\* _send_visible raises: inside the model run, or beside it.
SendRaises(t) ==
    IF turn[t].call \in Calls \cup {"result"}
    THEN AttemptFails(t)
    ELSE Leave(t, "raised", FALSE)

\* A transaction gets a second connection, or the pool's timeout, or a fault.
Database == Free > 0 /\ UNCHANGED <<pool, starved, faults>>
PoolTimeout_Waits(t) == FALSE
PoolTimeout(t) ==
    /\ Free = 0
    /\ starved' = starved \cup {t}
    /\ UNCHANGED <<pool, faults>>
Fault ==
    /\ faults < MaxFaults
    /\ faults' = faults + 1
    /\ UNCHANGED <<pool, starved>>
DatabaseRaises(t) == PoolTimeout(t) \/ Fault

-----------------------------------------------------------------------------
(***************************************************************************)
(* What starts a turn.                                                     *)
(***************************************************************************)
\* insert_inbound_message: a row of that MessageSid is there already.
Known(m) == turn[m].pc # "none"

Webhook_Redispatches(m) ==
    /\ posts[m] < MaxPosts
    /\ posts' = [posts EXCEPT ![m] = @ + 1]
    /\ Database
    /\ log' = Append(log, [turn |-> m, seq |-> 0])
    /\ turn' = [turn EXCEPT ![m].pc = "dispatched"]
    /\ UNCHANGED <<delivery, sends, unknown, lock, processed>>

\* webhook_twilio: the row's provider_message_id is unique, so a message that
\* Twilio posts again starts nothing.
\* (A post that finds no connection leaves nothing: as if it had not been.)
Webhook(m) ==
    /\ posts[m] < MaxPosts
    /\ posts' = [posts EXCEPT ![m] = @ + 1]
    /\ Database
    /\ IF Known(m)
       THEN UNCHANGED <<log, turn>>
       ELSE /\ turn' = [turn EXCEPT ![m].pc = "dispatched"]
            /\ log' = Append(log, [turn |-> m, seq |-> 0])
    /\ UNCHANGED <<delivery, sends, unknown, lock, processed>>

\* schedule_interaction_result, and the lookup of the phone.
ResultArrives(r) ==
    /\ turn[r].pc = "none"
    /\ turn' = [turn EXCEPT ![r].pc = "addressed"]
    /\ UNCHANGED <<messageVars, lock, processed, posts, pool, starved, faults>>

FindPhone(r) ==
    /\ turn[r].pc = "addressed"
    /\ \/ Database /\ turn' = [turn EXCEPT ![r].pc = "dispatched"]
       \/ DatabaseRaises(r) /\ turn' = [turn EXCEPT ![r].pc = "over", ![r].end = "raised"]
    /\ UNCHANGED <<messageVars, lock, processed, posts>>

-----------------------------------------------------------------------------
(***************************************************************************)
(* The lock and what is read under it.                                     *)
(***************************************************************************)
\* engine.connect(): the connection that will wait for the lock.
Connect(t) ==
    /\ turn[t].pc = "dispatched"
    /\ \/ Database /\ Become(t, [turn[t] EXCEPT !.pc = "waiting"])
       \/ DatabaseRaises(t) /\ Leave(t, "raised", FALSE)
    /\ UNCHANGED <<messageVars, processed, posts>>

LockContact_Shared(t) ==
    /\ turn[t].pc = "waiting"
    /\ turn' = [turn EXCEPT ![t].pc = "loading"]
    /\ UNCHANGED <<messageVars, lock, processed, posts, pool, starved, faults>>

\* pg_advisory_xact_lock.
LockContact(t) ==
    /\ turn[t].pc = "waiting"
    /\ lock = NoOne
    /\ lock' = t
    /\ turn' = [turn EXCEPT ![t].pc = "loading"]
    /\ UNCHANGED <<messageVars, processed, posts, pool, starved, faults>>

\* _load_event_context.
LoadContext(t) ==
    /\ turn[t].pc = "loading"
    /\ \/ /\ Database
          /\ IF log = <<>>
             THEN Leave(t, "skipped", FALSE)
             ELSE Become(t, [turn[t] EXCEPT !.pc = "matching", !.seen = Len(log)])
       \/ DatabaseRaises(t) /\ Leave(t, "raised", FALSE)
    /\ UNCHANGED <<messageVars, processed, posts>>

\* What opens the model run: for a result the proposals it staged, which the
\* code itself tells; for an inbound the newest message of the person.
TellProposal(t) ==
    /\ turn[t].pc = "matching"
    /\ t \in Results
    /\ \/ /\ Database
          /\ \/ BeginSend(t, "confirmation")
             \/ Become(t, [turn[t] EXCEPT !.pc = "thinking"])
       \/ DatabaseRaises(t) /\ Leave(t, "raised", FALSE)
    /\ UNCHANGED <<messageVars, processed, posts>>

FindPrompt(t) ==
    /\ turn[t].pc = "matching"
    /\ t \in Inbounds
    /\ IF HasPrompt(turn[t].seen)
       THEN Become(t, [turn[t] EXCEPT !.pc = "thinking"])
       ELSE Leave(t, "forgotten", FALSE)
    /\ UNCHANGED <<messageVars, processed, posts, pool, starved, faults>>

-----------------------------------------------------------------------------
(***************************************************************************)
(* The model run: it may ask for a message, finish, fail, or be stopped by *)
(* its request limit.                                                      *)
(***************************************************************************)
ModelCalls(t, c) ==
    /\ turn[t].pc = "thinking"
    /\ turn[t].requests < MaxRequests
    /\ BeginSend(t, c)
    /\ UNCHANGED <<messageVars, processed, posts, pool, starved, faults>>

\* A result that the model kept to itself is told by the code.
ModelFinishes(t) ==
    /\ turn[t].pc = "thinking"
    /\ IF t \in Results /\ turn[t].reserved = {}
       THEN BeginSend(t, "result")
       ELSE Leave(t, "model", Delivered(turn[t].outcomes))
    /\ UNCHANGED <<messageVars, processed, posts, pool, starved, faults>>

ModelFails(t) ==
    /\ turn[t].pc = "thinking"
    /\ AttemptFails(t)
    /\ UNCHANGED <<messageVars, processed, posts, pool, starved, faults>>

\* UsageLimitExceeded is not tried again.
UsageLimit(t) ==
    /\ turn[t].pc = "thinking"
    /\ turn[t].requests = MaxRequests
    /\ IF turn[t].reserved # {}
       THEN Leave(t, "stopped", FALSE)
       ELSE BeginSend(t, "fallback")
    /\ UNCHANGED <<messageVars, processed, posts, pool, starved, faults>>

-----------------------------------------------------------------------------
(***************************************************************************)
(* _send_visible: reserve the row, send, record what became of it.         *)
(***************************************************************************)
Number(t) == turn[t].sequence[turn[t].call]
InsertRow(t) ==
    /\ delivery[t][Number(t)] = "none"
    /\ log' = Append(log, [turn |-> t, seq |-> Number(t)])
    /\ delivery' = [delivery EXCEPT ![t][Number(t)] = "reserved"]

Reserve_SendsAgain(t) ==
    /\ turn[t].pc = "reserving"
    /\ Database
    /\ \/ InsertRow(t)
       \/ delivery[t][Number(t)] # "none" /\ UNCHANGED <<log, delivery>>
    /\ Become(t, [turn[t] EXCEPT !.pc = "sending", !.reserved = @ \cup {Number(t)}])
    /\ UNCHANGED <<sends, unknown, processed, posts>>

\* reserve_interaction_outbound: a row that is there already is not sent again.
\* A commit may raise although the row was written.
Reserve(t) ==
    /\ turn[t].pc = "reserving"
    /\ \/ /\ Database
          /\ InsertRow(t)
          /\ Become(t, [turn[t] EXCEPT !.pc = "sending",
                                       !.reserved = @ \cup {Number(t)}])
       \/ /\ Database
          /\ delivery[t][Number(t)] # "none"
          /\ EndSend(t, [turn[t] EXCEPT !.reserved = @ \cup {Number(t)}], "deduplicated")
          /\ UNCHANGED <<log, delivery>>
       \/ DatabaseRaises(t) /\ SendRaises(t) /\ UNCHANGED <<log, delivery>>
       \/ Free > 0 /\ Fault /\ SendRaises(t) /\ InsertRow(t)
    /\ UNCHANGED <<sends, unknown, processed, posts>>

\* send_text or a template.
TwilioTakes(t) == sends' = [sends EXCEPT ![t][Number(t)] = @ + 1]

TwilioAccepts(t) ==
    /\ turn[t].pc = "sending"
    /\ TwilioTakes(t)
    /\ Become(t, [turn[t] EXCEPT !.pc = "recording"])
    /\ UNCHANGED <<log, delivery, unknown, processed, posts, pool, starved, faults>>

\* It refuses, or its answer is lost.
TwilioRaises(t) ==
    /\ turn[t].pc = "sending"
    /\ \/ UNCHANGED <<sends, unknown>>
       \/ TwilioTakes(t) /\ unknown' = unknown \cup {<<t, Number(t)>>}
    /\ Become(t, [turn[t] EXCEPT !.pc = "failing", !.outcomes = @ \cup {"send_failed"}])
    /\ UNCHANGED <<log, delivery, processed, posts, pool, starved, faults>>

\* update_interaction_outbound_delivery.
Mark(t, state) == delivery' = [delivery EXCEPT ![t][Number(t)] = state]
MayMark(t, state) == UNCHANGED delivery \/ (Free > 0 /\ Mark(t, state))

RecordSent(t) ==
    /\ turn[t].pc = "recording"
    /\ \/ Database /\ Mark(t, "sent") /\ EndSend(t, turn[t], "sent")
       \/ DatabaseRaises(t) /\ MayMark(t, "sent") /\ EndSend(t, turn[t], "sent_persist_failed")
    /\ UNCHANGED <<log, sends, unknown, processed, posts>>

RecordFailed(t) ==
    /\ turn[t].pc = "failing"
    /\ \/ Database /\ Mark(t, "failed") /\ EndSend(t, turn[t], "send_failed")
       \/ DatabaseRaises(t) /\ MayMark(t, "failed") /\ SendRaises(t)
    /\ UNCHANGED <<log, sends, unknown, processed, posts>>

\* mark_execution_event_processed, after the lock was given back.
Acknowledge(r) ==
    /\ turn[r].pc = "acking"
    /\ turn' = [turn EXCEPT ![r].pc = "over"]
    /\ \/ Database /\ processed' = processed \cup {r}
       \/ DatabaseRaises(r) /\ UNCHANGED processed
       \/ Free > 0 /\ Fault /\ processed' = processed \cup {r}
    /\ UNCHANGED <<messageVars, lock, posts>>

-----------------------------------------------------------------------------
\* The process dies: nothing goes on with a turn that lived in its memory.
Alive(t) == turn[t].pc \notin {"none", "over"}
Crash ==
    /\ Fault
    /\ \E t \in Turns : Alive(t)
    /\ turn' = [t \in Turns |->
                  IF Alive(t) THEN [NewTurn EXCEPT !.pc = "over", !.end = "lost"]
                              ELSE turn[t]]
    /\ lock' = NoOne
    /\ UNCHANGED <<messageVars, processed, posts>>

\* The connection that holds the lock breaks while the turn works elsewhere.
LockConnectionDies(t) ==
    /\ lock = t
    /\ Fault
    /\ lock' = NoOne
    /\ UNCHANGED <<messageVars, turn, processed, posts>>

TurnStep(t) ==
    \/ Connect(t) \/ LoadContext(t)
    \/ FindPrompt(t) \/ TellProposal(t)
    \/ \E c \in Calls : ModelCalls(t, c)
    \/ ModelFinishes(t) \/ ModelFails(t) \/ UsageLimit(t)
    \/ Reserve(t) \/ TwilioAccepts(t) \/ TwilioRaises(t)
    \/ RecordSent(t) \/ RecordFailed(t)

ResultStep(r) == FindPhone(r) \/ Acknowledge(r)

Next ==
    \/ \E m \in Inbounds : Webhook(m)
    \/ \E r \in Results : ResultArrives(r) \/ ResultStep(r)
    \/ \E t \in Turns : TurnStep(t) \/ LockContact(t) \/ LockConnectionDies(t)
    \/ Crash

Spec == Init /\ [][Next]_vars

(***************************************************************************)
(* Every await of a turn ends: the model's and Twilio's requests have      *)
(* timeouts, a request to the pool has one (pool_timeout).  PostgreSQL     *)
(* serves those who wait for an advisory lock in turn.                     *)
(***************************************************************************)
Fairness ==
    /\ \A t \in Turns : WF_vars(TurnStep(t)) /\ SF_vars(LockContact(t))
    /\ \A r \in Results : WF_vars(ResultStep(r))

FairSpec == Spec /\ Fairness

-----------------------------------------------------------------------------
(***************************************************************************)
(* Properties.                                                             *)
(***************************************************************************)
\* Every variable stays in its range.
TypeOK ==
    /\ log \in Seq([turn : Turns, seq : 0 .. MaxVisible])
    /\ delivery \in [Turns -> [Numbers -> DeliveryStates]]
    /\ sends \in [Turns -> [Numbers -> Nat]]
    /\ unknown \subseteq Turns \X Numbers
    /\ turn \in [Turns ->
                   [pc : PCs, end : Ends, attempt : 0 .. 1, requests : Nat,
                    seen : Nat, call : CallIds \cup {NoCall},
                    sequence : [CallIds -> Nat],
                    reserved : SUBSET Numbers, outcomes : SUBSET Outcomes]]
    /\ lock \in Turns \cup {NoOne}
    /\ processed \subseteq Results
    /\ posts \in [Inbounds -> 0 .. MaxPosts]
    /\ pool \in PoolSizes
    /\ starved \subseteq Turns
    /\ faults \in 0 .. MaxFaults

\* Of the three steps reserve, send and record any may be the last: a row that
\* says sent was taken by Twilio exactly once, one that says failed was not
\* unless the answer was lost, and no row is ever sent twice, whatever broke.
OutboxTellsTheSend ==
    \A t \in Turns, n \in Numbers :
        /\ sends[t][n] <= 1
        /\ delivery[t][n] = "none" => sends[t][n] = 0
        /\ delivery[t][n] = "sent" => sends[t][n] = 1 /\ <<t, n>> \notin unknown
        /\ delivery[t][n] = "failed" => (sends[t][n] = 1 <=> <<t, n>> \in unknown)

\* As long as nothing broke, a turn speaks knowing everything the others have
\* said before it: what it loaded under the lock lacks no row of another turn.
\* (Messages of the person may come in while it speaks.)
SpeaksToTheLatest ==
    faults = 0 =>
        \A t \in Turns : Running(t) =>
            \A i \in turn[t].seen + 1 .. Len(log) : log[i].turn = t \/ log[i].seq = 0

\* As long as nothing broke and the pool had a connection, an inbound whose turn
\* is over was answered: a message was tried, or the model chose to say nothing,
\* unless newer messages had pushed it out of the history.
EveryInboundAnswered ==
    \A m \in Inbounds \ starved :
        Over(m) /\ faults = 0 =>
            \/ \E n \in Numbers : delivery[m][n] # "none"
            \/ turn[m].end \in {"model", "forgotten"}

\* The event of a result is only marked processed when Twilio took a message of
\* its turn, or when a row was found that this turn had reserved before.
AcknowledgedWasSent ==
    \A r \in processed :
        \/ \E n \in Numbers : sends[r][n] > 0
        \/ "deduplicated" \in turn[r].outcomes

\* Every message that was dispatched comes to an end although a turn holds one
\* connection while it waits for a second: the pool's timeout breaks the circle.
EveryTurnEnds == \A t \in Turns : turn[t].pc = "dispatched" ~> Over(t)

\* A turn runs once: whatever Twilio posts again, and after a crash too, a turn
\* that is over never speaks again.
TurnsRunOnce ==
    [][\A t \in Turns : Over(t) =>
          /\ Over(t)'
          /\ delivery'[t] = delivery[t]
          /\ sends'[t] = sends[t]]_vars
=============================================================================
