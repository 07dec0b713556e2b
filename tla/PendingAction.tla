--------------------------- MODULE PendingAction ---------------------------
(***************************************************************************)
(* Sensitive writes that wait for a confirmation: the pending_action rows  *)
(* of one contact (src/app/db/integrations.py), the Execution runs that    *)
(* stage them (agent/gmail_tools.py, agent/calendar_tools.py) and the      *)
(* confirm tools of Interaction that claim them and call the provider      *)
(* (services/email_confirmation.py, services/calendar_confirmation.py).    *)
(*                                                                         *)
(* A user turn runs under the contact's lock, so there is one at a time;   *)
(* the tool calls of a turn run concurrently with each other, and the      *)
(* Execution runs stage in the background whenever they come to it.        *)
(*                                                                         *)
(* A definition named X_Y in front of X is X with a plausible bug Y; no    *)
(* action uses it.                                                         *)
(***************************************************************************)
EXTENDS Integers, FiniteSets

CONSTANTS
    MaxActions,  \* bound on the rows
    MaxTurns,    \* bound on the user turns
    MaxSends,    \* bound on how often the provider performs one action
    MaxFaults,   \* bound on crashes and failing database calls
    Kinds,       \* send_email, create_event
    Runs,        \* Execution runs that may stage
    Confirms,    \* confirm tool calls that can be in flight in one turn
    NoKind, NoRun

ASSUME PendingBounds ==
    /\ MaxActions \in Nat /\ MaxTurns \in Nat
    /\ MaxSends \in Nat /\ MaxFaults \in Nat
ASSUME PendingNulls == NoKind \notin Kinds /\ NoRun \notin Runs

Actions == 1 .. MaxActions
NoTurn == 0

VARIABLES
    status,      \* pending_action.status, "none" before the row exists
    kind,        \* pending_action.kind
    source,      \* source_execution_run_id, also written to created_turn_id
    overdue,     \* expires_at has passed
    sent,        \* how often the provider performed the write
    unknown,     \* how often it did and the call still ended in an error
    staging,     \* the open transaction of create_pending_action of each run
    runTurn,     \* the user turn that dispatched the run
    turn,        \* the user turns so far
    turnOpen,    \* the last of them is still running
    shown,       \* the actions in the prompt of that turn
    confirm,     \* the confirm tool calls
    faults

rowVars == <<status, kind, source, overdue>>
providerVars == <<sent, unknown>>
runVars == <<staging, runTurn>>
turnVars == <<turn, turnOpen, shown>>
vars == <<rowVars, providerVars, runVars, turnVars, confirm, faults>>

-----------------------------------------------------------------------------
OpenStatuses == {"pending", "claimed"}
ClosedStatuses == {"executed", "cancelled", "failed"}
Steps == {"idle", "selected", "claimed", "calling", "releasing", "discarding"}
NextRow(a) == status[a] = "none" /\ \A b \in Actions : b < a => status[b] # "none"

\* list_pending_actions: what a confirmation may still take.
Listed(a) == status[a] = "pending" /\ ~ overdue[a]

NoStaging == [pc |-> "idle", kind |-> NoKind, seen |-> {}]
IdleConfirm == [pc |-> "idle", action |-> 0]

Init ==
    /\ status = [a \in Actions |-> "none"]
    /\ kind = [a \in Actions |-> NoKind]
    /\ source = [a \in Actions |-> NoRun]
    /\ overdue = [a \in Actions |-> FALSE]
    /\ sent = [a \in Actions |-> 0]
    /\ unknown = [a \in Actions |-> 0]
    /\ staging = [e \in Runs |-> NoStaging]
    /\ runTurn = [e \in Runs |-> NoTurn]
    /\ turn = NoTurn
    /\ turnOpen = FALSE
    /\ shown = {}
    /\ confirm = [c \in Confirms |-> IdleConfirm]
    /\ faults = 0

-----------------------------------------------------------------------------
(***************************************************************************)
(* User turns.                                                             *)
(***************************************************************************)

\* _load_event_context, under the contact's lock: the summary in the prompt
\* lists pending and claimed rows, and pending_action_kinds is read off it.
StartTurn ==
    /\ ~ turnOpen
    /\ turn < MaxTurns
    /\ turn' = turn + 1
    /\ turnOpen' = TRUE
    /\ shown' = {a \in Actions : status[a] \in OpenStatuses}
    /\ UNCHANGED <<rowVars, providerVars, runVars, confirm, faults>>

EndTurn ==
    /\ turnOpen
    /\ \A c \in Confirms : confirm[c].pc = "idle"
    /\ turnOpen' = FALSE
    /\ shown' = {}
    /\ UNCHANGED <<turn, rowVars, providerVars, runVars, confirm, faults>>

DispatchRun(e) ==
    /\ turnOpen
    /\ runTurn[e] = NoTurn
    /\ runTurn' = [runTurn EXCEPT ![e] = turn]
    /\ UNCHANGED <<staging, rowVars, providerVars, turnVars, confirm, faults>>

-----------------------------------------------------------------------------
(***************************************************************************)
(* create_pending_action in the transaction of stage_send_email or         *)
(* stage_create_event.  Its UPDATE cancels the rows it can see, its INSERT *)
(* appears with the commit; a row inserted in between is not seen.  The    *)
(* rows the UPDATE has locked can be written by nobody until the commit,   *)
(* so writing them at the commit, unless they were closed by then, has the *)
(* same outcomes.                                                          *)
(***************************************************************************)
Superseded(k) == {a \in Actions : status[a] \in OpenStatuses /\ kind[a] = k}

StageAction(e, k) ==
    /\ runTurn[e] # NoTurn
    /\ staging[e].pc = "idle"
    /\ staging' =
         [staging EXCEPT ![e] = [pc |-> "staging", kind |-> k, seen |-> Superseded(k)]]
    /\ UNCHANGED <<runTurn, rowVars, providerVars, turnVars, confirm, faults>>

CommitStaged(e, a) ==
    /\ staging[e].pc = "staging"
    /\ NextRow(a)
    /\ status' = [b \in Actions |->
         IF b = a THEN "pending"
         ELSE IF b \in staging[e].seen /\ status[b] \in OpenStatuses THEN "cancelled"
         ELSE status[b]]
    /\ kind' = [kind EXCEPT ![a] = staging[e].kind]
    /\ source' = [source EXCEPT ![a] = e]
    /\ staging' = [staging EXCEPT ![e] = NoStaging]
    /\ UNCHANGED <<overdue, runTurn, providerVars, turnVars, confirm, faults>>

-----------------------------------------------------------------------------
(***************************************************************************)
(* confirm_staged_email and confirm_staged_event.                          *)
(***************************************************************************)
\* _select_email_action, _select_event_action: the model passes the id it was
\* shown, or no id when one listed row has the kind.  The tool is offered only
\* for a kind in the prompt.
Only(a) == \A b \in Actions : Listed(b) /\ kind[b] = kind[a] => b = a
SelectAction(c, a) ==
    /\ turnOpen
    /\ confirm[c].pc = "idle"
    /\ Listed(a)
    /\ \E b \in shown : kind[b] = kind[a]
    /\ a \in shown \/ Only(a)
    /\ confirm' = [confirm EXCEPT ![c] = [pc |-> "selected", action |-> a]]
    /\ UNCHANGED <<rowVars, providerVars, runVars, turnVars, faults>>

\* The WHERE clause of claim_pending_action.  created_turn_id is the id of the
\* staging run, turn_id the provider's id of the inbound message.
CreatedTurnId(a) == <<"execution_run", source[a]>>
InboundTurnId == <<"inbound_message", turn>>
Claimable_IgnoresStatus(a) == ~ overdue[a] /\ CreatedTurnId(a) # InboundTurnId
Claimable(a) == Listed(a) /\ CreatedTurnId(a) # InboundTurnId

ClaimPendingAction(c) ==
    /\ confirm[c].pc = "selected"
    /\ LET a == confirm[c].action
       IN  IF Claimable(a)
           THEN /\ status' = [status EXCEPT ![a] = "claimed"]
                /\ confirm' = [confirm EXCEPT ![c].pc = "claimed"]
           ELSE /\ confirm' = [confirm EXCEPT ![c] = IdleConfirm]
                /\ UNCHANGED status
    /\ UNCHANGED <<kind, source, overdue, providerVars, runVars, turnVars, faults>>

\* The WHERE clause of discard_, release_ and fail_pending_action.
StillClaimed(a) == status[a] = "claimed"

\* Write s to the claimed row of c and return.
Settle(c, s) ==
    /\ status' = IF StillClaimed(confirm[c].action)
                 THEN [status EXCEPT ![confirm[c].action] = s] ELSE status
    /\ confirm' = [confirm EXCEPT ![c] = IdleConfirm]
    /\ UNCHANGED <<kind, source, overdue, providerVars, runVars, turnVars, faults>>

\* The retained payload does not make a valid request any more.
FailInvalid(c) ==
    /\ confirm[c].pc = "claimed"
    /\ Settle(c, "failed")

LookUpIntegration_Forgets(c, connected) ==
    /\ confirm[c].pc = "claimed"
    /\ confirm' = [confirm EXCEPT ![c] =
         IF connected THEN [@ EXCEPT !.pc = "calling"] ELSE IdleConfirm]
    /\ UNCHANGED <<rowVars, providerVars, runVars, turnVars, faults>>

LookUpIntegration(c, connected) ==
    /\ confirm[c].pc = "claimed"
    /\ confirm' = [confirm EXCEPT ![c].pc =
         IF connected THEN "calling" ELSE "releasing"]
    /\ UNCHANGED <<rowVars, providerVars, runVars, turnVars, faults>>

CallProvider_DiscardsOnError(c, performed, answered) ==
    /\ confirm[c].pc = "calling"
    /\ answered => performed
    /\ LET a == confirm[c].action
       IN  /\ performed => sent[a] < MaxSends
           /\ sent' = IF performed THEN [sent EXCEPT ![a] = @ + 1] ELSE sent
           /\ unknown' = IF performed /\ ~ answered
                         THEN [unknown EXCEPT ![a] = @ + 1] ELSE unknown
    /\ confirm' = [confirm EXCEPT ![c].pc = "discarding"]
    /\ UNCHANGED <<rowVars, runVars, turnVars, faults>>

\* AuthenticatedProxyAdapter.execute: the provider performs the write or not,
\* and a lost answer, a timeout or an error status all raise the same error.
CallProvider(c, performed, answered) ==
    /\ confirm[c].pc = "calling"
    /\ answered => performed
    /\ LET a == confirm[c].action
       IN  /\ performed => sent[a] < MaxSends
           /\ sent' = IF performed THEN [sent EXCEPT ![a] = @ + 1] ELSE sent
           /\ unknown' = IF performed /\ ~ answered
                         THEN [unknown EXCEPT ![a] = @ + 1] ELSE unknown
    /\ confirm' = [confirm EXCEPT ![c].pc =
         IF answered THEN "discarding" ELSE "releasing"]
    /\ UNCHANGED <<rowVars, runVars, turnVars, faults>>

ReleasePendingAction(c) ==
    /\ confirm[c].pc = "releasing"
    /\ Settle(c, "pending")

DiscardPendingAction(c) ==
    /\ confirm[c].pc = "discarding"
    /\ Settle(c, "executed")

-----------------------------------------------------------------------------
\* expires_at passes.  Nothing in the program writes "expired":
\* expire_pending_actions has no caller.
TtlPasses(a) ==
    /\ status[a] \in OpenStatuses
    /\ ~ overdue[a]
    /\ overdue' = [overdue EXCEPT ![a] = TRUE]
    /\ UNCHANGED <<status, kind, source, providerVars, runVars, turnVars, confirm, faults>>

Fault == faults < MaxFaults /\ faults' = faults + 1

\* The API process dies: the open transactions roll back, the turn, its tool
\* calls and the runs are gone.
ApiCrash ==
    /\ Fault
    /\ turnOpen' = FALSE
    /\ shown' = {}
    /\ confirm' = [c \in Confirms |-> IdleConfirm]
    /\ staging' = [e \in Runs |-> NoStaging]
    /\ UNCHANGED <<turn, runTurn, rowVars, providerVars>>

\* A database call of a confirm tool raises out of the tool.
ConfirmDbFault(c) ==
    /\ Fault
    /\ confirm[c].pc \notin {"idle", "calling"}
    /\ confirm' = [confirm EXCEPT ![c] = IdleConfirm]
    /\ UNCHANGED <<rowVars, providerVars, runVars, turnVars>>

-----------------------------------------------------------------------------
ConfirmStep(c) ==
    \/ ClaimPendingAction(c)
    \/ FailInvalid(c)
    \/ \E connected \in BOOLEAN : LookUpIntegration(c, connected)
    \/ \E performed, answered \in BOOLEAN : CallProvider(c, performed, answered)
    \/ ReleasePendingAction(c)
    \/ DiscardPendingAction(c)

Next ==
    \/ StartTurn
    \/ EndTurn
    \/ \E e \in Runs : DispatchRun(e)
    \/ \E e \in Runs, k \in Kinds : StageAction(e, k)
    \/ \E e \in Runs, a \in Actions : CommitStaged(e, a)
    \/ \E c \in Confirms, a \in Actions : SelectAction(c, a)
    \/ \E c \in Confirms : ConfirmStep(c)
    \/ \E a \in Actions : TtlPasses(a)
    \/ ApiCrash
    \/ \E c \in Confirms : ConfirmDbFault(c)

Spec == Init /\ [][Next]_vars

\* A tool call that was started runs on: the database answers, and the proxy
\* client gives up on a provider that does not.
Fairness == \A c \in Confirms : WF_vars(ConfirmStep(c))
FairSpec == Spec /\ Fairness

-----------------------------------------------------------------------------
(***************************************************************************)
(* Properties.                                                             *)
(***************************************************************************)

\* Every variable holds what its column, task or tool call can hold, and rows
\* are never deleted.
TypeOK ==
    /\ status \in [Actions -> OpenStatuses \cup ClosedStatuses \cup {"none"}]
    /\ \A a, b \in Actions : a < b /\ status[b] # "none" => status[a] # "none"
    /\ kind \in [Actions -> Kinds \cup {NoKind}]
    /\ source \in [Actions -> Runs \cup {NoRun}]
    /\ overdue \in [Actions -> BOOLEAN]
    /\ sent \in [Actions -> Nat]
    /\ unknown \in [Actions -> Nat]
    /\ staging \in [Runs -> [pc : {"idle", "staging"}, kind : Kinds \cup {NoKind},
                             seen : SUBSET Actions]]
    /\ runTurn \in [Runs -> Nat]
    /\ turn \in Nat
    /\ turnOpen \in BOOLEAN
    /\ shown \in SUBSET Actions
    /\ confirm \in [Confirms -> [pc : Steps, action : Actions \cup {0}]]
    /\ \A c \in Confirms : confirm[c].pc # "idle" => confirm[c].action \in Actions
    /\ faults \in Nat

\* However many confirmations of it run at once, are retried after a failure or
\* follow each other, a staged write is performed a second time only after a
\* call whose outcome was unknown (claim_pending_action).
SentOncePerConfirmation == \A a \in Actions : sent[a] <= 1 + unknown[a]

\* The audit trail can be believed: an action recorded as executed was
\* performed, and one that can still be confirmed, or that failed, was not,
\* unless a call of it ended in an unknown outcome.
AuditTellsTheSend ==
    \A a \in Actions :
        /\ status[a] = "executed" => sent[a] > 0
        /\ status[a] \in {"pending", "failed"} /\ unknown[a] = 0 => sent[a] = 0

\* A proposal that was executed, superseded or failed never becomes confirmable
\* again: not by the release of a call that was in flight when it was closed.
KeepsClosed ==
    \A a \in Actions :
        status[a] \in ClosedStatuses => UNCHANGED <<status[a], kind[a], source[a]>>
ClosedIsFinal == [][KeepsClosed]_vars

\* Without a crash or a failing call a claimed action is released, executed,
\* failed or superseded in the end.
ClaimsConclude ==
    \A a \in Actions : status[a] = "claimed" ~> status[a] # "claimed" \/ faults > 0

\* A write is never performed in the user turn that asked for it.  (README:
\* "never execute in the same turn that requests them".)
WaitsForALaterTurn ==
    [][\A a \in Actions : sent'[a] > sent[a] => turn # runTurn[source[a]]]_vars

=============================================================================
