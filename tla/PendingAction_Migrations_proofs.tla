------------------- MODULE PendingAction_Migrations_proofs ------------------
(***************************************************************************)
(* Theorems about a proposal's row, while it is confirmed and while its    *)
(* table is rebuilt.  Those about PendingAction hold for every number of   *)
(* proposals, turns, runs, concurrent confirmations and faults; those      *)
(* about Migrations, which come second, for every set of jobs and of       *)
(* deployed revisions and any number of migrations and writes.  The facts  *)
(* of RevisionFacts about the fixed lists of revisions are assumptions     *)
(* here; TLC computes them.                                                *)
(***************************************************************************)
EXTENDS PendingAction, Migrations, RevisionFacts, TLAPS

-----------------------------------------------------------------------------
(***************************************************************************)
(* PendingAction.                                                          *)
(***************************************************************************)
LEMMA TypeInit == Init => TypeOK
<1> SUFFICES ASSUME Init PROVE TypeOK
  OBVIOUS
<1>1. /\ status \in [Actions -> OpenStatuses \cup ClosedStatuses \cup {"none"}]
      /\ \A a \in Actions : status[a] = "none"
      /\ kind \in [Actions -> Kinds \cup {NoKind}]
      /\ source \in [Actions -> Runs \cup {NoRun}]
      /\ overdue \in [Actions -> BOOLEAN]
  BY DEF Init
<1>2. sent \in [Actions -> Nat] /\ unknown \in [Actions -> Nat]
  BY DEF Init
<1>3. /\ staging \in [Runs -> [pc : {"idle", "staging"}, kind : Kinds \cup {NoKind},
                              seen : SUBSET Actions]]
      /\ runTurn \in [Runs -> Nat]
  BY DEF Init, NoStaging, NoTurn
<1>4. turn \in Nat /\ turnOpen \in BOOLEAN /\ shown \in SUBSET Actions /\ faults \in Nat
  BY DEF Init, NoTurn
<1>5. /\ confirm \in [Confirms -> [pc : Steps, action : Actions \cup {0}]]
      /\ \A c \in Confirms : confirm[c].pc # "idle" => confirm[c].action \in Actions
  BY DEF Init, IdleConfirm, Steps
<1> QED
  BY <1>1, <1>2, <1>3, <1>4, <1>5 DEF TypeOK

LEMMA TypeStep == TypeOK /\ [Next]_vars => TypeOK'
<1> SUFFICES ASSUME TypeOK, [Next]_vars PROVE TypeOK'
  OBVIOUS
<1> USE DEF rowVars, providerVars, runVars, turnVars
<1>1. CASE StartTurn
  BY <1>1 DEF StartTurn, TypeOK
<1>2. CASE EndTurn
  BY <1>2 DEF EndTurn, TypeOK
<1>3. ASSUME NEW e \in Runs, DispatchRun(e) PROVE TypeOK'
  BY <1>3 DEF DispatchRun, TypeOK
<1>4. ASSUME NEW e \in Runs, NEW k \in Kinds, StageAction(e, k) PROVE TypeOK'
  BY <1>4 DEF StageAction, TypeOK, Superseded
<1>5. ASSUME NEW e \in Runs, NEW a \in Actions, CommitStaged(e, a) PROVE TypeOK'
  <2>1. status' \in [Actions -> OpenStatuses \cup ClosedStatuses \cup {"none"}]
    BY <1>5 DEF CommitStaged, TypeOK, OpenStatuses, ClosedStatuses
  <2>2. \A b \in Actions : status'[b] = "none" <=> status[b] = "none" /\ b # a
    BY <1>5 DEF CommitStaged, TypeOK, OpenStatuses
  <2>3. \A b, d \in Actions : b < d /\ status'[d] # "none" => status'[b] # "none"
    <3> SUFFICES ASSUME NEW b \in Actions, NEW d \in Actions, b < d, status'[d] # "none"
                 PROVE  status'[b] # "none"
      OBVIOUS
    <3>1. CASE d = a
      BY <1>5, <2>2, <3>1 DEF CommitStaged, NextRow
    <3>2. CASE d # a
      BY <2>2, <3>2 DEF TypeOK
    <3> QED
      BY <3>1, <3>2
  <2>4. kind' \in [Actions -> Kinds \cup {NoKind}] /\ source' \in [Actions -> Runs \cup {NoRun}]
    BY <1>5 DEF CommitStaged, TypeOK
  <2>5. staging' \in [Runs -> [pc : {"idle", "staging"}, kind : Kinds \cup {NoKind},
                               seen : SUBSET Actions]]
    BY <1>5 DEF CommitStaged, TypeOK, NoStaging
  <2> QED
    BY <1>5, <2>1, <2>3, <2>4, <2>5 DEF CommitStaged, TypeOK
<1>6. ASSUME NEW c \in Confirms, NEW a \in Actions, SelectAction(c, a) PROVE TypeOK'
  BY <1>6 DEF SelectAction, TypeOK, Steps
<1>7. ASSUME NEW c \in Confirms, ClaimPendingAction(c) PROVE TypeOK'
  <2>1. confirm[c].action \in Actions
    BY <1>7 DEF ClaimPendingAction, TypeOK
  <2> QED
    <3>1. /\ status' \in [Actions -> OpenStatuses \cup ClosedStatuses \cup {"none"}]
          /\ \A b \in Actions : status'[b] = "none" <=> status[b] = "none"
      BY <1>7, <2>1 DEF ClaimPendingAction, TypeOK, OpenStatuses, Claimable, Listed
    <3>2. /\ confirm' \in [Confirms -> [pc : Steps, action : Actions \cup {0}]]
          /\ \A d \in Confirms : confirm'[d].pc # "idle" => confirm'[d].action \in Actions
      <4>1. \/ confirm' = [confirm EXCEPT ![c].pc = "claimed"]
            \/ confirm' = [confirm EXCEPT ![c] = IdleConfirm]
        BY <1>7 DEF ClaimPendingAction
      <4>2. /\ confirm \in [Confirms -> [pc : Steps, action : Actions \cup {0}]]
            /\ \A d \in Confirms : confirm[d].pc # "idle" => confirm[d].action \in Actions
        BY DEF TypeOK
      <4>3. CASE confirm' = [confirm EXCEPT ![c].pc = "claimed"]
        BY <2>1, <4>2, <4>3 DEF Steps
      <4>4. CASE confirm' = [confirm EXCEPT ![c] = IdleConfirm]
        BY <4>2, <4>4 DEF IdleConfirm, Steps
      <4> QED
        BY <4>1, <4>3, <4>4
    <3>3. \A a, b \in Actions : a < b /\ status'[b] # "none" => status'[a] # "none"
      BY <3>1 DEF TypeOK
    <3>4. UNCHANGED <<kind, source, overdue, sent, unknown, staging, runTurn, turn, turnOpen,
                      shown, faults>>
      BY <1>7 DEF ClaimPendingAction
    <3> QED
      BY <3>1, <3>2, <3>3, <3>4 DEF TypeOK
<1>8. ASSUME NEW c \in Confirms, NEW s \in {"failed", "pending", "executed"}, Settle(c, s)
      PROVE  TypeOK'
  BY <1>8 DEF Settle, StillClaimed, TypeOK, IdleConfirm, Steps, OpenStatuses, ClosedStatuses
<1>9. ASSUME NEW c \in Confirms, NEW i \in BOOLEAN, LookUpIntegration(c, i) PROVE TypeOK'
  BY <1>9 DEF LookUpIntegration, TypeOK, Steps
<1>10. ASSUME NEW c \in Confirms, NEW p \in BOOLEAN, NEW n \in BOOLEAN, CallProvider(c, p, n)
       PROVE  TypeOK'
  <2>1. confirm[c].action \in Actions
    BY <1>10 DEF CallProvider, TypeOK
  <2>2. sent' \in [Actions -> Nat] /\ unknown' \in [Actions -> Nat]
    BY <1>10, <2>1 DEF CallProvider, TypeOK
  <2> QED
    BY <1>10, <2>2 DEF CallProvider, TypeOK, Steps
<1>11. ASSUME NEW a \in Actions, TtlPasses(a) PROVE TypeOK'
  BY <1>11 DEF TtlPasses, TypeOK
<1>12. CASE ApiCrash
  <2>1. faults' \in Nat
    BY <1>12 DEF ApiCrash, Fault, TypeOK
  <2>2. staging' \in [Runs -> [pc : {"idle", "staging"}, kind : Kinds \cup {NoKind},
                               seen : SUBSET Actions]]
    BY <1>12 DEF ApiCrash, NoStaging
  <2>3. /\ confirm' \in [Confirms -> [pc : Steps, action : Actions \cup {0}]]
        /\ \A c \in Confirms : confirm'[c].pc = "idle"
    BY <1>12 DEF ApiCrash, IdleConfirm, Steps
  <2> QED
    BY <1>12, <2>1, <2>2, <2>3 DEF ApiCrash, TypeOK
<1>13. ASSUME NEW c \in Confirms, ConfirmDbFault(c) PROVE TypeOK'
  BY <1>13 DEF ConfirmDbFault, Fault, TypeOK, IdleConfirm, Steps
<1>14. CASE UNCHANGED vars
  BY <1>14 DEF vars, TypeOK
<1> QED
  BY <1>1, <1>2, <1>3, <1>4, <1>5, <1>6, <1>7, <1>8, <1>9, <1>10, <1>11, <1>12, <1>13, <1>14
     DEF Next, ConfirmStep, FailInvalid, ReleasePendingAction, DiscardPendingAction

\* Rows, tool calls and counters keep their types, and no row disappears.
THEOREM TypeCorrect == Spec => []TypeOK
  BY TypeInit, TypeStep, PTL DEF Spec

-----------------------------------------------------------------------------
(***************************************************************************)
(* Sending once.  The invariant says who may still perform an action and   *)
(* what has been performed by then.                                        *)
(***************************************************************************)
Holding(c) == confirm[c].pc \in {"claimed", "calling", "releasing", "discarding"}
Unsent(a) == sent[a] <= unknown[a]

\* What can be claimed has not been performed, but for unknown outcomes.
ClaimableUnsent == \A a \in Actions : status[a] \in {"none", "pending"} => Unsent(a)
\* The same of an action whose call has not been answered.
HeldUnsent ==
    \A c \in Confirms :
        confirm[c].pc \in {"claimed", "calling", "releasing"} => Unsent(confirm[c].action)
\* A held action stays claimed unless a new proposal supersedes it.
HeldIsTaken ==
    \A c \in Confirms :
        Holding(c) => status[confirm[c].action] \in {"claimed", "cancelled"}
\* Nobody else holds it.
HeldByOne ==
    \A c, d \in Confirms :
        Holding(c) /\ Holding(d) /\ confirm[c].action = confirm[d].action => c = d

SendInv ==
    /\ ClaimableUnsent
    /\ HeldUnsent
    /\ HeldIsTaken
    /\ HeldByOne
    /\ SentOncePerConfirmation

LEMMA SendInit == Init => SendInv
  BY DEF Init, SendInv, ClaimableUnsent, HeldUnsent, HeldIsTaken, HeldByOne, Holding,
     Unsent, SentOncePerConfirmation, IdleConfirm

\* A step that leaves the rows' status and the provider alone and starts or
\* drops tool calls keeps the invariant.
LEMMA SendKept ==
    ASSUME SendInv, UNCHANGED <<status, sent, unknown>>,
           \A c \in Confirms :
              confirm'[c] = confirm[c] \/ confirm'[c].pc \in {"idle", "selected"}
    PROVE  SendInv'
<1> USE DEF SendInv, Holding, Unsent
<1>1. ClaimableUnsent'
  BY DEF ClaimableUnsent
<1>2. HeldUnsent'
  BY DEF HeldUnsent
<1>3. HeldIsTaken'
  BY DEF HeldIsTaken
<1>4. HeldByOne'
  BY DEF HeldByOne
<1>5. SentOncePerConfirmation'
  BY DEF SentOncePerConfirmation
<1> QED
  BY <1>1, <1>2, <1>3, <1>4, <1>5

\* The end of a tool call, whatever it writes to its row.
LEMMA SendSettled ==
    ASSUME TypeOK, SendInv, NEW c \in Confirms, Holding(c),
           NEW s \in {"failed", "pending", "executed"}, Settle(c, s),
           s = "pending" => confirm[c].pc = "releasing"
    PROVE  SendInv'
<1> DEFINE a == confirm[c].action
<1> USE DEF SendInv, Holding, Unsent, providerVars
<1>1. a \in Actions /\ status \in [Actions -> OpenStatuses \cup ClosedStatuses \cup {"none"}]
  BY DEF TypeOK
<1>2. confirm' = [confirm EXCEPT ![c] = IdleConfirm] /\ UNCHANGED <<sent, unknown>>
  BY DEF Settle
<1>3. \A b \in Actions : status'[b] = status[b] \/ (b = a /\ status'[b] = s)
  BY <1>1 DEF Settle, StillClaimed
<1>4. \A d \in Confirms :
        (d = c /\ confirm'[d] = IdleConfirm) \/ (d # c /\ confirm'[d] = confirm[d])
  BY <1>2 DEF TypeOK
<1>5. \A d \in Confirms : d # c /\ Holding(d) => confirm[d].action # a
  BY DEF HeldByOne
<1>6. s = "pending" => Unsent(a)
  BY DEF HeldUnsent
<1>7. ClaimableUnsent'
  BY <1>2, <1>3, <1>6 DEF ClaimableUnsent
<1>8. HeldUnsent'
  BY <1>2, <1>4 DEF HeldUnsent, IdleConfirm
<1>9. HeldIsTaken'
  <2> SUFFICES ASSUME NEW d \in Confirms, Holding(d)'
               PROVE  status'[confirm'[d].action] \in {"claimed", "cancelled"}
    BY DEF HeldIsTaken
  <2>1. d # c /\ confirm'[d] = confirm[d] /\ Holding(d)
    BY <1>4 DEF IdleConfirm
  <2>2. confirm[d].action \in Actions /\ confirm[d].action # a
    BY <1>5, <2>1 DEF TypeOK
  <2> QED
    BY <1>3, <2>1, <2>2 DEF HeldIsTaken
<1>10. HeldByOne'
  BY <1>4 DEF HeldByOne, IdleConfirm
<1>11. SentOncePerConfirmation'
  BY <1>2 DEF SentOncePerConfirmation
<1> QED
  BY <1>7, <1>8, <1>9, <1>10, <1>11

LEMMA SendStep == TypeOK /\ SendInv /\ [Next]_vars => SendInv'
<1> SUFFICES ASSUME TypeOK, SendInv, [Next]_vars PROVE SendInv'
  OBVIOUS
<1> USE DEF rowVars, providerVars, runVars, turnVars
<1>1. CASE StartTurn
  BY <1>1, SendKept DEF StartTurn
<1>2. CASE EndTurn
  BY <1>2, SendKept DEF EndTurn
<1>3. ASSUME NEW e \in Runs, DispatchRun(e) PROVE SendInv'
  BY <1>3, SendKept DEF DispatchRun
<1>4. ASSUME NEW e \in Runs, NEW k \in Kinds, StageAction(e, k) PROVE SendInv'
  BY <1>4, SendKept DEF StageAction
<1>5. ASSUME NEW e \in Runs, NEW a \in Actions, CommitStaged(e, a) PROVE SendInv'
  <2> USE DEF SendInv, Holding, Unsent
  <2>1. UNCHANGED <<sent, unknown, confirm>> /\ status[a] = "none"
    BY <1>5 DEF CommitStaged, NextRow
  <2>2. \A b \in Actions :
        \/ b = a /\ status'[b] = "pending"
        \/ status'[b] = "cancelled"
        \/ b # a /\ status'[b] = status[b]
    <3>1. \A b \in Actions : status'[b] =
            IF b = a THEN "pending"
            ELSE IF b \in staging[e].seen /\ status[b] \in OpenStatuses THEN "cancelled"
            ELSE status[b]
      BY <1>5 DEF CommitStaged
    <3>2. ASSUME NEW b \in Actions
          PROVE  \/ b = a /\ status'[b] = "pending"
                 \/ status'[b] = "cancelled"
                 \/ b # a /\ status'[b] = status[b]
      <4>1. CASE b = a
        BY <3>1, <4>1
      <4>2. CASE b # a /\ b \in staging[e].seen /\ status[b] \in OpenStatuses
        BY <3>1, <4>2
      <4>3. CASE b # a /\ ~ (b \in staging[e].seen /\ status[b] \in OpenStatuses)
        BY <3>1, <4>3
      <4> QED
        BY <4>1, <4>2, <4>3
    <3> QED
      BY <3>2
  <2>3. ClaimableUnsent'
    BY <2>1, <2>2 DEF ClaimableUnsent
  <2>4. HeldUnsent'
    BY <2>1 DEF HeldUnsent
  <2>5. HeldIsTaken'
    <3> SUFFICES ASSUME NEW c \in Confirms, Holding(c)
                 PROVE  status'[confirm[c].action] \in {"claimed", "cancelled"}
      BY <2>1 DEF HeldIsTaken
    <3>1. confirm[c].action \in Actions /\ confirm[c].action # a
      BY <2>1 DEF TypeOK, HeldIsTaken
    <3> QED
      BY <2>2, <3>1 DEF HeldIsTaken
  <2>6. HeldByOne'
    BY <2>1 DEF HeldByOne
  <2>7. SentOncePerConfirmation'
    BY <2>1 DEF SentOncePerConfirmation
  <2> QED
    BY <2>3, <2>4, <2>5, <2>6, <2>7
<1>6. ASSUME NEW c \in Confirms, NEW a \in Actions, SelectAction(c, a) PROVE SendInv'
  BY <1>6, SendKept DEF SelectAction, TypeOK
<1>7. ASSUME NEW c \in Confirms, ClaimPendingAction(c) PROVE SendInv'
  <2> DEFINE a == confirm[c].action
  <2> USE DEF SendInv, Holding, Unsent
  <2>1. CASE ~ Claimable(a)
    <3>1. UNCHANGED <<status, sent, unknown>> /\ confirm' = [confirm EXCEPT ![c] = IdleConfirm]
      BY <1>7, <2>1 DEF ClaimPendingAction
    <3> QED
      BY <3>1, SendKept DEF TypeOK, IdleConfirm
  <2>2. CASE Claimable(a)
    <3>1. /\ UNCHANGED <<sent, unknown>>
          /\ status' = [status EXCEPT ![a] = "claimed"]
          /\ confirm' = [confirm EXCEPT ![c].pc = "claimed"]
          /\ status[a] = "pending"
      BY <1>7, <2>2 DEF ClaimPendingAction, Claimable, Listed
    <3>2. a \in Actions
      BY <1>7 DEF ClaimPendingAction, TypeOK
    <3>3. \A b \in Actions : (b = a /\ status'[b] = "claimed") \/ (b # a /\ status'[b] = status[b])
      BY <3>1, <3>2 DEF TypeOK
    <3>4. \A d \in Confirms :
        \/ d = c /\ confirm'[d].pc = "claimed" /\ confirm'[d].action = a
        \/ d # c /\ confirm'[d] = confirm[d]
      <4>1. confirm \in [Confirms -> [pc : Steps, action : Actions \cup {0}]]
        BY DEF TypeOK
      <4>2. confirm'[c].pc = "claimed" /\ confirm'[c].action = confirm[c].action
        BY <3>1, <4>1
      <4>3. \A d \in Confirms : d # c => confirm'[d] = confirm[d]
        BY <3>1, <4>1
      <4> QED
        BY <4>2, <4>3
    <3>5. Unsent(a)
      BY <3>1, <3>2 DEF ClaimableUnsent
    <3>6. \A d \in Confirms : Holding(d) => confirm[d].action # a
      BY <3>1 DEF HeldIsTaken
    <3>7. ClaimableUnsent'
      BY <3>1, <3>3 DEF ClaimableUnsent
    <3>8. HeldUnsent'
      BY <3>1, <3>4, <3>5 DEF HeldUnsent
    <3>9. HeldIsTaken'
      <4> SUFFICES ASSUME NEW d \in Confirms, Holding(d)'
                   PROVE  status'[confirm'[d].action] \in {"claimed", "cancelled"}
        BY DEF HeldIsTaken
      <4>1. CASE d = c
        BY <3>2, <3>3, <3>4, <4>1
      <4>2. CASE d # c
        <5>1. confirm'[d] = confirm[d] /\ confirm[d].action \in Actions
          BY <3>4, <4>2 DEF TypeOK
        <5> QED
          BY <3>3, <5>1 DEF HeldIsTaken
      <4> QED
        BY <4>1, <4>2
    <3>10. HeldByOne'
      BY <3>4, <3>6 DEF HeldByOne
    <3>11. SentOncePerConfirmation'
      BY <3>1 DEF SentOncePerConfirmation
    <3> QED
      BY <3>7, <3>8, <3>9, <3>10, <3>11
  <2> QED
    BY <2>1, <2>2
<1>8. ASSUME NEW c \in Confirms, FailInvalid(c) PROVE SendInv'
  BY <1>8, SendSettled DEF FailInvalid, Holding
<1>9. ASSUME NEW c \in Confirms, ReleasePendingAction(c) PROVE SendInv'
  BY <1>9, SendSettled DEF ReleasePendingAction, Holding
<1>10. ASSUME NEW c \in Confirms, DiscardPendingAction(c) PROVE SendInv'
  BY <1>10, SendSettled DEF DiscardPendingAction, Holding
<1>11. ASSUME NEW c \in Confirms, NEW i \in BOOLEAN, LookUpIntegration(c, i) PROVE SendInv'
  <2> USE DEF SendInv, Holding, Unsent
  <2>1. UNCHANGED <<status, sent, unknown>> /\ confirm[c].pc = "claimed"
    BY <1>11 DEF LookUpIntegration
  <2>2. \A d \in Confirms :
        /\ confirm'[d].action = confirm[d].action
        /\ \/ d = c /\ confirm'[d].pc \in {"calling", "releasing"}
           \/ d # c /\ confirm'[d].pc = confirm[d].pc
    BY <1>11 DEF LookUpIntegration, TypeOK
  <2>3. ClaimableUnsent'
    BY <2>1 DEF ClaimableUnsent
  <2>4. HeldUnsent'
    BY <2>1, <2>2 DEF HeldUnsent
  <2>5. HeldIsTaken'
    BY <2>1, <2>2 DEF HeldIsTaken
  <2>6. HeldByOne'
    BY <2>1, <2>2 DEF HeldByOne
  <2>7. SentOncePerConfirmation'
    BY <2>1 DEF SentOncePerConfirmation
  <2> QED
    BY <2>3, <2>4, <2>5, <2>6, <2>7
<1>12. ASSUME NEW c \in Confirms, NEW p \in BOOLEAN, NEW n \in BOOLEAN, CallProvider(c, p, n)
       PROVE  SendInv'
  <2> DEFINE a == confirm[c].action
  <2> USE DEF SendInv, Holding, Unsent
  <2>1. UNCHANGED status /\ confirm[c].pc = "calling" /\ a \in Actions
    BY <1>12 DEF CallProvider, TypeOK
  <2>2. \A d \in Confirms :
        /\ confirm'[d].action = confirm[d].action
        /\ \/ d = c /\ n /\ confirm'[d].pc = "discarding"
           \/ d = c /\ ~ n /\ confirm'[d].pc = "releasing"
           \/ d # c /\ confirm'[d].pc = confirm[d].pc
    BY <1>12 DEF CallProvider, TypeOK
  <2>3. /\ sent \in [Actions -> Nat] /\ unknown \in [Actions -> Nat]
        /\ \A b \in Actions : b # a => sent'[b] = sent[b] /\ unknown'[b] = unknown[b]
        /\ \/ n /\ sent'[a] = sent[a] + 1 /\ unknown'[a] = unknown[a]
           \/ ~ n /\ sent'[a] = sent[a] + 1 /\ unknown'[a] = unknown[a] + 1
           \/ ~ n /\ sent'[a] = sent[a] /\ unknown'[a] = unknown[a]
    BY <1>12, <2>1 DEF CallProvider, TypeOK
  <2>4. Unsent(a) /\ status[a] \in {"claimed", "cancelled"}
    BY <2>1 DEF HeldUnsent, HeldIsTaken
  <2>5. \A d \in Confirms : d # c /\ Holding(d) => confirm[d].action # a
    BY <2>1 DEF HeldByOne
  <2>6. ClaimableUnsent'
    BY <2>1, <2>3, <2>4 DEF ClaimableUnsent
  <2>7. HeldUnsent'
    <3> SUFFICES ASSUME NEW d \in Confirms, confirm'[d].pc \in {"claimed", "calling", "releasing"}
                 PROVE  sent'[confirm[d].action] <= unknown'[confirm[d].action]
      BY <2>2 DEF HeldUnsent
    <3>1. CASE d = c
      <4>1. ~ n
        BY <2>2, <3>1
      <4> QED
        BY <2>1, <2>3, <2>4, <3>1, <4>1
    <3>2. CASE d # c
      <4>1. confirm[d].pc = confirm'[d].pc /\ confirm[d].action \in Actions
        BY <2>2, <3>2 DEF TypeOK
      <4>2. confirm[d].action # a /\ Unsent(confirm[d].action)
        BY <2>5, <3>2, <4>1 DEF HeldUnsent
      <4> QED
        BY <2>3, <4>1, <4>2
    <3> QED
      BY <3>1, <3>2
  <2>8. HeldIsTaken'
    BY <2>1, <2>2 DEF HeldIsTaken
  <2>9. HeldByOne'
    BY <2>1, <2>2 DEF HeldByOne
  <2>10. SentOncePerConfirmation'
    BY <2>3, <2>4 DEF SentOncePerConfirmation
  <2> QED
    BY <2>6, <2>7, <2>8, <2>9, <2>10
<1>13. ASSUME NEW a \in Actions, TtlPasses(a) PROVE SendInv'
  BY <1>13, SendKept DEF TtlPasses
<1>14. CASE ApiCrash
  BY <1>14, SendKept DEF ApiCrash, IdleConfirm
<1>15. ASSUME NEW c \in Confirms, ConfirmDbFault(c) PROVE SendInv'
  BY <1>15, SendKept DEF ConfirmDbFault, IdleConfirm, TypeOK
<1>16. CASE UNCHANGED vars
  BY <1>16, SendKept DEF vars
<1> QED
  BY <1>1, <1>2, <1>3, <1>4, <1>5, <1>6, <1>7, <1>8, <1>9, <1>10, <1>11, <1>12, <1>13,
     <1>14, <1>15, <1>16 DEF Next, ConfirmStep

\* A staged write is performed at most once more than calls of it ended in an
\* unknown outcome: the claim lets one call at a time through, and only a
\* failed one gives the action back.
THEOREM SendsOnce == Spec => []SentOncePerConfirmation
<1>1. SendInv => SentOncePerConfirmation
  BY DEF SendInv
<1> QED
  BY <1>1, SendInit, SendStep, TypeCorrect, PTL DEF Spec

-----------------------------------------------------------------------------
(***************************************************************************)
(* The audit trail.  An end is written by the confirmation that holds the  *)
(* action, which knows whether the provider answered.                      *)
(***************************************************************************)
ExecutedWasSent == \A a \in Actions : status[a] = "executed" => sent[a] > 0
FailedUnsent == \A a \in Actions : status[a] = "failed" => Unsent(a)
AnsweredWasSent ==
    \A c \in Confirms : confirm[c].pc = "discarding" => sent[confirm[c].action] > 0
AuditInv == ExecutedWasSent /\ FailedUnsent /\ AnsweredWasSent

\* A step that calls no provider and writes no such end keeps the invariant.
LEMMA AuditKept ==
    ASSUME TypeOK, AuditInv, UNCHANGED <<sent, unknown>>,
           \A a \in Actions :
              status'[a] = status[a] \/ status'[a] \notin {"executed", "failed"},
           \A c \in Confirms :
              confirm'[c] = confirm[c] \/ confirm'[c].pc # "discarding"
    PROVE  AuditInv'
  BY DEF AuditInv, ExecutedWasSent, FailedUnsent, AnsweredWasSent, Unsent

LEMMA AuditSettled ==
    ASSUME TypeOK, AuditInv, NEW c \in Confirms, confirm[c].pc # "idle",
           NEW s \in {"failed", "pending", "executed"}, Settle(c, s),
           s = "failed" => Unsent(confirm[c].action),
           s = "executed" => sent[confirm[c].action] > 0
    PROVE  AuditInv'
<1> DEFINE a == confirm[c].action
<1>1. a \in Actions /\ status \in [Actions -> OpenStatuses \cup ClosedStatuses \cup {"none"}]
  BY DEF TypeOK
<1>2. UNCHANGED <<sent, unknown>>
  BY DEF Settle, providerVars
<1>3. \A b \in Actions : status'[b] = status[b] \/ (b = a /\ status'[b] = s)
  BY <1>1 DEF Settle, StillClaimed
<1>4. \A d \in Confirms : confirm'[d] = confirm[d] \/ confirm'[d].pc # "discarding"
  BY DEF Settle, IdleConfirm, TypeOK
<1>5. ExecutedWasSent'
  BY <1>2, <1>3 DEF AuditInv, ExecutedWasSent
<1>6. FailedUnsent'
  BY <1>2, <1>3 DEF AuditInv, FailedUnsent, Unsent
<1>7. AnsweredWasSent'
  BY <1>2, <1>4 DEF AuditInv, AnsweredWasSent
<1> QED
  BY <1>5, <1>6, <1>7 DEF AuditInv

LEMMA AuditStep == TypeOK /\ SendInv /\ AuditInv /\ [Next]_vars => AuditInv'
<1> SUFFICES ASSUME TypeOK, SendInv, AuditInv, [Next]_vars PROVE AuditInv'
  OBVIOUS
<1> USE DEF rowVars, providerVars, runVars, turnVars
<1>1. CASE StartTurn \/ EndTurn \/ UNCHANGED vars
  BY <1>1, AuditKept DEF StartTurn, EndTurn, vars
<1>2. ASSUME NEW e \in Runs, DispatchRun(e) \/ \E k \in Kinds : StageAction(e, k)
      PROVE  AuditInv'
  BY <1>2, AuditKept DEF DispatchRun, StageAction
<1>3. ASSUME NEW e \in Runs, NEW a \in Actions, CommitStaged(e, a) PROVE AuditInv'
  <2>1. \A b \in Actions : status'[b] = status[b] \/ status'[b] \in {"pending", "cancelled"}
    BY <1>3 DEF CommitStaged
  <2> QED
    BY <1>3, <2>1, AuditKept DEF CommitStaged
<1>4. ASSUME NEW c \in Confirms, NEW a \in Actions, SelectAction(c, a) PROVE AuditInv'
  BY <1>4, AuditKept DEF SelectAction, TypeOK
<1>5. ASSUME NEW c \in Confirms, ClaimPendingAction(c) PROVE AuditInv'
  <2>1. \A a \in Actions : status'[a] = status[a] \/ status'[a] = "claimed"
    BY <1>5 DEF ClaimPendingAction, TypeOK
  <2>2. \A d \in Confirms : confirm'[d] = confirm[d] \/ confirm'[d].pc \in {"idle", "claimed"}
    BY <1>5 DEF ClaimPendingAction, IdleConfirm, TypeOK
  <2> QED
    BY <1>5, <2>1, <2>2, AuditKept DEF ClaimPendingAction
<1>6. ASSUME NEW c \in Confirms, FailInvalid(c) PROVE AuditInv'
  BY <1>6, AuditSettled DEF FailInvalid, SendInv, HeldUnsent
<1>7. ASSUME NEW c \in Confirms, ReleasePendingAction(c) PROVE AuditInv'
  BY <1>7, AuditSettled DEF ReleasePendingAction
<1>8. ASSUME NEW c \in Confirms, DiscardPendingAction(c) PROVE AuditInv'
  BY <1>8, AuditSettled DEF DiscardPendingAction, AuditInv, AnsweredWasSent
<1>9. ASSUME NEW c \in Confirms, NEW i \in BOOLEAN, LookUpIntegration(c, i) PROVE AuditInv'
  BY <1>9, AuditKept DEF LookUpIntegration, TypeOK
<1>10. ASSUME NEW c \in Confirms, NEW p \in BOOLEAN, NEW n \in BOOLEAN, CallProvider(c, p, n)
       PROVE  AuditInv'
  <2> DEFINE a == confirm[c].action
  <2>1. UNCHANGED status /\ a \in Actions
    BY <1>10 DEF CallProvider, TypeOK
  <2>2. /\ sent \in [Actions -> Nat] /\ unknown \in [Actions -> Nat]
        /\ \A b \in Actions : b # a => sent'[b] = sent[b] /\ unknown'[b] = unknown[b]
        /\ n => sent'[a] = sent[a] + 1
        /\ sent'[a] \in {sent[a], sent[a] + 1}
    BY <1>10, <2>1 DEF CallProvider, TypeOK
  <2>g. /\ \A b \in Actions : sent[b] > 0 => sent'[b] > 0
        /\ n => sent'[a] > 0
    <3>1. \A b \in Actions : sent[b] \in Nat
      BY <2>2
    <3> QED
      BY <2>1, <2>2, <3>1
  <2>3. status[a] # "failed"
    BY <1>10 DEF CallProvider, SendInv, HeldIsTaken, Holding
  <2>4. \A d \in Confirms :
          /\ confirm'[d].action = confirm[d].action
          /\ confirm'[d].pc = "discarding" => (d = c /\ n) \/ confirm[d].pc = "discarding"
    BY <1>10 DEF CallProvider, TypeOK
  <2>5. ExecutedWasSent'
    BY <2>1, <2>g DEF AuditInv, ExecutedWasSent
  <2>6. FailedUnsent'
    BY <2>1, <2>2, <2>3 DEF AuditInv, FailedUnsent, Unsent
  <2>7. AnsweredWasSent'
    <3> SUFFICES ASSUME NEW d \in Confirms, confirm'[d].pc = "discarding"
                 PROVE  sent'[confirm[d].action] > 0
      BY <2>4 DEF AnsweredWasSent
    <3>1. CASE d = c /\ n
      BY <2>g, <3>1
    <3>2. CASE confirm[d].pc = "discarding"
      <4>1. confirm[d].action \in Actions /\ sent[confirm[d].action] > 0
        BY <3>2 DEF AuditInv, AnsweredWasSent, TypeOK
      <4> QED
        BY <2>g, <4>1
    <3> QED
      BY <2>4, <3>1, <3>2
  <2> QED
    BY <2>5, <2>6, <2>7 DEF AuditInv
<1>11. ASSUME NEW a \in Actions, TtlPasses(a) PROVE AuditInv'
  BY <1>11, AuditKept DEF TtlPasses
<1>12. CASE ApiCrash
  BY <1>12, AuditKept DEF ApiCrash, IdleConfirm
<1>13. ASSUME NEW c \in Confirms, ConfirmDbFault(c) PROVE AuditInv'
  BY <1>13, AuditKept DEF ConfirmDbFault, IdleConfirm, TypeOK
<1> QED
  BY <1>1, <1>2, <1>3, <1>4, <1>5, <1>6, <1>7, <1>8, <1>9, <1>10, <1>11, <1>12, <1>13
     DEF Next, ConfirmStep

\* What the rows say of an action is what the provider did: an executed one was
\* performed; one that failed, or that may still be confirmed, was not, unless
\* the outcome of a call of it stayed unknown.
THEOREM AuditIsTrue == Spec => []AuditTellsTheSend
<1>1. Init => AuditInv
  BY DEF Init, AuditInv, ExecutedWasSent, FailedUnsent, AnsweredWasSent, IdleConfirm
<1>2. TypeOK /\ SendInv /\ AuditInv => AuditTellsTheSend
  BY DEF TypeOK, SendInv, ClaimableUnsent, AuditInv, ExecutedWasSent, FailedUnsent, Unsent,
     AuditTellsTheSend
<1> QED
  BY <1>1, <1>2, AuditStep, SendInit, SendStep, TypeCorrect, PTL DEF Spec

-----------------------------------------------------------------------------
\* Every write to a row asks for a status that is not closed.
LEMMA ClosedKept == TypeOK /\ [Next]_vars => [KeepsClosed]_vars
<1> SUFFICES ASSUME TypeOK, [Next]_vars, NEW a \in Actions, status[a] \in ClosedStatuses
             PROVE  UNCHANGED <<status[a], kind[a], source[a]>>
  BY DEF KeepsClosed
<1> USE DEF rowVars, ClosedStatuses
<1>1. CASE UNCHANGED <<status, kind, source>>
  BY <1>1
<1>2. ASSUME NEW e \in Runs, NEW b \in Actions, CommitStaged(e, b)
      PROVE  UNCHANGED <<status[a], kind[a], source[a]>>
  BY <1>2 DEF CommitStaged, NextRow, OpenStatuses, TypeOK
<1>3. ASSUME NEW c \in Confirms, ClaimPendingAction(c)
      PROVE  UNCHANGED <<status[a], kind[a], source[a]>>
  <2>1. confirm[c].action \in Actions
    BY <1>3 DEF ClaimPendingAction, TypeOK
  <2>2. CASE Claimable(confirm[c].action)
    BY <1>3, <2>1, <2>2 DEF ClaimPendingAction, Claimable, Listed, TypeOK
  <2>3. CASE ~ Claimable(confirm[c].action)
    BY <1>3, <2>3 DEF ClaimPendingAction
  <2> QED
    BY <2>2, <2>3
<1>4. ASSUME NEW c \in Confirms, NEW s \in {"failed", "pending", "executed"}, Settle(c, s)
      PROVE  UNCHANGED <<status[a], kind[a], source[a]>>
  BY <1>4 DEF Settle, StillClaimed, TypeOK
<1> QED
  BY <1>1, <1>2, <1>3, <1>4 DEF Next, ConfirmStep, FailInvalid, ReleasePendingAction,
     DiscardPendingAction, StartTurn, EndTurn, DispatchRun, StageAction, SelectAction,
     LookUpIntegration, CallProvider, TtlPasses, ApiCrash, ConfirmDbFault, vars

\* A proposal that was executed, superseded or failed keeps that end: a release
\* that comes late finds the row closed and changes nothing.
THEOREM ClosedStays == Spec => ClosedIsFinal
  BY ClosedKept, TypeCorrect, PTL DEF Spec, ClosedIsFinal

-----------------------------------------------------------------------------
(***************************************************************************)
(* Migrations: the rows and the migration under way.                       *)
(***************************************************************************)
RowsType ==
    [job : [JobIds -> {"none"} \cup Jobs], link : Values, proposal : Proposals, hash : Values,
     preference : {"none", "daily", "opted_out"}, briefing : {"none", "active", "paused"},
     own : {"none", "active"}]
KnownSchemas == UNION {SchemasDuring(n) : n \in Revisions}
KnownTables ==
    UNION {LockedBy(m.before) \cup LockedBy(m.after) :
               m \in {Up[n] : n \in 1 .. HeadRevision} \cup {Down[n] : n \in 1 .. HeadRevision}}
Migrating ==
    [way : {"up", "down"}, to : Revisions, at : Revisions, done : -1 .. 3,
     schema : KnownSchemas, rows : RowsType, locked : SUBSET KnownTables, late : BOOLEAN]

MigrationTypeOK ==
    /\ revision \in Revisions
    /\ release \in Revisions
    /\ rows \in RowsType
    /\ late \subseteq JobIds
    /\ tx \in Migrating \cup {Idle}

\* The revision that a migration t performs at t.at.
StepOf(t) == IF t.way = "up" THEN Up[t.at + 1] ELSE Down[t.at]

\* Which jobs and proposals a revision allows: what the constraints come to.
JobAllowed(n, j) ==
    \/ j = "none"
    \/ j = "agent_turn" /\ n \in 3 .. 16
    \/ j \in {"reminder_due", "integration_notify"} /\ n >= 3
    \/ j \in Knocks /\ n \in 13 .. 17
    \/ j \in WakeUps /\ n >= 15
ProposalAllowed(n, p) ==
    \/ p \in {"none", "unmarked"}
    \/ p \in {"pending", "claimed"} /\ n >= 9
    \/ p = "executed" /\ n >= 14
FilledIn(n, r) ==
    /\ n >= 12 => r.link # "unset"
    /\ n >= 14 => r.hash # "unset"
FitsAt(n, r) ==
    /\ \A i \in JobIds : JobAllowed(n, r.job[i])
    /\ ProposalAllowed(n, r.proposal)
    /\ FilledIn(n, r)

\* A migration is between where it began and where it goes, with a schema that
\* the revisions passed so far account for.
OnItsWay(t, from) ==
    /\ t.way = "up" => from <= t.at /\ t.at <= t.to
    /\ t.way = "down" => t.to <= t.at /\ t.at <= from
    /\ t.done = -1 => t.schema \in Schemas(t.at)
    /\ t.done >= 0 =>
         /\ t.at # t.to
         /\ StepOf(t).data # <<>>
         /\ t.done <= Len(StepOf(t).data)
         /\ \E s \in Schemas(t.at) : t.schema = Prepared(s, StepOf(t))

\* A table that is not locked is what it was when the migration began.
LocksHold(t, from) ==
    /\ "job" \notin t.locked => \A n \in {3, 13, 15, 17, 18} : from < n <=> t.at < n
    /\ "connect_link" \notin t.locked => (from < 12 <=> t.at < 12)
    /\ "pending_action" \notin t.locked => \A n \in {8, 9, 14} : from < n <=> t.at < n

\* Statement d is the next that the migration executes.
NextIs(t, d) ==
    \/ t.way = "up" /\ t.at = 11 /\ t.done = 0 /\ d = "links_are_google"
    \/ t.way = "up" /\ t.at = 13 /\ t.done = 0 /\ d = "payloads_are_hashed"
    \/ t.way = "up" /\ t.at = 15 /\ t.done = 0 /\ d = "seed_briefing"
    \/ t.way = "up" /\ t.at = 16 /\ t.done = 0 /\ d = "no_turns"
    \/ t.way = "up" /\ t.at = 17 /\ t.done = 0 /\ d = "no_knocks"
    \/ t.way = "up" /\ t.at = 17 /\ t.done = 1 /\ d = "no_briefing_wake_ups"
    \/ t.way = "up" /\ t.at = 17 /\ t.done = 2 /\ d = "no_briefing"
    \/ t.way = "down" /\ t.at = 14 /\ t.done = 0 /\ d = "concluded_are_claimed"
    \/ t.way = "down" /\ t.at = 15 /\ t.done = 0 /\ d = "no_wake_ups"

\* What the statements executed so far did still holds: for good if the table
\* was locked before, and otherwise as long as nobody wrote.
NoJobOf(r, kinds) == \A i \in JobIds : r.job[i] \notin kinds
DoneUnlocked(t) ==
    ~t.late =>
      /\ t.way = "up" /\ t.at = 16 /\ t.done = 1 => NoJobOf(t.rows, {"agent_turn"})
      /\ t.way = "up" /\ t.at = 17 /\ t.done >= 1 => NoJobOf(t.rows, Knocks)
      /\ t.way = "down" /\ t.at = 14 /\ t.done = 1 => t.rows.proposal # "executed"
DoneLocked(t) ==
    /\ t.way = "up" /\ t.at = 11 /\ t.done >= 0 =>
         "connect_link" \in t.locked /\ (t.done = 1 => t.rows.link # "unset")
    /\ t.way = "up" /\ t.at = 13 /\ t.done >= 0 =>
         "pending_action" \in t.locked /\ (t.done = 1 => t.rows.hash # "unset")
    /\ t.way = "down" /\ t.at = 15 /\ t.done >= 0 =>
         "job" \in t.locked /\ (t.done = 1 => NoJobOf(t.rows, WakeUps))
DoneSoFar(t) == DoneUnlocked(t) /\ DoneLocked(t)

\* The migration removes jobs and changes none.
JobsRemain(t, r) == \A i \in JobIds : t.rows.job[i] \in {r.job[i], "none"}

\* What was concluded before is so for the migration, or has lost its status.
Concluded == {"claimed", "executed"}
StaysConcluded(t, r) == r.proposal \in Concluded => t.rows.proposal \in Concluded \/ t.at < 9

WokenBy(r, ids) ==
    \A i \in ids :
        /\ r.job[i] = "briefing_wake_up" => r.briefing # "none"
        /\ r.job[i] = "own_wake_up" => r.own # "none"
KeepsWakeUps(t, ids) ==
    /\ (t.way = "down" /\ t.at = 15 /\ t.done = 0) \/ WokenBy(t.rows, ids)
    /\ t.way = "up" /\ t.at = 17 /\ t.done = 2 => \A i \in ids : t.rows.job[i] # "briefing_wake_up"

-----------------------------------------------------------------------------
(***************************************************************************)
(* What the facts about the revisions say in these terms.                  *)
(***************************************************************************)
LEMMA JobsFit ==
    ASSUME NEW n \in Revisions, NEW s \in SchemasDuring(n), NEW j \in Jobs
    PROVE  JobFits(s, j) <=> JobAllowed(n, j)
<1>1. /\ n < 3 => Allowed(s, "ck_job_kind") = {}
      /\ n \in 3 .. 12 => Allowed(s, "ck_job_kind") = Kinds3
      /\ n \in 13 .. 14 => Allowed(s, "ck_job_kind") = Kinds13
      /\ n \in 15 .. 16 => Allowed(s, "ck_job_kind") = Kinds15
      /\ n = 17 => Allowed(s, "ck_job_kind") = Kinds17
      /\ n = 18 => Allowed(s, "ck_job_kind") = Kinds18
      /\ Fact("job", "contact_id", {"optional"}) \in s <=> n \in 13 .. 17
  BY FactsOfRevisions DEF JobsAllowed
<1>2. n \in 0 .. 18
  BY DEF Revisions, HeadRevision
<1>3. /\ j \in {"agent_turn", "reminder_due", "integration_notify", "outbound_sweep",
                "outbound_due", "briefing_wake_up", "own_wake_up"}
      /\ Kind(j) = IF j \in {"briefing_wake_up", "own_wake_up"} THEN "automation_due" ELSE j
  BY DEF Jobs, WakeUps, Kind, Kinds15, Kinds13, Kinds3
<1>4. Kind(j) \in Allowed(s, "ck_job_kind") <=>
          \/ j = "agent_turn" /\ n \in 3 .. 16
          \/ j \in {"reminder_due", "integration_notify"} /\ n >= 3
          \/ j \in Knocks /\ n \in 13 .. 17
          \/ j \in WakeUps /\ n >= 15
  <2>0. n < 3 \/ n \in 3 .. 12 \/ n \in 13 .. 14 \/ n \in 15 .. 16 \/ n = 17 \/ n = 18
    BY <1>2
  <2>1. /\ n < 3 => Allowed(s, "ck_job_kind") = {}
        /\ n \in 3 .. 12 => Kind(j) \in Allowed(s, "ck_job_kind") <=>
             Kind(j) \in {"agent_turn", "reminder_due", "integration_notify"}
        /\ n \in 13 .. 14 => Kind(j) \in Allowed(s, "ck_job_kind") <=>
             Kind(j) \in {"agent_turn", "reminder_due", "integration_notify", "outbound_sweep",
                    "outbound_due"}
        /\ n \in 15 .. 16 => Kind(j) \in Allowed(s, "ck_job_kind") <=>
             Kind(j) \in {"agent_turn", "reminder_due", "integration_notify", "outbound_sweep",
                    "outbound_due", "automation_due"}
        /\ n = 17 => Kind(j) \in Allowed(s, "ck_job_kind") <=>
             Kind(j) \in {"reminder_due", "integration_notify", "outbound_sweep", "outbound_due",
                    "automation_due"}
        /\ n = 18 => Kind(j) \in Allowed(s, "ck_job_kind") <=>
             Kind(j) \in {"reminder_due", "integration_notify", "automation_due"}
    BY <1>1 DEF Kinds3, Kinds13, Kinds15, Kinds17, Kinds18
  <2>2. j \in WakeUps => Kind(j) = "automation_due"
    BY <1>3 DEF WakeUps
  <2>3. j \notin WakeUps => Kind(j) = j
    BY <1>3 DEF WakeUps
  <2>4. CASE j \in WakeUps
    <3>1. Kind(j) \in Allowed(s, "ck_job_kind") <=> n >= 15
      BY <1>2, <2>1, <2>2, <2>4
    <3> QED
      BY <1>2, <3>1, <2>4 DEF Knocks, WakeUps
  <2>5. CASE j \in Knocks
    <3>1. Kind(j) = j /\ j \in {"outbound_sweep", "outbound_due"}
      BY <2>3, <2>5 DEF Knocks, WakeUps
    <3>2. Kind(j) \in Allowed(s, "ck_job_kind") <=> n \in 13 .. 17
      BY <1>2, <2>0, <2>1, <3>1
    <3> QED
      BY <1>2, <3>2, <2>5 DEF Knocks, WakeUps
  <2>6. CASE j = "agent_turn"
    <3>1. Kind(j) \in Allowed(s, "ck_job_kind") <=> n \in 3 .. 16
      <4>1. Kind(j) = "agent_turn"
        BY <2>3, <2>6 DEF WakeUps
      <4> QED
        BY <1>2, <2>1, <2>0, <4>1
    <3> QED
      BY <1>2, <3>1, <2>6 DEF Knocks, WakeUps
  <2>7. CASE j \in {"reminder_due", "integration_notify"}
    <3>1. Kind(j) \in Allowed(s, "ck_job_kind") <=> n >= 3
      <4>1. Kind(j) \in {"reminder_due", "integration_notify"}
        BY <2>3, <2>7 DEF WakeUps
      <4> QED
        BY <1>2, <2>1, <2>0, <4>1
    <3> QED
      BY <1>2, <3>1, <2>7 DEF Knocks, WakeUps
  <2> QED
    BY <1>3, <2>4, <2>5, <2>6, <2>7 DEF Knocks, WakeUps
<1>5. j # "none"
  BY <1>3
<1>6. j = "outbound_sweep" => j \in Knocks /\ j \notin WakeUps
  BY DEF Knocks, WakeUps
<1>7. JobAllowed(n, j) <=> Kind(j) \in Allowed(s, "ck_job_kind")
  BY <1>4, <1>5 DEF JobAllowed
<1>8. j = "outbound_sweep" /\ JobAllowed(n, j) => n \in 13 .. 17
  BY <1>6 DEF JobAllowed
<1> QED
  BY <1>1, <1>7, <1>8 DEF JobFits

LEMMA ProposalsFit ==
    ASSUME NEW n \in Revisions, NEW s \in SchemasDuring(n), NEW p \in Proposals
    PROVE  p \in {"none", "unmarked"} \cup Allowed(s, "ck_pending_action_status")
             <=> ProposalAllowed(n, p)
<1>1. /\ n < 9 => Allowed(s, "ck_pending_action_status") = {}
      /\ n \in 9 .. 13 => Allowed(s, "ck_pending_action_status") = Statuses9
      /\ n >= 14 => Allowed(s, "ck_pending_action_status") = Statuses14
  BY FactsOfRevisions DEF ProposalsAllowed
<1>2. n \in 0 .. 18
  BY DEF Revisions, HeadRevision
<1>3. CASE n < 9
  BY <1>1, <1>2, <1>3 DEF Proposals, ProposalAllowed
<1>4. CASE n \in 9 .. 13
  BY <1>1, <1>2, <1>4 DEF Proposals, ProposalAllowed, Statuses9
<1>5. CASE n >= 14
  BY <1>1, <1>2, <1>5 DEF Proposals, ProposalAllowed, Statuses14, Statuses9
<1> QED
  BY <1>2, <1>3, <1>4, <1>5

LEMMA RowsFit ==
    ASSUME NEW n \in Revisions, NEW s \in SchemasDuring(n), NEW r \in RowsType
    PROVE  Fits(s, r) <=> FitsAt(n, r)
<1>1. r.proposal \in Proposals /\ \A i \in JobIds : r.job[i] \in {"none"} \cup Jobs
  BY DEF RowsType
<1>2. r.proposal \in {"none", "unmarked"} \cup Allowed(s, "ck_pending_action_status")
        <=> ProposalAllowed(n, r.proposal)
  BY <1>1, ProposalsFit
<1>3. /\ Fact("connect_link", "provider", {"required"}) \in s <=> n >= 12
      /\ Fact("pending_action", "payload_hash", {"required"}) \in s <=> n >= 14
  BY FactsOfRevisions DEF ColumnsRequired
<1>4. \A i \in JobIds : r.job[i] = "none" \/ JobFits(s, r.job[i]) <=> JobAllowed(n, r.job[i])
  <2> TAKE i \in JobIds
  <2>1. CASE r.job[i] = "none"
    BY <2>1 DEF JobAllowed
  <2>2. CASE r.job[i] # "none"
    BY <1>1, <2>2, JobsFit
  <2> QED
    BY <2>1, <2>2
<1> QED
  BY <1>2, <1>3, <1>4 DEF Fits, FitsAt, FilledIn

\* What a schema of a revision does to the rows.
LEMMA UnderRevision ==
    ASSUME NEW n \in Revisions, NEW s \in SchemasDuring(n), NEW r \in RowsType
    PROVE  /\ Under(s, r) \in RowsType
           /\ n < 3 => \A i \in JobIds : Under(s, r).job[i] = "none"
           /\ n >= 3 => Under(s, r).job = r.job
           /\ n < 8 \/ r.proposal = "none" => Under(s, r).proposal = "none"
           /\ n = 8 /\ r.proposal # "none" => Under(s, r).proposal = "unmarked"
           /\ n >= 9 /\ r.proposal # "none" =>
                Under(s, r).proposal = IF r.proposal = "unmarked" THEN "pending" ELSE r.proposal
           /\ n >= 12 => Under(s, r).link = r.link
           /\ n >= 14 => Under(s, r).hash = r.hash
           /\ IsTable(s, "automation") =>
                Under(s, r).briefing = r.briefing /\ Under(s, r).own = r.own
<1>1. /\ IsTable(s, "job") <=> n >= 3
      /\ IsTable(s, "pending_action") <=> n >= 8
      /\ "status" \in Names(s, "pending_action") <=> n >= 9
      /\ n >= 12 => IsTable(s, "connect_link") /\ "provider" \in Names(s, "connect_link")
      /\ n >= 14 => "payload_hash" \in Names(s, "pending_action")
  BY FactsOfRevisions DEF JobsAllowed, ProposalsAllowed, ColumnsRequired
<1>2. n \in 0 .. 18
  BY DEF Revisions, HeadRevision
<1>3. /\ r.job \in [JobIds -> {"none"} \cup Jobs]
      /\ r.link \in Values /\ r.hash \in Values
      /\ r.proposal \in Proposals
      /\ r.preference \in {"none", "daily", "opted_out"}
      /\ r.briefing \in {"none", "active", "paused"}
      /\ r.own \in {"none", "active"}
  BY DEF RowsType
<1> DEFINE U == Under(s, r)
<1>4. /\ U.job = IF n >= 3 THEN r.job ELSE [i \in JobIds |-> "none"]
      /\ U.proposal = IF n < 8 \/ r.proposal = "none" THEN "none"
                      ELSE IF n = 8 THEN "unmarked"
                      ELSE IF r.proposal = "unmarked" THEN "pending" ELSE r.proposal
      /\ U.preference = IF IsTable(s, "briefing_state") THEN r.preference ELSE "none"
      /\ U.briefing = IF IsTable(s, "automation") THEN r.briefing ELSE "none"
      /\ U.own = IF IsTable(s, "automation") THEN r.own ELSE "none"
      /\ U.link = Valued(s, "connect_link", "provider", r.link)
      /\ U.hash = Valued(s, "pending_action", "payload_hash", r.hash)
      /\ U = [job |-> U.job, link |-> U.link, proposal |-> U.proposal, hash |-> U.hash,
              preference |-> U.preference, briefing |-> U.briefing, own |-> U.own]
  BY <1>1, <1>2 DEF Under, NoRows
<1> HIDE DEF U
<1>8. /\ U.link \in Values /\ U.hash \in Values
      /\ n >= 12 => U.link = r.link
      /\ n >= 14 => U.hash = r.hash
  BY <1>1, <1>2, <1>3, <1>4 DEF Valued, Values
<1>5. U.job \in [JobIds -> {"none"} \cup Jobs]
  BY <1>3, <1>4
<1>6. /\ U.proposal \in Proposals
      /\ U.preference \in {"none", "daily", "opted_out"}
      /\ U.briefing \in {"none", "active", "paused"}
      /\ U.own \in {"none", "active"}
  BY <1>3, <1>4 DEF Proposals
<1>7. U \in RowsType
  BY <1>4, <1>5, <1>6, <1>8 DEF RowsType
<1> QED
  BY <1>2, <1>4, <1>7, <1>8 DEF U

NextOf(t) == IF t.way = "up" THEN t.at + 1 ELSE t.at - 1

LEMMA MigratingFields ==
    ASSUME NEW t \in Migrating
    PROVE  /\ t.way \in {"up", "down"} /\ t.to \in 0 .. 18 /\ t.at \in 0 .. 18
           /\ t.to \in Revisions /\ t.at \in Revisions
           /\ t.done \in -1 .. 3 /\ t.schema \in KnownSchemas /\ t.rows \in RowsType
           /\ t.locked \in SUBSET KnownTables /\ t.late \in BOOLEAN
           /\ t # Idle
<1>1. t.way # Idle.way
  BY DEF Migrating, Idle
<1> QED
  BY <1>1 DEF Migrating, Revisions, HeadRevision

LEMMA StepInRange ==
    ASSUME NEW t \in Migrating, NEW from \in Revisions, OnItsWay(t, from), t.at # t.to
    PROVE  /\ t.way = "up" => t.at \in 0 .. 17 /\ t.at + 1 \in 1 .. HeadRevision
           /\ t.way = "down" => t.at \in 1 .. HeadRevision /\ t.at \in 1 .. 18
           /\ NextOf(t) \in Revisions
           /\ t.way = "up" => from <= NextOf(t) /\ NextOf(t) <= t.to
           /\ t.way = "down" => t.to <= NextOf(t) /\ NextOf(t) <= from
<1>1. from \in 0 .. 18
  BY DEF Revisions, HeadRevision
<1>2. t.way \in {"up", "down"} /\ t.to \in 0 .. 18 /\ t.at \in 0 .. 18
  BY MigratingFields
<1>3. t.way = "up" => from <= t.at /\ t.at <= t.to
  BY DEF OnItsWay
<1>4. t.way = "down" => t.to <= t.at /\ t.at <= from
  BY DEF OnItsWay
<1>5. CASE t.way = "up"
  BY <1>1, <1>2, <1>3, <1>5 DEF NextOf, Revisions, HeadRevision
<1>6. CASE t.way = "down"
  BY <1>1, <1>2, <1>4, <1>6 DEF NextOf, Revisions, HeadRevision
<1> QED
  BY <1>2, <1>5, <1>6

\* The revisions that change rows, and where they stand.
LEMMA WhichStatements ==
    ASSUME NEW t \in Migrating, NEW from \in Revisions, OnItsWay(t, from), t.at # t.to,
           StepOf(t).data # <<>>
    PROVE  \/ /\ t.way = "up" /\ t.at = 11 /\ StepOf(t).data = <<"links_are_google">>
           \/ /\ t.way = "up" /\ t.at = 13 /\ StepOf(t).data = <<"payloads_are_hashed">>
           \/ /\ t.way = "up" /\ t.at = 15 /\ StepOf(t).data = <<"seed_briefing">>
           \/ /\ t.way = "up" /\ t.at = 16 /\ StepOf(t).data = <<"no_turns">>
           \/ /\ t.way = "up" /\ t.at = 17
              /\ StepOf(t).data = <<"no_knocks", "no_briefing_wake_ups", "no_briefing">>
           \/ /\ t.way = "down" /\ t.at = 14 /\ StepOf(t).data = <<"concluded_are_claimed">>
           \/ /\ t.way = "down" /\ t.at = 15 /\ StepOf(t).data = <<"no_wake_ups">>
<1>1. t.way \in {"up", "down"}
  BY MigratingFields
<1>2. CASE t.way = "up"
  <2>1. t.at \in 0 .. 17 /\ StepOf(t) = Up[t.at + 1]
    BY <1>2, StepInRange DEF StepOf
  <2>2. t.at + 1 \in {12, 14} \/ t.at + 1 \notin 1 .. 15
    <3>1. \A n \in 1 .. 15 : n \in {12, 14} \/ Up[n].data = <<>>
      BY FactsOfRevisions DEF StatementsUp
    <3>2. Up[t.at + 1].data # <<>>
      BY <2>1
    <3> QED
      BY <3>1, <3>2
  <2>3. t.at = 11 \/ t.at = 13 \/ t.at = 15 \/ t.at = 16 \/ t.at = 17
    BY <2>1, <2>2
  <2>7. CASE t.at = 11
    <3>1. StepOf(t) = Up[12]
      BY <2>1, <2>7
    <3> QED
      BY <1>2, <2>7, <3>1, FactsOfRevisions DEF StatementsUp
  <2>8. CASE t.at = 13
    <3>1. StepOf(t) = Up[14]
      BY <2>1, <2>8
    <3> QED
      BY <1>2, <2>8, <3>1, FactsOfRevisions DEF StatementsUp
  <2>4. CASE t.at = 15
    <3>1. StepOf(t) = Up[16]
      BY <2>1, <2>4
    <3> QED
      BY <1>2, <2>4, <3>1, FactsOfRevisions DEF StatementsUp
  <2>5. CASE t.at = 16
    <3>1. StepOf(t) = Up[17]
      BY <2>1, <2>5
    <3> QED
      BY <1>2, <2>5, <3>1, FactsOfRevisions DEF StatementsUp
  <2>6. CASE t.at = 17
    <3>1. StepOf(t) = Up[18]
      BY <2>1, <2>6
    <3> QED
      BY <1>2, <2>6, <3>1, FactsOfRevisions DEF StatementsUp
  <2> QED
    BY <2>3, <2>4, <2>5, <2>6, <2>7, <2>8
<1>3. CASE t.way = "down"
  <2>1. t.at \in 1 .. HeadRevision /\ StepOf(t) = Down[t.at]
    BY <1>3, StepInRange DEF StepOf
  <2>2. t.at \in {14, 15}
    BY <2>1, FactsOfRevisions DEF StatementsDown
  <2> QED
    BY <1>3, <2>1, <2>2, FactsOfRevisions DEF StatementsDown
<1> QED
  BY <1>1, <1>2, <1>3

LEMMA StatementsCount ==
    ASSUME NEW t \in Migrating, NEW from \in Revisions, OnItsWay(t, from), t.at # t.to,
           StepOf(t).data # <<>>
    PROVE  Len(StepOf(t).data) = IF t.way = "up" /\ t.at = 17 THEN 3 ELSE 1
<1>6. CASE t.way = "up" /\ t.at = 11 /\ StepOf(t).data = <<"links_are_google">>
  <2>1. Len(StepOf(t).data) = 1
    BY <1>6
  <2> QED
    BY <1>6, <2>1
<1>7. CASE t.way = "up" /\ t.at = 13 /\ StepOf(t).data = <<"payloads_are_hashed">>
  <2>1. Len(StepOf(t).data) = 1
    BY <1>7
  <2> QED
    BY <1>7, <2>1
<1>1. CASE t.way = "up" /\ t.at = 15 /\ StepOf(t).data = <<"seed_briefing">>
  <2>1. Len(StepOf(t).data) = 1
    BY <1>1
  <2> QED
    BY <1>1, <2>1
<1>2. CASE t.way = "up" /\ t.at = 16 /\ StepOf(t).data = <<"no_turns">>
  <2>1. Len(StepOf(t).data) = 1
    BY <1>2
  <2> QED
    BY <1>2, <2>1
<1>3. CASE /\ t.way = "up" /\ t.at = 17
           /\ StepOf(t).data = <<"no_knocks", "no_briefing_wake_ups", "no_briefing">>
  <2>1. Len(StepOf(t).data) = 3
    BY <1>3
  <2> QED
    BY <1>3, <2>1
<1>4. CASE t.way = "down" /\ t.at = 14 /\ StepOf(t).data = <<"concluded_are_claimed">>
  <2>1. Len(StepOf(t).data) = 1
    BY <1>4
  <2> QED
    BY <1>4, <2>1
<1>5. CASE t.way = "down" /\ t.at = 15 /\ StepOf(t).data = <<"no_wake_ups">>
  <2>1. Len(StepOf(t).data) = 1
    BY <1>5
  <2> QED
    BY <1>5, <2>1
<1> QED
  BY <1>1, <1>2, <1>3, <1>4, <1>5, <1>6, <1>7, WhichStatements

LEMMA NextStatement ==
    ASSUME NEW t \in Migrating, NEW from \in Revisions, OnItsWay(t, from), t.at # t.to,
           t.done \in 0 .. Len(StepOf(t).data) - 1
    PROVE  NextIs(t, StepOf(t).data[t.done + 1])
<1>1. t.done >= 0
  BY MigratingFields
<1>2. StepOf(t).data # <<>>
  BY <1>1 DEF OnItsWay
<1>3. Len(StepOf(t).data) = IF t.way = "up" /\ t.at = 17 THEN 3 ELSE 1
  BY <1>2, StatementsCount
<1>4. CASE t.way = "up" /\ t.at = 17
  <2>1. StepOf(t).data = <<"no_knocks", "no_briefing_wake_ups", "no_briefing">>
    BY <1>2, <1>4, WhichStatements
  <2>2. t.done = 0 \/ t.done = 1 \/ t.done = 2
    BY <1>3, <1>4, MigratingFields
  <2>3. CASE t.done = 0
    BY <1>4, <2>1, <2>3 DEF NextIs
  <2>4. CASE t.done = 1
    BY <1>4, <2>1, <2>4 DEF NextIs
  <2>5. CASE t.done = 2
    BY <1>4, <2>1, <2>5 DEF NextIs
  <2> QED
    BY <2>2, <2>3, <2>4, <2>5
<1>5. CASE ~(t.way = "up" /\ t.at = 17)
  <2>1. t.done = 0
    BY <1>3, <1>5, MigratingFields
  <2> QED
    BY <1>2, <1>5, <2>1, WhichStatements DEF NextIs
<1> QED
  BY <1>4, <1>5

-----------------------------------------------------------------------------
(***************************************************************************)
(* The schema on its way.                                                  *)
(***************************************************************************)
\* Before the operations, and while the statements are executed.
LEMMA SchemaOnItsWay ==
    ASSUME NEW t \in Migrating, NEW from \in Revisions, OnItsWay(t, from)
    PROVE  t.schema \in SchemasDuring(t.at)
<1>1. CASE t.done = -1
  BY <1>1 DEF OnItsWay, SchemasDuring
<1>2. CASE t.done >= 0
  <2>1. t.at # t.to
    BY <1>2 DEF OnItsWay
  <2>2. PICK s \in Schemas(t.at) : t.schema = Prepared(s, StepOf(t))
    BY <1>2 DEF OnItsWay
  <2>3. CASE t.way = "up"
    <3>1. t.at < HeadRevision /\ StepOf(t) = Up[t.at + 1]
      BY <2>1, <2>3, StepInRange DEF StepOf, HeadRevision
    <3> QED
      BY <2>2, <3>1 DEF SchemasDuring
  <2>4. CASE t.way = "down"
    <3>1. t.at > 0 /\ StepOf(t) = Down[t.at]
      BY <2>1, <2>4, StepInRange DEF StepOf
    <3> QED
      BY <2>2, <3>1 DEF SchemasDuring
  <2> QED
    BY <2>3, <2>4, MigratingFields
<1> QED
  BY <1>1, <1>2, MigratingFields

LEMMA PreparedOnItsWay ==
    ASSUME NEW t \in Migrating, NEW from \in Revisions, OnItsWay(t, from), t.at # t.to,
           t.done = -1, StepOf(t).data # <<>>
    PROVE  /\ DoAll(t.schema, StepOf(t).before) = Prepared(t.schema, StepOf(t))
           /\ t.schema \in Schemas(t.at)
           /\ Prepared(t.schema, StepOf(t)) \in SchemasDuring(t.at)
           /\ Broken \notin Prepared(t.schema, StepOf(t))
<1>1. t.schema \in Schemas(t.at)
  BY DEF OnItsWay
<1>2. DoAll(t.schema, StepOf(t).before) = Prepared(t.schema, StepOf(t))
  BY DEF Prepared
<1>3. Prepared(t.schema, StepOf(t)) \in SchemasDuring(t.at)
  <2>1. CASE t.way = "up"
    <3>1. t.at \in 0 .. 17 /\ StepOf(t) = Up[t.at + 1]
      BY <2>1, StepInRange DEF StepOf
    <3>2. t.at < HeadRevision
      BY <3>1 DEF HeadRevision
    <3> QED
      BY <1>1, <3>1, <3>2 DEF SchemasDuring
  <2>2. CASE t.way = "down"
    <3>1. t.at > 0 /\ StepOf(t) = Down[t.at]
      BY <2>2, StepInRange DEF StepOf
    <3> QED
      BY <1>1, <3>1 DEF SchemasDuring
  <2> QED
    BY <2>1, <2>2, MigratingFields
<1> QED
  BY <1>1, <1>2, <1>3, MigratingFields, FactsOfRevisions DEF NothingRaises

LEMMA AlteredOnItsWay ==
    ASSUME NEW t \in Migrating, NEW from \in Revisions, OnItsWay(t, from), t.at # t.to,
           StepOf(t).data = <<>> \/ t.done = Len(StepOf(t).data)
    PROVE  /\ DoAll(t.schema, StepOf(t).after) \in Schemas(NextOf(t))
           /\ Broken \notin DoAll(t.schema, StepOf(t).after)
<1>1. PICK s \in Schemas(t.at) : DoAll(t.schema, StepOf(t).after) = Altered(s, StepOf(t))
  <2>1. CASE StepOf(t).data = <<>>
    <3>1. t.done = -1
      BY <2>1, MigratingFields DEF OnItsWay
    <3> QED
      BY <2>1, <3>1 DEF OnItsWay, Altered, Prepared
  <2>2. CASE StepOf(t).data # <<>>
    <3>1. t.done >= 0
      BY <2>2, StatementsCount
    <3> QED
      BY <3>1 DEF OnItsWay, Altered
  <2> QED
    BY <2>1, <2>2
<1>2. Altered(s, StepOf(t)) \in Schemas(NextOf(t))
  <2>1. CASE t.way = "up"
    <3>1. t.at + 1 \in 1 .. HeadRevision
      BY <2>1, StepInRange
    <3>2. StepOf(t) = Up[t.at + 1] /\ NextOf(t) = t.at + 1
      BY <2>1 DEF StepOf, NextOf
    <3>3. t.at = (t.at + 1) - 1
      BY MigratingFields
    <3> QED
      BY <3>1, <3>2, <3>3, FactsOfRevisions DEF RevisionsMeet
  <2>2. CASE t.way = "down"
    <3>1. t.at \in 1 .. HeadRevision /\ StepOf(t) = Down[t.at] /\ NextOf(t) = t.at - 1
      BY <2>2, StepInRange DEF StepOf, NextOf
    <3> QED
      BY <3>1, FactsOfRevisions DEF RevisionsMeet
  <2> QED
    BY <2>1, <2>2, MigratingFields
<1>3. NextOf(t) \in Revisions
  BY StepInRange
<1> QED
  BY <1>1, <1>2, <1>3, FactsOfRevisions DEF NothingRaises, SchemasDuring

LEMMA LocksAreKnown ==
    ASSUME NEW t \in Migrating, NEW from \in Revisions, OnItsWay(t, from), t.at # t.to
    PROVE  LockedBy(StepOf(t).before) \subseteq KnownTables
           /\ LockedBy(StepOf(t).after) \subseteq KnownTables
<1>1. StepOf(t) \in {Up[n] : n \in 1 .. HeadRevision} \cup {Down[n] : n \in 1 .. HeadRevision}
  BY StepInRange, MigratingFields DEF StepOf
<1> QED
  BY <1>1 DEF KnownTables

-----------------------------------------------------------------------------
(***************************************************************************)
(* What the statements do to the rows.                                     *)
(***************************************************************************)
LEMMA RowsFields ==
    ASSUME NEW r \in RowsType
    PROVE  /\ r.job \in [JobIds -> {"none"} \cup Jobs] /\ r.proposal \in Proposals
           /\ r.link \in Values /\ r.hash \in Values
           /\ r.preference \in {"none", "daily", "opted_out"}
           /\ r.briefing \in {"none", "active", "paused"} /\ r.own \in {"none", "active"}
BY DEF RowsType

LEMMA WithoutKinds ==
    ASSUME NEW r \in RowsType, NEW gone
    PROVE  /\ Without(r, gone) \in RowsType
           /\ \A i \in JobIds :
                Without(r, gone).job[i] = IF r.job[i] \in gone THEN "none" ELSE r.job[i]
           /\ Without(r, gone).link = r.link
           /\ Without(r, gone).proposal = r.proposal
           /\ Without(r, gone).hash = r.hash
           /\ Without(r, gone).briefing = r.briefing
           /\ Without(r, gone).own = r.own
<1> DEFINE job == [i \in JobIds |-> IF r.job[i] \in gone THEN "none" ELSE r.job[i]]
<1>1. Without(r, gone) = [job |-> job, link |-> r.link, proposal |-> r.proposal,
                          hash |-> r.hash, preference |-> r.preference,
                          briefing |-> r.briefing, own |-> r.own]
  BY DEF Without, RowsType
<1>2. job \in [JobIds -> {"none"} \cup Jobs]
  BY RowsFields
<1>3. \A i \in JobIds : job[i] = IF r.job[i] \in gone THEN "none" ELSE r.job[i]
  OBVIOUS
<1> HIDE DEF job
<1>4. Without(r, gone) \in RowsType
  BY <1>1, <1>2, RowsFields DEF RowsType
<1> QED
  BY <1>1, <1>3, <1>4

Statements == {"seed_briefing", "no_turns", "no_knocks", "no_briefing_wake_ups", "no_briefing",
               "concluded_are_claimed", "no_wake_ups", "links_are_google", "payloads_are_hashed"}

LEMMA StatementsExecute ==
    ASSUME NEW r \in RowsType, NEW d \in Statements
    PROVE  /\ Execute(d, r) \in RowsType
           /\ \A i \in JobIds : Execute(d, r).job[i] \in {r.job[i], "none"}
           /\ d = "no_turns" => NoJobOf(Execute(d, r), {"agent_turn"})
           /\ d = "no_knocks" => NoJobOf(Execute(d, r), Knocks)
           /\ d = "no_wake_ups" => NoJobOf(Execute(d, r), WakeUps)
           /\ d = "no_briefing_wake_ups" =>
                r.briefing = "none" \/ NoJobOf(Execute(d, r), {"briefing_wake_up"})
           /\ Execute(d, r).proposal = IF d = "concluded_are_claimed" /\ r.proposal = "executed"
                                       THEN "claimed" ELSE r.proposal
           /\ Execute(d, r).link = IF d = "links_are_google" /\ r.link = "unset"
                                   THEN "set" ELSE r.link
           /\ Execute(d, r).hash = IF d = "payloads_are_hashed" /\ r.hash = "unset"
                                   THEN "set" ELSE r.hash
           /\ d = "seed_briefing" => Execute(d, r).briefing # "none"
           /\ d \notin {"seed_briefing", "no_briefing"} => Execute(d, r).briefing = r.briefing
           /\ Execute(d, r).own = r.own
<1> DEFINE E == Execute(d, r)
<1>1. CASE d = "seed_briefing"
  <2> DEFINE briefing == IF r.briefing # "none" THEN r.briefing
                         ELSE IF r.preference = "opted_out" THEN "paused" ELSE "active"
  <2>1. E = [job |-> r.job, link |-> r.link, proposal |-> r.proposal, hash |-> r.hash,
             preference |-> r.preference, briefing |-> briefing, own |-> r.own]
    BY <1>1 DEF Execute, RowsType
  <2>2. briefing \in {"active", "paused"}
    BY RowsFields
  <2> HIDE DEF briefing
  <2>3. E \in RowsType
    BY <2>1, <2>2, RowsFields DEF RowsType
  <2> QED
    BY <1>1, <2>1, <2>2, <2>3
<1>2. CASE d = "no_turns"
  <2>1. E = Without(r, {"agent_turn"})
    BY <1>2 DEF Execute
  <2> QED
    BY <1>2, <2>1, WithoutKinds DEF NoJobOf
<1>3. CASE d = "no_knocks"
  <2>1. E = Without(r, Knocks)
    BY <1>3 DEF Execute
  <2> QED
    BY <1>3, <2>1, WithoutKinds DEF NoJobOf, Knocks
<1>4. CASE d = "no_wake_ups"
  <2>1. E = Without(r, WakeUps)
    BY <1>4 DEF Execute
  <2> QED
    BY <1>4, <2>1, WithoutKinds DEF NoJobOf, WakeUps
<1>5. CASE d = "no_briefing_wake_ups"
  <2>1. E = IF r.briefing = "none" THEN r ELSE Without(r, {"briefing_wake_up"})
    BY <1>5 DEF Execute
  <2> QED
    BY <1>5, <2>1, WithoutKinds DEF NoJobOf
<1>6. CASE d = "no_briefing"
  <2>1. E = [job |-> r.job, link |-> r.link, proposal |-> r.proposal, hash |-> r.hash,
             preference |-> r.preference, briefing |-> "none", own |-> r.own]
    BY <1>6 DEF Execute, RowsType
  <2>2. E \in RowsType
    BY <2>1, RowsFields DEF RowsType
  <2> QED
    BY <1>6, <2>1, <2>2
<1>7. CASE d = "concluded_are_claimed"
  <2> DEFINE proposal == IF r.proposal = "executed" THEN "claimed" ELSE r.proposal
  <2>1. E = [job |-> r.job, link |-> r.link, proposal |-> proposal, hash |-> r.hash,
             preference |-> r.preference, briefing |-> r.briefing, own |-> r.own]
    BY <1>7 DEF Execute, RowsType
  <2>2. proposal \in Proposals
    BY RowsFields DEF Proposals
  <2>3. proposal = IF d = "concluded_are_claimed" /\ r.proposal = "executed"
                   THEN "claimed" ELSE r.proposal
    BY <1>7
  <2> HIDE DEF proposal
  <2>4. E \in RowsType
    BY <2>1, <2>2, RowsFields DEF RowsType
  <2> QED
    BY <1>7, <2>1, <2>3, <2>4
<1>8. CASE d = "links_are_google"
  <2> DEFINE link == IF r.link = "unset" THEN "set" ELSE r.link
  <2>1. E = [job |-> r.job, link |-> link, proposal |-> r.proposal, hash |-> r.hash,
             preference |-> r.preference, briefing |-> r.briefing, own |-> r.own]
    BY <1>8 DEF Execute, RowsType
  <2>2. link \in Values
    BY RowsFields DEF Values
  <2>3. link = IF d = "links_are_google" /\ r.link = "unset" THEN "set" ELSE r.link
    BY <1>8
  <2> HIDE DEF link
  <2>4. E \in RowsType
    BY <2>1, <2>2, RowsFields DEF RowsType
  <2> QED
    BY <1>8, <2>1, <2>3, <2>4
<1>9. CASE d = "payloads_are_hashed"
  <2> DEFINE hash == IF r.hash = "unset" THEN "set" ELSE r.hash
  <2>1. E = [job |-> r.job, link |-> r.link, proposal |-> r.proposal, hash |-> hash,
             preference |-> r.preference, briefing |-> r.briefing, own |-> r.own]
    BY <1>9 DEF Execute, RowsType
  <2>2. hash \in Values
    BY RowsFields DEF Values
  <2>3. hash = IF d = "payloads_are_hashed" /\ r.hash = "unset" THEN "set" ELSE r.hash
    BY <1>9
  <2> HIDE DEF hash
  <2>4. E \in RowsType
    BY <2>1, <2>2, RowsFields DEF RowsType
  <2> QED
    BY <1>9, <2>1, <2>3, <2>4
<1> QED
  BY <1>1, <1>2, <1>3, <1>4, <1>5, <1>6, <1>7, <1>8, <1>9 DEF Statements

-----------------------------------------------------------------------------
(***************************************************************************)
(* What each action does, as long as the schema is accounted for.          *)
(***************************************************************************)
SchemaInv ==
    /\ MigrationTypeOK
    /\ schema \in Schemas(revision)
    /\ tx # Idle => OnItsWay(tx, revision)

SameStep(t, u) ==
    /\ u.way = t.way /\ u.to = t.to /\ u.at = t.at /\ u.done = t.done
    /\ u.schema = t.schema /\ u.locked = t.locked

LEMMA KnownAll ==
    ASSUME NEW n \in Revisions
    PROVE  /\ SchemasDuring(n) \subseteq KnownSchemas
           /\ Schemas(n) \subseteq SchemasDuring(n)
BY DEF KnownSchemas, SchemasDuring

LEMMA UnderWay ==
    ASSUME SchemaInv, tx.way # "none"
    PROVE  /\ tx # Idle /\ tx \in Migrating /\ OnItsWay(tx, revision)
           /\ revision \in Revisions /\ rows \in RowsType
           /\ Migration = StepOf(tx) /\ Following = NextOf(tx)
BY DEF SchemaInv, MigrationTypeOK, Idle, Migration, StepOf, Following, NextOf

LEMMA NotIdle ==
    ASSUME SchemaInv, tx # Idle
    PROVE  tx.way # "none" /\ tx \in Migrating /\ OnItsWay(tx, revision)
BY MigratingFields DEF SchemaInv, MigrationTypeOK

LEMMA Begins ==
    ASSUME SchemaInv, NEW way \in {"up", "down"}, NEW to \in Stops, BeginMigration(way, to)
    PROVE  /\ tx' \in Migrating
           /\ tx'.way = way /\ tx'.to = to /\ tx'.at = revision /\ tx'.done = -1
           /\ tx'.schema = schema /\ tx'.rows = rows /\ ~tx'.late
           /\ OnItsWay(tx', revision')
           /\ UNCHANGED <<revision, schema, rows, pgcrypto, release, late, failure>>
<1>1. /\ tx' = [way |-> way, to |-> to, at |-> revision, done |-> -1,
                schema |-> schema, rows |-> rows, locked |-> {}, late |-> FALSE]
      /\ IF way = "up" THEN to > revision ELSE to < revision
      /\ UNCHANGED <<revision, schema, rows, pgcrypto, release, late, failure>>
  BY DEF BeginMigration
<1>2. revision \in Revisions /\ rows \in RowsType /\ schema \in Schemas(revision)
  BY DEF SchemaInv, MigrationTypeOK
<1>3. revision \in 0 .. 18 /\ to \in 0 .. 18 /\ to \in Revisions
  BY <1>2, StopsAssumption DEF Revisions, HeadRevision
<1>4. schema \in KnownSchemas
  BY <1>2, KnownAll
<1>5. tx' \in Migrating
  BY <1>1, <1>2, <1>3, <1>4 DEF Migrating
<1>6. OnItsWay(tx', revision')
  BY <1>1, <1>2, <1>3 DEF OnItsWay
<1> QED
  BY <1>1, <1>5, <1>6

PreparedRows(t) == Under(Prepared(t.schema, StepOf(t)), t.rows)
AlteredRows(t) == Under(DoAll(t.schema, StepOf(t).after), t.rows)
Rolled(t, r) ==
    /\ tx' = Idle
    /\ failure' = [way |-> t.way, at |-> t.at, late |-> t.late,
                   knocks |-> \E i \in JobIds : r.job[i] \in Knocks]

LEMMA Prepares ==
    ASSUME SchemaInv, Prepare
    PROVE  /\ tx.way # "none" /\ tx.at # tx.to /\ tx.done = -1 /\ StepOf(tx).data # <<>>
           /\ Prepared(tx.schema, StepOf(tx)) \in SchemasDuring(tx.at)
           /\ PreparedRows(tx) \in RowsType
           /\ \/ ~FitsAt(tx.at, PreparedRows(tx)) /\ Rolled(tx, rows)
              \/ /\ FitsAt(tx.at, PreparedRows(tx))
                 /\ tx' \in Migrating
                 /\ tx'.way = tx.way /\ tx'.to = tx.to /\ tx'.at = tx.at /\ tx'.done = 0
                 /\ tx'.schema = Prepared(tx.schema, StepOf(tx))
                 /\ tx'.rows = PreparedRows(tx)
                 /\ tx'.locked = tx.locked \cup LockedBy(StepOf(tx).before)
                 /\ tx'.late = tx.late
                 /\ UNCHANGED failure
           /\ UNCHANGED <<revision, schema, rows, pgcrypto, release, late>>
<1> DEFINE s == DoAll(tx.schema, StepOf(tx).before)
           u == Under(s, tx.rows)
           locks == tx.locked \cup LockedBy(StepOf(tx).before)
           next == [tx EXCEPT !.done = 0, !.locked = locks]
<1>1. /\ tx.way # "none" /\ tx.at # tx.to /\ tx.done = -1
      /\ UNCHANGED <<revision, schema, rows, pgcrypto, release, late>>
  BY DEF Prepare
<1>2. tx \in Migrating /\ OnItsWay(tx, revision) /\ revision \in Revisions
      /\ Migration = StepOf(tx)
  BY <1>1, UnderWay
<1>3. /\ StepOf(tx).data # <<>>
      /\ IF Broken \in s \/ ~Fits(s, u)
         THEN Rolled(tx, rows)
         ELSE tx' = [next EXCEPT !.schema = s, !.rows = u] /\ UNCHANGED failure
  BY <1>2 DEF Prepare, Continue, Roll, Rolled
<1>4. /\ s = Prepared(tx.schema, StepOf(tx))
      /\ s \in SchemasDuring(tx.at)
      /\ Broken \notin s
  BY <1>1, <1>2, <1>3, PreparedOnItsWay
<1>5. tx.at \in Revisions /\ tx.rows \in RowsType
  BY <1>2, MigratingFields
<1> HIDE DEF s
<1>6. u \in RowsType
  BY <1>4, <1>5, UnderRevision
<1>7. u = PreparedRows(tx)
  BY <1>4 DEF PreparedRows
<1> HIDE DEF u
<1>8. Fits(s, u) <=> FitsAt(tx.at, u)
  BY <1>4, <1>5, <1>6, RowsFit
<1>9. locks \in SUBSET KnownTables
  BY <1>1, <1>2, LocksAreKnown, MigratingFields
<1> HIDE DEF locks
<1>10. s \in KnownSchemas
  BY <1>4, <1>5, KnownAll
<1>11. ASSUME tx' = [next EXCEPT !.schema = s, !.rows = u]
       PROVE  /\ tx' \in Migrating
              /\ tx'.way = tx.way /\ tx'.to = tx.to /\ tx'.at = tx.at /\ tx'.done = 0
              /\ tx'.schema = s /\ tx'.rows = u /\ tx'.locked = locks /\ tx'.late = tx.late
  <2>1. tx' = [way |-> tx.way, to |-> tx.to, at |-> tx.at, done |-> 0, schema |-> s,
               rows |-> u, locked |-> locks, late |-> tx.late]
    BY <1>2, <1>11 DEF Migrating
  <2> QED
    BY <1>2, <1>6, <1>9, <1>10, <2>1, MigratingFields DEF Migrating
<1>12. CASE Fits(s, u)
  BY <1>1, <1>3, <1>4, <1>6, <1>7, <1>8, <1>11, <1>12 DEF locks
<1>13. CASE ~Fits(s, u)
  BY <1>1, <1>3, <1>4, <1>6, <1>7, <1>8, <1>13
<1> QED
  BY <1>12, <1>13

LEMMA Alters ==
    ASSUME SchemaInv, Alter
    PROVE  /\ tx.way # "none" /\ tx.at # tx.to
           /\ StepOf(tx).data = <<>> \/ tx.done = Len(StepOf(tx).data)
           /\ DoAll(tx.schema, StepOf(tx).after) \in Schemas(NextOf(tx))
           /\ NextOf(tx) \in Revisions
           /\ AlteredRows(tx) \in RowsType
           /\ \/ ~FitsAt(NextOf(tx), AlteredRows(tx)) /\ Rolled(tx, rows)
              \/ /\ FitsAt(NextOf(tx), AlteredRows(tx))
                 /\ tx' \in Migrating
                 /\ tx'.way = tx.way /\ tx'.to = tx.to /\ tx'.at = NextOf(tx) /\ tx'.done = -1
                 /\ tx'.schema = DoAll(tx.schema, StepOf(tx).after)
                 /\ tx'.rows = AlteredRows(tx)
                 /\ tx'.locked = tx.locked \cup LockedBy(StepOf(tx).after)
                 /\ tx'.late = tx.late
                 /\ UNCHANGED failure
           /\ UNCHANGED <<revision, schema, rows, pgcrypto, release, late>>
<1> DEFINE s == DoAll(tx.schema, StepOf(tx).after)
           u == Under(s, tx.rows)
           locks == tx.locked \cup LockedBy(StepOf(tx).after)
           n == NextOf(tx)
           next == [tx EXCEPT !.at = n, !.done = -1, !.locked = locks]
<1>1. /\ tx.way # "none" /\ tx.at # tx.to
      /\ UNCHANGED <<revision, schema, rows, pgcrypto, release, late>>
  BY DEF Alter
<1>2. tx \in Migrating /\ OnItsWay(tx, revision) /\ revision \in Revisions
      /\ Migration = StepOf(tx) /\ Following = n
  BY <1>1, UnderWay
<1>3. /\ StepOf(tx).data = <<>> \/ tx.done = Len(StepOf(tx).data)
      /\ IF Broken \in s \/ ~Fits(s, u)
         THEN Rolled(tx, rows)
         ELSE tx' = [next EXCEPT !.schema = s, !.rows = u] /\ UNCHANGED failure
  BY <1>2 DEF Alter, Continue, Roll, Rolled
<1>4. n \in Revisions /\ s \in Schemas(n) /\ Broken \notin s
  BY <1>1, <1>2, <1>3, AlteredOnItsWay, StepInRange
<1>5. tx.rows \in RowsType
  BY <1>2, MigratingFields
<1>6. s \in SchemasDuring(n) /\ s \in KnownSchemas
  BY <1>4, KnownAll
<1>7. u = AlteredRows(tx)
  BY DEF AlteredRows
<1>8. locks \in SUBSET KnownTables
  BY <1>1, <1>2, LocksAreKnown, MigratingFields
<1> HIDE DEF s, locks, n
<1>9. u \in RowsType
  BY <1>4, <1>5, <1>6, UnderRevision
<1> HIDE DEF u
<1>10. Fits(s, u) <=> FitsAt(n, u)
  BY <1>4, <1>6, <1>9, RowsFit
<1>11. ASSUME tx' = [next EXCEPT !.schema = s, !.rows = u]
       PROVE  /\ tx' \in Migrating
              /\ tx'.way = tx.way /\ tx'.to = tx.to /\ tx'.at = n /\ tx'.done = -1
              /\ tx'.schema = s /\ tx'.rows = u /\ tx'.locked = locks /\ tx'.late = tx.late
  <2>1. tx' = [way |-> tx.way, to |-> tx.to, at |-> n, done |-> -1, schema |-> s,
               rows |-> u, locked |-> locks, late |-> tx.late]
    BY <1>2, <1>11 DEF Migrating
  <2> QED
    BY <1>2, <1>4, <1>6, <1>8, <1>9, <2>1, MigratingFields DEF Migrating
<1>12. CASE Fits(s, u)
  BY <1>1, <1>3, <1>4, <1>7, <1>9, <1>10, <1>11, <1>12 DEF s, locks, n
<1>13. CASE ~Fits(s, u)
  BY <1>1, <1>3, <1>4, <1>7, <1>9, <1>10, <1>13 DEF s, n
<1> QED
  BY <1>12, <1>13

LEMMA Executes ==
    ASSUME SchemaInv, ExecuteNext
    PROVE  /\ tx.way # "none" /\ tx.at # tx.to
           /\ StepOf(tx).data # <<>>
           /\ tx.done + 1 <= Len(StepOf(tx).data) /\ tx.done \in 0 .. 2
           /\ \/ /\ tx.way = "up" /\ tx.at = 13 /\ ~pgcrypto
                 /\ Rolled(tx, rows)
              \/ /\ tx' \in Migrating
                 /\ tx'.way = tx.way /\ tx'.to = tx.to /\ tx'.at = tx.at
                 /\ tx'.schema = tx.schema /\ tx'.locked = tx.locked /\ tx'.late = tx.late
                 /\ tx'.done = tx.done + 1
                 /\ \E d \in Statements : tx'.rows = Execute(d, tx.rows) /\ NextIs(tx, d)
                 /\ UNCHANGED failure
           /\ UNCHANGED <<revision, schema, rows, pgcrypto, release, late>>
<1> DEFINE d == StepOf(tx).data[tx.done + 1]
<1>1. /\ tx.way # "none" /\ tx.at # tx.to
      /\ UNCHANGED <<revision, schema, rows, pgcrypto, release, late>>
  BY DEF ExecuteNext
<1>2. tx \in Migrating /\ OnItsWay(tx, revision) /\ revision \in Revisions
      /\ Migration = StepOf(tx)
  BY <1>1, UnderWay
<1>3. /\ tx.done \in 0 .. Len(StepOf(tx).data) - 1
      /\ \/ /\ ~CanExecute(d) /\ Rolled(tx, rows)
         \/ /\ tx' = [tx EXCEPT !.rows = Execute(d, tx.rows), !.done = tx.done + 1]
            /\ UNCHANGED failure
  BY <1>2 DEF ExecuteNext, Roll, Rolled
<1>4. tx.done \in -1 .. 3
  BY <1>2, MigratingFields
<1>5. tx.done >= 0
  BY <1>3, <1>4
<1>6. StepOf(tx).data # <<>>
  BY <1>2, <1>5 DEF OnItsWay
<1>7. Len(StepOf(tx).data) = IF tx.way = "up" /\ tx.at = 17 THEN 3 ELSE 1
  BY <1>1, <1>2, <1>6, StatementsCount
<1>8. tx.done \in 0 .. 2 /\ tx.done + 1 <= Len(StepOf(tx).data)
  BY <1>3, <1>4, <1>7
<1>9. NextIs(tx, d)
  BY <1>1, <1>2, <1>3, NextStatement
<1> HIDE DEF d
<1>10. d \in Statements
  BY <1>9 DEF NextIs, Statements
<1>11. CASE ~CanExecute(d) /\ Rolled(tx, rows)
  <2>1. d = "payloads_are_hashed" /\ ~pgcrypto
    BY <1>11 DEF CanExecute
  <2>2. tx.way = "up" /\ tx.at = 13
    BY <1>9, <2>1 DEF NextIs
  <2> QED
    BY <1>1, <1>6, <1>8, <1>11, <2>1, <2>2
<1>12. CASE /\ tx' = [tx EXCEPT !.rows = Execute(d, tx.rows), !.done = tx.done + 1]
            /\ UNCHANGED failure
  <2>1. Execute(d, tx.rows) \in RowsType
    BY <1>2, <1>10, MigratingFields, StatementsExecute
  <2>2. tx' = [way |-> tx.way, to |-> tx.to, at |-> tx.at, done |-> tx.done + 1,
               schema |-> tx.schema, rows |-> Execute(d, tx.rows), locked |-> tx.locked,
               late |-> tx.late]
    BY <1>2, <1>12 DEF Migrating
  <2>3. tx.done + 1 \in -1 .. 3
    BY <1>8
  <2>4. tx' \in Migrating
    BY <1>2, <2>1, <2>2, <2>3, MigratingFields DEF Migrating
  <2>5. \E e \in Statements : tx'.rows = Execute(e, tx.rows) /\ NextIs(tx, e)
    BY <1>9, <1>10, <2>2
  <2> QED
    BY <1>1, <1>6, <1>8, <1>12, <2>2, <2>4, <2>5
<1> QED
  BY <1>3, <1>11, <1>12

LEMMA Commits ==
    ASSUME SchemaInv, Commit
    PROVE  /\ tx.way # "none" /\ tx.at = tx.to /\ tx.done = -1
           /\ revision' = tx.at /\ schema' = tx.schema /\ rows' = tx.rows /\ tx' = Idle
           /\ schema' \in Schemas(revision')
           /\ UNCHANGED <<pgcrypto, release, late, failure>>
<1>1. /\ tx.way # "none" /\ tx.at = tx.to
      /\ revision' = tx.at /\ schema' = tx.schema /\ rows' = tx.rows /\ tx' = Idle
      /\ UNCHANGED <<pgcrypto, release, late, failure>>
  BY DEF Commit
<1>2. tx \in Migrating /\ OnItsWay(tx, revision)
  BY <1>1, UnderWay
<1>3. tx.done = -1
  BY <1>1, <1>2, MigratingFields DEF OnItsWay
<1> QED
  BY <1>1, <1>2, <1>3 DEF OnItsWay

\* A release writes a row of a table that the migration has not locked.
LEMMA Writes ==
    ASSUME SchemaInv, NEW r \in RowsType, NEW seen \in RowsType, Write(r, seen)
    PROVE  /\ rows' = r
           /\ tx = Idle => tx' = Idle
           /\ tx # Idle =>
                tx' \in Migrating /\ SameStep(tx, tx') /\ tx'.rows = seen /\ tx'.late
           /\ UNCHANGED <<revision, schema, pgcrypto, release, failure>>
<1>1. /\ rows' = r
      /\ tx' = IF tx = Idle THEN tx ELSE [tx EXCEPT !.rows = seen, !.late = TRUE]
      /\ UNCHANGED <<revision, schema, pgcrypto, release, failure>>
  BY DEF Write
<1>2. ASSUME tx # Idle
      PROVE  tx' \in Migrating /\ SameStep(tx, tx') /\ tx'.rows = seen /\ tx'.late
  <2>1. tx \in Migrating
    BY <1>2, NotIdle
  <2>2. tx' = [way |-> tx.way, to |-> tx.to, at |-> tx.at, done |-> tx.done,
               schema |-> tx.schema, rows |-> seen, locked |-> tx.locked, late |-> TRUE]
    BY <1>1, <1>2, <2>1 DEF Migrating
  <2> QED
    BY <2>1, <2>2, MigratingFields DEF Migrating, SameStep
<1> QED
  BY <1>1, <1>2

\* What each write leaves alone.
LEMMA PutJob ==
    ASSUME NEW r \in RowsType, NEW i \in JobIds, NEW j \in Jobs
    PROVE  LET u == [r EXCEPT !.job[i] = j]
           IN  /\ u \in RowsType /\ u.job = [r.job EXCEPT ![i] = j]
               /\ u.link = r.link /\ u.hash = r.hash
               /\ u.proposal = r.proposal /\ u.briefing = r.briefing /\ u.own = r.own
BY DEF RowsType

LEMMA PutLink ==
    ASSUME NEW r \in RowsType, NEW v \in Values
    PROVE  LET u == [r EXCEPT !.link = v]
           IN  /\ u \in RowsType /\ u.job = r.job
               /\ u.link = v /\ u.hash = r.hash
               /\ u.proposal = r.proposal /\ u.briefing = r.briefing /\ u.own = r.own
BY DEF RowsType

LEMMA PutProposal ==
    ASSUME NEW r \in RowsType, NEW p \in Proposals, NEW v \in Values
    PROVE  LET u == [r EXCEPT !.proposal = p, !.hash = v]
           IN  /\ u \in RowsType /\ u.job = r.job
               /\ u.link = r.link /\ u.hash = v
               /\ u.proposal = p /\ u.briefing = r.briefing /\ u.own = r.own
BY DEF RowsType

LEMMA PutStatus ==
    ASSUME NEW r \in RowsType, NEW p \in Proposals
    PROVE  LET u == [r EXCEPT !.proposal = p]
           IN  /\ u \in RowsType /\ u.job = r.job
               /\ u.link = r.link /\ u.hash = r.hash
               /\ u.proposal = p /\ u.briefing = r.briefing /\ u.own = r.own
BY DEF RowsType

LEMMA PutPreference ==
    ASSUME NEW r \in RowsType, NEW p \in {"daily", "opted_out"}
    PROVE  LET u == [r EXCEPT !.preference = p]
           IN  /\ u \in RowsType /\ u.job = r.job
               /\ u.link = r.link /\ u.hash = r.hash
               /\ u.proposal = r.proposal /\ u.briefing = r.briefing /\ u.own = r.own
BY DEF RowsType

LEMMA PutOwn ==
    ASSUME NEW r \in RowsType
    PROVE  LET u == [r EXCEPT !.own = "active"]
           IN  /\ u \in RowsType /\ u.job = r.job
               /\ u.link = r.link /\ u.hash = r.hash
               /\ u.proposal = r.proposal /\ u.briefing = r.briefing /\ u.own = "active"
BY DEF RowsType

LEMMA Seen ==
    ASSUME SchemaInv
    PROVE  /\ rows \in RowsType /\ SeenRows \in RowsType
           /\ tx = Idle => SeenRows = rows
           /\ tx # Idle => SeenRows = tx.rows
BY NotIdle, MigratingFields DEF SchemaInv, MigrationTypeOK, SeenRows

LEMMA Enqueues ==
    ASSUME SchemaInv, NEW i \in JobIds, NEW j \in Jobs, EnqueueJob(i, j)
    PROVE  /\ Write([rows EXCEPT !.job[i] = j], [SeenRows EXCEPT !.job[i] = j])
           /\ [rows EXCEPT !.job[i] = j] \in RowsType
           /\ [SeenRows EXCEPT !.job[i] = j] \in RowsType
           /\ JobFits(schema, j)
           /\ rows.job[i] = "none"
           /\ tx # Idle => "job" \notin tx.locked
           /\ j = "briefing_wake_up" => rows.briefing = "active" /\ SeenRows.briefing = "active"
           /\ j = "own_wake_up" => rows.own = "active"
           /\ late' = IF tx = Idle THEN late \ {i} ELSE late \cup {i}
<1>1. /\ [rows EXCEPT !.job[i] = j] \in RowsType
      /\ [SeenRows EXCEPT !.job[i] = j] \in RowsType
  BY Seen, PutJob
<1> QED
  BY <1>1 DEF EnqueueJob, MayWrite

LEMMA Mints ==
    ASSUME SchemaInv, MintLink
    PROVE  \E v \in Values :
           /\ Write([rows EXCEPT !.link = v], [SeenRows EXCEPT !.link = v])
           /\ [rows EXCEPT !.link = v] \in RowsType
           /\ [SeenRows EXCEPT !.link = v] \in RowsType
           /\ "provider" \in Names(schema, "connect_link") => v = "set"
           /\ tx # Idle => "connect_link" \notin tx.locked
           /\ UNCHANGED late
<1> DEFINE v == ValueOf("connect_link", "provider")
<1>1. /\ Write([rows EXCEPT !.link = v], [SeenRows EXCEPT !.link = v])
      /\ "provider" \in Names(schema, "connect_link") => v = "set"
      /\ tx # Idle => "connect_link" \notin tx.locked
      /\ UNCHANGED late
  BY DEF MintLink, MayWrite
<1>2. v \in Values
  BY DEF ValueOf, Values
<1> HIDE DEF v
<1>3. /\ [rows EXCEPT !.link = v] \in RowsType
      /\ [SeenRows EXCEPT !.link = v] \in RowsType
  BY <1>2, Seen, PutLink
<1> QED
  BY <1>1, <1>2, <1>3

LEMMA Stages ==
    ASSUME SchemaInv, StageProposal
    PROVE  \E new \in {"pending", "unmarked"}, v \in Values :
           /\ Write([rows EXCEPT !.proposal = new, !.hash = v],
                    [SeenRows EXCEPT !.proposal = new, !.hash = v])
           /\ [rows EXCEPT !.proposal = new, !.hash = v] \in RowsType
           /\ [SeenRows EXCEPT !.proposal = new, !.hash = v] \in RowsType
           /\ new = "pending" <=> "status" \in Names(schema, "pending_action")
           /\ "payload_hash" \in Names(schema, "pending_action") => v = "set"
           /\ rows.proposal = "none"
           /\ tx # Idle => "pending_action" \notin tx.locked
           /\ UNCHANGED late
<1> DEFINE new == IF "status" \in Names(schema, "pending_action") THEN "pending" ELSE "unmarked"
           v == ValueOf("pending_action", "payload_hash")
<1>1. /\ Write([rows EXCEPT !.proposal = new, !.hash = v],
               [SeenRows EXCEPT !.proposal = new, !.hash = v])
      /\ "payload_hash" \in Names(schema, "pending_action") => v = "set"
      /\ rows.proposal = "none"
      /\ tx # Idle => "pending_action" \notin tx.locked
      /\ UNCHANGED late
  BY DEF StageProposal, MayWrite
<1>2. /\ new \in {"pending", "unmarked"}
      /\ new = "pending" <=> "status" \in Names(schema, "pending_action")
  OBVIOUS
<1>3. v \in Values
  BY DEF ValueOf, Values
<1> HIDE DEF new, v
<1>4. new \in Proposals
  BY <1>2 DEF Proposals
<1>5. /\ [rows EXCEPT !.proposal = new, !.hash = v] \in RowsType
      /\ [SeenRows EXCEPT !.proposal = new, !.hash = v] \in RowsType
  BY <1>3, <1>4, Seen, PutProposal
<1> QED
  BY <1>1, <1>2, <1>3, <1>5

LEMMA Sets ==
    ASSUME SchemaInv, NEW from \in Proposals, NEW to \in Proposals, SetProposal(from, to)
    PROVE  /\ Write([rows EXCEPT !.proposal = to], [SeenRows EXCEPT !.proposal = to])
           /\ [rows EXCEPT !.proposal = to] \in RowsType
           /\ [SeenRows EXCEPT !.proposal = to] \in RowsType
           /\ to \in Allowed(schema, "ck_pending_action_status")
           /\ rows.proposal = from /\ SeenRows.proposal = from
           /\ tx # Idle => "pending_action" \notin tx.locked
           /\ UNCHANGED late
<1>1. /\ [rows EXCEPT !.proposal = to] \in RowsType
      /\ [SeenRows EXCEPT !.proposal = to] \in RowsType
  BY Seen, PutStatus
<1> QED
  BY <1>1 DEF SetProposal, MayWrite

LEMMA Prefers ==
    ASSUME SchemaInv, NEW p \in {"daily", "opted_out"}, SetPreference(p)
    PROVE  /\ Write([rows EXCEPT !.preference = p], [SeenRows EXCEPT !.preference = p])
           /\ [rows EXCEPT !.preference = p] \in RowsType
           /\ [SeenRows EXCEPT !.preference = p] \in RowsType
           /\ UNCHANGED late
<1>1. /\ [rows EXCEPT !.preference = p] \in RowsType
      /\ [SeenRows EXCEPT !.preference = p] \in RowsType
  BY Seen, PutPreference
<1> QED
  BY <1>1 DEF SetPreference

LEMMA Creates ==
    ASSUME SchemaInv, CreateAutomation
    PROVE  /\ Write([rows EXCEPT !.own = "active"], [SeenRows EXCEPT !.own = "active"])
           /\ [rows EXCEPT !.own = "active"] \in RowsType
           /\ [SeenRows EXCEPT !.own = "active"] \in RowsType
           /\ UNCHANGED late
<1>1. /\ [rows EXCEPT !.own = "active"] \in RowsType
      /\ [SeenRows EXCEPT !.own = "active"] \in RowsType
  BY Seen, PutOwn
<1> QED
  BY <1>1 DEF CreateAutomation

-----------------------------------------------------------------------------
(***************************************************************************)
(* Every schema that a database can have is accounted for.                 *)
(***************************************************************************)
LEMMA SchemaInit == MigrationInit => SchemaInv
<1> SUFFICES ASSUME MigrationInit PROVE SchemaInv
  OBVIOUS
<1>1. revision \in Revisions /\ release \in Revisions
  BY StopsAssumption DEF MigrationInit, Revisions
<1>2. rows \in RowsType
  BY DEF MigrationInit, NoRows, RowsType, Proposals, Values
<1> QED
  BY <1>1, <1>2 DEF MigrationInit, SchemaInv, MigrationTypeOK, Schemas

LEMMA SchemaWrite ==
    ASSUME SchemaInv, NEW r \in RowsType, NEW seen \in RowsType, Write(r, seen),
           late' \subseteq JobIds, UNCHANGED release
    PROVE  SchemaInv'
<1>1. CASE tx = Idle
  BY <1>1, Writes DEF SchemaInv, MigrationTypeOK
<1>2. CASE tx # Idle
  <2>1. /\ tx \in Migrating /\ OnItsWay(tx, revision)
        /\ tx' \in Migrating /\ SameStep(tx, tx') /\ UNCHANGED <<revision, schema, release>>
        /\ rows' \in RowsType
    BY <1>2, NotIdle, Writes
  <2>2. StepOf(tx') = StepOf(tx)
    BY <2>1 DEF SameStep, StepOf
  <2>3. OnItsWay(tx', revision)
    BY <2>1, <2>2 DEF SameStep, OnItsWay
  <2> QED
    BY <2>1, <2>3 DEF SchemaInv, MigrationTypeOK
<1> QED
  BY <1>1, <1>2

LEMMA SchemaStep == SchemaInv /\ [MigrationNext]_migrationVars => SchemaInv'
<1> SUFFICES ASSUME SchemaInv, [MigrationNext]_migrationVars PROVE SchemaInv'
  OBVIOUS
<1>0. /\ revision \in Revisions /\ release \in Revisions /\ rows \in RowsType
      /\ late \subseteq JobIds /\ schema \in Schemas(revision)
  BY DEF SchemaInv, MigrationTypeOK
<1>1. ASSUME NEW way \in {"up", "down"}, NEW to \in Stops, BeginMigration(way, to)
      PROVE  SchemaInv'
  BY <1>0, <1>1, Begins DEF SchemaInv, MigrationTypeOK
<1>2. CASE Prepare
  <2>1. UNCHANGED <<revision, schema, rows, release, late>>
    BY <1>2, Prepares
  <2>2. CASE tx' = Idle
    BY <1>0, <2>1, <2>2 DEF SchemaInv, MigrationTypeOK
  <2>3. CASE tx' # Idle
    <3>1. /\ tx \in Migrating /\ OnItsWay(tx, revision) /\ tx.at # tx.to /\ tx.done = -1
          /\ StepOf(tx).data # <<>>
      BY <1>2, Prepares, UnderWay
    <3>2. /\ tx' \in Migrating
          /\ tx'.way = tx.way /\ tx'.to = tx.to /\ tx'.at = tx.at /\ tx'.done = 0
          /\ tx'.schema = Prepared(tx.schema, StepOf(tx))
      BY <1>2, <2>3, Prepares DEF Rolled
    <3>3. StepOf(tx') = StepOf(tx)
      BY <3>2 DEF StepOf
    <3>4. tx'.done <= Len(StepOf(tx').data)
      BY <1>0, <3>1, <3>2, <3>3, StatementsCount
    <3>5. \E s \in Schemas(tx'.at) : tx'.schema = Prepared(s, StepOf(tx'))
      BY <3>1, <3>2, <3>3 DEF OnItsWay
    <3>6. OnItsWay(tx', revision)
      BY <3>1, <3>2, <3>3, <3>4, <3>5 DEF OnItsWay
    <3> QED
      BY <1>0, <2>1, <3>2, <3>6 DEF SchemaInv, MigrationTypeOK
  <2> QED
    BY <2>2, <2>3
<1>3. CASE ExecuteNext
  <2>1. /\ tx \in Migrating /\ OnItsWay(tx, revision) /\ tx.at # tx.to
        /\ StepOf(tx).data # <<>> /\ tx.done \in 0 .. 2
        /\ UNCHANGED <<revision, schema, rows, release, late>>
    BY <1>3, Executes, UnderWay
  <2>2. CASE tx' = Idle
    BY <1>0, <2>1, <2>2 DEF SchemaInv, MigrationTypeOK
  <2>3. CASE tx' # Idle
    <3>1. /\ tx' \in Migrating
          /\ tx'.way = tx.way /\ tx'.to = tx.to /\ tx'.at = tx.at /\ tx'.done = tx.done + 1
          /\ tx'.schema = tx.schema /\ tx'.done <= Len(StepOf(tx).data)
      BY <1>3, <2>3, Executes DEF Rolled
    <3>2. StepOf(tx') = StepOf(tx)
      BY <3>1 DEF StepOf
    <3>3. \E s \in Schemas(tx.at) : tx.schema = Prepared(s, StepOf(tx))
      BY <2>1 DEF OnItsWay
    <3>4. OnItsWay(tx', revision)
      BY <2>1, <3>1, <3>2, <3>3 DEF OnItsWay
    <3> QED
      BY <1>0, <2>1, <3>1, <3>4 DEF SchemaInv, MigrationTypeOK
  <2> QED
    BY <2>2, <2>3
<1>4. CASE Alter
  <2>1. UNCHANGED <<revision, schema, rows, release, late>>
    BY <1>4, Alters
  <2>2. CASE tx' = Idle
    BY <1>0, <2>1, <2>2 DEF SchemaInv, MigrationTypeOK
  <2>3. CASE tx' # Idle
    <3>1. tx \in Migrating /\ OnItsWay(tx, revision) /\ tx.at # tx.to
      BY <1>4, Alters, UnderWay
    <3>2. /\ tx' \in Migrating
          /\ tx'.way = tx.way /\ tx'.to = tx.to /\ tx'.at = NextOf(tx) /\ tx'.done = -1
          /\ tx'.schema \in Schemas(NextOf(tx))
      BY <1>4, <2>3, Alters DEF Rolled
    <3>3. /\ tx.way = "up" => revision <= NextOf(tx) /\ NextOf(tx) <= tx.to
          /\ tx.way = "down" => tx.to <= NextOf(tx) /\ NextOf(tx) <= revision
      BY <1>0, <3>1, StepInRange
    <3>4. OnItsWay(tx', revision)
      BY <3>2, <3>3 DEF OnItsWay
    <3> QED
      BY <1>0, <2>1, <3>2, <3>4 DEF SchemaInv, MigrationTypeOK
  <2> QED
    BY <2>2, <2>3
<1>5. CASE Commit
  <2>1. /\ tx \in Migrating
        /\ revision' = tx.at /\ rows' = tx.rows /\ tx' = Idle /\ schema' \in Schemas(revision')
        /\ UNCHANGED <<release, late>>
    BY <1>5, Commits, UnderWay
  <2> QED
    BY <1>0, <2>1, MigratingFields DEF SchemaInv, MigrationTypeOK
<1>6. CASE Deploy
  BY <1>0, <1>6 DEF Deploy, SchemaInv, MigrationTypeOK
<1>7. ASSUME NEW i \in JobIds, NEW j \in Jobs, EnqueueJob(i, j)
      PROVE  SchemaInv'
  <2>1. late' \subseteq JobIds /\ UNCHANGED release
    BY <1>0, <1>7, Enqueues DEF Write
  <2> QED
    BY <1>7, <2>1, Enqueues, SchemaWrite
<1>8. CASE StageProposal
  <2>1. PICK new \in {"pending", "unmarked"}, v \in Values :
           /\ Write([rows EXCEPT !.proposal = new, !.hash = v],
                    [SeenRows EXCEPT !.proposal = new, !.hash = v])
           /\ [rows EXCEPT !.proposal = new, !.hash = v] \in RowsType
           /\ [SeenRows EXCEPT !.proposal = new, !.hash = v] \in RowsType
           /\ UNCHANGED late
    BY <1>8, Stages
  <2>2. late' \subseteq JobIds /\ UNCHANGED release
    BY <1>0, <2>1 DEF Write
  <2> QED
    BY <2>1, <2>2, SchemaWrite
<1>14. CASE MintLink
  <2>1. PICK v \in Values :
           /\ Write([rows EXCEPT !.link = v], [SeenRows EXCEPT !.link = v])
           /\ [rows EXCEPT !.link = v] \in RowsType
           /\ [SeenRows EXCEPT !.link = v] \in RowsType
           /\ UNCHANGED late
    BY <1>14, Mints
  <2>2. late' \subseteq JobIds /\ UNCHANGED release
    BY <1>0, <2>1 DEF Write
  <2> QED
    BY <2>1, <2>2, SchemaWrite
<1>9. ASSUME NEW from \in Proposals, NEW to \in Proposals, SetProposal(from, to)
      PROVE  SchemaInv'
  <2>1. late' \subseteq JobIds /\ UNCHANGED release
    BY <1>0, <1>9, Sets DEF Write
  <2> QED
    BY <1>9, <2>1, Sets, SchemaWrite
<1>10. ASSUME NEW p \in {"daily", "opted_out"}, SetPreference(p)
       PROVE  SchemaInv'
  <2>1. late' \subseteq JobIds /\ UNCHANGED release
    BY <1>0, <1>10, Prefers DEF Write
  <2> QED
    BY <1>10, <2>1, Prefers, SchemaWrite
<1>11. CASE CreateAutomation
  <2>1. late' \subseteq JobIds /\ UNCHANGED release
    BY <1>0, <1>11, Creates DEF Write
  <2> QED
    BY <1>11, <2>1, Creates, SchemaWrite
<1>12. CASE UNCHANGED migrationVars
  BY <1>12 DEF migrationVars, SchemaInv, MigrationTypeOK
<1>13. {"pending", "claimed", "executed"} \subseteq Proposals
  BY DEF Proposals
<1> QED
  BY <1>1, <1>2, <1>3, <1>4, <1>5, <1>6, <1>7, <1>8, <1>9, <1>10, <1>11, <1>12, <1>13, <1>14
  DEF MigrationNext

\* The variables keep their types, and the committed schema is always one that
\* its revision accounts for, however the database came there; so is that of a
\* migration between any two of its statements.
THEOREM SchemaAccounted == MigrationSpec => []SchemaInv
BY SchemaInit, SchemaStep, PTL DEF MigrationSpec

\* After any sequence of upgrades and downgrades, with or without failures, a
\* database at the newest revision has exactly the schema that the models of
\* src/app/database/models declare.
THEOREM HeadDeclared == MigrationSpec => []HeadIsDeclared
<1>1. SchemaInv => HeadIsDeclared
  BY FactsOfRevisions DEF SchemaInv, HeadIsDeclared, NewestIsDeclared
<1> QED
  BY <1>1, SchemaAccounted, PTL

-----------------------------------------------------------------------------
(***************************************************************************)
(* The rows fit the schema, on the way too.                                *)
(***************************************************************************)
RowsInv ==
    /\ FitsAt(revision, rows)
    /\ tx # Idle =>
         /\ LocksHold(tx, revision)
         /\ FitsAt(tx.at, tx.rows)
         /\ JobsRemain(tx, rows)
         /\ DoneSoFar(tx)
    /\ MigrationsGoThrough

LEMMA JobsAlike ==
    ASSUME NEW a \in Revisions, NEW b \in Revisions,
           \A n \in {3, 13, 15, 17, 18} : a < n <=> b < n,
           NEW j, JobAllowed(a, j)
    PROVE  JobAllowed(b, j)
<1>1. a \in 0 .. 18 /\ b \in 0 .. 18
  BY DEF Revisions, HeadRevision
<1>2. /\ a < 3 <=> b < 3
      /\ a < 13 <=> b < 13
      /\ a < 15 <=> b < 15
      /\ a < 17 <=> b < 17
      /\ a < 18 <=> b < 18
  OBVIOUS
<1> QED
  BY <1>1, <1>2 DEF JobAllowed

LEMMA ProposalsAlike ==
    ASSUME NEW a \in Revisions, NEW b \in Revisions,
           \A n \in {8, 9, 14} : a < n <=> b < n,
           NEW p, ProposalAllowed(a, p)
    PROVE  ProposalAllowed(b, p)
<1>1. a \in 0 .. 18 /\ b \in 0 .. 18
  BY DEF Revisions, HeadRevision
<1>2. /\ a < 9 <=> b < 9
      /\ a < 14 <=> b < 14
  OBVIOUS
<1> QED
  BY <1>1, <1>2 DEF ProposalAllowed

\* A table that goes takes its rows along, and a new column has a default that
\* its constraint allows.
LEMMA UnderFits ==
    ASSUME NEW n \in Revisions, NEW s \in SchemasDuring(n), NEW r \in RowsType,
           n >= 3 => \A i \in JobIds : JobAllowed(n, r.job[i]),
           n >= 9 => ProposalAllowed(n, r.proposal),
           FilledIn(n, r)
    PROVE  FitsAt(n, Under(s, r))
<1>1. n \in 0 .. 18
  BY DEF Revisions, HeadRevision
<1>2. \A i \in JobIds : JobAllowed(n, Under(s, r).job[i])
  <2>1. CASE n < 3
    BY <2>1, UnderRevision DEF JobAllowed
  <2>2. CASE n >= 3
    BY <2>2, UnderRevision
  <2> QED
    BY <1>1, <2>1, <2>2
<1>3. ProposalAllowed(n, Under(s, r).proposal)
  <2>1. CASE r.proposal = "none" \/ n < 8
    BY <2>1, UnderRevision DEF ProposalAllowed
  <2>2. CASE r.proposal # "none" /\ n = 8
    BY <2>2, UnderRevision DEF ProposalAllowed
  <2>3. CASE r.proposal # "none" /\ n >= 9
    BY <2>3, UnderRevision DEF ProposalAllowed
  <2> QED
    BY <1>1, <2>1, <2>2, <2>3
<1>4. FilledIn(n, Under(s, r))
  BY UnderRevision DEF FilledIn
<1> QED
  BY <1>2, <1>3, <1>4 DEF FitsAt

\* One revision allows what the one before it does, where no statement has
\* removed what it does not.
LEMMA UpAllows ==
    ASSUME NEW n \in Revisions, n < HeadRevision, NEW j, JobAllowed(n, j),
           ~(n = 16 /\ j = "agent_turn"), ~(n = 17 /\ j \in Knocks)
    PROVE  JobAllowed(n + 1, j)
BY DEF JobAllowed, Revisions, HeadRevision

LEMMA DownAllows ==
    ASSUME NEW n \in Revisions, n > 3, NEW j, JobAllowed(n, j),
           ~(n = 13 /\ j \in Knocks), ~(n = 15 /\ j \in WakeUps)
    PROVE  JobAllowed(n - 1, j)
<1>1. n \in 0 .. 18
  BY DEF Revisions, HeadRevision
<1>2. CASE j = "none"
  BY <1>2 DEF JobAllowed
<1>3. CASE j = "agent_turn" /\ n \in 3 .. 16
  BY <1>1, <1>3 DEF JobAllowed
<1>4. CASE j \in {"reminder_due", "integration_notify"} /\ n >= 3
  BY <1>1, <1>4 DEF JobAllowed
<1>5. CASE j \in Knocks /\ n \in 13 .. 17
  <2>1. n - 1 \in 13 .. 17
    BY <1>1, <1>5
  <2> QED
    BY <1>5, <2>1 DEF JobAllowed
<1>6. CASE j \in WakeUps /\ n >= 15
  <2>1. n - 1 >= 15
    BY <1>1, <1>6
  <2> QED
    BY <1>6, <2>1 DEF JobAllowed
<1> QED
  BY <1>2, <1>3, <1>4, <1>5, <1>6 DEF JobAllowed

LEMMA ProposalsMove ==
    ASSUME NEW n \in Revisions, NEW p, ProposalAllowed(n, p)
    PROVE  /\ ProposalAllowed(n + 1, p)
           /\ n > 9 /\ ~(n = 14 /\ p = "executed") => ProposalAllowed(n - 1, p)
BY DEF ProposalAllowed, Revisions, HeadRevision

\* The rows of a table that the migration has locked are not written.
KeepsLocked(t, r) ==
    /\ "connect_link" \in t.locked => r.link = t.rows.link
    /\ "pending_action" \in t.locked => r.hash = t.rows.hash
    /\ "job" \in t.locked => r.job = t.rows.job

LEMMA RowsInit == MigrationInit => RowsInv
BY DEF MigrationInit, RowsInv, FitsAt, FilledIn, JobAllowed, ProposalAllowed, NoRows, NoFailure,
       MigrationsGoThrough

\* What is written fits for the migration as well.
LEMMA RowsWrite ==
    ASSUME SchemaInv, RowsInv, NEW r \in RowsType, NEW seen \in RowsType, Write(r, seen),
           FitsAt(revision, r),
           tx # Idle =>
             /\ FitsAt(tx.at, seen)
             /\ \A i \in JobIds : seen.job[i] \in {r.job[i], "none"}
             /\ KeepsLocked(tx, seen)
    PROVE  RowsInv'
<1>1. UNCHANGED <<revision, pgcrypto, failure>> /\ rows' = r
  BY Writes
<1>2. MigrationsGoThrough'
  BY <1>1 DEF RowsInv, MigrationsGoThrough
<1>3. CASE tx = Idle
  BY <1>1, <1>2, <1>3, Writes DEF RowsInv
<1>4. CASE tx # Idle
  <2>1. SameStep(tx, tx') /\ tx'.rows = seen /\ tx'.late
    BY <1>4, Writes
  <2>2. LocksHold(tx', revision)
    BY <1>4, <2>1 DEF RowsInv, SameStep, LocksHold
  <2>3. FitsAt(tx'.at, tx'.rows) /\ JobsRemain(tx', r)
    BY <1>4, <2>1 DEF SameStep, JobsRemain
  <2>4. DoneLocked(tx) /\ KeepsLocked(tx, seen)
    BY <1>4 DEF RowsInv, DoneSoFar
  <2>5. DoneLocked(tx')
    BY <2>1, <2>4 DEF SameStep, DoneLocked, KeepsLocked, NoJobOf
  <2>6. DoneSoFar(tx')
    BY <2>1, <2>5 DEF DoneUnlocked, DoneSoFar
  <2> QED
    BY <1>1, <1>2, <2>2, <2>3, <2>6 DEF RowsInv
<1> QED
  BY <1>3, <1>4

LEMMA RowsEnqueue ==
    ASSUME SchemaInv, RowsInv, NEW i \in JobIds, NEW j \in Jobs, EnqueueJob(i, j)
    PROVE  RowsInv'
<1> DEFINE r == [rows EXCEPT !.job[i] = j]
           seen == [SeenRows EXCEPT !.job[i] = j]
<1>1. Write(r, seen) /\ r \in RowsType /\ seen \in RowsType
  BY Enqueues
<1>2. /\ r.job = [rows.job EXCEPT ![i] = j] /\ r.proposal = rows.proposal
      /\ r.link = rows.link /\ r.hash = rows.hash
      /\ seen.job = [SeenRows.job EXCEPT ![i] = j] /\ seen.proposal = SeenRows.proposal
      /\ seen.link = SeenRows.link /\ seen.hash = SeenRows.hash
  <2>1. rows \in RowsType /\ SeenRows \in RowsType
    BY Seen
  <2>2. /\ r.job = [rows.job EXCEPT ![i] = j] /\ r.proposal = rows.proposal
        /\ r.link = rows.link /\ r.hash = rows.hash
    BY <2>1, PutJob
  <2>3. /\ seen.job = [SeenRows.job EXCEPT ![i] = j] /\ seen.proposal = SeenRows.proposal
        /\ seen.link = SeenRows.link /\ seen.hash = SeenRows.hash
    BY <2>1, PutJob
  <2> QED
    BY <2>2, <2>3
<1>3. rows.job \in [JobIds -> {"none"} \cup Jobs] /\ SeenRows.job \in [JobIds -> {"none"} \cup Jobs]
  BY Seen, RowsFields
<1> HIDE DEF r, seen
<1>4. JobAllowed(revision, j)
  BY Enqueues, JobsFit, KnownAll DEF SchemaInv, MigrationTypeOK
<1>5. FitsAt(revision, r)
  BY <1>2, <1>3, <1>4 DEF RowsInv, FitsAt, FilledIn
<1>6. ASSUME tx # Idle
      PROVE  /\ FitsAt(tx.at, seen)
             /\ \A k \in JobIds : seen.job[k] \in {r.job[k], "none"}
             /\ KeepsLocked(tx, seen)
  <2>1. /\ revision \in Revisions /\ tx.at \in Revisions
        /\ "job" \notin tx.locked /\ SeenRows = tx.rows
    BY <1>6, Enqueues, NotIdle, MigratingFields, Seen DEF SchemaInv, MigrationTypeOK
  <2>2. JobAllowed(tx.at, j)
    BY <1>4, <1>6, <2>1, JobsAlike DEF RowsInv, LocksHold
  <2>3. FitsAt(tx.at, seen)
    BY <1>2, <1>3, <1>6, <2>1, <2>2 DEF RowsInv, FitsAt, FilledIn
  <2>4. \A k \in JobIds : seen.job[k] \in {r.job[k], "none"}
    BY <1>2, <1>3, <1>6, <2>1 DEF RowsInv, JobsRemain
  <2>5. KeepsLocked(tx, seen)
    BY <1>2, <2>1 DEF KeepsLocked
  <2> QED
    BY <2>3, <2>4, <2>5
<1> QED
  BY <1>1, <1>5, <1>6, RowsWrite

\* A link that the committed schema allows, the migration's does.
LEMMA RowsMint ==
    ASSUME SchemaInv, RowsInv, MintLink
    PROVE  RowsInv'
<1>1. PICK v \in Values :
        /\ Write([rows EXCEPT !.link = v], [SeenRows EXCEPT !.link = v])
        /\ [rows EXCEPT !.link = v] \in RowsType
        /\ [SeenRows EXCEPT !.link = v] \in RowsType
        /\ "provider" \in Names(schema, "connect_link") => v = "set"
        /\ tx # Idle => "connect_link" \notin tx.locked
  BY Mints
<1>2. revision \in Revisions /\ schema \in SchemasDuring(revision)
  BY KnownAll DEF SchemaInv, MigrationTypeOK
<1>3. revision >= 12 => v # "unset"
  BY <1>1, <1>2, FactsOfRevisions DEF ColumnsRequired
<1> DEFINE r == [rows EXCEPT !.link = v]
           seen == [SeenRows EXCEPT !.link = v]
<1>4. /\ Write(r, seen) /\ r \in RowsType /\ seen \in RowsType
  BY <1>1
<1>5. /\ r.job = rows.job /\ r.proposal = rows.proposal /\ r.link = v /\ r.hash = rows.hash
      /\ seen.job = SeenRows.job /\ seen.proposal = SeenRows.proposal /\ seen.link = v
      /\ seen.hash = SeenRows.hash
  BY Seen, PutLink
<1> HIDE DEF r, seen
<1>6. FitsAt(revision, r)
  BY <1>3, <1>5 DEF RowsInv, FitsAt, FilledIn
<1>7. ASSUME tx # Idle
      PROVE  /\ FitsAt(tx.at, seen)
             /\ \A k \in JobIds : seen.job[k] \in {r.job[k], "none"}
             /\ KeepsLocked(tx, seen)
  <2>1. /\ tx.at \in Revisions /\ SeenRows = tx.rows /\ "connect_link" \notin tx.locked
        /\ tx.at \in 0 .. 18 /\ revision \in 0 .. 18
    BY <1>1, <1>2, <1>7, NotIdle, MigratingFields, Seen DEF Revisions, HeadRevision
  <2>2. revision < 12 <=> tx.at < 12
    BY <1>7, <2>1 DEF RowsInv, LocksHold
  <2>3. tx.at >= 12 => v # "unset"
    BY <1>3, <2>1, <2>2
  <2>4. FitsAt(tx.at, seen)
    BY <1>5, <1>7, <2>1, <2>3 DEF RowsInv, FitsAt, FilledIn
  <2> QED
    BY <1>5, <1>7, <2>1, <2>4 DEF RowsInv, JobsRemain, KeepsLocked
<1> QED
  BY <1>4, <1>6, <1>7, RowsWrite

\* A proposal that the committed schema allows, the migration's does: r and seen
\* differ from the rows in no more than the proposal and its hash.
LEMMA RowsPropose ==
    ASSUME SchemaInv, RowsInv, NEW r \in RowsType, NEW seen \in RowsType, Write(r, seen),
           tx # Idle => "pending_action" \notin tx.locked,
           r.job = rows.job, r.link = rows.link,
           seen.job = SeenRows.job, seen.link = SeenRows.link,
           NEW p \in Proposals, ProposalAllowed(revision, p),
           r.proposal = p, seen.proposal = p,
           revision >= 14 => r.hash # "unset",
           seen.hash = r.hash \/ seen.hash = SeenRows.hash
    PROVE  RowsInv'
<1>1. FitsAt(revision, r)
  BY DEF RowsInv, FitsAt, FilledIn
<1>2. ASSUME tx # Idle
      PROVE  /\ FitsAt(tx.at, seen)
             /\ \A k \in JobIds : seen.job[k] \in {r.job[k], "none"}
             /\ KeepsLocked(tx, seen)
  <2>1. /\ revision \in Revisions /\ tx.at \in Revisions /\ SeenRows = tx.rows
        /\ tx.at \in 0 .. 18 /\ revision \in 0 .. 18
    BY <1>2, NotIdle, MigratingFields, Seen DEF SchemaInv, MigrationTypeOK, Revisions, HeadRevision
  <2>2. \A n \in {8, 9, 14} : revision < n <=> tx.at < n
    BY <1>2 DEF RowsInv, LocksHold
  <2>3. ProposalAllowed(tx.at, p)
    BY <2>1, <2>2, ProposalsAlike
  <2>4. revision < 14 <=> tx.at < 14
    BY <2>2
  <2>5. tx.at >= 14 => seen.hash # "unset"
    BY <1>2, <2>1, <2>4 DEF RowsInv, FitsAt, FilledIn
  <2>6. FitsAt(tx.at, seen)
    BY <1>2, <2>1, <2>3, <2>5 DEF RowsInv, FitsAt, FilledIn
  <2> QED
    BY <1>2, <2>1, <2>6 DEF RowsInv, JobsRemain, KeepsLocked
<1> QED
  BY <1>1, <1>2, RowsWrite

\* The rows that the other writes touch have no constraint.
LEMMA RowsOthers ==
    ASSUME SchemaInv, RowsInv, NEW r \in RowsType, NEW seen \in RowsType, Write(r, seen),
           r.job = rows.job, r.proposal = rows.proposal, r.link = rows.link, r.hash = rows.hash,
           seen.job = SeenRows.job, seen.proposal = SeenRows.proposal,
           seen.link = SeenRows.link, seen.hash = SeenRows.hash
    PROVE  RowsInv'
<1>1. FitsAt(revision, r)
  BY DEF RowsInv, FitsAt, FilledIn
<1>2. ASSUME tx # Idle
      PROVE  /\ FitsAt(tx.at, seen)
             /\ \A k \in JobIds : seen.job[k] \in {r.job[k], "none"}
             /\ KeepsLocked(tx, seen)
  BY <1>2, Seen DEF RowsInv, FitsAt, FilledIn, JobsRemain, KeepsLocked
<1> QED
  BY <1>1, <1>2, RowsWrite

LEMMA RowsPrepare ==
    ASSUME SchemaInv, RowsInv, Prepare
    PROVE  RowsInv'
<1>1. /\ tx # Idle /\ tx \in Migrating /\ tx.at \in Revisions /\ tx.rows \in RowsType
      /\ UNCHANGED <<revision, rows, pgcrypto>>
      /\ Prepared(tx.schema, StepOf(tx)) \in SchemasDuring(tx.at)
  BY Prepares, UnderWay, MigratingFields
<1>2. LocksHold(tx, revision) /\ FitsAt(tx.at, tx.rows) /\ JobsRemain(tx, rows) /\ DoneSoFar(tx)
  BY <1>1 DEF RowsInv
<1>3. FitsAt(tx.at, PreparedRows(tx))
  BY <1>1, <1>2, UnderFits DEF FitsAt, PreparedRows
<1>4. /\ tx'.way = tx.way /\ tx'.at = tx.at /\ tx'.done = 0 /\ tx'.rows = PreparedRows(tx)
      /\ tx'.locked = tx.locked \cup LockedBy(StepOf(tx).before)
      /\ UNCHANGED failure
  BY <1>3, Prepares
<1>5. LocksHold(tx', revision)
  BY <1>2, <1>4 DEF LocksHold
<1>6. \A i \in JobIds : tx'.rows.job[i] \in {tx.rows.job[i], "none"}
  <2>1. tx.at \in 0 .. 18
    BY <1>1, MigratingFields
  <2>2. \A i \in JobIds : PreparedRows(tx).job[i] \in {tx.rows.job[i], "none"}
    <3>1. CASE tx.at < 3
      BY <1>1, <3>1, UnderRevision DEF PreparedRows
    <3>2. CASE tx.at >= 3
      BY <1>1, <3>2, UnderRevision DEF PreparedRows
    <3> QED
      BY <2>1, <3>1, <3>2
  <2> QED
    BY <1>4, <2>2
<1>7. JobsRemain(tx', rows)
  BY <1>2, <1>6 DEF JobsRemain
<1>8. DoneSoFar(tx')
  <2>1. tx'.way = "up" /\ tx'.at = 11 => "connect_link" \in tx'.locked
    BY <1>4, FactsOfRevisions DEF StepOf, ChangesLock
  <2>2. tx'.way = "up" /\ tx'.at = 13 => "pending_action" \in tx'.locked
    BY <1>4, FactsOfRevisions DEF StepOf, ChangesLock
  <2>3. tx'.way = "down" /\ tx'.at = 15 => "job" \in tx'.locked
    BY <1>4, MigratingFields, <1>1, FactsOfRevisions DEF StepOf, ChangesLock
  <2>4. DoneLocked(tx')
    BY <1>4, <2>1, <2>2, <2>3 DEF DoneLocked
  <2>5. DoneUnlocked(tx')
    BY <1>4 DEF DoneUnlocked
  <2> QED
    BY <2>4, <2>5 DEF DoneSoFar
<1>9. FitsAt(revision, rows)' /\ MigrationsGoThrough'
  BY <1>1, <1>4 DEF RowsInv, FitsAt, FilledIn, MigrationsGoThrough
<1> QED
  BY <1>1, <1>3, <1>4, <1>5, <1>7, <1>8, <1>9 DEF RowsInv

\* A statement undoes nothing that those before it did.
LEMMA ExecuteFits ==
    ASSUME SchemaInv, RowsInv, tx # Idle, NEW d \in Statements, NextIs(tx, d),
           NEW r, r = Execute(d, tx.rows), NEW t, t.way = tx.way, t.at = tx.at,
           t.locked = tx.locked, t.late = tx.late, t.done = tx.done + 1, t.rows = r
    PROVE  /\ FitsAt(tx.at, r)
           /\ DoneSoFar(t)
           /\ \A i \in JobIds : r.job[i] \in {tx.rows.job[i], "none"}
<1>1. FitsAt(tx.at, tx.rows) /\ DoneUnlocked(tx) /\ DoneLocked(tx) /\ tx.rows \in RowsType
  BY NotIdle, MigratingFields DEF RowsInv, DoneSoFar
<1>2. /\ \A i \in JobIds : r.job[i] \in {tx.rows.job[i], "none"}
      /\ d = "no_turns" => NoJobOf(r, {"agent_turn"})
      /\ d = "no_knocks" => NoJobOf(r, Knocks)
      /\ d = "no_wake_ups" => NoJobOf(r, WakeUps)
      /\ r.proposal = IF d = "concluded_are_claimed" /\ tx.rows.proposal = "executed"
                      THEN "claimed" ELSE tx.rows.proposal
      /\ r.link = IF d = "links_are_google" /\ tx.rows.link = "unset" THEN "set" ELSE tx.rows.link
      /\ r.hash = IF d = "payloads_are_hashed" /\ tx.rows.hash = "unset"
                  THEN "set" ELSE tx.rows.hash
  BY <1>1, StatementsExecute
<1>3. FitsAt(tx.at, r)
  <2>1. \A i \in JobIds : JobAllowed(tx.at, r.job[i])
    BY <1>1, <1>2 DEF FitsAt, JobAllowed
  <2>2. d = "concluded_are_claimed" => tx.at = 14
    BY DEF NextIs
  <2>3. ProposalAllowed(tx.at, r.proposal)
    BY <1>1, <1>2, <2>2 DEF FitsAt, ProposalAllowed
  <2>4. FilledIn(tx.at, r)
    BY <1>1, <1>2 DEF FitsAt, FilledIn
  <2> QED
    BY <2>1, <2>3, <2>4 DEF FitsAt
<1>4. DoneUnlocked(t)
  <2>1. /\ t.way = "up" /\ t.at = 16 => d = "no_turns"
        /\ t.way = "down" /\ t.at = 14 => d = "concluded_are_claimed"
        /\ t.way = "up" /\ t.at = 17 => d = "no_knocks" \/ tx.done >= 1
    BY DEF NextIs
  <2>2. d = "concluded_are_claimed" => r.proposal # "executed"
    BY <1>2
  <2>3. NoJobOf(tx.rows, Knocks) => NoJobOf(r, Knocks)
    BY <1>2 DEF NoJobOf, Knocks
  <2> QED
    BY <1>1, <1>2, <2>1, <2>2, <2>3 DEF DoneUnlocked
<1>5. DoneLocked(t)
  <2>1. /\ t.way = "up" /\ t.at = 11 => d = "links_are_google" /\ tx.done = 0
        /\ t.way = "up" /\ t.at = 13 => d = "payloads_are_hashed" /\ tx.done = 0
        /\ t.way = "down" /\ t.at = 15 => d = "no_wake_ups" /\ tx.done = 0
    BY DEF NextIs
  <2>2. /\ d = "links_are_google" => r.link # "unset"
        /\ d = "payloads_are_hashed" => r.hash # "unset"
    BY <1>2
  <2> QED
    BY <1>1, <1>2, <2>1, <2>2 DEF DoneLocked
<1> QED
  BY <1>2, <1>3, <1>4, <1>5 DEF DoneSoFar

LEMMA RowsExecute ==
    ASSUME SchemaInv, RowsInv, ExecuteNext
    PROVE  RowsInv'
<1>1. /\ tx # Idle /\ tx \in Migrating
      /\ UNCHANGED <<revision, rows, pgcrypto>>
  BY Executes, UnderWay
<1>2. FitsAt(revision, rows)'
  BY <1>1 DEF RowsInv
<1>3. CASE tx.way = "up" /\ tx.at = 13 /\ ~pgcrypto /\ Rolled(tx, rows)
  <2>1. tx' = Idle /\ failure'.way = "up" /\ failure'.at = 13 /\ ~pgcrypto'
    BY <1>1, <1>3 DEF Rolled
  <2> QED
    BY <1>2, <2>1 DEF RowsInv, MigrationsGoThrough
<1>4. CASE ~(tx.way = "up" /\ tx.at = 13 /\ ~pgcrypto /\ Rolled(tx, rows))
  <2>1. /\ tx'.way = tx.way /\ tx'.at = tx.at /\ tx'.locked = tx.locked /\ tx'.late = tx.late
        /\ tx'.done = tx.done + 1
        /\ UNCHANGED failure
        /\ \E d \in Statements : tx'.rows = Execute(d, tx.rows) /\ NextIs(tx, d)
    BY <1>4, Executes
  <2>2. /\ FitsAt(tx.at, tx'.rows)
        /\ DoneSoFar(tx')
        /\ \A i \in JobIds : tx'.rows.job[i] \in {tx.rows.job[i], "none"}
    BY <1>1, <2>1, ExecuteFits
  <2>3. LocksHold(tx', revision) /\ JobsRemain(tx', rows)
    BY <1>1, <2>1, <2>2 DEF RowsInv, LocksHold, JobsRemain
  <2>4. MigrationsGoThrough'
    BY <1>1, <2>1 DEF RowsInv, MigrationsGoThrough
  <2> QED
    BY <1>1, <1>2, <2>1, <2>2, <2>3, <2>4 DEF RowsInv
<1> QED
  BY <1>3, <1>4

\* The constraints of the next revision hold, unless a row came in while such rows
\* were cleared away or a knock stands in the way back.
LEMMA AlteredRowsFit ==
    ASSUME SchemaInv, RowsInv, Alter, ~(tx.late /\ ClearsUnlocked(tx.way, tx.at)),
           ~(tx.way = "down" /\ tx.at = 13 /\ ~NoJobOf(rows, Knocks))
    PROVE  FitsAt(NextOf(tx), AlteredRows(tx))
<1>1. /\ tx # Idle /\ tx \in Migrating /\ tx.at \in Revisions /\ tx.rows \in RowsType
      /\ tx.way \in {"up", "down"} /\ tx.done \in -1 .. 3 /\ OnItsWay(tx, revision)
      /\ revision \in Revisions
      /\ tx.at # tx.to /\ NextOf(tx) \in Revisions
      /\ DoAll(tx.schema, StepOf(tx).after) \in SchemasDuring(NextOf(tx))
  BY Alters, UnderWay, MigratingFields, KnownAll
<1>2. FitsAt(tx.at, tx.rows) /\ JobsRemain(tx, rows) /\ DoneUnlocked(tx) /\ DoneLocked(tx)
  BY <1>1 DEF RowsInv, DoneSoFar
<1>3. StepOf(tx).data # <<>> => tx.done = IF tx.way = "up" /\ tx.at = 17 THEN 3 ELSE 1
  BY <1>1, Alters, StatementsCount
<1>4. CASE tx.way = "up"
  <2>1. tx.at \in 0 .. 17 /\ NextOf(tx) = tx.at + 1 /\ StepOf(tx) = Up[tx.at + 1]
        /\ tx.at < HeadRevision
    BY <1>1, <1>4, StepInRange DEF NextOf, StepOf, HeadRevision
  <2>2. tx.at = 16 => NoJobOf(tx.rows, {"agent_turn"})
    <3>1. Up[17].data # <<>>
      BY FactsOfRevisions DEF StatementsUp
    <3>2. SUFFICES ASSUME tx.at = 16 PROVE NoJobOf(tx.rows, {"agent_turn"})
      OBVIOUS
    <3>3. StepOf(tx) = Up[17]
      BY <2>1, <3>2
    <3>4. tx.done = 1
      BY <1>3, <3>1, <3>2, <3>3
    <3> QED
      BY <1>2, <1>4, <3>2, <3>4 DEF DoneUnlocked, ClearsUnlocked
  <2>3. tx.at = 17 => NoJobOf(tx.rows, Knocks)
    <3>1. Up[18].data # <<>>
      BY FactsOfRevisions DEF StatementsUp
    <3>2. SUFFICES ASSUME tx.at = 17 PROVE NoJobOf(tx.rows, Knocks)
      OBVIOUS
    <3>3. StepOf(tx) = Up[18]
      BY <2>1, <3>2
    <3>4. tx.done = 3
      BY <1>3, <1>4, <3>1, <3>2, <3>3
    <3> QED
      BY <1>2, <1>4, <3>2, <3>4 DEF DoneUnlocked, ClearsUnlocked
  <2>4. \A i \in JobIds : JobAllowed(tx.at + 1, tx.rows.job[i])
    <3> TAKE i \in JobIds
    <3>1. JobAllowed(tx.at, tx.rows.job[i])
      BY <1>2 DEF FitsAt
    <3>2. ~(tx.at = 16 /\ tx.rows.job[i] = "agent_turn")
      BY <2>2 DEF NoJobOf
    <3>3. ~(tx.at = 17 /\ tx.rows.job[i] \in Knocks)
      BY <2>3 DEF NoJobOf
    <3> QED
      BY <1>1, <2>1, <3>1, <3>2, <3>3, UpAllows
  <2>5. ProposalAllowed(tx.at + 1, tx.rows.proposal)
    BY <1>1, <1>2, ProposalsMove DEF FitsAt
  <2>6. tx.at = 11 => tx.rows.link # "unset"
    <3>1. Up[12].data # <<>>
      BY FactsOfRevisions DEF StatementsUp
    <3>2. SUFFICES ASSUME tx.at = 11 PROVE tx.rows.link # "unset"
      OBVIOUS
    <3>3. StepOf(tx) = Up[12]
      BY <2>1, <3>2
    <3>4. tx.done = 1
      BY <1>3, <3>1, <3>2, <3>3
    <3> QED
      BY <1>2, <1>4, <3>2, <3>4 DEF DoneLocked
  <2>7. tx.at = 13 => tx.rows.hash # "unset"
    <3>1. Up[14].data # <<>>
      BY FactsOfRevisions DEF StatementsUp
    <3>2. SUFFICES ASSUME tx.at = 13 PROVE tx.rows.hash # "unset"
      OBVIOUS
    <3>3. StepOf(tx) = Up[14]
      BY <2>1, <3>2
    <3>4. tx.done = 1
      BY <1>3, <3>1, <3>2, <3>3
    <3> QED
      BY <1>2, <1>4, <3>2, <3>4 DEF DoneLocked
  <2>8. FilledIn(tx.at + 1, tx.rows)
    <3>1. FilledIn(tx.at, tx.rows)
      BY <1>2 DEF FitsAt
    <3>2. tx.at + 1 >= 12 => tx.at = 11 \/ tx.at >= 12
      BY <2>1
    <3>3. tx.at + 1 >= 14 => tx.at = 13 \/ tx.at >= 14
      BY <2>1
    <3> QED
      BY <2>6, <2>7, <3>1, <3>2, <3>3 DEF FilledIn
  <2> QED
    BY <1>1, <2>1, <2>4, <2>5, <2>8, UnderFits DEF AlteredRows
<1>5. CASE tx.way = "down"
  <2>1. tx.at \in 1 .. 18 /\ NextOf(tx) = tx.at - 1 /\ StepOf(tx) = Down[tx.at]
    BY <1>1, <1>5, StepInRange DEF NextOf, StepOf
  <2>2. tx.at = 15 => NoJobOf(tx.rows, WakeUps)
    <3>1. Down[15].data # <<>>
      BY FactsOfRevisions DEF StatementsDown
    <3>2. SUFFICES ASSUME tx.at = 15 PROVE NoJobOf(tx.rows, WakeUps)
      OBVIOUS
    <3>3. StepOf(tx) = Down[15]
      BY <2>1, <3>2
    <3>4. tx.done = 1
      BY <1>3, <3>1, <3>2, <3>3
    <3> QED
      BY <1>2, <1>5, <3>2, <3>4 DEF DoneLocked
  <2>3. tx.at = 14 => tx.rows.proposal # "executed"
    <3>1. Down[14].data # <<>>
      BY FactsOfRevisions DEF StatementsDown
    <3>2. SUFFICES ASSUME tx.at = 14 PROVE tx.rows.proposal # "executed"
      OBVIOUS
    <3>3. StepOf(tx) = Down[14]
      BY <2>1, <3>2
    <3>4. tx.done = 1
      BY <1>3, <3>1, <3>2, <3>3
    <3> QED
      BY <1>2, <1>5, <3>2, <3>4 DEF DoneUnlocked, ClearsUnlocked
  <2>4. tx.at = 13 => NoJobOf(tx.rows, Knocks)
    BY <1>2, <1>5 DEF JobsRemain, NoJobOf, Knocks
  <2>5. tx.at - 1 >= 3 => \A i \in JobIds : JobAllowed(tx.at - 1, tx.rows.job[i])
    <3> SUFFICES ASSUME tx.at - 1 >= 3, NEW i \in JobIds
                 PROVE  JobAllowed(tx.at - 1, tx.rows.job[i])
      OBVIOUS
    <3>1. JobAllowed(tx.at, tx.rows.job[i])
      BY <1>2 DEF FitsAt
    <3>2. ~(tx.at = 13 /\ tx.rows.job[i] \in Knocks)
      BY <2>4 DEF NoJobOf
    <3>3. ~(tx.at = 15 /\ tx.rows.job[i] \in WakeUps)
      BY <2>2 DEF NoJobOf
    <3>4. tx.at > 3
      BY <2>1
    <3> QED
      BY <1>1, <3>1, <3>2, <3>3, <3>4, DownAllows
  <2>6. tx.at - 1 >= 9 => ProposalAllowed(tx.at - 1, tx.rows.proposal)
    <3> SUFFICES ASSUME tx.at - 1 >= 9 PROVE ProposalAllowed(tx.at - 1, tx.rows.proposal)
      OBVIOUS
    <3>1. tx.at > 9 /\ ~(tx.at = 14 /\ tx.rows.proposal = "executed")
      BY <2>1, <2>3
    <3> QED
      BY <1>1, <1>2, <3>1, ProposalsMove DEF FitsAt
  <2>7. FilledIn(tx.at - 1, tx.rows)
    BY <1>2, <2>1 DEF FitsAt, FilledIn
  <2> QED
    BY <1>1, <2>1, <2>5, <2>6, <2>7, UnderFits DEF AlteredRows
<1> QED
  BY <1>1, <1>4, <1>5

\* A revision has locked the tables whose constraints it changes.
LEMMA LocksAlter ==
    ASSUME SchemaInv, RowsInv, Alter, tx' # Idle
    PROVE  LocksHold(tx', revision)
<1>1. /\ tx # Idle /\ tx \in Migrating /\ tx.way \in {"up", "down"}
      /\ revision \in Revisions /\ OnItsWay(tx, revision) /\ tx.at # tx.to
      /\ tx'.at = NextOf(tx) /\ tx'.locked = tx.locked \cup LockedBy(StepOf(tx).after)
  BY Alters, UnderWay, MigratingFields DEF Rolled
<1>2. LocksHold(tx, revision)
  BY <1>1 DEF RowsInv
<1>3. /\ \A n \in {3, 13, 15, 17, 18} :
           "job" \in LockedBy(Up[n].after) /\ "job" \in LockedBy(Down[n].after)
      /\ \A n \in {8, 9, 14} :
           /\ "pending_action" \in LockedBy(Up[n].after)
           /\ "pending_action" \in LockedBy(Down[n].after)
      /\ "connect_link" \in LockedBy(Up[12].after) /\ "connect_link" \in LockedBy(Down[12].after)
  BY FactsOfRevisions DEF ChangesLock
<1>4. CASE tx.way = "up"
  <2>1. tx.at \in 0 .. 17 /\ NextOf(tx) = tx.at + 1 /\ StepOf(tx) = Up[tx.at + 1]
    BY <1>1, <1>4, StepInRange DEF NextOf, StepOf
  <2>2. ASSUME NEW n \in Int, n # tx.at + 1
        PROVE  tx.at < n <=> tx.at + 1 < n
    BY <2>1, <2>2
  <2>3. ASSUME "job" \notin tx'.locked, NEW n \in {3, 13, 15, 17, 18}
        PROVE  revision < n <=> tx'.at < n
    <3>1. n # tx.at + 1
      BY <1>1, <1>3, <2>1, <2>3
    <3>2. revision < n <=> tx.at < n
      BY <1>1, <1>2, <2>3 DEF LocksHold
    <3> QED
      BY <1>1, <2>1, <2>2, <3>1, <3>2
  <2>4. ASSUME "pending_action" \notin tx'.locked, NEW n \in {8, 9, 14}
        PROVE  revision < n <=> tx'.at < n
    <3>1. n # tx.at + 1
      BY <1>1, <1>3, <2>1, <2>4
    <3>2. revision < n <=> tx.at < n
      BY <1>1, <1>2, <2>4 DEF LocksHold
    <3> QED
      BY <1>1, <2>1, <2>2, <3>1, <3>2
  <2>5. ASSUME "connect_link" \notin tx'.locked
        PROVE  revision < 12 <=> tx'.at < 12
    <3>1. 12 # tx.at + 1
      BY <1>1, <1>3, <2>1, <2>5
    <3>2. revision < 12 <=> tx.at < 12
      BY <1>1, <1>2, <2>5 DEF LocksHold
    <3> QED
      BY <1>1, <2>1, <2>2, <3>1, <3>2
  <2> QED
    BY <2>3, <2>4, <2>5 DEF LocksHold
<1>5. CASE tx.way = "down"
  <2>1. tx.at \in 1 .. 18 /\ NextOf(tx) = tx.at - 1 /\ StepOf(tx) = Down[tx.at]
    BY <1>1, <1>5, StepInRange DEF NextOf, StepOf
  <2>2. ASSUME NEW n \in Int, n # tx.at
        PROVE  tx.at < n <=> tx.at - 1 < n
    BY <2>1, <2>2
  <2>3. ASSUME "job" \notin tx'.locked, NEW n \in {3, 13, 15, 17, 18}
        PROVE  revision < n <=> tx'.at < n
    <3>1. n # tx.at
      BY <1>1, <1>3, <2>1, <2>3
    <3>2. revision < n <=> tx.at < n
      BY <1>1, <1>2, <2>3 DEF LocksHold
    <3> QED
      BY <1>1, <2>1, <2>2, <3>1, <3>2
  <2>4. ASSUME "pending_action" \notin tx'.locked, NEW n \in {8, 9, 14}
        PROVE  revision < n <=> tx'.at < n
    <3>1. n # tx.at
      BY <1>1, <1>3, <2>1, <2>4
    <3>2. revision < n <=> tx.at < n
      BY <1>1, <1>2, <2>4 DEF LocksHold
    <3> QED
      BY <1>1, <2>1, <2>2, <3>1, <3>2
  <2>5. ASSUME "connect_link" \notin tx'.locked
        PROVE  revision < 12 <=> tx'.at < 12
    <3>1. 12 # tx.at
      BY <1>1, <1>3, <2>1, <2>5
    <3>2. revision < 12 <=> tx.at < 12
      BY <1>1, <1>2, <2>5 DEF LocksHold
    <3> QED
      BY <1>1, <2>1, <2>2, <3>1, <3>2
  <2> QED
    BY <2>3, <2>4, <2>5 DEF LocksHold
<1> QED
  BY <1>1, <1>4, <1>5

LEMMA RowsAlter ==
    ASSUME SchemaInv, RowsInv, Alter
    PROVE  RowsInv'
<1>1. /\ tx # Idle /\ tx \in Migrating /\ tx.rows \in RowsType
      /\ NextOf(tx) \in Revisions
      /\ DoAll(tx.schema, StepOf(tx).after) \in SchemasDuring(NextOf(tx))
      /\ UNCHANGED <<revision, rows, pgcrypto>>
  BY Alters, UnderWay, MigratingFields, KnownAll
<1>2. FitsAt(revision, rows)'
  BY <1>1 DEF RowsInv
<1>3. CASE FitsAt(NextOf(tx), AlteredRows(tx))
  <2>1. /\ tx' \in Migrating /\ tx'.way = tx.way /\ tx'.at = NextOf(tx) /\ tx'.done = -1
        /\ tx'.rows = AlteredRows(tx)
        /\ UNCHANGED failure
    BY <1>3, Alters
  <2>2. LocksHold(tx', revision)
    BY <2>1, LocksAlter, MigratingFields
  <2>3. \A i \in JobIds : tx'.rows.job[i] \in {tx.rows.job[i], "none"}
    <3>0. NextOf(tx) \in 0 .. 18
      BY <1>1 DEF Revisions, HeadRevision
    <3>1. CASE NextOf(tx) < 3
      BY <1>1, <2>1, <3>1, UnderRevision DEF AlteredRows
    <3>2. CASE NextOf(tx) >= 3
      BY <1>1, <2>1, <3>2, UnderRevision DEF AlteredRows
    <3> QED
      BY <3>0, <3>1, <3>2
  <2>4. JobsRemain(tx', rows)
    BY <1>1, <2>3 DEF RowsInv, JobsRemain
  <2>5. DoneSoFar(tx')
    BY <2>1 DEF DoneSoFar, DoneUnlocked, DoneLocked
  <2>6. MigrationsGoThrough'
    BY <1>1, <2>1 DEF RowsInv, MigrationsGoThrough
  <2> QED
    BY <1>1, <1>2, <1>3, <2>1, <2>2, <2>4, <2>5, <2>6 DEF RowsInv
<1>4. CASE ~FitsAt(NextOf(tx), AlteredRows(tx))
  <2>1. Rolled(tx, rows)
    BY <1>4, Alters
  <2>2. \/ tx.late /\ ClearsUnlocked(tx.way, tx.at)
        \/ (tx.way = "down" /\ tx.at = 13 /\ ~NoJobOf(rows, Knocks))
    BY <1>4, AlteredRowsFit
  <2>3. /\ tx' = Idle /\ failure'.late = tx.late /\ failure'.way = tx.way
        /\ failure'.at = tx.at
        /\ failure'.knocks = \E i \in JobIds : rows.job[i] \in Knocks
    BY <2>1 DEF Rolled
  <2>4. ~NoJobOf(rows, Knocks) => failure'.knocks
    BY <2>3 DEF NoJobOf
  <2>5. MigrationsGoThrough'
    BY <2>2, <2>3, <2>4 DEF MigrationsGoThrough
  <2> QED
    BY <1>2, <2>3, <2>5 DEF RowsInv
<1> QED
  BY <1>3, <1>4

LEMMA RowsStep == SchemaInv /\ RowsInv /\ [MigrationNext]_migrationVars => RowsInv'
<1> SUFFICES ASSUME SchemaInv, RowsInv, [MigrationNext]_migrationVars PROVE RowsInv'
  OBVIOUS
<1>0. /\ revision \in Revisions /\ rows \in RowsType
      /\ schema \in SchemasDuring(revision)
  BY KnownAll DEF SchemaInv, MigrationTypeOK
<1>1. ASSUME NEW way \in {"up", "down"}, NEW to \in Stops, BeginMigration(way, to)
      PROVE  RowsInv'
  <2>1. /\ tx'.at = revision /\ tx'.done = -1 /\ tx'.rows = rows
        /\ UNCHANGED <<revision, rows, pgcrypto, failure>>
    BY <1>1, Begins
  <2>2. LocksHold(tx', revision) /\ JobsRemain(tx', rows) /\ DoneSoFar(tx')
    BY <2>1 DEF LocksHold, JobsRemain, DoneSoFar, DoneUnlocked, DoneLocked
  <2> QED
    BY <2>1, <2>2 DEF RowsInv, MigrationsGoThrough
<1>2. CASE Commit
  <2>1. /\ tx # Idle /\ revision' = tx.at /\ rows' = tx.rows /\ tx' = Idle
        /\ UNCHANGED <<pgcrypto, failure>>
    BY <1>2, Commits, UnderWay
  <2> QED
    BY <2>1 DEF RowsInv, MigrationsGoThrough
<1>3. CASE Deploy
  BY <1>3 DEF Deploy, RowsInv, MigrationsGoThrough
<1>4. CASE StageProposal
  <2>1. PICK new \in {"pending", "unmarked"}, v \in Values :
           /\ Write([rows EXCEPT !.proposal = new, !.hash = v],
                    [SeenRows EXCEPT !.proposal = new, !.hash = v])
           /\ [rows EXCEPT !.proposal = new, !.hash = v] \in RowsType
           /\ [SeenRows EXCEPT !.proposal = new, !.hash = v] \in RowsType
           /\ new = "pending" <=> "status" \in Names(schema, "pending_action")
           /\ "payload_hash" \in Names(schema, "pending_action") => v = "set"
           /\ tx # Idle => "pending_action" \notin tx.locked
    BY <1>4, Stages
  <2>2. new \in Proposals
    BY DEF Proposals
  <2>3. "status" \in Names(schema, "pending_action") <=> revision >= 9
    BY <1>0, FactsOfRevisions DEF ProposalsAllowed
  <2>4. ProposalAllowed(revision, new)
    BY <2>1, <2>3 DEF ProposalAllowed
  <2>5. revision >= 14 => v # "unset"
    BY <1>0, <2>1, FactsOfRevisions DEF ColumnsRequired
  <2> DEFINE r == [rows EXCEPT !.proposal = new, !.hash = v]
             seen == [SeenRows EXCEPT !.proposal = new, !.hash = v]
  <2>6. Write(r, seen) /\ r \in RowsType /\ seen \in RowsType
    BY <2>1
  <2>7. rows \in RowsType /\ SeenRows \in RowsType
    BY Seen
  <2>8. r.job = rows.job /\ r.link = rows.link /\ r.proposal = new /\ r.hash = v
    BY <2>7 DEF RowsType
  <2>9. /\ seen.job = SeenRows.job /\ seen.link = SeenRows.link /\ seen.proposal = new
        /\ seen.hash = v
    BY <2>7 DEF RowsType
  <2> HIDE DEF r, seen
  <2> QED
    BY <2>1, <2>2, <2>4, <2>5, <2>6, <2>8, <2>9, RowsPropose
<1>5. ASSUME NEW from \in Proposals, NEW to \in Proposals, SetProposal(from, to)
      PROVE  RowsInv'
  <2>1. ProposalAllowed(revision, to)
    BY <1>0, <1>5, Sets, ProposalsFit
  <2> DEFINE r == [rows EXCEPT !.proposal = to]
             seen == [SeenRows EXCEPT !.proposal = to]
  <2>2. /\ Write(r, seen) /\ r \in RowsType /\ seen \in RowsType
        /\ tx # Idle => "pending_action" \notin tx.locked
    BY <1>5, Sets
  <2>3. /\ r.job = rows.job /\ r.link = rows.link /\ r.proposal = to /\ r.hash = rows.hash
        /\ seen.job = SeenRows.job /\ seen.link = SeenRows.link /\ seen.proposal = to
        /\ seen.hash = SeenRows.hash
    BY Seen, PutStatus
  <2>4. revision >= 14 => rows.hash # "unset"
    BY DEF RowsInv, FitsAt, FilledIn
  <2> HIDE DEF r, seen
  <2> QED
    BY <2>1, <2>2, <2>3, <2>4, RowsPropose
<1>6. ASSUME NEW p \in {"daily", "opted_out"}, SetPreference(p)
      PROVE  RowsInv'
  BY <1>6, Prefers, Seen, PutPreference, RowsOthers
<1>7. CASE CreateAutomation
  BY <1>7, Creates, Seen, PutOwn, RowsOthers
<1>8. CASE UNCHANGED migrationVars
  BY <1>8 DEF migrationVars, RowsInv, MigrationsGoThrough
<1>9. {"pending", "claimed", "executed"} \subseteq Proposals
  BY DEF Proposals
<1> QED
  BY <1>1, <1>2, <1>3, <1>4, <1>5, <1>6, <1>7, <1>8, <1>9, RowsPrepare, RowsExecute, RowsAlter,
     RowsEnqueue, RowsMint
  DEF MigrationNext

\* A migration is rolled back only for a row that came in while a revision cleared
\* such rows away, for a missing pgcrypto, or on the way back from the briefing
\* knock (c4d9e0f1a2b3) when there is one.
THEOREM AllGoThrough == MigrationSpec => []MigrationsGoThrough
<1>1. RowsInv => MigrationsGoThrough
  BY DEF RowsInv
<1> QED
  BY <1>1, RowsInit, RowsStep, SchemaAccounted, PTL DEF MigrationSpec

-----------------------------------------------------------------------------
(***************************************************************************)
(* A concluded proposal.                                                   *)
(***************************************************************************)
ConcludedInv == tx # Idle => StaysConcluded(tx, rows)

LEMMA ConcludedWrite ==
    ASSUME SchemaInv, ConcludedInv, NEW r \in RowsType, NEW seen \in RowsType, Write(r, seen),
           r.proposal \in Concluded => seen.proposal = r.proposal
              \/ (r.proposal = rows.proposal /\ seen.proposal = SeenRows.proposal)
    PROVE  ConcludedInv'
<1>1. CASE tx = Idle
  BY <1>1, Writes DEF ConcludedInv
<1>2. CASE tx # Idle
  <2>1. rows' = r /\ tx'.at = tx.at /\ tx'.rows = seen /\ SeenRows = tx.rows
    BY <1>2, Writes, Seen DEF SameStep
  <2> QED
    BY <1>2, <2>1 DEF ConcludedInv, StaysConcluded
<1> QED
  BY <1>1, <1>2

\* A schema with the status keeps what was concluded.
LEMMA UnderConcluded ==
    ASSUME NEW n \in Revisions, NEW s \in SchemasDuring(n), NEW r \in RowsType,
           r.proposal \in Concluded
    PROVE  Under(s, r).proposal \in Concluded \/ n < 9
<1>1. n \in 0 .. 18 /\ r.proposal # "none" /\ r.proposal # "unmarked"
  BY DEF Revisions, HeadRevision, Concluded
<1>2. n >= 9 => Under(s, r).proposal = r.proposal
  BY <1>1, UnderRevision
<1> QED
  BY <1>1, <1>2

LEMMA ConcludedStep ==
    SchemaInv /\ RowsInv /\ ConcludedInv /\ [MigrationNext]_migrationVars => ConcludedInv'
<1> SUFFICES ASSUME SchemaInv, RowsInv, ConcludedInv, [MigrationNext]_migrationVars
             PROVE  ConcludedInv'
  OBVIOUS
<1>0. revision \in 0 .. 18 /\ (rows.proposal \in Concluded => revision >= 9)
  BY DEF SchemaInv, MigrationTypeOK, RowsInv, FitsAt, ProposalAllowed, Concluded, Revisions,
         HeadRevision
<1>1. ASSUME NEW way \in {"up", "down"}, NEW to \in Stops, BeginMigration(way, to)
      PROVE  ConcludedInv'
  BY <1>1, Begins DEF ConcludedInv, StaysConcluded
<1>2. CASE Prepare
  <2>1. /\ tx # Idle /\ tx \in Migrating /\ tx.at \in Revisions /\ tx.rows \in RowsType
        /\ UNCHANGED rows
        /\ Prepared(tx.schema, StepOf(tx)) \in SchemasDuring(tx.at)
    BY <1>2, Prepares, UnderWay, MigratingFields
  <2>2. tx' = Idle \/ (tx'.at = tx.at /\ tx'.rows = PreparedRows(tx))
    BY <1>2, Prepares DEF Rolled
  <2>3. tx.rows.proposal \in Concluded => PreparedRows(tx).proposal \in Concluded \/ tx.at < 9
    BY <2>1, UnderConcluded DEF PreparedRows
  <2> QED
    BY <2>1, <2>2, <2>3 DEF ConcludedInv, StaysConcluded
<1>3. CASE ExecuteNext
  <2>1. /\ tx # Idle /\ tx.rows \in RowsType /\ UNCHANGED rows
    BY <1>3, Executes, UnderWay, MigratingFields
  <2>2. CASE tx' = Idle
    BY <2>2 DEF ConcludedInv
  <2>3. CASE tx' # Idle
    <3>1. tx'.at = tx.at /\ \E d \in Statements : tx'.rows = Execute(d, tx.rows)
      BY <1>3, <2>3, Executes DEF Rolled
    <3>2. tx.rows.proposal \in Concluded => tx'.rows.proposal \in Concluded
      BY <2>1, <3>1, StatementsExecute DEF Concluded
    <3> QED
      BY <2>1, <3>1, <3>2 DEF ConcludedInv, StaysConcluded
  <2> QED
    BY <2>2, <2>3
<1>4. CASE Alter
  <2>1. /\ tx # Idle /\ tx \in Migrating /\ tx.at \in 0 .. 18 /\ tx.rows \in RowsType
        /\ tx.way \in {"up", "down"} /\ OnItsWay(tx, revision)
        /\ NextOf(tx) \in Revisions /\ UNCHANGED rows
        /\ DoAll(tx.schema, StepOf(tx).after) \in SchemasDuring(NextOf(tx))
    BY <1>4, Alters, UnderWay, MigratingFields, KnownAll
  <2>2. tx' = Idle \/ (tx'.at = NextOf(tx) /\ tx'.rows = AlteredRows(tx))
    BY <1>4, Alters DEF Rolled
  <2>3. tx.rows.proposal \in Concluded => AlteredRows(tx).proposal \in Concluded \/ NextOf(tx) < 9
    BY <2>1, UnderConcluded DEF AlteredRows
  <2>4. rows.proposal \in Concluded /\ tx.at < 9 => NextOf(tx) < 9
    <3>1. CASE tx.way = "up"
      BY <1>0, <2>1, <3>1 DEF OnItsWay
    <3>2. CASE tx.way = "down"
      BY <2>1, <3>2 DEF NextOf
    <3> QED
      BY <2>1, <3>1, <3>2
  <2> QED
    BY <2>1, <2>2, <2>3, <2>4 DEF ConcludedInv, StaysConcluded
<1>5. CASE Commit
  BY <1>5, Commits DEF ConcludedInv
<1>6. CASE Deploy
  BY <1>6 DEF Deploy, ConcludedInv
<1>7. ASSUME NEW i \in JobIds, NEW j \in Jobs, EnqueueJob(i, j)
      PROVE  ConcludedInv'
  <2> DEFINE r == [rows EXCEPT !.job[i] = j]
             seen == [SeenRows EXCEPT !.job[i] = j]
  <2>1. Write(r, seen) /\ r \in RowsType /\ seen \in RowsType
    BY <1>7, Enqueues
  <2>2. r.proposal = rows.proposal /\ seen.proposal = SeenRows.proposal
    BY Seen, PutJob
  <2> HIDE DEF r, seen
  <2> QED
    BY <2>1, <2>2, ConcludedWrite
<1>8. CASE StageProposal
  <2>1. PICK new \in {"pending", "unmarked"}, v \in Values :
           /\ Write([rows EXCEPT !.proposal = new, !.hash = v],
                    [SeenRows EXCEPT !.proposal = new, !.hash = v])
           /\ [rows EXCEPT !.proposal = new, !.hash = v] \in RowsType
           /\ [SeenRows EXCEPT !.proposal = new, !.hash = v] \in RowsType
    BY <1>8, Stages
  <2>2. new \in Proposals /\ new \notin Concluded
    BY DEF Proposals, Concluded
  <2> DEFINE r == [rows EXCEPT !.proposal = new, !.hash = v]
             seen == [SeenRows EXCEPT !.proposal = new, !.hash = v]
  <2>3. Write(r, seen) /\ r \in RowsType /\ seen \in RowsType
    BY <2>1
  <2>4. r.proposal = new
    BY <2>2, Seen DEF RowsType
  <2> HIDE DEF r, seen
  <2> QED
    BY <2>2, <2>3, <2>4, ConcludedWrite
<1>14. CASE MintLink
  <2>1. PICK v \in Values :
           /\ Write([rows EXCEPT !.link = v], [SeenRows EXCEPT !.link = v])
           /\ [rows EXCEPT !.link = v] \in RowsType
           /\ [SeenRows EXCEPT !.link = v] \in RowsType
    BY <1>14, Mints
  <2> DEFINE r == [rows EXCEPT !.link = v]
             seen == [SeenRows EXCEPT !.link = v]
  <2>2. Write(r, seen) /\ r \in RowsType /\ seen \in RowsType
    BY <2>1
  <2>3. r.proposal = rows.proposal /\ seen.proposal = SeenRows.proposal
    BY Seen, PutLink
  <2> HIDE DEF r, seen
  <2> QED
    BY <2>2, <2>3, ConcludedWrite
<1>9. ASSUME NEW from \in Proposals, NEW to \in Proposals, SetProposal(from, to)
      PROVE  ConcludedInv'
  <2> DEFINE r == [rows EXCEPT !.proposal = to]
             seen == [SeenRows EXCEPT !.proposal = to]
  <2>1. Write(r, seen) /\ r \in RowsType /\ seen \in RowsType
    BY <1>9, Sets
  <2>2. r.proposal = to /\ seen.proposal = to
    BY Seen, PutStatus
  <2> HIDE DEF r, seen
  <2> QED
    BY <2>1, <2>2, ConcludedWrite
<1>10. ASSUME NEW p \in {"daily", "opted_out"}, SetPreference(p)
       PROVE  ConcludedInv'
  BY <1>10, Prefers, Seen, PutPreference, ConcludedWrite
<1>11. CASE CreateAutomation
  BY <1>11, Creates, Seen, PutOwn, ConcludedWrite
<1>12. CASE UNCHANGED migrationVars
  BY <1>12 DEF migrationVars, ConcludedInv
<1>13. {"pending", "claimed", "executed"} \subseteq Proposals
  BY DEF Proposals
<1> QED
  BY <1>1, <1>2, <1>3, <1>4, <1>5, <1>6, <1>7, <1>8, <1>9, <1>10, <1>11, <1>12, <1>13, <1>14
  DEF MigrationNext

Reopens ==
    /\ rows.proposal \in Concluded /\ Confirmable(rows'.proposal)
    /\ "status" \in Names(schema', "pending_action")

LEMMA NothingReopens ==
    SchemaInv /\ RowsInv /\ ConcludedInv /\ [MigrationNext]_migrationVars => ~Reopens
<1> SUFFICES ASSUME SchemaInv, RowsInv, ConcludedInv, [MigrationNext]_migrationVars, Reopens
             PROVE  FALSE
  OBVIOUS
<1>0. /\ rows.proposal \in Concluded /\ rows'.proposal \in {"unmarked", "pending"}
      /\ rows.proposal # rows'.proposal /\ rows.proposal # "none"
  BY DEF Reopens, Confirmable, Concluded
<1>1. ASSUME NEW way \in {"up", "down"}, NEW to \in Stops, BeginMigration(way, to)
      PROVE  FALSE
  BY <1>0, <1>1, Begins
<1>2. CASE Prepare
  BY <1>0, <1>2, Prepares
<1>3. CASE ExecuteNext
  BY <1>0, <1>3, Executes
<1>4. CASE Alter
  BY <1>0, <1>4, Alters
<1>5. CASE Commit
  <2>1. /\ tx # Idle /\ tx \in Migrating /\ revision' = tx.at /\ rows' = tx.rows
        /\ schema' \in Schemas(tx.at) /\ tx.at \in Revisions
    BY <1>5, Commits, UnderWay, MigratingFields
  <2>2. tx.at < 9
    BY <1>0, <2>1 DEF ConcludedInv, StaysConcluded, Concluded
  <2>3. schema' \in SchemasDuring(tx.at)
    BY <2>1, KnownAll
  <2>4. "status" \in Names(schema', "pending_action") <=> tx.at >= 9
    BY <2>1, <2>3, FactsOfRevisions DEF ProposalsAllowed
  <2> QED
    BY <2>1, <2>2, <2>4 DEF Reopens, Revisions, HeadRevision
<1>6. CASE Deploy
  BY <1>0, <1>6 DEF Deploy
<1>7. ASSUME NEW i \in JobIds, NEW j \in Jobs, EnqueueJob(i, j)
      PROVE  FALSE
  <2>1. rows' = [rows EXCEPT !.job[i] = j]
    BY <1>7, Enqueues DEF Write
  <2>2. rows'.proposal = rows.proposal
    BY <2>1, Seen, PutJob
  <2> QED
    BY <1>0, <2>2
<1>8. CASE StageProposal
  BY <1>0, <1>8, Stages
<1>14. CASE MintLink
  <2>1. PICK v \in Values : rows' = [rows EXCEPT !.link = v]
    BY <1>14, Mints DEF Write
  <2>2. rows'.proposal = rows.proposal
    BY <2>1, Seen, PutLink
  <2> QED
    BY <1>0, <2>2
<1>9. ASSUME NEW from \in Proposals, NEW to \in {"claimed", "executed"}, SetProposal(from, to)
      PROVE  FALSE
  <2>1. to \in Proposals
    BY DEF Proposals
  <2>2. rows' = [rows EXCEPT !.proposal = to]
    BY <1>9, <2>1, Sets DEF Write
  <2>3. rows'.proposal = to
    BY <2>1, <2>2, Seen, PutStatus
  <2> QED
    BY <1>0, <2>3
<1>10. ASSUME NEW p \in {"daily", "opted_out"}, SetPreference(p)
       PROVE  FALSE
  <2>1. rows' = [rows EXCEPT !.preference = p]
    BY <1>10, Prefers DEF Write
  <2>2. rows'.proposal = rows.proposal
    BY <2>1, Seen, PutPreference
  <2> QED
    BY <1>0, <2>2
<1>11. CASE CreateAutomation
  <2>1. rows' = [rows EXCEPT !.own = "active"]
    BY <1>11, Creates DEF Write
  <2>2. rows'.proposal = rows.proposal
    BY <2>1, Seen, PutOwn
  <2> QED
    BY <1>0, <2>2
<1>12. CASE UNCHANGED migrationVars
  BY <1>0, <1>12 DEF migrationVars
<1>13. {"pending", "claimed", "executed"} \subseteq Proposals
  BY DEF Proposals
<1> QED
  BY <1>1, <1>2, <1>3, <1>4, <1>5, <1>6, <1>7, <1>8, <1>9, <1>10, <1>11, <1>12, <1>13, <1>14
  DEF MigrationNext

\* What was claimed or executed is never offered for confirmation again, by any
\* migration or write, as long as the status has a column.
THEOREM ConcludedKept == MigrationSpec => ConcludedStaysClosed
<1>1. MigrationInit => ConcludedInv
  BY DEF MigrationInit, ConcludedInv
<1>2. ~Reopens <=> (rows.proposal \in {"claimed", "executed"} /\ Confirmable(rows'.proposal)
                     => "status" \notin Names(schema', "pending_action"))
  BY DEF Reopens, Concluded
<1> QED
  BY <1>1, <1>2, RowsInit, RowsStep, ConcludedStep, NothingReopens, SchemaAccounted, PTL
  DEF MigrationSpec, ConcludedStaysClosed

-----------------------------------------------------------------------------
(***************************************************************************)
(* Wake-ups and their automations.                                         *)
(***************************************************************************)
WokenInv ==
    /\ WokenBy(rows, JobIds \ late)
    /\ tx # Idle => KeepsWakeUps(tx, JobIds \ late)

LEMMA WokenOthers ==
    ASSUME SchemaInv, WokenInv, NEW r \in RowsType, NEW seen \in RowsType, Write(r, seen),
           UNCHANGED late,
           r.job = rows.job, r.briefing = rows.briefing, r.own \in {rows.own, "active"},
           seen.job = SeenRows.job, seen.briefing = SeenRows.briefing,
           seen.own \in {SeenRows.own, "active"}
    PROVE  WokenInv'
<1>1. WokenBy(r, JobIds \ late)
  BY DEF WokenInv, WokenBy
<1>2. ASSUME tx # Idle PROVE KeepsWakeUps(tx', JobIds \ late)
  <2>1. SameStep(tx, tx') /\ tx'.rows = seen /\ SeenRows = tx.rows
    BY <1>2, Writes, Seen
  <2>2. WokenBy(tx.rows, JobIds \ late) => WokenBy(seen, JobIds \ late)
    BY <2>1 DEF WokenBy
  <2> QED
    BY <1>2, <2>1, <2>2 DEF WokenInv, KeepsWakeUps, SameStep
<1> QED
  BY <1>1, <1>2, Writes DEF WokenInv

LEMMA WokenEnqueue ==
    ASSUME SchemaInv, WokenInv, NEW i \in JobIds, NEW j \in Jobs, EnqueueJob(i, j)
    PROVE  WokenInv'
<1> DEFINE r == [rows EXCEPT !.job[i] = j]
           seen == [SeenRows EXCEPT !.job[i] = j]
<1>1. Write(r, seen) /\ r \in RowsType /\ seen \in RowsType
  BY Enqueues
<1>2. /\ r.job = [rows.job EXCEPT ![i] = j] /\ r.briefing = rows.briefing /\ r.own = rows.own
      /\ seen.job = [SeenRows.job EXCEPT ![i] = j] /\ seen.briefing = SeenRows.briefing
      /\ seen.own = SeenRows.own
  BY Seen, PutJob
<1>3. rows.job \in [JobIds -> {"none"} \cup Jobs] /\ SeenRows.job \in [JobIds -> {"none"} \cup Jobs]
  BY Seen, RowsFields
<1> HIDE DEF r, seen
<1>4. /\ j = "briefing_wake_up" => rows.briefing = "active"
      /\ j = "own_wake_up" => rows.own = "active"
      /\ late' = IF tx = Idle THEN late \ {i} ELSE late \cup {i}
  BY Enqueues
<1>5. rows' = r
  BY <1>1, Writes
<1>6. WokenBy(r, JobIds \ late')
  BY <1>2, <1>3, <1>4 DEF WokenInv, WokenBy
<1>7. CASE tx = Idle
  BY <1>1, <1>5, <1>6, <1>7, Writes DEF WokenInv
<1>8. CASE tx # Idle
  <2>1. SameStep(tx, tx') /\ tx'.rows = seen /\ SeenRows = tx.rows
    BY <1>1, <1>8, Writes, Seen
  <2>2. WokenBy(tx.rows, JobIds \ late) => WokenBy(seen, JobIds \ late')
    BY <1>2, <1>3, <1>4, <1>8, <2>1 DEF WokenBy
  <2>3. (\A k \in JobIds \ late : tx.rows.job[k] # "briefing_wake_up")
          => \A k \in JobIds \ late' : seen.job[k] # "briefing_wake_up"
    BY <1>2, <1>3, <1>4, <1>8, <2>1
  <2>4. KeepsWakeUps(tx', JobIds \ late')
    BY <1>8, <2>1, <2>2, <2>3 DEF WokenInv, KeepsWakeUps, SameStep
  <2> QED
    BY <1>5, <1>6, <2>4 DEF WokenInv
<1> QED
  BY <1>7, <1>8

\* Before there were automations there are no wake-ups.
LEMMA NoWakeUpsBefore ==
    ASSUME NEW n \in Revisions, n < 15, NEW r, FitsAt(n, r), NEW ids \in SUBSET JobIds
    PROVE  WokenBy(r, ids)
BY DEF FitsAt, JobAllowed, WokenBy, WakeUps, Knocks, Revisions, HeadRevision

LEMMA WokenFewer ==
    ASSUME NEW r, NEW u, NEW ids \in SUBSET JobIds, WokenBy(r, ids),
           \A i \in JobIds : u.job[i] \in {r.job[i], "none"},
           u.briefing = r.briefing \/ u.briefing # "none", u.own = r.own
    PROVE  WokenBy(u, ids)
BY DEF WokenBy

LEMMA WokenUnder ==
    ASSUME NEW n \in Revisions, NEW s \in SchemasDuring(n), NEW r \in RowsType,
           NEW ids \in SUBSET JobIds, WokenBy(r, ids), IsTable(s, "automation")
    PROVE  WokenBy(Under(s, r), ids)
<1>1. Under(s, r).briefing = r.briefing /\ Under(s, r).own = r.own
  BY UnderRevision
<1>2. \A i \in JobIds : Under(s, r).job[i] \in {r.job[i], "none"}
  <2>0. n \in 0 .. 18
    BY DEF Revisions, HeadRevision
  <2>1. CASE n < 3
    BY <2>1, UnderRevision
  <2>2. CASE n >= 3
    BY <2>2, UnderRevision
  <2> QED
    BY <2>0, <2>1, <2>2
<1> QED
  BY <1>1, <1>2, WokenFewer

LEMMA WokenPrepare ==
    ASSUME SchemaInv, WokenInv, Prepare
    PROVE  WokenInv'
<1>1. /\ tx # Idle /\ tx \in Migrating /\ tx.at \in Revisions /\ tx.at \in 0 .. 18
      /\ tx.rows \in RowsType /\ tx.way \in {"up", "down"} /\ OnItsWay(tx, revision)
      /\ revision \in Revisions /\ tx.at # tx.to /\ tx.done = -1 /\ StepOf(tx).data # <<>>
      /\ Prepared(tx.schema, StepOf(tx)) \in SchemasDuring(tx.at)
      /\ UNCHANGED <<rows, late>>
  BY Prepares, UnderWay, MigratingFields
<1>2. CASE tx' = Idle
  BY <1>1, <1>2 DEF WokenInv
<1>3. CASE tx' # Idle
  <2>1. /\ tx'.way = tx.way /\ tx'.at = tx.at /\ tx'.done = 0 /\ tx'.rows = PreparedRows(tx)
        /\ FitsAt(tx.at, PreparedRows(tx))
    BY <1>3, Prepares DEF Rolled
  <2>2. WokenBy(tx.rows, JobIds \ late)
    BY <1>1 DEF WokenInv, KeepsWakeUps
  <2>3. CASE tx.way = "up" /\ tx.at >= 15
    <3>0. tx.at \in 0 .. 17
      BY <1>1, <2>3, StepInRange
    <3>1. tx.at \in 15 .. HeadRevision - 1 /\ StepOf(tx) = Up[tx.at + 1]
      BY <2>3, <3>0 DEF StepOf, HeadRevision
    <3>2. IsTable(Prepared(tx.schema, StepOf(tx)), "automation")
      <4>1. tx.schema \in Schemas(tx.at)
        BY <1>1 DEF OnItsWay
      <4> QED
        BY <3>1, <4>1, FactsOfRevisions DEF AutomationsKept
    <3>3. WokenBy(tx'.rows, JobIds \ late)
      BY <1>1, <2>1, <2>2, <3>2, WokenUnder DEF PreparedRows
    <3> QED
      BY <1>1, <2>1, <3>3 DEF WokenInv, KeepsWakeUps
  <2>4. CASE tx.at < 15
    <3>1. WokenBy(tx'.rows, JobIds \ late)
      BY <1>1, <2>1, <2>4, NoWakeUpsBefore
    <3> QED
      BY <1>1, <2>1, <3>1 DEF WokenInv, KeepsWakeUps
  <2>5. CASE tx.way = "down" /\ tx.at >= 15
    <3>1. tx.at = 15
      BY <1>1, <2>5, WhichStatements
    <3> QED
      BY <1>1, <2>1, <2>5, <3>1 DEF WokenInv, KeepsWakeUps
  <2> QED
    BY <1>1, <2>3, <2>4, <2>5
<1> QED
  BY <1>2, <1>3

LEMMA WokenExecute ==
    ASSUME SchemaInv, WokenInv, ExecuteNext
    PROVE  WokenInv'
<1>0. /\ tx # Idle /\ tx \in Migrating /\ tx.rows \in RowsType
      /\ UNCHANGED <<rows, late>> /\ tx.done \in 0 .. 2
  BY Executes, UnderWay, MigratingFields
<1>6. CASE tx' = Idle
  BY <1>0, <1>6 DEF WokenInv
<1>7. SUFFICES ASSUME tx' # Idle PROVE WokenInv'
  BY <1>6
<1>1. /\ tx # Idle /\ tx \in Migrating /\ tx.rows \in RowsType
      /\ UNCHANGED <<rows, late>>
      /\ tx'.way = tx.way /\ tx'.at = tx.at /\ tx'.done = tx.done + 1 /\ tx.done \in 0 .. 2
  BY <1>0, <1>7, Executes DEF Rolled
<1>2. PICK d \in Statements : tx'.rows = Execute(d, tx.rows) /\ NextIs(tx, d)
  BY <1>7, Executes DEF Rolled
<1>8. /\ d = "no_wake_ups" => tx.way = "down" /\ tx.at = 15 /\ tx.done = 0
      /\ d # "no_wake_ups" => ~(tx.way = "down" /\ tx.at = 15)
      /\ d = "no_briefing" => tx.way = "up" /\ tx.at = 17 /\ tx.done = 2
      /\ tx.way = "up" /\ tx.at = 17 /\ tx.done = 1 => d = "no_briefing_wake_ups"
  BY <1>2 DEF NextIs
<1> DEFINE ids == JobIds \ late
<1>3. /\ \A i \in JobIds : tx'.rows.job[i] \in {tx.rows.job[i], "none"}
      /\ d = "no_wake_ups" => NoJobOf(tx'.rows, WakeUps)
      /\ d = "no_briefing_wake_ups" =>
           tx.rows.briefing = "none" \/ NoJobOf(tx'.rows, {"briefing_wake_up"})
      /\ d = "seed_briefing" => tx'.rows.briefing # "none"
      /\ d \notin {"seed_briefing", "no_briefing"} => tx'.rows.briefing = tx.rows.briefing
      /\ tx'.rows.own = tx.rows.own
  BY <1>1, <1>2, StatementsExecute
<1>4. CASE d = "no_wake_ups"
  <2>1. WokenBy(tx'.rows, ids)
    BY <1>3, <1>4 DEF NoJobOf, WakeUps, WokenBy
  <2> QED
    BY <1>1, <1>8, <1>4, <2>1 DEF WokenInv, KeepsWakeUps
<1>5. CASE d # "no_wake_ups"
  <2>1. WokenBy(tx.rows, ids)
    BY <1>1, <1>8, <1>5 DEF WokenInv, KeepsWakeUps
  <2>2. CASE d = "no_briefing"
    <3>1. \A i \in ids : tx.rows.job[i] # "briefing_wake_up"
      BY <1>1, <1>8, <2>2 DEF WokenInv, KeepsWakeUps
    <3>2. WokenBy(tx'.rows, ids)
      BY <1>3, <2>1, <3>1 DEF WokenBy
    <3> QED
      BY <1>1, <1>8, <2>2, <3>2 DEF WokenInv, KeepsWakeUps
  <2>3. CASE d # "no_briefing"
    <3>1. WokenBy(tx'.rows, ids)
      BY <1>3, <2>1, <2>3, WokenFewer
    <3>2. tx.way = "up" /\ tx.at = 17 /\ tx.done + 1 = 2 =>
            \A i \in ids : tx'.rows.job[i] # "briefing_wake_up"
      <4>1. SUFFICES ASSUME tx.way = "up" /\ tx.at = 17 /\ tx.done + 1 = 2
                     PROVE  \A i \in ids : tx'.rows.job[i] # "briefing_wake_up"
        OBVIOUS
      <4>2. d = "no_briefing_wake_ups"
        BY <1>1, <1>8, <4>1
      <4> QED
        BY <1>3, <3>1, <4>2 DEF NoJobOf, WokenBy
    <3> QED
      BY <1>1, <3>1, <3>2 DEF WokenInv, KeepsWakeUps
  <2> QED
    BY <2>2, <2>3
<1> QED
  BY <1>4, <1>5

LEMMA WokenAlter ==
    ASSUME SchemaInv, WokenInv, Alter
    PROVE  WokenInv'
<1>1. /\ tx # Idle /\ tx \in Migrating /\ tx.rows \in RowsType /\ OnItsWay(tx, revision)
      /\ revision \in Revisions /\ tx.at # tx.to
      /\ NextOf(tx) \in Revisions /\ NextOf(tx) \in 0 .. 18
      /\ DoAll(tx.schema, StepOf(tx).after) \in Schemas(NextOf(tx))
      /\ UNCHANGED <<rows, late>>
  BY Alters, UnderWay, MigratingFields DEF Revisions, HeadRevision
<1>2. CASE tx' = Idle
  BY <1>1, <1>2 DEF WokenInv
<1>3. CASE tx' # Idle
  <2>1. /\ tx'.done = -1 /\ tx'.rows = AlteredRows(tx) /\ FitsAt(NextOf(tx), AlteredRows(tx))
    BY <1>3, Alters DEF Rolled
  <2>2. WokenBy(tx.rows, JobIds \ late)
    <3>1. ~(tx.way = "down" /\ tx.at = 15 /\ tx.done = 0)
      <4>1. SUFFICES ASSUME tx.way = "down" /\ tx.at = 15 /\ tx.done = 0 PROVE FALSE
        OBVIOUS
      <4>2. StepOf(tx) = Down[15] /\ StepOf(tx).data # <<>>
        BY <4>1, FactsOfRevisions DEF StepOf, StatementsDown
      <4>3. tx.done = 1
        BY <1>1, <4>1, <4>2, Alters, StatementsCount
      <4> QED
        BY <4>1, <4>3
    <3> QED
      BY <1>1, <3>1 DEF WokenInv, KeepsWakeUps
  <2>3. WokenBy(tx'.rows, JobIds \ late)
    <3>1. CASE NextOf(tx) < 15
      BY <1>1, <2>1, <3>1, NoWakeUpsBefore
    <3>2. CASE NextOf(tx) >= 15
      <4>1. IsTable(DoAll(tx.schema, StepOf(tx).after), "automation")
        BY <1>1, <3>2, FactsOfRevisions DEF AutomationsKept
      <4>2. DoAll(tx.schema, StepOf(tx).after) \in SchemasDuring(NextOf(tx))
        BY <1>1, KnownAll
      <4> QED
        BY <1>1, <2>1, <2>2, <4>1, <4>2, WokenUnder DEF AlteredRows
    <3> QED
      BY <1>1, <3>1, <3>2
  <2> QED
    BY <1>1, <2>1, <2>3 DEF WokenInv, KeepsWakeUps
<1> QED
  BY <1>2, <1>3

LEMMA WokenStep == SchemaInv /\ WokenInv /\ [MigrationNext]_migrationVars => WokenInv'
<1> SUFFICES ASSUME SchemaInv, WokenInv, [MigrationNext]_migrationVars PROVE WokenInv'
  OBVIOUS
<1>1. ASSUME NEW way \in {"up", "down"}, NEW to \in Stops, BeginMigration(way, to)
      PROVE  WokenInv'
  BY <1>1, Begins DEF WokenInv, KeepsWakeUps
<1>2. CASE Commit
  <2>1. /\ tx # Idle /\ tx.done = -1 /\ rows' = tx.rows /\ tx' = Idle /\ UNCHANGED late
    BY <1>2, Commits, UnderWay
  <2> QED
    BY <2>1 DEF WokenInv, KeepsWakeUps
<1>3. CASE Deploy
  BY <1>3 DEF Deploy, WokenInv
<1>4. CASE StageProposal
  <2>1. PICK new \in {"pending", "unmarked"}, v \in Values :
           /\ Write([rows EXCEPT !.proposal = new, !.hash = v],
                    [SeenRows EXCEPT !.proposal = new, !.hash = v])
           /\ [rows EXCEPT !.proposal = new, !.hash = v] \in RowsType
           /\ [SeenRows EXCEPT !.proposal = new, !.hash = v] \in RowsType
           /\ UNCHANGED late
    BY <1>4, Stages
  <2>2. new \in Proposals
    BY DEF Proposals
  <2> DEFINE r == [rows EXCEPT !.proposal = new, !.hash = v]
             seen == [SeenRows EXCEPT !.proposal = new, !.hash = v]
  <2>3. Write(r, seen) /\ r \in RowsType /\ seen \in RowsType
    BY <2>1
  <2>4. rows \in RowsType /\ SeenRows \in RowsType
    BY Seen
  <2>5. r.job = rows.job /\ r.briefing = rows.briefing /\ r.own = rows.own
    BY <2>4 DEF RowsType
  <2>6. /\ seen.job = SeenRows.job /\ seen.briefing = SeenRows.briefing
        /\ seen.own = SeenRows.own
    BY <2>4 DEF RowsType
  <2> HIDE DEF r, seen
  <2> QED
    BY <2>1, <2>3, <2>5, <2>6, WokenOthers
<1>10. CASE MintLink
  <2>1. PICK v \in Values :
           /\ Write([rows EXCEPT !.link = v], [SeenRows EXCEPT !.link = v])
           /\ [rows EXCEPT !.link = v] \in RowsType
           /\ [SeenRows EXCEPT !.link = v] \in RowsType
           /\ UNCHANGED late
    BY <1>10, Mints
  <2> DEFINE r == [rows EXCEPT !.link = v]
             seen == [SeenRows EXCEPT !.link = v]
  <2>2. Write(r, seen) /\ r \in RowsType /\ seen \in RowsType
    BY <2>1
  <2>3. rows \in RowsType /\ SeenRows \in RowsType
    BY Seen
  <2>4. r.job = rows.job /\ r.briefing = rows.briefing /\ r.own = rows.own
    BY <2>3, PutLink
  <2>5. /\ seen.job = SeenRows.job /\ seen.briefing = SeenRows.briefing
        /\ seen.own = SeenRows.own
    BY <2>3, PutLink
  <2> HIDE DEF r, seen
  <2> QED
    BY <2>1, <2>2, <2>4, <2>5, WokenOthers
<1>5. ASSUME NEW from \in Proposals, NEW to \in Proposals, SetProposal(from, to)
      PROVE  WokenInv'
  <2> DEFINE r == [rows EXCEPT !.proposal = to]
             seen == [SeenRows EXCEPT !.proposal = to]
  <2>1. Write(r, seen) /\ r \in RowsType /\ seen \in RowsType /\ UNCHANGED late
    BY <1>5, Sets
  <2>2. /\ r.job = rows.job /\ r.briefing = rows.briefing /\ r.own = rows.own
        /\ seen.job = SeenRows.job /\ seen.briefing = SeenRows.briefing
        /\ seen.own = SeenRows.own
    BY Seen, PutStatus
  <2> HIDE DEF r, seen
  <2> QED
    BY <2>1, <2>2, WokenOthers
<1>6. ASSUME NEW p \in {"daily", "opted_out"}, SetPreference(p)
      PROVE  WokenInv'
  BY <1>6, Prefers, Seen, PutPreference, WokenOthers
<1>7. CASE CreateAutomation
  BY <1>7, Creates, Seen, PutOwn, WokenOthers
<1>8. CASE UNCHANGED migrationVars
  BY <1>8 DEF migrationVars, WokenInv
<1>9. {"pending", "claimed", "executed"} \subseteq Proposals
  BY DEF Proposals
<1> QED
  BY <1>1, <1>2, <1>3, <1>4, <1>5, <1>6, <1>7, <1>8, <1>9, <1>10, WokenPrepare, WokenExecute,
     WokenAlter, WokenEnqueue
  DEF MigrationNext

\* No wake-up outlives its automation: the revisions delete the wake-ups of what
\* they remove, whatever the releases wrote before.
THEOREM WakeUpsKeepTheirAutomation == MigrationSpec => []WakeUpsHaveTheirAutomation
<1>1. MigrationInit => WokenInv
  BY DEF MigrationInit, WokenInv, WokenBy, NoRows
<1>2. WokenInv => WakeUpsHaveTheirAutomation
  BY DEF WokenInv, WokenBy, WakeUpsHaveTheirAutomation
<1>3. SchemaInv /\ RowsInv /\ WokenInv /\ [MigrationNext]_migrationVars => WokenInv'
  BY WokenStep
<1> QED
  BY <1>1, <1>2, <1>3, SchemaAccounted, RowsInit, RowsStep, PTL DEF MigrationSpec
=============================================================================
