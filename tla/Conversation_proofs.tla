------------------------- MODULE Conversation_proofs -------------------------
(***************************************************************************)
(* Theorems about Conversation, for every number of messages, results,     *)
(* calls, connections, posts and faults.                                   *)
(***************************************************************************)
EXTENDS Conversation, TLAPS, FiniteSetTheorems

TurnRows ==
    [pc : PCs, end : Ends, attempt : 0 .. 1, requests : Nat, seen : Nat,
     call : CallIds \cup {NoCall}, sequence : [CallIds -> Nat],
     reserved : SUBSET Numbers, outcomes : SUBSET Outcomes]

-----------------------------------------------------------------------------
(***************************************************************************)
(* How a turn goes on after a message: nothing it sent is forgotten, and   *)
(* whoever is about to send has a number for the message.                  *)
(***************************************************************************)
Spoke(t) == \E n \in Numbers : sends[t][n] > 0
Honest(t, r) ==
    /\ r.outcomes \cap {"sent", "sent_persist_failed"} # {} => Spoke(t)
    /\ r.pc = "acking" => Spoke(t) \/ "deduplicated" \in r.outcomes
Numbered(r) == r.call \in CallIds /\ r.sequence[r.call] \in Numbers
\* What BeginSend, EndSend, AttemptFails and SendRaises may make of turn t.
GoesOn(t, r) ==
    /\ r \in TurnRows
    /\ Honest(t, r)
    /\ r.seen = turn[t].seen \/ r.pc \in {"over", "acking"}
    /\ r.pc \in {"thinking", "over", "acking"} \/ (r.pc = "reserving" /\ Numbered(r))
HandsOver(t, r) ==
    /\ turn' = [turn EXCEPT ![t] = r]
    /\ r.pc \in {"thinking", "reserving"} => lock' = lock
    /\ r.pc \in {"over", "acking"} => lock' = IF lock = t THEN NoOne ELSE lock
Continues(t) == \E r : GoesOn(t, r) /\ HandsOver(t, r)

LEMMA NewTurnType == NewTurn \in TurnRows
BY CallsAssumption DEF NewTurn, TurnRows, PCs, Ends, Outcomes, CallIds

LEMMA LeaveContinues ==
    ASSUME NEW t \in Turns, NEW r \in TurnRows, NEW how \in Ends, NEW d \in BOOLEAN,
           Honest(t, r), d => Delivered(r.outcomes), LeaveAs(t, r, how, d)
    PROVE  Continues(t)
<1> DEFINE q == [NewTurn EXCEPT !.pc = IF t \in Results /\ d /\ lock = t
                                       THEN "acking" ELSE "over",
                                !.end = how,
                                !.outcomes = r.outcomes \cap {"deduplicated"}]
<1>1. q.pc \in {"over", "acking"} /\ q.outcomes = r.outcomes \cap {"deduplicated"}
  BY DEF NewTurn
<1>2. q \in TurnRows
  BY NewTurnType DEF TurnRows, NewTurn, PCs, Outcomes
<1>3. q.pc = "acking" => d
  BY DEF NewTurn
<1>4. Honest(t, q)
  BY <1>1, <1>3 DEF Honest, Delivered
<1>5. HandsOver(t, q)
  BY <1>1 DEF LeaveAs, HandsOver
<1> QED
  BY <1>1, <1>2, <1>4, <1>5 DEF Continues, GoesOn

LEMMA EndSendContinues ==
    ASSUME NEW t \in Turns, NEW r \in TurnRows, NEW o \in Outcomes,
           r.seen = turn[t].seen, Honest(t, [r EXCEPT !.outcomes = @ \cup {o}]),
           EndSend(t, r, o)
    PROVE  Continues(t)
<1> DEFINE s == [r EXCEPT !.outcomes = @ \cup {o}]
<1>1. s \in TurnRows /\ s.seen = turn[t].seen
  BY DEF TurnRows
<1>h. Honest(t, s) /\ EndSend(t, r, o)
  OBVIOUS
<1>e. EndSend(t, r, o) = IF s.call \in Calls
                        THEN Become(t, [s EXCEPT !.pc = "thinking", !.requests = @ + 1])
                        ELSE LeaveAs(t, s, "code", s.call # "fallback" /\ Delivered(s.outcomes))
  BY DEF EndSend
<1> HIDE DEF s
<1>2. CASE s.call \in Calls
  <2> DEFINE q == [s EXCEPT !.pc = "thinking", !.requests = @ + 1]
  <2>0. s.requests + 1 \in Nat /\ "thinking" \in PCs
    BY <1>1 DEF TurnRows, PCs
  <2>1. q \in TurnRows /\ q.pc = "thinking" /\ q.seen = turn[t].seen
    BY <1>1, <2>0 DEF TurnRows
  <2>2. q.outcomes = s.outcomes
    BY <1>1 DEF TurnRows
  <2>3. Honest(t, q)
    BY <1>h, <2>1, <2>2 DEF Honest
  <2>4. HandsOver(t, q)
    BY <1>2, <1>h, <1>e, <2>1 DEF Become, HandsOver
  <2> QED
    BY <2>1, <2>3, <2>4 DEF Continues, GoesOn
<1>3. CASE s.call \notin Calls
  <2> DEFINE d == s.call # "fallback" /\ Delivered(s.outcomes)
  <2>1. LeaveAs(t, s, "code", d)
    BY <1>3, <1>h, <1>e
  <2>2. d \in BOOLEAN /\ (d => Delivered(s.outcomes)) /\ "code" \in Ends
    BY DEF Ends, Delivered
  <2> HIDE DEF d
  <2> QED
    BY <1>1, <1>h, <2>1, <2>2, LeaveContinues
<1> QED
  BY <1>2, <1>3

\* sequence_for numbers the messages of a turn from 1.
LEMMA SequenceType ==
    ASSUME NEW s \in [CallIds -> Nat], NEW c \in CallIds
    PROVE  SequenceFor(s, c) \in Nat \ {0}
<1>1. IsFiniteSet(CallIds)
  <2>1. IsFiniteSet({"result", "confirmation", "fallback"})
    <3>1. IsFiniteSet({"result"} \cup {"confirmation"})
      BY FS_Singleton, FS_Union
    <3>2. IsFiniteSet(({"result"} \cup {"confirmation"}) \cup {"fallback"})
      BY <3>1, FS_Singleton, FS_Union
    <3>3. ({"result"} \cup {"confirmation"}) \cup {"fallback"}
            = {"result", "confirmation", "fallback"}
      OBVIOUS
    <3> QED
      BY <3>2, <3>3
  <2> QED
    BY <2>1, CallsAssumption, FS_Union DEF CallIds
<1>2. Cardinality({d \in CallIds : s[d] > 0}) \in Nat
  BY <1>1, FS_Subset, FS_CardinalityType
<1> QED
  BY <1>2 DEF SequenceFor

LEMMA BeginSendContinues ==
    ASSUME NEW t \in Turns, turn[t] \in TurnRows, Honest(t, turn[t]),
           NEW c \in CallIds, BeginSend(t, c)
    PROVE  Continues(t)
<1> DEFINE n == SequenceFor(turn[t].sequence, c)
           r == [turn[t] EXCEPT !.call = c, !.sequence[c] = n]
<1>1. n \in Nat \ {0}
  BY SequenceType DEF TurnRows
<1>2. /\ r \in TurnRows /\ r.seen = turn[t].seen /\ r.outcomes = turn[t].outcomes
      /\ r.pc = turn[t].pc /\ r.call = c /\ r.sequence[c] = n
  BY <1>1 DEF TurnRows
<1>3. IF n <= MaxVisible THEN Become(t, [r EXCEPT !.pc = "reserving"])
                         ELSE EndSend(t, r, "skipped_limit")
  BY DEF BeginSend
<1> HIDE DEF n, r
<1>4. CASE n <= MaxVisible
  <2> DEFINE q == [r EXCEPT !.pc = "reserving"]
  <2>1. /\ q \in TurnRows /\ q.pc = "reserving" /\ q.seen = turn[t].seen
        /\ q.outcomes = turn[t].outcomes /\ q.call = c /\ q.sequence = r.sequence
    BY <1>2 DEF TurnRows, PCs
  <2>2. n \in Numbers
    BY <1>1, <1>4, LimitsAssumption DEF Numbers
  <2>3. Honest(t, q) /\ Numbered(q)
    BY <1>2, <2>1, <2>2 DEF Honest, Numbered
  <2>4. HandsOver(t, q)
    BY <1>3, <1>4, <2>1 DEF Become, HandsOver
  <2> QED
    BY <2>1, <2>3, <2>4 DEF Continues, GoesOn
<1>5. CASE ~ (n <= MaxVisible)
  <2> DEFINE q == [r EXCEPT !.outcomes = @ \cup {"skipped_limit"}]
  <2>1. /\ q.outcomes = turn[t].outcomes \cup {"skipped_limit"}
        /\ q.pc = turn[t].pc
    BY <1>2 DEF TurnRows
  <2>2. Honest(t, q)
    BY <2>1 DEF Honest
  <2> QED
    BY <1>2, <1>3, <1>5, <2>2, EndSendContinues DEF Outcomes
<1> QED
  BY <1>4, <1>5

LEMMA LeaveTurnContinues ==
    ASSUME NEW t \in Turns, turn[t] \in TurnRows, Honest(t, turn[t]),
           NEW how \in Ends, NEW d \in BOOLEAN, d => Delivered(turn[t].outcomes),
           Leave(t, how, d)
    PROVE  Continues(t)
BY LeaveContinues DEF Leave

LEMMA AttemptContinues ==
    ASSUME NEW t \in Turns, turn[t] \in TurnRows, Honest(t, turn[t]), AttemptFails(t)
    PROVE  Continues(t)
<1>1. CASE Leave(t, "stopped", FALSE)
  BY <1>1, LeaveTurnContinues DEF Ends
<1>2. CASE Become(t, [turn[t] EXCEPT !.pc = "thinking", !.attempt = 1, !.requests = 0])
  <2> DEFINE q == [turn[t] EXCEPT !.pc = "thinking", !.attempt = 1, !.requests = 0]
  <2>0. 1 \in 0 .. 1 /\ 0 \in Nat /\ "thinking" \in PCs
    BY DEF PCs
  <2>1. /\ q \in TurnRows /\ q.pc = "thinking" /\ q.seen = turn[t].seen
        /\ q.outcomes = turn[t].outcomes
    BY <2>0 DEF TurnRows
  <2>2. Honest(t, q)
    BY <2>1 DEF Honest
  <2>3. HandsOver(t, q)
    BY <1>2, <2>1 DEF Become, HandsOver
  <2> QED
    BY <2>1, <2>2, <2>3 DEF Continues, GoesOn
<1>3. CASE BeginSend(t, "fallback")
  BY <1>3, BeginSendContinues DEF CallIds
<1> QED
  BY <1>1, <1>2, <1>3 DEF AttemptFails

LEMMA RaiseContinues ==
    ASSUME NEW t \in Turns, turn[t] \in TurnRows, Honest(t, turn[t]), SendRaises(t)
    PROVE  Continues(t)
BY AttemptContinues, LeaveTurnContinues DEF SendRaises, Ends
-----------------------------------------------------------------------------
(***************************************************************************)
(* The inductive invariant, turn by turn.  It adds to the outbox what the  *)
(* turn in flight knows about the row it works on.                         *)
(***************************************************************************)
Row(t, n) ==
    /\ sends[t][n] <= 1
    /\ delivery[t][n] = "none" => sends[t][n] = 0
    /\ delivery[t][n] = "sent" => sends[t][n] = 1 /\ <<t, n>> \notin unknown
    /\ delivery[t][n] = "failed" => (sends[t][n] = 1 <=> <<t, n>> \in unknown)
    /\ <<t, n>> \in unknown => sends[t][n] = 1
InFlight(t) ==
    /\ turn[t].pc \in {"reserving", "sending", "recording", "failing"} => Numbered(turn[t])
    /\ turn[t].pc \in {"sending", "recording", "failing"} => delivery[t][Number(t)] = "reserved"
    /\ turn[t].pc = "sending" => sends[t][Number(t)] = 0
    /\ turn[t].pc = "recording" =>
           sends[t][Number(t)] = 1 /\ <<t, Number(t)>> \notin unknown
    /\ turn[t].pc = "failing" => (sends[t][Number(t)] = 1 <=> <<t, Number(t)>> \in unknown)
Acked(t) == t \in processed => Over(t) /\ (Spoke(t) \/ "deduplicated" \in turn[t].outcomes)
TurnInv(t) ==
    /\ \A n \in Numbers : Row(t, n)
    /\ InFlight(t)
    /\ Honest(t, turn[t])
    /\ Acked(t)
OutboxInv == TypeOK /\ \A t \in Turns : TurnInv(t)

\* What a step leaves alone of the other turns.
Touches(t) ==
    \A u \in Turns \ {t} :
        /\ turn'[u] = turn[u] /\ delivery'[u] = delivery[u] /\ sends'[u] = sends[u]
        /\ \A n \in Numbers : <<u, n>> \in unknown' <=> <<u, n>> \in unknown
        /\ u \in processed' <=> u \in processed

LEMMA OthersKeep ==
    ASSUME NEW t \in Turns, Touches(t), NEW u \in Turns \ {t}, TurnInv(u)
    PROVE  TurnInv(u)'
<1>1. \A n \in Numbers : Row(u, n)'
  BY DEF Touches, TurnInv, Row
<1>2. Spoke(u)' <=> Spoke(u)
  BY DEF Touches, Spoke
<1>3. InFlight(u)'
  BY DEF Touches, TurnInv, InFlight, Numbered, Number
<1>4. Honest(u, turn[u])' /\ Acked(u)'
  BY <1>2 DEF Touches, TurnInv, Honest, Acked, Over
<1> QED
  BY <1>1, <1>3, <1>4 DEF TurnInv

LEMMA InitInv == Init => OutboxInv
<1> SUFFICES ASSUME Init PROVE OutboxInv
  OBVIOUS
<1>1. \A t \in Turns : turn[t] = NewTurn
  BY DEF Init
<1>2. \A t \in Turns, n \in Numbers : delivery[t][n] = "none" /\ sends[t][n] = 0
  BY DEF Init
<1>3. unknown = {} /\ processed = {}
  BY DEF Init
<1>4. \A t \in Turns : TurnInv(t)
  BY <1>1, <1>2, <1>3 DEF TurnInv, Row, InFlight, Honest, Acked, NewTurn
<1>5. turn \in [Turns -> TurnRows]
  BY NewTurnType DEF Init
<1>6. TypeOK
  <2>1. log \in Seq([turn : Turns, seq : 0 .. MaxVisible])
    BY DEF Init
  <2>2. delivery \in [Turns -> [Numbers -> DeliveryStates]] /\ sends \in [Turns -> [Numbers -> Nat]]
    BY DEF Init, DeliveryStates
  <2>3. /\ unknown \subseteq Turns \X Numbers /\ processed \subseteq Results /\ starved \subseteq Turns
        /\ lock \in Turns \cup {NoOne} /\ pool \in PoolSizes
    BY DEF Init
  <2>4. posts \in [Inbounds -> 0 .. MaxPosts] /\ faults \in 0 .. MaxFaults
    BY LimitsAssumption DEF Init
  <2> QED
    BY <1>5, <2>1, <2>2, <2>3, <2>4 DEF TypeOK, TurnRows
<1> QED
  BY <1>4, <1>6 DEF OutboxInv

\* A turn that goes on as GoesOn says keeps the invariant if its rows do.
LEMMA ContinuesKeeps ==
    ASSUME turn \in [Turns -> TurnRows], lock \in Turns \cup {NoOne},
           NEW t \in Turns, Continues(t), t \notin processed',
           sends' = sends, \A n \in Numbers : Row(t, n)'
    PROVE  /\ turn' \in [Turns -> TurnRows]
           /\ lock' \in Turns \cup {NoOne}
           /\ \A u \in Turns \ {t} : turn'[u] = turn[u]
           /\ TurnInv(t)'
<1>1. PICK r : GoesOn(t, r) /\ HandsOver(t, r)
  BY DEF Continues
<1>2. /\ turn' = [turn EXCEPT ![t] = r] /\ r \in TurnRows
      /\ r.pc \in {"thinking", "over", "acking"} \/ (r.pc = "reserving" /\ Numbered(r))
  BY <1>1 DEF GoesOn, HandsOver
<1>3. /\ turn' \in [Turns -> TurnRows] /\ turn'[t] = r
      /\ \A u \in Turns \ {t} : turn'[u] = turn[u]
  BY <1>2
<1>4. lock' \in Turns \cup {NoOne}
  BY <1>1, <1>2 DEF HandsOver
<1>5. Spoke(t)' <=> Spoke(t)
  BY DEF Spoke
<1>6. Honest(t, turn[t])'
  BY <1>1, <1>3, <1>5 DEF GoesOn, Honest
<1>7. InFlight(t)'
  BY <1>2, <1>3 DEF InFlight, Numbered
<1>8. Acked(t)'
  BY DEF Acked
<1> QED
  BY <1>3, <1>4, <1>6, <1>7, <1>8 DEF TurnInv

Entries == [turn : Turns, seq : 0 .. MaxVisible]
PoolOK == pool \in PoolSizes /\ starved \subseteq Turns /\ faults \in 0 .. MaxFaults
RowsOK ==
    /\ log \in Seq(Entries)
    /\ delivery \in [Turns -> [Numbers -> DeliveryStates]]
    /\ sends \in [Turns -> [Numbers -> Nat]]
    /\ unknown \subseteq Turns \X Numbers
TypesOK ==
    /\ RowsOK
    /\ turn \in [Turns -> TurnRows]
    /\ lock \in Turns \cup {NoOne}
    /\ processed \subseteq Results
    /\ posts \in [Inbounds -> 0 .. MaxPosts]
    /\ PoolOK

LEMMA SameTypes == TypeOK <=> TypesOK
BY DEF TypeOK, TypesOK, RowsOK, PoolOK, Entries, TurnRows

LEMMA DatabaseKeeps ==
    ASSUME PoolOK, NEW t \in Turns, Database \/ DatabaseRaises(t) \/ Fault
    PROVE  PoolOK'
BY LimitsAssumption DEF PoolOK, Database, DatabaseRaises, PoolTimeout, Fault

\* Adding the row of a message that the turn has a number for.
LEMMA InsertKeeps ==
    ASSUME RowsOK, NEW t \in Turns, Numbered(turn[t]), InsertRow(t),
           \A n \in Numbers : Row(t, n), UNCHANGED <<sends, unknown>>
    PROVE  /\ RowsOK'
           /\ \A u \in Turns \ {t} : delivery'[u] = delivery[u]
           /\ delivery'[t][Number(t)] = "reserved"
           /\ sends[t][Number(t)] = 0 /\ <<t, Number(t)>> \notin unknown
           /\ \A n \in Numbers : Row(t, n)'
<1> DEFINE k == Number(t)
<1>1. k \in Numbers
  BY DEF Numbered, Number
<1>2. delivery[t][k] = "none" /\ delivery' = [delivery EXCEPT ![t][k] = "reserved"]
  BY DEF InsertRow
<1>3. [turn |-> t, seq |-> k] \in Entries
  BY <1>1, LimitsAssumption DEF Entries, Numbers
<1>4. log' \in Seq(Entries)
  BY <1>3 DEF InsertRow, RowsOK
<1> HIDE DEF k
<1>5. /\ delivery' \in [Turns -> [Numbers -> DeliveryStates]]
      /\ \A u \in Turns \ {t} : delivery'[u] = delivery[u]
      /\ delivery'[t][k] = "reserved"
      /\ \A n \in Numbers : n # k => delivery'[t][n] = delivery[t][n]
  BY <1>1, <1>2 DEF RowsOK, DeliveryStates
<1>6. sends[t][k] = 0 /\ <<t, k>> \notin unknown
  BY <1>1, <1>2 DEF Row
<1>7. \A n \in Numbers : Row(t, n)'
  BY <1>5, <1>6 DEF Row
<1>8. RowsOK'
  BY <1>4, <1>5 DEF RowsOK
<1> QED
  BY <1>5, <1>6, <1>7, <1>8 DEF k

\* Writing down what became of a message.
LEMMA MarkKeeps ==
    ASSUME RowsOK, NEW t \in Turns, Numbered(turn[t]), InFlight(t),
           NEW state \in {"sent", "failed"}, Mark(t, state) \/ UNCHANGED delivery,
           turn[t].pc = IF state = "sent" THEN "recording" ELSE "failing",
           \A n \in Numbers : Row(t, n), UNCHANGED <<log, sends, unknown>>
    PROVE  /\ RowsOK'
           /\ \A u \in Turns \ {t} : delivery'[u] = delivery[u]
           /\ \A n \in Numbers : Row(t, n)'
<1>0. CASE UNCHANGED delivery
  BY <1>0 DEF RowsOK, Row
<1>q. CASE Mark(t, state)
  <2> DEFINE k == Number(t)
  <2>1. k \in Numbers
    BY DEF Numbered, Number
  <2>2. /\ state = "sent" => sends[t][k] = 1 /\ <<t, k>> \notin unknown
        /\ state = "failed" => (sends[t][k] = 1 <=> <<t, k>> \in unknown)
    BY DEF InFlight
  <2>3. delivery' = [delivery EXCEPT ![t][k] = state]
    BY <1>q DEF Mark
  <2> HIDE DEF k
  <2>4. /\ delivery' \in [Turns -> [Numbers -> DeliveryStates]]
        /\ \A u \in Turns \ {t} : delivery'[u] = delivery[u]
        /\ delivery'[t][k] = state
        /\ \A n \in Numbers : n # k => delivery'[t][n] = delivery[t][n]
    BY <2>1, <2>3 DEF RowsOK, DeliveryStates
  <2>5. \A n \in Numbers : Row(t, n)'
    BY <2>1, <2>2, <2>4 DEF Row
  <2> QED
    BY <2>4, <2>5 DEF RowsOK
<1> QED
  BY <1>0, <1>q

\* What a step of turn t shows: the invariant, and that it is none of a turn
\* that is over.
Frozen(t) == turn'[t] = turn[t] /\ delivery'[t] = delivery[t] /\ sends'[t] = sends[t]
StaysOver == \A t \in Turns : Over(t) => Frozen(t)
Kept == OutboxInv' /\ StaysOver

\* Every row of a turn and every other turn in one place.
LEMMA Assemble ==
    ASSUME OutboxInv, NEW t \in Turns, Over(t) => Frozen(t), Touches(t), TurnInv(t)', TypesOK'
    PROVE  Kept
<1>1. OutboxInv'
  BY OthersKeep, SameTypes DEF OutboxInv, TypeOK, TypesOK, RowsOK, PoolOK, Entries, TurnRows
<1>2. StaysOver
  BY DEF StaysOver, Frozen, Touches
<1> QED
  BY <1>1, <1>2 DEF Kept

-----------------------------------------------------------------------------
(***************************************************************************)
(* The steps.                                                              *)
(***************************************************************************)
\* A step of a turn that goes on and leaves the rows alone.
LEMMA QuietStep ==
    ASSUME OutboxInv, NEW t \in Turns, ~ Over(t), Continues(t),
           UNCHANGED <<messageVars, processed, posts>>, PoolOK'
    PROVE  Kept
<1>1. TypesOK /\ TurnInv(t)
  BY SameTypes DEF OutboxInv
<1>2. t \notin processed'
  BY <1>1 DEF TurnInv, Acked
<1>3. \A n \in Numbers : Row(t, n)'
  BY <1>1 DEF TurnInv, Row, messageVars
<1>4. /\ turn' \in [Turns -> TurnRows] /\ lock' \in Turns \cup {NoOne}
      /\ \A u \in Turns \ {t} : turn'[u] = turn[u]
      /\ TurnInv(t)'
  BY <1>1, <1>2, <1>3, ContinuesKeeps DEF TypesOK, messageVars
<1>5. Touches(t)
  BY <1>4 DEF Touches, messageVars
<1>6. TypesOK'
  BY <1>1, <1>4 DEF TypesOK, RowsOK, messageVars
<1> QED
  BY <1>4, <1>5, <1>6, Assemble

\* A step of a turn that only moves on, outside of a message.
LEMMA MovingStep ==
    ASSUME OutboxInv, NEW t \in Turns, ~ Over(t), NEW r \in TurnRows,
           r.outcomes = turn[t].outcomes,
           r.pc \in {"addressed", "dispatched", "waiting", "loading", "matching",
                     "thinking", "over"},
           turn' = [turn EXCEPT ![t] = r], lock' \in Turns \cup {NoOne},
           UNCHANGED <<messageVars, processed, posts>>, PoolOK'
    PROVE  Kept
<1>1. TypesOK /\ TurnInv(t)
  BY SameTypes DEF OutboxInv
<1>2. t \notin processed
  BY <1>1 DEF TurnInv, Acked
<1>3. /\ turn' \in [Turns -> TurnRows] /\ turn'[t] = r
      /\ \A u \in Turns \ {t} : turn'[u] = turn[u]
  BY <1>1 DEF TypesOK
<1>4. Touches(t)
  BY <1>3 DEF Touches, messageVars
<1>5. TurnInv(t)'
  <2>1. \A n \in Numbers : Row(t, n)'
    BY <1>1 DEF TurnInv, Row, messageVars
  <2>2. Spoke(t)' <=> Spoke(t)
    BY DEF Spoke, messageVars
  <2>3. Honest(t, turn[t])' /\ InFlight(t)' /\ Acked(t)'
    BY <1>1, <1>2, <1>3, <2>2 DEF TurnInv, Honest, InFlight, Acked
  <2> QED
    BY <2>1, <2>3 DEF TurnInv
<1>6. TypesOK'
  BY <1>1, <1>3 DEF TypesOK, RowsOK, messageVars
<1> QED
  BY <1>4, <1>5, <1>6, Assemble

LEMMA ArrivalSteps ==
    ASSUME OutboxInv
    PROVE  /\ \A m \in Inbounds : Webhook(m) => Kept
           /\ \A r \in Results : ResultArrives(r) \/ FindPhone(r) => Kept
<1>t. TypesOK
  BY SameTypes DEF OutboxInv
<1>1. ASSUME NEW m \in Inbounds, Webhook(m) PROVE Kept
  <2>t. m \in Turns /\ TurnInv(m)
    BY DEF OutboxInv, Turns
  <2>1. posts' \in [Inbounds -> 0 .. MaxPosts]
    <3>1. posts[m] \in 0 .. MaxPosts /\ posts[m] < MaxPosts
      BY <1>1, <1>t DEF Webhook, TypesOK
    <3>2. posts[m] + 1 \in 0 .. MaxPosts
      BY <3>1, LimitsAssumption
    <3> QED
      BY <1>1, <1>t, <3>2 DEF Webhook, TypesOK
  <2>2. PoolOK'
    BY <1>1, <1>t, <2>t, DatabaseKeeps DEF Webhook, TypesOK
  <2>3. UNCHANGED <<delivery, sends, unknown, lock, processed>>
    BY <1>1 DEF Webhook
  <2>4. CASE Known(m)
    <3>1. UNCHANGED <<log, turn>>
      BY <1>1, <2>4 DEF Webhook
    <3>2. TypesOK'
      BY <1>t, <2>1, <2>2, <2>3, <3>1 DEF TypesOK, RowsOK
    <3>3. Touches(m)
      BY <2>3, <3>1 DEF Touches
    <3>4. TurnInv(m)'
      <4>1. Spoke(m)' <=> Spoke(m)
        BY <2>3 DEF Spoke
      <4> QED
        BY <2>t, <2>3, <3>1, <4>1
           DEF TurnInv, Row, InFlight, Honest, Acked, Numbered, Number, Over
    <3> QED
      BY <2>t, <2>3, <3>1, <3>2, <3>3, <3>4, Assemble DEF Frozen
  <2>5. CASE ~ Known(m)
    <3> DEFINE q == [turn[m] EXCEPT !.pc = "dispatched"]
    <3>0. turn[m] \in TurnRows
      BY <1>t, <2>t DEF TypesOK
    <3>1. q \in TurnRows /\ q.pc = "dispatched" /\ q.outcomes = turn[m].outcomes
      BY <3>0 DEF TurnRows, PCs
    <3>2. turn' = [turn EXCEPT ![m] = q] /\ log' = Append(log, [turn |-> m, seq |-> 0])
      BY <1>1, <2>5 DEF Webhook
    <3> HIDE DEF q
    <3>3. turn' \in [Turns -> TurnRows] /\ turn'[m] = q /\ \A u \in Turns \ {m} : turn'[u] = turn[u]
      BY <1>t, <2>t, <3>1, <3>2 DEF TypesOK
    <3>4. log' \in Seq(Entries)
      <4>1. [turn |-> m, seq |-> 0] \in Entries
        BY <2>t, LimitsAssumption DEF Entries
      <4> QED
        BY <1>t, <3>2, <4>1 DEF TypesOK, RowsOK
    <3>5. TypesOK'
      BY <1>t, <2>1, <2>2, <2>3, <3>3, <3>4 DEF TypesOK, RowsOK
    <3>6. Touches(m)
      BY <2>3, <3>3 DEF Touches
    <3>7. TurnInv(m)'
      <4>1. Spoke(m)' <=> Spoke(m)
        BY <2>3 DEF Spoke
      <4>2. m \notin processed
        BY <2>t, <2>5 DEF TurnInv, Acked, Known, Over
      <4>3. \A n \in Numbers : Row(m, n)'
        BY <2>t, <2>3 DEF TurnInv, Row
      <4> QED
        BY <2>t, <2>3, <3>1, <3>3, <4>1, <4>2, <4>3 DEF TurnInv, InFlight, Honest, Acked
    <3> QED
      BY <2>t, <2>5, <3>5, <3>6, <3>7, Assemble DEF Known, Over
  <2> QED
    BY <2>4, <2>5
<1>2. ASSUME NEW r \in Results, ResultArrives(r) PROVE Kept
  <2>t. r \in Turns /\ turn[r] \in TurnRows
    BY <1>t DEF Turns, TypesOK
  <2> DEFINE q == [turn[r] EXCEPT !.pc = "addressed"]
  <2>1. q \in TurnRows /\ q.pc = "addressed" /\ q.outcomes = turn[r].outcomes
    BY <2>t DEF TurnRows, PCs
  <2>2. turn' = [turn EXCEPT ![r] = q] /\ ~ Over(r)
        /\ UNCHANGED <<messageVars, lock, processed, posts, pool, starved, faults>>
    BY <1>2 DEF ResultArrives, Over
  <2> HIDE DEF q
  <2> QED
    BY <1>t, <2>t, <2>1, <2>2, MovingStep DEF TypesOK, PoolOK
<1>3. ASSUME NEW r \in Results, FindPhone(r) PROVE Kept
  <2>t. r \in Turns /\ turn[r] \in TurnRows
    BY <1>t DEF Turns, TypesOK
  <2>1. ~ Over(r) /\ UNCHANGED <<messageVars, lock, processed, posts>> /\ PoolOK'
    BY <1>3, <1>t, <2>t, DatabaseKeeps DEF FindPhone, Over, TypesOK
  <2>2. ASSUME NEW q \in TurnRows, q.pc \in {"dispatched", "over"},
               q.outcomes = turn[r].outcomes, turn' = [turn EXCEPT ![r] = q]
        PROVE  Kept
    BY <1>t, <2>t, <2>1, <2>2, MovingStep DEF TypesOK
  <2>3. CASE turn' = [turn EXCEPT ![r].pc = "dispatched"]
    <3> DEFINE q == [turn[r] EXCEPT !.pc = "dispatched"]
    <3>1. q \in TurnRows /\ q.pc = "dispatched" /\ q.outcomes = turn[r].outcomes
      BY <2>t DEF TurnRows, PCs
    <3>2. turn' = [turn EXCEPT ![r] = q]
      BY <2>3
    <3> HIDE DEF q
    <3> QED
      BY <2>2, <3>1, <3>2
  <2>4. CASE turn' = [turn EXCEPT ![r].pc = "over", ![r].end = "raised"]
    <3> DEFINE q == [turn[r] EXCEPT !.pc = "over", !.end = "raised"]
    <3>1. q \in TurnRows /\ q.pc = "over" /\ q.outcomes = turn[r].outcomes
      BY <2>t DEF TurnRows, PCs, Ends
    <3>2. turn' = [turn EXCEPT ![r] = q]
      BY <1>t, <2>t, <2>4 DEF TypesOK
    <3> HIDE DEF q
    <3> QED
      BY <2>2, <3>1, <3>2
  <2> QED
    BY <1>3, <2>3, <2>4 DEF FindPhone
<1> QED
  BY <1>1, <1>2, <1>3

\* Under the lock, up to the model run.
LEMMA LockSteps ==
    ASSUME OutboxInv, NEW t \in Turns
    PROVE  Connect(t) \/ LockContact(t) \/ LoadContext(t) \/ TellProposal(t) \/ FindPrompt(t)
             => Kept
<1>t. TypesOK /\ turn[t] \in TurnRows /\ Honest(t, turn[t]) /\ PoolOK
  BY SameTypes DEF OutboxInv, TypesOK, TurnInv
<1>1. ASSUME ~ Over(t), UNCHANGED <<messageVars, processed, posts>>, PoolOK',
             lock' \in Turns \cup {NoOne}, NEW p \in PCs, NEW n \in Nat,
             p \in {"waiting", "loading", "matching", "thinking"},
             turn' = [turn EXCEPT ![t] = [turn[t] EXCEPT !.pc = p, !.seen = n]]
      PROVE  Kept
  <2> DEFINE q == [turn[t] EXCEPT !.pc = p, !.seen = n]
  <2>1. q \in TurnRows /\ q.pc = p /\ q.outcomes = turn[t].outcomes
    BY <1>1, <1>t DEF TurnRows
  <2>2. turn' = [turn EXCEPT ![t] = q]
    BY <1>1
  <2> HIDE DEF q
  <2> QED
    BY <1>1, <2>1, <2>2, MovingStep
<1>2. ASSUME NEW p \in PCs, turn' = [turn EXCEPT ![t] = [turn[t] EXCEPT !.pc = p]]
      PROVE  turn' = [turn EXCEPT ![t] = [turn[t] EXCEPT !.pc = p, !.seen = turn[t].seen]]
             /\ turn[t].seen \in Nat
  BY <1>2, <1>t DEF TurnRows
<1>3. ASSUME NEW how \in Ends, Leave(t, how, FALSE), ~ Over(t), PoolOK',
             UNCHANGED <<messageVars, processed, posts>>
      PROVE  Kept
  BY <1>3, <1>t, LeaveTurnContinues, QuietStep
<1>4. CASE Connect(t)
  <2>1. ~ Over(t) /\ UNCHANGED <<messageVars, processed, posts>> /\ PoolOK'
    BY <1>4, <1>t, DatabaseKeeps DEF Connect, Over
  <2>2. CASE Become(t, [turn[t] EXCEPT !.pc = "waiting"])
    BY <2>1, <2>2, <1>1, <1>2, <1>t DEF Become, TypesOK, PCs
  <2>3. CASE Leave(t, "raised", FALSE)
    BY <2>1, <2>3, <1>3 DEF Ends
  <2> QED
    BY <1>4, <2>2, <2>3 DEF Connect
<1>5. CASE LockContact(t)
  <2>1. /\ ~ Over(t) /\ UNCHANGED <<messageVars, processed, posts>> /\ PoolOK'
        /\ lock' = t /\ turn' = [turn EXCEPT ![t] = [turn[t] EXCEPT !.pc = "loading"]]
    BY <1>5, <1>t DEF LockContact, Over, PoolOK
  <2> QED
    BY <2>1, <1>1, <1>2 DEF PCs
<1>6. CASE LoadContext(t)
  <2>1. ~ Over(t) /\ UNCHANGED <<messageVars, processed, posts>> /\ PoolOK'
    BY <1>6, <1>t, DatabaseKeeps DEF LoadContext, Over
  <2>2. CASE Become(t, [turn[t] EXCEPT !.pc = "matching", !.seen = Len(log)])
    <3>1. Len(log) \in Nat
      BY <1>t DEF TypesOK, RowsOK
    <3> QED
      BY <2>1, <2>2, <3>1, <1>1, <1>t DEF Become, TypesOK, PCs
  <2>3. CASE Leave(t, "raised", FALSE) \/ Leave(t, "skipped", FALSE)
    BY <2>1, <2>3, <1>3 DEF Ends
  <2> QED
    BY <1>6, <2>2, <2>3 DEF LoadContext
<1>7. CASE TellProposal(t)
  <2>1. ~ Over(t) /\ UNCHANGED <<messageVars, processed, posts>> /\ PoolOK'
    BY <1>7, <1>t, DatabaseKeeps DEF TellProposal, Over
  <2>2. CASE Become(t, [turn[t] EXCEPT !.pc = "thinking"])
    BY <2>1, <2>2, <1>1, <1>2, <1>t DEF Become, TypesOK, PCs
  <2>3. CASE Leave(t, "raised", FALSE)
    BY <2>1, <2>3, <1>3 DEF Ends
  <2>4. CASE BeginSend(t, "confirmation")
    BY <2>1, <2>4, <1>t, BeginSendContinues, QuietStep DEF CallIds
  <2> QED
    BY <1>7, <2>2, <2>3, <2>4 DEF TellProposal
<1>8. CASE FindPrompt(t)
  <2>1. ~ Over(t) /\ UNCHANGED <<messageVars, processed, posts>> /\ PoolOK'
    BY <1>8, <1>t DEF FindPrompt, Over, PoolOK
  <2>2. CASE Become(t, [turn[t] EXCEPT !.pc = "thinking"])
    BY <2>1, <2>2, <1>1, <1>2, <1>t DEF Become, TypesOK, PCs
  <2>3. CASE Leave(t, "forgotten", FALSE)
    BY <2>1, <2>3, <1>3 DEF Ends
  <2> QED
    BY <1>8, <2>2, <2>3 DEF FindPrompt
<1> QED
  BY <1>4, <1>5, <1>6, <1>7, <1>8

\* The model run.
LEMMA ModelSteps ==
    ASSUME OutboxInv, NEW t \in Turns
    PROVE  (\E c \in Calls : ModelCalls(t, c)) \/ ModelFinishes(t) \/ ModelFails(t) \/ UsageLimit(t)
             => Kept
<1>t. TypesOK /\ turn[t] \in TurnRows /\ Honest(t, turn[t]) /\ PoolOK
  BY SameTypes DEF OutboxInv, TypesOK, TurnInv
<1>1. ASSUME turn[t].pc = "thinking", Continues(t),
             UNCHANGED <<messageVars, processed, posts, pool, starved, faults>>
      PROVE  Kept
  BY <1>1, <1>t, QuietStep DEF Over, PoolOK
<1>2. ASSUME NEW c \in Calls, ModelCalls(t, c) PROVE Kept
  BY <1>1, <1>2, <1>t, BeginSendContinues DEF ModelCalls, CallIds
<1>3. CASE ModelFinishes(t)
  <2>1. CASE BeginSend(t, "result")
    BY <1>1, <1>3, <1>t, <2>1, BeginSendContinues DEF ModelFinishes, CallIds
  <2>2. CASE Leave(t, "model", Delivered(turn[t].outcomes))
    BY <1>1, <1>3, <1>t, <2>2, LeaveTurnContinues DEF ModelFinishes, Ends, Delivered
  <2> QED
    BY <1>3, <2>1, <2>2 DEF ModelFinishes
<1>4. CASE ModelFails(t)
  BY <1>1, <1>4, <1>t, AttemptContinues DEF ModelFails
<1>5. CASE UsageLimit(t)
  <2>1. CASE BeginSend(t, "fallback")
    BY <1>1, <1>5, <1>t, <2>1, BeginSendContinues DEF UsageLimit, CallIds
  <2>2. CASE Leave(t, "stopped", FALSE)
    BY <1>1, <1>5, <1>t, <2>2, LeaveTurnContinues DEF UsageLimit, Ends
  <2> QED
    BY <1>5, <2>1, <2>2 DEF UsageLimit
<1> QED
  BY <1>2, <1>3, <1>4, <1>5

\* A step between the reservation of a row and the end of _send_visible.
LEMMA SendingStep ==
    ASSUME OutboxInv, NEW t \in Turns, ~ Over(t), NEW r \in TurnRows,
           turn' = [turn EXCEPT ![t] = r], lock' = lock,
           r.call = turn[t].call, r.sequence = turn[t].sequence, r.outcomes \subseteq
               turn[t].outcomes \cup {"send_failed"},
           r.pc \in {"sending", "recording", "failing"},
           UNCHANGED <<processed, posts>>, PoolOK', RowsOK',
           \A u \in Turns \ {t} :
               /\ delivery'[u] = delivery[u] /\ sends'[u] = sends[u]
               /\ \A n \in Numbers : <<u, n>> \in unknown' <=> <<u, n>> \in unknown,
           \A n \in Numbers : Row(t, n)' /\ sends'[t][n] >= sends[t][n],
           Numbered(turn[t]),
           delivery'[t][Number(t)] = "reserved",
           r.pc = "sending" => sends'[t][Number(t)] = 0,
           r.pc = "recording" => sends'[t][Number(t)] = 1 /\ <<t, Number(t)>> \notin unknown',
           r.pc = "failing" => (sends'[t][Number(t)] = 1 <=> <<t, Number(t)>> \in unknown')
    PROVE  Kept
<1>1. TypesOK /\ TurnInv(t)
  BY SameTypes DEF OutboxInv
<1>2. t \notin processed
  BY <1>1 DEF TurnInv, Acked
<1>3. /\ turn' \in [Turns -> TurnRows] /\ turn'[t] = r
      /\ \A u \in Turns \ {t} : turn'[u] = turn[u]
  BY <1>1 DEF TypesOK
<1>4. Number(t)' = Number(t)
  BY <1>3 DEF Number
<1>5. Spoke(t) => Spoke(t)'
  BY <1>1 DEF Spoke, TypesOK, RowsOK
<1>6. InFlight(t)'
  BY <1>3, <1>4 DEF InFlight, Numbered
<1>7. Honest(t, turn[t])'
  BY <1>1, <1>3, <1>5 DEF TurnInv, Honest
<1>8. TurnInv(t)'
  BY <1>2, <1>6, <1>7 DEF TurnInv, Acked
<1>9. Touches(t)
  BY <1>3 DEF Touches
<1>10. TypesOK'
  BY <1>1, <1>3 DEF TypesOK
<1> QED
  BY <1>8, <1>9, <1>10, Assemble

\* _send_visible returned or raised, with the row written or left as it was.
LEMMA EndingStep ==
    ASSUME OutboxInv, NEW t \in Turns, ~ Over(t), Continues(t),
           UNCHANGED <<sends, unknown, processed, posts>>, PoolOK', RowsOK',
           \A u \in Turns \ {t} : delivery'[u] = delivery[u],
           \A n \in Numbers : Row(t, n)'
    PROVE  Kept
<1>1. TypesOK /\ TurnInv(t)
  BY SameTypes DEF OutboxInv
<1>2. t \notin processed'
  BY <1>1 DEF TurnInv, Acked
<1>3. /\ turn' \in [Turns -> TurnRows] /\ lock' \in Turns \cup {NoOne}
      /\ \A u \in Turns \ {t} : turn'[u] = turn[u]
      /\ TurnInv(t)'
  BY <1>1, <1>2, ContinuesKeeps DEF TypesOK
<1>4. Touches(t)
  BY <1>3 DEF Touches
<1>5. TypesOK'
  BY <1>1, <1>3 DEF TypesOK
<1> QED
  BY <1>3, <1>4, <1>5, Assemble

LEMMA ReserveStep ==
    ASSUME OutboxInv, NEW t \in Turns, Reserve(t)
    PROVE  Kept
<1>t. TypesOK /\ turn[t] \in TurnRows /\ TurnInv(t) /\ PoolOK /\ RowsOK
  BY SameTypes DEF OutboxInv, TypesOK
<1>1. /\ turn[t].pc = "reserving" /\ ~ Over(t) /\ Numbered(turn[t])
      /\ UNCHANGED <<sends, unknown, processed, posts>>
      /\ Honest(t, turn[t])
  BY <1>t DEF Reserve, Over, TurnInv, InFlight
<1>2. PoolOK'
  BY <1>t, DatabaseKeeps DEF Reserve
<1>3. Number(t) \in Numbers
  BY <1>1 DEF Numbered, Number
<1>4. \A n \in Numbers : Row(t, n)
  BY <1>t DEF TurnInv
<1>5. CASE InsertRow(t) /\ Become(t, [turn[t] EXCEPT !.pc = "sending",
                                                   !.reserved = @ \cup {Number(t)}])
  <2> DEFINE q == [turn[t] EXCEPT !.pc = "sending", !.reserved = @ \cup {Number(t)}]
  <2>1. /\ q \in TurnRows /\ q.pc = "sending" /\ q.call = turn[t].call
        /\ q.sequence = turn[t].sequence /\ q.outcomes = turn[t].outcomes
    BY <1>t, <1>3 DEF TurnRows, PCs
  <2>2. turn' = [turn EXCEPT ![t] = q] /\ lock' = lock
    BY <1>5 DEF Become
  <2> HIDE DEF q
  <2>3. /\ RowsOK'
        /\ \A u \in Turns \ {t} : delivery'[u] = delivery[u]
        /\ delivery'[t][Number(t)] = "reserved"
        /\ sends[t][Number(t)] = 0
        /\ \A n \in Numbers : Row(t, n)'
    BY <1>1, <1>4, <1>5, <1>t, InsertKeeps
  <2>4. \A n \in Numbers : sends'[t][n] >= sends[t][n]
    BY <1>1, <1>t DEF RowsOK
  <2>5. /\ \A u \in Turns \ {t} :
              /\ delivery'[u] = delivery[u] /\ sends'[u] = sends[u]
              /\ \A n \in Numbers : <<u, n>> \in unknown' <=> <<u, n>> \in unknown
        /\ sends'[t][Number(t)] = 0
    BY <1>1, <2>3
  <2> QED
    BY <1>1, <1>2, <2>1, <2>2, <2>3, <2>4, <2>5, SendingStep
<1>6. CASE /\ EndSend(t, [turn[t] EXCEPT !.reserved = @ \cup {Number(t)}], "deduplicated")
           /\ UNCHANGED <<log, delivery>>
  <2> DEFINE q == [turn[t] EXCEPT !.reserved = @ \cup {Number(t)}]
  <2>1. /\ q \in TurnRows /\ q.pc = turn[t].pc /\ q.seen = turn[t].seen
        /\ q.outcomes = turn[t].outcomes
    BY <1>t, <1>3 DEF TurnRows
  <2>2. EndSend(t, q, "deduplicated")
    BY <1>6
  <2> HIDE DEF q
  <2>3. /\ [q EXCEPT !.outcomes = @ \cup {"deduplicated"}].outcomes
             = turn[t].outcomes \cup {"deduplicated"}
        /\ [q EXCEPT !.outcomes = @ \cup {"deduplicated"}].pc = turn[t].pc
    BY <2>1 DEF TurnRows
  <2>4. Honest(t, [q EXCEPT !.outcomes = @ \cup {"deduplicated"}])
    BY <1>1, <2>3 DEF Honest
  <2>5. Continues(t)
    BY <2>1, <2>2, <2>4, EndSendContinues DEF Outcomes
  <2> QED
    BY <1>1, <1>2, <1>6, <2>5, QuietStep DEF messageVars
<1>7. CASE SendRaises(t) /\ UNCHANGED <<log, delivery>>
  BY <1>t, <1>1, <1>2, <1>7, RaiseContinues, QuietStep DEF messageVars
<1>8. CASE SendRaises(t) /\ InsertRow(t)
  <2>1. /\ RowsOK'
        /\ \A u \in Turns \ {t} : delivery'[u] = delivery[u]
        /\ \A n \in Numbers : Row(t, n)'
    BY <1>1, <1>4, <1>8, <1>t, InsertKeeps
  <2> QED
    BY <1>t, <1>1, <1>2, <1>8, <2>1, RaiseContinues, EndingStep
<1> QED
  BY <1>5, <1>6, <1>7, <1>8 DEF Reserve

\* Twilio takes a message once: sends of that row goes from 0 to 1.
LEMMA TakesKeeps ==
    ASSUME RowsOK, NEW t \in Turns, NEW k \in Numbers, sends[t][k] = 0,
           sends' = [sends EXCEPT ![t][k] = @ + 1]
    PROVE  /\ sends' \in [Turns -> [Numbers -> Nat]]
           /\ \A u \in Turns \ {t} : sends'[u] = sends[u]
           /\ sends'[t][k] = 1
           /\ \A n \in Numbers : n # k => sends'[t][n] = sends[t][n]
BY DEF RowsOK

LEMMA TwilioSteps ==
    ASSUME OutboxInv, NEW t \in Turns
    PROVE  TwilioAccepts(t) \/ TwilioRaises(t) => Kept
<1>t. TypesOK /\ turn[t] \in TurnRows /\ TurnInv(t) /\ PoolOK /\ RowsOK
  BY SameTypes DEF OutboxInv, TypesOK
<1> SUFFICES ASSUME TwilioAccepts(t) \/ TwilioRaises(t) PROVE Kept
  OBVIOUS
<1> DEFINE k == Number(t)
<1>1. /\ turn[t].pc = "sending" /\ ~ Over(t) /\ Numbered(turn[t])
      /\ UNCHANGED <<log, delivery, processed, posts>> /\ PoolOK'
  BY <1>t DEF TwilioAccepts, TwilioRaises, Over, TurnInv, InFlight, PoolOK
<1>2. k \in Numbers
  BY <1>1 DEF Numbered, Number
<1>3. delivery[t][k] = "reserved" /\ sends[t][k] = 0 /\ <<t, k>> \notin unknown
  BY <1>t, <1>1, <1>2 DEF TurnInv, InFlight, Row
<1>4. /\ \A n \in Numbers : Row(t, n)
      /\ \A n \in Numbers : sends[t][n] \in Nat
  BY <1>t DEF TurnInv, RowsOK
<1>5. CASE TwilioAccepts(t)
  <2> DEFINE q == [turn[t] EXCEPT !.pc = "recording"]
  <2>1. /\ q \in TurnRows /\ q.pc = "recording" /\ q.call = turn[t].call
        /\ q.sequence = turn[t].sequence /\ q.outcomes = turn[t].outcomes
    BY <1>t DEF TurnRows, PCs
  <2>2. /\ turn' = [turn EXCEPT ![t] = q] /\ lock' = lock /\ unknown' = unknown
        /\ sends' = [sends EXCEPT ![t][k] = @ + 1]
    BY <1>5 DEF TwilioAccepts, TwilioTakes, Become
  <2> HIDE DEF q, k
  <2>3. /\ sends' \in [Turns -> [Numbers -> Nat]]
        /\ \A u \in Turns \ {t} : sends'[u] = sends[u]
        /\ sends'[t][k] = 1
        /\ \A n \in Numbers : n # k => sends'[t][n] = sends[t][n]
    <3>1. RowsOK
      BY <1>t
    <3> QED
      BY <1>2, <1>3, <2>2, <3>1, TakesKeeps
  <2>4. \A n \in Numbers : Row(t, n)'
    BY <1>1, <1>3, <1>4, <2>2, <2>3 DEF Row
  <2>5. \A n \in Numbers : sends'[t][n] >= sends[t][n]
    BY <1>3, <1>4, <2>3
  <2>6. RowsOK'
    BY <1>t, <1>1, <2>2, <2>3 DEF RowsOK
  <2> QED
    BY <1>1, <1>3, <2>1, <2>2, <2>3, <2>4, <2>5, <2>6, SendingStep DEF k
<1>6. CASE TwilioRaises(t)
  <2> DEFINE q == [turn[t] EXCEPT !.pc = "failing", !.outcomes = @ \cup {"send_failed"}]
  <2>1. /\ q \in TurnRows /\ q.pc = "failing" /\ q.call = turn[t].call
        /\ q.sequence = turn[t].sequence
        /\ q.outcomes \subseteq turn[t].outcomes \cup {"send_failed"}
    BY <1>t DEF TurnRows, PCs, Outcomes
  <2>2. /\ turn' = [turn EXCEPT ![t] = q] /\ lock' = lock
    BY <1>6 DEF TwilioRaises, Become
  <2>3. \/ UNCHANGED <<sends, unknown>>
        \/ sends' = [sends EXCEPT ![t][k] = @ + 1] /\ unknown' = unknown \cup {<<t, k>>}
    BY <1>6 DEF TwilioRaises, TwilioTakes
  <2> HIDE DEF q, k
  <2>4. CASE UNCHANGED <<sends, unknown>>
    <3>1. \A n \in Numbers : Row(t, n)'
      BY <1>1, <1>4, <2>4 DEF Row
    <3>2. RowsOK'
      BY <1>t, <1>1, <2>4 DEF RowsOK
    <3>3. \A n \in Numbers : sends'[t][n] >= sends[t][n]
      BY <1>4, <2>4
    <3>4. \A u \in Turns \ {t} :
            /\ delivery'[u] = delivery[u] /\ sends'[u] = sends[u]
            /\ \A n \in Numbers : <<u, n>> \in unknown' <=> <<u, n>> \in unknown
      BY <1>1, <2>4
    <3>5. sends'[t][k] = 1 <=> <<t, k>> \in unknown'
      BY <1>3, <2>4
    <3> QED
      BY <1>1, <1>3, <2>1, <2>2, <3>1, <3>2, <3>3, <3>4, <3>5, SendingStep DEF k
  <2>5. CASE sends' = [sends EXCEPT ![t][k] = @ + 1] /\ unknown' = unknown \cup {<<t, k>>}
    <3>1. /\ sends' \in [Turns -> [Numbers -> Nat]]
          /\ \A u \in Turns \ {t} : sends'[u] = sends[u]
          /\ sends'[t][k] = 1
          /\ \A n \in Numbers : n # k => sends'[t][n] = sends[t][n]
      BY <1>t, <1>2, <1>3, <2>5, TakesKeeps
    <3>2. \A n \in Numbers : Row(t, n)'
      BY <1>1, <1>3, <1>4, <2>5, <3>1 DEF Row
    <3>3. \A n \in Numbers : sends'[t][n] >= sends[t][n]
      BY <1>3, <1>4, <3>1
    <3>4. RowsOK'
      BY <1>t, <1>1, <1>2, <2>5, <3>1 DEF RowsOK
    <3>5. \A u \in Turns \ {t} : \A n \in Numbers : <<u, n>> \in unknown' <=> <<u, n>> \in unknown
      BY <2>5
    <3>6. <<t, k>> \in unknown'
      BY <2>5
    <3> QED
      BY <1>1, <1>3, <2>1, <2>2, <3>1, <3>2, <3>3, <3>4, <3>5, <3>6, SendingStep DEF k
  <2> QED
    BY <2>3, <2>4, <2>5
<1> QED
  BY <1>5, <1>6

LEMMA RecordSteps ==
    ASSUME OutboxInv, NEW t \in Turns
    PROVE  RecordSent(t) \/ RecordFailed(t) => Kept
<1>t. TypesOK /\ turn[t] \in TurnRows /\ TurnInv(t) /\ PoolOK /\ RowsOK
  BY SameTypes DEF OutboxInv, TypesOK
<1>h. Honest(t, turn[t]) /\ InFlight(t) /\ \A n \in Numbers : Row(t, n)
  BY <1>t DEF TurnInv
<1>1. CASE RecordSent(t)
  <2>1. /\ turn[t].pc = "recording" /\ ~ Over(t) /\ Numbered(turn[t])
        /\ UNCHANGED <<log, sends, unknown, processed, posts>>
        /\ Mark(t, "sent") \/ UNCHANGED delivery
    BY <1>1, <1>h DEF RecordSent, MayMark, Over, InFlight
  <2>2. PoolOK'
    BY <1>1, <1>t, DatabaseKeeps DEF RecordSent
  <2>3. /\ RowsOK' /\ \A n \in Numbers : Row(t, n)'
        /\ \A u \in Turns \ {t} : delivery'[u] = delivery[u]
    BY <1>t, <1>h, <2>1, MarkKeeps
  <2>4. Spoke(t)
    <3>1. sends[t][Number(t)] = 1 /\ Number(t) \in Numbers
      BY <1>h, <2>1 DEF InFlight, Numbered, Number
    <3>2. sends[t][Number(t)] > 0
      BY <3>1
    <3> QED
      BY <3>1, <3>2 DEF Spoke
  <2>5. ASSUME NEW o \in {"sent", "sent_persist_failed"}, EndSend(t, turn[t], o)
        PROVE  Continues(t)
    <3>1. [turn[t] EXCEPT !.outcomes = @ \cup {o}].pc = turn[t].pc
      BY <1>t DEF TurnRows
    <3>2. Honest(t, [turn[t] EXCEPT !.outcomes = @ \cup {o}])
      BY <2>1, <2>4, <3>1 DEF Honest
    <3> QED
      BY <1>t, <2>5, <3>2, EndSendContinues DEF Outcomes
  <2>6. Continues(t)
    BY <1>1, <2>5 DEF RecordSent
  <2> QED
    BY <2>1, <2>2, <2>3, <2>6, EndingStep
<1>2. CASE RecordFailed(t)
  <2>1. /\ turn[t].pc = "failing" /\ ~ Over(t) /\ Numbered(turn[t])
        /\ UNCHANGED <<log, sends, unknown, processed, posts>>
        /\ Mark(t, "failed") \/ UNCHANGED delivery
    BY <1>2, <1>h DEF RecordFailed, MayMark, Over, InFlight
  <2>2. PoolOK'
    BY <1>2, <1>t, DatabaseKeeps DEF RecordFailed
  <2>3. /\ RowsOK' /\ \A n \in Numbers : Row(t, n)'
        /\ \A u \in Turns \ {t} : delivery'[u] = delivery[u]
    BY <1>t, <1>h, <2>1, MarkKeeps
  <2>4. CASE EndSend(t, turn[t], "send_failed")
    <3>1. /\ [turn[t] EXCEPT !.outcomes = @ \cup {"send_failed"}].pc = turn[t].pc
          /\ [turn[t] EXCEPT !.outcomes = @ \cup {"send_failed"}].outcomes
               = turn[t].outcomes \cup {"send_failed"}
      BY <1>t DEF TurnRows
    <3>2. Honest(t, [turn[t] EXCEPT !.outcomes = @ \cup {"send_failed"}])
      BY <1>h, <2>1, <3>1 DEF Honest
    <3>3. Continues(t)
      BY <1>t, <2>4, <3>2, EndSendContinues DEF Outcomes
    <3> QED
      BY <2>1, <2>2, <2>3, <3>3, EndingStep
  <2>5. CASE SendRaises(t)
    BY <1>t, <1>h, <2>1, <2>2, <2>3, <2>5, RaiseContinues, EndingStep
  <2> QED
    BY <1>2, <2>4, <2>5 DEF RecordFailed
<1> QED
  BY <1>1, <1>2

LEMMA AcknowledgeStep ==
    ASSUME OutboxInv, NEW r \in Results, Acknowledge(r)
    PROVE  Kept
<1>t. TypesOK /\ r \in Turns /\ turn[r] \in TurnRows /\ TurnInv(r) /\ PoolOK
  BY SameTypes DEF OutboxInv, TypesOK, Turns
<1> DEFINE q == [turn[r] EXCEPT !.pc = "over"]
<1>1. q \in TurnRows /\ q.pc = "over" /\ q.outcomes = turn[r].outcomes
  BY <1>t DEF TurnRows, PCs
<1>2. /\ turn[r].pc = "acking" /\ turn' = [turn EXCEPT ![r] = q]
      /\ processed' = processed \/ processed' = processed \cup {r}
      /\ UNCHANGED <<messageVars, lock, posts>>
  BY DEF Acknowledge
<1> HIDE DEF q
<1>3. PoolOK'
  BY <1>t, DatabaseKeeps DEF Acknowledge
<1>4. /\ turn' \in [Turns -> TurnRows] /\ turn'[r] = q
      /\ \A u \in Turns \ {r} : turn'[u] = turn[u]
  BY <1>t, <1>1, <1>2 DEF TypesOK
<1>5. Touches(r)
  BY <1>2, <1>4 DEF Touches, messageVars
<1>6. TypesOK'
  BY <1>t, <1>2, <1>3, <1>4 DEF TypesOK, RowsOK, messageVars
<1>7. TurnInv(r)'
  <2>1. Spoke(r)' <=> Spoke(r)
    BY <1>2 DEF Spoke, messageVars
  <2>2. \A n \in Numbers : Row(r, n)'
    BY <1>t, <1>2 DEF TurnInv, Row, messageVars
  <2>3. Honest(r, turn[r])' /\ InFlight(r)' /\ Acked(r)'
    BY <1>t, <1>1, <1>2, <1>4, <2>1 DEF TurnInv, Honest, InFlight, Acked, Over
  <2> QED
    BY <2>2, <2>3 DEF TurnInv
<1> QED
  BY <1>t, <1>2, <1>5, <1>6, <1>7, Assemble DEF Over

LEMMA CrashStep == OutboxInv /\ Crash => Kept
<1> SUFFICES ASSUME OutboxInv, Crash PROVE Kept
  OBVIOUS
<1>t. TypesOK /\ PoolOK
  BY SameTypes DEF OutboxInv, TypesOK
<1> DEFINE q == [NewTurn EXCEPT !.pc = "over", !.end = "lost"]
<1>1. q \in TurnRows /\ q.pc = "over" /\ q.outcomes = {}
  BY NewTurnType DEF TurnRows, NewTurn, PCs, Ends
<1>2. /\ turn' = [t \in Turns |-> IF Alive(t) THEN q ELSE turn[t]]
      /\ lock' = NoOne /\ UNCHANGED <<messageVars, processed, posts>>
  BY DEF Crash
<1> HIDE DEF q
<1>3. PoolOK'
  <2>1. Fault
    BY DEF Crash
  <2> QED
    BY <1>t, <2>1, LimitsAssumption DEF Fault, PoolOK
<1>4. turn' \in [Turns -> TurnRows]
  BY <1>t, <1>1, <1>2 DEF TypesOK
<1>5. TypesOK'
  BY <1>t, <1>2, <1>3, <1>4 DEF TypesOK, RowsOK, messageVars
<1>6. ASSUME NEW t \in Turns PROVE TurnInv(t)'
  <2>1. TurnInv(t)
    BY DEF OutboxInv
  <2>2. Spoke(t)' <=> Spoke(t)
    BY <1>2 DEF Spoke, messageVars
  <2>3. \A n \in Numbers : Row(t, n)'
    BY <1>2, <2>1 DEF TurnInv, Row, messageVars
  <2>4. CASE Alive(t)
    <3>1. turn'[t] = q /\ t \notin processed
      BY <1>2, <2>1, <2>4 DEF TurnInv, Acked, Over, Alive
    <3>2. Honest(t, turn[t])' /\ InFlight(t)' /\ Acked(t)'
      BY <1>1, <1>2, <3>1 DEF Honest, InFlight, Acked
    <3> QED
      BY <2>3, <3>2 DEF TurnInv
  <2>5. CASE ~ Alive(t)
    <3>1. turn'[t] = turn[t]
      BY <1>2, <2>5
    <3>2. Honest(t, turn[t])' /\ InFlight(t)' /\ Acked(t)'
      BY <1>2, <2>1, <2>2, <3>1
         DEF TurnInv, Honest, InFlight, Acked, Over, Numbered, Number, messageVars
    <3> QED
      BY <2>3, <3>2 DEF TurnInv
  <2> QED
    BY <2>4, <2>5
<1>7. OutboxInv'
  BY <1>5, <1>6 DEF OutboxInv, TypeOK, TypesOK, RowsOK, PoolOK, Entries, TurnRows
<1>8. StaysOver
  BY <1>2 DEF StaysOver, Frozen, Over, Alive, messageVars
<1> QED
  BY <1>7, <1>8 DEF Kept

LEMMA SameTurns ==
    ASSUME OutboxInv, UNCHANGED <<messageVars, turn, processed>>, TypesOK'
    PROVE  Kept
<1>1. ASSUME NEW t \in Turns PROVE TurnInv(t)'
  <2>1. TurnInv(t) /\ (Spoke(t)' <=> Spoke(t))
    BY DEF OutboxInv, Spoke, messageVars
  <2> QED
    BY <2>1 DEF TurnInv, Row, Honest, InFlight, Acked, Over, Numbered, Number, messageVars
<1>2. OutboxInv'
  BY <1>1 DEF OutboxInv, TypeOK, TypesOK, RowsOK, PoolOK, Entries, TurnRows
<1>3. StaysOver
  BY DEF StaysOver, Frozen, messageVars
<1> QED
  BY <1>2, <1>3 DEF Kept

LEMMA InvStep == OutboxInv /\ [Next]_vars => Kept
<1> SUFFICES ASSUME OutboxInv, [Next]_vars PROVE Kept
  OBVIOUS
<1>t. TypesOK /\ PoolOK
  BY SameTypes DEF OutboxInv, TypesOK
<1>1. ASSUME NEW t \in Turns, LockConnectionDies(t) PROVE Kept
  <2>1. PoolOK'
    BY <1>1, <1>t, DatabaseKeeps DEF LockConnectionDies
  <2>2. TypesOK'
    BY <1>1, <1>t, <2>1 DEF LockConnectionDies, TypesOK, RowsOK, messageVars
  <2> QED
    BY <1>1, <2>2, SameTurns DEF LockConnectionDies
<1>2. CASE UNCHANGED vars
  <2>1. TypesOK'
    BY <1>2, <1>t DEF vars, messageVars, TypesOK, RowsOK, PoolOK
  <2> QED
    BY <1>2, <2>1, SameTurns DEF vars
<1>3. ASSUME NEW t \in Turns, TurnStep(t) \/ LockContact(t) PROVE Kept
  BY <1>3, LockSteps, ModelSteps, ReserveStep, TwilioSteps, RecordSteps DEF TurnStep
<1> QED
  BY <1>1, <1>2, <1>3, ArrivalSteps, AcknowledgeStep, CrashStep DEF Next, ResultStep

-----------------------------------------------------------------------------
LEMMA OutboxHolds == Spec => []OutboxInv
<1>1. Init => OutboxInv
  BY InitInv
<1>2. OutboxInv /\ [Next]_vars => OutboxInv'
  BY InvStep DEF Kept
<1> QED
  BY <1>1, <1>2, PTL DEF Spec

\* The rows, the turns and what they hold keep their types (run_interaction_event
\* and _send_visible of agent/interaction.py).
THEOREM TypeCorrect == Spec => []TypeOK
<1>1. OutboxInv => TypeOK
  BY DEF OutboxInv
<1> QED
  BY <1>1, OutboxHolds, PTL

\* No row of the outbox is ever sent twice, and its delivery state tells what
\* Twilio took, whatever crashes, raises and is lost between reserve, send and
\* record (reserve_interaction_outbound, update_interaction_outbound_delivery).
THEOREM TellsTheSend == Spec => []OutboxTellsTheSend
<1>1. OutboxInv => OutboxTellsTheSend
  BY DEF OutboxInv, TurnInv, Row, OutboxTellsTheSend
<1> QED
  BY <1>1, OutboxHolds, PTL

\* A result is marked processed only when its turn had a message taken, or found
\* one that it had reserved (mark_execution_event_processed).
THEOREM AcknowledgesSends == Spec => []AcknowledgedWasSent
<1>1. OutboxInv => AcknowledgedWasSent
  <2> SUFFICES ASSUME OutboxInv, NEW r \in processed
               PROVE  \/ \E n \in Numbers : sends[r][n] > 0
                      \/ "deduplicated" \in turn[r].outcomes
    BY DEF AcknowledgedWasSent
  <2>1. r \in Turns
    BY DEF OutboxInv, TypeOK, Turns
  <2> QED
    BY <2>1 DEF OutboxInv, TurnInv, Acked, Spoke
<1> QED
  BY <1>1, OutboxHolds, PTL

LEMMA RunsOnceStep ==
    OutboxInv /\ [Next]_vars =>
        [\A t \in Turns : Over(t) =>
            /\ Over(t)'
            /\ delivery'[t] = delivery[t]
            /\ sends'[t] = sends[t]]_vars
<1>1. OutboxInv /\ [Next]_vars => StaysOver
  BY InvStep DEF Kept
<1> QED
  BY <1>1 DEF StaysOver, Frozen, Over

\* A turn runs once: after its end neither a message posted again nor a crash
\* makes it speak (insert_inbound_message and the background turn).
THEOREM RunsOnce == Spec => TurnsRunOnce
BY RunsOnceStep, OutboxHolds, PTL DEF Spec, TurnsRunOnce

-----------------------------------------------------------------------------
(***************************************************************************)
(* What a turn knows.  While nothing breaks, a turn that has read the      *)
(* history holds the lock, so that only its own rows and messages of the   *)
(* person can have come after what it read.                                *)
(***************************************************************************)
Reading(t) == turn[t].pc = "loading" \/ Running(t)
Knows(t) == \A i \in turn[t].seen + 1 .. Len(log) : log[i].turn = t \/ log[i].seq = 0
KnowsUnderLock(t) == Reading(t) => lock = t /\ (Running(t) => Knows(t))
LatestInv == faults = 0 => \A t \in Turns : KnowsUnderLock(t)

\* A row that is the turn's own or a message of the person.
Adds(t) ==
    \/ log' = log
    \/ \E e \in Entries : log' = Append(log, e) /\ (e.turn = t \/ e.seq = 0)

LEMMA AddsKnows ==
    ASSUME RowsOK, NEW t \in Turns, turn[t].seen \in Nat, Knows(t), Adds(t),
           turn'[t].seen = turn[t].seen
    PROVE  Knows(t)'
<1>1. CASE log' = log
  BY <1>1 DEF Knows
<1>2. ASSUME NEW e \in Entries, log' = Append(log, e), e.turn = t \/ e.seq = 0
      PROVE  Knows(t)'
  <2>1. log \in Seq(Entries) /\ Len(log) \in Nat
    BY DEF RowsOK
  <2>2. /\ Len(log') = Len(log) + 1
        /\ log'[Len(log) + 1] = e
        /\ \A i \in 1 .. Len(log) : log'[i] = log[i]
    BY <1>2, <2>1
  <2>3. ASSUME NEW i \in turn[t].seen + 1 .. Len(log')
        PROVE  log'[i].turn = t \/ log'[i].seq = 0
    <3>1. CASE i \in 1 .. Len(log)
      BY <2>1, <2>2, <3>1 DEF Knows
    <3>2. CASE i = Len(log) + 1
      BY <1>2, <2>2, <3>2
    <3> QED
      BY <2>1, <2>2, <3>1, <3>2
  <2> QED
    BY <2>3 DEF Knows
<1> QED
  BY <1>1, <1>2 DEF Adds

\* The other turns: who reads holds the lock, so no other turn speaks.
LEMMA OthersKnow ==
    ASSUME OutboxInv, LatestInv, faults = 0, NEW t \in Turns, NEW u \in Turns \ {t},
           turn'[u] = turn[u], lock = u => lock' = u,
           Adds(t), Running(t) \/ Adds(u)
    PROVE  KnowsUnderLock(u)'
<1>t. RowsOK /\ turn[u].seen \in Nat
  BY SameTypes DEF OutboxInv, TypesOK, TurnRows
<1>1. KnowsUnderLock(u) /\ KnowsUnderLock(t)
  BY DEF LatestInv
<1>2. Reading(u)' <=> Reading(u)
  BY DEF Reading, Running
<1>3. Running(u)' <=> Running(u)
  BY DEF Running
<1>4. CASE Reading(u)
  <2>1. lock = u /\ lock' = u
    BY <1>1, <1>4 DEF KnowsUnderLock
  <2>2. ~ Running(t)
    BY <1>1, <2>1 DEF KnowsUnderLock, Reading
  <2>3. Running(u) => Knows(u)'
    BY <1>t, <1>1, <2>2, AddsKnows DEF KnowsUnderLock, Reading
  <2> QED
    BY <1>3, <2>1, <2>3 DEF KnowsUnderLock
<1> QED
  BY <1>2, <1>4 DEF KnowsUnderLock

\* A turn that has read the history and goes on, or gives the lock back.
LEMMA RunningGoesOn ==
    ASSUME OutboxInv, LatestInv, faults = 0, NEW t \in Turns, Running(t),
           NEW r \in TurnRows, turn' = [turn EXCEPT ![t] = r], Adds(t),
           \/ r.seen = turn[t].seen /\ lock' = lock
           \/ /\ r.pc \in {"over", "acking"}
              /\ lock' = IF lock = t THEN NoOne ELSE lock
    PROVE  LatestInv'
<1>t. RowsOK /\ turn \in [Turns -> TurnRows] /\ turn[t].seen \in Nat
  BY SameTypes DEF OutboxInv, TypesOK, TurnRows
<1>1. turn'[t] = r /\ \A u \in Turns \ {t} : turn'[u] = turn[u]
  BY <1>t
<1>2. lock = t /\ Knows(t)
  BY DEF LatestInv, KnowsUnderLock, Reading
<1>3. KnowsUnderLock(t)'
  <2>1. CASE r.pc \in {"over", "acking"}
    BY <1>1, <2>1 DEF KnowsUnderLock, Reading, Running
  <2>2. CASE r.seen = turn[t].seen /\ lock' = lock
    BY <1>t, <1>1, <1>2, <2>2, AddsKnows DEF KnowsUnderLock
  <2> QED
    BY <2>1, <2>2
<1>4. ASSUME NEW u \in Turns \ {t} PROVE KnowsUnderLock(u)'
  BY <1>1, <1>2, OthersKnow
<1> QED
  BY <1>3, <1>4 DEF LatestInv

LEMMA RunningContinues ==
    ASSUME OutboxInv, LatestInv, faults = 0, NEW t \in Turns, Running(t), Continues(t), Adds(t)
    PROVE  LatestInv'
<1>1. PICK r : GoesOn(t, r) /\ HandsOver(t, r)
  BY DEF Continues
<1> QED
  BY <1>1, RunningGoesOn DEF GoesOn, HandsOver

\* A turn that does not read yet, or no longer.
LEMMA OutsideStep ==
    ASSUME OutboxInv, LatestInv, faults = 0, NEW t \in Turns, NEW r \in TurnRows,
           turn' = [turn EXCEPT ![t] = r],
           r.pc \in {"addressed", "dispatched", "waiting", "over"},
           lock' = lock \/ lock' = IF lock = t THEN NoOne ELSE lock,
           log' = log \/ \E e \in Entries : log' = Append(log, e) /\ e.seq = 0
    PROVE  LatestInv'
<1>t. turn \in [Turns -> TurnRows]
  BY SameTypes DEF OutboxInv, TypesOK
<1>1. turn'[t] = r /\ \A u \in Turns \ {t} : turn'[u] = turn[u]
  BY <1>t
<1>2. KnowsUnderLock(t)'
  BY <1>1 DEF KnowsUnderLock, Reading, Running
<1>3. \A u \in Turns : Adds(u)
  BY DEF Adds
<1>4. ASSUME NEW u \in Turns \ {t} PROVE KnowsUnderLock(u)'
  BY <1>1, <1>3, OthersKnow
<1> QED
  BY <1>2, <1>4 DEF LatestInv

LEMMA LatestInit == Init => LatestInv
BY DEF Init, LatestInv, KnowsUnderLock, Reading, Running, NewTurn

\* Leaving takes a turn out of the lock.
LEMMA LeavingStep ==
    ASSUME OutboxInv, LatestInv, faults = 0, NEW t \in Turns, NEW how \in Ends,
           Leave(t, how, FALSE), log' = log
    PROVE  LatestInv'
<1> DEFINE q == [NewTurn EXCEPT !.pc = "over", !.end = how,
                                !.outcomes = turn[t].outcomes \cap {"deduplicated"}]
<1>1. q \in TurnRows /\ q.pc = "over"
  <2>1. turn[t].outcomes \in SUBSET Outcomes
    BY SameTypes DEF OutboxInv, TypesOK, TurnRows
  <2> QED
    BY <2>1, NewTurnType DEF TurnRows, NewTurn, PCs
<1>2. turn' = [turn EXCEPT ![t] = q] /\ lock' = IF lock = t THEN NoOne ELSE lock
  BY DEF Leave, LeaveAs
<1> HIDE DEF q
<1> QED
  BY <1>1, <1>2, OutsideStep

LEMMA LatestReads ==
    ASSUME OutboxInv, LatestInv, faults = 0, faults' = 0, NEW t \in Turns
    PROVE  Connect(t) \/ LockContact(t) \/ LoadContext(t) => LatestInv'
<1>t. turn \in [Turns -> TurnRows] /\ RowsOK /\ Len(log) \in Nat
  BY SameTypes DEF OutboxInv, TypesOK, RowsOK
<1>1. CASE Connect(t)
  <2>1. CASE Become(t, [turn[t] EXCEPT !.pc = "waiting"])
    <3> DEFINE q == [turn[t] EXCEPT !.pc = "waiting"]
    <3>0. turn[t] \in TurnRows
      BY <1>t
    <3>1. q \in TurnRows /\ q.pc = "waiting"
      BY <3>0 DEF TurnRows, PCs
    <3>2. turn' = [turn EXCEPT ![t] = q] /\ lock' = lock /\ log' = log
      BY <1>1, <2>1 DEF Become, Connect, messageVars
    <3> HIDE DEF q
    <3> QED
      BY <3>1, <3>2, OutsideStep
  <2>2. CASE Leave(t, "raised", FALSE)
    BY <1>1, <2>2, LeavingStep DEF Connect, messageVars, Ends
  <2> QED
    BY <1>1, <2>1, <2>2 DEF Connect
<1>2. CASE LockContact(t)
  <2>1. /\ lock = NoOne /\ lock' = t /\ log' = log /\ turn'[t].pc = "loading"
        /\ \A u \in Turns \ {t} : turn'[u] = turn[u]
    BY <1>2, <1>t DEF LockContact, messageVars, TurnRows
  <2>2. \A u \in Turns : ~ Reading(u)
    BY <2>1, TurnsAssumption DEF LatestInv, KnowsUnderLock, Turns
  <2>3. \A u \in Turns \ {t} : ~ Reading(u)'
    BY <2>1, <2>2 DEF Reading, Running
  <2>4. KnowsUnderLock(t)'
    BY <2>1 DEF KnowsUnderLock, Reading, Running
  <2> QED
    BY <2>3, <2>4 DEF LatestInv, KnowsUnderLock
<1>3. CASE LoadContext(t)
  <2>1. CASE Become(t, [turn[t] EXCEPT !.pc = "matching", !.seen = Len(log)])
    <3>1. /\ lock' = lock /\ log' = log /\ turn'[t].seen = Len(log)
          /\ \A u \in Turns \ {t} : turn'[u] = turn[u]
      BY <1>3, <2>1, <1>t DEF Become, LoadContext, messageVars, TurnRows
    <3>2. lock = t
      BY <1>3 DEF LatestInv, KnowsUnderLock, Reading, LoadContext
    <3>3. KnowsUnderLock(t)'
      BY <1>t, <3>1, <3>2 DEF KnowsUnderLock, Knows
    <3>4. ASSUME NEW u \in Turns \ {t} PROVE KnowsUnderLock(u)'
      BY <3>1, OthersKnow DEF Adds
    <3> QED
      BY <3>3, <3>4 DEF LatestInv
  <2>2. CASE Leave(t, "raised", FALSE) \/ Leave(t, "skipped", FALSE)
    BY <1>3, <2>2, LeavingStep DEF LoadContext, messageVars, Ends
  <2> QED
    BY <1>3, <2>1, <2>2 DEF LoadContext
<1> QED
  BY <1>1, <1>2, <1>3

LEMMA LatestSpeaks ==
    ASSUME OutboxInv, LatestInv, faults = 0, faults' = 0, NEW t \in Turns,
           ~ (Connect(t) \/ LoadContext(t)), TurnStep(t)
    PROVE  LatestInv'
<1>t. turn \in [Turns -> TurnRows] /\ turn[t] \in TurnRows /\ Honest(t, turn[t]) /\ RowsOK
  BY SameTypes DEF OutboxInv, TypesOK, TurnInv
<1>i. InFlight(t)
  BY DEF OutboxInv, TurnInv
<1>1. ASSUME NEW r \in TurnRows, Running(t), Become(t, r), r.seen = turn[t].seen, Adds(t)
      PROVE  LatestInv'
  BY <1>1, RunningGoesOn DEF Become
<1>2. ASSUME NEW p \in PCs, Running(t), Become(t, [turn[t] EXCEPT !.pc = p]), Adds(t)
      PROVE  LatestInv'
  <2>1. /\ [turn[t] EXCEPT !.pc = p] \in TurnRows
        /\ [turn[t] EXCEPT !.pc = p].seen = turn[t].seen
    BY <1>t DEF TurnRows
  <2> QED
    BY <1>1, <1>2, <2>1
<1>3. ASSUME Running(t), Adds(t), NEW how \in Ends, Leave(t, how, FALSE)
      PROVE  LatestInv'
  BY <1>3, <1>t, LeaveTurnContinues, RunningContinues
<1>4. CASE TellProposal(t) \/ FindPrompt(t)
  <2>1. Running(t) /\ Adds(t)
    BY <1>4 DEF TellProposal, FindPrompt, Running, Adds, messageVars
  <2>2. CASE BeginSend(t, "confirmation")
    BY <1>t, <2>1, <2>2, BeginSendContinues, RunningContinues DEF CallIds
  <2>3. CASE Become(t, [turn[t] EXCEPT !.pc = "thinking"])
    BY <1>2, <2>1, <2>3 DEF PCs
  <2>4. CASE Leave(t, "raised", FALSE) \/ Leave(t, "forgotten", FALSE)
    BY <1>3, <2>1, <2>4 DEF Ends
  <2> QED
    BY <1>4, <2>2, <2>3, <2>4 DEF TellProposal, FindPrompt
<1>5. CASE (\E c \in Calls : ModelCalls(t, c)) \/ ModelFinishes(t) \/ ModelFails(t) \/ UsageLimit(t)
  <2>1. Running(t) /\ Adds(t)
    BY <1>5 DEF ModelCalls, ModelFinishes, ModelFails, UsageLimit, Running, Adds, messageVars
  <2>2. ASSUME NEW c \in CallIds, BeginSend(t, c) PROVE LatestInv'
    BY <1>t, <2>1, <2>2, BeginSendContinues, RunningContinues
  <2>3. CASE AttemptFails(t)
    BY <1>t, <2>1, <2>3, AttemptContinues, RunningContinues
  <2>4. CASE Leave(t, "model", Delivered(turn[t].outcomes))
    BY <1>t, <2>1, <2>4, LeaveTurnContinues, RunningContinues DEF Ends, Delivered
  <2>5. CASE Leave(t, "stopped", FALSE)
    BY <1>3, <2>1, <2>5 DEF Ends
  <2> QED
    BY <1>5, <2>2, <2>3, <2>4, <2>5 DEF ModelCalls, ModelFinishes, ModelFails, UsageLimit, CallIds
<1>6. CASE Reserve(t)
  <2>1. Running(t) /\ Numbered(turn[t]) /\ Number(t) \in Numbers
    BY <1>6, <1>i DEF Reserve, Running, InFlight, Numbered, Number
  <2>2. Adds(t)
    <3>1. CASE InsertRow(t)
      <4>1. [turn |-> t, seq |-> Number(t)] \in Entries
        BY <2>1, LimitsAssumption DEF Entries, Numbers
      <4> QED
        BY <3>1, <4>1 DEF InsertRow, Adds
    <3>2. CASE log' = log
      BY <3>2 DEF Adds
    <3> QED
      BY <1>6, <3>1, <3>2 DEF Reserve
  <2>3. CASE Become(t, [turn[t] EXCEPT !.pc = "sending", !.reserved = @ \cup {Number(t)}])
    <3> DEFINE q == [turn[t] EXCEPT !.pc = "sending", !.reserved = @ \cup {Number(t)}]
    <3>1. q \in TurnRows /\ q.seen = turn[t].seen
      BY <1>t, <2>1 DEF TurnRows, PCs
    <3> HIDE DEF q
    <3>2. Become(t, q)
      BY <2>3 DEF q
    <3> QED
      BY <1>1, <2>1, <2>2, <3>1, <3>2
  <2>4. CASE EndSend(t, [turn[t] EXCEPT !.reserved = @ \cup {Number(t)}], "deduplicated")
    <3> DEFINE q == [turn[t] EXCEPT !.reserved = @ \cup {Number(t)}]
    <3>1. /\ q \in TurnRows /\ q.pc = turn[t].pc /\ q.seen = turn[t].seen
          /\ q.outcomes = turn[t].outcomes
      BY <1>t, <2>1 DEF TurnRows
    <3>2. EndSend(t, q, "deduplicated")
      BY <2>4
    <3> HIDE DEF q
    <3>3. /\ [q EXCEPT !.outcomes = @ \cup {"deduplicated"}].outcomes
               = turn[t].outcomes \cup {"deduplicated"}
          /\ [q EXCEPT !.outcomes = @ \cup {"deduplicated"}].pc = turn[t].pc
      BY <3>1 DEF TurnRows
    <3>4. Honest(t, [q EXCEPT !.outcomes = @ \cup {"deduplicated"}])
      BY <1>t, <1>6, <3>3 DEF Honest, Reserve
    <3> QED
      BY <2>1, <2>2, <3>1, <3>2, <3>4, EndSendContinues, RunningContinues DEF Outcomes
  <2>5. CASE SendRaises(t)
    BY <1>t, <2>1, <2>2, <2>5, RaiseContinues, RunningContinues
  <2> QED
    BY <1>6, <2>3, <2>4, <2>5 DEF Reserve
<1>7. CASE TwilioAccepts(t) \/ TwilioRaises(t)
  <2>1. Running(t) /\ Adds(t)
    BY <1>7 DEF TwilioAccepts, TwilioRaises, Running, Adds
  <2>2. CASE Become(t, [turn[t] EXCEPT !.pc = "recording"])
    BY <1>2, <2>1, <2>2 DEF PCs
  <2>3. CASE Become(t, [turn[t] EXCEPT !.pc = "failing", !.outcomes = @ \cup {"send_failed"}])
    <3> DEFINE q == [turn[t] EXCEPT !.pc = "failing", !.outcomes = @ \cup {"send_failed"}]
    <3>1. q \in TurnRows /\ q.seen = turn[t].seen
      BY <1>t DEF TurnRows, PCs, Outcomes
    <3> HIDE DEF q
    <3>2. Become(t, q)
      BY <2>3 DEF q
    <3> QED
      BY <1>1, <2>1, <3>1, <3>2
  <2> QED
    BY <1>7, <2>2, <2>3 DEF TwilioAccepts, TwilioRaises
<1>8. CASE RecordSent(t) \/ RecordFailed(t)
  <2>1. Running(t) /\ Adds(t) /\ turn[t].pc \in {"recording", "failing"}
    BY <1>8 DEF RecordSent, RecordFailed, Running, Adds
  <2>2. RecordSent(t) => Spoke(t)
    <3> SUFFICES ASSUME RecordSent(t) PROVE Spoke(t)
      OBVIOUS
    <3>1. sends[t][Number(t)] = 1 /\ Number(t) \in Numbers
      BY <1>i DEF InFlight, Numbered, Number, RecordSent
    <3>2. sends[t][Number(t)] > 0
      BY <3>1
    <3> QED
      BY <3>1, <3>2 DEF Spoke
  <2>3. ASSUME NEW o \in Outcomes, EndSend(t, turn[t], o),
               o \in {"sent", "sent_persist_failed"} => Spoke(t)
        PROVE  LatestInv'
    <3>1. /\ [turn[t] EXCEPT !.outcomes = @ \cup {o}].pc = turn[t].pc
          /\ [turn[t] EXCEPT !.outcomes = @ \cup {o}].outcomes = turn[t].outcomes \cup {o}
      BY <1>t DEF TurnRows
    <3>2. Honest(t, [turn[t] EXCEPT !.outcomes = @ \cup {o}])
      BY <1>t, <2>1, <2>3, <3>1 DEF Honest
    <3> QED
      BY <1>t, <2>1, <2>3, <3>2, EndSendContinues, RunningContinues
  <2>4. CASE SendRaises(t)
    BY <1>t, <2>1, <2>4, RaiseContinues, RunningContinues
  <2> QED
    BY <1>8, <2>2, <2>3, <2>4 DEF RecordSent, RecordFailed, Outcomes
<1> QED
  BY <1>4, <1>5, <1>6, <1>7, <1>8 DEF TurnStep

LEMMA LatestStep == OutboxInv /\ LatestInv /\ [Next]_vars => LatestInv'
<1> SUFFICES ASSUME OutboxInv, LatestInv, [Next]_vars, faults' = 0 PROVE LatestInv'
  BY DEF LatestInv
<1>t. turn \in [Turns -> TurnRows] /\ faults \in Nat /\ Inbounds \cup Results = Turns
  BY SameTypes, LimitsAssumption DEF OutboxInv, TypesOK, PoolOK, Turns
<1>f. ~ Fault
  BY <1>t DEF Fault
<1>1. faults = 0
  <2>1. faults' = faults \/ Fault
    BY DEF Next, vars, Webhook, ResultArrives, ResultStep, FindPhone, Acknowledge, TurnStep,
           Connect, LockContact, LoadContext, TellProposal, FindPrompt, ModelCalls,
           ModelFinishes, ModelFails, UsageLimit, Reserve, TwilioAccepts, TwilioRaises,
           RecordSent, RecordFailed, LockConnectionDies, Crash, Database, DatabaseRaises,
           PoolTimeout
  <2> QED
    BY <1>f, <2>1
<1>2. ASSUME NEW m \in Inbounds, Webhook(m) PROVE LatestInv'
  <2>1. CASE Known(m)
    BY <1>1, <1>2, <2>1
       DEF Webhook, LatestInv, KnowsUnderLock, Reading, Running, Knows
  <2>2. CASE ~ Known(m)
    <3> DEFINE q == [turn[m] EXCEPT !.pc = "dispatched"]
    <3>0. m \in Turns /\ turn[m] \in TurnRows
      BY <1>t
    <3>1. q \in TurnRows /\ q.pc = "dispatched"
      BY <3>0 DEF TurnRows, PCs
    <3>2. /\ turn' = [turn EXCEPT ![m] = q] /\ lock' = lock
          /\ log' = Append(log, [turn |-> m, seq |-> 0])
      BY <1>2, <2>2 DEF Webhook
    <3> HIDE DEF q
    <3>3. [turn |-> m, seq |-> 0] \in Entries
      BY <3>0, LimitsAssumption DEF Entries
    <3> QED
      BY <1>1, <3>0, <3>1, <3>2, <3>3, OutsideStep
  <2> QED
    BY <2>1, <2>2
<1>3. ASSUME NEW r \in Results, NEW q \in TurnRows,
             q.pc \in {"addressed", "dispatched", "over"},
             turn' = [turn EXCEPT ![r] = q], lock' = lock, log' = log
      PROVE  LatestInv'
  BY <1>1, <1>3, <1>t, OutsideStep
<1>4. ASSUME NEW r \in Results, ResultArrives(r) PROVE LatestInv'
  <2>0. turn[r] \in TurnRows
    BY <1>t
  <2>1. [turn[r] EXCEPT !.pc = "addressed"] \in TurnRows
        /\ [turn[r] EXCEPT !.pc = "addressed"].pc = "addressed"
    BY <2>0 DEF TurnRows, PCs
  <2> QED
    BY <1>3, <1>4, <2>1 DEF ResultArrives, messageVars
<1>5. ASSUME NEW r \in Results, FindPhone(r) PROVE LatestInv'
  <2>0. turn[r] \in TurnRows
    BY <1>t
  <2>1. /\ [turn[r] EXCEPT !.pc = "dispatched"] \in TurnRows
        /\ [turn[r] EXCEPT !.pc = "dispatched"].pc = "dispatched"
    BY <2>0 DEF TurnRows, PCs
  <2>4. /\ [turn[r] EXCEPT !.pc = "over", !.end = "raised"] \in TurnRows
        /\ [turn[r] EXCEPT !.pc = "over", !.end = "raised"].pc = "over"
    BY <2>0 DEF TurnRows, PCs, Ends
  <2>2. CASE turn' = [turn EXCEPT ![r].pc = "dispatched"]
    BY <1>3, <1>5, <2>1, <2>2 DEF FindPhone, messageVars
  <2>3. CASE turn' = [turn EXCEPT ![r].pc = "over", ![r].end = "raised"]
    <3>1. turn' = [turn EXCEPT ![r] = [turn[r] EXCEPT !.pc = "over", !.end = "raised"]]
      BY <1>t, <2>3
    <3> QED
      BY <1>3, <1>5, <2>4, <3>1 DEF FindPhone, messageVars
  <2> QED
    BY <1>5, <2>2, <2>3 DEF FindPhone
<1>6. ASSUME NEW r \in Results, Acknowledge(r) PROVE LatestInv'
  <2>0. turn[r] \in TurnRows
    BY <1>t
  <2>1. [turn[r] EXCEPT !.pc = "over"] \in TurnRows /\ [turn[r] EXCEPT !.pc = "over"].pc = "over"
    BY <2>0 DEF TurnRows, PCs
  <2> QED
    BY <1>3, <1>6, <2>1 DEF Acknowledge, messageVars
<1>7. ASSUME NEW t \in Turns, TurnStep(t) \/ LockContact(t) PROVE LatestInv'
  BY <1>1, <1>7, LatestReads, LatestSpeaks
<1>8. CASE UNCHANGED vars
  BY <1>8 DEF vars, messageVars, LatestInv, KnowsUnderLock, Reading, Running, Knows
<1>9. \A t \in Turns : ~ LockConnectionDies(t)
  BY <1>f DEF LockConnectionDies
<1>10. ~ Crash
  BY <1>f DEF Crash
<1> QED
  BY <1>2, <1>4, <1>5, <1>6, <1>7, <1>8, <1>9, <1>10 DEF Next, ResultStep

\* While nothing breaks, a turn speaks knowing everything the others said before
\* it: it reads the history under the lock that they speak under
\* (contact_interaction_lock, load_recent_messages).
THEOREM KnowsTheLatest == Spec => []SpeaksToTheLatest
<1>1. Init => LatestInv
  BY LatestInit
<1>2. OutboxInv /\ LatestInv /\ [Next]_vars => LatestInv'
  BY LatestStep
<1>3. LatestInv => SpeaksToTheLatest
  BY DEF LatestInv, KnowsUnderLock, Reading, Knows, SpeaksToTheLatest
<1> QED
  BY <1>1, <1>2, <1>3, OutboxHolds, PTL DEF Spec

-----------------------------------------------------------------------------
(***************************************************************************)
(* Every inbound is answered.  Until a turn has tried its first message it *)
(* has no number for another one and nothing to regret: whatever the model *)
(* does, the turn reaches the reservation of the first row, unless the     *)
(* model ends the turn without a word or the history has lost the message. *)
(***************************************************************************)
Tried(t) == \E n \in Numbers : delivery[t][n] # "none"
Calm(t) == faults = 0 /\ t \notin starved
Untried(r) ==
    /\ r.reserved = {}
    /\ r.pc \notin {"sending", "recording", "failing"}
    /\ r.pc = "reserving" \/ \A c \in CallIds : r.sequence[c] = 0
    /\ r.pc = "over" => r.end \in {"model", "forgotten"}
Answers(m) ==
    /\ turn[m].pc # "none" => log # <<>>
    /\ Calm(m) => Tried(m) \/ Untried(turn[m])
AnswerInv == \A m \in Inbounds : Answers(m)

\* What a turn does to the turns, and to the rows.
Moves(t) == \E r : turn' = [turn EXCEPT ![t] = r]
LEMMA ControlMoves ==
    ASSUME NEW t \in Turns
    PROVE  /\ \A r : Become(t, r) => Moves(t)
           /\ \A r, how, d : LeaveAs(t, r, how, d) => Moves(t)
           /\ \A r, o : EndSend(t, r, o) => Moves(t)
           /\ \A c : BeginSend(t, c) => Moves(t)
           /\ AttemptFails(t) => Moves(t)
           /\ SendRaises(t) => Moves(t)
<1>1. ASSUME NEW r, Become(t, r) PROVE Moves(t)
  BY <1>1 DEF Become, Moves
<1>2. ASSUME NEW r, NEW how, NEW d, LeaveAs(t, r, how, d) PROVE Moves(t)
  BY <1>2 DEF LeaveAs, Moves
<1>3. ASSUME NEW r, NEW o, EndSend(t, r, o) PROVE Moves(t)
  BY <1>1, <1>2, <1>3 DEF EndSend
<1>4. ASSUME NEW c, BeginSend(t, c) PROVE Moves(t)
  BY <1>1, <1>3, <1>4 DEF BeginSend
<1>5. ASSUME AttemptFails(t) PROVE Moves(t)
  BY <1>1, <1>2, <1>4, <1>5 DEF AttemptFails, Leave
<1>6. ASSUME SendRaises(t) PROVE Moves(t)
  BY <1>2, <1>5, <1>6 DEF SendRaises, Leave
<1> QED
  BY <1>1, <1>2, <1>3, <1>4, <1>5, <1>6

LEMMA TurnMoves ==
    ASSUME NEW t \in Turns, TurnStep(t) \/ LockContact(t)
    PROVE  Moves(t)
<1>1. CASE Connect(t) \/ LoadContext(t) \/ FindPrompt(t) \/ TellProposal(t)
  BY <1>1, ControlMoves DEF Connect, LoadContext, FindPrompt, TellProposal, Leave
<1>2. CASE (\E c \in Calls : ModelCalls(t, c)) \/ ModelFinishes(t) \/ ModelFails(t) \/ UsageLimit(t)
  BY <1>2, ControlMoves DEF ModelCalls, ModelFinishes, ModelFails, UsageLimit, Leave
<1>3. CASE Reserve(t) \/ TwilioAccepts(t) \/ TwilioRaises(t) \/ RecordSent(t) \/ RecordFailed(t)
  BY <1>3, ControlMoves DEF Reserve, TwilioAccepts, TwilioRaises, RecordSent, RecordFailed
<1>4. CASE LockContact(t)
  BY <1>4 DEF LockContact, Moves
<1> QED
  BY <1>1, <1>2, <1>3, <1>4 DEF TurnStep

LEMMA TurnWrites ==
    ASSUME OutboxInv, NEW t \in Turns, TurnStep(t) \/ LockContact(t)
    PROVE  \/ delivery' = delivery
           \/ \E n \in Numbers, s \in {"reserved", "sent", "failed"} :
                delivery' = [delivery EXCEPT ![t][n] = s]
<1>1. CASE Reserve(t) \/ RecordSent(t) \/ RecordFailed(t)
  <2>1. Number(t) \in Numbers
    BY <1>1 DEF OutboxInv, TurnInv, InFlight, Numbered, Number, Reserve, RecordSent, RecordFailed
  <2> QED
    BY <1>1, <2>1 DEF Reserve, RecordSent, RecordFailed, InsertRow, Mark, MayMark
<1>2. CASE Connect(t) \/ LoadContext(t) \/ FindPrompt(t) \/ TellProposal(t) \/ LockContact(t)
  BY <1>2 DEF Connect, LoadContext, FindPrompt, TellProposal, LockContact, messageVars
<1>3. CASE (\E c \in Calls : ModelCalls(t, c)) \/ ModelFinishes(t) \/ ModelFails(t) \/ UsageLimit(t)
  BY <1>3 DEF ModelCalls, ModelFinishes, ModelFails, UsageLimit, messageVars
<1>4. CASE TwilioAccepts(t) \/ TwilioRaises(t)
  BY <1>4 DEF TwilioAccepts, TwilioRaises
<1> QED
  BY <1>1, <1>2, <1>3, <1>4 DEF TurnStep

LEMMA LogStays ==
    ASSUME OutboxInv, [Next]_vars, log # <<>>
    PROVE  log' # <<>>
<1>1. ASSUME NEW e, log' = Append(log, e) PROVE log' # <<>>
  <2>1. log \in Seq(Entries)
    BY SameTypes DEF OutboxInv, TypesOK, RowsOK
  <2> QED
    BY <1>1, <2>1
<1>2. log' = log \/ \E e : log' = Append(log, e)
  BY DEF Next, vars, Webhook, ResultArrives, ResultStep, FindPhone, Acknowledge, TurnStep,
         Connect, LockContact, LoadContext, TellProposal, FindPrompt, ModelCalls,
         ModelFinishes, ModelFails, UsageLimit, Reserve, InsertRow, TwilioAccepts, TwilioRaises,
         RecordSent, RecordFailed, LockConnectionDies, Crash, messageVars
<1> QED
  BY <1>1, <1>2

\* What was tried stays so, and what is calm was so before.
LEMMA CalmBefore ==
    ASSUME OutboxInv, [Next]_vars, NEW m \in Inbounds, Calm(m)'
    PROVE  Calm(m) /\ ~ DatabaseRaises(m) /\ ~ Fault
<1>t. faults \in Nat
  BY SameTypes, LimitsAssumption DEF OutboxInv, TypesOK, PoolOK
<1>1. \/ faults' = faults /\ starved \subseteq starved'
      \/ Fault
  BY DEF Next, vars, Webhook, ResultArrives, ResultStep, FindPhone, Acknowledge, TurnStep,
         Connect, LockContact, LoadContext, TellProposal, FindPrompt, ModelCalls,
         ModelFinishes, ModelFails, UsageLimit, Reserve, TwilioAccepts, TwilioRaises,
         RecordSent, RecordFailed, LockConnectionDies, Crash, Database, DatabaseRaises,
         PoolTimeout
<1>2. ~ Fault
  BY <1>t DEF Calm, Fault
<1>3. ~ PoolTimeout(m)
  BY DEF Calm, PoolTimeout
<1> QED
  BY <1>1, <1>2, <1>3 DEF Calm, DatabaseRaises

\* The first message of a turn has the number 1.
LEMMA FirstSend ==
    ASSUME NEW t \in Turns, turn \in [Turns -> TurnRows], NEW c \in CallIds,
           Untried(turn[t]), turn[t].pc = "thinking", BeginSend(t, c)
    PROVE  Untried(turn'[t])
<1>1. turn[t] \in TurnRows /\ \A d \in CallIds : turn[t].sequence[d] = 0
  BY DEF Untried
<1>2. {d \in CallIds : turn[t].sequence[d] > 0} = {}
  BY <1>1
<1>3. SequenceFor(turn[t].sequence, c) = 1
  <2>1. ~ (turn[t].sequence[c] > 0)
    BY <1>1
  <2>2. Cardinality({d \in CallIds : turn[t].sequence[d] > 0}) = 0
    BY <1>2, FS_EmptySet
  <2> QED
    BY <2>1, <2>2 DEF SequenceFor
<1> DEFINE r == [turn[t] EXCEPT !.call = c, !.sequence[c] = 1]
<1>4. r \in TurnRows /\ r.reserved = {}
  BY <1>1 DEF TurnRows, Untried
<1>5. Become(t, [r EXCEPT !.pc = "reserving"])
  BY <1>3, LimitsAssumption DEF BeginSend
<1> HIDE DEF r
<1>6. turn'[t].pc = "reserving" /\ turn'[t].reserved = {}
  BY <1>4, <1>5 DEF Become, TurnRows
<1> QED
  BY <1>6 DEF Untried

\* A turn that is over without a try was ended by the model, or had no prompt.
LEMMA SilentEnd ==
    ASSUME NEW m \in Inbounds, turn \in [Turns -> TurnRows], NEW how \in {"model", "forgotten"},
           NEW d, Leave(m, how, d)
    PROVE  Untried(turn'[m])
<1>1. m \in Turns /\ m \notin Results
  BY TurnsAssumption DEF Turns
<1> DEFINE r == [NewTurn EXCEPT !.pc = "over", !.end = how,
                                !.outcomes = turn[m].outcomes \cap {"deduplicated"}]
<1>2. turn' = [turn EXCEPT ![m] = r]
  BY <1>1 DEF Leave, LeaveAs
<1>3. r.pc = "over" /\ r.end = how /\ r.reserved = {} /\ r.sequence = [c \in CallIds |-> 0]
  BY DEF NewTurn
<1> HIDE DEF r
<1>4. turn'[m] = r
  BY <1>1, <1>2
<1> QED
  BY <1>3, <1>4 DEF Untried

\* The next step of a calm turn that has tried nothing yet.
LEMMA FirstSteps ==
    ASSUME OutboxInv, NEW m \in Inbounds, TurnStep(m) \/ LockContact(m), Untried(turn[m]),
           ~ Tried(m), log # <<>>, ~ DatabaseRaises(m), ~ Fault
    PROVE  Tried(m)' \/ Untried(turn'[m])
<1>t. /\ turn \in [Turns -> TurnRows] /\ turn[m] \in TurnRows
      /\ m \in Turns /\ m \notin Results
      /\ delivery \in [Turns -> [Numbers -> DeliveryStates]]
  BY SameTypes, TurnsAssumption DEF OutboxInv, TypesOK, RowsOK, Turns
<1>1. ASSUME NEW p \in {"waiting", "thinking", "loading"}, NEW r \in TurnRows, r.pc = p,
             r.reserved = turn[m].reserved, r.sequence = turn[m].sequence,
             turn' = [turn EXCEPT ![m] = r], turn[m].pc # "reserving"
      PROVE  Untried(turn'[m])
  BY <1>t, <1>1 DEF Untried
<1>2. ASSUME NEW p \in {"waiting", "thinking", "loading"}, turn' = [turn EXCEPT ![m].pc = p],
             turn[m].pc # "reserving"
      PROVE  Untried(turn'[m])
  <2>1. /\ [turn[m] EXCEPT !.pc = p] \in TurnRows
        /\ [turn[m] EXCEPT !.pc = p].pc = p
        /\ [turn[m] EXCEPT !.pc = p].reserved = turn[m].reserved
        /\ [turn[m] EXCEPT !.pc = p].sequence = turn[m].sequence
    BY <1>t DEF TurnRows, PCs
  <2> QED
    BY <1>1, <1>2, <2>1
<1>3. CASE Connect(m) \/ LockContact(m)
  BY <1>2, <1>3 DEF Connect, LockContact, Become
<1>4. CASE LoadContext(m)
  <2> DEFINE r == [turn[m] EXCEPT !.pc = "matching", !.seen = Len(log)]
  <2>1. Become(m, r) /\ turn[m].pc = "loading"
    BY <1>4 DEF LoadContext
  <2>2. r.pc = "matching" /\ r.reserved = turn[m].reserved /\ r.sequence = turn[m].sequence
    BY <1>t DEF TurnRows
  <2> HIDE DEF r
  <2>3. turn'[m] = r
    BY <1>t, <2>1 DEF Become
  <2> QED
    BY <2>1, <2>2, <2>3 DEF Untried
<1>5. CASE FindPrompt(m) \/ TellProposal(m)
  <2>1. CASE Become(m, [turn[m] EXCEPT !.pc = "thinking"])
    BY <1>2, <1>5, <1>t, <2>1 DEF FindPrompt, TellProposal, Become
  <2>2. CASE Leave(m, "forgotten", FALSE)
    BY <1>t, <2>2, SilentEnd
  <2> QED
    BY <1>5, <1>t, <2>1, <2>2 DEF FindPrompt, TellProposal
<1>6. CASE (\E c \in Calls : ModelCalls(m, c)) \/ ModelFinishes(m) \/ ModelFails(m) \/ UsageLimit(m)
  <2>1. turn[m].pc = "thinking" /\ turn[m].reserved = {}
    BY <1>6 DEF ModelCalls, ModelFinishes, ModelFails, UsageLimit, Untried
  <2>2. ASSUME NEW c \in CallIds, BeginSend(m, c) PROVE Untried(turn'[m])
    BY <1>t, <2>1, <2>2, FirstSend
  <2>3. CASE Leave(m, "model", Delivered(turn[m].outcomes))
    BY <1>t, <2>3, SilentEnd
  <2>4. CASE Become(m, [turn[m] EXCEPT !.pc = "thinking", !.attempt = 1, !.requests = 0])
    <3> DEFINE r == [turn[m] EXCEPT !.pc = "thinking", !.attempt = 1, !.requests = 0]
    <3>1. /\ r \in TurnRows /\ r.pc = "thinking" /\ r.reserved = turn[m].reserved
          /\ r.sequence = turn[m].sequence
      <4>1. 1 \in 0 .. 1 /\ 0 \in Nat /\ "thinking" \in PCs
        BY DEF PCs
      <4> QED
        BY <1>t, <4>1 DEF TurnRows
    <3>2. turn' = [turn EXCEPT ![m] = r]
      BY <2>4 DEF Become
    <3> HIDE DEF r
    <3> QED
      BY <1>1, <2>1, <3>1, <3>2
  <2> QED
    BY <1>6, <1>t, <2>1, <2>2, <2>3, <2>4
    DEF ModelCalls, ModelFinishes, ModelFails, UsageLimit, AttemptFails, CallIds
<1>7. CASE Reserve(m)
  <2>1. Number(m) \in Numbers
    BY <1>7 DEF OutboxInv, TurnInv, InFlight, Numbered, Number, Reserve, Turns
  <2>2. delivery[m][Number(m)] = "none"
    BY <2>1 DEF Tried
  <2>3. InsertRow(m)
    BY <1>7, <2>2 DEF Reserve
  <2>4. delivery'[m][Number(m)] = "reserved"
    BY <1>t, <2>1, <2>3 DEF InsertRow
  <2> QED
    BY <2>1, <2>4 DEF Tried
<1>8. ~ (TwilioAccepts(m) \/ TwilioRaises(m) \/ RecordSent(m) \/ RecordFailed(m))
  BY DEF TwilioAccepts, TwilioRaises, RecordSent, RecordFailed, Untried
<1> QED
  BY <1>3, <1>4, <1>5, <1>6, <1>7, <1>8 DEF TurnStep

LEMMA AnswerStep == OutboxInv /\ AnswerInv /\ [Next]_vars => AnswerInv'
<1> SUFFICES ASSUME OutboxInv, AnswerInv, [Next]_vars, NEW m \in Inbounds PROVE Answers(m)'
  BY DEF AnswerInv
<1>t. /\ turn \in [Turns -> TurnRows]
      /\ delivery \in [Turns -> [Numbers -> DeliveryStates]]
      /\ log \in Seq(Entries)
      /\ m \in Turns /\ m \notin Results /\ Inbounds \subseteq Turns /\ Results \subseteq Turns
  BY SameTypes, TurnsAssumption DEF OutboxInv, TypesOK, RowsOK, Turns
<1>a. Answers(m)
  BY DEF AnswerInv
\* A step that is none of this turn's.
<1>1. ASSUME turn'[m] = turn[m], delivery'[m] = delivery[m] PROVE Answers(m)'
  BY <1>1, <1>a, LogStays, CalmBefore DEF Answers, Tried
<1>2. ASSUME NEW t \in Turns, TurnStep(t) \/ LockContact(t) PROVE Answers(m)'
  <2>1. CASE t # m
    <3>1. turn'[m] = turn[m]
      BY <1>2, <1>t, <2>1, TurnMoves DEF Moves
    <3>2. delivery'[m] = delivery[m]
      BY <1>2, <1>t, <2>1, TurnWrites
    <3> QED
      BY <1>1, <3>1, <3>2
  <2>2. CASE t = m
    <3>1. turn[m].pc # "none"
      BY <1>2, <2>2
      DEF TurnStep, LockContact, Connect, LoadContext, TellProposal, FindPrompt, ModelCalls,
          ModelFinishes, ModelFails, UsageLimit, Reserve, TwilioAccepts, TwilioRaises,
          RecordSent, RecordFailed
    <3>2. log # <<>> /\ log' # <<>>
      BY <1>a, <3>1, LogStays DEF Answers
    <3>3. CASE Tried(m)
      <4>1. PICK n \in Numbers : delivery[m][n] # "none"
        BY <3>3 DEF Tried
      <4>2. delivery'[m][n] # "none"
        BY <1>2, <1>t, <2>2, <4>1, TurnWrites
      <4> QED
        BY <3>2, <4>2 DEF Answers, Tried
    <3>4. CASE ~ Tried(m) /\ Calm(m)'
      <4>1. Untried(turn[m]) /\ ~ DatabaseRaises(m) /\ ~ Fault
        BY <1>a, <3>4, CalmBefore DEF Answers
      <4> QED
        BY <1>2, <2>2, <3>2, <3>4, <4>1, FirstSteps DEF Answers
    <3> QED
      BY <3>2, <3>3, <3>4 DEF Answers
  <2> QED
    BY <2>1, <2>2
<1>3. ASSUME NEW n \in Inbounds, Webhook(n) PROVE Answers(m)'
  <2>1. CASE Known(n) \/ n # m
    <3>1. turn'[m] = turn[m] /\ delivery'[m] = delivery[m]
      BY <1>3, <1>t, <2>1 DEF Webhook
    <3> QED
      BY <1>1, <3>1
  <2>2. CASE ~ Known(n) /\ n = m
    <3>1. /\ turn[m].pc = "none" /\ turn' = [turn EXCEPT ![m].pc = "dispatched"]
          /\ log' = Append(log, [turn |-> m, seq |-> 0]) /\ delivery' = delivery
      BY <1>3, <2>2 DEF Webhook, Known
    <3>2. log' # <<>>
      BY <1>t, <3>1
    <3>3. /\ turn'[m].pc = "dispatched" /\ turn'[m].reserved = turn[m].reserved
          /\ turn'[m].sequence = turn[m].sequence
      BY <1>t, <3>1 DEF TurnRows
    <3>4. Untried(turn[m]) => Untried(turn'[m])
      BY <3>1, <3>3 DEF Untried
    <3>5. Tried(m)' <=> Tried(m)
      BY <3>1 DEF Tried
    <3> QED
      BY <1>a, <3>2, <3>4, <3>5, CalmBefore DEF Answers
  <2> QED
    BY <2>1, <2>2
<1>4. ASSUME NEW r \in Results, ResultArrives(r) \/ ResultStep(r) PROVE Answers(m)'
  <2>1. r # m /\ delivery' = delivery
    BY <1>4, <1>t DEF ResultArrives, ResultStep, FindPhone, Acknowledge, messageVars
  <2>2. turn'[m] = turn[m]
    BY <1>4, <1>t, <2>1 DEF ResultArrives, ResultStep, FindPhone, Acknowledge
  <2> QED
    BY <1>1, <2>1, <2>2
\* A fault is none of the calm.
<1>5. CASE Crash \/ \E t \in Turns : LockConnectionDies(t)
  <2>1. ~ Calm(m)' /\ log' = log
    BY <1>5, CalmBefore DEF Crash, LockConnectionDies, messageVars
  <2>2. turn'[m].pc # "none" => turn[m].pc # "none"
    BY <1>5, <1>t DEF Crash, LockConnectionDies, Alive
  <2> QED
    BY <1>a, <2>1, <2>2 DEF Answers
<1>6. CASE UNCHANGED vars
  BY <1>1, <1>6 DEF vars, messageVars
<1> QED
  BY <1>2, <1>3, <1>4, <1>5, <1>6 DEF Next

\* While nothing breaks and the pool has a connection for it, no inbound is left without
\* an answer by the code: its turn ends with a message tried, or because the model chose
\* to say nothing, or because newer messages had pushed it out of the history
\* (run_interaction_event, _run_interaction_agent).
THEOREM AnswersInbounds == Spec => []EveryInboundAnswered
<1>1. Init => AnswerInv
  <2> SUFFICES ASSUME Init, NEW m \in Inbounds PROVE Answers(m)
    BY DEF AnswerInv
  <2>1. turn[m] = NewTurn
    BY DEF Init, Turns
  <2> QED
    BY <2>1 DEF Answers, Untried, NewTurn
<1>2. AnswerInv => EveryInboundAnswered
  BY DEF AnswerInv, Answers, Calm, Tried, Untried, Over, EveryInboundAnswered
<1> QED
  BY <1>1, <1>2, AnswerStep, OutboxHolds, PTL DEF Spec

=============================================================================
