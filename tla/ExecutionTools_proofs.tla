----------------------- MODULE ExecutionTools_proofs -----------------------
(***************************************************************************)
(* Theorems about the tools of an Execution run, for every number of rows, *)
(* calls, drafts and faults, every set of time zones and every length of   *)
(* the day.  One toolkit writes one group of variables; the invariant of   *)
(* each group is proved for the steps of its own group first.              *)
(***************************************************************************)
EXTENDS ExecutionTools, TLAPS, SequenceTheorems, WellFoundedInduction

-----------------------------------------------------------------------------
(***************************************************************************)
(* Rows named by their position.                                           *)
(***************************************************************************)

Statuses == {"none", "open", "active", "paused", "sent", "done", "cancelled"}
Closed == {"done", "cancelled"}
AllOps == Closing \cup {"pause", "resume"}

\* The types that the argument needs; a call in flight is of a tool of its
\* table.  That its item is a row is not needed, and SortSeq has no definition
\* here it could be proved from: an update of anything else changes no row.
ListTypes ==
    /\ table \in Tables
    /\ status \in [Items -> Statuses]
    /\ told \in [Items -> Nat]
    /\ DOMAIN call = Calls
    /\ \A c \in Calls : call[c].op \in Ops \cup {"none"}

ListInv == ListTypes /\ ClosedAsTold

\* No tool accepts a row that is closed.
LEMMA ClosedIsRefused ==
    ASSUME NEW op \in Ops PROVE Accepts(op) \cap (Closed \cup {"none"}) = {}
BY DEF Ops, Accepts, Closed

\* Only the closing tools leave a row closed.
LEMMA ResultIsStatus ==
    ASSUME NEW op \in Ops, table \in Tables
    PROVE  /\ Result(op) \in Statuses
           /\ op \in AllOps
           /\ op \in Closing => Result(op) \in Closed
BY DEF Ops, Result, Statuses, Closed, Closing, AllOps, Tables

\* A step that writes one row which no call has said to be closed, and leaves
\* the calls and what they said alone.
LEMMA WriteKeeps ==
    ASSUME ListInv, NEW i \in Items, NEW s \in Statuses, NEW d,
           status[i] \notin Closed, Write(i, s, d),
           UNCHANGED <<table, call, told>>
    PROVE  ListInv'
<1>1. told[i] = 0
  BY DEF ListInv, ListTypes, ClosedAsTold, Closed
<1>2. ListTypes'
  BY DEF ListInv, ListTypes, Write, Ops
<1>3. ClosedAsTold'
  <2> SUFFICES ASSUME NEW j \in Items, told'[j] > 0
               PROVE  told'[j] = 1 /\ status'[j] \in Closed
    BY DEF ClosedAsTold, Closed
  <2>1. j # i
    BY <1>1 DEF ListInv, ListTypes
  <2>2. status'[j] = status[j]
    BY <2>1 DEF Write, ListInv, ListTypes
  <2> QED BY <2>2 DEF ListInv, ClosedAsTold, Closed
<1> QED BY <1>2, <1>3 DEF ListInv

LEMMA ListStarts == ListInit => ListInv
BY DEF ListInit, ListInv, ListTypes, Statuses, Free, ClosedAsTold

LEMMA AddItemKeeps ==
    ASSUME ListInv, NEW i \in Items, NEW d, AddItem(i, d) PROVE ListInv'
<1>1. Fresh \in Statuses /\ status[i] \notin Closed
  BY DEF AddItem, Existing, Fresh, Statuses, Closed
<1> QED BY <1>1, WriteKeeps DEF AddItem

LEMMA ListItemsKeeps == ASSUME ListInv, ListItems PROVE ListInv'
BY DEF ListItems, listRows, ListInv, ListTypes, Ops, ClosedAsTold

LEMMA ReadPositionKeeps ==
    ASSUME ListInv, NEW c \in Calls, NEW n \in Items, NEW op \in AllOps,
           ReadPosition(c, n, op)
    PROVE  ListInv'
<1>1. PICK i \in AtPosition(n) : call' = [call EXCEPT ![c] = [op |-> op, item |-> i]]
  BY DEF ReadPosition
<1>2. UNCHANGED <<table, listRows, shown, told>> /\ op \in Ops
  BY DEF ReadPosition
<1>3. ClosedAsTold'
  BY <1>2 DEF listRows, ListInv, ClosedAsTold
<1>4. ListTypes'
  BY <1>1, <1>2 DEF listRows, ListInv, ListTypes, Ops
<1> QED BY <1>3, <1>4 DEF ListInv

\* The UPDATE writes the row when it is still acceptable, so not closed, and a
\* closing one says so once.
LEMMA UpdateItemKeeps ==
    ASSUME ListInv, NEW c \in Calls, NEW d, UpdateItem(c, d) PROVE ListInv'
<1> DEFINE i == call[c].item
           op == call[c].op
<1>1. op \in Ops /\ op # "none" /\ table \in Tables
  BY DEF ListInv, ListTypes, UpdateItem
<1>2. call' = [call EXCEPT ![c] = Free] /\ table' = table
  BY DEF UpdateItem
<1>3. /\ DOMAIN call' = Calls
      /\ \A b \in Calls : call'[b] = IF b = c THEN Free ELSE call[b]
  BY <1>2 DEF ListInv, ListTypes
<1>4. \A b \in Calls : call'[b].op \in Ops' \cup {"none"}
  BY <1>2, <1>3 DEF ListInv, ListTypes, Free, Ops
<1>5. CASE ~StillAccepts(c)
  <2>1. UNCHANGED <<listRows, shown, told>>
    BY <1>5 DEF UpdateItem
  <2> QED
    BY <2>1, <1>2, <1>3, <1>4 DEF listRows, ListInv, ListTypes, ClosedAsTold
<1>6. CASE StillAccepts(c)
  <2>1. /\ Write(i, Result(op), DueAfter(i, op, d))
        /\ told' = IF op \in Closing /\ told[i] < MaxTold
                   THEN [told EXCEPT ![i] = @ + 1] ELSE told
    BY <1>6 DEF UpdateItem
  <2>2. status[i] \notin Closed
    BY <1>1, <1>6, ClosedIsRefused DEF StillAccepts
  <2>3. i \in Items => told[i] = 0
    BY <2>2 DEF ListInv, ListTypes, ClosedAsTold, Closed
  <2>4. Result(op) \in Statuses /\ (op \in Closing => Result(op) \in Closed)
    BY <1>1, ResultIsStatus
  <2>5. /\ status' \in [Items -> Statuses]
        /\ \A j \in Items :
               status'[j] = IF j = i THEN Result(op) ELSE status[j]
    BY <2>1, <2>4 DEF Write, ListInv, ListTypes
  <2>6. /\ told' \in [Items -> Nat]
        /\ \A j \in Items : told'[j] \in {told[j],
                             IF j = i /\ op \in Closing THEN 1 ELSE told[j]}
    <3>1. told \in [Items -> Nat]
      BY DEF ListInv, ListTypes
    <3>2. told' = told \/ (told' = [told EXCEPT ![i] = told[i] + 1] /\ op \in Closing)
      BY <2>1
    <3>3. CASE i \in Items
      <4>1. told[i] + 1 = 1
        BY <3>3, <2>3
      <4> QED BY <3>1, <3>2, <4>1
    <3>4. CASE i \notin Items
      BY <3>1, <3>2, <3>4
    <3> QED BY <3>3, <3>4
  <2>7. ClosedAsTold'
    <3> SUFFICES ASSUME NEW j \in Items, told'[j] > 0
                 PROVE  told'[j] = 1 /\ status'[j] \in Closed
      BY DEF ClosedAsTold, Closed
    <3>1. CASE j = i
      BY <3>1, <2>3, <2>4, <2>5, <2>6
    <3>2. CASE j # i
      BY <3>2, <2>5, <2>6 DEF ListInv, ClosedAsTold, Closed
    <3> QED BY <3>1, <3>2
  <2>8. ListTypes'
    BY <2>5, <2>6, <1>1, <1>2, <1>3, <1>4 DEF ListTypes
  <2> QED BY <2>7, <2>8 DEF ListInv
<1> QED BY <1>5, <1>6

LEMMA WorkerKeeps ==
    ASSUME ListInv, NEW i \in Items, NEW d,
           FireReminder(i) \/ ReleaseFired(i) \/ AdvanceAutomation(i, d)
    PROVE  ListInv'
<1>1. CASE FireReminder(i)
  BY <1>1, WriteKeeps DEF FireReminder, Statuses, Closed
<1>2. CASE ReleaseFired(i)
  BY <1>2, WriteKeeps DEF ReleaseFired, Statuses, Closed
<1>3. CASE AdvanceAutomation(i, d)
  BY <1>3, WriteKeeps DEF AdvanceAutomation, Statuses, Closed
<1> QED BY <1>1, <1>2, <1>3

LEMMA ListStays == ASSUME ListInv, UNCHANGED listVars PROVE ListInv'
BY DEF listVars, listRows, ListInv, ListTypes, Ops, ClosedAsTold

LEMMA ListStep == ASSUME ListInv, ListNext PROVE ListInv'
<1>1. ASSUME NEW i \in Items, NEW d, AddItem(i, d) PROVE ListInv'
  BY <1>1, AddItemKeeps
<1>2. CASE ListItems
  BY <1>2, ListItemsKeeps
<1>3. ASSUME NEW c \in Calls, NEW n \in Items, NEW op \in AllOps,
             ReadPosition(c, n, op)
      PROVE  ListInv'
  BY <1>3, ReadPositionKeeps
<1>4. ASSUME NEW c \in Calls, NEW d, UpdateItem(c, d) PROVE ListInv'
  BY <1>4, UpdateItemKeeps
<1>5. ASSUME NEW i \in Items, FireReminder(i) \/ ReleaseFired(i) PROVE ListInv'
  BY <1>5, WorkerKeeps
<1>6. ASSUME NEW i \in Items, NEW d, AdvanceAutomation(i, d) PROVE ListInv'
  BY <1>6, WorkerKeeps
<1> QED BY <1>1, <1>2, <1>3, <1>4, <1>5, <1>6 DEF ListNext, AllOps

LEMMA ListKept == ListInv /\ [Next]_toolVars => ListInv'
BY ListStep, ListStays DEF Next, toolVars

\* A row that a call has said to be completed or cancelled is closed for good,
\* and only one call says so, however many calls and claims race for it
\* (complete_task_row, cancel_reminder_row, set_automation_status).
THEOREM ClosedStays == Spec => []ClosedAsTold
<1>1. Init => ListInv
  BY ListStarts DEF Init
<1>2. ListInv => ClosedAsTold
  BY DEF ListInv
<1> QED BY <1>1, <1>2, ListKept, PTL DEF Spec

-----------------------------------------------------------------------------
(***************************************************************************)
(* Drafts and the proposals that name them.                                *)
(***************************************************************************)

MailTypes ==
    /\ drafts \in Seq(Recipients)
    /\ drafting.pc = "requested" => drafting.to \in Recipients

\* Between its two requests the call holds a draft that the provider has.
StagingIsDrafted ==
    drafting.pc = "staging" =>
        /\ drafting.draft \in 1 .. Len(drafts)
        /\ drafts[drafting.draft] = drafting.to
        /\ "send" \in goal

MailInv == MailTypes /\ StagingIsDrafted /\ ProposalsAreDrafted

LEMMA MailStarts == MailInit => MailInv
BY DEF MailInit, MailInv, MailTypes, StagingIsDrafted, ProposalsAreDrafted, Idle

\* The provider only adds drafts: what named one still names it.
LEMMA DraftsGrow ==
    ASSUME MailTypes, NEW to \in Recipients,
           drafts' = drafts \/ drafts' = Append(drafts, to)
    PROVE  /\ drafts' \in Seq(Recipients)
           /\ \A k \in 1 .. Len(drafts) :
                  k \in 1 .. Len(drafts') /\ drafts'[k] = drafts[k]
BY DEF MailTypes

LEMMA MailStays ==
    ASSUME MailInv, UNCHANGED <<goal, draftVars>> PROVE MailInv'
BY DEF draftVars, MailInv, MailTypes, StagingIsDrafted, ProposalsAreDrafted

LEMMA MailApart == UNCHANGED mailVars => UNCHANGED <<goal, draftVars>>
BY DEF mailVars, draftVars

LEMMA DraftCreatedKeeps == ASSUME MailInv, DraftCreated PROVE MailInv'
<1>1. drafting.to \in Recipients /\ drafts' = Append(drafts, drafting.to)
  BY DEF DraftCreated, MailInv, MailTypes
<1>2. /\ drafts' \in Seq(Recipients)
      /\ \A k \in 1 .. Len(drafts) :
             k \in 1 .. Len(drafts') /\ drafts'[k] = drafts[k]
  BY <1>1, DraftsGrow DEF MailInv
<1>3. goal' = goal /\ proposals' = proposals
  BY DEF DraftCreated
<1>4. ProposalsAreDrafted'
  BY <1>2, <1>3 DEF MailInv, ProposalsAreDrafted
<1>5. CASE ImpliesSend
  <2>1. Len(drafts') \in 1 .. Len(drafts') /\ drafts'[Len(drafts')] = drafting.to
    BY <1>1 DEF MailInv, MailTypes
  <2>2. drafting' = [drafting EXCEPT !.pc = "staging", !.draft = Len(drafts')]
    BY <1>5 DEF DraftCreated
  <2>3. StagingIsDrafted'
    BY <2>1, <2>2, <1>3, <1>5 DEF StagingIsDrafted, ImpliesSend
  <2> QED BY <2>2, <2>3, <1>2, <1>4 DEF MailInv, MailTypes
<1>6. CASE ~ImpliesSend
  <2>1. drafting' = Idle
    BY <1>6 DEF DraftCreated
  <2> QED BY <2>1, <1>2, <1>4 DEF MailInv, MailTypes, StagingIsDrafted, Idle
<1> QED BY <1>5, <1>6

LEMMA DraftFailsKeeps == ASSUME MailInv, DraftFails PROVE MailInv'
<1>1. /\ drafting.to \in Recipients
      /\ drafts' = drafts \/ drafts' = Append(drafts, drafting.to)
  BY DEF DraftFails, MailInv, MailTypes
<1>2. /\ drafts' \in Seq(Recipients)
      /\ \A k \in 1 .. Len(drafts) :
             k \in 1 .. Len(drafts') /\ drafts'[k] = drafts[k]
  BY <1>1, DraftsGrow DEF MailInv
<1>3. goal' = goal /\ proposals' = proposals /\ drafting' = Idle
  BY DEF DraftFails
<1>4. ProposalsAreDrafted'
  BY <1>2, <1>3 DEF MailInv, ProposalsAreDrafted
<1> QED BY <1>2, <1>3, <1>4 DEF MailInv, MailTypes, StagingIsDrafted, Idle

LEMMA StageDraftKeeps == ASSUME MailInv, StageDraft PROVE MailInv'
<1>1. /\ proposals' = proposals \cup {[draft |-> drafting.draft, to |-> drafting.to]}
      /\ drafting' = Idle
      /\ UNCHANGED <<goal, drafts>>
  BY DEF StageDraft
<1>2. ProposalsAreDrafted'
  BY <1>1 DEF StageDraft, MailInv, StagingIsDrafted, ProposalsAreDrafted
<1> QED BY <1>1, <1>2 DEF MailInv, MailTypes, StagingIsDrafted, Idle

LEMMA MailStep == ASSUME MailInv, MailNext PROVE MailInv'
<1>1. ASSUME NEW n \in 1 .. MaxSearchResults + 1, SearchEmails(n) \/ SearchFails(n)
      PROVE  MailInv'
  BY <1>1, MailStays DEF SearchEmails, SearchFails
<1>2. ASSUME NEW to, CreateEmailDraft(to) PROVE MailInv'
  BY <1>2 DEF CreateEmailDraft, MailInv, MailTypes, StagingIsDrafted,
              ProposalsAreDrafted
<1>3. CASE DraftCreated
  BY <1>3, DraftCreatedKeeps
<1>4. CASE DraftFails
  BY <1>4, DraftFailsKeeps
<1>5. CASE StageDraft
  BY <1>5, StageDraftKeeps
<1>6. CASE StagingFails
  BY <1>6 DEF StagingFails, MailInv, MailTypes, StagingIsDrafted,
              ProposalsAreDrafted, Idle
<1> QED BY <1>1, <1>2, <1>3, <1>4, <1>5, <1>6 DEF MailNext

LEMMA MailKept == MailInv /\ [Next]_toolVars => MailInv'
BY MailStep, MailStays, MailApart DEF Next, toolVars

\* A proposal that the draft tool stages by itself names a draft the provider
\* has, for the recipient it shows, and only when the goal is to send, whichever
\* requests fail before and after the draft is there (create_email_draft,
\* stage_send_email).
THEOREM StagesWhatWasDrafted == Spec => []ProposalsAreDrafted
<1>1. Init => MailInv
  BY MailStarts DEF Init
<1>2. MailInv => ProposalsAreDrafted
  BY DEF MailInv
<1> QED BY <1>1, <1>2, MailKept, PTL DEF Spec

-----------------------------------------------------------------------------
(***************************************************************************)
(* Days and the windows made of them.                                      *)
(***************************************************************************)

LEMMA MinIs ==
    ASSUME NEW S \in SUBSET Int, NEW m \in S, \A x \in S : m <= x
    PROVE  Min(S) = m
<1>1. Min(S) \in S /\ \A y \in S : Min(S) <= y
  BY DEF Min
<1>2. Min(S) <= m /\ m <= Min(S)
  BY <1>1
<1>3. Min(S) \in Int /\ m \in Int
  BY <1>1
<1> QED BY <1>2, <1>3

LEMMA MaxIs ==
    ASSUME NEW S \in SUBSET Int, NEW m \in S, \A x \in S : x <= m
    PROVE  Max(S) = m
<1>1. Max(S) \in S /\ \A y \in S : y <= Max(S)
  BY DEF Max
<1>2. Max(S) <= m /\ m <= Max(S)
  BY <1>1
<1>3. Max(S) \in Int /\ m \in Int
  BY <1>1
<1> QED BY <1>2, <1>3

LEMMA OneDay == ASSUME NEW day \in Int PROVE Min({day}) = day /\ Max({day}) = day
BY MinIs, MaxIs

\* A day is Units long and starts at its midnight.
LEMMA MidnightIsFirst ==
    ASSUME NEW day \in Int
    PROVE  /\ Midnight(day) \in Int
           /\ Midnight(day) % Units = 0
           /\ \A w \in Midnight(day) .. Midnight(day + 1) - 1 : Day(w) = day
           /\ Midnight(day + 1) = Midnight(day) + Units
<1>1. Units \in Nat \ {0}
  BY CalendarBounds
<1>2. /\ (day * Units) % Units = 0
      /\ \A w \in (day * Units) .. (day * Units + Units - 1) : w \div Units = day
  BY <1>1
<1>3. (day + 1) * Units = day * Units + Units
  BY <1>1
<1> QED BY <1>1, <1>2, <1>3 DEF Midnight, Day

LEMMA LastOfDay ==
    ASSUME NEW day \in Int PROVE Day(Midnight(day + 1) - 1) = day
<1>1. Units \in Nat \ {0}
  BY CalendarBounds
<1>2. Midnight(day) \in Int /\ Midnight(day + 1) = Midnight(day) + Units
  BY MidnightIsFirst
<1>3. Midnight(day + 1) - 1 \in Midnight(day) .. Midnight(day + 1) - 1
  BY <1>1, <1>2
<1> QED BY <1>3, MidnightIsFirst

\* A window of the days from lo to hi is no longer than that many days.
LEMMA DaysInRange ==
    ASSUME NEW lo \in Int, NEW hi \in Int, lo < hi, hi - lo <= MaxRangeDays
    PROVE  InRange(Midnight(lo), Midnight(hi))
<1>1. Units \in Nat \ {0} /\ MaxRangeDays \in Nat
  BY CalendarBounds
<1>2. hi * Units - lo * Units = (hi - lo) * Units
  BY <1>1
<1>3. ASSUME NEW a \in Int, NEW b \in Int, a <= b PROVE a * Units <= b * Units
  BY <1>1, <1>3
<1>4. 1 * Units <= (hi - lo) * Units /\ (hi - lo) * Units <= MaxRangeDays * Units
  BY <1>1, <1>3
<1> QED BY <1>1, <1>2, <1>4 DEF InRange, Midnight

LEMMA ZoneOffsets ==
    ASSUME NEW zone \in Zones
    PROVE  /\ OffsetBefore[zone] \in Int /\ OffsetAfter[zone] \in Int
           /\ Change[zone] \in Int
           /\ OffsetBefore[zone] % 2 = 0 /\ OffsetAfter[zone] % 2 = 0
           /\ Change[zone] % 2 = 0
BY CalendarBounds DEF Zones

LEMMA WallIsInt ==
    ASSUME NEW zone \in Zones, NEW t \in Int PROVE WallAt(zone, t) \in Int
BY ZoneOffsets DEF WallAt, OffsetAt

LEMMA TodayIsDay == ASSUME now \in Int, NEW zone \in Zones PROVE Today(zone) \in Int
<1>1. WallAt(zone, now) \in Int
  BY WallIsInt
<1> QED BY <1>1, CalendarBounds DEF Today, Day

\* The bounds the code computes by arithmetic are the first day the words name
\* and the day after the last.
NamesDays(days, named) ==
    /\ days.lo \in Int /\ days.hi \in Int
    /\ days.lo < days.hi /\ days.hi - days.lo <= 7
    /\ Min(named) = days.lo
    /\ Max(named) = days.hi - 1

LEMMA OneIsNamed ==
    ASSUME NEW day \in Int
    PROVE  NamesDays([lo |-> day, hi |-> day + 1], {day})
BY OneDay DEF NamesDays

\* The week that starts on the Monday m.
LEMMA WeekIsNamed ==
    ASSUME NEW m \in Int, NEW named \in SUBSET Int, m \in named, m + 6 \in named,
           \A d \in named : m <= d /\ d <= m + 6
    PROVE  NamesDays([lo |-> m, hi |-> m + 7], named)
<1>1. Min(named) = m
  BY MinIs
<1>2. Max(named) = m + 6
  BY MaxIs
<1> QED BY <1>1, <1>2 DEF NamesDays

LEMMA DaysAreNamed ==
    ASSUME now \in Int, NEW zone \in Zones, NEW ask \in DayAsks
    PROVE  NamesDays(AskedDays(ask, zone), DaysNamed(ask, zone, now))
<1> DEFINE days == AskedDays(ask, zone)
           named == DaysNamed(ask, zone, now)
           t == Today(zone)
<1>1. t \in Int /\ t = Day(WallAt(zone, now))
  BY TodayIsDay DEF Today
<1>2. CASE ask \in DateAsks
  <2>1. ask.kind = "date" /\ ask.day \in Int
    BY <1>2, CalendarBounds DEF DateAsks
  <2>2. named = {ask.day} /\ days = [lo |-> ask.day, hi |-> ask.day + 1]
    BY <2>1 DEF DaysNamed, AskedDays
  <2> QED BY <2>1, <2>2, OneIsNamed
<1>3. CASE ask \in Relative
  <2>1. ask.kind = "relative" /\ ask.key \in Keys
    BY <1>3 DEF Relative
  <2>2. days = RelativeDays(ask.key, t)
    BY <2>1 DEF AskedDays
  <2>3. CASE ask.key = "today"
    <3>1. named = {t} /\ days = [lo |-> t, hi |-> t + 1]
      BY <2>1, <2>2, <2>3, <1>1 DEF DaysNamed, RelativeDays
    <3> QED BY <3>1, <1>1, OneIsNamed
  <2>4. CASE ask.key = "tomorrow"
    <3> DEFINE d == t + 1
    <3>1. named = {d} /\ days = [lo |-> d, hi |-> d + 1] /\ d \in Int
      BY <2>1, <2>2, <2>4, <1>1 DEF DaysNamed, RelativeDays
    <3> QED BY <3>1, OneIsNamed
  <2>5. CASE ask.key = "yesterday"
    <3> DEFINE d == t - 1
    <3>1. named = {d} /\ days = [lo |-> d, hi |-> d + 1] /\ d \in Int
      BY <2>1, <2>2, <2>5, <1>1 DEF DaysNamed, RelativeDays
    <3> QED BY <3>1, OneIsNamed
  <2>6. CASE ask.key = "this_week"
    <3> DEFINE m == t - (t % 7)
    <3>1. named = {d \in (t - 14) .. (t + 14) : d \div 7 = t \div 7}
      BY <2>1, <2>6, <1>1 DEF DaysNamed, SameWeek
    <3>2. m \in Int /\ days = [lo |-> m, hi |-> m + 7]
      BY <2>2, <2>6, <1>1 DEF RelativeDays, Monday
    <3>3. m \in named /\ m + 6 \in named
      BY <3>1, <1>1
    <3>4. \A d \in named : m <= d /\ d <= m + 6
      BY <3>1, <1>1
    <3>5. named \in SUBSET Int
      BY <3>1, <1>1
    <3> HIDE DEF m, named, days
    <3>6. NamesDays(days, named)
      BY <3>2, <3>3, <3>4, <3>5, WeekIsNamed
    <3> QED BY <3>6 DEF named, days
  <2>7. CASE ask.key = "next_week"
    <3> DEFINE m == t - (t % 7) + 7
    <3>1. named = {d \in (t - 14) .. (t + 14) : d \div 7 = (t + 7) \div 7}
      BY <2>1, <2>7, <1>1 DEF DaysNamed, SameWeek
    <3>2. m \in Int /\ days = [lo |-> m, hi |-> m + 7]
      BY <2>2, <2>7, <1>1 DEF RelativeDays, Monday
    <3>3. m \in named /\ m + 6 \in named
      BY <3>1, <1>1
    <3>4. \A d \in named : m <= d /\ d <= m + 6
      BY <3>1, <1>1
    <3>5. named \in SUBSET Int
      BY <3>1, <1>1
    <3> HIDE DEF m, named, days
    <3>6. NamesDays(days, named)
      BY <3>2, <3>3, <3>4, <3>5, WeekIsNamed
    <3> QED BY <3>6 DEF named, days
  <2> QED BY <2>1, <2>3, <2>4, <2>5, <2>6, <2>7 DEF Keys
<1> QED BY <1>2, <1>3 DEF DayAsks

\* A day ask is not a time ask, and neither is left out.
LEMMA AskKinds ==
    /\ Omitted \notin Asks
    /\ \A ask \in TimeAsks : ask \notin DayAsks
BY DEF Asks, DayAsks, TimeAsks, Relative, DateAsks, Omitted

LEMMA ContactZone == Contact \in Zones
BY CalendarBounds DEF Zones

\* The bounds of a day ask in the contact's zone, and what they say.
LEMMA DayAskBounds ==
    ASSUME now \in Int, NEW ask \in DayAsks
    PROVE  \E lo, hi \in Int :
             /\ lo < hi /\ hi - lo <= 7
             /\ LowerBound(ask) = Midnight(lo)
             /\ UpperBound(ask) = Midnight(hi)
             /\ FirstNamed(ask, now, Contact) = Midnight(lo)
             /\ Max(DaysNamed(ask, Contact, now)) = hi - 1
<1> DEFINE lo == AskedDays(ask, Contact).lo
           hi == AskedDays(ask, Contact).hi
<1>1. /\ lo \in Int /\ hi \in Int /\ lo < hi /\ hi - lo <= 7
      /\ Min(DaysNamed(ask, Contact, now)) = lo
      /\ Max(DaysNamed(ask, Contact, now)) = hi - 1
  BY DaysAreNamed, ContactZone DEF NamesDays
<1>2. LowerBound(ask) = Midnight(lo) /\ UpperBound(ask) = Midnight(hi)
  BY DEF LowerBound, UpperBound
<1>3. FirstNamed(ask, now, Contact) = Units * Min(DaysNamed(ask, Contact, now))
  BY DEF FirstNamed
<1>4. Units * lo = Midnight(lo)
  BY <1>1, CalendarBounds DEF Midnight
<1> HIDE DEF lo, hi
<1> QED BY <1>1, <1>2, <1>3, <1>4

\* The lower bound is the first moment that was named.
LEMMA LowerIsFirst ==
    ASSUME now \in Int, NEW ask \in Asks
    PROVE  LowerBound(ask) = FirstNamed(ask, now, Contact)
<1>1. CASE ask \in DayAsks
  BY <1>1, DayAskBounds
<1>2. CASE ask \notin DayAsks
  BY <1>2 DEF LowerBound, FirstNamed
<1> QED BY <1>1, <1>2

\* The upper bound is the end of the last day that was named.
LEMMA UpperIsLast ==
    ASSUME now \in Int, NEW ask \in DayAsks
    PROVE  /\ Day(UpperBound(ask) - 1) = Max(DaysNamed(ask, Contact, now))
           /\ UpperBound(ask) % Units = 0
<1>1. PICK hi \in Int : /\ UpperBound(ask) = Midnight(hi)
                        /\ Max(DaysNamed(ask, Contact, now)) = hi - 1
  BY DayAskBounds
<1>2. Day(Midnight((hi - 1) + 1) - 1) = hi - 1
  BY LastOfDay
<1>3. (hi - 1) + 1 = hi
  OBVIOUS
<1>4. Midnight(hi) % Units = 0
  BY MidnightIsFirst
<1> QED BY <1>1, <1>2, <1>3, <1>4

\* One ask of days is a window that may be asked for.
LEMMA DayAskInRange ==
    ASSUME now \in Int, NEW ask \in DayAsks
    PROVE  InRange(LowerBound(ask), UpperBound(ask))
<1>1. PICK lo, hi \in Int : /\ lo < hi /\ hi - lo <= 7
                            /\ LowerBound(ask) = Midnight(lo)
                            /\ UpperBound(ask) = Midnight(hi)
  BY DayAskBounds
<1>2. hi - lo <= MaxRangeDays
  BY <1>1, CalendarBounds
<1> QED BY <1>1, <1>2, DaysInRange

\* Without an ask the window is today.
LEMMA DefaultIsToday ==
    ASSUME now \in Int
    PROVE  LET lo == Midnight(Today(Contact))
               hi == Midnight(Today(Contact) + 1)
           IN  /\ InRange(lo, hi)
               /\ {Day(w) : w \in lo .. hi - 1} = {Today(Contact)}
<1> DEFINE day == Today(Contact)
<1>1. day \in Int
  BY TodayIsDay, ContactZone
<1> HIDE DEF day
<1>2. InRange(Midnight(day), Midnight(day + 1))
  <2>1. day + 1 \in Int /\ day < day + 1 /\ (day + 1) - day <= MaxRangeDays
    BY <1>1, CalendarBounds
  <2> QED BY <1>1, <2>1, DaysInRange
<1>3. /\ \A w \in Midnight(day) .. Midnight(day + 1) - 1 : Day(w) = day
      /\ Midnight(day) \in Int /\ Midnight(day + 1) = Midnight(day) + Units
  BY <1>1, MidnightIsFirst
<1>4. Midnight(day) \in Midnight(day) .. Midnight(day + 1) - 1
  BY <1>3, CalendarBounds
<1>5. {Day(w) : w \in Midnight(day) .. Midnight(day + 1) - 1} = {day}
  BY <1>3, <1>4
<1> QED BY <1>2, <1>5 DEF day

LEMMA WindowIsRight ==
    ASSUME now \in Int, NEW min \in Asks \cup {Omitted},
           NEW max \in Asks \cup {Omitted}, ListEvents(min, max)
    PROVE  WindowIsWhatWasAsked'
<1>1. PICK window \in QueryWindow(min, max) :
        query' = [kind |-> "query", min |-> min, max |-> max, at |-> now,
                  window |-> window]
  BY DEF ListEvents
<1> DEFINE last == IF max = Omitted THEN min ELSE max
<1> SUFFICES
      /\ InRange(window.lo, window.hi)
      /\ min # Omitted => window.lo = FirstNamed(min, now, Contact)
      /\ last \in DayAsks =>
             /\ Day(window.hi - 1) = Max(DaysNamed(last, Contact, now))
             /\ window.hi % Units = 0
      /\ min = Omitted =>
             {Day(w) : w \in window.lo .. window.hi - 1} = {Day(WallAt(Contact, now))}
  <2>1. /\ query'.min = min /\ query'.max = max /\ query'.at = now
        /\ query'.window = window
    BY <1>1
  <2> QED BY <2>1 DEF WindowIsWhatWasAsked
<1>2. CASE min = Omitted /\ max = Omitted
  <2>1. window = [lo |-> Midnight(Today(Contact)), hi |-> Midnight(Today(Contact) + 1)]
    BY <1>2, AskKinds DEF QueryWindow, Asks
  <2>2. last \notin DayAsks
    BY <1>2, AskKinds DEF Asks
  <2> QED BY <2>1, <2>2, <1>2, DefaultIsToday DEF Today
<1>3. CASE min \in DayAsks /\ max = Omitted
  <2>1. min # Omitted
    BY <1>3, AskKinds DEF Asks
  <2>2. window = [lo |-> LowerBound(min), hi |-> UpperBound(min)]
    BY <1>3, <2>1 DEF QueryWindow
  <2> QED BY <2>1, <2>2, <1>3, LowerIsFirst, UpperIsLast, DayAskInRange DEF Asks
<1>4. CASE /\ min # Omitted /\ max # Omitted
           /\ InRange(LowerBound(min), UpperBound(max))
  <2>1. window = [lo |-> LowerBound(min), hi |-> UpperBound(max)]
    BY <1>4 DEF QueryWindow
  <2> QED BY <2>1, <1>4, LowerIsFirst, UpperIsLast
<1>5. ~(\/ min = Omitted /\ max = Omitted
        \/ min \in DayAsks /\ max = Omitted
        \/ min # Omitted /\ max # Omitted /\ InRange(LowerBound(min), UpperBound(max)))
      => QueryWindow(min, max) = {}
  BY DEF QueryWindow
<1> QED BY <1>2, <1>3, <1>4, <1>5

-----------------------------------------------------------------------------
(***************************************************************************)
(* The event between the ask and the provider.                             *)
(***************************************************************************)

\* What the bounds of an event keep of an ask made at the instant at.
KeepsTheAsk(e, start, end, at) ==
    /\ e.zone \in Zones /\ e.lo \in Int /\ e.hi \in Int
    /\ e.allDay \in BOOLEAN
    /\ e.allDay => KeepsTheDays(e, start, end, at)
    /\ ~e.allDay => KeepsTheTimes(e, start, end) /\ start \in TimeAsks /\ e.lo % 2 = 0

\* The payload holds the bounds with the ask they were made of, and the event
\* and what is read back of it come from that payload alone.
CalendarInv ==
    /\ now \in Int
    /\ WindowIsWhatWasAsked
    /\ staged # None =>
           KeepsTheAsk(staged.bounds, staged.start, staged.end, staged.at)
    /\ created # None =>
           /\ staged # None /\ created.bounds = staged.bounds
           /\ created.begins \in Beginnings(created.bounds)
    /\ readBack # None => created # None /\ readBack.start = LocalBound(created)

\* A day ask begins a whole number of units after the clock's zero.
LEMMA DayAskStart ==
    ASSUME now \in Int, NEW zone \in Zones, NEW ask \in DayAsks
    PROVE  /\ AskedDays(ask, zone).lo \in Int
           /\ AskedDays(ask, zone).lo * Units = FirstNamed(ask, now, zone)
<1> DEFINE lo == AskedDays(ask, zone).lo
<1>1. lo \in Int /\ Min(DaysNamed(ask, zone, now)) = lo
  BY DaysAreNamed DEF NamesDays
<1>2. FirstNamed(ask, now, zone) = Units * Min(DaysNamed(ask, zone, now))
  BY DEF FirstNamed
<1>3. Units * lo = lo * Units
  BY <1>1, CalendarBounds
<1> HIDE DEF lo
<1>4. lo \in Int /\ lo * Units = FirstNamed(ask, now, zone)
  BY <1>1, <1>2, <1>3
<1> QED BY <1>4 DEF lo

LEMMA TimeAskStart ==
    ASSUME NEW zone \in Zones, NEW ask \in TimeAsks
    PROVE  /\ ask.at \in Int
           /\ WallOf(ask, zone) \in Int
<1>1. ask.at \in Int
  BY CalendarBounds DEF TimeAsks
<1> QED BY <1>1, WallIsInt DEF WallOf

\* Rounding down to the second loses at most half of one, as time is counted.
LEMMA SecondIsKept ==
    ASSUME NEW wall \in Int
    PROVE  /\ WholeSecond(wall) \in Int
           /\ WholeSecond(wall) \in wall - 1 .. wall
           /\ WholeSecond(wall) % 2 = 0
BY DEF WholeSecond

LEMMA BoundsKeepTheAsk ==
    ASSUME now \in Int, NEW start \in Asks, NEW end \in Asks, NEW zone \in Zones,
           NEW e \in EventBounds(start, end, zone)
    PROVE  KeepsTheAsk(e, start, end, now)
<1>1. CASE {start, end} \subseteq DayAsks
  <2> DEFINE lo == AskedDays(start, zone).lo
             last == AskedDays(end, zone).lo
             hi == IF last <= lo THEN lo + 1 ELSE last
  <2>1. e = [allDay |-> TRUE, zone |-> zone, lo |-> lo, hi |-> hi]
    <3>1. start \notin TimeAsks
      BY <1>1, AskKinds
    <3> QED BY <1>1, <3>1 DEF EventBounds, StartDay, EndDay
  <2>2. /\ lo \in Int /\ lo * Units = FirstNamed(start, now, zone)
        /\ last \in Int /\ last * Units = FirstNamed(end, now, zone)
    BY <1>1, DayAskStart
  <2> HIDE DEF lo, last
  <2>3. e.allDay = TRUE /\ e.zone = zone /\ e.lo = lo /\ e.hi = hi
    BY <2>1
  <2>4. hi \in Int /\ lo < hi /\ (hi = last \/ hi = lo + 1)
    BY <2>2
  <2> HIDE DEF hi
  <2>5. KeepsTheDays(e, start, end, now)
    BY <2>2, <2>3, <2>4 DEF KeepsTheDays
  <2> QED BY <2>2, <2>3, <2>4, <2>5 DEF KeepsTheAsk
<1>2. CASE ~({start, end} \subseteq DayAsks)
  <2> DEFINE from == WallOf(start, zone)
             to == WallOf(end, zone)
             lo == WholeSecond(from)
             hi == WholeSecond(to)
  <2>1. /\ {start, end} \subseteq TimeAsks
        /\ InRange(from, to)
        /\ e = [allDay |-> FALSE, zone |-> zone, lo |-> lo, hi |-> hi]
    BY <1>2 DEF EventBounds
  <2>2. from \in Int /\ to \in Int
    BY <2>1, TimeAskStart
  <2>3. from < to
    BY <2>1 DEF InRange
  <2>4. /\ lo \in Int /\ lo \in from - 1 .. from /\ lo % 2 = 0
        /\ hi \in Int /\ hi \in to - 1 .. to /\ hi % 2 = 0
    BY <2>2, SecondIsKept
  <2>5. e.allDay = FALSE /\ e.zone = zone /\ e.lo = lo /\ e.hi = hi
    BY <2>1
  <2>6. start \in TimeAsks
    BY <2>1
  <2>7. from = WallOf(start, e.zone) /\ to = WallOf(end, e.zone)
    BY <2>5
  <2> HIDE DEF from, to, lo, hi
  <2>8. lo <= hi /\ (lo = hi => to - from = 1)
    BY <2>2, <2>3, <2>4
  <2>9. KeepsTheTimes(e, start, end)
    BY <2>4, <2>5, <2>7, <2>8 DEF KeepsTheTimes
  <2> QED BY <2>4, <2>5, <2>6, <2>9 DEF KeepsTheAsk
<1> QED BY <1>1, <1>2

\* An instant is one of those that show its wall time.
LEMMA ShowsItself ==
    ASSUME NEW zone \in Zones, NEW t \in Int
    PROVE  t \in Showing(WallAt(zone, t), zone)
<1>1. t \in Either(WallAt(zone, t), zone)
  BY ZoneOffsets DEF Either, WallAt, OffsetAt
<1> QED BY <1>1 DEF Showing

\* Half a second does not reach a change of the offset.
LEMMA HalfASecondLater ==
    ASSUME NEW zone \in Zones, NEW t \in Int, t % 2 = 0
    PROVE  /\ WallAt(zone, t + 1) = WallAt(zone, t) + 1
           /\ WallAt(zone, t) % 2 = 0
<1>1. (t < Change[zone]) <=> (t + 1 < Change[zone])
  BY ZoneOffsets
<1>2. OffsetAt(zone, t + 1) = OffsetAt(zone, t)
  BY <1>1 DEF OffsetAt
<1>3. OffsetAt(zone, t) \in Int /\ OffsetAt(zone, t) % 2 = 0
  BY ZoneOffsets DEF OffsetAt
<1> HIDE DEF OffsetAt
<1> QED BY <1>2, <1>3 DEF WallAt

\* Without the fraction of a second, the instant shows the wall time without it.
LEMMA SecondsGoTogether ==
    ASSUME NEW zone \in Zones, NEW t \in Int
    PROVE  WallAt(zone, t - (t % 2)) = WholeSecond(WallAt(zone, t))
<1> DEFINE s == t - (t % 2)
<1>1. s \in Int /\ s % 2 = 0 /\ (t = s \/ t = s + 1)
  OBVIOUS
<1> HIDE DEF s
<1>2. /\ WallAt(zone, s + 1) = WallAt(zone, s) + 1
      /\ WallAt(zone, s) % 2 = 0
      /\ WallAt(zone, s) \in Int
  BY <1>1, HalfASecondLater, WallIsInt
<1>3. WallAt(zone, t) = WallAt(zone, s) \/ WallAt(zone, t) = WallAt(zone, s) + 1
  BY <1>1, <1>2
<1>4. \A w \in Int : w % 2 = 0 => WholeSecond(w) = w /\ WholeSecond(w + 1) = w
  BY DEF WholeSecond
<1>5. WallAt(zone, s) = WholeSecond(WallAt(zone, t))
  BY <1>2, <1>3, <1>4
<1> QED BY <1>5 DEF s

\* What shows the wall time without the fraction is that much earlier than what
\* shows it with the fraction, if only one instant does.
LEMMA BeginsThen ==
    ASSUME NEW zone \in Zones, NEW ask \in TimeAsks, NEW lo,
           lo = WholeSecond(WallOf(ask, zone)), ShownOnce(lo, zone),
           NEW begins \in Readings(lo, zone)
    PROVE  /\ begins \in Int /\ begins % 2 = 0
           /\ \E m \in Meant(ask, zone) : m \in Int /\ begins \in m - 1 .. m
<1>1. PICK t : Showing(lo, zone) = {t}
  BY DEF ShownOnce
<1>2. begins = t /\ Showing(lo, zone) = {begins}
  BY <1>1 DEF Readings
<1>3. ask.at \in Int /\ WallOf(ask, zone) \in Int /\ lo \in Int /\ lo % 2 = 0
  BY TimeAskStart, SecondIsKept
<1>4. begins \in Int /\ begins % 2 = 0 /\ WallAt(zone, begins) = lo
  <2>1. begins \in Either(lo, zone) /\ WallAt(zone, begins) = lo
    BY <1>2 DEF Showing
  <2> QED BY <2>1, <1>3, ZoneOffsets DEF Either
<1>5. CASE ask.kind = "instant"
  <2> DEFINE s == ask.at - (ask.at % 2)
  <2>1. s \in Int /\ ask.at \in s .. s + 1
    BY <1>3
  <2>2. WallAt(zone, s) = lo
    BY <1>3, <1>5, SecondsGoTogether DEF WallOf
  <2> HIDE DEF s
  <2>3. s \in Showing(lo, zone)
    BY <2>1, <2>2, ShowsItself
  <2>4. begins = s
    BY <2>3, <1>2
  <2>5. begins \in ask.at - 1 .. ask.at
    BY <2>1, <2>4, <1>3
  <2>6. ask.at \in Meant(ask, zone)
    BY <1>5 DEF Meant
  <2> QED BY <2>5, <2>6, <1>3, <1>4
<1>6. CASE ask.kind = "wall"
  <2> DEFINE wall == ask.at
             m == begins + (wall - lo)
  <2>1. WallOf(ask, zone) = wall /\ Meant(ask, zone) = Readings(wall, zone)
    BY <1>6 DEF WallOf, Meant
  <2>2. wall \in Int /\ lo = WholeSecond(wall)
    BY <1>3, <2>1
  <2> HIDE DEF wall
  <2>3. wall = lo \/ wall = lo + 1
    BY <2>2 DEF WholeSecond
  <2>4. m \in Int /\ begins \in m - 1 .. m
    <3>1. begins \in Int /\ lo \in Int /\ wall \in Int
      BY <1>3, <1>4, <2>2
    <3>2. m = begins \/ m = begins + 1
      BY <3>1, <2>3
    <3> HIDE DEF m
    <3> QED BY <3>1, <3>2
  <2>5. WallAt(zone, m) = wall
    <3>1. CASE wall = lo
      <4>1. m = begins
        BY <3>1, <1>3, <1>4
      <4> QED BY <3>1, <4>1, <1>4
    <3>2. CASE wall = lo + 1
      <4>1. m = begins + 1
        BY <3>2, <1>3, <1>4
      <4>2. WallAt(zone, begins + 1) = WallAt(zone, begins) + 1
        BY <1>4, HalfASecondLater
      <4> QED BY <4>1, <4>2, <3>2, <1>4
    <3> QED BY <3>1, <3>2, <2>3
  <2> HIDE DEF m
  <2>6. m \in Showing(wall, zone)
    BY <2>4, <2>5, ShowsItself
  <2>7. m \in Readings(wall, zone)
    BY <2>6 DEF Readings
  <2> QED BY <2>1, <2>4, <2>7, <1>4
<1> QED BY <1>5, <1>6 DEF TimeAsks

\* Reading a moment back loses its seconds and the fraction.
LEMMA ReadToTheMinute ==
    ASSUME NEW begins \in Int, begins % 2 = 0, NEW m \in Int, begins \in m - 1 .. m
    PROVE  WallAt(Contact, m) - WholeMinute(WallAt(Contact, begins)) \in 0 .. Minute
<1> DEFINE wall == WallAt(Contact, begins)
           late == WallAt(Contact, m)
           whole == WholeMinute(wall)
<1>1. wall \in Int
  BY WallIsInt, ContactZone
<1>2. late = wall \/ late = wall + 1
  <2>1. WallAt(Contact, begins + 1) = wall + 1
    BY HalfASecondLater, ContactZone
  <2>2. m = begins \/ m = begins + 1
    OBVIOUS
  <2> QED BY <2>1, <2>2
<1>3. Minute \in Nat \ {0}
  BY CalendarBounds
<1>4. whole = wall - (wall % Minute)
  BY DEF WholeMinute
<1> HIDE DEF wall, late, whole
<1>5. wall % Minute \in 0 .. Minute - 1
  BY <1>1, <1>3
<1>6. whole \in Int /\ whole <= wall /\ wall - whole <= Minute - 1
  <2> DEFINE rest == wall % Minute
  <2>1. rest \in 0 .. Minute - 1 /\ whole = wall - rest
    BY <1>4, <1>5
  <2> HIDE DEF rest
  <2> QED BY <2>1, <1>1, <1>3
<1>7. late - whole \in 0 .. Minute
  BY <1>1, <1>2, <1>3, <1>6
<1> QED BY <1>7 DEF wall, late, whole

\* What the invariant says is what the property asks of the created event.
LEMMA KeptMeansCreated == CalendarInv => CreatedIsWhatWasAsked
<1> SUFFICES ASSUME CalendarInv, created # None PROVE CreatedIsWhatWasAsked
  BY DEF CreatedIsWhatWasAsked
<1> DEFINE e == created.bounds
<1>1. /\ KeepsTheAsk(e, staged.start, staged.end, staged.at)
      /\ created.begins \in Beginnings(e)
  BY DEF CalendarInv
<1>2. readBack # None => readBack.start = LocalBound(created)
  BY DEF CalendarInv
<1>3. CASE e.allDay
  <2>1. KeepsTheDays(e, staged.start, staged.end, staged.at)
    BY <1>1, <1>3 DEF KeepsTheAsk
  <2>2. created.begins = e.lo
    BY <1>1, <1>3 DEF Beginnings
  <2>3. readBack # None => readBack.start = e.lo
    BY <1>2, <1>3, <2>2 DEF LocalBound
  <2> QED BY <1>3, <2>1, <2>3 DEF CreatedIsWhatWasAsked
<1>4. CASE ~e.allDay
  <2> DEFINE start == staged.start
             begins == created.begins
  <2>1. /\ KeepsTheTimes(e, start, staged.end)
        /\ start \in TimeAsks /\ e.zone \in Zones /\ e.lo \in Int /\ e.lo % 2 = 0
    BY <1>1, <1>4 DEF KeepsTheAsk
  <2>2. begins \in Readings(e.lo, e.zone)
    BY <1>1, <1>4 DEF Beginnings
  <2>3. e.lo = WholeSecond(WallOf(start, e.zone))
    <3>1. WallOf(start, e.zone) \in Int
      BY <2>1, TimeAskStart
    <3>2. e.lo \in WallOf(start, e.zone) - 1 .. WallOf(start, e.zone)
      BY <2>1 DEF KeepsTheTimes
    <3> QED BY <3>1, <3>2, <2>1 DEF WholeSecond
  <2>4. readBack # None => readBack.start = WholeMinute(WallAt(Contact, begins))
    BY <1>2, <1>4 DEF LocalBound
  <2>5. ASSUME ShownOnce(e.lo, e.zone)
        PROVE  \E m \in Meant(start, e.zone) :
                 /\ begins \in m - 1 .. m
                 /\ readBack # None =>
                      WallAt(Contact, m) - readBack.start \in 0 .. Minute
    <3> HIDE DEF e, start, begins
    <3>1. begins \in Int /\ begins % 2 = 0
      BY <2>1, <2>2, <2>3, <2>5, BeginsThen
    <3>2. PICK m \in Meant(start, e.zone) : m \in Int /\ begins \in m - 1 .. m
      BY <2>1, <2>2, <2>3, <2>5, BeginsThen
    <3>3. WallAt(Contact, m) - WholeMinute(WallAt(Contact, begins)) \in 0 .. Minute
      BY <3>1, <3>2, ReadToTheMinute
    <3> QED BY <3>2, <3>3, <2>4
  <2> QED BY <1>4, <2>1, <2>5 DEF CreatedIsWhatWasAsked
<1> QED BY <1>3, <1>4

LEMMA CalendarStarts == CalendarInit => CalendarInv
BY CalendarBounds DEF CalendarInit, CalendarInv, WindowIsWhatWasAsked

LEMMA StageKeeps ==
    ASSUME CalendarInv, NEW start \in Asks, NEW end \in Asks, NEW zone \in Zones,
           StageCreateEvent(start, end, zone)
    PROVE  CalendarInv'
<1>1. PICK e \in EventBounds(start, end, zone) :
        staged' = [kind |-> "staged", bounds |-> e, start |-> start, end |-> end,
                   at |-> now]
  BY DEF StageCreateEvent, Payload
<1>2. KeepsTheAsk(e, start, end, now)
  BY BoundsKeepTheAsk DEF CalendarInv
<1>3. /\ staged'.bounds = e /\ staged'.start = start /\ staged'.end = end
      /\ staged'.at = now
  BY <1>1
<1>4. staged = None /\ query' = None /\ UNCHANGED <<now, created, readBack>>
  BY DEF StageCreateEvent
<1> QED BY <1>2, <1>3, <1>4 DEF CalendarInv, WindowIsWhatWasAsked

LEMMA CalendarStep == ASSUME CalendarInv, CalendarNext PROVE CalendarInv'
<1>1. CASE ClockTicks
  BY <1>1, CalendarBounds DEF ClockTicks, CalendarInv, WindowIsWhatWasAsked
<1>2. ASSUME NEW min \in Asks \cup {Omitted}, NEW max \in Asks \cup {Omitted},
             ListEvents(min, max)
      PROVE  CalendarInv'
  <2>1. WindowIsWhatWasAsked'
    BY <1>2, WindowIsRight DEF CalendarInv
  <2> QED BY <2>1, <1>2 DEF ListEvents, CalendarInv
<1>3. ASSUME NEW start \in Asks, NEW end \in Asks, NEW zone \in Zones,
             StageCreateEvent(start, end, zone)
      PROVE  CalendarInv'
  BY <1>3, StageKeeps
<1>4. CASE ConfirmEvent
  <2>1. PICK begins \in Beginnings(staged.bounds) :
          created' = [kind |-> "event", bounds |-> staged.bounds, begins |-> begins]
    BY <1>4 DEF ConfirmEvent, SentBounds
  <2>2. /\ created'.bounds = staged.bounds
        /\ created'.begins \in Beginnings(created'.bounds)
    BY <2>1
  <2>3. staged # None /\ created = None /\ query' = None
        /\ UNCHANGED <<now, staged, readBack>>
    BY <1>4 DEF ConfirmEvent
  <2> QED BY <2>2, <2>3 DEF CalendarInv, WindowIsWhatWasAsked
<1>5. CASE ReadEvent
  BY <1>5 DEF ReadEvent, CalendarInv, WindowIsWhatWasAsked, LocalBound
<1> QED BY <1>1, <1>2, <1>3, <1>4, <1>5 DEF CalendarNext

LEMMA CalendarStays == ASSUME CalendarInv, UNCHANGED calendarVars PROVE CalendarInv'
BY DEF calendarVars, CalendarInv, WindowIsWhatWasAsked

LEMMA CalendarKept == CalendarInv /\ [Next]_toolVars => CalendarInv'
BY CalendarStep, CalendarStays DEF Next, toolVars

\* A query asks the provider for the days that were named, whole and no others,
\* in the contact's zone, whatever the clock and the length of the day
\* (resolve_query_window).
THEOREM AsksForWhatWasNamed == Spec => []WindowIsWhatWasAsked
<1>1. Init => CalendarInv
  BY CalendarStarts DEF Init
<1>2. CalendarInv => WindowIsWhatWasAsked
  BY DEF CalendarInv
<1> QED BY <1>1, <1>2, CalendarKept, PTL DEF Spec

\* An event confirmed at any later time keeps the days, or to the second the
\* moment, that were asked for when it was staged, and is read back to the
\* minute, except where its zone shows the wall time twice or never: for every
\* zone, every change of its offset and every clock (resolve_event_bounds,
\* create_event_request, _local_bound).
THEOREM CreatesWhatWasAsked == Spec => []CreatedIsWhatWasAsked
<1>1. Init => CalendarInv
  BY CalendarStarts DEF Init
<1> QED BY <1>1, KeptMeansCreated, CalendarKept, PTL DEF Spec

-----------------------------------------------------------------------------
(***************************************************************************)
(* Pages of a search.                                                      *)
(***************************************************************************)

Messages == {Mailbox[i] : i \in DOMAIN Mailbox}

\* SelectSeq has no definition here that could be expanded; these are the two
\* equations that define it, for the messages that can be read.
SelectsOneByOne ==
    /\ Readable(<<>>) = <<>>
    /\ \A s \in Seq(Messages), m \in Messages :
           Readable(Append(s, m)) =
               IF m \in Unreadable THEN Readable(s) ELSE Append(Readable(s), m)

LEMMA SetInduction ==
    ASSUME NEW S, 0 \in S, \A n \in Nat : n \in S => n + 1 \in S
    PROVE  Nat \subseteq S
<1> DEFINE T == Nat \ S
<1> SUFFICES ASSUME T # {} PROVE FALSE
  OBVIOUS
<1>1. \E n \in T : \A k \in T : ~ (k < n)
  <2>1. PICK n \in T : \A k \in T : ~ (<<k, n>> \in OpToRel(<, Nat))
    BY NatLessThanWellFounded, WFMin
  <2>2. \A k \in T : ~ (k < n)
    BY <2>1 DEF OpToRel
  <2> QED BY <2>2
<1>2. PICK n \in T : \A k \in T : ~ (k < n)
  BY <1>1
<1>3. n \in Nat /\ n # 0 /\ n \notin S
  BY <1>2
<1>4. n - 1 \in Nat /\ n - 1 < n /\ (n - 1) + 1 = n
  BY <1>3
<1>5. n - 1 \in S
  BY <1>2, <1>4
<1> QED BY <1>3, <1>4, <1>5

LEMMA AppendMoves ==
    ASSUME NEW a \in Seq(Messages), NEW b \in Seq(Messages), NEW m \in Messages
    PROVE  Append(a \o b, m) = a \o Append(b, m)
<1>1. a \o b \in Seq(Messages)
  BY ConcatProperties
<1>2. <<m>> \in Seq(Messages)
  OBVIOUS
<1>3. (a \o b) \o <<m>> = a \o (b \o <<m>>)
  BY <1>2, ConcatAssociative
<1>4. Append(a \o b, m) = (a \o b) \o <<m>>
  BY <1>1, AppendIsConcat
<1>5. Append(b, m) = b \o <<m>>
  BY AppendIsConcat
<1> QED BY <1>3, <1>4, <1>5

\* What a page adds is what can be read of it.
LEMMA ReadableJoins ==
    ASSUME SelectsOneByOne, NEW s \in Seq(Messages), NEW t \in Seq(Messages)
    PROVE  Readable(s \o t) = Readable(s) \o Readable(t)
<1> DEFINE
      Reads(u) == Readable(u) \in Seq(Messages)
      Joins(u) == Readable(s \o u) = Readable(s) \o Readable(u)
      S == {n \in Nat : \A u \in Seq(Messages) : Len(u) = n => Reads(u)}
      T == {n \in Nat : \A u \in Seq(Messages) : Len(u) = n => Joins(u)}
<1>1. \A u \in Seq(Messages) : u # <<>> =>
        \E v \in Seq(Messages), m \in Messages :
          u = Append(v, m) /\ Len(u) = Len(v) + 1 /\ Len(v) \in Nat
  <2> SUFFICES ASSUME NEW u \in Seq(Messages), u # <<>>
               PROVE  \E v \in Seq(Messages), m \in Messages :
                        u = Append(v, m) /\ Len(u) = Len(v) + 1 /\ Len(v) \in Nat
    OBVIOUS
  <2>1. PICK v \in Seq(Messages), m \in Messages : u = Append(v, m)
    BY SequenceEmptyOrAppend
  <2>2. Len(Append(v, m)) = Len(v) + 1
    BY AppendProperties
  <2>3. Len(v) \in Nat
    OBVIOUS
  <2> QED BY <2>1, <2>2, <2>3
<1>2. \A u \in Seq(Messages) : Len(u) = 0 => u = <<>>
  BY EmptySeq
<1>3. \A u \in Seq(Messages) : Reads(u)
  <2>1. 0 \in S
    BY <1>2 DEF SelectsOneByOne
  <2>2. ASSUME NEW n \in Nat, n \in S PROVE n + 1 \in S
    <3> SUFFICES ASSUME NEW u \in Seq(Messages), Len(u) = n + 1 PROVE Reads(u)
      OBVIOUS
    <3>1. PICK v \in Seq(Messages), m \in Messages :
            u = Append(v, m) /\ Len(u) = Len(v) + 1 /\ Len(v) \in Nat
      <4>1. u # <<>>
        OBVIOUS
      <4> QED BY <4>1, <1>1
    <3>2. Len(v) = n
      BY <3>1
    <3>3. Readable(v) \in Seq(Messages)
      BY <2>2, <3>2
    <3>4. Readable(u) = IF m \in Unreadable THEN Readable(v) ELSE Append(Readable(v), m)
      BY <3>1 DEF SelectsOneByOne
    <3> QED BY <3>3, <3>4, AppendProperties
  <2>3. Nat \subseteq S
    BY <2>1, <2>2, SetInduction
  <2> QED BY <2>3
<1>4. \A u \in Seq(Messages) : Joins(u)
  <2>1. 0 \in T
    <3> SUFFICES ASSUME NEW u \in Seq(Messages), Len(u) = 0 PROVE Joins(u)
      OBVIOUS
    <3>1. u = <<>> /\ s \o <<>> = s /\ Readable(s) \o <<>> = Readable(s)
      BY <1>2, <1>3, ConcatEmptySeq
    <3> QED BY <3>1 DEF SelectsOneByOne
  <2>2. ASSUME NEW n \in Nat, n \in T PROVE n + 1 \in T
    <3> SUFFICES ASSUME NEW u \in Seq(Messages), Len(u) = n + 1 PROVE Joins(u)
      OBVIOUS
    <3>1. PICK v \in Seq(Messages), m \in Messages :
            u = Append(v, m) /\ Len(u) = Len(v) + 1 /\ Len(v) \in Nat
      <4>1. u # <<>>
        OBVIOUS
      <4> QED BY <4>1, <1>1
    <3>2. Len(v) = n
      BY <3>1
    <3>3. Readable(s \o v) = Readable(s) \o Readable(v)
      BY <2>2, <3>2
    <3>4. s \o u = Append(s \o v, m) /\ s \o v \in Seq(Messages)
      BY <3>1, AppendMoves, ConcatProperties
    <3>5. Readable(s \o u) = IF m \in Unreadable THEN Readable(s \o v)
                             ELSE Append(Readable(s \o v), m)
      BY <3>4 DEF SelectsOneByOne
    <3>6. Readable(u) = IF m \in Unreadable THEN Readable(v) ELSE Append(Readable(v), m)
      BY <3>1 DEF SelectsOneByOne
    <3>7. Readable(s) \in Seq(Messages) /\ Readable(v) \in Seq(Messages)
      BY <1>3
    <3>8. Append(Readable(s) \o Readable(v), m) = Readable(s) \o Append(Readable(v), m)
      BY <3>7, AppendMoves
    <3> QED BY <3>3, <3>5, <3>6, <3>8
  <2>3. Nat \subseteq T
    BY <2>1, <2>2, SetInduction
  <2> QED BY <2>3
<1> QED BY <1>4

\* How far the searches have come.
Seen == IF token = 0 THEN Len(Mailbox) ELSE token - 1

SearchInv ==
    /\ token \in 0 .. Len(Mailbox) + 1
    /\ found = Readable(SubSeq(Mailbox, 1, Seen))

LEMMA MailboxOfMessages == Mailbox \in Seq(Messages) /\ Len(Mailbox) \in Nat
BY MailboxInOrder DEF Messages

\* A page starts where the one before ended, none of it is cut off, and the
\* next token is the place after it.
LEMMA PageIsNext ==
    ASSUME token \in 1 .. Len(Mailbox) + 1, NEW n \in Sizes, token' = NextToken(n)
    PROVE  /\ token' \in 0 .. Len(Mailbox) + 1
           /\ token - 1 \in 0 .. Len(Mailbox)
           /\ Seen' \in (token - 1) .. Len(Mailbox)
           /\ References(n) = SubSeq(Mailbox, (token - 1) + 1, Seen')
<1> DEFINE len == Len(Mailbox)
           last == IF token + n - 1 > len THEN len ELSE token + n - 1
           page == SubSeq(Mailbox, token, last)
<1>1. len \in Nat /\ n \in Nat /\ 1 <= n /\ n <= MaxSearchResults /\ MaxSearchResults \in Nat
  BY MailboxOfMessages, MailBounds DEF Sizes
<1>2. Page(n) = page
  BY DEF Page, Slice
<1> HIDE DEF len
<1>3. token \in 1 .. len + 1
  BY DEF len
<1>4. last \in (token - 1) .. len /\ last - token + 1 <= n
  BY <1>1, <1>3
<1>5. token' = IF token + n > len THEN 0 ELSE token + n
  BY DEF NextToken, len
<1>6. Seen' = last
  <2>1. Seen' = IF token' = 0 THEN len ELSE token' - 1
    BY DEF Seen, len
  <2> QED BY <2>1, <1>1, <1>3, <1>5
<1>7. token' \in 0 .. len + 1
  BY <1>1, <1>3, <1>5
<1> HIDE DEF last
<1>8. page \in Seq(Messages) /\ Len(page) = last - token + 1
  <2>1. token \in Int /\ last \in Int
    BY <1>1, <1>3, <1>4
  <2>2. \A i \in token .. last : Mailbox[i] \in Messages
    BY <1>3, <1>4, MailboxOfMessages DEF len
  <2>3. page \in Seq(Messages) /\ Len(page) = IF token <= last THEN last - token + 1 ELSE 0
    BY <2>1, <2>2, SubSeqProperties
  <2>4. token > last => last - token + 1 = 0
    BY <1>1, <1>3, <1>4
  <2> QED BY <2>1, <2>3, <2>4
<1> HIDE DEF page
<1>9. References(n) = SubSeq(page, 1, Len(page))
  <2>1. Len(page) \in Nat /\ Len(page) <= MaxSearchResults
    BY <1>1, <1>3, <1>4, <1>8
  <2>2. (IF MaxSearchResults > Len(page) THEN Len(page) ELSE MaxSearchResults) = Len(page)
    BY <2>1, <1>1
  <2> QED BY <2>2, <1>2 DEF References, Slice
<1>10. References(n) = page
  BY <1>8, <1>9, SubSeqFull
<1>11. (token - 1) + 1 = token /\ token - 1 \in 0 .. len
  BY <1>1, <1>3
<1> QED BY <1>4, <1>6, <1>7, <1>10, <1>11 DEF page, len

LEMMA SearchStep ==
    ASSUME SelectsOneByOne, SearchInv, NEW n, SearchEmails(n) PROVE SearchInv'
<1>1. /\ token \in 1 .. Len(Mailbox) + 1 /\ n \in Sizes /\ token' = NextToken(n)
      /\ found' = found \o Readable(References(n))
  BY MailboxOfMessages DEF SearchInv, SearchEmails
<1> DEFINE k == token - 1
<1>2. /\ token' \in 0 .. Len(Mailbox) + 1
      /\ k \in 0 .. Len(Mailbox) /\ Seen' \in k .. Len(Mailbox)
      /\ References(n) = SubSeq(Mailbox, k + 1, Seen')
  BY <1>1, PageIsNext
<1>3. Seen = k
  BY <1>1 DEF Seen
<1> HIDE DEF k
<1>4. SubSeq(Mailbox, 1, k) \o SubSeq(Mailbox, k + 1, Seen') = SubSeq(Mailbox, 1, Seen')
  <2>1. 1 \in 1 .. Len(Mailbox) + 1 /\ k \in 1 - 1 .. Len(Mailbox)
    BY <1>2, MailboxOfMessages
  <2> QED BY <2>1, <1>2, MailboxOfMessages, ConcatAdjacentSubSeq
<1>5. /\ SubSeq(Mailbox, 1, k) \in Seq(Messages)
      /\ SubSeq(Mailbox, k + 1, Seen') \in Seq(Messages)
  <2>1. /\ k \in Int /\ k + 1 \in Int /\ Seen' \in Int
        /\ \A i \in 1 .. k : Mailbox[i] \in Messages
        /\ \A i \in k + 1 .. Seen' : Mailbox[i] \in Messages
    BY <1>2, MailboxOfMessages
  <2> QED BY <2>1, SubSeqProperties
<1>6. found' = Readable(SubSeq(Mailbox, 1, k)) \o Readable(SubSeq(Mailbox, k + 1, Seen'))
  BY <1>1, <1>2, <1>3 DEF SearchInv
<1>7. found' = Readable(SubSeq(Mailbox, 1, Seen'))
  BY <1>4, <1>5, <1>6, ReadableJoins
<1> QED BY <1>2, <1>7 DEF SearchInv

LEMMA SearchStays == ASSUME SearchInv, UNCHANGED searchVars PROVE SearchInv'
BY DEF searchVars, SearchInv, Seen

LEMMA SearchKept ==
    ASSUME SelectsOneByOne PROVE SearchInv /\ [Next]_toolVars => SearchInv'
<1> SUFFICES ASSUME SearchInv, [Next]_toolVars PROVE SearchInv'
  OBVIOUS
<1>1. CASE MailNext
  <2>1. ASSUME NEW n, SearchEmails(n) PROVE SearchInv'
    BY <2>1, SearchStep
  <2>2. ASSUME NEW n, SearchFails(n) PROVE SearchInv'
    BY <2>2, SearchStays DEF SearchFails, searchVars
  <2>3. ASSUME NEW to, CreateEmailDraft(to) PROVE SearchInv'
    BY <2>3, SearchStays DEF CreateEmailDraft, searchVars
  <2>4. CASE DraftCreated \/ DraftFails \/ StageDraft \/ StagingFails
    BY <2>4, SearchStays DEF DraftCreated, DraftFails, StageDraft, StagingFails, searchVars
  <2> QED BY <1>1, <2>1, <2>2, <2>3, <2>4 DEF MailNext
<1>2. CASE UNCHANGED mailVars
  BY <1>2, SearchStays DEF mailVars, searchVars
<1> QED BY <1>1, <1>2 DEF Next, toolVars

\* Whoever follows the page tokens sees every readable message once and in the
\* provider's order, for every mailbox, every page size and whichever requests
\* fail in between (search_emails, normalize_search_page).
THEOREM SeesEveryMessage ==
    ASSUME SelectsOneByOne PROVE Spec => []SearchMissesNothing
<1>1. Init => SearchInv
  <2>1. SubSeq(Mailbox, 1, 0) = <<>>
    BY SubSeqEmpty
  <2> SUFFICES ASSUME token = 1, found = <<>> PROVE SearchInv
    BY DEF Init, MailInit
  <2>2. Seen = 0
    BY DEF Seen
  <2>3. Readable(<<>>) = <<>>
    BY DEF SelectsOneByOne
  <2>4. token \in 0 .. Len(Mailbox) + 1
    BY MailboxOfMessages
  <2> QED BY <2>1, <2>2, <2>3, <2>4 DEF SearchInv
<1>2. SearchInv => SearchMissesNothing
  BY DEF SearchInv, Seen, SearchMissesNothing
<1> QED BY <1>1, <1>2, SearchKept, PTL DEF Spec

=============================================================================
