------------------------- MODULE CalendarRequests -------------------------
(***************************************************************************)
(* The requests of the calendar tools (src/app/integrations/calendar.py,   *)
(* agent/calendar_tools.py): how the words of an ask (today, next week, a  *)
(* date, a time) become the window of a query and the bounds of a staged   *)
(* event, the event that a later confirmation creates from the staged      *)
(* payload, and what is read back of it.                                   *)
(*                                                                         *)
(* Instants and wall times are integers, in halves of a second, Units of   *)
(* them to a day; a wall time is the instant plus the offset its zone has  *)
(* then.  The offset of a zone changes once, so that some wall times come  *)
(* twice or never.  Day 0 is a Monday.                                     *)
(*                                                                         *)
(* A definition named X_Y in front of X is X with a plausible bug Y; no    *)
(* action uses it.                                                         *)
(***************************************************************************)
EXTENDS Integers, FiniteSetsExt

CONSTANTS
    Units,         \* halves of a second to a day
    Minute,        \* and to a minute
    MaxRangeDays,  \* MAX_RANGE_DAYS
    Clock,         \* instants at which something may happen
    OffsetBefore, OffsetAfter, \* the offsets of each time zone
    Change,        \* the instant at which a zone passes to the second
    Contact,       \* the zone of the contact
    Dates, Times   \* days and wall times that an ask may name

ASSUME CalendarBounds ==
    /\ Units \in Nat \ {0}
    /\ MaxRangeDays \in Nat /\ MaxRangeDays >= 7  \* 31: a week fits
    /\ Minute \in Nat \ {0}
    /\ Clock \subseteq Int
    /\ Contact \in DOMAIN OffsetBefore
    /\ OffsetBefore \in [DOMAIN OffsetBefore -> Int]
    /\ OffsetAfter \in [DOMAIN OffsetBefore -> Int]
    /\ Change \in [DOMAIN OffsetBefore -> Int]
    \* Offsets and their changes are whole seconds.
    /\ \A z \in DOMAIN OffsetBefore :
           OffsetBefore[z] % 2 = 0 /\ OffsetAfter[z] % 2 = 0 /\ Change[z] % 2 = 0
    /\ Dates \subseteq Int /\ Times \subseteq Int

Zones == DOMAIN OffsetBefore

VARIABLES
    now,
    query,    \* the last list_events request and the ask behind it; None when
              \* the run has made another request since
    staged,   \* the payload of the pending action and the ask behind it
    created,  \* the event at the provider: its bounds and when it begins there
    readBack  \* the start that list_events or get_event gave for it

calendarVars == <<now, query, staged, created, readBack>>

None == [kind |-> "none"]

-----------------------------------------------------------------------------
Keys == {"today", "tomorrow", "yesterday", "this_week", "next_week"}
Relative == [kind : {"relative"}, key : Keys]
DateAsks == [kind : {"date"}, day : Dates]
\* A time with an offset is the instant, one without is in the zone.
TimeAsks == [kind : {"instant", "wall"}, at : Times]
DayAsks == Relative \cup DateAsks
Asks == DayAsks \cup TimeAsks

Day(wall) == wall \div Units
Midnight(day) == day * Units

OffsetAt(zone, t) == IF t < Change[zone] THEN OffsetBefore[zone] ELSE OffsetAfter[zone]
WallAt(zone, t) == t + OffsetAt(zone, t)

Today(zone) == Day(WallAt(zone, now))
Monday(day) == day - (day % 7)

\* _relative_window, in days: the first and the one after the last.
RelativeDays(key, today) ==
    CASE key = "today" -> [lo |-> today, hi |-> today + 1]
      [] key = "tomorrow" -> [lo |-> today + 1, hi |-> today + 2]
      [] key = "yesterday" -> [lo |-> today - 1, hi |-> today]
      [] key = "this_week" -> [lo |-> Monday(today), hi |-> Monday(today) + 7]
      [] OTHER -> [lo |-> Monday(today) + 7, hi |-> Monday(today) + 14]

AskedDays(ask, zone) ==
    IF ask.kind = "relative" THEN RelativeDays(ask.key, Today(zone))
    ELSE [lo |-> ask.day, hi |-> ask.day + 1]

\* _parse_boundary of a datetime, as a wall time of the zone.
WallOf(ask, zone) == IF ask.kind = "wall" THEN ask.at ELSE WallAt(zone, ask.at)

-----------------------------------------------------------------------------
(***************************************************************************)
(* resolve_query_window in the contact's zone.  Omitted is a bound that is *)
(* not given.  The result is a set: empty when the ask is refused.         *)
(***************************************************************************)
Omitted == [kind |-> "omitted"]

LowerBound(ask) ==
    IF ask \in DayAsks THEN Midnight(AskedDays(ask, Contact).lo) ELSE WallOf(ask, Contact)
UpperBound_DayExclusive(ask) ==
    IF ask \in DayAsks THEN Midnight(AskedDays(ask, Contact).lo) ELSE WallOf(ask, Contact)
UpperBound(ask) ==
    IF ask \in DayAsks THEN Midnight(AskedDays(ask, Contact).hi) ELSE WallOf(ask, Contact)

InRange(lo, hi) == lo < hi /\ hi - lo <= MaxRangeDays * Units

QueryWindow(min, max) ==
    CASE min = Omitted /\ max = Omitted ->
             {[lo |-> Midnight(Today(Contact)), hi |-> Midnight(Today(Contact) + 1)]}
      [] min \in DayAsks /\ max = Omitted ->
             {[lo |-> LowerBound(min), hi |-> UpperBound(min)]}
      [] min # Omitted /\ max # Omitted /\ InRange(LowerBound(min), UpperBound(max)) ->
             {[lo |-> LowerBound(min), hi |-> UpperBound(max)]}
      [] OTHER -> {}

(***************************************************************************)
(* resolve_event_bounds in the event's zone.  The end of an all-day event  *)
(* is the day after its last, as at Google; an end that leaves no day is   *)
(* moved to the day after the start, one that leaves no time is refused.   *)
(* Times are compared as wall times, whatever the offset of each, and kept *)
(* without it and without the fraction of a second ("%H:%M:%S").           *)
(***************************************************************************)
WholeSecond(wall) == wall - (wall % 2)

StartDay(ask, zone) == AskedDays(ask, zone).lo
EndDay(start, end, zone) ==
    LET day == AskedDays(end, zone).lo
    IN  IF day <= StartDay(start, zone) THEN StartDay(start, zone) + 1 ELSE day

EventBounds(start, end, zone) ==
    CASE {start, end} \subseteq DayAsks
         /\ EndDay(start, end, zone) - StartDay(start, zone) <= MaxRangeDays ->
             {[allDay |-> TRUE, zone |-> zone, lo |-> StartDay(start, zone),
               hi |-> EndDay(start, end, zone)]}
      [] {start, end} \subseteq TimeAsks /\ InRange(WallOf(start, zone), WallOf(end, zone)) ->
             {[allDay |-> FALSE, zone |-> zone, lo |-> WholeSecond(WallOf(start, zone)),
               hi |-> WholeSecond(WallOf(end, zone))]}
      [] OTHER -> {}

-----------------------------------------------------------------------------
CalendarInit ==
    /\ now \in Clock
    /\ query = None
    /\ staged = None
    /\ created = None
    /\ readBack = None

ClockTicks ==
    /\ now' \in {t \in Clock : t > now}
    /\ UNCHANGED <<query, staged, created, readBack>>

\* list_events; the provider answers with what overlaps the window.
ListEvents(min, max) ==
    /\ query' \in [kind : {"query"}, min : {min}, max : {max}, at : {now},
                   window : QueryWindow(min, max)]
    /\ UNCHANGED <<now, staged, created, readBack>>

\* stage_create_event and validate_create_payload: the payload holds explicit
\* bounds; start, end and at are what the person asked and when.
Payload(start, end, zone) ==
    [kind : {"staged"}, bounds : EventBounds(start, end, zone),
     start : {start}, end : {end}, at : {now}]
StageCreateEvent(start, end, zone) ==
    /\ staged = None
    /\ staged' \in Payload(start, end, zone)
    /\ query' = None
    /\ UNCHANGED <<now, created, readBack>>

\* The instants a provider may take a wall time for that is sent without an
\* offset: those that show it, both where the clock is put forward past it.
Either(wall, zone) == {wall - OffsetBefore[zone], wall - OffsetAfter[zone]}
Showing(wall, zone) == {t \in Either(wall, zone) : WallAt(zone, t) = wall}
Readings(wall, zone) ==
    IF Showing(wall, zone) = {} THEN Either(wall, zone) ELSE Showing(wall, zone)
Beginnings(bounds) ==
    IF bounds.allDay THEN {bounds.lo} ELSE Readings(bounds.lo, bounds.zone)

\* confirm_staged_event, however much later: create_event_request.
EventBounds_Resolved == EventBounds(staged.start, staged.end, staged.bounds.zone)
SentBounds == {staged.bounds}
ConfirmEvent ==
    /\ staged # None
    /\ created = None
    /\ \E bounds \in SentBounds : \E begins \in Beginnings(bounds) :
           created' = [kind |-> "event", bounds |-> bounds, begins |-> begins]
    /\ query' = None
    /\ UNCHANGED <<now, staged, readBack>>

\* normalize_event, _local_bound: a date as it is, a time in the contact's zone
\* and without its seconds ("%H:%M").
WholeMinute(wall) == wall - (wall % Minute)
LocalBound(event) ==
    IF event.bounds.allDay THEN event.begins ELSE WholeMinute(WallAt(Contact, event.begins))
ReadEvent ==
    /\ created # None
    /\ readBack' = [kind |-> "read", start |-> LocalBound(created)]
    /\ query' = None
    /\ UNCHANGED <<now, staged, created>>

CalendarNext ==
    \/ ClockTicks
    \/ \E min, max \in Asks \cup {Omitted} : ListEvents(min, max)
    \/ \E start, end \in Asks, zone \in Zones : StageCreateEvent(start, end, zone)
    \/ ConfirmEvent
    \/ ReadEvent

-----------------------------------------------------------------------------
(***************************************************************************)
(* Properties.                                                             *)
(***************************************************************************)

\* What the words mean, said without the code's arithmetic: the days that an
\* ask names when it is made at the instant at.
SameWeek(d, e) == d \div 7 = e \div 7
DaysNamed(ask, zone, at) ==
    LET today == Day(WallAt(zone, at))
        near == (today - 14) .. (today + 14)
    IN  IF ask.kind = "date" THEN {ask.day}
        ELSE CASE ask.key = "today" -> {today}
               [] ask.key = "tomorrow" -> {today + 1}
               [] ask.key = "yesterday" -> {today - 1}
               [] ask.key = "this_week" -> {d \in near : SameWeek(d, today)}
               [] OTHER -> {d \in near : SameWeek(d, today + 7)}

FirstNamed(ask, at, zone) ==
    IF ask \in DayAsks THEN Units * Min(DaysNamed(ask, zone, at)) ELSE WallOf(ask, zone)

\* A query asks the provider for the days that were named and for no others:
\* from the first moment of time_min to the last of time_max, whole days where
\* days were named, in the contact's zone, and at most MAX_RANGE_DAYS
\* (resolve_query_window).
WindowIsWhatWasAsked ==
    query # None =>
        LET lo == query.window.lo
            hi == query.window.hi
            max == IF query.max = Omitted THEN query.min ELSE query.max
        IN  /\ InRange(lo, hi)
            /\ query.min # Omitted => lo = FirstNamed(query.min, query.at, Contact)
            /\ max \in DayAsks =>
                   /\ Day(hi - 1) = Max(DaysNamed(max, Contact, query.at))
                   /\ hi % Units = 0
            /\ query.min = Omitted =>
                   {Day(w) : w \in lo .. hi - 1} = {Day(WallAt(Contact, query.at))}

\* What the bounds of an event keep of the ask made at the instant at.
KeepsTheDays(e, start, end, at) ==
    /\ e.lo * Units = FirstNamed(start, at, e.zone)
    /\ e.lo < e.hi
    /\ e.hi = e.lo + 1 \/ e.hi * Units = FirstNamed(end, at, e.zone)
KeepsTheTimes(e, start, end) ==
    /\ e.lo \in WallOf(start, e.zone) - 1 .. WallOf(start, e.zone)
    /\ e.hi \in WallOf(end, e.zone) - 1 .. WallOf(end, e.zone)
    /\ e.lo <= e.hi
    /\ e.lo = e.hi => WallOf(end, e.zone) - WallOf(start, e.zone) = 1

\* The moments a person can have meant by a time, and the wall times that the
\* clock of a zone shows neither twice nor never.
Meant(ask, zone) == IF ask.kind = "instant" THEN {ask.at} ELSE Readings(ask.at, zone)
ShownOnce(wall, zone) == \E t \in Readings(wall, zone) : Showing(wall, zone) = {t}

\* An event of whole days begins on the day the words named when it was staged,
\* not on the one they name when it is confirmed, lasts at least a day and ends
\* before the day named as its end.  An event with times begins at the moment
\* that was meant, to the second, and is read back in the contact's zone to the
\* minute, unless the event's zone shows that wall time twice or never: what is
\* staged has no offset, so that the hour an offset or the first of the two
\* readings picked is lost.  It is empty only when its wall times are less
\* than a second apart (resolve_event_bounds, create_event_request, _local_bound).
CreatedIsWhatWasAsked ==
    created # None =>
        LET e == created.bounds
        IN  IF e.allDay
            THEN /\ KeepsTheDays(e, staged.start, staged.end, staged.at)
                 /\ readBack # None => readBack.start = e.lo
            ELSE /\ KeepsTheTimes(e, staged.start, staged.end)
                 /\ ShownOnce(e.lo, e.zone) =>
                      \E m \in Meant(staged.start, e.zone) :
                          /\ created.begins \in m - 1 .. m
                          /\ readBack # None =>
                               WallAt(Contact, m) - readBack.start \in 0 .. Minute

=============================================================================
