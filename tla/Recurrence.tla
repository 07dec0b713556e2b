----------------------------- MODULE Recurrence -----------------------------
(***************************************************************************)
(* The next occurrence of a recurrence rule: next_occurrence_utc of        *)
(* src/app/core/rrule.py.  Instants are integers.  The zone of the         *)
(* automation has one offset before the instant Transition and another one *)
(* from then on; the rule matches the wall times that are Phase modulo     *)
(* Period, up to LastWall (UNTIL, or the last of COUNT).  Wall times carry *)
(* no offset in the code, which is what makes the two conversions          *)
(* interesting.                                                            *)
(*                                                                         *)
(* A definition named X_Y in front of X is X with a plausible bug Y.       *)
(***************************************************************************)
EXTENDS Integers

CONSTANTS
    OffsetBefore, OffsetAfter, Transition,
    Period, Phase, LastWall,
    NoInstant  \* the rule is exhausted

\* _naive_local.
NaiveLocal(utc) == utc + (IF utc < Transition THEN OffsetBefore ELSE OffsetAfter)

\* _to_utc, with fold = 0: a wall time that the clock shows twice is the first
\* of the two, and one that it skips has the offset from before the transition.
LaterOffset == IF OffsetBefore < OffsetAfter THEN OffsetAfter ELSE OffsetBefore
ToUtc(wall) ==
    wall - (IF wall < Transition + LaterOffset THEN OffsetBefore ELSE OffsetAfter)

\* rule.after(after_local, inc=False): the first wall time of the rule after this one.
NextMatch(wall) == wall + 1 + ((Phase - wall - 1) % Period)

\* next_occurrence_utc; the rule starts with its dtstart.
NextOccurrence(after, dtstart) ==
    LET start == NaiveLocal(dtstart)
        wall == NaiveLocal(after)
        match == NextMatch(IF wall < start THEN start - 1 ELSE wall)
    IN  IF match <= LastWall THEN ToUtc(match) ELSE NoInstant

=============================================================================
