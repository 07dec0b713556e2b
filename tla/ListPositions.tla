--------------------------- MODULE ListPositions ---------------------------
(***************************************************************************)
(* Things named by their position in a list: the list_, complete_, cancel_,*)
(* pause_ and resume_ tools of an Execution run on the tasks, reminders    *)
(* and automations of its contact (src/app/agent/tools.py,                 *)
(* agent/automation_tools.py).  A call reads the list again, takes the row *)
(* at the position and updates it by id; a second call of the same         *)
(* response, another run and the worker write the same rows in between.    *)
(* One of the three tables at a time, chosen at the start.                 *)
(*                                                                         *)
(* A definition named X_Y in front of X is X with a plausible bug Y; no    *)
(* action uses it.                                                         *)
(***************************************************************************)
EXTENDS Integers, Sequences, SequencesExt

CONSTANTS
    MaxItems,  \* bound on the rows of the list
    MaxTold,   \* bound on the counter of told, beyond what is possible
    Dues,      \* values of due_at and next_run_at
    Calls,     \* tool calls of the run that can be in flight together
    NoDue      \* NULL, which sorts last

ASSUME ListBounds == MaxItems \in Nat /\ MaxTold \in Nat /\ Dues \subseteq Nat
ASSUME ListNulls == NoDue \notin Dues

Items == 1 .. MaxItems  \* in the order of created_at
Tables == {"tasks", "reminders", "automations"}

VARIABLES
    table,    \* the list this behaviour is about
    status,   \* status of each row, "none" before it exists
    due,      \* due_at, next_run_at
    shown,    \* what the last list_ call of the run returned, up to the first
              \* row that a later change has moved
    call,     \* calls between their SELECT and their UPDATE
    told      \* how many calls have said that they closed the row

listRows == <<status, due>>
listVars == <<table, listRows, shown, call, told>>

-----------------------------------------------------------------------------
\* The status of a new row, and those after which a row is closed.
Fresh == IF table = "tasks" THEN "open" ELSE "active"
Closing == {"complete", "cancel"}

Ops == CASE table = "tasks" -> {"complete"}
         [] table = "reminders" -> {"cancel"}
         [] OTHER -> {"pause", "resume", "cancel"}

\* What each tool accepts: the check on the row that was read and, again, the
\* WHERE clause of complete_task_row, cancel_reminder_row, set_automation_status.
Accepts(op) ==
    CASE op = "complete" -> {"open"}
      [] op = "pause" -> {"active"}
      [] op = "resume" -> {"paused"}
      [] table = "reminders" -> {"active"}
      [] OTHER -> {"active", "paused"}
Result(op) ==
    CASE op = "complete" -> "done"
      [] op = "pause" -> "paused"
      [] op = "resume" -> "active"
      [] OTHER -> "cancelled"

-----------------------------------------------------------------------------
(***************************************************************************)
(* list_tasks_for_contact, list_reminders_for_contact and                  *)
(* list_automations_for_contact: by status, then due, then created.        *)
(***************************************************************************)
Rank_ByName(s) == IF s = "done" THEN 0 ELSE IF s \in {"open", "active"} THEN 1 ELSE 2
Rank(s) ==
    CASE s \in {"open", "active"} -> 0
      [] s = "paused" -> 1
      [] OTHER -> 2

\* s and d are the columns status and due.
Sooner(d, i, j) == d[i] # NoDue /\ (d[j] = NoDue \/ d[i] < d[j])
Before(s, d, i, j) ==
    \/ Rank(s[i]) < Rank(s[j])
    \/ /\ Rank(s[i]) = Rank(s[j])
       /\ Sooner(d, i, j) \/ (d[i] = d[j] /\ i < j)

Existing(s) == {i \in Items : s[i] # "none"}
ListOf(s, d) == SetToSortSeq(Existing(s), LAMBDA i, j : Before(s, d, i, j))
Ordered == ListOf(status, due)

\* ordered[index - 1], with the refusals of an index outside the list.
AtPosition_FromZero(n) == IF n + 1 \in DOMAIN Ordered THEN {Ordered[n + 1]} ELSE {}
AtPosition(n) == IF n \in DOMAIN Ordered THEN {Ordered[n]} ELSE {}

-----------------------------------------------------------------------------
Free == [op |-> "none", item |-> 0]

ListInit ==
    /\ table \in Tables
    /\ status = [i \in Items |-> "none"]
    /\ due = [i \in Items |-> NoDue]
    /\ shown = <<>>
    /\ call = [c \in Calls |-> Free]
    /\ told = [i \in Items |-> 0]

\* A row that is closed, paused or claimed may be anywhere behind its place
\* then; one that is added, resumed, released or put off, anywhere at all.
ShownBefore(i) ==
    LET place == SelectInSeq(shown, LAMBDA j : j = i)
    IN  IF place = 0 THEN shown ELSE SubSeq(shown, 1, place - 1)

Write(i, s, d) ==
    /\ status' = [status EXCEPT ![i] = s]
    /\ due' = [due EXCEPT ![i] = d]
    /\ shown' = IF s \in {"open", "active"} THEN <<>> ELSE ShownBefore(i)

\* set_reminder refuses to go without a time, and create_automation takes the
\* first occurrence; only a task may have none.
DueGiven(d) == d = NoDue => table = "tasks"

\* add_task, set_reminder, create_automation: the next row in the order of
\* created_at.
AddItem(i, d) ==
    /\ i \in Items \ Existing(status)
    /\ 1 .. i - 1 \subseteq Existing(status)
    /\ DueGiven(d)
    /\ Write(i, Fresh, d)
    /\ UNCHANGED <<table, call, told>>

\* list_tasks, list_reminders, list_automations.
ListItems ==
    /\ shown' = Ordered
    /\ UNCHANGED <<table, listRows, call, told>>

\* complete_task, cancel_reminder, _set_listed_status, resume_automation up to
\* their UPDATE; a position that is refused changes nothing.
ReadPosition(c, n, op) ==
    /\ call[c].op = "none"
    /\ op \in Ops
    /\ \E i \in AtPosition(n) :
         /\ status[i] \in Accepts(op)
         /\ call' = [call EXCEPT ![c] = [op |-> op, item |-> i]]
    /\ UNCHANGED <<table, listRows, shown, told>>

\* The UPDATE and its answer.  Cancelling an automation clears next_run_at,
\* resuming it sets the next occurrence, d.
StillAccepts_Any(c) == TRUE
StillAccepts(c) == status[call[c].item] \in Accepts(call[c].op)

DueAfter(i, op, d) ==
    CASE op = "resume" -> d
      [] op = "cancel" /\ table = "automations" -> NoDue
      [] OTHER -> due[i]

UpdateItem(c, d) ==
    LET i == call[c].item
        op == call[c].op
    IN  /\ op # "none"
        /\ op = "resume" \/ d = NoDue
        /\ op = "resume" => d # NoDue
        /\ IF StillAccepts(c)
           THEN /\ Write(i, Result(op), DueAfter(i, op, d))
                /\ told' = IF op \in Closing /\ told[i] < MaxTold
                           THEN [told EXCEPT ![i] = @ + 1] ELSE told
           ELSE UNCHANGED <<listRows, shown, told>>
        /\ call' = [call EXCEPT ![c] = Free]
        /\ UNCHANGED table

\* claim_reminder_for_send and release_reminder_claim of the worker.
FireReminder(i) ==
    /\ table = "reminders"
    /\ status[i] = "active"
    /\ Write(i, "sent", due[i])
    /\ UNCHANGED <<table, call, told>>

ReleaseFired(i) ==
    /\ table = "reminders"
    /\ status[i] = "sent"
    /\ Write(i, "active", due[i])
    /\ UNCHANGED <<table, call, told>>

\* The worker stores the next occurrence of an automation, or that there is none.
AdvanceAutomation(i, d) ==
    /\ table = "automations"
    /\ status[i] = "active"
    /\ due[i] # d
    /\ Write(i, "active", d)
    /\ UNCHANGED <<table, call, told>>

ListNext ==
    \/ \E i \in Items, d \in Dues \cup {NoDue} : AddItem(i, d)
    \/ ListItems
    \/ \E c \in Calls, n \in Items, op \in Closing \cup {"pause", "resume"} :
           ReadPosition(c, n, op)
    \/ \E c \in Calls, d \in Dues \cup {NoDue} : UpdateItem(c, d)
    \/ \E i \in Items : FireReminder(i) \/ ReleaseFired(i)
    \/ \E i \in Items, d \in Dues \cup {NoDue} : AdvanceAutomation(i, d)

-----------------------------------------------------------------------------
(***************************************************************************)
(* Properties.                                                             *)
(***************************************************************************)

\* Closing, pausing or claiming a row, by this run or by anyone, leaves the
\* numbers in front of it as they were: a run that has looked once can act on
\* several positions, from the last to the first, and each call still meets the
\* row it was shown (list_tasks and _ordered_automations against complete_task,
\* cancel_reminder and _set_listed_status).
PositionsHold == IsPrefix(shown, Ordered)

\* A row that a call has said to be completed or cancelled is, and stays so:
\* no other call, run or claim of the worker undoes it, and of two calls for
\* the same row one says so.
ClosedAsTold ==
    \A i \in Items :
        told[i] > 0 => told[i] = 1 /\ status[i] \in {"done", "cancelled"}

=============================================================================
