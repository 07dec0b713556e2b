--------------------------- MODULE ExecutionTools ---------------------------
(***************************************************************************)
(* The tools of one Execution run (src/app/agent/execution.py,             *)
(* agent/owned_tools.py): the toolkit of the run, fixed before the model   *)
(* starts, decides which of the three groups of tools it can call.         *)
(***************************************************************************)
EXTENDS ListPositions, CalendarRequests, MailRequests

CONSTANTS Toolkits  \* the toolkits runs are dispatched with

VARIABLES toolkit

toolVars == <<toolkit, listVars, calendarVars, mailVars>>

-----------------------------------------------------------------------------
\* build_execution_toolset: the tools of the contact's own lists for local,
\* otherwise those of _TOOL_FACTORIES.
HasListTools == toolkit = "local"
HasCalendarTools == toolkit = "googlecalendar"
HasMailTools == toolkit = "gmail"

Init ==
    /\ toolkit \in Toolkits
    /\ ListInit
    /\ CalendarInit
    /\ MailInit
    /\ HasListTools \/ table = "tasks"  \* what a run cannot reach is left as one case
    /\ HasMailTools \/ goal = {}

Next ==
    /\ UNCHANGED toolkit
    /\ \/ HasListTools /\ ListNext /\ UNCHANGED <<calendarVars, mailVars>>
       \/ HasCalendarTools /\ CalendarNext /\ UNCHANGED <<listVars, mailVars>>
       \/ HasMailTools /\ MailNext /\ UNCHANGED <<listVars, calendarVars>>

Spec == Init /\ [][Next]_toolVars

=============================================================================
