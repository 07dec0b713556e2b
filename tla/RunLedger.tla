----------------------------- MODULE RunLedger -----------------------------
(***************************************************************************)
(* What the Execution runs of a contact promise to the rest of the         *)
(* program, whoever races to end them: a run begins once, ends once, keeps *)
(* its end, and its end is told to Interaction at most once and never      *)
(* before it is final.  An abandoned run is never told.                    *)
(***************************************************************************)
EXTENDS Naturals

CONSTANTS Runs, Outcomes

VARIABLES
    end,    \* how a run ended, or that it has not begun or not ended
    told    \* how often Interaction was asked to tell it

vars == <<end, told>>

Init ==
    /\ end = [r \in Runs |-> "absent"]
    /\ told = [r \in Runs |-> 0]

Begin(r) ==
    /\ end[r] = "absent"
    /\ end' = [end EXCEPT ![r] = "open"]
    /\ UNCHANGED told

End(r, outcome) ==
    /\ end[r] = "open"
    /\ end' = [end EXCEPT ![r] = outcome]
    /\ UNCHANGED told

Tell(r) ==
    /\ end[r] \in Outcomes
    /\ told[r] = 0
    /\ told' = [told EXCEPT ![r] = 1]
    /\ UNCHANGED end

\* A worker ends the run of a wake-up and tells it without a pause.
EndAndTell(r, outcome) ==
    /\ end[r] = "open"
    /\ told[r] = 0
    /\ end' = [end EXCEPT ![r] = outcome]
    /\ told' = [told EXCEPT ![r] = 1]

Abandon(S) ==
    /\ \A r \in S : end[r] = "open"
    /\ end' = [r \in Runs |-> IF r \in S THEN "abandoned" ELSE end[r]]
    /\ UNCHANGED told

Next ==
    \/ \E r \in Runs : Begin(r) \/ Tell(r)
    \/ \E r \in Runs, outcome \in Outcomes :
         End(r, outcome) \/ EndAndTell(r, outcome)
    \/ \E S \in SUBSET Runs : Abandon(S)

Spec == Init /\ [][Next]_vars
=============================================================================
