------------------------- MODULE MC_ExecutionTools -------------------------
(* Three rows and two calls; days of two minutes of two seconds, a contact  *)
(* whose zone is put back at 50 (it shows 46 and 47 twice) west of one that *)
(* is put forward at 42 (and never shows 44 and 45), a clock that passes a  *)
(* Sunday's midnight; five messages read in pages of up to two.             *)
EXTENDS ExecutionTools, TLC

CONSTANTS c1, c2, m1, m2, m3, m4, m5

MCBefore == [home |-> -2, away |-> 2]
MCAfter == [home |-> -4, away |-> 4]
MCChange == [home |-> 50, away |-> 42]
MCClock == {44, 52, 56, 64, 68}
MCDates == {5, 6, 7, 9}
MCTimes == {45, 46, 48, 51, 160}
MCDues == {1, 2}
MCCalls == {c1, c2}
MCMailbox == <<m1, m2, m3, m4, m5>>
MCUnreadable == {m3}

Symmetry == Permutations(MCCalls)

\* The hypothesis of SeesEveryMessage in ExecutionTools_proofs, on short pages.
ASSUME SelectsOneByOne ==
    /\ Readable(<<>>) = <<>>
    /\ \A s \in SeqOf({m1, m2, m3}, 3), m \in {m1, m3} :
           Readable(Append(s, m)) =
               IF m \in MCUnreadable THEN Readable(s) ELSE Append(Readable(s), m)

\* A query reads nothing of what is staged: one of the two at a time.
OneRequest == query = None \/ staged = None
=============================================================================
