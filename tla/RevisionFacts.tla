----------------------------- MODULE RevisionFacts -----------------------------
(***************************************************************************)
(* What the revisions of Schema come to, one by one.  Up, Down and the     *)
(* models are fixed lists, so that each fact below is a closed formula,    *)
(* which TLC decides by running them.  The proofs about Migrations cite    *)
(* these facts, and argue from them about every sequence of migrations.    *)
(***************************************************************************)
EXTENDS Models

Revisions == 0 .. HeadRevision

\* What the way back from the newest revision leaves: not all it had before.
AllLowered == FoldLeft(Perform, <<Built(HeadRevision)>>, Reverse(Down))
Lowered(n) == AllLowered[HeadRevision - n + 1]

\* The schemas a database may have at a revision, and while the statements of
\* the revision's way up or down are executed.
Schemas(n) == {Built(n), Lowered(n)}
Prepared(s, m) == IF m.data = <<>> THEN s ELSE DoAll(s, m.before)
Altered(s, m) == DoAll(Prepared(s, m), m.after)
SchemasDuring(n) ==
    Schemas(n)
    \cup {Prepared(s, Up[n + 1]) : s \in IF n < HeadRevision THEN Schemas(n) ELSE {}}
    \cup {Prepared(s, Down[n]) : s \in IF n > 0 THEN Schemas(n) ELSE {}}

\* A revision leads to its neighbours from whatever schema it may have.
RevisionsMeet ==
    \A n \in 1 .. HeadRevision :
        /\ \A s \in Schemas(n - 1) : Altered(s, Up[n]) \in Schemas(n)
        /\ \A s \in Schemas(n) : Altered(s, Down[n]) \in Schemas(n - 1)
NothingRaises == \A n \in Revisions : \A s \in SchemasDuring(n) : Broken \notin s

\* There is one newest schema, and it is that of the models.
NewestIsDeclared ==
    Schemas(HeadRevision) = {Metadata \cup {Closed(f[1]) : f \in Metadata}}

\* The jobs that the revisions allow.
JobsAllowed ==
    \A n \in Revisions : \A s \in SchemasDuring(n) :
        /\ IsTable(s, "job") <=> n >= 3
        /\ n < 3 => Allowed(s, "ck_job_kind") = {}
        /\ n \in 3 .. 12 => Allowed(s, "ck_job_kind") = Kinds3
        /\ n \in 13 .. 14 => Allowed(s, "ck_job_kind") = Kinds13
        /\ n \in 15 .. 16 => Allowed(s, "ck_job_kind") = Kinds15
        /\ n = 17 => Allowed(s, "ck_job_kind") = Kinds17
        /\ n = 18 => Allowed(s, "ck_job_kind") = Kinds18
        /\ Fact("job", "contact_id", {"optional"}) \in s <=> n \in 13 .. 17

\* The proposals that they allow.
ProposalsAllowed ==
    \A n \in Revisions : \A s \in SchemasDuring(n) :
        /\ IsTable(s, "pending_action") <=> n >= 8
        /\ "status" \in Names(s, "pending_action") <=> n >= 9
        /\ n < 9 => Allowed(s, "ck_pending_action_status") = {}
        /\ n \in 9 .. 13 => Allowed(s, "ck_pending_action_status") = Statuses9
        /\ n >= 14 => Allowed(s, "ck_pending_action_status") = Statuses14

\* The columns that a revision fills in and then requires.
ColumnsRequired ==
    \A n \in Revisions : \A s \in SchemasDuring(n) :
        /\ Fact("connect_link", "provider", {"required"}) \in s <=> n >= 12
        /\ Fact("pending_action", "payload_hash", {"required"}) \in s <=> n >= 14
        /\ n >= 12 =>
             IsTable(s, "connect_link") /\ "provider" \in Names(s, "connect_link")
        /\ n >= 14 => "payload_hash" \in Names(s, "pending_action")

\* Automations are kept from the revision on that made them; only its way back
\* removes their table.
AutomationsKept ==
    /\ \A n \in Revisions : \A s \in Schemas(n) : IsTable(s, "automation") <=> n >= 15
    /\ \A n \in 15 .. HeadRevision - 1 : \A s \in Schemas(n) :
           IsTable(Prepared(s, Up[n + 1]), "automation")

\* The statements that change rows.
StatementsUp ==
    /\ \A n \in 1 .. 15 : n \notin {12, 14} => Up[n].data = <<>>
    /\ Up[12].data = <<"links_are_google">>
    /\ Up[14].data = <<"payloads_are_hashed">>
    /\ Up[16].data = <<"seed_briefing">>
    /\ Up[17].data = <<"no_turns">>
    /\ Up[18].data = <<"no_knocks", "no_briefing_wake_ups", "no_briefing">>
StatementsDown ==
    /\ \A n \in 1 .. HeadRevision : n \notin {14, 15} => Down[n].data = <<>>
    /\ Down[14].data = <<"concluded_are_claimed">>
    /\ Down[15].data = <<"no_wake_ups">>

\* A revision that changes what a table allows has locked it, some before they
\* change its rows.
ChangesLock ==
    /\ "connect_link" \in LockedBy(Up[12].before) \cap LockedBy(Up[12].after)
    /\ "connect_link" \in LockedBy(Down[12].after)
    /\ "pending_action" \in LockedBy(Up[14].before)
    /\ "job" \in LockedBy(Down[15].before)
    /\ \A n \in {3, 13, 15, 17, 18} :
           "job" \in LockedBy(Up[n].after) /\ "job" \in LockedBy(Down[n].after)
    /\ \A n \in {8, 9, 14} :
           /\ "pending_action" \in LockedBy(Up[n].after)
           /\ "pending_action" \in LockedBy(Down[n].after)

ASSUME FactsOfRevisions ==
    /\ RevisionsMeet
    /\ NothingRaises
    /\ NewestIsDeclared
    /\ JobsAllowed
    /\ ProposalsAllowed
    /\ ColumnsRequired
    /\ AutomationsKept
    /\ StatementsUp
    /\ StatementsDown
    /\ ChangesLock
=============================================================================
