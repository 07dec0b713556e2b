------------------------------ MODULE Migrations ------------------------------
(***************************************************************************)
(* The revisions of Schema applied to a database in use                    *)
(* (src/alembic/env.py, src/alembic/versions).                             *)
(*                                                                         *)
(* `alembic upgrade` and `downgrade` run all the revisions on their way in *)
(* one transaction, before the new release is deployed: the old one goes   *)
(* on writing.  An operation locks its tables till the end; a statement    *)
(* that changes rows locks only those, so that between a DELETE and the    *)
(* operations that rely on it a row may come in.  Releases that are not in *)
(* this repository write what the schema of their revision allows.         *)
(***************************************************************************)
EXTENDS Models

CONSTANTS
    JobIds,       \* job rows
    Stops,        \* revisions at which a release was deployed
    MaxMoves,     \* bound on the migrations
    MaxWrites     \* bound on the writes of the releases

ASSUME StopsAssumption == Stops \subseteq 0 .. HeadRevision /\ Stops # {}
ASSUME BoundsAssumption == MaxMoves \in Nat /\ MaxWrites \in Nat

VARIABLES
    revision,     \* alembic_version
    schema,       \* the committed schema
    rows,         \* the committed rows that a migration looks at
    pgcrypto,     \* whether the database has the extension: no revision makes it
    release,      \* the revision of the code that runs
    tx,           \* the migration under way: what it sees and has locked
    late,         \* jobs that were written while a migration was under way
    failure,      \* the last migration that was rolled back
    moves, writes

migrationVars == <<revision, schema, rows, pgcrypto, release, tx, late, failure, moves, writes>>

\* Wake-ups of the briefing and of a person's own automation are one kind.
Jobs == (Kinds15 \ {"automation_due"}) \cup {"briefing_wake_up", "own_wake_up"}
WakeUps == {"briefing_wake_up", "own_wake_up"}
Kind(j) == IF j \in WakeUps THEN "automation_due" ELSE j
Proposals == {"none", "unmarked", "pending", "claimed", "executed"}

\* A link's provider and a proposal's hash, in a column that may not be there.
Values == {"none", "unset", "set"}

NoRows == [job |-> [i \in JobIds |-> "none"], link |-> "none", proposal |-> "none",
           hash |-> "none", preference |-> "none", briefing |-> "none", own |-> "none"]
Idle == [way |-> "none"]
NoFailure == [way |-> "none", at |-> 0, late |-> FALSE, knocks |-> FALSE]

MigrationInit ==
    /\ revision \in Stops
    /\ release = revision
    /\ schema = Built(revision)
    /\ rows = NoRows
    /\ pgcrypto \in BOOLEAN
    /\ revision >= 14 => pgcrypto
    /\ tx = Idle
    /\ late = {}
    /\ failure = NoFailure
    /\ moves = 0
    /\ writes = 0

-----------------------------------------------------------------------------
(***************************************************************************)
(* What a schema does to rows.                                             *)
(***************************************************************************)
\* A table that is dropped takes its rows along; a value is lost with its
\* column, and a new column gives every row its default, if it has one.
Valued(s, t, n, v) ==
    IF ~IsTable(s, t) \/ v = "none" THEN "none"
    ELSE IF n \notin Names(s, t) THEN "unset" ELSE v
Under(s, r) ==
    [job |-> IF IsTable(s, "job") THEN r.job ELSE NoRows.job,
     link |-> Valued(s, "connect_link", "provider", r.link),
     hash |-> Valued(s, "pending_action", "payload_hash", r.hash),
     proposal |-> IF ~IsTable(s, "pending_action") \/ r.proposal = "none" THEN "none"
                  ELSE IF "status" \notin Names(s, "pending_action") THEN "unmarked"
                  ELSE IF r.proposal = "unmarked" THEN "pending" ELSE r.proposal,
     preference |-> IF IsTable(s, "briefing_state") THEN r.preference ELSE "none",
     briefing |-> IF IsTable(s, "automation") THEN r.briefing ELSE "none",
     own |-> IF IsTable(s, "automation") THEN r.own ELSE "none"]

\* A constraint is checked against the rows when it is made.
JobFits(s, j) ==
    /\ Kind(j) \in Allowed(s, "ck_job_kind")
    /\ j = "outbound_sweep" => Fact("job", "contact_id", {"optional"}) \in s
Fits(s, r) ==
    /\ \A i \in JobIds : r.job[i] = "none" \/ JobFits(s, r.job[i])
    /\ Fact("connect_link", "provider", {"required"}) \in s => r.link # "unset"
    /\ Fact("pending_action", "payload_hash", {"required"}) \in s => r.hash # "unset"
    /\ r.proposal \in {"none", "unmarked"} \cup Allowed(s, "ck_pending_action_status")

Without(r, gone) == [r EXCEPT !.job = [i \in JobIds |-> IF @[i] \in gone THEN "none" ELSE @[i]]]

\* The statements that the revisions execute.
Knocks == {"outbound_sweep", "outbound_due"}
Execute(d, r) ==
    CASE d = "links_are_google" -> [r EXCEPT !.link = IF @ = "unset" THEN "set" ELSE @]
      [] d = "payloads_are_hashed" -> [r EXCEPT !.hash = IF @ = "unset" THEN "set" ELSE @]
      [] d = "concluded_are_claimed" ->
           [r EXCEPT !.proposal = IF @ = "executed" THEN "claimed" ELSE @]
      [] d = "concluded_are_pending" ->
           [r EXCEPT !.proposal = IF @ = "executed" THEN "pending" ELSE @]
      [] d = "no_wake_ups" -> Without(r, WakeUps)
      [] d = "seed_briefing" ->
           [r EXCEPT !.briefing = IF @ # "none" THEN @
                                  ELSE IF r.preference = "opted_out" THEN "paused" ELSE "active"]
      [] d = "no_turns" -> Without(r, {"agent_turn"})
      [] d = "no_knocks" -> Without(r, Knocks)
      [] d = "no_briefing_wake_ups" ->
           IF r.briefing = "none" THEN r ELSE Without(r, {"briefing_wake_up"})
      [] d = "no_briefing" -> [r EXCEPT !.briefing = "none"]
\* digest() is a function of pgcrypto: without it the statement is an error,
\* whether or not there is a row to hash.
CanExecute(d) == d = "payloads_are_hashed" => pgcrypto

-----------------------------------------------------------------------------
(***************************************************************************)
(* A migration.                                                            *)
(***************************************************************************)
Migration == IF tx.way = "up" THEN Up[tx.at + 1] ELSE Down[tx.at]
Following == IF tx.way = "up" THEN tx.at + 1 ELSE tx.at - 1

BeginMigration(way, to) ==
    /\ tx = Idle
    /\ moves < MaxMoves
    /\ IF way = "up" THEN to > revision ELSE to < revision
    /\ tx' = [way |-> way, to |-> to, at |-> revision, done |-> -1,
              schema |-> schema, rows |-> rows, locked |-> {}, late |-> FALSE]
    /\ moves' = moves + 1
    /\ UNCHANGED <<revision, schema, rows, pgcrypto, release, late, failure, writes>>

\* The transaction of a migration that raises is rolled back.
Roll ==
    /\ failure' = [way |-> tx.way, at |-> tx.at, late |-> tx.late,
                   knocks |-> \E i \in JobIds : rows.job[i] \in Knocks]
    /\ tx' = Idle
Continue(s, r, next) ==
    IF Broken \in s \/ ~Fits(s, r)
    THEN Roll
    ELSE /\ tx' = [next EXCEPT !.schema = s, !.rows = r]
         /\ UNCHANGED failure

\* The operations before the statements that change rows; with none of those
\* the revision is done in one step.
Prepare ==
    /\ tx.way # "none" /\ tx.at # tx.to /\ tx.done = -1
    /\ Migration.data # <<>>
    /\ LET os == Migration.before
           s == DoAll(tx.schema, os)
       IN  Continue(s, Under(s, tx.rows),
                    [tx EXCEPT !.done = 0, !.locked = @ \cup LockedBy(os)])
    /\ UNCHANGED <<revision, schema, rows, pgcrypto, release, late, moves, writes>>

ExecuteNext ==
    /\ tx.way # "none" /\ tx.at # tx.to
    /\ tx.done \in 0 .. Len(Migration.data) - 1
    /\ IF CanExecute(Migration.data[tx.done + 1])
       THEN /\ tx' = [tx EXCEPT !.rows = Execute(Migration.data[tx.done + 1], @), !.done = @ + 1]
            /\ UNCHANGED failure
       ELSE Roll
    /\ UNCHANGED <<revision, schema, rows, pgcrypto, release, late, moves, writes>>

Alter ==
    /\ tx.way # "none" /\ tx.at # tx.to
    /\ Migration.data = <<>> \/ tx.done = Len(Migration.data)
    /\ LET os == Migration.after
           s == DoAll(tx.schema, os)
       IN  Continue(s, Under(s, tx.rows),
                    [tx EXCEPT !.at = Following, !.done = -1, !.locked = @ \cup LockedBy(os)])
    /\ UNCHANGED <<revision, schema, rows, pgcrypto, release, late, moves, writes>>

Commit ==
    /\ tx.way # "none" /\ tx.at = tx.to
    /\ revision' = tx.to
    /\ schema' = tx.schema
    /\ rows' = tx.rows
    /\ tx' = Idle
    /\ UNCHANGED <<pgcrypto, release, late, failure, moves, writes>>

\* The release that fits the database is started.
Deploy ==
    /\ tx = Idle
    /\ release # revision
    /\ release' = revision
    /\ UNCHANGED <<revision, schema, rows, pgcrypto, tx, late, failure, moves, writes>>

-----------------------------------------------------------------------------
(***************************************************************************)
(* What the release writes: it can, if all its columns are there.          *)
(***************************************************************************)
MayWrite(t) ==
    /\ writes < MaxWrites
    /\ tx # Idle => t \notin tx.locked
    /\ IsTable(Built(release), t) /\ IsTable(schema, t)
    /\ Names(Built(release), t) \subseteq Names(schema, t)

\* A row is written unless the migration holds its lock, and the migration
\* sees it from its next statement on.
Write(r, seen) ==
    /\ rows' = r
    /\ writes' = writes + 1
    /\ tx' = IF tx = Idle THEN tx ELSE [tx EXCEPT !.rows = seen, !.late = TRUE]
    /\ UNCHANGED <<revision, schema, pgcrypto, release, failure, moves>>
Unlocked(same) == tx = Idle \/ same
SeenRows == IF tx = Idle THEN rows ELSE tx.rows

EnqueueJob(i, j) ==
    /\ rows.job[i] = "none"
    /\ MayWrite("job")
    /\ Kind(j) \in Allowed(Built(release), "ck_job_kind")
    /\ JobFits(schema, j)
    /\ j = "briefing_wake_up" => rows.briefing = "active" /\ SeenRows.briefing = "active"
    /\ j = "own_wake_up" => rows.own = "active"
    /\ Write([rows EXCEPT !.job[i] = j], [SeenRows EXCEPT !.job[i] = j])
    /\ late' = IF tx = Idle THEN late \ {i} ELSE late \cup {i}

\* A release that does not know a required column cannot insert a row, and one
\* that knows it fills it in.
ValueOf(t, n) == IF n \in Names(Built(release), t) THEN "set" ELSE "unset"
MintLink ==
    /\ rows.link = "none"
    /\ MayWrite("connect_link")
    /\ LET provider == ValueOf("connect_link", "provider")
       IN  /\ "provider" \in Names(schema, "connect_link") => provider = "set"
           /\ Write([rows EXCEPT !.link = provider], [SeenRows EXCEPT !.link = provider])
    /\ UNCHANGED late

StageProposal ==
    /\ rows.proposal = "none"
    /\ MayWrite("pending_action")
    /\ LET hash == ValueOf("pending_action", "payload_hash")
           new == IF "status" \in Names(schema, "pending_action") THEN "pending" ELSE "unmarked"
       IN  /\ "payload_hash" \in Names(schema, "pending_action") => hash = "set"
           /\ Write([rows EXCEPT !.proposal = new, !.hash = hash],
                    [SeenRows EXCEPT !.proposal = new, !.hash = hash])
    /\ UNCHANGED late

SetProposal(from, to) ==
    /\ rows.proposal = from /\ SeenRows.proposal = from
    /\ MayWrite("pending_action")
    /\ to \in Allowed(Built(release), "ck_pending_action_status")
    /\ to \in Allowed(schema, "ck_pending_action_status")
    /\ Write([rows EXCEPT !.proposal = to], [SeenRows EXCEPT !.proposal = to])
    /\ UNCHANGED late

SetPreference(p) ==
    /\ rows.preference = "none"
    /\ MayWrite("briefing_state")
    /\ Write([rows EXCEPT !.preference = p], [SeenRows EXCEPT !.preference = p])
    /\ UNCHANGED late

CreateAutomation ==
    /\ rows.own = "none"
    /\ MayWrite("automation")
    /\ Write([rows EXCEPT !.own = "active"], [SeenRows EXCEPT !.own = "active"])
    /\ UNCHANGED late

MigrationNext ==
    \/ \E way \in {"up", "down"}, to \in Stops : BeginMigration(way, to)
    \/ Prepare \/ ExecuteNext \/ Alter \/ Commit
    \/ Deploy
    \/ \E i \in JobIds, j \in Jobs : EnqueueJob(i, j)
    \/ MintLink
    \/ StageProposal
    \/ SetProposal("pending", "claimed") \/ SetProposal("claimed", "executed")
    \/ \E p \in {"daily", "opted_out"} : SetPreference(p)
    \/ CreateAutomation

MigrationSpec == MigrationInit /\ [][MigrationNext]_migrationVars

-----------------------------------------------------------------------------
(***************************************************************************)
(* Properties.                                                             *)
(***************************************************************************)
\* Whatever way it was reached, the newest revision has exactly the tables,
\* columns, indexes and constraints that the models declare, and every table is
\* closed to the data API.
HeadIsDeclared ==
    revision = HeadRevision => schema = Metadata \cup {Closed(f[1]) : f \in Metadata}

\* The revisions that clear rows away before they lock the table, and only then
\* forbid them: the running release may write one more in between.
ClearsUnlocked(way, at) == (way = "up" /\ at \in {16, 17}) \/ (way = "down" /\ at = 14)

\* A migration goes through whatever the releases wrote before it, and those that
\* fill in a column whatever they write meanwhile.  It may fail for a row that
\* comes in while a revision clears such rows away, for the proposals' hashes when
\* pgcrypto is missing, and on the way back from the briefing knock when there is
\* one.
MigrationsGoThrough ==
    \/ failure.way = "none"
    \/ failure.late /\ ClearsUnlocked(failure.way, failure.at)
    \/ failure.way = "up" /\ failure.at = 13 /\ ~pgcrypto
    \/ failure.way = "down" /\ failure.at = 13 /\ failure.knocks

\* Rolling back and forth never offers for confirmation what was executed or
\* claimed, as long as the status has a column.
Confirmable(p) == p \in {"unmarked", "pending"}
ConcludedStaysClosed ==
    [][rows.proposal \in {"claimed", "executed"} /\ Confirmable(rows'.proposal)
         => "status" \notin Names(schema', "pending_action")]_migrationVars

\* No wake-up outlives its automation, except one that was written while the
\* migration removed the automation.
WakeUpsHaveTheirAutomation ==
    \A i \in JobIds \ late :
        /\ rows.job[i] = "briefing_wake_up" => rows.briefing # "none"
        /\ rows.job[i] = "own_wake_up" => rows.own # "none"
=============================================================================
