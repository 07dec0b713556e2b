-------------------------------- MODULE Schema --------------------------------
(***************************************************************************)
(* The database schema as the revisions under src/alembic/versions build   *)
(* it, and as the models under src/app/database/models declare it.         *)
(*                                                                         *)
(* A schema is a set of facts <<table, name, what>>: a column is required  *)
(* or optional, a check allows a set of values, an index has columns, a    *)
(* foreign key a target.  Types and defaults are left out, and so is the   *)
(* primary key, which every table has.  A revision is a sequence of        *)
(* operations each way, with the statements that change rows in between.   *)
(*                                                                         *)
(* A definition named X_Y in front of X is X with a plausible bug Y.       *)
(***************************************************************************)
EXTENDS Integers, Sequences, FiniteSets, SequencesExt

Fact(t, n, what) == <<t, n, what>>
Required(t, names) == {Fact(t, n, {"required"}) : n \in names}
Optional(t, names) == {Fact(t, n, {"optional"}) : n \in names}
Check(t, n, values) == {Fact(t, n, values)}
Index(t, n, on) == {Fact(t, n, {"index"} \cup on)}
Unique(t, n, on) == {Fact(t, n, {"unique"} \cup on)}
ForeignKey(t, n, target) == {Fact(t, n, {"references", target, "restrict"})}
\* Row level security is on, and the roles of the data API have no rights.
Closed(t) == Fact(t, "rls", {"closed"})

Broken == Fact("", "broken", {})
Has(s, t, n) == \E f \in s : f[1] = t /\ f[2] = n
Referenced(s, t) == \E f \in s : f[1] # t /\ {"references", t} \subseteq f[3]

IsTable(s, t) == t \in {f[1] : f \in s}
Names(s, t) == {f[2] : f \in {g \in s : g[1] = t /\ g[3] \in {{"required"}, {"optional"}}}}
Allowed(s, n) == UNION {f[3] : f \in {g \in s : g[2] = n}}

\* What Alembic's operations do; one that has nothing to work on raises.
Add(facts) == [op |-> "add", facts |-> facts]
Drop(t, names) == [op |-> "drop", facts |-> {Fact(t, n, {}) : n \in names}]
DropTable(t) == [op |-> "drop table", facts |-> {Fact(t, "", {})}]

Tables(o) == {f[1] : f \in o.facts}
LockedBy(os) == UNION {Tables(os[i]) : i \in DOMAIN os}
Raises(s, o) ==
    CASE o.op = "add" -> \E f \in o.facts : Has(s, f[1], f[2])
      [] o.op = "drop" -> \E f \in o.facts : ~Has(s, f[1], f[2])
      [] o.op = "drop table" -> \E t \in Tables(o) : Referenced(s, t) \/ ~\E f \in s : f[1] = t
Do(s, o) ==
    IF Raises(s, o) THEN s \cup {Broken}
    ELSE CASE o.op = "add" -> s \cup o.facts
           [] o.op = "drop" -> {f \in s : \A g \in o.facts : f[1] # g[1] \/ f[2] # g[2]}
           [] o.op = "drop table" -> {f \in s : f[1] \notin Tables(o)}
DoAll(s, os) == FoldLeft(Do, s, os)

Enable(t) == Add({Closed(t)})
Disable(t) == Drop(t, {"rls"})
Swap(t, n, facts) == <<Drop(t, {n}), Add(facts)>>

\* The operations up to the statements that change rows, and those after them.
Plain(os) == [before |-> <<>>, data |-> <<>>, after |-> os]
Data(d, os) == [before |-> <<>>, data |-> d, after |-> os]

-----------------------------------------------------------------------------
Stamps == {"created_at", "updated_at"}
OfContact(t, key) == Required(t, {"contact_id"}) \cup ForeignKey(t, key, "contact")

\* 1. 74a46d28dbc8, contact and message
Up1 == Plain(<<Add(
    Required("contact", {"id", "phone", "last_seen_at"}) \cup Optional("contact", {"name"})
    \cup Unique("contact", "contact_phone_key", {"phone"})
    \cup Required("message", {"id", "contact_id", "direction", "body", "created_at"})
    \cup Optional("message", {"provider_message_id"})
    \cup {Fact("message", "message_contact_id_fkey", {"references", "contact"})}
    \cup Index("message", "ix_message_contact_id_created_at", {"contact_id", "created_at"})
    \cup Unique("message", "uq_message_provider_message_id", {"provider_message_id"}))>>)
Down1 == Plain(<<
    Drop("message", {"uq_message_provider_message_id", "ix_message_contact_id_created_at"}),
    DropTable("message"), DropTable("contact")>>)

\* 2. 28b0ac108edc
Up2 == Plain(
    Swap("message", "message_contact_id_fkey",
         ForeignKey("message", "message_contact_id_fkey", "contact"))
    \o <<Enable("contact"), Enable("message")>>)
Down2 == Plain(
    <<Disable("message"), Disable("contact")>>
    \o Swap("message", "message_contact_id_fkey",
            {Fact("message", "message_contact_id_fkey", {"references", "contact"})}))

\* 3. 183da715dd33, job
Kinds3 == {"agent_turn", "reminder_due", "integration_notify"}
Up3 == Plain(<<Add(
    OfContact("job", "job_contact_id_fkey")
    \cup Required("job", {"id", "kind", "payload", "run_at", "status", "attempts",
                          "max_attempts", "created_at"})
    \cup Optional("job", {"locked_at"})
    \cup Check("job", "ck_job_kind", Kinds3)
    \cup Check("job", "ck_job_status", {"pending", "running", "done", "dead"})
    \cup Index("job", "ix_job_status_run_at", {"status", "run_at"})
    \cup Unique("job", "uq_job_pending_agent_turn_per_contact",
                {"contact_id", "pending", "agent_turn"})),
    Enable("job")>>)
Down3 == Plain(<<Disable("job"),
    Drop("job", {"uq_job_pending_agent_turn_per_contact", "ix_job_status_run_at"}),
    DropTable("job")>>)

\* 4. 3d6698e2f6bd, integration
Up4 == Plain(<<Add(
    OfContact("integration", "integration_contact_id_fkey")
    \cup Required("integration", {"id", "provider", "refresh_token_enc", "scopes", "status"}
                                 \cup Stamps)
    \cup Check("integration", "ck_integration_status", {"active", "revoked"})
    \cup Unique("integration", "uq_integration_contact_provider", {"contact_id", "provider"})),
    Enable("integration")>>)
Down4 == Plain(<<Disable("integration"), DropTable("integration")>>)

\* 5. a1c8e4f92b07, connect_link
Up5 == Plain(<<Add(
    OfContact("connect_link", "connect_link_contact_id_fkey")
    \cup Required("connect_link", {"id", "nonce", "expires_at"} \cup Stamps)
    \cup Optional("connect_link", {"used_at"})
    \cup Unique("connect_link", "uq_connect_link_nonce", {"nonce"})
    \cup Index("connect_link", "ix_connect_link_contact_id", {"contact_id"})),
    Enable("connect_link")>>)
Down5 == Plain(<<Disable("connect_link"),
    Drop("connect_link", {"ix_connect_link_contact_id"}), DropTable("connect_link")>>)

\* 6. b2e9f1a04c83
Up6 == Plain(<<Add(Required("contact", {"tz"}))>>)
Down6 == Plain(<<Drop("contact", {"tz"})>>)

\* 7. c3f8a1b92d04
TwilioColumns ==
    {"account_sid", "from_address", "to_address", "num_media", "media_url",
     "media_content_type", "wa_id", "sms_status", "api_version", "num_segments",
     "profile_name"}
Up7 == Plain(<<Add(Optional("message", TwilioColumns))>>)
Down7 == Plain(<<Drop("message", TwilioColumns)>>)

\* 8. d4e7b2c81a05, pending_action
Up8 == Plain(<<Add(
    OfContact("pending_action", "pending_action_contact_id_fkey")
    \cup Required("pending_action", {"id", "kind", "payload", "expires_at"} \cup Stamps)
    \cup Check("pending_action", "ck_pending_action_kind", {"send_email", "create_event"})
    \cup Index("pending_action", "ix_pending_action_contact_created",
               {"contact_id", "created_at"})),
    Enable("pending_action")>>)
Down8 == Plain(<<Disable("pending_action"),
    Drop("pending_action", {"ix_pending_action_contact_created"}),
    DropTable("pending_action")>>)

\* 9. e5f9c3d20b16
Statuses9 == {"pending", "claimed"}
Up9 == Plain(<<
    Add(Required("pending_action", {"status"}) \cup Optional("pending_action", {"created_turn_id"})),
    Add(Check("pending_action", "ck_pending_action_status", Statuses9))>>)
Down9 == Plain(<<
    Drop("pending_action", {"ck_pending_action_status", "created_turn_id", "status"})>>)

\* 10. f1a2b3c4d5e6, task
Up10 == Plain(<<Add(
    OfContact("task", "task_contact_id_fkey")
    \cup Required("task", {"id", "title", "status"} \cup Stamps)
    \cup Optional("task", {"due_at"})
    \cup Check("task", "ck_task_status", {"open", "done"})
    \cup Index("task", "ix_task_contact_status_due", {"contact_id", "status", "due_at"})),
    Enable("task")>>)
Down10 == Plain(<<Disable("task"), Drop("task", {"ix_task_contact_status_due"}),
                  DropTable("task")>>)

\* 11. a7b8c9d0e1f2, reminder
Up11 == Plain(<<Add(
    OfContact("reminder", "reminder_contact_id_fkey")
    \cup Required("reminder", {"id", "body", "due_at", "status"} \cup Stamps)
    \cup Optional("reminder", {"sent_at"})
    \cup Check("reminder", "ck_reminder_status", {"active", "sent", "cancelled"})
    \cup Index("reminder", "ix_reminder_contact_status_due", {"contact_id", "status", "due_at"})),
    Enable("reminder")>>)
Down11 == Plain(<<Disable("reminder"), Drop("reminder", {"ix_reminder_contact_status_due"}),
                  DropTable("reminder")>>)

\* 12. b8c1d2e3f4a5: the links of before were all for Google.  The way back
\* cannot give the tokens back.
Up12 == [before |-> <<Add(Optional("integration", {"external_account_id"})),
                      Drop("integration", {"refresh_token_enc", "scopes"}),
                      Add(Optional("connect_link", {"provider"}))>>,
         data |-> <<"links_are_google">>,
         after |-> Swap("connect_link", "provider", Required("connect_link", {"provider"}))]
Down12 == Plain(<<
    Drop("connect_link", {"provider"}),
    Add(Required("integration", {"scopes"}) \cup Optional("integration", {"refresh_token_enc"})),
    Drop("integration", {"external_account_id"})>>)

\* 13. c4d9e0f1a2b3, the briefing knock: a sweep is the one job without a contact.
Kinds13 == Kinds3 \cup {"outbound_sweep", "outbound_due"}
SweepIndex == Unique("job", "uq_job_pending_outbound_sweep", {"kind", "pending", "outbound_sweep"})
DueIndex == Unique("job", "uq_job_pending_outbound_due_per_contact",
                   {"contact_id", "pending", "outbound_due"})
SweepCheck == Check("job", "ck_job_sweep_contact", {"only a sweep has no contact"})
BriefingTable ==
    OfContact("briefing_state", "briefing_state_contact_id_fkey")
    \cup Required("briefing_state", {"unanswered_knocks", "cadence"} \cup Stamps)
    \cup Optional("briefing_state", {"opted_out_at", "pending_at", "last_knock_on"})
    \cup Check("briefing_state", "ck_briefing_state_cadence", {"daily", "weekly"})
    \cup Check("briefing_state", "ck_briefing_state_unanswered", {"unanswered_knocks >= 0"})
Up13 == Plain(
    Swap("job", "ck_job_kind", Check("job", "ck_job_kind", Kinds13))
    \o Swap("job", "contact_id", Optional("job", {"contact_id"}))
    \o <<Add(SweepCheck), Add(SweepIndex), Add(DueIndex), Add(BriefingTable),
         Enable("briefing_state")>>)
Down13 == Plain(
    <<Disable("briefing_state"), DropTable("briefing_state"),
      Drop("job", {"uq_job_pending_outbound_due_per_contact", "uq_job_pending_outbound_sweep"}),
      Drop("job", {"ck_job_sweep_contact"})>>
    \o Swap("job", "contact_id", Required("job", {"contact_id"}))
    \o Swap("job", "ck_job_kind", Check("job", "ck_job_kind", Kinds3)))

\* 14. f6a7b8c9d0e1, the records of the agents' runs.
ActiveRun == {"pending", "running", "cancel_requested"}
Statuses14 == Statuses9 \cup {"executed", "cancelled", "expired", "failed"}
RunTable ==
    OfContact("execution_run", "execution_run_contact_id_fkey")
    \cup Required("execution_run", {"id", "goal", "toolkit_scope", "dedupe_key", "status",
                                    "cancel_requested"} \cup Stamps)
    \cup Optional("execution_run", {"result", "error", "started_at", "finished_at"})
    \cup Check("execution_run", "ck_execution_run_status",
               ActiveRun \cup {"succeeded", "failed", "timed_out", "cancelled", "abandoned"})
    \cup Unique("execution_run", "uq_execution_run_active_contact_dedupe",
                {"contact_id", "dedupe_key"} \cup ActiveRun)
    \cup Index("execution_run", "ix_execution_run_active_contact",
               {"contact_id", "created_at"} \cup ActiveRun)
EventTable ==
    OfContact("execution_event", "execution_event_contact_id_fkey")
    \cup Required("execution_event", {"id", "execution_run_id", "kind", "payload", "created_at"})
    \cup Optional("execution_event", {"processed_at"})
    \cup ForeignKey("execution_event", "execution_event_execution_run_id_fkey", "execution_run")
    \cup Index("execution_event", "ix_execution_event_contact_unprocessed",
               {"contact_id", "created_at", "processed_at IS NULL"})
    \cup Index("execution_event", "ix_execution_event_run_created",
               {"execution_run_id", "created_at"})
OutboundColumns ==
    Optional("message", {"interaction_run_id", "outbound_sequence", "delivery_state"})
    \cup Check("message", "ck_message_delivery_state", {"reserved", "sent", "failed"})
    \cup Unique("message", "uq_message_interaction_outbound_sequence",
                {"contact_id", "interaction_run_id", "outbound_sequence", "out"})
Before14 ==
    <<Add(RunTable), Enable("execution_run"), Add(EventTable), Enable("execution_event"),
      Add(OutboundColumns), Add(Optional("pending_action", {"payload_hash"}))>>
After14 ==
    Swap("pending_action", "payload_hash", Required("pending_action", {"payload_hash"}))
    \o <<Add(Optional("pending_action", {"source_interaction_run_id", "source_execution_run_id"})),
         Add(ForeignKey("pending_action", "pending_action_source_execution_run_id_fkey",
                        "execution_run"))>>
    \o Swap("pending_action", "ck_pending_action_status",
            Check("pending_action", "ck_pending_action_status", Statuses14))
Up14_Unhashed == Plain(Before14 \o After14)
Up14 == [before |-> Before14, data |-> <<"payloads_are_hashed">>, after |-> After14]
Alter14 ==
    Swap("pending_action", "ck_pending_action_status",
         Check("pending_action", "ck_pending_action_status", Statuses9))
    \o <<Drop("pending_action", {"pending_action_source_execution_run_id_fkey",
                                 "source_execution_run_id", "source_interaction_run_id",
                                 "payload_hash"}),
         Drop("message", {"uq_message_interaction_outbound_sequence",
                          "ck_message_delivery_state", "delivery_state",
                          "outbound_sequence", "interaction_run_id"}),
         Disable("execution_event"),
         Drop("execution_event", {"ix_execution_event_run_created",
                                  "ix_execution_event_contact_unprocessed"}),
         DropTable("execution_event"),
         Disable("execution_run"),
         Drop("execution_run", {"ix_execution_run_active_contact",
                                "uq_execution_run_active_contact_dedupe"}),
         DropTable("execution_run")>>
Down14_Reopens == Data(<<"concluded_are_pending">>, Alter14)
Down14 == Data(<<"concluded_are_claimed">>, Alter14)

\* 15. a9b0c1d2e3f4, automation
Kinds15 == Kinds13 \cup {"automation_due"}
AutomationTable ==
    OfContact("automation", "automation_contact_id_fkey")
    \cup Required("automation", {"id", "name", "goal", "rrule", "timezone", "required_toolkits",
                                 "status", "last_run_was_catch_up"} \cup Stamps)
    \cup Optional("automation", {"next_run_at", "last_run_at", "last_run_status",
                                 "last_occurrence_at", "last_execution_run_id"})
    \cup Check("automation", "ck_automation_status", {"active", "paused", "cancelled"})
    \cup Check("automation", "ck_automation_last_run_status",
               {"succeeded", "failed", "timed_out", "cancelled", "skipped"})
    \cup Check("automation", "ck_automation_required_toolkits_array", {"array"})
    \cup Index("automation", "ix_automation_contact_status", {"contact_id", "status"})
    \cup Index("automation", "ix_automation_active_next_run", {"next_run_at", "active"})
WakeUpIndex == Unique("job", "uq_job_pending_automation_due",
                      {"automation_id", "pending", "automation_due"})
Up15 == Plain(
    Swap("job", "ck_job_kind", Check("job", "ck_job_kind", Kinds15))
    \o <<Add(WakeUpIndex), Add(AutomationTable), Enable("automation")>>)
Down15 == [before |-> <<Disable("automation"),
                        Drop("automation", {"ix_automation_active_next_run",
                                            "ix_automation_contact_status"}),
                        DropTable("automation"),
                        Drop("job", {"uq_job_pending_automation_due"})>>,
           data |-> <<"no_wake_ups">>,
           after |-> Swap("job", "ck_job_kind", Check("job", "ck_job_kind", Kinds13))]

\* 16. b3c4d5e6f7a8: a briefing for every contact; the way back leaves it.
Up16 == Data(<<"seed_briefing">>, <<>>)
Down16 == Plain(<<>>)

\* 17. c5d6e7f8a9b0
Kinds17 == Kinds15 \ {"agent_turn"}
Up17 == Data(<<"no_turns">>,
    <<Drop("job", {"uq_job_pending_agent_turn_per_contact"})>>
    \o Swap("job", "ck_job_kind", Check("job", "ck_job_kind", Kinds17)))
Down17 == Plain(
    Swap("job", "ck_job_kind", Check("job", "ck_job_kind", Kinds15))
    \o <<Add(Unique("job", "uq_job_pending_agent_turn_per_contact",
                    {"contact_id", "pending", "agent_turn"}))>>)

\* 18. d7e8f9a0b1c2
Kinds18 == {"reminder_due", "integration_notify", "automation_due"}
Alter18_KeepsNullable ==
    <<DropTable("briefing_state"),
      Drop("job", {"uq_job_pending_outbound_due_per_contact", "uq_job_pending_outbound_sweep",
                   "ck_job_sweep_contact"})>>
    \o Swap("job", "ck_job_kind", Check("job", "ck_job_kind", Kinds18))
Alter18 ==
    Alter18_KeepsNullable
    \o Swap("job", "contact_id", Required("job", {"contact_id"}))
Up18_KeepsWakeUps == Data(<<"no_knocks", "no_briefing">>, Alter18)
Up18 == Data(<<"no_knocks", "no_briefing_wake_ups", "no_briefing">>, Alter18)
Down18 == Plain(
    Swap("job", "contact_id", Optional("job", {"contact_id"}))
    \o Swap("job", "ck_job_kind", Check("job", "ck_job_kind", Kinds17))
    \o <<Add(SweepCheck), Add(SweepIndex), Add(DueIndex), Add(BriefingTable),
         Enable("briefing_state")>>)

-----------------------------------------------------------------------------
HeadRevision == 18
Up == <<Up1, Up2, Up3, Up4, Up5, Up6, Up7, Up8, Up9, Up10, Up11, Up12, Up13, Up14, Up15,
        Up16, Up17, Up18>>
Down == <<Down1, Down2, Down3, Down4, Down5, Down6, Down7, Down8, Down9, Down10, Down11,
          Down12, Down13, Down14, Down15, Down16, Down17, Down18>>

\* The schema that a revision is meant to have: that of an empty database
\* which was upgraded to it.
Perform(built, m) ==
    Append(built, DoAll(DoAll(built[Len(built)], m.before), m.after))
AllBuilt == FoldLeft(Perform, <<{}>>, Up)
Built(r) == AllBuilt[r + 1]
=============================================================================
