-------------------------------- MODULE Models --------------------------------
(***************************************************************************)
(* The tables as the classes of src/app/database/models declare them, as   *)
(* facts of Schema.  The code reads and writes the database through them,  *)
(* while the revisions alone build it.                                     *)
(***************************************************************************)
EXTENDS Schema

Contact ==
    Required("contact", {"id", "phone", "tz", "last_seen_at"})
    \cup Optional("contact", {"name"})
    \cup Unique("contact", "contact_phone_key", {"phone"})

Message ==
    Required("message", {"id", "contact_id", "direction", "body", "created_at"})
    \cup Optional("message",
           {"provider_message_id", "account_sid", "from_address", "to_address", "num_media",
            "media_url", "media_content_type", "wa_id", "sms_status", "api_version",
            "num_segments", "profile_name", "interaction_run_id", "outbound_sequence",
            "delivery_state"})
    \cup ForeignKey("message", "message_contact_id_fkey", "contact")
    \cup Index("message", "ix_message_contact_id_created_at", {"contact_id", "created_at"})
    \cup Unique("message", "uq_message_provider_message_id", {"provider_message_id"})
    \cup Check("message", "ck_message_delivery_state", {"reserved", "sent", "failed"})
    \cup Unique("message", "uq_message_interaction_outbound_sequence",
                {"contact_id", "interaction_run_id", "outbound_sequence", "out"})

JobKind == {"reminder_due", "integration_notify", "automation_due"}
Job ==
    Required("job", {"id", "contact_id", "kind", "payload", "run_at", "status", "attempts",
                     "max_attempts", "created_at"})
    \cup Optional("job", {"locked_at"})
    \cup ForeignKey("job", "job_contact_id_fkey", "contact")
    \cup Check("job", "ck_job_kind", JobKind)
    \cup Check("job", "ck_job_status", {"pending", "running", "done", "dead"})
    \cup Index("job", "ix_job_status_run_at", {"status", "run_at"})
    \cup Unique("job", "uq_job_pending_automation_due",
                {"automation_id", "pending", "automation_due"})

Integration ==
    Required("integration", {"id", "contact_id", "provider", "status", "created_at",
                             "updated_at"})
    \cup Optional("integration", {"external_account_id"})
    \cup ForeignKey("integration", "integration_contact_id_fkey", "contact")
    \cup Check("integration", "ck_integration_status", {"active", "revoked"})
    \cup Unique("integration", "uq_integration_contact_provider", {"contact_id", "provider"})

ConnectLinkRow ==
    Required("connect_link", {"id", "contact_id", "provider", "nonce", "expires_at",
                              "created_at", "updated_at"})
    \cup Optional("connect_link", {"used_at"})
    \cup ForeignKey("connect_link", "connect_link_contact_id_fkey", "contact")
    \cup Unique("connect_link", "uq_connect_link_nonce", {"nonce"})
    \cup Index("connect_link", "ix_connect_link_contact_id", {"contact_id"})

PendingActionStatus == {"pending", "claimed", "executed", "cancelled", "expired", "failed"}
PendingActionRow ==
    Required("pending_action", {"id", "contact_id", "kind", "payload", "payload_hash", "status",
                                "expires_at", "created_at", "updated_at"})
    \cup Optional("pending_action", {"created_turn_id", "source_interaction_run_id",
                                     "source_execution_run_id"})
    \cup ForeignKey("pending_action", "pending_action_contact_id_fkey", "contact")
    \cup ForeignKey("pending_action", "pending_action_source_execution_run_id_fkey",
                    "execution_run")
    \cup Check("pending_action", "ck_pending_action_kind", {"send_email", "create_event"})
    \cup Check("pending_action", "ck_pending_action_status", PendingActionStatus)
    \cup Index("pending_action", "ix_pending_action_contact_created",
               {"contact_id", "created_at"})

Task ==
    Required("task", {"id", "contact_id", "title", "status", "created_at", "updated_at"})
    \cup Optional("task", {"due_at"})
    \cup ForeignKey("task", "task_contact_id_fkey", "contact")
    \cup Check("task", "ck_task_status", {"open", "done"})
    \cup Index("task", "ix_task_contact_status_due", {"contact_id", "status", "due_at"})

Reminder ==
    Required("reminder", {"id", "contact_id", "body", "due_at", "status", "created_at",
                          "updated_at"})
    \cup Optional("reminder", {"sent_at"})
    \cup ForeignKey("reminder", "reminder_contact_id_fkey", "contact")
    \cup Check("reminder", "ck_reminder_status", {"active", "sent", "cancelled"})
    \cup Index("reminder", "ix_reminder_contact_status_due", {"contact_id", "status", "due_at"})

ActiveExecutionRun == {"pending", "running", "cancel_requested"}
ExecutionRunRow ==
    Required("execution_run", {"id", "contact_id", "goal", "toolkit_scope", "dedupe_key",
                               "status", "cancel_requested", "created_at", "updated_at"})
    \cup Optional("execution_run", {"result", "error", "started_at", "finished_at"})
    \cup ForeignKey("execution_run", "execution_run_contact_id_fkey", "contact")
    \cup Check("execution_run", "ck_execution_run_status",
               {"pending", "running", "succeeded", "failed", "timed_out", "cancel_requested",
                "cancelled", "abandoned"})
    \cup Unique("execution_run", "uq_execution_run_active_contact_dedupe",
                {"contact_id", "dedupe_key"} \cup ActiveExecutionRun)
    \cup Index("execution_run", "ix_execution_run_active_contact",
               {"contact_id", "created_at"} \cup ActiveExecutionRun)

ExecutionEventRow ==
    Required("execution_event", {"id", "contact_id", "execution_run_id", "kind", "payload",
                                 "created_at"})
    \cup Optional("execution_event", {"processed_at"})
    \cup ForeignKey("execution_event", "execution_event_contact_id_fkey", "contact")
    \cup ForeignKey("execution_event", "execution_event_execution_run_id_fkey", "execution_run")
    \cup Index("execution_event", "ix_execution_event_contact_unprocessed",
               {"contact_id", "created_at", "processed_at IS NULL"})
    \cup Index("execution_event", "ix_execution_event_run_created",
               {"execution_run_id", "created_at"})

AutomationRow ==
    Required("automation", {"id", "contact_id", "name", "goal", "rrule", "timezone",
                            "required_toolkits", "status", "last_run_was_catch_up",
                            "created_at", "updated_at"})
    \cup Optional("automation", {"next_run_at", "last_run_at", "last_run_status",
                                 "last_occurrence_at", "last_execution_run_id"})
    \cup ForeignKey("automation", "automation_contact_id_fkey", "contact")
    \cup Check("automation", "ck_automation_status", {"active", "paused", "cancelled"})
    \cup Check("automation", "ck_automation_last_run_status",
               {"succeeded", "failed", "timed_out", "cancelled", "skipped"})
    \cup Check("automation", "ck_automation_required_toolkits_array", {"array"})
    \cup Index("automation", "ix_automation_contact_status", {"contact_id", "status"})
    \cup Index("automation", "ix_automation_active_next_run", {"next_run_at", "active"})

\* Base.metadata
Metadata ==
    Contact \cup Message \cup Job \cup Integration \cup ConnectLinkRow \cup PendingActionRow
    \cup Task \cup Reminder \cup ExecutionRunRow \cup ExecutionEventRow \cup AutomationRow
=============================================================================
