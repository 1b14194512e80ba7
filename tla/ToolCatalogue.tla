--------------------------- MODULE ToolCatalogue ----------------------------
(* What an assistant is told: the catalogue of app/features/mcp/catalog.py, *)
(* written by hand beside the server, and the guide that guide.py makes of  *)
(* it for the scopes of one key.                                            *)
EXTENDS ApiKeyScopes

Entries(scope, names) == [name : names, scope : {scope}]

Both(read, write, readers, writers) == Entries(read, readers) \cup Entries(write, writers)

MemberEntries ==
  Entries(ReadOf("members"), {"list_members", "get_member", "member_stats"})

FinanceEntries ==
  Both(ReadOf("finance"), WriteOf("finance"),
       {"finance_summary", "list_transactions", "list_finance_reports"}, {"set_event_budget"})

EventEntries ==
  Both(Coarse("read"), Coarse("write"),
       {"list_events", "get_event", "get_event_review_responses"},
       {"create_event", "update_event", "archive_event", "unarchive_event",
        "create_event_review_form"})

LineUpEntries ==
  Both(Coarse("read"), Coarse("write"),
       {"list_event_speakers", "list_event_sponsors", "list_event_partners",
        "list_event_connections"},
       {"add_event_speaker", "update_event_speaker", "remove_event_speaker",
        "link_event_sponsor", "unlink_event_sponsor", "link_event_partner",
        "unlink_event_partner", "link_event_connection", "unlink_event_connection"})

PartnerEntries ==
  Both(Coarse("read"), Coarse("write"), {"list_partners", "get_partner"},
       {"create_partner", "update_partner", "archive_partner", "unarchive_partner"})

LinkEntries ==
  Both(Coarse("read"), Coarse("write"), {"list_links", "get_link", "get_link_profile"},
       {"create_link", "update_link", "archive_link", "unarchive_link", "reorder_links",
        "update_link_profile"})

ScanEntries ==
  Both(Coarse("read"), Coarse("write"),
       {"list_scan_targets", "get_scan_target", "get_scan_page"},
       {"create_scan_target", "update_scan_target", "archive_scan_target",
        "unarchive_scan_target", "reorder_scan_targets", "update_scan_page"})

ProjectEntries ==
  Both(Coarse("read"), Coarse("write"), {"list_projects", "get_project"},
       {"create_project", "update_project", "archive_project", "unarchive_project"})

TaskEntries ==
  Both(Coarse("read"), Coarse("write"), {"list_boards", "list_tasks", "get_task"},
       {"create_board", "update_board", "archive_board", "unarchive_board", "create_task",
        "update_task", "move_task", "archive_task", "unarchive_task"})

MeetingEntries ==
  Both(Coarse("read"), Coarse("write"), {"list_meetings", "get_meeting", "get_meeting_agenda"},
       {"create_meeting", "update_meeting", "archive_meeting", "unarchive_meeting",
        "set_meeting_agenda", "share_meeting_agenda", "lock_meeting_agenda"})
  \cup Entries(Coarse("trigger"), {"generate_meeting_notes"})

DocumentEntries ==
  Both(ReadOf("documents"), WriteOf("documents"), {"list_documents", "get_document"},
       {"create_document", "update_document", "archive_document", "unarchive_document"})

SponsorEntries ==
  Both(ReadOf("sponsors"), WriteOf("sponsors"), {"list_sponsors", "get_sponsor"},
       {"create_sponsor", "update_sponsor", "archive_sponsor", "unarchive_sponsor"})

(* Faulty form: the deals of the sponsors are listed under plain read.      *)
PipelineEntriesCoarse ==
  Both(Coarse("read"), WriteOf("sponsors"),
       {"list_sponsor_contacts", "list_sponsor_packages", "get_sponsor_package",
        "list_sponsor_leads"},
       {"add_sponsor_contact", "update_sponsor_contact", "remove_sponsor_contact",
        "create_sponsor_package", "update_sponsor_package", "delete_sponsor_package",
        "update_sponsor_lead"})

PipelineEntries ==
  Both(ReadOf("sponsors"), WriteOf("sponsors"),
       {"list_sponsor_contacts", "list_sponsor_packages", "get_sponsor_package",
        "list_sponsor_leads"},
       {"add_sponsor_contact", "update_sponsor_contact", "remove_sponsor_contact",
        "create_sponsor_package", "update_sponsor_package", "delete_sponsor_package",
        "update_sponsor_lead"})

PeopleEntries ==
  Both(ReadOf("people"), WriteOf("people"), {"list_people", "get_person"},
       {"create_person", "update_person", "archive_person", "unarchive_person"})

MediaEntries ==
  Both(Coarse("read"), Coarse("write"), {"list_media", "list_attachments"},
       {"upload_media", "update_media", "delete_media"})

(* The catalogue without `whoami`, which any credential may call.           *)
CATALOG ==
  MemberEntries \cup FinanceEntries \cup EventEntries \cup LineUpEntries \cup PartnerEntries
  \cup LinkEntries \cup ScanEntries \cup ProjectEntries \cup TaskEntries \cup MeetingEntries
  \cup DocumentEntries \cup SponsorEntries \cup PipelineEntries \cup PeopleEntries \cup MediaEntries

(* `tools_for_scopes`: the tools the guide of a key lists.                  *)
ToolsForScopes(scopes) == {e.name : e \in {c \in CATALOG : HasScope(scopes, c.scope)}}

============================================================================
