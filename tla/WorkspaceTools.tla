--------------------------- MODULE WorkspaceTools ---------------------------
(* The tools of the MCP server, app/features/mcp/server.py: the scope a     *)
(* tool asks for first (`require_scope`), and what it does to the record it *)
(* names.  "list" hides archived records and "get" does not; an "update",   *)
(* an "archive", an "unarchive", a "remove" and a "delete" answer "not      *)
(* found" when there is no record; "link" makes the record unless it is     *)
(* there; "other" leaves it alone.  The answer is the record, but for a     *)
(* "remove", which archives, and a "delete": these answer with ids.         *)
EXTENDS ApiKeyScopes

Effect == {"list", "get", "create", "update", "archive", "unarchive", "remove", "delete", "link",
           "other"}

Gate(scope, effect, names) == [name : names, scope : {scope}, effect : {effect}]

(* A record with the six tools of its own.                                  *)
SoftDeleted(read, write, list, get, create, update, archive, unarchive) ==
  Gate(read, "list", {list}) \cup Gate(read, "get", {get})
  \cup Gate(write, "create", {create}) \cup Gate(write, "update", {update})
  \cup Gate(write, "archive", {archive}) \cup Gate(write, "unarchive", {unarchive})

Read == Coarse("read")
Write == Coarse("write")

-----------------------------------------------------------------------------
MemberTools ==
  Gate(ReadOf("members"), "list", {"list_members"})
  \cup Gate(ReadOf("members"), "get", {"get_member", "member_stats"})

FinanceTools ==
  Gate(ReadOf("finance"), "get", {"finance_summary", "list_transactions", "list_finance_reports"})
  \cup Gate(WriteOf("finance"), "update", {"set_event_budget"})

EventTools ==
  SoftDeleted(Read, Write, "list_events", "get_event", "create_event", "update_event",
              "archive_event", "unarchive_event")

ReviewTools ==
  Gate(Write, "update", {"create_event_review_form"})
  \cup Gate(Read, "get", {"get_event_review_responses"})

SpeakerTools ==
  Gate(Read, "list", {"list_event_speakers"})
  \cup Gate(Write, "create", {"add_event_speaker"})
  \cup Gate(Write, "update", {"update_event_speaker"})
  \cup Gate(Write, "remove", {"remove_event_speaker"})

LineUpTools ==
  Gate(Read, "list", {"list_event_sponsors", "list_event_partners"})
  \cup Gate(Write, "link", {"link_event_sponsor", "link_event_partner"})
  \cup Gate(Write, "delete", {"unlink_event_sponsor", "unlink_event_partner"})

ConnectionTools ==
  Gate(Read, "list", {"list_event_connections"})
  \cup Gate(Write, "link", {"link_event_connection"})
  \cup Gate(Write, "delete", {"unlink_event_connection"})

PartnerTools ==
  SoftDeleted(Read, Write, "list_partners", "get_partner", "create_partner", "update_partner",
              "archive_partner", "unarchive_partner")

LinkTools ==
  SoftDeleted(Read, Write, "list_links", "get_link", "create_link", "update_link",
              "archive_link", "unarchive_link")
  \cup Gate(Write, "update", {"reorder_links"})

LinkProfileTools ==
  Gate(Read, "get", {"get_link_profile"}) \cup Gate(Write, "update", {"update_link_profile"})

ScanTools ==
  SoftDeleted(Read, Write, "list_scan_targets", "get_scan_target", "create_scan_target",
              "update_scan_target", "archive_scan_target", "unarchive_scan_target")
  \cup Gate(Write, "update", {"reorder_scan_targets"})

ScanPageTools ==
  Gate(Read, "get", {"get_scan_page"}) \cup Gate(Write, "update", {"update_scan_page"})

ProjectTools ==
  SoftDeleted(Read, Write, "list_projects", "get_project", "create_project", "update_project",
              "archive_project", "unarchive_project")

BoardTools ==
  Gate(Read, "list", {"list_boards"})
  \cup Gate(Write, "create", {"create_board"}) \cup Gate(Write, "update", {"update_board"})
  \cup Gate(Write, "archive", {"archive_board"}) \cup Gate(Write, "unarchive", {"unarchive_board"})

TaskTools ==
  SoftDeleted(Read, Write, "list_tasks", "get_task", "create_task", "update_task",
              "archive_task", "unarchive_task")
  \cup Gate(Write, "update", {"move_task"})

MeetingTools ==
  SoftDeleted(Read, Write, "list_meetings", "get_meeting", "create_meeting", "update_meeting",
              "archive_meeting", "unarchive_meeting")
  \cup Gate(Coarse("trigger"), "update", {"generate_meeting_notes"})

AgendaTools ==
  Gate(Read, "get", {"get_meeting_agenda"})
  \cup Gate(Write, "update", {"set_meeting_agenda", "share_meeting_agenda", "lock_meeting_agenda"})

DocumentTools ==
  SoftDeleted(ReadOf("documents"), WriteOf("documents"), "list_documents", "get_document",
              "create_document", "update_document", "archive_document", "unarchive_document")

SponsorTools ==
  SoftDeleted(ReadOf("sponsors"), WriteOf("sponsors"), "list_sponsors", "get_sponsor",
              "create_sponsor", "update_sponsor", "archive_sponsor", "unarchive_sponsor")

ContactTools ==
  Gate(ReadOf("sponsors"), "list", {"list_sponsor_contacts"})
  \cup Gate(WriteOf("sponsors"), "create", {"add_sponsor_contact"})
  \cup Gate(WriteOf("sponsors"), "update", {"update_sponsor_contact"})
  \cup Gate(WriteOf("sponsors"), "remove", {"remove_sponsor_contact"})

PackageTools ==
  Gate(ReadOf("sponsors"), "get", {"list_sponsor_packages", "get_sponsor_package"})
  \cup Gate(WriteOf("sponsors"), "create", {"create_sponsor_package"})
  \cup Gate(WriteOf("sponsors"), "update", {"update_sponsor_package"})
  \cup Gate(WriteOf("sponsors"), "delete", {"delete_sponsor_package"})

LeadTools ==
  Gate(ReadOf("sponsors"), "get", {"list_sponsor_leads"})
  \cup Gate(WriteOf("sponsors"), "update", {"update_sponsor_lead"})

PeopleTools ==
  SoftDeleted(ReadOf("people"), WriteOf("people"), "list_people", "get_person",
              "create_person", "update_person", "archive_person", "unarchive_person")

MediaTools ==
  Gate(Read, "list", {"list_media"}) \cup Gate(Write, "create", {"upload_media"})
  \cup Gate(Write, "update", {"update_media"}) \cup Gate(Write, "delete", {"delete_media"})

AttachmentTools == Gate(Read, "list", {"list_attachments"})

============================================================================
