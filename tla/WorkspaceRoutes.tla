-------------------------- MODULE WorkspaceRoutes ---------------------------
(* The routes of the REST surface, the routers of app/features: the scope a *)
(* route asks for (`require_api_key`) and what it does to its record.  A    *)
(* route that does what a tool of the MCP server does has the name of that  *)
(* tool, and the others the name of their handler.                          *)
EXTENDS WorkspaceTools

MemberRoutes ==
  Gate(ReadOf("members"), "list", {"list_members"})
  \cup Gate(ReadOf("members"), "get", {"get_member", "member_stats", "member_verification_code"})

FinanceRoutes ==
  Gate(ReadOf("finance"), "get", {"finance_summary", "list_transactions", "list_finance_reports"})
  \cup Gate(WriteOf("finance"), "update", {"set_event_budget"})

EventRoutes ==
  SoftDeleted(Read, Write, "list_events", "get_event", "create_event", "update_event",
              "archive_event", "unarchive_event")
  \cup Gate(Read, "get", {"event_preview_link"})

ReviewRoutes ==
  Gate(Write, "update", {"create_event_review_form"})
  \cup Gate(Read, "get", {"get_event_review_responses", "get_review_form"})

SpeakerRoutes ==
  Gate(Read, "list", {"list_event_speakers"})
  \cup Gate(Write, "create", {"add_event_speaker"})
  \cup Gate(Write, "update", {"update_event_speaker"})
  \cup Gate(Write, "remove", {"remove_event_speaker"})

LineUpRoutes ==
  Gate(Read, "list", {"list_event_sponsors", "list_event_partners"})
  \cup Gate(Write, "link", {"link_event_sponsor", "link_event_partner"})
  \cup Gate(Write, "delete", {"unlink_event_sponsor", "unlink_event_partner"})

ConnectionRoutes ==
  Gate(Read, "list", {"list_event_connections"})
  \cup Gate(Write, "link", {"link_event_connection"})
  \cup Gate(Write, "delete", {"unlink_event_connection"})

PartnerRoutes ==
  SoftDeleted(Read, Write, "list_partners", "get_partner", "create_partner", "update_partner",
              "archive_partner", "unarchive_partner")

LinkRoutes ==
  SoftDeleted(Read, Write, "list_links", "get_link", "create_link", "update_link",
              "archive_link", "unarchive_link")
  \cup Gate(Write, "update", {"reorder_links"})

LinkProfileRoutes ==
  Gate(Read, "get", {"get_link_profile"}) \cup Gate(Write, "update", {"update_link_profile"})

ScanRoutes ==
  SoftDeleted(Read, Write, "list_scan_targets", "get_scan_target", "create_scan_target",
              "update_scan_target", "archive_scan_target", "unarchive_scan_target")
  \cup Gate(Write, "update", {"reorder_scan_targets"})

ScanPageRoutes ==
  Gate(Read, "get", {"get_scan_page"}) \cup Gate(Write, "update", {"update_scan_page"})

ProjectRoutes ==
  SoftDeleted(Read, Write, "list_projects", "get_project", "create_project", "update_project",
              "archive_project", "unarchive_project")

BoardRoutes ==
  SoftDeleted(Read, Write, "list_boards", "get_board", "create_board", "update_board",
              "archive_board", "unarchive_board")

TaskRoutes ==
  SoftDeleted(Read, Write, "list_tasks", "get_task", "create_task", "update_task",
              "archive_task", "unarchive_task")
  \cup Gate(Write, "update", {"move_task"})

MeetingRoutes ==
  SoftDeleted(Read, Write, "list_meetings", "get_meeting", "create_meeting", "update_meeting",
              "archive_meeting", "unarchive_meeting")
  \cup Gate(Coarse("trigger"), "update", {"generate_meeting_notes"})

AgendaRoutes ==
  Gate(Read, "get", {"get_meeting_agenda"})
  \cup Gate(Write, "update", {"set_meeting_agenda", "share_meeting_agenda", "lock_meeting_agenda"})

DocumentRoutes ==
  SoftDeleted(ReadOf("documents"), WriteOf("documents"), "list_documents", "get_document",
              "create_document", "update_document", "archive_document", "unarchive_document")
  \cup Gate(WriteOf("documents"), "get", {"document_page_preview_link"})

SponsorRoutes ==
  SoftDeleted(ReadOf("sponsors"), WriteOf("sponsors"), "list_sponsors", "get_sponsor",
              "create_sponsor", "update_sponsor", "archive_sponsor", "unarchive_sponsor")

ContactRoutes ==
  Gate(ReadOf("sponsors"), "list", {"list_sponsor_contacts"})
  \cup Gate(WriteOf("sponsors"), "create", {"add_sponsor_contact"})
  \cup Gate(WriteOf("sponsors"), "update", {"update_sponsor_contact"})
  \cup Gate(WriteOf("sponsors"), "remove", {"remove_sponsor_contact"})

PackageRoutes ==
  Gate(ReadOf("sponsors"), "get", {"list_sponsor_packages", "get_sponsor_package"})
  \cup Gate(WriteOf("sponsors"), "create", {"create_sponsor_package"})
  \cup Gate(WriteOf("sponsors"), "update", {"update_sponsor_package"})
  \cup Gate(WriteOf("sponsors"), "delete", {"delete_sponsor_package"})

(* POST /sponsor-leads needs no key; FlagshipSignup models it.              *)
LeadRoutes ==
  Gate(ReadOf("sponsors"), "get", {"list_sponsor_leads"})
  \cup Gate(WriteOf("sponsors"), "update", {"update_sponsor_lead"})

(* Faulty form: the routes were left behind when the tools got scopes.      *)
PeopleRoutesCoarse ==
  SoftDeleted(Read, Write, "list_people", "get_person", "create_person", "update_person",
              "archive_person", "unarchive_person")

PeopleRoutes ==
  SoftDeleted(ReadOf("people"), WriteOf("people"), "list_people", "get_person",
              "create_person", "update_person", "archive_person", "unarchive_person")

MediaRoutes ==
  Gate(Read, "list", {"list_media"}) \cup Gate(Write, "create", {"upload_media"})
  \cup Gate(Write, "update", {"update_media"}) \cup Gate(Write, "delete", {"delete_media"})

AttachmentRoutes ==
  Gate(Read, "list", {"list_attachments"}) \cup Gate(Write, "create", {"upload_attachment"})
  \cup Gate(Write, "update", {"update_attachment"}) \cup Gate(Write, "delete", {"delete_attachment"})

PublicApiRoutes ==
  Gate(Read, "other", {"status_route", "logs_route"})
  \cup Gate(Coarse("trigger"), "other", {"draft_route", "notify_route"})

============================================================================
