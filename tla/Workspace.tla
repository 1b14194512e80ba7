----------------------------- MODULE Workspace ------------------------------
(* The parts of the workspace that share no row: a behaviour explores one   *)
(* of them, named by `part`.  The variables of the others are Nil, and so   *)
(* is req, where a part with requests keeps them, in a part that has none.  *)
EXTENDS Integers, FiniteSets

(* The constants of the modules, where they are explained; those that two   *)
(* modules call alike and that may differ have a name of their own here.    *)
CONSTANTS
  Nil, Keep, Request,
  Message, MAX_CAPTURED, FAULTS,                                  \* Capture
  Mail, Event, Status, Marks, Score, Supplied, Trusted,
  DELIVERIES, EVENT_EDITS,                                        \* Pipeline
  Document, Slug, RESERVED, PATCHES,                              \* Pages
  AgendaItems, Token,                                             \* Agenda
  ASKS,                                                           \* Minutes
  Image, Attachment,                                              \* Files
  Person, Teams, UPDATES,                                         \* Assignment
  Credentials,                                                    \* Access
  Attribute, Value, Blank, Blankable,                             \* Records
  FEED_EDITS,                                                     \* Feed
  Email, Booking, SENDS,                                          \* Funnel
  Account, DiscordUser, CLAIMS,                                   \* Discord
  Project, ProjectSlug,                                           \* Projects
  Form,                                                           \* Review
  Amount, Rate,                                                   \* Budget
  TreeLink, Title, Position, Orders,                              \* Links
  WRITES                          \* Records, Projects, Budget and Links

VARIABLES
  part, req,
  captured, processed, waiting, captureFaults, captureOverlapped,
  maker, dusa, archivedEvents, drafted, answeredMails, unlogged, movedBy, moves,
  overlappedMails, deliveries, eventEdits,
  pageSlug, type, archivedPages, documentRows, retyped, patches,
  items, agendaStatus, token, meetingArchived, drawn, handedLinks, sharesRaced,
  overtaken,
  notes, documents, logged, answers, lost,
  fileRow, objects, used, interrupted, racedFiles,
  assignee, owners, there, untold, askedOwners, ownersMixed, taskFaults, updates,
  held, feature, record, done,
  recordStatus, recordRow, askedRow, asFound, recordWrites,
  page, item, met, reveal, feedEdits, visit,
  open, signups, leads, answeredBookings, missed, sends,
  players, link, claimed, racedUsers, claims,
  projectRows, projectSlug, public, review, projectWrites,
  stored, created, handedForms, spoilt,
  eventMade, budget, grant, askedBudget, byHand, budgetRaced, budgetWrites,
  links, order, title, askedOrder, ordersMixed, linkWrites

captureState == <<captured, processed, waiting, captureFaults, captureOverlapped>>
pipelineState == <<maker, dusa, archivedEvents, drafted, answeredMails, unlogged,
                   movedBy, moves, overlappedMails, deliveries, eventEdits>>
pagesState == <<pageSlug, type, archivedPages, documentRows, retyped, patches>>
agendaState == <<items, agendaStatus, token, meetingArchived, drawn, handedLinks,
                 sharesRaced, overtaken>>
minutesState == <<notes, documents, logged, answers, lost>>
filesState == <<fileRow, objects, used, interrupted, racedFiles>>
assignmentState == <<assignee, owners, there, untold, askedOwners, ownersMixed,
                     taskFaults, updates>>
accessState == <<held, feature, record, done>>
recordsState == <<recordStatus, recordRow, askedRow, asFound, recordWrites>>
feedState == <<page, item, met, reveal, feedEdits, visit>>
funnelState == <<open, signups, leads, answeredBookings, missed, sends>>
discordState == <<players, link, claimed, racedUsers, claims>>
projectsState == <<projectRows, projectSlug, public, review, projectWrites>>
reviewState == <<stored, created, handedForms, spoilt>>
budgetState == <<eventMade, budget, grant, askedBudget, byHand, budgetRaced,
                 budgetWrites>>
linksState == <<links, order, title, askedOrder, ordersMixed, linkWrites>>

vars == <<part, req, captureState, pipelineState, pagesState, agendaState,
          minutesState, filesState, assignmentState, accessState,
          recordsState, feedState, funnelState, discordState, projectsState,
          reviewState, budgetState, linksState>>

-----------------------------------------------------------------------------
Capture == INSTANCE EmailCapture WITH
  faults <- captureFaults, overlapped <- captureOverlapped

Pipeline == INSTANCE EmailPipeline WITH
  EDITS <- EVENT_EDITS, archived <- archivedEvents, answered <- answeredMails,
  overlapped <- overlappedMails, edits <- eventEdits

Pages == INSTANCE Pages WITH
  slug <- pageSlug, archived <- archivedPages, rows <- documentRows

Agenda == INSTANCE Agenda WITH
  Items <- AgendaItems, status <- agendaStatus, archived <- meetingArchived,
  handed <- handedLinks, raced <- sharesRaced

Minutes == INSTANCE Minutes

Files == INSTANCE StoredFiles WITH
  row <- fileRow, raced <- racedFiles

Assignment == INSTANCE Assignment WITH
  asked <- askedOwners, mixed <- ownersMixed, faults <- taskFaults

Access == INSTANCE Access

Records == INSTANCE Records WITH
  Unset <- Keep, status <- recordStatus, row <- recordRow, asked <- askedRow,
  writes <- recordWrites

Feed == INSTANCE WebsiteFeed WITH
  EDITS <- FEED_EDITS, edits <- feedEdits

Funnel == INSTANCE FlagshipSignup WITH
  answered <- answeredBookings

Discord == INSTANCE DiscordLink WITH
  raced <- racedUsers

Projects == INSTANCE Projects WITH
  Slug <- ProjectSlug, rows <- projectRows, slug <- projectSlug,
  writes <- projectWrites

Review == INSTANCE ReviewForm WITH
  handed <- handedForms

Budget == INSTANCE EventBudget WITH
  Budget <- Amount, made <- eventMade, asked <- askedBudget, raced <- budgetRaced,
  writes <- budgetWrites

Links == INSTANCE LinkTree WITH
  Link <- TreeLink, asked <- askedOrder, mixed <- ordersMixed, writes <- linkWrites

ASSUME WorkspaceAssumption ==
  /\ Capture!CaptureAssumption
  /\ Pipeline!PipelineAssumption
  /\ Pages!PagesAssumption
  /\ Agenda!AgendaAssumption
  /\ Minutes!MinutesAssumption
  /\ Files!FilesAssumption
  /\ Assignment!AssignmentAssumption
  /\ Access!AccessAssumption
  /\ Records!RecordsAssumption
  /\ Feed!FeedAssumption
  /\ Funnel!FunnelAssumption
  /\ Discord!LinkAssumption
  /\ Projects!ProjectsAssumption
  /\ Review!ReviewAssumption
  /\ Budget!BudgetAssumption
  /\ Links!LinkTreeAssumption

-----------------------------------------------------------------------------
(* The state of a part that is not explored.                                *)
NoCapture == captured = Nil /\ processed = Nil /\ waiting = Nil /\
             captureFaults = Nil /\ captureOverlapped = Nil
NoPipeline == maker = Nil /\ dusa = Nil /\ archivedEvents = Nil /\ drafted = Nil /\
              answeredMails = Nil /\ unlogged = Nil /\ movedBy = Nil /\
              moves = Nil /\ overlappedMails = Nil /\ deliveries = Nil /\
              eventEdits = Nil
NoPages == pageSlug = Nil /\ type = Nil /\ archivedPages = Nil /\
           documentRows = Nil /\ retyped = Nil /\ patches = Nil
NoAgenda == items = Nil /\ agendaStatus = Nil /\ token = Nil /\
            meetingArchived = Nil /\ drawn = Nil /\ handedLinks = Nil /\
            sharesRaced = Nil /\ overtaken = Nil
NoMinutes == notes = Nil /\ documents = Nil /\ logged = Nil /\ answers = Nil /\
             lost = Nil
NoFiles == fileRow = Nil /\ objects = Nil /\ used = Nil /\ interrupted = Nil /\
           racedFiles = Nil
NoAssignment == assignee = Nil /\ owners = Nil /\ there = Nil /\ untold = Nil /\
                askedOwners = Nil /\ ownersMixed = Nil /\ taskFaults = Nil /\
                updates = Nil
NoAccess == held = Nil /\ feature = Nil /\ record = Nil /\ done = Nil
NoRecords == recordStatus = Nil /\ recordRow = Nil /\ askedRow = Nil /\
             asFound = Nil /\ recordWrites = Nil
NoFeed == page = Nil /\ item = Nil /\ met = Nil /\ reveal = Nil /\
          feedEdits = Nil /\ visit = Nil
NoFunnel == open = Nil /\ signups = Nil /\ leads = Nil /\ answeredBookings = Nil /\
            missed = Nil /\ sends = Nil
NoDiscord == players = Nil /\ link = Nil /\ claimed = Nil /\ racedUsers = Nil /\
             claims = Nil
NoProjects == projectRows = Nil /\ projectSlug = Nil /\ public = Nil /\
              review = Nil /\ projectWrites = Nil
NoReview == stored = Nil /\ created = Nil /\ handedForms = Nil /\ spoilt = Nil
NoBudget == eventMade = Nil /\ budget = Nil /\ grant = Nil /\ askedBudget = Nil /\
            byHand = Nil /\ budgetRaced = Nil /\ budgetWrites = Nil
NoLinks == links = Nil /\ order = Nil /\ title = Nil /\ askedOrder = Nil /\ ordersMixed = Nil /\
           linkWrites = Nil

Alone(p) ==
  /\ IF p = "capture" THEN TRUE ELSE NoCapture
  /\ IF p = "pipeline" THEN TRUE ELSE NoPipeline
  /\ IF p = "pages" THEN TRUE ELSE NoPages
  /\ IF p = "agenda" THEN TRUE ELSE NoAgenda
  /\ IF p = "minutes" THEN TRUE ELSE NoMinutes
  /\ IF p = "files" THEN TRUE ELSE NoFiles
  /\ IF p = "assignment" THEN TRUE ELSE NoAssignment
  /\ IF p = "access" THEN TRUE ELSE NoAccess
  /\ IF p = "records" THEN TRUE ELSE NoRecords
  /\ IF p = "feed" THEN TRUE ELSE NoFeed
  /\ IF p = "funnel" THEN TRUE ELSE NoFunnel
  /\ IF p = "discord" THEN TRUE ELSE NoDiscord
  /\ IF p = "projects" THEN TRUE ELSE NoProjects
  /\ IF p = "review" THEN TRUE ELSE NoReview
  /\ IF p = "budget" THEN TRUE ELSE NoBudget
  /\ IF p = "links" THEN TRUE ELSE NoLinks

(* What a step of part p leaves alone.                                      *)
Kept(p) ==
  /\ UNCHANGED part
  /\ IF p \in {"access", "feed"} THEN UNCHANGED req ELSE TRUE
  /\ IF p = "capture" THEN TRUE ELSE UNCHANGED captureState
  /\ IF p = "pipeline" THEN TRUE ELSE UNCHANGED pipelineState
  /\ IF p = "pages" THEN TRUE ELSE UNCHANGED pagesState
  /\ IF p = "agenda" THEN TRUE ELSE UNCHANGED agendaState
  /\ IF p = "minutes" THEN TRUE ELSE UNCHANGED minutesState
  /\ IF p = "files" THEN TRUE ELSE UNCHANGED filesState
  /\ IF p = "assignment" THEN TRUE ELSE UNCHANGED assignmentState
  /\ IF p = "access" THEN TRUE ELSE UNCHANGED accessState
  /\ IF p = "records" THEN TRUE ELSE UNCHANGED recordsState
  /\ IF p = "feed" THEN TRUE ELSE UNCHANGED feedState
  /\ IF p = "funnel" THEN TRUE ELSE UNCHANGED funnelState
  /\ IF p = "discord" THEN TRUE ELSE UNCHANGED discordState
  /\ IF p = "projects" THEN TRUE ELSE UNCHANGED projectsState
  /\ IF p = "review" THEN TRUE ELSE UNCHANGED reviewState
  /\ IF p = "budget" THEN TRUE ELSE UNCHANGED budgetState
  /\ IF p = "links" THEN TRUE ELSE UNCHANGED linksState

WorkspaceInit ==
  \/ part = "capture" /\ Capture!Init /\ Alone("capture")
  \/ part = "pipeline" /\ Pipeline!Init /\ Alone("pipeline")
  \/ part = "pages" /\ Pages!Init /\ Alone("pages")
  \/ part = "agenda" /\ Agenda!Init /\ Alone("agenda")
  \/ part = "minutes" /\ Minutes!Init /\ Alone("minutes")
  \/ part = "files" /\ Files!Init /\ Alone("files")
  \/ part = "assignment" /\ Assignment!Init /\ Alone("assignment")
  \/ part = "access" /\ Access!Init /\ Alone("access") /\ req = Nil
  \/ part = "records" /\ Records!Init /\ Alone("records")
  \/ part = "feed" /\ Feed!Init /\ Alone("feed") /\ req = Nil
  \/ part = "funnel" /\ Funnel!Init /\ Alone("funnel")
  \/ part = "discord" /\ Discord!Init /\ Alone("discord")
  \/ part = "projects" /\ Projects!Init /\ Alone("projects")
  \/ part = "review" /\ Review!Init /\ Alone("review")
  \/ part = "budget" /\ Budget!Init /\ Alone("budget")
  \/ part = "links" /\ Links!Init /\ Alone("links")

WorkspaceNext ==
  \/ part = "capture" /\ Kept("capture") /\ Capture!Next
  \/ part = "pipeline" /\ Kept("pipeline") /\ Pipeline!Next
  \/ part = "pages" /\ Kept("pages") /\ Pages!Next
  \/ part = "agenda" /\ Kept("agenda") /\ Agenda!Next
  \/ part = "minutes" /\ Kept("minutes") /\ Minutes!Next
  \/ part = "files" /\ Kept("files") /\ Files!Next
  \/ part = "assignment" /\ Kept("assignment") /\ Assignment!Next
  \/ part = "access" /\ Kept("access") /\ Access!Next
  \/ part = "records" /\ Kept("records") /\ Records!Next
  \/ part = "feed" /\ Kept("feed") /\ Feed!Next
  \/ part = "funnel" /\ Kept("funnel") /\ Funnel!Next
  \/ part = "discord" /\ Kept("discord") /\ Discord!Next
  \/ part = "projects" /\ Kept("projects") /\ Projects!Next
  \/ part = "review" /\ Kept("review") /\ Review!Next
  \/ part = "budget" /\ Kept("budget") /\ Budget!Next
  \/ part = "links" /\ Kept("links") /\ Links!Next

WorkspaceSpec == WorkspaceInit /\ [][WorkspaceNext]_vars

Send(m) == part = "capture" /\ Kept("capture") /\ (\E r \in Request : Capture!Send(r, m))

Handle(r) ==
  part = "capture" /\ Kept("capture") /\ (Capture!Handle(r) \/ Capture!Answer(r))

(* The fairness of EmailCapture!FairSpec.                                   *)
FairWorkspaceSpec ==
  /\ WorkspaceSpec
  /\ \A m \in Message : SF_vars(Send(m))
  /\ \A r \in Request : WF_vars(Handle(r))

-----------------------------------------------------------------------------
(* The properties of the modules, where they are explained.                 *)
TypeOK ==
  CASE part = "capture" -> Capture!TypeOK [] part = "pipeline" -> Pipeline!TypeOK
    [] part = "pages" -> Pages!TypeOK [] part = "agenda" -> Agenda!TypeOK
    [] part = "minutes" -> Minutes!TypeOK [] part = "files" -> Files!TypeOK
    [] part = "assignment" -> Assignment!TypeOK [] part = "access" -> Access!TypeOK
    [] part = "records" -> Records!TypeOK [] part = "feed" -> Feed!TypeOK
    [] part = "funnel" -> Funnel!TypeOK [] part = "discord" -> Discord!TypeOK
    [] part = "projects" -> Projects!TypeOK [] part = "review" -> Review!TypeOK
    [] part = "budget" -> Budget!TypeOK [] part = "links" -> Links!TypeOK

(* The script gets every message off its hands.                             *)
EveryMessageProcessed ==
  \A m \in Message : <>(part # "capture" \/ m \in processed \/ captured[m] > 1)

(* What a sender repeats, because it got no answer or does not know better, *)
(* is done and is done once: captures, drafts, leads and bookings.          *)
RepeatsCountOnce ==
  /\ part = "capture" => Capture!CapturedOnce
  /\ part = "pipeline" => Pipeline!DraftedOnce
  /\ part = "funnel" => Funnel!LeadOnce /\ Funnel!NoBookingLost

(* Nobody reaches a record, or moves an event, over any surface without the *)
(* right to, and the guide lists exactly the tools the server allows.       *)
OnlyTheEntitled ==
  /\ part = "access" => /\ Access!GuideHonest /\ Access!SurfacesAgree
                      /\ Access!EntitledOnly /\ Access!IsolatedModules
  /\ part = "pipeline" => Pipeline!MovedByMatch

(* A visitor sees nothing that was not published, approved or revealed.     *)
OnlyThePublicShown ==
  /\ part = "feed" => Feed!NothingUnpublishedShown /\ Feed!FlagshipKeepsSecret
  /\ part = "projects" => Projects!PublicIsApproved

(* An address that was given out leads to one thing, and goes on doing so:  *)
(* slugs, previews, the links of agendas and of review forms.               *)
AddressesHold ==
  /\ part = "pages" => Pages!OnePagePerAddress /\ Pages!PreviewAgrees
  /\ part = "projects" => Projects!OneProjectPerSlug
  /\ part = "agenda" => Agenda!LinkStable
  /\ part = "review" => Review!LinksCollect

(* What stands is what the last request to name it asked for, whole.        *)
LastRequestHolds ==
  /\ part = "records" => Records!NothingReverted
  /\ part = "assignment" => Assignment!OwnersOfLastRequest
  /\ part = "budget" => Budget!GrantFollowsBudget
  /\ part = "discord" => Discord!LastClaimHolds
  /\ part = "links" => Links!OrderAsAsked

(* What one request writes in two places, or writes and announces, agrees:  *)
(* rows and objects, notes and their cost, assignees and their notices.     *)
PlacesAgree ==
  /\ part = "files" => Files!RowsAreBacked /\ Files!NoStrays
  /\ part = "minutes" => Minutes!MinutesTogether
  /\ part = "assignment" => Assignment!AssigneeTold

(* What was settled is not undone by a step that comes late: answered       *)
(* mails, locked agendas, headers, and attributes nobody asked to clear.    *)
SettledStays ==
  [][ /\ part = "pipeline" => Pipeline!SettledMailKept
      /\ part = "agenda" => Agenda!LockKept
      /\ part = "records" => Records!ClearedAsAsked
      /\ part = "links" => Links!TitleKept ]_vars

============================================================================
