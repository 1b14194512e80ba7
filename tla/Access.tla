------------------------------- MODULE Access -------------------------------
(* One credential at work in one feature of the workspace, over REST and    *)
(* over MCP: an API key, or an access token of a login, stands for its      *)
(* scopes.  A request is let through or refused, and then does what its     *)
(* tool does to the record of the feature.  Requests that overlap are       *)
(* modelled by Records, and how a credential comes by its scopes by ApiKeys *)
(* and OAuthTokens.                                                         *)
EXTENDS WorkspaceRoutes, ToolCatalogue

CONSTANT Credentials      \* the sets of scopes that are tried

AccessAssumption == Credentials \subseteq SUBSET Scope

Feature ==
  {"members", "finance", "events", "reviews", "speakers", "line-up", "connections",
   "partners", "links", "link profile", "scan", "scan page", "projects", "boards", "tasks",
   "meetings", "agendas", "documents", "sponsors", "contacts", "packages", "leads",
   "people", "media", "attachments", "public api"}

MCP(f) ==
  CASE f = "members" -> MemberTools [] f = "finance" -> FinanceTools
    [] f = "events" -> EventTools [] f = "reviews" -> ReviewTools
    [] f = "speakers" -> SpeakerTools [] f = "line-up" -> LineUpTools
    [] f = "connections" -> ConnectionTools [] f = "partners" -> PartnerTools
    [] f = "links" -> LinkTools [] f = "link profile" -> LinkProfileTools
    [] f = "scan" -> ScanTools [] f = "scan page" -> ScanPageTools
    [] f = "projects" -> ProjectTools [] f = "boards" -> BoardTools
    [] f = "tasks" -> TaskTools [] f = "meetings" -> MeetingTools
    [] f = "agendas" -> AgendaTools [] f = "documents" -> DocumentTools
    [] f = "sponsors" -> SponsorTools [] f = "contacts" -> ContactTools
    [] f = "packages" -> PackageTools [] f = "leads" -> LeadTools
    [] f = "people" -> PeopleTools [] f = "media" -> MediaTools
    [] f = "attachments" -> AttachmentTools [] OTHER -> {}

REST(f) ==
  CASE f = "members" -> MemberRoutes [] f = "finance" -> FinanceRoutes
    [] f = "events" -> EventRoutes [] f = "reviews" -> ReviewRoutes
    [] f = "speakers" -> SpeakerRoutes [] f = "line-up" -> LineUpRoutes
    [] f = "connections" -> ConnectionRoutes [] f = "partners" -> PartnerRoutes
    [] f = "links" -> LinkRoutes [] f = "link profile" -> LinkProfileRoutes
    [] f = "scan" -> ScanRoutes [] f = "scan page" -> ScanPageRoutes
    [] f = "projects" -> ProjectRoutes [] f = "boards" -> BoardRoutes
    [] f = "tasks" -> TaskRoutes [] f = "meetings" -> MeetingRoutes
    [] f = "agendas" -> AgendaRoutes [] f = "documents" -> DocumentRoutes
    [] f = "sponsors" -> SponsorRoutes [] f = "contacts" -> ContactRoutes
    [] f = "packages" -> PackageRoutes [] f = "leads" -> LeadRoutes
    [] f = "people" -> PeopleRoutes [] f = "media" -> MediaRoutes
    [] f = "attachments" -> AttachmentRoutes [] OTHER -> PublicApiRoutes

VARIABLES
  held,        \* the scopes of the credential
  feature,
  record,      \* "none", "live" or "archived"
  done         \* history: what the credential was let do to the record: "see", "change"

vars == <<held, feature, record, done>>

Init ==
  /\ held \in Credentials
  /\ feature \in Feature
  /\ record \in {"none", "live"}
  /\ done = {}

-----------------------------------------------------------------------------
(* `require_scope`, and `require_api_key` for a route that names one scope. *)
Admits(tool) == HasScope(held, tool.scope)

Touch(what) == done' = done \cup what

List == record = "live" /\ Touch({"see"}) /\ UNCHANGED record

Get == record # "none" /\ Touch({"see"}) /\ UNCHANGED record

(* The answer to these is the record, over both surfaces (`_dump`, and the  *)
(* `response_model` of the route).                                          *)
Create == record = "none" /\ Touch({"see", "change"}) /\ record' = "live"

Update == record # "none" /\ Touch({"see", "change"}) /\ UNCHANGED record

Archive == record # "none" /\ Touch({"see", "change"}) /\ record' = "archived"

Unarchive == record # "none" /\ Touch({"see", "change"}) /\ record' = "live"

(* `link_sponsor`, `link_partner`, `link_connection`.                       *)
Link == Touch({"see", "change"}) /\ record' = "live"

(* And to these it is not.                                                  *)
Remove == record # "none" /\ Touch({"change"}) /\ record' = "archived"

Delete == record # "none" /\ Touch({"change"}) /\ record' = "none"

Perform(effect) ==
  \/ effect = "list" /\ List
  \/ effect = "get" /\ Get
  \/ effect = "create" /\ Create
  \/ effect = "update" /\ Update
  \/ effect = "archive" /\ Archive
  \/ effect = "unarchive" /\ Unarchive
  \/ effect = "link" /\ Link
  \/ effect = "remove" /\ Remove
  \/ effect = "delete" /\ Delete

(* A request that is refused, finds no record, or leaves it alone, changes  *)
(* nothing.                                                                 *)
Call(tool) ==
  /\ Admits(tool)
  /\ Perform(tool.effect)
  /\ UNCHANGED <<held, feature>>

Next ==
  \/ \E tool \in MCP(feature) : Call(tool)
  \/ \E route \in REST(feature) : Call(route)

Spec == Init /\ [][Next]_vars

-----------------------------------------------------------------------------
TypeOK == record \in {"none", "live", "archived"} /\ done \subseteq {"see", "change"}

Names(tools) == {tool.name : tool \in tools}

Callable == Names({tool \in MCP(feature) : Admits(tool)})

(* The guide of a key lists the tools the server lets it call and no other, *)
(* although the catalogue is a second list of scopes, kept by hand: the     *)
(* repository's test compares the names of the two, not the scopes.  (That  *)
(* is the list: what SCOPE_SUMMARY says of the plain scopes beside it, that *)
(* they cover the isolated modules, `has_scope` does not hold to.)          *)
GuideHonest == Callable = ToolsForScopes(held) \cap Names(MCP(feature))

(* A credential may do over REST what it may do over MCP and conversely, so *)
(* that narrowing one surface never leaves the other open.                  *)
SurfacesAgree ==
  \A tool \in MCP(feature), route \in REST(feature) :
    tool.name = route.name =>
      /\ Admits(tool) <=> Admits(route)
      /\ tool.effect = route.effect

(* The module whose scopes open a feature, besides the plain ones.          *)
Home ==
  CASE feature \in {"sponsors", "contacts", "packages", "leads"} -> "sponsors"
    [] feature \in {"finance", "members", "people", "documents"} -> feature
    [] OTHER -> NoModule

(* The isolated modules whose data the records of a feature carry: an event *)
(* has its budget, its grant and the id of a sponsor (`EventOut`), a        *)
(* line-up and the files are those of sponsors.                             *)
Carries ==
  CASE feature = "finance" -> {"finance"}
    [] feature = "events" -> {"finance", "sponsors"}
    [] Home = "sponsors" \/ feature \in {"line-up", "attachments", "media"} -> {"sponsors"}
    [] OTHER -> {}

(* The scopes that let a credential see, and change, records of module m.   *)
Plain(m, scopes) == IF m \in SCOPE_ISOLATED_MODULES THEN {} ELSE scopes

Readers(m) == {ReadOf(m), WriteOf(m)} \cup Plain(m, {Coarse("read"), Coarse("write")})

Writers(m) == {WriteOf(m)} \cup Plain(m, {Coarse("write")})

(* Generating the notes of a meeting changes the meeting, and answers with  *)
(* it.                                                                      *)
Trigger == IF feature = "meetings" THEN {Coarse("trigger")} ELSE {}

(* Whatever sequence of tools and routes it tries, over both surfaces, a    *)
(* credential gets at a record only with a scope of the record's module,    *)
(* and changes it only with the write scope; a plain scope will do unless   *)
(* the module is isolated (SCOPE_ISOLATED_MODULES), and "trigger" for a     *)
(* meeting and nothing else.                                                *)
EntitledOnly ==
  /\ done # {} => (Readers(Home) \cup Trigger) \cap held # {}
  /\ "change" \in done => (Writers(Home) \cup Trigger) \cap held # {}

(* So the data of an isolated module are out of reach without a scope of    *)
(* that module, except where the record of another feature carries them:    *)
(* there a plain read or write shows them.                                  *)
IsolatedModules ==
  \A m \in Carries :
    done # {} =>
      \/ {ReadOf(m), WriteOf(m)} \cap held # {}
      \/ m # Home /\ {Coarse("read"), Coarse("write")} \cap held # {}

============================================================================
