# A TLA+ model of dsec-api

dsec-api is the backend of a student club: one FastAPI application over one
Postgres database, with scripts, crons, an MCP connector and a Discord bot as its
callers. Almost everything that can go wrong in it that a unit test would not show
comes from one fact: a handler is a *sequence* of SQL statements and commits, and
several handlers run at once. The image starts two uvicorn workers
(`Dockerfile:54-72`), `vercel.json` runs the same code as serverless functions,
plain `def` routes run in a thread pool, and both the Vercel crons and the `cron`
container may exist during a cutover (`docs/cutover.md:164`). The sessions do not
autoflush (`app/db.py:58`), a session that is closed without a commit rolls back,
and Postgres runs at READ COMMITTED.

The modules here take that as the machine model:

- the state of a module is the committed rows of the tables it is about, plus what
  each handler in flight holds (`req`: a phase and its local variables), plus the
  locks of the database that the code takes;
- one action is one statement (with the commit behind it, when it is the last),
  so everything a handler has *read* may be old by the time it is *used*;
- a handler may die between any two of its steps: what it has committed stays,
  the rest is rolled back;
- time, the roster, the hub and the operator are actions of their own.

## The parts of the system

| Part | State it keeps | Operations | What is hard |
|---|---|---|---|
| API keys (`core/apikeys.py`, `features/admin`) | `api_key`: parent, scopes, owner, revoked, expiry | create, mint a child, revoke with all descendants, revoke for an owner, authenticate | mints that race with the revoke of an ancestor; row locks along a tree; scopes that compose down a chain |
| OAuth server (`features/oauth`, `mcp/auth.py`) | `oauth_client`, `oauth_auth_code`, `oauth_token`, `app_user` | register, consent, exchange, refresh, revoke a token, a family, a client | check, then commit, then issue: three transactions without a lock; roles that change under a grant |
| Request limiter (`core/ratelimit.py`) | `rate_limit` per minute | count, refuse, prune | the race for the first row; the sweeper |
| LLM budget (`core/ratelimit.py`) | `rate_limit` per day | charge a key, charge the pipeline | read, compare, write from the loaded value; a foreign key that not every caller meets |
| Games (`features/games`, `game_link`) | `game_player`, `game_round`, `game_attempt` | submit, in two engines | one board from two surfaces, midnight, a daily cap that is a sum |
| Monthly draw (`games/draws.py`) | `draw_cycle` | open, close | two commits, no lock, several crons; plays that commit late |
| DUSA ingest (`features/ingest`, the Gmail script) | `dusa_import`, `members`, `member_report`, `finance_report` | upload a workbook | retries, a sweep and upserts in one transaction, a guard against bad reports |
| Email capture (`ingest/router.py`, its script) | `event_log`, Gmail labels | capture | check, then insert; lost answers; an error that is swallowed |
| Email pipeline (`features/email`, `events/dusa.py`) | `event_log`, the DUSA status of events | deduplicate, gate, classify, decide, draft | redelivery during a run; a decision applied before the draft is logged |
| Meetings (`features/meetings`) | agenda, status and share token; notes, minutes and their cost | edit, share, lock; generate notes | a first share that mints a token; writes that pass each other; a slow model call before one commit |
| Media and attachments (`features/media`, `attachments`, the recompression script) | rows, and the objects of a bucket they name | upload, delete, compress again | no transaction spans the two stores |
| Documents and pages (`features/documents`, `website/preview.py`) | slug, type, archiving | create, patch, archive, serve, preview | a slug that is looked up and then written; two definitions of what a page is |
| Tasks and owners (`features/tasks`, `core/owners.py`, `core/notify.py`) | assignee, owner rows | create, update, notify | a second transaction; a notice decided on an old row |
| Events, line-up, reviews, budgets (`features/events`, `reviews`, `finance`) | events and the rows linked to them, the form's id, budget and grant | the six operations of a record, link, create a form, set a budget | a form made at an outside service; a pair of figures that two endpoints write |
| Projects (`features/projects`) | slug, publicity, review state | create, update; the hub moderates | an approval read before it is withdrawn |
| Link tree and scan wall (`features/links`, `scan`) | order, header row | create, move, reorder, edit the header | rows written one by one from an old list, by three kinds of request; a row that its first writer makes |
| Discord links (`game_link`, `discord`) | `game_player`, `game_account_link` | start, claim a code | a binding that moves between accounts |
| Website (`features/website`) | none of its own | the public pages and previews | every path to a row must ask whether it may be shown |
| Flagship funnel and bookings (`website`, `calcom`, `sponsor_leads`) | signups and leads | sign up, deliver a booking | a signup and its mirrored lead are two commits; a webhook that is delivered again |
| People, partners, sponsors, contacts, packages, leads | one table each | the six operations of a record | two editors of one row; two surfaces with different defaults |
| MCP server and REST surface (`features/mcp`, the routers) | none of their own | the tools and the routes | three lists of scopes kept by hand |
| Shell, schema, deployment, dashboard, archive export, page blocks | none | wiring, reads, pure functions | - |

How they meet: `require_api_key` and the limiter stand before every REST route;
the MCP server accepts an OAuth token or an API key and charges the LLM budget; the
roster that an ingest lands decides who is a member in the games, and the games'
points decide the draw. The modules meet at those values (`member` in `GameLedger`,
`points` in `MonthlyDraw`, `OAuthToken` in `TriggerBudget`), each as an
environment that may change at any step, which is what the other part looks like
from inside a transaction. The tools of the MCP server and the REST routes call the
same services, so one model of a service (`Records`, `Agenda`, `Assignment`, ...)
stands for both, and `Access` says who may call it. A mail charges the keyless
counter of `TriggerBudget`, notes the counter of their caller; the website reads what
the committee's services wrote.

What makes each part correct, in one line:

- *Keys*: a revocation reaches every descendant and nobody else; scopes never grow
  down a chain; the cap on live children holds; no two handlers deadlock.
- *OAuth*: a code and a refresh token are spent once and before anything is issued
  for them; nothing exceeds the consent; a revoked client is out.
- *Limiter*: no increment is lost; exactly the limit is served in a window.
- *Budget*: nobody is refused early; nobody gets the 503; the caps hold.
- *Games*: the daily cap, the taste play, one board, a finished board is final,
  every submit is answered.
- *Draw*: the winner is the top of the month and does not change.
- *Ingest*: a message lands once; the roster is the last report, never half of it;
  the guard holds; there is one current snapshot.
- *Capture*: a message has one row, and the script gets every message off its hands.
- *Email pipeline*: one draft for a mail; a mail whose draft is logged rests; an
  event moves only for a mail of DUSA that fits it.
- *Agenda and minutes*: a link that was handed out keeps working; locked is final;
  notes, document and cost come and go together.
- *Files*: what a row names is in the bucket, and nothing else is.
- *Pages and projects*: one page to an address; a served page can be previewed; only
  what is approved is public.
- *Tasks*: who has a task has been told; the owners are those of the last request.
- *Records*: an edit never reverts what it did not name, and clears only what it was
  asked to clear.
- *Access*: the guide lists what the server allows; both surfaces agree; nobody sees or
  changes a record without a scope for it, and plain scopes do not open an isolated
  module.
- *Website*: nothing unpublished and no flagship secret is shown.
- *Funnel*: a sponsor has one lead; no booking is lost.
- *Discord, reviews, budgets, links*: the last claim holds; answers reach the event;
  the grant follows the budget; the order is the one asked for.

## The modules and the code

An `MC` module gives a specification its small sets and its symmetry; a `.cfg` of
the name of the run gives the constants their values. Definitions that begin with
the comment *Faulty form* are plausible bugs of the definition under them, kept to
show that a property would notice: the listed `mutants` put one in the place of the
real definition, and the property is then violated.

### ApiKeyScopes, ApiKeys

`ApiKeyScopes` is the scope algebra of `core/apikeys.py`: a scope string is a record
of a verb and a module, `HasScope` is `has_scope` with its coarse supersets and the
isolated modules. `ApiKeys` is the table and its handlers. The FOR UPDATE locks of
`self_create_key` and `_cascade_revoke` are the variable `lock`.

| Code | Actions |
|---|---|
| `POST /admin/keys` | `CreateKey` |
| `POST /admin/keys/self` | `MintAuthenticate`, `MintLock` (refresh under the lock, second look), `MintCheck` (owner, cap, scopes), `MintInsert` |
| `POST /admin/keys/{id}/revoke`, `revoke-for-owner` | `RevokeByAdmin` or `RevokeForOwner`, `RevokeLock`, then `CascadeSelect` and `CascadeLock` level by level, `RevokeCommit` |
| expiry, a handler that dies | `Expire`, `Abort` |

A level of the cascade is a select that fixes which rows it will lock, and then one
step per row, because the statement waits for each row in turn while other handlers
go on.

### OAuthScopes, OAuthTokens

`OAuthScopes` is what a role allows (`allowed_scopes_for`), the expansion of coarse
scopes into module scopes and back (`scopes_for_grant`, `_coarse_grant`), and
`Refreshed`, what a refresh keeps. A role query that fails reads like a missing role
(`RolesRead`), as in `_role_perms`. `OAuthTokens` is the life of a grant.

| Code | Actions |
|---|---|
| `/oauth/register`, `/oauth/authorize` | `Register`, `Authorize`, `CodeInsert` |
| `/oauth/token`, a code | `Exchange`, `ReadCode`, `Consume` (its own commit), `Issue` |
| `/oauth/token`, a refresh | `Refresh`, `ReadRefresh`, `ReadAccount`, `Narrow`, `Rotate` (its own commit), `Issue` |
| `revoke_family` | `ReadFamily`, `RevokeFamily` |
| `/oauth/revoke`, the client revocation | `RevokeByRaw`; `RevokeClient`, `RevokeClientCommit` |
| the hub, the clock | `HubEditsUser`, `CodeExpires`, `AccessExpires`, `RefreshExpires` |

The columns `code` and `from` of a token row are history. PKCE and the client's own
authentication refuse before any state is touched and appear as the choice of a
handler to end.

### RequestLimiter, RequestQuota

`RequestLimiter` is `check_request` with `_bump_minute`: UPDATE or INSERT, the loser
of the race for the first row retries, the prune of old windows runs at any time.
`RequestQuota` is what it promises, in terms of a service: a bucket lets `LIMIT`
requests through in a window and refuses the rest. The refinement mapping makes
`served` of the count (all of it up to the limit) and the verdict of the count a
request was told.

### TriggerBudget, Gateway

`check_and_count_trigger` (`CheckGlobal`, `Find`, `Flush`, `FindAgain`,
`CountInserted`, `CountFound`) and `check_and_count_llm_global` (`CheckGlobal`,
`Find`, `Bump`, `BumpInsert`). `Flush` waits for an uncommitted row of the same key
and fails on a committed one or on an id that is no API key's. `Gateway` is the two
limits a call passes, `RequestLimiter` and `TriggerBudget`: they share a table and no
row, so `part` says which of them a behaviour explores.

### GameLedger

`submit_attempt` for one player and one game, for both engines: `game` is what the
engine declares (one attempt per round with several guesses, or many plays with a
session token). The advisory lock is `holder`, one lock per day of *arrival*; the
round is the round of that day; `played_at` is set at the INSERT. `RosterChanges`
and `Midnight` come at any step. The actions are `FindPlayer`, `InsertPlayer`,
`ReadMember`, `FindRound`, `InsertRound`, `RefuseSession`, `Lock`, `ContinueAttempt`
or `NewAttempt`, `Award`, `Write`.

### MonthlyDraw

`close_cycle` behind `/cron/close-draw` (`CloseDraw`, `FindCycle`, `InsertCycle`,
`Standings`, `Close`, `FindNext`, `InsertNext`), GET `/draw` (`GetDraw`), and plays
that are inserted (`Play`) and committed (`Commit`) around it. `seen` is the
identity map of the session: a row that the first SELECT loaded is returned by the
second as it was.

### Ingest

`handle_dusa_upload` after the parser: `FindImport`, `RecordImport` (INSERT of the
import row; it waits for the uncommitted row of the same message), the guard
(`Refuse`, `Pass`), `Sweep` and `LandRoster`, or `Flip` and `LandLedger`. `Sweep` and
`Flip` note which rows there were when the UPDATE of all rows began: at READ
COMMITTED it does not change rows another upload commits meanwhile. A workbook is
what the parser finds in it: a type, the student ids, the rows without one, and the
ids it lists twice. The session does not flush before a query, so a *new* student who
is listed twice is inserted twice, and the commit fails on the unique id
(`RefuseTwice`): nothing of the report stays, also not its import row, and every retry
of the same workbook fails alike.

### EmailCapture

The script's loop and the endpoint together: `Send`, `GiveUp` (the fetch times out
and the request is still at work), `FindCapture`, `LogEvent`, `LogEventFails`
(`log_event` swallows every error), `Answer`, `Die`.

### EmailPipeline

`run_pipeline` with what stands before and behind it.

| Code | Actions |
|---|---|
| `POST /email/process`: Gmail's script delivers a mail | `Deliver`, again at any time, also while a run of it is at work |
| `POST /public/draft`: the holder of a key writes one | `DraftRoute`; such a mail passes `_already_processed` and the cap of the day unasked, since the key was charged before |
| `_already_processed`, `is_spam_or_noreply` | `Dedupe` (only a logged *draft* counts), `Spam` |
| the cap of the day | `Count`, which lets through or not: `TriggerBudget` models it |
| `classify`, `_run_decision`, `match_event`, `execute_decision` | `Classify`, `Decide` with `Matches` and `MayMove`, `Apply` (its own commit) |
| the draft and `log_event` | `Draft`, `LogDraft`, which may fail and hides it |
| a worker that dies; the committee | `Die`; `EditEvent` |

What the models answer is a choice: no model is trusted, and `MovedByMatch` is what
remains. The score of a mail against an event is a constant, since it is a function of
two texts; what is done with it (floor, margin, threshold) is in the model. The sender
of a mail of `/public/draft` (`Supplied`) is what its writer says it is: with a key for
`trigger`, whoever writes in the name of an authorised domain is trusted like the
domain. `MovedByMatch` holds of such mails too and says no more than that;
`DraftedOnce` is about the mails of Gmail, since nothing tells two drafts of the route
apart.

### Agenda, Minutes

`Agenda` has one action for the load of a handler and one for its commit: `LoadEdit`,
`Validate`, `CommitEdit`; `LoadShare`, `CommitShare`, `HandOut` (the answer, read after
the commit); `LoadLock`, `CommitLock`. SQLAlchemy writes only the attributes that
differ from the row that was loaded, so an edit that was loaded before a lock writes
the agenda and not the status. `Minutes` is `generate_meeting_notes`: `Ask`,
`Generate` (the call, while no transaction protects the row), `CommitNotes` (notes,
document and cost in one commit), `GenerateFails`, `Die`, `EditByHand`.

### StoredFiles

An image has two objects in the bucket and an attachment one. `Upload`, `PutWeb`,
`PutDownload`, `Insert`; `LoadDelete`, `DeleteObjects` (in the code's order: objects
first, row last), `DeleteRow`; the script's `Fetch`, `PutWebAgain`, `PutDownloadAgain`,
`DropOld`, `UpdateRow`. Any of these may `Fail`, which stands for an error of the
bucket and for the death of the process: the code has no compensation for either.

### Pages, Projects

`Pages` is `create_document` and `update_document` as `Arrive` (the load, with
`_enforce_page_type` on the body), `CheckSlug` (`validate_slug`, the SELECT), `Commit`
(the UPDATE of what differs, against the unique index), and `Archive` for both
directions. `Served` and `Previewable` are the two definitions of a page, that of the
feed and that of the preview. `Projects` is the same with `_apply_publish_gate`
(`Gate`), the CHECK constraint (`Passes`), and the hub (`Moderate`).

### Assignment

`create_task` and `update_task`: `Load`, `CommitRow`, `Refresh` (the row as it is
after the commit), `DeleteOwners`, `DeleteDone` and `InsertOwners` (`set_owners`, a
second transaction), `Reload`, `Notify` (decided by the assignee of `Load` and the one of
`Reload`), `Die`. The DELETE of `set_owners` is one of READ COMMITTED: it works on the
owners that are committed when it begins (`gone`), waits for another that is deleting
the same rows, and never sees what the other inserts. So replacements that overlap can
leave the owners of both, or the second INSERT meets the unique key, waits for a row
that is being deleted, and fails on one that another has inserted; then it changes
nothing, and the task has been changed all the same. `OwnersOfLastRequest` says that
this ends with the next replacement that runs alone.

### Records

The services for people, partners, sponsors, contacts, packages, leads, speakers,
events and the rest have one shape, and `Records` is that shape with two attributes:
`LoadUpdate`, `LoadArchive`, `LoadUnarchive`, `LoadDelete`, `LoadLink`, `LoadCreate`,
each with its commit. `Dirty` is what a session writes: the attributes of the body that
differ from those it loaded. Over REST a body may null an attribute
(`exclude_unset`); over MCP an argument that is None is dropped, as one not given is
(`Given`, `_data` of the server). A *blank* reaches the services over either surface and
is taken for NULL where the code says so (`Parsed`): an empty string by the validators
of links, scan and projects, a `related_task_id` of 0 by `update_document`. So a tool
can clear an attribute, and `ClearedAsAsked` says what remains of "never overwrites
existing data": nothing is cleared but by a PATCH that nulls it or a call that blanks
it, whatever overlaps. `Blankable` are the attributes in which a blank stands for NULL;
the run has one that is and one that is not. Archive and unarchive write one flag; deletion is of the row.

### WorkspaceTools, WorkspaceRoutes, ToolCatalogue, Access

Three lists that the repository keeps by hand, transcribed as sets of records of a
name, a scope and an effect: the tools of `mcp/server.py`, the REST routes of the
routers, the entries of `mcp/catalog.py`. `Access` is one credential of any of eleven kinds that
tries any sequence of tools and routes in one feature. The catalogue's prose is not in
it; the test of the repository compares the names of catalogue and server, and
`GuideHonest` their scopes.

What a call does to the record is its effect: `List`, `Get`, `Create`, `Update`,
`Archive`, `Unarchive`, `Link` *show* it, because the answer to a change is the record
on both surfaces, and `Remove` and `Delete` change it without showing it. So a key that
has `trigger` alone does see a meeting and does change it, by `generate_meeting_notes`
and its route; `EntitledOnly` says so (`Trigger`), and that this is the only thing it
gets at. It asks every record that was seen for a scope of its module, and every one
that was changed for the write scope (`Readers(Home)`, `Writers(Home)`), and
`IsolatedModules` is about the *data*: `Carries` names the features whose records hold
data of an isolated module (an event its budget, its grant and its sponsor, a line-up
its sponsors, attachments and media those of a sponsor). A feature of an isolated module
is out of reach of plain scopes; an event, a line-up and the files are not, so what
they carry is seen with a plain `read` and changed with a plain `write`, in the model as
in the code. That is a limit of the code's isolation, and the second disjunct of the
property states it.

### WebsiteFeed

One page, the row it is about and one item that hangs off it, by the conditions each
meets (published, archived, dated, shown, ...): `RowConditions` and `ItemConditions`
are the WHERE clauses of the feed. `Come`, `SelectRow`, `SelectItem` are the visit,
`Decide` is the committee. `reveal` is the text of the flagship state, of which only
"revealed" opens the specifics.

### FlagshipSignup, DiscordLink, ReviewForm, EventBudget, LinkTree

`FlagshipSignup`: `SignUp`, `InsertSignup` (a duplicate is answered as a success),
`CreateLead` (the second commit), and the webhook of Cal.com with `DeliverBooking`,
`BookLead`, `AnswerBooking`. `DiscordLink`: `Start`, `InsertPlayer`; `Claim`,
`FindLink`, `CommitLink`, `Answer`. `ReviewForm`: `Ask`, `CreateForm` (at the service),
`Store`, `HandOut`. `EventBudget`: `CreateEvent` (a
POST may bring either amount, also a grant without a budget), `SetBudget`, and
`PatchEvent`, which writes budget or grant alone. `LinkTree`: `CreateLink` (with a
position or the default), `Reorder` and `Reposition` (a PATCH of `display_order`), which
load the positions, `CommitOrder` (only positions that differ from the loaded ones),
`LoadHeader`, `CreateHeader`, `CommitHeader`. Each has the death or
failure of a handler between two of its steps.

### Workspace

The sixteen modules from `EmailCapture` to `LinkTree` share no row, so there is nothing
to learn from running two of them at once: an initial state of `Workspace` chooses the
`part`, every step is one of that part (`WorkspaceNext`), and the others have no state
(`Alone`) and keep none (`Kept`). Each INSTANCE says which variables and constants are
the part's; the constants are those of the modules, for any values that satisfy the
assumptions of all of them (`WorkspaceAssumption`). `WorkspaceSpec` is the safety
specification that the proofs are about, `FairWorkspaceSpec` adds the fairness of
`EmailCapture`. The properties are conjunctions, as listed with the runs.

## What is promised only to requests that do not overlap

Many parts check something in one statement and rely on it in a later one without a
lock. Writing down a property for them meant finding out how much the code promises, so
these modules have a history variable that is set when handlers overlap (`overlapped`,
`raced`, `mixed`, `overtaken`, or `unsettled` for the months of the draw), and the
properties say both halves: what holds always, and what holds while it is false.

- *OAuth*: two exchanges of one code, or two refreshes of one token, that both pass
  the check before either commits each get a pair. `SingleUse` says: never more than
  the handlers that overlapped, and exactly one without overlap. A token that is
  issued after its client was revoked works until its hour is over;
  `RevokedClientLosesAccess` says that it then stops for good. `ClientRevocationImmediate`
  is about behaviours in which no two handlers have overlapped so far; of the others
  only `RevokedClientLosesAccess` speaks.
- *LLM budget*: the global sum is read before the unit is counted, and the keyed
  counter is written from the loaded value. Overlapping calls can pass a cap, and
  can lose an increment. `WithinCaps` is conditioned; `RefusedOnlyWhenSpent` and
  `KeylessExact` are not.
- *Ingest*: an upload of a membership report that loaded the report's import row before
  another upload of it landed, and that the guard then refuses, puts "needs_review" over
  the "ok"; sent again, the report lands again, as often as that repeats. `LandsOnce`
  says that a message lands twice only if it is a membership report of which an upload
  came while another was at work (`raced`). Two
  finance snapshots that overlap both stay current, and
  `current_report` then raises; two membership reports that overlap leave the union.
  That nobody on the last report is off the roster, `GuardHolds`, and "never no current
  snapshot" hold always.
- *Email capture*: two sends of one message that overlap leave two rows, and every
  later send of it is a 500. `CapturedOnce` bounds the rows by the overlap.
- *Draw*: a month that was closed by force while it ran, or that ended with a play
  uncommitted, may be won by somebody else than its final top.
- *Email pipeline*: a mail delivered while a run of it is at work is drafted, charged
  and decided again. So is one whose draft could not be logged, also over a status
  that was set since, although `pipeline.py:134` calls re-running the decision on a
  retry safe; `SettledMailRests` is about mails whose draft is logged.
- *Agenda*: two first shares that overlap mint two tokens, and the invitees of the
  first have a dead link. A first share that a lock overtakes writes "shared" over it.
- *Files*: an object outlives its row after a failure, and when an image is compressed
  again while it is deleted. A row outlives its objects when the delete fails between.
- *Tasks*: two replacements of the owners that overlap can mix, or one of them fails on
  the unique key; the next that runs alone puts them right. A handler that dies
  before its notice, or a notice that is lost, is never made up for.
- *Records*: a request that finds an attribute as it asks does not write it, so the
  value of another that changes it meanwhile stands. Two requests that make one link
  race for the unique constraint, and the second gets an error although the tool is
  documented as idempotent.
- *Funnel*: a sponsor whose second commit failed has no lead, for good, because a
  retry takes the duplicate branch; a booking whose answer was lost, or that is moved,
  makes another lead.
- *Discord, reviews, budgets, links*: two claims of one user, two creations of a form,
  two budgets of one event, two requests that place one link: when they overlap, the
  loser is told of a success it did not have, a form is left at the service, the pair is
  mixed, the link stands elsewhere. A budget or an order is right again after the next
  request that runs alone (of the event, of the link). A forced form gives up the
  answers of the one before; a POST or a PATCH of an event may set a grant that no
  budget has, under plain `write` (`byHand`).

Other things the code does not promise, and the properties therefore do not say: two
submits that meet at midnight hold different locks, so the points *by the day of
`played_at`* may exceed the cap, while those of a round never do (`DailyLimits`); a
delayed older report replaces a newer one (`RosterIsLastReport` speaks of the order
of landing); a close that dies before it opens the next cycle leaves that to the next
GET `/draw`, which opens a missing one, so nothing is lost with it
(`games/draws.py:177`).

Where a comment promises more than a model found, without a run of its own:
`mcp/catalog.py:367`, the comment at its scope summary and the guide say that a plain
`read` or `write` key covers the isolated sponsors and finance tools, while
`has_scope` refuses them (`GuideHonest` is about the list of tools, which is computed
with `has_scope`, and not about SCOPE_SUMMARY, `catalog.py:31-37`, or that comment, which
it would contradict); the guide says that uploads are not available although `upload_media`
is; its recipes name tools that a key without their scope cannot call; the slugs of
team members are called stable and unique (`website/router.py:810`), and the slug of a
second "Ann" is that of a person called "Ann 2", and changes when the first is hidden.

## The runs

`tlc -workers 2 -config <run>.cfg <module>` with the module of the table. Every
module declares its own bounds as constants; a bound cuts off new work (no further
arrival, no free id), never a step of a handler that is under way.

| Run, module | Instance | States | What it shows |
|---|---|---|---|
| `ApiKeys`, `MCApiKeys` | a hub key older than expiry with blanket write and `read:finance`, two keys to be minted, one owner, cap 1, two requests, three scope sets that differ in coarse, module and isolated scopes | 0.55 M | `RevocationReachesDescendants`, `LineageCoversScopes`, `OutstandingCap`, `NoLockCycle`, `RevocationTakesTree` |
| `OAuthTokens`, `MCOAuthTokens` | one client, user and code, three pairs (the code's, and two from one refresh token, or a chain), two requests | 0.95 M | `SingleUse`, `SpentBeforeIssued`, `OneLivePair` |
| `OAuthLive`, `MCOAuthTokens` | two pairs, a treasurer (with `finance` to write and the module `events` that has no scope of its own) whose role query may fail, a refresh that asks for `read:finance`; `FairSpec` | 0.5 M | `ScopesWithinConsent`, `ClientRevocationImmediate`, `RevokedClientLosesAccess` |
| `Gateway`, `MCGateway` | `part` chooses the limiter (one bucket, three requests, limit 2, three windows, the prune spares two) or the budget (two API keys and the pipeline, three requests, cap 2 for a key and 3 in all, five calls) | 88 k | `NoLostIncrement`; the limiter implements `RequestQuota`; `RefusedOnlyWhenSpent`, `CountersHold` |
| `GameLedger`, `MCGameLedger` | Codle with two guesses and Flappy Duck, cap 3, three arrivals, two requests, two days; `FairSpec` | 0.37 M | `DailyLimits`, `OneBoard`, `FinishedIsFinal`, `SubmitsEnd` |
| `MonthlyDraw`, `MCMonthlyDraw` | two players, two months, three plays, two closers, forced or not | 2.3 M | `WinnerIsTop`, `ClosedIsFinal` |
| `Ingest`, `MCIngest` | seven workbooks (a roster of two, one exchanged that lists the new student twice, shrunk, empty, two snapshots, unreadable), three students, two requests, five uploads, two failures | 1.7 M | `LandsOnce`, `RosterIsLastReport`, `OneCurrentLedger`, `GuardHolds` |
| `Workspace`, `MCWorkspace` | `part` chooses one of sixteen components, each with two requests and the bounds below; the fairness of the capture | 0.93 M | `RepeatsCountOnce`, `OnlyTheEntitled`, `OnlyThePublicShown`, `AddressesHold`, `LastRequestHolds`, `PlacesAgree`, `EveryMessageProcessed`, `SettledStays` |
| `TriggerOAuth`, `IngestGutted`, `EmailCaptureLost`, `PageType` | see below | | four disagreements of the code with what is written about it |

`MCWorkspace` only names the sets. The properties of `Workspace` are conjunctions, one
conjunct for each component that has the hazard:

| Property | Conjuncts |
|---|---|
| `RepeatsCountOnce` | `EmailCapture!CapturedOnce`, `EmailPipeline!DraftedOnce`, `FlagshipSignup!LeadOnce`, `FlagshipSignup!NoBookingLost` |
| `OnlyTheEntitled` | `Access!GuideHonest`, `Access!SurfacesAgree`, `Access!EntitledOnly`, `Access!IsolatedModules`, `EmailPipeline!MovedByMatch` |
| `OnlyThePublicShown` | `WebsiteFeed!NothingUnpublishedShown`, `WebsiteFeed!FlagshipKeepsSecret`, `Projects!PublicIsApproved` |
| `AddressesHold` | `Pages!OnePagePerAddress`, `Pages!PreviewAgrees`, `Projects!OneProjectPerSlug`, `Agenda!LinkStable`, `ReviewForm!LinksCollect` |
| `LastRequestHolds` | `Records!NothingReverted`, `Assignment!OwnersOfLastRequest`, `EventBudget!GrantFollowsBudget`, `DiscordLink!LastClaimHolds`, `LinkTree!OrderAsAsked` |
| `PlacesAgree` | `StoredFiles!RowsAreBacked`, `StoredFiles!NoStrays`, `Minutes!MinutesTogether`, `Assignment!AssigneeTold` |
| `SettledStays` | the steps of `EmailPipeline!SettledMailKept`, `Agenda!LockKept`, `Records!ClearedAsAsked`, `LinkTree!TitleKept` |

Each conjunct is violated by a faulty form among the mutants. In the `Gateway` run,
`RefusedOnlyWhenSpent` is that of `TriggerBudget` with its `NeverUnavailable`, and
`CountersHold` its types with `KeylessExact` and `WithinCaps`. The runs `TriggerOAuth`,
`EmailCaptureLost` and `PageType` check a module as it is, without an `MC` module.

The bounds of the parts: two messages and three faults; four mails (of DUSA and clear,
of a stranger, ambiguous, spam) and one of
`/public/draft` in the name of DUSA, two events, three deliveries, one edit; two documents
with one free and one reserved slug, three patches; one agenda with two tokens; three
answers of the model; one image and one attachment; two people, three updates of a
task (the fewest that can leave somebody untold); eleven kinds of credential; one
record with two attributes, of which one takes a blank for NULL, and three writes; one visit of a page and one edit of each
condition; one sponsor and one booking, four sends; two accounts, one Discord user,
four claims; two projects, one slug, three writes; three forms; two budgets, two
rates; two links, two positions, an order of one link and one of both, two
titles, three writes.

Why the bounds are enough to be interesting: every race the hazards name takes two
handlers, and three where a third must see what the first two left (the limiter's
rows, the day's first trigger). Three keys are a parent, a child and a grandchild, so
that a cascade has two levels with a mint at either. Three pairs are the shortest
case in which a refresh token buys two successors. Two days and two months have one
boundary each to be crossed by a request. Caps are reached and passed: three
arrivals against a cap of three points worth two each, five calls against three.
The passing runs between them fire every action.

Deadlock is checked everywhere but in `Workspace`, where a part stops when its bounds
are used up or its inbox is empty, and in the violation runs of two of its parts.

### Findings

- `TriggerOAuth`: `generate_meeting_notes` charges the token id of a login through
  OAuth as if it were an API key's id (`mcp/server.py:1256`). When no key has that
  id, the INSERT fails on the foreign key, no row is found, and the caller gets the
  503 of `NeverUnavailable` for good. When a key has that id, the call is charged to
  that key.
- `IngestGutted`: the guard counts rows that have a name and no student id; the
  upsert skips them. A report with its id column renamed passes the guard and
  empties the roster (`NeverGutted`).
- `EmailCaptureLost`: `log_event` swallows a failed INSERT, the endpoint answers 200,
  and the script marks the message for good (`ProcessedIsCaptured`).
- `PageType`: `_enforce_page_type` looks at the body of a request and not at the row. A
  PATCH that names a type and no slug makes a note of a page that keeps its slug: the
  feed serves it, the preview answers 404 (`PagePreviewable`), although
  `documents/service.py:124` says the two can never disagree. Everything else keeps
  them together (`PreviewAgrees`).

### Fairness

Safety needs none. Three specifications assume some:

- `GameLedger!FairSpec`: strong fairness of each submit's own statements. A
  statement that can run is run by the worker; the only one that waits is the
  advisory lock, and Postgres queues its waiters, so a lock that comes free again and
  again is granted in the end. Being killed or refused is not assumed ever to happen.
- `OAuthTokens!FairSpec`: weak fairness of a handler's next statement (none waits
  for another handler), and that the hour of an access token passes.
- `EmailCapture!FairSpec`, and the same in `Workspace!FairWorkspaceSpec`: the trigger of
  the script fires again (strong fairness of sending a message it has not marked: it may
  be busy with another one in between), and a handler that is not killed answers. Faults
  are bounded, by the bound of the model: with faults for ever nothing can be promised.
  The script searches mail of the last two days and takes the first fifty
  (`newer_than:2d`, `Code.gs`); the fairness takes for granted that a message is tried
  again while it is in that window, so an outage of two days is outside the claim.

## What is proved

TLAPS checks these for every value of the constants, under the named assumptions of
the modules (which TLC evaluates in each run). Nothing else is assumed. Each module of
proofs has the same shape: an invariant that says, besides the property, what a handler
at work may rely on; one lemma for each action; and the theorems at its end.

**ApiKeysProofs.** From the assumptions `LegacyAssumption`, `NullAssumption`,
`ScopesAssumption` and `CapAssumption`, for any number of keys, owners and requests
in flight. `TypeCorrect`, `RevocationIsComplete`, `ScopesNeverGrow`,
`RevocationTakesTheTree`, `OutstandingIsCapped`, `WaitsEnd`.

The property "no descendant of a revoked key is live" is not inductive: it says
nothing of the handlers at work. The invariant `IInv` adds, per row, that a revoked
parent has revoked children and that a parent's scopes cover the child's (`RowOK`);
per mint, that from its second look on it holds the lock of a calling key that is
live (`MintOK`); per cascade, that it holds the lock of every row it has seen, and
that any child of such a row has been seen, is about to be locked, or is a child of
the frontier and will be found by the next select (`WalkOK`). The two last are what
the `db.refresh(.., with_for_update=True)` of `self_create_key` is for: a mint that
inserts holds its parent, so the parent is not in the `seen` of any cascade, and the
new row is either under a live key nobody is revoking or will be found.
`Lineage(k)` is the least set that holds k and is closed under parents;
`RevocationIsComplete` takes for it the set of keys that are not revoked, and
`ScopesNeverGrow` the set of keys whose scopes cover k's, with the transitivity of
`Covers`, a lemma about the scope algebra with its isolated modules.
`OutstandingIsCapped` needs a second invariant (`CountInv`): a mint that has passed
the count still has room, because every other mint of that caller waits for the same
row.

`WaitsEnd` is `NoLockCycle`. A lock is held by a mint past its lock, which waits for
nobody, or by a cascade that has seen the row (`HoldOK`). A cascade waits for a child
`c` of a row it has seen; who holds `c` and not its parent must be a cascade that
*started* at `c`, since whatever a cascade has seen beyond its target it reached from
the parent (`TreeOK`). So if everybody waited, every cascade's target would have the
target of another cascade properly below it; but among the targets, as among any
rows, there is one that no other is below (`Deepest`, which holds because a row is
inserted as a leaf and never changes its parent). No finiteness is assumed.

`RevocationTakesTheTree` compares what a cascade *does* at its commit with the tree as
it is *then*: all that has been minted below the target, and nothing above or beside
it. That nothing else is taken is `TreeOK` (what a cascade has seen lies below its
target, which it has seen); that nothing is left is `RevocationReachesDescendants` after
the step, which needs the argument about mints above; and that a revoke for an owner
began at a key of that owner is one more invariant (`LabelInv`).

**OAuthTokensProofs.** From `NilAssumption` and `RowAssumption` (a column that is empty
names no row, and is no row) and `RequestAssumption`, for any clients, accounts, roles,
codes and tokens, and any number of handlers in flight. `GrantsAreTyped`,
`SpendingComesFirst`, `ConsentBoundsScopes`, `PaymentsBuyOnce`, `ConsentHasOneLivePair`,
`RevocationIsImmediate` (the last three for finitely many handlers, as
`RequestAssumption` says).

What a pair owes to its code and to the pair before it is in rows other handlers may
write meanwhile. The argument is that these rows only grow (`Grow`): no step takes a
row away, changes its client, account or scopes, or makes a used code or a revoked
pair fresh again. So `IInv` can say of each handler what it has read or made sure of
(`LocalOK`: at `rotate` the scopes are within the presented pair's, at `issue` the
code is used and the presented pair is revoked), and that stays true while it waits;
`TokenOK` says the same of every pair in the table, and the row a handler inserts has
it from `Entitled`. `Kept` puts this together once: each action only has to show that
it grows the tables and leaves its own handler in order. That a handler which dies
leaves its commits behind is part of the statement, `Abort` is a step like any other.

The three counting properties have an invariant of their own (`JInv`). Of a code or a
refresh token it counts the pairs that were bought with it together with the handlers
that are past the check and may still buy one: the sum never exceeds the handlers there
are, since a payment that has bought a pair is spent and nobody new gets past the
check. As long as no two handlers have overlapped, all but one are idle, and what the
one has read is what the tables say (`Alone`, `AloneOK`): then the sum is one, a new
pair finds the old one revoked, and a revocation finds all the pairs there are.

**GatewayProofs.** From `LimitAssumption` and `WindowAssumption`, for any number of
buckets, requests and windows and any limit. `Inductive`, `TypeCorrect`,
`EveryIncrementCounts`, `LimiterImplementsQuota`; with `GatewayAssumption`,
`OnlyLoginsUnavailable`, `GatewayRefusesRightly` and `GatewayCounts`.

`IInv` is the type invariant with `NoLostIncrement` and, per request, that its window
is not in the future and that the row which made its INSERT fail is still there if
its minute still runs, since the prune spares the current one (`WindowOK`). A
statement of a request has one of four effects (`Moves`, `Counts`, `CountsLate`,
`Leaves`), and each of them is a step of the quota or a stutter: `Counts` admits while
the count is within the limit and refuses above it, `CountsLate` is a request whose
minute is over and whose row was pruned.

`OnlyLoginsUnavailable`, `GatewayRefusesRightly` and `GatewayCounts` are about the day's
budget, for any keys, logins, handlers in flight and caps (there are finitely many keys
and logins, and the caps are positive). A counter means something only in comparison
with the calls that were let through (`calls`, a history). `BudgetInv` says that a
counter never runs ahead of them, neither in its row nor as a handler has loaded it
(`CountersBehind`), that the calls of the rows together are the calls of the day
(`AllCharged`), and, as long as no two handlers have overlapped, that the counters are
exact and the one handler at work is past a check that still holds (`Alone`).
`OnlyLoginsUnavailable` bounds what the run `TriggerOAuth` finds: the 503 meets a login
whose id is no API key's, and nobody else.

**GameLedgerProofs.** From `NilAssumption`, `SubmissionAssumption`, `EngineAssumption`
and `BoundAssumption`, for any engine, any submits in flight and any number of days.
`TypeCorrect`, `DailyLimitsHold`, `OneBoardHolds`, `FinishedStays`.

`SubmitOK` is what the advisory lock is for: from its read of the rows to its commit a
submit holds the lock of its day, so the rows of its round are those it has read, the
board it goes on with is still open, and the points it has decided on still fit under
the cap. A write changes one round (`AfterWrite`), and whoever else has decided by then
decides about another day.

**MonthlyDrawProofs.** From `DrawAssumption`, for any number of players, months and
closes in flight. `TypeCorrect`, `WinnerHolds`, `ClosedStays`.

A month is settled unless it was closed by force while it ran or ended with a play
uncommitted. `IInv` says of a settled month that is over that no play of it is still to
commit, so a close that has read its standings has read the final ones (`CloserOK`),
and all who write the winner write the same. `TopIsTop` is the lemma that the roll-up
finds a maximum.

**IngestProofs.** From `WorkbookAssumption` (a workbook lists finitely many students)
and `NilAssumption`, for any students, workbooks, uploads and failures. `TypeCorrect`,
`MessagesLandOnce`, `RosterHolds`, `LedgerHolds`, `RosterIsGuarded`.

An upload that has its import row written keeps every other upload of its message
waiting (`Writers`). The status it loaded before is still that of the table unless
another upload of the message came meanwhile, and for a snapshot it is "none" in any
case (`FoundStill`); a message that landed is "ok" in the table unless an upload of a
report that raced was refused since (`LandedIsOk`). `Snapshots` and `NewestIsCurrent`
do the same for the rows that an UPDATE of all of them finds. The proof found the
property wanting: an earlier `LandsOnce` bounded the landings of a message by the
number of requests in flight, which three messages and seven uploads violate, more than
the run has. The property now says which messages may land again.

**WorkspaceProofs.** From `WorkspaceAssumption`, which asks of the constants what the
sixteen modules ask (Nil and Keep are no values, bounds are numbers, a score is a
percentage, credentials are sets of scopes; the requests of the capture are finitely
many, because its property counts them), for any sets of requests, rows, values,
credentials and orders. `WorkspaceTyped`, `RepeatsCount`, `EntitledOnly`, `PublicOnly`,
`AddressesLead`, `LastRequestStands`, `PlacesKeepTogether`, `SettledIsKept`.

A step of the workspace is a step of the part that is explored or leaves its variables
alone (`WorkspaceMoves`), so `WorkspaceInv` is one inductive invariant for each part, and
the theorems read the properties off them. Few of the properties are inductive as they
stand; what the others need besides is what the handlers at work hold:

| Part | Its invariant, besides types and the property |
|---|---|
| `capture` | The rows of a message and the requests that are about to insert one are together at most the requests there are. Unless sends overlapped, a message has one request, and it inserts only while there is no row (`CaptureOneSend`). |
| `pipeline` | A run that is about to move an event holds a mail that vouches for the move (`PipelineVouched`). A mail whose deliveries never overlapped has one run, and its drafts and those that could not be logged account for its answers (`PipelineOneRun`). |
| `pages` | No two documents share a slug (`PagesSlugsApart`). An edit that brings a slug or a type goes with the row it will meet, unless the document was retyped (`PagesPageGoesWith`): that is what `_enforce_page_type` is for, and `PagesBodyGoesWith` says what it makes of a body. |
| `agenda` | A row with a token is no draft, nor is one that a share at work is about to be told of (`AgendaLinksOpen`). Unless two first shares raced, one request draws the token, before any link is handed out (`AgendaOneToken`). Once locked, no edit and no first share is at work, or one was overtaken. |
| `minutes` | Each answer of the model is logged, lost, or held by a call that has still to commit it (`MinutesWorking`); documents and notes are of logged answers. |
| `files` | For each file that nothing has interrupted and no two handlers have raced for: what the bucket holds at every step of a request that is at work on it (`FilesStepOK`), and that it holds what the row names when none is (`FilesResting`). |
| `assignment` | A replacement that nobody has overlapped works on the owners there are, and no other is under way (`AssignmentReplaces`, `AssignmentApart`). Whoever is untold will be told by a request still at work (`AssignmentTeller`). |
| `access` | Each table of tools and routes is compared, feature by feature, with the catalogue (`AccessListed`), with the other surface (`AccessPaired`) and with the scopes of the feature's module (`AccessGuarded`: what shows a record asks for one of them, what changes it for the write scope). By `AccessGuarded` each call keeps `EntitledOnly`, for all sets of scopes a credential may have; `IsolatedModules` follows from it. A name is in the catalogue once (`AccessCatalogOnce`). |
| `records` | What a handler will write is what its body asks, or nothing; a body that clears an attribute came over REST or blanked it (`RecordsEditOK`). |
| `feed` | What is open now is among what was open at some moment of the visit, and a visit that goes on to the item of a flagship without the secret kept has seen the specifics open. |
| `funnel` | A sponsor has a lead, or exactly one request that will make it, or missed it (`FunnelOneLead`). A booking is answered only with its lead made. |
| `discord` | Unless two claims of one user overlapped, one is at work, and what it has loaded is what stands (`DiscordAloneAtWork`). |
| `budget`, `links` | A request that nobody has overlapped (on the event, on a link) will write what makes the row as it asks, and no other is at work there (`BudgetWriterOK`, `BudgetApart`; `LinksPlacing`, `LinksApart`). The others have their link, or the event, among the mixed. |
| `projects` | That a request at work names a project. The properties are the unique slug and the CHECK constraint, which every commit has to pass. |
| `review` | Unless a form was spoilt, every form that was created is stored or with the one request about to store it, and no link is out before (`ReviewOneForm`). |

`SettledIsKept` is the four action properties, from the same invariants: a mail whose
draft is logged has no run left that could move an event, a lock finds no edit at work
(or the history says so), an attribute is cleared only by a body that nulls or blanks it,
and a header loses its title only to a request that clears it.

**FiniteLemmas.** What several of these proofs need of finite sets: a greatest element,
and the sum of a column over the rows of a table (`SumFunctionOnSet`), with a row more,
a row less, a row updated, entries compared. The provers cannot instantiate the
library's induction theorems, whose parameter is an operator; `SmallestCounterexample`
is the induction over finite sets with the *set* of counterexamples in the place of the
operator.

Only model-checked: the liveness properties, since the prover has no rule for fairness
(`SubmitsEnd`, `RevokedClientLosesAccess`, `EveryMessageProcessed`), and the four
disagreements, which are counterexamples. Every invariant and every action property of
the passing runs is proved. `ImplementsQuota` is proved as the refinement of a safety
specification.

## What is not modelled, and why

- The bodies of pure functions that decide nothing about state: the word list and
  board of Codle, the geometry of a Flappy Duck run, workbook parsing, HMAC codes,
  PKCE, image processing, the similarity of two texts, page blocks (which drops unknown
  keys of a JSON document). Where a property depends on one, its outcome is a choice
  or a constant (a valid or an invalid submission, a workbook that parses or not, a
  score).
- Listings, leaderboards, statistics, the archive export, the dashboard: reads of
  committed rows. The public feed is modelled, because what it leaves out matters.
- The sums of the finance summary and the parsing of review answers: pure reads.
- Positions of tasks in a column: nothing depends on their being distinct.
- Outside services (language models, object storage, Tally, Gmail beyond the script's
  loop, Cal.com) are modelled by what the code sees of them: they answer, fail or are
  lost.
- `last_used_at` and the audit events of the GUI, which nothing reads back for a
  decision, except the captured mails and the drafts.
- The settings, the header checks, logging and the wiring of the application: no state.
- Migrations and seeds, which run alone.

## The plan

Modelled by now: everything of the survey that has state. What is left of the models:
the workbook of `Ingest` as a sequence of rows with names and dates, the forwarder's
own labels, `last_used_at` as a write that can fail, the positions of tasks.

Proved by now: every safety property that a passing run checks. An abstract roster and
an abstract ledger of points are worth stating, for `Ingest` and `GameLedger` to
implement as `RequestLimiter` implements `RequestQuota`.
