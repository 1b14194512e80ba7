--------------------------- MODULE EmailPipeline ----------------------------
(* The email agent: POST /email/process, `run_pipeline` of                  *)
(* app/features/email/pipeline.py.  A mail passes a spam gate and the cap   *)
(* of the day, is classified, may move the DUSA status of one event         *)
(* (email/actions.py, email/matching.py), and is answered with a draft.     *)
(* Gmail's script may deliver a mail again at any time, also while a run    *)
(* of it is at work; the models answer what they like.  POST /public/draft  *)
(* runs the same pipeline on a mail that the holder of a key has written.   *)
EXTENDS Integers, FiniteSets

CONSTANTS
  Mail, Event, Status, Request, Nil,
  Marks,        \* the spam marks on a mail, of SpamMark
  Score,        \* how well the name of an event fits a mail, in percent
  Supplied,     \* the mails that the holder of a key writes, sender and all
  Trusted,      \* the mails whose sender is of an authorised DUSA domain
  DELIVERIES, EDITS   \* bounds of the model

SpamMark == {"no-reply", "keyword", "marketing", "too long", "empty", "links"}

PipelineAssumption ==
  /\ Nil \notin Mail \cup Event \cup Status
  /\ Marks \in [Mail -> SUBSET SpamMark]
  /\ Score \in [Mail -> [Event -> 0 .. 100]]
  /\ Trusted \subseteq Mail /\ Supplied \subseteq Mail
  /\ DELIVERIES \in Nat /\ EDITS \in Nat

VARIABLES
  maker,       \* the decision maker: "off", "dry run" or "live"
  dusa,        \* dusa_submission_status of the events
  archived,    \* the archived events
  drafted,     \* the mails with a "draft" row in event_log
  answered,    \* history: how often a mail was answered with a draft
  unlogged,    \* history: how often the row of such a draft failed
  movedBy,     \* history: the mail that set the status of an event last
  moves,       \* history: how often a mail set a status
  overlapped,  \* history: the mails delivered while a run of them was at work
  deliveries, edits,  \* history
  req

vars == <<maker, dusa, archived, drafted, answered, unlogged, movedBy, moves, overlapped,
          deliveries, edits, req>>
events == <<dusa, archived, movedBy, moves>>
outcome == <<drafted, answered, unlogged>>
environment == <<maker, overlapped, deliveries, edits>>

Phase == {"idle", "dedupe", "count", "classify", "decide", "apply", "draft", "log"}

Idle == [phase |-> "idle", mail |-> Nil, event |-> Nil, status |-> Nil]

Init ==
  /\ maker \in {"off", "dry run", "live"}
  /\ dusa = [e \in Event |-> Nil]
  /\ archived = {}
  /\ drafted = {}
  /\ answered = [m \in Mail |-> 0] /\ unlogged = [m \in Mail |-> 0]
  /\ movedBy = [e \in Event |-> Nil] /\ moves = [m \in Mail |-> 0]
  /\ overlapped = {}
  /\ deliveries = 0 /\ edits = 0
  /\ req = [r \in Request |-> Idle]

At(r, phase) == req[r].phase = phase

Go(r, phase) == req' = [req EXCEPT ![r].phase = phase]

(* `_ignore`, and `process_email`, which turns every exception into it.     *)
Ignore(r) == req' = [req EXCEPT ![r] = Idle]

-----------------------------------------------------------------------------
(* `is_spam_or_noreply`: any one mark is enough.                            *)
Spam(m) == Marks[m] # {}

(* `match_event`: the best fit, unless a plausible second is too close.     *)
AMBIGUITY_FLOOR == 55
AMBIGUITY_MARGIN == 8

Best(m, among) == {e \in among : \A f \in among : Score[m][f] <= Score[m][e]}

Ambiguous(m, top, among) ==
  \E f \in among \ {top} :
    /\ Score[m][f] >= AMBIGUITY_FLOOR
    /\ Score[m][top] - Score[m][f] < AMBIGUITY_MARGIN

Matches(m) ==
  LET among == Event \ archived IN {e \in Best(m, among) : ~ Ambiguous(m, e, among)}

(* EMAIL_MATCH_MIN_CONFIDENCE.                                              *)
MIN_CONFIDENCE == 80

(* Faulty form: the model's own event is believed.                          *)
MayMoveUnmatched(m, e, named) ==
  e = named /\ m \in Trusted /\ maker = "live"

(* `execute_decision`: mail m moves event e, where `named` is the event the *)
(* model has named, if any.  In every other case the proposal is flagged,   *)
(* or only audited.                                                         *)
MayMove(m, e, named) ==
  /\ e \in Matches(m)
  /\ named \in {e, Nil}
  /\ Score[m][e] >= MIN_CONFIDENCE
  /\ m \in Trusted
  /\ maker = "live"

-----------------------------------------------------------------------------
Receive(r, m) ==
  /\ At(r, "idle")
  /\ deliveries < DELIVERIES
  /\ deliveries' = deliveries + 1
  /\ overlapped' = overlapped \cup (IF \E q \in Request : req[q].mail = m THEN {m} ELSE {})
  /\ req' = [req EXCEPT ![r] = [Idle EXCEPT !.phase = "dedupe", !.mail = m]]
  /\ UNCHANGED <<events, outcome, maker, edits>>

(* POST /email/process, from Gmail's script.                                *)
Deliver(r, m) == m \notin Supplied /\ Receive(r, m)

(* POST /public/draft: the call has been counted against its key, which     *)
(* TriggerBudget models.                                                    *)
DraftRoute(r, m) == m \in Supplied /\ Receive(r, m)

(* Faulty form: mails that come again are not noticed.                      *)
DedupeNothing(r) ==
  /\ At(r, "dedupe")
  /\ IF Spam(req[r].mail) THEN Ignore(r) ELSE Go(r, "count")
  /\ UNCHANGED <<events, outcome, environment>>

(* `_already_processed`: only a draft counts, and a mail of /public/draft   *)
(* never does, nor does it meet the cap; then the spam gate.                *)
Dedupe(r) ==
  /\ At(r, "dedupe")
  /\ IF req[r].mail \in drafted \/ Spam(req[r].mail)
       THEN Ignore(r)
       ELSE Go(r, IF req[r].mail \in Supplied THEN "classify" ELSE "count")
  /\ UNCHANGED <<events, outcome, environment>>

(* The cap of the day, which TriggerBudget models, lets the mail through or *)
(* not.                                                                     *)
Count(r) ==
  /\ At(r, "count")
  /\ Go(r, "classify") \/ Ignore(r)
  /\ UNCHANGED <<events, outcome, environment>>

(* The model fails, or needs no answer (fyi-no-reply), or there is one.     *)
Classify(r) ==
  /\ At(r, "classify")
  /\ Go(r, IF maker = "off" THEN "draft" ELSE "decide") \/ Ignore(r)
  /\ UNCHANGED <<events, outcome, environment>>

(* `_run_decision`: the model proposes a status for an event, or nothing,   *)
(* or fails; the executor matches the mail against the events of now.       *)
Decide(r) ==
  /\ At(r, "decide")
  /\ \/ \E e \in Event, named \in Event \cup {Nil}, s \in Status :
          /\ MayMove(req[r].mail, e, named)
          /\ req' = [req EXCEPT ![r].phase = "apply", ![r].event = e, ![r].status = s]
     \/ Go(r, "draft")
  /\ UNCHANGED <<events, outcome, environment>>

(* `set_dusa_status`, its own commit.                                       *)
Apply(r) ==
  LET m == req[r].mail  e == req[r].event IN
  /\ At(r, "apply")
  /\ dusa' = [dusa EXCEPT ![e] = req[r].status]
  /\ movedBy' = [movedBy EXCEPT ![e] = m]
  /\ moves' = [moves EXCEPT ![m] = @ + 1]
  /\ req' = [req EXCEPT ![r] = [Idle EXCEPT !.phase = "draft", !.mail = m]]
  /\ UNCHANGED <<archived, outcome, environment>>

Draft(r) ==
  /\ At(r, "draft")
  /\ Go(r, "log") \/ Ignore(r)
  /\ UNCHANGED <<events, outcome, environment>>

(* `log_event` may fail, which it hides; the draft is returned anyhow.  The *)
(* row of a mail of /public/draft has an id that no mail of Gmail has.      *)
LogDraft(r) ==
  LET m == req[r].mail IN
  /\ At(r, "log")
  /\ \/ drafted' = drafted \cup ({m} \ Supplied) /\ UNCHANGED unlogged
     \/ unlogged' = [unlogged EXCEPT ![m] = @ + 1] /\ UNCHANGED drafted
  /\ answered' = [answered EXCEPT ![m] = @ + 1]
  /\ req' = [req EXCEPT ![r] = Idle]
  /\ UNCHANGED <<events, environment>>

(* The worker dies.                                                         *)
Die(r) ==
  /\ ~ At(r, "idle")
  /\ Ignore(r)
  /\ UNCHANGED <<events, outcome, environment>>

(* The committee on its dashboard: `update_event`, `archive_event`.         *)
EditEvent(e) ==
  /\ edits < EDITS
  /\ edits' = edits + 1
  /\ \/ \E s \in Status : dusa' = [dusa EXCEPT ![e] = s] /\ UNCHANGED archived
     \/ archived' = archived \cup {e} /\ UNCHANGED dusa
     \/ archived' = archived \ {e} /\ UNCHANGED dusa
  /\ movedBy' = [movedBy EXCEPT ![e] = IF dusa' = dusa THEN @ ELSE Nil]
  /\ UNCHANGED <<moves, outcome, maker, overlapped, deliveries, req>>

Next ==
  \/ \E r \in Request, m \in Mail : Deliver(r, m) \/ DraftRoute(r, m)
  \/ \E r \in Request :
       \/ Dedupe(r) \/ Count(r) \/ Classify(r) \/ Decide(r) \/ Apply(r)
       \/ Draft(r) \/ LogDraft(r) \/ Die(r)
  \/ \E e \in Event : EditEvent(e)

Spec == Init /\ [][Next]_vars

-----------------------------------------------------------------------------
TypeOK ==
  /\ dusa \in [Event -> Status \cup {Nil}]
  /\ archived \subseteq Event
  /\ drafted \subseteq Mail
  /\ movedBy \in [Event -> Mail \cup {Nil}]
  /\ req \in [Request -> [phase : Phase, mail : Mail \cup {Nil}, event : Event \cup {Nil},
                          status : Status \cup {Nil}]]
  /\ \A r \in Request : At(r, "idle") <=> req[r].mail = Nil

(* One draft for a mail of Gmail, however often it is delivered and runs of *)
(* it die: only a draft whose row failed, and deliveries that overlap,      *)
(* leave more.                                                              *)
DraftedOnce ==
  \A m \in Mail \ (overlapped \cup Supplied) : answered[m] <= 1 + unlogged[m]

(* Whatever the model proposes, the agent only moves an event that a mail   *)
(* of DUSA fits well enough, and never in a dry run (`execute_decision`).   *)
(* (For a mail of /public/draft "of DUSA" is what its writer claims.)       *)
MovedByMatch ==
  \A e \in Event : movedBy[e] # Nil =>
    /\ maker = "live"
    /\ movedBy[e] \in Trusted
    /\ Score[movedBy[e]][e] >= MIN_CONFIDENCE

(* A mail whose draft is logged never moves an event again, so a delivery   *)
(* that comes after it cannot undo what the committee, or a later mail, has *)
(* set.  (One whose draft failed decides again, also over a later status.)  *)
SettledMailKept == \A m \in drafted \ overlapped : moves'[m] = moves[m]

SettledMailRests == [][SettledMailKept]_vars

============================================================================
