------------------------------- MODULE Ingest -------------------------------
(* The weekly DUSA workbooks: POST /ingest/dusa, `handle_dusa_upload` of    *)
(* app/features/ingest/service.py.  A membership report replaces the        *)
(* roster, a profit and loss report the finance snapshot.  The Gmail        *)
(* forwarder sends a message again until it is answered 2xx or 409.         *)
(*                                                                          *)
(* Uploads interleave at their statements (two workers).  An UPDATE of all  *)
(* rows that waits for another upload's locks still changes only the rows   *)
(* there were when it started.                                              *)
EXTENDS Integers, Sequences, FiniteSets

CONSTANTS
  Student,
  MESSAGES,      \* the messages are 1 .. MESSAGES, in the order they were received
  Workbook,      \* what the parser finds in the workbook of a message
  Request, Nil,
  FAILURES, UPLOADS   \* bounds of the model

Message == 1 .. MESSAGES

(* `members`: the student ids in it, `doubled` those listed twice;          *)
(* `unnamed`: rows without a student id.                                    *)
Parsed == [type : {"membership", "pnl"}, parses : BOOLEAN,
           members : SUBSET Student, doubled : SUBSET Student, unnamed : Nat]

ASSUME WorkbookAssumption ==
  /\ MESSAGES \in Nat /\ Workbook \in [Message -> Parsed]
  /\ \A m \in Message : IsFiniteSet(Workbook[m].members) /\ IsFiniteSet(Workbook[m].doubled)
  /\ FAILURES \in Nat /\ UPLOADS \in Nat

ASSUME NilAssumption == Nil \notin Request

VARIABLES
  imports,     \* status of the dusa_import rows
  rows,        \* the students with a row in members
  current,     \* those with is_current
  baseline,    \* total_members of the newest member_report, 0 for none
  ledger,      \* the finance_report rows: [message, current]
  writing,     \* who has an uncommitted dusa_import row
  override,    \* DUSA_INGEST_OVERRIDE
  landed,      \* history: the messages that landed, in order
  failures, sends,   \* history
  overlapped,  \* history: an upload came while another was at work
  raced,       \* history: the messages of which an upload came while one was at work
  req

vars == <<imports, rows, current, baseline, ledger, writing, override, landed, failures, sends,
          overlapped, raced, req>>
tables == <<imports, rows, current, baseline, ledger, landed>>
environment == <<override, failures, sends, overlapped, raced>>

Status == {"none", "ok", "failed", "needs_review"}

Phase == {"idle", "find", "flush", "guard", "sweep", "land", "flip", "insert"}

(* `found` is the status in the import row that was loaded; `students` and  *)
(* `reports` are the rows there were when the UPDATE of them all started.   *)
Local == [phase : Phase, message : Message \cup {0}, override : BOOLEAN, found : Status,
          students : SUBSET Student, reports : SUBSET Nat]

Idle == [phase |-> "idle", message |-> 0, override |-> FALSE, found |-> "none",
         students |-> {}, reports |-> {}]

Init ==
  /\ imports = [m \in Message |-> "none"]
  /\ rows = {} /\ current = {}
  /\ baseline = 0
  /\ ledger = <<>>
  /\ writing = [m \in Message |-> Nil]
  /\ override = FALSE
  /\ landed = <<>>
  /\ failures = 0 /\ sends = 0
  /\ overlapped = FALSE /\ raced = {}
  /\ req = [r \in Request |-> Idle]

At(r, phase) == req[r].phase = phase

Go(r, phase) == req' = [req EXCEPT ![r].phase = phase]

Book(r) == Workbook[req[r].message]

Total(r) == Cardinality(Book(r).members) + Cardinality(Book(r).doubled) + Book(r).unnamed

(* The session does not flush before a query: a student who is new and      *)
(* listed twice is not found the second time either, and inserted twice.    *)
InsertsTwice(r) == ~ (Book(r).doubled \subseteq rows)

(* Faulty form: the transaction of the last upload is left open.            *)
EndKeepsLock(r) == req' = [req EXCEPT ![r] = Idle] /\ UNCHANGED writing

(* The session is closed: what was not committed is rolled back.            *)
End(r) ==
  /\ req' = [req EXCEPT ![r] = Idle]
  /\ writing' = [m \in Message |-> IF writing[m] = r THEN Nil ELSE writing[m]]

-----------------------------------------------------------------------------
(* POST /ingest/dusa.                                                       *)
Upload(r, m) ==
  /\ At(r, "idle")
  /\ sends < UPLOADS
  /\ sends' = sends + 1
  /\ overlapped' = (overlapped \/ \E q \in Request : ~ At(q, "idle"))
  /\ raced' = IF \E q \in Request : req[q].message = m THEN raced \cup {m} ELSE raced
  /\ req' = [req EXCEPT ![r] = [Idle EXCEPT !.phase = "find", !.message = m,
                                                   !.override = override]]
  /\ UNCHANGED <<tables, writing, override, failures>>

(* Faulty form: a message that was ingested is ingested again.              *)
FindImportAnyStatus(r) ==
  /\ At(r, "find")
  /\ req' = [req EXCEPT ![r].phase = "flush", ![r].found = imports[req[r].message]]
  /\ UNCHANGED <<tables, writing, environment>>

(* 409 for a message that was ingested.                                     *)
FindImport(r) ==
  LET found == imports[req[r].message] IN
  /\ At(r, "find")
  /\ IF found = "ok"
       THEN End(r)
       ELSE req' = [req EXCEPT ![r].phase = "flush", ![r].found = found] /\ UNCHANGED writing
  /\ UNCHANGED <<tables, environment>>

(* `_upsert_import`, a new row or the one that was found.  A workbook that  *)
(* does not parse is recorded and committed at once; a second INSERT of the *)
(* message is an unhandled IntegrityError.                                  *)
RecordImport(r) ==
  LET m == req[r].message IN
  /\ At(r, "flush")
  /\ writing[m] = Nil
  /\ IF req[r].found = "none" /\ imports[m] # "none"
       THEN End(r) /\ UNCHANGED imports
     ELSE IF ~ Book(r).parses
       THEN End(r) /\ imports' = [imports EXCEPT ![m] = "failed"]
     ELSE /\ writing' = [writing EXCEPT ![m] = r]
          /\ Go(r, IF Book(r).type = "membership" THEN "guard" ELSE "flip")
          /\ UNCHANGED imports
  /\ UNCHANGED <<rows, current, baseline, ledger, landed, environment>>

-----------------------------------------------------------------------------
(* Faulty form: only an empty report is refused.                            *)
GuardRefusesEmpty(r) == Total(r) = 0

(* `_roster_guard_reason`: below 80 % of the last report, override or not   *)
(* when it is empty.                                                        *)
GuardRefuses(r) ==
  \/ Total(r) = 0
  \/ ~ req[r].override /\ 10 * Total(r) < 8 * baseline

(* A refused report is recorded for review, and that is all.                *)
Refuse(r) ==
  /\ At(r, "guard")
  /\ GuardRefuses(r)
  /\ imports' = [imports EXCEPT ![req[r].message] = "needs_review"]
  /\ End(r)
  /\ UNCHANGED <<rows, current, baseline, ledger, landed, environment>>

Pass(r) ==
  /\ At(r, "guard")
  /\ ~ GuardRefuses(r)
  /\ Go(r, "sweep")
  /\ UNCHANGED <<tables, writing, environment>>

(* UPDATE members SET is_current = false starts.                            *)
Sweep(r) ==
  /\ At(r, "sweep")
  /\ req' = [req EXCEPT ![r].phase = "land", ![r].students = rows]
  /\ UNCHANGED <<tables, writing, environment>>

(* Faulty form: nobody is taken off the roster.                             *)
LandRosterKeepsAll(r) ==
  LET members == Book(r).members IN
  /\ At(r, "land") /\ ~ InsertsTwice(r)
  /\ rows' = rows \cup members
  /\ current' = current \cup members
  /\ baseline' = Total(r)
  /\ imports' = [imports EXCEPT ![req[r].message] = "ok"]
  /\ landed' = Append(landed, req[r].message)
  /\ End(r)
  /\ UNCHANGED <<ledger, environment>>

(* Faulty form: the sweep comes after the upserts.                          *)
LandRosterSweepsLast(r) ==
  LET members == Book(r).members IN
  /\ At(r, "land") /\ ~ InsertsTwice(r)
  /\ rows' = rows \cup members
  /\ current' = (current \cup members) \ req[r].students
  /\ baseline' = Total(r)
  /\ imports' = [imports EXCEPT ![req[r].message] = "ok"]
  /\ landed' = Append(landed, req[r].message)
  /\ End(r)
  /\ UNCHANGED <<ledger, environment>>

(* It is done, then come the upserts by student id, without the rows that   *)
(* have none, the member_report row and the commit.                         *)
LandRoster(r) ==
  LET members == Book(r).members IN
  /\ At(r, "land") /\ ~ InsertsTwice(r)
  /\ rows' = rows \cup members
  /\ current' = (current \ req[r].students) \cup members
  /\ baseline' = Total(r)
  /\ imports' = [imports EXCEPT ![req[r].message] = "ok"]
  /\ landed' = Append(landed, req[r].message)
  /\ End(r)
  /\ UNCHANGED <<ledger, environment>>

(* members.student_id is unique: the commit fails, and so does every retry. *)
RefuseTwice(r) ==
  /\ At(r, "land") /\ InsertsTwice(r)
  /\ End(r)
  /\ UNCHANGED <<tables, environment>>

(* UPDATE finance_report SET is_current = false starts.                     *)
Flip(r) ==
  /\ At(r, "flip")
  /\ req' = [req EXCEPT ![r].phase = "insert", ![r].reports = DOMAIN ledger]
  /\ UNCHANGED <<tables, writing, environment>>

(* Faulty form: the last snapshot is not superseded.                        *)
LandLedgerKeepsOld(r) ==
  /\ At(r, "insert")
  /\ ledger' = Append(ledger, [message |-> req[r].message, current |-> TRUE])
  /\ imports' = [imports EXCEPT ![req[r].message] = "ok"]
  /\ landed' = Append(landed, req[r].message)
  /\ End(r)
  /\ UNCHANGED <<rows, current, baseline, environment>>

(* It is done, then come the INSERTs and the commit.                        *)
LandLedger(r) ==
  /\ At(r, "insert")
  /\ ledger' = Append([i \in DOMAIN ledger |->
                         [ledger[i] EXCEPT !.current = @ /\ i \notin req[r].reports]],
                      [message |-> req[r].message, current |-> TRUE])
  /\ imports' = [imports EXCEPT ![req[r].message] = "ok"]
  /\ landed' = Append(landed, req[r].message)
  /\ End(r)
  /\ UNCHANGED <<rows, current, baseline, environment>>

-----------------------------------------------------------------------------
(* The worker dies, or a statement fails: the transaction is rolled back.   *)
Abort(r) ==
  /\ ~ At(r, "idle")
  /\ failures < FAILURES
  /\ failures' = failures + 1
  /\ End(r)
  /\ UNCHANGED <<tables, override, sends, overlapped, raced>>

(* The service is deployed with the override on, or without it again; an    *)
(* upload has the setting of the process it came to.                        *)
SetOverride ==
  /\ override' = ~ override
  /\ UNCHANGED <<tables, writing, failures, sends, overlapped, raced, req>>

Step(r) ==
  \/ FindImport(r) \/ RecordImport(r)
  \/ Refuse(r) \/ Pass(r) \/ Sweep(r) \/ LandRoster(r) \/ RefuseTwice(r)
  \/ Flip(r) \/ LandLedger(r)

Next ==
  \/ \E r \in Request, m \in Message : Upload(r, m)
  \/ \E r \in Request : Step(r) \/ Abort(r)
  \/ SetOverride

Spec == Init /\ [][Next]_vars

-----------------------------------------------------------------------------
(* Types, and an uncommitted import belongs to the upload of that message.  *)
TypeOK ==
  /\ imports \in [Message -> Status]
  /\ rows \subseteq Student
  /\ current \subseteq rows
  /\ baseline \in Nat
  /\ ledger \in Seq([message : Message, current : BOOLEAN])
  /\ writing \in [Message -> Request \cup {Nil}]
  /\ override \in BOOLEAN
  /\ landed \in Seq(Message)
  /\ failures \in Nat /\ sends \in Nat
  /\ overlapped \in BOOLEAN /\ raced \subseteq Message
  /\ req \in [Request -> Local]
  /\ \A m \in Message : writing[m] # Nil => req[writing[m]].message = m

(* "Idempotent on the Gmail message_id": however often a message is sent,   *)
(* killed half way and sent again, it lands at most once, a snapshot even   *)
(* when its uploads overlap; only a roster that was refused and is sent     *)
(* again by uploads that overlap may land again (`handle_dusa_upload`).     *)
LandsOnce ==
  \A i, j \in DOMAIN landed :
    landed[i] = landed[j] /\ i # j =>
      landed[i] \in raced /\ Workbook[landed[i]].type = "membership"

(* Where a membership report landed, and the last one that did.             *)
Rosters == {i \in DOMAIN landed : Workbook[landed[i]].type = "membership"}
Newest(i) == \A j \in Rosters : j <= i

(* The current roster is the membership report that landed last, no more    *)
(* and no less: no half-swept roster is ever seen and nobody is left over   *)
(* from an older report (`_ingest_membership`), unless two uploads          *)
(* overlapped; and even then nobody on that report is off the roster.       *)
RosterIsLastReport ==
  /\ Rosters = {} => current = {}
  /\ \A i \in Rosters :
       Newest(i) =>
         /\ Workbook[landed[i]].members \subseteq current
         /\ current \subseteq Workbook[landed[i]].members \/ overlapped

(* There is one current snapshot as soon as there is one at all, as         *)
(* `current_report` of finance/service.py needs (scalar_one_or_none); two   *)
(* uploads that overlap may both stay current, never none.                  *)
OneCurrentLedger ==
  LET now == {i \in DOMAIN ledger : ledger[i].current} IN
  /\ ledger # <<>> => now # {}
  /\ Cardinality(now) <= 1 \/ overlapped

(* Without the override no upload replaces the roster by a report that has  *)
(* shrunk below 80 % of the one before it (`_roster_guard_reason`), and a   *)
(* report that is refused or does not parse changes nothing else.  Uploads  *)
(* that overlap may be compared with a report that is being replaced.       *)
GuardHolds ==
  [][/\ current' # current \/ baseline' # baseline =>
          \E r \in Request :
            /\ At(r, "land")
            /\ landed' = Append(landed, req[r].message)
            /\ req[r].override \/ 10 * baseline' >= 8 * baseline \/ overlapped
     /\ \A m \in Message :
          imports'[m] # imports[m] /\ imports'[m] # "ok" =>
            UNCHANGED <<current, rows, baseline, ledger, landed>>]_vars

(* "Refuses .. an import that would gut the roster": no upload without the  *)
(* override takes everybody off it (`_ingest_membership`).                  *)
NeverGutted ==
  [][(\A r \in Request : ~ req[r].override) /\ current # {} => current' # {}]_vars

============================================================================
