------------------------------ MODULE Minutes -------------------------------
(* The minutes of a meeting that a model writes from its transcript:        *)
(* app/features/meetings/notes.py, called by the route and by the MCP tool  *)
(* after they have charged the daily budget.  The committee edits the notes *)
(* at any time, and asks again when a model has failed.                     *)
EXTENDS Integers, FiniteSets

CONSTANTS
  Request,
  ASKS        \* bound of the model: how often a model is asked

MinutesAssumption == ASKS \in Nat

VARIABLES
  notes,       \* the answer that is the notes; 0 when they are written by hand
  documents,   \* the answers filed as a MeetingNotes document
  logged,      \* the answers whose cost is in event_log
  answers,     \* history: the answers given so far
  lost,        \* history: the answers that no commit has seen
  req

vars == <<notes, documents, logged, answers, lost, req>>

Answer == 1 .. ASKS

Idle == [phase |-> "idle", answer |-> 0, file |-> FALSE]

Init ==
  /\ notes = 0 /\ documents = {} /\ logged = {} /\ answers = 0 /\ lost = {}
  /\ req = [r \in Request |-> Idle]

At(r, phase) == req[r].phase = phase

Leave(r) == req' = [req EXCEPT ![r] = Idle]

(* With a transcript, or 422; `file` is the body's create_document.         *)
Ask(r, file) ==
  /\ At(r, "idle")
  /\ req' = [req EXCEPT ![r] = [phase |-> "model", answer |-> 0, file |-> file]]
  /\ UNCHANGED <<notes, documents, logged, answers, lost>>

(* `generate`: an answer, which is taken as it is when it is no JSON, or an *)
(* LLMError, which is a 502.                                                *)
Generate(r) ==
  /\ At(r, "model")
  /\ answers < ASKS
  /\ answers' = answers + 1
  /\ req' = [req EXCEPT ![r].phase = "commit", ![r].answer = answers + 1]
  /\ UNCHANGED <<notes, documents, logged, lost>>

GenerateFails(r) ==
  /\ At(r, "model")
  /\ Leave(r)
  /\ UNCHANGED <<notes, documents, logged, answers, lost>>

(* Faulty form: the meeting is committed before the rest is added.          *)
CommitNotesFirst(r) ==
  LET n == req[r].answer IN
  /\ At(r, "commit")
  /\ IF notes # n
       THEN notes' = n /\ UNCHANGED <<documents, logged, req>>
       ELSE /\ logged' = logged \cup {n}
            /\ documents' = IF req[r].file THEN documents \cup {n} ELSE documents
            /\ Leave(r) /\ UNCHANGED notes
  /\ UNCHANGED <<answers, lost>>

(* Notes, log row and document are one commit.                              *)
CommitNotes(r) ==
  LET n == req[r].answer IN
  /\ At(r, "commit")
  /\ notes' = n
  /\ logged' = logged \cup {n}
  /\ documents' = IF req[r].file THEN documents \cup {n} ELSE documents
  /\ Leave(r)
  /\ UNCHANGED <<answers, lost>>

(* The handler dies: the cost of an answer it has is on no record.          *)
Die(r) ==
  /\ ~ At(r, "idle")
  /\ lost' = IF At(r, "commit") THEN lost \cup {req[r].answer} ELSE lost
  /\ Leave(r)
  /\ UNCHANGED <<notes, documents, logged, answers>>

(* `update_meeting`.                                                        *)
EditByHand ==
  /\ notes' = 0
  /\ UNCHANGED <<documents, logged, answers, lost, req>>

Next ==
  \/ \E r \in Request :
       \/ \E file \in BOOLEAN : Ask(r, file)
       \/ Generate(r) \/ GenerateFails(r) \/ CommitNotes(r) \/ Die(r)
  \/ EditByHand

Spec == Init /\ [][Next]_vars

-----------------------------------------------------------------------------
TypeOK ==
  /\ notes \in Answer \cup {0}
  /\ documents \subseteq Answer /\ logged \subseteq Answer /\ answers \in 0 .. ASKS

(* Notes never stand without their cost on record, nor a document without   *)
(* both, although models fail, handlers die and the notes are edited in     *)
(* between; and every answer is on record, or died with its handler.        *)
MinutesTogether ==
  LET working == {req[r].answer : r \in {r \in Request : At(r, "commit")}} IN
  /\ documents \subseteq logged
  /\ \A n \in 1 .. answers : n \in logged \/ n \in lost \/ n \in working
  /\ \A n \in lost \ logged : notes # n

============================================================================
