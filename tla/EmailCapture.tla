---------------------------- MODULE EmailCapture ----------------------------
(* The capture of inbound mail: POST /ingest/email of                       *)
(* app/features/ingest/router.py and the script that calls it every 15      *)
(* minutes (integrations/email-capture-forwarder).  The script sends one    *)
(* message at a time, gives up on an answer that takes too long, and sends  *)
(* a message again until it has been answered 2xx.                          *)
EXTENDS Integers, FiniteSets

CONSTANTS
  Message, Request, Nil,
  MAX_CAPTURED,     \* bound of the model: rows of one message
  FAULTS            \* bound of the model: answers that are lost

CaptureAssumption ==
  /\ Nil \notin Message \cup Request /\ IsFiniteSet(Request)
  /\ MAX_CAPTURED \in Nat /\ FAULTS \in Nat

VARIABLES
  captured,    \* the event_log rows of a message
  processed,   \* the messages the script has marked
  waiting,     \* the request the script waits for
  faults,      \* history
  overlapped,  \* history: a message was sent while a send of it was at work
  req

vars == <<captured, processed, waiting, faults, overlapped, req>>

Phase == {"idle", "find", "insert", "ok", "error"}

Idle == [phase |-> "idle", message |-> Nil]

Init ==
  /\ captured = [m \in Message |-> 0]
  /\ processed = {}
  /\ waiting = Nil
  /\ faults = 0
  /\ overlapped = FALSE
  /\ req = [r \in Request |-> Idle]

At(r, phase) == req[r].phase = phase

Go(r, phase) == req' = [req EXCEPT ![r].phase = phase]

-----------------------------------------------------------------------------
(* `captureInbox` and `sendToApi_`.                                         *)
Send(r, m) ==
  /\ waiting = Nil
  /\ m \notin processed
  /\ At(r, "idle")
  /\ waiting' = r
  /\ req' = [req EXCEPT ![r] = [phase |-> "find", message |-> m]]
  /\ overlapped' = (overlapped \/ \E q \in Request : req[q].message = m)
  /\ UNCHANGED <<captured, processed, faults>>

(* The fetch times out; the request may still be at work.                   *)
GiveUp ==
  /\ waiting # Nil
  /\ faults < FAULTS
  /\ faults' = faults + 1
  /\ waiting' = Nil
  /\ UNCHANGED <<captured, processed, req, overlapped>>

(* Faulty form: a message that is there is refused, like a workbook.        *)
FindCaptureRefuses(r) ==
  /\ At(r, "find")
  /\ Go(r, IF captured[req[r].message] = 0 THEN "insert" ELSE "error")
  /\ UNCHANGED <<captured, processed, waiting, faults, overlapped>>

(* Faulty form: the rows are not looked at.                                 *)
FindCaptureNever(r) ==
  /\ At(r, "find")
  /\ Go(r, "insert")
  /\ UNCHANGED <<captured, processed, waiting, faults, overlapped>>

(* `capture_email`: a message that is there is a duplicate, answered 200;   *)
(* scalar_one_or_none raises when it is there twice.                        *)
FindCapture(r) ==
  LET found == captured[req[r].message] IN
  /\ At(r, "find")
  /\ Go(r, CASE found = 0 -> "insert" [] found = 1 -> "ok" [] found > 1 -> "error")
  /\ UNCHANGED <<captured, processed, waiting, faults, overlapped>>

LogEvent(r) ==
  LET m == req[r].message IN
  /\ At(r, "insert")
  /\ captured[m] < MAX_CAPTURED
  /\ captured' = [captured EXCEPT ![m] = @ + 1]
  /\ Go(r, "ok")
  /\ UNCHANGED <<processed, waiting, faults, overlapped>>

(* `log_event` swallows every error, and the answer is still a 200.         *)
LogEventFails(r) ==
  /\ At(r, "insert")
  /\ Go(r, "ok")
  /\ UNCHANGED <<captured, processed, waiting, faults, overlapped>>

(* The answer reaches the script, unless it has given up on it.             *)
Answer(r) ==
  /\ At(r, "ok") \/ At(r, "error")
  /\ processed' = IF waiting = r /\ At(r, "ok") THEN processed \cup {req[r].message}
                                                ELSE processed
  /\ waiting' = IF waiting = r THEN Nil ELSE waiting
  /\ req' = [req EXCEPT ![r] = Idle]
  /\ UNCHANGED <<captured, faults, overlapped>>

(* Faulty form: the script waits on for an answer that never comes.         *)
DieUnnoticed(r) ==
  /\ ~ At(r, "idle")
  /\ faults < FAULTS
  /\ faults' = faults + 1
  /\ req' = [req EXCEPT ![r] = Idle]
  /\ UNCHANGED <<captured, processed, waiting, overlapped>>

(* The worker dies: the connection closes without an answer.                *)
Die(r) ==
  /\ ~ At(r, "idle")
  /\ faults < FAULTS
  /\ faults' = faults + 1
  /\ waiting' = IF waiting = r THEN Nil ELSE waiting
  /\ req' = [req EXCEPT ![r] = Idle]
  /\ UNCHANGED <<captured, processed, overlapped>>

Handle(r) == FindCapture(r) \/ LogEvent(r) \/ LogEventFails(r)

Next ==
  \/ \E r \in Request, m \in Message : Send(r, m)
  \/ \E r \in Request : Handle(r) \/ Answer(r) \/ Die(r)
  \/ GiveUp

Spec == Init /\ [][Next]_vars

(* The trigger keeps firing, and a handler that is not killed goes on and   *)
(* answers.                                                                 *)
FairSpec ==
  /\ Spec
  /\ \A m \in Message : SF_vars(\E r \in Request : Send(r, m))
  /\ \A r \in Request : WF_vars(Handle(r) \/ Answer(r))

-----------------------------------------------------------------------------
(* Types, and the script only waits for a request that is being handled.    *)
TypeOK ==
  /\ captured \in [Message -> Nat]
  /\ processed \subseteq Message
  /\ waiting \in Request \cup {Nil}
  /\ req \in [Request -> [phase : Phase, message : Message \cup {Nil}]]
  /\ faults \in Nat
  /\ overlapped \in BOOLEAN
  /\ waiting # Nil => ~ At(waiting, "idle")

(* However often an answer is lost or a handler killed, a message that is   *)
(* sent again has one row (`capture_email`); sends of it that overlap may   *)
(* leave one each.                                                          *)
CapturedOnce ==
  LET most == IF overlapped THEN Cardinality(Request) ELSE 1 IN
  \A m \in Message : captured[m] <= most

(* Every message of the inbox is marked in the end: losing an answer does   *)
(* not make the script send it for ever.  Only a message that overlapping   *)
(* sends have recorded twice stays: every further send of it is an error.   *)
EveryMessageProcessed == \A m \in Message : <>(m \in processed \/ captured[m] > 1)

(* "records it to the EventLog": what the script marks as sent, and never   *)
(* sends again, is in the log (email-capture-forwarder/Code.gs).            *)
ProcessedIsCaptured == \A m \in processed : captured[m] > 0

============================================================================
