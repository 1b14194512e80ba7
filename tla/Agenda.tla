------------------------------ MODULE Agenda -------------------------------
(* The agenda of a meeting, which is drafted, shared under a link and       *)
(* locked when the meeting starts: app/features/meetings/service.py.  A     *)
(* handler loads the row, decides on what it loaded, and writes the         *)
(* attributes it changed.                                                   *)
EXTENDS Integers, FiniteSets

CONSTANTS
  Items,       \* lists of items
  Token,       \* what secrets.token_urlsafe draws from
  Request, Nil

AgendaAssumption == Nil \notin Items \cup Token \cup {"shared"}

VARIABLES
  items, status, token,   \* agenda_items, agenda_status, agenda_share_token
  archived,
  drawn,       \* history: the tokens that were drawn
  handed,      \* history: the links that were handed out
  raced,       \* history: two first shares were at work together
  overtaken,   \* history: an edit or a first share was at work when the agenda was locked
  req

vars == <<items, status, token, archived, drawn, handed, raced, overtaken, req>>
agenda == <<items, status, token, archived, drawn, handed, raced, overtaken>>

Phase == {"idle", "validate", "set", "share", "answer", "lock"}

(* `write` is what the handler will write, `fresh` the token it has drawn.  *)
Idle == [phase |-> "idle", write |-> Nil, fresh |-> Nil]

Init ==
  /\ items = Nil /\ status = "draft" /\ token = Nil /\ archived = FALSE
  /\ drawn = {} /\ handed = {} /\ raced = FALSE /\ overtaken = FALSE
  /\ req = [r \in Request |-> Idle]

At(r, phase) == req[r].phase = phase

Go(r, phase) == req' = [req EXCEPT ![r].phase = phase]

Leave(r) == req' = [req EXCEPT ![r] = Idle]

-----------------------------------------------------------------------------
(* Faulty form: the lock is only shown.                                     *)
LoadEditUnlocked(r, a) ==
  /\ At(r, "idle")
  /\ req' = [req EXCEPT ![r] = [Idle EXCEPT !.phase = "validate", !.write = a]]
  /\ UNCHANGED agenda

(* `set_meeting_agenda`: 409 on a locked agenda.                            *)
LoadEdit(r, a) ==
  /\ At(r, "idle")
  /\ status # "locked"
  /\ req' = [req EXCEPT ![r] = [Idle EXCEPT !.phase = "validate", !.write = a]]
  /\ UNCHANGED agenda

(* `_validate_and_normalise`: 422 when an owner, task or event is archived  *)
(* or not there.                                                            *)
Validate(r) ==
  /\ At(r, "validate")
  /\ Go(r, "set") \/ Leave(r)
  /\ UNCHANGED agenda

CommitEdit(r) ==
  /\ At(r, "set")
  /\ items' = req[r].write
  /\ Leave(r)
  /\ UNCHANGED <<status, token, archived, drawn, handed, raced, overtaken>>

FirstShare(r) == At(r, "share") /\ req[r].write = "shared"

(* Faulty form: every share draws a token.                                  *)
LoadShareAnew(r, t) ==
  /\ At(r, "idle") /\ t \in Token \ drawn
  /\ drawn' = drawn \cup {t}
  /\ req' = [req EXCEPT ![r] = [phase |-> "share", fresh |-> t,
                                write |-> IF status = "draft" THEN "shared" ELSE Nil]]
  /\ UNCHANGED <<items, status, token, archived, handed, raced, overtaken>>

(* `share_meeting_agenda`: a token is drawn when the row has none, and      *)
(* "shared" written over a draft only.                                      *)
LoadShare(r, t) ==
  /\ At(r, "idle")
  /\ IF token = Nil THEN t \in Token \ drawn ELSE t = Nil
  /\ drawn' = drawn \cup ({t} \ {Nil})
  /\ req' = [req EXCEPT ![r] = [phase |-> "share", fresh |-> t,
                                write |-> IF status = "draft" THEN "shared" ELSE Nil]]
  /\ raced' = (raced \/ (t # Nil /\ \E q \in Request : At(q, "share") /\ req[q].fresh # Nil))
  /\ UNCHANGED <<items, status, token, archived, handed, overtaken>>

CommitShare(r) ==
  /\ At(r, "share")
  /\ token' = IF req[r].fresh = Nil THEN token ELSE req[r].fresh
  /\ status' = IF FirstShare(r) THEN "shared" ELSE status
  /\ Go(r, "answer")
  /\ UNCHANGED <<items, archived, drawn, handed, raced, overtaken>>

(* `db.refresh`: the link is that of the row by now.                        *)
HandOut(r) ==
  /\ At(r, "answer")
  /\ handed' = handed \cup {token}
  /\ Leave(r)
  /\ UNCHANGED <<items, status, token, archived, drawn, raced, overtaken>>

(* `lock_meeting_agenda`: an agenda that is loaded as locked is not written.*)
LoadLock(r) ==
  /\ At(r, "idle") /\ status # "locked"
  /\ Go(r, "lock")
  /\ UNCHANGED agenda

CommitLock(r) ==
  /\ At(r, "lock")
  /\ status' = "locked"
  /\ overtaken' = (overtaken \/ \E q \in Request :
                     At(q, "validate") \/ At(q, "set") \/ FirstShare(q))
  /\ Leave(r)
  /\ UNCHANGED <<items, token, archived, drawn, handed, raced>>

(* `archive_meeting`, `unarchive_meeting`.                                  *)
Archive ==
  /\ archived' = ~ archived
  /\ UNCHANGED <<items, status, token, drawn, handed, raced, overtaken, req>>

-----------------------------------------------------------------------------

(* The handler dies.                                                        *)
Die(r) ==
  /\ ~ At(r, "idle")
  /\ Leave(r)
  /\ UNCHANGED agenda

Next ==
  \/ \E r \in Request :
       \/ \E a \in Items : LoadEdit(r, a)
       \/ \E t \in Token \cup {Nil} : LoadShare(r, t)
       \/ Validate(r) \/ CommitEdit(r) \/ CommitShare(r) \/ HandOut(r)
       \/ LoadLock(r) \/ CommitLock(r) \/ Die(r)
  \/ Archive

Spec == Init /\ [][Next]_vars

-----------------------------------------------------------------------------
TypeOK ==
  /\ items \in Items \cup {Nil} /\ status \in {"draft", "shared", "locked"}
  /\ token \in Token \cup {Nil}
  /\ \A r \in Request : req[r].phase \in Phase /\ req[r].fresh \in Token \cup {Nil}

(* `get_by_share_token`.                                                    *)
Opens(t) == token = t /\ status \in {"shared", "locked"} /\ ~ archived

(* A link that was handed out opens the agenda as long as the meeting is    *)
(* not archived ("the link handed to invitees never changes"): only a race  *)
(* of two first shares can leave an invitee with a dead one.                *)
LinkStable == \A t \in handed : raced \/ archived \/ Opens(t)

(* Locked is final: neither an edit nor a share that starts later, nor any  *)
(* that the lock did not overtake, changes the agenda.  (A first share that *)
(* was overtaken writes "shared" over the lock.)                            *)
LockKept == status = "locked" /\ ~ overtaken => status' = "locked" /\ items' = items

LockFreezes == [][LockKept]_vars

============================================================================
