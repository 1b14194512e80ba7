----------------------------- MODULE ReviewForm -----------------------------
(* The review form of an event, which lives with an outside service and is  *)
(* found by the id the event's row holds: `create_review_form` of           *)
(* app/features/reviews/service.py.                                         *)
EXTENDS Integers, FiniteSets

CONSTANTS
  Form,         \* the ids the service gives out
  Request, Nil

ReviewAssumption == Nil \notin Form

VARIABLES
  stored,       \* review_form_id of the event
  created,      \* the forms there are at the service
  handed,       \* history: the forms whose link was handed out
  spoilt,       \* history: a form was replaced on request, two creations were at
                \* work together, or one died after its form was there
  req

vars == <<stored, created, handed, spoilt, req>>

Idle == [phase |-> "idle", form |-> Nil]

Init ==
  /\ stored = Nil /\ created = {} /\ handed = {} /\ spoilt = FALSE
  /\ req = [r \in Request |-> Idle]

At(r, phase) == req[r].phase = phase

Go(r, phase) == req' = [req EXCEPT ![r].phase = phase]

Leave(r) == req' = [req EXCEPT ![r] = Idle]

-----------------------------------------------------------------------------
(* Faulty form: every call makes a form.                                    *)
AskAnew(r, force) ==
  /\ At(r, "idle")
  /\ Go(r, "create")
  /\ spoilt' = (spoilt \/ force \/ \E q \in Request : At(q, "create") \/ At(q, "commit"))
  /\ UNCHANGED <<stored, created, handed>>

(* "Idempotent: if a form already exists it's returned untouched unless     *)
(* force=True".                                                             *)
Ask(r, force) ==
  /\ At(r, "idle")
  /\ IF stored # Nil /\ ~ force
       THEN Go(r, "answer") /\ UNCHANGED spoilt
       ELSE /\ Go(r, "create")
            /\ spoilt' = \/ spoilt \/ force
                         \/ \E q \in Request : At(q, "create") \/ At(q, "commit")
  /\ UNCHANGED <<stored, created, handed>>

(* `tally.create_form`.                                                     *)
CreateForm(r, f) ==
  /\ At(r, "create")
  /\ f \notin created
  /\ created' = created \cup {f}
  /\ req' = [req EXCEPT ![r] = [phase |-> "commit", form |-> f]]
  /\ UNCHANGED <<stored, handed, spoilt>>

Store(r) ==
  /\ At(r, "commit")
  /\ stored' = req[r].form
  /\ Go(r, "answer")
  /\ UNCHANGED <<created, handed, spoilt>>

(* `db.refresh`, or the row just loaded.                                    *)
HandOut(r) ==
  /\ At(r, "answer")
  /\ handed' = handed \cup {stored}
  /\ Leave(r)
  /\ UNCHANGED <<stored, created, spoilt>>

(* The service is not set up (503) or fails (502), or the handler dies; a   *)
(* form it has made then stays there.                                       *)
Fail(r) ==
  /\ ~ At(r, "idle")
  /\ spoilt' = (spoilt \/ At(r, "commit"))
  /\ Leave(r)
  /\ UNCHANGED <<stored, created, handed>>

Next ==
  \E r \in Request :
    \/ \E force \in BOOLEAN : Ask(r, force)
    \/ \E f \in Form : CreateForm(r, f)
    \/ Store(r) \/ HandOut(r) \/ Fail(r)

Spec == Init /\ [][Next]_vars

-----------------------------------------------------------------------------
TypeOK == stored \in created \cup {Nil} /\ created \subseteq Form /\ handed \subseteq created

(* What was answered through a link that was handed out is counted, and no  *)
(* form lies at the service that the event does not know: only a forced     *)
(* replacement, creations that overlap, or a death between the service's    *)
(* answer and the commit leave one behind (`create_review_form`).           *)
LinksCollect ==
  ~ spoilt =>
    /\ handed \subseteq {stored}
    /\ created \subseteq {stored} \cup {req[r].form : r \in Request}

============================================================================
