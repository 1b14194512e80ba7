--------------------------- MODULE FlagshipSignup ---------------------------
(* The two ways an outside service or page leaves a lead of a sponsor: the  *)
(* teaser page of a flagship event (`flagship_signup` of                    *)
(* app/features/website/router.py), whose form may be sent again at any     *)
(* time, and the webhook of Cal.com (app/features/calcom/router.py), which  *)
(* is delivered again until it is answered.  The signup and the lead of a   *)
(* sponsor are two commits.                                                 *)
EXTENDS Integers, FiniteSets

CONSTANTS
  Email,        \* who signs up on the page
  Booking,      \* the bookings on Cal.com
  Request, Nil,
  SENDS         \* bound of the model: forms and deliveries

FunnelAssumption == Email \cap Booking = {} /\ Nil \notin Email \cup Booking /\ SENDS \in Nat

VARIABLES
  open,         \* the event is live, a flagship, and has the slug of the page
  signups,      \* the rows of flagship_signup: pairs of a kind and an address
  leads,        \* how many rows of sponsor_lead come from an address or a booking
  answered,     \* history: the bookings that Cal.com has seen answered
  missed,       \* history: addresses whose lead failed, or whose handler died before it
  sends, req

vars == <<open, signups, leads, answered, missed, sends, req>>

Kind == {"notify", "sponsor"}

Idle == [phase |-> "idle", kind |-> Nil, from |-> Nil]

Init ==
  /\ open \in BOOLEAN
  /\ signups = {} /\ leads = [s \in Email \cup Booking |-> 0]
  /\ answered = {} /\ missed = {} /\ sends = 0
  /\ req = [r \in Request |-> Idle]

At(r, phase) == req[r].phase = phase

Go(r, phase) == req' = [req EXCEPT ![r].phase = phase]

Leave(r) == req' = [req EXCEPT ![r] = Idle]

Start(r, phase, kind, from) ==
  /\ At(r, "idle") /\ sends < SENDS
  /\ sends' = sends + 1
  /\ req' = [req EXCEPT ![r] = [phase |-> phase, kind |-> kind, from |-> from]]
  /\ UNCHANGED <<open, signups, leads, answered, missed>>

-----------------------------------------------------------------------------
(* 404 unless the event is there.                                           *)
SignUp(r, kind, e) == open /\ Start(r, "insert", kind, e)

(* Faulty form: a signup that is there already is a success like any other. *)
InsertSignupOrPass(r) ==
  /\ At(r, "insert")
  /\ signups' = signups \cup {<<req[r].kind, req[r].from>>}
  /\ IF req[r].kind = "sponsor" THEN Go(r, "lead") ELSE Leave(r)
  /\ UNCHANGED <<open, leads, answered, missed, sends>>

(* The unique constraint refuses a signup that is there: rolled back and    *)
(* answered ok.  Only a new one of a sponsor goes on to a lead.             *)
InsertSignup(r) ==
  LET signup == <<req[r].kind, req[r].from>> IN
  /\ At(r, "insert")
  /\ signups' = signups \cup {signup}
  /\ IF signup \notin signups /\ req[r].kind = "sponsor" THEN Go(r, "lead") ELSE Leave(r)
  /\ UNCHANGED <<open, leads, answered, missed, sends>>

(* `create_lead`, whose every error is swallowed.                           *)
CreateLead(r) ==
  /\ At(r, "lead")
  /\ \/ leads' = [leads EXCEPT ![req[r].from] = @ + 1] /\ UNCHANGED missed
     \/ missed' = missed \cup {req[r].from} /\ UNCHANGED leads
  /\ Leave(r)
  /\ UNCHANGED <<open, signups, answered, sends>>

-----------------------------------------------------------------------------
(* Cal.com, which signs its deliveries and repeats those not answered.      *)
DeliverBooking(r, b) == b \notin answered /\ Start(r, "book", Nil, b)

(* Faulty form: an error is swallowed here as well.                         *)
BookLeadOrNot(r) ==
  /\ At(r, "book")
  /\ leads' = [leads EXCEPT ![req[r].from] = @ + 1] \/ UNCHANGED leads
  /\ Go(r, "answer")
  /\ UNCHANGED <<open, signups, answered, missed, sends>>

(* `calcom_webhook`: every delivery is a lead; an error is a 500 (Die).     *)
BookLead(r) ==
  /\ At(r, "book")
  /\ leads' = [leads EXCEPT ![req[r].from] = @ + 1]
  /\ Go(r, "answer")
  /\ UNCHANGED <<open, signups, answered, missed, sends>>

AnswerBooking(r) ==
  /\ At(r, "answer")
  /\ answered' = answered \cup {req[r].from}
  /\ Leave(r)
  /\ UNCHANGED <<open, signups, leads, missed, sends>>

-----------------------------------------------------------------------------
(* The handler dies, or its answer is lost.                                 *)
Die(r) ==
  /\ ~ At(r, "idle")
  /\ missed' = IF At(r, "lead") THEN missed \cup {req[r].from} ELSE missed
  /\ Leave(r)
  /\ UNCHANGED <<open, signups, leads, answered, sends>>

(* The committee archives, renames or unmarks the event, or undoes that.    *)
EditEvent ==
  /\ open' = ~ open
  /\ UNCHANGED <<signups, leads, answered, missed, sends, req>>

Next ==
  \/ \E r \in Request :
       \/ \E kind \in Kind, e \in Email : SignUp(r, kind, e)
       \/ \E b \in Booking : DeliverBooking(r, b)
       \/ InsertSignup(r) \/ CreateLead(r) \/ BookLead(r) \/ AnswerBooking(r) \/ Die(r)
  \/ EditEvent

Spec == Init /\ [][Next]_vars

-----------------------------------------------------------------------------
TypeOK ==
  /\ signups \subseteq Kind \X Email
  /\ leads \in [Email \cup Booking -> Nat]
  /\ answered \subseteq Booking /\ missed \subseteq Email

(* However often, and by however many requests at once, the form is sent: a *)
(* sponsor who signed up has one lead, is about to get it, or has missed it *)
(* for good when the second commit failed; who has only asked for news of   *)
(* the event has none (`flagship_signup`).                                  *)
LeadOnce ==
  \A e \in Email :
    LET pending == {r \in Request : At(r, "lead") /\ req[r].from = e} IN
    leads[e] + Cardinality(pending)
      = IF <<"sponsor", e>> \in signups /\ e \notin missed THEN 1 ELSE 0

(* A booking that Cal.com does not deliver again has left a lead, whatever  *)
(* died on the way.  (It has several when an answer was lost.)              *)
NoBookingLost == \A b \in answered : leads[b] > 0

============================================================================
