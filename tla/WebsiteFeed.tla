---------------------------- MODULE WebsiteFeed -----------------------------
(* The public feed that the club's site is made of:                         *)
(* app/features/website/router.py.  A page is put together by several       *)
(* SELECTs, each of which filters its own rows: first the row the page is   *)
(* about, then what hangs off it.  The committee publishes, hides and       *)
(* archives meanwhile.  One row of a page and one item of it are modelled,  *)
(* by the conditions they meet.                                             *)
EXTENDS Integers, FiniteSets

CONSTANTS EDITS, Nil

FeedAssumption == EDITS \in Nat

Page == {"event", "events", "event preview", "project", "projects", "member", "team",
         "sponsors", "partners", "packages", "links", "scan"}

VARIABLES
  page, item,
  met,          \* the conditions that the row and the item meet, as <<which, condition>>
  reveal,       \* flagship_state of an event; Nil when it is not a flagship
  edits,        \* history
  visit         \* the one visitor

vars == <<page, item, met, reveal, edits, visit>>

-----------------------------------------------------------------------------
(* What the SELECT of a page asks of the row.  (`event preview` is reached  *)
(* with a token the committee hands out.)                                   *)
RowConditions(p) ==
  CASE p \in {"event", "events"} -> {"live", "public", "dated"}
    [] p = "event preview" -> {"live"}
    [] p \in {"project", "projects"} -> {"live", "public", "slug"}
    [] p \in {"member", "team", "partners"} -> {"live", "public"}
    [] p = "sponsors" -> {"live", "public", "logo"}
    [] p = "packages" -> {"public"}
    [] p \in {"links", "scan"} -> {"live", "public"}

Lead == "lead"
Specific == {"speaker", "sponsor", "partner", "venue"}

(* What hangs off the row of a page; the lists carry less than the pages.   *)
Items(p) ==
  CASE p \in {"event", "event preview"} -> Specific \cup {Lead, "related"}
    [] p = "events" -> {Lead, "venue"}
    [] p \in {"project", "projects"} -> {Lead}
    [] p = "member" -> {"led event", "led project"}
    [] OTHER -> {Nil}

(* Faulty form: a connected event is shown as it is.                        *)
ItemConditionsConnected(i) ==
  CASE i = "speaker" -> {"link"}
    [] i = "sponsor" -> {"link", "live"}
    [] i = "partner" -> {"link", "live", "public"}
    [] i = "related" -> {"link", "live", "dated"}
    [] i = Lead -> {"live"}
    [] i = "led event" -> {"live", "public", "dated"}
    [] i = "led project" -> {"live", "public"}
    [] OTHER -> {}

(* `_event_speakers`, `_event_sponsors`, `_event_partners`,                 *)
(* `_related_events`, `_leads_map`, `_person_led_events`,                   *)
(* `_person_led_projects`; the venue, like the description and the tickets, *)
(* is of the row itself.                                                    *)
ItemConditions(i) ==
  CASE i = "speaker" -> {"link"}
    [] i = "sponsor" -> {"link", "live"}
    [] i = "partner" -> {"link", "live", "public"}
    [] i = "related" -> {"link", "live", "public", "dated"}
    [] i = Lead -> {"live"}
    [] i = "led event" -> {"live", "public", "dated"}
    [] i = "led project" -> {"live", "public"}
    [] OTHER -> {}

Condition ==
  {"row"} \X {"live", "public", "dated", "slug", "logo"}
  \cup {"item"} \X {"live", "public", "dated", "link"}

Meets(which, conditions) == \A c \in conditions : <<which, c>> \in met

Flagship(p) == p \in {"event", "events", "event preview"}

(* Faulty form: what is not the teaser is revealed.                         *)
SecretUnlessTeaser == reveal \in {Nil, "teaser"}

(* `_public_event`: anything that is not exactly "revealed" is secret.      *)
Secret == reveal \notin {Nil, "revealed"}

-----------------------------------------------------------------------------
Away == [phase |-> "away", secret |-> FALSE, shown |-> {}, open |-> {}]

Init ==
  /\ page \in Page
  /\ item \in Items(page)
  /\ met \in {Condition, {}} \cup {Condition \ {c} : c \in Condition}
  /\ reveal \in IF Flagship(page) THEN {Nil, "teaser", "revealed", "Revealed"} ELSE {Nil}
  /\ edits = 0
  /\ visit = Away

(* History: what is the committee's decision to show, by now.               *)
Open ==
  (IF {<<"row", "live">>, <<"row", "public">>} \subseteq met THEN {"row"} ELSE {})
  \cup (IF {<<"item", "live">>, <<"item", "public">>} \subseteq met THEN {"item"} ELSE {})
  \cup (IF reveal \in {Nil, "revealed"} THEN {"specifics"} ELSE {})

Come ==
  /\ visit.phase = "away"
  /\ visit' = [Away EXCEPT !.phase = "row", !.open = Open]
  /\ UNCHANGED <<page, item, met, reveal, edits>>

(* The SELECT of the row, with the event's own specifics; 404, or a list    *)
(* without it.                                                              *)
SelectRow ==
  /\ visit.phase = "row"
  /\ visit' =
       IF Meets("row", RowConditions(page))
         THEN [visit EXCEPT !.phase = "item", !.secret = Secret, !.shown = {"row"}]
         ELSE [visit EXCEPT !.phase = "done"]
  /\ UNCHANGED <<page, item, met, reveal, edits>>

(* The SELECT of the item; a secret event gives up its specifics, by the    *)
(* state that was loaded with it.                                           *)
SelectItem ==
  /\ visit.phase = "item"
  /\ visit' = [visit EXCEPT
       !.phase = "done",
       !.shown = IF item # Nil /\ Meets("item", ItemConditions(item))
                      /\ ~ (visit.secret /\ item \in Specific)
                   THEN @ \cup {"item"} ELSE @]
  /\ UNCHANGED <<page, item, met, reveal, edits>>

(* The committee.                                                           *)
Decide ==
  /\ edits < EDITS /\ visit.phase # "done"
  /\ edits' = edits + 1
  /\ \/ \E c \in Condition :
          met' = (IF c \in met THEN met \ {c} ELSE met \cup {c}) /\ UNCHANGED reveal
     \/ /\ Flagship(page) /\ reveal # Nil
        /\ reveal' \in {"teaser", "revealed", "Revealed"}
        /\ UNCHANGED met
  /\ visit' = IF visit.phase = "away" THEN visit ELSE [visit EXCEPT !.open = @ \cup Open']
  /\ UNCHANGED <<page, item>>

Next == Come \/ SelectRow \/ SelectItem \/ Decide

Spec == Init /\ [][Next]_vars

-----------------------------------------------------------------------------
TypeOK ==
  /\ met \subseteq Condition
  /\ visit.shown \subseteq {"row", "item"} /\ visit.open \subseteq {"row", "item", "specifics"}

(* The things that are public when the committee says so, and not because   *)
(* they hang off a page.                                                    *)
OptIn == {"partner", "related", "led event", "led project"}

(* However the committee publishes and hides while a page is put together,  *)
(* a visitor without a token sees no row that was not public at some time   *)
(* of the visit, and not even one with a token sees a partner, a connected  *)
(* event, a led event or a led project that was not.                        *)
NothingUnpublishedShown ==
  /\ "row" \in visit.shown /\ page \notin {"event preview", "packages"} => "row" \in visit.open
  /\ "item" \in visit.shown /\ item \in OptIn => "item" \in visit.open

(* The specifics of a flagship event are shown on no page and in no preview *)
(* of it unless it was revealed at some time of the visit, whatever text    *)
(* its state holds.                                                         *)
FlagshipKeepsSecret ==
  "item" \in visit.shown /\ item \in Specific => "specifics" \in visit.open

============================================================================
