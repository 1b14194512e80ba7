----------------------------- MODULE EventBudget -----------------------------
(* The budget of an event and the grant that goes with it: `set_event_budget`*)
(* of app/features/finance/service.py, and the POST and the PATCH of an     *)
(* event over REST, whose bodies may name either (app/features/events/      *)
(* schemas.py).  A session writes the attributes that differ from the row   *)
(* it loaded.                                                               *)
EXTENDS Integers, FiniteSets

CONSTANTS
  Budget,       \* amounts that are asked for
  Rate,         \* grant rates, in percent
  Request, Nil,
  Keep,         \* an attribute that is not written
  WRITES        \* bound of the model

BudgetAssumption ==
  /\ Budget \subseteq Nat /\ Rate \subseteq 0 .. 100 /\ Nil # Keep
  /\ Nil \notin Nat /\ Keep \notin Nat /\ WRITES \in Nat

VARIABLES
  made,         \* the event has been created
  budget, grant,
  asked,        \* history: the pair that the last `set_event_budget` stands for
  byHand,       \* history: an amount was written by a POST or a PATCH since
  raced,        \* history: no `set_event_budget` has run alone since two requests overlapped
  writes, req

vars == <<made, budget, grant, asked, byHand, raced, writes, req>>

Idle == [phase |-> "idle", budget |-> Keep, grant |-> Keep, asks |-> <<Nil, Nil>>,
         alone |-> TRUE]

Init ==
  /\ made = FALSE /\ budget = Nil /\ grant = Nil
  /\ asked = <<Nil, Nil>> /\ byHand = FALSE /\ raced = FALSE /\ writes = 0
  /\ req = [r \in Request |-> Idle]

Leave(r) == req' = [req EXCEPT ![r] = Idle]

Changed(new, old) == IF new \in {old, Keep} THEN Keep ELSE new

Apply(old, change) == IF change = Keep THEN old ELSE change

-----------------------------------------------------------------------------
(* Faulty form: without a budget there is nothing to compute.               *)
GrantOfAmount(b, rate) == IF b = Nil THEN grant ELSE (b * rate) \div 100

(* The grant is the budget times the rate; a budget that is taken away      *)
(* takes the grant with it.                                                 *)
GrantOf(b, rate) == IF b = Nil THEN Nil ELSE (b * rate) \div 100

(* POST /events, one INSERT.  The tool of MCP takes neither amount.         *)
CreateEvent(b, g) ==
  /\ ~ made /\ writes < WRITES
  /\ made' = TRUE /\ budget' = b /\ grant' = g
  /\ byHand' = (<<b, g>> # <<Nil, Nil>>)
  /\ writes' = writes + 1
  /\ UNCHANGED <<asked, raced, req>>

(* The event is loaded.                                                     *)
Begin(r, phase, b, g) ==
  LET others == {q \in Request : req[q].phase # "idle"} IN
  /\ made /\ req[r].phase = "idle" /\ writes < WRITES
  /\ writes' = writes + 1
  /\ raced' = (raced \/ others # {})
  /\ req' = [q \in Request |->
       CASE q = r -> [phase |-> phase, budget |-> Changed(b, budget), grant |-> Changed(g, grant),
                      asks |-> <<b, g>>, alone |-> others = {}]
         [] q \in others -> [req[q] EXCEPT !.alone = FALSE]
         [] OTHER -> req[q]]
  /\ UNCHANGED <<made, budget, grant, asked, byHand>>

(* POST /finance/events/{id}/budget and the MCP tool.                       *)
SetBudget(r, b, rate) == Begin(r, "set", b, GrantOf(b, rate))

(* `update_event`: one of the two, or both.                                 *)
PatchEvent(r, b, g) == Begin(r, "patch", b, g)

Commit(r) ==
  /\ req[r].phase # "idle"
  /\ budget' = Apply(budget, req[r].budget)
  /\ grant' = Apply(grant, req[r].grant)
  /\ IF req[r].phase = "set"
       THEN /\ asked' = req[r].asks /\ byHand' = FALSE
            /\ raced' = (raced /\ ~ req[r].alone)
       ELSE /\ byHand' = (byHand \/ req[r].budget # Keep \/ req[r].grant # Keep)
            /\ UNCHANGED <<asked, raced>>
  /\ Leave(r)
  /\ UNCHANGED <<made, writes>>

(* The handler dies.                                                        *)
Die(r) ==
  /\ req[r].phase # "idle"
  /\ Leave(r)
  /\ UNCHANGED <<made, budget, grant, asked, byHand, raced, writes>>

Next ==
  \/ \E b, g \in Budget \cup {Nil} : CreateEvent(b, g)
  \/ \E r \in Request :
    \/ \E b \in Budget \cup {Nil}, rate \in Rate : SetBudget(r, b, rate)
    \/ \E b, g \in Budget \cup {Nil, Keep} : PatchEvent(r, b, g)
    \/ Commit(r) \/ Die(r)

Spec == Init /\ [][Next]_vars

-----------------------------------------------------------------------------
TypeOK ==
  /\ budget \in Nat \cup {Nil} /\ grant \in Nat \cup {Nil}
  /\ \A r \in Request : req[r].phase \in {"idle", "set", "patch"}

(* Budget and grant are the pair that the last `set_event_budget` computed  *)
(* ("auto-apply the grant"), and there is no grant without a budget: only a *)
(* POST or a PATCH that names an amount of its own, or requests that        *)
(* overlap, part the two, and the next call that runs alone joins them.     *)
GrantFollowsBudget ==
  ~ byHand /\ ~ raced => <<budget, grant>> = asked /\ (budget = Nil => grant = Nil)

============================================================================
