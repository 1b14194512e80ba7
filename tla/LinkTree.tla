------------------------------ MODULE LinkTree ------------------------------
(* The link page and the QR wall: app/features/links/service.py and         *)
(* app/features/scan/service.py, which are alike.  The position of a link   *)
(* is given when it is made, changed by a PATCH, and rewritten with those   *)
(* of others by a reordering, over REST or over MCP; the header is one row, *)
(* which is made from defaults in a commit of its own before it is first    *)
(* changed.  (The other attributes of a link are those of Records.)         *)
EXTENDS Integers, FiniteSets

CONSTANTS
  Link, Title, Request, Nil,
  Position,     \* the positions that are asked for
  Orders,       \* the orders that are asked for: functions from links to positions
  WRITES        \* bound of the model

LinkTreeAssumption ==
  /\ Nil \notin Title \cup {"default"} /\ "default" \notin Title /\ WRITES \in Nat
  /\ Position \subseteq Nat
  /\ \A o \in Orders : DOMAIN o \subseteq Link /\ \A l \in DOMAIN o : o[l] \in Nat

VARIABLES
  links,        \* the links there are; none is ever deleted
  order,        \* display_order
  title,        \* the header: Nil without a row, "default", or a title
  asked,        \* history: where the last request that named it put each link
  mixed,        \* history: the links that overlapping requests placed, and none alone since
  writes, req

vars == <<links, order, title, asked, mixed, writes, req>>
positions == <<links, order, asked>>

(* `want` is what the request asks for and `loaded` what it found; `alone`  *)
(* are the links it names that no request has named since it loaded them.   *)
Idle == [phase |-> "idle", loaded |-> Nil, want |-> Nil, alone |-> {}]

Init ==
  /\ links \in SUBSET Link
  /\ order = [l \in Link |-> 0] /\ asked = order /\ mixed = {}
  /\ title = Nil /\ writes = 0
  /\ req = [r \in Request |-> Idle]

At(r, phase) == req[r].phase = phase

Leave(r) == req' = [req EXCEPT ![r] = Idle]

Begin(r) == At(r, "idle") /\ writes < WRITES /\ writes' = writes + 1

-----------------------------------------------------------------------------
(* `create_link`, `create_scan_target`: one INSERT.  Without a position the *)
(* column has its default.                                                  *)
CreateLink(l, p) ==
  /\ writes < WRITES /\ writes' = writes + 1
  /\ l \notin links
  /\ links' = links \cup {l}
  /\ order' = [order EXCEPT ![l] = p]
  /\ asked' = [asked EXCEPT ![l] = p]
  /\ UNCHANGED <<title, mixed, req>>

LoadPositions(r, want) ==
  LET others == {q \in Request \ {r} : At(q, "order")}
      shared == DOMAIN want \cap UNION {DOMAIN req[q].want : q \in others} IN
  /\ Begin(r)
  /\ req' = [q \in Request |->
       CASE q = r -> [phase |-> "order", loaded |-> order, want |-> want,
                      alone |-> DOMAIN want \ shared]
         [] q \in others -> [req[q] EXCEPT !.alone = @ \ DOMAIN want]
         [] OTHER -> req[q]]
  /\ mixed' = mixed \cup shared
  /\ UNCHANGED <<positions, title>>

(* `reorder_links`, `reorder_scan_targets`: links that are not there are    *)
(* skipped, and those that are not named keep their position.               *)
Reorder(r, o) == LoadPositions(r, [l \in DOMAIN o \cap links |-> o[l]])

(* `update_link`, `update_scan_target` with a display_order.                *)
Reposition(r, l, p) == l \in links /\ LoadPositions(r, [x \in {l} |-> p])

(* Faulty form: the links that are not named go to the front.               *)
PlacedFirst(l, r) == IF l \in DOMAIN req[r].want THEN req[r].want[l] ELSE 0

(* Where a link ends up: the session writes the positions that differ from  *)
(* those it loaded.                                                         *)
Placed(l, r) ==
  IF l \in DOMAIN req[r].want /\ req[r].want[l] # req[r].loaded[l]
    THEN req[r].want[l] ELSE order[l]

Last(r) ==
  [l \in Link |-> IF l \in DOMAIN req[r].want THEN req[r].want[l] ELSE asked[l]]

CommitOrder(r) ==
  /\ At(r, "order")
  /\ order' = [l \in Link |-> Placed(l, r)]
  /\ asked' = Last(r)
  /\ mixed' = mixed \ req[r].alone
  /\ Leave(r)
  /\ UNCHANGED <<links, title, writes>>

-----------------------------------------------------------------------------
(* `update_profile`, `update_page`, which may clear a title; a body without *)
(* attributes changes and creates nothing.                                  *)
LoadHeader(r, t) ==
  /\ Begin(r)
  /\ req' = [req EXCEPT ![r] = [Idle EXCEPT
               !.phase = IF title = Nil THEN "create header" ELSE "header",
               !.loaded = title, !.want = t]]
  /\ UNCHANGED <<positions, title, mixed>>

(* Faulty form: the defaults are written over a row that is there by now.   *)
CreateHeaderOver(r) ==
  /\ At(r, "create header")
  /\ title' = "default"
  /\ req' = [req EXCEPT ![r].phase = "header", ![r].loaded = "default"]
  /\ UNCHANGED <<positions, mixed, writes>>

(* `create_if_missing`; the key of the one row refuses a second.            *)
CreateHeader(r) ==
  /\ At(r, "create header")
  /\ title = Nil
  /\ title' = "default"
  /\ req' = [req EXCEPT ![r].phase = "header", ![r].loaded = "default"]
  /\ UNCHANGED <<positions, mixed, writes>>

CommitHeader(r) ==
  /\ At(r, "header")
  /\ title' = IF req[r].want = req[r].loaded THEN title ELSE req[r].want
  /\ Leave(r)
  /\ UNCHANGED <<positions, mixed, writes>>

(* An IntegrityError, or the handler dies.                                  *)
Fail(r) ==
  /\ ~ At(r, "idle")
  /\ Leave(r)
  /\ UNCHANGED <<positions, title, mixed, writes>>

Next ==
  \/ \E l \in Link, p \in Position \cup {0} : CreateLink(l, p)
  \/ \E r \in Request :
    \/ \E o \in Orders : Reorder(r, o)
    \/ \E l \in Link, p \in Position : Reposition(r, l, p)
    \/ \E t \in Title \cup {"default"} : LoadHeader(r, t)
    \/ CommitOrder(r) \/ CreateHeader(r) \/ CommitHeader(r) \/ Fail(r)

Spec == Init /\ [][Next]_vars

-----------------------------------------------------------------------------
TypeOK ==
  /\ links \subseteq Link /\ order \in [Link -> Nat] /\ title \in Title \cup {Nil, "default"}
  /\ \A r \in Request : req[r].phase \in {"idle", "order", "create header", "header"}

(* Every link stands where the last request that named its position put it: *)
(* the one that made it, a PATCH, or a reordering, whatever was committed   *)
(* between the load and the commit of each; only requests that overlap and  *)
(* name the same link may leave it elsewhere, until one names it alone.     *)
OrderAsAsked == \A l \in links : l \in mixed \/ order[l] = asked[l]

(* A header that someone has written never disappears, and falls back to    *)
(* the defaults only for a request that clears it, although every first     *)
(* writer creates the row.                                                  *)
TitleKept ==
  title' \notin Title =>
    \/ title \notin Title
    \/ title' # Nil /\ \E r \in Request : At(r, "header") /\ req[r].want = "default"

HeaderKept == [][TitleKept]_vars

============================================================================
