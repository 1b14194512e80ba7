------------------------------ MODULE Records -------------------------------
(* One record of the workspace under requests that overlap: the functions   *)
(* list_, get_, create_, update_, archive_, unarchive_, delete_ and link_ of *)
(* the services in app/features, which all have the same shape.  A handler  *)
(* loads the row, sets attributes of what it loaded, and commits: the       *)
(* session writes the attributes that differ from those it loaded, to the   *)
(* row that is there by then, and fails when it is gone.                    *)
EXTENDS Integers, FiniteSets

CONSTANTS
  Attribute, Value, Request, Nil,
  Unset,        \* an attribute the caller does not name
  Blank,        \* an empty string, or a zero id
  Blankable,    \* the attributes in which a blank stands for NULL
  WRITES        \* bound of the model

RecordsAssumption ==
  /\ {Nil, Unset, Blank} \cap Value = {} /\ Nil # Unset /\ Nil # Blank /\ Unset # Blank
  /\ Blankable \subseteq Attribute /\ WRITES \in Nat

VARIABLES
  status,       \* "none", "live" or "archived"
  row,          \* the attributes of the row
  asked,        \* history: what the last request that named an attribute asked for
  asFound,      \* history: the attributes that request found so, and did not write
  writes, req

vars == <<status, row, asked, asFound, writes, req>>
data == <<status, row, asked, asFound>>

Phase == {"idle", "update", "hide", "show", "delete", "revive", "create"}

Nothing == [f \in Attribute |-> Unset]

(* `body` is what the caller names, `blanked` the attributes it blanked,    *)
(* `write` what differs from the row the handler has loaded.                *)
Idle == [phase |-> "idle", surface |-> Nil, body |-> Nothing, blanked |-> {},
         write |-> Nothing]

Init ==
  /\ status = "none"
  /\ row = [f \in Attribute |-> Nil]
  /\ asked = row /\ asFound = {}
  /\ writes = 0
  /\ req = [r \in Request |-> Idle]

At(r, phase) == req[r].phase = phase

Leave(r) == req' = [req EXCEPT ![r] = Idle]

-----------------------------------------------------------------------------
Bodies ==
  {b \in [Attribute -> Value \cup {Nil, Unset, Blank}] :
     \A f \in Attribute \ Blankable : b[f] # Blank}

(* Faulty form: an argument that was not given clears the attribute.        *)
GivenAll(body) == body

(* A tool of MCP drops the arguments that are None (`_data`), as the ones   *)
(* not given are; a PATCH can name an attribute and null it                 *)
(* (`exclude_unset`).                                                       *)
Given(body) == [f \in Attribute |-> IF body[f] = Nil THEN Unset ELSE body[f]]

(* A blank is taken for NULL: by the validators of the schemas, which both  *)
(* surfaces share (links, scan, projects), and by the tool `update_document`*)
(* for the id of its task (over REST a zero id is a task that is not there).*)
Parsed(body) == [f \in Attribute |-> IF body[f] = Blank THEN Nil ELSE body[f]]

(* What a caller asks for, over REST or over MCP.                           *)
Sent(surface, body) == Parsed(IF surface = "mcp" THEN Given(body) ELSE body)

Blanked(body) == {f \in Attribute : body[f] = Blank}

(* Faulty form: the whole row is written back.                              *)
DirtyAll(body) == [f \in Attribute |-> IF body[f] = Unset THEN row[f] ELSE body[f]]

(* The attributes a session writes: those set to another value.             *)
Dirty(body) ==
  [f \in Attribute |-> IF body[f] = row[f] THEN Unset ELSE body[f]]

Start(r, phase, surface, body, blanked) ==
  /\ At(r, "idle") /\ writes < WRITES
  /\ writes' = writes + 1
  /\ req' = [req EXCEPT ![r] =
       [phase |-> phase, surface |-> surface, body |-> body, blanked |-> blanked,
        write |-> Dirty(body)]]
  /\ UNCHANGED data

(* update_x: "not found" when there is no row; archived rows are found.     *)
LoadUpdate(r, surface, body) ==
  /\ status # "none"
  /\ Start(r, "update", surface, Sent(surface, body), Blanked(body))

(* archive_x and unarchive_x write when that changes the row.               *)
LoadArchive(r) == status = "live" /\ Start(r, "hide", Nil, Nothing, {})

LoadUnarchive(r) == status = "archived" /\ Start(r, "show", Nil, Nothing, {})

(* delete_x and unlink_x.                                                   *)
LoadDelete(r) == status # "none" /\ Start(r, "delete", Nil, Nothing, {})

(* link_x: the row is looked up under its unique pair, and made if missing; *)
(* arguments that are None are left alone, none is taken for NULL, and an   *)
(* archived row comes back.                                                 *)
LoadLink(r, body) ==
  /\ Blanked(body) = {}
  /\ Start(r, CASE status = "none" -> "create" [] status = "live" -> "update"
                [] OTHER -> "revive", Nil, Given(body), {})

(* create_x.                                                                *)
LoadCreate(r, body) ==
  status = "none" /\ Start(r, "create", Nil, Parsed(body), Blanked(body))

-----------------------------------------------------------------------------
(* The row another request has deleted is not there to be written: the      *)
(* commit fails (StaleDataError).  The unique pair, or the key, refuses a   *)
(* second row.                                                              *)
Fail(r) ==
  /\ \/ req[r].phase \in {"update", "hide", "show", "delete", "revive"} /\ status = "none"
     \/ At(r, "create") /\ status # "none"
  /\ Leave(r)
  /\ UNCHANGED <<data, writes>>

(* The worker dies.                                                         *)
Die(r) ==
  /\ ~ At(r, "idle")
  /\ Leave(r)
  /\ UNCHANGED <<data, writes>>

Written(r) == [f \in Attribute |-> IF req[r].write[f] = Unset THEN row[f] ELSE req[r].write[f]]

Named(r) == {f \in Attribute : req[r].body[f] # Unset}

Remember(r) ==
  /\ asked' = [f \in Attribute |-> IF f \in Named(r) THEN req[r].body[f] ELSE asked[f]]
  /\ asFound' = {f \in Named(r) : req[r].write[f] = Unset} \cup (asFound \ Named(r))

CommitUpdate(r) ==
  /\ At(r, "update") \/ At(r, "revive")
  /\ status # "none"
  /\ status' = IF At(r, "revive") THEN "live" ELSE status
  /\ row' = Written(r)
  /\ Remember(r)
  /\ Leave(r)
  /\ UNCHANGED writes

CommitArchive(r) ==
  /\ At(r, "hide") \/ At(r, "show")
  /\ status # "none"
  /\ status' = IF At(r, "hide") THEN "archived" ELSE "live"
  /\ Leave(r)
  /\ UNCHANGED <<row, asked, asFound, writes>>

CommitDelete(r) ==
  /\ At(r, "delete")
  /\ status # "none"
  /\ status' = "none"
  /\ row' = [f \in Attribute |-> Nil] /\ asked' = row' /\ asFound' = {}
  /\ Leave(r)
  /\ UNCHANGED writes

CommitCreate(r) ==
  /\ At(r, "create")
  /\ status = "none"
  /\ status' = "live"
  /\ row' = [f \in Attribute |-> IF req[r].body[f] = Unset THEN Nil ELSE req[r].body[f]]
  /\ asked' = row' /\ asFound' = {}
  /\ Leave(r)
  /\ UNCHANGED writes

Next ==
  \E r \in Request :
    \/ \E b \in Bodies :
         \/ \E s \in {"rest", "mcp"} : LoadUpdate(r, s, b)
         \/ LoadLink(r, b) \/ LoadCreate(r, b)
    \/ LoadArchive(r) \/ LoadUnarchive(r) \/ LoadDelete(r)
    \/ CommitUpdate(r) \/ CommitArchive(r) \/ CommitDelete(r) \/ CommitCreate(r)
    \/ Fail(r) \/ Die(r)

Spec == Init /\ [][Next]_vars

-----------------------------------------------------------------------------
TypeOK ==
  /\ status \in {"none", "live", "archived"}
  /\ row \in [Attribute -> Value \cup {Nil}]
  /\ asFound \subseteq Attribute
  /\ \A r \in Request : req[r].phase \in Phase /\ At(r, "idle") => req[r] = Idle

(* Two people may edit a record together, over either surface, and archive  *)
(* it meanwhile: each attribute stays what the last request to name it      *)
(* asked for.  Only when that request found it so already, and another      *)
(* changed it before the first was done, the other's value stands.          *)
NothingReverted ==
  status # "none" => \A f \in Attribute : row[f] = asked[f] \/ f \in asFound

(* A record loses an attribute only to a request that said so: a PATCH that *)
(* nulls it, or a call, over REST or of a tool, that blanks an attribute in *)
(* which a blank stands for NULL.  What a tool is not given it never clears *)
(* ("so 'not provided' never overwrites existing data", `_data`), whatever  *)
(* else is done to the record meanwhile.                                    *)
ClearedAsAsked ==
  \A f \in Attribute :
    row[f] # Nil /\ row'[f] = Nil /\ status' # "none" =>
      \E r \in Request :
        /\ req'[r] = Idle /\ req[r].body[f] = Nil
        /\ req[r].surface = "rest" \/ f \in req[r].blanked

NothingClearedUnasked == [][ClearedAsAsked]_vars

============================================================================
