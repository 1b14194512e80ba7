----------------------------- MODULE Assignment -----------------------------
(* Who does a task: its assignee, its other owners, and the notice to the   *)
(* assignee, as `create_task` and `update_task` of app/features/tasks/      *)
(* service.py, `set_owners` of app/core/owners.py and app/core/notify.py    *)
(* handle them.  The row is committed first, the owners are replaced in a   *)
(* second transaction, and the notice is sent last.  An UPDATE writes what  *)
(* differs from the row as it was loaded; after a commit the row is loaded  *)
(* anew.                                                                    *)
EXTENDS Integers, FiniteSets

CONSTANTS
  Person, Request, Nil,
  Keep,       \* an attribute the body does not name
  Teams,      \* the sets of other owners that bodies ask for
  UPDATES     \* bound of the model

AssignmentAssumption ==
  /\ Nil # Keep /\ {Nil, Keep} \cap Person = {} /\ Teams \subseteq SUBSET Person
  /\ UPDATES \in Nat

VARIABLES
  assignee, owners,   \* the rows of task and task_owner
  there,      \* the task has been created
  untold,     \* history: the assignee has not been told since being assigned
  asked,      \* history: the owners that the last replacement asked for
  mixed,      \* history: no replacement has run alone since two overlapped
  faults,     \* history: a handler died, or a notice was lost
  updates,    \* history
  req

vars == <<assignee, owners, there, untold, asked, mixed, faults, updates, req>>
row == <<assignee, there, untold>>
history == <<asked, mixed, faults, updates>>

Phase == {"idle", "commit", "refresh", "delete", "deleting", "insert", "reload", "notify"}

(* `body` and `others` are what the request asks for, `prev` the assignee   *)
(* it loaded, `seen` the one it sees, `gone` the owners whose rows its      *)
(* DELETE works on; `alone` says that no other replacement has overlapped   *)
(* its own.                                                                 *)
Idle == [phase |-> "idle", body |-> Keep, others |-> Keep, prev |-> Nil, seen |-> Nil,
         gone |-> {}, alone |-> TRUE]

Init ==
  /\ assignee = Nil /\ owners = {} /\ there = FALSE /\ untold = FALSE
  /\ asked = {} /\ mixed = FALSE /\ faults = FALSE /\ updates = 0
  /\ req = [r \in Request |-> Idle]

At(r, phase) == req[r].phase = phase

Leave(r) == req' = [req EXCEPT ![r] = Idle]

(* PATCH, or POST, which is the first.                                      *)
Load(r, body, others) ==
  /\ At(r, "idle") /\ updates < UPDATES
  /\ there \/ \A q \in Request : At(q, "idle")
  /\ updates' = updates + 1
  /\ req' = [req EXCEPT ![r] = [Idle EXCEPT !.phase = "commit", !.body = body,
                                            !.others = others, !.prev = assignee]]
  /\ UNCHANGED <<row, owners, asked, mixed, faults>>

Assign(p) ==
  /\ assignee' = p
  /\ untold' = IF p = assignee THEN untold ELSE p # Nil

(* Faulty form: the UPDATE names every attribute of the body.               *)
CommitRowWhole(r) ==
  /\ At(r, "commit")
  /\ there' = TRUE
  /\ IF req[r].body = Keep THEN UNCHANGED <<assignee, untold>> ELSE Assign(req[r].body)
  /\ req' = [req EXCEPT ![r].phase = "refresh"]
  /\ UNCHANGED <<owners, history>>

CommitRow(r) ==
  /\ At(r, "commit")
  /\ there' = TRUE
  /\ IF req[r].body \in {Keep, req[r].prev} THEN UNCHANGED <<assignee, untold>>
                                            ELSE Assign(req[r].body)
  /\ req' = [req EXCEPT ![r].phase = "refresh"]
  /\ UNCHANGED <<owners, history>>

(* `db.refresh`; the assignee is dropped from the owners that are asked for.*)
Refresh(r) ==
  /\ At(r, "refresh")
  /\ req' = IF req[r].others = Keep
              THEN [req EXCEPT ![r].phase = "notify", ![r].seen = assignee]
              ELSE [req EXCEPT ![r].phase = "delete", ![r].others = @ \ {assignee}]
  /\ UNCHANGED <<row, owners, history>>

-----------------------------------------------------------------------------
(* `set_owners`, one transaction at READ COMMITTED.                         *)
Replacing(q) == At(q, "deleting") \/ At(q, "insert")

(* The DELETE begins: it works on the rows that are committed now, and does *)
(* not see what another replacement inserts later.                          *)
DeleteOwners(r) ==
  LET others == {q \in Request : Replacing(q)} IN
  /\ At(r, "delete")
  /\ req' = [q \in Request |->
       CASE q = r -> [req[r] EXCEPT !.phase = "deleting", !.gone = owners, !.alone = others = {}]
         [] q \in others -> [req[q] EXCEPT !.alone = FALSE]
         [] OTHER -> req[q]]
  /\ mixed' = (mixed \/ others # {})
  /\ UNCHANGED <<row, owners, asked, faults, updates>>

(* It waits for another that has deleted one of its rows: if that one       *)
(* commits the row is gone, if it is rolled back the row is deleted here.   *)
DeleteDone(r) ==
  /\ At(r, "deleting")
  /\ \A q \in Request : At(q, "insert") => req[q].gone \cap req[r].gone = {}
  /\ req' = [req EXCEPT ![r].phase = "insert"]
  /\ UNCHANGED <<row, owners, history>>

(* Faulty form: the owners are added.                                       *)
InsertOwnersOnly(r) ==
  /\ At(r, "insert")
  /\ owners' = owners \cup req[r].others
  /\ asked' = req[r].others
  /\ mixed' = (mixed /\ ~ req[r].alone)
  /\ req' = [req EXCEPT ![r].phase = "reload", ![r].gone = {}]
  /\ UNCHANGED <<row, faults, updates>>

(* INSERT and commit: the rows of another's DELETE that this one has        *)
(* replaced are gone.  The unique key waits for an owner that another is    *)
(* deleting, and refuses one that another has inserted, a 500 that leaves   *)
(* the owners as they are.                                                  *)
InsertOwners(r) ==
  LET left == owners \ req[r].gone IN
  /\ At(r, "insert")
  /\ \A q \in Request \ {r} : At(q, "insert") => req[q].gone \cap req[r].others = {}
  /\ IF left \cap req[r].others # {}
       THEN Leave(r) /\ faults' = TRUE /\ UNCHANGED <<owners, asked, mixed>>
       ELSE /\ owners' = left \cup req[r].others
            /\ asked' = req[r].others
            /\ mixed' = (mixed /\ ~ req[r].alone)
            /\ req' = [q \in Request |->
                 IF q = r THEN [req[r] EXCEPT !.phase = "reload", !.gone = {}]
                          ELSE [req[q] EXCEPT !.gone = @ \ req[r].gone]]
            /\ UNCHANGED faults
  /\ UNCHANGED <<row, updates>>

-----------------------------------------------------------------------------
(* The commit has expired the row.                                          *)
Reload(r) ==
  /\ At(r, "reload")
  /\ req' = [req EXCEPT ![r].phase = "notify", ![r].seen = assignee]
  /\ UNCHANGED <<row, owners, history>>

(* `notify_task_assigned` when the body names an assignee and the one it    *)
(* sees differs from the one it loaded; the hub may not hear of it.         *)
Notify(r) ==
  LET reassigned == req[r].body # Keep /\ req[r].seen \notin {Nil, req[r].prev} IN
  /\ At(r, "notify")
  /\ \/ /\ untold' = (untold /\ ~ (reassigned /\ req[r].seen = assignee))
        /\ UNCHANGED faults
     \/ reassigned /\ faults' = TRUE /\ UNCHANGED untold
  /\ Leave(r)
  /\ UNCHANGED <<assignee, there, owners, asked, mixed, updates>>

(* The handler dies; an open transaction is rolled back.                    *)
Die(r) ==
  /\ ~ At(r, "idle")
  /\ faults' = TRUE
  /\ Leave(r)
  /\ UNCHANGED <<row, owners, asked, mixed, updates>>

Next ==
  \E r \in Request :
    \/ \E body \in Person \cup {Nil, Keep}, others \in Teams \cup {Keep} :
         Load(r, body, others)
    \/ CommitRow(r) \/ Refresh(r) \/ DeleteOwners(r) \/ DeleteDone(r)
    \/ InsertOwners(r) \/ Reload(r) \/ Notify(r) \/ Die(r)

Spec == Init /\ [][Next]_vars

-----------------------------------------------------------------------------
TypeOK ==
  /\ assignee \in Person \cup {Nil} /\ owners \subseteq Person
  /\ asked \subseteq Person
  /\ \A r \in Request : req[r].phase \in Phase /\ req[r].seen \in Person \cup {Nil}

(* Whoever a task ends up with has been told so since, in whatever order    *)
(* the updates ran: only a notice that was lost, or a handler that did not  *)
(* get to it, leaves an assignee who does not know (`update_task`).         *)
AssigneeTold ==
  (\A r \in Request : At(r, "idle")) /\ ~ faults => ~ untold

(* The owners are those the last replacement asked for, whole, whatever     *)
(* dies between its two transactions and however many came before; only     *)
(* replacements that overlap can mix, or lose to the unique key, until one  *)
(* runs alone (`set_owners`).                                               *)
OwnersOfLastRequest == mixed \/ owners = asked

============================================================================
