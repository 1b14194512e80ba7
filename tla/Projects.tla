------------------------------ MODULE Projects ------------------------------
(* The projects the club shows: `create_project`, `update_project` and      *)
(* their neighbours in app/features/projects/service.py.  Publishing over   *)
(* the API stands for the approval, while dsec-hub approves and rejects in  *)
(* the same rows.  A session writes what differs from the row it loaded.    *)
EXTENDS Integers, FiniteSets

CONSTANTS
  Project, Slug, Request, Nil,
  Keep,         \* an attribute the body does not name
  WRITES        \* bound of the model

ProjectsAssumption == Nil # Keep /\ {Nil, Keep} \cap Slug = {} /\ WRITES \in Nat

VARIABLES
  rows, slug, public, review,   \* is_public and review_state
  writes, req

vars == <<rows, slug, public, review, writes, req>>
table == <<rows, slug, public, review>>

State == {"draft", "approved", "rejected"}

Idle == [phase |-> "idle", project |-> Nil, slug |-> Keep, public |-> Keep, review |-> Keep]

Init ==
  /\ rows = {}
  /\ slug = [p \in Project |-> Nil]
  /\ public = [p \in Project |-> FALSE]
  /\ review = [p \in Project |-> "draft"]
  /\ writes = 0
  /\ req = [r \in Request |-> Idle]

At(r, phase) == req[r].phase = phase

Leave(r) == req' = [req EXCEPT ![r] = Idle]

Changed(new, old) == IF new = old THEN Keep ELSE new

Apply(old, change) == IF change = Keep THEN old ELSE change

-----------------------------------------------------------------------------
(* `_apply_publish_gate`: on the way to public the body gets an approval.   *)
Gate(p, pub) == IF pub = TRUE /\ ~ public[p] THEN "approved" ELSE Keep

(* PATCH of a project that is there, or POST of a new one.                  *)
Load(r, p, s, pub) ==
  /\ At(r, "idle") /\ writes < WRITES
  /\ p \in rows \/ \A q \in Request : req[q].project # p
  /\ writes' = writes + 1
  /\ req' = [req EXCEPT ![r] =
       [phase |-> IF s \in {Keep, slug[p]} THEN "commit" ELSE "check", project |-> p,
        slug |-> Changed(s, slug[p]), public |-> Changed(pub, public[p]),
        review |-> Changed(Gate(p, pub), review[p])]]
  /\ UNCHANGED table

Taken(p, s) == \E o \in rows \ {p} : slug[o] = s

(* The SELECT for a slug that was asked for: 422 when another project has   *)
(* it.  (`_unique_slug` looks in the same way for one that is free.)        *)
CheckSlug(r) ==
  /\ At(r, "check")
  /\ IF Taken(req[r].project, req[r].slug) THEN Leave(r)
                                           ELSE req' = [req EXCEPT ![r].phase = "commit"]
  /\ UNCHANGED <<table, writes>>

(* Faulty form: the gate of the service is the only one.                    *)
PassesAlways(pub, state) == TRUE

(* ck_project_public_requires_approved.                                     *)
Passes(pub, state) == pub => state = "approved"

(* Faulty form: the slug was looked up before.                              *)
UniqueAlready(p, s) == TRUE

(* The unique index of project.slug.                                        *)
Unique(p, s) == s = Nil \/ ~ Taken(p, s)

Commit(r) ==
  LET p == req[r].project IN
  /\ At(r, "commit")
  /\ rows' = rows \cup {p}
  /\ slug' = [slug EXCEPT ![p] = Apply(@, req[r].slug)]
  /\ public' = [public EXCEPT ![p] = Apply(@, req[r].public)]
  /\ review' = [review EXCEPT ![p] = Apply(@, req[r].review)]
  /\ Passes(public'[p], review'[p])
  /\ Unique(p, slug'[p])
  /\ Leave(r)
  /\ UNCHANGED writes

(* A commit that the CHECK or the index refuses; or the handler dies.       *)
Fail(r) ==
  /\ ~ At(r, "idle")
  /\ Leave(r)
  /\ UNCHANGED <<table, writes>>

(* dsec-hub: a person approves, publishes, or rejects and takes down.       *)
Moderate(p) ==
  /\ p \in rows
  /\ \E state \in State, pub \in BOOLEAN :
       /\ pub => state = "approved"
       /\ review' = [review EXCEPT ![p] = state]
       /\ public' = [public EXCEPT ![p] = pub]
  /\ UNCHANGED <<rows, slug, writes, req>>

Next ==
  \/ \E r \in Request :
       \/ \E p \in Project, s \in Slug \cup {Keep}, pub \in BOOLEAN \cup {Keep} :
            Load(r, p, s, pub)
       \/ CheckSlug(r) \/ Commit(r) \/ Fail(r)
  \/ \E p \in Project : Moderate(p)

Spec == Init /\ [][Next]_vars

-----------------------------------------------------------------------------
TypeOK ==
  /\ rows \subseteq Project
  /\ slug \in [Project -> Slug \cup {Nil}]
  /\ public \in [Project -> BOOLEAN] /\ review \in [Project -> State]

(* "nothing reaches the public site unless a human has approved it": a      *)
(* project that is rejected in the hub while a request publishes it, on the *)
(* approval it has loaded, does not come out public and rejected.           *)
PublicIsApproved == \A p \in Project : public[p] => review[p] = "approved"

(* Two projects never share an address, however requests race for a slug.   *)
OneProjectPerSlug ==
  \A p, q \in rows : slug[p] # Nil /\ slug[p] = slug[q] => p = q

============================================================================
