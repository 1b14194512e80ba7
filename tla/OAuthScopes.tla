---------------------------- MODULE OAuthScopes ----------------------------
(* What an OAuth grant may carry: the user's dashboard role, the coarse     *)
(* scopes a client asks for, their expansion into module scopes and the way *)
(* back (oauth/service.py, oauth/users.py, oauth/router.py).                *)
EXTENDS ApiKeyScopes

CONSTANT NoRole    \* a user without a role row, or no RBAC tables at all

SUPPORTED_SCOPES == Verb

ENFORCED_MODULES == SCOPE_ISOLATED_MODULES \cup {"members", "people", "documents"}

(* A row of app_role: its modules and write_modules; "admin" is a flag.     *)
Role == [modules : SUBSET (ALL_MODULES \cup {"admin"}),
         write_modules : SUBSET (ALL_MODULES \cup {"admin"})]

ASSUME NoRoleAssumption == NoRole \notin Role

(* `allowed_scopes_for`: what the user may grant at all; `legacy` is the    *)
(* old role column, used when there is no role row.                         *)
AllowedScopesFor(role, legacy) ==
  IF role = NoRole
    THEN CASE legacy = "admin" -> Verb
           [] legacy = "exec"  -> Verb \ {"ingest"}
           [] OTHER            -> {"read"}
    ELSE LET admin == "admin" \in role.modules IN
         {v \in Verb :
            \/ admin
            \/ v = "read" /\ role.modules # {}
            \/ v = "write" /\ role.write_modules # {}
            \/ v = "trigger" /\ "meetings" \in role.modules \cap role.write_modules}

ReadModules(role) == IF "admin" \in role.modules THEN ALL_MODULES ELSE role.modules

WriteModules(role) == IF "admin" \in role.modules THEN ALL_MODULES ELSE role.write_modules

(* The scopes of one verb: one per module, and the blanket scope as soon as *)
(* a module has no scope of its own.                                        *)
Expand(v, modules) ==
  {[verb |-> v, module |-> m] : m \in modules}
  \cup {s \in {Coarse(v)} : ~ (modules \subseteq ENFORCED_MODULES)}

(* `scopes_for_grant`.                                                      *)
ScopesForGrant(role, coarse) ==
  IF role = NoRole
    THEN {Coarse(v) : v \in coarse}
    ELSE {Coarse(v) : v \in coarse \cap {"trigger", "ingest"}}
         \cup (IF "read" \in coarse THEN Expand("read", ReadModules(role)) ELSE {})
         \cup (IF "write" \in coarse THEN Expand("write", WriteModules(role)) ELSE {})

(* `_coarse_grant`: the verbs a stored scope list implies.                  *)
CoarseGrant(scopes) ==
  {v \in {"read", "write"} : \E s \in scopes : s.verb = v}
  \cup {v \in {"trigger", "ingest"} : Coarse(v) \in scopes}

(* `_norm_scopes`: nothing asked for means everything the client may ask;   *)
(* a client registered without a scope may ask for all.                     *)
NormScopes(requested, client_scope) ==
  LET pool == IF client_scope = {} THEN SUPPORTED_SCOPES ELSE SUPPORTED_SCOPES \cap client_scope
  IN  IF requested = {} THEN pool ELSE pool \cap requested

(* Faulty form: the live role decides alone.                                *)
RefreshedByRole(original, role, asked) ==
  LET kept == ScopesForGrant(role, CoarseGrant(original))
      narrowed == kept \cap asked
  IN  IF narrowed = {} THEN kept ELSE narrowed

(* The refresh of a grant: only what the live role still gives, and of that *)
(* only what the client asks for, unless it asks for nothing it has.        *)
Refreshed(original, role, asked) ==
  LET kept == original \cap ScopesForGrant(role, CoarseGrant(original))
      narrowed == kept \cap asked
  IN  IF narrowed = {} THEN kept ELSE narrowed

============================================================================
