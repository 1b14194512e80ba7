--------------------------- MODULE ApiKeyScopes ---------------------------
(* The scope algebra of app/core/apikeys.py: what a credential that carries *)
(* a set of scopes may do.  A scope string "verb" or "verb:module" is the   *)
(* record [verb, module]; a coarse scope ("read", "write", "trigger",       *)
(* "ingest") has the module NoModule, as `_module_of` gives it None.        *)

SCOPE_ISOLATED_MODULES == {"finance", "sponsors"}

NoModule == "-"

(* The modules with scopes of their own on API keys, and the workspace      *)
(* modules a role may name (ALL_MODULES of oauth/service.py).               *)
KeyModule == SCOPE_ISOLATED_MODULES
             \cup {"games", "members", "people", "documents", "membercard", "keys"}

ALL_MODULES == {"events", "people", "sponsors", "finance", "tasks",
                "projects", "members", "meetings", "documents"}

(* A role that has "admin" among its write_modules alone is given the scope *)
(* "write:admin", which nothing asks for.                                   *)
Module == KeyModule \cup ALL_MODULES \cup {"admin"}

Verb == {"read", "write", "trigger", "ingest"}

Scope == [verb : Verb, module : Module \cup {NoModule}]

Coarse(v) == [verb |-> v, module |-> NoModule]

ReadOf(m) == [verb |-> "read", module |-> m]

WriteOf(m) == [verb |-> "write", module |-> m]

(* The write side of `members` and `membercard` and the read side of `keys` *)
(* are not scopes a key can be minted with.                                 *)
VALID_SCOPES ==
  {Coarse(v) : v \in Verb}
  \cup {ReadOf(m) : m \in KeyModule \ {"keys"}}
  \cup {WriteOf(m) : m \in KeyModule \ {"members", "membercard"}}

Granular(s, v) == s.verb = v /\ s.module # NoModule

(* Faulty form: a coarse scope reaches into every module.                   *)
HasScopeAnywhere(scopes, required) ==
  \/ required \in scopes
  \/ required.verb \in {"read", "write"} /\ Coarse("write") \in scopes
  \/ required.verb = "read" /\ Coarse("read") \in scopes
  \/ Granular(required, "read") /\ WriteOf(required.module) \in scopes

(* `has_scope`: an exact match, the coarse supersets (never into an isolated *)
(* module), or write:X standing for read:X.                                  *)
HasScope(scopes, required) ==
  \/ required \in scopes
  \/ /\ required.module \notin SCOPE_ISOLATED_MODULES
     /\ \/ /\ Coarse("write") \in scopes
           /\ \/ required = Coarse("read")
              \/ Granular(required, "read")
              \/ Granular(required, "write")
        \/ Coarse("read") \in scopes /\ Granular(required, "read")
  \/ Granular(required, "read") /\ WriteOf(required.module) \in scopes

Covers(granted, requested) == \A s \in requested : HasScope(granted, s)

============================================================================
