------------------------------ MODULE ApiKeys ------------------------------
(* API keys: creation by the dashboard, self-service minting of child keys, *)
(* and revocation that cascades to every descendant                         *)
(* (app/core/apikeys.py, app/features/admin/router.py).                     *)
(*                                                                          *)
(* All state is in the api_key table.  A handler runs as one request and    *)
(* interleaves with the others at its SQL statements; the row locks taken   *)
(* with FOR UPDATE are held until its commit or rollback.  The database is  *)
(* Postgres at READ COMMITTED: each statement reads what was committed when *)
(* it began.                                                                *)
EXTENDS ApiKeyScopes, Naturals, FiniteSets

CONSTANTS
  Key,                      \* ids of api_key rows
  Legacy,                   \* rows older than key expiry: they never expire
  LegacyScopes,             \* the scopes those rows carry
  NoKey,                    \* a NULL parent_key_id
  Owner,                    \* the labels that match 'appuser:<id>'
  OtherLabel,               \* any other created_by: an admin name, or NULL
  RequestedScopes,          \* the scope sets a caller may ask for
  Request,                  \* handlers that may be in flight together
  NoRequest,
  SELF_KEY_MAX_OUTSTANDING

ASSUME LegacyAssumption == Legacy \subseteq Key /\ LegacyScopes \subseteq Scope

ASSUME NullAssumption == NoKey \notin Key /\ NoRequest \notin Request /\ OtherLabel \notin Owner

ASSUME ScopesAssumption == RequestedScopes \subseteq SUBSET Scope

ASSUME CapAssumption == SELF_KEY_MAX_OUTSTANDING \in Nat

VARIABLES
  issued,      \* the rows of api_key
  parent,      \* parent_key_id
  scopes,
  created_by,
  revoked,     \* rows with revoked = true
  expired,     \* rows whose expires_at has passed
  lock,        \* who holds the FOR UPDATE lock of a row
  req          \* where each request is, and its local variables

table == <<issued, parent, scopes, created_by, revoked>>
vars == <<issued, parent, scopes, created_by, revoked, expired, lock, req>>

Phase == {"idle", "mint_lock", "mint_check", "mint_insert", "revoke_lock", "cascade"}

(* `key` is the calling key of a mint and the target of a revoke, `owner`   *)
(* the label in the request body, `wanted` the scopes asked for; `seen`,    *)
(* `frontier` and `todo` are the breadth-first walk of _cascade_revoke.     *)
Local == [phase : Phase, key : Key \cup {NoKey}, owner : Owner \cup {OtherLabel},
          wanted : SUBSET Scope,
          seen : SUBSET Key, frontier : SUBSET Key, todo : SUBSET Key]

Idle == [phase |-> "idle", key |-> NoKey, owner |-> OtherLabel, wanted |-> {},
         seen |-> {}, frontier |-> {}, todo |-> {}]

Init ==
  /\ issued = Legacy
  /\ parent = [k \in Key |-> NoKey]
  /\ scopes = [k \in Key |-> IF k \in Legacy THEN LegacyScopes ELSE {}]
  /\ created_by = [k \in Key |-> OtherLabel]
  /\ revoked = {}
  /\ expired = {}
  /\ lock = [k \in Key |-> NoRequest]
  /\ req = [r \in Request |-> Idle]

At(r, phase) == req[r].phase = phase

Unlocked(r, k) == lock[k] \in {NoRequest, r}

Children(S) == {c \in issued : parent[c] \in S}

Outstanding(k) == Children({k}) \ revoked

(* The request ends: a commit or a rollback gives its row locks back.       *)
Finish(r) ==
  /\ req' = [req EXCEPT ![r] = Idle]
  /\ lock' = [k \in Key |-> IF lock[k] = r THEN NoRequest ELSE lock[k]]

(* `verify_key` and the scope check of `require_api_key`.                   *)
Authenticates(k, needed) ==
  /\ k \in issued
  /\ k \notin revoked
  /\ k \notin expired
  /\ Covers(scopes[k], needed)

-----------------------------------------------------------------------------
(* POST /admin/keys: one INSERT, behind basic auth.                         *)
CreateKey(k, s) ==
  /\ k \notin issued
  /\ s \subseteq VALID_SCOPES
  /\ issued' = issued \cup {k}
  /\ parent' = [parent EXCEPT ![k] = NoKey]
  /\ scopes' = [scopes EXCEPT ![k] = s]
  /\ created_by' = [created_by EXCEPT ![k] = OtherLabel]
  /\ UNCHANGED <<revoked, expired, lock, req>>

(* 180 days pass for a key minted with default_key_expiry().                *)
Expire(k) ==
  /\ k \in issued \ (Legacy \cup expired)
  /\ expired' = expired \cup {k}
  /\ UNCHANGED <<table, lock, req>>

-----------------------------------------------------------------------------
(* POST /admin/keys/self.                                                   *)

(* require_api_key() and the rate limiter: both commit, no lock is kept.    *)
MintAuthenticate(r, k, owner, wanted) ==
  /\ At(r, "idle")
  /\ Authenticates(k, {})
  /\ req' = [req EXCEPT ![r] =
               [Idle EXCEPT !.phase = "mint_lock", !.key = k, !.owner = owner, !.wanted = wanted]]
  /\ UNCHANGED <<table, expired, lock>>

(* Faulty form: the caller's row is locked but not looked at again, which   *)
(* is what a bare SELECT .. FOR UPDATE of a loaded object does.             *)
MintLockStale(r) ==
  /\ At(r, "mint_lock")
  /\ Unlocked(r, req[r].key)
  /\ lock' = [lock EXCEPT ![req[r].key] = r]
  /\ req' = [req EXCEPT ![r].phase = "mint_check"]
  /\ UNCHANGED <<table, expired>>

(* db.refresh(caller, with_for_update=True), then the second look at        *)
(* caller.revoked: 401 when a revoke committed in between.                  *)
MintLock(r) ==
  LET k == req[r].key IN
  /\ At(r, "mint_lock")
  /\ Unlocked(r, k)
  /\ IF k \in revoked
       THEN Finish(r)
       ELSE /\ lock' = [lock EXCEPT ![k] = r]
            /\ req' = [req EXCEPT ![r].phase = "mint_check"]
  /\ UNCHANGED <<table, expired>>

(* Faulty forms: no comparison with the caller's own scopes; a cap that is  *)
(* reached one mint late.                                                   *)
MintAllowedAnyScope(r) ==
  /\ req[r].owner \in Owner
  /\ Cardinality(Outstanding(req[r].key)) < SELF_KEY_MAX_OUTSTANDING
  /\ req[r].wanted \subseteq VALID_SCOPES

MintAllowedOneMore(r) ==
  /\ req[r].owner \in Owner
  /\ Cardinality(Outstanding(req[r].key)) <= SELF_KEY_MAX_OUTSTANDING
  /\ req[r].wanted \subseteq VALID_SCOPES
  /\ Covers(scopes[req[r].key], req[r].wanted)

(* Owner label, outstanding children, valid scopes, no scope the caller     *)
(* lacks: any failure is an HTTP error and a rollback.                      *)
MintAllowed(r) ==
  /\ req[r].owner \in Owner
  /\ Cardinality(Outstanding(req[r].key)) < SELF_KEY_MAX_OUTSTANDING
  /\ req[r].wanted \subseteq VALID_SCOPES
  /\ Covers(scopes[req[r].key], req[r].wanted)

MintCheck(r) ==
  /\ At(r, "mint_check")
  /\ IF MintAllowed(r)
       THEN req' = [req EXCEPT ![r].phase = "mint_insert"] /\ UNCHANGED lock
       ELSE Finish(r)
  /\ UNCHANGED <<table, expired>>

MintInsert(r, c) ==
  /\ At(r, "mint_insert")
  /\ c \notin issued
  /\ issued' = issued \cup {c}
  /\ parent' = [parent EXCEPT ![c] = req[r].key]
  /\ scopes' = [scopes EXCEPT ![c] = req[r].wanted]
  /\ created_by' = [created_by EXCEPT ![c] = req[r].owner]
  /\ Finish(r)
  /\ UNCHANGED <<revoked, expired>>

(* The bound of the model: with every id of Key in use the insert is        *)
(* dropped, as if the request had been aborted.                             *)
MintOutOfIds(r) ==
  /\ At(r, "mint_insert")
  /\ issued = Key
  /\ Finish(r)
  /\ UNCHANGED <<table, expired>>

-----------------------------------------------------------------------------
(* POST /admin/keys/{id}/revoke and /admin/keys/revoke-for-owner.           *)

(* The owner of the request stays OtherLabel on the basic-auth route.       *)
RevokeByAdmin(r, k) ==
  /\ At(r, "idle")
  /\ req' = [req EXCEPT ![r] = [Idle EXCEPT !.phase = "revoke_lock", !.key = k]]
  /\ UNCHANGED <<table, expired, lock>>

(* A caller with write:keys that is not itself a dashboard user's key.      *)
RevokeForOwner(r, caller, k, owner) ==
  /\ At(r, "idle")
  /\ Authenticates(caller, {WriteOf("keys")})
  /\ created_by[caller] \notin Owner
  /\ req' = [req EXCEPT ![r] = [Idle EXCEPT !.phase = "revoke_lock", !.key = k, !.owner = owner]]
  /\ UNCHANGED <<table, expired, lock>>

(* Faulty form: no 404 for a missing row.                                   *)
RevokeLockAnyRow(r) ==
  LET k == req[r].key IN
  /\ At(r, "revoke_lock")
  /\ Unlocked(r, k)
  /\ IF req[r].owner \in {OtherLabel, created_by[k]}
       THEN /\ lock' = [lock EXCEPT ![k] = r]
            /\ req' = [req EXCEPT ![r].phase = "cascade", ![r].seen = {k}, ![r].frontier = {k}]
       ELSE Finish(r)
  /\ UNCHANGED <<table, expired>>

(* SELECT .. FOR UPDATE of the target; 404 when it is missing or, on the    *)
(* owner's route, somebody else's.                                          *)
RevokeLock(r) ==
  LET k == req[r].key IN
  /\ At(r, "revoke_lock")
  /\ Unlocked(r, k)
  /\ IF k \in issued /\ req[r].owner \in {OtherLabel, created_by[k]}
       THEN /\ lock' = [lock EXCEPT ![k] = r]
            /\ req' = [req EXCEPT ![r].phase = "cascade", ![r].seen = {k}, ![r].frontier = {k}]
       ELSE Finish(r)
  /\ UNCHANGED <<table, expired>>

(* Faulty form: the walk also climbs to the parents.                        *)
CascadeSelectBothWays(r) ==
  LET parents == {parent[k] : k \in req[r].frontier} \ ({NoKey} \cup req[r].seen) IN
  /\ At(r, "cascade")
  /\ req[r].todo = {}
  /\ req[r].frontier # {}
  /\ req' = [req EXCEPT ![r].todo = Children(req[r].frontier) \cup parents, ![r].frontier = {}]
  /\ UNCHANGED <<table, expired, lock>>

(* Faulty form: the keys that carry the label of the target go as well.     *)
CascadeSelectByLabel(r) ==
  LET label == created_by[req[r].key] IN
  /\ At(r, "cascade")
  /\ req[r].todo = {}
  /\ req[r].frontier # {}
  /\ req' = [req EXCEPT ![r].todo = Children(req[r].frontier) \cup {k \in issued : created_by[k] = label},
                        ![r].frontier = {}]
  /\ UNCHANGED <<table, expired, lock>>

(* One level of _cascade_revoke: the statement's snapshot fixes which rows  *)
(* it will lock ...                                                         *)
CascadeSelect(r) ==
  /\ At(r, "cascade")
  /\ req[r].todo = {}
  /\ req[r].frontier # {}
  /\ req' = [req EXCEPT ![r].todo = Children(req[r].frontier), ![r].frontier = {}]
  /\ UNCHANGED <<table, expired, lock>>

(* ... and it locks them one at a time, waiting for whoever holds one.      *)
CascadeLock(r, c) ==
  /\ At(r, "cascade")
  /\ c \in req[r].todo
  /\ Unlocked(r, c)
  /\ lock' = [lock EXCEPT ![c] = r]
  /\ req' = [req EXCEPT ![r].todo = @ \ {c}, ![r].seen = @ \cup {c},
                        ![r].frontier = @ \cup ({c} \ req[r].seen)]
  /\ UNCHANGED <<table, expired>>

RevokeCommit(r) ==
  /\ At(r, "cascade")
  /\ req[r].todo = {}
  /\ req[r].frontier = {}
  /\ revoked' = revoked \cup req[r].seen
  /\ Finish(r)
  /\ UNCHANGED <<issued, parent, scopes, created_by, expired>>

(* The request dies before its commit: a rate-limit refusal, a database     *)
(* error, or the serverless instance going away.  Postgres rolls back.      *)
Abort(r) ==
  /\ ~ At(r, "idle")
  /\ Finish(r)
  /\ UNCHANGED <<table, expired>>

-----------------------------------------------------------------------------
MintStep(r) ==
  \/ MintLock(r)
  \/ MintCheck(r)
  \/ \E c \in Key : MintInsert(r, c)
  \/ MintOutOfIds(r)

RevokeStep(r) ==
  \/ RevokeLock(r)
  \/ CascadeSelect(r)
  \/ \E c \in Key : CascadeLock(r, c)
  \/ RevokeCommit(r)

Arrive(r) ==
  \/ \E k \in Key, o \in Owner \cup {OtherLabel}, s \in RequestedScopes : MintAuthenticate(r, k, o, s)
  \/ \E k \in Key : RevokeByAdmin(r, k)
  \/ \E caller, k \in Key, o \in Owner : RevokeForOwner(r, caller, k, o)

Next ==
  \/ \E k \in Key, s \in RequestedScopes : CreateKey(k, s)
  \/ \E k \in Key : Expire(k)
  \/ \E r \in Request : Arrive(r) \/ MintStep(r) \/ RevokeStep(r) \/ Abort(r)

Spec == Init /\ [][Next]_vars

-----------------------------------------------------------------------------
TypeOK ==
  /\ issued \subseteq Key
  /\ parent \in [Key -> Key \cup {NoKey}]
  /\ scopes \in [Key -> SUBSET Scope]
  /\ created_by \in [Key -> Owner \cup {OtherLabel}]
  /\ revoked \subseteq issued
  /\ expired \subseteq issued
  /\ lock \in [Key -> Request \cup {NoRequest}]
  /\ req \in [Request -> Local]

(* k and the keys it was minted from: in every set that holds k and, with a *)
(* key, the key's parent.                                                   *)
Lineage(k) ==
  {a \in Key : \A S \in SUBSET Key :
                 (k \in S /\ \A x \in S : parent[x] \in S \cup {NoKey}) => a \in S}

(* No key outlives an ancestor: once a revoke has committed, nothing minted *)
(* below the revoked key, at any depth and however the mint raced with the  *)
(* revoke, is still live (_cascade_revoke; the re-check in self_create_key). *)
RevocationReachesDescendants ==
  \A k \in issued : Lineage(k) \cap revoked # {} => k \in revoked

(* A key never does what a key it descends from could not: the subset check *)
(* of /keys/self composes along a chain of mints, isolated modules included. *)
LineageCoversScopes ==
  \A k \in issued : \A a \in Lineage(k) : Covers(scopes[a], scopes[k])

(* A calling key never has more live children than the cap, however many    *)
(* mints run at once (the count is taken under the caller's row lock).      *)
OutstandingCap ==
  \A k \in issued : Cardinality(Outstanding(k)) <= SELF_KEY_MAX_OUTSTANDING

(* The requests never wait for each other's row locks in a circle: whenever *)
(* some request is in a transaction, one of those holding a lock can go on. *)
Waiting(r) ==
  \/ At(r, "cascade") /\ req[r].todo # {} /\ \A c \in req[r].todo : ~ Unlocked(r, c)
  \/ (At(r, "mint_lock") \/ At(r, "revoke_lock")) /\ ~ Unlocked(r, req[r].key)

NoLockCycle ==
  (\E r \in Request : ~ At(r, "idle")) => \E r \in Request : ~ At(r, "idle") /\ ~ Waiting(r)

(* A revoke takes down its target and the keys minted below it, all of      *)
(* those that are there when it commits and nothing above or beside them,   *)
(* whatever was minted or revoked while it walked; and one on behalf of an  *)
(* owner starts from a key of that owner (`_cascade_revoke`,                *)
(* `revoke_key_for_owner`).                                                 *)
TreeTaken ==
  revoked' # revoked =>
    \E r \in Request :
      /\ revoked' = revoked \cup {k \in issued : req[r].key \in Lineage(k)}
      /\ req[r].owner \in {OtherLabel, created_by[req[r].key]}

RevocationTakesTree == [][TreeTaken]_vars

============================================================================
