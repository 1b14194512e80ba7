---------------------------- MODULE OAuthTokens ----------------------------
(* The OAuth grants behind the MCP connector: authorization codes, the      *)
(* access and refresh pairs they turn into, rotation, and the ways a grant  *)
(* ends (app/features/oauth/service.py and router.py, the client revocation *)
(* of app/features/admin/router.py).                                        *)
(*                                                                          *)
(* All state is in the tables oauth_client, oauth_auth_code, oauth_token    *)
(* and app_user.  A handler is a sequence of statements and commits that    *)
(* take no row lock before they write; handlers of different workers        *)
(* interleave between them.                                                 *)
EXTENDS OAuthScopes, Naturals, FiniteSets

CONSTANTS
  Client, User,
  Code,              \* rows of oauth_auth_code that can be inserted
  Token,             \* rows of oauth_token that can be inserted
  Request,           \* handlers in flight together
  GrantRequests,     \* the coarse scope sets a client may ask for
  RefreshRequests,   \* the scope parameters of a refresh
  UserRoles,         \* the roles the hub may give a user
  Nil

ASSUME NilAssumption == Nil \notin Client \cup User \cup Code \cup Token

ASSUME RequestAssumption ==
  /\ GrantRequests \subseteq SUBSET Verb
  /\ RefreshRequests \subseteq SUBSET Scope
  /\ UserRoles \subseteq Role \cup {NoRole}
  /\ IsFiniteSet(Request)

VARIABLES
  client,    \* "unregistered", "active" or "revoked"
  user,      \* is_active, and the linked role
  code,      \* the rows of oauth_auth_code, Nil where there is none
  token,     \* the rows of oauth_token, Nil where there is none
  overlapped, \* history: handlers have been in flight together
  req

tables == <<client, user, code, token>>
vars == <<client, user, code, token, overlapped, req>>

(* `used` is consumed = true; `late` is now > expires_at.                   *)
CodeRow == [client : Client, user : User, scope : SUBSET Scope, used : BOOLEAN, late : BOOLEAN]

(* `stale` and `dead` are the passing of access_expires_at and of           *)
(* refresh_expires_at.  `code` and `from` are history, no column holds      *)
(* them: the code the grant began with and the pair that was rotated.       *)
TokenRow == [client : Client, user : User, scope : SUBSET Scope, revoked : BOOLEAN,
             stale : BOOLEAN, dead : BOOLEAN, code : Code, from : Token \cup {Nil}]

ASSUME RowAssumption == Nil \notin CodeRow \cup TokenRow

Phase == {"idle", "code_insert", "exchange", "consume", "refresh", "account", "role",
          "rotate", "issue", "family", "family_write", "client_write"}

(* What a handler holds in local variables.                                 *)
Local == [phase : Phase, client : Client \cup {Nil}, user : User \cup {Nil},
          code : Code \cup {Nil}, token : Token \cup {Nil},
          scope : SUBSET Scope, rows : SUBSET Token]

Idle == [phase |-> "idle", client |-> Nil, user |-> Nil, code |-> Nil, token |-> Nil,
         scope |-> {}, rows |-> {}]

Init ==
  /\ client = [c \in Client |-> "unregistered"]
  /\ user \in [User -> [active : {TRUE}, role : UserRoles]]
  /\ code = [c \in Code |-> Nil]
  /\ token = [t \in Token |-> Nil]
  /\ overlapped = FALSE
  /\ req = [r \in Request |-> Idle]

At(r, phase) == req[r].phase = phase

Go(r, local) == req' = [req EXCEPT ![r] = local]

End(r) == Go(r, Idle)

Codes == {c \in Code : code[c] # Nil}

Tokens == {t \in Token : token[t] # Nil}

Live(t) == t \in Tokens /\ ~ token[t].revoked

Family(cl, u) == {t \in Tokens : token[t].client = cl /\ token[t].user = u}

Revoke(rows) == token' = [t \in Token |-> IF t \in rows THEN [token[t] EXCEPT !.revoked = TRUE]
                                                       ELSE token[t]]

(* The only read path of oauth_client: `get_client` hides revoked clients.  *)
Known(cl) == client[cl] = "active"

(* Faulty form: access_expires_at is not looked at.                         *)
AcceptedAnyTime(t) == Live(t) /\ user[token[t].user].active

(* `verify_access_token`.                                                   *)
Accepted(t) == Live(t) /\ ~ token[t].stale /\ user[token[t].user].active

-----------------------------------------------------------------------------
(* POST /oauth/register: anyone may register a client.                      *)
Register(cl) ==
  /\ client[cl] = "unregistered"
  /\ client' = [client EXCEPT ![cl] = "active"]
  /\ UNCHANGED <<user, code, token, req>>

(* `_role_perms`: a user without a role row and a query that fails give the *)
(* same answer.                                                             *)
RolesRead(u) == {user[u].role, NoRole}

(* POST /oauth/authorize with the right password: the code carries what the *)
(* client asked for, bounded by the role of the user, which is read twice.  *)
(* "exec" is the default of the old role column.                            *)
Authorize(r, cl, u, requested) ==
  /\ At(r, "idle")
  /\ Known(cl)
  /\ user[u].active
  /\ \E first, second \in RolesRead(u) :
       LET coarse == NormScopes(requested, {}) \cap AllowedScopesFor(first, "exec")
           granted == ScopesForGrant(second, coarse)
       IN  /\ granted # {}
           /\ Go(r, [Idle EXCEPT !.phase = "code_insert", !.client = cl, !.user = u, !.scope = granted])
  /\ UNCHANGED tables

CodeInsert(r, c) ==
  /\ At(r, "code_insert")
  /\ c \notin Codes
  /\ code' = [code EXCEPT ![c] = [client |-> req[r].client, user |-> req[r].user,
                                  scope |-> req[r].scope, used |-> FALSE, late |-> FALSE]]
  /\ End(r)
  /\ UNCHANGED <<client, user, token>>

-----------------------------------------------------------------------------
(* POST /oauth/token, grant_type=authorization_code.                        *)
Exchange(r, cl, c) ==
  /\ At(r, "idle")
  /\ Known(cl)
  /\ c \in Codes
  /\ Go(r, [Idle EXCEPT !.phase = "exchange", !.client = cl, !.code = c])
  /\ UNCHANGED tables

(* Faulty forms: the pair is issued to nobody; a spent code is not told     *)
(* from a fresh one.                                                        *)
ReadCodeForgetsUser(r) ==
  LET row == code[req[r].code] IN
  /\ At(r, "exchange")
  /\ \/ /\ ~ row.used /\ ~ row.late /\ row.client = req[r].client
        /\ Go(r, [req[r] EXCEPT !.phase = "consume", !.scope = row.scope])
     \/ End(r)
  /\ UNCHANGED tables

ReadCodeAgain(r) ==
  LET row == code[req[r].code] IN
  /\ At(r, "exchange")
  /\ \/ /\ ~ row.late /\ row.client = req[r].client
        /\ Go(r, [req[r] EXCEPT !.phase = "consume", !.user = row.user, !.scope = row.scope])
     \/ End(r)
  /\ UNCHANGED tables

(* `consume_auth_code` up to its write: a spent code is a replay and takes  *)
(* the family with it; an expired code, another client's code or another    *)
(* redirect_uri is refused.                                                 *)
ReadCode(r) ==
  LET row == code[req[r].code] IN
  /\ At(r, "exchange")
  /\ \/ /\ row.used
        /\ Go(r, [Idle EXCEPT !.phase = "family", !.client = row.client, !.user = row.user])
     \/ /\ ~ row.used /\ ~ row.late /\ row.client = req[r].client
        /\ Go(r, [req[r] EXCEPT !.phase = "consume", !.user = row.user, !.scope = row.scope])
     \/ ~ row.used /\ End(r)
  /\ UNCHANGED tables

(* Faulty form: the flag is left to the commit of the pair.                 *)
ConsumeUncommitted(r) ==
  /\ At(r, "consume")
  /\ \/ Go(r, [req[r] EXCEPT !.phase = "issue"])
     \/ End(r)
  /\ UNCHANGED tables

(* consumed = true is committed before PKCE is looked at: a wrong verifier  *)
(* has spent the code.                                                      *)
Consume(r) ==
  /\ At(r, "consume")
  /\ code' = [code EXCEPT ![req[r].code].used = TRUE]
  /\ \/ Go(r, [req[r] EXCEPT !.phase = "issue"])
     \/ End(r)
  /\ UNCHANGED <<client, user, token>>

-----------------------------------------------------------------------------
(* POST /oauth/token, grant_type=refresh_token.                             *)
Refresh(r, cl, t) ==
  /\ At(r, "idle")
  /\ Known(cl)
  /\ t \in Tokens
  /\ Go(r, [Idle EXCEPT !.phase = "refresh", !.client = cl, !.token = t])
  /\ UNCHANGED tables

(* `use_refresh_token`: a spent token takes the family with it.             *)
ReadRefresh(r) ==
  LET row == token[req[r].token] IN
  /\ At(r, "refresh")
  /\ IF row.client # req[r].client \/ (~ row.revoked /\ row.dead)
       THEN End(r)
       ELSE Go(r, [req[r] EXCEPT !.phase = IF row.revoked THEN "family" ELSE "account",
                                 !.user = row.user, !.code = row.code])
  /\ UNCHANGED tables

(* The account is read again; a deleted or inactive one loses its family.   *)
ReadAccount(r) ==
  /\ At(r, "account")
  /\ Go(r, [req[r] EXCEPT !.phase = IF user[req[r].user].active THEN "role" ELSE "family"])
  /\ UNCHANGED tables

(* The live role narrows the grant; nothing left of it is an error.         *)
Narrow(r, asked) ==
  /\ At(r, "role")
  /\ \E role \in RolesRead(req[r].user) :
       LET scope == Refreshed(token[req[r].token].scope, role, asked) IN
       IF scope = {} THEN End(r)
                     ELSE Go(r, [req[r] EXCEPT !.phase = "rotate", !.scope = scope])
  /\ UNCHANGED tables

(* Faulty form: the presented pair is left alone.                           *)
RotateKeepsOld(r) ==
  /\ At(r, "rotate")
  /\ Go(r, [req[r] EXCEPT !.phase = "issue"])
  /\ UNCHANGED tables

(* old.revoked = True is committed on its own.                              *)
Rotate(r) ==
  /\ At(r, "rotate")
  /\ Revoke({req[r].token})
  /\ Go(r, [req[r] EXCEPT !.phase = "issue"])
  /\ UNCHANGED <<client, user, code>>

-----------------------------------------------------------------------------
(* `issue_tokens`, in a transaction of its own after either grant.          *)
Issue(r, t) ==
  /\ At(r, "issue")
  /\ t \notin Tokens
  /\ token' = [token EXCEPT ![t] =
       [client |-> req[r].client, user |-> req[r].user, scope |-> req[r].scope,
        revoked |-> FALSE, stale |-> FALSE, dead |-> FALSE,
        code |-> req[r].code, from |-> req[r].token]]
  /\ End(r)
  /\ UNCHANGED <<client, user, code>>

(* `revoke_family`: the rows found by the query are the ones revoked.       *)
ReadFamily(r) ==
  LET rows == {t \in Family(req[r].client, req[r].user) : Live(t)} IN
  /\ At(r, "family")
  /\ IF rows = {} THEN End(r)
                  ELSE Go(r, [Idle EXCEPT !.phase = "family_write", !.rows = rows])
  /\ UNCHANGED tables

RevokeFamily(r) ==
  /\ At(r, "family_write")
  /\ Revoke(req[r].rows)
  /\ End(r)
  /\ UNCHANGED <<client, user, code>>

(* POST /oauth/revoke: one row, whichever of its tokens was presented.      *)
RevokeByRaw(t) ==
  /\ Live(t)
  /\ Revoke({t})
  /\ UNCHANGED <<client, user, code, req>>

(* POST /admin/oauth/clients/{id}/revoke: the client and the tokens its     *)
(* query found, in one transaction.                                         *)
RevokeClient(r, cl) ==
  /\ At(r, "idle")
  /\ client[cl] # "unregistered"
  /\ Go(r, [Idle EXCEPT !.phase = "client_write", !.client = cl,
                        !.rows = {t \in Tokens : token[t].client = cl /\ Live(t)}])
  /\ UNCHANGED tables

(* Faulty form: only the client is marked.                                  *)
RevokeClientOnly(r) ==
  /\ At(r, "client_write")
  /\ client' = [client EXCEPT ![req[r].client] = "revoked"]
  /\ End(r)
  /\ UNCHANGED <<user, code, token>>

RevokeClientCommit(r) ==
  /\ At(r, "client_write")
  /\ client' = [client EXCEPT ![req[r].client] = "revoked"]
  /\ Revoke(req[r].rows)
  /\ End(r)
  /\ UNCHANGED <<user, code>>

-----------------------------------------------------------------------------
(* dsec-hub changes an account: it is (de)activated, or given another role. *)
HubEditsUser(u, active, role) ==
  /\ user[u] # [active |-> active, role |-> role]
  /\ user' = [user EXCEPT ![u] = [active |-> active, role |-> role]]
  /\ UNCHANGED <<client, code, token, req>>

(* Time: a code lives ten minutes, an access token an hour, the refresh     *)
(* token that came with it sixty days.                                      *)
CodeExpires(c) ==
  /\ c \in Codes
  /\ ~ code[c].late
  /\ code' = [code EXCEPT ![c].late = TRUE]
  /\ UNCHANGED <<client, user, token, req>>

AccessExpires(t) ==
  /\ t \in Tokens
  /\ ~ token[t].stale
  /\ token' = [token EXCEPT ![t].stale = TRUE]
  /\ UNCHANGED <<client, user, code, req>>

RefreshExpires(t) ==
  /\ t \in Tokens
  /\ token[t].stale /\ ~ token[t].dead
  /\ token' = [token EXCEPT ![t].dead = TRUE]
  /\ UNCHANGED <<client, user, code, req>>

(* A handler dies between two commits, or a statement fails: what it has    *)
(* committed stays.                                                         *)
Abort(r) ==
  /\ ~ At(r, "idle")
  /\ End(r)
  /\ UNCHANGED tables

(* The bound of the model: no id is left for the row to insert.             *)
OutOfIds(r) ==
  /\ \/ At(r, "code_insert") /\ Codes = Code
     \/ At(r, "issue") /\ Tokens = Token
  /\ End(r)
  /\ UNCHANGED tables

-----------------------------------------------------------------------------
Arrive(r) ==
  /\ \/ \E cl \in Client, u \in User, g \in GrantRequests : Authorize(r, cl, u, g)
     \/ \E cl \in Client, c \in Code : Exchange(r, cl, c)
     \/ \E cl \in Client, t \in Token : Refresh(r, cl, t)
     \/ \E cl \in Client : RevokeClient(r, cl)
  /\ overlapped' = (overlapped \/ \E q \in Request : ~ At(q, "idle"))

Continue(r) ==
  /\ \/ \E c \in Code : CodeInsert(r, c)
     \/ ReadCode(r) \/ Consume(r)
     \/ ReadRefresh(r) \/ ReadAccount(r)
     \/ \E asked \in RefreshRequests : Narrow(r, asked)
     \/ Rotate(r)
     \/ \E t \in Token : Issue(r, t)
     \/ ReadFamily(r) \/ RevokeFamily(r)
     \/ RevokeClientCommit(r)
     \/ OutOfIds(r)
  /\ UNCHANGED overlapped

Environment ==
  /\ \/ \E cl \in Client : Register(cl)
     \/ \E t \in Token : RevokeByRaw(t) \/ AccessExpires(t) \/ RefreshExpires(t)
     \/ \E c \in Code : CodeExpires(c)
     \/ \E u \in User, active \in BOOLEAN, role \in UserRoles : HubEditsUser(u, active, role)
  /\ UNCHANGED overlapped

Next ==
  \/ \E r \in Request : Arrive(r) \/ Continue(r) \/ (Abort(r) /\ UNCHANGED overlapped)
  \/ Environment

Spec == Init /\ [][Next]_vars

(* A handler that is not killed goes on, and the hour of an access token    *)
(* passes.                                                                  *)
FairSpec ==
  /\ Spec
  /\ \A r \in Request : WF_vars(Continue(r))
  /\ \A t \in Token : WF_vars(AccessExpires(t) /\ UNCHANGED overlapped)

-----------------------------------------------------------------------------
TypeOK ==
  /\ client \in [Client -> {"unregistered", "active", "revoked"}]
  /\ user \in [User -> [active : BOOLEAN, role : UserRoles]]
  /\ code \in [Code -> CodeRow \cup {Nil}]
  /\ token \in [Token -> TokenRow \cup {Nil}]
  /\ overlapped \in BOOLEAN
  /\ req \in [Request -> Local]

FirstPairs(c) == {t \in Tokens : token[t].code = c /\ token[t].from = Nil}

Successors(t) == {s \in Tokens : token[s].from = t}

(* A pair belongs to the client and the account that consented, and carries *)
(* no scope beyond the consent, nor beyond the pair it was rotated from,    *)
(* however often the role changed and changed back (router.py, refresh).    *)
ScopesWithinConsent ==
  \A t \in Tokens :
    LET row == token[t] IN
    /\ row.code \in Codes
    /\ row.client = code[row.code].client /\ row.user = code[row.code].user
    /\ row.scope # {} /\ row.scope \subseteq code[row.code].scope
    /\ row.from # Nil => row.from \in Tokens /\ row.scope \subseteq token[row.from].scope

(* A code and a refresh token buy one pair each, crashes and replays        *)
(* included, as long as handlers do not overlap; when they do, at most one  *)
(* for each handler in flight: once one of them has committed, nobody new   *)
(* gets past the check (`consume_auth_code`, `use_refresh_token`).          *)
SingleUse ==
  LET most == IF overlapped THEN Cardinality(Request) ELSE 1 IN
  /\ \A c \in Code : Cardinality(FirstPairs(c)) <= most
  /\ \A t \in Token : Cardinality(Successors(t)) <= most

(* No pair comes from a code that is still unspent, nor from a refresh      *)
(* token that is still live: the spending is committed first, and no commit *)
(* that read an older row undoes it.                                        *)
SpentBeforeIssued ==
  \A t \in Tokens :
    /\ code[token[t].code].used
    /\ token[t].from # Nil => token[token[t].from].revoked

(* A consent has at most one live pair, whatever was rotated, replayed or   *)
(* cut short, unless two handlers overlapped.                               *)
OneLivePair ==
  \A c \in Code :
    Cardinality({t \in Tokens : token[t].code = c /\ Live(t)}) <= 1 \/ overlapped

(* A revoked client holds no token that still works ("revocation is         *)
(* immediate", admin/router.py), unless a handler was in flight beside      *)
(* another.                                                                 *)
ClientRevocationImmediate ==
  \A t \in Tokens :
    client[token[t].client] = "revoked" => ~ Accepted(t) \/ overlapped

(* A revoked client is out for good within the hour, even the pair that a   *)
(* handler in flight issued after the revocation.                           *)
RevokedClientLosesAccess ==
  \A cl \in Client :
    client[cl] = "revoked" ~> [](\A t \in Tokens : token[t].client = cl => ~ Accepted(t))

============================================================================
