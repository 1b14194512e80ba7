------------------------- MODULE OAuthTokensProofs --------------------------
(* Proofs about OAuthTokens: for any clients, users, roles, codes and       *)
(* tokens, and any number of handlers in flight.                            *)
EXTENDS OAuthTokens, FiniteSetTheorems, TLAPS

(* What a role grants is scopes.                                            *)
LEMMA GrantInScope ==
  ASSUME NEW role \in Role \cup {NoRole}, NEW coarse \in SUBSET Verb
  PROVE  ScopesForGrant(role, coarse) \in SUBSET Scope
<1>1. \A v \in Verb : Coarse(v) \in Scope
  BY DEF Coarse, Scope
<1>2. \A v \in Verb, modules \in SUBSET Module : Expand(v, modules) \in SUBSET Scope
  BY <1>1 DEF Expand, Scope
<1>3. role # NoRole => ReadModules(role) \in SUBSET Module /\ WriteModules(role) \in SUBSET Module
  BY DEF ReadModules, WriteModules, Role, Module
<1>4. "read" \in Verb /\ "write" \in Verb
  BY DEF Verb
<1> QED  BY <1>1, <1>2, <1>3, <1>4 DEF ScopesForGrant

(* A refresh only takes away.                                               *)
LEMMA RefreshedNarrows ==
  ASSUME NEW original, NEW role, NEW asked
  PROVE  Refreshed(original, role, asked) \subseteq original
BY DEF Refreshed

-----------------------------------------------------------------------------
(* What a row says for good, and what its handler has made sure of.         *)
CodeOK(c) == code[c].scope # {}

TokenOK(t) ==
  LET row == token[t] IN
  /\ row.code \in Codes /\ code[row.code].used
  /\ row.client = code[row.code].client /\ row.user = code[row.code].user
  /\ row.scope # {} /\ row.scope \subseteq code[row.code].scope
  /\ row.from # Nil =>
       row.from \in Tokens /\ token[row.from].revoked /\ row.scope \subseteq token[row.from].scope

OfCode(l) ==
  /\ l.code \in Codes
  /\ l.client = code[l.code].client /\ l.user = code[l.code].user

OfToken(l) ==
  /\ l.token \in Tokens
  /\ l.client = token[l.token].client /\ l.user = token[l.token].user
  /\ l.code = token[l.token].code

Entitled(l) ==
  /\ OfCode(l) /\ code[l.code].used
  /\ l.scope # {} /\ l.scope \subseteq code[l.code].scope
  /\ l.token # Nil =>
       l.token \in Tokens /\ token[l.token].revoked /\ l.scope \subseteq token[l.token].scope

LocalOK(l) ==
  /\ l.phase = "code_insert" => l.client \in Client /\ l.user \in User /\ l.scope # {}
  /\ l.phase = "exchange" => l.client \in Client /\ l.code \in Codes /\ l.token = Nil
  /\ l.phase = "consume" => OfCode(l) /\ l.scope = code[l.code].scope /\ l.token = Nil
  /\ l.phase = "refresh" => l.client \in Client /\ l.token \in Tokens
  /\ l.phase \in {"account", "role", "rotate"} => OfToken(l)
  /\ l.phase = "rotate" => l.scope # {} /\ l.scope \subseteq token[l.token].scope
  /\ l.phase = "issue" => Entitled(l)
  /\ l.phase = "client_write" => l.client \in Client
  /\ l.phase \in {"family_write", "client_write"} => l.rows \subseteq Tokens

IInv ==
  /\ TypeOK
  /\ \A c \in Codes : CodeOK(c)
  /\ \A t \in Tokens : TokenOK(t)
  /\ \A r \in Request : LocalOK(req[r])

(* The tables only grow: nothing of a row changes that a handler relies on. *)
Grow ==
  /\ \A c \in Codes :
       /\ c \in Codes'
       /\ code'[c].client = code[c].client /\ code'[c].user = code[c].user
       /\ code'[c].scope = code[c].scope
       /\ code[c].used => code'[c].used
  /\ \A t \in Tokens :
       /\ t \in Tokens'
       /\ token'[t].client = token[t].client /\ token'[t].user = token[t].user
       /\ token'[t].scope = token[t].scope
       /\ token'[t].code = token[t].code /\ token'[t].from = token[t].from
       /\ token[t].revoked => token'[t].revoked

LEMMA SameTablesGrow == ASSUME UNCHANGED tables PROVE Grow
BY DEF Grow, tables, Codes, Tokens

LEMMA GrowKeepsToken ==
  ASSUME Grow, NEW t \in Tokens, TokenOK(t)
  PROVE  TokenOK(t)'
BY DEF Grow, TokenOK

LEMMA GrowKeepsLocal ==
  ASSUME Grow, NEW r \in Request, LocalOK(req[r]), req'[r] = req[r]
  PROVE  LocalOK(req[r])'
<1>1. OfCode(req[r]) => OfCode(req[r])'
  BY DEF Grow, OfCode
<1>2. OfToken(req[r]) => OfToken(req[r])'
  BY DEF Grow, OfToken
<1>3. Entitled(req[r]) => Entitled(req[r])'
  BY <1>1 DEF Grow, Entitled, OfCode
<1>4. OfCode(req[r]) => code'[req[r].code].scope = code[req[r].code].scope
  BY DEF Grow, OfCode
<1>5. OfToken(req[r]) => token'[req[r].token].scope = token[req[r].token].scope
  BY DEF Grow, OfToken
<1>6. Codes \subseteq Codes' /\ Tokens \subseteq Tokens'
  BY DEF Grow
<1> QED  BY <1>1, <1>2, <1>3, <1>4, <1>5, <1>6 DEF LocalOK

(* A step that keeps the rows, and whose new rows and local variables are   *)
(* in order, keeps the invariant.                                           *)
LEMMA Kept ==
  ASSUME IInv, TypeOK', Grow,
         \A c \in Codes' \ Codes : CodeOK(c)',
         \A t \in Tokens' \ Tokens : TokenOK(t)',
         \A r \in Request : req'[r] = req[r] \/ LocalOK(req[r])'
  PROVE  IInv'
<1>1. \A c \in Codes' : CodeOK(c)'
  BY DEF IInv, Grow, CodeOK
<1>2. \A t \in Tokens' : TokenOK(t)'
  BY GrowKeepsToken DEF IInv
<1>3. \A r \in Request : LocalOK(req[r])'
  BY GrowKeepsLocal DEF IInv
<1> QED  BY <1>1, <1>2, <1>3 DEF IInv

(* A handler reads, and keeps what it has read.                             *)
LEMMA Reads ==
  ASSUME IInv, UNCHANGED tables, overlapped' \in BOOLEAN,
         NEW r \in Request, NEW l \in Local, LocalOK(l), Go(r, l)
  PROVE  IInv'
<1>1. req'[r] = l /\ \A q \in Request \ {r} : req'[q] = req[q]
  BY DEF Go, IInv, TypeOK
<1>2. TypeOK'
  BY DEF IInv, TypeOK, tables, Go
<1>3. LocalOK(req[r])'
  BY <1>1 DEF LocalOK, OfCode, OfToken, Entitled, Codes, Tokens, tables
<1>4. Codes' = Codes /\ Tokens' = Tokens
  BY DEF Codes, Tokens, tables
<1> QED  BY <1>1, <1>2, <1>3, <1>4, SameTablesGrow, Kept

LEMMA IdleOK == Idle \in Local /\ LocalOK(Idle)
BY DEF Idle, Local, Phase, LocalOK

LEMMA Ends ==
  ASSUME IInv, UNCHANGED tables, overlapped' \in BOOLEAN, NEW r \in Request, End(r)
  PROVE  IInv'
BY Reads, IdleOK DEF End

(* The rows there are have their types.                                     *)
LEMMA Rows ==
  ASSUME TypeOK
  PROVE  /\ \A c \in Codes : code[c] \in CodeRow /\ code[c].client \in Client /\ code[c].user \in User
                             /\ code[c].scope \in SUBSET Scope
         /\ \A t \in Tokens : token[t] \in TokenRow /\ token[t].client \in Client
                              /\ token[t].user \in User /\ token[t].scope \in SUBSET Scope
                              /\ token[t].code \in Code
         /\ Codes \subseteq Code /\ Tokens \subseteq Token
BY DEF TypeOK, Codes, Tokens, CodeRow, TokenRow

LEMMA LocalFields ==
  ASSUME NEW l \in Local
  PROVE  /\ l.client \in Client \cup {Nil} /\ l.user \in User \cup {Nil}
         /\ l.code \in Code \cup {Nil} /\ l.token \in Token \cup {Nil}
         /\ l.scope \in SUBSET Scope /\ l.rows \in SUBSET Token
BY DEF Local

-----------------------------------------------------------------------------
LEMMA ArriveKeeps == ASSUME IInv, NEW r \in Request, Arrive(r) PROVE IInv'
<1>1. overlapped' \in BOOLEAN
  BY DEF Arrive, IInv, TypeOK
<1>2. ASSUME NEW cl \in Client, NEW u \in User, NEW g \in GrantRequests, Authorize(r, cl, u, g)
      PROVE  IInv'
  <2>1. PICK first \in RolesRead(u), second \in RolesRead(u) :
          LET coarse == NormScopes(g, {}) \cap AllowedScopesFor(first, "exec")
              granted == ScopesForGrant(second, coarse)
          IN  /\ granted # {}
              /\ Go(r, [Idle EXCEPT !.phase = "code_insert", !.client = cl, !.user = u,
                                    !.scope = granted])
    BY <1>2 DEF Authorize
  <2> DEFINE coarse == NormScopes(g, {}) \cap AllowedScopesFor(first, "exec")
             granted == ScopesForGrant(second, coarse)
             l == [Idle EXCEPT !.phase = "code_insert", !.client = cl, !.user = u,
                               !.scope = granted]
  <2>2. second \in Role \cup {NoRole}
    BY RequestAssumption DEF RolesRead, IInv, TypeOK
  <2>3. coarse \in SUBSET Verb
    BY DEF NormScopes, SUPPORTED_SCOPES
  <2>4. granted \in SUBSET Scope /\ granted # {}
    BY <2>1, <2>2, <2>3, GrantInScope
  <2>5. l \in Local /\ LocalOK(l)
    <3> HIDE DEF granted
    <3> QED  BY <2>4 DEF Idle, Local, Phase, LocalOK
  <2>6. Go(r, l) /\ UNCHANGED tables
    BY <1>2, <2>1 DEF Authorize
  <2> HIDE DEF l
  <2> QED  BY <1>1, <2>5, <2>6, Reads
<1>3. ASSUME NEW cl \in Client, NEW c \in Code, Exchange(r, cl, c) PROVE IInv'
  <2> DEFINE l == [Idle EXCEPT !.phase = "exchange", !.client = cl, !.code = c]
  <2>1. l \in Local /\ LocalOK(l)
    BY <1>3 DEF Exchange, Idle, Local, Phase, LocalOK
  <2>2. Go(r, l) /\ UNCHANGED tables
    BY <1>3 DEF Exchange
  <2> HIDE DEF l
  <2> QED  BY <1>1, <2>1, <2>2, Reads
<1>4. ASSUME NEW cl \in Client, NEW t \in Token, Refresh(r, cl, t) PROVE IInv'
  <2> DEFINE l == [Idle EXCEPT !.phase = "refresh", !.client = cl, !.token = t]
  <2>1. l \in Local /\ LocalOK(l)
    BY <1>4 DEF Refresh, Idle, Local, Phase, LocalOK
  <2>2. Go(r, l) /\ UNCHANGED tables
    BY <1>4 DEF Refresh
  <2> HIDE DEF l
  <2> QED  BY <1>1, <2>1, <2>2, Reads
<1>5. ASSUME NEW cl \in Client, RevokeClient(r, cl) PROVE IInv'
  <2> DEFINE l == [Idle EXCEPT !.phase = "client_write", !.client = cl,
                               !.rows = {t \in Tokens : token[t].client = cl /\ Live(t)}]
  <2>1. l \in Local /\ LocalOK(l)
    BY DEF Idle, Local, Phase, LocalOK, Tokens
  <2>2. Go(r, l) /\ UNCHANGED tables
    BY <1>5 DEF RevokeClient
  <2> HIDE DEF l
  <2> QED  BY <1>1, <2>1, <2>2, Reads
<1> QED  BY <1>2, <1>3, <1>4, <1>5 DEF Arrive

-----------------------------------------------------------------------------
(* Revoking rows changes nothing else of them.                              *)
LEMMA RevokeEffect ==
  ASSUME IInv, NEW rows \in SUBSET Tokens, Revoke(rows), code' = code
  PROVE  /\ token' \in [Token -> TokenRow \cup {Nil}]
         /\ Grow /\ Tokens' = Tokens /\ Codes' = Codes
         /\ \A t \in rows : token'[t].revoked
<1>1. \A t \in Tokens : token[t] \in TokenRow /\ token[t] # Nil
  BY Rows DEF IInv, Tokens
<1>2. Tokens \subseteq Token /\ token \in [Token -> TokenRow \cup {Nil}]
  BY Rows DEF IInv, TypeOK
<1>3. \A t \in rows :
        /\ token'[t] = [token[t] EXCEPT !.revoked = TRUE]
        /\ token'[t] \in TokenRow /\ token'[t].revoked
        /\ token'[t].client = token[t].client /\ token'[t].user = token[t].user
        /\ token'[t].scope = token[t].scope
        /\ token'[t].code = token[t].code /\ token'[t].from = token[t].from
  BY <1>1, <1>2 DEF Revoke, TokenRow
<1>4. \A t \in Token \ rows : token'[t] = token[t]
  BY DEF Revoke
<1>5. token' \in [Token -> TokenRow \cup {Nil}]
  <2>1. \A t \in Token : token'[t] \in TokenRow \cup {Nil}
    BY <1>2, <1>3, <1>4
  <2>2. token' = [t \in Token |-> token'[t]]
    BY DEF Revoke
  <2> QED  BY <2>1, <2>2
<1>6. Tokens' = Tokens
  <2>1. \A t \in rows : token'[t] # Nil
    BY <1>3, RowAssumption
  <2> QED  BY <2>1, <1>4, <1>2 DEF Tokens
<1>7. Codes' = Codes
  BY DEF Codes
<1>8. Grow
  BY <1>3, <1>4, <1>2, <1>6, <1>7 DEF Grow
<1> QED  BY <1>3, <1>5, <1>6, <1>7, <1>8

(* A step that revokes rows and puts its handler in order.                  *)
LEMMA Revokes ==
  ASSUME IInv, NEW rows \in SUBSET Tokens, Revoke(rows), code' = code,
         client' \in [Client -> {"unregistered", "active", "revoked"}],
         user' = user, overlapped' = overlapped,
         req' \in [Request -> Local],
         \A r \in Request : req'[r] = req[r] \/ LocalOK(req[r])'
  PROVE  IInv'
<1>1. TypeOK'
  BY RevokeEffect DEF IInv, TypeOK
<1> QED  BY <1>1, RevokeEffect, Kept

LEMMA CodeInsertKeeps ==
  ASSUME IInv, NEW r \in Request, NEW c \in Code, CodeInsert(r, c), overlapped' = overlapped
  PROVE  IInv'
<1> DEFINE row == [client |-> req[r].client, user |-> req[r].user,
                   scope |-> req[r].scope, used |-> FALSE, late |-> FALSE]
<1>1. /\ req[r] \in Local /\ req[r].client \in Client /\ req[r].user \in User
      /\ req[r].scope # {} /\ req[r].scope \in SUBSET Scope
  BY LocalFields DEF IInv, TypeOK, LocalOK, CodeInsert, At
<1>2. row \in CodeRow /\ row # Nil /\ row.scope # {}
  <2>1. row \in CodeRow
    BY <1>1 DEF CodeRow
  <2>2. row # Nil
    <3> HIDE DEF row
    <3> QED  BY <2>1, RowAssumption
  <2>3. row.scope = req[r].scope
    OBVIOUS
  <2> QED  BY <1>1, <2>1, <2>2, <2>3
<1>3. code' = [code EXCEPT ![c] = row] /\ c \notin Codes /\ c \in Code /\ token' = token
  BY DEF CodeInsert
<1> HIDE DEF row
<1>4. /\ code' \in [Code -> CodeRow \cup {Nil}] /\ code'[c] = row
      /\ \A d \in Code \ {c} : code'[d] = code[d]
  BY <1>2, <1>3 DEF IInv, TypeOK
<1>5. Codes' = Codes \cup {c} /\ Tokens' = Tokens
  BY <1>2, <1>3, <1>4 DEF Codes, Tokens
<1>6. Grow
  BY <1>3, <1>4, <1>5 DEF Grow, Codes
<1>7. req' \in [Request -> Local] /\ \A q \in Request : req'[q] = req[q] \/ req'[q] = Idle
  BY IdleOK DEF CodeInsert, End, Go, IInv, TypeOK
<1>8. \A q \in Request : req'[q] = req[q] \/ LocalOK(req[q])'
  BY <1>7 DEF LocalOK, Idle
<1>9. TypeOK'
  BY <1>4, <1>7 DEF CodeInsert, IInv, TypeOK
<1>10. CodeOK(c)'
  BY <1>2, <1>4 DEF CodeOK
<1> QED  BY <1>5, <1>6, <1>8, <1>9, <1>10, Kept

LEMMA ReadCodeKeeps ==
  ASSUME IInv, NEW r \in Request, ReadCode(r), overlapped' = overlapped
  PROVE  IInv'
<1> DEFINE row == code[req[r].code]
<1>1. /\ req[r] \in Local /\ req[r].code \in Codes /\ req[r].client \in Client
      /\ req[r].token = Nil /\ row \in CodeRow
      /\ row.client \in Client /\ row.user \in User /\ row.scope \in SUBSET Scope
  BY Rows DEF IInv, TypeOK, LocalOK, ReadCode, At
<1>2. UNCHANGED tables /\ overlapped' \in BOOLEAN
  BY DEF ReadCode, IInv, TypeOK
<1>3. CASE Go(r, [Idle EXCEPT !.phase = "family", !.client = row.client, !.user = row.user])
  <2> DEFINE l == [Idle EXCEPT !.phase = "family", !.client = row.client, !.user = row.user]
  <2>1. l \in Local /\ LocalOK(l)
    BY <1>1 DEF Idle, Local, Phase, LocalOK
  <2> HIDE DEF l
  <2> QED  BY <1>2, <1>3, <2>1, Reads DEF l
<1>4. CASE /\ row.client = req[r].client
           /\ Go(r, [req[r] EXCEPT !.phase = "consume", !.user = row.user, !.scope = row.scope])
  <2> DEFINE l == [req[r] EXCEPT !.phase = "consume", !.user = row.user, !.scope = row.scope]
  <2>1. l \in Local
    BY <1>1 DEF Local, Phase
  <2>2. /\ l.phase = "consume" /\ l.code = req[r].code /\ l.client = req[r].client
        /\ l.user = row.user /\ l.scope = row.scope /\ l.token = Nil
    BY <1>1 DEF Local
  <2>3. LocalOK(l)
    <3> HIDE DEF l
    <3> QED  BY <1>1, <1>4, <2>2 DEF LocalOK, OfCode
  <2> HIDE DEF l
  <2> QED  BY <1>2, <1>4, <2>1, <2>3, Reads DEF l
<1>5. CASE End(r)
  BY <1>2, <1>5, Ends
<1> QED  BY <1>3, <1>4, <1>5 DEF ReadCode

LEMMA ConsumeKeeps ==
  ASSUME IInv, NEW r \in Request, Consume(r), overlapped' = overlapped
  PROVE  IInv'
<1> DEFINE c == req[r].code
           l == [req[r] EXCEPT !.phase = "issue"]
<1>1. /\ req[r] \in Local /\ c \in Codes /\ c \in Code /\ code[c] \in CodeRow
      /\ req[r].client = code[c].client /\ req[r].user = code[c].user
      /\ req[r].scope = code[c].scope /\ req[r].token = Nil /\ code[c].scope # {}
  BY Rows DEF IInv, TypeOK, LocalOK, OfCode, CodeOK, Consume, At
<1>2. /\ code' = [code EXCEPT ![c].used = TRUE] /\ token' = token
  BY DEF Consume
<1>3. /\ code'[c] = [code[c] EXCEPT !.used = TRUE] /\ \A d \in Code \ {c} : code'[d] = code[d]
      /\ code'[c] \in CodeRow /\ code' \in [Code -> CodeRow \cup {Nil}]
      /\ code'[c].used /\ code'[c].client = code[c].client /\ code'[c].user = code[c].user
      /\ code'[c].scope = code[c].scope
  <2>1. [code[c] EXCEPT !.used = TRUE] \in CodeRow
    BY <1>1 DEF CodeRow
  <2>2. code'[c] = [code[c] EXCEPT !.used = TRUE] /\ \A d \in Code \ {c} : code'[d] = code[d]
    BY <1>1, <1>2 DEF IInv, TypeOK
  <2>3. code' \in [Code -> CodeRow \cup {Nil}]
    BY <1>1, <1>2, <2>1 DEF IInv, TypeOK
  <2>4. code'[c].used /\ code'[c].client = code[c].client /\ code'[c].user = code[c].user
        /\ code'[c].scope = code[c].scope
    BY <1>1, <2>2 DEF CodeRow
  <2> QED  BY <2>1, <2>2, <2>3, <2>4
<1>4. Codes' = Codes /\ Tokens' = Tokens
  <2>1. \A d \in Code : code'[d] # Nil <=> code[d] # Nil
    BY <1>1, <1>3, RowAssumption
  <2>2. Codes' = Codes
    BY <2>1 DEF Codes
  <2> QED  BY <1>2, <2>2 DEF Tokens
<1>5. Grow
  BY <1>1, <1>2, <1>3, <1>4 DEF Grow, Codes
<1>6. /\ l \in Local /\ l.phase = "issue" /\ l.code = c /\ l.client = req[r].client
      /\ l.user = req[r].user /\ l.scope = req[r].scope /\ l.token = Nil
  BY <1>1 DEF Local, Phase
<1>7. /\ req' \in [Request -> Local]
      /\ \A q \in Request : req'[q] = req[q] \/ req'[q] = Idle \/ req'[q] = l
  <2> HIDE DEF l
  <2> QED  BY <1>6, IdleOK DEF Consume, End, Go, IInv, TypeOK, l
<1>8. ASSUME NEW q \in Request, req'[q] = l PROVE LocalOK(req[q])'
  <2>1. /\ req'[q].phase = "issue" /\ req'[q].code = c /\ req'[q].client = req[r].client
        /\ req'[q].user = req[r].user /\ req'[q].scope = req[r].scope /\ req'[q].token = Nil
    BY <1>6, <1>8
  <2> HIDE DEF c, l
  <2>2. Entitled(req[q])'
    BY <1>1, <1>3, <1>4, <2>1 DEF Entitled, OfCode
  <2> QED  BY <2>1, <2>2 DEF LocalOK
<1>9. \A q \in Request : req'[q] = Idle => LocalOK(req[q])'
  BY DEF LocalOK, Idle
<1>10. TypeOK'
  BY <1>3, <1>7 DEF Consume, IInv, TypeOK
<1> QED  BY <1>4, <1>5, <1>7, <1>8, <1>9, <1>10, Kept

-----------------------------------------------------------------------------
LEMMA ReadRefreshKeeps ==
  ASSUME IInv, NEW r \in Request, ReadRefresh(r), overlapped' = overlapped
  PROVE  IInv'
<1> DEFINE row == token[req[r].token]
           phase == IF row.revoked THEN "family" ELSE "account"
           l == [req[r] EXCEPT !.phase = phase, !.user = row.user, !.code = row.code]
<1>1. /\ req[r] \in Local /\ req[r].token \in Tokens /\ req[r].client \in Client
      /\ row \in TokenRow /\ row.client \in Client /\ row.user \in User /\ row.code \in Code
  BY Rows DEF IInv, TypeOK, LocalOK, ReadRefresh, At
<1>2. UNCHANGED tables /\ overlapped' \in BOOLEAN
  BY DEF ReadRefresh, IInv, TypeOK
<1>3. CASE End(r)
  BY <1>2, <1>3, Ends
<1>4. CASE row.client = req[r].client /\ Go(r, l)
  <2>1. phase \in {"family", "account"}
    OBVIOUS
  <2> HIDE DEF phase, row
  <2>2. l \in Local
    BY <1>1, <2>1 DEF Local, Phase
  <2>3. /\ l.phase = phase /\ l.user = row.user /\ l.code = row.code
        /\ l.client = req[r].client /\ l.token = req[r].token
    BY <1>1 DEF Local
  <2> HIDE DEF l
  <2>4. OfToken(l)
    BY <1>1, <1>4, <2>3 DEF OfToken, row
  <2>5. LocalOK(l)
    BY <2>1, <2>3, <2>4 DEF LocalOK
  <2> QED  BY <1>2, <1>4, <2>2, <2>5, Reads
<1> QED  BY <1>3, <1>4 DEF ReadRefresh

LEMMA ReadAccountKeeps ==
  ASSUME IInv, NEW r \in Request, ReadAccount(r), overlapped' = overlapped
  PROVE  IInv'
<1> DEFINE phase == IF user[req[r].user].active THEN "role" ELSE "family"
           l == [req[r] EXCEPT !.phase = phase]
<1>1. req[r] \in Local /\ OfToken(req[r])
  BY DEF IInv, TypeOK, LocalOK, ReadAccount, At
<1>2. UNCHANGED tables /\ overlapped' \in BOOLEAN /\ Go(r, l)
  BY DEF ReadAccount, IInv, TypeOK
<1>3. phase \in {"role", "family"}
  OBVIOUS
<1> HIDE DEF phase
<1>4. l \in Local /\ l.phase = phase
  BY <1>1, <1>3 DEF Local, Phase
<1>5. /\ l.client = req[r].client /\ l.user = req[r].user
      /\ l.code = req[r].code /\ l.token = req[r].token
  BY <1>1 DEF Local
<1> HIDE DEF l
<1>6. LocalOK(l)
  BY <1>1, <1>3, <1>4, <1>5 DEF LocalOK, OfToken
<1> QED  BY <1>2, <1>4, <1>6, Reads

LEMMA NarrowKeeps ==
  ASSUME IInv, NEW r \in Request, NEW asked, Narrow(r, asked), overlapped' = overlapped
  PROVE  IInv'
<1>1. /\ req[r] \in Local /\ OfToken(req[r])
      /\ token[req[r].token].scope \in SUBSET Scope
  BY Rows DEF IInv, TypeOK, LocalOK, OfToken, Narrow, At
<1>2. UNCHANGED tables /\ overlapped' \in BOOLEAN
  BY DEF Narrow, IInv, TypeOK
<1>3. CASE End(r)
  BY <1>2, <1>3, Ends
<1>4. ASSUME NEW scope \in SUBSET token[req[r].token].scope, scope # {},
             Go(r, [req[r] EXCEPT !.phase = "rotate", !.scope = scope])
      PROVE  IInv'
  <2> DEFINE l == [req[r] EXCEPT !.phase = "rotate", !.scope = scope]
  <2>1. l \in Local /\ l.phase = "rotate" /\ l.scope = scope
    BY <1>1 DEF Local, Phase
  <2>2. /\ l.client = req[r].client /\ l.user = req[r].user
        /\ l.code = req[r].code /\ l.token = req[r].token
    BY <1>1 DEF Local
  <2>3. Go(r, l)
    BY <1>4
  <2> HIDE DEF l
  <2>4. LocalOK(l)
    BY <1>1, <1>4, <2>1, <2>2 DEF LocalOK, OfToken
  <2> QED  BY <1>2, <2>1, <2>3, <2>4, Reads
<1>5. PICK role \in RolesRead(req[r].user) :
        LET scope == Refreshed(token[req[r].token].scope, role, asked) IN
        IF scope = {} THEN End(r)
                      ELSE Go(r, [req[r] EXCEPT !.phase = "rotate", !.scope = scope])
  BY DEF Narrow
<1> QED  BY <1>3, <1>4, <1>5, RefreshedNarrows

LEMMA RotateKeeps ==
  ASSUME IInv, NEW r \in Request, Rotate(r), overlapped' = overlapped
  PROVE  IInv'
<1> DEFINE t == req[r].token
           l == [req[r] EXCEPT !.phase = "issue"]
<1>1. /\ req[r] \in Local /\ OfToken(req[r]) /\ t \in Tokens
      /\ req[r].scope # {} /\ req[r].scope \subseteq token[t].scope
  BY DEF IInv, TypeOK, LocalOK, OfToken, Rotate, At
<1>2. /\ Revoke({t}) /\ Go(r, l) /\ code' = code /\ client' = client /\ user' = user
  BY DEF Rotate
<1>3. TokenOK(t)
  BY <1>1 DEF IInv
<1>4. /\ Grow /\ Tokens' = Tokens /\ Codes' = Codes /\ token'[t].revoked
  BY <1>1, <1>2, RevokeEffect
<1>5. /\ l \in Local /\ l.phase = "issue" /\ l.scope = req[r].scope
      /\ l.client = req[r].client /\ l.user = req[r].user
      /\ l.code = req[r].code /\ l.token = t
  BY <1>1 DEF Local, Phase
<1> HIDE DEF l
<1>6. req' \in [Request -> Local] /\ req'[r] = l /\ \A q \in Request \ {r} : req'[q] = req[q]
  BY <1>2, <1>5 DEF Go, IInv, TypeOK
<1>7. OfCode(req[r]) /\ code[req[r].code].used /\ token[t].scope \subseteq code[req[r].code].scope
  BY <1>1, <1>3 DEF OfToken, OfCode, TokenOK
<1>8. Entitled(req[r])'
  BY <1>1, <1>2, <1>4, <1>5, <1>6, <1>7 DEF Entitled, OfCode, Grow
<1>9. LocalOK(req[r])'
  BY <1>5, <1>6, <1>8 DEF LocalOK
<1>10. client' \in [Client -> {"unregistered", "active", "revoked"}]
  BY <1>2 DEF IInv, TypeOK
<1> QED  BY <1>1, <1>2, <1>6, <1>9, <1>10, Revokes

LEMMA IssueKeeps ==
  ASSUME IInv, NEW r \in Request, NEW t \in Token, Issue(r, t), overlapped' = overlapped
  PROVE  IInv'
<1> DEFINE l == req[r]
           row == [client |-> l.client, user |-> l.user, scope |-> l.scope,
                   revoked |-> FALSE, stale |-> FALSE, dead |-> FALSE,
                   code |-> l.code, from |-> l.token]
<1>1. /\ l \in Local /\ Entitled(l) /\ l.code \in Code /\ l.client \in Client /\ l.user \in User
      /\ l.scope \in SUBSET Scope /\ l.token \in Token \cup {Nil}
  BY Rows, LocalFields DEF IInv, TypeOK, LocalOK, Entitled, OfCode, Issue, At
<1>2. row \in TokenRow
  <2> HIDE DEF l
  <2> QED  BY <1>1 DEF TokenRow
<1>3. /\ row.client = l.client /\ row.user = l.user /\ row.scope = l.scope
      /\ row.code = l.code /\ row.from = l.token
  OBVIOUS
<1>4. token' = [token EXCEPT ![t] = row] /\ t \notin Tokens /\ t \in Token /\ code' = code
  BY DEF Issue
<1> HIDE DEF row, l
<1>5. row # Nil
  BY <1>2, RowAssumption
<1>6. /\ token' \in [Token -> TokenRow \cup {Nil}] /\ token'[t] = row
      /\ \A s \in Token \ {t} : token'[s] = token[s]
  BY <1>2, <1>4 DEF IInv, TypeOK
<1>7. Tokens' = Tokens \cup {t} /\ Codes' = Codes
  BY <1>4, <1>5, <1>6 DEF Codes, Tokens
<1>8. Grow
  BY <1>4, <1>6, <1>7 DEF Grow, Tokens
<1>9. req' \in [Request -> Local] /\ \A q \in Request : req'[q] = req[q] \/ req'[q] = Idle
  BY IdleOK DEF Issue, End, Go, IInv, TypeOK
<1>10. \A q \in Request : req'[q] = req[q] \/ LocalOK(req[q])'
  BY <1>9 DEF LocalOK, Idle
<1>11. TypeOK'
  BY <1>6, <1>9 DEF Issue, IInv, TypeOK
<1>12. TokenOK(t)'
  <2>1. l.token # Nil => /\ l.token \in Tokens' /\ token'[l.token].revoked
                         /\ l.scope \subseteq token'[l.token].scope
    BY <1>1, <1>8 DEF Entitled, Grow
  <2>2. /\ l.code \in Codes' /\ code'[l.code].used
        /\ l.client = code'[l.code].client /\ l.user = code'[l.code].user
        /\ l.scope # {} /\ l.scope \subseteq code'[l.code].scope
    BY <1>1, <1>4, <1>7 DEF Entitled, OfCode
  <2> QED  BY <1>3, <1>6, <2>1, <2>2 DEF TokenOK
<1> QED  BY <1>7, <1>8, <1>10, <1>11, <1>12, Kept

LEMMA ReadFamilyKeeps ==
  ASSUME IInv, NEW r \in Request, ReadFamily(r), overlapped' = overlapped
  PROVE  IInv'
<1> DEFINE rows == {t \in Family(req[r].client, req[r].user) : Live(t)}
           l == [Idle EXCEPT !.phase = "family_write", !.rows = rows]
<1>1. UNCHANGED tables /\ overlapped' \in BOOLEAN
  BY DEF ReadFamily, IInv, TypeOK
<1>2. rows \subseteq Tokens /\ rows \subseteq Token
  BY DEF Family, Tokens
<1> HIDE DEF rows
<1>3. l \in Local /\ LocalOK(l)
  BY <1>2 DEF Idle, Local, Phase, LocalOK
<1>4. CASE Go(r, l)
  <2> HIDE DEF l
  <2> QED  BY <1>1, <1>3, <1>4, Reads
<1>5. CASE End(r)
  BY <1>1, <1>5, Ends
<1> QED  BY <1>4, <1>5 DEF ReadFamily, rows

LEMMA RevokeFamilyKeeps ==
  ASSUME IInv, NEW r \in Request, RevokeFamily(r), overlapped' = overlapped
  PROVE  IInv'
<1>1. req[r].rows \in SUBSET Tokens /\ Revoke(req[r].rows)
  BY DEF IInv, LocalOK, RevokeFamily, At
<1>2. req' \in [Request -> Local] /\ \A q \in Request : req'[q] = req[q] \/ req'[q] = Idle
  BY IdleOK DEF RevokeFamily, End, Go, IInv, TypeOK
<1>3. \A q \in Request : req'[q] = req[q] \/ LocalOK(req[q])'
  BY <1>2 DEF LocalOK, Idle
<1>4. /\ client' \in [Client -> {"unregistered", "active", "revoked"}]
      /\ code' = code /\ user' = user
  BY DEF RevokeFamily, IInv, TypeOK
<1> QED  BY <1>1, <1>2, <1>3, <1>4, Revokes

LEMMA RevokeClientCommitKeeps ==
  ASSUME IInv, NEW r \in Request, RevokeClientCommit(r), overlapped' = overlapped
  PROVE  IInv'
<1>1. req[r].rows \in SUBSET Tokens /\ Revoke(req[r].rows) /\ req[r].client \in Client
  BY DEF IInv, LocalOK, RevokeClientCommit, At
<1>2. req' \in [Request -> Local] /\ \A q \in Request : req'[q] = req[q] \/ req'[q] = Idle
  BY IdleOK DEF RevokeClientCommit, End, Go, IInv, TypeOK
<1>3. \A q \in Request : req'[q] = req[q] \/ LocalOK(req[q])'
  BY <1>2 DEF LocalOK, Idle
<1>4. /\ client' \in [Client -> {"unregistered", "active", "revoked"}]
      /\ code' = code /\ user' = user
  BY <1>1 DEF RevokeClientCommit, IInv, TypeOK
<1> QED  BY <1>1, <1>2, <1>3, <1>4, Revokes

LEMMA RevokeByRawKeeps ==
  ASSUME IInv, NEW t \in Token, RevokeByRaw(t), overlapped' = overlapped
  PROVE  IInv'
<1>1. {t} \in SUBSET Tokens /\ Revoke({t})
  BY DEF RevokeByRaw, Live
<1>2. /\ client' \in [Client -> {"unregistered", "active", "revoked"}]
      /\ code' = code /\ user' = user /\ req' = req /\ req' \in [Request -> Local]
  BY DEF RevokeByRaw, IInv, TypeOK
<1> QED  BY <1>1, <1>2, Revokes

LEMMA RegisterKeeps ==
  ASSUME IInv, NEW cl \in Client, Register(cl), overlapped' = overlapped
  PROVE  IInv'
<1>1. TypeOK'
  BY DEF Register, IInv, TypeOK
<1>2. Grow /\ Codes' = Codes /\ Tokens' = Tokens /\ req' = req
  BY DEF Register, Grow, Codes, Tokens
<1> QED  BY <1>1, <1>2, Kept

LEMMA HubEditsUserKeeps ==
  ASSUME IInv, NEW u \in User, NEW active \in BOOLEAN, NEW role \in UserRoles,
         HubEditsUser(u, active, role), overlapped' = overlapped
  PROVE  IInv'
<1>1. TypeOK'
  BY DEF HubEditsUser, IInv, TypeOK
<1>2. Grow /\ Codes' = Codes /\ Tokens' = Tokens /\ req' = req
  BY DEF HubEditsUser, Grow, Codes, Tokens
<1> QED  BY <1>1, <1>2, Kept

LEMMA CodeExpiresKeeps ==
  ASSUME IInv, NEW c \in Code, CodeExpires(c), overlapped' = overlapped
  PROVE  IInv'
<1>1. c \in Codes /\ code[c] \in CodeRow /\ token' = token /\ req' = req
  BY Rows DEF CodeExpires, IInv
<1>2. /\ code'[c] = [code[c] EXCEPT !.late = TRUE] /\ \A d \in Code \ {c} : code'[d] = code[d]
      /\ code'[c] \in CodeRow /\ code' \in [Code -> CodeRow \cup {Nil}]
      /\ code'[c].used = code[c].used /\ code'[c].client = code[c].client
      /\ code'[c].user = code[c].user /\ code'[c].scope = code[c].scope
  BY <1>1 DEF CodeExpires, IInv, TypeOK, CodeRow
<1>3. Codes' = Codes /\ Tokens' = Tokens
  BY <1>1, <1>2, RowAssumption DEF Codes, Tokens
<1>4. Grow
  BY <1>1, <1>2, <1>3 DEF Grow, Codes
<1>5. TypeOK'
  BY <1>2 DEF CodeExpires, IInv, TypeOK
<1> QED  BY <1>1, <1>3, <1>4, <1>5, Kept

(* The two clocks of a pair leave the rest of the row alone.                *)
LEMMA AgeingKeeps ==
  ASSUME IInv, NEW t \in Tokens, NEW row \in TokenRow, token' = [token EXCEPT ![t] = row],
         row.client = token[t].client, row.user = token[t].user, row.scope = token[t].scope,
         row.code = token[t].code, row.from = token[t].from, row.revoked = token[t].revoked,
         client' = client, user' = user, code' = code, req' = req, overlapped' = overlapped
  PROVE  IInv'
<1>1. t \in Token
  BY DEF Tokens
<1>2. /\ token'[t] = row /\ \A s \in Token \ {t} : token'[s] = token[s]
      /\ token' \in [Token -> TokenRow \cup {Nil}]
  BY <1>1 DEF IInv, TypeOK
<1>3. Codes' = Codes /\ Tokens' = Tokens
  BY <1>1, <1>2, RowAssumption DEF Codes, Tokens
<1>4. Grow
  BY <1>1, <1>2, <1>3 DEF Grow, Tokens
<1>5. TypeOK'
  BY <1>2 DEF IInv, TypeOK
<1> QED  BY <1>3, <1>4, <1>5, Kept

LEMMA ExpiresKeep ==
  ASSUME IInv, NEW t \in Token, AccessExpires(t) \/ RefreshExpires(t), overlapped' = overlapped
  PROVE  IInv'
<1>1. t \in Tokens /\ token[t] \in TokenRow
  BY Rows DEF AccessExpires, RefreshExpires, IInv
<1>2. CASE AccessExpires(t)
  <2> DEFINE row == [token[t] EXCEPT !.stale = TRUE]
  <2>1. /\ row \in TokenRow
        /\ row.client = token[t].client /\ row.user = token[t].user /\ row.scope = token[t].scope
        /\ row.code = token[t].code /\ row.from = token[t].from
        /\ row.revoked = token[t].revoked
    BY <1>1 DEF TokenRow
  <2>2. /\ token' = [token EXCEPT ![t] = row]
        /\ client' = client /\ user' = user /\ code' = code /\ req' = req
    BY <1>2 DEF AccessExpires
  <2> HIDE DEF row
  <2> QED  BY <1>1, <2>1, <2>2, AgeingKeeps
<1>3. CASE RefreshExpires(t)
  <2> DEFINE row == [token[t] EXCEPT !.dead = TRUE]
  <2>1. /\ row \in TokenRow
        /\ row.client = token[t].client /\ row.user = token[t].user /\ row.scope = token[t].scope
        /\ row.code = token[t].code /\ row.from = token[t].from
        /\ row.revoked = token[t].revoked
    BY <1>1 DEF TokenRow
  <2>2. /\ token' = [token EXCEPT ![t] = row]
        /\ client' = client /\ user' = user /\ code' = code /\ req' = req
    BY <1>3 DEF RefreshExpires
  <2> HIDE DEF row
  <2> QED  BY <1>1, <2>1, <2>2, AgeingKeeps
<1> QED  BY <1>2, <1>3

LEMMA ContinueKeeps == ASSUME IInv, NEW r \in Request, Continue(r) PROVE IInv'
<1>1. overlapped' = overlapped /\ overlapped' \in BOOLEAN
  BY DEF Continue, IInv, TypeOK
<1>2. CASE OutOfIds(r)
  BY <1>1, <1>2, Ends DEF OutOfIds
<1> QED  BY <1>1, <1>2, CodeInsertKeeps, ReadCodeKeeps, ConsumeKeeps, ReadRefreshKeeps,
            ReadAccountKeeps, NarrowKeeps, RotateKeeps, IssueKeeps, ReadFamilyKeeps,
            RevokeFamilyKeeps, RevokeClientCommitKeeps DEF Continue

LEMMA EnvironmentKeeps == ASSUME IInv, Environment PROVE IInv'
BY RegisterKeeps, RevokeByRawKeeps, ExpiresKeep, CodeExpiresKeeps, HubEditsUserKeeps
   DEF Environment

-----------------------------------------------------------------------------
LEMMA Start == Init => IInv
<1> SUFFICES ASSUME Init PROVE IInv
  OBVIOUS
<1>1. TypeOK
  BY IdleOK, RequestAssumption DEF Init, TypeOK
<1>2. Codes = {} /\ Tokens = {}
  BY DEF Init, Codes, Tokens
<1>3. \A r \in Request : LocalOK(req[r])
  BY IdleOK DEF Init
<1> QED  BY <1>1, <1>2, <1>3 DEF IInv

LEMMA Step == IInv /\ [Next]_vars => IInv'
<1> SUFFICES ASSUME IInv, [Next]_vars PROVE IInv'
  OBVIOUS
<1>1. ASSUME NEW r \in Request, Abort(r), UNCHANGED overlapped PROVE IInv'
  <2>1. overlapped' \in BOOLEAN
    BY <1>1 DEF IInv, TypeOK
  <2> QED  BY <1>1, <2>1, Ends DEF Abort
<1>2. CASE UNCHANGED vars
  BY <1>2 DEF vars, IInv, TypeOK, CodeOK, TokenOK, LocalOK, OfCode, OfToken, Entitled, Codes, Tokens
<1>3. CASE Next
  BY <1>1, <1>3, ArriveKeeps, ContinueKeeps, EnvironmentKeeps DEF Next
<1> QED  BY <1>2, <1>3

LEMMA Invariance == Spec => []IInv
BY Start, Step, PTL DEF Spec

(* Every row and every local variable of a handler has its type.            *)
THEOREM GrantsAreTyped == Spec => []TypeOK
<1>1. IInv => TypeOK
  BY DEF IInv
<1> QED  BY <1>1, Invariance, PTL

(* No pair is ever issued before what paid for it is spent: the code of the *)
(* grant, or the refresh token that was rotated. That holds with any number *)
(* of handlers in flight, and whichever of them die between two commits     *)
(* (`consume_auth_code`, `use_refresh_token`).                              *)
THEOREM SpendingComesFirst == Spec => []SpentBeforeIssued
<1>1. IInv => SpentBeforeIssued
  BY DEF IInv, TokenOK, SpentBeforeIssued
<1> QED  BY <1>1, Invariance, PTL

(* No chain of refreshes, of any length and through any changes of role,    *)
(* carries a pair beyond what was consented to, nor to another account.     *)
THEOREM ConsentBoundsScopes == Spec => []ScopesWithinConsent
<1>1. IInv => ScopesWithinConsent
  BY DEF IInv, TokenOK, ScopesWithinConsent
<1> QED  BY <1>1, Invariance, PTL

-----------------------------------------------------------------------------
(* What is paid for a pair: a code, or the refresh token that is rotated.   *)
Payment(of, from) == IF from = Nil THEN <<"code", of>> ELSE <<"token", from>>

Bought(x) == {t \in Tokens : Payment(token[t].code, token[t].from) = x}

(* From the check of the payment to the pair.                               *)
Paying == {"consume", "account", "role", "rotate", "issue"}

Price(l) == Payment(l.code, l.token)

Buyers(x) == {r \in Request : req[r].phase \in Paying /\ Price(req[r]) = x}

(* What a handler that has been alone knows of the rows.                    *)
AloneOK(l) ==
  /\ l.phase \in Paying \cup {"exchange", "refresh"} => Known(l.client)
  /\ l.phase = "client_write" =>
       \A t \in Tokens : token[t].client = l.client /\ Live(t) => t \in l.rows
  /\ l.phase = "consume" => ~ code[l.code].used
  /\ l.phase \in {"account", "role", "rotate"} =>
       \A t \in Tokens : token[t].code = l.code /\ Live(t) => t = l.token
  /\ l.phase = "issue" => \A t \in Tokens : token[t].code = l.code => token[t].revoked
  /\ l.phase \in Paying => Bought(Price(l)) = {}

Alone ==
  /\ \A q, r \in Request : ~ At(q, "idle") /\ ~ At(r, "idle") => q = r
  /\ \A r \in Request : AloneOK(req[r])
  /\ \A t \in Tokens : client[token[t].client] = "revoked" => token[t].revoked
  /\ \A s, t \in Tokens : Live(s) /\ Live(t) /\ token[s].code = token[t].code => s = t
  /\ \A x : \A s, t \in Bought(x) : s = t

(* The pairs a payment has bought, and those that handlers still hope to    *)
(* buy with it, are never more than the handlers.                           *)
JInv ==
  /\ IInv
  /\ IsFiniteSet(Tokens)
  /\ ~ overlapped => Alone
  /\ \A x : Cardinality(Bought(x)) + Cardinality(Buyers(x)) <= Cardinality(Request)

LEMMA Finite ==
  ASSUME IsFiniteSet(Tokens), NEW x
  PROVE  /\ IsFiniteSet(Bought(x)) /\ Cardinality(Bought(x)) \in Nat
         /\ IsFiniteSet(Buyers(x)) /\ Cardinality(Buyers(x)) \in Nat
         /\ Cardinality(Buyers(x)) <= Cardinality(Request)
         /\ IsFiniteSet(Request) /\ Cardinality(Request) \in Nat
<1>1. Bought(x) \subseteq Tokens /\ Buyers(x) \subseteq Request
  BY DEF Bought, Buyers
<1>2. IsFiniteSet(Request)
  BY RequestAssumption
<1>3. IsFiniteSet(Bought(x))
  BY <1>1, FS_Subset
<1>4. IsFiniteSet(Buyers(x)) /\ Cardinality(Buyers(x)) <= Cardinality(Request)
  BY <1>1, <1>2, FS_Subset
<1> QED  BY <1>2, <1>3, <1>4, FS_CardinalityType

(* Nothing that has bought a pair is good for another.                      *)
LEMMA BoughtIsSpent ==
  ASSUME IInv, NEW l, Bought(Price(l)) # {}
  PROVE  /\ l.token = Nil => code[l.code].used
         /\ l.token # Nil => token[l.token].revoked
<1>1. PICK t \in Tokens : Payment(token[t].code, token[t].from) = Price(l)
  BY DEF Bought
<1>2. TokenOK(t)
  BY DEF IInv
<1>3. CASE l.token = Nil
  <2>1. token[t].from = Nil /\ token[t].code = l.code
    BY <1>1, <1>3 DEF Payment, Price
  <2> QED  BY <1>2, <1>3, <2>1 DEF TokenOK
<1>4. CASE l.token # Nil
  <2>1. token[t].from # Nil /\ token[t].from = l.token
    BY <1>1, <1>4 DEF Payment, Price
  <2> QED  BY <1>2, <1>4, <2>1 DEF TokenOK
<1> QED  BY <1>3, <1>4

LEMMA SameBought ==
  ASSUME Grow, Tokens' = Tokens
  PROVE  \A x : Bought(x)' = Bought(x)
BY DEF Grow, Bought, Payment

(* Pairs may age and be revoked: no property of the rows is lost by it.     *)
LEMMA RowsKept ==
  ASSUME Alone, Grow, Tokens' = Tokens,
         \A t \in Tokens : client'[token[t].client] = "revoked" =>
           client[token[t].client] = "revoked" \/ token'[t].revoked
  PROVE  /\ \A t \in Tokens' : client'[token'[t].client] = "revoked" => token'[t].revoked
         /\ \A s, t \in Tokens' : Live(s)' /\ Live(t)' /\ token'[s].code = token'[t].code => s = t
         /\ \A x : \A s, t \in Bought(x)' : s = t
<1>1. \A t \in Tokens : Live(t)' => Live(t)
  BY DEF Grow, Live
<1> QED  BY <1>1, SameBought DEF Alone, Grow

LEMMA IdleIsOK == ASSUME NEW r, At(r, "idle") PROVE AloneOK(req[r])
BY DEF At, AloneOK, Paying

(* A step of one handler that adds no pair. When no two have overlapped,    *)
(* the others are idle, and only its own knowledge matters.                 *)
LEMMA ByOne ==
  ASSUME JInv, IInv', Grow, Tokens' = Tokens, NEW r \in Request,
         \A q \in Request \ {r} : req'[q] = req[q],
         ~ overlapped' => ~ overlapped /\ \A q \in Request \ {r} : At(q, "idle"),
         ~ overlapped' => AloneOK(req[r])',
         ~ overlapped' => \A t \in Tokens : client'[token[t].client] = "revoked" =>
                            client[token[t].client] = "revoked" \/ token'[t].revoked,
         req'[r].phase \in Paying =>
           \/ req[r].phase \in Paying /\ Price(req'[r]) = Price(req[r])
           \/ Bought(Price(req'[r])) = {}
  PROVE  JInv'
<1>1. \A x : Bought(x)' = Bought(x)
  BY SameBought
<1>2. ASSUME ~ overlapped' PROVE Alone'
  <2>1. Alone
    BY <1>2 DEF JInv
  <2>2. \A q \in Request \ {r} : At(q, "idle")' /\ AloneOK(req[q])'
    <3>1. \A q \in Request \ {r} : At(q, "idle")'
      BY <1>2 DEF At
    <3>2. \A q \in Request \ {r} : AloneOK(req[q])'
      BY <3>1 DEF At, AloneOK, Paying
    <3> QED  BY <3>1, <3>2
  <2>3. (\A p, q \in Request : ~ At(p, "idle") /\ ~ At(q, "idle") => p = q)'
    BY <2>2
  <2>4. (\A q \in Request : AloneOK(req[q]))'
    BY <1>2, <2>2
  <2> QED  BY <1>2, <2>1, <2>3, <2>4, RowsKept DEF Alone
<1>3. ASSUME NEW x PROVE Cardinality(Bought(x)') + Cardinality(Buyers(x)') <= Cardinality(Request)
  <2>1. CASE Bought(x) = {}
    <3>1. Cardinality(Buyers(x)') <= Cardinality(Request) /\ Cardinality(Buyers(x)') \in Nat
      <4>1. Buyers(x)' \subseteq Request /\ IsFiniteSet(Request)
        BY RequestAssumption DEF Buyers
      <4>2. IsFiniteSet(Buyers(x)') /\ Cardinality(Buyers(x)') <= Cardinality(Request)
        BY <4>1, FS_Subset
      <4> QED  BY <4>2, FS_CardinalityType
    <3>2. Cardinality(Bought(x)') = 0
      BY <1>1, <2>1, FS_EmptySet
    <3>3. Cardinality(Request) \in Nat
      BY RequestAssumption, FS_CardinalityType
    <3> QED  BY <3>1, <3>2, <3>3
  <2>2. CASE Bought(x) # {}
    <3>1. Buyers(x)' \subseteq Buyers(x)
      BY <2>2 DEF Buyers
    <3>2. IsFiniteSet(Buyers(x)) /\ Cardinality(Buyers(x)) \in Nat /\ Cardinality(Bought(x)) \in Nat
          /\ Cardinality(Request) \in Nat
      BY Finite DEF JInv
    <3>3. Cardinality(Buyers(x)') <= Cardinality(Buyers(x)) /\ IsFiniteSet(Buyers(x)')
      BY <3>1, <3>2, FS_Subset
    <3>4. Cardinality(Buyers(x)') \in Nat
      BY <3>3, FS_CardinalityType
    <3>5. Cardinality(Bought(x)) + Cardinality(Buyers(x)) <= Cardinality(Request)
      BY DEF JInv
    <3> QED  BY <1>1, <3>2, <3>3, <3>4, <3>5
  <2> QED  BY <2>1, <2>2
<1> QED  BY <1>2, <1>3 DEF JInv

(* A step of nobody's: time, the hub, a registration, a revoked pair.       *)
LEMMA Elsewhere ==
  ASSUME JInv, IInv', Grow, Tokens' = Tokens, req' = req, overlapped' = overlapped,
         \A c \in Codes : code'[c].used = code[c].used,
         \A cl \in Client : /\ Known(cl) => Known(cl)'
                            /\ client'[cl] = "revoked" => client[cl] = "revoked"
  PROVE  JInv'
<1>1. \A x : Bought(x)' = Bought(x) /\ Buyers(x)' = Buyers(x)
  BY SameBought DEF Buyers
<1>2. ASSUME ~ overlapped' PROVE Alone'
  <2>1. Alone /\ ~ overlapped
    BY <1>2 DEF JInv
  <2>2. \A t \in Tokens : /\ token[t].client \in Client /\ (Live(t)' => Live(t))
                          /\ token'[t].client = token[t].client /\ token'[t].code = token[t].code
                          /\ token[t].revoked => token'[t].revoked
    BY Rows DEF JInv, IInv, Grow, Live
  <2>3. ASSUME NEW r \in Request PROVE AloneOK(req[r])'
    <3>1. AloneOK(req[r]) /\ LocalOK(req[r]) /\ req[r] \in Local
      BY <2>1 DEF Alone, JInv, IInv, TypeOK
    <3>2. req[r].phase \in Paying \cup {"exchange", "refresh"} => Known(req[r].client)'
      <4>1. req[r].phase \in Paying \cup {"exchange", "refresh"} => req[r].client # Nil
        BY <3>1, NilAssumption DEF AloneOK, LocalOK, Known, OfCode, OfToken, Entitled, Paying, JInv, IInv,
           TypeOK, CodeRow, TokenRow, Codes, Tokens
      <4> QED  BY <3>1, <4>1, LocalFields DEF AloneOK
    <3>3. req[r].phase = "consume" => ~ code'[req[r].code].used
      BY <3>1 DEF AloneOK, LocalOK, OfCode
    <3> QED  BY <1>1, <2>2, <3>1, <3>2, <3>3 DEF AloneOK
  <2>4. \A t \in Tokens : client'[token[t].client] = "revoked" => client[token[t].client] = "revoked"
    BY <2>2
  <2> QED  BY <2>1, <2>3, <2>4, RowsKept DEF Alone, At
<1> QED  BY <1>1, <1>2 DEF JInv

-----------------------------------------------------------------------------
LEMMA OthersIdle ==
  ASSUME JInv, NEW r \in Request, ~ At(r, "idle"), overlapped' = overlapped
  PROVE  ~ overlapped' => ~ overlapped /\ \A q \in Request \ {r} : At(q, "idle")
BY DEF JInv, Alone

LEMMA Gone ==
  ASSUME IInv, NEW r \in Request, NEW l, Go(r, l)
  PROVE  req'[r] = l /\ \A q \in Request \ {r} : req'[q] = req[q]
BY DEF Go, IInv, TypeOK

(* A handler that reads.                                                    *)
LEMMA Looks ==
  ASSUME JInv, IInv', UNCHANGED tables, NEW r \in Request, NEW l, Go(r, l),
         ~ overlapped' => ~ overlapped /\ \A q \in Request \ {r} : At(q, "idle"),
         ~ overlapped' => AloneOK(l),
         l.phase \in Paying =>
           (req[r].phase \in Paying /\ Price(l) = Price(req[r])) \/ Bought(Price(l)) = {}
  PROVE  JInv'
<1>1. req'[r] = l /\ \A q \in Request \ {r} : req'[q] = req[q]
  BY Gone DEF JInv
<1>2. /\ Grow /\ Tokens' = Tokens
      /\ client' = client /\ code' = code /\ token' = token
      /\ \A x : Bought(x)' = Bought(x)
  BY SameTablesGrow, SameBought DEF Tokens, tables
<1>3. \A t : Live(t)' = Live(t)
  BY <1>2 DEF Live
<1>4. AloneOK(l) => AloneOK(req[r])'
  BY <1>1, <1>2, <1>3 DEF AloneOK, Known
<1> QED  BY <1>1, <1>2, <1>4, ByOne

(* A handler that ends, whatever it has written last.                       *)
LEMMA EndsAlone ==
  ASSUME JInv, IInv', Grow, Tokens' = Tokens, NEW r \in Request, End(r), ~ At(r, "idle"),
         overlapped' = overlapped,
         ~ overlapped => \A t \in Tokens : client'[token[t].client] = "revoked" =>
                           client[token[t].client] = "revoked" \/ token'[t].revoked
  PROVE  JInv'
<1>1. req'[r] = Idle /\ \A q \in Request \ {r} : req'[q] = req[q]
  BY Gone DEF JInv, End
<1>2. AloneOK(req[r])' /\ req'[r].phase \notin Paying
  BY <1>1 DEF AloneOK, Idle, Paying
<1> QED  BY <1>1, <1>2, OthersIdle, ByOne

LEMMA ArriveAlone == ASSUME JInv, IInv', NEW r \in Request, Arrive(r) PROVE JInv'
<1>1. ~ overlapped' => ~ overlapped /\ \A q \in Request : At(q, "idle")
  BY DEF Arrive
<1>2. ASSUME NEW l, Go(r, l), UNCHANGED tables, l.phase = "code_insert" PROVE JInv'
  BY <1>1, <1>2, Looks DEF AloneOK, Paying
<1>3. ASSUME NEW l, Go(r, l), UNCHANGED tables, l.phase \in {"exchange", "refresh"}, Known(l.client)
      PROVE  JInv'
  BY <1>1, <1>3, Looks DEF AloneOK, Paying
<1>4. CASE \E cl \in Client, u \in User, g \in GrantRequests : Authorize(r, cl, u, g)
  <2>1. PICK cl, u, scope :
          Go(r, [Idle EXCEPT !.phase = "code_insert", !.client = cl, !.user = u, !.scope = scope])
    BY <1>4 DEF Authorize
  <2>2. UNCHANGED tables
    BY <1>4 DEF Authorize
  <2> QED  BY <1>2, <2>1, <2>2 DEF Idle
<1>5. CASE \E cl \in Client, c \in Code : Exchange(r, cl, c)
  <2>1. PICK cl \in Client, c \in Code : Exchange(r, cl, c)
    BY <1>5
  <2> DEFINE l == [Idle EXCEPT !.phase = "exchange", !.client = cl, !.code = c]
  <2>2. l.phase = "exchange" /\ l.client = cl
    BY DEF Idle
  <2>3. Go(r, l) /\ UNCHANGED tables /\ Known(cl)
    BY <2>1 DEF Exchange
  <2> HIDE DEF l
  <2> QED  BY <1>3, <2>2, <2>3
<1>6. CASE \E cl \in Client, t \in Token : Refresh(r, cl, t)
  <2>1. PICK cl \in Client, t \in Token : Refresh(r, cl, t)
    BY <1>6
  <2> DEFINE l == [Idle EXCEPT !.phase = "refresh", !.client = cl, !.token = t]
  <2>2. l.phase = "refresh" /\ l.client = cl
    BY DEF Idle
  <2>3. Go(r, l) /\ UNCHANGED tables /\ Known(cl)
    BY <2>1 DEF Refresh
  <2> HIDE DEF l
  <2> QED  BY <1>3, <2>2, <2>3
<1>7. CASE \E cl \in Client : RevokeClient(r, cl)
  <2>1. PICK cl \in Client : RevokeClient(r, cl)
    BY <1>7
  <2> DEFINE rows == {t \in Tokens : token[t].client = cl /\ Live(t)}
             l == [Idle EXCEPT !.phase = "client_write", !.client = cl, !.rows = rows]
  <2>2. l.phase = "client_write" /\ l.client = cl /\ l.rows = rows
    BY DEF Idle
  <2>3. Go(r, l) /\ UNCHANGED tables
    BY <2>1 DEF RevokeClient
  <2> HIDE DEF l
  <2>4. AloneOK(l) /\ l.phase \notin Paying
    BY <2>2 DEF AloneOK, Paying
  <2> QED  BY <1>1, <2>3, <2>4, Looks
<1> QED  BY <1>4, <1>5, <1>6, <1>7 DEF Arrive

-----------------------------------------------------------------------------
LEMMA ReadCodeAlone ==
  ASSUME JInv, IInv', NEW r \in Request, ReadCode(r), overlapped' = overlapped PROVE JInv'
<1> DEFINE row == code[req[r].code]
<1>1. /\ req[r] \in Local /\ LocalOK(req[r]) /\ req[r].phase = "exchange" /\ req[r].token = Nil
      /\ ~ At(r, "idle") /\ UNCHANGED tables
  BY DEF JInv, IInv, TypeOK, LocalOK, ReadCode, At
<1>2. ~ overlapped' => ~ overlapped /\ AloneOK(req[r]) /\ \A q \in Request \ {r} : At(q, "idle")
  BY <1>1, OthersIdle DEF JInv, Alone
<1>3. CASE Go(r, [Idle EXCEPT !.phase = "family", !.client = row.client, !.user = row.user])
  <2> DEFINE l == [Idle EXCEPT !.phase = "family", !.client = row.client, !.user = row.user]
  <2>1. l.phase = "family"
    BY DEF Idle
  <2> HIDE DEF l
  <2> QED  BY <1>1, <1>2, <1>3, <2>1, Looks DEF AloneOK, Paying, l
<1>4. CASE /\ ~ row.used
           /\ Go(r, [req[r] EXCEPT !.phase = "consume", !.user = row.user, !.scope = row.scope])
  <2> DEFINE l == [req[r] EXCEPT !.phase = "consume", !.user = row.user, !.scope = row.scope]
  <2>1. /\ l.phase = "consume" /\ l.code = req[r].code /\ l.client = req[r].client
        /\ l.token = Nil
    BY <1>1 DEF Local
  <2>2. Go(r, l)
    BY <1>4
  <2> HIDE DEF l
  <2>3. Bought(Price(l)) = {}
    BY <1>4, <2>1, BoughtIsSpent DEF JInv
  <2>4. ~ overlapped' => AloneOK(l)
    BY <1>1, <1>2, <1>4, <2>1, <2>3 DEF AloneOK, Paying
  <2> QED  BY <1>1, <1>2, <2>2, <2>3, <2>4, Looks
<1>5. CASE End(r)
  BY <1>1, <1>5, EndsAlone, SameTablesGrow DEF tables, Tokens
<1> QED  BY <1>3, <1>4, <1>5 DEF ReadCode

LEMMA ReadRefreshAlone ==
  ASSUME JInv, IInv', NEW r \in Request, ReadRefresh(r), overlapped' = overlapped PROVE JInv'
<1> DEFINE row == token[req[r].token]
           phase == IF row.revoked THEN "family" ELSE "account"
           l == [req[r] EXCEPT !.phase = phase, !.user = row.user, !.code = row.code]
<1>1. /\ req[r] \in Local /\ LocalOK(req[r]) /\ req[r].phase = "refresh" /\ req[r].token \in Tokens
      /\ ~ At(r, "idle") /\ UNCHANGED tables
  BY DEF JInv, IInv, TypeOK, LocalOK, ReadRefresh, At
<1>2. ~ overlapped' => ~ overlapped /\ AloneOK(req[r]) /\ \A q \in Request \ {r} : At(q, "idle")
  BY <1>1, OthersIdle DEF JInv, Alone
<1>3. CASE Go(r, l)
  <2>1. /\ l.phase = phase /\ l.code = row.code /\ l.client = req[r].client
        /\ l.token = req[r].token /\ l.token # Nil /\ l.token \in Tokens
    BY <1>1, NilAssumption DEF Local, Tokens
  <2>2. Go(r, l)
    BY <1>3
  <2> HIDE DEF l
  <2>3. CASE row.revoked
    BY <1>1, <1>2, <2>1, <2>2, <2>3, Looks DEF AloneOK, Paying
  <2>4. CASE ~ row.revoked
    <3>1. Bought(Price(l)) = {}
      BY <2>1, <2>4, BoughtIsSpent DEF JInv
    <3>2. l.phase = "account" /\ Live(l.token)
      BY <2>1, <2>4 DEF Live
    <3>3. ~ overlapped' => AloneOK(l)
      <4> SUFFICES ASSUME ~ overlapped' PROVE AloneOK(l)
        OBVIOUS
      <4>1. \A t \in Tokens : token[t].code = l.code /\ Live(t) => t = l.token
        BY <1>2, <2>1, <3>2 DEF JInv, Alone
      <4>2. Known(l.client)
        BY <1>1, <1>2, <2>1 DEF AloneOK
      <4> QED  BY <3>1, <3>2, <4>1, <4>2 DEF AloneOK
    <3> QED  BY <1>1, <1>2, <2>2, <3>1, <3>3, Looks
  <2> QED  BY <2>3, <2>4
<1>4. CASE End(r)
  BY <1>1, <1>4, EndsAlone, SameTablesGrow DEF tables, Tokens
<1> QED  BY <1>3, <1>4 DEF ReadRefresh

(* From the account to the rotation nothing is written.                     *)
LEMMA GoesOnAlone ==
  ASSUME JInv, IInv', NEW r \in Request, UNCHANGED tables, overlapped' = overlapped,
         NEW l, Go(r, l), req[r].phase \in {"account", "role"},
         l.phase \in {"role", "rotate", "family"}, l.token = req[r].token,
         l.code = req[r].code, l.client = req[r].client
  PROVE  JInv'
<1>1. ~ overlapped' => ~ overlapped /\ AloneOK(req[r]) /\ \A q \in Request \ {r} : At(q, "idle")
  BY OthersIdle DEF JInv, Alone, At
<1>2. Price(l) = Price(req[r]) /\ req[r].phase \in Paying
  BY DEF Price, Paying
<1>3. ~ overlapped' => AloneOK(l)
  BY <1>1, <1>2 DEF AloneOK, Paying
<1> QED  BY <1>1, <1>2, <1>3, Looks

LEMMA ReadAccountAlone ==
  ASSUME JInv, IInv', NEW r \in Request, ReadAccount(r), overlapped' = overlapped PROVE JInv'
<1> DEFINE phase == IF user[req[r].user].active THEN "role" ELSE "family"
           l == [req[r] EXCEPT !.phase = phase]
<1>1. req[r] \in Local /\ req[r].phase = "account" /\ UNCHANGED tables /\ Go(r, l)
  BY DEF JInv, IInv, TypeOK, ReadAccount, At
<1>2. /\ l.phase = phase /\ l.client = req[r].client
      /\ l.code = req[r].code /\ l.token = req[r].token
  BY <1>1 DEF Local
<1>3. phase \in {"role", "family"}
  OBVIOUS
<1> HIDE DEF l, phase
<1> QED  BY <1>1, <1>2, <1>3, GoesOnAlone

LEMMA NarrowAlone ==
  ASSUME JInv, IInv', NEW r \in Request, NEW asked, Narrow(r, asked), overlapped' = overlapped
  PROVE  JInv'
<1>1. /\ req[r] \in Local /\ req[r].phase = "role" /\ UNCHANGED tables /\ ~ At(r, "idle")
  BY DEF JInv, IInv, TypeOK, Narrow, At
<1>2. ASSUME NEW scope, Go(r, [req[r] EXCEPT !.phase = "rotate", !.scope = scope]) PROVE JInv'
  <2> DEFINE l == [req[r] EXCEPT !.phase = "rotate", !.scope = scope]
  <2>1. /\ l.phase = "rotate" /\ l.client = req[r].client
        /\ l.code = req[r].code /\ l.token = req[r].token
    BY <1>1 DEF Local
  <2>2. Go(r, l)
    BY <1>2
  <2> HIDE DEF l
  <2> QED  BY <1>1, <2>1, <2>2, GoesOnAlone
<1>3. CASE End(r)
  BY <1>1, <1>3, EndsAlone, SameTablesGrow DEF tables, Tokens
<1> QED  BY <1>2, <1>3 DEF Narrow

-----------------------------------------------------------------------------
(* Rows that are updated keep what Grow says if the update does.            *)
LEMMA CodeWriteGrows ==
  ASSUME IInv, NEW c \in Codes, NEW row \in CodeRow, code' = [code EXCEPT ![c] = row],
         row.client = code[c].client, row.user = code[c].user, row.scope = code[c].scope,
         code[c].used => row.used, token' = token
  PROVE  /\ Grow /\ Tokens' = Tokens /\ code'[c] = row
         /\ \A d \in Codes \ {c} : code'[d] = code[d]
<1>1. c \in Code /\ \A d \in Codes : d \in Code
  BY DEF Codes
<1>2. /\ code'[c] = row /\ \A d \in Code \ {c} : code'[d] = code[d]
      /\ code' \in [Code -> CodeRow \cup {Nil}]
  BY <1>1 DEF IInv, TypeOK
<1>3. Codes' = Codes /\ Tokens' = Tokens
  BY <1>1, <1>2, RowAssumption DEF Codes, Tokens
<1> QED  BY <1>1, <1>2, <1>3 DEF Grow

LEMMA TokenWriteGrows ==
  ASSUME IInv, NEW t \in Tokens, NEW row \in TokenRow, token' = [token EXCEPT ![t] = row],
         row.client = token[t].client, row.user = token[t].user, row.scope = token[t].scope,
         row.code = token[t].code, row.from = token[t].from, row.revoked = token[t].revoked,
         code' = code
  PROVE  Grow /\ Tokens' = Tokens
<1>1. t \in Token /\ \A s \in Tokens : s \in Token
  BY DEF Tokens
<1>2. token'[t] = row /\ \A s \in Token \ {t} : token'[s] = token[s]
  BY <1>1 DEF IInv, TypeOK
<1>3. Codes' = Codes /\ Tokens' = Tokens
  BY <1>1, <1>2, RowAssumption DEF Codes, Tokens
<1> QED  BY <1>1, <1>2, <1>3 DEF Grow

LEMMA CodeInsertAlone ==
  ASSUME JInv, IInv', NEW r \in Request, NEW c \in Code, CodeInsert(r, c), overlapped' = overlapped
  PROVE  JInv'
<1>1. token' = token /\ Tokens' = Tokens /\ client' = client
  BY DEF CodeInsert, Tokens
<1>2. \A d \in Codes : d \in Codes' /\ code'[d] = code[d]
  BY DEF CodeInsert, JInv, IInv, TypeOK, Codes
<1>3. Grow
  BY <1>1, <1>2 DEF Grow
<1> QED  BY <1>1, <1>3, EndsAlone DEF CodeInsert, At

LEMMA ConsumeAlone ==
  ASSUME JInv, IInv', NEW r \in Request, Consume(r), overlapped' = overlapped PROVE JInv'
<1> DEFINE c == req[r].code
           row == [code[c] EXCEPT !.used = TRUE]
           l == [req[r] EXCEPT !.phase = "issue"]
<1>1. /\ req[r] \in Local /\ LocalOK(req[r]) /\ req[r].phase = "consume" /\ ~ At(r, "idle")
      /\ c \in Codes /\ code[c] \in CodeRow /\ client' = client /\ token' = token
      /\ code' = [code EXCEPT ![c] = row]
  BY Rows DEF JInv, IInv, TypeOK, LocalOK, OfCode, Consume, At
<1>2. /\ row \in CodeRow /\ row.client = code[c].client /\ row.user = code[c].user
      /\ row.scope = code[c].scope /\ row.used
  BY <1>1 DEF CodeRow
<1> HIDE DEF row
<1>3. Grow /\ Tokens' = Tokens
  BY <1>1, <1>2, CodeWriteGrows DEF JInv
<1>4. CASE End(r)
  BY <1>1, <1>3, <1>4, EndsAlone
<1>5. CASE Go(r, l)
  <2>1. l.phase = "issue" /\ l.code = c /\ l.client = req[r].client /\ l.token = req[r].token
    BY <1>1 DEF Local
  <2> HIDE DEF l
  <2>2. req'[r] = l /\ \A q \in Request \ {r} : req'[q] = req[q]
    BY <1>5, Gone DEF JInv
  <2>3. ~ overlapped' => ~ overlapped /\ AloneOK(req[r]) /\ \A q \in Request \ {r} : At(q, "idle")
    BY <1>1, OthersIdle DEF JInv, Alone
  <2>4. Price(l) = Price(req[r]) /\ req[r].phase \in Paying
    BY <1>1, <2>1 DEF Price, Paying
  <2>5. ~ overlapped' => AloneOK(req[r])'
    <3> SUFFICES ASSUME ~ overlapped' PROVE AloneOK(req[r])'
      OBVIOUS
    <3>1. AloneOK(req[r]) /\ ~ code[c].used
      BY <1>1, <2>3 DEF AloneOK
    <3>2. \A t \in Tokens : token[t].code # c
      BY <3>1 DEF JInv, IInv, TokenOK
    <3>3. Bought(Price(l)) = {} /\ Known(l.client)
      BY <2>1, <2>4, <3>1 DEF AloneOK
    <3>4. \A x : Bought(x)' = Bought(x)
      BY <1>3, SameBought
    <3> QED  BY <1>1, <1>3, <2>1, <2>2, <3>2, <3>3, <3>4 DEF AloneOK, Paying, Known
  <2> QED  BY <1>1, <1>3, <2>2, <2>3, <2>4, <2>5, ByOne
<1> QED  BY <1>4, <1>5 DEF Consume

LEMMA RotateAlone ==
  ASSUME JInv, IInv', NEW r \in Request, Rotate(r), overlapped' = overlapped PROVE JInv'
<1> DEFINE l == [req[r] EXCEPT !.phase = "issue"]
<1>1. /\ req[r] \in Local /\ LocalOK(req[r]) /\ req[r].phase = "rotate" /\ ~ At(r, "idle")
      /\ req[r].token \in Tokens /\ client' = client /\ code' = code
      /\ Revoke({req[r].token}) /\ Go(r, l)
  BY DEF JInv, IInv, TypeOK, LocalOK, OfToken, Rotate, At
<1>2. Grow /\ Tokens' = Tokens /\ token'[req[r].token].revoked
  BY <1>1, RevokeEffect DEF JInv
<1>3. l.phase = "issue" /\ l.code = req[r].code /\ l.client = req[r].client /\ l.token = req[r].token
  BY <1>1 DEF Local
<1> HIDE DEF l
<1>4. req'[r] = l /\ \A q \in Request \ {r} : req'[q] = req[q]
  BY <1>1, Gone DEF JInv
<1>5. ~ overlapped' => ~ overlapped /\ AloneOK(req[r]) /\ \A q \in Request \ {r} : At(q, "idle")
  BY <1>1, OthersIdle DEF JInv, Alone
<1>6. Price(l) = Price(req[r]) /\ req[r].phase \in Paying
  BY <1>1, <1>3 DEF Price, Paying
<1>7. ~ overlapped' => AloneOK(req[r])'
  <2> SUFFICES ASSUME ~ overlapped' PROVE AloneOK(req[r])'
    OBVIOUS
  <2>1. /\ \A t \in Tokens : token[t].code = l.code /\ Live(t) => t = req[r].token
        /\ Bought(Price(l)) = {} /\ Known(l.client)
    BY <1>1, <1>3, <1>5, <1>6 DEF AloneOK
  <2>2. \A t \in Tokens : token'[t].code = token[t].code /\ (token[t].revoked => token'[t].revoked)
    BY <1>2 DEF Grow
  <2>3. \A t \in Tokens : token'[t].code = l.code => token'[t].revoked
    BY <1>2, <2>1, <2>2 DEF Live
  <2>4. \A x : Bought(x)' = Bought(x)
    BY <1>2, SameBought
  <2> QED  BY <1>1, <1>2, <1>3, <1>4, <2>1, <2>3, <2>4 DEF AloneOK, Paying, Known
<1> QED  BY <1>1, <1>2, <1>4, <1>5, <1>6, <1>7, ByOne

LEMMA ReadFamilyAlone ==
  ASSUME JInv, IInv', NEW r \in Request, ReadFamily(r), overlapped' = overlapped PROVE JInv'
<1>1. UNCHANGED tables /\ ~ At(r, "idle")
  BY DEF ReadFamily, At
<1>2. ~ overlapped' => ~ overlapped /\ \A q \in Request \ {r} : At(q, "idle")
  BY <1>1, OthersIdle
<1>3. ASSUME NEW rows, Go(r, [Idle EXCEPT !.phase = "family_write", !.rows = rows]) PROVE JInv'
  <2> DEFINE l == [Idle EXCEPT !.phase = "family_write", !.rows = rows]
  <2>1. l.phase = "family_write" /\ Go(r, l)
    BY <1>3 DEF Idle
  <2> HIDE DEF l
  <2> QED  BY <1>1, <1>2, <2>1, Looks DEF AloneOK, Paying
<1>4. CASE End(r)
  BY <1>1, <1>4, EndsAlone, SameTablesGrow DEF tables, Tokens
<1> QED  BY <1>3, <1>4 DEF ReadFamily

LEMMA RevokingAlone ==
  ASSUME JInv, IInv', NEW r \in Request, RevokeFamily(r) \/ RevokeClientCommit(r),
         overlapped' = overlapped
  PROVE  JInv'
<1>1. /\ req[r].rows \in SUBSET Tokens /\ Revoke(req[r].rows) /\ code' = code
      /\ ~ At(r, "idle") /\ End(r)
  BY DEF JInv, IInv, LocalOK, RevokeFamily, RevokeClientCommit, At
<1>2. Grow /\ Tokens' = Tokens /\ \A t \in req[r].rows : token'[t].revoked
  BY <1>1, RevokeEffect DEF JInv
<1>3. CASE RevokeFamily(r)
  BY <1>1, <1>2, <1>3, EndsAlone DEF RevokeFamily
<1>4. CASE RevokeClientCommit(r)
  <2>1. ASSUME ~ overlapped, NEW t \in Tokens, client'[token[t].client] = "revoked",
               client[token[t].client] # "revoked"
        PROVE  token'[t].revoked
    <3>1. token[t].client = req[r].client
      <4>1. token[t].client \in Client /\ client' = [client EXCEPT ![req[r].client] = "revoked"]
        BY <1>4, Rows DEF RevokeClientCommit, JInv, IInv
      <4> QED  BY <2>1, <4>1 DEF JInv, IInv, TypeOK
    <3>2. Live(t) => t \in req[r].rows
      BY <1>4, <2>1, <3>1 DEF JInv, Alone, AloneOK, RevokeClientCommit, At
    <3>3. token[t].revoked => token'[t].revoked
      BY <1>2 DEF Grow
    <3> QED  BY <1>2, <3>2, <3>3 DEF Live
  <2> QED  BY <1>1, <1>2, <2>1, EndsAlone
<1> QED  BY <1>3, <1>4

-----------------------------------------------------------------------------
(* The one step that adds a pair.                                           *)
LEMMA IssueAlone ==
  ASSUME JInv, IInv', NEW r \in Request, NEW t \in Token, Issue(r, t), overlapped' = overlapped
  PROVE  JInv'
<1> DEFINE row == [client |-> req[r].client, user |-> req[r].user, scope |-> req[r].scope,
                   revoked |-> FALSE, stale |-> FALSE, dead |-> FALSE,
                   code |-> req[r].code, from |-> req[r].token]
<1>1. /\ token' = [token EXCEPT ![t] = row] /\ t \notin Tokens /\ req[r].phase = "issue"
      /\ ~ At(r, "idle") /\ client' = client /\ code' = code
  BY DEF Issue, At
<1>2. /\ row.client = req[r].client /\ row.code = req[r].code /\ row.from = req[r].token
      /\ ~ row.revoked
  OBVIOUS
<1> HIDE DEF row
<1>3. /\ token'[t] = row /\ \A s \in Tokens : s # t /\ token'[s] = token[s]
      /\ Tokens' \subseteq Tokens \cup {t} /\ Tokens \subseteq Tokens'
  BY <1>1 DEF JInv, IInv, TypeOK, Tokens
<1>4. /\ req'[r] = Idle /\ \A q \in Request \ {r} : req'[q] = req[q]
  BY Gone DEF JInv, Issue, End
<1>5. IsFiniteSet(Tokens')
  <2>1. IsFiniteSet(Tokens \cup {t})
    BY FS_AddElement DEF JInv
  <2> QED  BY <1>3, <2>1, FS_Subset
<1>6. /\ \A x : x # Price(req[r]) => Bought(x)' \subseteq Bought(x)
      /\ \A x : x = Price(req[r]) => Bought(x)' \subseteq Bought(x) \cup {t}
      /\ \A x : t \notin Bought(x)
  BY <1>1, <1>2, <1>3 DEF Bought, Price
<1>7. /\ \A x : Buyers(x)' \subseteq Buyers(x) \ {r}
      /\ r \in Buyers(Price(req[r]))
  BY <1>1, <1>4 DEF Buyers, Idle, Paying
<1>8. ASSUME NEW x PROVE Cardinality(Bought(x)') + Cardinality(Buyers(x)') <= Cardinality(Request)
  <2>1. /\ IsFiniteSet(Bought(x)) /\ Cardinality(Bought(x)) \in Nat
        /\ IsFiniteSet(Buyers(x)) /\ Cardinality(Buyers(x)) \in Nat
        /\ Cardinality(Request) \in Nat
        /\ Cardinality(Bought(x)) + Cardinality(Buyers(x)) <= Cardinality(Request)
    BY Finite DEF JInv
  <2>2. CASE x # Price(req[r])
    <3>1. /\ Bought(x)' \subseteq Bought(x) /\ Buyers(x)' \subseteq Buyers(x)
      BY <1>6, <1>7, <2>2
    <3>2. /\ Cardinality(Bought(x)') <= Cardinality(Bought(x)) /\ IsFiniteSet(Bought(x)')
          /\ Cardinality(Buyers(x)') <= Cardinality(Buyers(x)) /\ IsFiniteSet(Buyers(x)')
      BY <2>1, <3>1, FS_Subset
    <3>3. Cardinality(Bought(x)') \in Nat /\ Cardinality(Buyers(x)') \in Nat
      BY <3>2, FS_CardinalityType
    <3> QED  BY <2>1, <3>2, <3>3
  <2>3. CASE x = Price(req[r])
    <3>1. /\ Bought(x)' \subseteq Bought(x) \cup {t} /\ Buyers(x)' \subseteq Buyers(x) \ {r}
          /\ t \notin Bought(x) /\ r \in Buyers(x)
      BY <1>6, <1>7, <2>3
    <3>2. /\ IsFiniteSet(Bought(x) \cup {t})
          /\ Cardinality(Bought(x) \cup {t}) = Cardinality(Bought(x)) + 1
      BY <2>1, <3>1, FS_AddElement
    <3>3. /\ IsFiniteSet(Buyers(x) \ {r})
          /\ Cardinality(Buyers(x) \ {r}) = Cardinality(Buyers(x)) - 1
      BY <2>1, <3>1, FS_RemoveElement
    <3>4. /\ Cardinality(Bought(x)') <= Cardinality(Bought(x) \cup {t}) /\ IsFiniteSet(Bought(x)')
          /\ Cardinality(Buyers(x)') <= Cardinality(Buyers(x) \ {r}) /\ IsFiniteSet(Buyers(x)')
      BY <3>1, <3>2, <3>3, FS_Subset
    <3>5. Cardinality(Bought(x)') \in Nat /\ Cardinality(Buyers(x)') \in Nat
      BY <3>4, FS_CardinalityType
    <3> QED  BY <2>1, <3>2, <3>3, <3>4, <3>5
  <2> QED  BY <2>2, <2>3
<1>9. ASSUME ~ overlapped' PROVE Alone'
  <2>1. Alone /\ AloneOK(req[r]) /\ \A q \in Request \ {r} : At(q, "idle")
    BY <1>1, <1>9, OthersIdle DEF JInv, Alone
  <2>2. \A q \in Request : At(q, "idle")' /\ AloneOK(req[q])'
    <3>1. \A q \in Request : At(q, "idle")'
      BY <1>4, <2>1 DEF At, Idle
    <3> QED  BY <3>1 DEF At, AloneOK, Paying
  <2>3. /\ Known(req[r].client)
        /\ \A s \in Tokens : token[s].code = req[r].code => token[s].revoked
        /\ Bought(Price(req[r])) = {}
    BY <1>1, <2>1 DEF AloneOK, Paying
  <2>4. (\A s \in Tokens : client[token[s].client] = "revoked" => token[s].revoked)'
    BY <1>1, <1>2, <1>3, <2>1, <2>3 DEF Alone, Known
  <2>5. (\A s, u \in Tokens : Live(s) /\ Live(u) /\ token[s].code = token[u].code => s = u)'
    BY <1>2, <1>3, <2>1, <2>3 DEF Alone, Live
  <2>6. \A x : \A s, u \in Bought(x)' : s = u
    BY <1>6, <2>1, <2>3 DEF Alone
  <2> QED  BY <2>2, <2>4, <2>5, <2>6 DEF Alone
<1> QED  BY <1>5, <1>8, <1>9 DEF JInv

-----------------------------------------------------------------------------
LEMMA ContinueAlone == ASSUME JInv, IInv', NEW r \in Request, Continue(r) PROVE JInv'
<1>1. overlapped' = overlapped
  BY DEF Continue
<1>2. CASE OutOfIds(r)
  BY <1>1, <1>2, EndsAlone, SameTablesGrow DEF OutOfIds, At, tables, Tokens
<1> QED  BY <1>1, <1>2, CodeInsertAlone, ReadCodeAlone, ConsumeAlone, ReadRefreshAlone,
            ReadAccountAlone, NarrowAlone, RotateAlone, IssueAlone, ReadFamilyAlone,
            RevokingAlone DEF Continue

LEMMA EnvironmentAlone == ASSUME JInv, IInv', Environment PROVE JInv'
<1>1. overlapped' = overlapped
  BY DEF Environment
<1>2. ASSUME NEW cl \in Client, Register(cl) PROVE JInv'
  <2>1. Grow /\ Tokens' = Tokens /\ req' = req /\ code' = code
    BY <1>2 DEF Register, Grow, Codes, Tokens
  <2>2. \A c \in Client : /\ Known(c) => Known(c)'
                          /\ client'[c] = "revoked" => client[c] = "revoked"
    BY <1>2 DEF Register, Known, JInv, IInv, TypeOK
  <2> QED  BY <1>1, <2>1, <2>2, Elsewhere
<1>3. ASSUME Grow, Tokens' = Tokens, req' = req, client' = client,
             \A c \in Codes : code'[c].used = code[c].used
      PROVE  JInv'
  BY <1>1, <1>3, Elsewhere DEF Known
<1>4. ASSUME NEW t \in Token, RevokeByRaw(t) PROVE JInv'
  <2>1. {t} \in SUBSET Tokens /\ Revoke({t}) /\ code' = code /\ client' = client /\ req' = req
    BY <1>4 DEF RevokeByRaw, Live
  <2>2. Grow /\ Tokens' = Tokens
    BY <2>1, RevokeEffect DEF JInv
  <2> QED  BY <1>3, <2>1, <2>2
<1>5. ASSUME NEW t \in Token, AccessExpires(t) \/ RefreshExpires(t) PROVE JInv'
  <2>1. /\ t \in Tokens /\ token[t] \in TokenRow
        /\ client' = client /\ code' = code /\ req' = req
    BY <1>5, Rows DEF AccessExpires, RefreshExpires, JInv, IInv
  <2>2. PICK row \in TokenRow :
          /\ token' = [token EXCEPT ![t] = row]
          /\ row.client = token[t].client /\ row.user = token[t].user /\ row.scope = token[t].scope
          /\ row.code = token[t].code /\ row.from = token[t].from /\ row.revoked = token[t].revoked
    <3>1. CASE AccessExpires(t)
      <4> DEFINE row == [token[t] EXCEPT !.stale = TRUE]
      <4>1. /\ row \in TokenRow
            /\ row.client = token[t].client /\ row.user = token[t].user /\ row.scope = token[t].scope
            /\ row.code = token[t].code /\ row.from = token[t].from
            /\ row.revoked = token[t].revoked
        BY <2>1 DEF TokenRow
      <4>2. token' = [token EXCEPT ![t] = row]
        BY <3>1 DEF AccessExpires
      <4> HIDE DEF row
      <4> QED  BY <4>1, <4>2
    <3>2. CASE RefreshExpires(t)
      <4> DEFINE row == [token[t] EXCEPT !.dead = TRUE]
      <4>1. /\ row \in TokenRow
            /\ row.client = token[t].client /\ row.user = token[t].user /\ row.scope = token[t].scope
            /\ row.code = token[t].code /\ row.from = token[t].from
            /\ row.revoked = token[t].revoked
        BY <2>1 DEF TokenRow
      <4>2. token' = [token EXCEPT ![t] = row]
        BY <3>2 DEF RefreshExpires
      <4> HIDE DEF row
      <4> QED  BY <4>1, <4>2
    <3> QED  BY <1>5, <3>1, <3>2
  <2>3. Grow /\ Tokens' = Tokens
    BY <2>1, <2>2, TokenWriteGrows DEF JInv
  <2> QED  BY <1>3, <2>1, <2>3
<1>6. ASSUME NEW c \in Code, CodeExpires(c) PROVE JInv'
  <2> DEFINE row == [code[c] EXCEPT !.late = TRUE]
  <2>1. /\ c \in Codes /\ code[c] \in CodeRow /\ code' = [code EXCEPT ![c] = row]
        /\ client' = client /\ token' = token /\ req' = req
    BY <1>6, Rows DEF CodeExpires, JInv, IInv
  <2>2. /\ row \in CodeRow /\ row.client = code[c].client /\ row.user = code[c].user
        /\ row.scope = code[c].scope /\ row.used = code[c].used
    BY <2>1 DEF CodeRow
  <2> HIDE DEF row
  <2>3. /\ Grow /\ Tokens' = Tokens /\ code'[c] = row
        /\ \A d \in Codes \ {c} : code'[d] = code[d]
    BY <2>1, <2>2, CodeWriteGrows DEF JInv
  <2> QED  BY <1>3, <2>1, <2>2, <2>3
<1>7. ASSUME NEW u \in User, NEW active \in BOOLEAN, NEW role \in UserRoles,
             HubEditsUser(u, active, role)
      PROVE  JInv'
  <2>1. Grow /\ Tokens' = Tokens /\ req' = req /\ client' = client /\ code' = code
    BY <1>7 DEF HubEditsUser, Grow, Codes, Tokens
  <2> QED  BY <1>3, <2>1
<1> QED  BY <1>2, <1>4, <1>5, <1>6, <1>7 DEF Environment

LEMMA StartAlone == Init => JInv
<1> SUFFICES ASSUME Init PROVE JInv
  OBVIOUS
<1>1. IInv /\ Tokens = {} /\ IsFiniteSet(Tokens)
  BY Start, FS_EmptySet DEF Init, Tokens
<1>2. \A r \in Request : req[r] = Idle /\ At(r, "idle")
  BY DEF Init, At, Idle
<1>3. \A x : Bought(x) = {} /\ Buyers(x) = {}
  BY <1>1, <1>2 DEF Bought, Buyers, Idle, Paying
<1>4. \A x : Cardinality(Bought(x)) + Cardinality(Buyers(x)) <= Cardinality(Request)
  <2>1. Cardinality({}) = 0 /\ Cardinality(Request) \in Nat
    BY FS_EmptySet, RequestAssumption, FS_CardinalityType
  <2> QED  BY <1>3, <2>1
<1>5. Alone
  <2>1. \A r \in Request : AloneOK(req[r])
    BY <1>2 DEF AloneOK, Idle, Paying
  <2> QED  BY <1>1, <1>2, <1>3, <2>1 DEF Alone
<1> QED  BY <1>1, <1>4, <1>5 DEF JInv

LEMMA StepAlone == JInv /\ [Next]_vars => JInv'
<1> SUFFICES ASSUME JInv, [Next]_vars PROVE JInv'
  OBVIOUS
<1>1. IInv'
  BY Step DEF JInv
<1>2. ASSUME NEW r \in Request, Abort(r), UNCHANGED overlapped PROVE JInv'
  BY <1>1, <1>2, EndsAlone, SameTablesGrow DEF Abort, tables, Tokens
<1>3. CASE UNCHANGED vars
  <2>1. Grow /\ Tokens' = Tokens /\ req' = req /\ client' = client /\ code' = code
        /\ overlapped' = overlapped
    BY <1>3, SameTablesGrow DEF vars, tables, Tokens
  <2> QED  BY <1>1, <2>1, Elsewhere DEF Known
<1>4. CASE Next
  BY <1>1, <1>2, <1>4, ArriveAlone, ContinueAlone, EnvironmentAlone DEF Next
<1> QED  BY <1>3, <1>4

LEMMA InvarianceAlone == Spec => []JInv
BY StartAlone, StepAlone, PTL DEF Spec

LEMMA SingleUseFollows == ASSUME JInv PROVE SingleUse
<1>1. /\ \A c : FirstPairs(c) \subseteq Bought(<<"code", c>>)
      /\ \A t \in Token : Successors(t) \subseteq Bought(<<"token", t>>)
  BY NilAssumption DEF FirstPairs, Successors, Bought, Payment
<1>2. ASSUME NEW x, NEW S \in SUBSET Bought(x)
      PROVE  Cardinality(S) <= IF overlapped THEN Cardinality(Request) ELSE 1
  <2>1. /\ IsFiniteSet(Bought(x)) /\ Cardinality(Bought(x)) \in Nat
        /\ Cardinality(Buyers(x)) \in Nat /\ Cardinality(Request) \in Nat
        /\ Cardinality(Bought(x)) + Cardinality(Buyers(x)) <= Cardinality(Request)
    BY Finite DEF JInv
  <2>2. IsFiniteSet(S) /\ Cardinality(S) <= Cardinality(Bought(x)) /\ Cardinality(S) \in Nat
    BY <2>1, FS_Subset, FS_CardinalityType
  <2>3. CASE overlapped
    BY <2>1, <2>2, <2>3
  <2>4. CASE ~ overlapped
    <3>1. \A s, t \in S : s = t
      BY <2>4 DEF JInv, Alone
    <3>2. CASE S = {}
      BY <2>4, <3>2, FS_EmptySet
    <3>3. CASE S # {}
      <4>1. PICK s \in S : S = {s}
        BY <3>1, <3>3
      <4> QED  BY <2>4, <4>1, FS_Singleton
    <3> QED  BY <3>2, <3>3
  <2> QED  BY <2>3, <2>4 DEF JInv, IInv, TypeOK
<1> QED  BY <1>1, <1>2 DEF SingleUse

(* A code, and a refresh token, buy one pair while no two handlers are in   *)
(* flight together, through any replays, crashes and role changes; with any *)
(* number of handlers in flight they never buy more pairs than there are    *)
(* handlers (`consume_auth_code`, `use_refresh_token`).                     *)
THEOREM PaymentsBuyOnce == Spec => []SingleUse
<1>1. JInv => SingleUse
  BY SingleUseFollows
<1> QED  BY <1>1, InvarianceAlone, PTL

LEMMA OneLivePairFollows == ASSUME JInv PROVE OneLivePair
<1> SUFFICES ASSUME NEW c \in Code, ~ overlapped
             PROVE  Cardinality({t \in Tokens : token[t].code = c /\ Live(t)}) <= 1
  BY DEF OneLivePair
<1> DEFINE live == {t \in Tokens : token[t].code = c /\ Live(t)}
<1>1. \A s, t \in live : s = t
  BY DEF JInv, Alone
<1> SUFFICES Cardinality(live) <= 1
  OBVIOUS
<1> HIDE DEF live
<1>2. CASE live = {}
  BY <1>2, FS_EmptySet
<1>3. CASE live # {}
  <2>1. PICK s \in live : live = {s}
    BY <1>1, <1>3
  <2>2. Cardinality({s}) = 1
    BY FS_Singleton
  <2> QED  BY <2>1, <2>2
<1> QED  BY <1>2, <1>3

(* While no two handlers have overlapped a consent has one live pair at     *)
(* most, however often it was rotated, replayed or cut short                *)
(* (`use_refresh_token` revokes the old pair before `issue_tokens`).        *)
THEOREM ConsentHasOneLivePair == Spec => []OneLivePair
<1>1. JInv => OneLivePair
  BY OneLivePairFollows
<1> QED  BY <1>1, InvarianceAlone, PTL

(* While no two handlers have overlapped, a revoked client holds no token   *)
(* that `verify_access_token` accepts: the rows the revocation found are    *)
(* all there were, and none was issued since (admin/router.py).             *)
THEOREM RevocationIsImmediate == Spec => []ClientRevocationImmediate
<1>1. JInv => ClientRevocationImmediate
  BY DEF JInv, Alone, ClientRevocationImmediate, Accepted, Live
<1> QED  BY <1>1, InvarianceAlone, PTL

=============================================================================
