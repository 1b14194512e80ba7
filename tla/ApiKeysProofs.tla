--------------------------- MODULE ApiKeysProofs ---------------------------
(* Proofs about ApiKeys: for every set of keys, requests and scopes.        *)
EXTENDS ApiKeys, FiniteSetTheorems, TLAPS

(* The scope algebra is reflexive ...                                       *)
LEMMA CoversReflexive == \A S : Covers(S, S)
  BY DEF Covers, HasScope

(* ... and transitive: what a credential covers covers nothing more than    *)
(* the credential itself does.                                              *)
LEMMA HasScopeTransitive ==
  ASSUME NEW G, NEW C \in SUBSET Scope, NEW s \in Scope,
         Covers(G, C), HasScope(C, s)
  PROVE  HasScope(G, s)
<1> DEFINE Open == s.module \notin SCOPE_ISOLATED_MODULES
<1>1. Coarse("read") \in Scope /\ Coarse("write") \in Scope
  BY DEF Coarse, Scope, Verb, NoModule
<1>2. Coarse("write") \in C => Coarse("write") \in G
  BY SMT DEF Covers, HasScope, Coarse, Granular, NoModule
<1>3. Coarse("read") \in C => Coarse("read") \in G \/ Coarse("write") \in G
  BY SMT DEF Covers, HasScope, Coarse, Granular, NoModule
<1>4. CASE s \in C
  BY <1>4 DEF Covers
<1>5. CASE Open /\ Coarse("write") \in C
           /\ (s = Coarse("read") \/ Granular(s, "read") \/ Granular(s, "write"))
  BY <1>5, <1>2 DEF HasScope
<1>6. CASE Open /\ Coarse("read") \in C /\ Granular(s, "read")
  BY <1>6, <1>3 DEF HasScope
<1>7. CASE Granular(s, "read") /\ WriteOf(s.module) \in C
  <2>1. HasScope(G, WriteOf(s.module))
    BY <1>7 DEF Covers
  <2>2. /\ WriteOf(s.module).verb = "write"
        /\ WriteOf(s.module).module = s.module
        /\ WriteOf(s.module) # Coarse("read")
    BY SMT DEF WriteOf, Coarse
  <2>3. \/ WriteOf(s.module) \in G
        \/ Open /\ Coarse("write") \in G
    BY <2>1, <2>2 DEF HasScope, Granular
  <2> QED
    BY <1>7, <2>3 DEF HasScope
<1> QED
  BY <1>4, <1>5, <1>6, <1>7 DEF HasScope

LEMMA CoversTransitive ==
  ASSUME NEW A \in SUBSET Scope, NEW B \in SUBSET Scope, NEW C \in SUBSET Scope,
         Covers(A, B), Covers(B, C)
  PROVE  Covers(A, C)
<1> SUFFICES ASSUME NEW s \in C
             PROVE  HasScope(A, s)
  BY DEF Covers
<1> QED
  BY HasScopeTransitive DEF Covers

-----------------------------------------------------------------------------
(* The local variables of a request, one assignment at a time.              *)
LEMMA LocalFields ==
  ASSUME NEW l \in Local
  PROVE  /\ l.key \in Key \cup {NoKey}
         /\ l.owner \in Owner \cup {OtherLabel}
         /\ l.wanted \subseteq Scope
         /\ l.seen \subseteq Key /\ l.frontier \subseteq Key /\ l.todo \subseteq Key
  BY DEF Local

LEMMA LocalUpdates ==
  ASSUME NEW l \in Local, NEW p \in Phase,
         NEW S \in SUBSET Key, NEW F \in SUBSET Key, NEW T \in SUBSET Key
  PROVE  /\ [l EXCEPT !.phase = p] \in Local
         /\ [l EXCEPT !.phase = p, !.seen = S, !.frontier = F] \in Local
         /\ [l EXCEPT !.todo = T, !.frontier = F] \in Local
         /\ [l EXCEPT !.todo = T, !.seen = S, !.frontier = F] \in Local
<1>1. [l EXCEPT !.phase = p] \in Local
  BY DEF Local
<1>2. [l EXCEPT !.phase = p, !.seen = S, !.frontier = F] \in Local
  BY DEF Local
<1>3. [l EXCEPT !.todo = T, !.frontier = F] \in Local
  BY DEF Local
<1>4. [l EXCEPT !.todo = T, !.seen = S, !.frontier = F] \in Local
  BY DEF Local
<1> QED
  BY <1>1, <1>2, <1>3, <1>4

LEMMA IdleLocal == Idle \in Local
  BY DEF Idle, Local, Phase

-----------------------------------------------------------------------------
(* The inductive invariant.  The rows: a key is live only below live keys   *)
(* and holds no scope its parent could not grant.                           *)
RowOK(k) ==
  /\ parent[k] \in issued \cup {NoKey}
  /\ parent[k] \in revoked => k \in revoked
  /\ parent[k] # NoKey => Covers(scopes[parent[k]], scopes[k])

(* A mint past its re-check holds the lock of a calling key that is live.   *)
MintOK(r) ==
  /\ At(r, "mint_lock") => req[r].key \in issued
  /\ At(r, "mint_check") \/ At(r, "mint_insert") =>
       /\ req[r].key \in issued \ revoked
       /\ lock[req[r].key] = r
  /\ At(r, "mint_insert") => Covers(scopes[req[r].key], req[r].wanted)

(* A cascade holds the lock of every row it has seen, and a child of one of *)
(* those rows is seen, about to be locked, or still to be looked for.       *)
WalkOK(r) ==
  /\ At(r, "revoke_lock") => req[r].todo = {}
  /\ At(r, "cascade") =>
       /\ req[r].seen \subseteq issued
       /\ req[r].todo \subseteq issued
       /\ req[r].frontier \subseteq req[r].seen
       /\ \A k \in req[r].seen : lock[k] = r
       /\ \A c \in issued : parent[c] \in req[r].seen =>
            c \in req[r].seen \cup req[r].todo \/ parent[c] \in req[r].frontier

IInv ==
  /\ TypeOK
  /\ \A k \in issued : RowOK(k)
  /\ \A r \in Request : MintOK(r) /\ WalkOK(r)

(* A step that leaves q's variables and locks alone, gives no child to a    *)
(* row q holds and revokes no row q holds, keeps what q relies on.          *)
LEMMA OtherRequest ==
  ASSUME TypeOK, NEW q \in Request, MintOK(q), WalkOK(q),
         req'[q] = req[q],
         \A k \in Key : lock[k] = q => lock'[k] = q,
         issued \subseteq issued',
         \A k \in issued : parent'[k] = parent[k] /\ scopes'[k] = scopes[k],
         \A k \in issued' \ issued : parent'[k] = NoKey \/ lock[parent'[k]] # q,
         \A k \in revoked' \ revoked : lock[k] # q
  PROVE  MintOK(q)' /\ WalkOK(q)'
<1> USE DEF At
<1>1. MintOK(q)'
  BY DEF MintOK, TypeOK
<1>2. WalkOK(q)'
  <2> SUFFICES ASSUME At(q, "cascade")'
               PROVE  /\ req[q].seen \subseteq issued'
                      /\ req[q].todo \subseteq issued'
                      /\ req[q].frontier \subseteq req[q].seen
                      /\ \A k \in req[q].seen : lock'[k] = q
                      /\ \A c \in issued' : parent'[c] \in req[q].seen =>
                           c \in req[q].seen \cup req[q].todo \/ parent'[c] \in req[q].frontier
    BY DEF WalkOK
  <2>1. req[q].seen \subseteq issued /\ req[q].seen \subseteq Key /\ NoKey \notin req[q].seen
    BY NullAssumption DEF WalkOK, TypeOK
  <2>2. ASSUME NEW c \in issued', parent'[c] \in req[q].seen
        PROVE  c \in req[q].seen \cup req[q].todo \/ parent'[c] \in req[q].frontier
    <3>1. c \in issued
      BY <2>1, <2>2 DEF WalkOK
    <3> QED
      BY <2>2, <3>1 DEF WalkOK
  <2> QED
    BY <2>1, <2>2 DEF WalkOK
<1> QED
  BY <1>1, <1>2

(* The end of a request gives back its locks and only those.                *)
LEMMA FinishFrame ==
  ASSUME TypeOK, NEW r \in Request, Finish(r)
  PROVE  /\ req' \in [Request -> Local]
         /\ lock' \in [Key -> Request \cup {NoRequest}]
         /\ req'[r].phase = "idle"
         /\ \A q \in Request \ {r} : req'[q] = req[q]
         /\ \A q \in Request \ {r} : \A k \in Key : lock[k] = q => lock'[k] = q
<1>1. req' \in [Request -> Local] /\ req'[r].phase = "idle"
  BY IdleLocal DEF Finish, TypeOK, Idle
<1>2. lock' \in [Key -> Request \cup {NoRequest}]
  BY DEF Finish, TypeOK
<1> QED
  BY <1>1, <1>2 DEF Finish, TypeOK

(* A request that ends without touching the table.                          *)
LEMMA FinishStep ==
  ASSUME IInv, NEW r \in Request, Finish(r), UNCHANGED <<table, expired>>
  PROVE  IInv'
<1>1. TypeOK'
  BY FinishFrame DEF IInv, TypeOK, table
<1>2. \A k \in issued' : RowOK(k)'
  BY DEF IInv, RowOK, table
<1>3. MintOK(r)' /\ WalkOK(r)'
  BY FinishFrame DEF IInv, MintOK, WalkOK, At
<1>4. ASSUME NEW q \in Request \ {r} PROVE MintOK(q)' /\ WalkOK(q)'
  <2>1. /\ req'[q] = req[q]
        /\ \A k \in Key : lock[k] = q => lock'[k] = q
    BY FinishFrame DEF IInv
  <2> QED
    BY <2>1, OtherRequest DEF IInv, table
<1> QED
  BY <1>1, <1>2, <1>3, <1>4 DEF IInv

(* A step of r on its own variables and, at most, the lock of a row nobody  *)
(* else holds.                                                              *)
LEMMA LocalStep ==
  ASSUME IInv, NEW r \in Request, UNCHANGED <<table, expired>>,
         req' \in [Request -> Local], lock' \in [Key -> Request \cup {NoRequest}],
         \A q \in Request \ {r} : req'[q] = req[q],
         \A q \in Request \ {r} : \A k \in Key : lock[k] = q => lock'[k] = q,
         MintOK(r)', WalkOK(r)'
  PROVE  IInv'
<1>1. TypeOK'
  BY DEF IInv, TypeOK, table
<1>2. \A k \in issued' : RowOK(k)'
  BY DEF IInv, RowOK, table
<1>3. ASSUME NEW q \in Request \ {r} PROVE MintOK(q)' /\ WalkOK(q)'
  BY OtherRequest DEF IInv, table
<1> QED
  BY <1>1, <1>2, <1>3 DEF IInv

-----------------------------------------------------------------------------
LEMMA InvInit == Init => IInv
<1> SUFFICES ASSUME Init PROVE IInv
  OBVIOUS
<1>1. TypeOK
  BY IdleLocal, LegacyAssumption DEF Init, TypeOK
<1>2. \A k \in issued : RowOK(k)
  BY NullAssumption, LegacyAssumption DEF Init, RowOK
<1>3. \A r \in Request : MintOK(r) /\ WalkOK(r)
  BY DEF Init, MintOK, WalkOK, At, Idle
<1> QED
  BY <1>1, <1>2, <1>3 DEF IInv

LEMMA CreateKeyInv ==
  ASSUME IInv, NEW k \in Key, NEW s \in RequestedScopes, CreateKey(k, s)
  PROVE  IInv'
<1>1. TypeOK'
  BY ScopesAssumption DEF CreateKey, IInv, TypeOK
<1>2. ASSUME NEW x \in issued' PROVE RowOK(x)'
  BY <1>2, NullAssumption DEF CreateKey, IInv, TypeOK, RowOK
<1>3. ASSUME NEW q \in Request PROVE MintOK(q)' /\ WalkOK(q)'
  <2>1. \A x \in issued' \ issued : parent'[x] = NoKey
    BY DEF CreateKey, IInv, TypeOK
  <2>2. \A x \in issued : parent'[x] = parent[x] /\ scopes'[x] = scopes[x]
    BY DEF CreateKey, IInv, TypeOK
  <2> QED
    BY <2>1, <2>2, OtherRequest DEF CreateKey, IInv
<1> QED
  BY <1>1, <1>2, <1>3 DEF IInv

LEMMA ExpireInv ==
  ASSUME IInv, NEW k \in Key, Expire(k)
  PROVE  IInv'
<1>1. TypeOK'
  BY DEF Expire, IInv, TypeOK, table
<1>2. \A x \in issued' : RowOK(x)'
  BY DEF Expire, IInv, RowOK, table
<1>3. \A q \in Request : MintOK(q)' /\ WalkOK(q)'
  BY OtherRequest DEF Expire, IInv, table
<1> QED
  BY <1>1, <1>2, <1>3 DEF IInv

(* A new request reads and writes no row: it only sets its own variables.   *)
LEMMA ArriveInv ==
  ASSUME IInv, NEW r \in Request, Arrive(r)
  PROVE  IInv'
<1>1. ASSUME NEW l \in Local, l.phase \in {"mint_lock", "revoke_lock"},
             l.phase = "mint_lock" => l.key \in issued,
             l.todo = {},
             req' = [req EXCEPT ![r] = l], UNCHANGED <<table, expired, lock>>
      PROVE  IInv'
  <2>1. req' \in [Request -> Local] /\ req'[r] = l /\ \A q \in Request \ {r} : req'[q] = req[q]
    BY <1>1 DEF IInv, TypeOK
  <2>2. MintOK(r)' /\ WalkOK(r)'
    BY <1>1, <2>1 DEF MintOK, WalkOK, At, table
  <2>3. lock' \in [Key -> Request \cup {NoRequest}]
    BY <1>1 DEF IInv, TypeOK
  <2> QED
    BY <1>1, <2>1, <2>2, <2>3, LocalStep
<1>2. ASSUME NEW k \in Key, NEW o \in Owner \cup {OtherLabel}, NEW s \in RequestedScopes,
             MintAuthenticate(r, k, o, s)
      PROVE  IInv'
  <2> DEFINE l == [Idle EXCEPT !.phase = "mint_lock", !.key = k, !.owner = o, !.wanted = s]
  <2>1. l \in Local /\ l.phase = "mint_lock" /\ l.key = k /\ l.todo = {}
    BY ScopesAssumption, IdleLocal DEF Idle, Local, Phase
  <2> QED
    BY <1>1, <1>2, <2>1 DEF MintAuthenticate, Authenticates
<1>3. ASSUME NEW k \in Key, RevokeByAdmin(r, k) PROVE IInv'
  <2> DEFINE l == [Idle EXCEPT !.phase = "revoke_lock", !.key = k]
  <2>1. l \in Local /\ l.phase = "revoke_lock" /\ l.todo = {}
    BY IdleLocal DEF Idle, Local, Phase
  <2> QED
    BY <1>1, <1>3, <2>1 DEF RevokeByAdmin
<1>4. ASSUME NEW caller \in Key, NEW k \in Key, NEW o \in Owner, RevokeForOwner(r, caller, k, o)
      PROVE  IInv'
  <2> DEFINE l == [Idle EXCEPT !.phase = "revoke_lock", !.key = k, !.owner = o]
  <2>1. l \in Local /\ l.phase = "revoke_lock" /\ l.todo = {}
    BY IdleLocal DEF Idle, Local, Phase
  <2> QED
    BY <1>1, <1>4, <2>1 DEF RevokeForOwner
<1> QED
  BY <1>2, <1>3, <1>4 DEF Arrive

LEMMA MintLockInv ==
  ASSUME IInv, NEW r \in Request, MintLock(r)
  PROVE  IInv'
<1> DEFINE k == req[r].key
<1>1. CASE Finish(r)
  BY <1>1, FinishStep DEF MintLock
<1>2. CASE ~ Finish(r)
  <2>1. /\ At(r, "mint_lock") /\ Unlocked(r, k) /\ k \notin revoked
        /\ lock' = [lock EXCEPT ![k] = r]
        /\ req' = [req EXCEPT ![r].phase = "mint_check"]
        /\ UNCHANGED <<table, expired>>
    BY <1>2 DEF MintLock
  <2>2. k \in issued /\ k \in Key
    BY <2>1 DEF IInv, MintOK, TypeOK
  <2>3. /\ req' \in [Request -> Local]
        /\ req'[r].phase = "mint_check" /\ req'[r].key = k
        /\ \A q \in Request \ {r} : req'[q] = req[q]
    <3>1. [req[r] EXCEPT !.phase = "mint_check"] \in Local
      BY LocalUpdates DEF IInv, TypeOK, Phase
    <3> QED
      BY <2>1, <3>1 DEF IInv, TypeOK, Local
  <2>4. /\ lock' \in [Key -> Request \cup {NoRequest}]
        /\ lock'[k] = r
        /\ \A q \in Request \ {r} : \A x \in Key : lock[x] = q => lock'[x] = q
    BY <2>1, <2>2, NullAssumption DEF Unlocked, IInv, TypeOK
  <2>5. MintOK(r)' /\ WalkOK(r)'
    BY <2>1, <2>2, <2>3, <2>4 DEF MintOK, WalkOK, At, table
  <2> QED
    BY <2>1, <2>3, <2>4, <2>5, LocalStep
<1> QED
  BY <1>1, <1>2

LEMMA MintCheckInv ==
  ASSUME IInv, NEW r \in Request, MintCheck(r)
  PROVE  IInv'
<1>1. CASE Finish(r)
  BY <1>1, FinishStep DEF MintCheck
<1>2. CASE ~ Finish(r)
  <2>1. /\ At(r, "mint_check") /\ MintAllowed(r)
        /\ req' = [req EXCEPT ![r].phase = "mint_insert"]
        /\ UNCHANGED <<table, expired, lock>>
    BY <1>2 DEF MintCheck
  <2>2. /\ req' \in [Request -> Local]
        /\ req'[r].phase = "mint_insert"
        /\ req'[r].key = req[r].key /\ req'[r].wanted = req[r].wanted
        /\ \A q \in Request \ {r} : req'[q] = req[q]
    <3>1. [req[r] EXCEPT !.phase = "mint_insert"] \in Local
      BY LocalUpdates DEF IInv, TypeOK, Phase
    <3> QED
      BY <2>1, <3>1 DEF IInv, TypeOK, Local
  <2>3. lock' \in [Key -> Request \cup {NoRequest}]
    BY <2>1 DEF IInv, TypeOK
  <2>4. MintOK(r)' /\ WalkOK(r)'
    BY <2>1, <2>2 DEF IInv, MintOK, WalkOK, MintAllowed, At, table
  <2> QED
    BY <2>1, <2>2, <2>3, <2>4, LocalStep
<1> QED
  BY <1>1, <1>2

(* The new child hangs below a live key that covers its scopes; no cascade  *)
(* holds that key, since the mint does.                                     *)
LEMMA MintInsertInv ==
  ASSUME IInv, NEW r \in Request, NEW c \in Key, MintInsert(r, c)
  PROVE  IInv'
<1> DEFINE k == req[r].key
<1>1. /\ At(r, "mint_insert") /\ c \notin issued /\ issued' = issued \cup {c}
      /\ parent' = [parent EXCEPT ![c] = k]
      /\ scopes' = [scopes EXCEPT ![c] = req[r].wanted]
      /\ created_by' = [created_by EXCEPT ![c] = req[r].owner]
      /\ revoked' = revoked /\ expired' = expired
      /\ Finish(r)
  BY DEF MintInsert
<1>2. k \in issued \ revoked /\ lock[k] = r /\ Covers(scopes[k], req[r].wanted)
  BY <1>1 DEF IInv, MintOK
<1>3. /\ req' \in [Request -> Local] /\ req'[r].phase = "idle"
      /\ lock' \in [Key -> Request \cup {NoRequest}]
      /\ \A q \in Request \ {r} : req'[q] = req[q]
      /\ \A q \in Request \ {r} : \A x \in Key : lock[x] = q => lock'[x] = q
  BY <1>1, FinishFrame DEF IInv
<1>4. TypeOK'
  <2>1. req[r].wanted \subseteq Scope /\ req[r].owner \in Owner \cup {OtherLabel}
    BY LocalFields DEF IInv, TypeOK
  <2> QED
    BY <1>1, <1>2, <1>3, <2>1 DEF IInv, TypeOK
<1>5. ASSUME NEW x \in issued' PROVE RowOK(x)'
  <2>1. CASE x = c
    BY <1>1, <1>2, <2>1 DEF IInv, TypeOK, RowOK
  <2>2. CASE x \in issued
    BY <1>1, <2>2 DEF IInv, TypeOK, RowOK
  <2> QED
    BY <1>1, <2>1, <2>2
<1>6. ASSUME NEW q \in Request \ {r} PROVE MintOK(q)' /\ WalkOK(q)'
  <2>1. /\ \A x \in issued : parent'[x] = parent[x] /\ scopes'[x] = scopes[x]
        /\ \A x \in issued' \ issued : lock[parent'[x]] # q
    BY <1>1, <1>2 DEF IInv, TypeOK
  <2> QED
    BY <1>1, <1>3, <2>1, OtherRequest DEF IInv
<1>7. MintOK(r)' /\ WalkOK(r)'
  BY <1>3 DEF MintOK, WalkOK, At
<1> QED
  BY <1>4, <1>5, <1>6, <1>7 DEF IInv

LEMMA RevokeLockInv ==
  ASSUME IInv, NEW r \in Request, RevokeLock(r)
  PROVE  IInv'
<1> DEFINE k == req[r].key
<1>1. CASE Finish(r)
  BY <1>1, FinishStep DEF RevokeLock
<1>2. CASE ~ Finish(r)
  <2>1. /\ Unlocked(r, k) /\ k \in issued
        /\ lock' = [lock EXCEPT ![k] = r]
        /\ req' = [req EXCEPT ![r].phase = "cascade", ![r].seen = {k}, ![r].frontier = {k}]
        /\ UNCHANGED <<table, expired>>
    BY <1>2 DEF RevokeLock
  <2>2. k \in Key
    BY <2>1 DEF IInv, TypeOK
  <2> DEFINE l == [req[r] EXCEPT !.phase = "cascade", !.seen = {k}, !.frontier = {k}]
  <2>3. l \in Local /\ l.phase = "cascade" /\ l.seen = {k} /\ l.frontier = {k} /\ l.todo = {}
    <3>1. req[r] \in Local /\ "cascade" \in Phase
      BY DEF IInv, TypeOK, Phase
    <3>2. l \in Local
      BY <3>1, <2>2, LocalUpdates
    <3>3. req[r].todo = {}
      BY DEF RevokeLock, IInv, WalkOK
    <3> QED
      BY <3>1, <3>2, <3>3 DEF Local
  <2>4. /\ req' \in [Request -> Local]
        /\ req'[r] = l
        /\ \A q \in Request \ {r} : req'[q] = req[q]
    BY <2>1, <2>3 DEF IInv, TypeOK
  <2>5. /\ lock' \in [Key -> Request \cup {NoRequest}]
        /\ lock'[k] = r
        /\ \A q \in Request \ {r} : \A x \in Key : lock[x] = q => lock'[x] = q
    BY <2>1, <2>2, NullAssumption DEF Unlocked, IInv, TypeOK
  <2>6. MintOK(r)' /\ WalkOK(r)'
    BY <2>1, <2>3, <2>4, <2>5 DEF MintOK, WalkOK, At, table
  <2> QED
    BY <2>1, <2>4, <2>5, <2>6, LocalStep
<1> QED
  BY <1>1, <1>2

LEMMA CascadeSelectInv ==
  ASSUME IInv, NEW r \in Request, CascadeSelect(r)
  PROVE  IInv'
<1> DEFINE T == Children(req[r].frontier)
           l == [req[r] EXCEPT !.todo = T, !.frontier = {}]
<1>1. /\ At(r, "cascade") /\ req[r].todo = {}
      /\ req' = [req EXCEPT ![r].todo = T, ![r].frontier = {}]
      /\ UNCHANGED <<table, expired, lock>>
  BY DEF CascadeSelect
<1>2. /\ l \in Local /\ l.phase = "cascade" /\ l.seen = req[r].seen
      /\ l.frontier = {} /\ l.todo = T
  <2>1. req[r] \in Local /\ T \subseteq Key /\ "idle" \in Phase
    BY DEF IInv, TypeOK, Children, Phase
  <2>2. l \in Local
    BY <2>1, LocalUpdates
  <2> QED
    BY <1>1, <2>1, <2>2 DEF Local, At
<1>3. req' \in [Request -> Local] /\ req'[r] = l /\ \A q \in Request \ {r} : req'[q] = req[q]
  BY <1>1, <1>2 DEF IInv, TypeOK
<1>4. lock' \in [Key -> Request \cup {NoRequest}]
  BY <1>1 DEF IInv, TypeOK
<1>5. MintOK(r)' /\ WalkOK(r)'
  BY <1>1, <1>2, <1>3 DEF IInv, MintOK, WalkOK, At, Children, table
<1> QED
  BY <1>1, <1>3, <1>4, <1>5, LocalStep

LEMMA CascadeLockInv ==
  ASSUME IInv, NEW r \in Request, NEW c \in Key, CascadeLock(r, c)
  PROVE  IInv'
<1> DEFINE T == req[r].todo \ {c}
           S == req[r].seen \cup {c}
           F == req[r].frontier \cup ({c} \ req[r].seen)
           l == [req[r] EXCEPT !.todo = T, !.seen = S, !.frontier = F]
<1>1. /\ At(r, "cascade") /\ c \in req[r].todo /\ Unlocked(r, c)
      /\ lock' = [lock EXCEPT ![c] = r]
      /\ UNCHANGED <<table, expired>>
  BY DEF CascadeLock
<1>2. /\ l \in Local /\ l.phase = "cascade" /\ l.seen = S
      /\ l.frontier = F /\ l.todo = T
  <2>1. /\ req[r] \in Local /\ "idle" \in Phase
        /\ S \subseteq Key /\ T \subseteq Key /\ F \subseteq Key
    BY LocalFields DEF IInv, TypeOK, Phase
  <2>2. l \in Local
    BY <2>1, LocalUpdates
  <2> QED
    BY <1>1, <2>1, <2>2 DEF Local, At
<1>3. req' \in [Request -> Local] /\ req'[r] = l /\ \A q \in Request \ {r} : req'[q] = req[q]
  <2>1. req' = [req EXCEPT ![r] = l]
    BY DEF CascadeLock
  <2> QED
    BY <1>2, <2>1 DEF IInv, TypeOK
<1>4. /\ lock' \in [Key -> Request \cup {NoRequest}]
      /\ lock'[c] = r
      /\ \A x \in Key : lock[x] = r => lock'[x] = r
      /\ \A q \in Request \ {r} : \A x \in Key : lock[x] = q => lock'[x] = q
  BY <1>1, NullAssumption DEF Unlocked, IInv, TypeOK
<1>5. MintOK(r)'
  BY <1>2, <1>3 DEF MintOK, At
<1>6. WalkOK(r)'
  <2>1. WalkOK(r) /\ issued' = issued /\ parent' = parent /\ issued \subseteq Key
    BY <1>1 DEF IInv, TypeOK, table
  <2>2. S \subseteq issued /\ T \subseteq issued /\ F \subseteq S /\ \A x \in S : lock'[x] = r
    BY <1>1, <1>4, <2>1 DEF WalkOK
  <2>3. ASSUME NEW x \in issued, parent[x] \in S
        PROVE  x \in S \cup T \/ parent[x] \in F
    BY <1>1, <2>1, <2>3 DEF WalkOK
  <2> QED
    BY <1>2, <1>3, <2>1, <2>2, <2>3 DEF WalkOK, At
<1> QED
  BY <1>1, <1>3, <1>4, <1>5, <1>6, LocalStep

(* With nothing left to look for, the rows seen are closed under children.  *)
LEMMA RevokeCommitInv ==
  ASSUME IInv, NEW r \in Request, RevokeCommit(r)
  PROVE  IInv'
<1>1. /\ At(r, "cascade") /\ req[r].todo = {} /\ req[r].frontier = {}
      /\ revoked' = revoked \cup req[r].seen
      /\ Finish(r)
      /\ UNCHANGED <<issued, parent, scopes, created_by, expired>>
  BY DEF RevokeCommit
<1>2. /\ req[r].seen \subseteq issued
      /\ \A x \in req[r].seen : lock[x] = r
      /\ \A x \in issued : parent[x] \in req[r].seen => x \in req[r].seen
  BY <1>1 DEF IInv, WalkOK
<1>3. /\ req' \in [Request -> Local] /\ req'[r].phase = "idle"
      /\ lock' \in [Key -> Request \cup {NoRequest}]
      /\ \A q \in Request \ {r} : req'[q] = req[q]
      /\ \A q \in Request \ {r} : \A x \in Key : lock[x] = q => lock'[x] = q
  BY <1>1, FinishFrame DEF IInv
<1>4. TypeOK'
  BY <1>1, <1>2, <1>3 DEF IInv, TypeOK
<1>5. ASSUME NEW x \in issued' PROVE RowOK(x)'
  BY <1>1, <1>2 DEF IInv, RowOK
<1>6. ASSUME NEW q \in Request \ {r} PROVE MintOK(q)' /\ WalkOK(q)'
  <2>1. \A x \in revoked' \ revoked : lock[x] # q
    BY <1>1, <1>2
  <2> QED
    BY <1>1, <1>3, <2>1, OtherRequest DEF IInv
<1>7. MintOK(r)' /\ WalkOK(r)'
  BY <1>3 DEF MintOK, WalkOK, At
<1> QED
  BY <1>4, <1>5, <1>6, <1>7 DEF IInv

LEMMA InvStep == IInv /\ [Next]_vars => IInv'
<1> SUFFICES ASSUME IInv, [Next]_vars PROVE IInv'
  OBVIOUS
<1>1. ASSUME NEW k \in Key, NEW s \in RequestedScopes, CreateKey(k, s) PROVE IInv'
  BY <1>1, CreateKeyInv
<1>2. ASSUME NEW k \in Key, Expire(k) PROVE IInv'
  BY <1>2, ExpireInv
<1>3. ASSUME NEW r \in Request, Arrive(r) PROVE IInv'
  BY <1>3, ArriveInv
<1>4. ASSUME NEW r \in Request, MintStep(r) PROVE IInv'
  <2>1. CASE MintOutOfIds(r)
    BY <2>1, FinishStep DEF MintOutOfIds
  <2> QED
    BY <1>4, <2>1, MintLockInv, MintCheckInv, MintInsertInv DEF MintStep
<1>5. ASSUME NEW r \in Request, RevokeStep(r) PROVE IInv'
  BY <1>5, RevokeLockInv, CascadeSelectInv, CascadeLockInv, RevokeCommitInv DEF RevokeStep
<1>6. ASSUME NEW r \in Request, Abort(r) PROVE IInv'
  BY <1>6, FinishStep DEF Abort
<1>7. CASE UNCHANGED vars
  <2>1. TypeOK'
    BY <1>7 DEF IInv, TypeOK, vars
  <2>2. \A k \in issued' : RowOK(k)'
    BY <1>7 DEF IInv, RowOK, vars
  <2>3. \A q \in Request : MintOK(q)' /\ WalkOK(q)'
    BY <1>7 DEF IInv, MintOK, WalkOK, At, vars
  <2> QED
    BY <2>1, <2>2, <2>3 DEF IInv
<1> QED
  BY <1>1, <1>2, <1>3, <1>4, <1>5, <1>6, <1>7 DEF Next

LEMMA Invariance == Spec => []IInv
  BY InvInit, InvStep, PTL DEF Spec

-----------------------------------------------------------------------------
(* Every state of the api_key table and of the requests is well formed.     *)
THEOREM TypeCorrect == Spec => []TypeOK
<1>1. IInv => TypeOK
  BY DEF IInv
<1> QED
  BY <1>1, Invariance, PTL

(* Keys that are not revoked are closed under parents, so a revoked key is  *)
(* in no live key's lineage ...                                             *)
LEMMA NothingLiveBelow == IInv => RevocationReachesDescendants
<1> SUFFICES ASSUME IInv, NEW k \in issued, NEW a \in Lineage(k), a \in revoked, k \notin revoked
             PROVE  FALSE
  BY DEF RevocationReachesDescendants
<1> DEFINE S == issued \ revoked
<1>1. S \in SUBSET Key /\ k \in S
  BY DEF IInv, TypeOK
<1>2. \A x \in S : parent[x] \in S \cup {NoKey}
  BY DEF IInv, RowOK
<1>3. a \in S
  BY <1>1, <1>2 DEF Lineage
<1> QED
  BY <1>3

(* ... however mints and revokes interleave.                                *)
THEOREM RevocationIsComplete == Spec => []RevocationReachesDescendants
  BY NothingLiveBelow, Invariance, PTL

(* The keys that cover k's scopes are closed under parents: the subset      *)
(* check of each mint composes along the whole chain.                       *)
THEOREM ScopesNeverGrow == Spec => []LineageCoversScopes
<1>1. IInv => LineageCoversScopes
  <2> SUFFICES ASSUME IInv, NEW k \in issued, NEW a \in Lineage(k)
               PROVE  Covers(scopes[a], scopes[k])
    BY DEF LineageCoversScopes
  <2> DEFINE S == {x \in issued : Covers(scopes[x], scopes[k])}
  <2>1. S \in SUBSET Key /\ k \in S /\ \A x \in Key : scopes[x] \in SUBSET Scope
    BY CoversReflexive DEF IInv, TypeOK
  <2>2. ASSUME NEW x \in S PROVE parent[x] \in S \cup {NoKey}
    <3>1. CASE parent[x] # NoKey
      <4>1. parent[x] \in issued /\ Covers(scopes[parent[x]], scopes[x])
        BY <3>1 DEF IInv, RowOK
      <4>2. Covers(scopes[parent[x]], scopes[k])
        BY <2>1, <4>1, CoversTransitive DEF IInv, TypeOK
      <4> QED
        BY <4>1, <4>2
    <3> QED
      BY <3>1
  <2>3. a \in S
    BY <2>1, <2>2 DEF Lineage
  <2> QED
    BY <2>3
<1> QED
  BY <1>1, Invariance, PTL

-----------------------------------------------------------------------------
(* The cap: a mint about to insert has counted fewer live children than the *)
(* cap, and no other mint can add one while it holds the caller's row.      *)
CountOK(k) ==
  IsFiniteSet(Outstanding(k)) /\ Cardinality(Outstanding(k)) <= SELF_KEY_MAX_OUTSTANDING

RoomOK(r) ==
  At(r, "mint_insert") => Cardinality(Outstanding(req[r].key)) < SELF_KEY_MAX_OUTSTANDING

CountInv ==
  /\ \A k \in issued : CountOK(k)
  /\ \A r \in Request : RoomOK(r)

(* Fewer live children is still within the cap.                             *)
LEMMA FewerChildren ==
  ASSUME NEW S, NEW T, IsFiniteSet(S), T \subseteq S
  PROVE  /\ IsFiniteSet(T) /\ Cardinality(T) \in Nat /\ Cardinality(S) \in Nat
         /\ Cardinality(T) <= Cardinality(S)
  BY FS_Subset, FS_CardinalityType

LEMMA EmptyCount ==
  /\ IsFiniteSet({})
  /\ Cardinality({}) = 0
  /\ Cardinality({}) <= SELF_KEY_MAX_OUTSTANDING
  BY FS_EmptySet, CapAssumption

(* A step that gives no key a live child it did not have and starts no mint *)
(* insert keeps both counts.                                                *)
LEMMA CountFrame ==
  ASSUME IInv, IInv', CountInv,
         issued \subseteq issued',
         \A k \in issued : Outstanding(k)' \subseteq Outstanding(k),
         \A k \in issued' \ issued : Outstanding(k)' = {},
         \A r \in Request : At(r, "mint_insert")' => req'[r] = req[r]
  PROVE  CountInv'
<1>1. ASSUME NEW k \in issued' PROVE CountOK(k)'
  <2>1. CASE k \in issued
    <3>1. IsFiniteSet(Outstanding(k)) /\ Cardinality(Outstanding(k)) <= SELF_KEY_MAX_OUTSTANDING
      BY <2>1 DEF CountInv, CountOK
    <3>2. Outstanding(k)' \subseteq Outstanding(k)
      BY <2>1
    <3>3. /\ IsFiniteSet(Outstanding(k)')
          /\ Cardinality(Outstanding(k)') \in Nat /\ Cardinality(Outstanding(k)) \in Nat
          /\ Cardinality(Outstanding(k)') <= Cardinality(Outstanding(k))
      BY <3>1, <3>2, FewerChildren
    <3> QED
      BY <3>1, <3>3, CapAssumption DEF CountOK
  <2>2. CASE k \notin issued
    BY <2>2, EmptyCount DEF CountOK
  <2> QED
    BY <2>1, <2>2
<1>2. ASSUME NEW r \in Request PROVE RoomOK(r)'
  <2> SUFFICES ASSUME At(r, "mint_insert")'
               PROVE  (Cardinality(Outstanding(req[r].key)) < SELF_KEY_MAX_OUTSTANDING)'
    BY DEF RoomOK
  <2> DEFINE k == req[r].key
  <2>1. At(r, "mint_insert") /\ req'[r] = req[r] /\ k \in issued
    BY DEF At, IInv, MintOK
  <2>2. IsFiniteSet(Outstanding(k)) /\ Cardinality(Outstanding(k)) < SELF_KEY_MAX_OUTSTANDING
    BY <2>1 DEF CountInv, CountOK, RoomOK
  <2>3. Outstanding(k)' \subseteq Outstanding(k)
    BY <2>1
  <2>4. /\ Cardinality(Outstanding(k)') \in Nat /\ Cardinality(Outstanding(k)) \in Nat
        /\ Cardinality(Outstanding(k)') <= Cardinality(Outstanding(k))
    BY <2>2, <2>3, FewerChildren
  <2>5. Cardinality(Outstanding(k)') < SELF_KEY_MAX_OUTSTANDING
    BY <2>2, <2>4, CapAssumption
  <2> QED
    BY <2>1, <2>5 DEF Outstanding, Children
<1> QED
  BY <1>1, <1>2 DEF CountInv

LEMMA CountInit == Init => CountInv
<1> SUFFICES ASSUME Init PROVE CountInv
  OBVIOUS
<1>1. \A k \in issued : Outstanding(k) = {}
  BY NullAssumption, LegacyAssumption DEF Init, Outstanding, Children
<1>2. \A k \in issued : CountOK(k)
  BY <1>1, EmptyCount DEF CountOK
<1>3. \A r \in Request : RoomOK(r)
  BY DEF Init, RoomOK, At, Idle
<1> QED
  BY <1>2, <1>3 DEF CountInv

(* The end of a request that touched no row.                                *)
LEMMA CountFinish ==
  ASSUME IInv, IInv', CountInv, NEW r \in Request, Finish(r), UNCHANGED table
  PROVE  CountInv'
<1>1. \A k \in issued : Outstanding(k)' = Outstanding(k)
  BY DEF Outstanding, Children, table
<1>2. \A q \in Request : At(q, "mint_insert")' => req'[q] = req[q]
  BY FinishFrame DEF IInv, At
<1> QED
  BY <1>1, <1>2, CountFrame DEF table

(* Any other step of a request that touches no row and is not an insert.    *)
LEMMA CountLocal ==
  ASSUME IInv, IInv', CountInv, NEW r \in Request, NEW l, l.phase # "mint_insert",
         req' = [req EXCEPT ![r] = l], UNCHANGED table
  PROVE  CountInv'
<1>1. \A k \in issued : Outstanding(k)' = Outstanding(k)
  BY DEF Outstanding, Children, table
<1>2. \A q \in Request : At(q, "mint_insert")' => req'[q] = req[q]
  BY DEF IInv, TypeOK, At
<1> QED
  BY <1>1, <1>2, CountFrame DEF table

LEMMA CountMintCheck ==
  ASSUME IInv, IInv', CountInv, NEW r \in Request, MintCheck(r)
  PROVE  CountInv'
<1>1. CASE Finish(r)
  BY <1>1, CountFinish DEF MintCheck
<1>2. CASE ~ Finish(r)
  <2>1. MintAllowed(r) /\ req' = [req EXCEPT ![r].phase = "mint_insert"] /\ UNCHANGED <<table, lock>>
    BY <1>2 DEF MintCheck
  <2>2. \A k : Outstanding(k)' = Outstanding(k)
    BY <2>1 DEF Outstanding, Children, table
  <2>3. ASSUME NEW k \in issued' PROVE CountOK(k)'
    BY <2>1, <2>2 DEF CountInv, CountOK, Outstanding, Children, table
  <2>4. ASSUME NEW q \in Request PROVE RoomOK(q)'
    <3>1. req'[q].key = req[q].key
      BY <2>1 DEF IInv, TypeOK, Local
    <3>2. CASE q = r
      BY <2>1, <3>1, <3>2 DEF MintAllowed, RoomOK, Outstanding, Children, table
    <3>3. CASE q # r
      <4>1. req'[q] = req[q]
        BY <2>1, <3>3 DEF IInv, TypeOK
      <4> QED
        BY <2>1, <4>1 DEF CountInv, RoomOK, At, Outstanding, Children, table
    <3> QED
      BY <3>2, <3>3
  <2> QED
    BY <2>3, <2>4 DEF CountInv
<1> QED
  BY <1>1, <1>2

LEMMA CountMintInsert ==
  ASSUME IInv, IInv', CountInv, NEW r \in Request, NEW c \in Key, MintInsert(r, c),
         NEW k, k = req[r].key
  PROVE  CountInv'
<1>1. /\ At(r, "mint_insert") /\ c \notin issued /\ issued' = issued \cup {c}
      /\ parent' = [parent EXCEPT ![c] = k]
      /\ revoked' = revoked /\ Finish(r)
  BY DEF MintInsert
<1>2. k \in issued /\ lock[k] = r
  BY <1>1 DEF IInv, MintOK
<1>3. Outstanding(k)' = Outstanding(k) \cup {c} /\ c \notin Outstanding(k)
  BY <1>1, <1>2 DEF IInv, TypeOK, Outstanding, Children
<1>4. \A x \in issued \ {k} : Outstanding(x)' = Outstanding(x)
  BY <1>1, <1>2 DEF IInv, TypeOK, Outstanding, Children
<1>5. Outstanding(c)' = {}
  <2>1. ASSUME NEW x \in issued', parent'[x] = c PROVE FALSE
    <3>1. CASE x = c
      BY <1>1, <1>2, <2>1, <3>1 DEF IInv, TypeOK
    <3>2. CASE x \in issued
      BY <1>1, <2>1, <3>2, NullAssumption DEF IInv, TypeOK, RowOK
    <3> QED
      BY <1>1, <3>1, <3>2
  <2> QED
    BY <2>1 DEF Outstanding, Children
<1>6. CountOK(k)'
  <2>1. IsFiniteSet(Outstanding(k)) /\ Cardinality(Outstanding(k)) < SELF_KEY_MAX_OUTSTANDING
    BY <1>1, <1>2 DEF CountInv, CountOK, RoomOK
  <2>2. /\ IsFiniteSet(Outstanding(k) \cup {c})
        /\ Cardinality(Outstanding(k) \cup {c}) = Cardinality(Outstanding(k)) + 1
        /\ Cardinality(Outstanding(k)) \in Nat
    BY <1>3, <2>1, FS_AddElement, FS_CardinalityType
  <2>3. IsFiniteSet(Outstanding(k)') /\ Cardinality(Outstanding(k)') <= SELF_KEY_MAX_OUTSTANDING
    BY <1>3, <2>1, <2>2, CapAssumption
  <2> QED
    BY <1>1, <2>3 DEF CountOK, Outstanding, Children
<1>7. ASSUME NEW x \in issued' PROVE CountOK(x)'
  <2>1. CASE x = k
    BY <1>6, <1>3, <2>1 DEF CountOK, Outstanding, Children
  <2>2. CASE x = c
    BY <1>5, <2>2, EmptyCount DEF CountOK
  <2>3. CASE x \in issued \ {k}
    BY <1>4, <2>3 DEF CountInv, CountOK
  <2> QED
    BY <1>1, <2>1, <2>2, <2>3
<1>8. ASSUME NEW q \in Request PROVE RoomOK(q)'
  <2> SUFFICES ASSUME At(q, "mint_insert")'
               PROVE  (Cardinality(Outstanding(req[q].key)) < SELF_KEY_MAX_OUTSTANDING)'
    BY DEF RoomOK
  <2>1. q # r /\ req'[q] = req[q]
    BY <1>1, FinishFrame DEF IInv, At
  <2>2. req[q].key \in issued /\ req[q].key # k
    BY <1>2, <2>1 DEF IInv, MintOK, At
  <2>3. Cardinality(Outstanding(req[q].key)) < SELF_KEY_MAX_OUTSTANDING
    BY <2>1 DEF CountInv, RoomOK, At
  <2> DEFINE x == req[q].key
  <2>4. {y \in issued' : parent'[y] \in {x}} \ revoked' = {y \in issued : parent[y] \in {x}} \ revoked
    BY <1>4, <2>2 DEF Outstanding, Children
  <2> QED
    BY <2>1, <2>3, <2>4 DEF Outstanding, Children
<1> QED
  BY <1>7, <1>8 DEF CountInv

LEMMA CountStep == IInv /\ IInv' /\ CountInv /\ [Next]_vars => CountInv'
<1> SUFFICES ASSUME IInv, IInv', CountInv, [Next]_vars PROVE CountInv'
  OBVIOUS
<1>1. ASSUME NEW k \in Key, NEW s \in RequestedScopes, CreateKey(k, s) PROVE CountInv'
  <2>1. \A x \in issued : Outstanding(x)' = Outstanding(x)
    BY <1>1, NullAssumption DEF CreateKey, IInv, TypeOK, Outstanding, Children
  <2>2. \A x \in issued' \ issued : Outstanding(x)' = {}
    BY <1>1, NullAssumption DEF CreateKey, IInv, TypeOK, RowOK, Outstanding, Children
  <2> QED
    BY <1>1, <2>1, <2>2, CountFrame DEF CreateKey
<1>2. ASSUME NEW k \in Key, Expire(k) PROVE CountInv'
  <2>1. \A x \in issued : Outstanding(x)' = Outstanding(x)
    BY <1>2 DEF Expire, Outstanding, Children, table
  <2> QED
    BY <1>2, <2>1, CountFrame DEF Expire, table
<1>3. ASSUME NEW r \in Request, Arrive(r) PROVE CountInv'
  <2>1. PICK l : l.phase # "mint_insert" /\ req' = [req EXCEPT ![r] = l] /\ UNCHANGED table
    BY <1>3 DEF Arrive, MintAuthenticate, RevokeByAdmin, RevokeForOwner, Idle
  <2> QED
    BY <2>1, CountLocal
<1>4. ASSUME NEW r \in Request, MintStep(r) PROVE CountInv'
  <2>1. CASE MintLock(r)
    <3>1. CASE ~ Finish(r)
      <4> DEFINE l == [req[r] EXCEPT !.phase = "mint_check"]
      <4>1. req[r] \in Local
        BY DEF IInv, TypeOK
      <4>2. req' = [req EXCEPT ![r] = l] /\ l.phase # "mint_insert" /\ UNCHANGED table
        BY <2>1, <3>1, <4>1 DEF MintLock, Local
      <4> QED
        BY <4>2, CountLocal
    <3> QED
      BY <2>1, <3>1, CountFinish DEF MintLock
  <2>2. CASE MintOutOfIds(r)
    BY <2>2, CountFinish DEF MintOutOfIds
  <2> QED
    BY <1>4, <2>1, <2>2, CountMintCheck, CountMintInsert DEF MintStep
<1>5. ASSUME NEW r \in Request, RevokeStep(r) PROVE CountInv'
  <2>0. req[r] \in Local
    BY DEF IInv, TypeOK
  <2>1. CASE RevokeLock(r)
    <3>1. CASE ~ Finish(r)
      <4> DEFINE l == [req[r] EXCEPT !.phase = "cascade", !.seen = {req[r].key}, !.frontier = {req[r].key}]
      <4>1. req' = [req EXCEPT ![r] = l] /\ l.phase # "mint_insert" /\ UNCHANGED table
        BY <2>0, <2>1, <3>1 DEF RevokeLock, Local
      <4> QED
        BY <4>1, CountLocal
    <3> QED
      BY <2>1, <3>1, CountFinish DEF RevokeLock
  <2>2. CASE CascadeSelect(r)
    <3> DEFINE l == [req[r] EXCEPT !.todo = Children(req[r].frontier), !.frontier = {}]
    <3>1. req' = [req EXCEPT ![r] = l] /\ l.phase # "mint_insert" /\ UNCHANGED table
      BY <2>0, <2>2 DEF CascadeSelect, Local, At
    <3> QED
      BY <3>1, CountLocal
  <2>3. ASSUME NEW c \in Key, CascadeLock(r, c) PROVE CountInv'
    <3> DEFINE l == [req[r] EXCEPT !.todo = req[r].todo \ {c}, !.seen = req[r].seen \cup {c},
                                   !.frontier = req[r].frontier \cup ({c} \ req[r].seen)]
    <3>1. req' = [req EXCEPT ![r] = l] /\ l.phase # "mint_insert" /\ UNCHANGED table
      BY <2>0, <2>3 DEF CascadeLock, Local, At
    <3> QED
      BY <3>1, CountLocal
  <2>4. CASE RevokeCommit(r)
    <3>1. \A k \in issued : Outstanding(k)' \subseteq Outstanding(k)
      BY <2>4 DEF RevokeCommit, Outstanding, Children
    <3>2. \A q \in Request : At(q, "mint_insert")' => req'[q] = req[q]
      BY <2>4, FinishFrame DEF RevokeCommit, IInv, At
    <3> QED
      BY <2>4, <3>1, <3>2, CountFrame DEF RevokeCommit
  <2> QED
    BY <1>5, <2>1, <2>2, <2>3, <2>4 DEF RevokeStep
<1>6. ASSUME NEW r \in Request, Abort(r) PROVE CountInv'
  BY <1>6, CountFinish DEF Abort
<1>7. CASE UNCHANGED vars
  <2>1. \A x \in issued : Outstanding(x)' = Outstanding(x)
    BY <1>7 DEF vars, Outstanding, Children
  <2> QED
    BY <1>7, <2>1, CountFrame DEF vars
<1> QED
  BY <1>1, <1>2, <1>3, <1>4, <1>5, <1>6, <1>7 DEF Next

(* However many mints of one caller run at once, its live children never    *)
(* exceed the cap.                                                          *)
THEOREM OutstandingIsCapped == Spec => []OutstandingCap
<1>1. CountInv => OutstandingCap
  BY DEF CountInv, CountOK, OutstandingCap
<1> QED
  BY <1>1, CountInit, CountStep, Invariance, PTL DEF Spec

-----------------------------------------------------------------------------
(* No circle of waits.  Who waits and holds locks is a cascade; it waits    *)
(* for a child of a row it holds, and the holder of that child, which does  *)
(* not hold the parent, must be a cascade that started there: the targets   *)
(* of the cascades that wait on one another lie deeper and deeper.          *)

(* Every set of keys has one from which no other of the set descends.       *)
Deepest ==
  \A S \in SUBSET issued : S # {} =>
    \E m \in S : \A x \in S \ {m} : m \notin Lineage(x)

(* A lock is held by a mint past its lock or by a cascade that saw the row. *)
HoldOK(r) ==
  \A k \in Key : lock[k] = r =>
    \/ At(r, "mint_check") \/ At(r, "mint_insert")
    \/ At(r, "cascade") /\ k \in req[r].seen

(* A revoke has a target; its cascade walks the tree below it, and waits    *)
(* for children only.                                                       *)
TreeOK(r) ==
  /\ At(r, "revoke_lock") => req[r].key \in Key
  /\ At(r, "cascade") =>
       /\ req[r].key \in req[r].seen
       /\ \A k \in req[r].seen :
            /\ k = req[r].key \/ parent[k] \in req[r].seen
            /\ req[r].key \in Lineage(k)
       /\ \A c \in req[r].todo : parent[c] \in req[r].seen

WaitInv == Deepest /\ \A r \in Request : HoldOK(r) /\ TreeOK(r)

(* What a key descends from, its child descends from.                       *)
LEMMA ChildDescends ==
  ASSUME NEW c \in Key, parent[c] \in Key, NEW a \in Lineage(parent[c])
  PROVE  a \in Lineage(c)
<1>1. parent[c] # NoKey
  BY NullAssumption
<1> QED  BY <1>1 DEF Lineage

(* The table only grows below: the lineage of a row stays what it is.       *)
LEMMA LineageStays ==
  ASSUME IInv, issued \subseteq issued', issued' \subseteq Key,
         \A k \in issued : parent'[k] = parent[k],
         NEW k \in issued, NEW a \in Key
  PROVE  a \in Lineage(k)' <=> a \in Lineage(k)
<1>1. issued \subseteq Key /\ \A x \in issued : parent[x] \in issued \cup {NoKey}
  BY DEF IInv, TypeOK, RowOK
<1>2. ASSUME a \in Lineage(k), NEW S \in SUBSET Key, k \in S,
             \A x \in S : parent'[x] \in S \cup {NoKey}
      PROVE  a \in S
  <2> DEFINE T == S \cap issued
  <2>1. T \in SUBSET Key /\ k \in T /\ \A x \in T : parent[x] \in T \cup {NoKey}
    BY <1>1, <1>2
  <2> QED  BY <1>2, <2>1 DEF Lineage
<1>3. ASSUME a \in Lineage(k)', NEW S \in SUBSET Key, k \in S,
             \A x \in S : parent[x] \in S \cup {NoKey}
      PROVE  a \in S
  <2> DEFINE T == S \cap issued
  <2>1. T \in SUBSET Key /\ k \in T /\ \A x \in T : parent'[x] \in T \cup {NoKey}
    BY <1>1, <1>3
  <2> QED  BY <1>3, <2>1 DEF Lineage
<1>4. a \in Lineage(k) => a \in Lineage(k)'
  BY <1>2 DEF Lineage
<1>5. a \in Lineage(k)' => a \in Lineage(k)
  BY <1>3 DEF Lineage
<1> QED  BY <1>4, <1>5

(* A new row is the deepest of any set it is in.                            *)
LEMMA DeepestStays ==
  ASSUME IInv, Deepest, issued \subseteq issued', issued' \subseteq Key,
         \A k \in issued : parent'[k] = parent[k],
         \A c, d \in issued' \ issued : c = d
  PROVE  Deepest'
<1>1. issued \subseteq Key /\ \A x \in issued : parent[x] \in issued \cup {NoKey}
  BY DEF IInv, TypeOK, RowOK
<1> SUFFICES ASSUME NEW S \in SUBSET issued', S # {}
             PROVE  \E m \in S : \A x \in S \ {m} : m \notin Lineage(x)'
  BY DEF Deepest
<1>2. CASE S \subseteq issued
  <2>1. PICK m \in S : \A x \in S \ {m} : m \notin Lineage(x)
    BY <1>2 DEF Deepest
  <2>2. ASSUME NEW x \in S \ {m} PROVE m \notin Lineage(x)'
    <3>1. x \in issued /\ m \in Key
      BY <1>1, <1>2, <2>1, <2>2
    <3> QED  BY <2>1, <2>2, <3>1, LineageStays
  <2> QED  BY <2>1, <2>2
<1>3. CASE ~ (S \subseteq issued)
  <2>1. PICK m \in S : m \notin issued
    BY <1>3
  <2>2. ASSUME NEW x \in S \ {m} PROVE m \notin Lineage(x)'
    <3>1. x \in issued
      BY <2>1, <2>2
    <3>2. issued \in SUBSET Key /\ \A y \in issued : parent'[y] \in issued \cup {NoKey}
      BY <1>1
    <3> QED  BY <2>1, <3>1, <3>2 DEF Lineage
  <2> QED  BY <2>1, <2>2
<1> QED  BY <1>2, <1>3

(* What the steps of the others leave of a request.                         *)
LEMMA OtherWaits ==
  ASSUME IInv, NEW q \in Request, HoldOK(q), TreeOK(q), req'[q] = req[q],
         \A k \in Key : lock'[k] = q => lock[k] = q,
         issued \subseteq issued', issued' \subseteq Key,
         \A k \in issued : parent'[k] = parent[k]
  PROVE  HoldOK(q)' /\ TreeOK(q)'
<1>1. HoldOK(q)'
  BY DEF HoldOK, At
<1>2. ASSUME At(q, "cascade")
      PROVE  /\ req[q].key \in req[q].seen
             /\ \A k \in req[q].seen :
                  /\ k = req[q].key \/ parent'[k] \in req[q].seen
                  /\ req[q].key \in Lineage(k)'
             /\ \A c \in req[q].todo : parent'[c] \in req[q].seen
  <2>1. /\ req[q].seen \subseteq issued /\ req[q].todo \subseteq issued
        /\ issued \subseteq Key
    BY <1>2 DEF IInv, WalkOK, TypeOK
  <2>2. /\ req[q].key \in req[q].seen
        /\ \A k \in req[q].seen :
             /\ k = req[q].key \/ parent[k] \in req[q].seen
             /\ req[q].key \in Lineage(k)
        /\ \A c \in req[q].todo : parent[c] \in req[q].seen
    BY <1>2 DEF TreeOK
  <2>3. ASSUME NEW k \in req[q].seen PROVE req[q].key \in Lineage(k)'
    <3>1. PICK a \in Key : a = req[q].key
      BY <2>1, <2>2
    <3>2. k \in issued /\ a \in Lineage(k)
      BY <2>1, <2>2, <3>1
    <3>3. a \in Lineage(k)'
      BY <3>2, LineageStays
    <3> QED  BY <3>1, <3>3
  <2> QED  BY <2>1, <2>2, <2>3
<1>3. TreeOK(q)'
  <2> SUFFICES ASSUME At(q, "cascade")'
               PROVE  (/\ req[q].key \in req[q].seen
                       /\ \A k \in req[q].seen :
                            /\ k = req[q].key \/ parent[k] \in req[q].seen
                            /\ req[q].key \in Lineage(k)
                       /\ \A c \in req[q].todo : parent[c] \in req[q].seen)'
    BY DEF TreeOK, At
  <2>1. At(q, "cascade")
    BY DEF At
  <2> QED  BY <1>2, <2>1
<1> QED  BY <1>1, <1>3

(* A request that holds no lock and has not begun to walk.                  *)
LEMMA IdleWaits ==
  ASSUME NEW r \in Request, req'[r].phase \in {"idle", "mint_lock", "revoke_lock"},
         req'[r].phase = "revoke_lock" => req'[r].key \in Key,
         \A k \in Key : lock'[k] # r
  PROVE  HoldOK(r)' /\ TreeOK(r)'
BY DEF HoldOK, TreeOK, At

(* The locks of a request that ends.                                        *)
LEMMA FinishUnlocks ==
  ASSUME TypeOK, NEW r \in Request, Finish(r)
  PROVE  /\ req'[r].phase = "idle"
         /\ \A k \in Key : lock'[k] # r
         /\ \A q \in Request \ {r} : req'[q] = req[q] /\ \A k \in Key : lock'[k] = q => lock[k] = q
  BY NullAssumption DEF Finish, TypeOK, Idle

(* A step of r that creates at most one row.                                *)
LEMMA WaitStep ==
  ASSUME IInv, WaitInv, NEW r \in Request,
         \A q \in Request \ {r} : req'[q] = req[q] /\ \A k \in Key : lock'[k] = q => lock[k] = q,
         issued \subseteq issued', issued' \subseteq Key,
         \A k \in issued : parent'[k] = parent[k],
         \A c, d \in issued' \ issued : c = d,
         HoldOK(r)', TreeOK(r)'
  PROVE  WaitInv'
<1>1. Deepest'
  BY DeepestStays DEF WaitInv
<1>2. ASSUME NEW q \in Request \ {r} PROVE HoldOK(q)' /\ TreeOK(q)'
  BY OtherWaits DEF WaitInv
<1> QED  BY <1>1, <1>2 DEF WaitInv

LEMMA FinishWaits ==
  ASSUME IInv, WaitInv, NEW r \in Request, Finish(r), UNCHANGED <<issued, parent>>
  PROVE  WaitInv'
<1>1. HoldOK(r)' /\ TreeOK(r)'
  BY FinishUnlocks, IdleWaits DEF IInv
<1> QED  BY <1>1, FinishUnlocks, WaitStep DEF IInv, TypeOK

LEMMA WaitStepOfRequest ==
  ASSUME IInv, WaitInv, NEW r \in Request, MintStep(r) \/ RevokeStep(r)
  PROVE  WaitInv'
<1>0. req[r] \in Local /\ issued \subseteq Key /\ lock \in [Key -> Request \cup {NoRequest}]
  BY DEF IInv, TypeOK
<1>1. CASE MintLock(r)
  <2>1. CASE Finish(r)
    BY <1>1, <2>1, FinishWaits DEF MintLock, table
  <2>2. CASE ~ Finish(r)
    <3>1. /\ lock' = [lock EXCEPT ![req[r].key] = r]
          /\ req' = [req EXCEPT ![r].phase = "mint_check"]
          /\ UNCHANGED <<issued, parent>>
      BY <1>1, <2>2 DEF MintLock, table
    <3>2. req'[r].phase = "mint_check" /\ \A q \in Request \ {r} : req'[q] = req[q]
      BY <1>0, <3>1 DEF IInv, TypeOK, Local
    <3>3. HoldOK(r)' /\ TreeOK(r)'
      BY <3>2 DEF HoldOK, TreeOK, At
    <3>4. \A q \in Request \ {r} : \A k \in Key : lock'[k] = q => lock[k] = q
      BY <1>0, <3>1
    <3> QED  BY <1>0, <3>1, <3>2, <3>3, <3>4, WaitStep
  <2> QED  BY <2>1, <2>2
<1>2. CASE MintCheck(r)
  <2>1. CASE Finish(r)
    BY <1>2, <2>1, FinishWaits DEF MintCheck, table
  <2>2. CASE ~ Finish(r)
    <3>1. /\ req' = [req EXCEPT ![r].phase = "mint_insert"]
          /\ UNCHANGED <<issued, parent, lock>>
      BY <1>2, <2>2 DEF MintCheck, table
    <3>2. req'[r].phase = "mint_insert" /\ \A q \in Request \ {r} : req'[q] = req[q]
      BY <1>0, <3>1 DEF IInv, TypeOK, Local
    <3>3. HoldOK(r)' /\ TreeOK(r)'
      BY <3>2 DEF HoldOK, TreeOK, At
    <3> QED  BY <1>0, <3>1, <3>2, <3>3, WaitStep
  <2> QED  BY <2>1, <2>2
<1>3. ASSUME NEW c \in Key, MintInsert(r, c) PROVE WaitInv'
  <2>1. /\ Finish(r) /\ c \notin issued /\ issued' = issued \cup {c}
        /\ parent' = [parent EXCEPT ![c] = req[r].key]
    BY <1>3 DEF MintInsert
  <2>2. HoldOK(r)' /\ TreeOK(r)'
    BY <2>1, FinishUnlocks, IdleWaits DEF IInv
  <2>3. \A k \in issued : parent'[k] = parent[k]
    BY <2>1 DEF IInv, TypeOK
  <2> QED  BY <1>0, <2>1, <2>2, <2>3, FinishUnlocks, WaitStep DEF IInv
<1>4. CASE MintOutOfIds(r)
  BY <1>4, FinishWaits DEF MintOutOfIds, table
<1>5. CASE RevokeLock(r)
  <2>1. CASE Finish(r)
    BY <1>5, <2>1, FinishWaits DEF RevokeLock, table
  <2>2. CASE ~ Finish(r)
    <3> DEFINE target == req[r].key
    <3>1. /\ At(r, "revoke_lock") /\ target \in issued
          /\ lock' = [lock EXCEPT ![target] = r]
          /\ req' = [req EXCEPT ![r].phase = "cascade", ![r].seen = {target}, ![r].frontier = {target}]
          /\ UNCHANGED <<issued, parent>>
      BY <1>5, <2>2 DEF RevokeLock, table
    <3>2. /\ req'[r].phase = "cascade" /\ req'[r].key = target
          /\ req'[r].seen = {target} /\ req'[r].todo = req[r].todo
          /\ \A q \in Request \ {r} : req'[q] = req[q]
      BY <1>0, <3>1 DEF IInv, TypeOK, Local
    <3>3. \A q \in Request \ {r} : \A k \in Key : lock'[k] = q => lock[k] = q
      BY <1>0, <3>1
    <3>4. HoldOK(r)'
      <4>1. \A k \in Key : lock[k] # r
        BY <3>1 DEF WaitInv, HoldOK, At
      <4> QED  BY <1>0, <3>1, <3>2, <4>1 DEF HoldOK, At
    <3>5. TreeOK(r)'
      <4>1. req[r].todo = {}
        BY <3>1 DEF IInv, WalkOK
      <4>2. PICK a \in Key : a = target
        BY <1>0, <3>1
      <4>3. a \in Lineage(a)'
        BY DEF Lineage
      <4>4. req'[r].key = a /\ req'[r].seen = {a} /\ req'[r].todo = {}
        BY <3>2, <4>1, <4>2
      <4> QED  BY <4>3, <4>4 DEF TreeOK
    <3> QED  BY <1>0, <3>1, <3>2, <3>3, <3>4, <3>5, WaitStep
  <2> QED  BY <2>1, <2>2
<1>6. CASE CascadeSelect(r)
  <2>1. /\ At(r, "cascade")
        /\ req' = [req EXCEPT ![r].todo = Children(req[r].frontier), ![r].frontier = {}]
        /\ UNCHANGED <<issued, parent, lock>>
    BY <1>6 DEF CascadeSelect, table
  <2>2. /\ req'[r].phase = "cascade" /\ req'[r].key = req[r].key
        /\ req'[r].seen = req[r].seen /\ req'[r].todo = Children(req[r].frontier)
        /\ \A q \in Request \ {r} : req'[q] = req[q]
    BY <1>0, <2>1 DEF IInv, TypeOK, Local, At
  <2>3. HoldOK(r)'
    BY <2>1, <2>2 DEF WaitInv, HoldOK, At
  <2>4. \A k \in Key : Lineage(k)' = Lineage(k)
    BY <2>1 DEF Lineage
  <2>5. req[r].frontier \subseteq req[r].seen /\ req[r].seen \subseteq Key
    BY <1>0, <2>1 DEF IInv, WalkOK, Local
  <2>6. TreeOK(r)'
    <3>1. /\ req[r].key \in req[r].seen
          /\ \A k \in req[r].seen :
               /\ k = req[r].key \/ parent[k] \in req[r].seen
               /\ req[r].key \in Lineage(k)
      BY <2>1 DEF WaitInv, TreeOK
    <3>2. \A c \in Children(req[r].frontier) : parent[c] \in req[r].seen
      BY <2>5 DEF Children
    <3>3. \A k \in req[r].seen : req[r].key \in Lineage(k)'
      BY <2>4, <2>5, <3>1
    <3> QED  BY <2>1, <2>2, <3>1, <3>2, <3>3 DEF TreeOK, At
  <2> QED  BY <1>0, <2>1, <2>2, <2>3, <2>6, WaitStep
<1>7. ASSUME NEW c \in Key, CascadeLock(r, c) PROVE WaitInv'
  <2>1. /\ At(r, "cascade") /\ c \in req[r].todo
        /\ lock' = [lock EXCEPT ![c] = r] /\ Unlocked(r, c)
        /\ req' = [req EXCEPT ![r].todo = @ \ {c}, ![r].seen = @ \cup {c},
                              ![r].frontier = @ \cup ({c} \ req[r].seen)]
        /\ UNCHANGED <<issued, parent>>
    BY <1>7 DEF CascadeLock, table
  <2>2. /\ req'[r].phase = "cascade" /\ req'[r].key = req[r].key
        /\ req'[r].seen = req[r].seen \cup {c} /\ req'[r].todo = req[r].todo \ {c}
        /\ \A q \in Request \ {r} : req'[q] = req[q]
    BY <1>0, <2>1 DEF IInv, TypeOK, Local, At
  <2>3. HoldOK(r)'
    BY <1>0, <2>1, <2>2 DEF WaitInv, HoldOK, At
  <2>4. \A k \in Key : Lineage(k)' = Lineage(k)
    BY <2>1 DEF Lineage
  <2>5. req[r].seen \subseteq Key
    BY <1>0 DEF Local
  <2>6. /\ req[r].key \in req[r].seen
        /\ \A k \in req[r].seen :
             /\ k = req[r].key \/ parent[k] \in req[r].seen
             /\ req[r].key \in Lineage(k)
        /\ \A d \in req[r].todo : parent[d] \in req[r].seen
    BY <2>1 DEF WaitInv, TreeOK
  <2>7. req[r].key \in Lineage(c)
    BY <2>1, <2>5, <2>6, ChildDescends
  <2>8. TreeOK(r)'
    <3>1. \A k \in req[r].seen \cup {c} : req[r].key \in Lineage(k)'
      BY <2>4, <2>5, <2>6, <2>7
    <3>2. \A k \in req[r].seen \cup {c} :
            k = req[r].key \/ parent[k] \in req[r].seen \cup {c}
      BY <2>1, <2>6
    <3> QED  BY <2>1, <2>2, <2>6, <3>1, <3>2 DEF TreeOK, At
  <2>9. \A q \in Request \ {r} : \A k \in Key : lock'[k] = q => lock[k] = q
    BY <1>0, <2>1
  <2> QED  BY <1>0, <2>1, <2>2, <2>3, <2>8, <2>9, WaitStep
<1>8. CASE RevokeCommit(r)
  BY <1>8, FinishWaits DEF RevokeCommit
<1> QED  BY <1>1, <1>2, <1>3, <1>4, <1>5, <1>6, <1>7, <1>8 DEF MintStep, RevokeStep

LEMMA WaitInvHolds == Spec => []WaitInv
<1>1. Init => WaitInv
  <2> SUFFICES ASSUME Init PROVE WaitInv
    OBVIOUS
  <2>1. \A r \in Request : HoldOK(r) /\ TreeOK(r)
    BY NullAssumption DEF Init, HoldOK, TreeOK, At, Idle
  <2>2. Deepest
    <3> SUFFICES ASSUME NEW S \in SUBSET issued, S # {}
                 PROVE  \E m \in S : \A x \in S \ {m} : m \notin Lineage(x)
      BY DEF Deepest
    <3>1. PICK m \in S : TRUE
      OBVIOUS
    <3>2. ASSUME NEW x \in S \ {m} PROVE m \notin Lineage(x)
      <4>1. {x} \in SUBSET Key /\ parent[x] = NoKey
        BY LegacyAssumption DEF Init
      <4> QED  BY <4>1 DEF Lineage
    <3> QED  BY <3>1, <3>2
  <2> QED  BY <2>1, <2>2 DEF WaitInv
<1>2. IInv /\ WaitInv /\ [Next]_vars => WaitInv'
  <2> SUFFICES ASSUME IInv, WaitInv, [Next]_vars PROVE WaitInv'
    OBVIOUS
  <2>0. issued \subseteq Key
    BY DEF IInv, TypeOK
  <2>1. ASSUME issued \subseteq issued', issued' \subseteq Key, UNCHANGED <<lock, req>>,
               \A x \in issued : parent'[x] = parent[x],
               \A c, d \in issued' \ issued : c = d
        PROVE  WaitInv'
    <3>1. Deepest'
      BY <2>1, DeepestStays DEF WaitInv
    <3>2. ASSUME NEW q \in Request PROVE HoldOK(q)' /\ TreeOK(q)'
      BY <2>1, OtherWaits DEF WaitInv
    <3> QED  BY <3>1, <3>2 DEF WaitInv
  <2>2. ASSUME NEW k \in Key, NEW s \in RequestedScopes, CreateKey(k, s) PROVE WaitInv'
    <3>1. \A x \in issued : parent'[x] = parent[x]
      BY <2>2 DEF CreateKey, IInv, TypeOK
    <3> QED  BY <2>0, <2>1, <2>2, <3>1 DEF CreateKey
  <2>3. ASSUME NEW k \in Key, Expire(k) PROVE WaitInv'
    BY <2>0, <2>1, <2>3 DEF Expire, table
  <2>4. ASSUME NEW r \in Request, Arrive(r) PROVE WaitInv'
    <3>1. PICK l \in {x \in Local : x.phase \in {"mint_lock", "revoke_lock"} /\ x.key \in Key} :
            /\ At(r, "idle")
            /\ req' = [req EXCEPT ![r] = l] /\ UNCHANGED <<table, lock>>
      <4>1. CASE \E k \in Key, o \in Owner \cup {OtherLabel}, s \in RequestedScopes :
                   MintAuthenticate(r, k, o, s)
        <5>1. PICK k \in Key, o \in Owner \cup {OtherLabel}, s \in RequestedScopes :
                MintAuthenticate(r, k, o, s)
          BY <4>1
        <5> DEFINE l == [Idle EXCEPT !.phase = "mint_lock", !.key = k, !.owner = o, !.wanted = s]
        <5>2. l \in Local /\ l.phase = "mint_lock" /\ l.key = k
          BY ScopesAssumption DEF Idle, Local, Phase
        <5>3. At(r, "idle") /\ req' = [req EXCEPT ![r] = l] /\ UNCHANGED <<table, lock>>
          BY <5>1 DEF MintAuthenticate
        <5> HIDE DEF l
        <5> QED  BY <5>2, <5>3
      <4>2. CASE \E k \in Key : RevokeByAdmin(r, k)
        <5>1. PICK k \in Key : RevokeByAdmin(r, k)
          BY <4>2
        <5> DEFINE l == [Idle EXCEPT !.phase = "revoke_lock", !.key = k]
        <5>2. l \in Local /\ l.phase = "revoke_lock" /\ l.key = k
          BY DEF Idle, Local, Phase
        <5>3. At(r, "idle") /\ req' = [req EXCEPT ![r] = l] /\ UNCHANGED <<table, lock>>
          BY <5>1 DEF RevokeByAdmin
        <5> HIDE DEF l
        <5> QED  BY <5>2, <5>3
      <4>3. CASE \E caller, k \in Key, o \in Owner : RevokeForOwner(r, caller, k, o)
        <5>1. PICK caller \in Key, k \in Key, o \in Owner : RevokeForOwner(r, caller, k, o)
          BY <4>3
        <5> DEFINE l == [Idle EXCEPT !.phase = "revoke_lock", !.key = k, !.owner = o]
        <5>2. l \in Local /\ l.phase = "revoke_lock" /\ l.key = k
          BY DEF Idle, Local, Phase
        <5>3. At(r, "idle") /\ req' = [req EXCEPT ![r] = l] /\ UNCHANGED <<table, lock>>
          BY <5>1 DEF RevokeForOwner
        <5> HIDE DEF l
        <5> QED  BY <5>2, <5>3
      <4> QED  BY <2>4, <4>1, <4>2, <4>3 DEF Arrive
    <3>2. /\ req'[r].phase \in {"mint_lock", "revoke_lock"} /\ req'[r].key \in Key
          /\ \A q \in Request \ {r} : req'[q] = req[q]
      BY <3>1 DEF IInv, TypeOK
    <3>3. \A k \in Key : lock[k] # r
      BY <3>1 DEF WaitInv, HoldOK, At
    <3>4. HoldOK(r)' /\ TreeOK(r)'
      BY <3>1, <3>2, <3>3, IdleWaits
    <3> QED  BY <2>0, <3>1, <3>2, <3>4, WaitStep DEF table
  <2>5. ASSUME NEW r \in Request, MintStep(r) \/ RevokeStep(r) PROVE WaitInv'
    BY <2>5, WaitStepOfRequest
  <2>6. ASSUME NEW r \in Request, Abort(r) PROVE WaitInv'
    BY <2>6, FinishWaits DEF Abort, table
  <2>7. CASE UNCHANGED vars
    BY <2>0, <2>1, <2>7 DEF vars
  <2> QED  BY <2>2, <2>3, <2>4, <2>5, <2>6, <2>7 DEF Next
<1> QED  BY <1>1, <1>2, Invariance, PTL DEF Spec

(* The requests never wait for each other's row locks in a circle: the      *)
(* cascade with the deepest target waits for nobody that waits.             *)
THEOREM WaitsEnd == Spec => []NoLockCycle
<1>1. IInv /\ WaitInv => NoLockCycle
  <2> SUFFICES ASSUME IInv, WaitInv, NEW r0 \in Request, ~ At(r0, "idle"),
                      \A r \in Request : At(r, "idle") \/ Waiting(r)
               PROVE  FALSE
    BY DEF NoLockCycle
  <2> DEFINE Cascading == {r \in Request : At(r, "cascade")}
             Targets == {req[r].key : r \in Cascading}
  <2>1. ASSUME NEW r \in Request, NEW k \in Key, ~ Unlocked(r, k)
        PROVE  /\ lock[k] \in Cascading /\ lock[k] # r
               /\ k \in req[lock[k]].seen
    <3>1. lock[k] \in Request /\ lock[k] # r
      BY <2>1 DEF Unlocked, IInv, TypeOK
    <3>2. \/ At(lock[k], "mint_check") \/ At(lock[k], "mint_insert")
          \/ At(lock[k], "cascade") /\ k \in req[lock[k]].seen
      BY <3>1 DEF WaitInv, HoldOK
    <3>3. ~ At(lock[k], "mint_check") /\ ~ At(lock[k], "mint_insert")
      BY <3>1 DEF Waiting, At
    <3> QED  BY <3>1, <3>2, <3>3
  <2>2. Cascading # {}
    <3>1. CASE At(r0, "cascade")
      BY <3>1
    <3>2. CASE ~ At(r0, "cascade")
      <4>1. ~ Unlocked(r0, req[r0].key)
        BY <3>2 DEF Waiting
      <4>2. req[r0].key \in Key
        <5>1. CASE At(r0, "mint_lock")
          BY <5>1 DEF IInv, MintOK, TypeOK
        <5>2. CASE At(r0, "revoke_lock")
          BY <5>2 DEF WaitInv, TreeOK
        <5> QED  BY <3>2, <5>1, <5>2 DEF Waiting
      <4> QED  BY <2>1, <4>1, <4>2
    <3> QED  BY <3>1, <3>2
  <2>3. ASSUME NEW r \in Cascading
        PROVE  \E h \in Cascading :
                 req[h].key # req[r].key /\ req[r].key \in Lineage(req[h].key)
    <3>1. /\ r \in Request /\ At(r, "cascade") /\ Waiting(r)
          /\ req[r].seen \subseteq Key /\ req[r].todo \subseteq Key
      BY DEF At, IInv, TypeOK, Local
    <3>2. PICK c \in req[r].todo : ~ Unlocked(r, c)
      BY <3>1 DEF Waiting, At
    <3>3. PICK h \in Cascading : h = lock[c] /\ h # r /\ c \in req[h].seen
      BY <2>1, <3>1, <3>2
    <3>4. /\ parent[c] \in req[r].seen /\ req[r].key \in req[r].seen
          /\ req[r].key \in Lineage(parent[c])
      BY <3>1, <3>2 DEF WaitInv, TreeOK
    <3>5. lock[parent[c]] = r /\ lock[req[r].key] = r
      BY <3>1, <3>4 DEF IInv, WalkOK
    <3>6. parent[c] \notin req[h].seen
      BY <3>3, <3>5 DEF IInv, WalkOK
    <3>7. c = req[h].key
      BY <3>3, <3>6 DEF WaitInv, TreeOK
    <3>8. req[r].key \in Lineage(c)
      BY <3>1, <3>2, <3>4, ChildDescends
    <3>9. c # req[r].key
      BY <3>3, <3>5
    <3> QED  BY <3>3, <3>7, <3>8, <3>9
  <2>4. Targets \subseteq issued /\ Targets # {}
    BY <2>2 DEF WaitInv, TreeOK, IInv, WalkOK
  <2>5. PICK m \in Targets : \A x \in Targets \ {m} : m \notin Lineage(x)
    BY <2>4 DEF WaitInv, Deepest
  <2>6. PICK r \in Cascading : m = req[r].key
    BY <2>5
  <2>7. PICK h \in Cascading : req[h].key # m /\ m \in Lineage(req[h].key)
    BY <2>3, <2>6
  <2> QED  BY <2>5, <2>7
<1> QED  BY <1>1, Invariance, WaitInvHolds, PTL

-----------------------------------------------------------------------------
(* A cascade began at a row that carries the label it was asked for.        *)
LabelOK(r) ==
  At(r, "cascade") => req[r].owner \in {OtherLabel, created_by[req[r].key]}

LabelInv == \A r \in Request : LabelOK(r)

(* The label of a row never changes, nor does the target of a request.      *)
LEMMA LabelStays ==
  ASSUME IInv, WaitInv, NEW q \in Request, LabelOK(q),
         At(q, "cascade")' => /\ At(q, "cascade")
                              /\ req'[q].key = req[q].key
                              /\ req'[q].owner = req[q].owner,
         \A k \in issued : created_by'[k] = created_by[k]
  PROVE  LabelOK(q)'
<1> SUFFICES ASSUME At(q, "cascade")'
             PROVE  req'[q].owner \in {OtherLabel, created_by'[req'[q].key]}
  BY DEF LabelOK
<1>1. req[q].key \in issued
  BY DEF IInv, WalkOK, WaitInv, TreeOK
<1> QED
  BY <1>1 DEF LabelOK

LEMMA LabelStep == IInv /\ WaitInv /\ LabelInv /\ [Next]_vars => LabelInv'
<1> SUFFICES ASSUME IInv, WaitInv, LabelInv, [Next]_vars, NEW q \in Request
             PROVE  LabelOK(q)'
  BY DEF LabelInv
<1>1. req \in [Request -> Local] /\ LabelOK(q)
  BY DEF IInv, TypeOK, LabelInv
<1>2. ASSUME UNCHANGED <<req, created_by>> PROVE LabelOK(q)'
  BY <1>1, <1>2 DEF LabelOK, At
<1>3. ASSUME NEW k \in Key, NEW s \in RequestedScopes, CreateKey(k, s) PROVE LabelOK(q)'
  <2>1. \A x \in issued : created_by'[x] = created_by[x]
    BY <1>3 DEF CreateKey, IInv, TypeOK
  <2>2. req' = req
    BY <1>3 DEF CreateKey
  <2> QED  BY <1>1, <2>1, <2>2, LabelStays DEF At
<1>4. ASSUME NEW k \in Key, Expire(k) PROVE LabelOK(q)'
  BY <1>2, <1>4 DEF Expire, table
<1>5. ASSUME NEW r \in Request, r # q,
             Arrive(r) \/ MintStep(r) \/ RevokeStep(r) \/ Abort(r)
      PROVE  LabelOK(q)'
  <2>1. req'[q] = req[q]
    BY <1>1, <1>5 DEF Arrive, MintAuthenticate, RevokeByAdmin, RevokeForOwner, MintStep, MintLock,
           MintCheck, MintInsert, MintOutOfIds, RevokeStep, RevokeLock, CascadeSelect,
           CascadeLock, RevokeCommit, Abort, Finish
  <2>2. ASSUME NEW k \in issued PROVE created_by'[k] = created_by[k]
    <3>1. CASE Arrive(r) \/ RevokeStep(r) \/ Abort(r)
      BY <3>1 DEF Arrive, MintAuthenticate, RevokeByAdmin, RevokeForOwner, RevokeStep,
             RevokeLock, CascadeSelect, CascadeLock, RevokeCommit, Abort, table
    <3>2. CASE MintStep(r)
      BY <3>2 DEF MintStep, MintLock, MintCheck, MintInsert, MintOutOfIds, table, IInv, TypeOK
    <3> QED  BY <1>5, <3>1, <3>2
  <2> QED  BY <1>1, <2>1, <2>2, LabelStays DEF At
<1>6. ASSUME Finish(q) PROVE LabelOK(q)'
  BY <1>1, <1>6 DEF Finish, LabelOK, At, Idle
<1>7. ASSUME Arrive(q) \/ MintStep(q) PROVE LabelOK(q)'
  <2>1. CASE Finish(q)
    BY <1>6, <2>1
  <2>2. CASE Arrive(q)
    <3>1. ASSUME NEW k \in Key, NEW o \in Owner \cup {OtherLabel}, NEW s \in RequestedScopes,
                 MintAuthenticate(q, k, o, s)
          PROVE  req'[q].phase # "cascade"
      BY <1>1, <3>1 DEF MintAuthenticate, Idle
    <3>2. ASSUME NEW k \in Key, RevokeByAdmin(q, k) PROVE req'[q].phase # "cascade"
      BY <1>1, <3>2 DEF RevokeByAdmin, Idle
    <3>3. ASSUME NEW c \in Key, NEW k \in Key, NEW o \in Owner, RevokeForOwner(q, c, k, o)
          PROVE  req'[q].phase # "cascade"
      BY <1>1, <3>3 DEF RevokeForOwner, Idle
    <3> QED  BY <2>2, <3>1, <3>2, <3>3 DEF Arrive, LabelOK, At
  <2>3. CASE MintStep(q) /\ ~ Finish(q)
    <3>1. req'[q].phase \in {"mint_check", "mint_insert"}
      BY <1>1, <2>3 DEF MintStep, MintLock, MintCheck, MintInsert, MintOutOfIds, Local
    <3> QED  BY <3>1 DEF LabelOK, At
  <2> QED  BY <1>7, <2>1, <2>2, <2>3
<1>8. ASSUME RevokeStep(q) \/ Abort(q) PROVE LabelOK(q)'
  <2>1. CASE Finish(q)
    BY <1>6, <2>1
  <2>2. CASE RevokeLock(q) /\ ~ Finish(q)
    <3>1. /\ req[q].owner \in {OtherLabel, created_by[req[q].key]}
          /\ req'[q].key = req[q].key /\ req'[q].owner = req[q].owner
          /\ created_by' = created_by
      BY <1>1, <2>2 DEF RevokeLock, table, Local
    <3> QED  BY <3>1 DEF LabelOK
  <2>3. ASSUME \/ CascadeSelect(q)
               \/ \E c \in Key : CascadeLock(q, c)
        PROVE  LabelOK(q)'
    <3>1. At(q, "cascade") /\ created_by' = created_by
      BY <2>3 DEF CascadeSelect, CascadeLock, table
    <3>2. req'[q].key = req[q].key /\ req'[q].owner = req[q].owner
      <4>1. CASE CascadeSelect(q)
        BY <1>1, <4>1 DEF CascadeSelect, Local
      <4>2. ASSUME NEW c \in Key, CascadeLock(q, c)
            PROVE  req'[q].key = req[q].key /\ req'[q].owner = req[q].owner
        BY <1>1, <4>2 DEF CascadeLock, Local
      <4> QED  BY <2>3, <4>1, <4>2
    <3> QED  BY <1>1, <3>1, <3>2 DEF LabelOK
  <2> QED  BY <1>8, <2>1, <2>2, <2>3 DEF RevokeStep, RevokeCommit, Abort
<1> QED
  BY <1>2, <1>3, <1>4, <1>5, <1>7, <1>8 DEF Next, vars

(* A revoke that commits takes its target and all that was minted below it, *)
(* and nothing else: what a cascade has seen lies below its target, and no  *)
(* live key is left below a revoked one.                                    *)
THEOREM RevocationTakesTheTree == Spec => RevocationTakesTree
<1>1. Init => LabelInv
  BY DEF Init, LabelInv, LabelOK, At, Idle
<1>2. IInv' => RevocationReachesDescendants'
  BY NothingLiveBelow, PTL
<1>3. IInv /\ IInv' /\ WaitInv /\ LabelInv /\ [Next]_vars => [TreeTaken]_vars
  <2> SUFFICES ASSUME IInv, IInv', WaitInv, LabelInv, Next, revoked' # revoked
               PROVE  TreeTaken
    BY DEF TreeTaken, vars
  <2>1. PICK r \in Request : RevokeCommit(r)
    <3>1. \A r \in Request : Arrive(r) \/ MintStep(r) \/ Abort(r) => revoked' = revoked
      BY DEF Arrive, MintAuthenticate, RevokeByAdmin, RevokeForOwner, MintStep, MintLock,
             MintCheck, MintInsert, MintOutOfIds, Abort, table
    <3>2. \A r \in Request : RevokeStep(r) => revoked' = revoked \/ RevokeCommit(r)
      BY DEF RevokeStep, RevokeLock, CascadeSelect, CascadeLock, table
    <3> QED  BY <3>1, <3>2 DEF Next, CreateKey, Expire, table
  <2> DEFINE target == req[r].key
             Below == {k \in issued : target \in Lineage(k)}
  <2>2. /\ At(r, "cascade") /\ revoked' = revoked \cup req[r].seen
        /\ issued' = issued /\ parent' = parent
    BY <2>1 DEF RevokeCommit
  <2>3. req[r].seen \subseteq Below /\ target \in req[r].seen
    BY <2>2 DEF IInv, WalkOK, WaitInv, TreeOK
  <2>4. Below \subseteq revoked'
    <3>1. RevocationReachesDescendants'
      BY <1>2
    <3>2. \A k \in issued : Lineage(k)' = Lineage(k)
      BY <2>2 DEF Lineage
    <3> QED  BY <2>2, <2>3, <3>1, <3>2 DEF RevocationReachesDescendants
  <2>5. req[r].owner \in {OtherLabel, created_by[target]}
    BY <2>2 DEF LabelInv, LabelOK
  <2> QED  BY <2>2, <2>3, <2>4, <2>5 DEF TreeTaken
<1> QED
  BY <1>1, <1>3, LabelStep, Invariance, WaitInvHolds, PTL DEF Spec, RevocationTakesTree

============================================================================
