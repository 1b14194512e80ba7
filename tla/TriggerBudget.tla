---------------------------- MODULE TriggerBudget ----------------------------
(* The daily caps on LLM calls: `check_and_count_trigger` for callers with  *)
(* an id, `check_and_count_llm_global` for the email pipeline, which has    *)
(* none (app/core/ratelimit.py).  The counters are those of the current UTC *)
(* day: no other row is read.                                               *)
(*                                                                          *)
(* The counters are rate_limit rows of the bucket "trigger", at most one    *)
(* per key_id (NULL included); key_id is a foreign key to api_key.id.       *)
EXTENDS Integers, FiniteSets, Functions

CONSTANTS
  Id,                            \* the integers that are ids of some table
  ApiKey,                        \* ids of api_key rows
  OAuthToken,                    \* ids of oauth_token rows
  Keyless,                       \* key_id NULL
  Request, Nil,
  RATE_LIMIT_TRIGGER_PER_DAY,
  GLOBAL_DAILY_LLM_CAP,
  MAX_CALLS                      \* bound of the model: LLM calls in the day

BudgetAssumption ==
  /\ ApiKey \subseteq Id /\ OAuthToken \subseteq Id /\ Keyless \notin Id
  /\ IsFiniteSet(ApiKey) /\ IsFiniteSet(OAuthToken)
  /\ Nil \notin Request
  /\ RATE_LIMIT_TRIGGER_PER_DAY \in Nat \ {0} /\ GLOBAL_DAILY_LLM_CAP \in Nat \ {0}
  /\ MAX_CALLS \in Nat

VARIABLES
  count,      \* trigger_count_today of the committed rows, 0 for no row
  inserting,  \* who holds an uncommitted row of a key_id
  calls,      \* the LLM calls a caller has been let through to
  overlapped, \* history: handlers have been in flight together today
  req

vars == <<count, inserting, calls, overlapped, req>>

Row == ApiKey \cup {Keyless}

(* An API key, a login through OAuth, or the email pipeline.                *)
Caller == [kind : {"apikey"}, id : ApiKey] \cup [kind : {"oauth"}, id : OAuthToken]
          \cup {[kind |-> "email", id |-> Keyless]}

Phase == {"idle", "global", "find", "flush", "find_again", "count", "insert_count",
          "bump", "bump_insert", "capped", "unavailable"}

(* `seen` is row.trigger_count_today as it was loaded.                      *)
Local == [phase : Phase, caller : Caller \cup {Nil}, seen : Nat]

Idle == [phase |-> "idle", caller |-> Nil, seen |-> 0]

Init ==
  /\ count = [k \in Row |-> 0]
  /\ inserting = [k \in Row |-> Nil]
  /\ calls = [c \in Caller |-> 0]
  /\ overlapped = FALSE
  /\ req = [r \in Request |-> Idle]

At(r, phase) == req[r].phase = phase

KeyId(r) == req[r].caller.id

Keyed(r) == KeyId(r) # Keyless

Go(r, phase) == req' = [req EXCEPT ![r].phase = phase]

GlobalToday == SumFunctionOnSet(count, Row)

Spent == SumFunctionOnSet(calls, Caller)

(* The commit that lets the caller go on to the model.                      *)
Charge(r, n) ==
  /\ count' = [count EXCEPT ![KeyId(r)] = n]
  /\ inserting' = [inserting EXCEPT ![KeyId(r)] = IF @ = r THEN Nil ELSE @]
  /\ calls' = [calls EXCEPT ![req[r].caller] = @ + 1]
  /\ req' = [req EXCEPT ![r] = Idle]

-----------------------------------------------------------------------------
Arrive(r, c) ==
  /\ At(r, "idle")
  /\ Spent < MAX_CALLS
  /\ req' = [req EXCEPT ![r] = [Idle EXCEPT !.phase = "global", !.caller = c]]
  /\ overlapped' = (overlapped \/ \E q \in Request : ~ At(q, "idle"))
  /\ UNCHANGED <<count, inserting, calls>>

(* Faulty form: the cap is read as the last call that is refused.           *)
CheckGlobalLate(r) ==
  /\ At(r, "global")
  /\ Go(r, IF GlobalToday > GLOBAL_DAILY_LLM_CAP THEN "capped" ELSE "find")
  /\ UNCHANGED <<count, inserting, calls>>

(* `_global_llm_today`, against the cap.                                    *)
CheckGlobal(r) ==
  /\ At(r, "global")
  /\ Go(r, IF GlobalToday >= GLOBAL_DAILY_LLM_CAP THEN "capped" ELSE "find")
  /\ UNCHANGED <<count, inserting, calls>>

(* The SELECT of the row, on either path.                                   *)
Find(r) ==
  LET k == KeyId(r)
      found == k \in Row /\ count[k] # 0
  IN  /\ At(r, "find")
      /\ IF found
           THEN req' = [req EXCEPT ![r].phase = IF Keyed(r) THEN "count" ELSE "bump",
                                   ![r].seen = count[k]]
           ELSE Go(r, IF Keyed(r) THEN "flush" ELSE "bump_insert")
      /\ UNCHANGED <<count, inserting, calls>>

-----------------------------------------------------------------------------
(* `check_and_count_trigger`.                                               *)

(* Faulty form: the insert fails on a row that is not committed yet.        *)
FlushNoWait(r) ==
  LET k == KeyId(r)
      conflict == k \notin ApiKey \/ count[k] # 0 \/ inserting[k] # Nil
  IN  /\ At(r, "flush")
      /\ Go(r, IF conflict THEN "find_again" ELSE "insert_count")
      /\ inserting' = IF conflict THEN inserting ELSE [inserting EXCEPT ![k] = r]
      /\ UNCHANGED <<count, calls>>

(* db.flush() of the new row: it waits for whoever is inserting the same    *)
(* row, and fails on a committed one or on an id that is no API key's.      *)
Flush(r) ==
  LET k == KeyId(r) IN
  /\ At(r, "flush")
  /\ IF k \notin ApiKey \/ count[k] # 0
       THEN Go(r, "find_again") /\ UNCHANGED inserting
       ELSE /\ inserting[k] = Nil
            /\ inserting' = [inserting EXCEPT ![k] = r]
            /\ Go(r, "insert_count")
  /\ UNCHANGED <<count, calls>>

(* The row of the winner, or 503 when there is none.                        *)
FindAgain(r) ==
  LET k == KeyId(r) IN
  /\ At(r, "find_again")
  /\ IF k \in Row /\ count[k] # 0
       THEN req' = [req EXCEPT ![r].phase = "count", ![r].seen = count[k]]
       ELSE Go(r, "unavailable")
  /\ UNCHANGED <<count, inserting, calls>>

(* The inserted row: UPDATE .. = 1 and the commit.                          *)
CountInserted(r) == At(r, "insert_count") /\ Charge(r, 1)

(* Faulty form: the count is raised first and compared afterwards.          *)
CountFoundFirst(r) ==
  /\ At(r, "count")
  /\ IF req[r].seen >= RATE_LIMIT_TRIGGER_PER_DAY
       THEN /\ count' = [count EXCEPT ![KeyId(r)] = req[r].seen + 1]
            /\ Go(r, "capped")
            /\ UNCHANGED <<inserting, calls>>
       ELSE Charge(r, req[r].seen + 1)

(* The loaded row, against the key's cap; `row.trigger_count_today += 1`    *)
(* writes the loaded value plus one.                                        *)
CountFound(r) ==
  /\ At(r, "count")
  /\ IF req[r].seen >= RATE_LIMIT_TRIGGER_PER_DAY
       THEN Go(r, "capped") /\ UNCHANGED <<count, inserting, calls>>
       ELSE Charge(r, req[r].seen + 1)

-----------------------------------------------------------------------------
(* `_bump_global_trigger`.                                                  *)

(* Faulty form: as on the keyed path, the loaded value plus one.            *)
BumpLoaded(r) == At(r, "bump") /\ Charge(r, req[r].seen + 1)

(* UPDATE .. SET trigger_count_today = trigger_count_today + 1.             *)
Bump(r) == At(r, "bump") /\ Charge(r, count[Keyless] + 1)

(* INSERT and commit; the loser of the race updates.                        *)
BumpInsert(r) ==
  /\ At(r, "bump_insert")
  /\ IF count[Keyless] = 0
       THEN Charge(r, 1)
       ELSE Go(r, "bump") /\ UNCHANGED <<count, inserting, calls>>

-----------------------------------------------------------------------------
(* The 429, or the 503, is returned.                                        *)
Refuse(r) ==
  /\ req[r].phase \in {"capped", "unavailable"}
  /\ req' = [req EXCEPT ![r] = Idle]
  /\ UNCHANGED <<count, inserting, calls>>

(* Faulty form: the session is not closed.                                  *)
AbortKeepsRow(r) ==
  /\ ~ At(r, "idle")
  /\ req' = [req EXCEPT ![r] = Idle]
  /\ UNCHANGED <<count, inserting, calls>>

(* The handler dies before its commit: an inserted row is rolled back.      *)
Abort(r) ==
  /\ ~ At(r, "idle")
  /\ req' = [req EXCEPT ![r] = Idle]
  /\ inserting' = [k \in Row |-> IF inserting[k] = r THEN Nil ELSE inserting[k]]
  /\ UNCHANGED <<count, calls>>

(* Midnight UTC, when nothing is in flight: the next day has its own rows.  *)
NewDay ==
  /\ \A r \in Request : At(r, "idle")
  /\ count' = [k \in Row |-> 0]
  /\ calls' = [c \in Caller |-> 0]
  /\ overlapped' = FALSE
  /\ UNCHANGED <<inserting, req>>

Step(r) ==
  \/ CheckGlobal(r) \/ Find(r)
  \/ Flush(r) \/ FindAgain(r) \/ CountInserted(r) \/ CountFound(r)
  \/ Bump(r) \/ BumpInsert(r)
  \/ Refuse(r)

Next ==
  \/ \E r \in Request, c \in Caller : Arrive(r, c)
  \/ \E r \in Request : (Step(r) \/ Abort(r)) /\ UNCHANGED overlapped
  \/ NewDay

Spec == Init /\ [][Next]_vars

-----------------------------------------------------------------------------
(* Types, and an uncommitted row belongs to a handler that is about to      *)
(* commit it.                                                               *)
TypeOK ==
  /\ count \in [Row -> Nat]
  /\ inserting \in [Row -> Request \cup {Nil}]
  /\ calls \in [Caller -> Nat]
  /\ overlapped \in BOOLEAN
  /\ req \in [Request -> Local]
  /\ \A k \in Row : inserting[k] # Nil => At(inserting[k], "insert_count")

(* The calls that are charged to a row.                                     *)
ChargedTo(k) == SumFunctionOnSet(calls, {c \in Caller : c.id = k})

(* A counter never runs ahead of the calls it stands for, so nobody is told *)
(* that a cap is reached before it is: whatever the interleaving, a refusal *)
(* means the money has been spent.                                          *)
RefusedOnlyWhenSpent ==
  /\ \A k \in Row : count[k] <= ChargedTo(k)
  /\ \A r \in Request : At(r, "capped") =>
       \/ Spent >= GLOBAL_DAILY_LLM_CAP
       \/ Keyed(r) /\ ChargedTo(KeyId(r)) >= RATE_LIMIT_TRIGGER_PER_DAY

(* The pipeline's counter is exact: no increment is lost, the first of the  *)
(* day included (`_bump_global_trigger`).                                   *)
KeylessExact == count[Keyless] = ChargedTo(Keyless)

(* Requests racing for the first row of the day end on one row, and never   *)
(* in the 503 that is meant for the old constraint.                         *)
NeverUnavailable == \A r \in Request : ~ At(r, "unavailable")

(* The day stays within both caps ("Hard ceiling on total LLM calls/day     *)
(* across all keys", docs/configuration.md; "If a cap is hit .. no LLM call *)
(* is made", `check_and_count_trigger`) unless handlers overlapped: the     *)
(* global sum is read before the unit is counted, and a key's counter is    *)
(* written from the value that was loaded.                                  *)
WithinCaps ==
  \/ overlapped
  \/ /\ Spent <= GLOBAL_DAILY_LLM_CAP
     /\ \A k \in ApiKey : ChargedTo(k) <= RATE_LIMIT_TRIGGER_PER_DAY

(* Every counted call is in its row, the first of the day included, and the *)
(* rows stay within the caps as far as calls do not overlap.                *)
CountersHold == TypeOK /\ KeylessExact /\ WithinCaps

============================================================================
