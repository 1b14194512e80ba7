--------------------------- MODULE RequestLimiter ---------------------------
(* The per-minute request limiter: `check_request` and `_bump_minute` of    *)
(* app/core/ratelimit.py, and the nightly prune of app/features/admin.      *)
(*                                                                          *)
(* All counters are rows of rate_limit, unique in (key_id, bucket,          *)
(* window_start) with NULLs not distinct.  A request interleaves with the   *)
(* others between its statements; a statement and the commit behind it are  *)
(* one step, since the row lock of the one is held to the other.            *)
EXTENDS Integers

CONSTANTS
  Bucket, Request, LIMIT, MaxWindow,
  KEEP,          \* windows the prune spares before the current one
  MAX_COUNT,     \* bound of the model: a full row takes no new request
  Nil

ASSUME LimitAssumption == LIMIT \in Nat \ {0}

ASSUME WindowAssumption == MaxWindow \in Nat /\ KEEP \in Nat

ASSUME BoundAssumption == MAX_COUNT \in Nat

ASSUME NilAssumption == Nil \notin Bucket

Window == 0 .. MaxWindow

VARIABLES
  now,           \* the current minute
  count,         \* the rows: a row is inserted with 1, 0 is no row
  req

vars == <<now, count, req>>

Phase == {"idle", "select", "update", "insert", "retry", "counted"}

(* `got` is the count a statement returned.                                 *)
Local == [phase : Phase, bucket : Bucket \cup {Nil}, window : Window, got : Nat]

Idle == [phase |-> "idle", bucket |-> Nil, window |-> 0, got |-> 0]

Init ==
  /\ now = 0
  /\ count = [b \in Bucket |-> [w \in Window |-> 0]]
  /\ req = [r \in Request |-> Idle]

At(r, phase) == req[r].phase = phase

RowOf(r) == count[req[r].bucket][req[r].window]

(* The row of the request is written, and the new value returned to it.     *)
Write(r, n) ==
  /\ count' = [count EXCEPT ![req[r].bucket][req[r].window] = n]
  /\ req' = [req EXCEPT ![r].phase = "counted", ![r].got = n]
  /\ UNCHANGED now

Leave(r) == req' = [req EXCEPT ![r] = Idle] /\ UNCHANGED <<now, count>>

(* Faulty form: the request that reaches the limit is refused.              *)
AdmitsBelow(n) == n < LIMIT

(* 429 when the returned count is above the limit.                          *)
Admits(n) == n <= LIMIT

-----------------------------------------------------------------------------
(* `_minute_window` of the time the request is checked.                     *)
Arrive(r, b) ==
  /\ At(r, "idle")
  /\ count[b][now] < MAX_COUNT
  /\ req' = [req EXCEPT ![r] = [phase |-> "select", bucket |-> b, window |-> now, got |-> 0]]
  /\ UNCHANGED <<now, count>>

Select(r) ==
  /\ At(r, "select")
  /\ req' = [req EXCEPT ![r].phase = IF RowOf(r) = 0 THEN "insert" ELSE "update"]
  /\ UNCHANGED <<now, count>>

(* UPDATE .. SET count = count + 1 .. RETURNING; a row that the prune took  *)
(* in between is an error.                                                  *)
Update(r) ==
  /\ At(r, "update")
  /\ IF RowOf(r) = 0 THEN Leave(r) ELSE Write(r, RowOf(r) + 1)

(* Faulty form: without the unique index the loser writes a row of its own. *)
InsertAnyway(r) == At(r, "insert") /\ Write(r, 1)

(* The first request of a window; the loser of a race for the row gets an   *)
(* IntegrityError and rolls back.                                           *)
Insert(r) ==
  /\ At(r, "insert")
  /\ \/ RowOf(r) = 0 /\ Write(r, 1)
     \/ RowOf(r) # 0 /\ req' = [req EXCEPT ![r].phase = "retry"] /\ UNCHANGED <<now, count>>

(* Faulty form: with no row left the limiter has no count to return.        *)
RetryMayReturnNothing(r) ==
  /\ At(r, "retry")
  /\ IF RowOf(r) = 0
       THEN req' = [req EXCEPT ![r].phase = "counted"] /\ UNCHANGED <<now, count>>
       ELSE Write(r, RowOf(r) + 1)

(* The loser's UPDATE; with no row left it counts as the first request.     *)
Retry(r) ==
  /\ At(r, "retry")
  /\ IF RowOf(r) = 0
       THEN req' = [req EXCEPT ![r].phase = "counted", ![r].got = 1] /\ UNCHANGED <<now, count>>
       ELSE Write(r, RowOf(r) + 1)

(* `check_request` returns or raises.                                       *)
Answer(r) == At(r, "counted") /\ Leave(r)

(* The handler dies or its database fails, in a statement or after it.      *)
Abort(r) == ~ At(r, "idle") /\ Leave(r)

(* A minute passes.                                                         *)
Tick ==
  /\ now < MaxWindow
  /\ now' = now + 1
  /\ UNCHANGED <<count, req>>

(* /admin/cron/prune-rate-limit: rows older than the cutoff.                *)
Prune ==
  /\ count' = [b \in Bucket |-> [w \in Window |-> IF w + KEEP < now THEN 0 ELSE count[b][w]]]
  /\ UNCHANGED <<now, req>>

Next ==
  \/ \E r \in Request, b \in Bucket : Arrive(r, b)
  \/ \E r \in Request : Select(r) \/ Update(r) \/ Insert(r) \/ Retry(r) \/ Answer(r) \/ Abort(r)
  \/ Tick
  \/ Prune

Spec == Init /\ [][Next]_vars

-----------------------------------------------------------------------------
TypeOK ==
  /\ now \in Window
  /\ count \in [Bucket -> [Window -> Nat]]
  /\ req \in [Request -> Local]
  /\ \A r \in Request : ~ At(r, "idle") => req[r].bucket \in Bucket
  /\ \A r \in Request : At(r, "counted") => req[r].got \in Nat \ {0}

Counted(r) == At(r, "counted") /\ req[r].window = now

(* No increment of the current window is lost: two requests that have been  *)
(* counted hold different counts, none above the row ("30 concurrent        *)
(* requests raised it by 9", _bump_minute).                                 *)
NoLostIncrement ==
  \A r \in Request : Counted(r) =>
    /\ req[r].got \in 1 .. RowOf(r)
    /\ \A q \in Request \ {r} :
         Counted(q) /\ req[q].bucket = req[r].bucket => req[q].got # req[r].got

(* The limiter as a quota: a request was served when its count was within   *)
(* the limit.                                                               *)
Served == [b \in Bucket |-> [w \in Window |-> IF Admits(count[b][w]) THEN count[b][w] ELSE LIMIT]]

Told == [r \in Request |->
  IF At(r, "idle") THEN "none"
  ELSE IF ~ At(r, "counted") THEN "waiting"
  ELSE IF Admits(req[r].got) THEN "admitted" ELSE "refused"]

Quota == INSTANCE RequestQuota WITH served <- Served, verdict <- Told

(* Every run of the limiter is a run of the quota: in its minute a bucket   *)
(* lets exactly LIMIT requests through and refuses none before that, however *)
(* the requests race for the row.                                           *)
ImplementsQuota == Quota!Spec

============================================================================
