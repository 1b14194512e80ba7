---------------------------- MODULE RequestQuota ----------------------------
(* What the fixed-window limiter promises: in one window a bucket lets      *)
(* exactly LIMIT requests through, then refuses the rest.                   *)
EXTENDS Integers

CONSTANTS
  Bucket,        \* "req" of a key, or "ip:<address>"
  Request,
  LIMIT,         \* RATE_LIMIT_PER_MIN, or RATE_LIMIT_PER_IP_PER_MIN
  MaxWindow      \* bound of the model: the minutes it runs through

Window == 0 .. MaxWindow

VARIABLES
  now,           \* the current minute
  served,        \* the requests a bucket has let through in a window
  verdict        \* what a request was told: none, waiting, admitted or refused

Init ==
  /\ now = 0
  /\ served = [b \in Bucket |-> [w \in Window |-> 0]]
  /\ verdict = [r \in Request |-> "none"]

Ask(r) ==
  /\ verdict[r] = "none"
  /\ verdict' = [verdict EXCEPT ![r] = "waiting"]
  /\ UNCHANGED <<now, served>>

(* w is the minute the request came in, which may be over by now.           *)
Admit(r, b, w) ==
  /\ verdict[r] = "waiting"
  /\ w <= now
  /\ served[b][w] < LIMIT
  /\ served' = [served EXCEPT ![b][w] = @ + 1]
  /\ verdict' = [verdict EXCEPT ![r] = "admitted"]
  /\ UNCHANGED now

(* A request of a past minute whose bucket has been forgotten.              *)
AdmitLate(r, b, w) ==
  /\ verdict[r] = "waiting"
  /\ w < now
  /\ served[b][w] = 0
  /\ verdict' = [verdict EXCEPT ![r] = "admitted"]
  /\ UNCHANGED <<now, served>>

Refuse(r, b, w) ==
  /\ verdict[r] = "waiting"
  /\ w <= now
  /\ served[b][w] = LIMIT
  /\ verdict' = [verdict EXCEPT ![r] = "refused"]
  /\ UNCHANGED <<now, served>>

(* The answer is delivered, or the request dies without one.                *)
Leave(r) ==
  /\ verdict[r] # "none"
  /\ verdict' = [verdict EXCEPT ![r] = "none"]
  /\ UNCHANGED <<now, served>>

Tick ==
  /\ now < MaxWindow
  /\ now' = now + 1
  /\ UNCHANGED <<served, verdict>>

(* Past windows are forgotten.                                              *)
Forget ==
  /\ served' \in [Bucket -> [Window -> 0 .. LIMIT]]
  /\ \A b \in Bucket, w \in Window : served'[b][w] \in {0, served[b][w]}
  /\ \A b \in Bucket : served'[b][now] = served[b][now]
  /\ UNCHANGED <<now, verdict>>

Next ==
  \/ \E r \in Request : Ask(r) \/ Leave(r)
  \/ \E r \in Request, b \in Bucket, w \in Window : 
       Admit(r, b, w) \/ AdmitLate(r, b, w) \/ Refuse(r, b, w)
  \/ Tick
  \/ Forget

Spec == Init /\ [][Next]_<<now, served, verdict>>

============================================================================
