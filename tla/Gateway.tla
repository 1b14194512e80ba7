------------------------------ MODULE Gateway -------------------------------
(* The two limits a call passes: requests per minute (`check_request`) and  *)
(* model calls per day (`check_and_count_trigger`).  They share the table   *)
(* and no row, so a behaviour explores one of them, chosen by `part`, with  *)
(* the other at rest.                                                       *)
EXTENDS RequestLimiter

CONSTANTS
  ApiKey, OAuthToken, Keyless,
  RATE_LIMIT_TRIGGER_PER_DAY, GLOBAL_DAILY_LLM_CAP, MAX_CALLS

VARIABLES part, spent, inserting, calls, overlapped, caller

limiter == vars
budget == <<spent, inserting, calls, overlapped, caller>>

Budget == INSTANCE TriggerBudget WITH
  Id <- ApiKey \cup OAuthToken, count <- spent, req <- caller

ASSUME GatewayAssumption == Budget!BudgetAssumption

GatewayInit == part \in {"limiter", "budget"} /\ Init /\ Budget!Init

GatewayNext ==
  \/ part = "limiter" /\ Next /\ UNCHANGED <<part, budget>>
  \/ part = "budget" /\ Budget!Next /\ UNCHANGED <<part, limiter>>

GatewaySpec == GatewayInit /\ [][GatewayNext]_<<part, limiter, budget>>

-----------------------------------------------------------------------------
(* The properties of TriggerBudget, where they are explained.  Nobody is    *)
(* turned away before the day is spent with a 429, nor with the 503 as long *)
(* as the ids of the logins are ids of keys too.                            *)
RefusedOnlyWhenSpent ==
  /\ Budget!RefusedOnlyWhenSpent
  /\ OAuthToken \subseteq ApiKey => Budget!NeverUnavailable

(* Every counted call is in its row, the first of the day included, and the *)
(* rows stay within the caps as far as calls do not overlap.                *)
CountersHold == Budget!CountersHold

============================================================================
