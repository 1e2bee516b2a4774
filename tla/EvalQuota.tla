------------------------------- MODULE EvalQuota -------------------------------
(***************************************************************************)
(* The evaluation quota of an organization: the counter Redis keeps        *)
(* (rate_limit_incr, increment_eval_count and sync_eval_count_to_db of     *)
(* services/redis_service.py), the organizations row it is seeded from and *)
(* written back to, and the week after which that row is reset.            *)
(***************************************************************************)
EXTENDS Integers

CONSTANTS
  Limit,        \* eval_limit; 0 is no limit
  Used,         \* eval_count is 0 or Used at first
  LastWeek      \* the weeks that pass

ASSUME QuotaAssumption == Limit \in Nat /\ Used \in Nat /\ LastWeek \in Nat

VARIABLES
  week,         \* the current week
  org,          \* the committed organizations row, see OrgRow
  counter,      \* the value of the key evalcount:{org}
  redis         \* the state of Redis, see RedisState

quotaVars == <<week, org, counter, redis>>

OrgRow ==
  [count : Int,             \* eval_count
   week : 0..LastWeek,      \* the week of eval_week_start
   soft : BOOLEAN,          \* eval_soft_limit_enabled
   usage : Nat]             \* total_evaluations of the agent's evaluation_usage row

RedisState ==
  [up : BOOLEAN,
   seeded : BOOLEAN,        \* the key exists
   failed : BOOLEAN]        \* Redis has been down

QuotaTypeOK ==
  /\ week \in 0..LastWeek
  /\ org \in OrgRow
  /\ counter \in Int
  /\ redis \in RedisState

QuotaInit ==
  /\ week = 0
  /\ \E soft \in BOOLEAN, used \in {0, Used} :
       org = [count |-> used, week |-> 0, soft |-> soft, usage |-> 0]
  /\ counter = 0
  /\ redis = [up |-> TRUE, seeded |-> FALSE, failed |-> FALSE]

-------------------------------------------------------------------------------
(* A variant that sets the counter whether or not it exists. *)
ReseededAndIncremented(db) == db + 1

(* SET key db NX, then INCR key. *)
Incremented(db) == IF redis.seeded THEN counter + 1 ELSE db + 1

(* What rate_limit_incr or increment_eval_count returns, before it checks. *)
NewCount(db) ==
  IF redis.up THEN Incremented(db) ELSE IF org.soft THEN db + 1 ELSE db

Increment(db) ==
  IF redis.up
  THEN counter' = Incremented(db) /\ redis' = [redis EXCEPT !.seeded = TRUE]
  ELSE UNCHANGED <<counter, redis>>

(* rate_limit_incr takes its increment back and refuses. *)
TakesBack(n) == redis.up /\ ~org.soft /\ Limit > 0 /\ n > Limit

(* The check of evaluate. *)
Exceeds(n) == ~org.soft /\ Limit > 0 /\ n >= Limit

(* The UPDATE that resets a week that is over has a row to change. *)
WeekIsOver == Limit > 0 /\ org.week < week

NewWeek ==
  /\ week < LastWeek
  /\ week' = week + 1
  /\ UNCHANGED <<org, counter, redis>>

RedisFails ==
  /\ redis.up /\ ~redis.failed
  /\ redis' = [redis EXCEPT !.up = FALSE, !.failed = TRUE]
  /\ UNCHANGED <<week, org, counter>>

(* Redis comes back, with its keys or without. *)
RedisReturns(kept) ==
  /\ ~redis.up
  /\ redis' = [redis EXCEPT !.up = TRUE, !.seeded = @ /\ kept]
  /\ counter' = IF kept THEN counter ELSE 0
  /\ UNCHANGED <<week, org>>
===============================================================================
