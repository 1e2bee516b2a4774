----------------------------- MODULE RateLimiter -----------------------------
(***************************************************************************)
(* The token bucket of one organization in front of POST /v1/evaluate      *)
(* (services/redis_service.py, middleware/rate_limiter.py).                *)
(*                                                                         *)
(* A request reads the clock in its API process and then awaits a script   *)
(* that Redis runs atomically.  The script trusts the time it is given:    *)
(* requests may run in another order than they read the clock.             *)
(*                                                                         *)
(* One token is Token units and a tick refills Refill units, so that the   *)
(* fractions of the script stay integers.                                  *)
(***************************************************************************)
EXTENDS Integers, FiniteSets

CONSTANTS
  Hits,          \* the requests
  Burst,         \* rate_limit_burst, in units
  Token,         \* the units of one token
  Refill,        \* rate_limit_per_second, in units a tick
  LimiterHorizon,\* bound: the clock stops here
  FailOpen       \* rate_limit_fail_mode is not "closed"

ASSUME LimiterAssumption ==
  /\ IsFiniteSet(Hits)
  /\ Token \in Nat \ {0} /\ Refill \in Nat \ {0}
  /\ Burst \in Nat /\ Burst >= Token
  /\ LimiterHorizon \in Nat
  /\ FailOpen \in BOOLEAN

VARIABLES
  clock,         \* the time, the same for all processes and Redis
  bucket,        \* tokens, the timestamp written beside them, when it was written
  hit,           \* hit[h]: the time request h has read and what became of it
  late           \* ticks by which scripts ran behind a time already in the bucket

limiterVars == <<clock, bucket, hit, late>>

Verdicts == {"new", "sent", "admitted", "refused", "unlimited", "unavailable"}

LimiterTypeOK ==
  /\ clock \in 0..LimiterHorizon
  /\ bucket \in [tokens : 0..Burst, stamp : 0..LimiterHorizon, written : 0..LimiterHorizon]
  /\ hit \in [Hits -> [state : Verdicts, at : 0..LimiterHorizon]]
  /\ late \in Nat

(* A key that does not exist reads as a full bucket of this moment.        *)
LimiterInit ==
  /\ clock = 0
  /\ bucket = [tokens |-> Burst, stamp |-> 0, written |-> 0]
  /\ hit = [h \in Hits |-> [state |-> "new", at |-> 0]]
  /\ late = 0

Larger(a, b) == IF a >= b THEN a ELSE b
Smaller(a, b) == IF a <= b THEN a ELSE b

-------------------------------------------------------------------------------
(* The script *)

(* The ticks in which an empty bucket fills, and how long the key lives.   *)
FillTime == (Burst + Refill - 1) \div Refill
KeyLife == FillTime + 1

Expired(t) == t - bucket.written >= KeyLife

(* The tokens a script sees that is given the time n. *)
Refilled(n) ==
  IF Expired(clock)
  THEN Burst
  ELSE Smaller(Burst, bucket.tokens + Larger(0, n - bucket.stamp) * Refill)

(* A variant that writes the timestamp only when it takes a token.         *)
StampedWhenAdmitted(n) ==
  IF Refilled(n) >= Token
  THEN [tokens |-> Refilled(n) - Token, stamp |-> n, written |-> clock]
  ELSE [tokens |-> Refilled(n), stamp |-> bucket.stamp, written |-> clock]

Taken(n) ==
  [tokens |-> IF Refilled(n) >= Token THEN Refilled(n) - Token ELSE Refilled(n),
   stamp |-> n, written |-> clock]

(* By how much a script given the time n lags behind what it has to follow: *)
(* the timestamp in the bucket, or its complete refill when the key is gone.*)
Lag(n) ==
  Larger(0, (IF Expired(clock) THEN bucket.stamp + FillTime ELSE bucket.stamp) - n)

-------------------------------------------------------------------------------
(* A request *)

(* check_rate_limit reads the clock before it awaits Redis. *)
Arrive(h) ==
  /\ hit[h].state = "new"
  /\ hit' = [hit EXCEPT ![h] = [state |-> "sent", at |-> clock]]
  /\ UNCHANGED <<clock, bucket, late>>

Over(verdict) == [state |-> verdict, at |-> 0]

EvalScript(h) ==
  /\ hit[h].state = "sent"
  /\ LET n == hit[h].at IN
       /\ hit' = [hit EXCEPT ![h] = Over(IF Refilled(n) >= Token THEN "admitted" ELSE "refused")]
       /\ bucket' = Taken(n)
       /\ late' = late + Lag(n)
  /\ UNCHANGED clock

(* Redis cannot be reached: nothing was taken, and the fail mode decides.  *)
RedisUnavailable(h) ==
  /\ hit[h].state = "sent"
  /\ hit' = [hit EXCEPT ![h] = Over(IF FailOpen THEN "unlimited" ELSE "unavailable")]
  /\ UNCHANGED <<clock, bucket, late>>

(* The script ran and its answer was lost: the request goes by the fail mode. *)
AnswerLost(h) ==
  /\ hit[h].state = "sent"
  /\ hit' = [hit EXCEPT ![h] = Over(IF FailOpen THEN "unlimited" ELSE "unavailable")]
  /\ bucket' = Taken(hit[h].at)
  /\ late' = late + Lag(hit[h].at)
  /\ UNCHANGED clock

Pass ==
  /\ clock < LimiterHorizon
  /\ clock' = clock + 1
  /\ UNCHANGED <<bucket, hit, late>>

LimiterNext ==
  \/ Pass
  \/ \E h \in Hits : Arrive(h) \/ EvalScript(h) \/ RedisUnavailable(h) \/ AnswerLost(h)

LimiterSpec == LimiterInit /\ [][LimiterNext]_limiterVars

-------------------------------------------------------------------------------
(* Properties *)

Admitted == {h \in Hits : hit[h].state = "admitted"}

(* However requests overtake each other on their way to Redis, and whenever *)
(* the key expires, the requests admitted never exceed the burst and the    *)
(* refill of the time that has passed, but for the refill of the ticks by   *)
(* which scripts ran behind a time already used: each of those is paid out  *)
(* twice, because the script moves the timestamp back.                      *)
NeverOverAdmits ==
  Cardinality(Admitted) * Token + bucket.tokens
    <= Burst + Refill * (bucket.stamp + late)
===============================================================================
