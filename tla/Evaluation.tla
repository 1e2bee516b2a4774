------------------------------ MODULE Evaluation ------------------------------
(***************************************************************************)
(* POST /evaluate: concurrent evaluations of one action of one agent       *)
(* (routes/evaluate.py), beside the mutations of the policies and of the   *)
(* risk and compliance settings that decide it, with the response cache,   *)
(* the Idempotency-Key and the quota in Redis (services/redis_service.py). *)
(*                                                                         *)
(* An evaluation is one transaction.  Its UPDATE of the organizations row  *)
(* takes the row lock, which it holds to its commit; everything Redis does *)
(* is seen at once and is not undone by a rollback.  The answer is sent    *)
(* after the commit, the background tasks run after the answer.            *)
(***************************************************************************)
EXTENDS EvalQuota, FiniteSets

CONSTANTS
  Evals,        \* the requests to evaluate the action
  Keyed,        \* those with the one Idempotency-Key
  Changes,      \* the number of policy mutations and settings changes
  Ttl           \* _EVAL_CACHE_TTL, in ticks

ASSUME EvaluationAssumption ==
  /\ IsFiniteSet(Evals) /\ Keyed \subseteq Evals
  /\ Changes \in Nat /\ Ttl \in Nat \ {0}

Decisions == {"ALLOW", "DENY", "APPROVAL_REQUIRED"}

(* What risk and compliance do to an ALLOW. *)
Screens == {"pass", "review", "deny"}

VARIABLES
  eval,         \* eval[e]: the transaction of evaluation e, see EvalRecord
  answer,       \* answer[e]: what its client got
  replayed,     \* the evaluations that were answered from the Idempotency-Key
  admitted,     \* admitted[e]: the week in which e was let through, or NoWeek
  audit,        \* the committed audit events: evaluation and decision
  cache,        \* the cached decision and the ticks it has left
  idem,         \* the response stored for the Idempotency-Key, or "none"
  config        \* the policies and settings, see Config

evalVars == <<eval, answer, replayed, admitted, audit>>
vars == <<week, org, counter, redis, eval, answer, replayed, admitted, audit, cache, idem, config>>

NoWeek == -1

EvalRecord ==
  [pc : {"idle", "counting", "undoing", "admitted", "locked", "reading", "decided",
         "stored", "committed", "cached", "syncing", "done"},
   seen : Int,                     \* eval_count, later the usage, as it read it
   n : Int,                        \* new_count
   reset : BOOLEAN,                \* its transaction has reset the week
   raw : {"ALLOW", "DENY"},        \* the decision of the policies
   decision : Decisions,
   hit : BOOLEAN]                  \* it comes from the cache

Config ==
  [policy : {"ALLOW", "DENY"},                   \* what the committed policies decide
   draft : {"ALLOW", "DENY", "none"},            \* an uncommitted mutation
   screen : Screens,                             \* risk settings, trust and compliance
   left : 0..Changes]                            \* the changes still to come

TypeOK ==
  /\ QuotaTypeOK
  /\ eval \in [Evals -> EvalRecord]
  /\ answer \in [Evals -> Decisions \cup {"none", "refused", "error"}]
  /\ replayed \subseteq Keyed
  /\ admitted \in [Evals -> {NoWeek} \cup 0..LastWeek]
  /\ audit \subseteq Evals \X Decisions
  /\ cache \in [decision : Decisions \cup {"none"}, left : 0..Ttl]
  /\ idem \in Decisions \cup {"none"}
  /\ config \in Config

NoEntry == [decision |-> "none", left |-> 0]

(* A request without a transaction, before it or after it. *)
Without(pc) ==
  [pc |-> pc, seen |-> 0, n |-> 0, reset |-> FALSE, raw |-> "DENY", decision |-> "DENY",
   hit |-> FALSE]

Init ==
  /\ QuotaInit
  /\ eval = [e \in Evals |-> Without("idle")]
  /\ answer = [e \in Evals |-> "none"]
  /\ replayed = {}
  /\ admitted = [e \in Evals |-> NoWeek]
  /\ audit = {}
  /\ cache = NoEntry
  /\ idem = "none"
  /\ config = [policy |-> "ALLOW", draft |-> "none", screen |-> "pass", left |-> Changes]

-------------------------------------------------------------------------------
(* A variant whose transaction lasts until its background tasks are over. *)
HoldsPastCommit(e) ==
  eval[e].pc \in {"locked", "reading", "decided", "stored", "committed", "cached",
                 "syncing"}

(* The organizations row lock: from the UPDATE, or from a reset, to the end. *)
Holds(e) ==
  \/ eval[e].pc \in {"locked", "reading", "decided", "stored"}
  \/ eval[e].pc \in {"undoing", "admitted"} /\ eval[e].reset

LockFree == \A e \in Evals : ~Holds(e)

Ends(e) == eval' = [eval EXCEPT ![e] = Without("done")]

Answered(e, a) == answer' = [answer EXCEPT ![e] = a]

(* The middleware reads the organizations row; a stored response is replayed. *)
Begin(e) ==
  /\ eval[e].pc = "idle"
  /\ IF e \in Keyed /\ redis.up /\ idem # "none"
     THEN /\ Ends(e)
          /\ Answered(e, idem)
          /\ replayed' = replayed \cup {e}
     ELSE /\ eval' = [eval EXCEPT ![e].pc = "counting", ![e].seen = org.count]
          /\ UNCHANGED <<answer, replayed>>
  /\ UNCHANGED <<quotaVars, admitted, audit, cache, idem, config>>

Admit(e, n, reset) ==
  /\ eval' = [eval EXCEPT ![e].pc = "admitted", ![e].n = n, ![e].reset = reset]
  /\ admitted' = [admitted EXCEPT ![e] = week]
  /\ UNCHANGED answer

(* 429: the transaction, and a reset in it, roll back. *)
Refuse(e) ==
  /\ Ends(e)
  /\ Answered(e, "refused")
  /\ UNCHANGED admitted

(* The weekly reset and the counter, which the reset leaves alone. *)
Count(e) ==
  LET db == IF WeekIsOver THEN 0 ELSE eval[e].seen
      n == NewCount(db)
  IN  /\ eval[e].pc = "counting"
      /\ WeekIsOver => LockFree
      /\ Increment(db)
      /\ \/ /\ TakesBack(n)
            /\ eval' = [eval EXCEPT ![e].pc = "undoing", ![e].seen = db, ![e].reset = WeekIsOver]
            /\ UNCHANGED <<answer, admitted>>
         \/ ~TakesBack(n) /\ Exceeds(n) /\ Refuse(e)
         \/ ~Exceeds(n) /\ Admit(e, n, WeekIsOver)
      /\ UNCHANGED <<week, org, replayed, audit, cache, idem, config>>

(* DECR, which makes a key that is gone; when it fails the check is made   *)
(* on the count in the database.                                           *)
Undo(e) ==
  /\ eval[e].pc = "undoing"
  /\ \/ /\ redis.up
        /\ counter' = counter - 1 /\ redis' = [redis EXCEPT !.seeded = TRUE]
        /\ Refuse(e)
     \/ /\ ~redis.up
        /\ UNCHANGED <<counter, redis>>
        /\ IF Exceeds(eval[e].seen) THEN Refuse(e) ELSE Admit(e, eval[e].seen, eval[e].reset)
  /\ UNCHANGED <<week, org, replayed, audit, cache, idem, config>>

(* A variant that does not wait for the row lock. *)
LockOrgNoWait(e) ==
  /\ eval[e].pc = "admitted"
  /\ eval' = [eval EXCEPT ![e].pc = "locked", ![e].seen = org.usage]
  /\ UNCHANGED <<quotaVars, answer, replayed, admitted, audit, cache, idem, config>>

(* The UPDATE of organizations, and record_evaluation_usage, which reads   *)
(* the usage it adds one to.                                               *)
LockOrg(e) ==
  /\ eval[e].pc = "admitted"
  /\ Holds(e) \/ LockFree
  /\ eval' = [eval EXCEPT ![e].pc = "locked", ![e].seen = org.usage]
  /\ UNCHANGED <<quotaVars, answer, replayed, admitted, audit, cache, idem, config>>

CacheHit(e) ==
  /\ eval[e].pc = "locked"
  /\ redis.up /\ cache.decision # "none"
  /\ eval' = [eval EXCEPT ![e].pc = "decided", ![e].decision = cache.decision, ![e].hit = TRUE]
  /\ UNCHANGED <<quotaVars, answer, replayed, admitted, audit, cache, idem, config>>

(* evaluate_request on the committed policies. *)
ReadPolicies(e) ==
  /\ eval[e].pc = "locked"
  /\ ~redis.up \/ cache.decision = "none"
  /\ eval' = [eval EXCEPT ![e].pc = "reading", ![e].raw = config.policy]
  /\ UNCHANGED <<quotaVars, answer, replayed, admitted, audit, cache, idem, config>>

(* The risk score overrides an ALLOW, and so does a compliance block. *)
Screened(raw, screen) ==
  IF raw = "DENY" \/ screen = "deny" THEN "DENY"
  ELSE IF screen = "review" THEN "APPROVAL_REQUIRED"
  ELSE "ALLOW"

ReadSettings(e) ==
  /\ eval[e].pc = "reading"
  /\ eval' = [eval EXCEPT ![e].pc = "decided", ![e].raw = "DENY",
                          ![e].decision = Screened(eval[e].raw, config.screen)]
  /\ UNCHANGED <<quotaVars, answer, replayed, admitted, audit, cache, idem, config>>

(* A variant that answers without waiting for the commit. *)
StoreAndAnswer(e) ==
  /\ eval[e].pc = "decided"
  /\ eval' = [eval EXCEPT ![e].pc = "stored"]
  /\ idem' = IF e \in Keyed /\ redis.up THEN eval[e].decision ELSE idem
  /\ Answered(e, eval[e].decision)
  /\ UNCHANGED <<quotaVars, replayed, admitted, audit, cache, config>>

(* The approval and the audit event are in the transaction, the response   *)
(* stored for the Idempotency-Key is not.                                  *)
Store(e) ==
  /\ eval[e].pc = "decided"
  /\ eval' = [eval EXCEPT ![e].pc = "stored"]
  /\ idem' = IF e \in Keyed /\ redis.up THEN eval[e].decision ELSE idem
  /\ UNCHANGED <<quotaVars, answer, replayed, admitted, audit, cache, config>>

Commit(e) ==
  /\ eval[e].pc = "stored"
  /\ eval' = [eval EXCEPT ![e] =
       [Without("committed") EXCEPT !.decision = eval[e].decision, !.hit = eval[e].hit]]
  /\ org' = [org EXCEPT !.count = eval[e].n, !.usage = eval[e].seen + 1,
                        !.week = IF eval[e].reset THEN week ELSE @]
  /\ audit' = audit \cup {<<e, eval[e].decision>>}
  /\ Answered(e, eval[e].decision)
  /\ UNCHANGED <<week, counter, redis, replayed, admitted, cache, idem, config>>

(* An exception, a lost connection, a 503 for want of Cedar. *)
Rollback(e) ==
  /\ eval[e].pc \in {"undoing", "admitted", "locked", "reading", "decided", "stored"}
  /\ Ends(e)
  /\ Answered(e, "error")
  /\ UNCHANGED <<quotaVars, replayed, admitted, audit, cache, idem, config>>

-------------------------------------------------------------------------------
(* Background tasks *)

(* A variant that caches before the commit. *)
SetCachedEarly(e) ==
  /\ eval[e].pc \in {"decided", "stored", "committed"} /\ ~eval[e].hit /\ redis.up
  /\ eval[e].decision # "APPROVAL_REQUIRED"
  /\ cache' = [decision |-> eval[e].decision, left |-> Ttl]
  /\ eval' = [eval EXCEPT ![e].pc = IF @ = "committed" THEN "cached" ELSE @]
  /\ UNCHANGED <<quotaVars, answer, replayed, admitted, audit, idem, config>>

(* A variant that keeps an entry for ever. *)
ExpiredNever == cache

(* A variant that counts down and does not delete. *)
ExpiredByCount == [cache EXCEPT !.left = @ - 1]

Expired == IF cache.left > 1 THEN [cache EXCEPT !.left = @ - 1] ELSE NoEntry

(* set_cached_eval *)
SetCached(e) ==
  /\ eval[e].pc = "committed" /\ ~eval[e].hit
  /\ cache' = IF redis.up /\ eval[e].decision # "APPROVAL_REQUIRED"
              THEN [decision |-> eval[e].decision, left |-> Ttl] ELSE cache
  /\ eval' = [eval EXCEPT ![e] = Without("cached")]
  /\ UNCHANGED <<quotaVars, answer, replayed, admitted, audit, idem, config>>

(* sync_eval_count_to_db reads the counter, if there is one ... *)
ReadCount(e) ==
  /\ eval[e].pc = "cached" \/ (eval[e].pc = "committed" /\ eval[e].hit)
  /\ IF redis.up /\ redis.seeded
     THEN eval' = [eval EXCEPT ![e] = [Without("syncing") EXCEPT !.n = counter]]
     ELSE Ends(e)
  /\ UNCHANGED <<quotaVars, answer, replayed, admitted, audit, cache, idem, config>>

(* ... and writes it, in a transaction of its own. *)
SyncCount(e) ==
  /\ eval[e].pc = "syncing"
  /\ LockFree
  /\ org' = [org EXCEPT !.count = eval[e].n]
  /\ Ends(e)
  /\ UNCHANGED <<week, counter, redis, answer, replayed, admitted, audit, cache, idem, config>>

(* The process ends before its background tasks. *)
LoseTasks(e) ==
  /\ eval[e].pc \in {"committed", "cached", "syncing"}
  /\ Ends(e)
  /\ UNCHANGED <<quotaVars, answer, replayed, admitted, audit, cache, idem, config>>

-------------------------------------------------------------------------------
(* The configuration *)

(* The routes of routes/policies.py invalidate the cache before they       *)
(* commit; an invalidation that fails is logged.                           *)
MutatePolicy(p) ==
  /\ config.draft = "none" /\ config.left > 0
  /\ config' = [config EXCEPT !.draft = p, !.left = @ - 1]
  /\ cache' = IF redis.up THEN NoEntry ELSE cache
  /\ UNCHANGED <<quotaVars, evalVars, idem>>

EndMutation(p) ==
  /\ config.draft # "none"
  /\ config' = [config EXCEPT !.draft = "none", !.policy = p]
  /\ UNCHANGED <<quotaVars, evalVars, cache, idem>>

(* Risk settings, compliance settings and agents change without it. *)
ChangeSettings(s) ==
  /\ config.left > 0
  /\ config' = [config EXCEPT !.screen = s, !.left = @ - 1]
  /\ UNCHANGED <<quotaVars, evalVars, cache, idem>>

Tick ==
  /\ cache # NoEntry
  /\ cache' = Expired
  /\ UNCHANGED <<quotaVars, evalVars, idem, config>>

(* The entries of a Redis that comes back empty are gone. *)
RedisReturnsWith(kept) ==
  /\ RedisReturns(kept)
  /\ cache' = IF kept THEN cache ELSE NoEntry
  /\ idem' = IF kept THEN idem ELSE "none"
  /\ UNCHANGED <<evalVars, config>>

-------------------------------------------------------------------------------
Step(e) ==
  \/ Begin(e) \/ Count(e) \/ Undo(e) \/ LockOrg(e)
  \/ CacheHit(e) \/ ReadPolicies(e) \/ ReadSettings(e)
  \/ Store(e) \/ Commit(e) \/ SetCached(e) \/ ReadCount(e) \/ SyncCount(e)

Next ==
  \/ \E e \in Evals : Step(e) \/ Rollback(e) \/ LoseTasks(e)
  \/ \E p \in {"ALLOW", "DENY"} : MutatePolicy(p)
  \/ \E p \in {config.draft, config.policy} : EndMutation(p)
  \/ \E s \in Screens : ChangeSettings(s)
  \/ Tick
  \/ (NewWeek \/ RedisFails) /\ UNCHANGED <<evalVars, cache, idem, config>>
  \/ \E kept \in BOOLEAN : RedisReturnsWith(kept)

Spec == Init /\ [][Next]_vars

(* A handler that has begun goes on, and entries expire.  Nobody has to    *)
(* send a request.                                                         *)
FairSpec ==
  /\ Spec
  /\ WF_vars(Tick)
  /\ \A e \in Evals : WF_vars(eval[e].pc # "idle" /\ Step(e))

-------------------------------------------------------------------------------
(* Properties *)

(* A client that gets a decision - other than one replayed from the        *)
(* Idempotency-Key - has it in the audit log, however many evaluations     *)
(* run, wait for each other and roll back.                                 *)
AnsweredIsAudited ==
  \A e \in Evals : answer[e] \in Decisions /\ e \notin replayed => <<e, answer[e]>> \in audit

(* The usage of the agent, read and written back by every evaluation,      *)
(* counts those that have committed, none twice and none lost.             *)
UsageIsExact == org.usage = Cardinality(audit)

(* What the cache serves is the decision of an evaluation that committed,  *)
(* and never one that needs a human.                                       *)
CacheHoldsCommitted ==
  cache.decision # "none" =>
    cache.decision # "APPROVAL_REQUIRED" /\ \E e \in Evals : <<e, cache.decision>> \in audit

(* As long as Redis keeps the counter, a hard limit is never reached, let  *)
(* alone exceeded, in any week, with increments that are taken back in     *)
(* between and rows that were read before others committed.                *)
NeverOverLimit ==
  ~org.soft /\ Limit > 0 /\ ~redis.failed =>
    \A w \in 0..LastWeek : Cardinality({e \in Evals : admitted[e] = w}) < Limit

Current == Screened(config.policy, config.screen)

(* An entry that contradicts the configuration - set by an evaluation that *)
(* read the policies before a mutation committed, or never invalidated -   *)
(* does not stay.                                                          *)
StaleEntryEnds == []<>(cache.decision \in {"none", Current})

(* Every evaluation that begins ends, with its background tasks: each of   *)
(* those that wait for the organizations row gets it.                      *)
EvaluationsEnd == <>[](\A e \in Evals : eval[e].pc \in {"idle", "done"})

-------------------------------------------------------------------------------
(* What the repository says and the code does not keep *)

(* The limit is one of a week (infra/migrations/010_eval_week.sql): an     *)
(* evaluation is refused only when the week has admitted one before, where *)
(* the limit is at least two.                                              *)
WeekStartsAfresh ==
  [][\A e \in Evals : Limit >= 2 /\ answer'[e] = "refused" /\ answer[e] # "refused"
       => \E f \in Evals : admitted[f] = week]_vars
===============================================================================
