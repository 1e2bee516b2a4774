-------------------------- MODULE Evaluation_proofs --------------------------
(***************************************************************************)
(* Proofs about evaluations, for any set of them and any values of the     *)
(* limits.                                                                 *)
(*                                                                         *)
(* Usage is exact because an evaluation reads the usage only when it holds *)
(* the row lock (LockInv), which keeps everybody else from committing, so  *)
(* that what it has read is still true at its commit (SeenInv), and it is  *)
(* not in the audit log before (BeforeInv).                                *)
(*                                                                         *)
(* The limit is kept because the counter stands for every evaluation that  *)
(* was let through or has yet to take its increment back (QuotaInv), so    *)
(* that the one which finds it below the limit is not one too many.        *)
(***************************************************************************)
EXTENDS Evaluation, FiniteSetTheorems, TLAPS

Working == {"locked", "reading", "decided", "stored"}

Before == {"idle", "counting", "undoing", "admitted"} \cup Working

(* The row lock has one holder. *)
LockInv == \A e, f \in Evals : Holds(e) /\ Holds(f) => e = f

(* The usage is what its holder has read. *)
SeenInv == \A e \in Evals : eval[e].pc \in Working => eval[e].seen = org.usage

(* An evaluation that has not committed is not in the audit log ... *)
BeforeInv == \A e \in Evals, d \in Decisions : eval[e].pc \in Before => <<e, d>> \notin audit

(* ... and one that has is. *)
CommittedInv ==
  \A e \in Evals : eval[e].pc = "committed" => <<e, eval[e].decision>> \in audit

StepInv == LockInv /\ SeenInv /\ BeforeInv /\ CommittedInv

Promises == AnsweredIsAudited /\ UsageIsExact /\ CacheHoldsCommitted /\ IsFiniteSet(audit)

IInv == TypeOK /\ StepInv /\ Promises

-------------------------------------------------------------------------------
(* Types *)

(* The steps of an evaluation change its own record only. *)
Moves(e) ==
  /\ eval' \in [Evals -> EvalRecord]
  /\ \A f \in Evals \ {e} : eval'[f] = eval[f]

LEMMA WithoutType ==
  ASSUME NEW pc \in {"idle", "counting", "undoing", "admitted", "locked", "reading", "decided",
                     "stored", "committed", "cached", "syncing", "done"}
  PROVE  Without(pc) \in EvalRecord
BY DEF Without, EvalRecord, Decisions

LEMMA MovesTo ==
  ASSUME TypeOK, NEW e \in Evals, NEW r \in EvalRecord, eval' = [eval EXCEPT ![e] = r]
  PROVE  Moves(e) /\ eval'[e] = r
BY DEF Moves, TypeOK

LEMMA EndsMoves ==
  ASSUME TypeOK, NEW e \in Evals, Ends(e)
  PROVE  Moves(e) /\ eval'[e].pc = "done"
<1>1. Without("done") \in EvalRecord
  BY WithoutType
<1>2. Without("done").pc = "done"
  BY DEF Without
<1> QED
  BY <1>1, <1>2, MovesTo DEF Ends

LEMMA CountType ==
  ASSUME TypeOK, NEW db \in Int
  PROVE  /\ Increment(db) => counter' \in Int /\ redis' \in RedisState
         /\ NewCount(db) \in Int
<1>1. redis \in [up : BOOLEAN, seeded : BOOLEAN, failed : BOOLEAN] /\ counter \in Int
  BY DEF TypeOK, QuotaTypeOK, RedisState
<1>2. Incremented(db) \in Int
  BY <1>1 DEF Incremented
<1>3. NewCount(db) \in Int
  BY <1>2 DEF NewCount
<1>4. [redis EXCEPT !.seeded = TRUE] \in RedisState
  BY <1>1 DEF RedisState
<1> HIDE DEF Incremented
<1> QED
  BY <1>1, <1>2, <1>3, <1>4 DEF Increment, RedisState

LEMMA OrgType ==
  ASSUME TypeOK
  PROVE  /\ org.count \in Int /\ org.usage \in Nat /\ org.week \in 0..LastWeek
         /\ org.soft \in BOOLEAN
         /\ week \in 0..LastWeek
BY DEF TypeOK, QuotaTypeOK, OrgRow

-------------------------------------------------------------------------------
(* Where the steps of an evaluation lead *)

LEMMA BeginMoves ==
  ASSUME TypeOK, NEW e \in Evals, Begin(e)
  PROVE  Moves(e) /\ eval[e].pc = "idle" /\ eval'[e].pc \in {"counting", "done"}
<1>1. CASE Ends(e)
  BY <1>1, EndsMoves DEF Begin
<1>2. CASE eval' = [eval EXCEPT ![e].pc = "counting", ![e].seen = org.count]
  <2>1. eval \in [Evals -> EvalRecord] /\ org.count \in Int
    BY OrgType DEF TypeOK
  <2> DEFINE r == [eval[e] EXCEPT !.pc = "counting", !.seen = org.count]
  <2>2. r \in EvalRecord /\ r.pc = "counting"
    BY <2>1 DEF EvalRecord
  <2>3. eval' = [eval EXCEPT ![e] = r]
    BY <1>2, <2>1
  <2> HIDE DEF r
  <2> QED
    BY <2>2, <2>3, MovesTo DEF Begin
<1> QED
  BY <1>1, <1>2 DEF Begin

LEMMA AdmitMoves ==
  ASSUME TypeOK, NEW e \in Evals, NEW n \in Int, NEW reset \in BOOLEAN, Admit(e, n, reset)
  PROVE  Moves(e) /\ eval'[e].pc = "admitted" /\ eval'[e].reset = reset
<1> DEFINE r == [eval[e] EXCEPT !.pc = "admitted", !.n = n, !.reset = reset]
<1>1. eval \in [Evals -> EvalRecord]
  BY DEF TypeOK
<1>2. r \in EvalRecord /\ r.pc = "admitted" /\ r.reset = reset
  BY <1>1 DEF EvalRecord
<1>3. eval' = [eval EXCEPT ![e] = r]
  BY <1>1 DEF Admit
<1> HIDE DEF r
<1> QED
  BY <1>2, <1>3, MovesTo

LEMMA CountMoves ==
  ASSUME TypeOK, NEW e \in Evals, Count(e)
  PROVE  /\ Moves(e)
         /\ eval[e].pc = "counting"
         /\ eval'[e].pc \in {"undoing", "admitted", "done"}
         /\ eval'[e].pc # "done" /\ eval'[e].reset => LockFree
<1> DEFINE db == IF WeekIsOver THEN 0 ELSE eval[e].seen
           n == NewCount(db)
<1>1. db \in Int
  BY DEF TypeOK, EvalRecord
<1>2. n \in Int
  BY <1>1, CountType
<1>3. WeekIsOver \in BOOLEAN
  BY DEF WeekIsOver
<1>4. eval[e].pc = "counting" /\ (WeekIsOver => LockFree)
  BY DEF Count
<1>5. \/ eval' = [eval EXCEPT ![e].pc = "undoing", ![e].seen = db, ![e].reset = WeekIsOver]
      \/ Refuse(e)
      \/ Admit(e, n, WeekIsOver)
  BY DEF Count
<1> HIDE DEF db, n
<1>6. CASE eval' = [eval EXCEPT ![e].pc = "undoing", ![e].seen = db, ![e].reset = WeekIsOver]
  <2> DEFINE r == [eval[e] EXCEPT !.pc = "undoing", !.seen = db, !.reset = WeekIsOver]
  <2>1. eval \in [Evals -> EvalRecord]
    BY DEF TypeOK
  <2>2. r \in EvalRecord /\ r.pc = "undoing" /\ r.reset = WeekIsOver
    BY <1>1, <1>3, <2>1 DEF EvalRecord
  <2>3. eval' = [eval EXCEPT ![e] = r]
    BY <1>6, <2>1
  <2> HIDE DEF r
  <2> QED
    BY <1>4, <2>2, <2>3, MovesTo
<1>7. CASE Refuse(e)
  BY <1>4, <1>7, EndsMoves DEF Refuse
<1>8. CASE Admit(e, n, WeekIsOver)
  BY <1>2, <1>3, <1>4, <1>8, AdmitMoves
<1> QED
  BY <1>5, <1>6, <1>7, <1>8

LEMMA UndoMoves ==
  ASSUME TypeOK, NEW e \in Evals, Undo(e)
  PROVE  /\ Moves(e)
         /\ eval[e].pc = "undoing"
         /\ \/ eval'[e].pc = "done"
            \/ eval'[e].pc = "admitted" /\ eval'[e].reset = eval[e].reset
<1>1. eval[e].pc = "undoing"
  BY DEF Undo
<1>2. Refuse(e) \/ Admit(e, eval[e].seen, eval[e].reset)
  BY DEF Undo
<1>3. CASE Refuse(e)
  BY <1>1, <1>3, EndsMoves DEF Refuse
<1>4. CASE Admit(e, eval[e].seen, eval[e].reset)
  <2>1. eval[e].seen \in Int /\ eval[e].reset \in BOOLEAN
    BY DEF TypeOK, EvalRecord
  <2> QED
    BY <1>1, <1>4, <2>1, AdmitMoves
<1> QED
  BY <1>2, <1>3, <1>4

LEMMA LockOrgMoves ==
  ASSUME TypeOK, NEW e \in Evals, LockOrg(e)
  PROVE  /\ Moves(e)
         /\ eval[e].pc = "admitted" /\ eval'[e].pc = "locked"
         /\ eval'[e].seen = org.usage
         /\ Holds(e) \/ LockFree
<1> DEFINE r == [eval[e] EXCEPT !.pc = "locked", !.seen = org.usage]
<1>1. eval \in [Evals -> EvalRecord] /\ org.usage \in Int
  BY OrgType DEF TypeOK
<1>2. r \in EvalRecord /\ r.pc = "locked" /\ r.seen = org.usage
  BY <1>1 DEF EvalRecord, Decisions
<1>3. (Holds(e) \/ LockFree) /\ eval[e].pc = "admitted" /\ eval' = [eval EXCEPT ![e] = r]
  BY <1>1 DEF LockOrg
<1> HIDE DEF r
<1> QED
  BY <1>2, <1>3, MovesTo

LEMMA CacheHitMoves ==
  ASSUME TypeOK, NEW e \in Evals, CacheHit(e)
  PROVE  /\ Moves(e)
         /\ eval[e].pc = "locked" /\ eval'[e].pc = "decided"
         /\ eval'[e].seen = eval[e].seen
<1> DEFINE r == [eval[e] EXCEPT !.pc = "decided", !.decision = cache.decision, !.hit = TRUE]
<1>1. eval \in [Evals -> EvalRecord] /\ cache.decision \in Decisions
  BY DEF TypeOK, CacheHit
<1>2. r \in EvalRecord /\ r.pc = "decided" /\ r.seen = eval[e].seen
  BY <1>1 DEF EvalRecord, Decisions
<1>3. eval[e].pc = "locked" /\ eval' = [eval EXCEPT ![e] = r]
  BY <1>1 DEF CacheHit
<1> HIDE DEF r
<1> QED
  BY <1>2, <1>3, MovesTo

LEMMA ReadPoliciesMoves ==
  ASSUME TypeOK, NEW e \in Evals, ReadPolicies(e)
  PROVE  /\ Moves(e)
         /\ eval[e].pc = "locked" /\ eval'[e].pc = "reading"
         /\ eval'[e].seen = eval[e].seen
<1> DEFINE r == [eval[e] EXCEPT !.pc = "reading", !.raw = config.policy]
<1>1. eval \in [Evals -> EvalRecord] /\ config.policy \in {"ALLOW", "DENY"}
  BY DEF TypeOK, Config
<1>2. r \in EvalRecord /\ r.pc = "reading" /\ r.seen = eval[e].seen
  BY <1>1 DEF EvalRecord, Decisions
<1>3. eval[e].pc = "locked" /\ eval' = [eval EXCEPT ![e] = r]
  BY <1>1 DEF ReadPolicies
<1> HIDE DEF r
<1> QED
  BY <1>2, <1>3, MovesTo

LEMMA ScreenedType == \A raw, screen : Screened(raw, screen) \in Decisions
BY DEF Screened, Decisions

LEMMA ReadSettingsMoves ==
  ASSUME TypeOK, NEW e \in Evals, ReadSettings(e)
  PROVE  /\ Moves(e)
         /\ eval[e].pc = "reading" /\ eval'[e].pc = "decided"
         /\ eval'[e].seen = eval[e].seen
<1> DEFINE r == [eval[e] EXCEPT !.pc = "decided", !.raw = "DENY",
                                !.decision = Screened(eval[e].raw, config.screen)]
<1>1. eval \in [Evals -> EvalRecord] /\ Screened(eval[e].raw, config.screen) \in Decisions
  BY ScreenedType DEF TypeOK
<1>2. r \in EvalRecord /\ r.pc = "decided" /\ r.seen = eval[e].seen
  BY <1>1, ZenonT(30) DEF EvalRecord, Decisions
<1>3. eval[e].pc = "reading" /\ eval' = [eval EXCEPT ![e] = r]
  BY <1>1 DEF ReadSettings
<1> HIDE DEF r
<1> QED
  BY <1>2, <1>3, MovesTo

LEMMA StoreMoves ==
  ASSUME TypeOK, NEW e \in Evals, Store(e)
  PROVE  /\ Moves(e)
         /\ eval[e].pc = "decided" /\ eval'[e].pc = "stored"
         /\ eval'[e].seen = eval[e].seen
<1> DEFINE r == [eval[e] EXCEPT !.pc = "stored"]
<1>1. eval \in [Evals -> EvalRecord]
  BY DEF TypeOK
<1>2. r \in EvalRecord /\ r.pc = "stored" /\ r.seen = eval[e].seen
  BY <1>1 DEF EvalRecord, Decisions
<1>3. eval[e].pc = "decided" /\ eval' = [eval EXCEPT ![e] = r]
  BY <1>1 DEF Store
<1> HIDE DEF r
<1> QED
  BY <1>2, <1>3, MovesTo

LEMMA CommitMoves ==
  ASSUME TypeOK, NEW e \in Evals, Commit(e)
  PROVE  /\ Moves(e)
         /\ eval[e].pc = "stored" /\ eval'[e].pc = "committed"
         /\ eval'[e].decision = eval[e].decision
<1> DEFINE r == [Without("committed") EXCEPT !.decision = eval[e].decision, !.hit = eval[e].hit]
<1>1. /\ eval[e].decision \in Decisions /\ eval[e].hit \in BOOLEAN
      /\ Without("committed") \in EvalRecord /\ Without("committed").pc = "committed"
  BY WithoutType DEF TypeOK, EvalRecord, Without
<1>2. r \in EvalRecord /\ r.pc = "committed" /\ r.decision = eval[e].decision
  BY <1>1 DEF EvalRecord
<1>3. eval[e].pc = "stored" /\ eval' = [eval EXCEPT ![e] = r]
  BY DEF Commit
<1> HIDE DEF r
<1> QED
  BY <1>2, <1>3, MovesTo

LEMMA SetCachedMoves ==
  ASSUME TypeOK, NEW e \in Evals, SetCached(e)
  PROVE  Moves(e) /\ eval[e].pc = "committed" /\ eval'[e].pc = "cached"
<1>1. Without("cached") \in EvalRecord /\ Without("cached").pc = "cached"
  BY WithoutType DEF Without
<1> QED
  BY <1>1, MovesTo DEF SetCached

LEMMA ReadCountMoves ==
  ASSUME TypeOK, NEW e \in Evals, ReadCount(e)
  PROVE  /\ Moves(e)
         /\ eval[e].pc \in {"committed", "cached"} /\ eval'[e].pc \in {"syncing", "done"}
<1> DEFINE r == [Without("syncing") EXCEPT !.n = counter]
<1>1. /\ counter \in Int
      /\ Without("syncing") \in EvalRecord /\ Without("syncing").pc = "syncing"
  BY WithoutType DEF TypeOK, QuotaTypeOK, Without
<1>2. r \in EvalRecord /\ r.pc = "syncing"
  BY <1>1 DEF EvalRecord
<1>3. /\ eval[e].pc \in {"committed", "cached"}
      /\ eval' = [eval EXCEPT ![e] = r] \/ Ends(e)
  BY DEF ReadCount
<1> HIDE DEF r
<1> QED
  BY <1>2, <1>3, MovesTo, EndsMoves

-------------------------------------------------------------------------------
(* Type correctness *)

(* The steps of an evaluation that keep the quota, the audit log, the cache *)
(* and the configuration as they are.                                       *)
LEMMA LocalType ==
  ASSUME TypeOK, NEW e \in Evals, Moves(e),
         UNCHANGED <<quotaVars, answer, replayed, admitted, audit, cache, idem, config>>
  PROVE  TypeOK'
BY DEF Moves, TypeOK, QuotaTypeOK, quotaVars

LEMMA AnswerType ==
  ASSUME TypeOK, NEW e \in Evals,
         NEW a \in Decisions \cup {"none", "refused", "error"}, Answered(e, a)
  PROVE  answer' \in [Evals -> Decisions \cup {"none", "refused", "error"}]
BY DEF TypeOK, Answered

LEMMA RefuseType ==
  ASSUME TypeOK, NEW e \in Evals, Refuse(e)
  PROVE  /\ answer' \in [Evals -> Decisions \cup {"none", "refused", "error"}]
         /\ admitted' \in [Evals -> {NoWeek} \cup 0..LastWeek]
BY AnswerType DEF Refuse, TypeOK

LEMMA AdmitType ==
  ASSUME TypeOK, NEW e \in Evals, NEW n, NEW reset, Admit(e, n, reset)
  PROVE  /\ answer' \in [Evals -> Decisions \cup {"none", "refused", "error"}]
         /\ admitted' \in [Evals -> {NoWeek} \cup 0..LastWeek]
BY OrgType DEF Admit, TypeOK

LEMMA BeginType ==
  ASSUME TypeOK, NEW e \in Evals, Begin(e)
  PROVE  TypeOK'
<1>1. eval' \in [Evals -> EvalRecord]
  BY BeginMoves DEF Moves
<1>2. QuotaTypeOK' /\ UNCHANGED <<admitted, audit, cache, idem, config>>
  BY DEF Begin, quotaVars, TypeOK, QuotaTypeOK
<1>3. CASE Answered(e, idem) /\ idem # "none" /\ e \in Keyed /\ replayed' = replayed \cup {e}
  BY <1>1, <1>2, <1>3, AnswerType DEF TypeOK
<1>4. CASE UNCHANGED <<answer, replayed>>
  BY <1>1, <1>2, <1>4 DEF TypeOK
<1> QED
  BY <1>3, <1>4 DEF Begin

LEMMA CountActionType ==
  ASSUME TypeOK, NEW e \in Evals, Count(e)
  PROVE  TypeOK'
<1> DEFINE db == IF WeekIsOver THEN 0 ELSE eval[e].seen
           n == NewCount(db)
<1>1. db \in Int
  BY DEF TypeOK, EvalRecord
<1>2. eval' \in [Evals -> EvalRecord]
  BY CountMoves DEF Moves
<1>3. /\ Increment(db)
      /\ UNCHANGED <<answer, admitted>> \/ Refuse(e) \/ Admit(e, n, WeekIsOver)
      /\ UNCHANGED <<week, org, replayed, audit, cache, idem, config>>
  BY DEF Count
<1> HIDE DEF db, n
<1>4. counter' \in Int /\ redis' \in RedisState
  BY <1>1, <1>3, CountType
<1>5. /\ answer' \in [Evals -> Decisions \cup {"none", "refused", "error"}]
      /\ admitted' \in [Evals -> {NoWeek} \cup 0..LastWeek]
  BY <1>3, RefuseType, AdmitType DEF TypeOK
<1> QED
  BY <1>2, <1>3, <1>4, <1>5 DEF TypeOK, QuotaTypeOK

LEMMA UndoType ==
  ASSUME TypeOK, NEW e \in Evals, Undo(e)
  PROVE  TypeOK'
<1>1. eval' \in [Evals -> EvalRecord]
  BY UndoMoves DEF Moves
<1>2. counter \in Int /\ redis \in RedisState
  BY DEF TypeOK, QuotaTypeOK
<1> DEFINE r == [redis EXCEPT !.seeded = TRUE]
<1>3. r \in RedisState
  BY <1>2 DEF RedisState
<1>4. counter' \in Int /\ redis' \in RedisState
  <2>1. \/ counter' = counter - 1 /\ redis' = r
        \/ UNCHANGED <<counter, redis>>
    BY DEF Undo
  <2> HIDE DEF r
  <2> QED
    BY <1>2, <1>3, <2>1
<1>5. /\ answer' \in [Evals -> Decisions \cup {"none", "refused", "error"}]
      /\ admitted' \in [Evals -> {NoWeek} \cup 0..LastWeek]
  BY RefuseType, AdmitType DEF Undo
<1>6. UNCHANGED <<week, org, replayed, audit, cache, idem, config>>
  BY DEF Undo
<1> QED
  BY <1>1, <1>4, <1>5, <1>6 DEF TypeOK, QuotaTypeOK

LEMMA StoreType ==
  ASSUME TypeOK, NEW e \in Evals, Store(e)
  PROVE  TypeOK'
<1>1. eval' \in [Evals -> EvalRecord]
  BY StoreMoves DEF Moves
<1>2. eval[e].decision \in Decisions
  BY DEF TypeOK, EvalRecord
<1> QED
  BY <1>1, <1>2 DEF Store, TypeOK, QuotaTypeOK, quotaVars

LEMMA CommitType ==
  ASSUME TypeOK, SeenInv, NEW e \in Evals, Commit(e)
  PROVE  TypeOK' /\ org'.usage = org.usage + 1 /\ audit' = audit \cup {<<e, eval[e].decision>>}
<1>1. eval' \in [Evals -> EvalRecord]
  BY CommitMoves DEF Moves
<1>2. /\ eval[e].decision \in Decisions /\ eval[e].n \in Int /\ eval[e].reset \in BOOLEAN
      /\ eval[e].seen = org.usage
  BY DEF TypeOK, EvalRecord, Commit, SeenInv, Working
<1>3. org'.usage = org.usage + 1 /\ org' \in OrgRow
  <2>1. org \in OrgRow /\ week \in 0..LastWeek /\ org.usage + 1 \in Nat
    BY OrgType DEF TypeOK, QuotaTypeOK
  <2> DEFINE w == IF eval[e].reset THEN week ELSE org.week
  <2>2. org' = [org EXCEPT !.count = eval[e].n, !.usage = org.usage + 1,
                           !.week = w]
    BY <1>2 DEF Commit
  <2>3. w \in 0..LastWeek
    BY <2>1 DEF OrgRow
  <2> HIDE DEF w
  <2> QED
    BY <1>2, <2>1, <2>2, <2>3 DEF OrgRow
<1>4. answer' \in [Evals -> Decisions \cup {"none", "refused", "error"}]
  BY <1>2, AnswerType DEF Commit
<1>5. /\ audit' = audit \cup {<<e, eval[e].decision>>}
      /\ UNCHANGED <<week, counter, redis, replayed, admitted, cache, idem, config>>
  BY DEF Commit
<1> QED
  BY <1>1, <1>2, <1>3, <1>4, <1>5 DEF TypeOK, QuotaTypeOK

LEMMA SetCachedType ==
  ASSUME TypeOK, NEW e \in Evals, SetCached(e)
  PROVE  TypeOK'
<1>1. eval' \in [Evals -> EvalRecord]
  BY SetCachedMoves DEF Moves
<1>2. eval[e].decision \in Decisions /\ Ttl \in 0..Ttl
  BY EvaluationAssumption DEF TypeOK, EvalRecord
<1>3. cache' \in [decision : Decisions \cup {"none"}, left : 0..Ttl]
  BY <1>2 DEF SetCached, TypeOK
<1> QED
  BY <1>1, <1>3 DEF SetCached, TypeOK, QuotaTypeOK, quotaVars

LEMMA SyncCountType ==
  ASSUME TypeOK, NEW e \in Evals, SyncCount(e)
  PROVE  TypeOK' /\ org'.usage = org.usage
<1>1. eval' \in [Evals -> EvalRecord]
  BY EndsMoves DEF SyncCount, Moves
<1>2. eval[e].n \in Int
  BY DEF TypeOK, EvalRecord
<1>3. org' \in OrgRow /\ org'.usage = org.usage
  BY <1>2 DEF SyncCount, TypeOK, QuotaTypeOK, OrgRow
<1> QED
  BY <1>1, <1>3 DEF SyncCount, TypeOK, QuotaTypeOK

LEMMA NoEntryType == NoEntry \in [decision : Decisions \cup {"none"}, left : 0..Ttl]
BY EvaluationAssumption DEF NoEntry

LEMMA TickType ==
  ASSUME TypeOK
  PROVE  Expired \in [decision : Decisions \cup {"none"}, left : 0..Ttl]
<1>1. cache \in [decision : Decisions \cup {"none"}, left : 0..Ttl] /\ Ttl \in Nat
  BY EvaluationAssumption DEF TypeOK
<1>2. cache.left > 1 => cache.left - 1 \in 0..Ttl
  BY <1>1
<1> QED
  BY <1>1, <1>2, NoEntryType DEF Expired

LEMMA RedisType ==
  ASSUME TypeOK, NEW kept \in BOOLEAN, RedisReturns(kept)
  PROVE  counter' \in Int /\ redis' \in RedisState /\ UNCHANGED <<week, org>>
<1>1. counter \in Int /\ redis \in RedisState
  BY DEF TypeOK, QuotaTypeOK
<1> DEFINE r == [redis EXCEPT !.up = TRUE, !.seeded = redis.seeded /\ kept]
<1>2. r \in RedisState
  BY <1>1 DEF RedisState
<1>3. redis' = r /\ counter' \in Int /\ UNCHANGED <<week, org>>
  BY <1>1 DEF RedisReturns
<1> QED
  BY <1>2, <1>3

LEMMA ConfigType ==
  ASSUME TypeOK
  PROVE  /\ \A p \in {"ALLOW", "DENY"} : MutatePolicy(p) => TypeOK'
         /\ \A p \in {config.draft, config.policy} : EndMutation(p) => TypeOK'
         /\ \A s \in Screens : ChangeSettings(s) => TypeOK'
<1>1. /\ config \in [policy : {"ALLOW", "DENY"}, draft : {"ALLOW", "DENY", "none"},
                    screen : Screens, left : 0..Changes]
      /\ Changes \in Nat
  BY EvaluationAssumption DEF TypeOK, Config
<1>2. config.left > 0 => config.left - 1 \in 0..Changes
  BY <1>1
<1>3. ASSUME NEW p \in {"ALLOW", "DENY"}, MutatePolicy(p)
      PROVE  TypeOK'
  <2>1. config' \in Config
    BY <1>1, <1>2, <1>3 DEF MutatePolicy, Config
  <2> QED
    BY <1>3, <2>1, NoEntryType DEF MutatePolicy, TypeOK, QuotaTypeOK, quotaVars, evalVars
<1>4. ASSUME NEW p \in {config.draft, config.policy}, EndMutation(p)
      PROVE  TypeOK'
  <2>1. config' \in Config
    BY <1>1, <1>4 DEF EndMutation, Config
  <2> QED
    BY <1>4, <2>1 DEF EndMutation, TypeOK, QuotaTypeOK, quotaVars, evalVars
<1>5. ASSUME NEW s \in Screens, ChangeSettings(s)
      PROVE  TypeOK'
  <2>1. config' \in Config
    BY <1>1, <1>2, <1>5 DEF ChangeSettings, Config
  <2> QED
    BY <1>5, <2>1 DEF ChangeSettings, TypeOK, QuotaTypeOK, quotaVars, evalVars
<1> QED
  BY <1>3, <1>4, <1>5

-------------------------------------------------------------------------------
(* The lock and the audit log *)

(* A step of an evaluation that does not commit. *)
LEMMA Uncommitted ==
  ASSUME TypeOK, StepInv, NEW e \in Evals, Moves(e),
         UNCHANGED audit, org'.usage = org.usage,
         Holds(e)' => Holds(e) \/ LockFree,
         eval'[e].pc \in Before => eval[e].pc \in Before,
         eval'[e].pc \in Working => eval'[e].seen = org.usage,
         eval'[e].pc # "committed"
  PROVE  StepInv'
<1>1. \A f \in Evals \ {e} : eval'[f] = eval[f] /\ (Holds(f)' <=> Holds(f))
  BY DEF Moves, Holds
<1>2. LockInv'
  <2> SUFFICES ASSUME NEW f \in Evals, NEW g \in Evals, Holds(f)', Holds(g)'
               PROVE  f = g
    BY DEF LockInv
  <2> QED
    BY <1>1 DEF StepInv, LockInv, LockFree
<1>3. SeenInv'
  BY <1>1 DEF StepInv, SeenInv
<1>4. BeforeInv'
  BY <1>1 DEF StepInv, BeforeInv
<1>5. CommittedInv'
  BY <1>1 DEF StepInv, CommittedInv
<1> QED
  BY <1>2, <1>3, <1>4, <1>5 DEF StepInv

(* A step that leaves the evaluations alone. *)
LEMMA Elsewhere ==
  ASSUME StepInv, UNCHANGED <<eval, audit>>, org'.usage = org.usage
  PROVE  StepInv'
BY DEF StepInv, LockInv, SeenInv, BeforeInv, CommittedInv, Holds

LEMMA CommitStep ==
  ASSUME TypeOK, StepInv, UsageIsExact, IsFiniteSet(audit), NEW e \in Evals, Commit(e)
  PROVE  StepInv' /\ UsageIsExact' /\ IsFiniteSet(audit')
<1> DEFINE event == <<e, eval[e].decision>>
<1>1. /\ org'.usage = org.usage + 1 /\ audit' = audit \cup {event}
      /\ eval[e].decision \in Decisions
  BY CommitType DEF StepInv, TypeOK, EvalRecord
<1>2. /\ Moves(e) /\ eval[e].pc = "stored"
      /\ eval'[e].pc = "committed" /\ eval'[e].decision = eval[e].decision
  BY CommitMoves
<1>3. event \notin audit
  BY <1>1, <1>2 DEF StepInv, BeforeInv, Before, Working
<1>4. \A f \in Evals \ {e} : eval'[f] = eval[f] /\ (Holds(f)' <=> Holds(f))
  BY <1>2 DEF Moves, Holds
<1>5. Holds(e) /\ ~Holds(e)'
  BY <1>2 DEF Holds
<1>6. \A f \in Evals : eval[f].pc \in Working => Holds(f)
  BY DEF Holds, Working
<1>7. LockInv'
  <2> SUFFICES ASSUME NEW f \in Evals, NEW g \in Evals, Holds(f)', Holds(g)'
               PROVE  f = g
    BY DEF LockInv
  <2> QED
    BY <1>4, <1>5 DEF StepInv, LockInv
<1>8. SeenInv'
  BY <1>2, <1>4, <1>5, <1>6 DEF StepInv, LockInv, SeenInv, Working
<1>9. BeforeInv'
  BY <1>1, <1>2, <1>4 DEF StepInv, BeforeInv, Before, Working
<1>10. CommittedInv'
  BY <1>1, <1>2, <1>4 DEF StepInv, CommittedInv
<1>11. IsFiniteSet(audit') /\ Cardinality(audit') = Cardinality(audit) + 1
  BY <1>1, <1>3, FS_AddElement
<1>12. UsageIsExact'
  BY <1>1, <1>11 DEF UsageIsExact
<1> QED
  BY <1>7, <1>8, <1>9, <1>10, <1>11, <1>12 DEF StepInv

-------------------------------------------------------------------------------
(* What the steps do to the promises *)

(* A step that answers nobody with a decision and caches nothing. *)
LEMMA PromisesKept ==
  ASSUME TypeOK, Promises, UNCHANGED audit, org'.usage = org.usage,
         cache' \in {cache, NoEntry, Expired},
         \A e \in Evals : answer'[e] \in Decisions /\ e \notin replayed' =>
                          answer'[e] = answer[e] /\ e \notin replayed
  PROVE  Promises'
<1>1. AnsweredIsAudited'
  BY DEF Promises, AnsweredIsAudited
<1>2. UsageIsExact' /\ IsFiniteSet(audit')
  BY DEF Promises, UsageIsExact
<1>3. cache'.decision \in {cache.decision, "none"}
  <2>1. NoEntry.decision = "none"
    BY DEF NoEntry
  <2>2. [cache EXCEPT !.left = cache.left - 1].decision = cache.decision
    BY DEF TypeOK
  <2>3. Expired.decision \in {cache.decision, "none"}
    BY <2>1, <2>2 DEF Expired
  <2> QED
    BY <2>1, <2>3
<1>4. CacheHoldsCommitted'
  BY <1>3 DEF Promises, CacheHoldsCommitted
<1> QED
  BY <1>1, <1>2, <1>4 DEF Promises

LEMMA StoredAnswers ==
  ASSUME TypeOK, NEW e \in Evals, NEW a, a \notin Decisions, Answered(e, a),
         UNCHANGED replayed
  PROVE  \A f \in Evals : answer'[f] \in Decisions /\ f \notin replayed' =>
                          answer'[f] = answer[f] /\ f \notin replayed
BY DEF TypeOK, Answered

(* A step that changes nothing outside the record of its evaluation. *)
LEMMA LocalStep ==
  ASSUME IInv, NEW e \in Evals, Moves(e),
         UNCHANGED <<quotaVars, answer, replayed, admitted, audit, cache, idem, config>>,
         Holds(e)' => Holds(e) \/ LockFree,
         eval'[e].pc \in Before => eval[e].pc \in Before,
         eval'[e].pc \in Working => eval'[e].seen = org.usage,
         eval'[e].pc # "committed"
  PROVE  IInv'
<1>1. TypeOK'
  BY LocalType DEF IInv
<1>2. UNCHANGED <<answer, replayed, audit, cache>> /\ org'.usage = org.usage
  BY DEF quotaVars
<1>3. StepInv'
  BY <1>2, Uncommitted DEF IInv
<1>4. Promises'
  BY <1>2, PromisesKept DEF IInv
<1> QED
  BY <1>1, <1>3, <1>4 DEF IInv

LEMMA WorkingHolds ==
  ASSUME NEW e \in Evals, eval[e].pc \in Working
  PROVE  Holds(e) /\ (StepInv => eval[e].seen = org.usage)
BY DEF Working, Holds, StepInv, SeenInv

LEMMA LocalSteps ==
  ASSUME IInv, NEW e \in Evals,
         \/ LockOrg(e) \/ CacheHit(e) \/ ReadPolicies(e) \/ ReadSettings(e)
         \/ ReadCount(e) \/ LoseTasks(e)
  PROVE  IInv'
<1>1. CASE LockOrg(e)
  <2>1. UNCHANGED <<quotaVars, answer, replayed, admitted, audit, cache, idem, config>>
    BY <1>1 DEF LockOrg
  <2> QED
    BY <1>1, <2>1, LockOrgMoves, LocalStep DEF IInv, Before, Working
<1>2. CASE CacheHit(e)
  <2>1. UNCHANGED <<quotaVars, answer, replayed, admitted, audit, cache, idem, config>>
    BY <1>2 DEF CacheHit
  <2> QED
    BY <1>2, <2>1, CacheHitMoves, WorkingHolds, LocalStep DEF IInv, Before, Working
<1>3. CASE ReadPolicies(e)
  <2>1. UNCHANGED <<quotaVars, answer, replayed, admitted, audit, cache, idem, config>>
    BY <1>3 DEF ReadPolicies
  <2> QED
    BY <1>3, <2>1, ReadPoliciesMoves, WorkingHolds, LocalStep DEF IInv, Before, Working
<1>4. CASE ReadSettings(e)
  <2>1. UNCHANGED <<quotaVars, answer, replayed, admitted, audit, cache, idem, config>>
    BY <1>4 DEF ReadSettings
  <2> QED
    BY <1>4, <2>1, ReadSettingsMoves, WorkingHolds, LocalStep DEF IInv, Before, Working
<1>5. CASE ReadCount(e)
  <2>1. UNCHANGED <<quotaVars, answer, replayed, admitted, audit, cache, idem, config>>
    BY <1>5 DEF ReadCount
  <2>2. ~Holds(e)'
    BY <1>5, ReadCountMoves DEF IInv, Holds
  <2> QED
    BY <1>5, <2>1, <2>2, ReadCountMoves, LocalStep DEF IInv, Before, Working
<1>6. CASE LoseTasks(e)
  <2>1. UNCHANGED <<quotaVars, answer, replayed, admitted, audit, cache, idem, config>>
    BY <1>6 DEF LoseTasks
  <2>2. Moves(e) /\ eval'[e].pc = "done"
    BY <1>6, EndsMoves DEF IInv, LoseTasks
  <2>3. ~Holds(e)'
    BY <2>2 DEF Holds
  <2> QED
    BY <2>1, <2>2, <2>3, LocalStep DEF Before, Working
<1> QED
  BY <1>1, <1>2, <1>3, <1>4, <1>5, <1>6

LEMMA BeginStep ==
  ASSUME IInv, NEW e \in Evals, Begin(e)
  PROVE  IInv'
<1>1. TypeOK'
  BY BeginType DEF IInv
<1>2. Moves(e) /\ eval[e].pc = "idle" /\ eval'[e].pc \in {"counting", "done"}
  BY BeginMoves DEF IInv
<1>3. UNCHANGED <<audit, cache>> /\ org'.usage = org.usage
  BY DEF Begin, quotaVars
<1>4. ~Holds(e)'
  BY <1>2 DEF Holds
<1>5. StepInv'
  BY <1>2, <1>3, <1>4, Uncommitted DEF IInv, Before, Working
<1>6. \A f \in Evals : answer'[f] \in Decisions /\ f \notin replayed' =>
                       answer'[f] = answer[f] /\ f \notin replayed
  BY DEF Begin, Answered, IInv, TypeOK
<1>7. Promises'
  BY <1>3, <1>6, PromisesKept DEF IInv
<1> QED
  BY <1>1, <1>5, <1>7 DEF IInv

LEMMA RefuseOrAdmit ==
  ASSUME TypeOK, NEW e \in Evals, NEW n, NEW reset, UNCHANGED replayed,
         Refuse(e) \/ Admit(e, n, reset) \/ UNCHANGED answer
  PROVE  \A f \in Evals : answer'[f] \in Decisions /\ f \notin replayed' =>
                          answer'[f] = answer[f] /\ f \notin replayed
<1>1. "refused" \notin Decisions
  BY DEF Decisions
<1> QED
  BY <1>1, StoredAnswers DEF Refuse, Admit

LEMMA CountStep ==
  ASSUME IInv, NEW e \in Evals, Count(e)
  PROVE  IInv'
<1>1. TypeOK'
  BY CountActionType DEF IInv
<1>2. /\ Moves(e) /\ eval[e].pc = "counting"
      /\ eval'[e].pc \in {"undoing", "admitted", "done"}
      /\ eval'[e].pc # "done" /\ eval'[e].reset => LockFree
  BY CountMoves DEF IInv
<1>3. UNCHANGED <<replayed, audit, cache>> /\ org'.usage = org.usage
  BY DEF Count
<1>4. Holds(e)' => LockFree
  BY <1>2 DEF Holds
<1>5. StepInv'
  BY <1>2, <1>3, <1>4, Uncommitted DEF IInv, Before, Working
<1>6. \/ Refuse(e)
      \/ \E n, reset : Admit(e, n, reset)
      \/ UNCHANGED answer
  BY DEF Count
<1>7. Promises'
  BY <1>3, <1>6, RefuseOrAdmit, PromisesKept DEF IInv
<1> QED
  BY <1>1, <1>5, <1>7 DEF IInv

LEMMA UndoStep ==
  ASSUME IInv, NEW e \in Evals, Undo(e)
  PROVE  IInv'
<1>1. TypeOK'
  BY UndoType DEF IInv
<1>2. /\ Moves(e) /\ eval[e].pc = "undoing"
      /\ \/ eval'[e].pc = "done"
         \/ eval'[e].pc = "admitted" /\ eval'[e].reset = eval[e].reset
  BY UndoMoves DEF IInv
<1>3. UNCHANGED <<replayed, audit, cache>> /\ org'.usage = org.usage
  BY DEF Undo
<1>4. Holds(e)' => Holds(e)
  BY <1>2 DEF Holds
<1>5. StepInv'
  BY <1>2, <1>3, <1>4, Uncommitted DEF IInv, Before, Working
<1>6. Refuse(e) \/ \E n, reset : Admit(e, n, reset)
  BY DEF Undo
<1>7. Promises'
  BY <1>3, <1>6, RefuseOrAdmit, PromisesKept DEF IInv
<1> QED
  BY <1>1, <1>5, <1>7 DEF IInv

LEMMA StoreStep ==
  ASSUME IInv, NEW e \in Evals, Store(e)
  PROVE  IInv'
<1>1. TypeOK'
  BY StoreType DEF IInv
<1>2. /\ Moves(e) /\ eval[e].pc = "decided" /\ eval'[e].pc = "stored"
      /\ eval'[e].seen = eval[e].seen
  BY StoreMoves DEF IInv
<1>3. UNCHANGED <<answer, replayed, audit, cache>> /\ org'.usage = org.usage
  BY DEF Store, quotaVars
<1>4. Holds(e) /\ eval[e].seen = org.usage
  BY <1>2, WorkingHolds DEF Working, IInv
<1>5. StepInv'
  BY <1>2, <1>3, <1>4, Uncommitted DEF IInv, Before, Working
<1>6. Promises'
  BY <1>3, PromisesKept DEF IInv
<1> QED
  BY <1>1, <1>5, <1>6 DEF IInv

(* The answer is sent with the commit of its audit event. *)
LEMMA CommitKeeps ==
  ASSUME IInv, NEW e \in Evals, Commit(e)
  PROVE  IInv'
<1>1. /\ TypeOK' /\ audit' = audit \cup {<<e, eval[e].decision>>}
  BY CommitType DEF IInv, StepInv
<1>2. StepInv' /\ UsageIsExact' /\ IsFiniteSet(audit')
  BY CommitStep DEF IInv, Promises
<1>3. UNCHANGED <<replayed, cache>> /\ answer' = [answer EXCEPT ![e] = eval[e].decision]
  BY DEF Commit, Answered
<1>4. AnsweredIsAudited'
  BY <1>1, <1>3 DEF IInv, TypeOK, Promises, AnsweredIsAudited
<1>5. CacheHoldsCommitted'
  BY <1>1, <1>3 DEF IInv, Promises, CacheHoldsCommitted
<1> QED
  BY <1>1, <1>2, <1>4, <1>5 DEF IInv, Promises

LEMMA RollbackStep ==
  ASSUME IInv, NEW e \in Evals, Rollback(e)
  PROVE  IInv'
<1>1. Moves(e) /\ eval'[e].pc = "done"
  BY EndsMoves DEF Rollback, IInv
<1>2. /\ UNCHANGED <<quotaVars, replayed, admitted, audit, cache, idem, config>>
      /\ org'.usage = org.usage /\ Answered(e, "error")
  BY DEF Rollback, quotaVars
<1>3. answer' \in [Evals -> Decisions \cup {"none", "refused", "error"}]
  BY <1>2, AnswerType DEF IInv
<1>4. TypeOK'
  BY <1>1, <1>2, <1>3 DEF IInv, Moves, TypeOK, QuotaTypeOK, quotaVars
<1>5. ~Holds(e)'
  BY <1>1 DEF Holds
<1>6. StepInv'
  BY <1>1, <1>2, <1>5, Uncommitted DEF IInv, Before, Working
<1>7. "error" \notin Decisions
  BY DEF Decisions
<1>8. Promises'
  BY <1>2, <1>7, StoredAnswers, PromisesKept DEF IInv
<1> QED
  BY <1>4, <1>6, <1>8 DEF IInv

(* Only the decision of an evaluation that has committed is cached. *)
LEMMA SetCachedStep ==
  ASSUME IInv, NEW e \in Evals, SetCached(e)
  PROVE  IInv'
<1>1. TypeOK'
  BY SetCachedType DEF IInv
<1>2. Moves(e) /\ eval[e].pc = "committed" /\ eval'[e].pc = "cached"
  BY SetCachedMoves DEF IInv
<1>3. UNCHANGED <<answer, replayed, audit>> /\ org' = org
  BY DEF SetCached, quotaVars
<1>4. ~Holds(e)'
  BY <1>2 DEF Holds
<1>5. StepInv'
  BY <1>2, <1>3, <1>4, Uncommitted DEF IInv, Before, Working
<1>6. <<e, eval[e].decision>> \in audit
  BY <1>2 DEF IInv, StepInv, CommittedInv
<1>7. CacheHoldsCommitted'
  BY <1>3, <1>6 DEF SetCached, IInv, Promises, CacheHoldsCommitted
<1>8. AnsweredIsAudited' /\ UsageIsExact' /\ IsFiniteSet(audit')
  BY <1>3 DEF IInv, Promises, AnsweredIsAudited, UsageIsExact
<1> QED
  BY <1>1, <1>5, <1>7, <1>8 DEF IInv, Promises

LEMMA SyncCountStep ==
  ASSUME IInv, NEW e \in Evals, SyncCount(e)
  PROVE  IInv'
<1>1. TypeOK' /\ org'.usage = org.usage
  BY SyncCountType DEF IInv
<1>2. Moves(e) /\ eval'[e].pc = "done"
  BY EndsMoves DEF SyncCount, IInv
<1>3. UNCHANGED <<answer, replayed, audit, cache>>
  BY DEF SyncCount
<1>4. ~Holds(e)'
  BY <1>2 DEF Holds
<1>5. StepInv'
  BY <1>1, <1>2, <1>3, <1>4, Uncommitted DEF IInv, Before, Working
<1>6. Promises'
  BY <1>1, <1>3, PromisesKept DEF IInv
<1> QED
  BY <1>1, <1>5, <1>6 DEF IInv

(* A step of the configuration, of Redis or of time. *)
LEMMA OutsideStep ==
  ASSUME IInv, TypeOK', UNCHANGED evalVars, org'.usage = org.usage,
         cache' \in {cache, NoEntry, Expired}
  PROVE  IInv'
<1>1. UNCHANGED <<eval, answer, replayed, audit>>
  BY DEF evalVars
<1>2. StepInv'
  BY <1>1, Elsewhere DEF IInv
<1>3. Promises'
  BY <1>1, PromisesKept DEF IInv
<1> QED
  BY <1>2, <1>3 DEF IInv

LEMMA OutsideSteps ==
  ASSUME IInv,
         \/ \E p \in {"ALLOW", "DENY"} : MutatePolicy(p)
         \/ \E p \in {config.draft, config.policy} : EndMutation(p)
         \/ \E s \in Screens : ChangeSettings(s)
         \/ Tick
         \/ (NewWeek \/ RedisFails) /\ UNCHANGED <<evalVars, cache, idem, config>>
         \/ \E kept \in BOOLEAN : RedisReturnsWith(kept)
  PROVE  IInv'
<1>1. CASE \E p \in {"ALLOW", "DENY"} : MutatePolicy(p)
  BY <1>1, ConfigType, OutsideStep DEF IInv, MutatePolicy, quotaVars
<1>2. CASE \E p \in {config.draft, config.policy} : EndMutation(p)
  BY <1>2, ConfigType, OutsideStep DEF IInv, EndMutation, quotaVars
<1>3. CASE \E s \in Screens : ChangeSettings(s)
  BY <1>3, ConfigType, OutsideStep DEF IInv, ChangeSettings, quotaVars
<1>4. CASE Tick
  <2>1. TypeOK'
    BY <1>4, TickType DEF Tick, IInv, TypeOK, QuotaTypeOK, quotaVars, evalVars
  <2> QED
    BY <1>4, <2>1, OutsideStep DEF Tick, quotaVars
<1>5. CASE NewWeek /\ UNCHANGED <<evalVars, cache, idem, config>>
  <2>1. week' \in 0..LastWeek
    BY <1>5, QuotaAssumption DEF NewWeek, IInv, TypeOK, QuotaTypeOK
  <2>2. TypeOK'
    BY <1>5, <2>1 DEF NewWeek, IInv, TypeOK, QuotaTypeOK, evalVars
  <2> QED
    BY <1>5, <2>2, OutsideStep DEF NewWeek
<1>6. CASE RedisFails /\ UNCHANGED <<evalVars, cache, idem, config>>
  <2>1. redis \in RedisState
    BY DEF IInv, TypeOK, QuotaTypeOK
  <2>2. [redis EXCEPT !.up = FALSE, !.failed = TRUE] \in RedisState
    BY <2>1 DEF RedisState
  <2>3. TypeOK'
    BY <1>6, <2>2 DEF RedisFails, IInv, TypeOK, QuotaTypeOK, evalVars
  <2> QED
    BY <1>6, <2>3, OutsideStep DEF RedisFails
<1>7. CASE \E kept \in BOOLEAN : RedisReturnsWith(kept)
  <2> PICK kept \in BOOLEAN : RedisReturnsWith(kept)
    BY <1>7
  <2>1. counter' \in Int /\ redis' \in RedisState /\ UNCHANGED <<week, org>>
    BY RedisType DEF IInv, RedisReturnsWith
  <2>2. cache' \in {cache, NoEntry} /\ idem' \in {idem, "none"} /\ UNCHANGED <<evalVars, config>>
    BY DEF RedisReturnsWith
  <2>3. TypeOK'
    BY <2>1, <2>2, NoEntryType DEF IInv, TypeOK, QuotaTypeOK, evalVars
  <2> QED
    BY <2>1, <2>2, <2>3, OutsideStep
<1> QED
  BY <1>1, <1>2, <1>3, <1>4, <1>5, <1>6, <1>7

-------------------------------------------------------------------------------
(* The theorems *)

LEMMA Initially == Init => IInv
<1> SUFFICES ASSUME Init
             PROVE  IInv
  OBVIOUS
<1>1. QuotaTypeOK
  <2>1. PICK soft \in BOOLEAN, used \in {0, Used} :
          org = [count |-> used, week |-> 0, soft |-> soft, usage |-> 0]
    BY DEF Init, QuotaInit
  <2>2. used \in Int /\ 0 \in 0..LastWeek
    BY QuotaAssumption
  <2>3. org \in OrgRow
    BY <2>1, <2>2 DEF OrgRow
  <2> QED
    BY <2>2, <2>3 DEF Init, QuotaInit, QuotaTypeOK, RedisState
<1>2. config \in Config
  <2>1. Changes \in 0..Changes
    BY EvaluationAssumption
  <2> QED
    BY <2>1 DEF Init, Config, Screens
<1>3. TypeOK
  BY <1>1, <1>2, WithoutType, NoEntryType DEF Init, TypeOK
<1>4. StepInv
  BY DEF Init, Without, StepInv, LockInv, SeenInv, BeforeInv, CommittedInv, Holds, Working
<1>5. org.usage = 0
  BY DEF Init, QuotaInit
<1>6. Promises
  BY <1>5, FS_EmptySet DEF Init, NoEntry, Promises, AnsweredIsAudited, UsageIsExact,
       CacheHoldsCommitted, Decisions
<1> QED
  BY <1>3, <1>4, <1>6 DEF IInv

LEMMA Inductive == IInv /\ [Next]_vars => IInv'
<1> SUFFICES ASSUME IInv, [Next]_vars
             PROVE  IInv'
  OBVIOUS
<1>1. CASE UNCHANGED vars
  <2>1. UNCHANGED evalVars /\ org'.usage = org.usage /\ cache' = cache /\ TypeOK'
    BY <1>1 DEF vars, evalVars, IInv, TypeOK, QuotaTypeOK
  <2> QED
    BY <2>1, OutsideStep
<1>2. ASSUME NEW e \in Evals, Step(e) \/ Rollback(e) \/ LoseTasks(e)
      PROVE  IInv'
  BY <1>2, BeginStep, CountStep, UndoStep, LocalSteps, StoreStep, CommitKeeps, SetCachedStep,
     SyncCountStep, RollbackStep DEF Step
<1> QED
  BY <1>1, <1>2, OutsideSteps DEF Next

LEMMA Invariance == Spec => []IInv
BY Initially, Inductive, PTL DEF Spec

(* Type correctness. *)
THEOREM TypeCorrect == Spec => []TypeOK
<1>1. IInv => TypeOK
  BY DEF IInv
<1> QED
  BY <1>1, Invariance, PTL

(* A decision that a client got, other than a replayed one, is in the      *)
(* committed audit log, whatever rolls back.                               *)
THEOREM Audited == Spec => []AnsweredIsAudited
<1>1. IInv => AnsweredIsAudited
  BY DEF IInv, Promises
<1> QED
  BY <1>1, Invariance, PTL

(* The usage that every evaluation reads and writes back is the number of  *)
(* those that have committed.                                              *)
THEOREM UsageExact == Spec => []UsageIsExact
<1>1. IInv => UsageIsExact
  BY DEF IInv, Promises
<1> QED
  BY <1>1, Invariance, PTL

(* The cache serves nothing but the ALLOW or DENY of an evaluation that    *)
(* has committed.                                                          *)
THEOREM CacheCommitted == Spec => []CacheHoldsCommitted
<1>1. IInv => CacheHoldsCommitted
  BY DEF IInv, Promises
<1> QED
  BY <1>1, Invariance, PTL

-------------------------------------------------------------------------------
(* The limit *)

(* The limit is hard and Redis has not lost the counter. *)
Strict == ~org.soft /\ Limit > 0 /\ ~redis.failed

(* The evaluations that were let through, and those for which the counter    *)
(* stands: they are among them, or have yet to take their increment back.    *)
Through == {e \in Evals : admitted[e] # NoWeek}
Charged == {e \in Evals : admitted[e] # NoWeek \/ eval[e].pc = "undoing"}

Uncounted == {"idle", "counting", "undoing"}

NonNegative == org.count >= 0 /\ \A e \in Evals : eval[e].seen >= 0 /\ eval[e].n >= 0

(* The counter is at least the number of those it stands for, so that the   *)
(* one that is let through at n finds fewer than n before it.                *)
QuotaInv ==
  /\ redis.up \/ redis.failed
  /\ \A e \in Evals : eval[e].pc \in Uncounted => admitted[e] = NoWeek
  /\ Strict =>
       /\ IF redis.seeded THEN Cardinality(Charged) <= counter ELSE Charged = {}
       /\ Cardinality(Through) < Limit
       /\ NonNegative

LEMMA ChargedFinite ==
  /\ IsFiniteSet(Charged) /\ IsFiniteSet(Through)
  /\ Cardinality(Through) <= Cardinality(Charged)
  /\ Cardinality(Charged) \in Nat /\ Cardinality(Through) \in Nat
<1>1. Charged \subseteq Evals /\ Through \subseteq Charged
  BY DEF Charged, Through
<1>2. IsFiniteSet(Charged)
  BY <1>1, EvaluationAssumption, FS_Subset
<1> QED
  BY <1>1, <1>2, FS_Subset, FS_CardinalityType

(* A step that admits nobody, takes no increment back and charges nobody.   *)
Charges == Charged' = Charged /\ Through' = Through

LEMMA StaysCharged ==
  ASSUME NEW e \in Evals, Moves(e), UNCHANGED admitted,
         eval'[e].pc = "undoing" <=> eval[e].pc = "undoing"
  PROVE  Charges
<1>1. \A f \in Evals : eval'[f].pc = "undoing" <=> eval[f].pc = "undoing"
  BY DEF Moves
<1>2. Charged' = Charged
  BY <1>1 DEF Charged
<1>3. Through' = Through
  BY DEF Through
<1> QED
  BY <1>2, <1>3 DEF Charges

(* The rows and what evaluation e has read of them stay counts.             *)
LEMMA StaysNonNegative ==
  ASSUME NonNegative, NEW e \in Evals, Moves(e), org'.count >= 0,
         eval'[e].seen >= 0, eval'[e].n >= 0
  PROVE  NonNegative'
BY DEF NonNegative, Moves

(* A step of evaluation e that leaves the counter and Redis alone.          *)
LEMMA Uncharging ==
  ASSUME TypeOK, QuotaInv, NEW e \in Evals, Moves(e),
         UNCHANGED <<counter, redis, admitted>>, org'.soft = org.soft,
         eval'[e].pc \in Uncounted => eval[e].pc \in Uncounted,
         eval'[e].pc # "undoing",
         Strict => org'.count >= 0 /\ eval'[e].seen >= 0 /\ eval'[e].n >= 0
  PROVE  QuotaInv'
<1>1. redis'.up \/ redis'.failed
  BY DEF QuotaInv
<1>2. \A f \in Evals : eval'[f].pc \in Uncounted => admitted'[f] = NoWeek
  BY DEF QuotaInv, Moves
<1>3. Strict' = Strict
  BY DEF Strict
<1>4. ASSUME Strict
      PROVE  /\ IF redis'.seeded THEN Cardinality(Charged') <= counter' ELSE Charged' = {}
             /\ Cardinality(Through') < Limit /\ NonNegative'
  <2>1. Charged' \subseteq Charged
    BY DEF Charged, Moves
  <2>2. Through' = Through
    BY DEF Through
  <2>3. Cardinality(Charged') <= Cardinality(Charged) /\ Cardinality(Charged') \in Nat
    BY <2>1, ChargedFinite, FS_Subset, FS_CardinalityType
  <2>4. counter \in Int
    BY DEF TypeOK, QuotaTypeOK
  <2>5. IF redis'.seeded THEN Cardinality(Charged') <= counter' ELSE Charged' = {}
    BY <1>4, <2>1, <2>3, <2>4, ChargedFinite DEF QuotaInv
  <2>6. NonNegative'
    BY <1>4, StaysNonNegative DEF QuotaInv
  <2> QED
    BY <1>4, <2>2, <2>5, <2>6 DEF QuotaInv
<1> QED
  BY <1>1, <1>2, <1>3, <1>4 DEF QuotaInv

LEMMA FieldsOf ==
  ASSUME TypeOK, NEW e \in Evals
  PROVE  eval \in [Evals -> EvalRecord] /\ eval[e] \in EvalRecord
BY DEF TypeOK

LEMMA WithoutFields ==
  ASSUME NEW pc
  PROVE  Without(pc).seen = 0 /\ Without(pc).n = 0 /\ Without(pc).pc = pc
BY DEF Without

LEMMA EndsFields ==
  ASSUME TypeOK, NEW e \in Evals, Ends(e)
  PROVE  Moves(e) /\ eval'[e].pc = "done" /\ eval'[e].seen = 0 /\ eval'[e].n = 0
<1>1. eval'[e] = Without("done")
  BY FieldsOf DEF Ends
<1> QED
  BY <1>1, EndsMoves, WithoutFields

LEMMA BeginQuota ==
  ASSUME TypeOK, QuotaInv, NEW e \in Evals, Begin(e)
  PROVE  QuotaInv'
<1>1. /\ Moves(e) /\ eval[e].pc = "idle" /\ eval'[e].pc \in {"counting", "done"}
  BY BeginMoves
<1>2. UNCHANGED <<counter, redis, admitted, org>>
  BY DEF Begin, quotaVars
<1>3. Strict => eval'[e].seen >= 0 /\ eval'[e].n >= 0 /\ org.count >= 0
  <2>1. CASE Ends(e)
    BY <2>1, EndsFields DEF QuotaInv, NonNegative
  <2>2. CASE eval' = [eval EXCEPT ![e].pc = "counting", ![e].seen = org.count]
    <3>1. eval'[e].seen = org.count /\ eval'[e].n = eval[e].n
      BY <2>2, FieldsOf DEF EvalRecord
    <3> QED
      BY <3>1 DEF QuotaInv, NonNegative
  <2> QED
    BY <2>1, <2>2 DEF Begin
<1> QED
  BY <1>1, <1>2, <1>3, Uncharging DEF Uncounted

(* The counter goes up by one at least, whatever it is seeded with.         *)
LEMMA CounterGoesUp ==
  ASSUME TypeOK, QuotaInv, Strict, NEW db \in Nat, Increment(db)
  PROVE  /\ redis'.seeded /\ ~redis'.failed /\ redis'.up
         /\ counter' = NewCount(db) /\ counter' \in Nat
         /\ Cardinality(Charged) + 1 <= counter'
         /\ \A e : Cardinality(Charged \cup {e}) <= counter'
                   /\ Cardinality(Charged \cup {e}) \in Nat
<1>1. redis \in RedisState /\ counter \in Int /\ redis.up
  BY DEF TypeOK, QuotaTypeOK, QuotaInv, Strict
<1>2. counter' = Incremented(db) /\ redis' = [redis EXCEPT !.seeded = TRUE]
  BY <1>1 DEF Increment
<1>3. redis'.seeded /\ redis'.failed = redis.failed /\ redis'.up
  BY <1>1, <1>2 DEF RedisState
<1>4. counter' = NewCount(db)
  BY <1>1, <1>2 DEF NewCount
<1>5. Cardinality(Charged) + 1 <= counter'
  <2>1. CASE redis.seeded
    BY <1>1, <1>2, <2>1, ChargedFinite DEF Incremented, QuotaInv
  <2>2. CASE ~redis.seeded
    <3>1. Cardinality(Charged) = 0
      BY <2>2, FS_EmptySet DEF QuotaInv
    <3> QED
      BY <1>2, <2>2, <3>1 DEF Incremented
  <2> QED
    BY <2>1, <2>2
<1>6. counter' \in Int
  BY <1>1, <1>2 DEF Incremented
<1>7. ASSUME NEW e
      PROVE  /\ Cardinality(Charged \cup {e}) <= Cardinality(Charged) + 1
             /\ Cardinality(Charged \cup {e}) \in Nat
  BY ChargedFinite, FS_AddElement, FS_CardinalityType, SMTT(30)
<1>8. counter' \in Nat
  BY <1>5, <1>6, ChargedFinite
<1>9. \A e : Cardinality(Charged \cup {e}) <= counter' /\ Cardinality(Charged \cup {e}) \in Nat
  <2> SUFFICES ASSUME NEW e
               PROVE  /\ Cardinality(Charged \cup {e}) <= counter'
                      /\ Cardinality(Charged \cup {e}) \in Nat
    OBVIOUS
  <2> DEFINE c == Cardinality(Charged \cup {e})
             k == Cardinality(Charged)
  <2>1. c <= k + 1 /\ c \in Nat /\ k \in Nat /\ k + 1 <= counter'
    BY <1>5, <1>7, ChargedFinite
  <2> HIDE DEF c, k
  <2>2. c <= counter' /\ c \in Nat
    BY <1>8, <2>1
  <2> QED
    BY <2>2 DEF c
<1> QED
  BY <1>3, <1>4, <1>5, <1>8, <1>9 DEF Strict

(* Evaluation e is let through at n. *)
LEMMA AdmitFields ==
  ASSUME TypeOK, NEW e \in Evals, NEW n \in Int, NEW reset \in BOOLEAN, Admit(e, n, reset)
  PROVE  /\ eval'[e].pc = "admitted" /\ eval'[e].n = n /\ eval'[e].seen = eval[e].seen
         /\ admitted'[e] = week /\ \A f \in Evals : f # e => admitted'[f] = admitted[f]
<1>1. eval' = [eval EXCEPT ![e].pc = "admitted", ![e].n = n, ![e].reset = reset]
      /\ admitted' = [admitted EXCEPT ![e] = week]
  BY DEF Admit
<1>2. eval'[e].pc = "admitted" /\ eval'[e].n = n /\ eval'[e].seen = eval[e].seen
  BY <1>1, FieldsOf DEF EvalRecord
<1> QED
  BY <1>1, <1>2 DEF TypeOK

LEMMA CountQuota ==
  ASSUME TypeOK, QuotaInv, NEW e \in Evals, Count(e)
  PROVE  QuotaInv'
<1> DEFINE db == IF WeekIsOver THEN 0 ELSE eval[e].seen
           n == NewCount(db)
<1>1. /\ Moves(e) /\ eval[e].pc = "counting"
      /\ eval'[e].pc \in {"undoing", "admitted", "done"}
  BY CountMoves
<1>2. db \in Int /\ n \in Int /\ WeekIsOver \in BOOLEAN
  <2>1. db \in Int
    BY FieldsOf DEF EvalRecord
  <2> HIDE DEF db
  <2>2. n \in Int
    BY <2>1, CountType
  <2> QED
    BY <2>1, <2>2 DEF WeekIsOver
<1>3. /\ Increment(db)
      /\ \/ /\ TakesBack(n)
            /\ eval' = [eval EXCEPT ![e].pc = "undoing", ![e].seen = db, ![e].reset = WeekIsOver]
            /\ UNCHANGED <<answer, admitted>>
         \/ ~TakesBack(n) /\ Exceeds(n) /\ Refuse(e)
         \/ ~Exceeds(n) /\ Admit(e, n, WeekIsOver)
  BY DEF Count
<1>4. UNCHANGED <<week, org>>
  BY DEF Count
<1>5. Strict => db \in Nat
  BY <1>2 DEF QuotaInv, NonNegative
<1> HIDE DEF db, n
<1>6. redis'.up \/ redis'.failed
  <2>1. redis \in RedisState
    BY DEF TypeOK, QuotaTypeOK
  <2>2. [redis EXCEPT !.seeded = TRUE].up = redis.up /\ [redis EXCEPT !.seeded = TRUE].failed = redis.failed
    BY <2>1 DEF RedisState
  <2> QED
    BY <1>3, <2>2 DEF Increment, QuotaInv
<1>7. admitted[e] = NoWeek /\ week # NoWeek
  BY <1>1, OrgType DEF QuotaInv, Uncounted, NoWeek
<1>8. Strict' => Strict
  <2>1. redis \in RedisState
    BY DEF TypeOK, QuotaTypeOK
  <2>2. [redis EXCEPT !.seeded = TRUE].failed = redis.failed
    BY <2>1 DEF RedisState
  <2> QED
    BY <1>3, <1>4, <2>2 DEF Increment, Strict
<1>9. Strict => /\ redis'.seeded /\ counter' = n /\ n \in Nat
                /\ Cardinality(Charged \cup {e}) <= n /\ Cardinality(Charged) + 1 <= n
                /\ Cardinality(Charged \cup {e}) \in Nat
  BY <1>3, <1>5, CounterGoesUp DEF n
<1>10. CASE eval' = [eval EXCEPT ![e].pc = "undoing", ![e].seen = db, ![e].reset = WeekIsOver]
            /\ UNCHANGED admitted
  <2>1. eval'[e].pc = "undoing" /\ eval'[e].seen = db /\ eval'[e].n = eval[e].n
    BY <1>10, FieldsOf DEF EvalRecord
  <2>2. Charged' = Charged \cup {e} /\ Through' = Through
    BY <1>1, <1>10, <2>1 DEF Charged, Through, Moves
  <2>3. Strict => NonNegative'
    BY <1>1, <1>4, <1>5, <2>1, StaysNonNegative DEF QuotaInv, NonNegative
  <2>4. \A f \in Evals : eval'[f].pc \in Uncounted => admitted'[f] = NoWeek
    BY <1>1, <1>7, <1>10 DEF QuotaInv, Moves
  <2> QED
    BY <1>6, <1>8, <1>9, <2>2, <2>3, <2>4 DEF QuotaInv
<1>11. CASE Refuse(e)
  <2>1. eval'[e].pc = "done" /\ eval'[e].seen = 0 /\ eval'[e].n = 0 /\ UNCHANGED admitted
    BY <1>11, EndsFields DEF Refuse
  <2>2. Charged' = Charged /\ Through' = Through
    BY <1>1, <2>1 DEF Charged, Through, Moves
  <2>3. Strict => NonNegative'
    BY <1>1, <1>4, <2>1, StaysNonNegative DEF QuotaInv, NonNegative
  <2>4. \A f \in Evals : eval'[f].pc \in Uncounted => admitted'[f] = NoWeek
    BY <1>1, <2>1 DEF QuotaInv, Moves, Uncounted
  <2>5. Strict => Cardinality(Charged') <= counter'
    BY <1>9, <2>2, ChargedFinite
  <2> QED
    BY <1>6, <1>8, <1>9, <2>2, <2>3, <2>4, <2>5 DEF QuotaInv
<1>12. CASE ~Exceeds(n) /\ Admit(e, n, WeekIsOver)
  <2>1. /\ eval'[e].pc = "admitted" /\ eval'[e].n = n /\ eval'[e].seen = eval[e].seen
        /\ admitted'[e] = week /\ \A f \in Evals : f # e => admitted'[f] = admitted[f]
    BY <1>2, <1>12, AdmitFields
  <2>2. Charged' = Charged \cup {e} /\ Through' = Through \cup {e}
    BY <1>1, <1>7, <2>1 DEF Charged, Through, Moves
  <2>3. Strict => NonNegative'
    BY <1>1, <1>4, <1>9, <2>1, StaysNonNegative DEF QuotaInv, NonNegative
  <2>4. \A f \in Evals : eval'[f].pc \in Uncounted => admitted'[f] = NoWeek
    BY <1>1, <2>1 DEF QuotaInv, Moves, Uncounted
  <2>5. Strict => Cardinality(Through') < Limit
    <3>1. Strict => n < Limit
      BY <1>2, <1>12, QuotaAssumption DEF Exceeds, Strict
    <3>2. Cardinality(Through \cup {e}) <= Cardinality(Charged) + 1
          /\ Cardinality(Through \cup {e}) \in Nat
      BY ChargedFinite, FS_AddElement, FS_CardinalityType
    <3> QED
      BY <1>9, <2>2, <3>1, <3>2, ChargedFinite, QuotaAssumption
  <2> QED
    BY <1>6, <1>8, <1>9, <2>2, <2>3, <2>4, <2>5 DEF QuotaInv
<1> QED
  BY <1>3, <1>10, <1>11, <1>12

(* Its increment taken back, the evaluation is not charged any more.        *)
LEMMA UndoQuota ==
  ASSUME TypeOK, QuotaInv, NEW e \in Evals, Undo(e)
  PROVE  QuotaInv'
<1>1. Moves(e) /\ eval[e].pc = "undoing" /\ eval'[e].pc \in {"done", "admitted"}
  BY UndoMoves
<1>2. /\ \/ redis.up /\ counter' = counter - 1 /\ redis' = [redis EXCEPT !.seeded = TRUE]
            /\ Refuse(e)
         \/ ~redis.up /\ UNCHANGED <<counter, redis>>
      /\ UNCHANGED <<week, org>>
      /\ \A f \in Evals : f # e => admitted'[f] = admitted[f]
  BY DEF Undo, Refuse, Admit, TypeOK
<1>3. \A f \in Evals : eval'[f].pc \in Uncounted => admitted'[f] = NoWeek
  BY <1>1, <1>2 DEF QuotaInv, Moves, Uncounted
<1>4. CASE ~redis.up /\ UNCHANGED <<counter, redis>>
  BY <1>3, <1>4 DEF QuotaInv, Strict
<1>5. CASE redis.up /\ counter' = counter - 1 /\ redis' = [redis EXCEPT !.seeded = TRUE] /\ Refuse(e)
  <2>1. redis \in RedisState /\ counter \in Int
    BY DEF TypeOK, QuotaTypeOK
  <2>2. redis'.up /\ redis'.failed = redis.failed /\ redis'.seeded
    BY <1>5, <2>1 DEF RedisState
  <2>3. Strict' => Strict
    BY <1>2, <2>2 DEF Strict
  <2>4. eval'[e].pc = "done" /\ eval'[e].seen = 0 /\ eval'[e].n = 0 /\ UNCHANGED admitted
    BY <1>5, EndsFields DEF Refuse
  <2>5. e \in Charged /\ admitted[e] = NoWeek
    BY <1>1 DEF Charged, QuotaInv, Uncounted
  <2>6. Charged' = Charged \ {e} /\ Through' = Through
    BY <1>1, <2>4, <2>5 DEF Charged, Through, Moves
  <2>7. Cardinality(Charged \ {e}) = Cardinality(Charged) - 1
    BY <2>5, ChargedFinite, FS_RemoveElement
  <2>8. Strict => Cardinality(Charged) <= counter
    BY <2>5 DEF QuotaInv
  <2>9. Strict => Cardinality(Charged') <= counter'
    <3> DEFINE k == Cardinality(Charged)
    <3>1. Strict => k <= counter
      BY <2>8
    <3>2. k \in Nat /\ Cardinality(Charged') = k - 1
      BY <2>6, <2>7, ChargedFinite
    <3> HIDE DEF k
    <3> QED
      BY <1>5, <2>1, <3>1, <3>2
  <2>10. Strict => NonNegative'
    BY <1>1, <1>2, <2>4, StaysNonNegative DEF QuotaInv, NonNegative
  <2> QED
    BY <1>3, <2>2, <2>3, <2>6, <2>9, <2>10 DEF QuotaInv
<1> QED
  BY <1>2, <1>4, <1>5

(* The steps from the lock to the end leave the counter alone, and write    *)
(* nothing but what it was to the row.                                       *)
LEMMA LaterQuota ==
  ASSUME TypeOK, QuotaInv, NEW e \in Evals,
         \/ LockOrg(e) \/ CacheHit(e) \/ ReadPolicies(e) \/ ReadSettings(e)
         \/ Store(e) \/ Commit(e) \/ SetCached(e) \/ ReadCount(e) \/ SyncCount(e)
         \/ Rollback(e) \/ LoseTasks(e)
  PROVE  QuotaInv'
<1>0. /\ eval \in [Evals -> EvalRecord]
      /\ eval[e].seen \in Int /\ eval[e].n \in Int /\ counter \in Int
      /\ org \in OrgRow /\ org.usage >= 0
      /\ Strict => org.count >= 0 /\ eval[e].seen >= 0 /\ eval[e].n >= 0
  BY FieldsOf, OrgType DEF TypeOK, QuotaTypeOK, EvalRecord, QuotaInv, NonNegative
<1>1. CASE LockOrg(e)
  <2>1. eval' = [eval EXCEPT ![e].pc = "locked", ![e].seen = org.usage]
    BY <1>1 DEF LockOrg
  <2>2. eval'[e].pc = "locked" /\ eval'[e].seen = org.usage /\ eval'[e].n = eval[e].n
    BY <1>0, <2>1 DEF EvalRecord
  <2>3. UNCHANGED <<counter, redis, admitted, org>>
    BY <1>1 DEF LockOrg, quotaVars
  <2> QED
    BY <1>0, <1>1, <2>2, <2>3, LockOrgMoves, Uncharging DEF Uncounted
<1>2. CASE CacheHit(e)
  <2>1. eval' = [eval EXCEPT ![e].pc = "decided", ![e].decision = cache.decision, ![e].hit = TRUE]
    BY <1>2 DEF CacheHit
  <2>2. eval'[e].pc = "decided" /\ eval'[e].seen = eval[e].seen /\ eval'[e].n = eval[e].n
    BY <1>0, <2>1 DEF EvalRecord
  <2>3. UNCHANGED <<counter, redis, admitted, org>>
    BY <1>2 DEF CacheHit, quotaVars
  <2> QED
    BY <1>0, <1>2, <2>2, <2>3, CacheHitMoves, Uncharging DEF Uncounted
<1>3. CASE ReadPolicies(e)
  <2>1. eval' = [eval EXCEPT ![e].pc = "reading", ![e].raw = config.policy]
    BY <1>3 DEF ReadPolicies
  <2>2. eval'[e].pc = "reading" /\ eval'[e].seen = eval[e].seen /\ eval'[e].n = eval[e].n
    BY <1>0, <2>1 DEF EvalRecord
  <2>3. UNCHANGED <<counter, redis, admitted, org>>
    BY <1>3 DEF ReadPolicies, quotaVars
  <2> QED
    BY <1>0, <1>3, <2>2, <2>3, ReadPoliciesMoves, Uncharging DEF Uncounted
<1>4. CASE ReadSettings(e)
  <2>1. eval' = [eval EXCEPT ![e].pc = "decided", ![e].raw = "DENY",
                             ![e].decision = Screened(eval[e].raw, config.screen)]
    BY <1>4 DEF ReadSettings
  <2>2. eval'[e].pc = "decided" /\ eval'[e].seen = eval[e].seen /\ eval'[e].n = eval[e].n
    BY <1>0, <2>1 DEF EvalRecord
  <2>3. UNCHANGED <<counter, redis, admitted, org>>
    BY <1>4 DEF ReadSettings, quotaVars
  <2> QED
    BY <1>0, <1>4, <2>2, <2>3, ReadSettingsMoves, Uncharging DEF Uncounted
<1>5. CASE Store(e)
  <2>1. eval' = [eval EXCEPT ![e].pc = "stored"]
    BY <1>5 DEF Store
  <2>2. eval'[e].pc = "stored" /\ eval'[e].seen = eval[e].seen /\ eval'[e].n = eval[e].n
    BY <1>0, <2>1 DEF EvalRecord
  <2>3. UNCHANGED <<counter, redis, admitted, org>>
    BY <1>5 DEF Store, quotaVars
  <2> QED
    BY <1>0, <1>5, <2>2, <2>3, StoreMoves, Uncharging DEF Uncounted
<1>6. CASE Commit(e)
  <2>1. eval'[e] = [Without("committed") EXCEPT !.decision = eval[e].decision, !.hit = eval[e].hit]
    BY <1>0, <1>6 DEF Commit
  <2>2. eval'[e].pc = "committed" /\ eval'[e].seen = 0 /\ eval'[e].n = 0
    BY <2>1 DEF Without
  <2>3. org'.count = eval[e].n /\ org'.soft = org.soft
    BY <1>0, <1>6 DEF Commit, OrgRow
  <2>4. UNCHANGED <<counter, redis, admitted>>
    BY <1>6 DEF Commit
  <2> QED
    BY <1>0, <1>6, <2>2, <2>3, <2>4, CommitMoves, Uncharging DEF Uncounted
<1>7. CASE SetCached(e)
  <2>1. eval'[e].pc = "cached" /\ eval'[e].seen = 0 /\ eval'[e].n = 0
    BY <1>0, <1>7, WithoutFields DEF SetCached
  <2>2. UNCHANGED <<counter, redis, admitted, org>>
    BY <1>7 DEF SetCached, quotaVars
  <2> QED
    BY <1>0, <1>7, <2>1, <2>2, SetCachedMoves, Uncharging DEF Uncounted
<1>8. CASE ReadCount(e)
  <2>1. UNCHANGED <<counter, redis, admitted, org>>
    BY <1>8 DEF ReadCount, quotaVars
  <2>2. CASE Ends(e)
    BY <1>0, <1>8, <2>1, <2>2, EndsFields, ReadCountMoves, Uncharging DEF Uncounted
  <2>3. CASE redis.seeded /\ eval' = [eval EXCEPT ![e] = [Without("syncing") EXCEPT !.n = counter]]
    <3>1. eval'[e].pc = "syncing" /\ eval'[e].seen = 0 /\ eval'[e].n = counter
      BY <1>0, <2>3 DEF Without
    <3>2. Strict => counter >= 0
      BY <1>0, <2>3, ChargedFinite DEF QuotaInv
    <3> QED
      BY <1>0, <1>8, <2>1, <3>1, <3>2, ReadCountMoves, Uncharging DEF Uncounted
  <2> QED
    BY <1>8, <2>2, <2>3 DEF ReadCount
<1>9. CASE SyncCount(e)
  <2>1. org'.count = eval[e].n /\ org'.soft = org.soft
    BY <1>0, <1>9 DEF SyncCount, OrgRow
  <2>2. UNCHANGED <<counter, redis, admitted>> /\ Ends(e)
    BY <1>9 DEF SyncCount
  <2> QED
    BY <1>0, <2>1, <2>2, EndsFields, Uncharging DEF Uncounted
<1>10. CASE Rollback(e) \/ LoseTasks(e)
  <2>1. UNCHANGED <<counter, redis, admitted, org>> /\ Ends(e)
    BY <1>10 DEF Rollback, LoseTasks, quotaVars
  <2> QED
    BY <1>0, <2>1, EndsFields, Uncharging DEF Uncounted
<1> QED
  BY <1>1, <1>2, <1>3, <1>4, <1>5, <1>6, <1>7, <1>8, <1>9, <1>10

(* Outside of the evaluations, Redis alone matters.                         *)
LEMMA OutsideQuota ==
  ASSUME QuotaInv, UNCHANGED <<eval, admitted, org>>, redis'.up \/ redis'.failed,
         Strict' => Strict /\ UNCHANGED <<counter, redis>>
  PROVE  QuotaInv'
<1>1. Charged' = Charged /\ Through' = Through /\ NonNegative' = NonNegative
  BY DEF Charged, Through, NonNegative
<1> QED
  BY <1>1 DEF QuotaInv

LEMMA QuotaInductive == TypeOK /\ QuotaInv /\ [Next]_vars => QuotaInv'
<1> SUFFICES ASSUME TypeOK, QuotaInv, [Next]_vars
             PROVE  QuotaInv'
  OBVIOUS
<1>0. redis \in RedisState /\ (redis.up \/ redis.failed)
  BY DEF TypeOK, QuotaTypeOK, QuotaInv
<1>1. ASSUME NEW e \in Evals, Step(e) \/ Rollback(e) \/ LoseTasks(e)
      PROVE  QuotaInv'
  BY <1>1, BeginQuota, CountQuota, UndoQuota, LaterQuota DEF Step
<1>2. CASE \/ UNCHANGED vars
           \/ \E p \in {"ALLOW", "DENY"} : MutatePolicy(p)
           \/ \E p \in {config.draft, config.policy} : EndMutation(p)
           \/ \E s \in Screens : ChangeSettings(s)
           \/ Tick
  <2>1. UNCHANGED <<eval, admitted, org, counter, redis>>
    BY <1>2 DEF vars, MutatePolicy, EndMutation, ChangeSettings, Tick, quotaVars, evalVars
  <2> QED
    BY <1>0, <2>1, OutsideQuota DEF Strict
<1>3. CASE NewWeek /\ UNCHANGED evalVars
  BY <1>0, <1>3, OutsideQuota DEF Strict, NewWeek, evalVars
<1>4. CASE RedisFails /\ UNCHANGED evalVars
  <2>1. redis'.failed
    BY <1>0, <1>4 DEF RedisFails, RedisState
  <2> QED
    BY <1>4, <2>1, OutsideQuota DEF Strict, RedisFails, evalVars
<1>5. ASSUME NEW kept \in BOOLEAN, RedisReturnsWith(kept)
      PROVE  QuotaInv'
  <2>1. RedisReturns(kept) /\ UNCHANGED evalVars
    BY <1>5 DEF RedisReturnsWith
  <2>2. redis'.failed
    BY <1>0, <2>1 DEF RedisReturns, RedisState
  <2> QED
    BY <2>1, <2>2, OutsideQuota DEF Strict, RedisReturns, evalVars
<1> QED
  BY <1>1, <1>2, <1>3, <1>4, <1>5 DEF Next

LEMMA QuotaInitially == Init => QuotaInv
<1> SUFFICES ASSUME Init
             PROVE  QuotaInv
  OBVIOUS
<1>1. PICK soft \in BOOLEAN, used \in {0, Used} :
        org = [count |-> used, week |-> 0, soft |-> soft, usage |-> 0]
  BY DEF Init, QuotaInit
<1>2. org.count >= 0
  BY <1>1, QuotaAssumption
<1>3. /\ redis.up /\ ~redis.seeded
      /\ \A e \in Evals : eval[e] = Without("idle") /\ admitted[e] = NoWeek
  BY DEF Init, QuotaInit
<1>4. Charged = {} /\ Through = {}
  BY <1>3, WithoutFields DEF Charged, Through
<1>5. Strict => Cardinality(Through) < Limit
  BY <1>4, FS_EmptySet, QuotaAssumption DEF Strict
<1>6. NonNegative
  BY <1>2, <1>3, WithoutFields DEF NonNegative
<1> QED
  BY <1>3, <1>4, <1>5, <1>6 DEF QuotaInv

(* In no week are as many evaluations let through as a hard limit says, as   *)
(* long as Redis keeps the counter: for any number of evaluations, those     *)
(* that take an increment back and those that fail included (evaluate,       *)
(* rate_limit_incr).                                                         *)
THEOREM UnderTheLimit == Spec => []NeverOverLimit
<1>1. QuotaInv => NeverOverLimit
  <2> SUFFICES ASSUME QuotaInv, Strict, NEW w \in 0..LastWeek
               PROVE  Cardinality({e \in Evals : admitted[e] = w}) < Limit
    BY DEF NeverOverLimit, Strict
  <2> DEFINE those == {e \in Evals : admitted[e] = w}
  <2>1. those \subseteq Through
    BY QuotaAssumption DEF Through, NoWeek
  <2>2. Cardinality(those) <= Cardinality(Through) /\ Cardinality(those) \in Nat
    BY <2>1, ChargedFinite, FS_Subset, FS_CardinalityType
  <2>3. Cardinality(Through) < Limit
    BY DEF QuotaInv
  <2> HIDE DEF those
  <2>4. Cardinality(those) < Limit
    BY <2>2, <2>3, ChargedFinite, QuotaAssumption
  <2> QED
    BY <2>4 DEF those
<1> QED
  BY <1>1, QuotaInitially, QuotaInductive, TypeCorrect, PTL DEF Spec
===============================================================================
