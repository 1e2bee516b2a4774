---------------------------- MODULE Platform_proofs ----------------------------
(* The components around the core, each for every set of actors.            *)
EXTENDS RateLimiter, CedarPool, AgentClient, Members, Provisioning, Assessment,
        FiniteSetTheorems, TLAPS

-------------------------------------------------------------------------------
(* Risk score and controls *)

(* An evaluation keeps the decision of the policies and has one of its own. *)
Judged ==
  /\ evaluation = [e \in Evaluations |->
       [request |-> evaluation[e].request, policies |-> evaluation[e].policies,
        decision |-> evaluation[e].decision, level |-> evaluation[e].level,
        parts |-> evaluation[e].parts, pc |-> evaluation[e].pc]]
  /\ \A e \in Evaluations : evaluation[e].policies \in Decisions
                            /\ evaluation[e].decision \in Decisions

LEMMA RiskTightens ==
  ASSUME NEW d \in Decisions, NEW score, NEW c
  PROVE  /\ AfterRisk(d, score, c) \in Decisions
         /\ Strictness(AfterRisk(d, score, c)) >= Strictness(d)
<1> DEFINE high == score > c.approval
           some == score > c.allow
<1>1. AfterRisk(d, score, c) =
        IF d # "ALLOW" THEN d
        ELSE IF high THEN "DENY" ELSE IF some THEN "APPROVAL_REQUIRED" ELSE "ALLOW"
  BY DEF AfterRisk
<1> HIDE DEF high, some
<1> QED BY <1>1 DEF Decisions, Strictness

LEMMA ControlsTighten ==
  ASSUME NEW d \in Decisions, NEW r, NEW mode, NEW level, NEW parts
  PROVE  /\ AfterControls(r, d, mode, level, parts) \in Decisions
         /\ Strictness(AfterControls(r, d, mode, level, parts)) >= Strictness(d)
<1> DEFINE blocked == \E f \in Findings(r, d) : Blocks(f, mode, level, parts)
<1>1. AfterControls(r, d, mode, level, parts) = IF blocked THEN "DENY" ELSE d
  BY DEF AfterControls
<1> HIDE DEF blocked
<1> QED BY <1>1 DEF Decisions, Strictness

(* A step that gives evaluation e a decision at least as strict.            *)
LEMMA Tightening ==
  ASSUME Judged, OnlyTightens, NEW e \in Evaluations, NEW d \in Decisions, NEW l, NEW p, NEW place,
         Strictness(d) >= Strictness(evaluation[e].decision),
         evaluation' = [evaluation EXCEPT ![e].decision = d, ![e].level = l, ![e].parts = p,
                                          ![e].pc = place]
  PROVE  Judged' /\ OnlyTightens'
<1> DEFINE row == [request |-> evaluation[e].request, policies |-> evaluation[e].policies,
                   decision |-> d, level |-> l, parts |-> p, pc |-> place]
<1>1. evaluation' = [evaluation EXCEPT ![e] = row]
  <2>1. evaluation[e] = [request |-> evaluation[e].request, policies |-> evaluation[e].policies,
                         decision |-> evaluation[e].decision, level |-> evaluation[e].level,
                         parts |-> evaluation[e].parts, pc |-> evaluation[e].pc]
    BY DEF Judged
  <2> DEFINE old == evaluation[e]
  <2>2. [old EXCEPT !.decision = d, !.level = l, !.parts = p, !.pc = place] = row
    <3>1. PICK q, po, de, le, pa, pl :
            /\ old = [request |-> q, policies |-> po, decision |-> de, level |-> le, parts |-> pa,
                      pc |-> pl]
            /\ q = old.request /\ po = old.policies
      BY <2>1
    <3> HIDE DEF old
    <3> DEFINE Row(x, y, z, w) == [request |-> q, policies |-> po, decision |-> x, level |-> y,
                                   parts |-> z, pc |-> w]
    <3>2. [old EXCEPT !.decision = d] = Row(d, le, pa, pl)
      BY <3>1
    <3>3. [Row(d, le, pa, pl) EXCEPT !.level = l] = Row(d, l, pa, pl)
      OBVIOUS
    <3>4. [Row(d, l, pa, pl) EXCEPT !.parts = p] = Row(d, l, p, pl)
      OBVIOUS
    <3>5. [Row(d, l, p, pl) EXCEPT !.pc = place] = Row(d, l, p, place)
      OBVIOUS
    <3>6. [old EXCEPT !.decision = d, !.level = l, !.parts = p, !.pc = place]
            = Row(d, l, p, place)
      <4> HIDE DEF Row
      <4> QED BY <3>2, <3>3, <3>4, <3>5
    <3> QED BY <3>1, <3>6 DEF old
  <2>3. evaluation' = [evaluation EXCEPT ![e] =
          [evaluation[e] EXCEPT !.decision = d, !.level = l, !.parts = p, !.pc = place]]
    BY DEF Judged
  <2> QED BY <2>2, <2>3
<1>2. DOMAIN evaluation = Evaluations
  BY DEF Judged
<1>3. evaluation'[e] = row /\ \A o \in Evaluations \ {e} : evaluation'[o] = evaluation[o]
  BY <1>1, <1>2
<1>4. \A o \in Evaluations :
        /\ evaluation[o].policies \in Decisions /\ evaluation[o].decision \in Decisions
        /\ Strictness(evaluation[o].decision) >= Strictness(evaluation[o].policies)
  BY DEF Judged, OnlyTightens
<1>5. \A x \in Decisions : Strictness(x) \in Int
  BY DEF Decisions, Strictness
<1>6. /\ row.policies \in Decisions /\ row.decision \in Decisions
      /\ Strictness(row.decision) >= Strictness(row.policies)
  BY <1>4, <1>5
<1>7. OnlyTightens'
  BY <1>3, <1>4, <1>6 DEF OnlyTightens
<1>8. evaluation' = [o \in Evaluations |->
        [request |-> evaluation'[o].request, policies |-> evaluation'[o].policies,
         decision |-> evaluation'[o].decision, level |-> evaluation'[o].level,
         parts |-> evaluation'[o].parts, pc |-> evaluation'[o].pc]]
  <2>1. \A o \in Evaluations : evaluation[o] =
          [request |-> evaluation[o].request, policies |-> evaluation[o].policies,
           decision |-> evaluation[o].decision, level |-> evaluation[o].level,
           parts |-> evaluation[o].parts, pc |-> evaluation[o].pc]
    BY DEF Judged
  <2> QED BY <1>1, <1>2, <1>3, <2>1
<1>9. Judged'
  BY <1>3, <1>4, <1>6, <1>8 DEF Judged
<1> QED BY <1>7, <1>9

(* Neither the score nor a control lets through what the policies hold back, *)
(* for all requests, settings and changes of settings.                       *)
THEOREM NothingLoosens == AssessmentSpec => []OnlyTightens
<1> DEFINE Inv == Judged /\ OnlyTightens
<1>1. AssessmentInit(Requests, Changes, Controls) => Inv
  <2> SUFFICES ASSUME AssessmentInit(Requests, Changes, Controls) PROVE Inv
    OBVIOUS
  <2>1. PICK r \in [Evaluations -> Requests], d \in [Evaluations -> Decisions] :
          evaluation = [e \in Evaluations |->
            [request |-> r[e], policies |-> d[e], decision |-> d[e], level |-> "none",
             parts |-> [f \in Factors |-> 0], pc |-> "decided"]]
    BY DEF AssessmentInit
  <2>2. \A e \in Evaluations : evaluation[e].policies = d[e] /\ evaluation[e].decision = d[e]
    BY <2>1
  <2>3. Judged
    BY <2>1, <2>2 DEF Judged
  <2>4. OnlyTightens
    BY <2>2 DEF OnlyTightens, Strictness, Decisions
  <2> QED BY <2>3, <2>4
<1>2. Inv /\ [AssessmentNext]_assessmentVars => Inv'
  <2> SUFFICES ASSUME Inv, [AssessmentNext]_assessmentVars PROVE Inv'
    OBVIOUS
  <2>1. CASE UNCHANGED evaluation
    BY <2>1 DEF Judged, OnlyTightens
  <2>2. ASSUME NEW e \in Evaluations, NEW place,
               evaluation' = [evaluation EXCEPT ![e].pc = place]
        PROVE  Inv'
    <3>1. evaluation' = [evaluation EXCEPT ![e].decision = evaluation[e].decision,
                           ![e].level = evaluation[e].level, ![e].parts = evaluation[e].parts,
                           ![e].pc = place]
      BY <2>2 DEF Judged
    <3>2. evaluation[e].decision \in Decisions
      BY DEF Judged
    <3>3. Strictness(evaluation[e].decision) >= Strictness(evaluation[e].decision)
      BY <3>2 DEF Strictness, Decisions
    <3> QED BY <3>1, <3>2, <3>3, Tightening
  <2>3. ASSUME NEW e \in Evaluations, SkipRisk(e) \/ ControlsFail(e) PROVE Inv'
    BY <2>2, <2>3 DEF SkipRisk, ControlsFail
  <2>4. ASSUME NEW e \in Evaluations, ScoreRisk(e) PROVE Inv'
    <3> DEFINE raw == Raw(evaluation[e].request)
               score == Score(raw, Settings.weights)
               d == AfterRisk(evaluation[e].decision, score, Settings)
               l == Level(score)
               p == Contribution(raw, Settings.weights)
    <3>1. evaluation' = [evaluation EXCEPT ![e].decision = d, ![e].level = l, ![e].parts = p,
                                           ![e].pc = "scored"]
      BY <2>4 DEF ScoreRisk
    <3>2. d \in Decisions /\ Strictness(d) >= Strictness(evaluation[e].decision)
      BY RiskTightens DEF Judged
    <3> HIDE DEF d, l, p
    <3> QED BY <3>1, <3>2, Tightening
  <2>5. ASSUME NEW e \in Evaluations, RunControls(e) PROVE Inv'
    <3> DEFINE v == evaluation[e]
               d == AfterControls(v.request, v.decision, ModeOf, v.level, v.parts)
    <3>1. evaluation' = [evaluation EXCEPT ![e].decision = d, ![e].pc = "answered"]
      BY <2>5 DEF RunControls
    <3>2. d \in Decisions /\ Strictness(d) >= Strictness(evaluation[e].decision)
      BY ControlsTighten DEF Judged
    <3> HIDE DEF d
    <3>3. evaluation' = [evaluation EXCEPT ![e].decision = d, ![e].level = evaluation[e].level,
                           ![e].parts = evaluation[e].parts, ![e].pc = "answered"]
      BY <3>1 DEF Judged
    <3> QED BY <3>2, <3>3, Tightening
  <2>6. GetRiskConfig \/ (\E q \in Puts : ReadConfig(q) \/ CreateConfig(q) \/ UpdateConfig(q))
          \/ (\E q \in ModePuts : ReadMode(q) \/ WriteMode(q)) \/ UNCHANGED assessmentVars
        => UNCHANGED evaluation
    BY DEF GetRiskConfig, ReadConfig, CreateConfig, UpdateConfig, ReadMode, WriteMode,
           assessmentVars
  <2> QED BY <2>1, <2>3, <2>4, <2>5, <2>6 DEF AssessmentNext
<1>3. Inv => OnlyTightens
  OBVIOUS
<1> QED BY <1>1, <1>2, <1>3, PTL DEF AssessmentSpec

ConfigRow == [allow : 0 .. 100, approval : 0 .. 100, weights : Profiles]

PutRow == [change : Changes, pc : PutPlaces, seen : ConfigRow]

VerdictRow == [request : Requests, policies : Decisions, decision : Decisions,
               level : {"none", "low", "medium", "high"}, parts : [Factors -> 0 .. 100],
               pc : {"decided", "scored", "answered"}]

(* The types, and who has read a row has found one. *)
AssessmentInv ==
  /\ AssessmentTypeOK /\ put \in [Puts -> PutRow]
  /\ \A p \in Puts : put[p].pc = "read" => config \in ConfigRow

(* A part of the score is from 0 to 100. *)
LEMMA PartsTyped ==
  ASSUME NEW r \in Request, NEW w \in [Factors -> 0 .. 100]
  PROVE  Contribution(Raw(r), w) \in [Factors -> 0 .. 100]
<1>1. ASSUME NEW n \in Nat, n <= 10000 PROVE Rounded(n) \in 0 .. 100
  <2> DEFINE q == n \div 100
             rest == n % 100
  <2>1. q \in Int /\ 100 * q <= n /\ n < 100 * q + 100 /\ rest \in 0 .. 99
    BY <1>1
  <2>2. q \in 0 .. 100 /\ (q = 100 => n = 10000)
    <3> HIDE DEF q, rest
    <3> QED BY <1>1, <2>1
  <2>3. q = 100 => rest = 0
    <3>1. 10000 % 100 = 0
      OBVIOUS
    <3> QED BY <2>2, <3>1
  <2>4. Rounded(n) = IF rest > 50 \/ (rest = 50 /\ q % 2 = 1) THEN q + 1 ELSE q
    BY DEF Rounded
  <2> HIDE DEF q, rest
  <2> QED BY <2>1, <2>2, <2>3, <2>4
<1>2. \A f \in Factors : Raw(r)[f] \in 0 .. 100
  <2>1. \A s : ActionSeverity(s) \in 0 .. 100 /\ AgentTrust(s) \in 0 .. 100 /\ ResourceSensitivity(s) \in 0 .. 100
    BY DEF ActionSeverity, AgentTrust, ResourceSensitivity
  <2>2. ContextSignals(r) \in 0 .. 100
    BY DEF ContextSignals, Capped, Request
  <2>3. RatePattern(r.used, r.limit) \in 0 .. 100
    BY DEF RatePattern
  <2>4. AmountScale(r.amount) \in 0 .. 100
    BY DEF AmountScale
  <2> QED BY <2>1, <2>2, <2>3, <2>4 DEF Raw
<1>3. ASSUME NEW a \in 0 .. 100, NEW b \in 0 .. 100 PROVE a * b \in Nat /\ a * b <= 10000
  <2>1. a * b \in Int /\ 0 <= a * b /\ a * b <= 100 * b
    OBVIOUS
  <2>2. 100 * b <= 10000 /\ 100 * b \in Int
    OBVIOUS
  <2> QED BY <2>1, <2>2
<1>4. \A f \in Factors : w[f] \in 0 .. 100
  OBVIOUS
<1>5. \A f \in Factors : Rounded(Raw(r)[f] * w[f]) \in 0 .. 100
  <2> SUFFICES ASSUME NEW f \in Factors PROVE Rounded(Raw(r)[f] * w[f]) \in 0 .. 100
    OBVIOUS
  <2>1. Raw(r)[f] * w[f] \in Nat /\ Raw(r)[f] * w[f] <= 10000
    <3>1. Raw(r)[f] \in 0 .. 100 /\ w[f] \in 0 .. 100
      BY <1>2, <1>4
    <3> DEFINE x == Raw(r)[f]
               y == w[f]
    <3>2. x \in 0 .. 100 /\ y \in 0 .. 100
      BY <3>1
    <3> HIDE DEF x, y
    <3>3. x * y \in Nat /\ x * y <= 10000
      BY <1>3, <3>2
    <3> QED BY <3>3 DEF x, y
  <2> DEFINE z == Raw(r)[f] * w[f]
  <2>2. z \in Nat /\ z <= 10000
    BY <2>1
  <2> HIDE DEF z
  <2>3. Rounded(z) \in 0 .. 100
    BY <1>1, <2>2
  <2> QED BY <2>3 DEF z
<1> QED BY <1>5 DEF Contribution

(* What a request makes of a row is a row. *)
LEMMA ResultTyped ==
  ASSUME AssessmentInv, NEW p \in Puts, NEW row \in ConfigRow
  PROVE  Result(p, row) \in ConfigRow
<1>1. put[p].change \in Changes
  BY DEF AssessmentInv, AssessmentTypeOK
<1>2. /\ put[p].change.allow \in 0 .. 100 \cup {Unset} /\ put[p].change.approval \in 0 .. 100 \cup {Unset}
      /\ put[p].change.weights \in Profiles \cup {Unset}
  BY <1>1, AssessmentAssumption
<1>3. row.allow \in 0 .. 100 /\ row.approval \in 0 .. 100 /\ row.weights \in Profiles
  BY DEF ConfigRow
<1> QED BY <1>2, <1>3 DEF Result, Chosen, ConfigRow

LEMMA DefaultTyped == DefaultConfig \in ConfigRow
  BY AssessmentAssumption DEF DefaultConfig, ConfigRow

(* A step of one request that sets the configuration. *)
LEMMA PutTyped ==
  ASSUME AssessmentInv, NEW p \in Puts, UNCHANGED <<modes, modePut, evaluation>>,
         put' \in [Puts -> PutRow], \A o \in Puts \ {p} : put'[o] = put[o],
         config' = config \/ config' \in ConfigRow,
         put'[p].pc = "read" => config' \in ConfigRow
  PROVE  AssessmentInv'
<1>1. \A o \in Puts : put'[o].change \in Changes /\ put'[o].pc \in PutPlaces /\ put'[o].seen \in ConfigRow
  BY DEF PutRow
<1>2. AssessmentTypeOK'
  BY <1>1 DEF AssessmentInv, AssessmentTypeOK, ConfigRow
<1>3. \A o \in Puts : put'[o].pc = "read" => config' \in ConfigRow
  BY DEF AssessmentInv
<1> QED BY <1>2, <1>3 DEF AssessmentInv

LEMMA AssessmentTyped == AssessmentSpec => []AssessmentTypeOK
<1>1. AssessmentInit(Requests, Changes, Controls) => AssessmentInv
  <2> SUFFICES ASSUME AssessmentInit(Requests, Changes, Controls) PROVE AssessmentInv
    OBVIOUS
  <2>1. put \in [Puts -> PutRow] /\ \A p \in Puts : put[p].pc = "new"
    BY DefaultTyped DEF AssessmentInit, PutRow, PutPlaces
  <2>2. evaluation \in [Evaluations -> VerdictRow]
    BY DEF AssessmentInit, VerdictRow
  <2>3. modePut \in [ModePuts -> [control : Controls, mode : {"advisory", "enforce"},
                                 pc : {"new", "insert", "update", "done", "failed"}]]
    BY DEF AssessmentInit
  <2>4. modes \in [Controls -> {Unset, "advisory", "enforce"}] /\ config \in {Unset} \cup ConfigRow
    BY DefaultTyped DEF AssessmentInit
  <2>5. \A p \in Puts : put[p].change \in Changes /\ put[p].pc \in PutPlaces /\ put[p].seen \in ConfigRow
    BY <2>1 DEF PutRow
  <2> QED BY <2>1, <2>2, <2>3, <2>4, <2>5 DEF AssessmentInv, AssessmentTypeOK, ConfigRow, VerdictRow
<1>2. AssessmentInv /\ [AssessmentNext]_assessmentVars => AssessmentInv'
  <2> SUFFICES ASSUME AssessmentInv, [AssessmentNext]_assessmentVars PROVE AssessmentInv'
    OBVIOUS
  <2>0. /\ put \in [Puts -> PutRow] /\ evaluation \in [Evaluations -> VerdictRow]
        /\ config \in {Unset} \cup ConfigRow /\ modes \in [Controls -> {Unset, "advisory", "enforce"}]
    BY DEF AssessmentInv, AssessmentTypeOK, VerdictRow, ConfigRow
  <2>1. CASE GetRiskConfig
    BY <2>1, DefaultTyped DEF GetRiskConfig, AssessmentInv, AssessmentTypeOK, ConfigRow
  <2>2. ASSUME NEW p \in Puts, NEW place \in PutPlaces, put' = [put EXCEPT ![p].pc = place]
        PROVE  /\ put' \in [Puts -> PutRow] /\ put'[p].pc = place
               /\ \A o \in Puts \ {p} : put'[o] = put[o]
    BY <2>0, <2>2 DEF PutRow
  <2>3. ASSUME NEW p \in Puts, ReadConfig(p) PROVE AssessmentInv'
    <3>1. CASE config = Unset
      <4>1. put' = [put EXCEPT ![p].pc = "insert"] /\ UNCHANGED <<config, modes, modePut, evaluation>>
        BY <2>3, <3>1 DEF ReadConfig
      <4> QED BY <2>2, <4>1, PutTyped DEF PutPlaces
    <3>2. CASE config # Unset
      <4>1. put' = [put EXCEPT ![p].pc = "read", ![p].seen = config] /\ config \in ConfigRow
            /\ UNCHANGED <<config, modes, modePut, evaluation>>
        BY <2>0, <2>3, <3>2 DEF ReadConfig
      <4>2. put' = [put EXCEPT ![p] = [put[p] EXCEPT !.pc = "read", !.seen = config]]
        BY <4>1
      <4>3. [put[p] EXCEPT !.pc = "read", !.seen = config] \in PutRow
        BY <2>0, <4>1 DEF PutRow, PutPlaces
      <4>4. put' \in [Puts -> PutRow] /\ \A o \in Puts \ {p} : put'[o] = put[o]
        BY <2>0, <4>2, <4>3
      <4> QED BY <4>1, <4>4, PutTyped
    <3> QED BY <3>1, <3>2
  <2>4. ASSUME NEW p \in Puts, CreateConfig(p) PROVE AssessmentInv'
    <3>1. Result(p, DefaultConfig) \in ConfigRow
      BY DefaultTyped, ResultTyped
    <3>2. /\ config' = config \/ config' = Result(p, DefaultConfig)
          /\ \E place \in {"failed", "done", "rejected"} : put' = [put EXCEPT ![p].pc = place]
          /\ UNCHANGED <<modes, modePut, evaluation>>
      BY <2>4 DEF CreateConfig
    <3>3. PICK place \in {"failed", "done", "rejected"} : put' = [put EXCEPT ![p].pc = place]
      BY <3>2
    <3>4. /\ put' \in [Puts -> PutRow] /\ put'[p].pc = place
          /\ \A o \in Puts \ {p} : put'[o] = put[o]
      BY <2>2, <3>3 DEF PutPlaces
    <3> QED BY <3>1, <3>2, <3>4, PutTyped
  <2>5. ASSUME NEW p \in Puts, UpdateConfig(p) PROVE AssessmentInv'
    <3> DEFINE new == Result(p, put[p].seen)
    <3>1. put[p].seen \in ConfigRow /\ put[p].pc = "read" /\ config \in ConfigRow
      BY <2>0, <2>5 DEF UpdateConfig, PutRow, AssessmentInv
    <3>2. new \in ConfigRow
      BY <3>1, ResultTyped
    <3>3. /\ new.allow \in 0 .. 100 /\ new.approval \in 0 .. 100 /\ new.weights \in Profiles
          /\ config.allow \in 0 .. 100 /\ config.approval \in 0 .. 100 /\ config.weights \in Profiles
      BY <3>1, <3>2 DEF ConfigRow
    <3>4. /\ UNCHANGED <<modes, modePut, evaluation>>
          /\ \/ config' = config
             \/ config' = [allow |-> IF new["allow"] = put[p].seen["allow"] THEN config["allow"] ELSE new["allow"],
                           approval |-> IF new["approval"] = put[p].seen["approval"]
                                        THEN config["approval"] ELSE new["approval"],
                           weights |-> IF new["weights"] = put[p].seen["weights"]
                                       THEN config["weights"] ELSE new["weights"]]
          /\ \E place \in {"done", "rejected"} : put' = [put EXCEPT ![p].pc = place]
      BY <2>5 DEF UpdateConfig
    <3>5. config' \in ConfigRow
      <4> HIDE DEF new
      <4> QED BY <3>1, <3>3, <3>4 DEF ConfigRow
    <3>6. PICK place \in {"done", "rejected"} : put' = [put EXCEPT ![p].pc = place]
      BY <3>4
    <3>7. /\ put' \in [Puts -> PutRow] /\ put'[p].pc = place
          /\ \A o \in Puts \ {p} : put'[o] = put[o]
      BY <2>2, <3>6 DEF PutPlaces
    <3> QED BY <3>4, <3>5, <3>7, PutTyped
  <2>6. ASSUME NEW p \in ModePuts, ReadMode(p) \/ WriteMode(p) PROVE AssessmentInv'
    <3> DEFINE ModeRow == [control : Controls, mode : {"advisory", "enforce"},
                           pc : {"new", "insert", "update", "done", "failed"}]
    <3>1. modePut \in [ModePuts -> ModeRow] /\ UNCHANGED <<config, put, evaluation>>
      BY <2>6 DEF AssessmentInv, AssessmentTypeOK, ReadMode, WriteMode
    <3>2. \E place \in {"insert", "update", "done", "failed"} : modePut' = [modePut EXCEPT ![p].pc = place]
      BY <2>6 DEF ReadMode, WriteMode
    <3>3. modePut' \in [ModePuts -> ModeRow]
      BY <3>1, <3>2
    <3>4. modePut[p].control \in Controls /\ modePut[p].mode \in {"advisory", "enforce"}
      BY <3>1
    <3>5. modes' \in [Controls -> {Unset, "advisory", "enforce"}]
      BY <2>0, <2>6, <3>4 DEF ReadMode, WriteMode
    <3> QED BY <3>1, <3>3, <3>5 DEF AssessmentInv, AssessmentTypeOK
  <2>7. ASSUME evaluation' \in [Evaluations -> VerdictRow], UNCHANGED <<config, modes, put, modePut>>
        PROVE  AssessmentInv'
    BY <2>7 DEF AssessmentInv, AssessmentTypeOK, VerdictRow
  <2>8. ASSUME NEW e \in Evaluations, ScoreRisk(e) PROVE AssessmentInv'
    <3> DEFINE v == evaluation[e]
               raw == Raw(v.request)
               d == AfterRisk(v.decision, Score(raw, Settings.weights), Settings)
               l == Level(Score(raw, Settings.weights))
               parts == Contribution(raw, Settings.weights)
    <3>1. v \in VerdictRow /\ v.request \in Request /\ v.decision \in Decisions
      BY <2>0, AssessmentAssumption DEF VerdictRow
    <3>2. Settings.weights \in [Factors -> 0 .. 100]
      <4>1. Settings \in ConfigRow
        BY <2>0, DefaultTyped DEF Settings
      <4> QED BY <4>1, AssessmentAssumption DEF ConfigRow
    <3>3. parts \in [Factors -> 0 .. 100]
      BY <3>1, <3>2, PartsTyped
    <3>4. d \in Decisions /\ l \in {"low", "medium", "high"}
      BY <3>1, RiskTightens DEF Level
    <3>5. evaluation' = [evaluation EXCEPT ![e].decision = d, ![e].level = l, ![e].parts = parts,
                                          ![e].pc = "scored"]
      BY <2>8 DEF ScoreRisk
    <3>6. UNCHANGED <<config, modes, put, modePut>>
      BY <2>8 DEF ScoreRisk
    <3> HIDE DEF d, l, parts
    <3>7. evaluation' = [evaluation EXCEPT ![e] =
            [v EXCEPT !.decision = d, !.level = l, !.parts = parts, !.pc = "scored"]]
      BY <3>5
    <3>8. [v EXCEPT !.decision = d, !.level = l, !.parts = parts, !.pc = "scored"] \in VerdictRow
      <4> HIDE DEF v
      <4> QED BY <3>1, <3>3, <3>4 DEF VerdictRow
    <3>9. evaluation' \in [Evaluations -> VerdictRow]
      BY <2>0, <3>7, <3>8
    <3> QED BY <2>7, <3>6, <3>9
  <2>9. ASSUME NEW e \in Evaluations, SkipRisk(e) \/ ControlsFail(e) PROVE AssessmentInv'
    <3>1. \E place \in {"scored", "answered"} : evaluation' = [evaluation EXCEPT ![e].pc = place]
      BY <2>9 DEF SkipRisk, ControlsFail
    <3>2. evaluation[e] \in VerdictRow
      BY <2>0
    <3>3. \A place \in {"scored", "answered"} : [evaluation[e] EXCEPT !.pc = place] \in VerdictRow
      <4> DEFINE v == evaluation[e]
      <4>1. v \in VerdictRow
        BY <3>2
      <4> HIDE DEF v
      <4>2. \A place \in {"scored", "answered"} : [v EXCEPT !.pc = place] \in VerdictRow
        BY <4>1 DEF VerdictRow
      <4> QED BY <4>2 DEF v
    <3>4. evaluation' \in [Evaluations -> VerdictRow]
      BY <2>0, <3>1, <3>3
    <3> QED BY <2>7, <2>9, <3>4 DEF SkipRisk, ControlsFail
  <2>10. ASSUME NEW e \in Evaluations, RunControls(e) PROVE AssessmentInv'
    <3> DEFINE v == evaluation[e]
               d == AfterControls(v.request, v.decision, ModeOf, v.level, v.parts)
    <3>1. v \in VerdictRow /\ v.decision \in Decisions
      BY <2>0 DEF VerdictRow
    <3>2. d \in Decisions
      BY <3>1, ControlsTighten
    <3>3. evaluation' = [evaluation EXCEPT ![e].decision = d, ![e].pc = "answered"]
          /\ UNCHANGED <<config, modes, put, modePut>>
      BY <2>10 DEF RunControls
    <3> HIDE DEF d
    <3>4. evaluation' = [evaluation EXCEPT ![e] = [v EXCEPT !.decision = d, !.pc = "answered"]]
      BY <3>3
    <3>5. [v EXCEPT !.decision = d, !.pc = "answered"] \in VerdictRow
      <4> HIDE DEF v
      <4> QED BY <3>1, <3>2 DEF VerdictRow
    <3>6. evaluation' \in [Evaluations -> VerdictRow]
      BY <2>0, <3>4, <3>5
    <3> QED BY <2>7, <3>3, <3>6
  <2>11. CASE UNCHANGED assessmentVars
    BY <2>11 DEF assessmentVars, AssessmentInv, AssessmentTypeOK
  <2> QED BY <2>1, <2>3, <2>4, <2>5, <2>6, <2>8, <2>9, <2>10, <2>11 DEF AssessmentNext
<1>3. AssessmentInv => AssessmentTypeOK
  BY DEF AssessmentInv
<1> QED BY <1>1, <1>2, <1>3, PTL DEF AssessmentSpec

-------------------------------------------------------------------------------
(* Rate limiter *)

LEMMA FillsInTime ==
  FillTime \in Nat /\ FillTime * Refill >= Burst
<1>1. /\ Burst \in Nat /\ Refill \in Nat /\ Refill > 0
      /\ Burst + Refill - 1 \in Nat
  BY LimiterAssumption
<1> DEFINE n == Burst + Refill - 1
           q == n \div Refill
           r == n % Refill
<1>2. n \in Nat
  BY <1>1
<1> HIDE DEF n
<1>3. q \in Nat /\ r \in 0 .. Refill - 1 /\ n = Refill * q + r
  BY <1>1, <1>2
<1> HIDE DEF q, r
<1>4. n <= Refill * q + Refill - 1
  BY <1>1, <1>2, <1>3
<1>5. Burst <= Refill * q
  BY <1>1, <1>3, <1>4 DEF n
<1>6. q * Refill = Refill * q
  BY <1>1, <1>3
<1> QED BY <1>3, <1>5, <1>6 DEF FillTime, q, n

(* What a script finds never exceeds the bucket, nor what it has gained.    *)
LEMMA RefilledType ==
  ASSUME LimiterTypeOK, NEW n \in 0 .. LimiterHorizon
  PROVE  /\ Refilled(n) \in 0 .. Burst
         /\ Taken(n) \in [tokens : 0 .. Burst, stamp : 0 .. LimiterHorizon,
                          written : 0 .. LimiterHorizon]
         /\ Lag(n) \in Nat
<1> USE LimiterAssumption
<1> DEFINE gain == Larger(0, n - bucket.stamp)
<1>1. /\ bucket.tokens \in 0 .. Burst /\ bucket.stamp \in 0 .. LimiterHorizon
      /\ clock \in 0 .. LimiterHorizon
  BY DEF LimiterTypeOK
<1>2. gain \in Nat
  BY <1>1 DEF Larger
<1> HIDE DEF gain
<1>3. gain * Refill \in Nat
  BY <1>2
<1>4. Smaller(Burst, bucket.tokens + gain * Refill) \in 0 .. Burst
  BY <1>1, <1>3 DEF Smaller
<1>5. Refilled(n) \in 0 .. Burst
  BY <1>4 DEF Refilled, gain
<1>6. Taken(n) \in [tokens : 0 .. Burst, stamp : 0 .. LimiterHorizon,
                   written : 0 .. LimiterHorizon]
  BY <1>1, <1>5 DEF Taken
<1>7. Lag(n) \in Nat
  BY <1>1, FillsInTime DEF Lag, Larger
<1> QED BY <1>5, <1>6, <1>7

THEOREM LimiterTyped == LimiterSpec => []LimiterTypeOK
<1>1. LimiterInit => LimiterTypeOK
  BY LimiterAssumption DEF LimiterInit, LimiterTypeOK, Verdicts
<1>2. LimiterTypeOK /\ [LimiterNext]_limiterVars => LimiterTypeOK'
  <2> SUFFICES ASSUME LimiterTypeOK, [LimiterNext]_limiterVars PROVE LimiterTypeOK'
    OBVIOUS
  <2> USE LimiterAssumption
  <2>1. ASSUME NEW h \in Hits, Arrive(h) PROVE LimiterTypeOK'
    BY <2>1 DEF Arrive, LimiterTypeOK, Verdicts
  <2>2. ASSUME NEW h \in Hits, EvalScript(h) \/ AnswerLost(h) PROVE LimiterTypeOK'
    <3> DEFINE n == hit[h].at
    <3>1. n \in 0 .. LimiterHorizon
      BY DEF LimiterTypeOK
    <3>2. bucket' = Taken(n) /\ late' = late + Lag(n) /\ clock' = clock
      BY <2>2 DEF EvalScript, AnswerLost
    <3>3. \E v \in Verdicts : hit' = [hit EXCEPT ![h] = [state |-> v, at |-> 0]]
      BY <2>2 DEF EvalScript, AnswerLost, Over, Verdicts
    <3>4. hit' \in [Hits -> [state : Verdicts, at : 0 .. LimiterHorizon]]
      BY <3>3 DEF LimiterTypeOK
    <3> QED BY <3>1, <3>2, <3>4, RefilledType DEF LimiterTypeOK
  <2>3. ASSUME NEW h \in Hits, RedisUnavailable(h) PROVE LimiterTypeOK'
    BY <2>3 DEF RedisUnavailable, Over, LimiterTypeOK, Verdicts
  <2>4. CASE Pass
    BY <2>4 DEF Pass, LimiterTypeOK
  <2>5. CASE UNCHANGED limiterVars
    BY <2>5 DEF limiterVars, LimiterTypeOK
  <2> QED BY <2>1, <2>2, <2>3, <2>4, <2>5 DEF LimiterNext
<1> QED BY <1>1, <1>2, PTL DEF LimiterSpec

(* The sum that a script keeps: what it finds in the bucket, at the time to *)
(* which it moves the bucket, is paid for by the ticks and by its lag.      *)
LEMMA PaidFor ==
  ASSUME LimiterTypeOK, NeverOverAdmits, NEW n \in 0 .. LimiterHorizon,
         NEW spent \in Nat, spent + bucket.tokens <= Burst + Refill * (bucket.stamp + late)
  PROVE  spent + Refilled(n) <= Burst + Refill * (n + late + Lag(n))
<1> USE LimiterAssumption
<1> DEFINE s == bucket.stamp
           gain == Larger(0, n - s)
<1>1. /\ bucket.tokens \in 0 .. Burst /\ s \in Nat /\ late \in Nat /\ n \in Nat
      /\ Burst \in Nat /\ Refill \in Nat
  BY DEF LimiterTypeOK
<1>2. FillTime \in Nat /\ Refill * FillTime >= Burst
  BY FillsInTime, <1>1
<1>3. Lag(n) \in Nat /\ Refilled(n) \in Nat
  BY RefilledType
<1>4. CASE ~Expired(clock)
  <2>1. gain \in Nat /\ s + gain = n + Lag(n)
    BY <1>1, <1>4 DEF Lag, Larger
  <2>2. Refilled(n) = Smaller(Burst, bucket.tokens + gain * Refill)
    BY <1>4 DEF Refilled
  <2> HIDE DEF gain, s
  <2>3. Refilled(n) <= bucket.tokens + Refill * gain
    BY <1>1, <2>1, <2>2 DEF Smaller
  <2>4. n + late + Lag(n) = (s + late) + gain
    <3> DEFINE lag == Lag(n)
    <3>1. lag \in Nat /\ gain \in Nat /\ s \in Nat /\ n \in Nat /\ late \in Nat /\ s + gain = n + lag
      BY <1>1, <1>3, <2>1
    <3> HIDE DEF lag
    <3>2. n + late + lag = (s + late) + gain
      BY <3>1
    <3> QED BY <3>2 DEF lag
  <2>5. Refill * ((s + late) + gain) = Refill * (s + late) + Refill * gain
    BY <1>1, <2>1
  <2>6. Refill * (s + late) \in Nat /\ Refill * gain \in Nat
    BY <1>1, <2>1
  <2>7. spent + bucket.tokens <= Burst + Refill * (s + late)
    BY DEF s
  <2> QED BY <1>1, <1>3, <2>3, <2>4, <2>5, <2>6, <2>7
<1>5. CASE Expired(clock)
  <2>1. Refilled(n) = Burst
    BY <1>5 DEF Refilled
  <2>2. n + Lag(n) >= s + FillTime
    BY <1>1, <1>2, <1>5 DEF Lag, Larger
  <2> HIDE DEF s
  <2> DEFINE more == n + Lag(n) - (s + FillTime)
  <2>3. more \in Nat /\ n + late + Lag(n) = (s + late) + FillTime + more
    BY <1>1, <1>2, <1>3, <2>2
  <2> HIDE DEF more
  <2>4. Refill * ((s + late) + FillTime + more)
          = Refill * (s + late) + Refill * FillTime + Refill * more
    BY <1>1, <1>2, <2>3
  <2>5. Refill * (s + late) \in Nat /\ Refill * FillTime \in Nat /\ Refill * more \in Nat
    BY <1>1, <1>2, <2>3
  <2>6. spent + bucket.tokens <= Burst + Refill * (s + late)
    BY DEF s
  <2> QED BY <1>1, <1>2, <2>1, <2>3, <2>4, <2>5, <2>6
<1> QED BY <1>4, <1>5

(* Every bound on the admissions holds for all bursts, rates and orders in  *)
(* which the requests reach Redis.                                          *)
THEOREM Admissions == LimiterSpec => []NeverOverAdmits
<1> USE LimiterAssumption
<1>0. IsFiniteSet(Admitted) /\ Cardinality(Admitted) \in Nat
  BY FS_Subset, FS_CardinalityType DEF Admitted
<1>1. LimiterInit => NeverOverAdmits
  <2> SUFFICES ASSUME LimiterInit PROVE NeverOverAdmits
    OBVIOUS
  <2>1. Admitted = {}
    BY DEF LimiterInit, Admitted
  <2>2. Cardinality(Admitted) = 0
    BY <2>1, FS_EmptySet
  <2>3. 0 * Token = 0 /\ Refill * (0 + 0) = 0
    OBVIOUS
  <2>4. bucket.tokens = Burst /\ bucket.stamp = 0 /\ late = 0
    BY DEF LimiterInit
  <2> QED BY <2>2, <2>3, <2>4 DEF NeverOverAdmits
<1>2. LimiterTypeOK /\ NeverOverAdmits /\ [LimiterNext]_limiterVars => NeverOverAdmits'
  <2> SUFFICES ASSUME LimiterTypeOK, NeverOverAdmits, [LimiterNext]_limiterVars
               PROVE  NeverOverAdmits'
    OBVIOUS
  <2> DEFINE count == Cardinality(Admitted)
             spent == count * Token
  <2>1. spent \in Nat /\ spent + bucket.tokens <= Burst + Refill * (bucket.stamp + late)
    BY <1>0 DEF NeverOverAdmits
  <2>2. CASE Admitted' = Admitted /\ UNCHANGED <<bucket, late>>
    BY <2>2 DEF NeverOverAdmits
  <2>3. ASSUME NEW h \in Hits, Arrive(h) \/ RedisUnavailable(h) PROVE NeverOverAdmits'
    <3>1. Admitted' = Admitted /\ UNCHANGED <<bucket, late>>
      BY <2>3 DEF Arrive, RedisUnavailable, Over, Admitted, LimiterTypeOK
    <3> QED BY <2>2, <3>1
  <2>4. ASSUME NEW h \in Hits, EvalScript(h) \/ AnswerLost(h) PROVE NeverOverAdmits'
    <3> DEFINE n == hit[h].at
    <3>1. n \in 0 .. LimiterHorizon /\ hit[h].state = "sent"
      BY <2>4 DEF LimiterTypeOK, EvalScript, AnswerLost
    <3>2. bucket' = Taken(n) /\ late' = late + Lag(n)
      BY <2>4 DEF EvalScript, AnswerLost
    <3>3. /\ Refilled(n) \in Nat /\ Lag(n) \in Nat /\ late \in Nat /\ n \in Nat
          /\ spent + Refilled(n) <= Burst + Refill * (n + late + Lag(n))
      <4>1. spent + Refilled(n) <= Burst + Refill * (n + late + Lag(n))
        <5> HIDE DEF spent
        <5> QED BY <2>1, <3>1, PaidFor
      <4> QED BY <4>1, <3>1, RefilledType DEF LimiterTypeOK
    <3>4. /\ bucket'.stamp = n /\ late' \in Nat
          /\ bucket'.tokens = IF Refilled(n) >= Token THEN Refilled(n) - Token ELSE Refilled(n)
      BY <3>2, <3>3 DEF Taken
    <3>5. n + late + Lag(n) = bucket'.stamp + late'
      BY <3>2, <3>3, <3>4
    <3>6. CASE Admitted' = Admitted
      BY <2>1, <3>3, <3>4, <3>5, <3>6 DEF NeverOverAdmits
    <3>7. CASE EvalScript(h) /\ Refilled(n) >= Token
      <4>1. Admitted' = Admitted \cup {h} /\ h \notin Admitted
        BY <3>1, <3>7 DEF EvalScript, Over, Admitted, LimiterTypeOK
      <4>2. Cardinality(Admitted') = count + 1
        BY <4>1, <1>0, FS_AddElement
      <4>3. (count + 1) * Token = spent + Token
        BY <1>0
      <4>4. bucket'.tokens = Refilled(n) - Token
        BY <3>4, <3>7
      <4>5. Cardinality(Admitted)' * Token = spent + Token
        BY <4>2, <4>3
      <4> HIDE DEF spent
      <4> QED BY <2>1, <3>3, <3>5, <4>4, <4>5 DEF NeverOverAdmits
    <3>8. CASE AnswerLost(h) \/ ~(Refilled(n) >= Token)
      <4>1. Admitted' = Admitted
        BY <2>4, <3>1, <3>8 DEF EvalScript, AnswerLost, Over, Admitted, LimiterTypeOK
      <4> QED BY <3>6, <4>1
    <3> QED BY <2>4, <3>7, <3>8
  <2>5. CASE Pass \/ UNCHANGED limiterVars
    BY <2>2, <2>5 DEF Pass, limiterVars, Admitted
  <2> QED BY <2>3, <2>4, <2>5 DEF LimiterNext
<1> QED BY <1>1, <1>2, LimiterTyped, PTL DEF LimiterSpec

-------------------------------------------------------------------------------
(* Provisioning *)

THEOREM ProvisioningTyped == ProvisioningSpec => []ProvisioningTypeOK
<1> USE ProvisioningAssumption DEF Slugs, Makers, SeedSet, CallPlaces, ServerPlaces
<1>1. ProvisioningInit => ProvisioningTypeOK
  <2> SUFFICES ASSUME ProvisioningInit PROVE ProvisioningTypeOK
    OBVIOUS
  <2>1. signup \in [Signups -> [kind : {"sign_in", "webhook"}, slug : Users, pc : CallPlaces,
                               answer : Makers]]
    BY DEF ProvisioningInit
  <2>2. server \in [Workers -> [pc : ServerPlaces, firstBoot : BOOLEAN]]
    BY DEF ProvisioningInit
  <2> QED BY <2>1, <2>2 DEF ProvisioningInit, ProvisioningTypeOK
<1>2. ProvisioningTypeOK /\ [ProvisioningNext]_provisioningVars => ProvisioningTypeOK'
  <2> SUFFICES ASSUME ProvisioningTypeOK, [ProvisioningNext]_provisioningVars
               PROVE  ProvisioningTypeOK'
    OBVIOUS
  <2> USE DEF ProvisioningTypeOK
  <2>a. ASSUME NEW c \in Signups, NEW maker \in Makers, AnswersWith(c, maker)
        PROVE  signup' \in [Signups -> [kind : {"sign_in", "webhook"}, slug : Users, pc : CallPlaces,
                                  answer : Makers]]
    <3> DEFINE old == signup[c]
    <3>1. old \in [kind : {"sign_in", "webhook"}, slug : Users, pc : CallPlaces, answer : Makers]
      OBVIOUS
    <3> HIDE DEF old
    <3>2. [old EXCEPT !.pc = "answered"]
            \in [kind : {"sign_in", "webhook"}, slug : Users, pc : CallPlaces, answer : Makers]
      BY <3>1
    <3> DEFINE mid == [old EXCEPT !.pc = "answered"]
    <3> HIDE DEF mid
    <3>3. [mid EXCEPT !.answer = maker]
            \in [kind : {"sign_in", "webhook"}, slug : Users, pc : CallPlaces, answer : Makers]
      BY <3>2 DEF mid
    <3> DEFINE new == [mid EXCEPT !.answer = maker]
    <3>4. signup' = [signup EXCEPT ![c] = new]
      BY <2>a DEF AnswersWith, mid, old
    <3> HIDE DEF new
    <3> QED BY <3>3, <3>4 DEF new
  <2>1. ASSUME NEW c \in Signups, FindOrg(c) PROVE ProvisioningTypeOK'
    <3>1. CASE AnswersWith(c, org[signup[c].slug])
      <4>1. org[signup[c].slug] \in Makers
        OBVIOUS
      <4> QED BY <2>1, <2>a, <3>1, <4>1 DEF FindOrg, Idle
    <3>2. CASE Proceeds(c, "insert")
      BY <2>1, <3>2 DEF FindOrg, Proceeds, Idle
    <3> QED BY <2>1, <3>1, <3>2 DEF FindOrg
  <2>2. ASSUME NEW c \in Signups, InsertOrg(c) PROVE ProvisioningTypeOK'
    BY <2>2, SMTT(30) DEF InsertOrg, Proceeds, RacedTo, Idle
  <2>3. ASSUME NEW c \in Signups, SeedDefaults(c) PROVE ProvisioningTypeOK'
    BY <2>3 DEF SeedDefaults, Proceeds, Idle
  <2>4. ASSUME NEW c \in Signups, ReadAgain(c) PROVE ProvisioningTypeOK'
    <3>1. Winner(c) \in Makers
      BY DEF Winner
    <3> QED BY <2>4, <2>a, <3>1 DEF ReadAgain, Idle
  <2>5. ASSUME NEW c \in Signups, CommitOrg(c) PROVE ProvisioningTypeOK'
    <3>1. signup[c].slug \in Slugs
      OBVIOUS
    <3>2. seeds' \in [Slugs -> SeedSet]
      BY <2>5 DEF CommitOrg, WithTrigger
    <3>3. org' \in [Slugs -> Makers] /\ slugHolder' \in [Slugs -> Makers]
      BY <2>5, <3>1 DEF CommitOrg
    <3>4. signup' \in [Signups -> [kind : {"sign_in", "webhook"}, slug : Users, pc : CallPlaces,
                                  answer : Makers]]
      BY <2>5, <2>a DEF CommitOrg
    <3> QED BY <2>5, <3>2, <3>3, <3>4 DEF CommitOrg, Idle
  <2>6. ASSUME NEW c \in Signups, CallFails(c) PROVE ProvisioningTypeOK'
    <3>1. slugHolder' \in [Slugs -> Makers]
      BY <2>6 DEF CallFails
    <3>2. signup' \in [Signups -> [kind : {"sign_in", "webhook"}, slug : Users, pc : CallPlaces,
                                  answer : Makers]]
      BY <2>6 DEF CallFails, Proceeds
    <3>3. UNCHANGED <<org, seeds, server, shown, deaths>>
      BY <2>6 DEF CallFails, Idle
    <3> QED BY <3>1, <3>2, <3>3
  <2>7. ASSUME NEW w \in Workers, StartWorker(w) \/ CheckLicense(w) \/ CountOrgs(w) \/ StartEngine(w)
        PROVE  ProvisioningTypeOK'
    <3>1. server' \in [Workers -> [pc : ServerPlaces, firstBoot : BOOLEAN]]
      <4>1. CASE StartWorker(w)
        BY <4>1 DEF StartWorker
      <4>2. CASE CheckLicense(w)
        <5>1. CASE Moves(w, "count")
          BY <5>1 DEF Moves
        <5>2. CASE Moves(w, "refused")
          BY <5>2 DEF Moves
        <5> QED BY <4>2, <5>1, <5>2 DEF CheckLicense
      <4>3. CASE CountOrgs(w)
        BY <4>3 DEF CountOrgs, Moves
      <4>4. CASE StartEngine(w)
        BY <4>4 DEF StartEngine, Moves
      <4> QED BY <2>7, <4>1, <4>2, <4>3, <4>4
    <3>2. UNCHANGED <<org, slugHolder, seeds, signup, shown, deaths>>
      BY <2>7 DEF StartWorker, CheckLicense, CountOrgs, StartEngine
    <3> QED BY <3>1, <3>2
  <2>8. ASSUME NEW w \in Workers, BootstrapInsert(w) PROVE ProvisioningTypeOK'
    BY <2>8 DEF BootstrapInsert, Moves
  <2>9. ASSUME NEW w \in Workers, BootstrapCommit(w) PROVE ProvisioningTypeOK'
    <3>1. seeds' \in [Slugs -> SeedSet]
      BY <2>9 DEF BootstrapCommit, WithTrigger
    <3> QED BY <2>9, <3>1 DEF BootstrapCommit
  <2>10. ASSUME NEW w \in Workers, PrintKey(w) PROVE ProvisioningTypeOK'
    BY <2>10 DEF PrintKey
  <2>11. ASSUME NEW w \in Workers, Quickstart(w) PROVE ProvisioningTypeOK'
    BY <2>11 DEF Quickstart, Moves
  <2>12. ASSUME NEW w \in Workers, QuickstartCommit(w) PROVE ProvisioningTypeOK'
    BY <2>12 DEF QuickstartCommit, Moves
  <2>13. ASSUME NEW w \in Workers, WorkerDies(w) PROVE ProvisioningTypeOK'
    BY <2>13 DEF WorkerDies, Moves
  <2>14. CASE UNCHANGED provisioningVars
    BY <2>14 DEF provisioningVars
  <2> QED BY <2>1, <2>2, <2>3, <2>4, <2>5, <2>6, <2>7, <2>8, <2>9, <2>10, <2>11, <2>12, <2>13,
             <2>14 DEF ProvisioningNext
<1> QED BY <1>1, <1>2, PTL DEF ProvisioningSpec

(* Who has inserted a slug holds it until the commit, and only while there  *)
(* is no organization of that name.                                         *)
SlugsHeld ==
  /\ \A s \in Slugs : slugHolder[s] # Nobody => org[s] = Nobody
  /\ \A c \in Signups : signup[c].pc \in {"seed", "commit"} => slugHolder[signup[c].slug] = c
  /\ \A w \in Workers : server[w].pc = "commit" => slugHolder[OnPrem] = w

(* Who has lost the race for a slug finds the organization of the winner.   *)
RaceWasWon == \A c \in Signups : signup[c].pc = "raced" => org[signup[c].slug] # Nobody

(* A first start is that of the worker whose organization was committed.    *)
FirstBootIsWinner ==
  \A w \in Workers :
    /\ server[w].pc \in {"license", "count", "insert", "commit"} => ~server[w].firstBoot
    /\ server[w].pc \in {"print", "seed", "seed_commit"} \/ (server[w].pc = "engine" /\ server[w].firstBoot)
         => org[OnPrem] = w
    /\ server[w].pc = "seed_commit" => seeds[OnPrem] = [default |-> 0, quickstart |-> 0]

SeedsWithOrg == seeds[OnPrem].quickstart # 0 => org[OnPrem] # Nobody

(* For any number of sign-ins, webhooks and workers, and any deaths, one     *)
(* organization is made of a name, and everybody is told that one.          *)
THEOREM OneOrganization == ProvisioningSpec => []ProvisionedOnce
<1> USE ProvisioningAssumption DEF Slugs
<1> DEFINE Rest == SlugsHeld /\ RaceWasWon /\ FirstBootIsWinner /\ SeedsWithOrg /\ ProvisionedOnce
<1>1. ProvisioningInit => Rest
  <2> SUFFICES ASSUME ProvisioningInit PROVE Rest
    OBVIOUS
  <2>1. \A c \in Signups : signup[c].pc \in {"new", "failed"}
    BY DEF ProvisioningInit
  <2>2. \A w \in Workers : server[w].pc \in {"down", "refused"}
    BY DEF ProvisioningInit
  <2>3. /\ \A s \in Slugs : org[s] = Nobody /\ slugHolder[s] = Nobody
        /\ seeds[OnPrem] = [default |-> 0, quickstart |-> 0] /\ shown = {}
    BY DEF ProvisioningInit
  <2>4. SlugsHeld /\ RaceWasWon /\ FirstBootIsWinner
    BY <2>1, <2>2, <2>3 DEF SlugsHeld, RaceWasWon, FirstBootIsWinner
  <2>5. SeedsWithOrg /\ StartedOnce /\ AnswersName
    BY <2>1, <2>3 DEF SeedsWithOrg, StartedOnce, AnswersName
  <2> QED BY <2>4, <2>5 DEF ProvisionedOnce
<1>2. ProvisioningTypeOK /\ Rest /\ [ProvisioningNext]_provisioningVars => Rest'
  <2> SUFFICES ASSUME ProvisioningTypeOK, Rest, [ProvisioningNext]_provisioningVars PROVE Rest'
    OBVIOUS
  <2>0. /\ \A c \in Signups : signup[c].slug \in Users /\ signup[c].kind \in {"sign_in", "webhook"}
        /\ DOMAIN signup = Signups /\ DOMAIN server = Workers
        /\ DOMAIN org = Slugs /\ DOMAIN slugHolder = Slugs
    BY DEF ProvisioningTypeOK
  <2> USE DEF SlugsHeld, RaceWasWon, FirstBootIsWinner, SeedsWithOrg, ProvisionedOnce,
              AnswersName, StartedOnce
  <2>a. ASSUME NEW c \in Signups, NEW place \in CallPlaces,
               signup' = [signup EXCEPT ![c].pc = place]
        PROVE  /\ signup'[c].pc = place /\ signup'[c].slug = signup[c].slug
               /\ signup'[c].kind = signup[c].kind
               /\ \A o \in Signups \ {c} : signup'[o] = signup[o]
    BY <2>a, <2>0 DEF ProvisioningTypeOK
  <2>b. ASSUME NEW c \in Signups, NEW maker, AnswersWith(c, maker)
        PROVE  /\ signup'[c].pc = "answered" /\ signup'[c].slug = signup[c].slug
               /\ signup'[c].kind = signup[c].kind /\ signup'[c].answer = maker
               /\ \A o \in Signups \ {c} : signup'[o] = signup[o]
    BY <2>b, <2>0 DEF ProvisioningTypeOK, AnswersWith
  <2>c. ASSUME NEW w \in Workers, NEW place, Moves(w, place)
        PROVE  /\ server'[w].pc = place /\ server'[w].firstBoot = server[w].firstBoot
               /\ \A o \in Workers \ {w} : server'[o] = server[o]
    BY <2>c, <2>0 DEF ProvisioningTypeOK, Moves
  <2>1. ASSUME NEW c \in Signups, FindOrg(c) PROVE Rest'
    <3>1. CASE AnswersWith(c, org[signup[c].slug]) /\ org[signup[c].slug] # Nobody
      BY <2>1, <3>1, <2>b DEF FindOrg, Idle
    <3>2. CASE Proceeds(c, "insert")
      BY <2>1, <3>2, <2>a DEF FindOrg, Idle, Proceeds, CallPlaces
    <3> QED BY <2>1, <3>1, <3>2 DEF FindOrg
  <2>2. ASSUME NEW c \in Signups, InsertOrg(c) PROVE Rest'
    <3> DEFINE s == signup[c].slug
    <3>1. CASE org[s] = Nobody
      <4>1. slugHolder' = [slugHolder EXCEPT ![s] = c] /\ slugHolder[s] = Nobody
        BY <2>2, <3>1 DEF InsertOrg
      <4>2. /\ signup'[c].pc = "seed" /\ signup'[c].slug = signup[c].slug
            /\ \A o \in Signups \ {c} : signup'[o] = signup[o]
        BY <2>2, <3>1, <2>a DEF InsertOrg, Proceeds, CallPlaces
      <4>3. s \in Slugs /\ s # OnPrem
        BY <2>0
      <4> QED BY <2>2, <3>1, <4>1, <4>2, <4>3, <2>0 DEF InsertOrg, Idle
    <3>2. CASE org[s] # Nobody
      <4>1. /\ signup'[c].pc \in {"raced", "answered"} /\ signup'[c].slug = signup[c].slug
            /\ signup'[c].kind = signup[c].kind
            /\ signup'[c].pc = "answered" => signup'[c].kind # "sign_in"
            /\ \A o \in Signups \ {c} : signup'[o] = signup[o]
        BY <2>2, <3>2, <2>a DEF InsertOrg, Proceeds, RacedTo, CallPlaces
      <4> QED BY <2>2, <3>2, <4>1 DEF InsertOrg, Idle
    <3> QED BY <3>1, <3>2
  <2>3. ASSUME NEW c \in Signups, SeedDefaults(c) PROVE Rest'
    BY <2>3, <2>a DEF SeedDefaults, Proceeds, CallPlaces, Idle
  <2>4. ASSUME NEW c \in Signups, ReadAgain(c) PROVE Rest'
    BY <2>4, <2>b DEF ReadAgain, Winner, Idle
  <2>5. ASSUME NEW c \in Signups, CommitOrg(c) PROVE Rest'
    <3> DEFINE s == signup[c].slug
    <3>1. /\ s \in Slugs /\ s # OnPrem /\ slugHolder[s] = c /\ c # Nobody /\ org[s] = Nobody
      BY <2>5, <2>0 DEF CommitOrg
    <3>2. /\ org'[s] = c /\ \A o \in Slugs \ {s} : org'[o] = org[o]
          /\ slugHolder'[s] = Nobody /\ \A o \in Slugs \ {s} : slugHolder'[o] = slugHolder[o]
          /\ seeds'[OnPrem] = seeds[OnPrem] /\ UNCHANGED <<server, shown>>
      BY <2>5, <2>0, <3>1 DEF CommitOrg, Idle, ProvisioningTypeOK
    <3>3. /\ signup'[c].pc = "answered" /\ signup'[c].slug = s
          /\ signup'[c].answer = c
          /\ \A o \in Signups \ {c} : signup'[o] = signup[o]
      BY <2>5, <2>b DEF CommitOrg
    <3> HIDE DEF s
    <3>4. \A o \in Signups \ {c} : signup[o].pc \in {"seed", "commit"} => signup[o].slug # s
      BY <3>1
    <3>5. \A o \in Signups \ {c} : signup[o].pc = "answered" => signup[o].slug # s
      BY <3>1
    <3>6. SlugsHeld'
      BY <2>0, <3>1, <3>2, <3>3, <3>4
    <3>7. RaceWasWon'
      BY <2>0, <3>1, <3>2, <3>3
    <3>8. AnswersName'
      BY <2>0, <3>1, <3>2, <3>3, <3>5
    <3>9. FirstBootIsWinner' /\ SeedsWithOrg' /\ StartedOnce'
      BY <3>1, <3>2
    <3> QED BY <3>6, <3>7, <3>8, <3>9
  <2>6. ASSUME NEW c \in Signups, CallFails(c) PROVE Rest'
    <3>1. /\ signup'[c].pc = "failed" /\ signup'[c].slug = signup[c].slug
          /\ \A o \in Signups \ {c} : signup'[o] = signup[o]
      BY <2>6, <2>a DEF CallFails, Proceeds, CallPlaces
    <3>2. /\ \A s \in Slugs : slugHolder'[s] = IF slugHolder[s] = c THEN Nobody ELSE slugHolder[s]
          /\ UNCHANGED <<org, seeds, server, shown>>
      BY <2>6 DEF CallFails, Idle
    <3> QED BY <2>0, <3>1, <3>2
  <2>7. ASSUME NEW w \in Workers, StartWorker(w) PROVE Rest'
    <3>1. /\ server'[w] = [pc |-> "license", firstBoot |-> FALSE]
          /\ \A o \in Workers \ {w} : server'[o] = server[o]
      BY <2>7, <2>0 DEF StartWorker
    <3> QED BY <2>7, <3>1 DEF StartWorker
  <2>8. ASSUME NEW w \in Workers, CheckLicense(w) PROVE Rest'
    BY <2>8, <2>c DEF CheckLicense
  <2>9. ASSUME NEW w \in Workers, CountOrgs(w) PROVE Rest'
    BY <2>9, <2>c DEF CountOrgs
  <2>10. ASSUME NEW w \in Workers, BootstrapInsert(w) PROVE Rest'
    <3>1. CASE org[OnPrem] = Nobody
      <4>1. /\ slugHolder' = [slugHolder EXCEPT ![OnPrem] = w] /\ slugHolder[OnPrem] = Nobody
            /\ Moves(w, "commit")
        BY <2>10, <3>1 DEF BootstrapInsert
      <4> QED BY <2>10, <3>1, <4>1, <2>0, <2>c DEF BootstrapInsert
    <3>2. CASE org[OnPrem] # Nobody
      BY <2>10, <3>2, <2>c DEF BootstrapInsert
    <3> QED BY <3>1, <3>2
  <2>11. ASSUME NEW w \in Workers, BootstrapCommit(w) PROVE Rest'
    <3>1. /\ slugHolder[OnPrem] = w /\ w # Nobody /\ org[OnPrem] = Nobody /\ OnPrem \in Slugs
          /\ seeds[OnPrem].quickstart = 0
      BY <2>11 DEF BootstrapCommit
    <3>2. shown = {}
      BY <3>1 DEF ProvisioningTypeOK
    <3>3. /\ org'[OnPrem] = w /\ \A o \in Slugs \ {OnPrem} : org'[o] = org[o]
          /\ slugHolder'[OnPrem] = Nobody
          /\ \A o \in Slugs \ {OnPrem} : slugHolder'[o] = slugHolder[o]
          /\ UNCHANGED <<signup, shown>>
      BY <2>11, <2>0 DEF BootstrapCommit
    <3>4. seeds'[OnPrem].quickstart = 0
      BY <2>11, <3>1 DEF BootstrapCommit, ProvisioningTypeOK, SeedSet
    <3>5. /\ server'[w].pc = "print" /\ \A o \in Workers \ {w} : server'[o] = server[o]
      BY <2>11, <2>0 DEF BootstrapCommit, ProvisioningTypeOK
    <3>6. \A o \in Workers \ {w} :
            /\ server[o].pc \notin {"commit", "print", "seed", "seed_commit"}
            /\ ~(server[o].pc = "engine" /\ server[o].firstBoot)
      BY <3>1
    <3>7. SlugsHeld' /\ RaceWasWon' /\ AnswersName'
      BY <2>0, <3>1, <3>3, <3>5, <3>6
    <3>8. FirstBootIsWinner'
      BY <3>3, <3>5, <3>6
    <3>9. SeedsWithOrg' /\ StartedOnce'
      BY <3>2, <3>3, <3>4
    <3> QED BY <3>7, <3>8, <3>9
  <2>12. ASSUME NEW w \in Workers, PrintKey(w) PROVE Rest'
    <3>1. /\ server'[w] = [pc |-> "engine", firstBoot |-> TRUE]
          /\ \A o \in Workers \ {w} : server'[o] = server[o]
          /\ org[OnPrem] = w
      BY <2>12, <2>0 DEF PrintKey
    <3> QED BY <2>12, <3>1 DEF PrintKey
  <2>13. ASSUME NEW w \in Workers, StartEngine(w) PROVE Rest'
    <3>1. CASE Moves(w, "refused")
      BY <2>13, <3>1, <2>c DEF StartEngine
    <3>2. CASE Moves(w, IF server[w].firstBoot THEN "seed" ELSE "serving")
      BY <2>13, <3>2, <2>c DEF StartEngine
    <3> QED BY <2>13, <3>1, <3>2 DEF StartEngine
  <2>14. ASSUME NEW w \in Workers, Quickstart(w) PROVE Rest'
    <3>1. CASE Moves(w, "serving")
      BY <2>14, <3>1, <2>c DEF Quickstart
    <3>2. CASE seeds[OnPrem] = [default |-> 0, quickstart |-> 0] /\ Moves(w, "seed_commit")
      BY <2>14, <3>2, <2>c DEF Quickstart
    <3> QED BY <2>14, <3>1, <3>2 DEF Quickstart
  <2>15. ASSUME NEW w \in Workers, QuickstartCommit(w) PROVE Rest'
    <3>1. seeds[OnPrem] = [default |-> 0, quickstart |-> 0] /\ org[OnPrem] = w
      BY <2>15 DEF QuickstartCommit
    <3>2. seeds'[OnPrem].default = 0 /\ seeds'[OnPrem].quickstart = 1
      BY <2>15, <3>1 DEF QuickstartCommit, ProvisioningTypeOK, SeedSet
    <3>3. \A o \in Workers \ {w} : server[o].pc # "seed_commit"
      BY <3>1
    <3>4. Moves(w, "serving") /\ UNCHANGED <<org, slugHolder, signup, shown>>
      BY <2>15 DEF QuickstartCommit
    <3> QED BY <2>c, <3>1, <3>2, <3>3, <3>4
  <2>16. ASSUME NEW w \in Workers, WorkerDies(w) PROVE Rest'
    <3>1. /\ \A s \in Slugs : slugHolder'[s] = IF slugHolder[s] = w THEN Nobody ELSE slugHolder[s]
          /\ Moves(w, "down") /\ UNCHANGED <<org, seeds, signup, shown>>
      BY <2>16 DEF WorkerDies
    <3> QED BY <2>0, <2>c, <3>1
  <2>17. CASE UNCHANGED provisioningVars
    BY <2>17 DEF provisioningVars
  <2> QED BY <2>1, <2>2, <2>3, <2>4, <2>5, <2>6, <2>7, <2>8, <2>9, <2>10, <2>11, <2>12, <2>13,
             <2>14, <2>15, <2>16, <2>17 DEF ProvisioningNext
<1>3. Rest => ProvisionedOnce
  OBVIOUS
<1> QED BY <1>1, <1>2, <1>3, ProvisioningTyped, PTL DEF ProvisioningSpec

-------------------------------------------------------------------------------
(* An agent's side of an approval *)

(* What a use has heard by the place where it is.                           *)
HeardRight ==
  \A u \in Uses :
    /\ Is(u, "asked") => use[u].verdict # "none"
    /\ use[u].verdict = "APPROVAL_REQUIRED" => approval[u].status # "none"
    /\ use[u].pc \in {"polling", "requesting", "replied", "sleeping"} => approval[u].status # "none"
    /\ Is(u, "replied") => use[u].seen # "none"
    /\ Is(u, "replied") /\ use[u].seen # "pending" => use[u].seen = approval[u].status
    /\ Is(u, "answered") => use[u].seen # "pending"

UseRow == [pc : UsePlaces, verdict : Verdict, seen : Status, since : 0 .. LastHour, mark : Nat]

(* Use u moves on to a place and learns nothing. *)
Went(u, place) ==
  /\ use' \in [Uses -> UseRow] /\ \A o \in Uses \ {u} : use'[o] = use[o]
  /\ use'[u].pc = place /\ use'[u].seen = use[u].seen /\ use'[u].verdict = use[u].verdict

(* A step of use u alone, that leaves the clock and the requests as they are. *)
LEMMA OwnStep ==
  ASSUME ClientTypeOK, HeardRight, NothingWithoutLeave, NEW u \in Uses,
         use' \in [Uses -> UseRow], \A o \in Uses \ {u} : use'[o] = use[o],
         UNCHANGED <<time, approval>>, use'[u].verdict = use[u].verdict,
         use'[u].pc = "asked" => use'[u].verdict # "none",
         use'[u].pc \in {"polling", "requesting", "replied", "sleeping"}
           => approval[u].status # "none",
         use'[u].pc = "replied" => use'[u].seen = approval[u].status,
         use'[u].pc = "ran" => use'[u].verdict = "ALLOW" \/ approval[u].status = "approved",
         use'[u].pc = "answered" => use'[u].seen = approval[u].status /\ use'[u].seen # "pending"
  PROVE  ClientTypeOK' /\ HeardRight' /\ NothingWithoutLeave'
<1>1. ClientTypeOK'
  BY DEF ClientTypeOK, UseRow
<1>2. HeardRight'
  BY DEF HeardRight, Is
<1>3. NothingWithoutLeave'
  BY DEF NothingWithoutLeave, Is
<1> QED BY <1>1, <1>2, <1>3

LEMMA GoesOn ==
  ASSUME ClientTypeOK, HeardRight, NothingWithoutLeave, NEW u \in Uses, UNCHANGED <<time, approval>>,
         \/ \E place \in {"failed", "cancelled", "timed_out", "refused"} : Went(u, place)
         \/ Went(u, "polling") /\ approval[u].status # "none"
         \/ Went(u, "ran") /\ approval[u].status = "approved"
         \/ Went(u, "answered") /\ use[u].seen = approval[u].status /\ use[u].seen # "pending"
  PROVE  ClientTypeOK' /\ HeardRight' /\ NothingWithoutLeave'
<1>1. CASE \E place \in {"failed", "cancelled", "timed_out", "refused"} : Went(u, place)
  BY <1>1, OwnStep DEF Went
<1>2. CASE Went(u, "polling") /\ approval[u].status # "none"
  BY <1>2, OwnStep DEF Went
<1>3. CASE Went(u, "ran") /\ approval[u].status = "approved"
  BY <1>3, OwnStep DEF Went
<1>4. CASE Went(u, "answered") /\ use[u].seen = approval[u].status /\ use[u].seen # "pending"
  BY <1>4, OwnStep DEF Went
<1> QED BY <1>1, <1>2, <1>3, <1>4

LEMMA ClientInvariant == ClientSpec => [](ClientTypeOK /\ HeardRight /\ NothingWithoutLeave)
<1> USE ClientAssumption
<1> DEFINE Inv == ClientTypeOK /\ HeardRight /\ NothingWithoutLeave
<1>1. ClientInit(Uses) => Inv
  BY DEF ClientInit, ClientTypeOK, HeardRight, NothingWithoutLeave, Is, UsePlaces, Verdict, Status
<1>2. Inv /\ [ClientNext]_clientVars => Inv'
  <2> SUFFICES ASSUME Inv, [ClientNext]_clientVars PROVE Inv'
    OBVIOUS
  <2>0. ASSUME NEW u \in Uses
        PROVE  /\ use[u] \in UseRow /\ DOMAIN use = Uses /\ DOMAIN approval = Uses
               /\ time \in 0 .. LastHour /\ time \in Nat
    BY DEF ClientTypeOK, UseRow
  <2>2. ASSUME NEW u \in Uses, Answers(u), Asked(u) PROVE Inv'
    <3>1. PICK v \in Verdict \ {"none"} :
            /\ use' = [use EXCEPT ![u].pc = "asked", ![u].verdict = v]
            /\ approval' = IF v = "APPROVAL_REQUIRED" THEN Requested(u) ELSE approval
      BY <2>2 DEF Answers
    <3>2. /\ use'[u].pc = "asked" /\ use'[u].verdict = v
          /\ \A o \in Uses \ {u} : use'[o] = use[o] /\ approval'[o] = approval[o]
      BY <2>0, <3>1 DEF UseRow, Requested
    <3>3. v = "APPROVAL_REQUIRED" => approval'[u].status = "pending"
      BY <2>0, <3>1 DEF Requested
    <3>4. use' \in [Uses -> UseRow]
      BY <3>1, ZenonT(30) DEF ClientTypeOK, UseRow, UsePlaces
    <3>5. approval' \in [Uses -> [status : Status, at : 0 .. LastHour]]
      BY <2>0, <3>1 DEF ClientTypeOK, Requested, Status
    <3>6. ClientTypeOK'
      BY <2>2, <3>4, <3>5 DEF ClientTypeOK, Answers, UseRow
    <3>7. HeardRight'
      BY <3>2, <3>3 DEF HeardRight, Is
    <3>8. NothingWithoutLeave'
      BY <3>2 DEF NothingWithoutLeave, Is
    <3> QED BY <3>6, <3>7, <3>8
  <2>3. ASSUME NEW u \in Uses, EvaluationRaises(u) PROVE Inv'
    <3>1. /\ use'[u].pc = "failed" /\ use'[u].verdict = use[u].verdict
          /\ \A o \in Uses \ {u} : use'[o] = use[o] /\ approval'[o] = approval[o]
      BY <2>0, <2>3 DEF EvaluationRaises, Now, UseRow, Requested
    <3>2. use' \in [Uses -> UseRow]
      BY <2>3 DEF EvaluationRaises, Now, ClientTypeOK, UseRow, UsePlaces
    <3>3. approval' \in [Uses -> [status : Status, at : 0 .. LastHour]]
      BY <2>0, <2>3 DEF EvaluationRaises, ClientTypeOK, Requested, Status
    <3>4. ClientTypeOK'
      BY <2>3, <3>2, <3>3 DEF ClientTypeOK, EvaluationRaises, UseRow
    <3>5. approval'[u].status \in {approval[u].status, "pending"}
      BY <2>0, <2>3 DEF EvaluationRaises, Requested
    <3>6. HeardRight'
      BY <3>1, <3>5 DEF HeardRight, Is
    <3>7. NothingWithoutLeave'
      BY <3>1 DEF NothingWithoutLeave, Is
    <3> QED BY <3>4, <3>6, <3>7
  <2>4. ASSUME NEW u \in Uses, Enforced(u) PROVE Inv'
    <3> DEFINE place == IF Permits(u) THEN "ran"
                        ELSE IF use[u].verdict = "DENY" THEN "refused" ELSE "polling"
    <3>1. /\ use' = [use EXCEPT ![u].pc = place, ![u].since = time]
          /\ Is(u, "asked") /\ UNCHANGED <<time, approval>>
      BY <2>4 DEF Enforced
    <3>2. use[u].verdict \in {"ALLOW", "DENY", "APPROVAL_REQUIRED"}
      BY <2>0, <3>1 DEF UseRow, Verdict, HeardRight
    <3>3. /\ place = "ran" => use[u].verdict = "ALLOW"
          /\ place = "polling" => use[u].verdict = "APPROVAL_REQUIRED"
          /\ place \in {"ran", "refused", "polling"}
      BY <3>2 DEF Permits
    <3> HIDE DEF place
    <3>4. use' \in [Uses -> UseRow] /\ \A o \in Uses \ {u} : use'[o] = use[o]
      BY <2>0, <3>1, <3>3, ZenonT(30) DEF ClientTypeOK, UseRow, UsePlaces
    <3>5. use'[u].pc = place /\ use'[u].verdict = use[u].verdict
      BY <2>0, <3>1 DEF UseRow
    <3>6. use[u].verdict = "APPROVAL_REQUIRED" => approval[u].status # "none"
      BY DEF HeardRight
    <3> QED BY <3>1, <3>3, <3>4, <3>5, <3>6, OwnStep
  <2>5. ASSUME NEW u \in Uses, CheckDeadline(u) PROVE Inv'
    <3>1. CASE Late(u)
      <4>1. Went(u, "timed_out")
        BY <2>0, <2>5, <3>1 DEF CheckDeadline, Went, ClientTypeOK, UseRow, UsePlaces
      <4>2. UNCHANGED <<time, approval>>
        BY <2>5 DEF CheckDeadline
      <4> QED BY <4>1, <4>2, GoesOn DEF Went
    <3>2. CASE ~Late(u)
      <4>1. /\ use' = [use EXCEPT ![u].pc = "requesting", ![u].mark = time]
            /\ Is(u, "polling") /\ UNCHANGED <<time, approval>>
        BY <2>5, <3>2 DEF CheckDeadline
      <4>2. use' \in [Uses -> UseRow] /\ \A o \in Uses \ {u} : use'[o] = use[o]
        BY <2>0, <4>1, ZenonT(30) DEF ClientTypeOK, UseRow, UsePlaces
      <4>3. use'[u].pc = "requesting" /\ use'[u].verdict = use[u].verdict
        BY <2>0, <4>1 DEF UseRow
      <4>4. approval[u].status # "none"
        BY <4>1 DEF HeardRight, Is
      <4> QED BY <4>1, <4>2, <4>3, <4>4, OwnStep
    <3> QED BY <3>1, <3>2
  <2>6. ASSUME NEW u \in Uses, GetApproval(u) PROVE Inv'
    <3>1. /\ use' = [use EXCEPT ![u].pc = "replied", ![u].seen = approval[u].status]
          /\ Is(u, "requesting") /\ UNCHANGED <<time, approval>>
      BY <2>6 DEF GetApproval
    <3>2. approval[u].status \in Status
      BY DEF ClientTypeOK
    <3>3. use' \in [Uses -> UseRow] /\ \A o \in Uses \ {u} : use'[o] = use[o]
      BY <3>1, <3>2, ZenonT(30) DEF ClientTypeOK, UseRow, UsePlaces
    <3>4. /\ use'[u].pc = "replied" /\ use'[u].seen = approval[u].status
          /\ use'[u].verdict = use[u].verdict
      BY <2>0, <3>1 DEF UseRow
    <3>5. approval[u].status # "none"
      BY <3>1 DEF HeardRight, Is
    <3> QED BY <3>1, <3>3, <3>4, <3>5, OwnStep
  <2>7. ASSUME NEW u \in Uses, RequestFails(u) \/ Cancel(u) \/ GoDeadline(u) PROVE Inv'
    <3>1. Went(u, "failed") \/ Went(u, "cancelled") \/ Went(u, "timed_out")
      <4>1. CASE Now(u, "failed")
        BY <2>0, <4>1 DEF Now, Went, ClientTypeOK, UseRow, UsePlaces
      <4>2. CASE Now(u, "cancelled")
        BY <2>0, <4>2 DEF Now, Went, ClientTypeOK, UseRow, UsePlaces
      <4>3. CASE Now(u, "timed_out")
        BY <2>0, <4>3 DEF Now, Went, ClientTypeOK, UseRow, UsePlaces
      <4> QED BY <2>7, <4>1, <4>2, <4>3 DEF RequestFails, Cancel, GoDeadline
    <3>2. UNCHANGED <<time, approval>>
      BY <2>7 DEF RequestFails, Cancel, GoDeadline
    <3> QED BY <3>1, <3>2, GoesOn DEF Went
  <2>8. ASSUME NEW u \in Uses, HeardBlocking(u) PROVE Inv'
    <3>1. Is(u, "replied") /\ use[u].seen \in Decision /\ UNCHANGED <<time, approval>>
      BY <2>8 DEF HeardBlocking
    <3>2. use[u].seen = approval[u].status
      BY <3>1 DEF HeardRight, Decision
    <3>4. CASE Approved(u)
      <4>1. Went(u, "ran") /\ approval[u].status = "approved"
        BY <2>0, <2>8, <3>2, <3>4 DEF HeardBlocking, Approved, Now, Went, ClientTypeOK, UseRow,
                                      UsePlaces
      <4> QED BY <3>1, <4>1, GoesOn DEF Went
    <3>5. CASE ~Approved(u)
      <4>1. Went(u, "refused")
        BY <2>0, <2>8, <3>5 DEF HeardBlocking, Now, Went, ClientTypeOK, UseRow, UsePlaces
      <4> QED BY <3>1, <4>1, GoesOn DEF Went
    <3> QED BY <3>4, <3>5
  <2>9. ASSUME NEW u \in Uses, HeardAwaiting(u) \/ CalledBack(u) \/ GoReturned(u) PROVE Inv'
    <3>1. /\ Is(u, "replied") /\ use[u].seen # "pending" /\ UNCHANGED <<time, approval>>
          /\ Went(u, "answered")
      BY <2>0, <2>9 DEF HeardAwaiting, CalledBack, GoReturned, Now, Went, ClientTypeOK, UseRow,
                        UsePlaces
    <3>2. use[u].seen = approval[u].status
      BY <3>1 DEF HeardRight
    <3> QED BY <3>1, <3>2, GoesOn DEF Went
  <2>10. ASSUME NEW u \in Uses, Sleep(u) \/ GoSelect(u) PROVE Inv'
    <3>1. PICK t \in Nat : use' = [use EXCEPT ![u].pc = "sleeping", ![u].mark = t]
      BY <2>0, <2>10 DEF Sleep, GoSelect, Pause
    <3>2. Is(u, "replied") /\ UNCHANGED <<time, approval>>
      BY <2>10 DEF Sleep, GoSelect
    <3>3. use' \in [Uses -> UseRow] /\ \A o \in Uses \ {u} : use'[o] = use[o]
      BY <3>1, ZenonT(30) DEF ClientTypeOK, UseRow, UsePlaces
    <3>4. use'[u].pc = "sleeping" /\ use'[u].verdict = use[u].verdict
      BY <2>0, <3>1 DEF UseRow
    <3>5. approval[u].status # "none"
      BY <3>2 DEF HeardRight, Is
    <3> QED BY <3>2, <3>3, <3>4, <3>5, OwnStep
  <2>11. ASSUME NEW u \in Uses, Wake(u) PROVE Inv'
    <3>1. Is(u, "sleeping") /\ Went(u, "polling") /\ UNCHANGED <<time, approval>>
      BY <2>0, <2>11 DEF Wake, Now, Went, ClientTypeOK, UseRow, UsePlaces
    <3>2. approval[u].status # "none"
      BY <3>1 DEF HeardRight, Is
    <3> QED BY <3>1, <3>2, GoesOn DEF Went
  <2>12. ASSUME NEW u \in Uses, Approver(u) PROVE Inv'
    <3>1. PICK d \in Decision : approval' = [approval EXCEPT ![u] = [status |-> d, at |-> time]]
      BY <2>12 DEF Approver
    <3>2. /\ approval[u].status = "pending" /\ approval'[u].status = d
          /\ \A o \in Uses \ {u} : approval'[o] = approval[o]
          /\ use' = use /\ time' = time
      BY <2>0, <2>12, <3>1 DEF Approver
    <3>3. approval' \in [Uses -> [status : Status, at : 0 .. LastHour]]
      BY <2>0, <3>1 DEF ClientTypeOK, Status
    <3>4. ClientTypeOK'
      BY <3>2, <3>3 DEF ClientTypeOK
    <3>5. use[u].seen = approval[u].status => use[u].seen = "pending"
      BY <3>2
    <3>6. HeardRight'
      BY <3>2, <3>5 DEF HeardRight, Is, Decision
    <3>7. ~Is(u, "answered")
      BY <3>2 DEF HeardRight, NothingWithoutLeave
    <3>8. NothingWithoutLeave'
      BY <3>2, <3>7 DEF NothingWithoutLeave, Is
    <3> QED BY <3>4, <3>6, <3>8
  <2>13. CASE Elapse
    BY <2>13 DEF Elapse, ClientTypeOK, HeardRight, NothingWithoutLeave, Is
  <2>14. CASE UNCHANGED clientVars
    BY <2>14 DEF clientVars, ClientTypeOK, HeardRight, NothingWithoutLeave, Is
  <2> QED BY <2>2, <2>3, <2>4, <2>5, <2>6, <2>7, <2>8, <2>9, <2>10, <2>11, <2>12, <2>13, <2>14
       DEF ClientNext, Progress, Evaluated, AsyncEvaluated, BeforeTool, AsyncBeforeTool, HandOff,
           Waited, AsyncWaited, Awaited, AsyncAwaited
<1> QED BY <1>1, <1>2, PTL DEF ClientSpec

(* The places and times of the uses are of their kinds, and no time goes   *)
(* beyond the clock, for any number of uses.                               *)
THEOREM ClientTyped == ClientSpec => []ClientTypeOK
<1> QED BY ClientInvariant, PTL

(* A tool runs only with leave, and a wait reports what the server decided, *)
(* for any number of uses of either client, of each kind of wrapper.        *)
THEOREM LeaveComesFirst == ClientSpec => []NothingWithoutLeave
<1> QED BY ClientInvariant, PTL

-------------------------------------------------------------------------------
(* Members and keys *)

AskRow == [kind : AskKinds \cup KeyKinds, target : People \cup ApiKeys, role : Roles,
           pc : AskPlaces, seen : MemberRow \cup KeyRow]

KeysTyped ==
  key \in [ApiKeys -> KeyRow] /\ ask \in [Asks -> AskRow] /\ member \in [People -> MemberRow]

(* A request about a key never comes to the writes of a member's row.       *)
KeyAsksApart ==
  \A a \in Asks :
    \/ ask[a].kind \in KeyKinds /\ ask[a].target \in ApiKeys /\ ask[a].pc \notin {"written", "audited"}
    \/ ask[a].kind \in AskKinds /\ ask[a].target \in People

KeysIInv == KeysTyped /\ KeyAsksApart /\ RevokedKeysStay

(* Request a comes to a place; what it wants stays the same. *)
ComesTo(a, place) ==
  /\ ask' \in [Asks -> AskRow] /\ \A o \in Asks \ {a} : ask'[o] = ask[o]
  /\ ask'[a].kind = ask[a].kind /\ ask'[a].target = ask[a].target /\ ask'[a].pc = place

LEMMA RefuseComes ==
  ASSUME KeysTyped, NEW a \in Asks, NEW place \in AskPlaces, ask' = [ask EXCEPT ![a].pc = place]
  PROVE  ComesTo(a, place)
  BY DEF KeysTyped, ComesTo, AskRow

LEMMA ReadsComes ==
  ASSUME KeysTyped, NEW a \in Asks, NEW row \in MemberRow \cup KeyRow, Reads(a, row)
  PROVE  ComesTo(a, "read") /\ UNCHANGED key
<1>1. ask' = [ask EXCEPT ![a].pc = "read", ![a].seen = row] /\ UNCHANGED key
  BY DEF Reads
<1>2. ask[a] \in AskRow
  BY DEF KeysTyped
<1>3. [ask[a] EXCEPT !.pc = "read", !.seen = row] \in AskRow
  BY <1>2 DEF AskRow, AskPlaces
<1>4. ask' = [ask EXCEPT ![a] = [ask[a] EXCEPT !.pc = "read", !.seen = row]]
  BY <1>1
<1>5. ask' \in [Asks -> AskRow]
  BY <1>3, <1>4 DEF KeysTyped
<1>6. /\ \A o \in Asks \ {a} : ask'[o] = ask[o]
      /\ ask'[a].kind = ask[a].kind /\ ask'[a].target = ask[a].target /\ ask'[a].pc = "read"
  BY <1>1, <1>2 DEF KeysTyped, AskRow
<1> QED BY <1>1, <1>5, <1>6 DEF ComesTo

LEMMA UpdatedTyped ==
  ASSUME KeysTyped, NEW a \in Asks, NEW row \in MemberRow
  PROVE  Updated(a, row) \in MemberRow
<1>1. ask[a].role \in Roles
  BY DEF KeysTyped, AskRow
<1>2. /\ [status |-> "invited", role |-> ask[a].role] \in MemberRow
      /\ [status |-> "active", role |-> JoinRole] \in MemberRow
  BY <1>1, MembersAssumption DEF MemberRow, MemberStatus
<1>3. /\ [row EXCEPT !.role = ask[a].role] \in MemberRow
      /\ [row EXCEPT !.status = "revoked"] \in MemberRow
      /\ [row EXCEPT !.status = "active"] \in MemberRow
  BY <1>1 DEF MemberRow, MemberStatus
<1> QED BY <1>2, <1>3 DEF Updated

(* A step that is not the use or the revocation of a key. *)
LEMMA KeysUntouched ==
  ASSUME KeysIInv, NEW a \in Asks, NEW place \in AskPlaces, ComesTo(a, place), key' = key,
         member' \in [People -> MemberRow],
         ask[a].kind = "revoke_key" => place # "committed",
         ask[a].kind \in KeyKinds => place \notin {"written", "audited"}
  PROVE  KeysIInv'
  BY DEF KeysIInv, KeysTyped, KeyAsksApart, RevokedKeysStay, ComesTo, Wants

LEMMA KeysInvariant == MembersSpec => []KeysIInv
<1>1. MembersInit(FirstRows, MemberAsks \cup KeyAsks) => KeysIInv
  <2> SUFFICES ASSUME MembersInit(FirstRows, MemberAsks \cup KeyAsks) PROVE KeysIInv
    OBVIOUS
  <2>1. FirstRows \subseteq MemberRow /\ NewKey \in KeyRow /\ NoMember \in MemberRow
    BY MembersAssumption DEF FirstRows, NoMember, MemberRow, MemberStatus, NewKey, KeyRow
  <2>2. MemberAsks \cup KeyAsks \subseteq AskRow
    BY <2>1, MembersAssumption
    DEF MemberAsks, KeyAsks, AskRow, AskPlaces
  <2>3. KeysTyped
    BY <2>1, <2>2 DEF MembersInit, KeysTyped
  <2>4. KeyAsksApart /\ RevokedKeysStay
    <3>1. \A a \in Asks : ask[a] \in MemberAsks \cup KeyAsks
      BY DEF MembersInit
    <3>2. \A a \in Asks : /\ ask[a].pc = "new"
                         /\ \/ ask[a].kind \in KeyKinds /\ ask[a].target \in ApiKeys
                            \/ ask[a].kind \in AskKinds /\ ask[a].target \in People
      BY <3>1 DEF MemberAsks, KeyAsks
    <3> QED BY <3>2 DEF KeyAsksApart, RevokedKeysStay, Wants
  <2> QED BY <2>3, <2>4 DEF KeysIInv
<1>2. KeysIInv /\ [MembersNext]_memberVars => KeysIInv'
  <2> SUFFICES ASSUME KeysIInv, [MembersNext]_memberVars PROVE KeysIInv'
    OBVIOUS
  <2>0. KeysTyped /\ KeyAsksApart
    BY DEF KeysIInv
  <2>1. ASSUME NEW a \in Asks, NEW place \in {"conflict", "forbidden", "not_found", "failed"}, Refuse(a, place)
        PROVE  KeysIInv'
    BY <2>0, <2>1, RefuseComes, KeysUntouched DEF Refuse, AskPlaces, KeysTyped
  <2>2. ASSUME NEW a \in Asks, NEW row \in MemberRow \cup KeyRow, Reads(a, row)
        PROVE  KeysIInv'
    <3>1. ComesTo(a, "read") /\ key' = key
      BY <2>0, <2>2, ReadsComes
    <3>2. member' = member
      BY <2>2 DEF Reads
    <3> QED BY <2>0, <3>1, <3>2, KeysUntouched DEF AskPlaces, KeysTyped
  <2>3. ASSUME NEW a \in Asks, InviteMember(a) \/ UpdateMemberRole(a) \/ RevokeMember(a)
                              \/ ResolveSessionAccess(a)
        PROVE  KeysIInv'
    <3>1. ask[a].kind \in AskKinds
      BY <2>3 DEF InviteMember, UpdateMemberRole, RevokeMember, ResolveSessionAccess, Wants, AskKinds, Audited
    <3>2. member[ask[a].target] \in MemberRow
      BY <2>0, <3>1 DEF KeyAsksApart, KeysTyped, AskKinds, KeyKinds, Audited
    <3>3. \/ Reads(a, member[ask[a].target])
          \/ \E place \in {"conflict", "forbidden", "not_found", "failed"} : Refuse(a, place)
      BY <2>3 DEF InviteMember, UpdateMemberRole, RevokeMember, ResolveSessionAccess
    <3> QED BY <2>1, <2>2, <3>2, <3>3
  <2>4. ASSUME NEW a \in Asks, Flush(a) PROVE KeysIInv'
    <3>1. ask[a].kind \in AskKinds /\ (ask[a].kind \notin KeyKinds)
      BY <2>4 DEF Flush, AskKinds, KeyKinds, Audited
    <3>2. CASE Refuse(a, "failed")
      BY <2>1, <3>2
    <3>3. CASE ask' = [ask EXCEPT ![a].pc = "written"] /\ key' = key /\ member' = member
      BY <2>0, <3>1, <3>3, RefuseComes, KeysUntouched DEF AskPlaces, KeysTyped, KeyKinds
    <3> QED BY <2>4, <3>2, <3>3 DEF Flush
  <2>5. ASSUME NEW a \in Asks, AuditMember(a) PROVE KeysIInv'
    <3>1. /\ ask' = [ask EXCEPT ![a].pc = "audited"] /\ key' = key /\ member' = member
          /\ ask[a].kind \notin KeyKinds
      BY <2>5 DEF AuditMember, Audited, KeyKinds
    <3> QED BY <2>0, <3>1, RefuseComes, KeysUntouched DEF AskPlaces, KeysTyped, KeyKinds
  <2>6. ASSUME NEW a \in Asks, CommitMember(a) PROVE KeysIInv'
    <3>1. ask' = [ask EXCEPT ![a].pc = "committed"] /\ key' = key
      BY <2>6 DEF CommitMember
    <3>2. ask[a].kind \in AskKinds /\ ask[a].target \in People /\ ask[a].kind \notin KeyKinds
      BY <2>0, <2>6 DEF CommitMember, Wants, KeyAsksApart, AskKinds, KeyKinds, Audited
    <3>3. member[ask[a].target] \in MemberRow
      BY <2>0, <3>2 DEF KeysTyped
    <3>4. Updated(a, member[ask[a].target]) \in MemberRow
      BY <2>0, <3>3, UpdatedTyped
    <3>5. member' = member \/ member' = [member EXCEPT ![ask[a].target] = Updated(a, member[ask[a].target])]
      BY <2>6 DEF CommitMember
    <3>6. member' \in [People -> MemberRow]
      BY <2>0, <3>4, <3>5 DEF KeysTyped
    <3> QED BY <2>0, <3>1, <3>2, <3>6, RefuseComes, KeysUntouched DEF AskPlaces, KeyKinds
  <2>7. ASSUME NEW a \in Asks, RollBack(a) PROVE KeysIInv'
    <3>1. ask' = [ask EXCEPT ![a].pc = "failed"] /\ key' = key /\ member' = member
      BY <2>7 DEF RollBack
    <3> QED BY <2>0, <3>1, RefuseComes, KeysUntouched DEF AskPlaces, KeysTyped
  <2>8. ASSUME NEW a \in Asks, LookUpKey(a) \/ FindKey(a) PROVE KeysIInv'
    <3>1. key[ask[a].target] \in KeyRow
      BY <2>0, <2>8 DEF LookUpKey, FindKey, Wants, KeyAsksApart, KeysTyped, AskKinds, KeyKinds, Audited
    <3>2. Reads(a, key[ask[a].target]) \/ Refuse(a, "forbidden")
      BY <2>8 DEF LookUpKey, FindKey
    <3> QED BY <2>1, <2>2, <3>1, <3>2
  <2>9. ASSUME NEW a \in Asks, Authenticate(a) \/ RevokeApiKey(a) PROVE KeysIInv'
    <3> DEFINE k == ask[a].target
    <3>1. ask' = [ask EXCEPT ![a].pc = "committed"] /\ member' = member
      BY <2>9 DEF Authenticate, RevokeApiKey
    <3>2. ComesTo(a, "committed")
      BY <2>0, <3>1, RefuseComes DEF AskPlaces
    <3>3. k \in ApiKeys /\ ask[a].kind \in KeyKinds
      BY <2>0, <2>9 DEF Authenticate, RevokeApiKey, Wants, KeyAsksApart, AskKinds, KeyKinds, Audited
    <3>4. /\ key' \in [ApiKeys -> KeyRow] /\ \A l \in ApiKeys : key[l].revoked => key'[l].revoked
          /\ ask[a].kind = "revoke_key" => key'[k].revoked
      <4>1. CASE Authenticate(a)
        <5>1. key' = [key EXCEPT ![k].used = TRUE] /\ ask[a].kind = "use_key"
          BY <4>1 DEF Authenticate, Touch, Wants
        <5> QED BY <2>0, <3>3, <5>1 DEF KeysTyped, KeyRow
      <4>2. CASE RevokeApiKey(a)
        <5>1. key' = [key EXCEPT ![k].revoked = TRUE]
          BY <4>2 DEF RevokeApiKey
        <5> QED BY <2>0, <3>3, <5>1 DEF KeysTyped, KeyRow
      <4> QED BY <2>9, <4>1, <4>2
    <3>5. KeysTyped' /\ KeyAsksApart'
      BY <2>0, <3>1, <3>2, <3>3, <3>4 DEF KeysTyped, KeyAsksApart, ComesTo
    <3>6. RevokedKeysStay'
      BY <2>0, <3>2, <3>3, <3>4 DEF KeysIInv, RevokedKeysStay, Wants, ComesTo, KeyAsksApart, AskKinds, Audited
    <3> QED BY <3>5, <3>6 DEF KeysIInv
  <2>10. CASE UNCHANGED memberVars
    BY <2>10 DEF memberVars, KeysIInv, KeysTyped, KeyAsksApart, RevokedKeysStay, Wants
  <2> QED BY <2>3, <2>4, <2>5, <2>6, <2>7, <2>8, <2>9, <2>10 DEF MembersNext
<1> QED BY <1>1, <1>2, PTL DEF MembersSpec

(* For any requests and keys, whatever else writes to the row of a key, a    *)
(* key that was revoked stays so.                                            *)
THEOREM RevokedForGood == MembersSpec => []RevokedKeysStay
<1>1. KeysIInv => RevokedKeysStay
  BY DEF KeysIInv
<1> QED BY <1>1, KeysInvariant, PTL

-------------------------------------------------------------------------------
(* Cedar process pool *)

ThreadRow == [pc : Places, slot : Slots \cup {Nil}, proc : Procs \cup {Nil}, result : Payloads]

(* The types of all but the permits. *)
PoolShape ==
  /\ free \subseteq Slots
  /\ worker \in [Slots -> Procs \cup {Nil}]
  /\ doomed \subseteq Procs /\ spawned \in 0..MaxSpawns /\ alive \subseteq 1..spawned
  /\ pipe \in [Procs -> [request : Payloads, answer : Payloads]]
  /\ thread \in [Threads -> ThreadRow]

Active == {"checked", "found_dead", "writing", "reading", "saw_it_die"}

(* An index is with one thread at most.                                     *)
SlotsApart ==
  \A t \in Threads :
    /\ thread[t].pc \in Active \cup {"holding"} => thread[t].slot \in Slots
    /\ thread[t].pc \in {"idle", "waiting", "queued", "done"} => thread[t].slot = Nil
    /\ thread[t].slot \notin free
    /\ \A u \in Threads \ {t} : thread[t].slot # Nil => thread[u].slot # thread[t].slot

(* A process is with one thread at most, and no other finds it in the list. *)
ProcsApart ==
  /\ \A i \in Slots : worker[i] <= spawned
  /\ \A i, j \in Slots : i # j /\ worker[i] # Nil => worker[i] # worker[j]
  /\ \A t \in Threads : thread[t].pc \in Active =>
       /\ thread[t].proc \in 1..spawned
       /\ worker[thread[t].slot] \in {thread[t].proc, Nil}
       /\ \A j \in Slots : worker[j] = thread[t].proc => j = thread[t].slot
       /\ \A u \in Threads \ {t} :
            thread[u].pc \in Active => thread[u].proc # thread[t].proc

(* What is in the pipes of a process is between it and the thread that reads *)
(* from it, and a process that is gone has left no request.                 *)
PipesTidy ==
  \A p \in Procs :
    /\ pipe[p].request # NoThread => p \in alive /\ pipe[p].answer = NoThread
    /\ \A t \in Threads : t \in {pipe[p].request, pipe[p].answer} =>
         thread[t].pc = "reading" /\ thread[t].proc = p

DeadIsDead ==
  \A t \in Threads : thread[t].pc \in {"found_dead", "saw_it_die"} => thread[t].proc \notin alive

(* Who is alive is in the list, or close will terminate it.                 *)
AllAccounted ==
  /\ \A p \in alive : p \in doomed \/ \E i \in Slots : worker[i] = p
  /\ shut = "open" => doomed = {} /\ \A i \in Slots : worker[i] # Nil
  /\ shut # "open" => \A i \in Slots : worker[i] = Nil
  /\ shut = "closed" => doomed = {}

PoolIInv ==
  PoolShape /\ SlotsApart /\ ProcsApart /\ PipesTidy /\ DeadIsDead /\ AllAccounted /\ OwnAnswer

(* Thread t goes from one place to another, and takes nothing with it.      *)
Walked(t, place) ==
  /\ thread' \in [Threads -> ThreadRow] /\ \A o \in Threads \ {t} : thread'[o] = thread[o]
  /\ thread'[t].pc = place /\ thread'[t].slot = thread[t].slot
  /\ thread'[t].proc = thread[t].proc /\ thread'[t].result = thread[t].result

LEMMA WalkStep ==
  ASSUME PoolShape, NEW t \in Threads, NEW place \in Places, GoTo(t, place)
  PROVE  Walked(t, place)
  BY DEF PoolShape, GoTo, Walked, ThreadRow

(* A thread that goes anywhere but to read, and not from reading.           *)
LEMMA WalkKeeps ==
  ASSUME PoolIInv, NEW t \in Threads, NEW place \in Places, Walked(t, place),
         UNCHANGED <<free, pipe, processVars>>,
         thread[t].pc # "reading",
         place \in Active => thread[t].pc \in Active,
         place \in {"idle", "waiting", "queued", "done"} => thread[t].slot = Nil,
         place # "holding",
         place = "found_dead" => thread[t].proc \notin alive,
         place # "saw_it_die"
  PROVE  PoolIInv'
<1> USE DEF processVars
<1>1. PoolShape'
  BY DEF PoolIInv, PoolShape, Walked
<1>2. SlotsApart'
  BY DEF PoolIInv, SlotsApart, Walked, Active
<1>3. ProcsApart'
  BY DEF PoolIInv, ProcsApart, Walked, Active
<1>4. PipesTidy'
  BY DEF PoolIInv, PipesTidy, Walked
<1>5. DeadIsDead' /\ AllAccounted' /\ OwnAnswer'
  BY DEF PoolIInv, DeadIsDead, AllAccounted, OwnAnswer, Walked
<1> QED BY <1>1, <1>2, <1>3, <1>4, <1>5 DEF PoolIInv

(* A row of a thread stays one when its fields get values of their types.   *)
LEMMA RowStays ==
  ASSUME NEW row \in ThreadRow, NEW place \in Places, NEW i \in Slots \cup {Nil},
         NEW p \in Procs \cup {Nil}, NEW res \in Payloads
  PROVE  /\ [row EXCEPT !.pc = place, !.slot = i] \in ThreadRow
         /\ [row EXCEPT !.pc = place, !.proc = p] \in ThreadRow
         /\ [row EXCEPT !.pc = place, !.result = res] \in ThreadRow
         /\ [row EXCEPT !.pc = place, !.slot = i, !.proc = p] \in ThreadRow
<1>1. [row EXCEPT !.pc = place, !.slot = i] \in ThreadRow
  BY DEF ThreadRow
<1>2. [row EXCEPT !.pc = place, !.proc = p] \in ThreadRow
  BY DEF ThreadRow
<1>3. [row EXCEPT !.pc = place, !.result = res] \in ThreadRow
  BY DEF ThreadRow
<1>4. [row EXCEPT !.pc = place, !.slot = i, !.proc = p] \in ThreadRow
  BY DEF ThreadRow
<1> QED BY <1>1, <1>2, <1>3, <1>4

LEMMA RowsStay ==
  ASSUME PoolIInv, NEW t \in Threads, NEW row \in ThreadRow, thread' = [thread EXCEPT ![t] = row]
  PROVE  thread' \in [Threads -> ThreadRow]
  BY DEF PoolIInv, PoolShape

LEMMA RowOf ==
  ASSUME PoolIInv, NEW t \in Threads
  PROVE  /\ thread[t] \in ThreadRow
         /\ \A place \in {"leaving", "checked", "holding", "writing", "done"} : place \in Places
         /\ Nil \in Slots \cup {Nil} /\ Nil \in Procs \cup {Nil} /\ NoThread \in Payloads
  BY DEF PoolIInv, PoolShape, Places, Payloads

LEMMA GetKeeps ==
  ASSUME PoolIInv, NEW t \in Threads, Get(t)
  PROVE  PoolIInv'
<1> USE DEF processVars
<1>1. PICK i \in free :
        free' = free \ {i} /\ thread' = [thread EXCEPT ![t].pc = "holding", ![t].slot = i]
  BY DEF Get
<1>2. /\ i \in Slots /\ free' = free \ {i}
      /\ At(t, "queued") /\ UNCHANGED <<pipe, worker, spawned, alive, shut, doomed>>
  BY <1>1 DEF Get, PoolIInv, PoolShape
<1>3. thread' \in [Threads -> ThreadRow]
  <2>1. [thread[t] EXCEPT !.pc = "holding", !.slot = i] \in ThreadRow
    BY <1>2, RowOf, RowStays
  <2>2. thread' = [thread EXCEPT ![t] = [thread[t] EXCEPT !.pc = "holding", !.slot = i]]
    BY <1>1
  <2> QED BY <2>1, <2>2, RowsStay
<1>4. /\ \A o \in Threads \ {t} : thread'[o] = thread[o]
      /\ thread'[t].pc = "holding" /\ thread'[t].slot = i
      /\ thread'[t].result = thread[t].result
  BY <1>1 DEF PoolIInv, PoolShape, ThreadRow
<1>5. i # Nil /\ \A o \in Threads : thread[o].slot # i
  BY <1>1, <1>2 DEF PoolIInv, SlotsApart, Slots, Nil
<1>6. PoolShape'
  BY <1>1, <1>2, <1>3 DEF PoolIInv, PoolShape
<1>7. SlotsApart'
  <2> SUFFICES ASSUME NEW o \in Threads
               PROVE  /\ thread'[o].pc \in Active \cup {"holding"} => thread'[o].slot \in Slots
                      /\ thread'[o].pc \in {"idle", "waiting", "queued", "done"} => thread'[o].slot = Nil
                      /\ thread'[o].slot \notin free'
                      /\ \A u \in Threads \ {o} :
                           thread'[o].slot # Nil => thread'[u].slot # thread'[o].slot
    BY DEF SlotsApart
  <2>1. CASE o = t
    BY <1>2, <1>4, <1>5, <2>1
  <2>2. CASE o # t
    BY <1>2, <1>4, <1>5, <2>2 DEF PoolIInv, SlotsApart
  <2> QED BY <2>1, <2>2
<1>8. ProcsApart'
  BY <1>2, <1>4 DEF PoolIInv, ProcsApart, Active
<1>9. PipesTidy' /\ DeadIsDead' /\ AllAccounted' /\ OwnAnswer'
  BY <1>2, <1>4 DEF PoolIInv, PipesTidy, DeadIsDead, AllAccounted, OwnAnswer, At
<1> QED BY <1>6, <1>7, <1>8, <1>9 DEF PoolIInv

LEMMA LookKeeps ==
  ASSUME PoolIInv, NEW t \in Threads, Look(t)
  PROVE  PoolIInv'
<1> USE DEF processVars
<1> DEFINE p == worker[thread[t].slot]
           place == IF p = Nil THEN "leaving" ELSE "checked"
<1>0. thread' = [thread EXCEPT ![t].pc = place, ![t].proc = p]
  BY DEF Raised, Look
<1>1. At(t, "holding") /\ UNCHANGED <<free, pipe, worker, spawned, alive, shut, doomed>>
  BY DEF Raised, Look
<1>2. thread[t].slot \in Slots
  BY <1>1 DEF PoolIInv, SlotsApart, At
<1>3. p \in Procs \cup {Nil} /\ place \in {"leaving", "checked"}
  BY <1>2 DEF PoolIInv, PoolShape
<1>4. p # Nil => p \in 1..spawned
  BY <1>2, <1>3 DEF PoolIInv, ProcsApart, PoolShape, Procs, Nil
<1>5. p # Nil => \A j \in Slots : worker[j] = p => j = thread[t].slot
  BY <1>2 DEF PoolIInv, ProcsApart
<1>6. p # Nil => \A u \in Threads \ {t} : thread[u].pc \in Active => thread[u].proc # p
  <2> SUFFICES ASSUME p # Nil, NEW u \in Threads \ {t}, thread[u].pc \in Active,
                      thread[u].proc = p
               PROVE  FALSE
    OBVIOUS
  <2>1. thread[t].slot = thread[u].slot
    BY <1>2 DEF PoolIInv, ProcsApart
  <2>2. thread[t].slot # Nil
    BY <1>2 DEF Slots, Nil
  <2> QED BY <2>1, <2>2 DEF PoolIInv, SlotsApart
<1>7. place = "checked" <=> p # Nil
  OBVIOUS
<1>12. worker[thread[t].slot] = p
  OBVIOUS
<1> HIDE DEF p, place
<1>8. thread' \in [Threads -> ThreadRow]
  <2>1. [thread[t] EXCEPT !.pc = place, !.proc = p] \in ThreadRow
    BY <1>3, RowOf, RowStays
  <2>2. thread' = [thread EXCEPT ![t] = [thread[t] EXCEPT !.pc = place, !.proc = p]]
    BY <1>0
  <2> QED BY <2>1, <2>2, RowsStay
<1>9. /\ \A o \in Threads \ {t} : thread'[o] = thread[o]
      /\ thread'[t].pc = place /\ thread'[t].proc = p
      /\ thread'[t].slot = thread[t].slot /\ thread'[t].result = thread[t].result
  BY <1>0 DEF PoolIInv, PoolShape, ThreadRow
<1>10. PoolShape'
  BY <1>1, <1>8 DEF PoolIInv, PoolShape
<1>11. SlotsApart'
  BY <1>1, <1>2, <1>3, <1>9 DEF PoolIInv, SlotsApart, Active
<1>13. ProcsApart'
  BY <1>1, <1>3, <1>4, <1>5, <1>6, <1>7, <1>9, <1>12 DEF PoolIInv, ProcsApart, Active
<1>14. PipesTidy'
  BY <1>1, <1>3, <1>9 DEF PoolIInv, PipesTidy, At
<1>15. DeadIsDead' /\ AllAccounted' /\ OwnAnswer'
  BY <1>1, <1>3, <1>9 DEF PoolIInv, DeadIsDead, AllAccounted, OwnAnswer
<1> QED BY <1>10, <1>11, <1>13, <1>14, <1>15 DEF PoolIInv

(* A process that is started is known to nobody else. *)
LEMMA SpawnKeeps ==
  ASSUME PoolIInv, NEW t \in Threads, ReplaceBefore(t) \/ ReplaceAfter(t)
  PROVE  PoolIInv'
<1> DEFINE i == thread[t].slot
           new == spawned + 1
<1>1. /\ worker[i] # Nil /\ spawned < MaxSpawns /\ spawned' = new
      /\ alive' = (alive \ {worker[i]}) \cup {new} /\ worker' = [worker EXCEPT ![i] = new]
      /\ UNCHANGED <<shut, doomed, free, pipe>>
      /\ thread[t].pc \in {"found_dead", "saw_it_die"}
  BY DEF ReplaceBefore, ReplaceAfter, ReplaceWorker, Spawn, At
<1>2. /\ i \in Slots /\ thread[t].proc \notin alive /\ worker[i] = thread[t].proc
  BY <1>1 DEF PoolIInv, SlotsApart, DeadIsDead, ProcsApart, Active
<1>3. /\ spawned \in Nat /\ new \in Procs /\ new # Nil /\ new \in 1..new /\ 1..spawned \subseteq 1..new
      /\ new \notin 1..spawned
  BY <1>1, PoolAssumption DEF PoolIInv, PoolShape, Procs, Nil
<1>4. /\ worker'[i] = new /\ \A j \in Slots \ {i} : worker'[j] = worker[j]
      /\ \A j \in Slots : worker[j] <= spawned /\ worker[j] # new /\ worker'[j] <= new
  BY <1>1, <1>2, <1>3 DEF PoolIInv, PoolShape, ProcsApart, Procs, Nil
<1>5. alive' = alive \cup {new}
  BY <1>1, <1>2
<1>6. /\ thread' \in [Threads -> ThreadRow] /\ \A o \in Threads \ {t} : thread'[o] = thread[o]
      /\ thread'[t].slot = i /\ thread'[t].result = thread[t].result
      /\ \/ thread'[t].pc = "writing" /\ thread'[t].proc = new
         \/ thread'[t].pc = "leaving"
  <2>1. CASE ReplaceBefore(t)
    <3>1. thread' = [thread EXCEPT ![t].pc = "writing", ![t].proc = new]
      BY <2>1, <1>1 DEF ReplaceBefore
    <3> HIDE DEF new
    <3>2. thread' \in [Threads -> ThreadRow]
    <4>1. [thread[t] EXCEPT !.pc = "writing", !.proc = new] \in ThreadRow
      BY <1>3, RowOf, RowStays
    <4>2. thread' = [thread EXCEPT ![t] = [thread[t] EXCEPT !.pc = "writing", !.proc = new]]
      BY <3>1
    <4> QED BY <4>1, <4>2, RowsStay
    <3>3. /\ \A o \in Threads \ {t} : thread'[o] = thread[o]
          /\ thread'[t].pc = "writing" /\ thread'[t].proc = new
          /\ thread'[t].slot = i /\ thread'[t].result = thread[t].result
      BY <3>1 DEF PoolIInv, PoolShape, ThreadRow
    <3> QED BY <3>2, <3>3
  <2>2. CASE ReplaceAfter(t)
    BY <2>2, WalkStep DEF ReplaceAfter, Walked, Places, PoolIInv
  <2> QED BY <2>1, <2>2
<1> HIDE DEF new, i
<1>7. PoolShape'
  <2>1. worker' \in [Slots -> Procs \cup {Nil}]
    BY <1>1, <1>2, <1>3 DEF PoolIInv, PoolShape
  <2>2. spawned' \in 0..MaxSpawns
    BY <1>1, PoolAssumption DEF new, PoolIInv, PoolShape
  <2>3. alive' \subseteq 1..spawned'
    BY <1>1, <1>3, <1>5 DEF PoolIInv, PoolShape
  <2> QED BY <1>1, <1>6, <2>1, <2>2, <2>3 DEF PoolIInv, PoolShape
<1>8. SlotsApart'
  BY <1>1, <1>2, <1>6 DEF PoolIInv, SlotsApart, Active, i
<1>9. ProcsApart'
  <2>1. \A o \in Threads \ {t} : thread[o].pc \in Active =>
          /\ thread[o].slot \in Slots \ {i} /\ thread[o].proc \in 1..spawned
          /\ thread[o].proc # new
    <3>1. i # Nil
      BY <1>2 DEF Slots, Nil
    <3> QED BY <3>1, <1>3 DEF PoolIInv, SlotsApart, ProcsApart, i
  <2>2. \A j \in Slots : worker'[j] <= spawned'
    BY <1>1, <1>4
  <2>3. \A j, k \in Slots : j # k /\ worker'[j] # Nil => worker'[j] # worker'[k]
    BY <1>4 DEF PoolIInv, ProcsApart
  <2>4. \A o \in Threads \ {t} : thread'[o].pc \in Active =>
          /\ thread'[o].proc \in 1..spawned'
          /\ worker'[thread'[o].slot] \in {thread'[o].proc, Nil}
          /\ \A j \in Slots : worker'[j] = thread'[o].proc => j = thread'[o].slot
          /\ \A u \in Threads \ {o} : thread'[u].pc \in Active => thread'[u].proc # thread'[o].proc
    BY <1>1, <1>3, <1>4, <1>6, <2>1 DEF PoolIInv, ProcsApart, Active
  <2>5. thread'[t].pc \in Active =>
          /\ thread'[t].proc = new /\ thread'[t].slot = i
          /\ \A u \in Threads \ {t} : thread'[u].pc \in Active => thread'[u].proc # new
    BY <1>6, <2>1 DEF Active
  <2> QED BY <1>1, <1>3, <1>4, <2>2, <2>3, <2>4, <2>5 DEF ProcsApart
<1>10. PipesTidy'
  BY <1>1, <1>5, <1>6 DEF PoolIInv, PipesTidy
<1>11. DeadIsDead'
  <2>1. \A o \in Threads \ {t} : thread[o].pc \in {"found_dead", "saw_it_die"} => thread[o].proc # new
    BY <1>3 DEF PoolIInv, ProcsApart, Active
  <2> QED BY <1>5, <1>6, <2>1 DEF PoolIInv, DeadIsDead
<1>12. AllAccounted'
  <2>1. shut = "open" /\ doomed = {} /\ \A j \in Slots : worker[j] # Nil
    BY <1>1, <1>2 DEF PoolIInv, AllAccounted
  <2>2. \A p \in alive' : \E j \in Slots : worker'[j] = p
    BY <1>1, <1>2, <1>4, <2>1 DEF PoolIInv, AllAccounted
  <2>3. \A j \in Slots : worker'[j] # Nil
    BY <1>3, <1>4, <2>1
  <2> QED BY <1>1, <2>1, <2>2, <2>3 DEF AllAccounted
<1>13. OwnAnswer'
  BY <1>6 DEF PoolIInv, OwnAnswer
<1> QED BY <1>7, <1>8, <1>9, <1>10, <1>11, <1>12, <1>13 DEF PoolIInv

LEMMA WriteKeeps ==
  ASSUME PoolIInv, NEW t \in Threads, Write(t)
  PROVE  PoolIInv'
<1> USE DEF processVars
<1> DEFINE p == thread[t].proc
<1>1. At(t, "writing") /\ UNCHANGED <<free, worker, spawned, alive, shut, doomed>>
  BY DEF Raised, Write
<1>2. CASE p \notin alive
  <2>1. GoTo(t, "leaving") /\ UNCHANGED pipe
    BY <1>2 DEF Raised, Write
  <2>2. Walked(t, "leaving")
    BY <2>1, WalkStep DEF Places, PoolIInv
  <2> QED BY <1>1, <2>1, <2>2, WalkKeeps DEF At, Active, Places
<1>3. CASE p \in alive
  <2>1. GoTo(t, "reading") /\ pipe' = [pipe EXCEPT ![p].request = t]
    BY <1>3 DEF Raised, Write
  <2>2. Walked(t, "reading")
    BY <2>1, WalkStep DEF Places, PoolIInv
  <2>3. p \in Procs
    BY <1>1, PoolAssumption DEF PoolIInv, PoolShape, ProcsApart, Active, At, Procs
  <2>4. /\ pipe[p].request = NoThread /\ pipe[p].answer = NoThread
    <3>1. pipe[p] \in [request : Payloads, answer : Payloads]
      BY <2>3 DEF PoolIInv, PoolShape
    <3>2. \A u \in Threads : u \in {pipe[p].request, pipe[p].answer} => FALSE
      <4> SUFFICES ASSUME NEW u \in Threads, u \in {pipe[p].request, pipe[p].answer} PROVE FALSE
        OBVIOUS
      <4>1. thread[u].pc = "reading" /\ thread[u].proc = p
        BY <2>3 DEF PoolIInv, PipesTidy
      <4>2. u # t
        BY <1>1, <4>1 DEF At
      <4> QED BY <1>1, <4>1, <4>2 DEF PoolIInv, ProcsApart, Active, At
    <3> QED BY <3>1, <3>2 DEF Payloads
  <2>5. /\ pipe'[p].request = t /\ pipe'[p].answer = NoThread
        /\ \A q \in Procs \ {p} : pipe'[q] = pipe[q]
        /\ pipe' \in [Procs -> [request : Payloads, answer : Payloads]]
    BY <2>1, <2>3, <2>4 DEF PoolIInv, PoolShape, Payloads
  <2> HIDE DEF p
  <2>6. PoolShape'
    BY <1>1, <2>2, <2>5 DEF PoolIInv, PoolShape, Walked
  <2>7. SlotsApart'
    BY <1>1, <2>2 DEF PoolIInv, SlotsApart, Walked, Active, At
  <2>8. ProcsApart'
    BY <1>1, <2>2 DEF PoolIInv, ProcsApart, Walked, Active, At
  <2>9. PipesTidy'
    <3>1. NoThread \notin Threads
      BY PoolAssumption
    <3> QED BY <1>1, <1>3, <2>2, <2>3, <2>5, <3>1 DEF PoolIInv, PipesTidy, Walked, At, p
  <2>10. DeadIsDead' /\ AllAccounted' /\ OwnAnswer'
    BY <1>1, <2>2 DEF PoolIInv, DeadIsDead, AllAccounted, OwnAnswer, Walked
  <2> QED BY <2>6, <2>7, <2>8, <2>9, <2>10 DEF PoolIInv
<1> QED BY <1>2, <1>3

LEMMA ReadKeeps ==
  ASSUME PoolIInv, NEW t \in Threads, Read(t)
  PROVE  PoolIInv'
<1> USE DEF processVars
<1> DEFINE p == thread[t].proc
<1>1. /\ At(t, "reading") /\ Readable(p) /\ UNCHANGED <<free, worker, spawned, alive, shut, doomed>>
  BY DEF Read
<1>2. p \in Procs
  BY <1>1, PoolAssumption DEF PoolIInv, PoolShape, ProcsApart, Active, At, Procs
<1>3. pipe[p] \in [request : Payloads, answer : Payloads]
  BY <1>2 DEF PoolIInv, PoolShape
<1>4. \A u \in Threads : u \in {pipe[p].request, pipe[p].answer} => u = t
  <2> SUFFICES ASSUME NEW u \in Threads, u \in {pipe[p].request, pipe[p].answer}, u # t PROVE FALSE
    OBVIOUS
  <2>1. thread[u].pc = "reading" /\ thread[u].proc = p
    BY <1>2 DEF PoolIInv, PipesTidy
  <2> QED BY <1>1, <2>1 DEF PoolIInv, ProcsApart, Active, At
<1>5. pipe[p].answer \in {t, NoThread}
  BY <1>3, <1>4 DEF Payloads
<1>6. /\ thread' \in [Threads -> ThreadRow] /\ \A o \in Threads \ {t} : thread'[o] = thread[o]
      /\ thread'[t].slot = thread[t].slot /\ thread'[t].proc = p
      /\ thread'[t].result \in {t, NoThread}
      /\ thread'[t].pc \in {"leaving", "saw_it_die"}
      /\ thread'[t].pc = "saw_it_die" => p \notin alive
  <2>1. CASE pipe[p].answer # NoThread
    <3>1. PICK res \in {t, NoThread} :
            thread' = [thread EXCEPT ![t].pc = "leaving", ![t].result = res]
      BY <1>5, <2>1 DEF Read
    <3>2. thread' \in [Threads -> ThreadRow]
      <4>0. res \in Payloads
        BY DEF Payloads
    <4>1. [thread[t] EXCEPT !.pc = "leaving", !.result = res] \in ThreadRow
      BY <4>0, RowOf, RowStays
    <4>2. thread' = [thread EXCEPT ![t] = [thread[t] EXCEPT !.pc = "leaving", !.result = res]]
      BY <3>1
    <4> QED BY <4>1, <4>2, RowsStay
    <3>3. /\ \A o \in Threads \ {t} : thread'[o] = thread[o]
          /\ thread'[t].pc = "leaving" /\ thread'[t].proc = p
          /\ thread'[t].slot = thread[t].slot /\ thread'[t].result = res
      BY <3>1 DEF PoolIInv, PoolShape, ThreadRow
    <3> QED BY <3>1, <3>2, <3>3
  <2>2. CASE pipe[p].answer = NoThread
    <3>1. thread[t].result \in {t, NoThread}
      BY DEF PoolIInv, OwnAnswer
    <3>2. CASE GoTo(t, "saw_it_die") /\ p \notin alive
      BY <3>1, <3>2, WalkStep DEF Places, PoolIInv, Walked
    <3>3. CASE GoTo(t, "leaving")
      BY <3>1, <3>3, WalkStep DEF Places, PoolIInv, Walked
    <3> QED BY <2>2, <3>2, <3>3 DEF Read
  <2> QED BY <2>1, <2>2
<1>7. /\ pipe' \in [Procs -> [request : Payloads, answer : Payloads]]
      /\ \A q \in Procs \ {p} : pipe'[q] = pipe[q]
      /\ pipe'[p].request = NoThread /\ pipe'[p].answer = NoThread
  <2>1. CASE pipe[p].answer # NoThread
    <3>1. pipe[p].request = NoThread
      BY <1>2, <2>1 DEF PoolIInv, PipesTidy
    <3>2. pipe' = [pipe EXCEPT ![p].answer = NoThread]
      BY <2>1 DEF Read
    <3> QED BY <1>2, <3>1, <3>2 DEF PoolIInv, PoolShape, Payloads
  <2>2. CASE pipe[p].answer = NoThread
    <3>1. pipe[p].request = NoThread
      BY <1>1, <1>2, <2>2 DEF PoolIInv, PipesTidy, Readable
    <3>2. pipe' = pipe
      BY <2>2 DEF Read
    <3> QED BY <2>2, <3>1, <3>2 DEF PoolIInv, PoolShape
  <2> QED BY <2>1, <2>2
<1> HIDE DEF p
<1>8. PoolShape'
  BY <1>1, <1>6, <1>7 DEF PoolIInv, PoolShape
<1>9. SlotsApart'
  BY <1>1, <1>6 DEF PoolIInv, SlotsApart, Active, At
<1>10. ProcsApart'
  BY <1>1, <1>6 DEF PoolIInv, ProcsApart, Active, At, p
<1>11. PipesTidy'
  <2>1. NoThread \notin Threads
    BY PoolAssumption
  <2>2. \A q \in Procs \ {p} : t \notin {pipe[q].request, pipe[q].answer}
    BY DEF PoolIInv, PipesTidy, p
  <2> QED BY <1>1, <1>6, <1>7, <2>1, <2>2 DEF PoolIInv, PipesTidy
<1>12. DeadIsDead' /\ AllAccounted' /\ OwnAnswer'
  BY <1>1, <1>6 DEF PoolIInv, DeadIsDead, AllAccounted, OwnAnswer
<1> QED BY <1>8, <1>9, <1>10, <1>11, <1>12 DEF PoolIInv

LEMMA LeaveKeeps ==
  ASSUME PoolIInv, NEW t \in Threads, Leave(t)
  PROVE  PoolIInv'
<1> USE DEF processVars
<1> DEFINE i == thread[t].slot
<1>0. thread' = [thread EXCEPT ![t].pc = "done", ![t].slot = Nil, ![t].proc = Nil]
  BY DEF Leave
<1>1. /\ At(t, "leaving") /\ UNCHANGED <<pipe, worker, spawned, alive, shut, doomed>>
      /\ free' = IF i = Nil THEN free ELSE free \cup {i}
  BY DEF Leave
<1>2. thread' \in [Threads -> ThreadRow]
  <2>1. [thread[t] EXCEPT !.pc = "done", !.slot = Nil, !.proc = Nil] \in ThreadRow
    BY RowOf, RowStays
  <2>2. thread' = [thread EXCEPT ![t] = [thread[t] EXCEPT !.pc = "done", !.slot = Nil, !.proc = Nil]]
    BY <1>0
  <2> QED BY <2>1, <2>2, RowsStay
<1>3. /\ \A o \in Threads \ {t} : thread'[o] = thread[o]
      /\ thread'[t].pc = "done" /\ thread'[t].slot = Nil /\ thread'[t].result = thread[t].result
  BY <1>0 DEF PoolIInv, PoolShape, ThreadRow
<1>4. i \in Slots \cup {Nil} /\ Nil \notin Slots
  BY DEF PoolIInv, PoolShape, ThreadRow, Slots, Nil
<1>5. PoolShape'
  BY <1>1, <1>2, <1>4 DEF PoolIInv, PoolShape
<1>6. free' \subseteq Slots /\ \A o \in Threads \ {t} : thread[o].slot \notin free'
  BY <1>1, <1>4 DEF PoolIInv, PoolShape, SlotsApart
<1>7. SlotsApart'
  BY <1>3, <1>4, <1>6 DEF PoolIInv, SlotsApart, Active
<1>8. ProcsApart'
  BY <1>1, <1>3 DEF PoolIInv, ProcsApart, Active
<1>9. PipesTidy' /\ DeadIsDead' /\ AllAccounted' /\ OwnAnswer'
  BY <1>1, <1>3 DEF PoolIInv, PipesTidy, DeadIsDead, AllAccounted, OwnAnswer, At
<1> QED BY <1>5, <1>7, <1>8, <1>9 DEF PoolIInv

(* The request of a process goes with it. *)
Emptied(p) == pipe' = [pipe EXCEPT ![p].request = NoThread]

(* Processes answer, die and are terminated. *)
LEMMA ProcessKeeps ==
  ASSUME PoolIInv, (\E p \in Procs : Answer(p) \/ Die(p)) \/ Close \/ Terminate
  PROVE  PoolIInv'
<1> USE DEF processVars
<1>1. ASSUME NEW p \in Procs, Answer(p) PROVE PoolIInv'
  <2>1. /\ p \in alive /\ pipe[p].request # NoThread
        /\ pipe' = [pipe EXCEPT ![p] = [request |-> NoThread, answer |-> pipe[p].request]]
        /\ UNCHANGED <<free, thread, worker, spawned, alive, shut, doomed>>
    BY <1>1 DEF Answer
  <2>2. /\ pipe'[p].request = NoThread /\ pipe'[p].answer = pipe[p].request
        /\ \A q \in Procs \ {p} : pipe'[q] = pipe[q]
        /\ pipe' \in [Procs -> [request : Payloads, answer : Payloads]]
    BY <2>1 DEF PoolIInv, PoolShape, Payloads
  <2>3. PoolShape' /\ SlotsApart' /\ ProcsApart' /\ DeadIsDead' /\ AllAccounted' /\ OwnAnswer'
    BY <2>1, <2>2 DEF PoolIInv, PoolShape, SlotsApart, ProcsApart, DeadIsDead, AllAccounted, OwnAnswer
  <2>4. PipesTidy'
    BY <2>1, <2>2, PoolAssumption DEF PoolIInv, PipesTidy
  <2> QED BY <2>3, <2>4 DEF PoolIInv
<1>2. ASSUME NEW p \in Procs, alive' = alive \ {p}, Emptied(p),
             UNCHANGED <<free, thread, worker, spawned>>,
             shut' = shut,
             doomed' = doomed \/ (doomed' = doomed \ {p} /\ shut = "closing")
      PROVE  PoolIInv'
  <2>1. /\ pipe'[p].request = NoThread /\ pipe'[p].answer = pipe[p].answer
        /\ \A q \in Procs \ {p} : pipe'[q] = pipe[q]
        /\ pipe' \in [Procs -> [request : Payloads, answer : Payloads]]
    BY <1>2 DEF PoolIInv, PoolShape, Payloads, Emptied
  <2>2. PoolShape'
    BY <1>2, <2>1 DEF PoolIInv, PoolShape
  <2>3. SlotsApart' /\ ProcsApart' /\ DeadIsDead' /\ OwnAnswer'
    BY <1>2 DEF PoolIInv, SlotsApart, ProcsApart, DeadIsDead, OwnAnswer
  <2>4. AllAccounted'
    BY <1>2 DEF PoolIInv, AllAccounted
  <2>5. PipesTidy'
    BY <1>2, <2>1, PoolAssumption DEF PoolIInv, PipesTidy
  <2> QED BY <2>2, <2>3, <2>4, <2>5 DEF PoolIInv
<1>3. ASSUME NEW p \in Procs, Die(p) PROVE PoolIInv'
  <2>1. /\ alive' = alive \ {p} /\ Emptied(p)
        /\ UNCHANGED <<free, thread, worker, spawned>> /\ doomed' = doomed /\ shut' = shut
    BY <1>3 DEF Die, Emptied
  <2> QED BY <2>1, <1>2
<1>4. CASE Close
  <2>1. /\ shut = "open" /\ shut' = "closing" /\ doomed' = {worker[i] : i \in Slots}
        /\ worker' = [i \in Slots |-> Nil] /\ UNCHANGED <<free, thread, pipe, spawned, alive>>
    BY <1>4 DEF Close
  <2>2. \A i \in Slots : worker[i] # Nil
    BY <2>1 DEF PoolIInv, AllAccounted
  <2>3. PoolShape'
    BY <2>1, <2>2 DEF PoolIInv, PoolShape
  <2>4. SlotsApart' /\ PipesTidy' /\ DeadIsDead' /\ OwnAnswer'
    BY <2>1 DEF PoolIInv, SlotsApart, PipesTidy, DeadIsDead, OwnAnswer
  <2>5. Nil \notin Procs /\ \A i \in Slots : worker'[i] = Nil /\ Nil <= spawned
    BY <2>1 DEF Procs, Nil, PoolIInv, PoolShape
  <2>6. ProcsApart'
    <3>1. \A t \in Threads : thread[t].pc \in Active => thread[t].slot \in Slots /\ thread[t].proc # Nil
      BY DEF PoolIInv, SlotsApart, ProcsApart, Nil
    <3> QED BY <2>1, <2>5, <3>1 DEF PoolIInv, ProcsApart
  <2>7. AllAccounted'
    BY <2>1, <2>5 DEF PoolIInv, AllAccounted
  <2> QED BY <2>3, <2>4, <2>6, <2>7 DEF PoolIInv
<1>5. CASE Terminate
  <2>1. shut = "closing" /\ UNCHANGED <<free, thread, worker, spawned>>
    BY <1>5 DEF Terminate
  <2>2. CASE doomed = {} /\ shut' = "closed" /\ UNCHANGED <<doomed, alive, pipe>>
    <3>1. PoolShape' /\ SlotsApart' /\ ProcsApart' /\ PipesTidy' /\ DeadIsDead' /\ OwnAnswer'
      BY <2>1, <2>2 DEF PoolIInv, PoolShape, SlotsApart, ProcsApart, PipesTidy, DeadIsDead, OwnAnswer
    <3>2. AllAccounted'
      BY <2>1, <2>2 DEF PoolIInv, AllAccounted
    <3> QED BY <3>1, <3>2 DEF PoolIInv
  <2>3. ASSUME NEW p \in doomed, doomed' = doomed \ {p}, alive' = alive \ {p},
               Emptied(p), UNCHANGED shut
        PROVE  PoolIInv'
    BY <1>2, <2>1, <2>3 DEF PoolIInv, PoolShape
  <2> QED BY <1>5, <2>2, <2>3 DEF Terminate, Emptied
<1> QED BY <1>1, <1>3, <1>4, <1>5

LEMMA PoolInvariant == PoolSpec => []PoolIInv
<1>1. PoolInit => PoolIInv
  <2> SUFFICES ASSUME PoolInit PROVE PoolIInv
    OBVIOUS
  <2> USE PoolAssumption DEF PoolInit
  <2>1. PoolShape
    BY DEF PoolShape, ThreadRow, Slots, Procs, Nil, Payloads, Places
  <2>2. SlotsApart /\ DeadIsDead
    BY DEF SlotsApart, DeadIsDead, Active, Slots, Nil
  <2>3. ProcsApart
    BY DEF ProcsApart, Active, Slots
  <2>4. PipesTidy /\ OwnAnswer
    BY DEF PipesTidy, OwnAnswer
  <2>5. AllAccounted
    <3>1. \A p \in alive : worker[p] = p /\ p \in Slots
      OBVIOUS
    <3>2. \A i \in Slots : worker[i] # Nil
      BY DEF Slots, Nil
    <3> QED BY <3>1, <3>2 DEF AllAccounted
  <2> QED BY <2>1, <2>2, <2>3, <2>4, <2>5 DEF PoolIInv
<1>2. PoolIInv /\ [PoolNext]_poolVars => PoolIInv'
  <2> SUFFICES ASSUME PoolIInv, [PoolNext]_poolVars PROVE PoolIInv'
    OBVIOUS
  <2> USE DEF processVars
  <2>1. ASSUME NEW t \in Threads, Enter(t) PROVE PoolIInv'
    <3>1. At(t, "idle") /\ UNCHANGED <<free, pipe, processVars>> /\ thread[t].slot = Nil
      BY <2>1 DEF Enter, PoolIInv, SlotsApart, At
    <3>2. Walked(t, "waiting") \/ Walked(t, "done")
      BY <2>1, WalkStep DEF Enter, PoolIInv, Places
    <3> QED BY <3>1, <3>2, WalkKeeps DEF At, Active, Places
  <2>2. ASSUME NEW t \in Threads, Acquire(t) PROVE PoolIInv'
    <3>1. At(t, "waiting") /\ UNCHANGED <<free, pipe, processVars>> /\ thread[t].slot = Nil
      BY <2>2 DEF Acquire, PoolIInv, SlotsApart, At
    <3>2. Walked(t, "queued")
      BY <2>2, WalkStep DEF Acquire, PoolIInv, Places
    <3> QED BY <3>1, <3>2, WalkKeeps DEF At, Active, Places
  <2>3. ASSUME NEW t \in Threads, Check(t) PROVE PoolIInv'
    <3>1. At(t, "checked") /\ UNCHANGED <<free, pipe, processVars>>
      BY <2>3 DEF Check
    <3>2. Walked(t, "writing") \/ (Walked(t, "found_dead") /\ thread[t].proc \notin alive)
      BY <2>3, WalkStep DEF Check, PoolIInv, Places
    <3> QED BY <3>1, <3>2, WalkKeeps DEF At, Active, Places
  <2>4. ASSUME NEW t \in Threads, ReplaceRaises(t) PROVE PoolIInv'
    <3>1. (At(t, "found_dead") \/ At(t, "saw_it_die")) /\ UNCHANGED <<free, pipe, processVars>>
      BY <2>4 DEF Raised, ReplaceRaises
    <3>2. Walked(t, "leaving")
      BY <2>4, WalkStep DEF Raised, ReplaceRaises, PoolIInv, Places
    <3> QED BY <3>1, <3>2, WalkKeeps DEF At, Active, Places
  <2>5. CASE UNCHANGED poolVars
    BY <2>5 DEF poolVars, PoolIInv, PoolShape, SlotsApart, ProcsApart, PipesTidy, DeadIsDead,
                AllAccounted, OwnAnswer
  <2> QED BY <2>1, <2>2, <2>3, <2>4, <2>5, GetKeeps, LookKeeps, SpawnKeeps, WriteKeeps, ReadKeeps,
             LeaveKeeps, ProcessKeeps DEF PoolNext, Step
<1> QED BY <1>1, <1>2, PTL DEF PoolSpec

(* For any number of threads and workers, whatever dies and whenever the     *)
(* pool is closed: an answer reaches who asked, and no worker outlives the   *)
(* pool.                                                                     *)
THEOREM PoolInOrder == PoolSpec => []PoolKeepsOrder
<1>1. PoolIInv => PoolKeepsOrder
  <2> SUFFICES ASSUME PoolIInv, shut = "closed" PROVE alive = {}
    BY DEF PoolIInv, PoolKeepsOrder, NoWorkerOutlives
  <2>1. \A p \in alive : p \in Nat /\ p # Nil
    BY DEF PoolIInv, PoolShape, Nil
  <2>2. \A p \in alive : \E i \in Slots : worker[i] = p
    BY DEF PoolIInv, AllAccounted
  <2>3. \A i \in Slots : worker[i] = Nil
    BY DEF PoolIInv, AllAccounted
  <2> QED BY <2>1, <2>2, <2>3
<1> QED BY <1>1, PoolInvariant, PTL

(* The threads that have a permit. *)
Inside == {t \in Threads : thread[t].pc \notin {"idle", "waiting", "done"}}

(* Every permit is free or with a thread. *)
PermitsInv ==
  /\ shut \in {"open", "closing", "closed"}
  /\ permits \in Nat /\ permits + Cardinality(Inside) = Size

LEMMA PoolTyped == PoolSpec => []PoolTypeOK
<1>1. PoolInit => PermitsInv
  <2> SUFFICES ASSUME PoolInit PROVE PermitsInv
    OBVIOUS
  <2>1. Inside = {}
    BY DEF PoolInit, Inside
  <2> QED BY <2>1, PoolAssumption, FS_EmptySet DEF PoolInit, PermitsInv
<1>2. PoolIInv /\ PermitsInv /\ [PoolNext]_poolVars => PermitsInv'
  <2> SUFFICES ASSUME PoolIInv, PermitsInv, [PoolNext]_poolVars PROVE PermitsInv'
    OBVIOUS
  <2>0. /\ thread \in [Threads -> ThreadRow] /\ PoolShape
        /\ IsFiniteSet(Inside) /\ Cardinality(Inside) \in Nat /\ Size \in Nat
    <3>1. IsFiniteSet(Inside)
      BY PoolAssumption, FS_Subset DEF Inside
    <3> QED BY <3>1, PoolAssumption, FS_CardinalityType DEF PoolIInv, PoolShape
  <2>1. ASSUME NEW t \in Threads, Acquire(t) PROVE PermitsInv'
    <3>1. Inside' = Inside \cup {t} /\ t \notin Inside
      BY <2>0, <2>1 DEF Acquire, At, GoTo, Inside, ThreadRow
    <3>2. Cardinality(Inside') = Cardinality(Inside) + 1
      BY <2>0, <3>1, FS_AddElement
    <3> QED BY <2>0, <2>1, <3>2 DEF PermitsInv, Acquire, processVars
  <2>2. ASSUME NEW t \in Threads, Leave(t) PROVE PermitsInv'
    <3>1. Inside' = Inside \ {t} /\ t \in Inside
      BY <2>0, <2>2 DEF Leave, At, Inside, ThreadRow
    <3>2. Cardinality(Inside') = Cardinality(Inside) - 1
      BY <2>0, <3>1, FS_RemoveElement
    <3> QED BY <2>0, <2>2, <3>2 DEF PermitsInv, Leave, processVars
  <2>3. ASSUME Inside' = Inside, permits' = permits, shut' \in {"open", "closing", "closed"}
        PROVE  PermitsInv'
    BY <2>3 DEF PermitsInv
  <2>4. ASSUME NEW t \in Threads, Enter(t) \/ Check(t) \/ ReplaceAfter(t) \/ ReplaceRaises(t) \/ Write(t)
        PROVE  PermitsInv'
    <3>1. permits' = permits /\ shut' = shut
      BY <2>4 DEF Raised, Enter, Check, ReplaceAfter, ReplaceRaises, Write, ReplaceWorker, Spawn, processVars
    <3>2. \E place \in Places : /\ GoTo(t, place)
                              /\ (place \in {"idle", "waiting", "done"} <=>
                                   thread[t].pc \in {"idle", "waiting", "done"})
      BY <2>4 DEF Raised, Enter, Check, ReplaceAfter, ReplaceRaises, Write, At, Places
    <3>3. Inside' = Inside
      BY <2>0, <3>2 DEF GoTo, Inside, ThreadRow
    <3> QED BY <2>3, <3>1, <3>3 DEF PermitsInv
  <2>5. ASSUME NEW t \in Threads, Get(t) \/ Look(t) \/ ReplaceBefore(t) PROVE PermitsInv'
    <3>1. permits' = permits /\ shut' = shut
      BY <2>5 DEF Raised, Get, Look, ReplaceBefore, ReplaceWorker, Spawn, processVars
    <3>2. /\ \A o \in Threads \ {t} : thread'[o] = thread[o]
          /\ thread[t].pc \in {"queued", "holding", "found_dead"}
          /\ thread'[t].pc \in {"holding", "leaving", "checked", "writing"}
      BY <2>0, <2>5 DEF Raised, Get, Look, ReplaceBefore, At, ThreadRow
    <3>3. Inside' = Inside
      BY <3>2 DEF Inside
    <3> QED BY <2>3, <3>1, <3>3 DEF PermitsInv
  <2>6. ASSUME NEW t \in Threads, Read(t) PROVE PermitsInv'
    <3>1. permits' = permits /\ shut' = shut
      BY <2>6 DEF Read, processVars
    <3>2. /\ \A o \in Threads \ {t} : thread'[o] = thread[o]
          /\ thread[t].pc = "reading"
          /\ thread'[t].pc \in {"leaving", "saw_it_die"}
      BY <2>0, <2>6 DEF Read, GoTo, At, ThreadRow
    <3>3. Inside' = Inside
      BY <3>2 DEF Inside
    <3> QED BY <2>3, <3>1, <3>3 DEF PermitsInv
  <2>7. ASSUME UNCHANGED <<thread, permits>>, shut' \in {"open", "closing", "closed"}
        PROVE  PermitsInv'
    BY <2>3, <2>7 DEF Inside
  <2>8. ASSUME NEW p \in Procs, Answer(p) \/ Die(p) PROVE PermitsInv'
    BY <2>7, <2>8 DEF Answer, Die, processVars, PermitsInv
  <2>9. ASSUME Close \/ Terminate \/ UNCHANGED poolVars PROVE PermitsInv'
    BY <2>7, <2>9 DEF Close, Terminate, poolVars, PermitsInv
  <2> QED BY <2>1, <2>2, <2>4, <2>5, <2>6, <2>8, <2>9 DEF PoolNext, Step
<1>3. PoolIInv /\ PermitsInv => PoolTypeOK
  <2> SUFFICES ASSUME PoolIInv, PermitsInv PROVE PoolTypeOK
    OBVIOUS
  <2>1. IsFiniteSet(Inside) /\ Cardinality(Inside) \in Nat
    BY PoolAssumption, FS_Subset, FS_CardinalityType DEF Inside
  <2>2. permits \in 0..Size
    BY <2>1, PoolAssumption DEF PermitsInv
  <2> QED BY <2>2 DEF PoolIInv, PoolShape, PermitsInv, PoolTypeOK, ThreadRow
<1> QED BY <1>1, <1>2, <1>3, PoolInvariant, PTL DEF PoolSpec

===============================================================================
