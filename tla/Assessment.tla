----------------------------- MODULE Assessment -----------------------------
(***************************************************************************)
(* What becomes of a policy decision: the risk score of the request        *)
(* (services/risk_service.py), the organization's weights and thresholds   *)
(* (routes/risk_config.py) and its compliance controls                     *)
(* (services/compliance_service.py, its one plugin, routes/compliance.py), *)
(* as routes/evaluate.py applies them.                                     *)
(*                                                                         *)
(* A request is abstracted to the classes its words fall into.  Weights    *)
(* are hundredths; rounding is to the nearest, halves to the even number.  *)
(* Administrators change the settings while evaluations read them, each in *)
(* a transaction that reads the row without a lock, checks what it read    *)
(* with what it changes, and writes the columns it has changed.            *)
(***************************************************************************)
EXTENDS Integers, FiniteSets

CONSTANTS
  Evaluations,
  Requests,      \* the requests that may be evaluated
  Puts,          \* requests that set the risk configuration
  Changes,       \* what they set: [allow, approval, weights], each may be Unset
  ModePuts,      \* requests that set the mode of a control
  Profiles,      \* the weights in use
  Unset          \* no row, or a field that a request does not set

Actions == {"destructive", "change", "read", "other", "wildcard"}
(* The trust level of the agent; of one that is not registered, what its id *)
(* suggests: a trusted prefix, four digits in a row ("numbered") or nothing. *)
Trusts == {"trusted", "verified", "unknown", "numbered", "untrusted"}
Targets == {"sensitive", "internal", "other", "wildcard"}
Factors == {"action_severity", "context_signals", "rate_pattern", "agent_trust", "amount_scale",
            "resource_sensitivity"}
Controls == {"eu_ai_act_art13", "soc2_cc61", "iso42001_sec84"}
Decisions == {"ALLOW", "APPROVAL_REQUIRED", "DENY"}

(* keys: how many risky keys the context has; hot: one of its values says  *)
(* production or the like; bare: it is empty.                              *)
Request == [action : Actions, trust : Trusts, generic : BOOLEAN, target : Targets,
            keys : 0 .. 5, hot : BOOLEAN, bare : BOOLEAN, amount : Nat, used : Nat, limit : Nat]

DefaultWeights ==
  [f \in Factors |-> CASE f = "action_severity" -> 30 [] f = "context_signals" -> 20
                       [] f \in {"rate_pattern", "agent_trust"} -> 15 [] OTHER -> 10]

DefaultConfig == [allow |-> 30, approval |-> 70, weights |-> DefaultWeights]

ASSUME AssessmentAssumption ==
  /\ Unset \notin 0 .. 100
  /\ Requests \subseteq Request
  /\ \A r \in Requests : r.bare => r.keys = 0 /\ ~r.hot /\ r.amount = 0
  /\ Profiles \subseteq [Factors -> 0 .. 100] /\ DefaultWeights \in Profiles
  /\ \A c \in Changes :
       /\ c.allow \in 0 .. 100 \cup {Unset} /\ c.approval \in 0 .. 100 \cup {Unset}
       /\ c.weights \in Profiles \cup {Unset}

VARIABLES
  config,        \* the committed row of org_risk_configs, or Unset
  modes,         \* the committed rows of org_compliance_configs
  put,           \* the requests that set the configuration
  modePut,       \* the requests that set a mode
  evaluation     \* evaluations between the policy engine and their decision

assessmentVars == <<config, modes, put, modePut, evaluation>>

-------------------------------------------------------------------------------
(* The risk score *)

Capped(n, top) == IF n > top THEN top ELSE n

(* round(n / 100) *)
Rounded(n) ==
  LET q == n \div 100
      rest == n % 100
  IN  IF rest > 50 \/ (rest = 50 /\ q % 2 = 1) THEN q + 1 ELSE q

ActionSeverity(action) ==
  CASE action = "destructive" -> 90 [] action = "change" -> 45 [] action = "read" -> 5 [] OTHER -> 20

ContextSignals(r) == Capped(10 * r.keys, 40) + (IF r.hot THEN 20 ELSE 0)

RatePattern(used, limit) ==
  IF limit <= 0 THEN 0
  ELSE IF 10 * used >= 9 * limit THEN 70
  ELSE IF 10 * used >= 7 * limit THEN 40
  ELSE IF 2 * used >= limit THEN 20 ELSE 0

AgentTrust(trust) ==
  CASE trust = "trusted" -> 0 [] trust = "verified" -> 5 [] trust = "unknown" -> 15
    [] trust = "numbered" -> 30 [] OTHER -> 50

AmountScale(n) ==
  IF n >= 1000000 THEN 90
  ELSE IF n >= 10000 THEN 60 ELSE IF n >= 1000 THEN 35 ELSE IF n >= 100 THEN 15 ELSE 0

ResourceSensitivity(target) ==
  CASE target = "sensitive" -> 85 [] target = "internal" -> 45 [] OTHER -> 10

Raw(r) ==
  [f \in Factors |->
     CASE f = "action_severity" -> ActionSeverity(r.action)
       [] f = "context_signals" -> ContextSignals(r)
       [] f = "rate_pattern" -> RatePattern(r.used, r.limit)
       [] f = "agent_trust" -> AgentTrust(r.trust)
       [] f = "amount_scale" -> AmountScale(r.amount)
       [] OTHER -> ResourceSensitivity(r.target)]

Weighed(raw, w) == [f \in Factors |-> raw[f] * w[f]]

Total(g) ==
  g["action_severity"] + g["context_signals"] + g["rate_pattern"] + g["agent_trust"]
    + g["amount_scale"] + g["resource_sensitivity"]

Score(raw, w) == Capped(Rounded(Total(Weighed(raw, w))), 100)

Contribution(raw, w) == [f \in Factors |-> Rounded(raw[f] * w[f])]

Level(score) == IF score <= 30 THEN "low" ELSE IF score <= 70 THEN "medium" ELSE "high"

(* A variant that forgets that only an ALLOW is overridden.                *)
RiskDecides(decision, score, c) ==
  IF score > c.approval THEN "DENY"
  ELSE IF score > c.allow THEN "APPROVAL_REQUIRED" ELSE decision

(* What the score makes of the decision of the policies. *)
AfterRisk(decision, score, c) ==
  IF decision # "ALLOW" THEN decision
  ELSE IF score > c.approval THEN "DENY"
  ELSE IF score > c.allow THEN "APPROVAL_REQUIRED" ELSE "ALLOW"

-------------------------------------------------------------------------------
(* The controls *)

Finding(rule, control, severity, passed) ==
  [rule |-> rule, control |-> control, severity |-> severity, passed |-> passed]

(* AuditTrailCompliancePlugin.check *)
Findings(r, decision) ==
  { Finding("ART-13", "eu_ai_act_art13", "warning", ~r.generic),
    Finding("CC6.1", "soc2_cc61", "warning", r.action # "wildcard"),
    Finding("SEC-8.4", "iso42001_sec84", "info", r.target # "wildcard") }
  \cup { Finding("ART-13-CONTEXT", "eu_ai_act_art13", "info", ~r.bare) :
           d \in {decision} \ {"ALLOW"} }

Guidance(rule) ==
  CASE rule = "ART-13" -> {"agent_trust", "context_signals"}
    [] rule = "CC6.1" -> {"action_severity", "rate_pattern"}
    [] rule = "SEC-8.4" -> {"resource_sensitivity", "action_severity"}
    [] OTHER -> {"context_signals", "amount_scale", "resource_sensitivity"}

Floor(rule) == IF rule = "SEC-8.4" THEN 0 ELSE 40

Pressure(rule, parts) ==
  Capped(Total([f \in Factors |-> IF f \in Guidance(rule) THEN parts[f] ELSE 0]), 40)

LevelPoints(level) == CASE level \in {"none", "low"} -> 0 [] level = "medium" -> 10 [] OTHER -> 20

(* The points of a failed finding, before the floor of its rule. *)
Points(finding, level, parts) ==
  (IF finding.severity = "warning" THEN 40 ELSE 20) + LevelPoints(level)
    + Rounded(75 * Pressure(finding.rule, parts))

SeverityLevel(finding, level, parts) ==
  LET p == Points(finding, level, parts)
      points == IF p > Floor(finding.rule) THEN p ELSE Floor(finding.rule)
  IN  IF finding.passed \/ points < 40 THEN "low"
      ELSE IF points >= 85 THEN "critical" ELSE IF points >= 65 THEN "high" ELSE "medium"

Blocks(finding, mode, level, parts) ==
  /\ mode[finding.control] = "enforce" /\ ~finding.passed
  /\ SeverityLevel(finding, level, parts) \in {"high", "critical"}

AfterControls(r, decision, mode, level, parts) ==
  IF \E f \in Findings(r, decision) : Blocks(f, mode, level, parts) THEN "DENY" ELSE decision

-------------------------------------------------------------------------------
(* The settings and their changes *)

PutPlaces == {"new", "insert", "read", "done", "rejected", "failed"}

AssessmentTypeOK ==
  /\ config \in {Unset} \cup [allow : 0 .. 100, approval : 0 .. 100, weights : Profiles]
  /\ modes \in [Controls -> {Unset, "advisory", "enforce"}]
  /\ \A p \in Puts :
       /\ put[p].change \in Changes /\ put[p].pc \in PutPlaces
       /\ put[p].seen \in [allow : 0 .. 100, approval : 0 .. 100, weights : Profiles]
  /\ modePut \in [ModePuts -> [control : Controls, mode : {"advisory", "enforce"},
                               pc : {"new", "insert", "update", "done", "failed"}]]
  /\ evaluation \in [Evaluations ->
       [request : Requests, policies : Decisions, decision : Decisions,
        level : {"none", "low", "medium", "high"}, parts : [Factors -> 0 .. 100],
        pc : {"decided", "scored", "answered"}]]

(* A GET has made the default row, or nothing has been read yet.           *)
AssessmentInit(requests, changes, controls) ==
  /\ config \in {Unset, DefaultConfig}
  /\ modes = [c \in Controls |-> Unset]
  /\ put \in [Puts -> [change : changes, pc : {"new"}, seen : {DefaultConfig}]]
  /\ modePut \in [ModePuts -> [control : controls, mode : {"advisory", "enforce"}, pc : {"new"}]]
  /\ \E r \in [Evaluations -> requests], d \in [Evaluations -> Decisions] :
       evaluation = [e \in Evaluations |->
         [request |-> r[e], policies |-> d[e], decision |-> d[e], level |-> "none",
          parts |-> [f \in Factors |-> 0], pc |-> "decided"]]

(* get_risk_config makes the default row where there is none. *)
GetRiskConfig ==
  /\ config = Unset /\ config' = DefaultConfig
  /\ UNCHANGED <<modes, put, modePut, evaluation>>

(* _get_or_create *)
ReadConfig(p) ==
  /\ put[p].pc = "new"
  /\ put' = IF config = Unset THEN [put EXCEPT ![p].pc = "insert"]
                              ELSE [put EXCEPT ![p].pc = "read", ![p].seen = config]
  /\ UNCHANGED <<config, modes, modePut, evaluation>>

Chosen(value, old) == IF value = Unset THEN old ELSE value

Result(p, row) ==
  [allow |-> Chosen(put[p].change.allow, row.allow),
   approval |-> Chosen(put[p].change.approval, row.approval),
   weights |-> Chosen(put[p].change.weights, row.weights)]

Ordered(c) == c.allow < c.approval

(* The insert and the update are one transaction. *)
CreateConfig(p) ==
  /\ put[p].pc = "insert"
  /\ \/ /\ config # Unset                               \* UNIQUE (org_id)
        /\ put' = [put EXCEPT ![p].pc = "failed"] /\ UNCHANGED config
     \/ /\ config = Unset /\ Ordered(Result(p, DefaultConfig))
        /\ put' = [put EXCEPT ![p].pc = "done"] /\ config' = Result(p, DefaultConfig)
     \/ /\ config = Unset /\ ~Ordered(Result(p, DefaultConfig))
        /\ put' = [put EXCEPT ![p].pc = "rejected"] /\ UNCHANGED config
  /\ UNCHANGED <<modes, modePut, evaluation>>

(* The order is checked on the row as it was read; the columns that the    *)
(* request sets to another value are written to the row as it is.          *)
UpdateConfig(p) ==
  /\ put[p].pc = "read"
  /\ LET new == Result(p, put[p].seen)
         Written(field) == IF new[field] = put[p].seen[field] THEN config[field] ELSE new[field]
     IN  IF Ordered(new)
         THEN /\ config' = [allow |-> Written("allow"), approval |-> Written("approval"),
                            weights |-> Written("weights")]
              /\ put' = [put EXCEPT ![p].pc = "done"]
         ELSE UNCHANGED config /\ put' = [put EXCEPT ![p].pc = "rejected"]
  /\ UNCHANGED <<modes, modePut, evaluation>>

ReadMode(p) ==
  /\ modePut[p].pc = "new"
  /\ modePut' = [modePut EXCEPT
                   ![p].pc = IF modes[modePut[p].control] = Unset THEN "insert" ELSE "update"]
  /\ UNCHANGED <<config, modes, put, evaluation>>

WriteMode(p) ==
  /\ modePut[p].pc \in {"insert", "update"}
  /\ IF modePut[p].pc = "insert" /\ modes[modePut[p].control] # Unset
     THEN modePut' = [modePut EXCEPT ![p].pc = "failed"] /\ UNCHANGED modes
     ELSE /\ modePut' = [modePut EXCEPT ![p].pc = "done"]
          /\ modes' = [modes EXCEPT ![modePut[p].control] = modePut[p].mode]
  /\ UNCHANGED <<config, put, evaluation>>

-------------------------------------------------------------------------------
(* An evaluation *)

Settings == IF config = Unset THEN DefaultConfig ELSE config

ScoreRisk(e) ==
  /\ evaluation[e].pc = "decided"
  /\ LET raw == Raw(evaluation[e].request)
         score == Score(raw, Settings.weights)
     IN  evaluation' = [evaluation EXCEPT
           ![e].decision = AfterRisk(@, score, Settings),
           ![e].level = Level(score), ![e].parts = Contribution(raw, Settings.weights),
           ![e].pc = "scored"]
  /\ UNCHANGED <<config, modes, put, modePut>>

(* risk_scoring_enabled is off *)
SkipRisk(e) ==
  /\ evaluation[e].pc = "decided"
  /\ evaluation' = [evaluation EXCEPT ![e].pc = "scored"]
  /\ UNCHANGED <<config, modes, put, modePut>>

ModeOf == [c \in Controls |-> IF modes[c] = Unset THEN "advisory" ELSE modes[c]]

RunControls(e) ==
  /\ evaluation[e].pc = "scored"
  /\ LET v == evaluation[e] IN
       evaluation' = [evaluation EXCEPT
         ![e].decision = AfterControls(v.request, @, ModeOf, v.level, v.parts),
         ![e].pc = "answered"]
  /\ UNCHANGED <<config, modes, put, modePut>>

(* A plugin that raises or takes too long blocks nothing. *)
ControlsFail(e) ==
  /\ evaluation[e].pc = "scored"
  /\ evaluation' = [evaluation EXCEPT ![e].pc = "answered"]
  /\ UNCHANGED <<config, modes, put, modePut>>

AssessmentNext ==
  \/ GetRiskConfig
  \/ \E p \in Puts : ReadConfig(p) \/ CreateConfig(p) \/ UpdateConfig(p)
  \/ \E p \in ModePuts : ReadMode(p) \/ WriteMode(p)
  \/ \E e \in Evaluations : ScoreRisk(e) \/ SkipRisk(e) \/ RunControls(e) \/ ControlsFail(e)

AssessmentSpec == AssessmentInit(Requests, Changes, Controls) /\ [][AssessmentNext]_assessmentVars

-------------------------------------------------------------------------------
(* Properties *)

Strictness(d) == CASE d = "ALLOW" -> 0 [] d = "APPROVAL_REQUIRED" -> 1 [] OTHER -> 2

(* Neither the score nor a control ever lets through what the policies     *)
(* hold back, whatever the settings are changed to meanwhile.              *)
OnlyTightens ==
  \A e \in Evaluations :
    Strictness(evaluation[e].decision) >= Strictness(evaluation[e].policies)

(* "threshold_allow_max < threshold_approval_max (enforced server-side)"   *)
(* (docs/enterprise_guide.md)                                              *)
ThresholdsOrdered == config = Unset \/ Ordered(config)
===============================================================================
