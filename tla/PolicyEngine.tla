----------------------------- MODULE PolicyEngine -----------------------------
(***************************************************************************)
(* The decision of the policy engine: packages/agr-core/policy_engine.py.  *)
(*                                                                         *)
(* Two engines decide: the Cedar CLI, asked twice to tell a denial from a  *)
(* request for approval, and a Python matcher that reads the rules with    *)
(* regular expressions when the CLI is missing or fails.                   *)
(*                                                                         *)
(* A rule is what the engines can tell of it: its effect; whether its head *)
(* leaves the action and the principal open, names those of the request or *)
(* others, and whether the resource of its head is the request's; its      *)
(* `when`, as Cedar evaluates it and as the matcher reads it (TRUE without *)
(* one: the two differ where the condition is beyond the matcher, or Cedar *)
(* finds it in error); and its `unless`: none, another condition, true     *)
(* ("met") or not ("unmet"), or the approval of the request, guarded by    *)
(* `context has approval_status` ("approval") or not ("bare").  A policy   *)
(* holds one rule, which names approval_status nowhere else.               *)
(***************************************************************************)
EXTENDS FiniteSets

CONSTANT Modes  \* CEDAR_FALLBACK_MODE: the settings considered

ASSUME ModesAssumption == Modes \subseteq {"deny", "allow", "warn"}

Named == {"any", "this", "other"}
Rule == [effect : {"permit", "forbid"}, principal : Named, action : Named, resource : BOOLEAN,
         when : BOOLEAN, read : BOOLEAN,
         unless : {"none", "approval", "bare", "met", "unmet"}]

(* context["approval_status"]: absent, "approved" or anything else. *)
Statuses == {"absent", "approved", "else"}

VARIABLES
  asked,    \* the request and the settings it is decided under
  answer    \* the result, once there is one

engineVars == <<asked, answer>>

-------------------------------------------------------------------------------
(* The Cedar language (external): a rule applies if its head, its `when` and *)
(* its `unless` let it, and is skipped if one of them is in error, as is an  *)
(* approval read without a guard from a context that has none.  Any forbid   *)
(* that applies overrides every permit.                                      *)
InScope(r) == r.principal # "other" /\ r.action # "other" /\ r.resource

Applies(r, status) ==
  /\ InScope(r) /\ r.when
  /\ \/ r.unless \in {"none", "unmet"}
     \/ r.unless = "approval" /\ status # "approved"
     \/ r.unless = "bare" /\ status = "else"

Gated(r) == r.effect = "forbid" /\ r.unless \in {"approval", "bare"}

(* _approval_companion_permit: what an approval unlocks it also permits. *)
CompanionApplies(r, status) == Gated(r) /\ InScope(r) /\ r.when /\ status = "approved"

Cedar(rules, status) ==
  IF /\ \A r \in rules : r.effect = "forbid" => ~Applies(r, status)
     /\ \E r \in rules : \/ r.effect = "permit" /\ Applies(r, status)
                         \/ CompanionApplies(r, status)
  THEN "ALLOW" ELSE "DENY"

(* _cedar_cli_evaluator: a denial that an approval would lift asks for it,   *)
(* unless the request already carries a status or the second call fails.     *)
CliDecision(rules, status, secondFails) ==
  IF Cedar(rules, status) = "ALLOW" THEN "ALLOW"
  ELSE IF status = "absent" /\ ~secondFails /\ Cedar(rules, "approved") = "ALLOW"
       THEN "APPROVAL_REQUIRED"
       ELSE "DENY"

-------------------------------------------------------------------------------
(* _matches_rule looks at the action and at `when`: neither at the principal *)
(* and the resource of the head, but that a forbid with an open action must  *)
(* leave the principal open too, nor at `unless`.                            *)
ActionMatches(r) ==
  r.action = "this" \/ (r.effect = "forbid" /\ r.principal = "any" /\ r.action = "any")

Matches(r) == ActionMatches(r) /\ r.read

PyForbidDespiteApproval(r, status) == r.effect = "forbid" /\ Matches(r)

(* _python_evaluator: a forbid with an `unless` on approval_status counts as *)
(* a permit once approved, and turns a denial into a request for approval.   *)
PyForbid(r, status) == r.effect = "forbid" /\ Matches(r) /\ ~(Gated(r) /\ status = "approved")

PyPermit(r, status) ==
  Matches(r) /\ (r.effect = "permit" \/ (Gated(r) /\ status = "approved"))

PythonDecision(rules, status) ==
  IF \E r \in rules : PyForbid(r, status)
  THEN IF \E r \in rules : PyForbid(r, status) /\ Gated(r) THEN "APPROVAL_REQUIRED" ELSE "DENY"
  ELSE IF \E r \in rules : PyPermit(r, status) THEN "ALLOW" ELSE "DENY"

-------------------------------------------------------------------------------
(* evaluate_policies without a rule: no_policy_action, or its default. *)
NoPolicyDecision(action) ==
  IF action = "allow" THEN "ALLOW"
  ELSE IF action = "approval_required" THEN "APPROVAL_REQUIRED" ELSE "DENY"

(* evaluate_policies when the CLI is missing, or its first call fails. *)
FallbackDecision(mode, rules, status) ==
  IF mode = "deny" THEN "DENY"
  ELSE IF mode = "allow" THEN "ALLOW" ELSE PythonDecision(rules, status)

Result(decision, source) == [decision |-> decision, source |-> source]

EvaluatePolicies(a) ==
  IF a.rules = {} THEN Result(NoPolicyDecision(a.noPolicy), "no_policies")
  ELSE IF a.cli = "works" \/ a.cli = "second_fails"
       THEN Result(CliDecision(a.rules, a.status, a.cli = "second_fails"), "cedar_cli")
       ELSE Result(FallbackDecision(a.mode, a.rules, a.status), "python_fallback")

CliStates == {"works", "second_fails", "fails", "missing"}
Asked(Sets) ==
  [rules : Sets, status : Statuses, cli : CliStates, mode : Modes,
   noPolicy : {"deny", "allow", "approval_required", "invalid"}]

Decisions == {"ALLOW", "DENY", "APPROVAL_REQUIRED"}
Sources == {"no_policies", "cedar_cli", "python_fallback"}
NoAnswer == Result("none", "none")

EngineTypeOK == answer \in [decision : Decisions, source : Sources] \cup {NoAnswer}

(* The requests, over the given sets of rules. *)
EngineInit(Sets) == asked \in Asked(Sets) /\ answer = NoAnswer

Evaluate ==
  /\ answer = NoAnswer
  /\ answer' = EvaluatePolicies(asked)
  /\ UNCHANGED asked

(* Any set of rules. *)
EngineSpec == EngineInit(SUBSET Rule) /\ [][Evaluate]_engineVars

-------------------------------------------------------------------------------
(* The rules that the matcher reads as Cedar does, when no approval plays a  *)
(* part: their head is that of the request or of another action, their       *)
(* `when` is within its reach, and their `unless` can only be the approval.  *)
Understood(r) ==
  /\ r.principal # "other" /\ r.resource /\ r.read = r.when
  /\ r.action = "any" => r.effect = "forbid" /\ r.principal = "any"
  /\ r.unless = "none" \/ Gated(r)

Gates(rules) == {r \in rules : Matches(r) /\ Gated(r)}

ForbidMatches(rules) == \E r \in rules : Matches(r) /\ r.effect = "forbid" /\ ~Gated(r)
PermitMatches(rules) == \E r \in rules : Matches(r) /\ r.effect = "permit"

(* The requests on which the engines differ, over understood rules: a gate   *)
(* matches, and the approval asked for has been refused or is pending (Cedar *)
(* denies, the matcher asks again); or nothing is asked yet, and a forbid    *)
(* without a gate matches too (Cedar denies, the matcher asks for what       *)
(* cannot lift the denial), or a permit does and Cedar skips the gates for   *)
(* want of an approval to read (it allows, the matcher asks).                *)
EnginesDiffer(rules, status) ==
  /\ Gates(rules) # {}
  /\ \/ status = "else"
     \/ /\ status = "absent"
        /\ \/ ForbidMatches(rules)
           \/ PermitMatches(rules) /\ \A r \in Gates(rules) : r.unless = "bare"

(* Over rules within the matcher's reach, losing the Cedar CLI changes the    *)
(* decision exactly on the requests named above (both engines "produce the    *)
(* same decision", test_engine_parity.py), and in the default mode it only    *)
(* ever denies.  Over other rules it may change any: the matcher honours a    *)
(* permit whose head names another principal or resource, for instance.       *)
EnginesAgree ==
  answer.source = "python_fallback" =>
    /\ asked.mode = "warn" /\ (\A r \in asked.rules : Understood(r)) =>
         (answer.decision = CliDecision(asked.rules, asked.status, FALSE)
            <=> ~EnginesDiffer(asked.rules, asked.status))
    /\ asked.mode = "deny" => answer.decision = "DENY"
===============================================================================
