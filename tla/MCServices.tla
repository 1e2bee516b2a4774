------------------------------ MODULE MCServices ------------------------------
(***************************************************************************)
(* One instance for four components that share no variable: a behaviour    *)
(* moves only the component it is about, and the others stay as they began *)
(* (their interleaving would multiply the states and could tell nothing).  *)
(***************************************************************************)
EXTENDS Services

CONSTANTS h1, h2, d1, d2, j1, x1, x2, x3, x4, w1, w2

VARIABLE component

vars == <<webhookVars, exportVars, policyVars, engineVars, component>>

Components == {"webhooks", "exports", "policies", "engine"}

(* Bound: two webhooks and one delivery, or one webhook and two deliveries. *)
FewDeliveries ==
  <<Live, {d \in Deliveries : delivery[d].pc = "idle"}>> \in
    {<<{h1, h2}, {d1}>>, <<{h1}, {d1, d2}>>, <<{}, {}>>}

(* Bound: the secret of one webhook only is rotated, and a second time only *)
(* where a single delivery is made.                                          *)
FewRotations ==
  \A h \in Hooks : hook[h].secret > 1 =>
    /\ h = h1
    /\ hook[h].secret > 2 => Cardinality({d \in Deliveries : delivery[d].pc \notin {"idle", "lost"}}) <= 1

(* No rule, or one or two: for the action, or for others in one way only, at  *)
(* most one of them beyond what the matcher reads as Cedar does.              *)
FewRules ==
  LET plain == {r \in Rule : /\ Understood(r) /\ r.principal = "any"
                             /\ r.when \/ r.action = "this"}
      odd == {r \in Rule : r.action # "other" /\ r.when /\ r.unless \in {"none", "met"}}
  IN  {{}} \cup {{r, s} : r \in plain, s \in plain \cup odd}

(* The settings that play no part are not varied. *)
PlainSettings ==
  /\ asked.rules # {} => asked.noPolicy = "deny"
  /\ asked.rules = {} \/ asked.cli \in {"works", "second_fails"} => asked.mode = "deny"
  /\ asked.rules = {} => asked.cli = "works" /\ asked.status = "absent"

(* One state of each component that the behaviour is not about, in which no *)
(* fair step of it is enabled (for the exports: every worker is up).        *)
WebhooksRest == Live = {} /\ \A d \in Deliveries : delivery[d].pc = "lost"
PolicyRests == policy.state = "draft"

Init ==
  /\ component \in Components
  /\ WebhooksInit /\ FewDeliveries /\ (component # "webhooks" => WebhooksRest)
  /\ ExportsInit /\ up = IF component = "exports" THEN {} ELSE Workers
  /\ PoliciesInit /\ policy.rule = (CHOOSE r \in Rules : TRUE)
                  /\ (component # "policies" => PolicyRests)
  /\ IF component = "engine" THEN EngineInit(FewRules)
                             ELSE EngineInit({{}}) /\ asked.noPolicy = "deny"
  /\ PlainSettings

Only(c, Step, others) == component = c /\ Step /\ UNCHANGED others /\ UNCHANGED component

Next ==
  \/ Only("webhooks", WebhooksNext /\ FewRotations', <<exportVars, policyVars, engineVars>>)
  \/ Only("exports", ExportsNext, <<webhookVars, policyVars, engineVars>>)
  \/ Only("policies", PoliciesNext, <<webhookVars, exportVars, engineVars>>)
  \/ Only("engine", Evaluate, <<webhookVars, exportVars, policyVars>>)

Spec == Init /\ [][Next]_vars /\ WebhooksFairness /\ ExportsFairness
===============================================================================
