------------------------------ MODULE MCPlatform ------------------------------
(***************************************************************************)
(* One instance for the components around the core, which share no         *)
(* variable with it or with each other: as in MCServices a behaviour moves *)
(* only the component it is about, and the others stay as they began.      *)
(***************************************************************************)
EXTENDS Platform

VARIABLE component

vars == <<breakerVars, limiterVars, poolVars, clientVars, memberVars, provisioningVars,
          assessmentVars, copilotVars, registryVars, baselineVars, streamVars, component>>

CONSTANTS c1, c2, c3, c4, h1, h2, h3, t1, t2, t3, u1, u2, u3, u4, u5, u6, a1, a2, a3, p1, k1,
          n1, n2, s1, s2, s3, w1, w2, v1, q1, q2, m1, g1, g2, e1, e2, e3, l1, l2, b1, b2

Components == {"breaker", "limiter", "pool", "client", "members", "provisioning", "assessment",
               "copilot",
               "registry", "baseline", "stream"}

(* Requests are interchangeable: their kinds come in one order. *)
Rank(kind) ==
  CASE kind = "invite" -> 1 [] kind = "set_role" -> 2 [] kind = "revoke" -> 3
    [] kind = "sign_in" -> 4 [] kind = "use_key" -> 5 [] OTHER -> 6

AsksInOrder == Rank(ask[a1].kind) <= Rank(ask[a2].kind) /\ Rank(ask[a2].kind) <= Rank(ask[a3].kind)

(* Only an invitation and a change of role name one. *)
TheAsks == {a \in MemberAsks \cup KeyAsks : a.kind \in {"invite", "set_role"} \/ a.role = JoinRole}

(* Nobody, an invitation, a member and an administrator. *)
TheRows == FirstRows \ {[status |-> "invited", role |-> r] : r \in Roles \ {JoinRole}}

NoSignup == [kind |-> "webhook", slug |-> n1, pc |-> "failed", answer |-> Nobody]

(* Signing in and starting on premises have no slug in common. *)
SignupsOrWorkers ==
  \/ /\ \A c \in Signups : signup[c].pc = "new"
     /\ \A w \in Workers : server[w].pc = "refused"
     /\ deaths = MaxDeaths
  \/ /\ \A c \in Signups : signup[c] = NoSignup
     /\ \A w \in Workers : server[w].pc = "down"
     /\ deaths = 0

ProvisioningRests ==
  /\ \A c \in Signups : signup[c] = NoSignup
  /\ \A w \in Workers : server[w].pc = "refused"
  /\ deaths = MaxDeaths

(* A harmless request, one that the score holds back, one that it denies,  *)
(* and one that fails every control.                                       *)
Ask(action, trust, generic, target, keys, amount) ==
  [action |-> action, trust |-> trust, generic |-> generic, target |-> target, keys |-> keys,
   hot |-> keys > 1, bare |-> keys = 0 /\ amount = 0, amount |-> amount,
   used |-> keys, limit |-> 5]

TheRequests ==
  { Ask("read", "trusted", FALSE, "other", 0, 0),
    Ask("destructive", "verified", FALSE, "internal", 1, 1000),
    Ask("destructive", "untrusted", TRUE, "sensitive", 5, 1000000),
    Ask("wildcard", "numbered", TRUE, "wildcard", 3, 0) }

HeavyWeights == [DefaultWeights EXCEPT !["action_severity"] = 90]

TheChanges ==
  { [allow |-> 60, approval |-> Unset, weights |-> Unset],
    [allow |-> Unset, approval |-> 50, weights |-> HeavyWeights],
    [allow |-> 80, approval |-> 40, weights |-> Unset] }

FirstChange == [allow |-> 60, approval |-> Unset, weights |-> Unset]

AssessmentRests ==
  /\ config = Unset /\ evaluation[v1].policies = "ALLOW"
  /\ \A p \in ModePuts : modePut[p].mode = "enforce"

TheWishes ==
  { [kind |-> "say", has |-> {"govern"}, auto |-> FALSE],
    [kind |-> "say", has |-> {"list", "policy"}, auto |-> FALSE],
    [kind |-> "say", has |-> {"create", "agent"}, auto |-> TRUE],
    [kind |-> "say", has |-> {"webhook", "link"}, auto |-> FALSE],
    [kind |-> "confirm", has |-> {"policy"}, auto |-> TRUE] }

(* One of the chats confirms a preview. *)
ConfirmsAPreview(c) == chat[c].wish.kind = "confirm"

FirstWish == [kind |-> "say", has |-> {"govern"}, auto |-> FALSE]

(* A registration that resets the trust level, changes, a deletion. *)
Wish(kind, gives) == [kind |-> kind, gives |-> gives, value |-> "given"]

TheEdits ==
  { Wish("register", {"metadata"}), Wish("update", {"profile"}),
    Wish("update", {"trust"}), Wish("update", {"metadata"}), Wish("delete", {}) }

EditRank(e) ==
  CASE edit[e].kind = "register" -> 1 [] edit[e].kind = "update" -> 2 [] OTHER -> 3

EditsInOrder == EditRank(e1) <= EditRank(e2) /\ EditRank(e2) <= EditRank(e3)

FirstDeed == CHOOSE d \in Deeds : TRUE

Init ==
  /\ component \in Components
  /\ BreakerInit /\ LimiterInit /\ PoolInit
  /\ IF component = "client" THEN \E u \in Uses : ClientInit({u}) ELSE ClientInit({})
  /\ time = IF component = "client" THEN 0 ELSE LastHour
  /\ IF component = "members" THEN MembersInit(TheRows, TheAsks) /\ AsksInOrder
     ELSE MembersInit({NoMember}, {CHOOSE a \in KeyAsks : TRUE})
  /\ ProvisioningInit
  /\ IF component = "provisioning" THEN SignupsOrWorkers ELSE ProvisioningRests
  /\ IF component = "assessment" THEN AssessmentInit(TheRequests, TheChanges, {"eu_ai_act_art13", "soc2_cc61"})
          /\ put[q2].change = FirstChange /\ put[q1].change # FirstChange
     ELSE AssessmentInit({CHOOSE r \in TheRequests : TRUE}, {FirstChange}, {"soc2_cc61"})
          /\ AssessmentRests
  /\ IF component = "copilot" THEN CopilotInit(TheWishes) /\ ConfirmsAPreview(g2)
     ELSE CopilotInit({FirstWish})
  /\ IF component = "registry" THEN RegistryInit(TheEdits) /\ EditsInOrder
     ELSE RegistryInit({CHOOSE w \in TheEdits : TRUE}) /\ agent = NoAgent
  /\ IF component = "baseline" THEN BaselineInit(Deeds) /\ visit[b1].deed = FirstDeed
     ELSE BaselineInit({FirstDeed})
  /\ StreamInit

(* Every other component stays as it is. *)
Only(c, Move) ==
  /\ component = c /\ Move /\ UNCHANGED component
  /\ c # "breaker" => UNCHANGED breakerVars
  /\ c # "limiter" => UNCHANGED limiterVars
  /\ c # "pool" => UNCHANGED poolVars
  /\ c # "client" => UNCHANGED clientVars
  /\ c # "members" => UNCHANGED memberVars
  /\ c # "provisioning" => UNCHANGED provisioningVars
  /\ c # "assessment" => UNCHANGED assessmentVars
  /\ c # "copilot" => UNCHANGED copilotVars
  /\ c # "registry" => UNCHANGED registryVars
  /\ c # "baseline" => UNCHANGED baselineVars
  /\ c # "stream" => UNCHANGED streamVars

Next ==
  \/ Only("breaker", BreakerNext)
  \/ Only("limiter", LimiterNext)
  \/ Only("pool", PoolNext)
  \/ Only("client", ClientNext)
  \/ Only("members", MembersNext)
  \/ Only("provisioning", ProvisioningNext)
  \/ Only("assessment", AssessmentNext)
  \/ Only("copilot", CopilotNext)
  \/ Only("registry", RegistryNext)
  \/ Only("baseline", BaselineNext)
  \/ Only("stream", StreamNext)

Spec == Init /\ [][Next]_vars /\ BreakerFairness /\ PoolFairness /\ ClientFairness

FourCalls == {c1, c2, c3, c4}
ThreeHits == {h1, h2, h3}
ThreeThreads == {t1, t2, t3}
ThreeAsks == {a1, a2, a3}
TwoRoles == {"viewer", "admin"}
TwoUsers == {n1, n2}
ThreeSignups == {s1, s2, s3}
TwoWorkers == {w1, w2}
TwoPuts == {q1, q2}
TwoChats == {g1, g2}
ThreeEdits == {e1, e2, e3}
TwoValues == {"plain", "given"}
TwoSockets == {l1, l2}
TwoVisits == {b1, b2}
TwoDeeds == {[action |-> "read", resource |-> "file"], [action |-> "write", resource |-> "file"]}
TwoProfiles == {DefaultWeights, HeavyWeights}
TwoBlocking == {u1, u5}
TwoAwaiting == {u2, u6}
TwoTasks == {u5, u6}
JustCalling == {u3}
JustGopher == {u4}
OnePerson == {p1}
OneKey == {k1}
OneEvaluation == {v1}
OneModePut == {m1}
===============================================================================
