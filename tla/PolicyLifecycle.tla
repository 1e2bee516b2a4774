---------------------------- MODULE PolicyLifecycle ----------------------------
(***************************************************************************)
(* The life of a policy: routes/policies.py and the overwriting import of  *)
(* services/policy_import_service.py.                                      *)
(*                                                                         *)
(* A request reads the row without a lock, decides on what it read, and    *)
(* flushes and commits later.  The ORM writes the columns whose value the  *)
(* request changed from what it read, and no other: what another request   *)
(* has committed meanwhile in the other columns stays.                     *)
(***************************************************************************)
EXTENDS Integers, FiniteSets

CONSTANTS
  Requests,  \* bound: the number of requests, which come in this order
  Rules      \* its possible contents (cedar_rule, and the name with it)

States == {"draft", "active", "archived"}

ASSUME RequestsAssumption == Requests \in Nat

VARIABLES
  policy,   \* the row of policies
  history,  \* the rows of policy_versions, each with the request that wrote it
  request   \* the requests: what each has read and means to write

policyVars == <<policy, history, request>>

Request == 1 .. Requests

Policy == [rule : Rules, state : States, active : BOOLEAN, version : Nat]

PoliciesTypeOK ==
  /\ policy \in Policy
  /\ history \subseteq [by : Request, was : Policy]
  /\ DOMAIN request = Request
  /\ \A q \in Request :
       \/ request[q] \in [pc : {"idle", "over"}]
       \/ /\ request[q].pc = "read" /\ request[q].snapshots \in BOOLEAN
          /\ request[q].read \in Policy /\ request[q].new \in Policy

(* _state_to_active *)
StateToActive(state) == state = "active"

(* create_policy, or an import, which writes `active` and leaves `state` to *)
(* its default.                                                              *)
PoliciesInit ==
  /\ policy \in {p \in [rule : Rules, state : {"draft", "active"}, active : BOOLEAN,
                        version : {1}] :
                   p.active = StateToActive(p.state) \/ p.state = "active"}
  /\ history = {}
  /\ request = [q \in Request |-> [pc |-> "idle"]]

-------------------------------------------------------------------------------
WithState(p, s) == [p EXCEPT !.state = s, !.active = StateToActive(s)]

(* The request has read the row and has `new` in mind; it takes a snapshot   *)
(* of what it read if it `snapshots`.                                        *)
Mean(q, new, snapshots) ==
  /\ request' = [request EXCEPT ![q] = [pc |-> "read", read |-> policy, new |-> new,
                                        snapshots |-> snapshots]]
  /\ UNCHANGED <<policy, history>>

(* The request answers at once and writes nothing. *)
Answer(q) ==
  /\ request' = [request EXCEPT ![q] = [pc |-> "over"]]
  /\ UNCHANGED <<policy, history>>

Starts(q) ==
  request[q].pc = "idle" /\ \A p \in Request : p < q => request[p].pc # "idle"

(* update_policy: hides an archived policy (404).  It may change the rule,  *)
(* which counts a version, the name, and the state through `active`, which   *)
(* do not; it takes a snapshot whichever it changes.                         *)
Patched(p, rule, wish) ==
  LET q == IF wish = "none" THEN p ELSE WithState(p, wish)
  IN  IF rule = p.rule THEN q ELSE [q EXCEPT !.rule = rule, !.version = p.version + 1]

UpdatePolicy(q) ==
  /\ Starts(q) /\ policy.state # "archived"
  /\ \E rule \in Rules, wish \in {"none", "active", "archived"} :
       Mean(q, Patched(policy, rule, wish), TRUE)

(* activate_policy and archive_policy: no snapshot, and an early return. *)
SetState(q, s) ==
  /\ Starts(q)
  /\ IF policy.state = s THEN Answer(q) ELSE Mean(q, WithState(policy, s), FALSE)

Activate(q) == SetState(q, "active")
Archive(q) == SetState(q, "archived")

(* delete_policy archives, whatever the state. *)
DeletePolicy(q) == Starts(q) /\ Mean(q, WithState(policy, "archived"), FALSE)

(* rollback_policy: any state; the version must name exactly one snapshot    *)
(* (404 without one, MultipleResultsFound with several).                     *)
Versions(v) == {s \in history : s.was.version = v}

Rollback(q) ==
  /\ Starts(q)
  /\ \E s \in history :
       IF Versions(s.was.version) = {s}
       THEN Mean(q, [WithState(policy, s.was.state) EXCEPT
                       !.rule = s.was.rule, !.version = @ + 1], TRUE)
       ELSE Answer(q)

(* import_policies with overwrite: no snapshot, and `active` and `state` as  *)
(* the item gives them.                                                      *)
Import(q) ==
  /\ Starts(q)
  /\ \E rule \in Rules, s \in States, a \in BOOLEAN :
       Mean(q, [rule |-> rule, state |-> s, active |-> a, version |-> policy.version + 1],
            FALSE)

WrittenWhole(read, new, row) == new

(* The UPDATE that the ORM emits: the columns the request has changed. *)
Written(read, new, row) ==
  [c \in DOMAIN row |-> IF new[c] # read[c] THEN new[c] ELSE row[c]]

SnapshotAfterChange(q) ==
  IF request[q].snapshots THEN {[by |-> q, was |-> request[q].new]} ELSE {}

(* _snapshot_policy *)
Snapshot(q) ==
  IF request[q].snapshots THEN {[by |-> q, was |-> request[q].read]} ELSE {}

(* The flush and the commit; or the transaction is rolled back (a rule that  *)
(* is not valid, a database that is away).                                   *)
CommitPolicy(q) ==
  /\ request[q].pc = "read"
  /\ policy' = Written(request[q].read, request[q].new, policy)
  /\ history' = history \cup Snapshot(q)
  /\ request' = [request EXCEPT ![q] = [pc |-> "over"]]

Abort(q) == request[q].pc = "read" /\ Answer(q)

PoliciesNext ==
  \E q \in Request :
    \/ UpdatePolicy(q) \/ Activate(q) \/ Archive(q) \/ DeletePolicy(q)
    \/ Rollback(q) \/ Import(q) \/ CommitPolicy(q) \/ Abort(q)

PoliciesSpec == PoliciesInit /\ [][PoliciesNext]_policyVars

-------------------------------------------------------------------------------
Commits(q) == request[q].pc = "read" /\ request'[q].pc = "over"

(* A policy that was archived or deleted is evaluated again only because of  *)
(* a request that meant to change its state: a PATCH or a rollback that read *)
(* the policy active, before it was archived, and commits after, leaves it   *)
(* archived.                                                                 *)
ArchiveSticks ==
  [][policy.state = "archived" /\ policy'.state = "active" =>
       \E q \in Request : /\ Commits(q)
                          /\ request[q].read.state # "active"
                          /\ request[q].new.state = "active"]_policyVars

(* Whatever the PATCH of a rule or a rollback replaces, and no other request *)
(* has replaced first, is in the history from then on, rule and state and    *)
(* version, so that it can be told what was in force.                        *)
Overtaken(q) == request[q].read # policy

HistoryKept ==
  [][\A q \in Request :
       (Commits(q) /\ request[q].snapshots /\ ~Overtaken(q) /\ policy'.rule # policy.rule)
       => \E s \in history' : s.was = policy]_policyVars
===============================================================================
