---------------------------- MODULE AgentBaseline ----------------------------
(***************************************************************************)
(* What an agent usually does: the counts that Redis keeps of one agent's  *)
(* actions and of its pairs of action and resource, and the flags that an  *)
(* allowed evaluation raises from them (services/anomaly_service.py and    *)
(* routes/evaluate.py).  The flags are read while the request is answered; *)
(* the request is counted after it, by background tasks.                   *)
(***************************************************************************)
EXTENDS Naturals, FiniteSets

CONSTANTS
  Visits,        \* the evaluations that are allowed
  Deeds,         \* what the agent does: [action, resource]
  MinSamples,    \* _MIN_BASELINE_SAMPLES
  Usual          \* a pair this often in a hundred is no outlier: 15

ASSUME BaselineAssumption ==
  /\ IsFiniteSet(Visits) /\ Deeds \subseteq [action : STRING, resource : STRING]
  /\ MinSamples \in Nat \ {0} /\ Usual \in 0..100

VARIABLES
  baseline,      \* agent_baseline: a count for an action
  anomalies,     \* agent_anomalies: a set of actions
  pairs,         \* agent_triple_baseline: a count for a deed
  visit          \* the evaluations

baselineVars == <<baseline, anomalies, pairs, visit>>

Habits == {d.action : d \in Deeds}

VisitPlaces == {"new", "looked", "scored", "answered", "counted", "noted", "done"}

BaselineTypeOK ==
  /\ baseline \in [Habits -> Nat] /\ anomalies \subseteq Habits /\ pairs \in [Deeds -> Nat]
  /\ visit \in [Visits -> [deed : Deeds, pc : VisitPlaces, flags : SUBSET {"new_action", "triple_outlier"},
                           read : Nat, told : SUBSET {"actions", "pairs"},
                           added : SUBSET {"actions", "pairs"}]]

BaselineInit(deeds) ==
  /\ baseline = [a \in Habits |-> 0] /\ anomalies = {} /\ pairs = [d \in Deeds |-> 0]
  /\ visit \in [Visits -> [deed : deeds, pc : {"new"}, flags : {{}}, read : {0},
                           told : {{}}, added : {{}}]]

Flagged(v, cond, flag) == visit[v].flags \cup IF cond THEN {flag} ELSE {}

(* is_new_action: a Redis that is away has seen everything. *)
LookForAction(v) ==
  /\ visit[v].pc = "new"
  /\ \/ visit' = [visit EXCEPT ![v].pc = "looked", ![v].told = {"actions"},
                    ![v].flags = Flagged(v, baseline[visit[v].deed.action] = 0, "new_action")]
     \/ visit' = [visit EXCEPT ![v].pc = "looked"]
  /\ UNCHANGED <<baseline, anomalies, pairs>>

(* triple_anomaly_score, its first query: or none, and no finding. *)
ReadPair(v) ==
  /\ visit[v].pc = "looked"
  /\ \/ visit' = [visit EXCEPT ![v].pc = "scored", ![v].read = pairs[visit[v].deed]]
     \/ visit' = [visit EXCEPT ![v].pc = "answered"]
  /\ UNCHANGED <<baseline, anomalies, pairs>>

(* The sum of the counts, counted out one by one.                          *)
Tallies == UNION {{d} \X (1..pairs[d]) : d \in Deeds}

AllPairs == Cardinality(Tallies)

(* The score is 1 - count / total, and the finding is for one of at least  *)
(* 0.85: other requests may have been counted since the count was read.    *)
Outlying(count, total) == total >= MinSamples /\ 100 * count <= Usual * total

SumPairs(v) ==
  /\ visit[v].pc = "scored"
  /\ \/ visit' = [visit EXCEPT ![v].pc = "answered", ![v].told = @ \cup {"pairs"},
                    ![v].flags = Flagged(v, Outlying(visit[v].read, AllPairs), "triple_outlier")]
     \/ visit' = [visit EXCEPT ![v].pc = "answered"]
  /\ UNCHANGED <<baseline, anomalies, pairs>>

-------------------------------------------------------------------------------
(* After the answer *)

(* A variant that counts a request while it is looked at. *)
CountsAtOnce(v) == visit[v].pc \in {"new", "answered"}

MayCount(v) == visit[v].pc = "answered"

(* record_action, the first of its commands. *)
CountAction(v) ==
  /\ MayCount(v) /\ "actions" \notin visit[v].added
  /\ baseline' = [baseline EXCEPT ![visit[v].deed.action] = @ + 1]
  /\ visit' = [visit EXCEPT ![v].added = @ \cup {"actions"},
                            ![v].pc = IF @ = "answered" THEN "counted" ELSE @]
  /\ UNCHANGED <<anomalies, pairs>>

NoteAction(v) ==
  /\ visit[v].pc = "counted"
  /\ anomalies' = anomalies \cup {visit[v].deed.action}
  /\ visit' = [visit EXCEPT ![v].pc = "noted"]
  /\ UNCHANGED <<baseline, pairs>>

(* record_triple *)
CountPair(v) ==
  /\ visit[v].pc = "noted"
  /\ pairs' = [pairs EXCEPT ![visit[v].deed] = @ + 1]
  /\ visit' = [visit EXCEPT ![v].pc = "done", ![v].added = @ \cup {"pairs"}]
  /\ UNCHANGED <<baseline, anomalies>>

(* A Redis that is away, or a process that ends, counts nothing more: the  *)
(* two tasks fail on their own.                                            *)
CountFails(v) ==
  /\ visit[v].pc \in {"answered", "counted", "noted"}
  /\ visit' = [visit EXCEPT ![v].pc = IF @ = "noted" THEN "done" ELSE "noted"]
  /\ UNCHANGED <<baseline, anomalies, pairs>>

(* The keys live a week after their last command, each on its own. *)
ForgetActions ==
  /\ baseline # [a \in Habits |-> 0]
  /\ baseline' = [a \in Habits |-> 0]
  /\ UNCHANGED <<anomalies, pairs, visit>>

ForgetAnomalies ==
  /\ anomalies # {}
  /\ anomalies' = {}
  /\ UNCHANGED <<baseline, pairs, visit>>

ForgetPairs ==
  /\ pairs # [d \in Deeds |-> 0]
  /\ pairs' = [d \in Deeds |-> 0]
  /\ UNCHANGED <<baseline, anomalies, visit>>

BaselineNext ==
  \/ \E v \in Visits :
       \/ LookForAction(v) \/ ReadPair(v) \/ SumPairs(v)
       \/ CountAction(v) \/ NoteAction(v) \/ CountPair(v) \/ CountFails(v)
  \/ ForgetActions \/ ForgetAnomalies \/ ForgetPairs

BaselineSpec == BaselineInit(Deeds) /\ [][BaselineNext]_baselineVars

-------------------------------------------------------------------------------
(* Properties *)

Counted(what, v) == {w \in Visits \ {v} : what \in visit[w].added}

(* "so the current call is scored against history, not itself"             *)
(* (routes/evaluate.py): an action that Redis knows has been counted for   *)
(* another request, and an outlier is one among enough that were.          *)
FlagsAreGrounded ==
  \A v \in Visits :
    /\ "actions" \in visit[v].told /\ "new_action" \notin visit[v].flags =>
         \E w \in Counted("actions", v) : visit[w].deed.action = visit[v].deed.action
    /\ "triple_outlier" \in visit[v].flags => Cardinality(Counted("pairs", v)) >= MinSamples
===============================================================================
