--------------------------- MODULE MCApprovalScenes ---------------------------
(***************************************************************************)
(* Two casts for one instance of Approval, so that each is small: a race   *)
(* for the row without Temporal, and decisions beside a workflow.  Who is  *)
(* not in the cast of a scene stays idle.                                  *)
(***************************************************************************)
EXTENDS MCApproval

VARIABLE scene

(* A decision, an e-mail link, an escalation, a reader and an approver step *)
(* race; or two decisions and two attempts at the reminder, with a workflow. *)
Cast ==
  IF scene = "race" THEN {Creator, d1} \cup Clickers \cup Escalators \cup Viewers
                    ELSE {Creator} \cup Deciders \cup Attempts

(* Bound: the end of the clock in each scene. *)
LastTick == IF scene = "race" THEN Horizon ELSE Horizon - 1

InCast ==
  /\ \A r \in Txns \ Cast : txn[r].pc = "idle"
  /\ now <= LastTick
  /\ IF scene = "race" THEN txn[Creator].draft.fallback \in {"none", "db_only_temporal_unavailable"}
                            /\ wf.pc = "absent"
                       ELSE \A a \in Approvers : step[a] = "none"

SceneInit == Init /\ scene \in {"race", "workflow"}
SceneNext == UNCHANGED scene /\ Next /\ InCast'
SceneSpec == SceneInit /\ [][SceneNext]_<<vars, scene>>
===============================================================================
