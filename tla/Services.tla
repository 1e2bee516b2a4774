------------------------------- MODULE Services -------------------------------
(***************************************************************************)
(* The webhooks, the exports, the policies and the policy engine beside    *)
(* each other: four components that share no variable.                     *)
(***************************************************************************)
EXTENDS Webhooks, AuditExport, PolicyLifecycle, PolicyEngine

(* Every component keeps its types: the rows, the tasks, the calls under way *)
(* and the answers of the engine stay what the code can make of them.        *)
TypeOK == WebhooksTypeOK /\ ExportsTypeOK /\ PoliciesTypeOK /\ EngineTypeOK

(* Every delivery and every export job ends. *)
ServicesEnd == DeliveriesEnd /\ JobsEnd
===============================================================================
