---------------------------- MODULE MCAuditScenes ----------------------------
(***************************************************************************)
(* Two casts for one instance of the audit log, so that each is small:     *)
(* evaluations and a client that lists, or an evaluation, an approval      *)
(* decision and a verification.  Who is not in the cast stays idle.        *)
(***************************************************************************)
EXTENDS MCAudit

VARIABLE scene

Cast == IF scene = "evaluations" THEN Evaluators ELSE {e1} \cup Deciders

InCast ==
  /\ \A w \in Writers \ Cast : phase[w] = "idle"
  /\ IF scene = "evaluations" THEN verify.pc = "idle" ELSE listing.pc = "idle"

SceneInit == ReadersInit /\ scene \in {"evaluations", "mixed"}
SceneNext == UNCHANGED scene /\ ReadersNext /\ InCast'
SceneSpec == SceneInit /\ [][SceneNext]_<<allVars, scene>> /\ Fairness

(* The first scene implements the append-only log: with evaluators only,   *)
(* each append of create_audit_event adds one entry at the end.  (Where an *)
(* approval decision may fork the log nothing is claimed.)                 *)
EvaluatorsLog ==
  INSTANCE AuditLog WITH Entries <- Ids, log <- IF scene = "evaluations" THEN LogView ELSE << >>

EvaluationsImplementLog == EvaluatorsLog!Spec
===============================================================================
