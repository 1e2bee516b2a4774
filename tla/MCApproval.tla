----------------------------- MODULE MCApproval -----------------------------
(* Model-checking instances of Approval. One tick is 24 hours.             *)
EXTENDS Approval

CONSTANTS c, d1, d2, m1, m2, e1, e2, v1, alice, bob

None == {}
OneDecider == {d1}
TwoDeciders == {d1, d2}
OneClicker == {m1}
OneEscalator == {e1}
TwoEscalators == {e1, e2}
OneViewer == {v1}
TwoApprovers == {alice, bob}
OneApprover == {alice}
Started == {"none"}
NotStarted == {"db_only_temporal_unavailable"}
AllOutcomes == StartOutcomes
=============================================================================
