------------------------------- MODULE MCAudit -------------------------------
(* Model-checking instances of the audit log, its writers and readers. *)
EXTENDS AuditReaders

CONSTANTS e1, e2, d1, i1, i2, i3, i4

(* Evaluations only. *)
TwoEvaluators == {e1, e2}
NoDeciders == {}

(* An evaluation beside an approval decision. *)
OneEvaluator == {e1}
OneDecider == {d1}

ThreeIds == {i1, i2, i3}
FourIds == {i1, i2, i3, i4}
Verifier == {"verify"}
Client == {"list"}
Nobody == {}
BothReaders == {"verify", "list"}

==============================================================================
