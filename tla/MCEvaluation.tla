----------------------------- MODULE MCEvaluation -----------------------------
(* Model-checking instances of Evaluation. *)
EXTENDS Evaluation

CONSTANTS e1, e2, e3

TwoEvals == {e1, e2}
ThreeEvals == {e1, e2, e3}
NoEvals == {}
===============================================================================
