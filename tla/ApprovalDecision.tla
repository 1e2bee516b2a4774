--------------------------- MODULE ApprovalDecision ---------------------------
(***************************************************************************)
(* What the approval flow promises: an approval request is decided at most *)
(* once, by a decision that enters the audit log with it, and only a       *)
(* decision that was made is announced to the webhooks, at most once.      *)
(***************************************************************************)
CONSTANT Verdicts     \* the two decisions

VARIABLES
  status,      \* "absent", "pending" or the decision
  recorded,    \* the decision in the audit log, or "none"
  announced    \* the decision sent to the webhooks, or "none"

Init == status = "absent" /\ recorded = "none" /\ announced = "none"

Create ==
  /\ status = "absent"
  /\ status' = "pending"
  /\ UNCHANGED <<recorded, announced>>

Decide(d) ==
  /\ status = "pending"
  /\ status' = d
  /\ recorded' = d
  /\ UNCHANGED announced

Announce ==
  /\ status \in Verdicts /\ announced = "none"
  /\ announced' = status
  /\ UNCHANGED <<status, recorded>>

Next == Create \/ Announce \/ \E d \in Verdicts : Decide(d)

Spec == Init /\ [][Next]_<<status, recorded, announced>>
===============================================================================
