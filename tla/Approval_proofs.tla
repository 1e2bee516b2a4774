---------------------------- MODULE Approval_proofs ----------------------------
(***************************************************************************)
(* Proofs about one approval request, for any sets of requests, approvers  *)
(* and start outcomes and any values of the periods.                       *)
(*                                                                         *)
(* The decision is made once because a decision is drafted only under the  *)
(* row lock, from a pending row (DraftInv), and nobody else who commits    *)
(* while the lock is held, or later, changes the status (DraftInv again:   *)
(* every other draft leaves it as it was read, so that Merge keeps the     *)
(* committed one).  It is announced once because one transaction at most   *)
(* has committed a decision and not announced it (CommittedInv).           *)
(*                                                                         *)
(* A reminder is recorded once for the same reason (RemindInv).  The run   *)
(* returns the last decision it was sent because what it has decided is    *)
(* always the last one it has handled (HeardInv), and gives up no sooner   *)
(* than it should because the clock and its timer add up (TimerInv).  Row  *)
(* and run differ only under a flag because a decision is signalled under  *)
(* the lock: until it is committed, and after, no other is sent (ToldInv). *)
(***************************************************************************)
EXTENDS Approval, WellFoundedInduction, TLAPS

Active == {"flushing", "flushed", "ready"}

(* The transaction that creates the request is the first one.              *)
CreatorInv ==
  /\ txn[Creator].pc \in {"idle", "ready"} =>
       row.status = "absent"
  /\ txn[Creator].pc \notin {"flushing", "flushed"}
  /\ txn[Creator].pc = "ready" =>
       txn[Creator].snap.status = "absent" /\ txn[Creator].draft.status = "pending"
  /\ txn[Creator].event.type \notin Decisions
  /\ row.status = "absent" =>
       \A r \in Txns \ {Creator} : txn[r].pc \in {"idle", "done", "refused"}

(* The row lock has one holder. *)
LockInv ==
  \A r, s \in Txns \ {Creator} : Holds(r) /\ Holds(s) => r = s

(* A decision is drafted from a pending row that is still pending, under   *)
(* its lock; any other draft leaves the status as it was read.             *)
DraftInv ==
  \A r \in Txns \ {Creator} : txn[r].pc \in Active =>
    IF txn[r].event.type \in Decisions
    THEN /\ Holds(r)
         /\ row.status = "pending" /\ txn[r].snap.status = "pending"
         /\ txn[r].draft.status = txn[r].event.type
    ELSE txn[r].draft.status = txn[r].snap.status

(* A decision that is committed and not announced is that of the row, and  *)
(* is the only one.                                                        *)
ToAnnounce(r) == txn[r].pc = "committed" /\ txn[r].event.type \in Decisions

CommittedInv ==
  /\ \A r \in Txns : ToAnnounce(r) => row.status = txn[r].event.type /\ webhooks = << >>
  /\ \A r, s \in Txns : ToAnnounce(r) /\ ToAnnounce(s) => r = s

StatusInv == CreatorInv /\ LockInv /\ DraftInv /\ CommittedInv /\ OneDecision

IInv == TypeOK /\ StatusInv

-------------------------------------------------------------------------------
(* Operators *)

LEMMA MergeType ==
  ASSUME NEW current \in Row, NEW snap \in Row, NEW draft \in Row
  PROVE  /\ Merge(current, snap, draft) \in Row
         /\ Merge(current, snap, draft).status =
              IF draft.status # snap.status THEN draft.status ELSE current.status
BY DEF Merge, Row

LEMMA DelayType == ReminderAfter \in Nat /\ Sla - ReminderAfter \in Nat
BY SlaAssumption DEF ReminderAfter

LEMMA RefreshedKeeps ==
  ASSUME NEW rw \in Row
  PROVE  Refreshed(rw) \in Row /\ Refreshed(rw).status = rw.status
BY DEF Refreshed, Row, FallbackModes

LEMMA LeastNatural ==
  ASSUME NEW T \in SUBSET Nat, T # {}
  PROVE  \E x \in T : \A y \in T : x <= y
<1> DEFINE Less == {ss \in Nat \X Nat : ss[1] < ss[2]}
<1>1. IsWellFoundedOn(Less, Nat)
  BY NatLessThanWellFounded, Zenon DEF OpToRel
<1>2. PICK x \in T : \A y \in T : ~ (<<y, x>> \in Less)
  <2> HIDE DEF Less
  <2> QED  BY <1>1, WFMin
<1>3. \A y \in T : y < x => <<y, x>> \in Less
  OBVIOUS
<1>4. x \in Nat /\ \A y \in T : y \in Nat /\ ~ (y < x)
  <2> HIDE DEF Less
  <2> QED  BY <1>2, <1>3
<1>5. QED
  BY <1>4

(* The last decision exists: of the indices of decisions, bounded by the   *)
(* length, there is a greatest.                                            *)
LEMMA LastDecisionType ==
  ASSUME NEW s \in Seq(Decisions \cup {"escalate"}), NEW from \in Nat \ {0},
         NEW d \in Decisions \cup {"none"}
  PROVE  LastDecision(s, from, d) \in Decisions \cup {"none"}
<1> DEFINE at == {i \in from..Len(s) : s[i] \in Decisions}
<1>1. CASE at = {}
  BY <1>1 DEF LastDecision
<1>2. CASE at # {}
  <2> DEFINE T == {Len(s) - i : i \in at}
  <2>1. Len(s) \in Nat
    OBVIOUS
  <2>2. T \in SUBSET Nat /\ T # {}
    BY <1>2, <2>1
  <2>3. PICK x \in T : \A y \in T : x <= y
    <3> HIDE DEF T
    <3> QED  BY <2>2, LeastNatural
  <2>4. PICK i \in at : x = Len(s) - i
    BY <2>3
  <2>5. ASSUME NEW j \in at
        PROVE  j <= i
    <3>1. x <= Len(s) - j
      BY <2>3
    <3>2. i \in Nat /\ j \in Nat
      OBVIOUS
    <3>3. QED
      BY <2>1, <2>4, <3>1, <3>2
  <2>6. \E k \in at : \A j \in at : j <= k
    <3> HIDE DEF at
    <3> QED  BY <2>5
  <2>7. (CHOOSE k \in at : \A j \in at : j <= k) \in at
    <3> HIDE DEF at
    <3> QED  BY <2>6
  <2>8. LastDecision(s, from, d) = s[CHOOSE k \in at : \A j \in at : j <= k]
    BY <1>2 DEF LastDecision
  <2>9. QED
    BY <2>7, <2>8
<1>3. QED
  BY <1>1, <1>2

-------------------------------------------------------------------------------
(* Types *)

LEMMA TxnsOf ==
  /\ Creator \in Txns /\ Deciders \subseteq Txns /\ Clickers \subseteq Txns
  /\ Escalators \subseteq Txns /\ Viewers \subseteq Txns /\ Attempts \subseteq Txns
BY DEF Txns

LEMMA NoRowType == NoRow \in Row /\ NoEvent \in Event /\ Ended \in TxnRecord
BY ApprovalAssumption DEF NoRow, NoEvent, Ended, Row, Event, TxnRecord, FallbackModes

(* The workflow's steps that no request takes keep the workflow's type.    *)
LEMMA TemporalType == WfTypeOK /\ Temporal => WfTypeOK'
<1> SUFFICES ASSUME WfTypeOK, Temporal
             PROVE  WfTypeOK'
  OBVIOUS
<1>1. CASE HandleSignals
  <2> DEFINE d == LastDecision(signals, wf.handled + 1, wf.decision)
  <2>1. wf \in WfRecord /\ signals \in Seq(Decisions \cup {"escalate"})
    BY DEF WfTypeOK
  <2>2. d \in Decisions \cup {"none"}
    <3>1. wf.handled + 1 \in Nat \ {0} /\ wf.decision \in Decisions \cup {"none"}
      BY <2>1 DEF WfRecord
    <3>2. QED
      BY <2>1, <3>1, LastDecisionType
  <2> DEFINE closes == d # "none" /\ wf.pc \in {"phase1", "phase2"}
             st == IF d # "none" THEN "completed" ELSE "escalated"
             p == IF closes THEN "closed" ELSE wf.pc
             res == IF closes THEN d ELSE wf.result
  <2>3. /\ st \in {"running", "escalated", "completed", "failed"}
        /\ p \in {"absent", "phase1", "reminding", "phase2", "closed"}
        /\ res \in Decisions \cup {"none", "failed"}
        /\ Len(signals) \in Nat
    BY <2>1, <2>2 DEF WfRecord
  <2>4. wf' = [wf EXCEPT !.handled = Len(signals), !.decision = d, !.status = st,
                         !.pc = p, !.result = res]
    BY <1>1, Zenon DEF HandleSignals
  <2>5. wf' \in WfRecord /\ wf'.handled = Len(signals)
    <3> HIDE DEF d, st, p, res
    <3> QED  BY <2>1, <2>2, <2>3, <2>4 DEF WfRecord
  <2>6. QED
    BY <1>1, <2>5 DEF HandleSignals, WfTypeOK
<1>2. CASE ReminderTimer
  <2>1. 1 \in 0..MaxAttempts
    BY SlaAssumption
  <2>2. wf' \in WfRecord /\ wf'.handled = wf.handled
    BY <1>2, <2>1 DEF ReminderTimer, WfTypeOK, WfRecord
  <2>3. QED
    BY <1>2, <2>2 DEF ReminderTimer, WfTypeOK
<1>3. CASE ExpiryTimer
  <2>1. wf' \in WfRecord /\ wf'.handled = wf.handled
    BY <1>3 DEF ExpiryTimer, WfTypeOK, WfRecord
  <2>2. QED
    BY <1>3, <2>1 DEF ExpiryTimer, WfTypeOK
<1>4. CASE Tick
  <2>1. wf.wait \in Nat /\ (IF wf.wait > 0 THEN wf.wait - 1 ELSE 0) \in Nat
    BY DEF WfTypeOK, WfRecord
  <2>2. wf' \in WfRecord /\ wf'.handled = wf.handled
    BY <1>4, <2>1 DEF Tick, WfTypeOK, WfRecord
  <2>3. QED
    BY <1>4, <2>2, SlaAssumption DEF Tick, WfTypeOK
<1>5. QED
  BY <1>1, <1>2, <1>3, <1>4 DEF Temporal

LEMMA StartType == WfTypeOK /\ StartWorkflow /\ UNCHANGED now => WfTypeOK'
BY DelayType DEF StartWorkflow, WfTypeOK, WfRecord

LEMMA AcceptType ==
  ASSUME NEW s \in Decisions \cup {"escalate"}, WfTypeOK, AcceptSignal(s), UNCHANGED now
  PROVE  WfTypeOK'
BY DEF AcceptSignal, WfTypeOK, WfRecord

LEMMA AttemptType == WfTypeOK /\ (RetryReminder \/ ReminderOver) => WfTypeOK'
<1> SUFFICES ASSUME WfTypeOK, RetryReminder \/ ReminderOver
             PROVE  WfTypeOK'
  OBVIOUS
<1>1. wf \in WfRecord /\ wf.decision \in Decisions \cup {"none"} /\ wf.attempt \in 0..MaxAttempts
  BY DEF WfTypeOK, WfRecord
<1>2. wf' \in WfRecord /\ wf'.handled = wf.handled
  <2>1. CASE RetryReminder
    <3>1. wf.attempt + 1 \in 0..MaxAttempts
      BY <1>1, <2>1, SlaAssumption DEF RetryReminder
    <3>2. QED
      BY <1>1, <2>1, <3>1 DEF RetryReminder, WfRecord
  <2>2. CASE ReminderOver /\ wf.decision # "none"
    BY <1>1, <2>2 DEF ReminderOver, WfRecord
  <2>3. CASE ReminderOver /\ wf.decision = "none"
    BY <1>1, <2>3, DelayType DEF ReminderOver, WfRecord
  <2>4. QED
    BY <2>1, <2>2, <2>3
<1>3. QED
  BY <1>2 DEF RetryReminder, ReminderOver, WfTypeOK

-------------------------------------------------------------------------------
(* One step *)

LEMMA NextTypeOK == TypeOK /\ [Next]_vars => TypeOK'
<1> SUFFICES ASSUME TypeOK, [Next]_vars
             PROVE  TypeOK'
  OBVIOUS
<1>a. /\ WfTypeOK /\ row \in Row /\ txn \in [Txns -> TxnRecord]
      /\ events \in Seq(Event) /\ links \subseteq Link /\ webhooks \in Seq(Decisions)
      /\ reminders \in Nat /\ step \in [Approvers -> {"none", "checked", "pending"}]
      /\ now \in Nat
  BY SlaAssumption DEF TypeOK, WfTypeOK
<1>b. \A r \in Txns : /\ txn[r].snap \in Row /\ txn[r].draft \in Row
                      /\ txn[r].event \in Event /\ txn[r] \in TxnRecord
  BY <1>a DEF TxnRecord
<1>c. UNCHANGED wfVars => WfTypeOK'
  BY <1>a DEF wfVars, WfTypeOK
<1>d. ASSUME NEW r \in Txns, End(r)
      PROVE  txn' \in [Txns -> TxnRecord]
  BY <1>a, <1>d, NoRowType DEF End
<1>e. ASSUME NEW r \in Txns,
             NEW p \in {"idle", "flushing", "flushed", "ready", "committed", "done", "refused"},
             SetPc(r, p)
      PROVE  txn' \in [Txns -> TxnRecord]
  BY <1>a, <1>b, <1>e DEF SetPc, TxnRecord
<1>f. ASSUME NEW r \in Txns,
             NEW p \in {"idle", "flushing", "flushed", "ready", "committed", "done", "refused"},
             NEW d \in Row, NEW e \in Event, Change(r, p, d, e)
      PROVE  txn' \in [Txns -> TxnRecord]
  BY <1>a, <1>f DEF Change, TxnRecord
<1>1. ASSUME NEW mode \in StartModes, CreateRequest(mode)
      PROVE  TypeOK'
  <2>1. WfTypeOK'
    BY <1>1, <1>a, <1>c, StartType DEF CreateRequest, wfVars
  <2>2. txn' \in [Txns -> TxnRecord]
    <3>1. CASE Accepts(mode)
      <4> DEFINE d == [NoRow EXCEPT !.status = "pending", !.fallback = mode,
                                    !.run = (mode = "none"), !.expires = Sla]
                 e == [type |-> "requested", via |-> "api", by |-> "caller"]
      <4>1. d \in Row /\ e \in Event
        BY <3>1, NoRowType, SlaAssumption DEF Accepts, Row, Event
      <4>2. Change(Creator, "ready", d, e)
        BY <1>1, <3>1 DEF CreateRequest
      <4>3. QED
        <5> HIDE DEF d, e
        <5> QED  BY <4>1, <4>2, <1>f, TxnsOf
    <3>2. CASE ~ Accepts(mode)
      BY <1>1, <3>2, <1>e, TxnsOf DEF CreateRequest
    <3>3. QED
      BY <3>1, <3>2
  <2>3. QED
    BY <1>1, <1>a, <2>1, <2>2 DEF CreateRequest, TypeOK
<1>2. ASSUME NEW r \in Deciders \cup Clickers, NEW d \in Decisions,
             NEW via \in {"api", "slack", "link"}, NEW by \in Approvers \cup {"caller"},
             Decide(r, d, via, by)
      PROVE  TypeOK'
  <2> DEFINE dr == [row EXCEPT !.status = d, !.workflow = "completed"]
             ev == [type |-> d, via |-> via, by |-> by]
             p == IF row.run THEN "flushed" ELSE "ready"
  <2>1. dr \in Row /\ ev \in Event /\ r \in Txns
    BY <1>a, TxnsOf DEF Row, Event
  <2>2. Change(r, p, dr, ev)
    BY <1>2 DEF Decide
  <2>3. txn' \in [Txns -> TxnRecord]
    <3> HIDE DEF dr, ev
    <3> QED  BY <2>1, <2>2, <1>f
  <2>4. QED
    BY <1>2, <1>a, <1>c, <2>3 DEF Decide, TypeOK, wfVars
<1>3. ASSUME NEW r \in Escalators, NEW a \in Approvers, BeginEscalate(r, a)
      PROVE  TypeOK'
  <2> DEFINE ex == IF now + Extension < MaxSla THEN now + Extension ELSE MaxSla
             ver == row.version + 1
             dr == [row EXCEPT !.approver = a, !.version = ver,
                               !.workflow = "escalated", !.expires = ex]
             ev == [type |-> "escalated", via |-> "api", by |-> "caller"]
  <2>1. ex \in Nat /\ ver \in Nat
    BY <1>a, ApprovalAssumption DEF Row
  <2>2. dr \in Row
    <3> HIDE DEF ex, ver
    <3> QED  BY <1>a, <2>1 DEF Row
  <2>3. ev \in Event /\ r \in Txns
    BY TxnsOf DEF Event
  <2>4. Change(r, "flushing", dr, ev)
    BY <1>3 DEF BeginEscalate
  <2>5. txn' \in [Txns -> TxnRecord]
    <3> HIDE DEF dr, ev
    <3> QED  BY <2>2, <2>3, <2>4, <1>f
  <2>6. QED
    BY <1>3, <1>a, <1>c, <2>5 DEF BeginEscalate, TypeOK, wfVars
<1>4. ASSUME NEW r \in Viewers, BeginView(r)
      PROVE  TypeOK'
  <2>1. txn' \in [Txns -> TxnRecord]
    BY <1>4, <1>a, <1>f, TxnsOf, RefreshedKeeps, NoRowType DEF BeginView
  <2>2. QED
    BY <1>4, <1>a, <1>c, <2>1 DEF BeginView, TypeOK, wfVars
<1>5. ASSUME NEW r \in Txns, Flush(r)
      PROVE  TypeOK'
  <2>1. txn' \in [Txns -> TxnRecord]
    BY <1>5, <1>e DEF Flush
  <2>2. QED
    BY <1>5, <1>a, <1>c, <2>1 DEF Flush, TypeOK, wfVars
<1>6. ASSUME NEW r \in Txns, SignalDelivered(r)
      PROVE  TypeOK'
  <2>1. txn' \in [Txns -> TxnRecord]
    BY <1>6, <1>e DEF SignalDelivered
  <2>2. WfTypeOK'
    BY <1>6, <1>a, AcceptType DEF SignalDelivered, SignalOf
  <2>3. QED
    BY <1>6, <1>a, <2>1, <2>2 DEF SignalDelivered, TypeOK
<1>7. ASSUME NEW r \in Txns, SignalFailed(r)
      PROVE  TypeOK'
  <2>1. [txn[r].draft EXCEPT !.fallback = "signal_retry_exhausted"] \in Row
    BY <1>b DEF Row, FallbackModes
  <2>2. txn' \in [Txns -> TxnRecord]
    BY <1>7, <1>a, <1>b, <2>1, ZenonT(30) DEF SignalFailed, TxnRecord
  <2>3. WfTypeOK'
    BY <1>7, <1>a, <1>c, AcceptType DEF SignalFailed, SignalOf, wfVars
  <2>4. QED
    BY <1>7, <1>a, <2>2, <2>3 DEF SignalFailed, TypeOK
<1>8. ASSUME NEW r \in Txns, Commit(r)
      PROVE  TypeOK'
  <2>1. txn' \in [Txns -> TxnRecord]
    BY <1>8, <1>d, <1>e DEF Commit
  <2>2. row' \in Row
    BY <1>8, <1>a, <1>b, MergeType DEF Commit
  <2>3. events' \in Seq(Event)
    BY <1>8, <1>a, <1>b DEF Commit
  <2>4. QED
    BY <1>8, <1>a, <1>c, <2>1, <2>2, <2>3 DEF Commit, TypeOK, wfVars
<1>9. ASSUME NEW r \in Txns, Rollback(r) \/ LoseTasks(r)
      PROVE  TypeOK'
  <2>1. End(r)
    BY <1>9 DEF Rollback, LoseTasks
  <2>2. QED
    BY <1>9, <1>a, <1>c, <1>d, <2>1 DEF Rollback, LoseTasks, TypeOK, wfVars
<1>10. ASSUME NEW r \in Txns, Announce(r)
       PROVE  TypeOK'
  <2>1. webhooks' \in Seq(Decisions)
    BY <1>10, <1>a DEF Announce
  <2>2. QED
    BY <1>10, <1>a, <1>c, <1>d, <2>1 DEF Announce, TypeOK, wfVars
<1>11. ASSUME NEW r \in Txns, Mail(r)
       PROVE  links' \subseteq Link
  <2>1. txn[r].draft.approver \in Approvers /\ txn[r].draft.version \in Nat
    BY <1>b DEF Row
  <2>2. now + TokenLife \in Nat
    BY <1>a, ApprovalAssumption
  <2>3. QED
    BY <1>11, <1>a, <2>1, <2>2 DEF Mail, Link
<1>12. ASSUME NEW r \in Txns, SendMail(r)
       PROVE  TypeOK'
  BY <1>12, <1>a, <1>c, <1>d, <1>11 DEF SendMail, TypeOK, wfVars
<1>13. ASSUME NEW k \in Attempts, BeginReminder(k)
       PROVE  TypeOK'
  <2> DEFINE dr == [row EXCEPT !.reminded = TRUE]
             ev == [type |-> "reminded", via |-> "none", by |-> "caller"]
  <2>1. dr \in Row /\ ev \in Event /\ k \in Txns
    BY <1>a, TxnsOf DEF Row, Event
  <2>2. Change(k, "flushed", dr, ev)
    BY <1>13 DEF BeginReminder
  <2>3. txn' \in [Txns -> TxnRecord]
    <3> HIDE DEF dr, ev
    <3> QED  BY <2>1, <2>2, <1>f
  <2>4. QED
    BY <1>13, <1>a, <1>c, <2>3 DEF BeginReminder, TypeOK, wfVars
<1>14. ASSUME NEW k \in Attempts, DispatchReminder(k)
       PROVE  TypeOK'
  <2>1. k \in Txns /\ SetPc(k, "ready")
    BY <1>14, TxnsOf DEF DispatchReminder
  <2>2. txn' \in [Txns -> TxnRecord]
    BY <2>1, <1>e
  <2>3. links' \subseteq Link
    BY <1>14, <1>a, <1>11, <2>1 DEF DispatchReminder
  <2>4. QED
    BY <1>14, <1>a, <1>c, <2>2, <2>3 DEF DispatchReminder, TypeOK, wfVars
<1>15. ASSUME NEW k \in Attempts, ReminderReturns(k)
       PROVE  TypeOK'
  <2>1. k \in Txns /\ End(k)
    BY <1>15, TxnsOf DEF ReminderReturns
  <2>2. WfTypeOK'
    BY <1>15, <1>a, <1>c, AttemptType DEF ReminderReturns
  <2>3. QED
    BY <1>15, <1>a, <1>d, <2>1, <2>2 DEF ReminderReturns, TypeOK
<1>16. CASE GiveUpAttempt
  BY <1>16, <1>a, AttemptType DEF GiveUpAttempt, TypeOK, rowVars
<1>17. CASE Temporal /\ UNCHANGED rowVars
  BY <1>17, <1>a, TemporalType DEF TypeOK, rowVars
<1>18. ASSUME NEW a \in Steppers, CheckStep(a) \/ InsertStep(a)
       PROVE  TypeOK'
  <2>1. step' \in [Approvers -> {"none", "checked", "pending"}]
    BY <1>18, <1>a, ApprovalAssumption DEF CheckStep, InsertStep
  <2>2. QED
    BY <1>18, <1>a, <1>c, <2>1 DEF CheckStep, InsertStep, TypeOK, wfVars
<1>19. CASE UNCHANGED vars
  BY <1>19, <1>a, <1>c DEF vars, wfVars, TypeOK
<1>20. CASE DecisionRequest
  <2>1. ASSUME NEW d \in Decisions, NEW r \in Deciders, DecideByApi(r, d) \/ DecideInSlack(r, d)
        PROVE  TypeOK'
    BY <2>1, <1>2, <1>a DEF DecideByApi, DecideInSlack, Row
  <2>2. ASSUME NEW d \in Decisions, NEW r \in Clickers, ClickLink(r, d)
        PROVE  TypeOK'
    BY <2>2, <1>2, <1>a DEF ClickLink, Link
  <2>3. QED
    BY <1>20, <2>1, <2>2 DEF DecisionRequest
<1>21. QED
  BY <1>1, <1>3, <1>4, <1>5, <1>6, <1>7, <1>8, <1>9, <1>10, <1>12, <1>13, <1>14,
     <1>15, <1>16, <1>17, <1>18, <1>19, <1>20 DEF Next

LEMMA InitTypeOK == Init => TypeOK
<1> SUFFICES ASSUME Init
             PROVE  TypeOK
  OBVIOUS
<1>1. WfTypeOK
  BY SlaAssumption DEF Init, WfInit, WfTypeOK, WfRecord
<1>2. txn \in [Txns -> TxnRecord]
  BY NoRowType DEF Init, TxnRecord
<1>3. QED
  BY <1>1, <1>2, NoRowType DEF Init, TypeOK

(* Every variable of the approval flow keeps its type. *)
THEOREM TypeCorrect == Spec => []TypeOK
BY InitTypeOK, NextTypeOK, PTL DEF Spec

-------------------------------------------------------------------------------
(* One decision *)

Quiet == {"idle", "done", "refused"}

(* A step that changes a transaction and nothing that is committed: it     *)
(* takes the lock only when it is free, and drafts a decision only from a  *)
(* pending row.                                                            *)
LEMMA PrivateStep ==
  ASSUME TypeOK, StatusInv, NEW r \in Txns \ {Creator}, NEW t \in TxnRecord,
         txn' = [txn EXCEPT ![r] = t], UNCHANGED <<row, events, webhooks>>,
         row.status = "absent" => t.pc \in Quiet,
         t.pc \in {"flushed", "ready"} => Holds(r) \/ LockFree,
         t.pc \in Active =>
           IF t.event.type \in Decisions
           THEN /\ t.pc # "flushing" /\ row.status = "pending"
                /\ t.snap.status = "pending" /\ t.draft.status = t.event.type
           ELSE t.draft.status = t.snap.status,
         t.pc = "committed" => t.event.type \notin Decisions
  PROVE  StatusInv'
<1>1. txn \in [Txns -> TxnRecord] /\ Creator \in Txns
  BY TxnsOf DEF TypeOK
<1>2. txn'[r] = t /\ \A s \in Txns : s # r => txn'[s] = txn[s]
  BY <1>1
<1>3. CreatorInv'
  BY <1>1, <1>2 DEF StatusInv, CreatorInv, Quiet
<1>4. LockInv'
  BY <1>1, <1>2 DEF StatusInv, LockInv, LockFree, Holds
<1>5. DraftInv'
  BY <1>1, <1>2 DEF StatusInv, DraftInv, Holds, Active
<1>6. CommittedInv'
  BY <1>1, <1>2 DEF StatusInv, CommittedInv, ToAnnounce
<1>7. OneDecision'
  BY DEF StatusInv, OneDecision, Decided, DecisionEvents
<1>8. QED
  BY <1>3, <1>4, <1>5, <1>6, <1>7 DEF StatusInv

(* The creator has nothing to write after its commit. *)
LEMMA CreatorEnds ==
  ASSUME TypeOK, StatusInv, End(Creator), UNCHANGED <<row, events, webhooks>>
  PROVE  StatusInv'
<1>1. txn \in [Txns -> TxnRecord] /\ Creator \in Txns
  BY TxnsOf DEF TypeOK
<1>2. txn'[Creator] = Ended /\ \A s \in Txns : s # Creator => txn'[s] = txn[s]
  BY <1>1 DEF End
<1>3. CreatorInv'
  BY <1>1, <1>2 DEF StatusInv, CreatorInv, Ended, NoEvent, Decisions
<1>4. LockInv'
  BY <1>1, <1>2 DEF StatusInv, LockInv, Holds
<1>5. DraftInv'
  BY <1>1, <1>2 DEF StatusInv, DraftInv, Holds, Active
<1>6. CommittedInv'
  BY <1>1, <1>2 DEF StatusInv, CommittedInv, ToAnnounce, Ended
<1>7. OneDecision'
  BY DEF StatusInv, OneDecision, Decided, DecisionEvents
<1>8. QED
  BY <1>3, <1>4, <1>5, <1>6, <1>7 DEF StatusInv

LEMMA EndStep ==
  ASSUME TypeOK, StatusInv, NEW r \in Txns, End(r), UNCHANGED <<row, events, webhooks>>
  PROVE  StatusInv'
<1>1. CASE r = Creator
  BY <1>1, CreatorEnds
<1>2. CASE r # Creator
  <2>1. Ended \in TxnRecord /\ Ended.pc = "done"
    BY NoRowType DEF Ended
  <2>2. txn' = [txn EXCEPT ![r] = Ended]
    BY DEF End
  <2>3. QED
    <3> HIDE DEF Ended
    <3> QED  BY <1>2, <2>1, <2>2, PrivateStep DEF Quiet, Active
<1>3. QED
  BY <1>1, <1>2

(* The commit of a draft: of the creation, of a decision, or of neither.   *)
LEMMA CommitStep ==
  ASSUME TypeOK, StatusInv, NEW r \in Txns, Commit(r)
  PROVE  StatusInv'
<1>1. /\ txn \in [Txns -> TxnRecord] /\ Creator \in Txns /\ row \in Row
      /\ txn[r].snap \in Row /\ txn[r].draft \in Row /\ txn[r].event \in Event
      /\ events \in Seq(Event)
  BY TxnsOf DEF TypeOK, TxnRecord
<1>2. row'.status = IF txn[r].draft.status # txn[r].snap.status
                    THEN txn[r].draft.status ELSE row.status
  BY <1>1, MergeType DEF Commit
<1>3. /\ txn[r].pc = "ready"
      /\ txn[r].event = NoEvent => txn'[r] = Ended
      /\ txn[r].event # NoEvent => txn'[r].pc = "committed" /\ txn'[r].event = txn[r].event
      /\ \A s \in Txns : s # r => txn'[s] = txn[s]
      /\ UNCHANGED webhooks
  BY <1>1 DEF Commit, End, SetPc, TxnRecord
<1>4. txn[r].event.type \in Decisions => txn[r].event # NoEvent
  BY DEF NoEvent, Decisions
<1>5. /\ txn[r].event.type \notin Decisions => DecisionEvents' = DecisionEvents
      /\ txn[r].event.type \in Decisions =>
           DecisionEvents' = DecisionEvents \cup {Len(events) + 1}
      /\ \A i \in DOMAIN events : events'[i] = events[i]
      /\ txn[r].event.type \in Decisions => events'[Len(events) + 1] = txn[r].event
      /\ DecisionEvents \subseteq DOMAIN events
  BY <1>1, <1>3, <1>4 DEF Commit, DecisionEvents
<1>w. row.status \notin Decisions => webhooks = << >>
  BY DEF StatusInv, OneDecision, TypeOK
<1>6. CASE r = Creator
  <2>1. row.status = "absent" /\ row'.status = "pending" /\ txn[r].event.type \notin Decisions
    BY <1>2, <1>3, <1>6 DEF StatusInv, CreatorInv
  <2>2. \A s \in Txns \ {Creator} : txn'[s].pc \in Quiet
    BY <1>3, <1>6, <2>1 DEF StatusInv, CreatorInv, Quiet
  <2>3. txn'[Creator].pc \in {"committed", "done"} /\ txn'[Creator].event.type \notin Decisions
    BY <1>3, <1>6, <2>1 DEF Ended, NoEvent, Decisions
  <2>4. CreatorInv' /\ LockInv' /\ DraftInv' /\ CommittedInv'
    BY <2>1, <2>2, <2>3 DEF CreatorInv, LockInv, DraftInv, CommittedInv, ToAnnounce,
       Holds, Quiet, Active
  <2>5. OneDecision'
    BY <1>3, <1>5, <1>w, <2>1 DEF StatusInv, OneDecision, Decided, Decisions
  <2>6. QED
    BY <2>4, <2>5 DEF StatusInv
<1>7. CASE r # Creator /\ txn[r].event.type \in Decisions
  <2>1. row.status = "pending" /\ row'.status = txn[r].event.type
    BY <1>2, <1>3, <1>7 DEF StatusInv, DraftInv, Active, Decisions
  <2>2. /\ txn'[r].pc = "committed" /\ txn'[r].event.type = txn[r].event.type
        /\ row'.status \in Decisions /\ webhooks' = << >> /\ ~ Decided
    BY <1>3, <1>4, <1>7, <1>w, <2>1 DEF Decided, Decisions
  <2>3. CreatorInv'
    BY <1>1, <1>3, <1>7, <2>1, <2>2 DEF StatusInv, CreatorInv, Decisions
  <2>4. LockInv'
    BY <1>1, <1>3, <1>7, <2>2 DEF StatusInv, LockInv, Holds
  <2>5. DraftInv'
    <3>1. \A s \in Txns \ {Creator} : s # r => ~ Holds(s)
      BY <1>3, <1>7 DEF StatusInv, LockInv, Holds
    <3>2. QED
      BY <1>1, <1>3, <1>7, <2>2, <3>1 DEF StatusInv, DraftInv, Holds, Active
  <2>6. CommittedInv'
    <3>1. \A s \in Txns : ~ ToAnnounce(s)
      BY <2>1 DEF StatusInv, CommittedInv, ToAnnounce, Decisions
    <3>2. \A s \in Txns : s # r => ~ ToAnnounce(s)'
      BY <1>3, <3>1 DEF ToAnnounce
    <3>3. QED
      BY <1>3, <2>1, <2>2, <3>2 DEF CommittedInv, ToAnnounce
  <2>7. OneDecision'
    <3>1. DecisionEvents = {}
      BY <2>2 DEF StatusInv, OneDecision
    <3>2. DecisionEvents' = {Len(events) + 1} /\ events'[Len(events) + 1].type = row'.status
      BY <1>5, <1>7, <2>1, <3>1
    <3>3. QED
      BY <2>2, <3>2 DEF OneDecision, Decided
  <2>8. QED
    BY <2>3, <2>4, <2>5, <2>6, <2>7 DEF StatusInv
<1>8. CASE r # Creator /\ txn[r].event.type \notin Decisions
  <2>1. row'.status = row.status
    BY <1>2, <1>3, <1>8 DEF StatusInv, DraftInv, Active
  <2>2. txn'[r].pc \in {"committed", "done"} /\ txn'[r].event.type \notin Decisions
    BY <1>3, <1>8 DEF Ended, NoEvent, Decisions
  <2>3. row.status # "absent"
    BY <1>3, <1>8 DEF StatusInv, CreatorInv
  <2>4. CreatorInv'
    BY <1>1, <1>3, <1>8, <2>1, <2>2, <2>3 DEF StatusInv, CreatorInv
  <2>5. LockInv'
    BY <1>1, <1>3, <1>8, <2>2 DEF StatusInv, LockInv, Holds
  <2>6. DraftInv'
    BY <1>1, <1>3, <1>8, <2>1, <2>2 DEF StatusInv, DraftInv, Holds, Active
  <2>7. CommittedInv'
    BY <1>1, <1>3, <1>8, <2>1, <2>2 DEF StatusInv, CommittedInv, ToAnnounce
  <2>8. OneDecision'
    BY <1>3, <1>5, <1>8, <2>1 DEF StatusInv, OneDecision, Decided
  <2>9. QED
    BY <2>4, <2>5, <2>6, <2>7, <2>8 DEF StatusInv
<1>9. QED
  BY <1>6, <1>7, <1>8

(* The announcement of the one decision that is left to announce.          *)
LEMMA AnnounceStep ==
  ASSUME TypeOK, StatusInv, NEW r \in Txns, Announce(r)
  PROVE  StatusInv'
<1>1. /\ txn \in [Txns -> TxnRecord] /\ Creator \in Txns
      /\ ToAnnounce(r) /\ r # Creator
  BY TxnsOf DEF TypeOK, Announce, ToAnnounce, StatusInv, CreatorInv
<1>2. txn'[r] = Ended /\ \A s \in Txns : s # r => txn'[s] = txn[s] /\ ~ ToAnnounce(s)
  BY <1>1 DEF Announce, End, StatusInv, CommittedInv
<1>3. webhooks' = << row.status >> /\ row.status \in Decisions /\ UNCHANGED <<row, events>>
  <2>1. webhooks = << >> /\ row.status = txn[r].event.type /\ txn[r].event.type \in Decisions
    BY <1>1 DEF StatusInv, CommittedInv, ToAnnounce
  <2>2. webhooks' = Append(webhooks, txn[r].event.type) /\ UNCHANGED <<row, events>>
    BY DEF Announce
  <2>3. Append(<< >>, row.status) = << row.status >>
    OBVIOUS
  <2>4. QED
    BY <2>1, <2>2, <2>3
<1>4. CreatorInv'
  BY <1>1, <1>2, <1>3 DEF StatusInv, CreatorInv, Ended
<1>5. LockInv'
  BY <1>1, <1>2 DEF StatusInv, LockInv, Holds, Ended
<1>6. DraftInv'
  BY <1>1, <1>2, <1>3 DEF StatusInv, DraftInv, Holds, Active, Ended
<1>7. CommittedInv'
  BY <1>1, <1>2 DEF CommittedInv, ToAnnounce, Ended
<1>8. OneDecision'
  <2>1. DecisionEvents' = DecisionEvents /\ Decided' = Decided
    BY <1>3 DEF DecisionEvents, Decided
  <2>2. Len(webhooks') <= 1 /\ \A i \in DOMAIN webhooks' : webhooks'[i] = row'.status
    BY <1>3
  <2>3. QED
    BY <1>3, <2>1, <2>2 DEF StatusInv, OneDecision
<1>9. QED
  BY <1>4, <1>5, <1>6, <1>7, <1>8 DEF StatusInv

LEMMA NextStatusInv == IInv /\ [Next]_vars => StatusInv'
<1> SUFFICES ASSUME TypeOK, StatusInv, [Next]_vars
             PROVE  StatusInv'
  BY DEF IInv
<1>a. /\ row \in Row /\ txn \in [Txns -> TxnRecord] /\ Creator \in Txns
      /\ \A r \in Txns : txn[r].snap \in Row /\ txn[r].draft \in Row /\ txn[r].event \in Event
  BY TxnsOf DEF TypeOK, TxnRecord
<1>b. /\ Deciders \cup Clickers \cup Escalators \cup Viewers \cup Attempts
           \subseteq Txns \ {Creator}
  BY TxnsOf, ApprovalAssumption
<1>c. ASSUME UNCHANGED <<row, txn, events, webhooks>>
      PROVE  StatusInv'
  BY <1>c DEF StatusInv, CreatorInv, LockInv, DraftInv, CommittedInv, OneDecision,
     ToAnnounce, Holds, Decided, DecisionEvents
<1>d. ASSUME NEW r \in Txns, NEW p, NEW d, NEW e, Change(r, p, d, e)
      PROVE  /\ txn' = [txn EXCEPT ![r] = txn'[r]]
             /\ txn'[r].pc = p /\ txn'[r].snap = row /\ txn'[r].draft = d /\ txn'[r].event = e
  BY <1>a, <1>d DEF Change
<1>e. ASSUME NEW r \in Txns, NEW p, SetPc(r, p)
      PROVE  /\ txn' = [txn EXCEPT ![r] = txn'[r]]
             /\ txn'[r].pc = p /\ txn'[r].snap = txn[r].snap
             /\ txn'[r].draft = txn[r].draft /\ txn'[r].event = txn[r].event
  BY <1>a, <1>e DEF SetPc, TxnRecord
<1>1. ASSUME NEW mode \in StartModes, CreateRequest(mode)
      PROVE  StatusInv'
  <2>1. /\ UNCHANGED <<row, events, webhooks>> /\ txn[Creator].pc = "idle"
        /\ \A s \in Txns : s # Creator => txn'[s] = txn[s]
    BY <1>1, <1>a DEF CreateRequest, Change, SetPc
  <2>2. /\ txn'[Creator].pc \in {"ready", "refused"}
        /\ txn'[Creator].event.type \notin Decisions
        /\ txn'[Creator].pc = "ready" =>
             txn'[Creator].snap.status = "absent" /\ txn'[Creator].draft.status = "pending"
    <3>1. row.status = "absent" /\ txn[Creator].event.type \notin Decisions
      BY <2>1 DEF StatusInv, CreatorInv
    <3>2. CASE Accepts(mode)
      <4> DEFINE d == [NoRow EXCEPT !.status = "pending", !.fallback = mode,
                                    !.run = (mode = "none"), !.expires = Sla]
                 e == [type |-> "requested", via |-> "api", by |-> "caller"]
      <4>1. Change(Creator, "ready", d, e)
        BY <1>1, <3>2 DEF CreateRequest
      <4>2. d.status = "pending" /\ e.type \notin Decisions
        BY DEF NoRow, Decisions
      <4>3. QED
        <5> HIDE DEF d, e
        <5> QED  BY <1>a, <1>d, <3>1, <4>1, <4>2
    <3>3. CASE ~ Accepts(mode)
      BY <1>1, <1>a, <1>e, <3>1, <3>3 DEF CreateRequest
    <3>4. QED
      BY <3>2, <3>3
  <2>3. CreatorInv'
    BY <2>1, <2>2 DEF StatusInv, CreatorInv
  <2>4. LockInv' /\ DraftInv'
    BY <2>1 DEF StatusInv, LockInv, DraftInv, Holds, Active
  <2>5. CommittedInv'
    BY <2>1, <2>2 DEF StatusInv, CommittedInv, ToAnnounce
  <2>6. OneDecision'
    BY <2>1 DEF StatusInv, OneDecision, Decided, DecisionEvents
  <2>7. QED
    BY <2>3, <2>4, <2>5, <2>6 DEF StatusInv
<1>2. ASSUME NEW r \in Deciders \cup Clickers, NEW d \in Decisions, NEW via, NEW by,
             Decide(r, d, via, by), TypeOK'
      PROVE  StatusInv'
  <2> DEFINE dr == [row EXCEPT !.status = d, !.workflow = "completed"]
             ev == [type |-> d, via |-> via, by |-> by]
             p == IF row.run THEN "flushed" ELSE "ready"
  <2>1. Change(r, p, dr, ev) /\ LockFree /\ row.status = "pending"
    BY <1>2 DEF Decide
  <2>2. dr.status = d /\ ev.type = d /\ p \in {"flushed", "ready"}
    BY <1>a DEF Row
  <2>3. UNCHANGED <<row, events, webhooks>> /\ r \in Txns \ {Creator}
    BY <1>2, <1>b DEF Decide
  <2>4. txn'[r] \in TxnRecord
    BY <1>2, <2>3 DEF TypeOK
  <2>5. QED
    <3> HIDE DEF dr, ev, p
    <3> QED  BY <2>1, <2>2, <2>3, <2>4, <1>d, PrivateStep
<1>3. ASSUME NEW r \in Escalators, NEW a \in Approvers, BeginEscalate(r, a), TypeOK'
      PROVE  StatusInv'
  <2>1. /\ r \in Txns \ {Creator} /\ txn'[r] \in TxnRecord
        /\ UNCHANGED <<row, events, webhooks>> /\ row.status = "pending"
    BY <1>3, <1>b DEF BeginEscalate, TypeOK
  <2>2. /\ txn' = [txn EXCEPT ![r] = txn'[r]]
        /\ txn'[r].pc = "flushing" /\ txn'[r].snap = row
        /\ txn'[r].draft.status = row.status /\ txn'[r].event.type = "escalated"
    BY <1>3, <1>a, <2>1 DEF BeginEscalate, Change, Row
  <2>3. QED
    BY <2>1, <2>2, PrivateStep DEF Decisions
<1>4. ASSUME NEW r \in Viewers, BeginView(r), TypeOK'
      PROVE  StatusInv'
  <2>1. /\ r \in Txns \ {Creator} /\ txn'[r] \in TxnRecord
        /\ UNCHANGED <<row, events, webhooks>>
    BY <1>4, <1>b DEF BeginView, TypeOK
  <2>2. /\ txn' = [txn EXCEPT ![r] = txn'[r]]
        /\ txn'[r].pc = "flushing" /\ txn'[r].snap = row
        /\ txn'[r].draft.status = row.status /\ txn'[r].event = NoEvent
    BY <1>4, <1>a, <1>d, <2>1, RefreshedKeeps DEF BeginView
  <2>3. row.status # "absent"
    BY <1>4 DEF BeginView, Refreshed, Decisions
  <2>4. QED
    BY <2>1, <2>2, <2>3, PrivateStep DEF Decisions, NoEvent
<1>5. ASSUME NEW r \in Txns, Flush(r), TypeOK'
      PROVE  StatusInv'
  <2>1. /\ r \in Txns \ {Creator} /\ txn'[r] \in TxnRecord /\ LockFree
        /\ UNCHANGED <<row, events, webhooks>> /\ txn[r].pc = "flushing"
    BY <1>5 DEF Flush, TypeOK, StatusInv, CreatorInv
  <2>2. /\ txn' = [txn EXCEPT ![r] = txn'[r]]
        /\ txn'[r].pc \in {"flushed", "ready"} /\ txn'[r].snap = txn[r].snap
        /\ txn'[r].draft = txn[r].draft /\ txn'[r].event = txn[r].event
    BY <1>5, <1>e DEF Flush
  <2>3. /\ txn[r].event.type \notin Decisions /\ txn[r].draft.status = txn[r].snap.status
        /\ row.status # "absent"
    BY <2>1 DEF StatusInv, DraftInv, CreatorInv, Holds, Active
  <2>4. QED
    BY <2>1, <2>2, <2>3, PrivateStep
<1>6. ASSUME NEW r \in Txns, SignalDelivered(r) \/ SignalFailed(r), TypeOK'
      PROVE  StatusInv'
  <2>1. /\ r \in Txns \ {Creator} /\ txn'[r] \in TxnRecord /\ Holds(r)
        /\ UNCHANGED <<row, events, webhooks>> /\ txn[r].pc = "flushed"
    BY <1>6 DEF SignalDelivered, SignalFailed, TypeOK, StatusInv, CreatorInv, Holds
  <2>2. /\ txn' = [txn EXCEPT ![r] = txn'[r]]
        /\ txn'[r].pc = "ready" /\ txn'[r].snap = txn[r].snap
        /\ txn'[r].draft.status = txn[r].draft.status /\ txn'[r].event = txn[r].event
    BY <1>6, <1>a, <1>e DEF SignalDelivered, SignalFailed, TxnRecord, Row
  <2>3. QED
    BY <2>1, <2>2, PrivateStep DEF StatusInv, DraftInv, CreatorInv, Active
<1>7. ASSUME NEW r \in Txns, Rollback(r) \/ LoseTasks(r) \/ SendMail(r)
      PROVE  StatusInv'
  BY <1>7, EndStep DEF Rollback, LoseTasks, SendMail
<1>8. ASSUME NEW k \in Attempts, BeginReminder(k), TypeOK'
      PROVE  StatusInv'
  <2>1. /\ k \in Txns \ {Creator} /\ txn'[k] \in TxnRecord /\ LockFree
        /\ UNCHANGED <<row, events, webhooks>> /\ row.status = "pending"
    BY <1>8, <1>b DEF BeginReminder, TypeOK
  <2>2. /\ txn' = [txn EXCEPT ![k] = txn'[k]]
        /\ txn'[k].pc = "flushed" /\ txn'[k].snap = row
        /\ txn'[k].draft.status = row.status /\ txn'[k].event.type = "reminded"
    BY <1>8, <1>a, <2>1 DEF BeginReminder, Change, Row
  <2>3. QED
    BY <2>1, <2>2, PrivateStep DEF Decisions
<1>9. ASSUME NEW k \in Attempts, DispatchReminder(k), TypeOK'
      PROVE  StatusInv'
  <2>1. /\ k \in Txns \ {Creator} /\ txn'[k] \in TxnRecord /\ Holds(k)
        /\ UNCHANGED <<row, events, webhooks>> /\ txn[k].pc = "flushed"
    BY <1>9, <1>b DEF DispatchReminder, TypeOK, Holds
  <2>2. /\ txn' = [txn EXCEPT ![k] = txn'[k]]
        /\ txn'[k].pc = "ready" /\ txn'[k].snap = txn[k].snap
        /\ txn'[k].draft = txn[k].draft /\ txn'[k].event = txn[k].event
    BY <1>9, <1>e, <2>1 DEF DispatchReminder
  <2>3. QED
    BY <2>1, <2>2, PrivateStep DEF StatusInv, DraftInv, CreatorInv, Active
<1>10. ASSUME NEW k \in Attempts, ReminderReturns(k)
       PROVE  StatusInv'
  BY <1>10, <1>b, EndStep DEF ReminderReturns
<1>11. CASE GiveUpAttempt \/ (Temporal /\ UNCHANGED rowVars)
            \/ \E a \in Steppers : CheckStep(a) \/ InsertStep(a)
  BY <1>11, <1>c DEF GiveUpAttempt, rowVars, CheckStep, InsertStep
<1>12. CASE UNCHANGED vars
  BY <1>12, <1>c DEF vars
<1>13. CASE DecisionRequest
  BY <1>13, <1>2, NextTypeOK DEF DecisionRequest, DecideByApi, DecideInSlack, ClickLink
<1>14. TypeOK'
  BY NextTypeOK
<1>15. QED
  BY <1>1, <1>3, <1>4, <1>5, <1>6, <1>7, <1>8, <1>9, <1>10, <1>11, <1>12, <1>13, <1>14,
     CommitStep, AnnounceStep DEF Next

LEMMA InitStatusInv == Init => StatusInv
BY TxnsOf DEF Init, StatusInv, CreatorInv, LockInv, DraftInv, CommittedInv, OneDecision,
   ToAnnounce, Holds, Active, Decided, DecisionEvents, NoRow, NoEvent, Decisions

LEMMA InductiveInvariant == Spec => []IInv
<1>1. Init => IInv
  BY InitTypeOK, InitStatusInv DEF IInv
<1>2. IInv /\ [Next]_vars => IInv'
  BY NextTypeOK, NextStatusInv DEF IInv
<1>3. QED
  BY <1>1, <1>2, PTL DEF Spec

(* However decisions by API, Slack and link, escalations, readers and      *)
(* reminders interleave, roll back or lose their tasks, a request has one  *)
(* decision, in its row, in the audit log and on the webhooks.             *)
THEOREM DecidedOnce == Spec => []OneDecision
BY InductiveInvariant, PTL DEF IInv, StatusInv

-------------------------------------------------------------------------------
(* The kinds of steps *)

Moves(r) == /\ \A s \in Txns \ {r} : txn'[s] = txn[s]
            /\ UNCHANGED <<row, events>>

(* Request r has read the row and drafts a change of it: a decision and a  *)
(* reminder under the lock.                                                *)
Drafts(r) ==
  LET t == txn'[r]
  IN  /\ Moves(r) /\ t.snap = row
      /\ IF t.event.type = "reminded"
         THEN r # Creator /\ t.pc = "flushed" /\ LockFree /\ ~row.reminded /\ t.draft.reminded
         ELSE t.draft.reminded = IF r = Creator THEN FALSE ELSE row.reminded
      /\ r # Creator =>
           /\ t.draft.run = row.run
           /\ t.draft.fallback # row.fallback => t.draft.fallback # "none"
           /\ t.pc = "ready" /\ t.event.type \in Decisions => ~row.run
      /\ r = Creator => row.status = "absent"
      /\ r \in Attempts => t.event.type = "reminded"

(* Request r goes on with its draft: a decision whose signal has not been  *)
(* delivered is flagged.                                                   *)
Carries(r) ==
  LET t == txn'[r]
  IN  /\ Moves(r) /\ r # Creator
      /\ txn[r].pc \in {"flushing", "flushed"} /\ t.pc \in {"flushed", "ready"}
      /\ t.snap = txn[r].snap /\ t.event = txn[r].event
      /\ t.draft.run = txn[r].draft.run /\ t.draft.reminded = txn[r].draft.reminded
      /\ t.draft.fallback \in {txn[r].draft.fallback, "signal_retry_exhausted"}
      /\ t.event.type \in Decisions =>
           \/ t.draft.fallback = "signal_retry_exhausted"
           \/ signals' = Append(signals, t.event.type)
           \/ r \in Attempts

Leaves(r) == Moves(r) /\ txn'[r].pc \notin Active

LEMMA RefreshedFlags ==
  ASSUME NEW rw \in Row
  PROVE  /\ Refreshed(rw).run = rw.run /\ Refreshed(rw).reminded = rw.reminded
         /\ Refreshed(rw).fallback # rw.fallback => Refreshed(rw).fallback # "none"
BY DEF Refreshed, Row, FallbackModes

LEMMA StepKinds ==
  ASSUME IInv, [Next]_vars
  PROVE  \/ UNCHANGED <<row, txn, events>>
         \/ \E r \in Txns : Drafts(r) \/ Carries(r) \/ Leaves(r)
         \/ \E r \in Txns : Commit(r)
<1>a. /\ row \in Row /\ txn \in [Txns -> TxnRecord] /\ Creator \in Txns
      /\ \A r \in Txns : txn[r].snap \in Row /\ txn[r].draft \in Row /\ txn[r].event \in Event
  BY TxnsOf DEF IInv, TypeOK, TxnRecord
<1>b. /\ Deciders \cup Clickers \cup Escalators \cup Viewers \cup Attempts \subseteq Txns \ {Creator}
      /\ (Deciders \cup Clickers \cup Escalators \cup Viewers) \cap Attempts = {}
  BY TxnsOf, ApprovalAssumption
<1>d. ASSUME NEW r \in Txns, NEW p, NEW d, NEW e, Change(r, p, d, e)
      PROVE  /\ \A s \in Txns \ {r} : txn'[s] = txn[s]
             /\ txn'[r].pc = p /\ txn'[r].snap = row /\ txn'[r].draft = d /\ txn'[r].event = e
  BY <1>a, <1>d DEF Change
<1>e. ASSUME NEW r \in Txns, NEW p, SetPc(r, p)
      PROVE  /\ \A s \in Txns \ {r} : txn'[s] = txn[s]
             /\ txn'[r].pc = p /\ txn'[r].snap = txn[r].snap
             /\ txn'[r].draft = txn[r].draft /\ txn'[r].event = txn[r].event
  BY <1>a, <1>e DEF SetPc, TxnRecord
<1>f. ASSUME NEW r \in Txns, End(r), UNCHANGED <<row, events>>
      PROVE  Leaves(r)
  BY <1>a, <1>f DEF End, Ended, Leaves, Moves, Active
<1>1. ASSUME NEW mode \in StartModes, CreateRequest(mode)
      PROVE  Drafts(Creator) \/ Leaves(Creator)
  <2>1. row.status = "absent" /\ UNCHANGED <<row, events>>
    BY <1>1 DEF CreateRequest, IInv, StatusInv, CreatorInv
  <2>2. CASE Accepts(mode)
    <3> DEFINE d == [NoRow EXCEPT !.status = "pending", !.fallback = mode,
                                  !.run = (mode = "none"), !.expires = Sla]
               e == [type |-> "requested", via |-> "api", by |-> "caller"]
    <3>1. Change(Creator, "ready", d, e)
      BY <1>1, <2>2 DEF CreateRequest
    <3>2. d.reminded = FALSE /\ e.type # "reminded"
      BY DEF NoRow
    <3>3. Creator \notin Attempts
      BY <1>b
    <3>4. QED
      <4> HIDE DEF d, e
      <4>1. /\ \A s \in Txns \ {Creator} : txn'[s] = txn[s]
            /\ txn'[Creator].pc = "ready" /\ txn'[Creator].snap = row
            /\ txn'[Creator].draft = d /\ txn'[Creator].event = e
        BY <1>a, <1>d, <3>1
      <4>2. QED
        BY <4>1, <2>1, <3>2, <3>3 DEF Drafts, Moves
  <2>3. CASE ~ Accepts(mode)
    BY <1>1, <1>a, <1>e, <2>1, <2>3 DEF CreateRequest, Leaves, Moves, Active
  <2>4. QED
    BY <2>2, <2>3
<1>2. ASSUME NEW r \in Deciders \cup Clickers, NEW d \in Decisions, NEW via, NEW by,
             Decide(r, d, via, by)
      PROVE  Drafts(r)
  <2> DEFINE dr == [row EXCEPT !.status = d, !.workflow = "completed"]
             ev == [type |-> d, via |-> via, by |-> by]
             p == IF row.run THEN "flushed" ELSE "ready"
  <2>1. Change(r, p, dr, ev) /\ LockFree /\ UNCHANGED <<row, events>>
    BY <1>2 DEF Decide
  <2>2. /\ dr.run = row.run /\ dr.reminded = row.reminded /\ dr.fallback = row.fallback
        /\ ev.type = d /\ d # "reminded" /\ (p = "ready" => ~row.run)
    BY <1>a DEF Row, Decisions
  <2>3. QED
    <3> HIDE DEF dr, ev, p
    <3>1. /\ \A s \in Txns \ {r} : txn'[s] = txn[s]
          /\ txn'[r].pc = p /\ txn'[r].snap = row /\ txn'[r].draft = dr /\ txn'[r].event = ev
      BY <1>b, <1>d, <2>1
    <3>2. r # Creator /\ r \notin Attempts
      BY <1>b
    <3>3. QED
      BY <3>1, <3>2, <2>1, <2>2 DEF Drafts, Moves
<1>3. ASSUME NEW r \in Escalators, NEW a \in Approvers, BeginEscalate(r, a)
      PROVE  Drafts(r)
  <2> DEFINE ex == IF now + Extension < MaxSla THEN now + Extension ELSE MaxSla
             dr == [row EXCEPT !.approver = a, !.version = @ + 1, !.workflow = "escalated",
                               !.expires = ex]
             ev == [type |-> "escalated", via |-> "api", by |-> "caller"]
  <2>1. Change(r, "flushing", dr, ev) /\ UNCHANGED <<row, events>>
    BY <1>3 DEF BeginEscalate
  <2>2. /\ dr.run = row.run /\ dr.reminded = row.reminded /\ dr.fallback = row.fallback
        /\ ev.type = "escalated"
    <3> HIDE DEF ex
    <3> QED  BY <1>a DEF Row
  <2>3. QED
    <3> HIDE DEF dr, ev
    <3>1. /\ \A s \in Txns \ {r} : txn'[s] = txn[s]
          /\ txn'[r].pc = "flushing" /\ txn'[r].snap = row
          /\ txn'[r].draft = dr /\ txn'[r].event = ev
      BY <1>b, <1>d, <2>1
    <3>2. r # Creator /\ r \notin Attempts
      BY <1>b
    <3>3. QED
      BY <3>1, <3>2, <2>1, <2>2 DEF Drafts, Moves, Decisions
<1>4. ASSUME NEW r \in Viewers, BeginView(r)
      PROVE  Drafts(r)
  <2>1. Change(r, "flushing", Refreshed(row), NoEvent) /\ UNCHANGED <<row, events>>
    BY <1>4 DEF BeginView
  <2>2. NoEvent.type = "none"
    BY DEF NoEvent
  <2>3. /\ \A s \in Txns \ {r} : txn'[s] = txn[s]
        /\ txn'[r].pc = "flushing" /\ txn'[r].snap = row
        /\ txn'[r].draft = Refreshed(row) /\ txn'[r].event = NoEvent
    BY <1>b, <1>d, <2>1
  <2>4. r # Creator /\ r \notin Attempts
    BY <1>b
  <2>5. QED
    BY <2>1, <2>2, <2>3, <2>4, <1>a, RefreshedFlags DEF Drafts, Moves, Decisions
<1>5. ASSUME NEW r \in Txns, Flush(r)
      PROVE  Carries(r)
  <2>1. /\ txn[r].pc = "flushing" /\ UNCHANGED <<row, events>>
        /\ SetPc(r, IF txn[r].event # NoEvent /\ txn[r].snap.run THEN "flushed" ELSE "ready")
    BY <1>5 DEF Flush
  <2>2. r # Creator /\ txn[r].event.type \notin Decisions
    BY <2>1 DEF IInv, StatusInv, CreatorInv, DraftInv, Active, Holds
  <2>3. QED
    BY <2>1, <2>2, <1>e DEF Carries, Moves
<1>6. ASSUME NEW r \in Txns, SignalDelivered(r)
      PROVE  Carries(r)
  <2>1. /\ txn[r].pc = "flushed" /\ UNCHANGED <<row, events>> /\ SetPc(r, "ready")
        /\ signals' = Append(signals, SignalOf(r))
    BY <1>6 DEF SignalDelivered, AcceptSignal
  <2>2. r # Creator
    BY <2>1 DEF IInv, StatusInv, CreatorInv
  <2>3. QED
    BY <2>1, <2>2, <1>e DEF Carries, Moves, SignalOf
<1>7. ASSUME NEW r \in Txns, SignalFailed(r)
      PROVE  Carries(r)
  <2>1. txn[r].pc = "flushed" /\ UNCHANGED <<row, events>>
    BY <1>7 DEF SignalFailed
  <2>2. r # Creator
    BY <2>1 DEF IInv, StatusInv, CreatorInv
  <2>3. /\ \A s \in Txns \ {r} : txn'[s] = txn[s]
        /\ txn'[r].pc = "ready" /\ txn'[r].snap = txn[r].snap /\ txn'[r].event = txn[r].event
        /\ txn'[r].draft.run = txn[r].draft.run
        /\ txn'[r].draft.reminded = txn[r].draft.reminded
        /\ txn'[r].draft.fallback = "signal_retry_exhausted"
    BY <1>7, <1>a DEF SignalFailed, TxnRecord, Row
  <2>4. QED
    BY <2>1, <2>2, <2>3 DEF Carries, Moves
<1>8. ASSUME NEW r \in Txns, Rollback(r) \/ Announce(r) \/ SendMail(r) \/ LoseTasks(r)
      PROVE  Leaves(r)
  BY <1>8, <1>f DEF Rollback, Announce, SendMail, LoseTasks
<1>9. ASSUME NEW k \in Attempts, BeginReminder(k)
      PROVE  Drafts(k)
  <2> DEFINE dr == [row EXCEPT !.reminded = TRUE]
             ev == [type |-> "reminded", via |-> "none", by |-> "caller"]
  <2>1. /\ Change(k, "flushed", dr, ev) /\ UNCHANGED <<row, events>>
        /\ LockFree /\ ~row.reminded
    BY <1>9 DEF BeginReminder
  <2>2. /\ dr.run = row.run /\ dr.reminded /\ dr.fallback = row.fallback
        /\ ev.type = "reminded"
    BY <1>a DEF Row
  <2>3. QED
    <3> HIDE DEF dr, ev
    <3>1. /\ \A s \in Txns \ {k} : txn'[s] = txn[s]
          /\ txn'[k].pc = "flushed" /\ txn'[k].snap = row
          /\ txn'[k].draft = dr /\ txn'[k].event = ev
      BY <1>b, <1>d, <2>1
    <3>2. k # Creator
      BY <1>b
    <3>3. QED
      BY <3>1, <3>2, <2>1, <2>2 DEF Drafts, Moves, Decisions
<1>10. ASSUME NEW k \in Attempts, DispatchReminder(k)
       PROVE  Carries(k)
  BY <1>10, <1>b, <1>e DEF DispatchReminder, Carries, Moves
<1>11. ASSUME NEW k \in Attempts, ReminderReturns(k)
       PROVE  Leaves(k)
  BY <1>11, <1>b, <1>f DEF ReminderReturns
<1>12. CASE GiveUpAttempt \/ (Temporal /\ UNCHANGED rowVars)
            \/ (\E a \in Steppers : CheckStep(a) \/ InsertStep(a)) \/ UNCHANGED vars
  BY <1>12 DEF GiveUpAttempt, rowVars, CheckStep, InsertStep, vars
<1>13. CASE DecisionRequest
  BY <1>13, <1>2, <1>b DEF DecisionRequest, DecideByApi, DecideInSlack, ClickLink
<1>14. QED
  BY <1>1, <1>3, <1>4, <1>5, <1>6, <1>7, <1>8, <1>9, <1>10, <1>11, <1>12, <1>13, <1>a, <1>b
     DEF Next

-------------------------------------------------------------------------------
(* One reminder *)

(* The reminder is drafted under the row lock, from a row without one; any *)
(* other draft leaves reminder_sent_at as it was read.                     *)
RemindInv ==
  /\ \A r \in Txns : txn[r].pc \in Active =>
       IF txn[r].event.type = "reminded"
       THEN /\ r # Creator /\ Holds(r)
            /\ ~row.reminded /\ ~txn[r].snap.reminded /\ txn[r].draft.reminded
       ELSE txn[r].draft.reminded = txn[r].snap.reminded
  /\ row.status = "absent" => ~row.reminded
  /\ OneReminderEvent

LEMMA RemindStep ==
  ASSUME IInv, RemindInv, [Next]_vars
  PROVE  RemindInv'
<1>a. row \in Row /\ txn \in [Txns -> TxnRecord] /\ events \in Seq(Event) /\ Creator \in Txns
  BY TxnsOf DEF IInv, TypeOK
<1>1. CASE UNCHANGED <<row, txn, events>>
  BY <1>1 DEF RemindInv, Holds, OneReminderEvent
<1>2. ASSUME NEW r \in Txns, Moves(r),
             txn'[r].pc \in Active =>
               IF txn'[r].event.type = "reminded"
               THEN /\ r # Creator /\ txn'[r].pc \in {"flushed", "ready"}
                    /\ ~row.reminded /\ ~txn'[r].snap.reminded /\ txn'[r].draft.reminded
               ELSE txn'[r].draft.reminded = txn'[r].snap.reminded
      PROVE  RemindInv'
  <2>1. UNCHANGED <<row, events>> /\ \A s \in Txns : s # r => txn'[s] = txn[s]
    BY <1>2 DEF Moves
  <2>2. ASSUME NEW s \in Txns, txn'[s].pc \in Active
        PROVE  IF txn'[s].event.type = "reminded"
               THEN /\ s # Creator /\ txn'[s].pc \in {"flushed", "ready"}
                    /\ ~row.reminded /\ ~txn'[s].snap.reminded /\ txn'[s].draft.reminded
               ELSE txn'[s].draft.reminded = txn'[s].snap.reminded
    <3>1. CASE s = r
      BY <1>2, <2>2, <3>1
    <3>2. CASE s # r
      BY <2>1, <2>2, <3>2 DEF RemindInv, Holds
    <3>3. QED
      BY <3>1, <3>2
  <2>3. OneReminderEvent' /\ (row'.status = "absent" => ~row'.reminded)
    BY <2>1 DEF RemindInv, OneReminderEvent
  <2>4. QED
    BY <2>1, <2>2, <2>3 DEF RemindInv, Holds
<1>3. ASSUME NEW r \in Txns, Drafts(r)
      PROVE  RemindInv'
  <2>1. row.status = "absent" => ~row.reminded
    BY DEF RemindInv
  <2>2. Moves(r) /\ txn'[r].snap = row
    BY <1>3 DEF Drafts
  <2>3. IF txn'[r].event.type = "reminded"
        THEN r # Creator /\ txn'[r].pc = "flushed" /\ ~row.reminded /\ txn'[r].draft.reminded
        ELSE txn'[r].draft.reminded = IF r = Creator THEN FALSE ELSE row.reminded
    BY <1>3 DEF Drafts
  <2>4. row.reminded \in BOOLEAN
    BY <1>a DEF Row
  <2>5. r = Creator => row.reminded = FALSE
    BY <1>3, <2>1, <2>4 DEF Drafts
  <2>6. QED
    BY <1>2, <2>2, <2>3, <2>5
<1>4. ASSUME NEW r \in Txns, Carries(r)
      PROVE  RemindInv'
  <2>1. /\ Moves(r) /\ r # Creator /\ txn'[r].pc \in {"flushed", "ready"}
        /\ txn'[r].snap = txn[r].snap /\ txn'[r].event = txn[r].event
        /\ txn'[r].draft.reminded = txn[r].draft.reminded
        /\ txn[r].pc \in Active
    BY <1>4 DEF Carries, Active
  <2>2. IF txn[r].event.type = "reminded"
        THEN ~row.reminded /\ ~txn[r].snap.reminded /\ txn[r].draft.reminded
        ELSE txn[r].draft.reminded = txn[r].snap.reminded
    BY <2>1 DEF RemindInv
  <2>3. QED
    BY <1>2, <2>1, <2>2
<1>5. ASSUME NEW r \in Txns, Leaves(r)
      PROVE  RemindInv'
  BY <1>2, <1>5 DEF Leaves
<1>6. ASSUME NEW r \in Txns, Commit(r)
      PROVE  RemindInv'
  <2>1. /\ txn[r].pc = "ready" /\ row' = Merge(row, txn[r].snap, txn[r].draft)
        /\ events' = IF txn[r].event = NoEvent THEN events ELSE Append(events, txn[r].event)
    BY <1>6 DEF Commit
  <2>2. /\ \A s \in Txns : s # r => txn'[s] = txn[s]
        /\ txn'[r].pc \notin Active
    BY <1>6, <1>a DEF Commit, End, Ended, SetPc, TxnRecord, Active
  <2>3. row'.reminded = IF txn[r].draft.reminded # txn[r].snap.reminded
                        THEN txn[r].draft.reminded ELSE row.reminded
    BY <2>1, <1>a DEF Merge, Row
  <2>4. /\ row'.reminded \in BOOLEAN /\ row.reminded \in BOOLEAN
        /\ txn[r].draft.reminded \in BOOLEAN /\ txn[r].snap.reminded \in BOOLEAN
        /\ txn[r].event \in Event
    BY <1>a, <2>3 DEF TxnRecord, Row
  <2>5. IF txn[r].event.type = "reminded"
        THEN /\ r # Creator /\ Holds(r)
             /\ row.reminded = FALSE /\ row'.reminded = TRUE
        ELSE row'.reminded = row.reminded
    BY <2>1, <2>3, <2>4 DEF RemindInv, Active
  <2>6. row'.status # "absent"
    <3>1. row'.status = IF txn[r].draft.status # txn[r].snap.status
                        THEN txn[r].draft.status ELSE row.status
      BY <2>1, <1>a DEF Merge, Row
    <3>2. QED
      BY <2>1, <3>1 DEF IInv, StatusInv, CreatorInv, DraftInv, Active, Decisions
  <2>7. ASSUME NEW s \in Txns, txn'[s].pc \in Active
        PROVE  IF txn'[s].event.type = "reminded"
               THEN /\ s # Creator /\ txn'[s].pc \in {"flushed", "ready"}
                    /\ ~row'.reminded /\ ~txn'[s].snap.reminded /\ txn'[s].draft.reminded
               ELSE txn'[s].draft.reminded = txn'[s].snap.reminded
    <3>1. s # r /\ txn'[s] = txn[s] /\ txn[s].pc \in Active
      BY <2>2, <2>7
    <3>2. CASE txn[s].event.type # "reminded"
      BY <3>1, <3>2 DEF RemindInv
    <3>3. CASE txn[s].event.type = "reminded"
      <4>1. /\ s # Creator /\ Holds(s) /\ row.reminded = FALSE
            /\ ~txn[s].snap.reminded /\ txn[s].draft.reminded
        BY <2>4, <3>1, <3>3 DEF RemindInv
      <4>2. r # Creator => ~ Holds(r)
        BY <3>1, <4>1 DEF IInv, StatusInv, LockInv
      <4>3. row'.reminded = FALSE
        BY <2>5, <4>1, <4>2
      <4>4. QED
        BY <3>1, <3>3, <4>1, <4>3 DEF Holds
    <3>4. QED
      BY <3>2, <3>3
  <2>8. OneReminderEvent'
    <3> DEFINE was == {i \in DOMAIN events : events[i].type = "reminded"}
               is == {i \in DOMAIN events' : events'[i].type = "reminded"}
    <3>1. (row.reminded <=> was # {}) /\ \A i, j \in was : i = j
      BY DEF RemindInv, OneReminderEvent
    <3>2. CASE txn[r].event.type = "reminded"
      <4>1. was = {} /\ row'.reminded = TRUE
        BY <2>5, <3>1, <3>2
      <4>2. events' = Append(events, txn[r].event)
        BY <2>1, <3>2 DEF NoEvent
      <4>3. is = {Len(events) + 1}
        BY <1>a, <2>4, <3>2, <4>1, <4>2
      <4>4. QED
        BY <4>1, <4>3 DEF OneReminderEvent
    <3>3. CASE txn[r].event.type # "reminded"
      <4>1. is = was
        <5>1. CASE txn[r].event = NoEvent
          BY <2>1, <5>1
        <5>2. CASE txn[r].event # NoEvent
          BY <2>1, <1>a, <2>4, <3>3, <5>2
        <5>3. QED
          BY <5>1, <5>2
      <4>2. row'.reminded = row.reminded
        BY <2>5, <3>3
      <4>3. (row'.reminded <=> is # {}) /\ \A i, j \in is : i = j
        BY <3>1, <4>1, <4>2
      <4>4. QED
        BY <4>3 DEF OneReminderEvent
    <3>4. QED
      BY <3>2, <3>3
  <2>9. QED
    BY <2>6, <2>7, <2>8 DEF RemindInv, Holds
<1>7. QED
  BY <1>1, <1>3, <1>4, <1>5, <1>6, StepKinds

LEMMA InitRemindInv == Init => RemindInv
BY TxnsOf DEF Init, RemindInv, OneReminderEvent, Active, NoRow, NoEvent

(* However attempts at the reminder overlap, are given up, roll back or    *)
(* come after a decision, one reminder at most is recorded, and the row    *)
(* says whether one is.                                                    *)
THEOREM RemindedOnce == Spec => []OneReminderEvent
<1>1. Init => IInv /\ RemindInv
  BY InitTypeOK, InitStatusInv, InitRemindInv DEF IInv
<1>2. IInv /\ RemindInv /\ [Next]_vars => (IInv /\ RemindInv)'
  BY NextTypeOK, NextStatusInv, RemindStep DEF IInv
<1>3. RemindInv => OneReminderEvent
  BY DEF RemindInv
<1>4. QED
  BY <1>1, <1>2, <1>3, PTL DEF Spec

-------------------------------------------------------------------------------
(* The run *)

(* d is the last decision among the first n signals, or there is none. *)
LastOf(d, n) ==
  IF d = "none" THEN \A i \in 1..n : signals[i] \notin Decisions
  ELSE \E i \in 1..n : signals[i] = d /\ \A j \in 1..n : signals[j] \in Decisions => j <= i

(* What the run has decided is the last decision it has handled; it waits  *)
(* with none, and closes when it has handled them all.                     *)
HeardInv ==
  /\ LastOf(wf.decision, wf.handled)
  /\ wf.pc \in {"absent", "phase1", "phase2"} => wf.decision = "none"
  /\ wf.pc = "closed" =>
       /\ wf.handled = Len(signals)
       /\ wf.result = IF wf.decision = "none" THEN "failed" ELSE wf.decision
  /\ wf.pc # "closed" => wf.result = "none"

(* What the clock shows and what is left of the timer make up the wait.    *)
TimerInv ==
  /\ wf.pc = "phase1" => now + wf.wait >= ReminderAfter
  /\ wf.pc = "reminding" => now >= ReminderAfter
  /\ wf.pc = "phase2" => now + wf.wait >= Sla
  /\ NeverExpiresEarly

RunInv == HeardInv /\ TimerInv

(* The handlers of an activation leave the last decision of all signals.   *)
LEMMA GreatestIndex ==
  ASSUME NEW n \in Nat, NEW T \in SUBSET (1..n), T # {}
  PROVE  \E k \in T : \A j \in T : j <= k
<1> DEFINE D == {n - i : i \in T}
<1>0. \A i \in T : i \in Nat /\ n - i \in Nat
  OBVIOUS
<1>1. D \in SUBSET Nat /\ D # {}
  BY <1>0
<1>2. PICK x \in D : \A y \in D : x <= y
  <2> HIDE DEF D
  <2> QED  BY <1>1, LeastNatural
<1>3. PICK k \in T : x = n - k
  BY <1>2
<1>4. ASSUME NEW j \in T
      PROVE  j <= k
  <2>1. x <= n - j
    BY <1>2
  <2>2. j \in Nat /\ k \in Nat
    BY <1>0
  <2>3. QED
    BY <1>3, <2>1, <2>2
<1>5. QED
  BY <1>4

LEMMA LastDecisionIs ==
  ASSUME WfTypeOK, LastOf(wf.decision, wf.handled)
  PROVE  LastOf(LastDecision(signals, wf.handled + 1, wf.decision), Len(signals))
<1> DEFINE n == Len(signals)
           at == {i \in (wf.handled + 1)..Len(signals) : signals[i] \in Decisions}
           d == LastDecision(signals, wf.handled + 1, wf.decision)
<1>1. /\ n \in Nat /\ wf.handled \in Nat /\ wf.handled <= n
      /\ wf.decision \in Decisions \cup {"none"}
  BY DEF WfTypeOK, WfRecord
<1>2. CASE at = {}
  <2>1. d = wf.decision
    BY <1>2 DEF LastDecision
  <2>2. \A i \in 1..n : signals[i] \in Decisions => i \in 1..wf.handled
    BY <1>1, <1>2
  <2>3. 1..wf.handled \subseteq 1..n
    BY <1>1
  <2>4. LastOf(wf.decision, n)
    <3> HIDE DEF n
    <3>1. CASE wf.decision = "none"
      BY <2>2, <3>1 DEF LastOf
    <3>2. CASE wf.decision # "none"
      BY <2>2, <2>3, <3>2 DEF LastOf
    <3>3. QED
      BY <3>1, <3>2
  <2>5. QED
    BY <2>1, <2>4
<1>3. CASE at # {}
  <2> DEFINE m == CHOOSE i \in at : \A j \in at : j <= i
  <2>1. at \in SUBSET (1..n)
    BY <1>1
  <2>2. m \in at /\ \A j \in at : j <= m
    <3> HIDE DEF at, n
    <3>1. \E i \in at : \A j \in at : j <= i
      BY <1>1, <1>3, <2>1, GreatestIndex
    <3>2. QED
      BY <3>1
  <2>3. d = signals[m]
    BY <1>3 DEF LastDecision
  <2>4. m \in (wf.handled + 1)..n /\ signals[m] \in Decisions
    <3> HIDE DEF m
    <3> QED  BY <2>2
  <2>5. ASSUME NEW j \in 1..n, signals[j] \in Decisions
        PROVE  j <= m
    <3> HIDE DEF m
    <3>1. CASE j <= wf.handled
      BY <1>1, <2>4, <3>1
    <3>2. CASE ~ (j <= wf.handled)
      <4>1. j \in at
        BY <1>1, <2>5, <3>2
      <4>2. QED
        BY <2>2, <4>1
    <3>3. QED
      BY <3>1, <3>2
  <2>6. m \in 1..n /\ d = signals[m] /\ d # "none"
    <3> HIDE DEF m, d
    <3> QED  BY <1>1, <2>3, <2>4 DEF Decisions
  <2>7. QED
    <3> HIDE DEF m, d, n
    <3>1. \A j \in 1..n : signals[j] \in Decisions => j <= m
      BY <2>5
    <3>2. LastOf(d, n)
      BY <3>1, <2>6 DEF LastOf
    <3>3. QED
      BY <3>2 DEF d, n
<1>4. QED
  BY <1>2, <1>3

(* The steps that concern the run, as they are taken. *)
LEMMA RunSteps ==
  ASSUME [Next]_vars
  PROVE  \/ UNCHANGED wfVars
         \/ StartWorkflow /\ UNCHANGED now
         \/ (\E s \in Decisions \cup {"escalate"} : AcceptSignal(s)) /\ UNCHANGED now
         \/ Temporal \/ RetryReminder \/ ReminderOver
<1>1. CASE \E r \in Txns : SignalDelivered(r) \/ SignalFailed(r)
  BY <1>1 DEF SignalDelivered, SignalFailed, SignalOf, wfVars
<1>2. CASE \E mode \in StartModes : CreateRequest(mode)
  BY <1>2 DEF CreateRequest, wfVars
<1>3. CASE (\E k \in Attempts : ReminderReturns(k)) \/ GiveUpAttempt
  BY <1>3 DEF ReminderReturns, GiveUpAttempt
<1>4. CASE Temporal /\ UNCHANGED rowVars
  BY <1>4
<1>5. CASE UNCHANGED vars
  BY <1>5 DEF vars, wfVars
<1>6. CASE DecisionRequest
  BY <1>6 DEF DecisionRequest, DecideByApi, DecideInSlack, ClickLink, Decide, wfVars
<1>7. CASE (\E r \in Escalators, a \in Approvers : BeginEscalate(r, a))
           \/ (\E r \in Viewers : BeginView(r)) \/ (\E a \in Steppers : CheckStep(a) \/ InsertStep(a))
  BY <1>7 DEF BeginEscalate, BeginView, CheckStep, InsertStep, wfVars
<1>8. CASE \/ \E r \in Txns : Flush(r) \/ Commit(r) \/ Rollback(r) \/ Announce(r)
                              \/ SendMail(r) \/ LoseTasks(r)
           \/ \E k \in Attempts : BeginReminder(k) \/ DispatchReminder(k)
  BY <1>8 DEF Flush, Commit, Rollback, Announce, SendMail, LoseTasks, BeginReminder,
     DispatchReminder, wfVars
<1>9. QED
  BY <1>1, <1>2, <1>3, <1>4, <1>5, <1>6, <1>7, <1>8 DEF Next

LEMMA RunStep ==
  ASSUME TypeOK, RunInv, [Next]_vars
  PROVE  RunInv'
<1>a. /\ WfTypeOK /\ wf \in WfRecord /\ now \in Nat /\ now <= Horizon
      /\ wf.wait \in Nat /\ wf.handled \in Nat /\ wf.handled <= Len(signals)
      /\ Len(signals) \in Nat /\ ReminderAfter \in Nat /\ ReminderAfter <= Sla
      /\ Sla \in Nat /\ Horizon \in Nat /\ Sla <= Horizon
      /\ wf.decision \in Decisions \cup {"none"}
  BY SlaAssumption DEF TypeOK, WfTypeOK, WfRecord, ReminderAfter
<1>1. CASE UNCHANGED wfVars
  BY <1>1 DEF wfVars, RunInv, HeardInv, TimerInv, NeverExpiresEarly, LastOf
<1>2. CASE StartWorkflow /\ UNCHANGED now
  <2>1. /\ wf.pc = "absent" /\ wf'.pc = "phase1" /\ wf'.wait = ReminderAfter
        /\ wf'.decision = wf.decision /\ wf'.handled = wf.handled /\ wf'.result = wf.result
        /\ UNCHANGED <<signals, now>>
    BY <1>2, <1>a DEF StartWorkflow, WfRecord
  <2>2. HeardInv'
    BY <2>1 DEF RunInv, HeardInv, LastOf
  <2>3. TimerInv'
    BY <2>1, <1>a DEF RunInv, HeardInv, TimerInv, NeverExpiresEarly
  <2>4. QED
    BY <2>2, <2>3 DEF RunInv
<1>3. ASSUME NEW s \in Decisions \cup {"escalate"}, AcceptSignal(s), UNCHANGED now
      PROVE  RunInv'
  <2>1. signals' = Append(signals, s) /\ UNCHANGED wf /\ wf.pc # "closed"
    BY <1>3 DEF AcceptSignal, Running
  <2>2. LastOf(wf.decision, wf.handled)'
    <3>1. wf.handled \in 0..Len(signals) /\ LastOf(wf.decision, wf.handled)
      BY <1>a DEF RunInv, HeardInv
    <3> DEFINE d == wf.decision
               n == wf.handled
    <3>2. \A i \in 1..n : signals'[i] = signals[i]
      BY <1>a, <2>1 DEF WfTypeOK
    <3>3. QED
      BY <2>1, <3>1, <3>2 DEF LastOf
  <2>3. QED
    BY <1>3, <2>1, <2>2 DEF RunInv, HeardInv, TimerInv, NeverExpiresEarly
<1>4. CASE HandleSignals
  <2> DEFINE d == LastDecision(signals, wf.handled + 1, wf.decision)
  <2>1. LastOf(d, Len(signals))
    BY <1>a, LastDecisionIs DEF RunInv, HeardInv
  <2> HIDE DEF d
  <2> DEFINE closes == d # "none" /\ wf.pc \in {"phase1", "phase2"}
             st == IF d # "none" THEN "completed" ELSE "escalated"
  <2>2. wf' = [wf EXCEPT !.handled = Len(signals), !.decision = d, !.status = st,
                         !.pc = IF closes THEN "closed" ELSE @,
                         !.result = IF closes THEN d ELSE @]
    BY <1>4, Zenon DEF HandleSignals, d
  <2>3. /\ wf'.handled = Len(signals) /\ wf'.decision = d /\ wf'.wait = wf.wait
        /\ wf'.pc = IF closes THEN "closed" ELSE wf.pc
        /\ wf'.result = IF closes THEN d ELSE wf.result
    <3> HIDE DEF closes, st
    <3> QED  BY <1>a, <2>2 DEF WfRecord
  <2>4. Running /\ UNCHANGED <<now, signals>>
    BY <1>4 DEF HandleSignals
  <2>5. LastOf(wf.decision, wf.handled)'
    BY <2>1, <2>3, <2>4 DEF LastOf
  <2>6. HeardInv'
    BY <2>3, <2>4, <2>5 DEF RunInv, HeardInv, Running
  <2>7. d # "failed"
    <3>1. wf.handled + 1 \in Nat \ {0}
      BY <1>a
    <3>2. d \in Decisions \cup {"none"}
      BY <1>a, <3>1, LastDecisionType DEF d, WfTypeOK
    <3>3. QED
      BY <3>2 DEF Decisions
  <2>8. TimerInv'
    BY <2>3, <2>4, <2>7 DEF RunInv, TimerInv, NeverExpiresEarly, Running
  <2>9. QED
    BY <2>6, <2>8 DEF RunInv
<1>5. CASE Tick
  <2>1. /\ wf'.pc = wf.pc /\ wf'.decision = wf.decision /\ wf'.handled = wf.handled
        /\ wf'.result = wf.result /\ UNCHANGED signals
        /\ wf'.wait = IF wf.wait > 0 THEN wf.wait - 1 ELSE 0
        /\ now' = IF now < Horizon THEN now + 1 ELSE now
    BY <1>5, <1>a DEF Tick, WfRecord
  <2>2. HeardInv'
    BY <2>1 DEF RunInv, HeardInv, LastOf
  <2>3. \A w \in {ReminderAfter, Sla} : now + wf.wait >= w => now' + wf'.wait >= w
    BY <1>a, <2>1
  <2>4. now' >= now
    BY <1>a, <2>1
  <2>5. TimerInv'
    BY <1>a, <2>1, <2>3, <2>4 DEF RunInv, TimerInv, NeverExpiresEarly
  <2>6. QED
    BY <2>2, <2>5 DEF RunInv
<1>6. CASE ReminderTimer \/ RetryReminder
  <2>1. /\ wf.pc \in {"phase1", "reminding"} /\ wf'.pc = "reminding"
        /\ wf.pc = "phase1" => wf.wait = 0
        /\ wf'.decision = wf.decision /\ wf'.handled = wf.handled
        /\ wf'.result = wf.result /\ UNCHANGED <<signals, now>>
    BY <1>6, <1>a DEF ReminderTimer, RetryReminder, WfRecord
  <2>2. HeardInv'
    BY <2>1 DEF RunInv, HeardInv, LastOf
  <2>3. TimerInv'
    BY <1>a, <2>1 DEF RunInv, TimerInv, NeverExpiresEarly
  <2>4. QED
    BY <2>2, <2>3 DEF RunInv
<1>7. CASE ReminderOver /\ wf.decision # "none"
  <2>1. /\ wf.pc = "reminding" /\ wf'.pc = "closed" /\ wf.handled = Len(signals)
        /\ wf'.decision = wf.decision /\ wf'.handled = wf.handled
        /\ wf'.result = wf.decision /\ UNCHANGED <<signals, now>>
    BY <1>7, <1>a DEF ReminderOver, WfRecord, Unhandled
  <2>2. HeardInv'
    BY <1>7, <2>1 DEF RunInv, HeardInv, LastOf
  <2>3. TimerInv'
    BY <1>a, <2>1 DEF TimerInv, NeverExpiresEarly, Decisions
  <2>4. QED
    BY <2>2, <2>3 DEF RunInv
<1>8. CASE ReminderOver /\ wf.decision = "none"
  <2>1. /\ wf.pc = "reminding" /\ wf'.pc = "phase2" /\ wf'.wait = Sla - ReminderAfter
        /\ wf'.decision = wf.decision /\ wf'.handled = wf.handled
        /\ wf'.result = wf.result /\ UNCHANGED <<signals, now>>
    BY <1>8, <1>a DEF ReminderOver, WfRecord
  <2>2. HeardInv'
    BY <1>8, <2>1 DEF RunInv, HeardInv, LastOf
  <2>3. TimerInv'
    BY <1>a, <2>1 DEF RunInv, TimerInv, NeverExpiresEarly
  <2>4. QED
    BY <2>2, <2>3 DEF RunInv
<1>9. CASE ExpiryTimer
  <2>1. /\ wf.pc = "phase2" /\ wf'.pc = "closed" /\ wf.handled = Len(signals) /\ wf.wait = 0
        /\ wf'.decision = wf.decision /\ wf'.handled = wf.handled
        /\ wf'.result = "failed" /\ UNCHANGED <<signals, now>>
    BY <1>9, <1>a DEF ExpiryTimer, WfRecord, Unhandled
  <2>2. HeardInv'
    BY <2>1 DEF RunInv, HeardInv, LastOf
  <2>3. TimerInv'
    BY <1>a, <2>1 DEF RunInv, TimerInv, NeverExpiresEarly
  <2>4. QED
    BY <2>2, <2>3 DEF RunInv
<1>10. QED
  BY <1>1, <1>2, <1>3, <1>4, <1>5, <1>6, <1>7, <1>8, <1>9, RunSteps DEF Temporal

LEMMA InitRunInv == Init => RunInv
<1> SUFFICES ASSUME Init
             PROVE  RunInv
  OBVIOUS
<1>1. 1..0 = {} /\ signals = << >> /\ wf.pc = "absent" /\ wf.decision = "none"
      /\ wf.handled = 0 /\ wf.result = "none"
  BY DEF Init, WfInit
<1>2. QED
  BY <1>1 DEF RunInv, HeardInv, TimerInv, NeverExpiresEarly, LastOf

(* What the run returns is the last decision it has been sent, or that its *)
(* window is over with none.                                               *)
LEMMA ClosedTruly ==
  ASSUME TypeOK, RunInv
  PROVE  RunReturnsTruth
<1>1. /\ Len(signals) \in Nat /\ DOMAIN signals = 1..Len(signals)
      /\ wf.decision \in Decisions \cup {"none"}
  BY DEF TypeOK, WfTypeOK, WfRecord
<1>2. ASSUME wf.pc = "closed"
      PROVE  LET at == {i \in DOMAIN signals : signals[i] \in Decisions}
             IN  IF at = {} THEN wf.result = "failed"
                 ELSE \E i \in at : wf.result = signals[i] /\ \A j \in at : j <= i
  <2>1. /\ LastOf(wf.decision, Len(signals))
        /\ wf.result = IF wf.decision = "none" THEN "failed" ELSE wf.decision
    BY <1>2 DEF RunInv, HeardInv
  <2>2. CASE wf.decision = "none"
    BY <1>1, <2>1, <2>2 DEF LastOf
  <2>3. CASE wf.decision # "none"
    BY <1>1, <2>1, <2>3 DEF LastOf
  <2>4. QED
    BY <2>2, <2>3
<1>3. QED
  BY <1>2 DEF RunReturnsTruth, ReturnsLastDecision, RunInv, TimerInv

(* Whenever decisions and escalations are signalled, whether the reminder  *)
(* returns, fails or is given up, a run returns the last decision it has   *)
(* accepted, and gives up only when its SLA window is over with none.      *)
THEOREM RunTruth == Spec => []RunReturnsTruth
<1>1. Init => TypeOK /\ RunInv
  BY InitTypeOK, InitRunInv
<1>2. TypeOK /\ RunInv /\ [Next]_vars => (TypeOK /\ RunInv)'
  BY NextTypeOK, RunStep
<1>3. TypeOK /\ RunInv => RunReturnsTruth
  BY ClosedTruly
<1>4. QED
  BY <1>1, <1>2, <1>3, PTL DEF Spec

-------------------------------------------------------------------------------
(* Row and run *)

(* d is the last decision the run has been sent. *)
Told(d) == LastOf(d, Len(signals))

(* Only the creation sets temporal_run_id, nothing resets the fallback     *)
(* mode, and a decision has the row as it is.                              *)
FlagInv ==
  \A r \in Txns \ {Creator} : txn[r].pc \in Active =>
    /\ txn[r].draft.run = txn[r].snap.run
    /\ txn[r].draft.fallback # txn[r].snap.fallback => txn[r].draft.fallback # "none"
    /\ txn[r].event.type \in Decisions =>
         /\ r \notin Attempts
         /\ txn[r].snap.run = row.run /\ txn[r].snap.fallback = row.fallback

(* A decision that is about to be committed, or is, is the last the run    *)
(* has been sent, or is flagged.                                           *)
ToldInv ==
  /\ \A r \in Txns \ {Creator} :
       txn[r].pc = "ready" /\ txn[r].event.type \in Decisions /\ row.run =>
         txn[r].draft.fallback # "none" \/ Told(txn[r].event.type)
  /\ Decided /\ row.run => row.fallback # "none" \/ Told(row.status)

DivergenceInv == FlagInv /\ ToldInv

LEMMA SignalKinds ==
  ASSUME [Next]_vars
  PROVE  \/ UNCHANGED signals
         \/ \E r \in Txns : /\ SignalDelivered(r) \/ SignalFailed(r)
                            /\ signals' = Append(signals, SignalOf(r))
<1>1. CASE \E r \in Txns : SignalDelivered(r) \/ SignalFailed(r)
  BY <1>1 DEF SignalDelivered, SignalFailed, AcceptSignal
<1>2. CASE ~ \E r \in Txns : SignalDelivered(r) \/ SignalFailed(r)
  BY <1>2 DEF Next, vars, wfVars, CreateRequest, StartWorkflow, DecisionRequest, DecideByApi,
     DecideInSlack, ClickLink, Decide, BeginEscalate, BeginView, Flush, Commit, Rollback,
     Announce, SendMail, LoseTasks, BeginReminder, DispatchReminder, ReminderReturns,
     GiveUpAttempt, RetryReminder, ReminderOver, Temporal, HandleSignals, ReminderTimer,
     ExpiryTimer, Tick, CheckStep, InsertStep
<1>3. QED
  BY <1>1, <1>2

(* Nothing makes the run forget a decision but another decision, which is  *)
(* signalled only while the request is pending, by the holder of its lock. *)
LEMMA ToldKept ==
  ASSUME IInv, [Next]_vars, NEW d \in Decisions, Told(d),
         \A r \in Txns \ {Creator} :
           txn[r].pc = "flushed" => txn[r].event.type \notin Decisions
  PROVE  Told(d)'
<1>1. CASE UNCHANGED signals
  BY <1>1 DEF Told, LastOf
<1>2. ASSUME NEW r \in Txns, SignalDelivered(r) \/ SignalFailed(r),
             signals' = Append(signals, SignalOf(r))
      PROVE  Told(d)'
  <2>1. SignalOf(r) = "escalate"
    BY <1>2 DEF SignalDelivered, SignalFailed, SignalOf, IInv, StatusInv, CreatorInv
  <2>2. /\ signals \in Seq(Decisions \cup {"escalate"}) /\ Len(signals) \in Nat
        /\ "escalate" \notin Decisions /\ d # "none"
    BY DEF IInv, TypeOK, WfTypeOK, Decisions
  <2>3. /\ Len(signals') = Len(signals) + 1 /\ signals'[Len(signals) + 1] = "escalate"
        /\ \A i \in 1..Len(signals) : signals'[i] = signals[i]
    BY <1>2, <2>1, <2>2
  <2>4. PICK i \in 1..Len(signals) :
          signals[i] = d /\ \A j \in 1..Len(signals) : signals[j] \in Decisions => j <= i
    BY <2>2 DEF Told, LastOf
  <2>5. i \in 1..Len(signals') /\ signals'[i] = d
    BY <2>2, <2>3, <2>4
  <2>6. ASSUME NEW j \in 1..Len(signals'), signals'[j] \in Decisions
        PROVE  j <= i
    <3>1. j \in 1..Len(signals)
      BY <2>2, <2>3, <2>6
    <3>2. QED
      BY <2>3, <2>4, <2>6, <3>1
  <2>7. QED
    BY <2>2, <2>5, <2>6 DEF Told, LastOf
<1>3. QED
  BY <1>1, <1>2, SignalKinds

(* A decision that has just been signalled is the last one. *)
LEMMA ToldNow ==
  ASSUME WfTypeOK, NEW d \in Decisions, signals' = Append(signals, d)
  PROVE  Told(d)'
<1>1. Len(signals) \in Nat /\ d # "none"
  BY DEF WfTypeOK, Decisions
<1>2. Len(signals') = Len(signals) + 1 /\ signals'[Len(signals) + 1] = d
  BY <1>1 DEF WfTypeOK
<1>3. Len(signals') \in 1..Len(signals') /\ signals'[Len(signals')] = d
  BY <1>1, <1>2
<1>4. \A j \in 1..Len(signals') : j <= Len(signals')
  BY <1>1, <1>2
<1>5. QED
  BY <1>1, <1>3, <1>4 DEF Told, LastOf

LEMMA FlagStep ==
  ASSUME IInv, FlagInv, [Next]_vars
  PROVE  FlagInv'
<1>a. row \in Row /\ txn \in [Txns -> TxnRecord] /\ Creator \in Txns
  BY TxnsOf DEF IInv, TypeOK
<1>1. CASE UNCHANGED <<row, txn, events>>
  BY <1>1 DEF FlagInv
<1>2. ASSUME NEW r \in Txns, Moves(r),
             r # Creator /\ txn'[r].pc \in Active =>
               /\ txn'[r].draft.run = txn'[r].snap.run
               /\ txn'[r].draft.fallback # txn'[r].snap.fallback =>
                    txn'[r].draft.fallback # "none"
               /\ txn'[r].event.type \in Decisions =>
                    /\ r \notin Attempts
                    /\ txn'[r].snap.run = row.run /\ txn'[r].snap.fallback = row.fallback
      PROVE  FlagInv'
  <2>1. UNCHANGED row /\ \A s \in Txns : s # r => txn'[s] = txn[s]
    BY <1>2 DEF Moves
  <2> SUFFICES ASSUME NEW s \in Txns \ {Creator}, txn'[s].pc \in Active
               PROVE  /\ txn'[s].draft.run = txn'[s].snap.run
                      /\ txn'[s].draft.fallback # txn'[s].snap.fallback =>
                           txn'[s].draft.fallback # "none"
                      /\ txn'[s].event.type \in Decisions =>
                           /\ s \notin Attempts
                           /\ txn'[s].snap.run = row.run
                           /\ txn'[s].snap.fallback = row.fallback
    BY <2>1 DEF FlagInv
  <2>2. CASE s = r
    BY <1>2, <2>2
  <2>3. CASE s # r
    BY <2>1, <2>3 DEF FlagInv
  <2>4. QED
    BY <2>2, <2>3
<1>3. ASSUME NEW r \in Txns, Drafts(r)
      PROVE  FlagInv'
  <2>1. /\ Moves(r) /\ txn'[r].snap = row
        /\ r # Creator =>
             /\ txn'[r].draft.run = row.run
             /\ txn'[r].draft.fallback # row.fallback => txn'[r].draft.fallback # "none"
        /\ r \in Attempts => txn'[r].event.type = "reminded"
    BY <1>3 DEF Drafts
  <2>2. QED
    BY <1>2, <2>1 DEF Decisions
<1>4. ASSUME NEW r \in Txns, Carries(r)
      PROVE  FlagInv'
  <2>1. /\ Moves(r) /\ r # Creator /\ txn[r].pc \in Active
        /\ txn'[r].snap = txn[r].snap /\ txn'[r].event = txn[r].event
        /\ txn'[r].draft.run = txn[r].draft.run
        /\ txn'[r].draft.fallback \in {txn[r].draft.fallback, "signal_retry_exhausted"}
    BY <1>4 DEF Carries, Active
  <2>2. /\ txn[r].draft.run = txn[r].snap.run
        /\ txn[r].draft.fallback # txn[r].snap.fallback => txn[r].draft.fallback # "none"
        /\ txn[r].event.type \in Decisions =>
             /\ r \notin Attempts
             /\ txn[r].snap.run = row.run /\ txn[r].snap.fallback = row.fallback
    BY <2>1 DEF FlagInv
  <2>3. QED
    BY <1>2, <2>1, <2>2
<1>5. ASSUME NEW r \in Txns, Leaves(r)
      PROVE  FlagInv'
  BY <1>2, <1>5 DEF Leaves
<1>6. ASSUME NEW r \in Txns, Commit(r)
      PROVE  FlagInv'
  <2>1. txn[r].pc = "ready"
    BY <1>6 DEF Commit
  <2>2. /\ \A s \in Txns : s # r => txn'[s] = txn[s]
        /\ txn'[r].pc \notin Active
    BY <1>6, <1>a DEF Commit, End, Ended, SetPc, TxnRecord, Active
  <2> SUFFICES ASSUME NEW s \in Txns \ {Creator}, txn'[s].pc \in Active
               PROVE  /\ txn'[s].draft.run = txn'[s].snap.run
                      /\ txn'[s].draft.fallback # txn'[s].snap.fallback =>
                           txn'[s].draft.fallback # "none"
                      /\ txn'[s].event.type \in Decisions =>
                           /\ s \notin Attempts
                           /\ txn'[s].snap.run = row'.run
                           /\ txn'[s].snap.fallback = row'.fallback
    BY DEF FlagInv
  <2>3. s # r /\ txn'[s] = txn[s] /\ txn[s].pc \in Active
    BY <2>2
  <2>4. txn[s].event.type \notin Decisions
    BY <2>1, <2>3 DEF IInv, StatusInv, CreatorInv, DraftInv, LockInv, Active, Holds
  <2>5. QED
    BY <2>3, <2>4 DEF FlagInv
<1>7. QED
  BY <1>1, <1>3, <1>4, <1>5, <1>6, StepKinds

LEMMA ToldStep ==
  ASSUME IInv, FlagInv, ToldInv, [Next]_vars
  PROVE  ToldInv'
<1>a. /\ row \in Row /\ txn \in [Txns -> TxnRecord] /\ Creator \in Txns /\ WfTypeOK
      /\ \A r \in Txns : /\ txn[r].snap \in Row /\ txn[r].draft \in Row
                         /\ txn[r].event \in Event
  BY TxnsOf DEF IInv, TypeOK, TxnRecord
<1>b. ASSUME UNCHANGED row
      PROVE  Decided /\ row.run => row.fallback # "none" \/ Told(row.status)'
  <2>1. ASSUME Decided
        PROVE  \A r \in Txns \ {Creator} :
                 txn[r].pc = "flushed" => txn[r].event.type \notin Decisions
    BY <2>1 DEF IInv, StatusInv, DraftInv, Decided, Decisions, Active
  <2>2. ASSUME NEW d \in Decisions, row.status = d, Told(d)
        PROVE  Told(d)'
    BY <2>1, <2>2, ToldKept DEF Decided
  <2>3. ASSUME NEW d \in Decisions, row.status = d, row.run, row.fallback = "none"
        PROVE  Told(d)'
    BY <2>2, <2>3 DEF ToldInv, Decided
  <2>4. QED
    BY <1>b, <2>3 DEF Decided, Told
<1>1. ASSUME NEW r \in Txns, Moves(r),
             \A d \in Decisions :
               r # Creator /\ txn'[r].pc = "ready" /\ txn'[r].event.type = d /\ row.run =>
                 txn'[r].draft.fallback # "none" \/ Told(d)'
      PROVE  ToldInv'
  <2>1. UNCHANGED row /\ \A s \in Txns : s # r => txn'[s] = txn[s]
    BY <1>1 DEF Moves
  <2>2. ASSUME NEW s \in Txns \ {Creator}, s # r, NEW d \in Decisions,
               txn[s].pc = "ready", txn[s].event.type = d, row.run
        PROVE  txn[s].draft.fallback # "none" \/ Told(d)'
    <3>1. \A q \in Txns \ {Creator} :
            txn[q].pc = "flushed" => txn[q].event.type \notin Decisions
      BY <2>2 DEF IInv, StatusInv, LockInv, Holds
    <3>2. Told(d) => Told(d)'
      BY <3>1, ToldKept
    <3>3. QED
      BY <2>2, <3>2 DEF ToldInv
  <2>3. ASSUME NEW s \in Txns \ {Creator}, NEW d \in Decisions,
               txn'[s].pc = "ready", txn'[s].event.type = d, row.run
        PROVE  txn'[s].draft.fallback # "none" \/ Told(d)'
    <3>1. CASE s = r
      BY <1>1, <2>3, <3>1
    <3>2. CASE s # r
      BY <2>1, <2>2, <2>3, <3>2
    <3>3. QED
      BY <3>1, <3>2
  <2>4. \A s \in Txns \ {Creator} :
          txn'[s].pc = "ready" /\ txn'[s].event.type \in Decisions /\ row.run =>
            txn'[s].draft.fallback # "none" \/ Told(txn[s].event.type)'
    BY <2>3 DEF Told
  <2>5. QED
    BY <1>b, <2>1, <2>4 DEF ToldInv, Decided
<1>2. CASE UNCHANGED <<row, txn, events>>
  <2>1. Moves(Creator)
    BY <1>2 DEF Moves
  <2>2. QED
    BY <1>1, <1>a, <2>1, Zenon
<1>3. ASSUME NEW r \in Txns, Drafts(r)
      PROVE  ToldInv'
  BY <1>1, <1>3 DEF Drafts
<1>4. ASSUME NEW r \in Txns, Carries(r)
      PROVE  ToldInv'
  <2>1. /\ Moves(r) /\ r # Creator /\ txn[r].pc \in Active
        /\ txn'[r].event = txn[r].event
        /\ txn'[r].event.type \in Decisions =>
             \/ txn'[r].draft.fallback = "signal_retry_exhausted"
             \/ signals' = Append(signals, txn[r].event.type)
             \/ r \in Attempts
    BY <1>4 DEF Carries, Active
  <2>2. txn[r].event.type \in Decisions => r \notin Attempts
    BY <2>1 DEF FlagInv
  <2>3. ASSUME NEW d \in Decisions, signals' = Append(signals, d)
        PROVE  Told(d)'
    BY <1>a, <2>3, ToldNow
  <2>4. ASSUME NEW d \in Decisions, txn'[r].event.type = d
        PROVE  txn'[r].draft.fallback # "none" \/ Told(d)'
    BY <2>1, <2>2, <2>3, <2>4
  <2>5. QED
    BY <1>1, <2>1, <2>4, Zenon
<1>5. ASSUME NEW r \in Txns, Leaves(r)
      PROVE  ToldInv'
  BY <1>1, <1>5 DEF Leaves, Active
<1>6. ASSUME NEW r \in Txns, Commit(r)
      PROVE  ToldInv'
  <2> DEFINE sn == txn[r].snap
             dr == txn[r].draft
             ty == txn[r].event.type
  <2>1. txn[r].pc = "ready" /\ row' = Merge(row, sn, dr) /\ UNCHANGED signals
    BY <1>6 DEF Commit
  <2>2. /\ \A s \in Txns : s # r => txn'[s] = txn[s]
        /\ txn'[r].pc \notin Active
    BY <1>6, <1>a DEF Commit, End, Ended, SetPc, TxnRecord, Active
  <2>3. /\ row'.status = IF dr.status # sn.status THEN dr.status ELSE row.status
        /\ row'.run = IF dr.run # sn.run THEN dr.run ELSE row.run
        /\ row'.fallback = IF dr.fallback # sn.fallback THEN dr.fallback ELSE row.fallback
    BY <1>a, <2>1 DEF Merge, Row
  <2>4. \A s \in Txns \ {Creator} :
          txn'[s].pc = "ready" => txn'[s].event.type \notin Decisions
    BY <2>1, <2>2 DEF IInv, StatusInv, CreatorInv, DraftInv, LockInv, Active, Holds
  <2>5. r = Creator => row'.status = "pending"
    BY <2>1, <2>3 DEF IInv, StatusInv, CreatorInv
  <2>6. r # Creator =>
          /\ dr.run = sn.run
          /\ dr.fallback # sn.fallback => dr.fallback # "none"
          /\ IF ty \in Decisions
             THEN /\ row.status = "pending" /\ sn.status = "pending" /\ dr.status = ty
                  /\ sn.fallback = row.fallback
                  /\ row.run => dr.fallback # "none" \/ Told(ty)
             ELSE dr.status = sn.status
    BY <2>1 DEF FlagInv, ToldInv, IInv, StatusInv, DraftInv, Active
  <2>7. Decided' /\ row'.run => row'.fallback # "none" \/ Told(row'.status)
    <3> HIDE DEF sn, dr, ty
    <3>1. CASE r = Creator
      BY <2>5, <3>1 DEF Decided, Decisions
    <3>2. CASE r # Creator /\ ty \in Decisions
      BY <2>3, <2>6, <3>2 DEF Decided, Decisions
    <3>3. CASE r # Creator /\ ty \notin Decisions
      BY <2>3, <2>6, <3>3 DEF ToldInv, Decided
    <3>4. QED
      BY <3>1, <3>2, <3>3
  <2>8. Told(row'.status) => Told(row.status)'
    BY <2>1 DEF Told, LastOf
  <2>9. QED
    BY <2>4, <2>7, <2>8 DEF ToldInv
<1>7. QED
  BY <1>2, <1>3, <1>4, <1>5, <1>6, StepKinds

LEMMA InitDivergenceInv == Init => DivergenceInv
<1> SUFFICES ASSUME Init
             PROVE  DivergenceInv
  OBVIOUS
<1>1. \A r \in Txns : txn[r].pc = "idle"
  BY DEF Init
<1>2. row.status = "absent"
  BY DEF Init, NoRow
<1>3. QED
  BY <1>1, <1>2 DEF DivergenceInv, FlagInv, ToldInv, Active, Decided, Decisions

(* A closed run that has been told the decision last has returned it. *)
LEMMA ToldIsReturned ==
  ASSUME TypeOK, RunInv, ToldInv
  PROVE  DivergenceFlagged
<1> SUFFICES ASSUME Decided, row.run, wf.pc = "closed", row.fallback = "none"
             PROVE  wf.result = row.status
  BY DEF DivergenceFlagged
<1>1. /\ Told(row.status) /\ row.status \in Decisions /\ row.status # "none"
      /\ Len(signals) \in Nat
  BY DEF ToldInv, Decided, Decisions, TypeOK, WfTypeOK
<1>2. /\ LastOf(wf.decision, Len(signals))
      /\ wf.result = IF wf.decision = "none" THEN "failed" ELSE wf.decision
  BY DEF RunInv, HeardInv
<1>3. PICK i \in 1..Len(signals) :
        signals[i] = row.status /\ \A j \in 1..Len(signals) : signals[j] \in Decisions => j <= i
  BY <1>1 DEF Told, LastOf
<1>4. wf.decision # "none"
  BY <1>1, <1>2, <1>3 DEF LastOf
<1>5. wf.decision \in Decisions
  BY <1>4 DEF TypeOK, WfTypeOK, WfRecord
<1>6. PICK k \in 1..Len(signals) :
        signals[k] = wf.decision /\ \A j \in 1..Len(signals) : signals[j] \in Decisions => j <= k
  BY <1>2, <1>4 DEF LastOf
<1>7. i = k
  BY <1>1, <1>3, <1>5, <1>6
<1>8. QED
  BY <1>2, <1>3, <1>4, <1>6, <1>7

(* Row and workflow disagree only where workflow_fallback_mode says so:    *)
(* whoever decides, escalates, reads or reminds, and whichever signals are *)
(* lost, late, or delivered without an answer.                             *)
THEOREM NeverSilentlyApart == Spec => []DivergenceFlagged
<1> DEFINE Inv == IInv /\ RunInv /\ DivergenceInv
<1>1. Init => Inv
  BY InitTypeOK, InitStatusInv, InitRunInv, InitDivergenceInv DEF IInv
<1>2. Inv /\ [Next]_vars => Inv'
  BY NextTypeOK, NextStatusInv, RunStep, FlagStep, ToldStep DEF IInv, DivergenceInv
<1>3. Inv => DivergenceFlagged
  BY ToldIsReturned DEF IInv, DivergenceInv
<1>4. QED
  BY <1>1, <1>2, <1>3, PTL DEF Spec

-------------------------------------------------------------------------------
(* The refinement *)

Recorded == IF DecisionEvents = {} THEN "none"
            ELSE events[CHOOSE i \in DecisionEvents : \A j \in DecisionEvents : i <= j].type

(* What the audit log records is the status of the row. *)
LEMMA RecordedIs ==
  TypeOK /\ OneDecision => Recorded = IF Decided THEN row.status ELSE "none"
<1> SUFFICES ASSUME TypeOK, OneDecision
             PROVE  Recorded = IF Decided THEN row.status ELSE "none"
  OBVIOUS
<1>1. CASE DecisionEvents = {}
  BY <1>1 DEF Recorded, OneDecision
<1>2. CASE DecisionEvents # {}
  <2>1. PICK i \in DecisionEvents : \A j \in DecisionEvents : i <= j
    <3>1. \A i \in DecisionEvents : i \in Nat
      BY DEF DecisionEvents, TypeOK
    <3>2. QED
      BY <1>2, <3>1 DEF OneDecision
  <2> DEFINE c == CHOOSE k \in DecisionEvents : \A j \in DecisionEvents : k <= j
  <2>2. c \in DecisionEvents
    BY <2>1
  <2>3. events[c].type = row.status
    <3> HIDE DEF c
    <3> QED  BY <2>2 DEF OneDecision
  <2>4. QED
    BY <1>2, <2>3 DEF Recorded, OneDecision
<1>3. QED
  BY <1>1, <1>2

(* A commit is the abstract creation, the abstract decision, or a stutter. *)
LEMMA CommitRefines ==
  ASSUME IInv, IInv', NEW r \in Txns, Commit(r)
  PROVE  \/ row.status = "absent" /\ row'.status = "pending" /\ UNCHANGED webhooks
         \/ row.status = "pending" /\ row'.status \in Decisions /\ UNCHANGED webhooks
         \/ row'.status = row.status /\ UNCHANGED webhooks
<1>1. txn[r].pc = "ready" /\ UNCHANGED webhooks
  BY DEF Commit
<1>2. row'.status = IF txn[r].draft.status # txn[r].snap.status
                    THEN txn[r].draft.status ELSE row.status
  BY MergeType DEF Commit, IInv, TypeOK, TxnRecord
<1>3. QED
  BY <1>1, <1>2 DEF IInv, StatusInv, CreatorInv, DraftInv, Active

Announced == IF webhooks = << >> THEN "none" ELSE webhooks[1]

LEMMA StepRefines ==
  ASSUME IInv, IInv', [Next]_vars
  PROVE  \/ row.status = "absent" /\ row'.status = "pending" /\ UNCHANGED webhooks
         \/ row.status = "pending" /\ row'.status \in Decisions /\ UNCHANGED webhooks
         \/ row.status \in Decisions /\ webhooks = << >> /\ webhooks' = << row.status >>
              /\ row'.status = row.status
         \/ row'.status = row.status /\ UNCHANGED webhooks
<1>1. ASSUME NEW r \in Txns, Announce(r)
      PROVE  /\ row.status \in Decisions /\ webhooks = << >> /\ webhooks' = << row.status >>
             /\ row'.status = row.status
  <2>1. webhooks = << >> /\ row.status = txn[r].event.type /\ txn[r].event.type \in Decisions
    BY <1>1 DEF Announce, IInv, StatusInv, CommittedInv, ToAnnounce
  <2>2. webhooks' = Append(webhooks, txn[r].event.type) /\ UNCHANGED row
    BY <1>1 DEF Announce
  <2>3. Append(<< >>, row.status) = << row.status >>
    OBVIOUS
  <2>4. QED
    BY <2>1, <2>2, <2>3
<1>2. UNCHANGED vars => UNCHANGED <<row, webhooks>>
  BY DEF vars
<1>3. ASSUME Next, \A r \in Txns : ~ Commit(r) /\ ~ Announce(r)
      PROVE  UNCHANGED <<row, webhooks>>
  BY <1>3 DEF Next, CreateRequest, DecisionRequest, DecideByApi, DecideInSlack, ClickLink,
     Decide, BeginEscalate, BeginView, Flush, SignalDelivered, SignalFailed, Rollback,
     SendMail, LoseTasks, BeginReminder, DispatchReminder, ReminderReturns, GiveUpAttempt,
     CheckStep, InsertStep, rowVars
<1>4. QED
  BY <1>1, <1>2, <1>3, CommitRefines

(* The approval flow implements what ApprovalDecision promises: a request  *)
(* is decided at most once, with its audit event, and only that decision   *)
(* is announced, at most once.                                             *)
THEOREM Refinement == Spec => KeepsPromise
<1>1. Init => Promise!Init
  BY DEF Init, Promise!Init, NoRow, DecisionEvents
<1>2. IInv /\ IInv' /\ [Next]_vars =>
        [Promise!Next]_<<row.status, Recorded, Announced>>
  <2> SUFFICES ASSUME IInv, IInv', [Next]_vars
               PROVE  [Promise!Next]_<<row.status, Recorded, Announced>>
    OBVIOUS
  <2>1. Recorded = IF Decided THEN row.status ELSE "none"
    BY RecordedIs DEF IInv, StatusInv
  <2>2. Recorded' = IF Decided' THEN row'.status ELSE "none"
    <3>1. (TypeOK /\ OneDecision)' => (Recorded = IF Decided THEN row.status ELSE "none")'
      BY RecordedIs, PTL
    <3>2. QED
      BY <3>1 DEF IInv, StatusInv
  <2>3. CASE row.status = "absent" /\ row'.status = "pending" /\ UNCHANGED webhooks
    <3>1. Promise!Create
      BY <2>1, <2>2, <2>3 DEF Promise!Create, Decided, Decisions, Recorded, Announced
    <3>2. QED
      BY <3>1 DEF Promise!Next
  <2>4. CASE row.status = "pending" /\ row'.status \in Decisions /\ UNCHANGED webhooks
    <3>1. ASSUME NEW d \in Decisions, row'.status = d
          PROVE  Promise!Decide(d)
      BY <2>2, <2>4, <3>1 DEF Promise!Decide, Decided, Recorded, Announced
    <3>2. QED
      BY <2>4, <3>1 DEF Promise!Next
  <2>5. CASE row.status \in Decisions /\ webhooks = << >> /\ webhooks' = << row.status >>
             /\ row'.status = row.status
    <3>1. << row.status >> # << >> /\ << row.status >>[1] = row.status
      OBVIOUS
    <3>2. Announced = "none" /\ Announced' = row.status
      BY <2>5, <3>1 DEF Announced
    <3>3. Recorded' = Recorded
      BY <2>1, <2>2, <2>5 DEF Decided
    <3>4. Promise!Announce
      BY <2>5, <3>2, <3>3 DEF Promise!Announce, Recorded, Announced
    <3>5. QED
      BY <3>4 DEF Promise!Next
  <2>6. CASE row'.status = row.status /\ UNCHANGED webhooks
    BY <2>1, <2>2, <2>6 DEF Decided, Announced
  <2>7. QED
    BY <2>3, <2>4, <2>5, <2>6, StepRefines
<1>3. QED
  BY <1>1, <1>2, InductiveInvariant, PTL DEF Spec, KeepsPromise, Promise!Spec, Recorded, Announced
===============================================================================
