--------------------------- MODULE ApprovalWorkflow ---------------------------
(***************************************************************************)
(* The durable Temporal workflow of one approval: run, human_decision and  *)
(* escalate of workflows/approval_workflow.py.                             *)
(*                                                                         *)
(* The Temporal server keeps the signals a run has accepted and hands the  *)
(* ones not yet handled to its next activation, before any timer that has  *)
(* fired and before the result of an activity; it lets no run close with a *)
(* signal unhandled.  A signal to a closed run is refused.                 *)
(*                                                                         *)
(* Time is a clock of ticks, stopped at Horizon; a timer that is set goes  *)
(* on to its end.                                                          *)
(***************************************************************************)
EXTENDS Naturals, Sequences

CONSTANTS
  Sla,           \* sla_hours, in ticks
  MinReminder,   \* the lower bound of one hour on the reminder delay, in ticks
  MaxAttempts,   \* maximum_attempts of _REMINDER_RETRY
  Horizon        \* the last tick, not before the end of the SLA window

ASSUME SlaAssumption ==
  /\ Sla \in Nat /\ MinReminder \in Nat /\ MinReminder <= Sla
  /\ MaxAttempts \in Nat \ {0}
  /\ Horizon \in Nat /\ Sla <= Horizon

Decisions == {"approved", "rejected"}

VARIABLES
  now,       \* the clock
  wf,        \* the run: see WfRecord
  signals    \* the signals the run has accepted, in order

wfVars == <<now, wf, signals>>

WfRecord ==
  [pc : {"absent", "phase1", "reminding", "phase2", "closed"},
   decision : Decisions \cup {"none"},            \* self._decision
   status : {"running", "escalated", "completed", "failed"},  \* self._status
   wait : Nat,                                    \* ticks left on its timer
   attempt : 0..MaxAttempts,                      \* of the reminder activity
   handled : Nat,                                 \* signals handled
   result : Decisions \cup {"none", "failed"}]    \* what run() returned

WfTypeOK ==
  /\ now \in 0..Horizon
  /\ wf \in WfRecord
  /\ signals \in Seq(Decisions \cup {"escalate"})
  /\ wf.handled <= Len(signals)

WfInit ==
  /\ now = 0
  /\ wf = [pc |-> "absent", decision |-> "none", status |-> "running",
           wait |-> 0, attempt |-> 0, handled |-> 0, result |-> "none"]
  /\ signals = << >>

-------------------------------------------------------------------------------
(* max(1.0, total_hours * _REMINDER_FRACTION) *)
ReminderAfter == IF MinReminder > Sla \div 2 THEN MinReminder ELSE Sla \div 2

Running == wf.pc \notin {"absent", "closed"}
Unhandled == wf.handled < Len(signals)

(* A variant in which the first decision stays. *)
FirstDecision(s, from, d) ==
  LET at == {i \in from..Len(s) : s[i] \in Decisions}
  IN  IF at = {} \/ d # "none" THEN d ELSE s[CHOOSE i \in at : \A j \in at : i <= j]

(* The last element of s[from..Len(s)] that is a decision, or d. *)
LastDecision(s, from, d) ==
  LET at == {i \in from..Len(s) : s[i] \in Decisions}
  IN  IF at = {} THEN d ELSE s[CHOOSE i \in at : \A j \in at : j <= i]

Tick ==
  /\ now < Horizon \/ wf.wait > 0
  /\ now' = IF now < Horizon THEN now + 1 ELSE now
  /\ wf' = [wf EXCEPT !.wait = IF @ > 0 THEN @ - 1 ELSE 0]
  /\ UNCHANGED signals

(* client.start_workflow has reached the server. *)
StartWorkflow ==
  /\ wf.pc = "absent"
  /\ wf' = [wf EXCEPT !.pc = "phase1", !.wait = ReminderAfter]
  /\ UNCHANGED signals

(* handle.signal has reached the server. *)
AcceptSignal(s) ==
  /\ Running
  /\ signals' = Append(signals, s)
  /\ UNCHANGED wf

(* An activation with signals: every handler runs, then wait_condition is  *)
(* looked at.  While the reminder activity runs nothing waits on it.       *)
HandleSignals ==
  /\ Running /\ Unhandled
  /\ LET d == LastDecision(signals, wf.handled + 1, wf.decision)
         closes == d # "none" /\ wf.pc \in {"phase1", "phase2"}
     IN  wf' = [wf EXCEPT
           !.handled = Len(signals),
           !.decision = d,
           !.status = IF d # "none" THEN "completed" ELSE "escalated",
           !.pc = IF closes THEN "closed" ELSE @,
           !.result = IF closes THEN d ELSE @]
  /\ UNCHANGED <<now, signals>>

(* The reminder timer fires: the activity is scheduled. *)
ReminderTimer ==
  /\ wf.pc = "phase1" /\ ~Unhandled /\ wf.wait = 0
  /\ wf' = [wf EXCEPT !.pc = "reminding", !.attempt = 1]
  /\ UNCHANGED <<now, signals>>

(* The activity has failed or timed out, and is tried again. *)
RetryReminder ==
  /\ wf.pc = "reminding" /\ wf.attempt < MaxAttempts
  /\ wf' = [wf EXCEPT !.attempt = @ + 1]
  /\ UNCHANGED <<now, signals>>

(* A variant that goes on to the second wait whatever has been decided. *)
ReminderOverDeaf ==
  /\ wf.pc = "reminding" /\ ~Unhandled
  /\ wf' = [wf EXCEPT !.pc = "phase2", !.decision = "none",
                      !.wait = Sla - ReminderAfter]
  /\ UNCHANGED <<now, signals>>

(* The activity has returned or its attempts are used up (both end here): *)
(* a decision that came meanwhile closes the run.                         *)
ReminderOver ==
  /\ wf.pc = "reminding" /\ ~Unhandled
  /\ wf' = IF wf.decision # "none"
           THEN [wf EXCEPT !.pc = "closed", !.status = "completed", !.result = wf.decision]
           ELSE [wf EXCEPT !.pc = "phase2", !.wait = Sla - ReminderAfter]
  /\ UNCHANGED <<now, signals>>

(* A variant whose second wait has no timeout. *)
ExpiryTimerNever ==
  /\ FALSE
  /\ UNCHANGED wfVars

(* The SLA window ends with no decision. *)
ExpiryTimer ==
  /\ wf.pc = "phase2" /\ ~Unhandled /\ wf.wait = 0
  /\ wf' = [wf EXCEPT !.pc = "closed", !.status = "failed", !.result = "failed"]
  /\ UNCHANGED <<now, signals>>

-------------------------------------------------------------------------------
(* Properties *)

(* Whenever the decision arrives - before the reminder, while it is being  *)
(* sent, after it - and however often it changes before the run wakes up,  *)
(* the run returns the last decision it accepted; it fails only when it    *)
(* has accepted none.                                                      *)
ReturnsLastDecision ==
  wf.pc = "closed" =>
    LET at == {i \in DOMAIN signals : signals[i] \in Decisions}
    IN  IF at = {} THEN wf.result = "failed"
        ELSE \E i \in at : wf.result = signals[i] /\ \A j \in at : j <= i

(* The two waits add up: the run never gives up before its SLA window is   *)
(* over, whether or not the reminder took time.                            *)
NeverExpiresEarly == wf.result = "failed" => now >= Sla

(* What a workflow run returns is what it was told, or that its time is up. *)
RunReturnsTruth == ReturnsLastDecision /\ NeverExpiresEarly

(* A run that has started closes, with a decision or without. *)
RunCloses == wf.pc = "phase1" ~> wf.pc = "closed"
===============================================================================
