------------------------------- MODULE Approval -------------------------------
(***************************************************************************)
(* One approval request: its row, the requests that act on it concurrently *)
(* (routes/approvals.py, routes/slack.py), the evaluation that creates it  *)
(* (services/approval_service.py), the reminder activity                   *)
(* (workers/activities.py), and its Temporal workflow (ApprovalWorkflow).  *)
(*                                                                         *)
(* Every request is one database transaction.  SELECT ... FOR UPDATE waits *)
(* for the row lock and returns the committed row; a plain SELECT returns  *)
(* it at once, and the UPDATE of a later flush waits for the lock instead. *)
(* An UPDATE writes the columns the request has changed, and no other: see *)
(* Merge.  Signals reach Temporal before the commit.  Background tasks run *)
(* after it, and are lost if the process dies.                             *)
(*                                                                         *)
(* A request that is refused (404, 409, 410, 429, a superseded or expired  *)
(* link, another Slack user) changes nothing: it is a request that does    *)
(* not begin.                                                              *)
(***************************************************************************)
EXTENDS ApprovalWorkflow

CONSTANTS
  Creator,          \* the evaluation that creates the request
  Deciders,         \* requests to decide, approve, reject, or from Slack
  Clickers,         \* submissions of an e-mail link
  Escalators,       \* requests to escalate
  Viewers,          \* requests to read
  Approvers,        \* e-mail addresses
  Steppers,         \* those an approver step may be added for
  FirstApprover,    \* approver_email of the evaluation
  Extension,        \* escalation_extension_hours, in ticks
  MaxSla,           \* max_sla_hours, in ticks
  TokenLife,        \* _TOKEN_EXPIRY, in ticks
  StartModes        \* the outcomes of start_approval_workflow that occur

Attempts == 1..MaxAttempts      \* the attempts of the reminder activity

Txns == {Creator} \cup Deciders \cup Clickers \cup Escalators \cup Viewers \cup Attempts

StartOutcomes ==
  {"none", "db_only_temporal_unavailable", "db_only_start_failed", "db_only_circuit_open"}

ASSUME ApprovalAssumption ==
  /\ FirstApprover \in Approvers /\ Steppers \subseteq Approvers
  /\ Extension \in Nat /\ MaxSla \in Nat /\ TokenLife \in Nat
  /\ StartModes \subseteq StartOutcomes
  /\ Creator \notin Deciders \cup Clickers \cup Escalators \cup Viewers \cup Attempts
  /\ (Deciders \cup Clickers \cup Escalators \cup Viewers) \cap Attempts = {}

(* The CHECK constraint on workflow_fallback_mode. *)
FallbackModes ==
  {"none", "db_only_temporal_unavailable", "db_only_start_failed",
   "signal_retry_exhausted", "timeout_enforced"}

(* The columns of approval_requests that change. *)
Row ==
  [status : Decisions \cup {"absent", "pending"},
   workflow : {"running", "completed", "failed", "escalated"},  \* workflow_status
   fallback : FallbackModes,                      \* workflow_fallback_mode
   run : BOOLEAN,                                 \* temporal_run_id is set
   approver : Approvers,                          \* approver_email
   version : Nat,                                 \* token_version
   expires : Nat,                                 \* expires_at
   reminded : BOOLEAN]                            \* reminder_sent_at is set

NoRow ==
  [status |-> "absent", workflow |-> "running", fallback |-> "none", run |-> FALSE,
   approver |-> FirstApprover, version |-> 0, expires |-> 0, reminded |-> FALSE]

(* The audit events of the request.  A decision by a link or in Slack is    *)
(* that of an e-mail address.                                               *)
Event ==
  [type : Decisions \cup {"requested", "escalated", "reminded", "none"},
   via : {"api", "slack", "link", "none"},
   by : Approvers \cup {"caller"}]

NoEvent == [type |-> "none", via |-> "none", by |-> "caller"]

(***************************************************************************)
(* A transaction is "flushing" when it has read the row without its lock   *)
(* and waits to write it, "flushed" when its changes are flushed and it    *)
(* has Temporal or the approver to call, "ready" when it has to append its *)
(* audit event and commit, "committed" when its background tasks are left. *)
(***************************************************************************)
TxnRecord ==
  [pc : {"idle", "flushing", "flushed", "ready", "committed", "done", "refused"},
   snap : Row,       \* the row as the transaction read it
   draft : Row,      \* the row as the transaction has changed it
   event : Event]    \* the event it appends

Link == [to : Approvers, ver : Nat, until : Nat]

VARIABLES
  row,         \* the committed row
  txn,         \* txn[r]: the transaction of request r
  events,      \* the committed audit events of the request, in order
  links,       \* the e-mail links that have been sent
  webhooks,    \* the decisions sent to the webhooks
  reminders,   \* the number of reminders dispatched
  step         \* step[a]: the approver step of a, see CheckStep

rowVars == <<row, txn, events, links, webhooks, reminders, step>>
vars == <<now, wf, signals, row, txn, events, links, webhooks, reminders, step>>

TypeOK ==
  /\ WfTypeOK
  /\ row \in Row
  /\ txn \in [Txns -> TxnRecord]
  /\ events \in Seq(Event)
  /\ links \subseteq Link
  /\ webhooks \in Seq(Decisions)
  /\ reminders \in Nat
  /\ step \in [Approvers -> {"none", "checked", "pending"}]

Init ==
  /\ WfInit
  /\ row = NoRow
  /\ txn = [r \in Txns |-> [pc |-> "idle", snap |-> NoRow, draft |-> NoRow, event |-> NoEvent]]
  /\ events = << >>
  /\ links = {}
  /\ webhooks = << >>
  /\ reminders = 0
  /\ step = [a \in Approvers |-> "none"]

-------------------------------------------------------------------------------
(* A variant whose transaction lasts until its background tasks are over. *)
HoldsPastCommit(r) == txn[r].pc \in {"flushed", "ready", "committed"}

(* The row lock, from the flush or the SELECT FOR UPDATE to the end.       *)
Holds(r) == txn[r].pc \in {"flushed", "ready"}

LockFree == \A r \in Txns \ {Creator} : ~Holds(r)

(* What an UPDATE leaves: the columns that differ from what was read.      *)
Merge(current, snap, draft) ==
  [c \in DOMAIN current |-> IF draft[c] # snap[c] THEN draft[c] ELSE current[c]]

(* Request r has read the row and changed it to draft. *)
Change(r, pc, draft, event) ==
  txn' = [txn EXCEPT ![r] = [pc |-> pc, snap |-> row, draft |-> draft, event |-> event]]

SetPc(r, pc) == txn' = [txn EXCEPT ![r].pc = pc]

Ended == [pc |-> "done", snap |-> NoRow, draft |-> NoRow, event |-> NoEvent]

End(r) == txn' = [txn EXCEPT ![r] = Ended]

-------------------------------------------------------------------------------
(* A variant of the constraint that admits every mode. *)
AcceptsAny(mode) == mode \in StartOutcomes

(* The CHECK constraint, on the mode start_approval_workflow returns. *)
Accepts(mode) == mode \in FallbackModes

(* create_approval_request, in the transaction of an evaluation.  When     *)
(* start_workflow raises, the run may have started all the same.           *)
CreateRequest(mode) ==
  /\ txn[Creator].pc = "idle" /\ now = 0
  /\ IF mode = "none" THEN StartWorkflow
     ELSE \/ UNCHANGED <<wf, signals>>
          \/ mode = "db_only_start_failed" /\ StartWorkflow
  /\ IF Accepts(mode)
     THEN Change(Creator, "ready",
                 [NoRow EXCEPT !.status = "pending", !.fallback = mode,
                               !.run = (mode = "none"), !.expires = Sla],
                 [type |-> "requested", via |-> "api", by |-> "caller"])
     ELSE SetPc(Creator, "refused")      \* the flush violates the constraint
  /\ UNCHANGED <<now, row, events, links, webhooks, reminders, step>>

(* A decision, under the row lock: _load_pending and _apply_decision up to *)
(* their flush, and the same lines of the e-mail and Slack handlers.       *)
DecideUnlocked(r, d, via, by) ==
  /\ txn[r].pc = "idle"
  /\ row.status = "pending" /\ now <= row.expires
  /\ Change(r, "flushing",
            [row EXCEPT !.status = d, !.workflow = "completed"],
            [type |-> d, via |-> via, by |-> by])
  /\ UNCHANGED <<now, wf, signals, row, events, links, webhooks, reminders, step>>

Decide(r, d, via, by) ==
  /\ txn[r].pc = "idle" /\ LockFree
  /\ row.status = "pending" /\ now <= row.expires
  /\ Change(r, IF row.run THEN "flushed" ELSE "ready",
            [row EXCEPT !.status = d, !.workflow = "completed"],
            [type |-> d, via |-> via, by |-> by])
  /\ UNCHANGED <<now, wf, signals, row, events, links, webhooks, reminders, step>>

(* POST /approvals/{id}/decide, /approve and /reject. *)
DecideByApi(r, d) == Decide(r, d, "api", "caller")

(* The button of a Slack message, pressed by the approver. *)
DecideInSlack(r, d) == Decide(r, d, "slack", row.approver)

(* POST /approvals/decide with the token of an e-mail link. *)
ClickLink(r, d) ==
  \E l \in links :
    /\ l.ver = row.version /\ now <= l.until
    /\ Decide(r, d, "link", l.to)

(* escalate_approval up to its flush: the row is read without its lock. *)
BeginEscalate(r, a) ==
  /\ txn[r].pc = "idle"
  /\ row.status = "pending"
  /\ Change(r, "flushing",
            [row EXCEPT !.approver = a, !.version = @ + 1, !.workflow = "escalated",
                        !.expires = IF now + Extension < MaxSla THEN now + Extension ELSE MaxSla],
            [type |-> "escalated", via |-> "api", by |-> "caller"])
  /\ UNCHANGED <<now, wf, signals, row, events, links, webhooks, reminders, step>>

(* _refresh_workflow_state *)
Refreshed(rw) ==
  IF rw.status \in Decisions /\ rw.workflow # "completed"
  THEN [rw EXCEPT !.workflow = "completed"]
  ELSE IF /\ rw.status = "pending" /\ now > rw.expires
          /\ rw.workflow \in {"running", "escalated"}
  THEN [rw EXCEPT !.workflow = "failed",
                  !.fallback = IF @ = "none" THEN "timeout_enforced" ELSE @]
  ELSE rw

(* get_approval and list_approvals, where they change something. *)
BeginView(r) ==
  /\ txn[r].pc = "idle"
  /\ Refreshed(row) # row
  /\ Change(r, "flushing", Refreshed(row), NoEvent)
  /\ UNCHANGED <<now, wf, signals, row, events, links, webhooks, reminders, step>>

(* The UPDATE of a request that has read without the lock gets it. *)
Flush(r) ==
  /\ txn[r].pc = "flushing" /\ LockFree
  /\ SetPc(r, IF txn[r].event # NoEvent /\ txn[r].snap.run THEN "flushed" ELSE "ready")
  /\ UNCHANGED <<now, wf, signals, row, events, links, webhooks, reminders, step>>

(* _signal_workflow, for a decision or an escalation. *)
SignalOf(r) ==
  IF txn[r].event.type \in Decisions THEN txn[r].event.type ELSE "escalate"

SignalDelivered(r) ==
  /\ txn[r].pc = "flushed" /\ r \notin Attempts
  /\ AcceptSignal(SignalOf(r))
  /\ SetPc(r, "ready")
  /\ UNCHANGED <<now, row, events, links, webhooks, reminders, step>>

(* A variant that does not record that the signal was not delivered. *)
SignalFailedSilently(r) ==
  /\ txn[r].pc = "flushed" /\ r \notin Attempts
  /\ SetPc(r, "ready")
  /\ UNCHANGED <<now, wf, signals, row, events, links, webhooks, reminders, step>>

(* All attempts raised, the run is closed, the circuit is open or there is *)
(* no client.  An attempt whose answer was lost has reached the run.       *)
SignalFailed(r) ==
  /\ txn[r].pc = "flushed" /\ r \notin Attempts
  /\ AcceptSignal(SignalOf(r)) \/ UNCHANGED <<wf, signals>>
  /\ txn' = [txn EXCEPT ![r].pc = "ready",
                        ![r].draft.fallback = "signal_retry_exhausted"]
  /\ UNCHANGED <<now, row, events, links, webhooks, reminders, step>>

(* A variant that writes every column, changed or not. *)
CommitWholeRow(r) ==
  /\ txn[r].pc = "ready"
  /\ row' = txn[r].draft
  /\ events' = IF txn[r].event = NoEvent THEN events ELSE Append(events, txn[r].event)
  /\ IF txn[r].event = NoEvent THEN End(r) ELSE SetPc(r, "committed")
  /\ UNCHANGED <<now, wf, signals, links, webhooks, reminders, step>>

(* create_audit_event, then the commit of get_session or of the activity.  *)
Commit(r) ==
  /\ txn[r].pc = "ready"
  /\ row' = Merge(row, txn[r].snap, txn[r].draft)
  /\ events' = IF txn[r].event = NoEvent THEN events ELSE Append(events, txn[r].event)
  /\ IF txn[r].event = NoEvent THEN End(r) ELSE SetPc(r, "committed")
  /\ UNCHANGED <<now, wf, signals, links, webhooks, reminders, step>>

(* An exception, a lost connection or the end of the process. *)
Rollback(r) ==
  /\ txn[r].pc \in {"flushing", "flushed", "ready"}
  /\ End(r)
  /\ UNCHANGED <<now, wf, signals, row, events, links, webhooks, reminders, step>>

(* The background task of a decision: fire_approval_webhook. *)
Announce(r) ==
  /\ txn[r].pc = "committed" /\ txn[r].event.type \in Decisions
  /\ webhooks' = Append(webhooks, txn[r].event.type)
  /\ End(r)
  /\ UNCHANGED <<now, wf, signals, row, events, links, reminders, step>>

(* send_approval_email with the row as transaction r has it. *)
Mail(r) ==
  links' = links \cup
    {[to |-> txn[r].draft.approver, ver |-> txn[r].draft.version, until |-> now + TokenLife]}

(* The background task of a creation or an escalation. *)
SendMail(r) ==
  /\ txn[r].pc = "committed" /\ txn[r].event.type \in {"requested", "escalated"}
  /\ Mail(r)
  /\ End(r)
  /\ UNCHANGED <<now, wf, signals, row, events, webhooks, reminders, step>>

(* The process ends between the commit and the background task. *)
LoseTasks(r) ==
  /\ txn[r].pc = "committed" /\ r \notin Attempts
  /\ End(r)
  /\ UNCHANGED <<now, wf, signals, row, events, links, webhooks, reminders, step>>

-------------------------------------------------------------------------------
(* The reminder activity, attempt k.                                       *)

CurrentAttempt(k) == wf.pc = "reminding" /\ wf.attempt = k

(* A variant without the guard on reminder_sent_at. *)
BeginReminderAgain(k) ==
  /\ CurrentAttempt(k) /\ txn[k].pc = "idle" /\ LockFree
  /\ row.status = "pending"
  /\ Change(k, "flushed", [row EXCEPT !.reminded = TRUE],
            [type |-> "reminded", via |-> "none", by |-> "caller"])
  /\ UNCHANGED <<now, wf, signals, row, events, links, webhooks, reminders, step>>

(* _dispatch_reminder up to its flush. *)
BeginReminder(k) ==
  /\ CurrentAttempt(k) /\ txn[k].pc = "idle" /\ LockFree
  /\ row.status = "pending" /\ ~row.reminded
  /\ Change(k, "flushed", [row EXCEPT !.reminded = TRUE],
            [type |-> "reminded", via |-> "none", by |-> "caller"])
  /\ UNCHANGED <<now, wf, signals, row, events, links, webhooks, reminders, step>>

(* The e-mail and the Slack message; the e-mail may fail, and is not sent again. *)
DispatchReminder(k) ==
  /\ txn[k].pc = "flushed"
  /\ Mail(k) \/ UNCHANGED links
  /\ reminders' = reminders + 1
  /\ SetPc(k, "ready")
  /\ UNCHANGED <<now, wf, signals, row, events, webhooks, step>>

(* The attempt returns, having committed, or with nothing to do (missing,  *)
(* not_pending, already_sent).  Its result counts if it was not given up.  *)
ReminderReturns(k) ==
  /\ \/ txn[k].pc = "committed"
     \/ /\ txn[k].pc = "idle" /\ CurrentAttempt(k) /\ LockFree
        /\ (row.status # "pending" \/ row.reminded)
  /\ End(k)
  /\ IF CurrentAttempt(k) THEN ReminderOver ELSE UNCHANGED wfVars
  /\ UNCHANGED <<row, events, links, webhooks, reminders, step>>

(* The current attempt has failed or takes longer than _REMINDER_TIMEOUT:  *)
(* the next one starts, while it may still be running.                     *)
GiveUpAttempt ==
  /\ \/ RetryReminder
     \/ wf.attempt = MaxAttempts /\ ReminderOver
  /\ UNCHANGED rowVars

-------------------------------------------------------------------------------
(* add_approval_step reads the status without the lock; its INSERT refers  *)
(* to the request, and waits for the row lock.                             *)

CheckStep(a) ==
  /\ step[a] = "none" /\ row.status = "pending"
  /\ step' = [step EXCEPT ![a] = "checked"]
  /\ UNCHANGED <<now, wf, signals, row, txn, events, links, webhooks, reminders>>

InsertStep(a) ==
  /\ step[a] = "checked" /\ LockFree
  /\ step' = [step EXCEPT ![a] = "pending"]
  /\ UNCHANGED <<now, wf, signals, row, txn, events, links, webhooks, reminders>>

-------------------------------------------------------------------------------
DecisionRequest ==
  \E d \in Decisions :
    \/ \E r \in Deciders : DecideByApi(r, d) \/ DecideInSlack(r, d)
    \/ \E r \in Clickers : ClickLink(r, d)

Temporal == HandleSignals \/ ReminderTimer \/ ExpiryTimer \/ Tick

Next ==
  \/ \E mode \in StartModes : CreateRequest(mode)
  \/ DecisionRequest
  \/ \E r \in Escalators, a \in Approvers : BeginEscalate(r, a)
  \/ \E r \in Viewers : BeginView(r)
  \/ \E r \in Txns :
       \/ Flush(r)
       \/ SignalDelivered(r)
       \/ SignalFailed(r)
       \/ Commit(r)
       \/ Rollback(r)
       \/ Announce(r)
       \/ SendMail(r)
       \/ LoseTasks(r)
  \/ \E k \in Attempts :
       \/ BeginReminder(k)
       \/ DispatchReminder(k)
       \/ ReminderReturns(k)
  \/ GiveUpAttempt
  \/ Temporal /\ UNCHANGED rowVars
  \/ \E a \in Steppers : CheckStep(a) \/ InsertStep(a)

Spec == Init /\ [][Next]_vars

(***************************************************************************)
(* Temporal runs what is due and its workers answer or are given up; a     *)
(* handler that has begun goes on; a lock that is free is granted (every   *)
(* request waits for it once).  Nobody has to send a request.              *)
(***************************************************************************)
Proceed(r) ==
  Flush(r) \/ SignalDelivered(r) \/ SignalFailed(r) \/ Commit(r) \/ (r \in Attempts /\ DispatchReminder(r))

Fairness ==
  /\ WF_vars(HandleSignals /\ UNCHANGED rowVars)
  /\ WF_vars(ReminderTimer /\ UNCHANGED rowVars)
  /\ WF_vars(ExpiryTimer /\ UNCHANGED rowVars)
  /\ WF_vars(Tick /\ UNCHANGED rowVars)
  /\ WF_vars(GiveUpAttempt)
  /\ \A r \in Txns : WF_vars(Proceed(r))

FairSpec == Spec /\ Fairness

-------------------------------------------------------------------------------
(* Properties *)

Decided == row.status \in Decisions

DecisionEvents == {i \in DOMAIN events : events[i].type \in Decisions}

(* The approval flow keeps what ApprovalDecision promises, whatever the    *)
(* requests, escalations, readers, reminders and rollbacks that interleave: *)
(* the row is decided once, with its audit event, and only that decision   *)
(* is announced, once.                                                     *)
Promise == INSTANCE ApprovalDecision WITH
  Verdicts <- Decisions,
  status <- row.status,
  recorded <- IF DecisionEvents = {} THEN "none"
              ELSE events[CHOOSE i \in DecisionEvents : \A j \in DecisionEvents : i <= j].type,
  announced <- IF webhooks = << >> THEN "none" ELSE webhooks[1]

KeepsPromise == Promise!Spec

(* One decision per request, in the audit log and on the webhooks.         *)
OneDecision ==
  /\ Decided <=> DecisionEvents # {}
  /\ \A i, j \in DecisionEvents : i = j
  /\ \A i \in DecisionEvents : events[i].type = row.status
  /\ Len(webhooks) <= 1
  /\ \A i \in DOMAIN webhooks : webhooks[i] = row.status

(* Row and workflow may disagree - a signal is sent before the commit, or  *)
(* is not delivered - but never silently: where the workflow of a decided  *)
(* request has returned something else, workflow_fallback_mode says so.    *)
DivergenceFlagged ==
  Decided /\ row.run /\ wf.pc = "closed" /\ wf.result # row.status => row.fallback # "none"

(* The reminder is recorded at most once, whatever is retried, although a  *)
(* new attempt may start while one that was given up is still running.     *)
OneReminderEvent ==
  LET reminded == {i \in DOMAIN events : events[i].type = "reminded"}
  IN  (row.reminded <=> reminded # {}) /\ \A i, j \in reminded : i = j

(* A decision whose signal was delivered reaches the workflow: it returns  *)
(* that decision, unless the row is flagged.                               *)
DecisionReachesRun ==
  \A d \in Decisions :
    row.status = d /\ row.run ~> wf.result = d \/ row.fallback # "none"

(* Nobody waits for the row for ever: a request that has read without the  *)
(* lock gets it.                                                           *)
RequestsEnd == \A r \in Txns : txn[r].pc = "flushing" ~> txn[r].pc \in {"committed", "done"}

(* Neither a workflow run nor a request goes on for ever.                  *)
ApprovalEnds == RunCloses /\ RequestsEnd

-------------------------------------------------------------------------------
(* What the documentation says and the code does not keep *)

(* escalate_approval: old e-mail links sent to the previous approver are   *)
(* invalidated, so that a decision by link is that of the current approver.*)
LinkIsCurrentApprovers ==
  [][Len(events') > Len(events) /\ events'[Len(events')].via = "link"
       => events'[Len(events')].by = row.approver]_vars

(* approval_service.py: Temporal is optional, without it the approval is   *)
(* tracked by its row: an approval is never refused for want of Temporal.  *)
CreationNeedsNoTemporal == txn[Creator].pc # "refused"
===============================================================================
