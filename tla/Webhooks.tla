------------------------------- MODULE Webhooks -------------------------------
(***************************************************************************)
(* Webhooks: services/webhook_service.py and routes/webhooks.py.           *)
(*                                                                         *)
(* A delivery is one call of fire_approval_webhook (a background task over *)
(* every webhook of the org that listens), of retry_webhook_delivery or of *)
(* test_webhook.  Each runs in a single transaction: the rows it flushes   *)
(* for webhook_deliveries are seen by nobody, and keep the webhook from    *)
(* being deleted (the foreign key locks its row), until it commits at the  *)
(* very end.  Beside them the owner of the endpoint rotates the secret and *)
(* a starting worker clears the secrets whose grace is over.               *)
(*                                                                         *)
(* Time is counted in units a delivery cannot outlast (three attempts of   *)
(* ten seconds and two pauses for each webhook); the grace is many hours.  *)
(***************************************************************************)
EXTENDS Integers, FiniteSets, Functions

CONSTANTS
  Hooks,        \* ids of webhooks
  Deliveries,   \* calls that deliver
  MaxAttempts,  \* _MAX_ATTEMPTS
  Grace,        \* webhook_secret_rotation_hours
  MaxSecrets,   \* bound: the secrets a webhook is given
  MaxTime       \* bound: the clock stops here

(* There are webhooks, and the grace outlasts two deliveries.               *)
ASSUME WebhookAssumption ==
  /\ Hooks # {}
  /\ MaxAttempts \in Nat \ {0}
  /\ Grace \in Nat /\ Grace > 1
  /\ MaxSecrets \in Nat
  /\ MaxTime \in Nat

NoSecret == 0

VARIABLES
  now,        \* the clock
  hook,       \* the rows of webhooks
  delivery,   \* the calls that deliver
  rows,       \* the committed rows of webhook_deliveries
  seen,       \* what the endpoints saw of each delivery: the tries, the last answer
  endpoint,   \* the secrets with which an endpoint verifies what it receives
  notice      \* the answers of rotate-secret its owner has yet to act on

webhookVars == <<now, hook, delivery, rows, seen, endpoint, notice>>

Secret == Nat
Pair == [secret : Secret, old : Secret, until : Nat]
HookRow == [live : BOOLEAN, secret : Secret, rotating : Secret, until : Nat]
Outcome == [hook : Hooks, tries : 1 .. MaxAttempts, success : BOOLEAN]
Kinds == {"event", "retry", "test"}

(* A 2xx, a 3xx, a 4xx that ends the delivery, and a 5xx, a 429 or an        *)
(* exception, after which it is tried again, as it is after a 3xx.           *)
Answers == {"ok", "redirect", "refused", "error"}
Report == [hook : Hooks, tries : 1 .. MaxAttempts, answer : Answers]
Idle == [pc |-> "idle", kind |-> "event", todo |-> {}, hook |-> CHOOSE h \in Hooks : TRUE,
         signed |-> {}, tries |-> 0, began |-> 0, read |-> [h \in {} |-> h], flushed |-> {}]

InProgress(d) == delivery[d].pc \in {"loop", "post"}
Ended == {"done", "failed", "lost"}

WebhooksTypeOK ==
  /\ now \in 0 .. MaxTime
  /\ hook \in [Hooks -> HookRow]
  /\ \A d \in Deliveries :
       /\ delivery[d].pc \in {"idle", "loop", "post"} \cup Ended
       /\ delivery[d].kind \in Kinds
       /\ delivery[d].hook \in Hooks /\ delivery[d].todo \subseteq Hooks
       /\ delivery[d].signed \subseteq Secret
       /\ delivery[d].began \in 0 .. now
       /\ delivery[d].tries \in 0 .. MaxAttempts - 1
       /\ delivery[d].flushed \subseteq Outcome
       /\ seen[d] \subseteq Report
  /\ rows \subseteq [of : Deliveries, row : Outcome]
  /\ endpoint \in [Hooks -> Pair]
  /\ notice \in [Hooks -> SUBSET Pair]

Created == [live |-> TRUE, secret |-> 1, rotating |-> NoSecret, until |-> 0]
Gone == [live |-> FALSE, secret |-> NoSecret, rotating |-> NoSecret, until |-> 0]

(* Webhooks that create_webhook made, their owners shown the secret, or that *)
(* are deleted again; deliveries to come, or lost in an earlier process.     *)
WebhooksInit ==
  /\ now = 0
  /\ hook \in [Hooks -> {Created, Gone}]
  /\ delivery \in [Deliveries -> {Idle, [Idle EXCEPT !.pc = "lost"]}]
  /\ rows = {}
  /\ seen = [d \in Deliveries |-> {}]
  /\ endpoint = [h \in Hooks |-> [secret |-> 1, old |-> NoSecret, until |-> 0]]
  /\ notice = [h \in Hooks |-> {}]

-------------------------------------------------------------------------------
(* The signatures of a delivery: the secret, and the one before it while    *)
(* its grace lasts (build_signature_headers, _rotation_active), both as the *)
(* row was when the delivery read it.                                       *)
RotationActive(row) == row.rotating # NoSecret /\ row.until > now

Signatures(row) ==
  {row.secret} \cup (IF RotationActive(row) THEN {row.rotating} ELSE {})

(* What verify_webhook_signature accepts at an endpoint now. *)
Accepts(h) ==
  {endpoint[h].secret} \cup
  (IF endpoint[h].old # NoSecret /\ endpoint[h].until > now THEN {endpoint[h].old} ELSE {})

Verifies(h, signatures) == signatures \cap Accepts(h) # {}

(* A delivery begins: the rows of the webhooks it is for are read at once. *)
Begin(d, kind, targets) ==
  /\ delivery[d].pc = "idle"
  /\ delivery' = [delivery EXCEPT ![d] =
       [Idle EXCEPT !.pc = "loop", !.kind = kind, !.todo = targets, !.began = now,
                    !.read = Restrict(hook, targets)]]
  /\ UNCHANGED <<now, hook, rows, seen, endpoint, notice>>

Live == {h \in Hooks : hook[h].live}

(* fire_approval_webhook, for the webhooks that are active and subscribed to *)
(* the event: any of the live ones, for update_webhook changes both at will. *)
(* It returns at once if there is none.                                      *)
Fire(d) == \E listening \in SUBSET Live \ {{}} : Begin(d, "event", listening)

(* retry_webhook_delivery: of any recorded delivery, failed or not. *)
Retry(d) ==
  \E r \in rows : Begin(d, "retry", {r.row.hook})

TestWebhook(d) == \E h \in Live : Begin(d, "test", {h})

Move(d, new) ==
  /\ delivery' = [delivery EXCEPT ![d] = new]
  /\ UNCHANGED <<now, hook, rows, endpoint, notice>>

(* The transaction is rolled back: nothing the delivery flushed remains, but *)
(* the endpoints have seen what they have seen.                              *)
RolledBack(d, end) == Move(d, [Idle EXCEPT !.pc = end]) /\ UNCHANGED seen

(* The next webhook: its headers are built, once for all the attempts, and *)
(* the row is flushed; the foreign key refuses it once the webhook is gone, *)
(* and the exception rolls back what the delivery had flushed before.       *)
Flush(d) ==
  /\ delivery[d].pc = "loop"
  /\ \E h \in delivery[d].todo :
       IF hook[h].live
       THEN /\ Move(d, [delivery[d] EXCEPT !.pc = "post", !.hook = h,
                          !.signed = Signatures(delivery[d].read[h])])
            /\ UNCHANGED seen
       ELSE RolledBack(d, "failed")

AttemptsAndOneMore(kind) == IF kind = "test" THEN 1 ELSE MaxAttempts + 1

(* test_webhook makes a single attempt. *)
Attempts(kind) == IF kind = "test" THEN 1 ELSE MaxAttempts

RecordAndRepeat(d, outcome) ==
  Move(d, [delivery[d] EXCEPT !.pc = "loop", !.signed = {}, !.tries = 0])

(* The delivery to one webhook is over: its row takes the outcome. *)
Record(d, outcome) ==
  LET left == delivery[d].todo \ {delivery[d].hook}
  IN  Move(d, [delivery[d] EXCEPT !.pc = "loop", !.todo = left, !.hook = Idle.hook,
                 !.read = Restrict(@, left), !.signed = {}, !.tries = 0,
                 !.flushed = @ \cup {outcome}])

(* What counts as a success: a 2xx (_deliver_with_retry), but any status     *)
(* below 400 to test_webhook.                                                *)
Success(kind, answer) == answer = "ok" \/ (kind = "test" /\ answer = "redirect")

(* The row that the last attempt of a delivery leaves. *)
RowOf(kind, report) ==
  [hook |-> report.hook, tries |-> report.tries, success |-> Success(kind, report.answer)]

(* One attempt (_deliver_with_retry, or the only one of test_webhook). *)
Post(d) ==
  /\ delivery[d].pc = "post"
  /\ \E answer \in Answers :
       LET h == delivery[d].hook
           tries == delivery[d].tries + 1
           report == [hook |-> h, tries |-> tries, answer |-> answer]
           last == answer \in {"ok", "refused"} \/ tries = Attempts(delivery[d].kind)
       IN  /\ answer = "ok" => Verifies(h, delivery[d].signed)
           /\ seen' = [seen EXCEPT ![d] = {s \in @ : s.hook # h} \cup {report}]
           /\ IF last THEN Record(d, RowOf(delivery[d].kind, report))
                      ELSE Move(d, [delivery[d] EXCEPT !.tries = tries])

(* The only commit, after the last webhook. *)
Commit(d) ==
  /\ delivery[d].pc = "loop" /\ delivery[d].todo = {}
  /\ delivery' = [delivery EXCEPT ![d] = [Idle EXCEPT !.pc = "done", !.kind = delivery[d].kind]]
  /\ rows' = rows \cup {[of |-> d, row |-> o] : o \in delivery[d].flushed}
  /\ UNCHANGED <<now, hook, seen, endpoint, notice>>

(* The worker is stopped or dies, or the database fails. *)
Lose(d) ==
  /\ InProgress(d)
  /\ RolledBack(d, "lost")

-------------------------------------------------------------------------------
RotatedInWrongOrder(row, read) ==
  [row EXCEPT !.secret = row.secret + 1, !.rotating = row.secret + 1, !.until = now + Grace]

(* What rotate_webhook_secret makes of a row of which it has read a secret. *)
Rotated(row, read) ==
  [row EXCEPT !.rotating = read, !.until = now + Grace, !.secret = row.secret + 1]

(* rotate_webhook_secret, at any time: whether or not a rotation is under   *)
(* way.  It reads the row without a lock, so that others may have rotated   *)
(* the secret that it keeps as the old one.                                 *)
Rotate(h) ==
  /\ hook[h].live /\ hook[h].secret < MaxSecrets
  /\ \E read \in 1 .. hook[h].secret :
       /\ hook' = [hook EXCEPT ![h] = Rotated(@, read)]
       /\ notice' = [notice EXCEPT ![h] =
            @ \cup {[secret |-> hook[h].secret + 1, old |-> read, until |-> now + Grace]}]
  /\ UNCHANGED <<now, delivery, rows, seen, endpoint>>

(* The owner gives the endpoint the secret of an answer, and does not go    *)
(* back to an earlier one (external).                                       *)
Adopt(h) ==
  /\ \E answer \in notice[h] :
       /\ endpoint' = [endpoint EXCEPT ![h] = answer]
       /\ notice' = [notice EXCEPT ![h] = {a \in @ : a.secret > answer.secret}]
  /\ UNCHANGED <<now, hook, delivery, rows, seen>>

(* clear_expired_rotating_secrets, when a worker starts. *)
Expired(row) == row.rotating # NoSecret /\ row.until <= now

ClearExpired ==
  /\ hook' = [h \in Hooks |-> IF Expired(hook[h])
                THEN [hook[h] EXCEPT !.rotating = NoSecret, !.until = 0]
                ELSE hook[h]]
  /\ UNCHANGED <<now, delivery, rows, seen, endpoint, notice>>

NeverLocked(h) == FALSE

(* An uncommitted row of webhook_deliveries holds the row of its webhook. *)
Locked(h) ==
  \E d \in Deliveries : \/ delivery[d].pc = "post" /\ delivery[d].hook = h
                        \/ \E o \in delivery[d].flushed : o.hook = h

(* delete_webhook: waits for those rows; the recorded ones go with it. *)
Delete(h) ==
  /\ hook[h].live /\ ~Locked(h)
  /\ hook' = [hook EXCEPT ![h] = Gone]
  /\ rows' = {r \in rows : r.row.hook # h}
  /\ notice' = [notice EXCEPT ![h] = {}]
  /\ UNCHANGED <<now, delivery, seen, endpoint>>

(* A delivery lasts less than a unit of time, so that it sees one tick at   *)
(* most; an owner acts on an answer before the time it names ("Update your  *)
(* endpoint before").                                                       *)
Tick ==
  /\ now < MaxTime
  /\ \A d \in Deliveries : InProgress(d) => delivery[d].began = now
  /\ \A h \in Hooks : \A answer \in notice[h] : now + 1 < answer.until
  /\ now' = now + 1
  /\ UNCHANGED <<hook, delivery, rows, seen, endpoint, notice>>

DeliveryStep(d) == Flush(d) \/ Post(d) \/ Commit(d)

WebhooksNext ==
  \/ \E d \in Deliveries : Fire(d) \/ Retry(d) \/ TestWebhook(d) \/ DeliveryStep(d) \/ Lose(d)
  \/ \E h \in Hooks : Rotate(h) \/ Adopt(h) \/ Delete(h)
  \/ ClearExpired
  \/ Tick

WebhooksSpec == WebhooksInit /\ [][WebhooksNext]_webhookVars

(* httpx bounds every attempt by a timeout, so that a delivery goes on. *)
WebhooksFairness == \A d \in Deliveries : WF_webhookVars(DeliveryStep(d))

-------------------------------------------------------------------------------
(* One rotation at most lies between the row that delivery d read of webhook *)
(* h and what the endpoint knows: they have the same secret, the row has one *)
(* of which the owner was told that it replaces the endpoint's, or the       *)
(* endpoint has the one that was said to replace the row's.                  *)
OneRotationApart(d, h) ==
  LET secret == delivery[d].read[h].secret
  IN  \/ secret \in {endpoint[h].secret, endpoint[h].old}
      \/ \E answer \in notice[h] : answer.secret = secret /\ answer.old = endpoint[h].secret

(* "Old signature accepted for N hours" (rotate_webhook_secret): an endpoint *)
(* one rotation away from the row that a delivery read can verify each of    *)
(* its attempts, whichever side of the rotation, or of the end of its grace, *)
(* the headers were built on, and whatever other rotations, concurrent or    *)
(* not, begin meanwhile.  The row has room for one old secret: after another *)
(* rotation within the hours promised for the first, what the endpoint has   *)
(* is two rotations behind, and the promise does not hold.                   *)
EveryPostVerifies ==
  \A d \in Deliveries :
    delivery[d].pc = "post" /\ OneRotationApart(d, delivery[d].hook) =>
      Verifies(delivery[d].hook, delivery[d].signed)

(* A delivery that has ended well left, for every webhook not deleted since, *)
(* one row that says what the endpoint saw: the number of attempts, and      *)
(* success exactly if it answered 2xx, or below 400 to a test.  Any other    *)
(* delivery left no row, whatever the endpoints saw of it: "Every delivery   *)
(* attempt is recorded" (webhook_service.py) fails when the process or the   *)
(* database does, or when a webhook of the event is deleted before its turn, *)
(* and only then.                                                            *)
RowsTellTheTruth ==
  \A d \in Deliveries :
    /\ {r.row : r \in {r \in rows : r.of = d}} =
         IF delivery[d].pc = "done"
         THEN {RowOf(delivery[d].kind, s) : s \in {s \in seen[d] : hook[s.hook].live}}
         ELSE {}
    /\ delivery[d].pc = "failed" =>
         \E h \in Hooks : ~hook[h].live /\ \A s \in seen[d] : s.hook # h

(* Every delivery ends: the retries are bounded, and neither a rotation nor  *)
(* a deletion under way can hold it up.                                      *)
DeliveriesEnd == []<>(\A d \in Deliveries : ~InProgress(d))
===============================================================================
