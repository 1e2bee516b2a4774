---------------------------- MODULE Webhooks_proofs ----------------------------
(***************************************************************************)
(* Proofs about webhooks, for any webhooks and deliveries and any grace of *)
(* more than one unit of time.                                             *)
(*                                                                         *)
(* The inductive invariant relates what each delivery under way has read   *)
(* of a webhook to what the endpoint knows now and to the answers its      *)
(* owner has yet to act on (Known), which takes that the row, the answers  *)
(* and the endpoint agree (Informed) and that a delivery sees one tick at  *)
(* most (Timely); and what it has flushed to what the endpoints saw        *)
(* (Witnessed), which takes that the flushed rows hold their webhooks      *)
(* (Held).  The rows committed are then those of the deliveries that ended *)
(* well (Committed).                                                       *)
(***************************************************************************)
EXTENDS Webhooks, TLAPS

(* What a delivery has read of the webhooks it is for, and the state of a   *)
(* call: a test is never tried again.                                       *)
Readings == UNION {[S -> HookRow] : S \in SUBSET Hooks}

Calls == {call \in
  [pc : {"idle", "loop", "post"} \cup Ended, kind : Kinds, todo : SUBSET Hooks, hook : Hooks,
   signed : SUBSET Secret, tries : 0 .. MaxAttempts - 1, began : Nat, read : Readings,
   flushed : SUBSET Outcome] : call.kind = "test" => call.tries = 0}

Shaped ==
  /\ now \in 0 .. MaxTime
  /\ hook \in [Hooks -> HookRow]
  /\ delivery \in [Deliveries -> Calls]
  /\ rows \subseteq [of : Deliveries, row : Outcome]
  /\ seen \in [Deliveries -> SUBSET Report]
  /\ endpoint \in [Hooks -> Pair]
  /\ notice \in [Hooks -> SUBSET Pair]

(* A delivery under way has read the rows of the webhooks left to it, one   *)
(* of which it attends to, and sees the end of one unit of time at most.    *)
Timely ==
  \A d \in Deliveries :
    /\ delivery[d].began <= now
    /\ InProgress(d) => now <= delivery[d].began + 1
    /\ delivery[d].read \in [delivery[d].todo -> HookRow]
    /\ delivery[d].pc = "post" =>
         /\ delivery[d].hook \in delivery[d].todo
         /\ delivery[d].read[delivery[d].hook].secret \in delivery[d].signed

(* An answer that the owner of h has yet to act on says what the row does. *)
Says(h, row) ==
  \E a \in notice[h] : a.secret = row.secret /\ a.old = row.rotating /\ a.until = row.until

(* The answers that an owner has yet to act on are later than the one the    *)
(* endpoint has, each of a secret of its own, and their grace lasts; the     *)
(* last of them is what the row says, unless the endpoint has its secret.    *)
Informed ==
  \A h \in Hooks :
    /\ endpoint[h].secret > endpoint[h].old
    /\ \A a \in notice[h] :
         /\ hook[h].live
         /\ a.secret > endpoint[h].secret /\ a.secret <= hook[h].secret
         /\ a.secret > a.old /\ a.old # NoSecret /\ a.until > now
         /\ \A b \in notice[h] : a.secret = b.secret => a = b
    /\ hook[h].live =>
         /\ endpoint[h].secret <= hook[h].secret
         /\ endpoint[h].secret < hook[h].secret => Says(h, hook[h])

(* What delivery d read of webhook h, beside what the endpoint knows: a      *)
(* secret that the endpoint has yet to be told comes with its answer, and    *)
(* with a signature by the one before it; and a secret that replaces the one *)
(* it read lets the endpoint keep that long enough.                          *)
KnownOf(d, h) ==
  /\ delivery[d].read[h].secret # NoSecret
  /\ delivery[d].read[h].secret > endpoint[h].secret => Says(h, delivery[d].read[h])
  /\ \A a \in notice[h] \cup {endpoint[h]} :
       a.secret > delivery[d].read[h].secret => a.until > delivery[d].began + 1
  /\ delivery[d].pc = "post" /\ delivery[d].hook = h
     /\ delivery[d].read[h].secret > endpoint[h].secret =>
       delivery[d].read[h].rotating \in delivery[d].signed

Known ==
  \A d \in Deliveries : InProgress(d) =>
    \A h \in delivery[d].todo : hook[h].live => KnownOf(d, h)

(* The rows that a delivery has flushed hold their webhooks. *)
Held ==
  \A d \in Deliveries :
    /\ delivery[d].pc = "post" => hook[delivery[d].hook].live
    /\ \A o \in delivery[d].flushed : hook[o.hook].live /\ o.hook \notin delivery[d].todo

(* What a delivery has flushed is what the endpoints saw, but for the one it *)
(* is posting to; one that failed had come to a webhook that was gone.       *)
Witnessed ==
  \A d \in Deliveries :
    /\ delivery[d].pc \notin {"loop", "post"} => delivery[d].flushed = {}
    /\ delivery[d].pc = "idle" => seen[d] = {}
    /\ delivery[d].pc = "loop" =>
         delivery[d].flushed = {RowOf(delivery[d].kind, s) : s \in seen[d]}
    /\ delivery[d].pc = "post" =>
         delivery[d].flushed =
           {RowOf(delivery[d].kind, s) : s \in {s \in seen[d] : s.hook # delivery[d].hook}}
    /\ delivery[d].pc = "failed" =>
         \E h \in Hooks : ~hook[h].live /\ \A s \in seen[d] : s.hook # h

(* The rows that the deliveries which have ended well committed, but for     *)
(* those of webhooks deleted since.                                          *)
Committed ==
  \A d \in Deliveries : \A o \in Outcome :
    [of |-> d, row |-> o] \in rows <=>
      /\ delivery[d].pc = "done" /\ hook[o.hook].live
      /\ \E s \in seen[d] : o = RowOf(delivery[d].kind, s)

IInv == Shaped /\ Timely /\ Informed /\ Known /\ Held /\ Witnessed /\ Committed

-------------------------------------------------------------------------------
(* What each step makes of the call it moves. *)

(* Only the call d moves, to the given one. *)
Moves(d, call) ==
  /\ delivery' \in [Deliveries -> Calls]
  /\ delivery'[d] = call
  /\ \A e \in Deliveries : e # d => delivery'[e] = delivery[e]

LEMMA MovesTo ==
  ASSUME delivery \in [Deliveries -> Calls], NEW d \in Deliveries, NEW call \in Calls,
         delivery' = [delivery EXCEPT ![d] = call]
  PROVE  Moves(d, call)
BY DEF Moves

LEMMA IdleIs ==
  /\ Idle \in Calls
  /\ Idle.pc = "idle" /\ Idle.todo = {} /\ Idle.flushed = {} /\ Idle.began = 0 /\ Idle.tries = 0
  /\ Idle.kind = "event" /\ Idle.signed = {} /\ Idle.hook \in Hooks
  /\ Idle.read \in [{} -> HookRow]
<1>1. (CHOOSE h \in Hooks : TRUE) \in Hooks
  BY WebhookAssumption
<1>2. [h \in {} |-> h] \in [{} -> HookRow]
  OBVIOUS
<1>3. [h \in {} |-> h] \in Readings
  BY <1>2 DEF Readings
<1>4. 0 \in 0 .. MaxAttempts - 1
  BY WebhookAssumption
<1>5. QED
  BY <1>1, <1>2, <1>3, <1>4 DEF Idle, Calls, Kinds, Ended, Secret

LEMMA IdleAt ==
  ASSUME NEW end \in {"idle", "done", "failed", "lost"}
  PROVE  LET call == [Idle EXCEPT !.pc = end]
         IN  /\ call \in Calls
             /\ call.pc = end /\ call.todo = {} /\ call.flushed = {} /\ call.began = 0
             /\ call.read \in [{} -> HookRow]
<1>1. [Idle EXCEPT !.pc = end] \in Calls
  BY IdleIs DEF Calls, Ended
<1>2. QED
  BY <1>1, IdleIs DEF Calls

LEMMA ReportedRow ==
  ASSUME NEW kind, NEW s \in Report
  PROVE  RowOf(kind, s) \in Outcome /\ RowOf(kind, s).hook = s.hook
<1>1. Success(kind, s.answer) \in BOOLEAN
  BY DEF Success
<1>2. QED
  BY <1>1 DEF RowOf, Report, Outcome

(* Delivery d reads the rows of the webhooks it is for. *)
Begins(d, targets) ==
  /\ delivery[d].pc = "idle"
  /\ Moves(d, delivery'[d])
  /\ delivery'[d].pc = "loop" /\ delivery'[d].todo = targets /\ delivery'[d].began = now
  /\ delivery'[d].flushed = {}
  /\ delivery'[d].read = [h \in targets |-> hook[h]]
  /\ UNCHANGED <<now, hook, rows, seen, endpoint, notice>>

LEMMA BeginMoves ==
  ASSUME Shaped, NEW d \in Deliveries, NEW kind \in Kinds, NEW targets \in SUBSET Hooks,
         Begin(d, kind, targets)
  PROVE  Begins(d, targets)
<1> DEFINE call == [Idle EXCEPT !.pc = "loop", !.kind = kind, !.todo = targets, !.began = now,
                                !.read = Restrict(hook, targets)]
<1>1. Restrict(hook, targets) = [h \in targets |-> hook[h]]
  BY DEF Restrict
<1>2. Restrict(hook, targets) \in Readings
  <2>1. [h \in targets |-> hook[h]] \in [targets -> HookRow]
    BY DEF Shaped
  <2>2. QED
    BY <1>1, <2>1 DEF Readings
<1>3. now \in Nat
  BY WebhookAssumption DEF Shaped
<1>4. call \in Calls
  BY <1>2, <1>3, IdleIs DEF Calls
<1>5. call.pc = "loop" /\ call.todo = targets /\ call.began = now /\ call.flushed = {}
      /\ call.read = Restrict(hook, targets)
  BY IdleIs DEF Calls
<1>6. delivery' = [delivery EXCEPT ![d] = call]
  BY DEF Begin
<1> HIDE DEF call
<1>7. Moves(d, call)
  BY <1>4, <1>6, MovesTo DEF Shaped
<1>8. delivery'[d] = call
  BY <1>7 DEF Moves
<1>9. delivery[d].pc = "idle" /\ UNCHANGED <<now, hook, rows, seen, endpoint, notice>>
  BY DEF Begin
<1>10. QED
  BY <1>1, <1>5, <1>7, <1>8, <1>9 DEF Begins

(* The transaction of delivery d is over, without or with its rows. *)
Settled(d, end) ==
  /\ Moves(d, delivery'[d])
  /\ delivery'[d].pc = end /\ delivery'[d].todo = {} /\ delivery'[d].flushed = {}
  /\ delivery'[d].began = 0
  /\ delivery'[d].read \in [{} -> HookRow]

LEMMA SettledByMove ==
  ASSUME Shaped, NEW d \in Deliveries, NEW end \in Ended,
         delivery' = [delivery EXCEPT ![d] = [Idle EXCEPT !.pc = end]]
  PROVE  Settled(d, end)
<1> DEFINE call == [Idle EXCEPT !.pc = end]
<1>1. /\ call \in Calls
      /\ call.pc = end /\ call.todo = {} /\ call.flushed = {} /\ call.began = 0
      /\ call.read \in [{} -> HookRow]
  BY IdleAt DEF Ended
<1>2. delivery' = [delivery EXCEPT ![d] = call]
  OBVIOUS
<1> HIDE DEF call
<1>3. Moves(d, call)
  BY <1>1, <1>2, MovesTo DEF Shaped
<1>4. delivery'[d] = call
  BY <1>3 DEF Moves
<1>5. QED
  BY <1>1, <1>3, <1>4 DEF Settled

LEMMA RollsBack ==
  ASSUME Shaped, NEW d \in Deliveries, NEW end \in {"failed", "lost"}, RolledBack(d, end)
  PROVE  /\ Settled(d, end)
         /\ UNCHANGED <<now, hook, rows, seen, endpoint, notice>>
<1>1. delivery' = [delivery EXCEPT ![d] = [Idle EXCEPT !.pc = end]]
      /\ UNCHANGED <<now, hook, rows, seen, endpoint, notice>>
  BY DEF RolledBack, Move
<1>2. Settled(d, end)
  BY <1>1, SettledByMove DEF Ended
<1>3. QED
  BY <1>1, <1>2

(* Delivery d builds the headers for webhook h, and flushes its row. *)
Signs(d, h) ==
  /\ delivery[d].pc = "loop" /\ h \in delivery[d].todo /\ hook[h].live
  /\ Moves(d, delivery'[d])
  /\ delivery'[d].pc = "post" /\ delivery'[d].hook = h
  /\ delivery'[d].signed = Signatures(delivery[d].read[h])
  /\ delivery'[d].todo = delivery[d].todo /\ delivery'[d].flushed = delivery[d].flushed
  /\ delivery'[d].began = delivery[d].began /\ delivery'[d].read = delivery[d].read
  /\ delivery'[d].kind = delivery[d].kind
  /\ UNCHANGED <<now, hook, rows, seen, endpoint, notice>>

LEMMA FlushMoves ==
  ASSUME Shaped, Timely, NEW d \in Deliveries, Flush(d)
  PROVE  \/ \E g \in Hooks : Signs(d, g)
         \/ RolledBack(d, "failed") /\ \E g \in delivery[d].todo : ~hook[g].live
<1>1. delivery[d] \in Calls
  BY DEF Shaped
<1>2. PICK h \in delivery[d].todo :
        IF hook[h].live
        THEN /\ Move(d, [delivery[d] EXCEPT !.pc = "post", !.hook = h,
                           !.signed = Signatures(delivery[d].read[h])])
             /\ UNCHANGED seen
        ELSE RolledBack(d, "failed")
  BY DEF Flush
<1>3. h \in Hooks
  BY <1>1 DEF Calls
<1>4. CASE hook[h].live
  <2> DEFINE signed == Signatures(delivery[d].read[h])
             call == [delivery[d] EXCEPT !.pc = "post", !.hook = h, !.signed = signed]
  <2>1. signed \in SUBSET Secret
    <3>1. delivery[d].read[h] \in HookRow
      BY DEF Timely
    <3>2. QED
      BY <3>1 DEF Signatures, HookRow
  <2> HIDE DEF signed
  <2>2. call \in Calls
    BY <1>1, <1>3, <2>1 DEF Calls
  <2>3. /\ call.pc = "post" /\ call.hook = h /\ call.signed = signed
        /\ call.todo = delivery[d].todo /\ call.flushed = delivery[d].flushed
        /\ call.began = delivery[d].began /\ call.read = delivery[d].read
        /\ call.kind = delivery[d].kind
    BY <1>1 DEF Calls
  <2>4. Move(d, call) /\ UNCHANGED seen
    BY <1>2, <1>4 DEF signed
  <2>5. delivery' = [delivery EXCEPT ![d] = call]
    BY <2>4 DEF Move
  <2>6. UNCHANGED <<now, hook, rows, seen, endpoint, notice>>
    BY <2>4 DEF Move
  <2> HIDE DEF call
  <2>7. Moves(d, call)
    BY <2>2, <2>5, MovesTo DEF Shaped
  <2>8. delivery'[d] = call
    BY <2>7 DEF Moves
  <2>9. delivery[d].pc = "loop"
    BY DEF Flush
  <2>10. Signs(d, h)
    BY <1>4, <2>3, <2>6, <2>7, <2>8, <2>9 DEF Signs, signed
  <2>11. QED
    BY <1>3, <2>10
<1>5. CASE ~ hook[h].live
  BY <1>2, <1>5
<1>6. QED
  BY <1>4, <1>5

(* Delivery d makes an attempt, of which the endpoint sees s. *)
Tries(d, s) ==
  /\ delivery[d].pc = "post" /\ s \in Report /\ s.hook = delivery[d].hook
  /\ seen' \in [Deliveries -> SUBSET Report]
  /\ seen'[d] = {p \in seen[d] : p.hook # delivery[d].hook} \cup {s}
  /\ \A e \in Deliveries : e # d => seen'[e] = seen[e]
  /\ Moves(d, delivery'[d])
  /\ delivery'[d].began = delivery[d].began /\ delivery'[d].kind = delivery[d].kind
  /\ UNCHANGED <<now, hook, rows, endpoint, notice>>

(* It is the last attempt at this webhook, or another one follows. *)
Recorded(d, s) ==
  LET left == delivery[d].todo \ {delivery[d].hook}
  IN  /\ delivery'[d].pc = "loop" /\ delivery'[d].todo = left
      /\ delivery'[d].read = [h \in left |-> delivery[d].read[h]]
      /\ delivery'[d].flushed = delivery[d].flushed \cup {RowOf(delivery[d].kind, s)}

Retried(d) ==
  /\ delivery'[d].pc = "post" /\ delivery'[d].todo = delivery[d].todo
  /\ delivery'[d].hook = delivery[d].hook /\ delivery'[d].signed = delivery[d].signed
  /\ delivery'[d].read = delivery[d].read /\ delivery'[d].flushed = delivery[d].flushed

LEMMA PostMoves ==
  ASSUME Shaped, Timely, NEW d \in Deliveries, Post(d)
  PROVE  \E s \in Report : Tries(d, s) /\ (Recorded(d, s) \/ Retried(d))
<1>1. delivery[d] \in Calls /\ delivery[d].pc = "post"
  BY DEF Shaped, Post
<1> DEFINE h == delivery[d].hook
           tries == delivery[d].tries + 1
<1>2. PICK answer \in Answers :
        LET report == [hook |-> h, tries |-> tries, answer |-> answer]
            last == answer \in {"ok", "refused"} \/ tries = Attempts(delivery[d].kind)
        IN  /\ seen' = [seen EXCEPT ![d] = {p \in @ : p.hook # h} \cup {report}]
            /\ IF last THEN Record(d, RowOf(delivery[d].kind, report))
                       ELSE Move(d, [delivery[d] EXCEPT !.tries = tries])
  BY DEF Post
<1> DEFINE s == [hook |-> h, tries |-> tries, answer |-> answer]
           row == RowOf(delivery[d].kind, s)
           left == delivery[d].todo \ {h}
<1>3. h \in Hooks /\ delivery[d].tries \in 0 .. MaxAttempts - 1 /\ delivery[d].kind \in Kinds
      /\ delivery[d].began \in Nat /\ delivery[d].flushed \subseteq Outcome
      /\ delivery[d].todo \subseteq Hooks
  BY <1>1 DEF Calls
<1>4. tries \in 1 .. MaxAttempts
  BY <1>3, WebhookAssumption
<1>5. s \in Report /\ s.hook = h /\ row \in Outcome
  <2>1. s \in Report /\ s.hook = h
    BY <1>3, <1>4 DEF Report
  <2>2. QED
    BY <2>1, ReportedRow
<1>6. seen' = [seen EXCEPT ![d] = {p \in seen[d] : p.hook # h} \cup {s}]
  BY <1>2
<1> HIDE DEF s
<1>7. /\ seen' \in [Deliveries -> SUBSET Report]
      /\ seen'[d] = {p \in seen[d] : p.hook # h} \cup {s}
      /\ \A e \in Deliveries : e # d => seen'[e] = seen[e]
  BY <1>5, <1>6 DEF Shaped
<1>8. CASE answer \in {"ok", "refused"} \/ tries = Attempts(delivery[d].kind)
  <2> DEFINE call == [delivery[d] EXCEPT !.pc = "loop", !.todo = left, !.hook = Idle.hook,
                        !.read = Restrict(@, left), !.signed = {}, !.tries = 0,
                        !.flushed = @ \cup {row}]
  <2>1. Record(d, row)
    BY <1>2, <1>8 DEF s
  <2>2. delivery' = [delivery EXCEPT ![d] = call]
    BY <2>1 DEF Record, Move
  <2>3. UNCHANGED <<now, hook, rows, endpoint, notice>>
    BY <2>1 DEF Record, Move
  <2>4. Restrict(delivery[d].read, left) = [g \in left |-> delivery[d].read[g]]
    BY DEF Restrict
  <2>5. Restrict(delivery[d].read, left) \in Readings
    <3>1. [g \in left |-> delivery[d].read[g]] \in [left -> HookRow]
      BY DEF Timely
    <3>2. QED
      BY <1>3, <2>4, <3>1 DEF Readings
  <2>6. 0 \in 0 .. MaxAttempts - 1
    BY WebhookAssumption
  <2>7. call \in Calls
    BY <1>1, <1>3, <1>5, <2>5, <2>6, IdleIs DEF Calls
  <2>8. /\ call.pc = "loop" /\ call.todo = left /\ call.began = delivery[d].began
        /\ call.read = Restrict(delivery[d].read, left)
        /\ call.flushed = delivery[d].flushed \cup {row} /\ call.kind = delivery[d].kind
    BY <1>1 DEF Calls
  <2> HIDE DEF call
  <2>9. Moves(d, call)
    BY <2>2, <2>7, MovesTo DEF Shaped
  <2>10. delivery'[d] = call
    BY <2>9 DEF Moves
  <2>11. Tries(d, s)
    BY <1>1, <1>5, <1>7, <2>3, <2>8, <2>9, <2>10 DEF Tries
  <2>12. Recorded(d, s)
    BY <2>4, <2>8, <2>10 DEF Recorded
  <2>13. QED
    BY <1>5, <2>11, <2>12
<1>9. CASE ~ (answer \in {"ok", "refused"} \/ tries = Attempts(delivery[d].kind))
  <2> DEFINE call == [delivery[d] EXCEPT !.tries = tries]
  <2>1. Move(d, call)
    BY <1>2, <1>9
  <2>2. delivery' = [delivery EXCEPT ![d] = call]
    BY <2>1 DEF Move
  <2>3. UNCHANGED <<now, hook, rows, endpoint, notice>>
    BY <2>1 DEF Move
  <2>4. tries \in 0 .. MaxAttempts - 1 /\ delivery[d].kind # "test"
    <3>1. delivery[d].kind = "test" => delivery[d].tries = 0
      BY <1>1 DEF Calls
    <3>2. QED
      BY <1>3, <1>4, <1>9, <3>1, WebhookAssumption DEF Attempts
  <2>5. call \in Calls
    BY <1>1, <2>4 DEF Calls
  <2>6. /\ call.pc = "post" /\ call.todo = delivery[d].todo /\ call.hook = h
        /\ call.signed = delivery[d].signed /\ call.read = delivery[d].read
        /\ call.flushed = delivery[d].flushed /\ call.began = delivery[d].began
        /\ call.kind = delivery[d].kind
    BY <1>1 DEF Calls
  <2> HIDE DEF call
  <2>7. Moves(d, call)
    BY <2>2, <2>5, MovesTo DEF Shaped
  <2>8. delivery'[d] = call
    BY <2>7 DEF Moves
  <2>9. Tries(d, s) /\ Retried(d)
    BY <1>1, <1>5, <1>7, <2>3, <2>6, <2>7, <2>8 DEF Tries, Retried
  <2>10. QED
    BY <1>5, <2>9
<1>10. QED
  BY <1>8, <1>9

-------------------------------------------------------------------------------
(* Every kind of step keeps the invariant. *)

LEMMA InitInvariant == WebhooksInit => IInv
<1> SUFFICES ASSUME WebhooksInit
             PROVE  IInv
  OBVIOUS
<1> DEFINE lost == [Idle EXCEPT !.pc = "lost"]
<1>1. /\ lost \in Calls
      /\ lost.pc = "lost" /\ lost.todo = {} /\ lost.flushed = {} /\ lost.began = 0
      /\ lost.read \in [{} -> HookRow]
  BY IdleAt
<1>2. \A d \in Deliveries : delivery[d] = Idle \/ delivery[d] = lost
  BY DEF WebhooksInit
<1> HIDE DEF lost
<1>3. /\ delivery \in [Deliveries -> Calls]
      /\ \A d \in Deliveries :
           /\ delivery[d].pc \in {"idle", "lost"} /\ delivery[d].todo = {}
           /\ delivery[d].flushed = {} /\ delivery[d].began = 0
           /\ delivery[d].read \in [{} -> HookRow]
  <2>1. delivery \in [Deliveries -> {Idle, lost}]
    BY DEF WebhooksInit, lost
  <2>2. QED
    BY <1>1, <2>1, IdleIs
<1>4. /\ now = 0 /\ rows = {}
      /\ seen = [d \in Deliveries |-> {}]
      /\ endpoint = [h \in Hooks |-> [secret |-> 1, old |-> NoSecret, until |-> 0]]
      /\ notice = [h \in Hooks |-> {}]
      /\ hook \in [Hooks -> {Created, Gone}]
  BY DEF WebhooksInit
<1>5. Created \in HookRow /\ Gone \in HookRow /\ [secret |-> 1, old |-> NoSecret, until |-> 0] \in Pair
  BY DEF Created, Gone, HookRow, Pair, Secret, NoSecret
<1>6. Shaped
  BY <1>3, <1>4, <1>5, WebhookAssumption DEF Shaped
<1>7. Timely
  <2>1. \A d \in Deliveries : delivery[d].read \in [delivery[d].todo -> HookRow]
    BY <1>3
  <2>2. QED
    BY <1>3, <1>4, <2>1 DEF Timely, InProgress
<1>8. Informed
  <2>1. \A h \in Hooks : /\ endpoint[h].secret = 1 /\ endpoint[h].old = 0 /\ notice[h] = {}
                         /\ hook[h].live => hook[h].secret = 1
    BY <1>4 DEF Created, Gone, NoSecret
  <2>2. QED
    BY <2>1 DEF Informed
<1>9. Known /\ Held /\ Witnessed /\ Committed
  BY <1>3, <1>4 DEF Known, Held, Witnessed, Committed, InProgress
<1>10. QED
  BY <1>6, <1>7, <1>8, <1>9 DEF IInv

(* What d read of h is as good as before if neither the delivery, the       *)
(* answers nor the endpoint change.                                          *)
StillKnown(d, h) ==
  /\ delivery'[d] = delivery[d] /\ notice'[h] = notice[h] /\ endpoint'[h] = endpoint[h]

LEMMA SameKnown ==
  ASSUME NEW d, NEW h, StillKnown(d, h), KnownOf(d, h)
  PROVE  KnownOf(d, h)'
BY DEF StillKnown, KnownOf, Says

LEMMA BeginKeeps ==
  ASSUME IInv, NEW d \in Deliveries, NEW targets \in SUBSET Hooks, Begins(d, targets)
  PROVE  IInv'
<1> USE DEF IInv
<1>1. /\ delivery[d].pc = "idle"
      /\ delivery'[d].pc = "loop" /\ delivery'[d].todo = targets /\ delivery'[d].began = now
      /\ delivery'[d].flushed = {} /\ delivery'[d].read = [h \in targets |-> hook[h]]
  BY DEF Begins
<1>2. /\ now' = now /\ hook' = hook /\ rows' = rows /\ seen' = seen
      /\ endpoint' = endpoint /\ notice' = notice
  BY DEF Begins
<1>3. /\ delivery' \in [Deliveries -> Calls]
      /\ \A e \in Deliveries : e # d => delivery'[e] = delivery[e]
  BY DEF Begins, Moves
<1>4. Shaped'
  BY <1>2, <1>3 DEF Shaped
<1>5. Timely'
  <2>1. [h \in targets |-> hook[h]] \in [targets -> HookRow]
    BY DEF Shaped
  <2>2. now \in Nat
    BY WebhookAssumption DEF Shaped
  <2>3. QED
    BY <1>1, <1>2, <1>3, <2>1, <2>2 DEF Timely, InProgress
<1>6. Informed'
  BY <1>2 DEF Informed, Says
<1>7. Known'
  <2> SUFFICES ASSUME NEW e \in Deliveries, InProgress(e)', NEW h \in delivery'[e].todo,
                      hook'[h].live
               PROVE  KnownOf(e, h)'
    BY DEF Known
  <2>1. CASE e # d
    <3>1. delivery'[e] = delivery[e] /\ StillKnown(e, h)
      BY <1>2, <1>3, <2>1 DEF StillKnown
    <3>2. KnownOf(e, h)
      BY <1>2, <3>1 DEF Known, InProgress
    <3>3. QED
      BY <3>1, <3>2, SameKnown
  <2>2. CASE e = d
    <3>1. h \in Hooks /\ h \in targets
      BY <1>1, <2>2
    <3>2. hook[h] \in HookRow /\ hook[h].live /\ delivery'[d].read[h] = hook[h]
      BY <1>1, <1>2, <3>1 DEF Shaped
    <3>3. /\ hook[h].secret \in Nat /\ endpoint[h].secret \in Nat /\ endpoint[h].old \in Nat
          /\ \A a \in notice[h] : a.secret \in Nat
      BY <3>1, <3>2 DEF Shaped, HookRow, Pair, Secret
    <3>4. /\ endpoint[h].secret > endpoint[h].old
          /\ endpoint[h].secret <= hook[h].secret
          /\ endpoint[h].secret < hook[h].secret => Says(h, hook[h])
          /\ \A a \in notice[h] : a.secret <= hook[h].secret
      BY <3>1, <3>2 DEF Informed
    <3>5. hook[h].secret # NoSecret
      BY <3>3, <3>4 DEF NoSecret
    <3>6. \A a \in notice[h] \cup {endpoint[h]} : ~ (a.secret > hook[h].secret)
      BY <3>3, <3>4
    <3>7. hook[h].secret > endpoint[h].secret => Says(h, hook[h])'
      BY <1>2, <3>3, <3>4 DEF Says
    <3>8. KnownOf(d, h)'
      BY <1>1, <1>2, <3>2, <3>5, <3>6, <3>7 DEF KnownOf, Says
    <3>9. QED
      BY <2>2, <3>8
  <2>3. QED
    BY <2>1, <2>2
<1>8. Held'
  BY <1>1, <1>2, <1>3 DEF Held
<1>9. Witnessed'
  <2>1. seen'[d] = {} /\ delivery'[d].flushed = {} /\ delivery'[d].pc = "loop"
    BY <1>1, <1>2 DEF Witnessed
  <2>2. \A e \in Deliveries : e # d => delivery'[e] = delivery[e] /\ seen'[e] = seen[e]
    BY <1>2, <1>3
  <2> SUFFICES ASSUME NEW e \in Deliveries
               PROVE  /\ delivery'[e].pc \notin {"loop", "post"} => delivery'[e].flushed = {}
                      /\ delivery'[e].pc = "idle" => seen'[e] = {}
                      /\ delivery'[e].pc = "loop" =>
                           delivery'[e].flushed =
                             {RowOf(delivery'[e].kind, s) : s \in seen'[e]}
                      /\ delivery'[e].pc = "post" =>
                           delivery'[e].flushed =
                             {RowOf(delivery'[e].kind, s) :
                                s \in {s \in seen'[e] : s.hook # delivery'[e].hook}}
                      /\ delivery'[e].pc = "failed" =>
                           \E h \in Hooks : ~hook'[h].live /\ \A s \in seen'[e] : s.hook # h
    BY DEF Witnessed
  <2>3. CASE e = d
    BY <2>1, <2>3
  <2>4. CASE e # d
    BY <1>2, <2>2, <2>4 DEF Witnessed
  <2>5. QED
    BY <2>3, <2>4
<1>10. Committed'
  <2> SUFFICES ASSUME NEW e \in Deliveries, NEW o \in Outcome
               PROVE  [of |-> e, row |-> o] \in rows <=>
                        /\ delivery'[e].pc = "done" /\ hook[o.hook].live
                        /\ \E s \in seen'[e] : o = RowOf(delivery'[e].kind, s)
    BY <1>2 DEF Committed
  <2>1. [of |-> e, row |-> o] \in rows <=>
          /\ delivery[e].pc = "done" /\ hook[o.hook].live
          /\ \E s \in seen[e] : o = RowOf(delivery[e].kind, s)
    BY DEF Committed
  <2>2. CASE e = d
    BY <1>1, <2>1, <2>2
  <2>3. CASE e # d
    BY <1>2, <1>3, <2>1, <2>3
  <2>4. QED
    BY <2>2, <2>3
<1>11. QED
  BY <1>4, <1>5, <1>6, <1>7, <1>8, <1>9, <1>10

(* The transaction of d is rolled back: the worker dies, or delivery d comes *)
(* to a webhook that is gone.                                                *)
Refused(d) == delivery[d].pc = "loop" /\ \E g \in delivery[d].todo : ~hook[g].live

LEMMA RollbackKeeps ==
  ASSUME IInv, NEW d \in Deliveries, NEW end \in {"failed", "lost"}, RolledBack(d, end),
         InProgress(d), end = "failed" => Refused(d)
  PROVE  IInv'
<1> USE DEF IInv
<1>1. Settled(d, end) /\ UNCHANGED <<now, hook, rows, seen, endpoint, notice>>
  BY RollsBack
<1>2. /\ delivery'[d].pc = end /\ delivery'[d].todo = {} /\ delivery'[d].flushed = {}
      /\ delivery'[d].began = 0 /\ delivery'[d].read \in [{} -> HookRow]
      /\ delivery' \in [Deliveries -> Calls]
      /\ \A e \in Deliveries : e # d => delivery'[e] = delivery[e]
  BY <1>1 DEF Settled, Moves
<1>3. /\ now' = now /\ hook' = hook /\ rows' = rows /\ seen' = seen
      /\ endpoint' = endpoint /\ notice' = notice
  BY <1>1
<1>4. Shaped'
  BY <1>2, <1>3 DEF Shaped
<1>5. Timely'
  <2>1. now >= 0
    BY WebhookAssumption DEF Shaped
  <2>2. delivery'[d].read \in [delivery'[d].todo -> HookRow]
    BY <1>2
  <2>3. QED
    BY <1>2, <1>3, <2>1, <2>2 DEF Timely, InProgress
<1>6. Informed'
  BY <1>3 DEF Informed, Says
<1>7. Known'
  BY <1>2, <1>3 DEF Known, InProgress, KnownOf, Says
<1>8. Held'
  BY <1>2, <1>3 DEF Held
<1>9. Witnessed'
  <2>1. ASSUME end = "failed"
        PROVE  \E g \in Hooks : ~hook[g].live /\ \A s \in seen[d] : s.hook # g
    <3>1. PICK g \in delivery[d].todo : ~hook[g].live
      BY <2>1 DEF Refused
    <3>2. g \in Hooks
      BY DEF Shaped, Calls
    <3>3. \A s \in seen[d] : s.hook # g
      <4> SUFFICES ASSUME NEW s \in seen[d]
                   PROVE  s.hook # g
        OBVIOUS
      <4>1. RowOf(delivery[d].kind, s) \in delivery[d].flushed
        BY <2>1 DEF Witnessed, Refused
      <4>2. hook[RowOf(delivery[d].kind, s).hook].live
        BY <4>1 DEF Held
      <4>3. RowOf(delivery[d].kind, s).hook = s.hook
        BY DEF RowOf
      <4>4. QED
        BY <3>1, <4>2, <4>3
    <3>4. QED
      BY <3>1, <3>2, <3>3
  <2>2. QED
    BY <1>2, <1>3, <2>1 DEF Witnessed
<1>10. Committed'
  <2> SUFFICES ASSUME NEW e \in Deliveries, NEW o \in Outcome
               PROVE  [of |-> e, row |-> o] \in rows <=>
                        /\ delivery'[e].pc = "done" /\ hook[o.hook].live
                        /\ \E s \in seen'[e] : o = RowOf(delivery'[e].kind, s)
    BY <1>3 DEF Committed
  <2>1. [of |-> e, row |-> o] \in rows <=>
          /\ delivery[e].pc = "done" /\ hook[o.hook].live
          /\ \E s \in seen[e] : o = RowOf(delivery[e].kind, s)
    BY DEF Committed
  <2>2. CASE e = d
    BY <1>2, <2>1, <2>2 DEF InProgress
  <2>3. CASE e # d
    BY <1>2, <1>3, <2>1, <2>3
  <2>4. QED
    BY <2>2, <2>3
<1>11. QED
  BY <1>4, <1>5, <1>6, <1>7, <1>8, <1>9, <1>10

LEMMA SignKeeps ==
  ASSUME IInv, NEW d \in Deliveries, NEW h \in Hooks, Signs(d, h)
  PROVE  IInv'
<1> USE DEF IInv
<1>1. /\ delivery[d].pc = "loop" /\ h \in delivery[d].todo /\ hook[h].live
      /\ delivery'[d].pc = "post" /\ delivery'[d].hook = h
      /\ delivery'[d].signed = Signatures(delivery[d].read[h])
      /\ delivery'[d].todo = delivery[d].todo /\ delivery'[d].flushed = delivery[d].flushed
      /\ delivery'[d].began = delivery[d].began /\ delivery'[d].read = delivery[d].read
      /\ delivery'[d].kind = delivery[d].kind
  BY DEF Signs
<1>2. /\ delivery' \in [Deliveries -> Calls]
      /\ \A e \in Deliveries : e # d => delivery'[e] = delivery[e]
  BY DEF Signs, Moves
<1>3. /\ now' = now /\ hook' = hook /\ rows' = rows /\ seen' = seen /\ endpoint' = endpoint
      /\ notice' = notice
  BY DEF Signs
<1>4. Shaped'
  BY <1>2, <1>3 DEF Shaped
<1>5. Timely'
  BY <1>1, <1>2, <1>3 DEF Timely, InProgress, Signatures
<1>6. Informed'
  BY <1>3 DEF Informed, Says
<1>7. Known'
  <2> SUFFICES ASSUME NEW e \in Deliveries, InProgress(e)', NEW g \in delivery'[e].todo,
                      hook'[g].live
               PROVE  KnownOf(e, g)'
    BY DEF Known
  <2>1. InProgress(e) /\ g \in delivery[e].todo /\ hook[g].live
    BY <1>1, <1>2, <1>3 DEF InProgress
  <2>2. KnownOf(e, g)
    BY <2>1 DEF Known
  <2>3. CASE e # d
    BY <1>2, <1>3, <2>2, <2>3, SameKnown DEF StillKnown
  <2>4. CASE e = d
    <3>1. g \in Hooks
      BY <2>1 DEF Shaped, Calls
    <3>2. ASSUME delivery[d].read[g].secret > endpoint[g].secret
          PROVE  delivery[d].read[g].rotating \in Signatures(delivery[d].read[g])
      <4>1. PICK a \in notice[g] : /\ a.old = delivery[d].read[g].rotating
                                   /\ a.until = delivery[d].read[g].until
        BY <2>2, <2>4, <3>2 DEF KnownOf, Says
      <4>2. a.old # NoSecret /\ a.until > now
        BY <3>1, <4>1 DEF Informed
      <4>3. QED
        BY <4>1, <4>2 DEF Signatures, RotationActive
    <3>3. QED
      BY <1>1, <1>3, <2>2, <2>4, <3>2 DEF KnownOf, Says
  <2>5. QED
    BY <2>3, <2>4
<1>8. Held'
  BY <1>1, <1>2, <1>3 DEF Held
<1>9. Witnessed'
  <2>1. delivery[d].flushed = {RowOf(delivery[d].kind, s) : s \in seen[d]}
    BY <1>1 DEF Witnessed
  <2>2. \A s \in seen[d] : s.hook # h
    <3> SUFFICES ASSUME NEW s \in seen[d]
                 PROVE  s.hook # h
      OBVIOUS
    <3>1. RowOf(delivery[d].kind, s) \in delivery[d].flushed
      BY <2>1
    <3>2. RowOf(delivery[d].kind, s).hook \notin delivery[d].todo
      BY <3>1 DEF Held
    <3>3. QED
      BY <1>1, <3>2 DEF RowOf
  <2>3. {s \in seen[d] : s.hook # h} = seen[d]
    BY <2>2
  <2>4. delivery'[d].flushed =
          {RowOf(delivery'[d].kind, s) : s \in {s \in seen'[d] : s.hook # delivery'[d].hook}}
    BY <1>1, <1>3, <2>1, <2>3
  <2>5. QED
    BY <1>1, <1>2, <1>3, <2>4 DEF Witnessed
<1>10. Committed'
  <2> SUFFICES ASSUME NEW e \in Deliveries, NEW o \in Outcome
               PROVE  [of |-> e, row |-> o] \in rows <=>
                        /\ delivery'[e].pc = "done" /\ hook[o.hook].live
                        /\ \E s \in seen'[e] : o = RowOf(delivery'[e].kind, s)
    BY <1>3 DEF Committed
  <2>1. [of |-> e, row |-> o] \in rows <=>
          /\ delivery[e].pc = "done" /\ hook[o.hook].live
          /\ \E s \in seen[e] : o = RowOf(delivery[e].kind, s)
    BY DEF Committed
  <2>2. CASE e = d
    BY <1>1, <2>1, <2>2
  <2>3. CASE e # d
    BY <1>2, <1>3, <2>1, <2>3
  <2>4. QED
    BY <2>2, <2>3
<1>11. QED
  BY <1>4, <1>5, <1>6, <1>7, <1>8, <1>9, <1>10

LEMMA TryKeeps ==
  ASSUME IInv, NEW d \in Deliveries, NEW s \in Report, Tries(d, s), Recorded(d, s) \/ Retried(d)
  PROVE  IInv'
<1> USE DEF IInv
<1> DEFINE h == delivery[d].hook
<1>1. /\ delivery[d].pc = "post" /\ s.hook = h
      /\ seen' \in [Deliveries -> SUBSET Report]
      /\ seen'[d] = {p \in seen[d] : p.hook # h} \cup {s}
      /\ \A e \in Deliveries : e # d => seen'[e] = seen[e]
  BY DEF Tries
<1>2. /\ delivery' \in [Deliveries -> Calls]
      /\ \A e \in Deliveries : e # d => delivery'[e] = delivery[e]
      /\ delivery'[d].began = delivery[d].began /\ delivery'[d].kind = delivery[d].kind
  BY DEF Tries, Moves
<1>3. /\ now' = now /\ hook' = hook /\ rows' = rows /\ endpoint' = endpoint /\ notice' = notice
  BY DEF Tries
<1>4. /\ delivery[d].todo \subseteq Hooks /\ h \in delivery[d].todo /\ hook[h].live
      /\ delivery[d].flushed = {RowOf(delivery[d].kind, p) : p \in {p \in seen[d] : p.hook # h}}
  BY <1>1 DEF Shaped, Calls, Timely, Held, Witnessed
<1>5. Recorded(d, s) =>
        /\ delivery'[d].pc = "loop" /\ delivery'[d].todo = delivery[d].todo \ {h}
        /\ delivery'[d].read = [g \in delivery[d].todo \ {h} |-> delivery[d].read[g]]
        /\ delivery'[d].flushed = delivery[d].flushed \cup {RowOf(delivery[d].kind, s)}
  BY DEF Recorded
<1>6. Retried(d) =>
        /\ delivery'[d].pc = "post" /\ delivery'[d].todo = delivery[d].todo
        /\ delivery'[d].hook = h /\ delivery'[d].signed = delivery[d].signed
        /\ delivery'[d].read = delivery[d].read /\ delivery'[d].flushed = delivery[d].flushed
  BY DEF Retried
<1> HIDE DEF h
<1>7. Shaped'
  BY <1>1, <1>2, <1>3 DEF Shaped
<1>8. Timely'
  <2>1. delivery[d].read \in [delivery[d].todo -> HookRow]
    BY DEF Timely
  <2>2. [g \in delivery[d].todo \ {h} |-> delivery[d].read[g]] \in [delivery[d].todo \ {h} -> HookRow]
    BY <2>1
  <2>3. Recorded(d, s) => delivery'[d].read \in [delivery'[d].todo -> HookRow]
    BY <1>5, <2>2
  <2>4. CASE Recorded(d, s)
    BY <1>1, <1>2, <1>3, <1>5, <2>3, <2>4 DEF Timely, InProgress
  <2>5. CASE Retried(d)
    BY <1>1, <1>2, <1>3, <1>6, <2>5 DEF Timely, InProgress, h
  <2>6. QED
    BY <2>4, <2>5
<1>9. Informed'
  BY <1>3 DEF Informed, Says
<1>10. Known'
  <2> SUFFICES ASSUME NEW e \in Deliveries, InProgress(e)', NEW g \in delivery'[e].todo,
                      hook'[g].live
               PROVE  KnownOf(e, g)'
    BY DEF Known
  <2>1. InProgress(e) /\ g \in delivery[e].todo /\ hook[g].live
    BY <1>1, <1>2, <1>3, <1>5, <1>6 DEF InProgress
  <2>2. KnownOf(e, g)
    BY <2>1 DEF Known
  <2>3. CASE e # d
    BY <1>2, <1>3, <2>2, <2>3, SameKnown DEF StillKnown
  <2>4. CASE e = d
    <3>1. delivery'[d].read[g] = delivery[d].read[g]
      BY <1>5, <1>6, <2>4
    <3>2. delivery'[d].pc = "post" =>
            delivery'[d].hook = delivery[d].hook /\ delivery'[d].signed = delivery[d].signed
      BY <1>5, <1>6 DEF h
    <3>3. QED
      BY <1>1, <1>2, <1>3, <2>2, <2>4, <3>1, <3>2 DEF KnownOf, Says
  <2>5. QED
    BY <2>3, <2>4
<1>11. Held'
  <2>1. RowOf(delivery[d].kind, s).hook = h
    BY <1>1 DEF RowOf
  <2>2. CASE Recorded(d, s)
    BY <1>1, <1>2, <1>3, <1>4, <1>5, <2>1, <2>2 DEF Held
  <2>3. CASE Retried(d)
    BY <1>1, <1>2, <1>3, <1>4, <1>6, <2>3 DEF Held
  <2>4. QED
    BY <2>2, <2>3
<1>12. Witnessed'
  <2>1. CASE Recorded(d, s)
    <3>1. delivery'[d].flushed = {RowOf(delivery[d].kind, p) : p \in seen'[d]}
      BY <1>1, <1>4, <1>5, <2>1
    <3>2. QED
      BY <1>1, <1>2, <1>3, <1>5, <2>1, <3>1 DEF Witnessed
  <2>2. CASE Retried(d)
    <3>1. {p \in seen'[d] : p.hook # h} = {p \in seen[d] : p.hook # h}
      BY <1>1
    <3>2. delivery'[d].flushed =
            {RowOf(delivery'[d].kind, p) : p \in {p \in seen'[d] : p.hook # delivery'[d].hook}}
      BY <1>2, <1>4, <1>6, <2>2, <3>1
    <3>3. QED
      BY <1>1, <1>2, <1>3, <1>6, <2>2, <3>2 DEF Witnessed
  <2>3. QED
    BY <2>1, <2>2
<1>13. Committed'
  <2> SUFFICES ASSUME NEW e \in Deliveries, NEW o \in Outcome
               PROVE  [of |-> e, row |-> o] \in rows <=>
                        /\ delivery'[e].pc = "done" /\ hook[o.hook].live
                        /\ \E p \in seen'[e] : o = RowOf(delivery'[e].kind, p)
    BY <1>3 DEF Committed
  <2>1. [of |-> e, row |-> o] \in rows <=>
          /\ delivery[e].pc = "done" /\ hook[o.hook].live
          /\ \E p \in seen[e] : o = RowOf(delivery[e].kind, p)
    BY DEF Committed
  <2>2. CASE e = d
    BY <1>1, <2>1, <2>2, <1>5, <1>6
  <2>3. CASE e # d
    BY <1>1, <1>2, <1>3, <2>1, <2>3
  <2>4. QED
    BY <2>2, <2>3
<1>14. QED
  BY <1>7, <1>8, <1>9, <1>10, <1>11, <1>12, <1>13

LEMMA CommitKeeps ==
  ASSUME IInv, NEW d \in Deliveries, Commit(d)
  PROVE  IInv'
<1> USE DEF IInv
<1> DEFINE new == {[of |-> d, row |-> o] : o \in delivery[d].flushed}
<1> DEFINE call == [Idle EXCEPT !.pc = "done", !.kind = delivery[d].kind]
<1>1. /\ delivery[d].pc = "loop"
      /\ delivery' = [delivery EXCEPT ![d] = call]
      /\ rows' = rows \cup new
      /\ now' = now /\ hook' = hook /\ seen' = seen /\ endpoint' = endpoint /\ notice' = notice
  BY DEF Commit
<1>2. call \in Calls
  <2>1. delivery[d].kind \in Kinds
    BY DEF Shaped, Calls
  <2>2. QED
    BY <2>1, IdleIs DEF Calls, Ended
<1>3. /\ call.pc = "done" /\ call.todo = {} /\ call.flushed = {} /\ call.began = 0
      /\ call.read \in [{} -> HookRow] /\ call.kind = delivery[d].kind
  BY IdleIs DEF Calls
<1> HIDE DEF call
<1>4. /\ delivery'[d].pc = "done" /\ delivery'[d].todo = {} /\ delivery'[d].flushed = {}
      /\ delivery'[d].began = 0 /\ delivery'[d].read \in [{} -> HookRow]
      /\ delivery'[d].kind = delivery[d].kind
      /\ delivery' \in [Deliveries -> Calls]
      /\ \A e \in Deliveries : e # d => delivery'[e] = delivery[e]
      /\ delivery[d].pc = "loop" /\ rows' = rows \cup new
      /\ now' = now /\ hook' = hook /\ seen' = seen /\ endpoint' = endpoint /\ notice' = notice
  <2>1. Moves(d, call)
    BY <1>1, <1>2, MovesTo DEF Shaped
  <2>2. delivery'[d] = call
    BY <2>1 DEF Moves
  <2>3. QED
    BY <1>1, <1>3, <2>1, <2>2 DEF Moves
<1>5. delivery[d].flushed \subseteq Outcome
  BY DEF Shaped, Calls
<1>6. Shaped'
  BY <1>4, <1>5 DEF Shaped
<1>7. Timely'
  <2>1. now >= 0
    BY WebhookAssumption DEF Shaped
  <2>2. delivery'[d].read \in [delivery'[d].todo -> HookRow]
    BY <1>4
  <2>3. QED
    BY <1>4, <2>1, <2>2 DEF Timely, InProgress
<1>8. Informed'
  BY <1>4 DEF Informed, Says
<1>9. Known'
  BY <1>4 DEF Known, InProgress, KnownOf, Says
<1>10. Held'
  BY <1>4 DEF Held
<1>11. Witnessed'
  BY <1>4 DEF Witnessed
<1>12. Committed'
  <2> SUFFICES ASSUME NEW e \in Deliveries, NEW o \in Outcome
               PROVE  [of |-> e, row |-> o] \in rows' <=>
                        /\ delivery'[e].pc = "done" /\ hook'[o.hook].live
                        /\ \E s \in seen'[e] : o = RowOf(delivery'[e].kind, s)
    BY DEF Committed
  <2>1. [of |-> e, row |-> o] \in rows <=>
          /\ delivery[e].pc = "done" /\ hook[o.hook].live
          /\ \E s \in seen[e] : o = RowOf(delivery[e].kind, s)
    BY DEF Committed
  <2>2. [of |-> e, row |-> o] \in new <=> e = d /\ o \in delivery[d].flushed
    OBVIOUS
  <2>3. o \in delivery[d].flushed <=>
          hook[o.hook].live /\ \E s \in seen[d] : o = RowOf(delivery[d].kind, s)
    BY <1>4 DEF Witnessed, Held
  <2> HIDE DEF new
  <2>4. QED
    BY <1>4, <2>1, <2>2, <2>3
<1>13. QED
  BY <1>6, <1>7, <1>8, <1>9, <1>10, <1>11, <1>12

-------------------------------------------------------------------------------
(* The owner, a starting worker and the clock. *)

LEMMA RotatedIs ==
  ASSUME NEW row \in HookRow, NEW read \in Nat, now \in Nat
  PROVE  /\ Rotated(row, read) \in HookRow
         /\ Rotated(row, read).secret = row.secret + 1 /\ Rotated(row, read).rotating = read
         /\ Rotated(row, read).until = now + Grace /\ Rotated(row, read).live = row.live
<1>1. row.secret + 1 \in Nat /\ now + Grace \in Nat
  BY WebhookAssumption DEF HookRow, Secret
<1>2. PICK u \in Nat, s \in Nat : u = now + Grace /\ s = row.secret + 1
  BY <1>1
<1>3. Rotated(row, read) = [row EXCEPT !.rotating = read, !.until = u, !.secret = s]
  BY <1>2 DEF Rotated
<1>4. QED
  BY <1>2, <1>3 DEF HookRow, Secret

LEMMA RotateKeeps ==
  ASSUME IInv, NEW h \in Hooks, Rotate(h)
  PROVE  IInv'
<1> USE DEF IInv
<1>1. PICK read \in 1 .. hook[h].secret :
        /\ hook' = [hook EXCEPT ![h] = Rotated(@, read)]
        /\ notice' = [notice EXCEPT ![h] =
             @ \cup {[secret |-> hook[h].secret + 1, old |-> read, until |-> now + Grace]}]
  BY DEF Rotate
<1> DEFINE next == hook[h].secret + 1
           until == now + Grace
           answer == [secret |-> next, old |-> read, until |-> until]
           row == Rotated(hook[h], read)
<1>2. /\ hook[h] \in HookRow /\ hook[h].live /\ now \in Nat /\ read \in Nat /\ read # NoSecret
      /\ hook[h].secret \in Nat /\ next \in Nat /\ next > hook[h].secret /\ next > read
      /\ until \in Nat /\ until > now + 1
  <2>1. hook[h] \in HookRow /\ now \in Nat /\ hook[h].live
    BY WebhookAssumption DEF Shaped, Rotate
  <2>2. QED
    BY <2>1, WebhookAssumption DEF HookRow, Secret, NoSecret
<1>3. /\ row \in HookRow /\ row.secret = next /\ row.rotating = read /\ row.until = until
      /\ row.live
  BY <1>2, RotatedIs
<1>4. answer \in Pair /\ answer.secret = next /\ answer.old = read /\ answer.until = until
  BY <1>2 DEF Secret, Pair
<1>5. hook' = [hook EXCEPT ![h] = row] /\ notice' = [notice EXCEPT ![h] = @ \cup {answer}]
  BY <1>1
<1>6. /\ now' = now /\ delivery' = delivery /\ rows' = rows /\ seen' = seen /\ endpoint' = endpoint
  BY DEF Rotate
<1> HIDE DEF row, answer, next, until
<1>7. /\ hook' \in [Hooks -> HookRow] /\ hook'[h] = row
      /\ \A g \in Hooks : g # h => hook'[g] = hook[g]
  BY <1>3, <1>5 DEF Shaped
<1>8. /\ notice' \in [Hooks -> SUBSET Pair] /\ notice'[h] = notice[h] \cup {answer}
      /\ \A g \in Hooks : g # h => notice'[g] = notice[g]
  BY <1>4, <1>5 DEF Shaped
<1>9. \A g \in Hooks : hook'[g].live <=> hook[g].live
  BY <1>2, <1>3, <1>7
<1>10. /\ endpoint[h].secret \in Nat /\ endpoint[h].old \in Nat
       /\ \A a \in notice[h] : a.secret \in Nat /\ a.old \in Nat /\ a.until \in Nat
  BY DEF Shaped, Pair, Secret
<1>11. Shaped'
  BY <1>6, <1>7, <1>8 DEF Shaped
<1>12. Timely'
  BY <1>6 DEF Timely, InProgress
<1>13. Informed'
  <2> SUFFICES ASSUME NEW g \in Hooks
               PROVE  /\ endpoint'[g].secret > endpoint'[g].old
                      /\ \A a \in notice'[g] :
                           /\ hook'[g].live
                           /\ a.secret > endpoint'[g].secret /\ a.secret <= hook'[g].secret
                           /\ a.secret > a.old /\ a.old # NoSecret /\ a.until > now'
                           /\ \A b \in notice'[g] : a.secret = b.secret => a = b
                      /\ hook'[g].live =>
                           /\ endpoint'[g].secret <= hook'[g].secret
                           /\ endpoint'[g].secret < hook'[g].secret => Says(g, hook[g])'
    BY DEF Informed
  <2>1. CASE g # h
    BY <1>6, <1>7, <1>8, <2>1 DEF Informed, Says
  <2>2. CASE g = h
    <3>1. /\ endpoint[h].secret > endpoint[h].old /\ endpoint[h].secret <= hook[h].secret
          /\ \A a \in notice[h] :
               /\ a.secret > endpoint[h].secret /\ a.secret <= hook[h].secret
               /\ a.secret > a.old /\ a.old # NoSecret /\ a.until > now
               /\ \A b \in notice[h] : a.secret = b.secret => a = b
      BY <1>2 DEF Informed
    <3>2. /\ answer.secret > endpoint[h].secret /\ answer.until > now
          /\ answer.secret > answer.old /\ answer.old # NoSecret
          /\ \A a \in notice[h] : a.secret <= hook'[h].secret /\ a.secret # answer.secret
          /\ answer.secret <= hook'[h].secret /\ endpoint[h].secret <= hook'[h].secret
      BY <1>2, <1>3, <1>4, <1>7, <1>10, <3>1
    <3>3. Says(h, hook[h])'
      BY <1>3, <1>4, <1>7, <1>8 DEF Says
    <3>4. QED
      BY <1>3, <1>6, <1>7, <1>8, <2>2, <3>1, <3>2, <3>3
  <2>3. QED
    BY <2>1, <2>2
<1>14. Known'
  <2> SUFFICES ASSUME NEW e \in Deliveries, InProgress(e)', NEW g \in delivery'[e].todo,
                      hook'[g].live
               PROVE  KnownOf(e, g)'
    BY DEF Known
  <2>1. InProgress(e) /\ g \in delivery[e].todo /\ g \in Hooks
    BY <1>6 DEF InProgress, Shaped, Calls
  <2>2. KnownOf(e, g)
    BY <1>9, <2>1 DEF Known
  <2>3. CASE g # h
    BY <1>6, <1>8, <2>1, <2>2, <2>3, SameKnown DEF StillKnown
  <2>4. CASE g = h
    <3>1. delivery[e].began \in Nat /\ delivery[e].began <= now
      BY DEF Shaped, Calls, Timely
    <3>2. answer.until > delivery[e].began + 1
      BY <1>2, <1>4, <3>1
    <3>3. Says(h, delivery[e].read[h]) => Says(h, delivery[e].read[h])'
      BY <1>6, <1>8 DEF Says
    <3>4. QED
      BY <1>6, <1>8, <2>2, <2>4, <3>2, <3>3 DEF KnownOf
  <2>5. QED
    BY <2>3, <2>4
<1>15. Held'
  BY <1>6, <1>9 DEF Held, Shaped, Calls, Outcome
<1>16. Witnessed'
  BY <1>6, <1>9 DEF Witnessed
<1>17. Committed'
  BY <1>6, <1>9 DEF Committed, Outcome
<1>18. QED
  BY <1>11, <1>12, <1>13, <1>14, <1>15, <1>16, <1>17

LEMMA AdoptKeeps ==
  ASSUME IInv, NEW h \in Hooks, Adopt(h)
  PROVE  IInv'
<1> USE DEF IInv
<1>1. PICK a \in notice[h] :
        /\ endpoint' = [endpoint EXCEPT ![h] = a]
        /\ notice' = [notice EXCEPT ![h] = {b \in @ : b.secret > a.secret}]
  BY DEF Adopt
<1>2. now' = now /\ delivery' = delivery /\ rows' = rows /\ seen' = seen /\ hook' = hook
  BY DEF Adopt
<1>3. a \in Pair
  BY DEF Shaped
<1>4. /\ endpoint' \in [Hooks -> Pair] /\ endpoint'[h] = a
      /\ \A g \in Hooks : g # h => endpoint'[g] = endpoint[g]
  BY <1>1, <1>3 DEF Shaped
<1>5. /\ notice' \in [Hooks -> SUBSET Pair] /\ notice'[h] = {b \in notice[h] : b.secret > a.secret}
      /\ \A g \in Hooks : g # h => notice'[g] = notice[g]
  BY <1>1 DEF Shaped
<1>6. /\ endpoint[h].secret \in Nat /\ hook[h].secret \in Nat
      /\ \A b \in notice[h] : b.secret \in Nat
  BY DEF Shaped, Pair, HookRow, Secret
<1>7. /\ hook[h].live
      /\ a.secret > endpoint[h].secret /\ a.secret <= hook[h].secret
      /\ a.secret > a.old /\ a.old # NoSecret /\ a.until > now
      /\ \A b \in notice[h] : a.secret = b.secret => a = b
  BY DEF Informed
<1>8. \A b \in notice[h] : b.secret > a.secret => b \in notice'[h]
  BY <1>5
<1>9. Shaped'
  BY <1>2, <1>4, <1>5 DEF Shaped
<1>10. Timely'
  BY <1>2 DEF Timely, InProgress
<1>11. Informed'
  <2> SUFFICES ASSUME NEW g \in Hooks
               PROVE  /\ endpoint'[g].secret > endpoint'[g].old
                      /\ \A b \in notice'[g] :
                           /\ hook'[g].live
                           /\ b.secret > endpoint'[g].secret /\ b.secret <= hook'[g].secret
                           /\ b.secret > b.old /\ b.old # NoSecret /\ b.until > now'
                           /\ \A c \in notice'[g] : b.secret = c.secret => b = c
                      /\ hook'[g].live =>
                           /\ endpoint'[g].secret <= hook'[g].secret
                           /\ endpoint'[g].secret < hook'[g].secret => Says(g, hook[g])'
    BY DEF Informed
  <2>1. CASE g # h
    BY <1>2, <1>4, <1>5, <2>1 DEF Informed, Says
  <2>2. CASE g = h
    <3>1. \A b \in notice[h] :
            /\ hook[h].live /\ b.secret <= hook[h].secret
            /\ b.secret > b.old /\ b.old # NoSecret /\ b.until > now
            /\ \A c \in notice[h] : b.secret = c.secret => b = c
      BY DEF Informed
    <3>2. a.secret < hook[h].secret => Says(h, hook[h])
      BY <1>6, <1>7 DEF Informed
    <3>3. a.secret < hook[h].secret => Says(h, hook[h])'
      BY <1>2, <1>8, <3>2 DEF Says
    <3>4. QED
      BY <1>2, <1>4, <1>5, <1>7, <2>2, <3>1, <3>3 DEF Says
  <2>3. QED
    BY <2>1, <2>2
<1>12. Known'
  <2> SUFFICES ASSUME NEW e \in Deliveries, InProgress(e)', NEW g \in delivery'[e].todo,
                      hook'[g].live
               PROVE  KnownOf(e, g)'
    BY DEF Known
  <2>1. InProgress(e) /\ g \in delivery[e].todo /\ g \in Hooks
    BY <1>2 DEF InProgress, Shaped, Calls
  <2>2. KnownOf(e, g)
    BY <1>2, <2>1 DEF Known
  <2>3. CASE g # h
    BY <1>2, <1>4, <1>5, <2>1, <2>2, <2>3, SameKnown DEF StillKnown
  <2>4. CASE g = h
    <3> DEFINE read == delivery[e].read[h]
    <3>1. read.secret \in Nat
      BY <2>1, <2>4 DEF Timely, HookRow, Secret
    <3>2. read.secret > a.secret => read.secret > endpoint[h].secret
      BY <1>6, <1>7, <3>1
    <3>3. read.secret > a.secret => Says(h, delivery[e].read[h])'
      BY <1>2, <1>8, <2>2, <2>4, <3>2 DEF KnownOf, Says
    <3>4. notice'[h] \cup {endpoint'[h]} \subseteq notice[h] \cup {endpoint[h]}
      BY <1>4, <1>5
    <3>5. QED
      BY <1>2, <1>4, <2>2, <2>4, <3>2, <3>3, <3>4 DEF KnownOf, Says
  <2>5. QED
    BY <2>3, <2>4
<1>13. Held' /\ Witnessed' /\ Committed'
  BY <1>2 DEF Held, Witnessed, Committed
<1>14. QED
  BY <1>9, <1>10, <1>11, <1>12, <1>13

LEMMA ClearKeeps ==
  ASSUME IInv, ClearExpired
  PROVE  IInv'
<1> USE DEF IInv
<1>1. /\ hook' = [h \in Hooks |-> IF Expired(hook[h])
                    THEN [hook[h] EXCEPT !.rotating = NoSecret, !.until = 0]
                    ELSE hook[h]]
      /\ UNCHANGED <<now, delivery, rows, seen, endpoint, notice>>
  BY DEF ClearExpired
<1>2. /\ now' = now /\ delivery' = delivery /\ rows' = rows /\ seen' = seen
      /\ endpoint' = endpoint /\ notice' = notice
  BY <1>1
<1>3. \A h \in Hooks :
        /\ hook'[h] \in HookRow
        /\ hook'[h].live = hook[h].live /\ hook'[h].secret = hook[h].secret
        /\ hook[h].until > now => hook'[h] = hook[h]
  <2> SUFFICES ASSUME NEW h \in Hooks
               PROVE  /\ hook'[h] \in HookRow
                      /\ hook'[h].live = hook[h].live /\ hook'[h].secret = hook[h].secret
                      /\ hook[h].until > now => hook'[h] = hook[h]
    OBVIOUS
  <2>1. hook[h] \in HookRow /\ now \in Nat
    BY WebhookAssumption DEF Shaped
  <2>2. CASE Expired(hook[h])
    <3>1. hook'[h] = [hook[h] EXCEPT !.rotating = NoSecret, !.until = 0]
      BY <1>1, <2>2
    <3>2. ~ (hook[h].until > now)
      BY <2>1, <2>2 DEF Expired, HookRow
    <3>3. /\ [hook[h] EXCEPT !.rotating = NoSecret, !.until = 0] \in HookRow
          /\ [hook[h] EXCEPT !.rotating = NoSecret, !.until = 0].live = hook[h].live
          /\ [hook[h] EXCEPT !.rotating = NoSecret, !.until = 0].secret = hook[h].secret
      BY <2>1 DEF HookRow, NoSecret, Secret
    <3>4. QED
      BY <3>1, <3>2, <3>3
  <2>3. CASE ~ Expired(hook[h])
    BY <1>1, <2>1, <2>3
  <2>4. QED
    BY <2>2, <2>3
<1>4. hook' \in [Hooks -> HookRow]
  <2>1. hook' = [h \in Hooks |-> hook'[h]]
    BY <1>1
  <2>2. QED
    BY <1>3, <2>1
<1>5. Shaped'
  BY <1>2, <1>4 DEF Shaped
<1>6. Timely'
  BY <1>2 DEF Timely, InProgress
<1>7. Informed'
  <2> SUFFICES ASSUME NEW h \in Hooks, hook[h].live, endpoint[h].secret < hook[h].secret
               PROVE  Says(h, hook[h])'
    BY <1>2, <1>3 DEF Informed, Says
  <2>1. PICK a \in notice[h] : /\ a.secret = hook[h].secret /\ a.old = hook[h].rotating
                               /\ a.until = hook[h].until
    BY DEF Informed, Says
  <2>2. hook[h].until > now
    BY <2>1 DEF Informed
  <2>3. QED
    BY <1>2, <1>3, <2>1, <2>2 DEF Says
<1>8. Known'
  <2> SUFFICES ASSUME NEW e \in Deliveries, InProgress(e)', NEW g \in delivery'[e].todo,
                      hook'[g].live
               PROVE  KnownOf(e, g)'
    BY DEF Known
  <2>1. InProgress(e) /\ g \in delivery[e].todo /\ g \in Hooks
    BY <1>2 DEF InProgress, Shaped, Calls
  <2>2. KnownOf(e, g)
    BY <1>3, <2>1 DEF Known
  <2>3. QED
    BY <1>2, <2>2, SameKnown DEF StillKnown
<1>9. Held'
  <2>1. \A d \in Deliveries :
          delivery[d].hook \in Hooks /\ \A o \in delivery[d].flushed : o.hook \in Hooks
    BY DEF Shaped, Calls, Outcome
  <2>2. QED
    BY <1>2, <1>3, <2>1 DEF Held
<1>10. Witnessed'
  BY <1>2, <1>3 DEF Witnessed
<1>11. Committed'
  BY <1>2, <1>3 DEF Committed, Outcome
<1>12. QED
  BY <1>5, <1>6, <1>7, <1>8, <1>9, <1>10, <1>11

LEMMA DeleteKeeps ==
  ASSUME IInv, NEW h \in Hooks, Delete(h)
  PROVE  IInv'
<1> USE DEF IInv
<1>1. /\ hook' = [hook EXCEPT ![h] = Gone] /\ notice' = [notice EXCEPT ![h] = {}]
  BY DEF Delete
<1>2. /\ rows' = {r \in rows : r.row.hook # h}
      /\ now' = now /\ delivery' = delivery /\ seen' = seen /\ endpoint' = endpoint
      /\ ~Locked(h)
  BY DEF Delete
<1>3. Gone \in HookRow /\ ~Gone.live
  BY DEF Gone, HookRow, NoSecret, Secret
<1>4. /\ hook' \in [Hooks -> HookRow] /\ ~hook'[h].live
      /\ \A g \in Hooks : g # h => hook'[g] = hook[g]
  BY <1>1, <1>3 DEF Shaped
<1>5. /\ notice' \in [Hooks -> SUBSET Pair] /\ notice'[h] = {}
      /\ \A g \in Hooks : g # h => notice'[g] = notice[g]
  BY <1>1 DEF Shaped
<1>6. Shaped'
  BY <1>2, <1>4, <1>5 DEF Shaped
<1>7. Timely'
  BY <1>2 DEF Timely, InProgress
<1>8. Informed'
  BY <1>2, <1>4, <1>5 DEF Informed, Says
<1>9. Known'
  <2> SUFFICES ASSUME NEW e \in Deliveries, InProgress(e)', NEW g \in delivery'[e].todo,
                      hook'[g].live
               PROVE  KnownOf(e, g)'
    BY DEF Known
  <2>1. InProgress(e) /\ g \in delivery[e].todo /\ g \in Hooks
    BY <1>2 DEF InProgress, Shaped, Calls
  <2>2. g # h /\ hook'[g] = hook[g]
    BY <1>4, <2>1
  <2>3. KnownOf(e, g)
    BY <2>1, <2>2 DEF Known
  <2>4. StillKnown(e, g)
    BY <1>2, <1>5, <2>1, <2>2 DEF StillKnown
  <2>5. QED
    BY <2>3, <2>4, SameKnown
<1>10. Held'
  <2> SUFFICES ASSUME NEW e \in Deliveries
               PROVE  /\ delivery[e].pc = "post" => hook'[delivery[e].hook].live
                      /\ \A o \in delivery[e].flushed :
                           hook'[o.hook].live /\ o.hook \notin delivery[e].todo
    BY <1>2 DEF Held
  <2>1. delivery[e].hook \in Hooks /\ delivery[e].flushed \subseteq Outcome
    BY DEF Shaped, Calls
  <2>2. delivery[e].pc = "post" => delivery[e].hook # h
    BY <1>2 DEF Locked
  <2>3. \A o \in delivery[e].flushed : o.hook # h
    BY <1>2 DEF Locked
  <2>4. QED
    BY <1>4, <2>1, <2>2, <2>3 DEF Held, Outcome
<1>11. Witnessed'
  BY <1>2, <1>4 DEF Witnessed
<1>12. Committed'
  <2> SUFFICES ASSUME NEW e \in Deliveries, NEW o \in Outcome
               PROVE  [of |-> e, row |-> o] \in rows' <=>
                        /\ delivery'[e].pc = "done" /\ hook'[o.hook].live
                        /\ \E s \in seen'[e] : o = RowOf(delivery'[e].kind, s)
    BY DEF Committed
  <2>1. [of |-> e, row |-> o] \in rows <=>
          /\ delivery[e].pc = "done" /\ hook[o.hook].live
          /\ \E s \in seen[e] : o = RowOf(delivery[e].kind, s)
    BY DEF Committed
  <2>2. o.hook \in Hooks
    BY DEF Outcome
  <2>3. [of |-> e, row |-> o] \in rows' <=> [of |-> e, row |-> o] \in rows /\ o.hook # h
    BY <1>2
  <2>4. hook'[o.hook].live <=> hook[o.hook].live /\ o.hook # h
    BY <1>4, <2>2
  <2>5. QED
    BY <1>2, <2>1, <2>3, <2>4
<1>13. QED
  BY <1>6, <1>7, <1>8, <1>9, <1>10, <1>11, <1>12

LEMMA TickKeeps ==
  ASSUME IInv, Tick
  PROVE  IInv'
<1> USE DEF IInv
<1>1. /\ now < MaxTime /\ now' = now + 1
      /\ \A d \in Deliveries : InProgress(d) => delivery[d].began = now
      /\ \A h \in Hooks : \A answer \in notice[h] : now + 1 < answer.until
      /\ hook' = hook /\ delivery' = delivery /\ rows' = rows /\ seen' = seen
      /\ endpoint' = endpoint /\ notice' = notice
  BY DEF Tick
<1>2. now \in Nat /\ MaxTime \in Nat /\ now' \in 0 .. MaxTime
  BY <1>1, WebhookAssumption DEF Shaped
<1>3. Shaped'
  BY <1>1, <1>2 DEF Shaped
<1>4. Timely'
  <2>1. \A d \in Deliveries : delivery[d].began \in Nat
    BY DEF Shaped, Calls
  <2>2. QED
    BY <1>1, <1>2, <2>1 DEF Timely, InProgress
<1>5. Informed'
  <2>1. \A h \in Hooks : \A a \in notice[h] : a.until \in Nat
    BY DEF Shaped, Pair
  <2>2. \A h \in Hooks : \A a \in notice[h] : a.until > now + 1
    BY <1>1, <1>2, <2>1
  <2>3. QED
    BY <1>1, <2>2 DEF Informed, Says
<1>6. Known' /\ Held' /\ Witnessed' /\ Committed'
  BY <1>1 DEF Known, Held, Witnessed, Committed, InProgress, KnownOf, Says
<1>7. QED
  BY <1>3, <1>4, <1>5, <1>6

LEMMA StutterKeeps ==
  ASSUME IInv, UNCHANGED webhookVars
  PROVE  IInv'
<1>1. /\ now' = now /\ hook' = hook /\ delivery' = delivery /\ rows' = rows /\ seen' = seen
      /\ endpoint' = endpoint /\ notice' = notice
  BY DEF webhookVars
<1>2. QED
  BY <1>1 DEF IInv, Shaped, Timely, Informed, Known, Held, Witnessed, Committed, InProgress,
     KnownOf, Says

(* A retry is of a row of a webhook. *)
LEMMA StepInvariant == IInv /\ [WebhooksNext]_webhookVars => IInv'
<1> SUFFICES ASSUME IInv, [WebhooksNext]_webhookVars
             PROVE  IInv'
  OBVIOUS
<1>0. Shaped /\ Timely
  BY DEF IInv
<1>1. ASSUME NEW d \in Deliveries, Fire(d)
      PROVE  IInv'
  <2>1. PICK listening \in SUBSET Live \ {{}} : Begin(d, "event", listening)
    BY <1>1 DEF Fire
  <2>2. listening \in SUBSET Hooks
    BY DEF Live
  <2>3. Begins(d, listening)
    BY <1>0, <2>1, <2>2, BeginMoves DEF Kinds
  <2>4. QED
    BY <2>2, <2>3, BeginKeeps
<1>2. ASSUME NEW d \in Deliveries, Retry(d)
      PROVE  IInv'
  <2>1. PICK r \in rows : Begin(d, "retry", {r.row.hook})
    BY <1>2 DEF Retry
  <2>2. {r.row.hook} \in SUBSET Hooks
    BY <1>0 DEF Shaped, Outcome
  <2>3. Begins(d, {r.row.hook})
    BY <1>0, <2>1, <2>2, BeginMoves DEF Kinds
  <2>4. QED
    BY <2>2, <2>3, BeginKeeps
<1>3. ASSUME NEW d \in Deliveries, TestWebhook(d)
      PROVE  IInv'
  <2>1. PICK h \in Live : Begin(d, "test", {h})
    BY <1>3 DEF TestWebhook
  <2>2. {h} \in SUBSET Hooks
    BY DEF Live
  <2>3. Begins(d, {h})
    BY <1>0, <2>1, <2>2, BeginMoves DEF Kinds
  <2>4. QED
    BY <2>2, <2>3, BeginKeeps
<1>4. ASSUME NEW d \in Deliveries, Flush(d)
      PROVE  IInv'
  <2>1. CASE RolledBack(d, "failed") /\ \E g \in delivery[d].todo : ~hook[g].live
    <3>1. InProgress(d) /\ Refused(d)
      BY <1>4, <2>1 DEF Flush, InProgress, Refused
    <3>2. QED
      BY <2>1, <3>1, RollbackKeeps
  <2>2. CASE \E g \in Hooks : Signs(d, g)
    BY <2>2, SignKeeps
  <2>3. QED
    BY <1>0, <1>4, <2>1, <2>2, FlushMoves
<1>5. ASSUME NEW d \in Deliveries, Post(d)
      PROVE  IInv'
  <2>1. PICK s \in Report : Tries(d, s) /\ (Recorded(d, s) \/ Retried(d))
    BY <1>0, <1>5, PostMoves
  <2>2. QED
    BY <2>1, TryKeeps
<1>6. ASSUME NEW d \in Deliveries, Commit(d)
      PROVE  IInv'
  BY <1>6, CommitKeeps
<1>7. ASSUME NEW d \in Deliveries, Lose(d)
      PROVE  IInv'
  BY <1>7, RollbackKeeps DEF Lose
<1>8. ASSUME NEW h \in Hooks, Rotate(h) \/ Adopt(h) \/ Delete(h)
      PROVE  IInv'
  BY <1>8, RotateKeeps, AdoptKeeps, DeleteKeeps
<1>9. CASE ClearExpired
  BY <1>9, ClearKeeps
<1>10. CASE Tick
  BY <1>10, TickKeeps
<1>11. CASE UNCHANGED webhookVars
  BY <1>11, StutterKeeps
<1>12. QED
  BY <1>1, <1>2, <1>3, <1>4, <1>5, <1>6, <1>7, <1>8, <1>9, <1>10, <1>11
     DEF WebhooksNext, DeliveryStep

LEMMA Invariant == WebhooksSpec => []IInv
BY InitInvariant, StepInvariant, PTL DEF WebhooksSpec

-------------------------------------------------------------------------------
(* The webhooks keep their types. *)
THEOREM WebhooksTyped == WebhooksSpec => []WebhooksTypeOK
<1>1. IInv => WebhooksTypeOK
  <2> SUFFICES ASSUME IInv
               PROVE  WebhooksTypeOK
    OBVIOUS
  <2>1. /\ now \in 0 .. MaxTime /\ hook \in [Hooks -> HookRow]
        /\ rows \subseteq [of : Deliveries, row : Outcome] /\ endpoint \in [Hooks -> Pair]
    BY DEF IInv, Shaped
  <2>2. \A d \in Deliveries :
          /\ delivery[d].pc \in {"idle", "loop", "post"} \cup Ended
          /\ delivery[d].kind \in Kinds
          /\ delivery[d].hook \in Hooks /\ delivery[d].todo \subseteq Hooks
          /\ delivery[d].signed \subseteq Secret
          /\ delivery[d].began \in 0 .. now
          /\ delivery[d].tries \in 0 .. MaxAttempts - 1
          /\ delivery[d].flushed \subseteq Outcome
          /\ seen[d] \subseteq Report
    <3> SUFFICES ASSUME NEW d \in Deliveries
                 PROVE  /\ delivery[d].pc \in {"idle", "loop", "post"} \cup Ended
                        /\ delivery[d].kind \in Kinds
                        /\ delivery[d].hook \in Hooks /\ delivery[d].todo \subseteq Hooks
                        /\ delivery[d].signed \subseteq Secret
                        /\ delivery[d].began \in 0 .. now
                        /\ delivery[d].tries \in 0 .. MaxAttempts - 1
                        /\ delivery[d].flushed \subseteq Outcome
                        /\ seen[d] \subseteq Report
      OBVIOUS
    <3>1. delivery[d] \in Calls /\ seen[d] \subseteq Report /\ delivery[d].began <= now
      BY DEF IInv, Shaped, Timely
    <3>2. QED
      BY <2>1, <3>1, WebhookAssumption DEF Calls
  <2>3. notice \in [Hooks -> SUBSET Pair]
    BY DEF IInv, Shaped
  <2>4. QED
    BY <2>1, <2>2, <2>3 DEF WebhooksTypeOK
<1>2. QED
  BY <1>1, Invariant, PTL

(* "Old signature accepted for N hours": every attempt of every delivery can *)
(* be verified by an endpoint that is at most one rotation away from the row *)
(* the delivery read, in either direction, whichever other rotations begin   *)
(* meanwhile, for any number of deliveries and webhooks and any grace of     *)
(* more than one unit of time.                                               *)
THEOREM Verifiable == WebhooksSpec => []EveryPostVerifies
<1>1. IInv => EveryPostVerifies
  <2> SUFFICES ASSUME IInv, NEW d \in Deliveries, delivery[d].pc = "post",
                      OneRotationApart(d, delivery[d].hook)
               PROVE  Verifies(delivery[d].hook, delivery[d].signed)
    BY DEF EveryPostVerifies
  <2> DEFINE h == delivery[d].hook
             row == delivery[d].read[h]
  <2>1. /\ h \in Hooks /\ h \in delivery[d].todo /\ hook[h].live /\ InProgress(d)
        /\ row \in HookRow /\ row.secret \in delivery[d].signed
        /\ now <= delivery[d].began + 1
    BY DEF IInv, Shaped, Calls, Timely, Held, InProgress
  <2>2. KnownOf(d, h)
    BY <2>1 DEF IInv, Known
  <2>3. /\ now \in Nat /\ delivery[d].began \in Nat /\ endpoint[h].until \in Nat
        /\ endpoint[h].secret \in Nat /\ endpoint[h].old \in Nat /\ row.secret \in Nat
        /\ endpoint[h].secret > endpoint[h].old
    BY <2>1, WebhookAssumption DEF IInv, Shaped, Calls, Pair, HookRow, Secret, Informed
  <2>4. CASE row.secret = endpoint[h].secret
    BY <2>1, <2>4 DEF Verifies, Accepts
  <2>5. CASE row.secret = endpoint[h].old
    <3>1. endpoint[h].until > delivery[d].began + 1 /\ row.secret # NoSecret
      BY <2>2, <2>3, <2>5 DEF KnownOf
    <3>2. endpoint[h].old \in Accepts(h)
      BY <2>1, <2>3, <2>5, <3>1 DEF Accepts
    <3>3. QED
      BY <2>1, <2>5, <3>2 DEF Verifies
  <2>6. ASSUME NEW answer \in notice[h], answer.secret = row.secret,
               answer.old = endpoint[h].secret
        PROVE  Verifies(h, delivery[d].signed)
    <3>1. row.secret > endpoint[h].secret
      BY <2>1, <2>6 DEF IInv, Informed
    <3>2. row.rotating \in delivery[d].signed /\ Says(h, row)
      BY <2>2, <3>1 DEF KnownOf
    <3>3. PICK a \in notice[h] : a.secret = row.secret /\ a.old = row.rotating
      BY <3>2 DEF Says
    <3>4. a = answer
      BY <2>1, <2>6, <3>3 DEF IInv, Informed
    <3>5. QED
      BY <2>6, <3>2, <3>3, <3>4 DEF Verifies, Accepts
  <2>7. QED
    BY <2>4, <2>5, <2>6 DEF OneRotationApart
<1>2. QED
  BY <1>1, Invariant, PTL

(* What the table of deliveries says is what the endpoints saw: of every     *)
(* delivery that has ended well, a row for each webhook not deleted since;   *)
(* and it says nothing of any other, which, though endpoints may have        *)
(* received its attempts, was lost with its process or came to a webhook     *)
(* that was gone.                                                            *)
THEOREM RowsAreTrue == WebhooksSpec => []RowsTellTheTruth
<1>1. IInv => RowsTellTheTruth
  <2> SUFFICES ASSUME IInv, NEW d \in Deliveries
               PROVE  {r.row : r \in {r \in rows : r.of = d}} =
                        IF delivery[d].pc = "done"
                        THEN {RowOf(delivery[d].kind, s) : s \in {s \in seen[d] : hook[s.hook].live}}
                        ELSE {}
    BY DEF RowsTellTheTruth, IInv, Witnessed
  <2>1. \A o : o \in {r.row : r \in {r \in rows : r.of = d}} <=>
                 o \in Outcome /\ [of |-> d, row |-> o] \in rows
    BY DEF IInv, Shaped
  <2>2. \A o \in Outcome : [of |-> d, row |-> o] \in rows <=>
          /\ delivery[d].pc = "done" /\ hook[o.hook].live
          /\ \E s \in seen[d] : o = RowOf(delivery[d].kind, s)
    BY DEF IInv, Committed
  <2>3. \A s \in seen[d] : /\ RowOf(delivery[d].kind, s) \in Outcome
                           /\ RowOf(delivery[d].kind, s).hook = s.hook
    BY ReportedRow DEF IInv, Shaped
  <2>4. QED
    BY <2>1, <2>2, <2>3
<1>2. QED
  BY <1>1, Invariant, PTL
===============================================================================
