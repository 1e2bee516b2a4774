----------------------------- MODULE Agents_proofs -----------------------------
(* Those whom the service answers: what agents, dashboards and callers are  *)
(* told, and what the changes of members and agents come to, for every set  *)
(* of them.                                                                 *)
EXTENDS Platform, CircuitBreaker_proofs, Platform_proofs, SequenceTheorems

-------------------------------------------------------------------------------
(* An agent's side of an approval: the deadline *)

(* The request of u was not decided more than x ticks before moment y.      *)
NotBefore(u, x, y) == approval[u].status \in Decision => approval[u].at + x >= y

(* How far the clock has come since a use began its wait, and how long a    *)
(* decision may have gone unheard.                                          *)
Waiting(u) ==
  /\ Is(u, "asked") /\ use[u].verdict = "APPROVAL_REQUIRED" => NotBefore(u, 0, time)
  /\ Is(u, "polling") => use[u].since <= time /\ NotBefore(u, PollEvery, time)
  /\ Is(u, "requesting") =>
       /\ use[u].mark <= time /\ time <= use[u].mark + Reply
       /\ NotBefore(u, PollEvery, use[u].mark)
  /\ Is(u, "replied") /\ use[u].seen = "pending" => NotBefore(u, 0, time)
  /\ Is(u, "sleeping") =>
       /\ time <= use[u].mark /\ use[u].mark <= time + PollEvery
       /\ NotBefore(u, PollEvery, use[u].mark)
  /\ use[u].pc \in {"requesting", "replied", "sleeping"} => use[u].since <= time
  /\ Is(u, "timed_out") =>
       /\ time >= use[u].since + GiveUp
       /\ NotBefore(u, PollEvery + Reply, use[u].since + GiveUp)

WaitInv == \A u \in Uses : Waiting(u)

(* What the proof says of use u alone, apart from the numbers. *)
LEMMA UseFields ==
  ASSUME ClientTypeOK, NEW u \in Uses
  PROVE  /\ use[u] \in UseRow /\ DOMAIN use = Uses
         /\ approval[u] \in [status : Status, at : 0 .. LastHour] /\ DOMAIN approval = Uses
         /\ time \in Nat /\ approval[u].at \in Nat /\ use[u].since \in Nat /\ use[u].mark \in Nat
         /\ PollEvery \in Nat /\ GiveUp \in Nat /\ Reply \in Nat
  BY ClientAssumption DEF ClientTypeOK, UseRow

(* A step of use u alone, that leaves the clock and the requests as they are. *)
LEMMA OwnWait ==
  ASSUME WaitInv, NEW u \in Uses, UNCHANGED <<time, approval>>,
         \A o \in Uses \ {u} : use'[o] = use[o], Waiting(u)'
  PROVE  WaitInv'
<1> SUFFICES ASSUME NEW o \in Uses PROVE Waiting(o)'
  BY DEF WaitInv
<1>1. CASE o = u
  BY <1>1
<1>2. CASE o # u
  BY <1>2 DEF WaitInv, Waiting, NotBefore, Is
<1> QED BY <1>1, <1>2

(* The same, when u has come to a place of which nothing is said. *)
LEMMA ElsewhereWait ==
  ASSUME WaitInv, NEW u \in Uses, UNCHANGED <<time, approval>>,
         \A o \in Uses \ {u} : use'[o] = use[o],
         use'[u].pc \notin {"asked", "polling", "requesting", "replied", "sleeping", "timed_out"}
  PROVE  WaitInv'
<1>1. Waiting(u)'
  BY DEF Waiting, Is
<1> QED BY <1>1, OwnWait

(* Use u changes only its place. *)
LEMMA PlaceOnly ==
  ASSUME ClientTypeOK, NEW u \in Uses, NEW place, Now(u, place)
  PROVE  /\ use'[u].pc = place /\ use'[u].verdict = use[u].verdict /\ use'[u].seen = use[u].seen
         /\ use'[u].since = use[u].since /\ use'[u].mark = use[u].mark
         /\ \A o \in Uses \ {u} : use'[o] = use[o]
  BY UseFields DEF Now, UseRow

LEMMA AnswerWaits ==
  ASSUME ClientTypeOK, WaitInv, NEW u \in Uses, Answers(u) \/ EvaluationRaises(u)
  PROVE  WaitInv'
<1>1. /\ time' = time
      /\ \A o \in Uses \ {u} : use'[o] = use[o] /\ approval'[o] = approval[o]
  BY UseFields DEF Answers, EvaluationRaises, Now, Requested, UseRow
<1>2. Waiting(u)'
  <2>1. CASE Answers(u)
    <3>1. use'[u].pc = "asked"
      BY <2>1, UseFields DEF Answers, UseRow
    <3>2. use'[u].verdict = "APPROVAL_REQUIRED" => approval'[u].status = "pending"
      BY <2>1, UseFields DEF Answers, Requested, UseRow
    <3> QED BY <3>1, <3>2 DEF Waiting, NotBefore, Is, Decision
  <2>2. CASE EvaluationRaises(u)
    BY <2>2, PlaceOnly DEF EvaluationRaises, Waiting, Is
  <2> QED BY <2>1, <2>2
<1>3. \A o \in Uses \ {u} : Waiting(o)'
  BY <1>1 DEF WaitInv, Waiting, NotBefore, Is
<1> QED BY <1>2, <1>3 DEF WaitInv

LEMMA EnforcedWaits ==
  ASSUME ClientTypeOK, HeardRight, WaitInv, NEW u \in Uses, Enforced(u)
  PROVE  WaitInv'
<1> DEFINE place == IF Permits(u) THEN "ran"
                    ELSE IF use[u].verdict = "DENY" THEN "refused" ELSE "polling"
<1>1. /\ use' = [use EXCEPT ![u].pc = place, ![u].since = time]
      /\ Is(u, "asked") /\ UNCHANGED <<time, approval>>
  BY DEF Enforced
<1>2. use[u].verdict \in {"ALLOW", "DENY", "APPROVAL_REQUIRED"}
  BY <1>1, UseFields DEF UseRow, Verdict, HeardRight
<1>3. place \in {"ran", "refused", "polling"}
      /\ (place = "polling" => use[u].verdict = "APPROVAL_REQUIRED")
  BY <1>2 DEF Permits
<1> HIDE DEF place
<1>4. use'[u].pc = place /\ use'[u].since = time /\ \A o \in Uses \ {u} : use'[o] = use[o]
  BY <1>1, UseFields DEF UseRow
<1>5. CASE place = "polling"
  <2>1. NotBefore(u, 0, time)
    BY <1>1, <1>3, <1>5 DEF WaitInv, Waiting
  <2>2. NotBefore(u, PollEvery, time)'
    BY <1>1, <2>1, UseFields DEF NotBefore
  <2>3. Waiting(u)'
    BY <1>1, <1>4, <1>5, <2>2, UseFields DEF Waiting, Is
  <2> QED BY <1>1, <1>4, <2>3, OwnWait
<1>6. CASE place # "polling"
  BY <1>1, <1>3, <1>4, <1>6, ElsewhereWait
<1> QED BY <1>5, <1>6

LEMMA DeadlineWaits ==
  ASSUME ClientTypeOK, WaitInv, NEW u \in Uses, CheckDeadline(u) \/ GoDeadline(u)
  PROVE  WaitInv'
<1>1. UNCHANGED <<time, approval>>
  BY DEF CheckDeadline, GoDeadline
<1>2. CASE Now(u, "timed_out") /\ Late(u) /\ NotBefore(u, PollEvery + Reply, time)
  <2>1. time >= use[u].since + GiveUp
    BY <1>2, UseFields DEF Late
  <2>2. NotBefore(u, PollEvery + Reply, use[u].since + GiveUp)
    BY <1>2, <2>1, UseFields DEF NotBefore
  <2>3. NotBefore(u, PollEvery + Reply, use[u].since + GiveUp)'
    BY <1>1, <1>2, <2>2, PlaceOnly DEF NotBefore
  <2>4. Waiting(u)'
    BY <1>1, <1>2, <2>1, <2>3, PlaceOnly DEF Waiting, Is
  <2> QED BY <1>1, <1>2, <2>4, PlaceOnly, OwnWait
<1>3. CASE CheckDeadline(u)
  <2>1. Is(u, "polling") /\ NotBefore(u, PollEvery, time) /\ use[u].since <= time
    BY <1>3 DEF CheckDeadline, WaitInv, Waiting
  <2>2. CASE Late(u)
    <3>1. Now(u, "timed_out")
      BY <1>3, <2>2 DEF CheckDeadline, Now
    <3>2. NotBefore(u, PollEvery + Reply, time)
      BY <2>1, UseFields DEF NotBefore
    <3> QED BY <1>2, <2>2, <3>1, <3>2
  <2>3. CASE ~Late(u)
    <3>1. /\ use'[u].pc = "requesting" /\ use'[u].mark = time /\ use'[u].since = use[u].since
          /\ \A o \in Uses \ {u} : use'[o] = use[o]
      BY <1>3, <2>3, UseFields DEF CheckDeadline, UseRow
    <3>2. NotBefore(u, PollEvery, use[u].mark)'
      BY <1>1, <2>1, <3>1 DEF NotBefore
    <3>3. Waiting(u)'
      BY <1>1, <2>1, <3>1, <3>2, UseFields DEF Waiting, Is
    <3> QED BY <1>1, <3>1, <3>3, OwnWait
  <2> QED BY <2>2, <2>3
<1>4. CASE GoDeadline(u)
  <2>1. NotBefore(u, PollEvery + Reply, time)
    <3>1. CASE Is(u, "requesting")
      BY <3>1, UseFields DEF WaitInv, Waiting, NotBefore
    <3>2. CASE Is(u, "sleeping")
      BY <3>2, UseFields DEF WaitInv, Waiting, NotBefore
    <3> QED BY <1>4, <3>1, <3>2 DEF GoDeadline
  <2> QED BY <1>2, <1>4, <2>1 DEF GoDeadline
<1> QED BY <1>3, <1>4

LEMMA PollWaits ==
  ASSUME ClientTypeOK, WaitInv, NEW u \in Uses,
         GetApproval(u) \/ Sleep(u) \/ GoSelect(u) \/ Wake(u)
  PROVE  WaitInv'
<1>1. UNCHANGED <<time, approval>>
  BY DEF GetApproval, Sleep, GoSelect, Wake
<1>2. CASE GetApproval(u)
  <2>1. /\ use'[u].pc = "replied" /\ use'[u].seen = approval[u].status
        /\ use'[u].since = use[u].since /\ \A o \in Uses \ {u} : use'[o] = use[o]
    BY <1>2, UseFields DEF GetApproval, UseRow
  <2>2. use[u].since <= time
    BY <1>2 DEF GetApproval, Is, WaitInv, Waiting
  <2>3. Waiting(u)'
    BY <1>1, <2>1, <2>2 DEF Waiting, NotBefore, Is, Decision
  <2> QED BY <1>1, <2>1, <2>3, OwnWait
<1>3. CASE Sleep(u) \/ GoSelect(u)
  <2>1. /\ Is(u, "replied") /\ use[u].seen = "pending"
        /\ \E t \in time + 1..time + PollEvery :
             use' = [use EXCEPT ![u].pc = "sleeping", ![u].mark = t]
    <3>1. CASE Sleep(u)
      <4>1. time + PollEvery \in time + 1..time + PollEvery
        BY ClientAssumption, UseFields
      <4> QED BY <3>1, <4>1 DEF Sleep, Pause
    <3> QED BY <1>3, <3>1 DEF GoSelect
  <2>2. PICK t \in time + 1..time + PollEvery :
          use' = [use EXCEPT ![u].pc = "sleeping", ![u].mark = t]
    BY <2>1
  <2>3. /\ use'[u].pc = "sleeping" /\ use'[u].mark = t /\ use'[u].since = use[u].since
        /\ \A o \in Uses \ {u} : use'[o] = use[o]
    BY <2>2, UseFields DEF UseRow
  <2>4. NotBefore(u, 0, time) /\ use[u].since <= time
    BY <2>1 DEF WaitInv, Waiting, Is
  <2>5. NotBefore(u, PollEvery, t)
    BY <2>2, <2>4, UseFields DEF NotBefore
  <2>6. NotBefore(u, PollEvery, use[u].mark)'
    BY <1>1, <2>3, <2>5 DEF NotBefore
  <2>7. time <= t /\ t <= time + PollEvery
    BY <2>2, UseFields
  <2>8. Waiting(u)'
    BY <1>1, <2>3, <2>4, <2>6, <2>7 DEF Waiting, Is
  <2> QED BY <1>1, <2>3, <2>8, OwnWait
<1>4. CASE Wake(u)
  <2>1. Is(u, "sleeping") /\ time >= use[u].mark /\ Now(u, "polling")
    BY <1>4 DEF Wake
  <2>2. use[u].since <= time /\ use[u].mark = time /\ NotBefore(u, PollEvery, use[u].mark)
    BY <2>1, UseFields DEF WaitInv, Waiting, Is
  <2>3. NotBefore(u, PollEvery, time)'
    BY <1>1, <2>2 DEF NotBefore
  <2>4. Waiting(u)'
    BY <1>1, <2>1, <2>2, <2>3, PlaceOnly DEF Waiting, Is
  <2> QED BY <1>1, <2>1, <2>4, PlaceOnly, OwnWait
<1> QED BY <1>2, <1>3, <1>4

LEMMA ApproverWaits ==
  ASSUME ClientTypeOK, WaitInv, NEW u \in Uses, Approver(u)
  PROVE  WaitInv'
<1>1. /\ UNCHANGED <<time, use>> /\ approval'[u].at = time
      /\ \A o \in Uses \ {u} : approval'[o] = approval[o]
  BY UseFields DEF Approver
<1>2. \A o \in Uses \ {u} : Waiting(o)'
  BY <1>1 DEF WaitInv, Waiting, NotBefore, Is
<1>3. Waiting(u)
  BY DEF WaitInv
<1>4. use'[u].mark = use[u].mark /\ use'[u].since = use[u].since
  BY <1>1
<1>5. Waiting(u)'
  <2>1. Is(u, "requesting") => NotBefore(u, PollEvery, use[u].mark)'
    BY <1>1, <1>3, <1>4, UseFields DEF Waiting, NotBefore
  <2>2. Is(u, "sleeping") => NotBefore(u, PollEvery, use[u].mark)'
    BY <1>1, <1>3, <1>4, UseFields DEF Waiting, NotBefore
  <2>3. Is(u, "timed_out") => NotBefore(u, PollEvery + Reply, use[u].since + GiveUp)'
    BY <1>1, <1>3, <1>4, UseFields DEF Waiting, NotBefore
  <2>4. NotBefore(u, 0, time)' /\ NotBefore(u, PollEvery, time)'
    BY <1>1, UseFields DEF NotBefore
  <2> QED BY <1>1, <1>3, <2>1, <2>2, <2>3, <2>4 DEF Waiting, Is
<1> QED BY <1>2, <1>5 DEF WaitInv

LEMMA ElapseWaits ==
  ASSUME ClientTypeOK, WaitInv, Elapse
  PROVE  WaitInv'
<1> SUFFICES ASSUME NEW u \in Uses PROVE Waiting(u)'
  BY DEF WaitInv
<1>1. time' = time + 1 /\ UNCHANGED <<approval, use>> /\ ~Due(u)
  BY DEF Elapse
<1>2. /\ ~Is(u, "asked") /\ ~Is(u, "polling") /\ ~Is(u, "replied")
      /\ Is(u, "requesting") => time < use[u].mark + Reply
      /\ Is(u, "sleeping") => time < use[u].mark
  BY <1>1, UseFields DEF Due
<1>3. Waiting(u)
  BY DEF WaitInv
<1> QED BY <1>1, <1>2, <1>3, UseFields DEF Waiting, NotBefore, Is

(* A wait that ends at its deadline was given no decision in time, for any  *)
(* number of uses, intervals and deadlines: an answer that came a poll and  *)
(* a reply before the deadline has been heard.                              *)
LEMMA TimesOutLate == ClientSpec => []TimeoutIsLate
<1>1. ClientInit(Uses) => WaitInv
  BY DEF ClientInit, WaitInv, Waiting, Is
<1>2. ClientTypeOK /\ HeardRight /\ WaitInv /\ [ClientNext]_clientVars => WaitInv'
  <2> SUFFICES ASSUME ClientTypeOK, HeardRight, WaitInv, [ClientNext]_clientVars PROVE WaitInv'
    OBVIOUS
  <2>1. ASSUME NEW u \in Uses,
               RequestFails(u) \/ Cancel(u) \/ HeardBlocking(u) \/ HeardAwaiting(u)
                 \/ CalledBack(u) \/ GoReturned(u)
        PROVE  WaitInv'
    <3>1. UNCHANGED <<time, approval>>
          /\ \E place \in {"failed", "cancelled", "ran", "refused", "answered"} : Now(u, place)
      BY <2>1 DEF RequestFails, Cancel, HeardBlocking, HeardAwaiting, CalledBack, GoReturned
    <3> QED BY <3>1, PlaceOnly, ElsewhereWait
  <2>2. CASE UNCHANGED clientVars
    BY <2>2 DEF clientVars, WaitInv, Waiting, NotBefore, Is
  <2> QED BY <2>1, <2>2, AnswerWaits, EnforcedWaits, DeadlineWaits, PollWaits, ApproverWaits,
             ElapseWaits
       DEF ClientNext, Progress, Evaluated, AsyncEvaluated, BeforeTool, AsyncBeforeTool, HandOff,
           Waited, AsyncWaited, Awaited, AsyncAwaited
<1>3. ClientTypeOK /\ WaitInv => TimeoutIsLate
  <2> SUFFICES ASSUME ClientTypeOK, WaitInv, NEW u \in Uses, Is(u, "timed_out"),
                      approval[u].status \in Decision
               PROVE  approval[u].at + PollEvery + Reply >= use[u].since + GiveUp
    BY DEF TimeoutIsLate
  <2>1. NotBefore(u, PollEvery + Reply, use[u].since + GiveUp)
    BY DEF WaitInv, Waiting
  <2> QED BY <2>1, UseFields DEF NotBefore
<1> QED BY <1>1, <1>2, <1>3, ClientInvariant, PTL DEF ClientSpec

-------------------------------------------------------------------------------
(* The dashboards *)

LEMMA LeastIndex ==
  ASSUME NEW T \in SUBSET Nat, T # {}
  PROVE  \E x \in T : \A y \in T : x <= y
<1> DEFINE Less == {ss \in Nat \X Nat : ss[1] < ss[2]}
<1>1. IsWellFoundedOn(Less, Nat)
  BY NatLessThanWellFounded, Zenon DEF OpToRel
<1>2. PICK x \in T : \A y \in T : ~ (<<y, x>> \in Less)
  <2> HIDE DEF Less
  <2> QED BY <1>1, WFMin
<1>3. \A y \in T : y < x => <<y, x>> \in Less
  OBVIOUS
<1>4. x \in Nat /\ \A y \in T : y \in Nat /\ ~ (y < x)
  <2> HIDE DEF Less
  <2> QED BY <1>2, <1>3
<1> QED BY <1>4

(* Taking the first e out of a sequence takes out nothing else. *)
LEMMA RemoveFirstKeeps ==
  ASSUME NEW S, NEW q \in Seq(S), NEW e
  PROVE  /\ RemoveFirst(q, e) \in Seq(S)
         /\ \A t : t # e => (Contains(RemoveFirst(q, e), t) <=> Contains(q, t))
<1>1. CASE \A i \in 1..Len(q) : q[i] # e
  <2>1. RemoveFirst(q, e) = q
    BY <1>1 DEF RemoveFirst
  <2> QED BY <2>1
<1>2. CASE \E i \in 1..Len(q) : q[i] = e
  <2> DEFINE k == SelectInSeq(q, LAMBDA v : v = e)
             I == {i \in 1..Len(q) : q[i] = e}
  <2>1. RemoveFirst(q, e) = RemoveAt(q, k)
    BY <1>2, Zenon DEF RemoveFirst
  <2>2. k \in 1..Len(q) /\ q[k] = e
    <3>1. \E i \in I : \A j \in I : i <= j
      <4>1. I \in SUBSET Nat /\ I # {}
        BY <1>2
      <4> HIDE DEF I
      <4> QED BY <4>1, LeastIndex
    <3>2. k = Min(I)
      BY <1>2, Zenon DEF SelectInSeq
    <3>3. Min(I) \in I
      BY <3>1 DEF Min
    <3> QED BY <3>2, <3>3
  <2> HIDE DEF k
  <2> DEFINE a == SubSeq(q, 1, k - 1)
             b == SubSeq(q, k + 1, Len(q))
  <2>3. /\ a \in Seq(S) /\ Len(a) = k - 1 /\ \A i \in 1..k - 1 : a[i] = q[i]
        /\ b \in Seq(S) /\ Len(b) = Len(q) - k /\ \A i \in 1..Len(q) - k : b[i] = q[i + k]
    BY <2>2
  <2> HIDE DEF a, b
  <2>4. /\ a \o b \in Seq(S) /\ Len(a \o b) = Len(q) - 1
        /\ \A i \in 1..k - 1 : (a \o b)[i] = q[i]
        /\ \A i \in k..Len(q) - 1 : (a \o b)[i] = q[i + 1]
    <3>1. a \o b \in Seq(S) /\ Len(a \o b) = Len(a) + Len(b)
      BY <2>3
    <3>2. Len(a \o b) = Len(q) - 1
      BY <2>2, <2>3, <3>1
    <3>3. \A i \in 1..k - 1 : (a \o b)[i] = a[i]
      BY <2>2, <2>3
    <3>4. ASSUME NEW i \in k..Len(q) - 1 PROVE (a \o b)[i] = q[i + 1]
      <4>1. i - (k - 1) \in 1..Len(q) - k /\ (i - (k - 1)) + k = i + 1
        BY <2>2
      <4>2. (a \o b)[i] = b[i - (k - 1)]
        BY <2>2, <2>3, <4>1
      <4> QED BY <2>3, <4>1, <4>2
    <3> QED BY <2>3, <3>1, <3>2, <3>3, <3>4
  <2>5. ASSUME NEW t, t # e
        PROVE  Contains(a \o b, t) <=> Contains(q, t)
    <3>1. ASSUME NEW i \in 1..Len(q), q[i] = t PROVE \E j \in 1..Len(a \o b) : (a \o b)[j] = t
      <4>1. CASE i < k
        <5>1. i \in 1..k - 1 /\ i \in 1..Len(q) - 1
          BY <2>2, <4>1
        <5>2. (a \o b)[i] = q[i]
          BY <2>4, <5>1
        <5>3. i \in 1..Len(a \o b)
          BY <2>4, <5>1
        <5> QED BY <3>1, <5>2, <5>3
      <4>2. CASE i > k
        <5>1. i - 1 \in k..Len(q) - 1 /\ (i - 1) + 1 = i
          BY <2>2, <4>2
        <5>2. (a \o b)[i - 1] = q[(i - 1) + 1]
          BY <2>4, <5>1
        <5>3. i - 1 \in 1..Len(a \o b)
          BY <2>2, <2>4, <5>1
        <5> QED BY <3>1, <5>1, <5>2, <5>3
      <4> QED BY <2>2, <2>5, <3>1, <4>1, <4>2
    <3>2. ASSUME NEW j \in 1..Len(a \o b), (a \o b)[j] = t PROVE \E i \in 1..Len(q) : q[i] = t
      <4>1. CASE j < k
        <5>1. j \in 1..k - 1 /\ j \in 1..Len(q)
          BY <2>2, <4>1
        <5>2. (a \o b)[j] = q[j]
          BY <2>4, <5>1
        <5> QED BY <3>2, <5>1, <5>2
      <4>2. CASE j >= k
        <5>1. j \in k..Len(q) - 1 /\ j + 1 \in 1..Len(q)
          BY <2>2, <2>4, <4>2
        <5>2. (a \o b)[j] = q[j + 1]
          BY <2>4, <5>1
        <5> QED BY <3>2, <5>1, <5>2
      <4>3. j < k \/ j >= k
        BY <2>2, <2>4
      <4> QED BY <4>1, <4>2, <4>3
    <3> QED BY <3>1, <3>2 DEF Contains
  <2>6. RemoveFirst(q, e) = a \o b
    BY <2>1 DEF RemoveAt, a, b
  <2> QED BY <2>4, <2>5, <2>6
<1> QED BY <1>1, <1>2

LEMMA Regroup ==
  ASSUME NEW S, NEW a \in Seq(S), NEW h \in Seq(S), NEW q \in Seq(S), NEW x \in S
  PROVE  /\ a \o h \o Append(q, x) = Append(a \o h \o q, x)
         /\ (a \o h) \o <<>> \o q = a \o h \o q
         /\ q # <<>> => a \o <<Head(q)>> \o Tail(q) = a \o <<>> \o q
<1>1. a \o h \in Seq(S) /\ a \o <<>> = a /\ (a \o h) \o <<>> = a \o h
  OBVIOUS
<1>2. \A g \in Seq(S) : g \o Append(q, x) = Append(g \o q, x)
  OBVIOUS
<1>3. CASE q # <<>>
  <2>1. Head(q) \in S /\ Tail(q) \in Seq(S) /\ Len(Tail(q)) = Len(q) - 1
        /\ Len(q) \in Nat \ {0} /\ Head(q) = q[1] /\ \A i \in 1..Len(q) - 1 : Tail(q)[i] = q[i + 1]
    BY <1>3
  <2> DEFINE b == a \o <<Head(q)>>
             t == Tail(q)
  <2>2. b \in Seq(S) /\ Len(b) = Len(a) + 1 /\ b[Len(a) + 1] = q[1]
        /\ \A i \in 1..Len(a) : b[i] = a[i]
    BY <2>1
  <2>3. t \in Seq(S) /\ Len(t) = Len(q) - 1 /\ \A i \in 1..Len(q) - 1 : t[i] = q[i + 1]
    BY <2>1
  <2> HIDE DEF b, t
  <2>4. Len(b \o t) = Len(a \o q) /\ b \o t \in Seq(S) /\ a \o q \in Seq(S)
    <3>1. b \o t \in Seq(S) /\ Len(b \o t) = Len(b) + Len(t)
      BY <2>2, <2>3, ConcatProperties
    <3>2. Len(b) + Len(t) = Len(a) + Len(q)
      BY <2>1, <2>2, <2>3
    <3> QED BY <3>1, <3>2
  <2>5. ASSUME NEW i \in 1..Len(a \o q) PROVE (b \o t)[i] = (a \o q)[i]
    <3>0. i \in 1..Len(a) + Len(q) /\ Len(a) \in Nat
      OBVIOUS
    <3>1. CASE i <= Len(a)
      BY <2>2, <2>3, <3>0, <3>1
    <3>2. CASE i = Len(a) + 1
      BY <2>1, <2>2, <2>3, <3>2
    <3>3. CASE i > Len(a) + 1
      <4>1. i - (Len(a) + 1) \in 1..Len(q) - 1 /\ (i - (Len(a) + 1)) + 1 = i - Len(a)
        BY <2>1, <3>0, <3>3
      <4>2. (b \o t)[i] = t[i - (Len(a) + 1)]
        BY <2>2, <2>3, <4>1
      <4>3. (a \o q)[i] = q[i - Len(a)]
        BY <2>1, <3>0, <3>3
      <4> QED BY <2>3, <4>1, <4>2, <4>3
    <3>4. i \in Nat /\ Len(a) \in Nat
      BY <3>0, <2>1
    <3>5. i <= Len(a) \/ i = Len(a) + 1 \/ i > Len(a) + 1
      BY <3>4
    <3> QED BY <3>1, <3>2, <3>3, <3>5, Zenon
  <2>6. b \o t = a \o q
    BY <2>4, <2>5, SMTT(30)
  <2> QED BY <1>1, <1>2, <2>6 DEF b, t
<1> QED BY <1>1, <1>2, <1>3

(* Growing by a last event keeps a sequence whole. *)
Whole(h, M) ==
  /\ \A i, j \in DOMAIN h : i < j => h[i] < h[j]
  /\ Range(h) = M

LEMMA GrowsWhole ==
  ASSUME NEW n \in Nat, NEW S \in SUBSET Nat, NEW h \in Seq(S), NEW M \in SUBSET (1..n),
         Whole(h, M), n + 1 \in S
  PROVE  Whole(Append(h, n + 1), M \cup {n + 1})
<1> DEFINE g == Append(h, n + 1)
           k == Len(h)
<1>1. k \in Nat /\ DOMAIN h = 1..k /\ DOMAIN g = 1..k + 1
      /\ (\A i \in 1..k : g[i] = h[i]) /\ g[k + 1] = n + 1
  OBVIOUS
<1>2. ASSUME NEW i \in 1..k PROVE h[i] \in M /\ h[i] < n + 1
  <2>1. h[i] \in Range(h)
    BY <1>1 DEF Range
  <2>2. Range(h) = M
    BY DEF Whole
  <2>3. h[i] \in M /\ h[i] \in 1..n
    BY <2>1, <2>2
  <2> QED BY <2>3
<1> HIDE DEF g, k
<1>3. \A i, j \in 1..k + 1 : i < j => g[i] < g[j]
  <2> SUFFICES ASSUME NEW i \in 1..k + 1, NEW j \in 1..k + 1, i < j PROVE g[i] < g[j]
    OBVIOUS
  <2>1. i \in 1..k
    BY <1>1
  <2>2. CASE j \in 1..k
    BY <1>1, <2>1, <2>2 DEF Whole
  <2>3. CASE j = k + 1
    BY <1>1, <1>2, <2>1, <2>3
  <2> QED BY <1>1, <2>2, <2>3
<1>4. Range(g) = M \cup {n + 1}
  <2>1. Range(g) \subseteq M \cup {n + 1}
    BY <1>1, <1>2 DEF Range
  <2>2. ASSUME NEW m \in M PROVE m \in Range(g)
    <3>1. Range(h) = M
      BY DEF Whole
    <3>2. PICK i \in DOMAIN h : h[i] = m
      BY <3>1 DEF Range
    <3>3. i \in DOMAIN g /\ g[i] = m
      BY <1>1, <3>2
    <3> QED BY <3>3 DEF Range
  <2>3. n + 1 \in Range(g)
    <3>1. k + 1 \in DOMAIN g
      BY <1>1
    <3> QED BY <1>1, <3>1 DEF Range
  <2> QED BY <2>1, <2>2, <2>3
<1> QED BY <1>1, <1>3, <1>4 DEF Whole, g

SocketRow ==
  [pc : SocketPlaces, there : BOOLEAN, held : Seq(1..MaxEvents), sent : Seq(1..MaxEvents)]

(* A dashboard that is there is subscribed while its handler runs, its     *)
(* handler holds an event only to send it, and it has heard what it should. *)
Whereabouts(s) ==
  socket[s].there =>
    /\ Contains(subscribers, s) <=> Listens(s)
    /\ socket[s].pc # "sending" => socket[s].held = <<>>
    /\ Whole(Heard(s), Meant(s))

StreamInv == StreamTypeOK /\ \A s \in Sockets : Whereabouts(s)

LEMMA SocketFields ==
  ASSUME StreamTypeOK, NEW s \in Sockets
  PROVE  /\ socket[s] \in SocketRow /\ DOMAIN socket = Sockets
         /\ socket[s].sent \in Seq(1..MaxEvents) /\ socket[s].held \in Seq(1..MaxEvents)
         /\ queue[s] \in Seq(1..MaxEvents) /\ DOMAIN queue = Sockets
         /\ Heard(s) \in Seq(1..MaxEvents)
<1>1. /\ socket[s] \in SocketRow /\ DOMAIN socket = Sockets
      /\ socket[s].sent \in Seq(1..MaxEvents) /\ socket[s].held \in Seq(1..MaxEvents)
      /\ queue[s] \in Seq(1..MaxEvents) /\ DOMAIN queue = Sockets
  BY DEF StreamTypeOK, SocketRow
<1>2. Heard(s) \in Seq(1..MaxEvents)
  BY <1>1, ConcatProperties DEF Heard
<1> QED BY <1>1, <1>2

(* The other sockets do not notice what happens to one. *)
LEMMA OwnSocket ==
  ASSUME StreamInv, NEW s \in Sockets, UNCHANGED published,
         \A o \in Sockets \ {s} :
           /\ socket'[o] = socket[o] /\ queue'[o] = queue[o]
           /\ Contains(subscribers', o) <=> Contains(subscribers, o),
         Whereabouts(s)'
  PROVE  \A o \in Sockets : Whereabouts(o)'
<1> SUFFICES ASSUME NEW o \in Sockets PROVE Whereabouts(o)'
  OBVIOUS
<1>1. CASE o = s
  BY <1>1
<1>2. CASE o # s
  <2>1. Whereabouts(o)
    BY DEF StreamInv
  <2>2. Heard(o)' = Heard(o) /\ Meant(o)' = Meant(o) /\ (Listens(o)' <=> Listens(o))
    BY <1>2 DEF Heard, Meant, Listens
  <2>3. Whole(Heard(o), Meant(o))' <=> Whole(Heard(o), Meant(o))
    BY <2>2 DEF Whole
  <2> QED BY <1>2, <2>1, <2>2, <2>3 DEF Whereabouts
<1> QED BY <1>1, <1>2

LEMMA HeardTheSame ==
  ASSUME NEW s \in Sockets, Heard(s)' = Heard(s), UNCHANGED published
  PROVE  Whole(Heard(s), Meant(s))' <=> Whole(Heard(s), Meant(s))
BY DEF Whole, Meant

LEMMA PublishKeeps == StreamInv /\ Publish => StreamInv'
<1> SUFFICES ASSUME StreamInv, Publish PROVE StreamInv'
  OBVIOUS
<1> DEFINE n == Len(published)
           news == [hear |-> {s \in Sockets : Listens(s)}, full |-> {s \in Sockets : Full(s)}]
<1>0. StreamTypeOK /\ MaxEvents \in Nat
  BY StreamAssumption DEF StreamInv
<1>1. /\ n \in Nat /\ n < MaxEvents /\ n + 1 \in 1..MaxEvents
      /\ published \in Seq([hear : SUBSET Sockets, full : SUBSET Sockets])
      /\ news \in [hear : SUBSET Sockets, full : SUBSET Sockets]
  BY <1>0 DEF Publish, StreamTypeOK
<1>2. published' = Append(published, news) /\ UNCHANGED <<subscribers, socket>>
  BY DEF Publish
<1>3. /\ published' \in Seq([hear : SUBSET Sockets, full : SUBSET Sockets])
      /\ DOMAIN published = 1..n /\ DOMAIN published' = 1..n + 1
      /\ \A i \in 1..n : published'[i] = published[i]
      /\ published'[n + 1] = news
  <2> HIDE DEF news
  <2> QED BY <1>1, <1>2
<1>4. \A s \in Sockets : queue'[s] = IF s \in Hearers THEN Append(queue[s], n + 1) ELSE queue[s]
  BY DEF Publish
<1>5. queue' \in [Sockets -> Seq(1..MaxEvents)]
  <2>1. ASSUME NEW s \in Sockets PROVE queue'[s] \in Seq(1..MaxEvents)
    <3>1. queue[s] \in Seq(1..MaxEvents)
      BY <1>0, SocketFields
    <3> HIDE DEF n
    <3>2. Append(queue[s], n + 1) \in Seq(1..MaxEvents)
      BY <1>1, <3>1, AppendProperties
    <3> QED BY <1>4, <3>1, <3>2
  <2>2. DOMAIN queue' = Sockets /\ queue' = [s \in Sockets |-> queue'[s]]
    BY DEF Publish
  <2> QED BY <2>1, <2>2
<1>6. StreamTypeOK'
  BY <1>0, <1>2, <1>3, <1>5 DEF StreamTypeOK
<1>7. ASSUME NEW s \in Sockets, socket[s].there PROVE Whereabouts(s)'
  <2>1. Whereabouts(s) /\ (Contains(subscribers, s) <=> Listens(s)) /\ Whole(Heard(s), Meant(s))
    BY <1>7 DEF StreamInv, Whereabouts
  <2>2. Meant(s) \subseteq 1..n
    BY <1>3 DEF Meant
  <2>3. s \in Hearers <=> s \in news.hear \ news.full
    BY <2>1 DEF Hearers
  <2> HIDE DEF news
  <2>4. Meant(s)' = IF s \in news.hear \ news.full THEN Meant(s) \cup {n + 1} ELSE Meant(s)
    <3>1. Meant(s)' = {i \in 1..n + 1 : s \in published'[i].hear \ published'[i].full}
      BY <1>3 DEF Meant
    <3>2. Meant(s) = {i \in 1..n : s \in published[i].hear \ published[i].full}
      BY <1>3 DEF Meant
    <3>3. 1..n + 1 = 1..n \cup {n + 1}
      BY <1>1
    <3> HIDE DEF n
    <3> QED BY <1>3, <3>1, <3>2, <3>3
  <2>5. Whole(Heard(s), Meant(s))'
    <3>1. CASE s \in Hearers
      <4>1. queue'[s] = Append(queue[s], n + 1)
        BY <1>4, <3>1
      <4>2. Heard(s)' = Append(Heard(s), n + 1)
        <5>1. /\ socket[s].sent \in Seq(1..MaxEvents) /\ socket[s].held \in Seq(1..MaxEvents)
              /\ queue[s] \in Seq(1..MaxEvents)
          BY <1>0, SocketFields
        <5> HIDE DEF n
        <5>2. \A a, h, q \in Seq(1..MaxEvents) : \A x \in 1..MaxEvents :
                a \o h \o Append(q, x) = Append(a \o h \o q, x)
          BY Regroup
        <5>3. socket[s].sent \o socket[s].held \o Append(queue[s], n + 1)
                = Append(socket[s].sent \o socket[s].held \o queue[s], n + 1)
          BY <1>1, <5>1, <5>2, Zenon
        <5> QED BY <1>2, <4>1, <5>3 DEF Heard
      <4>3. Meant(s)' = Meant(s) \cup {n + 1}
        BY <2>3, <2>4, <3>1
      <4>4. 1..MaxEvents \in SUBSET Nat /\ Heard(s) \in Seq(1..MaxEvents)
        BY <1>0, SocketFields
      <4>5. Whole(Append(Heard(s), n + 1), Meant(s) \cup {n + 1})
        BY <1>1, <2>1, <2>2, <4>4, GrowsWhole
      <4> QED BY <4>2, <4>3, <4>5 DEF Whole
    <3>2. CASE s \notin Hearers
      <4>1. Heard(s)' = Heard(s) /\ Meant(s)' = Meant(s)
        BY <1>2, <1>4, <2>3, <2>4, <3>2 DEF Heard
      <4> QED BY <2>1, <4>1 DEF Whole
    <3> QED BY <3>1, <3>2
  <2> QED BY <1>2, <1>7, <2>1, <2>5 DEF Whereabouts, Listens
<1>8. \A s \in Sockets : Whereabouts(s)'
  BY <1>2, <1>7 DEF Whereabouts
<1> QED BY <1>6, <1>8 DEF StreamInv

(* The handler of s comes to a place, with what it holds and has sent. *)
SocketGoes(s, row) ==
  /\ socket' \in [Sockets -> SocketRow] /\ socket'[s] = row
  /\ \A o \in Sockets \ {s} : socket'[o] = socket[o]

LEMMA SocketSets ==
  ASSUME StreamTypeOK, NEW s \in Sockets, NEW row \in SocketRow,
         socket' = [o \in Sockets |-> IF o = s THEN row ELSE socket[o]]
  PROVE  SocketGoes(s, row)
<1>1. \A o \in Sockets : socket[o] \in SocketRow
  BY SocketFields
<1> QED BY <1>1 DEF SocketGoes

(* Only its place changes, and whether its client is there. *)
LEMMA PlaceKeeps ==
  ASSUME StreamInv, NEW s \in Sockets, UNCHANGED <<published, subscribers, queue>>,
         RefuseSocket(s) \/ Accept(s) \/ Leaves(s)
  PROVE  StreamInv'
<1>0. StreamTypeOK /\ Whereabouts(s)
  BY DEF StreamInv
<1>1. /\ socket' \in [Sockets -> SocketRow]
      /\ \A o \in Sockets \ {s} : socket'[o] = socket[o]
      /\ socket'[s].held = socket[s].held /\ socket'[s].sent = socket[s].sent
  <2>1. CASE RefuseSocket(s)
    BY <1>0, <2>1, SocketFields DEF RefuseSocket, SocketRow, SocketPlaces
  <2>2. CASE Accept(s)
    BY <1>0, <2>2, SocketFields DEF Accept, SocketRow, SocketPlaces
  <2>3. CASE Leaves(s)
    BY <1>0, <2>3, SocketFields DEF Leaves, SocketRow, SocketPlaces
  <2> QED BY <2>1, <2>2, <2>3
<1>2. socket'[s].there => /\ socket[s].there /\ (Listens(s)' <=> Listens(s))
                          /\ socket[s].pc # "sending" /\ socket'[s].pc # "sending"
  BY <1>0, SocketFields, ZenonT(30) DEF RefuseSocket, Accept, Leaves, SocketRow, Listens
<1>3. StreamTypeOK'
  BY <1>0, <1>1 DEF StreamTypeOK, SocketRow
<1>4. Heard(s)' = Heard(s)
  BY <1>1 DEF Heard
<1>5. Whereabouts(s)'
  BY <1>0, <1>1, <1>2, <1>4, HeardTheSame DEF Whereabouts
<1> QED BY <1>1, <1>3, <1>5, OwnSocket DEF StreamInv

LEMMA SubscribeKeeps ==
  ASSUME StreamInv, NEW s \in Sockets, Subscribe(s)
  PROVE  StreamInv'
<1>0. StreamTypeOK /\ Whereabouts(s) /\ subscribers \in Seq(Sockets)
  BY DEF StreamInv, StreamTypeOK
<1>1. /\ socket' \in [Sockets -> SocketRow] /\ UNCHANGED <<published, queue>>
      /\ \A o \in Sockets \ {s} : socket'[o] = socket[o]
      /\ socket'[s].held = socket[s].held /\ socket'[s].sent = socket[s].sent
      /\ socket[s].pc = "new" /\ socket'[s].pc = "subscribed"
      /\ socket'[s].there = socket[s].there
  BY <1>0, SocketFields DEF Subscribe, SocketRow, SocketPlaces
<1>2. subscribers' = Append(subscribers, s)
  BY DEF Subscribe
<1>3. subscribers' \in Seq(Sockets) /\ Len(subscribers') = Len(subscribers) + 1
      /\ (\A i \in 1..Len(subscribers) : subscribers'[i] = subscribers[i])
      /\ subscribers'[Len(subscribers) + 1] = s
  BY <1>0, <1>2
<1>4. StreamTypeOK'
  BY <1>0, <1>1, <1>3 DEF StreamTypeOK, SocketRow
<1>5. \A o \in Sockets \ {s} : Contains(subscribers', o) <=> Contains(subscribers, o)
  BY <1>0, <1>3 DEF Contains
<1>6. Contains(subscribers', s)
  <2>1. Len(subscribers) + 1 \in 1..Len(subscribers')
    BY <1>0, <1>3
  <2> QED BY <1>3, <2>1 DEF Contains
<1>7. Heard(s)' = Heard(s)
  BY <1>1 DEF Heard
<1>8. Whereabouts(s)'
  <2>1. (Contains(subscribers, s) <=> Listens(s))'
    BY <1>1, <1>6 DEF Listens
  <2> QED BY <1>0, <1>1, <1>7, <2>1, HeardTheSame DEF Whereabouts
<1> QED BY <1>1, <1>4, <1>5, <1>8, OwnSocket DEF StreamInv

LEMMA GetKeepsEvents ==
  ASSUME StreamInv, NEW s \in Sockets, GetEvent(s)
  PROVE  StreamInv'
<1>0. StreamTypeOK /\ Whereabouts(s) /\ queue[s] # <<>> /\ queue[s] \in Seq(1..MaxEvents)
  BY SocketFields DEF StreamInv, GetEvent
<1>1. Head(queue[s]) \in 1..MaxEvents /\ Tail(queue[s]) \in Seq(1..MaxEvents)
      /\ <<Head(queue[s])>> \in Seq(1..MaxEvents)
  <2>1. Head(queue[s]) \in 1..MaxEvents /\ Tail(queue[s]) \in Seq(1..MaxEvents)
    BY <1>0, HeadTailProperties
  <2> QED BY <2>1
<1>2. /\ socket' = [socket EXCEPT ![s].pc = "sending", ![s].held = <<Head(queue[s])>>]
      /\ queue' = [queue EXCEPT ![s] = Tail(@)] /\ UNCHANGED <<published, subscribers>>
      /\ socket[s].pc = "waiting"
  BY DEF GetEvent
<1>3. /\ socket' \in [Sockets -> SocketRow]
      /\ \A o \in Sockets \ {s} : socket'[o] = socket[o] /\ queue'[o] = queue[o]
      /\ socket'[s].held = <<Head(queue[s])>> /\ socket'[s].sent = socket[s].sent
      /\ socket'[s].pc = "sending" /\ socket'[s].there = socket[s].there
  BY <1>0, <1>1, <1>2, SocketFields DEF SocketRow, SocketPlaces
<1>4. queue' \in [Sockets -> Seq(1..MaxEvents)] /\ queue'[s] = Tail(queue[s])
  BY <1>0, <1>1, <1>2, SocketFields DEF StreamTypeOK
<1>5. StreamTypeOK'
  BY <1>0, <1>2, <1>3, <1>4 DEF StreamTypeOK, SocketRow
<1>6. socket[s].there => Heard(s)' = Heard(s)
  <2> SUFFICES ASSUME socket[s].there PROVE Heard(s)' = Heard(s)
    OBVIOUS
  <2>1. socket[s].held = <<>> /\ socket[s].sent \in Seq(1..MaxEvents)
    BY <1>0, <1>2, SocketFields DEF Whereabouts
  <2>2. socket[s].sent \o <<Head(queue[s])>> \o Tail(queue[s])
          = socket[s].sent \o <<>> \o queue[s]
    BY <1>0, <1>1, <2>1, Regroup, ZenonT(30)
  <2> QED BY <1>3, <1>4, <2>1, <2>2 DEF Heard
<1>7. Whereabouts(s)'
  BY <1>0, <1>2, <1>3, <1>6, HeardTheSame DEF Whereabouts, Listens
<1> QED BY <1>2, <1>3, <1>5, <1>7, OwnSocket DEF StreamInv

LEMMA SendKeeps ==
  ASSUME StreamInv, NEW s \in Sockets, Send(s)
  PROVE  StreamInv'
<1>0. StreamTypeOK /\ Whereabouts(s) /\ subscribers \in Seq(Sockets)
  BY DEF StreamInv, StreamTypeOK
<1>1. UNCHANGED <<published, queue>> /\ socket[s].pc = "sending"
  BY DEF Send
<1>2. CASE socket[s].there
  <2>1. /\ socket' = [socket EXCEPT ![s].pc = "waiting", ![s].held = <<>>,
                                    ![s].sent = @ \o socket[s].held]
        /\ UNCHANGED subscribers
    BY <1>2 DEF Send
  <2>2. socket[s].sent \o socket[s].held \in Seq(1..MaxEvents) /\ <<>> \in Seq(1..MaxEvents)
    BY <1>0, SocketFields, ConcatProperties
  <2>3. /\ socket' \in [Sockets -> SocketRow]
        /\ \A o \in Sockets \ {s} : socket'[o] = socket[o]
        /\ socket'[s].held = <<>> /\ socket'[s].sent = socket[s].sent \o socket[s].held
        /\ socket'[s].pc = "waiting" /\ socket'[s].there = socket[s].there
    BY <1>0, <2>1, <2>2, SocketFields DEF SocketRow, SocketPlaces
  <2>4. StreamTypeOK'
    BY <1>0, <1>1, <2>1, <2>3 DEF StreamTypeOK, SocketRow
  <2>5. Heard(s)' = Heard(s)
    <3>1. /\ socket[s].sent \in Seq(1..MaxEvents) /\ socket[s].held \in Seq(1..MaxEvents)
          /\ queue[s] \in Seq(1..MaxEvents)
      BY <1>0, SocketFields
    <3>2. (socket[s].sent \o socket[s].held) \o <<>> = socket[s].sent \o socket[s].held
      BY <2>2, ConcatEmptySeq
    <3> QED BY <1>1, <2>3, <3>2 DEF Heard
  <2>6. Whereabouts(s)'
    BY <1>0, <1>1, <2>1, <2>3, <2>5, HeardTheSame DEF Whereabouts, Listens
  <2> QED BY <1>1, <2>1, <2>3, <2>4, <2>6, OwnSocket DEF StreamInv
<1>3. CASE ~socket[s].there
  <2>1. socket' = [socket EXCEPT ![s].pc = "closed"] /\ subscribers' = RemoveFirst(subscribers, s)
    BY <1>3 DEF Send, Unsubscribed
  <2>2. /\ socket' \in [Sockets -> SocketRow]
        /\ \A o \in Sockets \ {s} : socket'[o] = socket[o]
        /\ socket'[s].there = socket[s].there
    BY <1>0, <2>1, SocketFields DEF SocketRow, SocketPlaces
  <2>3. subscribers' \in Seq(Sockets)
        /\ \A t : t # s => (Contains(subscribers', t) <=> Contains(subscribers, t))
    BY <1>0, <2>1, RemoveFirstKeeps
  <2>4. StreamTypeOK'
    BY <1>0, <1>1, <2>2, <2>3 DEF StreamTypeOK, SocketRow
  <2>5. Whereabouts(s)'
    BY <1>3, <2>2 DEF Whereabouts
  <2> QED BY <1>1, <2>2, <2>3, <2>4, <2>5, OwnSocket DEF StreamInv
<1> QED BY <1>2, <1>3

(* The events of the evaluations, of any number and for any number of       *)
(* dashboards with queues of any size, are of their kinds, and whoever is   *)
(* still there has heard all that were published while its queue had room.  *)
LEMMA StreamInvariant == StreamSpec => []StreamInv
<1>1. StreamInit => StreamInv
  <2> SUFFICES ASSUME StreamInit PROVE StreamInv
    OBVIOUS
  <2>1. <<>> \in Seq(1..MaxEvents) /\ <<>> \in Seq(Sockets)
        /\ <<>> \in Seq([hear : SUBSET Sockets, full : SUBSET Sockets])
    OBVIOUS
  <2>2. StreamTypeOK
    BY <2>1 DEF StreamInit, StreamTypeOK, SocketPlaces
  <2>3. ASSUME NEW s \in Sockets PROVE Whereabouts(s)
    <3>1. Heard(s) = <<>>
      BY <2>1, <2>3 DEF StreamInit, Heard
    <3>2. Range(Heard(s)) = {} /\ DOMAIN Heard(s) = {} /\ Meant(s) = {}
      BY <3>1 DEF StreamInit, Range, Meant
    <3> QED BY <2>3, <3>2 DEF StreamInit, Whereabouts, Whole, Contains, Listens
  <2> QED BY <2>2, <2>3 DEF StreamInv
<1>2. StreamInv /\ [StreamNext]_streamVars => StreamInv'
  <2> SUFFICES ASSUME StreamInv, [StreamNext]_streamVars PROVE StreamInv'
    OBVIOUS
  <2>1. CASE UNCHANGED streamVars
    <3>1. StreamTypeOK'
      BY <2>1 DEF StreamInv, StreamTypeOK, streamVars
    <3>2. ASSUME NEW s \in Sockets PROVE Whereabouts(s)'
      <4>1. Heard(s)' = Heard(s) /\ UNCHANGED <<published, subscribers, socket>>
        BY <2>1 DEF streamVars, Heard
      <4> QED BY <4>1, HeardTheSame DEF StreamInv, Whereabouts, Listens
    <3> QED BY <3>1, <3>2 DEF StreamInv
  <2>2. ASSUME NEW s \in Sockets, RefuseSocket(s) \/ Accept(s) \/ Leaves(s) PROVE StreamInv'
    <3>1. UNCHANGED <<published, subscribers, queue>>
      BY <2>2 DEF RefuseSocket, Accept, Leaves
    <3> QED BY <2>2, <3>1, PlaceKeeps
  <2> QED BY <2>1, <2>2, PublishKeeps, SubscribeKeeps, GetKeepsEvents, SendKeeps DEF StreamNext
<1> QED BY <1>1, <1>2, PTL DEF StreamSpec

-------------------------------------------------------------------------------
(* What an agent usually does *)

VisitRow ==
  [deed : Deeds, pc : VisitPlaces, flags : SUBSET {"new_action", "triple_outlier"},
   read : Nat, told : SUBSET {"actions", "pairs"}, added : SUBSET {"actions", "pairs"}]

(* The visits whose pair has been counted. *)
Paid == {w \in Visits : "pairs" \in visit[w].added}

(* A visit is counted after its answer, and its pair last of all; what     *)
(* Redis has counted, some visit has added.                                *)
CountInv ==
  /\ \A v \in Visits :
       /\ visit[v].pc \in {"new", "looked", "scored"} => visit[v].added = {}
       /\ "pairs" \in visit[v].added => visit[v].pc = "done"
       /\ visit[v].pc = "new" => visit[v].told = {}
       /\ visit[v].pc \in {"new", "looked", "scored"} => "triple_outlier" \notin visit[v].flags
  /\ \A a \in Habits : baseline[a] # 0 =>
       \E w \in Visits : "actions" \in visit[w].added /\ visit[w].deed.action = a
  /\ IsFiniteSet(Tallies) /\ Cardinality(Tallies) <= Cardinality(Paid)

BaselineInv == BaselineTypeOK /\ CountInv /\ FlagsAreGrounded

LEMMA VisitFields ==
  ASSUME BaselineTypeOK, NEW v \in Visits
  PROVE  /\ visit[v] \in VisitRow /\ DOMAIN visit = Visits
         /\ visit[v].deed \in Deeds /\ visit[v].deed.action \in Habits
         /\ DOMAIN baseline = Habits /\ DOMAIN pairs = Deeds
  BY DEF BaselineTypeOK, VisitRow, Habits

LEMMA PaidFinite == IsFiniteSet(Paid) /\ \A v \in Visits : IsFiniteSet(Counted("pairs", v))
<1>1. Paid \subseteq Visits /\ \A v \in Visits : Counted("pairs", v) \subseteq Visits
  BY DEF Paid, Counted
<1> QED BY <1>1, BaselineAssumption, FS_Subset

(* What is said of the flags of v. *)
Grounded(v) ==
  /\ "actions" \in visit[v].told /\ "new_action" \notin visit[v].flags =>
       \E w \in Counted("actions", v) : visit[w].deed.action = visit[v].deed.action
  /\ "triple_outlier" \in visit[v].flags => Cardinality(Counted("pairs", v)) >= MinSamples

(* The counts of the visits only grow, and their deeds stay. *)
CountsGrow ==
  \A w \in Visits : visit[w].added \subseteq visit'[w].added /\ visit'[w].deed = visit[w].deed

LEMMA GroundedStays ==
  ASSUME CountsGrow, NEW v \in Visits, Grounded(v), visit'[v].told = visit[v].told,
         visit'[v].flags = visit[v].flags
  PROVE  Grounded(v)'
<1>1. Counted("actions", v) \subseteq Counted("actions", v)'
      /\ Counted("pairs", v) \subseteq Counted("pairs", v)'
  BY DEF Counted, CountsGrow
<1>2. IsFiniteSet(Counted("pairs", v)') /\ IsFiniteSet(Counted("pairs", v))
  <2>1. Counted("pairs", v)' \subseteq Visits /\ Counted("pairs", v) \subseteq Visits
    BY DEF Counted
  <2> QED BY <2>1, BaselineAssumption, FS_Subset
<1>3. /\ Cardinality(Counted("pairs", v)) <= Cardinality(Counted("pairs", v)')
      /\ Cardinality(Counted("pairs", v)) \in Nat /\ Cardinality(Counted("pairs", v)') \in Nat
  BY <1>1, <1>2, FS_Subset, FS_CardinalityType
<1>4. MinSamples \in Nat
  BY BaselineAssumption
<1>5. "triple_outlier" \in visit'[v].flags => Cardinality(Counted("pairs", v)') >= MinSamples
  <2>1. "triple_outlier" \in visit[v].flags => Cardinality(Counted("pairs", v)) >= MinSamples
    BY DEF Grounded
  <2> QED BY <1>3, <1>4, <2>1
<1>6. "actions" \in visit'[v].told /\ "new_action" \notin visit'[v].flags =>
        \E w \in Counted("actions", v)' : visit'[w].deed.action = visit'[v].deed.action
  <2> SUFFICES ASSUME "actions" \in visit[v].told, "new_action" \notin visit[v].flags
               PROVE  \E w \in Counted("actions", v)' :
                        visit'[w].deed.action = visit'[v].deed.action
    OBVIOUS
  <2>1. PICK w \in Counted("actions", v) : visit[w].deed.action = visit[v].deed.action
    BY DEF Grounded
  <2>2. w \in Counted("actions", v)' /\ visit'[w].deed = visit[w].deed
        /\ visit'[v].deed = visit[v].deed
    BY <1>1, <2>1 DEF CountsGrow, Counted
  <2> QED BY <2>1, <2>2
<1> QED BY <1>5, <1>6 DEF Grounded

LEMMA OthersGrounded ==
  ASSUME FlagsAreGrounded, CountsGrow, NEW v \in Visits,
         \A o \in Visits \ {v} : visit'[o] = visit[o],
         Grounded(v)'
  PROVE  FlagsAreGrounded'
<1>1. ASSUME NEW o \in Visits PROVE Grounded(o)'
  <2>1. CASE o = v
    BY <2>1
  <2>2. CASE o # v
    <3>1. Grounded(o)
      BY DEF FlagsAreGrounded, Grounded
    <3> QED BY <2>2, <3>1, GroundedStays
  <2> QED BY <2>1, <2>2
<1> QED BY <1>1 DEF FlagsAreGrounded, Grounded

LEMMA LookKeepsBaseline ==
  ASSUME BaselineInv, NEW v \in Visits, LookForAction(v) \/ ReadPair(v) \/ SumPairs(v)
  PROVE  BaselineInv'
<1>0. /\ BaselineTypeOK /\ CountInv /\ FlagsAreGrounded /\ Grounded(v)
      /\ UNCHANGED <<baseline, anomalies, pairs>> /\ MinSamples \in Nat
      /\ visit[v].pc \in {"new", "looked", "scored"}
  BY BaselineAssumption DEF BaselineInv, FlagsAreGrounded, Grounded, LookForAction, ReadPair, SumPairs
<1>1. /\ visit' \in [Visits -> VisitRow]
      /\ \A o \in Visits \ {v} : visit'[o] = visit[o]
      /\ visit'[v].deed = visit[v].deed /\ visit'[v].added = visit[v].added
      /\ visit'[v].pc \in {"looked", "scored", "answered"}
  <2>1. CASE LookForAction(v)
    BY <1>0, <2>1, VisitFields DEF LookForAction, Flagged, VisitRow, VisitPlaces
  <2>2. CASE ReadPair(v)
    <3>1. pairs[visit[v].deed] \in Nat
      BY <1>0, VisitFields DEF BaselineTypeOK
    <3> QED BY <1>0, <2>2, <3>1, VisitFields DEF ReadPair, VisitRow, VisitPlaces
  <2>3. CASE SumPairs(v)
    BY <1>0, <2>3, VisitFields DEF SumPairs, Flagged, VisitRow, VisitPlaces
  <2> QED BY <1>0, <2>1, <2>2, <2>3
<1>2. BaselineTypeOK'
  BY <1>0, <1>1 DEF BaselineTypeOK, VisitRow
<1>3. CountsGrow
  BY <1>1 DEF CountsGrow
<1>4. visit[v].added = {} /\ "triple_outlier" \notin visit[v].flags
  BY <1>0 DEF CountInv
<1>5. "triple_outlier" \in visit'[v].flags => visit'[v].pc = "answered"
  <2>1. CASE LookForAction(v)
    BY <1>0, <1>4, <2>1, VisitFields DEF LookForAction, Flagged, VisitRow
  <2>2. CASE ReadPair(v)
    BY <1>0, <1>4, <2>2, VisitFields DEF ReadPair, VisitRow
  <2>3. CASE SumPairs(v)
    BY <1>0, <1>4, <2>3, VisitFields DEF SumPairs, VisitRow
  <2> QED BY <1>0, <2>1, <2>2, <2>3
<1>6. CountInv'
  <2>1. Paid' = Paid /\ Tallies' = Tallies
    BY <1>0, <1>1 DEF Paid, Tallies
  <2>2. \A w \in Visits :
          /\ visit'[w].pc \in {"new", "looked", "scored"} => visit'[w].added = {}
          /\ "pairs" \in visit'[w].added => visit'[w].pc = "done"
          /\ visit'[w].pc = "new" => visit'[w].told = {}
          /\ visit'[w].pc \in {"new", "looked", "scored"} => "triple_outlier" \notin visit'[w].flags
    BY <1>0, <1>1, <1>4, <1>5 DEF CountInv
  <2>3. ASSUME NEW a \in Habits, baseline'[a] # 0
        PROVE  \E w \in Visits : "actions" \in visit'[w].added /\ visit'[w].deed.action = a
    <3>1. PICK w \in Visits : "actions" \in visit[w].added /\ visit[w].deed.action = a
      BY <1>0, <2>3 DEF CountInv
    <3> QED BY <1>3, <3>1 DEF CountsGrow
  <2>4. IsFiniteSet(Tallies) /\ Cardinality(Tallies) <= Cardinality(Paid)
    BY <1>0 DEF CountInv
  <2> QED BY <2>1, <2>2, <2>3, <2>4 DEF CountInv
<1>7. Grounded(v)'
  <2>1. CASE LookForAction(v)
    <3> DEFINE a == visit[v].deed.action
    <3>1. "actions" \in visit'[v].told /\ "new_action" \notin visit'[v].flags => baseline[a] # 0
      BY <1>0, <2>1, VisitFields DEF LookForAction, Flagged, VisitRow, CountInv
    <3>2. baseline[a] # 0 =>
            \E w \in Visits : "actions" \in visit[w].added /\ visit[w].deed.action = a
      BY <1>0, VisitFields DEF CountInv
    <3>3. \A w \in Visits : "actions" \in visit[w].added => w \in Counted("actions", v)'
      BY <1>3, <1>4 DEF Counted, CountsGrow
    <3>4. baseline[a] # 0 => \E w \in Counted("actions", v)' : visit'[w].deed.action = a
      BY <1>3, <3>2, <3>3 DEF CountsGrow
    <3>5. "triple_outlier" \notin visit'[v].flags
      BY <1>0, <1>4, <2>1, VisitFields DEF LookForAction, Flagged, VisitRow
    <3> QED BY <1>1, <3>1, <3>4, <3>5 DEF Grounded
  <2>2. CASE ReadPair(v)
    <3>1. visit'[v].told = visit[v].told /\ visit'[v].flags = visit[v].flags
      BY <1>0, <2>2, VisitFields DEF ReadPair, VisitRow
    <3> QED BY <1>0, <1>3, <3>1, GroundedStays
  <2>3. CASE SumPairs(v)
    <3>1. "actions" \in visit'[v].told /\ "new_action" \notin visit'[v].flags =>
            \E w \in Counted("actions", v)' : visit'[w].deed.action = visit'[v].deed.action
      <4>1. "actions" \in visit'[v].told /\ "new_action" \notin visit'[v].flags =>
              "actions" \in visit[v].told /\ "new_action" \notin visit[v].flags
        BY <1>0, <2>3, VisitFields DEF SumPairs, Flagged, VisitRow
      <4>2. "actions" \in visit'[v].told /\ "new_action" \notin visit'[v].flags =>
              \E w \in Counted("actions", v) : visit[w].deed.action = visit[v].deed.action
        BY <1>0, <4>1 DEF Grounded
      <4>3. \A w \in Counted("actions", v) :
              w \in Counted("actions", v)' /\ visit'[w].deed = visit[w].deed
        BY <1>3 DEF Counted, CountsGrow
      <4> QED BY <1>1, <4>2, <4>3
    <3>2. "triple_outlier" \in visit'[v].flags =>
            Cardinality(Counted("pairs", v)') >= MinSamples
      <4>1. "triple_outlier" \in visit'[v].flags => AllPairs >= MinSamples
        BY <1>0, <1>4, <2>3, VisitFields DEF SumPairs, Flagged, Outlying, VisitRow
      <4>2. Counted("pairs", v)' = Paid
        BY <1>1, <1>4 DEF Counted, Paid
      <4>3. /\ Cardinality(Tallies) \in Nat /\ Cardinality(Paid) \in Nat
            /\ Cardinality(Tallies) <= Cardinality(Paid)
        BY <1>0, PaidFinite, FS_CardinalityType DEF CountInv
      <4> QED BY <1>0, <4>1, <4>2, <4>3 DEF AllPairs
    <3> QED BY <3>1, <3>2 DEF Grounded
  <2> QED BY <1>0, <2>1, <2>2, <2>3
<1>8. FlagsAreGrounded'
  BY <1>0, <1>1, <1>3, <1>7, OthersGrounded
<1> QED BY <1>2, <1>6, <1>8 DEF BaselineInv

(* One tally more for a deed. *)
LEMMA OneMoreTally ==
  ASSUME BaselineTypeOK, NEW d \in Deeds, IsFiniteSet(Tallies),
         pairs' = [pairs EXCEPT ![d] = @ + 1]
  PROVE  /\ IsFiniteSet(Tallies') /\ Cardinality(Tallies') <= Cardinality(Tallies) + 1
         /\ Cardinality(Tallies') \in Nat
<1> DEFINE k == pairs[d] + 1
<1>1. pairs[d] \in Nat /\ DOMAIN pairs = Deeds /\ (\A e \in Deeds \ {d} : pairs'[e] = pairs[e])
      /\ pairs'[d] = k /\ 1..k = 1..pairs[d] \cup {k}
  BY DEF BaselineTypeOK
<1>2. Tallies' = Tallies \cup {<<d, k>>}
  <2>1. \A e \in Deeds : {e} \X (1..pairs'[e]) =
          IF e = d THEN {e} \X (1..pairs[e]) \cup {<<d, k>>} ELSE {e} \X (1..pairs[e])
    <3> HIDE DEF k
    <3> QED BY <1>1
  <2>2. ASSUME NEW x PROVE x \in Tallies' <=> x \in Tallies \cup {<<d, k>>}
    <3>1. x \in Tallies' <=> \E e \in Deeds : x \in {e} \X (1..pairs'[e])
      BY DEF Tallies
    <3>2. x \in Tallies <=> \E e \in Deeds : x \in {e} \X (1..pairs[e])
      BY DEF Tallies
    <3> HIDE DEF k
    <3> QED BY <2>1, <3>1, <3>2
  <2> HIDE DEF k
  <2> QED BY <2>2
<1> HIDE DEF k
<1>3. IsFiniteSet(Tallies \cup {<<d, k>>})
      /\ Cardinality(Tallies \cup {<<d, k>>})
           = IF <<d, k>> \in Tallies THEN Cardinality(Tallies) ELSE Cardinality(Tallies) + 1
  BY FS_AddElement
<1>4. Cardinality(Tallies) \in Nat
  BY FS_CardinalityType
<1> QED BY <1>2, <1>3, <1>4

LEMMA CountKeepsBaseline ==
  ASSUME BaselineInv, NEW v \in Visits,
         CountAction(v) \/ NoteAction(v) \/ CountPair(v) \/ CountFails(v)
  PROVE  BaselineInv'
<1>0. /\ BaselineTypeOK /\ CountInv /\ FlagsAreGrounded /\ Grounded(v)
      /\ visit[v].pc \in {"answered", "counted", "noted"} /\ "pairs" \notin visit[v].added
  BY DEF BaselineInv, FlagsAreGrounded, Grounded, CountInv, CountAction, MayCount, NoteAction,
         CountPair, CountFails
<1>1. /\ visit' \in [Visits -> VisitRow]
      /\ \A o \in Visits \ {v} : visit'[o] = visit[o]
      /\ visit'[v].deed = visit[v].deed /\ visit[v].added \subseteq visit'[v].added
      /\ visit'[v].told = visit[v].told /\ visit'[v].flags = visit[v].flags
      /\ visit'[v].pc \in {"counted", "noted", "done"}
      /\ "pairs" \in visit'[v].added <=> CountPair(v)
  <2>1. CASE CountAction(v)
    <3>1. visit[v].pc = "answered"
      BY <2>1 DEF CountAction, MayCount
    <3>2. ~CountPair(v)
      BY <3>1 DEF CountPair
    <3> QED BY <1>0, <2>1, <3>1, <3>2, VisitFields DEF CountAction, VisitRow, VisitPlaces
  <2>2. CASE NoteAction(v)
    <3>1. ~CountPair(v)
      BY <2>2 DEF NoteAction, CountPair
    <3> QED BY <1>0, <2>2, <3>1, VisitFields, ZenonT(30) DEF NoteAction, VisitRow, VisitPlaces
  <2>3. CASE CountPair(v)
    BY <1>0, <2>3, VisitFields DEF CountPair, VisitRow, VisitPlaces
  <2>4. CASE CountFails(v) /\ ~CountPair(v)
    <3> DEFINE place == IF visit[v].pc = "noted" THEN "done" ELSE "noted"
    <3>1. visit' = [visit EXCEPT ![v].pc = place] /\ place \in {"noted", "done"}
      BY <2>4, VisitFields, <1>0 DEF CountFails, VisitRow
    <3> HIDE DEF place
    <3>2. visit' \in [Visits -> VisitRow] /\ \A o \in Visits \ {v} : visit'[o] = visit[o]
      BY <1>0, <3>1, VisitFields, ZenonT(30) DEF VisitRow, VisitPlaces
    <3> QED BY <1>0, <2>4, <3>1, <3>2, VisitFields DEF VisitRow
  <2> QED BY <2>1, <2>2, <2>3, <2>4
<1>2. CountsGrow
  BY <1>1 DEF CountsGrow
<1>3. /\ baseline' \in [Habits -> Nat] /\ anomalies' \subseteq Habits
      /\ pairs' \in [Deeds -> Nat]
  BY <1>0, VisitFields DEF BaselineTypeOK, CountAction, NoteAction, CountPair, CountFails
<1>4. BaselineTypeOK'
  BY <1>1, <1>3 DEF BaselineTypeOK, VisitRow
<1>5. Grounded(v)'
  BY <1>0, <1>1, <1>2, GroundedStays
<1>6. FlagsAreGrounded'
  BY <1>0, <1>1, <1>2, <1>5, OthersGrounded
<1>7. \A w \in Visits :
        /\ visit'[w].pc \in {"new", "looked", "scored"} => visit'[w].added = {}
        /\ "pairs" \in visit'[w].added => visit'[w].pc = "done"
        /\ visit'[w].pc = "new" => visit'[w].told = {}
        /\ visit'[w].pc \in {"new", "looked", "scored"} => "triple_outlier" \notin visit'[w].flags
  <2>1. CountPair(v) => visit'[v].pc = "done"
    BY <1>0, VisitFields DEF CountPair, VisitRow
  <2> QED BY <1>0, <1>1, <2>1 DEF CountInv
<1>8. ASSUME NEW a \in Habits, baseline'[a] # 0
      PROVE  \E w \in Visits : "actions" \in visit'[w].added /\ visit'[w].deed.action = a
  <2>1. CASE baseline[a] # 0
    <3>1. PICK w \in Visits : "actions" \in visit[w].added /\ visit[w].deed.action = a
      BY <1>0, <2>1 DEF CountInv
    <3> QED BY <1>2, <3>1 DEF CountsGrow
  <2>2. CASE baseline[a] = 0
    <3>1. CountAction(v) /\ a = visit[v].deed.action
      BY <1>0, <1>8, <2>2, VisitFields DEF CountAction, NoteAction, CountPair, CountFails
    <3>2. "actions" \in visit'[v].added
      BY <1>0, <3>1, VisitFields DEF CountAction, VisitRow
    <3> QED BY <1>1, <3>1, <3>2
  <2> QED BY <2>1, <2>2
<1>9. IsFiniteSet(Tallies') /\ Cardinality(Tallies') <= Cardinality(Paid')
  <2>1. IsFiniteSet(Tallies) /\ Cardinality(Tallies) <= Cardinality(Paid)
        /\ Cardinality(Tallies) \in Nat /\ Cardinality(Paid) \in Nat /\ IsFiniteSet(Paid)
    BY <1>0, PaidFinite, FS_CardinalityType DEF CountInv
  <2>2. CASE CountPair(v)
    <3>1. Paid' = Paid \cup {v} /\ v \notin Paid
      BY <1>0, <1>1, <2>2 DEF Paid
    <3>2. Cardinality(Paid') = Cardinality(Paid) + 1
      BY <2>1, <3>1, FS_AddElement
    <3>3. visit[v].deed \in Deeds /\ pairs' = [pairs EXCEPT ![visit[v].deed] = @ + 1]
      BY <1>0, <2>2, VisitFields DEF CountPair
    <3>4. IsFiniteSet(Tallies') /\ Cardinality(Tallies') <= Cardinality(Tallies) + 1
          /\ Cardinality(Tallies') \in Nat
      BY <1>0, <2>1, <3>3, OneMoreTally
    <3> QED BY <2>1, <3>2, <3>4
  <2>3. CASE ~CountPair(v)
    <3>1. UNCHANGED pairs
      BY <2>3 DEF CountAction, NoteAction, CountFails
    <3>2. Paid' = Paid /\ Tallies' = Tallies
      BY <1>0, <1>1, <2>3, <3>1 DEF Paid, Tallies
    <3> QED BY <2>1, <3>2
  <2> QED BY <2>2, <2>3
<1> QED BY <1>4, <1>6, <1>7, <1>8, <1>9 DEF BaselineInv, CountInv

LEMMA ForgetKeepsBaseline ==
  ASSUME BaselineInv, ForgetActions \/ ForgetAnomalies \/ ForgetPairs
  PROVE  BaselineInv'
<1>0. BaselineTypeOK /\ CountInv /\ FlagsAreGrounded /\ UNCHANGED visit
  BY DEF BaselineInv, ForgetActions, ForgetAnomalies, ForgetPairs
<1>1. BaselineTypeOK'
  BY <1>0 DEF BaselineTypeOK, ForgetActions, ForgetAnomalies, ForgetPairs
<1>2. FlagsAreGrounded'
  BY <1>0 DEF FlagsAreGrounded, Counted
<1>3. Paid' = Paid /\ \A a \in Habits : baseline'[a] # 0 => baseline[a] # 0
  BY <1>0 DEF Paid, ForgetActions, ForgetAnomalies, ForgetPairs
<1>4. IsFiniteSet(Tallies') /\ Cardinality(Tallies') <= Cardinality(Paid)
  <2>1. CASE ForgetPairs
    <3>1. \A d \in Deeds : pairs'[d] = 0
      BY <2>1 DEF ForgetPairs
    <3>2. Tallies' = {}
      BY <3>1 DEF Tallies
    <3> QED BY <3>2, FS_EmptySet, FS_CardinalityType, PaidFinite
  <2>2. CASE ~ForgetPairs
    <3>1. Tallies' = Tallies
      BY <2>2 DEF ForgetActions, ForgetAnomalies, Tallies
    <3> QED BY <1>0, <3>1 DEF CountInv
  <2> QED BY <2>1, <2>2
<1>5. CountInv'
  BY <1>0, <1>3, <1>4 DEF CountInv
<1> QED BY <1>1, <1>2, <1>5 DEF BaselineInv

(* For any number of visits and of deeds: the counts come from visits that *)
(* were answered, and the flags from counts that other visits left.        *)
LEMMA BaselineInvariant == BaselineSpec => []BaselineInv
<1>1. BaselineInit(Deeds) => BaselineInv
  <2> SUFFICES ASSUME BaselineInit(Deeds) PROVE BaselineInv
    OBVIOUS
  <2>1. /\ \A d \in Deeds : pairs[d] = 0
        /\ \A v \in Visits : visit[v].pc = "new" /\ visit[v].flags = {} /\ visit[v].told = {}
                             /\ visit[v].added = {}
        /\ \A a \in Habits : baseline[a] = 0
    BY DEF BaselineInit
  <2>2. Tallies = {}
    BY <2>1 DEF Tallies
  <2>3. BaselineTypeOK
    BY DEF BaselineInit, BaselineTypeOK, VisitPlaces
  <2>4. CountInv
    BY <2>1, <2>2, FS_EmptySet, FS_CardinalityType, PaidFinite DEF CountInv
  <2> QED BY <2>1, <2>3, <2>4 DEF BaselineInv, FlagsAreGrounded
<1>2. BaselineInv /\ [BaselineNext]_baselineVars => BaselineInv'
  <2>1. BaselineInv /\ UNCHANGED baselineVars => BaselineInv'
    BY DEF baselineVars, BaselineInv, BaselineTypeOK, CountInv, FlagsAreGrounded, Counted, Paid,
           Tallies
  <2> QED BY <2>1, LookKeepsBaseline, CountKeepsBaseline, ForgetKeepsBaseline DEF BaselineNext
<1> QED BY <1>1, <1>2, PTL DEF BaselineSpec

(* What the service tells those who listen is so: a tool runs only with    *)
(* leave and a wait misses no timely decision, a flag rests on what others  *)
(* have done, and a dashboard hears every event once and in order; for any  *)
(* number of uses, visits and dashboards.                                   *)
THEOREM ListenersAreTold ==
  ClientSpec /\ BaselineSpec /\ StreamSpec => []ListenersHearTheTruth
<1>1. StreamInv => StreamsAreWhole
  BY DEF StreamInv, Whereabouts, StreamsAreWhole, Whole
<1>2. NothingWithoutLeave /\ TimeoutIsLate /\ BaselineInv /\ StreamInv => ListenersHearTheTruth
  BY <1>1 DEF ListenersHearTheTruth, WaitsTellTheTruth, BaselineInv
<1> QED BY <1>2, LeaveComesFirst, TimesOutLate, BaselineInvariant, StreamInvariant, PTL

-------------------------------------------------------------------------------
(* The registered agents *)

Committed == {e \in Edits : edit[e].pc = "committed"}

(* A request that has written the row is alone with it, and the row is the *)
(* one it has read; those that have committed are counted.                 *)
RegistryInv ==
  /\ RegistryTypeOK
  /\ \A e \in Edits : edit[e].pc = "written" /\ WritesRow(e) =>
       writer = e /\ agent.id = edit[e].seen.id
  /\ \A i \in DOMAIN edits : edit[edits[i]].pc = "committed"
  /\ Len(edits) = Cardinality(Committed)
  /\ ProfilesStick

LEMMA EditFields ==
  ASSUME RegistryTypeOK, NEW e \in Edits
  PROVE  /\ edit[e] \in Edit /\ DOMAIN edit = Edits /\ edit[e].seen \in Row
         /\ edits \in Seq(Edits) /\ Len(edits) \in Nat /\ DOMAIN edits = 1..Len(edits)
         /\ agent \in Row /\ agent.id \in Nat
<1>1. Cardinality(Edits) \in Nat
  BY RegistryAssumption, FS_CardinalityType
<1> QED BY <1>1 DEF RegistryTypeOK, Edit, Row

(* A request keeps what it wants and what it has read. *)
KeepsWish(e) ==
  /\ edit'[e].kind = edit[e].kind /\ edit'[e].gives = edit[e].gives
  /\ edit'[e].value = edit[e].value /\ edit'[e].seen = edit[e].seen

LEMMA WishKept ==
  ASSUME NEW e \in Edits, KeepsWish(e)
  PROVE  /\ Sets(e)' = Sets(e) /\ (WritesRow(e)' <=> WritesRow(e))
         /\ \A c \in Columns : Assigned(e, c)' = Assigned(e, c)
         /\ \A c \in Columns : Wrote(e, c)' <=> Wrote(e, c)
<1>1. NewMetadata(e)' = NewMetadata(e)
  BY DEF KeepsWish, NewMetadata
<1>2. \A c \in Columns : Given(e, NoAgent, c)' = Given(e, NoAgent, c)
                         /\ Given(e, edit[e].seen, c)' = Given(e, edit[e].seen, c)
  BY DEF KeepsWish, Given, NoAgent
<1>3. \A c \in Columns : Assigned(e, c)' = Assigned(e, c)
  BY <1>1, <1>2 DEF KeepsWish, Assigned
<1>4. Sets(e)' = Sets(e)
  BY <1>3 DEF KeepsWish, Sets, InsertsAgent
<1>5. WritesRow(e)' <=> WritesRow(e)
  BY <1>4 DEF KeepsWish, WritesRow
<1>6. \A c \in Columns : Wrote(e, c)' <=> Wrote(e, c)
  BY <1>4 DEF KeepsWish, Wrote
<1> QED BY <1>3, <1>4, <1>5, <1>6

(* What a request writes is of the columns' kinds. *)
LEMMA AssignedTyped ==
  ASSUME RegistryTypeOK, NEW e \in Edits
  PROVE  /\ Assigned(e, "profile") \in Values /\ Assigned(e, "trust") \in Values
         /\ Assigned(e, "metadata") \in SUBSET Entries
<1>1. edit[e] \in Edit /\ edit[e].seen \in Row
  BY EditFields
<1>2. NewMetadata(e) \in SUBSET Entries
  BY <1>1 DEF NewMetadata, Edit, Row, Entries
<1>3. Given(e, NoAgent, "trust") \in Values /\ Given(e, edit[e].seen, "trust") \in Values
      /\ Given(e, edit[e].seen, "profile") \in Values
  BY <1>1, RegistryAssumption DEF Given, NoAgent, Edit, Row
<1> QED BY <1>2, <1>3 DEF Assigned

(* A step that commits nothing, of one request. *)
LEMMA UncommittedKeeps ==
  ASSUME RegistryInv, NEW e \in Edits, UNCHANGED <<agent, edits>>,
         edit' \in [Edits -> Edit], \A o \in Edits \ {e} : edit'[o] = edit[o],
         edit[e].pc \in {"new", "read", "written"}, edit'[e].pc # "committed",
         writer' \in Edits \cup {"nobody"},
         \A o \in Edits \ {e} : writer = o => writer' = o,
         edit'[e].pc = "written" /\ WritesRow(e)' => writer' = e /\ agent.id = edit'[e].seen.id
  PROVE  RegistryInv'
<1>1. RegistryTypeOK /\ RegistryTypeOK'
  BY DEF RegistryInv, RegistryTypeOK
<1>2. \A o \in Edits \ {e} : KeepsWish(o)
  BY DEF KeepsWish
<1>3. ASSUME NEW o \in Edits, edit'[o].pc = "written", WritesRow(o)'
      PROVE  writer' = o /\ agent'.id = edit'[o].seen.id
  <2>1. CASE o = e
    BY <1>3, <2>1
  <2>2. CASE o # e
    <3>1. WritesRow(o)
      BY <1>2, <1>3, <2>2, WishKept
    <3> QED BY <1>3, <2>2, <3>1 DEF RegistryInv
  <2> QED BY <2>1, <2>2
<1>4. \A i \in DOMAIN edits : edits[i] \in Edits \ {e}
  BY <1>1, EditFields DEF RegistryInv
<1>5. \A i \in DOMAIN edits' : edit'[edits'[i]].pc = "committed"
  BY <1>4 DEF RegistryInv
<1>6. Committed' = Committed
  BY DEF Committed
<1>7. ProfilesStick'
  <2>1. \A i \in DOMAIN edits : \A c \in Columns :
          (Wrote(edits[i], c)' <=> Wrote(edits[i], c))
          /\ Assigned(edits[i], c)' = Assigned(edits[i], c)
    <3> SUFFICES ASSUME NEW i \in DOMAIN edits, NEW c \in Columns
                 PROVE  (Wrote(edits[i], c)' <=> Wrote(edits[i], c))
                        /\ Assigned(edits[i], c)' = Assigned(edits[i], c)
      OBVIOUS
    <3>1. PICK o \in Edits \ {e} : o = edits[i]
      BY <1>4
    <3>2. (Wrote(o, c)' <=> Wrote(o, c)) /\ Assigned(o, c)' = Assigned(o, c)
      BY <1>2, WishKept
    <3> QED BY <3>1, <3>2
  <2> QED BY <2>1 DEF RegistryInv, ProfilesStick
<1> QED BY <1>1, <1>3, <1>5, <1>6, <1>7 DEF RegistryInv

(* The row after a commit, column by column. *)
LEMMA CommittedRow ==
  ASSUME RegistryInv, NEW e \in Edits, CommitAgent(e)
  PROVE  /\ agent' \in Row
         /\ edit[e].kind = "delete" => agent'.id = 0
         /\ ~WritesRow(e) => agent' = agent
         /\ edit[e].kind # "delete" /\ WritesRow(e) => \A c \in Columns :
              agent'[c] = IF c \in Sets(e) THEN Assigned(e, c) ELSE agent[c]
<1> DEFINE after == Saved(e, agent)
           id == IF InsertsAgent(e) THEN Len(edits) + 2 ELSE agent.id
<1>0. RegistryTypeOK /\ edit[e].pc = "written"
  BY DEF RegistryInv, CommitAgent
<1>1. agent' = IF edit[e].kind = "delete" THEN NoAgent
               ELSE IF ~WritesRow(e) THEN agent
               ELSE [id |-> id, profile |-> after["profile"], trust |-> after["trust"],
                     metadata |-> after["metadata"]]
  BY DEF CommitAgent
<1>2. id \in 0..Cardinality(Edits) + 1
  <2>1. Committed \subseteq Edits /\ e \notin Committed /\ e \in Edits
    BY <1>0 DEF Committed
  <2>2. IsFiniteSet(Committed) /\ IsFiniteSet(Committed \cup {e})
        /\ Cardinality(Committed \cup {e}) = Cardinality(Committed) + 1
    BY <2>1, RegistryAssumption, FS_Subset, FS_AddElement
  <2>3. Committed \cup {e} \in SUBSET Edits
    BY <2>1
  <2>4. Cardinality(Committed) + 1 <= Cardinality(Edits)
    BY <2>2, <2>3, RegistryAssumption, FS_Subset
  <2>5. Cardinality(Edits) \in Nat /\ Len(edits) = Cardinality(Committed) /\ Len(edits) \in Nat
    BY <1>0, RegistryAssumption, FS_CardinalityType, EditFields DEF RegistryInv
  <2>6. agent.id \in 0..Cardinality(Edits) + 1
    BY <1>0, EditFields DEF Row
  <2> QED BY <2>4, <2>5, <2>6
<1>3. \A c \in Columns : after[c] = IF c \in Sets(e) THEN Assigned(e, c) ELSE agent[c]
  BY DEF Saved
<1>4. after["profile"] \in Values /\ after["trust"] \in Values
      /\ after["metadata"] \in SUBSET Entries
  <2>1. agent["profile"] \in Values /\ agent["trust"] \in Values
        /\ agent["metadata"] \in SUBSET Entries
    BY <1>0, EditFields DEF Row
  <2> HIDE DEF after
  <2> QED BY <1>0, <1>3, <2>1, AssignedTyped DEF Columns
<1> HIDE DEF after, id
<1>5. agent' \in Row
  <2>1. NoAgent \in Row
    <3>1. Cardinality(Edits) \in Nat
      BY RegistryAssumption, FS_CardinalityType
    <3> QED BY <3>1, RegistryAssumption DEF NoAgent, Row
  <2>2. agent \in Row
    BY <1>0, EditFields
  <2> QED BY <1>1, <1>2, <1>4, <2>1, <2>2 DEF Row
<1>6. edit[e].kind # "delete" /\ WritesRow(e) => \A c \in Columns : agent'[c] = after[c]
  BY <1>1 DEF Columns
<1>7. edit[e].kind = "delete" => agent'.id = 0
  BY <1>1 DEF NoAgent
<1>8. ~WritesRow(e) => agent' = agent
  BY <1>1 DEF WritesRow
<1> QED BY <1>3, <1>5, <1>6, <1>7, <1>8

LEMMA CommitKeepsRegistry ==
  ASSUME RegistryInv, NEW e \in Edits, CommitAgent(e)
  PROVE  RegistryInv'
<1> DEFINE n == Len(edits)
<1>0. RegistryTypeOK /\ edit[e].pc = "written" /\ n \in Nat /\ DOMAIN edits = 1..n
  BY EditFields DEF RegistryInv, CommitAgent
<1>1. /\ edit' \in [Edits -> Edit] /\ edit'[e].pc = "committed"
      /\ \A o \in Edits \ {e} : edit'[o] = edit[o]
      /\ \A o \in Edits : KeepsWish(o)
  BY <1>0, EditFields DEF CommitAgent, KeepsWish, Edit, EditPlaces
<1>2. /\ edits' \in Seq(Edits) /\ Len(edits') = n + 1 /\ DOMAIN edits' = 1..n + 1
      /\ edits'[n + 1] = e /\ \A i \in 1..n : edits'[i] = edits[i]
  <2>1. edits' = Append(edits, e) /\ edits \in Seq(Edits)
    BY <1>0, EditFields DEF CommitAgent
  <2>2. Append(edits, e) \in Seq(Edits) /\ Len(Append(edits, e)) = n + 1
        /\ (\A i \in 1..n : Append(edits, e)[i] = edits[i]) /\ Append(edits, e)[n + 1] = e
    BY <2>1, AppendProperties
  <2> QED BY <2>1, <2>2
<1>3. writer' = IF writer = e THEN "nobody" ELSE writer
  BY DEF CommitAgent
<1>4. RegistryTypeOK'
  BY <1>0, <1>1, <1>2, <1>3, CommittedRow DEF RegistryTypeOK
<1>5. ASSUME NEW o \in Edits, edit'[o].pc = "written", WritesRow(o)'
      PROVE  writer' = o /\ agent'.id = edit'[o].seen.id
  <2>1. o # e
    BY <1>1, <1>5
  <2>2. edit[o].pc = "written" /\ WritesRow(o) /\ edit'[o].seen = edit[o].seen
    BY <1>1, <1>5, <2>1, WishKept
  <2>3. writer = o /\ agent.id = edit[o].seen.id
    BY <2>2 DEF RegistryInv
  <2>4. ~WritesRow(e)
    BY <1>0, <2>1, <2>3 DEF RegistryInv
  <2>5. agent' = agent
    BY <2>4, CommittedRow
  <2> QED BY <1>3, <2>1, <2>2, <2>3, <2>5
<1>6. \A i \in DOMAIN edits : edits[i] \in Edits /\ edit[edits[i]].pc = "committed"
  BY <1>0, EditFields DEF RegistryInv
<1>7. \A i \in DOMAIN edits' : edit'[edits'[i]].pc = "committed"
  <2> SUFFICES ASSUME NEW i \in 1..n + 1 PROVE edit'[edits'[i]].pc = "committed"
    BY <1>2
  <2>1. CASE i = n + 1
    BY <1>1, <1>2, <2>1
  <2>2. CASE i \in 1..n
    BY <1>0, <1>1, <1>2, <1>6, <2>2
  <2> QED BY <1>0, <2>1, <2>2
<1>8. Len(edits') = Cardinality(Committed')
  <2>1. Committed' = Committed \cup {e} /\ e \notin Committed /\ Committed \in SUBSET Edits
    BY <1>0, <1>1 DEF Committed
  <2>2. IsFiniteSet(Committed)
    BY <2>1, RegistryAssumption, FS_Subset
  <2>3. Cardinality(Committed \cup {e}) = Cardinality(Committed) + 1
    BY <2>1, <2>2, FS_AddElement
  <2>4. n = Cardinality(Committed)
    BY DEF RegistryInv
  <2> QED BY <1>2, <2>1, <2>3, <2>4
<1>9. ProfilesStick'
  <2> SUFFICES ASSUME agent'.id # 0, NEW c \in Columns, NEW i \in 1..n + 1,
                      NEW o \in Edits, o = edits'[i], Wrote(o, c)',
                      \A j \in i + 1..n + 1 : \A q \in Edits : q = edits'[j] => ~Wrote(q, c)'
               PROVE  agent'[c] = Assigned(o, c)'
    <3>1. DOMAIN edits' = 1..n + 1 /\ Len(edits') = n + 1
      BY <1>2
    <3>2. \A i \in 1..n + 1 : \E o \in Edits : o = edits'[i]
      BY <1>2
    <3> HIDE DEF n
    <3> QED BY <3>1, <3>2 DEF ProfilesStick
  <2>2. Wrote(o, c) /\ Assigned(o, c)' = Assigned(o, c)
    BY <1>1, WishKept
  <2>3. edit[e].kind # "delete"
    BY CommittedRow
  <2>4. CASE i = n + 1
    <3>1. o = e /\ c \in Sets(e)
      BY <1>2, <2>2, <2>4 DEF Wrote
    <3>2. WritesRow(e)
      BY <3>1 DEF WritesRow
    <3>3. agent'[c] = Assigned(o, c)
      BY <2>3, <3>1, <3>2, CommittedRow
    <3> QED BY <2>2, <3>3
  <2>5. CASE i \in 1..n
    <3>1. o = edits[i] /\ i \in DOMAIN edits
      BY <1>0, <1>2, <2>5
    <3>2. \A j \in i + 1..n : ~Wrote(edits[j], c)
      <4> SUFFICES ASSUME NEW j \in i + 1..n PROVE ~Wrote(edits[j], c)
        OBVIOUS
      <4>1. j \in i + 1..n + 1 /\ j \in 1..n
        BY <1>0, <2>5
      <4>2. PICK q \in Edits : q = edits[j] /\ q = edits'[j]
        BY <1>0, <1>2, <1>6, <4>1
      <4>3. ~Wrote(q, c)'
        BY <4>1, <4>2
      <4> QED BY <1>1, <4>2, <4>3, WishKept
    <3>3. c \notin Sets(e)
      <4>1. n + 1 \in i + 1..n + 1
        BY <1>0, <2>5
      <4>2. ~Wrote(e, c)'
        BY <1>2, <4>1
      <4>3. ~Wrote(e, c)
        BY <1>1, <4>2, WishKept
      <4> QED BY <2>3, <4>3 DEF Wrote
    <3>4. agent.id # 0 /\ agent'[c] = agent[c]
      <4>1. CASE ~WritesRow(e)
        BY <4>1, CommittedRow
      <4>2. CASE WritesRow(e)
        <5>1. ~InsertsAgent(e)
          BY <3>3 DEF Sets
        <5>2. agent.id = edit[e].seen.id
          BY <1>0, <4>2 DEF RegistryInv
        <5> QED BY <2>3, <3>3, <4>2, <5>1, <5>2, CommittedRow DEF InsertsAgent
      <4> QED BY <4>1, <4>2
    <3>5. agent[c] = Assigned(o, c)
      <4> HIDE DEF n
      <4>1. n = Len(edits) /\ ProfilesStick
        BY DEF n, RegistryInv
      <4> QED BY <2>2, <3>1, <3>2, <3>4, <4>1 DEF ProfilesStick
    <3> QED BY <2>2, <3>4, <3>5
  <2> QED BY <1>0, <2>4, <2>5
<1> QED BY <1>4, <1>5, <1>7, <1>8, <1>9 DEF RegistryInv

LEMMA RegistryInvariant == RegistrySpec => []RegistryInv
<1>1. RegistryInit(Wanted) => RegistryInv
  <2> SUFFICES ASSUME RegistryInit(Wanted) PROVE RegistryInv
    OBVIOUS
  <2>1. Cardinality(Edits) \in Nat
    BY RegistryAssumption, FS_CardinalityType
  <2>2. NoAgent \in Row /\ [NoAgent EXCEPT !.id = 1] \in Row
    BY <2>1, RegistryAssumption DEF NoAgent, Row
  <2>3. agent \in Row /\ writer = "nobody" /\ edits = <<>>
    BY <2>2 DEF RegistryInit
  <2>4. edit \in [Edits -> Edit] /\ \A e \in Edits : edit[e].pc = "new"
    BY <2>2 DEF RegistryInit, Wanted, Edit, EditPlaces
  <2>5. Committed = {}
    BY <2>4 DEF Committed
  <2> QED BY <2>3, <2>4, <2>5, FS_EmptySet DEF RegistryInv, RegistryTypeOK, ProfilesStick
<1>2. RegistryInv /\ [RegistryNext]_registryVars => RegistryInv'
  <2> SUFFICES ASSUME RegistryInv, [RegistryNext]_registryVars PROVE RegistryInv'
    OBVIOUS
  <2>0. RegistryTypeOK
    BY DEF RegistryInv
  <2>1. ASSUME NEW e \in Edits, ReadAgent(e) PROVE RegistryInv'
    <3>1. /\ edit' \in [Edits -> Edit] /\ \A o \in Edits \ {e} : edit'[o] = edit[o]
          /\ edit'[e].pc \in {"not_found", "read"} /\ edit[e].pc = "new"
          /\ UNCHANGED <<agent, edits, writer>>
      BY <2>0, <2>1, EditFields DEF ReadAgent, Edit, EditPlaces
    <3> QED BY <2>0, <3>1, UncommittedKeeps DEF RegistryTypeOK
  <2>2. ASSUME NEW e \in Edits, FlushAgent(e) PROVE RegistryInv'
    <3>1. /\ edit' \in [Edits -> Edit] /\ \A o \in Edits \ {e} : edit'[o] = edit[o]
          /\ edit'[e].pc \in {"failed", "written"} /\ edit[e].pc = "read" /\ KeepsWish(e)
          /\ UNCHANGED <<agent, edits>>
      BY <2>0, <2>2, EditFields DEF FlushAgent, Edit, EditPlaces, KeepsWish
    <3>2. /\ writer' \in {writer, e} /\ (writer' # writer => writer = "nobody")
          /\ edit'[e].pc = "written" /\ WritesRow(e)' => writer' = e /\ agent.id = edit'[e].seen.id
      <4>1. CASE WritesRow(e)
        BY <2>0, <2>2, <4>1, EditFields DEF FlushAgent, Edit
      <4>2. CASE ~WritesRow(e)
        <5>1. ~WritesRow(e)'
          BY <3>1, <4>2, WishKept
        <5> QED BY <2>2, <4>2, <5>1 DEF FlushAgent
      <4> QED BY <4>1, <4>2
    <3>3. \A o \in Edits \ {e} : writer = o => writer' = o
      <4>1. CASE WritesRow(e)
        BY <2>2, <4>1, RegistryAssumption DEF FlushAgent
      <4>2. CASE ~WritesRow(e)
        BY <2>2, <4>2 DEF FlushAgent
      <4> QED BY <4>1, <4>2
    <3> QED BY <2>0, <3>1, <3>2, <3>3, UncommittedKeeps DEF RegistryTypeOK
  <2>3. ASSUME NEW e \in Edits, RollBackAgent(e) PROVE RegistryInv'
    <3>1. /\ edit' \in [Edits -> Edit] /\ \A o \in Edits \ {e} : edit'[o] = edit[o]
          /\ edit'[e].pc = "failed" /\ edit[e].pc \in {"read", "written"}
          /\ UNCHANGED <<agent, edits>> /\ writer' \in {writer, "nobody"}
          /\ \A o \in Edits \ {e} : writer = o => writer' = o
      BY <2>0, <2>3, EditFields DEF RollBackAgent, Edit, EditPlaces
    <3> QED BY <2>0, <3>1, UncommittedKeeps DEF RegistryTypeOK
  <2>4. CASE UNCHANGED registryVars
    <3>1. UNCHANGED <<agent, writer, edit, edits>>
      BY <2>4 DEF registryVars
    <3>2. \A o \in Edits : KeepsWish(o)
      BY <3>1 DEF KeepsWish
    <3>3. RegistryTypeOK' /\ Committed' = Committed
      BY <2>0, <3>1 DEF RegistryTypeOK, Committed
    <3>5. \A o \in Edits : WritesRow(o)' <=> WritesRow(o)
      BY <3>2, WishKept
    <3>6. ProfilesStick'
      <4>1. \A o \in Edits : \A c \in Columns :
              (Wrote(o, c)' <=> Wrote(o, c)) /\ Assigned(o, c)' = Assigned(o, c)
        BY <3>2, WishKept
      <4>2. \A i \in DOMAIN edits : edits[i] \in Edits
        BY <2>0 DEF RegistryTypeOK
      <4>3. DOMAIN edits' = DOMAIN edits /\ Len(edits') = Len(edits)
            /\ \A i \in DOMAIN edits : \E o \in Edits : o = edits'[i]
        BY <3>1, <4>2
      <4> SUFFICES ASSUME agent.id # 0, NEW c \in Columns, NEW i \in DOMAIN edits,
                          NEW o \in Edits, o = edits[i], Wrote(o, c)',
                          \A j \in i + 1..Len(edits) : ~Wrote(edits[j], c)'
                   PROVE  agent[c] = Assigned(o, c)'
        BY <3>1, <4>3 DEF ProfilesStick
      <4>4. ASSUME NEW j \in i + 1..Len(edits) PROVE ~Wrote(edits[j], c)
        <5>1. j \in DOMAIN edits
          BY <2>0, EditFields
        <5>2. PICK q \in Edits : q = edits[j] /\ q = edits'[j]
          BY <3>1, <4>2, <5>1
        <5>3. ~Wrote(edits[j], c)'
          BY <4>4
        <5>4. ~Wrote(q, c)'
          BY <5>2, <5>3
        <5> QED BY <4>1, <5>2, <5>4
      <4> QED BY <4>1, <4>4 DEF RegistryInv, ProfilesStick
    <3> QED BY <3>1, <3>3, <3>5, <3>6 DEF RegistryInv
  <2> QED BY <2>1, <2>2, <2>3, <2>4, CommitKeepsRegistry DEF RegistryNext
<1> QED BY <1>1, <1>2, PTL DEF RegistrySpec

-------------------------------------------------------------------------------
(* Members and their roles *)

(* A request that changes a member's row is alone with it from its flush to *)
(* its commit; whoever is given a role is a member; and an event that will  *)
(* give a role is in the trail.                                             *)
ChangeInv(a) ==
  ask[a].kind \in AskKinds =>
    /\ ask[a].pc \in {"written", "audited"} /\ ~ChangesNothing(a) =>
         /\ holder[ask[a].target] = a
         /\ Inserts(a) => member[ask[a].target].status = "none"
    /\ ask[a].kind = "set_role" /\ ask[a].pc \in {"read", "written", "audited", "committed"} =>
         member[ask[a].target].status # "none"
    /\ GivesRole(a) => member[ask[a].target].status # "none"
    /\ ask[a].pc = "audited" => \E i \in DOMAIN trail : trail[i] = a

(* Every event is of another request, and none that gives a role follows    *)
(* the event of one that still holds the row.                               *)
EventsInv ==
  /\ \A i \in DOMAIN trail :
       /\ ask[trail[i]].pc \in {"audited", "committed", "failed"} /\ ask[trail[i]].kind \in Audited
       /\ ask[trail[i]].pc = "audited" /\ ~ChangesNothing(trail[i]) =>
            \A j \in i + 1..Len(trail) :
              ask[trail[j]].target = ask[trail[i]].target => ~GivesRole(trail[j])
  /\ \A i, j \in DOMAIN trail : trail[i] = trail[j] => i = j

MembersShape ==
  /\ \A a \in Asks : \/ ask[a].kind \in AskKinds /\ ask[a].seen \in MemberRow
                     \/ ask[a].kind \in KeyKinds /\ ask[a].seen \in KeyRow
  /\ holder \in [People -> Asks \cup {"nobody"}] /\ trail \in Seq(Asks)

RoleInv == MembersShape /\ (\A a \in Asks : ChangeInv(a)) /\ EventsInv /\ TrailTellsRole

(* A request that is past its read keeps what it has read and wants. *)
Keeps(a) == ask'[a].role = ask[a].role /\ ask'[a].seen = ask[a].seen

LEMMA ChangesKept ==
  ASSUME NEW a \in Asks, ask'[a].kind = ask[a].kind, Keeps(a)
  PROVE  /\ ChangesNothing(a)' <=> ChangesNothing(a)
         /\ Inserts(a)' <=> Inserts(a)
BY DEF ChangesNothing, Inserts, Keeps

(* The events of a trail that nobody has written to. *)
LEMMA SameEvents ==
  ASSUME KeysTyped, RoleInv, UNCHANGED trail,
         \A o \in Asks :
           /\ ask'[o].kind = ask[o].kind /\ ask'[o].target = ask[o].target
           /\ GivesRole(o)' <=> GivesRole(o)
           /\ ask[o].pc \in {"audited", "committed", "failed"} =>
                ask'[o].pc \in {"audited", "committed", "failed"}
           /\ ask'[o].pc = "audited" =>
                ask[o].pc = "audited" /\ (ChangesNothing(o)' <=> ChangesNothing(o))
           /\ GivesRole(o) => /\ member'[ask[o].target].role = member[ask[o].target].role
                              /\ ask'[o].role = ask[o].role
  PROVE  EventsInv' /\ TrailTellsRole'
<1>1. trail \in Seq(Asks) /\ EventsInv /\ TrailTellsRole
  BY DEF RoleInv, MembersShape
<1>2. /\ \A i \in DOMAIN trail : trail[i] \in Asks
      /\ \A i \in DOMAIN trail : \A j \in i + 1..Len(trail) : j \in DOMAIN trail
  BY <1>1
<1>3. ASSUME NEW i \in DOMAIN trail
      PROVE  /\ ask'[trail[i]].pc \in {"audited", "committed", "failed"}
             /\ ask'[trail[i]].kind \in Audited
             /\ ask'[trail[i]].pc = "audited" /\ ~ChangesNothing(trail[i])' =>
                  \A j \in i + 1..Len(trail) :
                    ask'[trail[j]].target = ask'[trail[i]].target => ~GivesRole(trail[j])'
  <2>1. PICK o \in Asks : o = trail[i]
    BY <1>2
  <2>2. ASSUME ask'[o].pc = "audited", ~ChangesNothing(o)', NEW j \in i + 1..Len(trail),
               NEW q \in Asks, q = trail[j], ask'[q].target = ask'[o].target
        PROVE  ~GivesRole(q)'
    <3>1. ~GivesRole(q)
      BY <1>1, <2>1, <2>2 DEF EventsInv
    <3> QED BY <3>1
  <2> QED BY <1>1, <1>2, <2>1, <2>2 DEF EventsInv
<1>4. EventsInv'
  BY <1>1, <1>3 DEF EventsInv
<1>5. TrailTellsRole'
  <2> SUFFICES ASSUME NEW i \in DOMAIN trail, NEW o \in Asks, o = trail[i], GivesRole(o)',
                      \A j \in i + 1..Len(trail) : \A q \in Asks :
                        q = trail[j] /\ ask'[q].target = ask'[o].target => ~GivesRole(q)'
               PROVE  member'[ask'[o].target].role = ask'[o].role
    BY <1>2 DEF TrailTellsRole
  <2>1. GivesRole(o)
    OBVIOUS
  <2>2. \A j \in i + 1..Len(trail) : ask[trail[j]].target = ask[o].target => ~GivesRole(trail[j])
    BY <1>2
  <2>3. member[ask[o].target].role = ask[o].role
    BY <1>1, <2>1, <2>2 DEF TrailTellsRole
  <2> QED BY <2>1, <2>3
<1> QED BY <1>4, <1>5

(* What the invariant says of the other requests, after a step that leaves  *)
(* the row of whoever holds it alone.                                       *)
LEMMA OthersKeep ==
  ASSUME KeysTyped, KeyAsksApart, RoleInv, NEW a \in Asks, NEW o \in Asks, o # a, ask'[o] = ask[o],
         \A p \in People : holder[p] = o =>
           holder'[p] = o /\ (member[p].status = "none" => member'[p].status = "none"),
         \A p \in People : member[p].status # "none" => member'[p].status # "none",
         \A i \in DOMAIN trail : i \in DOMAIN trail' /\ trail'[i] = trail[i]
  PROVE  ChangeInv(o)'
<1>1. /\ ChangesNothing(o)' <=> ChangesNothing(o)
      /\ Inserts(o)' <=> Inserts(o)
      /\ GivesRole(o)' <=> GivesRole(o)
  BY DEF ChangesNothing, Inserts, GivesRole
<1>2. ask[o].kind \in AskKinds => ask[o].target \in People
  BY DEF KeyAsksApart, AskKinds, KeyKinds, Audited
<1>3. ChangeInv(o)
  BY DEF RoleInv
<1>4. ask[o].pc = "audited" /\ ask[o].kind \in AskKinds => \E i \in DOMAIN trail' : trail'[i] = o
  BY <1>3 DEF ChangeInv
<1>5. ask[o].kind \in AskKinds /\ ask[o].pc \in {"written", "audited"} /\ ~ChangesNothing(o) =>
        /\ holder'[ask[o].target] = o
        /\ Inserts(o) => member'[ask[o].target].status = "none"
  BY <1>2, <1>3 DEF ChangeInv
<1>6. /\ ask[o].kind = "set_role" /\ ask[o].pc \in {"read", "written", "audited", "committed"} =>
           member'[ask[o].target].status # "none"
      /\ ask[o].kind \in AskKinds /\ GivesRole(o) => member'[ask[o].target].status # "none"
  BY <1>2, <1>3 DEF ChangeInv, AskKinds, Audited
<1> QED BY <1>1, <1>4, <1>5, <1>6 DEF ChangeInv

(* A step that commits no change of a member and audits none. *)
LEMMA QuietKeeps ==
  ASSUME KeysTyped, KeyAsksApart, RoleInv, NEW a \in Asks, NEW place \in AskPlaces,
         ComesTo(a, place), UNCHANGED <<member, trail>>, ask'[a].role = ask[a].role,
         ask'[a].kind \in AskKinds => ask'[a].seen \in MemberRow,
         ask'[a].kind \in KeyKinds => ask'[a].seen \in KeyRow,
         \/ ask[a].kind \in KeyKinds /\ ask[a].pc \in {"new", "read"} /\ place \notin {"written", "audited"}
         \/ ask[a].pc = "new" /\ place = "read"
              /\ (ask[a].kind = "set_role" => member[ask[a].target].status # "none")
         \/ /\ ask[a].pc \in {"new", "read", "written", "audited"}
            /\ place \in {"conflict", "forbidden", "not_found", "failed"}
            /\ Keeps(a) /\ (ask[a].pc = "audited" => place = "failed"),
         holder' \in [People -> Asks \cup {"nobody"}],
         \A p \in People : \A o \in Asks \ {a} : holder[p] = o => holder'[p] = o
  PROVE  RoleInv'
<1>1. /\ \A o \in Asks : ask'[o].kind = ask[o].kind /\ ask'[o].target = ask[o].target
                         /\ (ask[o].kind \in AskKinds => ask[o].kind \notin KeyKinds)
      /\ \A o \in Asks \ {a} : ask'[o] = ask[o]
      /\ ask'[a].pc = place
  BY DEF ComesTo, AskKinds, KeyKinds, Audited
<1>2. MembersShape'
  <2>1. \A o \in Asks : \/ ask'[o].kind \in AskKinds /\ ask'[o].seen \in MemberRow
                        \/ ask'[o].kind \in KeyKinds /\ ask'[o].seen \in KeyRow
    BY <1>1 DEF RoleInv, MembersShape
  <2> QED BY <2>1 DEF RoleInv, MembersShape
<1>3. \A o \in Asks \ {a} :
        /\ ChangesNothing(o)' <=> ChangesNothing(o)
        /\ Inserts(o)' <=> Inserts(o)
        /\ GivesRole(o)' <=> GivesRole(o)
  BY <1>1 DEF ChangesNothing, Inserts, GivesRole
<1>4. ~GivesRole(a) /\ ~GivesRole(a)'
  BY <1>1 DEF GivesRole, KeyKinds
<1>6. EventsInv' /\ TrailTellsRole'
  <2>1. ask[a].pc \in {"audited", "committed", "failed"} => place = "failed"
    BY DEF KeyAsksApart
  <2>2. place # "audited"
    OBVIOUS
  <2> QED BY <1>1, <1>3, <1>4, <2>1, <2>2, SameEvents
<1>7. ChangeInv(a)'
  BY <1>1, <1>4 DEF ChangeInv, KeyKinds
<1>8. \A o \in Asks \ {a} : ChangeInv(o)'
  BY <1>1, OthersKeep
<1> QED BY <1>2, <1>6, <1>7, <1>8 DEF RoleInv

(* What a step that only moves request a leaves of it. *)
LEMMA MovesOn ==
  ASSUME KeysTyped, NEW a \in Asks, NEW place \in AskPlaces, ask' = [ask EXCEPT ![a].pc = place]
  PROVE  /\ ComesTo(a, place) /\ Keeps(a)
         /\ ChangesNothing(a)' <=> ChangesNothing(a)
         /\ Inserts(a)' <=> Inserts(a)
         /\ \A o \in Asks : ask'[o].seen = ask[o].seen /\ ask'[o].kind = ask[o].kind
         /\ \A o \in Asks \ {a} : (GivesRole(o)' <=> GivesRole(o))
                                  /\ (ChangesNothing(o)' <=> ChangesNothing(o))
<1>1. ComesTo(a, place)
  BY RefuseComes
<1>2. Keeps(a) /\ ask'[a].kind = ask[a].kind
  BY DEF KeysTyped, AskRow, Keeps
<1>3. \A o \in Asks \ {a} : ask'[o] = ask[o]
  BY <1>1 DEF ComesTo
<1>4. \A o \in Asks \ {a} : (GivesRole(o)' <=> GivesRole(o))
                            /\ (ChangesNothing(o)' <=> ChangesNothing(o))
  BY <1>3 DEF GivesRole, ChangesNothing
<1>5. \A o \in Asks : ask'[o].seen = ask[o].seen /\ ask'[o].kind = ask[o].kind
  BY <1>2, <1>3 DEF Keeps
<1> QED BY <1>1, <1>2, <1>4, <1>5, ChangesKept

LEMMA FlushKeeps ==
  ASSUME KeysTyped, KeyAsksApart, RoleInv, NEW a \in Asks, Flush(a)
  PROVE  RoleInv'
<1> DEFINE p == ask[a].target
<1>0. /\ ask[a].pc = "read" /\ ask[a].kind \in AskKinds /\ ask[a].kind \notin KeyKinds /\ p \in People
      /\ ask[a].seen \in MemberRow
  BY DEF Flush, AskKinds, KeyKinds, Audited, KeyAsksApart, RoleInv, MembersShape
<1>1. CASE Refuse(a, "failed")
  <2>1. ask' = [ask EXCEPT ![a].pc = "failed"] /\ UNCHANGED <<member, holder, trail>>
    BY <1>1 DEF Refuse
  <2>2. ComesTo(a, "failed") /\ Keeps(a) /\ ask'[a].kind = ask[a].kind
    BY <2>1, MovesOn DEF AskPlaces
  <2> QED BY <1>0, <2>1, <2>2, QuietKeeps DEF AskPlaces, Keeps, RoleInv, MembersShape
<1>2. CASE /\ ask' = [ask EXCEPT ![a].pc = "written"] /\ UNCHANGED <<member, trail>>
           /\ \/ ChangesNothing(a) /\ holder' = holder
              \/ /\ holder[p] = "nobody" /\ holder' = [holder EXCEPT ![p] = a]
                 /\ Inserts(a) => member[p].status = "none"
  <2>1. /\ ComesTo(a, "written") /\ Keeps(a)
        /\ ChangesNothing(a)' <=> ChangesNothing(a)
        /\ Inserts(a)' <=> Inserts(a)
        /\ \A o \in Asks : ask'[o].seen = ask[o].seen /\ ask'[o].kind = ask[o].kind
        /\ \A o \in Asks \ {a} : (GivesRole(o)' <=> GivesRole(o))
                                 /\ (ChangesNothing(o)' <=> ChangesNothing(o))
    BY <1>2, MovesOn DEF AskPlaces
  <2>2. /\ ask'[a].pc = "written" /\ ask'[a].target = p
        /\ \A o \in Asks \ {a} : ask'[o] = ask[o]
    BY <2>1 DEF ComesTo
  <2>3. holder \in [People -> Asks \cup {"nobody"}] /\ \A o \in Asks : o # "nobody"
    BY MembersAssumption DEF RoleInv, MembersShape
  <2>4. /\ holder' \in [People -> Asks \cup {"nobody"}]
        /\ \A q \in People : \A o \in Asks \ {a} : holder[q] = o => holder'[q] = o
        /\ ChangesNothing(a) \/ holder'[p] = a
    BY <1>0, <1>2, <2>3
  <2>5. MembersShape'
    BY <1>2, <2>1, <2>4 DEF RoleInv, MembersShape
  <2>6. ~GivesRole(a) /\ ~GivesRole(a)'
    BY <1>0, <2>2 DEF GivesRole
  <2>7. EventsInv' /\ TrailTellsRole'
    <3>1. \A o \in Asks :
           /\ ask'[o].kind = ask[o].kind /\ ask'[o].target = ask[o].target
           /\ GivesRole(o)' <=> GivesRole(o)
           /\ ask[o].pc \in {"audited", "committed", "failed"} =>
                ask'[o].pc \in {"audited", "committed", "failed"}
           /\ ask'[o].pc = "audited" =>
                ask[o].pc = "audited" /\ (ChangesNothing(o)' <=> ChangesNothing(o))
           /\ GivesRole(o) => /\ member'[ask[o].target].role = member[ask[o].target].role
                              /\ ask'[o].role = ask[o].role
      BY <1>0, <1>2, <2>1, <2>2, <2>6
    <3> QED BY <1>2, <3>1, SameEvents
  <2>8. \A o \in Asks \ {a} : ChangeInv(o)'
    BY <1>2, <2>2, <2>4, OthersKeep
  <2>9. ChangeInv(a)'
    <3>1. ~ChangesNothing(a) => (Inserts(a) => member[p].status = "none")
      BY <1>2
    <3>2. ask[a].kind = "set_role" => member[p].status # "none"
      BY <1>0 DEF RoleInv, ChangeInv
    <3> QED BY <1>2, <2>1, <2>2, <2>4, <2>6, <3>1, <3>2 DEF ChangeInv
  <2> QED BY <2>5, <2>7, <2>8, <2>9 DEF RoleInv
<1> QED BY <1>1, <1>2 DEF Flush, HolderAfterFlush

LEMMA AuditKeeps ==
  ASSUME KeysTyped, KeyAsksApart, RoleInv, NEW a \in Asks, AuditMember(a)
  PROVE  RoleInv'
<1> DEFINE p == ask[a].target
           n == Len(trail)
<1>0. /\ ask[a].pc = "written" /\ ask[a].kind \in Audited /\ ask[a].kind \in AskKinds
      /\ ask' = [ask EXCEPT ![a].pc = "audited"] /\ trail' = Append(trail, a)
      /\ UNCHANGED <<member, holder>>
  BY DEF AuditMember, AskKinds
<1>1. /\ ComesTo(a, "audited") /\ Keeps(a)
      /\ ChangesNothing(a)' <=> ChangesNothing(a)
      /\ Inserts(a)' <=> Inserts(a)
      /\ \A o \in Asks : ask'[o].seen = ask[o].seen /\ ask'[o].kind = ask[o].kind
      /\ \A o \in Asks \ {a} : (GivesRole(o)' <=> GivesRole(o))
                               /\ (ChangesNothing(o)' <=> ChangesNothing(o))
  BY <1>0, MovesOn DEF AskPlaces
<1>2. /\ ask'[a].pc = "audited" /\ \A o \in Asks : ask'[o].target = ask[o].target
      /\ \A o \in Asks \ {a} : ask'[o] = ask[o]
  BY <1>1 DEF ComesTo
<1>3. ~GivesRole(a) /\ ~GivesRole(a)'
  BY <1>0, <1>2 DEF GivesRole
<1>4. trail \in Seq(Asks) /\ EventsInv /\ TrailTellsRole /\ MembersShape
  BY DEF RoleInv, MembersShape
<1>5. /\ trail' \in Seq(Asks) /\ Len(trail') = n + 1 /\ trail'[n + 1] = a
      /\ \A i \in 1..n : trail'[i] = trail[i] /\ trail[i] \in Asks
      /\ DOMAIN trail' = 1..n + 1 /\ DOMAIN trail = 1..n /\ n \in Nat
  BY <1>0, <1>4
<1>6. \A i \in 1..n : trail[i] # a
  BY <1>0, <1>4, <1>5 DEF EventsInv
<1>7. MembersShape'
  BY <1>0, <1>1, <1>4, <1>5 DEF MembersShape
<1>8. \A o \in Asks : GivesRole(o)' <=> GivesRole(o)
  BY <1>1, <1>3
<1>9. EventsInv'
  <2>1. ASSUME NEW i \in 1..n + 1, NEW o \in Asks, o = trail'[i]
        PROVE  /\ ask'[o].pc \in {"audited", "committed", "failed"} /\ ask'[o].kind \in Audited
               /\ ask'[o].pc = "audited" /\ ~ChangesNothing(o)' =>
                    \A j \in i + 1..n + 1 : \A q \in Asks :
                      q = trail'[j] /\ ask'[q].target = ask'[o].target => ~GivesRole(q)'
    <3>1. CASE i = n + 1
      BY <1>0, <1>1, <1>2, <1>5, <2>1, <3>1
    <3>2. CASE i \in 1..n
      <4>0. o = trail[i] /\ o # a
        BY <1>5, <1>6, <2>1, <3>2
      <4>1. /\ ask[o].pc \in {"audited", "committed", "failed"} /\ ask[o].kind \in Audited
            /\ ask[o].pc = "audited" /\ ~ChangesNothing(o) =>
                 \A j \in i + 1..n : ask[trail[j]].target = ask[o].target => ~GivesRole(trail[j])
        BY <1>4, <1>5, <3>2, <4>0 DEF EventsInv
      <4>2. ASSUME ask'[o].pc = "audited", ~ChangesNothing(o)', NEW j \in i + 1..n + 1,
                   NEW q \in Asks, q = trail'[j], ask'[q].target = ask'[o].target
            PROVE  ~GivesRole(q)'
        <5>1. CASE j = n + 1
          BY <1>3, <1>5, <4>2, <5>1
        <5>2. CASE j \in i + 1..n
          <6>1. ask[o].pc = "audited" /\ ~ChangesNothing(o)
            BY <1>1, <1>2, <4>0, <4>2
          <6>2. q = trail[j]
            BY <1>5, <3>2, <4>2, <5>2
          <6>3. ~GivesRole(q)
            BY <1>2, <4>1, <4>2, <5>2, <6>1, <6>2
          <6> QED BY <1>8, <6>3
        <5> QED BY <1>5, <3>2, <4>2, <5>1, <5>2
      <4>3. ask'[o].pc \in {"audited", "committed", "failed"} /\ ask'[o].kind \in Audited
        BY <1>2, <4>0, <4>1
      <4> QED BY <4>2, <4>3
    <3> QED BY <1>5, <3>1, <3>2
  <2>2. \A i, j \in 1..n + 1 : trail'[i] = trail'[j] => i = j
    BY <1>4, <1>5, <1>6 DEF EventsInv
  <2>3. \A j \in 1..n + 1 : trail'[j] \in Asks
    BY <1>5
  <2>4. \A i \in 1..n + 1 : i + 1..n + 1 \subseteq 1..n + 1
    BY <1>5
  <2> QED BY <1>5, <2>1, <2>2, <2>3, <2>4 DEF EventsInv
<1>10. TrailTellsRole'
  <2> SUFFICES ASSUME NEW i \in 1..n + 1, NEW o \in Asks, o = trail'[i], GivesRole(o)',
                      \A j \in i + 1..n + 1 : \A q \in Asks :
                        q = trail'[j] /\ ask'[q].target = ask'[o].target => ~GivesRole(q)'
               PROVE  member'[ask'[o].target].role = ask'[o].role
    <3>1. \A j \in 1..n + 1 : trail'[j] \in Asks
      BY <1>5
    <3> QED BY <1>5, <3>1 DEF TrailTellsRole
  <2>1. GivesRole(o) /\ o # a
    BY <1>3, <1>8
  <2>2. i \in 1..n /\ o = trail[i]
    BY <1>5, <2>1
  <2>3. \A j \in i + 1..n : ask[trail[j]].target = ask[trail[i]].target => ~GivesRole(trail[j])
    <3> SUFFICES ASSUME NEW j \in i + 1..n, NEW q \in Asks, q = trail[j], ask[q].target = ask[o].target
                 PROVE  ~GivesRole(q)
      BY <1>5, <2>2
    <3>1. q = trail'[j] /\ j \in i + 1..n + 1
      BY <1>5
    <3> QED BY <1>2, <1>8, <3>1
  <2>4. member[ask[o].target].role = ask[o].role
    BY <1>4, <1>5, <2>1, <2>2, <2>3 DEF TrailTellsRole
  <2> QED BY <1>0, <1>2, <2>1, <2>4
<1>11. \A o \in Asks \ {a} : ChangeInv(o)'
  BY <1>0, <1>2, <1>5, OthersKeep
<1>12. ChangeInv(a)'
  <2>1. \E i \in DOMAIN trail' : trail'[i] = a
    BY <1>5
  <2>2. /\ ~ChangesNothing(a) => holder[p] = a /\ (Inserts(a) => member[p].status = "none")
        /\ ask[a].kind = "set_role" => member[p].status # "none"
    BY <1>0 DEF RoleInv, ChangeInv
  <2> QED BY <1>0, <1>1, <1>2, <1>3, <2>1, <2>2 DEF ChangeInv
<1> QED BY <1>7, <1>9, <1>10, <1>11, <1>12 DEF RoleInv

(* What a commit makes of the members. *)
LEMMA CommitsAlone ==
  ASSUME KeysTyped, KeyAsksApart, RoleInv, NEW a \in Asks, CommitMember(a)
  PROVE  /\ ask[a].pc \in {"written", "audited"} /\ (ask[a].kind \in Audited => ask[a].pc = "audited")
         /\ ask[a].kind \in AskKinds /\ ask[a].target \in People
         /\ \A q \in People : member[q].status # "none" => member'[q].status # "none"
         /\ \A q \in People : holder[q] # a => member'[q] = member[q]
         /\ \A q \in People : q # ask[a].target => member'[q] = member[q]
         /\ ask[a].kind = "invite" => member'[ask[a].target].status # "none"
         /\ IF ask[a].kind \in {"invite", "set_role"} /\ ~ChangesNothing(a)
            THEN member'[ask[a].target].role = ask[a].role
            ELSE \A q \in People : member[q].status # "none" => member'[q].role = member[q].role
<1> DEFINE p == ask[a].target
<1>1. /\ ask[a].pc \in {"written", "audited"} /\ (ask[a].kind \in Audited => ask[a].pc = "audited")
      /\ ask[a].kind \in AskKinds /\ p \in People
  BY DEF CommitMember, Wants, AskKinds, KeyKinds, Audited, KeyAsksApart
<1>2. member \in [People -> MemberRow] /\ member[p] \in MemberRow
  BY <1>1 DEF KeysTyped
<1>3. CASE ChangesNothing(a)
  <2>1. member' = member
    BY <1>3 DEF CommitMember
  <2>2. ask[a].kind # "invite"
    BY <1>3 DEF ChangesNothing
  <2> QED BY <1>1, <1>3, <2>1, <2>2
<1>4. CASE ~ChangesNothing(a)
  <2>1. member' = [member EXCEPT ![p] = Updated(a, member[p])]
    BY <1>4 DEF CommitMember
  <2>2. /\ member'[p] = Updated(a, member[p])
        /\ \A q \in People : q # p => member'[q] = member[q]
    BY <1>1, <1>2, <2>1
  <2>3. holder[p] = a /\ (Inserts(a) => member[p].status = "none")
    BY <1>1, <1>4 DEF RoleInv, ChangeInv
  <2>4. ask[a].kind \in {"invite", "set_role", "revoke", "sign_in"}
    BY <1>1 DEF AskKinds, Audited
  <2>5. CASE ask[a].kind = "invite"
    <3>1. Updated(a, member[p]) = [status |-> "invited", role |-> ask[a].role]
      BY <2>5 DEF Updated, Joins
    <3> QED BY <1>1, <1>4, <2>2, <2>3, <2>5, <3>1
  <2>6. CASE ask[a].kind = "set_role"
    <3>1. Updated(a, member[p]) = [member[p] EXCEPT !.role = ask[a].role]
      BY <2>6 DEF Updated, Joins
    <3>2. Updated(a, member[p]).role = ask[a].role /\ Updated(a, member[p]).status = member[p].status
      BY <1>2, <3>1 DEF MemberRow
    <3> QED BY <1>1, <1>4, <2>2, <2>3, <2>6, <3>2
  <2>7. CASE ask[a].kind = "revoke"
    <3>1. Updated(a, member[p]) = [member[p] EXCEPT !.status = "revoked"]
      BY <2>7 DEF Updated, Joins
    <3>2. Updated(a, member[p]).role = member[p].role /\ Updated(a, member[p]).status = "revoked"
      BY <1>2, <3>1 DEF MemberRow
    <3> QED BY <1>1, <1>4, <2>2, <2>3, <2>7, <3>2
  <2>8. CASE ask[a].kind = "sign_in"
    <3>1. CASE Joins(a)
      <4>1. Updated(a, member[p]) = [status |-> "active", role |-> JoinRole]
        BY <2>8, <3>1 DEF Updated
      <4>2. member[p].status = "none"
        BY <2>3, <3>1 DEF Joins, Inserts
      <4> QED BY <1>1, <1>4, <2>2, <2>3, <2>8, <4>1, <4>2
    <3>2. CASE ~Joins(a)
      <4>1. Updated(a, member[p]) = [member[p] EXCEPT !.status = "active"]
        BY <2>8, <3>2 DEF Updated
      <4>2. Updated(a, member[p]).role = member[p].role /\ Updated(a, member[p]).status = "active"
        BY <1>2, <4>1 DEF MemberRow
      <4> QED BY <1>1, <1>4, <2>2, <2>3, <2>8, <4>2
    <3> QED BY <3>1, <3>2
  <2> QED BY <2>4, <2>5, <2>6, <2>7, <2>8
<1> QED BY <1>3, <1>4

LEMMA CommitKeeps ==
  ASSUME KeysTyped, KeyAsksApart, RoleInv, NEW a \in Asks, CommitMember(a)
  PROVE  RoleInv'
<1> DEFINE p == ask[a].target
<1>0. /\ ask[a].pc \in {"written", "audited"} /\ (ask[a].kind \in Audited => ask[a].pc = "audited")
      /\ ask[a].kind \in AskKinds /\ ask[a].kind \notin KeyKinds /\ p \in People
      /\ \A q \in People : member[q].status # "none" => member'[q].status # "none"
      /\ \A q \in People : holder[q] # a => member'[q] = member[q]
      /\ \A q \in People : q # p => member'[q] = member[q]
      /\ ask[a].kind = "invite" => member'[p].status # "none"
      /\ IF ask[a].kind \in {"invite", "set_role"} /\ ~ChangesNothing(a)
         THEN member'[p].role = ask[a].role
         ELSE \A q \in People : member[q].status # "none" => member'[q].role = member[q].role
  BY CommitsAlone DEF AskKinds, KeyKinds, Audited
<1>1. /\ ComesTo(a, "committed") /\ Keeps(a)
      /\ ChangesNothing(a)' <=> ChangesNothing(a)
      /\ \A o \in Asks : ask'[o].seen = ask[o].seen /\ ask'[o].kind = ask[o].kind
      /\ \A o \in Asks \ {a} : (GivesRole(o)' <=> GivesRole(o))
                               /\ (ChangesNothing(o)' <=> ChangesNothing(o))
  BY MovesOn DEF AskPlaces, CommitMember
<1>2. /\ ask'[a].pc = "committed" /\ \A o \in Asks : ask'[o].target = ask[o].target
      /\ \A o \in Asks \ {a} : ask'[o] = ask[o]
      /\ ask'[a].role = ask[a].role
  BY <1>1 DEF ComesTo, Keeps
<1>3. trail' = trail /\ trail \in Seq(Asks) /\ EventsInv /\ TrailTellsRole /\ MembersShape
  BY DEF RoleInv, MembersShape, CommitMember
<1>4. /\ holder' \in [People -> Asks \cup {"nobody"}]
      /\ \A q \in People : \A o \in Asks \ {a} : holder[q] = o => holder'[q] = o
  BY <1>3 DEF CommitMember, Release, MembersShape
<1>5. MembersShape'
  BY <1>1, <1>3, <1>4 DEF MembersShape
<1>6. ~GivesRole(a) /\ (GivesRole(a)' <=> ask[a].kind \in {"invite", "set_role"} /\ ~ChangesNothing(a))
  <2>1. ask[a].kind = "invite" => ~ChangesNothing(a)
    BY DEF ChangesNothing
  <2> QED BY <1>0, <1>1, <1>2, <2>1 DEF GivesRole
<1>7. \A o \in Asks : GivesRole(o) => ask[o].target \in People /\ member[ask[o].target].status # "none"
  BY DEF RoleInv, ChangeInv, GivesRole, KeyAsksApart, AskKinds, KeyKinds, Audited
<1>8. CASE ~GivesRole(a)'
  <2>1. EventsInv' /\ TrailTellsRole'
    <3>1. \A o \in Asks :
           /\ ask'[o].kind = ask[o].kind /\ ask'[o].target = ask[o].target
           /\ GivesRole(o)' <=> GivesRole(o)
           /\ ask[o].pc \in {"audited", "committed", "failed"} =>
                ask'[o].pc \in {"audited", "committed", "failed"}
           /\ ask'[o].pc = "audited" =>
                ask[o].pc = "audited" /\ (ChangesNothing(o)' <=> ChangesNothing(o))
           /\ GivesRole(o) => /\ member'[ask[o].target].role = member[ask[o].target].role
                              /\ ask'[o].role = ask[o].role
      BY <1>0, <1>1, <1>2, <1>6, <1>7, <1>8
    <3> QED BY <1>3, <3>1, SameEvents
  <2>2. ChangeInv(a)'
    <3>1. ask[a].kind = "set_role" => member'[p].status # "none"
      BY <1>0 DEF RoleInv, ChangeInv
    <3> QED BY <1>1, <1>2, <1>8, <3>1 DEF ChangeInv
  <2>3. \A o \in Asks \ {a} : ChangeInv(o)'
    BY <1>0, <1>2, <1>3, <1>4, OthersKeep
  <2> QED BY <1>5, <2>1, <2>2, <2>3 DEF RoleInv
<1>9. CASE GivesRole(a)'
  <2>1. /\ ask[a].kind \in {"invite", "set_role"} /\ ~ChangesNothing(a) /\ ask[a].pc = "audited"
        /\ holder[p] = a /\ member'[p].role = ask[a].role
    BY <1>0, <1>6, <1>9 DEF RoleInv, ChangeInv, Audited
  <2>2. PICK i0 \in DOMAIN trail : trail[i0] = a
    BY <1>0, <2>1 DEF RoleInv, ChangeInv
  <2>3. /\ \A i \in DOMAIN trail : trail[i] \in Asks
        /\ \A i \in DOMAIN trail : \A j \in i + 1..Len(trail) : j \in DOMAIN trail
        /\ \A i, j \in DOMAIN trail : i # j => i \in j + 1..Len(trail) \/ j \in i + 1..Len(trail)
    BY <1>3
  <2>4. EventsInv'
    <3>1. ASSUME NEW i \in DOMAIN trail, NEW o \in Asks, o = trail[i]
          PROVE  /\ ask'[o].pc \in {"audited", "committed", "failed"} /\ ask'[o].kind \in Audited
                 /\ ask'[o].pc = "audited" /\ ~ChangesNothing(o)' =>
                      \A j \in i + 1..Len(trail) : \A q \in Asks :
                        q = trail[j] /\ ask'[q].target = ask'[o].target => ~GivesRole(q)'
      <4>1. /\ ask[o].pc \in {"audited", "committed", "failed"} /\ ask[o].kind \in Audited
            /\ ask[o].pc = "audited" /\ ~ChangesNothing(o) =>
                 \A j \in i + 1..Len(trail) : ask[trail[j]].target = ask[o].target => ~GivesRole(trail[j])
        BY <1>3, <3>1 DEF EventsInv
      <4>2. ASSUME ask'[o].pc = "audited", ~ChangesNothing(o)', NEW j \in i + 1..Len(trail),
                   NEW q \in Asks, q = trail[j], ask'[q].target = ask'[o].target
            PROVE  ~GivesRole(q)'
        <5>1. o # a /\ ask[o].pc = "audited" /\ ~ChangesNothing(o)
          BY <1>1, <1>2, <4>2
        <5>2. holder[ask[o].target] = o
          BY <4>1, <5>1 DEF RoleInv, ChangeInv, AskKinds
        <5>3. q # a
          BY <1>2, <2>1, <4>2, <5>1, <5>2
        <5>4. ~GivesRole(q)
          BY <1>2, <4>1, <4>2, <5>1
        <5> QED BY <1>1, <5>3, <5>4
      <4> QED BY <1>1, <1>2, <4>1, <4>2
    <3>2. \A i, j \in DOMAIN trail : trail[i] = trail[j] => i = j
      BY <1>3 DEF EventsInv
    <3> QED BY <1>3, <2>3, <3>1, <3>2 DEF EventsInv
  <2>5. TrailTellsRole'
    <3> SUFFICES ASSUME NEW i \in DOMAIN trail, NEW o \in Asks, o = trail[i], GivesRole(o)',
                        \A j \in i + 1..Len(trail) : \A q \in Asks :
                          q = trail[j] /\ ask'[q].target = ask'[o].target => ~GivesRole(q)'
                 PROVE  member'[ask'[o].target].role = ask'[o].role
      BY <1>3, <2>3 DEF TrailTellsRole
    <3>1. CASE o = a
      BY <1>2, <2>1, <3>1
    <3>2. CASE o # a /\ ask[o].target # p
      <4>1. GivesRole(o) /\ ask'[o] = ask[o]
        BY <1>1, <1>2, <3>2
      <4>2. \A j \in i + 1..Len(trail) : ask[trail[j]].target = ask[trail[i]].target => ~GivesRole(trail[j])
        <5> SUFFICES ASSUME NEW j \in i + 1..Len(trail), NEW q \in Asks, q = trail[j],
                            ask[q].target = ask[o].target
                     PROVE  ~GivesRole(q)
          BY <2>3
        <5> QED BY <1>1, <1>2, <3>2
      <4>3. member[ask[o].target].role = ask[o].role
        BY <1>3, <4>1, <4>2 DEF TrailTellsRole
      <4> QED BY <1>0, <1>7, <3>2, <4>1, <4>3
    <3>3. CASE o # a /\ ask[o].target = p
      <4>1. i # i0
        BY <2>2, <3>3
      <4>2. i0 \notin i + 1..Len(trail)
        BY <1>2, <1>9, <2>2, <3>3
      <4>3. i \in i0 + 1..Len(trail)
        BY <2>3, <4>1, <4>2
      <4>4. ~GivesRole(o)
        BY <1>3, <2>1, <2>2, <3>3, <4>3 DEF EventsInv
      <4> QED BY <1>1, <3>3, <4>4
    <3> QED BY <3>1, <3>2, <3>3
  <2>6. ChangeInv(a)'
    <3>1. ask[a].kind = "set_role" => member'[p].status # "none"
      BY <1>0 DEF RoleInv, ChangeInv
    <3> QED BY <1>0, <1>1, <1>2, <2>1, <3>1 DEF ChangeInv
  <2>7. \A o \in Asks \ {a} : ChangeInv(o)'
    BY <1>0, <1>2, <1>3, <1>4, OthersKeep
  <2> QED BY <1>5, <2>4, <2>5, <2>6, <2>7 DEF RoleInv
<1> QED BY <1>8, <1>9

LEMMA RefusalKeeps ==
  ASSUME KeysTyped, KeyAsksApart, RoleInv, NEW a \in Asks, ask[a].pc = "new",
         NEW place \in {"conflict", "forbidden", "not_found", "failed"}, Refuse(a, place)
  PROVE  RoleInv'
<1>1. ask' = [ask EXCEPT ![a].pc = place] /\ UNCHANGED <<member, holder, trail>>
  BY DEF Refuse
<1>2. ComesTo(a, place) /\ Keeps(a) /\ ask'[a].kind = ask[a].kind
  BY <1>1, MovesOn DEF AskPlaces
<1>3. /\ ask'[a].kind \in AskKinds => ask'[a].seen \in MemberRow
      /\ ask'[a].kind \in KeyKinds => ask'[a].seen \in KeyRow
  BY <1>2 DEF RoleInv, MembersShape, Keeps, AskKinds, KeyKinds, Audited
<1> QED BY <1>1, <1>2, <1>3, QuietKeeps DEF AskPlaces, Keeps, RoleInv, MembersShape

LEMMA MemberReadKeeps ==
  ASSUME KeysTyped, KeyAsksApart, RoleInv, NEW a \in Asks, ask[a].pc = "new",
         NEW row \in MemberRow \cup KeyRow, Reads(a, row),
         \/ ask[a].kind \in AskKinds /\ row \in MemberRow
         \/ ask[a].kind \in KeyKinds /\ row \in KeyRow,
         ask[a].kind = "set_role" => member[ask[a].target].status # "none"
  PROVE  RoleInv'
<1>1. ComesTo(a, "read")
  BY ReadsComes
<1>2. /\ ask'[a].role = ask[a].role /\ ask'[a].seen = row /\ ask'[a].kind = ask[a].kind
      /\ UNCHANGED <<member, holder, trail>>
  BY DEF Reads, KeysTyped, AskRow
<1>3. /\ ask'[a].kind \in AskKinds => ask'[a].seen \in MemberRow
      /\ ask'[a].kind \in KeyKinds => ask'[a].seen \in KeyRow
  BY <1>2 DEF AskKinds, KeyKinds, Audited
<1>4. /\ "read" \in AskPlaces
      /\ holder' \in [People -> Asks \cup {"nobody"}]
      /\ \A p \in People : \A o \in Asks \ {a} : holder[p] = o => holder'[p] = o
  BY <1>2 DEF AskPlaces, RoleInv, MembersShape
<1>5. "read" \notin {"written", "audited"} /\ UNCHANGED <<member, trail>>
  BY <1>2
<1> QED BY <1>1, <1>2, <1>3, <1>4, <1>5, QuietKeeps

LEMMA RollBackKeeps ==
  ASSUME KeysTyped, KeyAsksApart, RoleInv, NEW a \in Asks, RollBack(a)
  PROVE  RoleInv'
<1>1. /\ ask' = [ask EXCEPT ![a].pc = "failed"] /\ UNCHANGED <<member, trail>>
      /\ ask[a].pc \in {"read", "written", "audited"} /\ holder' = Release(a)
  BY DEF RollBack
<1>2. ComesTo(a, "failed") /\ Keeps(a) /\ ask'[a].kind = ask[a].kind
  BY <1>1, MovesOn DEF AskPlaces
<1>3. /\ ask'[a].kind \in AskKinds => ask'[a].seen \in MemberRow
      /\ ask'[a].kind \in KeyKinds => ask'[a].seen \in KeyRow
  BY <1>2 DEF RoleInv, MembersShape, Keeps, AskKinds, KeyKinds, Audited
<1>4. /\ holder' \in [People -> Asks \cup {"nobody"}]
      /\ \A p \in People : \A o \in Asks \ {a} : holder[p] = o => holder'[p] = o
  BY <1>1 DEF RoleInv, MembersShape, Release
<1> QED BY <1>1, <1>2, <1>3, <1>4, QuietKeeps DEF AskPlaces, Keeps

LEMMA KeyUseKeeps ==
  ASSUME KeysTyped, KeyAsksApart, RoleInv, NEW a \in Asks, Authenticate(a) \/ RevokeApiKey(a)
  PROVE  RoleInv'
<1>1. /\ ask' = [ask EXCEPT ![a].pc = "committed"] /\ UNCHANGED <<member, holder, trail>>
      /\ ask[a].pc = "read" /\ ask[a].kind \in KeyKinds
  BY DEF Authenticate, RevokeApiKey, Wants, KeyKinds
<1>2. ComesTo(a, "committed") /\ Keeps(a) /\ ask'[a].kind = ask[a].kind
  BY <1>1, MovesOn DEF AskPlaces
<1>3. /\ ask'[a].kind \in AskKinds => ask'[a].seen \in MemberRow
      /\ ask'[a].kind \in KeyKinds => ask'[a].seen \in KeyRow
  BY <1>2 DEF RoleInv, MembersShape, Keeps, AskKinds, KeyKinds, Audited
<1>4. /\ holder' \in [People -> Asks \cup {"nobody"}]
      /\ \A p \in People : \A o \in Asks \ {a} : holder[p] = o => holder'[p] = o
  BY <1>1 DEF RoleInv, MembersShape
<1> QED BY <1>1, <1>2, <1>3, <1>4, QuietKeeps DEF AskPlaces, Keeps

LEMMA RolesInvariant == MembersSpec => []RoleInv
<1>1. MembersInit(FirstRows, MemberAsks \cup KeyAsks) => RoleInv
  <2> SUFFICES ASSUME MembersInit(FirstRows, MemberAsks \cup KeyAsks) PROVE RoleInv
    OBVIOUS
  <2>1. NewKey \in KeyRow /\ NoMember \in MemberRow
    BY MembersAssumption DEF NoMember, MemberRow, MemberStatus, NewKey, KeyRow
  <2>2. \A a \in Asks : /\ ask[a].pc = "new"
                        /\ \/ ask[a].kind \in AskKinds /\ ask[a].seen = NoMember
                           \/ ask[a].kind \in KeyKinds /\ ask[a].seen = NewKey
    <3>1. \A a \in Asks : ask[a] \in MemberAsks \cup KeyAsks
      BY DEF MembersInit
    <3> QED BY <3>1 DEF MemberAsks, KeyAsks
  <2>3. MembersShape
    BY <2>1, <2>2 DEF MembersInit, MembersShape
  <2>4. \A a \in Asks : ChangeInv(a)
    BY <2>2 DEF ChangeInv, GivesRole
  <2>5. EventsInv /\ TrailTellsRole
    BY DEF MembersInit, EventsInv, TrailTellsRole
  <2> QED BY <2>3, <2>4, <2>5 DEF RoleInv
<1>2. KeysIInv /\ RoleInv /\ [MembersNext]_memberVars => RoleInv'
  <2> SUFFICES ASSUME KeysIInv, RoleInv, [MembersNext]_memberVars PROVE RoleInv'
    OBVIOUS
  <2>0. KeysTyped /\ KeyAsksApart
    BY DEF KeysIInv
  <2>1. ASSUME NEW a \in Asks, InviteMember(a) \/ UpdateMemberRole(a) \/ RevokeMember(a)
                              \/ ResolveSessionAccess(a)
        PROVE  RoleInv'
    <3>1. ask[a].kind \in AskKinds /\ ask[a].pc = "new"
      BY <2>1 DEF InviteMember, UpdateMemberRole, RevokeMember, ResolveSessionAccess, Wants, AskKinds, Audited
    <3>2. member[ask[a].target] \in MemberRow
      BY <2>0, <3>1 DEF KeyAsksApart, KeysTyped, AskKinds, KeyKinds, Audited
    <3>3. \/ /\ Reads(a, member[ask[a].target])
             /\ ask[a].kind = "set_role" => member[ask[a].target].status # "none"
          \/ \E place \in {"conflict", "forbidden", "not_found", "failed"} : Refuse(a, place)
      BY <2>1 DEF InviteMember, UpdateMemberRole, RevokeMember, ResolveSessionAccess, Wants
    <3>4. Reads(a, member[ask[a].target]) /\ (ask[a].kind = "set_role" => member[ask[a].target].status # "none")
          => RoleInv'
      BY <2>0, <3>1, <3>2, MemberReadKeeps
    <3>5. ASSUME NEW place \in {"conflict", "forbidden", "not_found", "failed"}, Refuse(a, place)
          PROVE  RoleInv'
      BY <2>0, <3>1, <3>5, RefusalKeeps
    <3> QED BY <3>3, <3>4, <3>5
  <2>2. ASSUME NEW a \in Asks, LookUpKey(a) \/ FindKey(a) PROVE RoleInv'
    <3>1. key[ask[a].target] \in KeyRow /\ ask[a].kind \in KeyKinds /\ ask[a].pc = "new"
      BY <2>0, <2>2 DEF LookUpKey, FindKey, Wants, KeyAsksApart, KeysTyped, AskKinds, KeyKinds, Audited
    <3>2. Reads(a, key[ask[a].target]) \/ Refuse(a, "forbidden")
      BY <2>2 DEF LookUpKey, FindKey
    <3>3. ask[a].kind # "set_role"
      BY <3>1 DEF KeyKinds
    <3>4. Reads(a, key[ask[a].target]) => RoleInv'
      BY <2>0, <3>1, <3>3, MemberReadKeeps
    <3>5. Refuse(a, "forbidden") => RoleInv'
      BY <2>0, <3>1, RefusalKeeps
    <3> QED BY <3>2, <3>4, <3>5
  <2>3. CASE UNCHANGED memberVars
    <3>1. UNCHANGED <<member, holder, ask, trail>>
      BY <2>3 DEF memberVars
    <3>2. \A o \in Asks : /\ (GivesRole(o)' <=> GivesRole(o))
                          /\ (ChangesNothing(o)' <=> ChangesNothing(o))
                          /\ (Inserts(o)' <=> Inserts(o))
      BY <3>1 DEF GivesRole, ChangesNothing, Inserts
    <3>3. EventsInv' /\ TrailTellsRole'
      BY <2>0, <3>1, <3>2, SameEvents
    <3>4. \A o \in Asks : ChangeInv(o)'
      BY <3>1, <3>2 DEF RoleInv, ChangeInv
    <3> QED BY <3>1, <3>3, <3>4 DEF RoleInv, MembersShape
  <2> QED BY <2>0, <2>1, <2>2, <2>3, FlushKeeps, AuditKeeps, CommitKeeps, RollBackKeeps, KeyUseKeeps
      DEF MembersNext
<1> QED BY <1>1, <1>2, KeysInvariant, PTL DEF MembersSpec

(* Whatever other requests write at once to the row of a member, of a key or *)
(* of an agent, each keeps what the last that gave it a role, a revocation   *)
(* or a profile wrote; for any requests, people, keys and edits.             *)
THEOREM RowsAreKept == MembersSpec /\ RegistrySpec => []RowsStick
<1>1. KeysIInv /\ RoleInv /\ RegistryInv => RowsStick
  BY DEF KeysIInv, RoleInv, RegistryInv, RowsStick, ChangesStick
<1> QED BY <1>1, KeysInvariant, RolesInvariant, RegistryInvariant, PTL

-------------------------------------------------------------------------------
(* The assistant *)

ReplyRow == [outcome : Outcomes, kind : Kinds \cup {"none"}, valid : BOOLEAN, told : SUBSET Chats]

ChatRow == [wish : Wishes, pc : ChatPlaces, into : Conversations, seen : Nat, result : ReplyRow,
            read : {Missing} \cup Seq(Chats)]

CopilotShape == CopilotTypeOK /\ chat \in [Chats -> ChatRow]

(* A chat under way has read a counter that the conversation's exchanges    *)
(* still bear out, and holds the conversation from its save to its commit.  *)
ChatInv(c) ==
  /\ chat[c].into \in {c, Existing}
  /\ chat[c].pc = "new" => chat[c].seen = 0 /\ chat[c].into = Existing
  /\ chat[c].result.outcome = "confirmed" =>
       chat[c].result.kind \in Kinds /\ (chat[c].result.kind = "policy" => chat[c].result.valid)
  /\ chat[c].pc \notin {"answered", "failed"} /\ (chat[c].into = c \/ talk[chat[c].into].there) =>
       chat[c].seen <= 2 * Cardinality(talk[chat[c].into].exchanges)
  /\ chat[c].pc \in {"saved", "cached"} =>
       typing[chat[c].into] = c /\ (chat[c].into = c \/ talk[chat[c].into].there)
  /\ chat[c].pc = "cached" => chat[c].read \in Seq(Chats)

CopilotInv ==
  /\ CopilotShape /\ SaysWhatIs
  /\ \A c \in Chats : ChatInv(c)
  /\ \A k \in Conversations : talk[k].exchanges \subseteq Answered
  /\ \A c \in Chats : typing[c] \in {c, Missing}

(* The places of a sequence that are chosen have a first, a second, ...      *)
LEMMA NthIsThere ==
  ASSUME NEW n \in Nat, NEW S \in SUBSET (1..n), NEW r \in 1..Cardinality(S)
  PROVE  Nth(S, r) \in S
<1> DEFINE Upto(m) == {j \in S : j <= m}
           Enough == {m \in Nat : r <= Cardinality(Upto(m))}
<1>1. \A j \in S : j \in Nat /\ 1 <= j /\ j <= n
  OBVIOUS
<1>2. /\ Upto(n) = S /\ Upto(0) = {} /\ \A m \in Nat : Upto(m) \subseteq S
      /\ \A m \in Nat : m # 0 /\ m \notin S => Upto(m) = Upto(m - 1)
      /\ \A m \in S : Upto(m) = Upto(m - 1) \cup {m} /\ m \notin Upto(m - 1)
  <2>1. Upto(n) = S
    BY <1>1
  <2>2. Upto(0) = {}
    <3>1. \A j \in S : ~(j <= 0)
      BY <1>1
    <3> QED BY <3>1
  <2>3. ASSUME NEW m \in Nat, m # 0, m \notin S PROVE Upto(m) = Upto(m - 1)
    <3>1. \A j \in S : j <= m <=> j <= m - 1
      BY <1>1, <2>3
    <3> QED BY <3>1
  <2>4. ASSUME NEW m \in S PROVE Upto(m) = Upto(m - 1) \cup {m} /\ m \notin Upto(m - 1)
    <3>1. \A j \in S : j <= m <=> (j <= m - 1 \/ j = m)
      BY <1>1, <2>4
    <3>2. m <= m /\ ~(m <= m - 1)
      BY <1>1, <2>4
    <3> QED BY <2>4, <3>1, <3>2
  <2> QED BY <2>1, <2>2, <2>3, <2>4
<1>3. IsFiniteSet(S)
  <2>1. IsFiniteSet(1..n)
    BY FS_Interval
  <2> QED BY <2>1, FS_Subset
<1>4. \A m \in Nat : IsFiniteSet(Upto(m)) /\ Cardinality(Upto(m)) \in Nat
  <2> HIDE DEF Upto
  <2> QED BY <1>2, <1>3, FS_Subset, FS_CardinalityType
<1>5. r \in Nat /\ 1 <= r /\ r <= Cardinality(S)
  BY <1>3, FS_CardinalityType
<1>6. /\ Enough \in SUBSET Nat /\ n \in Enough /\ 0 \notin Enough
      /\ \A m \in Nat : m \notin Enough => Cardinality(Upto(m)) < r
  <2>1. Cardinality(Upto(0)) = 0
    BY <1>2, FS_EmptySet
  <2>2. Cardinality(Upto(n)) = Cardinality(S)
    BY <1>2
  <2> HIDE DEF Upto
  <2> QED BY <1>4, <1>5, <2>1, <2>2
<1>7. PICK m \in Enough : \A k \in Enough : m <= k
  <2> HIDE DEF Enough
  <2> QED BY <1>6, LeastIndex
<1>8. m \in Nat /\ m # 0 /\ m - 1 \in Nat /\ m - 1 \notin Enough /\ r <= Cardinality(Upto(m))
  <2>1. m \in Nat /\ m # 0 /\ r <= Cardinality(Upto(m))
    BY <1>6
  <2>2. m - 1 \in Nat /\ ~(m <= m - 1)
    BY <2>1
  <2>3. m - 1 \notin Enough
    BY <1>7, <2>2
  <2> QED BY <2>1, <2>2, <2>3
<1>9. Cardinality(Upto(m - 1)) < r
  <2> HIDE DEF Enough, Upto
  <2> QED BY <1>6, <1>8
<1> HIDE DEF Upto, Enough
<1>10. m \in S
  <2>1. Cardinality(Upto(m)) # Cardinality(Upto(m - 1))
    BY <1>4, <1>5, <1>8, <1>9
  <2> QED BY <1>2, <1>8, <2>1
<1>11. Cardinality(Upto(m)) = Cardinality(Upto(m - 1)) + 1
  BY <1>2, <1>4, <1>8, <1>10, FS_AddElement
<1>12. Cardinality(Upto(m)) = r
  BY <1>4, <1>5, <1>8, <1>9, <1>11
<1> QED BY <1>10, <1>12 DEF Nth, Upto

LEMMA StoredTyped ==
  ASSUME CopilotShape, NEW k \in Conversations
  PROVE  Stored(k) \in Seq(Chats)
<1> DEFINE rows == {i \in DOMAIN started : started[i] \in talk[k].exchanges}
           kept == IF Cardinality(rows) > HistoryLimit THEN HistoryLimit ELSE Cardinality(rows)
<1>1. started \in Seq(Chats) /\ Len(started) \in Nat /\ rows \in SUBSET (1..Len(started))
  BY DEF CopilotShape, CopilotTypeOK
<1>2. IsFiniteSet(rows) /\ Cardinality(rows) \in Nat
  <2>1. IsFiniteSet(1..Len(started))
    BY <1>1, FS_Interval
  <2> HIDE DEF rows
  <2> QED BY <1>1, <2>1, FS_Subset, FS_CardinalityType
<1>3. kept \in Nat /\ 1..kept \subseteq 1..Cardinality(rows)
  BY <1>2, CopilotAssumption
<1>4. \A n \in 1..kept : Nth(rows, n) \in rows
  <2> HIDE DEF rows
  <2> QED BY <1>1, <1>3, NthIsThere
<1>5. \A n \in 1..kept : started[Nth(rows, n)] \in Chats
  BY <1>1, <1>4
<1>6. Stored(k) = [n \in 1..kept |-> started[Nth(rows, n)]]
  BY DEF Stored
<1> HIDE DEF kept, rows
<1>7. [n \in 1..kept |-> started[Nth(rows, n)]] \in [1..kept -> Chats]
  BY <1>5
<1> QED BY <1>3, <1>6, <1>7

LEMMA RepliesTyped ==
  ASSUME CopilotShape, \A r \in made : r.chat \in Chats,
         NEW c \in Chats, NEW writing, NEW r \in Replies(c, writing)
  PROVE  /\ r \in ReplyRow
         /\ r.told \subseteq {q.chat : q \in made}
         /\ r.outcome = "confirmed" => r.kind \in Kinds /\ (r.kind = "policy" => r.valid)
<1> DEFINE Right(x) == /\ x \in ReplyRow /\ x.told \subseteq {q.chat : q \in made}
                       /\ x.outcome = "confirmed" =>
                            x.kind \in Kinds /\ (x.kind = "policy" => x.valid)
<1>1. ASSUME NEW o \in Outcomes, NEW k \in Kinds \cup {"none"}, NEW v \in BOOLEAN,
             o = "confirmed" => k \in Kinds /\ (k = "policy" => v)
      PROVE  Right(Comes(o, k, v))
  BY <1>1 DEF Comes, ReplyRow
<1>2. \A k \in Kinds \cup {"none"} : Right(Refuses(k))
  BY <1>1 DEF Refuses, Outcomes
<1>3. \A k, v : v \in BOOLEAN => Right(Confirmed(k, v))
  <2> SUFFICES ASSUME NEW k, NEW v \in BOOLEAN PROVE Right(Confirmed(k, v))
    OBVIOUS
  <2>1. Right(CreatePolicyConfirmed(v)) /\ Right(RegisterAgentConfirmed) /\ Right(CreateWebhookConfirmed)
    BY <1>1, <1>2 DEF CreatePolicyConfirmed, RegisterAgentConfirmed, CreateWebhookConfirmed, Outcomes, Kinds
  <2>2. Right(Refuses("none"))
    BY <1>2
  <2> HIDE DEF Right
  <2> QED BY <2>1, <2>2 DEF Confirmed
<1>4. \A t \in SUBSET {q.chat : q \in made} : Right(Says(t))
  BY DEF Says, ReplyRow, Outcomes
<1>5. \A k : OfKind(k) \subseteq {q.chat : q \in made}
  BY DEF OfKind
<1>6. \A auto, x : Right(ProposePolicy(auto, x)) /\ Right(ProposeAgent(auto, x)) /\ Right(ProposeWebhook(auto, x))
  <2>1. Right(Comes("preview", "policy", TRUE)) /\ Right(Comes("preview", "agent", FALSE))
        /\ Right(Comes("preview", "webhook", FALSE))
    BY <1>1 DEF Outcomes, Kinds
  <2>2. Right(Refuses("policy")) /\ Right(Refuses("agent")) /\ Right(Refuses("webhook"))
    BY <1>2 DEF Kinds
  <2> HIDE DEF Right
  <2> QED BY <1>3, <2>1, <2>2 DEF ProposePolicy, ProposeAgent, ProposeWebhook
<1>7. /\ Right(ListPolicies) /\ Right(ListAgents) /\ Right(ListWebhooks)
      /\ Right(SampleText) /\ Right(ExplainText) /\ Right(GeneralText)
      /\ Right(Refuses("webhook"))
  <2> HIDE DEF Right
  <2> QED BY <1>2, <1>4, <1>5
      DEF ListPolicies, ListAgents, ListWebhooks, SampleText, ExplainText, GeneralText, Kinds
<1>8. \A x \in ExplainPolicy : Right(x)
  <2> SUFFICES ASSUME NEW t \in {OfKind("policy")} \cup {{p} : p \in OfKind("policy")} PROVE Right(Says(t))
    BY DEF ExplainPolicy
  <2>1. t \in SUBSET {q.chat : q \in made}
    BY <1>5
  <2> HIDE DEF Right
  <2> QED BY <1>4, <2>1
<1>9. CASE chat[c].wish.kind = "confirm"
  <2>1. PICK k : r = Confirmed(k, writing = "good")
    BY <1>9 DEF Replies
  <2> HIDE DEF Right
  <2>2. Right(r)
    BY <1>3, <2>1
  <2> QED BY <2>2 DEF Right
<1>10. CASE chat[c].wish.kind # "confirm"
  <2>1. \/ r \in {ListPolicies, ListAgents, ListWebhooks, SampleText, ExplainText, GeneralText,
                  Refuses("webhook")}
        \/ r \in ExplainPolicy
        \/ \E auto, x : r \in {ProposePolicy(auto, x), ProposeAgent(auto, x), ProposeWebhook(auto, x)}
    BY <1>10 DEF Replies
  <2> HIDE DEF Right
  <2>2. Right(r)
    BY <1>6, <1>7, <1>8, <2>1
  <2> QED BY <2>2 DEF Right
<1> QED BY <1>9, <1>10

(* A step of one chat that commits nothing. *)
LEMMA ChatSteps ==
  ASSUME CopilotInv, NEW c \in Chats,
         chat' \in [Chats -> ChatRow], \A o \in Chats \ {c} : chat'[o] = chat[o],
         UNCHANGED <<talk, made>>,
         typing' \in [Conversations -> Chats \cup {Missing}],
         cache' \in [Conversations -> {Missing} \cup Seq(Chats)], started' \in Seq(Chats),
         \A k \in Conversations : \A o \in Chats \ {c} : typing[k] = o => typing'[k] = o,
         \A k \in Chats : typing'[k] \in {k, Missing},
         chat[c].pc # "answered", chat'[c].pc # "answered",
         chat'[c].result.told \subseteq {r.chat : r \in made},
         ChatInv(c)'
  PROVE  CopilotInv'
<1>1. CopilotShape' /\ Answered' = Answered
  <2>1. \A o \in Chats : /\ chat'[o].wish \in Wishes /\ chat'[o].pc \in ChatPlaces
                         /\ chat'[o].into \in Conversations /\ chat'[o].seen \in Nat
                         /\ chat'[o].result \in ReplyRow
                         /\ chat'[o].read \in {Missing} \cup Seq(Chats)
    BY DEF ChatRow
  <2>2. CopilotTypeOK'
    BY <2>1 DEF CopilotInv, CopilotShape, CopilotTypeOK, ReplyRow
  <2> QED BY <2>2 DEF CopilotShape, Answered
<1>2. SaysWhatIs'
  <2>1. \A o \in Answered : chat'[o] = chat[o]
    BY DEF Answered
  <2>2. \A o \in Chats : chat'[o].result.told \subseteq {r.chat : r \in made}
    BY DEF CopilotInv, SaysWhatIs
  <2>3. SaysWhatIs /\ made' = made /\ talk' = talk
    BY DEF CopilotInv
  <2>4. \A o \in Answered' : o \in Answered /\ chat'[o] = chat[o]
    BY <1>1, <2>1
  <2>5. /\ \A o \in Answered' : chat'[o].result.outcome = "confirmed" =>
             \E r \in made' : r.chat = o /\ r.kind = chat'[o].result.kind
        /\ \A o \in Answered' : talk'[chat'[o].into].there => o \in talk'[chat'[o].into].exchanges
    BY <2>3, <2>4 DEF SaysWhatIs
  <2>6. /\ \A r \in made' : r.chat \in Answered' /\ (r.kind = "policy" => r.valid)
        /\ \A k \in Conversations : talk'[k].count <= 2 * Cardinality(talk'[k].exchanges)
    BY <1>1, <2>3 DEF SaysWhatIs
  <2> QED BY <2>2, <2>3, <2>5, <2>6 DEF SaysWhatIs
<1>3. \A o \in Chats : ChatInv(o)'
  <2> SUFFICES ASSUME NEW o \in Chats, o # c PROVE ChatInv(o)'
    OBVIOUS
  <2>1. chat'[o] = chat[o] /\ chat[o].into \in Conversations
    BY DEF CopilotInv, CopilotShape, CopilotTypeOK
  <2>2. ChatInv(o)
    BY DEF CopilotInv
  <2> QED BY <2>1, <2>2 DEF ChatInv
<1>4. \A k \in Conversations : talk'[k].exchanges \subseteq Answered'
  BY <1>1 DEF CopilotInv
<1>5. \A k \in Chats : typing'[k] \in {k, Missing}
  OBVIOUS
<1> QED BY <1>1, <1>2, <1>3, <1>4, <1>5 DEF CopilotInv

(* What Continues does. *)
LEMMA ContinuesTo ==
  ASSUME CopilotInv, NEW c \in Chats, NEW pc \in ChatPlaces, Continues(c, pc)
  PROVE  /\ chat' \in [Chats -> ChatRow] /\ \A o \in Chats \ {c} : chat'[o] = chat[o]
         /\ chat'[c].pc = pc /\ chat'[c].into = chat[c].into /\ chat'[c].seen = chat[c].seen
         /\ chat'[c].result = chat[c].result /\ chat'[c].read = chat[c].read
         /\ chat'[c].result.told \subseteq {r.chat : r \in made}
<1>1. chat \in [Chats -> ChatRow] /\ chat' = [chat EXCEPT ![c].pc = pc] /\ chat[c] \in ChatRow
  BY DEF CopilotInv, CopilotShape, Continues
<1>2. /\ chat'[c].pc = pc /\ chat'[c].into = chat[c].into /\ chat'[c].seen = chat[c].seen
      /\ chat'[c].result = chat[c].result /\ chat'[c].read = chat[c].read
      /\ chat' \in [Chats -> ChatRow] /\ \A o \in Chats \ {c} : chat'[o] = chat[o]
  BY <1>1 DEF ChatRow
<1> QED BY <1>2 DEF CopilotInv, SaysWhatIs

(* The types of the variables, and what a chat holds, for the steps below.  *)
LEMMA CopilotFields ==
  ASSUME CopilotInv
  PROVE  /\ talk \in [Conversations -> [there : BOOLEAN, count : Nat, exchanges : SUBSET Chats]]
         /\ typing \in [Conversations -> Chats \cup {Missing}]
         /\ cache \in [Conversations -> {Missing} \cup Seq(Chats)]
         /\ started \in Seq(Chats) /\ Missing \notin Chats /\ Existing \notin Chats
         /\ Existing \in Conversations /\ Chats \subseteq Conversations
         /\ \A c \in Chats : chat[c].into \in Conversations /\ chat[c].seen \in Nat
         /\ \A k \in Conversations : IsFiniteSet(talk[k].exchanges)
                                    /\ Cardinality(talk[k].exchanges) \in Nat
<1>1. \A k \in Conversations : talk[k].exchanges \in SUBSET Chats
  BY DEF CopilotInv, CopilotShape, CopilotTypeOK
<1>2. \A k \in Conversations : IsFiniteSet(talk[k].exchanges)
                              /\ Cardinality(talk[k].exchanges) \in Nat
  BY <1>1, CopilotAssumption, FS_Subset, FS_CardinalityType
<1> QED BY <1>2, CopilotAssumption DEF CopilotInv, CopilotShape, CopilotTypeOK, Conversations

LEMMA OpenKeeps ==
  ASSUME CopilotInv, NEW c \in Chats, OpenChat(c)
  PROVE  CopilotInv'
<1> DEFINE pc == IF chat[c].wish.kind = "confirm" THEN "recalled" ELSE "opened"
<1>0. /\ chat[c].pc = "new" /\ UNCHANGED <<talk, cache, made>> /\ started' = Append(started, c)
      /\ chat \in [Chats -> ChatRow] /\ chat[c] \in ChatRow /\ pc \in {"recalled", "opened"}
      /\ chat[c].seen = 0 /\ chat[c].into = Existing /\ ChatInv(c)
      /\ \A k \in Chats : typing[k] \in {k, Missing}
      /\ chat[c].result.told \subseteq {r.chat : r \in made}
  BY DEF OpenChat, CopilotInv, CopilotShape, ChatInv, SaysWhatIs
<1>1. started' \in Seq(Chats)
  BY <1>0, CopilotFields
<1>2. CASE /\ talk[Existing].there /\ UNCHANGED typing
           /\ chat' = [chat EXCEPT ![c].pc = pc, ![c].seen = talk[Existing].count]
  <2>1. talk[Existing].count \in Nat /\ talk[Existing].count <= 2 * Cardinality(talk[Existing].exchanges)
    BY CopilotFields DEF CopilotInv, SaysWhatIs
  <2>2. /\ chat' \in [Chats -> ChatRow] /\ \A o \in Chats \ {c} : chat'[o] = chat[o]
        /\ chat'[c].pc = pc /\ chat'[c].seen = talk[Existing].count
        /\ chat'[c].into = chat[c].into /\ chat'[c].result = chat[c].result
    <3> HIDE DEF pc
    <3>1. chat' = [chat EXCEPT ![c] = [chat[c] EXCEPT !.pc = pc, !.seen = talk[Existing].count]]
      BY <1>2
    <3>2. [chat[c] EXCEPT !.pc = pc, !.seen = talk[Existing].count] \in ChatRow
      BY <1>0, <2>1 DEF ChatRow, ChatPlaces
    <3>3. /\ [chat[c] EXCEPT !.pc = pc, !.seen = talk[Existing].count].pc = pc
          /\ [chat[c] EXCEPT !.pc = pc, !.seen = talk[Existing].count].seen = talk[Existing].count
          /\ [chat[c] EXCEPT !.pc = pc, !.seen = talk[Existing].count].into = chat[c].into
          /\ [chat[c] EXCEPT !.pc = pc, !.seen = talk[Existing].count].result = chat[c].result
      BY <1>0 DEF ChatRow
    <3> QED BY <1>0, <3>1, <3>2, <3>3
  <2>3. ChatInv(c)'
    <3>1. chat'[c].into = Existing /\ talk' = talk /\ typing' = typing /\ pc \notin {"new", "saved", "cached"}
      BY <1>0, <1>2, <2>2
    <3> QED BY <1>0, <2>1, <2>2, <3>1 DEF ChatInv
  <2> QED BY <1>0, <1>1, <1>2, <2>2, <2>3, ChatSteps, CopilotFields
<1>3. CASE /\ chat' = [chat EXCEPT ![c].pc = pc, ![c].into = c]
           /\ typing' = [typing EXCEPT ![c] = c]
  <2>1. /\ chat' \in [Chats -> ChatRow] /\ \A o \in Chats \ {c} : chat'[o] = chat[o]
        /\ chat'[c].pc = pc /\ chat'[c].seen = 0
        /\ chat'[c].into = c /\ chat'[c].result = chat[c].result
    <3> HIDE DEF pc
    <3>1. chat' = [chat EXCEPT ![c] = [chat[c] EXCEPT !.pc = pc, !.into = c]]
      BY <1>3
    <3>2. [chat[c] EXCEPT !.pc = pc, !.into = c] \in ChatRow
      BY <1>0, CopilotFields DEF ChatRow, ChatPlaces
    <3>3. /\ [chat[c] EXCEPT !.pc = pc, !.into = c].pc = pc
          /\ [chat[c] EXCEPT !.pc = pc, !.into = c].seen = 0
          /\ [chat[c] EXCEPT !.pc = pc, !.into = c].into = c
          /\ [chat[c] EXCEPT !.pc = pc, !.into = c].result = chat[c].result
      BY <1>0 DEF ChatRow
    <3> QED BY <1>0, <3>1, <3>2, <3>3
  <2>2. ChatInv(c)'
    BY <1>0, <2>1, CopilotFields DEF ChatInv
  <2>3. /\ typing' \in [Conversations -> Chats \cup {Missing}]
        /\ \A k \in Conversations : \A o \in Chats \ {c} : typing[k] = o => typing'[k] = o
        /\ \A k \in Chats : typing'[k] \in {k, Missing}
    BY <1>0, <1>3, CopilotFields
  <2> QED BY <1>0, <1>1, <2>1, <2>2, <2>3, ChatSteps, CopilotFields
<1> QED BY <1>2, <1>3 DEF OpenChat

LEMMA RecallKeeps ==
  ASSUME CopilotInv, NEW c \in Chats, LoadHistory(c)
  PROVE  CopilotInv'
<1>1. /\ chat[c].pc = "opened" /\ ChatInv(c) /\ UNCHANGED <<talk, typing, made, started>>
      /\ Continues(c, "recalled") /\ "recalled" \in ChatPlaces
      /\ \A k \in Chats : typing[k] \in {k, Missing}
  BY DEF LoadHistory, CopilotInv, ChatPlaces
<1>2. /\ chat' \in [Chats -> ChatRow] /\ \A o \in Chats \ {c} : chat'[o] = chat[o]
      /\ chat'[c].pc = "recalled" /\ chat'[c].into = chat[c].into /\ chat'[c].seen = chat[c].seen
      /\ chat'[c].result = chat[c].result
      /\ chat'[c].result.told \subseteq {r.chat : r \in made}
  BY <1>1, ContinuesTo
<1>3. chat[c].into \in Conversations
  BY CopilotFields
<1>4. Stored(chat[c].into) \in Seq(Chats)
  BY <1>3, StoredTyped DEF CopilotInv
<1>5. cache' \in [Conversations -> {Missing} \cup Seq(Chats)]
  BY <1>3, <1>4, CopilotFields DEF LoadHistory
<1>6. ChatInv(c)'
  BY <1>1, <1>2 DEF ChatInv
<1> QED BY <1>1, <1>2, <1>5, <1>6, ChatSteps, CopilotFields

LEMMA HandleKeeps ==
  ASSUME CopilotInv, NEW c \in Chats, Handle(c)
  PROVE  CopilotInv'
<1>1. PICK writing \in Writings : \E r \in Replies(c, writing) :
        chat' = [chat EXCEPT ![c].pc = "handled", ![c].result = r]
  BY DEF Handle
<1>2. PICK r \in Replies(c, writing) : chat' = [chat EXCEPT ![c].pc = "handled", ![c].result = r]
  BY <1>1
<1>3. /\ chat[c].pc = "recalled" /\ ChatInv(c) /\ UNCHANGED <<talk, typing, cache, made, started>>
      /\ chat \in [Chats -> ChatRow] /\ chat[c] \in ChatRow /\ "handled" \in ChatPlaces
      /\ \A k \in Chats : typing[k] \in {k, Missing}
      /\ CopilotShape /\ \A q \in made : q.chat \in Chats
  BY DEF Handle, CopilotInv, CopilotShape, CopilotTypeOK, ChatPlaces
<1>4. /\ r \in ReplyRow /\ r.told \subseteq {q.chat : q \in made}
      /\ r.outcome = "confirmed" => r.kind \in Kinds /\ (r.kind = "policy" => r.valid)
  BY <1>3, RepliesTyped
<1>5. /\ chat' \in [Chats -> ChatRow] /\ \A o \in Chats \ {c} : chat'[o] = chat[o]
      /\ chat'[c].pc = "handled" /\ chat'[c].into = chat[c].into /\ chat'[c].seen = chat[c].seen
      /\ chat'[c].result = r
  <2>1. chat' = [chat EXCEPT ![c] = [chat[c] EXCEPT !.pc = "handled", !.result = r]]
    BY <1>2
  <2>2. [chat[c] EXCEPT !.pc = "handled", !.result = r] \in ChatRow
    BY <1>3, <1>4 DEF ChatRow
  <2>3. /\ [chat[c] EXCEPT !.pc = "handled", !.result = r].pc = "handled"
        /\ [chat[c] EXCEPT !.pc = "handled", !.result = r].into = chat[c].into
        /\ [chat[c] EXCEPT !.pc = "handled", !.result = r].seen = chat[c].seen
        /\ [chat[c] EXCEPT !.pc = "handled", !.result = r].result = r
    BY <1>3 DEF ChatRow
  <2> QED BY <1>3, <2>1, <2>2, <2>3
<1>6. ChatInv(c)'
  BY <1>3, <1>4, <1>5 DEF ChatInv
<1> QED BY <1>3, <1>4, <1>5, <1>6, ChatSteps, CopilotFields

LEMMA SaveKeeps ==
  ASSUME CopilotInv, NEW c \in Chats, SaveMessages(c)
  PROVE  CopilotInv'
<1> DEFINE k == chat[c].into
<1>1. /\ chat[c].pc = "handled" /\ ChatInv(c) /\ UNCHANGED <<talk, cache, made, started>>
      /\ typing[k] \in {c, Missing} /\ k \in {c, Existing} /\ k \in Conversations
      /\ \A j \in Chats : typing[j] \in {j, Missing}
  BY CopilotFields DEF SaveMessages, CopilotInv, ChatInv
<1>2. \A pc \in {"saved", "failed"} : Continues(c, pc) =>
        /\ chat' \in [Chats -> ChatRow] /\ \A o \in Chats \ {c} : chat'[o] = chat[o]
        /\ chat'[c].pc = pc /\ chat'[c].into = chat[c].into /\ chat'[c].seen = chat[c].seen
        /\ chat'[c].result = chat[c].result
        /\ chat'[c].result.told \subseteq {r.chat : r \in made}
  BY ContinuesTo DEF ChatPlaces
<1>3. CASE k = c \/ talk[k].there
  <2>1. typing' = [typing EXCEPT ![k] = c] /\ Continues(c, "saved")
    BY <1>3 DEF SaveMessages
  <2>2. /\ typing' \in [Conversations -> Chats \cup {Missing}] /\ typing'[k] = c
        /\ \A j \in Conversations : \A o \in Chats \ {c} : typing[j] = o => typing'[j] = o
        /\ \A j \in Chats : typing'[j] \in {j, Missing}
    BY <1>1, <2>1, CopilotFields
  <2>3. ChatInv(c)'
    BY <1>1, <1>2, <1>3, <2>1, <2>2 DEF ChatInv
  <2> QED BY <1>1, <1>2, <2>1, <2>2, <2>3, ChatSteps, CopilotFields
<1>4. CASE ~(k = c \/ talk[k].there)
  <2>1. UNCHANGED typing /\ Continues(c, "failed")
    BY <1>4 DEF SaveMessages
  <2>2. ChatInv(c)'
    BY <1>1, <1>2, <2>1 DEF ChatInv
  <2> QED BY <1>1, <1>2, <2>1, <2>2, ChatSteps, CopilotFields
<1> QED BY <1>3, <1>4

LEMMA ReadCacheKeeps ==
  ASSUME CopilotInv, NEW c \in Chats, ReadCache(c)
  PROVE  CopilotInv'
<1>1. PICK old \in {cache[chat[c].into], Missing} :
        chat' = [chat EXCEPT ![c].pc = "cached",
                             ![c].read = Append(IF old = Missing THEN <<>> ELSE old, c)]
  BY DEF ReadCache
<1> DEFINE read == Append(IF old = Missing THEN <<>> ELSE old, c)
<1>2. /\ chat[c].pc = "saved" /\ ChatInv(c) /\ UNCHANGED <<talk, typing, cache, made, started>>
      /\ chat \in [Chats -> ChatRow] /\ chat[c] \in ChatRow /\ "cached" \in ChatPlaces
      /\ \A k \in Chats : typing[k] \in {k, Missing}
      /\ chat[c].result.told \subseteq {r.chat : r \in made}
  BY DEF ReadCache, CopilotInv, CopilotShape, ChatPlaces, SaysWhatIs
<1>3. read \in Seq(Chats)
  BY CopilotFields
<1>4. /\ chat' \in [Chats -> ChatRow] /\ \A o \in Chats \ {c} : chat'[o] = chat[o]
      /\ chat'[c].pc = "cached" /\ chat'[c].into = chat[c].into /\ chat'[c].seen = chat[c].seen
      /\ chat'[c].result = chat[c].result /\ chat'[c].read = read
  <2>1. chat' = [chat EXCEPT ![c] = [chat[c] EXCEPT !.pc = "cached", !.read = read]]
    BY <1>1
  <2> HIDE DEF read
  <2>2. [chat[c] EXCEPT !.pc = "cached", !.read = read] \in ChatRow
    BY <1>2, <1>3 DEF ChatRow
  <2>3. /\ [chat[c] EXCEPT !.pc = "cached", !.read = read].pc = "cached"
        /\ [chat[c] EXCEPT !.pc = "cached", !.read = read].into = chat[c].into
        /\ [chat[c] EXCEPT !.pc = "cached", !.read = read].seen = chat[c].seen
        /\ [chat[c] EXCEPT !.pc = "cached", !.read = read].result = chat[c].result
        /\ [chat[c] EXCEPT !.pc = "cached", !.read = read].read = read
    BY <1>2 DEF ChatRow
  <2> QED BY <1>2, <2>1, <2>2, <2>3
<1>5. ChatInv(c)'
  BY <1>2, <1>3, <1>4 DEF ChatInv
<1> QED BY <1>2, <1>4, <1>5, ChatSteps, CopilotFields

LEMMA LastTyped ==
  ASSUME NEW s \in Seq(Chats) PROVE LastOf(s) \in Seq(Chats)
<1>1. Len(s) \in Nat /\ HistoryLimit \in Nat
  BY CopilotAssumption
<1>2. CASE Len(s) > HistoryLimit
  BY <1>1, <1>2 DEF LastOf
<1>3. CASE ~(Len(s) > HistoryLimit)
  BY <1>1, <1>3 DEF LastOf
<1> QED BY <1>2, <1>3

LEMMA ChatFailsKeeps ==
  ASSUME CopilotInv, NEW c \in Chats, ChatFails(c)
  PROVE  CopilotInv'
<1> DEFINE k == chat[c].into
<1>1. /\ chat[c].pc \in {"opened", "recalled", "handled", "saved", "cached"} /\ ChatInv(c)
      /\ UNCHANGED <<talk, made, started>> /\ k \in Conversations
      /\ Continues(c, "failed") /\ "failed" \in ChatPlaces
      /\ typing' = [typing EXCEPT ![k] = IF @ = c THEN Missing ELSE @]
      /\ \A j \in Chats : typing[j] \in {j, Missing}
  BY CopilotFields DEF ChatFails, CopilotInv, ChatPlaces
<1>2. /\ chat' \in [Chats -> ChatRow] /\ \A o \in Chats \ {c} : chat'[o] = chat[o]
      /\ chat'[c].pc = "failed" /\ chat'[c].into = chat[c].into /\ chat'[c].seen = chat[c].seen
      /\ chat'[c].result = chat[c].result
      /\ chat'[c].result.told \subseteq {r.chat : r \in made}
  BY <1>1, ContinuesTo
<1>3. cache' \in [Conversations -> {Missing} \cup Seq(Chats)]
  <2>1. chat[c].pc = "cached" => LastOf(chat[c].read) \in Seq(Chats)
    BY <1>1, LastTyped DEF ChatInv
  <2> QED BY <1>1, <2>1, CopilotFields DEF ChatFails
<1>4. /\ typing' \in [Conversations -> Chats \cup {Missing}]
      /\ \A j \in Conversations : \A o \in Chats \ {c} : typing[j] = o => typing'[j] = o
      /\ \A j \in Chats : typing'[j] \in {j, Missing}
  BY <1>1, CopilotFields
<1>5. ChatInv(c)'
  BY <1>1, <1>2 DEF ChatInv
<1> QED BY <1>1, <1>2, <1>3, <1>4, <1>5, ChatSteps, CopilotFields

(* A commit counts one exchange more than it has read, and leaves one more. *)
LEMMA FinishKeeps ==
  ASSUME CopilotInv, NEW c \in Chats, Finish(c)
  PROVE  CopilotInv'
<1> DEFINE k == chat[c].into
           ex == talk[k].exchanges
<1>1. /\ chat[c].pc = "cached" /\ ChatInv(c) /\ k \in Conversations /\ k \in {c, Existing}
      /\ UNCHANGED started /\ Continues(c, "answered") /\ "answered" \in ChatPlaces
      /\ talk' = [talk EXCEPT ![k] = [there |-> TRUE, count |-> chat[c].seen + 2,
                                     exchanges |-> ex \cup {c}]]
      /\ typing' = [typing EXCEPT ![k] = Missing]
      /\ made' = IF chat[c].result.outcome = "confirmed"
                 THEN made \cup {[chat |-> c, kind |-> chat[c].result.kind,
                                  valid |-> chat[c].result.valid]}
                 ELSE made
      /\ \A j \in Chats : typing[j] \in {j, Missing}
      /\ \A j \in Conversations : talk[j].exchanges \subseteq Answered
  BY CopilotFields DEF Finish, CopilotInv, ChatPlaces, ChatInv
<1>2. /\ chat' \in [Chats -> ChatRow] /\ \A o \in Chats \ {c} : chat'[o] = chat[o]
      /\ chat'[c].pc = "answered" /\ chat'[c].into = k /\ chat'[c].seen = chat[c].seen
      /\ chat'[c].result = chat[c].result
      /\ chat'[c].result.told \subseteq {r.chat : r \in made}
  BY <1>1, ContinuesTo
<1>3. Answered' = Answered \cup {c} /\ c \notin Answered
  BY <1>1, <1>2 DEF Answered
<1>4. /\ typing[k] = c /\ (k = c \/ talk[k].there) /\ chat[c].seen <= 2 * Cardinality(ex)
      /\ chat[c].seen \in Nat /\ Cardinality(ex) \in Nat /\ IsFiniteSet(ex) /\ c \notin ex
  BY <1>1, <1>3, CopilotFields DEF ChatInv
<1>5. Cardinality(ex \cup {c}) = Cardinality(ex) + 1
  <2> HIDE DEF ex
  <2> QED BY <1>4, FS_AddElement
<1>6. /\ talk'[k].there /\ talk'[k].exchanges = ex \cup {c} /\ talk'[k].count = chat[c].seen + 2
      /\ \A j \in Conversations : j # k => talk'[j] = talk[j]
      /\ talk' \in [Conversations -> [there : BOOLEAN, count : Nat, exchanges : SUBSET Chats]]
  BY <1>1, <1>4, CopilotFields, SMTT(30)
<1>7. \A j \in Conversations :
        /\ talk[j].exchanges \subseteq talk'[j].exchanges
        /\ Cardinality(talk[j].exchanges) <= Cardinality(talk'[j].exchanges)
        /\ Cardinality(talk'[j].exchanges) \in Nat
  <2>1. Cardinality(ex \cup {c}) \in Nat /\ Cardinality(ex) <= Cardinality(ex \cup {c})
    BY <1>4, <1>5
  <2>2. \A j \in Conversations : Cardinality(talk[j].exchanges) \in Nat
    BY CopilotFields
  <2>3. ASSUME NEW j \in Conversations
        PROVE  /\ talk[j].exchanges \subseteq talk'[j].exchanges
               /\ Cardinality(talk[j].exchanges) <= Cardinality(talk'[j].exchanges)
               /\ Cardinality(talk'[j].exchanges) \in Nat
    <3>1. CASE j = k
      BY <1>6, <2>1, <3>1
    <3>2. CASE j # k
      BY <1>6, <2>2, <3>2
    <3> QED BY <3>1, <3>2
  <2> QED BY <2>3
<1>8. /\ typing' \in [Conversations -> Chats \cup {Missing}]
      /\ \A j \in Conversations : j # k => typing'[j] = typing[j]
      /\ \A j \in Chats : typing'[j] \in {j, Missing}
  BY <1>1, CopilotFields
<1>9. cache' \in [Conversations -> {Missing} \cup Seq(Chats)]
  <2>1. LastOf(chat[c].read) \in Seq(Chats)
    BY <1>1, LastTyped DEF ChatInv
  <2> QED BY <1>1, <2>1, CopilotFields DEF Finish
<1>10. /\ made' \subseteq [chat : Chats, kind : Kinds, valid : BOOLEAN] /\ made \subseteq made'
       /\ \A r \in made' \ made : r.chat = c /\ (r.kind = "policy" => r.valid)
       /\ chat[c].result.outcome = "confirmed" =>
            \E r \in made' : r.chat = c /\ r.kind = chat[c].result.kind
  <2>1. chat[c].result \in ReplyRow /\ made \subseteq [chat : Chats, kind : Kinds, valid : BOOLEAN]
    BY DEF CopilotInv, CopilotShape, CopilotTypeOK, ReplyRow
  <2>2. chat[c].result.outcome = "confirmed" =>
          chat[c].result.kind \in Kinds /\ (chat[c].result.kind = "policy" => chat[c].result.valid)
    BY <1>1 DEF ChatInv
  <2>3. CASE chat[c].result.outcome # "confirmed"
    BY <1>1, <2>1, <2>3
  <2>4. CASE chat[c].result.outcome = "confirmed"
    <3> DEFINE new == [chat |-> c, kind |-> chat[c].result.kind, valid |-> chat[c].result.valid]
    <3>1. new \in [chat : Chats, kind : Kinds, valid : BOOLEAN]
      BY <2>1, <2>2, <2>4 DEF ReplyRow
    <3>2. made' = made \cup {new} /\ new.chat = c /\ new.kind = chat[c].result.kind
          /\ (new.kind = "policy" => new.valid)
      BY <1>1, <2>2, <2>4
    <3> HIDE DEF new
    <3> QED BY <2>1, <3>1, <3>2
  <2> QED BY <2>3, <2>4
<1>11. CopilotShape'
  <2>1. \A o \in Chats : /\ chat'[o].wish \in Wishes /\ chat'[o].pc \in ChatPlaces
                         /\ chat'[o].into \in Conversations /\ chat'[o].seen \in Nat
                         /\ chat'[o].result \in ReplyRow
                         /\ chat'[o].read \in {Missing} \cup Seq(Chats)
    BY <1>2 DEF ChatRow
  <2>2. CopilotTypeOK'
    BY <1>1, <1>6, <1>8, <1>9, <1>10, <2>1, CopilotFields DEF CopilotTypeOK, ReplyRow
  <2> QED BY <1>2, <2>2 DEF CopilotShape
<1>12. \A o \in Chats \ {c} : ChatInv(o)'
  <2> SUFFICES ASSUME NEW o \in Chats \ {c} PROVE ChatInv(o)'
    OBVIOUS
  <2>1. chat'[o] = chat[o] /\ ChatInv(o) /\ chat[o].into \in Conversations /\ chat[o].seen \in Nat
    BY <1>2, CopilotFields DEF CopilotInv
  <2>2. chat[o].into \in {o, Existing}
    BY <2>1 DEF ChatInv
  <2>3. talk'[chat[o].into].there /\ chat[o].into # o => talk[chat[o].into].there
    BY <1>4, <1>6, <2>1, <2>2, CopilotFields
  <2>4. chat[o].pc \notin {"answered", "failed"} /\ (chat[o].into = o \/ talk'[chat[o].into].there) =>
          chat[o].seen <= 2 * Cardinality(talk'[chat[o].into].exchanges)
    <3>1. Cardinality(talk[chat[o].into].exchanges) \in Nat
      BY <2>1, CopilotFields
    <3>2. Cardinality(talk[chat[o].into].exchanges) <= Cardinality(talk'[chat[o].into].exchanges)
          /\ Cardinality(talk'[chat[o].into].exchanges) \in Nat
      BY <1>7, <2>1
    <3>3. chat[o].pc \notin {"answered", "failed"} /\ (chat[o].into = o \/ talk[chat[o].into].there) =>
            chat[o].seen <= 2 * Cardinality(talk[chat[o].into].exchanges)
      BY <2>1 DEF ChatInv
    <3> QED BY <2>1, <2>3, <3>1, <3>2, <3>3
  <2>5. chat[o].pc \in {"saved", "cached"} =>
          typing'[chat[o].into] = o /\ (chat[o].into = o \/ talk'[chat[o].into].there)
    BY <1>4, <1>6, <1>8, <2>1 DEF ChatInv
  <2> QED BY <2>1, <2>4, <2>5 DEF ChatInv
<1>13. ChatInv(c)'
  BY <1>1, <1>2 DEF ChatInv
<1>14. SaysWhatIs'
  <2>1. \A o \in Answered' : chat'[o].result.outcome = "confirmed" =>
             \E r \in made' : r.chat = o /\ r.kind = chat'[o].result.kind
    BY <1>2, <1>3, <1>10 DEF CopilotInv, SaysWhatIs, Answered
  <2>2. \A r \in made' : r.chat \in Answered' /\ (r.kind = "policy" => r.valid)
    BY <1>3, <1>10 DEF CopilotInv, SaysWhatIs
  <2>3. \A o \in Chats : chat'[o].result.told \subseteq {r.chat : r \in made'}
    BY <1>2, <1>10 DEF CopilotInv, SaysWhatIs
  <2>4. ASSUME NEW o \in Answered', talk'[chat'[o].into].there
        PROVE  o \in talk'[chat'[o].into].exchanges
    <3>1. CASE o = c
      BY <1>2, <1>6, <3>1
    <3>2. CASE o # c
      <4>1. o \in Answered /\ o \in Chats /\ chat'[o] = chat[o] /\ chat[o].into \in Conversations
        BY <1>2, <1>3, <3>2, CopilotFields DEF Answered
      <4>2. chat[o].into \in {o, Existing}
        BY <4>1 DEF CopilotInv, ChatInv
      <4>3. talk[chat[o].into].there
        <5>1. talk'[chat[o].into].there /\ Existing # c
          BY <2>4, <4>1, CopilotFields
        <5>2. CASE chat[o].into # k
          BY <1>6, <4>1, <5>1, <5>2
        <5>3. CASE chat[o].into = k
          BY <1>4, <3>2, <4>2, <5>1, <5>3
        <5> QED BY <5>2, <5>3
      <4>4. o \in talk[chat[o].into].exchanges
        BY <4>1, <4>3 DEF CopilotInv, SaysWhatIs
      <4> QED BY <1>7, <4>1, <4>4
    <3> QED BY <3>1, <3>2
  <2>5. \A j \in Conversations : talk'[j].count <= 2 * Cardinality(talk'[j].exchanges)
    <3>1. talk'[k].count <= 2 * Cardinality(talk'[k].exchanges)
      <4> HIDE DEF ex
      <4> QED BY <1>4, <1>5, <1>6
    <3>2. \A j \in Conversations : talk[j].count <= 2 * Cardinality(talk[j].exchanges)
      BY DEF CopilotInv, SaysWhatIs
    <3> QED BY <1>6, <3>1, <3>2
  <2> QED BY <2>1, <2>2, <2>3, <2>4, <2>5 DEF SaysWhatIs
<1>15. \A j \in Conversations : talk'[j].exchanges \subseteq Answered'
  BY <1>1, <1>3, <1>6
<1> QED BY <1>8, <1>11, <1>12, <1>13, <1>14, <1>15 DEF CopilotInv

LEMMA DeleteKeeps ==
  ASSUME CopilotInv, DeleteConversation
  PROVE  CopilotInv'
<1>1. /\ talk' = [talk EXCEPT ![Existing] = [there |-> FALSE, count |-> 0, exchanges |-> {}]]
      /\ cache' \in {cache, [cache EXCEPT ![Existing] = Missing]}
      /\ UNCHANGED <<typing, chat, made, started>> /\ typing[Existing] = Missing
  BY DEF DeleteConversation
<1>2. /\ talk' \in [Conversations -> [there : BOOLEAN, count : Nat, exchanges : SUBSET Chats]]
      /\ ~talk'[Existing].there /\ talk'[Existing].count = 0 /\ talk'[Existing].exchanges = {}
      /\ \A k \in Conversations : k # Existing => talk'[k] = talk[k]
      /\ cache' \in [Conversations -> {Missing} \cup Seq(Chats)]
  BY <1>1, CopilotFields
<1>3. CopilotShape' /\ Answered' = Answered
  BY <1>1, <1>2 DEF CopilotInv, CopilotShape, CopilotTypeOK, Answered
<1>4. \A o \in Chats : ChatInv(o)'
  <2> SUFFICES ASSUME NEW o \in Chats PROVE ChatInv(o)'
    OBVIOUS
  <2>1. ChatInv(o) /\ chat[o].into \in {o, Existing} /\ chat'[o] = chat[o] /\ o # Existing
        /\ chat[o].into \in Conversations
    BY <1>1, CopilotFields DEF CopilotInv, ChatInv
  <2>2. CASE chat[o].into = Existing
    <3>1. chat[o].pc \notin {"saved", "cached"}
      BY <1>1, <2>1, <2>2, CopilotFields DEF ChatInv
    <3> QED BY <1>2, <2>1, <2>2, <3>1 DEF ChatInv
  <2>3. CASE chat[o].into # Existing
    <3>1. talk'[chat[o].into] = talk[chat[o].into] /\ typing' = typing
      BY <1>1, <1>2, <2>1, <2>3
    <3> QED BY <2>1, <3>1 DEF ChatInv
  <2> QED BY <2>2, <2>3
<1>5. SaysWhatIs'
  <2>1. \A o \in Answered : talk'[chat[o].into].there => o \in talk'[chat[o].into].exchanges
    <3>1. \A o \in Answered : chat[o].into \in Conversations
      BY CopilotFields DEF Answered
    <3> QED BY <1>2, <3>1 DEF CopilotInv, SaysWhatIs
  <2>2. \A k \in Conversations : talk'[k].count <= 2 * Cardinality(talk'[k].exchanges)
    <3>1. talk'[Existing].count <= 2 * Cardinality(talk'[Existing].exchanges)
      BY <1>2, FS_EmptySet
    <3>2. \A k \in Conversations : talk[k].count <= 2 * Cardinality(talk[k].exchanges)
      BY DEF CopilotInv, SaysWhatIs
    <3> QED BY <1>2, <3>1, <3>2
  <2> QED BY <1>1, <1>3, <2>1, <2>2 DEF CopilotInv, SaysWhatIs
<1>6. /\ \A k \in Conversations : talk'[k].exchanges \subseteq Answered'
      /\ \A k \in Chats : typing'[k] \in {k, Missing}
  BY <1>1, <1>2, <1>3 DEF CopilotInv
<1> QED BY <1>3, <1>4, <1>5, <1>6 DEF CopilotInv

LEMMA CopilotInvariant == CopilotSpec => []CopilotInv
<1>1. CopilotInit(Wishes) => CopilotInv
  <2> SUFFICES ASSUME CopilotInit(Wishes) PROVE CopilotInv
    OBVIOUS
  <2>1. Nothing \in ReplyRow
    BY DEF Nothing, ReplyRow, Outcomes
  <2>2. chat \in [Chats -> ChatRow]
    BY <2>1 DEF CopilotInit, ChatRow, ChatPlaces, Conversations
  <2>3. \A c \in Chats : /\ chat[c].pc = "new" /\ chat[c].into = Existing /\ chat[c].seen = 0
                         /\ chat[c].result.outcome = "none" /\ chat[c].result.told = {}
    BY DEF CopilotInit, Nothing
  <2>4. /\ \A k \in Conversations : talk[k].count = 0 /\ talk[k].exchanges = {} /\ typing[k] = Missing
        /\ \A k \in Conversations : 0 <= 2 * Cardinality(talk[k].exchanges)
        /\ made = {} /\ Answered = {}
    <3>1. \A k \in Conversations : talk[k].count = 0 /\ talk[k].exchanges = {} /\ typing[k] = Missing
      BY DEF CopilotInit
    <3>2. \A k \in Conversations : 0 <= 2 * Cardinality(talk[k].exchanges)
      BY <3>1, FS_EmptySet
    <3> QED BY <2>3, <3>1, <3>2 DEF CopilotInit, Answered
  <2>5. CopilotShape
    <3>1. \A c \in Chats : /\ chat[c].wish \in Wishes /\ chat[c].pc \in ChatPlaces
                           /\ chat[c].into \in Conversations /\ chat[c].seen \in Nat
                           /\ chat[c].result \in ReplyRow
                           /\ chat[c].read \in {Missing} \cup Seq(Chats)
      BY <2>2 DEF ChatRow
    <3>2. CopilotTypeOK
      BY <3>1 DEF CopilotInit, CopilotTypeOK, ReplyRow
    <3> QED BY <2>2, <3>2 DEF CopilotShape
  <2>6. \A c \in Chats : ChatInv(c)
    <3>1. Existing \in Conversations
      BY DEF Conversations
    <3> QED BY <2>3, <2>4, <3>1 DEF ChatInv
  <2>7. SaysWhatIs
    BY <2>3, <2>4 DEF SaysWhatIs
  <2>8. \A c \in Chats : typing[c] \in {c, Missing}
    BY <2>4 DEF Conversations
  <2> QED BY <2>4, <2>5, <2>6, <2>7, <2>8 DEF CopilotInv
<1>2. CopilotInv /\ [CopilotNext]_copilotVars => CopilotInv'
  <2> SUFFICES ASSUME CopilotInv, [CopilotNext]_copilotVars PROVE CopilotInv'
    OBVIOUS
  <2>1. ASSUME UNCHANGED <<talk, typing, chat, made, started>>,
               cache' \in [Conversations -> {Missing} \cup Seq(Chats)]
        PROVE  CopilotInv'
    <3>1. CopilotShape' /\ Answered' = Answered
      BY <2>1 DEF CopilotInv, CopilotShape, CopilotTypeOK, Answered
    <3>2. \A o \in Chats : ChatInv(o)'
      BY <2>1 DEF CopilotInv, ChatInv
    <3>3. SaysWhatIs'
      BY <2>1, <3>1 DEF CopilotInv, SaysWhatIs
    <3> QED BY <2>1, <3>1, <3>2, <3>3 DEF CopilotInv
  <2>2. ASSUME NEW k \in Conversations, CacheExpires(k) PROVE CopilotInv'
    <3>1. /\ UNCHANGED <<talk, typing, chat, made, started>>
          /\ cache' \in [Conversations -> {Missing} \cup Seq(Chats)]
      BY <2>2, CopilotFields DEF CacheExpires
    <3> QED BY <2>1, <3>1
  <2>3. CASE UNCHANGED copilotVars
    BY <2>1, <2>3, CopilotFields DEF copilotVars
  <2> QED BY <2>2, <2>3, OpenKeeps, RecallKeeps, HandleKeeps, SaveKeeps, ReadCacheKeeps, FinishKeeps,
             ChatFailsKeeps, DeleteKeeps DEF CopilotNext
<1> QED BY <1>1, <1>2, PTL DEF CopilotSpec

(* For any chats and any words, whatever the model writes, whichever chats  *)
(* use one conversation at once and whoever deletes it meanwhile: what the  *)
(* assistant says it has done is done.                                      *)
THEOREM AssistantIsHonest == CopilotSpec => []SaysWhatIs
<1>1. CopilotInv => SaysWhatIs
  BY DEF CopilotInv
<1> QED BY <1>1, CopilotInvariant, PTL

-------------------------------------------------------------------------------
(* All of them together *)

LEMMA MembersTyped == MembersSpec => []MembersTypeOK
<1>1. KeysIInv /\ RoleInv => MembersTypeOK
  <2> SUFFICES ASSUME KeysIInv, RoleInv PROVE MembersTypeOK
    OBVIOUS
  <2>1. KeysTyped /\ KeyAsksApart /\ MembersShape
    BY DEF KeysIInv, RoleInv
  <2>2. ASSUME NEW a \in Asks
        PROVE  /\ ask[a].pc \in AskPlaces /\ ask[a].role \in Roles
               /\ \/ ask[a].kind \in AskKinds /\ ask[a].target \in People /\ ask[a].seen \in MemberRow
                  \/ ask[a].kind \in KeyKinds /\ ask[a].target \in ApiKeys /\ ask[a].seen \in KeyRow
    <3>1. ask[a] \in AskRow
      BY <2>1 DEF KeysTyped
    <3>2. ask[a].pc \in AskPlaces /\ ask[a].role \in Roles
      BY <3>1 DEF AskRow
    <3>3. \/ ask[a].kind \in KeyKinds /\ ask[a].target \in ApiKeys
          \/ ask[a].kind \in AskKinds /\ ask[a].target \in People
      BY <2>1 DEF KeyAsksApart
    <3>4. \/ ask[a].kind \in AskKinds /\ ask[a].seen \in MemberRow
          \/ ask[a].kind \in KeyKinds /\ ask[a].seen \in KeyRow
      BY <2>1 DEF MembersShape
    <3>5. ~ (ask[a].kind \in AskKinds /\ ask[a].kind \in KeyKinds)
      BY DEF AskKinds, KeyKinds, Audited
    <3> QED BY <3>2, <3>3, <3>4, <3>5
  <2> QED BY <2>1, <2>2 DEF MembersTypeOK, KeysTyped, MembersShape
<1> QED BY <1>1, KeysInvariant, RolesInvariant, PTL

(* The behaviours in which every component around the core takes its steps. *)
PlatformSpec ==
  /\ BreakerSpec /\ LimiterSpec /\ PoolSpec /\ ClientSpec /\ MembersSpec /\ ProvisioningSpec
  /\ AssessmentSpec /\ CopilotSpec /\ RegistrySpec /\ BaselineSpec /\ StreamSpec

(* Every variable of every component around the core keeps its type, for any *)
(* calls, requests, threads, agents, people, conversations and sockets.      *)
THEOREM PlatformTyped == PlatformSpec => []TypeOK
<1>1. /\ RegistryInv => RegistryTypeOK
      /\ BaselineInv => BaselineTypeOK
      /\ StreamInv => StreamTypeOK
      /\ CopilotInv => CopilotTypeOK
  BY DEF RegistryInv, BaselineInv, StreamInv, CopilotInv, CopilotShape
<1>2. RegistrySpec /\ BaselineSpec /\ StreamSpec /\ CopilotSpec
      => [](RegistryTypeOK /\ BaselineTypeOK /\ StreamTypeOK /\ CopilotTypeOK)
  BY <1>1, RegistryInvariant, BaselineInvariant, StreamInvariant, CopilotInvariant, PTL
<1>3. /\ BreakerTypeOK /\ LimiterTypeOK /\ PoolTypeOK /\ ClientTypeOK /\ MembersTypeOK
      /\ ProvisioningTypeOK /\ AssessmentTypeOK
      /\ RegistryTypeOK /\ BaselineTypeOK /\ StreamTypeOK /\ CopilotTypeOK
      => TypeOK
  BY DEF TypeOK
<1> QED
  BY <1>2, <1>3, TypeCorrect, LimiterTyped, PoolTyped, ClientTyped, MembersTyped,
     ProvisioningTyped, AssessmentTyped, PTL DEF PlatformSpec

================================================================================
