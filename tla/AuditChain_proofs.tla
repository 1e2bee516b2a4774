--------------------------- MODULE AuditChain_proofs ---------------------------
(***************************************************************************)
(* Proofs about the audit log, for any sets of writers and of events.      *)
(*                                                                         *)
(* Of the writers.  ReadInv ties the row each transaction has read, and    *)
(* the event it has inserted, to the committed rows: it holds for every    *)
(* writer and gives LinksResolve.  SerialInv adds that the holder of the   *)
(* organizations row read the last event and that nobody else is in a      *)
(* transaction: it holds when there are only evaluators, gives UniqueSeq   *)
(* and, with CountInv (as many rows as the last number says), that they    *)
(* implement AuditLog.                                                     *)
(*                                                                         *)
(* Of the readers.  ListInv says what a list of a page, and of the pages   *)
(* before it, holds; VerifyInv that the rows below the offset are those a  *)
(* verification has walked, unless the log has forked: a fork at s shifts  *)
(* every row behind it, so that place s + 1 holds number s, whatever is    *)
(* appended later.                                                         *)
(***************************************************************************)
EXTENDS AuditReaders, FiniteSetTheorems, SequenceTheorems, TLAPS

(* What a transaction has read and written, by its phase. *)
PhaseInv ==
  \A w \in Writers :
    /\ phase[w] \in {"idle", "open"} => last[w] = NoEvent
    /\ phase[w] = "queued" => last[w] # NoEvent
    /\ phase[w] = "inserted" <=> draft[w] # NoEvent

(* The row a transaction read is committed, and its event is built on it. *)
ReadInv ==
  \A w \in Writers :
    /\ last[w] # NoEvent => last[w] \in committed
    /\ draft[w] # NoEvent =>
         \/ /\ last[w] = NoEvent
            /\ draft[w].seq = 1 /\ draft[w].prev = NoEvent
         \/ /\ last[w] # NoEvent
            /\ draft[w].prev = last[w].id /\ draft[w].seq = last[w].seq + 1

(* One transaction at a time, which has read the end of the log. *)
SerialInv ==
  /\ \A v, w \in Writers : phase[v] # "idle" /\ phase[w] # "idle" => v = w
  /\ \A w \in Writers :
       phase[w] \in {"queued", "locked", "inserted"} =>
         IF last[w] = NoEvent THEN committed = {} ELSE last[w] \in LastRows

LEMMA NewEventType ==
  ASSUME NEW i \in Ids, NEW e \in Event \cup {NoEvent}
  PROVE  /\ NewEvent(i, e) \in Event
         /\ NewEvent(i, e) # NoEvent
BY NoEventIsNoRow DEF NewEvent, Event

ChainInv == TypeOK /\ PhaseInv /\ ReadInv /\ LinksResolve

LEMMA InitChainInv == Init => ChainInv
BY DEF Init, ChainInv, TypeOK, PhaseInv, ReadInv, LinksResolve, Phase

(* Ending a transaction, whatever becomes of the committed rows it leaves  *)
(* in place, disturbs no other transaction.                                *)
LEMMA EndKeeps ==
  ASSUME NEW w \in Writers, TypeOK, PhaseInv, ReadInv, EndTransaction(w),
         committed \subseteq committed'
  PROVE  /\ phase' \in [Writers -> Phase]
         /\ last' \in [Writers -> Event \cup {NoEvent}]
         /\ draft' \in [Writers -> Event \cup {NoEvent}]
         /\ PhaseInv' /\ ReadInv'
BY DEF TypeOK, PhaseInv, ReadInv, EndTransaction, Phase

LEMMA NextChainInv == ChainInv /\ [Next]_vars => ChainInv'
<1> SUFFICES ASSUME ChainInv, [Next]_vars
             PROVE  ChainInv'
  OBVIOUS
<1> USE DEF ChainInv
<1>1. ASSUME NEW w \in Writers, Begin(w)
      PROVE  ChainInv'
  BY <1>1 DEF Begin, TypeOK, PhaseInv, ReadInv, LinksResolve, Phase
<1>2. ASSUME NEW w \in Writers, ReadLast(w)
      PROVE  ChainInv'
  <2>1. TypeOK'
    BY <1>2 DEF ReadLast, TypeOK, LastRows, Phase
  <2>2. PhaseInv' /\ ReadInv'
    BY <1>2, NoEventIsNoRow DEF ReadLast, TypeOK, PhaseInv, ReadInv, LastRows, Phase
  <2>3. LinksResolve'
    BY <1>2 DEF ReadLast, LinksResolve
  <2>4. QED
    BY <2>1, <2>2, <2>3
<1>3. ASSUME NEW w \in Writers, LockLast(w)
      PROVE  ChainInv'
  BY <1>3 DEF LockLast, TypeOK, PhaseInv, ReadInv, LinksResolve, Phase
<1>4. ASSUME NEW w \in Writers, Insert(w)
      PROVE  ChainInv'
  <2>1. PICK i \in Ids : draft' = [draft EXCEPT ![w] = NewEvent(i, last[w])]
    BY <1>4 DEF Insert, FreeIds
  <2>2. NewEvent(i, last[w]) \in Event /\ NewEvent(i, last[w]) # NoEvent
    BY NewEventType DEF TypeOK
  <2>3. TypeOK' /\ PhaseInv' /\ LinksResolve'
    BY <1>4, <2>1, <2>2 DEF Insert, TypeOK, PhaseInv, LinksResolve, Phase
  <2>4. ReadInv'
    BY <1>4, <2>1 DEF Insert, TypeOK, ReadInv, NewEvent
  <2>5. QED
    BY <2>3, <2>4
<1>5. ASSUME NEW w \in Writers, Commit(w)
      PROVE  ChainInv'
  <2>1. draft[w] \in Event
    BY <1>5 DEF Commit, TypeOK, PhaseInv
  <2>2. TypeOK' /\ PhaseInv' /\ ReadInv'
    BY <1>5, <2>1, EndKeeps DEF Commit, TypeOK
  <2>3. LinksResolve'
    <3>1. \/ draft[w].seq = 1 /\ draft[w].prev = NoEvent
          \/ \E f \in committed : f.id = draft[w].prev /\ draft[w].seq = f.seq + 1
      BY <1>5, <2>1, NoEventIsNoRow DEF ReadInv
    <3>2. QED
      BY <1>5, <3>1 DEF Commit, LinksResolve
  <2>4. QED
    BY <2>2, <2>3
<1>6. ASSUME NEW w \in Writers, Rollback(w)
      PROVE  ChainInv'
  BY <1>6, EndKeeps DEF Rollback, TypeOK, LinksResolve
<1>7. CASE UNCHANGED vars
  BY <1>7 DEF vars, TypeOK, PhaseInv, ReadInv, LinksResolve
<1>8. QED
  BY <1>1, <1>2, <1>3, <1>4, <1>5, <1>6, <1>7 DEF Next

LEMMA ChainInvariant == Spec => []ChainInv
BY InitChainInv, NextChainInv, PTL DEF Spec

(* Every variable of the audit log keeps its type. *)
THEOREM TypeCorrect == Spec => []TypeOK
BY ChainInvariant, PTL DEF ChainInv

(* For any writers, interleaved and rolled back in any way, every          *)
(* committed event is a first event or is chained to a committed event     *)
(* that carries the number before its own: create_audit_event leaves no    *)
(* gap and no dangling prev_hash, even where it forks the chain.           *)
THEOREM LinksAlwaysResolve == Spec => []LinksResolve
BY ChainInvariant, PTL DEF ChainInv

-------------------------------------------------------------------------------
(* With no writer outside the organizations row, the log does not fork. *)

LEMMA InitSerial == Init => SerialInv /\ UniqueSeq
BY DEF Init, SerialInv, UniqueSeq

LEMMA NextSerial ==
  ASSUME Deciders = {}, ChainInv, SerialInv, UniqueSeq, [Next]_vars
  PROVE  SerialInv' /\ UniqueSeq'
<1> USE DEF ChainInv, Writers
<1>1. ASSUME NEW w \in Writers, Begin(w)
      PROVE  SerialInv' /\ UniqueSeq'
  BY <1>1 DEF Begin, HoldsOrgRow, TypeOK, SerialInv, UniqueSeq, LastRows, Phase
<1>2. ASSUME NEW w \in Writers, ReadLast(w)
      PROVE  SerialInv' /\ UniqueSeq'
  BY <1>2, NoEventIsNoRow
     DEF ReadLast, TypeOK, PhaseInv, SerialInv, UniqueSeq, LastRows, Phase
<1>3. ASSUME NEW w \in Writers, LockLast(w)
      PROVE  SerialInv' /\ UniqueSeq'
  BY <1>3 DEF LockLast, TypeOK, SerialInv, UniqueSeq, LastRows, Phase
<1>4. ASSUME NEW w \in Writers, Insert(w)
      PROVE  SerialInv' /\ UniqueSeq'
  BY <1>4 DEF Insert, TypeOK, SerialInv, UniqueSeq, LastRows, Phase
<1>5. ASSUME NEW w \in Writers, Commit(w)
      PROVE  SerialInv' /\ UniqueSeq'
  <2>1. draft[w] \in Event
    BY <1>5 DEF Commit, TypeOK, PhaseInv
  <2>2. \A f \in committed : f.seq < draft[w].seq
    <3>1. draft[w] # NoEvent /\ committed \subseteq Event
      BY <2>1, NoEventIsNoRow DEF TypeOK
    <3>2. CASE last[w] = NoEvent
      BY <1>5, <3>2 DEF Commit, SerialInv
    <3>3. CASE last[w] # NoEvent
      <4>1. draft[w].seq = last[w].seq + 1 /\ last[w] \in LastRows
        BY <1>5, <3>1, <3>3 DEF Commit, ReadInv, SerialInv
      <4>2. QED
        BY <3>1, <4>1 DEF LastRows, Event
    <3>4. QED
      BY <3>2, <3>3
  <2>3. UniqueSeq'
    BY <1>5, <2>1, <2>2 DEF Commit, TypeOK, UniqueSeq, Event
  <2>4. \A v \in Writers : phase'[v] = "idle"
    BY <1>5 DEF Commit, EndTransaction, TypeOK, SerialInv
  <2>5. QED
    BY <2>3, <2>4 DEF SerialInv
<1>6. ASSUME NEW w \in Writers, Rollback(w)
      PROVE  SerialInv' /\ UniqueSeq'
  BY <1>6 DEF Rollback, EndTransaction, TypeOK, SerialInv, UniqueSeq, LastRows
<1>7. CASE UNCHANGED vars
  BY <1>7 DEF vars, SerialInv, UniqueSeq, LastRows
<1>8. QED
  BY <1>1, <1>2, <1>3, <1>4, <1>5, <1>6, <1>7 DEF Next

(* If only evaluations write to the log, their update of the organizations *)
(* row serialises them and no two committed events share a sequence        *)
(* number, however many evaluations run at once.                           *)
THEOREM EvaluatorsNeverFork ==
  ASSUME Deciders = {}
  PROVE  Spec => []UniqueSeq
<1>1. ChainInv /\ SerialInv /\ UniqueSeq /\ [Next]_vars => (SerialInv /\ UniqueSeq)'
  BY NextSerial
<1>2. QED
  BY InitSerial, ChainInvariant, <1>1, PTL DEF Spec

-------------------------------------------------------------------------------
(* The log as a list: numbers without a gap, whether or not it forks.       *)

(* An id is of one event, committed or about to be.                         *)
IdsApart ==
  /\ IsFiniteSet(committed)
  /\ \A e, f \in committed : e.id = f.id => e = f
  /\ \A w \in Writers : draft[w] # NoEvent =>
       /\ \A e \in committed : e.id # draft[w].id
       /\ \A v \in Writers \ {w} : draft[v] # NoEvent => draft[v].id # draft[w].id

NoGap == \A e \in committed : \A m \in 1..e.seq : \E f \in committed : f.seq = m

LEMMA NextWhole ==
  ASSUME ChainInv, IdsApart, NoGap, [Next]_vars
  PROVE  IdsApart' /\ NoGap'
<1> USE DEF ChainInv
<1>1. ASSUME NEW w \in Writers, Begin(w) \/ ReadLast(w) \/ LockLast(w)
      PROVE  IdsApart' /\ NoGap'
  BY <1>1 DEF Begin, ReadLast, LockLast, IdsApart, NoGap
<1>2. ASSUME NEW w \in Writers, Insert(w)
      PROVE  IdsApart' /\ NoGap'
  <2>1. PICK i \in FreeIds : draft' = [draft EXCEPT ![w] = NewEvent(i, last[w])]
    BY <1>2 DEF Insert
  <2>2. /\ draft'[w].id = i /\ \A v \in Writers \ {w} : draft'[v] = draft[v]
        /\ UNCHANGED committed
    BY <1>2, <2>1 DEF Insert, NewEvent, TypeOK
  <2>3. /\ \A e \in committed : e.id # i
        /\ \A v \in Writers : draft[v] # NoEvent => draft[v].id # i
    BY <2>1 DEF FreeIds
  <2>4. IdsApart'
    BY <2>2, <2>3 DEF IdsApart
  <2> QED BY <2>2, <2>4 DEF NoGap
<1>3. ASSUME NEW w \in Writers, Commit(w)
      PROVE  IdsApart' /\ NoGap'
  <2>1. draft[w] \in Event /\ draft[w] # NoEvent /\ committed' = committed \cup {draft[w]}
    BY <1>3, NoEventIsNoRow DEF Commit, TypeOK, PhaseInv
  <2>2. draft'[w] = NoEvent /\ \A v \in Writers \ {w} : draft'[v] = draft[v]
    BY <1>3 DEF Commit, EndTransaction, TypeOK
  <2>3. IsFiniteSet(committed')
    BY <2>1, FS_AddElement DEF IdsApart
  <2>4. IdsApart'
    BY <2>1, <2>2, <2>3 DEF IdsApart
  <2>5. ASSUME NEW m \in 1..draft[w].seq
        PROVE  \E f \in committed' : f.seq = m
    <3>1. CASE m = draft[w].seq
      BY <2>1, <3>1
    <3>2. CASE m # draft[w].seq
      <4>1. last[w] # NoEvent /\ last[w] \in committed /\ draft[w].seq = last[w].seq + 1
        BY <2>1, <3>2 DEF ReadInv
      <4>2. last[w] \in Event
        BY <4>1 DEF TypeOK
      <4>3. m \in 1..last[w].seq
        BY <3>2, <4>1, <4>2 DEF Event
      <4> QED BY <2>1, <4>1, <4>3 DEF NoGap
    <3> QED BY <3>1, <3>2
  <2>6. NoGap'
    BY <2>1, <2>5 DEF NoGap
  <2> QED BY <2>4, <2>6
<1>4. ASSUME NEW w \in Writers, Rollback(w)
      PROVE  IdsApart' /\ NoGap'
  <2>1. /\ UNCHANGED committed /\ draft'[w] = NoEvent
        /\ \A v \in Writers \ {w} : draft'[v] = draft[v]
    BY <1>4 DEF Rollback, EndTransaction, TypeOK
  <2> QED BY <2>1 DEF IdsApart, NoGap
<1>5. CASE UNCHANGED vars
  BY <1>5 DEF vars, IdsApart, NoGap
<1> QED BY <1>1, <1>2, <1>3, <1>4, <1>5 DEF Next

LEMMA WholeInvariant == Spec => [](ChainInv /\ IdsApart /\ NoGap)
<1>1. Init => IdsApart /\ NoGap
  BY FS_EmptySet DEF Init, IdsApart, NoGap
<1>2. ChainInv /\ IdsApart /\ NoGap /\ [Next]_vars => (IdsApart /\ NoGap)'
  BY NextWhole
<1> QED BY <1>1, <1>2, ChainInvariant, PTL DEF Spec

-------------------------------------------------------------------------------
(* With evaluators only, the log is the abstract one. *)

(* The committed events are numbered 1, 2, ... up to how many there are.    *)
CountInv ==
  /\ \A e \in committed : e.seq <= Cardinality(committed)
  /\ committed # {} => \E e \in committed : e.seq = Cardinality(committed)

LEMMA NextCount ==
  ASSUME Deciders = {}, ChainInv, SerialInv, IdsApart, CountInv, [Next]_vars
  PROVE  /\ CountInv'
         /\ \/ UNCHANGED committed
            \/ \E d \in Event \ committed :
                 committed' = committed \cup {d} /\ d.seq = Cardinality(committed) + 1
<1> USE DEF ChainInv, Writers
<1>1. ASSUME NEW w \in Writers, Commit(w)
      PROVE  \E d \in Event \ committed :
               committed' = committed \cup {d} /\ d.seq = Cardinality(committed) + 1
  <2>1. /\ draft[w] \in Event /\ draft[w] # NoEvent
        /\ committed' = committed \cup {draft[w]}
    BY <1>1, NoEventIsNoRow DEF Commit, TypeOK, PhaseInv
  <2>2. draft[w] \notin committed
    BY <2>1 DEF IdsApart
  <2>3. CASE last[w] = NoEvent
    <3>1. committed = {}
      BY <1>1, <2>3 DEF Commit, SerialInv
    <3>2. draft[w].seq = 1
      BY <2>1, <2>3 DEF ReadInv
    <3> QED BY <2>1, <2>2, <3>1, <3>2, FS_EmptySet
  <2>4. CASE last[w] # NoEvent
    <3>1. last[w] \in LastRows /\ draft[w].seq = last[w].seq + 1
      BY <1>1, <2>1, <2>4 DEF Commit, SerialInv, ReadInv
    <3>2. last[w] \in committed /\ (\A e \in committed : e.seq <= last[w].seq)
      BY <3>1 DEF LastRows
    <3>3. PICK e \in committed : e.seq = Cardinality(committed)
      BY <3>2 DEF CountInv
    <3>4. last[w].seq <= e.seq /\ e.seq <= last[w].seq /\ e.seq \in Nat /\ last[w].seq \in Nat
      BY <3>2, <3>3 DEF CountInv, TypeOK, Event
    <3>5. last[w].seq = Cardinality(committed)
      BY <3>3, <3>4
    <3> QED BY <2>1, <2>2, <3>1, <3>5
  <2> QED BY <2>3, <2>4
<1>2. ASSUME NEW d \in Event \ committed, committed' = committed \cup {d},
             d.seq = Cardinality(committed) + 1
      PROVE  CountInv'
  <2>1. Cardinality(committed') = Cardinality(committed) + 1 /\ Cardinality(committed) \in Nat
    BY <1>2, FS_AddElement, FS_CardinalityType DEF IdsApart
  <2>2. \A e \in committed : e.seq \in Nat /\ e.seq <= Cardinality(committed)
    BY DEF CountInv, TypeOK, Event
  <2>3. ASSUME NEW e \in committed' PROVE e.seq <= Cardinality(committed')
    BY <1>2, <2>1, <2>2, <2>3
  <2>4. d \in committed' /\ d.seq = Cardinality(committed')
    BY <1>2, <2>1
  <2> QED BY <2>3, <2>4 DEF CountInv
<1>3. (\A w \in Writers : ~Commit(w)) => UNCHANGED committed
  BY DEF Next, Begin, ReadLast, LockLast, Insert, Rollback, vars
<1>4. UNCHANGED committed => CountInv'
  BY DEF CountInv
<1> QED BY <1>1, <1>2, <1>3, <1>4

(* Where no number is taken twice, the entry an auditor sees is the event's.*)
Shown ==
  /\ LogView = [n \in 1..Cardinality(committed) |-> LogView[n]]
  /\ \A e \in committed : e.seq \in 1..Cardinality(committed) /\ LogView[e.seq] = e.id
  /\ Cardinality(committed) \in Nat

LEMMA ViewIs == ChainInv /\ UniqueSeq /\ CountInv /\ IdsApart => Shown
<1> SUFFICES ASSUME TypeOK, UniqueSeq, CountInv, IsFiniteSet(committed)
             PROVE  Shown
  BY DEF ChainInv, IdsApart
<1>1. LogView = [n \in 1..Cardinality(committed) |-> LogView[n]]
  BY DEF LogView
<1>2. Cardinality(committed) \in Nat
  BY FS_CardinalityType
<1>3. ASSUME NEW e \in committed
      PROVE  e.seq \in 1..Cardinality(committed) /\ LogView[e.seq] = e.id
  <2>1. e.seq \in 1..Cardinality(committed)
    BY <1>2 DEF CountInv, TypeOK, Event
  <2>2. {f \in committed : f.seq = e.seq} = {e}
    BY DEF UniqueSeq
  <2>3. Cardinality({e}) = 1 /\ (CHOOSE f \in {e} : TRUE) = e
    BY FS_Singleton
  <2> QED BY <2>1, <2>2, <2>3 DEF LogView
<1> QED BY <1>1, <1>2, <1>3 DEF Shown

SerialWhole ==
  /\ ChainInv /\ SerialInv /\ UniqueSeq /\ IdsApart /\ NoGap /\ CountInv

LEMMA StepAppends ==
  ASSUME SerialWhole, SerialWhole', NEW d \in Event \ committed,
         committed' = committed \cup {d}, d.seq = Cardinality(committed) + 1
  PROVE  Log!Next
<1> DEFINE k == Cardinality(committed)
<1>1. /\ LogView = [n \in 1..k |-> LogView[n]]
      /\ \A e \in committed : e.seq \in 1..k /\ LogView[e.seq] = e.id
      /\ k \in Nat
  BY ViewIs DEF SerialWhole, Shown
<1>2. Cardinality(committed') = k + 1
  BY <1>1, FS_AddElement DEF SerialWhole, IdsApart
<1>3. /\ LogView' = [n \in 1..(k + 1) |-> LogView'[n]]
      /\ \A e \in committed' : LogView'[e.seq] = e.id
  <2>1. (ChainInv /\ UniqueSeq /\ CountInv /\ IdsApart)' => Shown'
    BY ViewIs, PTL
  <2> QED BY <1>2, <2>1 DEF SerialWhole, Shown
<1>4. DOMAIN LogView = 1..k
  BY <1>1
<1>5. LogView'[k + 1] = d.id /\ d.id \in Ids
  BY <1>3 DEF Event
<1>6. ASSUME NEW n \in 1..k
      PROVE  LogView'[n] = LogView[n]
  <2>1. PICK e \in committed : e.seq = k
    <3>1. committed # {}
      BY <1>6, FS_EmptySet
    <3> QED BY <3>1 DEF SerialWhole, CountInv
  <2>2. PICK f \in committed : f.seq = n
    BY <1>6, <2>1 DEF SerialWhole, NoGap
  <2> QED BY <1>1, <1>3, <2>2
<1> DEFINE end == IF DOMAIN LogView = {} THEN 0
                  ELSE CHOOSE n \in DOMAIN LogView : \A m \in DOMAIN LogView : m <= n
<1>7. end = k
  <2>1. CASE k = 0
    BY <1>4, <2>1
  <2>2. CASE k # 0
    <3> HIDE DEF k
    <3>1. k \in 1..k /\ \A m \in 1..k : m <= k
      BY <1>1, <2>2
    <3>2. \A n \in 1..k : (\A m \in 1..k : m <= n) => n = k
      BY <3>1, <1>1
    <3> QED BY <1>4, <3>1, <3>2
  <2> QED BY <2>1, <2>2
<1>8. LogView' = [n \in 1..(end + 1) |-> IF n \in DOMAIN LogView THEN LogView[n] ELSE d.id]
  <2> HIDE DEF k, end
  <2>1. \A n \in 1..(k + 1) : LogView'[n] = IF n \in 1..k THEN LogView[n] ELSE d.id
    BY <1>1, <1>5, <1>6
  <2> QED BY <1>3, <1>4, <1>7, <2>1
<1>9. Log!Append(d.id)
  BY <1>8 DEF Log!Append
<1> QED BY <1>5, <1>9 DEF Log!Next

(* If only evaluations write to it, the audit rows implement the append-only *)
(* log: every commit of create_audit_event adds one entry at its end, and    *)
(* nothing else changes what an auditor sees.                                *)
THEOREM EvaluatorsAppend ==
  ASSUME Deciders = {}
  PROVE  Spec => ImplementsLog
<1>1. Init => CountInv
  BY FS_EmptySet DEF Init, CountInv
<1>2. Init => Log!Init
  <2>1. Init => LogView = << >>
    <3>1. Init => Cardinality(committed) = 0
      BY FS_EmptySet DEF Init
    <3> QED BY <3>1 DEF LogView
  <2> QED BY <2>1 DEF Log!Init
<1>3. ChainInv /\ IdsApart /\ NoGap /\ SerialInv /\ UniqueSeq /\ CountInv /\ [Next]_vars
      => (SerialInv /\ UniqueSeq /\ CountInv)'
  BY NextSerial, NextCount
<1>4. SerialWhole /\ SerialWhole' /\ [Next]_vars => [Log!Next]_LogView
  <2> SUFFICES ASSUME SerialWhole, SerialWhole', [Next]_vars
               PROVE  [Log!Next]_LogView
    OBVIOUS
  <2>1. CASE UNCHANGED committed
    BY <2>1 DEF LogView
  <2>2. CASE \E d \in Event \ committed :
               committed' = committed \cup {d} /\ d.seq = Cardinality(committed) + 1
    BY <2>2, StepAppends
  <2> QED BY <2>1, <2>2, NextCount DEF SerialWhole
<1>5. ChainInv /\ IdsApart /\ NoGap /\ SerialInv /\ UniqueSeq /\ CountInv <=> SerialWhole
  BY DEF SerialWhole
<1> QED
  BY <1>1, <1>2, <1>3, <1>4, <1>5, InitSerial, WholeInvariant, PTL
  DEF Spec, ImplementsLog, Log!Spec

-------------------------------------------------------------------------------
(* The pages a reader gets *)

(* The rows of S, each once. *)
Lists(S, o) ==
  /\ o \in Seq(S) /\ Len(o) = Cardinality(S) /\ Cardinality(S) \in Nat
  /\ \A m, n \in 1..Len(o) : m # n => o[m] # o[n]
  /\ \A e \in S : \E n \in 1..Len(o) : o[n] = e

LEMMA ListsAll ==
  ASSUME NEW S, IsFiniteSet(S), NEW o \in SetToSeqs(S)
  PROVE  Lists(S, o)
<1> DEFINE D == 1..Cardinality(S)
<1>1. Cardinality(S) \in Nat
  BY FS_CardinalityType
<1>2. o \in [D -> S] /\ \A m, n \in D : m # n => o[m] # o[n]
  BY DEF SetToSeqs
<1>3. o \in Seq(S) /\ Len(o) = Cardinality(S)
  BY <1>1, <1>2
<1>4. IsFiniteSet(D) /\ Cardinality(D) = Cardinality(S)
  BY <1>1, FS_Interval
<1>5. o \in Surjection(D, S)
  <2>1. o \in Injection(D, S)
    BY <1>2 DEF Injection, IsInjective
  <2> QED BY <2>1, <1>4, FS_Injection
<1>6. \A e \in S : \E n \in D : o[n] = e
  BY <1>5 DEF Surjection
<1> QED BY <1>1, <1>2, <1>3, <1>6 DEF Lists

LEMMA AscendingLists ==
  ASSUME NEW S, IsFiniteSet(S), NEW o \in Ascending(S)
  PROVE  Lists(S, o) /\ \A m, n \in 1..Len(o) : m < n => o[m].seq <= o[n].seq
<1>1. o \in SetToSeqs(S) /\ \A m, n \in DOMAIN o : m < n => o[m].seq <= o[n].seq
  BY DEF Ascending
<1>2. Lists(S, o)
  BY <1>1, ListsAll
<1> QED BY <1>1, <1>2 DEF Lists

LEMMA DescendingLists ==
  ASSUME NEW S, IsFiniteSet(S), NEW o \in Descending(S)
  PROVE  Lists(S, o) /\ \A m, n \in 1..Len(o) : m < n => o[n].seq <= o[m].seq
<1>1. PICK up \in Ascending(S) : o = Reverse(up)
  BY DEF Descending
<1>2. Lists(S, up) /\ \A m, n \in 1..Len(up) : m < n => up[m].seq <= up[n].seq
  BY AscendingLists
<1>3. up \in Seq(S) /\ Len(up) \in Nat
  BY <1>2 DEF Lists
<1> DEFINE back(n) == Len(up) - n + 1
<1>4. \A n \in 1..Len(up) : back(n) \in 1..Len(up) /\ back(back(n)) = n
  BY <1>3
<1>5. o = [n \in 1..Len(up) |-> up[back(n)]]
  BY <1>1 DEF Reverse
<1>6. o \in Seq(S) /\ Len(o) = Len(up) /\ \A n \in 1..Len(up) : o[n] = up[back(n)]
  BY <1>3, <1>4, <1>5
<1>7. \A m, n \in 1..Len(up) : m < n => back(n) < back(m)
  BY <1>3
<1>8. \A m, n \in 1..Len(o) : m # n => o[m] # o[n]
  <2>1. \A m, n \in 1..Len(up) : m # n => back(m) # back(n)
    BY <1>3
  <2> HIDE DEF back
  <2> QED BY <1>2, <1>4, <1>6, <2>1 DEF Lists
<1>9. \A m, n \in 1..Len(o) : m < n => o[n].seq <= o[m].seq
  <2> HIDE DEF back
  <2> QED BY <1>2, <1>4, <1>6, <1>7
<1>10. \A e \in S : \E n \in 1..Len(o) : o[n] = e
  <2> HIDE DEF back
  <2>1. ASSUME NEW e \in S PROVE \E n \in 1..Len(o) : o[n] = e
    <3>1. PICK n \in 1..Len(up) : up[n] = e
      BY <1>2 DEF Lists
    <3> QED BY <1>4, <1>6, <3>1
  <2> QED BY <2>1
<1> QED BY <1>2, <1>6, <1>8, <1>9, <1>10 DEF Lists

LEMMA PageIs ==
  ASSUME NEW S, NEW o \in Seq(S), NEW k \in Nat, NEW n \in Nat, k <= Len(o)
  PROVE  /\ Page(o, k, n) \in Seq(S)
         /\ Len(Page(o, k, n)) = IF k + n < Len(o) THEN n ELSE Len(o) - k
         /\ \A m \in 1..Len(Page(o, k, n)) : k + m \in 1..Len(o) /\ Page(o, k, n)[m] = o[k + m]
<1> DEFINE end == IF k + n < Len(o) THEN k + n ELSE Len(o)
<1>1. Len(o) \in Nat /\ end \in Nat /\ k <= end /\ end <= Len(o)
  OBVIOUS
<1>2. Page(o, k, n) = SubSeq(o, k + 1, end)
  BY DEF Page
<1>3. /\ SubSeq(o, k + 1, end) \in Seq(S)
      /\ Len(SubSeq(o, k + 1, end)) = end - k
      /\ \A m \in 1..(end - k) : SubSeq(o, k + 1, end)[m] = o[k + m]
  <2> HIDE DEF end
  <2> QED BY <1>1, SubSeqProperties
<1> QED BY <1>1, <1>2, <1>3

-------------------------------------------------------------------------------
(* A client that follows the cursor *)

(* It has all it began with from the cursor on, and nothing below it.       *)
ListInv ==
  /\ listing \in [pc : {"idle", "paging", "done"}, cursor : Nat, seen : Seq(Event),
                  start : SUBSET Event]
  /\ listing.start \subseteq committed
  /\ listing.pc = "idle" \/ (listing.cursor = 0 /\ listing.pc = "paging") => listing.seen = << >>
  /\ listing.pc = "paging" /\ listing.cursor # 0 =>
       /\ \A i \in 1..Len(listing.seen) : listing.seen[i].seq >= listing.cursor
       /\ \A e \in listing.start : e.seq >= listing.cursor =>
            \E i \in 1..Len(listing.seen) : listing.seen[i] = e
  /\ listing.pc = "idle" => listing.cursor = 0
  /\ CursorIsComplete

LEMMA SeenIs ==
  ASSUME listing.seen \in Seq(Event)
  PROVE  /\ DOMAIN listing.seen = 1..Len(listing.seen) /\ Len(listing.seen) \in Nat
         /\ ToSet(listing.seen) = {listing.seen[i] : i \in 1..Len(listing.seen)}
BY DEF ToSet

LEMMA ListPageKeeps ==
  ASSUME ChainInv, IdsApart, UniqueSeq, ListInv, ListPage
  PROVE  ListInv'
<1> DEFINE S == {e \in committed : listing.cursor = 0 \/ e.seq < listing.cursor}
           seen == listing.seen
<1>1. PICK rows \in Descending(S) :
        listing' = [listing EXCEPT
          !.pc = IF Len(Page(rows, 0, PageSize)) = PageSize THEN "paging" ELSE "done",
          !.cursor = IF Len(Page(rows, 0, PageSize)) = PageSize
                     THEN Page(rows, 0, PageSize)[PageSize].seq ELSE @,
          !.seen = @ \o Page(rows, 0, PageSize)]
  BY DEF ListPage
<1> DEFINE page == Page(rows, 0, PageSize)
<1>2. /\ Lists(S, rows) /\ S \subseteq Event
      /\ \A m, n \in 1..Len(rows) : m < n => rows[n].seq <= rows[m].seq
  <2>1. IsFiniteSet(S) /\ S \subseteq Event
    BY FS_Subset DEF IdsApart, ChainInv, TypeOK
  <2> HIDE DEF S
  <2> QED BY <2>1, DescendingLists
<1>3. /\ page \in Seq(S) /\ Len(page) \in Nat /\ Len(page) <= PageSize
      /\ Len(page) < PageSize => Len(page) = Len(rows)
      /\ \A m \in 1..Len(page) : m \in 1..Len(rows) /\ page[m] = rows[m]
  <2>1. rows \in Seq(S) /\ Len(rows) \in Nat /\ PageSize \in Nat /\ 0 \in Nat /\ 0 <= Len(rows)
    BY <1>2, PagesNotEmpty DEF Lists
  <2> HIDE DEF S
  <2>2. /\ page \in Seq(S) /\ Len(page) = IF 0 + PageSize < Len(rows) THEN PageSize ELSE Len(rows) - 0
        /\ \A m \in 1..Len(page) : 0 + m \in 1..Len(rows) /\ page[m] = rows[0 + m]
    BY <2>1, PageIs, ZenonT(30)
  <2> QED BY <2>1, <2>2
<1>4. /\ listing.pc = "paging" /\ seen \in Seq(Event) /\ listing.cursor \in Nat
      /\ listing.start \subseteq committed /\ listing.start \subseteq Event
      /\ \A i, j \in 1..Len(seen) : i # j => seen[i].seq # seen[j].seq
  BY SeenIs DEF ListInv, ListPage, CursorIsComplete
<1>5. /\ listing' = [pc |-> listing'.pc, cursor |-> listing'.cursor, seen |-> listing'.seen,
                     start |-> listing'.start]
      /\ listing'.start = listing.start /\ listing'.seen = seen \o page
      /\ listing'.pc = IF Len(page) = PageSize THEN "paging" ELSE "done"
      /\ listing'.cursor = IF Len(page) = PageSize THEN page[PageSize].seq ELSE listing.cursor
      /\ UNCHANGED committed
  BY <1>1, <1>4 DEF ListInv, ListPage, vars
<1>6. /\ seen \o page \in Seq(Event) /\ Len(seen \o page) = Len(seen) + Len(page)
      /\ \A i \in 1..Len(seen) + Len(page) :
           (seen \o page)[i] = IF i <= Len(seen) THEN seen[i] ELSE page[i - Len(seen)]
  <2>1. page \in Seq(Event)
    BY <1>2, <1>3
  <2> HIDE DEF page, seen
  <2> QED BY <1>4, <2>1, ConcatProperties
<1>7. \A m \in 1..Len(page) :
        /\ page[m] \in committed /\ page[m].seq \in Nat \ {0}
        /\ listing.cursor = 0 \/ page[m].seq < listing.cursor
  <2>1. \A e \in S : /\ e \in committed /\ e.seq \in Nat \ {0}
                     /\ listing.cursor = 0 \/ e.seq < listing.cursor
    BY <1>2 DEF Event
  <2>2. \A m \in 1..Len(page) : page[m] \in S
    <3> HIDE DEF page, S
    <3> QED BY <1>3
  <2> QED BY <2>1, <2>2
<1>8. \A m, n \in 1..Len(page) : m # n => page[m].seq # page[n].seq
  <2>1. \A m, n \in 1..Len(page) : m # n => page[m] # page[n]
    <3> HIDE DEF page, S
    <3> QED BY <1>2, <1>3 DEF Lists
  <2> HIDE DEF page, S
  <2> QED BY <1>7, <2>1 DEF UniqueSeq
<1>9. \A i \in 1..Len(seen) : listing.cursor # 0 /\ seen[i].seq >= listing.cursor
  BY <1>4 DEF ListInv
<1>10. \A i, j \in 1..Len(seen \o page) :
         i # j => (seen \o page)[i].seq # (seen \o page)[j].seq
  <2>1. Len(seen) \in Nat /\ \A i \in 1..Len(seen) : seen[i] \in Event
    BY <1>4
  <2>2. \A i \in 1..Len(seen), m \in 1..Len(page) : seen[i].seq # page[m].seq
    <3> HIDE DEF page, S, seen
    <3>1. \A i \in 1..Len(seen) : seen[i].seq \in Nat
      BY <2>1 DEF Event
    <3> QED BY <1>3, <1>4, <1>7, <1>9, <3>1
  <2>3. ASSUME NEW i \in 1..Len(seen \o page), NEW j \in 1..Len(seen \o page), i # j
        PROVE  (seen \o page)[i].seq # (seen \o page)[j].seq
    <3> HIDE DEF page, S, seen
    <3>1. \/ i \in 1..Len(seen) /\ (seen \o page)[i] = seen[i]
          \/ i - Len(seen) \in 1..Len(page) /\ (seen \o page)[i] = page[i - Len(seen)] /\ i > Len(seen)
      BY <1>3, <1>6, <2>1
    <3>2. \/ j \in 1..Len(seen) /\ (seen \o page)[j] = seen[j]
          \/ j - Len(seen) \in 1..Len(page) /\ (seen \o page)[j] = page[j - Len(seen)] /\ j > Len(seen)
      BY <1>3, <1>6, <2>1
    <3>3. i - Len(seen) # j - Len(seen)
      BY <1>6, <1>3, <2>1, <2>3
    <3> QED BY <1>4, <1>8, <2>2, <2>3, <3>1, <3>2, <3>3
  <2> QED BY <2>3
<1>11. ASSUME NEW i \in 1..Len(seen)
       PROVE  i \in 1..Len(seen \o page) /\ (seen \o page)[i] = seen[i]
  <2>1. Len(seen) \in Nat
    BY <1>4
  <2> HIDE DEF page, S, seen
  <2> QED BY <1>3, <1>6, <2>1
<1>12. ASSUME NEW m \in 1..Len(page)
       PROVE  Len(seen) + m \in 1..Len(seen \o page) /\ (seen \o page)[Len(seen) + m] = page[m]
  <2>1. Len(seen) \in Nat
    BY <1>4
  <2> HIDE DEF page, S, seen
  <2> QED BY <1>3, <1>6, <2>1
<1>13. ASSUME NEW e \in listing.start, listing'.pc = "done" \/ e.seq >= listing'.cursor
       PROVE  \E i \in 1..Len(seen \o page) : (seen \o page)[i] = e
  <2>1. CASE listing.cursor # 0 /\ e.seq >= listing.cursor
    <3>1. PICK i \in 1..Len(seen) : seen[i] = e
      BY <1>4, <2>1 DEF ListInv
    <3> QED BY <1>11, <3>1
  <2>2. CASE ~ (listing.cursor # 0 /\ e.seq >= listing.cursor)
    <3>1. e \in committed /\ e.seq \in Nat
      BY <1>4 DEF Event
    <3>2. e \in S
      BY <1>4, <2>2, <3>1
    <3>3. PICK n \in 1..Len(rows) : rows[n] = e
      <4> HIDE DEF S
      <4> QED BY <1>2, <3>2 DEF Lists
    <3>4. n \in 1..Len(page)
      <4>1. CASE Len(page) # PageSize
        <5> HIDE DEF page
        <5> QED BY <1>3, <4>1, PagesNotEmpty
      <4>2. CASE Len(page) = PageSize /\ n > PageSize
        <5> HIDE DEF page, S
        <5>1. PageSize \in 1..Len(page) /\ PageSize \in 1..Len(rows)
          BY <1>3, <4>2, PagesNotEmpty
        <5>2. e.seq <= page[PageSize].seq
          BY <1>2, <1>3, <3>3, <4>2, <5>1
        <5>3. e.seq >= page[PageSize].seq
          BY <1>5, <1>13, <4>2
        <5>4. page[PageSize].seq \in Nat /\ page[PageSize] \in committed
          BY <1>7, <5>1
        <5>5. page[PageSize] = e
          BY <3>1, <5>2, <5>3, <5>4 DEF UniqueSeq
        <5>6. page[PageSize] = rows[PageSize] /\ rows[PageSize] # rows[n]
          BY <1>2, <1>3, <4>2, <5>1, PagesNotEmpty DEF Lists
        <5> QED BY <3>3, <5>5, <5>6
      <4> HIDE DEF page, S
      <4>3. Len(rows) \in Nat
        BY <1>2 DEF Lists
      <4> QED BY <1>3, <3>3, <4>1, <4>2, <4>3, PagesNotEmpty
    <3>5. page[n] = e
      <4> HIDE DEF page
      <4> QED BY <1>3, <3>3, <3>4
    <3> QED BY <1>12, <3>4, <3>5
  <2> QED BY <2>1, <2>2
<1>14. listing'.pc = "paging" =>
         /\ listing'.cursor \in Nat \ {0}
         /\ \A i \in 1..Len(seen \o page) : (seen \o page)[i].seq >= listing'.cursor
  <2> SUFFICES ASSUME listing'.pc = "paging"
               PROVE  /\ listing'.cursor \in Nat \ {0}
                      /\ \A i \in 1..Len(seen \o page) : (seen \o page)[i].seq >= listing'.cursor
    OBVIOUS
  <2> HIDE DEF page, S
  <2>1. Len(page) = PageSize /\ listing'.cursor = page[PageSize].seq /\ PageSize \in 1..Len(page)
    BY <1>3, <1>5, PagesNotEmpty
  <2>2. listing'.cursor \in Nat \ {0}
    BY <1>7, <2>1
  <2>3. \A m \in 1..Len(page) : page[m].seq >= page[PageSize].seq
    <3>1. \A m \in 1..Len(page) : m = PageSize \/ m < PageSize
      BY <2>1, PagesNotEmpty
    <3> QED BY <1>2, <1>3, <1>7, <2>1, <3>1
  <2>4. \A i \in 1..Len(seen) : seen[i].seq >= page[PageSize].seq
    <3>1. \A i \in 1..Len(seen) : seen[i] \in Event
      BY <1>4
    <3>2. \A i \in 1..Len(seen) : seen[i].seq \in Nat
      BY <3>1 DEF Event
    <3> QED BY <1>4, <1>7, <1>9, <2>1, <3>2
  <2>5. Len(seen) \in Nat
    BY <1>4
  <2>6. \A i \in 1..Len(seen \o page) :
          \/ i \in 1..Len(seen) /\ (seen \o page)[i] = seen[i]
          \/ i - Len(seen) \in 1..Len(page) /\ (seen \o page)[i] = page[i - Len(seen)]
    <3> HIDE DEF seen
    <3> QED BY <1>3, <1>6, <2>5
  <2> QED BY <2>1, <2>2, <2>3, <2>4, <2>6
<1>15. /\ DOMAIN (seen \o page) = 1..Len(seen \o page)
       /\ ToSet(seen \o page) = {(seen \o page)[i] : i \in 1..Len(seen \o page)}
  <2> HIDE DEF page, seen, S
  <2>1. DOMAIN (seen \o page) = 1..Len(seen \o page)
    BY <1>6
  <2> QED BY <2>1 DEF ToSet
<1> HIDE DEF page, seen, S
<1>16. listing' \in [pc : {"idle", "paging", "done"}, cursor : Nat, seen : Seq(Event), start : SUBSET Event]
  <2>1. listing'.cursor \in Nat
    BY <1>4, <1>5, <1>14
  <2> QED BY <1>4, <1>5, <1>6, <2>1
<1>17. CursorIsComplete'
  <2>1. listing'.pc = "done" => listing'.start \subseteq ToSet(listing'.seen)
    BY <1>5, <1>13, <1>15
  <2>2. \A i, j \in DOMAIN listing'.seen : i # j => listing'.seen[i].seq # listing'.seen[j].seq
    BY <1>5, <1>10, <1>15
  <2> QED BY <2>1, <2>2 DEF CursorIsComplete
<1>18. listing'.pc \in {"paging", "done"}
  BY <1>5
<1>19. \A e \in listing'.start : e.seq >= listing'.cursor =>
         \E i \in 1..Len(listing'.seen) : listing'.seen[i] = e
  BY <1>5, <1>13
<1>20. /\ listing'.start \subseteq committed'
       /\ listing'.pc # "idle" /\ ~ (listing'.cursor = 0 /\ listing'.pc = "paging")
       /\ listing'.pc = "paging" =>
            \A i \in 1..Len(listing'.seen) : listing'.seen[i].seq >= listing'.cursor
  BY <1>4, <1>5, <1>14, <1>18
<1> QED BY <1>16, <1>17, <1>19, <1>20 DEF ListInv

LEMMA ListInvariant ==
  ASSUME Deciders = {}
  PROVE  ReadersSpec => []ListInv
<1>1. ReadersInit => Init /\ ListInv
  BY DEF ReadersInit, ListInv, CursorIsComplete
<1>2. [ReadersNext]_allVars => [Next]_vars
  BY DEF ReadersNext, allVars, vars, StartVerify, VerifyPage, StartList, ListPage
<1>3. ChainInv /\ IdsApart /\ UniqueSeq /\ ListInv /\ [ReadersNext]_allVars => ListInv'
  <2> SUFFICES ASSUME ChainInv, IdsApart, UniqueSeq, ListInv, [ReadersNext]_allVars
               PROVE  ListInv'
    OBVIOUS
  <2>1. [Next]_vars => committed \subseteq committed'
    BY DEF Next, vars, Begin, ReadLast, LockLast, Insert, Commit, Rollback
  <2>2. CASE UNCHANGED listing
    BY <1>2, <2>1, <2>2 DEF ListInv, CursorIsComplete
  <2>3. CASE StartList
    <3>1. /\ listing.seen = << >> /\ listing.pc = "idle" /\ listing.cursor = 0
          /\ listing' = [listing EXCEPT !.pc = "paging", !.start = committed]
          /\ UNCHANGED committed
      BY <2>3 DEF StartList, ListInv, vars
    <3>2. committed \in SUBSET Event
      BY DEF ChainInv, TypeOK
    <3>3. /\ listing'.pc = "paging" /\ listing'.start = committed
          /\ listing'.seen = << >> /\ listing'.cursor = 0
      BY <3>1 DEF ListInv
    <3>4. listing' \in [pc : {"idle", "paging", "done"}, cursor : Nat, seen : Seq(Event), start : SUBSET Event]
      BY <3>1, <3>2 DEF ListInv
    <3>5. CursorIsComplete'
      BY <3>3 DEF CursorIsComplete
    <3> QED BY <3>1, <3>3, <3>4, <3>5 DEF ListInv
  <2>4. CASE ListPage
    BY <2>4, ListPageKeeps
  <2> QED BY <2>2, <2>3, <2>4 DEF ReadersNext, readerVars, StartVerify, VerifyPage, allVars
<1>4. ReadersSpec => Spec
  BY <1>1, <1>2, PTL DEF ReadersSpec, Spec
<1>5. Spec => [](ChainInv /\ IdsApart /\ UniqueSeq)
  BY WholeInvariant, EvaluatorsNeverFork, PTL
<1> QED BY <1>1, <1>3, <1>4, <1>5, PTL DEF ReadersSpec

(* If only evaluations write to the log, a client that follows the cursor   *)
(* has, at its end, every event that was there when it began, and none      *)
(* twice: for every page size and whatever is appended meanwhile.           *)
THEOREM CursorMissesNothing ==
  ASSUME Deciders = {}
  PROVE  ReadersSpec => []CursorIsComplete
<1>1. ListInv => CursorIsComplete
  BY DEF ListInv
<1> QED BY <1>1, ListInvariant, PTL

-------------------------------------------------------------------------------
(* The verification of the chain *)

LEMMA LeastNumber ==
  ASSUME NEW T \in SUBSET Nat, T # {}
  PROVE  \E x \in T : \A y \in T : x <= y
<1> DEFINE Less == {ss \in Nat \X Nat : ss[1] < ss[2]}
<1>1. IsWellFoundedOn(Less, Nat)
  BY NatLessThanWellFounded, Zenon DEF OpToRel
<1>2. PICK x \in T : \A y \in T : ~ (<<y, x>> \in Less)
  <2> HIDE DEF Less
  <2> QED BY <1>1, WFMin
<1>3. \A y \in T : y < x => <<y, x>> \in Less
  OBVIOUS
<1>4. x \in Nat /\ \A y \in T : y \in Nat /\ ~ (y < x)
  <2> HIDE DEF Less
  <2> QED BY <1>2, <1>3
<1> QED BY <1>4

(* A fork at number s leaves more than s rows up to it. *)
LEMMA ForkCounts ==
  ASSUME TypeOK, IsFiniteSet(committed), NoGap,
         NEW e \in committed, NEW f \in committed, e # f, e.seq = f.seq
  PROVE  /\ IsFiniteSet({g \in committed : g.seq <= e.seq})
         /\ Cardinality({g \in committed : g.seq <= e.seq}) >= e.seq + 1
<1> DEFINE T == {g \in committed : g.seq <= e.seq}
           R == T \ {f}
           number == [g \in R |-> g.seq]
<1>1. e.seq \in Nat /\ e.seq >= 1 /\ \A g \in committed : g.seq \in Nat /\ g.seq >= 1
  BY DEF TypeOK, Event
<1>2. IsFiniteSet(T) /\ f \in T
  BY <1>1, FS_Subset
<1>3. IsFiniteSet(R) /\ Cardinality(R) = Cardinality(T) - 1
  <2> HIDE DEF T
  <2> QED BY <1>2, FS_RemoveElement
<1>4. number \in Surjection(R, 1..e.seq)
  <2>1. number \in [R -> 1..e.seq]
    BY <1>1
  <2>2. ASSUME NEW m \in 1..e.seq PROVE \E g \in R : number[g] = m
    <3>1. PICK g \in committed : g.seq = m
      BY DEF NoGap
    <3>2. CASE g = f
      <4>1. e \in R /\ number[e] = m
        BY <1>1, <3>1, <3>2
      <4> QED BY <4>1
    <3>3. CASE g # f
      <4>1. g \in R /\ number[g] = m
        BY <1>1, <3>1, <3>3
      <4> QED BY <4>1
    <3> QED BY <3>2, <3>3
  <2> HIDE DEF R, number
  <2> QED BY <2>1, <2>2 DEF Surjection
<1>5. Cardinality(1..e.seq) = e.seq /\ Cardinality(1..e.seq) <= Cardinality(R)
  <2>1. Cardinality(1..e.seq) = e.seq
    BY <1>1, FS_Interval
  <2> HIDE DEF R, number
  <2> QED BY <2>1, <1>3, <1>4, FS_Surjection
<1>6. Cardinality(T) \in Nat
  <2> HIDE DEF T
  <2> QED BY <1>2, FS_CardinalityType
<1>7. Cardinality(T) >= e.seq + 1
  <2> HIDE DEF T, R
  <2> QED BY <1>1, <1>3, <1>5, <1>6
<1> QED BY <1>2, <1>7

(* So that the row in place s + 1 is not number s + 1. *)
LEMMA ForkShows ==
  ASSUME TypeOK, IsFiniteSet(committed), NoGap,
         NEW e \in committed, NEW f \in committed, e # f, e.seq = f.seq,
         NEW rows, Lists(committed, rows),
         \A m, n \in 1..Len(rows) : m < n => rows[m].seq <= rows[n].seq
  PROVE  e.seq + 1 \in 1..Len(rows) /\ rows[e.seq + 1].seq <= e.seq
<1> DEFINE T == {g \in committed : g.seq <= e.seq}
           s == e.seq
<1>1. s \in Nat /\ s >= 1 /\ \A g \in committed : g.seq \in Nat
  BY DEF TypeOK, Event
<1>2. IsFiniteSet(T) /\ Cardinality(T) >= s + 1 /\ Cardinality(T) \in Nat /\ T \subseteq committed
  <2>1. IsFiniteSet(T) /\ Cardinality(T) >= s + 1
    BY ForkCounts
  <2>2. T \subseteq committed
    OBVIOUS
  <2> HIDE DEF T
  <2> QED BY <2>1, <2>2, FS_CardinalityType
<1>3. s + 1 \in 1..Len(rows)
  <2>1. Cardinality(T) <= Cardinality(committed)
    <3> HIDE DEF T
    <3> QED BY <1>2, FS_Subset
  <2> HIDE DEF T, s
  <2> QED BY <1>1, <1>2, <2>1 DEF Lists
<1>4. ASSUME rows[s + 1].seq > s
      PROVE  FALSE
  <2> DEFINE P == {n \in 1..s : rows[n] \in T}
             row == [n \in P |-> rows[n]]
  <2>1. IsFiniteSet(P) /\ Cardinality(P) <= s
    <3>1. IsFiniteSet(1..s) /\ Cardinality(1..s) = s /\ P \subseteq 1..s
      BY <1>1, FS_Interval
    <3> HIDE DEF P, s
    <3> QED BY <3>1, FS_Subset, ZenonT(30)
  <2>2. ASSUME NEW g \in T PROVE \E n \in P : rows[n] = g
    <3>1. PICK n \in 1..Len(rows) : rows[n] = g
      BY DEF Lists
    <3>2. n \in 1..s
      <4>1. g.seq <= s /\ g.seq \in Nat /\ rows[s + 1].seq \in Nat
        BY <1>1, <1>3 DEF Lists
      <4>2. n <= s + 1 \/ s + 1 < n
        BY <1>1
      <4>3. ~ (s + 1 < n) /\ n # s + 1
        BY <1>1, <1>3, <1>4, <3>1, <4>1
      <4> QED BY <1>1, <3>1, <4>2, <4>3
    <3> QED BY <3>1, <3>2
  <2>3. row \in Surjection(P, T)
    <3>1. row \in [P -> T]
      OBVIOUS
    <3>2. \A g \in T : \E n \in P : row[n] = g
      BY <2>2
    <3> HIDE DEF P, T, row
    <3> QED BY <3>1, <3>2 DEF Surjection
  <2>4. Cardinality(T) <= Cardinality(P) /\ Cardinality(P) \in Nat
    <3> HIDE DEF P, T, row
    <3> QED BY <2>1, <2>3, FS_Surjection, FS_CardinalityType
  <2> HIDE DEF P, T, s
  <2> QED BY <1>1, <1>2, <2>1, <2>4
<1>5. rows[s + 1].seq \in Nat
  BY <1>1, <1>3 DEF Lists
<1> QED BY <1>1, <1>3, <1>4, <1>5

(* Without a fork, the rows are numbered by their places. *)
LEMMA Unforked ==
  ASSUME TypeOK, UniqueSeq, NoGap, NEW rows, Lists(committed, rows),
         \A m, n \in 1..Len(rows) : m < n => rows[m].seq <= rows[n].seq
  PROVE  \A n \in 1..Len(rows) : rows[n].seq = n
<1> DEFINE Off == {n \in 1..Len(rows) : rows[n].seq # n}
<1>1. \A n \in 1..Len(rows) : rows[n] \in committed /\ rows[n].seq \in Nat /\ rows[n].seq >= 1
  BY DEF Lists, TypeOK, Event
<1>2. \A m, n \in 1..Len(rows) : m < n => rows[m].seq < rows[n].seq
  BY <1>1 DEF UniqueSeq, Lists
<1>3. ASSUME Off # {}
      PROVE  FALSE
  <2>1. PICK x \in Off : \A y \in Off : x <= y
    <3>1. Off \in SUBSET Nat
      OBVIOUS
    <3> HIDE DEF Off
    <3> QED BY <1>3, <3>1, LeastNumber
  <2>2. x \in 1..Len(rows) /\ rows[x].seq # x /\ x \in Nat /\ Len(rows) \in Nat
    BY DEF Lists
  <2>3. \A n \in 1..Len(rows) : n < x => rows[n].seq = n
    BY <2>1, <2>2
  <2>4. rows[x].seq > x
    <3>1. CASE x = 1
      BY <1>1, <2>2, <3>1
    <3>2. CASE x > 1
      <4>1. x - 1 \in 1..Len(rows) /\ rows[x - 1].seq = x - 1
        BY <2>2, <2>3, <3>2
      <4>2. rows[x - 1].seq < rows[x].seq
        BY <1>2, <2>2, <4>1
      <4> QED BY <1>1, <2>2, <4>1, <4>2
    <3> QED BY <2>2, <3>1, <3>2
  <2>5. PICK g \in committed : g.seq = x
    <3>1. x \in 1..rows[x].seq
      BY <1>1, <2>2, <2>4
    <3> QED BY <1>1, <2>2, <3>1 DEF NoGap
  <2>6. PICK n \in 1..Len(rows) : rows[n] = g
    BY DEF Lists
  <2>7. n = x \/ n < x \/ x < n
    BY <2>2
  <2> QED BY <1>1, <1>2, <2>2, <2>3, <2>4, <2>5, <2>6, <2>7
<1> QED BY <1>3

(* A committed row that names its predecessor has the number after it.      *)
LEMMA LinkTells ==
  ASSUME ChainInv, IdsApart, NEW r \in committed
  PROVE  /\ r.seq \in Nat /\ r.seq >= 1
         /\ r.prev = NoEvent => r.seq = 1
         /\ \A g \in committed : r.prev = g.id => r.seq = g.seq + 1
<1>1. r \in Event /\ \A g \in committed : g \in Event /\ g.id # NoEvent
  BY NoEventIsNoRow DEF ChainInv, TypeOK, Event
<1>2. \/ r.seq = 1 /\ r.prev = NoEvent
      \/ \E f \in committed : f.id = r.prev /\ r.seq = f.seq + 1
  BY DEF ChainInv, LinksResolve
<1>3. r.seq \in Nat /\ r.seq >= 1
  BY <1>1 DEF Event
<1> QED BY <1>1, <1>2, <1>3 DEF IdsApart

(* Where the walk stands, p is the hash it carries: of the row with the     *)
(* number of rows walked.                                                   *)
Carried(p, total) ==
  IF total = 0 THEN p = NoEvent ELSE \E g \in committed : g.id = p /\ g.seq = total

(* Two rows share a number that the walk has yet to pass. *)
ForkAhead ==
  \E e, f \in committed : e # f /\ e.seq = f.seq /\ verify.total <= e.seq /\ e.seq < VerifyLimit

VerifyInv ==
  /\ verify \in [pc : {"idle", "walking", "valid", "broken"}, offset : Nat,
                 prev : Ids \cup {NoEvent}, total : Nat, forked : BOOLEAN]
  /\ verify.offset = verify.total
  /\ verify.pc = "idle" => verify.total = 0 /\ verify.prev = NoEvent
  /\ verify.pc = "walking" =>
       /\ verify.total <= VerifyLimit /\ verify.total <= Cardinality(committed)
       /\ Carried(verify.prev, verify.total)
       /\ verify.forked => ForkAhead
  /\ VerdictIsRight

(* The rows of a page without a break are numbered on from those before.    *)
LEMMA WalkedInOrder ==
  ASSUME ChainInv, IdsApart, NEW page \in Seq(committed), NEW p, NEW total \in Nat,
         Carried(p, total), \A n \in DOMAIN page : ~Breaks(page, n, p)
  PROVE  \A n \in 1..Len(page) : page[n].seq = total + n
<1> DEFINE Off == {n \in 1..Len(page) : page[n].seq # total + n}
<1>1. Len(page) \in Nat /\ DOMAIN page = 1..Len(page) /\ \A n \in 1..Len(page) : page[n] \in committed
  OBVIOUS
<1>2. ASSUME Off # {}
      PROVE  FALSE
  <2>1. PICK x \in Off : \A y \in Off : x <= y
    <3>1. Off \in SUBSET Nat
      OBVIOUS
    <3> HIDE DEF Off
    <3> QED BY <1>2, <3>1, LeastNumber
  <2>2. x \in 1..Len(page) /\ page[x].seq # total + x /\ x \in Nat /\ page[x] \in committed
    BY <1>1
  <2>3. \A n \in 1..Len(page) : n < x => page[n].seq = total + n
    BY <1>1, <2>1, <2>2
  <2>4. page[x].prev = IF x = 1 THEN p ELSE page[x - 1].id
    BY <1>1, <2>2 DEF Breaks
  <2>5. CASE x = 1 /\ total = 0
    BY <2>2, <2>4, <2>5, LinkTells DEF Carried
  <2>6. CASE x = 1 /\ total # 0
    <3>1. PICK g \in committed : g.id = p /\ g.seq = total
      BY <2>6 DEF Carried
    <3>2. page[x].seq = g.seq + 1
      BY <2>2, <2>4, <2>6, <3>1, LinkTells
    <3> QED BY <2>2, <2>6, <3>1, <3>2
  <2>7. CASE x # 1
    <3>1. x - 1 \in 1..Len(page) /\ page[x - 1].seq = total + (x - 1) /\ page[x - 1] \in committed
      BY <1>1, <2>2, <2>3, <2>7
    <3>2. page[x].seq = page[x - 1].seq + 1
      BY <2>2, <2>4, <2>7, <3>1, LinkTells
    <3> QED BY <2>2, <3>1, <3>2
  <2> QED BY <2>5, <2>6, <2>7
<1> QED BY <1>2

(* A break means a fork. *)
LEMMA BreakMeansFork ==
  ASSUME ChainInv, IdsApart, UniqueSeq, NEW page \in Seq(committed), NEW p, NEW total \in Nat,
         Carried(p, total), \A n \in 1..Len(page) : page[n].seq = total + n
  PROVE  \A n \in DOMAIN page : ~Breaks(page, n, p)
<1>1. Len(page) \in Nat /\ DOMAIN page = 1..Len(page) /\ \A n \in 1..Len(page) : page[n] \in committed
  OBVIOUS
<1>2. ASSUME NEW n \in 1..Len(page)
      PROVE  page[n].prev = IF n = 1 THEN p ELSE page[n - 1].id
  <2>1. page[n] \in committed /\ page[n].seq = total + n /\ n \in Nat /\ n >= 1
    BY <1>1
  <2>2. \/ page[n].seq = 1 /\ page[n].prev = NoEvent
        \/ \E f \in committed : f.id = page[n].prev /\ page[n].seq = f.seq + 1
    BY <2>1 DEF ChainInv, LinksResolve
  <2>3. \A f \in committed : f.seq \in Nat /\ f.seq >= 1
    BY DEF ChainInv, TypeOK, Event
  <2>4. CASE page[n].seq = 1
    <3>1. n = 1 /\ total = 0
      BY <2>1, <2>4
    <3>2. page[n].prev = NoEvent
      BY <2>2, <2>3, <2>4
    <3> QED BY <3>1, <3>2 DEF Carried
  <2>5. CASE page[n].seq # 1
    <3>1. PICK f \in committed : f.id = page[n].prev /\ page[n].seq = f.seq + 1
      BY <2>2, <2>5
    <3>2. f.seq = total + (n - 1)
      <4>1. f.seq \in Nat /\ f.seq + 1 = total + n
        BY <2>1, <2>3, <3>1
      <4> QED BY <2>1, <4>1
    <3>3. CASE n = 1
      <4>1. total # 0 /\ f.seq = total
        BY <2>1, <2>3, <3>2, <3>3
      <4>2. PICK g \in committed : g.id = p /\ g.seq = total
        BY <4>1 DEF Carried
      <4> QED BY <3>1, <3>3, <4>1, <4>2 DEF UniqueSeq
    <3>4. CASE n # 1
      <4>1. n - 1 \in 1..Len(page)
        BY <1>1, <2>1, <3>4
      <4>2. page[n - 1] \in committed /\ page[n - 1].seq = total + (n - 1)
        BY <1>1, <4>1
      <4> QED BY <3>1, <3>2, <3>4, <4>2 DEF UniqueSeq
    <3> QED BY <3>3, <3>4
  <2> QED BY <2>4, <2>5
<1> QED BY <1>1, <1>2 DEF Breaks

LEMMA VerifyPageKeeps ==
  ASSUME ChainInv, IdsApart, NoGap, VerifyInv, VerifyPage
  PROVE  VerifyInv'
<1> DEFINE total == verify.total
           batch == IF VerifyLimit - total < PageSize THEN VerifyLimit - total ELSE PageSize
<1>1. /\ verify.pc = "walking" /\ verify.offset = total /\ total \in Nat
      /\ total <= VerifyLimit /\ total <= Cardinality(committed)
      /\ Carried(verify.prev, total) /\ (verify.forked => ForkAhead)
      /\ UNCHANGED committed
  BY DEF VerifyInv, VerifyPage, vars
<1>2. PICK rows \in Ascending(committed) :
        verify' = [verify EXCEPT
          !.pc = IF \E n \in DOMAIN Page(rows, total, batch) : Breaks(Page(rows, total, batch), n, verify.prev)
                 THEN "broken"
                 ELSE IF LastPage(Page(rows, total, batch), batch) THEN "valid" ELSE "walking",
          !.offset = @ + Len(Page(rows, total, batch)),
          !.prev = Carry(Page(rows, total, batch), @),
          !.total = @ + Len(Page(rows, total, batch))]
  BY <1>1 DEF VerifyPage
<1> DEFINE page == Page(rows, total, batch)
           broken == \E n \in DOMAIN page : Breaks(page, n, verify.prev)
<1>3. Lists(committed, rows) /\ \A m, n \in 1..Len(rows) : m < n => rows[m].seq <= rows[n].seq
  BY AscendingLists DEF IdsApart
<1>4. /\ batch \in Nat /\ batch <= VerifyLimit - total /\ (total < VerifyLimit => batch >= 1)
      /\ VerifyLimit \in Nat
  BY <1>1, PagesNotEmpty
<1>5. /\ page \in Seq(committed) /\ Len(page) \in Nat /\ Len(page) <= batch
      /\ Len(page) < batch => Len(page) = Len(rows) - total
      /\ total + Len(page) <= Len(rows)
      /\ \A m \in 1..Len(page) : total + m \in 1..Len(rows) /\ page[m] = rows[total + m]
  <2> HIDE DEF batch, total
  <2>1. /\ rows \in Seq(committed) /\ Len(rows) \in Nat
        /\ total \in Nat /\ batch \in Nat /\ total <= Len(rows)
    BY <1>1, <1>3, <1>4 DEF Lists
  <2>2. /\ page \in Seq(committed)
        /\ Len(page) = IF total + batch < Len(rows) THEN batch ELSE Len(rows) - total
        /\ \A m \in 1..Len(page) : total + m \in 1..Len(rows) /\ page[m] = rows[total + m]
    BY <2>1, PageIs
  <2> QED BY <1>1, <1>4, <2>1, <2>2, SMTT(30)
<1>6. /\ DOMAIN page = 1..Len(page) /\ \A n \in 1..Len(page) : page[n] \in committed
      /\ page = << >> <=> Len(page) = 0
  <2> HIDE DEF page
  <2> QED BY <1>5
<1>7. /\ verify'.pc = IF broken THEN "broken" ELSE IF LastPage(page, batch) THEN "valid" ELSE "walking"
      /\ verify'.offset = total + Len(page) /\ verify'.total = total + Len(page)
      /\ verify'.prev = Carry(page, verify.prev) /\ verify'.forked = verify.forked
      /\ verify' = [pc |-> verify'.pc, offset |-> verify'.offset, prev |-> verify'.prev,
                    total |-> verify'.total, forked |-> verify'.forked]
      /\ verify.prev \in Ids \cup {NoEvent} /\ verify.forked \in BOOLEAN
  BY <1>1, <1>2 DEF VerifyInv
<1> HIDE DEF page, batch, total, broken
<1>8. ~broken => \A n \in 1..Len(page) : page[n].seq = total + n
  BY <1>1, <1>5, WalkedInOrder DEF broken
<1>9. broken => ~UniqueSeq
  <2> SUFFICES ASSUME UniqueSeq PROVE ~broken
    OBVIOUS
  <2>1. \A n \in 1..Len(rows) : rows[n].seq = n
    BY <1>3, Unforked DEF ChainInv, IdsApart
  <2>2. \A n \in 1..Len(page) : page[n].seq = total + n
    BY <1>5, <2>1
  <2> QED BY <1>1, <1>5, <2>2, BreakMeansFork DEF broken
<1>10. ASSUME ~broken, NEW e \in committed, NEW f \in committed, e # f, e.seq = f.seq,
              total <= e.seq, e.seq < VerifyLimit
       PROVE  total + Len(page) <= e.seq /\ ~LastPage(page, batch)
  <2>1. e.seq + 1 \in 1..Len(rows) /\ rows[e.seq + 1].seq <= e.seq /\ e.seq \in Nat
    <3>1. e.seq + 1 \in 1..Len(rows) /\ rows[e.seq + 1].seq <= e.seq
      BY <1>3, <1>10, ForkShows DEF ChainInv, IdsApart
    <3> QED BY <3>1 DEF ChainInv, TypeOK, Event
  <2>2. ASSUME total + Len(page) > e.seq
        PROVE  FALSE
    <3> DEFINE m == e.seq + 1 - total
    <3>1. m \in 1..Len(page) /\ total + m = e.seq + 1
      BY <1>1, <1>5, <1>10, <2>1, <2>2
    <3>2. page[m] = rows[e.seq + 1] /\ page[m].seq = e.seq + 1
      <4> HIDE DEF m
      <4> QED BY <1>5, <1>8, <1>10, <3>1
    <3> HIDE DEF m
    <3> QED BY <2>1, <3>2
  <2>3. total + Len(page) <= e.seq
    BY <1>1, <1>5, <2>1, <2>2
  <2>4. ~LastPage(page, batch)
    <3>1. batch >= 1 /\ Len(rows) \in Nat
      BY <1>1, <1>3, <1>4, <1>10, <2>1 DEF Lists
    <3>2. LastPage(page, batch) => Len(page) < batch
      BY <1>4, <1>5, <1>6, <3>1 DEF LastPage
    <3>3. Len(page) < batch => FALSE
      BY <1>1, <1>4, <1>5, <2>1, <2>3, <3>1
    <3> QED BY <3>2, <3>3
  <2> QED BY <2>3, <2>4
<1>11. verify'.prev \in Ids \cup {NoEvent}
  <2>1. \A n \in 1..Len(page) : page[n].id \in Ids
    BY <1>6 DEF ChainInv, TypeOK, Event
  <2>2. page # << >> => Len(page) \in 1..Len(page)
    BY <1>5, <1>6
  <2> QED BY <1>7, <2>1, <2>2 DEF Carry
<1>12. verify' \in [pc : {"idle", "walking", "valid", "broken"}, offset : Nat,
                    prev : Ids \cup {NoEvent}, total : Nat, forked : BOOLEAN]
  <2>1. total + Len(page) \in Nat
    BY <1>1, <1>5
  <2> QED BY <1>7, <1>11, <2>1
<1>13. verify'.pc = "walking" =>
         /\ verify'.total <= VerifyLimit /\ verify'.total <= Cardinality(committed')
         /\ Carried(verify.prev, verify.total)'
  <2> SUFFICES ASSUME verify'.pc = "walking"
               PROVE  /\ verify'.total <= VerifyLimit /\ verify'.total <= Cardinality(committed')
                      /\ Carried(verify.prev, verify.total)'
    OBVIOUS
  <2>1. ~broken /\ ~LastPage(page, batch)
    BY <1>7
  <2>2. page # << >> /\ Len(page) \in 1..Len(page)
    BY <1>5, <1>6, <2>1 DEF LastPage
  <2>3. page[Len(page)] \in committed /\ page[Len(page)].seq = total + Len(page)
    BY <1>6, <1>8, <2>1, <2>2
  <2>4. verify'.total # 0 /\ verify'.prev = page[Len(page)].id
    BY <1>1, <1>5, <1>7, <2>2 DEF Carry
  <2>5. Carried(verify.prev, verify.total)'
    BY <1>1, <1>7, <2>3, <2>4 DEF Carried
  <2>6. verify'.total <= VerifyLimit
    BY <1>1, <1>4, <1>5, <1>7
  <2>7. verify'.total <= Cardinality(committed')
    BY <1>1, <1>3, <1>5, <1>7 DEF Lists
  <2> QED BY <2>5, <2>6, <2>7
<1>14. ~broken /\ verify.forked => ForkAhead' /\ verify'.pc = "walking"
  BY <1>1, <1>7, <1>10 DEF ForkAhead, total
<1>15. VerdictIsRight'
  <2>1. verify'.pc = "broken" => broken
    BY <1>7
  <2>2. AlarmIsReal'
    BY <1>1, <1>9, <2>1 DEF AlarmIsReal, UniqueSeq
  <2>3. verify'.pc = "valid" => ~verify'.forked
    BY <1>7, <1>14
  <2> QED BY <2>2, <2>3 DEF VerdictIsRight, ForkIsReported
<1>16. verify'.pc # "idle" /\ (verify'.pc = "walking" => ~broken)
  BY <1>7
<1> QED BY <1>7, <1>12, <1>13, <1>14, <1>15, <1>16 DEF VerifyInv

LEMMA VerifyInvariant == ReadersSpec => []VerifyInv
<1>1. ReadersInit => Init /\ VerifyInv
  <2> SUFFICES ASSUME ReadersInit PROVE VerifyInv
    BY DEF ReadersInit
  <2>1. verify = [pc |-> "idle", offset |-> 0, prev |-> NoEvent, total |-> 0, forked |-> FALSE]
    BY DEF ReadersInit
  <2> QED BY <2>1 DEF VerifyInv, VerdictIsRight, AlarmIsReal, ForkIsReported
<1>2. [ReadersNext]_allVars => [Next]_vars
  BY DEF ReadersNext, allVars, vars, StartVerify, VerifyPage, StartList, ListPage
<1>3. ChainInv /\ IdsApart /\ NoGap /\ VerifyInv /\ [ReadersNext]_allVars /\ IdsApart' => VerifyInv'
  <2> SUFFICES ASSUME ChainInv, IdsApart, NoGap, VerifyInv, [ReadersNext]_allVars, IdsApart'
               PROVE  VerifyInv'
    OBVIOUS
  <2>1. committed \subseteq committed'
    BY <1>2 DEF Next, vars, Begin, ReadLast, LockLast, Insert, Commit, Rollback
  <2>2. /\ Cardinality(committed) <= Cardinality(committed')
        /\ Cardinality(committed) \in Nat /\ Cardinality(committed') \in Nat
    <3>1. IsFiniteSet(committed) /\ IsFiniteSet(committed')
      BY DEF IdsApart
    <3> QED BY <2>1, <3>1, FS_Subset, FS_CardinalityType
  <2>3. CASE UNCHANGED verify
    <3>1. verify.pc = "walking" => verify.total <= Cardinality(committed')
      BY <2>2 DEF VerifyInv
    <3>2. Carried(verify.prev, verify.total) => Carried(verify.prev, verify.total)'
      BY <2>1, <2>3 DEF Carried
    <3>3. ForkAhead => ForkAhead'
      BY <2>1, <2>3 DEF ForkAhead
    <3>4. VerdictIsRight'
      BY <2>1, <2>3 DEF VerifyInv, VerdictIsRight, AlarmIsReal, ForkIsReported
    <3> QED BY <2>3, <3>1, <3>2, <3>3, <3>4 DEF VerifyInv
  <2>4. CASE StartVerify
    <3>1. /\ verify.pc = "idle" /\ UNCHANGED committed
          /\ verify' = [verify EXCEPT !.pc = "walking", !.forked = ForkWithin(committed, VerifyLimit)]
      BY <2>4 DEF StartVerify, vars
    <3>2. /\ verify'.pc = "walking" /\ verify'.total = 0 /\ verify'.offset = 0 /\ verify'.prev = NoEvent
          /\ verify'.forked = ForkWithin(committed, VerifyLimit)
      BY <3>1 DEF VerifyInv
    <3>3. ForkWithin(committed, VerifyLimit) \in BOOLEAN
      BY DEF ForkWithin
    <3>4. verify' \in [pc : {"idle", "walking", "valid", "broken"}, offset : Nat,
                       prev : Ids \cup {NoEvent}, total : Nat, forked : BOOLEAN]
      BY <3>1, <3>3 DEF VerifyInv
    <3>5. verify'.forked => ForkAhead'
      <4> SUFFICES ASSUME ForkWithin(committed, VerifyLimit) PROVE ForkAhead'
        BY <3>2
      <4>1. PICK e, f \in committed :
              e # f /\ e.seq = f.seq /\ Cardinality({g \in committed : g.seq <= e.seq}) <= VerifyLimit
        BY DEF ForkWithin
      <4>2. /\ IsFiniteSet({g \in committed : g.seq <= e.seq})
            /\ Cardinality({g \in committed : g.seq <= e.seq}) >= e.seq + 1
        BY <4>1, ForkCounts DEF ChainInv, IdsApart
      <4>3. Cardinality({g \in committed : g.seq <= e.seq}) \in Nat
        BY <4>2, FS_CardinalityType
      <4>4. e.seq \in Nat
        BY DEF ChainInv, TypeOK, Event
      <4>5. e.seq < VerifyLimit
        BY <4>1, <4>2, <4>3, <4>4, PagesNotEmpty
      <4> QED BY <3>1, <3>2, <4>1, <4>4, <4>5 DEF ForkAhead
    <3>6. verify'.total <= VerifyLimit /\ verify'.total <= Cardinality(committed')
      BY <2>2, <3>2, PagesNotEmpty
    <3>7. Carried(verify.prev, verify.total)' /\ VerdictIsRight'
      BY <3>2 DEF Carried, VerdictIsRight, AlarmIsReal, ForkIsReported
    <3> QED BY <3>2, <3>4, <3>5, <3>6, <3>7 DEF VerifyInv
  <2>5. CASE VerifyPage
    BY <2>5, VerifyPageKeeps
  <2> QED BY <2>3, <2>4, <2>5 DEF ReadersNext, readerVars, StartList, ListPage, allVars
<1>4. ReadersSpec => Spec
  BY <1>1, <1>2, PTL DEF ReadersSpec, Spec
<1> QED BY <1>1, <1>3, <1>4, WholeInvariant, PTL DEF ReadersSpec

(* For any writers and events and every page size, however the rows of a    *)
(* fork are ordered and whatever is appended between two pages: the         *)
(* verification reports a break only where the log has forked, and it never *)
(* calls valid a chain that had forked, within its limit, when it began.    *)
THEOREM VerdictStands == ReadersSpec => []VerdictIsRight
<1>1. VerifyInv => VerdictIsRight
  BY DEF VerifyInv
<1> QED BY <1>1, VerifyInvariant, PTL

===============================================================================
