------------------------------ MODULE AuditChain ------------------------------
(***************************************************************************)
(* The hash-chained audit log of one organisation: create_audit_event and  *)
(* get_last_audit_event of services/audit_service.py, run by database      *)
(* transactions of two kinds.                                              *)
(*                                                                         *)
(*   Evaluators  POST /v1/evaluate.  It updates the organizations row      *)
(*               before it appends its event, and so holds that row's lock *)
(*               until its transaction ends.                               *)
(*   Deciders    every other writer: approval decisions and escalations,   *)
(*               the reminder activity, member changes.  They append       *)
(*               without touching the organizations row.                   *)
(*                                                                         *)
(* PostgreSQL runs at READ COMMITTED.  A statement sees the rows committed *)
(* when it starts; SELECT ... FOR UPDATE then waits for the row it picked, *)
(* and returns that same row if the previous holder did not modify it.     *)
(* Audit rows are never updated, so a writer that waited returns the row   *)
(* it picked BEFORE it waited.  This is what the two steps ReadLast and    *)
(* LockLast of SelectLast are for.                                         *)
(*                                                                         *)
(* SHA-256 is taken to be free of collisions: an entry hash is represented *)
(* by the identity of the event it was computed for.  (Two events of a     *)
(* fork with the same type, payload and predecessor share a hash in the    *)
(* code and are kept apart here: a successor of both is one of either.)    *)
(***************************************************************************)
EXTENDS Naturals, FiniteSets

CONSTANTS
  Evaluators,   \* transactions that hold the organizations row
  Deciders,     \* transactions that do not
  Ids,          \* event identities (uuid4) and their entry hashes
  NoEvent       \* "no row": last_event = None, prev_hash = NULL

ASSUME WritersDisjoint == Evaluators \cap Deciders = {}

Writers == Evaluators \cup Deciders

Event == [id : Ids, seq : Nat \ {0}, prev : Ids \cup {NoEvent}]

ASSUME NoEventIsNoRow == NoEvent \notin Ids \cup Event

(***************************************************************************)
(* A writer is "idle", or in a transaction: "open" before the SELECT of    *)
(* get_last_audit_event, "queued" when its statement has picked a row and  *)
(* waits for its lock, "locked" when the SELECT has returned, "inserted"   *)
(* after the flush of the new event.                                       *)
(***************************************************************************)
Phase == {"idle", "open", "queued", "locked", "inserted"}

VARIABLES
  committed,    \* the committed audit rows of the organisation
  phase,        \* phase[w]
  last,         \* last[w]: the row last_event, or NoEvent
  draft         \* draft[w]: the row w has inserted and not committed, or NoEvent

vars == <<committed, phase, last, draft>>

TypeOK ==
  /\ committed \subseteq Event
  /\ phase \in [Writers -> Phase]
  /\ last \in [Writers -> Event \cup {NoEvent}]
  /\ draft \in [Writers -> Event \cup {NoEvent}]

Init ==
  /\ committed = {}
  /\ phase = [w \in Writers |-> "idle"]
  /\ last = [w \in Writers |-> NoEvent]
  /\ draft = [w \in Writers |-> NoEvent]

-------------------------------------------------------------------------------
(* Row locks.  The organizations row belongs to the evaluator that is in a *)
(* transaction; an audit row to the writer whose SELECT FOR UPDATE         *)
(* returned it.                                                            *)

HoldsOrgRow(w) == w \in Evaluators /\ phase[w] # "idle"

HoldsRow(w, e) == phase[w] \in {"locked", "inserted"} /\ last[w] = e

(* ORDER BY sequence_num DESC LIMIT 1: any of the rows with the highest number. *)
LastRows == {e \in committed : \A f \in committed : f.seq <= e.seq}

FreeIds ==
  Ids \ ({e.id : e \in committed}
           \cup {draft[w].id : w \in {v \in Writers : draft[v] # NoEvent}})

(* Variants: the chain is not linked; the numbers start at 0. *)
NewEventUnchained(i, e) ==
  [id |-> i, seq |-> IF e = NoEvent THEN 1 ELSE e.seq + 1, prev |-> NoEvent]

NewEventFromZero(i, e) ==
  [id |-> i,
   seq |-> IF e = NoEvent THEN 0 ELSE e.seq + 1,
   prev |-> IF e = NoEvent THEN NoEvent ELSE e.id]

(* The event create_audit_event builds on the row it read. *)
NewEvent(i, e) ==
  [id |-> i,
   seq |-> IF e = NoEvent THEN 1 ELSE e.seq + 1,
   prev |-> IF e = NoEvent THEN NoEvent ELSE e.id]

(* Back to "idle": the transaction has ended and its locks are released. *)
EndTransaction(w) ==
  /\ phase' = [phase EXCEPT ![w] = "idle"]
  /\ last' = [last EXCEPT ![w] = NoEvent]
  /\ draft' = [draft EXCEPT ![w] = NoEvent]

-------------------------------------------------------------------------------
(* A handler gets a session.  For an evaluator this step includes the      *)
(* UPDATE organizations ... SET eval_count of evaluate(), which waits for  *)
(* any other evaluator of the organisation to end its transaction.         *)

BeginUnserialised(w) ==
  /\ phase[w] = "idle"
  /\ phase' = [phase EXCEPT ![w] = "open"]
  /\ UNCHANGED <<committed, last, draft>>

Begin(w) ==
  /\ phase[w] = "idle"
  /\ w \in Evaluators => \A v \in Evaluators : ~HoldsOrgRow(v)
  /\ phase' = [phase EXCEPT ![w] = "open"]
  /\ UNCHANGED <<committed, last, draft>>

(* SELECT ... ORDER BY sequence_num DESC LIMIT 1 FOR UPDATE picks its row  *)
(* in the statement's snapshot.  With no row there is nothing to lock.     *)
ReadLast(w) ==
  /\ phase[w] = "open"
  /\ \/ /\ committed = {}
        /\ phase' = [phase EXCEPT ![w] = "locked"]
        /\ UNCHANGED last
     \/ \E e \in LastRows :
          /\ phase' = [phase EXCEPT ![w] = "queued"]
          /\ last' = [last EXCEPT ![w] = e]
  /\ UNCHANGED <<committed, draft>>

(* The lock of the picked row is granted. *)
LockLast(w) ==
  /\ phase[w] = "queued"
  /\ \A v \in Writers : ~HoldsRow(v, last[w])
  /\ phase' = [phase EXCEPT ![w] = "locked"]
  /\ UNCHANGED <<committed, last, draft>>

(* A variant that takes the organizations row after the audit row. *)
InsertUnderOrgRow(w) ==
  /\ phase[w] = "locked"
  /\ \A v \in Writers \ {w} : ~HoldsOrgRow(v)
  /\ \E i \in FreeIds : draft' = [draft EXCEPT ![w] = NewEvent(i, last[w])]
  /\ phase' = [phase EXCEPT ![w] = "inserted"]
  /\ UNCHANGED <<committed, last>>

(* session.add(event); flush. *)
Insert(w) ==
  /\ phase[w] = "locked"
  /\ \E i \in FreeIds : draft' = [draft EXCEPT ![w] = NewEvent(i, last[w])]
  /\ phase' = [phase EXCEPT ![w] = "inserted"]
  /\ UNCHANGED <<committed, last>>

(* get_session commits when the handler has returned. *)
Commit(w) ==
  /\ phase[w] = "inserted"
  /\ committed' = committed \cup {draft[w]}
  /\ EndTransaction(w)

(* The handler raised, the process died or the connection was lost. *)
Rollback(w) ==
  /\ phase[w] # "idle"
  /\ EndTransaction(w)
  /\ UNCHANGED committed

Next ==
  \E w \in Writers :
    \/ Begin(w)
    \/ ReadLast(w)
    \/ LockLast(w)
    \/ Insert(w)
    \/ Commit(w)
    \/ Rollback(w)

(***************************************************************************)
(* A handler that has started runs to its end, one way or the other, and   *)
(* PostgreSQL queues the waiters of a row lock, so that a waiter whose     *)
(* lock becomes free again and again gets it.  Nothing makes a client send *)
(* a request: Begin is not fair.                                           *)
(***************************************************************************)
Finish(w) ==
  \/ Insert(w)
  \/ Commit(w)
  \/ phase[w] = "locked" /\ FreeIds = {} /\ Rollback(w)   \* the bound on Ids

Fairness ==
  \A w \in Writers :
    /\ WF_vars(ReadLast(w))
    /\ SF_vars(LockLast(w))
    /\ WF_vars(Finish(w))

Spec == Init /\ [][Next]_vars

FairSpec == Spec /\ Fairness

-------------------------------------------------------------------------------
(* Properties *)

(* get_last_audit_event claims to prevent duplicate sequence numbers: no   *)
(* two committed events of the organisation carry the same number.         *)
UniqueSeq == \A e, f \in committed : e.seq = f.seq => e = f

(* The same claim where there is a row to lock: SELECT FOR UPDATE on the   *)
(* last event serialises the writers behind it, so that no two events are  *)
(* chained to the same one.                                                *)
OneSuccessor ==
  \A e, f \in committed : e.prev = f.prev /\ e.prev # NoEvent => e = f

(* Whatever the interleaving, and across rollbacks, every committed event  *)
(* is either a first event or is chained to a committed event that carries *)
(* the number before its own: the log has no gap and no dangling prev_hash,*)
(* even where it forks.                                                    *)
LinksResolve ==
  \A e \in committed :
    \/ e.seq = 1 /\ e.prev = NoEvent
    \/ \E f \in committed : f.id = e.prev /\ e.seq = f.seq + 1

(* No transaction is left waiting for the audit row: a handler whose       *)
(* SELECT FOR UPDATE queues is eventually over.                            *)
WritersFinish == \A w \in Writers : phase[w] = "queued" ~> phase[w] = "idle"

(* The log an auditor sees: the committed events by sequence number, with  *)
(* NoEvent where a number is missing or is taken twice.                    *)
LogView ==
  [n \in 1..Cardinality(committed) |->
     LET numbered == {e \in committed : e.seq = n}
     IN  IF Cardinality(numbered) = 1 THEN (CHOOSE e \in numbered : TRUE).id ELSE NoEvent]

Log == INSTANCE AuditLog WITH Entries <- Ids, log <- LogView

(* With evaluators only, the audit rows implement the append-only log. *)
ImplementsLog == Log!Spec
===============================================================================
