----------------------------- MODULE EventStream -----------------------------
(***************************************************************************)
(* The events of evaluations that one worker process sends to its          *)
(* dashboards: a bounded queue for each websocket (routes/stream.py and    *)
(* services/stream_service.py).  All of it runs on one event loop, and     *)
(* publishing does not await.                                              *)
(***************************************************************************)
EXTENDS Naturals, Sequences, SequencesExt, FiniteSets

CONSTANTS
  Sockets,       \* the websockets
  QueueSize,     \* _MAX_QUEUE_SIZE
  MaxEvents      \* bound: how many evaluations there are

ASSUME StreamAssumption ==
  IsFiniteSet(Sockets) /\ QueueSize \in Nat \ {0} /\ MaxEvents \in Nat

VARIABLES
  published,     \* the events so far: who listened to each, whose queue was full
  subscribers,   \* the sockets in _subscribers, oldest first
  queue,         \* queue[s]: the numbers of the events in the queue of s
  socket         \* socket[s]: where its handler is, and what it has sent

streamVars == <<published, subscribers, queue, socket>>

SocketPlaces == {"new", "subscribed", "waiting", "sending", "closed", "refused"}

StreamTypeOK ==
  /\ published \in Seq([hear : SUBSET Sockets, full : SUBSET Sockets])
  /\ subscribers \in Seq(Sockets)
  /\ queue \in [Sockets -> Seq(1..MaxEvents)]
  /\ socket \in [Sockets -> [pc : SocketPlaces, there : BOOLEAN, held : Seq(1..MaxEvents),
                         sent : Seq(1..MaxEvents)]]

StreamInit ==
  /\ published = <<>> /\ subscribers = <<>>
  /\ queue = [s \in Sockets |-> <<>>]
  /\ socket = [s \in Sockets |-> [pc |-> "new", there |-> TRUE, held |-> <<>>,
                                sent |-> <<>>]]

(* A token that is missing, unknown or without the scope closes the socket. *)
RefuseSocket(s) ==
  /\ socket[s].pc = "new"
  /\ socket' = [socket EXCEPT ![s].pc = "refused"]
  /\ UNCHANGED <<published, subscribers, queue>>

Subscribe(s) ==
  /\ socket[s].pc = "new"
  /\ socket' = [socket EXCEPT ![s].pc = "subscribed"]
  /\ subscribers' = Append(subscribers, s)
  /\ UNCHANGED <<published, queue>>

(* An accept that fails is outside the try block: the queue stays.         *)
Accept(s) ==
  /\ socket[s].pc = "subscribed"
  /\ socket' = [socket EXCEPT ![s].pc = IF socket[s].there THEN "waiting" ELSE "closed"]
  /\ UNCHANGED <<published, subscribers, queue>>

Full(s) == Len(queue[s]) >= QueueSize

(* The handler of s has subscribed, and has not come to its end.           *)
Listens(s) == socket[s].pc \in {"subscribed", "waiting", "sending"}

(* A variant that gives up at the first queue that is full. *)
HearersUntilFull ==
  LET full == {i \in DOMAIN subscribers : Full(subscribers[i])}
  IN  {subscribers[i] : i \in {j \in DOMAIN subscribers : \A k \in full : j < k}}

(* Every queue with room gets the event. *)
Hearers == {s \in Sockets : Contains(subscribers, s) /\ ~Full(s)}

Publish ==
  /\ Len(published) < MaxEvents
  /\ published' = Append(published, [hear |-> {s \in Sockets : Listens(s)},
                                     full |-> {s \in Sockets : Full(s)}])
  /\ queue' = [s \in Sockets |-> IF s \in Hearers THEN Append(queue[s], Len(published) + 1)
                                 ELSE queue[s]]
  /\ UNCHANGED <<subscribers, socket>>

(* queue.get *)
GetEvent(s) ==
  /\ socket[s].pc = "waiting" /\ queue[s] # <<>>
  /\ queue' = [queue EXCEPT ![s] = Tail(@)]
  /\ socket' = [socket EXCEPT ![s].pc = "sending", ![s].held = <<Head(queue[s])>>]
  /\ UNCHANGED <<published, subscribers>>

(* subscribers.remove *)
Unsubscribed(s) == RemoveFirst(subscribers, s)

(* send_json; a client that has left is noticed here and nowhere else. *)
Send(s) ==
  /\ socket[s].pc = "sending"
  /\ IF socket[s].there
     THEN /\ socket' = [socket EXCEPT ![s].pc = "waiting", ![s].held = <<>>,
                                      ![s].sent = @ \o socket[s].held]
          /\ UNCHANGED subscribers
     ELSE /\ socket' = [socket EXCEPT ![s].pc = "closed"]
          /\ subscribers' = Unsubscribed(s)
  /\ UNCHANGED <<published, queue>>

(* The client closes, or the connection breaks. *)
Leaves(s) ==
  /\ socket[s].there /\ socket[s].pc \in {"subscribed", "waiting", "sending"}
  /\ socket' = [socket EXCEPT ![s].there = FALSE]
  /\ UNCHANGED <<published, subscribers, queue>>

StreamNext ==
  \/ Publish
  \/ \E s \in Sockets :
       \/ RefuseSocket(s) \/ Subscribe(s) \/ Accept(s)
       \/ GetEvent(s) \/ Send(s) \/ Leaves(s)

StreamSpec == StreamInit /\ [][StreamNext]_streamVars

-------------------------------------------------------------------------------
(* Properties *)

(* The events that were published while s listened and its queue had room. *)
Meant(s) == {i \in DOMAIN published : s \in published[i].hear \ published[i].full}

(* What s has been sent, what its handler holds, and what waits.           *)
Heard(s) == socket[s].sent \o socket[s].held \o queue[s]

(* A dashboard that stays hears every event once and in order, but those   *)
(* for which its own queue was full: a slow one costs no other an event.   *)
StreamsAreWhole ==
  \A s \in Sockets :
    socket[s].there =>
      /\ \A i, j \in DOMAIN Heard(s) : i < j => Heard(s)[i] < Heard(s)[j]
      /\ Range(Heard(s)) = Meant(s)
===============================================================================
