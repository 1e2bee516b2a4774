------------------------------ MODULE CedarPool ------------------------------
(***************************************************************************)
(* The pool of Cedar worker processes (packages/agr-core/policy_engine.py, *)
(* CedarProcessPool).                                                      *)
(*                                                                         *)
(* Threads share the pool: a semaphore and a queue of indices give each of *)
(* them a worker of its own, a lock covers the replacement of a worker and *)
(* the closing of the pool, and all else runs without a lock.  A worker is *)
(* a process that reads one line and writes one line; it may die at any    *)
(* time.  Processes are numbered in the order in which they are started.   *)
(*                                                                         *)
(* Bound: MaxSpawns processes in the life of the pool.                     *)
(***************************************************************************)
EXTENDS Naturals, FiniteSets

CONSTANTS
  Threads,       \* the callers of execute; the payload of each is itself
  Size,          \* the workers of the pool
  MaxSpawns,
  NoThread       \* no payload, or no answer

ASSUME PoolAssumption ==
  /\ IsFiniteSet(Threads) /\ NoThread \notin Threads
  /\ Size \in Nat \ {0}
  /\ MaxSpawns \in Nat /\ MaxSpawns >= Size

VARIABLES
  free,          \* _available
  permits,       \* _semaphore
  worker,        \* worker[i]: the process at index i of _workers
  shut,          \* "open", "closing" once _workers is emptied, or "closed"
  doomed,        \* the processes close has still to terminate
  spawned,       \* how many processes have been started
  alive,         \* the processes that run
  pipe,          \* pipe[p]: the request in, and the answer waiting in, its pipes
  thread         \* thread[t]: where it is, the index and process it holds, its result

poolVars == <<free, permits, worker, shut, doomed, spawned, alive, pipe, thread>>

Slots == 1..Size
Procs == 1..MaxSpawns
Nil == 0         \* no index, or no process
Payloads == Threads \cup {NoThread}

Places == {"idle", "waiting", "queued", "holding", "checked", "found_dead", "writing",
           "reading", "saw_it_die", "leaving", "done"}

PoolTypeOK ==
  /\ free \subseteq Slots
  /\ permits \in 0..Size
  /\ worker \in [Slots -> Procs \cup {Nil}]
  /\ shut \in {"open", "closing", "closed"}
  /\ doomed \subseteq Procs
  /\ spawned \in 0..MaxSpawns
  /\ alive \subseteq 1..spawned
  /\ pipe \in [Procs -> [request : Payloads, answer : Payloads]]
  /\ thread \in [Threads -> [pc : Places, slot : Slots \cup {Nil},
                             proc : Procs \cup {Nil}, result : Payloads]]

(* __init__ starts a process for each index. *)
PoolInit ==
  /\ free = Slots /\ permits = Size
  /\ worker = [i \in Slots |-> i]
  /\ shut = "open" /\ doomed = {}
  /\ spawned = Size /\ alive = Slots
  /\ pipe = [p \in Procs |-> [request |-> NoThread, answer |-> NoThread]]
  /\ thread = [t \in Threads |-> [pc |-> "idle", slot |-> Nil, proc |-> Nil,
                                  result |-> NoThread]]

At(t, place) == thread[t].pc = place
GoTo(t, place) == thread' = [thread EXCEPT ![t].pc = place]

(* What most steps of a thread leave alone. *)
processVars == <<worker, spawned, alive, shut, doomed>>
-------------------------------------------------------------------------------
(* execute *)

(* A closed pool refuses at once; nothing looks at _closed again.          *)
Enter(t) ==
  /\ At(t, "idle")
  /\ GoTo(t, IF shut = "open" THEN "waiting" ELSE "done")
  /\ UNCHANGED <<free, permits, pipe, processVars>>

Acquire(t) ==
  /\ At(t, "waiting") /\ permits > 0
  /\ permits' = permits - 1
  /\ GoTo(t, "queued")
  /\ UNCHANGED <<free, pipe, processVars>>

Get(t) ==
  /\ At(t, "queued")
  /\ \E i \in free :
       /\ free' = free \ {i}
       /\ thread' = [thread EXCEPT ![t].pc = "holding", ![t].slot = i]
  /\ UNCHANGED <<permits, pipe, processVars>>

(* A variant without the `finally`: who raises keeps its index and permit. *)
PastFinally == "done"

(* Where an exception takes a thread: to the `finally` of execute.         *)
Raised == "leaving"

(* self._workers[index]: an IndexError when close has emptied the list.    *)
Look(t) ==
  /\ At(t, "holding")
  /\ LET p == worker[thread[t].slot] IN
       thread' = [thread EXCEPT ![t].pc = IF p = Nil THEN Raised ELSE "checked",
                                ![t].proc = p]
  /\ UNCHANGED <<free, permits, pipe, processVars>>

Check(t) ==
  /\ At(t, "checked")
  /\ GoTo(t, IF thread[t].proc \in alive THEN "writing" ELSE "found_dead")
  /\ UNCHANGED <<free, permits, pipe, processVars>>

Spawn(i) ==
  /\ spawned < MaxSpawns
  /\ spawned' = spawned + 1
  /\ alive' = (alive \ {worker[i]}) \cup {spawned + 1}
  /\ worker' = [worker EXCEPT ![i] = spawned + 1]
  /\ UNCHANGED <<shut, doomed>>

(* A variant of which close keeps the list, so that the lookup succeeds.   *)
ReplaceInClosed(i) == Spawn(i)

(* _replace_worker terminates the old process and starts another, all under *)
(* the lock that close takes to empty the list.                            *)
ReplaceWorker(i) == worker[i] # Nil /\ Spawn(i)

ReplaceBefore(t) ==
  /\ At(t, "found_dead")
  /\ ReplaceWorker(thread[t].slot)
  /\ thread' = [thread EXCEPT ![t].pc = "writing", ![t].proc = spawned']
  /\ UNCHANGED <<free, permits, pipe>>

ReplaceAfter(t) ==
  /\ At(t, "saw_it_die")
  /\ ReplaceWorker(thread[t].slot)
  /\ GoTo(t, "leaving")
  /\ UNCHANGED <<free, permits, pipe>>

(* The list is empty, or the process cannot be started. *)
ReplaceRaises(t) ==
  /\ At(t, "found_dead") \/ At(t, "saw_it_die")
  /\ GoTo(t, Raised)
  /\ UNCHANGED <<free, permits, pipe, processVars>>

(* A process that has died since it was checked breaks the pipe.           *)
Write(t) ==
  /\ At(t, "writing")
  /\ LET p == thread[t].proc IN
       IF p \in alive
       THEN GoTo(t, "reading") /\ pipe' = [pipe EXCEPT ![p].request = t]
       ELSE GoTo(t, Raised) /\ UNCHANGED pipe
  /\ UNCHANGED <<free, permits, processVars>>

(* readline blocks until there is a line, or the process has gone.         *)
Readable(p) == pipe[p].answer # NoThread \/ p \notin alive

(* The line decides, unless it reports an error.  At the end of the output  *)
(* the process is replaced only when its exit can be seen already.         *)
Read(t) ==
  /\ At(t, "reading")
  /\ LET p == thread[t].proc IN
       /\ Readable(p)
       /\ IF pipe[p].answer # NoThread
          THEN /\ \E r \in {pipe[p].answer, NoThread} :
                    thread' = [thread EXCEPT ![t].pc = "leaving", ![t].result = r]
               /\ pipe' = [pipe EXCEPT ![p].answer = NoThread]
          ELSE /\ \/ p \notin alive /\ GoTo(t, "saw_it_die")
                  \/ GoTo(t, "leaving")
               /\ UNCHANGED pipe
  /\ UNCHANGED <<free, permits, processVars>>

(* finally: the index goes back before the permit does.                    *)
Leave(t) ==
  /\ At(t, "leaving")
  /\ free' = IF thread[t].slot = Nil THEN free ELSE free \cup {thread[t].slot}
  /\ permits' = permits + 1
  /\ thread' = [thread EXCEPT ![t].pc = "done", ![t].slot = Nil, ![t].proc = Nil]
  /\ UNCHANGED <<pipe, processVars>>

-------------------------------------------------------------------------------
(* The workers, and close *)

(* _cedar_worker_main: one line in, cedar within 5 seconds, one line out.  *)
Answer(p) ==
  /\ p \in alive /\ pipe[p].request # NoThread
  /\ pipe' = [pipe EXCEPT ![p] = [request |-> NoThread, answer |-> pipe[p].request]]
  /\ UNCHANGED <<free, permits, thread, processVars>>

(* What it has written can still be read. *)
Die(p) ==
  /\ p \in alive
  /\ alive' = alive \ {p}
  /\ pipe' = [pipe EXCEPT ![p].request = NoThread]
  /\ UNCHANGED <<free, permits, thread, worker, spawned, shut, doomed>>

Close ==
  /\ shut = "open"
  /\ shut' = "closing"
  /\ doomed' = {worker[i] : i \in Slots}
  /\ worker' = [i \in Slots |-> Nil]
  /\ UNCHANGED <<free, permits, thread, pipe, spawned, alive>>

Terminate ==
  /\ shut = "closing"
  /\ \/ \E p \in doomed :
          /\ doomed' = doomed \ {p}
          /\ alive' = alive \ {p}
          /\ pipe' = [pipe EXCEPT ![p].request = NoThread]
          /\ UNCHANGED shut
     \/ doomed = {} /\ shut' = "closed" /\ UNCHANGED <<doomed, alive, pipe>>
  /\ UNCHANGED <<free, permits, thread, worker, spawned>>

Step(t) ==
  \/ Acquire(t) \/ Get(t) \/ Look(t) \/ Check(t)
  \/ ReplaceBefore(t) \/ ReplaceAfter(t) \/ ReplaceRaises(t)
  \/ Write(t) \/ Read(t) \/ Leave(t)

PoolNext ==
  \/ \E t \in Threads : Enter(t) \/ Step(t)
  \/ \E p \in Procs : Answer(p) \/ Die(p)
  \/ Close \/ Terminate

PoolSpec == PoolInit /\ [][PoolNext]_poolVars

(* Threads run, and a worker answers or its cedar times out; nobody has to  *)
(* make a call or to close the pool.                                       *)
PoolFairness ==
  /\ \A t \in Threads : WF_poolVars(Step(t))
  /\ \A p \in Procs : WF_poolVars(Answer(p))
  /\ WF_poolVars(Terminate)

-------------------------------------------------------------------------------
(* Properties *)

(* A caller gets the decision on its own request, never what a worker wrote *)
(* for the caller that had it before, whoever died or gave up in between.  *)
OwnAnswer == \A t \in Threads : thread[t].result \in {t, NoThread}

(* A pool that has been closed leaves no process behind, also when a thread *)
(* replaces a worker while the pool is being closed.                       *)
NoWorkerOutlives == shut = "closed" => alive = {}

(* What callers may rely on, while the pool runs and after it is closed.   *)
PoolKeepsOrder == OwnAnswer /\ NoWorkerOutlives

(* A permit stands for an index: a thread that got one never waits for the *)
(* other, and every call comes to an end.                                  *)
CallsEnd == []<>(\A t \in Threads : At(t, "idle") \/ At(t, "done"))
===============================================================================
