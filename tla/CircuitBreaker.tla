---------------------------- MODULE CircuitBreaker ----------------------------
(***************************************************************************)
(* The circuit breaker in front of Temporal and the calls it lets through  *)
(* (services/temporal_service.py).  There is one per API process.          *)
(*                                                                         *)
(* Its methods hold an asyncio lock and await nothing, so that each is one *)
(* step.  A call - the start of a workflow or a signal, with its three     *)
(* attempts - awaits the network between allow_request and its record, and *)
(* may take longer than the circuit stays open.                            *)
(*                                                                         *)
(* Every call is made once; its failure is recorded at most once, so that  *)
(* the list of failure times is the set of the failed calls it holds.      *)
(***************************************************************************)
EXTENDS Naturals, FiniteSets

CONSTANTS
  Calls,         \* the calls of one process
  Threshold,     \* _CB_FAILURE_THRESHOLD
  FailureWindow, \* _CB_FAILURE_WINDOW_SEC, in ticks
  OpenFor,       \* _CB_OPEN_DURATION_SEC, in ticks
  Horizon        \* the last tick

ASSUME BreakerAssumption ==
  /\ IsFiniteSet(Calls)
  /\ Threshold \in Nat \ {0}
  /\ FailureWindow \in Nat /\ OpenFor \in Nat /\ Horizon \in Nat

VARIABLES
  now,           \* time.monotonic()
  state,         \* _circuit.state
  failures,      \* _circuit.failures: the calls whose failure it holds
  openedAt,      \* _circuit.opened_at
  probing,       \* _circuit.half_open_in_flight
  connected,     \* _client_connected
  call,          \* call[c]: how far call c is
  failedAt,      \* failedAt[c]: when call c failed
  probes         \* the calls let through since the circuit is half open

circuitVars == <<state, failures, openedAt, probing>>
breakerVars == <<now, state, failures, openedAt, probing, connected, call, failedAt, probes>>

Phases == {"idle", "connecting", "calling", "short_circuited", "succeeded", "failed"}

BreakerTypeOK ==
  /\ now \in 0..Horizon
  /\ state \in {"closed", "open", "half_open"}
  /\ failures \subseteq Calls
  /\ openedAt \in 0..Horizon
  /\ probing \in BOOLEAN
  /\ connected \in BOOLEAN
  /\ call \in [Calls -> Phases]
  /\ failedAt \in [Calls -> 0..Horizon]
  /\ probes \subseteq Calls

BreakerInit ==
  /\ now = 0
  /\ state = "closed" /\ failures = {} /\ openedAt = 0 /\ probing = FALSE
  /\ connected = FALSE
  /\ call = [c \in Calls |-> "idle"]
  /\ failedAt = [c \in Calls |-> 0]
  /\ probes = {}

InFlight(c) == call[c] \in {"connecting", "calling"}

-------------------------------------------------------------------------------
(* record_success and record_failure *)

(* A variant that closes an open circuit only. *)
SuccessKeepsHalfOpen ==
  /\ failures' = {}
  /\ state' = IF state = "open" THEN "closed" ELSE state
  /\ UNCHANGED <<openedAt, probing>>

RecordSuccess ==
  /\ failures' = {}
  /\ state' = "closed"
  /\ probing' = IF state = "closed" THEN probing ELSE FALSE
  /\ UNCHANGED openedAt

(* A variant that keeps the time at which the circuit is half open again. *)
TripUntil ==
  /\ state' = "open" /\ openedAt' = now + OpenFor /\ failures' = {}

Trip == state' = "open" /\ openedAt' = now /\ failures' = {}

(* A variant that counts every failure since the last success. *)
AllFailures(c) == failures \cup {c}

(* The failures still in the window, and that of call c. *)
RecentFailures(c) == {f \in failures : now - failedAt[f] <= FailureWindow} \cup {c}

RecordFailure(c) ==
  IF state = "half_open"
  THEN Trip /\ probing' = FALSE
  ELSE /\ IF state = "closed" /\ Cardinality(RecentFailures(c)) >= Threshold
          THEN Trip
          ELSE failures' = RecentFailures(c) /\ UNCHANGED <<state, openedAt>>
       /\ UNCHANGED probing

-------------------------------------------------------------------------------
(* Calls *)

(* _get_client returns the client at once when there is one. *)
Begin(c) == call' = [call EXCEPT ![c] = IF connected THEN "calling" ELSE "connecting"]

AllowClosed(c) ==
  /\ call[c] = "idle" /\ state = "closed"
  /\ Begin(c)
  /\ UNCHANGED <<now, connected, failedAt, probes, circuitVars>>

MayProbe ==
  \/ state = "open" /\ now - openedAt >= OpenFor
  \/ state = "half_open" /\ ~probing

AllowProbe(c) ==
  /\ call[c] = "idle" /\ MayProbe
  /\ state' = "half_open" /\ probing' = TRUE
  /\ probes' = IF state = "half_open" THEN probes \cup {c} ELSE {c}
  /\ Begin(c)
  /\ UNCHANGED <<now, connected, failedAt, failures, openedAt>>

ShortCircuit(c) ==
  /\ call[c] = "idle" /\ state # "closed" /\ ~MayProbe
  /\ call' = [call EXCEPT ![c] = "short_circuited"]
  /\ UNCHANGED <<now, connected, failedAt, probes, circuitVars>>

Connect(c) ==
  /\ call[c] = "connecting"
  /\ connected' = TRUE
  /\ call' = [call EXCEPT ![c] = "calling"]
  /\ UNCHANGED <<now, failedAt, probes, circuitVars>>

(* A connection that fails drops the one another call has made meanwhile.  *)
ConnectFails(c) ==
  /\ call[c] = "connecting"
  /\ connected' = FALSE
  /\ call' = [call EXCEPT ![c] = "failed"]
  /\ failedAt' = [failedAt EXCEPT ![c] = now]
  /\ RecordFailure(c)
  /\ UNCHANGED <<now, probes>>

Succeed(c) ==
  /\ call[c] = "calling"
  /\ call' = [call EXCEPT ![c] = "succeeded"]
  /\ RecordSuccess
  /\ UNCHANGED <<now, connected, failedAt, probes>>

(* All attempts have raised. *)
Fail(c) ==
  /\ call[c] = "calling"
  /\ call' = [call EXCEPT ![c] = "failed"]
  /\ failedAt' = [failedAt EXCEPT ![c] = now]
  /\ RecordFailure(c)
  /\ UNCHANGED <<now, connected, probes>>

Tick ==
  /\ now < Horizon
  /\ now' = now + 1
  /\ UNCHANGED <<connected, call, failedAt, probes, circuitVars>>

BreakerNext ==
  \/ Tick
  \/ \E c \in Calls :
       \/ AllowClosed(c)
       \/ AllowProbe(c)
       \/ ShortCircuit(c)
       \/ Connect(c)
       \/ ConnectFails(c)
       \/ Succeed(c)
       \/ Fail(c)

(* A connection or a call comes to an end; nobody has to make one.         *)
Ends(c) == Connect(c) \/ ConnectFails(c) \/ Succeed(c) \/ Fail(c)

BreakerSpec == BreakerInit /\ [][BreakerNext]_breakerVars

BreakerFairness == \A c \in Calls : WF_breakerVars(Ends(c))

-------------------------------------------------------------------------------
(* Properties *)

(* A circuit that closes forgets what led to its opening, also what failed *)
(* while it was open: a closed circuit is always below the threshold, so   *)
(* that the next failure alone does not open it again.                     *)
ClosedBelowThreshold == state = "closed" => Cardinality(failures) < Threshold

(* The circuit never waits for a probe that is over: while it is half open *)
(* a call it has let through since is in flight, whatever older calls end. *)
ProbeInFlight == state = "half_open" => probing /\ \E c \in probes : InFlight(c)

(* Only failures of the window open a closed circuit, never stale ones.    *)
TripNeedsRecentFailures ==
  [][state = "closed" /\ state' = "open" =>
       Cardinality({c \in Calls : call'[c] = "failed" /\ now - failedAt'[c] <= FailureWindow})
         >= Threshold]_breakerVars

(* A half-open circuit is decided: the probe closes or opens it.           *)
HalfOpenEnds == []<>(state # "half_open")
===============================================================================
