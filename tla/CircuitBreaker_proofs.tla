------------------------- MODULE CircuitBreaker_proofs -------------------------
(***************************************************************************)
(* Proofs about the circuit breaker, for any finite set of calls, any      *)
(* threshold and any window and opening period.                            *)
(***************************************************************************)
EXTENDS CircuitBreaker, FiniteSetTheorems, TLAPS

(* The list holds failures of calls that have failed. *)
FailuresFailed == \A f \in failures : call[f] = "failed"

IInv == BreakerTypeOK /\ FailuresFailed /\ ClosedBelowThreshold /\ ProbeInFlight

LEMMA EmptyBelow == Cardinality({}) < Threshold
BY BreakerAssumption, FS_EmptySet

LEMMA RecordFailureType ==
  ASSUME BreakerTypeOK, NEW c \in Calls, RecordFailure(c)
  PROVE  /\ state' \in {"closed", "open"} /\ failures' \subseteq failures \cup {c}
         /\ openedAt' \in 0..Horizon /\ probing' \in BOOLEAN
         /\ state' = "closed" => Cardinality(failures') < Threshold
<1>1. /\ failures \subseteq Calls /\ openedAt \in 0..Horizon /\ now \in 0..Horizon
      /\ state \in {"closed", "open", "half_open"} /\ probing \in BOOLEAN
  BY DEF BreakerTypeOK
<1>2. RecentFailures(c) \subseteq failures \cup {c} /\ RecentFailures(c) \subseteq Calls
  BY <1>1 DEF RecentFailures
<1>3. Cardinality(RecentFailures(c)) \in Nat
  BY <1>2, BreakerAssumption, FS_Subset, FS_CardinalityType
<1>4. CASE state = "half_open"
  BY <1>1, <1>4 DEF RecordFailure, Trip
<1>5. CASE state = "open"
  BY <1>1, <1>2, <1>5 DEF RecordFailure
<1>6. CASE state = "closed" /\ Cardinality(RecentFailures(c)) >= Threshold
  BY <1>1, <1>6 DEF RecordFailure, Trip
<1>7. CASE state = "closed" /\ ~ (Cardinality(RecentFailures(c)) >= Threshold)
  BY <1>1, <1>2, <1>3, <1>7, BreakerAssumption DEF RecordFailure
<1>8. QED
  BY <1>1, <1>4, <1>5, <1>6, <1>7

LEMMA InitIInv == BreakerInit => IInv
<1>1. BreakerInit => BreakerTypeOK
  <2>1. 0 \in 0..Horizon
    BY BreakerAssumption
  <2>2. QED
    BY <2>1 DEF BreakerInit, BreakerTypeOK, Phases
<1>2. BreakerInit => FailuresFailed /\ ClosedBelowThreshold /\ ProbeInFlight
  BY EmptyBelow DEF BreakerInit, FailuresFailed, ClosedBelowThreshold, ProbeInFlight
<1>3. QED
  BY <1>1, <1>2 DEF IInv

LEMMA NextIInv == IInv /\ [BreakerNext]_breakerVars => IInv'
<1> SUFFICES ASSUME IInv, [BreakerNext]_breakerVars
             PROVE  IInv'
  OBVIOUS
<1> USE DEF IInv
<1>1. CASE Tick
  BY <1>1, BreakerAssumption DEF Tick, BreakerTypeOK, FailuresFailed, ClosedBelowThreshold,
     ProbeInFlight, InFlight, circuitVars
<1>2. ASSUME NEW c \in Calls, AllowClosed(c)
      PROVE  IInv'
  BY <1>2 DEF AllowClosed, Begin, circuitVars, BreakerTypeOK, FailuresFailed,
     ClosedBelowThreshold, ProbeInFlight, Phases
<1>3. ASSUME NEW c \in Calls, AllowProbe(c)
      PROVE  IInv'
  <2>1. c \in probes' /\ InFlight(c)' /\ probing'
    BY <1>3 DEF AllowProbe, Begin, InFlight, BreakerTypeOK
  <2>2. BreakerTypeOK' /\ FailuresFailed' /\ ClosedBelowThreshold'
    BY <1>3 DEF AllowProbe, Begin, BreakerTypeOK, FailuresFailed, ClosedBelowThreshold, Phases
  <2>3. QED
    BY <2>1, <2>2 DEF ProbeInFlight
<1>4. ASSUME NEW c \in Calls, ShortCircuit(c)
      PROVE  IInv'
  BY <1>4 DEF ShortCircuit, circuitVars, BreakerTypeOK, FailuresFailed, ClosedBelowThreshold,
     ProbeInFlight, InFlight, Phases
<1>5. ASSUME NEW c \in Calls, Connect(c)
      PROVE  IInv'
  BY <1>5 DEF Connect, circuitVars, BreakerTypeOK, FailuresFailed, ClosedBelowThreshold,
     ProbeInFlight, InFlight, Phases
<1>6. ASSUME NEW c \in Calls, ConnectFails(c) \/ Fail(c)
      PROVE  IInv'
  <2>1. /\ state' \in {"closed", "open"} /\ failures' \subseteq failures \cup {c}
        /\ openedAt' \in 0..Horizon /\ probing' \in BOOLEAN
        /\ state' = "closed" => Cardinality(failures') < Threshold
    BY <1>6, RecordFailureType DEF ConnectFails, Fail
  <2>2. /\ call' = [call EXCEPT ![c] = "failed"] /\ failedAt' = [failedAt EXCEPT ![c] = now]
        /\ UNCHANGED <<now, probes>> /\ connected' \in BOOLEAN
    BY <1>6 DEF ConnectFails, Fail, BreakerTypeOK
  <2>3. BreakerTypeOK'
    BY <2>1, <2>2 DEF BreakerTypeOK, Phases
  <2>4. FailuresFailed'
    BY <2>1, <2>2 DEF BreakerTypeOK, FailuresFailed
  <2>5. QED
    BY <2>1, <2>3, <2>4 DEF ClosedBelowThreshold, ProbeInFlight
<1>7. ASSUME NEW c \in Calls, Succeed(c)
      PROVE  IInv'
  <2>1. state' = "closed" /\ failures' = {}
    BY <1>7 DEF Succeed, RecordSuccess
  <2>2. BreakerTypeOK'
    BY <1>7 DEF Succeed, RecordSuccess, BreakerTypeOK, Phases
  <2>3. QED
    BY <2>1, <2>2, EmptyBelow DEF FailuresFailed, ClosedBelowThreshold, ProbeInFlight
<1>8. CASE UNCHANGED breakerVars
  BY <1>8 DEF breakerVars, BreakerTypeOK, FailuresFailed, ClosedBelowThreshold, ProbeInFlight, InFlight
<1>9. QED
  BY <1>1, <1>2, <1>3, <1>4, <1>5, <1>6, <1>7, <1>8 DEF BreakerNext

LEMMA InductiveInvariant == BreakerSpec => []IInv
BY InitIInv, NextIInv, PTL DEF BreakerSpec

(* Every variable of the circuit breaker keeps its type. *)
THEOREM TypeCorrect == BreakerSpec => []BreakerTypeOK
BY InductiveInvariant, PTL DEF IInv

(* A closed circuit is below the threshold, whatever failed while it was   *)
(* open or half open.                                                      *)
THEOREM BelowThreshold == BreakerSpec => []ClosedBelowThreshold
BY InductiveInvariant, PTL DEF IInv

(* A half-open circuit always waits for a call that is in flight, although *)
(* the results of older calls close and open it.                           *)
THEOREM HalfOpenHasProbe == BreakerSpec => []ProbeInFlight
BY InductiveInvariant, PTL DEF IInv

(* Only failures within the window open a closed circuit.                  *)
THEOREM RecentFailuresTrip == BreakerSpec => TripNeedsRecentFailures
<1> DEFINE Recent == {c \in Calls : call'[c] = "failed" /\ now - failedAt'[c] <= FailureWindow}
           Good == state = "closed" /\ state' = "open" => Cardinality(Recent) >= Threshold
<1>1. ASSUME IInv, IInv', [BreakerNext]_breakerVars
      PROVE  [Good]_breakerVars
  <2>1. ASSUME NEW c \in Calls, ConnectFails(c) \/ Fail(c), state = "closed", state' = "open"
        PROVE  Cardinality(Recent) >= Threshold
    <3>1. RecordFailure(c) /\ call[c] # "failed"
      BY <2>1 DEF ConnectFails, Fail
    <3>2. Cardinality(RecentFailures(c)) >= Threshold
      BY <2>1, <3>1 DEF RecordFailure
    <3>3. /\ call' = [call EXCEPT ![c] = "failed"]
          /\ failedAt' = [failedAt EXCEPT ![c] = now]
      BY <2>1 DEF ConnectFails, Fail
    <3>4. RecentFailures(c) \subseteq Recent
      <4>1. ASSUME NEW f \in failures, now - failedAt[f] <= FailureWindow
            PROVE  f \in Recent
        BY <1>1, <3>1, <3>3, <4>1 DEF IInv, BreakerTypeOK, FailuresFailed
      <4>2. c \in Recent
        BY <1>1, <3>3, BreakerAssumption DEF IInv, BreakerTypeOK
      <4>3. QED
        BY <4>1, <4>2 DEF RecentFailures
    <3>5. IsFiniteSet(Recent)
      BY BreakerAssumption, FS_Subset
    <3>6. /\ Cardinality(RecentFailures(c)) <= Cardinality(Recent)
          /\ Cardinality(RecentFailures(c)) \in Nat /\ Cardinality(Recent) \in Nat
      <4> HIDE DEF Recent
      <4> QED  BY <3>4, <3>5, FS_Subset, FS_CardinalityType
    <3>7. QED
      <4> HIDE DEF Recent
      <4> QED  BY <3>2, <3>6, BreakerAssumption
  <2>2. ASSUME BreakerNext, \A c \in Calls : ~ ConnectFails(c) /\ ~ Fail(c)
        PROVE  ~ (state = "closed" /\ state' = "open")
    BY <2>2 DEF BreakerNext, Tick, AllowClosed, AllowProbe, ShortCircuit, Connect, Succeed,
       RecordSuccess, circuitVars
  <2>3. QED
    BY <1>1, <2>1, <2>2
<1>2. QED
  BY <1>1, InductiveInvariant, PTL DEF BreakerSpec, TripNeedsRecentFailures
===============================================================================
