------------------------------- MODULE Platform -------------------------------
(***************************************************************************)
(* The components around the core, each with the variables of its own      *)
(* module, and what is said of several of them at once.  None of them      *)
(* reads what another writes.                                              *)
(***************************************************************************)
EXTENDS CircuitBreaker, RateLimiter, CedarPool, AgentClient, Members, Provisioning,
        Assessment, Copilot, AgentRegistry, AgentBaseline, EventStream

(* Every component keeps its types. *)
TypeOK ==
  /\ BreakerTypeOK /\ LimiterTypeOK /\ PoolTypeOK /\ ClientTypeOK /\ MembersTypeOK
  /\ ProvisioningTypeOK /\ AssessmentTypeOK /\ CopilotTypeOK
  /\ RegistryTypeOK /\ BaselineTypeOK /\ StreamTypeOK

(* What a request has written to a row stays in it, whatever other requests *)
(* write to the row at the same time: members, keys and agents.            *)
RowsStick == ChangesStick /\ ProfilesStick

(* What the service tells those who listen is so: an agent of its approval, *)
(* a caller of an agent's habits, a dashboard of the evaluations.          *)
ListenersHearTheTruth == WaitsTellTheTruth /\ FlagsAreGrounded /\ StreamsAreWhole

(* Nobody waits for ever: for a circuit that is half open, for a worker of *)
(* the Cedar pool, or for an approval.                                     *)
PlatformEnds == HalfOpenEnds /\ CallsEnd /\ UsesEnd
===============================================================================
