----------------------------- MODULE AgentClient -----------------------------
(***************************************************************************)
(* An agent's side of an approval: the Python and Go clients, and the      *)
(* wrappers that keep a tool from running (packages/agr-sdk-python,        *)
(* packages/agr-langchain, packages/agr-sdk-go).                           *)
(*                                                                         *)
(* A use of a tool is evaluated; when it needs an approval, the wrapper    *)
(* polls for the decision itself, or hands the approval to the caller, who *)
(* polls, has a thread poll, or lets the Go client poll.  The deadline is  *)
(* looked at before a request and not while it runs, nor in the sleep that *)
(* follows; only Go gives up at the deadline itself.  A use of the         *)
(* asynchronous client may be cancelled wherever it awaits.                *)
(*                                                                         *)
(* Assumed of time: a request ends within Reply ticks, the timeout of the  *)
(* client, and whoever has slept long enough wakes.                        *)
(***************************************************************************)
EXTENDS Naturals, FiniteSets

CONSTANTS
  Blocking,      \* the uses that wait in the wrapper: wait_for_approval
  Awaiting,      \* the uses handed off to await_decision
  Calling,       \* the uses handed off to on_approval_resolved
  Gophers,       \* the uses of the Go client: Evaluate, WaitForApproval
  Asyncs,        \* those that are tasks of an event loop: AsyncAGRClient
  PollEvery,     \* poll_interval
  GiveUp,        \* timeout
  Reply,         \* the timeout of one request
  LastHour       \* bound: the time at which the clock stops

Uses == Blocking \cup Awaiting \cup Calling \cup Gophers

ASSUME ClientAssumption ==
  /\ IsFiniteSet(Uses) /\ Asyncs \subseteq Blocking \cup Awaiting
  /\ PollEvery \in Nat \ {0} /\ GiveUp \in Nat /\ Reply \in Nat /\ LastHour \in Nat

VARIABLES
  time,          \* time.monotonic()
  approval,      \* approval[u]: the request of use u at the server
  use            \* use[u]: where it is, and what it has heard

clientVars == <<time, approval, use>>

Verdict == {"none", "ALLOW", "DENY", "APPROVAL_REQUIRED"}
Decision == {"approved", "rejected"}
Status == {"none", "pending"} \cup Decision

UsePlaces == {"idle", "asked", "polling", "requesting", "replied", "sleeping",
              "ran", "refused", "timed_out", "answered", "failed", "cancelled"}

ClientTypeOK ==
  /\ time \in 0..LastHour
  /\ approval \in [Uses -> [status : Status, at : 0..LastHour]]
  /\ use \in [Uses -> [pc : UsePlaces, verdict : Verdict, seen : Status,
                       since : 0..LastHour, mark : Nat]]

(* The uses in made will be made; the clock may stand anywhere. *)
ClientInit(made) ==
  /\ time \in 0..LastHour
  /\ approval = [u \in Uses |-> [status |-> "none", at |-> 0]]
  /\ use = [u \in Uses |-> [pc |-> IF u \in made THEN "idle" ELSE "refused",
                            verdict |-> "none", seen |-> "none", since |-> 0, mark |-> 0]]

Is(u, place) == use[u].pc = place
Now(u, place) == use' = [use EXCEPT ![u].pc = place]

-------------------------------------------------------------------------------
(* The evaluation *)

(* Bound: nobody begins a use whose wait the clock would not outlast.      *)
TimeLeft == time + GiveUp + PollEvery + Reply <= LastHour

Asked(u) == Is(u, "idle") /\ TimeLeft

(* The request for an approval that POST /v1/evaluate has committed.       *)
Requested(u) == [approval EXCEPT ![u] = [status |-> "pending", at |-> time]]

(* The answer: with APPROVAL_REQUIRED it names the request that decides    *)
(* about this use.                                                         *)
Answers(u) ==
  /\ \E v \in Verdict \ {"none"} :
       /\ use' = [use EXCEPT ![u].pc = "asked", ![u].verdict = v]
       /\ approval' = IF v = "APPROVAL_REQUIRED" THEN Requested(u) ELSE approval
  /\ UNCHANGED time

Evaluated(u) == u \notin Asyncs /\ Asked(u) /\ Answers(u)

AsyncEvaluated(u) == u \in Asyncs /\ Asked(u) /\ Answers(u)

(* 401, 429, another error or no answer: the wrapper lets the exception    *)
(* through; a request that nobody has heard of may be left behind.         *)
EvaluationRaises(u) ==
  /\ Asked(u)
  /\ Now(u, "failed")
  /\ approval' \in {approval, Requested(u)}
  /\ UNCHANGED time

(* A variant that runs the tool unless it is denied.                       *)
RunsUnlessDenied(u) == use[u].verdict # "DENY"

(* wrap: the inner function is called on ALLOW, and after an approval.     *)
Permits(u) == use[u].verdict = "ALLOW"

Enforced(u) ==
  /\ Is(u, "asked")
  /\ use' = [use EXCEPT ![u].pc = IF Permits(u) THEN "ran"
                                  ELSE IF use[u].verdict = "DENY" THEN "refused"
                                  ELSE "polling",
                        ![u].since = time]
  /\ UNCHANGED <<time, approval>>

(* before_tool with mode 'block'. *)
BeforeTool(u) == u \in Blocking \ Asyncs /\ Enforced(u)

AsyncBeforeTool(u) == u \in Blocking \cap Asyncs /\ Enforced(u)

(* The tool guard of LangChain, and before_tool, with mode 'non_blocking': *)
(* the caller gets a PendingApprovalResult, keeps its id and polls.        *)
HandOff(u) == u \in Uses \ Blocking /\ Enforced(u)

-------------------------------------------------------------------------------
(* The wait *)

Late(u) == time - use[u].since >= GiveUp

(* The top of the loop: TimeoutError, "expired", or the next request.      *)
CheckDeadline(u) ==
  /\ Is(u, "polling")
  /\ use' = IF Late(u)
            THEN [use EXCEPT ![u].pc = "timed_out"]
            ELSE [use EXCEPT ![u].pc = "requesting", ![u].mark = time]
  /\ UNCHANGED <<time, approval>>

(* The server reads the row and answers. *)
GetApproval(u) ==
  /\ Is(u, "requesting")
  /\ use' = [use EXCEPT ![u].pc = "replied", ![u].seen = approval[u].status]
  /\ UNCHANGED <<time, approval>>

(* A status of 400 or more, or no answer: an exception; in a thread of     *)
(* on_approval_resolved nobody sees it, and the callback is never called.  *)
RequestFails(u) ==
  /\ Is(u, "requesting")
  /\ Now(u, "failed")
  /\ UNCHANGED <<time, approval>>

Approved(u) == use[u].seen = "approved"

(* wait_for_approval returns True or False, and the wrapper goes on.       *)
HeardBlocking(u) ==
  /\ u \in Blocking /\ Is(u, "replied") /\ use[u].seen \in Decision
  /\ Now(u, IF Approved(u) THEN "ran" ELSE "refused")
  /\ UNCHANGED <<time, approval>>

Waited(u) == u \notin Asyncs /\ HeardBlocking(u)

AsyncWaited(u) == u \in Asyncs /\ HeardBlocking(u)

(* await_decision returns whatever is not pending. *)
HeardAwaiting(u) ==
  /\ u \in Awaiting /\ Is(u, "replied") /\ use[u].seen # "pending"
  /\ Now(u, "answered")
  /\ UNCHANGED <<time, approval>>

Awaited(u) == u \notin Asyncs /\ HeardAwaiting(u)

AsyncAwaited(u) == u \in Asyncs /\ HeardAwaiting(u)

(* CancelledError passes through the client and the wrapper. *)
Cancel(u) ==
  /\ u \in Asyncs /\ (Is(u, "requesting") \/ Is(u, "sleeping"))
  /\ Now(u, "cancelled")
  /\ UNCHANGED <<time, approval>>

(* The thread of on_approval_resolved calls back. *)
CalledBack(u) ==
  /\ u \in Calling /\ Is(u, "replied") /\ use[u].seen # "pending"
  /\ Now(u, "answered")
  /\ UNCHANGED <<time, approval>>

(* WaitForApproval *)
GoReturned(u) ==
  /\ u \in Gophers /\ Is(u, "replied") /\ use[u].seen # "pending"
  /\ Now(u, "answered")
  /\ UNCHANGED <<time, approval>>

Pause == PollEvery

Sleep(u) ==
  /\ u \notin Gophers /\ Is(u, "replied") /\ use[u].seen = "pending"
  /\ use' = [use EXCEPT ![u].pc = "sleeping", ![u].mark = time + Pause]
  /\ UNCHANGED <<time, approval>>

(* The ticker of Go runs beside the requests. *)
GoSelect(u) ==
  /\ u \in Gophers /\ Is(u, "replied") /\ use[u].seen = "pending"
  /\ \E t \in time + 1..time + PollEvery :
       use' = [use EXCEPT ![u].pc = "sleeping", ![u].mark = t]
  /\ UNCHANGED <<time, approval>>

(* The context of Go is done, in a request or in the select. *)
GoDeadline(u) ==
  /\ u \in Gophers /\ Late(u)
  /\ Is(u, "requesting") \/ Is(u, "sleeping")
  /\ Now(u, "timed_out")
  /\ UNCHANGED <<time, approval>>

Wake(u) ==
  /\ Is(u, "sleeping") /\ time >= use[u].mark
  /\ Now(u, "polling")
  /\ UNCHANGED <<time, approval>>

-------------------------------------------------------------------------------
(* The approver, and time *)

Approver(u) ==
  /\ approval[u].status = "pending"
  /\ \E d \in Decision : approval' = [approval EXCEPT ![u] = [status |-> d, at |-> time]]
  /\ UNCHANGED <<time, use>>

(* What a use may not put off. *)
Due(u) ==
  \/ Is(u, "asked") \/ Is(u, "polling") \/ Is(u, "replied")
  \/ Is(u, "requesting") /\ time >= use[u].mark + Reply
  \/ Is(u, "sleeping") /\ time >= use[u].mark

Elapse ==
  /\ time < LastHour
  /\ ~\E u \in Uses : Due(u)
  /\ time' = time + 1
  /\ UNCHANGED <<approval, use>>

Progress(u) ==
  \/ BeforeTool(u) \/ AsyncBeforeTool(u) \/ HandOff(u)
  \/ CheckDeadline(u) \/ GetApproval(u) \/ RequestFails(u)
  \/ Waited(u) \/ AsyncWaited(u) \/ Awaited(u) \/ AsyncAwaited(u) \/ CalledBack(u) \/ GoReturned(u)
  \/ Sleep(u) \/ GoSelect(u) \/ GoDeadline(u) \/ Wake(u)

ClientNext ==
  \/ Elapse
  \/ \E u \in Uses :
       \/ Evaluated(u) \/ AsyncEvaluated(u) \/ EvaluationRaises(u)
       \/ Progress(u) \/ Cancel(u) \/ Approver(u)

ClientSpec == ClientInit(Uses) /\ [][ClientNext]_clientVars

ClientFairness ==
  /\ WF_clientVars(Elapse)
  /\ \A u \in Uses : WF_clientVars(Progress(u))

-------------------------------------------------------------------------------
(* Properties *)

(* A tool runs only when its own evaluation allowed it, or an approver has *)
(* approved the request made for it; and what a wait reports as decided is *)
(* the decision of the server, however late it is heard.                   *)
NothingWithoutLeave ==
  \A u \in Uses :
    /\ Is(u, "ran") => use[u].verdict = "ALLOW" \/ approval[u].status = "approved"
    /\ Is(u, "answered") => use[u].seen = approval[u].status

(* A wait that times out has missed no decision but a late one: one poll    *)
(* and one reply before the deadline is early enough to be heard.          *)
TimeoutIsLate ==
  \A u \in Uses :
    Is(u, "timed_out") /\ approval[u].status \in Decision =>
      approval[u].at + PollEvery + Reply >= use[u].since + GiveUp

(* What a wait tells its caller: no leave that was not given, and no        *)
(* deadline that was not reached.                                          *)
WaitsTellTheTruth == NothingWithoutLeave /\ TimeoutIsLate

(* Every use ends: the tool runs or not, and who waits hears something.    *)
UsesEnd ==
  []<>(\A u \in Uses : use[u].pc \in {"idle", "ran", "refused", "timed_out", "answered", "failed",
                               "cancelled"})
===============================================================================
