# Verification of the AGR platform

TLA+ specifications of the AGR platform (Agentic Governance Runtime): the API in
`services/agr-api`, the policy engine in `packages/agr-core`, and the clients in
`packages/agr-sdk-*` and `packages/agr-langchain`; the TLC configurations that
check them, and TLAPS proofs. Paths below are relative to
the repository; `app/` stands for `services/agr-api/app/`.

An agent asks `POST /v1/evaluate` before each tool call. The API decides by
Cedar policies, adjusted by a risk score and compliance plugins, and answers
ALLOW, DENY or APPROVAL_REQUIRED; the latter opens an approval request that a
person decides by API, e-mail link or Slack within its SLA, shadowed by a
durable Temporal workflow. Everything is written to a hash-chained audit log.

Contents: 1 inventory, 2 the modules, 3 the runs, 4 the proofs, 5 where code and
documents disagree, 6 what is not modelled, 7 what could come next.

## 1. Inventory

The processes: uvicorn runs two workers per pod and Kubernetes two to ten pods
(`infra/k8s`), each worker one asyncio event loop; one or more Temporal workers
(`app/workers/approval_worker.py`). They share PostgreSQL at READ COMMITTED and
Redis. A request is one database transaction (`app/database.py`, `get_session`),
committed before the response is sent; background tasks run after the response
and are lost with the process. Everything in a module global (circuit breaker,
stream queues, Cedar pool) exists once per process.

| Component | Source | State | Operations | Interacts with |
|---|---|---|---|---|
| Audit log | `services/audit_service.py`, `routes/audit.py` | `audit_events` | append, verify, list by cursor | every writer appends in its own transaction |
| Audit exports | same | `audit_export_jobs`, temporary files, asyncio tasks | start, run, fail, resume, download | start of a worker |
| Approval requests | `routes/approvals.py`, `routes/slack.py`, `services/approval_service.py`, `services/notification_service.py` | `approval_requests`, approver steps, e-mail tokens | create, decide (three ways), escalate, refresh when read, add step | evaluation, audit log, Temporal, webhooks, e-mail, Slack |
| Approval workflow | `workflows/approval_workflow.py` | one Temporal run | two waits, reminder, signals | approval requests, reminder |
| Reminder activity | `workers/activities.py` | `reminder_sent_at` | dispatch once, retried | approval row, e-mail, Slack, audit log |
| Circuit breaker | `services/temporal_service.py` | state, failures, client, per process | allow, record, short-circuit | start and signals of workflows |
| Evaluation | `routes/evaluate.py`, `services/redis_service.py`, `services/usage_service.py` | `organizations` counters, usage row, Redis counter, cache, Idempotency-Key | count, decide, store, commit, cache, synchronise | policies, settings, approvals, audit log |
| Policy lifecycle | `routes/policies.py`, `services/policy_import_service.py` | `policies`, `policy_versions` | create, patch, activate, archive, delete, roll back, import | cache of evaluations |
| Policy engine | `packages/agr-core/policy_engine.py` | none | evaluate with Cedar or the Python matcher, fall back | evaluation |
| Webhooks | `services/webhook_service.py`, `routes/webhooks.py` | `webhooks`, `webhook_deliveries` | fire, retry, test, rotate, clear, delete | decisions, the owner's endpoint |
| Cedar process pool | `policy_engine.py` | processes, pipes, queue, semaphore | execute, replace a dead worker, close | engine |
| Rate limiter | `middleware/rate_limiter.py`, Lua in `redis_service.py` | token bucket in Redis | take a token, fail open or closed | every evaluation |
| Clients and wrappers | `agr-sdk-python`, `agr-langchain`, `agr-sdk-go` | the wait of each use of a tool | evaluate, poll, hand off, give up, cancel | evaluation, approvals |
| Members, API keys | `routes/members.py`, `api_keys.py`, `services/sso_service.py`, `middleware/auth.py` | `org_members`, `api_keys`, `auth_sessions` | invite, set role, revoke, join; look up, touch, revoke | audit log, identity provider |
| Provisioning | `routes/clerk.py`, `main.py`, `services/org_service.py`, `onboarding_service.py` | `organizations`, seeded policies | sign in, Clerk webhook, bootstrap, quickstart | migration 003's trigger |
| Risk and compliance | `services/risk_service.py`, `compliance_service.py`, `routes/risk_config.py`, `compliance.py` | `risk_configs`, control modes | score, enforce, change | evaluation |
| Copilot | `services/copilot_service.py`, `routes/copilot.py` | conversations, messages, Redis cache | chat, preview, confirm, delete | policies, agents, webhooks |
| Agents | `routes/agents.py` | `agents` | register, update, delete | evaluation |
| Anomaly baseline | `services/anomaly_service.py` | counts in Redis | flag, count, expire | evaluation (advisory) |
| Event stream | `services/stream_service.py`, `routes/stream.py` | a bounded queue per websocket | subscribe, publish, drop, send | evaluation |
| Policy tooling, plumbing, dashboard, migrations, deployment | see PROJECT.json | | | |

### Behaviours that are hard, and what makes the components correct

* **Audit log.** Writers pick the last event before they lock it. Correct: no gap,
  no dangling `prev_hash`, no fork; a verification that pages through a growing
  log raises no false alarm and misses no fork; a cursor client misses nothing.
* **Approvals.** Three ways of deciding race with each other, with escalations and
  reads that act on an unlocked row, with reminders, rollbacks and lost background
  tasks. Correct: decided once, recorded once, announced only if decided.
* **Workflow and Temporal.** Signals come before the commit, in batches, or are lost;
  attempts of the reminder overlap. Correct: the run returns the last decision it
  accepted, never expires early, always closes; where row and run disagree the row
  says so; one recorded reminder.
* **Circuit breaker.** Calls outlast the state they began in. Correct: never stuck half
  open, never opened by stale failures, below the threshold when closed.
* **Evaluation.** Redis is not transactional, the row lock serialises what follows it
  only. Correct: what is answered is audited, usage exact, the quota holds,
  only committed decisions are cached and stale ones end, everybody ends.
* **Webhooks.** A rotation or a deletion commits in the middle of a delivery with
  retries. Correct: whatever is sent can be verified by an endpoint that keeps up; rows
  say what happened, and are missing in named cases only.
* **Exports.** Two runs of a job, crashes at every step, a handler that needs what has
  just failed. Correct: a ready job has its file; no job is pending for ever.
* **Policies.** Requests decide on rows they did not lock. Correct: an archived policy
  does not come back by accident; what is replaced is in the history.
* **Engine.** Two implementations of one language. Correct: over rules the matcher can
  read they agree, but for the requests that are named.
* **Pool.** Threads share workers that die between any two of their steps, and the pool
  is closed under them. Correct: an answer reaches who asked; no process outlives the
  pool; every call ends.
* **Rate limiter.** Requests reach Redis in another order than they read the clock.
  Correct: burst and refill bound what is admitted.
* **Clients.** A decision comes while a poll is under way, at the deadline, after a
  cancellation. Correct: a tool runs only with leave; a timeout is not an answer and comes not
  before its time; every wait ends.
* **Rows read without a lock** (members, keys, agents, risk configuration). Correct: what a request
  writes lasts beside other columns' writers, and the audit trail tells the role.
* **Provisioning.** Sign-in, webhook and retry, or two workers, race for one slug;
  workers die. Correct: one organization of a name, seeded once, and no key shown but its own.
* **Risk and controls.** Settings change in the middle of an evaluation. Correct: they only tighten
  what the policies decided.
* **Copilot, stream, baseline.** Cache before commit, flags before counts, queues that
  overflow. Correct: what is said is so.

The `hazards` of PROJECT.json list these at their lines with the properties that
cover them.

## 2. The modules

| Module | Models | Role |
|---|---|---|
| AuditLog | what the audit trail promises: append only, numbered without gap | abstract |
| AuditChain | `create_audit_event`, `get_last_audit_event`, the transactions around them | detailed; implements AuditLog when every writer holds the organizations row |
| AuditReaders | verification and cursor listing beside the writers | extends AuditChain |
| ApprovalDecision | what an approval promises: decided once, recorded with it, announced at most once | abstract |
| ApprovalWorkflow | the Temporal run | part of Approval |
| Approval | row, requests, Slack, links, escalation, readers, reminder activity, with ApprovalWorkflow | implements ApprovalDecision |
| EvalQuota | the counter in Redis, the organizations row, the week | part of Evaluation |
| Evaluation | `POST /v1/evaluate`, cache, Idempotency-Key, configuration changes | extends EvalQuota |
| Webhooks, AuditExport, PolicyLifecycle, PolicyEngine | the four services of those names | parts of Services |
| Services | the four beside each other, and what is said of several | composes them |
| CircuitBreaker | the breaker, the cached client, the calls through it | with the ten below part of Platform |
| RateLimiter | the token bucket: clock, script, outages | |
| CedarPool | the worker processes and the threads that share them | |
| AgentClient | the SDKs and wrappers: evaluate, wait, give up | |
| Members | members, sign-in and API keys | |
| Provisioning | how an organization comes to be | |
| Assessment | risk score, thresholds, compliance controls, and their settings | |
| Copilot | the assistant | |
| AgentRegistry, AgentBaseline, EventStream | agents, their habits, the dashboards' events | |
| Platform | the eleven around the core, and what is said of several | composes them |
| MCAudit, MCApproval, MCEvaluation, MCServices, MCPlatform | instances for TLC, the last two of Services and Platform | |
| MCAuditScenes, MCApprovalScenes | two casts of actors for one instance | |
| `*_proofs` | theorems | extend what they prove about |

The correspondence, in one rule: a step of a model is what the code does between
two points at which another process can act. For a request these are the
statements that take or wait for a row lock, the calls to Redis or Temporal, the
commit, and the background tasks; code between two `await`s in one process
(the breaker's methods) is one step. PostgreSQL appears as its locks: `LockFree`
is the guard of a `SELECT ... FOR UPDATE` or of an `UPDATE`, and the action that
ends the transaction releases it. At READ COMMITTED a plain SELECT reads what is
committed then, and the ORM later writes the columns that changed and leaves
the others as they are (`Merge` in Approval, `Written` in PolicyLifecycle): both matter, a
write of the whole row would break `KeepsPromise` and `ArchiveSticks`.

Audit: `phase` is how far a writer's transaction is; ReadLast and LockLast are the
two halves of one `SELECT ... ORDER BY ... LIMIT 1 FOR UPDATE`, which returns after
its wait the row chosen before it. Evaluators hold the organizations row from
`Begin`, Deciders (approval decisions, escalations, reminders, members) do not. A hash
is the identity of the event it was computed for.

Approval: `txn[r]` keeps what a request has read (`snap`) and means to write (`draft`).
Requests that are refused do not begin. "flushed" is the window in which the
signal is under way and the row is locked. `links` are the e-mail links sent;
`wf`, `signals` and `now` are the run, its accepted signals and its clock.
Temporal delivers the signals of an activation before timers and results, and
closes no run with an unhandled signal: the documented behaviour of its server,
taken as given.

Circuit breaker: `call` is how far each call is; the three attempts of a call are one
await. The breaker is per process, so is the model.

Evaluation: the `pc` of an evaluation names the statement it is at; EvalQuota
separates the increment from its undoing. `config.screen` abstracts risk and
compliance by their effect on an ALLOW, and `raw` what the policies decide.

Webhooks: `signed` are the secrets with which the headers of a delivery were
computed, once for all its attempts; `seen` is what the endpoints received, which no rollback takes back;
`notice` are the answers of `rotate-secret` that the owner has yet to act on, as many as there are. `Rotate` has no guard, as
the route has none, and reads the old secret without a lock: the model lets it be any earlier one, which covers
every overlap of concurrent rotations. Exports: a task is a `run`; `up` are the workers
of a pod, which share the directory of temporary files. Policies: `request` keeps what a request read and means
to write. Engine: a rule is its effect, the principal, action and resource of its head, its `when`
as Cedar evaluates it and as the matcher reads it, and its `unless`, where an approval read without
`context has approval_status` is an error to Cedar as long as there is none; the two engines
are functions of a set of rules and the approval status.

Rate limiter: `hit` is a request between its reading of the clock and its verdict, `bucket` the hash in Redis; a token is
`Token` units and a tick refills `Refill`, so that the script's fractions stay integers. Pool: `thread[t]` names the
statement of `execute` a caller is at, and the index and process it holds; processes are numbered as they are started, so that
a replaced one is never confused with its successor; `pipe` is what lies unread in stdin and stdout. Clients: a `use` is one
call of a wrapped tool; `mark` is when its request began or its sleep will end, `since` when its wait did; the approver and the clock are
the environment. Members: an `ask` is a request from its read to its commit, `holder` the row lock, `trail` the audit
events in their order, those of requests that have yet to commit or have rolled back with them (`GivesRole` says which count: a committed change). Provisioning: `slugHolder` is the uncommitted INSERT under the unique index; `CountOrgs` counts one slug where `main.py:66` counts all organizations, so that the model starts the bootstrap more often than the code.
Assessment: a request is the class of its words per factor, weights are hundredths, `Rounded` is Python's `round`;
`put` and `modePut` are requests that change settings. Copilot: `Tests` and `Intent` are the classifier, in the order of its
tests; the deletion of a conversation is one step, although the cache is emptied between its flush and its commit (no property looks at that cache); an exchange is a message with its reply, and the history the first of them in the order they were started. Registry: three columns stand for all, by how they are written.
Baseline: the three keys of an agent and their expiry; the total of the counts
is a cardinality (`Tallies`), so that it can be reasoned about without recursion. Stream: `held` is the event a websocket's task has taken and not sent.

The operators called variants in the modules (`DecideUnlocked`,
`SetCachedEarly`, ...) are the code with a plausible mistake. No specification uses
them: each is what a property was tried against, and fails on.

## 3. The runs

Sizes are distinct states, rounded.

| Run | Question | Bounds |
|---|---|---|
| audit | two scenes: evaluations implement the append-only log and a cursor client gets every event once; an evaluation and a decision keep links whole, and verification neither cries wolf nor misses a fork; nobody waits for ever | 2 evaluators or 1 and a decider, 4 ids, pages of 2, limit 3 |
| audit_fork (violation) | an evaluation and a decision fork the chain | 2 writers, 3 ids |
| approval | two scenes: decision, link, escalation, reader and approver step race without Temporal; two decisions and two attempts at the reminder beside a workflow with every start outcome | one of each, 4 ticks; SLA 2, 3 ticks |
| approval_live | decisions reach the run, runs close, requests end | a decision, a reader, one attempt, with fairness |
| approval_oldlink (violation) | a superseded approver's link decides | two escalations, one click, 2 ticks |
| approval_circuit (violation) | a creation while the circuit is open is refused | all start outcomes, 2 ticks |
| evaluation | two evaluations with one key, a change, an outage, a week | limit 2 |
| evaluation_week (violation) | a new week starts refused | 3 evaluations |
| services | webhooks, exports, policies and engine | below; 570 000 states |
| platform | the eleven components around the core | below; 335 000 states |
| members_revoked (violation) | a sign-in undoes a revocation | 1 person, 2 requests used |
| risk_thresholds (violation) | two changes cross the thresholds | 2 requests |

Why these bounds are enough: each hazard needs two or three actors, and each
instance has them with one more step of the clock, one more page or one more
identity than the interleaving uses (a scene leaves out actors, never steps of an actor). A page of two with four events puts a boundary inside a fork. The
threshold of 2 with four calls leaves calls in flight that are older than the opening
and the probe. `LastWeek`, `Horizon`, `MaxTime` stop clocks; a timer that is set runs to
its end. No symmetry is declared.

In `services` and `platform` a behaviour moves one component, chosen at first, because they share no
variable: interleaving them would multiply the states and show nothing. What rests
has no fair step enabled.
*Webhooks*: two webhooks and one delivery, or one and two (`FewDeliveries`), so that a retry
follows a delivery, and a rotation, its grace (2 units) and its end fall within them. Three secrets (`MaxSecrets`), that is two rotations,
which may overlap, share a grace or follow one another; one webhook is rotated, a second time only beside a single delivery (`FewRotations`). A unit of time is longer than
a delivery (three attempts of ten seconds and two pauses for each webhook), and `Tick` keeps it so; the grace
(`webhook_secret_rotation_hours`) is hours.
*Exports*: one job, two workers of a pod, four runs; `Spare` keeps a run for every start that
is still to come, so that the bound never keeps a job from being resumed.
*Policies*: three requests, numbered in the order they arrive.
*Engine*: no rule, or one or two out of those that can matter, at most one of them beyond what the matcher reads as Cedar does (`FewRules`), with every status, state of
the CLI and mode.

*Breaker*: four calls, threshold 2, window and opening of a tick. *Limiter*: three requests, a burst of one token, half a
token a tick, five times, failing open. *Pool*: three threads, one index, two processes: a thread waits for the permit while another's worker
dies, is replaced, and the pool is closed; the replacement of the replacement raises, as a failing start does
(`MaxSpawns`). *Clients*: one use at a time of each of the six ways, deadline 4, pause and answer 1.
*Members*: one person, one key, three requests of any kinds, numbered in the order of their kinds, since they are interchangeable.
*Provisioning*: two users, three calls, or two workers with two deaths. *Assessment*: one evaluation of four
requests (one that nothing holds against, one that each threshold catches, one that fails every control), two changes and a change of mode.
*Copilot*: two chats, one of which confirms a preview; a history of one exchange (`HistoryLimit`). *Registry*: three requests.
*Baseline*: two evaluations, a minimum of one sample. *Stream*: two websockets, queues of one, three events.

What the environment is assumed to do. Of webhooks: the owner rotates at any time, before or after acting
on the last answer; gives the endpoint the secret of an answer before the time it names ("Update your
endpoint before"), skipping answers at will, and never goes back to an earlier one. `EveryPostVerifies` speaks of an endpoint at most one
rotation away from the row that a delivery read (`OneRotationApart`); without that condition it is violated, by two
rotations within one grace (section 5). A database that fails does so before a commit, not
between the commit and its acknowledgement. Exports consider one pod.

### Fairness

Weak fairness of what goes on by itself: a handler that has begun runs to its end
(every await on the network has a timeout; asyncio schedules what is ready), a
timer that is due fires, an activity attempt is given up after 60 s. PostgreSQL
queues the waiters of a lock: strong fairness of `LockLast`, where the lock may be taken again and
again, and weak fairness elsewhere, where a bounded number of requests contend and each waits once. uvicorn's supervisor restarts a worker
(`WorkerStarts`). Temporal retries within its policy. Cache entries expire
(`Tick` of Evaluation: Redis counts down the TTL). In `platform`: the threads of the pool run and its workers answer or
their cedar times out after 5 s (a permit stands for an index, so weak fairness of each thread is enough);
a use of a client goes on, and its clock passes, because every HTTP request has a timeout (`Reply`); calls through the breaker return.
No fairness for what a client's caller, an approver, an owner, an outage, a crash or a cancellation may do, nor for
members, provisioning, settings, chats, agents, baselines and streams, which are checked for safety.

### What they show

Besides the six violations, everything holds, which says in particular: the row lock
of a decision is what makes an approval decided once, although escalations and
reads ignore it; a run whose reminder takes too long still hears the decision;
the breaker cannot be wedged by late results; the counter in Redis never lets
an evaluation too many through while Redis lives, and the usage, read and written back, is
exact because it is read under the row lock; the end of the grace is the same instant for
signing, verifying and clearing; deleting a webhook waits for its deliveries; a run
of an export touches its own file only. Around the core: an answer of the pool cannot reach the wrong caller, because a
worker whose answer nobody read is never handed on alive; the limiter pays a tick out twice when a script comes late, and no more
(`late` counts them); a client that gives up does so at its deadline or later, and never runs the tool; the ORM's
habit of writing only changed columns is what keeps concurrent changes of a member, a key or an agent apart (`RowsStick` fails
with whole-row writes); the loser of a race for a slug answers with the winner's organization; neither score nor controls loosen
a decision, whatever is changed between their reads; the assistant never lists what was not made.

## 4. The proofs

TLAPS proves the following for every value of the constants, that is for any number of writers, readers' page sizes,
requests, evaluations, deliveries, calls, runs, rules, threads, workers, agents, people, chats, websockets and sign-ups.
Every safety property of the passing runs - each invariant and each action property - is the subject of one of these
theorems; `EvaluationsImplementLog`, which speaks of the cast of its run, is proved as `ImplementsLog` of AuditChain.

### From what

The assumptions are those named in the modules (`ASSUME`), which TLC evaluates in the runs: sets of actors are finite, kinds of
requests are disjoint where the code cannot mix them up, periods are natural numbers, thresholds and page sizes positive. Some say more:

* `Grace > 1` in Webhooks: a delivery, with its attempts, may straddle one tick, so a grace of a single tick could end under
  it. A tick is longer than a delivery (about half a minute) and the grace is in hours (`webhook_secret_rotation_hours`).
* `Hooks # {}` in Webhooks: without a webhook there is nothing a call could be for.
* `Sla <= Horizon` in ApprovalWorkflow: the bound on the clock lies behind the end of the window. It is a bound of the model only; a
  clock stopped earlier would make every expiry look early.
* Attempts of the reminder are no requests of others (Approval), and `nobody`, the value of a free row lock, is not a request
  (Members, AgentRegistry).
* `Deciders = {}` in three theorems about the audit log is a hypothesis of the theorems, not an assumption of the module: the
  run audit_fork shows what happens without it.

### Along which argument

* **AuditChain_proofs.** `TypeCorrect`; `LinksAlwaysResolve`; `EvaluatorsNeverFork` (UniqueSeq
  when there are no Deciders). `LinksResolve` is not inductive: it says nothing of drafts.
  `PhaseInv` and `ReadInv` add that what a writer read is committed (nothing is ever removed) and that its draft is built on it.
  For the fork, `SerialInv` adds that one transaction is active and that it has read the last
  row; the organizations row gives it, and it fails as soon as there is a Decider.
  `EvaluatorsAppend` (they implement AuditLog, `ImplementsLog`): no two rows have an identity in common (`IdsApart`), below a number
  there are all (`NoGap`) and as many rows as the last number says (`CountInv`); so the log an auditor sees is the sequence
  of the rows by number (`ViewIs`) and a commit appends to it (`StepAppends`).
  `CursorMissesNothing` (`CursorIsComplete`, when evaluators write): what a listing has seen holds every row it began with from its
  cursor on, and the cursor is below all that is still to come, because what is appended meanwhile is above (`ListInv`).
  `VerdictStands` (`VerdictIsRight`, for all writers): while there is no fork among the rows it has walked, the n-th row of the log is the one numbered n
  (`WalkedInOrder`), and it carries the hash of the last (`VerifyInv`). A fork at number s shifts what lies behind: more
  than s rows are numbered s or less (`ForkCounts`, over the least forked number, `LeastNumber`), so the row at place s + 1 does not chain to the row before it. The verification
  meets it whatever was appended meanwhile (`ForkShows`), and a break it meets has no other cause (`BreakMeansFork`).
* **Approval_proofs.** `TypeCorrect`, `DecidedOnce`, `Refinement` (of ApprovalDecision). The
  invariant: the creator acts before the row exists (`CreatorInv`), at most one transaction
  holds the row (`LockInv`), a draft that decides was read pending and still holds the lock, no other draft
  changes the status (`DraftInv`), and a committed decision left to announce is the one of the row
  (`CommittedInv`). That an escalation, which read the row unlocked, cannot
  undo a decision is in `DraftInv` and the merge of columns. `RemindedOnce` (`OneReminderEvent`) has the same form: an attempt
  that is to record has read the row unreminded under the lock (`RemindInv`). `RunTruth` (`RunReturnsTruth`): what the run has decided is the last decision among the
  signals it has handled, and it closes with none unhandled (`HeardInv`); the clock and what is left of its timer make up the wait
  (`TimerInv`), also over a reminder that took time. `NeverSilentlyApart` (`DivergenceFlagged`): a decision is signalled under
  the row lock, so from its signal to its commit, and after, no other is sent: it is the last the run was told, or the row
  is flagged (`ToldInv`); only the creation sets the run and nothing takes a flag back (`FlagInv`).
* **CircuitBreaker_proofs.** `TypeCorrect`, `BelowThreshold`, `HalfOpenHasProbe`,
  `RecentFailuresTrip`. `ProbeInFlight` is inductive together with the types and the
  fact that recorded failures are of calls that failed.
* **Evaluation_proofs.** `TypeCorrect`, `Audited`, `UsageExact`, `CacheCommitted`. `LockInv` says
  one evaluation holds the organizations row, `SeenInv` that the usage it has read is
  still the committed one, `BeforeInv` and `CommittedInv` which evaluations are in the audit log. `UnderTheLimit` (`NeverOverLimit`): the
  counter is at least the number of evaluations it stands for - those let through this week and those whose increment is
  still to be undone (`Charged`, `QuotaInv`) - so the one that finds it below the limit is not one too many.
* **Webhooks_proofs.** `WebhooksTyped`, `Verifiable` (`EveryPostVerifies`), `RowsAreTrue` (`RowsTellTheTruth`). The secrets a delivery has read were in force at most
  a tick ago (`Timely`). The answers an owner has yet to act on carry secrets of their own, later than the endpoint's, and the row says
  what the last of them does (`Informed`). Hence what a delivery read of a webhook came with such an answer, if the endpoint does not know it yet, and whatever replaces it leaves
  its grace (`Known`): an endpoint one rotation behind knows the second signature, and one that is ahead accepts the first. A delivery's flushed rows hold their webhooks, so that no deletion takes them in between (`Held`), what is flushed is what the endpoints
  saw, for a test by its own rule of success, and one that failed had come to a webhook that was gone (`Witnessed`); what is committed is what was flushed by those that ended well (`Committed`).
* **Services_proofs.** `ReadyIsWhole`: `ReadyHasFile` needs that who is to record has
  written (`WholeWhenReady`) and that the run which made a job ready is over (`Kept`). `PoliciesTyped`, `ArchiveIsNotUndone`, `ReplacedIsKept`: only a commit writes
  the row, and it writes the state only if the request changed it from what it read.
  `MatcherDecidesAsCedar`: for every set of understood rules and every approval status, the Python decision is that of the two Cedar calls
  exactly if `EnginesDiffer` does not name the request; rule by
  rule (`ReadAlike`), then by which kinds of rules match (`CedarByMatches`, `GatesApply`, `MatcherByMatches`). `FallbackAgrees` is `EnginesAgree` for every request. `ServicesTyped` is the type invariant of the composition.
* **Platform_proofs.** For the components around the core. `LimiterTyped`, `Admissions` (`NeverOverAdmits`):
  what is admitted and what is left is paid for by the burst and the refill up to the stamp; a step that moves the stamp back
  adds as much to `late`. `PoolInOrder` (`PoolKeepsOrder`): an index is with one thread (`SlotsApart`), so is a process, and no other index leads to it
  (`ProcsApart`); what lies in its pipes belongs to the thread that reads from it (`PipesTidy`); who is alive is in the list or
  will be terminated (`AllAccounted`). Only together are they inductive: that a reader gets its own answer needs that nobody else can have written to
  that process. That the permits never exceed the size is `PermitsInv`: each is free or with a thread. `LeaveComesFirst`: the verdict of a wait is what was heard (`HeardRight`), and a decided approval does not change.
  `RevokedForGood`: a request about a key writes one column and never reaches the writes of a member's row (`KeyAsksApart`).
  `ProvisioningTyped`, `OneOrganization` (`ProvisionedOnce`): who inserted a slug holds it while there is no such organization
  (`SlugsHeld`), who lost finds the winner's (`RaceWasWon`), a first start is that of the worker whose row was committed
  (`FirstBootIsWinner`). `NothingLoosens` (`OnlyTightens`): each stage tightens what the one before decided, for any weights, thresholds and modes.
* **Agents_proofs.** `ListenersAreTold` (`ListenersHearTheTruth`) joins three. A wait that times out missed a late decision only: at
  each place of the wait it is known how long a decision may have gone unheard, one poll and one reply at most (`WaitInv`).
  A flag is grounded: what Redis counts, some other visit has added, since a visit is counted after its answer (`CountInv`).
  A stream is whole: a socket's queue, what its handler holds and what it has sent are, in a row, the events meant for it (`StreamInv`).
  `RowsAreKept` (`RowsStick`): who writes a member is alone with the row from flush to commit, and no event that gives a role follows that of one
  which still holds the row (`ChangeInv`, `EventsInv`); likewise an agent's columns hold what the last that wrote them assigned (`RegistryInv`), and keys by `RevokedForGood`.
  `AssistantIsHonest` (`SaysWhatIs`): a chat has read a counter that the exchanges of its conversation still bear out, and holds the conversation from its
  save to its commit (`ChatInv`). `PlatformTyped` is the type invariant of the composition, under `PlatformSpec`, in which every component
  takes its own steps (the run moves one of them at a time).

### What is left to TLC

Out of the prover's reach is everything temporal - `WritersFinish`, `DecisionReachesRun`, `ApprovalEnds`,
`StaleEntryEnds`, `EvaluationsEnd`, `ServicesEnd`, `PlatformEnds` - since it handles neither liveness under fairness nor ENABLED. The six violations are counterexamples
of single instances. `EvaluationsImplementLog` is the refinement in the form of a scene, with the
decider of the instance left idle; its theorem is `EvaluatorsAppend`.

The library's induction theorems take operators as parameters, which the provers here cannot instantiate, so no proof
is by induction over data. Where one would be expected, the argument goes over a least or greatest
number (`LeastNumber`, `LeastIndex`, `GreatestIndex`), over cardinalities (`CountInv`, `QuotaInv`, `Tallies`) or over
indices (`StreamsAreWhole`, `TrailTellsRole` and `ProfilesStick` are stated by index for that reason).
No module that is proved about declares a RECURSIVE operator.

## 5. Where code and documents disagree

Shown by a run (findings of PROJECT.json, with the lines quoted):

1. *audit_fork.* `SELECT ... FOR UPDATE` does not prevent duplicate sequence
   numbers between writers that share no other lock (`audit_service.py:70`).
2. *approval_oldlink.* Two concurrent escalations give their links the same
   `token_version`; the link of a superseded approver decides (`approvals.py:566`).
3. *approval_circuit.* `db_only_circuit_open` violates the CHECK constraint on
   `workflow_fallback_mode`: an evaluation that needs approval fails while the circuit is open.
4. *evaluation_week.* The weekly reset leaves the Redis counter: a week that is used up
   stays used up.
5. *members_revoked.* A sign-in reads an invitation, an administrator revokes it, the sign-in writes `active`
   (`sso_service.py:162`): the member is back and the trail says revoked.
6. *risk_thresholds.* Two changes of the risk configuration are each in order against the row they read, and together
   put the lower threshold above the upper (`risk_config.py:97`).

Met while modelling, without a run of their own (each is in the model unless noted):

* Evaluation: two concurrent requests with one Idempotency-Key both run, and a response stored before a commit that
  fails is replayed; `DECR` can create a counter key at -1 that has no expiry;
  a limit of N admits N-1; the cache is invalidated before the commit (`redis_service.py:231`),
  and settings changes do not invalidate it (`docs/enterprise_guide.md:53` says none is needed).
* Audit: in a forked log a cursor client may miss an event, since the cursor is a number
  (`docs/quickstart.md:188` promises every evaluation a record, which holds).
* Approvals: an escalation accepted after a decision, e-mails of a reminder repeated when its
  transaction rolls back, an escalation that shortens the window, a step added to a decided
  request, a workflow window that escalation does not extend, quorum `all`
  (`docs/enterprise_guide.md`) that no decision reads (not modelled).
* Temporal: after half-open more than one probe may be in flight (`temporal_service.py:30`); signals to closed runs count as failures (not modelled);
  with TEMPORAL_HOST unset five creations in 30 s open the circuit (not modelled).
* Webhooks: a failure at a later webhook, or of the process, takes the rows of
  delivered attempts back (`webhook_service.py:6` says every attempt is recorded; `RowsTellTheTruth` names the cases); a second
  rotation within the grace drops the first old secret, and then "Old signature accepted for N hours" (`routes/webhooks.py:348`) does not
  hold for an endpoint that still has it (`OneRotationApart` is the condition under which it does); two concurrent rotations may both answer, and keep one old secret;
  `test_webhook` records a 3xx as success (`routes/webhooks.py:407`), a delivery does not, although the code says neither why nor that they differ; a retry does not look whether
  the delivery failed; test deliveries lack one header (not modelled).
* Exports: a start re-runs jobs that another worker is running (`audit_service.py:326` says it is safe to call again; the outcome may flip
  between ready and failed, though a ready job always has its file); `mkstemp` precedes the `try`; files of crashed runs stay; the file is local to a pod (not modelled).
* Policies: a rename takes a snapshot without a new version, after which that version cannot be
  rolled back to (MultipleResultsFound); concurrent activate and archive leave `archived` with `active` true (`models.py:84`);
  concurrent edits lose one and may share a version number; an overwriting import takes no snapshot and may set `active` against `state`.
* Engine: the two engines "produce the same decision" (`test_engine_parity.py:1`) on the requests its tests try, and not on others, all in the model. The matcher looks at
  neither the principal nor the resource of a head, so that in the `warn` mode a permit for another agent or another resource is honoured; it does not find
  a permit whose action is open, nor a forbid that names a principal and leaves the action open; it ignores an `unless` on anything but the approval; a condition beyond it is read as something else
  (`Understood` excludes these). Over the rules that remain (`EnginesDiffer`): a gate written as the validator's hint says (`policy_engine.py:1134`), without
  `context has approval_status`, is skipped by Cedar as long as there is no approval, so that beside a permit the CLI answers ALLOW and the matcher APPROVAL_REQUIRED;
  a plain forbid beside a gate is DENY to Cedar and APPROVAL_REQUIRED to the matcher; and after a refused approval the matcher asks again.
  A failing second CLI call turns an approval into a denial.
* Rate limiter: a script that runs late moves the stamp back, and its ticks are paid out twice.
* Members: the session of a revoked member lasts until it expires; the event of a change of role that changes nothing may come last and
  say an older role; inviting a revoked member violates the unique index.
* Agents: a registration by the SDK resets `trust_level` and replaces the metadata; a change of the description writes the metadata as it
  was read; a change of an agent deleted meanwhile is a server error.
* Provisioning: with migration 003's trigger and the seeds of the code together an organization made by Clerk has ten policies, and the quickstart
  never applies on premises; a worker that dies between the commit of the bootstrap and the print takes the only showing of the key with it.
* Assessment: with the default weights only `eu_ai_act_art13` can ever block; `compliance_service.py` calls itself advisory, while a control set to enforce
  denies; weights are never normalised; `docs/enterprise_guide.md:53` does not hold for cached decisions.
* Copilot: "last 20" messages are the first 20; after a lost cache entry only the newest exchange is kept; `message_count` loses updates; the two
  rows of an exchange have one `created_at`; policies it makes do not invalidate the cache of evaluations.
* Baseline: `ZSCORE` and `ZRANGE` may straddle a count; a death between `ZINCRBY` and `EXPIRE` leaves a key that does not expire (not modelled).
* Stream: a client that is gone is noticed at the next event only; an `accept` that fails leaves its queue subscribed.
* Clients: LangChain's `_arun` blocks the event loop (not modelled); an exception in the thread of `on_approval_resolved` means that the callback is never called.

## 6. What is not modelled

Row-level security and tenants: every model considers one organization. Message formats, token
signing, hashing, cryptography. Lost acknowledgements of commits. The condition language of the
matcher and the validation of rules. The read-only routes (search, reports, analytics, simulation, templates): they change nothing, and their results
are formatting of what the models hold. The expiry of keys and sessions, scopes and role checks: comparisons on what a lookup returned. The
TypeScript client and the command line, which pass requests on. The dashboard, deployment and scripts. The composition of Evaluation with AuditChain and Approval in one state space: they
meet at the organizations row and at the creation of an approval, which each side models as its own lock and its own
outcome (`Evaluators` hold the row in AuditChain, `Creator` is an evaluation in Approval).
The parts with status `not_modelled` in PROJECT.json each have their reason there.

## 7. What could come next

1. An abstract evaluation service that Evaluation, AuditChain and Approval refine together over the row lock they share.
2. Snapshots by version: a rollback promise for PolicyLifecycle, once stated so that its exceptions are named.
3. An abstract delivery service for Webhooks (a row for every webhook alive, signed with a secret in force), of which
   `Verifiable` and `RowsAreTrue` are the two halves.
4. For a log that has forked: what a cursor client still receives, as a function of where the fork lies.

Running: `tlc -workers 2 -config Services.cfg MCServices` and likewise for every run of PROJECT.json; `tlapm X_proofs.tla` for every proof module.
