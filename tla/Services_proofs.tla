---------------------------- MODULE Services_proofs ----------------------------
(***************************************************************************)
(* Proofs about the exports, the policies and the policy engine, for every *)
(* set of jobs, runs and workers, every number of requests and every set   *)
(* of rules; and, with those about webhooks, the types of the four.        *)
(***************************************************************************)
EXTENDS Services, Webhooks_proofs

-------------------------------------------------------------------------------
(* Exports *)

(* A run that is about to record has written its file. *)
WholeWhenReady == \A r \in Runs : run[r].stage = "ready" => file[r] = "whole"

(* The run that made a job ready is over, so that nothing writes to its file  *)
(* or removes it any more.                                                    *)
Kept ==
  \A j \in Jobs : job[j].status = "ready" =>
    /\ job[j].path \in Runs /\ file[job[j].path] = "whole"
    /\ run[job[j].path].stage = "over"

ExportsIInv == ExportsTypeOK /\ WholeWhenReady /\ Kept

(* What the steps of a run have in common: it is in one of Running's stages. *)
LEMMA RunningRun ==
  ASSUME ExportsTypeOK, NEW r \in Runs, run[r].stage \notin {"unused", "over"}
  PROVE  run[r] \in Running
  BY DEF ExportsTypeOK, Unused, Over

(* A run that moves on to a stage, or ends, keeps the type of the runs. *)
LEMMA StageType ==
  ASSUME ExportsTypeOK, NEW r \in Runs, run[r] \in Running,
         NEW s \in {"create", "stream", "ready", "unlink", "fail"}, Stage(r, s)
  PROVE  /\ run' \in [Runs -> {Unused, Over} \cup Running]
         /\ run'[r].stage = s
         /\ \A o \in Runs : o # r => run'[o] = run[o]
<1>1. [run[r] EXCEPT !.stage = s] \in Running
  BY DEF Running
<1>2. [run[r] EXCEPT !.stage = s].stage = s
  BY DEF Running
<1> DEFINE next == [run[r] EXCEPT !.stage = s]
<1>3. run' = [run EXCEPT ![r] = next]
  BY DEF Stage
<1> HIDE DEF next
<1> QED BY <1>1, <1>2, <1>3 DEF ExportsTypeOK, next

LEMMA EndType ==
  ASSUME ExportsTypeOK, NEW r \in Runs, End(r)
  PROVE  /\ run' \in [Runs -> {Unused, Over} \cup Running]
         /\ run'[r].stage = "over"
         /\ \A o \in Runs : o # r => run'[o] = run[o]
<1>1. run'[r] = Over /\ \A o \in Runs : o # r => run'[o] = run[o]
  BY DEF End, ExportsTypeOK
<1>2. run' \in [Runs -> {Unused, Over} \cup Running]
  BY DEF End, ExportsTypeOK
<1> QED BY <1>1, <1>2 DEF Over

(* A step of a run that leaves the jobs alone keeps the invariant, if it      *)
(* writes to no file but its own and has written it when it is to record.     *)
LEMMA OwnFileOnly ==
  ASSUME ExportsIInv, NEW r \in Runs, run[r] \in Running,
         run' \in [Runs -> {Unused, Over} \cup Running],
         \A o \in Runs : o # r => run'[o] = run[o],
         file' \in [Runs -> {"none", "partial", "whole"}],
         \A o \in Runs : o # r => file'[o] = file[o],
         run'[r].stage = "ready" => file'[r] = "whole",
         UNCHANGED <<job, up>>, unrecorded' \subseteq Jobs
  PROVE  ExportsIInv'
<1>1. ExportsTypeOK'
  BY DEF ExportsIInv, ExportsTypeOK
<1>2. WholeWhenReady'
  BY DEF ExportsIInv, WholeWhenReady
<1>3. ASSUME NEW j \in Jobs, job[j].status = "ready", job[j].path = r PROVE FALSE
  BY <1>3 DEF ExportsIInv, Kept, Running
<1>4. Kept'
  BY <1>3 DEF ExportsIInv, Kept
<1> QED BY <1>1, <1>2, <1>4 DEF ExportsIInv

(* A step that ends a run and leaves the files alone keeps what the invariant *)
(* says of the runs.                                                          *)
LEMMA EndedRun ==
  ASSUME ExportsIInv, NEW r \in Runs, End(r), UNCHANGED file
  PROVE  /\ WholeWhenReady'
         /\ \A p \in Runs : run[p].stage = "over" => run'[p].stage = "over"
  BY EndType DEF ExportsIInv, WholeWhenReady

LEMMA ExportsInitIInv == ExportsInit => ExportsIInv
  BY DEF ExportsInit, ExportsIInv, ExportsTypeOK, WholeWhenReady, Kept, Unused, JobStatuses, NoFile

LEMMA ExportsStepIInv ==
  ASSUME ExportsIInv, [ExportsNext]_exportVars
  PROVE  ExportsIInv'
<1>0. ExportsTypeOK
  BY DEF ExportsIInv
<1>1. ASSUME NEW w \in Workers, NEW j \in Jobs, NEW r \in Runs, StartExport(w, j, r)
      PROVE  ExportsIInv'
  <2>1. Task(j, w) \in Running /\ Task(j, w).stage = "create"
    BY DEF Task, Running
  <2>2. run' = [run EXCEPT ![r] = Task(j, w)] /\ run[r].stage = "unused"
    BY <1>1 DEF StartExport, Unstarted
  <2>3. /\ run' \in [Runs -> {Unused, Over} \cup Running]
        /\ run'[r].stage = "create"
        /\ \A o \in Runs : o # r => run'[o] = run[o]
    BY <1>0, <2>1, <2>2 DEF ExportsTypeOK
  <2>4. job' = [job EXCEPT ![j].status = "pending"] /\ UNCHANGED <<file, up, unrecorded>>
    BY <1>1 DEF StartExport
  <2>5. job' \in [Jobs -> [status : JobStatuses, path : Runs \cup {NoFile}]]
    BY <1>0, <2>4 DEF ExportsTypeOK, JobStatuses
  <2>6. /\ job'[j].status = "pending"
        /\ \A i \in Jobs : i # j => job'[i] = job[i]
    BY <1>0, <2>4 DEF ExportsTypeOK
  <2>7. ExportsTypeOK'
    BY <1>0, <2>3, <2>4, <2>5 DEF ExportsTypeOK
  <2>8. WholeWhenReady'
    BY <2>3, <2>4 DEF ExportsIInv, WholeWhenReady
  <2>9. Kept'
    BY <2>2, <2>3, <2>4, <2>6 DEF ExportsIInv, Kept
  <2> QED BY <2>7, <2>8, <2>9 DEF ExportsIInv
<1>2. ASSUME NEW r \in Runs, OpenFile(r) PROVE ExportsIInv'
  <2>1. run[r] \in Running /\ run[r].job \in Jobs
    BY <1>0, <1>2, RunningRun DEF OpenFile, Running
  <2>2. CASE Stage(r, "stream") /\ file' = [file EXCEPT ![r] = "partial"]
             /\ UNCHANGED <<job, up, unrecorded>>
    BY <1>0, <2>1, <2>2, StageType, OwnFileOnly DEF ExportsTypeOK
  <2>3. CASE End(r) /\ unrecorded' = unrecorded \cup {run[r].job} /\ UNCHANGED <<file, job, up>>
    BY <1>0, <2>1, <2>3, EndType, OwnFileOnly DEF ExportsTypeOK
  <2> QED BY <1>2, <2>2, <2>3 DEF OpenFile, PathOf
<1>3. ASSUME NEW r \in Runs, Stream(r) PROVE ExportsIInv'
  <2>1. run[r] \in Running
    BY <1>0, <1>3, RunningRun DEF Stream
  <2>2. CASE Stage(r, "ready") /\ file' = [file EXCEPT ![r] = "whole"]
    BY <1>0, <1>3, <2>1, <2>2, StageType, OwnFileOnly DEF Stream, ExportsTypeOK
  <2>3. CASE Stage(r, "unlink") /\ UNCHANGED file
    BY <1>0, <1>3, <2>1, <2>3, StageType, OwnFileOnly DEF Stream, ExportsTypeOK
  <2> QED BY <1>3, <2>2, <2>3 DEF Stream, PathOf
<1>4. ASSUME NEW r \in Runs, RecordReady(r) PROVE ExportsIInv'
  <2>1. run[r] \in Running /\ run[r].job \in Jobs
    BY <1>0, <1>4, RunningRun DEF RecordReady, Running
  <2>2. UNCHANGED <<file, up, unrecorded>>
    BY <1>4 DEF RecordReady
  <2>3. CASE End(r) /\ job' = [job EXCEPT ![run[r].job] = [status |-> "ready", path |-> r]]
    <3>1. ExportsTypeOK'
      BY <1>0, <2>1, <2>2, <2>3, EndType DEF ExportsTypeOK, JobStatuses
    <3>2. file[r] = "whole" /\ run'[r].stage = "over"
      BY <1>0, <1>4, <2>3, EndType DEF ExportsIInv, WholeWhenReady, RecordReady
    <3>3. /\ job'[run[r].job].path = r
          /\ \A j \in Jobs : j # run[r].job => job'[j] = job[j]
      BY <1>0, <2>1, <2>3 DEF ExportsTypeOK
    <3>4. Kept'
      BY <2>2, <2>3, <3>2, <3>3, EndedRun DEF ExportsIInv, Kept
    <3> QED BY <2>2, <2>3, <3>1, <3>4, EndedRun DEF ExportsIInv
  <2>4. CASE Stage(r, "unlink") /\ UNCHANGED job
    BY <1>0, <2>1, <2>2, <2>4, StageType, OwnFileOnly DEF ExportsTypeOK
  <2> QED BY <1>4, <2>3, <2>4 DEF RecordReady, PathOf
<1>5. ASSUME NEW r \in Runs, Unlink(r) PROVE ExportsIInv'
  <2>1. run[r] \in Running
    BY <1>0, <1>5, RunningRun DEF Unlink
  <2> QED BY <1>0, <1>5, <2>1, StageType, OwnFileOnly DEF Unlink, PathOf, ExportsTypeOK
<1>6. ASSUME NEW r \in Runs, RecordFailed(r) PROVE ExportsIInv'
  <2>1. run[r] \in Running /\ run[r].job \in Jobs
    BY <1>0, <1>6, RunningRun DEF RecordFailed, Running
  <2>2. End(r) /\ UNCHANGED <<file, up>>
    BY <1>6 DEF RecordFailed
  <2>3. CASE /\ job' = [job EXCEPT ![run[r].job].status = "failed"]
             /\ UNCHANGED unrecorded
    <3>1. job' \in [Jobs -> [status : JobStatuses, path : Runs \cup {NoFile}]]
      BY <1>0, <2>1, <2>3 DEF ExportsTypeOK, JobStatuses
    <3>2. ExportsTypeOK'
      BY <1>0, <2>2, <2>3, <3>1, EndType DEF ExportsTypeOK
    <3>3. /\ job'[run[r].job].status = "failed"
          /\ \A j \in Jobs : j # run[r].job => job'[j] = job[j]
      BY <1>0, <2>1, <2>3 DEF ExportsTypeOK
    <3>4. Kept'
      BY <2>2, <3>3, EndedRun DEF ExportsIInv, Kept
    <3> QED BY <2>2, <3>2, <3>4, EndedRun DEF ExportsIInv
  <2>4. CASE unrecorded' = unrecorded \cup {run[r].job} /\ UNCHANGED job
    BY <1>0, <2>1, <2>2, <2>4, EndType, OwnFileOnly DEF ExportsTypeOK
  <2> QED BY <1>6, <2>3, <2>4 DEF RecordFailed
<1>7. ASSUME NEW w \in Workers, WorkerDies(w) PROVE ExportsIInv'
  <2>1. /\ \A r \in Runs : run'[r] = Over \/ run'[r] = run[r]
        /\ run' = [r \in Runs |-> run'[r]]
        /\ up' \subseteq Workers /\ UNCHANGED <<job, file, unrecorded>>
    BY <1>0, <1>7 DEF WorkerDies, ExportsTypeOK
  <2>2. ExportsTypeOK'
    BY <1>0, <2>1 DEF ExportsTypeOK
  <2>3. Over.stage = "over"
    BY DEF Over
  <2> QED BY <2>1, <2>2, <2>3 DEF ExportsIInv, WholeWhenReady, Kept
<1>8. ASSUME NEW w \in Workers, WorkerStarts(w) PROVE ExportsIInv'
  <2>1. up' \subseteq Workers /\ unrecorded' \subseteq Jobs /\ UNCHANGED <<job, file>>
    BY <1>0, <1>8 DEF WorkerStarts, ExportsTypeOK, Pending
  <2>2. /\ run' = [r \in Runs |-> run'[r]]
        /\ \A r \in Runs : \/ run'[r] = run[r]
                           \/ run[r].stage = "unused" /\ \E j \in Jobs : run'[r] = Task(j, w)
    <3>1. CASE UNCHANGED run
      BY <1>0, <3>1 DEF ExportsTypeOK
    <3>2. ASSUME NEW task \in [Pending -> Unstarted],
                 run' = [r \in Runs |-> IF \E j \in Pending : task[j] = r
                                        THEN Task(CHOOSE j \in Pending : task[j] = r, w)
                                        ELSE run[r]]
          PROVE  \A r \in Runs : \/ run'[r] = run[r]
                                 \/ run[r].stage = "unused"
                                    /\ \E j \in Jobs : run'[r] = Task(j, w)
      <4>1. ASSUME NEW r \in Runs, NEW j \in Pending, task[j] = r
            PROVE  /\ run[r].stage = "unused"
                   /\ \E i \in Jobs : run'[r] = Task(i, w)
        <5>1. (CHOOSE i \in Pending : task[i] = r) \in Jobs
          BY <4>1 DEF Pending
        <5>2. run'[r] = Task(CHOOSE i \in Pending : task[i] = r, w)
          BY <3>2, <4>1
        <5>3. r \in Unstarted
          BY <4>1
        <5> QED BY <5>1, <5>2, <5>3 DEF Unstarted
      <4> QED BY <3>2, <4>1
    <3> QED BY <1>8, <3>1, <3>2 DEF WorkerStarts
  <2>3. \A j \in Jobs : Task(j, w) \in Running /\ Task(j, w).stage = "create"
    BY DEF Task, Running
  <2>4. ExportsTypeOK'
    BY <1>0, <2>1, <2>2, <2>3 DEF ExportsTypeOK
  <2> QED BY <2>1, <2>2, <2>3, <2>4 DEF ExportsIInv, WholeWhenReady, Kept
<1>9. CASE UNCHANGED exportVars
  BY <1>9 DEF ExportsIInv, ExportsTypeOK, WholeWhenReady, Kept, exportVars
<1> QED
  BY <1>1, <1>2, <1>3, <1>4, <1>5, <1>6, <1>7, <1>8, <1>9 DEF ExportsNext, RunStep

LEMMA ExportsInvariant == ExportsSpec => []ExportsIInv
BY ExportsInitIInv, ExportsStepIInv, PTL DEF ExportsSpec

(* A job that says it is ready can be downloaded whole, for every number of    *)
(* jobs, runs and workers: no other run of the job, none that fails and cleans *)
(* up, touches the file of the run that made it ready (_run_export_job).       *)
THEOREM ReadyIsWhole == ExportsSpec => []ReadyHasFile
<1>1. ExportsIInv => ReadyHasFile
  BY DEF ExportsIInv, Kept, ReadyHasFile
<1> QED BY <1>1, ExportsInvariant, PTL

-------------------------------------------------------------------------------
(* The policies' lifecycle *)

LEMMA WithStateType ==
  ASSUME NEW p \in Policy, NEW s \in States
  PROVE  WithState(p, s) \in Policy
  BY DEF WithState, StateToActive, Policy, States

LEMMA PatchedType ==
  ASSUME NEW p \in Policy, NEW rule \in Rules, NEW wish \in {"none", "active", "archived"}
  PROVE  Patched(p, rule, wish) \in Policy
<1> DEFINE q == IF wish = "none" THEN p ELSE WithState(p, wish)
<1>1. q \in Policy
  BY WithStateType DEF States
<1>2. p.version + 1 \in Nat
  BY DEF Policy
<1>3. [q EXCEPT !.rule = rule, !.version = p.version + 1] \in Policy
  BY <1>1, <1>2 DEF Policy
<1> QED BY <1>1, <1>3 DEF Patched

LEMMA WrittenType ==
  ASSUME NEW p \in Policy, NEW read \in Policy, NEW new \in Policy
  PROVE  Written(read, new, p) \in Policy
  BY DEF Written, Policy

(* A request that has an intention, or none, keeps the types. *)
LEMMA MeanType ==
  ASSUME PoliciesTypeOK, NEW q \in Request, NEW new \in Policy, NEW b \in BOOLEAN,
         Mean(q, new, b)
  PROVE  PoliciesTypeOK'
  BY DEF PoliciesTypeOK, Mean

LEMMA AnswerType ==
  ASSUME PoliciesTypeOK, NEW q \in Request, Answer(q)
  PROVE  PoliciesTypeOK'
  BY DEF PoliciesTypeOK, Answer

LEMMA PoliciesInitType == PoliciesInit => PoliciesTypeOK
  BY DEF PoliciesInit, PoliciesTypeOK, Policy, States

LEMMA PoliciesStepType ==
  ASSUME PoliciesTypeOK, [PoliciesNext]_policyVars
  PROVE  PoliciesTypeOK'
<1>0. policy \in Policy /\ policy.version + 1 \in Nat
  BY DEF PoliciesTypeOK, Policy
<1>1. ASSUME NEW q \in Request, UpdatePolicy(q) PROVE PoliciesTypeOK'
  <2>1. PICK rule \in Rules, wish \in {"none", "active", "archived"} :
          Mean(q, Patched(policy, rule, wish), TRUE)
    BY <1>1 DEF UpdatePolicy
  <2> QED BY <1>0, <2>1, PatchedType, MeanType
<1>2. ASSUME NEW q \in Request, NEW s \in States, SetState(q, s) PROVE PoliciesTypeOK'
  <2>1. CASE Answer(q)
    BY <2>1, AnswerType
  <2>2. CASE Mean(q, WithState(policy, s), FALSE)
    BY <1>0, <2>2, WithStateType, MeanType
  <2> QED BY <1>2, <2>1, <2>2 DEF SetState
<1>3. ASSUME NEW q \in Request, DeletePolicy(q) PROVE PoliciesTypeOK'
  <2>1. WithState(policy, "archived") \in Policy
    BY <1>0, WithStateType DEF States
  <2> QED BY <1>3, <2>1, MeanType DEF DeletePolicy
<1>4. ASSUME NEW q \in Request, Rollback(q) PROVE PoliciesTypeOK'
  <2>1. PICK s \in history :
          IF Versions(s.was.version) = {s}
          THEN Mean(q, [WithState(policy, s.was.state) EXCEPT
                          !.rule = s.was.rule, !.version = @ + 1], TRUE)
          ELSE Answer(q)
    BY <1>4 DEF Rollback
  <2> DEFINE restored == WithState(policy, s.was.state)
  <2>2. s.was.state \in States /\ s.was.rule \in Rules
    BY DEF PoliciesTypeOK, Policy
  <2> DEFINE new == [restored EXCEPT !.rule = s.was.rule, !.version = @ + 1]
  <2>3. restored \in Policy
    BY <1>0, <2>2, WithStateType
  <2>4. new \in Policy
    <3> HIDE DEF restored
    <3>1. restored.version + 1 \in Nat
      BY <2>3 DEF Policy
    <3> QED BY <2>2, <2>3, <3>1 DEF Policy
  <2>5. CASE Mean(q, new, TRUE)
    <3> HIDE DEF new
    <3> QED BY <2>4, <2>5, MeanType
  <2> QED BY <2>1, <2>5, AnswerType
<1>5. ASSUME NEW q \in Request, Import(q) PROVE PoliciesTypeOK'
  <2>1. PICK rule \in Rules, s \in States, a \in BOOLEAN :
          Mean(q, [rule |-> rule, state |-> s, active |-> a,
                   version |-> policy.version + 1], FALSE)
    BY <1>5 DEF Import
  <2>2. [rule |-> rule, state |-> s, active |-> a, version |-> policy.version + 1] \in Policy
    BY <1>0 DEF Policy
  <2> QED BY <2>1, <2>2, MeanType
<1>6. ASSUME NEW q \in Request, CommitPolicy(q) PROVE PoliciesTypeOK'
  <2>1. request[q].read \in Policy /\ request[q].new \in Policy
    BY <1>6 DEF PoliciesTypeOK, CommitPolicy
  <2>2. policy' \in Policy
    BY <1>0, <1>6, <2>1, WrittenType DEF CommitPolicy
  <2>3. history' \subseteq [by : Request, was : Policy]
    BY <1>6, <2>1 DEF PoliciesTypeOK, CommitPolicy, Snapshot
  <2> QED BY <1>6, <2>2, <2>3 DEF PoliciesTypeOK, CommitPolicy
<1>7. ASSUME NEW q \in Request, Abort(q) PROVE PoliciesTypeOK'
  BY <1>7, AnswerType DEF Abort
<1>8. CASE UNCHANGED policyVars
  BY <1>8 DEF PoliciesTypeOK, policyVars
<1> QED
  BY <1>1, <1>2, <1>3, <1>4, <1>5, <1>6, <1>7, <1>8
     DEF PoliciesNext, Activate, Archive, States

(* The row, the history and the requests keep their types, for every number   *)
(* of requests and every set of rules.                                        *)
THEOREM PoliciesTyped == PoliciesSpec => []PoliciesTypeOK
  BY PoliciesInitType, PoliciesStepType, PTL DEF PoliciesSpec

-------------------------------------------------------------------------------
(* Only a commit changes the row, and the requests that read end by it. *)
LEMMA OnlyCommitsWrite ==
  ASSUME [PoliciesNext]_policyVars, policy' # policy
  PROVE  \E q \in Request : CommitPolicy(q)
  BY DEF PoliciesNext, policyVars, UpdatePolicy, Activate, Archive, SetState, DeletePolicy,
         Rollback, Import, Abort, Mean, Answer

(* A stale PATCH or rollback never brings an archived policy back into force:  *)
(* the request that does read it in another state than active, and asked for   *)
(* it to be active (update_policy, activate_policy, rollback_policy, import).  *)
THEOREM ArchiveIsNotUndone == PoliciesSpec => ArchiveSticks
<1> DEFINE Good == policy.state = "archived" /\ policy'.state = "active" =>
                     \E q \in Request : /\ Commits(q)
                                        /\ request[q].read.state # "active"
                                        /\ request[q].new.state = "active"
<1>1. ASSUME PoliciesTypeOK, [PoliciesNext]_policyVars,
             policy.state = "archived", policy'.state = "active"
      PROVE  \E q \in Request : /\ Commits(q)
                                /\ request[q].read.state # "active"
                                /\ request[q].new.state = "active"
  <2>1. PICK q \in Request : CommitPolicy(q)
    BY <1>1, OnlyCommitsWrite
  <2>2. q \in DOMAIN request /\ Commits(q)
    BY <1>1, <2>1 DEF CommitPolicy, Commits, PoliciesTypeOK
  <2>3. policy'.state = IF request[q].new.state # request[q].read.state
                        THEN request[q].new.state ELSE policy.state
    BY <1>1, <2>1 DEF CommitPolicy, Written, PoliciesTypeOK, Policy
  <2> QED BY <1>1, <2>1, <2>2, <2>3
<1>2. PoliciesTypeOK /\ [PoliciesNext]_policyVars => [Good]_policyVars
  BY <1>1
<1> QED BY <1>2, PoliciesTyped, PTL DEF PoliciesSpec, ArchiveSticks

(* What a PATCH or a rollback replaces, no other request having replaced it    *)
(* first, is in the history (_snapshot_policy).                                *)
THEOREM ReplacedIsKept == PoliciesSpec => HistoryKept
<1>1. ASSUME [PoliciesNext]_policyVars, NEW q \in Request,
             Commits(q), request[q].snapshots, ~Overtaken(q), policy'.rule # policy.rule
      PROVE  \E s \in history' : s.was = policy
  <2>1. PICK p \in Request : CommitPolicy(p)
    BY <1>1, OnlyCommitsWrite
  <2>2. p = q
    BY <1>1, <2>1 DEF CommitPolicy, Commits
  <2>3. [by |-> q, was |-> request[q].read] \in history'
    BY <1>1, <2>1, <2>2 DEF CommitPolicy, Snapshot
  <2> QED BY <1>1, <2>3 DEF Overtaken
<1>2. [PoliciesNext]_policyVars =>
        [\A q \in Request :
           (Commits(q) /\ request[q].snapshots /\ ~Overtaken(q) /\ policy'.rule # policy.rule)
           => \E s \in history' : s.was = policy]_policyVars
  BY <1>1
<1> QED BY <1>2, PTL DEF PoliciesSpec, HistoryKept

-------------------------------------------------------------------------------
(* The policy engine *)

(* The matcher and Cedar read the head and the `when` of an understood rule  *)
(* alike.                                                                     *)
LEMMA ReadAlike ==
  ASSUME NEW r \in Rule, Understood(r)
  PROVE  Matches(r) <=> InScope(r) /\ r.when
  BY DEF Rule, Named, Understood, Matches, ActionMatches, InScope, Gated

(* What Cedar says of understood rules: it allows if no forbid without a gate *)
(* matches, no gate applies, and a permit, or an approved gate, matches.      *)
LEMMA CedarByMatches ==
  ASSUME NEW rules \in SUBSET Rule, NEW status \in Statuses, \A r \in rules : Understood(r)
  PROVE  /\ Cedar(rules, status) \in {"ALLOW", "DENY"}
         /\ Cedar(rules, status) = "ALLOW" <=>
              /\ ~ForbidMatches(rules)
              /\ \A r \in Gates(rules) : ~Applies(r, status)
              /\ PermitMatches(rules) \/ (status = "approved" /\ Gates(rules) # {})
<1>1. \A r \in rules : Matches(r) <=> InScope(r) /\ r.when
  BY ReadAlike
<1>2. (\A r \in rules : r.effect = "forbid" => ~Applies(r, status)) <=>
        ~ForbidMatches(rules) /\ \A r \in Gates(rules) : ~Applies(r, status)
  <2>1. ASSUME NEW r \in rules, ~Gated(r)
        PROVE  Applies(r, status) <=> Matches(r)
    BY <1>1, <2>1 DEF Applies, Understood
  <2>2. ASSUME NEW r \in rules, Applies(r, status) PROVE Matches(r)
    BY <1>1, <2>2 DEF Applies
  <2>3. \A r \in rules : Gated(r) => r.effect = "forbid"
    BY DEF Gated
  <2> QED BY <2>1, <2>2, <2>3 DEF ForbidMatches, Gates
<1>3. (\E r \in rules : \/ r.effect = "permit" /\ Applies(r, status)
                       \/ CompanionApplies(r, status)) <=>
        PermitMatches(rules) \/ (status = "approved" /\ Gates(rules) # {})
  <2>1. ASSUME NEW r \in rules, r.effect = "permit"
        PROVE  Applies(r, status) <=> Matches(r)
    BY <1>1, <2>1 DEF Applies, Understood, Gated
  <2>2. ASSUME NEW r \in rules
        PROVE  CompanionApplies(r, status) <=> r \in Gates(rules) /\ status = "approved"
    BY <1>1 DEF CompanionApplies, Gates
  <2>3. Gates(rules) \subseteq rules
    BY DEF Gates
  <2> QED BY <2>1, <2>2, <2>3 DEF PermitMatches
<1> QED BY <1>2, <1>3 DEF Cedar

(* When the gates of understood rules apply.                                  *)
LEMMA GatesApply ==
  ASSUME NEW rules \in SUBSET Rule, \A r \in rules : Understood(r), NEW g \in Gates(rules)
  PROVE  /\ Applies(g, "absent") <=> g.unless = "approval"
         /\ Applies(g, "else") /\ ~Applies(g, "approved")
         /\ g.unless = "approval" <=> g.unless # "bare"
<1>1. g \in rules /\ Gated(g) /\ Matches(g)
  BY DEF Gates
<1>2. InScope(g) /\ g.when
  BY <1>1, ReadAlike
<1> QED BY <1>1, <1>2 DEF Applies, Gated

(* What the matcher says: it asks for an approval if a gate matches that is   *)
(* not yet approved, whatever else does.                                      *)
LEMMA MatcherByMatches ==
  ASSUME NEW rules \in SUBSET Rule, NEW status \in Statuses
  PROVE  PythonDecision(rules, status) =
           IF status # "approved" /\ Gates(rules) # {} THEN "APPROVAL_REQUIRED"
           ELSE IF ForbidMatches(rules) THEN "DENY"
           ELSE IF PermitMatches(rules) \/ Gates(rules) # {} THEN "ALLOW" ELSE "DENY"
<1>1. (\E r \in rules : PyForbid(r, status) /\ Gated(r)) <=>
        status # "approved" /\ Gates(rules) # {}
  BY DEF PyForbid, Gates, Gated
<1>2. (\E r \in rules : PyForbid(r, status) /\ ~Gated(r)) <=> ForbidMatches(rules)
  BY DEF PyForbid, ForbidMatches
<1>3. (\E r \in rules : PyPermit(r, status)) <=>
        PermitMatches(rules) \/ (status = "approved" /\ Gates(rules) # {})
  BY DEF PyPermit, PermitMatches, Gates
<1> QED BY <1>1, <1>2, <1>3 DEF PythonDecision

(* On understood rules the matcher decides as the two calls of the CLI do     *)
(* (_python_evaluator, _cedar_cli_evaluator), but for the requests that       *)
(* EnginesDiffer names, on which it never does.                               *)
THEOREM MatcherDecidesAsCedar ==
  ASSUME NEW rules \in SUBSET Rule, NEW status \in Statuses, \A r \in rules : Understood(r)
  PROVE  PythonDecision(rules, status) = CliDecision(rules, status, FALSE)
           <=> ~EnginesDiffer(rules, status)
<1> DEFINE asks == status = "absent" /\ Cedar(rules, "approved") = "ALLOW"
<1>1. "approved" \in Statuses /\ "absent" \in Statuses
  BY DEF Statuses
<1>2. CliDecision(rules, status, FALSE) =
        IF Cedar(rules, status) = "ALLOW" THEN "ALLOW"
        ELSE IF asks THEN "APPROVAL_REQUIRED" ELSE "DENY"
  BY DEF CliDecision
<1>3. Cedar(rules, "approved") = "ALLOW" <=>
        ~ForbidMatches(rules) /\ (PermitMatches(rules) \/ Gates(rules) # {})
  BY <1>1, CedarByMatches, GatesApply
<1>4. CASE status = "approved"
  BY <1>2, <1>3, <1>4, MatcherByMatches DEF EnginesDiffer
<1>5. CASE status = "else"
  <2>1. Cedar(rules, status) = "ALLOW" <=>
          ~ForbidMatches(rules) /\ Gates(rules) = {} /\ PermitMatches(rules)
    BY <1>5, CedarByMatches, GatesApply
  <2> QED BY <1>2, <1>5, <2>1, MatcherByMatches DEF EnginesDiffer
<1>6. CASE status = "absent"
  <2>1. Cedar(rules, status) = "ALLOW" <=>
          /\ ~ForbidMatches(rules) /\ PermitMatches(rules)
          /\ \A r \in Gates(rules) : r.unless = "bare"
    BY <1>6, CedarByMatches, GatesApply
  <2>2. CASE Gates(rules) = {}
    BY <1>2, <1>3, <1>6, <2>1, <2>2, MatcherByMatches DEF EnginesDiffer
  <2>3. CASE Gates(rules) # {}
    BY <1>2, <1>3, <1>6, <2>1, <2>3, MatcherByMatches DEF EnginesDiffer
  <2> QED BY <2>2, <2>3
<1> QED BY <1>4, <1>5, <1>6 DEF Statuses

-------------------------------------------------------------------------------
(* The inductive invariant: the answer is the one of evaluate_policies. *)
EngineIInv ==
        /\ asked \in Asked(SUBSET Rule)
        /\ answer = NoAnswer \/ answer = EvaluatePolicies(asked)

LEMMA AnsweredByEngine == EngineSpec => []EngineIInv
<1>1. EngineInit(SUBSET Rule) => EngineIInv
  BY DEF EngineInit, EngineIInv
<1>2. EngineIInv /\ [Evaluate]_engineVars => EngineIInv'
  BY DEF EngineIInv, Evaluate, engineVars
<1> QED BY <1>1, <1>2, PTL DEF EngineSpec

(* Losing the Cedar CLI, with the matcher in its place, changes the decision  *)
(* of a request over understood rules exactly if EnginesDiffer names it, and  *)
(* the default mode only denies: for every set of rules, where the run has    *)
(* two (evaluate_policies).                                                   *)
THEOREM FallbackAgrees == EngineSpec => []EnginesAgree
<1>1. EngineIInv => EnginesAgree
  <2>1. SUFFICES ASSUME EngineIInv, answer.source = "python_fallback"
                 PROVE  EnginesAgree
    BY DEF EnginesAgree
  <2>2. answer = EvaluatePolicies(asked)
    BY <2>1 DEF EngineIInv, NoAnswer, Result
  <2>3. answer = Result(FallbackDecision(asked.mode, asked.rules, asked.status),
                        "python_fallback")
    BY <2>1, <2>2 DEF EvaluatePolicies, Result
  <2>4. answer.decision = FallbackDecision(asked.mode, asked.rules, asked.status)
    BY <2>3 DEF Result
  <2>5. asked.rules \in SUBSET Rule /\ asked.status \in Statuses
    BY <2>1 DEF EngineIInv, Asked
  <2>6. CASE asked.mode = "warn"
    <3>1. answer.decision = PythonDecision(asked.rules, asked.status)
      BY <2>4, <2>6 DEF FallbackDecision
    <3>2. (\A r \in asked.rules : Understood(r)) =>
            (answer.decision = CliDecision(asked.rules, asked.status, FALSE)
               <=> ~EnginesDiffer(asked.rules, asked.status))
      BY <2>5, <3>1, MatcherDecidesAsCedar
    <3> QED BY <2>6, <3>2 DEF EnginesAgree
  <2>7. CASE asked.mode = "deny"
    BY <2>4, <2>7 DEF EnginesAgree, FallbackDecision
  <2>8. CASE asked.mode \notin {"warn", "deny"}
    BY <2>8 DEF EnginesAgree
  <2> QED BY <2>6, <2>7, <2>8
<1> QED BY <1>1, AnsweredByEngine, PTL

LEMMA EngineTyped == EngineSpec => []EngineTypeOK
<1>1. ASSUME NEW rules, NEW status
      PROVE  PythonDecision(rules, status) \in Decisions
  BY DEF PythonDecision, Decisions
<1>2. ASSUME NEW a PROVE EvaluatePolicies(a) \in [decision : Decisions, source : Sources]
  <2>1. a.rules = {} =>
          EvaluatePolicies(a) = Result(NoPolicyDecision(a.noPolicy), "no_policies")
    BY DEF EvaluatePolicies
  <2>2. a.rules # {} /\ (a.cli = "works" \/ a.cli = "second_fails") =>
          EvaluatePolicies(a) =
            Result(CliDecision(a.rules, a.status, a.cli = "second_fails"), "cedar_cli")
    BY DEF EvaluatePolicies
  <2>3. a.rules # {} /\ ~ (a.cli = "works" \/ a.cli = "second_fails") =>
          EvaluatePolicies(a) =
            Result(FallbackDecision(a.mode, a.rules, a.status), "python_fallback")
    BY DEF EvaluatePolicies
  <2>4. NoPolicyDecision(a.noPolicy) \in Decisions
    BY DEF NoPolicyDecision, Decisions
  <2>5. CliDecision(a.rules, a.status, a.cli = "second_fails") \in Decisions
    BY DEF CliDecision, Decisions
  <2>6. FallbackDecision(a.mode, a.rules, a.status) \in Decisions
    BY <1>1 DEF FallbackDecision, Decisions
  <2>7. \A decision \in Decisions, source \in Sources :
          Result(decision, source) \in [decision : Decisions, source : Sources]
    BY DEF Result
  <2> QED BY <2>1, <2>2, <2>3, <2>4, <2>5, <2>6, <2>7 DEF Sources
<1>3. EngineIInv => EngineTypeOK
  BY <1>2 DEF EngineIInv, EngineTypeOK
<1> QED BY <1>3, AnsweredByEngine, PTL

-------------------------------------------------------------------------------
(* The four components keep their types, each whatever the others do: they    *)
(* share no variable.                                                         *)
THEOREM ServicesTyped ==
  WebhooksSpec /\ ExportsSpec /\ PoliciesSpec /\ EngineSpec => []TypeOK
<1>1. ExportsSpec => []ExportsTypeOK
  <2>1. ExportsIInv => ExportsTypeOK
    BY DEF ExportsIInv
  <2> QED BY <2>1, ExportsInvariant, PTL
<1> QED BY <1>1, WebhooksTyped, PoliciesTyped, EngineTyped, PTL DEF TypeOK
===============================================================================
