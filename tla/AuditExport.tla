----------------------------- MODULE AuditExport -----------------------------
(***************************************************************************)
(* Asynchronous exports of the audit log: start_audit_export_job,          *)
(* _run_export_job and resume_pending_audit_exports of                     *)
(* services/audit_service.py, the download in routes/audit.py, and the     *)
(* workers of one pod, which share the directory of temporary files.       *)
(*                                                                         *)
(* A run is a task of one worker's event loop: it dies with the worker.  A *)
(* worker that starts runs every pending job again, and cannot tell a job  *)
(* that a crash cut short from one that another worker is still running.   *)
(***************************************************************************)
EXTENDS Integers, FiniteSets

CONSTANTS
  Jobs,      \* ids of export jobs
  Runs,      \* runs of them; bound: see Spare
  Workers    \* worker processes of a pod

NoFile == "none"

VARIABLES
  job,        \* the rows of audit_export_jobs
  run,        \* the tasks
  file,       \* the temporary file at each path
  up,         \* the workers that are up
  unrecorded  \* jobs that a disk or a database kept from being run or recorded

exportVars == <<job, run, file, up, unrecorded>>

Unused == [stage |-> "unused"]
Over == [stage |-> "over"]
Running == [stage : {"create", "stream", "ready", "unlink", "fail"},
            job : Jobs, worker : Workers]
JobStatuses == {"absent", "pending", "ready", "failed"}

ExportsTypeOK ==
  /\ job \in [Jobs -> [status : JobStatuses, path : Runs \cup {NoFile}]]
  /\ run \in [Runs -> {Unused, Over} \cup Running]
  /\ file \in [Runs -> {"none", "partial", "whole"}]
  /\ up \subseteq Workers
  /\ unrecorded \subseteq Jobs

ExportsInit ==
  /\ job = [j \in Jobs |-> [status |-> "absent", path |-> NoFile]]
  /\ run = [r \in Runs |-> Unused]
  /\ file = [r \in Runs |-> "none"]
  /\ up \in SUBSET Workers
  /\ unrecorded = {}

-------------------------------------------------------------------------------
OnePath(r) == CHOOSE p \in Runs : TRUE

(* mkstemp makes a name of its own for every run. *)
PathOf(r) == r

Unstarted == {r \in Runs : run[r].stage = "unused"}
Pending == {j \in Jobs : job[j].status = "pending"}

Task(j, w) == [stage |-> "create", job |-> j, worker |-> w]

Stage(r, s) == run' = [run EXCEPT ![r].stage = s]
End(r) == run' = [run EXCEPT ![r] = Over]

(* Bound: runs are left for k tasks, and for the starts of d workers. *)
Spare(k, d) == Cardinality(Unstarted) >= k + Cardinality(Jobs) * d
Down == Workers \ up

(* start_audit_export_job: the row is committed, then the task is made. *)
StartExport(w, j, r) ==
  /\ w \in up /\ job[j].status = "absent" /\ r \in Unstarted
  /\ Spare(1, Cardinality(Down))
  /\ job' = [job EXCEPT ![j].status = "pending"]
  /\ run' = [run EXCEPT ![r] = Task(j, w)]
  /\ UNCHANGED <<file, up, unrecorded>>

(* _run_export_job, up to the file being open and empty; mkstemp is called  *)
(* before the try, so that a disk that refuses it ends the task and leaves   *)
(* the row as it is.                                                         *)
OpenFile(r) ==
  /\ run[r].stage = "create"
  /\ \/ /\ file' = [file EXCEPT ![PathOf(r)] = "partial"]
        /\ Stage(r, "stream") /\ UNCHANGED unrecorded
     \/ /\ unrecorded' = unrecorded \cup {run[r].job}
        /\ End(r) /\ UNCHANGED file
  /\ UNCHANGED <<job, up>>

(* The events are all written and the file is closed, or an exception ends it. *)
Stream(r) ==
  /\ run[r].stage = "stream"
  /\ \/ file' = [file EXCEPT ![PathOf(r)] = "whole"] /\ Stage(r, "ready")
     \/ Stage(r, "unlink") /\ UNCHANGED file
  /\ UNCHANGED <<job, up, unrecorded>>

(* The row says ready; a database that is away raises into the handler. *)
RecordReady(r) ==
  /\ run[r].stage = "ready"
  /\ \/ /\ job' = [job EXCEPT ![run[r].job] = [status |-> "ready", path |-> PathOf(r)]]
        /\ End(r)
     \/ Stage(r, "unlink") /\ UNCHANGED job
  /\ UNCHANGED <<file, up, unrecorded>>

(* The handler removes the file of this run. *)
Unlink(r) ==
  /\ run[r].stage = "unlink"
  /\ file' = [file EXCEPT ![PathOf(r)] = "none"]
  /\ Stage(r, "fail")
  /\ UNCHANGED <<job, up, unrecorded>>

(* The row says failed, whatever it said before; file_path stays.  If the   *)
(* database refuses that too, the task ends and the row stays as it is.     *)
RecordFailed(r) ==
  /\ run[r].stage = "fail"
  /\ \/ job' = [job EXCEPT ![run[r].job].status = "failed"] /\ UNCHANGED unrecorded
     \/ unrecorded' = unrecorded \cup {run[r].job} /\ UNCHANGED job
  /\ End(r)
  /\ UNCHANGED <<file, up>>

(* A worker dies, and its tasks with it; their files stay. *)
WorkerDies(w) ==
  /\ w \in up
  /\ Spare(0, Cardinality(Down) + 1)
  /\ up' = up \ {w}
  /\ run' = [r \in Runs |-> IF run[r].stage \notin {"unused", "over"} /\ run[r].worker = w
                            THEN Over ELSE run[r]]
  /\ UNCHANGED <<job, file, unrecorded>>

StartsWithoutResuming(w) ==
  /\ w \notin up
  /\ up' = up \cup {w}
  /\ UNCHANGED <<job, run, file, unrecorded>>

(* lifespan: the worker starts and runs the pending jobs again, or logs that *)
(* it could not read them and starts all the same.                           *)
WorkerStarts(w) ==
  /\ w \notin up
  /\ up' = up \cup {w}
  /\ \/ /\ \E task \in [Pending -> Unstarted] :
             /\ \A i, j \in Pending : task[i] = task[j] => i = j
             /\ run' = [r \in Runs |-> IF \E j \in Pending : task[j] = r
                                       THEN Task(CHOOSE j \in Pending : task[j] = r, w)
                                       ELSE run[r]]
        /\ UNCHANGED unrecorded
     \/ unrecorded' = unrecorded \cup Pending /\ UNCHANGED run
  /\ UNCHANGED <<job, file>>

RunStep(r) ==
  OpenFile(r) \/ Stream(r) \/ RecordReady(r) \/ Unlink(r) \/ RecordFailed(r)

ExportsNext ==
  \/ \E w \in Workers, j \in Jobs, r \in Runs : StartExport(w, j, r)
  \/ \E r \in Runs : RunStep(r)
  \/ \E w \in Workers : WorkerDies(w) \/ WorkerStarts(w)

ExportsSpec == ExportsInit /\ [][ExportsNext]_exportVars

(* Tasks go on; a worker that dies is started again by uvicorn's supervisor. *)
ExportsFairness ==
  /\ \A r \in Runs : WF_exportVars(RunStep(r))
  /\ \A w \in Workers : WF_exportVars(WorkerStarts(w))

-------------------------------------------------------------------------------
(* A job that is ready names a file that holds the whole export, whichever   *)
(* runs of the same job still write, fail and clean up after it.             *)
ReadyHasFile ==
  \A j \in Jobs : job[j].status = "ready" =>
                    job[j].path \in Runs /\ file[job[j].path] = "whole"

(* No job is pending for ever: a run ends it, or a crash cuts the run short   *)
(* and the worker that starts next runs it again.  The exception is a         *)
(* disk that refuses the file, or a database that refuses the outcome of the  *)
(* run or, to a worker that starts, the list of the jobs: nothing looks at    *)
(* the job again before another start.                                        *)
JobsEnd == []<>(Pending \subseteq unrecorded)
===============================================================================
