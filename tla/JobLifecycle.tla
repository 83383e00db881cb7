---------------------------- MODULE JobLifecycle ----------------------------
(***************************************************************************)
(* The asynchronous analysis jobs of the API process: the rows of the jobs *)
(* table, the background executor with its worker threads, the request     *)
(* threads that submit, cancel and retry jobs, and the start, shutdown and *)
(* crash of the process.                                                   *)
(*                                                                         *)
(* Every repository method runs under the repository's instance lock, so   *)
(* one method call is one step; a handler or the worker function is        *)
(* several steps, and what it read in one of them may be stale in the      *)
(* next.  A writing method executes its statement and then commits.  When  *)
(* the commit raises nothing is rolled back (db.py:673-689): the write     *)
(* stays in the open transaction of the one shared connection, where every *)
(* thread reads it, is published by the next commit of any method, and is  *)
(* lost when the process ends before one.  So the table is modelled twice: *)
(* as the connection shows it and as it was last committed.                *)
(*                                                                         *)
(* One API process is modelled: jobs.py is "single-process only" and the   *)
(* image starts one uvicorn worker.                                        *)
(***************************************************************************)
EXTENDS Naturals, Sequences

CONSTANTS
    Jobs,        \* job ids: the uuid4 values create_job may be given
    NoJob,       \* "no job": an idle thread's job, an original job's parent
    Workers,     \* threads of the executor (PROVENANCE_MAX_BACKGROUND_JOBS)
    Submitters,  \* request threads that submit and retry
    Cancellers,  \* request threads that cancel
    MaxFaults,   \* bound: repository calls that raise
    MaxCrashes   \* bound: times the process is killed

ASSUME ConstantsAssumption ==
    /\ NoJob \notin Jobs
    /\ Submitters \cap Cancellers = {}
    /\ MaxFaults \in Nat
    /\ MaxCrashes \in Nat

Requests == Submitters \cup Cancellers

VARIABLES
    \* the jobs table, as the connection of the process shows it
    status,       \* status column; "unused" before the insert, "deleted" after
    completedAt,  \* the jobs whose completed_at is not NULL
    result,       \* the jobs whose result_json is not NULL
    retryCount,   \* retry_count column
    parent,       \* parent_job_id column
    usage,        \* rows of usage_records, by job and status_code
    saved,        \* the same columns as last committed: what survives the process
    \* the process
    proc,         \* "serving", "draining" (lifespan shutdown), "stopped", "crashed"
    queue,        \* work items the executor has not handed to a thread
    pc,           \* worker thread: the next statement of run_job_background
    task,         \* worker thread: its job
    inExcept,     \* the worker threads inside the except block
    rpc,          \* request thread: the next statement of its handler
    rjob,         \* request thread: its job
    \* bounds and history
    faults, crashes,
    runs,           \* how many times the analysis of a job was started
    toldCancelled,  \* the jobs for which a DELETE answered "cancelled"
    unsure          \* the jobs whose 200 record was inserted by a call that raised

dbVars      == <<status, completedAt, result, retryCount, parent, usage>>
workerVars  == <<pc, task, inExcept>>
requestVars == <<rpc, rjob>>
boundVars   == <<faults, crashes>>
histVars    == <<runs, toldCancelled, unsure>>
vars == <<dbVars, saved, proc, queue, workerVars, requestVars, boundVars, histVars>>

Terminal == {"completed", "failed", "cancelled"}
Cancellation == {"cancelled", "cancellation_requested"}
RowStatus == Terminal \cup {"queued", "running", "cancellation_requested"}
Codes == {200, 500}

Rows == [status |-> status, completedAt |-> completedAt, result |-> result,
         retryCount |-> retryCount, parent |-> parent, usage |-> usage]

Exists(j) == status[j] \in RowStatus
Billed(j) == usage[j][200] + usage[j][500]

Init ==
    /\ status = [j \in Jobs |-> "unused"]
    /\ completedAt = {}
    /\ result = {}
    /\ retryCount = [j \in Jobs |-> 0]
    /\ parent = [j \in Jobs |-> NoJob]
    /\ usage = [j \in Jobs |-> [c \in Codes |-> 0]]
    /\ saved = Rows
    /\ proc = "stopped"
    /\ queue = <<>>
    /\ pc = [w \in Workers |-> "idle"]
    /\ task = [w \in Workers |-> NoJob]
    /\ inExcept = {}
    /\ rpc = [r \in Requests |-> "idle"]
    /\ rjob = [r \in Requests |-> NoJob]
    /\ faults = 0
    /\ crashes = 0
    /\ runs = [j \in Jobs |-> 0]
    /\ toldCancelled = {}
    /\ unsure = {}

-----------------------------------------------------------------------------
(* The repository's writes, up to their commit. UPDATE ... WHERE job_id = ? changes an existing *)
(* row whatever its status is, and nothing when there is no row.            *)

SetStatus(j, s) ==
    status' = [status EXCEPT ![j] = IF @ \in RowStatus THEN s ELSE @]

update_job_status(j, s) ==
    /\ SetStatus(j, s)
    /\ UNCHANGED <<completedAt, result, retryCount, parent, usage>>

complete_job(j) ==
    /\ SetStatus(j, "completed")
    /\ completedAt' = completedAt \cup {j}
    /\ result' = result \cup {j}
    /\ UNCHANGED <<retryCount, parent, usage>>

fail_job(j) ==
    /\ SetStatus(j, "failed")
    /\ completedAt' = completedAt \cup {j}
    /\ UNCHANGED <<result, retryCount, parent, usage>>

\* Mutant: the conditional update forgets completed_at.
MutCancelUndated(j) ==
    IF status[j] = "queued"
    THEN /\ status' = [status EXCEPT ![j] = "cancelled"]
         /\ UNCHANGED <<completedAt, result, retryCount, parent, usage>>
    ELSE UNCHANGED dbVars

\* Called with expected_status = 'queued' and new_status = 'cancelled' only.
cancel_job_if_status(j) ==
    IF status[j] = "queued"
    THEN /\ status' = [status EXCEPT ![j] = "cancelled"]
         /\ completedAt' = completedAt \cup {j}
         /\ UNCHANGED <<result, retryCount, parent, usage>>
    ELSE UNCHANGED dbVars

create_job(j, count, par) ==
    /\ status' = [status EXCEPT ![j] = "queued"]
    /\ retryCount' = [retryCount EXCEPT ![j] = count]
    /\ parent' = [parent EXCEPT ![j] = par]
    /\ UNCHANGED <<completedAt, result, usage>>

record_usage(j, code) ==
    /\ usage' = [usage EXCEPT ![j][code] = @ + 1]
    /\ UNCHANGED <<status, completedAt, result, retryCount, parent>>

\* conn.commit() publishes whatever the connection has written since the last one.
Commit == saved' = Rows'

-----------------------------------------------------------------------------
(* The worker thread: run_job_background, one step per repository call.    *)

Goto(w, label) ==
    /\ pc' = [pc EXCEPT ![w] = label]
    /\ UNCHANGED <<task, inExcept>>

\* Mutant: the thread keeps its job.
MutReleaseKeepsTask(w) ==
    /\ pc' = [pc EXCEPT ![w] = "idle"]
    /\ inExcept' = inExcept \ {w}
    /\ UNCHANGED task

\* The function returns, or an exception leaves it and ends in a Future that
\* nobody reads: either way the thread is free for the next work item.
Release(w) ==
    /\ pc' = [pc EXCEPT ![w] = "idle"]
    /\ task' = [task EXCEPT ![w] = NoJob]
    /\ inExcept' = inExcept \ {w}

WorkerFrame == UNCHANGED <<proc, queue, requestVars, boundVars, toldCancelled, unsure>>

\* A free thread takes the oldest work item.
Pickup(w) ==
    /\ pc[w] = "idle"
    /\ queue # <<>>
    /\ queue' = Tail(queue)
    /\ pc' = [pc EXCEPT ![w] = "picked"]
    /\ task' = [task EXCEPT ![w] = Head(queue)]
    /\ UNCHANGED <<dbVars, saved, proc, inExcept, requestVars, boundVars, histVars>>

\* Pre-check: the job may be gone or cancelled before the worker got to it.
PreCheck(w) ==
    /\ pc[w] = "picked"
    /\ IF Exists(task[w]) /\ status[task[w]] \notin Cancellation
       THEN Goto(w, "starting")
       ELSE Release(w)
    /\ UNCHANGED <<dbVars, saved, runs>>
    /\ WorkerFrame

\* Written whatever the status has become since the pre-check.
MarkRunning(w) ==
    /\ pc[w] = "starting"
    /\ update_job_status(task[w], "running")
    /\ Commit
    /\ runs' = [runs EXCEPT ![task[w]] = @ + 1]
    /\ Goto(w, "analyzing")
    /\ WorkerFrame

\* run_analysis is external to this module: it returns or raises.
AnalysisReturns(w) ==
    /\ pc[w] = "analyzing"
    /\ Goto(w, "checking")
    /\ UNCHANGED <<dbVars, saved, runs>>
    /\ WorkerFrame

\* Mutant: the analysis runs outside the try block.
MutAnalysisUncaught(w) ==
    /\ pc[w] = "analyzing"
    /\ Release(w)
    /\ UNCHANGED <<dbVars, saved, runs>>
    /\ WorkerFrame

AnalysisRaises(w) ==
    /\ pc[w] = "analyzing"
    /\ pc' = [pc EXCEPT ![w] = "checking"]
    /\ inExcept' = inExcept \cup {w}
    /\ UNCHANGED <<dbVars, saved, task, runs>>
    /\ WorkerFrame

\* Mutant: the post-check is missing.
MutNoPostCheck(w) ==
    /\ pc[w] = "checking"
    /\ Goto(w, IF w \in inExcept THEN "failing" ELSE "completing")
    /\ UNCHANGED <<dbVars, saved, runs>>
    /\ WorkerFrame

\* Post-check, the same in the try and in the except block.
PostCheck(w) ==
    /\ pc[w] = "checking"
    /\ Goto(w, IF status[task[w]] = "cancellation_requested" THEN "cancel1"
               ELSE IF w \in inExcept THEN "failing" ELSE "completing")
    /\ UNCHANGED <<dbVars, saved, runs>>
    /\ WorkerFrame

\* A cancelled job is written three times: cancelled, failed, cancelled.
CancelFirst(w) ==
    /\ pc[w] = "cancel1"
    /\ update_job_status(task[w], "cancelled")
    /\ Commit
    /\ Goto(w, "cancel2")
    /\ UNCHANGED runs
    /\ WorkerFrame

CancelFail(w) ==
    /\ pc[w] = "cancel2"
    /\ fail_job(task[w])
    /\ Commit
    /\ Goto(w, "cancel3")
    /\ UNCHANGED runs
    /\ WorkerFrame

CancelLast(w) ==
    /\ pc[w] = "cancel3"
    /\ update_job_status(task[w], "cancelled")
    /\ Commit
    /\ Release(w)
    /\ UNCHANGED runs
    /\ WorkerFrame

Complete(w) ==
    /\ pc[w] = "completing"
    /\ complete_job(task[w])
    /\ Commit
    /\ Goto(w, "recording")
    /\ UNCHANGED runs
    /\ WorkerFrame

Fail(w) ==
    /\ pc[w] = "failing"
    /\ fail_job(task[w])
    /\ Commit
    /\ Goto(w, "recording")
    /\ UNCHANGED runs
    /\ WorkerFrame

\* Mutant: the two status codes are swapped.
MutRecordSwapped(w) ==
    /\ pc[w] = "recording"
    /\ record_usage(task[w], IF w \in inExcept THEN 200 ELSE 500)
    /\ Commit
    /\ Release(w)
    /\ UNCHANGED runs
    /\ WorkerFrame

RecordUsage(w) ==
    /\ pc[w] = "recording"
    /\ record_usage(task[w], IF w \in inExcept THEN 500 ELSE 200)
    /\ Commit
    /\ Release(w)
    /\ UNCHANGED runs
    /\ WorkerFrame

\* The write of the worker's next call, executed but not committed.
Uncommitted(w) ==
    \/ pc[w] = "starting" /\ update_job_status(task[w], "running")
    \/ pc[w] \in {"cancel1", "cancel3"} /\ update_job_status(task[w], "cancelled")
    \/ pc[w] \in {"cancel2", "failing"} /\ fail_job(task[w])
    \/ pc[w] = "completing" /\ complete_job(task[w])
    \/ pc[w] = "recording" /\ record_usage(task[w], IF w \in inExcept THEN 500 ELSE 200)

\* A repository call of the worker raises, at its statement or at its commit.
\* Before the try block and inside the except block the exception leaves the
\* function; inside the try block it is handled like a failed analysis.
RepoRaises(w) ==
    /\ pc[w] \notin {"idle", "analyzing"}
    /\ faults < MaxFaults
    /\ faults' = faults + 1
    /\ \/ UNCHANGED <<dbVars, unsure>>
       \/ /\ Uncommitted(w)
          /\ unsure' = IF pc[w] = "recording" /\ w \notin inExcept
                       THEN unsure \cup {task[w]} ELSE unsure
    /\ IF pc[w] \in {"picked", "starting"} \/ w \in inExcept
       THEN Release(w)
       ELSE /\ pc' = [pc EXCEPT ![w] = "checking"]
            /\ inExcept' = inExcept \cup {w}
            /\ UNCHANGED task
    /\ UNCHANGED <<saved, proc, queue, requestVars, crashes, runs, toldCancelled>>

WorkerStep(w) ==
    \/ Pickup(w) \/ PreCheck(w) \/ MarkRunning(w)
    \/ AnalysisReturns(w) \/ AnalysisRaises(w) \/ PostCheck(w)
    \/ CancelFirst(w) \/ CancelFail(w) \/ CancelLast(w)
    \/ Complete(w) \/ Fail(w) \/ RecordUsage(w)

-----------------------------------------------------------------------------
(* The request threads. Authentication, ownership, rate and daily limits   *)
(* answer before anything is written and are left to other modules.        *)

Reply(r) ==
    /\ rpc' = [rpc EXCEPT ![r] = "idle"]
    /\ rjob' = [rjob EXCEPT ![r] = NoJob]

RequestAt(r, label, j) ==
    /\ rpc' = [rpc EXCEPT ![r] = label]
    /\ rjob' = [rjob EXCEPT ![r] = j]

RequestFrame == UNCHANGED <<proc, workerVars, boundVars, runs, unsure>>

\* Mutant: the row of a new job is not committed before the job is submitted.
MutInsertUncommitted(r, j) ==
    /\ proc = "serving"
    /\ rpc[r] = "idle"
    /\ status[j] = "unused"
    /\ create_job(j, 0, NoJob)
    /\ UNCHANGED saved
    /\ RequestAt(r, "submit", j)
    /\ UNCHANGED <<queue, toldCancelled>>
    /\ RequestFrame

\* POST /v1/analyze/async, up to the insert; the submission is a later step.
AnalyzeAsync(r, j) ==
    /\ proc = "serving"
    /\ rpc[r] = "idle"
    /\ status[j] = "unused"
    /\ create_job(j, 0, NoJob)
    /\ Commit
    /\ RequestAt(r, "submit", j)
    /\ UNCHANGED <<queue, toldCancelled>>
    /\ RequestFrame

SubmitToExecutor(r) ==
    /\ rpc[r] = "submit"
    /\ queue' = Append(queue, rjob[r])
    /\ Reply(r)
    /\ UNCHANGED <<dbVars, saved, toldCancelled>>
    /\ RequestFrame

\* POST /v1/jobs/{job_id}/retry: any status but 'failed' is answered 409.
RetryRead(r, j) ==
    /\ proc = "serving"
    /\ rpc[r] = "idle"
    /\ status[j] = "failed"
    /\ RequestAt(r, "retry", j)
    /\ UNCHANGED <<dbVars, saved, queue, toldCancelled>>
    /\ RequestFrame

\* Mutant: the old job id is submitted instead of the new one.
MutRetryOldId(r, new) ==
    /\ rpc[r] = "retry"
    /\ status[new] = "unused"
    /\ create_job(new, retryCount[rjob[r]] + 1, rjob[r])
    /\ Commit
    /\ RequestAt(r, "submit", rjob[r])
    /\ UNCHANGED <<queue, toldCancelled>>
    /\ RequestFrame

\* retry_count comes from the row read before; the column never changes.
RetryCreate(r, new) ==
    /\ rpc[r] = "retry"
    /\ status[new] = "unused"
    /\ create_job(new, retryCount[rjob[r]] + 1, rjob[r])
    /\ Commit
    /\ RequestAt(r, "submit", new)
    /\ UNCHANGED <<queue, toldCancelled>>
    /\ RequestFrame

\* The daily limit is checked after the row was read: 429, nothing is written.
RetryRefused(r) ==
    /\ rpc[r] = "retry"
    /\ Reply(r)
    /\ UNCHANGED <<dbVars, saved, queue, toldCancelled>>
    /\ RequestFrame

\* Mutant: a queued job is marked like a running one, without the
\* conditional update.
MutCancelUnconditional(r, j) ==
    /\ proc = "serving"
    /\ rpc[r] = "idle"
    /\ status[j] \in {"queued", "running"}
    /\ RequestAt(r, "request", j)
    /\ UNCHANGED <<dbVars, saved, queue, toldCancelled>>
    /\ RequestFrame

\* DELETE /v1/jobs/{job_id}: the branch is chosen on the status read here.
\* 'completed', 'failed' and 'cancellation_requested' are answered at once.
CancelRead(r, j) ==
    /\ proc = "serving"
    /\ rpc[r] = "idle"
    /\ \/ status[j] = "queued" /\ RequestAt(r, "cas", j) /\ UNCHANGED toldCancelled
       \/ status[j] = "running" /\ RequestAt(r, "request", j) /\ UNCHANGED toldCancelled
       \/ /\ status[j] = "cancelled"
          /\ toldCancelled' = toldCancelled \cup {j}
          /\ UNCHANGED requestVars
    /\ UNCHANGED <<dbVars, saved, queue>>
    /\ RequestFrame

CancelIfQueued(r) ==
    /\ rpc[r] = "cas"
    /\ cancel_job_if_status(rjob[r])
    /\ Commit
    /\ RequestAt(r, "reread", rjob[r])
    /\ UNCHANGED <<queue, toldCancelled>>
    /\ RequestFrame

CancelReread(r) ==
    /\ rpc[r] = "reread"
    /\ IF Exists(rjob[r]) /\ status[rjob[r]] # "cancelled"
       THEN RequestAt(r, "request", rjob[r]) /\ UNCHANGED toldCancelled
       ELSE Reply(r) /\ toldCancelled' = toldCancelled \cup {rjob[r]}
    /\ UNCHANGED <<dbVars, saved, queue>>
    /\ RequestFrame

\* Written whatever the status has become since it was read.
CancelRequest(r) ==
    /\ rpc[r] = "request"
    /\ update_job_status(rjob[r], "cancellation_requested")
    /\ Commit
    /\ Reply(r)
    /\ UNCHANGED <<queue, toldCancelled>>
    /\ RequestFrame

\* A repository call of a handler raises, at its statement or at its commit: the
\* client gets a 500, and what the handler did before stays.
RequestRaises(r) ==
    /\ rpc[r] \in {"retry", "cas", "reread", "request"}
    /\ faults < MaxFaults
    /\ faults' = faults + 1
    /\ \/ UNCHANGED dbVars
       \/ /\ rpc[r] = "retry"
          /\ \E new \in Jobs : /\ status[new] = "unused"
                              /\ create_job(new, retryCount[rjob[r]] + 1, rjob[r])
       \/ rpc[r] = "cas" /\ cancel_job_if_status(rjob[r])
       \/ rpc[r] = "request" /\ update_job_status(rjob[r], "cancellation_requested")
    /\ Reply(r)
    /\ UNCHANGED <<saved, proc, queue, workerVars, crashes, histVars>>

\* The insert of a new job raises at its commit: a row that nobody will submit.
InsertRaises(r, j) ==
    /\ proc = "serving"
    /\ rpc[r] = "idle"
    /\ status[j] = "unused"
    /\ faults < MaxFaults
    /\ faults' = faults + 1
    /\ create_job(j, 0, NoJob)
    /\ UNCHANGED <<saved, proc, queue, workerVars, requestVars, crashes, histVars>>

\* A request that has begun runs to its reply.
RequestStep(r) ==
    \/ SubmitToExecutor(r)
    \/ (\E j \in Jobs : RetryCreate(r, j)) \/ RetryRefused(r)
    \/ CancelIfQueued(r) \/ CancelReread(r) \/ CancelRequest(r)

-----------------------------------------------------------------------------
(* The process: lifespan start-up, graceful shutdown, crash.               *)

ThreadsGone ==
    /\ queue' = <<>>
    /\ pc' = [w \in Workers |-> "idle"]
    /\ task' = [w \in Workers |-> NoJob]
    /\ inExcept' = {}
    /\ rpc' = [r \in Requests |-> "idle"]
    /\ rjob' = [r \in Requests |-> NoJob]

\* Mutant: queued rows are left to a worker that no longer exists.
MutRecoverRunningOnly == {j \in Jobs : status[j] = "running"}

\* The rows recover_stale_jobs marks failed: it has two updates, one commit.
recover_stale_jobs == {j \in Jobs : status[j] \in {"queued", "running"}}

\* The rows after recovery and clean-up.
Swept(stale, old) ==
    [Rows EXCEPT !.status = [j \in Jobs |-> IF j \in stale THEN "failed"
                                           ELSE IF j \in old THEN "deleted"
                                           ELSE status[j]],
                 !.completedAt = @ \cup stale]

\* recover_stale_jobs, then cleanup_jobs; requests are served only afterwards.
\* The age of a row is not modelled: any terminal rows whose completed_at is set
\* may be past the retention period, those just recovered excepted. What the two
\* calls raise is swallowed: of recovery's updates none, the first or both were
\* executed then, and a later commit publishes what is still open.
Startup(recovering) ==
    /\ proc \in {"stopped", "crashed"}
    /\ recovering \/ faults < MaxFaults
    /\ faults' = IF recovering THEN faults ELSE faults + 1
    /\ \E stale \in IF recovering THEN {recover_stale_jobs}
                    ELSE {{}, {j \in Jobs : status[j] = "running"}, recover_stale_jobs},
          old \in SUBSET {j \in completedAt : status[j] \in Terminal} :
         /\ status' = Swept(stale, old).status
         /\ completedAt' = Swept(stale, old).completedAt
         /\ saved' \in IF recovering THEN {Swept(stale, old)}
                      ELSE {saved, Swept(stale, {}), Swept(stale, old)}
    /\ proc' = "serving"
    /\ UNCHANGED <<result, retryCount, parent, usage, queue, workerVars, requestVars,
                   crashes, histVars>>

\* The commit of any other call of the process, of which every request makes one
\* (the API key's last_used_at, a session, an event): it publishes an open write.
CommitElsewhere ==
    /\ proc \in {"serving", "draining"}
    /\ saved # Rows
    /\ saved' = Rows
    /\ UNCHANGED <<dbVars, proc, queue, workerVars, requestVars, boundVars, histVars>>

\* What was not committed when the connection is gone is rolled back.
RollBack ==
    /\ status' = saved.status
    /\ completedAt' = saved.completedAt
    /\ result' = saved.result
    /\ retryCount' = saved.retryCount
    /\ parent' = saved.parent
    /\ usage' = saved.usage
    /\ UNCHANGED saved

\* uvicorn lets the requests in flight finish before the lifespan shuts down.
BeginShutdown ==
    /\ proc = "serving"
    /\ \A r \in Requests : rpc[r] = "idle"
    /\ proc' = "draining"
    /\ UNCHANGED <<dbVars, saved, queue, workerVars, requestVars, boundVars, histVars>>

\* Mutant: pending work items are dropped (cancel_futures=True).
MutShutdownDrops ==
    /\ proc = "draining"
    /\ \A w \in Workers : pc[w] = "idle"
    /\ proc' = "stopped"
    /\ queue' = <<>>
    /\ RollBack
    /\ UNCHANGED <<workerVars, requestVars, boundVars, histVars>>

\* shutdown(wait=True) returns when the queue is empty and every thread is idle;
\* then the repository is closed.
EndShutdown ==
    /\ proc = "draining"
    /\ queue = <<>>
    /\ \A w \in Workers : pc[w] = "idle"
    /\ proc' = "stopped"
    /\ RollBack
    /\ UNCHANGED <<queue, workerVars, requestVars, boundVars, histVars>>

Crash ==
    /\ proc \in {"serving", "draining"}
    /\ crashes < MaxCrashes
    /\ crashes' = crashes + 1
    /\ proc' = "crashed"
    /\ ThreadsGone
    /\ RollBack
    /\ UNCHANGED <<faults, histVars>>

Next ==
    \/ \E w \in Workers : WorkerStep(w) \/ RepoRaises(w)
    \/ \E r \in Submitters, j \in Jobs : AnalyzeAsync(r, j) \/ InsertRaises(r, j) \/ RetryRead(r, j)
    \/ \E r \in Cancellers, j \in Jobs : CancelRead(r, j)
    \/ \E r \in Requests : RequestStep(r) \/ RequestRaises(r)
    \/ \E recovering \in BOOLEAN : Startup(recovering)
    \/ CommitElsewhere
    \/ BeginShutdown
    \/ EndShutdown
    \/ Crash

Spec == Init /\ [][Next]_vars

(***************************************************************************)
(* A thread that can run runs: worker threads and request threads are      *)
(* scheduled by the operating system, the analysis ends, the container     *)
(* runtime restarts a stopped process, and shutdown(wait=True) returns     *)
(* once the pool is idle.  Clients owe nothing: no fairness on the start   *)
(* of a request, on a shutdown, a fault or a crash.                        *)
(***************************************************************************)
Fairness ==
    /\ \A w \in Workers : WF_vars(WorkerStep(w))
    /\ \A r \in Requests : WF_vars(RequestStep(r))
    /\ WF_vars(Startup(TRUE))
    /\ WF_vars(EndShutdown)

FairSpec == Spec /\ Fairness

-----------------------------------------------------------------------------
(* Invariants *)

WorkerLabels == {"idle", "picked", "starting", "analyzing", "checking", "cancel1",
                 "cancel2", "cancel3", "completing", "failing", "recording"}
RequestLabels == {"idle", "submit", "retry", "cas", "reread", "request"}

SavedRows == [status : [Jobs -> RowStatus \cup {"unused", "deleted"}],
              completedAt : SUBSET Jobs, result : SUBSET Jobs, retryCount : [Jobs -> Nat],
              parent : [Jobs -> Jobs \cup {NoJob}], usage : [Jobs -> [Codes -> Nat]]]

\* Every variable has its type, and a thread has a job exactly when it is busy.
TypeOK ==
    /\ status \in [Jobs -> RowStatus \cup {"unused", "deleted"}]
    /\ completedAt \subseteq Jobs
    /\ result \subseteq Jobs
    /\ retryCount \in [Jobs -> Nat]
    /\ parent \in [Jobs -> Jobs \cup {NoJob}]
    /\ usage \in [Jobs -> [Codes -> Nat]]
    /\ saved \in SavedRows
    /\ proc \in {"serving", "draining", "stopped", "crashed"}
    /\ queue \in Seq(Jobs)
    /\ pc \in [Workers -> WorkerLabels]
    /\ task \in [Workers -> Jobs \cup {NoJob}]
    /\ inExcept \subseteq Workers
    /\ rpc \in [Requests -> RequestLabels]
    /\ rjob \in [Requests -> Jobs \cup {NoJob}]
    /\ faults \in Nat
    /\ crashes \in Nat
    /\ runs \in [Jobs -> Nat]
    /\ toldCancelled \subseteq Jobs
    /\ unsure \subseteq Jobs
    /\ \A w \in Workers : (task[w] = NoJob) <=> (pc[w] = "idle")
    /\ \A r \in Requests : (rjob[r] = NoJob) <=> (rpc[r] = "idle")

\* The three places a job can be on its way through the process.
Submitting(r, j) == rpc[r] = "submit" /\ rjob[r] = j
Queued(i, j) == i \in 1..Len(queue) /\ queue[i] = j
Held(w, j) == task[w] = j

Owned(j) ==
    \/ \E r \in Requests : Submitting(r, j)
    \/ \E i \in 1..Len(queue) : Queued(i, j)
    \/ \E w \in Workers : Held(w, j)

\* A job is in at most one place: one request about to submit it, one place of
\* the queue, or one worker (routes.py submits every created id once).
OneOwner ==
    \A j \in Jobs :
        /\ \A r1, r2 \in Requests : Submitting(r1, j) /\ Submitting(r2, j) => r1 = r2
        /\ \A i, k \in 1..Len(queue) : Queued(i, j) /\ Queued(k, j) => i = k
        /\ \A v, w \in Workers : Held(v, j) /\ Held(w, j) => v = w
        /\ \A r \in Requests : Submitting(r, j) =>
              /\ \A i \in 1..Len(queue) : ~Queued(i, j)
              /\ \A w \in Workers : ~Held(w, j)
        /\ \A w \in Workers : Held(w, j) => \A i \in 1..Len(queue) : ~Queued(i, j)

\* A job is analysed at most once, and leaves at most one usage record of a status
\* code and only after its analysis began, however its worker fails and however the
\* process is restarted (jobs.py:123). Two records, 200 and 500, are left only by a
\* job whose 200 record was inserted by a call that raised at its commit.
AtMostOnce ==
    \A j \in Jobs :
        /\ runs[j] <= 1
        /\ \A c \in Codes : usage[j][c] <= runs[j]
        /\ Billed(j) > 1 => j \in unsure

\* A 200 usage record exists only for a job whose result is stored, and nothing
\* ever marks such a job failed, unless the call that inserted the record raised.
BilledWork ==
    \A j \in Jobs : usage[j][200] > 0 =>
        j \in result /\ (status[j] = "failed" => j \in unsure)

Interrupted == {j \in Jobs : status[j] \in {"queued", "running"}}

\* A job that waits or runs has somebody working on it: unless a repository call
\* raised, no job of a live process is left behind (docs/architecture.md:595).
NoOrphans ==
    faults = 0 /\ proc \in {"serving", "draining"} =>
        \A j \in Interrupted : Owned(j)

\* A clean shutdown leaves no job waiting or running (docs/architecture.md:676).
CleanShutdown == faults = 0 /\ proc = "stopped" => Interrupted = {}

\* While no call raised and no process was killed, a terminal row has the
\* completed_at that cleanup_jobs compares, once its worker is done with it.
TerminalRowsDated ==
    faults = 0 /\ crashes = 0 =>
        \A j \in Jobs : status[j] \in Terminal /\ ~Owned(j) => j \in completedAt

-----------------------------------------------------------------------------
(* Action properties *)

\* A request to cancel, once committed, is never undone by a late start: the worker
\* marks a job running from 'queued' or, when a cancel slipped in after the pre-check,
\* from 'cancelled', never from 'cancellation_requested' (jobs.py:83-92).
RequestNotOverrun ==
    [][\A j \in Jobs : saved.status[j] = "cancellation_requested"
                          => saved'.status[j] # "running"]_vars

-----------------------------------------------------------------------------
(* Liveness *)

\* Every accepted job is eventually neither waiting nor running, with workers
\* racing cancels and with a process that may be killed and restarted.
JobsSettle ==
    \A j \in Jobs : status[j] \in {"queued", "running"}
                       ~> status[j] \notin {"queued", "running"}

\* A cancellation that arrives while the analysis runs ends in 'cancelled', unless
\* the process is killed first: the post-check sees it (jobs.py:102-113).
Analyzing(j) == \E w \in Workers : task[w] = j /\ pc[w] = "analyzing"
CancelHonoured ==
    \A j \in Jobs : status[j] = "cancellation_requested" /\ Analyzing(j)
                       ~> status[j] = "cancelled" \/ proc = "crashed"
=============================================================================
