---------------------------- MODULE BenchmarkRuns ----------------------------
(***************************************************************************)
(* The benchmark runs started from the dashboard: the benchmark_runs rows, *)
(* the manifest file of each run, the worker threads that execute runs     *)
(* behind a counting semaphore, and the requests that create, cancel and   *)
(* retry runs in place.                                                    *)
(*                                                                         *)
(* As in JobLifecycle a repository call is one step. A file is not: save() *)
(* truncates the manifest when it opens it and writes it afterwards, so a  *)
(* process killed in between leaves a file that cannot be parsed. An API   *)
(* run has one experiment, so the manifest is that experiment's status.    *)
(***************************************************************************)
EXTENDS Naturals, Sequences, FiniteSets

CONSTANTS
    Runs, NoRun,  \* run ids, and "no run"
    Workers,      \* threads of the executor
    Submitters,   \* request threads that create and retry
    Cancellers,   \* request threads that cancel
    MaxSlots,     \* PROVENANCE_MAX_BENCHMARK_RUNS
    MaxRetries,   \* bound: retry requests
    MaxFaults,    \* bound: repository or file operations that raise
    MaxCrashes    \* bound: times the process is killed

ASSUME BenchmarkAssumption ==
    /\ NoRun \notin Runs
    /\ Submitters \cap Cancellers = {}
    /\ IsFiniteSet(Workers)
    /\ MaxSlots \in Nat \ {0}

Requests == Submitters \cup Cancellers

VARIABLES
    \* the benchmark_runs table and the files, which survive a crash
    status,     \* status column; "unused" before the insert
    result,     \* the runs whose result_json is not NULL
    manifest,   \* manifest.json: absent, unreadable, or its experiment's status
    artifacts,  \* the runs whose experiment has written its results
    \* the process
    proc,       \* "serving", "draining", "stopped", "crashed"
    queue,      \* work items of the executor
    slots,      \* free slots of the semaphore
    pc, task,   \* worker thread: next statement, and its run
    entry,      \* worker thread: the experiment's status in its own manifest object
    rpc, rrun,  \* request thread: next statement, and its run
    \* bounds and history
    retries, faults, crashes,
    saved,          \* the runs whose manifest was once saved as completed
    toldCancelled   \* the runs reported cancelled and not retried since

rowVars     == <<status, result>>
diskVars    == <<manifest, artifacts>>
workerVars  == <<slots, pc, task, entry>>
requestVars == <<rpc, rrun>>
boundVars   == <<retries, faults, crashes>>
histVars    == <<saved, toldCancelled>>
vars == <<rowVars, diskVars, proc, queue, workerVars, requestVars, boundVars, histVars>>

Terminal == {"completed", "failed", "cancelled"}
RETRYABLE == {"failed", "cancelled"}
RowStatus == Terminal \cup {"queued", "running", "cancellation_requested"}

Init ==
    /\ status = [r \in Runs |-> "unused"]
    /\ result = {}
    /\ manifest = [r \in Runs |-> "absent"]
    /\ artifacts = {}
    /\ proc = "stopped"
    /\ queue = <<>>
    /\ slots = MaxSlots
    /\ pc = [w \in Workers |-> "idle"]
    /\ task = [w \in Workers |-> NoRun]
    /\ entry = [w \in Workers |-> "pending"]
    /\ rpc = [q \in Requests |-> "idle"]
    /\ rrun = [q \in Requests |-> NoRun]
    /\ retries = 0 /\ faults = 0 /\ crashes = 0
    /\ saved = {} /\ toldCancelled = {}

-----------------------------------------------------------------------------
(* The repository's writes *)

update_benchmark_run(r, s) ==
    /\ status' = [status EXCEPT ![r] = s]
    /\ UNCHANGED result

cancel_benchmark_run_if_status(r, expected, new) ==
    /\ status' = [status EXCEPT ![r] = IF @ = expected THEN new ELSE @]
    /\ UNCHANGED result

complete_benchmark_run(r) ==
    /\ status' = [status EXCEPT ![r] = "completed"]
    /\ result' = result \cup {r}

fail_benchmark_run(r) ==
    /\ status' = [status EXCEPT ![r] = "failed"]
    /\ UNCHANGED result

-----------------------------------------------------------------------------
(* The worker thread: _run_worker, _execute_run and BenchmarkRunner.run *)

Goto(w, label) == pc' = [pc EXCEPT ![w] = label] /\ UNCHANGED <<slots, task>>

HoldsSlot(w) == pc[w] \notin {"idle", "picked", "waiting"}

\* The function returns, or an exception leaves it; the finally block frees the
\* slot if the thread had one.
Release(w) ==
    /\ slots' = IF HoldsSlot(w) THEN slots + 1 ELSE slots
    /\ pc' = [pc EXCEPT ![w] = "idle"]
    /\ task' = [task EXCEPT ![w] = NoRun]
    /\ entry' = [entry EXCEPT ![w] = "pending"]

WorkerFrame == UNCHANGED <<proc, queue, requestVars, boundVars, toldCancelled>>

Pickup(w) ==
    /\ pc[w] = "idle"
    /\ queue # <<>>
    /\ queue' = Tail(queue)
    /\ pc' = [pc EXCEPT ![w] = "picked"]
    /\ task' = [task EXCEPT ![w] = Head(queue)]
    /\ UNCHANGED <<rowVars, diskVars, proc, slots, entry, requestVars, boundVars, histVars>>

\* A run that is no longer queued is dropped, here and after the slot was acquired.
FirstCheck(w) ==
    /\ pc[w] = "picked"
    /\ IF status[task[w]] = "queued" THEN Goto(w, "waiting") /\ UNCHANGED entry ELSE Release(w)
    /\ UNCHANGED <<rowVars, diskVars, saved>>
    /\ WorkerFrame

AcquireSlot(w) ==
    /\ pc[w] = "waiting"
    /\ slots > 0
    /\ slots' = slots - 1
    /\ pc' = [pc EXCEPT ![w] = "checking"]
    /\ UNCHANGED <<rowVars, diskVars, task, entry, saved>>
    /\ WorkerFrame

SecondCheck(w) ==
    /\ pc[w] = "checking"
    /\ IF status[task[w]] = "queued" THEN Goto(w, "preparing") /\ UNCHANGED entry ELSE Release(w)
    /\ UNCHANGED <<rowVars, diskVars, saved>>
    /\ WorkerFrame

\* Written whatever the status has become since it was read.
MarkRunning(w) ==
    /\ pc[w] = "preparing"
    /\ update_benchmark_run(task[w], "running")
    /\ Goto(w, "starting")
    /\ UNCHANGED <<diskVars, entry, saved>>
    /\ WorkerFrame

\* Progress is not modelled, but the two calls that write it may raise.
FirstProgress(w) ==
    /\ pc[w] = "starting"
    /\ Goto(w, "loading")
    /\ UNCHANGED <<rowVars, diskVars, entry, saved>>
    /\ WorkerFrame

\* Mutant: a finished experiment is run again (force).
MutResumeForces(w) ==
    /\ pc[w] = "loading"
    /\ IF manifest[task[w]] = "unreadable"
       THEN Goto(w, "failing") /\ UNCHANGED entry
       ELSE Goto(w, "open1") /\ entry' = [entry EXCEPT ![w] = "running"]
    /\ UNCHANGED <<rowVars, diskVars, saved>>
    /\ WorkerFrame

\* The run resumes from its manifest. A finished experiment is skipped, any
\* other is marked running; a file that cannot be parsed raises.
LoadManifest(w) ==
    /\ pc[w] = "loading"
    /\ LET m == manifest[task[w]] IN
       \/ m = "unreadable" /\ Goto(w, "failing") /\ UNCHANGED entry
       \/ m = "completed" /\ Goto(w, "open3") /\ entry' = [entry EXCEPT ![w] = m]
       \/ /\ m \in {"absent", "running", "failed"}
          /\ Goto(w, "open1")
          /\ entry' = [entry EXCEPT ![w] = "running"]
    /\ UNCHANGED <<rowVars, diskVars, saved>>
    /\ WorkerFrame

\* RunManifest.save, called three times: with the experiment running, with its
\* outcome, and at the end of the plan.
Saves == [open1 |-> "write1", open2 |-> "write2", open3 |-> "write3",
          write1 |-> "experiment", write2 |-> "open3", write3 |-> "reporting"]

OpenManifest(w) ==
    /\ pc[w] \in {"open1", "open2", "open3"}
    /\ manifest' = [manifest EXCEPT ![task[w]] = "unreadable"]
    /\ Goto(w, Saves[pc[w]])
    /\ UNCHANGED <<rowVars, artifacts, entry, saved>>
    /\ WorkerFrame

WriteManifest(w) ==
    /\ pc[w] \in {"write1", "write2", "write3"}
    /\ manifest' = [manifest EXCEPT ![task[w]] = entry[w]]
    /\ saved' = IF entry[w] = "completed" THEN saved \cup {task[w]} ELSE saved
    /\ Goto(w, Saves[pc[w]])
    /\ UNCHANGED <<rowVars, artifacts, entry>>
    /\ WorkerFrame

ExperimentReturns(w) ==
    /\ pc[w] = "experiment"
    /\ artifacts' = artifacts \cup {task[w]}
    /\ entry' = [entry EXCEPT ![w] = "completed"]
    /\ Goto(w, "open2")
    /\ UNCHANGED <<rowVars, manifest, saved>>
    /\ WorkerFrame

\* Caught by the runner: the manifest records the failure.
ExperimentRaises(w) ==
    /\ pc[w] = "experiment"
    /\ entry' = [entry EXCEPT ![w] = "failed"]
    /\ Goto(w, "open2")
    /\ UNCHANGED <<rowVars, diskVars, saved>>
    /\ WorkerFrame

LastProgress(w) ==
    /\ pc[w] = "reporting"
    /\ Goto(w, "asking")
    /\ UNCHANGED <<rowVars, diskVars, entry, saved>>
    /\ WorkerFrame

\* Mutant: the cancellation is not looked at.
MutAskNobody(w) ==
    /\ pc[w] = "asking"
    /\ Goto(w, "finishing")
    /\ UNCHANGED <<rowVars, diskVars, entry, saved>>
    /\ WorkerFrame

AskCancelled(w) ==
    /\ pc[w] = "asking"
    /\ Goto(w, IF status[task[w]] = "cancellation_requested" THEN "cancelling" ELSE "finishing")
    /\ UNCHANGED <<rowVars, diskVars, entry, saved>>
    /\ WorkerFrame

Cancelled(w) ==
    /\ pc[w] = "cancelling"
    /\ update_benchmark_run(task[w], "cancelled")
    /\ Release(w)
    /\ UNCHANGED <<diskVars, saved>>
    /\ WorkerFrame

\* Mutant: a run whose experiment failed is completed as well.
MutFinishAlways(w) ==
    /\ pc[w] = "finishing"
    /\ complete_benchmark_run(task[w])
    /\ Release(w)
    /\ UNCHANGED <<diskVars, saved>>
    /\ WorkerFrame

\* The manifest decides: partial failure is a failure.
Finish(w) ==
    /\ pc[w] = "finishing"
    /\ IF entry[w] = "completed"
       THEN complete_benchmark_run(task[w])
       ELSE fail_benchmark_run(task[w])
    /\ Release(w)
    /\ UNCHANGED <<diskVars, saved>>
    /\ WorkerFrame

\* The except block: no second look at the cancellation.
FailRun(w) ==
    /\ pc[w] = "failing"
    /\ fail_benchmark_run(task[w])
    /\ Release(w)
    /\ UNCHANGED <<diskVars, saved>>
    /\ WorkerFrame

InTry(w) == pc[w] \in {"loading", "reporting", "asking", "cancelling", "finishing"}
                        \cup DOMAIN Saves

\* Mutant: an exception that leaves the worker keeps the slot.
MutRaiseKeepsSlot(w) ==
    /\ pc[w] \notin {"idle", "waiting", "experiment"}
    /\ faults < MaxFaults
    /\ faults' = faults + 1
    /\ IF InTry(w)
       THEN Goto(w, "failing") /\ UNCHANGED entry
       ELSE /\ pc' = [pc EXCEPT ![w] = "idle"]
            /\ task' = [task EXCEPT ![w] = NoRun]
            /\ entry' = [entry EXCEPT ![w] = "pending"]
            /\ UNCHANGED slots
    /\ UNCHANGED <<rowVars, diskVars, proc, queue, requestVars, retries, crashes, histVars>>

\* A repository or file operation raises. Inside the try block the run is
\* failed; before it, and in the except block, the exception ends the worker.
OperationRaises(w) ==
    /\ pc[w] \notin {"idle", "waiting", "experiment"}
    /\ faults < MaxFaults
    /\ faults' = faults + 1
    /\ IF InTry(w) THEN Goto(w, "failing") /\ UNCHANGED entry ELSE Release(w)
    /\ UNCHANGED <<rowVars, diskVars, proc, queue, requestVars, retries, crashes, histVars>>

WorkerStep(w) ==
    \/ Pickup(w) \/ FirstCheck(w) \/ AcquireSlot(w) \/ SecondCheck(w)
    \/ MarkRunning(w) \/ FirstProgress(w) \/ LoadManifest(w)
    \/ OpenManifest(w) \/ WriteManifest(w)
    \/ ExperimentReturns(w) \/ ExperimentRaises(w)
    \/ LastProgress(w) \/ AskCancelled(w) \/ Cancelled(w) \/ Finish(w) \/ FailRun(w)

-----------------------------------------------------------------------------
(* The requests *)

Reply(q) ==
    /\ rpc' = [rpc EXCEPT ![q] = "idle"]
    /\ rrun' = [rrun EXCEPT ![q] = NoRun]

RequestAt(q, label, r) ==
    /\ rpc' = [rpc EXCEPT ![q] = label]
    /\ rrun' = [rrun EXCEPT ![q] = r]

Receives(q) == proc = "serving" /\ rpc[q] = "idle"

RequestFrame == UNCHANGED <<diskVars, proc, workerVars, faults, crashes, saved>>

create_benchmark_run(q, r) ==
    /\ Receives(q)
    /\ status[r] = "unused"
    /\ status' = [status EXCEPT ![r] = "queued"]
    /\ RequestAt(q, "submit", r)
    /\ UNCHANGED <<result, queue, retries, toldCancelled>>
    /\ RequestFrame

submit_benchmark_run(q) ==
    /\ rpc[q] = "submit"
    /\ queue' = Append(queue, rrun[q])
    /\ Reply(q)
    /\ UNCHANGED <<rowVars, retries, toldCancelled>>
    /\ RequestFrame

RetryRead(q, r) ==
    /\ Receives(q)
    /\ status[r] \in RETRYABLE
    /\ retries < MaxRetries
    /\ retries' = retries + 1
    /\ RequestAt(q, "requeue", r)
    /\ UNCHANGED <<rowVars, queue, toldCancelled>>
    /\ RequestFrame

\* The stored configuration is no longer valid: 422, nothing is written.
RetryRefused(q) ==
    /\ rpc[q] = "requeue"
    /\ Reply(q)
    /\ UNCHANGED <<rowVars, queue, retries, toldCancelled>>
    /\ RequestFrame

\* Written whatever the status has become since it was read.
RetryRequeue(q) ==
    /\ rpc[q] = "requeue"
    /\ update_benchmark_run(rrun[q], "queued")
    /\ toldCancelled' = toldCancelled \ {rrun[q]}
    /\ RequestAt(q, "submit", rrun[q])
    /\ UNCHANGED <<queue, retries>>
    /\ RequestFrame

\* The branch is chosen on the status read here; 'completed' and 'failed' are
\* answered 409, 'cancellation_requested' is answered without a write.
CancelRead(q, r) ==
    /\ Receives(q)
    /\ \/ status[r] = "queued" /\ RequestAt(q, "stop", r) /\ UNCHANGED toldCancelled
       \/ status[r] = "running" /\ RequestAt(q, "ask", r) /\ UNCHANGED toldCancelled
       \/ /\ status[r] = "cancelled"
          /\ toldCancelled' = toldCancelled \cup {r}
          /\ UNCHANGED requestVars
    /\ UNCHANGED <<rowVars, queue, retries>>
    /\ RequestFrame

\* The answer is "cancelled" whether or not the conditional update matched.
CancelQueued(q) ==
    /\ rpc[q] = "stop"
    /\ cancel_benchmark_run_if_status(rrun[q], "queued", "cancelled")
    /\ toldCancelled' = toldCancelled \cup {rrun[q]}
    /\ Reply(q)
    /\ UNCHANGED <<queue, retries>>
    /\ RequestFrame

\* Mutant: the request is written over any status.
MutCancelOverwrites(q) ==
    /\ rpc[q] = "ask"
    /\ update_benchmark_run(rrun[q], "cancellation_requested")
    /\ Reply(q)
    /\ UNCHANGED <<queue, retries, toldCancelled>>
    /\ RequestFrame

CancelRunning(q) ==
    /\ rpc[q] = "ask"
    /\ cancel_benchmark_run_if_status(rrun[q], "running", "cancellation_requested")
    /\ Reply(q)
    /\ UNCHANGED <<queue, retries, toldCancelled>>
    /\ RequestFrame

\* A repository call of the handler raises before it wrote: the client gets a 500.
RequestRaises(q) ==
    /\ rpc[q] \in {"requeue", "stop", "ask"}
    /\ faults < MaxFaults
    /\ faults' = faults + 1
    /\ Reply(q)
    /\ UNCHANGED <<rowVars, diskVars, proc, queue, workerVars, retries, crashes, histVars>>

RequestStep(q) ==
    \/ submit_benchmark_run(q) \/ RetryRequeue(q) \/ RetryRefused(q)
    \/ CancelQueued(q) \/ CancelRunning(q)

-----------------------------------------------------------------------------
(* The process *)

\* Mutant: rows in 'cancellation_requested' are not recovered.
MutRecoverSome ==
    status' = [r \in Runs |-> IF status[r] \in {"queued", "running"} THEN "failed" ELSE status[r]]

\* Interrupted runs fail, and those that were being cancelled are cancelled.
recover_stale_benchmark_runs ==
    status' = [r \in Runs |-> CASE status[r] \in {"queued", "running"} -> "failed"
                                 [] status[r] = "cancellation_requested" -> "cancelled"
                                 [] OTHER -> status[r]]

\* lifespan, up to its yield. A recovery that raises is logged and skipped.
Startup(recovering) ==
    /\ proc \in {"stopped", "crashed"}
    /\ IF recovering
       THEN recover_stale_benchmark_runs /\ UNCHANGED faults
       ELSE faults < MaxFaults /\ faults' = faults + 1 /\ UNCHANGED status
    /\ proc' = "serving"
    /\ UNCHANGED <<result, diskVars, queue, workerVars, requestVars, retries, crashes, histVars>>

\* uvicorn lets the requests in flight finish before the lifespan shuts down.
BeginShutdown ==
    /\ proc = "serving"
    /\ \A q \in Requests : rpc[q] = "idle"
    /\ proc' = "draining"
    /\ UNCHANGED <<rowVars, diskVars, queue, workerVars, requestVars, boundVars, histVars>>

EndShutdown ==
    /\ proc = "draining"
    /\ queue = <<>>
    /\ \A w \in Workers : pc[w] = "idle"
    /\ proc' = "stopped"
    /\ UNCHANGED <<rowVars, diskVars, queue, workerVars, requestVars, boundVars, histVars>>

\* Threads, queue and semaphore are memory of the process.
Crash ==
    /\ proc \in {"serving", "draining"}
    /\ crashes < MaxCrashes
    /\ crashes' = crashes + 1
    /\ proc' = "crashed"
    /\ queue' = <<>>
    /\ slots' = MaxSlots
    /\ pc' = [w \in Workers |-> "idle"]
    /\ task' = [w \in Workers |-> NoRun]
    /\ entry' = [w \in Workers |-> "pending"]
    /\ rpc' = [q \in Requests |-> "idle"]
    /\ rrun' = [q \in Requests |-> NoRun]
    /\ UNCHANGED <<rowVars, diskVars, retries, faults, histVars>>

Next ==
    \/ \E w \in Workers : WorkerStep(w) \/ OperationRaises(w)
    \/ \E q \in Submitters, r \in Runs : create_benchmark_run(q, r) \/ RetryRead(q, r)
    \/ \E q \in Cancellers, r \in Runs : CancelRead(q, r)
    \/ \E q \in Requests : RequestStep(q) \/ RequestRaises(q)
    \/ \E recovering \in BOOLEAN : Startup(recovering)
    \/ BeginShutdown \/ EndShutdown \/ Crash

Spec == Init /\ [][Next]_vars

(***************************************************************************)
(* Threads that can run do run, an experiment ends, and a process that     *)
(* stopped is started again with its recovery. Weak fairness is enough for *)
(* the semaphore, which is not first come first served: runs and retries   *)
(* are finitely many, so the slot ends up free for whoever still waits.    *)
(***************************************************************************)
Fairness ==
    /\ \A w \in Workers : WF_vars(WorkerStep(w))
    /\ \A q \in Requests : WF_vars(RequestStep(q))
    /\ WF_vars(Startup(TRUE))
    /\ WF_vars(EndShutdown)

FairSpec == Spec /\ Fairness

-----------------------------------------------------------------------------
(* Properties *)

WorkerLabels == {"idle", "picked", "waiting", "checking", "preparing", "starting", "loading",
                 "experiment", "reporting", "asking", "cancelling", "finishing", "failing"}
                   \cup DOMAIN Saves

\* Every variable has its type, and a thread has a run exactly while it is busy.
TypeOK ==
    /\ status \in [Runs -> RowStatus \cup {"unused"}]
    /\ result \subseteq Runs
    /\ manifest \in [Runs -> {"absent", "unreadable", "running", "completed", "failed"}]
    /\ artifacts \subseteq Runs
    /\ proc \in {"serving", "draining", "stopped", "crashed"}
    /\ queue \in Seq(Runs)
    /\ slots \in 0..MaxSlots
    /\ pc \in [Workers -> WorkerLabels]
    /\ task \in [Workers -> Runs \cup {NoRun}]
    /\ entry \in [Workers -> {"pending", "running", "completed", "failed"}]
    /\ rpc \in [Requests -> {"idle", "submit", "requeue", "stop", "ask"}]
    /\ rrun \in [Requests -> Runs \cup {NoRun}]
    /\ retries \in Nat /\ faults \in Nat /\ crashes \in Nat
    /\ saved \subseteq Runs /\ toldCancelled \subseteq Runs
    /\ \A w \in Workers : (task[w] = NoRun) <=> (pc[w] = "idle")
    /\ \A q \in Requests : (rrun[q] = NoRun) <=> (rpc[q] = "idle")

\* No slot of the semaphore is lost or invented, whichever way a worker leaves a
\* run: at most MaxSlots runs execute at once (README.md:667).
SlotsConserved == slots + Cardinality({w \in Workers : HoldsSlot(w)}) = MaxSlots

\* Incomplete work is never marked successful (docs/architecture.md:1291): a
\* completed run has its results on disk and a readable, complete manifest.
CompletedIsComplete ==
    \A r \in Runs : status[r] = "completed" =>
        r \in result /\ r \in artifacts /\ manifest[r] = "completed"

\* A retry resumes (README.md:662): once a manifest was saved as completed, no
\* worker runs the experiment again, across failures, retries and restarts.
FinishedWorkKept ==
    [][\A w \in Workers : pc[w] # "experiment" /\ pc'[w] = "experiment" =>
          task[w] \notin saved]_vars

Attended(r) ==
    \/ \E q \in Requests : rpc[q] = "submit" /\ rrun[q] = r
    \/ \E i \in 1..Len(queue) : queue[i] = r
    \/ \E w \in Workers : task[w] = r

\* A run that is not over has somebody working on it, with racing retries and
\* cancels and as long as no operation raised: none waits for ever.
NoAbandonedRun ==
    faults = 0 /\ proc \in {"serving", "draining"} =>
        \A r \in Runs : status[r] \in RowStatus \ Terminal => Attended(r)

\* Every run that was accepted ends, although workers block on the semaphore and
\* the process may be killed and restarted.
RunsSettle ==
    \A r \in Runs : status[r] \in RowStatus \ Terminal ~> status[r] \in Terminal

\* A cancellation that arrives while the experiment runs ends in 'cancelled',
\* unless the process is killed or a retry that was already under way queues the
\* run again (README.md:661).
Experimenting(r) == \E w \in Workers : task[w] = r /\ pc[w] = "experiment"
CancelHonoured ==
    \A r \in Runs : status[r] = "cancellation_requested" /\ Experimenting(r)
                       ~> status[r] \in {"cancelled", "queued"} \/ proc = "crashed"

-----------------------------------------------------------------------------
(* Claims that a run refutes *)

\* README.md:660: "queued runs stop immediately": a run that was reported
\* cancelled is cancelled until it is retried.
ReportedCancelled == \A r \in toldCancelled : status[r] = "cancelled"

\* api/app.py:80-81: "artifacts on disk are preserved and retry resumes via the
\* run manifest": a worker that resumes a run can read its manifest.
ResumeReads ==
    \A w \in Workers : pc[w] = "loading" => manifest[task[w]] # "unreadable"
=============================================================================
