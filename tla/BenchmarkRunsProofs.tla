------------------------- MODULE BenchmarkRunsProofs -------------------------
(***************************************************************************)
(* Proofs about BenchmarkRuns, for any sets of runs, worker threads and    *)
(* requests. The slots of the semaphore and the attendance of unfinished   *)
(* runs are proved for every number of slots; what says that the rows agree *)
(* with the files for MaxSlots = 1, the default of                         *)
(* PROVENANCE_MAX_BENCHMARK_RUNS, since with more slots two workers may     *)
(* execute one run that was queued twice.                                  *)
(***************************************************************************)
EXTENDS BenchmarkRuns, FiniteSetTheorems, TLAPS

\* The workers that have acquired the semaphore.
Holders == {w \in Workers : HoldsSlot(w)}

\* The steps of a worker before the run is marked running, or its manifest is loaded.
BeforeRun == {"idle", "picked", "waiting", "checking", "preparing"}
BeforeLoad == BeforeRun \cup {"starting", "loading"}

\* The worker has marked its run running and has not left it.
Executing(w) == pc[w] \notin BeforeRun

\* A process that is shutting down has answered its requests, and one that is not
\* there has no threads and no work items.
ProcessInv ==
    /\ proc # "serving" => \A q \in Requests : rpc[q] = "idle"
    /\ proc \in {"stopped", "crashed"} => queue = <<>> /\ \A w \in Workers : pc[w] = "idle"

\* What a worker's manifest object says agrees with where the worker is, and with what
\* it has done since it loaded the file, as does a manifest that says completed.
EntryInv ==
    /\ \A w \in Workers :
        /\ pc[w] \in BeforeLoad => entry[w] = "pending"
        /\ entry[w] = "pending" => pc[w] \in BeforeLoad \cup {"failing"}
        /\ pc[w] \in {"open1", "write1", "experiment"} => entry[w] = "running"
        /\ entry[w] = "completed" => task[w] \in artifacts
    /\ \A r \in Runs : manifest[r] = "completed" => r \in artifacts

\* One worker executes at a time: the row of its run is not completed, and the manifest
\* that it has saved is the one on disk.
RowFileInv ==
    /\ CompletedIsComplete
    /\ \A w \in Workers : Executing(w) => status[task[w]] # "completed"
    /\ \A w \in Workers : pc[w] \in {"reporting", "asking", "cancelling", "finishing"} =>
          manifest[task[w]] = entry[w]

\* A manifest saved as completed is never replaced by another status, only truncated,
\* and no worker that has yet to finish the experiment has such a run.
SavedInv ==
    /\ \A r \in saved : manifest[r] \in {"completed", "unreadable"}
    /\ \A w \in Workers : entry[w] \in {"running", "failed"} => task[w] \notin saved

\* A run that is executing or being cancelled has a worker that executes it, any other
\* that is not over has somebody on the way to one.
AttendedInv ==
    faults = 0 /\ proc \in {"serving", "draining"} =>
        \A r \in Runs :
            /\ status[r] = "queued" => Attended(r)
            /\ status[r] \in {"running", "cancellation_requested"} =>
                  \E w \in Workers : task[w] = r /\ Executing(w)

-----------------------------------------------------------------------------
(* Types and slots *)

\* TypeOK without the bounds of the semaphore, which follow from SlotsConserved.
Typed ==
    /\ status \in [Runs -> RowStatus \cup {"unused"}]
    /\ result \subseteq Runs
    /\ manifest \in [Runs -> {"absent", "unreadable", "running", "completed", "failed"}]
    /\ artifacts \subseteq Runs
    /\ proc \in {"serving", "draining", "stopped", "crashed"}
    /\ queue \in Seq(Runs)
    /\ slots \in Int
    /\ pc \in [Workers -> WorkerLabels]
    /\ task \in [Workers -> Runs \cup {NoRun}]
    /\ entry \in [Workers -> {"pending", "running", "completed", "failed"}]
    /\ rpc \in [Requests -> {"idle", "submit", "requeue", "stop", "ask"}]
    /\ rrun \in [Requests -> Runs \cup {NoRun}]
    /\ retries \in Nat /\ faults \in Nat /\ crashes \in Nat
    /\ saved \subseteq Runs /\ toldCancelled \subseteq Runs
    /\ \A w \in Workers : (task[w] = NoRun) <=> (pc[w] = "idle")
    /\ \A q \in Requests : (rrun[q] = NoRun) <=> (rpc[q] = "idle")

\* What one step does to the semaphore and to those who have acquired it.
SlotMove ==
    \/ Holders' = Holders /\ slots' = slots
    \/ \E w \in Holders : Holders' = Holders \ {w} /\ slots' = slots + 1
    \/ /\ slots > 0 /\ slots' = slots - 1
       /\ \E w \in Workers \ Holders : Holders' = Holders \cup {w}
    \/ Holders' = {} /\ slots' = MaxSlots

\* One step per action of Next, here and in the lemmas that follow.
LEMMA TypedNext ==
    ASSUME TypeOK, EntryInv, [Next]_vars
    PROVE  Typed'
<1>. USE DEF Typed, RETRYABLE, TypeOK, WorkerLabels, RowStatus, Terminal, Saves, rowVars,
             diskVars, workerVars, requestVars, boundVars, histVars
<1>. USE BenchmarkAssumption
<1>e. \A w \in Workers : pc[w] \in {"write1", "write2", "write3"} => entry[w] # "pending"
  BY DEF EntryInv, BeforeLoad, BeforeRun
<1>1. ASSUME NEW w \in Workers, Pickup(w) PROVE Typed'
  BY <1>1 DEF Pickup
<1>2. ASSUME NEW w \in Workers, FirstCheck(w) PROVE Typed'
  <2>1. CASE Goto(w, "waiting") /\ UNCHANGED entry
    BY <1>2, <2>1 DEF FirstCheck, Goto, WorkerFrame
  <2>2. CASE Release(w)
    BY <1>2, <2>2 DEF FirstCheck, Release, WorkerFrame
  <2>. QED  BY <1>2, <2>1, <2>2 DEF FirstCheck
<1>3. ASSUME NEW w \in Workers, AcquireSlot(w) PROVE Typed'
  BY <1>3 DEF AcquireSlot, WorkerFrame
<1>4. ASSUME NEW w \in Workers, SecondCheck(w) PROVE Typed'
  <2>1. CASE Goto(w, "preparing") /\ UNCHANGED entry
    BY <1>4, <2>1 DEF SecondCheck, Goto, WorkerFrame
  <2>2. CASE Release(w)
    BY <1>4, <2>2 DEF SecondCheck, Release, WorkerFrame
  <2>. QED  BY <1>4, <2>1, <2>2 DEF SecondCheck
<1>5. ASSUME NEW w \in Workers, MarkRunning(w) PROVE Typed'
  BY <1>5 DEF MarkRunning, update_benchmark_run, Goto, WorkerFrame
<1>6. ASSUME NEW w \in Workers, FirstProgress(w) PROVE Typed'
  BY <1>6 DEF FirstProgress, Goto, WorkerFrame
<1>7. ASSUME NEW w \in Workers, LoadManifest(w) PROVE Typed'
  BY <1>7 DEF LoadManifest, Goto, WorkerFrame
<1>8. ASSUME NEW w \in Workers, OpenManifest(w) PROVE Typed'
  BY <1>8 DEF OpenManifest, Goto, WorkerFrame, Saves
<1>9. ASSUME NEW w \in Workers, WriteManifest(w) PROVE Typed'
  <2>1. task[w] \in Runs /\ entry[w] \in {"running", "completed", "failed"}
    BY <1>9, <1>e DEF WriteManifest
  <2>2. saved' \subseteq Runs
    BY <1>9, <2>1 DEF WriteManifest
  <2>3. manifest' \in [Runs -> {"absent", "unreadable", "running", "completed", "failed"}]
    BY <1>9, <2>1 DEF WriteManifest
  <2>. QED  BY <1>9, <2>2, <2>3 DEF WriteManifest, Goto, WorkerFrame
<1>10. ASSUME NEW w \in Workers, ExperimentReturns(w) PROVE Typed'
  BY <1>10 DEF ExperimentReturns, Goto, WorkerFrame
<1>11. ASSUME NEW w \in Workers, ExperimentRaises(w) PROVE Typed'
  BY <1>11 DEF ExperimentRaises, Goto, WorkerFrame
<1>12. ASSUME NEW w \in Workers, LastProgress(w) PROVE Typed'
  BY <1>12 DEF LastProgress, Goto, WorkerFrame
<1>13. ASSUME NEW w \in Workers, AskCancelled(w) PROVE Typed'
  BY <1>13 DEF AskCancelled, Goto, WorkerFrame
<1>14. ASSUME NEW w \in Workers, Cancelled(w) PROVE Typed'
  BY <1>14 DEF Cancelled, update_benchmark_run, Release, WorkerFrame
<1>15. ASSUME NEW w \in Workers, Finish(w) PROVE Typed'
  BY <1>15 DEF Finish, complete_benchmark_run, fail_benchmark_run, Release, WorkerFrame
<1>16. ASSUME NEW w \in Workers, FailRun(w) PROVE Typed'
  BY <1>16 DEF FailRun, fail_benchmark_run, Release, WorkerFrame
<1>17. ASSUME NEW w \in Workers, OperationRaises(w) PROVE Typed'
  <2>1. CASE InTry(w) /\ Goto(w, "failing") /\ UNCHANGED entry
    BY <1>17, <2>1 DEF OperationRaises, Goto, InTry
  <2>2. CASE ~InTry(w) /\ Release(w)
    BY <1>17, <2>2 DEF OperationRaises, Release, InTry
  <2>. QED  BY <1>17, <2>1, <2>2 DEF OperationRaises
<1>18. ASSUME NEW q \in Requests, NEW r \in Runs, create_benchmark_run(q, r) PROVE Typed'
  BY <1>18 DEF create_benchmark_run, Receives, RequestAt, RequestFrame
<1>19. ASSUME NEW q \in Requests, NEW r \in Runs, RetryRead(q, r) PROVE Typed'
  BY <1>19 DEF RetryRead, Receives, RequestAt, RequestFrame
<1>20. ASSUME NEW q \in Requests, NEW r \in Runs, CancelRead(q, r) PROVE Typed'
  BY <1>20 DEF CancelRead, Receives, RequestAt, RequestFrame
<1>21. ASSUME NEW q \in Requests, submit_benchmark_run(q) PROVE Typed'
  BY <1>21 DEF submit_benchmark_run, Reply, RequestFrame
<1>22. ASSUME NEW q \in Requests, RetryRefused(q) PROVE Typed'
  BY <1>22 DEF RetryRefused, Reply, RequestFrame
<1>23. ASSUME NEW q \in Requests, RetryRequeue(q) PROVE Typed'
  BY <1>23 DEF RetryRequeue, update_benchmark_run, RequestAt, RequestFrame
<1>24. ASSUME NEW q \in Requests, CancelQueued(q) PROVE Typed'
  BY <1>24 DEF CancelQueued, cancel_benchmark_run_if_status, Reply, RequestFrame
<1>25. ASSUME NEW q \in Requests, CancelRunning(q) PROVE Typed'
  BY <1>25 DEF CancelRunning, cancel_benchmark_run_if_status, Reply, RequestFrame
<1>26. ASSUME NEW q \in Requests, RequestRaises(q) PROVE Typed'
  BY <1>26 DEF RequestRaises, Reply
<1>27. CASE \E recovering \in BOOLEAN : Startup(recovering)
  BY <1>27 DEF Startup, recover_stale_benchmark_runs
<1>28. CASE BeginShutdown \/ EndShutdown
  BY <1>28 DEF BeginShutdown, EndShutdown
<1>29. CASE Crash
  BY <1>29 DEF Crash
<1>30. CASE UNCHANGED vars
  BY <1>30 DEF vars
<1>. QED  BY <1>1, <1>2, <1>3, <1>4, <1>5, <1>6, <1>7, <1>8, <1>9, <1>10, <1>11, <1>12,
     <1>13, <1>14, <1>15, <1>16, <1>17, <1>18, <1>19, <1>20, <1>21, <1>22, <1>23, <1>24,
     <1>25, <1>26, <1>27, <1>28, <1>29, <1>30
     DEF Next, WorkerStep, RequestStep, Requests

\* A step acquires or releases one slot, or none, and only when the worker says so.
LEMMA SlotMoves ==
    ASSUME TypeOK, [Next]_vars
    PROVE  SlotMove
<1>. USE DEF SlotMove, Holders, HoldsSlot, TypeOK, WorkerLabels, RowStatus, Terminal, Saves,
             rowVars, diskVars, workerVars, requestVars, boundVars, histVars
<1>. USE BenchmarkAssumption
<1>1. ASSUME NEW w \in Workers, Pickup(w) PROVE SlotMove
  BY <1>1 DEF Pickup
<1>2. ASSUME NEW w \in Workers, FirstCheck(w) PROVE SlotMove
  <2>1. CASE Goto(w, "waiting") /\ UNCHANGED entry
    BY <1>2, <2>1 DEF FirstCheck, Goto, WorkerFrame
  <2>2. CASE Release(w)
    BY <1>2, <2>2 DEF FirstCheck, Release, WorkerFrame
  <2>. QED  BY <1>2, <2>1, <2>2 DEF FirstCheck
<1>3. ASSUME NEW w \in Workers, AcquireSlot(w) PROVE SlotMove
  BY <1>3 DEF AcquireSlot, WorkerFrame
<1>4. ASSUME NEW w \in Workers, SecondCheck(w) PROVE SlotMove
  <2>1. CASE Goto(w, "preparing") /\ UNCHANGED entry
    BY <1>4, <2>1 DEF SecondCheck, Goto, WorkerFrame
  <2>2. CASE Release(w)
    BY <1>4, <2>2 DEF SecondCheck, Release, WorkerFrame
  <2>. QED  BY <1>4, <2>1, <2>2 DEF SecondCheck
<1>5. ASSUME NEW w \in Workers, MarkRunning(w) PROVE SlotMove
  BY <1>5 DEF MarkRunning, update_benchmark_run, Goto, WorkerFrame
<1>6. ASSUME NEW w \in Workers, FirstProgress(w) PROVE SlotMove
  BY <1>6 DEF FirstProgress, Goto, WorkerFrame
<1>7. ASSUME NEW w \in Workers, LoadManifest(w) PROVE SlotMove
  BY <1>7 DEF LoadManifest, Goto, WorkerFrame
<1>8. ASSUME NEW w \in Workers, OpenManifest(w) PROVE SlotMove
  BY <1>8 DEF OpenManifest, Goto, WorkerFrame, Saves
<1>9. ASSUME NEW w \in Workers, WriteManifest(w) PROVE SlotMove
  BY <1>9 DEF WriteManifest, Goto, WorkerFrame, Saves
<1>10. ASSUME NEW w \in Workers, ExperimentReturns(w) PROVE SlotMove
  BY <1>10 DEF ExperimentReturns, Goto, WorkerFrame
<1>11. ASSUME NEW w \in Workers, ExperimentRaises(w) PROVE SlotMove
  BY <1>11 DEF ExperimentRaises, Goto, WorkerFrame
<1>12. ASSUME NEW w \in Workers, LastProgress(w) PROVE SlotMove
  BY <1>12 DEF LastProgress, Goto, WorkerFrame
<1>13. ASSUME NEW w \in Workers, AskCancelled(w) PROVE SlotMove
  BY <1>13 DEF AskCancelled, Goto, WorkerFrame
<1>14. ASSUME NEW w \in Workers, Cancelled(w) PROVE SlotMove
  BY <1>14 DEF Cancelled, update_benchmark_run, Release, WorkerFrame
<1>15. ASSUME NEW w \in Workers, Finish(w) PROVE SlotMove
  BY <1>15 DEF Finish, complete_benchmark_run, fail_benchmark_run, Release, WorkerFrame
<1>16. ASSUME NEW w \in Workers, FailRun(w) PROVE SlotMove
  BY <1>16 DEF FailRun, fail_benchmark_run, Release, WorkerFrame
<1>17. ASSUME NEW w \in Workers, OperationRaises(w) PROVE SlotMove
  <2>1. CASE InTry(w) /\ Goto(w, "failing") /\ UNCHANGED entry
    BY <1>17, <2>1 DEF OperationRaises, Goto, InTry
  <2>2. CASE ~InTry(w) /\ Release(w)
    BY <1>17, <2>2 DEF OperationRaises, Release, InTry
  <2>. QED  BY <1>17, <2>1, <2>2 DEF OperationRaises
<1>18. ASSUME NEW q \in Requests, NEW r \in Runs, create_benchmark_run(q, r) PROVE SlotMove
  BY <1>18 DEF create_benchmark_run, Receives, RequestAt, RequestFrame
<1>19. ASSUME NEW q \in Requests, NEW r \in Runs, RetryRead(q, r) PROVE SlotMove
  BY <1>19 DEF RetryRead, Receives, RequestAt, RequestFrame
<1>20. ASSUME NEW q \in Requests, NEW r \in Runs, CancelRead(q, r) PROVE SlotMove
  BY <1>20 DEF CancelRead, Receives, RequestAt, RequestFrame
<1>21. ASSUME NEW q \in Requests, submit_benchmark_run(q) PROVE SlotMove
  BY <1>21 DEF submit_benchmark_run, Reply, RequestFrame
<1>22. ASSUME NEW q \in Requests, RetryRefused(q) PROVE SlotMove
  BY <1>22 DEF RetryRefused, Reply, RequestFrame
<1>23. ASSUME NEW q \in Requests, RetryRequeue(q) PROVE SlotMove
  BY <1>23 DEF RetryRequeue, update_benchmark_run, RequestAt, RequestFrame
<1>24. ASSUME NEW q \in Requests, CancelQueued(q) PROVE SlotMove
  BY <1>24 DEF CancelQueued, cancel_benchmark_run_if_status, Reply, RequestFrame
<1>25. ASSUME NEW q \in Requests, CancelRunning(q) PROVE SlotMove
  BY <1>25 DEF CancelRunning, cancel_benchmark_run_if_status, Reply, RequestFrame
<1>26. ASSUME NEW q \in Requests, RequestRaises(q) PROVE SlotMove
  BY <1>26 DEF RequestRaises, Reply
<1>27. CASE \E recovering \in BOOLEAN : Startup(recovering)
  BY <1>27 DEF Startup, recover_stale_benchmark_runs
<1>28. CASE BeginShutdown \/ EndShutdown
  BY <1>28 DEF BeginShutdown, EndShutdown
<1>29. CASE Crash
  BY <1>29 DEF Crash
<1>30. CASE UNCHANGED vars
  BY <1>30 DEF vars
<1>. QED  BY <1>1, <1>2, <1>3, <1>4, <1>5, <1>6, <1>7, <1>8, <1>9, <1>10, <1>11, <1>12,
     <1>13, <1>14, <1>15, <1>16, <1>17, <1>18, <1>19, <1>20, <1>21, <1>22, <1>23, <1>24,
     <1>25, <1>26, <1>27, <1>28, <1>29, <1>30
     DEF Next, WorkerStep, RequestStep, Requests

\* A stopped process takes no step but its start.
LEMMA ProcessInductive ==
    ASSUME TypeOK, TypeOK', ProcessInv, [Next]_vars
    PROVE  ProcessInv'
<1>. USE DEF ProcessInv, TypeOK, WorkerLabels, RowStatus, Terminal, Saves, rowVars, diskVars,
             workerVars, requestVars, boundVars, histVars
<1>. USE BenchmarkAssumption
<1>1. ASSUME NEW w \in Workers, Pickup(w) PROVE ProcessInv'
  BY <1>1 DEF Pickup
<1>2. ASSUME NEW w \in Workers, FirstCheck(w) PROVE ProcessInv'
  <2>1. CASE Goto(w, "waiting") /\ UNCHANGED entry
    BY <1>2, <2>1 DEF FirstCheck, Goto, WorkerFrame
  <2>2. CASE Release(w)
    BY <1>2, <2>2 DEF FirstCheck, Release, WorkerFrame
  <2>. QED  BY <1>2, <2>1, <2>2 DEF FirstCheck
<1>3. ASSUME NEW w \in Workers, AcquireSlot(w) PROVE ProcessInv'
  BY <1>3 DEF AcquireSlot, WorkerFrame
<1>4. ASSUME NEW w \in Workers, SecondCheck(w) PROVE ProcessInv'
  <2>1. CASE Goto(w, "preparing") /\ UNCHANGED entry
    BY <1>4, <2>1 DEF SecondCheck, Goto, WorkerFrame
  <2>2. CASE Release(w)
    BY <1>4, <2>2 DEF SecondCheck, Release, WorkerFrame
  <2>. QED  BY <1>4, <2>1, <2>2 DEF SecondCheck
<1>5. ASSUME NEW w \in Workers, MarkRunning(w) PROVE ProcessInv'
  BY <1>5 DEF MarkRunning, update_benchmark_run, Goto, WorkerFrame
<1>6. ASSUME NEW w \in Workers, FirstProgress(w) PROVE ProcessInv'
  BY <1>6 DEF FirstProgress, Goto, WorkerFrame
<1>7. ASSUME NEW w \in Workers, LoadManifest(w) PROVE ProcessInv'
  BY <1>7 DEF LoadManifest, Goto, WorkerFrame
<1>8. ASSUME NEW w \in Workers, OpenManifest(w) PROVE ProcessInv'
  BY <1>8 DEF OpenManifest, Goto, WorkerFrame, Saves
<1>9. ASSUME NEW w \in Workers, WriteManifest(w) PROVE ProcessInv'
  BY <1>9 DEF WriteManifest, Goto, WorkerFrame, Saves
<1>10. ASSUME NEW w \in Workers, ExperimentReturns(w) PROVE ProcessInv'
  BY <1>10 DEF ExperimentReturns, Goto, WorkerFrame
<1>11. ASSUME NEW w \in Workers, ExperimentRaises(w) PROVE ProcessInv'
  BY <1>11 DEF ExperimentRaises, Goto, WorkerFrame
<1>12. ASSUME NEW w \in Workers, LastProgress(w) PROVE ProcessInv'
  BY <1>12 DEF LastProgress, Goto, WorkerFrame
<1>13. ASSUME NEW w \in Workers, AskCancelled(w) PROVE ProcessInv'
  BY <1>13 DEF AskCancelled, Goto, WorkerFrame
<1>14. ASSUME NEW w \in Workers, Cancelled(w) PROVE ProcessInv'
  BY <1>14 DEF Cancelled, update_benchmark_run, Release, WorkerFrame
<1>15. ASSUME NEW w \in Workers, Finish(w) PROVE ProcessInv'
  BY <1>15 DEF Finish, complete_benchmark_run, fail_benchmark_run, Release, WorkerFrame
<1>16. ASSUME NEW w \in Workers, FailRun(w) PROVE ProcessInv'
  BY <1>16 DEF FailRun, fail_benchmark_run, Release, WorkerFrame
<1>17. ASSUME NEW w \in Workers, OperationRaises(w) PROVE ProcessInv'
  <2>1. CASE InTry(w) /\ Goto(w, "failing") /\ UNCHANGED entry
    BY <1>17, <2>1 DEF OperationRaises, Goto, InTry
  <2>2. CASE ~InTry(w) /\ Release(w)
    BY <1>17, <2>2 DEF OperationRaises, Release, InTry
  <2>. QED  BY <1>17, <2>1, <2>2 DEF OperationRaises
<1>18. ASSUME NEW q \in Requests, NEW r \in Runs, create_benchmark_run(q, r) PROVE ProcessInv'
  BY <1>18 DEF create_benchmark_run, Receives, RequestAt, RequestFrame
<1>19. ASSUME NEW q \in Requests, NEW r \in Runs, RetryRead(q, r) PROVE ProcessInv'
  BY <1>19 DEF RetryRead, Receives, RequestAt, RequestFrame
<1>20. ASSUME NEW q \in Requests, NEW r \in Runs, CancelRead(q, r) PROVE ProcessInv'
  BY <1>20 DEF CancelRead, Receives, RequestAt, RequestFrame
<1>21. ASSUME NEW q \in Requests, submit_benchmark_run(q) PROVE ProcessInv'
  BY <1>21 DEF submit_benchmark_run, Reply, RequestFrame
<1>22. ASSUME NEW q \in Requests, RetryRefused(q) PROVE ProcessInv'
  BY <1>22 DEF RetryRefused, Reply, RequestFrame
<1>23. ASSUME NEW q \in Requests, RetryRequeue(q) PROVE ProcessInv'
  BY <1>23 DEF RetryRequeue, update_benchmark_run, RequestAt, RequestFrame
<1>24. ASSUME NEW q \in Requests, CancelQueued(q) PROVE ProcessInv'
  BY <1>24 DEF CancelQueued, cancel_benchmark_run_if_status, Reply, RequestFrame
<1>25. ASSUME NEW q \in Requests, CancelRunning(q) PROVE ProcessInv'
  BY <1>25 DEF CancelRunning, cancel_benchmark_run_if_status, Reply, RequestFrame
<1>26. ASSUME NEW q \in Requests, RequestRaises(q) PROVE ProcessInv'
  BY <1>26 DEF RequestRaises, Reply
<1>27. CASE \E recovering \in BOOLEAN : Startup(recovering)
  BY <1>27 DEF Startup, recover_stale_benchmark_runs
<1>28. CASE BeginShutdown \/ EndShutdown
  BY <1>28 DEF BeginShutdown, EndShutdown
<1>29. CASE Crash
  BY <1>29 DEF Crash
<1>30. CASE UNCHANGED vars
  BY <1>30 DEF vars
<1>. QED  BY <1>1, <1>2, <1>3, <1>4, <1>5, <1>6, <1>7, <1>8, <1>9, <1>10, <1>11, <1>12,
     <1>13, <1>14, <1>15, <1>16, <1>17, <1>18, <1>19, <1>20, <1>21, <1>22, <1>23, <1>24,
     <1>25, <1>26, <1>27, <1>28, <1>29, <1>30
     DEF Next, WorkerStep, RequestStep, Requests

\* The semaphore: acquiring and releasing keep the sum of free and held slots.
LEMMA SlotsKept ==
    ASSUME TypeOK, SlotsConserved, SlotMove
    PROVE  SlotsConserved' /\ Cardinality(Holders') \in Nat
<1>1. /\ IsFiniteSet(Holders) /\ Cardinality(Holders) \in Nat
      /\ slots + Cardinality(Holders) = MaxSlots
  BY BenchmarkAssumption, FS_Subset, FS_CardinalityType DEF Holders, SlotsConserved
<1>2. slots \in Int /\ MaxSlots \in Nat
  BY BenchmarkAssumption DEF TypeOK
<1>3. CASE Holders' = Holders /\ slots' = slots
  BY <1>1, <1>3 DEF SlotsConserved, Holders
<1>4. ASSUME NEW w \in Holders, Holders' = Holders \ {w}, slots' = slots + 1
      PROVE  SlotsConserved' /\ Cardinality(Holders') \in Nat
  <2>1. Cardinality(Holders') = Cardinality(Holders) - 1 /\ IsFiniteSet(Holders')
    BY <1>1, <1>4, FS_RemoveElement
  <2>2. Cardinality(Holders') \in Nat
    BY <2>1, FS_CardinalityType
  <2>. QED  BY <1>1, <1>2, <1>4, <2>1, <2>2 DEF SlotsConserved, Holders
<1>5. ASSUME NEW w \in Workers \ Holders, Holders' = Holders \cup {w}, slots' = slots - 1
      PROVE  SlotsConserved' /\ Cardinality(Holders') \in Nat
  <2>1. Cardinality(Holders') = Cardinality(Holders) + 1
    BY <1>1, <1>5, FS_AddElement
  <2>. QED  BY <1>1, <1>2, <1>5, <2>1 DEF SlotsConserved, Holders
<1>6. CASE Holders' = {} /\ slots' = MaxSlots
  BY <1>2, <1>6, FS_EmptySet DEF SlotsConserved, Holders
<1>. QED  BY <1>3, <1>4, <1>5, <1>6 DEF SlotMove

\* The slots are within their bounds because they add up.
LEMMA TypeInductive ==
    ASSUME TypeOK, EntryInv, SlotsConserved, [Next]_vars
    PROVE  TypeOK' /\ SlotsConserved'
<1>1. Typed'
  BY TypedNext
<1>2. SlotsConserved' /\ Cardinality(Holders') \in Nat
  BY SlotMoves, SlotsKept
<1>3. slots' \in 0..MaxSlots
  <2>1. slots' >= 0
    BY SlotMoves, BenchmarkAssumption DEF SlotMove, TypeOK
  <2>. QED  BY <1>1, <1>2, <2>1, BenchmarkAssumption DEF Typed, SlotsConserved, Holders
<1>. QED  BY <1>1, <1>2, <1>3 DEF Typed, TypeOK

\* With one slot, one worker executes at a time.
LEMMA OneHolder ==
    ASSUME MaxSlots = 1, TypeOK, SlotsConserved
    PROVE  \A v, w \in Workers : HoldsSlot(v) /\ HoldsSlot(w) => v = w
<1>1. IsFiniteSet(Holders) /\ Cardinality(Holders) \in Nat
  BY BenchmarkAssumption, FS_Subset, FS_CardinalityType DEF Holders
<1>2. Cardinality(Holders) \in {0, 1}
  BY <1>1 DEF SlotsConserved, TypeOK, Holders
<1>3. CASE Cardinality(Holders) = 0
  BY <1>1, <1>3, FS_EmptySet DEF Holders
<1>4. CASE Cardinality(Holders) = 1
  <2>1. PICK x : Holders = {x}
    BY <1>1, <1>4, FS_Singleton
  <2>. QED  BY <2>1 DEF Holders
<1>. QED  BY <1>2, <1>3, <1>4

\* The manifest object follows the worker through its run.
LEMMA EntryInductive ==
    ASSUME TypeOK, TypeOK', EntryInv, [Next]_vars
    PROVE  EntryInv'
<1>. USE DEF EntryInv, BeforeLoad, BeforeRun, TypeOK, WorkerLabels, RowStatus, Terminal,
             Saves, rowVars, diskVars, workerVars, requestVars, boundVars, histVars
<1>. USE BenchmarkAssumption
<1>1. ASSUME NEW w \in Workers, Pickup(w) PROVE EntryInv'
  BY <1>1 DEF Pickup
<1>2. ASSUME NEW w \in Workers, FirstCheck(w) PROVE EntryInv'
  <2>1. CASE Goto(w, "waiting") /\ UNCHANGED entry
    BY <1>2, <2>1 DEF FirstCheck, Goto, WorkerFrame
  <2>2. CASE Release(w)
    BY <1>2, <2>2 DEF FirstCheck, Release, WorkerFrame
  <2>. QED  BY <1>2, <2>1, <2>2 DEF FirstCheck
<1>3. ASSUME NEW w \in Workers, AcquireSlot(w) PROVE EntryInv'
  BY <1>3 DEF AcquireSlot, WorkerFrame
<1>4. ASSUME NEW w \in Workers, SecondCheck(w) PROVE EntryInv'
  <2>1. CASE Goto(w, "preparing") /\ UNCHANGED entry
    BY <1>4, <2>1 DEF SecondCheck, Goto, WorkerFrame
  <2>2. CASE Release(w)
    BY <1>4, <2>2 DEF SecondCheck, Release, WorkerFrame
  <2>. QED  BY <1>4, <2>1, <2>2 DEF SecondCheck
<1>5. ASSUME NEW w \in Workers, MarkRunning(w) PROVE EntryInv'
  BY <1>5 DEF MarkRunning, update_benchmark_run, Goto, WorkerFrame
<1>6. ASSUME NEW w \in Workers, FirstProgress(w) PROVE EntryInv'
  BY <1>6 DEF FirstProgress, Goto, WorkerFrame
<1>7. ASSUME NEW w \in Workers, LoadManifest(w) PROVE EntryInv'
  BY <1>7 DEF LoadManifest, Goto, WorkerFrame
<1>8. ASSUME NEW w \in Workers, OpenManifest(w) PROVE EntryInv'
  BY <1>8 DEF OpenManifest, Goto, WorkerFrame, Saves
<1>9. ASSUME NEW w \in Workers, WriteManifest(w) PROVE EntryInv'
  BY <1>9 DEF WriteManifest, Goto, WorkerFrame, Saves
<1>10. ASSUME NEW w \in Workers, ExperimentReturns(w) PROVE EntryInv'
  BY <1>10 DEF ExperimentReturns, Goto, WorkerFrame
<1>11. ASSUME NEW w \in Workers, ExperimentRaises(w) PROVE EntryInv'
  BY <1>11 DEF ExperimentRaises, Goto, WorkerFrame
<1>12. ASSUME NEW w \in Workers, LastProgress(w) PROVE EntryInv'
  BY <1>12 DEF LastProgress, Goto, WorkerFrame
<1>13. ASSUME NEW w \in Workers, AskCancelled(w) PROVE EntryInv'
  BY <1>13 DEF AskCancelled, Goto, WorkerFrame
<1>14. ASSUME NEW w \in Workers, Cancelled(w) PROVE EntryInv'
  BY <1>14 DEF Cancelled, update_benchmark_run, Release, WorkerFrame
<1>15. ASSUME NEW w \in Workers, Finish(w) PROVE EntryInv'
  BY <1>15 DEF Finish, complete_benchmark_run, fail_benchmark_run, Release, WorkerFrame
<1>16. ASSUME NEW w \in Workers, FailRun(w) PROVE EntryInv'
  BY <1>16 DEF FailRun, fail_benchmark_run, Release, WorkerFrame
<1>17. ASSUME NEW w \in Workers, OperationRaises(w) PROVE EntryInv'
  <2>1. CASE InTry(w) /\ Goto(w, "failing") /\ UNCHANGED entry
    BY <1>17, <2>1 DEF OperationRaises, Goto, InTry
  <2>2. CASE ~InTry(w) /\ Release(w)
    BY <1>17, <2>2 DEF OperationRaises, Release, InTry
  <2>. QED  BY <1>17, <2>1, <2>2 DEF OperationRaises
<1>18. ASSUME NEW q \in Requests, NEW r \in Runs, create_benchmark_run(q, r) PROVE EntryInv'
  BY <1>18 DEF create_benchmark_run, Receives, RequestAt, RequestFrame
<1>19. ASSUME NEW q \in Requests, NEW r \in Runs, RetryRead(q, r) PROVE EntryInv'
  BY <1>19 DEF RetryRead, Receives, RequestAt, RequestFrame
<1>20. ASSUME NEW q \in Requests, NEW r \in Runs, CancelRead(q, r) PROVE EntryInv'
  BY <1>20 DEF CancelRead, Receives, RequestAt, RequestFrame
<1>21. ASSUME NEW q \in Requests, submit_benchmark_run(q) PROVE EntryInv'
  BY <1>21 DEF submit_benchmark_run, Reply, RequestFrame
<1>22. ASSUME NEW q \in Requests, RetryRefused(q) PROVE EntryInv'
  BY <1>22 DEF RetryRefused, Reply, RequestFrame
<1>23. ASSUME NEW q \in Requests, RetryRequeue(q) PROVE EntryInv'
  BY <1>23 DEF RetryRequeue, update_benchmark_run, RequestAt, RequestFrame
<1>24. ASSUME NEW q \in Requests, CancelQueued(q) PROVE EntryInv'
  BY <1>24 DEF CancelQueued, cancel_benchmark_run_if_status, Reply, RequestFrame
<1>25. ASSUME NEW q \in Requests, CancelRunning(q) PROVE EntryInv'
  BY <1>25 DEF CancelRunning, cancel_benchmark_run_if_status, Reply, RequestFrame
<1>26. ASSUME NEW q \in Requests, RequestRaises(q) PROVE EntryInv'
  BY <1>26 DEF RequestRaises, Reply
<1>27. CASE \E recovering \in BOOLEAN : Startup(recovering)
  BY <1>27 DEF Startup, recover_stale_benchmark_runs
<1>28. CASE BeginShutdown \/ EndShutdown
  BY <1>28 DEF BeginShutdown, EndShutdown
<1>29. CASE Crash
  BY <1>29 DEF Crash
<1>30. CASE UNCHANGED vars
  BY <1>30 DEF vars
<1>. QED  BY <1>1, <1>2, <1>3, <1>4, <1>5, <1>6, <1>7, <1>8, <1>9, <1>10, <1>11, <1>12,
     <1>13, <1>14, <1>15, <1>16, <1>17, <1>18, <1>19, <1>20, <1>21, <1>22, <1>23, <1>24,
     <1>25, <1>26, <1>27, <1>28, <1>29, <1>30
     DEF Next, WorkerStep, RequestStep, Requests

\* Nobody else writes the manifest or the row of a run that is executing.
LEMMA RowFileInductive ==
    ASSUME MaxSlots = 1, TypeOK, TypeOK', SlotsConserved, ProcessInv, EntryInv, RowFileInv, [Next]_vars
    PROVE  RowFileInv'
<1>. USE DEF RowFileInv, CompletedIsComplete, HoldsSlot, Executing, EntryInv, BeforeLoad,
             BeforeRun, ProcessInv, TypeOK, WorkerLabels, RowStatus, Terminal, Saves,
             rowVars, diskVars, workerVars, requestVars, boundVars, histVars
<1>. USE BenchmarkAssumption
<1>m. \A v, w \in Workers : HoldsSlot(v) /\ HoldsSlot(w) => v = w
  BY OneHolder
<1>1. ASSUME NEW w \in Workers, Pickup(w) PROVE RowFileInv'
  BY <1>1, <1>m DEF Pickup
<1>2. ASSUME NEW w \in Workers, FirstCheck(w) PROVE RowFileInv'
  <2>1. CASE Goto(w, "waiting") /\ UNCHANGED entry
    BY <1>2, <2>1 DEF FirstCheck, Goto, WorkerFrame
  <2>2. CASE Release(w)
    BY <1>2, <2>2 DEF FirstCheck, Release, WorkerFrame
  <2>. QED  BY <1>2, <2>1, <2>2 DEF FirstCheck
<1>3. ASSUME NEW w \in Workers, AcquireSlot(w) PROVE RowFileInv'
  BY <1>3, <1>m DEF AcquireSlot, WorkerFrame
<1>4. ASSUME NEW w \in Workers, SecondCheck(w) PROVE RowFileInv'
  <2>1. CASE Goto(w, "preparing") /\ UNCHANGED entry
    BY <1>4, <2>1 DEF SecondCheck, Goto, WorkerFrame
  <2>2. CASE Release(w)
    BY <1>4, <2>2 DEF SecondCheck, Release, WorkerFrame
  <2>. QED  BY <1>4, <2>1, <2>2 DEF SecondCheck
<1>5. ASSUME NEW w \in Workers, MarkRunning(w) PROVE RowFileInv'
  BY <1>5, <1>m DEF MarkRunning, update_benchmark_run, Goto, WorkerFrame
<1>6. ASSUME NEW w \in Workers, FirstProgress(w) PROVE RowFileInv'
  BY <1>6, <1>m DEF FirstProgress, Goto, WorkerFrame
<1>7. ASSUME NEW w \in Workers, LoadManifest(w) PROVE RowFileInv'
  <2>1. CASE Goto(w, "failing") /\ UNCHANGED entry
    BY <1>7, <1>m, <2>1 DEF LoadManifest, Goto, WorkerFrame
  <2>2. CASE Goto(w, "open3") /\ entry' = [entry EXCEPT ![w] = manifest[task[w]]]
    BY <1>7, <1>m, <2>2 DEF LoadManifest, Goto, WorkerFrame
  <2>3. CASE Goto(w, "open1") /\ entry' = [entry EXCEPT ![w] = "running"]
    BY <1>7, <1>m, <2>3 DEF LoadManifest, Goto, WorkerFrame
  <2>. QED  BY <1>7, <2>1, <2>2, <2>3 DEF LoadManifest
<1>8. ASSUME NEW w \in Workers, OpenManifest(w) PROVE RowFileInv'
  BY <1>8, <1>m DEF OpenManifest, Goto, WorkerFrame, Saves
<1>9. ASSUME NEW w \in Workers, WriteManifest(w) PROVE RowFileInv'
  BY <1>9, <1>m DEF WriteManifest, Goto, WorkerFrame, Saves
<1>10. ASSUME NEW w \in Workers, ExperimentReturns(w) PROVE RowFileInv'
  BY <1>10, <1>m DEF ExperimentReturns, Goto, WorkerFrame
<1>11. ASSUME NEW w \in Workers, ExperimentRaises(w) PROVE RowFileInv'
  BY <1>11, <1>m DEF ExperimentRaises, Goto, WorkerFrame
<1>12. ASSUME NEW w \in Workers, LastProgress(w) PROVE RowFileInv'
  BY <1>12, <1>m DEF LastProgress, Goto, WorkerFrame
<1>13. ASSUME NEW w \in Workers, AskCancelled(w) PROVE RowFileInv'
  BY <1>13, <1>m DEF AskCancelled, Goto, WorkerFrame
<1>14. ASSUME NEW w \in Workers, Cancelled(w) PROVE RowFileInv'
  BY <1>14, <1>m DEF Cancelled, update_benchmark_run, Release, WorkerFrame
<1>15. ASSUME NEW w \in Workers, Finish(w) PROVE RowFileInv'
  BY <1>15, <1>m DEF Finish, complete_benchmark_run, fail_benchmark_run, Release, WorkerFrame
<1>16. ASSUME NEW w \in Workers, FailRun(w) PROVE RowFileInv'
  BY <1>16, <1>m DEF FailRun, fail_benchmark_run, Release, WorkerFrame
<1>17. ASSUME NEW w \in Workers, OperationRaises(w) PROVE RowFileInv'
  <2>1. CASE InTry(w) /\ Goto(w, "failing") /\ UNCHANGED entry
    BY <1>17, <2>1 DEF OperationRaises, Goto, InTry
  <2>2. CASE ~InTry(w) /\ Release(w)
    BY <1>17, <2>2 DEF OperationRaises, Release, InTry
  <2>. QED  BY <1>17, <2>1, <2>2 DEF OperationRaises
<1>18. ASSUME NEW q \in Requests, NEW r \in Runs, create_benchmark_run(q, r) PROVE RowFileInv'
  BY <1>18, <1>m DEF create_benchmark_run, Receives, RequestAt, RequestFrame
<1>19. ASSUME NEW q \in Requests, NEW r \in Runs, RetryRead(q, r) PROVE RowFileInv'
  BY <1>19, <1>m DEF RetryRead, Receives, RequestAt, RequestFrame
<1>20. ASSUME NEW q \in Requests, NEW r \in Runs, CancelRead(q, r) PROVE RowFileInv'
  BY <1>20, <1>m DEF CancelRead, Receives, RequestAt, RequestFrame
<1>21. ASSUME NEW q \in Requests, submit_benchmark_run(q) PROVE RowFileInv'
  BY <1>21, <1>m DEF submit_benchmark_run, Reply, RequestFrame
<1>22. ASSUME NEW q \in Requests, RetryRefused(q) PROVE RowFileInv'
  BY <1>22, <1>m DEF RetryRefused, Reply, RequestFrame
<1>23. ASSUME NEW q \in Requests, RetryRequeue(q) PROVE RowFileInv'
  BY <1>23, <1>m DEF RetryRequeue, update_benchmark_run, RequestAt, RequestFrame
<1>24. ASSUME NEW q \in Requests, CancelQueued(q) PROVE RowFileInv'
  BY <1>24, <1>m DEF CancelQueued, cancel_benchmark_run_if_status, Reply, RequestFrame
<1>25. ASSUME NEW q \in Requests, CancelRunning(q) PROVE RowFileInv'
  BY <1>25, <1>m DEF CancelRunning, cancel_benchmark_run_if_status, Reply, RequestFrame
<1>26. ASSUME NEW q \in Requests, RequestRaises(q) PROVE RowFileInv'
  BY <1>26, <1>m DEF RequestRaises, Reply
<1>27. CASE \E recovering \in BOOLEAN : Startup(recovering)
  BY <1>27, <1>m DEF Startup, recover_stale_benchmark_runs
<1>28. CASE BeginShutdown \/ EndShutdown
  BY <1>28, <1>m DEF BeginShutdown, EndShutdown
<1>29. CASE Crash
  BY <1>29, <1>m DEF Crash
<1>30. CASE UNCHANGED vars
  BY <1>30, <1>m DEF vars
<1>. QED  BY <1>1, <1>2, <1>3, <1>4, <1>5, <1>6, <1>7, <1>8, <1>9, <1>10, <1>11, <1>12,
     <1>13, <1>14, <1>15, <1>16, <1>17, <1>18, <1>19, <1>20, <1>21, <1>22, <1>23, <1>24,
     <1>25, <1>26, <1>27, <1>28, <1>29, <1>30
     DEF Next, WorkerStep, RequestStep, Requests

\* A worker that finds a complete manifest skips the experiment and saves it as it is.
LEMMA SavedInductive ==
    ASSUME MaxSlots = 1, TypeOK, TypeOK', SlotsConserved, ProcessInv, EntryInv, SavedInv, [Next]_vars
    PROVE  SavedInv'
<1>. USE DEF SavedInv, HoldsSlot, EntryInv, BeforeLoad, BeforeRun, ProcessInv, TypeOK,
             WorkerLabels, RowStatus, Terminal, Saves, rowVars, diskVars, workerVars,
             requestVars, boundVars, histVars
<1>. USE BenchmarkAssumption
<1>m. \A v, w \in Workers : HoldsSlot(v) /\ HoldsSlot(w) => v = w
  BY OneHolder
<1>1. ASSUME NEW w \in Workers, Pickup(w) PROVE SavedInv'
  BY <1>1, <1>m DEF Pickup
<1>2. ASSUME NEW w \in Workers, FirstCheck(w) PROVE SavedInv'
  <2>1. CASE Goto(w, "waiting") /\ UNCHANGED entry
    BY <1>2, <2>1 DEF FirstCheck, Goto, WorkerFrame
  <2>2. CASE Release(w)
    BY <1>2, <2>2 DEF FirstCheck, Release, WorkerFrame
  <2>. QED  BY <1>2, <2>1, <2>2 DEF FirstCheck
<1>3. ASSUME NEW w \in Workers, AcquireSlot(w) PROVE SavedInv'
  BY <1>3, <1>m DEF AcquireSlot, WorkerFrame
<1>4. ASSUME NEW w \in Workers, SecondCheck(w) PROVE SavedInv'
  <2>1. CASE Goto(w, "preparing") /\ UNCHANGED entry
    BY <1>4, <2>1 DEF SecondCheck, Goto, WorkerFrame
  <2>2. CASE Release(w)
    BY <1>4, <2>2 DEF SecondCheck, Release, WorkerFrame
  <2>. QED  BY <1>4, <2>1, <2>2 DEF SecondCheck
<1>5. ASSUME NEW w \in Workers, MarkRunning(w) PROVE SavedInv'
  BY <1>5, <1>m DEF MarkRunning, update_benchmark_run, Goto, WorkerFrame
<1>6. ASSUME NEW w \in Workers, FirstProgress(w) PROVE SavedInv'
  BY <1>6, <1>m DEF FirstProgress, Goto, WorkerFrame
<1>7. ASSUME NEW w \in Workers, LoadManifest(w) PROVE SavedInv'
  BY <1>7, <1>m DEF LoadManifest, Goto, WorkerFrame
<1>8. ASSUME NEW w \in Workers, OpenManifest(w) PROVE SavedInv'
  BY <1>8, <1>m DEF OpenManifest, Goto, WorkerFrame, Saves
<1>9. ASSUME NEW w \in Workers, WriteManifest(w) PROVE SavedInv'
  BY <1>9, <1>m DEF WriteManifest, Goto, WorkerFrame, Saves
<1>10. ASSUME NEW w \in Workers, ExperimentReturns(w) PROVE SavedInv'
  BY <1>10, <1>m DEF ExperimentReturns, Goto, WorkerFrame
<1>11. ASSUME NEW w \in Workers, ExperimentRaises(w) PROVE SavedInv'
  BY <1>11, <1>m DEF ExperimentRaises, Goto, WorkerFrame
<1>12. ASSUME NEW w \in Workers, LastProgress(w) PROVE SavedInv'
  BY <1>12, <1>m DEF LastProgress, Goto, WorkerFrame
<1>13. ASSUME NEW w \in Workers, AskCancelled(w) PROVE SavedInv'
  BY <1>13, <1>m DEF AskCancelled, Goto, WorkerFrame
<1>14. ASSUME NEW w \in Workers, Cancelled(w) PROVE SavedInv'
  BY <1>14, <1>m DEF Cancelled, update_benchmark_run, Release, WorkerFrame
<1>15. ASSUME NEW w \in Workers, Finish(w) PROVE SavedInv'
  BY <1>15, <1>m DEF Finish, complete_benchmark_run, fail_benchmark_run, Release, WorkerFrame
<1>16. ASSUME NEW w \in Workers, FailRun(w) PROVE SavedInv'
  BY <1>16, <1>m DEF FailRun, fail_benchmark_run, Release, WorkerFrame
<1>17. ASSUME NEW w \in Workers, OperationRaises(w) PROVE SavedInv'
  <2>1. CASE InTry(w) /\ Goto(w, "failing") /\ UNCHANGED entry
    BY <1>17, <2>1 DEF OperationRaises, Goto, InTry
  <2>2. CASE ~InTry(w) /\ Release(w)
    BY <1>17, <2>2 DEF OperationRaises, Release, InTry
  <2>. QED  BY <1>17, <2>1, <2>2 DEF OperationRaises
<1>18. ASSUME NEW q \in Requests, NEW r \in Runs, create_benchmark_run(q, r) PROVE SavedInv'
  BY <1>18, <1>m DEF create_benchmark_run, Receives, RequestAt, RequestFrame
<1>19. ASSUME NEW q \in Requests, NEW r \in Runs, RetryRead(q, r) PROVE SavedInv'
  BY <1>19, <1>m DEF RetryRead, Receives, RequestAt, RequestFrame
<1>20. ASSUME NEW q \in Requests, NEW r \in Runs, CancelRead(q, r) PROVE SavedInv'
  BY <1>20, <1>m DEF CancelRead, Receives, RequestAt, RequestFrame
<1>21. ASSUME NEW q \in Requests, submit_benchmark_run(q) PROVE SavedInv'
  BY <1>21, <1>m DEF submit_benchmark_run, Reply, RequestFrame
<1>22. ASSUME NEW q \in Requests, RetryRefused(q) PROVE SavedInv'
  BY <1>22, <1>m DEF RetryRefused, Reply, RequestFrame
<1>23. ASSUME NEW q \in Requests, RetryRequeue(q) PROVE SavedInv'
  BY <1>23, <1>m DEF RetryRequeue, update_benchmark_run, RequestAt, RequestFrame
<1>24. ASSUME NEW q \in Requests, CancelQueued(q) PROVE SavedInv'
  BY <1>24, <1>m DEF CancelQueued, cancel_benchmark_run_if_status, Reply, RequestFrame
<1>25. ASSUME NEW q \in Requests, CancelRunning(q) PROVE SavedInv'
  BY <1>25, <1>m DEF CancelRunning, cancel_benchmark_run_if_status, Reply, RequestFrame
<1>26. ASSUME NEW q \in Requests, RequestRaises(q) PROVE SavedInv'
  BY <1>26, <1>m DEF RequestRaises, Reply
<1>27. CASE \E recovering \in BOOLEAN : Startup(recovering)
  BY <1>27, <1>m DEF Startup, recover_stale_benchmark_runs
<1>28. CASE BeginShutdown \/ EndShutdown
  BY <1>28, <1>m DEF BeginShutdown, EndShutdown
<1>29. CASE Crash
  BY <1>29, <1>m DEF Crash
<1>30. CASE UNCHANGED vars
  BY <1>30, <1>m DEF vars
<1>. QED  BY <1>1, <1>2, <1>3, <1>4, <1>5, <1>6, <1>7, <1>8, <1>9, <1>10, <1>11, <1>12,
     <1>13, <1>14, <1>15, <1>16, <1>17, <1>18, <1>19, <1>20, <1>21, <1>22, <1>23, <1>24,
     <1>25, <1>26, <1>27, <1>28, <1>29, <1>30
     DEF Next, WorkerStep, RequestStep, Requests

\* A worker leaves its run: the row is terminal now, or the run was not this worker's to
\* execute when it looked.
Leaves(w) ==
    /\ UNCHANGED <<queue, rpc, rrun, faults, proc>>
    /\ \A v \in Workers : v # w => task'[v] = task[v] /\ pc'[v] = pc[v]
    /\ \A r \in Runs : r # task[w] => status'[r] = status[r]
    /\ \/ status'[task[w]] \in Terminal
       \/ status' = status /\ status[task[w]] # "queued" /\ ~Executing(w)

LEMMA LeavingKeepsAttended ==
    ASSUME TypeOK, AttendedInv, NEW w \in Workers, Leaves(w)
    PROVE  AttendedInv'
<1>. SUFFICES ASSUME faults' = 0, proc' \in {"serving", "draining"}, NEW r \in Runs
              PROVE  /\ status'[r] = "queued" => Attended(r)'
                     /\ status'[r] \in {"running", "cancellation_requested"} =>
                           \E v \in Workers : task'[v] = r /\ Executing(v)'
  BY DEF AttendedInv
<1>. USE DEF Leaves
<1>1. /\ status[r] = "queued" => Attended(r)
      /\ status[r] \in {"running", "cancellation_requested"} =>
            \E v \in Workers : task[v] = r /\ Executing(v)
  BY DEF AttendedInv
<1>2. CASE r = task[w] /\ status'[r] \in Terminal
  BY <1>2 DEF Terminal
<1>3. CASE r # task[w] \/ ~(status'[r] \in Terminal)
  <2>1. /\ status'[r] = status[r]
        /\ r = task[w] => status[r] # "queued" /\ ~Executing(w)
    BY <1>3
  <2>2. ASSUME status[r] = "queued" PROVE Attended(r)'
    BY <1>1, <2>1, <2>2 DEF Attended
  <2>3. ASSUME NEW v \in Workers, task[v] = r, Executing(v) PROVE task'[v] = r /\ Executing(v)'
    BY <2>1, <2>3 DEF Executing
  <2>. QED  BY <1>1, <2>1, <2>2, <2>3
<1>. QED  BY <1>2, <1>3

\* A worker leaves a run either with a terminal status or to another worker.
LEMMA AttendedInductive ==
    ASSUME TypeOK, TypeOK', ProcessInv, AttendedInv, [Next]_vars
    PROVE  AttendedInv'
<1>. USE DEF AttendedInv, Attended, Executing, BeforeLoad, BeforeRun, ProcessInv, TypeOK,
             WorkerLabels, RowStatus, Terminal, Saves, rowVars, diskVars, workerVars,
             requestVars, boundVars, histVars
<1>. USE BenchmarkAssumption
<1>1. ASSUME NEW w \in Workers, Pickup(w) PROVE AttendedInv'
  <2>1. /\ UNCHANGED <<status, rpc, rrun, faults, proc>>
        /\ pc[w] = "idle" /\ task'[w] = queue[1] /\ queue # <<>> /\ Len(queue') = Len(queue) - 1
        /\ \A i \in 1..Len(queue') : queue'[i] = queue[i + 1]
        /\ \A v \in Workers : v # w => task'[v] = task[v] /\ pc'[v] = pc[v]
    BY <1>1 DEF Pickup
  <2>2. ASSUME NEW r \in Runs, Attended(r) PROVE Attended(r)'
    <3>1. CASE \E q \in Requests : rpc[q] = "submit" /\ rrun[q] = r
      BY <2>1, <3>1
    <3>2. CASE \E v \in Workers : task[v] = r
      BY <2>1, <3>2
    <3>3. ASSUME NEW i \in 1..Len(queue), queue[i] = r PROVE Attended(r)'
      <4>1. CASE i = 1
        BY <2>1, <3>3, <4>1
      <4>2. CASE i # 1
        <5>1. i - 1 \in 1..Len(queue') /\ queue'[i - 1] = r
          BY <2>1, <3>3, <4>2
        <5>. QED  BY <5>1
      <4>. QED  BY <4>1, <4>2
    <3>. QED  BY <2>2, <3>1, <3>2, <3>3
  <2>3. \A v \in Workers : Executing(v) => Executing(v)' /\ task'[v] = task[v]
    BY <2>1
  <2>. HIDE DEF Attended, Executing
  <2>. QED  BY <2>1, <2>2, <2>3
<1>2. ASSUME NEW w \in Workers, FirstCheck(w) PROVE AttendedInv'
  <2>1. CASE Goto(w, "waiting") /\ UNCHANGED entry
    BY <1>2, <2>1 DEF FirstCheck, Goto, WorkerFrame
  <2>2. CASE status[task[w]] # "queued" /\ Release(w)
    <3>1. Leaves(w)
      BY <1>2, <2>2 DEF FirstCheck, Leaves, Release, WorkerFrame
    <3>. QED  BY <3>1, LeavingKeepsAttended
  <2>. QED  BY <1>2, <2>1, <2>2 DEF FirstCheck
<1>3. ASSUME NEW w \in Workers, AcquireSlot(w) PROVE AttendedInv'
  BY <1>3 DEF AcquireSlot, WorkerFrame
<1>4. ASSUME NEW w \in Workers, SecondCheck(w) PROVE AttendedInv'
  <2>1. CASE Goto(w, "preparing") /\ UNCHANGED entry
    BY <1>4, <2>1 DEF SecondCheck, Goto, WorkerFrame
  <2>2. CASE status[task[w]] # "queued" /\ Release(w)
    <3>1. Leaves(w)
      BY <1>4, <2>2 DEF SecondCheck, Leaves, Release, WorkerFrame
    <3>. QED  BY <3>1, LeavingKeepsAttended
  <2>. QED  BY <1>4, <2>1, <2>2 DEF SecondCheck
<1>5. ASSUME NEW w \in Workers, MarkRunning(w) PROVE AttendedInv'
  BY <1>5 DEF MarkRunning, update_benchmark_run, Goto, WorkerFrame
<1>6. ASSUME NEW w \in Workers, FirstProgress(w) PROVE AttendedInv'
  BY <1>6 DEF FirstProgress, Goto, WorkerFrame
<1>7. ASSUME NEW w \in Workers, LoadManifest(w) PROVE AttendedInv'
  BY <1>7 DEF LoadManifest, Goto, WorkerFrame
<1>8. ASSUME NEW w \in Workers, OpenManifest(w) PROVE AttendedInv'
  BY <1>8 DEF OpenManifest, Goto, WorkerFrame, Saves
<1>9. ASSUME NEW w \in Workers, WriteManifest(w) PROVE AttendedInv'
  BY <1>9 DEF WriteManifest, Goto, WorkerFrame, Saves
<1>10. ASSUME NEW w \in Workers, ExperimentReturns(w) PROVE AttendedInv'
  BY <1>10 DEF ExperimentReturns, Goto, WorkerFrame
<1>11. ASSUME NEW w \in Workers, ExperimentRaises(w) PROVE AttendedInv'
  BY <1>11 DEF ExperimentRaises, Goto, WorkerFrame
<1>12. ASSUME NEW w \in Workers, LastProgress(w) PROVE AttendedInv'
  BY <1>12 DEF LastProgress, Goto, WorkerFrame
<1>13. ASSUME NEW w \in Workers, AskCancelled(w) PROVE AttendedInv'
  BY <1>13 DEF AskCancelled, Goto, WorkerFrame
<1>14. ASSUME NEW w \in Workers, Cancelled(w) PROVE AttendedInv'
  <2>1. Leaves(w)
    BY <1>14 DEF Cancelled, Leaves, update_benchmark_run, Release, WorkerFrame
  <2>. QED  BY <2>1, LeavingKeepsAttended
<1>15. ASSUME NEW w \in Workers, Finish(w) PROVE AttendedInv'
  <2>1. Leaves(w)
    BY <1>15 DEF Finish, Leaves, complete_benchmark_run, fail_benchmark_run, Release, WorkerFrame
  <2>. QED  BY <2>1, LeavingKeepsAttended
<1>16. ASSUME NEW w \in Workers, FailRun(w) PROVE AttendedInv'
  <2>1. Leaves(w)
    BY <1>16 DEF FailRun, Leaves, fail_benchmark_run, Release, WorkerFrame
  <2>. QED  BY <2>1, LeavingKeepsAttended
<1>17. ASSUME NEW w \in Workers, OperationRaises(w) PROVE AttendedInv'
  <2>1. CASE InTry(w) /\ Goto(w, "failing") /\ UNCHANGED entry
    BY <1>17, <2>1 DEF OperationRaises, Goto, InTry
  <2>2. CASE ~InTry(w) /\ Release(w)
    BY <1>17, <2>2 DEF OperationRaises, Release, InTry
  <2>. QED  BY <1>17, <2>1, <2>2 DEF OperationRaises
<1>18. ASSUME NEW q \in Requests, NEW r \in Runs, create_benchmark_run(q, r) PROVE AttendedInv'
  BY <1>18 DEF create_benchmark_run, Receives, RequestAt, RequestFrame
<1>19. ASSUME NEW q \in Requests, NEW r \in Runs, RetryRead(q, r) PROVE AttendedInv'
  BY <1>19 DEF RetryRead, Receives, RequestAt, RequestFrame
<1>20. ASSUME NEW q \in Requests, NEW r \in Runs, CancelRead(q, r) PROVE AttendedInv'
  BY <1>20 DEF CancelRead, Receives, RequestAt, RequestFrame
<1>21. ASSUME NEW q \in Requests, submit_benchmark_run(q) PROVE AttendedInv'
  BY <1>21 DEF submit_benchmark_run, Reply, RequestFrame
<1>22. ASSUME NEW q \in Requests, RetryRefused(q) PROVE AttendedInv'
  BY <1>22 DEF RetryRefused, Reply, RequestFrame
<1>23. ASSUME NEW q \in Requests, RetryRequeue(q) PROVE AttendedInv'
  BY <1>23 DEF RetryRequeue, update_benchmark_run, RequestAt, RequestFrame
<1>24. ASSUME NEW q \in Requests, CancelQueued(q) PROVE AttendedInv'
  BY <1>24 DEF CancelQueued, cancel_benchmark_run_if_status, Reply, RequestFrame
<1>25. ASSUME NEW q \in Requests, CancelRunning(q) PROVE AttendedInv'
  BY <1>25 DEF CancelRunning, cancel_benchmark_run_if_status, Reply, RequestFrame
<1>26. ASSUME NEW q \in Requests, RequestRaises(q) PROVE AttendedInv'
  BY <1>26 DEF RequestRaises, Reply
<1>27. CASE \E recovering \in BOOLEAN : Startup(recovering)
  BY <1>27 DEF Startup, recover_stale_benchmark_runs
<1>28. CASE BeginShutdown \/ EndShutdown
  BY <1>28 DEF BeginShutdown, EndShutdown
<1>29. CASE Crash
  BY <1>29 DEF Crash
<1>30. CASE UNCHANGED vars
  BY <1>30 DEF vars
<1>. QED  BY <1>1, <1>2, <1>3, <1>4, <1>5, <1>6, <1>7, <1>8, <1>9, <1>10, <1>11, <1>12,
     <1>13, <1>14, <1>15, <1>16, <1>17, <1>18, <1>19, <1>20, <1>21, <1>22, <1>23, <1>24,
     <1>25, <1>26, <1>27, <1>28, <1>29, <1>30
     DEF Next, WorkerStep, RequestStep, Requests

\* What FinishedWorkKept says of one step.
NotRunAgain ==
    \A w \in Workers : pc[w] # "experiment" /\ pc'[w] = "experiment" => task[w] \notin saved

\* Only a worker that loaded an unfinished manifest comes to its experiment.
LEMMA ExperimentOnce ==
    ASSUME TypeOK, EntryInv, SavedInv, [Next]_vars
    PROVE  NotRunAgain
<1>. USE DEF NotRunAgain, SavedInv, EntryInv, TypeOK, WorkerLabels, RowStatus, Terminal,
             Saves, rowVars, diskVars, workerVars, requestVars, boundVars, histVars
<1>. USE BenchmarkAssumption
<1>1. ASSUME NEW w \in Workers, Pickup(w) PROVE NotRunAgain
  BY <1>1 DEF Pickup
<1>2. ASSUME NEW w \in Workers, FirstCheck(w) PROVE NotRunAgain
  <2>1. CASE Goto(w, "waiting") /\ UNCHANGED entry
    BY <1>2, <2>1 DEF FirstCheck, Goto, WorkerFrame
  <2>2. CASE Release(w)
    BY <1>2, <2>2 DEF FirstCheck, Release, WorkerFrame
  <2>. QED  BY <1>2, <2>1, <2>2 DEF FirstCheck
<1>3. ASSUME NEW w \in Workers, AcquireSlot(w) PROVE NotRunAgain
  BY <1>3 DEF AcquireSlot, WorkerFrame
<1>4. ASSUME NEW w \in Workers, SecondCheck(w) PROVE NotRunAgain
  <2>1. CASE Goto(w, "preparing") /\ UNCHANGED entry
    BY <1>4, <2>1 DEF SecondCheck, Goto, WorkerFrame
  <2>2. CASE Release(w)
    BY <1>4, <2>2 DEF SecondCheck, Release, WorkerFrame
  <2>. QED  BY <1>4, <2>1, <2>2 DEF SecondCheck
<1>5. ASSUME NEW w \in Workers, MarkRunning(w) PROVE NotRunAgain
  BY <1>5 DEF MarkRunning, update_benchmark_run, Goto, WorkerFrame
<1>6. ASSUME NEW w \in Workers, FirstProgress(w) PROVE NotRunAgain
  BY <1>6 DEF FirstProgress, Goto, WorkerFrame
<1>7. ASSUME NEW w \in Workers, LoadManifest(w) PROVE NotRunAgain
  BY <1>7 DEF LoadManifest, Goto, WorkerFrame
<1>8. ASSUME NEW w \in Workers, OpenManifest(w) PROVE NotRunAgain
  BY <1>8 DEF OpenManifest, Goto, WorkerFrame, Saves
<1>9. ASSUME NEW w \in Workers, WriteManifest(w) PROVE NotRunAgain
  BY <1>9 DEF WriteManifest, Goto, WorkerFrame, Saves
<1>10. ASSUME NEW w \in Workers, ExperimentReturns(w) PROVE NotRunAgain
  BY <1>10 DEF ExperimentReturns, Goto, WorkerFrame
<1>11. ASSUME NEW w \in Workers, ExperimentRaises(w) PROVE NotRunAgain
  BY <1>11 DEF ExperimentRaises, Goto, WorkerFrame
<1>12. ASSUME NEW w \in Workers, LastProgress(w) PROVE NotRunAgain
  BY <1>12 DEF LastProgress, Goto, WorkerFrame
<1>13. ASSUME NEW w \in Workers, AskCancelled(w) PROVE NotRunAgain
  BY <1>13 DEF AskCancelled, Goto, WorkerFrame
<1>14. ASSUME NEW w \in Workers, Cancelled(w) PROVE NotRunAgain
  BY <1>14 DEF Cancelled, update_benchmark_run, Release, WorkerFrame
<1>15. ASSUME NEW w \in Workers, Finish(w) PROVE NotRunAgain
  BY <1>15 DEF Finish, complete_benchmark_run, fail_benchmark_run, Release, WorkerFrame
<1>16. ASSUME NEW w \in Workers, FailRun(w) PROVE NotRunAgain
  BY <1>16 DEF FailRun, fail_benchmark_run, Release, WorkerFrame
<1>17. ASSUME NEW w \in Workers, OperationRaises(w) PROVE NotRunAgain
  <2>1. CASE InTry(w) /\ Goto(w, "failing") /\ UNCHANGED entry
    BY <1>17, <2>1 DEF OperationRaises, Goto, InTry
  <2>2. CASE ~InTry(w) /\ Release(w)
    BY <1>17, <2>2 DEF OperationRaises, Release, InTry
  <2>. QED  BY <1>17, <2>1, <2>2 DEF OperationRaises
<1>18. ASSUME NEW q \in Requests, NEW r \in Runs, create_benchmark_run(q, r) PROVE NotRunAgain
  BY <1>18 DEF create_benchmark_run, Receives, RequestAt, RequestFrame
<1>19. ASSUME NEW q \in Requests, NEW r \in Runs, RetryRead(q, r) PROVE NotRunAgain
  BY <1>19 DEF RetryRead, Receives, RequestAt, RequestFrame
<1>20. ASSUME NEW q \in Requests, NEW r \in Runs, CancelRead(q, r) PROVE NotRunAgain
  BY <1>20 DEF CancelRead, Receives, RequestAt, RequestFrame
<1>21. ASSUME NEW q \in Requests, submit_benchmark_run(q) PROVE NotRunAgain
  BY <1>21 DEF submit_benchmark_run, Reply, RequestFrame
<1>22. ASSUME NEW q \in Requests, RetryRefused(q) PROVE NotRunAgain
  BY <1>22 DEF RetryRefused, Reply, RequestFrame
<1>23. ASSUME NEW q \in Requests, RetryRequeue(q) PROVE NotRunAgain
  BY <1>23 DEF RetryRequeue, update_benchmark_run, RequestAt, RequestFrame
<1>24. ASSUME NEW q \in Requests, CancelQueued(q) PROVE NotRunAgain
  BY <1>24 DEF CancelQueued, cancel_benchmark_run_if_status, Reply, RequestFrame
<1>25. ASSUME NEW q \in Requests, CancelRunning(q) PROVE NotRunAgain
  BY <1>25 DEF CancelRunning, cancel_benchmark_run_if_status, Reply, RequestFrame
<1>26. ASSUME NEW q \in Requests, RequestRaises(q) PROVE NotRunAgain
  BY <1>26 DEF RequestRaises, Reply
<1>27. CASE \E recovering \in BOOLEAN : Startup(recovering)
  BY <1>27 DEF Startup, recover_stale_benchmark_runs
<1>28. CASE BeginShutdown \/ EndShutdown
  BY <1>28 DEF BeginShutdown, EndShutdown
<1>29. CASE Crash
  BY <1>29 DEF Crash
<1>30. CASE UNCHANGED vars
  BY <1>30 DEF vars
<1>. QED  BY <1>1, <1>2, <1>3, <1>4, <1>5, <1>6, <1>7, <1>8, <1>9, <1>10, <1>11, <1>12,
     <1>13, <1>14, <1>15, <1>16, <1>17, <1>18, <1>19, <1>20, <1>21, <1>22, <1>23, <1>24,
     <1>25, <1>26, <1>27, <1>28, <1>29, <1>30
     DEF Next, WorkerStep, RequestStep, Requests

(***************************************************************************)
(* The theorems                                                            *)
(***************************************************************************)

\* For every number of slots.
SlotInv == TypeOK /\ SlotsConserved /\ ProcessInv /\ EntryInv /\ AttendedInv

LEMMA InitSlotInv == Init => SlotInv
<1>. SUFFICES ASSUME Init PROVE SlotInv
  OBVIOUS
<1>. USE BenchmarkAssumption DEF Init
<1>1. TypeOK
  BY DEF TypeOK, WorkerLabels
<1>2. SlotsConserved
  <2>1. {w \in Workers : HoldsSlot(w)} = {}
    BY DEF HoldsSlot
  <2>2. Cardinality({w \in Workers : HoldsSlot(w)}) = 0
    BY <2>1, FS_EmptySet, Zenon
  <2>. QED  BY <2>2 DEF SlotsConserved
<1>3. ProcessInv /\ EntryInv /\ AttendedInv
  BY DEF ProcessInv, EntryInv, AttendedInv, BeforeLoad, BeforeRun
<1>. QED  BY <1>1, <1>2, <1>3 DEF SlotInv

\* The invariants that hold for every number of slots, together.
LEMMA SlotInductive == SlotInv /\ [Next]_vars => SlotInv'
<1>. SUFFICES ASSUME SlotInv, [Next]_vars PROVE SlotInv'
  OBVIOUS
<1>. USE DEF SlotInv
<1>1. TypeOK' /\ SlotsConserved'
  BY TypeInductive
<1>2. ProcessInv' /\ EntryInv' /\ AttendedInv'
  BY <1>1, ProcessInductive, EntryInductive, AttendedInductive
<1>. QED  BY <1>1, <1>2

LEMMA SlotInvAlways == Spec => []SlotInv
  BY InitSlotInv, SlotInductive, PTL DEF Spec

\* Every variable keeps its type, and a thread has a run exactly while it is busy.
THEOREM TypeCorrect == Spec => []TypeOK
<1>1. SlotInv => TypeOK
  BY DEF SlotInv
<1>. QED  BY SlotInvAlways, <1>1, PTL

\* No slot is lost or freed twice, whichever way a worker leaves a run (benchmarks.py's
\* finally block): the free slots and the executing workers always add up to MaxSlots.
THEOREM SlotsAddUp == Spec => []SlotsConserved
<1>1. SlotInv => SlotsConserved
  BY DEF SlotInv
<1>. QED  BY SlotInvAlways, <1>1, PTL

\* So at most MaxSlots workers execute at a time (README.md:667).
THEOREM AtMostMaxSlots == Spec => [](Cardinality(Holders) <= MaxSlots)
<1>1. SlotInv => Cardinality(Holders) <= MaxSlots
  <2>. SUFFICES ASSUME SlotInv PROVE Cardinality(Holders) <= MaxSlots
    OBVIOUS
  <2>1. IsFiniteSet(Holders) /\ Cardinality(Holders) \in Nat
    BY BenchmarkAssumption, FS_Subset, FS_CardinalityType DEF Holders
  <2>2. slots \in 0..MaxSlots /\ slots + Cardinality(Holders) = MaxSlots
    BY DEF SlotInv, TypeOK, SlotsConserved, Holders
  <2>. QED  BY <2>1, <2>2, BenchmarkAssumption
<1>. QED  BY SlotInvAlways, <1>1, PTL

\* While no operation has raised, a run that is not over is with a request, in the queue or
\* with a worker of the live process, for every number of slots, racing retries and cancels.
THEOREM NobodyAbandoned == Spec => []NoAbandonedRun
<1>1. SlotInv => NoAbandonedRun
  BY DEF SlotInv, AttendedInv, NoAbandonedRun, Attended, RowStatus, Terminal
<1>. QED  BY SlotInvAlways, <1>1, PTL

\* With one slot.
OneSlotInv == SlotInv /\ RowFileInv /\ SavedInv

\* The rows and the files agree when one worker executes at a time.
LEMMA OneSlotAlways ==
    ASSUME MaxSlots = 1
    PROVE  Spec => []OneSlotInv
<1>1. Init => OneSlotInv
  <2>. SUFFICES ASSUME Init PROVE OneSlotInv
    OBVIOUS
  <2>1. SlotInv
    BY InitSlotInv
  <2>2. RowFileInv /\ SavedInv
    BY DEF Init, RowFileInv, SavedInv, CompletedIsComplete, Executing, BeforeRun
  <2>. QED  BY <2>1, <2>2 DEF OneSlotInv
<1>2. OneSlotInv /\ [Next]_vars => OneSlotInv'
  <2>. SUFFICES ASSUME OneSlotInv, [Next]_vars PROVE OneSlotInv'
    OBVIOUS
  <2>1. SlotInv'
    BY SlotInductive DEF OneSlotInv
  <2>2. RowFileInv' /\ SavedInv'
    BY <2>1, RowFileInductive, SavedInductive DEF OneSlotInv, SlotInv
  <2>. QED  BY <2>1, <2>2 DEF OneSlotInv
<1>. QED  BY <1>1, <1>2, PTL DEF Spec

\* Incomplete work is never marked successful (docs/architecture.md:1291): a completed run
\* has its results and a complete, readable manifest, for ever, across every failure,
\* retry and restart.
THEOREM CompletedRunsComplete ==
    ASSUME MaxSlots = 1
    PROVE  Spec => []CompletedIsComplete
<1>1. OneSlotInv => CompletedIsComplete
  BY DEF OneSlotInv, RowFileInv
<1>. QED  BY OneSlotAlways, <1>1, PTL

\* A retry never runs again an experiment whose manifest was saved as completed.
THEOREM FinishedWorkStays ==
    ASSUME MaxSlots = 1
    PROVE  Spec => FinishedWorkKept
<1>1. OneSlotInv /\ [Next]_vars
        => [\A w \in Workers : pc[w] # "experiment" /\ pc'[w] = "experiment" =>
                task[w] \notin saved]_vars
  BY ExperimentOnce DEF OneSlotInv, SlotInv, NotRunAgain
<1>. QED  BY OneSlotAlways, <1>1, PTL DEF Spec, FinishedWorkKept
=============================================================================
