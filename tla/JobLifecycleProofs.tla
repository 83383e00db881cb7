------------------------- MODULE JobLifecycleProofs -------------------------
(***************************************************************************)
(* Proofs about JobLifecycle, for any sets of jobs, workers and requests   *)
(* and any bounds on faults and crashes: how often a job is worked on and  *)
(* billed, then that the rows of the jobs table agree with who is working  *)
(* on the job, at every step of every thread. The second part builds on    *)
(* OwnershipInv, which says that a job is in one place only and how far    *)
(* its work has come.                                                      *)
(***************************************************************************)
EXTENDS JobClaims, TLAPS

(* The type invariant is inductive by itself. *)

\* The types of the jobs table, as the connection shows it.
DbTypeOK ==
    /\ status \in [Jobs -> RowStatus \cup {"unused", "deleted"}]
    /\ completedAt \subseteq Jobs
    /\ result \subseteq Jobs
    /\ retryCount \in [Jobs -> Nat]
    /\ parent \in [Jobs -> Jobs \cup {NoJob}]
    /\ usage \in [Jobs -> [Codes -> Nat]]

LEMMA RowsType == DbTypeOK <=> Rows \in SavedRows
  BY DEF DbTypeOK, Rows, SavedRows

\* What is committed is a table, and so is what a rollback brings back.
LEMMA CommitType == DbTypeOK' /\ Commit => saved' \in SavedRows
  BY DEF DbTypeOK, Rows, SavedRows, Commit

LEMMA RollBackType == saved \in SavedRows /\ RollBack => DbTypeOK' /\ saved' \in SavedRows
  BY DEF DbTypeOK, SavedRows, RollBack

LEMMA InitTypeOK == Init => TypeOK
<1>. SUFFICES ASSUME Init PROVE TypeOK
  OBVIOUS
<1>1. DbTypeOK /\ saved = Rows
  BY ConstantsAssumption DEF Init, DbTypeOK, RowStatus, Terminal, Codes
<1>2. saved \in SavedRows
  BY <1>1, RowsType
<1>. QED
  BY <1>1, <1>2, ConstantsAssumption
  DEF Init, TypeOK, DbTypeOK, RowStatus, Terminal, Codes, WorkerLabels, RequestLabels

\* Each write of the repository keeps the types of the jobs table.
LEMMA WritesTypeOK ==
    ASSUME DbTypeOK, NEW j \in Jobs
    PROVE  /\ \A s \in RowStatus : update_job_status(j, s) => DbTypeOK'
           /\ complete_job(j) => DbTypeOK'
           /\ fail_job(j) => DbTypeOK'
           /\ cancel_job_if_status(j) => DbTypeOK'
           /\ \A n \in Nat, p \in Jobs \cup {NoJob} : create_job(j, n, p) => DbTypeOK'
           /\ \A c \in Codes : record_usage(j, c) => DbTypeOK'
  <1>. USE DEF DbTypeOK, SetStatus
  <1>1. ASSUME NEW s \in RowStatus, update_job_status(j, s) PROVE DbTypeOK'
    BY <1>1 DEF update_job_status
  <1>2. ASSUME complete_job(j) PROVE DbTypeOK'
    BY <1>2 DEF complete_job, RowStatus, Terminal
  <1>3. ASSUME fail_job(j) PROVE DbTypeOK'
    BY <1>3 DEF fail_job, RowStatus, Terminal
  <1>4. ASSUME cancel_job_if_status(j) PROVE DbTypeOK'
    BY <1>4 DEF cancel_job_if_status, dbVars, RowStatus, Terminal
  <1>5. ASSUME NEW n \in Nat, NEW p \in Jobs \cup {NoJob}, create_job(j, n, p) PROVE DbTypeOK'
    BY <1>5 DEF create_job, RowStatus
  <1>6. ASSUME NEW c \in Codes, record_usage(j, c) PROVE DbTypeOK'
    BY <1>6 DEF record_usage
  <1>. QED  BY <1>1, <1>2, <1>3, <1>4, <1>5, <1>6

LEMMA TypeInductive == TypeOK /\ [Next]_vars => TypeOK'
<1>. SUFFICES ASSUME TypeOK, [Next]_vars PROVE TypeOK'
  OBVIOUS
<1>. USE ConstantsAssumption
     DEF TypeOK, WorkerLabels, RequestLabels, dbVars, workerVars, requestVars,
         boundVars, histVars
<1>0. DbTypeOK
  BY DEF DbTypeOK
<1>1. ASSUME NEW w \in Workers, WorkerStep(w) PROVE TypeOK'
  <2>. USE DEF WorkerFrame, Goto, Release
  <2>1. CASE Pickup(w)
    BY <2>1 DEF Pickup
  <2>2. CASE PreCheck(w)
    BY <2>2 DEF PreCheck
  <2>3. CASE MarkRunning(w)
    <3>1. DbTypeOK'
      BY <2>3, <1>0, WritesTypeOK DEF MarkRunning, RowStatus
    <3>2. task[w] \in Jobs
      BY <2>3 DEF MarkRunning
    <3>3. runs' \in [Jobs -> Nat]
      BY <2>3, <3>2 DEF MarkRunning
    <3>. QED  BY <2>3, <3>1, <3>3, CommitType DEF MarkRunning, DbTypeOK
  <2>4. CASE AnalysisReturns(w)
    BY <2>4 DEF AnalysisReturns
  <2>5. CASE AnalysisRaises(w)
    BY <2>5 DEF AnalysisRaises
  <2>6. CASE PostCheck(w)
    BY <2>6 DEF PostCheck
  <2>7. CASE CancelFirst(w)
    <3>1. DbTypeOK'
      BY <2>7, <1>0, WritesTypeOK DEF CancelFirst, RowStatus, Terminal
    <3>. QED  BY <2>7, <3>1, CommitType DEF CancelFirst, DbTypeOK
  <2>8. CASE CancelFail(w)
    <3>1. DbTypeOK'
      BY <2>8, <1>0, WritesTypeOK DEF CancelFail
    <3>. QED  BY <2>8, <3>1, CommitType DEF CancelFail, DbTypeOK
  <2>9. CASE CancelLast(w)
    <3>1. DbTypeOK'
      BY <2>9, <1>0, WritesTypeOK DEF CancelLast, RowStatus, Terminal
    <3>. QED  BY <2>9, <3>1, CommitType DEF CancelLast, DbTypeOK
  <2>10. CASE Complete(w)
    <3>1. DbTypeOK'
      BY <2>10, <1>0, WritesTypeOK DEF Complete
    <3>. QED  BY <2>10, <3>1, CommitType DEF Complete, DbTypeOK
  <2>11. CASE Fail(w)
    <3>1. DbTypeOK'
      BY <2>11, <1>0, WritesTypeOK DEF Fail
    <3>. QED  BY <2>11, <3>1, CommitType DEF Fail, DbTypeOK
  <2>12. CASE RecordUsage(w)
    <3>1. DbTypeOK'
      BY <2>12, <1>0, WritesTypeOK DEF RecordUsage, Codes
    <3>. QED  BY <2>12, <3>1, CommitType DEF RecordUsage, DbTypeOK
  <2>. QED
    BY <1>1, <2>1, <2>2, <2>3, <2>4, <2>5, <2>6, <2>7, <2>8, <2>9, <2>10, <2>11, <2>12
    DEF WorkerStep
<1>2. ASSUME NEW w \in Workers, RepoRaises(w) PROVE TypeOK'
  <2>1. \/ Release(w)
        \/ /\ pc' = [pc EXCEPT ![w] = "checking"]
           /\ inExcept' = inExcept \cup {w}
           /\ UNCHANGED task
    BY <1>2 DEF RepoRaises
  <2>2. /\ pc' \in [Workers -> WorkerLabels]
        /\ task' \in [Workers -> Jobs \cup {NoJob}]
        /\ inExcept' \subseteq Workers
    BY <2>1 DEF Release
  <2>3. \A v \in Workers : (task'[v] = NoJob) <=> (pc'[v] = "idle")
    BY <1>2, <2>1 DEF RepoRaises, Release
  <2>4. faults' \in Nat
    BY <1>2 DEF RepoRaises
  <2>5. task[w] \in Jobs
    BY <1>2 DEF RepoRaises
  <2>6. Uncommitted(w) => DbTypeOK'
    BY <1>0, <2>5, WritesTypeOK DEF Uncommitted, RowStatus, Terminal, Codes
  <2>7. DbTypeOK'
    BY <1>0, <1>2, <2>6 DEF RepoRaises, DbTypeOK
  <2>8. unsure' \subseteq Jobs
    BY <1>2, <2>5 DEF RepoRaises
  <2>. QED  BY <1>2, <2>2, <2>3, <2>4, <2>7, <2>8 DEF RepoRaises, DbTypeOK
<1>3. ASSUME NEW r \in Submitters, NEW j \in Jobs, AnalyzeAsync(r, j) PROVE TypeOK'
  <2>1. DbTypeOK'
    BY <1>3, <1>0, WritesTypeOK DEF AnalyzeAsync
  <2>. QED  BY <1>3, <2>1, CommitType DEF AnalyzeAsync, RequestAt, RequestFrame, DbTypeOK, Requests
<1>4. ASSUME NEW r \in Submitters, NEW j \in Jobs, RetryRead(r, j) PROVE TypeOK'
  BY <1>4 DEF RetryRead, RequestAt, RequestFrame, Requests
<1>5. ASSUME NEW r \in Cancellers, NEW j \in Jobs, CancelRead(r, j) PROVE TypeOK'
  <2>. USE DEF CancelRead, RequestFrame
  <2>1. r \in Requests
    BY DEF Requests
  <2>2. CASE RequestAt(r, "cas", j) /\ UNCHANGED toldCancelled
    BY <1>5, <2>1, <2>2 DEF RequestAt
  <2>3. CASE RequestAt(r, "request", j) /\ UNCHANGED toldCancelled
    BY <1>5, <2>1, <2>3 DEF RequestAt
  <2>4. CASE toldCancelled' = toldCancelled \cup {j} /\ UNCHANGED requestVars
    BY <1>5, <2>4
  <2>. QED  BY <1>5, <2>2, <2>3, <2>4
<1>6. ASSUME NEW r \in Requests, RequestStep(r) PROVE TypeOK'
  <2>. USE DEF RequestFrame, RequestAt, Reply
  <2>1. CASE SubmitToExecutor(r)
    BY <2>1 DEF SubmitToExecutor
  <2>2. ASSUME NEW j \in Jobs, RetryCreate(r, j) PROVE TypeOK'
    <3>1. rjob[r] \in Jobs
      BY <2>2 DEF RetryCreate
    <3>2. DbTypeOK'
      BY <2>2, <3>1, <1>0, WritesTypeOK DEF RetryCreate
    <3>. QED  BY <2>2, <3>2, CommitType DEF RetryCreate, DbTypeOK
  <2>3. CASE RetryRefused(r)
    BY <2>3 DEF RetryRefused
  <2>4. CASE CancelIfQueued(r)
    <3>1. rjob[r] \in Jobs
      BY <2>4 DEF CancelIfQueued
    <3>2. DbTypeOK'
      BY <2>4, <3>1, <1>0, WritesTypeOK DEF CancelIfQueued
    <3>. QED  BY <2>4, <3>1, <3>2, CommitType DEF CancelIfQueued, DbTypeOK
  <2>5. CASE CancelReread(r)
    <3>1. rjob[r] \in Jobs
      BY <2>5 DEF CancelReread
    <3>2. CASE RequestAt(r, "request", rjob[r]) /\ UNCHANGED toldCancelled
      BY <2>5, <3>1, <3>2 DEF CancelReread
    <3>3. CASE Reply(r) /\ toldCancelled' = toldCancelled \cup {rjob[r]}
      BY <2>5, <3>1, <3>3 DEF CancelReread
    <3>. QED  BY <2>5, <3>2, <3>3 DEF CancelReread
  <2>6. CASE CancelRequest(r)
    <3>1. rjob[r] \in Jobs
      BY <2>6 DEF CancelRequest
    <3>2. DbTypeOK'
      BY <2>6, <3>1, <1>0, WritesTypeOK DEF CancelRequest, RowStatus
    <3>. QED  BY <2>6, <3>2, CommitType DEF CancelRequest, DbTypeOK
  <2>. QED
    BY <1>6, <2>1, <2>2, <2>3, <2>4, <2>5, <2>6 DEF RequestStep
<1>6a. ASSUME NEW r \in Requests, RequestRaises(r) PROVE TypeOK'
  <2>1. rjob[r] \in Jobs
    BY <1>6a DEF RequestRaises
  <2>2. DbTypeOK'
    <3>1. CASE UNCHANGED dbVars
      BY <1>0, <3>1 DEF DbTypeOK
    <3>2. ASSUME NEW new \in Jobs, create_job(new, retryCount[rjob[r]] + 1, rjob[r])
          PROVE  DbTypeOK'
      BY <1>0, <2>1, <3>2, WritesTypeOK
    <3>3. CASE cancel_job_if_status(rjob[r])
      BY <1>0, <2>1, <3>3, WritesTypeOK
    <3>4. CASE update_job_status(rjob[r], "cancellation_requested")
      BY <1>0, <2>1, <3>4, WritesTypeOK DEF RowStatus
    <3>. QED  BY <1>6a, <3>1, <3>2, <3>3, <3>4 DEF RequestRaises
  <2>. QED  BY <1>6a, <2>2 DEF RequestRaises, Reply, DbTypeOK
<1>6b. ASSUME NEW r \in Submitters, NEW j \in Jobs, InsertRaises(r, j) PROVE TypeOK'
  <2>1. DbTypeOK'
    BY <1>6b, <1>0, WritesTypeOK DEF InsertRaises
  <2>. QED  BY <1>6b, <2>1 DEF InsertRaises, DbTypeOK
<1>7. ASSUME NEW recovering \in BOOLEAN, Startup(recovering) PROVE TypeOK'
  <2>1. PICK stale \in SUBSET Jobs, old \in SUBSET Jobs :
           /\ status' = Swept(stale, old).status
           /\ completedAt' = Swept(stale, old).completedAt
           /\ saved' \in {saved, Swept(stale, {}), Swept(stale, old)}
    BY <1>7 DEF Startup, recover_stale_jobs
  <2>2. \A o \in SUBSET Jobs : Swept(stale, o) \in SavedRows
    BY <1>0, <2>1 DEF Swept, Rows, SavedRows, DbTypeOK, RowStatus, Terminal
  <2>3. saved' \in SavedRows
    BY <2>1, <2>2
  <2>4. DbTypeOK'
    BY <1>0, <1>7, <2>1, <2>2 DEF SavedRows, Swept, Rows, DbTypeOK, Startup
  <2>. QED  BY <1>7, <2>3, <2>4 DEF Startup, DbTypeOK
<1>7a. CASE CommitElsewhere
  <2>1. saved' \in SavedRows
    BY <1>0, <1>7a, RowsType DEF CommitElsewhere
  <2>. QED  BY <1>7a, <2>1 DEF CommitElsewhere
<1>8. CASE BeginShutdown
  BY <1>8 DEF BeginShutdown
<1>9. CASE EndShutdown
  BY <1>9, RollBackType DEF EndShutdown, DbTypeOK
<1>10. CASE Crash
  BY <1>10, RollBackType DEF Crash, ThreadsGone, DbTypeOK
<1>11. CASE UNCHANGED vars
  BY <1>11 DEF vars
<1>. QED
  BY <1>1, <1>2, <1>3, <1>4, <1>5, <1>6, <1>7, <1>8, <1>9, <1>10, <1>11,
     <1>6a, <1>6b, <1>7a DEF Next

\* Every variable of the job component keeps its type, and a thread has a job
\* exactly when it is busy, whatever the interleaving and the crashes.
THEOREM TypeCorrect == Spec => []TypeOK
  BY InitTypeOK, TypeInductive, PTL DEF Spec
-----------------------------------------------------------------------------
(* Ownership and work. A job is nowhere until its row is inserted, then in   *)
(* exactly one place, or in none for good: that is what makes at-most-once   *)
(* analysis and billing inductive.                                           *)

\* The connection shows what was committed.
Synced ==
    /\ saved.status = status /\ saved.completedAt = completedAt /\ saved.result = result
    /\ saved.retryCount = retryCount /\ saved.parent = parent /\ saved.usage = usage

LEMMA CommitSyncs == Commit => Synced'
  BY DEF Commit, Rows, Synced

LEMMA RollBackSyncs == RollBack => Synced'
  BY DEF RollBack, Synced

\* A process that is shutting down has answered its requests, and one that is not
\* there has no threads, no work items and no open transaction.
ProcessInv ==
    /\ proc # "serving" => \A r \in Requests : rpc[r] = "idle"
    /\ proc \in {"stopped", "crashed"} =>
          queue = <<>> /\ (\A w \in Workers : pc[w] = "idle") /\ Synced

\* The worker has its job but has not started the analysis.
Before(w) == pc[w] \in {"picked", "starting"}

\* A row on its way to a worker: inserted and committed, not analysed, not billed.
Pending(j) ==
    /\ status[j] # "unused" /\ saved.status[j] # "unused"
    /\ runs[j] = 0 /\ usage[j][200] = 0 /\ usage[j][500] = 0

\* A row whose analysis was started by a worker that has not billed it, or has had an
\* exception from its first attempt to.
Started(w, j) ==
    /\ status[j] # "unused" /\ saved.status[j] # "unused"
    /\ runs[j] = 1 /\ usage[j][500] = 0
    /\ usage[j][200] \in {0, 1}
    /\ usage[j][200] = 1 => j \in unsure /\ w \in inExcept

\* What is in the usage table, on disk or not, was booked once by status code.
Booked(u) ==
    \A j \in Jobs :
        /\ \A c \in Codes : u[j][c] <= runs[j]
        /\ u[j][200] > 0 /\ u[j][500] > 0 => j \in unsure

\* Nothing that was committed is missing from the connection.
Kept == \A j \in Jobs, c \in Codes : saved.usage[j][c] <= usage[j][c]

JobsWork ==
    \A j \in Jobs :
        /\ \A r \in Requests : Submitting(r, j) => Pending(j)
        /\ \A i \in 1..Len(queue) : Queued(i, j) => Pending(j)
        /\ \A w \in Workers : Held(w, j) => IF Before(w) THEN Pending(j) ELSE Started(w, j)

JobsUsed ==
    \A j \in Jobs :
        /\ status[j] = "unused" => saved.status[j] = "unused"
        /\ saved.status[j] = "unused" => runs[j] = 0
        /\ runs[j] <= 1

WorkInv ==
    /\ JobsWork
    /\ JobsUsed
    /\ Booked(usage)
    /\ Booked(saved.usage)
    /\ Kept

OwnershipInv == TypeOK /\ ProcessInv /\ OneOwner /\ WorkInv

\* A row that is used stays used, on the connection and on disk, and what is on disk
\* of the usage is what was there or what the connection shows.
StaysUsed ==
    /\ \A j \in Jobs : status'[j] = "unused" => status[j] = "unused"
    /\ \A j \in Jobs :
          \/ saved'.status[j] = "unused" <=> saved.status[j] = "unused"
          \/ saved'.status[j] = "unused" <=> status'[j] = "unused"
    /\ saved'.usage \in {saved.usage, usage'}
    /\ unsure \subseteq unsure'

\* A step that takes no job to another place, starts and bills nothing: it may
\* only let a worker or a request forget its job.
Quiet ==
    /\ StaysUsed
    /\ UNCHANGED <<queue, runs, usage>>
    /\ \A r \in Requests, j \in Jobs : Submitting(r, j)' => Submitting(r, j)
    /\ \A w \in Workers, j \in Jobs :
          Held(w, j)' => /\ Held(w, j) /\ (Before(w)' <=> Before(w))
                         /\ (w \in inExcept => w \in inExcept')

LEMMA UsageNumbers == TypeOK => \A j \in Jobs : /\ usage[j][200] \in Nat /\ usage[j][500] \in Nat
                                                /\ saved.usage[j][200] \in Nat
                                                /\ saved.usage[j][500] \in Nat
                                                /\ runs[j] \in Nat
  BY DEF TypeOK, SavedRows, Codes

LEMMA QuietKeepsOwnership ==
    ASSUME OwnershipInv, TypeOK', ProcessInv', Quiet
    PROVE  OwnershipInv'
<1>. USE DEF OwnershipInv
<1>1. \A i, j : Queued(i, j)' <=> Queued(i, j)
  BY DEF Quiet, Queued
<1>2. OneOwner'
  BY <1>1 DEF OneOwner, Quiet
<1>3. \A j \in Jobs : Pending(j) => Pending(j)'
  BY DEF Pending, Quiet, StaysUsed
<1>4. \A w \in Workers, j \in Jobs :
          Started(w, j) /\ (w \in inExcept => w \in inExcept') => Started(w, j)'
  BY DEF Started, Quiet, StaysUsed
<1>5. Booked(usage)' /\ Booked(saved.usage)'
  BY DEF WorkInv, JobsWork, JobsUsed, Booked, Quiet, StaysUsed
<1>6. Kept'
  BY UsageNumbers DEF WorkInv, JobsWork, JobsUsed, Kept, Quiet, StaysUsed, Codes
<1>7. JobsUsed'
  BY DEF WorkInv, JobsWork, JobsUsed, Quiet, StaysUsed
<1>8. JobsWork'
  BY <1>1, <1>3, <1>4 DEF WorkInv, JobsWork, JobsUsed, Quiet
<1>9. WorkInv'
  BY <1>5, <1>6, <1>7, <1>8 DEF WorkInv
<1>. QED  BY <1>2, <1>9

LEMMA SetStatusKeepsRows ==
    ASSUME TypeOK, NEW j \in Jobs, NEW s \in RowStatus, SetStatus(j, s)
    PROVE  \A k \in Jobs : (status'[k] = "unused") <=> (status[k] = "unused")
  BY DEF SetStatus, TypeOK, RowStatus, Terminal

\* A commit or no commit: the disk has what it had or what the connection shows.
LEMMA CommitKeepsRows ==
    ASSUME \A k \in Jobs : status'[k] = "unused" => status[k] = "unused",
           Commit \/ UNCHANGED saved, unsure \subseteq unsure'
    PROVE  StaysUsed
  BY DEF StaysUsed, Commit, Rows

\* The steps of a worker between the start of the analysis and the usage record, and
\* the exceptions of every call but that one.
QuietWorkerStep(w) ==
    \/ PreCheck(w) \/ AnalysisReturns(w) \/ AnalysisRaises(w) \/ PostCheck(w)
    \/ CancelFirst(w) \/ CancelFail(w) \/ CancelLast(w)
    \/ Complete(w) \/ Fail(w)
    \/ RepoRaises(w) /\ usage' = usage

LEMMA WorkerQuiet ==
    ASSUME TypeOK, NEW w \in Workers, QuietWorkerStep(w)
    PROVE  Quiet
<1>1. /\ pc[w] # "idle"
      /\ task[w] \in Jobs
  BY DEF QuietWorkerStep, PreCheck, AnalysisReturns, AnalysisRaises, PostCheck, CancelFirst,
         CancelFail, CancelLast, Complete, Fail, RepoRaises, TypeOK
<1>2. \A k \in Jobs : (status'[k] = "unused") <=> (status[k] = "unused")
  <2>1. CASE UNCHANGED status
    BY <2>1
  <2>2. CASE \E s \in RowStatus : SetStatus(task[w], s)
    BY <1>1, <2>2, SetStatusKeepsRows
  <2>3. CASE RepoRaises(w)
    BY <2>1, <2>2, <2>3
    DEF RepoRaises, dbVars, Uncommitted, update_job_status, fail_job, complete_job, record_usage,
        RowStatus, Terminal
  <2>. QED
    BY <2>1, <2>2, <2>3
    DEF QuietWorkerStep, PreCheck, AnalysisReturns, AnalysisRaises, PostCheck, CancelFirst,
        CancelFail, CancelLast, Complete, Fail, update_job_status, fail_job, complete_job, dbVars,
        RowStatus, Terminal
<1>3. UNCHANGED <<queue, runs, usage, rpc, rjob>>
  BY DEF QuietWorkerStep, PreCheck, AnalysisReturns, AnalysisRaises, PostCheck, CancelFirst,
         CancelFail, CancelLast, Complete, Fail, RepoRaises, update_job_status, fail_job,
         complete_job, WorkerFrame, dbVars, requestVars
<1>4. StaysUsed
  <2>1. Commit \/ UNCHANGED saved
    BY DEF QuietWorkerStep, PreCheck, AnalysisReturns, AnalysisRaises, PostCheck, CancelFirst,
           CancelFail, CancelLast, Complete, Fail, RepoRaises
  <2>2. unsure \subseteq unsure'
    BY DEF QuietWorkerStep, PreCheck, AnalysisReturns, AnalysisRaises, PostCheck, CancelFirst,
           CancelFail, CancelLast, Complete, Fail, RepoRaises, WorkerFrame
  <2>. QED  BY <1>2, <2>1, <2>2, CommitKeepsRows
<1>5. \/ Release(w)
      \/ /\ task' = task
         /\ inExcept \subseteq inExcept'
         /\ \E l \in WorkerLabels : pc' = [pc EXCEPT ![w] = l] /\ (Before(w)' <=> Before(w))
  <2>1. CASE PreCheck(w)
    BY <2>1 DEF PreCheck, Goto, Before, WorkerLabels, TypeOK
  <2>2. CASE AnalysisReturns(w)
    BY <2>2 DEF AnalysisReturns, Goto, Before, WorkerLabels, TypeOK
  <2>3. CASE AnalysisRaises(w)
    BY <2>3 DEF AnalysisRaises, Goto, Before, WorkerLabels, TypeOK
  <2>4. CASE PostCheck(w)
    BY <2>4 DEF PostCheck, Goto, Before, WorkerLabels, TypeOK
  <2>5. CASE CancelFirst(w)
    BY <2>5 DEF CancelFirst, Goto, Before, WorkerLabels, TypeOK
  <2>6. CASE CancelFail(w)
    BY <2>6 DEF CancelFail, Goto, Before, WorkerLabels, TypeOK
  <2>7. CASE CancelLast(w)
    BY <2>7 DEF CancelLast
  <2>8. CASE Complete(w)
    BY <2>8 DEF Complete, Goto, Before, WorkerLabels, TypeOK
  <2>9. CASE Fail(w)
    BY <2>9 DEF Fail, Goto, Before, WorkerLabels, TypeOK
  <2>10. CASE RepoRaises(w)
    BY <2>10 DEF RepoRaises, Before, WorkerLabels, TypeOK
  <2>. QED
    BY <2>1, <2>2, <2>3, <2>4, <2>5, <2>6, <2>7, <2>8, <2>9, <2>10 DEF QuietWorkerStep
<1>6. \A v \in Workers, j \in Jobs :
          Held(v, j)' => /\ Held(v, j) /\ (Before(v)' <=> Before(v))
                         /\ (v \in inExcept => v \in inExcept')
  BY <1>5, ConstantsAssumption DEF Release, Held, Before, TypeOK
<1>. QED  BY <1>3, <1>4, <1>6 DEF Quiet, Submitting

\* The steps of a request other than the insert and the submission.
QuietRequestStep(r) ==
    \/ \E j \in Jobs : RetryRead(r, j) \/ CancelRead(r, j) \/ InsertRaises(r, j)
    \/ RetryRefused(r) \/ CancelIfQueued(r) \/ CancelReread(r) \/ CancelRequest(r)
    \/ RequestRaises(r)

LEMMA RequestQuiet ==
    ASSUME TypeOK, NEW r \in Requests, QuietRequestStep(r)
    PROVE  Quiet
<1>1. UNCHANGED <<queue, runs, usage, pc, task, inExcept>>
  BY DEF QuietRequestStep, RetryRead, CancelRead, RetryRefused, CancelIfQueued, CancelReread,
         CancelRequest, RequestRaises, InsertRaises, RequestFrame, cancel_job_if_status,
         update_job_status, create_job, dbVars, workerVars, histVars
<1>2. \A k \in Jobs : status'[k] = "unused" => status[k] = "unused"
  <2>1. CASE UNCHANGED dbVars
    BY <2>1 DEF dbVars
  <2>2. ASSUME NEW j \in Jobs, cancel_job_if_status(j)
        PROVE  \A k \in Jobs : status'[k] = "unused" => status[k] = "unused"
    BY <2>2 DEF cancel_job_if_status, dbVars, TypeOK
  <2>3. ASSUME NEW j \in Jobs, update_job_status(j, "cancellation_requested")
        PROVE  \A k \in Jobs : status'[k] = "unused" => status[k] = "unused"
    BY <2>3, SetStatusKeepsRows DEF update_job_status, RowStatus
  <2>4. ASSUME NEW new \in Jobs, NEW n, NEW par, create_job(new, n, par)
        PROVE  \A k \in Jobs : status'[k] = "unused" => status[k] = "unused"
    BY <2>4 DEF create_job, TypeOK
  <2>5. rpc[r] # "idle" => rjob[r] \in Jobs
    BY DEF TypeOK
  <2>6. CASE RequestRaises(r)
    BY <2>1, <2>2, <2>3, <2>4, <2>5, <2>6 DEF RequestRaises
  <2>. QED
    BY <2>1, <2>2, <2>3, <2>4, <2>5, <2>6
    DEF QuietRequestStep, RetryRead, CancelRead, InsertRaises, RetryRefused, CancelIfQueued,
        CancelReread, CancelRequest
<1>3. StaysUsed
  <2>1. Commit \/ UNCHANGED saved
    BY DEF QuietRequestStep, RetryRead, CancelRead, RetryRefused, CancelIfQueued, CancelReread,
           CancelRequest, RequestRaises, InsertRaises
  <2>2. unsure' = unsure
    BY DEF QuietRequestStep, RetryRead, CancelRead, RetryRefused, CancelIfQueued, CancelReread,
           CancelRequest, RequestRaises, InsertRaises, RequestFrame, histVars
  <2>. QED  BY <1>2, <2>1, <2>2, CommitKeepsRows
<1>4. \/ UNCHANGED requestVars
      \/ \E l \in RequestLabels \ {"submit"}, j \in Jobs \cup {NoJob} : RequestAt(r, l, j)
  <2>1. CASE \E j \in Jobs : RetryRead(r, j) \/ CancelRead(r, j) \/ InsertRaises(r, j)
    BY <2>1 DEF RetryRead, CancelRead, InsertRaises, RequestLabels
  <2>2. CASE RetryRefused(r) \/ CancelRequest(r) \/ RequestRaises(r)
    <3>1. Reply(r)
      BY <2>2 DEF RetryRefused, CancelRequest, RequestRaises
    <3>. QED  BY <3>1 DEF Reply, RequestAt, RequestLabels
  <2>3. CASE CancelIfQueued(r) \/ CancelReread(r)
    <3>1. rjob[r] \in Jobs
      BY <2>3 DEF CancelIfQueued, CancelReread, TypeOK
    <3>2. RequestAt(r, "reread", rjob[r]) \/ RequestAt(r, "request", rjob[r]) \/ Reply(r)
      BY <2>3 DEF CancelIfQueued, CancelReread
    <3>. QED  BY <3>1, <3>2 DEF Reply, RequestAt, RequestLabels
  <2>. QED  BY <2>1, <2>2, <2>3 DEF QuietRequestStep
<1>5. \A q \in Requests, j \in Jobs : Submitting(q, j)' => Submitting(q, j)
  BY <1>4 DEF RequestAt, RequestLabels, Submitting, requestVars, TypeOK
<1>. QED  BY <1>1, <1>3, <1>5 DEF Quiet, Held, Before

LEMMA ProcessQuiet ==
    ASSUME TypeOK, ProcessInv,
           \/ \E recovering \in BOOLEAN : Startup(recovering)
           \/ CommitElsewhere \/ BeginShutdown \/ UNCHANGED vars
    PROVE  Quiet
<1>1. UNCHANGED <<queue, runs, usage, pc, task, inExcept, rpc, rjob, unsure>>
  BY DEF Startup, CommitElsewhere, BeginShutdown, vars, dbVars, workerVars, requestVars, histVars
<1>2. StaysUsed
  <2>1. ASSUME NEW recovering \in BOOLEAN, Startup(recovering) PROVE StaysUsed
    <3>1. PICK stale \in SUBSET {j \in Jobs : status[j] # "unused"}, old \in SUBSET Jobs :
             /\ status' = Swept(stale, old).status
             /\ saved' \in {saved, Swept(stale, {}), Swept(stale, old)}
             /\ \A j \in old : status[j] # "unused"
      BY <2>1 DEF Startup, recover_stale_jobs, Terminal, TypeOK
    <3>2. /\ \A j \in Jobs : status'[j] = "unused" <=> status[j] = "unused"
          /\ Swept(stale, {}).usage = usage /\ Swept(stale, old).usage = usage
          /\ \A j \in Jobs : /\ Swept(stale, {}).status[j] = "unused" <=> status[j] = "unused"
                             /\ Swept(stale, old).status[j] = "unused" <=> status[j] = "unused"
      BY <3>1 DEF Swept, Rows
    <3>. QED  BY <1>1, <3>1, <3>2 DEF StaysUsed
  <2>2. CASE CommitElsewhere \/ BeginShutdown \/ UNCHANGED vars
    BY <1>1, <2>2, CommitKeepsRows
    DEF CommitElsewhere, BeginShutdown, Commit, Rows, vars, dbVars
  <2>. QED  BY <2>1, <2>2
<1>. QED  BY <1>1, <1>2 DEF Quiet, Held, Before, Submitting

\* A new row, committed, in the hands of the request that will submit it.
Insert(r, j) ==
    /\ status[j] = "unused"
    /\ status' = [status EXCEPT ![j] = "queued"]
    /\ Commit
    /\ RequestAt(r, "submit", j)
    /\ UNCHANGED <<queue, runs, usage, pc, task, inExcept, unsure>>

LEMMA InsertSteps ==
    ASSUME NEW r \in Requests, NEW j \in Jobs, AnalyzeAsync(r, j) \/ RetryCreate(r, j)
    PROVE  Insert(r, j)
  BY DEF AnalyzeAsync, RetryCreate, create_job, RequestFrame, workerVars, Insert

LEMMA InsertKeepsOwnership ==
    ASSUME OwnershipInv, TypeOK', ProcessInv', NEW r \in Requests, NEW j \in Jobs, Insert(r, j)
    PROVE  OwnershipInv'
<1>. USE DEF OwnershipInv
<1>1. /\ \A i, k : Queued(i, k)' <=> Queued(i, k)
      /\ \A w, k : (Held(w, k)' <=> Held(w, k)) /\ (Before(w)' <=> Before(w))
      /\ saved'.status = status' /\ saved'.usage = usage
  BY DEF Insert, Commit, Rows, Queued, Held, Before
<1>2. \A q \in Requests, k \in Jobs :
          Submitting(q, k)' <=> (q = r /\ k = j) \/ (q # r /\ Submitting(q, k))
  BY DEF Insert, RequestAt, Submitting, TypeOK
<1>3. /\ \A q \in Requests : ~Submitting(q, j)
      /\ \A i \in 1..Len(queue) : ~Queued(i, j)
      /\ \A w \in Workers : ~Held(w, j)
  BY DEF Insert, WorkInv, JobsWork, JobsUsed, Pending, Started
<1>4. OneOwner'
  BY <1>1, <1>2, <1>3 DEF OneOwner, Insert
<1>5. \A k \in Jobs \ {j} : /\ Pending(k) => Pending(k)'
                            /\ \A w \in Workers : Started(w, k) => Started(w, k)'
                            /\ status'[k] = status[k]
  BY <1>1 DEF Pending, Started, Insert, TypeOK
<1>6. Pending(j)' /\ status'[j] # "unused"
  <2>1. runs[j] = 0 /\ usage[j][200] <= 0 /\ usage[j][500] <= 0
    BY DEF Insert, WorkInv, JobsWork, JobsUsed, Booked, Codes
  <2>2. status'[j] = "queued"
    BY DEF Insert, TypeOK
  <2>. QED  BY <1>1, <2>1, <2>2, UsageNumbers DEF Pending, Insert
<1>7. Booked(usage)' /\ Booked(saved.usage)' /\ Kept'
  BY <1>1, UsageNumbers DEF WorkInv, JobsWork, JobsUsed, Booked, Kept, Insert, Codes
<1>8. JobsUsed'
  BY <1>1, <1>5, <1>6 DEF WorkInv, JobsWork, JobsUsed, Insert
<1>9. JobsWork'
  BY <1>1, <1>2, <1>3, <1>5, <1>6 DEF WorkInv, JobsWork, JobsUsed, Insert
<1>10. WorkInv'
  BY <1>7, <1>8, <1>9 DEF WorkInv
<1>. QED  BY <1>4, <1>10

LEMMA SubmitKeepsOwnership ==
    ASSUME OwnershipInv, TypeOK', ProcessInv', NEW r \in Requests, SubmitToExecutor(r)
    PROVE  OwnershipInv'
<1>. USE DEF OwnershipInv
<1>1. PICK job \in Jobs : job = rjob[r] /\ Submitting(r, job)
  BY DEF SubmitToExecutor, TypeOK, Submitting
<1>2. /\ \A w, k : (Held(w, k)' <=> Held(w, k)) /\ (Before(w)' <=> Before(w))
      /\ \A k \in Jobs : (Pending(k)' <=> Pending(k))
      /\ \A w, k : (Started(w, k)' <=> Started(w, k))
      /\ UNCHANGED <<status, saved, runs, usage, unsure>>
  BY DEF SubmitToExecutor, RequestFrame, workerVars, dbVars, Held, Before, Pending, Started
<1>3. \A q \in Requests, k \in Jobs : Submitting(q, k)' <=> q # r /\ Submitting(q, k)
  BY DEF SubmitToExecutor, Reply, Submitting, TypeOK
<1>4. /\ Len(queue') = Len(queue) + 1
      /\ \A i \in 1..Len(queue'), k \in Jobs :
            Queued(i, k)' <=> Queued(i, k) \/ (i = Len(queue') /\ k = job)
  BY <1>1 DEF SubmitToExecutor, Queued, TypeOK
<1>5. OneOwner'
  <2>1. /\ \A i \in 1..Len(queue) : ~Queued(i, job)
        /\ \A w \in Workers : ~Held(w, job)
        /\ \A q \in Requests : Submitting(q, job) => q = r
    BY <1>1 DEF OneOwner
  <2>2. \A k \in Jobs : \A i \in 1..Len(queue') :
            Queued(i, k)' /\ k # job => i \in 1..Len(queue) /\ Queued(i, k)
    BY <1>4 DEF Queued
  <2>3. \A i \in 1..Len(queue') : Queued(i, job)' => i = Len(queue')
    BY <1>1, <1>4, <2>1 DEF Queued
  <2>4. ASSUME NEW k \in Jobs, NEW i \in 1..Len(queue'), NEW m \in 1..Len(queue'),
               Queued(i, k)', Queued(m, k)'
        PROVE  i = m
    BY <2>2, <2>3, <2>4 DEF OneOwner
  <2>5. ASSUME NEW k \in Jobs, NEW i \in 1..Len(queue'), Queued(i, k)'
        PROVE  /\ \A q \in Requests : ~Submitting(q, k)'
               /\ \A w \in Workers : ~Held(w, k)'
    BY <1>2, <1>3, <2>1, <2>2, <2>5 DEF OneOwner
  <2>. QED  BY <1>2, <1>3, <2>4, <2>5 DEF OneOwner
<1>6. Booked(usage)' /\ Booked(saved.usage)' /\ Kept'
  BY <1>2 DEF WorkInv, JobsWork, JobsUsed, Booked, Kept
<1>7. WorkInv'
  BY <1>1, <1>2, <1>3, <1>4, <1>6 DEF WorkInv, JobsWork, JobsUsed, Queued
<1>. QED  BY <1>5, <1>7

LEMMA PickupKeepsOwnership ==
    ASSUME OwnershipInv, TypeOK', ProcessInv', NEW w \in Workers, Pickup(w)
    PROVE  OwnershipInv'
<1>. USE DEF OwnershipInv
<1>1. PICK job \in Jobs : job = Head(queue) /\ 1 \in 1..Len(queue) /\ Queued(1, job)
  BY DEF Pickup, TypeOK, Queued
<1>2. /\ \A q, k : Submitting(q, k)' <=> Submitting(q, k)
      /\ \A k \in Jobs : (Pending(k)' <=> Pending(k))
      /\ \A v, k : (Started(v, k)' <=> Started(v, k))
      /\ UNCHANGED <<status, saved, runs, usage, unsure>>
  BY DEF Pickup, requestVars, dbVars, histVars, Submitting, Pending, Started
<1>3. \A i \in 1..Len(queue'), k \in Jobs :
          Queued(i, k)' => i + 1 \in 1..Len(queue) /\ Queued(i + 1, k)
  BY DEF Pickup, Queued, TypeOK
<1>4. /\ \A v \in Workers, k \in Jobs :
            Held(v, k)' <=> (v = w /\ k = job) \/ (v # w /\ Held(v, k))
      /\ \A v \in Workers : v # w => (Before(v)' <=> Before(v))
      /\ Before(w)'
  BY <1>1 DEF Pickup, Held, Before, TypeOK
<1>5. OneOwner'
  <2>1. /\ \A v \in Workers : ~Held(v, job)
        /\ \A q \in Requests : ~Submitting(q, job)
        /\ \A i \in 1..Len(queue) : Queued(i, job) => i = 1
    BY <1>1 DEF OneOwner
  <2>2. ASSUME NEW i \in 1..Len(queue'), Queued(i, job)' PROVE FALSE
    <3>1. i + 1 = 1
      BY <1>1, <1>3, <2>1, <2>2
    <3>. QED  BY <3>1
  <2>3. \A k \in Jobs : \A i, m \in 1..Len(queue') : Queued(i, k)' /\ Queued(m, k)' => i = m
    BY <1>3 DEF OneOwner
  <2>. QED  BY <1>1, <1>2, <1>3, <1>4, <2>1, <2>2, <2>3 DEF OneOwner
<1>6. Booked(usage)' /\ Booked(saved.usage)' /\ Kept'
  BY <1>2 DEF WorkInv, JobsWork, JobsUsed, Booked, Kept
<1>7. WorkInv'
  BY <1>1, <1>2, <1>3, <1>4, <1>6 DEF WorkInv, JobsWork, JobsUsed
<1>. QED  BY <1>5, <1>7

\* The process ends: every job that was on its way is nowhere, and the rows are those
\* that were committed.
LEMMA EndKeepsOwnership ==
    ASSUME OwnershipInv, TypeOK', ProcessInv', Crash \/ EndShutdown
    PROVE  OwnershipInv'
<1>1. /\ \A r \in Requests, j \in Jobs : ~Submitting(r, j)'
      /\ Len(queue') = 0
      /\ \A w \in Workers, j \in Jobs : ~Held(w, j)'
  <2>1. CASE Crash
    BY <2>1, ConstantsAssumption DEF Crash, ThreadsGone, Submitting, Held
  <2>2. CASE EndShutdown
    BY <2>2, ConstantsAssumption
    DEF EndShutdown, OwnershipInv, ProcessInv, TypeOK, Submitting, Held, workerVars, requestVars
  <2>. QED  BY <2>1, <2>2
<1>2. /\ UNCHANGED <<runs, unsure>>
      /\ status' = saved.status /\ saved' = saved /\ usage' = saved.usage
  BY DEF Crash, EndShutdown, RollBack, histVars
<1>3. Booked(usage)' /\ Booked(saved.usage)' /\ Kept'
  BY <1>2, UsageNumbers DEF OwnershipInv, WorkInv, JobsWork, JobsUsed, Booked, Kept, Codes
<1>4. WorkInv'
  BY <1>1, <1>2, <1>3 DEF OwnershipInv, WorkInv, JobsWork, JobsUsed
<1>. QED
  BY <1>1, <1>4 DEF OwnershipInv, OneOwner

LEMMA MarkRunningKeepsOwnership ==
    ASSUME OwnershipInv, TypeOK', ProcessInv', NEW w \in Workers, MarkRunning(w)
    PROVE  OwnershipInv'
<1>. USE DEF OwnershipInv
<1>1. PICK job \in Jobs : job = task[w] /\ Held(w, job) /\ Before(w) /\ Pending(job)
  BY DEF MarkRunning, TypeOK, Held, Before, WorkInv, JobsWork, JobsUsed
<1>2. /\ \A r, k : Submitting(r, k)' <=> Submitting(r, k)
      /\ \A i, k : Queued(i, k)' <=> Queued(i, k)
      /\ \A v, k : Held(v, k)' <=> Held(v, k)
      /\ UNCHANGED <<queue, usage, inExcept, unsure>>
      /\ saved'.status = status' /\ saved'.usage = usage
  BY DEF MarkRunning, update_job_status, Commit, Rows, Goto, WorkerFrame, requestVars,
         Submitting, Queued, Held
<1>3. /\ \A v \in Workers : v # w => (Before(v)' <=> Before(v))
      /\ ~Before(w)'
  BY DEF MarkRunning, Goto, Before, TypeOK
<1>4. \A k \in Jobs : (status'[k] = "unused") <=> (status[k] = "unused")
  BY <1>1, SetStatusKeepsRows DEF MarkRunning, update_job_status, RowStatus
<1>5. /\ runs' = [runs EXCEPT ![job] = 1]
      /\ runs'[job] = 1 /\ \A k \in Jobs \ {job} : runs'[k] = runs[k]
  BY <1>1 DEF MarkRunning, Pending, TypeOK
<1>6. /\ Started(w, job)'
      /\ \A k \in Jobs \ {job} : /\ Pending(k) => Pending(k)'
                                 /\ \A v \in Workers : Started(v, k) => Started(v, k)'
  BY <1>1, <1>2, <1>4, <1>5 DEF Pending, Started
<1>7. /\ \A r \in Requests : ~Submitting(r, job)
      /\ \A i \in 1..Len(queue) : ~Queued(i, job)
      /\ \A v \in Workers : Held(v, job) => v = w
  BY <1>1 DEF OneOwner
<1>8. OneOwner'
  BY <1>2 DEF OneOwner
<1>9. Booked(usage)' /\ Booked(saved.usage)' /\ Kept'
  <2>1. \A j \in Jobs, c \in Codes : usage[j][c] \in Nat /\ runs[j] \in Nat
    BY DEF TypeOK
  <2>2. \A j \in Jobs, c \in Codes : usage[j][c] <= runs[j] => usage[j][c] <= runs'[j]
    BY <1>1, <1>5, <2>1 DEF Pending
  <2>. QED  BY <1>2, <2>1, <2>2 DEF WorkInv, JobsWork, JobsUsed, Booked, Kept
<1>10. WorkInv'
  <2>1. ASSUME NEW k \in Jobs \ {job}
        PROVE  /\ \A r \in Requests : Submitting(r, k)' => Pending(k)'
               /\ \A i \in 1..Len(queue') : Queued(i, k)' => Pending(k)'
               /\ \A v \in Workers :
                     Held(v, k)' => IF Before(v)' THEN Pending(k)' ELSE Started(v, k)'
               /\ status'[k] = "unused" => saved'.status[k] = "unused"
               /\ saved'.status[k] = "unused" => runs'[k] = 0
               /\ runs'[k] <= 1
    BY <1>1, <1>2, <1>3, <1>4, <1>5, <1>6 DEF WorkInv, JobsWork, JobsUsed, Held
  <2>2. /\ \A r \in Requests : ~Submitting(r, job)'
        /\ \A i \in 1..Len(queue') : ~Queued(i, job)'
        /\ \A v \in Workers : Held(v, job)' => v = w
    BY <1>2, <1>7
  <2>3. runs'[job] <= 1 /\ status'[job] # "unused" /\ saved'.status[job] # "unused"
    BY <1>5, <1>6 DEF Started
  <2>. QED  BY <1>3, <1>6, <1>9, <2>1, <2>2, <2>3 DEF WorkInv, JobsWork, JobsUsed
<1>. QED  BY <1>8, <1>10

\* What a call of record_usage does, whether it returns or raises after its insert: the
\* record of the worker's code is there, and the worker is gone unless it was the first
\* attempt, whose exception takes it to the except block.
Books(w, job) ==
    /\ Held(w, job) /\ pc[w] = "recording" /\ ~Before(w)
    /\ StaysUsed
    /\ UNCHANGED <<queue, status, runs, rpc, rjob>>
    /\ \/ /\ w \notin inExcept
          /\ usage' = [usage EXCEPT ![job][200] = @ + 1]
          /\ \/ Release(w)
             \/ /\ job \in unsure' /\ w \in inExcept'
                /\ task' = task /\ pc' = [pc EXCEPT ![w] = "checking"]
                /\ inExcept \subseteq inExcept'
       \/ /\ w \in inExcept
          /\ usage' = [usage EXCEPT ![job][500] = @ + 1]
          /\ Release(w)

LEMMA BookingSteps ==
    ASSUME OwnershipInv, NEW w \in Workers, RecordUsage(w) \/ (RepoRaises(w) /\ usage' # usage)
    PROVE  \E job \in Jobs : Books(w, job)
<1>1. pc[w] = "recording"
  BY DEF RecordUsage, RepoRaises, Uncommitted, update_job_status, fail_job, complete_job, dbVars
<1>2. PICK job \in Jobs : job = task[w] /\ Held(w, job) /\ ~Before(w)
  BY <1>1 DEF OwnershipInv, TypeOK, Held, Before
<1>3. /\ UNCHANGED <<queue, status, runs, rpc, rjob>>
      /\ unsure \subseteq unsure'
      /\ Commit \/ UNCHANGED saved
  BY <1>1 DEF RecordUsage, RepoRaises, Uncommitted, record_usage, WorkerFrame, requestVars, dbVars
<1>4. StaysUsed
  BY <1>3, CommitKeepsRows
<1>5. record_usage(job, IF w \in inExcept THEN 500 ELSE 200)
  BY <1>1, <1>2 DEF RecordUsage, RepoRaises, Uncommitted, dbVars
<1>6. \/ Release(w)
      \/ /\ w \notin inExcept /\ job \in unsure' /\ w \in inExcept'
         /\ task' = task /\ pc' = [pc EXCEPT ![w] = "checking"]
         /\ inExcept \subseteq inExcept'
  BY <1>1, <1>2 DEF RecordUsage, RepoRaises, dbVars
<1>7. CASE w \in inExcept
  <2>1. usage' = [usage EXCEPT ![job][500] = @ + 1]
    BY <1>5, <1>7 DEF record_usage
  <2>2. Books(w, job)
    BY <1>1, <1>2, <1>3, <1>4, <1>6, <1>7, <2>1 DEF Books
  <2>. QED  BY <2>2
<1>8. CASE w \notin inExcept
  <2>1. usage' = [usage EXCEPT ![job][200] = @ + 1]
    BY <1>5, <1>8 DEF record_usage
  <2>2. Books(w, job)
    BY <1>1, <1>2, <1>3, <1>4, <1>6, <1>8, <2>1 DEF Books
  <2>. QED  BY <2>2
<1>. QED  BY <1>7, <1>8

LEMMA BookingKeepsOwnership ==
    ASSUME OwnershipInv, TypeOK', ProcessInv', NEW w \in Workers, NEW job \in Jobs, Books(w, job)
    PROVE  OwnershipInv'
<1>. USE DEF OwnershipInv
<1>1. Held(w, job) /\ Started(w, job)
  BY DEF Books, WorkInv, JobsWork, JobsUsed
<1>2. /\ \A r, k : Submitting(r, k)' <=> Submitting(r, k)
      /\ \A i, k : Queued(i, k)' <=> Queued(i, k)
      /\ UNCHANGED <<queue, status, runs>>
  BY DEF Books, Submitting, Queued
<1>3. \A v \in Workers, k \in Jobs :
          Held(v, k)' => /\ Held(v, k) /\ (Before(v)' <=> Before(v))
                         /\ (v \in inExcept => v \in inExcept')
  BY ConstantsAssumption DEF Books, Release, Held, Before, TypeOK
<1>4. OneOwner'
  BY <1>2, <1>3 DEF OneOwner
<1>5. \A k \in Jobs \ {job} : usage'[k] = usage[k]
  BY DEF Books, TypeOK
<1>6. \/ /\ usage'[job][200] = usage[job][200] + 1 /\ usage'[job][500] = usage[job][500]
         /\ usage[job][200] = 0
         /\ \A v \in Workers : Held(v, job)' => v = w /\ job \in unsure' /\ w \in inExcept'
      \/ /\ usage'[job][500] = usage[job][500] + 1 /\ usage'[job][200] = usage[job][200]
         /\ \A v \in Workers : ~Held(v, job)'
  <2>1. \A v \in Workers : Held(v, job)' => v = w
    BY <1>1, <1>3 DEF OneOwner
  <2>2. Release(w) => ~Held(w, job)'
    BY ConstantsAssumption DEF Release, Held, TypeOK
  <2>3. usage[job] \in [Codes -> Nat] /\ 200 \in Codes /\ 500 \in Codes
    BY DEF TypeOK, Codes
  <2>4. w \notin inExcept => usage[job][200] = 0
    BY <1>1, <2>3 DEF Started
  <2>. QED  BY <2>1, <2>2, <2>3, <2>4 DEF Books, TypeOK
<1>7. \A k \in Jobs \ {job} : /\ Pending(k) => Pending(k)'
                              /\ \A v \in Workers : Started(v, k) /\ (v \in inExcept => v \in inExcept')
                                    => Started(v, k)'
  BY <1>2, <1>5 DEF Pending, Started, Books, StaysUsed
<1>8. ~Before(w) /\ \A v \in Workers : Held(v, job)' => Started(v, job)'
  BY <1>1, <1>2, <1>6 DEF Started, Books, StaysUsed
<1>9. Booked(usage)'
  <2>1. ASSUME NEW k \in Jobs \ {job}
        PROVE  /\ \A c \in Codes : usage'[k][c] <= runs'[k]
               /\ usage'[k][200] > 0 /\ usage'[k][500] > 0 => k \in unsure'
    BY <1>2, <1>5 DEF WorkInv, JobsWork, JobsUsed, Booked, Books, StaysUsed
  <2>2. /\ \A c \in Codes : usage'[job][c] <= runs'[job]
        /\ usage'[job][200] > 0 /\ usage'[job][500] > 0 => job \in unsure'
    BY <1>1, <1>2, <1>6, UsageNumbers DEF Started, Codes, Books, StaysUsed
  <2>. QED  BY <2>1, <2>2 DEF Booked
<1>10. Booked(saved.usage)' /\ Kept'
  <2>1. Booked(saved.usage)'
    BY <1>2, <1>9 DEF WorkInv, JobsWork, JobsUsed, Booked, Books, StaysUsed
  <2>2. \A k \in Jobs, c \in Codes : usage[k][c] <= usage'[k][c] /\ usage'[k][c] \in Nat
    <3>1. ASSUME NEW k \in Jobs, NEW c \in Codes
          PROVE  usage[k][c] <= usage'[k][c] /\ usage'[k][c] \in Nat
      <4>1. CASE k = job
        BY <1>6, <4>1, UsageNumbers DEF Codes
      <4>2. CASE k # job
        BY <1>5, <4>2, UsageNumbers DEF Codes
      <4>. QED  BY <4>1, <4>2
    <3>. QED  BY <3>1
  <2>3. Kept'
    BY <2>2, UsageNumbers DEF WorkInv, JobsWork, JobsUsed, Kept, Books, StaysUsed, Codes
  <2>. QED  BY <2>1, <2>3
<1>11. WorkInv'
  <2>1. ASSUME NEW k \in Jobs \ {job}
        PROVE  /\ \A r \in Requests : Submitting(r, k)' => Pending(k)'
               /\ \A i \in 1..Len(queue') : Queued(i, k)' => Pending(k)'
               /\ \A v \in Workers :
                     Held(v, k)' => IF Before(v)' THEN Pending(k)' ELSE Started(v, k)'
    BY <1>1, <1>2, <1>3, <1>7 DEF WorkInv, JobsWork, JobsUsed
  <2>2. /\ \A r \in Requests : ~Submitting(r, job)'
        /\ \A i \in 1..Len(queue') : ~Queued(i, job)'
        /\ \A v \in Workers : Held(v, job)' => v = w /\ ~Before(v)'
    BY <1>1, <1>2, <1>3, <1>6, <1>8 DEF OneOwner
  <2>3. JobsUsed'
    BY <1>2 DEF WorkInv, JobsWork, JobsUsed, Books, StaysUsed
  <2>4. ASSUME NEW k \in Jobs
        PROVE  /\ \A r \in Requests : Submitting(r, k)' => Pending(k)'
               /\ \A i \in 1..Len(queue') : Queued(i, k)' => Pending(k)'
               /\ \A v \in Workers :
                     Held(v, k)' => IF Before(v)' THEN Pending(k)' ELSE Started(v, k)'
    <3>1. CASE k = job
      BY <1>8, <2>2, <3>1
    <3>2. CASE k # job
      BY <2>1, <3>2
    <3>. QED  BY <3>1, <3>2
  <2>5. JobsWork'
    BY <2>4 DEF JobsWork
  <2>. QED  BY <1>9, <1>10, <2>3, <2>5 DEF WorkInv
<1>. QED  BY <1>4, <1>11

-----------------------------------------------------------------------------
(* The invariant, and what follows from it. *)

LEMMA InitOwnership == Init => OwnershipInv
<1>. SUFFICES ASSUME Init PROVE OwnershipInv
  OBVIOUS
<1>1. TypeOK
  BY InitTypeOK
<1>2. /\ \A r \in Requests, j \in Jobs : ~Submitting(r, j)
      /\ Len(queue) = 0
      /\ \A w \in Workers, j \in Jobs : ~Held(w, j)
      /\ \A j \in Jobs : runs[j] = 0 /\ \A c \in Codes : usage[j][c] = 0
  BY ConstantsAssumption DEF Init, Submitting, Held
<1>3. Synced
  BY DEF Init, Rows, Synced
<1>4. ProcessInv
  BY <1>3 DEF Init, ProcessInv
<1>5. WorkInv
  BY <1>2, <1>3 DEF WorkInv, JobsWork, JobsUsed, Booked, Kept, Synced, Codes
<1>. QED  BY <1>1, <1>2, <1>4, <1>5 DEF OwnershipInv, OneOwner

LEMMA ProcessInductive ==
    ASSUME TypeOK, TypeOK', ProcessInv, [Next]_vars
    PROVE  ProcessInv'
<1>. USE DEF ProcessInv, TypeOK, WorkerLabels, RequestLabels, dbVars, workerVars, requestVars,
         boundVars, histVars
<1>1. ASSUME NEW w \in Workers, pc[w] # "idle" \/ queue # <<>>, UNCHANGED <<proc, requestVars>>
      PROVE  ProcessInv'
  BY <1>1
<1>2. ASSUME NEW w \in Workers, WorkerStep(w) \/ RepoRaises(w) PROVE ProcessInv'
  BY <1>1, <1>2
  DEF WorkerStep, RepoRaises, Pickup, PreCheck, MarkRunning, AnalysisReturns, AnalysisRaises,
      PostCheck, CancelFirst, CancelFail, CancelLast, Complete, Fail, RecordUsage, WorkerFrame
<1>3. ASSUME NEW r \in Requests, proc = "serving", UNCHANGED proc PROVE ProcessInv'
  BY <1>3
<1>4. ASSUME NEW r \in Requests, NEW j \in Jobs,
             AnalyzeAsync(r, j) \/ InsertRaises(r, j) \/ RetryRead(r, j) \/ CancelRead(r, j)
      PROVE  ProcessInv'
  BY <1>3, <1>4 DEF AnalyzeAsync, InsertRaises, RetryRead, CancelRead, RequestFrame
<1>5. ASSUME NEW r \in Requests, RequestStep(r) \/ RequestRaises(r) PROVE ProcessInv'
  BY <1>3, <1>5
  DEF RequestStep, RequestRaises, SubmitToExecutor, RetryCreate, RetryRefused, CancelIfQueued,
      CancelReread, CancelRequest, RequestFrame
<1>6. CASE \E recovering \in BOOLEAN : Startup(recovering)
  BY <1>6 DEF Startup
<1>7. CASE CommitElsewhere \/ BeginShutdown
  BY <1>7 DEF CommitElsewhere, BeginShutdown
<1>8. CASE EndShutdown
  BY <1>8, RollBackSyncs DEF EndShutdown
<1>9. CASE Crash
  BY <1>9, RollBackSyncs DEF Crash, ThreadsGone
<1>10. CASE UNCHANGED vars
  BY <1>10 DEF vars, Synced
<1>. QED
  BY <1>2, <1>4, <1>5, <1>6, <1>7, <1>8, <1>9, <1>10 DEF Next, Requests

\* Every step is quiet or one of those that move a job, start it, bill it or end the
\* process.
LEMMA StepCases ==
    ASSUME OwnershipInv, [Next]_vars
    PROVE  \/ Quiet
           \/ \E r \in Requests, j \in Jobs : Insert(r, j)
           \/ \E r \in Requests : SubmitToExecutor(r)
           \/ \E w \in Workers : Pickup(w) \/ MarkRunning(w)
           \/ \E w \in Workers, j \in Jobs : Books(w, j)
           \/ Crash \/ EndShutdown
<1>. USE DEF OwnershipInv
<1>1. ASSUME NEW w \in Workers, WorkerStep(w) \/ RepoRaises(w)
      PROVE  Quiet \/ Pickup(w) \/ MarkRunning(w) \/ \E j \in Jobs : Books(w, j)
  BY <1>1, WorkerQuiet, BookingSteps DEF WorkerStep, QuietWorkerStep
<1>2. ASSUME NEW r \in Submitters, NEW j \in Jobs,
             AnalyzeAsync(r, j) \/ InsertRaises(r, j) \/ RetryRead(r, j)
      PROVE  Quiet \/ Insert(r, j)
  BY <1>2, RequestQuiet, InsertSteps DEF QuietRequestStep, Requests
<1>3. ASSUME NEW r \in Cancellers, NEW j \in Jobs, CancelRead(r, j)
      PROVE  Quiet
  BY <1>3, RequestQuiet DEF QuietRequestStep, Requests
<1>4. ASSUME NEW r \in Requests, RequestStep(r) \/ RequestRaises(r)
      PROVE  Quiet \/ SubmitToExecutor(r) \/ \E j \in Jobs : Insert(r, j)
  BY <1>4, RequestQuiet, InsertSteps DEF RequestStep, QuietRequestStep
<1>5. ASSUME \/ \E recovering \in BOOLEAN : Startup(recovering)
             \/ CommitElsewhere \/ BeginShutdown \/ UNCHANGED vars
      PROVE  Quiet
  BY <1>5, ProcessQuiet
<1>. QED  BY <1>1, <1>2, <1>3, <1>4, <1>5 DEF Next, Requests

LEMMA OwnershipInductive == OwnershipInv /\ [Next]_vars => OwnershipInv'
<1>. SUFFICES ASSUME OwnershipInv, [Next]_vars PROVE OwnershipInv'
  OBVIOUS
<1>1. TypeOK /\ TypeOK' /\ ProcessInv'
  BY TypeInductive, ProcessInductive DEF OwnershipInv
<1>. QED
  BY <1>1, StepCases, QuietKeepsOwnership, InsertKeepsOwnership, SubmitKeepsOwnership,
     PickupKeepsOwnership, MarkRunningKeepsOwnership, BookingKeepsOwnership, EndKeepsOwnership

LEMMA OwnershipAlways == Spec => []OwnershipInv
  BY InitOwnership, OwnershipInductive, PTL DEF Spec

\* A job is in at most one place of the process at a time, for any number of
\* workers and requests and any number of crashes: the executor and the routes
\* never hand one job to two workers.
THEOREM OneOwnerAlways == Spec => []OneOwner
<1>1. OwnershipInv => OneOwner
  BY DEF OwnershipInv
<1>. QED  BY <1>1, OwnershipAlways, PTL

\* No job is analysed twice or billed twice with one status code, and none is billed
\* that was not analysed, whatever raises, crashes or is cancelled; with both codes a
\* job is billed only if its first record was inserted by a call whose commit raised
\* (jobs.py:123, db.py:673-689).
THEOREM AtMostOnceAlways == Spec => []AtMostOnce
<1>1. ASSUME OwnershipInv, NEW j \in Jobs
      PROVE  /\ runs[j] <= 1
             /\ \A c \in Codes : usage[j][c] <= runs[j]
             /\ Billed(j) > 1 => j \in unsure
  <2>1. runs[j] <= 1 /\ \A c \in Codes : usage[j][c] <= runs[j]
    BY <1>1 DEF OwnershipInv, WorkInv, JobsWork, JobsUsed, Booked
  <2>2. usage[j][200] <= 1 /\ usage[j][500] <= 1
    BY <1>1, <2>1, UsageNumbers DEF Codes, OwnershipInv
  <2>3. Billed(j) > 1 => usage[j][200] > 0 /\ usage[j][500] > 0
    BY <1>1, <2>2, UsageNumbers DEF Billed, OwnershipInv
  <2>. QED  BY <1>1, <2>1, <2>3 DEF OwnershipInv, WorkInv, JobsWork, JobsUsed, Booked
<1>2. OwnershipInv => AtMostOnce
  BY <1>1 DEF AtMostOnce
<1>. QED  BY <1>2, OwnershipAlways, PTL

-----------------------------------------------------------------------------
(* The job component implements its ledger of what is on disk. *)

LEMMA LedgerInit == Init => Ledger!Init
  BY DEF Init, Rows, Ledger!Init

\* Only a booking that raises is doubted, and its job was analysed.
LEMMA DoubtStep ==
    ASSUME OwnershipInv, [Next]_vars
    PROVE  unsure \subseteq unsure' /\ \A j \in unsure' \ unsure : runs[j] = 1
<1>. USE DEF OwnershipInv
<1>1. ASSUME NEW w \in Workers, RepoRaises(w)
      PROVE  unsure \subseteq unsure' /\ \A j \in unsure' \ unsure : runs[j] = 1
  <2>1. CASE pc[w] = "recording"
    <3>1. task[w] \in Jobs /\ Held(w, task[w]) /\ ~Before(w)
      BY <2>1 DEF TypeOK, Held, Before
    <3>2. runs[task[w]] = 1
      BY <3>1 DEF WorkInv, JobsWork, Started
    <3>. QED  BY <1>1, <3>2 DEF RepoRaises
  <2>2. CASE pc[w] # "recording"
    BY <1>1, <2>2 DEF RepoRaises
  <2>. QED  BY <2>1, <2>2
<1>2. ASSUME ~\E w \in Workers : RepoRaises(w) PROVE unsure' = unsure
  BY <1>2
  DEF Next, WorkerStep, Pickup, PreCheck, MarkRunning, AnalysisReturns, AnalysisRaises, PostCheck,
      CancelFirst, CancelFail, CancelLast, Complete, Fail, RecordUsage, WorkerFrame, AnalyzeAsync,
      InsertRaises, RetryRead, CancelRead, RequestStep, RequestRaises, SubmitToExecutor,
      RetryCreate, RetryRefused, CancelIfQueued, CancelReread, CancelRequest, RequestFrame, Startup,
      CommitElsewhere, BeginShutdown, EndShutdown, Crash, histVars, vars
<1>. QED  BY <1>1, <1>2

\* The columns on disk in one step: rows stay, and a record that appears is its code's
\* first, of a job that was analysed.
LEMMA DiskSteps ==
    ASSUME OwnershipInv, OwnershipInv', [Next]_vars
    PROVE  /\ \A j \in Jobs : saved.status[j] # "unused" => saved'.status[j] # "unused"
           /\ saved'.usage = saved.usage \/ saved'.usage = usage'
           /\ runs' # runs => usage' = usage /\ \E j \in Jobs :
                 /\ runs[j] = 0 /\ saved.status[j] # "unused"
                 /\ usage[j][200] = 0 /\ usage[j][500] = 0
                 /\ runs' = [runs EXCEPT ![j] = 1]
<1>. USE DEF OwnershipInv
<1>1. ASSUME StaysUsed
      PROVE  /\ \A j \in Jobs : saved.status[j] # "unused" => saved'.status[j] # "unused"
             /\ saved'.usage = saved.usage \/ saved'.usage = usage'
  BY <1>1 DEF StaysUsed, WorkInv, JobsUsed
<1>2. CASE Quiet
  BY <1>1, <1>2 DEF Quiet
<1>3. ASSUME NEW r \in Requests, NEW j \in Jobs, Insert(r, j)
      PROVE  StaysUsed /\ runs' = runs
  BY <1>3, CommitKeepsRows DEF Insert, TypeOK
<1>4. ASSUME NEW r \in Requests, SubmitToExecutor(r)
      PROVE  UNCHANGED <<saved, runs>>
  BY <1>4 DEF SubmitToExecutor, RequestFrame
<1>5. ASSUME NEW w \in Workers, Pickup(w)
      PROVE  UNCHANGED <<saved, runs>>
  BY <1>5 DEF Pickup, histVars
<1>6. ASSUME NEW w \in Workers, MarkRunning(w)
      PROVE  /\ StaysUsed /\ usage' = usage
             /\ \E j \in Jobs : /\ runs[j] = 0 /\ saved.status[j] # "unused"
                                /\ usage[j][200] = 0 /\ usage[j][500] = 0
                                /\ runs' = [runs EXCEPT ![j] = 1]
  <2>1. PICK job \in Jobs : job = task[w] /\ Pending(job)
    BY <1>6 DEF MarkRunning, TypeOK, Held, Before, WorkInv, JobsWork
  <2>2. StaysUsed
    BY <1>6, <2>1, SetStatusKeepsRows, CommitKeepsRows
    DEF MarkRunning, update_job_status, RowStatus, WorkerFrame
  <2>3. runs' = [runs EXCEPT ![job] = 1] /\ usage' = usage
    BY <1>6, <2>1 DEF MarkRunning, update_job_status, Pending
  <2>. QED  BY <2>1, <2>2, <2>3 DEF Pending
<1>7. ASSUME NEW w \in Workers, NEW j \in Jobs, Books(w, j)
      PROVE  StaysUsed /\ runs' = runs
  BY <1>7 DEF Books
<1>8. CASE Crash \/ EndShutdown
  BY <1>8 DEF Crash, EndShutdown, RollBack, histVars
<1>. QED
  BY <1>1, <1>2, <1>3, <1>4, <1>5, <1>6, <1>7, <1>8, StepCases

LEMMA LedgerStep ==
    ASSUME OwnershipInv, OwnershipInv', [Next]_vars
    PROVE  Ledger!Next
<1>. USE DEF OwnershipInv
<1>1. Ledger!Accept
  BY DiskSteps DEF Ledger!Accept
<1>2. Ledger!Start
  BY DiskSteps DEF Ledger!Start
<1>3. Ledger!Doubt
  BY DoubtStep DEF Ledger!Doubt
<1>4. ASSUME NEW j \in Jobs, NEW c \in Codes, saved'.usage[j][c] # saved.usage[j][c]
      PROVE  /\ runs[j] = 1
             /\ saved.usage[j][c] = 0 /\ saved'.usage[j][c] = 1
             /\ (\E d \in Codes \ {c} : saved'.usage[j][d] > 0) => j \in unsure'
  <2>1. saved'.usage = usage'
    BY <1>4, DiskSteps
  <2>2. /\ saved.usage[j][c] \in Nat /\ usage'[j][c] \in Nat /\ runs[j] \in Nat
        /\ usage[j][c] \in Nat /\ runs'[j] \in Nat
    BY DEF TypeOK, SavedRows
  <2>3. usage'[j][c] <= runs'[j] /\ runs'[j] <= 1 /\ saved.usage[j][c] <= usage[j][c]
    BY DEF WorkInv, JobsUsed, Booked, Kept
  <2>4. saved.usage[j][c] <= usage'[j][c]
    <3>1. CASE saved'.usage[j][c] = usage[j][c]
      BY <2>1, <2>3, <3>1
    <3>2. ASSUME NEW w \in Workers, NEW job \in Jobs, Books(w, job)
          PROVE  usage[j][c] <= usage'[j][c]
      <4>1. \E code \in Codes : usage' = [usage EXCEPT ![job][code] = @ + 1]
        BY <3>2 DEF Books, Codes
      <4>2. usage \in [Jobs -> [Codes -> Nat]]
        BY DEF TypeOK
      <4>. QED  BY <2>2, <4>1, <4>2
    <3>3. usage' = usage \/ (\E w \in Workers, job \in Jobs : Books(w, job)) \/ usage' = saved.usage
      BY StepCases
      DEF Quiet, Insert, SubmitToExecutor, Pickup, MarkRunning, update_job_status, Crash,
          EndShutdown, RollBack, dbVars
    <3>. QED  BY <2>2, <2>3, <3>2, <3>3
  <2>5. usage'[j][c] = 1 /\ saved.usage[j][c] = 0
    BY <1>4, <2>1, <2>2, <2>3, <2>4
  <2>6. runs'[j] = 1
    BY <2>2, <2>3, <2>5
  <2>7. runs[j] = 1
    <3>1. CASE runs' = runs
      BY <2>6, <3>1
    <3>2. CASE runs' # runs
      <4>1. PICK k \in Jobs : /\ usage[k][200] = 0 /\ usage[k][500] = 0
                              /\ runs' = [runs EXCEPT ![k] = 1] /\ usage' = usage
        BY <3>2, DiskSteps
      <4>2. j # k
        BY <2>5, <4>1 DEF Codes
      <4>. QED  BY <2>6, <4>1, <4>2 DEF TypeOK
    <3>. QED  BY <3>1, <3>2
  <2>8. (\E d \in Codes \ {c} : saved'.usage[j][d] > 0) => j \in unsure'
    BY <2>1, <2>5 DEF WorkInv, Booked, Codes
  <2>. QED  BY <2>1, <2>5, <2>7, <2>8
<1>5. Ledger!Book
  BY <1>4 DEF Ledger!Book
<1>. QED  BY <1>1, <1>2, <1>3, <1>5 DEF Ledger!Next

\* Refinement: what the job component has on disk is a ledger that takes nothing back,
\* starts a job once, after its row was committed, and books its usage once by status
\* code, both codes only when the first booking was answered by an exception.
THEOREM RefinesLedger == Spec => ImplementsLedger
<1>1. OwnershipInv /\ OwnershipInv' /\ [Next]_vars => [Ledger!Next]_(Ledger!vars)
  BY LedgerStep
<1>. QED
  BY <1>1, LedgerInit, OwnershipAlways, PTL DEF Spec, Ledger!Spec, ImplementsLedger

-----------------------------------------------------------------------------
(* The rows. What a step does to each column is stated once; the invariants  *)
(* that tie the rows to the threads then follow by cases on what it did.     *)

\* The job is on its way to the start of its analysis.
Way(j) ==
    \/ \E r \in Requests : Submitting(r, j)
    \/ \E i \in 1..Len(queue) : Queued(i, j)
    \/ \E w \in Workers : Held(w, j) /\ Before(w)

\* Until its analysis starts a row waits or was cancelled, here and on disk, and no
\* request is about to ask its worker to stop; and no start is open over a committed
\* request to cancel.
WayInv ==
    /\ \A j \in Jobs : Way(j) => /\ status[j] \in {"queued", "cancelled"}
                                 /\ saved.status[j] \in {"queued", "cancelled"}
    /\ \A r \in Requests : rpc[r] \in {"reread", "request"} /\ Way(rjob[r]) =>
          rpc[r] = "reread" /\ status[rjob[r]] = "cancelled"
    /\ \A r \in Requests : rpc[r] # "idle" => status[rjob[r]] # "unused"
    /\ \A j \in Jobs : saved.status[j] = "cancellation_requested" => status[j] # "running"

\* A worker that is about to record the usage of its job has ended it.
EndedInv == \A w \in Workers : pc[w] = "recording" => task[w] \notin Interrupted

\* What makes BilledWork inductive, on the connection and on disk: a job with a 200
\* record has its result, and its status is one that recovery does not turn to 'failed'.
Delivered(u, s, r) ==
    \A j \in Jobs : u[j][200] > 0 =>
        /\ j \in r
        /\ s[j] \notin {"queued", "running"}
        /\ s[j] = "failed" => j \in unsure

BillingInv ==
    /\ Delivered(usage, status, result)
    /\ Delivered(saved.usage, saved.status, saved.result)
    /\ \A w \in Workers : pc[w] = "recording" /\ w \notin inExcept =>
          task[w] \in result /\ status[task[w]] \notin {"queued", "running", "failed"}
    /\ \A w \in Workers : pc[w] = "failing" => w \in inExcept

\* A terminal row without a date is that of a worker between two of its three writes.
DatedInv ==
    faults = 0 /\ crashes = 0 =>
        /\ \A j \in Jobs : status[j] \in Terminal /\ j \notin completedAt =>
              \E w \in Workers : task[w] = j /\ pc[w] = "cancel2"
        /\ \A w \in Workers : pc[w] = "cancel3" => task[w] \in completedAt

\* As long as no call raised, nothing is left uncommitted.
SyncInv == faults = 0 => Synced

RowInv ==
    /\ OwnershipInv /\ SyncInv /\ WayInv /\ EndedInv
    /\ BillingInv /\ DatedInv /\ NoOrphans /\ CleanShutdown

\* A worker's statements that end its job.
Ending == {"cancel1", "cancel2", "cancel3", "completing", "failing"}

\* What a step may do to the status that the connection shows of a job.
StatusMove(j) ==
    \/ status'[j] = status[j]
    \/ /\ status[j] = "unused" /\ status'[j] = "queued"
       /\ faults' # 0 \/ \E r \in Requests : Submitting(r, j)'
    \/ status[j] = "queued" /\ status'[j] = "cancelled"
    \/ \E w \in Workers : /\ Held(w, j) /\ pc[w] = "starting" /\ status'[j] = "running"
                          /\ faults' # 0 \/ Held(w, j)'
                          /\ ~(Held(w, j)' /\ Before(w)')
    \/ \E w \in Workers : Held(w, j) /\ pc[w] \in Ending /\ status'[j] \in Terminal
    \/ \E r \in Requests : /\ rpc[r] = "request" /\ rjob[r] = j
                           /\ status'[j] = "cancellation_requested"
    \/ /\ proc \in {"stopped", "crashed"}
       /\ \/ status[j] \in {"queued", "running"} /\ status'[j] = "failed"
          \/ status[j] \in Terminal /\ status'[j] = "deleted"
    \/ (Crash \/ EndShutdown) /\ status'[j] = saved.status[j]

LEMMA SetStatusMoves ==
    ASSUME TypeOK, NEW j \in Jobs, NEW s \in RowStatus, SetStatus(j, s), NEW k \in Jobs
    PROVE  status'[k] = status[k] \/ (k = j /\ status'[k] = s)
  BY DEF SetStatus, TypeOK

LEMMA WorkerStatus ==
    ASSUME TypeOK, TypeOK', NEW w \in Workers, WorkerStep(w) \/ RepoRaises(w), NEW j \in Jobs
    PROVE  StatusMove(j)
<1>1. CASE status' = status
  BY <1>1 DEF StatusMove
<1>2. CASE pc[w] # "idle" /\ status' # status
  <2>1. PICK job \in Jobs : job = task[w] /\ Held(w, job)
    BY <1>2 DEF TypeOK, Held
  <2>2. CASE pc[w] = "starting" /\ SetStatus(job, "running")
    <3>1. faults' # 0 \/ Held(w, job)'
      BY <1>2, <2>1, <2>2
      DEF WorkerStep, RepoRaises, MarkRunning, Goto, Held, Pickup, PreCheck, AnalysisReturns,
          AnalysisRaises, PostCheck, CancelFirst, CancelFail, CancelLast, Complete, Fail,
          RecordUsage, TypeOK
    <3>2. ~(Held(w, job)' /\ Before(w)')
      <4>1. CASE MarkRunning(w)
        BY <4>1 DEF MarkRunning, Goto, Before, TypeOK
      <4>2. CASE RepoRaises(w)
        BY <2>2, <4>2 DEF RepoRaises, Release, Before, TypeOK
      <4>. QED
        BY <1>2, <2>2, <4>1, <4>2
        DEF WorkerStep, Pickup, PreCheck, AnalysisReturns, AnalysisRaises, PostCheck, CancelFirst,
            CancelFail, CancelLast, Complete, Fail, RecordUsage, dbVars
    <3>3. status'[j] = status[j] \/ (j = job /\ status'[j] = "running")
      BY <2>1, <2>2, SetStatusMoves DEF RowStatus
    <3>. QED  BY <2>1, <2>2, <3>1, <3>2, <3>3 DEF StatusMove
  <2>3. CASE pc[w] \in Ending /\ \E s \in Terminal : SetStatus(job, s)
    <3>1. status'[j] = status[j] \/ (j = job /\ status'[j] \in Terminal)
      BY <2>1, <2>3, SetStatusMoves DEF RowStatus
    <3>. QED  BY <2>1, <2>3, <3>1 DEF StatusMove
  <2>4. WorkerStep(w) => \/ pc[w] = "starting" /\ SetStatus(task[w], "running")
                         \/ pc[w] \in Ending /\ \E s \in Terminal : SetStatus(task[w], s)
    BY <1>2
    DEF WorkerStep, Pickup, PreCheck, MarkRunning, AnalysisReturns, AnalysisRaises, PostCheck,
        CancelFirst, CancelFail, CancelLast, Complete, Fail, RecordUsage, update_job_status,
        complete_job, fail_job, record_usage, dbVars, Ending, Terminal
  <2>5. RepoRaises(w) => \/ pc[w] = "starting" /\ SetStatus(task[w], "running")
                         \/ pc[w] \in Ending /\ \E s \in Terminal : SetStatus(task[w], s)
    BY <1>2
    DEF RepoRaises, Uncommitted, update_job_status, complete_job, fail_job, record_usage, dbVars,
        Ending, Terminal
  <2>. QED  BY <2>1, <2>2, <2>3, <2>4, <2>5
<1>3. CASE pc[w] = "idle"
  BY <1>1, <1>3
  DEF WorkerStep, RepoRaises, Pickup, PreCheck, MarkRunning, AnalysisReturns, AnalysisRaises,
      PostCheck, CancelFirst, CancelFail, CancelLast, Complete, Fail, RecordUsage, dbVars
<1>. QED  BY <1>1, <1>2, <1>3

LEMMA RequestStatus ==
    ASSUME TypeOK, TypeOK', NEW r \in Requests, NEW j \in Jobs,
           \/ RequestStep(r) \/ RequestRaises(r)
           \/ \E k \in Jobs : AnalyzeAsync(r, k) \/ InsertRaises(r, k) \/ RetryRead(r, k)
                                 \/ CancelRead(r, k)
    PROVE  StatusMove(j)
<1>1. CASE status' = status
  BY <1>1 DEF StatusMove
<1>2. ASSUME NEW k \in Jobs, NEW n, NEW par, status[k] = "unused", create_job(k, n, par),
             faults' # 0 \/ RequestAt(r, "submit", k)
      PROVE  StatusMove(j)
  <2>1. status'[j] = status[j] \/ (j = k /\ status'[j] = "queued")
    BY <1>2 DEF create_job, TypeOK
  <2>2. faults' # 0 \/ Submitting(r, k)'
    BY <1>2 DEF RequestAt, Submitting, TypeOK
  <2>. QED  BY <1>2, <2>1, <2>2 DEF StatusMove
<1>3. ASSUME NEW k \in Jobs, cancel_job_if_status(k)
      PROVE  StatusMove(j)
  BY <1>3 DEF cancel_job_if_status, dbVars, StatusMove, TypeOK
<1>4. CASE rpc[r] = "request" /\ update_job_status(rjob[r], "cancellation_requested")
  <2>1. rjob[r] \in Jobs
    BY <1>4 DEF TypeOK
  <2>2. \/ status'[j] = status[j]
        \/ (j = rjob[r] /\ status'[j] = "cancellation_requested")
    BY <1>4, <2>1, SetStatusMoves DEF update_job_status, RowStatus
  <2>. QED  BY <1>4, <2>2 DEF StatusMove
<1>5. rpc[r] # "idle" => rjob[r] \in Jobs
  BY DEF TypeOK
<1>6. CASE RequestRaises(r)
  <2>1. faults' # 0
    BY <1>6 DEF RequestRaises, TypeOK
  <2>. QED  BY <1>1, <1>2, <1>3, <1>4, <1>5, <1>6, <2>1 DEF RequestRaises, dbVars
<1>7. CASE \E k \in Jobs : InsertRaises(r, k)
  BY <1>2, <1>7 DEF InsertRaises, TypeOK
<1>8. CASE \E k \in Jobs : AnalyzeAsync(r, k) \/ RetryCreate(r, k)
  BY <1>2, <1>8 DEF AnalyzeAsync, RetryCreate
<1>9. CASE CancelIfQueued(r) \/ CancelRequest(r)
  BY <1>3, <1>4, <1>5, <1>9 DEF CancelIfQueued, CancelRequest
<1>10. CASE \/ SubmitToExecutor(r) \/ RetryRefused(r) \/ CancelReread(r)
            \/ \E k \in Jobs : RetryRead(r, k) \/ CancelRead(r, k)
  BY <1>1, <1>10 DEF SubmitToExecutor, RetryRefused, CancelReread, RetryRead, CancelRead, dbVars
<1>. QED
  BY <1>6, <1>7, <1>8, <1>9, <1>10 DEF RequestStep

\* What recovery and clean-up leave, on the connection and on disk.
StartupSweeps ==
    \E stale \in SUBSET Interrupted, old \in SUBSET {k \in Jobs : status[k] \in Terminal} :
        /\ status' = Swept(stale, old).status
        /\ completedAt' = Swept(stale, old).completedAt
        /\ saved' \in {saved, Swept(stale, {}), Swept(stale, old)}

LEMMA StartupSteps ==
    ASSUME TypeOK, NEW recovering \in BOOLEAN, Startup(recovering)
    PROVE  StartupSweeps
<1>1. PICK stale \in IF recovering THEN {recover_stale_jobs}
                     ELSE {{}, {j \in Jobs : status[j] = "running"}, recover_stale_jobs},
          old \in SUBSET {j \in completedAt : status[j] \in Terminal} :
            /\ status' = Swept(stale, old).status
            /\ completedAt' = Swept(stale, old).completedAt
            /\ saved' \in IF recovering THEN {Swept(stale, old)}
                         ELSE {saved, Swept(stale, {}), Swept(stale, old)}
  BY DEF Startup
<1>2. stale \in SUBSET Interrupted
  BY DEF recover_stale_jobs, Interrupted
<1>3. old \in SUBSET {k \in Jobs : status[k] \in Terminal}
  BY DEF TypeOK
<1>. QED  BY <1>1, <1>2, <1>3 DEF StartupSweeps

LEMMA StatusSteps ==
    ASSUME TypeOK, TypeOK', [Next]_vars, NEW j \in Jobs
    PROVE  StatusMove(j)
<1>1. CASE \E recovering \in BOOLEAN : Startup(recovering)
  <2>1. PICK stale \in SUBSET Interrupted, old \in SUBSET {k \in Jobs : status[k] \in Terminal} :
           status' = Swept(stale, old).status
    BY <1>1, StartupSteps DEF StartupSweeps
  <2>2. status'[j] = IF j \in stale THEN "failed" ELSE IF j \in old THEN "deleted" ELSE status[j]
    BY <2>1 DEF Swept, Rows
  <2>3. proc \in {"stopped", "crashed"}
    BY <1>1 DEF Startup
  <2>. QED  BY <2>1, <2>2, <2>3 DEF StatusMove, Interrupted
<1>2. CASE CommitElsewhere \/ BeginShutdown \/ UNCHANGED vars
  BY <1>2 DEF CommitElsewhere, BeginShutdown, vars, dbVars, StatusMove
<1>3. CASE Crash \/ EndShutdown
  BY <1>3 DEF Crash, EndShutdown, RollBack, StatusMove
<1>. QED
  BY <1>1, <1>2, <1>3, WorkerStatus, RequestStatus DEF Next, Requests

\* A row before and after recovery and clean-up.
Sweeps(before, after) ==
    \/ after = before
    \/ before \in {"queued", "running"} /\ after = "failed"
    \/ before \in Terminal /\ after = "deleted"

LEMMA SweptRows ==
    ASSUME StartupSweeps
    PROVE  /\ \A j \in Jobs : Sweeps(status[j], status'[j])
           /\ \/ saved' = saved
              \/ /\ saved'.usage = usage /\ saved'.result = result
                 /\ \A j \in Jobs : Sweeps(status[j], saved'.status[j])
<1>1. PICK stale \in SUBSET Interrupted, old \in SUBSET {k \in Jobs : status[k] \in Terminal} :
         /\ status' = Swept(stale, old).status
         /\ saved' \in {saved, Swept(stale, {}), Swept(stale, old)}
  BY DEF StartupSweeps
<1>2. ASSUME NEW j \in Jobs
      PROVE  /\ Sweeps(status[j], Swept(stale, {}).status[j])
             /\ Sweeps(status[j], Swept(stale, old).status[j])
  BY DEF Swept, Rows, Sweeps, Interrupted
<1>3. /\ Swept(stale, {}).usage = usage /\ Swept(stale, {}).result = result
      /\ Swept(stale, old).usage = usage /\ Swept(stale, old).result = result
  BY DEF Swept, Rows
<1>. QED  BY <1>1, <1>2, <1>3

LEMMA SavedSteps ==
    ASSUME TypeOK, [Next]_vars
    PROVE  \/ UNCHANGED saved
           \/ saved' = Rows'
           \/ StartupSweeps /\ UNCHANGED <<queue, workerVars, requestVars, usage, result, unsure>>
              /\ proc \in {"stopped", "crashed"}
<1>1. CASE \E recovering \in BOOLEAN : Startup(recovering)
  BY <1>1, StartupSteps DEF Startup, histVars
<1>2. CASE CommitElsewhere \/ BeginShutdown \/ EndShutdown \/ Crash \/ UNCHANGED vars
  BY <1>2 DEF CommitElsewhere, BeginShutdown, EndShutdown, Crash, RollBack, vars, dbVars, Rows
<1>3. ASSUME NEW w \in Workers, WorkerStep(w) \/ RepoRaises(w)
      PROVE  UNCHANGED saved \/ saved' = Rows'
  BY <1>3
  DEF WorkerStep, RepoRaises, Pickup, PreCheck, MarkRunning, AnalysisReturns, AnalysisRaises,
      PostCheck, CancelFirst, CancelFail, CancelLast, Complete, Fail, RecordUsage, Commit
<1>4. ASSUME NEW r \in Requests, NEW j \in Jobs,
             AnalyzeAsync(r, j) \/ InsertRaises(r, j) \/ RetryRead(r, j) \/ CancelRead(r, j)
      PROVE  UNCHANGED saved \/ saved' = Rows'
  BY <1>4 DEF AnalyzeAsync, InsertRaises, RetryRead, CancelRead, Commit
<1>5. ASSUME NEW r \in Requests, RequestStep(r) \/ RequestRaises(r)
      PROVE  UNCHANGED saved \/ saved' = Rows'
  BY <1>5
  DEF RequestStep, RequestRaises, SubmitToExecutor, RetryCreate, RetryRefused, CancelIfQueued,
      CancelReread, CancelRequest, Commit
<1>. QED  BY <1>1, <1>2, <1>3, <1>4, <1>5 DEF Next, Requests

\* Where the request threads are after a step.
RequestMove(r) ==
    \/ rpc'[r] = rpc[r] /\ rjob'[r] = rjob[r]
    \/ rpc'[r] = "idle"
    \/ /\ rpc'[r] = "submit" /\ rjob'[r] \in Jobs /\ status'[rjob'[r]] = "queued"
    \/ /\ rpc'[r] \in {"retry", "cas"} /\ rjob'[r] \in Jobs /\ status' = status
       /\ status[rjob'[r]] \in {"failed", "queued"}
    \/ /\ rpc[r] = "cas" /\ rpc'[r] = "reread" /\ rjob'[r] = rjob[r]
       /\ status[rjob[r]] = "queued" => status'[rjob[r]] = "cancelled"
    \/ /\ rpc[r] = "reread" /\ rpc'[r] = "request" /\ rjob'[r] = rjob[r] /\ status' = status
       /\ status[rjob[r]] # "cancelled"
    \/ /\ rpc'[r] = "request" /\ rjob'[r] \in Jobs /\ status' = status
       /\ status[rjob'[r]] = "running"

LEMMA RequestSteps ==
    ASSUME TypeOK, TypeOK', [Next]_vars, NEW r \in Requests
    PROVE  RequestMove(r)
<1>1. CASE UNCHANGED requestVars
  BY <1>1 DEF requestVars, RequestMove
<1>2. ASSUME NEW q \in Requests, Reply(q)
      PROVE  RequestMove(r)
  BY <1>2 DEF Reply, RequestMove, TypeOK
<1>3. ASSUME NEW q \in Requests, NEW l \in RequestLabels, NEW k \in Jobs, RequestAt(q, l, k), q # r
      PROVE  RequestMove(r)
  BY <1>3 DEF RequestAt, RequestMove, TypeOK
<1>4. ASSUME NEW l \in RequestLabels, NEW k \in Jobs, RequestAt(r, l, k)
      PROVE  rpc'[r] = l /\ rjob'[r] = k
  BY <1>4 DEF RequestAt, TypeOK
<1>5. ASSUME NEW q \in Requests, NEW k \in Jobs, AnalyzeAsync(q, k) \/ RetryCreate(q, k)
      PROVE  RequestMove(r)
  <2>1. status'[k] = "queued" /\ RequestAt(q, "submit", k)
    BY <1>5 DEF AnalyzeAsync, RetryCreate, create_job, TypeOK
  <2>. QED  BY <1>3, <1>4, <2>1 DEF RequestMove, RequestLabels
<1>6. ASSUME NEW q \in Requests, NEW k \in Jobs, RetryRead(q, k)
      PROVE  RequestMove(r)
  BY <1>3, <1>4, <1>6 DEF RetryRead, RequestMove, RequestLabels, dbVars
<1>7. ASSUME NEW q \in Requests, NEW k \in Jobs, CancelRead(q, k)
      PROVE  RequestMove(r)
  BY <1>1, <1>3, <1>4, <1>7 DEF CancelRead, RequestMove, RequestLabels, dbVars
<1>8. ASSUME NEW q \in Requests, CancelIfQueued(q)
      PROVE  RequestMove(r)
  <2>1. rjob[q] \in Jobs
    BY <1>8 DEF CancelIfQueued, TypeOK
  <2>2. status[rjob[q]] = "queued" => status'[rjob[q]] = "cancelled"
    BY <1>8, <2>1 DEF CancelIfQueued, cancel_job_if_status, TypeOK
  <2>. QED  BY <1>3, <1>4, <1>8, <2>1, <2>2 DEF CancelIfQueued, RequestMove, RequestLabels
<1>9. ASSUME NEW q \in Requests, CancelReread(q)
      PROVE  RequestMove(r)
  <2>1. rjob[q] \in Jobs
    BY <1>9 DEF CancelReread, TypeOK
  <2>. QED
    BY <1>2, <1>3, <1>4, <1>9, <2>1 DEF CancelReread, RequestMove, RequestLabels, dbVars
<1>10. ASSUME NEW q \in Requests,
              SubmitToExecutor(q) \/ RetryRefused(q) \/ CancelRequest(q) \/ RequestRaises(q)
       PROVE  RequestMove(r)
  BY <1>2, <1>10 DEF SubmitToExecutor, RetryRefused, CancelRequest, RequestRaises
<1>11. ASSUME NEW q \in Requests, NEW k \in Jobs, InsertRaises(q, k) PROVE RequestMove(r)
  BY <1>1, <1>11 DEF InsertRaises
<1>12. ASSUME NEW w \in Workers, WorkerStep(w) \/ RepoRaises(w) PROVE RequestMove(r)
  BY <1>1, <1>12
  DEF WorkerStep, RepoRaises, Pickup, PreCheck, MarkRunning, AnalysisReturns, AnalysisRaises,
      PostCheck, CancelFirst, CancelFail, CancelLast, Complete, Fail, RecordUsage, WorkerFrame
<1>13. CASE \/ \E recovering \in BOOLEAN : Startup(recovering)
            \/ CommitElsewhere \/ BeginShutdown \/ EndShutdown \/ UNCHANGED vars
  BY <1>1, <1>13 DEF Startup, CommitElsewhere, BeginShutdown, EndShutdown, vars
<1>14. CASE Crash
  BY <1>14 DEF Crash, ThreadsGone, RequestMove
<1>. QED
  BY <1>5, <1>6, <1>7, <1>8, <1>9, <1>10, <1>11, <1>12, <1>13, <1>14 DEF Next, RequestStep, Requests

\* A job is on its way only if it was, or its row was just committed; and the worker
\* that holds it then has not started it, before and after.
LEMMA WaySteps ==
    ASSUME OwnershipInv, OwnershipInv', [Next]_vars, NEW j \in Jobs, Way(j)'
    PROVE  /\ \/ Way(j)
              \/ status[j] = "unused" /\ status'[j] = "queued" /\ saved'.status[j] = "queued"
           /\ \A w \in Workers : Held(w, j) => Before(w) /\ Held(w, j)' /\ Before(w)'
           /\ proc' \notin {"stopped", "crashed"}
<1>. USE DEF OwnershipInv
<1>. DEFINE Goal == /\ \/ Way(j)
                       \/ status[j] = "unused" /\ status'[j] = "queued" /\ saved'.status[j] = "queued"
                    /\ \A w \in Workers : Held(w, j) => Before(w) /\ Held(w, j)' /\ Before(w)'
<1>1. proc' \notin {"stopped", "crashed"}
  BY ConstantsAssumption DEF ProcessInv, Way, Submitting, Queued, Held, Before, TypeOK
<1>2. ASSUME NEW w \in Workers, Held(w, j) PROVE ~\E r \in Requests : Submitting(r, j)
  BY <1>2 DEF OneOwner
<1>3. ASSUME NEW w \in Workers, Held(w, j) PROVE ~\E i \in 1..Len(queue) : Queued(i, j)
  BY <1>3 DEF OneOwner
<1>4. ASSUME NEW w \in Workers, Held(w, j), NEW v \in Workers, Held(v, j) PROVE v = w
  BY <1>4 DEF OneOwner
<1>5. ASSUME Quiet PROVE Goal
  <2>1. /\ \A r \in Requests : Submitting(r, j)' => Submitting(r, j)
        /\ \A i : Queued(i, j)' <=> Queued(i, j)
        /\ queue' = queue
        /\ \A w \in Workers : Held(w, j)' => Held(w, j) /\ (Before(w)' <=> Before(w))
    BY <1>5 DEF Quiet, Queued
  <2>. QED  BY <1>2, <1>3, <1>4, <2>1 DEF Way
<1>6. ASSUME NEW r \in Requests, Insert(r, j) PROVE Goal
  BY <1>6 DEF Insert, Commit, Rows, WorkInv, JobsWork, Pending, Started, TypeOK
<1>7. ASSUME NEW r \in Requests, NEW k \in Jobs, Insert(r, k), k # j PROVE Goal
  <2>1. /\ \A q \in Requests : Submitting(q, j)' => Submitting(q, j)
        /\ \A i : Queued(i, j)' <=> Queued(i, j)
        /\ \A w : (Held(w, j)' <=> Held(w, j)) /\ (Before(w)' <=> Before(w))
        /\ queue' = queue
    BY <1>7 DEF Insert, RequestAt, Submitting, Queued, Held, Before, TypeOK
  <2>. QED  BY <1>2, <1>3, <1>4, <2>1 DEF Way
<1>8. ASSUME NEW r \in Requests, SubmitToExecutor(r) PROVE Goal
  <2>1. /\ \A q \in Requests : Submitting(q, j)' => Submitting(q, j)
        /\ \A i \in 1..Len(queue') :
              Queued(i, j)' => Submitting(r, j) \/ (i \in 1..Len(queue) /\ Queued(i, j))
        /\ \A w : (Held(w, j)' <=> Held(w, j)) /\ (Before(w)' <=> Before(w))
    BY <1>8
    DEF SubmitToExecutor, RequestFrame, workerVars, Reply, Submitting, Queued, Held, Before, TypeOK
  <2>. QED  BY <1>2, <1>3, <1>4, <2>1 DEF Way
<1>9. ASSUME NEW w \in Workers, Pickup(w) PROVE Goal
  <2>1. /\ \A q : Submitting(q, j)' <=> Submitting(q, j)
        /\ \A i \in 1..Len(queue') :
              Queued(i, j)' => i + 1 \in 1..Len(queue) /\ Queued(i + 1, j)
        /\ ~Held(w, j)
        /\ \A v \in Workers : v # w =>
              (Held(v, j)' <=> Held(v, j)) /\ (Before(v)' <=> Before(v))
        /\ Held(w, j)' => 1 \in 1..Len(queue) /\ Queued(1, j)
    BY <1>9, ConstantsAssumption DEF Pickup, requestVars, Submitting, Queued, Held, Before, TypeOK
  <2>. QED  BY <1>2, <1>3, <1>4, <2>1 DEF Way
<1>10. ASSUME NEW w \in Workers, MarkRunning(w) PROVE Goal
  <2>1. /\ \A q : Submitting(q, j)' <=> Submitting(q, j)
        /\ \A i : Queued(i, j)' <=> Queued(i, j)
        /\ queue' = queue
        /\ \A v \in Workers : /\ Held(v, j)' <=> Held(v, j)
                              /\ Before(v)' <=> v # w /\ Before(v)
    BY <1>10 DEF MarkRunning, Goto, WorkerFrame, requestVars, Submitting, Queued, Held, Before, TypeOK
  <2>. QED  BY <1>2, <1>3, <1>4, <2>1 DEF Way
<1>11. ASSUME NEW w \in Workers, NEW k \in Jobs, Books(w, k) PROVE Goal
  <2>1. /\ \A q : Submitting(q, j)' <=> Submitting(q, j)
        /\ \A i : Queued(i, j)' <=> Queued(i, j)
        /\ queue' = queue
        /\ \A v \in Workers :
              Held(v, j)' /\ Before(v)' => v # w /\ Held(v, j) /\ Before(v)
    BY <1>11, ConstantsAssumption DEF Books, Release, Submitting, Queued, Held, Before, TypeOK
  <2>. QED  BY <1>2, <1>3, <1>4, <2>1 DEF Way
<1>12. ~Crash /\ ~EndShutdown
  BY <1>1 DEF Crash, EndShutdown
<1>13. Goal
  BY <1>5, <1>6, <1>7, <1>8, <1>9, <1>10, <1>11, <1>12, StepCases
<1>. QED  BY <1>1, <1>13

\* The rows agree with the jobs on their way.
LEMMA WayInductive ==
    ASSUME OwnershipInv, OwnershipInv', WayInv, [Next]_vars
    PROVE  /\ WayInv'
           /\ \A j \in Jobs : saved.status[j] = "cancellation_requested"
                                 => saved'.status[j] # "running"
<1>. USE DEF OwnershipInv
<1>1. ASSUME NEW j \in Jobs, NEW w \in Workers, Held(w, j), pc[w] = "starting"
      PROVE  Way(j)
  BY <1>1 DEF Way, Before
<1>2. ASSUME NEW j \in Jobs, Way(j)
      PROVE  /\ proc \notin {"stopped", "crashed"}
             /\ status[j] \in {"queued", "cancelled"} /\ saved.status[j] \in {"queued", "cancelled"}
  <2>1. status[j] \in {"queued", "cancelled"} /\ saved.status[j] \in {"queued", "cancelled"}
    BY <1>2 DEF WayInv
  <2>2. (\A r \in Requests : rpc[r] = "idle") /\ Len(queue) = 0 /\ (\A w \in Workers : pc[w] = "idle")
           => ~Way(j)
    BY DEF Way, Submitting, Before
  <2>3. proc \notin {"stopped", "crashed"}
    BY <1>2, <2>2 DEF ProcessInv
  <2>. QED  BY <2>1, <2>3
<1>3. ASSUME NEW j \in Jobs, Way(j)', Way(j)
      PROVE  \/ status'[j] = status[j]
             \/ status[j] = "queued" /\ status'[j] = "cancelled"
  <2>1. StatusMove(j)
    BY StatusSteps
  <2>2. ~Crash /\ ~EndShutdown
    BY <1>3, WaySteps DEF Crash, EndShutdown
  <2>3. \A w \in Workers : Held(w, j) => pc[w] \notin Ending /\ Held(w, j)' /\ Before(w)'
    BY <1>3, WaySteps DEF Ending, Before
  <2>4. \A r \in Requests : rjob[r] = j => rpc[r] # "request"
    BY <1>3 DEF WayInv
  <2>. QED  BY <1>2, <1>3, <2>1, <2>2, <2>3, <2>4 DEF StatusMove
<1>4. ASSUME NEW j \in Jobs, Way(j)'
      PROVE  status'[j] \in {"queued", "cancelled"} /\ saved'.status[j] \in {"queued", "cancelled"}
  <2>1. CASE ~Way(j)
    BY <1>4, <2>1, WaySteps
  <2>2. CASE Way(j)
    <3>1. status'[j] \in {"queued", "cancelled"}
      BY <1>2, <1>3, <1>4, <2>2
    <3>. QED  BY <1>2, <2>2, <3>1, SavedSteps DEF Rows
  <2>. QED  BY <2>1, <2>2
<1>5. ASSUME NEW r \in Requests, rpc'[r] # "idle"
      PROVE  rjob'[r] \in Jobs /\ status'[rjob'[r]] # "unused"
  <2>1. rjob'[r] \in Jobs
    BY <1>5 DEF TypeOK
  <2>2. \/ status[rjob'[r]] # "unused"
        \/ status'[rjob'[r]] # "unused"
    BY <1>5, RequestSteps DEF RequestMove, WayInv
  <2>3. ~Crash /\ ~EndShutdown
    BY <1>5 DEF Crash, EndShutdown, ProcessInv
  <2>. QED  BY <2>1, <2>2, <2>3, StatusSteps DEF StatusMove, Terminal
<1>6. ASSUME NEW r \in Requests, rpc'[r] \in {"reread", "request"}, Way(rjob[r])'
      PROVE  rpc'[r] = "reread" /\ status'[rjob'[r]] = "cancelled"
  <2>0. PICK job \in Jobs : job = rjob'[r]
    BY <1>5, <1>6
  <2>1. Way(job)'
    BY <1>6, <2>0 DEF Way, Submitting, Queued, Held, Before
  <2>2. RequestMove(r)
    BY RequestSteps
  <2>3. CASE rpc'[r] = rpc[r] /\ job = rjob[r]
    <3>1. status[job] # "unused"
      BY <1>6, <2>0, <2>3 DEF WayInv
    <3>2. Way(job)
      BY <2>1, <3>1, WaySteps
    <3>3. rpc[r] = "reread" /\ status[job] = "cancelled"
      BY <1>6, <2>3, <3>2 DEF WayInv
    <3>. QED  BY <1>3, <2>1, <2>3, <3>2, <3>3, <2>0
  <2>4. CASE /\ rpc[r] = "cas" /\ rpc'[r] = "reread" /\ job = rjob[r]
             /\ status[job] = "queued" => status'[job] = "cancelled"
    <3>1. status[job] # "unused"
      BY <2>0, <2>4 DEF WayInv
    <3>2. Way(job)
      BY <2>1, <3>1, WaySteps
    <3>. QED  BY <1>2, <1>3, <2>1, <2>4, <3>2, <2>0
  <2>5. CASE /\ rpc[r] = "reread" /\ rpc'[r] = "request" /\ job = rjob[r]
             /\ status' = status /\ status[job] # "cancelled"
    <3>1. status[job] # "unused"
      BY <2>0, <2>5 DEF WayInv
    <3>2. Way(job)
      BY <2>1, <3>1, WaySteps
    <3>. QED  BY <2>0, <2>5, <3>2 DEF WayInv
  <2>6. CASE rpc'[r] = "request" /\ status' = status /\ status[job] = "running"
    BY <1>4, <2>0, <2>1, <2>6
  <2>. QED  BY <1>6, <2>0, <2>2, <2>3, <2>4, <2>5, <2>6 DEF RequestMove
<1>7. ASSUME NEW j \in Jobs, saved'.status[j] = "cancellation_requested"
      PROVE  status'[j] # "running"
  <2>. SUFFICES ASSUME status'[j] = "running" PROVE FALSE
    OBVIOUS
  <2>1. CASE saved' = Rows'
    BY <1>7, <2>1 DEF Rows
  <2>2. CASE saved' = saved
    <3>1. status[j] # "running"
      BY <1>7, <2>2 DEF WayInv
    <3>2. \A w \in Workers : ~(Held(w, j) /\ pc[w] = "starting")
      BY <1>1, <1>2, <1>7, <2>2
    <3>. QED  BY <1>7, <2>2, <3>1, <3>2, StatusSteps DEF StatusMove, Terminal
  <2>3. CASE StartupSweeps /\ proc \in {"stopped", "crashed"}
    <3>1. saved.status[j] = "cancellation_requested" \/ status[j] = "cancellation_requested"
      BY <1>7, <2>3, SweptRows DEF Sweeps
    <3>2. status[j] # "running"
      BY <3>1 DEF WayInv
    <3>. QED  BY <2>3, <3>2, SweptRows DEF Sweeps
  <2>. QED  BY <2>1, <2>2, <2>3, SavedSteps
<1>8. ASSUME NEW j \in Jobs, saved.status[j] = "cancellation_requested"
      PROVE  saved'.status[j] # "running"
  <2>1. status[j] # "running"
    BY <1>8 DEF WayInv
  <2>2. \A w \in Workers : ~(Held(w, j) /\ pc[w] = "starting")
    BY <1>1, <1>2, <1>8
  <2>3. status'[j] # "running"
    BY <1>8, <2>1, <2>2, StatusSteps DEF StatusMove, Terminal
  <2>4. StartupSweeps => saved'.status[j] \in {saved.status[j], status[j], "failed", "deleted"}
    BY SweptRows DEF Sweeps
  <2>. QED  BY <1>8, <2>1, <2>3, <2>4, SavedSteps DEF Rows
<1>. QED  BY <1>4, <1>5, <1>6, <1>7, <1>8 DEF WayInv

-----------------------------------------------------------------------------
\* A busy worker has an existing row, alone; the row has been started exactly when the
\* worker is past MarkRunning, and has no 200 record unless its insert has raised.
BusyRows ==
    \A w \in Workers : pc[w] # "idle" =>
        /\ task[w] \in Jobs
        /\ status[task[w]] # "unused"
        /\ usage[task[w]][200] > 0 => ~Before(w) /\ task[w] \in unsure /\ w \in inExcept
        /\ \A v \in Workers : task[v] = task[w] => v = w

LEMMA WorkerFacts == OwnershipInv => BusyRows
<1>. SUFFICES ASSUME OwnershipInv, NEW w \in Workers, pc[w] # "idle"
              PROVE  /\ task[w] \in Jobs
                     /\ status[task[w]] # "unused"
                     /\ usage[task[w]][200] > 0 =>
                           ~Before(w) /\ task[w] \in unsure /\ w \in inExcept
                     /\ \A v \in Workers : task[v] = task[w] => v = w
  BY DEF BusyRows
<1>1. task[w] \in Jobs /\ Held(w, task[w])
  BY DEF OwnershipInv, TypeOK, Held
<1>2. IF Before(w) THEN Pending(task[w]) ELSE Started(w, task[w])
  BY <1>1 DEF OwnershipInv, WorkInv, JobsWork
<1>3. \A v \in Workers : task[v] = task[w] => v = w
  BY <1>1 DEF OwnershipInv, OneOwner, Held
<1>. QED  BY <1>1, <1>2, <1>3 DEF Pending, Started

\* A step that does not raise commits what it wrote.
LEMMA SyncInductive ==
    ASSUME TypeOK, TypeOK', SyncInv, [Next]_vars
    PROVE  SyncInv'
<1>1. Commit \/ (RollBack) \/ (Synced /\ UNCHANGED <<dbVars, saved>>) => Synced'
  BY CommitSyncs, RollBackSyncs DEF Synced, dbVars
<1>. SUFFICES ASSUME faults' = 0 PROVE Synced'
  BY DEF SyncInv
<1>2. ASSUME NEW w \in Workers, WorkerStep(w)
      PROVE  Commit \/ UNCHANGED <<dbVars, saved, faults>>
  BY <1>2
  DEF WorkerStep, Pickup, PreCheck, MarkRunning, AnalysisReturns, AnalysisRaises, PostCheck,
      CancelFirst, CancelFail, CancelLast, Complete, Fail, RecordUsage, WorkerFrame, boundVars
<1>3. ASSUME NEW r \in Requests, NEW j \in Jobs,
             AnalyzeAsync(r, j) \/ RetryRead(r, j) \/ CancelRead(r, j)
      PROVE  Commit \/ UNCHANGED <<dbVars, saved, faults>>
  BY <1>3 DEF AnalyzeAsync, RetryRead, CancelRead, RequestFrame, boundVars
<1>4. ASSUME NEW r \in Requests, RequestStep(r)
      PROVE  Commit \/ UNCHANGED <<dbVars, saved, faults>>
  BY <1>4
  DEF RequestStep, SubmitToExecutor, RetryCreate, RetryRefused, CancelIfQueued, CancelReread,
      CancelRequest, RequestFrame, boundVars
<1>5. CASE \/ \E w \in Workers : RepoRaises(w)
           \/ \E r \in Requests : RequestRaises(r) \/ \E j \in Jobs : InsertRaises(r, j)
           \/ Startup(FALSE)
  BY <1>5 DEF RepoRaises, RequestRaises, InsertRaises, Startup, TypeOK
<1>6. CASE Startup(TRUE)
  <2>1. PICK stale, old : /\ status' = Swept(stale, old).status
                          /\ completedAt' = Swept(stale, old).completedAt
                          /\ saved' = Swept(stale, old)
    BY <1>6 DEF Startup
  <2>2. UNCHANGED <<result, retryCount, parent, usage>>
    BY <1>6 DEF Startup
  <2>. QED  BY <2>1, <2>2 DEF Swept, Rows, Synced
<1>7. CASE CommitElsewhere
  BY <1>7 DEF CommitElsewhere, dbVars, Rows, Synced
<1>8. CASE BeginShutdown \/ UNCHANGED vars
  BY <1>8 DEF BeginShutdown, vars, boundVars, SyncInv, Synced, dbVars
<1>9. CASE EndShutdown \/ Crash
  BY <1>1, <1>9 DEF EndShutdown, Crash
<1>10. faults' = 0 /\ UNCHANGED <<dbVars, saved, faults>> => Synced'
  BY DEF SyncInv, Synced, dbVars
<1>. QED
  BY <1>1, <1>2, <1>3, <1>4, <1>5, <1>6, <1>7, <1>8, <1>9, <1>10 DEF Next, Requests

\* How a worker comes to the statements that follow the end of its job.
WorkerMove(w) ==
    \/ pc'[w] = pc[w] /\ task'[w] = task[w] /\ (w \in inExcept' <=> w \in inExcept)
    \/ pc'[w] \notin {"recording", "failing"}
    \/ pc'[w] = "failing" /\ w \in inExcept'
    \/ /\ pc[w] = "completing" /\ pc'[w] = "recording" /\ task'[w] = task[w]
       /\ SetStatus(task[w], "completed") /\ task[w] \in result'
    \/ /\ pc[w] = "failing" /\ pc'[w] = "recording" /\ task'[w] = task[w]
       /\ SetStatus(task[w], "failed") /\ (w \in inExcept' <=> w \in inExcept)

LEMMA WorkerSteps ==
    ASSUME TypeOK, [Next]_vars, NEW v \in Workers
    PROVE  WorkerMove(v)
<1>1. CASE UNCHANGED workerVars
  BY <1>1 DEF workerVars, WorkerMove
<1>2. ASSUME NEW w \in Workers, w # v, NEW l, pc' = [pc EXCEPT ![w] = l],
             task' = task \/ \E j : task' = [task EXCEPT ![w] = j],
             \A u \in Workers \ {w} : u \in inExcept' <=> u \in inExcept
      PROVE  WorkerMove(v)
  BY <1>2 DEF WorkerMove, TypeOK
<1>3. ASSUME NEW w \in Workers, Release(w) PROVE WorkerMove(v)
  BY <1>3 DEF Release, WorkerMove, TypeOK
<1>4. ASSUME NEW w \in Workers, NEW l \in WorkerLabels \ {"recording", "failing"}, Goto(w, l)
      PROVE  WorkerMove(v)
  BY <1>4 DEF Goto, WorkerMove, TypeOK
<1>5. ASSUME NEW w \in Workers, NEW l \in WorkerLabels \ {"recording", "failing"},
             pc' = [pc EXCEPT ![w] = l], task' = task, inExcept' = inExcept \cup {w}
      PROVE  WorkerMove(v)
  BY <1>5 DEF WorkerMove, TypeOK
<1>6. ASSUME NEW w \in Workers, Pickup(w) PROVE WorkerMove(v)
  BY <1>6 DEF Pickup, WorkerMove, TypeOK
<1>7. ASSUME NEW w \in Workers, PostCheck(w) PROVE WorkerMove(v)
  BY <1>7 DEF PostCheck, Goto, WorkerMove, TypeOK
<1>8. ASSUME NEW w \in Workers, Complete(w) PROVE WorkerMove(v)
  <2>1. task[w] \in Jobs
    BY <1>8 DEF Complete, TypeOK
  <2>. QED  BY <1>8, <2>1 DEF Complete, complete_job, Goto, WorkerMove, TypeOK
<1>9. ASSUME NEW w \in Workers, Fail(w) PROVE WorkerMove(v)
  BY <1>9 DEF Fail, fail_job, Goto, WorkerMove, TypeOK
<1>10. ASSUME NEW w \in Workers,
              \/ PreCheck(w) \/ MarkRunning(w) \/ AnalysisReturns(w) \/ AnalysisRaises(w)
              \/ CancelFirst(w) \/ CancelFail(w) \/ CancelLast(w) \/ RecordUsage(w)
       PROVE  WorkerMove(v)
  BY <1>3, <1>4, <1>5, <1>10
  DEF PreCheck, MarkRunning, AnalysisReturns, AnalysisRaises, CancelFirst, CancelFail, CancelLast,
      RecordUsage, WorkerLabels
<1>11. ASSUME NEW w \in Workers, RepoRaises(w) PROVE WorkerMove(v)
  BY <1>3, <1>5, <1>11 DEF RepoRaises, WorkerLabels
<1>12. ASSUME NEW r \in Requests,
              \/ RequestStep(r) \/ RequestRaises(r)
              \/ \E k \in Jobs : AnalyzeAsync(r, k) \/ InsertRaises(r, k) \/ RetryRead(r, k)
                                    \/ CancelRead(r, k)
       PROVE  WorkerMove(v)
  BY <1>1, <1>12
  DEF RequestStep, RequestRaises, AnalyzeAsync, InsertRaises, RetryRead, CancelRead,
      SubmitToExecutor, RetryCreate, RetryRefused, CancelIfQueued, CancelReread, CancelRequest,
      RequestFrame
<1>13. CASE \/ \E recovering \in BOOLEAN : Startup(recovering)
            \/ CommitElsewhere \/ BeginShutdown \/ EndShutdown \/ UNCHANGED vars
  BY <1>1, <1>13 DEF Startup, CommitElsewhere, BeginShutdown, EndShutdown, vars
<1>14. CASE Crash
  BY <1>14 DEF Crash, ThreadsGone, WorkerMove
<1>. QED
  BY <1>6, <1>7, <1>8, <1>9, <1>10, <1>11, <1>12, <1>13, <1>14 DEF Next, WorkerStep, Requests

\* Complete and Fail end the row; only MarkRunning could reopen it, for another worker.
LEMMA EndedInductive ==
    ASSUME OwnershipInv, OwnershipInv', EndedInv, [Next]_vars
    PROVE  EndedInv'
<1>. USE DEF OwnershipInv
<1>. SUFFICES ASSUME NEW w \in Workers, pc'[w] = "recording"
              PROVE  task'[w] \notin Interrupted'
  BY DEF EndedInv
<1>1. PICK job \in Jobs : job = task'[w]
  BY DEF TypeOK
<1>2. pc[w] # "idle" => ~Crash /\ ~EndShutdown /\ proc \notin {"stopped", "crashed"}
  BY DEF Crash, EndShutdown, ThreadsGone, ProcessInv
<1>3. CASE pc[w] = "recording" /\ task[w] = job
  <2>1. status[job] \notin {"queued", "running", "unused"}
    BY <1>1, <1>3, WorkerFacts DEF BusyRows, EndedInv, Interrupted
  <2>2. \A v \in Workers : Held(v, job) => v = w
    BY <1>1, <1>3, WorkerFacts DEF BusyRows, Held
  <2>3. status'[job] \notin {"queued", "running"}
    BY <1>2, <1>3, <2>1, <2>2, StatusSteps DEF StatusMove, Terminal
  <2>. QED  BY <1>1, <2>3 DEF Interrupted
<1>4. ASSUME NEW s \in {"completed", "failed"}, pc[w] # "idle", task[w] = job, SetStatus(job, s)
      PROVE  job \notin Interrupted'
  BY <1>4 DEF SetStatus, Interrupted, TypeOK, RowStatus
<1>. QED  BY <1>1, <1>3, <1>4, WorkerSteps DEF WorkerMove

\* A stored result stays, or is taken back with everything that was not committed.
LEMMA ResultSteps ==
    ASSUME [Next]_vars
    PROVE  result \subseteq result' \/ ((Crash \/ EndShutdown) /\ RollBack)
<1>1. ASSUME NEW w \in Workers, WorkerStep(w) PROVE result \subseteq result'
  BY <1>1
  DEF WorkerStep, Pickup, PreCheck, MarkRunning, AnalysisReturns, AnalysisRaises, PostCheck,
      CancelFirst, CancelFail, CancelLast, Complete, Fail, RecordUsage, update_job_status, fail_job,
      complete_job, record_usage, dbVars
<1>2. ASSUME NEW w \in Workers, RepoRaises(w) PROVE result \subseteq result'
  BY <1>2 DEF RepoRaises, Uncommitted, update_job_status, fail_job, complete_job, record_usage, dbVars
<1>3. ASSUME NEW r \in Requests, NEW j \in Jobs,
             AnalyzeAsync(r, j) \/ InsertRaises(r, j) \/ RetryRead(r, j) \/ CancelRead(r, j)
      PROVE  result' = result
  BY <1>3 DEF AnalyzeAsync, InsertRaises, RetryRead, CancelRead, create_job, dbVars
<1>4. ASSUME NEW r \in Requests, RequestStep(r) \/ RequestRaises(r) PROVE result' = result
  BY <1>4
  DEF RequestStep, RequestRaises, SubmitToExecutor, RetryCreate, RetryRefused, CancelIfQueued,
      CancelReread, CancelRequest, create_job, cancel_job_if_status, update_job_status, dbVars
<1>5. CASE \/ \E recovering \in BOOLEAN : Startup(recovering)
           \/ CommitElsewhere \/ BeginShutdown \/ UNCHANGED vars
  BY <1>5 DEF Startup, CommitElsewhere, BeginShutdown, vars, dbVars
<1>6. CASE Crash \/ EndShutdown
  BY <1>6 DEF Crash, EndShutdown
<1>. QED  BY <1>1, <1>2, <1>3, <1>4, <1>5, <1>6 DEF Next, Requests

\* The usage that the connection shows changes only by a booking or a roll-back.
LEMMA UsageSteps ==
    ASSUME OwnershipInv, [Next]_vars
    PROVE  \/ usage' = usage
           \/ \E w \in Workers, j \in Jobs : Books(w, j)
           \/ Crash \/ EndShutdown
<1>1. ASSUME NEW r \in Requests, NEW j \in Jobs, Insert(r, j) PROVE usage' = usage
  BY <1>1 DEF Insert
<1>2. ASSUME NEW r \in Requests, SubmitToExecutor(r) PROVE usage' = usage
  BY <1>2 DEF SubmitToExecutor, dbVars
<1>3. ASSUME NEW w \in Workers, Pickup(w) \/ MarkRunning(w) PROVE usage' = usage
  BY <1>3 DEF Pickup, MarkRunning, update_job_status, dbVars
<1>. QED  BY <1>1, <1>2, <1>3, StepCases DEF Quiet

\* Complete delivers; nothing that follows takes the result or the status back, unless
\* the record was inserted by a call that raised.
LEMMA BillingInductive ==
    ASSUME OwnershipInv, OwnershipInv', BillingInv, [Next]_vars
    PROVE  BillingInv'
<1>. USE DEF OwnershipInv
<1>1. BusyRows
  BY WorkerFacts
<1>2. unsure \subseteq unsure'
  BY DoubtStep
<1>3. ASSUME NEW j \in Jobs, usage[j][200] > 0 PROVE status[j] # "unused"
  BY <1>3, UsageNumbers DEF WorkInv, JobsUsed, Booked, Codes
<1>4. ASSUME ~Crash, ~EndShutdown, NEW j \in Jobs, usage'[j][200] > 0
      PROVE  /\ j \in result'
             /\ status'[j] \notin {"queued", "running"}
             /\ status'[j] = "failed" => j \in unsure'
  <2>1. result \subseteq result'
    BY <1>4, ResultSteps
  <2>2. CASE usage[j][200] > 0
    <3>1. /\ j \in result /\ status[j] \notin {"queued", "running", "unused"}
          /\ status[j] = "failed" => j \in unsure
      BY <1>3, <2>2 DEF BillingInv, Delivered
    <3>2. \A w \in Workers : Held(w, j) /\ pc[w] # "idle" => ~Before(w) /\ j \in unsure
      BY <1>1, <2>2 DEF BusyRows, Held
    <3>3. \A w \in Workers : Held(w, j) => pc[w] # "starting" /\ (pc[w] \in Ending => j \in unsure)
      BY <3>2 DEF Before, Ending
    <3>. QED  BY <1>2, <1>4, <2>1, <3>1, <3>3, StatusSteps DEF StatusMove, Terminal
  <2>3. CASE ~(usage[j][200] > 0)
    <3>1. PICK w \in Workers, job \in Jobs : Books(w, job)
      BY <1>4, <2>3, UsageSteps
    <3>2. j = job /\ w \notin inExcept
      <4>1. usage[j] \in [{200, 500} -> Nat] /\ usage[job] \in [{200, 500} -> Nat]
        BY DEF TypeOK, Codes
      <4>2. usage' # usage
        BY <1>4, <2>3
      <4>3. j # job => usage'[j] = usage[j]
        BY <3>1 DEF Books, TypeOK
      <4>4. w \in inExcept => usage'[job][200] = usage[job][200]
        BY <3>1, <4>1 DEF Books, TypeOK
      <4>. QED  BY <1>4, <2>3, <4>3, <4>4
    <3>3. pc[w] = "recording" /\ task[w] = j /\ status' = status
      BY <3>1, <3>2 DEF Books, Held
    <3>. QED  BY <2>1, <3>2, <3>3 DEF BillingInv
  <2>. QED  BY <2>2, <2>3
<1>5. Delivered(usage, status, result)'
  <2>1. CASE Crash \/ EndShutdown
    BY <1>2, <2>1 DEF Crash, EndShutdown, RollBack, BillingInv, Delivered
  <2>. QED  BY <1>4, <2>1 DEF Delivered
<1>6. Delivered(saved.usage, saved.status, saved.result)'
  <2>1. CASE saved' = saved
    BY <1>2, <2>1 DEF BillingInv, Delivered
  <2>2. CASE saved' = Rows'
    BY <1>5, <2>2 DEF Rows, Delivered
  <2>3. CASE /\ saved'.usage = usage /\ saved'.result = result
             /\ \A j \in Jobs : Sweeps(status[j], saved'.status[j])
    BY <1>2, <2>3 DEF BillingInv, Delivered, Sweeps
  <2>. QED  BY <2>1, <2>2, <2>3, SavedSteps, SweptRows
<1>7. ASSUME NEW w \in Workers, pc'[w] = "recording", w \notin inExcept'
      PROVE  task'[w] \in result' /\ status'[task'[w]] \notin {"queued", "running", "failed"}
  <2>1. PICK job \in Jobs : job = task'[w]
    BY <1>7 DEF TypeOK
  <2>2. pc[w] # "idle" => ~Crash /\ ~EndShutdown /\ proc \notin {"stopped", "crashed"}
    BY <1>7 DEF Crash, EndShutdown, ThreadsGone, ProcessInv
  <2>3. CASE pc[w] = "recording" /\ task[w] = job /\ w \notin inExcept
    <3>1. job \in result /\ status[job] \notin {"queued", "running", "failed", "unused"}
      BY <1>1, <2>3 DEF BillingInv, BusyRows
    <3>2. \A v \in Workers : Held(v, job) => v = w
      BY <1>1, <2>3 DEF BusyRows, Held
    <3>3. status'[job] \notin {"queued", "running", "failed"}
      BY <2>2, <2>3, <3>1, <3>2, StatusSteps DEF StatusMove, Ending, Terminal
    <3>. QED  BY <2>1, <2>2, <2>3, <3>1, <3>3, ResultSteps
  <2>4. CASE pc[w] = "completing" /\ task[w] = job /\ SetStatus(job, "completed") /\ job \in result'
    BY <2>1, <2>4 DEF SetStatus, TypeOK, RowStatus
  <2>5. CASE pc[w] = "failing" /\ (w \in inExcept' <=> w \in inExcept)
    BY <1>7, <2>5 DEF BillingInv
  <2>. QED  BY <1>7, <2>1, <2>3, <2>4, <2>5, WorkerSteps DEF WorkerMove
<1>8. ASSUME NEW w \in Workers, pc'[w] = "failing" PROVE w \in inExcept'
  BY <1>8, WorkerSteps DEF WorkerMove, BillingInv
<1>. QED  BY <1>5, <1>6, <1>7, <1>8 DEF BillingInv

\* Only CancelFirst ends a row without dating it, and its worker dates it next.
LEMMA DatedInductive ==
    ASSUME OwnershipInv, OwnershipInv', SyncInv, DatedInv, [Next]_vars
    PROVE  DatedInv'
<1>. USE DEF DatedInv, TypeOK, RowStatus, Terminal, dbVars
<1>a. TypeOK /\ TypeOK'
  BY DEF OwnershipInv
<1>b. BusyRows
  BY WorkerFacts
<1>c. UNCHANGED <<status, completedAt, task, pc, faults, crashes>> => DatedInv'
  OBVIOUS
<1>1. ASSUME NEW w \in Workers, Pickup(w) \/ PreCheck(w) PROVE DatedInv'
  <2>1. /\ UNCHANGED <<status, completedAt, faults, crashes>>
        /\ pc[w] \in {"idle", "picked"} /\ pc'[w] \in {"picked", "starting", "idle"}
        /\ \A v \in Workers : v # w => pc'[v] = pc[v] /\ task'[v] = task[v]
    BY <1>1, <1>a DEF Pickup, PreCheck, Goto, Release, WorkerFrame, boundVars
  <2>. QED  BY <2>1
<1>2. ASSUME NEW w \in Workers, MarkRunning(w) PROVE DatedInv'
  BY <1>2, <1>a DEF MarkRunning, update_job_status, SetStatus, Goto, WorkerFrame, boundVars
<1>3. ASSUME NEW w \in Workers, AnalysisReturns(w) \/ AnalysisRaises(w) \/ PostCheck(w)
      PROVE  DatedInv'
  BY <1>3, <1>a DEF AnalysisReturns, AnalysisRaises, PostCheck, Goto, WorkerFrame, boundVars
<1>4. ASSUME NEW w \in Workers, CancelFirst(w) PROVE DatedInv'
  BY <1>4, <1>a DEF CancelFirst, update_job_status, SetStatus, Goto, WorkerFrame, boundVars
<1>5. ASSUME NEW w \in Workers, CancelFail(w) PROVE DatedInv'
  BY <1>5, <1>a, <1>b DEF CancelFail, fail_job, SetStatus, Goto, WorkerFrame, boundVars, BusyRows
<1>6. ASSUME NEW w \in Workers, CancelLast(w) PROVE DatedInv'
  BY <1>6, <1>a DEF CancelLast, update_job_status, SetStatus, Release, WorkerFrame, boundVars
<1>7. ASSUME NEW w \in Workers, Complete(w) PROVE DatedInv'
  BY <1>7, <1>a DEF Complete, complete_job, SetStatus, Goto, WorkerFrame, boundVars
<1>8. ASSUME NEW w \in Workers, Fail(w) PROVE DatedInv'
  BY <1>8, <1>a DEF Fail, fail_job, SetStatus, Goto, WorkerFrame, boundVars
<1>9. ASSUME NEW w \in Workers, RecordUsage(w) PROVE DatedInv'
  BY <1>9, <1>a DEF RecordUsage, record_usage, Release, WorkerFrame, boundVars
<1>10. ASSUME NEW r \in Requests, NEW j \in Jobs,
              AnalyzeAsync(r, j) \/ RetryCreate(r, j) \/ RetryRead(r, j) \/ CancelRead(r, j)
       PROVE  DatedInv'
  <2>1. UNCHANGED <<completedAt, task, pc, faults, crashes>>
    BY <1>10
    DEF AnalyzeAsync, RetryCreate, RetryRead, CancelRead, create_job, RequestFrame, workerVars,
        boundVars
  <2>2. status' = status \/ status' = [status EXCEPT ![j] = "queued"]
    BY <1>10 DEF AnalyzeAsync, RetryCreate, RetryRead, CancelRead, create_job
  <2>. QED  BY <1>a, <2>1, <2>2
<1>11. ASSUME NEW r \in Requests, CancelIfQueued(r) PROVE DatedInv'
  BY <1>11, <1>a DEF CancelIfQueued, cancel_job_if_status, RequestFrame, workerVars, boundVars
<1>12. ASSUME NEW r \in Requests, CancelRequest(r) PROVE DatedInv'
  BY <1>12, <1>a DEF CancelRequest, update_job_status, SetStatus, RequestFrame, workerVars, boundVars
<1>13. ASSUME NEW r \in Requests, SubmitToExecutor(r) \/ RetryRefused(r) \/ CancelReread(r)
       PROVE  DatedInv'
  BY <1>13, <1>c
  DEF SubmitToExecutor, RetryRefused, CancelReread, RequestFrame, workerVars, boundVars
<1>14. ASSUME \/ \E w \in Workers : RepoRaises(w)
              \/ \E r \in Requests : RequestRaises(r) \/ \E j \in Jobs : InsertRaises(r, j)
              \/ Startup(FALSE) \/ Crash
       PROVE  DatedInv'
  <2>1. faults' # 0 \/ crashes' # 0
    BY <1>14, <1>a DEF RepoRaises, RequestRaises, InsertRaises, Startup, Crash
  <2>. QED  BY <2>1
<1>15. CASE Startup(TRUE)
  <2>0. PICK stale, old : /\ status' = Swept(stale, old).status
                          /\ completedAt' = Swept(stale, old).completedAt
    BY <1>15 DEF Startup
  <2>1. /\ status' = [j \in Jobs |-> IF j \in stale THEN "failed"
                                     ELSE IF j \in old THEN "deleted" ELSE status[j]]
        /\ completedAt' = completedAt \cup stale
    BY <2>0 DEF Swept, Rows
  <2>2. UNCHANGED <<pc, task, faults, crashes>>
    BY <1>15 DEF Startup, workerVars
  <2>. QED  BY <2>1, <2>2
<1>16. CASE EndShutdown
  <2>1. UNCHANGED <<pc, task, faults, crashes>>
    BY <1>16 DEF EndShutdown, workerVars, boundVars
  <2>2. faults = 0 => UNCHANGED <<status, completedAt>>
    BY <1>16 DEF EndShutdown, RollBack, SyncInv, Synced
  <2>. QED  BY <2>1, <2>2
<1>17. CASE CommitElsewhere \/ BeginShutdown \/ UNCHANGED vars
  BY <1>17, <1>c DEF CommitElsewhere, BeginShutdown, vars, workerVars, boundVars
<1>. QED
  BY <1>1, <1>2, <1>3, <1>4, <1>5, <1>6, <1>7, <1>8, <1>9, <1>10, <1>11, <1>12, <1>13, <1>14, <1>15,
     <1>16, <1>17
  DEF Next, WorkerStep, RequestStep, Requests

\* A job that is owned stays so until it neither waits nor runs, unless a call raises or
\* the process is killed.
OwnedKept ==
    \A j \in Jobs : Owned(j) =>
        Owned(j)' \/ j \notin Interrupted' \/ faults' # 0 \/ proc' = "crashed"

\* A job that starts to wait or run has an owner, unless a call raised.
NewlyOwned == faults' = 0 => \A j \in Interrupted' \ Interrupted : Owned(j)'

\* Only start-up leaves the stopped process, only the end of a shutdown leads to it.
ProcessMoves ==
    /\ faults' = 0 => faults = 0
    /\ proc' = proc \/ Startup(TRUE) \/ Startup(FALSE)
       \/ BeginShutdown \/ EndShutdown \/ Crash

LEMMA OwnedIsKept ==
    ASSUME OwnershipInv, OwnershipInv', EndedInv, [Next]_vars
    PROVE  OwnedKept
<1>. USE DEF Owned, Submitting, Queued, Held, TypeOK
<1>a. TypeOK /\ TypeOK'
  BY DEF OwnershipInv
<1>b. BusyRows
  BY WorkerFacts
<1>1. UNCHANGED <<queue, rpc, rjob, task>> => OwnedKept
  BY DEF OwnedKept
<1>2. ASSUME NEW w \in Workers, Release(w), UNCHANGED <<queue, rpc, rjob>>,
             task[w] \in Jobs => task[w] \notin Interrupted'
      PROVE  OwnedKept
  BY <1>2, <1>a DEF OwnedKept, Release
<1>3. ASSUME NEW r \in Requests, rpc[r] # "submit", UNCHANGED <<queue, task>>,
             \A q \in Requests : q # r => rpc'[q] = rpc[q] /\ rjob'[q] = rjob[q]
      PROVE  OwnedKept
  BY <1>3 DEF OwnedKept
<1>4. ASSUME NEW w \in Workers, Pickup(w) PROVE OwnedKept
  <2>. SUFFICES ASSUME NEW j \in Jobs, Owned(j) PROVE Owned(j)'
    BY DEF OwnedKept
  <2>1. CASE \E q \in Requests : Submitting(q, j)
    BY <1>4, <2>1 DEF Pickup, requestVars
  <2>2. ASSUME NEW v \in Workers, Held(v, j) PROVE Owned(j)'
    BY <1>4, <1>a, <2>2, ConstantsAssumption DEF Pickup
  <2>3. ASSUME NEW i \in 1..Len(queue), Queued(i, j) PROVE Owned(j)'
    <3>1. CASE i = 1
      BY <1>4, <1>a, <2>3, <3>1 DEF Pickup
    <3>2. CASE i # 1
      <4>1. i - 1 \in 1..Len(queue') /\ queue'[i - 1] = queue[i]
        BY <1>4, <1>a, <3>2 DEF Pickup
      <4>. QED  BY <2>3, <4>1
    <3>. QED  BY <3>1, <3>2
  <2>. QED  BY <2>1, <2>2, <2>3 DEF Owned
<1>5. ASSUME NEW w \in Workers, PreCheck(w) PROVE OwnedKept
  <2>1. UNCHANGED <<status, queue, rpc, rjob>>
    BY <1>5 DEF PreCheck, WorkerFrame, requestVars, dbVars
  <2>2. CASE Goto(w, "starting")
    BY <1>1, <2>1, <2>2 DEF Goto
  <2>3. CASE Release(w) /\ task[w] \notin Interrupted
    BY <1>2, <2>1, <2>3 DEF Interrupted
  <2>. QED
    BY <1>5, <2>2, <2>3 DEF PreCheck, Exists, Cancellation, Interrupted, RowStatus, Terminal
<1>6. ASSUME NEW w \in Workers,
             \/ MarkRunning(w) \/ AnalysisReturns(w) \/ AnalysisRaises(w) \/ PostCheck(w)
             \/ CancelFirst(w) \/ CancelFail(w) \/ Complete(w) \/ Fail(w)
      PROVE  OwnedKept
  BY <1>1, <1>6
  DEF MarkRunning, AnalysisReturns, AnalysisRaises, PostCheck, CancelFirst, CancelFail, Complete,
      Fail, Goto, WorkerFrame, requestVars
<1>7. ASSUME NEW w \in Workers, CancelLast(w) PROVE OwnedKept
  <2>1. task[w] \in Jobs => task[w] \notin Interrupted'
    BY <1>7, <1>a DEF CancelLast, update_job_status, SetStatus, Interrupted, RowStatus, Terminal
  <2>. QED  BY <1>2, <1>7, <2>1 DEF CancelLast, WorkerFrame, requestVars
<1>8. ASSUME NEW w \in Workers, RecordUsage(w) PROVE OwnedKept
  <2>1. task[w] \notin Interrupted'
    BY <1>8 DEF RecordUsage, record_usage, EndedInv, Interrupted
  <2>. QED  BY <1>2, <1>8, <2>1 DEF RecordUsage, WorkerFrame, requestVars
<1>9. ASSUME \/ \E w \in Workers : RepoRaises(w)
             \/ \E r \in Requests : RequestRaises(r) \/ \E j \in Jobs : InsertRaises(r, j)
             \/ Startup(FALSE) \/ Crash
      PROVE  OwnedKept
  <2>1. faults' # 0 \/ proc' = "crashed"
    BY <1>9, <1>a DEF RepoRaises, RequestRaises, InsertRaises, Startup, Crash
  <2>. QED  BY <2>1 DEF OwnedKept
<1>10. ASSUME NEW r \in Requests, SubmitToExecutor(r) PROVE OwnedKept
  <2>. SUFFICES ASSUME NEW j \in Jobs, Owned(j) PROVE Owned(j)'
    BY DEF OwnedKept
  <2>1. CASE Submitting(r, j)
    <3>1. Len(queue) + 1 \in 1..Len(queue') /\ queue'[Len(queue) + 1] = j
      BY <1>10, <1>a, <2>1 DEF SubmitToExecutor
    <3>. QED  BY <3>1
  <2>2. ASSUME NEW q \in Requests, q # r, Submitting(q, j) PROVE Owned(j)'
    BY <1>10, <1>a, <2>2 DEF SubmitToExecutor, Reply
  <2>3. CASE \E v \in Workers : Held(v, j)
    BY <1>10, <2>3 DEF SubmitToExecutor, RequestFrame, workerVars
  <2>4. ASSUME NEW i \in 1..Len(queue), Queued(i, j) PROVE Owned(j)'
    <3>1. i \in 1..Len(queue') /\ queue'[i] = queue[i]
      BY <1>10, <1>a DEF SubmitToExecutor
    <3>. QED  BY <2>4, <3>1
  <2>. QED  BY <2>1, <2>2, <2>3, <2>4 DEF Owned
<1>11. ASSUME NEW r \in Requests, NEW j \in Jobs,
              AnalyzeAsync(r, j) \/ RetryCreate(r, j) \/ RetryRead(r, j) \/ CancelRead(r, j)
       PROVE  OwnedKept
  BY <1>3, <1>11, <1>a
  DEF AnalyzeAsync, RetryCreate, RetryRead, CancelRead, RequestAt, RequestFrame, requestVars,
      workerVars
<1>12. ASSUME NEW r \in Requests,
              RetryRefused(r) \/ CancelIfQueued(r) \/ CancelReread(r) \/ CancelRequest(r)
       PROVE  OwnedKept
  BY <1>3, <1>12, <1>a
  DEF RetryRefused, CancelIfQueued, CancelReread, CancelRequest, RequestAt, Reply, RequestFrame,
      workerVars
<1>13. CASE Startup(TRUE) \/ CommitElsewhere \/ BeginShutdown \/ EndShutdown \/ UNCHANGED vars
  BY <1>1, <1>13
  DEF Startup, CommitElsewhere, BeginShutdown, EndShutdown, vars, workerVars, requestVars
<1>. QED
  BY <1>4, <1>5, <1>6, <1>7, <1>8, <1>9, <1>10, <1>11, <1>12, <1>13
  DEF Next, WorkerStep, RequestStep, Requests

LEMMA ProcessSteps ==
    ASSUME TypeOK, [Next]_vars
    PROVE  ProcessMoves
<1>1. ASSUME NEW w \in Workers, WorkerStep(w) PROVE UNCHANGED <<proc, faults>>
  BY <1>1
  DEF WorkerStep, Pickup, PreCheck, MarkRunning, AnalysisReturns, AnalysisRaises, PostCheck,
      CancelFirst, CancelFail, CancelLast, Complete, Fail, RecordUsage, WorkerFrame, boundVars
<1>2. ASSUME \/ \E w \in Workers : RepoRaises(w)
             \/ \E r \in Requests : RequestRaises(r) \/ \E j \in Jobs : InsertRaises(r, j)
      PROVE  proc' = proc /\ faults' # 0
  BY <1>2 DEF RepoRaises, RequestRaises, InsertRaises, TypeOK
<1>3. ASSUME NEW r \in Requests,
             \/ RequestStep(r)
             \/ \E j \in Jobs : AnalyzeAsync(r, j) \/ RetryRead(r, j) \/ CancelRead(r, j)
      PROVE  UNCHANGED <<proc, faults>>
  BY <1>3
  DEF RequestStep, AnalyzeAsync, RetryRead, CancelRead, SubmitToExecutor, RetryCreate, RetryRefused,
      CancelIfQueued, CancelReread, CancelRequest, RequestFrame, boundVars
<1>4. CASE Startup(TRUE)
  BY <1>4 DEF Startup, ProcessMoves
<1>5. CASE Startup(FALSE)
  <2>1. faults' # 0
    BY <1>5 DEF Startup, TypeOK
  <2>. QED  BY <1>5, <2>1 DEF ProcessMoves
<1>6. CASE CommitElsewhere \/ BeginShutdown \/ EndShutdown \/ Crash \/ UNCHANGED vars
  BY <1>6 DEF CommitElsewhere, BeginShutdown, EndShutdown, Crash, vars, boundVars, ProcessMoves
<1>. QED
  BY <1>1, <1>2, <1>3, <1>4, <1>5, <1>6 DEF Next, Requests, ProcessMoves

\* Only an insert and MarkRunning make a row wait or run, and both own it.
LEMMA NewIsOwned ==
    ASSUME TypeOK, TypeOK', SyncInv, [Next]_vars
    PROVE  NewlyOwned
<1>. SUFFICES ASSUME faults' = 0, NEW j \in Jobs,
                     status'[j] \in {"queued", "running"}, status[j] \notin {"queued", "running"}
              PROVE  Owned(j)'
  BY DEF NewlyOwned, Interrupted
<1>1. saved.status = status
  BY ProcessSteps DEF ProcessMoves, SyncInv, Synced
<1>2. (\E r \in Requests : Submitting(r, j)') \/ (\E w \in Workers : Held(w, j)')
  BY <1>1, StatusSteps DEF StatusMove, Terminal
<1>. QED  BY <1>2 DEF Owned

\* Recovery, which empties the set of interrupted rows, is what makes this inductive.
LEMMA OrphansInductive ==
    ASSUME OwnershipInv, OwnershipInv', SyncInv, EndedInv, NoOrphans, CleanShutdown, [Next]_vars
    PROVE  NoOrphans' /\ CleanShutdown'
<1>1. TypeOK /\ TypeOK' /\ ProcessInv /\ ProcessInv'
  BY DEF OwnershipInv
<1>2. OwnedKept /\ NewlyOwned /\ ProcessMoves
  BY <1>1, OwnedIsKept, NewIsOwned, ProcessSteps
<1>3. Startup(TRUE) => Interrupted' = {}
  <2>. SUFFICES ASSUME Startup(TRUE) PROVE Interrupted' = {}
    OBVIOUS
  <2>1. PICK old : status' = Swept(recover_stale_jobs, old).status
    BY DEF Startup
  <2>. QED  BY <2>1 DEF Swept, Rows, recover_stale_jobs, Interrupted
<1>4. Startup(FALSE) => faults' # 0
  BY <1>1 DEF Startup, TypeOK
<1>5. BeginShutdown => proc = "serving" /\ proc' = "draining"
  BY DEF BeginShutdown
<1>6. EndShutdown => proc = "draining" /\ proc' = "stopped" /\ \A j \in Jobs : ~Owned(j)
  BY <1>1, ConstantsAssumption
  DEF EndShutdown, ProcessInv, Owned, Submitting, Queued, Held, TypeOK
<1>7. Crash => proc' = "crashed"
  BY DEF Crash
<1>8. ASSUME faults' = 0, proc' \in {"serving", "draining"}, NEW j \in Interrupted'
      PROVE  Owned(j)'
  <2>1. j \in Jobs
    BY DEF Interrupted
  <2>2. CASE j \notin Interrupted
    BY <1>2, <1>8, <2>2 DEF NewlyOwned
  <2>3. CASE j \in Interrupted /\ proc \in {"serving", "draining"}
    <3>1. Owned(j)
      BY <1>2, <1>8, <2>3 DEF NoOrphans, ProcessMoves
    <3>. QED  BY <1>2, <1>8, <2>1, <3>1 DEF OwnedKept
  <2>4. CASE proc \notin {"serving", "draining"}
    BY <1>2, <1>3, <1>4, <1>5, <1>6, <1>7, <1>8, <2>4 DEF ProcessMoves
  <2>. QED  BY <2>2, <2>3, <2>4
<1>9. ASSUME faults' = 0, proc' = "stopped" PROVE Interrupted' = {}
  <2>1. faults = 0 /\ (proc = "stopped" \/ EndShutdown)
    BY <1>2, <1>5, <1>7, <1>9 DEF ProcessMoves, Startup
  <2>2. Interrupted = {}
    BY <1>6, <2>1 DEF CleanShutdown, NoOrphans, Interrupted
  <2>3. \A j \in Jobs : ~Owned(j)'
    BY <1>1, <1>9, ConstantsAssumption
    DEF ProcessInv, Owned, Submitting, Queued, Held, TypeOK
  <2>. QED  BY <1>2, <1>9, <2>2, <2>3 DEF NewlyOwned, Interrupted
<1>. QED  BY <1>8, <1>9 DEF NoOrphans, CleanShutdown

LEMMA InitRowInv == Init => RowInv
<1>. SUFFICES ASSUME Init PROVE RowInv
  OBVIOUS
<1>1. OwnershipInv
  BY InitOwnership
<1>2. Synced /\ \A j \in Jobs : ~Way(j)
  BY ConstantsAssumption DEF Init, Rows, Synced, Way, Submitting, Queued, Held
<1>3. SyncInv /\ WayInv /\ EndedInv
  BY <1>2 DEF Init, Rows, SyncInv, WayInv, EndedInv
<1>4. BillingInv /\ DatedInv
  BY DEF Init, Rows, BillingInv, Delivered, DatedInv, Terminal, Codes
<1>5. NoOrphans /\ CleanShutdown
  BY DEF Init, NoOrphans, CleanShutdown, Interrupted
<1>. QED  BY <1>1, <1>3, <1>4, <1>5 DEF RowInv

LEMMA RowInductive == RowInv /\ [Next]_vars => RowInv'
<1>. SUFFICES ASSUME RowInv, [Next]_vars PROVE RowInv'
  OBVIOUS
<1>. USE DEF RowInv
<1>1. OwnershipInv' /\ TypeOK /\ TypeOK'
  BY OwnershipInductive, TypeInductive DEF OwnershipInv
<1>2. SyncInv' /\ WayInv' /\ EndedInv'
  BY <1>1, SyncInductive, WayInductive, EndedInductive
<1>3. BillingInv' /\ DatedInv'
  BY <1>1, BillingInductive, DatedInductive
<1>4. NoOrphans' /\ CleanShutdown'
  BY <1>1, OrphansInductive
<1>. QED  BY <1>1, <1>2, <1>3, <1>4

\* The rows, as the connection shows them and as they were committed, agree with the
\* threads in every reachable state, raising calls and crashes included (jobs.py,
\* routes.py, db.py).
THEOREM RowsAgree == Spec => []RowInv
  BY InitRowInv, RowInductive, PTL DEF Spec

\* While no repository call has raised, every job that waits or runs is with a request
\* about to submit it, in the queue or with a worker of the live process, for every number
\* of jobs, workers and requests and every number of crashes (jobs.py:50-137, app.py's
\* lifespan).
THEOREM NobodyLeftBehind == Spec => []NoOrphans
<1>1. RowInv => NoOrphans
  BY DEF RowInv
<1>. QED  BY RowsAgree, <1>1, PTL

\* While no repository call has raised, a process that was shut down cleanly has left no
\* job waiting or running: shutdown(wait=True) drains the queue.
THEOREM ShutdownLeavesNone == Spec => []CleanShutdown
<1>1. RowInv => CleanShutdown
  BY DEF RowInv
<1>. QED  BY RowsAgree, <1>1, PTL

\* A usage record with status 200 is only written for a job whose result is stored, and
\* neither recovery, a crash nor a late cancel turns the job 'failed' afterwards; it
\* turns 'failed' only when the call that inserted the record raised at its commit, which
\* sends the worker to the except block with the record still in the open transaction.
THEOREM BilledForResults == Spec => []BilledWork
<1>1. RowInv => BilledWork
  BY DEF RowInv, BillingInv, Delivered, BilledWork
<1>. QED  BY RowsAgree, <1>1, PTL

\* Without a fault or a crash, a terminal row that no thread works on has completed_at,
\* which is what cleanup_jobs compares: it can expire.
THEOREM EndedRowsDated == Spec => []TerminalRowsDated
<1>1. RowInv => TerminalRowsDated
  BY DEF RowInv, OwnershipInv, DatedInv, TerminalRowsDated, Owned, Held
<1>. QED  BY RowsAgree, <1>1, PTL

\* No step of any thread, no late commit and no restart puts 'running' over a request to
\* cancel that was committed.
THEOREM CancelNotUndone == Spec => RequestNotOverrun
<1>1. ASSUME RowInv, [Next]_vars
      PROVE  \A j \in Jobs : saved.status[j] = "cancellation_requested"
                                => saved'.status[j] # "running"
  <2>1. OwnershipInv /\ OwnershipInv' /\ WayInv
    BY <1>1, OwnershipInductive DEF RowInv
  <2>. QED  BY <1>1, <2>1, WayInductive
<1>2. RowInv /\ [Next]_vars
        => [\A j \in Jobs : saved.status[j] = "cancellation_requested"
                               => saved'.status[j] # "running"]_vars
  BY <1>1
<1>. QED  BY RowsAgree, <1>2, PTL DEF Spec, RequestNotOverrun
=============================================================================
