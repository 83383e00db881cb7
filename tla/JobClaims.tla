------------------------------ MODULE JobClaims ------------------------------
(***************************************************************************)
(* What JobLifecycle implements, and what the documents of the repository  *)
(* say of it that its steps do not keep.                                   *)
(***************************************************************************)
EXTENDS JobLifecycle

Ledger == INSTANCE JobLedger WITH
    accepted <- {j \in Jobs : saved.status[j] # "unused"},
    booked <- saved.usage,
    doubtful <- unsure

\* The component keeps its ledger of what is on disk: no analysis starts before the
\* job's row is committed, none starts twice, and no committed row or record is taken
\* back or booked again (routes.py:872-914, jobs.py:123).
ImplementsLedger == Ledger!Spec

Documented == INSTANCE DocumentedJobs

\* Without cancellations and repository failures the rows move exactly along the
\* documented transitions (docs/architecture.md:597-605).
ImplementsDocumented == Documented!Spec

-----------------------------------------------------------------------------
(* Claims that a run refutes *)

\* docs/architecture.md:566: "queued -> cancelled (atomic, job will not
\* execute)": once a DELETE answered "cancelled" the analysis is not started.
CancelledNeverRuns ==
    [][\A j \in toldCancelled : runs'[j] = runs[j]]_vars

\* docs/architecture.md:600 and :608: no transition leaves 'completed', and
\* "Cannot cancel completed or failed jobs".
CompletedStays ==
    [][\A j \in Jobs : status[j] = "completed" => status'[j] \in {"completed", "deleted"}]_vars

\* jobs.py:123: "Record usage (exactly once per job)". A 200 record whose commit raised
\* is published by the commit of fail_job in the except block, which then records 500.
UsageOnce == \A j \in Jobs : saved.usage[j][200] + saved.usage[j][500] <= 1

\* docs/architecture.md:595: recovery "prevents jobs from being permanently stuck
\* if the process crashes": after it, no job is on its way.
RestartUnsticks ==
    [][proc = "crashed" /\ proc' = "serving" =>
         \A j \in Jobs : status'[j] \notin {"queued", "running", "cancellation_requested"}]_vars
=============================================================================
