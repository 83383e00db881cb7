--------------------------- MODULE DocumentedJobs ---------------------------
(***************************************************************************)
(* The life of a job as docs/architecture.md documents it: the block       *)
(* "Valid State Transitions", the retry rules and the restart recovery.    *)
(* JobLifecycle implements it as long as nobody cancels and no repository  *)
(* call raises; JobClaims states what a cancellation breaks.               *)
(***************************************************************************)
CONSTANTS Jobs, NoJob

VARIABLES
    status,  \* the status column, "unused" before the insert
    parent   \* the job a retry was made from

vars == <<status, parent>>

Terminal == {"completed", "failed", "cancelled"}

Init ==
    /\ status = [j \in Jobs |-> "unused"]
    /\ parent = [j \in Jobs |-> NoJob]

Move(j, from, to) ==
    /\ status[j] = from
    /\ status' = [status EXCEPT ![j] = to]
    /\ UNCHANGED parent

Submit(j) == Move(j, "unused", "queued")

\* failed -> retry creates a NEW queued job.
Retry(j, old) ==
    /\ status[old] = "failed"
    /\ status[j] = "unused"
    /\ status' = [status EXCEPT ![j] = "queued"]
    /\ parent' = [parent EXCEPT ![j] = old]

Run(j) ==
    \/ Move(j, "queued", "running")
    \/ Move(j, "running", "completed")
    \/ Move(j, "running", "failed")

Cancel(j) ==
    \/ Move(j, "queued", "cancelled")
    \/ Move(j, "running", "cancellation_requested")
    \/ Move(j, "cancellation_requested", "cancelled")

\* Jobs in 'running' and 'queued' are marked failed; old terminal rows expire.
Restart ==
    /\ \E old \in SUBSET {j \in Jobs : status[j] \in Terminal} :
          status' = [j \in Jobs |-> IF status[j] \in {"queued", "running"} THEN "failed"
                                    ELSE IF j \in old THEN "deleted" ELSE status[j]]
    /\ UNCHANGED parent

Next ==
    \/ \E j \in Jobs : Submit(j) \/ Run(j) \/ Cancel(j)
    \/ \E j, old \in Jobs : Retry(j, old)
    \/ Restart

Spec == Init /\ [][Next]_vars
=============================================================================
