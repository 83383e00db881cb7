------------------------------ MODULE JobLedger ------------------------------
(***************************************************************************)
(* What the job component promises of the records that are on disk,        *)
(* whatever the interleaving and whatever raises: nothing that was         *)
(* committed is taken back, an analysis starts only for a job that was     *)
(* committed, once, and its usage is booked only after that, a status code *)
(* once, both codes only for a job whose first booking was answered by an  *)
(* exception.  JobLifecycle implements this specification.                 *)
(*                                                                         *)
(* One commit may publish several records at once, so a step is a          *)
(* conjunction of what may happen to each.                                 *)
(***************************************************************************)
EXTENDS Naturals

CONSTANTS Jobs, Codes

VARIABLES
    accepted,  \* the jobs whose row is committed
    runs,      \* analyses started, by job
    booked,    \* usage records committed, by job and status code
    doubtful   \* the jobs whose first booking raised

vars == <<accepted, runs, booked, doubtful>>

Init ==
    /\ accepted = {}
    /\ runs = [j \in Jobs |-> 0]
    /\ booked = [j \in Jobs |-> [c \in Codes |-> 0]]
    /\ doubtful = {}

Accept == accepted \subseteq accepted' /\ accepted' \subseteq Jobs

Start ==
    \/ runs' = runs
    \/ \E j \in accepted : runs[j] = 0 /\ runs' = [runs EXCEPT ![j] = 1]

Doubt == doubtful \subseteq doubtful' /\ \A j \in doubtful' \ doubtful : runs[j] = 1

Book ==
    \A j \in Jobs, c \in Codes :
        \/ booked'[j][c] = booked[j][c]
        \/ /\ runs[j] = 1
           /\ booked[j][c] = 0 /\ booked'[j][c] = 1
           /\ (\E d \in Codes \ {c} : booked'[j][d] > 0) => j \in doubtful'

Next == Accept /\ Start /\ Doubt /\ Book

Spec == Init /\ [][Next]_vars
=============================================================================
