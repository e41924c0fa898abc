---------------------------- MODULE JobLifecycle ----------------------------
(***************************************************************************)
(* What the job queue promises of each job, without workers, snapshots,    *)
(* wake-ups or contexts.  A job is submitted once and waits; it is served  *)
(* by one run at a time; the end of a run decides between success, another *)
(* wait and death by the number of runs started; a cancellation may        *)
(* overtake a wait or a run, and is then final although the overtaken run  *)
(* still has to end.                                                       *)
(***************************************************************************)
EXTENDS Integers

CONSTANTS
    Jobs,      \* job ids
    Budgets    \* the numbers of runs a job can be granted

VARIABLES
    status,   \* job id -> status
    budget,   \* job id -> the number of runs granted
    starts,   \* job id -> the number of runs started
    serving   \* the jobs with a run in progress

vars == <<status, budget, starts, serving>>

Init ==
    /\ status = [j \in Jobs |-> "absent"]
    /\ budget = [j \in Jobs |-> 0]
    /\ starts = [j \in Jobs |-> 0]
    /\ serving = {}

Become(j, s) == status' = [status EXCEPT ![j] = s]

Submit(j, n) ==
    /\ status[j] = "absent"
    /\ Become(j, "queued")
    /\ budget' = [budget EXCEPT ![j] = n]
    /\ UNCHANGED <<starts, serving>>

\* No handler exists for the job.
Refuse(j) ==
    /\ status[j] = "queued"
    /\ Become(j, "failed")
    /\ UNCHANGED <<budget, starts, serving>>

Start(j) ==
    /\ status[j] = "queued"
    /\ j \notin serving
    /\ Become(j, "running")
    /\ starts' = [starts EXCEPT ![j] = @ + 1]
    /\ serving' = serving \cup {j}
    /\ UNCHANGED budget

Succeed(j) ==
    /\ j \in serving
    /\ status[j] = "running"
    /\ Become(j, "succeeded")
    /\ serving' = serving \ {j}
    /\ UNCHANGED <<budget, starts>>

Fail(j) ==
    /\ j \in serving
    /\ status[j] = "running"
    /\ Become(j, IF starts[j] < budget[j] THEN "queued" ELSE "dead")
    /\ serving' = serving \ {j}
    /\ UNCHANGED <<budget, starts>>

Cancel(j) ==
    /\ status[j] \in {"queued", "running"}
    /\ Become(j, "canceled")
    /\ UNCHANGED <<budget, starts, serving>>

\* The run a cancellation overtook ends without effect.
EndOvertaken(j) ==
    /\ j \in serving
    /\ status[j] = "canceled"
    /\ serving' = serving \ {j}
    /\ UNCHANGED <<status, budget, starts>>

Next ==
    \E j \in Jobs :
        \/ \E n \in Budgets : Submit(j, n)
        \/ Refuse(j) \/ Start(j) \/ Succeed(j) \/ Fail(j)
        \/ Cancel(j) \/ EndOvertaken(j)

Spec == Init /\ [][Next]_vars
=============================================================================
