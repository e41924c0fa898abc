----------------------------- MODULE WorkerNode -----------------------------
(***************************************************************************)
(* The worker node: internal/worker/application/node.go.  Every method is  *)
(* one critical section of Node.mu.                                        *)
(***************************************************************************)
EXTENDS Integers

CONSTANT Capacity     \* Node.Capacity, fixed by NewNode

VARIABLES
    state,     \* Node.State
    running    \* Node.Running

vars == <<state, running>>

States == {"active", "draining", "stopped"}

Init ==
    /\ state = "active"
    /\ running = 0

\* Broken forms (named Bug...) stand before the definition they would replace.

\* An off-by-one in the capacity check.
BugHasRoomTight == state = "active" /\ running + 1 < Capacity

HasRoom == state = "active" /\ running < Capacity

Acquire ==
    /\ HasRoom
    /\ running' = running + 1
    /\ UNCHANGED state

\* "node is ..." or "node capacity exhausted": nothing changes.
AcquireRefused ==
    /\ ~HasRoom
    /\ UNCHANGED vars

\* The last task leaves without stopping the node.
BugRelease ==
    /\ running' = IF running > 0 THEN running - 1 ELSE running
    /\ UNCHANGED state

Release ==
    /\ running' = IF running > 0 THEN running - 1 ELSE running
    /\ state' = IF state = "draining" /\ running' = 0 THEN "stopped" ELSE state

\* An idle node that waits for a Release that never comes.
BugDrain ==
    /\ state' = IF state = "active" THEN "draining" ELSE state
    /\ UNCHANGED running

Drain ==
    /\ state' = IF running = 0 THEN "stopped"
                ELSE IF state = "active" THEN "draining" ELSE state
    /\ UNCHANGED running

Next == Acquire \/ AcquireRefused \/ Release \/ Drain

Spec == Init /\ [][Next]_vars
=============================================================================
