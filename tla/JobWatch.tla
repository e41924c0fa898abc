------------------------------ MODULE JobWatch ------------------------------
(***************************************************************************)
(* The gRPC stream of a job's states: Watch in                             *)
(* internal/platform/grpcx/server.go, a reader that polls the queue's      *)
(* store beside the service, and the end of main, whose GracefulStop waits *)
(* for the streams while the queue still runs.                             *)
(***************************************************************************)
EXTENDS JobService

CONSTANT Watchers     \* calls of Watch

VARIABLES
    wpc,       \* "new", "open", "ended" (nil), "refused" (NotFound), "lost"
    watched,   \* the id asked for
    last       \* status and attempt last sent, Unsent for none

watchVars   == <<wpc, watched, last>>
watchedVars == <<allVars, watchVars>>

Unsent   == <<"none", 0>>
State(j) == <<job[j].status, job[j].attempt>>

WatchInit ==
    /\ ServiceInit
    /\ wpc = [v \in Watchers |-> "new"]
    /\ watched = [v \in Watchers |-> NoJob]
    /\ last = [v \in Watchers |-> Unsent]

\* A new call is accepted until GracefulStop begins, somewhere in "draining".
Watch(v, j) ==
    /\ Accepting
    /\ wpc[v] = "new"
    /\ wpc' = [wpc EXCEPT ![v] = "open"]
    /\ watched' = [watched EXCEPT ![v] = j]
    /\ UNCHANGED <<allVars, last>>

WatchRefused(v) ==
    /\ wpc[v] = "open"
    /\ job[watched[v]].status = "absent"
    /\ wpc' = [wpc EXCEPT ![v] = "refused"]
    /\ UNCHANGED <<allVars, watched, last>>

\* Broken forms (named Bug...) stand before the definition they would replace.

\* The end of the job is tested before the state is sent.
BugWatchLook(v) ==
    /\ wpc[v] = "open"
    /\ job[watched[v]].status # "absent"
    /\ IF job[watched[v]].status \in Terminal
       THEN wpc' = [wpc EXCEPT ![v] = "ended"] /\ UNCHANGED last
       ELSE /\ UNCHANGED wpc
            /\ last' = [last EXCEPT ![v] = State(watched[v])]
    /\ UNCHANGED <<allVars, watched>>

\* A stream that overlooks one of the ways a job can end.
BugWatchLookOn(v) ==
    /\ wpc[v] = "open"
    /\ job[watched[v]].status # "absent"
    /\ last' = [last EXCEPT ![v] = State(watched[v])]
    /\ wpc' = [wpc EXCEPT ![v] =
                 IF job[watched[v]].status \in Terminal \ {"canceled"} THEN "ended" ELSE "open"]
    /\ UNCHANGED <<allVars, watched>>

\* One turn of the loop, at first and at every tick: one Get, and what it read
\* is sent unless it was the last thing sent.
WatchLook(v) ==
    /\ wpc[v] = "open"
    /\ job[watched[v]].status # "absent"
    /\ last' = [last EXCEPT ![v] = State(watched[v])]
    /\ wpc' = [wpc EXCEPT ![v] =
                 IF job[watched[v]].status \in Terminal THEN "ended" ELSE "open"]
    /\ UNCHANGED <<allVars, watched>>

\* The stream's context ends, or a message cannot be sent.
WatchLost(v) ==
    /\ wpc[v] = "open"
    /\ wpc' = [wpc EXCEPT ![v] = "lost"]
    /\ last' = [last EXCEPT ![v] = Unsent]
    /\ UNCHANGED <<allVars, watched>>

\* GracefulStop returns when no call is left.
GracefulStopWaits ==
    server = "draining" /\ server' = "closing" => \A v \in Watchers : wpc[v] # "open"

StreamStep(v) == WatchRefused(v) \/ WatchLook(v)

WatchNext ==
    \/ ServiceNext /\ GracefulStopWaits /\ UNCHANGED watchVars
    \/ \E v \in Watchers :
          \/ \E j \in Jobs : Watch(v, j)
          \/ StreamStep(v) \/ WatchLost(v)

\* After the signal main does not stop by itself: the listeners close once
\* their calls are over, the queue's shutdown is called, and it ends by the
\* workers or by its deadline.
MainStep == server # "serving" /\ ServerStep /\ GracefulStopWaits

WatchFairness ==
    /\ ServiceFairness
    /\ \A v \in Watchers : WF_watchedVars(StreamStep(v))
    /\ WF_allVars(MainStep)

WatchSpec == WatchInit /\ [][WatchNext]_watchedVars /\ WatchFairness

-----------------------------------------------------------------------------
(* Properties. *)

\* A stream that the server ended has sent, last of all, the state the job is
\* in for good, whatever it missed between two looks.
WatchVerdict ==
    \A v \in Watchers :
        wpc[v] = "ended" =>
            job[watched[v]].status \in Terminal /\ last[v] = State(watched[v])

\* Every stream of a job ends, through retries, cancellation, drain and the
\* shutdown of the server, in which no worker stops before the streams do.
WatchEnds == \A v \in Watchers : wpc[v] = "open" ~> wpc[v] # "open"

\* The streams wait for the jobs, GracefulStop waits for the streams, and the
\* queue's shutdown comes after it: the process still exits.
ServerExits == server = "draining" ~> server = "exited"
=============================================================================
