----------------------------- MODULE JobService -----------------------------
(***************************************************************************)
(* The job queue at work in the server: the handlers that                  *)
(* internal/service/application/jobs.go registers, the worker node whose   *)
(* slots they take, the drain endpoint, and the shutdown sequence of       *)
(* cmd/server/main.go.  HandlerReturn of JobQueue, free there to happen at *)
(* any moment with any result, is here what the registered handlers do.    *)
(***************************************************************************)
EXTENDS JobQueue

CONSTANTS
    Capacity,        \* capacity of the node, the number of workers in main.go
    AnalysisTicks    \* ticks an analysis waits for, 20 in the code

ASSUME HandledAssumption  == Handled = {"analysis", "always-fail"}
ASSUME KindsAssumption    == "analysis" \in Kinds
ASSUME CapacityAssumption == Capacity \in Nat /\ Capacity >= Cardinality(Workers)
ASSUME TicksAssumption    == AnalysisTicks \in Nat

VARIABLES
    nodeState, running,   \* the node
    ticks,                \* ticks the worker's analysis has seen, Out if not inside one
    server                \* "serving", "draining", "closing", "exited": main.go's progress

nodeVars    == <<nodeState, running>>
serviceVars == <<nodeVars, ticks, server>>
allVars     == <<vars, serviceVars>>

Node == INSTANCE WorkerNode WITH state <- nodeState

Out == -1
Inside(w) == ticks[w] # Out

ServiceInit ==
    /\ Init
    /\ Node!Init
    /\ ticks = [w \in Workers |-> Out]
    /\ server = "serving"

-----------------------------------------------------------------------------
(* Requests.  The HTTP listener is open until main.go reaches Shutdown. *)

Accepting == server \in {"serving", "draining"}

\* App.CreateJob: a kind of white space only is an analysis.
CreateJob(j, k, p, t, m) ==
    /\ Accepting
    /\ Enqueue(j, IF k = "" THEN "analysis" ELSE k, p, t, m)
    /\ UNCHANGED serviceVars

CancelJob(c, j) ==
    /\ Accepting
    /\ CancelGet(c, j)
    /\ UNCHANGED serviceVars

\* POST /v1/nodes/current/drain
DrainNode ==
    /\ Accepting
    /\ Node!Drain
    /\ UNCHANGED <<vars, ticks, server>>

-----------------------------------------------------------------------------
(* The handlers.  Worker w is about to enter, or inside, the one of kind k. *)

InHandler(w, k) == pc[w] = "handler" /\ job[cur[w]].kind = k

\* Acquire found the context live; it may have been canceled since.
AnalysisAcquire(w) ==
    /\ InHandler(w, "analysis")
    /\ ~Inside(w)
    /\ Node!Acquire
    /\ ticks' = [ticks EXCEPT ![w] = 0]
    /\ UNCHANGED <<vars, server>>

AnalysisRefused(w) ==
    /\ InHandler(w, "analysis")
    /\ ~Inside(w)
    /\ Node!AcquireRefused
    /\ HandlerReturn(w, "error")
    /\ UNCHANGED <<ticks, server>>

\* Acquire finds the context done.
AnalysisNotStarted(w) ==
    /\ InHandler(w, "analysis")
    /\ ~Inside(w)
    /\ HandlerReturn(w, "interrupted")
    /\ UNCHANGED serviceVars

AnalysisTick(w) ==
    /\ InHandler(w, "analysis")
    /\ Inside(w)
    /\ ticks[w] < AnalysisTicks
    /\ ticks' = [ticks EXCEPT ![w] = @ + 1]
    /\ UNCHANGED <<vars, nodeVars, server>>

\* Broken forms (named Bug...) stand before the definition they would replace.

\* The slot of an interrupted analysis is never given back.
BugAnalysisLeave(w, r) ==
    /\ HandlerReturn(w, r)
    /\ IF r = "interrupted" THEN UNCHANGED nodeVars ELSE Node!Release
    /\ ticks' = [ticks EXCEPT ![w] = Out]
    /\ UNCHANGED server

\* The result is settled and the deferred Release runs.
AnalysisLeave(w, r) ==
    /\ HandlerReturn(w, r)
    /\ Node!Release
    /\ ticks' = [ticks EXCEPT ![w] = Out]
    /\ UNCHANGED server

AnalysisInterrupted(w) ==
    /\ InHandler(w, "analysis")
    /\ Inside(w)
    /\ ticks[w] < AnalysisTicks
    /\ AnalysisLeave(w, "interrupted")

\* The asset is found, or none was named; it is not found; or the lookup sees
\* the context done.
AnalysisLookup(w, r) ==
    /\ InHandler(w, "analysis")
    /\ ticks[w] = AnalysisTicks
    /\ AnalysisLeave(w, r)

AlwaysFail(w, r) ==
    /\ InHandler(w, "always-fail")
    /\ r # "ok"
    /\ HandlerReturn(w, r)
    /\ UNCHANGED serviceVars

HandlerStep(w) ==
    \/ AnalysisAcquire(w) \/ AnalysisRefused(w) \/ AnalysisNotStarted(w)
    \/ AnalysisTick(w) \/ AnalysisInterrupted(w)
    \/ \E r \in Results : AnalysisLookup(w, r) \/ AlwaysFail(w, r)

-----------------------------------------------------------------------------
(* The end of main. *)

\* The shutdown sequence without Node.Drain.
BugSignal ==
    /\ server = "serving"
    /\ server' = "draining"
    /\ UNCHANGED <<vars, nodeVars, ticks>>

\* A signal, or a listener that failed.
Signal ==
    /\ server = "serving"
    /\ server' = "draining"
    /\ Node!Drain
    /\ UNCHANGED <<vars, ticks>>

\* GracefulStop has returned and the HTTP listener is closed.
CloseListeners ==
    /\ server = "draining"
    /\ server' = "closing"
    /\ UNCHANGED <<vars, nodeVars, ticks>>

\* The queue is shut down before the calls of the listeners are over.
BugShutdownQueue ==
    /\ server \in {"draining", "closing"}
    /\ Shutdown
    /\ UNCHANGED serviceVars

ShutdownQueue ==
    /\ server = "closing"
    /\ Shutdown
    /\ UNCHANGED serviceVars

\* App.Shutdown returned, and main with it: the process is gone.
Exit ==
    /\ server = "closing"
    /\ shut \in {"drained", "expired"}
    /\ server' = "exited"
    /\ UNCHANGED <<vars, nodeVars, ticks>>

-----------------------------------------------------------------------------
ClientStep ==
    \/ \E j \in Jobs, k \in Kinds \cup {""}, p \in Priorities, t \in Stamps, m \in RequestedMax :
          CreateJob(j, k, p, t, m)
    \/ \E c \in Cancellers, j \in Jobs : CancelJob(c, j)
    \/ DrainNode

\* A request in progress, which closing the listener does not stop.
RequestStep ==
    /\ \/ \E j \in Jobs : EnqueueWake(j)
       \/ \E c \in Cancellers :
             \/ CancelLookup(c) \/ CancelFire(c)
             \/ CancelMark(c) \/ CancelMarkFails(c)
             \/ CancelReread(c) \/ CancelRereadFails(c)
    /\ UNCHANGED serviceVars

ServiceWorkerStep(w) ==
    /\ server # "exited"
    /\ \/ QueueStep(w) /\ UNCHANGED serviceVars
       \/ HandlerStep(w)

ServerStep ==
    \/ Signal \/ CloseListeners \/ ShutdownQueue \/ Exit
    \/ (ShutdownDone \/ ShutdownExpires) /\ UNCHANGED serviceVars

ServiceNext ==
    /\ server # "exited"
    /\ \/ ClientStep
       \/ RequestStep
       \/ \E w \in Workers :
             \/ ServiceWorkerStep(w)
             \/ PollTimeout(w) /\ UNCHANGED serviceVars
       \/ ServerStep

\* Scheduling is fair as in JobQueue; the handlers' returns are now steps of
\* the handlers, of which each is bounded by its timers.
ServiceFairness ==
    /\ \A w \in Workers : WF_allVars(ServiceWorkerStep(w))
    /\ \A j \in Jobs :
          WF_allVars(server # "exited" /\ EnqueueWake(j) /\ UNCHANGED serviceVars)

ServiceSpec == ServiceInit /\ [][ServiceNext]_allVars /\ ServiceFairness

-----------------------------------------------------------------------------
(* Properties. *)

\* Types of the service's own variables; those of the queue keep theirs.
ServiceTypeOK ==
    /\ TypeOK
    /\ nodeState \in Node!States
    /\ running \in 0..Capacity
    /\ ticks \in [Workers -> {Out} \cup 0..AnalysisTicks]
    /\ server \in {"serving", "draining", "closing", "exited"}

\* The node's counter is the number of analyses that hold a slot, and only a
\* worker inside the analysis handler holds one: no slot is leaked by an
\* interrupted, refused or overtaken run, and none is released twice.
SlotsAreAccountedFor ==
    /\ running = Cardinality({w \in Workers : Inside(w)})
    /\ \A w \in Workers : Inside(w) => InHandler(w, "analysis")

\* An active node always has room for a worker that wants a slot, so a job
\* loses an attempt to the node only after a drain: runs that a Cancel
\* overtook still hold their slots but never crowd out another job.
ActiveNodeNeverRefuses ==
    \A w \in Workers :
        InHandler(w, "analysis") /\ ~Inside(w) /\ nodeState = "active" => Node!HasRoom

\* A draining node still has someone whose Release will stop it, and a stopped
\* node is empty.
DrainingMeansOccupied ==
    /\ nodeState = "draining" => running > 0
    /\ nodeState = "stopped"  => running = 0

\* A queue shutdown that did not run out of time leaves the process with a
\* stopped node, no slot taken, and no job recorded as running.
CleanExit ==
    server = "exited" /\ shut = "drained" =>
        /\ nodeState = "stopped"
        /\ running = 0
        /\ \A j \in Jobs : job[j].status # "running"

\* A drained node stops: "the node becomes stopped after the running tasks
\* finish" (README.md:27), unless the process exits first.
DrainFinishes == nodeState = "draining" ~> nodeState = "stopped" \/ server = "exited"

\* In the server too every job settles, after a drain included, unless the
\* queue is shut down.
ServiceSettles ==
    \A j \in Jobs : job[j].status = "queued" ~> job[j].status \in Terminal \/ closed
=============================================================================
