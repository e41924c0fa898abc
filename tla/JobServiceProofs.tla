-------------------------- MODULE JobServiceProofs --------------------------
(***************************************************************************)
(* Proofs about JobService, for every set of jobs, workers and Cancel      *)
(* calls, every capacity that the workers fit in and any length of an      *)
(* analysis.  Its steps are steps of JobQueue, or none of the queue's, so  *)
(* what JobQueueProofs shows of a step of the queue carries over.  At the  *)
(* end the same is done once more for JobWatch: its streams only read, so  *)
(* what is shown of the service holds beside any number of them.           *)
(***************************************************************************)
EXTENDS JobWatch, JobQueueProofs, FiniteSetTheorems

\* The types of the service's own variables.
OwnTypes ==
    /\ nodeState \in {"active", "draining", "stopped"}
    /\ running \in 0..Capacity
    /\ ticks \in [Workers -> {Out} \cup 0..AnalysisTicks]
    /\ server \in {"serving", "draining", "closing", "exited"}

\* Main has drained the node before anything else of its shutdown.
DrainedFirst == server # "serving" => nodeState # "active"

\* The node and the workers at it.
NodeInv == OwnTypes /\ SlotsAreAccountedFor /\ DrainingMeansOccupied /\ DrainedFirst

ServiceInv == QueueInv /\ NodeInv

Slots == {w \in Workers : Inside(w)}

-----------------------------------------------------------------------------
\* Steps of the service seen from the queue.

\* A handler's step is a return of the handler, or nothing to the queue.
LEMMA HandlerStepIsReturn ==
    ASSUME NEW w \in Workers, HandlerStep(w)
    PROVE  (\E r \in Results : HandlerReturn(w, r)) \/ UNCHANGED vars
  BY DEF HandlerStep, AnalysisAcquire, AnalysisRefused, AnalysisNotStarted, AnalysisTick,
         AnalysisInterrupted, AnalysisLookup, AnalysisLeave, AlwaysFail, Results

\* Every step of the service is a step of the queue or a stutter.
LEMMA ServiceStepIsQueueStep ==
    ASSUME [ServiceNext]_allVars
    PROVE  [Next]_vars
  <1>1. CASE UNCHANGED allVars
    BY <1>1 DEF allVars
  <1>2. CASE ClientStep
    <2>1. ASSUME NEW j \in Jobs, NEW k \in Kinds \cup {""}, NEW p \in Priorities, NEW t \in Stamps,
                 NEW m \in RequestedMax, CreateJob(j, k, p, t, m)
          PROVE  Next
      <3>1. PICK kind \in Kinds : Enqueue(j, kind, p, t, m)
        BY <2>1, KindsAssumption DEF CreateJob
      <3> QED BY <3>1 DEF Next, EnqueueStep
    <2>2. ASSUME NEW c \in Cancellers, NEW j \in Jobs, CancelJob(c, j) PROVE Next
      BY <2>2 DEF CancelJob, Next, CancelStep
    <2>3. CASE DrainNode
      BY <2>3 DEF DrainNode
    <2> QED BY <1>2, <2>1, <2>2, <2>3 DEF ClientStep
  <1>3. CASE RequestStep
    BY <1>3 DEF RequestStep, Next, EnqueueStep, CancelStep
  <1>4. ASSUME NEW w \in Workers, ServiceWorkerStep(w) \/ PollTimeout(w) PROVE [Next]_vars
    BY <1>4, HandlerStepIsReturn DEF ServiceWorkerStep, Next, WorkerStep
  <1>5. CASE ServerStep
    BY <1>5 DEF ServerStep, Signal, CloseListeners, ShutdownQueue, Exit, Next, ShutdownStep
  <1> QED BY <1>1, <1>2, <1>3, <1>4, <1>5 DEF ServiceNext

\* No step changes the kind of a stored job.
LEMMA KindsStay ==
    ASSUME TypeOK, [Next]_vars, NEW j \in Jobs, job[j].status # "absent"
    PROVE  job'[j].kind = job[j].kind
  <1> USE DEF storeVars, workerVars, cancelVars
  <1>1. job \in [Jobs -> JobRecord] /\ job[j] \in JobRecord
    BY DEF TypeOK
  <1>2. ASSUME NEW i \in Jobs, NEW next, next.kind = job[i].kind \/ job[i].status = "absent",
               job' = [job EXCEPT ![i] = next] \/ job' = job
        PROVE  job'[j].kind = job[j].kind
    BY <1>1, <1>2
  <1>3. ASSUME NEW i \in Jobs, NEW k, NEW p, NEW t, NEW m, Enqueue(i, k, p, t, m)
        PROVE  job'[j].kind = job[j].kind
    <2> DEFINE next == [status |-> "queued", kind |-> k, attempt |-> 0, max |-> EffectiveMax(m),
                        priority |-> p, created |-> t, error |-> ""]
    <2>1. job[i].status = "absent" /\ job' = [job EXCEPT ![i] = next]
      BY <1>3 DEF Enqueue
    <2> QED BY <1>2, <2>1
  <1>4. ASSUME NEW w \in Workers, NEW i \in todo[w], Reject(w, i)
        PROVE  job'[j].kind = job[j].kind
    <2> DEFINE next == [job[i] EXCEPT !.status = "failed", !.error = "no handler"]
    <2>1. i \in Jobs
      BY <1>4 DEF TypeOK
    <2>2. next.kind = job[i].kind
      BY <2>1 DEF TypeOK, JobRecord
    <2>3. job' = [job EXCEPT ![i] = next] \/ job' = job
      BY <1>4 DEF Reject, CompareAndSet
    <2> QED BY <1>2, <2>1, <2>2, <2>3
  <1>5. ASSUME NEW w \in Workers, NEW i \in todo[w], Claim(w, i)
        PROVE  job'[j].kind = job[j].kind
    <2> DEFINE next == [job[i] EXCEPT !.status = "running", !.attempt = @ + 1]
    <2>1. i \in Jobs
      BY <1>5 DEF TypeOK
    <2>2. next.kind = job[i].kind
      BY <2>1 DEF TypeOK, JobRecord
    <2>3. job' = [job EXCEPT ![i] = next]
      BY <1>1, <1>5, <2>1 DEF Claim
    <2> QED BY <1>2, <2>1, <2>2, <2>3
  <1>6. ASSUME NEW w \in Workers, Finalize(w)
        PROVE  job'[j].kind = job[j].kind
    <2> DEFINE i == cur[w]
               next == FinalRecord(i, result[w])
    <2>1. i \in Jobs
      BY <1>6 DEF TypeOK, Finalize, Goto, Claimed
    <2>2. next.kind = job[i].kind
      BY <2>1 DEF TypeOK, JobRecord, FinalRecord
    <2>3. job' = [job EXCEPT ![i] = next] \/ job' = job
      BY <1>6 DEF Finalize, CompareAndSet
    <2> HIDE DEF next
    <2> QED BY <1>2, <2>1, <2>2, <2>3
  <1>7. ASSUME NEW c \in Cancellers, CancelMark(c)
        PROVE  job'[j].kind = job[j].kind
    <2> DEFINE i == target[c]
               next == [job[i] EXCEPT !.status = "canceled", !.error = "canceled by request"]
    <2>1. i \in Jobs
      BY <1>7 DEF TypeOK, CancelMark, Cancellable
    <2>2. next.kind = job[i].kind
      BY <2>1 DEF TypeOK, JobRecord
    <2>3. job' = [job EXCEPT ![i] = next] \/ job' = job
      BY <1>7 DEF CancelMark, CompareAndSet
    <2> HIDE DEF next
    <2> QED BY <1>2, <2>1, <2>2, <2>3
  <1>8. CASE UNCHANGED job
    BY <1>8
  <1> QED
    BY <1>3, <1>4, <1>5, <1>6, <1>7, <1>8
    DEF Next, EnqueueStep, WorkerStep, QueueStep, ScanStep, CancelStep, ShutdownStep, EnqueueWake,
        CheckClosed, List, EndPass, WakeUp, IdleClosed, PollTimeout, RegisterCancel, DropCancel,
        ClaimRefused, HandlerReturn, CancelGet, CancelLookup, CancelFire, CancelMarkFails,
        CancelReread, CancelRereadFails, Shutdown, ShutdownDone, ShutdownExpires, vars

\* A step of one worker moves no other, and the worker's own code around the
\* handler does not run while it is inside.
LEMMA OneWorkerMoves ==
    ASSUME TypeOK, NEW v \in Workers, NEW w \in Workers, pc[w] = "handler",
           \/ (QueueStep(v) \/ PollTimeout(v))
           \/ v # w /\ \E r \in Results : HandlerReturn(v, r)
    PROVE  pc'[w] = "handler" /\ cur'[w] = cur[w]
  <1>1. /\ pc \in [Workers -> {"top", "list", "scan", "idle", "exited"} \cup Claimed]
        /\ cur \in [Workers -> Jobs \cup {NoJob}]
    BY DEF TypeOK
  <1> QED
    BY <1>1
    DEF QueueStep, ScanStep, Goto, CheckClosed, List, EndPass, Reject, Claim, ClaimRefused,
        WakeUp, IdleClosed, PollTimeout, RegisterCancel, DropCancel, Finalize, HandlerReturn

\* The other steps of the queue move no worker.
LEMMA OthersMoveNoWorker ==
    ASSUME EnqueueStep \/ (\E c \in Cancellers : CancelStep(c)) \/ ShutdownStep \/ UNCHANGED vars
    PROVE  UNCHANGED <<pc, cur>>
  BY DEF EnqueueStep, Enqueue, EnqueueWake, CancelStep, CancelGet, CancelLookup, CancelFire,
         CancelMark, CancelMarkFails, CancelReread, CancelRereadFails, ShutdownStep, Shutdown,
         ShutdownDone, ShutdownExpires, vars, workerVars

-----------------------------------------------------------------------------
\* The node.

\* The workers are finitely many, and so are those that hold a slot.
LEMMA SlotsFinite ==
    /\ IsFiniteSet(Slots)
    /\ Cardinality(Slots) \in Nat
    /\ Cardinality(Workers) \in Nat
    /\ \A w \in Workers : w \notin Slots => Cardinality(Slots) < Cardinality(Workers)
  <1>1. IsFiniteSet(Workers) /\ Slots \in SUBSET Workers
    BY WorkersAssumption DEF Slots
  <1>2. /\ IsFiniteSet(Slots) /\ Cardinality(Slots) <= Cardinality(Workers)
        /\ Cardinality(Workers) = Cardinality(Slots) => Workers = Slots
    BY <1>1, FS_Subset
  <1>3. Cardinality(Slots) \in Nat /\ Cardinality(Workers) \in Nat
    BY <1>1, <1>2, FS_CardinalityType
  <1> QED BY <1>2, <1>3

\* A worker that stays inside the analysis keeps the slots accounted for.
LEMMA SlotsFrame ==
    ASSUME Consistent, NodeInv, [Next]_vars, UNCHANGED <<nodeState, running>>,
           ticks' \in [Workers -> {Out} \cup 0..AnalysisTicks],
           \A w \in Workers : (ticks'[w] = Out) <=> (ticks[w] = Out),
           \A w \in Workers : Inside(w) => pc'[w] = "handler" /\ cur'[w] = cur[w],
           server' \in {"serving", "draining", "closing", "exited"},
           server' # "serving" => nodeState # "active"
    PROVE  NodeInv'
  <1>1. Slots' = Slots /\ \A w \in Workers : Inside(w)' <=> Inside(w)
    BY DEF Slots, Inside
  <1>2. ASSUME NEW w \in Workers, Inside(w)'
        PROVE  InHandler(w, "analysis")'
    <2>1. Inside(w) /\ InHandler(w, "analysis")
      BY <1>1, <1>2 DEF NodeInv, SlotsAreAccountedFor
    <2>2. cur[w] \in Jobs /\ job[cur[w]].status # "absent"
      BY <2>1 DEF Consistent, TypeOK, Ownership, RecordMatchesRun, InHandler, Claimed
    <2>3. job'[cur[w]].kind = job[cur[w]].kind
      BY <2>2, KindsStay DEF Consistent
    <2> QED BY <2>1, <2>3 DEF InHandler
  <1>3. SlotsAreAccountedFor'
    BY <1>1, <1>2 DEF NodeInv, SlotsAreAccountedFor, Slots
  <1> QED BY <1>3 DEF NodeInv, OwnTypes, DrainingMeansOccupied, DrainedFirst

\* A slot is taken.
LEMMA AcquireKeeps ==
    ASSUME Consistent, NodeInv, [Next]_vars, NEW w \in Workers, AnalysisAcquire(w)
    PROVE  NodeInv'
  <1>1. /\ InHandler(w, "analysis") /\ ticks[w] = Out /\ nodeState = "active" /\ running < Capacity
        /\ nodeState' = nodeState /\ running' = running + 1
        /\ ticks' = [ticks EXCEPT ![w] = 0] /\ UNCHANGED <<pc, cur, job, server>>
    BY DEF AnalysisAcquire, Inside, Node!Acquire, Node!HasRoom, vars, workerVars, storeVars
  <1>2. /\ running \in Nat /\ Capacity \in Nat /\ 0 \in {Out} \cup 0..AnalysisTicks /\ 0 # Out
        /\ ticks \in [Workers -> {Out} \cup 0..AnalysisTicks]
    BY CapacityAssumption, TicksAssumption DEF NodeInv, OwnTypes, Out
  <1>3. \A v \in Workers : ticks'[v] = IF v = w THEN 0 ELSE ticks[v]
    BY <1>1, <1>2
  <1>4. OwnTypes'
    BY <1>1, <1>2 DEF NodeInv, OwnTypes
  <1>5. Slots' = Slots \cup {w} /\ w \notin Slots
    BY <1>1, <1>2, <1>3 DEF Slots, Inside
  <1>6. running' = Cardinality(Slots')
    BY <1>1, <1>5, SlotsFinite, FS_AddElement DEF NodeInv, SlotsAreAccountedFor, Slots
  <1>7. \A v \in Workers : Inside(v)' => InHandler(v, "analysis")'
    BY <1>1, <1>3 DEF NodeInv, SlotsAreAccountedFor, Inside, InHandler
  <1>8. SlotsAreAccountedFor'
    BY <1>6, <1>7 DEF SlotsAreAccountedFor, Slots
  <1> QED BY <1>1, <1>4, <1>8 DEF NodeInv, DrainingMeansOccupied, DrainedFirst

\* A slot is given back, and the last one stops a draining node.
LEMMA LeaveKeeps ==
    ASSUME Consistent, NodeInv, [Next]_vars, NEW w \in Workers, NEW r \in Results,
           Inside(w), AnalysisLeave(w, r)
    PROVE  NodeInv'
  <1>1. /\ running' = IF running > 0 THEN running - 1 ELSE running
        /\ nodeState' = IF nodeState = "draining" /\ running' = 0 THEN "stopped" ELSE nodeState
        /\ ticks' = [ticks EXCEPT ![w] = Out] /\ UNCHANGED <<cur, job, server>>
        /\ pc' = [pc EXCEPT ![w] = "returned"]
    BY DEF AnalysisLeave, Node!Release, HandlerReturn, Goto, storeVars
  <1>2. /\ running \in Nat /\ running <= Capacity /\ Capacity \in Nat
        /\ ticks \in [Workers -> {Out} \cup 0..AnalysisTicks] /\ ticks[w] # Out
        /\ pc \in [Workers -> {"top", "list", "scan", "idle", "exited"} \cup Claimed]
    BY CapacityAssumption DEF NodeInv, OwnTypes, Inside, Consistent, TypeOK
  <1>3. \A v \in Workers : /\ ticks'[v] = IF v = w THEN Out ELSE ticks[v]
                           /\ v # w => pc'[v] = pc[v]
    BY <1>1, <1>2
  <1>4. Slots' = Slots \ {w} /\ w \in Slots
    BY <1>2, <1>3 DEF Slots, Inside
  <1>5. /\ running = Cardinality(Slots) /\ Cardinality(Slots') = Cardinality(Slots) - 1
        /\ Cardinality(Slots') \in Nat
    <2>1. IsFiniteSet(Slots)
      BY SlotsFinite
    <2>2. IsFiniteSet(Slots') /\ Cardinality(Slots') = Cardinality(Slots) - 1
      BY <1>4, <2>1, FS_RemoveElement
    <2> QED BY <2>2, FS_CardinalityType DEF NodeInv, SlotsAreAccountedFor, Slots
  <1>6. running > 0 /\ running' = running - 1 /\ running' = Cardinality(Slots')
    BY <1>1, <1>2, <1>5
  <1>7. OwnTypes'
    BY <1>1, <1>2, <1>6 DEF NodeInv, OwnTypes
  <1>8. \A v \in Workers : Inside(v)' => InHandler(v, "analysis")'
    BY <1>1, <1>3 DEF NodeInv, SlotsAreAccountedFor, Inside, InHandler
  <1>9. SlotsAreAccountedFor'
    BY <1>6, <1>8 DEF SlotsAreAccountedFor, Slots
  <1>10. DrainingMeansOccupied' /\ DrainedFirst'
    BY <1>1, <1>2, <1>6 DEF NodeInv, OwnTypes, DrainingMeansOccupied, DrainedFirst
  <1> QED BY <1>7, <1>9, <1>10 DEF NodeInv

\* A drain, by a request or by the signal.
LEMMA DrainKeeps ==
    ASSUME Consistent, NodeInv, Node!Drain, UNCHANGED <<vars, ticks>>,
           server' \in {"serving", "draining", "closing", "exited"}
    PROVE  NodeInv'
  <1>1. /\ nodeState' = IF running = 0 THEN "stopped"
                        ELSE IF nodeState = "active" THEN "draining" ELSE nodeState
        /\ UNCHANGED <<running, ticks, pc, cur, job>>
    BY DEF Node!Drain, vars, workerVars, storeVars
  <1>2. OwnTypes' /\ DrainedFirst'
    BY <1>1 DEF NodeInv, OwnTypes, DrainedFirst
  <1>3. SlotsAreAccountedFor'
    BY <1>1 DEF NodeInv, SlotsAreAccountedFor, Inside, InHandler
  <1>4. DrainingMeansOccupied'
    BY <1>1 DEF NodeInv, OwnTypes, DrainingMeansOccupied
  <1> QED BY <1>2, <1>3, <1>4 DEF NodeInv

\* A step that is not the node's, and that no worker inside the analysis takes.
LEMMA OutsideKeeps ==
    ASSUME Consistent, NodeInv, [Next]_vars, UNCHANGED <<nodeState, running, ticks>>,
           \A w \in Workers : Inside(w) => pc'[w] = "handler" /\ cur'[w] = cur[w],
           server' \in {"serving", "draining", "closing", "exited"},
           server' # "serving" => server # "serving"
    PROVE  NodeInv'
  <1>1. ticks' \in [Workers -> {Out} \cup 0..AnalysisTicks] /\ (server' # "serving" => nodeState # "active")
    BY DEF NodeInv, OwnTypes, DrainedFirst
  <1> QED BY <1>1, SlotsFrame

\* Each step of the handlers keeps the node's invariant.
LEMMA HandlerKeeps ==
    ASSUME Consistent, NodeInv, [Next]_vars, NEW w \in Workers, HandlerStep(w)
    PROVE  NodeInv'
  <1>1. \A v \in Workers : Inside(v) => InHandler(v, "analysis")
    BY DEF NodeInv, SlotsAreAccountedFor
  <1>2. CASE AnalysisAcquire(w)
    BY <1>2, AcquireKeeps
  <1>3. ASSUME NEW r \in Results, HandlerReturn(w, r), ~Inside(w),
               UNCHANGED <<nodeState, running, ticks, server>>
        PROVE  NodeInv'
    <2>1. \A v \in Workers : Inside(v) => pc'[v] = "handler" /\ cur'[v] = cur[v]
      BY <1>1, <1>3, OneWorkerMoves DEF InHandler, Consistent
    <2> QED BY <1>3, <2>1, OutsideKeeps DEF NodeInv, OwnTypes
  <1>4. CASE AnalysisRefused(w) \/ AnalysisNotStarted(w)
    BY <1>3, <1>4
    DEF AnalysisRefused, AnalysisNotStarted, Node!AcquireRefused, Node!vars, serviceVars, nodeVars, Results
  <1>5. CASE AnalysisTick(w)
    <2>1. /\ ticks[w] # Out /\ ticks[w] < AnalysisTicks
          /\ ticks' = [ticks EXCEPT ![w] = ticks[w] + 1]
          /\ UNCHANGED <<nodeState, running, server, pc, cur>>
      BY <1>5 DEF AnalysisTick, Inside, vars, workerVars, nodeVars
    <2>2. ticks \in [Workers -> {Out} \cup 0..AnalysisTicks] /\ AnalysisTicks \in Nat
      BY TicksAssumption DEF NodeInv, OwnTypes
    <2>3. ticks[w] + 1 \in 0..AnalysisTicks /\ ticks[w] + 1 # Out
      BY <2>1, <2>2 DEF Out
    <2>4. /\ ticks' \in [Workers -> {Out} \cup 0..AnalysisTicks]
          /\ \A v \in Workers : (ticks'[v] = Out) <=> (ticks[v] = Out)
      BY <2>1, <2>2, <2>3
    <2>5. \A v \in Workers : Inside(v) => pc'[v] = "handler" /\ cur'[v] = cur[v]
      BY <1>1, <2>1 DEF InHandler
    <2> QED BY <2>1, <2>4, <2>5, SlotsFrame DEF NodeInv, OwnTypes, DrainedFirst
  <1>6. CASE AnalysisInterrupted(w)
    BY <1>6, LeaveKeeps DEF AnalysisInterrupted, Results
  <1>7. ASSUME NEW r \in Results, AnalysisLookup(w, r)
        PROVE  NodeInv'
    <2>1. Inside(w)
      BY <1>7, TicksAssumption DEF AnalysisLookup, Inside, Out
    <2> QED BY <1>7, <2>1, LeaveKeeps DEF AnalysisLookup
  <1>8. ASSUME NEW r \in Results, AlwaysFail(w, r)
        PROVE  NodeInv'
    <2>1. ~Inside(w)
      BY <1>1, <1>8 DEF AlwaysFail, InHandler
    <2> QED BY <1>3, <1>8, <2>1 DEF AlwaysFail, serviceVars, nodeVars
  <1> QED BY <1>2, <1>4, <1>5, <1>6, <1>7, <1>8 DEF HandlerStep

\* Every step of the service keeps the node's invariant.
LEMMA NextNode ==
    ASSUME Consistent, NodeInv, [ServiceNext]_allVars
    PROVE  NodeInv'
  <1>1. [Next]_vars
    BY ServiceStepIsQueueStep
  <1>2. \A v \in Workers : Inside(v) => pc[v] = "handler"
    BY DEF NodeInv, SlotsAreAccountedFor, InHandler
  <1>3. ASSUME UNCHANGED <<pc, cur>>, UNCHANGED <<nodeState, running, ticks>>,
               server' \in {"serving", "draining", "closing", "exited"},
               server' # "serving" => server # "serving"
        PROVE  NodeInv'
    BY <1>1, <1>2, <1>3, OutsideKeeps
  <1>4. CASE UNCHANGED allVars
    BY <1>3, <1>4
    DEF allVars, serviceVars, nodeVars, vars, workerVars, NodeInv, OwnTypes
  <1>5. CASE DrainNode
    BY <1>5, DrainKeeps DEF DrainNode, NodeInv, OwnTypes
  <1>6. ASSUME UNCHANGED serviceVars,
               \/ \E j \in Jobs : \E k, p, t, m : Enqueue(j, k, p, t, m)
               \/ \E j \in Jobs : EnqueueWake(j)
               \/ \E c \in Cancellers : CancelStep(c)
               \/ ShutdownStep
        PROVE  NodeInv'
    <2>1. UNCHANGED <<pc, cur>>
      BY <1>6, OthersMoveNoWorker DEF Enqueue, EnqueueWake, workerVars
    <2> QED BY <1>3, <1>6, <2>1 DEF serviceVars, nodeVars, NodeInv, OwnTypes
  <1>7. CASE ClientStep \/ RequestStep
    BY <1>5, <1>6, <1>7 DEF ClientStep, RequestStep, CreateJob, CancelJob, CancelStep
  <1>8. ASSUME NEW v \in Workers, (QueueStep(v) \/ PollTimeout(v)), UNCHANGED serviceVars
        PROVE  NodeInv'
    <2>1. \A w \in Workers : Inside(w) => pc'[w] = "handler" /\ cur'[w] = cur[w]
      BY <1>2, <1>8, OneWorkerMoves DEF Consistent
    <2> QED BY <1>1, <1>8, <2>1, OutsideKeeps DEF serviceVars, nodeVars, NodeInv, OwnTypes
  <1>9. ASSUME NEW v \in Workers, HandlerStep(v)
        PROVE  NodeInv'
    BY <1>1, <1>9, HandlerKeeps
  <1>10. CASE ServerStep
    <2>1. CASE Signal
      BY <2>1, DrainKeeps DEF Signal
    <2>2. CASE CloseListeners \/ Exit
      BY <1>3, <2>2 DEF CloseListeners, Exit, vars, workerVars, nodeVars
    <2>3. CASE ShutdownQueue \/ ((ShutdownDone \/ ShutdownExpires) /\ UNCHANGED serviceVars)
      BY <1>6, <2>3 DEF ShutdownQueue, ShutdownStep
    <2> QED BY <1>10, <2>1, <2>2, <2>3 DEF ServerStep
  <1> QED BY <1>4, <1>7, <1>8, <1>9, <1>10 DEF ServiceNext, ServiceWorkerStep

-----------------------------------------------------------------------------
\* The whole.

\* The invariant of the queue and that of the node and the workers at it.
THEOREM ServiceInvariant == ServiceSpec => []ServiceInv
<1>1. ServiceInit => ServiceInv
  <2> SUFFICES ASSUME ServiceInit PROVE ServiceInv
    OBVIOUS
  <2>1. QueueInv
    BY InitQueueInv DEF ServiceInit
  <2>2. /\ nodeState = "active" /\ running = 0 /\ server = "serving"
        /\ ticks = [w \in Workers |-> Out]
    BY DEF ServiceInit, Node!Init
  <2>3. {w \in Workers : Inside(w)} = {}
    BY <2>2 DEF Inside
  <2>4. SlotsAreAccountedFor
    BY <2>2, <2>3, FS_EmptySet DEF SlotsAreAccountedFor
  <2>5. OwnTypes /\ DrainingMeansOccupied /\ DrainedFirst
    BY <2>2, CapacityAssumption DEF OwnTypes, DrainingMeansOccupied, DrainedFirst
  <2> QED BY <2>1, <2>4, <2>5 DEF ServiceInv, NodeInv
<1>2. ServiceInv /\ [ServiceNext]_allVars => ServiceInv'
  <2> SUFFICES ASSUME ServiceInv, [ServiceNext]_allVars PROVE ServiceInv'
    OBVIOUS
  <2>1. QueueInv'
    BY ServiceStepIsQueueStep, NextQueueInv DEF ServiceInv
  <2>2. NodeInv'
    BY NextNode DEF ServiceInv, QueueInv
  <2> QED BY <2>1, <2>2 DEF ServiceInv
<1> QED BY <1>1, <1>2, PTL DEF ServiceSpec

\* The service's variables keep their types.
THEOREM ServiceTypeCorrect == ServiceSpec => []ServiceTypeOK
<1>1. ServiceInv => ServiceTypeOK
  BY DEF ServiceInv, QueueInv, Consistent, NodeInv, OwnTypes, ServiceTypeOK, Node!States
<1> QED BY <1>1, ServiceInvariant, PTL

\* The node's counter counts the workers inside an analysis: no slot is leaked
\* or given back twice (node.go 17-41, jobs.go 23-42).
THEOREM SlotsStayAccountedFor == ServiceSpec => []SlotsAreAccountedFor
<1>1. ServiceInv => SlotsAreAccountedFor
  BY DEF ServiceInv, NodeInv
<1> QED BY <1>1, ServiceInvariant, PTL

\* A worker that wants a slot finds one, unless the node was drained: at least
\* one worker is outside, and the capacity is that of all workers (main.go).
THEOREM ActiveNodeHasRoom == ServiceSpec => []ActiveNodeNeverRefuses
<1>1. ServiceInv => ActiveNodeNeverRefuses
  <2> SUFFICES ASSUME ServiceInv, NEW w \in Workers, ~Inside(w), nodeState = "active"
               PROVE  Node!HasRoom
    BY DEF ActiveNodeNeverRefuses
  <2>1. w \notin Slots
    BY DEF Slots
  <2>2. running = Cardinality(Slots) /\ Cardinality(Slots) \in Nat /\ Cardinality(Workers) \in Nat
    BY SlotsFinite DEF ServiceInv, NodeInv, SlotsAreAccountedFor, Slots
  <2>3. running < Capacity
    BY <2>1, <2>2, SlotsFinite, CapacityAssumption
  <2> QED BY <2>3 DEF Node!HasRoom
<1> QED BY <1>1, ServiceInvariant, PTL

\* A draining node is never left without a Release to come (node.go 33-51).
THEOREM DrainingNodeIsOccupied == ServiceSpec => []DrainingMeansOccupied
<1>1. ServiceInv => DrainingMeansOccupied
  BY DEF ServiceInv, NodeInv
<1> QED BY <1>1, ServiceInvariant, PTL

\* The shutdown of main.go that did not run out of time leaves nothing behind.
THEOREM ExitIsClean == ServiceSpec => []CleanExit
<1>1. ServiceInv => CleanExit
  <2> SUFFICES ASSUME ServiceInv, server = "exited", shut = "drained"
               PROVE  /\ nodeState = "stopped" /\ running = 0
                      /\ \A j \in Jobs : job[j].status # "running"
    BY DEF CleanExit
  <2>1. \A w \in Workers : pc[w] = "exited"
    BY DEF ServiceInv, QueueInv, Gone
  <2>2. {w \in Workers : Inside(w)} = {}
    BY <2>1 DEF ServiceInv, NodeInv, SlotsAreAccountedFor, InHandler
  <2>3. running = 0
    BY <2>2, FS_EmptySet DEF ServiceInv, NodeInv, SlotsAreAccountedFor
  <2>4. nodeState = "stopped"
    BY <2>3 DEF ServiceInv, NodeInv, OwnTypes, DrainedFirst, DrainingMeansOccupied
  <2>5. \A j \in Jobs : job[j].status # "running"
    BY <2>1 DEF ServiceInv, QueueInv, Consistent, Ownership, RecordMatchesRun, Busy, Claimed
  <2> QED BY <2>3, <2>4, <2>5
<1> QED BY <1>1, ServiceInvariant, PTL

-----------------------------------------------------------------------------
\* What the service keeps of the queue.

\* The node and the shutdown of main.go schedule the steps of the queue and
\* add none: the safety part of the queue's specification holds.
LEMMA ServiceIsQueue == ServiceSpec => Init /\ [][Next]_vars
<1>1. ServiceInit => Init
  BY DEF ServiceInit
<1>2. [ServiceNext]_allVars => [Next]_vars
  BY ServiceStepIsQueueStep
<1> QED BY <1>1, <1>2, PTL DEF ServiceSpec

\* With the handlers of jobs.go at work, a node that refuses and a shutdown
\* that may run out of time, the queue keeps every promise it makes on its own
\* (queue.go 48-210).
THEOREM ServiceKeepsPromises ==
    ServiceSpec => [](/\ OneRunPerJob /\ RecordMatchesRun /\ AttemptBudget
                      /\ NoLostWakeup /\ CancelsAreCurrent /\ DrainedIsQuiet
                      /\ CancelAnswerHolds)
<1>1. QueueInv => /\ OneRunPerJob /\ RecordMatchesRun /\ AttemptBudget
                  /\ NoLostWakeup /\ CancelsAreCurrent /\ DrainedIsQuiet
                  /\ CancelAnswerHolds
  BY QuietAfterDrain DEF QueueInv, Consistent, Ownership
<1> QED BY <1>1, ServiceIsQueue, QueueInvariant, PTL

\* No handler, drain or shutdown touches a job that has come to its end.
THEOREM ServiceTerminalRecordsAreFinal == ServiceSpec => TerminalIsFinal
BY TerminalStep, ServiceIsQueue, QueueInvariant, PTL DEF TerminalIsFinal

\* The whole service, its node and its shutdown included, implements the life
\* cycle of JobLifecycle.
THEOREM ServiceImplementsLifecycle == ServiceSpec => ImplementsLifecycle
BY ServiceIsQueue, LifecycleImplemented, PTL

-----------------------------------------------------------------------------
\* The streams of JobWatch.

\* Streams that have been opened ask for a job.
StreamTypes ==
    /\ wpc \in [Watchers -> {"new", "open", "ended", "refused", "lost"}]
    /\ watched \in [Watchers -> Jobs \cup {NoJob}]
    /\ last = [v \in Watchers |-> last[v]]
    /\ \A v \in Watchers : wpc[v] # "new" => watched[v] \in Jobs

\* Every step of the service beside its streams is a step of the service or a
\* stutter: the streams write nothing of it, and the wait of GracefulStop only
\* delays main.
LEMMA WatchStepIsServiceStep ==
    ASSUME [WatchNext]_watchedVars
    PROVE  [ServiceNext]_allVars
BY DEF WatchNext, watchedVars, StreamStep, Watch, WatchRefused, WatchLook, WatchLost

\* The service beside its streams is the service: everything proved of
\* ServiceSpec holds of WatchSpec.
THEOREM WatchedServiceIsService == WatchSpec => ServiceSpec
<1>1. WatchInit => ServiceInit
    BY DEF WatchInit
<1>2. [WatchNext]_watchedVars => [ServiceNext]_allVars
    BY WatchStepIsServiceStep
<1>3. WatchFairness => ServiceFairness
    BY PTL DEF WatchFairness
<1>4. QED BY <1>1, <1>2, <1>3, PTL DEF WatchSpec, ServiceSpec

\* No step changes the record of a job that is in a terminal state.
LEMMA VerdictStays ==
    ASSUME ServiceInv, [WatchNext]_watchedVars, NEW j \in Jobs, job[j].status \in Terminal
    PROVE  job'[j] = job[j]
<1>1. TypeOK /\ [Next]_vars
    BY WatchStepIsServiceStep, ServiceStepIsQueueStep DEF ServiceInv, QueueInv, Consistent
<1>2. QED BY <1>1, RecordMoves DEF Moves, Terminal, Cancellable

\* Every step keeps the types of the streams and what an ended one knows.
LEMMA NextVerdict ==
    ServiceInv /\ StreamTypes /\ WatchVerdict /\ [WatchNext]_watchedVars =>
        StreamTypes' /\ WatchVerdict'
<1> SUFFICES ASSUME ServiceInv, StreamTypes, WatchVerdict, [WatchNext]_watchedVars
             PROVE  StreamTypes' /\ WatchVerdict'
    OBVIOUS
<1> USE DEF StreamTypes
<1>1. CASE UNCHANGED watchVars
    <2>1. StreamTypes'
        BY <1>1 DEF watchVars
    <2>2. ASSUME NEW v \in Watchers, wpc[v] = "ended"
          PROVE  job'[watched[v]] = job[watched[v]]
        BY <2>2, VerdictStays DEF WatchVerdict
    <2>3. QED BY <1>1, <2>1, <2>2 DEF watchVars, WatchVerdict, State
<1>2. ASSUME NEW v \in Watchers,
             (\E j \in Jobs : Watch(v, j)) \/ WatchRefused(v) \/ WatchLost(v)
      PROVE  StreamTypes' /\ WatchVerdict'
    <2>1. /\ wpc'[v] # "ended" /\ UNCHANGED job
          /\ \A u \in Watchers \ {v} :
                wpc'[u] = wpc[u] /\ watched'[u] = watched[u] /\ last'[u] = last[u]
        BY <1>2 DEF Watch, WatchRefused, WatchLost, allVars, vars, storeVars
    <2>2. StreamTypes'
        BY <1>2 DEF Watch, WatchRefused, WatchLost
    <2>3. QED BY <2>1, <2>2 DEF WatchVerdict, State
<1>3. ASSUME NEW v \in Watchers, WatchLook(v)
      PROVE  StreamTypes' /\ WatchVerdict'
    <2>1. /\ UNCHANGED <<job, watched>>
          /\ last'[v] = State(watched[v])
          /\ wpc'[v] = "ended" => job[watched[v]].status \in Terminal
          /\ \A u \in Watchers \ {v} : wpc'[u] = wpc[u] /\ last'[u] = last[u]
        BY <1>3 DEF WatchLook, allVars, vars, storeVars
    <2>2. StreamTypes'
        BY <1>3 DEF WatchLook
    <2>3. QED BY <2>1, <2>2 DEF WatchVerdict, State
<1>4. CASE UNCHANGED watchedVars
    BY <1>1, <1>4 DEF watchedVars
<1>5. QED BY <1>1, <1>2, <1>3, <1>4 DEF WatchNext, StreamStep

\* A stream that the server ended has sent, last of all, the state its job is
\* in for good, whatever states it missed between two looks.
THEOREM WatchVerdictHolds == WatchSpec => []WatchVerdict
<1>1. WatchInit => StreamTypes /\ WatchVerdict
    BY DEF WatchInit, StreamTypes, WatchVerdict
<1>2. QED BY <1>1, NextVerdict, WatchedServiceIsService, ServiceInvariant, PTL DEF WatchSpec
=============================================================================
