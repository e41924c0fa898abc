------------------------------ MODULE JobQueue ------------------------------
(***************************************************************************)
(* The asynchronous job queue: internal/job/application/queue.go over the  *)
(* in-memory store of internal/job/infrastructure/memory.go.               *)
(*                                                                         *)
(* Each step is what the code does between two points where another        *)
(* goroutine can intervene: one store call (serialised by Memory.mu), one  *)
(* access to the cancels map (Queue.mu), one channel operation, or the     *)
(* return of a handler.  A run of a job is named by the job and the        *)
(* attempt number its claim gave it.                                       *)
(***************************************************************************)
EXTENDS Integers, FiniteSets

CONSTANTS
    Jobs,              \* job ids, each minted once by App.jobIDs
    Workers,           \* the goroutines started by Queue.run
    Cancellers,        \* concurrent calls of Queue.Cancel
    Kinds,             \* values of Job.Kind that clients send
    Handled,           \* the kinds with a registered handler
    Priorities,        \* values of Job.Priority that clients send
    Stamps,            \* readings of the clock at Enqueue
    RequestedMax,      \* values of Job.MaxAttempts that clients send
    QueueMaxAttempts,  \* the maxAttempts argument of NewQueue
    NoJob, NoKind      \* stand for the zero values of an id and a kind

ASSUME JobsAssumption     == NoJob \notin Jobs
ASSUME WorkersAssumption  == Workers # {} /\ IsFiniteSet(Workers)
ASSUME NumbersAssumption  ==
    /\ Priorities \subseteq Int
    /\ Stamps \subseteq Nat
    /\ RequestedMax \subseteq Int
    /\ QueueMaxAttempts \in Int

VARIABLES
    job,       \* Memory.jobs: job id -> record; status "absent" when not stored
    cancels,   \* Queue.cancels: job id -> attempt whose CancelFunc is stored, 0 if none
    wake,      \* is there a token in the channel Queue.wake (capacity 1)?
    unsent,    \* Enqueue calls between store.Create and the send on wake
    shut,      \* Shutdown: "open", "waiting", "drained" (nil), "expired" (ctx.Err)
    pc,        \* where each worker stands
    todo,      \* queued jobs of the worker's snapshot still to be looked at
    did,       \* the worker's local did
    cur,       \* the job the worker claimed
    run,       \* the attempt number in the worker's copy of the claimed job
    ctx,       \* the worker's jobCtx: "none", "live", "canceled"
    result,    \* what the handler returned
    cpc,       \* where each Cancel call stands
    target,    \* the id being canceled
    held,      \* the local cancel: attempt whose CancelFunc it is, 0 if nil
    answer     \* status of the local j, and of the job the call returned

storeVars  == <<job, cancels, wake, unsent, shut>>
workerVars == <<pc, todo, did, cur, run, ctx, result>>
cancelVars == <<cpc, target, held, answer>>
vars       == <<storeVars, workerVars, cancelVars>>

-----------------------------------------------------------------------------
(* Records and statuses. *)

Terminal == {"succeeded", "failed", "canceled", "dead"}
Statuses == {"absent", "queued", "running"} \cup Terminal
Results  == {"ok", "error", "interrupted"}
Errors   == {"", "no handler", "canceled by request", "handler error", "context canceled"}

JobRecord == [status   : Statuses,
              kind     : Kinds \cup {NoKind},
              attempt  : Nat,
              max      : Int,
              priority : Int,
              created  : Nat,
              error    : Errors]

NotStored == [status |-> "absent", kind |-> NoKind, attempt |-> 0, max |-> 0,
              priority |-> 0, created |-> 0, error |-> ""]

\* The default MaxAttempts the queue was built with.
DefaultMax == IF QueueMaxAttempts < 1 THEN 3 ELSE QueueMaxAttempts

EffectiveMax(m) == IF m = 0 THEN DefaultMax ELSE m

\* Broken forms (named Bug...) stand before the definition they would replace.

\* A claim that does not insist on a queued job.
BugClaimable == {"queued", "running"}

\* An outcome recorded over a cancellation.
BugFinishable == {"running", "canceled"}

\* The outcome expected on the wrong status.
BugFinishableQueued == {"queued"}

\* The statuses from which each compare-and-set of the code may move a job.
Claimable   == {"queued"}
Rejectable  == {"queued"}
Finishable  == {"running"}
Cancellable == {"queued", "running"}

\* A plain Update in place of the compare-and-set.
BugCompareAndSet(j, expected, next) == job' = [job EXCEPT ![j] = next]

\* Memory.CompareAndSet.
CompareAndSet(j, expected, next) ==
    job' = IF job[j].status \in expected THEN [job EXCEPT ![j] = next] ELSE job

\* Where a worker is between its claim of a job and the end of the job's pass.
Claimed     == {"claimed", "handler", "returned", "finalize"}
\* From the registration of the CancelFunc to its deletion.
Registered  == {"handler", "returned"}

closed == shut # "open"

-----------------------------------------------------------------------------
Init ==
    /\ job = [j \in Jobs |-> NotStored]
    /\ cancels = [j \in Jobs |-> 0]
    /\ wake = FALSE
    /\ unsent = {}
    /\ shut = "open"
    /\ pc = [w \in Workers |-> "top"]
    /\ todo = [w \in Workers |-> {}]
    /\ did = [w \in Workers |-> FALSE]
    /\ cur = [w \in Workers |-> NoJob]
    /\ run = [w \in Workers |-> 0]
    /\ ctx = [w \in Workers |-> "none"]
    /\ result = [w \in Workers |-> "ok"]
    /\ cpc = [c \in Cancellers |-> "idle"]
    /\ target = [c \in Cancellers |-> NoJob]
    /\ held = [c \in Cancellers |-> 0]
    /\ answer = [c \in Cancellers |-> "none"]

-----------------------------------------------------------------------------
(* Enqueue: the record is created, then the wake-up is sent. *)

Enqueue(j, k, p, t, m) ==
    /\ job[j].status = "absent"
    /\ job' = [job EXCEPT ![j] =
                 [status |-> "queued", kind |-> k, attempt |-> 0, max |-> EffectiveMax(m),
                  priority |-> p, created |-> t, error |-> ""]]
    /\ unsent' = unsent \cup {j}
    /\ UNCHANGED <<cancels, wake, shut, workerVars, cancelVars>>

\* A send that is forgotten.
BugEnqueueWake(j) ==
    /\ j \in unsent
    /\ unsent' = unsent \ {j}
    /\ UNCHANGED <<job, cancels, wake, shut, workerVars, cancelVars>>

\* The send that gives up when the channel already holds a token.
EnqueueWake(j) ==
    /\ j \in unsent
    /\ unsent' = unsent \ {j}
    /\ wake' = TRUE
    /\ UNCHANGED <<job, cancels, shut, workerVars, cancelVars>>

-----------------------------------------------------------------------------
(* The worker loop. *)

Goto(w, from, to) == pc[w] = from /\ pc' = [pc EXCEPT ![w] = to]

CheckClosed(w) ==
    /\ Goto(w, "top", IF closed THEN "exited" ELSE "list")
    /\ UNCHANGED <<storeVars, todo, did, cur, run, ctx, result, cancelVars>>

\* Snapshot of the store; only the jobs it shows as queued are looked at.
List(w) ==
    /\ Goto(w, "list", "scan")
    /\ todo' = [todo EXCEPT ![w] = {j \in Jobs : job[j].status = "queued"}]
    /\ did' = [did EXCEPT ![w] = FALSE]
    /\ UNCHANGED <<storeVars, cur, run, ctx, result, cancelVars>>

\* The order of sort.Slice.
Before(k, j) ==
    \/ job[k].priority > job[j].priority
    \/ job[k].priority = job[j].priority /\ job[k].created < job[j].created

Foremost(w) == {j \in todo[w] : \A k \in todo[w] : ~Before(k, j)}

\* The next job of the snapshot has no handler.
Reject(w, j) ==
    /\ pc[w] = "scan"
    /\ j \in Foremost(w)
    /\ job[j].kind \notin Handled
    /\ CompareAndSet(j, Rejectable, [job[j] EXCEPT !.status = "failed", !.error = "no handler"])
    /\ todo' = [todo EXCEPT ![w] = @ \ {j}]
    /\ UNCHANGED <<cancels, wake, unsent, shut, pc, did, cur, run, ctx, result, cancelVars>>

\* The compare-and-set that claims the next job of the snapshot succeeds.
Claim(w, j) ==
    /\ Goto(w, "scan", "claimed")
    /\ j \in Foremost(w)
    /\ job[j].kind \in Handled
    /\ job[j].status \in Claimable
    /\ job' = [job EXCEPT ![j].status = "running", ![j].attempt = @ + 1]
    /\ todo' = [todo EXCEPT ![w] = @ \ {j}]
    /\ cur' = [cur EXCEPT ![w] = j]
    /\ run' = [run EXCEPT ![w] = job[j].attempt + 1]
    /\ UNCHANGED <<cancels, wake, unsent, shut, did, ctx, result, cancelVars>>

\* The claim fails: since the snapshot the job was claimed or canceled.
ClaimRefused(w, j) ==
    /\ pc[w] = "scan"
    /\ j \in Foremost(w)
    /\ job[j].kind \in Handled
    /\ job[j].status \notin Claimable
    /\ todo' = [todo EXCEPT ![w] = @ \ {j}]
    /\ UNCHANGED <<storeVars, pc, did, cur, run, ctx, result, cancelVars>>

\* A worker that waits although its own run may have queued a job again.
BugEndPass(w) ==
    /\ Goto(w, "scan", "idle")
    /\ todo[w] = {}
    /\ did' = [did EXCEPT ![w] = FALSE]
    /\ UNCHANGED <<storeVars, todo, cur, run, ctx, result, cancelVars>>

\* The snapshot is exhausted: list again if a handler ran, otherwise wait.
EndPass(w) ==
    /\ Goto(w, "scan", IF did[w] THEN "top" ELSE "idle")
    /\ todo[w] = {}
    /\ did' = [did EXCEPT ![w] = FALSE]
    /\ UNCHANGED <<storeVars, todo, cur, run, ctx, result, cancelVars>>

\* jobCtx is created and its CancelFunc stored; the handler is entered.
RegisterCancel(w) ==
    /\ Goto(w, "claimed", "handler")
    /\ cancels' = [cancels EXCEPT ![cur[w]] = run[w]]
    /\ ctx' = [ctx EXCEPT ![w] = "live"]
    /\ UNCHANGED <<job, wake, unsent, shut, todo, did, cur, run, result, cancelVars>>

\* The handler returns.  It may report ctx.Err() only once the context is done.
HandlerReturn(w, r) ==
    /\ Goto(w, "handler", "returned")
    /\ r = "interrupted" => ctx[w] = "canceled"
    /\ result' = [result EXCEPT ![w] = r]
    /\ UNCHANGED <<storeVars, todo, did, cur, run, ctx, cancelVars>>

\* A CancelFunc left in the map.
BugDropCancel(w) ==
    /\ Goto(w, "returned", "finalize")
    /\ ctx' = [ctx EXCEPT ![w] = "none"]
    /\ UNCHANGED <<storeVars, todo, did, cur, run, result, cancelVars>>

\* The CancelFunc is deleted from the map, then called.
DropCancel(w) ==
    /\ Goto(w, "returned", "finalize")
    /\ cancels' = [cancels EXCEPT ![cur[w]] = 0]
    /\ ctx' = [ctx EXCEPT ![w] = "none"]
    /\ UNCHANGED <<job, wake, unsent, shut, todo, did, cur, run, result, cancelVars>>

\* One attempt too many.
BugFinalRecord(j, r) ==
    IF r = "ok"
    THEN [job[j] EXCEPT !.status = "succeeded", !.error = ""]
    ELSE [job[j] EXCEPT !.status = IF job[j].attempt > job[j].max THEN "dead" ELSE "queued",
                        !.error  = IF r = "error" THEN "handler error" ELSE "context canceled"]

FinalRecord(j, r) ==
    IF r = "ok"
    THEN [job[j] EXCEPT !.status = "succeeded", !.error = ""]
    ELSE [job[j] EXCEPT !.status = IF job[j].attempt >= job[j].max THEN "dead" ELSE "queued",
                        !.error  = IF r = "error" THEN "handler error" ELSE "context canceled"]

\* The compare-and-set that records the outcome.
Finalize(w) ==
    /\ Goto(w, "finalize", "scan")
    /\ CompareAndSet(cur[w], Finishable, FinalRecord(cur[w], result[w]))
    /\ did' = [did EXCEPT ![w] = TRUE]
    /\ cur' = [cur EXCEPT ![w] = NoJob]
    /\ run' = [run EXCEPT ![w] = 0]
    /\ result' = [result EXCEPT ![w] = "ok"]
    /\ UNCHANGED <<cancels, wake, unsent, shut, todo, ctx, cancelVars>>

(* The three arms of the select of an idle worker. *)

WakeUp(w) ==
    /\ Goto(w, "idle", "top")
    /\ wake
    /\ wake' = FALSE
    /\ UNCHANGED <<job, cancels, unsent, shut, todo, did, cur, run, ctx, result, cancelVars>>

PollTimeout(w) ==
    /\ Goto(w, "idle", "top")
    /\ UNCHANGED <<storeVars, todo, did, cur, run, ctx, result, cancelVars>>

\* An idle worker that does not watch closed.
BugIdleClosed(w) == FALSE

IdleClosed(w) ==
    /\ Goto(w, "idle", "exited")
    /\ closed
    /\ UNCHANGED <<storeVars, todo, did, cur, run, ctx, result, cancelVars>>

-----------------------------------------------------------------------------
(* Cancel: read the job, look its CancelFunc up, call it, mark the record. *)

\* The early return is missing.
BugCancelGet(c, j) ==
    /\ cpc[c] = "idle"
    /\ job[j].status # "absent"
    /\ cpc' = [cpc EXCEPT ![c] = "lookup"]
    /\ target' = [target EXCEPT ![c] = j]
    /\ answer' = [answer EXCEPT ![c] = job[j].status]
    /\ UNCHANGED <<storeVars, workerVars, held>>

\* A job that is neither queued nor running is returned as it is.
CancelGet(c, j) ==
    /\ cpc[c] = "idle"
    /\ job[j].status # "absent"
    /\ cpc' = [cpc EXCEPT ![c] = IF job[j].status \in Cancellable THEN "lookup" ELSE "idle"]
    /\ target' = [target EXCEPT ![c] = j]
    /\ answer' = [answer EXCEPT ![c] = job[j].status]
    /\ UNCHANGED <<storeVars, workerVars, held>>

CancelLookup(c) ==
    /\ cpc[c] = "lookup"
    /\ held' = [held EXCEPT ![c] = cancels[target[c]]]
    /\ cpc' = [cpc EXCEPT ![c] = IF cancels[target[c]] = 0 THEN "mark" ELSE "fire"]
    /\ UNCHANGED <<storeVars, workerVars, target, answer>>

\* cancel() reaches the context it was made with, and no other.
CancelFire(c) ==
    /\ cpc[c] = "fire"
    /\ ctx' = [w \in Workers |->
                 IF ctx[w] = "live" /\ cur[w] = target[c] /\ run[w] = held[c]
                 THEN "canceled" ELSE ctx[w]]
    /\ cpc' = [cpc EXCEPT ![c] = "mark"]
    /\ held' = [held EXCEPT ![c] = 0]
    /\ UNCHANGED <<storeVars, pc, todo, did, cur, run, result, target, answer>>

CancelMark(c) ==
    LET j == target[c] IN
    /\ cpc[c] = "mark"
    /\ CompareAndSet(j, Cancellable,
                     [job[j] EXCEPT !.status = "canceled", !.error = "canceled by request"])
    /\ IF job[j].status \in Cancellable
       THEN /\ cpc' = [cpc EXCEPT ![c] = "idle"]
            /\ answer' = [answer EXCEPT ![c] = "canceled"]
       ELSE /\ cpc' = [cpc EXCEPT ![c] = "reread"]
            /\ UNCHANGED answer
    /\ UNCHANGED <<cancels, wake, unsent, shut, workerVars, target, held>>

\* The request's context is done before the compare-and-set: an error.
CancelMarkFails(c) ==
    /\ cpc[c] = "mark"
    /\ cpc' = [cpc EXCEPT ![c] = "idle"]
    /\ answer' = [answer EXCEPT ![c] = "none"]
    /\ UNCHANGED <<storeVars, workerVars, target, held>>

CancelReread(c) ==
    /\ cpc[c] = "reread"
    /\ cpc' = [cpc EXCEPT ![c] = "idle"]
    /\ answer' = [answer EXCEPT ![c] = job[target[c]].status]
    /\ UNCHANGED <<storeVars, workerVars, target, held>>

\* The context is done before the second Get: the first record is returned.
CancelRereadFails(c) ==
    /\ cpc[c] = "reread"
    /\ cpc' = [cpc EXCEPT ![c] = "idle"]
    /\ UNCHANGED <<storeVars, workerVars, target, held, answer>>

-----------------------------------------------------------------------------
(* Shutdown: close the channel, wait for every worker or for the context. *)

Shutdown ==
    /\ shut = "open"
    /\ shut' = "waiting"
    /\ UNCHANGED <<job, cancels, wake, unsent, workerVars, cancelVars>>

\* A Shutdown that does not wait for the workers inside a handler.
BugShutdownDone ==
    /\ shut = "waiting"
    /\ \A w \in Workers : pc[w] \in {"exited", "handler"}
    /\ shut' = "drained"
    /\ UNCHANGED <<job, cancels, wake, unsent, workerVars, cancelVars>>

\* Queue.run closes done once the WaitGroup is empty.
ShutdownDone ==
    /\ shut = "waiting"
    /\ \A w \in Workers : pc[w] = "exited"
    /\ shut' = "drained"
    /\ UNCHANGED <<job, cancels, wake, unsent, workerVars, cancelVars>>

ShutdownExpires ==
    /\ shut = "waiting"
    /\ shut' = "expired"
    /\ UNCHANGED <<job, cancels, wake, unsent, workerVars, cancelVars>>

-----------------------------------------------------------------------------
EnqueueStep ==
    \/ \E j \in Jobs, k \in Kinds, p \in Priorities, t \in Stamps, m \in RequestedMax :
          Enqueue(j, k, p, t, m)
    \/ \E j \in Jobs : EnqueueWake(j)

ScanStep(w) ==
    \/ CheckClosed(w) \/ List(w) \/ EndPass(w)
    \/ \E j \in todo[w] : Reject(w, j) \/ Claim(w, j) \/ ClaimRefused(w, j)
    \/ WakeUp(w) \/ IdleClosed(w)

\* The worker's own code around the handler, without the polling timer.
QueueStep(w) == ScanStep(w) \/ RegisterCancel(w) \/ DropCancel(w) \/ Finalize(w)

WorkerStep(w) == QueueStep(w) \/ \E r \in Results : HandlerReturn(w, r)

CancelStep(c) ==
    \/ \E j \in Jobs : CancelGet(c, j)
    \/ CancelLookup(c) \/ CancelFire(c)
    \/ CancelMark(c) \/ CancelMarkFails(c)
    \/ CancelReread(c) \/ CancelRereadFails(c)

ShutdownStep == Shutdown \/ ShutdownDone \/ ShutdownExpires

Next ==
    \/ EnqueueStep
    \/ \E w \in Workers : WorkerStep(w) \/ PollTimeout(w)
    \/ \E c \in Cancellers : CancelStep(c)
    \/ ShutdownStep

(* Goroutines are scheduled fairly and the registered handlers return.  The *)
(* polling timer is not counted on: progress must come from the wake-ups.   *)
Fairness ==
    /\ \A w \in Workers : WF_vars(WorkerStep(w))
    /\ \A j \in Jobs : WF_vars(EnqueueWake(j))
    /\ WF_vars(ShutdownDone)

Spec == Init /\ [][Next]_vars /\ Fairness
-----------------------------------------------------------------------------
(* Properties. *)

\* Every variable holds a value of its type; a worker that claimed a job knows
\* which job and which attempt, and a Cancel call under way which job it found.
TypeOK ==
    /\ job \in [Jobs -> JobRecord]
    /\ cancels \in [Jobs -> Nat]
    /\ wake \in BOOLEAN
    /\ unsent \subseteq Jobs
    /\ shut \in {"open", "waiting", "drained", "expired"}
    /\ pc \in [Workers -> {"top", "list", "scan", "idle", "exited"} \cup Claimed]
    /\ todo \in [Workers -> SUBSET Jobs]
    /\ did \in [Workers -> BOOLEAN]
    /\ cur \in [Workers -> Jobs \cup {NoJob}]
    /\ run \in [Workers -> Nat]
    /\ ctx \in [Workers -> {"none", "live", "canceled"}]
    /\ result \in [Workers -> Results]
    /\ cpc \in [Cancellers -> {"idle", "lookup", "fire", "mark", "reread"}]
    /\ target \in [Cancellers -> Jobs \cup {NoJob}]
    /\ held \in [Cancellers -> Nat]
    /\ answer \in [Cancellers -> Statuses \cup {"none"}]
    /\ \A w \in Workers : pc[w] \in Claimed => cur[w] \in Jobs /\ run[w] > 0
    /\ \A c \in Cancellers : answer[c] # "none" => target[c] \in Jobs
    /\ \A c \in Cancellers : cpc[c] # "idle" => answer[c] \in Cancellable

\* Worker w is in possession of a run of job j.
Busy(w, j) == pc[w] \in Claimed /\ cur[w] = j

\* Two workers never hold the same job: "this prevents two workers from
\* picking up the same job" (queue.go, the comment on the claim).
OneRunPerJob ==
    \A v, w \in Workers, j \in Jobs : Busy(v, j) /\ Busy(w, j) => v = w

\* The record and the run in progress agree.  A job recorded as running is in
\* some worker's hands, and the record of a job in a worker's hands still
\* carries that run's attempt and says running, or canceled if a Cancel
\* overtook the run; it is never queued again under a run, nor finished.
RecordMatchesRun ==
    /\ \A j \in Jobs : job[j].status = "running" => \E w \in Workers : Busy(w, j)
    /\ \A w \in Workers : pc[w] \in Claimed =>
          /\ job[cur[w]].attempt = run[w]
          /\ job[cur[w]].status \in {"running", "canceled"}

\* The cancels map holds the CancelFunc of exactly the runs that can use it:
\* no entry outlives its run, no run loses its entry to another one's
\* registration or deletion.
CancelsAreCurrent ==
    /\ \A w \in Workers : pc[w] \in Registered => cancels[cur[w]] = run[w]
    /\ \A j \in Jobs : cancels[j] # 0 =>
          \E w \in Workers : pc[w] \in Registered /\ cur[w] = j /\ run[w] = cancels[j]

\* A job is run at most MaxAttempts times (once when a client asked for a
\* negative number), becomes dead exactly when they are used up, and is never
\* left waiting for an attempt it does not have.
AttemptBudget ==
    \A j \in Jobs :
        LET budget == IF job[j].max < 1 THEN 1 ELSE job[j].max IN
        /\ job[j].attempt <= budget
        /\ job[j].status = "dead" => job[j].attempt = budget
        /\ job[j].status = "queued" => job[j].attempt < budget

\* Worker w will list the store again, or still look at j, before it waits.
WillLookAt(w, j) ==
    \/ pc[w] \in {"top", "list"} \cup Claimed
    \/ pc[w] = "scan" /\ (did[w] \/ j \in todo[w])

\* While the queue is open a queued job is never forgotten: a wake-up for it
\* is in the channel or about to be sent, or some worker will look at it
\* without being woken by the polling timer.
NoLostWakeup ==
    \A j \in Jobs : job[j].status = "queued" /\ ~closed =>
        wake \/ j \in unsent \/ \E w \in Workers : WillLookAt(w, j)

\* When Shutdown has returned nil nothing is left half done: no job is
\* recorded as running and no CancelFunc is left in the map.
DrainedIsQuiet ==
    shut = "drained" =>
        \A j \in Jobs : job[j].status # "running" /\ cancels[j] = 0

\* What Cancel answered stays true: a job it reported in a terminal state is
\* in that state whatever the run it overtook, a retry or another Cancel did.
CancelAnswerHolds ==
    \A c \in Cancellers : cpc[c] = "idle" /\ answer[c] \in Terminal =>
        job[target[c]].status = answer[c]

\* A record in a terminal state never changes again: a late Finalize, claim or
\* rejection "leaves that terminal state intact" (queue.go, on Finalize).
TerminalIsFinal ==
    [][\A j \in Jobs : job[j].status \in Terminal => job'[j] = job[j]]_vars

\* Every job accepted by an open queue reaches a terminal state unless the
\* queue is shut down: wake-ups alone carry every job through every retry.
EveryJobSettles ==
    \A j \in Jobs : job[j].status = "queued" ~> job[j].status \in Terminal \/ closed

\* Shutdown returns, by its own waiting or by its context, and all workers exit.
ShutdownCompletes ==
    closed ~> shut # "waiting" /\ \A w \in Workers : pc[w] = "exited"

\* README.md:26: a cancel request cancels a queued or running job.  Read of the
\* handler: once Cancel has reported the job canceled, no handler runs it on
\* with a context nobody has canceled.
CancelStopsTheRun ==
    \A c \in Cancellers : cpc[c] = "idle" /\ answer[c] = "canceled" =>
        ~\E w \in Workers :
            pc[w] = "handler" /\ cur[w] = target[c] /\ ctx[w] = "live"

\* README.md:26: a canceled job is canceled, and dead is for repeated failures.
\* Read of the record: no job is dead because its run was interrupted.
InterruptedIsNotDead ==
    \A j \in Jobs : job[j].status = "dead" => job[j].error # "context canceled"

\* The queue as its clients see it: a run is in progress from the claim to the
\* compare-and-set that records its outcome.
Lifecycle == INSTANCE JobLifecycle WITH
    Budgets <- {EffectiveMax(m) : m \in RequestedMax},
    status  <- [j \in Jobs |-> job[j].status],
    budget  <- [j \in Jobs |-> job[j].max],
    starts  <- [j \in Jobs |-> job[j].attempt],
    serving <- {j \in Jobs : \E w \in Workers : Busy(w, j)}

\* Every behaviour of the queue is a behaviour of JobLifecycle: whatever the
\* interleaving of workers and Cancel calls, each job follows the life cycle.
ImplementsLifecycle == Lifecycle!Spec
=============================================================================
