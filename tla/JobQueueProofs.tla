--------------------------- MODULE JobQueueProofs ---------------------------
(***************************************************************************)
(* Proofs about JobQueue, for every set of jobs, workers and Cancel calls  *)
(* and every value of the numeric parameters.                              *)
(***************************************************************************)
EXTENDS JobQueue, TLAPS

\* The default number of attempts is a positive number.
LEMMA DefaultMaxPositive == DefaultMax \in Nat \ {0}
BY NumbersAssumption DEF DefaultMax

\* A compare-and-set that would store a job record keeps the store well typed.
LEMMA CompareAndSetType ==
    ASSUME NEW j \in Jobs, NEW expected, NEW next,
           job \in [Jobs -> JobRecord],
           job[j].status \in expected => next \in JobRecord,
           CompareAndSet(j, expected, next)
    PROVE  job' \in [Jobs -> JobRecord]
BY DEF CompareAndSet

\* Updating the status and the error of a job record gives a job record.
LEMMA RecordUpdate ==
    ASSUME NEW r \in JobRecord, NEW s \in Statuses, NEW e \in Errors
    PROVE  [r EXCEPT !.status = s, !.error = e] \in JobRecord
BY DEF JobRecord

\* The type invariant holds initially.
LEMMA InitType == Init => TypeOK
<1>1. "absent" \in Statuses /\ "" \in Errors /\ 0 \in Nat /\ 0 \in Int
    BY DEF Statuses, Errors
<1>2. NotStored \in JobRecord
    BY <1>1 DEF NotStored, JobRecord
<1>3. ASSUME Init PROVE job \in [Jobs -> JobRecord]
    BY <1>2, <1>3 DEF Init
<1>4. ASSUME Init PROVE todo \in [Workers -> SUBSET Jobs]
    BY <1>4 DEF Init
<1>5. ASSUME Init PROVE pc \in [Workers -> {"top", "list", "scan", "idle", "exited"} \cup Claimed]
    BY <1>5 DEF Init
<1>6. ASSUME Init PROVE \A w \in Workers : pc[w] \notin Claimed
    BY <1>6 DEF Init, Claimed
<1>7. ASSUME Init PROVE cpc = [c \in Cancellers |-> "idle"] /\ answer = [c \in Cancellers |-> "none"]
    BY <1>7 DEF Init
<1>8. ASSUME Init
      PROVE  /\ cancels \in [Jobs -> Nat] /\ wake \in BOOLEAN /\ unsent \subseteq Jobs
             /\ shut \in {"open", "waiting", "drained", "expired"}
    BY <1>8 DEF Init
<1>9. ASSUME Init
      PROVE  /\ did \in [Workers -> BOOLEAN] /\ cur \in [Workers -> Jobs \cup {NoJob}]
             /\ run \in [Workers -> Nat] /\ ctx \in [Workers -> {"none", "live", "canceled"}]
             /\ result \in [Workers -> Results]
    BY <1>9 DEF Init, Results
<1>10. ASSUME Init
       PROVE  /\ target \in [Cancellers -> Jobs \cup {NoJob}] /\ held \in [Cancellers -> Nat]
              /\ answer \in [Cancellers -> Statuses \cup {"none"}]
    BY <1>10 DEF Init
<1> QED
    BY <1>3, <1>4, <1>5, <1>6, <1>7, <1>8, <1>9, <1>10 DEF TypeOK

\* The record a run leaves is a job record.
LEMMA FinalRecordType ==
    ASSUME TypeOK, NEW j \in Jobs, NEW r \in Results
    PROVE  FinalRecord(j, r) \in JobRecord
<1>1. job[j] \in JobRecord
    BY DEF TypeOK
<1>2. {"succeeded", "dead", "queued"} \subseteq Statuses
    BY DEF Statuses, Terminal
<1>3. {"", "handler error", "context canceled"} \subseteq Errors
    BY DEF Errors
<1>4. CASE r = "ok"
    BY <1>1, <1>2, <1>3, <1>4, RecordUpdate DEF FinalRecord
<1>5. CASE r # "ok"
    <2> DEFINE s == IF job[j].attempt >= job[j].max THEN "dead" ELSE "queued"
               e == IF r = "error" THEN "handler error" ELSE "context canceled"
    <2>1. s \in Statuses /\ e \in Errors
        BY <1>2, <1>3
    <2>2. [job[j] EXCEPT !.status = s, !.error = e] \in JobRecord
        <3> HIDE DEF s, e
        <3> QED BY <1>1, <2>1, RecordUpdate
    <2> QED
        BY <1>5, <2>2 DEF FinalRecord
<1> QED
    BY <1>4, <1>5

\* A claimed job is a record too.
LEMMA ClaimType ==
    ASSUME NEW j \in Jobs, job \in [Jobs -> JobRecord],
           job' = [job EXCEPT ![j].status = "running", ![j].attempt = @ + 1]
    PROVE  job' \in [Jobs -> JobRecord]
<1> DEFINE next == [job[j] EXCEPT !.status = "running", !.attempt = @ + 1]
<1>1. job[j].attempt \in Nat /\ "running" \in Statuses
    BY DEF JobRecord, Statuses
<1>2. next \in JobRecord
    BY <1>1 DEF JobRecord
<1>3. job' = [job EXCEPT ![j] = next]
    OBVIOUS
<1> HIDE DEF next
<1> QED
    BY <1>2, <1>3

\* Every step preserves the type invariant.
LEMMA NextType == TypeOK /\ [Next]_vars => TypeOK'
<1> SUFFICES ASSUME TypeOK, [Next]_vars PROVE TypeOK'
    OBVIOUS
<1> USE DEF TypeOK, Claimed, Goto, storeVars, workerVars, cancelVars
<1>1. ASSUME NEW j \in Jobs, NEW k \in Kinds, NEW p \in Priorities, NEW t \in Stamps,
             NEW m \in RequestedMax, Enqueue(j, k, p, t, m)
      PROVE  TypeOK'
    <2>1. EffectiveMax(m) \in Int
        BY DefaultMaxPositive, NumbersAssumption DEF EffectiveMax
    <2>2. "queued" \in Statuses /\ "" \in Errors /\ p \in Int /\ t \in Nat /\ 0 \in Nat
        BY NumbersAssumption DEF Statuses, Errors
    <2>3. [status |-> "queued", kind |-> k, attempt |-> 0, max |-> EffectiveMax(m),
           priority |-> p, created |-> t, error |-> ""] \in JobRecord
        BY <2>1, <2>2 DEF JobRecord
    <2> QED
        BY <1>1, <2>3 DEF Enqueue
<1>2. ASSUME NEW j \in Jobs, EnqueueWake(j) PROVE TypeOK'
    BY <1>2 DEF EnqueueWake
<1>3. ASSUME NEW w \in Workers, CheckClosed(w) PROVE TypeOK'
    BY <1>3 DEF CheckClosed
<1>4. ASSUME NEW w \in Workers, List(w) PROVE TypeOK'
    BY <1>4 DEF List
<1>5. ASSUME NEW w \in Workers, NEW j \in todo[w], Reject(w, j) PROVE TypeOK'
    <2>1. j \in Jobs
        OBVIOUS
    <2>2. [job[j] EXCEPT !.status = "failed", !.error = "no handler"] \in JobRecord
        BY <2>1, RecordUpdate DEF Statuses, Terminal, Errors
    <2>3. job' \in [Jobs -> JobRecord]
        BY <1>5, <2>1, <2>2, CompareAndSetType DEF Reject
    <2> QED
        BY <1>5, <2>3 DEF Reject
<1>6. ASSUME NEW w \in Workers, NEW j \in todo[w], Claim(w, j) PROVE TypeOK'
    <2>1. j \in Jobs /\ job[j].attempt \in Nat
        BY DEF JobRecord
    <2>2. job' \in [Jobs -> JobRecord]
        BY <1>6, <2>1, ClaimType DEF Claim
    <2> QED
        BY <1>6, <2>1, <2>2 DEF Claim
<1>7. ASSUME NEW w \in Workers, NEW j \in todo[w], ClaimRefused(w, j) PROVE TypeOK'
    BY <1>7 DEF ClaimRefused
<1>8. ASSUME NEW w \in Workers, EndPass(w) PROVE TypeOK'
    BY <1>8 DEF EndPass
<1>9. ASSUME NEW w \in Workers, RegisterCancel(w) PROVE TypeOK'
    BY <1>9 DEF RegisterCancel
<1>10. ASSUME NEW w \in Workers, NEW r \in Results, HandlerReturn(w, r) PROVE TypeOK'
    BY <1>10 DEF HandlerReturn
<1>11. ASSUME NEW w \in Workers, DropCancel(w) PROVE TypeOK'
    BY <1>11 DEF DropCancel
<1>12. ASSUME NEW w \in Workers, Finalize(w) PROVE TypeOK'
    <2>1. cur[w] \in Jobs /\ result[w] \in Results
        BY <1>12 DEF Finalize
    <2>2. job' \in [Jobs -> JobRecord]
        BY <1>12, <2>1, FinalRecordType, CompareAndSetType DEF Finalize
    <2> QED
        BY <1>12, <2>2 DEF Finalize, Results
<1>13. ASSUME NEW w \in Workers, WakeUp(w) PROVE TypeOK'
    BY <1>13 DEF WakeUp
<1>14. ASSUME NEW w \in Workers, PollTimeout(w) PROVE TypeOK'
    BY <1>14 DEF PollTimeout
<1>15. ASSUME NEW w \in Workers, IdleClosed(w) PROVE TypeOK'
    BY <1>15 DEF IdleClosed
<1>16. ASSUME NEW c \in Cancellers, NEW j \in Jobs, CancelGet(c, j) PROVE TypeOK'
    <2>1. job[j].status \in Statuses
        BY DEF JobRecord
    <2> QED
        BY <1>16, <2>1 DEF CancelGet, Statuses
<1>17. ASSUME NEW c \in Cancellers, CancelLookup(c) PROVE TypeOK'
    <2>1. target[c] \in Jobs /\ answer[c] \in Cancellable
        BY <1>17 DEF CancelLookup, Cancellable
    <2> QED
        BY <1>17, <2>1 DEF CancelLookup
<1>18. ASSUME NEW c \in Cancellers, CancelFire(c) PROVE TypeOK'
    BY <1>18 DEF CancelFire
<1>19. ASSUME NEW c \in Cancellers, CancelMark(c) PROVE TypeOK'
    <2>1. target[c] \in Jobs
        BY <1>19 DEF CancelMark, Cancellable
    <2>2. [job[target[c]] EXCEPT !.status = "canceled", !.error = "canceled by request"]
             \in JobRecord
        BY <2>1, RecordUpdate DEF Statuses, Terminal, Errors
    <2>3. job' \in [Jobs -> JobRecord]
        BY <1>19, <2>1, <2>2, CompareAndSetType DEF CancelMark
    <2> QED
        BY <1>19, <2>1, <2>3 DEF CancelMark, Statuses, Terminal
<1>20. ASSUME NEW c \in Cancellers, CancelMarkFails(c) PROVE TypeOK'
    BY <1>20 DEF CancelMarkFails
<1>21. ASSUME NEW c \in Cancellers, CancelReread(c) PROVE TypeOK'
    <2>1. target[c] \in Jobs
        BY <1>21 DEF CancelReread, Cancellable
    <2>2. job[target[c]].status \in Statuses
        BY <2>1 DEF JobRecord
    <2> QED
        BY <1>21, <2>1, <2>2 DEF CancelReread
<1>22. ASSUME NEW c \in Cancellers, CancelRereadFails(c) PROVE TypeOK'
    BY <1>22 DEF CancelRereadFails
<1>23. CASE ShutdownStep
    BY <1>23 DEF ShutdownStep, Shutdown, ShutdownDone, ShutdownExpires
<1>24. CASE UNCHANGED vars
    BY <1>24 DEF vars
<1> QED
    BY <1>1, <1>2, <1>3, <1>4, <1>5, <1>6, <1>7, <1>8, <1>9, <1>10, <1>11, <1>12, <1>13,
       <1>14, <1>15, <1>16, <1>17, <1>18, <1>19, <1>20, <1>21, <1>22, <1>23, <1>24
    DEF Next, EnqueueStep, WorkerStep, QueueStep, ScanStep, CancelStep

-----------------------------------------------------------------------------
(* Ownership: at most one run per job, and the record agrees with it. *)

Ownership == OneRunPerJob /\ RecordMatchesRun

\* A step that leaves the records and the claims alone leaves ownership alone.
LEMMA OwnershipFrame ==
    ASSUME TypeOK, Ownership, UNCHANGED <<job, cur, run>>,
           \A w \in Workers : pc'[w] \in Claimed <=> pc[w] \in Claimed
    PROVE  Ownership'
BY DEF Ownership, OneRunPerJob, RecordMatchesRun, Busy

\* So does a step that moves one record, of a job nobody runs or from running to
\* canceled, and no worker.
LEMMA OwnershipRecord ==
    ASSUME TypeOK, Ownership, UNCHANGED <<pc, cur, run>>,
           NEW j \in Jobs, NEW next, job' = [job EXCEPT ![j] = next],
           next.status # "running",
           job[j].status = "running" => next.status = "canceled",
           job[j].status = "canceled" => next.status = "canceled",
           next.attempt = job[j].attempt \/ job[j].status \notin {"running", "canceled"}
    PROVE  Ownership'
<1>1. job \in [Jobs -> JobRecord] /\ cur \in [Workers -> Jobs \cup {NoJob}]
    BY DEF TypeOK
<1>2. OneRunPerJob'
    BY DEF Ownership, OneRunPerJob, Busy
<1>3. \A k \in Jobs : job'[k] = IF k = j THEN next ELSE job[k]
    BY <1>1
<1>4. ASSUME NEW k \in Jobs, job'[k].status = "running" PROVE \E w \in Workers : Busy(w, k)'
    BY <1>3, <1>4 DEF Ownership, RecordMatchesRun, Busy
<1>5. ASSUME NEW w \in Workers, pc'[w] \in Claimed
      PROVE  job'[cur'[w]].attempt = run'[w] /\ job'[cur'[w]].status \in {"running", "canceled"}
    <2>1. cur[w] \in Jobs
        BY <1>5 DEF TypeOK
    <2> QED
        BY <1>3, <1>5, <2>1 DEF Ownership, RecordMatchesRun
<1> QED
    BY <1>2, <1>4, <1>5 DEF Ownership, RecordMatchesRun

\* Nobody runs a job that is not running or canceled.
LEMMA UnclaimedJob ==
    ASSUME Ownership, NEW j \in Jobs, job[j].status \notin {"running", "canceled"}
    PROVE  \A w \in Workers : ~Busy(w, j)
BY DEF Ownership, RecordMatchesRun, Busy

\* Initially nobody holds a job.
LEMMA InitOwnership == Init => Ownership
<1> SUFFICES ASSUME Init PROVE Ownership
    OBVIOUS
<1>1. \A w \in Workers : pc[w] \notin Claimed
    BY DEF Init, Claimed
<1>2. \A j \in Jobs : job[j].status = "absent"
    BY DEF Init, NotStored
<1> QED
    BY <1>1, <1>2 DEF Ownership, OneRunPerJob, RecordMatchesRun, Busy

\* Every step preserves ownership.
LEMMA NextOwnership == TypeOK /\ Ownership /\ [Next]_vars => Ownership'
<1> SUFFICES ASSUME TypeOK, Ownership, [Next]_vars PROVE Ownership'
    OBVIOUS
<1> USE DEF Goto, storeVars, workerVars, cancelVars
<1>0. /\ job \in [Jobs -> JobRecord] /\ pc \in [Workers -> {"top", "list", "scan", "idle", "exited"} \cup Claimed]
      /\ todo \in [Workers -> SUBSET Jobs]
      /\ cur \in [Workers -> Jobs \cup {NoJob}] /\ run \in [Workers -> Nat]
    BY DEF TypeOK
<1>1. ASSUME NEW j \in Jobs, NEW k \in Kinds, NEW p \in Priorities, NEW t \in Stamps,
             NEW m \in RequestedMax, Enqueue(j, k, p, t, m)
      PROVE  Ownership'
    <2> DEFINE next == [status |-> "queued", kind |-> k, attempt |-> 0, max |-> EffectiveMax(m),
                        priority |-> p, created |-> t, error |-> ""]
    <2>1. /\ job[j].status = "absent" /\ job' = [job EXCEPT ![j] = next]
          /\ UNCHANGED <<pc, cur, run>>
        BY <1>1 DEF Enqueue
    <2>2. next.status = "queued"
        OBVIOUS
    <2> HIDE DEF next
    <2> QED
        BY <2>1, <2>2, OwnershipRecord
<1>2. ASSUME NEW w \in Workers, NEW j \in todo[w], Reject(w, j) PROVE Ownership'
    <2>1. j \in Jobs
        BY <1>0
    <2>2. CASE job[j].status = "queued"
        <3> DEFINE next == [job[j] EXCEPT !.status = "failed", !.error = "no handler"]
        <3>1. next.status = "failed" /\ job' = [job EXCEPT ![j] = next]
            BY <1>2, <2>1, <2>2, <1>0 DEF Reject, CompareAndSet, Rejectable, JobRecord
        <3> QED
            BY <1>2, <2>1, <2>2, <3>1, OwnershipRecord DEF Reject
    <2>3. CASE job[j].status # "queued"
        BY <1>2, <2>3, OwnershipFrame DEF Reject, CompareAndSet, Rejectable
    <2> QED
        BY <2>2, <2>3
<1>3. ASSUME NEW w \in Workers, NEW j \in todo[w], Claim(w, j) PROVE Ownership'
    <2>1. j \in Jobs /\ job[j].status = "queued" /\ job[j] \in JobRecord
        BY <1>0, <1>3 DEF Claim, Claimable
    <2>2. \A v \in Workers : ~Busy(v, j)
        BY <2>1, UnclaimedJob
    <2>3. /\ \A k \in Jobs : k # j => job'[k] = job[k]
          /\ job'[j].status = "running" /\ job'[j].attempt = job[j].attempt + 1
        BY <1>0, <1>3, <2>1 DEF Claim, JobRecord
    <2>4. /\ \A v \in Workers : v # w => pc'[v] = pc[v] /\ cur'[v] = cur[v] /\ run'[v] = run[v]
          /\ pc[w] = "scan" /\ pc'[w] = "claimed" /\ cur'[w] = j /\ run'[w] = job[j].attempt + 1
        BY <1>0, <1>3 DEF Claim
    <2>5. OneRunPerJob'
        BY <2>2, <2>4 DEF Ownership, OneRunPerJob, Busy, Claimed
    <2>6. ASSUME NEW k \in Jobs, job'[k].status = "running" PROVE \E v \in Workers : Busy(v, k)'
        BY <2>3, <2>4, <2>6 DEF Ownership, RecordMatchesRun, Busy, Claimed
    <2>7. ASSUME NEW v \in Workers, pc'[v] \in Claimed
          PROVE  job'[cur'[v]].attempt = run'[v] /\ job'[cur'[v]].status \in {"running", "canceled"}
        <3>1. CASE v = w
            BY <2>3, <2>4, <3>1
        <3>2. CASE v # w
            <4>1. pc[v] \in Claimed /\ cur[v] \in Jobs /\ cur[v] # j
                BY <2>2, <2>4, <2>7, <3>2 DEF Busy, TypeOK
            <4> QED
                BY <2>3, <2>4, <3>2, <4>1 DEF Ownership, RecordMatchesRun
        <3> QED
            BY <3>1, <3>2
    <2> QED
        BY <2>5, <2>6, <2>7 DEF Ownership, RecordMatchesRun
<1>4. ASSUME NEW w \in Workers, Finalize(w) PROVE Ownership'
    <2> DEFINE j == cur[w]
    <2>1. /\ pc[w] = "finalize" /\ pc[w] \in Claimed /\ pc'[w] = "scan" /\ pc'[w] \notin Claimed
          /\ j \in Jobs /\ job[j] \in JobRecord
        BY <1>0, <1>4 DEF Finalize, TypeOK, Claimed
    <2>2. \A v \in Workers : v # w => ~Busy(v, j)
        BY <2>1 DEF Ownership, OneRunPerJob, Busy
    <2>3. /\ \A k \in Jobs : k # j => job'[k] = job[k]
          /\ job'[j].status # "running"
        BY <1>0, <1>4, <2>1 DEF Finalize, CompareAndSet, Finishable, FinalRecord, JobRecord
    <2>4. \A v \in Workers : v # w => pc'[v] = pc[v] /\ cur'[v] = cur[v] /\ run'[v] = run[v]
        BY <1>0, <1>4 DEF Finalize
    <2>5. OneRunPerJob'
        BY <2>1, <2>4 DEF Ownership, OneRunPerJob, Busy
    <2>6. ASSUME NEW k \in Jobs, job'[k].status = "running" PROVE \E v \in Workers : Busy(v, k)'
        <3>1. k # j /\ job[k].status = "running"
            BY <2>3, <2>6
        <3>2. PICK v \in Workers : Busy(v, k)
            BY <3>1 DEF Ownership, RecordMatchesRun
        <3>3. v # w
            BY <3>1, <3>2 DEF Busy
        <3> QED
            BY <2>4, <3>2, <3>3 DEF Busy
    <2>7. ASSUME NEW v \in Workers, pc'[v] \in Claimed
          PROVE  job'[cur'[v]].attempt = run'[v] /\ job'[cur'[v]].status \in {"running", "canceled"}
        <3>1. v # w
            BY <2>1, <2>7
        <3>2. pc[v] \in Claimed /\ cur[v] \in Jobs /\ cur[v] # j
            BY <2>2, <2>4, <2>7, <3>1 DEF Busy, TypeOK
        <3> QED
            BY <2>3, <2>4, <3>1, <3>2 DEF Ownership, RecordMatchesRun
    <2> QED
        BY <2>5, <2>6, <2>7 DEF Ownership, RecordMatchesRun
<1>5. ASSUME NEW c \in Cancellers, CancelMark(c) PROVE Ownership'
    <2> DEFINE j == target[c]
    <2>1. j \in Jobs /\ job[j] \in JobRecord
        BY <1>0, <1>5 DEF CancelMark, TypeOK, Cancellable
    <2>2. CASE job[j].status \in Cancellable
        <3> DEFINE next == [job[j] EXCEPT !.status = "canceled", !.error = "canceled by request"]
        <3>1. /\ next.status = "canceled" /\ next.attempt = job[j].attempt
              /\ job' = [job EXCEPT ![j] = next]
            BY <1>5, <2>1, <2>2 DEF CancelMark, CompareAndSet, JobRecord
        <3> QED
            BY <1>5, <2>1, <3>1, OwnershipRecord DEF CancelMark
    <2>3. CASE job[j].status \notin Cancellable
        BY <1>5, <2>3, OwnershipFrame DEF CancelMark, CompareAndSet
    <2> QED
        BY <2>2, <2>3
<1>6. ASSUME NEW w \in Workers,
             \/ CheckClosed(w) \/ List(w) \/ EndPass(w) \/ WakeUp(w) \/ IdleClosed(w)
             \/ PollTimeout(w) \/ RegisterCancel(w) \/ DropCancel(w)
             \/ \E j \in todo[w] : ClaimRefused(w, j)
             \/ \E r \in Results : HandlerReturn(w, r)
      PROVE  Ownership'
    <2>1. UNCHANGED <<job, cur, run>>
        BY <1>6 DEF CheckClosed, List, EndPass, WakeUp, IdleClosed, PollTimeout, RegisterCancel,
                    DropCancel, ClaimRefused, HandlerReturn
    <2>2. \A v \in Workers : pc'[v] \in Claimed <=> pc[v] \in Claimed
        BY <1>0, <1>6 DEF CheckClosed, List, EndPass, WakeUp, IdleClosed, PollTimeout,
                    RegisterCancel, DropCancel, ClaimRefused, HandlerReturn, Claimed
    <2> QED
        BY <2>1, <2>2, OwnershipFrame
<1>7. ASSUME NEW c \in Cancellers,
             \/ \E j \in Jobs : CancelGet(c, j)
             \/ CancelLookup(c) \/ CancelFire(c) \/ CancelMarkFails(c)
             \/ CancelReread(c) \/ CancelRereadFails(c)
      PROVE  Ownership'
    BY <1>7, OwnershipFrame
    DEF CancelGet, CancelLookup, CancelFire, CancelMarkFails, CancelReread, CancelRereadFails
<1>8. ASSUME (\E j \in Jobs : EnqueueWake(j)) \/ ShutdownStep \/ UNCHANGED vars
      PROVE  Ownership'
    BY <1>8, OwnershipFrame
    DEF EnqueueWake, ShutdownStep, Shutdown, ShutdownDone, ShutdownExpires, vars
<1> QED
    BY <1>1, <1>2, <1>3, <1>4, <1>5, <1>6, <1>7, <1>8
    DEF Next, EnqueueStep, WorkerStep, QueueStep, ScanStep, CancelStep


-----------------------------------------------------------------------------
(* What a step can do to a record. *)

Keeps(j) == job'[j].attempt = job[j].attempt /\ job'[j].max = job[j].max

Moves(j) ==
    \/ job'[j] = job[j]
    \/ job[j].status = "absent" /\ job'[j].status = "queued" /\ job'[j].attempt = 0
    \/ job[j].status = "queued" /\ job'[j].status = "failed" /\ Keeps(j)
    \/ job[j].status = "queued" /\ job'[j].status = "running"
          /\ job'[j].attempt = job[j].attempt + 1 /\ job'[j].max = job[j].max
    \/ job[j].status = "running" /\ job'[j].status = "succeeded" /\ Keeps(j)
    \/ job[j].status = "running" /\ job'[j].status = "dead" /\ Keeps(j)
          /\ job[j].attempt >= job[j].max
    \/ job[j].status = "running" /\ job'[j].status = "queued" /\ Keeps(j)
          /\ job[j].attempt < job[j].max
    \/ job[j].status \in Cancellable /\ job'[j].status = "canceled" /\ Keeps(j)

\* Every step of the queue changes a record in one of these ways.
LEMMA RecordMoves ==
    ASSUME TypeOK, [Next]_vars, NEW j \in Jobs
    PROVE  Moves(j)
<1> USE DEF Goto, storeVars, workerVars, cancelVars
<1>0. /\ job \in [Jobs -> JobRecord] /\ job[j] \in JobRecord
      /\ todo \in [Workers -> SUBSET Jobs]
    BY DEF TypeOK
<1>1. ASSUME NEW i \in Jobs, NEW k \in Kinds, NEW p \in Priorities, NEW t \in Stamps,
             NEW m \in RequestedMax, Enqueue(i, k, p, t, m)
      PROVE  Moves(j)
    BY <1>0, <1>1 DEF Enqueue, Moves
<1>2. ASSUME NEW w \in Workers, NEW i \in todo[w], Reject(w, i) PROVE Moves(j)
    BY <1>0, <1>2 DEF Reject, CompareAndSet, Rejectable, Moves, Keeps, JobRecord
<1>3. ASSUME NEW w \in Workers, NEW i \in todo[w], Claim(w, i) PROVE Moves(j)
    BY <1>0, <1>3 DEF Claim, Claimable, Moves, JobRecord
<1>4. ASSUME NEW w \in Workers, Finalize(w) PROVE Moves(j)
    <2>1. cur[w] \in Jobs
        BY <1>4 DEF Finalize, TypeOK, Claimed
    <2>2. CASE cur[w] = j /\ job[j].status = "running"
        <3>1. job'[j] = FinalRecord(j, result[w])
            BY <1>0, <1>4, <2>1, <2>2 DEF Finalize, CompareAndSet, Finishable
        <3>2. job[j].attempt \in Nat /\ job[j].max \in Int
            BY <1>0 DEF JobRecord
        <3> QED
            BY <1>0, <2>2, <3>1, <3>2 DEF FinalRecord, Moves, Keeps, JobRecord
    <2>3. CASE ~(cur[w] = j /\ job[j].status = "running")
        BY <1>0, <1>4, <2>1, <2>3 DEF Finalize, CompareAndSet, Finishable, Moves
    <2> QED
        BY <2>2, <2>3
<1>5. ASSUME NEW c \in Cancellers, CancelMark(c) PROVE Moves(j)
    BY <1>0, <1>5 DEF CancelMark, CompareAndSet, Moves, Keeps, JobRecord
<1>6. ASSUME NEW w \in Workers,
             \/ CheckClosed(w) \/ List(w) \/ EndPass(w) \/ WakeUp(w) \/ IdleClosed(w)
             \/ PollTimeout(w) \/ RegisterCancel(w) \/ DropCancel(w)
             \/ \E i \in todo[w] : ClaimRefused(w, i)
             \/ \E r \in Results : HandlerReturn(w, r)
      PROVE  Moves(j)
    BY <1>6 DEF CheckClosed, List, EndPass, WakeUp, IdleClosed, PollTimeout, RegisterCancel,
                DropCancel, ClaimRefused, HandlerReturn, Moves
<1>7. ASSUME NEW c \in Cancellers,
             \/ \E i \in Jobs : CancelGet(c, i)
             \/ CancelLookup(c) \/ CancelFire(c) \/ CancelMarkFails(c)
             \/ CancelReread(c) \/ CancelRereadFails(c)
      PROVE  Moves(j)
    BY <1>7 DEF CancelGet, CancelLookup, CancelFire, CancelMarkFails, CancelReread,
                CancelRereadFails, Moves
<1>8. ASSUME (\E i \in Jobs : EnqueueWake(i)) \/ ShutdownStep \/ UNCHANGED vars
      PROVE  Moves(j)
    BY <1>8 DEF EnqueueWake, ShutdownStep, Shutdown, ShutdownDone, ShutdownExpires, vars, Moves
<1> QED
    BY <1>1, <1>2, <1>3, <1>4, <1>5, <1>6, <1>7, <1>8
    DEF Next, EnqueueStep, WorkerStep, QueueStep, ScanStep, CancelStep


-----------------------------------------------------------------------------
(* Attempts. *)

\* Every step keeps the number of attempts within its budget.
LEMMA NextBudget == TypeOK /\ Ownership /\ AttemptBudget /\ [Next]_vars => AttemptBudget'
<1> SUFFICES ASSUME TypeOK, Ownership, AttemptBudget, [Next]_vars, NEW j \in Jobs
             PROVE  LET budget == IF job'[j].max < 1 THEN 1 ELSE job'[j].max IN
                    /\ job'[j].attempt <= budget
                    /\ job'[j].status = "dead" => job'[j].attempt = budget
                    /\ job'[j].status = "queued" => job'[j].attempt < budget
    BY DEF AttemptBudget
<1>1. Moves(j)
    BY RecordMoves
<1>2. job[j].attempt \in Nat /\ job[j].max \in Int /\ job'[j].attempt \in Nat /\ job'[j].max \in Int
    BY NextType DEF TypeOK, JobRecord
<1>3. job[j].status = "running" => job[j].attempt > 0
    BY DEF Ownership, RecordMatchesRun, Busy, TypeOK
<1> QED
    BY <1>1, <1>2, <1>3 DEF AttemptBudget, Moves, Keeps, Cancellable

-----------------------------------------------------------------------------
(* Wake-ups. *)

\* What is promised about one job while the queue is open.
Awaited(j) == wake \/ j \in unsent \/ \E w \in Workers : WillLookAt(w, j)

\* A step that takes away no wake-up and that no worker makes.
LEMMA AwaitedFrame ==
    ASSUME NEW j \in Jobs, Awaited(j), wake => wake', UNCHANGED <<pc, did, todo>>,
           j \in unsent => j \in unsent' \/ wake'
    PROVE  Awaited(j)'
BY DEF Awaited, WillLookAt

\* A step of worker w after which w will look at the job, or w would not have
\* looked at it before the step.
LEMMA AwaitedWorker ==
    ASSUME NEW j \in Jobs, Awaited(j), NEW w \in Workers,
           UNCHANGED <<wake, unsent>> \/ WillLookAt(w, j)',
           WillLookAt(w, j) => WillLookAt(w, j)',
           \A v \in Workers : v # w => pc'[v] = pc[v] /\ did'[v] = did[v] /\ todo'[v] = todo[v]
    PROVE  Awaited(j)'
BY DEF Awaited, WillLookAt

\* Every step keeps every queued job awaited.
LEMMA NextAwaited ==
    ASSUME TypeOK, [Next]_vars, NEW j \in Jobs, job'[j].status = "queued", ~closed',
           job[j].status = "queued" => Awaited(j)
    PROVE  Awaited(j)'
<1> USE DEF Goto, storeVars, workerVars, cancelVars
<1>0. /\ job \in [Jobs -> JobRecord] /\ job' \in [Jobs -> JobRecord]
      /\ pc \in [Workers -> {"top", "list", "scan", "idle", "exited"} \cup Claimed]
      /\ todo \in [Workers -> SUBSET Jobs] /\ did \in [Workers -> BOOLEAN]
    BY NextType DEF TypeOK
<1>1. ASSUME NEW i \in Jobs, NEW k \in Kinds, NEW p \in Priorities, NEW t \in Stamps,
             NEW m \in RequestedMax, Enqueue(i, k, p, t, m)
      PROVE  Awaited(j)'
    <2>1. CASE i = j
        BY <1>1, <2>1 DEF Enqueue, Awaited
    <2>2. CASE i # j
        <3>1. Awaited(j)
            BY <1>0, <1>1, <2>2 DEF Enqueue
        <3> QED
            BY <1>1, <3>1, AwaitedFrame DEF Enqueue
    <2> QED
        BY <2>1, <2>2
<1>2. ASSUME NEW i \in Jobs, EnqueueWake(i) PROVE Awaited(j)'
    BY <1>2 DEF EnqueueWake, Awaited
<1>3. ASSUME NEW w \in Workers, Finalize(w) PROVE Awaited(j)'
    BY <1>0, <1>3 DEF Finalize, Awaited, WillLookAt
<1>4. ASSUME job[j].status = "queued",
             NEW w \in Workers,
             \/ CheckClosed(w) \/ List(w) \/ EndPass(w) \/ WakeUp(w)
             \/ PollTimeout(w) \/ RegisterCancel(w) \/ DropCancel(w) \/ IdleClosed(w)
             \/ \E i \in todo[w] : ClaimRefused(w, i) \/ Reject(w, i) \/ Claim(w, i)
             \/ \E r \in Results : HandlerReturn(w, r)
      PROVE  Awaited(j)'
    <2>1. \A v \in Workers : v # w => pc'[v] = pc[v] /\ did'[v] = did[v] /\ todo'[v] = todo[v]
        BY <1>0, <1>4 DEF CheckClosed, List, EndPass, WakeUp, IdleClosed, PollTimeout,
            RegisterCancel, DropCancel, ClaimRefused, Reject, Claim, HandlerReturn
    <2>2. UNCHANGED <<wake, unsent>> \/ WillLookAt(w, j)'
        BY <1>0, <1>4 DEF CheckClosed, List, EndPass, WakeUp, IdleClosed, PollTimeout,
            RegisterCancel, DropCancel, ClaimRefused, Reject, Claim, HandlerReturn, WillLookAt
    <2>3. WillLookAt(w, j) => WillLookAt(w, j)'
        <3>1. CASE CheckClosed(w)
            BY <1>0, <3>1 DEF CheckClosed, WillLookAt, closed, Claimed
        <3>2. CASE List(w)
            BY <1>0, <1>4, <3>2 DEF List, WillLookAt
        <3>3. CASE EndPass(w)
            BY <1>0, <3>3 DEF EndPass, WillLookAt, Claimed
        <3>4. CASE WakeUp(w) \/ PollTimeout(w) \/ IdleClosed(w)
            BY <1>0, <3>4 DEF WakeUp, PollTimeout, IdleClosed, WillLookAt, Claimed
        <3>5. CASE RegisterCancel(w) \/ DropCancel(w) \/ \E r \in Results : HandlerReturn(w, r)
            BY <1>0, <3>5 DEF RegisterCancel, DropCancel, HandlerReturn, WillLookAt, Claimed
        <3>6. ASSUME NEW i \in todo[w], Claim(w, i) PROVE WillLookAt(w, j)'
            BY <1>0, <3>6 DEF Claim, WillLookAt, Claimed
        <3>7. ASSUME NEW i \in todo[w], ClaimRefused(w, i) \/ Reject(w, i), WillLookAt(w, j)
              PROVE  WillLookAt(w, j)'
            <4>1. i # j
                <5>1. ClaimRefused(w, i) => job[i].status # "queued"
                    BY DEF ClaimRefused, Claimable
                <5>2. Reject(w, i) /\ job[i].status = "queued" => job'[i].status = "failed"
                    BY <1>0 DEF Reject, CompareAndSet, Rejectable, JobRecord
                <5> QED
                    BY <1>4, <3>7, <5>1, <5>2
            <4>2. /\ pc[w] = "scan" /\ pc'[w] = pc[w] /\ did'[w] = did[w]
                  /\ todo'[w] = todo[w] \ {i}
                BY <1>0, <3>7 DEF ClaimRefused, Reject
            <4> QED
                BY <3>7, <4>1, <4>2 DEF WillLookAt
        <3> QED
            BY <1>4, <3>1, <3>2, <3>3, <3>4, <3>5, <3>6, <3>7
    <2> QED
        BY <1>4, <2>1, <2>2, <2>3, AwaitedWorker
<1>5. ASSUME job[j].status = "queued", NEW c \in Cancellers, CancelStep(c) PROVE Awaited(j)'
    BY <1>5, AwaitedFrame
    DEF CancelStep, CancelGet, CancelLookup, CancelFire, CancelMark, CancelMarkFails,
        CancelReread, CancelRereadFails
<1>6. ASSUME job[j].status = "queued", ShutdownStep \/ UNCHANGED vars PROVE Awaited(j)'
    BY <1>6, AwaitedFrame DEF ShutdownStep, Shutdown, ShutdownDone, ShutdownExpires, vars
<1>7. CASE job[j].status # "queued"
    \* Only Enqueue and Finalize make a job queued.
    <2>1. job'[j] # job[j] /\ job' # job
        BY <1>7
    <2>2. ASSUME NEW w \in Workers, NEW i \in todo[w], Reject(w, i) \/ Claim(w, i)
          PROVE  FALSE
        BY <1>0, <1>7, <2>2 DEF Reject, Claim, Claimable, CompareAndSet, Rejectable, JobRecord
    <2>3. ASSUME NEW c \in Cancellers, CancelMark(c) PROVE FALSE
        BY <1>0, <1>7, <2>3 DEF CancelMark, CompareAndSet, Cancellable, JobRecord
    <2> QED
        BY <2>1, <2>2, <2>3, <1>1, <1>2, <1>3
        DEF Next, EnqueueStep, WorkerStep, QueueStep, ScanStep, CancelStep, ShutdownStep, CheckClosed,
            List, EndPass, WakeUp, IdleClosed, PollTimeout, RegisterCancel, DropCancel, ClaimRefused,
            HandlerReturn, CancelGet, CancelLookup, CancelFire, CancelMarkFails, CancelReread,
            CancelRereadFails, Shutdown, ShutdownDone, ShutdownExpires, vars
<1> QED
    BY <1>1, <1>2, <1>3, <1>4, <1>5, <1>6, <1>7
    DEF Next, EnqueueStep, WorkerStep, QueueStep, ScanStep

\* Every step forgets no queued job while the queue is open.
LEMMA NextWakeups == TypeOK /\ NoLostWakeup /\ [Next]_vars => NoLostWakeup'
<1> SUFFICES ASSUME TypeOK, NoLostWakeup, [Next]_vars,
                    NEW j \in Jobs, job'[j].status = "queued", ~closed'
             PROVE  Awaited(j)'
    BY DEF NoLostWakeup, Awaited
<1>1. ~closed
    BY DEF Next, closed, EnqueueStep, WorkerStep, QueueStep, ScanStep, CancelStep, ShutdownStep,
        Enqueue, EnqueueWake, Reject, Claim, Finalize, CancelMark, CheckClosed,
        List, EndPass, WakeUp, IdleClosed, PollTimeout, RegisterCancel, DropCancel, ClaimRefused,
        HandlerReturn, CancelGet, CancelLookup, CancelFire, CancelMarkFails, CancelReread,
        CancelRereadFails, Shutdown, ShutdownDone, ShutdownExpires, vars, storeVars
<1>2. job[j].status = "queued" => Awaited(j)
    BY <1>1 DEF NoLostWakeup, Awaited
<1> QED
    BY <1>1, <1>2, NextAwaited

-----------------------------------------------------------------------------
(* The cancels map, and what Shutdown and Cancel report. *)

\* Every step keeps the map and the runs in agreement.
LEMMA NextCancels ==
    TypeOK /\ Ownership /\ CancelsAreCurrent /\ [Next]_vars => CancelsAreCurrent'
<1> SUFFICES ASSUME TypeOK, Ownership, CancelsAreCurrent, [Next]_vars PROVE CancelsAreCurrent'
    OBVIOUS
<1> USE DEF Goto, storeVars, workerVars, cancelVars
<1>0. /\ pc \in [Workers -> {"top", "list", "scan", "idle", "exited"} \cup Claimed]
      /\ cur \in [Workers -> Jobs \cup {NoJob}] /\ run \in [Workers -> Nat]
      /\ cancels \in [Jobs -> Nat]
      /\ \A w \in Workers : pc[w] \in Claimed => cur[w] \in Jobs /\ run[w] > 0
    BY DEF TypeOK
<1>1. ASSUME NEW w \in Workers, RegisterCancel(w) \/ DropCancel(w) PROVE CancelsAreCurrent'
    <2>1. /\ pc[w] \in Claimed /\ cur[w] \in Jobs /\ run[w] > 0
          /\ \A v \in Workers : v # w => pc'[v] = pc[v]
          /\ UNCHANGED <<cur, run>>
        BY <1>0, <1>1 DEF RegisterCancel, DropCancel, Claimed
    <2>2. \A v \in Workers : v # w /\ pc[v] \in Registered => cur[v] \in Jobs /\ cur[v] # cur[w]
        BY <1>0, <2>1 DEF Ownership, OneRunPerJob, Busy, Registered, Claimed
    <2>3. CASE RegisterCancel(w)
        <3>1. /\ pc'[w] \in Registered /\ cancels'[cur[w]] = run[w]
              /\ \A j \in Jobs : j # cur[w] => cancels'[j] = cancels[j]
            BY <1>0, <2>1, <2>3 DEF RegisterCancel, Registered
        <3>2. pc[w] \notin Registered
            BY <2>3 DEF RegisterCancel, Registered
        <3> QED
            BY <2>1, <2>2, <3>1, <3>2 DEF CancelsAreCurrent
    <2>4. CASE DropCancel(w)
        <3>1. /\ pc'[w] \notin Registered /\ cancels'[cur[w]] = 0
              /\ \A j \in Jobs : j # cur[w] => cancels'[j] = cancels[j]
            BY <1>0, <2>1, <2>4 DEF DropCancel, Registered
        <3> QED
            BY <2>1, <2>2, <3>1 DEF CancelsAreCurrent
    <2> QED
        BY <1>1, <2>3, <2>4
<1>2. ASSUME UNCHANGED cancels,
             \A w \in Workers :
                /\ pc'[w] \in Registered <=> pc[w] \in Registered
                /\ pc[w] \in Registered => cur'[w] = cur[w] /\ run'[w] = run[w]
      PROVE  CancelsAreCurrent'
    BY <1>2 DEF CancelsAreCurrent
<1>3. ASSUME NEW w \in Workers,
             \/ CheckClosed(w) \/ List(w) \/ EndPass(w) \/ WakeUp(w) \/ IdleClosed(w)
             \/ PollTimeout(w) \/ Finalize(w)
             \/ \E i \in todo[w] : ClaimRefused(w, i) \/ Reject(w, i) \/ Claim(w, i)
             \/ \E r \in Results : HandlerReturn(w, r)
      PROVE  CancelsAreCurrent'
    BY <1>0, <1>2, <1>3
    DEF CheckClosed, List, EndPass, WakeUp, IdleClosed, PollTimeout, Finalize, ClaimRefused,
        Reject, Claim, HandlerReturn, Registered
<1>4. ASSUME EnqueueStep \/ (\E c \in Cancellers : CancelStep(c)) \/ ShutdownStep \/ UNCHANGED vars
      PROVE  CancelsAreCurrent'
    BY <1>2, <1>4
    DEF EnqueueStep, Enqueue, EnqueueWake, CancelStep, CancelGet, CancelLookup, CancelFire,
        CancelMark, CancelMarkFails, CancelReread, CancelRereadFails, ShutdownStep, Shutdown,
        ShutdownDone, ShutdownExpires, vars
<1> QED
    BY <1>1, <1>3, <1>4 DEF Next, WorkerStep, QueueStep, ScanStep

\* A Shutdown that returned nil has seen all workers leave.
Gone == shut = "drained" => \A w \in Workers : pc[w] = "exited"

\* They stay gone.
LEMMA NextDrained == TypeOK /\ Gone /\ [Next]_vars => Gone'
<1> SUFFICES ASSUME TypeOK, Gone, [Next]_vars PROVE Gone'
    OBVIOUS
<1>1. ASSUME NEW w \in Workers, WorkerStep(w) \/ PollTimeout(w) PROVE Gone'
    <2>1. pc[w] # "exited" /\ UNCHANGED shut
        BY <1>1
        DEF WorkerStep, QueueStep, ScanStep, CheckClosed, List, EndPass, Reject, Claim,
            ClaimRefused, WakeUp, IdleClosed, RegisterCancel, DropCancel, Finalize,
            HandlerReturn, PollTimeout, Goto, storeVars
    <2> QED
        BY <2>1 DEF Gone
<1>2. ASSUME EnqueueStep \/ (\E c \in Cancellers : CancelStep(c)) \/ UNCHANGED vars PROVE Gone'
    <2>1. UNCHANGED <<shut, pc>>
        BY <1>2
        DEF EnqueueStep, Enqueue, EnqueueWake, CancelStep, CancelGet, CancelLookup, CancelFire,
            CancelMark, CancelMarkFails, CancelReread, CancelRereadFails, vars, storeVars,
            workerVars
    <2> QED
        BY <2>1 DEF Gone
<1>3. CASE ShutdownStep
    BY <1>3 DEF ShutdownStep, Shutdown, ShutdownDone, ShutdownExpires, Gone, workerVars
<1> QED
    BY <1>1, <1>2, <1>3 DEF Next

\* Every step keeps what a Cancel has answered.
LEMMA NextAnswer == TypeOK /\ CancelAnswerHolds /\ [Next]_vars => CancelAnswerHolds'
<1> SUFFICES ASSUME TypeOK, CancelAnswerHolds, [Next]_vars,
                    NEW c \in Cancellers, cpc'[c] = "idle", answer'[c] \in Terminal
             PROVE  job'[target'[c]].status = answer'[c]
    BY DEF CancelAnswerHolds
<1> USE DEF storeVars, workerVars, cancelVars
<1>0. /\ job \in [Jobs -> JobRecord] /\ cpc \in [Cancellers -> {"idle", "lookup", "fire", "mark", "reread"}]
      /\ target \in [Cancellers -> Jobs \cup {NoJob}]
      /\ answer \in [Cancellers -> Statuses \cup {"none"}]
      /\ "none" \notin Terminal /\ "none" \notin Cancellable
    BY DEF TypeOK, Terminal, Cancellable
<1>1. \A j \in Jobs : job[j].status \in Terminal => job'[j] = job[j]
    BY RecordMoves DEF Moves, Terminal, Cancellable
<1>2. CASE cpc[c] = "idle" /\ answer'[c] = answer[c] /\ target'[c] = target[c]
    <2>1. target[c] \in Jobs /\ job[target[c]].status = answer[c]
        BY <1>0, <1>2 DEF CancelAnswerHolds, TypeOK
    <2> QED
        BY <1>1, <1>2, <2>1
<1>3. ASSUME NEW j \in Jobs, CancelGet(c, j) PROVE job'[target'[c]].status = answer'[c]
    BY <1>0, <1>3 DEF CancelGet
<1>4. CASE CancelMark(c)
    <2>1. target[c] \in Jobs /\ job[target[c]].status \in Cancellable /\ answer'[c] = "canceled"
        BY <1>0, <1>4 DEF CancelMark, TypeOK, Cancellable
    <2> QED
        BY <1>0, <1>4, <2>1 DEF CancelMark, CompareAndSet, JobRecord
<1>5. CASE CancelReread(c)
    BY <1>0, <1>5 DEF CancelReread
<1>6. CASE CancelMarkFails(c) \/ CancelRereadFails(c) \/ CancelLookup(c) \/ CancelFire(c)
    <2>1. answer[c] \in Cancellable /\ answer'[c] \in {answer[c], "none"}
        BY <1>0, <1>6
        DEF CancelMarkFails, CancelRereadFails, CancelLookup, CancelFire, TypeOK
    <2> QED
        BY <1>0, <2>1 DEF Terminal, Cancellable
<1>7. ASSUME NEW d \in Cancellers, d # c, CancelStep(d)
      PROVE  UNCHANGED <<cpc[c], answer[c], target[c]>>
    BY <1>0, <1>7
    DEF CancelStep, CancelGet, CancelLookup, CancelFire, CancelMark, CancelMarkFails,
        CancelReread, CancelRereadFails
<1>8. ASSUME EnqueueStep \/ (\E w \in Workers : WorkerStep(w) \/ PollTimeout(w)) \/ ShutdownStep
                 \/ UNCHANGED vars
      PROVE  UNCHANGED cancelVars
    BY <1>8
    DEF EnqueueStep, Enqueue, EnqueueWake, ShutdownStep, Shutdown, ShutdownDone, ShutdownExpires,
        WorkerStep, QueueStep, ScanStep, CheckClosed, List, EndPass, WakeUp, IdleClosed, PollTimeout,
        Finalize, ClaimRefused, Reject, Claim, HandlerReturn, RegisterCancel, DropCancel, vars
<1> QED
    BY <1>2, <1>3, <1>4, <1>5, <1>6, <1>7, <1>8 DEF Next, CancelStep

-----------------------------------------------------------------------------
(* The queue implements the life cycle. *)

\* The values of the abstract variables.
status  == [j \in Jobs |-> job[j].status]
budget  == [j \in Jobs |-> job[j].max]
starts  == [j \in Jobs |-> job[j].attempt]
serving == {j \in Jobs : \E w \in Workers : Busy(w, j)}

\* One record changes: so do the abstract functions, at one job.
LEMMA OneRecord ==
    ASSUME NEW j \in Jobs, \A k \in Jobs : k # j => job'[k] = job[k]
    PROVE  /\ status' = [status EXCEPT ![j] = job'[j].status]
           /\ job'[j].max = job[j].max => budget' = budget
           /\ budget' = [budget EXCEPT ![j] = job'[j].max]
           /\ job'[j].attempt = job[j].attempt => starts' = starts
           /\ starts' = [starts EXCEPT ![j] = job'[j].attempt]
BY DEF status, budget, starts

\* No record changes: nor do the abstract functions.
LEMMA SameRecords == ASSUME UNCHANGED job PROVE UNCHANGED <<status, budget, starts>>
BY DEF status, budget, starts

\* No claim is made or given up.
LEMMA SameServing ==
    ASSUME UNCHANGED <<cur>>, \A w \in Workers : pc'[w] \in Claimed <=> pc[w] \in Claimed
    PROVE  serving' = serving
BY DEF serving, Busy

\* A job that is not stored has had no attempt.
Fresh == \A j \in Jobs : job[j].status = "absent" => job[j].attempt = 0

\* A job that was never submitted stays as in the initial state.
LEMMA NextFresh == TypeOK /\ Fresh /\ [Next]_vars => Fresh'
BY RecordMoves DEF Fresh, Moves

\* The initial states map to the initial states of the life cycle.
LEMMA LifecycleInit == Init => Lifecycle!Init
<1> SUFFICES ASSUME Init PROVE Lifecycle!Init
    OBVIOUS
<1>1. \A w \in Workers : pc[w] \notin Claimed
    BY DEF Init, Claimed
<1>2. \A j \in Jobs : job[j].status = "absent" /\ job[j].max = 0 /\ job[j].attempt = 0
    BY DEF Init, NotStored
<1> QED
    BY <1>1, <1>2 DEF Lifecycle!Init, Busy

\* Every step of the queue is a step of the life cycle, or none.
LEMMA LifecycleStep ==
    ASSUME TypeOK, Ownership, Fresh, [Next]_vars
    PROVE  [Lifecycle!Next]_(Lifecycle!vars)
<1> USE DEF Goto, storeVars, workerVars, cancelVars
<1>0. /\ job \in [Jobs -> JobRecord] /\ todo \in [Workers -> SUBSET Jobs]
      /\ pc \in [Workers -> {"top", "list", "scan", "idle", "exited"} \cup Claimed]
      /\ cur \in [Workers -> Jobs \cup {NoJob}]
    BY DEF TypeOK
<1>st. ASSUME UNCHANGED <<status, budget, starts, serving>> PROVE UNCHANGED Lifecycle!vars
    BY <1>st DEF Lifecycle!vars, status, budget, starts, serving
<1>1. ASSUME NEW j \in Jobs, NEW k \in Kinds, NEW p \in Priorities, NEW t \in Stamps,
             NEW m \in RequestedMax, Enqueue(j, k, p, t, m)
      PROVE  Lifecycle!Submit(j, EffectiveMax(m))
    <2>1. /\ \A i \in Jobs : i # j => job'[i] = job[i]
          /\ job[j].status = "absent" /\ job'[j].status = "queued"
          /\ job'[j].max = EffectiveMax(m) /\ job'[j].attempt = 0
        BY <1>0, <1>1 DEF Enqueue
    <2>2. job[j].attempt = 0
        BY <2>1 DEF Fresh
    <2> QED
        BY <1>1, <2>1, <2>2, OneRecord, SameServing
        DEF Enqueue, Lifecycle!Submit, Lifecycle!Become, status, budget, starts, serving
<1>2. ASSUME NEW w \in Workers, NEW j \in todo[w], Reject(w, j)
      PROVE  Lifecycle!Refuse(j) \/ UNCHANGED Lifecycle!vars
    <2>1. j \in Jobs /\ serving' = serving
        BY <1>0, <1>2, SameServing DEF Reject
    <2>2. CASE job[j].status = "queued"
        <3>1. /\ \A i \in Jobs : i # j => job'[i] = job[i]
              /\ job'[j].status = "failed" /\ Keeps(j)
            BY <1>0, <1>2, <2>1, <2>2 DEF Reject, CompareAndSet, Rejectable, Keeps, JobRecord
        <3> QED
            BY <2>1, <2>2, <3>1, OneRecord
            DEF Lifecycle!Refuse, Lifecycle!Become, status, budget, starts, serving, Keeps
    <2>3. CASE job[j].status # "queued"
        BY <1>st, <1>2, <2>1, <2>3, SameRecords DEF Reject, CompareAndSet, Rejectable
    <2> QED
        BY <2>2, <2>3
<1>3. ASSUME NEW w \in Workers, NEW j \in todo[w], Claim(w, j) PROVE Lifecycle!Start(j)
    <2>1. /\ j \in Jobs /\ job[j].status = "queued"
          /\ \A i \in Jobs : i # j => job'[i] = job[i]
          /\ job'[j].status = "running" /\ job'[j].max = job[j].max
          /\ job'[j].attempt = job[j].attempt + 1
        BY <1>0, <1>3 DEF Claim, Claimable, JobRecord
    <2>2. j \notin serving
        BY <2>1, UnclaimedJob DEF serving
    <2>3. serving' = serving \cup {j}
        <3>1. /\ pc[w] \notin Claimed /\ pc'[w] \in Claimed /\ cur'[w] = j
              /\ \A v \in Workers : v # w => pc'[v] = pc[v] /\ cur'[v] = cur[v]
            BY <1>0, <1>3 DEF Claim, Claimed
        <3> QED
            BY <2>1, <3>1 DEF serving, Busy
    <2> QED
        BY <2>1, <2>2, <2>3, OneRecord
        DEF Lifecycle!Start, Lifecycle!Become, status, budget, starts, serving
<1>4. ASSUME NEW w \in Workers, Finalize(w)
      PROVE  \E j \in Jobs : Lifecycle!Succeed(j) \/ Lifecycle!Fail(j) \/ Lifecycle!EndOvertaken(j)
    <2>0. PICK j \in Jobs : j = cur[w]
        BY <1>4 DEF Finalize, TypeOK, Claimed
    <2>1. /\ pc[w] \in Claimed /\ pc'[w] \notin Claimed /\ cur[w] = j /\ job[j] \in JobRecord
          /\ \A v \in Workers : v # w => pc'[v] = pc[v] /\ cur'[v] = cur[v]
        BY <1>0, <1>4, <2>0 DEF Finalize, Claimed
    <2>2. j \in serving /\ job[j].status \in {"running", "canceled"}
        BY <2>1 DEF serving, Busy, Ownership, RecordMatchesRun
    <2>3. serving' = serving \ {j}
        <3>1. \A v \in Workers : v # w => ~Busy(v, j)
            BY <2>1 DEF Ownership, OneRunPerJob, Busy
        <3> QED
            BY <2>1, <3>1 DEF serving, Busy
    <2>4. CASE job[j].status = "running"
        <3>1. /\ \A i \in Jobs : i # j => job'[i] = job[i]
              /\ job'[j] = FinalRecord(j, result[w])
            BY <1>0, <1>4, <2>1, <2>4 DEF Finalize, CompareAndSet, Finishable
        <3>2. Keeps(j)
            BY <2>1, <3>1 DEF FinalRecord, Keeps, JobRecord
        <3>3. CASE result[w] = "ok"
            <4>1. job'[j].status = "succeeded"
                BY <2>1, <3>1, <3>3 DEF FinalRecord, JobRecord
            <4>2. Lifecycle!Succeed(j)
                BY <2>1, <2>2, <2>3, <2>4, <3>1, <3>2, <4>1, OneRecord
                DEF Lifecycle!Succeed, Lifecycle!Become, status, budget, starts, serving, Keeps
            <4> QED
                BY <4>2
        <3>4. CASE result[w] # "ok"
            <4>1. job'[j].status = IF job[j].attempt < job[j].max THEN "queued" ELSE "dead"
                BY <2>1, <3>1, <3>4 DEF FinalRecord, JobRecord
            <4>2. /\ status' = [status EXCEPT ![j] = IF starts[j] < budget[j] THEN "queued" ELSE "dead"]
                  /\ budget' = budget /\ starts' = starts /\ status[j] = "running"
                <5>1. starts[j] = job[j].attempt /\ budget[j] = job[j].max /\ status[j] = job[j].status
                    BY DEF starts, budget, status
                <5> QED
                    BY <2>4, <3>1, <3>2, <4>1, <5>1, OneRecord DEF Keeps
            <4>3. Lifecycle!Fail(j)
                BY <2>2, <2>3, <4>2
                DEF Lifecycle!Fail, Lifecycle!Become, status, budget, starts, serving
            <4> QED
                BY <4>3
        <3> QED
            BY <3>3, <3>4
    <2>5. CASE job[j].status = "canceled"
        <3>1. UNCHANGED job
            BY <1>4, <2>0, <2>5 DEF Finalize, CompareAndSet, Finishable
        <3>2. Lifecycle!EndOvertaken(j)
            BY <2>1, <2>2, <2>3, <2>5, <3>1, SameRecords
            DEF Lifecycle!EndOvertaken, status, budget, starts, serving
        <3> QED
            BY <3>2
    <2> QED
        BY <2>2, <2>4, <2>5
<1>5. ASSUME NEW c \in Cancellers, NEW j \in Jobs, j = target[c], CancelMark(c)
      PROVE  Lifecycle!Cancel(j) \/ UNCHANGED Lifecycle!vars
    <2>1. serving' = serving
        BY <1>0, <1>5, SameServing DEF CancelMark
    <2>2. CASE job[j].status \in Cancellable
        <3>1. /\ \A i \in Jobs : i # j => job'[i] = job[i]
              /\ job'[j].status = "canceled" /\ Keeps(j)
            BY <1>0, <1>5, <2>1, <2>2 DEF CancelMark, CompareAndSet, Keeps, JobRecord
        <3> QED
            BY <2>1, <2>2, <3>1, OneRecord
            DEF Lifecycle!Cancel, Lifecycle!Become, status, budget, starts, serving, Keeps, Cancellable
    <2>3. CASE job[j].status \notin Cancellable
        BY <1>st, <1>5, <2>1, <2>3, SameRecords DEF CancelMark, CompareAndSet
    <2> QED
        BY <2>2, <2>3
<1>6. ASSUME NEW w \in Workers,
             \/ CheckClosed(w) \/ List(w) \/ EndPass(w) \/ WakeUp(w) \/ IdleClosed(w)
             \/ PollTimeout(w) \/ RegisterCancel(w) \/ DropCancel(w)
             \/ \E j \in todo[w] : ClaimRefused(w, j)
             \/ \E r \in Results : HandlerReturn(w, r)
      PROVE  UNCHANGED Lifecycle!vars
    <2>1. UNCHANGED <<job, cur>>
        BY <1>6 DEF CheckClosed, List, EndPass, WakeUp, IdleClosed, PollTimeout, RegisterCancel,
                    DropCancel, ClaimRefused, HandlerReturn
    <2>2. \A v \in Workers : pc'[v] \in Claimed <=> pc[v] \in Claimed
        BY <1>0, <1>6 DEF CheckClosed, List, EndPass, WakeUp, IdleClosed, PollTimeout,
                    RegisterCancel, DropCancel, ClaimRefused, HandlerReturn, Claimed
    <2> QED
        BY <1>st, <2>1, <2>2, SameRecords, SameServing
<1>7. ASSUME \/ \E j \in Jobs : EnqueueWake(j)
             \/ ShutdownStep
             \/ UNCHANGED vars
             \/ \E c \in Cancellers :
                   \/ \E j \in Jobs : CancelGet(c, j)
                   \/ CancelLookup(c) \/ CancelFire(c) \/ CancelMarkFails(c)
                   \/ CancelReread(c) \/ CancelRereadFails(c)
      PROVE  UNCHANGED Lifecycle!vars
    <2>1. UNCHANGED <<job, cur, pc>>
        BY <1>7 DEF EnqueueWake, ShutdownStep, Shutdown, ShutdownDone, ShutdownExpires, vars,
            CancelGet, CancelLookup, CancelFire, CancelMarkFails, CancelReread, CancelRereadFails
    <2> QED
        BY <1>st, <2>1, SameRecords, SameServing
<1> DEFINE Abstract == [Lifecycle!Next]_(Lifecycle!vars)
<1>8. ASSUME NEW j \in Jobs,
             \/ \E m \in RequestedMax : Lifecycle!Submit(j, EffectiveMax(m))
             \/ Lifecycle!Refuse(j) \/ Lifecycle!Start(j) \/ Lifecycle!Succeed(j)
             \/ Lifecycle!Fail(j) \/ Lifecycle!Cancel(j) \/ Lifecycle!EndOvertaken(j)
      PROVE  Abstract
    BY <1>8 DEF Lifecycle!Next
<1>9. UNCHANGED Lifecycle!vars => Abstract
    OBVIOUS
<1> HIDE DEF Abstract
<1>10. EnqueueStep => Abstract
    BY <1>1, <1>7, <1>8, <1>9 DEF EnqueueStep
<1>11. ASSUME NEW w \in Workers, WorkerStep(w) \/ PollTimeout(w) PROVE Abstract
    <2>1. \A j \in todo[w] : Reject(w, j) \/ Claim(w, j) => Abstract
        BY <1>0, <1>2, <1>3, <1>8, <1>9
    <2>2. Finalize(w) => Abstract
        BY <1>4, <1>8
    <2> QED
        BY <1>6, <1>9, <1>11, <2>1, <2>2 DEF WorkerStep, QueueStep, ScanStep
<1>12. ASSUME NEW c \in Cancellers, CancelStep(c) PROVE Abstract
    <2>1. CancelMark(c) => target[c] \in Jobs
        BY DEF CancelMark, TypeOK, Cancellable
    <2>2. CancelMark(c) => Abstract
        <3> SUFFICES ASSUME CancelMark(c) PROVE Abstract
            OBVIOUS
        <3>1. PICK j \in Jobs : j = target[c]
            BY <2>1
        <3>2. Lifecycle!Cancel(j) => Abstract
            BY <1>8
        <3> QED
            BY <1>5, <1>9, <3>1, <3>2
    <2> QED
        BY <1>7, <1>9, <1>12, <2>2 DEF CancelStep
<1>13. Abstract
    BY <1>7, <1>9, <1>10, <1>11, <1>12 DEF Next
<1> QED
    BY <1>13 DEF Abstract

-----------------------------------------------------------------------------
(* The theorems. *)

\* The queue and the ends of its jobs: the invariant that carries them all.
Consistent == TypeOK /\ Ownership /\ CancelsAreCurrent
QueueInv ==
    Consistent /\ Fresh /\ AttemptBudget /\ NoLostWakeup /\ Gone /\ CancelAnswerHolds

\* An empty queue satisfies the invariant.
LEMMA InitQueueInv == Init => QueueInv
<1> SUFFICES ASSUME Init PROVE QueueInv
    OBVIOUS
<1>1. Consistent
    BY InitType, InitOwnership DEF Consistent, Init, CancelsAreCurrent, Registered
<1>2. \A j \in Jobs : job[j].status = "absent" /\ job[j].attempt = 0 /\ job[j].max = 0
    BY DEF Init, NotStored
<1>3. Fresh /\ AttemptBudget /\ NoLostWakeup
    BY <1>2 DEF Fresh, AttemptBudget, NoLostWakeup
<1>4. Gone /\ CancelAnswerHolds
    BY DEF Init, Gone, CancelAnswerHolds, Terminal
<1> QED
    BY <1>1, <1>3, <1>4 DEF QueueInv

\* Every step keeps it, conjunct by conjunct.
LEMMA NextQueueInv == QueueInv /\ [Next]_vars => QueueInv'
BY NextType, NextOwnership, NextCancels, NextFresh, NextBudget, NextWakeups, NextDrained,
   NextAnswer
DEF QueueInv, Consistent

\* The safety part of the specification is enough for it: who schedules the
\* steps does not matter.
LEMMA QueueInvariant == Init /\ [][Next]_vars => []QueueInv
BY InitQueueInv, NextQueueInv, PTL

\* Every variable of the queue keeps its type.
THEOREM TypeCorrect == Spec => []TypeOK
<1>1. QueueInv => TypeOK
    BY DEF QueueInv, Consistent
<1> QED
    BY <1>1, QueueInvariant, PTL DEF Spec

\* Two workers never hold the same job.
THEOREM MutualExclusion == Spec => []OneRunPerJob
<1>1. QueueInv => OneRunPerJob
    BY DEF QueueInv, Consistent, Ownership
<1> QED
    BY <1>1, QueueInvariant, PTL DEF Spec

\* The record and the run in progress agree.
THEOREM RunAndRecordAgree == Spec => []RecordMatchesRun
<1>1. QueueInv => RecordMatchesRun
    BY DEF QueueInv, Consistent, Ownership
<1> QED
    BY <1>1, QueueInvariant, PTL DEF Spec

\* A job is run at most as often as its budget says, and dies exactly then.
THEOREM AttemptsStayInBudget == Spec => []AttemptBudget
<1>1. QueueInv => AttemptBudget
    BY DEF QueueInv
<1> QED
    BY <1>1, QueueInvariant, PTL DEF Spec

\* While the queue is open no queued job is forgotten.
THEOREM QueuedJobsAreAwaited == Spec => []NoLostWakeup
<1>1. QueueInv => NoLostWakeup
    BY DEF QueueInv
<1> QED
    BY <1>1, QueueInvariant, PTL DEF Spec

\* The cancels map holds exactly the CancelFuncs of the runs in progress.
THEOREM CancelsStayCurrent == Spec => []CancelsAreCurrent
<1>1. QueueInv => CancelsAreCurrent
    BY DEF QueueInv, Consistent
<1> QED
    BY <1>1, QueueInvariant, PTL DEF Spec

\* With the workers gone nothing is left that they had begun.
LEMMA QuietAfterDrain == QueueInv => DrainedIsQuiet
BY DEF QueueInv, Consistent, Gone, Ownership, RecordMatchesRun, CancelsAreCurrent,
    DrainedIsQuiet, Busy, Claimed, Registered

\* A Shutdown that returned nil leaves no running record and no CancelFunc.
THEOREM DrainedQueueIsQuiet == Spec => []DrainedIsQuiet
BY QuietAfterDrain, QueueInvariant, PTL DEF Spec

\* A terminal state that Cancel reported is the job's state for good.
THEOREM CancelAnswersHold == Spec => []CancelAnswerHolds
<1>1. QueueInv => CancelAnswerHolds
    BY DEF QueueInv
<1> QED
    BY <1>1, QueueInvariant, PTL DEF Spec

\* No step touches a record in a terminal state.
LEMMA TerminalStep ==
    QueueInv /\ [Next]_vars =>
        [\A j \in Jobs : job[j].status \in Terminal => job'[j] = job[j]]_vars
<1> SUFFICES ASSUME QueueInv, [Next]_vars, NEW j \in Jobs, job[j].status \in Terminal
             PROVE  job'[j] = job[j]
    OBVIOUS
<1> QED
    BY RecordMoves DEF QueueInv, Consistent, Moves, Terminal, Cancellable

\* A record in a terminal state never changes again.
THEOREM TerminalRecordsAreFinal == Spec => TerminalIsFinal
BY TerminalStep, QueueInvariant, PTL DEF Spec, TerminalIsFinal

\* The queue implements JobLifecycle, whatever the interleaving: every step of
\* the one is a step of the other or none.
LEMMA LifecycleImplemented == Init /\ [][Next]_vars => ImplementsLifecycle
<1>1. QueueInv /\ [Next]_vars => [Lifecycle!Next]_(Lifecycle!vars)
    BY LifecycleStep DEF QueueInv, Consistent
<1> QED
    BY <1>1, LifecycleInit, QueueInvariant, PTL DEF ImplementsLifecycle, Lifecycle!Spec

\* What workers, wake-ups and cancellations do together is no more than the
\* life cycle of each job allows.
THEOREM QueueImplementsLifecycle == Spec => ImplementsLifecycle
BY LifecycleImplemented, PTL DEF Spec
=============================================================================
