# Verification of the media watermark and fingerprint service

TLA+ models of the service under `src/`, the TLC runs that check them on small
instances, and TLAPS proofs of their main properties for every instance. All
line numbers refer to the sources in `src/`.

| module | what it is |
| --- | --- |
| `JobLifecycle` | abstract: what the queue promises of each job |
| `JobQueue` | `internal/job`: the queue, its workers, `Cancel`, `Shutdown`, over the in-memory store |
| `WorkerNode` | `internal/worker`: the node's slots and its drain |
| `JobService` | the queue with the handlers of `internal/service/application/jobs.go`, the node, and the end of `cmd/server/main.go` |
| `JobWatch` | the service with the gRPC streams of `internal/platform/grpcx` and what the end of main waits for |
| `UploadLog` | abstract: what resumable upload promises of each upload |
| `Upload` | `internal/ingest`: overlapping requests over the repository and the object store |
| `AssetLibrary` | assets: `internal/evidence`, `internal/storage` and the asset operations of `internal/service/application` |
| `Registries` | watermark keys (`internal/watermark`) and fingerprint configurations (`internal/fingerprint`) with the requests that read them |
| `RequestWindow` | abstract: which requests a rate limit admits |
| `Limiter` | the token buckets of `internal/platform/httpx/middleware.go` |
| `AudioAnalysis` | a WAV file from the parser over the decoder to the segments of its fingerprint |
| `LsbCodec` | the watermark codec with its payload and signature |
| `GridRotation` | the canonical rotation of a video fingerprint |
| `MediaAlgorithms` | the last three side by side, for one run |
| `MC...` | small instances for TLC |
| `...Proofs` | theorems and proofs about the module of that name; `JobServiceProofs` is also about `JobWatch`, `MediaAlgorithmsProofs` about the codec and the rotation |

`tlc -config <run>.cfg <MC module>` repeats a run, `tlapm <module>Proofs.tla` the
proofs of a module. `PROJECT.json` lists the runs, the source lines of every
definition, the hazards, and for each checked property a broken form (`Bug...`) of
one definition under which the property fails.

## 1. Inventory

The program is one process: an HTTP and a gRPC listener over an application
object (`service/application.App`) and in-memory repositories. Nothing is
persisted: a restart starts from nothing, so crash recovery does not arise. All
concurrency is that of request goroutines and of the queue's workers; each
repository serialises its own calls with a mutex, and no lock spans two calls.

| component | state | operations | interacts with |
| --- | --- | --- | --- |
| job queue (`job`) | records; `cancels`; wake channel; `closed`, `done` | Enqueue, Cancel, Shutdown, the worker loop | store (compare-and-set), handlers (callback), context |
| worker node (`worker`) | state, running, capacity | Acquire, Release, Drain, Snapshot | called by the analysis handler, the drain route, main |
| job handlers and API (`service`) | none of their own | analysis, always-fail, CreateJob, CancelJob | queue, node, evidence |
| server process (`cmd/server`) | progress of main | build, signal, GracefulStop, http Shutdown, App.Shutdown | all |
| upload ingest (`ingest`) | records with their bytes | Start, Append (with completion), Get | object store |
| object storage (`storage`) | objects by key | Put, Bytes, Delete, Exists | ingest, asset operations |
| evidence (`evidence`) | assets by id; timelines | CreateAsset, ChangeStatus, Timeline | asset operations |
| asset operations (`service`) | none of their own | CreateAsset, Freeze, Withdraw, Embed, Detect, CreateFingerprint, Match | storage, evidence, parsers, codec, keys, configs, matcher |
| watermark, keys, codec (`watermark`) | key versions and the active one | Current, All, Rotate, Embed, Detect | asset operations |
| fingerprint configs (`fingerprint`) | versions per configuration id | CreateDraft, Publish, Rollback, Current | CreateFingerprint |
| fingerprint algorithms, matcher | fingerprints by id | Fingerprint, Match | asset operations |
| parsers (`container`), decoders (`audio`, `video`) | none | Parse, Decode | asset operations |
| HTTP middleware (`platform/httpx`) | token buckets by client | Limiter, Recover, Timeout, BodyLimit, Authenticate, Logging | every request |
| routes, gRPC server | none; a ticker per Watch | decode, dispatch, Watch | App |
| config, clock, ids | none | start-up only | main |

What is hard, and what makes each correct:

* **Queue.** Workers act on snapshots of the store; a run, a Cancel and the
  next attempt of the same job race for its record; the CancelFunc is looked
  up, called and followed by a write without a lock over the three; the wake
  channel holds one token for any number of jobs; Shutdown may give up. Correct
  when a job is never run twice at a time, a terminal record never changes,
  attempts stay in the budget, no queued job is forgotten, and what Cancel
  answered stays true.
* **Node.** The slot of a run that a Cancel overtook outlives the job's
  cancellation; draining ends in Release or in Drain. Correct when the counter
  is the number of holders on every path and a draining node stops.
* **Upload.** `Append` checks a copy of the record, then up to four further
  calls run with other requests in between, and any of them may be the last.
  Correct when data is neither duplicated nor lost, only whole uploads are
  stored, and complete means stored and final.
* **Assets and evidence.** ChangeStatus is a read and a write of the whole
  record; objects are stored before they are registered; events are added after
  the update. Correct when a withdrawn asset stays withdrawn, an asset keeps its
  object and its digest, and the timeline tells of what was done and no more.
* **Registries.** A request reads a version in one step and uses it in a later
  one, and versions change in between. Correct when one key is active and at
  most one version is published after every sequence of operations, a stored
  mark can always be verified, and no draft gets into a fingerprint.
* **Limiter.** The clock is read before the lock, so that a bucket sees its
  readings out of order. Correct when the bucket still answers as an account of
  all requests would.
* **Watch and the end of main.** A stream sees the job only every 100 ms;
  GracefulStop waits for the streams, and they wait for jobs. Correct when the
  last thing sent is how the job ended, and the process always exits.
* **Codecs, parsers, segmentation.** Sequential; boundaries of widths and sizes,
  and two walks over the same file that must agree.

## 2. Plan

Done, most important first: the queue and its life cycle, node and server
composition, resumable upload, the asset library, the registries, the limiter,
the streams and the exit of the process, the algorithms on media, and the
proofs: every safety property that a run checks, invariant, action property or
refinement, is a theorem.

What could still be added: the walks of the MP4, WebM and MPEG-TS parsers,
which no second walk repeats; the selection of candidates by the matcher.

No module declares a RECURSIVE operator, so that all of them can be proved
about; the one recursion, `Split`, is a recursive function.

## 3. What is modelled, and how

### JobQueue

A step is what the code does between two points at which another goroutine can
intervene: one call of the store (`Memory.mu`), one access to the map of
CancelFuncs (`Queue.mu`), one channel operation, the return of a handler.

| code | model |
| --- | --- |
| record in `Memory.jobs` | `job[j]`; its error text is a member of `Errors` |
| `Queue.cancels[id]` | `cancels[j]`, the attempt whose CancelFunc it is, 0 for nil |
| `Queue.wake` (capacity 1) | `wake`; `unsent` holds the Enqueue calls between Create and the send |
| worker loop, lines 118-201 | `pc` top, list, scan, claimed, handler, returned, finalize, idle, exited, with `todo`, `did`, `cur`, `run`, `ctx`, `result` |
| `Enqueue` | `Enqueue`, `EnqueueWake` |
| claim and its compare-and-set | `Claim`, `ClaimRefused`; unknown kinds: `Reject` |
| storing, calling, deleting the CancelFunc | `RegisterCancel`, `HandlerReturn`, `DropCancel` |
| outcome | `Finalize` with `FinalRecord` |
| `Cancel`, lines 67-101 | `CancelGet`, `CancelLookup`, `CancelFire`, `CancelMark` or `CancelMarkFails`, `CancelReread` or `CancelRereadFails` |
| the 100 ms timer of the idle worker | `PollTimeout` |
| `Shutdown` and the goroutine that waits for workers | `Shutdown`, `ShutdownDone`, `ShutdownExpires` |

Store calls fail only when their context has ended; the workers' root context
never ends, so the failures are those of the request that cancels. A run of a
job is named by job and attempt. Times other than the creation time are left
out, as are payloads and results. A snapshot is worked off in the order of
priority and creation (`Foremost`).

`JobLifecycle` sees of a job its status, its budget, its number of starts, and
whether it is being served; a service ends by being reported, which changes the
record only if nobody canceled the job meanwhile. `Lifecycle` in `JobQueue` is the
refinement mapping, `ImplementsLifecycle` the property.

### WorkerNode and JobService

`JobService` extends `JobQueue` and instantiates `WorkerNode`. `HandlerReturn`, free in
the queue's own model to happen at any time with any result, is here what the
two registered handlers do: `analysis` takes a slot, waits some ticks of 25 ms, looks
its asset up and gives the slot back; `always-fail` returns an error, or the
context's. `Signal`, `CloseListeners`, `ShutdownQueue` and `Exit` are the end of main in
its order; requests are accepted until the listener is closed, and those in
progress go on. The gRPC calls for jobs are the same as the HTTP ones.

### JobWatch

`JobWatch` adds to the service the streams of `Watch`, one step for each turn of the
loop: one Get, the message if status or attempt differ from the last ones sent,
and the end if the status is terminal (`WatchLook`); NotFound (`WatchRefused`); the end of the
stream's context or a failed send (`WatchLost`). The step of main that closes the
listeners waits until no stream is open (`GracefulStopWaits`), as GracefulStop does;
unary calls end by themselves. `last` is forgotten when a stream is lost.

### Upload

The digest is represented by the bytes it is the digest of, an object by its
bytes. `upload[i]` and `data[i]` are the two fields of a repository record and
change together in `AppendChunk`; `copy[r]` is the local `u` that `Update` writes back.
`Return` is the end of a request; `Abandon` is every error return after the first
Get other than the conflict of offsets: the context of the request ended before
the next call, or the store refused the object. A refused chunk changes nothing
and is no step. Timestamps are left out. Nobody else writes the object of an
upload in this model; the key is shared with assets, and `AssetLibrary` has uploads
as second writers of it.

`UploadLog` sees a log per upload that is opened with a size, extended, stored
when it is full, and sealed when it is stored.

### AssetLibrary

A step is one call of a store. Each request is made once and its locals stay
where its end left them, so that they tell what it did. `objects` is the object
store, `assets` and `timeline` the evidence store; a digest is represented by the bytes
it is the digest of, bytes by what they show and whether they are marked.

| code | model |
| --- | --- |
| `App.CreateAsset`: Put, evidence CreateAsset, AddEvent | `CreateAsset`, `Register` or `RegisterRefused`, `AddEvent` or `EventLost` |
| `ChangeStatus`: GetAsset and checks, UpdateAsset, AddEvent | `ChangeStatus`, `UpdateAsset`, `AddEvent` or `EventLost` |
| `App.EmbedWatermark`: GetAsset and check, Bytes, Put, evidence CreateAsset, AddEvent | `UseAsset`, `ReadObject`, `StoreWatermarked`, `Register`, `AddEvent` or `EventLost` |
| `App.CreateFingerprint`: GetAsset and check, Bytes, Save | `UseAsset`, `ReadObject`, `SaveFingerprint` |
| completion of an upload under an id | `StoreUpload` |
| an error before the next call: a context that ended, bytes that the parser, decoder or codec refuses | `Abandon` |

The idempotency key of a creation and the id of an upload come from the client and
may name any id; `Fresh` are those that `IDs.New` makes, which are random and taken not to
collide. Requests that are refused at their first call change nothing and are no
steps. Neither route asks for the status active. Limits on sizes are
left out.

### Registries

`keys` and `configs` are the two stores; a version is its place in a sequence. `Promote` is
the common end of `Publish` and `Rollback`. An embedding reads the current key
(`EmbedCurrent`) and stores a copy later (`StoreCopy`); a detection reads a copy (`ReadCopy`) and
then all keys (`Detect`); a fingerprint reads the configuration (`UseConfig`) and is saved
later (`SaveFingerprint`). A mark is represented by the version that signed it, and `Verifying`
are the versions whose secret would verify it: rotation accepts a secret that
was used before. `Rollback` has no caller in the repository but is an operation of the
store. Requests that are refused and drafts that do not validate change nothing.

### Limiter

A request reads the clock in one step (`ReadClock`) and passes the lock in another
(`Serve`, `Refuse`). Tokens are integers: a request costs `Cost`, a tick brings `Rate`; with
rational values of the code's floating-point numbers every instance is a change
of unit. `RequestWindow` knows no bucket: a request is served exactly when, with every
run of requests served before it, it fits into the burst and what the time
since the first of them gives, be that time negative. `RateIsKept` says what that comes
to for a stretch of time, whichever of its requests were served first.

### AudioAnalysis, LsbCodec, GridRotation

These are sequential; a step is one turn of a loop. They share no state and are
checked in one run, in which `task` says which of them is at work.

`AudioAnalysis` chooses the headers of a file when the parser comes to them and keeps
them for the decoder, which walks them again (`DecodeChunk`) and takes the depth from
bytes 34 and 35 of the file (`depthAt34`). If the first chunk is not the fmt chunk, what
stands there is any number of `Depths` or 0: more than the file's other contents would
permit, so that what holds here holds of them. Rejections for reasons that are
not looked at (codec, rate, duration, number of samples) may always happen. The
constants `MinWindow` and `MinSegment` are 64 and 32 in the code, `Overlaps` counts
hundredths, scaled down for TLC and free in the proofs. The code multiplies
floating-point numbers and truncates, which may give one sample less than the exact
step (`StepsOf`).

`LsbCodec` keeps of a carrier the characters in its low bits. A string is a sequence of
characters and may contain the separator; a signature is one character that
stands for 64 and names what it signs, so that two payloads share one exactly
when the joined strings that are signed agree. The response to an embedding returns the
signature (watermarks.go:49), and the fields are not checked for what they hold: clients
may write any signature that was returned to them, with this carrier or with another
asset's (`signed`, `EmbedElsewhere`), into any field (`Writable`, `Known`). What is assumed is the
HMAC alone: nobody writes a signature that the service has not made. `Payloads` are those
that Validate accepts: no field is empty, the value is not too long. `SizeMod` is 2^16 in
the code and any positive number in the proofs. `Grow` is one turn of the loop that splits a
payload. Rotation of keys is the concern of `Registries`: one key signs and verifies here. `Cut` and `CutAll` are a
shortened copy. Carriers whose low bits somebody else has written, without LSB.Embed, are not
modelled.

`GridRotation` represents a number of N*N bits by the set of its ones; `Less` compares such
sets as numbers. N is 8 in the code.

## 4. Runs

| run | instance | shows |
| --- | --- | --- |
| `JobQueue_cancel` | 1 job, 2 workers, 2 Cancel calls, MaxAttempts -1, default 3, 1, a known and an unknown kind | record, run, `cancels` and answers agree; terminal is final; attempts stay in budget; the queue implements `JobLifecycle` |
| `JobQueue_live` | 2 jobs with a retry each, 2 workers | no job is run twice at a time; no queued job is forgotten; every job settles; Shutdown completes |
| `JobQueue_cancel_missed` | 1 job, 1 worker, 1 Cancel call | violation, see section 5 |
| `JobQueue_cancel_kills` | the same | violation, see section 5 |
| `JobService_safety` | 2 analyses, 2 workers, 1 Cancel call, drain and shutdown at any moment | slots are accounted for, an active node never refuses, a clean exit leaves nothing running |
| `JobWatch` | 1 job of three kinds with a retry, 1 worker, 1 stream, 1 Cancel call, drain and signal at any moment | a stream ends and has sent the job's end; a draining node stops; every job settles; the process exits |
| `Upload` | 1 upload of up to 3 bytes of 2 values, 3 requests, chunks of 0 to 2 bytes | resume point, whole objects, complete means stored and final; the log is implemented |
| `AssetLibrary` | 2 ids, 4 requests, 2 media | assets keep object, key and digest; digests, fingerprints and timelines are true but for named exceptions |
| `AssetLibrary_withdrawn` | 1 id, 3 requests | violation, see section 5 |
| `Registries` | 3 requests, 3 key versions over 2 secrets, 2 configurations of up to 3 versions | one is current; marks are detected; no draft in a fingerprint |
| `Limiter` | 2 clients, 2 requests at a time, burst of 2 requests, 4 ticks | the bucket implements the window; no stretch of time admits more than its due |
| `MediaAlgorithms` | WAV files of 44 to 60 bytes, 4 sizes, 3 depths, 1 or 2 channels, 3 windows, 4 overlaps; payloads of up to 2 by 2 by 31 fields, 2 of them signed, embedded here or elsewhere, a length modulo 12; all grids of 3 by 3 | decoder and parser agree, segments cover, detection is exact where the length fits and signed where it has wrapped, the rotation kept is the least |

Bounds. A job races with one other run of itself (a stale snapshot), one retry
and at most two Cancel calls, so one job, two workers and two calls contain
every pair of racing steps on a record; a second job is needed only where jobs
compete (the wake token, the snapshot, the slots). Attempts are bounded by
MaxAttempts in the code itself; each job is created once because ids are unique;
a Cancel call runs again from idle, so that two slots stand for any number
of calls in sequence. Three requests let one append while another completes and
a third holds a stale check; three bytes with chunks of two let a chunk be
too long, exact, and a repetition at an old offset. Of the four requests of the
library one creates the asset and three race over it: two that change its status
and one more, or an embedding, its second id, and an intruder; two media tell the
intruder's bytes from the asset's. `AnalysisTicks = 1` stands for 20: a tick
differs from the next only in its number. Identical workers, requests, jobs and
byte values are symmetric in the runs without a liveness property.
The stream of `JobWatch` is a reader that changes nothing the service reads, and main
waits for all streams alike: one stream, one worker and a job with one retry
contain every order of its looks and the job's changes. Three versions of a key
let one be active, one retired and one repeat a secret; three versions of a
configuration leave a draft older than the published one. A tick brings two
thirds of a request's cost and the burst is two requests, so that a bucket is
empty, refilled and full within four ticks. The sizes of chunks let a body end
at, before and behind the end of the file, be odd, and hold no, one and two
windows; the payloads hold separators in every field, exceed a carrier, and
wrap around the length.
`JobService_safety` also takes states for one that differ only in which terminal
status a job has and in answers already given (`WithoutEndings` in `MCJobService`): no
step and none of its properties distinguishes them, and without this the run
visits twice as many states.

`CHECK_DEADLOCK FALSE` stands where the system stops: after the last job is
settled and the workers have left, after the process has exited, once every
upload is complete, once every request to the library has ended, once the
limiter's clock has reached its bound, and once an algorithm is done. The two safety runs of the queue keep the deadlock check
on: there a Cancel call of a job can always be made.

### Fairness

`Fairness` of `JobQueue` asks weak fairness of each worker, of each Enqueue's send on
the wake channel, and of the goroutine that ends Shutdown's wait: goroutines
that can run do run. That a handler returns is part of a worker's fairness; the
registered handlers are bounded by their timers and, in `JobService`, are steps of
their own. Nothing is asked of clients, of Cancel calls, of the signal, nor of
`PollTimeout`: `EveryJobSettles` and `ServiceSettles` show that wake-ups alone suffice, and
the timer of 100 ms is not what saves the queue. `ShutdownCompletes` allows the
context's expiry but not that it be needed.

`WatchFairness` adds that a stream's loop runs, which its ticker drives, and that after
the signal main goes on (`MainStep`): each of its calls returns once what it waits for has
happened, and the queue's shutdown at the latest when its deadline has passed.
`ServerExits` asks nothing of clients: no stream has to be given up, no job to be
canceled.

## 5. Findings

* `JobQueue_cancel_missed`. README.md:26 says that cancel cancels a queued or
  running job. Between the claim (queue.go:152) and the registration of the
  CancelFunc (queue.go:163) there is nothing to call: Cancel marks the record and
  answers "canceled" while the handler runs to its end with a live context.
* `JobQueue_cancel_kills`. README.md:26 describes dead as the end of repeated
  failures. When Cancel's call of the CancelFunc lets the last attempt finish
  before Cancel's own write, the job is recorded dead with the context's error,
  and the client is answered "dead".

* `AssetLibrary_withdrawn`. "withdrawn asset cannot change status"
  (evidence/application/service.go:46) is checked on a copy that is written back whole
  seven lines later: a freeze that read the asset before a withdrawal and writes
  after it makes the withdrawn asset frozen, and every later change is allowed.

The runs keep the three as expected violations; the properties around them hold:
`TerminalIsFinal` and `CancelAnswerHolds` for the queue, and `OnlyOverlapRevives`, which says
that such an overlap is the only way a withdrawn asset comes back. `DigestsAgree`
names another weakness that no document of the repository denies: a second
creation under an idempotency key is refused only after its bytes have replaced
those of the existing asset (assets.go:32), and a completed upload may carry an
asset's id; the asset's digest is then not that of its object.

Further weaknesses met while modelling, of which the repository says nothing:

* A repeated Publish publishes the next older draft (config_store.go:57), and the
  version that was wanted is retired.
* A secret that was used before makes detection report the older version that
  has it (lsb.go:71); `EmbeddedIsDetected` says what is left: the same secret, no later
  version.
* The length of a payload is stored modulo 2^16 (lsb.go:25), its fields may hold the
  separator, and the text that is signed joins them with "|", which they may hold
  too (service.go:68). Where the length has wrapped, detection can answer with fields that were
  not embedded. `DetectionIsExact` says what is left: without a wrap the answer is the embedding
  or corrupt, and with one the fields, joined, are a text the service has signed.
* A watermarked copy is registered with the format and metadata of its source
  (watermarks.go:44), but the mark overwrites low bits from the first byte on. In a
  WAV file these are those of the RIFF size and of "WAVE": no marked copy can be
  fingerprinted.
* Two fmt or data chunks: the parser keeps the last of each, the decoder uses
  the first data chunk and the depth at byte 34. `DecoderFollowsParser` therefore speaks of
  agreement for the usual layout only.
* With an overlap below half the minimal segment the last samples, fewer than
  32, are in no segment (audio.go:34); `SegmentsCover` says when none are lost.

## 6. Proofs

Proved for every number of jobs, workers, Cancel calls, uploads, requests,
versions, slots, rates, letters and every size, from the assumptions stated with
the constants (ids differ from the stand-ins for zero values; there is a finite,
nonempty set of workers; numbers are integers; chunk bodies are sequences of
bytes). That a signature tells what it signs, and that clients write only those they were
given, is in the model (`Sign`, `Writable`).

**JobQueueProofs.** `TypeCorrect` is inductive by itself. `OneRunPerJob` is not: a
worker may claim a job because its record says queued, and that nobody holds it
then is what `RecordMatchesRun` says. Their conjunction, `Ownership`, is inductive, and
gives `MutualExclusion` and `RunAndRecordAgree`. With it `RecordMoves` describes once what
any step can do to a record (`Moves`: nothing, create, claim, settle, queue again),
and `TerminalRecordsAreFinal`, `AttemptsStayInBudget` and the refinement follow from that
description instead of from the actions. `CancelsStayCurrent` needs `Ownership` to know
that two runs in the map are of different jobs. `QueuedJobsAreAwaited` follows one job
through wake token, snapshot and `did`. `DrainedQueueIsQuiet` adds that all workers are
gone (`Gone`). `QueueImplementsLifecycle` maps each action to a step of the abstract
specification or to a stutter, using `Consistent`, `AttemptBudget` and `Fresh` (an absent job
has no attempts). All of it is joined in `QueueInv`, which is shown from the initial
condition and the steps alone, without fairness (`QueueInvariant`): whoever schedules
these steps inherits the theorems.

**UploadProofs.** What can be stored or complete depends on what each request
still carries, so `UploadInv` joins the three safety properties with `Announced` (a
size is positive exactly when the upload was started) and `Reliable`: a chunk
admitted from an outdated record still fits if its offset is still the end of
the data; a request that completes works on a full upload, with a copy equal to
the record it will replace. The point of the argument is `AppendFits`: an append to a
full upload appends nothing, so a full upload never changes, and `UpdateSettles`: a second
completion writes what is there. `CompleteIsFinalHolds` and `UploadImplementsLog` rest on these.

**AssetLibraryProofs.** `LibraryInv` says for each point of a request what it relies on there
(`Carried`: the bytes it is about to register are stored, the copy it is about to
write back has the asset's key and digest). A step of one request spoils that for no
other because of `StoresGrow`: objects are replaced but never removed, and assets keep
their identity. Each action is shown to keep both (`Keeps`). `OnlyOverlapRevivesHolds` adds
that a withdrawn asset names its withdrawer (`WithdrawnBySomeone`), `DigestsAgreeHolds` that
every original has a writer and whatever was read has an explanation
(`BytesAreKnown`), and that explanations hold for ever because a creation that finds
the id taken never registers. `TimelineIsTrueHolds` counts: a step makes
at most one request more done (`DoneGrows`), a timeline grows only by the event of a request that
is done from then on (`WhoTells`), so events never outnumber such requests
(`EventsAreCounted`); and requests that change a status join `Changed` only by the write
itself (`WhoChanges`), so the status is the wish of one of them (`StatusIsSet`).

**JobServiceProofs.** Every step of the service is a step of the queue or none of the
queue's (`ServiceStepIsQueueStep`), so that `QueueInv` carries over from `JobQueueProofs`, and with it
everything the queue promises: `ServiceKeepsPromises`, `ServiceTerminalRecordsAreFinal`, and the
refinement of the life cycle by the whole service (`ServiceImplementsLifecycle`). The runs of
the service do not check these again: the run of `JobService_safety` does not even
tell terminal statuses apart. Added to `QueueInv` is `NodeInv`: the counter is the number of workers with a slot,
a draining node has one taken and a stopped one none, and main drains before it
does anything else. A step moves the ticks of one worker at most (`OneWorkerMoves`), which
gives the change of the cardinality; that only a worker in the analysis handler
holds a slot needs that no step changes the kind of a stored job (`KindsStay`).
`ActiveNodeHasRoom` then counts: a worker that wants a slot has none, and there are no more
workers than slots. `ExitIsClean` combines the node's part with the queue's.

Its last section is about `JobWatch`. The streams write nothing of the service and the
wait of GracefulStop only delays main, so `WatchSpec` implements `ServiceSpec`
(`WatchedServiceIsService`, fairness included) and all that is proved of the service holds beside any
number of streams. `WatchVerdictHolds` follows because a stream ends on a terminal state it
has just sent, and `RecordMoves` of `JobQueueProofs` lets no later step change such a record.

**RegistriesProofs.** `RegistriesInv` joins the three properties with `NewestIsActive` (a key is active exactly
when it is the newest), `OnePublished`, and `Signed`: the version a request is about to store,
or has stored, exists. Keys are only appended and keep their secrets, so a mark
stays verifiable; versions are only appended and never become drafts again, so
what a fingerprint read stays published or retired.

**LimiterProofs.** `BucketInv` gives a bucket's contents without the bucket's history: the least,
over the requests served, of what burst and gain since that request leave of
the cost since then. Every such term moves by the same amount when the reading
moves, forwards or backwards (`TermMoves`), and a served request adds one term; hence the
bucket answers as the window does (`SameAnswer`). `RateIsKeptHolds` draws the conclusion that an
operator of the service is after: requests served in a row fit between the times
of the first and the last (`FitGrows`), and those of any stretch of time, which need not
have been served in a row, lie in such a run, from the first to the last of them to
be served (`HitsFit`).

**AudioAnalysisProofs.** `AudioInv` says for each stage what holds: while the parser walks, the offset is
behind its last header; a header's offset names one header (`ChunkFound`); the decoder
stands at a header with no data chunk before it, and a data chunk is still
ahead or there, so its walk cannot leave the file (`DecoderHasHeader`); the segments are a
chain. The theorems are about `AudioSpec`, the audio part by itself; `AnalysisRunsAlone` of
`MediaAlgorithmsProofs` carries them to the specification that the run checks
(`AnalysisStaysSound`).

**MediaAlgorithmsProofs, the codec.** What `Split` makes of a string needs induction over its
length. The library's induction theorems are about operators and cannot be
instantiated; that `<` on the natural numbers is well-founded is a statement about
sets, and gives induction for sets of numbers (`NatSetInduction`) and of sequences
(`SeqSetInduction`). With these: a run of the loop exists and is determined by the characters it has
read (`SplitsExists`, `SplitsAgree`), a string splits into one part more than it has separators,
and parts joined and split again are the parts (`SplitJoined`, `SplitParts`). `CodecInv` says that the low
bits of a marked carrier still begin with the payload last embedded, as far as the
carrier reaches (`CarrierHolds`): an earlier, longer payload shows only behind it, and cuts take
away from the end. It says too that every signature in the carrier is one that the service
has returned (`Known`), which each embedding keeps, because it adds its own signature to
those returned (`ReturnKeeps`). `AnswerIsExact` decides every case of a detection: with a length that
fits, the parts are the five fields, or more than five where a field holds a separator
(`SplitCounts`); and whatever was split, a part that verifies is a signature found in
the carrier, therefore a returned one, and names the text of a payload that was signed
(`VerifiedWasSigned`). Nothing is assumed of the clients' strings.

**MediaAlgorithmsProofs, the rotation.** `Less` is a strict total order on grids (`LessIrreflexive`, `LessTransitive`, `LessTotal`:
two grids differ at a highest place, `HighestPlace`). Turning a grid a given number of times has a
formula for each number (`Turned`, `TurnTurned`), and four turns are none, so that a grid and its
rotations have the same rotations (`SameRotations`). `GridInv` counts the turns: the grid in hand is the
one sampled turned so often, and what is kept is among those seen and none of them is
less. `BestStaysCanonical` is this after three turns, and `FingerprintsTellGridsApart` follows with the order: two grids get
the same number exactly when one is the other turned.

**Only model-checked.** Liveness, under fairness: `EveryJobSettles`, `ShutdownCompletes`, `DrainFinishes`,
`ServiceSettles`, `WatchEnds` and `ServerExits`. TLAPS has no rule for ENABLED and weak fairness here;
`NoLostWakeup`, `DrainingMeansOccupied` and the refinements are the safety halves of the arguments that
these properties hold, and are proved.

## 7. Not modelled

* The parsers of MP4, WebM, MPEG-TS and MP3, whose walk nothing repeats, and the
  synthesis of samples and frames for these formats: arithmetic on
  floating-point values, as are energies, tones and the matcher's similarities.
* What only reads: Match, Timeline, Snapshot, the Get routes, Health.
* The matching of paths, JSON, status codes, the API key, logging, metrics,
  request ids, and the registration of the gRPC methods. `Timeout` is modelled by what
  it leaves behind: a request whose context has ended (`Abandon`).
* Start-up: configuration, listeners, the object graph.
* Code without a caller: Delete and Exists of the object store, SaveReview,
  Downsample, Normalize, Thumbnail, Rotate90.
* The order in which Go's select picks among ready cases is left free.
