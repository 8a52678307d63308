# The media engine in TLA+

This directory holds a formal model of the media engine: TLA+ modules translated
from `src/`, TLC configurations that check them on small instances, and proofs of
the main safety properties for every instance. `PROJECT.json` is the index: which
definition models which lines (`map`), which run checks which property (`runs`),
for each property a small bug in a mapped definition that makes it fail
(`mutants`), where the code departs from its own documents (`findings`), and what
in this code is hard to test (`hazards`).

    tlc -config repository.cfg MCJobRepository        # any run of the table below
    tlc -config engine_two_jobs.cfg MCMediaEngine
    tlapm MediaEngineSafetyProofs.tla                 # any *Proofs module

## 1. The system

Three kinds of process share one PostgreSQL database, one storage volume and one
NATS server.

| part | source | state | operations |
|---|---|---|---|
| Job domain | `internal/domain` | none of its own | `NewJob`, `CanTransitionTo`, `IsExpired` |
| Job repository | `adapters/postgres/repository.go`, `migrations/` | tables `jobs` and `job_artifacts` | `CreateJob`, `UpdateJobStatus` (a transaction), `AddArtifact`, `DeleteJob`, `ListExpiredJobs` (a list, then one query per job), reads |
| File store | `adapters/localfs/filestore.go` | files on the volume | `Save`, `Open`, `Delete` |
| Event bus | `adapters/nats/eventbus.go` | messages in flight and in the clients' queues | `Publish`, `Subscribe`, `SubscribeQueue`, `Unsubscribe` |
| Upload service | `core/upload.go`, called by `handlers/http/handler.go` in the gateway | the progress of each request | `ProcessUpload`: file, row, event, and the rollback of each |
| Worker service | `core/worker.go`, `cmd/worker/main.go` | the handler that is running, the subscription | `Start`, `HandleJobCreated`, `Stop`, process shutdown |
| Media processors | `handlers/media` | none | `Process`: open, decode, save the artifacts one by one |
| Janitor | `core/janitor.go`, `cmd/janitor/main.go`, `handleJanitorCleanup` in the gateway | the list a sweep works on | `PruneExpired`, the forced cleanup, `Start`, `Stop` |
| Event streams | `handleSSEEvents` in the gateway | one channel per open page | first read, subscription, a read per event |
| Gateway process | `cmd/gateway/main.go` | its connections, the janitor's goroutine, NATS connection and pool | serving, the shutdown after a signal |
| Queries, templates | `handlers/http` | none | dashboard, job, download |

How they interact:

- the gateway writes the upload's file, then its row (`pending`), then publishes
  `jobs.created`; on a failure it undoes what it did;
- NATS gives each event to one member of each queue group; a worker reads the row,
  moves it to `processing` (this is the claim: the transition succeeds once), runs
  the processor, records the artifacts, writes `completed` or `failed`, and then
  publishes the outcome;
- a sweep lists the rows that expired, reads their artifacts, and for each job
  deletes the files and then the row, whatever the job's worker is doing;
- a page links to the artifacts of its job; a download is looked up in the list the
  janitor's query gives for a year ahead, at most 100 rows of it;
- a signal stops a process: the gateway stops its janitor, then its server, then closes
  what both use;
- nothing but the row lock inside `UpdateJobStatus` orders these processes.

What is hard here: row, file and event are written one after the other with no
transaction around them, so each failure or crash between two of them leaves
something behind; delivery is at most once, and a worker process that dies or is
stopped forgets its job; sweeps and workers touch the same job with no lock; a
status is judged on a value read earlier; an outcome is published after it was
committed, by a call that may fail; a shutdown meets sweeps, streams and statements in
any state, and a deadline; sizes and pixels are quotients rounded through floating
point; the text of a PDF is what regular expressions find in it.

What makes each part correct:

- repository: the status that is judged is the status that is overwritten; each
  status is entered at most once; the table changes only along `CanTransitionTo`;
  every call ends;
- upload: no event without a row, nothing left after a rejection;
- worker: one owner per job, outcome and announcement agree, no job is forgotten,
  a completed job is complete;
- janitor: only jobs whose time is over go, all of them go, and their files too;
- streams: a page that the outcome reaches shows it, and the card of a completed job is
  final: it misses no artifact that the job has;
- gateway process: when `Stop` has returned no sweep runs, requests keep NATS and
  the database until they are answered or the deadline is over, and the process exits;
- queries: the links on the page of a live job work;
- processors: each variant fits its box and keeps its shape, the text of a PDF comes
  out in order.

## 2. The modules

| module | what it is |
|---|---|
| `JobStatus` | statuses and transitions of the domain |
| `JobLifecycle` | abstract specification of the job table: a job is inserted once, advances along `CanTransitionTo`, is removed once |
| `JobOwnership` | abstract specification of the workers: a job is claimed once, released for good, announced at most once after that |
| `JobFeed` | abstract specification of what a page that follows a job may rely on: it moves forward, its artifacts are recorded while it is processed, its outcome is published once and only its removal comes after that; if no statement fails, it is completed with all its artifacts and its outcome published after it was written |
| `JobRepository` | the repository under concurrent callers, `UpdateJobStatus` statement by statement with its row lock; refines `JobLifecycle` |
| `MCJobRepository` | its TLC instance |
| `JobRepositoryProofs` | its theorems |
| `Storage` | tables, volume and clock as the services see them: each call of a port is one action with its ways to fail |
| `EventBus` | `jobs.created` on core NATS |
| `UploadService`, `WorkerService`, `JanitorService` | the services, over `Storage` and `EventBus` |
| `MediaEngine` | the three services together, the passing of time, the properties, the fairness; refines `JobLifecycle`, `JobOwnership` and `JobFeed` |
| `GatewayQueries` | what the gateway reads in a state of `MediaEngine`: the links of a page, the search behind a download |
| `MCMediaEngine` | the TLC instances of both |
| `EventStream` | the pages that follow one job: `handleSSEEvents` against a worker and a sweep, which refine `JobFeed` |
| `MCEventStream`, `EventStreamProofs` | its TLC instances and its theorems |
| `GatewayProcess` | a gateway process from its start to its exit: server, janitor loop, shutdown |
| `MCGatewayProcess`, `GatewayProcessProofs` | its TLC instance and its theorems |
| `ImageResize`, `PdfText` | `resizeMax` and the text extraction as operators |
| `MediaProcessors` | the artifacts both processors make, one by one, over these two |
| `MCMediaProcessors`, `MediaProcessorsProofs` | its TLC instances and its theorems |
| `MediaEngineProofs` | type correctness of the whole engine |
| `MediaEngineSafetyProofs` | what holds whatever fails, and the two refinements |
| `MediaEngineFilesProofs` | no live job loses a file or a link; a sweep removes no row before the files that its page lists; nothing is left of a completed job |
| `MediaEngineProgressProofs` | what holds only without some faults: no job is forgotten, a refusal leaves nothing |

### Correspondence

**JobRepository.** `row[j]` is the committed row (`absent` before the insert,
`deleted` after the delete; ids are fresh UUIDs, so a deleted job does not come
back). `tx[c]` is the call that connection `c` runs and `holder[j]` the transaction
that locked row `j`. `Begin`, `SelectForUpdate`, `NotFound`, `Reject`, `ExecUpdate`
and `Commit` are the statements and early returns of `UpdateJobStatus` in order;
`Finish` is the deferred `Rollback`, which is part of every way out of the
function; `Abort` is an error at any statement. `commits` is a history variable:
it counts how often a row was moved to a status. `Commit` covers a
commit whose caller is told it failed: for the table both are the same step.

**Storage.** `row`, `expiresAt`, `artRows` are the two tables, `files` the volume.
A file is a pair: `<<j, 0>>` is the upload of job `j`, `<<j, k>>` its `k`-th
artifact. An operator such as `UpdateJobStatus(j, next, ok)` is one whole call;
`ok` says whether the caller sees a nil error. The call may be atomic here because
`JobRepository` shows that the transactions behave like that (`CallsAreAtomic`, proved
for any number of connections): `Commit` is the call with `ok`, `NotFound` and `Reject`
are the refused call, `Abort` is the fault `db`, and a commit whose answer is lost is
the fault `ack`. The faults of an instance are the
set `Faults`:

| fault | in the code |
|---|---|
| `db` | a statement fails and nothing is applied |
| `ack` | it is applied and the caller sees an error: a lost connection, a request cancelled while its statement runs |
| `fs` | `Save` fails, leaving nothing or a partial file (`io.Copy` after `os.Create`); `Delete` or `Open` fails |
| `bus` | `Publish` fails |
| `drop` | NATS loses a message (a slow consumer, a reconnect) |
| `media` | the processor rejects the file or panics |
| `crash` | a process dies and is started again |
| `stop` | a worker gets SIGTERM, its shutdown ends, it is started again |

**EventBus.** `inTransit` holds one copy of an event per queue group, `pending[w]`
the queue in the client of worker `w`. nats.go runs the callback of a
subscription on one goroutine, so a worker handles one event at a time
(`design.md:129` speaks of concurrent handlers; the code starts none).
`Unsubscribe` discards `pending[w]`, as `Subscription.Unsubscribe` does. A message
for a group without members is lost.

**UploadService.** `up[j]` is the request that makes job `j`. `RejectUpload`,
`SaveUpload`, `RegisterUpload` and `PublishUpload` are the four parts of
`ProcessUpload`; `UndoRow` and `UndoFile` its rollback, whose errors are ignored
as in the code. The error of `NewJob` cannot happen after the validation and has
no action.

**WorkerService.** `at[w]` is the place of the handler in `HandleJobCreated`:
each call that other processes can see is one action. `OpenSource` and
`SaveArtifact` are the processors, an image giving three artifacts and a PDF two;
`FailJob` is the error branch and the recovered panic (the same two calls).
`StopWorker` is SIGTERM with `Stop` and `Drain`, `ExitWorker` the end of the 15
seconds, `WorkerCrash` a crash; after both the process is started again.

**JanitorService.** A sweeper is the janitor process, the gateway's ticker or the
cleanup endpoint; those in `Forced` run the forced cleanup. `todo[s]` and
`arts[s]` are the list and the artifacts as they were read. `PruneFiles` merges
the deletions of one job's files, which nobody else reads in between, except that a
crash may leave any part of them (`SweepCrash`).

**MediaEngine.** `Tick` lets a unit of time pass. It implements `JobOwnership` with
`claimable` as the jobs whose row is absent or pending, `owners[j]` as the workers
whose handler is past the claim of `j` and has not yet written its outcome, and
`announced` as it is. So a claim that reaches the row but whose answer is
lost, or whose worker dies, is a `Withdraw` or a `Release`: nobody claims the job again.
It implements `JobFeed` with `recorded` as the rows of `job_artifacts`, `Total[j]` as the
number of artifacts that the processor of `j` makes, and `announced` as the jobs with a
published outcome; `Failing` is the fault `db`, which lets a worker complete a job without
an artifact and announce a failure that is not in the row.

**GatewayQueries.** `Links` is `handleGetJob`, `Searched` and `Found` the list and the
two loops of `handleDownloadArtifact`, `Downloads` with the `Open` behind them. Reads
change nothing, so they are operators, and `LinksWork` is an invariant over them.
The list is ordered by expiry, and rows that expired and were not swept are in it: they
use up its 100 places first.

**EventStream.** One job and the requests that follow it. `pc[s]` is the place of
request `s` in `handleSSEEvents`: `QueryJob` and `QueryArtifacts` are the two
statements of `GetJobByID` (the first read and those after an event differ in what
an error does), `Subscribe` and `Register` the subscription and its arrival at the
server, `Offer` the callback with its `select ... default`, `TakeEvent` the receive,
`Leave` a client that goes away. The handler never looks into an event, so
`inFlight` and `queued` are counters. `shown[s]` is the card that was sent last.
`told[s]` is a history variable: the outcome was published while `s` was subscribed.
The worker is reduced to what a stream can see: the writes to the row and the
artifacts, and the publications, in the order of `worker.go`. Each of its statements may
fail with nothing applied (`db`), and the worker does then what the code does: it gives up
after a claim or a completion that was not written, goes on to the next artifact after one
that was not recorded (`tried` counts the calls, not the rows), and announces a failure
all the same. A statement that is applied and whose answer is lost leaves what a worker
leaves that dies next. That this reduction loses
nothing is what `JobFeed` is for: `OpenSpec` runs the same streams over any worker and any
sweep that keep to it, and both the worker here and the services of `MediaEngine` do. The
fault `read`,
a failing `GetJobByID`, exists in the model and is in no passing run: after it the
handler waits for an event that may never come.

**GatewayProcess.** `main` is the place of the main goroutine behind `<-sigChan`, one
action per call: `StopJanitor` and `AwaitJanitor` are `Stop` (cancel, then `wg.Wait`),
`PollShutdown` is a round of `httpServer.Shutdown`, which closes idle connections until
none is busy or its context is over, `DrainBus` the end of the NATS connection,
`ClosePool` and `Exit` the deferred `pool.Close`, which waits for statements. `late`
says that the 15 seconds are over; the clock starts with the signal, before `Stop`. `loop`
is the place of the janitor's goroutine, `left` the jobs its sweep has yet to do,
`ticked` the ticker's channel of one. `BeginSweep` and `LoopExit` are the two cases of
its `select`: with both ready either may be taken, and a sweep that begins after
the cancel ends at its first statement. `conn[c]` is what the server does for a
connection; what the handler does with jobs is in the other modules, here it is
only in a statement or not. `cmd/janitor/main.go` is the same process with
`Conns = {}`.

**ImageResize, PdfText, MediaProcessors.** A size is a pair. The code multiplies by a
`float64` ratio and truncates; the rounding error is too small to reach the next
integer, except that an exact quotient may come out just below: `Truncations` has both
results. `Scaled` clamps to 1, `Samples` is the source pixel of `x`. A content stream
is a sequence of tokens: strings, `Tj`, `TJ`, brackets, line ends. `TextEnds` and
`ArrayEnds` say where a match of the two expressions may end, `FirstOf` that `.*?` takes
the nearest, `OneLine` that `.` matches no line end; `Texts` is `FindAllStringSubmatch`,
leftmost and without overlap. `MediaProcessors` has one action per artifact, in the
order of `Process`: thumbnail, medium, and the medium image once more as the
optimized one; text, and the cover drawn from the text.

## 3. The runs

| run | instance | checks |
|---|---|---|
| `repository` | 2 jobs, 2 connections | `TypeOK`, `ReadIsCurrent`, `EachStatusOnce`, `LifecycleSpec`, `CallsAreAtomic`, `EveryCallReturns` |
| `engine_all_faults` | 1 PDF, 2 workers in 2 groups, a janitor, a forced cleanup, every fault | `TypeOK`, `EventsFollowRows`, `ClaimIsExclusive`, `OutcomesAgree`, `OnlyExpiredRemoved`, `LifecycleSpec`, `OwnershipSpec`, `FeedSpec` |
| `engine_two_jobs` | 2 PDFs, 2 workers of one group, a janitor; `db`, `ack`, `fs`, `media`, `crash` | `LiveFilesKept`, `LinksWork` |
| `engine_progress` | an image, a PDF, 2 workers, a janitor; `media` | `ProcessingIsOwned`, `PendingIsQueued`, `SettledIsAnnounced`, `CompletedIsComplete`, `FeedSpec`, `AcceptedIsSettled`, `ExpiredIsRemoved` |
| `engine_reaping` | an image, a PDF, an unsupported file, a worker, 2 janitors; `crash`, `stop`, `bus`, `drop`, `media`; no job expires while it is in hand | `FilesGoFirst`, `CompletedLeavesNothing`, `RejectedLeavesNothing` |
| `event_stream` | 2 streams, a channel of one event, 2 artifacts; `db`, `bus`, `media`, `crash`, `expire` | `TypeOK`, `WakeUpIsComing`, `CompletedCardIsFinal`, `OpenSpec`, `OutcomeIsShown` |
| `gateway_shutdown` | 2 connections, a loop whose sweeps find up to 2 jobs | `TypeOK`, `StopEndsSweeps`, `OnlyDeadlineCuts`, `ShutdownCompletes` |
| `processors` | images of every size up to 16 by 16 with boxes of 3 and 7, PDFs of up to 3 commands | `FitsTheBox`, `KeepsAspect`, `VariantsNest`, `SamplesSpread`, `TextInOrder` |

What they show:

- `repository`: with transactions interleaved at every statement, connections lost
  anywhere and rows deleted under them, a transition is never judged on a stale
  status, two callers never both move a job to the same status, no job gets both
  outcomes, a call that is not broken off looks like one step at its end, and no call waits for ever on another's row lock.
- `engine_all_faults`: whatever fails, a job has at most one owner, also when its
  event is handled twice; no event precedes its row; an announcement never runs
  ahead of the row; rows disappear only when they are expired, rolled back or
  taken by the forced cleanup; the services use the table as `JobLifecycle` says,
  the workers share the jobs as `JobOwnership` says, and whoever follows a job sees what
  `JobFeed` promises.
- `engine_two_jobs`: also when a worker goes from one job to another, an accepted job,
  before it expires, keeps its upload and every artifact its page
  lists, and each link works, unless there are more rows that expire no later than the
  search sees.
- `engine_progress`: if only media fail, no accepted job is ever forgotten,
  each is settled (or expires first), a completed one has all its artifacts, and
  every expired job is removed although a sweep takes one job at a time. `FeedSpec` is
  stricter here: with no failing statement a completed job has all its artifacts, and
  nothing is announced that was not written.
- `engine_reaping`: with two overlapping sweeps that crash anywhere, and jobs that a
  crash, a stop or a lost event has left behind, a sweep removes a row only after every
  file that the row and its artifacts lead to, whichever of the sweeps deleted it; of an announced
  completed job nothing is left; a refused upload leaves neither row nor file.
- `event_stream`: a page that an outcome of the row was published to shows it, although the
  channel may overflow and drop that very event: each event makes the handler read
  the row again, and there is always one left. A card that says completed is final: it has
  all the artifacts that the job has and will have, although row and artifacts are read by
  two statements while the worker writes, and statements of the worker fail. The worker and
  the sweep do nothing that `JobFeed` does not allow.
- `gateway_shutdown`: a signal may come at any moment. Once `Stop` has returned no
  sweep runs, whatever ticks still come. NATS and
  the pool are closed behind a request only if it outlasted the deadline. The process
  exits although streams stay open and ticks keep coming.
- `processors`: with every rounding that the truncation can produce, each variant of
  an image, however narrow, has at least a pixel a side, fits its box, keeps
  its shape up to a pixel and is no larger than the next; every pixel is sampled from
  inside the upload and the samples reach its far side. The strings that `Tj` shows
  come out once each and in order, if arrays end their lines (a `TJ` array in front of a
  `Tj` on one line is run into it by the expression).

### The bounds and why they are enough

- Two connections or workers: every safety property relates a job to one or two of
  them. Two queue groups make the event of one job be handled twice, the only way
  to a double claim. Most of these properties are also proved without bounds (5).
- A PDF has two artifacts, an image three, so the loops run more than once and can
  stop in between. Where a run has many faults its jobs are PDFs, to keep the
  state space small.
- `TTL = 1` and `Horizon = 2`: a job can be created at 0 or 1, live, and be expired
  at 1, 2. The clock stops at `Horizon`, a bound of the model; there is no other
  bound on behaviours, because a job is made, handled and removed once.
- `Limit = 1` stands for the limit of 100: two expired jobs are already more than
  a sweep takes. The forced cleanup asks for 1000, here all of them.
- A channel of one event instead of ten: a worker publishes at most three events per job,
  so the ten of the code do not fill up. The run takes one to reach the `default` of the
  `select`; the theorems hold for every capacity.
- `DownloadLimit = 1` stands for the 100 of the download search: with two jobs the
  condition of `LinksWork` is met and missed.
- In `gateway_shutdown` two connections can be in different states at the deadline, and
  `Backlog = 2` lets a sweep be between two jobs. The theorems have no such bounds.
- Boxes of 3 and 7 stand for 300 and 1024. They do not divide each other, so both
  roundings occur, and sides up to 16 exceed the larger box more than twice; ratios up
  to 16 to 1 make a scaled side vanish and be clamped. Three text commands can hide one
  between two others.
- Symmetry among workers of one group, sweepers of one kind and jobs of one type is
  used in `engine_all_faults`, `engine_two_jobs` and `engine_reaping`; never in a run with a liveness
  property.
- `CHECK_DEADLOCK FALSE` in all runs but `repository`: when all requests have ended,
  every job is gone and the clock has stopped, the process has exited, or all
  artifacts are made, nothing is left to do. That nothing stops before is what
  the liveness properties say.

### What the restricted runs assume

`engine_progress` and `engine_reaping` leave out the faults that the code does not
survive; section 4 lists what then happens.

`LongTTL` in `engine_reaping` says that time does not pass the expiry of a job in hand,
that is, one whose upload, event or handler is still to act on it: the default TTL is one
hour and these take seconds. A job that a crash, a stop or a lost event has left behind is not in
hand; it does expire and is swept. `found_leak_race` shows what happens when a job expires
under its worker.

`engine_reaping` has no `fs`: a file that cannot be
deleted loses its row, the only record of its name, in the next statement
(`janitor.go:46-61`), which is the opposite of `FilesGoFirst`; and `ProcessUpload` does not
delete a file that `os.Create` made and `io.Copy` failed to write (`filestore.go:98`,
`upload.go:79`). It has no `db` and `ack`: an `AddArtifact` that failed leaves a file that
nothing lists, and a rollback whose statements fail leaves a row. Failed media are in the run, and
are why `FilesGoFirst` speaks of the files that a page lists and `CompletedLeavesNothing`
of completed jobs: a processor that fails after its first artifact returns no artifacts at
all, so what it saved is recorded nowhere (`image_processor.go:105`,
`pdf_processor.go:103`). The same is true of a worker that dies between a file and its record.

`engine_progress` leaves out `stop`: a worker that is being
stopped can settle its last job and no longer announce it, because its
connection is draining (`cmd/worker/main.go:95`).

### Fairness

- A worker's handler goes on and its client takes what the server gives it (WF):
  the goroutines run as long as the process does, and no action of a handler waits
  for another process (the row lock is inside the atomic call; `repository` shows
  that the call returns).
- Each sweeper starts a sweep when there is something expired, and works through its
  list (WF): this is the ticker.
- In `JobRepository` the server executes what it was sent (WF); a waiter for a row
  lock gets it although others hold it in between (SF): PostgreSQL queues waiters.
- In `EventStream` the goroutines of the gateway run (WF on the handler and on the
  callback); worker, server and clients owe nothing.
- In `GatewayProcess` main, the loop and the clock go on, and a statement is answered
  (WF). `LoopExit` has SF: the loop's `select` finds both cases ready again
  and again and chooses at random. Handlers and clients owe nothing: a stream may
  stay open for ever.
- Nothing makes uploads, faults, signals or, in the engine, time happen.

## 4. Where the code departs from its documents

Each of these is a run whose single property is the documented claim, with TLC's
counterexample.

| run | claim | what happens |
|---|---|---|
| `found_leak_race` | ttl-janitor spec: all files of expired jobs are deleted | the sweep removes a job still in `processing`; artifacts saved afterwards are recorded nowhere |
| `found_stop_drops` | design: the worker drains its subscription | `Stop` unsubscribes, and the messages the client had are lost |
| `found_lost_wakeup` | spec: the stream sends the final result | the outcome is published after the first read and before the subscription (or before the server knows of it): the page waits, though nothing failed |
| `found_tj_array` | comment `pdf_processor.go:160`: text is extracted from `TJ` commands | the expression applied inside an array needs a `Tj` behind each string, so nothing a `TJ` shows is ever extracted |

`found_lost_wakeup` is a statement about one request; whether the page recovers depends on
when the browser's SSE library reconnects.

Seen while modelling, without a run of its own; the first four are steps of
the model, under the fault that is named:

- the rollback of an upload ignores the errors of its own calls (`upload.go:114`, fault
  `db`), so a pending row without file and event can stay, although `upload.go:53` says
  that rollback ensures no orphaned files or rows;
- one failing write of the outcome strands a job in `processing` until it expires
  (`worker.go:153`, fault `db`); `design.md:134` speaks of local retries;
- an `AddArtifact` that fails is only logged (`worker.go:147`, fault `db`), and the job
  is completed without that artifact;
- the failure of a job is announced also if it could not be written (`worker.go:140`,
  fault `db`): a page that is told reads `processing` again and goes on waiting, so
  `WakeUpIsComing` and `OutcomeIsShown` speak of outcomes that the row has;
- the deadline of the gateway's shutdown runs while `Stop` waits for a sweep, so a long
  sweep uses up the time of the requests (`cmd/gateway/main.go:110-117`; `design.md:138`
  allows active streams and uploads to finish within a timeout);
- `design.md:133` answers a refused publish with 503 and creates no row; the code
  inserts the row, rolls it back and answers 500;
- the dashboard's "recent/active jobs" (`handler.go:73`) are the fifty that expire first;
- the leaks and silences of section 3.

## 5. What is proved

TLAPS checks these for every number of jobs, connections, workers, queue groups and
sweepers, every `TTL`, `Limit`, `Horizon`, and every set of faults unless the last
column excludes some.

| theorem | states | provided |
|---|---|---|
| `JobRepositoryProofs!TypeCorrect` | `TypeOK` |  |
| `JobRepositoryProofs!ReadsStayCurrent` | `ReadIsCurrent` |  |
| `JobRepositoryProofs!StatusesOnce` | `EachStatusOnce` |  |
| `JobRepositoryProofs!CallsLookAtomic` | `CallsAreAtomic` |  |
| `JobRepositoryProofs!ImplementsLifecycle` | the transactions implement `JobLifecycle` |  |
| `MediaEngineProofs!TypeCorrect` | `TypeOK` of the whole engine |  |
| `MediaEngineSafetyProofs!ImplementsLifecycle` | the services implement `JobLifecycle` |  |
| `MediaEngineSafetyProofs!OutcomesAreFinal` | `TerminalIsFinal` and `NoResurrection` of `JobLifecycle`, for the services |  |
| `MediaEngineSafetyProofs!EventsFollow` | `EventsFollowRows` |  |
| `MediaEngineSafetyProofs!ClaimsAreExclusive` | `ClaimIsExclusive` |  |
| `MediaEngineSafetyProofs!OutcomesAgreeWithRows` | `OutcomesAgree` |  |
| `MediaEngineSafetyProofs!RemovalsAreDue` | `OnlyExpiredRemoved` |  |
| `MediaEngineSafetyProofs!ImplementsOwnership` | the workers implement `JobOwnership` |  |
| `MediaEngineFilesProofs!LiveFilesStay` | `LiveFilesKept` | `Forced = {}` |
| `MediaEngineFilesProofs!LinksKeepWorking` | `LinksWork` | `Forced = {}` |
| `MediaEngineFilesProofs!FilesAreFirst` | `FilesGoFirst` | `LongTTL`; no `fs` |
| `MediaEngineFilesProofs!CompletedJobsLeaveNothing` | `CompletedLeavesNothing` | `Forced = {}`, `LongTTL`; no `db`, `fs` |
| `MediaEngineProgressProofs!ProcessingHasOwner` | `ProcessingIsOwned` | no `db`, `ack`, `crash`, `stop` |
| `MediaEngineProgressProofs!SettledGetsAnnounced` | `SettledIsAnnounced` | no `ack`, `bus`, `crash`, `stop` |
| `MediaEngineProgressProofs!CompletedHasAll` | `CompletedIsComplete` | no `db` |
| `MediaEngineProgressProofs!ImplementsFeed` | the services implement `JobFeed` |  |
| `MediaEngineProgressProofs!PendingGetsQueued` | `PendingIsQueued` | there are workers; no `db`, `drop`, `crash`, `stop` |
| `MediaEngineProgressProofs!RejectionsLeaveNothing` | `RejectedLeavesNothing` | no `db`, `ack`, `fs` |
| `EventStreamProofs!TypeCorrect` | `TypeOK` of the streams |  |
| `EventStreamProofs!CardsAreFinalForAll` | `CompletedCardIsFinal`, over any worker that keeps to `JobFeed` |  |
| `EventStreamProofs!CardsAreCompleteForAll` | `CompletedCardIsComplete`, over any worker that keeps to `JobFeed` | no `db` |
| `EventStreamProofs!WakeUpsComeForAll` | `WakeUpIsComing`, over any worker that keeps to `JobFeed` | no `read` |
| `EventStreamProofs!ImplementsFeed` | the worker and the sweep here keep to `JobFeed` |  |
| `EventStreamProofs!CardsAreFinal` | `CompletedCardIsFinal` |  |
| `EventStreamProofs!CardsAreComplete` | `CompletedCardIsComplete`: the card has all that the processor made | no `db` |
| `EventStreamProofs!WakeUpsCome` | `WakeUpIsComing` | no `read` |
| `GatewayProcessProofs!TypeCorrect` | `TypeOK` of the process |  |
| `GatewayProcessProofs!SweepsEnd` | `StopEndsSweeps` |  |
| `GatewayProcessProofs!RequestsAreKept` | `OnlyDeadlineCuts` |  |
| `MediaProcessorsProofs!VariantsFit` | `FitsTheBox` |  |
| `MediaProcessorsProofs!AspectIsKept` | `KeepsAspect` |  |
| `MediaProcessorsProofs!VariantsAreNested` | `VariantsNest` |  |
| `MediaProcessorsProofs!SamplesReachFar` | `SamplesSpread` |  |
| `MediaProcessorsProofs!TextIsInOrder` | `TextInOrder` |  |
| `MediaProcessorsProofs!ArraysYieldNothing` | the loop over `TJ` arrays finds no text in any document |  |

The assumptions are those of the modules: `None` is no connection and `NoJob` no job,
`Jobs` is finite and each has a media type, `TTL` and the limits are positive,
`Faults` and `Forced` are subsets of what they should be, the smaller box is smaller
than the larger. TLC evaluates all of them.

**The repository.** `ReadIsCurrent` alone is inductive only together with
`LockHasOwner` (a held row is held by a transaction that is past its read) and
`WriteIsLegal` (what is about to be written was judged legal). `EachStatusOnce` needs
`NothingAhead`: a row that is, say, `pending` has never been moved to a later
status. `IInv` is their conjunction. The refinement follows: `Commit` writes
`next` over `read`, `read` is the current row, and the transition was legal, so
it is `Advance`; all other steps are an insert, a removal or a stutter. `CallsAreAtomic`
uses the same two facts: `Commit` meets a row that may go to `next`, `NotFound` and
`Reject` a row that may not, so each is `UpdateJobStatus` of `Storage` with its answer.

**The engine.** `RowFollowsUpload` ties a row's existence to the request that makes
it, so `CreateJob` always meets an absent row: this gives the refinement, which in
turn limits what one step can do to a row (`GatewayRow`, `WorkerRow`,
`JanitorRow`). `EventsOfAccepted` is the inductive form of
`EventsFollowRows`. `ClaimInv` is the core: `RowAgrees` gives the statuses a row can
have for each place of its handler, `OneClaim` says that two handlers past the
claim have different jobs, `NotYetAnnounced` that an owner's job was not
announced, `AnnouncedAgrees` and `AnnouncedOnce` speak of what was. Only the claim
itself creates an owner, and it needs a `pending` row, which by `RowAgrees` no other
owner and by `AnnouncedAgrees` no announcement allows. `TodoIsExpired` says
that what an unforced sweep holds was, and so still is, expired or gone. Each of
these invariants held in TLC before it was proved. The refinement of `JobOwnership`
maps each step of a handler by the place it leaves: `ClaimInv` says that the claim finds
no owner and no announcement, and that whoever announces has let the job go.
`OutcomesAreFinal` reads the action properties of `JobLifecycle` off the refinement.

**The files.** Files are made before what points at them, by processes that remember
what they made, and deleted by sweeps that read their list long before. `FilesInv` says
so in three parts: `SourceKept` (an upload is there from its request on),
`ArtifactsKept` (what a live job's rows record is there), `WorkKept` (what its worker
made and has not recorded is there). A sweep cannot hurt them, because what it
holds was expired when it was listed (`TodoIsExpired`) and expired jobs do not come back
to life; the rollback cannot, because its job was never accepted. `LinksWork`
follows: a job with at most `DownloadLimit` rows before it is in every list of that length.

`FilesGoFirst` needs the opposite: that a sweep knows every file its jobs list, although it
read them long before. Under `LongTTL` an expired job is in nobody's hand
(`ExpiredIsLeft`): only the insert of its row takes a job in hand, and it expires later.
So its artifacts no longer change and no file of it is made (`ExpiredIsQuiet`). Hence
`SweepsKnow`: what a sweep read is still what the row lists, and at the statement that
removes the row those files are gone, deleted by this sweep or by another one. It holds
with overlapping sweeps that crash, and with failing statements, lost answers and events.
`CompletedLeavesNothing` adds that what a completed job lists is all there is
(`CompletedIsComplete`), and `SuccessIsClean`: files removed with the row never come back,
because only an owner makes files and a job that succeeded has none.

**Nothing is forgotten.** Each of the five theorems names the faults its argument
needs absent, and each holds under all others; the runs leave more of them out. For
`ProcessingIsOwned` every way out of a handler past the claim writes an outcome or
finds the row gone; `SettledIsAnnounced` adds that announcements are
never withdrawn; `CompletedIsComplete` needs `ArtifactsCounted` (an owner's job has
exactly the artifacts its handler counted), which survives crashes because a job is
never claimed twice; `PendingIsQueued` needs `AllRun` (every worker stays subscribed);
`RejectedLeavesNothing` needs `Undone` (each step of the rollback leaves the
next one less to do), with the fact that nobody else can make the row or the upload of
a refused request. `ImplementsFeed` needs, besides `ClaimInv` and `ArtifactsCounted`,
that a job without a row has no artifacts (`RowlessHasNone`) and, if no statement fails,
that a failure is
written, or its row gone, before it is announced (`FailureIsWritten`); `ClaimInv` then
says of each write of a handler which step of the feed it is. Where a failing statement
breaks these, an artifact skipped or a failure announced that is not in the row, `JobFeed`
allows it by its `Failing`.

**The streams.** The invariants speak of the row, the artifacts and the streams, never of
the worker: they are proved of `OpenSpec`, where the worker is any that keeps to
`JobFeed`, and hold of the worker here by `ImplementsFeed`, whose invariant (`WorkerInv`)
ties its counters to the row. By the theorem of the same name about the engine they
hold of its services as well. `CardInv` adds that a status once read or shown as completed
is still so, with the artifacts of then, or the row is gone; the artifacts are all there if
no statement fails. `WakeInv` is the argument why
dropping events is harmless: the outcome is announced once, and if the row has it, it had
it before, so from then on every read is final; a stream that waits, or is about to wait after a
read from before, has an event in flight or in its channel, because `Offer` drops
one only if the channel is not empty.

**The gateway process.** What `Stop` and `Shutdown` achieved must last. `IInv` is the
conjunction of `TypeOK`, `StopEndsSweeps` (inductive: a loop that is done stays so),
`Quiet` (past a `Shutdown` no connection is idle, and none is busy before the deadline,
because no connection opens behind closed listeners) and `ClosedInOrder` (bus and pool are
closed by main alone).

**The processors.** The lemmas bound a truncated quotient from both sides; the four
properties of the sizes are then linear in products, and each proof states the products it
needs. `TextInOrder` compares a recursive function, what the expression finds from a place
on, with the strings that the commands show. The prover has no induction theorem to
instantiate; the proof takes the last place at which the two would differ, by the least
element of a set of numbers, and shows that it is none. A match takes the nearest end,
so at the string of a `Tj` command it takes that string alone; and no match begins in an
array that ends its line, because no string on the rest of the line has a `Tj` behind it.
What the array expression captures holds no `Tj` at all, hence `ArraysYieldNothing`: what
`found_tj_array` shows for one document holds of all.

**Only model-checked.** `EveryCallReturns`, `AcceptedIsSettled`, `ExpiredIsRemoved`,
`OutcomeIsShown` and `ShutdownCompletes` are liveness under fairness, which is beyond
this prover. Every invariant, action property and refinement that a passing run checks is
proved. No module declares a `RECURSIVE` operator.

## 6. What is not modelled

- `handleDashboard`, and the headers and the copying of a download: no state, and
  no decision beyond that of `GatewayQueries`.
- Templates (rendering, partly generated code), wording, logging, configuration and
  dialling, which come before the first state of a process.
- Decoding and encoding of images, the colours that are copied, the page count of a PDF,
  escapes inside its strings, and the drawing of its cover: data that no property tells apart.
- Path checking of the file store (`resolvePath`), `Exists` and `GetPath`: the services
  pass only names they generated.
- The branch of `HandleJobCreated` for a job without a processor: the two processors
  registered in `cmd/worker/main.go` accept every type that `ProcessUpload` lets in.
- `Job.TransitionTo` and `Job.AddArtifact` in memory: no service calls them.
- A second `Start` of the janitor: both mains call it once.
- `log.Fatalf` when the server cannot listen: for the others it is a crash.

Some things are modelled by a step that stands for more than one cause: the server's
`WriteTimeout` of 60 seconds ends a stream as a client that leaves does (`Leave`); a
NATS client that gives up reconnecting leaves a worker as `StopWorker` does, without the
`ExitWorker` that restarts it.

## 7. What could come next

1. Progress of the janitor when the database fails now and then: a strong fairness
   of successful statements.
2. The reconnects of the browser, with the stream that follows the lost one.
