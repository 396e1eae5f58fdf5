# Verification of the catalog service

This directory specifies the catalog service of `lingo-services-catalog` in
TLA+: what its writers do to the database under concurrency, what consumers
learn from its events, and which of the rules written in `MVP.md`,
`ARCHITECTURE.md` and the migrations survive that concurrency. TLC checks the
specifications on small instances, TLAPS proves the main results for every
instance.

## 1. The system

The service keeps the metadata of videos: who uploaded them, how far the media
pipeline and the AI analysis have come, whether they are visible, and how users
engage with them. It is a gRPC server (Kratos) on PostgreSQL, with Pub/Sub on
both sides, and three more programs that run one of its background tasks each.
Several instances may run; all shared state is in the database.

| Part | State | Operations | Talks to |
|---|---|---|---|
| Lifecycle write model: `internal/services/lifecycle_*.go`, `processing_status_service.go`, `media_info_service.go`, `ai_attributes_service.go`, `visibility_service.go`, `original_media_service.go` | `catalog.videos` (status, two stage statuses, job and emitted_at per stage, products, visibility, version) and `catalog.outbox_events` | RegisterUpload, UpdateOriginalMedia, UpdateProcessingStatus, UpdateMediaInfo, UpdateAIAttributes, UpdateVisibility (publish, reject, archive; of these only archive has an RPC), all through LifecycleWriter.CreateVideo / UpdateVideo | called by gRPC and by the upload task; feeds the outbox |
| Upload sessions: `internal/services/upload_service.go`, `internal/repositories/sqlc/uploads.sql` | `catalog.uploads`, one row per user and content MD5 | InitResumableUpload (read the session, reuse or sign a URL, upsert) | gRPC clients, GCS signer |
| Upload finalize task: `internal/tasks/uploads` | `catalog.uploads`, `catalog.inbox_events` | Handle (OBJECT_FINALIZE): mark the session completed or failed, create the video, move it to processing | Pub/Sub with redelivery, 4 goroutines; the lifecycle writer |
| Engagement projection: `internal/tasks/engagement` | per user and video flags, per video counters, watchers | Handle: like / bookmark added or removed, watch progress | Pub/Sub with redelivery, 4 goroutines |
| Queries: `internal/services/video_query_service.go` | none | GetVideoMetadata, GetVideoDetail, ListUserPublicVideos, ListMyUploads | reads all tables |
| Request metadata: `internal/metadata` | none | who the caller is, from the gateway's header | controllers, queries |
| Outbox publisher: `internal/tasks/outbox`, `internal/repositories/outbox_repo.go`; its loop is a library | lease and delivery columns of `catalog.outbox_events` | claim, publish, mark published, reschedule | Pub/Sub |
| Inbox runner: a library, configured in `internal/tasks/*/runner.go` | `catalog.inbox_events` | run a handler once per event id, in one transaction | Pub/Sub |
| Start-up and shutdown: `cmd/*`, `internal/infrastructure/configloader` | the parts a process has open, its runners | load the configuration, build, start, stop, close in reverse | all of the above |
| Controllers and DTOs, GCS signer, view objects and mappers | none | parsing, formatting, timeouts, signing | - |
| gRPC server, JWT, outbound client, generated code | none | middleware, serialisation | - |

### Where the difficulty is

* **Snapshot, then transaction.** Every update reads the row with a nil session
  (no transaction), decides, and only then opens the transaction that runs the
  UPDATE. Whatever commits in between is not seen: the overall status, the
  `emitted_at` and `job_id` checks, the publish precondition and
  `expected_version` are all decided on a row that may have moved on.
* **Unordered callbacks.** Reports of two pipelines, of several jobs and their
  retries arrive in any order.
* **Clocks as versions.** Events are versioned by the start time of their
  transaction, and ordered by its commit.
* **Nested transactions.** The finalize handler runs in the inbox transaction
  but calls the lifecycle writer, which opens transactions of its own; a failure
  in between commits one half.
* **Blind upserts.** Sessions and engagement flags are read, changed in memory
  and written back whole.
* **Duplicated and late deliveries** on every subscription.
* **Leases that run out.** A publisher that is slow or stops leaves rows locked;
  another one takes them over while the first may still be sending.
* **Several SELECTs, one answer.** GetVideoDetail reads four tables at read
  committed: every statement sees what was committed by then.
* **Stopping under load.** Consumers use the pool that the cleanup closes.

### What makes each part correct

* Lifecycle: status, stages and visibility of a row agree; each commit takes one
  version; a stage does not go back in time; the event stream of a video tells
  its row.
* Uploads: one session and one object per user and content; a completed session
  stays completed; a finalized upload has a video that leaves `pending_upload`.
* Engagement: the flags are those of the newest event of each kind; the counters
  equal the number of flags.
* Queries: a walk through a listing returns nothing twice and passes nothing over
  unnoticed; the parts of an answer belong together; what is published is served.
* Outbox: every committed event is published at least once, and once as long as
  nothing fails. In which order is left to a library.
* Processes: whichever constructor fails, what is open is closed, once and in the
  reverse order; a process that is told to stop ends; every call has a timeout.

## 2. Modules

| Module | Models | Status |
|---|---|---|
| `Lifecycle` | the lifecycle write model and the part of the upload task that writes videos | complete |
| `Details` | GetVideoDetail beside the write model and the workers that apply likes; composes `Lifecycle` | complete |
| `Uploads` | InitResumableUpload, the finalize handler, redelivery, the nested transactions, the connection pool; composes `Lifecycle` | complete |
| `Engagement` | the projection handler under concurrent workers and redelivery | complete |
| `WatchLedger` | what the watch statistics promise; `Engagement` implements it | complete |
| `Listings` | the pagination of the two listings while videos change | complete |
| `Publisher` | writers' transactions, claim, lease expiry, publish, settle, crash; the statements and the loop are a library's and external | complete |
| `AtLeastOnce` | what the outbox promises; `Publisher` implements it | complete |
| `Processes` | configuration, construction with its error branches, running, stopping of the four programs | complete |
| `MCLifecycle`, `MCDetails`, `MCUploads`, `MCEngagement` | symmetry, views, inputs and bounds for TLC | complete |
| `LifecycleProofs`, `LifecycleStatusProofs` | types and status theorems about `Lifecycle` | proved |
| `LifecycleReaderProofs` | what readers of the write model may rely on: `OutboxTellsRow` and the properties of `Details` | proved |
| `UploadsProofs`, `EngagementProofs`, `ListingsProofs`, `PublisherProofs`, `ProcessesProofs` | theorems about the module they are named after | proved |

Definitions whose comment begins "Mutant of" are plausible mistakes in the
definition they follow; the specification does not use them. They show that
each property can fail.

### Lifecycle

State: `video` is the table `catalog.videos` restricted to the columns control
depends on, `outbox` the events of every video in commit order, `req` what each
request holds in memory, `clock` the database clock. `raced` is a history
variable: it records that a decision about the status columns was committed on a
row that had changed since the snapshot it was taken from.

A request is three steps. *Prepare* (the actions named after the services: read
the snapshot, validate, decide the update), *Begin* (open the transaction:
PostgreSQL's `now()` is fixed) and *Commit* (the UPDATE with its COALESCEs, the
event and the COMMIT; the row lock makes them one step for everybody else).
*Abort* is the command timeout, a lost connection or a failed enqueue; *Tick*
moves the clock. `RegisterUpload` and the first half of `FinalizeUpload` insert
a row and its created event in one transaction.

A report carries a time or the zero time (`ZeroTime`, 0001-01-01T00:00:00Z passes
the parser): for the zero time neither age nor job is compared, and the product
updates leave `emitted_at` as it is. `FreshReportsMoveForward` speaks of the
reports that have a time, among others that have none.

Abstractions: title, description, raw reference, error_message and the
idempotency key (which no code reads back) are left out. The products of a
pipeline are one token per stage. Visibility `unlisted` is left out: no writer
of the service ever stores it. Videos are independent of one another: the runs
use one. `FinalizeUpload` may act on any video, also on one that RegisterUpload
created, whose object would never be finalized; what it then does (set the raw
file size) is what the handler does on a redelivery.

### Uploads

State: `uploads` is the table `catalog.uploads`, one row per (user, content MD5);
`inits` what each InitResumableUpload call holds between its two statements;
`issued` the objects for which clients hold signed URLs; `named`, a history
variable, the objects the row of a key has ever named; `store` the bucket;
`notices` and `processed` the Pub/Sub messages and the inbox; `worker` the inbox
transaction each goroutine has open, with the status it has written and not yet
committed. `interrupted` is a history variable: the videos whose handler failed
while it was to move them on to processing. The variables of `Lifecycle` are the
catalog of videos: the instance `Catalog` makes every worker one of its requests.

Actions: `LookupSession` and `UpsertSession` are the two statements of
InitResumableUpload. `InitFails` is an error before the upsert has committed,
`UpsertAnswerLost` one behind it: the row then names an object whose URL no client
got. `PutObject` and `NotifyAgain` are the client, the bucket and Pub/Sub
(external); a finalization tells the MD5 of the session, another one or none. The
handler is `HandleUnknown` or `HandleFinalize` (read the session, compare
generation and MD5, where no MD5 passes for the right one), then `MarkFailed` or `MarkCompleted` (takes the row lock), `CreateVideo`,
`UpdateBegins`, `UpdateCommits` (transactions of the lifecycle writer, on
connections of their own) and `CommitNotice`. `HandlerFails` is an error or a
crash at any point: the inbox transaction rolls back, what the writer committed
stays. `WaitTimesOut` is `lock_timeout` or the transaction timeout.

Abstractions: the object name contains the video id, so the id names it; the
object is written once (the URL carries `if-generation-match:0`), so it also
names its generation. Titles, expected sizes, content types, the reuse of a URL
that has not expired, and the decoding of notifications are left out; those the
bucket sends are taken to be well formed. The
upsert's `CASE WHEN catalog.uploads.status` is read as the row in conflict, which
is what its tests expect. The lifecycle writer's `WithinTx` is taken to open a
transaction of its own: sessions are passed explicitly everywhere and none is
passed to it. Only the finalize task writes the catalog here, by the actions of
`Lifecycle` itself; other requests are the subject of that module.

### Engagement

State, for one video (videos share no rows): `state` is the projection row of
every user, `stats` the counters, `watchers` the watcher rows, `sent` the event
behind every inbox id (chosen once: when a message was published does not
matter, only when it is delivered), `processed` the inbox, `worker` the open
transaction of every goroutine. `raced` is a history variable: a message of the
user was committed that had been decided from a row replaced since.

Actions: `ApplyEngagement` reads the row without a lock and decides (a stale
event is accepted without a write), `HandleWatchProgress` begins a watch message,
`SkipUnsupported` accepts what is of another type, `RefuseMalformed` and
`ReturnError` are a message that cannot be applied (an unknown favourite type, an
id that is no UUID, a payload that does not decode): an error on every delivery.
`UpsertUserState` takes the row lock and
writes the row decided before, `MarkWatcher` inserts or updates the watcher and
learns which, `IncrementStats` locks the counters, `Commit` makes all of it
visible and marks the message processed. A row written is locked until the
commit, which makes it indistinguishable when the write is applied.
`HandlerFails` and `WaitTimesOut` roll everything back.

`WatchLedger` is the abstract specification of the watch statistics: a message is
counted in one atomic step, once. The refinement maps the messages counted to
the processed watch messages and the viewers to the watcher rows. Of the start
of the watched period the ledger promises only that it is the time of a message,
is set with the first one and never moves on: that it is the earliest is not so,
because only a viewer's first message may move it. What follows
from the promise, that the statistics add up (`LedgerAddsUp`), is a theorem about
the projection (`WatchStatsAddUp`).

### Listings

State: the videos that match the listing, the walk of one client (what was
returned, the token), and two history variables: the videos listed throughout
the walk and those a cursor was made from. `FirstPage` and `NextPage` are one
call each of ListUserPublicVideos or ListMyUploads, which differ in their
filters only; `Appears` and `Disappears` are commits of the write model. A video
is its place in the order `created_at DESC, video_id DESC`, and a page is a set:
`Query` is the SELECT with its WHERE, ORDER BY and LIMIT, `Rows` the one row more
that the service asks for, `IsNext` and `Items` what it makes of it.

### Details

State: that of `Lifecycle`, the viewers who like a video (`liked`) and its counter
(`likes`), the like message every worker of the consumer is handling (`liking`),
and what one call of GetVideoDetail has read. `FindPublished`, `GetMetadata`,
`GetUserState` and `GetStats` are its four SELECTs, `Return` its end;
GetVideoMetadata is `GetMetadata` and `GetStats` alone. Of the engagement consumer there is
what decides whether flags and counter agree: `ReadFlag` reads the flag without a
lock, `CommitLike` writes it and moves the counter by a step derived from the flag
as it was read, not below zero, `ForgetLike` rolls back. History: `crossed` videos
had a like committed by a flag that had changed since it was read; `moved` says
that the caller's like was taken back since the call read it. Who the caller is
follows from the gateway's header (`ExtractMetadata`, `Caller`): anonymous, a
viewer, or refused before anything is read.

### Publisher

State: `tx`, the transaction that inserts every event; `row`, the lease and
delivery columns; `batch`, `sent` and `failed`, what a worker has claimed and what
has become of it; `copies`, how often the topic took an event. `available_at` and
`locked_at` are kept as what is left of them. History: `troubled` events had a
publish error, a crash or a lost lease.

Actions: `CommitTx` and `AbortTx` are the write model as the outbox sees it.
`Claim` is ClaimPending (due, not published, not locked or stale; as many as fit a
batch), `Publish` and `PublishFails` send an event of the batch, where an error may
be reported although the topic took it, `Settle` is MarkPublished or Reschedule,
both of which name the lock token. `Crash` forgets a batch; `Tick` lets leases and
backoffs run down, also under a worker that is busy.

`outbox_repo.go` hands every call to `lingo-utils`, whose statements and loop are
not in this repository. They are modelled from the parameters handed over (cut-off
times, a limit, a lock token), the columns of the table and the configuration, and
marked external; nothing is assumed of what these leave open. A claim takes any
due events, not the oldest, and the events of a batch are sent in any order or side
by side. That an event is given up after `max_attempts` is not visible here either
and left out. A batch takes up to 100 x 10 s (`publish_timeout`) under a lease of
120 s, so overrun leases are a real case and not a theoretical one.

### Processes

State, for every process: its program, its phase, how many constructors have
succeeded, the parts that are open and the cleanups still to be called (by the
numbers `wire_gen.go` gives the variables `cleanup`, `cleanup2`, ...), the entry of
`messaging.topics` every role was given, the runners that have not returned.

`GrpcSteps`, `OutboxSteps` and `ConsumerSteps` are the `wire_gen.go` files: the
constructors that can fail or have a cleanup, in order, each with the cleanups its
error branch calls; `Cleanup` is the function returned when all is built.
`ProvideOutboxConfig` alone returns no error: it panics (`BuildPanics`), and what is
open is left to the end of the process. `Load` and `Start` follow `main`,
`configloader.Load` and BeforeStart; `BuildFails` is any other constructor's error.
`RunnerEnds`: the server logs it and goes on without the runner, a task returns or
exits through `os.Exit`. `Stop` is the signal, `WaitEnds` the end of AfterStop,
`CloseNext` one cleanup, `Exit` the return of main, `Killed` an end without any of
it. `WaitIsCut` is the context of AfterStop running out, or `app.Run` returning an
error (cmd/grpc/main.go:102): the cleanup then runs beside consumers. That is what
the code does, and no document promises otherwise, so no property is about it.

`SelectTopic` has every entry a role may be given, which is any when there is
neither one of its name nor a default; `HandlerTimeouts` and `NewBaseHandler` are
the rules by which a handler gets its timeouts.

## 3. Runs

| Run | Shows | Bounds |
|---|---|---|
| `lifecycle_concurrent` | types; status, stages and visibility agree unless a decision raced; one version per commit; a published video is taken from its readers only by taking it down, by a failed stage, or by a decision taken from an outdated row | 2 requests of every kind interleaved at every step, none naming a job, in two parts of the life of a video (`YoungOrReady`): bases up to version 3, where a decision is overtaken by another and a third taken from the result; and, once both stages are ready, bases up to version 4, where it is published and taken back or reported on. Time is only written here and the outbox not read, which is what its view rests on |
| `lifecycle_readers` | the event stream tells the row, products included; events and reports of requests that raced with nobody are in order; likes are counted; the answers of GetVideoDetail are of one piece | 2 requests, of which the second may begin beside another when it is a media report on a row that has seen no analysis, with 2 jobs and 3 times, the zero time among them (`Start`, `MediaReport`): reports of two jobs cross, on transactions that started at different times. What else is done to a video is done one request at a time, up to version 4, with a clock of 2 values: ready, published, archived and a late report fit in. 1 reader; 2 viewers whose likes 2 workers handle at once, when the row is settled (`LikesLast`) |
| `uploads_concurrent` | a completed session has its video, which has left `pending_upload` unless the handler that created it failed; a video has an upload that did not tell another MD5; created once; sessions stay apart and keep their video; no acknowledged upload is lost while the row has named one object | 2 sessions, 2 calls in flight, 2 objects with the right MD5, another one or none, 3 messages, 2 workers, 1 failure: duplicates, a second object, a lost answer and a redelivery fit in |
| `uploads_progress` | row locks never close a circle; every finalization is processed, unless the handlers exhaust the pool again and again | 1 session, 2 calls, 2 objects, 2 messages, 2 workers and 2 connections, 1 failure |
| `engagement` | flags follow the newest event and counters the flags unless a message raced; the watch statistics implement `WatchLedger`, races included; row locks close no circle; every well-formed message is processed | 2 users, 3 messages chosen from 10 events at 2 times, an unsupported and a malformed one among them, 2 workers, 1 failure: an event, its opposite and one of the other kind fit in, and so does a malformed message beside two others |
| `listings` | a walk goes strictly down; nothing is passed over but the videos cursors are made from; a walk that ends has nothing left to return, unless its last page was cut at the largest size | 6 videos, sizes 2 and 3 in place of 20 and 100, 2 changes during walks: three pages, and a page of the largest size, fit in |
| `publisher` | a published row is final; duplicates only where something failed; the relay implements `AtLeastOnce`, liveness included | 3 events, claimed and sent in any order, 2 workers, batches of 2, leases of 2 ticks, 2 faults: a takeover and a publish error on the event taken over fit in |
| `processes` | whichever constructor fails, what is still to be closed is what is open; every call has a timeout; a stopped process ends | one process of any of the 4 programs (processes share nothing but the file), every set of 3 topic entries, usable or not, either kind of outbox section, timeouts 0 to 2 |

Each `doc_*` run shows that a statement of the repository does not hold of the
code:

| Run | Statement | What happens |
|---|---|---|
| `doc_expected_version` | MVP.md:38, migrations/003:60, optimistic lock | the version is compared before the transaction |
| `doc_one_object` | upload-system.md:116, 338, one object per user and content | two calls that both found no session |
| `doc_newest_event` | MVP.md:247, only the newest event is kept | two workers decide from the same row |
| `doc_list_all` | ARCHITECTURE.md:416, lists all uploads | the cursor is made from a row that was not returned and is excluded by the next query; at page size 100 the repository falls back to 20 rows |

More disagreements were met and need no run of their own. `status=ready` with a
stage that is not (MVP.md:107, ARCHITECTURE.md:34) is what
`StatusAgreesUnlessRaced` excuses. Event versions are transaction start times, so
of overlapping transactions the later one to commit may carry the smaller version
(header.go:50): `FreshEventsAreOrdered` says that it takes a race. A report dated with
the zero time is written however old (MVP.md:109, 350), which `FreshReportsMoveForward`
leaves out. A finalization without an MD5 completes the session unchecked
(upload-system.md:105; GCS gives composite objects none, upload-system.md:34):
`VideoHasMatchingUpload` asks only that no other MD5 was told. `first_watch_at` is
called the time of the first watch (migrations/004:43) and is that of a first
message. A message that can never be applied is to go to a dead-letter topic
(docs/pubsub-conventions.md:441); the code has no part in that, and until the
subscription does it comes back for ever, which is why `EveryMessageIsProcessed`
counts such messages. The transaction
that leaves an uploaded video in processing (upload-system.md:128, 264, 282) is two:
after a failure behind CreateVideo, which has committed, the redelivery finds the
video, asks for no status (handler.go:136) and completes the session;
`CompletedIsProcessedUnlessInterrupted` excuses it by `interrupted`. Others are a
missing test or field in one place: UpdateMediaInfo and UpdateAIAttributes do not
compare `emitted_at` (MVP.md:109); publish accepts
any video whose stages are ready (ARCHITECTURE.md:39); any stage status may
follow any other (ARCHITECTURE.md:63); tags never reach an event
(video_updated.go:26); MarkUploadFailed also fails a completed session
(upload-system.md:341); a failed session is offered its old object name again,
which can only be created once (upload-system.md:414); a query timeout the file
leaves out is 3 s, not the default of config.yaml:9; GetVideoDetail refuses a user
id with blanks around it that ListMyUploads accepts; `has_watched` is never set.

`MaxVersion` bounds the version a request may start from, `MaxClock` the clock,
`MaxFailures` and `MaxFaults` the failures, `MaxChanges` the changes during a
walk; `LockTTL` is 2 ticks, `MaxBackoff` 1. Deadlock is checked in `listings`
only: elsewhere the environment stops when its bounds are used up, and that no
worker is stuck is what `NoCircularWait` (of `Uploads` and of `Engagement`) and the
liveness properties
(`EveryNoticeIsProcessed`, `EveryMessageIsProcessed`, `ImplementsAtLeastOnce`,
`StopEnds`) say. Requests, jobs, keys, ids, calls, workers, messages and viewers are
symmetric, and symmetry is used only where no liveness is checked. The view
of `Lifecycle` replaces the event history of a video by what it has told
consumers so far and its highest version, which is all the properties read; that
of its writers (`WritersView`) says of the version a request has seen whether it
is still the row's. `lifecycle_concurrent` does not check `OutboxTellsRow`, which
would keep the outbox in the view: `lifecycle_readers` does for fewer overlaps, and
`OutboxTheorem` proves it for any number. There `DetailsView` drops `updated_at`,
which nothing reads, and, once likes are handled, all but whether the video is
served, because the likes do not depend on what led to the row.
`uploads_concurrent` gives a size to objects with the right MD5 only
(`SizesOfMatches`): of the others none is read, or it is read in the same way.

### Fairness

`Lifecycle`, `Details` and `Listings` claim no liveness: nothing in the service
retries a request or follows a cursor. In `Uploads` and `Engagement` the fairness
is weak: Pub/Sub delivers a message until it is acknowledged, and a goroutine that
has taken one on runs to the end of the handler, its waits being cut off by
timeouts. Failures are finitely many, clients and InitResumableUpload calls owe
nothing. In `Publisher` time passes and workers keep running (WF of `Tick` and of
each worker's steps); writers owe nothing, crashes are possible and never due. In
`Processes` a runner returns once its context is cancelled, and shutting down goes
on; nobody has to send the signal.

`uploads_progress` gives the pool as many connections as there are workers, which is
what `config.yaml:50` gives one runner of four goroutines (the server has two).
Then all workers can hold the connection of their inbox transaction and wait for a
second one for CreateVideo, and only the timeouts free them. `NoCircularWait` and
`EveryNoticeIsProcessed` name that case (`PoolExhausted`) and exclude every other:
without the excuse TLC finds two workers that time out against each other for ever.

## 4. Proofs

TLAPS checks the following for every value of the constants: any number of
videos, requests, sessions, workers, messages, events and processes, and every
bound.

| Theorem | Statement |
|---|---|
| `TypeCorrect` | `TypeOK` of `Lifecycle`, with `RequestsInFlight` |
| `LifecycleInvariant` | `LifecycleInv`, the inductive invariant |
| `StatusAgreement` | `StatusAgreesUnlessRaced` |
| `SerialAgreement` | `StatusAlwaysAgrees`, when there is a single request |
| `VersionsTheorem`, `ReportsTheorem`, `EventsTheorem` | `EveryCommitTakesOneVersion`, `FreshReportsMoveForward`, `FreshEventsAreOrdered` |
| `OutboxTheorem` | `OutboxTellsRow` |
| `ReaderInvariant`, `AnswerTheorem`, `LikeTheorem` | `ReaderInv`, `AnswerMovesForward`, `LikeIsCountedUnlessMoved` |
| `DecisionsTheorem` | `FreshDecisionsKeepServed`, the invariant about decisions the next one rests on |
| `ServedUnlessRacedTheorem` | `PublishedStaysServedUnlessRaced`, with any number of requests |
| `ServedTheorem` | `PublishedStaysServed`, when there is a single request |
| `UploadsInvariant`, `CatalogInvariant`, `ProcessingInvariant` | `UploadsInv`, `CatalogInv` and `ProcessingInv`, the inductive invariants, each resting on those before it |
| `UploadsTypes` | `TypeOK` of `Uploads` |
| `CompletedTheorem`, `ContentTheorem`, `CreatedTheorem` | `CompletedHasVideo`, `VideoHasMatchingUpload`, `CreatedOnce` |
| `ProcessedTheorem` | `CompletedIsProcessedUnlessInterrupted` |
| `SessionsTheorem`, `AcknowledgedTheorem`, `VideoTheorem` | `SessionsAreDistinct`, `AcknowledgedUploadCompletes`, `SessionKeepsItsVideo` |
| `NoCircleTheorem` (`UploadsProofs`) | `NoCircularWait` of `Uploads`, for any number of connections |
| `EngagementInvariant`, `EngagementTypes` | `IInv` and `TypeOK` of `Engagement` |
| `NewestTheorem`, `CountsTheorem` | `NewestWinsUnlessRaced`, `CountsAgreeUnlessRaced` |
| `LedgerTheorem`, `AddsUpTheorem` | `ImplementsLedger`, `WatchStatsAddUp` |
| `NoCircleTheorem` (`EngagementProofs`) | `NoCircularWait` of `Engagement` |
| `ListingsInvariant`, `ListingsTypes` | `IInv` and `TypeOK` of `Listings` |
| `WalkTheorem`, `PassedTheorem`, `EndsTheorem` | `WalkGoesDown`, `PassedVideosAreReturned`, `EndsWhenNothingIsLeft` |
| `PublisherInvariant`, `PublisherTypes` | `IInv` and `TypeOK` of `Publisher` |
| `PublishedTheorem`, `DuplicatesTheorem` | `PublishedIsFinal`, `NoDuplicateUnlessTroubled` |
| `PromiseSafety` | the safety half of `ImplementsAtLeastOnce` |
| `ProcessInvariant`, `ProcessTypes` | `IInv` and `TypeOK` of `Processes` |
| `PartsTheorem`, `BoundedTheorem` | `PartsAreUnwound`, `EveryCallIsBounded` |

**Lifecycle.** `LifecycleInv` has five parts. `TypeOK` alone is not inductive: a
commit writes the request's video and start time, which are proper only because
of `RequestsInFlight` (a request in flight refers to a row that exists, to a
version that row has had, and its transaction started at a time the clock has
shown). `StatusAgreesUnlessRaced` is not inductive either: what a commit writes
was decided earlier, and `FreshDecisionsHold` says what that decision is worth
while the row is still the one of the snapshot: the row it would make agrees if
the present one does, a report moves its stage forward, and a transaction that
has begun is no older than the events of the row. The last needs
`VersionsAreInThePast`. The commit then splits on whether its snapshot is stale:
if so, `raced` is set and nothing is claimed; if not, the decision holds. That a
decision is worth this when it is taken (`StartRequestDecides`) is the heart of
the proof: one lemma per shape of update compares computeOverallStatus with
`StatusAgrees`. `OutboxTellsRow` needs no invariant about requests: an event
appended to a stream changes what the stream says of a column exactly when its
payload has the column (`LatestAppend`), and `UpdatePayload` has every column the
UPDATE changes.

**Details.** A step of the write model leaves a row as it is or takes its version
up by one (`RowStep`), so a view is the row's for as long as the version is the
same (`ViewHolds`); that decides `AnswerMovesForward` when the metadata is read.
While no like of a video has crossed another, its counter is the number of its
flags (`LikesAreCounted`): what a worker decided from its flag is then right when it
commits, and the floor at zero is never reached.
That published videos stay served needs another worth of a decision
(`FreshDecisionsKeepServed`): while the row of its snapshot is still the row, an
update of a published video leaves the status, publishes, takes the video down or
comes with a failed stage. That is shown where the decision is taken, and another
request's commit can only make it stale (`HeldKeepsServed`). A stale decision that
writes no status, stage or visibility leaves the video as served as it was.
`ServedTheorem` and
`SerialAgreement` are corollaries: with a single request nothing is ever stale
(`NothingRacesTheorem`).

**Uploads.** `UploadsInv` is about ids: sessions of different keys share none
(`Apart`), and neither do the calls in flight (`Decided`, `DecidedApart`), which is
why no upsert can mix them. A session whose row has named one object, of no other
MD5, is on its way to completion in every worker that handles it (`OnItsWay`), and
completed once that was acknowledged (`Acknowledged`). `CatalogInv` joins the two
databases: a worker that marked a session, or found it completed, knows of a
video that was committed (`Knows`), because the lifecycle writer commits it
first. `ProcessingInv` is about the second half of
the handler: a session is locked by one handler at a time (`LocksAreExclusive`),
and a video in `pending_upload` has a request under way that asks for processing,
or its handler failed (`PendingIsMovedOn`). When a session is committed as
completed its handler holds the lock; a request that still had to move its video
on would belong to another handler of the same session, which the lock keeps out.
In `NoCircleTheorem` a worker that waits for a row lock waits for one that holds
it; if the rest all waited for a second connection, none would have one, and the
pool would be held by the handlers' first connections alone (`PoolExhausted`).

**Engagement.** What an open transaction decided is worth what its row says for
as long as the row is the one it read (`Known`, `Sound`), and a row it has written
is its own until the commit (`Apart`). A commit on another row sets `raced`. The
ledger needs no proviso: a watcher row is counted by the transaction that
inserted it and only by that one (`ViewersCounted`), and the first of them begins the
period (`PeriodBegun`). That the statistics add up is
proved of the ledger's steps alone and carried over by the refinement. No circle
of row locks is possible because the counters, the only row different users
share, are locked last (`CountedLast`): whoever holds them waits for nothing.

**Listings.** What was returned, then the token, is one descending sequence, and
no steady video above the cursor is missing but those cut (`NothingLeftAbove`). For
the end of a walk, a query that leaves out a row below the cursor is full: it has
as many rows as its limit, the lowest of which (`LeastNumber`) makes a next page
unless the limit was cut back to the default.

**Publisher.** The relay's state is spread over row, batch and pending answers.
`Claimed` and `Answered` say what a batch and an answer are worth while the lease
lasts, `Settled` what the columns say together, `Delivered` that the topic has
committed events only, `Counted` that an untroubled event that was sent is marked,
or its answer still pending.

**Processes.** How many parts are open follows from the constructors that were
called (`Heights`), and a list of cleanups counts down from the last of them
(`CountsDown`): this is checked of every line of the tables (`StepsAreRight`,
`CleanupIsRight`), and from then on each cleanup closes the part that is its turn
(`TailCountsDown`). `BoundedTheorem` needs no invariant: a duration the file leaves
out is filled in by one of two functions, and the proof is the case distinction
over both.

Assumptions: `ConstantsAssumption` of each module (numbers are numbers, `Null` is
no value, sets that are counted are finite), which TLC evaluates in every run,
and those named in the table.

Only model-checked: liveness under fairness, which is out of the prover's reach
(`EveryNoticeIsProcessed`, `EveryMessageIsProcessed`, `StopEnds`, the liveness half
of `ImplementsAtLeastOnce`). Every other property of a passing run is stated by a
theorem. No module declares a RECURSIVE operator, and no theorem is about what a recursive
definition computes.

## 5. What is left

Everything planned was written. Some hazards have no property. UpdateMediaInfo and
UpdateAIAttributes write what a late callback brings: MVP.md:109 has a rule, the
code no test of it that could hold or fail. A failed session
can only be retried under an object name that exists, and a stored URL is handed
out whatever content type the new call asks for: the code has no way out, so a
property would restate the lines that make it so. A consumer that ended with an
error is not started again: the step is in `Processes` (`RunnerEnds`), but no
document says what should happen. The order in which the events of a video reach
the topic is decided in `lingo-utils`: ARCHITECTURE.md:451 and MVP.md:85, 236 promise
one, and nothing in this repository keeps it or breaks it. The same goes for
what a dead-letter topic, `max_attempts` and the runners do. Worth adding if the
code grows them: the reaper of expired sessions that the documents describe, an
optimistic lock in the UPDATE (`ExpectedVersionIsHonoured` would then be the
property to keep), and a condition on `occurred_at` in the engagement upsert.

## 6. Not modelled

* Generated code: protocol buffer accessors and serialisation. The statements
  sqlc generates are modelled with the components that run them.
* The gRPC server's middleware and JWT, a chain of library code without state;
  the outbound gRPC client, which no program wires in.
* The statements and the loop of the outbox publisher and the inbox runner, which
  belong to `lingo-utils`, beyond what this repository hands to them.
* Logging, tracing, metrics, and the conversion of the remaining configuration
  values, one field to one field.
* Conversions between proto, value objects and rows where no decision depends on
  them; titles and descriptions; URL expiry and content types of upload sessions.
* `ListExpiredUploads`, which nothing calls, and the error bookkeeping of the
  inbox (RecordError), which nothing reads back.
