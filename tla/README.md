# Post Analyzer Webserver in TLA+

TLA+ models of the core of this repository, their TLC configurations, and
theorems about them checked by TLAPS. File paths are relative to the
repository; `post_service.go` is `internal/service/post_service.go`,
`file.go` is `internal/storage/file.go`, and so on. `PROJECT.json` maps every
definition to the lines it models.

## 1. The system

    HTTP client --> gateway --Kitex RPC--> postsvc (2 replicas) --> storage: PostgreSQL | JSON file
                      |  |                    |  |
                      |  +--RPC--> authsvc    |  +--> cache: Redis | one MemoryCache per process
                      |                       +--> Kafka post.events --> analytics-consumer
                      |                       +--> RocketMQ rechecks --> notification-consumer
                      +--> RabbitMQ reanalysis.jobs --> reanalysis-worker --RPC--> postsvc

| Component | State | Operations | What makes it correct |
|---|---|---|---|
| JSON-file storage (`file.go`) | one file, one `RWMutex` | GetAll, GetByID, Create, Update, Delete, BatchCreate, Count | each call atomic; ids unique; the mutex is released on every path; only a torn write loses posts |
| PostgreSQL storage (`postgres.go`) | table `posts`, its id sequence | the same | each call one statement or transaction |
| Post service (`post_service.go`) | none of its own; storage and cache | GetAll, GetByID, Create, Update, Delete, BulkCreate, Export, Analyze | what the cache answers is what the store holds, or there is a known reason; no lost or revived posts; bulk results add up |
| Cache (`cache.go`) | key -> value with a time to live | Get, Set, Delete, Clear, cleanup | an entry never outlives its time to live |
| Rate limiter (`middleware.go`) | per client: count, window start | allow, cleanup | the quota holds; nobody is refused without cause |
| Post events (`kafka.go`, `events.go`, analytics-consumer) | topic, committed offsets, consumer group | Publish, Fetch, handle, Commit | no event skipped; redelivery bounded; all counted |
| Reanalysis (`rabbitmq.go`, reanalysis-worker) | durable queue, unacked deliveries | Publish, Consume, ack, nack | no accepted job lost; requeue on failure |
| Notifications (`rocketmq.go`, notification-consumer) | delayed topic | PublishDelayed, Subscribe | delivered after the delay, at least once |
| Migrations (`migrations.go`) | `schema_migrations`, the schema | Migrate | schema and version agree; replicas that start together do not break it |
| Timeout, Recovery (`middleware.go`) | one request, its response | the handler and its deadline | one answer per request |
| authsvc, ABAC (`abac/`, `middleware/auth.go`) | users, signed tokens | Login, ValidateToken, Authorize | default deny; a failed check refuses |
| Gateway API, web pages, router (`api.go`, `handlers.go`, `router.go`) | one response per request | the HTTP handlers | what the client is told about a change is true and stays true |
| RPC client and servers (`postclient.go`, `authclient.go`, `adapt/`, `errors/`, `kitex_gen/`) | none | the RPCs of postsvc and authsvc | request, page and answer arrive as they were meant, also during a rollout |
| CLI, export, logger, metrics, config, MinIO, Triton, compression | none that matters | | formatting and wiring |

### What is hard here

* Nothing orders the storage call of a request with its cache call, nor with
  those of other requests or of the other replica: fills race invalidations,
  a crash or a cancelled context separates a write from its invalidation, and
  the errors of Redis are ignored.
* `Update` reads, merges and writes the whole row, without a version.
* The file is rewritten in place: truncated first, written afterwards.
* A replica falls back to a cache of its own when Redis does not answer at
  start-up, and stays with it.
* The file backend hands out the id of a deleted newest post again.
* The event is published after the commit and its failure is only logged; the
  topic is partitioned without regard to the key; consumers stop and the
  partitions move while a message is being handled.
* The fixed windows of the rate limiter and the cleanup that forgets clients.

* A migration's statements and the record of its version are not one
  transaction, and nothing keeps two replicas from migrating at once.
* The reanalysis queue gives a job back when its channel is lost, while the
  handler that has it goes on; RocketMQ repeats a send whose answer was lost.
* `Timeout` answers while the handler goroutine runs on, writes to the same
  response, and may panic where nobody recovers; access control is two RPCs,
  each of which may fail, before a third that makes the change.
* Every call between the services goes through two conversions and a generated
  codec on each side, of which one side may be newer.

`PROJECT.json` lists these hazards at their lines, with the properties that are
aimed at each, or the reason why there is none.

## 2. The modules

| Module | Models | Kind |
|---|---|---|
| `PostRecords` | posts, lists of posts, the requests of `storage.Storage` and what each makes of a list | operators |
| `PostStore` | what the file backend promises its callers | abstract specification |
| `FileStorage` | `file.go` | component; implements `PostStore` |
| `PostService` | `post_service.go` over an atomic store, `cache.go`, replicas | component (composes service, store and caches) |
| `RateLimiter` | `RateLimiter` of `middleware.go` | component |
| `PostEvents` | postsvc's publishing, `kafka.go`, the analytics consumers | component (composes producer, broker and consumers) |
| `Migrations` | `migrations.go`, `initSchema`, the start of postsvc | component |
| `JobQueue` | what a work queue promises | abstract specification |
| `Reanalysis` | the gateway's publishing, `rabbitmq.go`, reanalysis-worker | component; implements `JobQueue` |
| `Notifications` | `events.go`, `rocketmq.go`, notification-consumer | component; implements `JobQueue` |
| `RequestPromise` | what a client may conclude from an answer | abstract specification |
| `Gateway` | middleware, access control, router, HTTP handlers, `Timeout` | component; implements `RequestPromise` |
| `Wire` | the Thrift codec of `kitex_gen` | operators |
| `RpcTypes` | the structs and methods of the IDL | operators |
| `Rpc` | `postclient.go`, `authclient.go`, `adapt/`, the servers' handlers, filters and pages | component (composes client, wire and server) |
| `*MC` | constants for TLC | model checking |
| `FileStorageProofs`, `PostServiceProofs`, `PostEventsProofs`, `MigrationsProofs`, `ReanalysisProofs`, `NotificationsProofs`, `GatewayProofs` (also about `RateLimiter`), `RpcProofs` | theorems | proofs |

The definitions whose comment says "Mutant of" are not part of any
specification. Each is a plausible bug (a lost lock, a reset forgotten, a
wrong order) and exists to show that a property would notice it:
with the mutant in place of the definition it names, the property fails.

### FileStorage

State: the file (`whole` with a list, `empty`, or `partial`, which is text
that does not parse), the `RWMutex` (`writer`, `readers`), and for every
request goroutine its program counter, its call, the answer it has computed
and the list it has read. Actions follow the code: `Reject` is `Validate`
before the lock; `RLock`/`Lock`; `Read` is `readFromFile` with the search that
follows; `Truncate` and `Write` are the two halves of `os.WriteFile`;
`FileError` and `WriteFails` are its error paths; `Return` is the deferred
unlock. `Crash` kills the process at any point: after a truncation the file is
left empty or partial. The order of the list and the time stamps are left out
(posts are identified by ids). The initial file is the one that
`NewFileStorage` creates; a file that exists already is reached by running.

`PostStore` is the promise: every call takes effect at one instant on the
whole list, or not at all, except that a write that is cut short (`Tear`) may
lose the list. The refinement mapping lets the list that a writer holds in
memory stand for the file while the file is truncated (`ListInForce`).

### PostService

A worker is a request goroutine of a replica. One step is one call of the
store or of the cache: `CacheHit`/`CacheMiss`, `Load`, `Fill` for the reads;
`RefuseDraft`, `InsertFails`, `Insert` for Create and for each item of a bulk
create; `Fetch`, `Overwrite` for Update; `Remove` for Delete; `DropList` and
`DropPost` for `invalidate`. The store is atomic (for the file backend that is
what `FileStorage` is shown to implement; for PostgreSQL it is one statement).
`Serial` says whether ids come from a sequence or are largest + 1.

`Faults` switches on failing storage calls, also those that took effect
(`InsertAnswerLost`, `ChangeAnswerLost`), failing Redis calls, and crashes of
replicas. A cache entry may expire at any time (`Expire`), which covers the
time to live, `cleanup`, and the expired `Get` that deletes a fresh entry.

`excused` is a history variable. It is set where a stale entry arises in a way
the code does nothing about, and cleared when the entry is dropped or filled
afresh. `StaleHasCause` says that there is no other way: together with the
list of places that set `excused`, it is the complete list of the reasons
why a client may read an old post.

Fields have four kinds of value: a content, not sent, white space (which the
service trims to "" and the store then refuses), and too long.

### RateLimiter

`allow` and `cleanup` are one step each (both hold the mutex throughout and
read the clock under it). The history variables record the granted requests
and the last refusal. `limit >= 1` is what `config.Validate` enforces.

### PostEvents

`Serve` is a service call that succeeded, `Publish` the event of it, `Lose` an
event that is not written (crash, broker error, timeout; the code logs it).
`ServeBatch` changes posts and publishes nothing, as `BatchCreatePosts` does.
A consumer is at `fetch`, `handle` or `commit`, or is `down`. A consumer that
stops or starts triggers `Rebalance`: the partitions are assigned anew and are
read on from the committed offsets. A consumer that has a message in hand
while its partition moves goes on with it, and its commit is accepted: it may
set the committed offset back. The broker, the group and kafka-go are external
and modelled as far as they are used. The writer asks for no acknowledgement,
so a lost write is not retried and no event is written twice. Every message in
the topic parses: the branch of the handler for one that does not (skipped and
committed without being counted) has no counterpart, since postsvc, the only
producer, writes none.

### Migrations

A replica of postsvc is `down`, in one of the `CREATE ... IF NOT EXISTS`
statements (`initSchema`, `createMigrationsTable`, `up`), reads the current
version, records its own (`updateVersion`, `commit`), or is `serving`. A CREATE
is two steps, `Look` and `Create`: between them another session may create the
object, and then the statement fails (`CreateConflicts`). The `UNIQUE` column of
`schema_migrations` makes an insert wait for an open transaction (`Free`) and
fail for a version that is there (`VersionConflicts`). Migration 3 swallows the
errors of its indexes (`SkipIndexes`), among them that of a missing extension.
`Stop` is a kill, a lost connection or a failed statement: `main` exits on every
error of `InitStorage`, and `Restart` is the deployment starting it again.

### Reanalysis and Notifications, over JobQueue

`JobQueue` is the promise of both queues: a job may be lost on its way in, but
once stored it stays until a handler has been through it; it may be handled more
than once.

`Reanalysis`: the gateway publishes without confirms, so a frame may be lost
after the client was told 202 (`PublishLost`), and a lost channel is opened
again only by a restart of the gateway. A worker holds the deliveries of its
channel (`held`; no prefetch limit is set), takes one after the other, and acks,
or nacks with requeue when postsvc is down. A lost channel gives its deliveries
back (`Unlinked`) while the handler goes on with its job; then `Consume` returns,
`main` exits and the deployment restarts it.

`Notifications`: `SendSync` makes three attempts, each of which may be stored
though its answer is lost: each attempt is a message of its own. The sender ends
within three seconds, before the delay of ten. A consumer pulls, delivers and
answers; the broker gives its messages to others when it dies (`Lose`) or when
its queue moves (`Reassign`, where the old handler may still end).

The refinement mappings (`Status`) compute a job's state from the broker's: in
the queue or unacked is `queued`; gone and run is `done`.

### Gateway, over RequestPromise

Two goroutines per request: the handler's (`step`) and that of `Timeout`
(`wait`), which share the response (`written`, the statuses written so far).
`Preflight` and `Limit` are the middleware before `Timeout`; `ValidateToken`,
`InvalidToken`, `Authorize`, `AuthorizeFails`, `Deny` the access control with its
two RPCs; `NoRoute`, `NotEnabled`, `BadInput`, `AnswerLocally`, `FetchFails`,
`Call`, `CallFails`, `Return` router and handler; `Write` the answer.
`Perform`, `PerformPartly`, `Decline`, `Fail` and `IssueToken` are the backends,
which go on with a call the gateway has given up. A reanalysis is published
without confirms: `Publish` answers 202 as soon as the job is handed to the
connection, and `Enqueue`, the broker storing it, comes before or after the
answer, or never. The routes, the methods, the
policies and the statuses are tables (`Served`, `OpenRoutes`, `AdminRoutes`,
`DefaultPolicies`, `Success`, `Refusals`), taken line by line from the code.

When both goroutines have written, either status is the one sent, and the
unsynchronised header map may end the process instead (`Collide`); a panic in
the handler goroutine ends it too (`Crash`), since `Recovery` is in the other one.

`fresh` and `changes` are histories: whether the request's token was live at some
time while it was handled, and how often it changed anything. A user has one
token; it expires at any time.

`RequestPromise` says what a client may conclude: a change is made at most once;
200, 201 and 204 of a handler that changes the posts (`Confirming`) mean that the
change is made, a refusal that it is not and never will be, and 202, 207, 500,
503, 504, a page and a broken connection leave it open: the change may still
come, or never.

### Rpc, over RpcTypes and Wire

`Wire` is one reader and one writer that follow a schema, in place of the
8,300 lines Kitex generates for each struct; `RpcTypes` holds the schemas, field
id by field id. A struct on the wire is a function from field ids to typed
payloads. A writer of a newer version adds a field to every struct. The structs
of the IDL are four deep (`Write1` to `FastWrite`, `Read1` to `FastRead`), which
saves the codec a recursion. A nil struct, list or map is `Null`, the empty
function; a nil pointer to a string or a number is `Nil`.

`Rpc` follows one call: the client's conversion and coding (`Sent`), the
server's decoding and conversion (`Receive`), the service (`Serve`, with `GetAll`
spelled out as filter, sort and page), and the way back (`Take`). `Break` is a
broken connection or a deadline. `NextPage` is the user who goes on to the next
page as `home.html` does: it counts its page itself, from 1, and looks at
`HasNext`. The run also asks for pages and sizes that `parsePagination` would not
let through (below 1, above 100): the RPC takes them. Integers of 32 bits wrap around at `MaxInt32`. `RFC3339` gives each second
its text, `Now` is the clock of the service, `Maps` the attributes of subjects,
resources and contexts. A message is one word that stands for its text
(`"Post_not_found"`). `Arranged` is `sort.Slice`: the elements in the order of their
keys, each once, and always in the same order for the same list.

## 3. What TLC checks

| Run | Instance | Distinct states | Shows |
|---|---|---|---|
| `file_storage` | 2 goroutines, 2 contents, 3 creates, batch of 2 | 96 000 | each call is atomic, and returns |
| `post_service` | 2 workers on 2 replicas, Redis and a fallback cache, 1 id that is used again, all faults | 2.3 million | every stale entry has a cause |
| `coherence` | 2 workers on 1 replica, Redis, 1 id from a sequence, bulk of 2, all faults | 321 000 | bulk results add up; deleted posts stay deleted; the caches agree with the store in the end |
| `rate_limiter` | 2 clients, limit 2, window 2, times 0 to 6 | 253 000 | quota and refusals |
| `post_events` | 2 consumers, 2 partitions, 2 calls, 2 stops | 16 000 | counting |
| `migrations` | 3 replicas, 1 stop, with and without the extension | 70 000 | schema and versions agree; all serve in the end |
| `reanalysis` | 2 jobs, 2 workers, 3 losses, 1 outage of postsvc | 46 000 | no stored job lost, reruns have a cause, all are run |
| `notifications` | 1 post, 3 attempts, 2 consumers, 2 losses | 21 000 | no stored recheck lost, redelivery has a cause, all are delivered |
| `gateway` | one of 17 requests beside a login, all faults, 1 death | 499 000 | only permitted changes; the client may rely on what it is told; all are answered |
| `rpc` | 3 posts, every method with its inputs, 3 pairs of versions | 34 000 | requests, pages and answers arrive as they were meant |
| `stale_read`, `lost_field` | no faults | | the code against what a comment and a test say |

Properties, beside one `TypeOK` (`LimiterTypeOK` for `RateLimiter`) for each module
but `Rpc`, whose types are part of its assumptions:

* `Implements` (FileStorage): every step of the backend is a step of
  `PostStore` or changes nothing visible. `CallsReturn`: no return path leaves
  the mutex locked. `NoInterleavedWrite`, `UniqueIds`: the file does not
  change between a write's read and its rewrite, and ids are distinct.
* `StaleHasCause`, `DeletedStaysDeleted` (PostService): see above. `BulkAddsUp`:
  a bulk request that has ended has reported every draft as made or as failed, and
  with ids from a sequence none is reported twice. `EventuallyCoherent`: if from
  some time on no write is under way, then from some time on every cache agrees
  with the store.
* `AtMostTwiceTheLimit`: of any `2 * limit + 1` consecutive granted requests of
  a client, the first and the last are more than a window apart. This is what
  fixed windows can promise. `RefusedOnlyAtLimit`: a refusal means that `limit`
  requests were granted within the last window.
* `CommittedWasCounted`, `OncePerGeneration`, `EventuallyCounted` (PostEvents):
  nothing is skipped, a message is counted at most once per assignment of the
  partitions, and every message is counted.
* `NoGap`, `RecordedIsApplied`, `ServesMigrated`, `EventuallyServing`
  (Migrations): the recorded versions have no gap; what is recorded is applied
  (but for the indexes of migration 3, whose errors the code swallows); who
  serves has the whole schema, but for the same indexes; replicas that make each
  other exit all serve in the end.
* `OneWorkerPerJob`, `RunsHaveCause`, `KeptUntilRun`, `EventuallyRun`
  (Reanalysis): two connected workers are never at one job; a job is run at most
  once more than workers or their channels were lost (the gateway's own channel
  does not count); the queue refines `JobQueue`;
  every stored job is run. `rabbitmq.go:6-7` wants exactly one worker for a
  job; this is how far the code keeps it.
* `DeliveriesHaveCause`, `KeptUntilDelivered`, `EventuallyDelivered`
  (Notifications): the same for rechecks.
* `OnlyPermitted` (Gateway): a protected change is made only for a request with a
  token that was live while it was handled and a role that may make it, whichever
  RPC fails or is slow. `KeepsPromise`: the gateway refines `RequestPromise`; it
  promises nothing of a 202.
  `EventuallyAnswered`: every request is answered or cut off, though handlers and
  backends may hang.
* `SameRequest`, `SameAnswer` (Rpc): the service is asked for what the caller asked
  for, and the caller gets what the service returned; the exceptions are named
  in the properties. `PageIsSound`: whatever page comes in and however it is cut
  to 32 bits, no size is zero and no offset negative. `WalkIsComplete`: who follows
  the pages has seen every post of the filter once and in order.

Two statements of the repository do not hold (runs that expect a violation):

* `stale_read`: `post_service.go:44-45` says readers never observe stale data
  past the mutation; a fill that was overtaken by the mutation stays until its
  time to live ends.
* `lost_field`: `post_service_test.go:141` says an unsent body is left
  unchanged; a concurrent update of the body is undone.

Others are part of the models as they are: an update whose post is deleted
between its read and its write is answered 500, where `README.md:222` says 404;
`LeastBytes` ignores the key, where `kafka.go:36-38` says that all events of one
post land on one partition; the per-field messages of a validation error do not
cross the RPC, where `README.md:227` speaks of the exact same typed error; nor
does the user of an update.

### Bounds

`MaxCreates`, `MaxId`, `MaxBulk`, `MaxTime`, `MaxCalls`, `MaxStops`, `MaxFaults`,
`MaxOutages`, `MaxLosses` and `MaxDeaths` bound the runs, each in the guards of
the actions it limits.

* Two goroutines suffice for every race in the file and the service, each of
  which is between a pair of requests; three creates suffice to extend a list by
  a batch, to delete the newest post and get its id again, and to leave a gap in
  the ids. One id suffices for the races between the list and a post. In
  `post_service` it is used again after a deletion. In `coherence` it comes from
  a sequence, so that at most one draft is stored and the others of a bulk
  fail: a bulk request of which several are stored is left to the theorem
  `BulkIsComplete`.
* A window of two ticks and a limit of two let a client fill the end of one
  window and the start of the next, have the cleanup run in between and be
  refused in both.
* Two consumers and two stops allow a partition to move away from a consumer
  that has a message in hand, and back.
* Three replicas conflict in pairs while a third is elsewhere; one kill, beside
  any number of exits by conflict, separates a migration from its record.
* Two workers and three losses let a job be run by a worker without a channel
  while another has it, and be lost by that one too.
* One post has three messages already, and these share nothing with those of
  other posts but the consumers.
* Requests share the process and the tokens: a login beside the request lets a
  token be issued, expire and be issued again at each step; the samples have one
  request for each gate, each kind of handler and each refusal.
* `MaxInt32` is 1023 in place of 2147483647: pages 1026 and 2049 are cut to a
  negative number and to 1. Three posts make pages that are full, not full and
  empty, with two posts of one time and two of one user.

The theorems hold for all values of these bounds.

### Fairness

`FileStorage`: a goroutine that holds the lock runs on (weak fairness of its
steps), and one that waits gets the lock if it is free again and again (strong
fairness): `sync.RWMutex` keeps new readers behind a waiting writer and hands
the lock to a starving writer. `PostService`: a request runs on, and times to
live run out. `PostEvents`: a live consumer runs on and a stopped one is
started again (`restart: unless-stopped`); neither publishing nor stopping is
fair. `Migrations`: a replica runs on and is started again after it has exited.
`Reanalysis`: the same for a worker, and postsvc comes back; the gateway is not
fair. `Notifications`: a send comes to its end (its context has a deadline), a
due message is released and handled, a lost consumer is started again.
`Gateway`: only time and the goroutine of `Timeout`; handlers and backends may
hang. `RateLimiter` and `Rpc` have no liveness property.

Deadlock is checked in `file_storage`, `post_service`, `coherence` and
`rate_limiter`. The other systems really stop: when all calls are made and
counted, all replicas serve, all jobs are run, all requests are answered.

## 4. What TLAPS proves

For all values of the constants that satisfy the assumptions named in the
modules:

| Theorem | Statement |
|---|---|
| `FileStorageProofs!TypeCorrect`, `IdsAreUnique`, `WritesAreIsolated` | `TypeOK`, `UniqueIds`, `NoInterleavedWrite` are invariants |
| `FileStorageProofs!Refinement` | `Spec => Implements`: the backend implements `PostStore` |
| `PostServiceProofs!TypeCorrect`, `Attribution` | `TypeOK`, `StaleHasCause` are invariants |
| `PostServiceProofs!NoResurrection` | `DeletedStaysDeleted` |
| `PostServiceProofs!BulkIsComplete` | `BulkAddsUp` is an invariant |
| `GatewayProofs!LimitsAreKept`, `QuotaHolds`, `RefusalsAreDue` | `LimiterTypeOK`, `AtMostTwiceTheLimit`, `RefusedOnlyAtLimit` are invariants |
| `PostEventsProofs!TypeCorrect`, `NoEventSkipped`, `RedeliveryIsBounded` | `TypeOK`, `CommittedWasCounted`, `OncePerGeneration` are invariants |
| `MigrationsProofs!TypeCorrect`, `VersionsHaveNoGap`, `RecordsAreTrue`, `ServingIsMigrated` | `TypeOK`, `NoGap`, `RecordedIsApplied`, `ServesMigrated` are invariants |
| `ReanalysisProofs!TypeCorrect`, `WorkersAreApart`, `RunsAreDue` | `TypeOK`, `OneWorkerPerJob`, `RunsHaveCause` are invariants |
| `ReanalysisProofs!Refinement` | `Spec => KeptUntilRun`: the queue and its workers implement `JobQueue` |
| `NotificationsProofs!TypeCorrect`, `DeliveriesAreDue` | `TypeOK`, `DeliveriesHaveCause` are invariants |
| `NotificationsProofs!Refinement` | `Spec => KeptUntilDelivered`: the delayed topic implements `JobQueue` |
| `GatewayProofs!TypeCorrect`, `ChangesArePermitted` | `TypeOK`, `OnlyPermitted` are invariants |
| `GatewayProofs!PromiseKept` | `Spec => KeepsPromise`: the gateway implements `RequestPromise` |
| `RpcProofs!RequestArrives`, `PagesAreSound`, `AnswerArrives` | `SameRequest`, `PageIsSound`, `SameAnswer` are invariants |
| `RpcProofs!WalkSeesAll` | `WalkIsComplete` is an invariant |

Assumptions are the `ASSUME`s of the modules: bounds are naturals, marker
values (`Absent`, `NoEntry`, `Malformed`, ...) are not data, workers run in
replicas, the consumers are finitely many, the limit is at least 1. Those of `Rpc`
say what the gateway may call each method with (`Questions`), that the ids of the
posts are distinct (which `UniqueIds` shows of the file, and a primary key of
PostgreSQL), that two seconds have two texts and none an empty one, that a nil
pointer is no text and no number, and that neither the list of posts nor a batch
is longer than `MaxInt32`: a longer one would make the totals of a page wrap
around. The page numbers and sizes themselves are any integers. TLC evaluates the
assumptions on every run.

The arguments:

* **FileStorage.** `IInv` adds to the types the lock discipline (`LockOK`: a
  goroutine past `Lock` is the writer, one past `RLock` a reader, and a writer
  excludes all others), what a goroutine holds at each step (`CallOK`) and that
  the list it read is the one in the file (`ListOK`). None of the properties is
  inductive without the lock discipline. The refinement takes one step per
  action; `Write` and the successful `Read` are the commit points, and the
  torn write is `PostStore!Tear` or `Crash`.
* **PostService.** `IInv` adds what the local variables hold at each step
  (`LocalsOK`) and, for ids from a sequence, that nothing is known of an id not
  yet handed out (`NothingAhead`): without it a fresh insert might meet a stale
  entry that nobody is going to drop. `Attribution` then needs only the
  difference that each action makes to one entry and to the sets `excused` and
  `ToDrop`. Ids being in range rests on `MaxOfBounded`.
  `BulkIsComplete` needs a count that holds in the middle of a request too: drafts
  still to do, made and failed are together all of them (`CountOK`), and the ids
  that requests have made lie below the sequence and are distinct (`MadeOK`).
* **RateLimiter.** `IInv` says that the granted requests fall into windows that
  lie apart (`WindowsApart`), at most `limit` in each, and that an entry counts
  exactly the last of them (`EntryCounts`). `2 * limit + 1` requests then reach
  over three windows. That cleanup forgets only entries older than twice the
  window is what keeps a new window apart from the old one.
* **PostEvents.** A commit that arrives after a rebalance may set the offset
  back or forward, so what is committed is safe only because of what a consumer
  holds: everything before the message in its hand is counted (`HeldOK`), which
  in turn holds because everything its partition's owner has fetched is counted
  but for that message (`FetchedOK`). For the redelivery, every message has an
  account (`RedeliveryOK`): the times it was counted, the consumers about to
  count it and the fetch that is still to come are together at most the number
  of assignments; each action moves a unit from one of these to the next, and
  only a rebalance adds one.

* **Migrations.** `IInv` adds that a replica in the loop has every earlier version
  recorded, that its own migration is applied by the time it records it, and that
  a statement that found its object found it for good (nothing drops one).
* **Reanalysis.** `IInv` says that a job is in the queue or with exactly one
  connected worker, that a connected worker is at one of its own deliveries, and
  that a job that is gone from the broker has been run. For the reruns a job has
  an account: its runs, the handlers that still run it without a channel, and
  the run still owed to it are together at most one more than the workers and
  channels of workers that were lost.
* **Notifications.** `IInv` says that a message moves only after its sender is done
  with the post (`SendingOK`: the sender ends before the delay does), and that a
  message that was handled was delivered (`DeliveredOK`). The account of a message
  is its deliveries and the one still owed to it, at most one more than the
  losses. For the refinement, the three messages of a post together have its
  status (`StatusIs`): a step that moves one of them moves the post or leaves it,
  and without `SendingOK` a late attempt could put a post back that was done.
* **Gateway.** `IInv` says what was checked before a request reached its handler,
  that a change is behind it only if its call was made, and that every status on
  its way to the client (`call`, `reply`, `written`) fits what the call did or
  may still do. That a late change cannot follow a refusal rests on this:
  a refusal is made before the call or by the backend itself. `MayStillChange`
  says of which requests a change may still come: those whose call was made and has
  no result yet, and a job whose call was made, with a result or without. `Publish` therefore maps to a
  stutter, `Enqueue` to `RequestPromise!Change`.
* **Rpc.** First the codec: with field ids that are distinct and not the newer
  version's (`Sound`), what a reader takes is what the writer gave it, level by
  level (`Arrives`, `Level1` to `Level4`); with values that fit the schema (`Of`), it
  is all of it, by cases over the methods. `RequestComes` and `SuccessBack` say it of
  each request and response, `RpcErrIs` and `SeenErrorIs` of the errors. The
  invariant `CallInv` is then that the bytes on their way are those of the request
  or the response, and the three theorems follow. For the pages, ranks are a
  bijection (`RankIsBijection`), so a sorted list has every post once; the
  arithmetic (`PaginationIs`, `PageIs`) says that there is a next page exactly if
  this one ends before the list does, and that the next one begins there.
  `WalkIsComplete` speaks of the last page only and is not inductive: `WalkInv` adds
  what the caller has seen before each page (`WalkGoesOn`) and after it
  (`WalkHasSeen`), as a part of the list. TLC has checked both invariants on the
  instance of the run.

Only model-checked are the liveness properties of the passing runs (`CallsReturn`,
`EventuallyCoherent`, `EventuallyCounted`, `EventuallyServing`, `EventuallyRun`,
`EventuallyDelivered`, `EventuallyAnswered`): fairness is beyond this prover.

## 5. Not modelled

External, and modelled as far as the code uses them: Hertz and Kitex (with the
TTHeader framing), PostgreSQL, Redis, Kafka, RabbitMQ, RocketMQ, Go's
`sync.RWMutex` and `sort.Slice`.

Abstracted in the models:

* `PostService`: the clock behind the times to live (an entry may expire at any
  time); the store is atomic, which `FileStorage` implements and PostgreSQL does
  by single statements; `BatchCreate` and `Count` of PostgreSQL have no caller.
* `Gateway`: a request's body, id and format are one flag (`good`); bodies of
  responses are left out; storing an export file does not count as a change;
  the order of the policies does not matter, since all of them allow; the
  methods are those `ActionByMethod` tells apart (not HEAD and others); what the
  handler's goroutine writes to a response that was sent goes nowhere, which is
  an assumption on Hertz, whose objects may by then serve another request; the race
  on the response's headers is modelled as either status or the death of the
  process.
* `Rpc`: the substring search is equality with the title or the body; the sort
  by title is left out; the order of the storage is the same for every page
  (`postgres.go` orders by `created_at` alone, which leaves the order of equal
  times open); values of the service other than pages are samples.
* `Notifications`, `Reanalysis`: what a handler does with a message is one step.

Left out:

* export formats, the character analysis and its statistics: functions of one
  list, unit-tested;
* rendering and sanitising of the web pages, logging, metrics, configuration,
  compression, security headers: no protocol;
* the command line: a sequential client of the HTTP API;
* MinIO and Triton clients, the sentiment enrichment of the analytics consumer:
  best-effort calls whose failure is logged;
* password hashes and signatures of tokens: cryptography, of which the models
  use only that a token is valid or is not;
* `eventpb` and the accessors and string forms in `kitex_gen`: generated, and
  without behaviour of their own;
* deployment files.
