# Gosplash: a verification of the services and of what runs between them

Gosplash is a photo marketplace of seven Go services over PostgreSQL, Redis,
Kafka, Temporal, Elasticsearch and ClickHouse. This directory holds TLA+ models
of it, the TLC runs that check them and the TLAPS proofs about them. The
purchase came first, since money is moved by it and four stores have to agree
about it while any of them fails; the events between the services, the cards
their readers see, and the processes that do the work followed.

Contents: [inventory](#inventory) · [plan](#plan) · [modules](#modules) ·
[runs](#runs) · [fairness](#fairness) · [disagreements](#disagreements-found) ·
[proofs](#proofs) · [what is not modelled](#what-is-not-modelled)

## Inventory

| Part | State | Operations | Hard behaviour | What makes it correct |
|---|---|---|---|---|
| wallet (`services/wallet`) | accounts, ledger_entries (append only), reservations, wallet_operations, outbox_wallet | GetBalance, ReserveFunds, CommitFunds, ReleaseFunds | READ COMMITTED transactions that interleave between statements; row locks in an order; retries that run beside the first call | never more held than there is; paid once or released, once; a key acts once and its answer stands; nobody waits for ever |
| order: saga (`adapters/temporal`) | workflow history, orders.status, order.order.paid | PlaceOrderWorkflow and its activities, failOrder | an attempt's effect without its answer; a request that outlives its attempt; compensations of unknown effects | not charged unless it completes; a licence only with who paid; the status tells the truth; every saga ends |
| order: POST /orders (`app`, `adapters/idempotency`) | idempotency keys in Redis and PostgreSQL, orders, order.order.placed | PlaceOrder, Begin, Complete | concurrent retries on several replicas, Redis losing keys, a crash between any two stores | one order per key; the answer to a retry is the first one's |
| catalog: licences | licenses | GrantLicense, RevokeLicense | a revoke before a late grant | one licence per order, none after a revoke |
| catalog: indexer, cards, cache | listings, authors_snapshot, processed_events, outbox_catalog, Redis cache | HandlePhotoUploaded, HandlePhotoThumbnailReady, GetListing, ListListings | topics with no order between them, repeated events, fills racing invalidations | a card is published once its thumbnails are known; readers see it in the end |
| catalog: WatchHub, ViewBatcher | channels in memory | Subscribe, Notify, cancel; Enqueue, flush, Close | closing a channel somebody holds; shutdown with a full buffer | no send on a closed channel; only what may be lost is lost |
| media | photos on two shards, objects in S3, outbox_media | Upload, Get, List, Delete | object stored, row not; delete against a late thumbnail | no row without an object; deleted stays deleted |
| thumbnail-worker | lock in Redis, processed_events, photos, outbox | Process | a lock that skips work; rebalances; repeated events | every photo gets its thumbnails once the events are through |
| search | Elasticsearch index, a batch in memory | IndexListing, DeleteListing, Search, Suggest | per-item results, versions, shutdown of the batcher | the index ends at the last version |
| analytics | ClickHouse tables, a batch in memory | Add, flush, reports | a caller that leaves while its row is inserted | nothing is lost; duplicates are bounded |
| `pkg/outbox` | outbox tables | Write, relay | several relays, failed rows, crash between publish and commit | published at least once, in the order of the key |
| `pkg/kafkax` | offsets, one worker per partition, retry and dead letter topics | Publish, Run, processOne, retry rounds | rebalances, unavailable side topics, commits that pass failed records | a record is handled, retried or in the dead letters, never skipped |
| `pkg/redisx` | keys in Redis | Begin/Complete, cache, lock, token bucket, HyperLogLog, top-N | expiry, a driver that repeats commands | each is an optimisation over a store of record |
| `pkg/idempotency` | processed_events | Claim, Forget | claim and effect in one transaction | one effect per event id |
| `pkg/resilience`, `grpcx`, `httpx` | breaker state | retry, breaker, interceptors | which errors are repeated, and by whom | only idempotent calls are repeated |
| `pkg/dbx`, `s3x`, `config`, `otelx` | none of the system's own | connections, settings, telemetry | | |
| tools | | kafka-reprocess, search-reindex, automigrate, mediactl, archcheck | reindexing beside live events; reading a topic to its end | |

How they interact. `order` calls `catalog` and `wallet` over gRPC from Temporal
activities; wallet, order, catalog and media write events into outbox tables in
the transaction that changes their rows; the relays publish the outboxes to
Kafka; catalog, thumbnail-worker, search and analytics consume them through
`kafkax`, which hands a record that fails to a retry topic and then to a dead
letter topic. Redis holds idempotency keys, cached cards, locks and rate limits.

`PROJECT.json` lists every hazard of this code at its line, with the properties
that cover it or the reason why none does, and for every definition of a module
the lines it stands for.

## Plan

Written, in this order:

1. **Wallet** (`Sums`, `Wallet`, `WalletProperties`), its promise
   `WalletAbstract`, its proofs `SumsTheorems`, `WalletProofs` and
   `WalletPromiseProofs`.
2. **OrderSaga**, which uses `WalletAbstract` as its wallet: that the detailed
   wallet does what the saga's wallet does is a theorem. `SagaInTime` is the saga
   while no request is late. Their proofs: `OrderSagaProofs`.
3. **PlaceOrder** and its proofs `PlaceOrderProofs`.
4. **Delivery**: `OutboxRelay`, `KafkaConsumer` (the consumer and the retry
   consumer over one engine), `Reprocess`, composed by `Delivery`. Its proofs:
   `DeliveryProofs`.
5. **Cards**: `PhotoPipeline` (media, thumbnail worker, lock), `Catalog`
   (indexer, claims, cache), `WatchHub`, `Pages`, composed by `Cards`. Its
   proofs: `CardsProofs`.
6. **Services**: `ViewBatcher`, `SearchIndexer`, `AnalyticsWriter`,
   `Lifecycle`, `ClientCalls`, `Reindex`, composed by `Services`. Its proofs:
   `ServicesProofs`.

Left, the most important first:

7. `Purchase`: PlaceOrder composed with OrderSaga (an order that has no saga, a
   key that stays in progress), and order.order.paid through the relay to
   analytics, which does not deduplicate.
8. The token bucket of `redisx/ratelimit.go`, as a function of its times.

The modules from 4 on state their assumptions as plain definitions
(`RelayAssumption`), because the modules that compose them hold several
instances; `Delivery`, `Cards` and `Services` assert them for each.
Every module to be proved about avoids RECURSIVE operators; sums are
cardinalities (`Sums`) for that reason.

## Modules

### Wallet

`Wallet.tla` models `internal/app/service.go` over `internal/adapters/pg`. A
*call* is one gRPC request and its transaction; a retry is another call with
the same key.

| Code | Model |
|---|---|
| one statement of Reserve, Commit, Release, GetBalance | one action: `ReserveFind`, `ReserveLock`, ..., `BalanceHeld` |
| position in the function | `pc` |
| `balance`, `reserved` in the function | `seenBalance`, `seenHeld` |
| `reservations`, `ledger_entries`, `wallet_operations`, `account.debited` rows | `reservations`, `ledger`, `operations`, `outbox` |
| `FOR UPDATE`, an uncommitted insert into a unique index | `holder`: a row or a key belongs to one call until its transaction ends |
| READ COMMITTED | a statement reads the tables as they are committed; a call's writes appear in its last action |
| a lost connection, a killed process, a cancelled context | `Abort` before any statement |
| gRPC codes | `answer.code` |

A reservation, and the pair of entries of a commit, are named by the call that
makes them. `lockAccountsSorted` is `AccountsInOrder` with `LockFirst` and
`LockSecond`. Entries made by nobody in this service (the seed of an account)
are `Opening`. PostgreSQL waits on a row or a unique key that another
transaction holds: an action whose resource is taken is not enabled. The
database's own deadlock detection is left out on purpose: `NoDeadlock` says it
never has anything to do. Between a call's last statement and its COMMIT
nothing else is read, so the two are one action; a commit whose answer is lost
is an answered call whose caller retries.

`WalletProperties.tla` says what the wallet promises. `WalletAbstract.tla` is
the promise about money as three one-step operations; `Atomic` is the
refinement, with the ledger's sums as balances and the rows as holds.

### OrderSaga

`OrderSaga.tla` models `workflow.go`, `activities.go` and the services behind
them. `step` is the activity the workflow waits for, `undo` its list of
compensations, `attempts` the failed attempts of a forward activity. An attempt
ends in one of these ways:

| What happens | Action |
|---|---|
| the service acts and its answer arrives | `Answered` |
| the service refuses with a code `classifyGRPCError` makes permanent | `Refused` |
| the service acts and its answer is lost | `AnswerLost` |
| the request is lost, or still on its way when the attempt times out | `RequestLost`, and later `LateArrival` |
| the schedule-to-close deadline of a forward activity passes | `NoWorker` |

Temporal replays a workflow from its history, so a worker's crash is a lost
attempt. The wallet calls are the operations of `WalletAbstract` with the order
id as every key; catalog's `Grant` and `Revoke` are atomic because each is
decided by one statement. A wallet refusal for currency is refused here like an
unknown account (`Wallet` has both). "broken" is the workflow that ends because a
compensation was refused (`failOrder`, first return).

`SagaInTime.tla` adds to a behaviour whether it is *punctual*: while it is, no
request outlives its attempt. Licences and statuses tell the truth then; when a
request is late, `SagaLateGrant` shows what becomes of a licence.

### PlaceOrder

`PlaceOrder.tla` models `OrderService.PlaceOrder`, the idempotency store over
Redis and PostgreSQL, and `redisx.Begin`. An *attempt* is one request with its
key; its order is named by it. Every statement to a store is a step with three
outcomes: done, failed without effect, done but the answer lost. `LoseRedis` is
eviction, restart and expiry; `Crash` is a killed process or a client that hung
up. The Redis client repeats a command whose answer was lost
(`REDIS_MAX_RETRIES`), which for SET NX is the second alternative of `SetNX`.

### OutboxRelay

`OutboxRelay.tla` models `pkg/outbox`. A row is *open* while the transaction
that writes it runs, then *pending* or rolled back, then *published*. The relay
of one process goes over the shards (`Tick`, `PollShard`, `Leave`); a batch is
what `SELECT ... FOR UPDATE SKIP LOCKED` returns, published one by one
(`Publish`), and marked with one UPDATE (`MarkPublished`). A send that fails may
have reached the broker. Any statement may fail, the process may die anywhere,
and `Run` returns between ticks only.

### KafkaConsumer

`KafkaConsumer.tla` models `Consumer`, `RetryConsumer` and the
`partitionEngine` under both, for one partition of the main topic and one of its
retry topic.

| Code | Model |
|---|---|
| the loop of `Run`: PollFetches, dispatch, AllowRebalance | `client[c].loop`, `PollFetches`, `Dispatch` |
| `Run` returns, told to stop or by a fetch error; its defer: `engine.Store(nil)`, `stopAll` | `Return`, `FetchFails`; loop "stopAll" until `StopAllDone` |
| callbacks that find no engine | `RevokedUnheard`, `AssignedUnheard`: the partition goes, or comes, at once |
| `Close`, with `Run` joined, joined for a time, or not at all; the process ends | `Close` from "stopAll" or "returned", `Exit` |
| `kgo.BlockRebalanceOnPoll` | `poller`: no callback runs, and Close waits, while it holds |
| `onAssigned`, `onRevoked` that waits for `<-w.done` | `Assigned`, `Revoked`, `RevokedDone` |
| the goroutine of a partition: `quit`, `recs`, a batch | `worker[c]`, `Take`, `Quit`, `Begin` |
| `processOne`: attempts on the spot, permanent and retryable errors | `Handle` |
| `waitForRetryAt`, paused partition | `WaitForRetryAt` |
| `finishWithRetry`, `finishWithDLQ`, `reescalate` | `Side`, `SideSent` |
| `CommitRecords` | `Commit`; refused when the member was dropped |

A client that crashes starts again (`Run`); one that is asked to stop leaves and
starts again too, as a deployment does. A fetch error stops the process, or, where
the service only logs it (thumbnail-worker, catalog), leaves a client in its group
that nobody polls: it may be given partitions, and they lie with it until it loses
them.

### Delivery

`Delivery.tla` puts the relays, the consumers and the tool beside each other.
`part` says whose behaviour it is; `cast` which clients run (a group of
consumers, or a consumer with the retry consumer of its topic), and `MaxTroubles`
how many crashes, stops and refused sends they have together. None is in the
code: they choose what TLC looks at, and the theorems hold whatever they are.

### Reprocess

`Reprocess.tla` models `tools/kafka-reprocess`: its consumer group, `-limit`,
`-dry-run`, the publication and the commit of each record, runs that fail, and
a consumer of the topic that may dead-letter a record again while the tool reads.

### PhotoPipeline

`PhotoPipeline.tla` models the upload and deletion of `services/media`, the
whole of `services/thumbnail-worker`'s `Process`, and `redisx/lock.go`. The
lock's key holds a worker's token; `watched` says its watchdog lives;
`WatchdogGivesUp` and `Expire` are how a lock is lost, and `Outlasted`: a pause of
the process, or of its network, that is longer than the TTL, after which the holder
works on and its watchdog too, because an extension that finds the key gone answers
0 and no error. A second worker has a record only when the first one's session
expired or its partition went while it was told to stop, and what the first then
commits counts no more (`stale`). `Decode` fails for a file that is no image, and by
a fault for one that is, when the stream from S3 breaks: the code takes both for
permanent. `Settle` is `classify` with the consumer's answer to it.

### Catalog

`Catalog.tla` models the indexer and the cache. The two topics of media have
no order between them, so `thumbnail-ready` may come before its card exists and
goes through retry rounds. `WithClaim` is one transaction: the claim, the card,
the outbox row. `afterApply` is `Invalidate` then `Notify`; a crash between
them is not repaired, since the claim is already there. Readers load from a
replica (`Miss`, `Load`, `Set`) in a singleflight group of each process.

### WatchHub

`WatchHub.tla` models the hub and the `WatchListing` streams of one process.
A stream subscribes before it takes its snapshot; `Notify` puts a notice into
every channel or closes a full one; the two handlers may overtake each other
between COMMIT and Notify. Streams of another process are not notified at all:
`NoGaps` is about the notices of the stream's own process.

### Pages

`Pages.tla` is one walk of a client over keyset pages: `ListListings` and
`Search` differ in their order, their cursor and what they do with a limit that
is too large (`feed`). Cards appear at any rank between the pages. What a query
answers is said by what PostgreSQL and Elasticsearch promise of ORDER BY and
LIMIT (`Fetched`): rows after the cursor, in order, with nothing left out before
the last of them, and all there are when they are fewer than the limit.

A rank is `published_at` in the catalog. In search it is the score, and there are
two cases. A search without text is `match_all`, which gives every document one
score ("browse"). The score of a text ("search") depends on the whole index:
each document that is indexed gives every document that the text finds a score of
any value anew (`Indexed`), and there is no point in time to hold a walk to.

### Cards

`Cards.tla` puts these four parts beside each other. `part` says whose behaviour
it is and `feed` which pages are walked; `images` are the photos whose file can
be decoded, settled when a file is uploaded.

### ViewBatcher, SearchIndexer, AnalyticsWriter

Three batchers with three promises. `ViewBatcher` may lose a view when its
buffer is full or Kafka refuses it; `Close` loses nothing that was taken before
it began. `SearchIndexer` answers every caller with the result of its own item;
its handler's offset is committed after. What `_bulk` does with the actions of a
batch in their order is said at once (`Bulk`): a document goes to the newest valid
action on it, of equals the last, unless it is newer itself. The removal of a
document that is not there is answered by 404, which the code retries (`NotFound`).
`AnalyticsWriter` flushes when a batch
is full, in the caller's goroutine, or when a timer fires, in its own; a caller
whose context is cancelled stops waiting and its row is inserted all the same. An
event is delivered again after a delivery that failed; and, by a fault, while another
delivery of it is under way or after one was handled: a commit that was lost, a
rebalance. A crash loses the batch in memory and brings back any of the deliveries
that were handled (`Crash`).

### Lifecycle

`Lifecycle.tla` models the eight `main.go` and `bootstrap` pairs, with
`httpx.Shutdown` and `grpcx.Shutdown`. What differs between them is data: the
resources each opens in order (`Main`), and how its `Run` joins its tasks
(`App`): a timer for each join or one for all, what happens when it fires, what
a failure of the gRPC server means. The control is shared.

### ClientCalls

`ClientCalls.tla` models a connection that `grpcx.Dial` made: the breaker, and
under it the retrier. The breaker's counters belong to generations, and an
answer is counted only in the generation that admitted its call.

### Reindex

`Reindex.tla` models `tools/search-reindex` beside a live indexer that writes
through the alias: the new index, the pages it is filled from, the switch of
the alias, the end of the old index, and runs that fail anywhere. The first page is asked
for without a cursor (`NoCursor`, the empty string of the code), and an empty page
is the last. What is written to an index is found after Elasticsearch's next refresh
of it (`searchable`, `Refresh`), which neither the tool nor search asks for.

### Services

`Services.tla` puts these six parts beside each other. `part` says whose behaviour
it is; `Handled` and `Added` which event each call of the two handlers may be
about. Like `cast` in `Delivery`, they only choose what TLC looks at.

## Runs

All runs take `CHECK_DEADLOCK FALSE`: finished calls, sagas, requests and
processes stop, and that is the end of a behaviour. Whatever is stuck is looked
for by `NoDeadlock` and the liveness properties.

| Run | Question | Instance |
|---|---|---|
| WalletMoney | can an interleaving overdraw, pay twice, change an outcome, make an answer false? does a key act once, do retries agree, is there a circle of waiting? do the statements implement the one-step operations? | 4 calls of one of two stories. One buyer: reserve 2 of 3 under either of two keys, reserve in another currency, commit, release. Cross payments: one key on two accounts, commits under two keys, accounts that pay each other and themselves |
| WalletEnds | is every call answered? | 3 calls of one order: a reserve, one of nothing, GetBalance, commits to an account, one in dollars and one that does not exist, a release, and their retries |
| Saga | is an order that failed ever charged, is order.order.paid ever a lie, does every saga end? and while no request is late, are licences paid for, is the status the saga's? | 2 orders, money for one, one author without an account, 2 attempts per forward activity, 2 late requests or, in half of the behaviours, none |
| PlaceOrderOnce | one order per key, are answers real, is the cache true, is every request answered? | 3 requests with one key, one without |
| Delivery | does every committed event arrive and end, what may be doubled, is an offset ever ahead of its records? | relay: 2 relays, 2 shards, 3 rows, batches of 2, 1 fault; a group of 2 clients, one of which may be stopped or meet a fetch error, or a consumer beside a retry consumer, with 1 trouble in all: that stop or error, a crash, an expired session or a failed commit; 2 events, 2 attempts, 1 round; reprocess: a backlog of 2, limits 0 and 1, 2 runs, 2 records refused again, 1 fault |
| Cards | thumbnails once, what it takes for two workers at one photo, one announcement, streams without gaps, whole walks; does everything settle? | photos: 2 workers, 2 sizes, a file that is an image or is not, 2 faults; card: 1 photo, 2 reading processes, 1 retry round, 1 fault; watch: 2 streams, buffers of 1, 3 changes; pages: 4 cards, 2 ranks, limits that are taken, cut and replaced, a feed of each of the 3 kinds |
| Services | do batchers keep and answer, do processes exit when told, what is sent twice, what does search lose in a reindex? | views: 3, a buffer of 1, batches of 2; index: 3 deliveries of 3 events (two of one listing, one the mapping refuses), batches of 2, a buffer of 1; writer: 4 deliveries of 3 events, batches of 2; 8 processes, 1 failure; client: 3 calls, 2 attempts; reindex: 2 cards, pages of 1, 2 runs; 1 fault in each |
| SagaLateGrant, ConsumerSideLost, FetchErrorDeaf, ThumbnailLost, SearchHangs | does the code do what this comment says? It does not | see below |

The three composed runs choose in `Init` which part a behaviour is of; the other
parts stand still. The parts meet only through topics, whose consumers take a
record at least once and in any order of keys, so that a product of their states
would show nothing more. Faults are counted per behaviour.

Why the bounds are enough to be interesting. A reservation with a commit that
races a release takes three calls, and a circle of waiting takes four: two
commits that pay each other's buyers, after two reserves. WalletMoney therefore has
four, of one story each time (`InOneStory`); the liveness run has three without
symmetry, and every refusal. Amounts 2 of 3 let one reserve succeed and not two. In the saga two
orders of one buyer compete for money that is enough for one, two attempts are
enough for a first attempt whose effect is unknown followed by a second, and two
late requests let a late reserve be followed by a late commit.
`MaxLostConfirms` bounds how often the answer to ConfirmOrder is lost, since
every such attempt writes one more event. Three requests with one key are the
smallest number in which two retries race after the first has lost its answer.
Two relays with two rows of a key in one shard and one in another let a batch be
split by SKIP LOCKED; two clients with one crash give a session that expires
while its member still works, and with one stop a rebalance during it. Two faults let
a pause outlast a lock while its record is delivered to another worker, or a worker lose its lock and another
crash. A buffer of one is full at the second record. Two runs of the tools let
one repeat what the other left half done. Calls are interchangeable, so
WalletMoney uses symmetry over them; the runs with a liveness property use none.

Each property of a passing run is matched with a mutant: a plausible bug of the
code (an account read without FOR UPDATE, SKIP LOCKED forgotten, a rebalance
callback that does not wait for its goroutine, a claim outside its transaction, a
cursor off by one) under which TLC finds the property violated.
The mutated operators stand beside the ones they replace and no specification
uses them.

## Fairness

* Wallet: weak fairness of `Advance(c)`, every statement of a call that can
  execute. PostgreSQL grants a row lock once it is free and executes what it is
  sent. `Accept` and `Abort` are not fair: nobody has to call, nothing has to
  fail.
* OrderSaga: weak fairness of an attempt that gets its answer
  (`Answered \/ Refused`). Temporal schedules attempts until one is answered,
  and a service that is down comes back; nothing is assumed of forward
  activities beyond that, which may run out of attempts any time.
* PlaceOrder: weak fairness of the next step of a request that was taken up. Its
  calls have timeouts, so they return or fail. `EveryAttemptEnds` adds the
  assumption that Redis stops losing keys, because `Begin` calls itself each
  time its key vanished between SET NX and GET.
* OutboxRelay: weak fairness of a relay's next step. Its ticker fires, its
  statements and sends have timeouts, and a process that stopped is started
  again. Transactions that write rows are not fair.
* KafkaConsumer: weak fairness, for each client, of its goroutine's next step
  and of its loop's. A handler returns, sends have a timeout of ten seconds, a
  process that is down is started again. A partition that nobody has is assigned,
  to a member whose `Run` has returned as well (`AssignedUnheard` is part of
  `LoopStep`). A rebalance, a crash, a stop and a fetch error are never obliged to
  happen. `ConsumersEnd` promises the end of every event under the condition that
  no member that nobody polls keeps the partition for ever (`Deaf`); what happens
  otherwise is the run FetchErrorDeaf. An attempt that fails for ever is cut by
  `MaxRetryAttempts` and `MaxRetryRounds` in the code itself.
* PhotoPipeline: the worker's steps, taking a record that is there, and the
  expiry of a key nobody extends. Catalog: the consumers' steps, a load in
  progress, expiry, replication. WatchHub: the snapshot and the loop of a
  stream; its client reads or its context ends.
* ViewBatcher and SearchIndexer: the goroutine and, for the indexer, its
  callers. AnalyticsWriter: a timer that is armed fires, a flush that began
  goes on. Callers' cancellation is not fair.
* Lifecycle: the process's own steps, since resources open or fail and timers
  fire, and the return of tasks whose context is done. Requests may last for
  ever and no failure has to happen.
* Reindex: the refresh of each index. Elasticsearch does it by itself every
  second (`refresh_interval`, which `mapping.go` leaves alone).
* ClientCalls, Pages and Reprocess state safety only.

## Disagreements found

Each of these is a violation run, with the lines quoted in `PROJECT.json`.

* **SagaLateGrant**: a grant that arrives after its revoke stays: a licence
  nobody paid for.
* **ConsumerSideLost**: when the retry topic or the dead letter topic refuses a
  record, its offset is not committed, as the comment wants; but the goroutine
  goes on and the next record's commit passes it. The event is gone. A retry
  consumer does the same without any failure when it is told to stop: the wait
  for one record's `retry_at` is cancelled and its offset left alone
  (`retry.go:287-289`), but until its goroutine is told to quit the next record of
  the batch, if its own `retry_at` has passed, is handled and committed past the
  first. The model with `Stoppable = {r}` and no failing side topic violates
  `NothingSkipped` so.
* **FetchErrorDeaf**: `Run` also returns by a fetch error, with its context
  alive. catalog and thumbnail-worker log that and live on; the client stays in
  the group with its partitions, and what is published to them is handled by nobody.
* **ThumbnailLost**: a worker that finds the lock busy reports success because
  "someone else does it already". The one who holds it may be dead, or may have
  failed to unlock: the offset is committed and no thumbnail is made.
* **SearchHangs**: after a fatal failure of its gRPC server, `Run` of search (and
  of analytics) waits for two consumers nobody has told to stop, with one timer
  that fires once, and stays until somebody sends a signal.

Others have no run of their own. They were met while the modules were written:

* When `Run` returns it forgets its engine before it waits for its goroutines
  (`kafka.go:298-301`, `retry.go:253-256`), and from then on the rebalance callbacks
  find none to wait for. The comment in `engine.go:24-28` says a goroutine is always
  waited for, lest it commit after the partition was handed on; while a consumer
  stops, in a deployment for example, it is not, and two members handle the same
  records. `HandedOver` is what is left: without a crash this happens only while
  one of the two stops. `RevokedUnheard` is the step.
* The removal of a listing that comes a second time finds no document, and the
  404 that Elasticsearch answers is taken for an index that is not available
  (`errors.go:31-46`): retries, and the dead letters, though `indexer.go:21` of
  search promises "idempotency by the version of the document". `NotFound` is the case.
* The alias is switched to an index that was not refreshed since it was written:
  for up to a second readers do see the emptiness that `main.go:11-14` of
  search-reindex excludes (`FoundStays`). `SearchStays` is what holds at every
  moment (the documents are in the index that search reads), and
  `NobodyWaitsForEver` has that they are found again.
* GetBalance can report more than was ever available, because a commit falls
  between its two sums; nothing in the code decides from it.
* If every answer of CommitFunds is lost, the saga compensates a paid order: the
  licence is revoked, ReleaseFunds is refused, the saga stops with the money
  moved. The comment (`workflow.go:166-169`) says the money did not move.
* If every answer of ReserveFunds is lost, the order fails and the money stays
  reserved. The comment (`workflow.go:113-114`) says nothing was touched.
* After PostgreSQL knows the answer and Redis was not told, the next retry gets
  409 and not the answer; ADR 0018 says it is answered from PostgreSQL.
* Two concurrent ReleaseFunds with one key may answer different available
  amounts, and a request can be told 409 by its own repeated SET NX.
* A photo deleted while its thumbnails are made is set ready again
  (`repository.go:134` of the thumbnail worker), and nobody consumes
  media.photo.deleted.
* A reader that loaded a card before its invalidation puts the old one back for
  a TTL; `indexer.go:176-178` speaks only of an invalidation that failed. `AllSettles`
  shows that the TTL ends it.
* A walk over the pages of a text search, while documents are indexed, may show a
  card twice or not at all: the cursor holds a score that is no document's any more
  (`query_builder.go:55-58`). `WholeFeed` excepts these walks, and only these.
* A stream from S3 that breaks under a good image sends its event to the dead
  letters at once; the comment in `processor.go:82-89` accepts it.
* A worker told to stop unlocks with a cancelled context: the lock stays for its
  time.
* `WatchListing` reaches the streams of the same process only, and `afterApply`
  is not repeated after a crash.
* A card that is published while an index is being filled may be lost to search
  with the old index; `SearchStays` is about what was there when the run began.
* kafka-reprocess with `-limit 0` also moves what is dead-lettered again while
  it runs.
* Business refusals count as failures of the circuit breaker (`breaker.go:97`).

What holds beside them matters as much: `FailedIsNotCharged` and
`PaidEventIsTrue` hold with late requests and lost answers; one key makes one
order whatever Redis does; and without a failing side topic or a retry consumer
that is stopped no offset passes a record, through every rebalance, stop and crash;
a lock that is lost or outlasted makes no photo ready twice, and costs nobody else the
lock (`OnlyOwnLock`, which has no run: it is a theorem).
These are theorems.

## Proofs

`tlapm` checks the modules below to the last leaf. They hold for every value of
the constants: any finite set of calls, any accounts, amounts, currencies and
requests; any attempts and keys; any orders, attempts of an activity and requests
that come late; any number of relays, shards, rows, consumers, events, rounds,
crashes and faults; any photos, sizes, workers, processes, streams, buffers,
cards, ranks and limits; any views, deliveries, rows, calls of a connection and
sizes of batches, pages and channels.

| Module | Theorem | Says |
|---|---|---|
| WalletProofs | `TypesHold` | `Spec => []TypeOK` |
| WalletProofs | `NeverOverdrawn` | `Spec => []NoOverdraft` |
| WalletProofs | `KeysFreezeOnce` | `Spec => []OneReservationPerKey` |
| WalletProofs | `OutcomesAreFinal` | `Spec => OutcomeIsFinal` |
| WalletPromiseProofs | `PaymentsAreMadeOnce` | `Spec => []PaidOnce` |
| WalletPromiseProofs | `AnswersStayTrue` | `Spec => []AnswersStand` |
| WalletPromiseProofs | `RetriesGetOneAnswer` | `Spec => []RetriesAgree` |
| WalletPromiseProofs | `NeverDeadlocked` | `Spec => []NoDeadlock` |
| WalletPromiseProofs | `EveryTransactionIsAtomic` | `Spec => Atomic`: `Wallet` implements `WalletAbstract` |
| OrderSagaProofs | `SagaTypes` | `Spec => []TypeOK` |
| OrderSagaProofs | `FailedNeverCharged` | `Spec => []FailedIsNotCharged` |
| OrderSagaProofs | `PaidEventNeverLies` | `Spec => []PaidEventIsTrue` |
| OrderSagaProofs | `NoUnpaidLicense` | `InTimeSpec => []LicenseIsPaidInTime` |
| OrderSagaProofs | `TheEndIsTold` | `InTimeSpec => []EndIsReportedInTime` |
| OrderSagaProofs | `StatusNeverGoesBack` | `InTimeSpec => StatusAdvancesInTime` |
| PlaceOrderProofs | `TypesHold` | `Spec => []TypeOK` |
| PlaceOrderProofs | `OneOrder` | `Spec => []OneOrderPerKey` |
| PlaceOrderProofs | `SuccessesAreReal` | `Spec => []SuccessIsReal` |
| PlaceOrderProofs | `CacheTellsTheTruth` | `Spec => []CacheIsTrue` |
| DeliveryProofs | `TypesOfDelivery` | `DeliverySpec => []AllTypes` |
| DeliveryProofs | `PartitionsAreHandedOver` | `DeliverySpec => []HandedOver` |
| DeliveryProofs | `DuplicatesNeedFaults` | `DeliverySpec => []DuplicatesAreFaults` |
| DeliveryProofs | `NoRecordIsSkipped` | `SidesHold` gives `DeliverySpec => []NothingSkipped` |
| CardsProofs | `TypesOfCards` | `Spec => []TypeOK` |
| CardsProofs | `PhotosAreReadyOnce` | `Spec => []ReadyOnce` |
| CardsProofs | `WorkersAreAlone` | `Spec => []AloneUnlessFaults` |
| CardsProofs | `LocksAreOwn` | `Spec => OnlyOwnLock` |
| CardsProofs | `PublishesAreTold` | `Spec => []EachPublishIsTold` |
| CardsProofs | `WatchersMissNothing` | `Spec => []NoGaps` |
| CardsProofs | `WalksAreWhole` | `Spec => []WholeFeed` |
| ServicesProofs | `TypesOfServices` | `Spec => []TypeOK` |
| ServicesProofs | `HandledIsKeptAlways` | `TimesAgree` gives `Spec => []HandledIsKept` |
| ServicesProofs | `EndedBeforeClosedAlways` | `Spec => []EndedBeforeClosed` |
| ServicesProofs | `SentAsPromisedAlways` | `Spec => []SentAsPromised` |
| ServicesProofs | `SearchStaysAlways` | `Spec => []SearchStays` |

Assumptions: `WalletAssumption` (finitely many calls, account ids are integers,
nonnegative opening balances, requests that are well formed and, when they
commit or release, name a reservation id; nothing about their amounts,
accounts, keys or payees), `PlaceOrderAssumption` and `SagaAssumption` (prices
are positive, at least one attempt; an order's buyer and author need no account),
`DeliveryAssumption` (every client has a topic, rows have a shard, batches and
channels hold at least one record, the bounds are numbers), `CardsAssumption`
(a buffer holds at least one notice, ids and ranks are naturals, the default
limit is positive and at most the largest, nobody's name is a photo's or a worker's), `ServicesAssumption`
(finitely many deliveries of rows, versions are naturals, cards are positive
numbers, batches, pages and channels hold at least one, a call has at least one
attempt, the processes are among the eight). `NoRecordIsSkipped`
needs one thing more, `SidesHold`: no send to a retry or dead letter topic is
refused, and no retry consumer is stopped or meets a fetch error. The run Delivery has it, and the
section above says what happens without. `HandledIsKeptAlways` needs `TimesAgree`:
two events of one listing with the same `occurred_at`, in milliseconds
(`services/search/internal/app/indexer.go:64`), do not disagree on whether the
listing is removed. Of two that do, the one that was delivered last would stay.
Catalog tells of a listing once (`PublishesAreTold`), so that the code meets it.

**Wallet.** `NoOverdraft` is not inductive: a reserve inserts on the strength of
two numbers it read several steps earlier. `IInv` says what those numbers are
worth. While a reserve holds its account's row, what it read of the ledger is
exactly what the ledger is now, and what it read of the reservations is at least
what is active now: only a commit posts entries, and it needs the account's row; only
a reserve adds to what is held, and it needs the row too; a release only lowers
what is held, so that it may run without the row. The same with the status of a
reservation: a call between `LockReservation` and its last statement holds the
row, and the row is as it saw it. Two more parts say who holds what (a call past
a lock has it) and that a key being inserted is not in the table. Every action
has a lemma for the calls other than its own and one for its own. Facts about
sums (`SumsTheorems`) follow from facts about cardinalities: no induction.

**What the wallet promises.** `PaidOnce` is inductive beside `IInv`: a commit
that posts has seen its reservation active under its lock. `AnswersStand` needs
to know what a call is about to be told: what a commit of a paid reservation
repeats was recorded by a commit, and a recorded result was some call's answer
and stays right because outcomes are final. Two successes with one key then agree
because both are the answer of the one reservation, or of the one record under
that key. `NoDeadlock` has an invariant of its own (`LockInv`: what a call
holds, and what it waits for, by the statement it is at). In a set of calls that
wait for each other nobody waits for a key, since the holder of a key is about
to end; who waits for a reservation waits for a commit that waits for an account; and
a commit that waits for an account holds a smaller one. So the accounts waited
for would rise for ever among finitely many calls (`NoEndlessRise`, which follows
from the least element of a set of naturals). `Atomic` maps rows to holds and
sums to balances: every statement but the last of a call is a stutter, and for
the last `IInv` says that what it decided from is still so.

**OrderSaga.** That a failed order is never charged is not inductive: a
CommitFunds that was given up may still arrive. The invariant `IInv` says that
the activity the workflow waits for determines its list of compensations and
which requests can be under way: no CommitFunds before the workflow has asked
for it, no compensation on the way to `completed`, no ConfirmOrder before the
money moved. So an order reaches `FailOrder` either from ReserveFunds, and then
no CommitFunds is under way, or through an answered ReleaseFunds, and then the
hold is released and a late CommitFunds is refused. The argument has two halves:
what an activity does to an order, whoever asks for it (`Performing`), and what
the workflow makes of the outcome (`Proceeding`, `Failing`, `Breaking`,
`Waiting`); a step of one order leaves the invariant of the others alone
(`OthersKeep`). `InTimeInv` adds, for punctual behaviours, which statuses an
order may show while its workflow waits for an activity, and at which of them it
has no licence.

**PlaceOrder.** `OneOrderPerKey` needs: whoever is past `Insert` owns the row of
its key and the row is still in progress (`OwnerInv`); two such attempts have
different keys; an attempt that made an order has a key whose row nobody will
insert again (`WorkInv`); a row that is done names an order of its key whose
saga was started (`RowInv`). `CacheIsTrue` and `SuccessIsReal` are parts of the
invariant, because a retry reads its answer from what they speak of.

**Delivery.** Each part has an invariant of its own, and a step of one leaves
the others' variables alone.

`ConsumerInv` says where there may be a goroutine (while `Run` is in its loop,
exactly where the client counts the partition as its own; in "stopAll" and after
`Close` it may go on without the partition), what it has in hand at each of its
places, and that all of it are offsets behind the client's position, which lies in
the log. While nothing has failed, a client that has the partition is the one the
coordinator thinks of (`Exclusive`). `HandedOver` follows: of two goroutines of one
partition at least one has no partition, and so no `Run` in its loop.

`NothingSkipped` speaks of committed offsets only and is far from inductive.
`SkipInv` says that every offset behind a client's position is settled (applied,
dead-lettered, or carried on in the retry topic by a record the group has yet to
pass), or still in hand: in the goroutine's batch, in its channel, or just polled. What
is in hand is in the order of the offsets, batch before channel before poll, so
that when the record at the head is settled and committed all before it is
settled. A client that gets the partition begins at the committed offset. What is
settled stays so: a record of the retry topic is passed only when it is settled
itself, by a later one if need be (`CommitPasses`).

`DuplicatesAreFaults` counts. `RelayInv` says that the records beyond one for each
row, plus the rows the broker has but no relay remembers as sent (`Stale`), are
at most a batch for each fault. Sending a stale row makes one duplicate and one
stale row less; a fault makes as many rows stale as a relay had in its hands, at
most a batch, since a row has one lock and what a relay has in its hands is
locked by it. For the tool, `ReprocessInv` compares how often an event was
published with how often it is among the dead letters the group has committed,
and among those the present run has passed.

**Cards.** Again each part has its invariant, and their conjunction is
`CardsInv`.

`ReadyOnce` rests on the claim. In `PhotoInv` a photo's row was made ready as
often as the thumbnail worker has claimed its event, which is once at most, since
the claim and the UPDATE are one transaction; and a claim stands for thumbnails
of every size. That the worker about to claim has made them all is what it
*knows* (`Knows`): each size that is no longer to do is in the bucket, and
nothing removes a thumbnail. The lock does not enter into this:
`ReadyOnce` holds for two workers at one photo, as `lock.go:39-45` wants it.

`AloneUnlessFaults` is about the lock. `LockInv` says that of two workers with one
photo one is *stale* (its record was given to the other), and counts: that there
is a stale worker costs a fault, and that there is one at work without a watched
lock of its own costs another. Two workers at one photo, whose key has one holder, are both
cases. `OnlyOwnLock` follows step by step, since the script of Unlock compares the
token. A
photo may be deleted twice, before it is made ready and after: `PhotoIsTrue`
bounds that by what has not happened yet.

`EachPublishIsTold` needs that the claim of thumbnail-ready exists exactly when the
card is published, that the claim of uploaded comes after the card, and that a
handler which is past its transaction, like a record that was handled, has its
claim.

`NoGaps` speaks of a prefix; `WatchInv` says of every stream that what it sent
and what waits in its channel lie next to each other in the notices, from the one
after its subscription (`Given`), up to the last of them while the channel is open.
`Notify` closes the channel of who would have to skip one, and nothing is put in
a closed channel (`GivenMore`), so that what was given before stays a stretch.

`WholeFeed`: a page holds what comes right after the cursor, so what was shown
lies in the order of the feed up to the cursor, and a card that was there when the
walk began was shown or comes after the cursor (`PagesInv`). That the cursor is
the last card shown, and not the row fetched beyond the page, is what carries the
second half over a page. A card that appears before the cursor is missed, and may
be: it was not there at the start. All that is used of the two orders is that
they are transitive (`BeforeTransitive`) and that a card's key does not change;
so it is said of walks whose scores have not `moved`.

**Services.** `ServicesInv` is the conjunction of six invariants; a step of one
part leaves the others' variables alone.

A channel and a batch are sequences, and what is used of them is which elements
they have and that none is there twice (`On`, `Once`, `Appended`, `Received`).
`ViewsOnce` says that a view that was taken is in the channel, in the batch or in
the topic, and in one of them only; `Emptying` that after the goroutine has looked
at the channel for the last time only views that came after Close began are in
it. `PublishedOnce` and `CloseFlushes` follow.

`IndexerInv` says that a call without a result is at one place, so that it is
answered once, and that the answer nil was given for an event that is `InIndex`:
the document has its version or a newer one, and if it is its own, its presence.
That stays so because a document's version never falls (`BulkKeeps`). Of the
actions of a batch on one document one is the newest (`OneIsNewest`), since
numbers on finitely many things have a greatest (`Greatest`), so `Bulk` either
leaves the document or gives it to an action that is as new as all of them
(`BulkTo`). The presence at an equal version is where `TimesAgree` is used.

`HandledIsStored` bounds the rows of an event by its faults, and is far from
inductive. `WriterInv` counts what is in the table together with what is on its way
there (`Flying`: in the batch that is collected or in one being inserted), and
leaves room for another row only when no delivery of the event is `Live`, that is
under way or handled and not failed: rows and rows on their way are at most one
for the event and one for each fault. A failed insert that stored its rows, and a
caller that stopped waiting, each make room for one by a fault. A crash stores some of the
rows on their way, loses the others, and may make every delivery of an event
fail; a delivery of an event that is `Live` is itself a fault, and brings the room
for its row. Rows are on their
way once, whatever timers and full batches cross (`Batches`), and a timer that
fires was armed by a row of its own (`TimersCounted`).

`LifeInv` follows a process through its shutdown: a server that was stopped is not
up, and a request it still has is late (`ServersStopped`); the tasks that were
joined have ended or are late (`TasksJoined`). From the phase in which resources
are closed on, that is all of them. What the eight processes open and join is
data, and all the proof needs of it is that they are lists (`ShapesAreShapes`).

`ClientInv` says that a call was sent more than once, or waits to be, only on a
connection that repeats and after an outage; and that one with the answer "open"
was not sent. The generations of the breaker are bounded along: a half-open
breaker began by a tick, so that at most two generations follow the last tick.

`SearchStays` needs that a card which was found when the run began and is still
listed is in the new index, or on the page in hand, or older than the cursor
(`Filled`). A page has the newest of the older cards (`PageIsNewest`), so that the
next cursor, the oldest of the page, leaves none of them out; a page is empty only
when no card is left. While the tool fills its index search uses another
(`Apart`), and the old one is deleted after the switch. What was found when the run
began was in the index then, because search finds of an index what it has, or less
(`Shown`).

Only model-checked: liveness (`EveryCallEnds`, `SagaEnds`, `EveryAttemptEnds`,
`Delivered`, `ConsumersEnd`, `AllSettles`, `NobodyWaitsForEver`), which is out of
the prover's reach. Every other property of a passing run is a theorem, and
`OnlyOwnLock` and `EndedBeforeClosed` are theorems without a run. That `Bulk`
is what the actions do one after the other is an induction over the batch; it was
compared with the fold over them on all batches of up to four actions.

## What is not modelled

* A saga that is cancelled or terminated by hand.
* A command to Redis that is executed after its connection was given up: a late
  SET could bring an older entry back.
* Overflow of `amount_cents` (int64): the sums of the ledger are integers here.
* Time. A timeout, a delay or an expiry is an action that may happen; how long
  the backoff, `retry_at`, TTLs and the breaker's intervals are is not measured.
* Kafka partitions other than one per topic, and the balance between members:
  partitions are independent in `partitionEngine`.
* The token bucket, HyperLogLog and top-N: one Redis script or command each.
* Queries: how search scores, suggestions, analytics reports, GetOrder, Get and
  List of media. They change no state.
* automigrate, mediactl, archcheck: one-shot tools.
* Configuration, telemetry, connections, middleware, generated contracts.
* Whether PostgreSQL, Temporal, Kafka, Redis, Elasticsearch and ClickHouse do what
  their manuals say.
