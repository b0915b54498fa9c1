# WrapLink: TLA+ models and proofs

WrapLink is a URL shortener: a TypeScript service (Fastify, one process per
core) that creates links and redirects, a C++ redirect service beside it, Redis
as cache and write-behind log, PostgreSQL as the system of record.  A creation
in write-behind mode is acknowledged as soon as one Redis script has stored the
link and queued it; background workers move the queue to PostgreSQL.  What can
go wrong is therefore spread over processes: who holds a shard's lock, what was
committed when an answer got lost, which copy of a link a reader sees.

This directory models that core and what surrounds it (the cluster of
processes and its metrics, the gate before a creation, the sync job, the C++
service), checks it with TLC on small instances and proves with TLAPS, for every
instance, all the safety properties it checks.

    tlc -workers 2 -config sync.cfg WriteBehind
    tlapm WriteBehindProofs.tla

`PROJECT.json` lists components, runs, mutants, the map from definitions to
source lines, findings, hazards and theorems.

## Inventory

| Part (under `src/src/`) | State | Operations | Talks to |
|---|---|---|---|
| `app.ts` POST /api/v1/links | attempt counter, code of the attempt | validate, allocate a code, `store.create`, up to 5 attempts | allocator, link store |
| `app.ts` GET /:code | none | `find`, `recordClick`, redirect | link store, click buffer |
| `store/write-behind-link-store.ts` | none (Redis) | `create` (ENQUEUE_LINK), `createCustom`, fallback to the synchronous store | Redis, cached store |
| `store/cached-link-store.ts` | none (Redis) | `find` with read-through fill, purge of expired entries, cache write of `create` | Redis, PostgreSQL store |
| `store/postgres-link-store.ts` | table `links` | `create`, `find`, `insertPendingBatch`, `recordClickBatch` | PostgreSQL |
| `store/link-sync-worker.ts` | lock token, peeked batch, insert result, batch index | tick, `syncShard` (acquire, peek, insert, look up, COMPLETE_SYNC, release), drain, close | Redis, PostgreSQL store |
| `cache/keys.ts` | keys of a shard: link hashes, queue, lock, dead letters | shard function, shards of a worker | Redis |
| `store/click-buffer.ts` | pending map and total, flush in flight, attempts per code, dropped | `record`, timer and size flush, retry, drop, `close` | PostgreSQL store |
| `domain/code-allocator.ts`, `store/postgres-id-block-source.ts` | block `next..end`, shared reservation; a PostgreSQL sequence | `nextCode`, `reserve`, scramble | PostgreSQL |
| `cluster.ts` | worker table with an index per worker, totals of the metrics, collections under way, kill timer | fork and refork, add a batch, collect flushes for a scrape, shutdown with a forced kill | workers, by IPC |
| `cluster-metrics.ts` | events not yet sent, scrapes waiting | count, flush, acknowledge a flush request, request a snapshot, time out, close | primary, by IPC |
| `metrics.ts` | totals, counters, histograms | observe, merge, validate, render | none |
| `server.ts` | component graph | start, ordered shutdown | all of the above |
| `security/rate-limiter.ts` | a Redis counter for each client | one script: count, set the TTL | Redis |
| `security/api-key-authenticator.ts`, `security/url-policy.ts` | configured key hashes | check a key; check a URL and what DNS says of it | DNS |
| `jobs/sync-links.ts` | the worker's | drain and exit | sync worker |
| `jobs/warm-cache.ts` | cursor, count | page through the table, write hashes | PostgreSQL, Redis |
| `src/cpp-redirect` | striped click counters, batches in flight | redirect, fill the cache, flush, re-record, exit | Redis, PostgreSQL |

Hard behaviours, each with a line in `hazards`:

* *Locks that expire under their owner.*  `syncShard` awaits PostgreSQL while it
  holds a lock with a TTL; another worker may take over and trim the queue.
* *Lost answers.*  Every await may reject after its effect: an acquired lock
  nobody knows of, a committed batch, an executed COMPLETE_SYNC, an enqueued
  link whose request falls back to a synchronous insert of the same code.
* *Crashes* between commit and trim; the queue is replayed.
* *Two writers of a link hash* with different ideas of TTL and pending mark: the
  enqueue script, the cache fill of a redirect, COMPLETE_SYNC, key eviction.
* *Backpressure and limits*: a full queue, a capped dead-letter list, a code
  space that ends inside a block, a bounded number of attempts.
* *Buffers under concurrency*: clicks recorded while a batch is in flight, merged
  back after a rejection; callers that share a block reservation; stripes drained
  one by one while event loops record.
* *A protocol over IPC*: a scrape makes the primary ask every worker to flush;
  workers exit, are forked again and time out in between, and the primary has a
  time limit of its own.
* *Stopping*: `close()` during a tick, redirects still running, clicks whose links
  are still queued, a worker that hangs until it is killed.
* *Reads that lag*: a peek answered by a replica of the queue.

What makes each part correct:

* creation and sync: an acknowledged link is never lost; an entry leaves the
  queue only when PostgreSQL or a dead letter has it; the queue drains; a code
  has one owner, but for an alias that meets the same generated code;
* cache: a hash that is not pending agrees with the row; a pending mark goes with
  its queue entry, but for a link that turns out too long; a queued link that
  does not expire can be resolved;
* click buffer: clicks are conserved, `close()` drains and ends;
* allocator: ids are unique across processes and restarts, lie in the code space,
  and every caller gets an answer; the codes made of them are distinct;
* cluster: an index belongs to one process at a time and every shard to one index;
  events are counted once; a scrape is answered, and completely unless it timed
  out; a shutdown ends;
* schedule and server: the backlog drains, `close()` adds a tick of its own and
  returns, links reach PostgreSQL, or the dead letters, before the clicks on them;
* gate: credentials cannot be guessed without using up quota, and quota comes back;
* C++ service: links are found, expired ones are not, clicks are accounted for.

## Modules

    Link ── PostgresLinkStore ─┬─ LinkSyncWorker ──────────────────────┐
       └── RedisShard ─────────┴─ CachedLinkStore ─ WriteBehindLinkStore ─┴─ WriteBehind
    WriteBehind ─┬─ ReplicaReads
                 └─ WriteBehindLedger ── implements LinkLedger
    LinkRows ─┬─ SyncSchedule ─┬─ ServerShutdown
              └─ ClickBuffer ──┘
    ShardKeys ── ClusterMetrics ── ClusterPrimary        Metrics ── MetricsCollectors
    BlockCodeAllocator + CodeScrambler ── CodeAllocator        CreationGate     CppRedirect

* **Link**: codes, targets and the record `PendingLink` that a queue entry and a
  row share.  A target is a model value; the only thing about its text that
  matters is whether its normalised form is too long for the table
  (`LongTargets`), because the entry parser and the table's CHECK refuse it.
  An expiry is a Boolean next to a clock `late` that passes all expiries at once.
* **PostgresLinkStore**: table `links`; one operator per SQL statement, which is
  one atomic step.  `FirstOccurrences` is the deduplication of a batch,
  `IsReplay` the test that tells an entry's own earlier insert from a conflict.
* **RedisShard**: the keys of one shard and the scripts ENQUEUE_LINK,
  COMPLETE_SYNC and RELEASE_LOCK, each atomic as Redis runs it.  Only one shard
  is modelled: all keys a script touches share a hash tag and no operation reads
  two shards.  A hash has the flag `ttl`, since volatile-lru evicts only keys
  that have one (`Vanish`).  Dead letters are a set; their order is abstracted,
  the cut to the newest `DeadCap` keeps any subset that contains the new letters.
* **LinkSyncWorker**: `syncShard` with one action per await and, for each await,
  the ways it can fail: `AcquireFails`, `InsertUnacked`, `AwaitFails`,
  `CompleteUnacked`, `ReleaseFails`, `Crash`, and the expiry of the lock with or
  without an owner at work.  `raw`, `persisted`, `conflicts`, `token` and
  `batches` are the locals that survive an await.
* **CachedLinkStore**: a redirect as read, purge, SELECT and fill.  In the last
  second of a link's life the code deletes the key instead of caching it; the
  model allows that for any expiring link, since the clock is not that fine.
* **WriteBehindLinkStore**: the handler's attempt loop with the enqueue, the alias
  check, the synchronous fallback and its cache write.  The allocator is assumed
  to hand out a code once (`issued`), which `CodeAllocatorProofs` proves.
* **WriteBehind**: the composition.  Any actor may step at any time; `Fault` counts
  what goes wrong and `MaxFaults` bounds it.
* **LinkRows**: which codes have a row in PostgreSQL, for the parts of a server that
  share the table.
* **ClickBuffer**: JavaScript runs to the next await, so an action is a stretch
  between awaits; `RecordClickBatch` is PostgreSQL's step.  `recorded`, `doubled`
  and `fresh` are history variables.  Rows of links appear in batches, as a sync
  commits them (`RowsInserted`).
* **BlockCodeAllocator**: several processes on one sequence.  A call's result is its
  id.
* **CodeScrambler**: the Feistel network, the walk into the code space and the
  division that writes the code, as recursive functions with the sizes as
  constants.  A round's mixer is any function on halves, so nothing depends on
  the hash.  `Xor` and `Power` are recursive functions too, so that they can be
  reasoned about; assumptions of the MC module compare them with the library's
  bitwise operator and the built-in power.  **CodeAllocator** puts the two together:
  what `nextCode` returns.
* **LinkLedger**: what creation promises, without Redis or workers: links are
  accepted, wait, get their row or a dead letter.  **WriteBehindLedger** maps
  queue, rows and dead letters to it.
* **ReplicaReads**: `WriteBehind` with a replica of the queue that catches up at any
  time; LLEN and LRANGE may be answered by it, scripts go to the master.
* **SyncSchedule**: the interval timer, `tick`, `drain` and `close` over several
  shards.  What `syncShard` does is one step with its outcomes: synced, synced up
  to the limit of a tick, locked elsewhere, failed part of the way.  Of the entries
  it takes off the queue those in `Refused`, which `parsePendingLink` does not
  accept, get no row and join `dead`; a conflict has a row, somebody else's.
  `Settled` is either.  `job`, chosen at the start, tells the job `sync-links`, which
  drains all shards and ends, from a server.  The lanes of `mapShards` are an arbitrary
  order of shards.
* **ServerShutdown**: `closeResources` of `server.ts` over `SyncSchedule` and
  `ClickBuffer`; both share the rows, so a click finds its link only
  when it was synced.  Redirects are in two steps, before and after `find`; a link
  that became a dead letter is still found, by the hash it left behind.  `Signal` is
  the first signal.  A second one of the same kind kills the process, the handler
  being installed with `process.once`; that is a crash, after which the properties of
  an ordered shutdown say nothing, and it is left to `ClusterMetrics`.  The
  specifications of the schedule are part of this one.
* **ShardKeys**: the split of shards over worker indexes.
* **ClusterMetrics**, **ClusterPrimary**: the worker side and the primary side of the
  IPC protocol and of a worker's life.  A worker counts in a series of its own, so
  that a count tells whose it is.  The channel to the primary is a sequence; a
  process that dies loses a suffix of it; "exit" and "disconnect" reach the
  primary in either order.  SIGINT and SIGTERM are one signal, so while a worker
  closes another one either kills it (`TerminateAgain`: the same kind, whose handler
  is gone) or does nothing (`Disregard`: the other kind, `shuttingDown` is set).
* **Metrics**, **MetricsCollectors**: snapshots with totals, counters and histograms;
  the two collectors, single-process and batching, run on the same calls.
  Durations and bounds are integers.  The batching collector puts a duration of
  exactly 0 in no bucket, the other in the first; both count it.  `MissedBy` is that
  difference, and `CollectorsAgree` says that there is no other.
* **CreationGate**: rate limiter, API key, URL policy with its DNS lookup, alias and
  expiry, in the handler's order and with its early returns.  Requests come again
  from the same slots, so a client may ask for ever.
* **CppRedirect**: redirects on several event loops, the striped aggregator, flushes
  that overlap, and exit a second after the signal.

`MC*` modules give TLC its sets and symmetries where a component needs them.
Operators whose comment starts with "Deliberate fault" are mutated forms of the
operator after them; no specification uses them.

## Runs

| Run | Instance | Shows |
|---|---|---|
| `sync` | 2 workers, 2 creations, batches of 2, a dead-letter list of 2, 2 faults, fairness | `HolderSeesHead`, `NoAckedLinkLost`, `EntriesLeaveAfterCommit`, `QueueDrains` |
| `mixed` | 2 requests, a redirect, a worker, an alias equal to a generated code, a target that is too long, expiring links, eviction, a dead-letter list of 2, 1 fault | `QueueCodesDistinct`, `CacheCoherent`, `PendingFlagBacked`, `PendingVisible`, `OneOwnerPerCode`, `ImplementsLedger` (the refinement) |
| `clicks` | 2 codes, 3 clicks each, a limit of 2, 2 attempts, 2 rejected flushes, fairness | `BufferConsistent`, `ClicksConserved`, `CloseDrains`, `BufferSettles` |
| `allocator` | 2 processes, 5 calls, blocks of 2, 9 codes in a 4 by 4 grid, 3 rounds with 343 choices of mixers, 3 faults, fairness | `IdsUnique`, `ReservationsServe`, `CodesCorrect`, `CallsEnd` |
| `metrics` | 2 workers, 3 forks, 2 events, a scrape, a fault, fairness | `CollectionsConsistent`, `EventsConserved`, `AnswersComplete`, `RendersSettle` |
| `shutdown` | 2 workers, 4 forks, 5 shards, 2 faults, fairness | `ShardsHaveOneWorker`, `GracefulExitDelivers`, `ShutdownEnds` |
| `server` | a server with one of 2 shards, or the job with both; 2 codes on one shard, one of them refused, one entry per tick, a click each, a fault, fairness | `LastTickSyncs`, `ShutdownInOrder`, `BacklogDrains`, `ServerStops` |
| `collectors` | 2 workers, 4 calls, durations of zero, below, on, between and above 2 bounds, invalid labels, names and values | `SnapshotsValid`, `ExpositionCounts`, `CollectorsAgree` |
| `gate` | a client, 2 requests at once, a quota of 2 per window of 2 seconds, 5 kinds of body, a fault, fairness | `QuotaHolds`, `QuotaReturns` |
| `cpp` | a code that may expire, 2 requests, 2 stripes, 2 batches in flight, 2 faults, fairness | `RedirectsRight`, `ClicksBalanced`, `ClicksLeave` |

Each component's type invariant is checked in one of its runs, in some as a part
of a larger one.  Properties with several parts, each of which a mutant breaks:

| Property | Parts |
|---|---|
| `BufferConsistent` | `BufferTypeOK`; `PendingTotalIsSum`: the total that triggers a flush counts the map |
| `BufferSettles` | `CloseEnds`; `ClicksSettle`: every click is counted or dropped in the end |
| `ReservationsServe` | `NoBlockWasted`: no answer overwrites ids that are left; `NoStrandedCaller` |
| `CodesCorrect` | `IdsInCodeSpace`; `CodesDistinct`; `CodesAreNumerals`: the division of two parts writes the number |
| `CollectionsConsistent` | `TypeOK`; `AwaitsLiveWorkers`: a collection never waits for a worker that is gone |
| `ShardsHaveOneWorker` | `OneProcessPerIndex`; `EveryShardOwned` |
| `LastTickSyncs` | `CloseSyncsWithinTick`; `DrainLeavesOnlyBlocked` |
| `ShutdownInOrder` | `RowsBeforeClicks`; `NoRedirectRefused`; `SuccessMeansDrained` |
| `SnapshotsValid` | `TypeOK`; `BatchesAccepted`: the primary refuses no batch |
| `QuotaHolds` | `TypeOK`; `GuessesBounded` |
| `RedirectsRight` | `LinksFound`; `ExpiredNotServed` |
| `ClicksBalanced` | `TypeOK`; `ClicksAccounted` |

Two runs are expected to end in a violation, and `findings` quotes the sentences
they contradict.  Neither needs a fault.

* `stale_replica` violates `NoAckedLinkLost`: with `REDIS_CLUSTER_USE_REPLICAS` a peek
  may see entries that are already trimmed; COMPLETE_SYNC then trims as many others,
  which were acknowledged and never inserted (`link-sync-worker.ts:238` says entries
  leave the queue only after PostgreSQL commits).
* `evicted` violates `PendingNeverEvicted`: ENQUEUE_LINK gives the pending hash of an
  *expiring* link a TTL, so it may be evicted before the sync, and the acknowledged
  link answers 404 in between (`docs/ARCHITECTURE.md:62`: "Pending links and queues
  have no TTL and are never evicted.").

### Where code and documents disagree

The models also refute what other comments and documents say.  These are the
places, with the formula that states the sentence where the modules have one;
added to the configuration named, TLC violates it.

| The code | The sentence | Formula, configuration |
|---|---|---|
| A URL that fits 2048 characters only before normalisation is acknowledged and then leaves the queue without a commit; it survives as a dead letter. | "entries leave the queue only after PostgreSQL commits" (`link-sync-worker.ts:238`) | `LeavesOnlyCommitted`, `mixed.cfg` |
| The hash of that link keeps its pending mark, without a TTL, for ever: COMPLETE_SYNC is not told of entries that do not parse.  It is served without a row, is never evicted, and its clicks match nothing. | Redis "evicts only keys that carry a TTL (cached links)", pending links living in Redis "until synced" (`docs/ARCHITECTURE.md:62`) | `PendingFlagBacked` without its exception `GivenToLongLink`, `mixed.cfg` |
| An alias of nine Base62 characters may equal a generated code, which is queued without a look at PostgreSQL when the alias is between its check and its insert or its hash is evicted; both requests are told they own it. | generated codes are "unique by construction" (`domain/link.ts:15`) | `OneOwnerPerCode` without its exception, `mixed.cfg` |
| Attempts are counted per code, so a click that arrives late is dropped by the first flush that carries it. | "Those clicks are retried on later flushes (up to 10)" (`docs/ARCHITECTURE.md:43`) | `DroppedWereRetried`, `clicks.cfg` |
| `close()` runs one tick, which leaves what is locked elsewhere, fails or exceeds a tick, and files what is refused. | "flushes what is already queued" (`link-sync-worker.ts:339`) | `CloseFlushesQueued`, `server.cfg` |
| A tick whose shards are locked or fail counts as one that found nothing, and the job ends with links queued. | "Drains every write-behind queue into PostgreSQL and exits." (`jobs/sync-links.ts:2`) | `DrainEmptiesQueues`, `server.cfg` |
| A request that took no time is in the first bucket of a single process and in none of a cluster. | none; both implement the interface `MetricsCollector` (`metrics.ts:30`) | `CollectorsAgree` without `MissedBy`, `collectors.cfg` |
| A scrape that times out is rendered from an empty snapshot, so counters fall back to zero. | "Named monotonic counters" (`metrics.ts:21`) | `ScrapesMonotone`, `metrics.cfg` with two renders |
| The C++ flush does not look at which codes matched, so clicks on a link that is still queued are gone. | it "batches PostgreSQL click updates the same way" (`docs/ARCHITECTURE.md:107`) | `UnsyncedClicksKept`, `cpp.cfg` |
| The C++ service serves for a second after its last flush and quits with clicks in memory. | "Flush buffered clicks before exiting" (`cpp-redirect/src/main.cc:314`) | `FlushedBeforeExit`, `cpp.cfg` |

### Bounds, and why they suffice

Two workers are enough for one to lose its lock to the other; two entries with
batches of two make batches of one and of two, and let a worker complete one and
peek the next while a link is appended; two faults allow an expiry followed by a
crash or a lost answer of whoever took over.  Three tokens keep a token fresh while two workers and an
orphaned lock hold one each.  A dead-letter cap of 2 lets the list fill, two attempts
let the loop retry and give up.  The queue limit of 2 is not passed by two requests:
what a full queue leads to, the synchronous path beside queued entries, is reached by
a script that fails, and the proofs are for any limit.  `mixed` leaves none of the
hard inputs out, so the exceptions its properties name are all reached.

In `allocator` four callers of one process share blocks of two, so a caller wakes to
a used-up block; nine codes end inside the fifth block, which three lost answers make
the calls reach.  In `clicks` a limit of 2 starts flushes while others are in flight.

A third fork lets a scrape begin before, and end after, a worker is replaced; a
fourth lets a worker that was forked again die too, and five shards on two
workers are a split that does not come out even.  Two codes on one shard and a
tick of one entry make a tick leave something, and a click on what is left finds no
row; one of the codes is refused, so an entry without a row is before or behind one
that gets its row; a second shard that only the job visits gives a drain one shard to get at
while the other is locked.  A quota of 2 in a window of 2 seconds lets a request be
counted in one window and authenticated in the next; the histories of
`CreationGate` stop at bounds (`MaxChecks`, `MaxClock`) and `GuessesBounded` is
stated below them.  A grid of 4 by 4 with 9 codes ends within a row, as the real
one does; a power of two would never walk.  Two requests, two stripes and two
batches in flight let a click be recorded on a stripe that was taken already
while a failed batch is recorded again.

`MaxFaults`, `MaxClicks`, `MaxRejects`, `MaxForks`, `MaxEvents`, `MaxCalls`
and the sets of requests, renders and flights bound the model, not the program.
When `MaxForks` is used up, the exit of a worker is not handled any more; the
liveness runs allow as many forks beyond the first workers as there are faults.

`mixed` and `collectors` use symmetry.  Every set permuted is used only by
equality, codes and targets are permuted only within their role, and the one
CHOOSE in the write-behind model picks a unique element (those of the sums over
workers give the same sum whatever they pick).  The runs with a liveness property
use none; the properties of `mixed` are safety properties.

Deadlock is not checked, except in `gate`, whose clients and clock never stop: a system
whose requests have all been answered and whose queue is empty may stop.

### Fairness

* `Work(w)`, weak: the tick timer visits a shard again and again, and an await
  settles.  The timer is the code's.  That an await settles is an assumption
  about Redis and PostgreSQL: a command is answered, or its connection breaks
  and it rejects.  The code limits the time to connect (`database/pool.ts:13`,
  `cache/redis-client.ts:39,47`) but sets no time limit on a statement or a
  command, so a query that hangs on a live connection is outside
  `QueueDrains`.
* `OrphanLockExpires`, weak: a lock without an owner goes away after `lockTtlMs`.
* Requests, redirects, faults and the clock are not fair.
* `ClickBuffer`: the flush timer fires again, a query settles (the same
  assumption), `close()` continues when what it awaits has settled.
* `BlockCodeAllocator`: a resumed caller runs, a query is answered (the same
  assumption).
* `ServerShutdown`: the interval fires, a shard's work settles (the same assumption),
  foreign locks expire, handlers that run end, statements and commands settle.  Redis
  need not come back: `BacklogDrains` says that what is queued reaches PostgreSQL, or
  the dead letters if it is refused, unless Redis goes away or the process is told to stop.
* `ClusterPrimary`: the timers of primary and workers fire, the primary reads its
  events, a process sent SIGKILL dies.  Nothing is assumed of a worker: it may start,
  serve or drain for ever, so `ShutdownEnds` covers a worker whose query hangs.
* `CreationGate`: only the clock runs.
* `CppRedirect`: the flush timer fires, the main loop runs on, a statement is answered
  or fails.

## Proofs

All proofs hold for arbitrary sets of requests, workers, readers, codes, targets
and tokens and arbitrary limits, from the ASSUMEs of the modules:

* limits are positive, `Nil` and `None` are none of the values, a batch fits the
  dead-letter list;
* what is added up or counted is finite: the codes of a click buffer, the
  scrapes of a cluster, the statements in flight of the C++ service, the
  concurrent requests of the gate.

No proof bounds the number of steps.  The bounds of the models (`MaxFaults`,
`MaxForks`, `MaxClock` and so on) are constants too, so a theorem holds whatever
their value.

### Creation, sync and cache: WriteBehindProofs

**Part 1, types and locks.**  `TypeCorrect` strengthens `TypeOK` by what an actor has at
each await: a request at `enqueue` has a body and a code, a reader about to fill
has a row, a worker outside `idle` has a token and no two share one.  The steps
are grouped by actor (`StepOfOneActor`).  `HoldersSeeHead` then proves that what
the owner of the lock peeked is a prefix of the queue.  It is inductive together
with the type invariant: clients only append (`ClientsAppend`); only
COMPLETE_SYNC shortens the queue, and it clears the lock in the same step; a lock
is never taken with a token that another worker holds.

**Part 2, nothing is lost.**  The headline: `NothingAckedIsLost`.  `NoAckedLinkLost`
alone is not inductive: nothing in it says that the entries a worker is about to
trim have been handled.  The inductive invariant `LossInv` adds

* `QueueInv`: a code is queued at most once, because it is issued once and the
  request that holds it enqueues it once (this is `CodesQueuedOnce`; without it
  the deduplication of a batch could drop an entry silently);
* `BatchInv`: a peeked batch has distinct codes; at `lookup` what the insert
  reported persisted is durable; at `complete` every entry that parses is durable
  or a conflict.  It survives other actors' steps because rows are never deleted
  or overwritten (`RowsKeptStep`);
* `RowInv`: a synchronous creation that is about to cache its row has the row;
* `FiniteInv`: dead letters are finite, so that the set grows until it is full.

`EntriesLeave` combines `HolderSeesHead` (what is trimmed is what was peeked) with
`BatchInv` (what was peeked has been handled), and `NothingAckedIsLost` follows:
an acknowledged link is durable, queued or a dead letter, and each of these either
persists or turns into another.

**Part 3, the ledger.**  `Refinement`: every behaviour of the write-behind path is
one of `LinkLedger`.  Under the mapping of `WriteBehindLedger` an enqueue is
`Accept` (without acknowledgement when the answer is lost), a synchronous creation
is `Write` and later `Acknowledge`, an insert of a batch is `Write`, COMPLETE_SYNC is
`Settle`, and everything else stutters.  Beyond `LossInv` the proof needs
`ConflictInv`: what a worker files as conflicts are entries it peeked.

**Part 4, what Redis shows of a link.**  Every step that touches a hash
or the queue is one of four (`HashStep`): a link is queued, a row is written to its
hash, hashes go, a batch completes.  `CacheRepeatsRows` needs that a redirect about
to fill has the row of the code (`FillInv`, since rows never change), that what a
worker will unmark is durable (`HandledInv`), and that the pending hash shows the
target of the queue entry or of the row (`PendingTargets`).  The other three name the
one case in which the code does otherwise, and hold for all inputs:

* `PendingMarksBacked`: a pending mark goes no later than its queue entry, unless the
  code was given to a link that is too long after normalisation.  Such a request
  keeps its code (`GivenToLongLink` stays true), since the table refuses the link too
  and the handler does not try another;
* `QueuedLinksVisible`: a queued link without an expiry is in Redis or its code has a
  row.  By `LastingInv` such a link without a row has a hash that nothing can delete:
  it has no TTL, and no redirect that read an expired entry of the code is about to
  purge it, because before the code was queued only a row put a hash there (`FreshInv`);
* `OneOwner`: two requests own a code only if one of them asked for it as an alias, and
  the alias is the row.  Its invariant `OwnerInv` speaks of every request that has a
  code and may still be answered with it.

### Induction, recursion and sums: RecursionTheorems

The library's induction and recursion theorems take an operator, which the prover
cannot instantiate.  `RecursionTheorems` states what is needed with *sets* and
*functions* in its place and proves it from the well-foundedness of the naturals:

* induction: a set of numbers that contains 0 and, with a number, its successor
  contains all of them (`NatSetInduction`, `BoundedInduction`); a set of subsets that
  contains the empty one and is closed under adding an element contains every finite
  subset (`SubsetInduction`);
* recursion: a function that a recursive definition describes, over numbers or over
  finite subsets, exists and is the only one (`RecursionExists`, `RecursionUnique`,
  `SetRecursionExists`), so that a model's recursive function satisfies its equation;
* orbits: an injective map of a finite set into itself brings every element back
  (`OrbitReturns`), so the walk that applies it until it is inside a part it started
  from ends there (`WalkEnds`), and two walks from different elements end in
  different ones (`WalkInjective`);
* sums: totals, stripes, flights and buckets are added up with the community modules'
  `SumFunctionOnSet`, a fold.  The sum without one element, after one value changed,
  of two maps merged, of zeros, of a prefix, and of a sequence that grows at its end,
  loses its head or is cut.

### Allocator and codes: CodeAllocatorProofs

*Ids.*  `UniqueIds`, by the invariant that the ids a process may still hand out lie
below the sequence, belong to it alone and have not been issued; `InCodeSpace`;
`CallersServed` (no block is overwritten, no caller waits without a reservation).

*Codes.*  `CodesOfIds` is about the scrambler alone, for any sizes of halves, base and
length and any mixers.  Applying XOR twice gives back the half, so a round has an
inverse and the network is injective on the pairs of halves; they are finite and
contain the code space, so the loop of `permuteHalves` ends and is injective
(`WalkEnds`, `WalkInjective`).  Each step of `encode` divides the two halves as the
reference encoder divides the whole number, so the digits are the same; the number is
below `Base` to the power of `CodeLength`, so the numeral says the number, and
different numbers have different numerals.  `CodesAreCorrect` puts this and the ids
together: what two calls of `nextCode` return differs, in whatever processes and
across rejected reservations and restarts.

The assumption is the one the code relies on: the code space fits into the two
halves (62^9 < 2^54).

### Cluster: ClusterPrimaryProofs

* `OneWorkerPerShard`.  `LifeInv` orders the life of a process (an id is given at
  most once, an exit is handled after the process is gone, an index is kept from fork
  to exit), `IndexInv` says that indexes differ and that until shutdown each is
  somebody's.  That the lists of the indexes partition the shards is arithmetic on
  remainders.
* `CollectionsCanEnd`: a collection waits only for workers whose exit has not been
  handled; with `LifeInv` it is inductive.
* `NoEventMiscounted` and `OrderlyExitDelivers`.  The account of a worker balances
  only with what its state says of the parts (`QuietInv`: a worker that stopped
  listening has nothing pending, a channel that is closed is empty).
* `FlushBeforeAnswer`.  The argument is about order on a channel: `CoveredInv` says that
  in front of every acknowledgement of a scrape on a worker's channel there are
  batches which, with the totals, reach what the worker had recorded when the scrape
  began (`Covers`); so when the primary stops awaiting the worker the totals have it,
  and totals never fall.  `FreshInv` says that nobody has heard of a scrape that has
  not begun, without which an old acknowledgement could answer a new scrape.

### Metrics collectors: MetricsCollectorsProofs

* `SnapshotsStayValid`.  `TypeOK` and `BatchesAccepted` are inductive only together with
  the full shape of a snapshot, aggregate and single collector included
  (`SnapshotInv`): valid names and series only, naturals throughout, a bucket for
  each bound.  Calls keep it by their guards, flushes because merging does.
* `TotalsAgree`.  Merging of valid snapshots is associative and commutative, and the empty
  snapshot is neutral; every call of a collector is the merge of the snapshot of that
  one call, also where `Metrics` updates its maps in place, and for a duration of zero
  the two snapshots of the call differ by its first-bucket entry, which `MissedBy`
  collects (`MissedAppend`).  So the merge of the
  aggregate and of all batches, in whatever order CHOOSE takes the workers, does not
  change when a worker flushes, and grows by the same snapshot as the single collector
  at a call (`Agreed`).
* `ExpositionIsRight`.  By `ExpositionInv` the bucket of a bound counts the requests
  that fit it and no smaller bound; the cumulative sum over the buckets up to a bound
  is then the number of requests that took no longer, because bounds ascend.

### Click buffer, schedule and shutdown: ServerShutdownProofs

*The click buffer by itself.*  `Conservation` (every click is counted once, except those
of an UPDATE that committed while its answer was lost), `ClosedIsDrained`, and
`TotalIsSum`: `pendingTotal`, on which the size flush depends, is the sum of the map
through takes, merges and retries.  These are theorems about `BufferSpec`, whoever
writes the rows.

*The server.*  It is composed of the schedule and the click buffer, and so is
the proof: `BufferRuns` shows that every behaviour of the server is one of `BufferSpec`
(rows that a tick commits are its `RowsInserted`), and the buffer's theorems are then
used as they are.  The schedule has invariants of its own:

* `TickInv`: what was queued when the tick began is settled (it has its row or is a
  dead letter, and stays so: `SettledStays`), or is on a shard that
  was blocked or capped, or still waits on a shard the tick has to do;
* `StarterInv`, `CloseInv`: who may start a tick, and that `close()` loses sight of
  nothing that was queued when it was called, until a tick of its own takes it up.
  From these follows `LastTickCorrect`;
* `PhaseInv` and `LinkInv`: the phases come in the order of `closeResources`, and clicks
  are on links that are settled or wait, which were queued before `close()`
  was called once it has been.  With `TickInv` they give `ShutdownCorrect`.

### Gate: CreationGateProofs

`QuotaCorrect`.  The bound counts windows, and the state does not: `WindowsInv` says that
for each client there is a number of windows that are over such that the checks made,
and the requests counted in an earlier window that may still make one, are within
the quota of those windows, of the evicted counters and of what the present window has
counted; and that these windows and the age of the present one fit into the time
that has passed.

### C++ service: CppRedirectProofs

`RedirectsCorrect`, by the invariant that a link is in Redis until it has a row or an
expiry, so a request that Redis answered without the link finds it in PostgreSQL.
`ClicksCorrect`: the account of the clicks over stripes, drained batches and
statements in flight is inductive with the type invariant and `MissedInv`, which says
that a statement that fails after all can take back what it had missed.

### Only model-checked

* Every liveness property (`QueueDrains`, `BufferSettles`, `CallsEnd`, `RendersSettle`,
  `ShutdownEnds`, `BacklogDrains`, `ServerStops`, `QuotaReturns`, `ClicksLeave`): the
  prover has no rules for fairness.
* That `Xor` and `Power` agree with the library's operators, on the instance of
  `allocator`: module `Bitwise` declares recursive operators, which the prover does not
  support.  The proofs use the definitions of `Xor` and `Power`.
* The disagreements with docs and comments: a counterexample is TLC's to find.

## Not modelled

* The FNV hash that gives a code its shard.  A code has some shard; no property
  depends on which.
* The memory link store, a test double, and random codes of the synchronous mode,
  whose clash the attempt loop handles like any taken code.
* What the API key comparison and the classification of addresses compute: keys and
  addresses are in a set or not.  The order of the checks is modelled.
* The alias check answered by a replica.  `ReplicaReads` replicates the queue only; a
  check that misses a pending link does what the check racing an enqueue does, which
  the table of disagreements shows on the primary.
* Configuration, migrations, pools, Redis client set-up, argument parsing: no state
  of their own.  Health, statistics and HTTP endpoints change no state.
* The text of the exposition; the counts in it are modelled.
* The cached click counter, which is display only.
* `jobs/warm-cache.ts`.  It pages through the table by code and writes the hash of
  every row, as the fill of a redirect does; its only state is the cursor.  With
  `--ttl 0` a key has no TTL at all: the comment "keep entries until evicted"
  (`jobs/warm-cache.ts:10`) does not fit volatile-lru (`docs/ARCHITECTURE.md:62`),
  which never evicts such a key.
* Sub-second time.

## State

Modelled and checked: every component but those above.  Proved: every safety property
of the passing runs, with the refinement to the ledger.  What would extend the
project is not more proofs about these modules but other parts: `warm-cache` beside
the redirects that fill the same hashes, and the alias check answered by a replica.
