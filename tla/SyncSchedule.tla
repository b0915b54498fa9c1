---------------------------- MODULE SyncSchedule ----------------------------
(***************************************************************************)
(* When the shards of a process are synced: tick, the interval timer,      *)
(* drain and close of LinkSyncWorker (src/src/store/link-sync-worker.ts).  *)
(* What syncShard does to a shard is module LinkSyncWorker; here it is one *)
(* step with the outcomes it can have.                                     *)
(*                                                                         *)
(* The process is a server, which uses the timer and close, or the job     *)
(* sync-links, which drains (src/src/jobs/sync-links.ts).                  *)
(***************************************************************************)
EXTENDS LinkRows, Integers, Sequences, FiniteSets, SequencesExt

CONSTANTS
    Shards,     \* the shards of all queues
    Assigned,   \* the shards of the process if it is a server (shardsForWorker)
    ShardOf,    \* the shard of a code
    Refused,    \* links too long once normalised: parsePendingLink refuses them
    PerTick,    \* maxBatchesPerShard batches of batchSize entries
    MaxFaults   \* failed shards, foreign locks, losses of Redis

ASSUME ScheduleAssumption ==
    /\ Assigned \subseteq Shards
    /\ ShardOf \in [Codes -> Shards]
    /\ Refused \subseteq Codes
    /\ PerTick \in Nat \ {0}
    /\ MaxFaults \in Nat

VARIABLES
    job,      \* the process is the job, not a server
    queue,    \* the sync queue of each shard, head first
    dead,     \* refused links: off their queue, as dead letters, without a row
    held,     \* shards whose lock another process holds, or a dead one left
    ready,    \* redis.isReady
    timer,    \* the interval timer is set
    running,  \* this.running: a tick is under way
    todo,     \* shards the tick has not finished
    found,    \* its result so far: something was synced
    blocked,  \* history: shards the tick could not get at
    capped,   \* history: shards it left entries on
    atTick,   \* history: what was queued when it began
    closing,  \* where close() is
    atClose,  \* history: what was queued when it was called
    drain,    \* where drain() is
    faults

worker == <<job, timer, running, todo, found, blocked, capped, atTick, closing, atClose, drain>>
store == <<queue, stored, dead, held, ready>>
scheduleVars == <<store, worker, faults>>

\* options.shards: the job takes them all.
Owned == IF job THEN Shards ELSE Assigned

Queued(shards) == UNION {ToSet(queue[s]) : s \in shards}

ScheduleTypeOK ==
    /\ queue \in [Shards -> Seq(Codes)]
    /\ stored \subseteq Codes
    /\ dead \subseteq Refused
    /\ held \subseteq Shards
    /\ {job, ready, timer, running, found} \subseteq BOOLEAN
    /\ {todo, blocked, capped} \subseteq SUBSET Owned
    /\ {atTick, atClose} \subseteq SUBSET Codes
    /\ closing \in {"open", "waiting", "final", "closed"}
    /\ drain \in {"idle", "ticking", "done"}
    /\ faults \in 0..MaxFaults

ScheduleInit ==
    /\ job \in BOOLEAN
    /\ queue = [s \in Shards |-> <<>>]
    /\ stored = {} /\ dead = {}
    /\ held = {}
    /\ ready = TRUE
    /\ timer = FALSE /\ running = FALSE /\ found = FALSE
    /\ todo = {} /\ blocked = {} /\ capped = {}
    /\ atTick = {} /\ atClose = {}
    /\ closing = "open"
    /\ drain = "idle"
    /\ faults = 0

-----------------------------------------------------------------------------
(***************************************************************************)
(* A tick                                                                  *)
(***************************************************************************)
\* tick() when none is running: processShards begins, with no shard at all
\* when a server's Redis is not available.
StartTick ==
    /\ running' = TRUE
    /\ found' = FALSE
    /\ todo' = IF job \/ ready THEN Owned ELSE {}
    /\ blocked' = IF job \/ ready THEN {} ELSE Owned
    /\ capped' = {}
    /\ atTick' = Queued(Owned)

Finish(s) == s \in todo /\ todo' = todo \ {s}

\* The first n entries of a shard are committed, the refused among them left
\* out; the first m are trimmed, the refused among them now dead letters.
Commit(s, n, m) ==
    /\ stored' = stored \union (ToSet(SubSeq(queue[s], 1, n)) \ Refused)
    /\ dead' = dead \union (ToSet(SubSeq(queue[s], 1, m)) \intersect Refused)
    /\ queue' = [queue EXCEPT ![s] = SubSeq(@, m + 1, Len(@))]

\* syncShard gets through: up to PerTick entries.
SyncShard(s) ==
    /\ Finish(s)
    /\ s \notin held \/ queue[s] = <<>>
    /\ LET n == IF PerTick < Len(queue[s]) THEN PerTick ELSE Len(queue[s])
       IN /\ Commit(s, n, n)
          /\ found' = (found \/ n > 0)
          /\ capped' = IF n < Len(queue[s]) THEN capped \union {s} ELSE capped
    /\ UNCHANGED <<held, ready, job, timer, running, blocked, atTick, closing, atClose, drain, faults>>

\* The lock is taken: nothing is done and nothing counted.
ShardHeld(s) ==
    /\ Finish(s)
    /\ s \in held /\ queue[s] # <<>>
    /\ blocked' = blocked \union {s}
    /\ UNCHANGED <<store, job, timer, running, found, capped, atTick, closing, atClose, drain, faults>>

\* syncShard rejects or loses its lock part of the way: batches before that are
\* committed and trimmed, the last perhaps committed only.  The caller of a
\* rejected syncShard counts nothing for the shard.
ShardFails(s) ==
    /\ Finish(s)
    /\ \E n \in 0..Len(queue[s]) : \E m \in 0..n :
          /\ n <= PerTick
          /\ Commit(s, n, m)
          /\ found' \in {found, found \/ m > 0}
    /\ blocked' = blocked \union {s}
    /\ UNCHANGED <<held, ready, job, timer, running, capped, atTick, closing, atClose, drain>>

\* The finally of tick().
\* (Deliberate fault: without it a failed shard leaves the tick running.)
TickEndsUnlessFailed ==
    /\ running /\ todo = {}
    /\ running' = (blocked # {})
    /\ UNCHANGED <<store, job, timer, todo, found, blocked, capped, atTick, closing, atClose, drain, faults>>

TickEnds ==
    /\ running /\ todo = {}
    /\ running' = FALSE
    /\ UNCHANGED <<store, job, timer, todo, found, blocked, capped, atTick, closing, atClose, drain, faults>>

-----------------------------------------------------------------------------
(***************************************************************************)
(* Who starts ticks                                                        *)
(***************************************************************************)
\* start(), once; not after close().
Start ==
    /\ ~job /\ closing = "open" /\ ~timer
    /\ timer' = TRUE
    /\ UNCHANGED <<store, job, running, todo, found, blocked, capped, atTick, closing, atClose, drain, faults>>

\* The interval passes; while a tick is running nothing happens.
TimerTick ==
    /\ timer /\ ~running
    /\ StartTick
    /\ UNCHANGED <<store, job, timer, closing, atClose, drain, faults>>

\* close(): the timer is cleared and a tick under way is awaited; then, or at
\* once, one more tick.
\* (Deliberate fault: the tick under way is taken for the last one.)
CloseScheduleShares ==
    /\ closing = "open"
    /\ timer' = FALSE
    /\ atClose' = Queued(Owned)
    /\ closing' = "final"
    /\ IF running THEN UNCHANGED <<running, todo, found, blocked, capped, atTick>> ELSE StartTick
    /\ UNCHANGED <<store, job, drain, faults>>

CloseSchedule ==
    /\ closing = "open"
    /\ timer' = FALSE
    /\ atClose' = Queued(Owned)
    /\ IF running
       THEN closing' = "waiting" /\ UNCHANGED <<running, todo, found, blocked, capped, atTick>>
       ELSE closing' = "final" /\ StartTick
    /\ UNCHANGED <<store, job, drain, faults>>

FinalTick ==
    /\ closing = "waiting" /\ ~running
    /\ closing' = "final"
    /\ StartTick
    /\ UNCHANGED <<store, job, timer, atClose, drain, faults>>

CloseReturns ==
    /\ closing = "final" /\ ~running
    /\ closing' = "closed"
    /\ UNCHANGED <<store, job, timer, running, todo, found, blocked, capped, atTick, atClose, drain, faults>>

\* drain(): ticks until one finds nothing.
Drain ==
    /\ job /\ drain = "idle"
    /\ drain' = "ticking"
    /\ StartTick
    /\ UNCHANGED <<store, job, timer, closing, atClose, faults>>

\* (Deliberate fault: one tick is enough.)
DrainNextOnce ==
    /\ drain = "ticking" /\ ~running
    /\ drain' = "done"
    /\ UNCHANGED <<store, job, timer, running, todo, found, blocked, capped, atTick, closing, atClose, faults>>

DrainNext ==
    /\ drain = "ticking" /\ ~running
    /\ IF found
       THEN StartTick /\ UNCHANGED drain
       ELSE drain' = "done" /\ UNCHANGED <<running, todo, found, blocked, capped, atTick>>
    /\ UNCHANGED <<store, job, timer, closing, atClose, faults>>

-----------------------------------------------------------------------------
(***************************************************************************)
(* The surroundings                                                        *)
(***************************************************************************)
\* Some process of the cluster queues a link; a code is queued once.
Enqueue(c) ==
    /\ c \notin Queued(Shards) \union stored \union dead
    /\ queue' = [queue EXCEPT ![ShardOf[c]] = Append(@, c)]
    /\ UNCHANGED <<stored, dead, held, ready, worker, faults>>

\* Another process, of this host or another, syncs a shard: one that is not in
\* this one's list, or one whose lock it holds.
SyncedElsewhere(s) ==
    /\ s \notin Owned \/ s \in held
    /\ queue[s] # <<>>
    /\ Commit(s, Len(queue[s]), Len(queue[s]))
    /\ UNCHANGED <<held, ready, worker, faults>>

\* A lock is released or expires; the client connects again.
LockFreed ==
    /\ \E s \in held : held' = held \ {s}
    /\ UNCHANGED <<queue, stored, dead, ready, worker, faults>>

RedisReturns ==
    /\ ~ready /\ ready' = TRUE
    /\ UNCHANGED <<queue, stored, dead, held, worker, faults>>

ScheduleFault ==
    /\ faults < MaxFaults
    /\ faults' = faults + 1
    /\ \/ \E s \in Owned : ShardFails(s)
       \/ \E s \in Owned \ held : held' = held \union {s} /\ UNCHANGED <<queue, stored, dead, ready, worker>>
       \/ ready /\ ready' = FALSE /\ UNCHANGED <<queue, stored, dead, held, worker>>

ShardStep == \E s \in Owned : SyncShard(s) \/ ShardHeld(s)

ScheduleStep ==
    \/ ShardStep \/ TickEnds \/ Start \/ TimerTick \/ FinalTick \/ CloseReturns
    \/ Drain \/ DrainNext

Surroundings ==
    \/ \E c \in Codes : Enqueue(c)
    \/ \E s \in Shards : SyncedElsewhere(s)
    \/ LockFreed \/ RedisReturns

-----------------------------------------------------------------------------
\* A link is done with: its code has a row, or its entry is a dead letter
\* because the link is too long.
Settled(c) == c \in stored \/ c \in dead

\* When close() returns, every link queued before it was called is settled,
\* unless the last tick could not get at its shard or the shard had more than
\* a tick takes: a tick already under way does not count.
CloseSyncsWithinTick ==
    closing = "closed" => \A c \in atClose : Settled(c) \/ ShardOf[c] \in blocked \union capped

\* "Stops the timer and flushes what is already queued"
\* (link-sync-worker.ts:339): not what exceeds a tick, is locked, fails or is
\* refused.
CloseFlushesQueued == closing = "closed" => atClose \subseteq stored

\* drain() ends only when its last tick found every shard it could get at
\* empty; what was queued there is settled.
DrainLeavesOnlyBlocked ==
    drain = "done" => \A c \in atTick : Settled(c) \/ ShardOf[c] \in blocked

\* "Drains every write-behind queue into PostgreSQL and exits"
\* (jobs/sync-links.ts:2): not those that are locked or fail.
DrainEmptiesQueues == drain = "done" => atTick \subseteq stored

\* What the last tick of close() and of drain() leaves is what it could not
\* get at (link-sync-worker.ts:313, 340).
LastTickSyncs == CloseSyncsWithinTick /\ DrainLeavesOnlyBlocked
=============================================================================
