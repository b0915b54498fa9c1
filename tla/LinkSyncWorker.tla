--------------------------- MODULE LinkSyncWorker ---------------------------
(***************************************************************************)
(* LinkSyncWorker.syncShard (src/src/store/link-sync-worker.ts) run by     *)
(* several worker processes on one shard.  Every await is a step: other    *)
(* workers, clients and faults interleave between any two of them.  What   *)
(* the worker keeps across an await is its state here.                     *)
(***************************************************************************)
EXTENDS PostgresLinkStore, RedisShard

CONSTANTS
    Workers,     \* worker processes whose shard lists contain this shard
    BatchSize,   \* options.batchSize
    MaxBatches   \* options.maxBatchesPerShard

ASSUME WorkerAssumption ==
    /\ BatchSize \in Nat \ {0}
    /\ MaxBatches \in Nat \ {0}
    /\ BatchSize <= DeadCap

VARIABLES
    wpc,        \* the await each worker is at
    token,      \* its token, Nil when it is not in syncShard
    raw,        \* the entries it peeked
    persisted,  \* codes insertPendingBatch reported persisted
    conflicts,  \* links insertPendingBatch reported as conflicts
    batches     \* batchIndex

workerVars == <<wpc, token, raw, persisted, conflicts, batches>>

WorkerStates == {"idle", "acquire", "peek", "insert", "lookup", "complete", "release"}

WorkerTypeOK ==
    /\ wpc \in [Workers -> WorkerStates]
    /\ token \in [Workers -> Tokens \union {Nil}]
    /\ raw \in [Workers -> Seq(PendingLink)]
    /\ persisted \in [Workers -> SUBSET Codes]
    /\ conflicts \in [Workers -> SUBSET PendingLink]
    /\ batches \in [Workers -> Nat]

WorkerInit ==
    /\ wpc = [w \in Workers |-> "idle"]
    /\ token = [w \in Workers |-> Nil]
    /\ raw = [w \in Workers |-> <<>>]
    /\ persisted = [w \in Workers |-> {}]
    /\ conflicts = [w \in Workers |-> {}]
    /\ batches = [w \in Workers |-> 0]

Goto(w, s) == wpc' = [wpc EXCEPT ![w] = s]

\* The locals of the loop body go out of scope.
Discard(w) ==
    /\ raw' = [raw EXCEPT ![w] = <<>>]
    /\ persisted' = [persisted EXCEPT ![w] = {}]
    /\ conflicts' = [conflicts EXCEPT ![w] = {}]

\* syncShard returns, or the process dies.
Return(w) ==
    /\ Goto(w, "idle")
    /\ Discard(w)
    /\ token' = [token EXCEPT ![w] = Nil]
    /\ batches' = [batches EXCEPT ![w] = 0]

\* A break or a rejected await while held is true: on to the finally block.
ToRelease(w) ==
    /\ Goto(w, "release")
    /\ Discard(w)
    /\ UNCHANGED <<token, batches>>

\* randomUUID: a token nobody uses.
FreshTokens == {t \in Tokens : t # lock /\ \A w \in Workers : token[w] # t}

-----------------------------------------------------------------------------
\* A tick reaches the shard, finds its queue non-empty and draws a token.
SyncShard(w) ==
    /\ wpc[w] = "idle"
    /\ queue # <<>>
    /\ \E t \in FreshTokens : token' = [token EXCEPT ![w] = t]
    /\ Goto(w, "acquire")
    /\ UNCHANGED <<raw, persisted, conflicts, batches, links, redisVars>>

\* queue.acquire, before the first batch and again before each further one.
Acquire(w) ==
    /\ wpc[w] = "acquire"
    /\ AcquireLock(token[w])
    /\ IF lock = Nil
       THEN Goto(w, "peek") /\ UNCHANGED <<token, raw, persisted, conflicts, batches>>
       ELSE Return(w)
    /\ UNCHANGED <<links, hash, queue, dead>>

\* acquire rejects, executed or not.  The first call is outside the try and
\* held is false at the later ones, so nothing releases the lock.
AcquireFails(w) ==
    /\ wpc[w] = "acquire"
    /\ AcquireLock(token[w]) \/ UNCHANGED lock
    /\ Return(w)
    /\ UNCHANGED <<links, hash, queue, dead>>

\* queue.peek: LRANGE 0 batchSize-1.
PeekLength == IF BatchSize < Len(queue) THEN BatchSize ELSE Len(queue)

Peek(w) ==
    /\ wpc[w] = "peek"
    /\ IF queue = <<>>
       THEN ToRelease(w)
       ELSE /\ raw' = [raw EXCEPT ![w] = SubSeq(queue, 1, PeekLength)]
            /\ Goto(w, "insert")
            /\ UNCHANGED <<token, persisted, conflicts, batches>>
    /\ UNCHANGED <<links, redisVars>>

\* The INSERT of insertPendingBatch, on the entries that parse.
Batch(w) == FirstOccurrences(raw[w])

Insert(w) ==
    /\ wpc[w] = "insert"
    /\ InsertRows(Batch(w))
    /\ persisted' = [persisted EXCEPT ![w] = {l.code : l \in Inserted(Batch(w))}]
    /\ Goto(w, IF Inserted(Batch(w)) = Batch(w) THEN "complete" ELSE "lookup")
    /\ UNCHANGED <<token, raw, conflicts, batches, redisVars>>

\* The SELECT of insertPendingBatch sorts the rest into replays and conflicts.
Lookup(w) ==
    /\ wpc[w] = "lookup"
    /\ LET rest == {l \in Batch(w) : l.code \notin persisted[w]}
           replays == {l \in rest : IsReplay(l)}
       IN /\ persisted' = [persisted EXCEPT ![w] = @ \union {l.code : l \in replays}]
          /\ conflicts' = [conflicts EXCEPT ![w] = rest \ replays]
    /\ Goto(w, "complete")
    /\ UNCHANGED <<token, raw, batches, links, redisVars>>

\* The insert commits but its answer is lost.
InsertUnacked(w) ==
    /\ wpc[w] = "insert"
    /\ InsertRows(Batch(w))
    /\ ToRelease(w)
    /\ UNCHANGED redisVars

\* A Redis read or a PostgreSQL statement rejects without effect.
AwaitFails(w) ==
    /\ wpc[w] \in {"peek", "insert", "lookup", "complete"}
    /\ ToRelease(w)
    /\ UNCHANGED <<links, redisVars>>

\* Deliberate fault: invalid entries are skipped without a dead letter.
LettersOfConflicts(w) == {[reason |-> "conflict", link |-> l] : l \in conflicts[w]}

\* Deliberate fault: conflicts leave no dead letter.
LettersOfInvalid(w) ==
    {[reason |-> "invalid", link |-> l] : l \in {l \in Range(raw[w]) : ~ParsePendingLink(l)}}

Letters(w) ==
    {[reason |-> "invalid", link |-> l] : l \in {l \in Range(raw[w]) : ~ParsePendingLink(l)}}
        \union {[reason |-> "conflict", link |-> l] : l \in conflicts[w]}

\* COMPLETE_SYNC as this worker calls it: nothing if the lock is not its own.
\* Deliberate faults: COMPLETE_SYNC without its first test, and with the test
\* only around the DEL of the lock.
CompleteEffectUnguarded(w) ==
    CompleteSync(Len(raw[w]), persisted[w], {l.code : l \in conflicts[w]}, Letters(w))

CompleteEffectGuardsLockOnly(w) ==
    /\ hash' = [c \in Codes |-> Completed(c, persisted[w], {l.code : l \in conflicts[w]})]
    /\ PushDeadLetters(Letters(w))
    /\ queue' = SubSeq(queue, Len(raw[w]) + 1, Len(queue))
    /\ ReleaseLock(token[w])

CompleteEffect(w) ==
    IF lock = token[w]
    THEN CompleteSync(Len(raw[w]), persisted[w], {l.code : l \in conflicts[w]}, Letters(w))
    ELSE UNCHANGED redisVars

LastBatch(w) == Len(raw[w]) < BatchSize \/ batches[w] + 1 >= MaxBatches

Complete(w) ==
    /\ wpc[w] = "complete"
    /\ CompleteEffect(w)
    /\ IF lock # token[w] \/ LastBatch(w)
       THEN Return(w)
       ELSE /\ Goto(w, "acquire")
            /\ batches' = [batches EXCEPT ![w] = @ + 1]
            /\ Discard(w)
            /\ UNCHANGED token
    /\ UNCHANGED links

\* The script ran but its answer is lost: held is still true.
CompleteUnacked(w) ==
    /\ wpc[w] = "complete"
    /\ CompleteEffect(w)
    /\ ToRelease(w)
    /\ UNCHANGED links

Release(w) ==
    /\ wpc[w] = "release"
    /\ ReleaseLock(token[w])
    /\ Return(w)
    /\ UNCHANGED <<links, hash, queue, dead>>

\* The release is lost; its rejection is swallowed.
ReleaseFails(w) ==
    /\ wpc[w] = "release"
    /\ Return(w)
    /\ UNCHANGED <<links, redisVars>>

\* The process dies between two awaits.
Crash(w) ==
    /\ wpc[w] # "idle"
    /\ Return(w)
    /\ UNCHANGED <<links, redisVars>>

-----------------------------------------------------------------------------
\* The lock's PX expiry: of a lock nobody works under, or of one whose owner
\* is slower than lockTtlMs.
LockOwned == \E w \in Workers : token[w] = lock

ExpireLock ==
    /\ lock # Nil
    /\ lock' = Nil
    /\ UNCHANGED <<hash, queue, dead, links, workerVars>>

\* Deliberate fault: SET NX without PX, the lock never expires.
LockNeverExpires == FALSE /\ ExpireLock

ExpireOrphanLock == ~LockOwned /\ ExpireLock

ExpireOwnedLock == LockOwned /\ ExpireLock

WorkerStep(w) ==
    \/ SyncShard(w) \/ Acquire(w) \/ Peek(w) \/ Insert(w) \/ Lookup(w)
    \/ Complete(w) \/ Release(w)

WorkerFault(w) ==
    \/ AcquireFails(w) \/ InsertUnacked(w) \/ AwaitFails(w) \/ CompleteUnacked(w)
    \/ ReleaseFails(w) \/ Crash(w)
=============================================================================
