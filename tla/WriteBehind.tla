----------------------------- MODULE WriteBehind -----------------------------
(***************************************************************************)
(* The write-behind path of WrapLink on one shard: creation requests,      *)
(* redirects, sync workers, Redis and PostgreSQL.                          *)
(*                                                                         *)
(* Requests and redirects are not fair: one that stops for good is a       *)
(* process that died.  Faults (lost answers, rejected calls, worker        *)
(* crashes, a lock that outlives its TTL under its owner) are limited to   *)
(* MaxFaults, so that runs are finite and faults cease.                    *)
(***************************************************************************)
EXTENDS WriteBehindLinkStore, LinkSyncWorker

CONSTANT MaxFaults

ASSUME FaultAssumption == MaxFaults \in Nat

VARIABLE faults

clientVars == <<requestVars, readerVars, late>>

vars == <<links, redisVars, workerVars, clientVars, faults>>

TypeOK ==
    /\ PostgresTypeOK /\ RedisTypeOK /\ WorkerTypeOK /\ ReaderTypeOK /\ RequestTypeOK
    /\ faults \in 0..MaxFaults

Init ==
    /\ PostgresInit /\ RedisInit /\ WorkerInit /\ ReaderInit /\ RequestInit
    /\ faults = 0

Request == (\E r \in Requests : RequestStep(r)) /\ UNCHANGED workerVars

Read == (\E d \in Readers : ReaderStep(d)) /\ UNCHANGED <<workerVars, requestVars>>

Work(w) == WorkerStep(w) /\ UNCHANGED <<clientVars, faults>>

OrphanLockExpires == ExpireOrphanLock /\ UNCHANGED <<clientVars, faults>>

KeyVanishes ==
    /\ \E c \in Codes : Vanish(c)
    /\ UNCHANGED <<links, workerVars, clientVars>>

TimePasses == ClockPasses /\ UNCHANGED <<workerVars, requestVars>>

ClientFault ==
    \/ (\E r \in Requests : RequestFault(r)) /\ UNCHANGED workerVars
    \/ (\E d \in Readers : ReaderFault(d)) /\ UNCHANGED <<workerVars, requestVars>>

WorkFault ==
    /\ ExpireOwnedLock \/ \E w \in Workers : WorkerFault(w)
    /\ UNCHANGED clientVars

Fault ==
    /\ faults < MaxFaults
    /\ faults' = faults + 1
    /\ ClientFault \/ WorkFault

Next ==
    \/ (Request \/ Read \/ KeyVanishes \/ TimePasses) /\ UNCHANGED faults
    \/ \E w \in Workers : Work(w)
    \/ OrphanLockExpires
    \/ Fault

Spec == Init /\ [][Next]_vars

(***************************************************************************)
(* Fairness.  The tick timer reaches every shard again and again and an    *)
(* await settles; a lock without an owner expires after lockTtlMs.         *)
(***************************************************************************)
FairSpec ==
    /\ Spec
    /\ \A w \in Workers : WF_vars(Work(w))
    /\ WF_vars(OrphanLockExpires)

-----------------------------------------------------------------------------
(***************************************************************************)
(* Safety                                                                  *)
(***************************************************************************)
Durable(l) == links[l.code] # Nil /\ links[l.code].target = l.target

DeadLettered(l) == \E letter \in dead : letter.link = l

\* While a worker's token is the shard's lock, what it peeked is still the
\* head of the queue, so the LTRIM of COMPLETE_SYNC (link-sync-worker.ts:102)
\* removes exactly the entries the worker handled, whatever lock expiries,
\* crashes and lost answers came between.
HolderSeesHead ==
    \A w \in Workers :
        (wpc[w] \in {"insert", "lookup", "complete"} /\ lock = token[w])
            => /\ Len(raw[w]) <= Len(queue)
               /\ \A i \in 1..Len(raw[w]) : raw[w][i] = queue[i]

\* A link whose creation was answered with 201 is in PostgreSQL, or still
\* queued for it, or in the dead letters (unless the list has been cut): no
\* interleaving of requests, workers and faults loses it.
NoAckedLinkLost ==
    \A r \in Requests :
        rpc[r] = "acked" =>
            \/ Durable(rlink[r])
            \/ rlink[r] \in Range(queue)
            \/ DeadLettered(rlink[r])
            \/ Cardinality(dead) >= DeadCap

\* No code is queued twice, so the first-occurrence rule of
\* insertPendingBatch (postgres-link-store.ts:206-213) never drops an entry.
QueueCodesDistinct ==
    \A i, j \in 1..Len(queue) : queue[i].code = queue[j].code => i = j

\* A hash that is not marked pending repeats the row of PostgreSQL: no fill,
\* purge or sync completion leaves a reader with another target than the one
\* PostgreSQL has.
CacheCoherent ==
    \A c \in Codes :
        (hash[c] # Nil /\ ~hash[c].pending)
            => links[c] # Nil /\ links[c].target = hash[c].target

\* A code the allocator gave to a link that is too long once normalised.  The
\* table refuses such a link, so its request never goes on to another code.
GivenToLongLink(c) ==
    \E r \in Requests :
        code[r] = c /\ body[r] # Nil /\ ~Custom(r) /\ ~TargetLengthOK(body[r])

\* A pending mark goes no later than its queue entry; a mark left behind
\* refuses the code as an alias and, without a TTL, keeps the key for ever.
\* One kind of link does leave its mark behind: COMPLETE_SYNC takes an entry
\* that parsePendingLink refuses off the queue and is told neither to clear
\* nor to delete its hash (link-sync-worker.ts:441-454).
PendingFlagBacked ==
    \A c \in Codes :
        (hash[c] # Nil /\ hash[c].pending)
            => (\E l \in Range(queue) : l.code = c) \/ GivenToLongLink(c)

\* A queued link that never expires is not hidden: its hash is in Redis or its
\* code has a row in PostgreSQL.  Its hash has no TTL before the row exists,
\* and no redirect that purges an expired entry of the code deletes it.
PendingVisible ==
    \A l \in Range(queue) : l.expires \/ hash[l.code] # Nil \/ links[l.code] # Nil

\* "Pending links and queues have no TTL and are never evicted"
\* (docs/ARCHITECTURE.md:62), expiring links not excepted: while a link is
\* queued and has not expired, Redis or PostgreSQL has it.  ENQUEUE_LINK gives
\* the hash of a link that expires a TTL (write-behind-link-store.ts:42-44).
PendingNeverEvicted ==
    \A l \in Range(queue) : Expired(l) \/ hash[l.code] # Nil \/ links[l.code] # Nil

\* Two requests are told that they own one code in one way only: one asked for
\* it as an alias, and it was generated for the other and queued without a look
\* at PostgreSQL, when no hash stood in the way: before the alias was inserted,
\* or after its hash was evicted.  The alias is then the code's row, and stays.
OneOwnerPerCode ==
    \A r, s \in Requests :
        (rpc[r] = "acked" /\ rpc[s] = "acked" /\ r # s /\ rlink[r].code = rlink[s].code)
            => /\ Custom(r) # Custom(s)
               /\ \E q \in {r, s} : Custom(q) /\ links[rlink[q].code] = rlink[q]

\* An entry leaves the queue only in a step that finds it in PostgreSQL under
\* its own target or moves it to the dead letters.
EntriesLeaveAfterCommit ==
    [][\A l \in Range(queue) \ Range(queue') : Durable(l) \/ DeadLettered(l)']_vars

\* The worker's own promise: "entries leave the queue only after PostgreSQL
\* commits" (link-sync-worker.ts:238), dead letters not excepted.
\* An entry that is too long after normalisation leaves without a commit.
LeavesOnlyCommitted == [][\A l \in Range(queue) \ Range(queue') : Durable(l)]_vars

(***************************************************************************)
(* Liveness                                                                *)
(***************************************************************************)
\* Every queued link is eventually taken off the queue: crashes, lost answers
\* and orphaned locks delay the drain but never stop it.
QueueDrains ==
    \A c \in Codes : (\E l \in Range(queue) : l.code = c) ~> (\A l \in Range(queue) : l.code # c)
=============================================================================
