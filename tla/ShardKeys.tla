------------------------------ MODULE ShardKeys ------------------------------
(***************************************************************************)
(* The split of the shards over the worker processes of one host           *)
(* (src/src/cache/keys.ts).  The program has 1024 shards; their number is  *)
(* a constant here.                                                        *)
(***************************************************************************)
EXTENDS Integers

CONSTANTS
    LinkKeyShards,   \* LINK_KEY_SHARDS
    WorkerCount      \* worker processes of the host (WEB_CONCURRENCY)

ASSUME ShardAssumption ==
    /\ LinkKeyShards \in Nat \ {0}
    /\ WorkerCount \in Nat \ {0}

Shards == 0..(LinkKeyShards - 1)

Indexes == 0..(WorkerCount - 1)

\* Deliberate fault: the loop starts one step late.
ShardsForWorkerLate(index, count) ==
    {s \in Shards : \E k \in 1..LinkKeyShards : s = index + k * count}

\* for (shard = index; shard < LINK_KEY_SHARDS; shard += count)
ShardsForWorker(index, count) ==
    {s \in Shards : \E k \in 0..LinkKeyShards : s = index + k * count}
=============================================================================
