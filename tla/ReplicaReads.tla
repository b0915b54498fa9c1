---------------------------- MODULE ReplicaReads ----------------------------
(***************************************************************************)
(* The write-behind path with REDIS_CLUSTER_USE_REPLICAS set               *)
(* (src/src/cache/redis-client.ts): the cluster client sends read-only     *)
(* commands to any node of the shard, so the LLEN and the LRANGE of the    *)
(* sync worker may be answered by a replica, which "may briefly lag behind *)
(* masters" (src/src/config.ts:15).  Scripts and writes go to the master.  *)
(***************************************************************************)
EXTENDS WriteBehind

VARIABLE replica   \* the sync queue as a replica has it

replicaVars == <<vars, replica>>

ReplicaInit == Init /\ replica = <<>>

\* The replica has applied what the master has done so far.
Replicate ==
    /\ replica # queue
    /\ replica' = queue
    /\ UNCHANGED vars

\* queue.length answered by the replica.
LengthFromReplica(w) ==
    /\ wpc[w] = "idle"
    /\ replica # <<>>
    /\ \E t \in FreshTokens : token' = [token EXCEPT ![w] = t]
    /\ Goto(w, "acquire")
    /\ UNCHANGED <<raw, persisted, conflicts, batches, links, redisVars, clientVars, faults, replica>>

\* queue.peek answered by the replica.
PeekFromReplica(w) ==
    /\ wpc[w] = "peek"
    /\ IF replica = <<>>
       THEN ToRelease(w)
       ELSE /\ raw' = [raw EXCEPT ![w] = SubSeq(replica, 1, IF BatchSize < Len(replica)
                                                            THEN BatchSize ELSE Len(replica))]
            /\ Goto(w, "insert")
            /\ UNCHANGED <<token, persisted, conflicts, batches>>
    /\ UNCHANGED <<links, redisVars, clientVars, faults, replica>>

ReplicaNext ==
    \/ Next /\ UNCHANGED replica
    \/ Replicate
    \/ \E w \in Workers : LengthFromReplica(w) \/ PeekFromReplica(w)

ReplicaSpec == ReplicaInit /\ [][ReplicaNext]_replicaVars

=============================================================================
