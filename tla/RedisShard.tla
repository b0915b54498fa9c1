----------------------------- MODULE RedisShard -----------------------------
(***************************************************************************)
(* The keys of one Redis shard and the commands and Lua scripts the        *)
(* program runs on them.  Redis runs a command, a script or a MULTI block  *)
(* atomically, so each operator below is part of one step.                 *)
(***************************************************************************)
EXTENDS Link

CONSTANTS
    Tokens,             \* lock tokens (randomUUID)
    MaxPendingPerShard, \* backpressure threshold of a shard's queue
    DeadCap             \* the dead-letter list keeps this many (10000)

ASSUME RedisAssumption ==
    /\ MaxPendingPerShard \in Nat \ {0}
    /\ DeadCap \in Nat \ {0}
    /\ Nil \notin Tokens

VARIABLES
    hash,   \* the link hash of each code, or Nil
    queue,  \* the shard's sync queue, head first
    lock,   \* the shard's sync lock: the owner's token, or Nil
    dead    \* the shard's dead letters

redisVars == <<hash, queue, lock, dead>>

\* A link hash: the fields a reader uses, the pending field ENQUEUE_LINK
\* writes, and whether the key has a TTL (volatile-lru may evict it then).
Hash == [target : Targets, expires : BOOLEAN, pending : BOOLEAN, ttl : BOOLEAN]

ASSUME NilHashAssumption == Nil \notin Hash

DeadLetter == [reason : {"invalid", "conflict"}, link : PendingLink]

RedisTypeOK ==
    /\ hash \in [Codes -> Hash \union {Nil}]
    /\ queue \in Seq(PendingLink)
    /\ lock \in Tokens \union {Nil}
    /\ dead \in SUBSET DeadLetter

RedisInit ==
    /\ hash = [c \in Codes |-> Nil]
    /\ queue = <<>>
    /\ lock = Nil
    /\ dead = {}

(***************************************************************************)
(* ENQUEUE_LINK.  EnqueueOutcome is the script's answer; an accepted link  *)
(* gets a pending hash, with a TTL only when the link expires, and an      *)
(* entry at the tail of the queue.                                         *)
(***************************************************************************)
EnqueueOutcome(l) ==
    IF hash[l.code] # Nil THEN "exists"
    ELSE IF Len(queue) >= MaxPendingPerShard THEN "full" ELSE "queued"

\* Deliberate fault: every pending hash gets a TTL.
EnqueueLinkAlwaysTtl(l) ==
    IF EnqueueOutcome(l) = "queued"
    THEN /\ hash' = [hash EXCEPT ![l.code] =
                [target |-> l.target, expires |-> l.expires, pending |-> TRUE, ttl |-> TRUE]]
         /\ queue' = Append(queue, l)
    ELSE UNCHANGED <<hash, queue>>

EnqueueLink(l) ==
    IF EnqueueOutcome(l) = "queued"
    THEN /\ hash' = [hash EXCEPT ![l.code] =
                [target |-> l.target, expires |-> l.expires, pending |-> TRUE, ttl |-> l.expires]]
         /\ queue' = Append(queue, l)
    ELSE UNCHANGED <<hash, queue>>

(***************************************************************************)
(* The sync lock: SET NX PX, and RELEASE_LOCK (compare and delete).        *)
(***************************************************************************)
AcquireLock(t) == lock' = IF lock = Nil THEN t ELSE lock

ReleaseLock(t) == lock' = IF lock = t THEN Nil ELSE lock

(***************************************************************************)
(* COMPLETE_SYNC.  A persisted link's hash loses its pending field and     *)
(* becomes an ordinary cache entry with a TTL; a conflicting link's hash   *)
(* is deleted while it is still pending.  Letters are pushed and the list  *)
(* cut to the newest DeadCap; the order within the list is abstracted, and *)
(* one batch never exceeds the cap.                                        *)
(***************************************************************************)
\* Deliberate fault: the pending field of a persisted link is not removed.
CompletedStaysPending(c, persisted, conflicts) ==
    IF hash[c] # Nil /\ hash[c].pending /\ c \in persisted THEN [hash[c] EXCEPT !.ttl = TRUE]
    ELSE IF hash[c] # Nil /\ hash[c].pending /\ c \in conflicts THEN Nil ELSE hash[c]

\* Deliberate fault: a conflicting hash is kept as an ordinary cache entry.
CompletedKeepsConflict(c, persisted, conflicts) ==
    IF hash[c] # Nil /\ hash[c].pending /\ c \in persisted \union conflicts
    THEN [hash[c] EXCEPT !.pending = FALSE, !.ttl = TRUE]
    ELSE hash[c]

Completed(c, persisted, conflicts) ==
    CASE hash[c] = Nil -> Nil
      [] hash[c] # Nil /\ ~hash[c].pending -> hash[c]
      [] hash[c] # Nil /\ hash[c].pending /\ c \in persisted ->
            [hash[c] EXCEPT !.pending = FALSE, !.ttl = TRUE]
      [] hash[c] # Nil /\ hash[c].pending /\ c \notin persisted /\ c \in conflicts -> Nil
      [] OTHER -> hash[c]

PushDeadLetters(letters) ==
    \E kept \in SUBSET (dead \union letters) :
        /\ letters \subseteq kept
        /\ IF letters = {} \/ Cardinality(dead \union letters) <= DeadCap
           THEN kept = dead \union letters
           ELSE Cardinality(kept) = DeadCap
        /\ dead' = kept

\* Deliberate fault: the whole queue is deleted, not its consumed head.
CompleteSyncDeletesQueue(consumed, persisted, conflicts, letters) ==
    /\ hash' = [c \in Codes |-> Completed(c, persisted, conflicts)]
    /\ PushDeadLetters(letters)
    /\ queue' = <<>>
    /\ lock' = Nil

CompleteSync(consumed, persisted, conflicts, letters) ==
    /\ hash' = [c \in Codes |-> Completed(c, persisted, conflicts)]
    /\ PushDeadLetters(letters)
    /\ queue' = SubSeq(queue, consumed + 1, Len(queue))
    /\ lock' = Nil

(***************************************************************************)
(* CachedLinkStore.cache: HSET leaves a pending field alone, EXPIRE always *)
(* sets a TTL.                                                             *)
(***************************************************************************)
CacheHash(l) ==
    hash' = [hash EXCEPT ![l.code] =
        [target |-> l.target, expires |-> l.expires, ttl |-> TRUE,
         pending |-> hash[l.code] # Nil /\ hash[l.code].pending]]

DeleteHash(c) == hash' = [hash EXCEPT ![c] = Nil]

\* A key with a TTL disappears: it expired or volatile-lru evicted it.
Vanish(c) ==
    /\ hash[c] # Nil /\ hash[c].ttl
    /\ DeleteHash(c)
    /\ UNCHANGED <<queue, lock, dead>>
=============================================================================
