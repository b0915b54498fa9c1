-------------------------- MODULE CachedLinkStore --------------------------
(***************************************************************************)
(* CachedLinkStore (src/src/store/cached-link-store.ts): redirects that    *)
(* read through the link hash to PostgreSQL and fill it, and the cache     *)
(* write that ends a synchronous creation.  A read, the deletion of an     *)
(* expired entry, the SELECT and the fill are separate awaits.             *)
(*                                                                         *)
(* Click counts live in module ClickBuffer; without them a cache hit       *)
(* changes no state and is a stuttering step.                              *)
(***************************************************************************)
EXTENDS PostgresLinkStore, RedisShard

CONSTANT Readers   \* concurrent GET /:code requests

VARIABLES
    late,    \* the clock: links that expire have expired
    fpc,     \* the await each reader is at
    fcode,   \* the code it looks up
    flink    \* the row it is about to cache

readerVars == <<fpc, fcode, flink>>

ReaderTypeOK ==
    /\ late \in BOOLEAN
    /\ fpc \in [Readers -> {"idle", "purge", "find", "cache"}]
    /\ fcode \in [Readers -> Codes \union {Nil}]
    /\ flink \in [Readers -> PendingLink \union {Nil}]

ReaderInit ==
    /\ late = FALSE
    /\ fpc = [d \in Readers |-> "idle"]
    /\ fcode = [d \in Readers |-> Nil]
    /\ flink = [d \in Readers |-> Nil]

\* cache: nothing is cached in a link's last second or after it (the key is
\* deleted instead); before that the hash is written with a TTL.
Cache(l) ==
    \/ l.expires /\ DeleteHash(l.code)
    \/ ~(l.expires /\ late) /\ CacheHash(l)

Expired(l) == l.expires /\ late

FinishRead(d) ==
    /\ fpc' = [fpc EXCEPT ![d] = "idle"]
    /\ fcode' = [fcode EXCEPT ![d] = Nil]
    /\ flink' = [flink EXCEPT ![d] = Nil]

-----------------------------------------------------------------------------
\* readSafely misses: no hash, or Redis does not answer.
ReadMiss(d, c, answered) ==
    /\ fpc[d] = "idle"
    /\ answered => hash[c] = Nil
    /\ fpc' = [fpc EXCEPT ![d] = "find"]
    /\ fcode' = [fcode EXCEPT ![d] = c]
    /\ UNCHANGED <<flink, late, links, redisVars>>

\* readSafely finds an entry past its expiry ...
ReadExpired(d, c) ==
    /\ fpc[d] = "idle"
    /\ hash[c] # Nil /\ Expired(hash[c])
    /\ fpc' = [fpc EXCEPT ![d] = "purge"]
    /\ fcode' = [fcode EXCEPT ![d] = c]
    /\ UNCHANGED <<flink, late, links, redisVars>>

\* ... and deletes the key, or fails to (the rejection is caught).
Purge(d) ==
    /\ fpc[d] = "purge"
    /\ DeleteHash(fcode[d]) \/ UNCHANGED hash
    /\ fpc' = [fpc EXCEPT ![d] = "find"]
    /\ UNCHANGED <<fcode, flink, late, links, queue, lock, dead>>

\* source.find: the SELECT, which hides expired rows.
FindRow(d) ==
    /\ fpc[d] = "find"
    /\ LET row == links[fcode[d]]
       IN IF row = Nil \/ (row # Nil /\ Expired(row))
          THEN FinishRead(d)
          ELSE /\ fpc' = [fpc EXCEPT ![d] = "cache"]
               /\ flink' = [flink EXCEPT ![d] = row]
               /\ UNCHANGED fcode
    /\ UNCHANGED <<late, links, redisVars>>

\* cacheSafely: the fill, skipped when Redis is away.
CacheRow(d) ==
    /\ fpc[d] = "cache"
    /\ Cache(flink[d]) \/ UNCHANGED hash
    /\ FinishRead(d)
    /\ UNCHANGED <<late, links, queue, lock, dead>>

ReaderStep(d) ==
    \/ \E c \in Codes : ReadMiss(d, c, TRUE) \/ ReadExpired(d, c)
    \/ Purge(d) \/ FindRow(d) \/ CacheRow(d)

ReaderFault(d) == \E c \in Codes : ReadMiss(d, c, FALSE)

\* Time passes the expiry of every link that expires (if none may, the clock
\* does not matter).
ClockPasses ==
    /\ ~late /\ TRUE \in Expiries
    /\ late' = TRUE
    /\ UNCHANGED <<readerVars, links, redisVars>>
=============================================================================
