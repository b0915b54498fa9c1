-------------------------- MODULE WriteBehindProofs --------------------------
(***************************************************************************)
(* Proofs about the write-behind path, for any number of requests,         *)
(* readers, workers, codes, targets and faults, in four parts:             *)
(*                                                                         *)
(*   1. types, tokens and what the holder of the lock sees of the queue;   *)
(*   2. nothing acknowledged is lost;                                      *)
(*   3. the path implements the ledger;                                    *)
(*   4. what Redis shows of a link.                                        *)
(***************************************************************************)
EXTENDS WriteBehindLedger, SequenceTheorems, FiniteSetTheorems, TLAPS

\* What a request, a reader and a worker have at each await.
RequestInv ==
    \A r \in Requests :
        /\ rpc[r] = "new" => attempt[r] = 0
        /\ rpc[r] # "new" => body[r] \in Body
        /\ rpc[r] = "generate" => attempt[r] < MaxAttempts
        /\ rpc[r] \in {"enqueue", "alias", "insert"} => code[r] \in Codes
        /\ rpc[r] \in {"cache", "acked"} => rlink[r] \in PendingLink

ReaderInv ==
    \A d \in Readers :
        /\ fpc[d] \in {"purge", "find"} => fcode[d] \in Codes
        /\ fpc[d] = "cache" => flink[d] \in PendingLink

TokenInv ==
    /\ \A w \in Workers : wpc[w] # "idle" <=> token[w] # Nil
    /\ \A v, w \in Workers : token[v] = token[w] /\ token[v] # Nil => v = w

TypeInv == TypeOK /\ RequestInv /\ ReaderInv /\ TokenInv

-----------------------------------------------------------------------------
(***************************************************************************)
(* What the statements and scripts do to types.                            *)
(***************************************************************************)
LEMMA BatchTypes ==
  ASSUME NEW entries \in Seq(PendingLink)
  PROVE  FirstOccurrences(entries) \subseteq PendingLink
  BY DEF FirstOccurrences

\* An INSERT of a row leaves a table.
LEMMA InsertRowTypes ==
  ASSUME PostgresTypeOK, NEW l \in PendingLink, InsertRow(l)
  PROVE  PostgresTypeOK'
  BY DEF PostgresTypeOK, InsertRow, PendingLink

\* So does the INSERT of a batch.
LEMMA InsertRowsTypes ==
  ASSUME PostgresTypeOK, NEW b \in SUBSET PendingLink, InsertRows(b)
  PROVE  PostgresTypeOK'
<1>1. ASSUME NEW c \in Codes, \E l \in Inserted(b) : l.code = c
      PROVE  (CHOOSE l \in Inserted(b) : l.code = c) \in PendingLink
  BY <1>1 DEF Inserted
<1> QED
  BY <1>1 DEF PostgresTypeOK, InsertRows

\* ENQUEUE_LINK keeps hash, queue and issued codes of their types.
LEMMA EnqueueTypes ==
  ASSUME RedisTypeOK, NEW l \in PendingLink, EnqueueLink(l), UNCHANGED <<lock, dead>>
  PROVE  RedisTypeOK'
<1>1. CASE EnqueueOutcome(l) = "queued"
  <2> DEFINE h == [target |-> l.target, expires |-> l.expires, pending |-> TRUE,
                   ttl |-> l.expires]
  <2>1. h \in Hash
    BY DEF Hash, PendingLink
  <2>2. hash' = [hash EXCEPT ![l.code] = h] /\ queue' = Append(queue, l)
    BY <1>1 DEF EnqueueLink
  <2> HIDE DEF h
  <2>3. hash' \in [Codes -> Hash \union {Nil}]
    BY <2>1, <2>2 DEF RedisTypeOK
  <2>4. queue' \in Seq(PendingLink)
    BY <2>2 DEF RedisTypeOK
  <2> QED
    BY <2>3, <2>4 DEF RedisTypeOK
<1>2. CASE EnqueueOutcome(l) # "queued"
  BY <1>2 DEF EnqueueLink, RedisTypeOK
<1> QED
  BY <1>1, <1>2

\* The cache write of a row keeps the hashes of their type.
LEMMA CacheTypes ==
  ASSUME RedisTypeOK, NEW l \in PendingLink, Cache(l) \/ UNCHANGED hash,
         UNCHANGED <<queue, lock, dead>>
  PROVE  RedisTypeOK'
<1>1. CASE CacheHash(l)
  <2> DEFINE h == [target |-> l.target, expires |-> l.expires, ttl |-> TRUE,
                   pending |-> hash[l.code] # Nil /\ hash[l.code].pending]
  <2>1. (hash[l.code] # Nil /\ hash[l.code].pending) \in BOOLEAN
    BY DEF RedisTypeOK, PendingLink, Hash
  <2>2. h \in Hash
    BY <2>1 DEF Hash, PendingLink
  <2>3. hash' = [hash EXCEPT ![l.code] = h]
    BY <1>1 DEF CacheHash
  <2> HIDE DEF h
  <2> QED
    BY <2>2, <2>3 DEF RedisTypeOK
<1>2. CASE DeleteHash(l.code) \/ UNCHANGED hash
  BY <1>2 DEF RedisTypeOK, DeleteHash, PendingLink
<1> QED
  BY <1>1, <1>2 DEF Cache

\* COMPLETE_SYNC keeps queue, hashes and dead letters of their types.
LEMMA CompleteTypes ==
  ASSUME RedisTypeOK, NEW n \in Nat, NEW p, NEW k,
         NEW letters \in SUBSET DeadLetter, CompleteSync(n, p, k, letters)
  PROVE  RedisTypeOK'
<1>1. hash' \in [Codes -> Hash \union {Nil}]
  <2>1. ASSUME NEW c \in Codes PROVE Completed(c, p, k) \in Hash \union {Nil}
    BY DEF Completed, RedisTypeOK, Hash
  <2> QED
    BY <2>1 DEF CompleteSync
<1>2. queue' \in Seq(PendingLink)
  BY SubSeqProperties DEF CompleteSync, RedisTypeOK
<1>3. lock' \in Tokens \union {Nil} /\ dead' \in SUBSET DeadLetter
  BY DEF CompleteSync, PushDeadLetters, RedisTypeOK
<1> QED
  BY <1>1, <1>2, <1>3 DEF RedisTypeOK

\* The link a request makes of its body and its code is a pending link.
LEMMA LinkOfType ==
  ASSUME NEW r \in Requests, body[r] \in Body, code[r] \in Codes, NEW now \in Instants
  PROVE  LinkOf(r, now) \in PendingLink
  BY DEF LinkOf, Body, PendingLink

-----------------------------------------------------------------------------
(***************************************************************************)
(* Requests                                                                *)
(***************************************************************************)
LEMMA RequestTypes ==
  ASSUME TypeInv, NEW r \in Requests, RequestStep(r) \/ RequestFault(r)
  PROVE  /\ PostgresTypeOK' /\ RedisTypeOK' /\ RequestTypeOK' /\ RequestInv'
         /\ UNCHANGED <<late, readerVars>>
<1> USE RequestAssumption DEF TypeInv, TypeOK
<1>1. CASE Submit(r)
  <2> PICK b \in Body :
        /\ body' = [body EXCEPT ![r] = b]
        /\ code' = [code EXCEPT ![r] = b.customCode]
        /\ GotoR(r, IF b.customCode = Nil THEN "generate" ELSE "alias")
    BY <1>1 DEF Submit
  <2>1. b.customCode \in AliasCodes \union {Nil}
    BY DEF Body
  <2>2. UNCHANGED <<rlink, attempt, issued, links, redisVars, late, readerVars>> /\ rpc[r] = "new"
    BY <1>1 DEF Submit
  <2>3. RequestTypeOK'
    BY <2>1, <2>2 DEF RequestTypeOK, GotoR, RequestStates, Codes
  <2>4. RequestInv'
    BY <2>1, <2>2 DEF RequestTypeOK, RequestInv, GotoR, Codes
  <2> QED
    BY <2>2, <2>3, <2>4 DEF PostgresTypeOK, RedisTypeOK, redisVars
<1>2. CASE Generate(r)
  <2> PICK c \in GenCodes \ issued :
        issued' = issued \union {c} /\ code' = [code EXCEPT ![r] = c]
    BY <1>2 DEF Generate
  <2>1. attempt[r] < MaxAttempts /\ rpc[r] = "generate" /\ body[r] \in Body
    BY <1>2 DEF Generate, RequestInv
  <2>2. RequestTypeOK'
    BY <1>2, <2>1 DEF Generate, RequestTypeOK, GotoR, RequestStates, Codes
  <2>3. RequestInv'
    BY <1>2, <2>1 DEF Generate, RequestTypeOK, RequestInv, GotoR, Codes
  <2> QED
    BY <1>2, <2>2, <2>3 DEF Generate, PostgresTypeOK, RedisTypeOK, redisVars
<1>3. CASE Enqueue(r)
  <2>1. rpc[r] = "enqueue" /\ body[r] \in Body /\ code[r] \in Codes
    BY <1>3 DEF Enqueue, RequestInv
  <2> PICK now \in Instants :
        LET l == LinkOf(r, now)
        IN  /\ EnqueueLink(l)
            /\ CASE EnqueueOutcome(l) = "queued" ->
                      GotoR(r, "acked") /\ rlink' = [rlink EXCEPT ![r] = l]
                 [] EnqueueOutcome(l) = "exists" -> NullResult(r) /\ UNCHANGED rlink
                 [] EnqueueOutcome(l) = "full" -> GotoR(r, "insert") /\ UNCHANGED rlink
    BY <1>3 DEF Enqueue
  <2> DEFINE l == LinkOf(r, now)
  <2>2. l \in PendingLink
    BY <2>1, LinkOfType
  <2>3. \/ GotoR(r, "acked") /\ rlink' = [rlink EXCEPT ![r] = l]
        \/ NullResult(r) /\ UNCHANGED rlink
        \/ GotoR(r, "insert") /\ UNCHANGED rlink
    BY DEF EnqueueOutcome
  <2>4. UNCHANGED <<body, code, attempt, issued, lock, dead, links, late, readerVars>>
    BY <1>3 DEF Enqueue
  <2> HIDE DEF l
  <2>5. RequestTypeOK' /\ RequestInv'
    BY <2>1, <2>2, <2>3, <2>4 DEF RequestTypeOK, RequestInv, GotoR, NullResult, RequestStates
  <2>6. RedisTypeOK'
    BY <2>2, <2>4, EnqueueTypes DEF l
  <2> QED
    BY <2>4, <2>5, <2>6 DEF PostgresTypeOK
<1>4. CASE CheckAlias(r)
  <2>1. /\ rpc[r] = "alias"
        /\ NullResult(r) \/ GotoR(r, "insert")
        /\ UNCHANGED <<body, code, rlink, attempt, issued, links, redisVars, late, readerVars>>
    BY <1>4 DEF CheckAlias
  <2>2. RequestTypeOK' /\ RequestInv'
    BY <2>1 DEF RequestTypeOK, RequestInv, GotoR, NullResult, RequestStates
  <2> QED
    BY <2>1, <2>2 DEF PostgresTypeOK, RedisTypeOK, redisVars
<1>5. CASE InsertLink(r)
  <2>1. rpc[r] = "insert" /\ body[r] \in Body /\ code[r] \in Codes
    BY <1>5 DEF InsertLink, RequestInv
  <2> PICK now \in Instants :
        /\ InsertRow(LinkOf(r, now))
        /\ IF links[code[r]] = Nil
           THEN GotoR(r, "cache") /\ rlink' = [rlink EXCEPT ![r] = LinkOf(r, now)]
           ELSE NullResult(r) /\ UNCHANGED rlink
    BY <1>5 DEF InsertLink
  <2>2. LinkOf(r, now) \in PendingLink
    BY <2>1, LinkOfType
  <2>3. UNCHANGED <<body, code, attempt, issued, redisVars, late, readerVars>>
    BY <1>5 DEF InsertLink
  <2>4. RequestTypeOK' /\ RequestInv'
    BY <2>1, <2>2, <2>3 DEF RequestTypeOK, RequestInv, GotoR, NullResult, RequestStates
  <2>5. PostgresTypeOK'
    BY <2>2, InsertRowTypes
  <2> QED
    BY <2>3, <2>4, <2>5 DEF RedisTypeOK, redisVars
<1>6. CASE InsertLinkRefused(r)
  BY <1>6 DEF InsertLinkRefused, PostgresTypeOK, RedisTypeOK, redisVars, RequestTypeOK,
              RequestInv, GotoR, RequestStates
<1>7. CASE CacheLink(r)
  <2>1. rlink[r] \in PendingLink /\ RedisTypeOK
    BY <1>7 DEF CacheLink, RequestInv
  <2>2. RedisTypeOK'
    BY <1>7, <2>1, CacheTypes DEF CacheLink
  <2> QED
    BY <1>7, <2>1, <2>2 DEF CacheLink, PostgresTypeOK, RequestTypeOK, RequestInv, GotoR, RequestStates
<1>8. CASE GenerateFails(r)
  BY <1>8 DEF GenerateFails, PostgresTypeOK, RedisTypeOK, redisVars, RequestTypeOK,
              RequestInv, GotoR, RequestStates
<1>9. CASE EnqueueFails(r)
  <2>1. rpc[r] = "enqueue" /\ body[r] \in Body /\ code[r] \in Codes
    BY <1>9 DEF EnqueueFails, RequestInv
  <2>2. UNCHANGED <<body, code, rlink, attempt, issued, lock, dead, links, late, readerVars>>
    BY <1>9 DEF EnqueueFails
  <2>3. RedisTypeOK'
    <3>1. CASE UNCHANGED <<hash, queue>>
      BY <2>2, <3>1 DEF RedisTypeOK
    <3>2. ASSUME NEW now \in Instants, EnqueueLink(LinkOf(r, now))
          PROVE  RedisTypeOK'
      BY <2>1, <2>2, <3>2, LinkOfType, EnqueueTypes
    <3> QED
      BY <1>9, <3>1, <3>2 DEF EnqueueFails
  <2> QED
    BY <1>9, <2>1, <2>2, <2>3 DEF EnqueueFails, PostgresTypeOK, RequestTypeOK, RequestInv, GotoR,
                                 RequestStates
<1>10. CASE CheckAliasFails(r)
  BY <1>10 DEF CheckAliasFails, PostgresTypeOK, RedisTypeOK, redisVars, RequestTypeOK,
               RequestInv, GotoR, RequestStates
<1>11. CASE InsertLinkFails(r)
  <2>1. rpc[r] = "insert" /\ body[r] \in Body /\ code[r] \in Codes
    BY <1>11 DEF InsertLinkFails, RequestInv
  <2>2. PostgresTypeOK'
    <3>1. ASSUME NEW now \in Instants, InsertRow(LinkOf(r, now))
          PROVE  PostgresTypeOK'
      BY <2>1, <3>1, LinkOfType, InsertRowTypes
    <3>2. CASE UNCHANGED links
      BY <3>2 DEF PostgresTypeOK
    <3> QED
      BY <1>11, <3>1, <3>2 DEF InsertLinkFails
  <2> QED
    BY <1>11, <2>1, <2>2 DEF InsertLinkFails, RedisTypeOK, redisVars, RequestTypeOK, RequestInv,
                            GotoR, RequestStates
<1> QED
  BY <1>1, <1>2, <1>3, <1>4, <1>5, <1>6, <1>7, <1>8, <1>9, <1>10, <1>11
     DEF RequestStep, RequestFault

-----------------------------------------------------------------------------
(***************************************************************************)
(* Readers                                                                 *)
(***************************************************************************)
LEMMA ReaderTypes ==
  ASSUME TypeInv, NEW d \in Readers, ReaderStep(d) \/ ReaderFault(d)
  PROVE  /\ PostgresTypeOK' /\ RedisTypeOK' /\ ReaderTypeOK' /\ ReaderInv'
<1> USE DEF TypeInv, TypeOK
<1>1. ASSUME NEW c \in Codes, \E a \in BOOLEAN : ReadMiss(d, c, a)
      PROVE  PostgresTypeOK' /\ RedisTypeOK' /\ ReaderTypeOK' /\ ReaderInv'
  BY <1>1 DEF ReadMiss, PostgresTypeOK, RedisTypeOK, redisVars, ReaderTypeOK, ReaderInv
<1>2. ASSUME NEW c \in Codes, ReadExpired(d, c)
      PROVE  PostgresTypeOK' /\ RedisTypeOK' /\ ReaderTypeOK' /\ ReaderInv'
  BY <1>2 DEF ReadExpired, PostgresTypeOK, RedisTypeOK, redisVars, ReaderTypeOK, ReaderInv
<1>3. CASE Purge(d)
  <2>1. fcode[d] \in Codes
    BY <1>3 DEF Purge, ReaderInv
  <2> QED
    BY <1>3, <2>1 DEF Purge, DeleteHash, PostgresTypeOK, RedisTypeOK, ReaderTypeOK, ReaderInv
<1>4. CASE FindRow(d)
  <2>1. fcode[d] \in Codes
    BY <1>4 DEF FindRow, ReaderInv
  <2>2. CASE FinishRead(d)
    BY <1>4, <2>2 DEF FindRow, FinishRead, PostgresTypeOK, RedisTypeOK, redisVars, ReaderTypeOK,
                      ReaderInv
  <2>3. CASE /\ links[fcode[d]] # Nil
             /\ fpc' = [fpc EXCEPT ![d] = "cache"]
             /\ flink' = [flink EXCEPT ![d] = links[fcode[d]]]
             /\ UNCHANGED fcode
    <3>1. links[fcode[d]] \in PendingLink
      BY <2>1, <2>3 DEF PostgresTypeOK
    <3> QED
      BY <1>4, <2>3, <3>1 DEF FindRow, PostgresTypeOK, RedisTypeOK, redisVars, ReaderTypeOK, ReaderInv
  <2> QED
    BY <1>4, <2>2, <2>3 DEF FindRow
<1>5. CASE CacheRow(d)
  <2>1. flink[d] \in PendingLink /\ RedisTypeOK
    BY <1>5 DEF CacheRow, ReaderInv
  <2>2. RedisTypeOK'
    BY <1>5, <2>1, CacheTypes DEF CacheRow
  <2> QED
    BY <1>5, <2>2 DEF CacheRow, FinishRead, PostgresTypeOK, ReaderTypeOK, ReaderInv
<1> QED
  BY <1>1, <1>2, <1>3, <1>4, <1>5 DEF ReaderStep, ReaderFault

-----------------------------------------------------------------------------
(***************************************************************************)
(* Workers                                                                 *)
(***************************************************************************)
LEMMA ReturnTypes ==
  ASSUME WorkerTypeOK, TokenInv, NEW w \in Workers, Return(w)
  PROVE  WorkerTypeOK' /\ TokenInv'
<1>1. WorkerTypeOK'
  BY EmptySeq DEF WorkerTypeOK, Return, Goto, Discard, WorkerStates
<1>2. TokenInv'
  BY DEF WorkerTypeOK, TokenInv, Return, Goto
<1> QED
  BY <1>1, <1>2

\* A worker on its way to the release forgets its batch.
LEMMA ToReleaseTypes ==
  ASSUME WorkerTypeOK, TokenInv, NEW w \in Workers, wpc[w] # "idle", ToRelease(w)
  PROVE  WorkerTypeOK' /\ TokenInv'
<1>1. WorkerTypeOK'
  BY EmptySeq DEF WorkerTypeOK, ToRelease, Goto, Discard, WorkerStates
<1>2. TokenInv'
  BY DEF WorkerTypeOK, TokenInv, ToRelease, Goto
<1> QED
  BY <1>1, <1>2

\* A batch consists of links.
LEMMA BatchType ==
  ASSUME WorkerTypeOK, NEW w \in Workers
  PROVE  Batch(w) \subseteq PendingLink
<1>1. raw[w] \in Seq(PendingLink)
  BY DEF WorkerTypeOK
<1> QED
  BY <1>1, BatchTypes DEF Batch

\* The dead letters a worker files are dead letters.
LEMMA LettersType ==
  ASSUME WorkerTypeOK, NEW w \in Workers
  PROVE  Letters(w) \subseteq DeadLetter
<1>1. Range(raw[w]) \subseteq PendingLink
  BY DEF WorkerTypeOK, Range
<1>2. conflicts[w] \subseteq PendingLink
  BY DEF WorkerTypeOK
<1> QED
  BY <1>1, <1>2 DEF Letters, DeadLetter

\* The script that a worker completes with, answered or not, keeps the types.
LEMMA CompleteEffectTypes ==
  ASSUME RedisTypeOK, WorkerTypeOK, NEW w \in Workers, CompleteEffect(w)
  PROVE  RedisTypeOK'
<1>1. CASE lock = token[w]
  <2>1. Len(raw[w]) \in Nat
    BY DEF WorkerTypeOK
  <2>2. \E p, k : CompleteSync(Len(raw[w]), p, k, Letters(w))
    BY <1>1 DEF CompleteEffect
  <2>3. Letters(w) \in SUBSET DeadLetter
    BY LettersType
  <2> QED
    BY <2>1, <2>2, <2>3, CompleteTypes
<1>2. CASE lock # token[w]
  BY <1>2 DEF CompleteEffect, RedisTypeOK, redisVars
<1> QED
  BY <1>1, <1>2

\* A step of a worker keeps the types and the uniqueness of tokens.
LEMMA WorkerTypes ==
  ASSUME TypeInv, NEW w \in Workers, WorkerStep(w) \/ WorkerFault(w)
  PROVE  PostgresTypeOK' /\ RedisTypeOK' /\ WorkerTypeOK' /\ TokenInv'
<1> USE DEF TypeInv, TypeOK
<1>1. CASE SyncShard(w)
  <2> PICK t \in FreshTokens : token' = [token EXCEPT ![w] = t]
    BY <1>1 DEF SyncShard
  <2>1. t \in Tokens /\ t # Nil /\ \A v \in Workers : token[v] # t
    BY RedisAssumption DEF FreshTokens
  <2>2. WorkerTypeOK'
    BY <1>1, <2>1 DEF SyncShard, WorkerTypeOK, Goto, WorkerStates
  <2>3. TokenInv'
    BY <1>1, <2>1 DEF SyncShard, WorkerTypeOK, TokenInv, Goto
  <2> QED
    BY <1>1, <2>2, <2>3 DEF SyncShard, PostgresTypeOK, RedisTypeOK, redisVars
<1>2. CASE Acquire(w)
  <2>1. RedisTypeOK'
    BY <1>2 DEF Acquire, AcquireLock, RedisTypeOK, WorkerTypeOK
  <2>2. CASE lock = Nil
    BY <1>2, <2>1, <2>2 DEF Acquire, Goto, PostgresTypeOK, WorkerTypeOK, TokenInv, WorkerStates
  <2>3. CASE lock # Nil
    BY <1>2, <2>1, <2>3, ReturnTypes DEF Acquire, PostgresTypeOK
  <2> QED
    BY <2>2, <2>3
<1>3. CASE AcquireFails(w)
  <2>1. RedisTypeOK'
    BY <1>3 DEF AcquireFails, AcquireLock, RedisTypeOK, WorkerTypeOK
  <2> QED
    BY <1>3, <2>1, ReturnTypes DEF AcquireFails, PostgresTypeOK
<1>4. CASE Peek(w)
  <2>1. CASE queue = <<>>
    BY <1>4, <2>1, ToReleaseTypes DEF Peek, PostgresTypeOK, RedisTypeOK, redisVars
  <2>2. CASE queue # <<>>
    <3>1. SubSeq(queue, 1, PeekLength) \in Seq(PendingLink)
      BY WorkerAssumption DEF PeekLength, RedisTypeOK
    <3>2. WorkerTypeOK'
      BY <1>4, <2>2, <3>1 DEF Peek, Goto, WorkerTypeOK, WorkerStates
    <3>3. TokenInv'
      BY <1>4, <2>2 DEF Peek, Goto, WorkerTypeOK, TokenInv
    <3> QED
      BY <1>4, <3>2, <3>3 DEF Peek, PostgresTypeOK, RedisTypeOK, redisVars
  <2> QED
    BY <2>1, <2>2
<1>5. CASE Insert(w)
  <2>1. Batch(w) \in SUBSET PendingLink
    BY BatchType
  <2>2. PostgresTypeOK'
    BY <1>5, <2>1, InsertRowsTypes DEF Insert
  <2>3. {l.code : l \in Inserted(Batch(w))} \subseteq Codes
    BY <2>1 DEF Inserted, PendingLink
  <2>4. WorkerTypeOK'
    BY <1>5, <2>3 DEF Insert, Goto, WorkerTypeOK, WorkerStates
  <2>5. TokenInv'
    BY <1>5 DEF Insert, Goto, WorkerTypeOK, TokenInv
  <2> QED
    BY <1>5, <2>2, <2>4, <2>5 DEF Insert, RedisTypeOK, redisVars
<1>6. CASE Lookup(w)
  <2> DEFINE rest == {l \in Batch(w) : l.code \notin persisted[w]}
             replays == {l \in rest : IsReplay(l)}
  <2>1. /\ persisted' = [persisted EXCEPT ![w] = @ \union {l.code : l \in replays}]
        /\ conflicts' = [conflicts EXCEPT ![w] = rest \ replays]
    BY <1>6 DEF Lookup
  <2>2. rest \subseteq PendingLink /\ {l.code : l \in replays} \subseteq Codes
    BY BatchType DEF PendingLink
  <2> HIDE DEF rest, replays
  <2>3. WorkerTypeOK'
    BY <1>6, <2>1, <2>2 DEF Lookup, Goto, WorkerTypeOK, WorkerStates
  <2>4. TokenInv'
    BY <1>6 DEF Lookup, Goto, WorkerTypeOK, TokenInv
  <2> QED
    BY <1>6, <2>3, <2>4 DEF Lookup, PostgresTypeOK, RedisTypeOK, redisVars
<1>7. CASE InsertUnacked(w)
  <2>1. Batch(w) \in SUBSET PendingLink
    BY BatchType
  <2>2. PostgresTypeOK'
    BY <1>7, <2>1, InsertRowsTypes DEF InsertUnacked
  <2> QED
    BY <1>7, <2>2, ToReleaseTypes DEF InsertUnacked, RedisTypeOK, redisVars
<1>8. CASE AwaitFails(w)
  BY <1>8, ToReleaseTypes DEF AwaitFails, PostgresTypeOK, RedisTypeOK, redisVars
<1>9. CASE Complete(w)
  <2>1. RedisTypeOK'
    BY <1>9, CompleteEffectTypes DEF Complete
  <2>2. CASE Return(w)
    BY <1>9, <2>1, <2>2, ReturnTypes DEF Complete, PostgresTypeOK
  <2>3. CASE /\ Goto(w, "acquire")
             /\ batches' = [batches EXCEPT ![w] = @ + 1]
             /\ Discard(w)
             /\ UNCHANGED token
    <3>1. WorkerTypeOK'
      BY <2>3, EmptySeq DEF Goto, Discard, WorkerTypeOK, WorkerStates
    <3>2. TokenInv'
      BY <1>9, <2>3 DEF Complete, Goto, WorkerTypeOK, TokenInv
    <3> QED
      BY <1>9, <2>1, <3>1, <3>2 DEF Complete, PostgresTypeOK
  <2> QED
    BY <1>9, <2>2, <2>3 DEF Complete
<1>10. CASE CompleteUnacked(w)
  <2>1. RedisTypeOK'
    BY <1>10, CompleteEffectTypes DEF CompleteUnacked
  <2> QED
    BY <1>10, <2>1, ToReleaseTypes DEF CompleteUnacked, PostgresTypeOK
<1>11. CASE Release(w)
  <2>1. RedisTypeOK'
    BY <1>11 DEF Release, ReleaseLock, RedisTypeOK
  <2> QED
    BY <1>11, <2>1, ReturnTypes DEF Release, PostgresTypeOK
<1>12. CASE ReleaseFails(w) \/ Crash(w)
  BY <1>12, ReturnTypes DEF ReleaseFails, Crash, PostgresTypeOK, RedisTypeOK, redisVars
<1> QED
  BY <1>1, <1>2, <1>3, <1>4, <1>5, <1>6, <1>7, <1>8, <1>9, <1>10, <1>11, <1>12
     DEF WorkerStep, WorkerFault

-----------------------------------------------------------------------------
(***************************************************************************)
(* Every step is the step of one actor.                                    *)
(***************************************************************************)
ClientStep ==
    \/ \E r \in Requests : RequestStep(r) \/ RequestFault(r)
    \/ /\ \E d \in Readers : ReaderStep(d) \/ ReaderFault(d)
       /\ UNCHANGED requestVars
    \/ ClockPasses /\ UNCHANGED requestVars
    \/ /\ \E c \in Codes : Vanish(c)
       /\ UNCHANGED <<links, clientVars>>

StoreStep ==
    \/ \E w \in Workers : WorkerStep(w) \/ WorkerFault(w)
    \/ ExpireLock

\* A step is one of the clients, Redis or the clock and leaves the workers alone, or
\* one of a worker and leaves the clients alone.
LEMMA StepOfOneActor ==
  ASSUME Next
  PROVE  \/ ClientStep /\ UNCHANGED workerVars
         \/ StoreStep /\ UNCHANGED clientVars
<1>1. CASE (Request \/ Read \/ KeyVanishes \/ TimePasses) /\ UNCHANGED faults
  <2>1. CASE Request
    BY <2>1 DEF Request, ClientStep
  <2>2. CASE Read
    BY <2>2 DEF Read, ClientStep
  <2>3. CASE KeyVanishes
    BY <2>3 DEF KeyVanishes, ClientStep
  <2>4. CASE TimePasses
    BY <2>4 DEF TimePasses, ClientStep
  <2> QED
    BY <1>1, <2>1, <2>2, <2>3, <2>4
<1>2. CASE (\E w \in Workers : Work(w)) \/ OrphanLockExpires
  BY <1>2 DEF Work, OrphanLockExpires, ExpireOrphanLock, StoreStep
<1>3. CASE Fault
  BY <1>3 DEF Fault, ClientFault, WorkFault, ExpireOwnedLock, ClientStep, StoreStep
<1> QED
  BY <1>1, <1>2, <1>3 DEF Next

\* The faults stay within their bound.
LEMMA FaultsType ==
  ASSUME faults \in 0..MaxFaults, Next
  PROVE  faults' \in 0..MaxFaults
  BY FaultAssumption DEF Next, Work, OrphanLockExpires, Fault

\* Every step keeps the type invariant.
LEMMA TypeInvStep ==
  ASSUME TypeInv, [Next]_vars
  PROVE  TypeInv'
<1>1. CASE UNCHANGED vars
  BY <1>1 DEF TypeInv, TypeOK, PostgresTypeOK, RedisTypeOK, WorkerTypeOK, ReaderTypeOK,
              RequestTypeOK, RequestInv, ReaderInv, TokenInv, vars, redisVars, workerVars,
              clientVars, requestVars, readerVars
<1>2. CASE Next
  <2>1. faults' \in 0..MaxFaults
    BY <1>2, FaultsType DEF TypeInv, TypeOK
  <2>2. CASE ClientStep /\ UNCHANGED workerVars
    <3>1. WorkerTypeOK' /\ TokenInv'
      BY <2>2 DEF TypeInv, TypeOK, WorkerTypeOK, TokenInv, workerVars
    <3>2. ASSUME NEW r \in Requests, RequestStep(r) \/ RequestFault(r)
          PROVE  TypeInv'
      <4>1. /\ PostgresTypeOK' /\ RedisTypeOK' /\ RequestTypeOK' /\ RequestInv'
            /\ UNCHANGED <<late, readerVars>>
        BY <3>2, RequestTypes
      <4>2. ReaderTypeOK' /\ ReaderInv'
        BY <4>1 DEF TypeInv, TypeOK, ReaderTypeOK, ReaderInv, readerVars
      <4> QED
        BY <2>1, <3>1, <4>1, <4>2 DEF TypeInv, TypeOK
    <3>3. ASSUME UNCHANGED requestVars
          PROVE  RequestTypeOK' /\ RequestInv'
      BY <3>3 DEF TypeInv, TypeOK, RequestTypeOK, RequestInv, requestVars
    <3>4. ASSUME NEW d \in Readers, ReaderStep(d) \/ ReaderFault(d), UNCHANGED requestVars
          PROVE  TypeInv'
      BY <2>1, <3>1, <3>3, <3>4, ReaderTypes DEF TypeInv, TypeOK
    <3>5. ASSUME ClockPasses, UNCHANGED requestVars
          PROVE  TypeInv'
      BY <2>1, <3>1, <3>3, <3>5
         DEF TypeInv, TypeOK, ClockPasses, PostgresTypeOK, RedisTypeOK, ReaderTypeOK, ReaderInv,
             redisVars, readerVars
    <3>6. ASSUME NEW c \in Codes, Vanish(c), UNCHANGED <<links, clientVars>>
          PROVE  TypeInv'
      <4>1. PostgresTypeOK' /\ RedisTypeOK'
        BY <3>6 DEF TypeInv, TypeOK, Vanish, DeleteHash, PostgresTypeOK, RedisTypeOK
      <4>2. ReaderTypeOK' /\ ReaderInv'
        BY <3>6 DEF TypeInv, TypeOK, ReaderTypeOK, ReaderInv, clientVars, readerVars
      <4> QED
        BY <2>1, <3>1, <3>3, <3>6, <4>1, <4>2 DEF TypeInv, TypeOK, clientVars
    <3> QED
      BY <2>2, <3>2, <3>4, <3>5, <3>6 DEF ClientStep
  <2>3. CASE StoreStep /\ UNCHANGED clientVars
    <3>1. ReaderTypeOK' /\ ReaderInv' /\ RequestTypeOK' /\ RequestInv'
      BY <2>3 DEF TypeInv, TypeOK, ReaderTypeOK, ReaderInv, RequestTypeOK, RequestInv, clientVars,
                  readerVars, requestVars
    <3>2. ASSUME NEW w \in Workers, WorkerStep(w) \/ WorkerFault(w)
          PROVE  TypeInv'
      BY <2>1, <3>1, <3>2, WorkerTypes DEF TypeInv, TypeOK
    <3>3. CASE ExpireLock
      BY <2>1, <3>1, <3>3 DEF TypeInv, TypeOK, ExpireLock, PostgresTypeOK, RedisTypeOK, WorkerTypeOK,
                              TokenInv, workerVars
    <3> QED
      BY <2>3, <3>2, <3>3 DEF StoreStep
  <2> QED
    BY <1>2, <2>2, <2>3, StepOfOneActor
<1> QED
  BY <1>1, <1>2

\* It holds at the start.
LEMMA TypeInvInit ==
  ASSUME Init
  PROVE  TypeInv
<1> USE DEF Init
<1>1. PostgresTypeOK
  BY DEF PostgresInit, PostgresTypeOK
<1>2. RedisTypeOK
  BY EmptySeq DEF RedisInit, RedisTypeOK
<1>3. WorkerTypeOK /\ TokenInv
  BY EmptySeq DEF WorkerInit, WorkerTypeOK, WorkerStates, TokenInv
<1>4. ReaderTypeOK /\ ReaderInv
  BY DEF ReaderInit, ReaderTypeOK, ReaderInv
<1>5. RequestTypeOK /\ RequestInv
  BY RequestAssumption DEF RequestInit, RequestTypeOK, RequestStates, RequestInv
<1>6. faults \in 0..MaxFaults
  BY FaultAssumption
<1> QED
  BY <1>1, <1>2, <1>3, <1>4, <1>5, <1>6 DEF TypeInv, TypeOK

\* Every variable keeps its type, a request or a redirect always has the body,
\* code or row its next await uses (app.ts, cached-link-store.ts), and no two
\* workers in syncShard (link-sync-worker.ts) share a token.
THEOREM TypeCorrect == Spec => []TypeInv
<1>1. Init => TypeInv
  BY TypeInvInit
<1>2. TypeInv /\ [Next]_vars => TypeInv'
  BY TypeInvStep
<1> QED
  BY <1>1, <1>2, PTL DEF Spec

\* The queue, the hashes, the table, the lock and the locals of every await
\* (write-behind-link-store.ts, link-sync-worker.ts) keep their types.
THEOREM TypesKept == Spec => []TypeOK
<1>1. TypeInv => TypeOK
  BY DEF TypeInv
<1> QED
  BY <1>1, TypeCorrect, PTL

-----------------------------------------------------------------------------
(***************************************************************************)
(* The holder of the lock sees the head of the queue.                      *)
(***************************************************************************)
Appended == queue' = queue \/ \E l \in PendingLink : queue' = Append(queue, l)

\* Requests, redirects, evictions and the clock at most append to the queue
\* and leave the lock alone.
LEMMA ClientsAppend ==
  ASSUME TypeInv, ClientStep
  PROVE  Appended /\ lock' = lock
<1>1. ASSUME NEW r \in Requests, RequestStep(r) \/ RequestFault(r)
      PROVE  Appended /\ lock' = lock
  <2>1. CASE Enqueue(r) \/ EnqueueFails(r)
    <3>1. body[r] \in Body /\ code[r] \in Codes
      BY <2>1 DEF Enqueue, EnqueueFails, TypeInv, RequestInv
    <3>2. (\E now \in Instants : EnqueueLink(LinkOf(r, now))) \/ UNCHANGED <<hash, queue>>
      BY <2>1 DEF Enqueue, EnqueueFails
    <3>3. ASSUME NEW now \in Instants, EnqueueLink(LinkOf(r, now))
          PROVE  Appended
      BY <3>1, <3>3, LinkOfType DEF EnqueueLink, Appended
    <3>4. lock' = lock
      BY <2>1 DEF Enqueue, EnqueueFails
    <3> QED
      BY <3>2, <3>3, <3>4 DEF Appended
  <2>2. CASE ~(Enqueue(r) \/ EnqueueFails(r))
    BY <1>1, <2>2
       DEF RequestStep, RequestFault, Submit, Generate, CheckAlias, InsertLink, InsertLinkRefused,
           CacheLink, GenerateFails, CheckAliasFails, InsertLinkFails, redisVars, Appended
  <2> QED
    BY <2>1, <2>2
<1>2. ASSUME NEW d \in Readers, ReaderStep(d) \/ ReaderFault(d)
      PROVE  Appended /\ lock' = lock
  BY <1>2 DEF ReaderStep, ReaderFault, ReadMiss, ReadExpired, Purge, FindRow, CacheRow, redisVars,
              Appended
<1>3. ASSUME ClockPasses \/ \E c \in Codes : Vanish(c)
      PROVE  Appended /\ lock' = lock
  BY <1>3 DEF ClockPasses, Vanish, redisVars, Appended
<1> QED
  BY <1>1, <1>2, <1>3 DEF ClientStep

Handling == {"insert", "lookup", "complete"}

\* What the holder of the lock peeked stays at the head of the queue.
LEMMA HolderSeesHeadStep ==
  ASSUME TypeInv, HolderSeesHead, [Next]_vars
  PROVE  HolderSeesHead'
<1> USE DEF TypeInv, TypeOK
<1> SUFFICES ASSUME NEW v \in Workers, wpc'[v] \in Handling, lock' = token'[v]
             PROVE  /\ Len(raw'[v]) <= Len(queue')
                    /\ \A i \in 1..Len(raw'[v]) : raw'[v][i] = queue'[i]
  BY DEF HolderSeesHead, Handling
<1> DEFINE Goal == /\ Len(raw'[v]) <= Len(queue')
                   /\ \A i \in 1..Len(raw'[v]) : raw'[v][i] = queue'[i]
<1>0. TypeInv'
  BY TypeInvStep
<1>1. token'[v] # Nil
  BY <1>0 DEF TokenInv, Handling
<1>2. ASSUME Appended, lock' = lock, UNCHANGED workerVars
      PROVE  Goal
  <2>1. /\ Len(raw[v]) <= Len(queue)
        /\ \A i \in 1..Len(raw[v]) : raw[v][i] = queue[i]
    BY <1>2 DEF HolderSeesHead, Handling, workerVars
  <2>2. raw[v] \in Seq(PendingLink) /\ queue \in Seq(PendingLink)
    BY DEF WorkerTypeOK, RedisTypeOK
  <2>3. CASE queue' = queue
    BY <1>2, <2>1, <2>3 DEF workerVars
  <2>4. ASSUME NEW l \in PendingLink, queue' = Append(queue, l)
        PROVE  Goal
    BY <1>2, <2>1, <2>2, <2>4 DEF workerVars
  <2> QED
    BY <1>2, <2>3, <2>4 DEF Appended
<1>3. ASSUME UNCHANGED <<queue, lock>>, raw'[v] = raw[v], token'[v] = token[v],
             wpc[v] \in Handling
      PROVE  Goal
  BY <1>3 DEF HolderSeesHead, Handling
<1>4. CASE UNCHANGED vars
  BY <1>2, <1>4 DEF vars, redisVars, Appended
<1>5. CASE ClientStep /\ UNCHANGED workerVars
  BY <1>2, <1>5, ClientsAppend
<1>6. CASE ExpireLock
  BY <1>1, <1>6 DEF ExpireLock
<1>7. ASSUME NEW w \in Workers, WorkerStep(w) \/ WorkerFault(w)
      PROVE  Goal
  <2>1. CASE v # w
    <3>1. wpc'[v] = wpc[v] /\ token'[v] = token[v] /\ raw'[v] = raw[v]
      BY <1>7, <2>1
         DEF WorkerStep, WorkerFault, SyncShard, Acquire, AcquireFails, Peek, Insert, Lookup,
             InsertUnacked, AwaitFails, Complete, CompleteUnacked, Release, ReleaseFails, Crash,
             Return, ToRelease, Discard, Goto, WorkerTypeOK
    <3>2. CASE UNCHANGED <<queue, lock>>
      BY <1>3, <3>1, <3>2
    <3>3. CASE Acquire(w) \/ AcquireFails(w)
      <4>1. queue' = queue /\ (lock' = token[w] \/ lock' = lock)
        BY <3>3 DEF Acquire, AcquireFails, AcquireLock
      <4>2. lock' # token[w]
        BY <1>1, <2>1, <3>1 DEF TokenInv
      <4> QED
        BY <3>2, <4>1, <4>2
    <3>4. CASE Complete(w) \/ CompleteUnacked(w)
      BY <1>1, <3>2, <3>4 DEF Complete, CompleteUnacked, CompleteEffect, CompleteSync, redisVars
    <3>5. CASE Release(w)
      BY <1>1, <3>2, <3>5 DEF Release, ReleaseLock
    <3> QED
      BY <1>7, <3>2, <3>3, <3>4, <3>5
         DEF WorkerStep, WorkerFault, SyncShard, Peek, Insert, Lookup, InsertUnacked, AwaitFails,
             ReleaseFails, Crash, redisVars
  <2>2. CASE v = w
    <3>1. CASE Peek(w)
      <4>1. /\ raw' = [raw EXCEPT ![w] = SubSeq(queue, 1, PeekLength)]
            /\ queue' = queue /\ queue \in Seq(PendingLink)
        BY <2>2, <3>1 DEF Peek, ToRelease, Goto, Handling, WorkerTypeOK, redisVars, RedisTypeOK
      <4>2. PeekLength \in Nat /\ PeekLength <= Len(queue)
        BY <4>1, WorkerAssumption DEF PeekLength
      <4>3. raw'[v] = SubSeq(queue, 1, PeekLength)
        BY <2>2, <4>1 DEF WorkerTypeOK
      <4>4. Len(raw'[v]) = PeekLength /\ \A i \in 1..PeekLength : raw'[v][i] = queue[i]
        BY <4>1, <4>2, <4>3
      <4> QED
        BY <4>1, <4>2, <4>4
    <3>2. CASE Insert(w) \/ Lookup(w)
      BY <1>3, <2>2, <3>2 DEF Insert, Lookup, redisVars, Handling
    <3>3. CASE ~(Peek(w) \/ Insert(w) \/ Lookup(w))
      <4>1. wpc'[w] \notin Handling
        BY <1>7, <3>3
           DEF WorkerStep, WorkerFault, SyncShard, Acquire, AcquireFails, InsertUnacked, AwaitFails,
               Complete, CompleteUnacked, Release, ReleaseFails, Crash, Return, ToRelease, Goto,
               WorkerTypeOK, Handling
      <4> QED
        BY <2>2, <4>1
    <3> QED
      BY <3>1, <3>2, <3>3
  <2> QED
    BY <2>1, <2>2
<1> QED
  BY <1>4, <1>5, <1>6, <1>7, StepOfOneActor DEF StoreStep

\* While a worker's token is the shard's lock, what it peeked is the head of
\* the queue, for any number of workers, lock expiries, crashes and lost
\* answers: the LTRIM of COMPLETE_SYNC (link-sync-worker.ts:102) removes
\* exactly the entries the worker handled.
THEOREM HoldersSeeHead == Spec => []HolderSeesHead
<1>1. Init => HolderSeesHead
  BY DEF Init, WorkerInit, HolderSeesHead
<1>2. TypeInv /\ HolderSeesHead /\ [Next]_vars => HolderSeesHead'
  BY HolderSeesHeadStep
<1> QED
  BY <1>1, <1>2, TypeCorrect, PTL DEF Spec

-----------------------------------------------------------------------------
(***************************************************************************)
(* 2. NOTHING ACKNOWLEDGED IS LOST                                         *)
(*                                                                         *)
(* A link answered with 201 stays in the queue until PostgreSQL has it or  *)
(* a dead letter keeps it, whatever crashes, lock expiries and lost        *)
(* answers there are.                                                      *)
(***************************************************************************)
\* A code is queued at most once, because the allocator hands it out once and
\* a request enqueues it once.
QueueInv ==
    /\ QueueCodesDistinct
    /\ \A i \in 1..Len(queue) : queue[i].code \in issued
    /\ \A r \in Requests : rpc[r] = "enqueue" =>
          /\ code[r] \in issued
          /\ \A i \in 1..Len(queue) : queue[i].code # code[r]
          /\ \A s \in Requests : rpc[s] = "enqueue" /\ code[s] = code[r] => r = s

\* What a worker knows of the entries it peeked: none hides another one, and
\* each that parses is durable or a conflict once the worker may complete.
BatchInv ==
    \A w \in Workers :
        /\ \A i, j \in 1..Len(raw[w]) : raw[w][i].code = raw[w][j].code => i = j
        /\ wpc[w] = "lookup" => \A l \in Batch(w) : l.code \in persisted[w] => Durable(l)
        /\ wpc[w] = "complete" => \A l \in Batch(w) : Durable(l) \/ l \in conflicts[w]

\* A synchronous creation caches a row that is in PostgreSQL.
RowInv == \A r \in Requests : rpc[r] = "cache" => Durable(rlink[r])

FiniteInv == IsFiniteSet(dead) /\ \A w \in Workers : IsFiniteSet(conflicts[w])

LossInv == QueueInv /\ BatchInv /\ RowInv /\ FiniteInv /\ NoAckedLinkLost

-----------------------------------------------------------------------------
(***************************************************************************)
(* Facts about batches and rows                                            *)
(***************************************************************************)
LEMMA BatchCodesDistinct ==
  ASSUME NEW e \in Seq(PendingLink), NEW l \in FirstOccurrences(e),
         NEW m \in FirstOccurrences(e), l.code = m.code
  PROVE  l = m
<1>1. PICK i \in DOMAIN e :
        /\ l = e[i] /\ ParsePendingLink(e[i])
        /\ \A k \in 1..(i - 1) : ParsePendingLink(e[k]) => e[k].code # e[i].code
  BY DEF FirstOccurrences
<1>2. PICK j \in DOMAIN e :
        /\ m = e[j] /\ ParsePendingLink(e[j])
        /\ \A k \in 1..(j - 1) : ParsePendingLink(e[k]) => e[k].code # e[j].code
  BY DEF FirstOccurrences
<1>3. i \in 1..Len(e) /\ j \in 1..Len(e)
  BY <1>1, <1>2
<1>4. ~(i < j)
  BY <1>1, <1>2, <1>3
<1>5. ~(j < i)
  BY <1>1, <1>2, <1>3
<1> QED
  BY <1>1, <1>2, <1>3, <1>4, <1>5

\* Deduplication drops no entry of a peek whose codes are distinct.
LEMMA BatchComplete ==
  ASSUME NEW e \in Seq(PendingLink), NEW i \in 1..Len(e), ParsePendingLink(e[i]),
         \A j, k \in 1..Len(e) : e[j].code = e[k].code => j = k
  PROVE  e[i] \in FirstOccurrences(e)
<1>1. \A j \in 1..(i - 1) : e[j].code # e[i].code
  OBVIOUS
<1> QED
  BY <1>1 DEF FirstOccurrences

\* A batch consists of entries that were peeked.
LEMMA BatchSubset ==
  ASSUME NEW e \in Seq(PendingLink)
  PROVE  FirstOccurrences(e) \subseteq Range(e)
  BY DEF FirstOccurrences, Range

\* A batch insert makes its new entries durable.
LEMMA InsertedDurable ==
  ASSUME PostgresTypeOK, NEW e \in Seq(PendingLink), InsertRows(FirstOccurrences(e)),
         NEW l \in Inserted(FirstOccurrences(e))
  PROVE  Durable(l)'
<1>1. l \in FirstOccurrences(e) /\ l \in PendingLink /\ l.code \in Codes
  BY BatchTypes DEF Inserted, PendingLink
<1>2. PICK m \in Inserted(FirstOccurrences(e)) : m.code = l.code /\ links'[l.code] = m
  BY <1>1 DEF InsertRows
<1>3. m = l
  BY <1>1, <1>2, BatchCodesDistinct DEF Inserted
<1> QED
  BY <1>1, <1>2, <1>3, NilAssumption DEF Durable

\* Rows are never deleted or overwritten.
RowsKept == \A c \in Codes : links[c] # Nil => links'[c] = links[c]

\* An INSERT changes no row that is there.
LEMMA InsertRowKeeps ==
  ASSUME PostgresTypeOK, NEW l \in PendingLink, InsertRow(l)
  PROVE  RowsKept
  BY DEF RowsKept, InsertRow, PostgresTypeOK, PendingLink

\* Nor does the INSERT of a batch.
LEMMA InsertRowsKeeps ==
  ASSUME PostgresTypeOK, NEW b, InsertRows(b)
  PROVE  RowsKept
  BY DEF RowsKept, InsertRows, Inserted

\* A link that has its row keeps it while rows are kept.
LEMMA DurableKept ==
  ASSUME RowsKept, NEW l \in PendingLink, Durable(l)
  PROVE  Durable(l)'
  BY DEF RowsKept, Durable, PendingLink

\* No step deletes or overwrites a row.
LEMMA RowsKeptStep ==
  ASSUME TypeInv, [Next]_vars
  PROVE  RowsKept
<1> USE DEF TypeInv, TypeOK
<1>0. ASSUME UNCHANGED links PROVE RowsKept
  BY <1>0 DEF RowsKept
<1>1. CASE UNCHANGED vars
  BY <1>0, <1>1 DEF vars
<1>2. CASE ClientStep
  <2>1. ASSUME NEW r \in Requests, InsertLink(r) \/ InsertLinkFails(r)
        PROVE  RowsKept
    <3>1. body[r] \in Body /\ code[r] \in Codes
      BY <2>1 DEF InsertLink, InsertLinkFails, RequestInv
    <3>2. (\E now \in Instants : InsertRow(LinkOf(r, now))) \/ UNCHANGED links
      BY <2>1 DEF InsertLink, InsertLinkFails
    <3> QED
      BY <1>0, <3>1, <3>2, LinkOfType, InsertRowKeeps
  <2>2. UNCHANGED links \/ \E r \in Requests : InsertLink(r) \/ InsertLinkFails(r)
    BY <1>2
       DEF ClientStep, RequestStep, RequestFault, Submit, Generate, Enqueue, CheckAlias,
           InsertLinkRefused, CacheLink, GenerateFails, EnqueueFails, CheckAliasFails, ReaderStep,
           ReaderFault, ReadMiss, ReadExpired, Purge, FindRow, CacheRow, ClockPasses
  <2> QED
    BY <1>0, <2>1, <2>2
<1>3. CASE StoreStep
  <2>1. UNCHANGED links \/ \E w \in Workers : InsertRows(Batch(w))
    BY <1>3
       DEF StoreStep, ExpireLock, WorkerStep, WorkerFault, SyncShard, Acquire, AcquireFails, Peek,
           Insert, Lookup, InsertUnacked, AwaitFails, Complete, CompleteUnacked, Release,
           ReleaseFails, Crash
  <2> QED
    BY <1>0, <2>1, InsertRowsKeeps
<1> QED
  BY <1>1, <1>2, <1>3, StepOfOneActor

-----------------------------------------------------------------------------
(***************************************************************************)
(* A code is queued once                                                   *)
(***************************************************************************)
LEMMA SuffixEntries ==
  ASSUME NEW S, NEW s \in Seq(S), NEW n \in Nat, NEW q, q = SubSeq(s, n + 1, Len(s))
  PROVE  /\ q \in Seq(S)
         /\ \A i \in 1..Len(q) : n + i \in 1..Len(s) /\ q[i] = s[n + i]
         /\ \A k \in (n + 1)..Len(s) : s[k] \in Range(q)
<1>1. CASE n < Len(s)
  <2>1. q \in Seq(S) /\ Len(q) = Len(s) - n /\ \A i \in 1..(Len(s) - n) : q[i] = s[n + i]
    BY <1>1, SubSeqProperties
  <2>2. ASSUME NEW k \in (n + 1)..Len(s) PROVE s[k] \in Range(q)
    <3>1. k - n \in 1..Len(q) /\ q[k - n] = s[n + (k - n)] /\ n + (k - n) = k
      BY <1>1, <2>1
    <3>2. k - n \in DOMAIN q
      BY <2>1, <3>1
    <3> QED
      BY <3>1, <3>2 DEF Range
  <2> QED
    BY <1>1, <2>1, <2>2
<1>2. CASE n >= Len(s)
  <2>1. q = <<>>
    BY <1>2, SubSeqProperties, EmptySeq
  <2>2. q \in Seq(S) /\ Len(q) = 0
    BY <2>1, EmptySeq
  <2>3. (n + 1)..Len(s) = {}
    BY <1>2
  <2> QED
    BY <2>2, <2>3
<1> QED
  BY <1>1, <1>2

\* Steps that neither queue a link nor hand out a code.
LEMMA QueueInvKept ==
  ASSUME TypeInv, QueueInv, queue' = queue, issued \subseteq issued',
         \A s \in Requests : rpc'[s] = "enqueue" => rpc[s] = "enqueue" /\ code'[s] = code[s]
  PROVE  QueueInv'
  BY DEF QueueInv, QueueCodesDistinct

\* A trimmed queue still holds each code once.
LEMMA QueueInvSuffix ==
  ASSUME TypeInv, QueueInv, NEW n \in Nat, queue' = SubSeq(queue, n + 1, Len(queue)),
         UNCHANGED <<rpc, code, issued>>
  PROVE  QueueInv'
<1>1. queue \in Seq(PendingLink)
  BY DEF TypeInv, TypeOK, RedisTypeOK
<1>2. \A i \in 1..Len(queue') : n + i \in 1..Len(queue) /\ queue'[i] = queue[n + i]
  BY <1>1, SuffixEntries
<1>3. QueueCodesDistinct'
  <2> SUFFICES ASSUME NEW i \in 1..Len(queue'), NEW j \in 1..Len(queue'),
                      queue'[i].code = queue'[j].code
               PROVE  i = j
    BY DEF QueueCodesDistinct
  <2>1. n + i = n + j
    BY <1>2 DEF QueueInv, QueueCodesDistinct
  <2>2. queue' \in Seq(PendingLink)
    BY <1>1, SuffixEntries
  <2> QED
    BY <2>1, <2>2
<1>4. \A i \in 1..Len(queue') : queue'[i].code \in issued'
  BY <1>2 DEF QueueInv
<1>5. ASSUME NEW r \in Requests, rpc'[r] = "enqueue"
      PROVE  /\ code'[r] \in issued'
             /\ \A i \in 1..Len(queue') : queue'[i].code # code'[r]
             /\ \A s \in Requests : rpc'[s] = "enqueue" /\ code'[s] = code'[r] => r = s
  <2>1. rpc[r] = "enqueue" /\ code'[r] = code[r]
    BY <1>5
  <2>2. \A i \in 1..Len(queue') : queue'[i].code # code'[r]
    BY <1>2, <2>1 DEF QueueInv
  <2> QED
    BY <2>1, <2>2 DEF QueueInv
<1> QED
  BY <1>3, <1>4, <1>5 DEF QueueInv

\* So does a queue to which a request appends the code it was issued.
LEMMA QueueInvAppend ==
  ASSUME TypeInv, QueueInv, NEW r \in Requests, NEW now \in Instants, rpc[r] = "enqueue",
         EnqueueLink(LinkOf(r, now)), UNCHANGED <<code, issued>>, rpc'[r] # "enqueue",
         \A s \in Requests : s # r => rpc'[s] = rpc[s]
  PROVE  QueueInv'
<1> DEFINE l == LinkOf(r, now)
<1>1. queue \in Seq(PendingLink) /\ l \in PendingLink /\ l.code = code[r]
  BY LinkOfType DEF TypeInv, TypeOK, RedisTypeOK, RequestInv, LinkOf
<1>2. CASE queue' = queue
  BY <1>2, QueueInvKept
<1>3. CASE queue' = Append(queue, l)
  <2> HIDE DEF l
  <2>1. /\ Len(queue') = Len(queue) + 1 /\ queue'[Len(queue) + 1] = l
        /\ \A i \in 1..Len(queue) : queue'[i] = queue[i]
    BY <1>1, <1>3
  <2>2. \A i \in 1..Len(queue') : i \in 1..Len(queue) \/ i = Len(queue) + 1
    BY <1>1, <2>1
  <2>3. /\ code[r] \in issued
        /\ \A i \in 1..Len(queue) : queue[i].code # code[r]
    BY DEF QueueInv
  <2>4. QueueCodesDistinct'
    BY <1>1, <2>1, <2>2, <2>3 DEF QueueInv, QueueCodesDistinct
  <2>5. \A i \in 1..Len(queue') : queue'[i].code \in issued'
    BY <1>1, <2>1, <2>2, <2>3 DEF QueueInv
  <2>6. \A s \in Requests : rpc'[s] = "enqueue" =>
          /\ code'[s] \in issued'
          /\ \A i \in 1..Len(queue') : queue'[i].code # code'[s]
          /\ \A t \in Requests : rpc'[t] = "enqueue" /\ code'[t] = code'[s] => s = t
    BY <1>1, <2>1, <2>2, <2>3 DEF QueueInv
  <2> QED
    BY <2>4, <2>5, <2>6 DEF QueueInv
<1> QED
  BY <1>2, <1>3 DEF EnqueueLink

\* What COMPLETE_SYNC does to the queue and the letters.
LEMMA CompleteEffectQueue ==
  ASSUME NEW w \in Workers, CompleteEffect(w)
  PROVE  \/ UNCHANGED redisVars
         \/ /\ lock = token[w]
            /\ queue' = SubSeq(queue, Len(raw[w]) + 1, Len(queue))
            /\ PushDeadLetters(Letters(w))
  BY DEF CompleteEffect, CompleteSync

\* Only COMPLETE_SYNC shortens the queue or writes dead letters.
LEMMA StoreStepQueue ==
  ASSUME StoreStep
  PROVE  \/ UNCHANGED <<queue, dead>>
         \/ \E w \in Workers :
              /\ wpc[w] = "complete" /\ lock = token[w]
              /\ queue' = SubSeq(queue, Len(raw[w]) + 1, Len(queue))
              /\ PushDeadLetters(Letters(w))
<1>1. ASSUME NEW w \in Workers, Complete(w) \/ CompleteUnacked(w)
      PROVE  \/ UNCHANGED <<queue, dead>>
             \/ /\ wpc[w] = "complete" /\ lock = token[w]
                /\ queue' = SubSeq(queue, Len(raw[w]) + 1, Len(queue))
                /\ PushDeadLetters(Letters(w))
  BY <1>1, CompleteEffectQueue DEF Complete, CompleteUnacked, redisVars
<1>2. \/ UNCHANGED <<queue, dead>>
      \/ \E w \in Workers : Complete(w) \/ CompleteUnacked(w)
  BY DEF StoreStep, ExpireLock, WorkerStep, WorkerFault, SyncShard, Acquire, AcquireFails, Peek,
         Insert, Lookup, InsertUnacked, AwaitFails, Release, ReleaseFails, Crash, redisVars
<1> QED
  BY <1>1, <1>2

\* No step queues a code a second time.
LEMMA QueueInvStep ==
  ASSUME TypeInv, QueueInv, [Next]_vars
  PROVE  QueueInv'
<1> USE DEF TypeInv, TypeOK
<1>1. CASE UNCHANGED vars
  BY <1>1, QueueInvKept DEF vars, redisVars, clientVars, requestVars
<1>2. CASE StoreStep /\ UNCHANGED clientVars
  <2>1. CASE queue' = queue
    BY <1>2, <2>1, QueueInvKept DEF clientVars, requestVars
  <2>2. ASSUME NEW w \in Workers, queue' = SubSeq(queue, Len(raw[w]) + 1, Len(queue))
        PROVE  QueueInv'
    <3>1. Len(raw[w]) \in Nat
      BY DEF WorkerTypeOK
    <3> QED
      BY <1>2, <2>2, <3>1, QueueInvSuffix DEF clientVars, requestVars
  <2> QED
    BY <1>2, <2>1, <2>2, StoreStepQueue
<1>3. ASSUME NEW r \in Requests, Generate(r)
      PROVE  QueueInv'
  <2> PICK c \in GenCodes \ issued :
        issued' = issued \union {c} /\ code' = [code EXCEPT ![r] = c]
    BY <1>3 DEF Generate
  <2>1. /\ rpc[r] = "generate" /\ rpc' = [rpc EXCEPT ![r] = "enqueue"] /\ queue' = queue
    BY <1>3 DEF Generate, GotoR, redisVars
  <2>2. /\ rpc'[r] = "enqueue" /\ code'[r] = c
        /\ \A s \in Requests : s # r => rpc'[s] = rpc[s] /\ code'[s] = code[s]
    BY <2>1 DEF RequestTypeOK
  <2> QED
    BY <2>1, <2>2 DEF QueueInv, QueueCodesDistinct
<1>4. ASSUME NEW r \in Requests, Enqueue(r) \/ EnqueueFails(r)
      PROVE  QueueInv'
  <2>1. /\ rpc[r] = "enqueue" /\ UNCHANGED <<code, issued>>
        /\ \/ \E now \in Instants : EnqueueLink(LinkOf(r, now))
           \/ queue' = queue
    BY <1>4 DEF Enqueue, EnqueueFails
  <2>2. \E x \in {"acked", "failed", "generate", "insert"} : GotoR(r, x)
    BY <1>4 DEF Enqueue, EnqueueFails, NullResult, EnqueueOutcome
  <2>3. rpc'[r] # "enqueue" /\ \A s \in Requests : s # r => rpc'[s] = rpc[s]
    BY <2>2 DEF GotoR, RequestTypeOK
  <2> QED
    BY <2>1, <2>3, QueueInvAppend, QueueInvKept
<1>5. ASSUME NEW r \in Requests, RequestStep(r) \/ RequestFault(r),
             ~Generate(r), ~Enqueue(r), ~EnqueueFails(r)
      PROVE  QueueInv'
  <2>1. queue' = queue /\ issued' = issued
    BY <1>5 DEF RequestStep, RequestFault, Submit, CheckAlias, InsertLink, InsertLinkRefused,
                CacheLink, GenerateFails, CheckAliasFails, InsertLinkFails, redisVars
  <2>2. CASE Submit(r)
    <3>1. \E x \in {"generate", "alias"} : GotoR(r, x)
      BY <2>2 DEF Submit
    <3>2. \A s \in Requests : s # r => code'[s] = code[s]
      BY <2>2 DEF Submit, RequestTypeOK
    <3> QED
      BY <2>1, <3>1, <3>2, QueueInvKept DEF GotoR, RequestTypeOK
  <2>3. CASE ~Submit(r)
    <3>1. code' = code
      BY <1>5, <2>3
         DEF RequestStep, RequestFault, CheckAlias, InsertLink, InsertLinkRefused, CacheLink,
             GenerateFails, CheckAliasFails, InsertLinkFails
    <3>2. \E x \in {"acked", "failed", "generate", "insert", "cache"} : GotoR(r, x)
      BY <1>5, <2>3
         DEF RequestStep, RequestFault, CheckAlias, InsertLink, InsertLinkRefused, CacheLink,
             GenerateFails, CheckAliasFails, InsertLinkFails, NullResult
    <3> QED
      BY <2>1, <3>1, <3>2, QueueInvKept DEF GotoR, RequestTypeOK
  <2> QED
    BY <2>2, <2>3
<1>6. ASSUME ClientStep, UNCHANGED requestVars
      PROVE  QueueInv'
  <2>1. CASE \E r \in Requests : RequestStep(r) \/ RequestFault(r)
    BY <1>3, <1>4, <1>5, <2>1
  <2>2. CASE ~\E r \in Requests : RequestStep(r) \/ RequestFault(r)
    <3>1. queue' = queue
      BY <1>6, <2>2
         DEF ClientStep, ReaderStep, ReaderFault, ReadMiss, ReadExpired, Purge, FindRow, CacheRow,
             ClockPasses, Vanish, redisVars
    <3> QED
      BY <1>6, <3>1, QueueInvKept DEF requestVars
  <2> QED
    BY <2>1, <2>2
<1> QED
  BY <1>1, <1>2, <1>3, <1>4, <1>5, <1>6, StepOfOneActor DEF ClientStep, clientVars

-----------------------------------------------------------------------------
(***************************************************************************)
(* What a worker knows of its batch                                        *)
(***************************************************************************)
BatchInvOf(w) ==
    /\ \A i, j \in 1..Len(raw[w]) : raw[w][i].code = raw[w][j].code => i = j
    /\ wpc[w] = "lookup" => \A l \in Batch(w) : l.code \in persisted[w] => Durable(l)
    /\ wpc[w] = "complete" => \A l \in Batch(w) : Durable(l) \/ l \in conflicts[w]

\* What a worker knows of its batch survives the steps of others.
LEMMA BatchInvKept ==
  ASSUME TypeInv, NEW w \in Workers, BatchInvOf(w), RowsKept, raw'[w] = raw[w],
         wpc'[w] = wpc[w], persisted'[w] = persisted[w], conflicts'[w] = conflicts[w]
  PROVE  BatchInvOf(w)'
<1>1. Batch(w)' = Batch(w)
  BY DEF Batch, FirstOccurrences
<1>2. Batch(w) \subseteq PendingLink
  BY BatchType DEF TypeInv, TypeOK
<1>3. \A l \in Batch(w) : Durable(l) => Durable(l)'
  BY <1>2, DurableKept
<1> QED
  BY <1>1, <1>3 DEF BatchInvOf

\* A worker that discarded its batch knows nothing that could be wrong.
LEMMA BatchInvDiscard ==
  ASSUME TypeInv, NEW w \in Workers, Discard(w), wpc'[w] \notin {"lookup", "complete"}
  PROVE  BatchInvOf(w)'
<1>1. raw'[w] = <<>> /\ Len(raw'[w]) = 0
  BY EmptySeq DEF Discard, TypeInv, TypeOK, WorkerTypeOK
<1> QED
  BY <1>1 DEF BatchInvOf

\* Every step keeps what the workers know of their batches true.
LEMMA BatchInvStep ==
  ASSUME TypeInv, QueueInv, BatchInv, [Next]_vars
  PROVE  BatchInv'
<1> USE DEF TypeInv, TypeOK
<1> SUFFICES ASSUME NEW v \in Workers PROVE BatchInvOf(v)'
  BY DEF BatchInv, BatchInvOf
<1>0. RowsKept /\ BatchInvOf(v)
  BY RowsKeptStep DEF BatchInv, BatchInvOf
<1>1. CASE UNCHANGED workerVars
  BY <1>0, <1>1, BatchInvKept DEF workerVars
<1>2. ASSUME NEW w \in Workers, WorkerStep(w) \/ WorkerFault(w), w # v
      PROVE  BatchInvOf(v)'
  <2>1. /\ raw'[v] = raw[v] /\ wpc'[v] = wpc[v]
        /\ persisted'[v] = persisted[v] /\ conflicts'[v] = conflicts[v]
    BY <1>2
       DEF WorkerStep, WorkerFault, SyncShard, Acquire, AcquireFails, Peek, Insert, Lookup,
           InsertUnacked, AwaitFails, Complete, CompleteUnacked, Release, ReleaseFails, Crash,
           Return, ToRelease, Discard, Goto, WorkerTypeOK
  <2> QED
    BY <1>0, <2>1, BatchInvKept
<1>3. CASE Insert(v)
  <2>1. raw[v] \in Seq(PendingLink) /\ raw' = raw /\ Batch(v)' = Batch(v)
    BY <1>3 DEF Insert, Batch, FirstOccurrences, WorkerTypeOK
  <2>2. \A l \in Inserted(Batch(v)) : Durable(l)'
    BY <1>3, <2>1, InsertedDurable DEF Insert, Batch
  <2>3. persisted'[v] = {l.code : l \in Inserted(Batch(v))}
    BY <1>3 DEF Insert, WorkerTypeOK
  <2>4. \A l \in Batch(v) : l.code \in persisted'[v] => Durable(l)'
    <3> SUFFICES ASSUME NEW l \in Batch(v), l.code \in persisted'[v] PROVE Durable(l)'
      OBVIOUS
    <3>1. PICK m \in Inserted(Batch(v)) : m.code = l.code
      BY <2>3
    <3>2. m = l
      BY <2>1, <3>1, BatchCodesDistinct DEF Batch, Inserted
    <3> QED
      BY <2>2, <3>1, <3>2
  <2>5. wpc'[v] = IF Inserted(Batch(v)) = Batch(v) THEN "complete" ELSE "lookup"
    BY <1>3 DEF Insert, Goto, WorkerTypeOK
  <2> QED
    BY <1>0, <2>1, <2>2, <2>4, <2>5 DEF BatchInvOf
<1>4. CASE Lookup(v)
  <2> DEFINE rest == {l \in Batch(v) : l.code \notin persisted[v]}
             replays == {l \in rest : IsReplay(l)}
  <2>1. /\ raw' = raw /\ Batch(v)' = Batch(v) /\ links' = links /\ wpc[v] = "lookup"
        /\ wpc'[v] = "complete"
    BY <1>4 DEF Lookup, Goto, Batch, FirstOccurrences, WorkerTypeOK
  <2>2. conflicts'[v] = rest \ replays
    BY <1>4 DEF Lookup, WorkerTypeOK
  <2>3. ASSUME NEW l \in Batch(v) PROVE Durable(l)' \/ l \in conflicts'[v]
    <3>1. CASE l.code \in persisted[v]
      BY <1>0, <2>1, <3>1 DEF BatchInvOf, Durable
    <3>2. CASE IsReplay(l)
      BY <2>1, <3>2 DEF IsReplay, Durable
    <3>3. CASE l.code \notin persisted[v] /\ ~IsReplay(l)
      BY <2>2, <3>3
    <3> QED
      BY <3>1, <3>2, <3>3
  <2> HIDE DEF rest, replays
  <2> QED
    BY <1>0, <2>1, <2>3 DEF BatchInvOf
<1>5. CASE Peek(v) /\ queue # <<>>
  <2>1. /\ queue \in Seq(PendingLink)
        /\ raw'[v] = SubSeq(queue, 1, PeekLength) /\ wpc'[v] = "insert"
    BY <1>5 DEF Peek, Goto, WorkerTypeOK, RedisTypeOK
  <2>2. PeekLength \in Nat /\ PeekLength <= Len(queue)
    BY <2>1, WorkerAssumption DEF PeekLength
  <2>3. Len(raw'[v]) = PeekLength /\ \A i \in 1..PeekLength : raw'[v][i] = queue[i]
    BY <2>1, <2>2
  <2>4. \A i \in 1..PeekLength : i \in 1..Len(queue)
    BY <2>1, <2>2
  <2>5. \A i, j \in 1..Len(raw'[v]) : raw'[v][i].code = raw'[v][j].code => i = j
    BY <2>3, <2>4 DEF QueueInv, QueueCodesDistinct
  <2> QED
    BY <2>1, <2>5 DEF BatchInvOf
<1>6. CASE SyncShard(v) \/ (Acquire(v) /\ lock = Nil)
  <2>1. raw' = raw /\ wpc'[v] \in {"acquire", "peek"}
    BY <1>6 DEF SyncShard, Acquire, Goto, WorkerTypeOK
  <2> QED
    BY <1>0, <2>1 DEF BatchInvOf
<1>7. CASE /\ WorkerStep(v) \/ WorkerFault(v)
           /\ ~(Insert(v) \/ Lookup(v) \/ SyncShard(v))
           /\ ~(Peek(v) /\ queue # <<>>) /\ ~(Acquire(v) /\ lock = Nil)
  <2>1. Discard(v) /\ \E x \in {"idle", "release", "acquire"} : Goto(v, x)
    BY <1>7
       DEF WorkerStep, WorkerFault, Acquire, AcquireFails, Peek, InsertUnacked, AwaitFails,
           Complete, CompleteUnacked, Release, ReleaseFails, Crash, Return, ToRelease
  <2>2. wpc'[v] \notin {"lookup", "complete"}
    BY <2>1 DEF Goto, WorkerTypeOK
  <2> QED
    BY <2>1, <2>2, BatchInvDiscard
<1>8. CASE WorkerStep(v) \/ WorkerFault(v)
  BY <1>3, <1>4, <1>5, <1>6, <1>7, <1>8
<1>9. CASE ~UNCHANGED workerVars
  BY <1>2, <1>8, <1>9, StepOfOneActor DEF StoreStep, ExpireLock, vars
<1> QED
  BY <1>1, <1>9

-----------------------------------------------------------------------------
(***************************************************************************)
(* An entry leaves the queue only when PostgreSQL or a letter has it       *)
(***************************************************************************)
LEMMA HandledEntry ==
  ASSUME TypeInv, BatchInv, NEW w \in Workers, wpc[w] = "complete", NEW i \in 1..Len(raw[w])
  PROVE  Durable(raw[w][i]) \/ \E letter \in Letters(w) : letter.link = raw[w][i]
<1>1. raw[w] \in Seq(PendingLink) /\ raw[w][i] \in Range(raw[w])
  BY DEF TypeInv, TypeOK, WorkerTypeOK, Range
<1>2. CASE ~ParsePendingLink(raw[w][i])
  <2>1. [reason |-> "invalid", link |-> raw[w][i]] \in Letters(w)
    BY <1>1, <1>2 DEF Letters
  <2> QED
    BY <2>1
<1>3. CASE ParsePendingLink(raw[w][i])
  <2>1. raw[w][i] \in Batch(w)
    BY <1>1, <1>3, BatchComplete DEF Batch, BatchInv
  <2>2. Durable(raw[w][i]) \/ raw[w][i] \in conflicts[w]
    BY <2>1 DEF BatchInv
  <2>3. ASSUME raw[w][i] \in conflicts[w]
        PROVE  [reason |-> "conflict", link |-> raw[w][i]] \in Letters(w)
    BY <2>3 DEF Letters
  <2> QED
    BY <2>2, <2>3
<1> QED
  BY <1>2, <1>3

\* An entry leaves the queue only with its row or its dead letter.
LEMMA EntriesLeaveStep ==
  ASSUME TypeInv, HolderSeesHead, BatchInv, [Next]_vars, NEW l \in Range(queue) \ Range(queue')
  PROVE  Durable(l) \/ DeadLettered(l)'
<1>1. queue \in Seq(PendingLink)
  BY DEF TypeInv, TypeOK, RedisTypeOK
<1>2. PICK k \in 1..Len(queue) : l = queue[k]
  BY <1>1 DEF Range
<1>3. ASSUME Appended PROVE FALSE
  <2>1. CASE queue' = queue
    BY <2>1
  <2>2. ASSUME NEW m \in PendingLink, queue' = Append(queue, m) PROVE FALSE
    <3>1. k \in DOMAIN queue' /\ queue'[k] = l
      BY <1>1, <1>2, <2>2
    <3> QED
      BY <3>1 DEF Range
  <2> QED
    BY <1>3, <2>1, <2>2 DEF Appended
<1>4. PICK w \in Workers :
        /\ wpc[w] = "complete" /\ lock = token[w]
        /\ queue' = SubSeq(queue, Len(raw[w]) + 1, Len(queue))
        /\ PushDeadLetters(Letters(w))
  <2>1. StoreStep
    BY <1>3, ClientsAppend, StepOfOneActor DEF vars, redisVars, Appended
  <2> QED
    BY <1>3, <2>1, StoreStepQueue DEF Appended
<1>5. Len(raw[w]) \in Nat
  BY DEF TypeInv, TypeOK, WorkerTypeOK
<1>6. k <= Len(raw[w])
  <2> SUFFICES ASSUME k > Len(raw[w]) PROVE FALSE
    BY <1>1, <1>5
  <2>1. k \in (Len(raw[w]) + 1)..Len(queue)
    BY <1>1, <1>5
  <2>2. queue[k] \in Range(queue')
    BY <1>1, <1>4, <1>5, <2>1, SuffixEntries
  <2> QED
    BY <1>2, <2>2
<1>7. k \in 1..Len(raw[w]) /\ raw[w][k] = l
  BY <1>2, <1>4, <1>5, <1>6 DEF HolderSeesHead
<1>8. Letters(w) \subseteq dead'
  BY <1>4 DEF PushDeadLetters
<1> QED
  BY <1>4, <1>7, <1>8, HandledEntry DEF DeadLettered

-----------------------------------------------------------------------------
(***************************************************************************)
(* The dead letters grow until the list is full                            *)
(***************************************************************************)
LEMMA RangeFinite ==
  ASSUME NEW S, NEW s \in Seq(S)
  PROVE  IsFiniteSet(Range(s))
<1>1. s \in Surjection(1..Len(s), Range(s))
  BY DEF Surjection, Range
<1>2. IsFiniteSet(1..Len(s))
  BY FS_Interval
<1> QED
  BY <1>1, <1>2, FS_Surjection

\* Finitely many links make finitely many letters of a kind.
LEMMA TaggedFinite ==
  ASSUME NEW S, IsFiniteSet(S), NEW x
  PROVE  IsFiniteSet({[reason |-> x, link |-> l] : l \in S})
<1> DEFINE T == {[reason |-> x, link |-> l] : l \in S}
           f == [l \in S |-> [reason |-> x, link |-> l]]
<1>1. f \in Surjection(S, T)
  BY DEF Surjection
<1> QED
  BY <1>1, FS_Surjection

\* A batch files finitely many dead letters.
LEMMA LettersFinite ==
  ASSUME TypeInv, FiniteInv, NEW w \in Workers
  PROVE  IsFiniteSet(Letters(w))
<1> DEFINE bad == {l \in Range(raw[w]) : ~ParsePendingLink(l)}
<1>1. raw[w] \in Seq(PendingLink)
  BY DEF TypeInv, TypeOK, WorkerTypeOK
<1>2. IsFiniteSet(bad)
  BY <1>1, RangeFinite, FS_Subset
<1>3. IsFiniteSet(conflicts[w])
  BY DEF FiniteInv
<1>4. IsFiniteSet({[reason |-> "invalid", link |-> l] : l \in bad})
  BY <1>2, TaggedFinite
<1>5. IsFiniteSet({[reason |-> "conflict", link |-> l] : l \in conflicts[w]})
  BY <1>3, TaggedFinite
<1> QED
  BY <1>4, <1>5, FS_Union DEF Letters

Full == Cardinality(dead) >= DeadCap

\* Pushing letters keeps the old ones until the list is full, and a full list full.
LEMMA LettersPushed ==
  ASSUME IsFiniteSet(dead), NEW L, IsFiniteSet(L), PushDeadLetters(L)
  PROVE  /\ IsFiniteSet(dead')
         /\ dead \subseteq dead' \/ Full'
         /\ Full => Full'
<1>1. IsFiniteSet(dead \union L)
  BY FS_Union
<1>2. dead' \subseteq dead \union L
  BY DEF PushDeadLetters
<1>3. IsFiniteSet(dead')
  BY <1>1, <1>2, FS_Subset
<1>4. CASE dead' = dead \union L
  <2>1. Cardinality(dead) <= Cardinality(dead')
    BY <1>3, <1>4, FS_Subset
  <2>2. Cardinality(dead) \in Nat /\ Cardinality(dead') \in Nat
    BY <1>3, FS_CardinalityType
  <2> QED
    BY <1>3, <1>4, <2>1, <2>2, RedisAssumption DEF Full
<1>5. CASE Cardinality(dead') = DeadCap
  BY <1>3, <1>5, RedisAssumption DEF Full
<1> QED
  BY <1>4, <1>5 DEF PushDeadLetters

\* Requests and redirects touch no dead letter.
LEMMA ClientsKeepDead ==
  ASSUME ClientStep
  PROVE  dead' = dead
  BY DEF ClientStep, RequestStep, RequestFault, Submit, Generate, Enqueue, CheckAlias, InsertLink,
         InsertLinkRefused, CacheLink, GenerateFails, EnqueueFails, CheckAliasFails,
         InsertLinkFails, ReaderStep, ReaderFault, ReadMiss, ReadExpired, Purge, FindRow, CacheRow,
         ClockPasses, Vanish, redisVars

\* Dead letters stay finite and are only added to, until the list is full.
LEMMA DeadStep ==
  ASSUME TypeInv, FiniteInv, [Next]_vars
  PROVE  /\ IsFiniteSet(dead')
         /\ dead \subseteq dead' \/ Full'
         /\ Full => Full'
<1>1. dead' = dead \/ \E w \in Workers : PushDeadLetters(Letters(w))
  BY StepOfOneActor, StoreStepQueue, ClientsKeepDead DEF vars, redisVars
<1>2. CASE dead' = dead
  BY <1>2 DEF FiniteInv, Full
<1>3. ASSUME NEW w \in Workers, PushDeadLetters(Letters(w))
      PROVE  /\ IsFiniteSet(dead')
             /\ dead \subseteq dead' \/ Full'
             /\ Full => Full'
  BY <1>3, LettersFinite, LettersPushed DEF FiniteInv
<1> QED
  BY <1>1, <1>2, <1>3

\* The dead letters stay finite.
LEMMA FiniteInvStep ==
  ASSUME TypeInv, FiniteInv, [Next]_vars
  PROVE  FiniteInv'
<1> SUFFICES ASSUME NEW v \in Workers PROVE IsFiniteSet(conflicts'[v])
  BY DeadStep DEF FiniteInv
<1> USE DEF TypeInv, TypeOK
<1>1. CASE conflicts'[v] = conflicts[v]
  BY <1>1 DEF FiniteInv
<1>2. ASSUME NEW w \in Workers, Lookup(w)
      PROVE  IsFiniteSet(conflicts'[v])
  <2>1. raw[w] \in Seq(PendingLink)
    BY DEF WorkerTypeOK
  <2>2. IsFiniteSet(Batch(w))
    BY <2>1, RangeFinite, BatchSubset, FS_Subset DEF Batch
  <2>3. conflicts'[v] = conflicts[v] \/ conflicts'[v] \subseteq Batch(w)
    BY <1>2 DEF Lookup, WorkerTypeOK
  <2> QED
    BY <1>1, <2>2, <2>3, FS_Subset
<1>3. ASSUME NEW w \in Workers, WorkerStep(w) \/ WorkerFault(w), ~Lookup(w)
      PROVE  IsFiniteSet(conflicts'[v])
  <2>1. conflicts' = conflicts \/ conflicts' = [conflicts EXCEPT ![w] = {}]
    BY <1>3
       DEF WorkerStep, WorkerFault, SyncShard, Acquire, AcquireFails, Peek, Insert, InsertUnacked,
           AwaitFails, Complete, CompleteUnacked, Release, ReleaseFails, Crash, Return, ToRelease,
           Discard
  <2>2. conflicts'[v] = conflicts[v] \/ conflicts'[v] = {}
    BY <2>1 DEF WorkerTypeOK
  <2> QED
    BY <1>1, <2>2, FS_EmptySet
<1>4. CASE UNCHANGED workerVars
  BY <1>1, <1>4 DEF workerVars
<1> QED
  BY <1>2, <1>3, <1>4, StepOfOneActor DEF StoreStep, ExpireLock, vars

-----------------------------------------------------------------------------
(***************************************************************************)
(* Acknowledged links                                                      *)
(***************************************************************************)
LEMMA RowInvStep ==
  ASSUME TypeInv, RowInv, [Next]_vars
  PROVE  RowInv'
<1> USE DEF TypeInv, TypeOK
<1> SUFFICES ASSUME NEW s \in Requests, rpc'[s] = "cache" PROVE Durable(rlink[s])'
  BY DEF RowInv, Durable
<1>1. CASE rpc[s] = "cache" /\ rlink'[s] = rlink[s]
  <2>1. PICK l \in PendingLink : l = rlink[s] /\ Durable(l)
    BY <1>1 DEF RowInv, RequestInv
  <2>2. Durable(l)'
    BY <2>1, RowsKeptStep, DurableKept
  <2> QED
    BY <1>1, <2>1, <2>2 DEF Durable
<1>2. CASE UNCHANGED requestVars
  BY <1>1, <1>2 DEF requestVars
<1>3. ASSUME NEW r \in Requests, RequestStep(r) \/ RequestFault(r)
      PROVE  Durable(rlink[s])'
  <2>1. CASE r # s
    <3>1. rpc'[s] = rpc[s] /\ rlink'[s] = rlink[s]
      BY <1>3, <2>1
         DEF RequestStep, RequestFault, Submit, Generate, Enqueue, CheckAlias, InsertLink,
             InsertLinkRefused, CacheLink, GenerateFails, EnqueueFails, CheckAliasFails,
             InsertLinkFails, GotoR, NullResult, EnqueueOutcome, RequestTypeOK
    <3> QED
      BY <1>1, <3>1
  <2>2. CASE r = s /\ InsertLink(r) /\ links[code[r]] = Nil
    <3>1. code[r] \in Codes /\ body[r] \in Body
      BY <2>2 DEF InsertLink, RequestInv
    <3>2. PICK now \in Instants :
            InsertRow(LinkOf(r, now)) /\ rlink' = [rlink EXCEPT ![r] = LinkOf(r, now)]
      BY <2>2 DEF InsertLink
    <3> DEFINE l == LinkOf(r, now)
    <3>3. l \in PendingLink /\ l.code = code[r]
      BY <3>1, LinkOfType DEF LinkOf
    <3>4. rlink'[s] = l
      BY <2>2, <3>2 DEF RequestTypeOK
    <3> HIDE DEF l
    <3>5. links'[l.code] = l
      BY <2>2, <3>1, <3>2, <3>3 DEF InsertRow, PostgresTypeOK, l
    <3> QED
      BY <3>3, <3>4, <3>5, NilAssumption DEF Durable
  <2>3. CASE r = s /\ ~(InsertLink(r) /\ links[code[r]] = Nil)
    <3>1. \E x \in RequestStates \ {"cache"} : GotoR(r, x)
      BY <1>3, <2>3
         DEF RequestStep, RequestFault, Submit, Generate, Enqueue, CheckAlias, InsertLink,
             InsertLinkRefused, CacheLink, GenerateFails, EnqueueFails, CheckAliasFails,
             InsertLinkFails, NullResult, EnqueueOutcome, RequestStates
    <3> QED
      BY <2>3, <3>1 DEF GotoR, RequestTypeOK
  <2> QED
    BY <2>1, <2>2, <2>3
<1> QED
  BY <1>2, <1>3, StepOfOneActor DEF ClientStep, clientVars, vars

Kept(l) == Durable(l) \/ l \in Range(queue) \/ DeadLettered(l) \/ Full

\* A link that has its row, waits or has a dead letter goes on having one of the
\* three, until the letters are full.
LEMMA KeptStep ==
  ASSUME TypeInv, HolderSeesHead, BatchInv, FiniteInv, [Next]_vars,
         NEW l \in PendingLink, Kept(l)
  PROVE  Kept(l)'
<1>1. CASE Durable(l)
  BY <1>1, RowsKeptStep, DurableKept DEF Kept
<1>2. CASE l \in Range(queue)
  <2>1. CASE l \in Range(queue')
    BY <2>1 DEF Kept
  <2>2. CASE l \notin Range(queue')
    <3>1. Durable(l) \/ DeadLettered(l)'
      BY <1>2, <2>2, EntriesLeaveStep
    <3> QED
      BY <1>1, <3>1 DEF Kept
  <2> QED
    BY <2>1, <2>2
<1>3. CASE DeadLettered(l) \/ Full
  BY <1>3, DeadStep DEF Kept, DeadLettered
<1> QED
  BY <1>1, <1>2, <1>3 DEF Kept

\* No step loses an acknowledged link.
LEMMA NoAckedLinkLostStep ==
  ASSUME TypeInv, HolderSeesHead, BatchInv, RowInv, FiniteInv, NoAckedLinkLost, [Next]_vars
  PROVE  NoAckedLinkLost'
<1> USE DEF TypeInv, TypeOK
<1> SUFFICES ASSUME NEW s \in Requests, rpc'[s] = "acked" PROVE Kept(rlink[s])'
  BY DEF NoAckedLinkLost, Kept, Full
<1>1. CASE rpc[s] \in {"acked", "cache"} /\ rlink'[s] = rlink[s]
  <2>1. PICK l \in PendingLink : l = rlink[s] /\ Kept(l)
    BY <1>1 DEF NoAckedLinkLost, RowInv, RequestInv, Kept, Full
  <2>2. Kept(l)'
    BY <2>1, KeptStep
  <2> QED
    BY <1>1, <2>1, <2>2
<1>2. CASE UNCHANGED requestVars
  BY <1>1, <1>2 DEF requestVars
<1>3. ASSUME NEW r \in Requests, RequestStep(r) \/ RequestFault(r)
      PROVE  Kept(rlink[s])'
  <2>1. CASE r # s
    <3>1. rpc'[s] = rpc[s] /\ rlink'[s] = rlink[s]
      BY <1>3, <2>1
         DEF RequestStep, RequestFault, Submit, Generate, Enqueue, CheckAlias, InsertLink,
             InsertLinkRefused, CacheLink, GenerateFails, EnqueueFails, CheckAliasFails,
             InsertLinkFails, GotoR, NullResult, EnqueueOutcome, RequestTypeOK
    <3> QED
      BY <1>1, <3>1
  <2>2. CASE r = s /\ CacheLink(r)
    BY <1>1, <2>2 DEF CacheLink
  <2>3. CASE r = s /\ Enqueue(r)
    <3>1. PICK now \in Instants :
            LET l == LinkOf(r, now)
            IN  /\ EnqueueLink(l)
                /\ CASE EnqueueOutcome(l) = "queued" ->
                          GotoR(r, "acked") /\ rlink' = [rlink EXCEPT ![r] = l]
                     [] EnqueueOutcome(l) = "exists" -> NullResult(r) /\ UNCHANGED rlink
                     [] EnqueueOutcome(l) = "full" -> GotoR(r, "insert") /\ UNCHANGED rlink
      BY <2>3 DEF Enqueue
    <3> DEFINE l == LinkOf(r, now)
    <3>2. EnqueueOutcome(l) \in {"queued", "exists", "full"}
      BY DEF EnqueueOutcome
    <3>3. EnqueueOutcome(l) = "queued"
      <4>1. CASE EnqueueOutcome(l) = "exists"
        <5>1. NullResult(r)
          BY <3>1, <4>1
        <5> QED
          BY <2>3, <5>1 DEF NullResult, GotoR, RequestTypeOK
      <4>2. CASE EnqueueOutcome(l) = "full"
        <5>1. GotoR(r, "insert")
          BY <3>1, <4>2
        <5> QED
          BY <2>3, <5>1 DEF GotoR, RequestTypeOK
      <4> QED
        BY <3>2, <4>1, <4>2
    <3>4. queue' = Append(queue, l) /\ rlink' = [rlink EXCEPT ![r] = l]
      BY <3>1, <3>3 DEF EnqueueLink
    <3>5. queue \in Seq(PendingLink) /\ l \in PendingLink
      BY <2>3, LinkOfType DEF Enqueue, RequestInv, RedisTypeOK
    <3> HIDE DEF l
    <3>6. rlink'[s] = l
      BY <2>3, <3>4 DEF RequestTypeOK
    <3>7. Len(queue) + 1 \in DOMAIN queue' /\ queue'[Len(queue) + 1] = l
      BY <3>4, <3>5
    <3> QED
      BY <3>6, <3>7 DEF Kept, Range
  <2>4. CASE r = s /\ ~CacheLink(r) /\ ~Enqueue(r)
    <3>1. \E x \in RequestStates \ {"acked"} : GotoR(r, x)
      BY <1>3, <2>4
         DEF RequestStep, RequestFault, Submit, Generate, CheckAlias, InsertLink,
             InsertLinkRefused, GenerateFails, EnqueueFails, CheckAliasFails, InsertLinkFails,
             NullResult, RequestStates
    <3> QED
      BY <2>4, <3>1 DEF GotoR, RequestTypeOK
  <2> QED
    BY <2>1, <2>2, <2>3, <2>4
<1> QED
  BY <1>2, <1>3, StepOfOneActor DEF ClientStep, clientVars, vars

-----------------------------------------------------------------------------
\* The invariant of this part holds throughout.
LEMMA LossInvCorrect == Spec => []LossInv
<1>1. Init => LossInv
  <2> SUFFICES ASSUME Init PROVE LossInv
    OBVIOUS
  <2>1. Len(queue) = 0 /\ \A w \in Workers : Len(raw[w]) = 0
    BY DEF Init, RedisInit, WorkerInit
  <2>2. QueueInv
    BY <2>1 DEF Init, RequestInit, QueueInv, QueueCodesDistinct
  <2>3. BatchInv
    BY <2>1 DEF Init, WorkerInit, BatchInv
  <2>4. RowInv /\ NoAckedLinkLost
    BY DEF Init, RequestInit, RowInv, NoAckedLinkLost
  <2>5. FiniteInv
    BY FS_EmptySet DEF Init, RedisInit, WorkerInit, FiniteInv
  <2> QED
    BY <2>2, <2>3, <2>4, <2>5 DEF LossInv
<1>2. TypeInv /\ HolderSeesHead /\ LossInv /\ [Next]_vars => LossInv'
  BY QueueInvStep, BatchInvStep, RowInvStep, FiniteInvStep, NoAckedLinkLostStep DEF LossInv
<1> QED
  BY <1>1, <1>2, TypeCorrect, HoldersSeeHead, PTL DEF Spec

\* No code is ever queued twice, for any allocator that hands a code out once:
\* the first-occurrence rule of insertPendingBatch
\* (postgres-link-store.ts:206-213) never drops an entry.
THEOREM CodesQueuedOnce == Spec => []QueueCodesDistinct
<1>1. LossInv => QueueCodesDistinct
  BY DEF LossInv, QueueInv
<1> QED
  BY <1>1, LossInvCorrect, PTL

\* COMPLETE_SYNC (link-sync-worker.ts:62-106) takes an entry off the queue only
\* when PostgreSQL has its target under its code or the same step files a
\* dead letter for it, whoever held the lock in between.
THEOREM EntriesLeave == Spec => EntriesLeaveAfterCommit
<1>1. TypeInv /\ HolderSeesHead /\ LossInv /\ [Next]_vars
        => [\A l \in Range(queue) \ Range(queue') : Durable(l) \/ DeadLettered(l)']_vars
  BY EntriesLeaveStep DEF LossInv
<1> QED
  BY <1>1, TypeCorrect, HoldersSeeHead, LossInvCorrect, PTL DEF Spec, EntriesLeaveAfterCommit

\* A link whose creation was answered with 201 (app.ts) is in PostgreSQL, in
\* the queue or in the dead letters, unless the dead-letter list has been
\* filled to its cap: no crash, lock expiry, lost answer or interleaving of
\* requests and workers loses it.
THEOREM NothingAckedIsLost == Spec => []NoAckedLinkLost
<1>1. LossInv => NoAckedLinkLost
  BY DEF LossInv
<1> QED
  BY <1>1, LossInvCorrect, PTL

-----------------------------------------------------------------------------
(***************************************************************************)
(* 3. THE PATH IMPLEMENTS THE LEDGER                                       *)
(*                                                                         *)
(* Conflicts are of entries that were peeked; every step is one of the     *)
(* ledger or none.                                                         *)
(***************************************************************************)
-----------------------------------------------------------------------------
(***************************************************************************)
(* Conflicts are of entries that were peeked                               *)
(***************************************************************************)
ConflictInvOf(w) ==
    /\ wpc[w] = "complete" => conflicts[w] \subseteq Range(raw[w])
    /\ wpc[w] # "complete" => conflicts[w] = {}

ConflictInv == \A w \in Workers : ConflictInvOf(w)

\* A batch consists of entries that were peeked.
LEMMA BatchInRaw ==
  ASSUME NEW w \in Workers
  PROVE  Batch(w) \subseteq Range(raw[w])
  BY DEF Batch, FirstOccurrences, Range

\* A worker files as conflicts only entries it peeked.
LEMMA ConflictInvStep ==
  ASSUME TypeInv, ConflictInv, [Next]_vars
  PROVE  ConflictInv'
<1> USE DEF TypeInv, TypeOK
<1> SUFFICES ASSUME NEW v \in Workers PROVE ConflictInvOf(v)'
  BY DEF ConflictInv
<1>0. ConflictInvOf(v)
  BY DEF ConflictInv
<1>1. CASE wpc'[v] = wpc[v] /\ raw'[v] = raw[v] /\ conflicts'[v] = conflicts[v]
  BY <1>0, <1>1 DEF ConflictInvOf
<1>2. CASE UNCHANGED workerVars
  BY <1>1, <1>2 DEF workerVars
<1>3. ASSUME NEW w \in Workers, WorkerStep(w) \/ WorkerFault(w), w # v
      PROVE  ConflictInvOf(v)'
  <2>1. wpc'[v] = wpc[v] /\ raw'[v] = raw[v] /\ conflicts'[v] = conflicts[v]
    BY <1>3
       DEF WorkerStep, WorkerFault, SyncShard, Acquire, AcquireFails, Peek, Insert, Lookup,
           InsertUnacked, AwaitFails, Complete, CompleteUnacked, Release, ReleaseFails, Crash,
           Return, ToRelease, Discard, Goto, WorkerTypeOK
  <2> QED
    BY <1>1, <2>1
<1>4. CASE Lookup(v)
  <2>1. conflicts'[v] \subseteq Batch(v) /\ raw'[v] = raw[v] /\ wpc'[v] = "complete"
    BY <1>4 DEF Lookup, Goto, WorkerTypeOK
  <2> QED
    BY <2>1, BatchInRaw DEF ConflictInvOf
<1>5. CASE Insert(v) \/ SyncShard(v) \/ (Peek(v) /\ queue # <<>>) \/ (Acquire(v) /\ lock = Nil)
  <2>1. wpc[v] # "complete" /\ conflicts' = conflicts
    BY <1>5 DEF Insert, SyncShard, Peek, Acquire
  <2>2. conflicts'[v] = {}
    BY <1>0, <2>1 DEF ConflictInvOf
  <2> QED
    BY <2>2 DEF ConflictInvOf
<1>6. CASE /\ WorkerStep(v) \/ WorkerFault(v)
           /\ ~(Insert(v) \/ Lookup(v) \/ SyncShard(v))
           /\ ~(Peek(v) /\ queue # <<>>) /\ ~(Acquire(v) /\ lock = Nil)
  <2>1. Discard(v)
    BY <1>6
       DEF WorkerStep, WorkerFault, Acquire, AcquireFails, Peek, InsertUnacked, AwaitFails,
           Complete, CompleteUnacked, Release, ReleaseFails, Crash, Return, ToRelease
  <2>2. conflicts'[v] = {}
    BY <2>1 DEF Discard, WorkerTypeOK
  <2> QED
    BY <2>2 DEF ConflictInvOf
<1>7. CASE ~UNCHANGED workerVars
  BY <1>3, <1>4, <1>5, <1>6, <1>7, StepOfOneActor DEF StoreStep, ExpireLock, vars
<1> QED
  BY <1>2, <1>7

\* That holds throughout.
LEMMA ConflictInvCorrect == Spec => []ConflictInv
<1>1. Init => ConflictInv
  BY DEF Init, WorkerInit, ConflictInv, ConflictInvOf
<1>2. TypeInv /\ ConflictInv /\ [Next]_vars => ConflictInv'
  BY ConflictInvStep
<1> QED
  BY <1>1, <1>2, TypeCorrect, PTL DEF Spec

-----------------------------------------------------------------------------
(***************************************************************************)
(* Steps of the workers and the stores                                     *)
(***************************************************************************)
\* A row is written once, under its own code.
RowsWritten == \A c \in Codes : links'[c] = links[c] \/ (links[c] = Nil /\ links'[c].code = c)

\* The INSERT of a batch only adds rows, each under its own code.
LEMMA InsertRowsWrites ==
  ASSUME NEW b, InsertRows(b)
  PROVE  RowsWritten
<1> SUFFICES ASSUME NEW c \in Codes
             PROVE  links'[c] = links[c] \/ (links[c] = Nil /\ links'[c].code = c)
  BY DEF RowsWritten
<1>1. CASE \E l \in Inserted(b) : l.code = c
  <2> DEFINE m == CHOOSE l \in Inserted(b) : l.code = c
  <2>1. m \in Inserted(b) /\ m.code = c
    BY <1>1
  <2>2. links'[c] = m
    BY <1>1 DEF InsertRows
  <2> HIDE DEF m
  <2> QED
    BY <2>1, <2>2 DEF Inserted
<1>2. CASE ~\E l \in Inserted(b) : l.code = c
  BY <1>2 DEF InsertRows
<1> QED
  BY <1>1, <1>2

\* A step of a worker either leaves the rows alone or the queue and the letters.
LEMMA StoreStepLinks ==
  ASSUME StoreStep
  PROVE  \/ UNCHANGED links
         \/ RowsWritten /\ UNCHANGED <<queue, dead>>
<1>1. \/ UNCHANGED links
      \/ \E w \in Workers : InsertRows(Batch(w)) /\ UNCHANGED <<queue, dead>>
  BY DEF StoreStep, ExpireLock, WorkerStep, WorkerFault, SyncShard, Acquire, AcquireFails, Peek,
         Insert, Lookup, InsertUnacked, AwaitFails, Complete, CompleteUnacked, Release,
         ReleaseFails, Crash, redisVars
<1> QED
  BY <1>1, InsertRowsWrites

\* The entries of a trimmed queue are those that were not at its head.
LEMMA SuffixRange ==
  ASSUME NEW S, NEW s \in Seq(S), NEW n \in Nat
  PROVE  Range(SubSeq(s, n + 1, Len(s))) \subseteq Range(s)
<1> DEFINE t == SubSeq(s, n + 1, Len(s))
<1> SUFFICES ASSUME NEW i \in DOMAIN t PROVE t[i] \in Range(s)
  BY DEF Range
<1>1. n + i \in DOMAIN s /\ t[i] = s[n + i]
  OBVIOUS
<1> QED
  BY <1>1 DEF Range

\* COMPLETE_SYNC settles what the worker handled.
LEMMA SettleStep ==
  ASSUME TypeInv, HolderSeesHead, LossInv, ConflictInv, [Next]_vars,
         StoreStep, UNCHANGED clientVars, UNCHANGED links
  PROVE  [Ledger!Next]_(Ledger!ledgerVars)
<1>0. Acked' = Acked
  BY DEF Acked, clientVars, requestVars
<1>1. CASE UNCHANGED <<queue, dead>>
  BY <1>0, <1>1 DEF Ledger!ledgerVars, Range
<1>2. ASSUME NEW w \in Workers, wpc[w] = "complete", lock = token[w],
             queue' = SubSeq(queue, Len(raw[w]) + 1, Len(queue)), PushDeadLetters(Letters(w))
      PROVE  Ledger!Settle
  <2>1. queue \in Seq(PendingLink) /\ raw[w] \in Seq(PendingLink) /\ Len(raw[w]) \in Nat
    BY DEF TypeInv, TypeOK, RedisTypeOK, WorkerTypeOK
  <2>2. Range(queue') \subseteq Range(queue)
    BY <1>2, <2>1, SuffixRange
  <2>3. \A l \in Range(queue) \ Range(queue') : Durable(l) \/ DeadLettered(l)'
    BY EntriesLeaveStep DEF LossInv
  <2>4. ASSUME NEW letter \in dead' \ dead PROVE letter.link \in Range(queue)
    <3>1. letter \in Letters(w)
      BY <1>2 DEF PushDeadLetters
    <3>2. letter.link \in Range(raw[w])
      BY <1>2, <3>1 DEF Letters, ConflictInv, ConflictInvOf
    <3>3. PICK i \in 1..Len(raw[w]) : letter.link = raw[w][i]
      BY <2>1, <3>2 DEF Range
    <3>4. i \in DOMAIN queue /\ queue[i] = raw[w][i]
      BY <1>2, <2>1 DEF HolderSeesHead
    <3> QED
      BY <3>3, <3>4 DEF Range
  <2>5. dead \subseteq dead' \/ Full'
    BY DeadStep DEF LossInv
  <2>6. ASSUME NEW l \in Range(queue) \ Range(queue')
        PROVE  Ledger!Kept(l) \/ Ledger!SetAside(l)'
    BY <2>3, <2>6 DEF Ledger!Kept, Ledger!SetAside, Durable, DeadLettered
  <2>7. dead \subseteq dead' \/ Cardinality(dead') >= DeadCap
    BY <2>5 DEF Full
  <2>8. Ledger!Cardinality(dead') = Cardinality(dead')
    BY DEF Ledger!Cardinality, Cardinality
  <2> QED
    BY <1>0, <2>2, <2>4, <2>6, <2>7, <2>8 DEF Ledger!Settle
<1> QED
  BY <1>1, <1>2, StoreStepQueue DEF Ledger!Next

-----------------------------------------------------------------------------
(***************************************************************************)
(* Steps of the requests                                                   *)
(***************************************************************************)
\* Only an Enqueue or a CacheLink acknowledges.
LEMMA AckedKept ==
  ASSUME TypeInv, NEW r \in Requests, RequestStep(r) \/ RequestFault(r), rpc'[r] # "acked"
  PROVE  Acked' = Acked
<1>1. rpc[r] # "acked"
  BY DEF RequestStep, RequestFault, Submit, Generate, Enqueue, CheckAlias, InsertLink,
         InsertLinkRefused, CacheLink, GenerateFails, EnqueueFails, CheckAliasFails,
         InsertLinkFails
<1>2. \A s \in Requests : s # r => rpc'[s] = rpc[s] /\ rlink'[s] = rlink[s]
  BY DEF RequestStep, RequestFault, Submit, Generate, Enqueue, CheckAlias, InsertLink,
         InsertLinkRefused, CacheLink, GenerateFails, EnqueueFails, CheckAliasFails,
         InsertLinkFails, GotoR, NullResult, EnqueueOutcome, RequestTypeOK, TypeInv, TypeOK
<1> QED
  BY <1>1, <1>2 DEF Acked

\* An answer adds its link to the acknowledged ones.
LEMMA AckedGrows ==
  ASSUME TypeInv, NEW r \in Requests, RequestStep(r) \/ RequestFault(r), rpc'[r] = "acked"
  PROVE  Acked' = Acked \union {rlink'[r]}
<1>1. rpc[r] # "acked"
  BY DEF RequestStep, RequestFault, Submit, Generate, Enqueue, CheckAlias, InsertLink,
         InsertLinkRefused, CacheLink, GenerateFails, EnqueueFails, CheckAliasFails,
         InsertLinkFails
<1>2. \A s \in Requests : s # r => rpc'[s] = rpc[s] /\ rlink'[s] = rlink[s]
  BY DEF RequestStep, RequestFault, Submit, Generate, Enqueue, CheckAlias, InsertLink,
         InsertLinkRefused, CacheLink, GenerateFails, EnqueueFails, CheckAliasFails,
         InsertLinkFails, GotoR, NullResult, EnqueueOutcome, RequestTypeOK, TypeInv, TypeOK
<1> QED
  BY <1>1, <1>2 DEF Acked

\* The entries of a longer queue.
LEMMA AppendRange ==
  ASSUME NEW S, NEW s \in Seq(S), NEW l \in S
  PROVE  Range(Append(s, l)) = Range(s) \union {l}
<1> DEFINE t == Append(s, l)
<1>1. /\ DOMAIN t = 1..(Len(s) + 1) /\ DOMAIN s = 1..Len(s)
      /\ t[Len(s) + 1] = l /\ \A i \in 1..Len(s) : t[i] = s[i]
  OBVIOUS
<1> HIDE DEF t
<1>2. Range(t) \subseteq Range(s) \union {l}
  BY <1>1 DEF Range
<1>3. Range(s) \union {l} \subseteq Range(t)
  BY <1>1 DEF Range
<1> QED
  BY <1>2, <1>3 DEF t

\* An append under a code that is not queued is an Accept.
LEMMA AcceptStep ==
  ASSUME TypeInv, QueueInv, NEW r \in Requests, rpc[r] = "enqueue",
         NEW l \in PendingLink, l.code = code[r], queue' = Append(queue, l),
         Acked' \in {Acked, Acked \union {l}}, UNCHANGED <<links, dead>>
  PROVE  Ledger!Accept(l)
<1>1. queue \in Seq(PendingLink)
  BY DEF TypeInv, TypeOK, RedisTypeOK
<1>2. Range(queue') = Range(queue) \union {l}
  BY <1>1, AppendRange
<1>3. \A m \in Range(queue) : m.code # l.code
  BY <1>1 DEF QueueInv, Range
<1> QED
  BY <1>2, <1>3 DEF Ledger!Accept

\* A step of a request is one of the ledger, or none.
LEMMA RequestLedgerStep ==
  ASSUME TypeInv, LossInv, NEW r \in Requests, RequestStep(r) \/ RequestFault(r), dead' = dead
  PROVE  [Ledger!Next]_(Ledger!ledgerVars)
<1> USE DEF TypeInv, TypeOK
<1>1. CASE Enqueue(r) \/ EnqueueFails(r)
  <2>1. /\ rpc[r] = "enqueue" /\ body[r] \in Body /\ code[r] \in Codes
        /\ UNCHANGED links
    BY <1>1 DEF Enqueue, EnqueueFails, RequestInv
  <2>2. CASE queue' = queue /\ rpc'[r] # "acked"
    BY <2>1, <2>2, AckedKept DEF Ledger!ledgerVars, Range
  <2>3. ASSUME NEW now \in Instants, EnqueueLink(LinkOf(r, now)), queue' # queue,
               rpc'[r] = "acked" => rlink'[r] = LinkOf(r, now)
        PROVE  Ledger!Next
    <3> DEFINE l == LinkOf(r, now)
    <3>1. l \in PendingLink /\ l.code = code[r]
      BY <2>1, LinkOfType DEF LinkOf
    <3>2. queue' = Append(queue, l)
      BY <2>3 DEF EnqueueLink
    <3> HIDE DEF l
    <3>3. Acked' \in {Acked, Acked \union {l}}
      BY <2>3, AckedKept, AckedGrows DEF l
    <3>4. Ledger!Accept(l)
      BY <2>1, <3>1, <3>2, <3>3, AcceptStep DEF LossInv
    <3> QED
      BY <3>1, <3>4 DEF Ledger!Next
  <2>4. CASE EnqueueFails(r)
    <3>1. rpc'[r] # "acked"
      BY <2>4 DEF EnqueueFails, GotoR, RequestTypeOK
    <3>2. (\E now \in Instants : EnqueueLink(LinkOf(r, now))) \/ queue' = queue
      BY <2>4 DEF EnqueueFails
    <3> QED
      BY <2>2, <2>3, <3>1, <3>2
  <2>5. CASE Enqueue(r)
    <3>1. PICK now \in Instants :
            LET l == LinkOf(r, now)
            IN  /\ EnqueueLink(l)
                /\ CASE EnqueueOutcome(l) = "queued" ->
                          GotoR(r, "acked") /\ rlink' = [rlink EXCEPT ![r] = l]
                     [] EnqueueOutcome(l) = "exists" -> NullResult(r) /\ UNCHANGED rlink
                     [] EnqueueOutcome(l) = "full" -> GotoR(r, "insert") /\ UNCHANGED rlink
      BY <2>5 DEF Enqueue
    <3> DEFINE l == LinkOf(r, now)
    <3>2. CASE EnqueueOutcome(l) = "queued"
      <4>1. queue' = Append(queue, l) /\ rlink' = [rlink EXCEPT ![r] = l]
        BY <3>1, <3>2 DEF EnqueueLink
      <4>2. queue \in Seq(PendingLink) /\ l \in PendingLink
        BY <2>1, LinkOfType DEF RedisTypeOK
      <4> HIDE DEF l
      <4>3. Len(queue') = Len(queue) + 1 /\ Len(queue) \in Nat
        BY <4>1, <4>2
      <4>4. queue' # queue /\ rlink'[r] = l
        BY <4>1, <4>3 DEF RequestTypeOK
      <4> QED
        BY <2>3, <3>1, <4>4 DEF l
    <3>3. CASE EnqueueOutcome(l) = "exists"
      <4>1. NullResult(r) /\ queue' = queue
        BY <3>1, <3>3 DEF EnqueueLink
      <4> QED
        BY <2>2, <4>1 DEF NullResult, GotoR, RequestTypeOK
    <3>4. CASE EnqueueOutcome(l) = "full"
      <4>1. GotoR(r, "insert") /\ queue' = queue
        BY <3>1, <3>4 DEF EnqueueLink
      <4> QED
        BY <2>2, <4>1 DEF GotoR, RequestTypeOK
    <3> QED
      BY <3>2, <3>3, <3>4 DEF EnqueueOutcome
  <2> QED
    BY <1>1, <2>4, <2>5
<1>2. CASE CacheLink(r)
  <2>1. rpc[r] = "cache" /\ rpc'[r] = "acked" /\ rlink' = rlink /\ UNCHANGED <<links, queue>>
    BY <1>2 DEF CacheLink, GotoR, RequestTypeOK
  <2>2. PICK l \in PendingLink : l = rlink[r] /\ Durable(l)
    BY <2>1 DEF LossInv, RowInv, RequestInv
  <2>3. Acked' = Acked \union {l}
    BY <2>1, <2>2, AckedGrows
  <2>4. Ledger!Acknowledge(l)
    BY <2>1, <2>2, <2>3 DEF Ledger!Acknowledge, Ledger!Kept, Durable, Range
  <2> QED
    BY <2>4 DEF Ledger!Next
<1>3. CASE InsertLink(r) \/ InsertLinkFails(r)
  <2>1. body[r] \in Body /\ code[r] \in Codes /\ queue' = queue
    BY <1>3 DEF InsertLink, InsertLinkFails, RequestInv, redisVars
  <2>2. (\E now \in Instants : InsertRow(LinkOf(r, now))) \/ UNCHANGED links
    BY <1>3 DEF InsertLink, InsertLinkFails
  <2>3. ASSUME NEW now \in Instants, InsertRow(LinkOf(r, now)) PROVE RowsWritten
    BY <2>1, <2>3, LinkOfType DEF RowsWritten, InsertRow, PostgresTypeOK, LinkOf
  <2>4. RowsWritten
    BY <2>2, <2>3 DEF RowsWritten
  <2>5. rpc'[r] # "acked"
    BY <1>3 DEF InsertLink, InsertLinkFails, NullResult, GotoR, RequestTypeOK
  <2>6. Ledger!Write
    BY <2>1, <2>4, <2>5, AckedKept DEF Ledger!Write, RowsWritten, Range
  <2> QED
    BY <2>6 DEF Ledger!Next
<1>4. CASE /\ ~(Enqueue(r) \/ EnqueueFails(r)) /\ ~CacheLink(r)
           /\ ~(InsertLink(r) \/ InsertLinkFails(r))
  <2>1. UNCHANGED <<links, queue>> /\ \E x \in RequestStates \ {"acked"} : GotoR(r, x)
    BY <1>4
       DEF RequestStep, RequestFault, Submit, Generate, CheckAlias, InsertLinkRefused,
           GenerateFails, CheckAliasFails, NullResult, RequestStates, redisVars
  <2>2. rpc'[r] # "acked"
    BY <2>1 DEF GotoR, RequestTypeOK
  <2> QED
    BY <2>1, <2>2, AckedKept DEF Ledger!ledgerVars, Range
<1> QED
  BY <1>1, <1>2, <1>3, <1>4

-----------------------------------------------------------------------------
\* Every step is one of the ledger, or none.
LEMMA LedgerStep ==
  ASSUME TypeInv, HolderSeesHead, LossInv, ConflictInv, [Next]_vars
  PROVE  [Ledger!Next]_(Ledger!ledgerVars)
<1>1. ASSUME UNCHANGED <<links, queue, dead, requestVars>>
      PROVE  UNCHANGED Ledger!ledgerVars
  BY <1>1 DEF Ledger!ledgerVars, Acked, requestVars, Range
<1>2. CASE UNCHANGED vars
  BY <1>1, <1>2 DEF vars, redisVars, clientVars
<1>3. CASE StoreStep /\ UNCHANGED clientVars
  <2>1. CASE UNCHANGED links
    BY <1>3, <2>1, SettleStep
  <2>2. CASE RowsWritten /\ UNCHANGED <<queue, dead>>
    <3>1. Ledger!Write
      BY <1>3, <2>2 DEF Ledger!Write, RowsWritten, Acked, clientVars, requestVars, Range
    <3> QED
      BY <3>1 DEF Ledger!Next
  <2> QED
    BY <1>3, <2>1, <2>2, StoreStepLinks
<1>4. CASE ClientStep
  <2>1. dead' = dead
    BY <1>4, ClientsKeepDead
  <2>2. ASSUME NEW r \in Requests, RequestStep(r) \/ RequestFault(r)
        PROVE  [Ledger!Next]_(Ledger!ledgerVars)
    BY <2>1, <2>2, RequestLedgerStep
  <2>3. ASSUME NEW d \in Readers, ReaderStep(d) \/ ReaderFault(d), UNCHANGED requestVars
        PROVE  UNCHANGED Ledger!ledgerVars
    BY <1>1, <2>1, <2>3
       DEF ReaderStep, ReaderFault, ReadMiss, ReadExpired, Purge, FindRow, CacheRow, redisVars
  <2>4. ASSUME (ClockPasses /\ UNCHANGED requestVars)
                 \/ ((\E c \in Codes : Vanish(c)) /\ UNCHANGED <<links, clientVars>>)
        PROVE  UNCHANGED Ledger!ledgerVars
    BY <1>1, <2>1, <2>4 DEF ClockPasses, Vanish, redisVars, clientVars
  <2> QED
    BY <1>4, <2>2, <2>3, <2>4 DEF ClientStep
<1> QED
  BY <1>2, <1>3, <1>4, StepOfOneActor

\* The write-behind path (write-behind-link-store.ts, link-sync-worker.ts,
\* postgres-link-store.ts) implements the ledger, whatever its constants: an
\* acknowledged link is queued or has its row, a row is written once, and an
\* entry leaves the queue only for its row or the dead letters.
THEOREM Refinement == Spec => ImplementsLedger
<1>1. Init => Ledger!Init
  BY EmptySeq DEF Init, PostgresInit, RedisInit, RequestInit, Ledger!Init, Acked, Range
<1>2. TypeInv /\ HolderSeesHead /\ LossInv /\ ConflictInv /\ [Next]_vars
        => [Ledger!Next]_(Ledger!ledgerVars)
  BY LedgerStep
<1> QED
  BY <1>1, <1>2, TypeCorrect, HoldersSeeHead, LossInvCorrect, ConflictInvCorrect, PTL
     DEF Spec, ImplementsLedger, Ledger!Spec

-----------------------------------------------------------------------------
(***************************************************************************)
(* 4. WHAT REDIS SHOWS OF A LINK                                           *)
(*                                                                         *)
(* A hash that is not pending repeats the row, a pending mark has its      *)
(* queue entry, a queued link can be resolved, and a code has one owner.   *)
(***************************************************************************)
\* A row is stored under its own code, and a redirect fills the cache with a
\* row that PostgreSQL has.
RowCodes == \A c \in Codes : links[c] # Nil => links[c].code = c

FillInv == \A d \in Readers : fpc[d] = "cache" => Durable(flink[d])

\* What insertPendingBatch reported persisted is: each code is that of an
\* entry whose target the row has; every entry is reported one way or other.
HandledInvOf(w) ==
    /\ wpc[w] \in {"lookup", "complete"} =>
          \A c \in persisted[w] : \E l \in Batch(w) : l.code = c /\ Durable(l)
    /\ wpc[w] = "complete" => \A l \in Batch(w) : l.code \in persisted[w] \/ l \in conflicts[w]

HandledInv == \A w \in Workers : HandledInvOf(w)

\* A pending hash shows the target its queue entry will give the row, unless
\* a fill has put the target of an existing row there.
Backed(c, target) == links[c] # Nil /\ links[c].target = target

PendingTargets ==
    \A c \in Codes : (hash[c] # Nil /\ hash[c].pending) =>
        \A i \in 1..Len(queue) : queue[i].code = c =>
            queue[i].target = hash[c].target \/ Backed(c, hash[c].target)

CacheInv == RowCodes /\ FillInv /\ HandledInv /\ PendingTargets /\ CacheCoherent

-----------------------------------------------------------------------------
(***************************************************************************)
(* Rows                                                                    *)
(***************************************************************************)
LEMMA RowsWrittenStep ==
  ASSUME TypeInv, [Next]_vars
  PROVE  RowsWritten
<1> USE DEF TypeInv, TypeOK
<1>0. ASSUME UNCHANGED links PROVE RowsWritten
  BY <1>0 DEF RowsWritten
<1>1. CASE UNCHANGED vars
  BY <1>0, <1>1 DEF vars
<1>2. CASE ClientStep
  <2>1. ASSUME NEW r \in Requests, InsertLink(r) \/ InsertLinkFails(r)
        PROVE  RowsWritten
    <3>1. body[r] \in Body /\ code[r] \in Codes
      BY <2>1 DEF InsertLink, InsertLinkFails, RequestInv
    <3>2. (\E now \in Instants : InsertRow(LinkOf(r, now))) \/ UNCHANGED links
      BY <2>1 DEF InsertLink, InsertLinkFails
    <3>3. ASSUME NEW l \in PendingLink, InsertRow(l) PROVE RowsWritten
      BY <3>3 DEF RowsWritten, InsertRow, PostgresTypeOK, PendingLink
    <3> QED
      BY <1>0, <3>1, <3>2, <3>3, LinkOfType
  <2>2. UNCHANGED links \/ \E r \in Requests : InsertLink(r) \/ InsertLinkFails(r)
    BY <1>2
       DEF ClientStep, RequestStep, RequestFault, Submit, Generate, Enqueue, CheckAlias,
           InsertLinkRefused, CacheLink, GenerateFails, EnqueueFails, CheckAliasFails, ReaderStep,
           ReaderFault, ReadMiss, ReadExpired, Purge, FindRow, CacheRow, ClockPasses
  <2> QED
    BY <1>0, <2>1, <2>2
<1>3. CASE StoreStep
  BY <1>0, <1>3, StoreStepLinks
<1> QED
  BY <1>1, <1>2, <1>3, StepOfOneActor

\* A row stays under its own code.
LEMMA RowCodesStep ==
  ASSUME TypeInv, RowCodes, [Next]_vars
  PROVE  RowCodes'
  BY RowsWrittenStep DEF RowCodes, RowsWritten

\* What a redirect is about to cache stays a row.
LEMMA FillInvStep ==
  ASSUME TypeInv, RowCodes, FillInv, [Next]_vars
  PROVE  FillInv'
<1> USE DEF TypeInv, TypeOK
<1> SUFFICES ASSUME NEW e \in Readers, fpc'[e] = "cache" PROVE Durable(flink[e])'
  BY DEF FillInv, Durable
<1>1. CASE fpc[e] = "cache" /\ flink'[e] = flink[e]
  <2>1. PICK l \in PendingLink : l = flink[e] /\ Durable(l)
    BY <1>1 DEF FillInv, ReaderInv
  <2>2. Durable(l)'
    BY <2>1, RowsKeptStep, DurableKept
  <2> QED
    BY <1>1, <2>1, <2>2 DEF Durable
<1>2. CASE UNCHANGED readerVars
  BY <1>1, <1>2 DEF readerVars
<1>3. ASSUME NEW d \in Readers, ReaderStep(d) \/ ReaderFault(d)
      PROVE  Durable(flink[e])'
  <2>1. CASE d # e
    <3>1. fpc'[e] = fpc[e] /\ flink'[e] = flink[e]
      BY <1>3, <2>1 DEF ReaderStep, ReaderFault, ReadMiss, ReadExpired, Purge, FindRow, CacheRow,
                        FinishRead, ReaderTypeOK
    <3> QED
      BY <1>1, <3>1
  <2>2. CASE d = e /\ FindRow(d)
    <3>1. links' = links /\ flink'[e] = links[fcode[e]] /\ links[fcode[e]] # Nil
          /\ fcode[e] \in Codes
      BY <2>2 DEF FindRow, FinishRead, ReaderTypeOK, ReaderInv
    <3>2. links[fcode[e]].code = fcode[e]
      BY <3>1 DEF RowCodes
    <3> QED
      BY <3>1, <3>2 DEF Durable
  <2>3. CASE d = e /\ ~FindRow(d)
    <3>1. fpc'[e] # "cache"
      BY <1>3, <2>3 DEF ReaderStep, ReaderFault, ReadMiss, ReadExpired, Purge, CacheRow,
                        FinishRead, ReaderTypeOK
    <3> QED
      BY <3>1
  <2> QED
    BY <2>1, <2>2, <2>3
<1>4. ASSUME NEW r \in Requests, RequestStep(r) \/ RequestFault(r)
      PROVE  UNCHANGED readerVars
  BY <1>4, RequestTypes
<1> QED
  BY <1>2, <1>3, <1>4, StepOfOneActor DEF ClientStep, ClockPasses, clientVars, vars

-----------------------------------------------------------------------------
(***************************************************************************)
(* Batches                                                                 *)
(***************************************************************************)
LEMMA HandledInvKept ==
  ASSUME TypeInv, NEW w \in Workers, HandledInvOf(w), RowsKept, raw'[w] = raw[w],
         wpc'[w] = wpc[w], persisted'[w] = persisted[w], conflicts'[w] = conflicts[w]
  PROVE  HandledInvOf(w)'
<1>1. Batch(w)' = Batch(w)
  BY DEF Batch, FirstOccurrences
<1>2. Batch(w) \subseteq PendingLink
  BY BatchType DEF TypeInv, TypeOK
<1>3. \A l \in Batch(w) : Durable(l) => Durable(l)'
  BY <1>2, DurableKept
<1> QED
  BY <1>1, <1>3 DEF HandledInvOf

\* What was reported persisted stays in PostgreSQL.
LEMMA HandledInvStep ==
  ASSUME TypeInv, ConflictInv, HandledInv, [Next]_vars
  PROVE  HandledInv'
<1> USE DEF TypeInv, TypeOK
<1> SUFFICES ASSUME NEW v \in Workers PROVE HandledInvOf(v)'
  BY DEF HandledInv
<1>0. RowsKept /\ HandledInvOf(v)
  BY RowsKeptStep DEF HandledInv
<1>1. CASE UNCHANGED workerVars
  BY <1>0, <1>1, HandledInvKept DEF workerVars
<1>2. ASSUME NEW w \in Workers, WorkerStep(w) \/ WorkerFault(w), w # v
      PROVE  HandledInvOf(v)'
  <2>1. /\ raw'[v] = raw[v] /\ wpc'[v] = wpc[v]
        /\ persisted'[v] = persisted[v] /\ conflicts'[v] = conflicts[v]
    BY <1>2
       DEF WorkerStep, WorkerFault, SyncShard, Acquire, AcquireFails, Peek, Insert, Lookup,
           InsertUnacked, AwaitFails, Complete, CompleteUnacked, Release, ReleaseFails, Crash,
           Return, ToRelease, Discard, Goto, WorkerTypeOK
  <2> QED
    BY <1>0, <2>1, HandledInvKept
<1>3. CASE Insert(v)
  <2>1. raw[v] \in Seq(PendingLink) /\ raw' = raw /\ Batch(v)' = Batch(v)
    BY <1>3 DEF Insert, Batch, FirstOccurrences, WorkerTypeOK
  <2>2. \A l \in Inserted(Batch(v)) : Durable(l)'
    BY <1>3, <2>1, InsertedDurable DEF Insert, Batch
  <2>3. persisted'[v] = {l.code : l \in Inserted(Batch(v))}
    BY <1>3 DEF Insert, WorkerTypeOK
  <2>4. wpc'[v] = IF Inserted(Batch(v)) = Batch(v) THEN "complete" ELSE "lookup"
    BY <1>3 DEF Insert, Goto, WorkerTypeOK
  <2>5. Inserted(Batch(v)) \subseteq Batch(v)
    BY DEF Inserted
  <2>6. ASSUME NEW c \in persisted'[v]
        PROVE  \E l \in Batch(v) : l.code = c /\ Durable(l)'
    BY <2>2, <2>3, <2>5
  <2>7. ASSUME wpc'[v] = "complete", NEW l \in Batch(v) PROVE l.code \in persisted'[v]
    BY <2>3, <2>4, <2>7
  <2> QED
    BY <2>1, <2>6, <2>7 DEF HandledInvOf
<1>4. CASE Lookup(v)
  <2> DEFINE rest == {l \in Batch(v) : l.code \notin persisted[v]}
             replays == {l \in rest : IsReplay(l)}
  <2>1. /\ raw' = raw /\ Batch(v)' = Batch(v) /\ links' = links /\ wpc[v] = "lookup"
        /\ wpc'[v] = "complete"
    BY <1>4 DEF Lookup, Goto, Batch, FirstOccurrences, WorkerTypeOK
  <2>2. /\ conflicts'[v] = rest \ replays
        /\ persisted'[v] = persisted[v] \union {l.code : l \in replays}
    BY <1>4 DEF Lookup, WorkerTypeOK
  <2>3. ASSUME NEW c \in persisted'[v]
        PROVE  \E l \in Batch(v) : l.code = c /\ Durable(l)'
    <3>1. CASE c \in persisted[v]
      BY <1>0, <2>1, <3>1 DEF HandledInvOf, Durable
    <3>2. CASE \E l \in replays : l.code = c
      BY <2>1, <3>2 DEF IsReplay, Durable
    <3> QED
      BY <2>2, <3>1, <3>2
  <2>4. ASSUME NEW l \in Batch(v) PROVE l.code \in persisted'[v] \/ l \in conflicts'[v]
    BY <2>2
  <2> HIDE DEF rest, replays
  <2> QED
    BY <2>1, <2>3, <2>4 DEF HandledInvOf
<1>5. CASE /\ WorkerStep(v) \/ WorkerFault(v)
           /\ ~(Insert(v) \/ Lookup(v))
  <2>1. \E x \in {"idle", "release", "acquire", "peek", "insert"} : Goto(v, x)
    BY <1>5
       DEF WorkerStep, WorkerFault, SyncShard, Acquire, AcquireFails, Peek, InsertUnacked,
           AwaitFails, Complete, CompleteUnacked, Release, ReleaseFails, Crash, Return, ToRelease
  <2>2. wpc'[v] \notin {"lookup", "complete"}
    BY <2>1 DEF Goto, WorkerTypeOK
  <2> QED
    BY <2>2 DEF HandledInvOf
<1>6. CASE ~UNCHANGED workerVars
  BY <1>2, <1>3, <1>4, <1>5, <1>6, StepOfOneActor DEF StoreStep, ExpireLock, vars
<1> QED
  BY <1>1, <1>6

-----------------------------------------------------------------------------
(***************************************************************************)
(* What a step may do to the hashes and the queue                          *)
(***************************************************************************)
Queues ==
    \E r \in Requests, now \in Instants :
        /\ rpc[r] = "enqueue"
        /\ EnqueueOutcome(LinkOf(r, now)) = "queued"
        /\ EnqueueLink(LinkOf(r, now))
        /\ GotoR(r, "acked") \/ GotoR(r, "insert")
        /\ UNCHANGED <<body, code, issued, links, readerVars>>

Fills == \E l \in PendingLink : Durable(l) /\ CacheHash(l) /\ queue' = queue

Deletes ==
    \E c \in Codes :
        /\ DeleteHash(c) /\ queue' = queue
        /\ \/ links[c] # Nil
           \/ hash[c] # Nil /\ hash[c].ttl
           \/ \E d \in Readers : fpc[d] = "purge" /\ fcode[d] = c

Completes ==
    \E w \in Workers :
        /\ wpc[w] = "complete" /\ lock = token[w]
        /\ CompleteSync(Len(raw[w]), persisted[w], {l.code : l \in conflicts[w]}, Letters(w))

HashStep == UNCHANGED <<hash, queue>> \/ Queues \/ Fills \/ Deletes \/ Completes

\* Every step does to hashes and queue one of the things HashStep lists.
LEMMA HashSteps ==
  ASSUME TypeInv, RowInv, FillInv, [Next]_vars
  PROVE  HashStep
<1> USE DEF TypeInv, TypeOK
<1>1. CASE UNCHANGED vars
  BY <1>1 DEF HashStep, vars, redisVars
<1>2. ASSUME NEW r \in Requests, RequestStep(r) \/ RequestFault(r)
      PROVE  HashStep
  <2>1. CASE Enqueue(r) \/ EnqueueFails(r)
    <3>1. rpc[r] = "enqueue" /\ UNCHANGED <<body, code, issued, links, readerVars>>
      BY <2>1 DEF Enqueue, EnqueueFails
    <3>2. \/ UNCHANGED <<hash, queue>>
          \/ \E now \in Instants :
                /\ EnqueueLink(LinkOf(r, now))
                /\ EnqueueOutcome(LinkOf(r, now)) = "queued"
                      => GotoR(r, "acked") \/ GotoR(r, "insert")
      BY <2>1 DEF Enqueue, EnqueueFails
    <3> QED
      BY <3>1, <3>2 DEF HashStep, Queues, EnqueueLink
  <2>2. CASE CacheLink(r)
    <3>1. rlink[r] \in PendingLink /\ Durable(rlink[r]) /\ queue' = queue
      BY <2>2 DEF CacheLink, RequestInv, RowInv
    <3>2. CacheHash(rlink[r]) \/ DeleteHash(rlink[r].code) \/ hash' = hash
      BY <2>2 DEF CacheLink, Cache
    <3>3. rlink[r].code \in Codes /\ links[rlink[r].code] # Nil
      BY <3>1 DEF PendingLink, Durable
    <3> QED
      BY <3>1, <3>2, <3>3 DEF HashStep, Fills, Deletes
  <2>3. CASE ~(Enqueue(r) \/ EnqueueFails(r) \/ CacheLink(r))
    BY <1>2, <2>3
       DEF RequestStep, RequestFault, Submit, Generate, CheckAlias, InsertLink, InsertLinkRefused,
           GenerateFails, CheckAliasFails, InsertLinkFails, redisVars, HashStep
  <2> QED
    BY <2>1, <2>2, <2>3
<1>3. ASSUME NEW d \in Readers, ReaderStep(d) \/ ReaderFault(d)
      PROVE  HashStep
  <2>1. CASE CacheRow(d)
    <3>1. flink[d] \in PendingLink /\ Durable(flink[d]) /\ queue' = queue
      BY <2>1 DEF CacheRow, ReaderInv, FillInv
    <3>2. CacheHash(flink[d]) \/ DeleteHash(flink[d].code) \/ hash' = hash
      BY <2>1 DEF CacheRow, Cache
    <3>3. flink[d].code \in Codes /\ links[flink[d].code] # Nil
      BY <3>1 DEF PendingLink, Durable
    <3> QED
      BY <3>1, <3>2, <3>3 DEF HashStep, Fills, Deletes
  <2>2. CASE Purge(d)
    <3>1. fcode[d] \in Codes /\ queue' = queue
      BY <2>2 DEF Purge, ReaderInv
    <3> QED
      BY <2>2, <3>1 DEF Purge, HashStep, Deletes
  <2>3. CASE ~(CacheRow(d) \/ Purge(d))
    BY <1>3, <2>3 DEF ReaderStep, ReaderFault, ReadMiss, ReadExpired, FindRow, redisVars, HashStep
  <2> QED
    BY <2>1, <2>2, <2>3
<1>4. ASSUME ClockPasses \/ \E c \in Codes : Vanish(c)
      PROVE  HashStep
  BY <1>4 DEF ClockPasses, Vanish, redisVars, HashStep, Deletes
<1>5. CASE StoreStep
  <2>1. ASSUME NEW w \in Workers, Complete(w) \/ CompleteUnacked(w) PROVE HashStep
    BY <2>1 DEF Complete, CompleteUnacked, CompleteEffect, redisVars, HashStep, Completes
  <2>2. UNCHANGED <<hash, queue>> \/ \E w \in Workers : Complete(w) \/ CompleteUnacked(w)
    BY <1>5
       DEF StoreStep, ExpireLock, WorkerStep, WorkerFault, SyncShard, Acquire, AcquireFails, Peek,
           Insert, Lookup, InsertUnacked, AwaitFails, Release, ReleaseFails, Crash, redisVars
  <2> QED
    BY <2>1, <2>2 DEF HashStep
<1> QED
  BY <1>1, <1>2, <1>3, <1>4, <1>5, StepOfOneActor DEF ClientStep

-----------------------------------------------------------------------------
(***************************************************************************)
(* The cache repeats the rows                                              *)
(***************************************************************************)
LEMMA BackedKept ==
  ASSUME RowsKept, NEW c \in Codes, NEW t, Backed(c, t)
  PROVE  Backed(c, t)'
  BY DEF RowsKept, Backed

\* When COMPLETE_SYNC clears the pending mark of a hash, its target is the row's.
LEMMA ClearedIsBacked ==
  ASSUME TypeInv, HolderSeesHead, HandledInv, PendingTargets, NEW w \in Workers,
         wpc[w] = "complete", lock = token[w], NEW c \in Codes,
         c \in persisted[w], hash[c] # Nil, hash[c].pending
  PROVE  Backed(c, hash[c].target)
<1> USE DEF TypeInv, TypeOK
<1>1. PICK l \in Batch(w) : l.code = c /\ Durable(l)
  BY DEF HandledInv, HandledInvOf
<1>2. PICK i \in 1..Len(raw[w]) : l = raw[w][i]
  BY <1>1 DEF Batch, FirstOccurrences, WorkerTypeOK
<1>3. i \in 1..Len(queue) /\ queue[i] = l
  BY <1>2 DEF HolderSeesHead, WorkerTypeOK, RedisTypeOK
<1>4. queue[i].target = hash[c].target \/ Backed(c, hash[c].target)
  BY <1>1, <1>3 DEF PendingTargets
<1> QED
  BY <1>1, <1>3, <1>4 DEF Durable, Backed

\* What COMPLETE_SYNC leaves of a hash.
LEMMA CompletedHash ==
  ASSUME TypeInv, NEW w \in Workers, NEW n, NEW p, NEW k, NEW letters,
         CompleteSync(n, p, k, letters), NEW c \in Codes, hash'[c] # Nil
  PROVE  /\ hash[c] # Nil
         /\ hash'[c].target = hash[c].target
         /\ hash'[c].pending => hash[c].pending /\ c \notin p /\ c \notin k /\ hash'[c] = hash[c]
         /\ ~hash'[c].pending => hash'[c] = hash[c] \/ (hash[c].pending /\ c \in p)
<1>1. hash'[c] = Completed(c, p, k) /\ hash[c] \in Hash \union {Nil}
  BY DEF CompleteSync, TypeInv, TypeOK, RedisTypeOK
<1>2. hash[c] # Nil /\ hash[c] \in Hash
  BY <1>1 DEF Completed
<1>3. CASE ~hash[c].pending
  BY <1>1, <1>2, <1>3 DEF Completed
<1>4. CASE hash[c].pending /\ c \in p
  <2>1. hash'[c] = [hash[c] EXCEPT !.pending = FALSE, !.ttl = TRUE]
    BY <1>1, <1>2, <1>4 DEF Completed
  <2> QED
    BY <1>2, <1>4, <2>1 DEF Hash
<1>5. CASE hash[c].pending /\ c \notin p /\ c \in k
  BY <1>1, <1>2, <1>5 DEF Completed
<1>6. CASE hash[c].pending /\ c \notin p /\ c \notin k
  BY <1>1, <1>2, <1>6 DEF Completed
<1> QED
  BY <1>3, <1>4, <1>5, <1>6

\* No step makes a hash that is not pending differ from the row.
LEMMA CacheCoherentStep ==
  ASSUME TypeInv, HolderSeesHead, LossInv, CacheInv, [Next]_vars
  PROVE  CacheCoherent'
<1> USE DEF TypeInv, TypeOK
<1> SUFFICES ASSUME NEW c \in Codes, hash'[c] # Nil, ~hash'[c].pending
             PROVE  Backed(c, hash[c].target)'
  BY DEF CacheCoherent, Backed
<1>0. RowsKept /\ hash \in [Codes -> Hash \union {Nil}]
  BY RowsKeptStep DEF RedisTypeOK
<1>1. CASE hash'[c] = hash[c]
  <2>1. Backed(c, hash[c].target)
    BY <1>1 DEF CacheInv, CacheCoherent, Backed
  <2> QED
    BY <1>0, <1>1, <2>1 DEF RowsKept, Backed
<1>2. CASE Queues
  <2>1. PICK r \in Requests, now \in Instants :
          rpc[r] = "enqueue" /\ EnqueueOutcome(LinkOf(r, now)) = "queued"
            /\ EnqueueLink(LinkOf(r, now))
    BY <1>2 DEF Queues
  <2>2. hash' = [hash EXCEPT ![code[r]] =
          [target |-> body[r].target, expires |-> body[r].expires, pending |-> TRUE,
           ttl |-> body[r].expires]]
    BY <2>1 DEF EnqueueLink, LinkOf
  <2>3. c # code[r]
    BY <1>0, <2>2
  <2> QED
    BY <1>0, <1>1, <2>2, <2>3
<1>3. CASE Fills
  <2>1. PICK l \in PendingLink : Durable(l) /\ CacheHash(l)
    BY <1>3 DEF Fills
  <2>2. CASE c = l.code
    <3>1. hash'[c].target = l.target /\ Backed(c, l.target)
      BY <1>0, <2>1, <2>2 DEF CacheHash, Durable, Backed
    <3> QED
      BY <1>0, <3>1 DEF RowsKept, Backed
  <2>3. CASE c # l.code
    BY <1>0, <1>1, <2>1, <2>3 DEF CacheHash
  <2> QED
    BY <2>2, <2>3
<1>4. CASE Deletes
  <2>1. hash'[c] = Nil \/ hash'[c] = hash[c]
    BY <1>0, <1>4 DEF Deletes, DeleteHash
  <2> QED
    BY <1>1, <2>1
<1>5. CASE Completes
  <2>1. PICK w \in Workers :
          /\ wpc[w] = "complete" /\ lock = token[w]
          /\ CompleteSync(Len(raw[w]), persisted[w], {l.code : l \in conflicts[w]}, Letters(w))
    BY <1>5 DEF Completes
  <2>2. /\ hash[c] # Nil /\ hash'[c].target = hash[c].target
        /\ hash'[c] = hash[c] \/ (hash[c].pending /\ c \in persisted[w])
    BY <2>1, CompletedHash
  <2>3. CASE hash[c].pending /\ c \in persisted[w]
    <3>1. Backed(c, hash[c].target)
      BY <2>1, <2>2, <2>3, ClearedIsBacked DEF CacheInv
    <3> QED
      BY <1>0, <2>2, <3>1 DEF RowsKept, Backed
  <2> QED
    BY <1>1, <2>2, <2>3
<1>6. CASE UNCHANGED <<hash, queue>>
  BY <1>1, <1>6
<1> QED
  BY <1>2, <1>3, <1>4, <1>5, <1>6, HashSteps DEF HashStep, LossInv, CacheInv

\* A pending hash goes on showing the target its row will have.
LEMMA PendingTargetsStep ==
  ASSUME TypeInv, LossInv, CacheInv, [Next]_vars
  PROVE  PendingTargets'
<1> USE DEF TypeInv, TypeOK
<1> SUFFICES ASSUME NEW c \in Codes, hash'[c] # Nil, hash'[c].pending,
                    NEW i \in 1..Len(queue'), queue'[i].code = c
             PROVE  queue'[i].target = hash'[c].target \/ Backed(c, hash[c].target)'
  BY DEF PendingTargets, Backed
<1>0. RowsKept /\ hash \in [Codes -> Hash \union {Nil}] /\ queue \in Seq(PendingLink)
  BY RowsKeptStep DEF RedisTypeOK
<1>1. ASSUME hash'[c] = hash[c], NEW j \in 1..Len(queue), queue'[i] = queue[j]
      PROVE  queue'[i].target = hash'[c].target \/ Backed(c, hash[c].target)'
  <2>1. queue[j].target = hash[c].target \/ Backed(c, hash[c].target)
    BY <1>1 DEF CacheInv, PendingTargets
  <2> QED
    BY <1>0, <1>1, <2>1 DEF RowsKept, Backed
<1>2. CASE Queues
  <2>1. PICK r \in Requests, now \in Instants :
          rpc[r] = "enqueue" /\ EnqueueOutcome(LinkOf(r, now)) = "queued"
            /\ EnqueueLink(LinkOf(r, now))
    BY <1>2 DEF Queues
  <2>2. PICK l : l = LinkOf(r, now)
    OBVIOUS
  <2>3. /\ l \in PendingLink /\ l.code = code[r]
        /\ queue' = Append(queue, l)
        /\ hash' = [hash EXCEPT ![l.code] =
              [target |-> l.target, expires |-> l.expires, pending |-> TRUE, ttl |-> l.expires]]
    BY <2>1, <2>2, LinkOfType DEF EnqueueLink, LinkOf, RequestInv
  <2>4. \A j \in 1..Len(queue) : queue[j].code # l.code
    BY <2>1, <2>3 DEF LossInv, QueueInv
  <2>5. CASE i = Len(queue) + 1
    <3>1. queue'[i] = l /\ c = l.code
      BY <1>0, <2>3, <2>5
    <3>2. hash'[c].target = l.target
      BY <1>0, <2>3, <3>1
    <3> QED
      BY <3>1, <3>2
  <2>6. CASE i # Len(queue) + 1
    <3>1. i \in 1..Len(queue) /\ queue'[i] = queue[i]
      BY <1>0, <2>3, <2>6
    <3>2. hash'[c] = hash[c]
      BY <1>0, <2>3, <2>4, <3>1
    <3> QED
      BY <1>1, <3>1, <3>2
  <2> QED
    BY <2>5, <2>6
<1>3. CASE Fills
  <2>1. PICK l \in PendingLink : Durable(l) /\ CacheHash(l) /\ queue' = queue
    BY <1>3 DEF Fills
  <2>2. CASE c = l.code
    <3>1. hash'[c].target = l.target /\ Backed(c, l.target)
      BY <1>0, <2>1, <2>2 DEF CacheHash, Durable, Backed
    <3> QED
      BY <1>0, <3>1 DEF RowsKept, Backed
  <2>3. CASE c # l.code
    BY <1>0, <1>1, <2>1, <2>3 DEF CacheHash
  <2> QED
    BY <2>2, <2>3
<1>4. CASE Deletes
  <2>1. hash'[c] = hash[c] /\ queue' = queue
    BY <1>0, <1>4 DEF Deletes, DeleteHash
  <2> QED
    BY <1>1, <2>1
<1>5. CASE Completes
  <2>1. PICK w \in Workers :
          /\ wpc[w] = "complete" /\ lock = token[w]
          /\ CompleteSync(Len(raw[w]), persisted[w], {l.code : l \in conflicts[w]}, Letters(w))
    BY <1>5 DEF Completes
  <2>2. hash'[c] = hash[c]
    BY <2>1, CompletedHash
  <2>3. Len(raw[w]) \in Nat /\ queue' = SubSeq(queue, Len(raw[w]) + 1, Len(queue))
    BY <2>1 DEF CompleteSync, WorkerTypeOK
  <2>4. Len(raw[w]) + i \in 1..Len(queue) /\ queue'[i] = queue[Len(raw[w]) + i]
    BY <1>0, <2>3, SuffixEntries
  <2> QED
    BY <1>1, <2>2, <2>4
<1>6. CASE UNCHANGED <<hash, queue>>
  BY <1>1, <1>6
<1> QED
  BY <1>2, <1>3, <1>4, <1>5, <1>6, HashSteps DEF HashStep, LossInv, CacheInv

\* The invariant of the cache holds throughout.
LEMMA CacheInvCorrect == Spec => []CacheInv
<1>1. Init => CacheInv
  <2> SUFFICES ASSUME Init PROVE CacheInv
    OBVIOUS
  <2>1. RowCodes /\ PendingTargets /\ CacheCoherent
    BY DEF Init, PostgresInit, RedisInit, RowCodes, PendingTargets, CacheCoherent
  <2>2. FillInv /\ HandledInv
    BY DEF Init, ReaderInit, WorkerInit, FillInv, HandledInv, HandledInvOf
  <2> QED
    BY <2>1, <2>2 DEF CacheInv
<1>2. TypeInv /\ HolderSeesHead /\ LossInv /\ ConflictInv /\ CacheInv /\ [Next]_vars => CacheInv'
  <2> SUFFICES ASSUME TypeInv, HolderSeesHead, LossInv, ConflictInv, CacheInv, [Next]_vars
               PROVE  CacheInv'
    OBVIOUS
  <2>1. RowCodes' /\ FillInv' /\ HandledInv'
    BY RowCodesStep, FillInvStep, HandledInvStep DEF CacheInv
  <2>2. PendingTargets' /\ CacheCoherent'
    BY PendingTargetsStep, CacheCoherentStep
  <2> QED
    BY <2>1, <2>2 DEF CacheInv
<1> QED
  BY <1>1, <1>2, TypeCorrect, HoldersSeeHead, LossInvCorrect, ConflictInvCorrect, PTL DEF Spec

\* A link hash without a pending mark always shows the target that PostgreSQL
\* has, whatever fill of a redirect (cached-link-store.ts), enqueue or
\* COMPLETE_SYNC (link-sync-worker.ts:62-106) wrote it last.
THEOREM CacheRepeatsRows == Spec => []CacheCoherent
<1>1. CacheInv => CacheCoherent
  BY DEF CacheInv
<1> QED
  BY <1>1, CacheInvCorrect, PTL

-----------------------------------------------------------------------------
(***************************************************************************)
(* A code has one owner, or an alias met it                                *)
(***************************************************************************)
\* The states in which a request has a code of its own.
Owning == {"enqueue", "insert", "cache", "acked"}

\* A custom code is the caller's and its row is the link once it is inserted; a
\* generated code was handed out, to nobody else.
OwnerInv ==
    \A r \in Requests :
        /\ rpc[r] \in {"cache", "acked"} => rlink[r].code = code[r]
        /\ rpc[r] # "new" /\ Custom(r) =>
              /\ code[r] \in AliasCodes /\ rpc[r] \notin {"generate", "enqueue"}
              /\ rpc[r] \in {"cache", "acked"} =>
                    links[code[r]] # Nil /\ links[code[r]] = rlink[r]
        /\ rpc[r] \in Owning /\ ~Custom(r) =>
              /\ code[r] \in issued
              /\ \A s \in Requests :
                    rpc[s] \in Owning /\ ~Custom(s) /\ code[s] = code[r] => s = r
        /\ rpc[r] # "new" /\ ~Custom(r) => rpc[r] # "alias"
        /\ rpc[r] \in {"cache", "acked"} /\ Custom(r) =>
              \A s \in Requests :
                  rpc[s] \in {"cache", "acked"} /\ Custom(s) /\ code[s] = code[r] => s = r

\* Steps that only move a request on without making it an owner, or rows alone.
LEMMA OwnerInvKept ==
  ASSUME TypeInv, OwnerInv, RowsKept, NEW r \in Requests, rpc[r] # "new",
         UNCHANGED <<body, code, issued, rlink>>, NEW x, GotoR(r, x),
         x \in Owning => rpc[r] \in Owning \/ Custom(r),
         x \in {"generate", "enqueue"} => ~Custom(r), x \notin {"alias", "cache"},
         x = "acked" => rpc[r] = "cache"
  PROVE  OwnerInv'
<1> USE DEF TypeInv, TypeOK
<1>1. /\ rpc'[r] = x /\ \A s \in Requests : s # r => rpc'[s] = rpc[s]
      /\ \A s \in Requests : Custom(s)' <=> Custom(s)
  BY DEF GotoR, RequestTypeOK, Custom
<1>2. \A c \in Codes : links[c] # Nil => links'[c] = links[c]
  BY DEF RowsKept
<1>3. AliasCodes \subseteq Codes
  BY DEF Codes
<1> QED
  BY <1>1, <1>2, <1>3 DEF OwnerInv, Owning

\* No step gives a code a second owner.
LEMMA OwnerInvStep ==
  ASSUME TypeInv, OwnerInv, [Next]_vars
  PROVE  OwnerInv'
<1> USE DEF TypeInv, TypeOK
<1>0. RowsKept /\ AliasCodes \subseteq Codes /\ GenCodes \subseteq Codes
  BY RowsKeptStep DEF Codes
<1>1. CASE UNCHANGED requestVars
  <2>1. \A c \in Codes : links[c] # Nil => links'[c] = links[c]
    BY <1>0 DEF RowsKept
  <2> QED
    BY <1>0, <1>1, <2>1 DEF requestVars, OwnerInv, Custom
<1>2. ASSUME NEW r \in Requests, Submit(r)
      PROVE  OwnerInv'
  <2>1. PICK b \in Body :
          /\ body' = [body EXCEPT ![r] = b] /\ code' = [code EXCEPT ![r] = b.customCode]
          /\ GotoR(r, IF b.customCode = Nil THEN "generate" ELSE "alias")
    BY <1>2 DEF Submit
  <2>2. rpc[r] = "new" /\ UNCHANGED <<rlink, issued, links>>
    BY <1>2 DEF Submit
  <2>3. /\ rpc'[r] = IF b.customCode = Nil THEN "generate" ELSE "alias"
        /\ body'[r] = b /\ code'[r] = b.customCode
        /\ \A s \in Requests : s # r => rpc'[s] = rpc[s] /\ body'[s] = body[s] /\ code'[s] = code[s]
    BY <2>1 DEF GotoR, RequestTypeOK
  <2>4. b.customCode \in AliasCodes \union {Nil}
    BY DEF Body
  <2> QED
    BY <2>2, <2>3, <2>4 DEF OwnerInv, Owning, Custom
<1>3. ASSUME NEW r \in Requests, Generate(r)
      PROVE  OwnerInv'
  <2>1. PICK c \in GenCodes \ issued :
          issued' = issued \union {c} /\ code' = [code EXCEPT ![r] = c]
    BY <1>3 DEF Generate
  <2>2. rpc[r] = "generate" /\ GotoR(r, "enqueue") /\ UNCHANGED <<body, rlink, links>>
    BY <1>3 DEF Generate
  <2>3. /\ rpc'[r] = "enqueue" /\ code'[r] = c
        /\ \A s \in Requests : s # r => rpc'[s] = rpc[s] /\ code'[s] = code[s]
    BY <2>1, <2>2 DEF GotoR, RequestTypeOK
  <2>4. ~Custom(r)
    BY <2>2 DEF OwnerInv
  <2>5. \A s \in Requests : Custom(s)' <=> Custom(s)
    BY <2>2 DEF Custom
  <2> QED
    BY <2>1, <2>2, <2>3, <2>4, <2>5 DEF OwnerInv, Owning
<1>4. ASSUME NEW r \in Requests, NEW now \in Instants, GotoR(r, "acked"), rpc[r] = "enqueue",
             rlink' = [rlink EXCEPT ![r] = LinkOf(r, now)],
             UNCHANGED <<body, code, issued, links>>
      PROVE  OwnerInv'
  <2>1. /\ rpc'[r] = "acked" /\ rlink'[r].code = code[r]
        /\ \A s \in Requests : s # r => rpc'[s] = rpc[s] /\ rlink'[s] = rlink[s]
    BY <1>4 DEF GotoR, RequestTypeOK, LinkOf
  <2>2. \A s \in Requests : Custom(s)' <=> Custom(s)
    BY <1>4 DEF Custom
  <2>3. ~Custom(r)
    BY <1>4 DEF OwnerInv
  <2> QED
    BY <1>4, <2>1, <2>2, <2>3 DEF OwnerInv, Owning
<1>5. ASSUME NEW r \in Requests, Enqueue(r) \/ EnqueueFails(r)
      PROVE  OwnerInv'
  <2>1. rpc[r] = "enqueue" /\ UNCHANGED <<body, code, issued, links>>
    BY <1>5 DEF Enqueue, EnqueueFails
  <2>2. ~Custom(r)
    BY <2>1 DEF OwnerInv
  <2>3. \/ \E now \in Instants : GotoR(r, "acked") /\ rlink' = [rlink EXCEPT ![r] = LinkOf(r, now)]
        \/ /\ UNCHANGED rlink
           /\ \E x \in {"generate", "failed", "insert"} : GotoR(r, x)
    BY <1>5 DEF Enqueue, EnqueueFails, EnqueueOutcome, NullResult
  <2>4. ASSUME UNCHANGED rlink, NEW x \in {"generate", "failed", "insert"}, GotoR(r, x)
        PROVE  OwnerInv'
    BY <1>0, <2>1, <2>2, <2>4, OwnerInvKept DEF Owning
  <2> QED
    BY <1>4, <2>1, <2>3, <2>4
<1>6. ASSUME NEW r \in Requests, CheckAlias(r) \/ CheckAliasFails(r)
      PROVE  OwnerInv'
  <2>1. rpc[r] = "alias" /\ UNCHANGED <<body, code, issued, rlink>>
    BY <1>6 DEF CheckAlias, CheckAliasFails
  <2>2. Custom(r)
    BY <2>1 DEF OwnerInv
  <2>3. GotoR(r, "failed") \/ GotoR(r, "insert")
    BY <1>6, <2>2 DEF CheckAlias, CheckAliasFails, NullResult
  <2> QED
    BY <1>0, <2>1, <2>2, <2>3, OwnerInvKept DEF Owning
<1>7. ASSUME NEW r \in Requests, InsertLink(r), links[code[r]] = Nil
      PROVE  OwnerInv'
  <2>1. PICK now \in Instants :
          /\ InsertRow(LinkOf(r, now)) /\ GotoR(r, "cache")
          /\ rlink' = [rlink EXCEPT ![r] = LinkOf(r, now)]
    BY <1>7 DEF InsertLink
  <2>2. rpc[r] = "insert" /\ UNCHANGED <<body, code, issued>> /\ code[r] \in Codes /\ body[r] \in Body
    BY <1>7 DEF InsertLink, RequestInv
  <2>3. /\ rpc'[r] = "cache" /\ rlink'[r].code = code[r]
        /\ \A s \in Requests : s # r => rpc'[s] = rpc[s] /\ rlink'[s] = rlink[s]
    BY <2>1 DEF GotoR, RequestTypeOK, LinkOf
  <2>4. \A s \in Requests : Custom(s)' <=> Custom(s)
    BY <2>2 DEF Custom
  <2>5. links'[code[r]] # Nil /\ links'[code[r]] = rlink'[r]
    <3>1. PICK l \in PendingLink : l = LinkOf(r, now) /\ l.code = code[r]
      BY <2>2, LinkOfType DEF LinkOf
    <3>2. links'[code[r]] = l
      BY <1>7, <2>1, <2>2, <3>1 DEF InsertRow, PostgresTypeOK
    <3>3. rlink'[r] = l
      BY <2>1, <3>1 DEF RequestTypeOK
    <3> QED
      BY <3>1, <3>2, <3>3, NilAssumption
  <2>6. \A c \in Codes : links[c] # Nil => links'[c] = links[c]
    BY <1>0 DEF RowsKept
  <2>7. \A s \in Requests :
          rpc[s] \in {"cache", "acked"} /\ Custom(s) => code[s] # code[r] /\ code[s] \in Codes
    BY <1>0, <1>7 DEF OwnerInv
  <2> QED
    BY <1>0, <2>2, <2>3, <2>4, <2>5, <2>6, <2>7 DEF OwnerInv, Owning
<1>8. ASSUME NEW r \in Requests,
             \/ InsertLink(r) /\ links[code[r]] # Nil
             \/ InsertLinkRefused(r) \/ InsertLinkFails(r) \/ GenerateFails(r) \/ CacheLink(r)
      PROVE  OwnerInv'
  <2>1. rpc[r] \in {"insert", "generate", "cache"} /\ UNCHANGED <<body, code, issued, rlink>>
    BY <1>8 DEF InsertLink, InsertLinkRefused, InsertLinkFails, GenerateFails, CacheLink
  <2>2. \/ GotoR(r, "failed")
        \/ ~Custom(r) /\ GotoR(r, "generate")
        \/ rpc[r] = "cache" /\ GotoR(r, "acked")
    BY <1>8 DEF InsertLink, InsertLinkRefused, InsertLinkFails, GenerateFails, CacheLink, NullResult
  <2> QED
    BY <1>0, <2>1, <2>2, OwnerInvKept DEF Owning
<1>9. ASSUME NEW r \in Requests, RequestStep(r) \/ RequestFault(r)
      PROVE  OwnerInv'
  BY <1>2, <1>3, <1>5, <1>6, <1>7, <1>8, <1>9 DEF RequestStep, RequestFault
<1> QED
  BY <1>1, <1>9, StepOfOneActor DEF ClientStep, clientVars, vars

\* Invariant in every behaviour.
LEMMA OwnerInvCorrect == Spec => []OwnerInv
<1>1. Init => OwnerInv
  BY DEF Init, RequestInit, OwnerInv, Owning
<1>2. TypeInv /\ OwnerInv /\ [Next]_vars => OwnerInv'
  BY OwnerInvStep
<1> QED
  BY <1>1, <1>2, TypeCorrect, PTL DEF Spec

\* Whatever codes callers ask for as aliases, the two answers 201 under one code
\* that app.ts and write-behind-link-store.ts can give are to an alias and to a
\* generated link, and PostgreSQL then has the alias: a code is generated once,
\* and an insert under it succeeds once.
THEOREM OneOwner == Spec => []OneOwnerPerCode
<1>1. TypeInv /\ OwnerInv => OneOwnerPerCode
  <2> SUFFICES ASSUME TypeInv, OwnerInv, NEW r \in Requests, NEW s \in Requests,
                      rpc[r] = "acked", rpc[s] = "acked", r # s, rlink[r].code = rlink[s].code
               PROVE  /\ Custom(r) # Custom(s)
                      /\ \E q \in {r, s} : Custom(q) /\ links[rlink[q].code] = rlink[q]
    BY DEF OneOwnerPerCode
  <2>1. code[r] = code[s] /\ rlink[r].code = code[r] /\ rlink[s].code = code[s]
    BY DEF OwnerInv
  <2>2. ~(Custom(r) /\ Custom(s))
    BY <2>1 DEF OwnerInv
  <2>3. Custom(r) \/ Custom(s)
    BY <2>1 DEF OwnerInv, Owning
  <2>4. \A q \in {r, s} : Custom(q) => links[rlink[q].code] = rlink[q]
    BY <2>1 DEF OwnerInv
  <2>5. Custom(r) \in BOOLEAN /\ Custom(s) \in BOOLEAN
    BY DEF Custom
  <2> QED
    BY <2>2, <2>3, <2>4, <2>5
<1> QED
  BY <1>1, TypeCorrect, OwnerInvCorrect, PTL

-----------------------------------------------------------------------------
(***************************************************************************)
(* A pending mark has its queue entry, or its link was too long            *)
(***************************************************************************)
\* The last states of a request whose link was queued and is too long: the
\* table refuses it on the synchronous path, so it ends under this code.
Refused(c) ==
    \E r \in Requests :
        /\ rpc[r] \in {"insert", "acked", "failed"}
        /\ code[r] = c /\ ~Custom(r) /\ ~TargetLengthOK(body[r])

LongInv == \A l \in Range(queue) : ~ParsePendingLink(l) => Refused(l.code)

FlagInv ==
    \A c \in Codes :
        (hash[c] # Nil /\ hash[c].pending) => (\E l \in Range(queue) : l.code = c) \/ Refused(c)

\* A request that has ended under the code of a long link stays there.
LEMMA RefusedKept ==
  ASSUME TypeInv, [Next]_vars, NEW c, Refused(c)
  PROVE  Refused(c)'
<1> USE DEF TypeInv, TypeOK
<1>1. PICK r \in Requests :
        /\ rpc[r] \in {"insert", "acked", "failed"}
        /\ code[r] = c /\ ~Custom(r) /\ ~TargetLengthOK(body[r])
  BY DEF Refused
<1>2. CASE UNCHANGED requestVars
  BY <1>1, <1>2 DEF requestVars, Refused, Custom, TargetLengthOK
<1>3. ASSUME NEW s \in Requests, RequestStep(s) \/ RequestFault(s)
      PROVE  Refused(c)'
  <2>1. CASE s = r
    <3>1. InsertLinkRefused(r) \/ InsertLinkFails(r)
      BY <1>1, <1>3, <2>1
         DEF RequestStep, RequestFault, Submit, Generate, Enqueue, CheckAlias, InsertLink,
             CacheLink, GenerateFails, EnqueueFails, CheckAliasFails
    <3>2. rpc'[r] = "failed" /\ UNCHANGED <<body, code>>
      BY <3>1 DEF InsertLinkRefused, InsertLinkFails, GotoR, RequestTypeOK
    <3> QED
      BY <1>1, <3>2 DEF Refused, Custom, TargetLengthOK
  <2>2. CASE s # r
    <3>1. rpc'[r] = rpc[r] /\ body'[r] = body[r] /\ code'[r] = code[r]
      BY <1>3, <2>2
         DEF RequestStep, RequestFault, Submit, Generate, Enqueue, CheckAlias, InsertLink,
             InsertLinkRefused, CacheLink, GenerateFails, EnqueueFails, CheckAliasFails,
             InsertLinkFails, GotoR, NullResult, EnqueueOutcome, RequestTypeOK
    <3> QED
      BY <1>1, <3>1 DEF Refused, Custom, TargetLengthOK
  <2> QED
    BY <2>1, <2>2
<1> QED
  BY <1>2, <1>3, StepOfOneActor DEF ClientStep, clientVars, vars

\* A queued link that is too long belongs to a request that ends under its code.
LEMMA LongInvStep ==
  ASSUME TypeInv, LossInv, CacheInv, OwnerInv, LongInv, [Next]_vars
  PROVE  LongInv'
<1> USE DEF TypeInv, TypeOK
<1> SUFFICES ASSUME NEW l \in Range(queue'), ~ParsePendingLink(l) PROVE Refused(l.code)'
  BY DEF LongInv, Range
<1>0. queue \in Seq(PendingLink)
  BY DEF RedisTypeOK
<1>1. CASE l \in Range(queue)
  BY <1>1, RefusedKept DEF LongInv
<1>2. CASE Queues
  <2>1. PICK r \in Requests, now \in Instants :
          /\ rpc[r] = "enqueue" /\ EnqueueOutcome(LinkOf(r, now)) = "queued"
          /\ EnqueueLink(LinkOf(r, now)) /\ (GotoR(r, "acked") \/ GotoR(r, "insert"))
          /\ UNCHANGED <<body, code>>
    BY <1>2 DEF Queues
  <2>2. PICK m \in PendingLink : m = LinkOf(r, now) /\ m.code = code[r] /\ m.target = body[r].target
    BY <2>1, LinkOfType DEF LinkOf, RequestInv
  <2>3. l \in Range(queue) \/ l = m
    <3>1. queue' = Append(queue, m)
      BY <2>1, <2>2 DEF EnqueueLink
    <3> QED
      BY <1>0, <3>1, AppendRange
  <2>4. rpc'[r] \in {"insert", "acked"} /\ ~Custom(r)
    BY <2>1 DEF GotoR, RequestTypeOK, OwnerInv
  <2>5. ASSUME l = m PROVE Refused(l.code)'
    BY <2>1, <2>2, <2>4, <2>5 DEF Refused, Custom, TargetLengthOK, ParsePendingLink
  <2> QED
    BY <1>1, <2>3, <2>5
<1>3. CASE Fills \/ Deletes \/ UNCHANGED <<hash, queue>>
  BY <1>1, <1>3 DEF Fills, Deletes
<1>4. CASE Completes
  <2>1. PICK w \in Workers : queue' = SubSeq(queue, Len(raw[w]) + 1, Len(queue))
    BY <1>4 DEF Completes, CompleteSync
  <2>2. Len(raw[w]) \in Nat
    BY DEF WorkerTypeOK
  <2> QED
    BY <1>0, <1>1, <2>1, <2>2, SuffixRange
<1> QED
  BY <1>2, <1>3, <1>4, HashSteps DEF HashStep, LossInv, CacheInv

\* A mark that stays when its entry goes is that of a link too long.
LEMMA FlagInvStep ==
  ASSUME TypeInv, HolderSeesHead, LossInv, CacheInv, LongInv, FlagInv, [Next]_vars
  PROVE  FlagInv'
<1> USE DEF TypeInv, TypeOK
<1> SUFFICES ASSUME NEW c \in Codes, hash'[c] # Nil, hash'[c].pending, ~Refused(c)
             PROVE  \E l \in Range(queue') : l.code = c
  BY RefusedKept DEF FlagInv, Range
<1>0. hash \in [Codes -> Hash \union {Nil}] /\ queue \in Seq(PendingLink)
  BY DEF RedisTypeOK
<1>1. ASSUME hash[c] # Nil, hash[c].pending
      PROVE  \E l \in Range(queue) : l.code = c
  BY <1>1 DEF FlagInv
<1>2. CASE Queues
  <2>1. PICK r \in Requests, now \in Instants :
          rpc[r] = "enqueue" /\ EnqueueOutcome(LinkOf(r, now)) = "queued"
            /\ EnqueueLink(LinkOf(r, now))
    BY <1>2 DEF Queues
  <2>2. PICK l : l = LinkOf(r, now)
    OBVIOUS
  <2>3. /\ l \in PendingLink /\ queue' = Append(queue, l)
        /\ \A e \in Codes : e # l.code => hash'[e] = hash[e]
    BY <1>0, <2>1, <2>2, LinkOfType DEF EnqueueLink, LinkOf, RequestInv
  <2>4. l \in Range(queue') /\ Range(queue) \subseteq Range(queue')
    BY <1>0, <2>3, AppendRange
  <2> QED
    BY <1>1, <2>3, <2>4
<1>3. CASE Fills
  <2>1. PICK l \in PendingLink : CacheHash(l) /\ queue' = queue
    BY <1>3 DEF Fills
  <2>2. hash[c] # Nil /\ hash[c].pending
    BY <1>0, <2>1 DEF CacheHash
  <2> QED
    BY <1>1, <2>1, <2>2
<1>4. CASE Deletes
  <2>1. hash'[c] = hash[c] /\ queue' = queue
    BY <1>0, <1>4 DEF Deletes, DeleteHash
  <2> QED
    BY <1>1, <2>1
<1>5. CASE Completes
  <2>1. PICK w \in Workers :
          /\ wpc[w] = "complete" /\ lock = token[w]
          /\ CompleteSync(Len(raw[w]), persisted[w], {l.code : l \in conflicts[w]}, Letters(w))
    BY <1>5 DEF Completes
  <2>2. /\ hash[c] # Nil /\ hash[c].pending
        /\ c \notin persisted[w] /\ c \notin {l.code : l \in conflicts[w]}
    BY <2>1, CompletedHash
  <2>3. PICK i \in 1..Len(queue) : queue[i].code = c
    BY <1>0, <1>1, <2>2 DEF Range
  <2>4. /\ raw[w] \in Seq(PendingLink) /\ Len(raw[w]) \in Nat
        /\ queue' = SubSeq(queue, Len(raw[w]) + 1, Len(queue))
    BY <2>1 DEF CompleteSync, WorkerTypeOK
  <2>5. i \notin 1..Len(raw[w])
    <3> SUFFICES ASSUME i \in 1..Len(raw[w]) PROVE FALSE
      OBVIOUS
    <3>1. raw[w][i] = queue[i]
      BY <2>1 DEF HolderSeesHead
    <3>2. ParsePendingLink(raw[w][i])
      BY <1>0, <2>3, <3>1 DEF LongInv, Range
    <3>3. raw[w][i] \in Batch(w)
      BY <2>4, <3>2, BatchComplete DEF Batch, LossInv, BatchInv
    <3>4. raw[w][i].code \in persisted[w] \/ raw[w][i] \in conflicts[w]
      BY <2>1, <3>3 DEF CacheInv, HandledInv, HandledInvOf
    <3> QED
      BY <2>2, <2>3, <3>1, <3>4
  <2>6. i \in (Len(raw[w]) + 1)..Len(queue)
    BY <2>4, <2>5
  <2>7. queue[i] \in Range(queue')
    BY <1>0, <2>4, <2>6, SuffixEntries
  <2> QED
    BY <2>3, <2>7
<1>6. CASE UNCHANGED <<hash, queue>>
  BY <1>1, <1>6
<1> QED
  BY <1>2, <1>3, <1>4, <1>5, <1>6, HashSteps DEF HashStep, LossInv, CacheInv

\* A pending mark (write-behind-link-store.ts:36-44) goes no later than its
\* queue entry, unless the link is one the table would refuse: COMPLETE_SYNC
\* (link-sync-worker.ts:62-106) leaves the hash of no other link marked.
THEOREM PendingMarksBacked == Spec => []PendingFlagBacked
<1>1. Init => LongInv /\ FlagInv
  BY DEF Init, RedisInit, LongInv, FlagInv, Range
<1>2. TypeInv /\ HolderSeesHead /\ LossInv /\ CacheInv /\ OwnerInv /\ LongInv /\ FlagInv
        /\ [Next]_vars => LongInv' /\ FlagInv'
  BY LongInvStep, FlagInvStep
<1>3. TypeInv /\ FlagInv => PendingFlagBacked
  <2> SUFFICES ASSUME TypeInv, FlagInv, NEW c \in Codes, Refused(c) PROVE GivenToLongLink(c)
    BY DEF FlagInv, PendingFlagBacked
  <2>1. PICK r \in Requests :
          /\ rpc[r] \in {"insert", "acked", "failed"}
          /\ code[r] = c /\ ~Custom(r) /\ ~TargetLengthOK(body[r])
    BY DEF Refused
  <2>2. body[r] # Nil
    BY <2>1, NilBodyAssumption DEF TypeInv, RequestInv
  <2> QED
    BY <2>1, <2>2 DEF GivenToLongLink
<1> QED
  BY <1>1, <1>2, <1>3, TypeCorrect, HoldersSeeHead, LossInvCorrect, CacheInvCorrect,
     OwnerInvCorrect, PTL DEF Spec

-----------------------------------------------------------------------------
(***************************************************************************)
(* A queued link that never expires is not hidden                          *)
(***************************************************************************)
\* A redirect is about to delete the hash of the code.
Purging(c) == \E d \in Readers : fpc[d] = "purge" /\ fcode[d] = c

\* The code has not reached the queue, but may.
Unqueued(c) == c \notin issued \/ \E r \in Requests : rpc[r] = "enqueue" /\ code[r] = c

\* Before that, only a row puts a hash there.
FreshInv ==
    \A c \in Codes : Unqueued(c) /\ (hash[c] # Nil \/ Purging(c)) => links[c] # Nil

\* A hash that Redis may evict or a redirect may purge.
Deletable(c) == hash[c] # Nil /\ (hash[c].ttl \/ hash[c].expires)

Lasting(c) == \E l \in Range(queue) : l.code = c /\ ~l.expires

\* Until the row is there, the hash of a lasting link is and cannot be deleted.
LastingInv ==
    \A c \in Codes : Lasting(c) /\ links[c] = Nil => hash[c] # Nil /\ ~Deletable(c) /\ ~Purging(c)

\* A code comes to the queue once, through Generate and Enqueue.
LEMMA UnqueuedStep ==
  ASSUME TypeInv, [Next]_vars, NEW c \in Codes, Unqueued(c)'
  PROVE  Unqueued(c)
<1> USE DEF TypeInv, TypeOK
<1>1. CASE UNCHANGED requestVars
  BY <1>1 DEF requestVars, Unqueued
<1>2. ASSUME NEW r \in Requests, RequestStep(r) \/ RequestFault(r)
      PROVE  Unqueued(c)
  <2>1. CASE Generate(r)
    <3>1. PICK e \in GenCodes \ issued : issued' = issued \union {e} /\ code' = [code EXCEPT ![r] = e]
      BY <2>1 DEF Generate
    <3>2. \A s \in Requests : s # r => rpc'[s] = rpc[s] /\ code'[s] = code[s]
      BY <2>1, <3>1 DEF Generate, GotoR, RequestTypeOK
    <3>3. code'[r] = e
      BY <3>1 DEF RequestTypeOK
    <3> QED
      BY <3>1, <3>2, <3>3 DEF Unqueued
  <2>2. CASE ~Generate(r)
    <3>1. issued' = issued
      BY <1>2, <2>2
         DEF RequestStep, RequestFault, Submit, Enqueue, CheckAlias, InsertLink, InsertLinkRefused,
             CacheLink, GenerateFails, EnqueueFails, CheckAliasFails, InsertLinkFails
    <3>2. rpc'[r] # "enqueue" /\ \A s \in Requests : s # r => rpc'[s] = rpc[s] /\ code'[s] = code[s]
      BY <1>2, <2>2
         DEF RequestStep, RequestFault, Submit, Enqueue, CheckAlias, InsertLink, InsertLinkRefused,
             CacheLink, GenerateFails, EnqueueFails, CheckAliasFails, InsertLinkFails, GotoR,
             NullResult, EnqueueOutcome, RequestTypeOK
    <3> QED
      BY <3>1, <3>2 DEF Unqueued
  <2> QED
    BY <2>1, <2>2
<1> QED
  BY <1>1, <1>2, StepOfOneActor DEF ClientStep, clientVars, vars

\* A redirect sets out to purge only what has expired.
LEMMA PurgingStep ==
  ASSUME TypeInv, [Next]_vars, NEW c \in Codes, Purging(c)', ~Purging(c)
  PROVE  Deletable(c)
<1> USE DEF TypeInv, TypeOK
<1>1. CASE UNCHANGED readerVars
  BY <1>1 DEF readerVars, Purging
<1>2. ASSUME NEW d \in Readers, ReaderStep(d) \/ ReaderFault(d)
      PROVE  Deletable(c)
  <2>1. CASE \E e \in Codes : ReadExpired(d, e)
    <3>1. PICK e \in Codes : ReadExpired(d, e)
      BY <2>1
    <3>2. fcode'[d] = e /\ \A x \in Readers : x # d => fpc'[x] = fpc[x] /\ fcode'[x] = fcode[x]
      BY <3>1 DEF ReadExpired, ReaderTypeOK
    <3>3. e = c
      BY <3>2 DEF Purging
    <3> QED
      BY <3>1, <3>3 DEF ReadExpired, Expired, Deletable
  <2>2. CASE ~(\E e \in Codes : ReadExpired(d, e))
    <3>1. fpc'[d] # "purge" /\ \A x \in Readers : x # d => fpc'[x] = fpc[x] /\ fcode'[x] = fcode[x]
      BY <1>2, <2>2 DEF ReaderStep, ReaderFault, ReadMiss, Purge, FindRow, CacheRow, FinishRead,
                        ReaderTypeOK
    <3> QED
      BY <3>1 DEF Purging
  <2> QED
    BY <2>1, <2>2
<1>3. ASSUME NEW r \in Requests, RequestStep(r) \/ RequestFault(r)
      PROVE  UNCHANGED readerVars
  BY <1>3, RequestTypes
<1>4. ASSUME ClockPasses PROVE UNCHANGED readerVars
  BY <1>4 DEF ClockPasses
<1> QED
  BY <1>1, <1>2, <1>3, <1>4, StepOfOneActor DEF ClientStep, clientVars, vars

\* Only the request that was given a code queues it, and only once.
LEMMA FreshInvStep ==
  ASSUME TypeInv, LossInv, CacheInv, FreshInv, [Next]_vars
  PROVE  FreshInv'
<1> USE DEF TypeInv, TypeOK
<1>0. RowsKept /\ hash \in [Codes -> Hash \union {Nil}]
  BY RowsKeptStep DEF RedisTypeOK
<1> SUFFICES ASSUME NEW c \in Codes, Unqueued(c)', links[c] = Nil
             PROVE  hash'[c] = Nil /\ ~Purging(c)'
  BY <1>0 DEF FreshInv, RowsKept
<1>1. Unqueued(c) /\ hash[c] = Nil /\ ~Purging(c)
  BY UnqueuedStep DEF FreshInv
<1>2. ~Purging(c)'
  BY <1>1, PurgingStep DEF Deletable
<1>3. CASE Queues
  <2>1. PICK r \in Requests, now \in Instants :
          /\ rpc[r] = "enqueue" /\ EnqueueLink(LinkOf(r, now))
          /\ GotoR(r, "acked") \/ GotoR(r, "insert")
          /\ UNCHANGED <<code, issued>>
    BY <1>3 DEF Queues
  <2>2. rpc'[r] # "enqueue" /\ \A s \in Requests : s # r => rpc'[s] = rpc[s]
    BY <2>1 DEF GotoR, RequestTypeOK
  <2>3. code[r] \in issued /\ \A s \in Requests : rpc[s] = "enqueue" /\ code[s] = code[r] => r = s
    BY <2>1 DEF LossInv, QueueInv
  <2>4. c # code[r]
    BY <2>1, <2>2, <2>3 DEF Unqueued
  <2>5. hash'[c] = hash[c]
    BY <1>0, <2>1, <2>4 DEF EnqueueLink, LinkOf
  <2> QED
    BY <1>1, <1>2, <2>5
<1>4. CASE Fills
  <2>1. PICK l \in PendingLink : Durable(l) /\ CacheHash(l)
    BY <1>4 DEF Fills
  <2>2. l.code # c
    BY <2>1 DEF Durable
  <2>3. hash'[c] = hash[c]
    BY <1>0, <2>1, <2>2 DEF CacheHash
  <2> QED
    BY <1>1, <1>2, <2>3
<1>5. CASE Deletes \/ UNCHANGED <<hash, queue>>
  BY <1>0, <1>1, <1>2, <1>5 DEF Deletes, DeleteHash
<1>6. CASE Completes
  <2>1. hash'[c] = Nil
    BY <1>1, <1>6, CompletedHash DEF Completes
  <2> QED
    BY <1>2, <2>1
<1> QED
  BY <1>3, <1>4, <1>5, <1>6, HashSteps DEF HashStep, LossInv, CacheInv

\* COMPLETE_SYNC leaves the hash of a link alone that is queued behind the batch
\* and has no row.
LEMMA CompleteKeepsLasting ==
  ASSUME TypeInv, HolderSeesHead, LossInv, ConflictInv, CacheInv, Completes,
         NEW c \in Codes, Lasting(c)', links[c] = Nil
  PROVE  Lasting(c) /\ hash'[c] = hash[c]
<1> USE DEF TypeInv, TypeOK
<1>0. queue \in Seq(PendingLink)
  BY DEF RedisTypeOK
<1>1. PICK w \in Workers :
        /\ wpc[w] = "complete" /\ lock = token[w]
        /\ CompleteSync(Len(raw[w]), persisted[w], {k.code : k \in conflicts[w]}, Letters(w))
  BY DEF Completes
<1>2. raw[w] \in Seq(PendingLink) /\ queue' = SubSeq(queue, Len(raw[w]) + 1, Len(queue))
  BY <1>1 DEF CompleteSync, WorkerTypeOK
<1>3. queue' \in Seq(PendingLink)
  BY <1>0, <1>2, SuffixEntries
<1>4. PICK i \in 1..Len(queue') : queue'[i].code = c /\ ~queue'[i].expires
  BY <1>3 DEF Lasting, Range
<1>5. Len(raw[w]) + i \in 1..Len(queue) /\ queue'[i] = queue[Len(raw[w]) + i]
  BY <1>0, <1>2, <1>4, SuffixEntries
<1>6. Lasting(c)
  BY <1>0, <1>4, <1>5 DEF Lasting, Range
<1>7. c \notin {k.code : k \in conflicts[w]}
  <2> SUFFICES ASSUME NEW k \in conflicts[w], k.code = c PROVE FALSE
    OBVIOUS
  <2>1. PICK j \in 1..Len(raw[w]) : k = raw[w][j]
    BY <1>1, <1>2 DEF ConflictInv, ConflictInvOf, Range
  <2>2. j \in 1..Len(queue) /\ queue[j] = k
    BY <1>0, <1>1, <1>2, <2>1 DEF HolderSeesHead
  <2>3. j = Len(raw[w]) + i
    BY <1>4, <1>5, <2>2 DEF LossInv, QueueInv, QueueCodesDistinct
  <2> QED
    BY <1>2, <1>3, <2>1, <2>3
<1>8. c \notin persisted[w]
  BY <1>1 DEF CacheInv, HandledInv, HandledInvOf, Durable
<1>9. hash'[c] = Completed(c, persisted[w], {k.code : k \in conflicts[w]})
  BY <1>1 DEF CompleteSync
<1> HIDE DEF TypeInv, TypeOK
<1>10. hash'[c] = hash[c]
  BY <1>7, <1>8, <1>9 DEF Completed
<1> QED
  BY <1>6, <1>10

\* No step hides a lasting link before its row is there.
LEMMA LastingInvStep ==
  ASSUME TypeInv, HolderSeesHead, LossInv, ConflictInv, CacheInv, FreshInv, LastingInv,
         [Next]_vars
  PROVE  LastingInv'
<1> USE DEF TypeInv, TypeOK
<1>0. /\ RowsKept /\ hash \in [Codes -> Hash \union {Nil}] /\ queue \in Seq(PendingLink)
  BY RowsKeptStep DEF RedisTypeOK
<1> SUFFICES ASSUME NEW c \in Codes, Lasting(c)', links[c] = Nil, links'[c] = Nil
             PROVE  hash'[c] # Nil /\ ~Deletable(c)' /\ ~Purging(c)'
  BY <1>0 DEF LastingInv, RowsKept
<1>1. ASSUME Lasting(c), hash'[c] = hash[c]
      PROVE  hash'[c] # Nil /\ ~Deletable(c)' /\ ~Purging(c)'
  <2>1. hash[c] # Nil /\ ~Deletable(c) /\ ~Purging(c)
    BY <1>1 DEF LastingInv
  <2>2. ~Purging(c)'
    BY <2>1, PurgingStep
  <2> QED
    BY <1>1, <2>1, <2>2 DEF Deletable
<1>2. ASSUME queue' = queue PROVE Lasting(c)
  BY <1>2 DEF Lasting
<1>3. CASE Queues
  <2>1. PICK r \in Requests, now \in Instants :
          /\ rpc[r] = "enqueue" /\ EnqueueOutcome(LinkOf(r, now)) = "queued"
          /\ EnqueueLink(LinkOf(r, now))
    BY <1>3 DEF Queues
  <2>2. PICK m : m = LinkOf(r, now)
    OBVIOUS
  <2>3. PICK h : h = [target |-> m.target, expires |-> m.expires, pending |-> TRUE,
                      ttl |-> m.expires]
    OBVIOUS
  <2>4. /\ m \in PendingLink /\ m.code \in Codes /\ m.code = code[r]
        /\ queue' = Append(queue, m) /\ hash' = [hash EXCEPT ![m.code] = h]
    BY <2>1, <2>2, <2>3, LinkOfType DEF EnqueueLink, RequestInv, PendingLink, LinkOf
  <2>5. PICK l \in Range(queue') : l.code = c /\ ~l.expires
    BY DEF Lasting
  <2>6. l \in Range(queue) \/ l = m
    BY <1>0, <2>4, AppendRange
  <2>7. CASE c = m.code
    <3>1. l = m
      BY <1>0, <2>1, <2>4, <2>5, <2>6, <2>7 DEF LossInv, QueueInv, Range
    <3>2. hash'[c] = h /\ h.ttl = FALSE /\ h.expires = FALSE
      BY <1>0, <2>3, <2>4, <2>5, <2>7, <3>1 DEF PendingLink
    <3>3. h # Nil
      <4>1. h \in Hash
        BY <2>3, <2>4 DEF Hash, PendingLink
      <4> QED
        BY <4>1, NilHashAssumption
    <3>4. Unqueued(c)
      BY <2>1, <2>4, <2>7 DEF Unqueued
    <3>5. ~Purging(c)'
      BY <3>4, PurgingStep DEF FreshInv, Deletable
    <3> QED
      BY <3>2, <3>3, <3>5 DEF Deletable
  <2>8. CASE c # m.code
    <3>1. Lasting(c)
      BY <2>5, <2>6, <2>8 DEF Lasting
    <3>2. hash'[c] = hash[c]
      BY <1>0, <2>4, <2>8
    <3> QED
      BY <1>1, <3>1, <3>2
  <2> QED
    BY <2>7, <2>8
<1>4. CASE Fills
  <2>1. PICK l \in PendingLink : Durable(l) /\ CacheHash(l) /\ queue' = queue
    BY <1>4 DEF Fills
  <2>2. l.code # c
    BY <2>1 DEF Durable
  <2>3. hash'[c] = hash[c]
    BY <1>0, <2>1, <2>2 DEF CacheHash
  <2> QED
    BY <1>1, <1>2, <2>1, <2>3
<1>5. CASE Deletes
  <2>1. PICK e \in Codes :
          /\ DeleteHash(e) /\ queue' = queue
          /\ links[e] # Nil \/ (hash[e] # Nil /\ hash[e].ttl) \/ Purging(e)
    BY <1>5 DEF Deletes, Purging
  <2>2. Lasting(c)
    BY <1>2, <2>1
  <2>3. e # c
    BY <2>1, <2>2 DEF LastingInv, Deletable
  <2>4. hash'[c] = hash[c]
    BY <1>0, <2>1, <2>3 DEF DeleteHash
  <2> QED
    BY <1>1, <2>2, <2>4
<1>6. CASE Completes
  BY <1>1, <1>6, CompleteKeepsLasting
<1>7. CASE UNCHANGED <<hash, queue>>
  BY <1>1, <1>2, <1>7
<1> QED
  BY <1>3, <1>4, <1>5, <1>6, <1>7, HashSteps DEF HashStep, LossInv, CacheInv

\* A link without expiry that is acknowledged and still queued is in Redis or
\* its code has a row, whatever is evicted, expires or is purged meanwhile: its
\* pending hash gets a TTL only from a fill, which needs the row
\* (write-behind-link-store.ts:36-44, cached-link-store.ts:127-170).
THEOREM QueuedLinksVisible == Spec => []PendingVisible
<1>1. Init => FreshInv /\ LastingInv
  <2> SUFFICES ASSUME Init PROVE FreshInv /\ LastingInv
    OBVIOUS
  <2>1. FreshInv
    BY DEF Init, RedisInit, ReaderInit, FreshInv, Purging
  <2>2. Range(queue) = {}
    BY DEF Init, RedisInit, Range
  <2> QED
    BY <2>1, <2>2 DEF LastingInv, Lasting
<1>2. TypeInv /\ HolderSeesHead /\ LossInv /\ ConflictInv /\ CacheInv /\ FreshInv /\ LastingInv
        /\ [Next]_vars => FreshInv' /\ LastingInv'
  BY FreshInvStep, LastingInvStep
<1>3. TypeInv /\ LastingInv => PendingVisible
  <2> SUFFICES ASSUME TypeInv, LastingInv, NEW l \in Range(queue), ~l.expires, links[l.code] = Nil
               PROVE  hash[l.code] # Nil
    BY DEF PendingVisible
  <2>1. l \in PendingLink
    BY DEF TypeInv, TypeOK, RedisTypeOK, Range
  <2>2. l.code \in Codes
    BY <2>1 DEF PendingLink
  <2> QED
    BY <2>2 DEF LastingInv, Lasting
<1> QED
  BY <1>1, <1>2, <1>3, TypeCorrect, HoldersSeeHead, LossInvCorrect, ConflictInvCorrect,
     CacheInvCorrect, PTL DEF Spec
=============================================================================
