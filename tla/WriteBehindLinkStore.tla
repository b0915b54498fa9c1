------------------------ MODULE WriteBehindLinkStore ------------------------
(***************************************************************************)
(* POST /api/v1/links over WriteBehindLinkStore: the attempt loop of       *)
(* src/src/app.ts, WriteBehindLinkStore.create and createCustom            *)
(* (src/src/store/write-behind-link-store.ts) and the synchronous path     *)
(* they fall back to, CachedLinkStore.create over PostgresLinkStore.create.*)
(* Validation, authentication and rate limiting come before the loop and   *)
(* only decide whether a request gets here.                                *)
(***************************************************************************)
EXTENDS CachedLinkStore

CONSTANTS
    Requests,     \* concurrent creation requests
    MaxAttempts   \* the loop bound of the handler (5)

ASSUME RequestAssumption == MaxAttempts \in Nat \ {0}

VARIABLES
    rpc,      \* the await each request is at, or its answer
    body,     \* its validated body: target, expiry and custom code or Nil
    code,     \* the code of the current attempt
    rlink,    \* the link store.create returned
    attempt,  \* attempts made by the loop
    issued    \* codes the allocator has handed out (each once)

requestVars == <<rpc, body, code, rlink, attempt, issued>>

Body == [target : Targets, expires : BOOLEAN, customCode : AliasCodes \union {Nil}]

ASSUME NilBodyAssumption == Nil \notin Body /\ Nil \notin Codes

RequestStates ==
    {"new", "generate", "enqueue", "alias", "insert", "cache", "acked", "failed"}

RequestTypeOK ==
    /\ rpc \in [Requests -> RequestStates]
    /\ body \in [Requests -> Body \union {Nil}]
    /\ code \in [Requests -> Codes \union {Nil}]
    /\ rlink \in [Requests -> PendingLink \union {Nil}]
    /\ attempt \in [Requests -> 0..MaxAttempts]
    /\ issued \in SUBSET GenCodes

RequestInit ==
    /\ rpc = [r \in Requests |-> "new"]
    /\ body = [r \in Requests |-> Nil]
    /\ code = [r \in Requests |-> Nil]
    /\ rlink = [r \in Requests |-> Nil]
    /\ attempt = [r \in Requests |-> 0]
    /\ issued = {}

GotoR(r, s) == rpc' = [rpc EXCEPT ![r] = s]

Custom(r) == body[r].customCode # Nil

\* The link of the current attempt, created at this instant.
LinkOf(r, now) ==
    [code |-> code[r], target |-> body[r].target, created |-> now, expires |-> body[r].expires]

\* store.create returned null: 409 for a custom code, else the next attempt,
\* or 503 after the last.
\* (Deliberate fault: the loop is not bounded.)
NullResultUnbounded(r) == GotoR(r, IF Custom(r) THEN "failed" ELSE "generate")

NullResult(r) ==
    GotoR(r, IF Custom(r) \/ attempt[r] >= MaxAttempts THEN "failed" ELSE "generate")

-----------------------------------------------------------------------------
\* A validated body arrives.  expiresAt lies ahead when it is computed.
Submit(r) ==
    /\ rpc[r] = "new"
    /\ \E b \in Body :
          /\ b.expires \in Expiries /\ (b.expires => ~late)
          /\ body' = [body EXCEPT ![r] = b]
          /\ code' = [code EXCEPT ![r] = b.customCode]
          /\ GotoR(r, IF b.customCode = Nil THEN "generate" ELSE "alias")
    /\ UNCHANGED <<rlink, attempt, issued, links, redisVars, late, readerVars>>

\* Deliberate fault: a code may be handed out again.
GenerateRepeats(r) ==
    /\ rpc[r] = "generate"
    /\ \E c \in GenCodes :
          /\ issued' = issued \union {c}
          /\ code' = [code EXCEPT ![r] = c]
    /\ attempt' = [attempt EXCEPT ![r] = @ + 1]
    /\ GotoR(r, "enqueue")
    /\ UNCHANGED <<body, rlink, links, redisVars, late, readerVars>>

\* codeGenerator: the allocator never hands out a code twice.
Generate(r) ==
    /\ rpc[r] = "generate"
    /\ \E c \in GenCodes \ issued :
          /\ issued' = issued \union {c}
          /\ code' = [code EXCEPT ![r] = c]
    /\ attempt' = [attempt EXCEPT ![r] = @ + 1]
    /\ GotoR(r, "enqueue")
    /\ UNCHANGED <<body, rlink, links, redisVars, late, readerVars>>

\* codeGenerator rejects: 503.
GenerateFails(r) ==
    /\ rpc[r] = "generate"
    /\ GotoR(r, "failed")
    /\ UNCHANGED <<body, code, rlink, attempt, issued, links, redisVars, late, readerVars>>

\* create stamps createdAt and runs ENQUEUE_LINK: acknowledged when queued,
\* null when the code exists, the synchronous path when the queue is full.
Enqueue(r) ==
    /\ rpc[r] = "enqueue"
    /\ \E now \in Instants :
          LET l == LinkOf(r, now)
          IN /\ EnqueueLink(l)
             /\ CASE EnqueueOutcome(l) = "queued" ->
                       GotoR(r, "acked") /\ rlink' = [rlink EXCEPT ![r] = l]
                  [] EnqueueOutcome(l) = "exists" -> NullResult(r) /\ UNCHANGED rlink
                  [] EnqueueOutcome(l) = "full" -> GotoR(r, "insert") /\ UNCHANGED rlink
    /\ UNCHANGED <<body, code, attempt, issued, lock, dead, links, late, readerVars>>

\* Redis is not ready, or eval rejects with or without having run the script:
\* the synchronous path, under the same code.
EnqueueFails(r) ==
    /\ rpc[r] = "enqueue"
    /\ \/ \E now \in Instants : EnqueueLink(LinkOf(r, now))
       \/ UNCHANGED <<hash, queue>>
    /\ GotoR(r, "insert")
    /\ UNCHANGED <<body, code, rlink, attempt, issued, lock, dead, links, late, readerVars>>

\* createCustom: an alias that is pending in Redis is refused.
CheckAlias(r) ==
    /\ rpc[r] = "alias"
    /\ LET h == hash[code[r]]
       IN IF h # Nil /\ h.pending THEN NullResult(r) ELSE GotoR(r, "insert")
    /\ UNCHANGED <<body, code, rlink, attempt, issued, links, redisVars, late, readerVars>>

\* Redis does not answer the check: PostgreSQL decides.
CheckAliasFails(r) ==
    /\ rpc[r] = "alias"
    /\ GotoR(r, "insert")
    /\ UNCHANGED <<body, code, rlink, attempt, issued, links, redisVars, late, readerVars>>

\* PostgresLinkStore.create: created_at is the database's NOW().
InsertLink(r) ==
    /\ rpc[r] = "insert" /\ TargetLengthOK(body[r])
    /\ \E now \in Instants :
          /\ InsertRow(LinkOf(r, now))
          /\ IF links[code[r]] = Nil
             THEN GotoR(r, "cache") /\ rlink' = [rlink EXCEPT ![r] = LinkOf(r, now)]
             ELSE NullResult(r) /\ UNCHANGED rlink
    /\ UNCHANGED <<body, code, attempt, issued, redisVars, late, readerVars>>

\* The table's CHECK rejects the row: the handler answers 500.
InsertLinkRefused(r) ==
    /\ rpc[r] = "insert" /\ ~TargetLengthOK(body[r])
    /\ GotoR(r, "failed")
    /\ UNCHANGED <<body, code, rlink, attempt, issued, links, redisVars, late, readerVars>>

\* The statement rejects, committed or not: 500.
InsertLinkFails(r) ==
    /\ rpc[r] = "insert"
    /\ \/ TargetLengthOK(body[r])
          /\ \E now \in Instants : InsertRow(LinkOf(r, now))
       \/ UNCHANGED links
    /\ GotoR(r, "failed")
    /\ UNCHANGED <<body, code, rlink, attempt, issued, redisVars, late, readerVars>>

\* CachedLinkStore.create ends with cacheSafely, which may be skipped; 201.
CacheLink(r) ==
    /\ rpc[r] = "cache"
    /\ Cache(rlink[r]) \/ UNCHANGED hash
    /\ GotoR(r, "acked")
    /\ UNCHANGED <<body, code, rlink, attempt, issued, queue, lock, dead, links, late, readerVars>>

RequestStep(r) ==
    \/ Submit(r) \/ Generate(r) \/ Enqueue(r) \/ CheckAlias(r)
    \/ InsertLink(r) \/ InsertLinkRefused(r) \/ CacheLink(r)

RequestFault(r) ==
    \/ GenerateFails(r) \/ EnqueueFails(r) \/ CheckAliasFails(r) \/ InsertLinkFails(r)
=============================================================================
