---------------------------- MODULE ClickBuffer ----------------------------
(***************************************************************************)
(* ClickBuffer of one process (src/src/store/click-buffer.ts) and the      *)
(* batched UPDATE it runs, PostgresLinkStore.recordClickBatch.  JavaScript *)
(* runs to the next await, so the steps are: a click recorded (with the    *)
(* flush it may start), a timer flush, the UPDATE, its answer, and the     *)
(* stages of close().                                                      *)
(***************************************************************************)
EXTENDS LinkRows, Integers, FiniteSets, Functions

CONSTANTS
    MaxPendingClicks,      \* maxPendingClicks: a full buffer is flushed at once
    MaxUnmatchedAttempts,  \* maxUnmatchedAttempts
    MaxClicks,             \* bound: clicks recorded per code
    MaxRejects             \* bound: rejected flushes

ASSUME ClickAssumption ==
    /\ IsFiniteSet(Codes)
    /\ MaxPendingClicks \in Nat \ {0}
    /\ MaxUnmatchedAttempts \in Nat \ {0}
    /\ MaxClicks \in Nat
    /\ MaxRejects \in Nat

VARIABLES
    clicks,        \* the clicks column
    pending,       \* this.pending, 0 for a code without an entry
    pendingTotal,  \* this.pendingTotal
    flush,         \* flushPromise: "none", "sent", or "done" in PostgreSQL
    batch,         \* the map being flushed
    unmatched,     \* the codes the UPDATE matched no row for
    attempts,      \* this.unmatchedAttempts, 0 for a code without an entry
    dropped,       \* this.dropped, kept per code
    stage,         \* where close() is
    recorded,      \* history: clicks recorded
    doubled,       \* history: clicks applied by an UPDATE whose answer was lost
    fresh,         \* history: codes with a pending click no flush has carried
    freshBatch,    \* history: the same for the batch being flushed
    rejects        \* rejected flushes so far

buffer == <<pending, pendingTotal, attempts, dropped>>
history == <<recorded, doubled, fresh, freshBatch>>
\* All of the click buffer but the rows, which others write.
bufferVars == <<clicks, buffer, flush, batch, unmatched, stage, history, rejects>>
clickVars == <<stored, bufferVars>>

Counters == [Codes -> Nat]
Zero == [c \in Codes |-> 0]

BufferTypeOK ==
    /\ stored \in SUBSET Codes
    /\ clicks \in Counters /\ pending \in Counters /\ batch \in Counters
    /\ pendingTotal \in Nat
    /\ flush \in {"none", "sent", "done"}
    /\ unmatched \in SUBSET Codes
    /\ attempts \in [Codes -> 0..(MaxUnmatchedAttempts - 1)]
    /\ dropped \in Counters /\ recorded \in Counters /\ doubled \in Counters
    /\ stage \in {"open", "wait", "loop", "closed", "failed"}
    /\ fresh \in SUBSET Codes /\ freshBatch \in SUBSET Codes
    /\ rejects \in 0..MaxRejects

BufferInit ==
    /\ stored \in SUBSET Codes
    /\ clicks = Zero /\ pending = Zero /\ batch = Zero
    /\ pendingTotal = 0
    /\ flush = "none"
    /\ unmatched = {}
    /\ attempts = Zero
    /\ dropped = Zero /\ recorded = Zero /\ doubled = Zero
    /\ stage = "open"
    /\ fresh = {} /\ freshBatch = {}
    /\ rejects = 0

-----------------------------------------------------------------------------
\* Deliberate fault: pendingTotal is not reset when the map is taken.
TakeBatchKeepsTotal(counts, total, new) ==
    IF flush = "none" /\ counts # Zero
    THEN /\ flush' = "sent"
         /\ batch' = counts /\ freshBatch' = new
         /\ pending' = Zero /\ pendingTotal' = total /\ fresh' = {}
    ELSE /\ pending' = counts /\ pendingTotal' = total /\ fresh' = new
         /\ UNCHANGED <<flush, batch, freshBatch>>

\* The synchronous part of flush(): unless one is in flight, performFlush
\* takes the whole map and sends the UPDATE.
TakeBatch(counts, total, new) ==
    IF flush = "none" /\ counts # Zero
    THEN /\ flush' = "sent"
         /\ batch' = counts /\ freshBatch' = new
         /\ pending' = Zero /\ pendingTotal' = 0 /\ fresh' = {}
    ELSE /\ pending' = counts /\ pendingTotal' = total /\ fresh' = new
         /\ UNCHANGED <<flush, batch, freshBatch>>

\* record(): a redirect counts a click; a full buffer starts a flush.
Record(c) ==
    /\ stage = "open"
    /\ recorded[c] < MaxClicks
    /\ recorded' = [recorded EXCEPT ![c] = @ + 1]
    /\ LET counts == [pending EXCEPT ![c] = @ + 1]
           total == pendingTotal + 1
       IN IF total >= MaxPendingClicks
          THEN TakeBatch(counts, total, fresh \union {c})
          ELSE /\ pending' = counts /\ pendingTotal' = total /\ fresh' = fresh \union {c}
               /\ UNCHANGED <<flush, batch, freshBatch>>
    /\ UNCHANGED <<stored, clicks, unmatched, attempts, dropped, stage, doubled, rejects>>

\* The interval timer of start().
TimerFlush ==
    /\ stage = "open"
    /\ flush = "none" /\ pending # Zero
    /\ TakeBatch(pending, pendingTotal, fresh)
    /\ UNCHANGED <<stored, clicks, unmatched, attempts, dropped, stage, recorded, doubled, rejects>>

\* The UPDATE of recordClickBatch: one statement for all rows that exist.
RecordClickBatch ==
    /\ flush = "sent"
    /\ clicks' = [c \in Codes |-> IF c \in stored THEN clicks[c] + batch[c] ELSE clicks[c]]
    /\ unmatched' = {c \in Codes : batch[c] > 0 /\ c \notin stored}
    /\ flush' = "done"
    /\ UNCHANGED <<stored, buffer, batch, stage, history, rejects>>

\* Deliberate fault: one attempt too many.
GivesUpLate(c) == attempts[c] >= MaxUnmatchedAttempts

\* A code comes back to the buffer unless its attempts are used up.
GivesUp(c) == attempts[c] + 1 >= MaxUnmatchedAttempts

Retried == {c \in unmatched : ~GivesUp(c)}

\* Deliberate fault: clicks recorded during the flush are overwritten.
MergeOverwrites(codes) == [c \in Codes |-> IF c \in codes THEN batch[c] ELSE pending[c]]

Merge(codes) == [c \in Codes |-> IF c \in codes THEN pending[c] + batch[c] ELSE pending[c]]

FlushEnds ==
    /\ flush' = "none"
    /\ batch' = Zero
    /\ unmatched' = {}
    /\ freshBatch' = {}

\* Deliberate fault: attempts are cleared for unmatched codes too.
FlushReturnsForgets ==
    /\ flush = "done"
    /\ attempts' = [c \in Codes |-> IF batch[c] > 0 THEN 0 ELSE attempts[c]]
    /\ pending' = Merge(Retried)
    /\ pendingTotal' = pendingTotal + SumFunctionOnSet(batch, Retried)
    /\ dropped' = [c \in Codes |->
          IF c \in unmatched \ Retried THEN dropped[c] + batch[c] ELSE dropped[c]]
    /\ FlushEnds
    /\ stage' = IF stage = "wait" THEN "loop" ELSE stage
    /\ UNCHANGED <<stored, clicks, recorded, doubled, fresh, rejects>>

\* The answer arrives: matched codes forget their attempts, unmatched ones are
\* merged back or dropped.
FlushReturns ==
    /\ flush = "done"
    /\ attempts' = [c \in Codes |->
          IF c \in Retried THEN attempts[c] + 1
          ELSE IF batch[c] > 0 THEN 0 ELSE attempts[c]]
    /\ pending' = Merge(Retried)
    /\ pendingTotal' = pendingTotal + SumFunctionOnSet(batch, Retried)
    /\ dropped' = [c \in Codes |->
          IF c \in unmatched \ Retried THEN dropped[c] + batch[c] ELSE dropped[c]]
    /\ FlushEnds
    /\ stage' = IF stage = "wait" THEN "loop" ELSE stage
    /\ UNCHANGED <<stored, clicks, recorded, doubled, fresh, rejects>>

\* recordClickBatch rejects, before or after PostgreSQL committed it: the
\* whole batch is merged back, and a close() waiting for it rejects.
FlushRejects ==
    /\ flush # "none"
    /\ rejects < MaxRejects
    /\ rejects' = rejects + 1
    /\ pending' = Merge(Codes)
    /\ pendingTotal' = pendingTotal + SumFunctionOnSet(batch, Codes)
    /\ doubled' = [c \in Codes |->
          IF flush = "done" /\ c \notin unmatched THEN doubled[c] + batch[c] ELSE doubled[c]]
    /\ FlushEnds
    /\ stage' = IF stage = "wait" THEN "failed" ELSE stage
    /\ UNCHANGED <<stored, clicks, attempts, dropped, recorded, fresh>>

\* Deliberate fault: the flush in flight is not awaited.
CloseWithoutWait ==
    /\ stage = "open"
    /\ stage' = "loop"
    /\ UNCHANGED <<stored, clicks, buffer, flush, batch, unmatched, history, rejects>>

\* close(): no more records or timer; a flush in flight is awaited first.
Close ==
    /\ stage = "open"
    /\ stage' = IF flush # "none" THEN "wait" ELSE "loop"
    /\ UNCHANGED <<stored, clicks, buffer, flush, batch, unmatched, history, rejects>>

\* The loop of close(): flush until the map is empty.
CloseLoop ==
    /\ stage = "loop"
    /\ TakeBatch(pending, pendingTotal, fresh)
    /\ stage' = IF pending # Zero THEN "wait" ELSE "closed"
    /\ UNCHANGED <<stored, clicks, unmatched, attempts, dropped, recorded, doubled, rejects>>

\* The sync worker inserts the rows of a batch of links (module LinkSyncWorker).
RowsInserted(rows) ==
    /\ rows \intersect stored = {}
    /\ stored' = stored \union rows
    /\ UNCHANGED <<clicks, buffer, flush, batch, unmatched, stage, history, rejects>>

BufferNext ==
    \/ \E c \in Codes : Record(c)
    \/ \E rows \in SUBSET Codes : RowsInserted(rows)
    \/ TimerFlush \/ RecordClickBatch \/ FlushReturns \/ FlushRejects
    \/ Close \/ CloseLoop

BufferSpec == BufferInit /\ [][BufferNext]_clickVars

(***************************************************************************)
(* Fairness: the timer fires again and again, a query settles, and close() *)
(* goes on once what it awaits has settled.                                *)
(***************************************************************************)
BufferFairSpec ==
    /\ BufferSpec
    /\ WF_clickVars(TimerFlush)
    /\ WF_clickVars(RecordClickBatch)
    /\ WF_clickVars(FlushReturns)
    /\ WF_clickVars(CloseLoop)

-----------------------------------------------------------------------------
\* What of the batch PostgreSQL has not counted yet.
InFlight(c) == IF flush = "sent" \/ c \in unmatched THEN batch[c] ELSE 0

\* Every recorded click is in the clicks column, in the buffer, in flight or
\* counted as dropped, and the only clicks counted twice are those of an UPDATE
\* that committed while its answer was lost (performFlush, lines 194-211).
ClicksConserved ==
    \A c \in Codes :
        clicks[c] + pending[c] + InFlight(c) + dropped[c] = recorded[c] + doubled[c]

\* pendingTotal, which decides when a full buffer flushes, counts the map
\* through takes, merges and retries.
PendingTotalIsSum == pendingTotal = SumFunction(pending)

\* close() returns only when nothing is buffered and no flush is in flight.
CloseDrains == stage = "closed" => flush = "none" /\ pending = Zero

\* A click is dropped only after some earlier flush carried it and found no
\* row: click-buffer.ts:3-5 and docs/ARCHITECTURE.md:43 promise a retry.
\* A late click is dropped without one: attempts are counted per code.
DroppedWereRetried ==
    [][\A c \in Codes : dropped'[c] > dropped[c] => c \notin freshBatch]_clickVars

\* close() ends, even with clicks for links that never get a row.
CloseEnds == stage = "wait" ~> stage \in {"closed", "failed"}

\* Every click is settled in the end, in PostgreSQL or as dropped, unless
\* close() gave up.
ClicksSettle ==
    <>[](stage = "failed" \/ \A c \in Codes : clicks[c] + dropped[c] = recorded[c] + doubled[c])

\* The buffer's state is of its type, and its total counts its map.
BufferConsistent == BufferTypeOK /\ PendingTotalIsSum

\* close() ends and clicks settle, whatever flushes reject (click-buffer.ts:166).
BufferSettles == CloseEnds /\ ClicksSettle
=============================================================================
