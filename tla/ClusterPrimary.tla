--------------------------- MODULE ClusterPrimary ---------------------------
(***************************************************************************)
(* The primary process (src/src/cluster.ts): it forks one worker for each  *)
(* index and forks again when one exits, adds up the metric batches,       *)
(* collects flushes before it answers a snapshot request, and shuts down   *)
(* with a forced kill at a time limit.  Every handler runs to its end.     *)
(*                                                                         *)
(* A worker's end reaches the primary as two events in either order:       *)
(* "exit", at once, and "disconnect", once the channel has been read.      *)
(***************************************************************************)
EXTENDS ClusterMetrics

CONSTANTS
    MaxFaults,   \* crashes, failed starts and stray signals
    MayStop      \* whether the primary is ever told to shut down

ASSUME PrimaryAssumption == MaxFaults \in Nat /\ MayStop \in BOOLEAN

VARIABLES
    connected,      \* worker.isConnected()
    exited,         \* worker.isDead(), the exit event has been handled
    workerIndexes,  \* the index of each worker that has not exited, or None
    nextId,         \* the id of the next worker
    aggregate,      \* MetricsAggregator's snapshot
    collecting,     \* pendingSnapshots: renders whose flushes are awaited
    awaiting,       \* awaitingWorkerIds of each
    partial,        \* renders answered because the time limit passed
    shuttingDown,
    forceShutdown,  \* the kill timer: unset, set, fired, cleared
    faults

primarySide == <<connected, exited, workerIndexes, nextId, aggregate, collecting, awaiting,
                 partial, shuttingDown, forceShutdown>>

vars == <<workerSide, primarySide, faults>>

\* An entry of cluster.workers: forked, and not both exited and disconnected.
Known(w) == w < nextId /\ (connected[w] \/ ~exited[w])

TypeOK ==
    /\ MetricsTypeOK
    /\ connected \in [Workers -> BOOLEAN]
    /\ exited \in [Workers -> BOOLEAN]
    /\ workerIndexes \in [Workers -> Indexes \union {None}]
    /\ nextId \in 1..(MaxForks + 1)
    /\ aggregate \in Snapshot
    /\ collecting \in SUBSET Renders
    /\ awaiting \in [Renders -> SUBSET Workers]
    /\ partial \in SUBSET Renders
    /\ shuttingDown \in BOOLEAN
    /\ forceShutdown \in {"unset", "set", "fired", "cleared"}
    /\ faults \in 0..MaxFaults

Init ==
    /\ MetricsInit
    /\ connected = [w \in Workers |-> w <= WorkerCount]
    /\ exited = [w \in Workers |-> FALSE]
    /\ workerIndexes = [w \in Workers |-> IF w <= WorkerCount THEN w - 1 ELSE None]
    /\ nextId = WorkerCount + 1
    /\ aggregate = EmptySnapshot
    /\ collecting = {}
    /\ awaiting = [r \in Renders |-> {}]
    /\ partial = {}
    /\ shuttingDown = FALSE
    /\ forceShutdown = "unset"
    /\ faults = 0

-----------------------------------------------------------------------------
(***************************************************************************)
(* Metrics                                                                 *)
(***************************************************************************)
\* completeSnapshot for a set of requests: forget each, and send the totals
\* to each requester that is still connected.
CompleteSnapshots(done) ==
    /\ collecting' = collecting \ done
    /\ response' = [r \in Renders |->
            IF r \in done /\ connected[renderer[r]] THEN aggregate ELSE response[r]]

Take(w) == toPrimary' = [toPrimary EXCEPT ![w] = Tail(@)]

\* A batch: metrics.add.
HandleBatch(w) ==
    /\ toPrimary[w] # <<>> /\ Head(toPrimary[w]).type = "batch"
    /\ Take(w)
    /\ aggregate' = [aggregate EXCEPT ![w] = @ + Head(toPrimary[w]).count]
    /\ UNCHANGED <<processVars, collectorVars, flushAsked, response, renderVars, lost, connected,
                   exited, workerIndexes, nextId, collecting, awaiting, partial, shuttingDown,
                   forceShutdown>>

\* requestWorkerFlushes: ask every live worker, the requester too, to flush;
\* with none left, answer from what there is.
HandleSnapshotRequest(w) ==
    /\ toPrimary[w] # <<>> /\ Head(toPrimary[w]).type = "request"
    /\ Take(w)
    /\ LET r == Head(toPrimary[w]).id
           workers == {v \in Workers : v < nextId /\ connected[v] /\ ~exited[v]}
       IN IF workers = {}
          THEN /\ response' = [response EXCEPT ![r] = IF connected[w] THEN aggregate ELSE @]
               /\ UNCHANGED <<collecting, awaiting, flushAsked>>
          ELSE /\ collecting' = collecting \union {r}
               /\ awaiting' = [awaiting EXCEPT ![r] = workers]
               /\ flushAsked' = flushAsked \union {<<v, r>> : v \in {v \in workers : Alive(v)}}
               /\ UNCHANGED response
    /\ UNCHANGED <<processVars, collectorVars, renderVars, lost, connected, exited, workerIndexes,
                   nextId, aggregate, partial, shuttingDown, forceShutdown>>

\* Remove a worker from the awaited ones; complete what waits for nobody else.
StopAwaiting(w, requests) ==
    /\ awaiting' = [r \in Renders |-> IF r \in requests THEN awaiting[r] \ {w} ELSE awaiting[r]]
    /\ CompleteSnapshots({r \in requests : awaiting[r] \subseteq {w}})

\* acknowledgeWorkerFlush; nothing if the request is no longer collected.
HandleFlushResponse(w) ==
    /\ toPrimary[w] # <<>> /\ Head(toPrimary[w]).type = "flushed"
    /\ Take(w)
    /\ StopAwaiting(w, {Head(toPrimary[w]).id} \intersect collecting)
    /\ UNCHANGED <<processVars, collectorVars, flushAsked, renderVars, lost, connected, exited,
                   workerIndexes, nextId, aggregate, partial, shuttingDown, forceShutdown>>

\* METRICS_FLUSH_TIMEOUT_MS passes: answer with what has arrived.
SnapshotTimeout(r) ==
    /\ r \in collecting
    /\ CompleteSnapshots({r})
    /\ partial' = partial \union {r}
    /\ UNCHANGED <<processVars, collectorVars, toPrimary, flushAsked, renderVars, lost, connected,
                   exited, workerIndexes, nextId, aggregate, awaiting, shuttingDown, forceShutdown>>

-----------------------------------------------------------------------------
(***************************************************************************)
(* Workers                                                                 *)
(***************************************************************************)
\* The channel of a process that is gone has been read to its end.
WorkerDisconnect(w) ==
    /\ proc[w] = "gone" /\ connected[w] /\ toPrimary[w] = <<>>
    /\ connected' = [connected EXCEPT ![w] = FALSE]
    /\ UNCHANGED <<workerSide, exited, workerIndexes, nextId, aggregate, collecting, awaiting,
                   partial, shuttingDown, forceShutdown>>

\* startWorker(index), or no new worker while shutting down.
\* (Deliberate fault: the new worker always gets index 0.)
ReforkIndexZero(w) ==
    IF shuttingDown
    THEN /\ workerIndexes' = [workerIndexes EXCEPT ![w] = None]
         /\ UNCHANGED <<proc, connected, nextId>>
    ELSE /\ nextId <= MaxForks
         /\ workerIndexes' = [workerIndexes EXCEPT ![w] = None, ![nextId] = 0]
         /\ Become(nextId, "starting")
         /\ connected' = [connected EXCEPT ![nextId] = TRUE]
         /\ nextId' = nextId + 1

Refork(w) ==
    IF shuttingDown
    THEN /\ workerIndexes' = [workerIndexes EXCEPT ![w] = None]
         /\ UNCHANGED <<proc, connected, nextId>>
    ELSE /\ nextId <= MaxForks
         /\ workerIndexes' = [workerIndexes EXCEPT ![w] = None, ![nextId] = workerIndexes[w]]
         /\ Become(nextId, "starting")
         /\ connected' = [connected EXCEPT ![nextId] = TRUE]
         /\ nextId' = nextId + 1

\* The exit event: removeWorkerFromSnapshots, the new worker, and during
\* shutdown the end of the kill timer when nobody is left.
\* (Deliberate fault: the snapshots still wait for the worker.)
WorkerExitUnnoticed(w) ==
    /\ proc[w] = "gone" /\ ~exited[w]
    /\ exited' = [exited EXCEPT ![w] = TRUE]
    /\ Refork(w)
    /\ UNCHANGED <<signal, collectorVars, toPrimary, flushAsked, renderVars, lost, aggregate,
                   partial, shuttingDown, forceShutdown, response, collecting, awaiting>>

WorkerExit(w) ==
    /\ proc[w] = "gone" /\ ~exited[w]
    /\ exited' = [exited EXCEPT ![w] = TRUE]
    /\ StopAwaiting(w, collecting)
    /\ Refork(w)
    /\ forceShutdown' =
          IF shuttingDown /\ forceShutdown = "set" /\ \A v \in 1..(nextId - 1) : v = w \/ exited[v]
          THEN "cleared" ELSE forceShutdown
    /\ UNCHANGED <<signal, collectorVars, toPrimary, flushAsked, renderVars, lost, aggregate,
                   partial, shuttingDown>>

-----------------------------------------------------------------------------
(***************************************************************************)
(* Shutdown                                                                *)
(***************************************************************************)
\* SIGINT or SIGTERM: collections are dropped, every worker gets SIGTERM and
\* the kill timer is set.
Shutdown ==
    /\ MayStop /\ ~shuttingDown
    /\ shuttingDown' = TRUE
    /\ collecting' = {}
    /\ forceShutdown' = IF \E w \in Workers : Known(w) THEN "set" ELSE forceShutdown
    /\ signal' = [w \in Workers |->
            IF Known(w) /\ Alive(w) /\ signal[w] = "no" THEN "term" ELSE signal[w]]
    /\ UNCHANGED <<proc, collectorVars, toPrimary, flushAsked, response, renderVars, lost,
                   connected, exited, workerIndexes, nextId, aggregate, awaiting, partial>>

\* SHUTDOWN_TIMEOUT_MS passes: SIGKILL for every worker not yet dead.
\* (Deliberate fault: only workers that are still connected are killed, and
\* the signal is SIGTERM once more.)
ForceShutdownTerm ==
    /\ forceShutdown = "set"
    /\ forceShutdown' = "fired"
    /\ signal' = [w \in Workers |-> IF Alive(w) /\ connected[w] THEN "term" ELSE signal[w]]
    /\ UNCHANGED <<proc, collectorVars, toPrimary, flushAsked, response, renderVars, lost,
                   connected, exited, workerIndexes, nextId, aggregate, collecting, awaiting,
                   partial, shuttingDown>>

ForceShutdown ==
    /\ forceShutdown = "set"
    /\ forceShutdown' = "fired"
    /\ signal' = [w \in Workers |-> IF Alive(w) /\ ~exited[w] THEN "kill" ELSE signal[w]]
    /\ UNCHANGED <<proc, collectorVars, toPrimary, flushAsked, response, renderVars, lost,
                   connected, exited, workerIndexes, nextId, aggregate, collecting, awaiting,
                   partial, shuttingDown>>

-----------------------------------------------------------------------------
Receive(w) == HandleBatch(w) \/ HandleSnapshotRequest(w) \/ HandleFlushResponse(w)

Supervise(w) == WorkerDisconnect(w) \/ WorkerExit(w)

Work(w) == WorkerStep(w) /\ UNCHANGED primarySide

Expire(r) == RenderTimeout(r) /\ UNCHANGED primarySide

\* A stray SIGTERM or SIGINT: Ctrl-C reaches the workers as well.
StraySignal(w) ==
    /\ Alive(w) /\ signal[w] = "no"
    /\ signal' = [signal EXCEPT ![w] = "term"]
    /\ UNCHANGED <<proc, collectorVars, toPrimary, flushAsked, response, renderVars, lost>>

Fault ==
    /\ faults < MaxFaults
    /\ faults' = faults + 1
    /\ \E w \in Workers : Die(w) \/ StartFails(w) \/ StraySignal(w)
    /\ UNCHANGED primarySide

Next ==
    \/ /\ \/ \E w \in Workers : Work(w) \/ Receive(w) \/ Supervise(w)
          \/ \E r \in Renders : Expire(r) \/ SnapshotTimeout(r)
          \/ Shutdown
          \/ ForceShutdown
       /\ UNCHANGED faults
    \/ Fault

Spec == Init /\ [][Next]_vars

(***************************************************************************)
(* Fairness.  Timers fire, the primary reads its events, a killed process  *)
(* dies.  Nothing is assumed of a worker: it may start, serve or drain for *)
(* ever.                                                                   *)
(***************************************************************************)
Fairness ==
    /\ \A w \in Workers :
          /\ WF_vars(Receive(w) /\ UNCHANGED faults)
          /\ WF_vars(Supervise(w) /\ UNCHANGED faults)
          /\ WF_vars(Killed(w) /\ UNCHANGED <<primarySide, faults>>)
    /\ \A r \in Renders :
          /\ WF_vars(Expire(r) /\ UNCHANGED faults)
          /\ WF_vars(SnapshotTimeout(r) /\ UNCHANGED faults)
    /\ WF_vars(ForceShutdown /\ UNCHANGED faults)

FairSpec == Spec /\ Fairness

-----------------------------------------------------------------------------
(***************************************************************************)
(* Safety                                                                  *)
(***************************************************************************)
\* Every event is waiting in its worker, in a batch on its way, added up, or
\* died with its process: flushing, acknowledging, closing and forking again
\* count nothing twice and drop nothing.
EventsConserved ==
    \A w \in Workers :
        recorded[w] = pending[w] + BatchSum(toPrimary[w]) + aggregate[w] + lost[w]

\* A worker that shut down in order has delivered everything once its channel
\* is read, even when its exit was noticed first.
GracefulExitDelivers ==
    \A w \in Workers :
        (proc[w] = "gone" /\ ~connected[w] /\ lost[w] = 0) => aggregate[w] = recorded[w]

\* "Flush all pending metrics before acknowledging" (cluster-metrics.ts:553):
\* an answer that did not hit the primary's time limit contains every event a
\* still running worker had recorded when the scrape began, whichever workers
\* exited or were forked while the flushes were collected.
AnswersComplete ==
    \A r \in Renders \ partial : \A w \in Workers :
        (response[r] # None /\ proc[w] # "gone") => response[r][w] >= before[r].recorded[w]

\* A collection waits for somebody, and never for a worker whose exit has been
\* handled: it ends by acknowledgements and exits alone.
AwaitsLiveWorkers ==
    \A r \in collecting : awaiting[r] # {} /\ \A w \in awaiting[r] : ~exited[w]

\* The state of the cluster is of its type, and its collections can end
\* (cluster.ts:197).
CollectionsConsistent == TypeOK /\ AwaitsLiveWorkers

\* The indexes of running processes differ, so no shard has two workers of one
\* host at work, whatever was forked again.
OneProcessPerIndex ==
    \A v, w \in Workers :
        (Alive(v) /\ Alive(w) /\ workerIndexes[v] = workerIndexes[w]) => v = w

\* "Each worker keeps a stable index so it owns the same write-behind shards
\* across restarts" (cluster.ts:89): until shutdown every shard is in the list
\* of exactly one worker.
EveryShardOwned ==
    ~shuttingDown =>
        \A s \in Shards : \E w \in Workers :
            /\ workerIndexes[w] # None /\ s \in ShardsForWorker(workerIndexes[w], WorkerCount)
            /\ \A v \in Workers \ {w} :
                  workerIndexes[v] # None => s \notin ShardsForWorker(workerIndexes[v], WorkerCount)

\* Indexes and shards belong to one worker each, through every fork and exit
\* (cluster.ts:285).
ShardsHaveOneWorker == OneProcessPerIndex /\ EveryShardOwned

\* "Named monotonic counters" (metrics.ts:21): no scrape shows less than one
\* that had ended before it began.  A scrape that times out does: its
\* snapshot is empty.
ScrapesMonotone ==
    \A r \in Renders : \A w \in Workers :
        rendered[r] # None => rendered[r][w] >= before[r].shown[w]

(***************************************************************************)
(* Liveness                                                                *)
(***************************************************************************)
\* A scrape is answered, times out or ends with its process.
RendersSettle == \A r \in Renders : (render[r] = "waiting") ~> (render[r] # "waiting")

\* A shutdown ends with every worker gone and noticed, even if workers hang.
ShutdownEnds == shuttingDown ~> \A w \in 1..(nextId - 1) : exited[w]
=============================================================================
