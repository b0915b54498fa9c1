--------------------------- MODULE ClusterMetrics ---------------------------
(***************************************************************************)
(* The worker side of the metrics of a cluster                             *)
(* (src/src/cluster-metrics.ts, class ClusterMetrics) and the life of a    *)
(* worker process as server.ts leads it: start, serve, ordered shutdown.   *)
(*                                                                         *)
(* A snapshot is a count for each series.  Every worker counts in a series *)
(* of its own here, so that a count tells whose it is.  Merging snapshots  *)
(* series by series is module Metrics.                                     *)
(*                                                                         *)
(* The channel from a worker to the primary is ordered, and the protocol   *)
(* rests on that order.  What the primary sends, flush requests and        *)
(* snapshot responses, meets in no handler, so its order is left open.     *)
(***************************************************************************)
EXTENDS ShardKeys, Sequences, FiniteSets, Functions

CONSTANTS
    MaxForks,    \* processes the primary may fork in a behaviour
    MaxEvents,   \* events the workers may record between them
    Renders,     \* GET /metrics requests
    None

ASSUME ClusterAssumption ==
    /\ MaxForks \in Nat /\ MaxForks >= WorkerCount
    /\ MaxEvents \in Nat
    /\ IsFiniteSet(Renders)

\* worker.id: forked processes are numbered from 1.
Workers == 1..MaxForks

Snapshot == [Workers -> Nat]

EmptySnapshot == [w \in Workers |-> 0]

ASSUME NoneAssumption == None \notin Snapshot /\ None \notin Nat

VARIABLES
    proc,        \* what each process is doing
    signal,      \* the signal it was sent and has not acted on
    pending,     \* #pendingSnapshot: events not yet sent
    toPrimary,   \* its IPC channel to the primary, oldest message first
    flushAsked,  \* flush requests on their way to workers
    response,    \* the snapshot response sent for each render, or None
    render,      \* where each render stands
    renderer,    \* the worker that serves it
    rendered,    \* the snapshot it was resolved with
    recorded,    \* history: events each worker has recorded
    lost,        \* history: events that died with a process
    before       \* history: for each render, what had been recorded when it
                 \* began and the most that an earlier render had shown

processVars == <<proc, signal>>
collectorVars == <<pending, recorded>>
renderVars == <<render, renderer, rendered, before>>
workerSide == <<proc, signal, pending, toPrimary, flushAsked, response,
                render, renderer, rendered, recorded, lost, before>>

ProcessStates == {"none", "starting", "serving", "closing", "closed", "gone"}

Message ==
    [type : {"batch"}, count : Nat] \union [type : {"request", "flushed"}, id : Renders]

MetricsTypeOK ==
    /\ proc \in [Workers -> ProcessStates]
    /\ signal \in [Workers -> {"no", "term", "kill"}]
    /\ pending \in [Workers -> Nat]
    /\ toPrimary \in [Workers -> Seq(Message)]
    /\ flushAsked \in SUBSET (Workers \X Renders)
    /\ response \in [Renders -> Snapshot \union {None}]
    /\ render \in [Renders -> {"new", "waiting", "answered", "timedOut", "cut"}]
    /\ renderer \in [Renders -> Workers \union {None}]
    /\ rendered \in [Renders -> Snapshot \union {None}]
    /\ recorded \in [Workers -> Nat]
    /\ lost \in [Workers -> Nat]
    /\ before \in [Renders -> [recorded : Snapshot, shown : Snapshot]]

MetricsInit ==
    /\ proc = [w \in Workers |-> IF w <= WorkerCount THEN "starting" ELSE "none"]
    /\ signal = [w \in Workers |-> "no"]
    /\ pending = [w \in Workers |-> 0]
    /\ toPrimary = [w \in Workers |-> <<>>]
    /\ flushAsked = {}
    /\ response = [r \in Renders |-> None]
    /\ render = [r \in Renders |-> "new"]
    /\ renderer = [r \in Renders |-> None]
    /\ rendered = [r \in Renders |-> None]
    /\ recorded = [w \in Workers |-> 0]
    /\ lost = [w \in Workers |-> 0]
    /\ before = [r \in Renders |-> [recorded |-> EmptySnapshot, shown |-> EmptySnapshot]]

Alive(w) == proc[w] \notin {"none", "gone"}

\* The listener on "message" is installed and not yet removed.
Listening(w) == proc[w] \in {"serving", "closing"}

Batch(n) == [type |-> "batch", count |-> n]

Request(r) == [type |-> "request", id |-> r]

\* (Deliberate fault: an acknowledgement without the id it acknowledges, which
\* the primary's validator refuses.)
FlushedAnonymous(r) == [type |-> "flushed", id |-> None]

Flushed(r) == [type |-> "flushed", id |-> r]

Become(w, state) == proc' = [proc EXCEPT ![w] = state]

\* flush followed by further messages.  An empty snapshot is not sent.  send
\* throws only when the channel is gone, and then what was taken is merged
\* back, so a flush that fails is no step.
\* (Deliberate fault: the snapshot is sent and not reset.)
FlushThenKeeps(w, more) ==
    /\ toPrimary' = [toPrimary EXCEPT ![w] =
            @ \o (IF pending[w] = 0 THEN <<>> ELSE <<Batch(pending[w])>>) \o more]
    /\ UNCHANGED pending

\* (Deliberate fault: the acknowledgement overtakes the batch.)
FlushThenSwapped(w, more) ==
    /\ toPrimary' = [toPrimary EXCEPT ![w] =
            @ \o more \o (IF pending[w] = 0 THEN <<>> ELSE <<Batch(pending[w])>>)]
    /\ pending' = [pending EXCEPT ![w] = 0]

FlushThen(w, more) ==
    /\ toPrimary' = [toPrimary EXCEPT ![w] =
            @ \o (IF pending[w] = 0 THEN <<>> ELSE <<Batch(pending[w])>>) \o more]
    /\ pending' = [pending EXCEPT ![w] = 0]

-----------------------------------------------------------------------------
(***************************************************************************)
(* A serving worker                                                        *)
(***************************************************************************)
\* request, created, redirect, miss, increment.
Record(w) ==
    /\ Listening(w)
    /\ SumFunction(recorded) < MaxEvents
    /\ recorded' = [recorded EXCEPT ![w] = @ + 1]
    /\ pending' = [pending EXCEPT ![w] = @ + 1]
    /\ UNCHANGED <<processVars, toPrimary, flushAsked, response, renderVars, lost>>

\* The flush timer.
TimerFlush(w) ==
    /\ Listening(w)
    /\ pending[w] > 0
    /\ FlushThen(w, <<>>)
    /\ UNCHANGED <<processVars, flushAsked, response, renderVars, recorded, lost>>

Shown == [w \in Workers |->
    LET counts == {0} \union {rendered[r][w] : r \in {r \in Renders : rendered[r] # None}}
    IN CHOOSE n \in counts : \A m \in counts : m <= n]

\* GET /metrics: requestSnapshot sends the request and starts the timer.
RequestSnapshot(w, r) ==
    /\ proc[w] = "serving"
    /\ render[r] = "new"
    /\ render' = [render EXCEPT ![r] = "waiting"]
    /\ renderer' = [renderer EXCEPT ![r] = w]
    /\ before' = [before EXCEPT ![r] = [recorded |-> recorded, shown |-> Shown]]
    /\ toPrimary' = [toPrimary EXCEPT ![w] = Append(@, Request(r))]
    /\ UNCHANGED <<processVars, pending, flushAsked, response, rendered, recorded, lost>>

Resolve(r, how, snapshot) ==
    /\ render' = [render EXCEPT ![r] = how]
    /\ rendered' = [rendered EXCEPT ![r] = snapshot]
    /\ UNCHANGED <<renderer, before>>

\* timeoutMs passes: the request is forgotten and an empty snapshot rendered.
\* (Deliberate fault: the timer was not started.)
RenderTimeoutNever(r) == FALSE /\ Resolve(r, "timedOut", EmptySnapshot)

RenderTimeout(r) ==
    /\ render[r] = "waiting"
    /\ Resolve(r, "timedOut", EmptySnapshot)
    /\ UNCHANGED <<processVars, collectorVars, toPrimary, flushAsked, response, lost>>

\* handleMessage, flush request: flush first, then acknowledge.
HandleFlushRequest(w, r) ==
    /\ Listening(w)
    /\ <<w, r>> \in flushAsked
    /\ flushAsked' = flushAsked \ {<<w, r>>}
    /\ FlushThen(w, <<Flushed(r)>>)
    /\ UNCHANGED <<processVars, response, renderVars, recorded, lost>>

\* handleMessage, snapshot response; one that comes after the time-out finds
\* no pending request and changes nothing.
HandleSnapshotResponse(w, r) ==
    /\ Listening(w)
    /\ renderer[r] = w /\ render[r] = "waiting" /\ response[r] # None
    /\ Resolve(r, "answered", response[r])
    /\ UNCHANGED <<processVars, collectorVars, toPrimary, flushAsked, response, lost>>

-----------------------------------------------------------------------------
(***************************************************************************)
(* The life of a process                                                   *)
(***************************************************************************)
\* server.ts has set up its collector and listens.
Boot(w) ==
    /\ proc[w] = "starting"
    /\ Become(w, "serving")
    /\ UNCHANGED <<signal, collectorVars, toPrimary, flushAsked, response, renderVars, lost>>

\* What ends with a process: its renders, the events it had not sent, and of
\* its channel what never left the process.
Vanish(w, sent) ==
    /\ Become(w, "gone")
    /\ toPrimary' = [toPrimary EXCEPT ![w] = SubSeq(@, 1, sent)]
    /\ flushAsked' = {f \in flushAsked : f[1] # w}
    /\ pending' = [pending EXCEPT ![w] = 0]
    /\ render' = [r \in Renders |->
            IF renderer[r] = w /\ render[r] = "waiting" THEN "cut" ELSE render[r]]
    /\ UNCHANGED <<signal, response, renderer, rendered, recorded, before>>

\* SIGTERM or SIGINT.  shutdown begins with app.close; before the handler is
\* installed the signal kills.
Terminate(w) ==
    /\ signal[w] = "term"
    /\ proc[w] \in {"starting", "serving"}
    /\ Become(w, "closing")
    /\ signal' = [signal EXCEPT ![w] = "no"]
    /\ UNCHANGED <<collectorVars, toPrimary, flushAsked, response, renderVars, lost>>

TerminateEarly(w) ==
    /\ signal[w] = "term"
    /\ proc[w] = "starting"
    /\ Vanish(w, Len(toPrimary[w]))
    /\ UNCHANGED lost

\* Startup fails: closeResources, with nothing recorded yet.
StartFails(w) ==
    /\ proc[w] = "starting"
    /\ Become(w, "closed")
    /\ UNCHANGED <<signal, collectorVars, toPrimary, flushAsked, response, renderVars, lost>>

\* app.close waits for requests in flight, /metrics among them; then
\* metrics.close flushes and removes the listener.
\* (Deliberate fault: close does not flush.)
CloseMetricsUnflushed(w) ==
    /\ proc[w] = "closing"
    /\ \A r \in Renders : renderer[r] = w => render[r] # "waiting"
    /\ Become(w, "closed")
    /\ UNCHANGED <<signal, collectorVars, toPrimary, flushAsked, response, renderVars, lost>>

CloseMetrics(w) ==
    /\ proc[w] = "closing"
    /\ \A r \in Renders : renderer[r] = w => render[r] # "waiting"
    /\ Become(w, "closed")
    /\ FlushThen(w, <<>>)
    /\ UNCHANGED <<signal, flushAsked, response, renderVars, recorded, lost>>

\* disconnectFromPrimary ends a cluster worker; the channel has been written.
Leave(w) ==
    /\ proc[w] = "closed"
    /\ Vanish(w, Len(toPrimary[w]))
    /\ UNCHANGED lost

\* The events a message carries, and those on their way in a channel.
EventsIn(message) == IF message.type = "batch" THEN message.count ELSE 0

BatchSum(messages) == SumFunction([i \in DOMAIN messages |-> EventsIn(messages[i])])

\* The process dies: SIGKILL, a crash.  Messages still in its own buffers go
\* with it.
Die(w) ==
    /\ Alive(w)
    /\ \E sent \in 0..Len(toPrimary[w]) :
          /\ Vanish(w, sent)
          /\ lost' = [lost EXCEPT ![w] = pending[w] + BatchSum(toPrimary[w])
                                          - BatchSum(SubSeq(toPrimary[w], 1, sent))]

\* A signal after the first.  The handlers are installed with process.once: one
\* of the same kind kills, one of the other kind finds shutdown called already.
TerminateAgain(w) ==
    /\ signal[w] = "term"
    /\ proc[w] \in {"closing", "closed"}
    /\ Die(w)

Disregard(w) ==
    /\ signal[w] = "term"
    /\ proc[w] \in {"closing", "closed"}
    /\ signal' = [signal EXCEPT ![w] = "no"]
    /\ UNCHANGED <<proc, collectorVars, toPrimary, flushAsked, response, renderVars, lost>>

Killed(w) == signal[w] = "kill" /\ Die(w)

\* What a worker does by itself, and what ends its renders.
WorkerStep(w) ==
    \/ Record(w) \/ TimerFlush(w) \/ Boot(w) \/ Terminate(w) \/ TerminateEarly(w)
    \/ TerminateAgain(w) \/ Disregard(w) \/ CloseMetrics(w) \/ Leave(w) \/ Killed(w)
    \/ \E r \in Renders :
          RequestSnapshot(w, r) \/ HandleFlushRequest(w, r) \/ HandleSnapshotResponse(w, r)
=============================================================================
