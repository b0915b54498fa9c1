--------------------------- MODULE ServerShutdown ---------------------------
(***************************************************************************)
(* The ordered shutdown of a server process (src/src/server.ts): app.close,*)
(* then the sync worker, the click buffer, the metrics and the             *)
(* connections.  It composes the schedule of the sync worker with the      *)
(* click buffer of the same process; both work on the rows of PostgreSQL.  *)
(***************************************************************************)
EXTENDS SyncSchedule, ClickBuffer

VARIABLES
    phase,        \* what the process is awaiting
    redirecting   \* codes of redirects between store.find and recordClick

vars == <<scheduleVars, bufferVars, phase, redirecting>>

TypeOK ==
    /\ ScheduleTypeOK
    /\ BufferTypeOK
    /\ phase \in {"serving", "app", "sync", "clicks", "connections", "exited", "failed"}
    /\ redirecting \subseteq Codes

Init ==
    /\ ScheduleInit
    /\ BufferInit
    /\ phase = "serving"
    /\ redirecting = {}

-----------------------------------------------------------------------------
\* GET /:code finds a link, in Redis while it is queued or in PostgreSQL, and
\* counts the click after that.  The pending hash of a refused link has no end.
FindLink(c) ==
    /\ ~job /\ phase = "serving"
    /\ c \in Queued(Shards) \union stored \union dead
    /\ recorded[c] < MaxClicks
    /\ redirecting' = redirecting \union {c}
    /\ UNCHANGED <<scheduleVars, bufferVars, phase>>

RecordClick(c) ==
    /\ c \in redirecting
    /\ Record(c)
    /\ redirecting' = redirecting \ {c}
    /\ UNCHANGED <<queue, dead, held, ready, worker, faults, phase>>

\* The first SIGINT or SIGTERM.
Signal ==
    /\ ~job /\ phase = "serving"
    /\ phase' = "app"
    /\ UNCHANGED <<scheduleVars, bufferVars, redirecting>>

\* closeResources: the sync worker first, if Redis is ready.
CloseWorkerOrClicks ==
    IF ready
    THEN /\ CloseSchedule
         /\ phase' = "sync"
         /\ UNCHANGED bufferVars
    ELSE /\ Close
         /\ phase' = "clicks"
         /\ UNCHANGED <<queue, dead, held, ready, worker, faults>>

\* app.close has waited for the requests in flight.
\* (Deliberate fault: it has not.)
AppClosedEarly ==
    /\ phase = "app"
    /\ CloseWorkerOrClicks
    /\ UNCHANGED redirecting

AppClosed ==
    /\ phase = "app"
    /\ redirecting = {}
    /\ CloseWorkerOrClicks
    /\ UNCHANGED redirecting

\* The sync worker is closed; now the click buffer.
WorkerClosed ==
    /\ phase = "sync" /\ closing = "closed"
    /\ Close
    /\ phase' = "clicks"
    /\ UNCHANGED <<queue, dead, held, ready, worker, faults, redirecting>>

\* metrics.close and the end of the connections, or the catch of shutdown;
\* either way disconnectFromPrimary ends a worker of a cluster.
\* (Deliberate fault: clickBuffer.close is not awaited.)
ClicksClosedAtOnce ==
    /\ phase = "clicks"
    /\ phase' = "connections"
    /\ UNCHANGED <<scheduleVars, bufferVars, redirecting>>

ClicksClosed ==
    /\ phase = "clicks" /\ stage \in {"closed", "failed"}
    /\ phase' = IF stage = "closed" THEN "connections" ELSE "failed"
    /\ UNCHANGED <<scheduleVars, bufferVars, redirecting>>

Exit ==
    /\ phase = "connections"
    /\ phase' = "exited"
    /\ UNCHANGED <<scheduleVars, bufferVars, redirecting>>

\* The statements of a tick reach PostgreSQL until its pool is ended.
Connected == phase \notin {"connections", "exited", "failed"}

ClickStep ==
    /\ phase \notin {"exited", "failed"}
    /\ \/ TimerFlush \/ RecordClickBatch \/ FlushReturns
       \/ CloseLoop
    /\ UNCHANGED <<queue, dead, held, ready, worker, faults, phase, redirecting>>

\* A rejected flush is one of the faults.
ClickFault ==
    /\ phase \notin {"exited", "failed"}
    /\ faults < MaxFaults /\ faults' = faults + 1
    /\ FlushRejects
    /\ UNCHANGED <<queue, dead, held, ready, worker, phase, redirecting>>

WorkStep == Connected /\ ScheduleStep /\ UNCHANGED <<bufferVars, phase, redirecting>>

Outside == (Surroundings \/ ScheduleFault) /\ UNCHANGED <<bufferVars, phase, redirecting>>

ShutdownStep == AppClosed \/ WorkerClosed \/ ClicksClosed \/ Exit

Next ==
    \/ \E c \in Codes : FindLink(c) \/ RecordClick(c)
    \/ Signal \/ ShutdownStep
    \/ ClickStep \/ ClickFault \/ WorkStep \/ Outside

Spec == Init /\ [][Next]_vars

(***************************************************************************)
(* Fairness: handlers, statements and commands settle, the interval timer  *)
(* fires, locks expire.  Nothing says that Redis comes back: its client    *)
(* gives up after five attempts.                                           *)
(***************************************************************************)
TickStep == ShardStep \/ TickEnds \/ TimerTick \/ FinalTick \/ CloseReturns

FairSpec ==
    /\ Spec
    /\ WF_vars(\E c \in Codes : RecordClick(c))
    /\ WF_vars(ShutdownStep)
    /\ WF_vars(ClickStep)
    /\ WF_vars(Connected /\ TickStep /\ UNCHANGED <<bufferVars, phase, redirecting>>)
    /\ WF_vars(LockFreed /\ UNCHANGED <<bufferVars, phase, redirecting>>)

-----------------------------------------------------------------------------
\* "Order matters: push queued links to PostgreSQL first, then flush clicks
\* (which may target those links)" (server.ts:186): when the last flushes of
\* the buffer begin, a buffered click on a link of this process's shards finds
\* its row, unless Redis was not ready and the worker not closed, or the last
\* tick could not get at the shard or left entries, or the link is too long
\* and will never have one.
RowsBeforeClicks ==
    (phase = "clicks" /\ stage = "loop" /\ closing # "open") =>
        \A c \in Codes :
            (pending[c] > 0 /\ ShardOf[c] \in Owned \ (blocked \union capped)) => Settled(c)

\* No redirect that found its link meets a closed click buffer, which throws
\* (click-buffer.ts:97).
NoRedirectRefused == redirecting # {} => stage = "open"

\* A shutdown that reports success leaves no click behind, and, if it closed
\* the sync worker, no tick under way.
SuccessMeansDrained ==
    phase \in {"connections", "exited"} =>
        /\ flush = "none" /\ \A c \in Codes : pending[c] = 0
        /\ closing # "open" => ~running

\* The order of closeResources (server.ts:185) holds for everything under way.
ShutdownInOrder == RowsBeforeClicks /\ NoRedirectRefused /\ SuccessMeansDrained

\* Once told to stop, shutdown (server.ts:205) comes to its end, well or with an
\* error, whatever ticks, flushes and redirects it finds under way.
ServerStops == phase = "app" ~> phase \in {"exited", "failed"}

\* While the interval timer is set, a queued link of this process's shards
\* reaches PostgreSQL, or the dead letters if it is too long, or Redis goes
\* away, or the process is told to stop: failed shards, foreign locks, skipped
\* intervals and refused entries at the head only delay it.
BacklogDrains ==
    \A c \in Codes :
        (c \in Queued(Owned) /\ timer) ~> (Settled(c) \/ ~ready \/ phase # "serving")
=============================================================================
