------------------------ MODULE ServerShutdownProofs ------------------------
(***************************************************************************)
(* The schedule of the sync worker, the click buffer and the shutdown of a *)
(* server process, for any number of codes, shards and faults and any      *)
(* limits.  What is shown of a click buffer by itself holds of the buffer  *)
(* in the process, which behaves as one.                                   *)
(***************************************************************************)
EXTENDS ServerShutdown, SequenceTheorems, RecursionTheorems, TLAPS

(***************************************************************************)
(* What is inductive                                                       *)
(***************************************************************************)
\* A code waits in the queue of its shard.
QueueInv ==
    \A s \in Shards : \A i \in 1..Len(queue[s]) : ShardOf[queue[s][i]] = s

\* What waits in the queue of its shard.
Waits(c) == c \in ToSet(queue[ShardOf[c]])

\* A tick under way, or the last one: what was queued when it began is settled,
\* or its shard was not got at or not emptied, or it still waits for the tick.
TickInv ==
    /\ todo # {} => running
    /\ capped # {} => found
    /\ \A c \in atTick :
          \/ Settled(c)
          \/ ShardOf[c] \in blocked \union capped
          \/ ShardOf[c] \in todo /\ Waits(c)

\* Who may start ticks: a server its timer until it closes, the job its drain.
StarterInv ==
    /\ job => ~timer /\ closing = "open"
    /\ ~job => drain = "idle"
    /\ closing # "open" => ~timer
    /\ closing = "closed" => ~running
    /\ drain = "done" => ~running /\ ~found

\* close() loses sight of nothing that was queued when it was called: it waits
\* until the last tick begins, which takes it up.
CloseInv ==
    /\ closing = "waiting" => \A c \in atClose : Settled(c) \/ (ShardOf[c] \in Owned /\ Waits(c))
    /\ closing \in {"final", "closed"} => \A c \in atClose : Settled(c) \/ c \in atTick

\* The order of closeResources.
PhaseInv ==
    /\ job => phase = "serving"
    /\ phase \in {"serving", "app"} => closing = "open" /\ stage = "open"
    /\ phase = "sync" => closing # "open" /\ stage = "open"
    /\ phase \in {"clicks", "connections", "exited", "failed"} => closing \in {"open", "closed"} /\ stage # "open"
    /\ phase \in {"connections", "exited"} => stage = "closed"
    /\ phase \notin {"serving", "app"} => redirecting = {}

\* Clicks are on links that were found: they are settled or wait to be, and
\* once the worker is being closed, what waits was queued before.
LinkInv ==
    /\ \A c \in Codes : (c \in redirecting \/ recorded[c] > 0) => (Settled(c) \/ Waits(c))
    /\ closing # "open" =>
          \A c \in Codes : (recorded[c] > 0 /\ ShardOf[c] \in Owned) => (Settled(c) \/ c \in atClose)

-----------------------------------------------------------------------------
(***************************************************************************)
(* Rows and queues                                                         *)
(***************************************************************************)
\* What leaves a queue by a commit is settled, and what the commit leaves
\* stays in the queue of its shard.
LEMMA CommitEffect ==
    ASSUME ScheduleTypeOK, QueueInv, NEW s \in Shards,
           NEW n \in 0..Len(queue[s]), NEW m \in 0..n, Commit(s, n, m)
    PROVE  /\ queue' \in [Shards -> Seq(Codes)] /\ QueueInv'
           /\ stored' \subseteq Codes /\ stored \subseteq stored'
           /\ dead' \subseteq Refused /\ dead \subseteq dead'
           /\ \A c \in Codes : Waits(c) => Settled(c)' \/ Waits(c)'
           /\ m = Len(queue[s]) => \A c \in Codes : ShardOf[c] = s /\ Waits(c) => Settled(c)'
  <1> DEFINE q == queue[s]
             done == SubSeq(q, 1, n)
             gone == SubSeq(q, 1, m)
             rest == SubSeq(q, m + 1, Len(q))
  <1>1. q \in Seq(Codes) /\ Len(q) \in Nat /\ \A i \in 1..Len(q) : q[i] \in Codes
    BY DEF ScheduleTypeOK
  <1>2. /\ done \in Seq(Codes) /\ Len(done) = n
        /\ \A i \in 1..n : done[i] = q[i]
    <2>1. n \in Int /\ 1 \in Int /\ \A i \in 1..n : q[i] \in Codes
      BY <1>1
    <2>2. /\ done \in Seq(Codes) /\ Len(done) = IF 1 <= n THEN n - 1 + 1 ELSE 0
          /\ \A i \in 1..(n - 1 + 1) : done[i] = q[1 + i - 1]
      <3> HIDE DEF q
      <3> QED
        BY <2>1, SubSeqProperties
    <2> HIDE DEF q, done
    <2> QED
      BY <2>1, <2>2, <1>1
  <1>3. /\ gone \in Seq(Codes) /\ Len(gone) = m
         /\ \A i \in 1..m : gone[i] = q[i]
    <2>1. m \in Int /\ 1 \in Int /\ \A i \in 1..m : q[i] \in Codes
      BY <1>1
    <2>2. /\ gone \in Seq(Codes) /\ Len(gone) = IF 1 <= m THEN m - 1 + 1 ELSE 0
          /\ \A i \in 1..(m - 1 + 1) : gone[i] = q[1 + i - 1]
      <3> HIDE DEF q
      <3> QED
        BY <2>1, SubSeqProperties
    <2> HIDE DEF q, gone
    <2> QED
      BY <2>1, <2>2, <1>1
  <1>4. /\ rest \in Seq(Codes) /\ Len(rest) = Len(q) - m
        /\ \A i \in 1..(Len(q) - m) : rest[i] = q[m + i]
    <2>1. m + 1 \in Int /\ Len(q) \in Int /\ \A i \in (m + 1)..Len(q) : q[i] \in Codes
      BY <1>1
    <2>2. /\ rest \in Seq(Codes) /\ Len(rest) = IF m + 1 <= Len(q) THEN Len(q) - (m + 1) + 1 ELSE 0
          /\ \A i \in 1..(Len(q) - (m + 1) + 1) : rest[i] = q[(m + 1) + i - 1]
      <3> HIDE DEF q
      <3> QED
        BY <2>1, SubSeqProperties
    <2>3. m \in Nat /\ m <= Len(q)
      BY <1>1
    <2> HIDE DEF q, rest
    <2> QED
      BY <1>1, <2>1, <2>2, <2>3
  <1>5. /\ stored' = stored \union (ToSet(done) \ Refused)
        /\ dead' = dead \union (ToSet(gone) \intersect Refused)
        /\ queue' = [queue EXCEPT ![s] = rest]
    BY DEF Commit
  <1>6. queue \in [Shards -> Seq(Codes)] /\ stored \subseteq Codes /\ dead \subseteq Refused
    BY DEF ScheduleTypeOK
  <1> HIDE DEF done, gone, rest
  <1>7. \A i \in 1..n : q[i] \in stored' \/ q[i] \in Refused
    BY <1>2, <1>5 DEF ToSet
  <1>8. \A i \in 1..m : q[i] \in Refused => q[i] \in dead'
    BY <1>3, <1>5 DEF ToSet
  <1>9. \A i \in 1..m : q[i] \in stored' \/ q[i] \in dead'
    <2>1. \A i \in 1..m : i \in 1..n
      BY <1>1
    <2> QED
      BY <1>7, <1>8, <2>1
  <1>10. ToSet(done) \subseteq Codes
    BY <1>1, <1>2 DEF ToSet
  <1>11. queue' \in [Shards -> Seq(Codes)]
    BY <1>4, <1>5, <1>6
  <1>12. QueueInv'
    <2> SUFFICES ASSUME NEW t \in Shards, NEW i \in 1..Len(queue'[t])
                 PROVE  ShardOf[queue'[t][i]] = t
      BY DEF QueueInv
    <2>1. CASE t = s
      <3>1. queue'[t] = rest
        BY <1>5, <1>6, <2>1
      <3>2. m + i \in 1..Len(q) /\ rest[i] = q[m + i]
        BY <1>1, <1>4, <3>1
      <3> QED
        BY <2>1, <3>1, <3>2 DEF QueueInv
    <2>2. CASE t # s
      BY <1>5, <1>6, <2>2 DEF QueueInv
    <2> QED
      BY <2>1, <2>2
  <1>13. ASSUME NEW c \in Codes, Waits(c) PROVE Settled(c)' \/ Waits(c)'
    <2>0. ShardOf[c] \in Shards
      BY ScheduleAssumption
    <2>1. CASE ShardOf[c] = s
      <3>1. PICK i \in 1..Len(q) : c = q[i]
        BY <1>1, <1>13, <2>1 DEF Waits, ToSet
      <3>2. CASE i <= m
        BY <1>9, <3>1, <3>2 DEF Settled
      <3>3. CASE i > m
        <4>1. i - m \in 1..Len(rest) /\ rest[i - m] = q[i]
          <5>1. m \in Nat /\ m <= n /\ Len(q) \in Nat /\ Len(rest) = Len(q) - m
            BY <1>1, <1>4
          <5>2. i - m \in 1..Len(rest) /\ m + (i - m) = i
            BY <3>3, <5>1, <1>1
          <5> QED
            BY <5>2, <1>4
        <4>2. queue'[s] = rest
          BY <1>5, <1>6
        <4> QED
          BY <2>1, <3>1, <4>1, <4>2, <1>4 DEF Waits, ToSet
      <3> QED
        BY <1>1, <3>2, <3>3
    <2>2. CASE ShardOf[c] # s
      <3>1. queue'[ShardOf[c]] = queue[ShardOf[c]]
        BY <1>5, <1>6, <2>0, <2>2
      <3> QED
        BY <1>13, <3>1 DEF Waits
    <2> QED
      BY <2>1, <2>2
  <1>14. ASSUME m = Len(q), NEW c \in Codes, ShardOf[c] = s, Waits(c) PROVE Settled(c)'
    <2>1. PICK i \in 1..Len(q) : c = q[i]
      BY <1>1, <1>14 DEF Waits, ToSet
    <2> QED
      BY <1>9, <1>14, <2>1 DEF Settled
  <1> QED
    BY <1>5, <1>6, <1>10, <1>11, <1>12, <1>13, <1>14

\* A link that is queued waits in the queue of its shard; the others still do.
LEMMA EnqueueEffect ==
    ASSUME ScheduleTypeOK, QueueInv, NEW d \in Codes, Enqueue(d)
    PROVE  /\ queue' \in [Shards -> Seq(Codes)] /\ QueueInv'
           /\ \A c \in Codes : Waits(c) => Waits(c)'
  <1> DEFINE s == ShardOf[d]
             q == queue[s]
             longer == Append(q, d)
  <1>1. s \in Shards /\ q \in Seq(Codes) /\ Len(q) \in Nat
    BY ScheduleAssumption DEF ScheduleTypeOK
  <1>2. /\ longer \in Seq(Codes) /\ Len(longer) = Len(q) + 1
        /\ \A i \in 1..Len(q) : longer[i] = q[i]
        /\ longer[Len(q) + 1] = d
    <2> HIDE DEF q
    <2> QED
      BY <1>1, AppendProperties
  <1>3. queue' = [queue EXCEPT ![s] = longer] /\ queue \in [Shards -> Seq(Codes)]
    BY DEF Enqueue, ScheduleTypeOK
  <1> HIDE DEF longer
  <1>4. queue' \in [Shards -> Seq(Codes)]
    BY <1>1, <1>2, <1>3
  <1>5. QueueInv'
    <2> SUFFICES ASSUME NEW t \in Shards, NEW i \in 1..Len(queue'[t])
                 PROVE  ShardOf[queue'[t][i]] = t
      BY DEF QueueInv
    <2>1. CASE t = s
      <3>1. queue'[t] = longer
        BY <1>1, <1>3, <2>1
      <3>2. i \in 1..Len(q) \/ i = Len(q) + 1
        BY <1>1, <1>2, <3>1
      <3> QED
        BY <1>1, <1>2, <2>1, <3>1, <3>2 DEF QueueInv
    <2>2. CASE t # s
      BY <1>1, <1>3, <2>2 DEF QueueInv
    <2> QED
      BY <2>1, <2>2
  <1>6. ASSUME NEW c \in Codes, Waits(c) PROVE Waits(c)'
    <2>0. ShardOf[c] \in Shards
      BY ScheduleAssumption
    <2>1. CASE ShardOf[c] = s
      <3>1. PICK i \in 1..Len(q) : c = q[i]
        BY <1>1, <1>6, <2>1 DEF Waits, ToSet
      <3>2. queue'[s] = longer
        BY <1>1, <1>3
      <3>3. i \in 1..Len(longer) /\ longer[i] = c
        BY <1>1, <1>2, <3>1
      <3> QED
        BY <1>2, <2>1, <3>2, <3>3 DEF Waits, ToSet
    <2>2. CASE ShardOf[c] # s
      <3>1. queue'[ShardOf[c]] = queue[ShardOf[c]]
        BY <1>1, <1>3, <2>0, <2>2
      <3> QED
        BY <1>6, <3>1 DEF Waits
    <2> QED
      BY <2>1, <2>2
  <1> QED
    BY <1>4, <1>5, <1>6

\* What is queued on a set of shards waits, and its shard is one of them.
LEMMA QueuedWaits ==
    ASSUME ScheduleTypeOK, QueueInv, NEW shards \in SUBSET Shards, NEW c \in Codes
    PROVE  c \in Queued(shards) <=> (ShardOf[c] \in shards /\ Waits(c))
  <1>1. ASSUME c \in Queued(shards) PROVE ShardOf[c] \in shards /\ Waits(c)
    <2>1. PICK s \in shards : c \in ToSet(queue[s])
      BY <1>1 DEF Queued
    <2>2. PICK i \in 1..Len(queue[s]) : c = queue[s][i]
      BY <2>1 DEF ToSet, ScheduleTypeOK
    <2>3. ShardOf[c] = s
      BY <2>2 DEF QueueInv
    <2> QED
      BY <2>1, <2>3 DEF Waits
  <1>2. ASSUME ShardOf[c] \in shards, Waits(c) PROVE c \in Queued(shards)
    BY <1>2 DEF Queued, Waits
  <1> QED
    BY <1>1, <1>2

\* Only codes are queued.
LEMMA QueuedCodes ==
    ASSUME ScheduleTypeOK, NEW shards \in SUBSET Shards
    PROVE  Queued(shards) \subseteq Codes
  BY DEF Queued, ToSet, ScheduleTypeOK

-----------------------------------------------------------------------------
(***************************************************************************)
(* The kinds of steps, and types                                           *)
(***************************************************************************)
\* Steps of the click buffer write no rows.
LEMMA BufferKeepsRows ==
    ASSUME \/ \E c \in Codes : Record(c)
           \/ TimerFlush \/ RecordClickBatch \/ FlushReturns
           \/ FlushRejects \/ Close \/ CloseLoop
    PROVE  UNCHANGED stored
  BY DEF Record, TimerFlush, RecordClickBatch, FlushReturns,
         FlushRejects, Close, CloseLoop

\* A step of the process leaves the schedule and the queues alone, is the
\* close() of the worker, or is one of the schedule or its surroundings.
LEMMA StepKinds ==
    ASSUME [Next]_vars
    PROVE  \/ UNCHANGED <<queue, stored, dead, held, ready, worker>>
           \/ phase = "app" /\ CloseSchedule
           \/ ScheduleStep \/ Surroundings \/ ScheduleFault
  <1> USE DEF scheduleVars, store
  <1>1. CASE UNCHANGED vars
    BY <1>1 DEF vars
  <1>2. ASSUME NEW c \in Codes, FindLink(c) \/ RecordClick(c)
        PROVE  UNCHANGED <<queue, stored, dead, held, ready, worker>>
    BY <1>2, BufferKeepsRows DEF FindLink, RecordClick
  <1>3. CASE Signal \/ ClicksClosed \/ Exit
    BY <1>3 DEF Signal, ClicksClosed, Exit
  <1>4. CASE AppClosed
    BY <1>4, BufferKeepsRows DEF AppClosed, CloseWorkerOrClicks
  <1>5. CASE WorkerClosed
    BY <1>5, BufferKeepsRows DEF WorkerClosed
  <1>6. CASE ClickStep \/ ClickFault
    BY <1>6, BufferKeepsRows DEF ClickStep, ClickFault
  <1>7. CASE WorkStep
    BY <1>7 DEF WorkStep
  <1>8. CASE Outside
    BY <1>8 DEF Outside
  <1> QED
    BY <1>1, <1>2, <1>3, <1>4, <1>5, <1>6, <1>7, <1>8 DEF Next, ShutdownStep

\* No step takes a row away, or an entry that is not settled.
Kept ==
    /\ job' = job
    /\ stored \subseteq stored' /\ dead \subseteq dead'
    /\ \A c \in Codes : Waits(c) => Settled(c)' \/ Waits(c)'

\* What is settled stays so.
LEMMA SettledStays == ASSUME Kept, NEW c, Settled(c) PROVE Settled(c)'
  BY DEF Kept, Settled

\* The types, but for the number of faults.
WorkTypes ==
    /\ queue \in [Shards -> Seq(Codes)]
    /\ stored \subseteq Codes /\ dead \subseteq Refused
    /\ held \subseteq Shards
    /\ job \in BOOLEAN /\ ready \in BOOLEAN /\ timer \in BOOLEAN /\ running \in BOOLEAN
    /\ found \in BOOLEAN
    /\ todo \subseteq Owned /\ blocked \subseteq Owned /\ capped \subseteq Owned
    /\ atTick \subseteq Codes /\ atClose \subseteq Codes
    /\ closing \in {"open", "waiting", "final", "closed"}
    /\ drain \in {"idle", "ticking", "done"}

\* The two ways to state the types are one.
LEMMA TypesSplit == ScheduleTypeOK <=> WorkTypes /\ faults \in 0..MaxFaults
  BY DEF ScheduleTypeOK, WorkTypes

\* The shards of the process are shards.
LEMMA OwnedShards == Owned \subseteq Shards
  BY ScheduleAssumption DEF Owned

\* A tick begins with every shard to do, or with every one blocked.
LEMMA StartTickTypes ==
    ASSUME ScheduleTypeOK, StartTick, UNCHANGED <<queue, job>>
    PROVE  /\ running' = TRUE /\ found' = FALSE
           /\ todo' \subseteq Owned' /\ blocked' \subseteq Owned' /\ capped' = {}
           /\ atTick' = Queued(Owned) /\ atTick' \subseteq Codes
  <1>1. Owned' = Owned
    BY DEF Owned
  <1>2. Queued(Owned) \subseteq Codes
    BY OwnedShards, QueuedCodes
  <1> QED
    BY <1>1, <1>2 DEF StartTick

\* What a finished shard leaves: what it waited for is settled, unless the
\* shard is noted as not got at or not emptied.
LEMMA ShardEffect ==
    ASSUME ScheduleTypeOK, QueueInv, NEW s \in Owned,
           SyncShard(s) \/ ShardHeld(s) \/ ShardFails(s)
    PROVE  /\ WorkTypes' /\ QueueInv' /\ Kept
           /\ s \in todo /\ todo' = todo \ {s}
           /\ UNCHANGED <<timer, running, atTick, closing, atClose, drain>>
           /\ blocked \subseteq blocked' /\ capped \subseteq capped'
           /\ found => found'
           /\ (capped' # capped) => found'
           /\ \A c \in Codes : ShardOf[c] = s /\ Waits(c) => Settled(c)' \/ s \in blocked' \union capped'
  <1>0. s \in Shards /\ WorkTypes
    BY OwnedShards, TypesSplit
  <1>1. CASE SyncShard(s)
    <2> DEFINE n == IF PerTick < Len(queue[s]) THEN PerTick ELSE Len(queue[s])
    <2>1. n \in 0..Len(queue[s]) /\ n \in 0..n /\ (n < Len(queue[s]) => n > 0)
      BY <1>0, ScheduleAssumption DEF WorkTypes
    <2>2. /\ Commit(s, n, n) /\ found' = (found \/ n > 0)
          /\ capped' = IF n < Len(queue[s]) THEN capped \union {s} ELSE capped
      BY <1>1 DEF SyncShard
    <2>3. /\ s \in todo /\ todo' = todo \ {s}
          /\ UNCHANGED <<held, ready, job, timer, running, blocked, atTick, closing, atClose, drain>>
      BY <1>1 DEF SyncShard, Finish
    <2>4. Len(queue[s]) \in Nat
      BY <1>0 DEF WorkTypes
    <2> HIDE DEF n
    <2>5. /\ queue' \in [Shards -> Seq(Codes)] /\ QueueInv'
          /\ stored' \subseteq Codes /\ stored \subseteq stored'
          /\ dead' \subseteq Refused /\ dead \subseteq dead'
          /\ \A c \in Codes : Waits(c) => Settled(c)' \/ Waits(c)'
          /\ n = Len(queue[s]) => \A c \in Codes : ShardOf[c] = s /\ Waits(c) => Settled(c)'
      BY <1>0, <2>1, <2>2, CommitEffect
    <2>6. Owned' = Owned
      BY <2>3 DEF Owned
    <2>7. found' \in BOOLEAN /\ (found => found') /\ (capped' # capped => found')
      BY <1>0, <2>1, <2>2 DEF WorkTypes
    <2>8. WorkTypes'
      BY <1>0, <2>2, <2>3, <2>5, <2>6, <2>7 DEF WorkTypes
    <2>9. Kept
      BY <2>3, <2>5 DEF Kept
    <2>10. \A c \in Codes : ShardOf[c] = s /\ Waits(c) => Settled(c)' \/ s \in blocked' \union capped'
      BY <2>1, <2>2, <2>4, <2>5
    <2> QED
      BY <2>2, <2>3, <2>5, <2>7, <2>8, <2>9, <2>10
  <1>2. CASE ShardHeld(s)
    <2>1. /\ s \in todo /\ todo' = todo \ {s} /\ blocked' = blocked \union {s}
          /\ UNCHANGED <<queue, stored, dead, held, ready, job, timer, running, found, capped, atTick, closing, atClose, drain>>
      BY <1>2 DEF ShardHeld, Finish, store
    <2>2. Owned' = Owned
      BY <2>1 DEF Owned
    <2>3. WorkTypes'
      BY <1>0, <2>1, <2>2 DEF WorkTypes
    <2>4. QueueInv' /\ Kept
      BY <2>1 DEF QueueInv, Kept, Waits
    <2> QED
      BY <2>1, <2>3, <2>4
  <1>3. CASE ShardFails(s)
    <2>0. PICK n \in 0..Len(queue[s]) : \E m \in 0..n :
             Commit(s, n, m) /\ found' \in {found, found \/ m > 0}
      BY <1>3 DEF ShardFails
    <2>1. PICK m \in 0..n : Commit(s, n, m) /\ found' \in {found, found \/ m > 0}
      BY <2>0
    <2>2. /\ s \in todo /\ todo' = todo \ {s} /\ blocked' = blocked \union {s}
          /\ UNCHANGED <<held, ready, job, timer, running, capped, atTick, closing, atClose, drain>>
      BY <1>3 DEF ShardFails, Finish
    <2>3. /\ queue' \in [Shards -> Seq(Codes)] /\ QueueInv'
          /\ stored' \subseteq Codes /\ stored \subseteq stored'
          /\ dead' \subseteq Refused /\ dead \subseteq dead'
          /\ \A c \in Codes : Waits(c) => Settled(c)' \/ Waits(c)'
      BY <1>0, <2>1, CommitEffect
    <2>4. Owned' = Owned
      BY <2>2 DEF Owned
    <2>5. found' \in BOOLEAN /\ (found => found')
      <3>1. CASE found' = found
        BY <1>0, <3>1 DEF WorkTypes
      <3>2. CASE found' = (found \/ m > 0)
        BY <3>2
      <3> QED
        BY <2>1, <3>1, <3>2
    <2>6. WorkTypes'
      BY <1>0, <2>2, <2>3, <2>4, <2>5 DEF WorkTypes
    <2>7. Kept
      BY <2>2, <2>3 DEF Kept
    <2> QED
      BY <2>2, <2>3, <2>5, <2>6, <2>7
  <1> QED
    BY <1>1, <1>2, <1>3

-----------------------------------------------------------------------------
(***************************************************************************)
(* The schedule                                                            *)
(***************************************************************************)
\* Steps that leave the worker alone: queues grow, other processes sync, locks
\* and Redis come and go.
LEMMA SurroundingsEffect ==
    ASSUME ScheduleTypeOK, QueueInv,
           \/ UNCHANGED <<queue, stored, dead, held, ready, worker>>
           \/ Surroundings
           \/ \E s \in Owned \ held : held' = held \union {s} /\ UNCHANGED <<queue, stored, dead, ready, worker>>
           \/ ready /\ ready' = FALSE /\ UNCHANGED <<queue, stored, dead, held, worker>>
    PROVE  WorkTypes' /\ QueueInv' /\ Kept /\ UNCHANGED worker
  <1>0. WorkTypes
    BY TypesSplit
  <1>1. UNCHANGED worker
    BY DEF Surroundings, Enqueue, SyncedElsewhere, LockFreed, RedisReturns
  <1>2. Owned' = Owned /\ job' = job
    BY <1>1 DEF Owned, worker
  <1>3. ASSUME NEW c \in Codes, Enqueue(c) PROVE WorkTypes' /\ QueueInv' /\ Kept
    <2>1. /\ queue' \in [Shards -> Seq(Codes)] /\ QueueInv'
          /\ \A d \in Codes : Waits(d) => Waits(d)'
      BY <1>3, EnqueueEffect
    <2>2. UNCHANGED <<stored, dead, held, ready>>
      BY <1>3 DEF Enqueue
    <2> QED
      BY <1>0, <1>1, <1>2, <2>1, <2>2 DEF WorkTypes, Kept, worker
  <1>4. ASSUME NEW s \in Shards, SyncedElsewhere(s) PROVE WorkTypes' /\ QueueInv' /\ Kept
    <2> DEFINE n == Len(queue[s])
    <2>1. n \in 0..n /\ Commit(s, n, n)
      BY <1>0, <1>4 DEF SyncedElsewhere, WorkTypes
    <2>2. /\ queue' \in [Shards -> Seq(Codes)] /\ QueueInv'
          /\ stored' \subseteq Codes /\ stored \subseteq stored'
          /\ dead' \subseteq Refused /\ dead \subseteq dead'
          /\ \A c \in Codes : Waits(c) => Settled(c)' \/ Waits(c)'
      BY <2>1, CommitEffect
    <2>3. UNCHANGED <<held, ready>>
      BY <1>4 DEF SyncedElsewhere
    <2> QED
      BY <1>0, <1>1, <1>2, <2>2, <2>3 DEF WorkTypes, Kept, worker
  <1>5. ASSUME UNCHANGED <<queue, stored, dead>>, held' \subseteq Shards, ready' \in BOOLEAN
        PROVE  WorkTypes' /\ QueueInv' /\ Kept
    BY <1>0, <1>1, <1>2, <1>5 DEF WorkTypes, QueueInv, Kept, Waits, worker
  <1>6. CASE LockFreed \/ RedisReturns
    BY <1>0, <1>5, <1>6 DEF LockFreed, RedisReturns, WorkTypes
  <1>7. CASE UNCHANGED <<queue, stored, dead, held, ready, worker>>
    BY <1>0, <1>5, <1>7 DEF WorkTypes
  <1>8. CASE \E s \in Owned \ held : held' = held \union {s} /\ UNCHANGED <<queue, stored, dead, ready, worker>>
    BY <1>0, <1>5, <1>8, OwnedShards DEF WorkTypes
  <1>9. CASE ready /\ ready' = FALSE /\ UNCHANGED <<queue, stored, dead, held, worker>>
    BY <1>0, <1>5, <1>9 DEF WorkTypes
  <1> QED
    BY <1>1, <1>3, <1>4, <1>6, <1>7, <1>8, <1>9 DEF Surroundings

\* The invariants of the schedule, and what a step must keep of them.
ScheduleInv == TickInv /\ StarterInv /\ CloseInv

\* They survive whatever happens around the worker.
LEMMA WorkerStill ==
    ASSUME ScheduleTypeOK, ScheduleInv, Kept, UNCHANGED worker
    PROVE  ScheduleInv'
  <1>0. Owned' = Owned /\ atTick \subseteq Codes /\ atClose \subseteq Codes
    BY DEF Owned, worker, ScheduleTypeOK
  <1>1. TickInv'
    BY <1>0 DEF ScheduleInv, TickInv, Kept, Settled, worker
  <1>2. StarterInv'
    BY DEF ScheduleInv, StarterInv, worker
  <1>3. CloseInv'
    BY <1>0 DEF ScheduleInv, CloseInv, Kept, Settled, worker
  <1> QED
    BY <1>1, <1>2, <1>3 DEF ScheduleInv

\* A tick that begins has everything queued to do, or counts it as blocked.
LEMMA TickBegins ==
    ASSUME ScheduleTypeOK, QueueInv, StartTick, UNCHANGED <<queue, stored, dead, job>>
    PROVE  TickInv' /\ running' = TRUE /\ found' = FALSE /\ atTick' = Queued(Owned)
  <1>0. /\ running' = TRUE /\ found' = FALSE /\ capped' = {}
        /\ atTick' = Queued(Owned) /\ atTick' \subseteq Codes
    BY StartTickTypes
  <1>1. \A c \in atTick' : ShardOf[c] \in Owned /\ Waits(c)
    BY <1>0, OwnedShards, QueuedWaits
  <1>2. \A c \in atTick' : ShardOf[c] \in todo' \/ ShardOf[c] \in blocked'
    BY <1>1 DEF StartTick
  <1>3. \A c \in atTick' : Waits(c)'
    BY <1>1 DEF Waits
  <1> QED
    BY <1>0, <1>2, <1>3 DEF TickInv

\* The worker's steps on a shard keep the invariants.
LEMMA ShardKeeps ==
    ASSUME ScheduleTypeOK, QueueInv, ScheduleInv, NEW s \in Owned,
           SyncShard(s) \/ ShardHeld(s) \/ ShardFails(s)
    PROVE  ScheduleInv'
  <1>1. /\ Kept
        /\ s \in todo /\ todo' = todo \ {s}
        /\ UNCHANGED <<timer, running, atTick, closing, atClose, drain>>
        /\ blocked \subseteq blocked' /\ capped \subseteq capped'
        /\ found => found'
        /\ (capped' # capped) => found'
        /\ \A c \in Codes : ShardOf[c] = s /\ Waits(c) => Settled(c)' \/ s \in blocked' \union capped'
    BY ShardEffect
  <1>2. Owned' = Owned /\ job' = job /\ atTick \subseteq Codes /\ atClose \subseteq Codes
    BY <1>1 DEF Owned, Kept, ScheduleTypeOK
  <1>3. running
    BY <1>1 DEF ScheduleInv, TickInv
  <1>4. TickInv'
    <2>1. \A c \in atTick : \/ Settled(c)'
                            \/ ShardOf[c] \in blocked' \union capped'
                            \/ ShardOf[c] \in todo' /\ Waits(c)'
      BY <1>1, <1>2 DEF ScheduleInv, TickInv, Kept, Settled
    <2>2. capped' # {} => found'
      BY <1>1 DEF ScheduleInv, TickInv
    <2> QED
      BY <1>1, <1>3, <2>1, <2>2 DEF TickInv
  <1>5. StarterInv'
    BY <1>1, <1>2, <1>3 DEF ScheduleInv, StarterInv
  <1>6. CloseInv'
    BY <1>1, <1>2 DEF ScheduleInv, CloseInv, Kept, Settled
  <1> QED
    BY <1>4, <1>5, <1>6 DEF ScheduleInv

\* Starting, ending and closing ticks keeps the types and the invariants.
LEMMA WorkerKeeps ==
    ASSUME ScheduleTypeOK, QueueInv, ScheduleInv,
           \/ TickEnds \/ Start \/ TimerTick \/ FinalTick \/ CloseReturns \/ Drain \/ DrainNext
           \/ ~job /\ CloseSchedule
    PROVE  WorkTypes' /\ QueueInv' /\ Kept /\ ScheduleInv'
  <1>0. UNCHANGED <<queue, stored, dead, held, ready, job>>
    BY DEF TickEnds, Start, TimerTick, FinalTick, CloseReturns, Drain, DrainNext, CloseSchedule, store
  <1>1. QueueInv' /\ Kept
    BY <1>0 DEF QueueInv, Kept, Waits
  <1>2. Owned' = Owned /\ WorkTypes
    BY <1>0, TypesSplit DEF Owned
  <1>3. \A c \in Codes : (Waits(c)' <=> Waits(c)) /\ (Settled(c)' <=> Settled(c))
    BY <1>0 DEF Waits, Settled
  <1>4. Queued(Owned) \subseteq Codes /\ \A c \in Codes : c \in Queued(Owned) <=> (ShardOf[c] \in Owned /\ Waits(c))
    BY OwnedShards, QueuedCodes, QueuedWaits
  <1> DEFINE tickVars == <<running, todo, found, blocked, capped, atTick>>
  <1>5. ASSUME UNCHANGED tickVars PROVE TickInv'
    BY <1>0, <1>2, <1>3, <1>5 DEF ScheduleInv, TickInv, WorkTypes
  <1>6. ASSUME StartTick
        PROVE  /\ TickInv' /\ running' = TRUE /\ found' = FALSE /\ atTick' = Queued(Owned)
               /\ todo' \subseteq Owned' /\ blocked' \subseteq Owned' /\ capped' \subseteq Owned'
               /\ atTick' \subseteq Codes
    BY <1>0, <1>6, TickBegins, StartTickTypes
  <1> SUFFICES WorkTypes' /\ ScheduleInv'
    BY <1>1
  <1>7. CASE TickEnds
    <2>1. /\ running /\ todo = {} /\ running' = FALSE
          /\ UNCHANGED <<timer, todo, found, blocked, capped, atTick, closing, atClose, drain>>
      BY <1>7 DEF TickEnds
    <2>2. WorkTypes'
      BY <1>0, <1>2, <2>1 DEF WorkTypes
    <2>3. TickInv'
      BY <1>0, <1>2, <1>3, <2>1 DEF ScheduleInv, TickInv, WorkTypes
    <2>4. StarterInv'
      BY <1>0, <2>1 DEF ScheduleInv, StarterInv
    <2>5. CloseInv'
      BY <1>0, <1>2, <1>3, <2>1 DEF ScheduleInv, CloseInv, WorkTypes
    <2> QED
      BY <2>2, <2>3, <2>4, <2>5 DEF ScheduleInv
  <1>8. CASE Start
    <2>1. /\ ~job /\ closing = "open" /\ timer' = TRUE
          /\ UNCHANGED <<running, todo, found, blocked, capped, atTick, closing, atClose, drain>>
      BY <1>8 DEF Start
    <2>2. WorkTypes'
      BY <1>0, <1>2, <2>1 DEF WorkTypes
    <2>3. StarterInv' /\ CloseInv'
      BY <1>0, <2>1 DEF ScheduleInv, StarterInv, CloseInv
    <2> QED
      BY <1>5, <2>1, <2>2, <2>3 DEF ScheduleInv
  <1>9. CASE TimerTick
    <2>1. timer /\ ~running /\ StartTick /\ UNCHANGED <<timer, closing, atClose, drain>>
      BY <1>9 DEF TimerTick
    <2>2. closing = "open" /\ drain = "idle"
      BY <1>2, <2>1 DEF ScheduleInv, StarterInv, WorkTypes
    <2>3. WorkTypes'
      BY <1>0, <1>2, <1>6, <2>1 DEF WorkTypes
    <2>4. StarterInv' /\ CloseInv'
      BY <1>0, <2>1, <2>2 DEF ScheduleInv, StarterInv, CloseInv
    <2> QED
      BY <1>6, <2>1, <2>3, <2>4 DEF ScheduleInv
  <1>10. CASE FinalTick
    <2>1. /\ closing = "waiting" /\ ~running /\ closing' = "final" /\ StartTick
          /\ UNCHANGED <<timer, atClose, drain>>
      BY <1>10 DEF FinalTick
    <2>2. WorkTypes'
      BY <1>0, <1>2, <1>6, <2>1 DEF WorkTypes
    <2>3. ~job /\ ~timer /\ drain = "idle"
      BY <2>1 DEF ScheduleInv, StarterInv
    <2>4. StarterInv'
      BY <1>0, <2>1, <2>3 DEF StarterInv
    <2>5. CloseInv'
      BY <1>0, <1>2, <1>3, <1>4, <1>6, <2>1 DEF ScheduleInv, CloseInv, WorkTypes
    <2> QED
      BY <1>6, <2>1, <2>2, <2>4, <2>5 DEF ScheduleInv
  <1>11. CASE CloseReturns
    <2>1. /\ closing = "final" /\ ~running /\ closing' = "closed"
          /\ UNCHANGED <<timer, running, todo, found, blocked, capped, atTick, atClose, drain>>
      BY <1>11 DEF CloseReturns
    <2>2. WorkTypes'
      BY <1>0, <1>2, <2>1 DEF WorkTypes
    <2>3. StarterInv' /\ CloseInv'
      BY <1>0, <1>2, <1>3, <2>1 DEF ScheduleInv, StarterInv, CloseInv, WorkTypes
    <2> QED
      BY <1>5, <2>1, <2>2, <2>3 DEF ScheduleInv
  <1>12. CASE Drain
    <2>1. /\ job /\ drain' = "ticking" /\ StartTick
          /\ UNCHANGED <<timer, closing, atClose>>
      BY <1>12 DEF Drain
    <2>2. WorkTypes'
      BY <1>0, <1>2, <1>6, <2>1 DEF WorkTypes
    <2>3. StarterInv' /\ CloseInv'
      BY <1>0, <2>1 DEF ScheduleInv, StarterInv, CloseInv
    <2> QED
      BY <1>6, <2>1, <2>2, <2>3 DEF ScheduleInv
  <1>13. CASE DrainNext
    <2>1. drain = "ticking" /\ ~running /\ UNCHANGED <<timer, closing, atClose>>
      BY <1>13 DEF DrainNext
    <2>2. job /\ closing = "open"
      BY <1>2, <2>1 DEF ScheduleInv, StarterInv, WorkTypes
    <2>3. CASE found /\ StartTick /\ UNCHANGED drain
      <3>1. WorkTypes'
        BY <1>0, <1>2, <1>6, <2>1, <2>3 DEF WorkTypes
      <3>2. StarterInv' /\ CloseInv'
        BY <1>0, <2>1, <2>2, <2>3 DEF ScheduleInv, StarterInv, CloseInv
      <3> QED
        BY <1>6, <2>3, <3>1, <3>2 DEF ScheduleInv
    <2>4. CASE ~found /\ drain' = "done" /\ UNCHANGED tickVars
      <3>1. WorkTypes'
        BY <1>0, <1>2, <2>1, <2>4 DEF WorkTypes
      <3>2. StarterInv' /\ CloseInv'
        BY <1>0, <2>1, <2>2, <2>4 DEF ScheduleInv, StarterInv, CloseInv
      <3> QED
        BY <1>5, <2>4, <3>1, <3>2 DEF ScheduleInv
    <2> QED
      BY <1>13, <2>3, <2>4 DEF DrainNext
  <1>14. CASE ~job /\ CloseSchedule
    <2>1. closing = "open" /\ timer' = FALSE /\ atClose' = Queued(Owned) /\ UNCHANGED drain
      BY <1>14 DEF CloseSchedule
    <2>2. ~job /\ drain = "idle"
      BY <1>14 DEF ScheduleInv, StarterInv
    <2>3. CASE running /\ closing' = "waiting" /\ UNCHANGED tickVars
      <3>1. WorkTypes'
        BY <1>0, <1>2, <1>4, <2>1, <2>3 DEF WorkTypes
      <3>2. StarterInv'
        BY <1>0, <2>1, <2>2, <2>3 DEF StarterInv
      <3>3. CloseInv'
        BY <1>2, <1>3, <1>4, <2>1, <2>3 DEF CloseInv
      <3> QED
        BY <1>5, <2>3, <3>1, <3>2, <3>3 DEF ScheduleInv
    <2>4. CASE ~running /\ closing' = "final" /\ StartTick
      <3>1. WorkTypes'
        BY <1>0, <1>2, <1>4, <1>6, <2>1, <2>4 DEF WorkTypes
      <3>2. StarterInv'
        BY <1>0, <2>1, <2>2, <2>4 DEF StarterInv
      <3>3. CloseInv'
        BY <1>6, <2>1, <2>4 DEF CloseInv
      <3> QED
        BY <1>6, <2>4, <3>1, <3>2, <3>3 DEF ScheduleInv
    <2> QED
      BY <1>14, <2>3, <2>4 DEF CloseSchedule
  <1> QED
    BY <1>7, <1>8, <1>9, <1>10, <1>11, <1>12, <1>13, <1>14

\* Only the close() of the worker leaves "open"; after that nothing changes what
\* was queued when it was called.
LEMMA ClosingMoves ==
    ASSUME ScheduleStep \/ Surroundings \/ ScheduleFault
    PROVE  /\ atClose' = atClose
           /\ closing' = closing \/ (closing \in {"waiting", "final"} /\ closing' # "open")
           /\ job' = job
  BY DEF ScheduleStep, Surroundings, ScheduleFault, ShardStep, SyncShard, ShardHeld, ShardFails, TickEnds,
         Start, TimerTick, FinalTick, CloseReturns, Drain, DrainNext, Enqueue, SyncedElsewhere, LockFreed,
         RedisReturns, worker

\* The faults stay within their bound.
LEMMA FaultsBounded ==
    ASSUME faults \in 0..MaxFaults, [Next]_vars
    PROVE  faults' \in 0..MaxFaults
  <1>1. UNCHANGED faults \/ (faults < MaxFaults /\ faults' = faults + 1)
    <2> USE DEF scheduleVars
    <2>1. CASE UNCHANGED vars
      BY <2>1 DEF vars
    <2>2. ASSUME NEW c \in Codes, FindLink(c) \/ RecordClick(c) PROVE UNCHANGED faults
      BY <2>2 DEF FindLink, RecordClick
    <2>3. CASE Signal \/ ShutdownStep
      BY <2>3 DEF Signal, ShutdownStep, AppClosed, CloseWorkerOrClicks, CloseSchedule, WorkerClosed,
                  ClicksClosed, Exit
    <2>4. CASE ClickStep \/ ClickFault
      BY <2>4 DEF ClickStep, ClickFault
    <2>5. CASE ScheduleStep
      BY <2>5 DEF ScheduleStep, ShardStep, SyncShard, ShardHeld, TickEnds, Start, TimerTick, FinalTick,
                  CloseReturns, Drain, DrainNext
    <2>6. CASE Surroundings
      BY <2>6 DEF Surroundings, Enqueue, SyncedElsewhere, LockFreed, RedisReturns
    <2>7. CASE ScheduleFault
      BY <2>7 DEF ScheduleFault
    <2> QED
      BY <2>1, <2>2, <2>3, <2>4, <2>5, <2>6, <2>7 DEF Next, WorkStep, Outside
  <1> QED
    BY <1>1, ScheduleAssumption

\* Every step keeps the types and the invariants of the schedule, and what is
\* queued.
LEMMA ScheduleKeeps ==
    ASSUME ScheduleTypeOK, QueueInv, ScheduleInv, PhaseInv, [Next]_vars
    PROVE  ScheduleTypeOK' /\ QueueInv' /\ ScheduleInv' /\ Kept
  <1>0. faults' \in 0..MaxFaults
    BY FaultsBounded, TypesSplit
  <1> SUFFICES WorkTypes' /\ QueueInv' /\ ScheduleInv' /\ Kept
    <2>1. (ScheduleTypeOK <=> WorkTypes /\ faults \in 0..MaxFaults)'
      BY TypesSplit, PTL
    <2> QED
      BY <1>0, <2>1
  <1>1. CASE \/ UNCHANGED <<queue, stored, dead, held, ready, worker>>
             \/ Surroundings
             \/ \E s \in Owned \ held : held' = held \union {s} /\ UNCHANGED <<queue, stored, dead, ready, worker>>
             \/ ready /\ ready' = FALSE /\ UNCHANGED <<queue, stored, dead, held, worker>>
    <2>1. WorkTypes' /\ QueueInv' /\ Kept /\ UNCHANGED worker
      BY <1>1, SurroundingsEffect
    <2> QED
      BY <2>1, WorkerStill
  <1>2. ASSUME NEW s \in Owned, SyncShard(s) \/ ShardHeld(s) \/ ShardFails(s)
        PROVE  WorkTypes' /\ QueueInv' /\ ScheduleInv' /\ Kept
    BY <1>2, ShardEffect, ShardKeeps
  <1>3. CASE phase = "app" /\ CloseSchedule
    <2>1. ~job
      BY <1>3 DEF PhaseInv
    <2> QED
      BY <1>3, <2>1, WorkerKeeps
  <1>4. CASE TickEnds \/ Start \/ TimerTick \/ FinalTick \/ CloseReturns \/ Drain \/ DrainNext
    BY <1>4, WorkerKeeps
  <1>5. CASE ScheduleStep
    BY <1>2, <1>4, <1>5 DEF ScheduleStep, ShardStep
  <1>6. CASE ScheduleFault
    BY <1>1, <1>2, <1>6 DEF ScheduleFault
  <1> QED
    BY <1>1, <1>3, <1>5, <1>6, StepKinds

-----------------------------------------------------------------------------
(***************************************************************************)
(* The order of the shutdown                                               *)
(***************************************************************************)
\* What the steps of the click buffer do to the stage of its close().
LEMMA StageMoves ==
    ASSUME \/ \E c \in Codes : Record(c)
           \/ TimerFlush \/ RecordClickBatch \/ FlushReturns
           \/ FlushRejects \/ CloseLoop
    PROVE  (stage' = "open" <=> stage = "open") /\ (stage = "closed" => stage' = "closed")
  BY DEF Record, TimerFlush, RecordClickBatch, FlushReturns,
         FlushRejects, CloseLoop

PhaseTypes ==
    /\ phase \in {"serving", "app", "sync", "clicks", "connections", "exited", "failed"}
    /\ redirecting \subseteq Codes

\* The phases follow one another in order, each behind what it waits for.
LEMMA PhaseKeeps ==
    ASSUME ScheduleTypeOK, PhaseInv, PhaseTypes, [Next]_vars
    PROVE  PhaseInv' /\ PhaseTypes'
  <1> USE DEF PhaseTypes
  <1>1. CASE UNCHANGED vars
    BY <1>1 DEF vars, scheduleVars, worker, bufferVars, buffer, history, PhaseInv
  <1>2. ASSUME NEW c \in Codes, FindLink(c) PROVE PhaseInv' /\ PhaseTypes'
    BY <1>2 DEF FindLink, scheduleVars, worker, bufferVars, buffer, history, PhaseInv
  <1>3. ASSUME NEW c \in Codes, RecordClick(c) PROVE PhaseInv' /\ PhaseTypes'
    <2>1. UNCHANGED <<job, closing, phase>> /\ redirecting' = redirecting \ {c}
          /\ (stage' = "open" <=> stage = "open") /\ (stage = "closed" => stage' = "closed")
      BY <1>3, StageMoves DEF RecordClick, worker
    <2> QED
      BY <2>1 DEF PhaseInv
  <1>4. CASE Signal
    BY <1>4 DEF Signal, scheduleVars, worker, bufferVars, buffer, history, PhaseInv
  <1>5. CASE AppClosed
    <2>1. phase = "app" /\ redirecting = {} /\ redirecting' = {}
      BY <1>5 DEF AppClosed
    <2>2. closing = "open" /\ stage = "open" /\ ~job
      BY <2>1 DEF PhaseInv
    <2>3. CASE CloseSchedule /\ phase' = "sync" /\ UNCHANGED bufferVars
      BY <2>1, <2>2, <2>3 DEF CloseSchedule, bufferVars, buffer, history, PhaseInv
    <2>4. CASE Close /\ phase' = "clicks" /\ UNCHANGED worker
      BY <2>1, <2>2, <2>4 DEF Close, worker, PhaseInv
    <2> QED
      BY <1>5, <2>3, <2>4 DEF AppClosed, CloseWorkerOrClicks
  <1>6. CASE WorkerClosed
    BY <1>6 DEF WorkerClosed, Close, worker, PhaseInv
  <1>7. CASE ClicksClosed
    BY <1>7 DEF ClicksClosed, scheduleVars, worker, bufferVars, buffer, history, PhaseInv
  <1>8. CASE Exit
    BY <1>8 DEF Exit, scheduleVars, worker, bufferVars, buffer, history, PhaseInv
  <1>9. CASE ClickStep \/ ClickFault
    <2>1. /\ UNCHANGED <<job, closing, phase, redirecting>>
          /\ (stage' = "open" <=> stage = "open") /\ (stage = "closed" => stage' = "closed")
      BY <1>9, StageMoves DEF ClickStep, ClickFault, worker
    <2> QED
      BY <2>1 DEF PhaseInv
  <1>10. CASE WorkStep \/ Outside
    <2>1. /\ UNCHANGED <<stage, phase, redirecting>>
          /\ job' = job
          /\ closing' = closing \/ (closing \in {"waiting", "final"} /\ closing' # "open")
      BY <1>10, ClosingMoves DEF WorkStep, Outside, bufferVars, buffer, history
    <2> QED
      BY <2>1 DEF PhaseInv
  <1> QED
    BY <1>1, <1>2, <1>3, <1>4, <1>5, <1>6, <1>7, <1>8, <1>9, <1>10 DEF Next, ShutdownStep

\* The invariant of the schedule and the phases.
ServerInv == ScheduleTypeOK /\ QueueInv /\ ScheduleInv /\ PhaseInv /\ PhaseTypes

\* It holds of the server and of the job, whatever the buffer does.
LEMMA ServerCorrect == Spec => []ServerInv
  <1>1. Init => ServerInv
    <2> SUFFICES ASSUME Init PROVE ServerInv
      OBVIOUS
    <2>1. ScheduleTypeOK
      <3>1. queue \in [Shards -> Seq(Codes)]
        BY DEF Init, ScheduleInit
      <3>2. WorkTypes
        BY <3>1 DEF Init, ScheduleInit, WorkTypes
      <3>3. faults \in 0..MaxFaults
        BY ScheduleAssumption DEF Init, ScheduleInit
      <3> QED
        BY <3>2, <3>3, TypesSplit
    <2>2. QueueInv
      BY DEF Init, ScheduleInit, QueueInv
    <2>3. ScheduleInv
      BY DEF Init, ScheduleInit, ScheduleInv, TickInv, StarterInv, CloseInv
    <2>4. PhaseInv /\ PhaseTypes
      BY DEF Init, ScheduleInit, BufferInit, PhaseInv, PhaseTypes
    <2> QED
      BY <2>1, <2>2, <2>3, <2>4 DEF ServerInv
  <1>2. ServerInv /\ [Next]_vars => ServerInv'
    BY ScheduleKeeps, PhaseKeeps DEF ServerInv
  <1> QED
    BY <1>1, <1>2, PTL DEF Spec

-----------------------------------------------------------------------------
(***************************************************************************)
(* The click buffer by itself                                              *)
(***************************************************************************)
\* The counters are counters, and only an UPDATE that has run has unmatched
\* codes.
CounterInv ==
    /\ clicks \in Counters /\ pending \in Counters /\ batch \in Counters
    /\ dropped \in Counters /\ recorded \in Counters /\ doubled \in Counters
    /\ stored \in SUBSET Codes /\ unmatched \in SUBSET Codes
    /\ flush \in {"none", "sent", "done"}
    /\ flush # "done" => unmatched = {}

\* close() is in its loop only between flushes, and leaves it empty-handed.
DrainInv ==
    /\ stage \in {"open", "wait", "loop", "closed", "failed"}
    /\ stage = "loop" => flush = "none"
    /\ stage = "closed" => flush = "none" /\ pending = Zero

-----------------------------------------------------------------------------
\* What TakeBatch does with the map it is given: it stays in the buffer, or it
\* is the batch in flight and the buffer is empty.
LEMMA TakeBatchEffect ==
  ASSUME NEW counts \in Counters, NEW total, NEW new, CounterInv,
         TakeBatch(counts, total, new)
  PROVE  \/ /\ pending' = counts /\ UNCHANGED <<flush, batch>>
            /\ flush # "none" \/ counts = Zero
         \/ /\ flush = "none" /\ flush' = "sent"
            /\ batch' = counts /\ pending' = Zero
  BY DEF TakeBatch, CounterInv

\* Takes, merges, UPDATEs and drops keep the counters counters.
LEMMA CountersCorrect == BufferSpec => []CounterInv
<1> USE DEF Counters, Zero
<1>1. BufferInit => CounterInv
  BY DEF BufferInit, CounterInv
<1>2. CounterInv /\ [BufferNext]_clickVars => CounterInv'
  <2> SUFFICES ASSUME CounterInv, [BufferNext]_clickVars PROVE CounterInv'
    OBVIOUS
  <2>1. ASSUME NEW c \in Codes, Record(c) PROVE CounterInv'
    <3> DEFINE counts == [pending EXCEPT ![c] = @ + 1]
    <3>1. counts \in Counters /\ recorded' \in Counters
      BY <2>1 DEF CounterInv, Record
    <3>2. \/ TakeBatch(counts, pendingTotal + 1, fresh \union {c})
          \/ pending' = counts /\ UNCHANGED <<flush, batch>>
      BY <2>1 DEF Record
    <3>3. UNCHANGED <<stored, clicks, unmatched, dropped, doubled>>
      BY <2>1 DEF Record
    <3>4. \/ pending' = counts /\ UNCHANGED <<flush, batch>>
          \/ flush' = "sent" /\ flush = "none" /\ batch' = counts /\ pending' = Zero
      BY <3>1, <3>2, TakeBatchEffect
    <3> HIDE DEF counts
    <3> QED
      BY <3>1, <3>3, <3>4 DEF CounterInv
  <2>2. CASE TimerFlush
    BY <2>2, TakeBatchEffect DEF TimerFlush, CounterInv
  <2>3. CASE RecordClickBatch
    BY <2>3 DEF RecordClickBatch, CounterInv, buffer, history
  <2>4. CASE FlushReturns
    BY <2>4 DEF FlushReturns, FlushEnds, Merge, CounterInv
  <2>5. CASE FlushRejects
    BY <2>5 DEF FlushRejects, FlushEnds, Merge, CounterInv
  <2>6. CASE Close
    BY <2>6 DEF Close, CounterInv, buffer, history
  <2>7. CASE CloseLoop
    BY <2>7, TakeBatchEffect DEF CloseLoop, CounterInv
  <2>8. ASSUME NEW rows \in SUBSET Codes, RowsInserted(rows) PROVE CounterInv'
    BY <2>8 DEF RowsInserted, CounterInv, buffer, history
  <2>9. CASE UNCHANGED clickVars
    BY <2>9 DEF clickVars, bufferVars, CounterInv, buffer, history
  <2> QED
    BY <2>1, <2>2, <2>3, <2>4, <2>5, <2>6, <2>7, <2>8, <2>9 DEF BufferNext
<1> QED
  BY <1>1, <1>2, PTL DEF BufferSpec

\* A step that only takes the buffer as a batch, or nothing, conserves clicks.
LEMMA TakingConserves ==
  ASSUME CounterInv, ClicksConserved, NEW total, NEW new,
         TakeBatch(pending, total, new),
         UNCHANGED <<clicks, dropped, recorded, doubled, unmatched>>
  PROVE  ClicksConserved'
<1>1. \/ UNCHANGED <<pending, flush, batch>>
      \/ flush = "none" /\ flush' = "sent" /\ batch' = pending /\ pending' = Zero
  BY TakeBatchEffect DEF CounterInv
<1> QED
  BY <1>1 DEF ClicksConserved, InFlight, CounterInv, Counters, Zero

\* No interleaving of clicks, flushes, lost answers and close() loses a click
\* or counts one twice, but for an UPDATE that committed unheard.
THEOREM Conservation == BufferSpec => []ClicksConserved
<1>1. BufferInit => ClicksConserved
  <2> SUFFICES ASSUME BufferInit, NEW c \in Codes
               PROVE  clicks[c] + pending[c] + InFlight(c) + dropped[c] = recorded[c] + doubled[c]
    BY DEF ClicksConserved
  <2>1. /\ clicks[c] = 0 /\ pending[c] = 0 /\ dropped[c] = 0
        /\ recorded[c] = 0 /\ doubled[c] = 0
    BY DEF BufferInit, Zero
  <2>2. InFlight(c) = 0
    BY DEF BufferInit, InFlight
  <2> QED
    BY <2>1, <2>2
<1>2. CounterInv /\ CounterInv' /\ ClicksConserved /\ [BufferNext]_clickVars => ClicksConserved'
  <2> SUFFICES ASSUME CounterInv, CounterInv', ClicksConserved, [BufferNext]_clickVars
               PROVE  ClicksConserved'
    OBVIOUS
  <2>1. ASSUME NEW c \in Codes, Record(c) PROVE ClicksConserved'
    <3> DEFINE counts == [pending EXCEPT ![c] = @ + 1]
    <3>1. counts \in Counters
      BY DEF CounterInv, Counters
    <3>2. \/ TakeBatch(counts, pendingTotal + 1, fresh \union {c})
          \/ pending' = counts /\ UNCHANGED <<flush, batch>>
      BY <2>1 DEF Record
    <3>3. \/ pending' = counts /\ UNCHANGED <<flush, batch>>
          \/ flush = "none" /\ flush' = "sent" /\ batch' = counts /\ pending' = Zero
      BY <3>1, <3>2, TakeBatchEffect
    <3>4. /\ recorded' = [recorded EXCEPT ![c] = @ + 1]
          /\ UNCHANGED <<clicks, unmatched, dropped, doubled>>
      BY <2>1 DEF Record
    <3>5. ASSUME NEW d \in Codes
          PROVE  counts[d] = (IF d = c THEN pending[d] + 1 ELSE pending[d])
      BY DEF CounterInv, Counters
    <3> HIDE DEF counts
    <3>6. CASE pending' = counts /\ UNCHANGED <<flush, batch>>
      BY <3>4, <3>5, <3>6 DEF ClicksConserved, InFlight, CounterInv, Counters
    <3>7. CASE flush = "none" /\ flush' = "sent" /\ batch' = counts /\ pending' = Zero
      BY <3>4, <3>5, <3>7 DEF ClicksConserved, InFlight, CounterInv, Counters, Zero
    <3> QED
      BY <3>3, <3>6, <3>7
  <2>2. CASE TimerFlush
    BY <2>2, TakingConserves DEF TimerFlush
  <2>3. CASE RecordClickBatch
    BY <2>3 DEF RecordClickBatch, ClicksConserved, InFlight, CounterInv, Counters, buffer, history
  <2>4. CASE FlushReturns
    BY <2>4 DEF FlushReturns, FlushEnds, Merge, Retried, ClicksConserved, InFlight,
                CounterInv, Counters
  <2>5. CASE FlushRejects
    BY <2>5 DEF FlushRejects, FlushEnds, Merge, ClicksConserved, InFlight, CounterInv, Counters
  <2>6. CASE Close
    BY <2>6 DEF Close, ClicksConserved, InFlight, buffer, history
  <2>7. CASE CloseLoop
    BY <2>7, TakingConserves DEF CloseLoop
  <2>8. ASSUME NEW rows \in SUBSET Codes, RowsInserted(rows) PROVE ClicksConserved'
    BY <2>8 DEF RowsInserted, ClicksConserved, InFlight, buffer, history
  <2>9. CASE UNCHANGED clickVars
    BY <2>9 DEF clickVars, bufferVars, ClicksConserved, InFlight, buffer, history
  <2> QED
    BY <2>1, <2>2, <2>3, <2>4, <2>5, <2>6, <2>7, <2>8, <2>9 DEF BufferNext
<1> QED
  BY <1>1, <1>2, CountersCorrect, PTL DEF BufferSpec

\* close() resolves only with an empty buffer and no flush in flight, even when
\* flushes started by records or the timer overlap with it.
THEOREM ClosedIsDrained == BufferSpec => []CloseDrains
<1>1. BufferInit => DrainInv
  BY DEF BufferInit, DrainInv
<1>2. CounterInv /\ DrainInv /\ [BufferNext]_clickVars => DrainInv'
  <2> SUFFICES ASSUME CounterInv, DrainInv, [BufferNext]_clickVars PROVE DrainInv'
    OBVIOUS
  <2>1. ASSUME NEW c \in Codes, Record(c) PROVE DrainInv'
    BY <2>1 DEF Record, DrainInv
  <2>2. CASE TimerFlush
    BY <2>2 DEF TimerFlush, DrainInv
  <2>3. CASE RecordClickBatch
    BY <2>3 DEF RecordClickBatch, DrainInv, CounterInv, buffer
  <2>4. CASE FlushReturns
    BY <2>4 DEF FlushReturns, FlushEnds, DrainInv
  <2>5. CASE FlushRejects
    BY <2>5 DEF FlushRejects, FlushEnds, DrainInv
  <2>6. CASE Close
    BY <2>6 DEF Close, DrainInv, buffer
  <2>7. CASE CloseLoop
    <3>1. pending \in Counters
      BY DEF CounterInv
    <3>2. \/ pending' = pending /\ UNCHANGED <<flush, batch>> /\ (flush # "none" \/ pending = Zero)
          \/ flush = "none" /\ flush' = "sent"
      BY <2>7, <3>1, TakeBatchEffect DEF CloseLoop
    <3>3. stage = "loop" /\ stage' = IF pending # Zero THEN "wait" ELSE "closed"
      BY <2>7 DEF CloseLoop
    <3>4. pending = Zero => UNCHANGED <<pending, flush>>
      BY <2>7 DEF CloseLoop, TakeBatch
    <3> QED
      BY <3>2, <3>3, <3>4 DEF DrainInv
  <2>8. ASSUME NEW rows \in SUBSET Codes, RowsInserted(rows) PROVE DrainInv'
    BY <2>8 DEF RowsInserted, DrainInv, buffer
  <2>9. CASE UNCHANGED clickVars
    BY <2>9 DEF clickVars, bufferVars, history, DrainInv, buffer
  <2> QED
    BY <2>1, <2>2, <2>3, <2>4, <2>5, <2>6, <2>7, <2>8, <2>9 DEF BufferNext
<1>3. DrainInv => CloseDrains
  BY DEF DrainInv, CloseDrains
<1> QED
  BY <1>1, <1>2, <1>3, CountersCorrect, PTL DEF BufferSpec

-----------------------------------------------------------------------------
\* The rest of the buffer's state is of its type: in particular no code has
\* used up its attempts.
RestInv ==
    /\ attempts \in [Codes -> 0..(MaxUnmatchedAttempts - 1)]
    /\ stage \in {"open", "wait", "loop", "closed", "failed"}
    /\ fresh \in SUBSET Codes /\ freshBatch \in SUBSET Codes
    /\ rejects \in 0..MaxRejects

\* The attempts of a code stay below the limit at which it is given up, and the
\* rest of the state keeps its type.
LEMMA RestCorrect == BufferSpec => []RestInv
<1> USE ClickAssumption
<1>1. BufferInit => RestInv
  BY DEF BufferInit, RestInv, Zero
<1>2. RestInv /\ [BufferNext]_clickVars => RestInv'
  <2> SUFFICES ASSUME RestInv, [BufferNext]_clickVars PROVE RestInv'
    OBVIOUS
  <2>1. ASSUME NEW c \in Codes, Record(c) PROVE RestInv'
    BY <2>1 DEF Record, TakeBatch, RestInv
  <2>2. CASE TimerFlush
    BY <2>2 DEF TimerFlush, TakeBatch, RestInv
  <2>3. CASE RecordClickBatch
    BY <2>3 DEF RecordClickBatch, RestInv, buffer, history
  <2>4. CASE FlushReturns
    <3>1. \A c \in Retried : attempts[c] + 1 < MaxUnmatchedAttempts \/ c \notin Codes
      BY DEF Retried, GivesUp, RestInv
    <3>2. attempts' \in [Codes -> 0..(MaxUnmatchedAttempts - 1)]
      BY <2>4, <3>1 DEF FlushReturns, RestInv
    <3> QED
      BY <2>4, <3>2 DEF FlushReturns, FlushEnds, RestInv
  <2>5. CASE FlushRejects
    BY <2>5 DEF FlushRejects, FlushEnds, RestInv
  <2>6. CASE Close
    BY <2>6 DEF Close, RestInv, buffer, history
  <2>7. CASE CloseLoop
    BY <2>7 DEF CloseLoop, TakeBatch, RestInv
  <2>8. ASSUME NEW rows \in SUBSET Codes, RowsInserted(rows) PROVE RestInv'
    BY <2>8 DEF RowsInserted, RestInv, buffer, history
  <2>9. CASE UNCHANGED clickVars
    BY <2>9 DEF clickVars, bufferVars, RestInv, buffer, history
  <2> QED
    BY <2>1, <2>2, <2>3, <2>4, <2>5, <2>6, <2>7, <2>8, <2>9 DEF BufferNext
<1> QED
  BY <1>1, <1>2, PTL DEF BufferSpec

\* The total as a sum over the codes.
TotalInv == pendingTotal = SumFunctionOnSet(pending, Codes)

\* A merge of part of the batch adds the sum of that part.
LEMMA MergeAddsSum ==
  ASSUME CounterInv, NEW part \in SUBSET Codes
  PROVE  SumFunctionOnSet(Merge(part), Codes) =
             SumFunctionOnSet(pending, Codes) + SumFunctionOnSet(batch, part)
<1>1. /\ IsFiniteSet(Codes)
      /\ \A c \in Codes : pending[c] \in Int /\ batch[c] \in Int
      /\ \A c \in Codes : Merge(part)[c] = IF c \in part THEN pending[c] + batch[c] ELSE pending[c]
  BY ClickAssumption DEF CounterInv, Counters, Merge
<1> QED
  BY <1>1, SumMerge

\* TakeBatch keeps the total right if it was given the total of its map.
LEMMA TakingKeepsTotal ==
  ASSUME NEW counts, NEW new, TakeBatch(counts, SumFunctionOnSet(counts, Codes), new)
  PROVE  TotalInv'
<1>1. SumFunctionOnSet(Zero, Codes) = 0
  BY ClickAssumption, SumZero DEF Zero
<1> QED
  BY <1>1 DEF TakeBatch, TotalInv

\* pendingTotal, which decides when a full buffer is flushed (record, line
\* 116), counts the map through takes, merges and retries, for any number of
\* codes; and the buffer's state is of its type.
THEOREM TotalIsSum == BufferSpec => []BufferConsistent
<1>1. BufferInit => TotalInv
  BY ClickAssumption, SumZero DEF BufferInit, TotalInv, Zero
<1>2. CounterInv /\ TotalInv /\ [BufferNext]_clickVars => TotalInv'
  <2> SUFFICES ASSUME CounterInv, TotalInv, [BufferNext]_clickVars PROVE TotalInv'
    OBVIOUS
  <2>1. ASSUME NEW c \in Codes, Record(c) PROVE TotalInv'
    <3> DEFINE counts == [pending EXCEPT ![c] = @ + 1]
    <3>1. SumFunctionOnSet(counts, Codes) = SumFunctionOnSet(pending, Codes) - pending[c] + counts[c]
      <4>1. /\ IsFiniteSet(Codes)
            /\ \A d \in Codes : pending[d] \in Int /\ counts[d] \in Int
            /\ \A d \in Codes \ {c} : pending[d] = counts[d]
        BY ClickAssumption DEF CounterInv, Counters
      <4> HIDE DEF counts
      <4> QED
        BY <4>1, SumUpdate
    <3>2. counts[c] = pending[c] + 1 /\ pending[c] \in Int
      BY DEF CounterInv, Counters
    <3>3. SumFunctionOnSet(pending, Codes) \in Int
      BY ClickAssumption, SumInt DEF CounterInv, Counters
    <3>4. pendingTotal + 1 = SumFunctionOnSet(counts, Codes)
      <4> HIDE DEF counts
      <4> QED
        BY <3>1, <3>2, <3>3 DEF TotalInv
    <3>5. \/ TakeBatch(counts, pendingTotal + 1, fresh \union {c})
          \/ pending' = counts /\ pendingTotal' = pendingTotal + 1
      BY <2>1 DEF Record
    <3>6. CASE TakeBatch(counts, pendingTotal + 1, fresh \union {c})
      <4> HIDE DEF counts
      <4> QED
        BY <3>4, <3>6, TakingKeepsTotal, Zenon
    <3>7. CASE pending' = counts /\ pendingTotal' = pendingTotal + 1
      <4> HIDE DEF counts
      <4> QED
        BY <3>4, <3>7 DEF TotalInv
    <3> QED
      BY <3>5, <3>6, <3>7
  <2>2. CASE TimerFlush
    BY <2>2, TakingKeepsTotal DEF TimerFlush, TotalInv
  <2>3. CASE RecordClickBatch
    BY <2>3 DEF RecordClickBatch, TotalInv, buffer, history
  <2>4. CASE FlushReturns
    <3>1. Retried \in SUBSET Codes
      BY DEF Retried, CounterInv
    <3>2. pending' = Merge(Retried) /\ pendingTotal' = pendingTotal + SumFunctionOnSet(batch, Retried)
      BY <2>4 DEF FlushReturns
    <3> QED
      BY <3>1, <3>2, MergeAddsSum DEF TotalInv
  <2>5. CASE FlushRejects
    <3>1. pending' = Merge(Codes) /\ pendingTotal' = pendingTotal + SumFunctionOnSet(batch, Codes)
      BY <2>5 DEF FlushRejects
    <3> QED
      BY <3>1, MergeAddsSum DEF TotalInv
  <2>6. CASE Close
    BY <2>6 DEF Close, TotalInv, buffer, history
  <2>7. CASE CloseLoop
    BY <2>7, TakingKeepsTotal DEF CloseLoop, TotalInv
  <2>8. ASSUME NEW rows \in SUBSET Codes, RowsInserted(rows) PROVE TotalInv'
    BY <2>8 DEF RowsInserted, TotalInv, buffer, history
  <2>9. CASE UNCHANGED clickVars
    BY <2>9 DEF clickVars, bufferVars, TotalInv, buffer, history
  <2> QED
    BY <2>1, <2>2, <2>3, <2>4, <2>5, <2>6, <2>7, <2>8, <2>9 DEF BufferNext
<1>3. CounterInv /\ RestInv /\ TotalInv => BufferConsistent
  <2> SUFFICES ASSUME CounterInv, RestInv, TotalInv PROVE BufferConsistent
    OBVIOUS
  <2>1. DOMAIN pending = Codes
    BY DEF CounterInv, Counters
  <2>2. SumFunction(pending) = SumFunctionOnSet(pending, Codes)
    BY <2>1, Zenon DEF SumFunction
  <2>3. pendingTotal \in Nat
    BY ClickAssumption, SumNat DEF TotalInv, CounterInv, Counters
  <2> QED
    BY <2>2, <2>3 DEF BufferConsistent, BufferTypeOK, PendingTotalIsSum, TotalInv, CounterInv, RestInv
<1> QED
  BY <1>1, <1>2, <1>3, CountersCorrect, RestCorrect, PTL DEF BufferSpec

-----------------------------------------------------------------------------
\* A code without a recorded click has none in the buffer or in flight, however
\* often batches are merged back.
OnlyRecorded == \A c \in Codes : recorded[c] = 0 => pending[c] = 0 /\ batch[c] = 0

\* The buffer holds clicks of recorded codes only; a module that composes the
\* buffer with the writers of rows uses this.
LEMMA HoldsOnlyRecorded == BufferSpec => []OnlyRecorded
<1> USE DEF Counters, Zero
<1>1. BufferInit => OnlyRecorded
  BY DEF BufferInit, OnlyRecorded
<1>2. CounterInv /\ OnlyRecorded /\ [BufferNext]_clickVars => OnlyRecorded'
  <2> SUFFICES ASSUME CounterInv, OnlyRecorded, [BufferNext]_clickVars PROVE OnlyRecorded'
    OBVIOUS
  <2>1. ASSUME NEW c \in Codes, Record(c) PROVE OnlyRecorded'
    <3> DEFINE counts == [pending EXCEPT ![c] = @ + 1]
    <3>1. counts \in Counters /\ \A d \in Codes \ {c} : counts[d] = pending[d]
      BY DEF CounterInv
    <3>2. \/ TakeBatch(counts, pendingTotal + 1, fresh \union {c})
          \/ pending' = counts /\ UNCHANGED <<flush, batch>>
      BY <2>1 DEF Record
    <3>3. \/ pending' = counts /\ UNCHANGED <<flush, batch>>
          \/ batch' = counts /\ pending' = Zero
      BY <3>1, <3>2, TakeBatchEffect
    <3>4. recorded'[c] # 0 /\ \A d \in Codes \ {c} : recorded'[d] = recorded[d]
      BY <2>1 DEF Record, CounterInv
    <3> HIDE DEF counts
    <3> QED
      BY <3>1, <3>3, <3>4 DEF OnlyRecorded
  <2>2. CASE TimerFlush
    BY <2>2, TakeBatchEffect DEF TimerFlush, CounterInv, OnlyRecorded
  <2>3. CASE RecordClickBatch
    BY <2>3 DEF RecordClickBatch, OnlyRecorded, buffer, history
  <2>4. CASE FlushReturns
    BY <2>4 DEF FlushReturns, FlushEnds, Merge, CounterInv, OnlyRecorded
  <2>5. CASE FlushRejects
    BY <2>5 DEF FlushRejects, FlushEnds, Merge, CounterInv, OnlyRecorded
  <2>6. CASE Close
    BY <2>6 DEF Close, OnlyRecorded, buffer, history
  <2>7. CASE CloseLoop
    BY <2>7, TakeBatchEffect DEF CloseLoop, CounterInv, OnlyRecorded
  <2>8. ASSUME NEW rows \in SUBSET Codes, RowsInserted(rows) PROVE OnlyRecorded'
    BY <2>8 DEF RowsInserted, OnlyRecorded, buffer, history
  <2>9. CASE UNCHANGED clickVars
    BY <2>9 DEF clickVars, bufferVars, OnlyRecorded, buffer, history
  <2> QED
    BY <2>1, <2>2, <2>3, <2>4, <2>5, <2>6, <2>7, <2>8, <2>9 DEF BufferNext
<1> QED
  BY <1>1, <1>2, CountersCorrect, PTL DEF BufferSpec
-----------------------------------------------------------------------------
(***************************************************************************)
(* The click buffer of the process is a click buffer                       *)
(***************************************************************************)
\* To the buffer, a step of the process is one of its own, rows that appear, or
\* nothing.
LEMMA BufferSteps ==
    ASSUME ServerInv, ServerInv', Kept, [Next]_vars
    PROVE  [BufferNext]_clickVars
  <1>1. ASSUME UNCHANGED bufferVars PROVE [BufferNext]_clickVars
    <2> DEFINE rows == stored' \ stored
    <2>1. rows \in SUBSET Codes /\ rows \intersect stored = {} /\ stored' = stored \union rows
      BY DEF ServerInv, ScheduleTypeOK, Kept
    <2>2. RowsInserted(rows)
      BY <1>1, <2>1 DEF RowsInserted, bufferVars, buffer, history
    <2> HIDE DEF rows
    <2> QED
      BY <2>1, <2>2 DEF BufferNext
  <1>2. ASSUME \/ \E c \in Codes : Record(c)
               \/ TimerFlush \/ RecordClickBatch \/ FlushReturns
               \/ FlushRejects \/ Close \/ CloseLoop
        PROVE  [BufferNext]_clickVars
    BY <1>2 DEF BufferNext
  <1>3. CASE UNCHANGED vars
    BY <1>1, <1>3 DEF vars
  <1>4. ASSUME NEW c \in Codes, FindLink(c) \/ RecordClick(c) PROVE [BufferNext]_clickVars
    BY <1>1, <1>2, <1>4 DEF FindLink, RecordClick
  <1>5. CASE Signal \/ ClicksClosed \/ Exit
    BY <1>1, <1>5 DEF Signal, ClicksClosed, Exit
  <1>6. CASE AppClosed \/ WorkerClosed
    BY <1>1, <1>2, <1>6 DEF AppClosed, WorkerClosed, CloseWorkerOrClicks
  <1>7. CASE ClickStep \/ ClickFault
    BY <1>2, <1>7 DEF ClickStep, ClickFault
  <1>8. CASE WorkStep \/ Outside
    BY <1>1, <1>8 DEF WorkStep, Outside
  <1> QED
    BY <1>3, <1>4, <1>5, <1>6, <1>7, <1>8 DEF Next, ShutdownStep

\* The buffer, as the server runs it beside the sync worker, behaves as a click
\* buffer whose rows appear when they like.
LEMMA BufferRuns == Spec => BufferSpec
  <1>1. Init => BufferInit
    BY DEF Init
  <1>2. ServerInv /\ ServerInv' /\ [Next]_vars => [BufferNext]_clickVars
    <2> SUFFICES ASSUME ServerInv, ServerInv', [Next]_vars
                 PROVE  [BufferNext]_clickVars
      OBVIOUS
    <2>1. Kept
      BY ScheduleKeeps DEF ServerInv
    <2> QED
      BY <2>1, BufferSteps
  <1> QED
    BY <1>1, <1>2, ServerCorrect, PTL DEF Spec, BufferSpec

\* What is known of a click buffer is known of this one.
BufferInv ==
    /\ BufferConsistent
    /\ CloseDrains
    /\ OnlyRecorded

\* The theorems about click buffers hold of the buffer of the process.
LEMMA BufferCorrect == Spec => []BufferInv
  <1>1. BufferConsistent /\ CloseDrains /\ OnlyRecorded => BufferInv
    BY DEF BufferInv
  <1> QED
    BY <1>1, BufferRuns, TotalIsSum, ClosedIsDrained, HoldsOnlyRecorded, PTL

-----------------------------------------------------------------------------
(***************************************************************************)
(* Clicks and rows                                                         *)
(***************************************************************************)
\* Only a redirect records a click.
LEMMA OnlyRedirectsRecord ==
    ASSUME [Next]_vars, ~ \E c \in Codes : RecordClick(c)
    PROVE  UNCHANGED recorded
  <1> USE DEF bufferVars, buffer, history
  <1>1. ASSUME \/ TimerFlush \/ RecordClickBatch \/ FlushReturns
               \/ FlushRejects \/ Close \/ CloseLoop
        PROVE  UNCHANGED recorded
    BY <1>1 DEF TimerFlush, RecordClickBatch, FlushReturns, FlushRejects,
                Close, CloseLoop, history
  <1> QED
    BY <1>1 DEF Next, vars, FindLink, Signal, ShutdownStep, AppClosed, CloseWorkerOrClicks, WorkerClosed,
                ClicksClosed, Exit, ClickStep, ClickFault, WorkStep, Outside

\* A redirect under way has found its link; it records its click or ends.
LEMMA RedirectsFind ==
    ASSUME [Next]_vars
    PROVE  \/ redirecting' \subseteq redirecting
           \/ \E c \in Codes : FindLink(c)
  BY DEF Next, vars, RecordClick, Signal, ShutdownStep, AppClosed, WorkerClosed,
         ClicksClosed, Exit, ClickStep, ClickFault, WorkStep, Outside

\* What was queued when the worker was closed stays what it was, and the worker
\* is closed once.
LEMMA ClosedOnce ==
    ASSUME [Next]_vars
    PROVE  \/ closing = "open" /\ closing' = "open"
           \/ closing # "open" /\ atClose' = atClose
           \/ closing = "open" /\ atClose' = Queued(Owned)
  <1>1. CASE UNCHANGED <<queue, stored, dead, held, ready, worker>>
    BY <1>1 DEF worker
  <1>2. CASE CloseSchedule
    BY <1>2 DEF CloseSchedule
  <1>3. CASE ScheduleStep \/ Surroundings \/ ScheduleFault
    BY <1>3, ClosingMoves
  <1> QED
    BY <1>1, <1>2, <1>3, StepKinds

\* Clicks stay on links that are settled or wait to be.
LEMMA LinksKeep ==
    ASSUME ServerInv, ServerInv', Kept, LinkInv,
           recorded \in [Codes -> Nat], [Next]_vars
    PROVE  LinkInv'
  <1> USE DEF ServerInv
  <1>1. \A c \in Codes : (Settled(c) \/ Waits(c)) => (Settled(c)' \/ Waits(c)')
    BY SettledStays DEF Kept
  <1>2. Owned' = Owned
    BY DEF Kept, Owned
  <1>3. ASSUME NEW c \in Codes, c \in redirecting' \/ recorded'[c] > 0
        PROVE  Settled(c)' \/ Waits(c)'
    <2>1. CASE recorded'[c] > 0 /\ recorded'[c] # recorded[c]
      <3>1. PICK d \in Codes : RecordClick(d)
        BY <2>1, OnlyRedirectsRecord
      <3>2. d \in redirecting /\ recorded' = [recorded EXCEPT ![d] = recorded[d] + 1]
        BY <3>1 DEF RecordClick, Record
      <3>3. c \in redirecting
        BY <2>1, <3>2
      <3> QED
        BY <1>1, <3>3 DEF LinkInv
    <2>2. CASE recorded'[c] > 0 /\ recorded'[c] = recorded[c]
      BY <1>1, <2>2 DEF LinkInv
    <2>3. CASE c \in redirecting' /\ c \in redirecting
      BY <1>1, <2>3 DEF LinkInv
    <2>4. CASE c \in redirecting' /\ c \notin redirecting
      <3>1. PICK d \in Codes : FindLink(d)
        BY <2>4, RedirectsFind
      <3>2. d = c /\ c \in Queued(Shards) \union stored \union dead
        BY <2>4, <3>1 DEF FindLink
      <3>3. Settled(c) \/ Waits(c)
        BY <3>2, QueuedWaits DEF Settled
      <3> QED
        BY <1>1, <3>3
    <2> QED
      BY <1>3, <2>1, <2>2, <2>3, <2>4
  <1>4. ASSUME closing' # "open", NEW c \in Codes, recorded'[c] > 0, ShardOf[c] \in Owned
        PROVE  Settled(c)' \/ c \in atClose'
    <2>1. CASE closing # "open" /\ atClose' = atClose
      <3>1. redirecting = {}
        BY <2>1 DEF PhaseInv
      <3>2. recorded' = recorded
        BY <3>1, OnlyRedirectsRecord DEF RecordClick
      <3> QED
        BY <1>4, <2>1, <3>2 DEF LinkInv, Kept, Settled
    <2>2. CASE closing = "open" /\ atClose' = Queued(Owned)
      <3>1. UNCHANGED <<queue, stored, dead, recorded>>
        <4>1. CASE UNCHANGED <<queue, stored, dead, held, ready, worker>>
          BY <1>4, <2>2, <4>1 DEF worker
        <4>2. CASE phase = "app" /\ CloseSchedule
          <5>1. ~ \E d \in Codes : RecordClick(d)
            BY <1>4, <2>2 DEF RecordClick, worker
          <5> QED
            BY <4>2, <5>1, OnlyRedirectsRecord DEF CloseSchedule, store
        <4>3. CASE ScheduleStep \/ Surroundings \/ ScheduleFault
          BY <1>4, <2>2, <4>3, ClosingMoves
        <4> QED
          BY <4>1, <4>2, <4>3, StepKinds
      <3>2. Settled(c) \/ Waits(c)
        BY <1>4, <3>1 DEF LinkInv
      <3>3. Waits(c) => c \in Queued(Owned)
        BY <1>4, OwnedShards, QueuedWaits
      <3> QED
        BY <2>2, <3>1, <3>2, <3>3 DEF Settled
    <2> QED
      BY <1>4, <2>1, <2>2, ClosedOnce
  <1> QED
    BY <1>2, <1>3, <1>4 DEF LinkInv

\* The links of recorded clicks are known throughout.
LEMMA LinksCorrect == Spec => []LinkInv
  <1>1. Init => LinkInv
    BY DEF Init, ScheduleInit, BufferInit, Zero, LinkInv
  <1>2. ServerInv /\ ServerInv' /\ BufferInv /\ LinkInv /\ [Next]_vars => LinkInv'
    <2> SUFFICES ASSUME ServerInv, ServerInv', BufferInv, LinkInv, [Next]_vars PROVE LinkInv'
      OBVIOUS
    <2>1. recorded \in [Codes -> Nat]
      BY DEF BufferInv, BufferConsistent, BufferTypeOK, Counters
    <2>2. Kept
      BY ScheduleKeeps DEF ServerInv
    <2> QED
      BY <2>1, <2>2, LinksKeep
  <1> QED
    BY <1>1, <1>2, ServerCorrect, BufferCorrect, PTL DEF Spec

-----------------------------------------------------------------------------
(***************************************************************************)
(* The theorems                                                            *)
(***************************************************************************)
\* The state of schedule, buffer and shutdown is of its type.
THEOREM ServerTypeCorrect == Spec => []TypeOK
  <1>1. ServerInv /\ BufferInv => TypeOK
    BY DEF ServerInv, BufferInv, PhaseTypes, TypeOK, BufferConsistent, BufferTypeOK,
           BufferTypeOK, Counters, Counters
  <1> QED
    BY <1>1, ServerCorrect, BufferCorrect, PTL

\* close() and drain() (link-sync-worker.ts:313, 340) leave nothing behind but
\* what their last tick could not get at or, for close(), what exceeds a tick;
\* the rest has its row, or is a dead letter if it is too long.  This is so for
\* any shards, codes and limits, with ticks under way, foreign locks, other
\* processes that sync, and failures at any point.
THEOREM LastTickCorrect == Spec => []LastTickSyncs
  <1>1. ServerInv => LastTickSyncs
    <2> SUFFICES ASSUME ServerInv PROVE LastTickSyncs
      OBVIOUS
    <2> USE DEF ServerInv, ScheduleInv
    <2>1. ASSUME ~running, NEW c \in atTick
          PROVE  Settled(c) \/ ShardOf[c] \in blocked \union capped
      BY <2>1 DEF TickInv
    <2>2. CloseSyncsWithinTick
      BY <2>1 DEF StarterInv, CloseInv, CloseSyncsWithinTick
    <2>3. DrainLeavesOnlyBlocked
      <3>1. drain = "done" => ~running /\ capped = {}
        BY DEF StarterInv, TickInv
      <3> QED
        BY <2>1, <3>1 DEF DrainLeavesOnlyBlocked
    <2> QED
      BY <2>2, <2>3 DEF LastTickSyncs
  <1> QED
    BY <1>1, ServerCorrect, PTL

\* The shutdown of a server (server.ts:185) keeps its order for everything under
\* way: no redirect meets a closed buffer, the rows of buffered clicks are there
\* when the last flushes begin, but for links too long to have one, and success
\* means that nothing is left.
THEOREM ShutdownCorrect == Spec => []ShutdownInOrder
  <1>1. ServerInv /\ BufferInv /\ LinkInv => ShutdownInOrder
    <2> SUFFICES ASSUME ServerInv, BufferInv, LinkInv PROVE ShutdownInOrder
      OBVIOUS
    <2> USE DEF ServerInv, ScheduleInv
    <2>1. /\ recorded \in [Codes -> Nat] /\ pending \in [Codes -> Nat]
          /\ \A c \in Codes : recorded[c] = 0 => pending[c] = 0
          /\ stage = "closed" => flush = "none" /\ \A c \in Codes : pending[c] = 0
      BY DEF BufferInv, BufferConsistent, BufferTypeOK, Counters,
             OnlyRecorded, CloseDrains, Zero
    <2>2. RowsBeforeClicks
      <3> SUFFICES ASSUME phase = "clicks", closing # "open", NEW c \in Codes, pending[c] > 0,
                          ShardOf[c] \in Owned \ (blocked \union capped)
                   PROVE  Settled(c)
        BY DEF RowsBeforeClicks
      <3>1. closing = "closed" /\ ~running /\ todo = {}
        BY DEF PhaseInv, StarterInv, TickInv
      <3>2. recorded[c] > 0
        BY <2>1
      <3>3. Settled(c) \/ c \in atClose
        BY <3>2 DEF LinkInv
      <3>4. c \in atClose => Settled(c) \/ c \in atTick
        BY <3>1 DEF CloseInv
      <3>5. c \in atTick => Settled(c)
        BY <3>1 DEF TickInv
      <3> QED
        BY <3>3, <3>4, <3>5
    <2>3. NoRedirectRefused
      BY DEF PhaseInv, PhaseTypes, NoRedirectRefused
    <2>4. SuccessMeansDrained
      BY <2>1 DEF PhaseInv, StarterInv, SuccessMeansDrained
    <2> QED
      BY <2>2, <2>3, <2>4 DEF ShutdownInOrder
  <1> QED
    BY <1>1, ServerCorrect, BufferCorrect, LinksCorrect, PTL
=============================================================================
