------------------------ MODULE ClusterPrimaryProofs ------------------------
(***************************************************************************)
(* Proofs about ClusterPrimary, for any numbers of shards, workers, forks, *)
(* events, scrapes and faults.                                             *)
(***************************************************************************)
EXTENDS ClusterPrimary, RecursionTheorems, SequenceTheorems, TLAPS

-----------------------------------------------------------------------------
(***************************************************************************)
(* Channels                                                                *)
(***************************************************************************)
\* A message carries a natural number of events.
LEMMA EventsInNat ==
    ASSUME NEW m \in Message
    PROVE  EventsIn(m) \in Nat
  BY DEF Message, EventsIn

\* The sum over the positions of a channel.
LEMMA BatchSumOverPositions ==
    ASSUME NEW s \in Seq(Message), NEW f,
           \A i \in 1..Len(s) : f[i] = EventsIn(s[i])
    PROVE  /\ BatchSum(s) = SumFunctionOnSet(f, 1..Len(s))
           /\ BatchSum(s) \in Nat
  <1> DEFINE g == [i \in DOMAIN s |-> EventsIn(s[i])]
  <1>1. DOMAIN s = 1..Len(s) /\ DOMAIN g = 1..Len(s)
    OBVIOUS
  <1>2. IsFiniteSet(1..Len(s))
    BY FS_Interval
  <1>3. \A i \in 1..Len(s) : s[i] \in Message
    OBVIOUS
  <1>4. \A i \in 1..Len(s) : g[i] = f[i] /\ g[i] \in Nat
    BY <1>1, <1>3, EventsInNat
  <1>5. BatchSum(s) = SumFunctionOnSet(g, 1..Len(s))
    BY <1>1, Zenon DEF BatchSum, SumFunction
  <1>6. SumFunctionOnSet(g, 1..Len(s)) = SumFunctionOnSet(f, 1..Len(s))
    <2> HIDE DEF g
    <2> QED
      BY <1>2, <1>4, SumEqual
  <1>7. SumFunctionOnSet(g, 1..Len(s)) \in Nat
    <2> HIDE DEF g
    <2> QED
      BY <1>2, <1>4, SumNat
  <1> QED
    BY <1>5, <1>6, <1>7

\* The events of a sequence of batches are a number.
LEMMA BatchSumNat ==
    ASSUME NEW s \in Seq(Message)
    PROVE  BatchSum(s) \in Nat
  <1> DEFINE f == [i \in 1..Len(s) |-> EventsIn(s[i])]
  <1>1. \A i \in 1..Len(s) : f[i] = EventsIn(s[i])
    OBVIOUS
  <1> HIDE DEF f
  <1> QED
    BY <1>1, BatchSumOverPositions

\* An empty channel.
LEMMA BatchSumEmpty == BatchSum(<<>>) = 0
  <1> DEFINE s == <<>>
             f == [i \in 1..0 |-> 0]
  <1>1. s \in Seq(Message) /\ Len(s) = 0 /\ \A i \in 1..Len(s) : f[i] = EventsIn(s[i])
    OBVIOUS
  <1>2. 1..Len(s) = {}
    BY <1>1
  <1>3. BatchSum(s) = SumFunctionOnSet(f, 1..Len(s))
    <2> HIDE DEF s, f
    <2> QED
      BY <1>1, BatchSumOverPositions
  <1> QED
    BY <1>2, <1>3, SumEmpty, Zenon

\* A message sent adds the events it carries.
LEMMA BatchSumAppend ==
    ASSUME NEW s \in Seq(Message), NEW m \in Message
    PROVE  BatchSum(Append(s, m)) = BatchSum(s) + EventsIn(m)
  <1> DEFINE t == Append(s, m)
             f == [i \in 1..Len(t) |-> EventsIn(t[i])]
  <1>1. /\ t \in Seq(Message) /\ Len(t) = Len(s) + 1 /\ Len(s) \in Nat
        /\ \A i \in 1..Len(s) : t[i] = s[i]
        /\ t[Len(s) + 1] = m
    OBVIOUS
  <1>2. \A i \in 1..Len(t) : f[i] = EventsIn(t[i]) /\ t[i] \in Message
    BY <1>1
  <1>3. \A i \in 1..Len(s) : f[i] = EventsIn(s[i])
    BY <1>1
  <1>4. f[Len(s) + 1] = EventsIn(m)
    BY <1>1
  <1> HIDE DEF f, t
  <1>5. \A i \in 1..(Len(s) + 1) : f[i] \in Int
    BY <1>1, <1>2, EventsInNat
  <1>6. SumFunctionOnSet(f, 1..(Len(s) + 1)) = SumFunctionOnSet(f, 1..Len(s)) + f[Len(s) + 1]
    BY <1>1, <1>5, SumLast
  <1>7. BatchSum(t) = SumFunctionOnSet(f, 1..Len(t))
    BY <1>1, <1>2, BatchSumOverPositions
  <1>8. BatchSum(s) = SumFunctionOnSet(f, 1..Len(s))
    BY <1>3, BatchSumOverPositions
  <1> QED
    BY <1>1, <1>4, <1>6, <1>7, <1>8 DEF t

\* A message taken out takes its events with it.
LEMMA BatchSumTail ==
    ASSUME NEW s \in Seq(Message), s # <<>>
    PROVE  BatchSum(s) = EventsIn(Head(s)) + BatchSum(Tail(s))
  <1> DEFINE t == Tail(s)
             f == [i \in 1..Len(s) |-> EventsIn(s[i])]
             g == [i \in 1..Len(t) |-> EventsIn(t[i])]
  <1>1. /\ t \in Seq(Message) /\ Len(s) = Len(t) + 1 /\ Len(t) \in Nat
        /\ \A i \in 1..Len(t) : t[i] = s[i + 1]
        /\ s[1] = Head(s)
    OBVIOUS
  <1>2. \A i \in 1..Len(s) : f[i] = EventsIn(s[i]) /\ s[i] \in Message
    OBVIOUS
  <1>3. \A i \in 1..Len(t) : g[i] = EventsIn(t[i]) /\ g[i] = f[i + 1]
    BY <1>1
  <1>4. f[1] = EventsIn(Head(s))
    BY <1>1
  <1> HIDE DEF f, g, t
  <1>5. \A i \in 1..(Len(t) + 1) : f[i] \in Int
    BY <1>1, <1>2, EventsInNat
  <1>6. SumFunctionOnSet(f, 1..(Len(t) + 1)) = f[1] + SumFunctionOnSet(g, 1..Len(t))
    BY <1>1, <1>3, <1>5, SumShift
  <1>7. BatchSum(s) = SumFunctionOnSet(f, 1..Len(s))
    BY <1>2, BatchSumOverPositions
  <1>8. BatchSum(t) = SumFunctionOnSet(g, 1..Len(t))
    BY <1>1, <1>3, BatchSumOverPositions
  <1> QED
    BY <1>1, <1>4, <1>6, <1>7, <1>8 DEF t

\* Part of a channel carries no more than all of it.
LEMMA BatchSumPrefix ==
    ASSUME NEW s \in Seq(Message), NEW n \in 0..Len(s)
    PROVE  /\ SubSeq(s, 1, n) \in Seq(Message)
           /\ BatchSum(SubSeq(s, 1, n)) \in Nat
           /\ BatchSum(SubSeq(s, 1, n)) <= BatchSum(s)
  <1> DEFINE t == SubSeq(s, 1, n)
             f == [i \in 1..Len(s) |-> EventsIn(s[i])]
  <1>1. /\ t \in Seq(Message) /\ Len(t) = n /\ Len(s) \in Nat
        /\ \A i \in 1..n : t[i] = s[i]
    OBVIOUS
  <1>2. \A i \in 1..Len(s) : f[i] = EventsIn(s[i]) /\ s[i] \in Message
    OBVIOUS
  <1>3. \A i \in 1..Len(t) : f[i] = EventsIn(t[i])
    BY <1>1
  <1> HIDE DEF f, t
  <1>4. \A i \in 1..Len(s) : f[i] \in Nat
    BY <1>2, EventsInNat
  <1>5. SumFunctionOnSet(f, 1..n) <= SumFunctionOnSet(f, 1..Len(s))
    BY <1>1, <1>4, SumPrefix
  <1>6. BatchSum(s) = SumFunctionOnSet(f, 1..Len(s))
    BY <1>2, BatchSumOverPositions
  <1>7. BatchSum(t) = SumFunctionOnSet(f, 1..Len(t)) /\ BatchSum(t) \in Nat
    BY <1>1, <1>3, BatchSumOverPositions
  <1>8. BatchSum(t) <= BatchSum(s)
    BY <1>1, <1>5, <1>6, <1>7
  <1> QED
    BY <1>1, <1>7, <1>8 DEF t

\* The channel of a worker after its flush.
Sent(w) == IF pending[w] = 0 THEN toPrimary[w] ELSE Append(toPrimary[w], Batch(pending[w]))

\* A flush moves the pending events into the channel.
LEMMA SentFacts ==
    ASSUME MetricsTypeOK, NEW w \in Workers
    PROVE  /\ Sent(w) \in Seq(Message)
           /\ BatchSum(Sent(w)) = BatchSum(toPrimary[w]) + pending[w]
  <1>1. toPrimary[w] \in Seq(Message) /\ pending[w] \in Nat
    BY DEF MetricsTypeOK
  <1>2. Batch(pending[w]) \in Message /\ EventsIn(Batch(pending[w])) = pending[w]
    BY <1>1 DEF Batch, Message, EventsIn
  <1>3. BatchSum(toPrimary[w]) \in Nat
    BY <1>1, BatchSumNat
  <1>4. CASE pending[w] = 0
    BY <1>1, <1>3, <1>4 DEF Sent
  <1>5. CASE pending[w] # 0
    BY <1>1, <1>2, <1>5, BatchSumAppend DEF Sent
  <1> QED
    BY <1>4, <1>5

\* A worker that flushes sends its events as one batch, or nothing if it has none.
LEMMA FlushAlone ==
    ASSUME MetricsTypeOK, NEW w \in Workers, FlushThen(w, <<>>)
    PROVE  toPrimary' = [toPrimary EXCEPT ![w] = Sent(w)] /\ pending' = [pending EXCEPT ![w] = 0]
  <1>1. toPrimary[w] \in Seq(Message) /\ pending[w] \in Nat
    BY DEF MetricsTypeOK
  <1>2. Batch(pending[w]) \in Message
    BY <1>1 DEF Batch, Message
  <1>3. toPrimary[w] \o (IF pending[w] = 0 THEN <<>> ELSE <<Batch(pending[w])>>) \o <<>> = Sent(w)
    <2>1. CASE pending[w] = 0
      BY <1>1, <2>1 DEF Sent
    <2>2. CASE pending[w] # 0
      BY <1>1, <1>2, <2>2 DEF Sent
    <2> QED
      BY <2>1, <2>2
  <1> QED
    BY <1>3 DEF FlushThen

\* A worker asked to flush sends its events before it acknowledges.
LEMMA FlushAndAcknowledge ==
    ASSUME MetricsTypeOK, NEW w \in Workers, NEW r \in Renders, FlushThen(w, <<Flushed(r)>>)
    PROVE  /\ toPrimary' = [toPrimary EXCEPT ![w] = Append(Sent(w), Flushed(r))]
           /\ pending' = [pending EXCEPT ![w] = 0]
  <1>1. toPrimary[w] \in Seq(Message) /\ pending[w] \in Nat
    BY DEF MetricsTypeOK
  <1>2. Batch(pending[w]) \in Message /\ Flushed(r) \in Message
    BY <1>1 DEF Batch, Message, Flushed
  <1>3. toPrimary[w] \o (IF pending[w] = 0 THEN <<>> ELSE <<Batch(pending[w])>>) \o <<Flushed(r)>>
          = Append(Sent(w), Flushed(r))
    <2>1. CASE pending[w] = 0
      BY <1>1, <1>2, <2>1 DEF Sent
    <2>2. CASE pending[w] # 0
      BY <1>1, <1>2, <2>2 DEF Sent
    <2> QED
      BY <2>1, <2>2
  <1> QED
    BY <1>3 DEF FlushThen

\* A finite set of natural numbers has a greatest element.
LEMMA GreatestElement ==
    ASSUME NEW S, IsFiniteSet(S), S \subseteq Nat, S # {}
    PROVE  \E n \in S : \A m \in S : m <= n
  <1> DEFINE P == {T \in SUBSET S : T # {} => \E n \in T : \A m \in T : m <= n}
  <1>1. {} \in P
    OBVIOUS
  <1>2. ASSUME NEW T \in SUBSET S, T # {}, \A x \in T : T \ {x} \in P
        PROVE  T \in P
    <2>1. PICK x \in T : TRUE
      BY <1>2
    <2>2. CASE T \ {x} = {}
      BY <2>1, <2>2
    <2>3. CASE T \ {x} # {}
      <3>1. PICK n \in T \ {x} : \A m \in T \ {x} : m <= n
        BY <1>2, <2>3
      <3>2. CASE x <= n
        BY <3>1, <3>2
      <3>3. CASE ~(x <= n)
        BY <3>1, <3>3
      <3> QED
        BY <3>2, <3>3
    <2> QED
      BY <2>2, <2>3
  <1>3. S \in P
    <2> HIDE DEF P
    <2> QED
      BY <1>1, <1>2, SubsetInduction
  <1> QED
    BY <1>3

\* What the renders so far have shown is a snapshot.
LEMMA ShownType ==
    ASSUME MetricsTypeOK
    PROVE  Shown \in Snapshot
  <1> SUFFICES ASSUME NEW w \in Workers
               PROVE  Shown[w] \in Nat
    BY DEF Shown, Snapshot
  <1> DEFINE done == {r \in Renders : rendered[r] # None}
             f == [r \in done |-> rendered[r][w]]
             values == {rendered[r][w] : r \in done}
             counts == {0} \union values
  <1>1. \A r \in done : rendered[r][w] \in Nat
    BY DEF MetricsTypeOK, Snapshot
  <1>2. IsFiniteSet(done)
    BY ClusterAssumption, FS_Subset
  <1>3. IsFiniteSet(values)
    <2>1. f \in Surjection(done, values)
      BY DEF Surjection
    <2> QED
      BY <1>2, <2>1, FS_Surjection
  <1>4. IsFiniteSet(counts)
    <2>1. counts = values \union {0}
      OBVIOUS
    <2>2. IsFiniteSet(values \union {0})
      BY <1>3, FS_AddElement
    <2> QED
      BY <2>1, <2>2, Zenon
  <1>5. counts \subseteq Nat /\ counts # {}
    BY <1>1
  <1>6. \E n \in counts : \A m \in counts : m <= n
    <2> HIDE DEF counts
    <2> QED
      BY <1>4, <1>5, GreatestElement
  <1>7. Shown[w] = CHOOSE n \in counts : \A m \in counts : m <= n
    BY DEF Shown
  <1>8. Shown[w] \in counts
    <2> HIDE DEF counts
    <2> QED
      BY <1>6, <1>7
  <1> QED
    BY <1>5, <1>8

-----------------------------------------------------------------------------
(***************************************************************************)
(* Types                                                                   *)
(***************************************************************************)
\* A message is what its type says.
LEMMA MessageFacts ==
    ASSUME NEW m \in Message
    PROVE  /\ m.type = "batch" => m.count \in Nat
           /\ m.type # "batch" => m.id \in Renders
           /\ m.type \in {"batch", "request", "flushed"}
  BY DEF Message

\* The oldest message of a channel.
LEMMA HeadFacts ==
    ASSUME MetricsTypeOK, NEW w \in Workers, toPrimary[w] # <<>>
    PROVE  /\ Head(toPrimary[w]) \in Message
           /\ Head(toPrimary[w]).type = "batch" => Head(toPrimary[w]).count \in Nat
           /\ Head(toPrimary[w]).type # "batch" => Head(toPrimary[w]).id \in Renders
  <1>1. Head(toPrimary[w]) \in Message
    BY DEF MetricsTypeOK
  <1> QED
    BY <1>1, MessageFacts

\* A step of a worker, or what ends a render, keeps the types.
LEMMA WorkerTypes ==
    ASSUME TypeOK, NEW w \in Workers,
           WorkerStep(w) \/ Die(w) \/ StartFails(w) \/ StraySignal(w)
    PROVE  MetricsTypeOK'
  <1> USE DEF TypeOK, processVars, collectorVars, renderVars
  <1>1. CASE Record(w)
    <2>1. /\ recorded' = [recorded EXCEPT ![w] = @ + 1]
          /\ pending' = [pending EXCEPT ![w] = @ + 1]
          /\ UNCHANGED <<processVars, toPrimary, flushAsked, response, renderVars, lost>>
      BY <1>1 DEF Record
    <2>2. recorded' \in [Workers -> Nat] /\ pending' \in [Workers -> Nat]
      BY <2>1 DEF MetricsTypeOK
    <2> QED
      BY <2>1, <2>2 DEF MetricsTypeOK
  <1>2. CASE TimerFlush(w)
    <2>1. toPrimary' = [toPrimary EXCEPT ![w] = Sent(w)] /\ pending' = [pending EXCEPT ![w] = 0]
      BY <1>2, FlushAlone DEF TimerFlush
    <2> QED
      BY <1>2, <2>1, SentFacts DEF TimerFlush, MetricsTypeOK
  <1>3. CASE Boot(w)
    BY <1>3 DEF Boot, Become, MetricsTypeOK, ProcessStates
  <1>4. CASE Terminate(w) \/ Disregard(w)
    <2>1. CASE Terminate(w)
      BY <2>1 DEF Terminate, Become, MetricsTypeOK, ProcessStates
    <2>2. CASE Disregard(w)
      BY <2>2 DEF Disregard, MetricsTypeOK
    <2> QED
      BY <1>4, <2>1, <2>2
  <1>5. ASSUME NEW sent \in 0..Len(toPrimary[w]), Vanish(w, sent)
        PROVE  /\ proc' \in [Workers -> ProcessStates]
               /\ pending' \in [Workers -> Nat]
               /\ toPrimary' \in [Workers -> Seq(Message)]
               /\ flushAsked' \in SUBSET (Workers \X Renders)
               /\ render' \in [Renders -> {"new", "waiting", "answered", "timedOut", "cut"}]
               /\ UNCHANGED <<signal, response, renderer, rendered, recorded, before>>
    <2>1. SubSeq(toPrimary[w], 1, sent) \in Seq(Message)
      BY BatchSumPrefix DEF MetricsTypeOK
    <2> QED
      BY <1>5, <2>1 DEF Vanish, Become, MetricsTypeOK, ProcessStates
  <1>6. Len(toPrimary[w]) \in 0..Len(toPrimary[w])
    BY DEF MetricsTypeOK
  <1>7. CASE TerminateEarly(w)
    BY <1>5, <1>6, <1>7 DEF TerminateEarly, MetricsTypeOK
  <1>8. CASE CloseMetrics(w)
    <2>1. toPrimary' = [toPrimary EXCEPT ![w] = Sent(w)] /\ pending' = [pending EXCEPT ![w] = 0]
      BY <1>8, FlushAlone DEF CloseMetrics
    <2> QED
      BY <1>8, <2>1, SentFacts DEF CloseMetrics, Become, MetricsTypeOK, ProcessStates
  <1>9. CASE Leave(w)
    BY <1>5, <1>6, <1>9 DEF Leave, MetricsTypeOK
  <1>10. CASE Die(w)
    <2>1. PICK sent \in 0..Len(toPrimary[w]) :
            /\ Vanish(w, sent)
            /\ lost' = [lost EXCEPT ![w] = pending[w] + BatchSum(toPrimary[w])
                                            - BatchSum(SubSeq(toPrimary[w], 1, sent))]
      BY <1>10 DEF Die
    <2>2. toPrimary[w] \in Seq(Message)
      BY DEF MetricsTypeOK
    <2>3. /\ BatchSum(toPrimary[w]) \in Nat
          /\ BatchSum(SubSeq(toPrimary[w], 1, sent)) \in Nat
          /\ BatchSum(SubSeq(toPrimary[w], 1, sent)) <= BatchSum(toPrimary[w])
      BY <2>2, BatchSumNat, BatchSumPrefix
    <2>4. lost' \in [Workers -> Nat]
      BY <2>1, <2>3 DEF MetricsTypeOK
    <2> QED
      BY <1>5, <2>1, <2>4 DEF MetricsTypeOK
  <1>11. ASSUME NEW r \in Renders, RequestSnapshot(w, r)
         PROVE  MetricsTypeOK'
    <2>1. Request(r) \in Message
      BY DEF Request, Message
    <2>2. Append(toPrimary[w], Request(r)) \in Seq(Message)
      BY <2>1 DEF MetricsTypeOK
    <2>3. recorded \in Snapshot
      BY DEF MetricsTypeOK, Snapshot
    <2> QED
      BY <1>11, <2>2, <2>3, ShownType DEF RequestSnapshot, MetricsTypeOK
  <1>12. ASSUME NEW r \in Renders, HandleFlushRequest(w, r)
         PROVE  MetricsTypeOK'
    <2>1. /\ toPrimary' = [toPrimary EXCEPT ![w] = Append(Sent(w), Flushed(r))]
          /\ pending' = [pending EXCEPT ![w] = 0]
      BY <1>12, FlushAndAcknowledge DEF HandleFlushRequest
    <2>2. Flushed(r) \in Message
      BY DEF Flushed, Message
    <2>3. Append(Sent(w), Flushed(r)) \in Seq(Message)
      BY <2>2, SentFacts
    <2> QED
      BY <1>12, <2>1, <2>3 DEF HandleFlushRequest, MetricsTypeOK
  <1>13. ASSUME NEW r \in Renders, HandleSnapshotResponse(w, r)
         PROVE  MetricsTypeOK'
    BY <1>13 DEF HandleSnapshotResponse, Resolve, MetricsTypeOK
  <1>14. CASE StartFails(w)
    BY <1>14 DEF StartFails, Become, MetricsTypeOK, ProcessStates
  <1>15. CASE StraySignal(w)
    BY <1>15 DEF StraySignal, MetricsTypeOK
  <1> QED
    BY <1>1, <1>2, <1>3, <1>4, <1>7, <1>8, <1>9, <1>10, <1>11, <1>12, <1>13, <1>14, <1>15
    DEF WorkerStep, TerminateAgain, Killed

\* The workers that are asked to flush.
Asked == {v \in Workers : v < nextId /\ connected[v] /\ ~exited[v]}

\* A snapshot request, by cases.
LEMMA RequestEffect ==
    ASSUME NEW w, HandleSnapshotRequest(w)
    PROVE  LET r == Head(toPrimary[w]).id IN
           \/ /\ Asked = {}
              /\ response' = [response EXCEPT ![r] = IF connected[w] THEN aggregate ELSE @]
              /\ UNCHANGED <<collecting, awaiting, flushAsked>>
           \/ /\ Asked # {}
              /\ collecting' = collecting \union {r}
              /\ awaiting' = [awaiting EXCEPT ![r] = Asked]
              /\ flushAsked' = flushAsked \union {<<v, r>> : v \in {v \in Asked : Alive(v)}}
              /\ UNCHANGED response
  BY Zenon DEF HandleSnapshotRequest, Asked

\* The primary's handlers keep the types.
LEMMA PrimaryTypes ==
    ASSUME TypeOK, NEW w \in Workers, Receive(w) \/ Supervise(w)
    PROVE  MetricsTypeOK' /\ (faults' = faults => TypeOK')
  <1> USE DEF TypeOK, processVars, collectorVars, renderVars
  <1> USE ClusterAssumption, NoneAssumption, ShardAssumption
  <1>1. aggregate \in Snapshot /\ aggregate \in [Workers -> Nat]
    BY DEF Snapshot
  <1>2. ASSUME toPrimary[w] # <<>>, Take(w)
        PROVE  toPrimary' \in [Workers -> Seq(Message)] /\ Head(toPrimary[w]) \in Message
    BY <1>2 DEF Take, MetricsTypeOK
  <1>3. CASE HandleBatch(w)
    <2>1. Head(toPrimary[w]).count \in Nat
      BY <1>2, <1>3, MessageFacts DEF HandleBatch
    <2>2. aggregate' \in [Workers -> Nat]
      BY <1>1, <1>3, <2>1 DEF HandleBatch
    <2> QED
      BY <1>2, <1>3, <2>2 DEF HandleBatch, MetricsTypeOK, Snapshot
  <1>4. CASE HandleSnapshotRequest(w)
    <2> DEFINE r == Head(toPrimary[w]).id
    <2>1. r \in Renders
      BY <1>2, <1>4, MessageFacts DEF HandleSnapshotRequest
    <2>2. /\ collecting' \in SUBSET Renders
          /\ awaiting' \in [Renders -> SUBSET Workers]
          /\ flushAsked' \in SUBSET (Workers \X Renders)
          /\ response' \in [Renders -> Snapshot \union {None}]
      <3>1. Asked \in SUBSET Workers
        BY DEF Asked
      <3>2. \/ /\ response' = [response EXCEPT ![r] = IF connected[w] THEN aggregate ELSE @]
               /\ UNCHANGED <<collecting, awaiting, flushAsked>>
            \/ /\ collecting' = collecting \union {r}
               /\ awaiting' = [awaiting EXCEPT ![r] = Asked]
               /\ flushAsked' = flushAsked \union {<<v, r>> : v \in {v \in Asked : Alive(v)}}
               /\ UNCHANGED response
        BY <1>4, RequestEffect
      <3> HIDE DEF r
      <3>3. CASE response' = [response EXCEPT ![r] = IF connected[w] THEN aggregate ELSE @]
                 /\ UNCHANGED <<collecting, awaiting, flushAsked>>
        <4>1. \A q \in Renders : response'[q] \in Snapshot \union {None}
          BY <1>1, <2>1, <3>3 DEF MetricsTypeOK
        <4>2. response' \in [Renders -> Snapshot \union {None}]
          BY <3>3, <4>1 DEF MetricsTypeOK
        <4> QED
          BY <3>3, <4>2 DEF MetricsTypeOK
      <3>4. CASE /\ collecting' = collecting \union {r}
                 /\ awaiting' = [awaiting EXCEPT ![r] = Asked]
                 /\ flushAsked' = flushAsked \union {<<v, r>> : v \in {v \in Asked : Alive(v)}}
                 /\ UNCHANGED response
        BY <2>1, <3>1, <3>4 DEF MetricsTypeOK
      <3> QED
        BY <3>2, <3>3, <3>4
    <2> QED
      BY <1>2, <1>4, <2>2 DEF HandleSnapshotRequest, MetricsTypeOK
  <1>5. ASSUME NEW requests \in SUBSET Renders, StopAwaiting(w, requests)
        PROVE  /\ awaiting' \in [Renders -> SUBSET Workers]
               /\ collecting' \in SUBSET Renders
               /\ response' \in [Renders -> Snapshot \union {None}]
    BY <1>1, <1>5 DEF StopAwaiting, CompleteSnapshots, MetricsTypeOK
  <1>6. CASE HandleFlushResponse(w)
    <2>1. {Head(toPrimary[w]).id} \intersect collecting \in SUBSET Renders
      OBVIOUS
    <2> QED
      BY <1>2, <1>5, <1>6, <2>1 DEF HandleFlushResponse, MetricsTypeOK
  <1>7. CASE WorkerDisconnect(w)
    BY <1>7 DEF WorkerDisconnect, workerSide, MetricsTypeOK
  <1>8. CASE WorkerExit(w)
    <2>1. /\ workerIndexes' \in [Workers -> Indexes \union {None}]
          /\ proc' \in [Workers -> ProcessStates]
          /\ connected' \in [Workers -> BOOLEAN]
          /\ nextId' \in 1..(MaxForks + 1)
      <3>1. CASE shuttingDown
        BY <1>8, <3>1 DEF WorkerExit, Refork, MetricsTypeOK
      <3>2. CASE ~shuttingDown
        <4>1. /\ nextId <= MaxForks
              /\ workerIndexes' = [workerIndexes EXCEPT ![w] = None, ![nextId] = workerIndexes[w]]
              /\ proc' = [proc EXCEPT ![nextId] = "starting"]
              /\ connected' = [connected EXCEPT ![nextId] = TRUE]
              /\ nextId' = nextId + 1
          BY <1>8, <3>2 DEF WorkerExit, Refork, Become
        <4>2. nextId \in Workers /\ nextId' \in 1..(MaxForks + 1)
          BY <4>1 DEF Workers
        <4> QED
          BY <4>1, <4>2 DEF MetricsTypeOK, ProcessStates
      <3> QED
        BY <3>1, <3>2
    <2>2. exited' \in [Workers -> BOOLEAN]
      BY <1>8 DEF WorkerExit
    <2>3. forceShutdown' \in {"unset", "set", "fired", "cleared"}
      BY <1>8 DEF WorkerExit
    <2> QED
      BY <1>5, <1>8, <2>1, <2>2, <2>3 DEF WorkerExit, MetricsTypeOK
  <1> QED
    BY <1>3, <1>4, <1>6, <1>7, <1>8 DEF Receive, Supervise

\* Every part of the cluster's state is of its type.
LEMMA TypeCorrect == Spec => []TypeOK
<1> USE ShardAssumption, ClusterAssumption, PrimaryAssumption
<1>1. Init => TypeOK
  <2> SUFFICES ASSUME Init PROVE TypeOK
    OBVIOUS
  <2>1. EmptySnapshot \in Snapshot
    BY DEF EmptySnapshot, Snapshot
  <2>2. MetricsTypeOK
    BY <2>1 DEF Init, MetricsInit, MetricsTypeOK, ProcessStates
  <2>3. workerIndexes \in [Workers -> Indexes \union {None}]
    BY DEF Init, Workers, Indexes
  <2>4. nextId \in 1..(MaxForks + 1) /\ faults \in 0..MaxFaults
    BY DEF Init
  <2>5. connected \in [Workers -> BOOLEAN] /\ exited \in [Workers -> BOOLEAN]
    BY DEF Init
  <2>6. /\ awaiting \in [Renders -> SUBSET Workers]
        /\ collecting \in SUBSET Renders /\ partial \in SUBSET Renders
        /\ shuttingDown \in BOOLEAN /\ forceShutdown \in {"unset", "set", "fired", "cleared"}
    BY DEF Init
  <2>7. aggregate \in Snapshot
    BY <2>1 DEF Init
  <2> QED
    BY <2>2, <2>3, <2>4, <2>5, <2>6, <2>7 DEF TypeOK
<1>2. TypeOK /\ [Next]_vars => TypeOK'
  <2> SUFFICES ASSUME TypeOK, [Next]_vars PROVE TypeOK'
    OBVIOUS
  <2>1. ASSUME NEW w \in Workers, Work(w), UNCHANGED faults PROVE TypeOK'
    BY <2>1, WorkerTypes DEF Work, TypeOK, primarySide
  <2>2. ASSUME NEW w \in Workers, Receive(w) \/ Supervise(w), UNCHANGED faults PROVE TypeOK'
    BY <2>2, PrimaryTypes
  <2>3. ASSUME NEW r \in Renders, Expire(r), UNCHANGED faults PROVE TypeOK'
    <3>1. EmptySnapshot \in Snapshot
      BY DEF EmptySnapshot, Snapshot
    <3> QED
      BY <2>3, <3>1 DEF Expire, RenderTimeout, Resolve, TypeOK, MetricsTypeOK, primarySide,
                        processVars, collectorVars
  <2>4. ASSUME NEW r \in Renders, SnapshotTimeout(r), UNCHANGED faults PROVE TypeOK'
    BY <2>4 DEF SnapshotTimeout, CompleteSnapshots, TypeOK, MetricsTypeOK, processVars,
                collectorVars, renderVars
  <2>5. CASE Shutdown /\ UNCHANGED faults
    BY <2>5 DEF Shutdown, TypeOK, MetricsTypeOK, collectorVars, renderVars
  <2>6. CASE ForceShutdown /\ UNCHANGED faults
    BY <2>6 DEF ForceShutdown, TypeOK, MetricsTypeOK, collectorVars, renderVars
  <2>7. CASE Fault
    <3>1. MetricsTypeOK'
      BY <2>7, WorkerTypes DEF Fault
    <3> QED
      BY <2>7, <3>1 DEF Fault, TypeOK, primarySide
  <2>8. CASE UNCHANGED vars
    BY <2>8 DEF vars, workerSide, primarySide, TypeOK, MetricsTypeOK
  <2> QED
    BY <2>1, <2>2, <2>3, <2>4, <2>5, <2>6, <2>7, <2>8 DEF Next
<1> QED
  BY <1>1, <1>2, PTL DEF Spec

-----------------------------------------------------------------------------
(***************************************************************************)
(* Processes, indexes and shards                                           *)
(***************************************************************************)
\* Ids are given in order; an exit is handled after the process is gone; a
\* process that runs is connected; an index is kept from fork to exit.
LifeInv ==
    /\ \A w \in Workers : proc[w] = "none" <=> w >= nextId
    /\ \A w \in Workers : exited[w] => proc[w] = "gone"
    /\ \A w \in Workers : Alive(w) => connected[w]
    /\ \A w \in Workers : connected[w] => w < nextId
    /\ \A w \in Workers : workerIndexes[w] = None <=> (w >= nextId \/ exited[w])

\* Indexes differ, and until shutdown each one is somebody's.
IndexInv ==
    /\ \A v, w \in Workers :
          (workerIndexes[v] # None /\ workerIndexes[v] = workerIndexes[w]) => v = w
    /\ ~shuttingDown => \A i \in Indexes : \E w \in Workers : workerIndexes[w] = i

\* What a step of a worker does to its process.
LEMMA WorkerProcess ==
    ASSUME TypeOK, NEW w \in Workers,
           WorkerStep(w) \/ Die(w) \/ StartFails(w) \/ StraySignal(w)
    PROVE  \/ UNCHANGED proc
           \/ \E state \in ProcessStates \ {"none"} :
                 Alive(w) /\ proc' = [proc EXCEPT ![w] = state]
  <1> USE DEF TypeOK, MetricsTypeOK, ProcessStates, Alive, Become, processVars
  <1>1. CASE Record(w)
    BY <1>1 DEF Record
  <1>2. CASE TimerFlush(w)
    BY <1>2 DEF TimerFlush
  <1>3. CASE Boot(w)
    BY <1>3 DEF Boot
  <1>4. CASE Terminate(w) \/ Disregard(w)
    BY <1>4 DEF Terminate, Disregard
  <1>5. CASE TerminateEarly(w)
    BY <1>5 DEF TerminateEarly, Vanish
  <1>6. CASE CloseMetrics(w)
    BY <1>6 DEF CloseMetrics
  <1>7. CASE Leave(w)
    BY <1>7 DEF Leave, Vanish
  <1>8. CASE Die(w)
    BY <1>8 DEF Die, Vanish
  <1>9. ASSUME NEW r \in Renders, RequestSnapshot(w, r) PROVE UNCHANGED proc
    BY <1>9 DEF RequestSnapshot
  <1>10. ASSUME NEW r \in Renders, HandleFlushRequest(w, r) PROVE UNCHANGED proc
    BY <1>10 DEF HandleFlushRequest
  <1>11. ASSUME NEW r \in Renders, HandleSnapshotResponse(w, r) PROVE UNCHANGED proc
    BY <1>11 DEF HandleSnapshotResponse
  <1>12. CASE StartFails(w)
    BY <1>12 DEF StartFails
  <1>13. CASE StraySignal(w)
    BY <1>13 DEF StraySignal
  <1> QED
    BY <1>1, <1>2, <1>3, <1>4, <1>5, <1>6, <1>7, <1>8, <1>9, <1>10, <1>11, <1>12, <1>13
    DEF WorkerStep, TerminateAgain, Killed

\* A change of one running process, or of none, disturbs neither.
LEMMA ProcessKeepsLife ==
    ASSUME TypeOK, LifeInv, IndexInv, NEW w \in Workers,
           \/ UNCHANGED proc
           \/ \E state \in ProcessStates \ {"none"} :
                 Alive(w) /\ proc' = [proc EXCEPT ![w] = state],
           UNCHANGED <<connected, exited, workerIndexes, nextId, shuttingDown>>
    PROVE  LifeInv' /\ IndexInv'
  <1>1. IndexInv'
    BY DEF IndexInv
  <1>2. CASE UNCHANGED proc
    BY <1>1, <1>2 DEF LifeInv, Alive
  <1>3. ASSUME NEW state \in ProcessStates \ {"none"}, Alive(w), proc' = [proc EXCEPT ![w] = state]
        PROVE  LifeInv'
    <2>1. \A v \in Workers : proc'[v] = IF v = w THEN state ELSE proc[v]
      BY <1>3 DEF TypeOK, MetricsTypeOK
    <2> QED
      BY <1>3, <2>1 DEF LifeInv, Alive
  <1> QED
    BY <1>1, <1>2, <1>3

\* The exit of a worker hands its index to the new one.
LEMMA ExitKeepsLife ==
    ASSUME TypeOK, LifeInv, IndexInv, NEW w \in Workers, WorkerExit(w)
    PROVE  LifeInv' /\ IndexInv'
  <1> USE ClusterAssumption, ShardAssumption
  <1>1. proc[w] = "gone" /\ ~exited[w] /\ exited' = [exited EXCEPT ![w] = TRUE]
    BY DEF WorkerExit
  <1>2. w < nextId /\ nextId \in Nat /\ w \in Nat /\ workerIndexes[w] # None
    BY <1>1 DEF LifeInv, TypeOK, Workers
  <1>3. \A v \in Workers : exited'[v] = (v = w \/ exited[v])
    BY <1>1 DEF TypeOK
  <1>4. UNCHANGED shuttingDown
    BY DEF WorkerExit
  <1>5. CASE shuttingDown
    <2>1. workerIndexes' = [workerIndexes EXCEPT ![w] = None] /\ UNCHANGED <<proc, connected, nextId>>
      BY <1>5 DEF WorkerExit, Refork
    <2>2. \A v \in Workers : workerIndexes'[v] = IF v = w THEN None ELSE workerIndexes[v]
      BY <2>1 DEF TypeOK
    <2>3. LifeInv'
      <3>1. \A v \in Workers : proc'[v] = "none" <=> v >= nextId'
        BY <2>1 DEF LifeInv
      <3>2. \A v \in Workers : exited'[v] => proc'[v] = "gone"
        BY <1>1, <1>3, <2>1 DEF LifeInv
      <3>3. \A v \in Workers : Alive(v)' => connected'[v]
        BY <2>1 DEF LifeInv, Alive
      <3>4. \A v \in Workers : connected'[v] => v < nextId'
        BY <2>1 DEF LifeInv
      <3>5. \A v \in Workers : workerIndexes'[v] = None <=> (v >= nextId' \/ exited'[v])
        BY <1>2, <1>3, <2>1, <2>2 DEF LifeInv
      <3> QED
        BY <3>1, <3>2, <3>3, <3>4, <3>5 DEF LifeInv
    <2>4. IndexInv'
      BY <1>4, <1>5, <2>2 DEF IndexInv
    <2> QED
      BY <2>3, <2>4
  <1>6. CASE ~shuttingDown
    <2>1. /\ nextId <= MaxForks
          /\ workerIndexes' = [workerIndexes EXCEPT ![w] = None, ![nextId] = workerIndexes[w]]
          /\ proc' = [proc EXCEPT ![nextId] = "starting"]
          /\ connected' = [connected EXCEPT ![nextId] = TRUE]
          /\ nextId' = nextId + 1
      BY <1>6 DEF WorkerExit, Refork, Become
    <2>2. nextId \in Workers /\ nextId # w
      BY <1>2, <2>1 DEF TypeOK, Workers
    <2>3. \A v \in Workers :
            /\ workerIndexes'[v] = IF v = nextId THEN workerIndexes[w]
                                   ELSE IF v = w THEN None ELSE workerIndexes[v]
            /\ proc'[v] = IF v = nextId THEN "starting" ELSE proc[v]
            /\ connected'[v] = IF v = nextId THEN TRUE ELSE connected[v]
      BY <2>1, <2>2 DEF TypeOK, MetricsTypeOK
    <2>4. \A v \in Workers : v \in Nat
      BY DEF Workers
    <2>5. workerIndexes[nextId] = None /\ ~exited[nextId]
      BY <1>2, <2>2 DEF LifeInv
    <2>6. LifeInv'
      <3> SUFFICES ASSUME NEW v \in Workers
                   PROVE  /\ proc'[v] = "none" <=> v >= nextId'
                          /\ exited'[v] => proc'[v] = "gone"
                          /\ proc'[v] \notin {"none", "gone"} => connected'[v]
                          /\ connected'[v] => v < nextId'
                          /\ workerIndexes'[v] = None <=> (v >= nextId' \/ exited'[v])
        BY DEF LifeInv, Alive
      <3>1. /\ proc[v] = "none" <=> v >= nextId
            /\ exited[v] => proc[v] = "gone"
            /\ proc[v] \notin {"none", "gone"} => connected[v]
            /\ connected[v] => v < nextId
            /\ workerIndexes[v] = None <=> (v >= nextId \/ exited[v])
        BY DEF LifeInv, Alive
      <3>2. CASE v = nextId
        <4>1. proc'[v] = "starting" /\ workerIndexes'[v] # None
          BY <1>2, <2>3, <3>2
        <4>2. ~exited'[v]
          BY <1>3, <2>2, <2>5, <3>2
        <4>3. connected'[v]
          BY <2>3, <3>2
        <4>4. v < nextId' /\ ~ v >= nextId'
          BY <1>2, <2>1, <3>2
        <4> QED
          BY <4>1, <4>2, <4>3, <4>4
      <3>3. CASE v # nextId
        <4>1. v >= nextId' <=> v >= nextId
          BY <1>2, <2>1, <2>4, <3>3
        <4>2. v < nextId => v < nextId'
          BY <1>2, <2>1, <2>4
        <4>3. CASE v = w
          BY <1>1, <1>2, <1>3, <2>3, <3>1, <3>3, <4>1, <4>2, <4>3
        <4>4. CASE v # w
          BY <1>3, <2>3, <3>1, <3>3, <4>1, <4>2, <4>4
        <4> QED
          BY <4>3, <4>4
      <3> QED
        BY <3>2, <3>3
    <2>7. ASSUME NEW u \in Workers, NEW v \in Workers, workerIndexes'[u] # None,
                 workerIndexes'[u] = workerIndexes'[v]
          PROVE  u = v
      <3> DEFINE From(x) == IF x = nextId THEN w ELSE x
      <3>1. /\ u # w /\ v # w
            /\ workerIndexes[From(u)] = workerIndexes'[u]
            /\ workerIndexes[From(v)] = workerIndexes'[v]
            /\ From(u) \in Workers /\ From(v) \in Workers
        BY <2>2, <2>3, <2>7
      <3>2. From(u) = From(v)
        <4> HIDE DEF From
        <4> QED
          BY <2>7, <3>1 DEF IndexInv
      <3> QED
        BY <3>1, <3>2
    <2>8. ASSUME NEW i \in Indexes
          PROVE  \E v \in Workers : workerIndexes'[v] = i
      <3>1. PICK v \in Workers : workerIndexes[v] = i
        BY <1>6 DEF IndexInv
      <3>2. v # nextId
        <4>1. i # None
          BY NoneAssumption DEF Indexes
        <4> QED
          BY <2>5, <3>1, <4>1
      <3>3. workerIndexes'[v] = i \/ workerIndexes'[nextId] = i
        BY <2>2, <2>3, <3>1, <3>2
      <3> QED
        BY <2>2, <3>3
    <2> QED
      BY <2>6, <2>7, <2>8 DEF IndexInv
  <1> QED
    BY <1>5, <1>6

\* The lives of the processes and the table of the primary agree throughout.
LEMMA LifeCorrect == Spec => [](LifeInv /\ IndexInv)
<1> USE ShardAssumption, ClusterAssumption, NoneAssumption
<1>1. Init => LifeInv /\ IndexInv
  <2> SUFFICES ASSUME Init PROVE LifeInv /\ IndexInv
    OBVIOUS
  <2>1. \A w \in Workers : w \in Nat /\ w >= 1 /\ w - 1 # None
    BY DEF Workers
  <2>2. /\ nextId = WorkerCount + 1
        /\ \A w \in Workers :
              /\ ~exited[w]
              /\ connected[w] = (w <= WorkerCount)
              /\ proc[w] = IF w <= WorkerCount THEN "starting" ELSE "none"
              /\ workerIndexes[w] = IF w <= WorkerCount THEN w - 1 ELSE None
    BY DEF Init, MetricsInit
  <2>3. LifeInv
    <3> SUFFICES ASSUME NEW v \in Workers
                 PROVE  /\ proc[v] = "none" <=> v >= nextId
                        /\ exited[v] => proc[v] = "gone"
                        /\ proc[v] \notin {"none", "gone"} => connected[v]
                        /\ connected[v] => v < nextId
                        /\ workerIndexes[v] = None <=> (v >= nextId \/ exited[v])
      BY DEF LifeInv, Alive
    <3>1. (v <= WorkerCount <=> ~ v >= nextId) /\ (v < nextId <=> v <= WorkerCount)
      BY <2>1, <2>2
    <3> QED
      BY <2>1, <2>2, <3>1
  <2>4. ASSUME NEW v \in Workers, NEW w \in Workers, workerIndexes[v] # None,
               workerIndexes[v] = workerIndexes[w]
        PROVE  v = w
    <3>1. v <= WorkerCount /\ w <= WorkerCount
      BY <2>1, <2>2, <2>4
    <3>2. v - 1 = w - 1
      BY <2>2, <2>4, <3>1
    <3> QED
      BY <2>1, <3>2
  <2>5. ASSUME NEW i \in Indexes
        PROVE  \E w \in Workers : workerIndexes[w] = i
    <3>1. PICK w \in Workers : w <= WorkerCount /\ w - 1 = i
      <4>1. i + 1 \in Workers /\ i + 1 <= WorkerCount /\ (i + 1) - 1 = i
        BY DEF Indexes, Workers
      <4> QED
        BY <4>1
    <3>2. workerIndexes[w] = i
      BY <2>2, <3>1
    <3> QED
      BY <3>2
  <2> QED
    BY <2>3, <2>4, <2>5 DEF IndexInv
<1>2. TypeOK /\ LifeInv /\ IndexInv /\ [Next]_vars => (LifeInv /\ IndexInv)'
  <2> SUFFICES ASSUME TypeOK, LifeInv, IndexInv, [Next]_vars PROVE LifeInv' /\ IndexInv'
    OBVIOUS
  <2> USE DEF primarySide
  <2>1. ASSUME NEW w \in Workers, Work(w) PROVE LifeInv' /\ IndexInv'
    BY <2>1, WorkerProcess, ProcessKeepsLife DEF Work
  <2>2. ASSUME UNCHANGED <<proc, connected, exited, workerIndexes, nextId>>,
               shuttingDown => shuttingDown'
        PROVE  LifeInv' /\ IndexInv'
    BY <2>2 DEF LifeInv, IndexInv, Alive
  <2>3. ASSUME NEW w \in Workers, Receive(w) PROVE LifeInv' /\ IndexInv'
    BY <2>2, <2>3 DEF Receive, HandleBatch, HandleSnapshotRequest, HandleFlushResponse, processVars
  <2>4. ASSUME NEW w \in Workers, WorkerDisconnect(w) PROVE LifeInv' /\ IndexInv'
    <3>1. /\ proc[w] = "gone"
          /\ \A v \in Workers : connected'[v] = IF v = w THEN FALSE ELSE connected[v]
          /\ UNCHANGED <<proc, exited, workerIndexes, nextId, shuttingDown>>
      BY <2>4 DEF WorkerDisconnect, workerSide, TypeOK
    <3> QED
      BY <3>1 DEF LifeInv, IndexInv, Alive
  <2>5. ASSUME NEW w \in Workers, WorkerExit(w) PROVE LifeInv' /\ IndexInv'
    BY <2>5, ExitKeepsLife
  <2>6. ASSUME NEW r \in Renders, Expire(r) PROVE LifeInv' /\ IndexInv'
    BY <2>2, <2>6 DEF Expire, RenderTimeout, processVars
  <2>7. ASSUME NEW r \in Renders, SnapshotTimeout(r) PROVE LifeInv' /\ IndexInv'
    BY <2>2, <2>7 DEF SnapshotTimeout, processVars
  <2>8. CASE Shutdown
    BY <2>2, <2>8 DEF Shutdown
  <2>9. CASE ForceShutdown
    BY <2>2, <2>9 DEF ForceShutdown
  <2>10. CASE Fault
    BY <2>10, WorkerProcess, ProcessKeepsLife DEF Fault
  <2>11. CASE UNCHANGED vars
    BY <2>2, <2>11 DEF vars, workerSide
  <2> QED
    BY <2>1, <2>3, <2>4, <2>5, <2>6, <2>7, <2>8, <2>9, <2>10, <2>11 DEF Next, Supervise
<1> QED
  BY <1>1, <1>2, TypeCorrect, PTL DEF Spec
\* The shard lists of two indexes have nothing in common: the loop of
\* shardsForWorker steps by the number of workers.
LEMMA ListsApart ==
    ASSUME NEW n \in Nat \ {0}, NEW i \in 0..(n - 1), NEW j \in 0..(n - 1),
           NEW k \in Nat, NEW l \in Nat, i + k * n = j + l * n
    PROVE  i = j
  <1>1. ASSUME NEW m \in Nat, m >= 1 PROVE m * n >= n
    <2>1. PICK d \in Nat : m = d + 1
      <3>1. m - 1 \in Nat /\ m = (m - 1) + 1
        BY <1>1
      <3> QED
        BY <3>1
    <2>2. m * n = d * n + n /\ d * n \in Nat
      BY <2>1
    <2> QED
      BY <2>2
  <1>2. CASE k = l
    <2>1. k * n \in Nat
      OBVIOUS
    <2> QED
      BY <1>2, <2>1
  <1>3. ASSUME NEW a \in Nat, NEW b \in Nat, a < b,
               NEW x \in 0..(n - 1), NEW y \in 0..(n - 1), x + a * n = y + b * n
        PROVE  FALSE
    <2>1. PICK d \in Nat : b = a + d /\ d >= 1
      <3>1. b - a \in Nat /\ b = a + (b - a) /\ b - a >= 1
        BY <1>3
      <3> QED
        BY <3>1
    <2>2. b * n = a * n + d * n /\ a * n \in Nat /\ d * n \in Nat
      BY <2>1
    <2>3. d * n >= n
      BY <1>1, <2>1
    <2> QED
      BY <1>3, <2>2, <2>3
  <1>4. k < l \/ l < k \/ k = l
    OBVIOUS
  <1> QED
    BY <1>2, <1>3, <1>4

\* Every shard is in the list of some index.
LEMMA ListsCover ==
    ASSUME NEW n \in Nat \ {0}
    PROVE  \A s \in Nat : \E i \in 0..(n - 1) : \E k \in 0..s : s = i + k * n
  <1> DEFINE P == {s \in Nat : \E i \in 0..(n - 1) : \E k \in 0..s : s = i + k * n}
  <1>1. 0 \in P
    <2>1. 0 \in 0..(n - 1) /\ 0 \in 0..0 /\ 0 = 0 + 0 * n
      OBVIOUS
    <2> QED
      BY <2>1
  <1>2. ASSUME NEW s \in P PROVE s + 1 \in P
    <2> HIDE DEF P
    <2>0. ASSUME NEW t \in Nat, NEW x \in 0..(n - 1), NEW y \in 0..t, t = x + y * n PROVE t \in P
      BY <2>0 DEF P
    <2>1. PICK i \in 0..(n - 1), k \in 0..s : s = i + k * n
      BY DEF P
    <2>2. s \in Nat /\ k \in Nat /\ k * n \in Nat /\ s + 1 \in Nat
      BY <2>1 DEF P
    <2>3. CASE i + 1 < n
      <3>1. i + 1 \in 0..(n - 1) /\ k \in 0..(s + 1) /\ s + 1 = (i + 1) + k * n
        BY <2>1, <2>2, <2>3
      <3> QED
        BY <2>0, <2>2, <3>1
    <2>4. CASE i + 1 = n
      <3>1. (k + 1) * n = k * n + n
        BY <2>2
      <3>2. 0 \in 0..(n - 1) /\ k + 1 \in 0..(s + 1) /\ s + 1 = 0 + (k + 1) * n
        BY <2>1, <2>2, <2>4, <3>1
      <3> QED
        BY <2>0, <2>2, <3>2
    <2> QED
      BY <2>1, <2>3, <2>4
  <1>3. Nat \subseteq P
    <2> HIDE DEF P
    <2> QED
      BY <1>1, <1>2, NatSetInduction
  <1> QED
    BY <1>3

\* Indexes and shards belong to one worker each, through every fork and exit:
\* ShardsHaveOneWorker holds for every number of shards and of workers.
THEOREM OneWorkerPerShard == Spec => []ShardsHaveOneWorker
<1> USE ShardAssumption, NoneAssumption
<1>1. TypeOK /\ LifeInv /\ IndexInv => ShardsHaveOneWorker
  <2> SUFFICES ASSUME TypeOK, LifeInv, IndexInv PROVE ShardsHaveOneWorker
    OBVIOUS
  <2>1. OneProcessPerIndex
    <3> SUFFICES ASSUME NEW v \in Workers, NEW w \in Workers, Alive(v), Alive(w),
                        workerIndexes[v] = workerIndexes[w]
                 PROVE  v = w
      BY DEF OneProcessPerIndex
    <3>1. workerIndexes[v] # None
      <4>1. v \in Nat /\ nextId \in Nat
        BY ClusterAssumption DEF Workers, TypeOK
      <4> QED
        BY <4>1 DEF LifeInv, Alive
    <3> QED
      BY <3>1 DEF IndexInv
  <2>2. EveryShardOwned
    <3> SUFFICES ASSUME ~shuttingDown, NEW s \in Shards
                 PROVE  \E w \in Workers :
                          /\ workerIndexes[w] # None
                          /\ s \in ShardsForWorker(workerIndexes[w], WorkerCount)
                          /\ \A v \in Workers \ {w} :
                                workerIndexes[v] # None =>
                                    s \notin ShardsForWorker(workerIndexes[v], WorkerCount)
      BY DEF EveryShardOwned
    <3>1. s \in Nat /\ s <= LinkKeyShards
      BY DEF Shards
    <3>2. PICK i \in Indexes, k \in 0..s : s = i + k * WorkerCount
      BY <3>1, ListsCover DEF Indexes
    <3>3. PICK w \in Workers : workerIndexes[w] = i
      BY DEF IndexInv
    <3>4. i # None /\ k \in Nat /\ k \in 0..LinkKeyShards
      BY <3>1 DEF Indexes
    <3>5. s \in ShardsForWorker(i, WorkerCount)
      BY <3>2, <3>4 DEF ShardsForWorker
    <3>6. ASSUME NEW v \in Workers, workerIndexes[v] # None,
                 s \in ShardsForWorker(workerIndexes[v], WorkerCount)
          PROVE  v = w
      <4>1. workerIndexes[v] \in Indexes
        BY <3>6 DEF TypeOK
      <4>2. PICK l \in 0..LinkKeyShards : s = workerIndexes[v] + l * WorkerCount
        BY <3>6 DEF ShardsForWorker
      <4>3. l \in Nat
        OBVIOUS
      <4>4. workerIndexes[v] = i
        BY <3>2, <3>4, <4>1, <4>2, <4>3, ListsApart DEF Indexes
      <4> QED
        BY <3>3, <3>4, <4>4 DEF IndexInv
    <3> QED
      BY <3>3, <3>4, <3>5, <3>6
  <2> QED
    BY <2>1, <2>2 DEF ShardsHaveOneWorker
<1> QED
  BY <1>1, TypeCorrect, LifeCorrect, PTL

-----------------------------------------------------------------------------
(***************************************************************************)
(* Collections                                                             *)
(***************************************************************************)
\* Collections that do not grow, wait for the same workers and see no new exit
\* stay consistent.
LEMMA AwaitsFrame ==
    ASSUME AwaitsLiveWorkers, collecting' \subseteq collecting, UNCHANGED <<awaiting, exited>>
    PROVE  AwaitsLiveWorkers'
  BY DEF AwaitsLiveWorkers

\* An acknowledgement or an exit takes a worker out of collections and ends
\* those that waited for nobody else.
LEMMA StopAwaitingEffect ==
    ASSUME TypeOK, NEW w \in Workers, NEW requests \in SUBSET Renders, StopAwaiting(w, requests)
    PROVE  \A r \in collecting' :
              /\ r \in collecting
              /\ r \in requests => awaiting'[r] = awaiting[r] \ {w} /\ awaiting'[r] # {}
              /\ r \notin requests => awaiting'[r] = awaiting[r]
  <1> SUFFICES ASSUME NEW r \in collecting'
               PROVE  /\ r \in collecting
                      /\ r \in requests => awaiting'[r] = awaiting[r] \ {w} /\ awaiting'[r] # {}
                      /\ r \notin requests => awaiting'[r] = awaiting[r]
    OBVIOUS
  <1>1. r \in collecting /\ ~(r \in requests /\ awaiting[r] \subseteq {w})
    BY DEF StopAwaiting, CompleteSnapshots
  <1>2. r \in Renders
    BY <1>1 DEF TypeOK
  <1>3. awaiting'[r] = IF r \in requests THEN awaiting[r] \ {w} ELSE awaiting[r]
    BY <1>2 DEF StopAwaiting
  <1> QED
    BY <1>1, <1>3

\* Every step keeps the collections able to end.
LEMMA AwaitsStep ==
    ASSUME TypeOK, AwaitsLiveWorkers, [Next]_vars
    PROVE  AwaitsLiveWorkers'
  <1> USE DEF primarySide
  <1>1. ASSUME NEW w \in Workers, Work(w) PROVE AwaitsLiveWorkers'
    BY <1>1, AwaitsFrame DEF Work
  <1>2. ASSUME NEW w \in Workers, HandleBatch(w) PROVE AwaitsLiveWorkers'
    BY <1>2, AwaitsFrame DEF HandleBatch
  <1>3. ASSUME NEW w \in Workers, HandleSnapshotRequest(w) PROVE AwaitsLiveWorkers'
    <2> DEFINE asked == Head(toPrimary[w]).id
    <2>1. asked \in Renders
      BY <1>3, HeadFacts DEF HandleSnapshotRequest, TypeOK
    <2>2. \/ UNCHANGED <<collecting, awaiting>>
          \/ /\ Asked # {}
             /\ collecting' = collecting \union {asked}
             /\ awaiting' = [awaiting EXCEPT ![asked] = Asked]
      BY <1>3, RequestEffect
    <2>3. UNCHANGED exited /\ \A v \in Asked : ~exited[v]
      BY <1>3 DEF HandleSnapshotRequest, Asked
    <2> HIDE DEF asked
    <2>4. CASE UNCHANGED <<collecting, awaiting>>
      BY <2>3, <2>4, AwaitsFrame
    <2>5. CASE /\ Asked # {}
               /\ collecting' = collecting \union {asked}
               /\ awaiting' = [awaiting EXCEPT ![asked] = Asked]
      <3>1. \A r \in Renders : awaiting'[r] = IF r = asked THEN Asked ELSE awaiting[r]
        BY <2>5 DEF TypeOK
      <3>2. \A r \in collecting : r \in Renders
        BY DEF TypeOK
      <3> QED
        BY <2>1, <2>3, <2>5, <3>1, <3>2 DEF AwaitsLiveWorkers
    <2> QED
      BY <2>2, <2>4, <2>5
  <1>4. ASSUME NEW w \in Workers, HandleFlushResponse(w) PROVE AwaitsLiveWorkers'
    <2> DEFINE requests == {Head(toPrimary[w]).id} \intersect collecting
    <2>1. requests \in SUBSET Renders /\ StopAwaiting(w, requests) /\ UNCHANGED exited
      BY <1>4 DEF HandleFlushResponse, TypeOK
    <2> HIDE DEF requests
    <2> QED
      BY <2>1, StopAwaitingEffect DEF AwaitsLiveWorkers
  <1>5. ASSUME NEW w \in Workers, WorkerDisconnect(w) PROVE AwaitsLiveWorkers'
    BY <1>5, AwaitsFrame DEF WorkerDisconnect
  <1>6. ASSUME NEW w \in Workers, WorkerExit(w) PROVE AwaitsLiveWorkers'
    <2>1. collecting \in SUBSET Renders /\ StopAwaiting(w, collecting)
      BY <1>6 DEF WorkerExit, TypeOK
    <2>2. \A v \in Workers \ {w} : exited'[v] = exited[v]
      BY <1>6 DEF WorkerExit, TypeOK
    <2>3. \A r \in collecting : awaiting[r] \subseteq Workers
      BY DEF TypeOK
    <2>4. \A r \in collecting' : r \in collecting /\ awaiting'[r] = awaiting[r] \ {w} /\ awaiting'[r] # {}
      BY <2>1, StopAwaitingEffect
    <2> QED
      BY <2>2, <2>3, <2>4 DEF AwaitsLiveWorkers
  <1>7. ASSUME NEW r \in Renders, Expire(r) PROVE AwaitsLiveWorkers'
    BY <1>7, AwaitsFrame DEF Expire
  <1>8. ASSUME NEW r \in Renders, SnapshotTimeout(r) PROVE AwaitsLiveWorkers'
    BY <1>8, AwaitsFrame DEF SnapshotTimeout, CompleteSnapshots
  <1>9. CASE Shutdown
    BY <1>9, AwaitsFrame DEF Shutdown
  <1>10. CASE ForceShutdown
    BY <1>10, AwaitsFrame DEF ForceShutdown
  <1>11. CASE Fault
    BY <1>11, AwaitsFrame DEF Fault
  <1>12. CASE UNCHANGED vars
    BY <1>12, AwaitsFrame DEF vars
  <1> QED
    BY <1>1, <1>2, <1>3, <1>4, <1>5, <1>6, <1>7, <1>8, <1>9, <1>10, <1>11, <1>12
    DEF Next, Receive, Supervise

\* The cluster's state is of its type, and a collection always waits for
\* somebody whose exit has not been handled: CollectionsConsistent holds for
\* every number of workers, renders and faults.
THEOREM CollectionsCanEnd == Spec => []CollectionsConsistent
<1>1. Init => AwaitsLiveWorkers
  BY DEF Init, AwaitsLiveWorkers
<1>2. TypeOK /\ AwaitsLiveWorkers /\ [Next]_vars => AwaitsLiveWorkers'
  BY AwaitsStep
<1> QED
  BY <1>1, <1>2, TypeCorrect, PTL DEF Spec, CollectionsConsistent

-----------------------------------------------------------------------------
(***************************************************************************)
(* Events                                                                  *)
(***************************************************************************)
\* A process has events of its own to send only while it listens, loses events
\* only by dying, and its channel is empty once the primary has seen it close.
Quiet(w) ==
    /\ ~Listening(w) => pending[w] = 0
    /\ proc[w] # "gone" => lost[w] = 0
    /\ proc[w] = "none" => recorded[w] = 0
    /\ ~connected[w] => toPrimary[w] = <<>>

QuietInv == \A w \in Workers : Quiet(w)

\* The account of one worker, EventsConserved for it alone.
Balanced(w) == recorded[w] = pending[w] + BatchSum(toPrimary[w]) + aggregate[w] + lost[w]

\* A step that concerns one worker leaves the accounts of the others alone.
OthersUntouched(w) ==
    \A v \in Workers \ {w} :
        /\ proc'[v] = proc[v] /\ connected'[v] = connected[v]
        /\ pending'[v] = pending[v] /\ toPrimary'[v] = toPrimary[v]
        /\ recorded'[v] = recorded[v] /\ lost'[v] = lost[v] /\ aggregate'[v] = aggregate[v]

\* The accounts hold after a step when that worker's account does.
LEMMA OneAccount ==
    ASSUME QuietInv, EventsConserved, NEW w \in Workers,
           OthersUntouched(w), Quiet(w)', Balanced(w)'
    PROVE  QuietInv' /\ EventsConserved'
  <1>1. ASSUME NEW v \in Workers PROVE Quiet(v)'
    <2>1. CASE v = w
      BY <2>1
    <2>2. CASE v # w
      <3>1. Quiet(v)
        BY DEF QuietInv
      <3> QED
        BY <2>2, <3>1 DEF OthersUntouched, Quiet, Listening
    <2> QED
      BY <2>1, <2>2
  <1>2. ASSUME NEW v \in Workers
        PROVE  recorded'[v] = pending'[v] + BatchSum(toPrimary'[v]) + aggregate'[v] + lost'[v]
    <2>1. CASE v = w
      BY <2>1 DEF Balanced
    <2>2. CASE v # w
      BY <2>2 DEF OthersUntouched, EventsConserved
    <2> QED
      BY <2>1, <2>2
  <1> QED
    BY <1>1, <1>2 DEF QuietInv, EventsConserved

\* Nor do the accounts move when none of their variables does.
LEMMA NoAccount ==
    ASSUME QuietInv, EventsConserved,
           UNCHANGED <<proc, connected, pending, toPrimary, recorded, lost, aggregate>>
    PROVE  QuietInv' /\ EventsConserved'
  BY DEF QuietInv, Quiet, Listening, EventsConserved

\* The numbers in a worker's account.
LEMMA AccountTypes ==
    ASSUME TypeOK, NEW w \in Workers
    PROVE  /\ recorded[w] \in Nat /\ pending[w] \in Nat /\ lost[w] \in Nat /\ aggregate[w] \in Nat
           /\ toPrimary[w] \in Seq(Message) /\ BatchSum(toPrimary[w]) \in Nat
  <1>1. toPrimary[w] \in Seq(Message)
    BY DEF TypeOK, MetricsTypeOK
  <1> QED
    BY <1>1, BatchSumNat DEF TypeOK, MetricsTypeOK, Snapshot

\* Recording, flushing, acknowledging, closing and dying keep the accounts.
LEMMA WorkerAccounts ==
    ASSUME TypeOK, LifeInv, QuietInv, EventsConserved, NEW w \in Workers,
           WorkerStep(w) \/ Die(w) \/ StartFails(w) \/ StraySignal(w),
           UNCHANGED primarySide
    PROVE  QuietInv' /\ EventsConserved'
  <1> USE DEF processVars, collectorVars, renderVars, primarySide
  <1>1. /\ Quiet(w) /\ Balanced(w)
        /\ Alive(w) => connected[w]
        /\ recorded[w] \in Nat /\ pending[w] \in Nat /\ lost[w] \in Nat /\ aggregate[w] \in Nat
        /\ toPrimary[w] \in Seq(Message) /\ BatchSum(toPrimary[w]) \in Nat
    BY AccountTypes DEF QuietInv, EventsConserved, Balanced, LifeInv
  <1>2. UNCHANGED <<connected, aggregate>>
    OBVIOUS
  <1>3. CASE Record(w)
    <2>1. /\ OthersUntouched(w) /\ UNCHANGED <<proc, toPrimary, lost>> /\ Listening(w)
          /\ recorded'[w] = recorded[w] + 1 /\ pending'[w] = pending[w] + 1
      BY <1>2, <1>3 DEF Record, OthersUntouched, TypeOK, MetricsTypeOK
    <2>2. Quiet(w)'
      BY <1>1, <1>2, <2>1 DEF Quiet, Listening
    <2>3. Balanced(w)'
      BY <1>1, <1>2, <2>1 DEF Balanced
    <2> QED
      BY <2>1, <2>2, <2>3, OneAccount
  <1>4. ASSUME FlushThen(w, <<>>), Alive(w), UNCHANGED <<recorded, lost>>,
               \A v \in Workers \ {w} : proc'[v] = proc[v],
               proc'[w] # "none"
        PROVE  QuietInv' /\ EventsConserved'
    <2>1. /\ toPrimary' = [toPrimary EXCEPT ![w] = Sent(w)] /\ pending' = [pending EXCEPT ![w] = 0]
          /\ Sent(w) \in Seq(Message) /\ BatchSum(Sent(w)) = BatchSum(toPrimary[w]) + pending[w]
      BY <1>4, FlushAlone, SentFacts DEF TypeOK
    <2>2. OthersUntouched(w) /\ toPrimary'[w] = Sent(w) /\ pending'[w] = 0
      BY <1>2, <1>4, <2>1 DEF OthersUntouched, TypeOK, MetricsTypeOK
    <2>3. Quiet(w)'
      BY <1>1, <1>2, <1>4, <2>2 DEF Quiet, Listening, Alive
    <2>4. Balanced(w)'
      BY <1>1, <1>2, <1>4, <2>1, <2>2 DEF Balanced
    <2> QED
      BY <2>2, <2>3, <2>4, OneAccount
  <1>5. CASE TimerFlush(w)
    BY <1>4, <1>5 DEF TimerFlush, Listening, Alive
  <1>6. CASE CloseMetrics(w)
    BY <1>4, <1>6 DEF CloseMetrics, Become, Alive, TypeOK, MetricsTypeOK
  <1>7. ASSUME proc' = [proc EXCEPT ![w] = proc'[w]], proc'[w] \in {"serving", "closing", "closed"},
               ~Listening(w) \/ Listening(w)', Alive(w),
               UNCHANGED <<pending, recorded, toPrimary, lost>>
        PROVE  QuietInv' /\ EventsConserved'
    <2>1. OthersUntouched(w)
      BY <1>2, <1>7 DEF OthersUntouched, TypeOK, MetricsTypeOK
    <2>2. Quiet(w)'
      BY <1>1, <1>2, <1>7 DEF Quiet, Listening, Alive
    <2>3. Balanced(w)'
      BY <1>1, <1>2, <1>7 DEF Balanced
    <2> QED
      BY <2>1, <2>2, <2>3, OneAccount
  <1>8. CASE Boot(w)
    BY <1>7, <1>8 DEF Boot, Become, Listening, Alive, TypeOK, MetricsTypeOK
  <1>9. CASE Terminate(w)
    BY <1>7, <1>9 DEF Terminate, Become, Listening, Alive, TypeOK, MetricsTypeOK
  <1>10. CASE StartFails(w)
    BY <1>7, <1>10 DEF StartFails, Become, Listening, Alive, TypeOK, MetricsTypeOK
  <1>11. ASSUME NEW sent \in 0..Len(toPrimary[w]), Vanish(w, sent), Alive(w),
                \A v \in Workers \ {w} : lost'[v] = lost[v],
                lost'[w] = pending[w] + BatchSum(toPrimary[w]) - BatchSum(SubSeq(toPrimary[w], 1, sent))
         PROVE  QuietInv' /\ EventsConserved'
    <2>1. /\ proc'[w] = "gone" /\ pending'[w] = 0 /\ UNCHANGED recorded
          /\ toPrimary'[w] = SubSeq(toPrimary[w], 1, sent)
          /\ OthersUntouched(w)
      BY <1>2, <1>11 DEF Vanish, Become, OthersUntouched, TypeOK, MetricsTypeOK
    <2>2. Quiet(w)'
      BY <1>1, <1>2, <1>11, <2>1 DEF Quiet, Listening
    <2>3. BatchSum(SubSeq(toPrimary[w], 1, sent)) \in Nat
      BY <1>1, BatchSumPrefix
    <2>4. lost[w] = 0
      BY <1>1, <1>11 DEF Quiet, Alive
    <2>5. Balanced(w)'
      BY <1>1, <1>2, <1>11, <2>1, <2>3, <2>4 DEF Balanced
    <2> QED
      BY <2>1, <2>2, <2>5, OneAccount
  <1>12. CASE Die(w)
    <2>1. PICK sent \in 0..Len(toPrimary[w]) :
            /\ Vanish(w, sent)
            /\ lost' = [lost EXCEPT ![w] = pending[w] + BatchSum(toPrimary[w])
                                            - BatchSum(SubSeq(toPrimary[w], 1, sent))]
      BY <1>12 DEF Die
    <2>2. Alive(w)
      BY <1>12 DEF Die
    <2> QED
      BY <1>11, <2>1, <2>2 DEF TypeOK, MetricsTypeOK
  <1>13. ASSUME Vanish(w, Len(toPrimary[w])), Alive(w), ~Listening(w), UNCHANGED lost
         PROVE  QuietInv' /\ EventsConserved'
    <2>1. pending[w] = 0 /\ lost[w] = 0
      BY <1>1, <1>13 DEF Quiet, Alive
    <2>2. Len(toPrimary[w]) \in 0..Len(toPrimary[w]) /\ SubSeq(toPrimary[w], 1, Len(toPrimary[w])) = toPrimary[w]
      BY <1>1
    <2>3. lost'[w] = pending[w] + BatchSum(toPrimary[w]) - BatchSum(SubSeq(toPrimary[w], 1, Len(toPrimary[w])))
      <3>1. BatchSum(SubSeq(toPrimary[w], 1, Len(toPrimary[w]))) = BatchSum(toPrimary[w])
        BY <2>2, Zenon
      <3> QED
        BY <1>1, <1>13, <2>1, <3>1
    <2> QED
      BY <1>11, <1>13, <2>2, <2>3
  <1>14. CASE TerminateEarly(w)
    BY <1>13, <1>14 DEF TerminateEarly, Alive, Listening
  <1>15. CASE Leave(w)
    BY <1>13, <1>15 DEF Leave, Alive, Listening
  <1>16. ASSUME NEW r \in Renders, RequestSnapshot(w, r) PROVE QuietInv' /\ EventsConserved'
    <2>1. /\ OthersUntouched(w) /\ UNCHANGED <<proc, pending, recorded, lost>> /\ Alive(w)
          /\ toPrimary'[w] = Append(toPrimary[w], Request(r))
      BY <1>2, <1>16 DEF RequestSnapshot, OthersUntouched, Alive, TypeOK, MetricsTypeOK
    <2>2. Request(r) \in Message /\ EventsIn(Request(r)) = 0
      BY DEF Request, Message, EventsIn
    <2>3. BatchSum(Append(toPrimary[w], Request(r))) = BatchSum(toPrimary[w])
      BY <1>1, <2>2, BatchSumAppend
    <2>4. Quiet(w)'
      BY <1>1, <1>2, <2>1 DEF Quiet, Listening
    <2>5. Balanced(w)'
      BY <1>1, <1>2, <2>1, <2>3 DEF Balanced
    <2> QED
      BY <2>1, <2>4, <2>5, OneAccount
  <1>17. ASSUME NEW r \in Renders, HandleFlushRequest(w, r) PROVE QuietInv' /\ EventsConserved'
    <2>1. /\ toPrimary' = [toPrimary EXCEPT ![w] = Append(Sent(w), Flushed(r))]
          /\ pending' = [pending EXCEPT ![w] = 0]
          /\ Sent(w) \in Seq(Message) /\ BatchSum(Sent(w)) = BatchSum(toPrimary[w]) + pending[w]
      BY <1>17, FlushAndAcknowledge, SentFacts DEF HandleFlushRequest, TypeOK
    <2>2. Flushed(r) \in Message /\ EventsIn(Flushed(r)) = 0
      BY DEF Flushed, Message, EventsIn
    <2>3. BatchSum(Append(Sent(w), Flushed(r))) = BatchSum(Sent(w))
      <3>1. BatchSum(Sent(w)) \in Nat
        BY <2>1, BatchSumNat
      <3> QED
        BY <2>1, <2>2, <3>1, BatchSumAppend
    <2>4. /\ OthersUntouched(w) /\ UNCHANGED <<proc, recorded, lost>> /\ Alive(w)
          /\ toPrimary'[w] = Append(Sent(w), Flushed(r)) /\ pending'[w] = 0
      BY <1>2, <1>17, <2>1 DEF HandleFlushRequest, OthersUntouched, Alive, Listening, TypeOK, MetricsTypeOK
    <2>5. Quiet(w)'
      BY <1>1, <1>2, <2>4 DEF Quiet, Listening
    <2>6. Balanced(w)'
      <3>1. BatchSum(toPrimary'[w]) = BatchSum(toPrimary[w]) + pending[w]
        BY <2>1, <2>3, <2>4, Zenon
      <3> QED
        BY <1>1, <1>2, <2>4, <3>1 DEF Balanced
    <2> QED
      BY <2>4, <2>5, <2>6, OneAccount
  <1>18. ASSUME NEW r \in Renders, HandleSnapshotResponse(w, r) PROVE QuietInv' /\ EventsConserved'
    BY <1>2, <1>18, NoAccount DEF HandleSnapshotResponse
  <1>19. CASE StraySignal(w) \/ Disregard(w)
    BY <1>2, <1>19, NoAccount DEF StraySignal, Disregard
  <1> QED
    BY <1>3, <1>5, <1>6, <1>8, <1>9, <1>10, <1>12, <1>14, <1>15, <1>16, <1>17, <1>18, <1>19
    DEF WorkerStep, TerminateAgain, Killed

\* Taking a message out of a channel adds what it carries to the totals, or
\* carries nothing.
LEMMA TakenAccounts ==
    ASSUME TypeOK, QuietInv, EventsConserved, NEW w \in Workers, toPrimary[w] # <<>>, Take(w),
           UNCHANGED <<proc, connected, pending, recorded, lost>>,
           \/ /\ Head(toPrimary[w]).type = "batch"
              /\ aggregate' = [aggregate EXCEPT ![w] = @ + Head(toPrimary[w]).count]
           \/ Head(toPrimary[w]).type # "batch" /\ UNCHANGED aggregate
    PROVE  QuietInv' /\ EventsConserved'
  <1>1. /\ Quiet(w) /\ Balanced(w)
        /\ recorded[w] \in Nat /\ pending[w] \in Nat /\ lost[w] \in Nat /\ aggregate[w] \in Nat
        /\ toPrimary[w] \in Seq(Message) /\ BatchSum(toPrimary[w]) \in Nat
    BY AccountTypes DEF QuietInv, EventsConserved, Balanced
  <1>2. EventsIn(Head(toPrimary[w])) \in Nat
    BY HeadFacts, EventsInNat DEF TypeOK
  <1>3. /\ BatchSum(toPrimary[w]) = EventsIn(Head(toPrimary[w])) + BatchSum(Tail(toPrimary[w]))
        /\ BatchSum(Tail(toPrimary[w])) \in Nat
    <2>1. Tail(toPrimary[w]) \in Seq(Message)
      BY <1>1
    <2> QED
      BY <1>1, <2>1, BatchSumTail, BatchSumNat
  <1>4. aggregate'[w] = aggregate[w] + EventsIn(Head(toPrimary[w]))
    BY <1>1 DEF EventsIn, TypeOK, Snapshot
  <1>5. toPrimary'[w] = Tail(toPrimary[w]) /\ OthersUntouched(w)
    BY DEF Take, OthersUntouched, TypeOK, MetricsTypeOK, Snapshot
  <1>6. Quiet(w)'
    BY <1>1 DEF Quiet, Listening
  <1>7. Balanced(w)'
    <2>1. BatchSum(toPrimary'[w]) = BatchSum(Tail(toPrimary[w]))
      BY <1>5, Zenon
    <2> QED
      BY <1>1, <1>2, <1>3, <1>4, <2>1 DEF Balanced
  <1> QED
    BY <1>5, <1>6, <1>7, OneAccount

\* Every step keeps the accounts.
LEMMA AccountsStep ==
    ASSUME TypeOK, LifeInv, QuietInv, EventsConserved, [Next]_vars
    PROVE  QuietInv' /\ EventsConserved'
  <1> USE DEF processVars, collectorVars, primarySide, workerSide
  <1>1. ASSUME NEW w \in Workers, Work(w) PROVE QuietInv' /\ EventsConserved'
    BY <1>1, WorkerAccounts DEF Work
  <1>2. ASSUME NEW w \in Workers, HandleBatch(w) PROVE QuietInv' /\ EventsConserved'
    BY <1>2, TakenAccounts DEF HandleBatch
  <1>3. ASSUME NEW w \in Workers, HandleSnapshotRequest(w) PROVE QuietInv' /\ EventsConserved'
    BY <1>3, TakenAccounts DEF HandleSnapshotRequest
  <1>4. ASSUME NEW w \in Workers, HandleFlushResponse(w) PROVE QuietInv' /\ EventsConserved'
    BY <1>4, TakenAccounts DEF HandleFlushResponse
  <1>5. ASSUME NEW w \in Workers, WorkerDisconnect(w) PROVE QuietInv' /\ EventsConserved'
    <2>1. /\ UNCHANGED <<proc, pending, toPrimary, recorded, lost, aggregate>>
          /\ toPrimary[w] = <<>> /\ OthersUntouched(w)
      BY <1>5 DEF WorkerDisconnect, OthersUntouched, TypeOK
    <2>2. Quiet(w) /\ Balanced(w)
      BY DEF QuietInv, EventsConserved, Balanced
    <2>3. Quiet(w)' /\ Balanced(w)'
      BY <2>1, <2>2 DEF Quiet, Listening, Balanced
    <2> QED
      BY <2>1, <2>3, OneAccount
  <1>6. ASSUME NEW w \in Workers, WorkerExit(w) PROVE QuietInv' /\ EventsConserved'
    <2>1. UNCHANGED <<pending, toPrimary, recorded, lost, aggregate>>
      BY <1>6 DEF WorkerExit
    <2>2. CASE shuttingDown
      BY <1>6, <2>1, <2>2, NoAccount DEF WorkerExit, Refork
    <2>3. CASE ~shuttingDown
      <3>1. /\ nextId <= MaxForks
            /\ proc' = [proc EXCEPT ![nextId] = "starting"]
            /\ connected' = [connected EXCEPT ![nextId] = TRUE]
        BY <1>6, <2>3 DEF WorkerExit, Refork, Become
      <3>2. nextId \in Workers
        BY <3>1, ClusterAssumption DEF TypeOK, Workers
      <3>3. proc[nextId] = "none"
        BY <3>2 DEF LifeInv, Workers
      <3>4. proc'[nextId] = "starting" /\ connected'[nextId] /\ OthersUntouched(nextId)
        BY <2>1, <3>1, <3>2 DEF OthersUntouched, TypeOK, MetricsTypeOK
      <3>5. Quiet(nextId) /\ Balanced(nextId)
        BY <3>2 DEF QuietInv, EventsConserved, Balanced
      <3>6. ASSUME NEW v \in Workers, v = nextId PROVE QuietInv' /\ EventsConserved'
        <4>1. OthersUntouched(v) /\ Quiet(v) /\ Balanced(v) /\ proc[v] = "none"
              /\ proc'[v] = "starting" /\ connected'[v]
          BY <3>3, <3>4, <3>5, <3>6
        <4>2. Quiet(v)'
          BY <2>1, <4>1 DEF Quiet, Listening
        <4>3. Balanced(v)'
          BY <2>1, <4>1 DEF Balanced
        <4> QED
          BY <4>1, <4>2, <4>3, OneAccount
      <3> QED
        BY <3>2, <3>6
    <2> QED
      BY <2>2, <2>3
  <1>7. ASSUME NEW r \in Renders, Expire(r) PROVE QuietInv' /\ EventsConserved'
    BY <1>7, NoAccount DEF Expire, RenderTimeout
  <1>8. ASSUME NEW r \in Renders, SnapshotTimeout(r) PROVE QuietInv' /\ EventsConserved'
    BY <1>8, NoAccount DEF SnapshotTimeout
  <1>9. CASE Shutdown
    BY <1>9, NoAccount DEF Shutdown
  <1>10. CASE ForceShutdown
    BY <1>10, NoAccount DEF ForceShutdown
  <1>11. CASE Fault
    BY <1>11, WorkerAccounts DEF Fault
  <1>12. CASE UNCHANGED vars
    BY <1>12, NoAccount DEF vars
  <1> QED
    BY <1>1, <1>2, <1>3, <1>4, <1>5, <1>6, <1>7, <1>8, <1>9, <1>10, <1>11, <1>12
    DEF Next, Receive, Supervise

\* The accounts hold in every reachable state.
LEMMA AccountsCorrect == Spec => [](QuietInv /\ EventsConserved)
<1>1. Init => QuietInv /\ EventsConserved
  <2> SUFFICES ASSUME Init PROVE QuietInv /\ EventsConserved
    OBVIOUS
  <2>1. \A w \in Workers : /\ pending[w] = 0 /\ lost[w] = 0 /\ recorded[w] = 0 /\ aggregate[w] = 0
                           /\ toPrimary[w] = <<>>
    BY DEF Init, MetricsInit, EmptySnapshot
  <2>2. \A w \in Workers : BatchSum(toPrimary[w]) = 0
    BY <2>1, BatchSumEmpty, Zenon
  <2> QED
    BY <2>1, <2>2 DEF QuietInv, Quiet, EventsConserved
<1>2. TypeOK /\ LifeInv /\ QuietInv /\ EventsConserved /\ [Next]_vars => (QuietInv /\ EventsConserved)'
  BY AccountsStep
<1> QED
  BY <1>1, <1>2, TypeCorrect, LifeCorrect, PTL DEF Spec

\* Every event recorded is waiting, on its way, added up or died with its
\* process, however flushes, acknowledgements, exits, forks and crashes
\* interleave: EventsConserved holds for any number of workers and events.
THEOREM NoEventMiscounted == Spec => []EventsConserved
<1> QED
  BY AccountsCorrect, PTL

\* What a worker that left in order had recorded is in the totals once its
\* channel is read: GracefulExitDelivers.
THEOREM OrderlyExitDelivers == Spec => []GracefulExitDelivers
<1>1. TypeOK /\ QuietInv /\ EventsConserved => GracefulExitDelivers
  <2> SUFFICES ASSUME TypeOK, QuietInv, EventsConserved, NEW w \in Workers,
                      proc[w] = "gone", ~connected[w], lost[w] = 0
               PROVE  aggregate[w] = recorded[w]
    BY DEF GracefulExitDelivers
  <2>1. pending[w] = 0 /\ toPrimary[w] = <<>>
    BY DEF QuietInv, Quiet, Listening
  <2>2. BatchSum(toPrimary[w]) = 0
    BY <2>1, BatchSumEmpty, Zenon
  <2> QED
    BY <2>1, <2>2, AccountTypes DEF EventsConserved
<1> QED
  BY <1>1, TypeCorrect, AccountsCorrect, PTL

-----------------------------------------------------------------------------
(***************************************************************************)
(* Answers                                                                 *)
(***************************************************************************)
\* Where a channel acknowledges a flush for r, what the totals have and what
\* arrives before the acknowledgement make up what is needed.
Covers(messages, r, have, need) ==
    \A i \in 1..Len(messages) :
        messages[i] = Flushed(r) => have + BatchSum(SubSeq(messages, 1, i)) >= need

\* A message sent: an acknowledgement must follow everything that is needed.
LEMMA CoversAppend ==
    ASSUME NEW s \in Seq(Message), NEW m \in Message, NEW r, NEW have \in Nat, NEW need \in Nat,
           Covers(s, r, have, need),
           m = Flushed(r) => have + BatchSum(s) >= need
    PROVE  Covers(Append(s, m), r, have, need)
  <1> DEFINE t == Append(s, m)
  <1>1. /\ t \in Seq(Message) /\ Len(t) = Len(s) + 1 /\ Len(s) \in Nat
        /\ t[Len(s) + 1] = m /\ \A i \in 1..Len(s) : t[i] = s[i]
    OBVIOUS
  <1>2. \A i \in 1..Len(s) : SubSeq(t, 1, i) = SubSeq(s, 1, i)
    OBVIOUS
  <1>3. SubSeq(t, 1, Len(s) + 1) = t
    OBVIOUS
  <1>4. BatchSum(t) = BatchSum(s) + EventsIn(m) /\ BatchSum(s) \in Nat /\ EventsIn(m) \in Nat
    BY BatchSumAppend, BatchSumNat, EventsInNat
  <1> SUFFICES ASSUME NEW i \in 1..Len(t), t[i] = Flushed(r)
               PROVE  have + BatchSum(SubSeq(t, 1, i)) >= need
    BY DEF Covers
  <1> HIDE DEF t
  <1>5. CASE i = Len(s) + 1
    <2>1. BatchSum(SubSeq(t, 1, i)) = BatchSum(t)
      BY <1>3, <1>5, Zenon
    <2>2. have + BatchSum(s) >= need
      BY <1>1, <1>5
    <2> QED
      BY <1>4, <2>1, <2>2
  <1>6. CASE i \in 1..Len(s)
    <2>1. BatchSum(SubSeq(t, 1, i)) = BatchSum(SubSeq(s, 1, i))
      BY <1>2, <1>6, Zenon
    <2>2. have + BatchSum(SubSeq(s, 1, i)) >= need
      BY <1>1, <1>6 DEF Covers
    <2> QED
      BY <2>1, <2>2
  <1> QED
    BY <1>1, <1>5, <1>6

\* A message taken out: the totals have what it carried.
LEMMA CoversTail ==
    ASSUME NEW s \in Seq(Message), s # <<>>, NEW r, NEW have \in Nat, NEW need \in Nat,
           Covers(s, r, have, need)
    PROVE  Covers(Tail(s), r, have + EventsIn(Head(s)), need)
  <1> DEFINE t == Tail(s)
  <1>1. t \in Seq(Message) /\ Len(s) = Len(t) + 1 /\ Len(t) \in Nat /\ Head(s) \in Message
    OBVIOUS
  <1> SUFFICES ASSUME NEW i \in 1..Len(t), t[i] = Flushed(r)
               PROVE  have + EventsIn(Head(s)) + BatchSum(SubSeq(t, 1, i)) >= need
    BY DEF Covers
  <1>2. i + 1 \in 1..Len(s) /\ s[i + 1] = Flushed(r) /\ i \in 0..Len(t)
    OBVIOUS
  <1> DEFINE u == SubSeq(s, 1, i + 1)
  <1>3. u \in Seq(Message) /\ u # <<>> /\ Head(u) = Head(s)
    BY <1>2
  <1>4. Tail(u) = SubSeq(t, 1, i)
    BY <1>2
  <1>5. have + BatchSum(u) >= need
    BY <1>2 DEF Covers
  <1>6. SubSeq(t, 1, i) \in Seq(Message) /\ BatchSum(SubSeq(t, 1, i)) \in Nat
    BY <1>1, <1>2, BatchSumPrefix
  <1>7. EventsIn(Head(s)) \in Nat
    BY <1>1, EventsInNat
  <1> HIDE DEF t, u
  <1>8. BatchSum(u) = EventsIn(Head(u)) + BatchSum(Tail(u))
    BY <1>3, BatchSumTail
  <1>9. BatchSum(u) = EventsIn(Head(s)) + BatchSum(SubSeq(t, 1, i))
    BY <1>3, <1>4, <1>8, Zenon
  <1> QED
    BY <1>5, <1>6, <1>7, <1>9

\* When an acknowledgement is the next to be read, the totals have everything.
LEMMA CoversHead ==
    ASSUME NEW s \in Seq(Message), s # <<>>, NEW r \in Renders, NEW have \in Nat, NEW need \in Nat,
           Covers(s, r, have, need), Head(s) = Flushed(r)
    PROVE  have >= need
  <1>1. 1 \in 1..Len(s) /\ s[1] = Flushed(r)
    OBVIOUS
  <1>2. have + BatchSum(SubSeq(s, 1, 1)) >= need
    BY <1>1 DEF Covers
  <1> DEFINE u == SubSeq(s, 1, 1)
  <1>3. u \in Seq(Message) /\ u # <<>> /\ Head(u) = Head(s) /\ Tail(u) = <<>>
    BY <1>1
  <1> HIDE DEF u
  <1>4. EventsIn(Head(s)) = 0
    BY DEF EventsIn, Flushed
  <1>5. BatchSum(u) = EventsIn(Head(u)) + BatchSum(Tail(u))
    BY <1>3, BatchSumTail
  <1>6. EventsIn(Head(u)) = 0 /\ BatchSum(Tail(u)) = 0
    BY <1>3, <1>4, BatchSumEmpty, Zenon
  <1> QED
    BY <1>2, <1>5, <1>6 DEF u

\* A flush puts nothing but a batch after what the channel held.
LEMMA SentCovers ==
    ASSUME MetricsTypeOK, NEW w \in Workers, NEW r, NEW have \in Nat, NEW need \in Nat,
           Covers(toPrimary[w], r, have, need)
    PROVE  Covers(Sent(w), r, have, need)
  <1>1. toPrimary[w] \in Seq(Message) /\ pending[w] \in Nat
    BY DEF MetricsTypeOK
  <1>2. Batch(pending[w]) \in Message
    BY <1>1 DEF Batch, Message
  <1>3. Batch(pending[w]) # Flushed(r)
    <2>1. Batch(pending[w]).type = "batch" /\ Flushed(r).type = "flushed"
      BY DEF Batch, Flushed
    <2> QED
      BY <2>1
  <1>4. CASE pending[w] = 0
    BY <1>4 DEF Sent
  <1>5. CASE pending[w] # 0
    BY <1>1, <1>2, <1>3, <1>5, CoversAppend DEF Sent
  <1> QED
    BY <1>4, <1>5

\* A channel holds a request or an acknowledgement for r.
Mentions(messages, r) ==
    \E i \in 1..Len(messages) : messages[i].type # "batch" /\ messages[i].id = r

\* What a message sent, taken out or cut off does to the mentions.
LEMMA MentionsFacts ==
    ASSUME NEW s \in Seq(Message), NEW r
    PROVE  /\ \A m \in Message :
                 Mentions(Append(s, m), r) => Mentions(s, r) \/ (m.type # "batch" /\ m.id = r)
           /\ s # <<>> => (Mentions(Tail(s), r) => Mentions(s, r))
           /\ s # <<>> => (Head(s).type # "batch" => Mentions(s, Head(s).id))
           /\ \A n \in 0..Len(s) : Mentions(SubSeq(s, 1, n), r) => Mentions(s, r)
  <1>1. ASSUME NEW m \in Message, Mentions(Append(s, m), r)
        PROVE  Mentions(s, r) \/ (m.type # "batch" /\ m.id = r)
    <2> DEFINE t == Append(s, m)
    <2>1. PICK i \in 1..Len(t) : t[i].type # "batch" /\ t[i].id = r
      BY <1>1 DEF Mentions
    <2>2. CASE i \in 1..Len(s)
      <3>1. t[i] = s[i]
        BY <2>2
      <3> QED
        BY <2>1, <2>2, <3>1 DEF Mentions
    <2>3. CASE i = Len(s) + 1
      <3>1. t[i] = m
        BY <2>3
      <3> QED
        BY <2>1, <3>1
    <2> QED
      BY <2>2, <2>3
  <1>2. ASSUME s # <<>>, Mentions(Tail(s), r) PROVE Mentions(s, r)
    <2> DEFINE t == Tail(s)
    <2>1. PICK i \in 1..Len(t) : t[i].type # "batch" /\ t[i].id = r
      BY <1>2 DEF Mentions
    <2>2. i + 1 \in 1..Len(s) /\ t[i] = s[i + 1]
      BY <1>2
    <2> QED
      BY <2>1, <2>2 DEF Mentions
  <1>3. ASSUME s # <<>>, Head(s).type # "batch" PROVE Mentions(s, Head(s).id)
    <2>1. 1 \in 1..Len(s) /\ s[1] = Head(s)
      BY <1>3
    <2> QED
      BY <1>3, <2>1 DEF Mentions
  <1>4. ASSUME NEW n \in 0..Len(s), Mentions(SubSeq(s, 1, n), r) PROVE Mentions(s, r)
    <2> DEFINE t == SubSeq(s, 1, n)
    <2>1. PICK i \in 1..Len(t) : t[i].type # "batch" /\ t[i].id = r
      BY <1>4 DEF Mentions
    <2>2. i \in 1..Len(s) /\ t[i] = s[i]
      OBVIOUS
    <2> QED
      BY <2>1, <2>2 DEF Mentions
  <1> QED
    BY <1>1, <1>2, <1>3, <1>4

\* A flush mentions nothing new.
LEMMA SentMentions ==
    ASSUME MetricsTypeOK, NEW w \in Workers, NEW r, Mentions(Sent(w), r)
    PROVE  Mentions(toPrimary[w], r)
  <1>1. toPrimary[w] \in Seq(Message) /\ pending[w] \in Nat
    BY DEF MetricsTypeOK
  <1>2. Batch(pending[w]) \in Message /\ Batch(pending[w]).type = "batch"
    BY <1>1 DEF Batch, Message
  <1> QED
    BY <1>1, <1>2, MentionsFacts DEF Sent

\* A channel without a mention of r acknowledges nothing for r.
LEMMA CoversUnmentioned ==
    ASSUME NEW s \in Seq(Message), NEW r, ~Mentions(s, r), NEW have, NEW need
    PROVE  Covers(s, r, have, need)
  <1>1. Flushed(r).type = "flushed" /\ Flushed(r).id = r
    BY DEF Flushed
  <1> QED
    BY <1>1 DEF Covers, Mentions

\* What a step of a worker does to its channel.
Sends(w) ==
    \/ UNCHANGED <<toPrimary, before>>
    \/ toPrimary' = [toPrimary EXCEPT ![w] = Sent(w)] /\ UNCHANGED before
    \/ \E r \in Renders :
          /\ <<w, r>> \in flushAsked /\ proc[w] # "gone"
          /\ toPrimary' = [toPrimary EXCEPT ![w] = Append(Sent(w), Flushed(r))]
          /\ UNCHANGED before
    \/ \E r \in Renders :
          /\ render[r] = "new" /\ render'[r] = "waiting"
          /\ toPrimary' = [toPrimary EXCEPT ![w] = Append(@, Request(r))]
          /\ before' = [before EXCEPT ![r] = [recorded |-> recorded, shown |-> Shown]]
          /\ UNCHANGED recorded
    \/ \E n \in 0..Len(toPrimary[w]) :
          /\ proc'[w] = "gone"
          /\ toPrimary' = [toPrimary EXCEPT ![w] = SubSeq(@, 1, n)]
          /\ UNCHANGED before

\* A worker's step sends at most a batch, an acknowledgement it was asked for or
\* a request for a new render, or cuts its channel off as it ends.
LEMMA WorkerSends ==
    ASSUME TypeOK, NEW w \in Workers,
           WorkerStep(w) \/ Die(w) \/ StartFails(w) \/ StraySignal(w)
    PROVE  /\ Sends(w)
           /\ flushAsked' \subseteq flushAsked /\ UNCHANGED response
           /\ \A r \in Renders : render'[r] = "new" => render[r] = "new"
           /\ \A v \in Workers : recorded[v] <= recorded'[v]
           /\ \A v \in Workers : proc'[v] # "gone" => proc[v] # "gone"
  <1> USE DEF processVars, collectorVars, renderVars
  <1> DEFINE Goal == /\ flushAsked' \subseteq flushAsked /\ UNCHANGED response
                     /\ \A r \in Renders : render'[r] = "new" => render[r] = "new"
                     /\ \A v \in Workers : recorded[v] <= recorded'[v]
  <1>1. \A v \in Workers : proc'[v] # "gone" => proc[v] # "gone"
    <2>1. CASE UNCHANGED proc
      BY <2>1
    <2>2. ASSUME NEW state, Alive(w), proc' = [proc EXCEPT ![w] = state]
          PROVE  \A v \in Workers : proc'[v] # "gone" => proc[v] # "gone"
      BY <2>2 DEF Alive, TypeOK, MetricsTypeOK
    <2> QED
      BY <2>1, <2>2, WorkerProcess
  <1>2. \A v \in Workers : recorded[v] \in Nat
    BY DEF TypeOK, MetricsTypeOK
  <1>3. ASSUME UNCHANGED <<flushAsked, response, render>>, recorded' = recorded PROVE Goal
    BY <1>2, <1>3
  <1>4. CASE Record(w)
    <2>1. UNCHANGED <<flushAsked, response, render, toPrimary, before>>
      BY <1>4 DEF Record
    <2>2. \A v \in Workers : recorded[v] <= recorded'[v]
      BY <1>2, <1>4 DEF Record, TypeOK, MetricsTypeOK
    <2> QED
      BY <1>1, <2>1, <2>2 DEF Sends
  <1>5. CASE TimerFlush(w) \/ CloseMetrics(w)
    <2>1. toPrimary' = [toPrimary EXCEPT ![w] = Sent(w)]
      BY <1>5, FlushAlone DEF TimerFlush, CloseMetrics, TypeOK
    <2>2. UNCHANGED <<flushAsked, response, render, before, recorded>>
      BY <1>5 DEF TimerFlush, CloseMetrics
    <2> QED
      BY <1>1, <1>3, <2>1, <2>2 DEF Sends
  <1>6. CASE Boot(w) \/ Terminate(w) \/ Disregard(w) \/ StartFails(w) \/ StraySignal(w)
    <2>1. UNCHANGED <<flushAsked, response, render, toPrimary, before, recorded>>
      BY <1>6 DEF Boot, Terminate, Disregard, StartFails, StraySignal
    <2> QED
      BY <1>1, <1>3, <2>1 DEF Sends
  <1>7. ASSUME NEW n \in 0..Len(toPrimary[w]), Vanish(w, n) PROVE Sends(w) /\ Goal
    <2>1. /\ proc'[w] = "gone" /\ UNCHANGED <<response, recorded, before>>
          /\ toPrimary' = [toPrimary EXCEPT ![w] = SubSeq(@, 1, n)]
          /\ flushAsked' \subseteq flushAsked
          /\ \A r \in Renders : render'[r] = "new" => render[r] = "new"
      BY <1>7 DEF Vanish, Become, TypeOK, MetricsTypeOK
    <2>3. Sends(w)
      BY <2>1, Zenon DEF Sends
    <2>4. Goal
      BY <1>2, <2>1
    <2> QED
      BY <2>3, <2>4
  <1>8. CASE Die(w)
    BY <1>1, <1>7, <1>8 DEF Die
  <1>9. CASE TerminateEarly(w) \/ Leave(w)
    <2>1. Len(toPrimary[w]) \in 0..Len(toPrimary[w])
      BY DEF TypeOK, MetricsTypeOK
    <2> QED
      BY <1>1, <1>7, <1>9, <2>1 DEF TerminateEarly, Leave
  <1>10. ASSUME NEW r \in Renders, RequestSnapshot(w, r) PROVE Sends(w) /\ Goal
    <2>1. /\ render[r] = "new" /\ render'[r] = "waiting"
          /\ toPrimary' = [toPrimary EXCEPT ![w] = Append(@, Request(r))]
          /\ before' = [before EXCEPT ![r] = [recorded |-> recorded, shown |-> Shown]]
          /\ UNCHANGED <<recorded, flushAsked, response>>
      BY <1>10 DEF RequestSnapshot, TypeOK, MetricsTypeOK
    <2>2. \A q \in Renders : render'[q] = "new" => render[q] = "new"
      BY <1>10 DEF RequestSnapshot, TypeOK, MetricsTypeOK
    <2>3. Sends(w)
      BY <2>1, Zenon DEF Sends
    <2>4. Goal
      BY <1>2, <2>1, <2>2
    <2> QED
      BY <2>3, <2>4
  <1>11. ASSUME NEW r \in Renders, HandleFlushRequest(w, r) PROVE Sends(w) /\ Goal
    <2>1. /\ <<w, r>> \in flushAsked /\ proc[w] # "gone"
          /\ toPrimary' = [toPrimary EXCEPT ![w] = Append(Sent(w), Flushed(r))]
          /\ UNCHANGED <<before, recorded, render, response>> /\ flushAsked' \subseteq flushAsked
      BY <1>11, FlushAndAcknowledge DEF HandleFlushRequest, Listening, TypeOK
    <2>3. Sends(w)
      BY <2>1, Zenon DEF Sends
    <2>4. Goal
      BY <1>2, <2>1
    <2> QED
      BY <2>3, <2>4
  <1>12. ASSUME NEW r \in Renders, HandleSnapshotResponse(w, r) PROVE Sends(w) /\ Goal
    <2>1. UNCHANGED <<before, toPrimary, recorded, flushAsked, response>>
      BY <1>12 DEF HandleSnapshotResponse, Resolve
    <2>2. \A q \in Renders : render'[q] = "new" => render[q] = "new"
      BY <1>12 DEF HandleSnapshotResponse, Resolve, TypeOK, MetricsTypeOK
    <2>3. Sends(w)
      BY <2>1, Zenon DEF Sends
    <2>4. Goal
      BY <1>2, <2>1, <2>2
    <2> QED
      BY <2>3, <2>4
  <1> QED
    BY <1>1, <1>4, <1>5, <1>6, <1>8, <1>9, <1>10, <1>11, <1>12 DEF WorkerStep, TerminateAgain, Killed

\* Nobody has heard of a render that has not begun.
FreshInv ==
    \A r \in Renders : render[r] = "new" =>
        /\ response[r] = None /\ r \notin collecting
        /\ \A w \in Workers : <<w, r>> \notin flushAsked /\ ~Mentions(toPrimary[w], r)

\* What a worker had recorded when render r began.
Needed(r, w) == before[r].recorded[w]

\* A worker that runs has recorded what it had; once a collection no longer
\* awaits it, the totals have that; and its acknowledgements follow it.
CoveredInv ==
    \A r \in Renders, w \in Workers :
        /\ Needed(r, w) <= recorded[w]
        /\ proc[w] # "gone" =>
              /\ (r \in collecting /\ w \notin awaiting[r]) => aggregate[w] >= Needed(r, w)
              /\ Covers(toPrimary[w], r, aggregate[w], Needed(r, w))

AnswerInv == FreshInv /\ CoveredInv /\ AnswersComplete

\* The numbers a render compares.
LEMMA NeededType ==
    ASSUME TypeOK, NEW r \in Renders, NEW w \in Workers
    PROVE  Needed(r, w) \in Nat
  BY DEF TypeOK, MetricsTypeOK, Snapshot, Needed

\* A worker's step keeps a render that has not begun unknown.
LEMMA WorkerFresh ==
    ASSUME TypeOK, FreshInv, NEW w \in Workers, UNCHANGED collecting,
           WorkerStep(w) \/ Die(w) \/ StartFails(w) \/ StraySignal(w)
    PROVE  FreshInv'
  <1> SUFFICES ASSUME NEW r \in Renders, render'[r] = "new"
               PROVE  /\ response'[r] = None /\ r \notin collecting'
                      /\ \A v \in Workers : <<v, r>> \notin flushAsked' /\ ~Mentions(toPrimary'[v], r)
    BY DEF FreshInv
  <1>1. /\ Sends(w) /\ flushAsked' \subseteq flushAsked /\ UNCHANGED response /\ render[r] = "new"
    BY WorkerSends
  <1>2. /\ response[r] = None /\ r \notin collecting
        /\ \A v \in Workers : <<v, r>> \notin flushAsked /\ ~Mentions(toPrimary[v], r)
    BY <1>1 DEF FreshInv
  <1>3. toPrimary[w] \in Seq(Message) /\ MetricsTypeOK /\ toPrimary \in [Workers -> Seq(Message)]
    BY DEF TypeOK, MetricsTypeOK
  <1>4. ASSUME NEW t, toPrimary' = [toPrimary EXCEPT ![w] = t], ~Mentions(t, r)
        PROVE  \A v \in Workers : ~Mentions(toPrimary'[v], r)
    <2>1. \A v \in Workers : toPrimary'[v] = IF v = w THEN t ELSE toPrimary[v]
      BY <1>3, <1>4
    <2> QED
      BY <1>2, <1>4, <2>1
  <1>5. ~Mentions(Sent(w), r)
    BY <1>2, <1>3, SentMentions
  <1>6. \A v \in Workers : ~Mentions(toPrimary'[v], r)
    <2>1. CASE UNCHANGED toPrimary
      BY <1>2, <2>1
    <2>2. CASE toPrimary' = [toPrimary EXCEPT ![w] = Sent(w)]
      BY <1>4, <1>5, <2>2
    <2>3. ASSUME NEW q \in Renders, <<w, q>> \in flushAsked,
                 toPrimary' = [toPrimary EXCEPT ![w] = Append(Sent(w), Flushed(q))]
          PROVE  \A v \in Workers : ~Mentions(toPrimary'[v], r)
      <3>1. q # r
        BY <1>2, <2>3
      <3>2. Flushed(q) \in Message /\ Flushed(q).id = q
        BY DEF Flushed, Message
      <3>3. Sent(w) \in Seq(Message)
        BY <1>3, SentFacts
      <3>4. ~Mentions(Append(Sent(w), Flushed(q)), r)
        BY <1>5, <3>1, <3>2, <3>3, MentionsFacts
      <3> QED
        BY <1>4, <2>3, <3>4
    <2>4. ASSUME NEW q \in Renders, render'[q] = "waiting",
                 toPrimary' = [toPrimary EXCEPT ![w] = Append(@, Request(q))]
          PROVE  \A v \in Workers : ~Mentions(toPrimary'[v], r)
      <3>1. q # r
        BY <2>4
      <3>2. Request(q) \in Message /\ Request(q).id = q
        BY DEF Request, Message
      <3>3. ~Mentions(Append(toPrimary[w], Request(q)), r)
        BY <1>2, <1>3, <3>1, <3>2, MentionsFacts
      <3> QED
        BY <1>4, <2>4, <3>3
    <2>5. ASSUME NEW n \in 0..Len(toPrimary[w]),
                 toPrimary' = [toPrimary EXCEPT ![w] = SubSeq(@, 1, n)]
          PROVE  \A v \in Workers : ~Mentions(toPrimary'[v], r)
      <3>1. ~Mentions(SubSeq(toPrimary[w], 1, n), r)
        BY <1>2, <1>3, MentionsFacts
      <3> QED
        BY <1>4, <2>5, <3>1
    <2> QED
      BY <1>1, <2>1, <2>2, <2>3, <2>4, <2>5 DEF Sends
  <1> QED
    BY <1>1, <1>2, <1>6

\* A worker's step keeps its acknowledgements behind what they acknowledge: the
\* flush that precedes one sends everything recorded so far.
LEMMA WorkerCovered ==
    ASSUME TypeOK, QuietInv, EventsConserved, FreshInv, CoveredInv, NEW w \in Workers,
           UNCHANGED <<collecting, awaiting, aggregate>>,
           WorkerStep(w) \/ Die(w) \/ StartFails(w) \/ StraySignal(w)
    PROVE  CoveredInv'
  <1> SUFFICES ASSUME NEW r \in Renders, NEW v \in Workers
               PROVE  /\ Needed(r, v)' <= recorded'[v]
                      /\ proc'[v] # "gone" =>
                            /\ (r \in collecting' /\ v \notin awaiting'[r]) =>
                                  aggregate'[v] >= Needed(r, v)'
                            /\ Covers(toPrimary'[v], r, aggregate'[v], Needed(r, v)')
    BY DEF CoveredInv
  <1>1. /\ Sends(w) /\ recorded[v] <= recorded'[v]
        /\ proc'[v] # "gone" => proc[v] # "gone"
    BY WorkerSends
  <1>2. /\ Needed(r, v) <= recorded[v]
        /\ proc[v] # "gone" =>
              /\ (r \in collecting /\ v \notin awaiting[r]) => aggregate[v] >= Needed(r, v)
              /\ Covers(toPrimary[v], r, aggregate[v], Needed(r, v))
    BY DEF CoveredInv
  <1>3. /\ recorded[v] \in Nat /\ pending[v] \in Nat /\ lost[v] \in Nat /\ aggregate[v] \in Nat
        /\ toPrimary[v] \in Seq(Message) /\ BatchSum(toPrimary[v]) \in Nat
        /\ Needed(r, v) \in Nat /\ MetricsTypeOK
    BY AccountTypes, NeededType DEF TypeOK
  <1>4. recorded'[v] \in Nat
    BY WorkerTypes DEF MetricsTypeOK
  <1>5. ASSUME UNCHANGED before,
               proc[v] # "gone" /\ proc'[v] # "gone" =>
                   Covers(toPrimary'[v], r, aggregate[v], Needed(r, v))
        PROVE  /\ Needed(r, v)' <= recorded'[v]
               /\ proc'[v] # "gone" =>
                     /\ (r \in collecting' /\ v \notin awaiting'[r]) =>
                           aggregate'[v] >= Needed(r, v)'
                     /\ Covers(toPrimary'[v], r, aggregate'[v], Needed(r, v)')
    <2>1. Needed(r, v)' = Needed(r, v)
      BY <1>5 DEF Needed
    <2> QED
      BY <1>1, <1>2, <1>3, <1>4, <1>5, <2>1
  <1>6. ASSUME NEW t, toPrimary' = [toPrimary EXCEPT ![w] = t]
        PROVE  toPrimary'[v] = IF v = w THEN t ELSE toPrimary[v]
    BY <1>6 DEF TypeOK, MetricsTypeOK
  <1>7. CASE UNCHANGED <<toPrimary, before>>
    BY <1>2, <1>5, <1>7
  <1>8. CASE toPrimary' = [toPrimary EXCEPT ![w] = Sent(w)] /\ UNCHANGED before
    <2>1. proc[v] # "gone" => Covers(toPrimary'[v], r, aggregate[v], Needed(r, v))
      BY <1>2, <1>3, <1>6, <1>8, SentCovers
    <2> QED
      BY <1>5, <1>8, <2>1
  <1>9. ASSUME NEW q \in Renders, UNCHANGED before,
               toPrimary' = [toPrimary EXCEPT ![w] = Append(Sent(w), Flushed(q))]
        PROVE  proc[v] # "gone" => Covers(toPrimary'[v], r, aggregate[v], Needed(r, v))
    <2>1. CASE v # w
      BY <1>2, <1>6, <1>9, <2>1
    <2>2. ASSUME v = w, proc[v] # "gone"
          PROVE  Covers(Append(Sent(v), Flushed(q)), r, aggregate[v], Needed(r, v))
      <3>1. Sent(v) \in Seq(Message) /\ BatchSum(Sent(v)) = BatchSum(toPrimary[v]) + pending[v]
        BY <1>3, SentFacts
      <3>2. lost[v] = 0 /\ recorded[v] = pending[v] + BatchSum(toPrimary[v]) + aggregate[v] + lost[v]
        BY <2>2 DEF QuietInv, Quiet, EventsConserved
      <3>3. aggregate[v] + BatchSum(Sent(v)) >= Needed(r, v)
        BY <1>2, <1>3, <3>1, <3>2
      <3>4. Covers(Sent(v), r, aggregate[v], Needed(r, v))
        BY <1>2, <1>3, <2>2, SentCovers
      <3>5. Flushed(q) \in Message
        BY DEF Flushed, Message
      <3> QED
        BY <1>3, <3>1, <3>3, <3>4, <3>5, CoversAppend
    <2> QED
      BY <1>6, <1>9, <2>1, <2>2
  <1>10. ASSUME NEW q \in Renders, render[q] = "new",
                toPrimary' = [toPrimary EXCEPT ![w] = Append(@, Request(q))],
                before' = [before EXCEPT ![q] = [recorded |-> recorded, shown |-> Shown]],
                UNCHANGED recorded
         PROVE  /\ Needed(r, v)' <= recorded'[v]
                /\ proc'[v] # "gone" =>
                      /\ (r \in collecting' /\ v \notin awaiting'[r]) =>
                            aggregate'[v] >= Needed(r, v)'
                      /\ Covers(toPrimary'[v], r, aggregate'[v], Needed(r, v)')
    <2>1. Needed(r, v)' = IF r = q THEN recorded[v] ELSE Needed(r, v)
      BY <1>10 DEF Needed, TypeOK, MetricsTypeOK
    <2>2. q \notin collecting /\ ~Mentions(toPrimary[v], q)
      BY <1>10 DEF FreshInv
    <2>3. Request(q) \in Message /\ Request(q) # Flushed(r)
      <3>1. Request(q).type = "request" /\ Flushed(r).type = "flushed"
        BY DEF Request, Flushed
      <3> QED
        BY <3>1 DEF Request, Message
    <2>4. Needed(r, v)' \in Nat
      BY <1>3, <2>1
    <2>5. proc[v] # "gone" => Covers(toPrimary[v], r, aggregate[v], Needed(r, v)')
      <3>1. CASE r = q
        BY <1>3, <2>2, <3>1, CoversUnmentioned
      <3>2. CASE r # q
        BY <1>2, <2>1, <3>2
      <3> QED
        BY <3>1, <3>2
    <2>6. proc[v] # "gone" => Covers(toPrimary'[v], r, aggregate[v], Needed(r, v)')
      <3>1. proc[v] # "gone" => Covers(Append(toPrimary[v], Request(q)), r, aggregate[v], Needed(r, v)')
        BY <1>3, <2>3, <2>4, <2>5, CoversAppend
      <3>2. toPrimary'[v] = IF v = w THEN Append(toPrimary[w], Request(q)) ELSE toPrimary[v]
        BY <1>6, <1>10
      <3> QED
        BY <2>5, <3>1, <3>2
    <2> QED
      BY <1>1, <1>2, <1>3, <1>10, <2>1, <2>2, <2>6
  <1>11. ASSUME NEW n, proc'[w] = "gone", UNCHANGED before,
                toPrimary' = [toPrimary EXCEPT ![w] = SubSeq(@, 1, n)]
         PROVE  proc[v] # "gone" /\ proc'[v] # "gone" =>
                    Covers(toPrimary'[v], r, aggregate[v], Needed(r, v))
    BY <1>2, <1>6, <1>11
  <1> QED
    BY <1>1, <1>5, <1>7, <1>8, <1>9, <1>10, <1>11 DEF Sends

\* A worker's step leaves the answers that have been given alone.
LEMMA WorkerAnswers ==
    ASSUME TypeOK, FreshInv, AnswersComplete, NEW w \in Workers, UNCHANGED partial,
           WorkerStep(w) \/ Die(w) \/ StartFails(w) \/ StraySignal(w)
    PROVE  AnswersComplete'
  <1> SUFFICES ASSUME NEW r \in Renders, r \notin partial, NEW v \in Workers,
                      response'[r] # None, proc'[v] # "gone"
               PROVE  response'[r][v] >= before'[r].recorded[v]
    BY DEF AnswersComplete
  <1>1. Sends(w) /\ UNCHANGED response /\ proc[v] # "gone"
    BY WorkerSends
  <1>2. render[r] # "new"
    BY <1>1 DEF FreshInv
  <1>3. before'[r] = before[r]
    <2>1. ASSUME NEW q \in Renders, render[q] = "new",
                 before' = [before EXCEPT ![q] = [recorded |-> recorded, shown |-> Shown]]
          PROVE  before'[r] = before[r]
      BY <1>2, <2>1 DEF TypeOK, MetricsTypeOK
    <2> QED
      BY <1>1, <2>1 DEF Sends
  <1> QED
    BY <1>1, <1>3 DEF AnswersComplete

\* Reading a channel keeps what is left of it covered.
LEMMA TakenCovered ==
    ASSUME TypeOK, CoveredInv, NEW w \in Workers, toPrimary[w] # <<>>, Take(w),
           \A v \in Workers : aggregate'[v] = IF v = w THEN aggregate[w] + EventsIn(Head(toPrimary[w]))
                                              ELSE aggregate[v]
    PROVE  \A r \in Renders, v \in Workers :
              /\ aggregate'[v] >= aggregate[v]
              /\ proc[v] # "gone" => Covers(toPrimary'[v], r, aggregate'[v], Needed(r, v))
  <1> SUFFICES ASSUME NEW r \in Renders, NEW v \in Workers
               PROVE  /\ aggregate'[v] >= aggregate[v]
                      /\ proc[v] # "gone" => Covers(toPrimary'[v], r, aggregate'[v], Needed(r, v))
    OBVIOUS
  <1>1. /\ aggregate[v] \in Nat /\ toPrimary[v] \in Seq(Message) /\ Needed(r, v) \in Nat
        /\ proc[v] # "gone" => Covers(toPrimary[v], r, aggregate[v], Needed(r, v))
    BY AccountTypes, NeededType DEF CoveredInv
  <1>2. EventsIn(Head(toPrimary[w])) \in Nat
    BY HeadFacts, EventsInNat DEF TypeOK
  <1>3. toPrimary'[v] = IF v = w THEN Tail(toPrimary[w]) ELSE toPrimary[v]
    BY DEF Take, TypeOK, MetricsTypeOK
  <1>4. CASE v = w
    <2>1. proc[v] # "gone" =>
             Covers(Tail(toPrimary[v]), r, aggregate[v] + EventsIn(Head(toPrimary[v])), Needed(r, v))
      BY <1>1, <1>4, CoversTail
    <2> QED
      BY <1>1, <1>2, <1>3, <1>4, <2>1
  <1>5. CASE v # w
    BY <1>1, <1>3, <1>5
  <1> QED
    BY <1>4, <1>5

\* Reading a channel mentions no render that has not begun.
LEMMA TakenFresh ==
    ASSUME TypeOK, FreshInv, NEW w \in Workers, toPrimary[w] # <<>>, Take(w), UNCHANGED render,
           NEW r \in Renders, render'[r] = "new"
    PROVE  /\ response[r] = None /\ r \notin collecting
           /\ Head(toPrimary[w]).type # "batch" => Head(toPrimary[w]).id # r
           /\ \A v \in Workers : <<v, r>> \notin flushAsked /\ ~Mentions(toPrimary'[v], r)
  <1>1. /\ response[r] = None /\ r \notin collecting
        /\ \A v \in Workers : <<v, r>> \notin flushAsked /\ ~Mentions(toPrimary[v], r)
    BY DEF FreshInv
  <1>2. \A v \in Workers : toPrimary'[v] = IF v = w THEN Tail(toPrimary[w]) ELSE toPrimary[v]
    BY DEF Take, TypeOK, MetricsTypeOK
  <1>3. toPrimary[w] \in Seq(Message)
    BY DEF TypeOK, MetricsTypeOK
  <1>4. ~Mentions(Tail(toPrimary[w]), r)
    BY <1>1, <1>3, MentionsFacts
  <1>5. Head(toPrimary[w]).type # "batch" => Head(toPrimary[w]).id # r
    <2>1. Head(toPrimary[w]).type # "batch" => Mentions(toPrimary[w], Head(toPrimary[w]).id)
      BY <1>3, MentionsFacts
    <2> QED
      BY <1>1, <2>1
  <1> QED
    BY <1>1, <1>2, <1>4, <1>5

\* A batch keeps the answers complete.
LEMMA BatchAnswers ==
    ASSUME TypeOK, AnswerInv, NEW w \in Workers, HandleBatch(w)
    PROVE  AnswerInv'
  <1> USE DEF processVars, collectorVars, renderVars
  <1>1. /\ toPrimary[w] # <<>> /\ Take(w) /\ Head(toPrimary[w]).type = "batch"
        /\ aggregate' = [aggregate EXCEPT ![w] = @ + Head(toPrimary[w]).count]
        /\ UNCHANGED <<proc, recorded, before, render, response, flushAsked, collecting, awaiting, partial>>
    BY DEF HandleBatch
  <1>2. \A v \in Workers : aggregate'[v] = IF v = w THEN aggregate[w] + EventsIn(Head(toPrimary[w]))
                                           ELSE aggregate[v]
    BY <1>1 DEF TypeOK, Snapshot, EventsIn
  <1>3. \A r \in Renders, v \in Workers :
           /\ aggregate'[v] >= aggregate[v]
           /\ proc[v] # "gone" => Covers(toPrimary'[v], r, aggregate'[v], Needed(r, v))
    BY <1>1, <1>2, TakenCovered DEF AnswerInv
  <1>4. FreshInv'
    BY <1>1, TakenFresh DEF AnswerInv, FreshInv
  <1>5. AnswersComplete'
    BY <1>1 DEF AnswerInv, AnswersComplete
  <1>6. CoveredInv'
    <2> SUFFICES ASSUME NEW r \in Renders, NEW v \in Workers
                 PROVE  /\ Needed(r, v)' <= recorded'[v]
                        /\ proc'[v] # "gone" =>
                              /\ (r \in collecting' /\ v \notin awaiting'[r]) =>
                                    aggregate'[v] >= Needed(r, v)'
                              /\ Covers(toPrimary'[v], r, aggregate'[v], Needed(r, v)')
      BY DEF CoveredInv
    <2>1. Needed(r, v)' = Needed(r, v) /\ Needed(r, v) \in Nat /\ aggregate[v] \in Nat
      BY <1>1, NeededType, AccountTypes DEF Needed
    <2>2. aggregate'[v] \in Nat
      <3>1. EventsIn(Head(toPrimary[w])) \in Nat
        BY <1>1, HeadFacts, EventsInNat DEF TypeOK
      <3> QED
        BY <1>2, <2>1, <3>1
    <2>3. /\ Needed(r, v) <= recorded[v]
          /\ proc[v] # "gone" /\ r \in collecting /\ v \notin awaiting[r] => aggregate[v] >= Needed(r, v)
      BY DEF AnswerInv, CoveredInv
    <2> QED
      BY <1>1, <1>3, <2>1, <2>2, <2>3
  <1> QED
    BY <1>4, <1>5, <1>6 DEF AnswerInv

\* A worker that is not asked to flush is gone or has never run, so that there
\* was nothing to wait for.
LEMMA NotAskedCovered ==
    ASSUME TypeOK, LifeInv, QuietInv, CoveredInv, NEW r \in Renders, NEW v \in Workers,
           proc[v] # "gone", v \notin Asked
    PROVE  aggregate[v] >= Needed(r, v)
  <1>1. v \in Nat /\ nextId \in Nat
    BY ClusterAssumption DEF Workers, TypeOK
  <1>2. proc[v] = "none"
    BY <1>1 DEF LifeInv, Asked, Alive
  <1>3. recorded[v] = 0
    BY <1>2 DEF QuietInv, Quiet
  <1>4. Needed(r, v) <= recorded[v] /\ Needed(r, v) \in Nat /\ aggregate[v] \in Nat
    BY NeededType, AccountTypes DEF CoveredInv
  <1> QED
    BY <1>3, <1>4

\* A snapshot request keeps the answers complete.
LEMMA RequestAnswers ==
    ASSUME TypeOK, LifeInv, QuietInv, AnswerInv, NEW w \in Workers, HandleSnapshotRequest(w)
    PROVE  AnswerInv'
  <1> USE DEF processVars, collectorVars, renderVars
  <1> DEFINE q == Head(toPrimary[w]).id
  <1>1. /\ toPrimary[w] # <<>> /\ Take(w) /\ Head(toPrimary[w]).type = "request"
        /\ UNCHANGED <<proc, recorded, before, render, aggregate, partial>>
    BY DEF HandleSnapshotRequest
  <1>2. q \in Renders
    BY <1>1, HeadFacts DEF TypeOK
  <1>3. \/ /\ Asked = {}
           /\ response' = [response EXCEPT ![q] = IF connected[w] THEN aggregate ELSE @]
           /\ UNCHANGED <<collecting, awaiting, flushAsked>>
        \/ /\ Asked # {}
           /\ collecting' = collecting \union {q}
           /\ awaiting' = [awaiting EXCEPT ![q] = Asked]
           /\ flushAsked' = flushAsked \union {<<v, q>> : v \in {v \in Asked : Alive(v)}}
           /\ UNCHANGED response
    BY RequestEffect
  <1>4. FreshInv /\ CoveredInv /\ AnswersComplete
    BY DEF AnswerInv
  <1>5. ASSUME NEW r \in Renders, render'[r] = "new"
        PROVE  /\ response[r] = None /\ r \notin collecting /\ q # r
               /\ \A v \in Workers : <<v, r>> \notin flushAsked /\ ~Mentions(toPrimary'[v], r)
    BY <1>1, <1>4, <1>5, TakenFresh
  <1>6. \A r \in Renders, v \in Workers :
           /\ aggregate[v] \in Nat /\ Needed(r, v) \in Nat /\ Needed(r, v)' = Needed(r, v)
           /\ Needed(r, v) <= recorded[v]
           /\ proc[v] # "gone" => /\ Covers(toPrimary'[v], r, aggregate[v], Needed(r, v))
                                  /\ v \notin Asked => aggregate[v] >= Needed(r, v)
                                  /\ r \in collecting /\ v \notin awaiting[r] =>
                                        aggregate[v] >= Needed(r, v)
    <2> SUFFICES ASSUME NEW r \in Renders, NEW v \in Workers
                 PROVE  /\ aggregate[v] \in Nat /\ Needed(r, v) \in Nat /\ Needed(r, v)' = Needed(r, v)
                        /\ Needed(r, v) <= recorded[v]
                        /\ proc[v] # "gone" => /\ Covers(toPrimary'[v], r, aggregate[v], Needed(r, v))
                                               /\ v \notin Asked => aggregate[v] >= Needed(r, v)
                                               /\ r \in collecting /\ v \notin awaiting[r] =>
                                                     aggregate[v] >= Needed(r, v)
      OBVIOUS
    <2>1. aggregate[v] \in Nat /\ Needed(r, v) \in Nat /\ Needed(r, v)' = Needed(r, v)
      BY <1>1, NeededType, AccountTypes DEF Needed
    <2>2. \A u \in Workers : aggregate'[u] = IF u = w THEN aggregate[w] + EventsIn(Head(toPrimary[w]))
                                             ELSE aggregate[u]
      <3>1. EventsIn(Head(toPrimary[w])) = 0
        BY <1>1 DEF EventsIn
      <3>2. aggregate[w] \in Nat
        BY AccountTypes
      <3> QED
        BY <1>1, <3>1, <3>2
    <2>3. proc[v] # "gone" => Covers(toPrimary'[v], r, aggregate'[v], Needed(r, v))
      BY <1>1, <1>4, <2>2, TakenCovered
    <2> QED
      BY <1>1, <1>4, <2>1, <2>3, NotAskedCovered DEF CoveredInv
  <1> HIDE DEF q
  <1>7. CASE /\ Asked = {}
             /\ response' = [response EXCEPT ![q] = IF connected[w] THEN aggregate ELSE @]
             /\ UNCHANGED <<collecting, awaiting, flushAsked>>
    <2>1. \A r \in Renders : response'[r] = IF r = q /\ connected[w] THEN aggregate ELSE response[r]
      BY <1>2, <1>7 DEF TypeOK, MetricsTypeOK
    <2>2. FreshInv'
      BY <1>5, <1>7, <2>1 DEF FreshInv
    <2>3. CoveredInv'
      BY <1>1, <1>6, <1>7 DEF CoveredInv
    <2>4. AnswersComplete'
      BY <1>1, <1>4, <1>6, <1>7, <2>1 DEF AnswersComplete, Needed
    <2> QED
      BY <2>2, <2>3, <2>4 DEF AnswerInv
  <1>8. CASE /\ collecting' = collecting \union {q}
             /\ awaiting' = [awaiting EXCEPT ![q] = Asked]
             /\ flushAsked' = flushAsked \union {<<v, q>> : v \in {v \in Asked : Alive(v)}}
             /\ UNCHANGED response
    <2>1. \A r \in Renders : awaiting'[r] = IF r = q THEN Asked ELSE awaiting[r]
      BY <1>2, <1>8 DEF TypeOK
    <2>2. FreshInv'
      BY <1>5, <1>8 DEF FreshInv
    <2>3. CoveredInv'
      BY <1>1, <1>6, <1>8, <2>1 DEF CoveredInv
    <2>4. AnswersComplete'
      BY <1>1, <1>4, <1>8 DEF AnswersComplete
    <2> QED
      BY <2>2, <2>3, <2>4 DEF AnswerInv
  <1> QED
    BY <1>3, <1>7, <1>8

\* Completed collections answer with everything that was needed: a collection
\* that waits for nobody but w ends when the totals have what w had recorded,
\* or when w is gone.
LEMMA CompleteAnswers ==
    ASSUME TypeOK, AnswerInv, NEW w \in Workers, NEW requests \in SUBSET collecting,
           StopAwaiting(w, requests),
           proc[w] # "gone" => \A r \in requests : aggregate[w] >= Needed(r, w),
           UNCHANGED <<before, aggregate, partial>>,
           \A v \in Workers : proc'[v] # "gone" => proc[v] # "gone"
    PROVE  /\ AnswersComplete'
           /\ \A r \in Renders : render[r] = "new" => response'[r] = None /\ r \notin collecting'
           /\ \A r \in Renders, v \in Workers :
                 (proc[v] # "gone" /\ r \in collecting' /\ v \notin awaiting'[r]) =>
                    aggregate[v] >= Needed(r, v)
  <1> DEFINE done == {r \in requests : awaiting[r] \subseteq {w}}
  <1>1. FreshInv /\ CoveredInv /\ AnswersComplete
    BY DEF AnswerInv
  <1>2. collecting \subseteq Renders
    BY DEF TypeOK
  <1>3. /\ collecting' = collecting \ done
        /\ \A r \in Renders : response'[r] = IF r \in done /\ connected[renderer[r]] THEN aggregate
                                             ELSE response[r]
        /\ \A r \in Renders : awaiting'[r] = IF r \in requests THEN awaiting[r] \ {w} ELSE awaiting[r]
    BY DEF StopAwaiting, CompleteSnapshots
  <1>4. ASSUME NEW r \in Renders, NEW v \in Workers, proc[v] # "gone",
               r \in requests, v = w \/ v \notin awaiting[r]
        PROVE  aggregate[v] >= Needed(r, v)
    BY <1>1, <1>4 DEF CoveredInv
  <1>5. AnswersComplete'
    <2> SUFFICES ASSUME NEW r \in Renders, r \notin partial, NEW v \in Workers,
                        response'[r] # None, proc'[v] # "gone"
                 PROVE  response'[r][v] >= before[r].recorded[v]
      BY DEF AnswersComplete
    <2>1. CASE r \in done /\ connected[renderer[r]]
      <3>1. r \in requests /\ (v = w \/ v \notin awaiting[r]) /\ response'[r] = aggregate
        BY <1>3, <2>1
      <3> QED
        BY <1>4, <3>1 DEF Needed
    <2>2. CASE ~(r \in done /\ connected[renderer[r]])
      <3>1. response'[r] = response[r]
        BY <1>3, <2>2
      <3> QED
        BY <1>1, <3>1 DEF AnswersComplete
    <2> QED
      BY <2>1, <2>2
  <1>6. \A r \in Renders : render[r] = "new" => response'[r] = None /\ r \notin collecting'
    <2>1. \A r \in Renders : render[r] = "new" => response[r] = None /\ r \notin collecting
      BY <1>1 DEF FreshInv
    <2> QED
      BY <1>3, <2>1
  <1>7. ASSUME NEW r \in Renders, NEW v \in Workers,
               proc[v] # "gone", r \in collecting', v \notin awaiting'[r]
        PROVE  aggregate[v] >= Needed(r, v)
    <2>1. r \in collecting /\ (r \in requests => v = w \/ v \notin awaiting[r])
          /\ (r \notin requests => v \notin awaiting[r])
      BY <1>3, <1>7
    <2> QED
      BY <1>1, <1>4, <1>7, <2>1 DEF CoveredInv
  <1> QED
    BY <1>5, <1>6, <1>7

\* An acknowledgement keeps the answers complete.
LEMMA FlushAnswers ==
    ASSUME TypeOK, AnswerInv, NEW w \in Workers, HandleFlushResponse(w)
    PROVE  AnswerInv'
  <1> USE DEF processVars, collectorVars, renderVars
  <1> DEFINE q == Head(toPrimary[w]).id
             requests == {q} \intersect collecting
  <1>1. /\ toPrimary[w] # <<>> /\ Take(w) /\ Head(toPrimary[w]).type = "flushed"
        /\ StopAwaiting(w, requests)
        /\ UNCHANGED <<proc, recorded, before, render, aggregate, partial, flushAsked>>
    BY DEF HandleFlushResponse
  <1>2. FreshInv /\ CoveredInv /\ AnswersComplete
    BY DEF AnswerInv
  <1>3. Head(toPrimary[w]) \in Message
    BY <1>1, HeadFacts DEF TypeOK
  <1>4. q \in Renders /\ Head(toPrimary[w]) = Flushed(q)
    BY <1>1, <1>3 DEF Message, Flushed
  <1>5. \A u \in Workers : aggregate'[u] = IF u = w THEN aggregate[w] + EventsIn(Head(toPrimary[w]))
                                           ELSE aggregate[u]
    <2>1. EventsIn(Head(toPrimary[w])) = 0
      BY <1>1 DEF EventsIn
    <2>2. aggregate[w] \in Nat
      BY AccountTypes
    <2> QED
      BY <1>1, <2>1, <2>2
  <1>6. requests \in SUBSET collecting
    OBVIOUS
  <1>7. proc[w] # "gone" => \A r \in requests : aggregate[w] >= Needed(r, w)
    <2> SUFFICES ASSUME proc[w] # "gone" PROVE aggregate[w] >= Needed(q, w)
      OBVIOUS
    <2> HIDE DEF q
    <2>1. /\ Covers(toPrimary[w], q, aggregate[w], Needed(q, w))
          /\ toPrimary[w] \in Seq(Message) /\ aggregate[w] \in Nat /\ Needed(q, w) \in Nat
      BY <1>2, <1>4, AccountTypes, NeededType DEF CoveredInv
    <2> QED
      BY <1>1, <1>4, <2>1, CoversHead
  <1> HIDE DEF q, requests
  <1>8. /\ AnswersComplete'
        /\ \A r \in Renders : render[r] = "new" => response'[r] = None /\ r \notin collecting'
        /\ \A r \in Renders, v \in Workers :
              (proc[v] # "gone" /\ r \in collecting' /\ v \notin awaiting'[r]) =>
                 aggregate[v] >= Needed(r, v)
    BY <1>1, <1>6, <1>7, CompleteAnswers
  <1>9. \A r \in Renders, v \in Workers :
           proc[v] # "gone" => Covers(toPrimary'[v], r, aggregate'[v], Needed(r, v))
    BY <1>1, <1>2, <1>5, TakenCovered
  <1>10. FreshInv'
    <2>1. \A r \in Renders : render'[r] = "new" =>
             \A v \in Workers : <<v, r>> \notin flushAsked /\ ~Mentions(toPrimary'[v], r)
      BY <1>1, <1>2, TakenFresh
    <2> QED
      BY <1>1, <1>8, <2>1 DEF FreshInv
  <1>11. CoveredInv'
    <2>1. \A r \in Renders, v \in Workers : Needed(r, v)' = Needed(r, v) /\ Needed(r, v) <= recorded[v]
      BY <1>1, <1>2 DEF Needed, CoveredInv
    <2> QED
      BY <1>1, <1>8, <1>9, <2>1 DEF CoveredInv
  <1> QED
    BY <1>8, <1>10, <1>11 DEF AnswerInv

\* The exit of a worker ends the wait for it; the new worker has recorded
\* nothing that a running scrape could miss.
LEMMA ExitAnswers ==
    ASSUME TypeOK, LifeInv, AnswerInv, NEW w \in Workers, WorkerExit(w)
    PROVE  AnswerInv'
  <1> USE DEF processVars, collectorVars, renderVars
  <1>1. /\ proc[w] = "gone" /\ StopAwaiting(w, collecting)
        /\ UNCHANGED <<recorded, before, render, aggregate, partial, flushAsked, toPrimary>>
    BY DEF WorkerExit
  <1>2. \A v \in Workers : proc'[v] # "gone" => proc[v] # "gone"
    <2>1. CASE shuttingDown
      BY <2>1 DEF WorkerExit, Refork
    <2>2. CASE ~shuttingDown
      <3>1. nextId <= MaxForks /\ proc' = [proc EXCEPT ![nextId] = "starting"]
        BY <2>2 DEF WorkerExit, Refork, Become
      <3>2. nextId \in Workers
        BY <3>1, ClusterAssumption DEF TypeOK, Workers
      <3>3. proc[nextId] = "none"
        BY <3>2 DEF LifeInv, Workers
      <3> QED
        BY <3>1, <3>2, <3>3 DEF TypeOK, MetricsTypeOK
    <2> QED
      BY <2>1, <2>2
  <1>3. FreshInv /\ CoveredInv /\ AnswersComplete
    BY DEF AnswerInv
  <1>4. /\ AnswersComplete'
        /\ \A r \in Renders : render[r] = "new" => response'[r] = None /\ r \notin collecting'
        /\ \A r \in Renders, v \in Workers :
              (proc[v] # "gone" /\ r \in collecting' /\ v \notin awaiting'[r]) =>
                 aggregate[v] >= Needed(r, v)
    BY <1>1, <1>2, CompleteAnswers
  <1>5. FreshInv'
    BY <1>1, <1>3, <1>4 DEF FreshInv
  <1>6. CoveredInv'
    <2>1. \A r \in Renders, v \in Workers : Needed(r, v)' = Needed(r, v)
      BY <1>1 DEF Needed
    <2> QED
      BY <1>1, <1>2, <1>3, <1>4, <2>1 DEF CoveredInv
  <1> QED
    BY <1>4, <1>5, <1>6 DEF AnswerInv

\* Steps that change no channel, count or process keep the answers complete.
LEMMA FrameAnswers ==
    ASSUME AnswerInv, collecting' \subseteq collecting, partial \subseteq partial',
           \A r \in Renders : render'[r] = "new" => render[r] = "new" /\ response'[r] = response[r],
           \A r \in Renders : r \notin partial' => response'[r] = response[r],
           UNCHANGED <<proc, recorded, before, aggregate, flushAsked, toPrimary, awaiting>>
    PROVE  AnswerInv'
  <1>1. FreshInv'
    BY DEF AnswerInv, FreshInv
  <1>2. CoveredInv'
    BY DEF AnswerInv, CoveredInv, Needed
  <1>3. AnswersComplete'
    BY DEF AnswerInv, AnswersComplete
  <1> QED
    BY <1>1, <1>2, <1>3 DEF AnswerInv

\* Every step keeps the answers complete.
LEMMA AnswersStep ==
    ASSUME TypeOK, LifeInv, QuietInv, EventsConserved, AnswerInv, [Next]_vars
    PROVE  AnswerInv'
  <1> USE DEF processVars, collectorVars, renderVars, primarySide, workerSide
  <1>1. ASSUME NEW w \in Workers, UNCHANGED primarySide,
               WorkerStep(w) \/ Die(w) \/ StartFails(w) \/ StraySignal(w)
        PROVE  AnswerInv'
    <2>1. FreshInv /\ CoveredInv /\ AnswersComplete
      BY DEF AnswerInv
    <2>2. UNCHANGED <<collecting, awaiting, aggregate, partial>>
      BY <1>1
    <2>3. FreshInv'
      BY <1>1, <2>1, <2>2, WorkerFresh
    <2>4. CoveredInv'
      BY <1>1, <2>1, <2>2, WorkerCovered
    <2>5. AnswersComplete'
      BY <1>1, <2>1, <2>2, WorkerAnswers
    <2> QED
      BY <2>3, <2>4, <2>5 DEF AnswerInv
  <1>2. ASSUME NEW w \in Workers, Work(w) PROVE AnswerInv'
    BY <1>1, <1>2 DEF Work
  <1>3. ASSUME NEW w \in Workers, Receive(w) PROVE AnswerInv'
    BY <1>3, BatchAnswers, RequestAnswers, FlushAnswers DEF Receive
  <1>4. ASSUME NEW w \in Workers, WorkerDisconnect(w) PROVE AnswerInv'
    BY <1>4, FrameAnswers DEF WorkerDisconnect
  <1>5. ASSUME NEW w \in Workers, WorkerExit(w) PROVE AnswerInv'
    BY <1>5, ExitAnswers
  <1>6. ASSUME NEW r \in Renders, Expire(r) PROVE AnswerInv'
    <2>1. /\ \A q \in Renders : render'[q] = "new" => render[q] = "new"
          /\ UNCHANGED <<proc, recorded, before, aggregate, flushAsked, toPrimary, awaiting, collecting,
                         partial, response>>
      BY <1>6 DEF Expire, RenderTimeout, Resolve, TypeOK, MetricsTypeOK
    <2> QED
      BY <2>1, FrameAnswers
  <1>7. ASSUME NEW r \in Renders, SnapshotTimeout(r) PROVE AnswerInv'
    <2>1. /\ r \in collecting /\ collecting' = collecting \ {r} /\ partial' = partial \union {r}
          /\ \A q \in Renders : q # r => response'[q] = response[q]
          /\ UNCHANGED <<proc, recorded, before, aggregate, flushAsked, toPrimary, awaiting, render>>
      BY <1>7 DEF SnapshotTimeout, CompleteSnapshots
    <2>2. render[r] # "new"
      BY <2>1 DEF AnswerInv, FreshInv
    <2>3. \A q \in Renders : render'[q] = "new" => render[q] = "new" /\ response'[q] = response[q]
      BY <2>1, <2>2
    <2> QED
      BY <2>1, <2>3, FrameAnswers
  <1>8. CASE Shutdown
    BY <1>8, FrameAnswers DEF Shutdown
  <1>9. CASE ForceShutdown
    BY <1>9, FrameAnswers DEF ForceShutdown
  <1>10. CASE Fault
    BY <1>1, <1>10 DEF Fault
  <1>11. CASE UNCHANGED vars
    BY <1>11, FrameAnswers DEF vars
  <1> QED
    BY <1>2, <1>3, <1>4, <1>5, <1>6, <1>7, <1>8, <1>9, <1>10, <1>11 DEF Next, Supervise

\* An answer that did not hit the primary's time limit contains every event a
\* still running worker had recorded when the scrape began, whoever exited or
\* was forked meanwhile: AnswersComplete holds for any number of workers,
\* scrapes and events.
THEOREM FlushBeforeAnswer == Spec => []AnswersComplete
<1>1. Init => AnswerInv
  <2> SUFFICES ASSUME Init PROVE AnswerInv
    OBVIOUS
  <2>1. /\ \A r \in Renders : response[r] = None /\ collecting = {} /\ flushAsked = {}
        /\ \A w \in Workers : toPrimary[w] = <<>> /\ recorded[w] = 0 /\ aggregate[w] = 0
        /\ \A r \in Renders, w \in Workers : Needed(r, w) = 0
    BY DEF Init, MetricsInit, EmptySnapshot, Needed
  <2>2. \A w \in Workers : 1..Len(toPrimary[w]) = {}
    BY <2>1
  <2>3. FreshInv
    BY <2>1, <2>2 DEF FreshInv, Mentions
  <2>4. CoveredInv
    BY <2>1, <2>2 DEF CoveredInv, Covers
  <2>5. AnswersComplete
    BY <2>1 DEF AnswersComplete
  <2> QED
    BY <2>3, <2>4, <2>5 DEF AnswerInv
<1>2. TypeOK /\ LifeInv /\ QuietInv /\ EventsConserved /\ AnswerInv /\ [Next]_vars => AnswerInv'
  BY AnswersStep
<1>3. AnswerInv => AnswersComplete
  BY DEF AnswerInv
<1> QED
  BY <1>1, <1>2, <1>3, TypeCorrect, LifeCorrect, AccountsCorrect, PTL DEF Spec
=============================================================================
