-------------------------- MODULE MetricsCollectors --------------------------
(***************************************************************************)
(* The two implementations of MetricsCollector side by side on the same    *)
(* events: Metrics, which a single process uses, and ClusterMetrics, whose *)
(* workers batch what they count for the aggregator of the primary.        *)
(***************************************************************************)
EXTENDS Metrics, FiniteSets

CONSTANTS
    Workers,    \* worker processes
    Durations,  \* durations handed to request, in the unit of Bounds
    Values,     \* values handed to increment
    MaxCalls    \* calls of the collectors

ASSUME CollectorsAssumption ==
    /\ IsFiniteSet(Workers)
    /\ Durations \subseteq Int /\ Values \subseteq Int
    /\ MaxCalls \in Nat

VARIABLES
    single,     \* Metrics.#snapshot
    pending,    \* ClusterMetrics.#pendingSnapshot of each worker
    aggregate,  \* MetricsAggregator.#snapshot
    calls,
    observed    \* history: the accepted requests, as <<series, duration>> pairs

vars == <<single, pending, aggregate, calls, observed>>

TypeOK ==
    /\ \A s \in {single, aggregate} \union {pending[w] : w \in Workers} :
          /\ s.totals \in [Totals -> Nat]
          /\ DOMAIN s.counters \subseteq ValidNames
          /\ \A n \in DOMAIN s.counters : s.counters[n] \in Nat
          /\ DOMAIN s.http \subseteq Series
    /\ calls \in 0..MaxCalls
    /\ observed \in Seq(ValidSeries \X Durations)

Init ==
    /\ single = EmptyMetrics
    /\ pending = [w \in Workers |-> EmptyMetrics]
    /\ aggregate = EmptyMetrics
    /\ calls = 0
    /\ observed = <<>>

Call == calls < MaxCalls /\ calls' = calls + 1

-----------------------------------------------------------------------------
\* Metrics.request finds or creates the series and observes the duration.
SingleRequest(k, seconds) ==
    LET series == At(single.http, k, EmptySeries)
    IN single' = [single EXCEPT !.http = With(@, k,
            [requests |-> series.requests + 1,
             duration |-> ObserveDuration(series.duration, seconds)])]

\* ClusterMetrics.request merges a snapshot of one request.
WorkerRequest(w, k, seconds) ==
    pending' = [pending EXCEPT ![w] = AddMetricsSnapshot(@,
        [EmptyMetrics EXCEPT !.http = With(<<>>, k,
            [requests |-> 1, duration |-> OneRequest(seconds)])])]

\* (Deliberate fault: the collector of a worker does not test its arguments.)
RequestUnchecked(w, k, seconds) ==
    /\ Call
    /\ IF AcceptsRequest(k, seconds)
       THEN SingleRequest(k, seconds) /\ observed' = Append(observed, <<k, seconds>>)
       ELSE UNCHANGED <<single, observed>>
    /\ WorkerRequest(w, k, seconds)
    /\ UNCHANGED aggregate

Request(w, k, seconds) ==
    /\ Call
    /\ IF AcceptsRequest(k, seconds)
       THEN /\ SingleRequest(k, seconds)
            /\ WorkerRequest(w, k, seconds)
            /\ observed' = Append(observed, <<k, seconds>>)
       ELSE UNCHANGED <<single, pending, observed>>
    /\ UNCHANGED aggregate

\* created, redirect, miss.
Count(w, t) ==
    /\ Call
    /\ single' = [single EXCEPT !.totals[t] = @ + 1]
    /\ pending' = [pending EXCEPT ![w].totals[t] = @ + 1]
    /\ UNCHANGED <<aggregate, observed>>

Increment(w, name, value) ==
    /\ Call
    /\ single' = AddCounter(single, name, value)
    /\ pending' = [pending EXCEPT ![w] = AddCounter(@, name, value)]
    /\ UNCHANGED <<aggregate, observed>>

\* flush, and the primary's handler of the batch: a batch that does not
\* validate is ignored.
Flush(w) ==
    /\ ~IsEmptySnapshot(pending[w])
    /\ aggregate' = IF IsMetricsSnapshot(pending[w])
                    THEN AddMetricsSnapshot(aggregate, pending[w]) ELSE aggregate
    /\ pending' = [pending EXCEPT ![w] = EmptyMetrics]
    /\ UNCHANGED <<single, calls, observed>>

Next ==
    \E w \in Workers :
        \/ \E k \in Series, seconds \in Durations : Request(w, k, seconds)
        \/ \E t \in Totals : Count(w, t)
        \/ \E name \in Names, value \in Values : Increment(w, name, value)
        \/ Flush(w)

Spec == Init /\ [][Next]_vars

-----------------------------------------------------------------------------
\* A duration of exactly 0 is in the first bucket of Metrics (metrics.ts:220) and
\* in no bucket of ClusterMetrics (cluster-metrics.ts:359), which counts it all
\* the same: what a cluster misses of the requests it was given.
Zeros(k, requests) == {i \in DOMAIN requests : requests[i] = <<k, 0>>}

Unbucketed(n) ==
    [requests |-> 0,
     duration |-> [buckets |-> [i \in Buckets |-> IF i = 1 THEN n ELSE 0], sum |-> 0, count |-> 0]]

MissedBy(requests) ==
    [EmptyMetrics EXCEPT !.http =
        [k \in {k \in ValidSeries : Zeros(k, requests) # {}} |->
            Unbucketed(Cardinality(Zeros(k, requests)))]]

\* The primary's totals, what the workers have yet to send and the first-bucket
\* entries of requests that took no time add up to what a single process would
\* have counted, whoever counted and whenever it was flushed: no series is
\* dropped, counted twice or put in another bucket, and nothing else differs.
CollectorsAgree ==
    LET all[S \in SUBSET Workers] ==
            IF S = {} THEN aggregate
            ELSE LET w == CHOOSE w \in S : TRUE
                 IN AddMetricsSnapshot(all[S \ {w}], pending[w])
    IN AddMetricsSnapshot(all[Workers], MissedBy(observed)) = single

\* What the exposition says of a series: the bucket of a bound holds the
\* requests that took no longer than the bound, and +Inf all of them.
ExpositionCounts ==
    \A k \in DOMAIN single.http :
        LET took(limit) == {i \in DOMAIN observed : observed[i][1] = k /\ observed[i][2] <= limit}
            d == single.http[k].duration
        IN /\ \A i \in Buckets : CumulativeBuckets(d)[i] = Cardinality(took(Bounds[i]))
           /\ d.count = Cardinality({i \in DOMAIN observed : observed[i][1] = k})
           /\ single.http[k].requests = d.count

\* Whatever is recorded, the primary's validators let the batch in: one bad
\* argument never costs the rest of a batch.
BatchesAccepted == \A w \in Workers : IsMetricsSnapshot(pending[w])

\* The collectors hold snapshots of the right form, which the primary accepts
\* (cluster-metrics.ts:50).
SnapshotsValid == TypeOK /\ BatchesAccepted
=============================================================================
