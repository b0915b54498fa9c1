------------------------------- MODULE Metrics -------------------------------
(***************************************************************************)
(* Metric snapshots and what is done with them (src/src/metrics.ts and the *)
(* validators of src/src/cluster-metrics.ts): observe a duration, count,   *)
(* merge, validate, render.  Durations and bucket bounds are integers, in  *)
(* a unit of their own; a series stands for method, route and status code. *)
(***************************************************************************)
EXTENDS Integers, Sequences, Functions

CONSTANTS
    Bounds,         \* REQUEST_DURATION_BUCKETS, ascending
    Series,         \* label combinations handed to request
    ValidSeries,    \* those with a method, a route and a status in 100..599
    Names,          \* counter names handed to increment
    ValidNames      \* those that match COUNTER_NAME_PATTERN

ASSUME MetricsAssumption ==
    /\ Bounds \in Seq(Nat \ {0}) /\ Bounds # <<>>
    /\ \A i, j \in DOMAIN Bounds : i < j => Bounds[i] < Bounds[j]
    /\ ValidSeries \subseteq Series
    /\ ValidNames \subseteq Names

Buckets == DOMAIN Bounds

Totals == {"created", "redirects", "misses"}

EmptyDuration == [buckets |-> [i \in Buckets |-> 0], sum |-> 0, count |-> 0]

\* createHttpSeries
EmptySeries == [requests |-> 0, duration |-> EmptyDuration]

\* A series and a counter are in a snapshot once they have been counted.
EmptyMetrics == [totals |-> [t \in Totals |-> 0], http |-> <<>>, counters |-> <<>>]

IsEmptySnapshot(s) ==
    s.totals = EmptyMetrics.totals /\ DOMAIN s.http = {} /\ DOMAIN s.counters = {}

At(f, x, default) == IF x \in DOMAIN f THEN f[x] ELSE default

With(f, x, y) == [z \in DOMAIN f \union {x} |-> IF z = x THEN y ELSE f[z]]

-----------------------------------------------------------------------------
\* observeDuration: the first bucket whose bound is not exceeded, if any.
\* (Deliberate fault: every such bucket, as in an exposition.)
ObserveDurationCumulative(d, seconds) ==
    [buckets |-> [i \in Buckets |-> d.buckets[i] + IF seconds <= Bounds[i] THEN 1 ELSE 0],
     sum |-> d.sum + seconds,
     count |-> d.count + 1]

ObserveDuration(d, seconds) ==
    LET fits == {i \in Buckets : seconds <= Bounds[i]}
        hit(i) == i \in fits /\ \A j \in fits : i <= j
    IN [buckets |-> [i \in Buckets |-> d.buckets[i] + IF hit(i) THEN 1 ELSE 0],
        sum |-> d.sum + seconds,
        count |-> d.count + 1]

\* The one-request histogram ClusterMetrics.request builds: the bucket between
\* whose bounds the duration lies.
OneRequest(seconds) ==
    [buckets |-> [i \in Buckets |->
        IF seconds <= Bounds[i] /\ seconds > (IF i = 1 THEN 0 ELSE Bounds[i - 1]) THEN 1 ELSE 0],
     sum |-> seconds,
     count |-> 1]

AddRequestDuration(d, e) ==
    [buckets |-> [i \in Buckets |-> d.buckets[i] + e.buckets[i]],
     sum |-> d.sum + e.sum,
     count |-> d.count + e.count]

\* addCounter ignores a name that does not match and a value that is not positive.
\* (Deliberate fault: the name is not tested.)
AddCounterAnyName(s, name, value) ==
    IF value <= 0 THEN s ELSE [s EXCEPT !.counters = With(@, name, At(@, name, 0) + value)]

AddCounter(s, name, value) ==
    IF name \notin ValidNames \/ value <= 0 THEN s
    ELSE [s EXCEPT !.counters = With(@, name, At(@, name, 0) + value)]

\* addMetricsSnapshot: totals and counters add up, series merge by their key.
\* (Deliberate fault: a series already there is replaced.)
AddMetricsSnapshotReplaces(s, t) ==
    [totals |-> [k \in Totals |-> s.totals[k] + t.totals[k]],
     counters |-> [n \in DOMAIN s.counters \union DOMAIN t.counters |->
        At(s.counters, n, 0) + At(t.counters, n, 0)],
     http |-> [k \in DOMAIN s.http \union DOMAIN t.http |-> At(t.http, k, At(s.http, k, EmptySeries))]]

AddMetricsSnapshot(s, t) ==
    [totals |-> [k \in Totals |-> s.totals[k] + t.totals[k]],
     counters |-> [n \in DOMAIN s.counters \union DOMAIN t.counters |->
        At(s.counters, n, 0) + At(t.counters, n, 0)],
     http |-> [k \in DOMAIN s.http \union DOMAIN t.http |->
        LET a == At(s.http, k, EmptySeries)
            b == At(t.http, k, EmptySeries)
        IN [requests |-> a.requests + b.requests,
            duration |-> AddRequestDuration(a.duration, b.duration)]]]

\* The guard both collectors put before a request is counted.
AcceptsRequest(series, seconds) == series \in ValidSeries /\ seconds >= 0

\* isMetricsSnapshot and the validators below it: what the primary lets in.
IsMetricsSnapshot(s) ==
    /\ \A t \in Totals : s.totals[t] >= 0
    /\ \A n \in DOMAIN s.counters : n \in ValidNames /\ s.counters[n] >= 0
    /\ \A k \in DOMAIN s.http :
          /\ k \in ValidSeries
          /\ s.http[k].requests >= 0
          /\ s.http[k].duration.sum >= 0 /\ s.http[k].duration.count >= 0
          /\ DOMAIN s.http[k].duration.buckets = Buckets
          /\ \A i \in Buckets : s.http[k].duration.buckets[i] >= 0

\* renderMetrics: the cumulative buckets of an exposition.
CumulativeBuckets(d) ==
    LET upTo[i \in 0..Len(Bounds)] == IF i = 0 THEN 0 ELSE upTo[i - 1] + d.buckets[i]
    IN [i \in Buckets |-> upTo[i]]
=============================================================================
