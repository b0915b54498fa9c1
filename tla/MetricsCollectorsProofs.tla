---------------------- MODULE MetricsCollectorsProofs ----------------------
(***************************************************************************)
(* Proofs about MetricsCollectors, for any number of workers and calls,    *)
(* any series, names and ascending bounds.                                 *)
(*                                                                         *)
(* Merging snapshots is associative and commutative, an empty snapshot     *)
(* adds nothing, and whatever a collector does with a call is merging one  *)
(* snapshot: so it does not matter who counted, or when it was flushed.    *)
(***************************************************************************)
EXTENDS MetricsCollectors, RecursionTheorems, TLAPS

(***************************************************************************)
(* Adding                                                                  *)
(***************************************************************************)
\* plus adds the values of V, in whatever order and grouping, and zero adds
\* nothing.
Adds(V, plus, zero) ==
    /\ zero \in V
    /\ \A a, b \in V : plus[a][b] \in V /\ plus[a][b] = plus[b][a]
    /\ \A a, b, c \in V : plus[plus[a][b]][c] = plus[a][plus[b][c]]
    /\ \A a \in V : plus[a][zero] = a

\* Maps from some of the keys to values.
Maps(K, V) == UNION {[D -> V] : D \in SUBSET K}

Merge(f, g, plus, zero) ==
    [k \in DOMAIN f \union DOMAIN g |-> plus[At(f, k, zero)][At(g, k, zero)]]

\* What a map of keys to values is.
LEMMA MapMembers ==
    ASSUME NEW K, NEW V
    PROVE  /\ \A f \in Maps(K, V) :
                 /\ DOMAIN f \subseteq K
                 /\ \A k \in DOMAIN f : f[k] \in V
                 /\ f = [k \in DOMAIN f |-> f[k]]
           /\ \A D \in SUBSET K : \A f \in [D -> V] : f \in Maps(K, V)
           /\ <<>> \in Maps(K, V) /\ DOMAIN <<>> = {}
  <1>1. \A f \in Maps(K, V) : \E D \in SUBSET K : f \in [D -> V]
    BY DEF Maps
  <1>2. \A D \in SUBSET K : \A f \in [D -> V] : f \in Maps(K, V)
    BY DEF Maps
  <1>3. <<>> \in [{} -> V] /\ DOMAIN <<>> = {}
    OBVIOUS
  <1>4. <<>> \in Maps(K, V)
    BY <1>2, <1>3
  <1> QED
    BY <1>1, <1>2, <1>3, <1>4

\* Merging maps gives a map.
LEMMA MergeAt ==
    ASSUME NEW K, NEW V, NEW plus, NEW zero, Adds(V, plus, zero),
           NEW f \in Maps(K, V), NEW g \in Maps(K, V)
    PROVE  /\ Merge(f, g, plus, zero) \in Maps(K, V)
           /\ \A k : At(f, k, zero) \in V
  <1> DEFINE m == Merge(f, g, plus, zero)
  <1>1. /\ DOMAIN f \subseteq K /\ DOMAIN g \subseteq K
        /\ \A k \in DOMAIN f : f[k] \in V
        /\ \A k \in DOMAIN g : g[k] \in V
    BY MapMembers
  <1>2. zero \in V
    BY DEF Adds
  <1>3. \A k : At(f, k, zero) \in V /\ At(g, k, zero) \in V
    BY <1>1, <1>2 DEF At
  <1>4. \A k : plus[At(f, k, zero)][At(g, k, zero)] \in V
    BY <1>3 DEF Adds
  <1>6. m \in [DOMAIN f \union DOMAIN g -> V]
    BY <1>4 DEF Merge
  <1>7. m \in Maps(K, V)
    <2>1. DOMAIN f \union DOMAIN g \in SUBSET K
      BY <1>1
    <2> HIDE DEF m
    <2> QED
      BY <1>6, <2>1, MapMembers
  <1> QED
    BY <1>3, <1>7

\* Maps that have the same keys and the same values are one map.
LEMMA MapsEqual ==
    ASSUME NEW K, NEW V, NEW zero, NEW f \in Maps(K, V), NEW g \in Maps(K, V),
           DOMAIN f = DOMAIN g, \A k : At(f, k, zero) = At(g, k, zero)
    PROVE  f = g
  <1>1. f = [k \in DOMAIN f |-> f[k]] /\ g = [k \in DOMAIN g |-> g[k]]
    BY MapMembers
  <1>2. \A k \in DOMAIN f : f[k] = g[k]
    BY DEF At
  <1> QED
    BY <1>1, <1>2

\* Merging maps adds them.
LEMMA MapsAdd ==
    ASSUME NEW K, NEW V, NEW plus, NEW zero, Adds(V, plus, zero)
    PROVE  /\ \A f, g \in Maps(K, V) :
                 /\ Merge(f, g, plus, zero) \in Maps(K, V)
                 /\ Merge(f, g, plus, zero) = Merge(g, f, plus, zero)
           /\ \A f, g, h \in Maps(K, V) :
                 Merge(Merge(f, g, plus, zero), h, plus, zero) = Merge(f, Merge(g, h, plus, zero), plus, zero)
           /\ \A f \in Maps(K, V) : Merge(f, <<>>, plus, zero) = f
  <1> DEFINE M(a, b) == Merge(a, b, plus, zero)
             Z == Maps(K, V)
             A(a, k) == At(a, k, zero)
  <1>1. ASSUME NEW a \in Z, NEW b \in Z
        PROVE  /\ M(a, b) \in Z
               /\ \A k : k \in DOMAIN M(a, b) <=> k \in DOMAIN a \/ k \in DOMAIN b
    <2>1. M(a, b) \in Z
      BY MergeAt
    <2>2. \A k : k \in DOMAIN M(a, b) <=> k \in DOMAIN a \/ k \in DOMAIN b
      BY DEF Merge
    <2> QED
      BY <2>1, <2>2
  <1>2. ASSUME NEW a \in Z, NEW b \in Z, NEW k
        PROVE  A(M(a, b), k) = plus[A(a, k)][A(b, k)]
    <2> DEFINE m == Merge(a, b, plus, zero)
    <2>1. CASE k \in DOMAIN m
      BY <2>1 DEF At, Merge
    <2>2. CASE k \notin DOMAIN m
      <3>1. At(a, k, zero) = zero /\ At(b, k, zero) = zero /\ At(m, k, zero) = zero
        BY <2>2 DEF At, Merge
      <3>2. plus[zero][zero] = zero
        BY DEF Adds
      <3> QED
        BY <3>1, <3>2
    <2> QED
      BY <2>1, <2>2
  <1>3. \A a \in Z : \A k : A(a, k) \in V
    BY MergeAt
  <1>4. \A a, b \in Z : DOMAIN a = DOMAIN b /\ (\A k : A(a, k) = A(b, k)) => a = b
    BY MapsEqual
  <1>5. <<>> \in Z /\ DOMAIN <<>> = {} /\ \A k : A(<<>>, k) = zero
    BY MapMembers DEF At
  <1> HIDE DEF M, Z, A
  <1>7. ASSUME NEW f \in Z, NEW g \in Z PROVE M(f, g) = M(g, f)
    <2>1. ASSUME NEW k PROVE A(M(f, g), k) = A(M(g, f), k)
      <3>1. A(M(f, g), k) = plus[A(f, k)][A(g, k)] /\ A(M(g, f), k) = plus[A(g, k)][A(f, k)]
        BY <1>2, Zenon
      <3> QED
        BY <1>3, <3>1 DEF Adds
    <2>2. DOMAIN M(f, g) = DOMAIN M(g, f)
      BY <1>1
    <2> QED
      BY <1>1, <1>4, <2>1, <2>2
  <1>8. ASSUME NEW f \in Z, NEW g \in Z, NEW h \in Z PROVE M(M(f, g), h) = M(f, M(g, h))
    <2>1. M(f, g) \in Z /\ M(g, h) \in Z /\ M(M(f, g), h) \in Z /\ M(f, M(g, h)) \in Z
      BY <1>1
    <2>2. ASSUME NEW k PROVE A(M(M(f, g), h), k) = A(M(f, M(g, h)), k)
      <3>1. /\ A(M(M(f, g), h), k) = plus[plus[A(f, k)][A(g, k)]][A(h, k)]
            /\ A(M(f, M(g, h)), k) = plus[A(f, k)][plus[A(g, k)][A(h, k)]]
        BY <1>2, <2>1
      <3> QED
        BY <1>3, <3>1 DEF Adds
    <2>3. DOMAIN M(M(f, g), h) = DOMAIN M(f, M(g, h))
      <3>1. ASSUME NEW k PROVE k \in DOMAIN M(M(f, g), h) <=> k \in DOMAIN M(f, M(g, h))
        BY <1>1, <2>1
      <3> QED
        BY <3>1
    <2> QED
      BY <1>4, <2>1, <2>2, <2>3
  <1>9. ASSUME NEW f \in Z PROVE M(f, <<>>) = f
    <2>1. ASSUME NEW k PROVE A(M(f, <<>>), k) = A(f, k)
      <3>1. A(M(f, <<>>), k) = plus[A(f, k)][A(<<>>, k)] /\ A(<<>>, k) = zero
        BY <1>2, <1>5
      <3>2. plus[A(f, k)][zero] = A(f, k)
        BY <1>3 DEF Adds
      <3> QED
        BY <3>1, <3>2, Zenon
    <2>2. DOMAIN M(f, <<>>) = DOMAIN f
      BY <1>1, <1>5
    <2> QED
      BY <1>1, <1>4, <1>5, <2>1, <2>2
  <1> QED
    BY <1>1, <1>7, <1>8, <1>9 DEF M, Z

-----------------------------------------------------------------------------
(***************************************************************************)
(* Snapshots                                                               *)
(***************************************************************************)
DurationValues == [buckets : [Buckets -> Nat], sum : Nat, count : Nat]

SeriesValues == [requests : Nat, duration : DurationValues]

TotalValues == [Totals -> Nat]

HttpMaps == Maps(ValidSeries, SeriesValues)

CounterMaps == Maps(ValidNames, Nat)

\* The snapshots that are ever built.
Snapshots == [totals : TotalValues, http : HttpMaps, counters : CounterMaps]

AddSeries(a, b) ==
    [requests |-> a.requests + b.requests, duration |-> AddRequestDuration(a.duration, b.duration)]

SeriesPlus == [a \in SeriesValues |-> [b \in SeriesValues |-> AddSeries(a, b)]]

CounterPlus == [a \in Nat |-> [b \in Nat |-> a + b]]

\* Adding histograms.
LEMMA DurationsAdd ==
    ASSUME NEW a \in DurationValues, NEW b \in DurationValues, NEW c \in DurationValues
    PROVE  /\ AddRequestDuration(a, b) \in DurationValues
           /\ AddRequestDuration(a, b) = AddRequestDuration(b, a)
           /\ AddRequestDuration(AddRequestDuration(a, b), c) = AddRequestDuration(a, AddRequestDuration(b, c))
           /\ EmptyDuration \in DurationValues
           /\ AddRequestDuration(a, EmptyDuration) = a
  <1>1. ASSUME NEW d \in DurationValues
        PROVE  /\ d.sum \in Nat /\ d.count \in Nat /\ d.buckets \in [Buckets -> Nat]
               /\ \A i \in Buckets : d.buckets[i] \in Nat
    BY DEF DurationValues
  <1>2. AddRequestDuration(a, b) \in DurationValues
    BY <1>1 DEF AddRequestDuration, DurationValues
  <1>3. AddRequestDuration(a, b) = AddRequestDuration(b, a)
    BY <1>1 DEF AddRequestDuration
  <1>4. AddRequestDuration(AddRequestDuration(a, b), c) = AddRequestDuration(a, AddRequestDuration(b, c))
    BY <1>1 DEF AddRequestDuration
  <1>5. EmptyDuration \in DurationValues
    BY DEF EmptyDuration, DurationValues
  <1>6. AddRequestDuration(a, EmptyDuration) = a
    <2>1. a = [buckets |-> a.buckets, sum |-> a.sum, count |-> a.count]
      BY DEF DurationValues
    <2>2. [i \in Buckets |-> a.buckets[i] + 0] = a.buckets
      BY <1>1
    <2>3. AddRequestDuration(a, EmptyDuration) = [buckets |-> a.buckets, sum |-> a.sum, count |-> a.count]
      BY <1>1, <2>2 DEF AddRequestDuration, EmptyDuration
    <2> QED
      BY <2>1, <2>3
  <1> QED
    BY <1>2, <1>3, <1>4, <1>5, <1>6

\* Adding series.
LEMMA SeriesAdd ==
    Adds(SeriesValues, SeriesPlus, EmptySeries)
  <1> DEFINE D(x, y) == AddRequestDuration(x, y)
  <1>1. ASSUME NEW a \in SeriesValues
        PROVE  a.requests \in Nat /\ a.duration \in DurationValues
               /\ a = [requests |-> a.requests, duration |-> a.duration]
    BY DEF SeriesValues
  <1>2. \A x, y \in DurationValues : D(x, y) \in DurationValues /\ D(x, y) = D(y, x)
    BY DurationsAdd
  <1>3. \A x, y, z \in DurationValues : D(D(x, y), z) = D(x, D(y, z))
    BY DurationsAdd
  <1>4. EmptyDuration \in DurationValues /\ \A x \in DurationValues : D(x, EmptyDuration) = x
    <2>1. EmptyDuration \in DurationValues
      BY DEF EmptyDuration, DurationValues
    <2> QED
      BY <2>1, DurationsAdd
  <1>5. \A a, b \in SeriesValues : AddSeries(a, b) = [requests |-> a.requests + b.requests, duration |-> D(a.duration, b.duration)]
    BY DEF AddSeries
  <1> HIDE DEF D
  <1>6. EmptySeries \in SeriesValues
    BY <1>4 DEF EmptySeries, SeriesValues
  <1>7. ASSUME NEW a \in SeriesValues, NEW b \in SeriesValues
        PROVE  AddSeries(a, b) \in SeriesValues /\ AddSeries(a, b) = AddSeries(b, a)
    <2>1. AddSeries(a, b) \in SeriesValues
      BY <1>1, <1>2, <1>5 DEF SeriesValues
    <2>2. D(a.duration, b.duration) = D(b.duration, a.duration) /\ a.requests + b.requests = b.requests + a.requests
      BY <1>1, <1>2
    <2> QED
      BY <1>5, <2>1, <2>2
  <1>8. ASSUME NEW a \in SeriesValues, NEW b \in SeriesValues, NEW c \in SeriesValues
        PROVE  AddSeries(AddSeries(a, b), c) = AddSeries(a, AddSeries(b, c))
    <2>1. AddSeries(a, b) \in SeriesValues /\ AddSeries(b, c) \in SeriesValues
      BY <1>7
    <2>2. D(D(a.duration, b.duration), c.duration) = D(a.duration, D(b.duration, c.duration))
      BY <1>1, <1>3
    <2>3. (a.requests + b.requests) + c.requests = a.requests + (b.requests + c.requests)
      BY <1>1
    <2> QED
      BY <1>5, <2>1, <2>2, <2>3
  <1>9. ASSUME NEW a \in SeriesValues PROVE AddSeries(a, EmptySeries) = a
    <2>1. EmptySeries.requests = 0 /\ EmptySeries.duration = EmptyDuration
      BY DEF EmptySeries
    <2>2. a.requests + 0 = a.requests /\ D(a.duration, EmptyDuration) = a.duration
      BY <1>1, <1>4
    <2> QED
      BY <1>1, <1>5, <1>6, <2>1, <2>2
  <1> DEFINE S(a, b) == AddSeries(a, b)
  <1>10. \A a, b \in SeriesValues : SeriesPlus[a][b] = S(a, b)
    BY DEF SeriesPlus
  <1>11. /\ \A a, b \in SeriesValues : S(a, b) \in SeriesValues /\ S(a, b) = S(b, a)
         /\ \A a, b, c \in SeriesValues : S(S(a, b), c) = S(a, S(b, c))
         /\ \A a \in SeriesValues : S(a, EmptySeries) = a
    BY <1>7, <1>8, <1>9
  <1> HIDE DEF S
  <1>12. \A a, b \in SeriesValues : SeriesPlus[a][b] \in SeriesValues /\ SeriesPlus[a][b] = SeriesPlus[b][a]
    <2> TAKE a, b \in SeriesValues
    <2>1. SeriesPlus[a][b] = S(a, b) /\ SeriesPlus[b][a] = S(b, a)
      BY <1>10, Zenon
    <2>2. S(a, b) \in SeriesValues /\ S(a, b) = S(b, a)
      BY <1>11, Zenon
    <2> QED
      BY <2>1, <2>2, Zenon
  <1>13. \A a, b, c \in SeriesValues : SeriesPlus[SeriesPlus[a][b]][c] = SeriesPlus[a][SeriesPlus[b][c]]
    <2> TAKE a, b, c \in SeriesValues
    <2>1. S(a, b) \in SeriesValues /\ S(b, c) \in SeriesValues
      BY <1>11
    <2>2. S(S(a, b), c) = S(a, S(b, c))
      BY <1>8 DEF S
    <2>3. SeriesPlus[a][b] = S(a, b) /\ SeriesPlus[b][c] = S(b, c)
      BY <1>10, Zenon
    <2>4. SeriesPlus[S(a, b)][c] = S(S(a, b), c) /\ SeriesPlus[a][S(b, c)] = S(a, S(b, c))
      BY <1>10, <2>1, Zenon
    <2> QED
      BY <2>2, <2>3, <2>4, Zenon
  <1>14. \A a \in SeriesValues : SeriesPlus[a][EmptySeries] = a
    BY <1>6, <1>10, <1>11
  <1> QED
    BY <1>6, <1>12, <1>13, <1>14, Zenon DEF Adds

\* Adding counters.
LEMMA CountersAdd ==
    Adds(Nat, CounterPlus, 0)
  BY DEF Adds, CounterPlus

\* The parts of a snapshot.
LEMMA SnapshotParts ==
    ASSUME NEW s \in Snapshots
    PROVE  /\ s.totals \in TotalValues /\ s.http \in HttpMaps /\ s.counters \in CounterMaps
           /\ s = [totals |-> s.totals, http |-> s.http, counters |-> s.counters]
           /\ \A t \in Totals : s.totals[t] \in Nat
           /\ \A k : At(s.http, k, EmptySeries) \in SeriesValues
           /\ \A n : At(s.counters, n, 0) \in Nat
  <1>1. /\ s.totals \in TotalValues /\ s.http \in HttpMaps /\ s.counters \in CounterMaps
        /\ s = [totals |-> s.totals, http |-> s.http, counters |-> s.counters]
    BY DEF Snapshots
  <1>2. \A k : At(s.http, k, EmptySeries) \in SeriesValues
    BY <1>1, SeriesAdd, MergeAt DEF HttpMaps
  <1>3. \A n : At(s.counters, n, 0) \in Nat
    BY <1>1, CountersAdd, MergeAt DEF CounterMaps
  <1>4. \A t \in Totals : s.totals[t] \in Nat
    BY <1>1 DEF TotalValues
  <1> QED
    BY <1>1, <1>2, <1>3, <1>4

AddTotals(a, b) == [k \in Totals |-> a[k] + b[k]]

\* Merging snapshots is merging their parts.
LEMMA AddIsMerge ==
    ASSUME NEW s \in Snapshots, NEW t \in Snapshots
    PROVE  AddMetricsSnapshot(s, t) =
               [totals |-> AddTotals(s.totals, t.totals),
                http |-> Merge(s.http, t.http, SeriesPlus, EmptySeries),
                counters |-> Merge(s.counters, t.counters, CounterPlus, 0)]
  <1>1. /\ \A k : At(s.http, k, EmptySeries) \in SeriesValues /\ At(t.http, k, EmptySeries) \in SeriesValues
        /\ \A n : At(s.counters, n, 0) \in Nat /\ At(t.counters, n, 0) \in Nat
    BY SnapshotParts
  <1>2. Merge(s.http, t.http, SeriesPlus, EmptySeries) =
            [k \in DOMAIN s.http \union DOMAIN t.http |->
                AddSeries(At(s.http, k, EmptySeries), At(t.http, k, EmptySeries))]
    BY <1>1 DEF Merge, SeriesPlus
  <1>3. Merge(s.counters, t.counters, CounterPlus, 0) =
            [n \in DOMAIN s.counters \union DOMAIN t.counters |->
                At(s.counters, n, 0) + At(t.counters, n, 0)]
    BY <1>1 DEF Merge, CounterPlus
  <1> QED
    BY <1>2, <1>3, Zenon DEF AddMetricsSnapshot, AddTotals, AddSeries

\* Adding snapshots: the order and the grouping in which batches are merged do
\* not matter, and an empty batch adds nothing.
LEMMA SnapshotsAdd ==
    ASSUME NEW s \in Snapshots, NEW t \in Snapshots, NEW u \in Snapshots
    PROVE  /\ AddMetricsSnapshot(s, t) \in Snapshots
           /\ AddMetricsSnapshot(s, t) = AddMetricsSnapshot(t, s)
           /\ AddMetricsSnapshot(AddMetricsSnapshot(s, t), u) = AddMetricsSnapshot(s, AddMetricsSnapshot(t, u))
           /\ EmptyMetrics \in Snapshots
           /\ AddMetricsSnapshot(s, EmptyMetrics) = s
  <1> DEFINE H(a, b) == Merge(a, b, SeriesPlus, EmptySeries)
             C(a, b) == Merge(a, b, CounterPlus, 0)
             T(a, b) == AddTotals(a, b)
             A(x, y) == AddMetricsSnapshot(x, y)
  <1>1. /\ \A a, b \in HttpMaps : H(a, b) \in HttpMaps /\ H(a, b) = H(b, a)
        /\ \A a, b, c \in HttpMaps : H(H(a, b), c) = H(a, H(b, c))
        /\ \A a \in HttpMaps : H(a, <<>>) = a
    BY SeriesAdd, MapsAdd DEF HttpMaps
  <1>2. /\ \A a, b \in CounterMaps : C(a, b) \in CounterMaps /\ C(a, b) = C(b, a)
        /\ \A a, b, c \in CounterMaps : C(C(a, b), c) = C(a, C(b, c))
        /\ \A a \in CounterMaps : C(a, <<>>) = a
    <2> DEFINE N == Nat
               none == 0
    <2>1. Adds(N, CounterPlus, none)
      BY CountersAdd
    <2> DEFINE B(a, b) == Merge(a, b, CounterPlus, none)
               Z == Maps(ValidNames, N)
    <2> HIDE DEF N, none
    <2>2. /\ \A a, b \in Z : B(a, b) \in Z /\ B(a, b) = B(b, a)
          /\ \A a, b, c \in Z : B(B(a, b), c) = B(a, B(b, c))
          /\ \A a \in Z : B(a, <<>>) = a
      BY <2>1, MapsAdd
    <2> QED
      BY <2>2 DEF none, N, CounterMaps
  <1> DEFINE zero == [k \in Totals |-> 0]
  <1>3. /\ \A a, b \in TotalValues : T(a, b) \in TotalValues /\ T(a, b) = T(b, a)
        /\ \A a, b, c \in TotalValues : T(T(a, b), c) = T(a, T(b, c))
        /\ zero \in TotalValues /\ \A a \in TotalValues : T(a, zero) = a
    BY DEF AddTotals, TotalValues
  <1>4. \A x, y \in Snapshots :
            A(x, y) = [totals |-> T(x.totals, y.totals), http |-> H(x.http, y.http),
                       counters |-> C(x.counters, y.counters)]
    BY AddIsMerge
  <1>5. <<>> \in HttpMaps /\ <<>> \in CounterMaps
    BY MapMembers DEF HttpMaps, CounterMaps
  <1>6. EmptyMetrics = [totals |-> zero, http |-> <<>>, counters |-> <<>>]
    BY DEF EmptyMetrics
  <1> HIDE DEF H, C, T, A, zero
  <1>7. \A x \in Snapshots :
            /\ x.totals \in TotalValues /\ x.http \in HttpMaps /\ x.counters \in CounterMaps
            /\ x = [totals |-> x.totals, http |-> x.http, counters |-> x.counters]
    BY SnapshotParts
  <1>8. \A x, y \in Snapshots :
            /\ A(x, y).totals = T(x.totals, y.totals)
            /\ A(x, y).http = H(x.http, y.http)
            /\ A(x, y).counters = C(x.counters, y.counters)
            /\ A(x, y) \in Snapshots
    BY <1>1, <1>2, <1>3, <1>4, <1>7 DEF Snapshots
  <1>9. A(s, t) = A(t, s)
    <2>1. /\ T(s.totals, t.totals) = T(t.totals, s.totals)
          /\ H(s.http, t.http) = H(t.http, s.http)
          /\ C(s.counters, t.counters) = C(t.counters, s.counters)
      BY <1>1, <1>2, <1>3, <1>7
    <2> QED
      BY <1>4, <2>1
  <1>10. A(A(s, t), u) = A(s, A(t, u))
    <2>1. /\ T(T(s.totals, t.totals), u.totals) = T(s.totals, T(t.totals, u.totals))
          /\ H(H(s.http, t.http), u.http) = H(s.http, H(t.http, u.http))
          /\ C(C(s.counters, t.counters), u.counters) = C(s.counters, C(t.counters, u.counters))
      <3>1. T(T(s.totals, t.totals), u.totals) = T(s.totals, T(t.totals, u.totals))
        BY <1>3, <1>7
      <3>2. H(H(s.http, t.http), u.http) = H(s.http, H(t.http, u.http))
        BY <1>1, <1>7
      <3>3. C(C(s.counters, t.counters), u.counters) = C(s.counters, C(t.counters, u.counters))
        BY <1>2, <1>7
      <3> QED
        BY <3>1, <3>2, <3>3
    <2>2. A(s, t) \in Snapshots /\ A(t, u) \in Snapshots
      BY <1>8
    <2>3. A(A(s, t), u) = [totals |-> T(T(s.totals, t.totals), u.totals), http |-> H(H(s.http, t.http), u.http),
                           counters |-> C(C(s.counters, t.counters), u.counters)]
      BY <1>4, <1>8, <2>2
    <2>4. A(s, A(t, u)) = [totals |-> T(s.totals, T(t.totals, u.totals)), http |-> H(s.http, H(t.http, u.http)),
                           counters |-> C(s.counters, C(t.counters, u.counters))]
      BY <1>4, <1>8, <2>2
    <2> QED
      BY <2>1, <2>3, <2>4
  <1>11. EmptyMetrics \in Snapshots
    BY <1>3, <1>5, <1>6 DEF Snapshots
  <1>12. A(s, EmptyMetrics) = s
    <2>1. T(s.totals, zero) = s.totals /\ H(s.http, <<>>) = s.http /\ C(s.counters, <<>>) = s.counters
      BY <1>1, <1>2, <1>3, <1>7
    <2>2. EmptyMetrics.totals = zero /\ EmptyMetrics.http = <<>> /\ EmptyMetrics.counters = <<>>
      BY <1>6
    <2>3. A(s, EmptyMetrics) = [totals |-> s.totals, http |-> s.http, counters |-> s.counters]
      BY <1>4, <1>11, <2>1, <2>2
    <2> QED
      BY <1>7, <2>3
  <1>13. A(s, t) \in Snapshots
    BY <1>8
  <1> QED
    BY <1>9, <1>10, <1>11, <1>12, <1>13 DEF A

-----------------------------------------------------------------------------
(***************************************************************************)
(* Recording                                                               *)
(***************************************************************************)
\* A map of one key.
LEMMA MergeOne ==
    ASSUME NEW K, NEW V, NEW plus, NEW zero, Adds(V, plus, zero),
           NEW k \in K, NEW v \in V
    PROVE  /\ With(<<>>, k, v) \in Maps(K, V)
           /\ \A f \in Maps(K, V) :
                 Merge(f, With(<<>>, k, v), plus, zero) = With(f, k, plus[At(f, k, zero)][v])
  <1> DEFINE one == With(<<>>, k, v)
  <1>1. DOMAIN <<>> = {}
    OBVIOUS
  <1>2. one = [z \in {k} |-> v]
    BY <1>1 DEF With
  <1>3. one \in Maps(K, V)
    <2>1. {k} \in SUBSET K /\ [z \in {k} |-> v] \in [{k} -> V]
      OBVIOUS
    <2> QED
      BY <1>2, <2>1, MapMembers
  <1>4. ASSUME NEW f \in Maps(K, V)
        PROVE  Merge(f, one, plus, zero) = With(f, k, plus[At(f, k, zero)][v])
    <2>1. \A z : At(one, z, zero) = IF z = k THEN v ELSE zero
      BY <1>2 DEF At
    <2>2. DOMAIN one = {k}
      BY <1>2
    <2>3. \A z \in DOMAIN f : f[z] \in V
      BY MapMembers
    <2>4. \A z \in DOMAIN f \union {k} :
              plus[At(f, z, zero)][At(one, z, zero)] = IF z = k THEN plus[At(f, k, zero)][v] ELSE f[z]
      <3> TAKE z \in DOMAIN f \union {k}
      <3>1. CASE z = k
        BY <2>1, <3>1
      <3>2. CASE z # k
        <4>1. At(f, z, zero) = f[z] /\ At(one, z, zero) = zero
          BY <2>1, <3>2 DEF At
        <4>2. plus[f[z]][zero] = f[z]
          BY <2>3, <3>2 DEF Adds
        <4> QED
          BY <3>2, <4>1, <4>2
      <3> QED
        BY <3>1, <3>2
    <2> HIDE DEF one
    <2> QED
      BY <2>2, <2>4 DEF Merge, With
  <1> QED
    BY <1>3, <1>4

\* What a cluster misses of one request.
Missed(seconds) == Unbucketed(IF seconds = 0 THEN 1 ELSE 0)

\* The first-bucket entries add up.
LEMMA UnbucketedAdd ==
    ASSUME NEW n \in Nat, NEW m \in Nat
    PROVE  /\ Unbucketed(n) \in SeriesValues
           /\ Unbucketed(0) = EmptySeries
           /\ SeriesPlus[Unbucketed(n)][Unbucketed(m)] = Unbucketed(n + m)
  <1>1. ASSUME NEW j \in Nat PROVE Unbucketed(j) \in SeriesValues
    BY DEF Unbucketed, SeriesValues, DurationValues
  <1>2. Unbucketed(0) = EmptySeries
    BY DEF Unbucketed, EmptySeries, EmptyDuration
  <1>3. SeriesPlus[Unbucketed(n)][Unbucketed(m)] = AddSeries(Unbucketed(n), Unbucketed(m))
    BY <1>1 DEF SeriesPlus
  <1>4. AddSeries(Unbucketed(n), Unbucketed(m)) = Unbucketed(n + m)
    <2>1. AddRequestDuration(Unbucketed(n).duration, Unbucketed(m).duration) = Unbucketed(n + m).duration
      BY DEF Unbucketed, AddRequestDuration
    <2>2. Unbucketed(n).requests + Unbucketed(m).requests = 0
      BY DEF Unbucketed
    <2>3. Unbucketed(n + m) = [requests |-> 0, duration |-> Unbucketed(n + m).duration]
      BY DEF Unbucketed
    <2> QED
      BY <2>1, <2>2, <2>3 DEF AddSeries
  <1> QED
    BY <1>1, <1>2, <1>3, <1>4

\* The bucket observeDuration finds is the one ClusterMetrics.request computes,
\* for a duration that is not 0.
LEMMA ObserveIsAdd ==
    ASSUME NEW d \in DurationValues, NEW seconds \in Nat \ {0}
    PROVE  /\ OneRequest(seconds) \in DurationValues
           /\ AddRequestDuration(d, OneRequest(seconds)) = ObserveDuration(d, seconds)
  <1> DEFINE fits == {i \in Buckets : seconds <= Bounds[i]}
             hit(i) == i \in fits /\ \A j \in fits : i <= j
             between(i) == seconds <= Bounds[i] /\ seconds > (IF i = 1 THEN 0 ELSE Bounds[i - 1])
  <1>1. /\ Buckets = 1..Len(Bounds) /\ Len(Bounds) \in Nat
        /\ \A i \in Buckets : Bounds[i] \in Nat
        /\ \A i, j \in Buckets : i < j => Bounds[i] < Bounds[j]
    BY MetricsAssumption DEF Buckets
  <1>2. OneRequest(seconds) \in DurationValues
    BY DEF OneRequest, DurationValues
  <1>3. ASSUME NEW i \in Buckets PROVE hit(i) <=> between(i)
    <2>1. ASSUME hit(i) PROVE between(i)
      <3>1. CASE i = 1
        BY <2>1, <3>1
      <3>2. CASE i # 1
        <4>1. i - 1 \in Buckets /\ i \in Nat /\ ~(i <= i - 1)
          BY <1>1, <3>2
        <4>2. i - 1 \notin fits
          BY <2>1, <4>1
        <4> QED
          BY <1>1, <2>1, <3>2, <4>1, <4>2
      <3> QED
        BY <3>1, <3>2
    <2>2. ASSUME between(i) PROVE hit(i)
      <3>1. ASSUME NEW j \in fits, j < i PROVE FALSE
        <4>1. i # 1 /\ i - 1 \in Buckets /\ j \in Buckets /\ (j < i - 1 \/ j = i - 1)
          BY <1>1, <3>1
        <4>2. Bounds[j] <= Bounds[i - 1]
          BY <1>1, <4>1
        <4>3. seconds <= Bounds[j] /\ seconds > Bounds[i - 1]
          BY <2>2, <3>1, <4>1
        <4> QED
          BY <1>1, <4>1, <4>2, <4>3
      <3>2. \A j \in fits : i <= j
        BY <1>1, <3>1
      <3> QED
        BY <2>2, <3>2
    <2> QED
      BY <2>1, <2>2
  <1>4. ObserveDuration(d, seconds) =
            [buckets |-> [i \in Buckets |-> d.buckets[i] + IF hit(i) THEN 1 ELSE 0],
             sum |-> d.sum + seconds, count |-> d.count + 1]
    BY DEF ObserveDuration
  <1>5. OneRequest(seconds) =
            [buckets |-> [i \in Buckets |-> IF between(i) THEN 1 ELSE 0],
             sum |-> seconds, count |-> 1]
    BY DEF OneRequest
  <1> HIDE DEF hit, between
  <1>6. AddRequestDuration(d, OneRequest(seconds)) =
            [buckets |-> [i \in Buckets |-> d.buckets[i] + IF between(i) THEN 1 ELSE 0],
             sum |-> d.sum + seconds, count |-> d.count + 1]
    BY <1>5 DEF AddRequestDuration
  <1>7. [i \in Buckets |-> d.buckets[i] + IF between(i) THEN 1 ELSE 0] =
        [i \in Buckets |-> d.buckets[i] + IF hit(i) THEN 1 ELSE 0]
    BY <1>3
  <1>8. AddRequestDuration(d, OneRequest(seconds)) = ObserveDuration(d, seconds)
    BY <1>4, <1>6, <1>7, Zenon
  <1> QED
    BY <1>2, <1>8

\* For a duration of 0 it computes none, and observeDuration finds the first.
LEMMA ObserveZero ==
    ASSUME NEW d \in DurationValues
    PROVE  /\ OneRequest(0) \in DurationValues
           /\ AddRequestDuration(AddRequestDuration(d, OneRequest(0)), Unbucketed(1).duration)
                = ObserveDuration(d, 0)
  <1> DEFINE fits == {i \in Buckets : 0 <= Bounds[i]}
             hit(i) == i \in fits /\ \A j \in fits : i <= j
             between(i) == 0 <= Bounds[i] /\ 0 > (IF i = 1 THEN 0 ELSE Bounds[i - 1])
  <1>1. /\ Buckets = 1..Len(Bounds) /\ Len(Bounds) \in Nat /\ 1 \in Buckets
        /\ \A i \in Buckets : Bounds[i] \in Nat
    BY MetricsAssumption DEF Buckets
  <1>2. OneRequest(0) \in DurationValues
    BY DEF OneRequest, DurationValues
  <1>3. /\ d.sum \in Nat /\ d.count \in Nat
        /\ \A i \in Buckets : d.buckets[i] \in Nat
    BY DEF DurationValues
  <1>4. ASSUME NEW i \in Buckets PROVE (hit(i) <=> i = 1) /\ ~between(i)
    <2>1. i = 1 \/ i - 1 \in Buckets
      BY <1>1
    <2>2. fits = Buckets
      BY <1>1
    <2>3. hit(i) <=> i = 1
      BY <1>1, <2>2
    <2>4. ~between(i)
      BY <1>1, <2>1
    <2> QED
      BY <2>3, <2>4
  <1>5. ObserveDuration(d, 0) =
            [buckets |-> [i \in Buckets |-> d.buckets[i] + IF hit(i) THEN 1 ELSE 0],
             sum |-> d.sum + 0, count |-> d.count + 1]
    BY DEF ObserveDuration
  <1>6. OneRequest(0) =
            [buckets |-> [i \in Buckets |-> IF between(i) THEN 1 ELSE 0],
             sum |-> 0, count |-> 1]
    BY DEF OneRequest
  <1> HIDE DEF hit, between
  <1>7. OneRequest(0) = [buckets |-> [i \in Buckets |-> 0], sum |-> 0, count |-> 1]
    BY <1>4, <1>6
  <1>8. AddRequestDuration(d, OneRequest(0)) =
            [buckets |-> [i \in Buckets |-> d.buckets[i]], sum |-> d.sum, count |-> d.count + 1]
    BY <1>3, <1>7 DEF AddRequestDuration
  <1>9. Unbucketed(1).duration =
            [buckets |-> [i \in Buckets |-> IF i = 1 THEN 1 ELSE 0], sum |-> 0, count |-> 0]
    BY DEF Unbucketed
  <1>10. AddRequestDuration(AddRequestDuration(d, OneRequest(0)), Unbucketed(1).duration) =
            [buckets |-> [i \in Buckets |-> d.buckets[i] + IF i = 1 THEN 1 ELSE 0],
             sum |-> d.sum, count |-> d.count + 1]
    BY <1>3, <1>8, <1>9 DEF AddRequestDuration
  <1>11. ObserveDuration(d, 0) =
            [buckets |-> [i \in Buckets |-> d.buckets[i] + IF i = 1 THEN 1 ELSE 0],
             sum |-> d.sum, count |-> d.count + 1]
    BY <1>3, <1>4, <1>5
  <1> QED
    BY <1>2, <1>10, <1>11, Zenon

\* What Metrics observes is what ClusterMetrics.request computes and what it
\* misses.
LEMMA ObserveIsBoth ==
    ASSUME NEW d \in DurationValues, NEW seconds \in Nat
    PROVE  /\ OneRequest(seconds) \in DurationValues
           /\ AddRequestDuration(AddRequestDuration(d, OneRequest(seconds)), Missed(seconds).duration)
                = ObserveDuration(d, seconds)
  <1>1. CASE seconds = 0
    <2>1. Missed(seconds) = Unbucketed(1)
      BY <1>1 DEF Missed
    <2> QED
      BY <1>1, <2>1, ObserveZero
  <1>2. CASE seconds # 0
    <2>1. /\ OneRequest(seconds) \in DurationValues
          /\ AddRequestDuration(d, OneRequest(seconds)) = ObserveDuration(d, seconds)
      BY <1>2, ObserveIsAdd
    <2>2. Missed(seconds).duration = EmptyDuration
      BY <1>2, UnbucketedAdd DEF Missed, EmptySeries
    <2>3. /\ AddRequestDuration(d, OneRequest(seconds)) \in DurationValues
          /\ \A e \in DurationValues : AddRequestDuration(e, EmptyDuration) = e
      BY <2>1, DurationsAdd
    <2> QED
      BY <2>1, <2>2, <2>3
  <1> QED
    BY <1>1, <1>2

\* What a snapshot is to which one part is added.
LEMMA AddOnePart ==
    ASSUME NEW s \in Snapshots, NEW t \in TotalValues, NEW h \in HttpMaps, NEW c \in CounterMaps
    PROVE  /\ [EmptyMetrics EXCEPT !.totals = t] \in Snapshots
           /\ [EmptyMetrics EXCEPT !.http = h] \in Snapshots
           /\ [EmptyMetrics EXCEPT !.counters = c] \in Snapshots
           /\ AddMetricsSnapshot(s, [EmptyMetrics EXCEPT !.totals = t]) =
                [s EXCEPT !.totals = AddTotals(s.totals, t)]
           /\ AddMetricsSnapshot(s, [EmptyMetrics EXCEPT !.http = h]) =
                [s EXCEPT !.http = Merge(s.http, h, SeriesPlus, EmptySeries)]
           /\ AddMetricsSnapshot(s, [EmptyMetrics EXCEPT !.counters = c]) =
                [s EXCEPT !.counters = Merge(s.counters, c, CounterPlus, 0)]
  <1> DEFINE H(a, b) == Merge(a, b, SeriesPlus, EmptySeries)
             C(a, b) == Merge(a, b, CounterPlus, 0)
             T(a, b) == AddTotals(a, b)
             A(x, y) == AddMetricsSnapshot(x, y)
             zero == [k \in Totals |-> 0]
  <1>1. EmptyMetrics = [totals |-> zero, http |-> <<>>, counters |-> <<>>] /\ EmptyMetrics \in Snapshots
    BY SnapshotsAdd DEF EmptyMetrics
  <1>2. A(s, EmptyMetrics) = s
    BY SnapshotsAdd
  <1>3. \A x, y \in Snapshots :
            A(x, y) = [totals |-> T(x.totals, y.totals), http |-> H(x.http, y.http),
                       counters |-> C(x.counters, y.counters)]
    BY AddIsMerge
  <1>4. zero \in TotalValues /\ <<>> \in HttpMaps /\ <<>> \in CounterMaps
    BY MapMembers DEF TotalValues, HttpMaps, CounterMaps
  <1>5. s = [totals |-> s.totals, http |-> s.http, counters |-> s.counters]
    BY SnapshotParts
  <1> HIDE DEF H, C, T, A, zero
  <1>6. T(s.totals, zero) = s.totals /\ H(s.http, <<>>) = s.http /\ C(s.counters, <<>>) = s.counters
    BY <1>1, <1>2, <1>3, <1>5
  <1> DEFINE et == [totals |-> t, http |-> <<>>, counters |-> <<>>]
             eh == [totals |-> zero, http |-> h, counters |-> <<>>]
             ec == [totals |-> zero, http |-> <<>>, counters |-> c]
  <1>7. et \in Snapshots /\ eh \in Snapshots /\ ec \in Snapshots
    BY <1>4 DEF Snapshots
  <1>8. /\ [EmptyMetrics EXCEPT !.totals = t] = et
        /\ [EmptyMetrics EXCEPT !.http = h] = eh
        /\ [EmptyMetrics EXCEPT !.counters = c] = ec
    BY <1>1
  <1>9. /\ A(s, et) = [totals |-> T(s.totals, t), http |-> s.http, counters |-> s.counters]
        /\ A(s, eh) = [totals |-> s.totals, http |-> H(s.http, h), counters |-> s.counters]
        /\ A(s, ec) = [totals |-> s.totals, http |-> s.http, counters |-> C(s.counters, c)]
    BY <1>3, <1>6, <1>7
  <1>10. /\ [s EXCEPT !.totals = T(s.totals, t)] =
                [totals |-> T(s.totals, t), http |-> s.http, counters |-> s.counters]
         /\ [s EXCEPT !.http = H(s.http, h)] =
                [totals |-> s.totals, http |-> H(s.http, h), counters |-> s.counters]
         /\ [s EXCEPT !.counters = C(s.counters, c)] =
                [totals |-> s.totals, http |-> s.http, counters |-> C(s.counters, c)]
    BY <1>5
  <1> HIDE DEF et, eh, ec
  <1> QED
    BY <1>7, <1>8, <1>9, <1>10, Zenon DEF H, C, T, A

-----------------------------------------------------------------------------
(***************************************************************************)
(* Totals                                                                  *)
(***************************************************************************)
\* A snapshot with the batches of some workers merged into it.
Alls(agg, pend) ==
    CHOOSE all : all = [S \in SUBSET Workers |->
        IF S = {} THEN agg
        ELSE AddMetricsSnapshot(all[S \ {CHOOSE w \in S : TRUE}], pend[CHOOSE w \in S : TRUE])]

Batches == [Workers -> Snapshots]

\* The function in CollectorsAgree satisfies its equation.
LEMMA AllsEquation ==
    ASSUME NEW agg \in Snapshots, NEW pend \in Batches
    PROVE  /\ Alls(agg, pend)[{}] = agg
           /\ \A S \in SUBSET Workers : S # {} =>
                 /\ Pick(S) \in S
                 /\ Alls(agg, pend)[S] = AddMetricsSnapshot(Alls(agg, pend)[S \ {Pick(S)}], pend[Pick(S)])
           /\ \A S \in SUBSET Workers : Alls(agg, pend)[S] \in Snapshots
  <1> DEFINE A(x, y) == AddMetricsSnapshot(x, y)
             Q(f) == f = [S \in SUBSET Workers |->
                            IF S = {} THEN agg ELSE A(f[S \ {Pick(S)}], pend[Pick(S)])]
             step == [w \in Workers |-> [s \in Snapshots |-> A(s, pend[w])]]
             h == Alls(agg, pend)
  <1>1. IsFiniteSet(Workers)
    BY CollectorsAssumption
  <1>2. \A x, y \in Snapshots : A(x, y) \in Snapshots
    BY SnapshotsAdd
  <1>3. \A w \in Workers : pend[w] \in Snapshots
    BY DEF Batches
  <1>4. h = CHOOSE f : Q(f)
    BY DEF Alls, Pick
  <1>5. \A S \in SUBSET Workers : S # {} => Pick(S) \in S /\ Pick(S) \in Workers
    BY DEF Pick
  <1> HIDE DEF A
  <1>6. step \in [Workers -> [Snapshots -> Snapshots]]
    BY <1>2, <1>3
  <1>7. PICK f \in [SUBSET Workers -> Snapshots] : IsSetRecursion(f, Workers, agg, step)
    <2>1. agg \in Snapshots
      OBVIOUS
    <2> HIDE DEF step
    <2> QED
      BY <1>1, <1>6, <2>1, SetRecursionExists, Zenon
  <1>8. Q(f)
    <2>1. \A S \in SUBSET Workers : f[S] = IF S = {} THEN agg ELSE step[Pick(S)][f[S \ {Pick(S)}]]
      BY <1>7 DEF IsSetRecursion
    <2>2. \A w \in Workers, s \in Snapshots : step[w][s] = A(s, pend[w])
      OBVIOUS
    <2> HIDE DEF step
    <2>3. ASSUME NEW S \in SUBSET Workers, S # {}
          PROVE  step[Pick(S)][f[S \ {Pick(S)}]] = A(f[S \ {Pick(S)}], pend[Pick(S)])
      <3>1. Pick(S) \in Workers /\ S \ {Pick(S)} \in SUBSET Workers
        BY <1>5, <2>3
      <3>2. f[S \ {Pick(S)}] \in Snapshots
        BY <3>1
      <3> QED
        BY <2>2, <3>1, <3>2
    <2>4. \A S \in SUBSET Workers : f[S] = IF S = {} THEN agg ELSE A(f[S \ {Pick(S)}], pend[Pick(S)])
      BY <2>1, <2>3
    <2> QED
      BY <2>4
  <1>9. Q(h)
    <2> HIDE DEF Q, h
    <2> QED
      BY <1>4, <1>8
  <1> HIDE DEF h
  <1>10. \A S \in SUBSET Workers : h[S] = IF S = {} THEN agg ELSE A(h[S \ {Pick(S)}], pend[Pick(S)])
    BY <1>9
  <1>11. h[{}] = agg
    BY <1>10
  <1>12. \A S \in SUBSET Workers : S # {} => h[S] = A(h[S \ {Pick(S)}], pend[Pick(S)])
    BY <1>10
  <1> DEFINE P == {S \in SUBSET Workers : h[S] \in Snapshots}
  <1>13. \A S \in SUBSET Workers : S \in P
    <2>1. {} \in P
      BY <1>11
    <2>2. ASSUME NEW S \in SUBSET Workers, S # {}, \A w \in S : S \ {w} \in P PROVE S \in P
      <3>1. Pick(S) \in S /\ pend[Pick(S)] \in Snapshots
        BY <1>3, <1>5, <2>2
      <3>2. h[S \ {Pick(S)}] \in Snapshots
        BY <2>2, <3>1
      <3> QED
        BY <1>2, <1>12, <2>2, <3>1, <3>2
    <2> HIDE DEF P
    <2> QED
      BY <1>1, <2>1, <2>2, SubsetInduction
  <1> QED
    BY <1>5, <1>11, <1>12, <1>13 DEF h, A

\* What a worker records is recorded in the total.
LEMMA AllsRecord ==
    ASSUME NEW agg \in Snapshots, NEW pend \in Batches, NEW w \in Workers, NEW e \in Snapshots
    PROVE  Alls(agg, [pend EXCEPT ![w] = AddMetricsSnapshot(@, e)])[Workers]
             = AddMetricsSnapshot(Alls(agg, pend)[Workers], e)
  <1> DEFINE A(x, y) == AddMetricsSnapshot(x, y)
             new == [pend EXCEPT ![w] = AddMetricsSnapshot(@, e)]
             f == Alls(agg, pend)
             g == Alls(agg, new)
             P == {S \in SUBSET Workers : g[S] = IF w \in S THEN A(f[S], e) ELSE f[S]}
  <1>1. IsFiniteSet(Workers)
    BY CollectorsAssumption
  <1>2. \A x, y \in Snapshots : A(x, y) \in Snapshots /\ A(x, y) = A(y, x)
    BY SnapshotsAdd
  <1>3. \A x, y, z \in Snapshots : A(A(x, y), z) = A(x, A(y, z))
    BY SnapshotsAdd
  <1>4. /\ \A v \in Workers : pend[v] \in Snapshots
        /\ new[w] = A(pend[w], e)
        /\ \A v \in Workers : v # w => new[v] = pend[v]
    BY DEF Batches
  <1>5. new \in Batches
    BY <1>2 DEF Batches
  <1> HIDE DEF new
  <1>6. /\ f[{}] = agg /\ g[{}] = agg
        /\ \A S \in SUBSET Workers : S # {} =>
              /\ Pick(S) \in S
              /\ f[S] = A(f[S \ {Pick(S)}], pend[Pick(S)])
              /\ g[S] = A(g[S \ {Pick(S)}], new[Pick(S)])
        /\ \A S \in SUBSET Workers : f[S] \in Snapshots /\ g[S] \in Snapshots
    BY <1>5, AllsEquation
  <1> HIDE DEF f, g, A
  <1>7. \A S \in SUBSET Workers : S \in P
    <2>1. {} \in P
      BY <1>6
    <2>2. ASSUME NEW S \in SUBSET Workers, S # {}, \A v \in S : S \ {v} \in P PROVE S \in P
      <3> DEFINE x == Pick(S)
                 R == S \ {x}
      <3>1. /\ x \in S /\ x \in Workers /\ R \in SUBSET Workers
            /\ f[S] = A(f[R], pend[x]) /\ g[S] = A(g[R], new[x])
            /\ f[R] \in Snapshots /\ pend[x] \in Snapshots
        BY <1>4, <1>6, <2>2
      <3>2. g[R] = IF w \in R THEN A(f[R], e) ELSE f[R]
        BY <2>2, <3>1
      <3>3. w \in R <=> w \in S /\ x # w
        OBVIOUS
      <3> HIDE DEF x, R
      <3>4. g[S] = IF w \in S THEN A(f[S], e) ELSE f[S]
        <4>1. CASE x = w
          BY <1>3, <1>4, <3>1, <3>2, <3>3, <4>1
        <4>2. CASE x # w /\ w \notin S
          BY <1>4, <3>1, <3>2, <3>3, <4>2
        <4>3. CASE x # w /\ w \in S
          <5>1. g[S] = A(A(f[R], e), pend[x])
            BY <1>4, <3>1, <3>2, <3>3, <4>3
          <5>2. A(A(f[R], e), pend[x]) = A(f[R], A(e, pend[x]))
            BY <1>3, <3>1
          <5>3. A(e, pend[x]) = A(pend[x], e)
            BY <1>2, <3>1
          <5>4. A(f[R], A(pend[x], e)) = A(A(f[R], pend[x]), e)
            BY <1>3, <3>1
          <5> QED
            BY <3>1, <4>3, <5>1, <5>2, <5>3, <5>4
        <4> QED
          BY <4>1, <4>2, <4>3
      <3> QED
        BY <3>4
    <2> HIDE DEF P
    <2> QED
      BY <1>1, <2>1, <2>2, SubsetInduction
  <1> QED
    BY <1>7 DEF f, g, A, new

\* A batch that moves from a worker to the primary stays in the total.
LEMMA AllsFlush ==
    ASSUME NEW agg \in Snapshots, NEW pend \in Batches, NEW w \in Workers
    PROVE  Alls(AddMetricsSnapshot(agg, pend[w]), [pend EXCEPT ![w] = EmptyMetrics])[Workers]
             = Alls(agg, pend)[Workers]
  <1> DEFINE A(x, y) == AddMetricsSnapshot(x, y)
             new == [pend EXCEPT ![w] = EmptyMetrics]
             e == pend[w]
             f == Alls(agg, pend)
             g == Alls(A(agg, pend[w]), new)
             P == {S \in SUBSET Workers : g[S] = IF w \in S THEN f[S] ELSE A(f[S], e)}
  <1>1. IsFiniteSet(Workers)
    BY CollectorsAssumption
  <1>2. \A x, y \in Snapshots : A(x, y) \in Snapshots /\ A(x, y) = A(y, x)
    BY SnapshotsAdd
  <1>3. \A x, y, z \in Snapshots : A(A(x, y), z) = A(x, A(y, z))
    BY SnapshotsAdd
  <1>4. /\ \A v \in Workers : pend[v] \in Snapshots
        /\ new[w] = EmptyMetrics
        /\ \A v \in Workers : v # w => new[v] = pend[v]
    BY DEF Batches
  <1>5. EmptyMetrics \in Snapshots /\ \A x \in Snapshots : A(x, EmptyMetrics) = x
    BY SnapshotsAdd
  <1>6. new \in Batches /\ A(agg, e) \in Snapshots
    BY <1>2, <1>4, <1>5 DEF Batches
  <1> HIDE DEF new
  <1>7. /\ f[{}] = agg /\ g[{}] = A(agg, e)
        /\ \A S \in SUBSET Workers : S # {} =>
              /\ Pick(S) \in S
              /\ f[S] = A(f[S \ {Pick(S)}], pend[Pick(S)])
              /\ g[S] = A(g[S \ {Pick(S)}], new[Pick(S)])
        /\ \A S \in SUBSET Workers : f[S] \in Snapshots /\ g[S] \in Snapshots
    BY <1>6, AllsEquation
  <1>8. e \in Snapshots /\ pend[w] = e
    BY <1>4
  <1> HIDE DEF f, g, A, e
  <1>9. \A S \in SUBSET Workers : S \in P
    <2>1. {} \in P
      BY <1>7
    <2>2. ASSUME NEW S \in SUBSET Workers, S # {}, \A v \in S : S \ {v} \in P PROVE S \in P
      <3> DEFINE x == Pick(S)
                 R == S \ {x}
      <3>1. /\ x \in S /\ x \in Workers /\ R \in SUBSET Workers
            /\ f[S] = A(f[R], pend[x]) /\ g[S] = A(g[R], new[x])
            /\ f[R] \in Snapshots /\ g[R] \in Snapshots /\ pend[x] \in Snapshots
        BY <1>4, <1>7, <2>2
      <3>2. g[R] = IF w \in R THEN f[R] ELSE A(f[R], e)
        BY <2>2, <3>1
      <3>3. w \in R <=> w \in S /\ x # w
        OBVIOUS
      <3> HIDE DEF x, R
      <3>4. g[S] = IF w \in S THEN f[S] ELSE A(f[S], e)
        <4>1. CASE x = w
          BY <1>4, <1>5, <1>8, <3>1, <3>2, <3>3, <4>1
        <4>2. CASE x # w /\ w \in S
          BY <1>4, <3>1, <3>2, <3>3, <4>2
        <4>3. CASE x # w /\ w \notin S
          <5>1. g[S] = A(A(f[R], e), pend[x])
            BY <1>4, <3>1, <3>2, <3>3, <4>3
          <5>2. A(A(f[R], e), pend[x]) = A(f[R], A(e, pend[x]))
            BY <1>3, <1>8, <3>1
          <5>3. A(e, pend[x]) = A(pend[x], e)
            BY <1>2, <1>8, <3>1
          <5>4. A(f[R], A(pend[x], e)) = A(A(f[R], pend[x]), e)
            BY <1>3, <1>8, <3>1
          <5> QED
            BY <3>1, <4>3, <5>1, <5>2, <5>3, <5>4
        <4> QED
          BY <4>1, <4>2, <4>3
      <3> QED
        BY <3>4
    <2> HIDE DEF P
    <2> QED
      BY <1>1, <2>1, <2>2, SubsetInduction
  <1>10. g[Workers] = f[Workers]
    BY <1>9
  <1> QED
    BY <1>10 DEF f, g, A, new

\* Nothing recorded makes an empty total.
LEMMA AllsEmpty ==
    Alls(EmptyMetrics, [w \in Workers |-> EmptyMetrics])[Workers] = EmptyMetrics
  <1> DEFINE pend == [w \in Workers |-> EmptyMetrics]
             f == Alls(EmptyMetrics, pend)
             P == {S \in SUBSET Workers : f[S] = EmptyMetrics}
  <1>1. IsFiniteSet(Workers)
    BY CollectorsAssumption
  <1>2. EmptyMetrics \in Snapshots
    BY MapMembers DEF EmptyMetrics, Snapshots, TotalValues, HttpMaps, CounterMaps
  <1>3. AddMetricsSnapshot(EmptyMetrics, EmptyMetrics) = EmptyMetrics
    BY <1>2, SnapshotsAdd
  <1>4. pend \in Batches /\ \A w \in Workers : pend[w] = EmptyMetrics
    BY <1>2 DEF Batches
  <1> HIDE DEF pend
  <1>5. /\ f[{}] = EmptyMetrics
        /\ \A S \in SUBSET Workers : S # {} =>
              Pick(S) \in S /\ f[S] = AddMetricsSnapshot(f[S \ {Pick(S)}], pend[Pick(S)])
    BY <1>2, <1>4, AllsEquation
  <1> HIDE DEF f
  <1>6. \A S \in SUBSET Workers : S \in P
    <2>1. {} \in P
      BY <1>5
    <2>2. ASSUME NEW S \in SUBSET Workers, S # {}, \A v \in S : S \ {v} \in P PROVE S \in P
      <3>1. Pick(S) \in S /\ f[S] = AddMetricsSnapshot(f[S \ {Pick(S)}], pend[Pick(S)])
        BY <1>5, <2>2
      <3>2. f[S \ {Pick(S)}] = EmptyMetrics /\ pend[Pick(S)] = EmptyMetrics
        BY <1>4, <2>2, <3>1
      <3> QED
        BY <1>3, <3>1, <3>2
    <2> HIDE DEF P
    <2> QED
      BY <1>1, <2>1, <2>2, SubsetInduction
  <1> QED
    BY <1>6 DEF f, pend

\* What is merged for a request, a count and an increment.
RequestEvent(k, seconds) ==
    [EmptyMetrics EXCEPT !.http = With(<<>>, k, [requests |-> 1, duration |-> OneRequest(seconds)])]

MissedEvent(k, seconds) ==
    IF seconds = 0 THEN [EmptyMetrics EXCEPT !.http = With(<<>>, k, Unbucketed(1))] ELSE EmptyMetrics

CountEvent(t) == [EmptyMetrics EXCEPT !.totals = [z \in Totals |-> IF z = t THEN 1 ELSE 0]]

IncrementEvent(name, value) == [EmptyMetrics EXCEPT !.counters = With(<<>>, name, value)]

\* A snapshot of one series merged into another.
LEMMA AddOneSeries ==
    ASSUME NEW s \in Snapshots, NEW k \in ValidSeries, NEW v \in SeriesValues
    PROVE  /\ [EmptyMetrics EXCEPT !.http = With(<<>>, k, v)] \in Snapshots
           /\ AddMetricsSnapshot(s, [EmptyMetrics EXCEPT !.http = With(<<>>, k, v)])
                = [s EXCEPT !.http = With(s.http, k, SeriesPlus[At(s.http, k, EmptySeries)][v])]
  <1> DEFINE h == With(<<>>, k, v)
             merged == Merge(s.http, h, SeriesPlus, EmptySeries)
  <1>1. s.http \in HttpMaps
    BY SnapshotParts
  <1>2. h \in HttpMaps /\ merged = With(s.http, k, SeriesPlus[At(s.http, k, EmptySeries)][v])
    BY <1>1, SeriesAdd, MergeOne DEF HttpMaps
  <1> HIDE DEF h, merged
  <1>3. /\ [EmptyMetrics EXCEPT !.http = h] \in Snapshots
        /\ AddMetricsSnapshot(s, [EmptyMetrics EXCEPT !.http = h]) = [s EXCEPT !.http = merged]
    <2>1. \E t \in TotalValues, c \in CounterMaps : TRUE
      BY SnapshotParts
    <2> QED
      BY <1>2, <2>1, AddOnePart DEF merged
  <1> QED
    BY <1>2, <1>3, Zenon DEF h

\* Metrics.request merges the request, and what a cluster misses of it, into the
\* snapshot.
LEMMA RequestIsAdd ==
    ASSUME NEW s \in Snapshots, NEW k \in ValidSeries, NEW seconds \in Nat
    PROVE  LET series == At(s.http, k, EmptySeries)
           IN  /\ RequestEvent(k, seconds) \in Snapshots
               /\ MissedEvent(k, seconds) \in Snapshots
               /\ [s EXCEPT !.http = With(@, k,
                      [requests |-> series.requests + 1,
                       duration |-> ObserveDuration(series.duration, seconds)])]
                    = AddMetricsSnapshot(AddMetricsSnapshot(s, RequestEvent(k, seconds)), MissedEvent(k, seconds))
  <1> DEFINE series == At(s.http, k, EmptySeries)
             one == [requests |-> 1, duration |-> OneRequest(seconds)]
             part == [requests |-> series.requests + 1,
                      duration |-> AddRequestDuration(series.duration, OneRequest(seconds))]
             both == [requests |-> series.requests + 1,
                      duration |-> ObserveDuration(series.duration, seconds)]
             t == [s EXCEPT !.http = With(s.http, k, part)]
  <1>1. series \in SeriesValues /\ s.http \in HttpMaps
    BY SnapshotParts
  <1>2. series.requests \in Nat /\ series.duration \in DurationValues
    <2> HIDE DEF series
    <2> QED
      BY <1>1 DEF SeriesValues
  <1> HIDE DEF series
  <1>3. /\ OneRequest(seconds) \in DurationValues
        /\ AddRequestDuration(AddRequestDuration(series.duration, OneRequest(seconds)), Missed(seconds).duration)
             = ObserveDuration(series.duration, seconds)
    BY <1>2, ObserveIsBoth
  <1>4. one \in SeriesValues
    BY <1>3 DEF SeriesValues
  <1>5. SeriesPlus[series][one] = part
    <2>1. SeriesPlus[series][one] = AddSeries(series, one)
      BY <1>1, <1>4 DEF SeriesPlus
    <2>2. one.requests = 1 /\ one.duration = OneRequest(seconds)
      OBVIOUS
    <2> HIDE DEF one
    <2> QED
      BY <2>1, <2>2 DEF AddSeries
  <1>6. part \in SeriesValues
    <2>1. AddRequestDuration(series.duration, OneRequest(seconds)) \in DurationValues
      BY <1>2, <1>3, DurationsAdd
    <2> QED
      BY <1>2, <2>1 DEF SeriesValues
  <1>7. RequestEvent(k, seconds) \in Snapshots /\ AddMetricsSnapshot(s, RequestEvent(k, seconds)) = t
    <2>1. RequestEvent(k, seconds) = [EmptyMetrics EXCEPT !.http = With(<<>>, k, one)]
      BY DEF RequestEvent
    <2> HIDE DEF one, part
    <2>2. /\ [EmptyMetrics EXCEPT !.http = With(<<>>, k, one)] \in Snapshots
          /\ AddMetricsSnapshot(s, [EmptyMetrics EXCEPT !.http = With(<<>>, k, one)])
               = [s EXCEPT !.http = With(s.http, k, SeriesPlus[series][one])]
      BY <1>4, AddOneSeries DEF series
    <2> QED
      BY <1>5, <2>1, <2>2
  <1>8. t \in Snapshots
    BY <1>7, SnapshotsAdd
  <1>9. t.http = With(s.http, k, part) /\ At(t.http, k, EmptySeries) = part
    <2>1. s = [totals |-> s.totals, http |-> s.http, counters |-> s.counters]
      BY SnapshotParts
    <2> HIDE DEF part
    <2>2. t.http = With(s.http, k, part)
      BY <2>1
    <2> QED
      BY <2>2 DEF At, With
  <1>10. With(With(s.http, k, part), k, both) = With(s.http, k, both)
    <2> HIDE DEF part, both
    <2> QED
      BY DEF With
  <1>11. [t EXCEPT !.http = With(t.http, k, both)] = [s EXCEPT !.http = With(@, k, both)]
    <2>1. s = [totals |-> s.totals, http |-> s.http, counters |-> s.counters]
      BY SnapshotParts
    <2> HIDE DEF part, both
    <2>2. t = [totals |-> s.totals, http |-> With(s.http, k, part), counters |-> s.counters]
      BY <2>1
    <2> HIDE DEF t
    <2> QED
      BY <1>10, <2>1, <2>2
  <1>12. CASE seconds = 0
    <2>1. Missed(seconds) = Unbucketed(1) /\ Unbucketed(1) \in SeriesValues
      BY <1>12, UnbucketedAdd DEF Missed
    <2>2. SeriesPlus[part][Unbucketed(1)] = both
      <3>1. SeriesPlus[part][Unbucketed(1)] = AddSeries(part, Unbucketed(1))
        BY <1>6, <2>1 DEF SeriesPlus
      <3>2. Unbucketed(1).requests = 0
        BY DEF Unbucketed
      <3>3. part.requests = series.requests + 1
            /\ part.duration = AddRequestDuration(series.duration, OneRequest(seconds))
        OBVIOUS
      <3> HIDE DEF part
      <3> QED
        BY <1>2, <1>3, <2>1, <3>1, <3>2, <3>3 DEF AddSeries
    <2> HIDE DEF part, both, t
    <2>3. /\ [EmptyMetrics EXCEPT !.http = With(<<>>, k, Unbucketed(1))] \in Snapshots
          /\ AddMetricsSnapshot(t, [EmptyMetrics EXCEPT !.http = With(<<>>, k, Unbucketed(1))])
               = [t EXCEPT !.http = With(t.http, k, SeriesPlus[part][Unbucketed(1)])]
      <3>1. AddMetricsSnapshot(t, [EmptyMetrics EXCEPT !.http = With(<<>>, k, Unbucketed(1))])
               = [t EXCEPT !.http = With(t.http, k, SeriesPlus[At(t.http, k, EmptySeries)][Unbucketed(1)])]
        BY <1>8, <2>1, AddOneSeries
      <3>2. [EmptyMetrics EXCEPT !.http = With(<<>>, k, Unbucketed(1))] \in Snapshots
        BY <1>8, <2>1, AddOneSeries
      <3> QED
        BY <1>9, <3>1, <3>2, Zenon
    <2>4. MissedEvent(k, seconds) = [EmptyMetrics EXCEPT !.http = With(<<>>, k, Unbucketed(1))]
      BY <1>12 DEF MissedEvent
    <2>5. AddMetricsSnapshot(t, MissedEvent(k, seconds)) = [t EXCEPT !.http = With(t.http, k, both)]
      BY <2>2, <2>3, <2>4, Zenon
    <2>6. /\ MissedEvent(k, seconds) \in Snapshots
          /\ [s EXCEPT !.http = With(@, k, both)]
               = AddMetricsSnapshot(AddMetricsSnapshot(s, RequestEvent(k, seconds)), MissedEvent(k, seconds))
      BY <1>7, <1>11, <2>3, <2>4, <2>5, Zenon
    <2> QED
      BY <1>7, <2>6 DEF series, both
  <1>13. CASE seconds # 0
    <2>1. MissedEvent(k, seconds) = EmptyMetrics
      BY <1>13 DEF MissedEvent
    <2>2. EmptyMetrics \in Snapshots /\ AddMetricsSnapshot(t, EmptyMetrics) = t
      <3> HIDE DEF t
      <3> QED
        BY <1>8, SnapshotsAdd
    <2>3. part = both
      BY <1>2, <1>13, ObserveIsAdd
    <2>4. t = [s EXCEPT !.http = With(@, k, both)]
      BY <2>3
    <2> HIDE DEF part, both, t
    <2>5. /\ MissedEvent(k, seconds) \in Snapshots
          /\ [s EXCEPT !.http = With(@, k, both)]
               = AddMetricsSnapshot(AddMetricsSnapshot(s, RequestEvent(k, seconds)), MissedEvent(k, seconds))
      BY <1>7, <2>1, <2>2, <2>4, Zenon
    <2> QED
      BY <1>7, <2>5 DEF series, both
  <1> QED
    BY <1>12, <1>13

\* The series of what a cluster misses of some requests.
MissedHttp(q) == [k \in {k \in ValidSeries : Zeros(k, q) # {}} |-> Unbucketed(Cardinality(Zeros(k, q)))]

\* What a cluster misses of some requests is a snapshot, nothing at first.
LEMMA MissedSnapshot ==
    ASSUME NEW obs \in Seq(ValidSeries \X Durations)
    PROVE  /\ MissedBy(obs) \in Snapshots /\ MissedBy(obs) = [EmptyMetrics EXCEPT !.http = MissedHttp(obs)]
           /\ \A k : IsFiniteSet(Zeros(k, obs)) /\ Cardinality(Zeros(k, obs)) \in Nat
           /\ MissedBy(<<>>) = EmptyMetrics
  <1>1. IsFiniteSet(DOMAIN obs) /\ \A k : Zeros(k, obs) \subseteq DOMAIN obs
    <2>1. Len(obs) \in Nat /\ DOMAIN obs = 1..Len(obs)
      OBVIOUS
    <2> QED
      BY <2>1, FS_Interval DEF Zeros
  <1>2. \A k : IsFiniteSet(Zeros(k, obs)) /\ Cardinality(Zeros(k, obs)) \in Nat
    BY <1>1, FS_Subset, FS_CardinalityType
  <1>3. \A q : MissedBy(q) = [EmptyMetrics EXCEPT !.http = MissedHttp(q)]
    BY DEF MissedBy, MissedHttp
  <1>4. MissedHttp(obs) \in HttpMaps
    <2>1. \A k \in ValidSeries : Unbucketed(Cardinality(Zeros(k, obs))) \in SeriesValues
      BY <1>2, UnbucketedAdd
    <2>2. {k \in ValidSeries : Zeros(k, obs) # {}} \in SUBSET ValidSeries
      OBVIOUS
    <2>3. MissedHttp(obs) \in [{k \in ValidSeries : Zeros(k, obs) # {}} -> SeriesValues]
      BY <2>1 DEF MissedHttp
    <2> QED
      BY <2>2, <2>3, MapMembers DEF HttpMaps
  <1>5. EmptyMetrics \in Snapshots
    BY MapMembers DEF EmptyMetrics, Snapshots, TotalValues, HttpMaps, CounterMaps
  <1>6. MissedBy(obs) \in Snapshots
    <2>1. \E t \in TotalValues, c \in CounterMaps : TRUE
      BY <1>5, SnapshotParts
    <2> QED
      BY <1>3, <1>4, <1>5, <2>1, AddOnePart
  <1>7. MissedBy(<<>>) = EmptyMetrics
    <2>1. DOMAIN <<>> = {} /\ \A k : Zeros(k, <<>>) = {}
      BY DEF Zeros
    <2>2. {k \in ValidSeries : Zeros(k, <<>>) # {}} = {}
      BY <2>1
    <2>3. MissedHttp(<<>>) = <<>>
      <3> DEFINE D == {k \in ValidSeries : Zeros(k, <<>>) # {}}
                 u(k) == Unbucketed(Cardinality(Zeros(k, <<>>)))
      <3>1. MissedHttp(<<>>) = [k \in D |-> u(k)] /\ D = {}
        BY <2>2 DEF MissedHttp
      <3> HIDE DEF D, u
      <3> QED
        BY <3>1
    <2> QED
      BY <1>3, <2>3 DEF EmptyMetrics
  <1> QED
    BY <1>2, <1>3, <1>6, <1>7

\* What a cluster misses grows by what it misses of the next request.
LEMMA MissedAppend ==
    ASSUME NEW obs \in Seq(ValidSeries \X Durations), NEW k0 \in ValidSeries,
           NEW seconds \in Durations \intersect Nat
    PROVE  MissedBy(Append(obs, <<k0, seconds>>)) = AddMetricsSnapshot(MissedBy(obs), MissedEvent(k0, seconds))
  <1> DEFINE new == Append(obs, <<k0, seconds>>)
             n == Len(obs) + 1
             Http(q) == MissedHttp(q)
  <1>1. /\ Len(obs) \in Nat /\ DOMAIN obs = 1..Len(obs) /\ DOMAIN new = 1..n
        /\ new[n] = <<k0, seconds>> /\ \A i \in DOMAIN obs : new[i] = obs[i]
        /\ n \notin DOMAIN obs /\ DOMAIN new = DOMAIN obs \union {n}
    OBVIOUS
  <1>2. \A k : IsFiniteSet(Zeros(k, obs)) /\ Cardinality(Zeros(k, obs)) \in Nat
    BY MissedSnapshot
  <1>3. \A k : n \notin Zeros(k, obs)
    BY <1>1 DEF Zeros
  <1>4. \A k : (new[n] = <<k, 0>>) <=> (k = k0 /\ seconds = 0)
    BY <1>1
  <1> HIDE DEF new, n
  <1>5. ASSUME NEW k
        PROVE  Zeros(k, new) = IF k = k0 /\ seconds = 0 THEN Zeros(k, obs) \union {n} ELSE Zeros(k, obs)
    BY <1>1, <1>4 DEF Zeros
  <1>6. MissedBy(obs) \in Snapshots /\ \A q : MissedBy(q) = [EmptyMetrics EXCEPT !.http = Http(q)]
    BY MissedSnapshot DEF MissedBy, MissedHttp
  <1>7. MissedBy(obs).http = Http(obs)
    <2> HIDE DEF Http
    <2> QED
      BY <1>6 DEF EmptyMetrics
  <1>8. CASE seconds = 0
    <2> DEFINE m == Cardinality(Zeros(k0, obs))
    <2>1. m \in Nat /\ Unbucketed(1) \in SeriesValues /\ Unbucketed(0) = EmptySeries
      BY <1>2, UnbucketedAdd
    <2>2. At(Http(obs), k0, EmptySeries) = Unbucketed(m)
      <3>1. CASE Zeros(k0, obs) # {}
        BY <3>1 DEF At, MissedHttp
      <3>2. CASE Zeros(k0, obs) = {}
        <4>1. m = 0
          BY <3>2, FS_EmptySet
        <4> HIDE DEF m
        <4> QED
          BY <2>1, <3>2, <4>1 DEF At, MissedHttp
      <3> QED
        BY <3>1, <3>2
    <2>3. SeriesPlus[Unbucketed(m)][Unbucketed(1)] = Unbucketed(m + 1)
      <3> HIDE DEF m
      <3> QED
        BY <2>1, UnbucketedAdd
    <2>4. Zeros(k0, new) = Zeros(k0, obs) \union {n} /\ Cardinality(Zeros(k0, new)) = m + 1
      <3>1. Zeros(k0, new) = Zeros(k0, obs) \union {n}
        BY <1>5, <1>8
      <3>2. Cardinality(Zeros(k0, obs) \union {n}) = m + 1
        BY <1>2, <1>3, FS_AddElement
      <3> QED
        BY <3>1, <3>2, Zenon
    <2>5. \A k : k # k0 => Zeros(k, new) = Zeros(k, obs)
      BY <1>5
    <2>6. Http(new) = With(Http(obs), k0, Unbucketed(m + 1))
      <3>1. {k \in ValidSeries : Zeros(k, new) # {}} = {k \in ValidSeries : Zeros(k, obs) # {}} \union {k0}
        <4>1. ASSUME NEW k \in ValidSeries PROVE Zeros(k, new) # {} <=> Zeros(k, obs) # {} \/ k = k0
          <5>1. CASE k = k0
            BY <2>4, <5>1
          <5>2. CASE k # k0
            <6>1. Zeros(k, new) = Zeros(k, obs)
              BY <2>5, <5>2
            <6> QED
              BY <5>2, <6>1, Zenon
          <5> QED
            BY <5>1, <5>2
        <4> QED
          BY <4>1
      <3>2. ASSUME NEW k \in ValidSeries
            PROVE  Unbucketed(Cardinality(Zeros(k, new))) =
                      IF k = k0 THEN Unbucketed(m + 1) ELSE Unbucketed(Cardinality(Zeros(k, obs)))
        <4>1. CASE k = k0
          BY <2>4, <4>1, Zenon
        <4>2. CASE k # k0
          <5>1. Zeros(k, new) = Zeros(k, obs)
            BY <2>5, <4>2
          <5> QED
            BY <4>2, <5>1, Zenon
        <4> QED
          BY <4>1, <4>2
      <3> DEFINE D == {k \in ValidSeries : Zeros(k, obs) # {}}
                 E == {k \in ValidSeries : Zeros(k, new) # {}}
                 u(k) == Unbucketed(Cardinality(Zeros(k, obs)))
                 v(k) == Unbucketed(Cardinality(Zeros(k, new)))
                 top == Unbucketed(m + 1)
      <3>3. Http(obs) = [k \in D |-> u(k)] /\ Http(new) = [k \in E |-> v(k)]
        BY DEF MissedHttp
      <3>4. E = D \union {k0} /\ D \subseteq ValidSeries
        BY <3>1
      <3>5. \A k \in ValidSeries : v(k) = IF k = k0 THEN top ELSE u(k)
        BY <3>2
      <3> HIDE DEF D, E, u, v, top, Http
      <3>6. Http(new) = With(Http(obs), k0, top)
        BY <3>3, <3>4, <3>5 DEF With
      <3> QED
        BY <3>6 DEF top
    <2>7. AddMetricsSnapshot(MissedBy(obs), [EmptyMetrics EXCEPT !.http = With(<<>>, k0, Unbucketed(1))])
            = [MissedBy(obs) EXCEPT !.http = With(MissedBy(obs).http, k0,
                  SeriesPlus[At(MissedBy(obs).http, k0, EmptySeries)][Unbucketed(1)])]
      BY <1>6, <2>1, AddOneSeries
    <2> HIDE DEF m, Http
    <2>8. AddMetricsSnapshot(MissedBy(obs), [EmptyMetrics EXCEPT !.http = With(<<>>, k0, Unbucketed(1))])
            = [MissedBy(obs) EXCEPT !.http = Http(new)]
      BY <1>7, <2>2, <2>3, <2>6, <2>7, Zenon
    <2>9. [MissedBy(obs) EXCEPT !.http = Http(new)] = MissedBy(new)
      BY <1>6 DEF EmptyMetrics
    <2>10. MissedEvent(k0, seconds) = [EmptyMetrics EXCEPT !.http = With(<<>>, k0, Unbucketed(1))]
      BY <1>8 DEF MissedEvent
    <2> QED
      BY <1>6, <2>8, <2>9, <2>10, Zenon DEF new
  <1>9. CASE seconds # 0
    <2>1. \A k : Zeros(k, new) = Zeros(k, obs)
      BY <1>5, <1>9
    <2>2. Http(new) = Http(obs)
      <3>1. {k \in ValidSeries : Zeros(k, new) # {}} = {k \in ValidSeries : Zeros(k, obs) # {}}
        BY <2>1, Zenon
      <3>2. \A k : Unbucketed(Cardinality(Zeros(k, new))) = Unbucketed(Cardinality(Zeros(k, obs)))
        BY <2>1, Zenon
      <3> DEFINE D == {k \in ValidSeries : Zeros(k, obs) # {}}
                 E == {k \in ValidSeries : Zeros(k, new) # {}}
                 u(k) == Unbucketed(Cardinality(Zeros(k, obs)))
                 v(k) == Unbucketed(Cardinality(Zeros(k, new)))
      <3>3. /\ Http(obs) = [k \in D |-> u(k)] /\ Http(new) = [k \in E |-> v(k)]
            /\ E = D /\ \A k : v(k) = u(k)
        BY <3>1, <3>2 DEF MissedHttp
      <3> HIDE DEF D, E, u, v, Http
      <3> QED
        BY <3>3
    <2> HIDE DEF Http
    <2>3. MissedBy(new) = MissedBy(obs)
      BY <1>6, <2>2
    <2>4. MissedEvent(k0, seconds) = EmptyMetrics
      BY <1>9 DEF MissedEvent
    <2>5. AddMetricsSnapshot(MissedBy(obs), EmptyMetrics) = MissedBy(obs)
      BY <1>6, SnapshotsAdd
    <2> QED
      BY <1>6, <2>3, <2>4, <2>5, Zenon DEF new
  <1> QED
    BY <1>8, <1>9

\* created, redirect and miss merge a snapshot of one event.
LEMMA CountIsAdd ==
    ASSUME NEW s \in Snapshots, NEW t \in Totals
    PROVE  /\ CountEvent(t) \in Snapshots
           /\ [s EXCEPT !.totals[t] = @ + 1] = AddMetricsSnapshot(s, CountEvent(t))
  <1> DEFINE one == [z \in Totals |-> IF z = t THEN 1 ELSE 0]
  <1>1. one \in TotalValues /\ s.totals \in TotalValues
    BY SnapshotParts DEF TotalValues
  <1>2. [s.totals EXCEPT ![t] = @ + 1] = AddTotals(s.totals, one)
    BY <1>1 DEF AddTotals, TotalValues
  <1> HIDE DEF one
  <1>3. /\ [EmptyMetrics EXCEPT !.totals = one] \in Snapshots
        /\ AddMetricsSnapshot(s, [EmptyMetrics EXCEPT !.totals = one]) = [s EXCEPT !.totals = AddTotals(s.totals, one)]
    <2>1. s.http \in HttpMaps /\ s.counters \in CounterMaps
      BY SnapshotParts
    <2> QED
      BY <1>1, <2>1, AddOnePart
  <1>4. [s EXCEPT !.totals[t] = @ + 1] = [s EXCEPT !.totals = [s.totals EXCEPT ![t] = @ + 1]]
    OBVIOUS
  <1> QED
    BY <1>2, <1>3, <1>4 DEF CountEvent, one

\* addCounter merges a snapshot of one counter, or nothing.
LEMMA IncrementIsAdd ==
    ASSUME NEW name, NEW value \in Int
    PROVE  \E e \in Snapshots : \A s \in Snapshots :
               AddCounter(s, name, value) = AddMetricsSnapshot(s, e)
  <1>1. CASE name \notin ValidNames \/ value <= 0
    <2>1. EmptyMetrics \in Snapshots
      BY MapMembers DEF EmptyMetrics, Snapshots, TotalValues, HttpMaps, CounterMaps
    <2>2. \A s \in Snapshots : AddCounter(s, name, value) = AddMetricsSnapshot(s, EmptyMetrics)
      BY <1>1, SnapshotsAdd DEF AddCounter
    <2> QED
      BY <2>1, <2>2
  <1>2. CASE name \in ValidNames /\ value > 0
    <2> DEFINE c == With(<<>>, name, value)
    <2>1. value \in Nat
      BY <1>2
    <2>2. /\ c \in CounterMaps
          /\ \A f \in CounterMaps :
                Merge(f, c, CounterPlus, 0) = With(f, name, CounterPlus[At(f, name, 0)][value])
      BY <1>2, <2>1, CountersAdd, MergeOne DEF CounterMaps
    <2> HIDE DEF c
    <2>3. ASSUME NEW s \in Snapshots
          PROVE  /\ IncrementEvent(name, value) \in Snapshots
                 /\ AddCounter(s, name, value) = AddMetricsSnapshot(s, IncrementEvent(name, value))
      <3>1. s.http \in HttpMaps /\ s.totals \in TotalValues /\ s.counters \in CounterMaps
            /\ At(s.counters, name, 0) \in Nat
        BY SnapshotParts
      <3>2. CounterPlus[At(s.counters, name, 0)][value] = At(s.counters, name, 0) + value
        BY <2>1, <3>1 DEF CounterPlus
      <3>3. /\ [EmptyMetrics EXCEPT !.counters = c] \in Snapshots
            /\ AddMetricsSnapshot(s, [EmptyMetrics EXCEPT !.counters = c]) =
                  [s EXCEPT !.counters = Merge(s.counters, c, CounterPlus, 0)]
        BY <2>2, <3>1, AddOnePart
      <3>4. AddCounter(s, name, value) =
                [s EXCEPT !.counters = With(s.counters, name, At(s.counters, name, 0) + value)]
        BY <1>2 DEF AddCounter
      <3> QED
        BY <2>2, <3>1, <3>2, <3>3, <3>4 DEF IncrementEvent, c
    <2>4. EmptyMetrics \in Snapshots
      BY MapMembers DEF EmptyMetrics, Snapshots, TotalValues, HttpMaps, CounterMaps
    <2> QED
      BY <2>3, <2>4
  <1> QED
    BY <1>1, <1>2

-----------------------------------------------------------------------------
(***************************************************************************)
(* The collectors                                                          *)
(***************************************************************************)
SnapshotInv ==
    /\ single \in Snapshots /\ aggregate \in Snapshots /\ pending \in Batches
    /\ calls \in 0..MaxCalls
    /\ observed \in Seq(ValidSeries \X Durations)

Agreed == AddMetricsSnapshot(Alls(aggregate, pending)[Workers], MissedBy(observed)) = single

\* What a step does to the snapshots: the same event is merged into the two
\* collectors, and into one what the other misses of it; or a batch moves, or
\* nothing happens.
Recorded(w, e, x) ==
    /\ single' = AddMetricsSnapshot(AddMetricsSnapshot(single, e), x)
    /\ pending' = [pending EXCEPT ![w] = AddMetricsSnapshot(@, e)]
    /\ aggregate' = aggregate
    /\ MissedBy(observed') = AddMetricsSnapshot(MissedBy(observed), x)

BatchMoved(w) ==
    /\ single' = single /\ observed' = observed
    /\ pending' = [pending EXCEPT ![w] = EmptyMetrics]
    /\ aggregate' = AddMetricsSnapshot(aggregate, pending[w])

\* A snapshot that is built passes the primary's validators.
LEMMA SnapshotsValidate ==
    ASSUME NEW s \in Snapshots
    PROVE  /\ IsMetricsSnapshot(s)
           /\ s.totals \in [Totals -> Nat]
           /\ DOMAIN s.counters \subseteq ValidNames
           /\ \A n \in DOMAIN s.counters : s.counters[n] \in Nat
           /\ DOMAIN s.http \subseteq Series
  <1>1. s.totals \in TotalValues /\ s.http \in HttpMaps /\ s.counters \in CounterMaps
    BY SnapshotParts
  <1>2. /\ DOMAIN s.http \subseteq ValidSeries
        /\ \A k \in DOMAIN s.http : s.http[k] \in SeriesValues
    BY <1>1, MapMembers DEF HttpMaps
  <1>3. /\ DOMAIN s.counters \subseteq ValidNames
        /\ \A n \in DOMAIN s.counters : s.counters[n] \in Nat
    BY <1>1, MapMembers DEF CounterMaps
  <1>4. \A t \in Totals : s.totals[t] \in Nat
    BY <1>1 DEF TotalValues
  <1>5. \A k \in DOMAIN s.http :
            /\ s.http[k].requests \in Nat
            /\ s.http[k].duration.sum \in Nat /\ s.http[k].duration.count \in Nat
            /\ s.http[k].duration.buckets \in [Buckets -> Nat]
    BY <1>2 DEF SeriesValues, DurationValues
  <1>6. \A k \in DOMAIN s.http :
            /\ DOMAIN s.http[k].duration.buckets = Buckets
            /\ \A i \in Buckets : s.http[k].duration.buckets[i] >= 0
    BY <1>5
  <1>7. IsMetricsSnapshot(s)
    BY <1>2, <1>3, <1>4, <1>5, <1>6 DEF IsMetricsSnapshot
  <1> QED
    BY <1>1, <1>2, <1>3, <1>7, MetricsAssumption DEF TotalValues

\* Requests, counts, increments and flushes are such steps.
LEMMA StepsRecord ==
    ASSUME SnapshotInv, Next
    PROVE  \/ \E w \in Workers, e, x \in Snapshots : Recorded(w, e, x)
           \/ \E w \in Workers : BatchMoved(w)
           \/ UNCHANGED <<single, pending, aggregate, observed>>
  <1> USE DEF SnapshotInv
  <1>1. \A w \in Workers : pending[w] \in Snapshots
    BY DEF Batches
  <1>2. ASSUME NEW w \in Workers, NEW e \in Snapshots, UNCHANGED <<aggregate, observed>>,
               single' = AddMetricsSnapshot(single, e),
               pending' = [pending EXCEPT ![w] = AddMetricsSnapshot(@, e)]
        PROVE  Recorded(w, e, EmptyMetrics) /\ EmptyMetrics \in Snapshots
    <2>1. /\ EmptyMetrics \in Snapshots /\ \A s \in Snapshots : AddMetricsSnapshot(s, EmptyMetrics) = s
          /\ AddMetricsSnapshot(single, e) \in Snapshots
      BY <1>2, SnapshotsAdd
    <2>2. MissedBy(observed) \in Snapshots
      BY MissedSnapshot
    <2>3. MissedBy(observed') = AddMetricsSnapshot(MissedBy(observed), EmptyMetrics)
      BY <1>2, <2>1, <2>2, Zenon
    <2>4. single' = AddMetricsSnapshot(AddMetricsSnapshot(single, e), EmptyMetrics)
      BY <1>2, <2>1, Zenon
    <2> QED
      BY <1>2, <2>1, <2>3, <2>4 DEF Recorded
  <1>3. ASSUME NEW w \in Workers, NEW k \in Series, NEW seconds \in Durations,
               Request(w, k, seconds), AcceptsRequest(k, seconds)
        PROVE  \E e, x \in Snapshots : Recorded(w, e, x)
    <2>1. k \in ValidSeries /\ seconds \in Durations \intersect Nat
      BY <1>3, CollectorsAssumption DEF AcceptsRequest
    <2>2. /\ RequestEvent(k, seconds) \in Snapshots /\ MissedEvent(k, seconds) \in Snapshots
          /\ single' = AddMetricsSnapshot(AddMetricsSnapshot(single, RequestEvent(k, seconds)),
                                          MissedEvent(k, seconds))
      BY <1>3, <2>1, RequestIsAdd DEF Request, SingleRequest
    <2>3. /\ pending' = [pending EXCEPT ![w] = AddMetricsSnapshot(@, RequestEvent(k, seconds))]
          /\ aggregate' = aggregate
      BY <1>3 DEF Request, WorkerRequest, RequestEvent
    <2>4. MissedBy(observed') = AddMetricsSnapshot(MissedBy(observed), MissedEvent(k, seconds))
      <3>1. observed' = Append(observed, <<k, seconds>>)
        BY <1>3 DEF Request
      <3>2. MissedBy(Append(observed, <<k, seconds>>))
               = AddMetricsSnapshot(MissedBy(observed), MissedEvent(k, seconds))
        BY <2>1, MissedAppend
      <3> QED
        BY <3>1, <3>2, Zenon
    <2> QED
      BY <2>2, <2>3, <2>4 DEF Recorded
  <1>4. ASSUME NEW w \in Workers, NEW k \in Series, NEW seconds \in Durations,
               Request(w, k, seconds), ~AcceptsRequest(k, seconds)
        PROVE  UNCHANGED <<single, pending, aggregate, observed>>
    BY <1>4 DEF Request
  <1>5. ASSUME NEW w \in Workers, NEW t \in Totals, Count(w, t)
        PROVE  \E e, x \in Snapshots : Recorded(w, e, x)
    <2>1. /\ CountEvent(t) \in Snapshots
          /\ [single EXCEPT !.totals[t] = @ + 1] = AddMetricsSnapshot(single, CountEvent(t))
          /\ [pending[w] EXCEPT !.totals[t] = @ + 1] = AddMetricsSnapshot(pending[w], CountEvent(t))
      BY <1>1, CountIsAdd
    <2>2. [pending EXCEPT ![w].totals[t] = @ + 1]
            = [pending EXCEPT ![w] = [pending[w] EXCEPT !.totals[t] = @ + 1]]
      BY DEF Batches
    <2>3. [pending EXCEPT ![w] = [pending[w] EXCEPT !.totals[t] = @ + 1]]
            = [pending EXCEPT ![w] = AddMetricsSnapshot(@, CountEvent(t))]
      BY <2>1
    <2> QED
      BY <1>5, <1>2, <2>1, <2>2, <2>3 DEF Count
  <1>6. ASSUME NEW w \in Workers, NEW name \in Names, NEW value \in Values, Increment(w, name, value)
        PROVE  \E e, x \in Snapshots : Recorded(w, e, x)
    <2>1. value \in Int
      BY CollectorsAssumption
    <2>2. PICK e \in Snapshots : \A s \in Snapshots : AddCounter(s, name, value) = AddMetricsSnapshot(s, e)
      BY <2>1, IncrementIsAdd
    <2>3. /\ AddCounter(single, name, value) = AddMetricsSnapshot(single, e)
          /\ AddCounter(pending[w], name, value) = AddMetricsSnapshot(pending[w], e)
      BY <1>1, <2>2
    <2>4. [pending EXCEPT ![w] = AddCounter(@, name, value)] = [pending EXCEPT ![w] = AddMetricsSnapshot(@, e)]
      BY <2>3
    <2> QED
      BY <1>6, <1>2, <2>3, <2>4 DEF Increment
  <1>7. ASSUME NEW w \in Workers, Flush(w) PROVE BatchMoved(w)
    <2>1. IsMetricsSnapshot(pending[w])
      BY <1>1, SnapshotsValidate
    <2> QED
      BY <1>7, <2>1 DEF Flush, BatchMoved
  <1> QED
    BY <1>3, <1>4, <1>5, <1>6, <1>7 DEF Next

\* A step keeps the snapshots well formed and in agreement.
LEMMA StepsAgree ==
    ASSUME SnapshotInv, Agreed, Next
    PROVE  /\ single' \in Snapshots /\ aggregate' \in Snapshots /\ pending' \in Batches
           /\ Agreed'
  <1> USE DEF SnapshotInv
  <1> DEFINE A(x, y) == AddMetricsSnapshot(x, y)
  <1>1. /\ \A x, y \in Snapshots : A(x, y) \in Snapshots
        /\ EmptyMetrics \in Snapshots
        /\ \A w \in Workers : pending[w] \in Snapshots
    BY SnapshotsAdd DEF Batches
  <1>2. ASSUME NEW w \in Workers, NEW e \in Snapshots, NEW x \in Snapshots, Recorded(w, e, x)
        PROVE  /\ single' \in Snapshots /\ aggregate' \in Snapshots /\ pending' \in Batches
               /\ Agreed'
    <2>1. single' \in Snapshots /\ aggregate' \in Snapshots
      BY <1>1, <1>2 DEF Recorded
    <2>2. pending' \in Batches
      <3>1. A(pending[w], e) \in Snapshots
        BY <1>1
      <3> HIDE DEF A
      <3>2. pending' = [pending EXCEPT ![w] = A(pending[w], e)]
        BY <1>2 DEF Recorded, A
      <3> QED
        BY <3>1, <3>2 DEF Batches
    <2>3. Alls(aggregate, [pending EXCEPT ![w] = AddMetricsSnapshot(@, e)])[Workers]
             = AddMetricsSnapshot(Alls(aggregate, pending)[Workers], e)
      BY AllsRecord
    <2>4. A(Alls(aggregate', pending')[Workers], MissedBy(observed')) = single'
      <3> DEFINE all == Alls(aggregate, pending)[Workers]
                 missed == MissedBy(observed)
      <3>1. all \in Snapshots /\ missed \in Snapshots
        BY MissedSnapshot, AllsEquation
      <3>2. /\ Alls(aggregate', pending')[Workers] = A(all, e)
            /\ MissedBy(observed') = A(missed, x)
            /\ single' = A(A(A(all, missed), e), x)
        BY <1>2, <2>3, Zenon DEF Recorded, Agreed
      <3>3. A(A(all, e), A(missed, x)) = A(A(A(all, missed), e), x)
        <4>1. /\ \A a, b \in Snapshots : A(a, b) \in Snapshots /\ A(a, b) = A(b, a)
              /\ \A a, b, c \in Snapshots : A(A(a, b), c) = A(a, A(b, c))
          BY SnapshotsAdd
        <4> HIDE DEF A, all, missed
        <4>2. A(A(all, e), A(missed, x)) = A(A(A(all, e), missed), x)
          BY <3>1, <4>1
        <4>3. A(A(all, e), missed) = A(A(all, missed), e)
          BY <3>1, <4>1
        <4> QED
          BY <4>2, <4>3
      <3> HIDE DEF A, all, missed
      <3> QED
        BY <3>2, <3>3
    <2> QED
      BY <2>1, <2>2, <2>4 DEF Agreed
  <1>3. ASSUME NEW w \in Workers, BatchMoved(w)
        PROVE  /\ single' \in Snapshots /\ aggregate' \in Snapshots /\ pending' \in Batches
               /\ Agreed'
    <2>1. single' \in Snapshots /\ aggregate' \in Snapshots
      BY <1>1, <1>3 DEF BatchMoved
    <2>2. pending' \in Batches
      BY <1>1, <1>3 DEF BatchMoved, Batches
    <2>3. Alls(AddMetricsSnapshot(aggregate, pending[w]), [pending EXCEPT ![w] = EmptyMetrics])[Workers]
             = Alls(aggregate, pending)[Workers]
      BY AllsFlush
    <2>4. A(Alls(aggregate', pending')[Workers], MissedBy(observed')) = single'
      BY <1>3, <2>3, Zenon DEF BatchMoved, Agreed
    <2> QED
      BY <2>1, <2>2, <2>4 DEF Agreed
  <1>4. ASSUME UNCHANGED <<single, pending, aggregate, observed>>
        PROVE  /\ single' \in Snapshots /\ aggregate' \in Snapshots /\ pending' \in Batches
               /\ Agreed'
    <2>1. single' = single /\ pending' = pending /\ aggregate' = aggregate /\ observed' = observed
      BY <1>4
    <2>2. A(Alls(aggregate', pending')[Workers], MissedBy(observed')) = single'
      BY <2>1, Zenon DEF Agreed
    <2> QED
      BY <2>1, <2>2 DEF Agreed
  <1> QED
    BY <1>2, <1>3, <1>4, StepsRecord

\* The snapshots are well formed and agree in every state.
LEMMA CollectorsInvariant == Spec => [](SnapshotInv /\ Agreed)
<1>1. Init => SnapshotInv /\ Agreed
  <2> SUFFICES ASSUME Init PROVE SnapshotInv /\ Agreed
    OBVIOUS
  <2>1. EmptyMetrics \in Snapshots
    BY MapMembers DEF EmptyMetrics, Snapshots, TotalValues, HttpMaps, CounterMaps
  <2>2. SnapshotInv
    BY <2>1, CollectorsAssumption DEF Init, SnapshotInv, Batches
  <2>3. Agreed
    <3>1. Alls(EmptyMetrics, [w \in Workers |-> EmptyMetrics])[Workers] = EmptyMetrics
      BY AllsEmpty
    <3>2. MissedBy(<<>>) = EmptyMetrics
      <4>1. <<>> \in Seq(ValidSeries \X Durations)
        OBVIOUS
      <4> QED
        BY <4>1, MissedSnapshot
    <3>3. AddMetricsSnapshot(EmptyMetrics, EmptyMetrics) = EmptyMetrics
      BY <2>1, SnapshotsAdd
    <3> QED
      BY <3>1, <3>2, <3>3, Zenon DEF Init, Agreed
  <2> QED
    BY <2>2, <2>3
<1>2. SnapshotInv /\ Agreed /\ [Next]_vars => (SnapshotInv /\ Agreed)'
  <2> SUFFICES ASSUME SnapshotInv, Agreed, [Next]_vars PROVE SnapshotInv' /\ Agreed'
    OBVIOUS
  <2>1. CASE Next
    <3>1. single' \in Snapshots /\ aggregate' \in Snapshots /\ pending' \in Batches /\ Agreed'
      BY <2>1, StepsAgree
    <3>2. calls' \in 0..MaxCalls
      BY <2>1, CollectorsAssumption
         DEF SnapshotInv, Next, Request, Count, Increment, Flush, Call
    <3>3. observed' \in Seq(ValidSeries \X Durations)
      <4>1. ASSUME NEW w \in Workers, NEW k \in Series, NEW seconds \in Durations, Request(w, k, seconds)
            PROVE  observed' \in Seq(ValidSeries \X Durations)
        <5>1. CASE AcceptsRequest(k, seconds)
          <6>1. <<k, seconds>> \in ValidSeries \X Durations
            BY <5>1 DEF AcceptsRequest
          <6>2. observed' = Append(observed, <<k, seconds>>)
            BY <4>1, <5>1 DEF Request
          <6> QED
            BY <6>1, <6>2 DEF SnapshotInv
        <5>2. CASE ~AcceptsRequest(k, seconds)
          BY <4>1, <5>2 DEF SnapshotInv, Request
        <5> QED
          BY <5>1, <5>2
      <4> QED
        BY <2>1, <4>1 DEF SnapshotInv, Next, Count, Increment, Flush
    <3> QED
      BY <3>1, <3>2, <3>3 DEF SnapshotInv
  <2>2. CASE UNCHANGED vars
    <3>1. single' = single /\ pending' = pending /\ aggregate' = aggregate
          /\ calls' = calls /\ observed' = observed
      BY <2>2 DEF vars
    <3>2. SnapshotInv'
      BY <3>1 DEF SnapshotInv
    <3>3. AddMetricsSnapshot(Alls(aggregate', pending')[Workers], MissedBy(observed')) = single'
      BY <3>1, Zenon DEF Agreed
    <3> QED
      BY <3>2, <3>3 DEF Agreed
  <2> QED
    BY <2>1, <2>2
<1> QED
  BY <1>1, <1>2, PTL DEF Spec

\* Whatever is recorded, valid or not, in whatever order and however it is
\* batched, every snapshot is well formed and the primary's validators let
\* every batch in.
THEOREM SnapshotsStayValid == Spec => []SnapshotsValid
<1>1. SnapshotInv => SnapshotsValid
  <2> SUFFICES ASSUME SnapshotInv PROVE SnapshotsValid
    OBVIOUS
  <2>1. \A s \in {single, aggregate} \union {pending[w] : w \in Workers} : s \in Snapshots
    BY DEF SnapshotInv, Batches
  <2>2. TypeOK
    BY <2>1, SnapshotsValidate DEF TypeOK, SnapshotInv
  <2>3. BatchesAccepted
    BY <2>1, SnapshotsValidate DEF BatchesAccepted
  <2> QED
    BY <2>2, <2>3 DEF SnapshotsValid
<1> QED
  BY <1>1, CollectorsInvariant, PTL

\* The primary's totals and the batches still to come add up to what a single
\* process would have counted, but for the bucket of requests that took no time:
\* for any number of workers and calls, any durations, and any interleaving of
\* their flushes.
THEOREM TotalsAgree == Spec => []CollectorsAgree
<1>1. Agreed => CollectorsAgree
  BY DEF Agreed, CollectorsAgree, Alls
<1> QED
  BY <1>1, CollectorsInvariant, PTL

-----------------------------------------------------------------------------
(***************************************************************************)
(* The exposition                                                          *)
(***************************************************************************)
UpTo(d) ==
    CHOOSE upTo : upTo = [i \in 0..Len(Bounds) |->
        IF i = 0 THEN 0 ELSE upTo[i - 1] + d.buckets[i]]

\* The requests of a series that took no longer than a limit, and all of them.
Took(k, limit, obs) == {i \in DOMAIN obs : obs[i][1] = k /\ obs[i][2] <= limit}

Seen(k, obs) == {i \in DOMAIN obs : obs[i][1] = k}

\* The function in CumulativeBuckets satisfies its equation.
LEMMA UpToEquation ==
    ASSUME NEW d \in DurationValues
    PROVE  /\ UpTo(d)[0] = 0
           /\ \A i \in Buckets : UpTo(d)[i] = UpTo(d)[i - 1] + d.buckets[i]
           /\ \A i \in 0..Len(Bounds) : UpTo(d)[i] \in Nat
           /\ \A i \in Buckets : CumulativeBuckets(d)[i] = UpTo(d)[i]
  <1> DEFINE L == Len(Bounds)
             b == d.buckets
             Q(f) == f = [i \in 0..L |-> IF i = 0 THEN 0 ELSE f[i - 1] + b[i]]
             step == [i \in 1..L |-> [x \in Nat |-> x + b[i]]]
             h == UpTo(d)
  <1>1. L \in Nat /\ Buckets = 1..L
    BY MetricsAssumption DEF Buckets
  <1>2. \A i \in 1..L : b[i] \in Nat
    BY <1>1 DEF DurationValues
  <1>3. h = CHOOSE f : Q(f)
    BY DEF UpTo
  <1>4. \A i \in Buckets : CumulativeBuckets(d)[i] = h[i]
    BY DEF CumulativeBuckets, UpTo
  <1> HIDE DEF L, b
  <1>5. step \in [1..L -> [Nat -> Nat]] /\ 0 \in Nat
    BY <1>2
  <1>6. PICK f \in [0..L -> Nat] : IsRecursion(f, L, 0, step)
    <2> HIDE DEF step
    <2> QED
      BY <1>1, <1>5, RecursionExists, Zenon
  <1>7. Q(f)
    <2>1. \A i \in 1..L : i - 1 \in 0..L /\ f[i - 1] \in Nat
      BY <1>1
    <2>2. f[0] = 0 /\ \A i \in 1..L : f[i] = step[i][f[i - 1]]
      BY <1>6 DEF IsRecursion
    <2>3. \A i \in 1..L, x \in Nat : step[i][x] = x + b[i]
      OBVIOUS
    <2> HIDE DEF step
    <2>4. \A i \in 1..L : f[i] = f[i - 1] + b[i]
      BY <2>1, <2>2, <2>3
    <2>5. \A i \in 0..L : i = 0 \/ i \in 1..L
      BY <1>1
    <2>6. \A i \in 0..L : f[i] = IF i = 0 THEN 0 ELSE f[i - 1] + b[i]
      BY <2>2, <2>4, <2>5, Zenon
    <2> QED
      BY <2>6
  <1>8. Q(h)
    <2> HIDE DEF Q, h
    <2> QED
      BY <1>3, <1>7
  <1> HIDE DEF h
  <1>9. h[0] = 0 /\ \A i \in 1..L : h[i] = h[i - 1] + b[i]
    <2>1. 0 \in 0..L /\ \A i \in 1..L : i \in 0..L /\ i # 0
      BY <1>1
    <2>2. \A i \in 0..L : h[i] = IF i = 0 THEN 0 ELSE h[i - 1] + b[i]
      BY <1>8
    <2> QED
      BY <2>1, <2>2
  <1> DEFINE P == {i \in 0..L : h[i] \in Nat}
  <1>10. \A i \in 0..L : i \in P
    <2>1. 0 \in P
      BY <1>1, <1>9
    <2>2. ASSUME NEW i \in 1..L, i - 1 \in P PROVE i \in P
      <3>1. h[i - 1] \in Nat /\ h[i] = h[i - 1] + b[i] /\ b[i] \in Nat
        BY <1>2, <1>9, <2>2
      <3>2. h[i] \in Nat /\ i \in 0..L
        BY <1>1, <3>1
      <3> QED
        BY <3>2
    <2> HIDE DEF P
    <2> QED
      BY <1>1, <2>1, <2>2, BoundedInduction
  <1> QED
    BY <1>1, <1>4, <1>9, <1>10 DEF h, b, L

\* An observed duration adds one to the cumulative buckets of the bounds it
\* does not exceed, although observeDuration adds to a single bucket.
LEMMA ObserveCumulates ==
    ASSUME NEW d \in DurationValues, NEW seconds \in Nat
    PROVE  /\ ObserveDuration(d, seconds) \in DurationValues
           /\ \A i \in Buckets :
                 CumulativeBuckets(ObserveDuration(d, seconds))[i]
                   = CumulativeBuckets(d)[i] + IF seconds <= Bounds[i] THEN 1 ELSE 0
  <1> DEFINE fits == {i \in Buckets : seconds <= Bounds[i]}
             hit(i) == i \in fits /\ \A j \in fits : i <= j
             e == ObserveDuration(d, seconds)
             L == Len(Bounds)
             f == UpTo(d)
             g == UpTo(e)
             P == {i \in 0..L : g[i] = f[i] + IF i \in fits THEN 1 ELSE 0}
  <1>1. /\ Buckets = 1..L /\ L \in Nat
        /\ \A i \in Buckets : Bounds[i] \in Nat
        /\ \A i, j \in Buckets : i < j => Bounds[i] < Bounds[j]
    BY MetricsAssumption DEF Buckets
  <1>2. /\ d.sum \in Nat /\ d.count \in Nat /\ d.buckets \in [Buckets -> Nat]
        /\ \A i \in Buckets : d.buckets[i] \in Nat
    BY DEF DurationValues
  <1>3. e = [buckets |-> [i \in Buckets |-> d.buckets[i] + IF hit(i) THEN 1 ELSE 0],
             sum |-> d.sum + seconds, count |-> d.count + 1]
    BY DEF ObserveDuration
  <1> HIDE DEF e
  <1>4. e \in DurationValues /\ \A i \in Buckets : e.buckets[i] = d.buckets[i] + IF hit(i) THEN 1 ELSE 0
    <2> HIDE DEF hit
    <2> QED
      BY <1>2, <1>3 DEF DurationValues
  <1>5. /\ f[0] = 0 /\ g[0] = 0
        /\ \A i \in Buckets : f[i] = f[i - 1] + d.buckets[i] /\ g[i] = g[i - 1] + e.buckets[i]
        /\ \A i \in 0..L : f[i] \in Nat /\ g[i] \in Nat
        /\ \A i \in Buckets : CumulativeBuckets(d)[i] = f[i] /\ CumulativeBuckets(e)[i] = g[i]
    BY <1>4, UpToEquation
  <1> HIDE DEF f, g, L
  <1>6. \A i \in 0..L : i \in P
    <2>1. 0 \in P
      BY <1>1, <1>5
    <2>2. ASSUME NEW i \in 1..L, i - 1 \in P PROVE i \in P
      <3>1. /\ i \in Buckets /\ i - 1 \in 0..L /\ i \in 0..L
            /\ g[i - 1] = f[i - 1] + IF i - 1 \in fits THEN 1 ELSE 0
        BY <1>1, <2>2
      <3>2. /\ f[i] = f[i - 1] + d.buckets[i]
            /\ g[i] = g[i - 1] + (d.buckets[i] + IF hit(i) THEN 1 ELSE 0)
            /\ f[i - 1] \in Nat /\ d.buckets[i] \in Nat
        BY <1>2, <1>4, <1>5, <3>1
      <3>3. CASE i - 1 \in fits
        <4>1. i - 1 \in Buckets /\ i - 1 < i /\ seconds <= Bounds[i - 1]
          BY <1>1, <3>3
        <4>2. i \in fits
          BY <1>1, <3>1, <4>1
        <4>3. ~hit(i)
          BY <3>3, <4>1
        <4>4. g[i] = f[i] + 1
          BY <3>1, <3>2, <3>3, <4>3
        <4> QED
          BY <3>1, <4>2, <4>4
      <3>4. CASE i - 1 \notin fits
        <4>1. hit(i) <=> i \in fits
          <5>1. ASSUME i \in fits, NEW j \in fits, j < i PROVE FALSE
            <6>1. j \in Buckets /\ i - 1 \in Buckets /\ (j = i - 1 \/ j < i - 1)
              BY <1>1, <5>1
            <6>2. Bounds[j] <= Bounds[i - 1] /\ seconds <= Bounds[j]
              BY <1>1, <5>1, <6>1
            <6>3. seconds <= Bounds[i - 1]
              BY <1>1, <6>1, <6>2
            <6> QED
              BY <3>4, <6>1, <6>3
          <5>2. i \in fits => \A j \in fits : i <= j
            BY <1>1, <5>1
          <5> QED
            BY <5>2
        <4>2. g[i] = f[i] + IF i \in fits THEN 1 ELSE 0
          <5> HIDE DEF hit, fits
          <5> QED
            BY <3>1, <3>2, <3>4, <4>1
        <4> QED
          BY <3>1, <4>2
      <3> QED
        BY <3>3, <3>4
    <2> HIDE DEF P
    <2> QED
      BY <1>1, <2>1, <2>2, BoundedInduction
  <1>7. ASSUME NEW i \in Buckets
        PROVE  CumulativeBuckets(e)[i] = CumulativeBuckets(d)[i] + IF seconds <= Bounds[i] THEN 1 ELSE 0
    <2>1. i \in 0..L
      BY <1>1
    <2>2. g[i] = f[i] + IF i \in fits THEN 1 ELSE 0
      BY <1>6, <2>1
    <2> QED
      BY <1>5, <2>2
  <1> QED
    BY <1>4, <1>7 DEF e

\* One more observation.
LEMMA AppendCounts ==
    ASSUME NEW obs \in Seq(ValidSeries \X Durations), NEW k0 \in ValidSeries, NEW seconds \in Durations,
           NEW k, NEW limit \in Int
    PROVE  LET new == Append(obs, <<k0, seconds>>)
           IN  /\ Cardinality(Took(k, limit, obs)) \in Nat /\ Cardinality(Seen(k, obs)) \in Nat
               /\ Cardinality(Took(k, limit, new)) =
                    Cardinality(Took(k, limit, obs)) + IF k = k0 /\ seconds <= limit THEN 1 ELSE 0
               /\ Cardinality(Seen(k, new)) = Cardinality(Seen(k, obs)) + IF k = k0 THEN 1 ELSE 0
  <1> DEFINE new == Append(obs, <<k0, seconds>>)
             n == Len(obs) + 1
  <1>1. /\ Len(obs) \in Nat /\ DOMAIN obs = 1..Len(obs) /\ DOMAIN new = 1..n
        /\ new[n] = <<k0, seconds>> /\ \A i \in DOMAIN obs : new[i] = obs[i]
        /\ n \notin DOMAIN obs /\ DOMAIN new = DOMAIN obs \union {n}
    OBVIOUS
  <1>2. IsFiniteSet(DOMAIN obs)
    BY <1>1, FS_Interval
  <1>3. IsFiniteSet(Took(k, limit, obs)) /\ IsFiniteSet(Seen(k, obs))
    BY <1>2, FS_Subset DEF Took, Seen
  <1>4. n \notin Took(k, limit, obs) /\ n \notin Seen(k, obs)
    BY <1>1 DEF Took, Seen
  <1>5. new[n][1] = k0 /\ new[n][2] = seconds
    BY <1>1
  <1> HIDE DEF new, n
  <1>6. Took(k, limit, new) =
            IF k = k0 /\ seconds <= limit THEN Took(k, limit, obs) \union {n} ELSE Took(k, limit, obs)
    BY <1>1, <1>5 DEF Took
  <1>7. Seen(k, new) = IF k = k0 THEN Seen(k, obs) \union {n} ELSE Seen(k, obs)
    BY <1>1, <1>5 DEF Seen
  <1>8. Cardinality(Took(k, limit, obs)) \in Nat /\ Cardinality(Seen(k, obs)) \in Nat
    BY <1>3, FS_CardinalityType
  <1>9. Cardinality(Took(k, limit, obs) \union {n}) = Cardinality(Took(k, limit, obs)) + 1
    BY <1>3, <1>4, FS_AddElement
  <1>10. Cardinality(Seen(k, obs) \union {n}) = Cardinality(Seen(k, obs)) + 1
    BY <1>3, <1>4, FS_AddElement
  <1>11. Cardinality(Took(k, limit, new)) =
            Cardinality(Took(k, limit, obs)) + IF k = k0 /\ seconds <= limit THEN 1 ELSE 0
    <2>1. CASE k = k0 /\ seconds <= limit
      <3>1. Took(k, limit, new) = Took(k, limit, obs) \union {n}
        BY <1>6, <2>1
      <3> QED
        BY <1>9, <2>1, <3>1, Zenon
    <2>2. CASE ~(k = k0 /\ seconds <= limit)
      <3>1. Took(k, limit, new) = Took(k, limit, obs)
        BY <1>6, <2>2
      <3>2. Cardinality(Took(k, limit, new)) = Cardinality(Took(k, limit, obs))
        BY <3>1, Zenon
      <3> QED
        BY <1>8, <2>2, <3>2
    <2> QED
      BY <2>1, <2>2
  <1>12. Cardinality(Seen(k, new)) = Cardinality(Seen(k, obs)) + IF k = k0 THEN 1 ELSE 0
    <2>1. CASE k = k0
      <3>1. Seen(k, new) = Seen(k, obs) \union {n}
        BY <1>7, <2>1
      <3> QED
        BY <1>10, <2>1, <3>1, Zenon
    <2>2. CASE k # k0
      <3>1. Seen(k, new) = Seen(k, obs)
        BY <1>7, <2>2
      <3>2. Cardinality(Seen(k, new)) = Cardinality(Seen(k, obs))
        BY <3>1, Zenon
      <3> QED
        BY <1>8, <2>2, <3>2
    <2> QED
      BY <2>1, <2>2
  <1> QED
    BY <1>8, <1>11, <1>12 DEF new

\* What the exposition says of series k, counted or not.
Exposed(series, k, obs) ==
    /\ \A i \in Buckets : CumulativeBuckets(series.duration)[i] = Cardinality(Took(k, Bounds[i], obs))
    /\ series.duration.count = Cardinality(Seen(k, obs))
    /\ series.requests = series.duration.count

ExpositionInv == \A k \in ValidSeries : Exposed(At(single.http, k, EmptySeries), k, observed)

\* A request that is counted keeps the exposition right for every series.
LEMMA RequestExposed ==
    ASSUME SnapshotInv, ExpositionInv, NEW k0 \in ValidSeries, NEW seconds \in Durations, seconds >= 0,
           SingleRequest(k0, seconds), observed' = Append(observed, <<k0, seconds>>)
    PROVE  ExpositionInv'
  <1> DEFINE old(k) == At(single.http, k, EmptySeries)
             series == old(k0)
             new == [requests |-> series.requests + 1,
                     duration |-> ObserveDuration(series.duration, seconds)]
             obs == Append(observed, <<k0, seconds>>)
  <1>1. seconds \in Nat /\ seconds \in Int /\ \A i \in Buckets : Bounds[i] \in Int
    BY CollectorsAssumption, MetricsAssumption DEF Buckets
  <1>2. observed \in Seq(ValidSeries \X Durations) /\ single \in Snapshots
    BY DEF SnapshotInv
  <1>3. \A k : old(k) \in SeriesValues
    BY <1>2, SnapshotParts
  <1>4. single'.http = With(single.http, k0, new)
    <2>1. single = [totals |-> single.totals, http |-> single.http, counters |-> single.counters]
      BY <1>2, SnapshotParts
    <2>2. single' = [single EXCEPT !.http = With(@, k0, new)]
      BY DEF SingleRequest
    <2> HIDE DEF new
    <2> QED
      BY <2>1, <2>2
  <1>5. \A k : At(single'.http, k, EmptySeries) = IF k = k0 THEN new ELSE old(k)
    <2> HIDE DEF new
    <2> QED
      BY <1>4 DEF At, With
  <1>6. \A k \in ValidSeries : Exposed(old(k), k, observed)
    BY DEF ExpositionInv
  <1>7. series \in SeriesValues /\ Exposed(series, k0, observed)
    BY <1>3, <1>6
  <1>counts. ASSUME NEW k \in ValidSeries, NEW limit \in Int
             PROVE  /\ Cardinality(Took(k, limit, observed)) \in Nat
                    /\ Cardinality(Seen(k, observed)) \in Nat
                    /\ Cardinality(Took(k, limit, obs)) =
                          Cardinality(Took(k, limit, observed)) + IF k = k0 /\ seconds <= limit THEN 1 ELSE 0
                    /\ Cardinality(Seen(k, obs)) = Cardinality(Seen(k, observed)) + IF k = k0 THEN 1 ELSE 0
    BY <1>2, AppendCounts
  <1> HIDE DEF old
  <1>8. Exposed(new, k0, obs)
    <2> DEFINE d == series.duration
    <2> HIDE DEF series
    <2>1. series.requests \in Nat /\ d \in DurationValues /\ d.count \in Nat
      BY <1>7 DEF SeriesValues, DurationValues
    <2>2. new.requests = series.requests + 1 /\ new.duration = ObserveDuration(d, seconds)
      OBVIOUS
    <2>3. ObserveDuration(d, seconds).count = d.count + 1
      BY DEF ObserveDuration
    <2>4. \A i \in Buckets :
              CumulativeBuckets(ObserveDuration(d, seconds))[i]
                = CumulativeBuckets(d)[i] + IF seconds <= Bounds[i] THEN 1 ELSE 0
      BY <1>1, <2>1, ObserveCumulates
    <2>5. ASSUME NEW i \in Buckets
          PROVE  CumulativeBuckets(new.duration)[i] = Cardinality(Took(k0, Bounds[i], obs))
      <3>1. Cardinality(Took(k0, Bounds[i], obs)) =
                Cardinality(Took(k0, Bounds[i], observed)) + IF seconds <= Bounds[i] THEN 1 ELSE 0
        <4>1. Bounds[i] \in Int
          BY <1>1
        <4> HIDE DEF obs
        <4>2. Cardinality(Took(k0, Bounds[i], obs)) =
                 Cardinality(Took(k0, Bounds[i], observed))
                 + IF k0 = k0 /\ seconds <= Bounds[i] THEN 1 ELSE 0
          BY <4>1, <1>counts, Zenon
        <4> QED
          BY <4>2
      <3>2. CumulativeBuckets(d)[i] = Cardinality(Took(k0, Bounds[i], observed))
        BY <1>7 DEF Exposed
      <3>3. CumulativeBuckets(new.duration)[i] = CumulativeBuckets(d)[i] + IF seconds <= Bounds[i] THEN 1 ELSE 0
        BY <2>2, <2>4, Zenon
      <3> QED
        BY <3>1, <3>2, <3>3, Zenon
    <2>6. Cardinality(Seen(k0, obs)) = Cardinality(Seen(k0, observed)) + 1
      <3> HIDE DEF obs
      <3>1. 0 \in Int
        OBVIOUS
      <3>2. Cardinality(Seen(k0, obs)) = Cardinality(Seen(k0, observed)) + IF k0 = k0 THEN 1 ELSE 0
        BY <3>1, <1>counts, Zenon
      <3> QED
        BY <3>2
    <2>7. d.count = Cardinality(Seen(k0, observed)) /\ series.requests = d.count
      BY <1>7 DEF Exposed
    <2>8. new.duration.count = Cardinality(Seen(k0, obs)) /\ new.requests = new.duration.count
      <3> HIDE DEF obs, new, d
      <3> QED
        BY <2>1, <2>2, <2>3, <2>6, <2>7
    <2> QED
      BY <2>5, <2>8 DEF Exposed
  <1>9. ASSUME NEW k \in ValidSeries, k # k0 PROVE Exposed(old(k), k, obs)
    <2>1. ASSUME NEW limit \in Int
          PROVE  /\ Cardinality(Took(k, limit, obs)) = Cardinality(Took(k, limit, observed))
                 /\ Cardinality(Seen(k, obs)) = Cardinality(Seen(k, observed))
      <3> HIDE DEF obs
      <3>1. /\ Cardinality(Took(k, limit, observed)) \in Nat /\ Cardinality(Seen(k, observed)) \in Nat
            /\ Cardinality(Took(k, limit, obs)) =
                  Cardinality(Took(k, limit, observed)) + IF k = k0 /\ seconds <= limit THEN 1 ELSE 0
            /\ Cardinality(Seen(k, obs)) = Cardinality(Seen(k, observed)) + IF k = k0 THEN 1 ELSE 0
        BY <2>1, <1>counts, Zenon
      <3> QED
        BY <1>9, <3>1
    <2>2. \A i \in Buckets : Cardinality(Took(k, Bounds[i], obs)) = Cardinality(Took(k, Bounds[i], observed))
      BY <1>1, <2>1
    <2>3. Cardinality(Seen(k, obs)) = Cardinality(Seen(k, observed))
      <3>1. 0 \in Int
        OBVIOUS
      <3> QED
        BY <2>1, <3>1
    <2>4. Exposed(old(k), k, observed)
      BY <1>6
    <2> HIDE DEF obs
    <2> QED
      BY <2>2, <2>3, <2>4 DEF Exposed
  <1> HIDE DEF new, obs
  <1>10. \A k \in ValidSeries : Exposed(At(single'.http, k, EmptySeries), k, observed')
    <2> TAKE k \in ValidSeries
    <2>1. observed' = obs
      BY DEF obs
    <2>2. CASE k = k0
      <3>1. At(single'.http, k, EmptySeries) = new
        BY <1>5, <2>2
      <3> QED
        BY <1>8, <2>1, <2>2, <3>1, Zenon
    <2>3. CASE k # k0
      <3>1. At(single'.http, k, EmptySeries) = old(k)
        BY <1>5, <2>3
      <3> QED
        BY <1>9, <2>1, <2>3, <3>1, Zenon
    <2> QED
      BY <2>2, <2>3
  <1> QED
    BY <1>10 DEF ExpositionInv

\* Before anything is observed.
LEMMA NothingExposed ==
    ASSUME NEW k
    PROVE  Exposed(EmptySeries, k, <<>>)
  <1> DEFINE d == EmptyDuration
             L == Len(Bounds)
             f == UpTo(d)
             P == {i \in 0..L : f[i] = 0}
  <1>1. L \in Nat /\ Buckets = 1..L
    BY MetricsAssumption DEF Buckets
  <1>2. d \in DurationValues /\ d.count = 0 /\ \A i \in Buckets : d.buckets[i] = 0
    BY DEF EmptyDuration, DurationValues
  <1> HIDE DEF d, L
  <1>3. /\ f[0] = 0 /\ \A i \in Buckets : f[i] = f[i - 1] + d.buckets[i]
        /\ \A i \in Buckets : CumulativeBuckets(d)[i] = f[i]
    BY <1>2, UpToEquation
  <1> HIDE DEF f
  <1>4. \A i \in 0..L : i \in P
    <2>1. 0 \in P
      BY <1>1, <1>3
    <2>2. \A i \in 1..L : i - 1 \in P => i \in P
      BY <1>1, <1>2, <1>3
    <2> HIDE DEF P
    <2> QED
      BY <1>1, <2>1, <2>2, BoundedInduction
  <1>5. \A i \in Buckets : CumulativeBuckets(d)[i] = 0
    <2>1. \A i \in Buckets : i \in 0..L
      BY <1>1
    <2> QED
      BY <1>3, <1>4, <2>1
  <1>6. Seen(k, <<>>) = {} /\ \A limit : Took(k, limit, <<>>) = {}
    BY DEF Seen, Took
  <1>7. Cardinality(Seen(k, <<>>)) = 0 /\ \A limit : Cardinality(Took(k, limit, <<>>)) = 0
    BY <1>6, FS_EmptySet, Zenon
  <1>8. EmptySeries.requests = 0 /\ EmptySeries.duration = d
    BY DEF EmptySeries, d
  <1> QED
    BY <1>2, <1>5, <1>7, <1>8 DEF Exposed

\* For every series of a single process's exposition, the bucket of a bound
\* holds exactly the requests that took no longer than the bound, and +Inf,
\* the count and the request total all of them, for any ascending bounds.
THEOREM ExpositionIsRight == Spec => []ExpositionCounts
<1>1. Init => ExpositionInv
  <2> SUFFICES ASSUME Init, NEW k \in ValidSeries
               PROVE  Exposed(At(single.http, k, EmptySeries), k, observed)
    BY DEF ExpositionInv
  <2>1. At(single.http, k, EmptySeries) = EmptySeries
    <3>1. single.http = <<>> /\ DOMAIN <<>> = {}
      BY DEF Init, EmptyMetrics
    <3> QED
      BY <3>1 DEF At
  <2>2. observed = <<>>
    BY DEF Init
  <2> QED
    BY <2>1, <2>2, NothingExposed, Zenon
<1>2. SnapshotInv /\ ExpositionInv /\ [Next]_vars => ExpositionInv'
  <2> SUFFICES ASSUME SnapshotInv, ExpositionInv, [Next]_vars PROVE ExpositionInv'
    OBVIOUS
  <2>1. ASSUME single'.http = single.http, observed' = observed PROVE ExpositionInv'
    <3>1. \A k \in ValidSeries : Exposed(At(single'.http, k, EmptySeries), k, observed')
      BY <2>1, Zenon DEF ExpositionInv
    <3> QED
      BY <3>1 DEF ExpositionInv
  <2>2. single = [totals |-> single.totals, http |-> single.http, counters |-> single.counters]
    BY SnapshotParts DEF SnapshotInv
  <2>3. ASSUME NEW w \in Workers, NEW k \in Series, NEW seconds \in Durations, Request(w, k, seconds)
        PROVE  ExpositionInv'
    <3>1. CASE AcceptsRequest(k, seconds)
      BY <2>3, <3>1, RequestExposed DEF Request, AcceptsRequest
    <3>2. CASE ~AcceptsRequest(k, seconds)
      BY <2>1, <2>3, <3>2 DEF Request
    <3> QED
      BY <3>1, <3>2
  <2>4. ASSUME NEW w \in Workers, NEW t \in Totals, Count(w, t) PROVE ExpositionInv'
    <3>1. single'.http = single.http /\ observed' = observed
      BY <2>2, <2>4 DEF Count
    <3> QED
      BY <2>1, <3>1
  <2>5. ASSUME NEW w \in Workers, NEW name \in Names, NEW value \in Values, Increment(w, name, value)
        PROVE  ExpositionInv'
    <3>1. single'.http = single.http /\ observed' = observed
      BY <2>2, <2>5 DEF Increment, AddCounter
    <3> QED
      BY <2>1, <3>1
  <2>6. ASSUME NEW w \in Workers, Flush(w) PROVE ExpositionInv'
    BY <2>1, <2>6 DEF Flush
  <2>7. CASE UNCHANGED vars
    BY <2>1, <2>7 DEF vars
  <2> QED
    BY <2>3, <2>4, <2>5, <2>6, <2>7 DEF Next
<1>3. SnapshotInv /\ ExpositionInv => ExpositionCounts
  <2> SUFFICES ASSUME SnapshotInv, ExpositionInv, NEW k \in DOMAIN single.http
               PROVE  /\ \A i \in Buckets : CumulativeBuckets(single.http[k].duration)[i]
                            = Cardinality(Took(k, Bounds[i], observed))
                      /\ single.http[k].duration.count = Cardinality(Seen(k, observed))
                      /\ single.http[k].requests = single.http[k].duration.count
    BY DEF ExpositionCounts, Took, Seen
  <2>1. k \in ValidSeries
    BY SnapshotParts, MapMembers DEF SnapshotInv, HttpMaps
  <2>2. At(single.http, k, EmptySeries) = single.http[k]
    BY DEF At
  <2> QED
    BY <2>1, <2>2, Zenon DEF ExpositionInv, Exposed
<1>4. Spec => []SnapshotInv
  BY CollectorsInvariant, PTL
<1> QED
  BY <1>1, <1>2, <1>3, <1>4, PTL DEF Spec
=============================================================================
