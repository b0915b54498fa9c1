------------------------- MODULE RecursionTheorems -------------------------
(***************************************************************************)
(* Induction and recursion over numbers and finite sets, for recursive     *)
(* functions: that they satisfy their equations, the orbits of a function  *)
(* and walks along them, and sums (SumFunctionOnSet, with which the models *)
(* add up clicks, batches and events).  Induction is used in the form "a   *)
(* set of numbers that contains 0 and with each number the next contains   *)
(* them all", and a recursion is given by functions, not operators: both   *)
(* are first-order.                                                        *)
(***************************************************************************)
EXTENDS Integers, Functions, FiniteSetTheorems, WellFoundedInduction, TLAPS

\* A set of natural numbers has a least element.
LEMMA NatMinimum ==
    ASSUME NEW T, T \subseteq Nat, T # {}
    PROVE  \E x \in T : \A y \in T : x <= y
  <1> DEFINE R == OpToRel(<, Nat)
  <1>1. IsWellFoundedOn(R, Nat)
    BY NatLessThanWellFounded
  <1>2. PICK x \in T : \A y \in T : <<y, x>> \notin R
    <2> HIDE DEF R
    <2> QED
      BY <1>1, WFMin
  <1>3. \A y \in T : ~(y < x)
    BY <1>2 DEF OpToRel
  <1> QED
    BY <1>3

\* Induction over the natural numbers, for a set.
LEMMA NatSetInduction ==
    ASSUME NEW S, 0 \in S, \A n \in Nat : n \in S => n + 1 \in S
    PROVE  \A n \in Nat : n \in S
  <1> DEFINE T == {n \in Nat : n \notin S}
  <1>1. SUFFICES ASSUME T # {} PROVE FALSE
    OBVIOUS
  <1>2. PICK x \in T : \A y \in T : x <= y
    BY <1>1, NatMinimum
  <1>3. x # 0 /\ x - 1 \in Nat /\ x - 1 \notin T
    BY <1>2
  <1> QED
    BY <1>2, <1>3

\* Induction over the subsets of a finite set, for a set of subsets: a subset
\* may rest on all those that lack one of its elements.
LEMMA SubsetInduction ==
    ASSUME NEW S, IsFiniteSet(S), NEW P, {} \in P,
           \A T \in SUBSET S : T # {} /\ (\A x \in T : T \ {x} \in P) => T \in P
    PROVE  \A T \in SUBSET S : T \in P
  <1> DEFINE K == {n \in Nat : \A T \in SUBSET S : Cardinality(T) = n => T \in P}
  <1>1. \A T \in SUBSET S : IsFiniteSet(T) /\ Cardinality(T) \in Nat
    BY FS_Subset, FS_CardinalityType
  <1>2. 0 \in K
    BY <1>1, FS_EmptySet
  <1>3. ASSUME NEW n \in Nat, n \in K
        PROVE  n + 1 \in K
    <2> SUFFICES ASSUME NEW T \in SUBSET S, Cardinality(T) = n + 1
                 PROVE  T \in P
      OBVIOUS
    <2>1. IsFiniteSet(T)
      BY <1>1
    <2>2. Cardinality(T) = 0 <=> T = {}
      BY <2>1, FS_EmptySet
    <2>3. ASSUME NEW x \in T
          PROVE  T \ {x} \in P
      <3>1. Cardinality(T \ {x}) = Cardinality(T) - 1
        BY <2>1, FS_RemoveElement
      <3> QED
        BY <1>3, <3>1
    <2> QED
      BY <2>2, <2>3
  <1>4. \A n \in Nat : n \in K
    <2> HIDE DEF K
    <2> QED
      BY <1>2, <1>3, NatSetInduction
  <1> QED
    BY <1>1, <1>4

\* Induction up to a bound.
LEMMA BoundedInduction ==
    ASSUME NEW N \in Nat, NEW P, 0 \in P, \A n \in 1..N : n - 1 \in P => n \in P
    PROVE  \A n \in 0..N : n \in P
  <1> DEFINE K == {n \in Nat : n <= N => n \in P}
  <1>1. 0 \in K
    OBVIOUS
  <1>2. ASSUME NEW n \in Nat, n \in K
        PROVE  n + 1 \in K
    <2> SUFFICES ASSUME n + 1 <= N PROVE n + 1 \in P
      OBVIOUS
    <2>1. n + 1 \in 1..N /\ (n + 1) - 1 = n /\ n \in P
      BY <1>2
    <2> QED
      BY <2>1
  <1>3. \A n \in Nat : n \in K
    <2> HIDE DEF K
    <2> QED
      BY <1>1, <1>2, NatSetInduction
  <1> QED
    BY <1>3

-----------------------------------------------------------------------------
(***************************************************************************)
(* Recursion over numbers                                                  *)
(***************************************************************************)
\* What a recursion from a by the functions step[1], ..., step[N] computes.
IsRecursion(f, N, a, step) == f[0] = a /\ \A n \in 1..N : f[n] = step[n][f[n - 1]]

\* It computes something.
LEMMA RecursionExists ==
    ASSUME NEW N \in Nat, NEW S, NEW a \in S, NEW step \in [1..N -> [S -> S]]
    PROVE  \E f \in [0..N -> S] : IsRecursion(f, N, a, step)
  <1> DEFINE P == {m \in 0..N : \E f \in [0..N -> S] : IsRecursion(f, m, a, step)}
  <1>1. 0 \in P
    <2>1. [n \in 0..N |-> a] \in [0..N -> S] /\ IsRecursion([n \in 0..N |-> a], 0, a, step)
      BY DEF IsRecursion
    <2> QED
      BY <2>1
  <1>2. ASSUME NEW m \in 1..N, m - 1 \in P
        PROVE  m \in P
    <2>1. PICK f \in [0..N -> S] : IsRecursion(f, m - 1, a, step)
      BY <1>2
    <2> DEFINE g == [f EXCEPT ![m] = step[m][f[m - 1]]]
    <2>2. g \in [0..N -> S]
      OBVIOUS
    <2>3. IsRecursion(g, m, a, step)
      <3>1. g[0] = a /\ g[m] = step[m][g[m - 1]]
        BY <2>1 DEF IsRecursion
      <3>2. ASSUME NEW n \in 1..(m - 1) PROVE g[n] = step[n][g[n - 1]]
        BY <2>1, <3>2 DEF IsRecursion
      <3>3. \A n \in 1..m : n = m \/ n \in 1..(m - 1)
        OBVIOUS
      <3> HIDE DEF g
      <3> QED
        BY <3>1, <3>2, <3>3 DEF IsRecursion
    <2> HIDE DEF g
    <2> QED
      BY <2>2, <2>3
  <1>3. \A n \in 0..N : n \in P
    <2> HIDE DEF P
    <2> QED
      BY <1>1, <1>2, BoundedInduction
  <1> QED
    BY <1>3

\* Only one thing.
LEMMA RecursionUnique ==
    ASSUME NEW N \in Nat, NEW a, NEW step, NEW f, NEW g,
           IsRecursion(f, N, a, step), IsRecursion(g, N, a, step)
    PROVE  \A n \in 0..N : f[n] = g[n]
  <1> DEFINE P == {n \in 0..N : f[n] = g[n]}
  <1>1. 0 \in P
    BY DEF IsRecursion
  <1>2. \A n \in 1..N : n - 1 \in P => n \in P
    BY DEF IsRecursion
  <1> QED
    <2> HIDE DEF P
    <2>1. \A n \in 0..N : n \in P
      BY <1>1, <1>2, BoundedInduction
    <2> QED
      BY <2>1 DEF P

-----------------------------------------------------------------------------
(***************************************************************************)
(* Orbits                                                                  *)
(***************************************************************************)
\* f lists the iterates of F from p on.
IsOrbit(f, S, F, p) == f \in [Nat -> S] /\ f[0] = p /\ \A n \in Nat : f[n + 1] = F[f[n]]

Permutes(F, S) == F \in [S -> S] /\ IsInjective(F)

\* Every point has an orbit.
LEMMA OrbitExists ==
    ASSUME NEW S, NEW F \in [S -> S], NEW p \in S
    PROVE  \E f : IsOrbit(f, S, F, p)
  <1> DEFINE Steps(N) == [n \in 1..N |-> F]
             Start(N, f) == f \in [0..N -> S] /\ IsRecursion(f, N, p, Steps(N))
             start == [N \in Nat |-> CHOOSE f : Start(N, f)]
             orbit == [n \in Nat |-> start[n][n]]
  <1>1. ASSUME NEW N \in Nat PROVE \E f : Start(N, f)
    <2>1. Steps(N) \in [1..N -> [S -> S]]
      OBVIOUS
    <2> HIDE DEF Steps
    <2> QED
      BY <2>1, RecursionExists
  <1>2. \A N \in Nat : Start(N, start[N])
    <2> HIDE DEF Start
    <2> QED
      BY <1>1
  <1> HIDE DEF start
  <1>3. ASSUME NEW n \in Nat PROVE start[n + 1][n] = start[n][n]
    <2>1. IsRecursion(start[n + 1], n, p, Steps(n)) /\ IsRecursion(start[n], n, p, Steps(n))
      <3>1. IsRecursion(start[n + 1], n + 1, p, Steps(n + 1)) /\ IsRecursion(start[n], n, p, Steps(n))
        BY <1>2
      <3> QED
        BY <3>1 DEF IsRecursion
    <2> HIDE DEF Steps
    <2>2. \A m \in 0..n : start[n + 1][m] = start[n][m]
      BY <2>1, RecursionUnique
    <2> QED
      BY <2>2
  <1>4. ASSUME NEW n \in Nat PROVE start[n + 1][n + 1] = F[start[n + 1][n]]
    <2>1. IsRecursion(start[n + 1], n + 1, p, Steps(n + 1))
      BY <1>2
    <2> QED
      BY <2>1 DEF IsRecursion
  <1>5. orbit \in [Nat -> S]
    <2>1. \A n \in Nat : start[n] \in [0..n -> S]
      BY <1>2
    <2>2. \A n \in Nat : start[n][n] \in S
      BY <2>1
    <2> QED
      BY <2>2
  <1>6. IsOrbit(orbit, S, F, p)
    <2>1. orbit[0] = p
      BY <1>2 DEF IsRecursion
    <2>2. ASSUME NEW n \in Nat PROVE orbit[n + 1] = F[orbit[n]]
      BY <1>3, <1>4
    <2> QED
      BY <1>5, <2>1, <2>2 DEF IsOrbit
  <1> QED
    <2> HIDE DEF orbit
    <2> QED
      BY <1>6

\* The orbit of the second point is the rest of the orbit of the first.
LEMMA OrbitTail ==
    ASSUME NEW S, NEW F \in [S -> S], NEW p \in S,
           NEW f, IsOrbit(f, S, F, p), NEW g, IsOrbit(g, S, F, F[p])
    PROVE  \A n \in Nat : g[n] = f[n + 1]
  <1> DEFINE K == {n \in Nat : g[n] = f[n + 1]}
  <1>1. 0 \in K
    BY DEF IsOrbit
  <1>2. \A n \in Nat : n \in K => n + 1 \in K
    BY DEF IsOrbit
  <1>3. \A n \in Nat : n \in K
    <2> HIDE DEF K
    <2> QED
      BY <1>1, <1>2, NatSetInduction
  <1> QED
    BY <1>3

\* Orbits of an injection that meet come from one another.
LEMMA OrbitsCancel ==
    ASSUME NEW S, NEW F, Permutes(F, S),
           NEW p, NEW f, IsOrbit(f, S, F, p),
           NEW q, NEW g, IsOrbit(g, S, F, q),
           NEW m \in Nat, NEW d \in Nat, f[m] = g[m + d]
    PROVE  p = g[d]
  <1> DEFINE K == {n \in Nat : f[n] = g[n + d] => p = g[d]}
  <1>1. 0 \in K
    BY DEF IsOrbit
  <1>2. ASSUME NEW n \in Nat, n \in K
        PROVE  n + 1 \in K
    <2> SUFFICES ASSUME f[n + 1] = g[(n + 1) + d] PROVE p = g[d]
      OBVIOUS
    <2>1. n + d \in Nat /\ (n + 1) + d = (n + d) + 1
      OBVIOUS
    <2>2. f[n] \in S /\ g[n + d] \in S /\ F[f[n]] = F[g[n + d]]
      BY <2>1 DEF IsOrbit
    <2>3. f[n] = g[n + d]
      BY <2>2 DEF IsInjective, Permutes
    <2> QED
      BY <1>2, <2>3
  <1>3. \A n \in Nat : n \in K
    <2> HIDE DEF K
    <2> QED
      BY <1>1, <1>2, NatSetInduction
  <1> QED
    BY <1>3

\* In a finite set an injection comes back to where it started.
LEMMA OrbitReturns ==
    ASSUME NEW S, IsFiniteSet(S), NEW F, Permutes(F, S),
           NEW p, NEW f, IsOrbit(f, S, F, p)
    PROVE  \E d \in Nat : f[d + 1] = p
  <1>1. ASSUME NEW m \in Nat, NEW n \in Nat, m < n, f[m] = f[n]
        PROVE  \E d \in Nat : f[d + 1] = p
    <2> DEFINE e == n - m
    <2>1. e \in Nat /\ e - 1 \in Nat /\ n = m + e /\ e = (e - 1) + 1
      BY <1>1
    <2> HIDE DEF e
    <2>2. f[m] = f[m + e]
      BY <1>1, <2>1
    <2>3. p = f[e]
      BY <2>1, <2>2, OrbitsCancel
    <2> QED
      BY <2>1, <2>3
  <1> DEFINE N == Cardinality(S)
             D == 0..N
             h == [n \in D |-> f[n]]
  <1>2. N \in Nat
    BY FS_CardinalityType
  <1>3. IsFiniteSet(D) /\ Cardinality(D) = N + 1
    <2> HIDE DEF N
    <2> QED
      BY <1>2, FS_Interval
  <1>4. h \in [D -> S] /\ Cardinality(S) < Cardinality(D)
    <2>1. f \in [Nat -> S] /\ D \subseteq Nat
      BY <1>2 DEF IsOrbit
    <2>2. h \in [D -> S]
      <3> HIDE DEF D
      <3> QED
        BY <2>1
    <2>3. N < N + 1
      <3> HIDE DEF N
      <3> QED
        BY <1>2
    <2> HIDE DEF D, h
    <2> QED
      BY <1>3, <2>2, <2>3
  <1>5. \E i, j \in D : i # j /\ h[i] = h[j]
    <2> HIDE DEF N, D, h
    <2> QED
      BY <1>3, <1>4, FS_PigeonHole
  <1>6. \E i, j \in Nat : i # j /\ f[i] = f[j]
    BY <1>2, <1>5
  <1> QED
    BY <1>1, <1>6

-----------------------------------------------------------------------------
(***************************************************************************)
(* Walking along an orbit until it comes to a goal                         *)
(***************************************************************************)
\* w gives, for each point, the first point of G after it on its orbit.
IsWalk(w, S, F, G) == w = [q \in S |-> IF F[q] \in G THEN F[q] ELSE w[F[q]]]

\* A walk that does not end may lead anywhere, so there is such a function.
LEMMA WalkExists ==
    ASSUME NEW S, NEW F \in [S -> S], NEW G
    PROVE  \E w : IsWalk(w, S, F, G)
  <1> DEFINE Orb(q) == CHOOSE f : IsOrbit(f, S, F, q)
             Hits(q) == {n \in Nat : Orb(q)[n + 1] \in G}
             First(q) == CHOOSE n \in Hits(q) : \A m \in Hits(q) : n <= m
             w == [q \in S |-> IF Hits(q) # {} THEN Orb(q)[First(q) + 1] ELSE G]
  <1>1. ASSUME NEW q \in S PROVE IsOrbit(Orb(q), S, F, q)
    BY OrbitExists
  <1> HIDE DEF Orb
  <1>2. ASSUME NEW q \in S, Hits(q) # {}
        PROVE  First(q) \in Hits(q) /\ \A m \in Hits(q) : First(q) <= m
    <2>1. \E n \in Hits(q) : \A m \in Hits(q) : n <= m
      BY <1>2, NatMinimum
    <2> HIDE DEF Hits
    <2> QED
      BY <2>1
  <1> HIDE DEF First
  <1>3. ASSUME NEW q \in S
        PROVE  w[q] = IF F[q] \in G THEN F[q] ELSE w[F[q]]
    <2>0. F[q] \in S /\ IsOrbit(Orb(q), S, F, q) /\ IsOrbit(Orb(F[q]), S, F, F[q])
      BY <1>1
    <2>1. Orb(q)[0 + 1] = F[q] /\ F[q] \in S
      <3>1. \A n \in Nat : Orb(q)[n + 1] = F[Orb(q)[n]]
        BY <2>0 DEF IsOrbit
      <3>2. Orb(q)[0] = q
        BY <2>0 DEF IsOrbit
      <3> QED
        BY <2>0, <3>1, <3>2
    <2>2. \A n \in Nat : Orb(F[q])[n] = Orb(q)[n + 1]
      BY <2>0, OrbitTail
    <2>3. \A n \in Nat : n \in Hits(F[q]) <=> n + 1 \in Hits(q)
      BY <2>2
    <2>4. CASE F[q] \in G
      <3>1. 0 \in Hits(q)
        BY <2>1, <2>4
      <3>2. First(q) = 0
        BY <1>2, <3>1
      <3> QED
        BY <2>1, <2>4, <3>1, <3>2
    <2>5. CASE F[q] \notin G
      <3>1. 0 \notin Hits(q)
        BY <2>1, <2>5
      <3>2. CASE Hits(q) = {}
        <4>1. Hits(F[q]) = {}
          BY <2>3, <3>2
        <4> QED
          BY <2>1, <2>5, <3>2, <4>1
      <3>3. CASE Hits(q) # {}
        <4>1. First(q) \in Nat \ {0} /\ First(q) \in Hits(q) /\ \A m \in Hits(q) : First(q) <= m
          BY <1>2, <3>1, <3>3
        <4>2. First(q) - 1 \in Hits(F[q])
          BY <2>3, <4>1
        <4>3. First(F[q]) \in Hits(F[q]) /\ First(F[q]) <= First(q) - 1
          BY <1>2, <2>1, <4>2
        <4>4. First(F[q]) \in Nat /\ First(F[q]) + 1 \in Hits(q)
          BY <2>3, <4>3
        <4>5. First(F[q]) + 1 = First(q)
          BY <4>1, <4>3, <4>4
        <4>6. Orb(F[q])[First(F[q]) + 1] = Orb(q)[First(q) + 1]
          BY <2>2, <4>4, <4>5
        <4> QED
          BY <2>1, <2>5, <3>3, <4>2, <4>6
      <3> QED
        BY <3>2, <3>3
    <2> QED
      BY <2>4, <2>5
  <1>4. IsWalk(w, S, F, G)
    <2>1. w = [q \in S |-> w[q]]
      OBVIOUS
    <2> HIDE DEF w
    <2> QED
      BY <1>3, <2>1 DEF IsWalk
  <1> QED
    BY <1>4

\* An orbit comes to a goal with step n + 1, and not before.
Arrives(f, n, G) == f[n + 1] \in G /\ \A m \in Nat : m < n => f[m + 1] \notin G

\* From a goal, an injection of a finite set walks to a goal, along its orbit
\* and not past one.
LEMMA WalkEnds ==
    ASSUME NEW S, IsFiniteSet(S), NEW F, Permutes(F, S), NEW G,
           NEW w, IsWalk(w, S, F, G), NEW p \in G, NEW f, IsOrbit(f, S, F, p)
    PROVE  \E n \in Nat : w[p] = f[n + 1] /\ Arrives(f, n, G)
  <1> DEFINE Hits == {n \in Nat : f[n + 1] \in G}
  <1>1. Hits # {}
    <2>1. PICK d \in Nat : f[d + 1] = p
      BY OrbitReturns
    <2> QED
      BY <2>1
  <1>2. PICK n \in Hits : \A m \in Hits : n <= m
    BY <1>1, NatMinimum
  <1>3. n \in Nat /\ f[n + 1] \in G /\ \A m \in Nat : m < n => f[m + 1] \notin G
    BY <1>2
  <1>4. \A m \in Nat : f[m] \in S /\ f[m + 1] = F[f[m]]
    BY DEF IsOrbit
  <1>5. \A q \in S : w[q] = IF F[q] \in G THEN F[q] ELSE w[F[q]]
    BY DEF IsWalk
  <1> DEFINE P == {m \in 0..n : w[p] = w[f[m]]}
  <1>6. \A m \in 0..n : m \in P
    <2>1. 0 \in P
      BY <1>3 DEF IsOrbit
    <2>2. ASSUME NEW m \in 1..n, m - 1 \in P
          PROVE  m \in P
      <3>1. m - 1 \in Nat /\ (m - 1) + 1 = m /\ m - 1 < n
        BY <1>3
      <3>2. f[m] \notin G /\ f[m] = F[f[m - 1]] /\ f[m - 1] \in S
        BY <1>3, <1>4, <3>1
      <3>3. w[f[m - 1]] = w[f[m]]
        BY <1>5, <3>2
      <3> QED
        BY <2>2, <3>3
    <2> HIDE DEF P
    <2> QED
      BY <1>3, <2>1, <2>2, BoundedInduction
  <1>7. w[p] = w[f[n]] /\ w[f[n]] = f[n + 1]
    <2>1. n \in 0..n
      BY <1>3
    <2> QED
      BY <1>3, <1>4, <1>5, <1>6, <2>1
  <1> QED
    BY <1>3, <1>7 DEF Arrives

\* It walks from different goals to different goals.
LEMMA WalkInjective ==
    ASSUME NEW S, IsFiniteSet(S), NEW F, Permutes(F, S), NEW G \in SUBSET S,
           NEW w, IsWalk(w, S, F, G)
    PROVE  \A p, q \in G : w[p] \in G /\ (w[p] = w[q] => p = q)
  <1> SUFFICES ASSUME NEW p \in G, NEW q \in G
               PROVE  w[p] \in G /\ (w[p] = w[q] => p = q)
    OBVIOUS
  <1>1. PICK f : IsOrbit(f, S, F, p)
    BY OrbitExists DEF Permutes
  <1>2. PICK g : IsOrbit(g, S, F, q)
    BY OrbitExists DEF Permutes
  <1>3. PICK m \in Nat : w[p] = f[m + 1] /\ Arrives(f, m, G)
    BY <1>1, WalkEnds
  <1>4. PICK n \in Nat : w[q] = g[n + 1] /\ Arrives(g, n, G)
    BY <1>2, WalkEnds
  <1>5. ASSUME NEW a, NEW b, NEW x \in G, NEW y \in G,
               IsOrbit(a, S, F, x), IsOrbit(b, S, F, y),
               NEW i \in Nat, NEW j \in Nat, i <= j, a[i + 1] = b[j + 1], Arrives(b, j, G)
        PROVE  x = y
    <2> DEFINE d == j - i
               h == i + 1
    <2>1. d \in Nat /\ h \in Nat /\ j + 1 = h + d
      BY <1>5
    <2>2. a[h] = b[h + d]
      BY <1>5, <2>1
    <2>3. d # 0 => d - 1 \in Nat /\ d - 1 < j /\ (d - 1) + 1 = d
      BY <1>5
    <2> HIDE DEF d, h
    <2>4. x = b[d]
      BY <1>5, <2>1, <2>2, OrbitsCancel
    <2>5. d = 0
      BY <1>5, <2>3, <2>4 DEF Arrives
    <2> QED
      BY <1>5, <2>4, <2>5 DEF IsOrbit
  <1>6. ASSUME w[p] = w[q] PROVE p = q
    <2>1. f[m + 1] = g[n + 1]
      BY <1>3, <1>4, <1>6
    <2>2. CASE m <= n
      BY <1>1, <1>2, <1>4, <1>5, <2>1, <2>2
    <2>3. CASE n <= m
      BY <1>1, <1>2, <1>3, <1>5, <2>1, <2>3
    <2> QED
      BY <2>2, <2>3
  <1> QED
    BY <1>3, <1>6 DEF Arrives

-----------------------------------------------------------------------------
(***************************************************************************)
(* Recursion over finite sets                                              *)
(***************************************************************************)
\* The element such a recursion takes first.
Pick(s) == CHOOSE x \in s : TRUE

\* What a recursion from a computes that takes the elements of a set one by one.
IsSetRecursion(f, S, a, step) ==
    /\ f[{}] = a
    /\ \A T \in SUBSET S : T # {} => f[T] = step[Pick(T)][f[T \ {Pick(T)}]]

\* It computes something: with one more element at a time it is extended.
LEMMA SetRecursionExists ==
    ASSUME NEW S, IsFiniteSet(S), NEW V, NEW a \in V, NEW step \in [S -> [V -> V]]
    PROVE  \E f \in [SUBSET S -> V] : IsSetRecursion(f, S, a, step)
  <1> DEFINE Step(f, T) == IF T = {} THEN a ELSE step[Pick(T)][f[T \ {Pick(T)}]]
             Upto(f, n) == \A T \in SUBSET S : Cardinality(T) <= n => f[T] = Step(f, T)
             K == {n \in Nat : \E f \in [SUBSET S -> V] : Upto(f, n)}
  <1>1. \A T \in SUBSET S : IsFiniteSet(T) /\ Cardinality(T) \in Nat /\ Cardinality(T) <= Cardinality(S)
    BY FS_Subset, FS_CardinalityType
  <1>2. \A T \in SUBSET S : T # {} => Pick(T) \in T /\ T \ {Pick(T)} \in SUBSET S
    BY DEF Pick
  <1>3. \A T \in SUBSET S : T # {} => Cardinality(T \ {Pick(T)}) = Cardinality(T) - 1
    BY <1>1, <1>2, FS_RemoveElement
  <1>4. 0 \in K
    <2> DEFINE const == [T \in SUBSET S |-> a]
    <2>1. \A T \in SUBSET S : Cardinality(T) <= 0 => T = {}
      BY <1>1, FS_EmptySet
    <2>2. const \in [SUBSET S -> V] /\ Upto(const, 0)
      BY <2>1
    <2> QED
      BY <2>2
  <1>5. ASSUME NEW n \in Nat, n \in K
        PROVE  n + 1 \in K
    <2>1. PICK f \in [SUBSET S -> V] : Upto(f, n)
      BY <1>5
    <2> DEFINE g == [T \in SUBSET S |-> IF Cardinality(T) <= n THEN f[T] ELSE Step(f, T)]
    <2>2. ASSUME NEW T \in SUBSET S
          PROVE  Step(f, T) \in V
      <3>1. CASE T = {}
        BY <3>1
      <3>2. CASE T # {}
        <4>1. Pick(T) \in S /\ f[T \ {Pick(T)}] \in V
          BY <1>2, <3>2
        <4> QED
          BY <3>2, <4>1
      <3> QED
        BY <3>1, <3>2
    <2>3. g \in [SUBSET S -> V]
      BY <2>2
    <2>4. ASSUME NEW T \in SUBSET S, Cardinality(T) <= n + 1
          PROVE  g[T] = Step(g, T)
      <3>1. Step(g, T) = Step(f, T)
        <4>1. CASE T = {}
          BY <4>1
        <4>2. CASE T # {}
          <5>1. T \ {Pick(T)} \in SUBSET S /\ Cardinality(T \ {Pick(T)}) <= n
            BY <1>1, <1>2, <1>3, <2>4, <4>2
          <5>2. g[T \ {Pick(T)}] = f[T \ {Pick(T)}]
            BY <5>1
          <5> QED
            BY <4>2, <5>2
        <4> QED
          BY <4>1, <4>2
      <3>2. g[T] = Step(f, T)
        BY <2>1
      <3> QED
        BY <3>1, <3>2
    <2>5. Upto(g, n + 1)
      BY <2>4
    <2>6. \E f1 \in [SUBSET S -> V] : Upto(f1, n + 1)
      <3> HIDE DEF g, Upto
      <3> QED
        BY <2>3, <2>5
    <2>7. n + 1 \in Nat
      OBVIOUS
    <2> HIDE DEF g, Upto
    <2> QED
      BY <2>6, <2>7
  <1>6. Cardinality(S) \in K
    <2> HIDE DEF K
    <2> QED
      BY <1>1, <1>4, <1>5, NatSetInduction
  <1>7. PICK f \in [SUBSET S -> V] : Upto(f, Cardinality(S))
    BY <1>6
  <1>8. \A T \in SUBSET S : f[T] = Step(f, T)
    BY <1>1, <1>7
  <1>9. IsSetRecursion(f, S, a, step)
    BY <1>8 DEF IsSetRecursion
  <1> QED
    BY <1>9

-----------------------------------------------------------------------------
(***************************************************************************)
(* The recursive function behind the sum                                   *)
(***************************************************************************)
\* What the recursion makes of a subset.
SumStep(fun, sum, s) == IF s = {} THEN 0 ELSE fun[Pick(s)] + sum[s \ {Pick(s)}]

\* The function that SumFunctionOnSet defines and applies.
SubsetSums(fun, S) == CHOOSE sum : sum = [s \in SUBSET S |-> SumStep(fun, sum, s)]

\* The community module's fold is this function.
LEMMA SumIsSubsetSum ==
    ASSUME NEW fun, NEW S
    PROVE  SumFunctionOnSet(fun, S) = SubsetSums(fun, S)[S]
  BY DEF SumFunctionOnSet, FoldFunctionOnSet, MapThenFoldSet, SubsetSums, SumStep, Pick

\* Such a function exists.
LEMMA SubsetSumsExist ==
    ASSUME NEW S, IsFiniteSet(S), NEW fun, \A x \in S : fun[x] \in Int
    PROVE  \E sum \in [SUBSET S -> Int] : \A s \in SUBSET S : sum[s] = SumStep(fun, sum, s)
  <1> DEFINE step == [x \in S |-> [n \in Int |-> fun[x] + n]]
  <1>1. step \in [S -> [Int -> Int]] /\ 0 \in Int
    OBVIOUS
  <1>2. PICK sum \in [SUBSET S -> Int] : IsSetRecursion(sum, S, 0, step)
    <2> HIDE DEF step
    <2> QED
      BY <1>1, SetRecursionExists, Zenon
  <1>3. ASSUME NEW s \in SUBSET S, s # {}
        PROVE  sum[s] = fun[Pick(s)] + sum[s \ {Pick(s)}]
    <2>1. Pick(s) \in S /\ sum[s \ {Pick(s)}] \in Int
      BY <1>3 DEF Pick
    <2>2. sum[s] = step[Pick(s)][sum[s \ {Pick(s)}]]
      BY <1>2, <1>3 DEF IsSetRecursion
    <2> QED
      BY <2>1, <2>2
  <1>4. sum[{}] = 0
    BY <1>2 DEF IsSetRecursion
  <1>5. \A s \in SUBSET S : sum[s] = SumStep(fun, sum, s)
    BY <1>3, <1>4 DEF SumStep
  <1> QED
    BY <1>5

\* There is only one, and it depends on the function's values on the set alone.
LEMMA SubsetSumsUnique ==
    ASSUME NEW S, IsFiniteSet(S), NEW a, NEW b, \A x \in S : a[x] = b[x],
           NEW f, \A s \in SUBSET S : f[s] = SumStep(a, f, s),
           NEW g, \A s \in SUBSET S : g[s] = SumStep(b, g, s)
    PROVE  \A s \in SUBSET S : f[s] = g[s]
  <1> DEFINE P == {s \in SUBSET S : f[s] = g[s]}
  <1>1. {} \in P
    BY DEF SumStep
  <1>2. ASSUME NEW T \in SUBSET S, T # {}, \A x \in T : T \ {x} \in P
        PROVE  T \in P
    <2>1. Pick(T) \in T
      BY <1>2 DEF Pick
    <2>2. f[T \ {Pick(T)}] = g[T \ {Pick(T)}]
      BY <1>2, <2>1
    <2> QED
      BY <1>2, <2>1, <2>2 DEF SumStep
  <1>3. \A T \in SUBSET S : T \in P
    <2> HIDE DEF P
    <2> QED
      BY <1>1, <1>2, SubsetInduction
  <1> QED
    BY <1>3

\* The sum function satisfies its equation, and its values are integers.
LEMMA SubsetSumsEquation ==
    ASSUME NEW S, IsFiniteSet(S), NEW fun, \A x \in S : fun[x] \in Int
    PROVE  \A s \in SUBSET S :
               /\ SubsetSums(fun, S)[s] = SumStep(fun, SubsetSums(fun, S), s)
               /\ SubsetSums(fun, S)[s] \in Int
  <1> DEFINE Sums(sum) == sum = [s \in SUBSET S |-> SumStep(fun, sum, s)]
  <1>1. PICK g \in [SUBSET S -> Int] : \A s \in SUBSET S : g[s] = SumStep(fun, g, s)
    BY SubsetSumsExist
  <1>2. Sums(g)
    BY <1>1
  <1>3. Sums(CHOOSE sum : Sums(sum))
    <2> HIDE DEF Sums
    <2> QED
      BY <1>2
  <1>4. Sums(SubsetSums(fun, S))
    BY <1>3 DEF SubsetSums
  <1> DEFINE f == SubsetSums(fun, S)
  <1>5. \A s \in SUBSET S : f[s] = g[s]
    <2>1. \A s \in SUBSET S : f[s] = SumStep(fun, f, s)
      BY <1>4
    <2> QED
      BY <1>1, <2>1, SubsetSumsUnique
  <1> QED
    BY <1>1, <1>4, <1>5

-----------------------------------------------------------------------------
(***************************************************************************)
(* Sums                                                                    *)
(***************************************************************************)
\* The sum over a subset is a value of the sum function of the larger set.
LEMMA SumOfSubset ==
    ASSUME NEW S, IsFiniteSet(S), NEW fun, \A x \in S : fun[x] \in Int, NEW T \in SUBSET S
    PROVE  SumFunctionOnSet(fun, T) = SubsetSums(fun, S)[T]
  <1> DEFINE f == SubsetSums(fun, T)
             g == SubsetSums(fun, S)
  <1>1. IsFiniteSet(T)
    BY FS_Subset
  <1>2. \A s \in SUBSET T : f[s] = SumStep(fun, f, s)
    BY <1>1, SubsetSumsEquation
  <1>3. \A s \in SUBSET T : g[s] = SumStep(fun, g, s)
    BY SubsetSumsEquation
  <1>4. f[T] = g[T]
    <2> HIDE DEF f, g
    <2> QED
      BY <1>1, <1>2, <1>3, SubsetSumsUnique
  <1> QED
    BY <1>4, SumIsSubsetSum

\* A sum of integers is an integer.
LEMMA SumInt ==
    ASSUME NEW S, IsFiniteSet(S), NEW fun, \A x \in S : fun[x] \in Int
    PROVE  SumFunctionOnSet(fun, S) \in Int
  BY SubsetSumsEquation, SumIsSubsetSum

\* The sum over nothing.
LEMMA SumEmpty ==
    ASSUME NEW fun
    PROVE  SumFunctionOnSet(fun, {}) = 0
  <1>1. SubsetSums(fun, {})[{}] = SumStep(fun, SubsetSums(fun, {}), {})
    BY FS_EmptySet, SubsetSumsEquation
  <1> QED
    BY <1>1, SumIsSubsetSum DEF SumStep

\* Functions that agree on a set have the same sum over it.
LEMMA SumEqual ==
    ASSUME NEW S, IsFiniteSet(S), NEW a, NEW b,
           \A x \in S : a[x] \in Int /\ a[x] = b[x]
    PROVE  SumFunctionOnSet(a, S) = SumFunctionOnSet(b, S)
  <1> DEFINE f == SubsetSums(a, S)
             g == SubsetSums(b, S)
  <1>1. \A s \in SUBSET S : f[s] = SumStep(a, f, s)
    BY SubsetSumsEquation
  <1>2. \A s \in SUBSET S : g[s] = SumStep(b, g, s)
    BY SubsetSumsEquation
  <1>3. f[S] = g[S]
    <2> HIDE DEF f, g
    <2> QED
      BY <1>1, <1>2, SubsetSumsUnique
  <1> QED
    BY <1>3, SumIsSubsetSum

\* Any element may be taken out first.
LEMMA SumRemove ==
    ASSUME NEW S, IsFiniteSet(S), NEW fun, \A x \in S : fun[x] \in Int, NEW x \in S
    PROVE  SumFunctionOnSet(fun, S) = fun[x] + SumFunctionOnSet(fun, S \ {x})
  <1> DEFINE f == SubsetSums(fun, S)
             P == {T \in SUBSET S : \A y \in T : f[T] = fun[y] + f[T \ {y}]}
  <1>1. \A s \in SUBSET S : f[s] = SumStep(fun, f, s) /\ f[s] \in Int
    BY SubsetSumsEquation
  <1>2. ASSUME NEW T \in SUBSET S, T # {}, \A y \in T : T \ {y} \in P
        PROVE  T \in P
    <2> SUFFICES ASSUME NEW y \in T
                 PROVE  f[T] = fun[y] + f[T \ {y}]
      OBVIOUS
    <2> DEFINE p == Pick(T)
    <2>1. p \in T
      BY DEF Pick
    <2>2. f[T] = fun[p] + f[T \ {p}]
      BY <1>1, <1>2 DEF SumStep
    <2>3. CASE y = p
      BY <2>2, <2>3
    <2>4. CASE y # p
      <3>1. f[T \ {p}] = fun[y] + f[(T \ {p}) \ {y}]
        BY <1>2, <2>1, <2>4
      <3>2. f[T \ {y}] = fun[p] + f[(T \ {y}) \ {p}]
        BY <1>2, <2>1, <2>4
      <3>3. f[(T \ {p}) \ {y}] = f[(T \ {y}) \ {p}]
        <4>1. (T \ {p}) \ {y} = (T \ {y}) \ {p}
          OBVIOUS
        <4> QED
          BY <4>1, Zenon
      <3>4. /\ fun[y] \in Int /\ fun[p] \in Int
            /\ f[T] \in Int /\ f[T \ {p}] \in Int /\ f[T \ {y}] \in Int
            /\ f[(T \ {y}) \ {p}] \in Int
        BY <1>1, <2>1
      <3> HIDE DEF f, p
      <3> QED
        BY <2>2, <3>1, <3>2, <3>3, <3>4
    <2> QED
      BY <2>3, <2>4
  <1>3. {} \in P
    OBVIOUS
  <1>4. \A T \in SUBSET S : T \in P
    <2> HIDE DEF P
    <2> QED
      BY <1>2, <1>3, SubsetInduction
  <1>5. f[S] = fun[x] + f[S \ {x}]
    BY <1>4
  <1> QED
    BY <1>5, SumOfSubset

\* A sum of natural numbers is one.
LEMMA SumNat ==
    ASSUME NEW S, IsFiniteSet(S), NEW fun, \A x \in S : fun[x] \in Nat
    PROVE  SumFunctionOnSet(fun, S) \in Nat
  <1> DEFINE P == {T \in SUBSET S : SumFunctionOnSet(fun, T) \in Nat}
  <1>1. {} \in P
    BY SumEmpty
  <1>2. ASSUME NEW T \in SUBSET S, T # {}, \A x \in T : T \ {x} \in P
        PROVE  T \in P
    <2>1. PICK x \in T : TRUE
      BY <1>2
    <2>2. SumFunctionOnSet(fun, T) = fun[x] + SumFunctionOnSet(fun, T \ {x})
      BY FS_Subset, SumRemove
    <2> QED
      BY <1>2, <2>2
  <1>3. \A T \in SUBSET S : T \in P
    <2> HIDE DEF P
    <2> QED
      BY <1>1, <1>2, SubsetInduction
  <1> QED
    BY <1>3

\* A sum of zeros.
LEMMA SumZero ==
    ASSUME NEW S, IsFiniteSet(S), NEW fun, \A x \in S : fun[x] = 0
    PROVE  SumFunctionOnSet(fun, S) = 0
  <1> DEFINE P == {T \in SUBSET S : SumFunctionOnSet(fun, T) = 0}
  <1>1. {} \in P
    BY SumEmpty
  <1>2. ASSUME NEW T \in SUBSET S, T # {}, \A x \in T : T \ {x} \in P
        PROVE  T \in P
    <2>1. PICK x \in T : TRUE
      BY <1>2
    <2>2. SumFunctionOnSet(fun, T) = fun[x] + SumFunctionOnSet(fun, T \ {x})
      BY FS_Subset, SumRemove
    <2> QED
      BY <1>2, <2>2
  <1>3. \A T \in SUBSET S : T \in P
    <2> HIDE DEF P
    <2> QED
      BY <1>1, <1>2, SubsetInduction
  <1> QED
    BY <1>3

\* What changes at one element changes the sum by as much.
LEMMA SumUpdate ==
    ASSUME NEW S, IsFiniteSet(S), NEW a, NEW b, NEW x \in S,
           \A y \in S : a[y] \in Int /\ b[y] \in Int,
           \A y \in S \ {x} : a[y] = b[y]
    PROVE  SumFunctionOnSet(b, S) = SumFunctionOnSet(a, S) - a[x] + b[x]
  <1>1. IsFiniteSet(S \ {x})
    BY FS_RemoveElement
  <1>2. SumFunctionOnSet(a, S \ {x}) = SumFunctionOnSet(b, S \ {x})
    BY <1>1, SumEqual
  <1>3. SumFunctionOnSet(a, S \ {x}) \in Int
    BY <1>1, SumInt
  <1>4. SumFunctionOnSet(a, S) = a[x] + SumFunctionOnSet(a, S \ {x})
    BY SumRemove
  <1>5. SumFunctionOnSet(b, S) = b[x] + SumFunctionOnSet(b, S \ {x})
    BY SumRemove
  <1> QED
    BY <1>2, <1>3, <1>4, <1>5

\* Adding the values of a second function on part of the set adds their sum.
LEMMA SumMerge ==
    ASSUME NEW S, IsFiniteSet(S), NEW R \in SUBSET S, NEW a, NEW b, NEW c,
           \A x \in S : a[x] \in Int /\ b[x] \in Int,
           \A x \in S : c[x] = IF x \in R THEN a[x] + b[x] ELSE a[x]
    PROVE  SumFunctionOnSet(c, S) = SumFunctionOnSet(a, S) + SumFunctionOnSet(b, R)
  <1> DEFINE P == {T \in SUBSET S :
        SumFunctionOnSet(c, T) = SumFunctionOnSet(a, T) + SumFunctionOnSet(b, T \intersect R)}
  <1>0. \A x \in S : c[x] \in Int
    OBVIOUS
  <1>1. {} \in P
    <2>1. {} \intersect R = {}
      OBVIOUS
    <2>2. SumFunctionOnSet(b, {} \intersect R) = 0
      BY <2>1, SumEmpty, Zenon
    <2> QED
      BY <2>2, SumEmpty
  <1>2. ASSUME NEW T \in SUBSET S, T # {}, \A x \in T : T \ {x} \in P
        PROVE  T \in P
    <2>1. PICK x \in T : TRUE
      BY <1>2
    <2> DEFINE U == T \ {x}
    <2>2. IsFiniteSet(T) /\ IsFiniteSet(U) /\ IsFiniteSet(T \intersect R) /\ IsFiniteSet(U \intersect R)
      BY FS_Subset
    <2>3. SumFunctionOnSet(a, T) = a[x] + SumFunctionOnSet(a, U)
      BY <2>2, SumRemove
    <2>4. SumFunctionOnSet(c, T) = c[x] + SumFunctionOnSet(c, U)
      BY <1>0, <2>2, SumRemove
    <2>5. SumFunctionOnSet(c, U) = SumFunctionOnSet(a, U) + SumFunctionOnSet(b, U \intersect R)
      BY <1>2, <2>1
    <2>6. /\ SumFunctionOnSet(a, U) \in Int
          /\ SumFunctionOnSet(b, U \intersect R) \in Int
      BY <2>2, SumInt
    <2>7. CASE x \in R
      <3>1. (T \intersect R) \ {x} = U \intersect R
        OBVIOUS
      <3>2. SumFunctionOnSet(b, T \intersect R) =
              b[x] + SumFunctionOnSet(b, (T \intersect R) \ {x})
        BY <2>2, <2>7, SumRemove
      <3>3. SumFunctionOnSet(b, T \intersect R) = b[x] + SumFunctionOnSet(b, U \intersect R)
        BY <3>1, <3>2, Zenon
      <3>4. c[x] = a[x] + b[x] /\ a[x] \in Int /\ b[x] \in Int
        BY <2>7
      <3> HIDE DEF U
      <3> QED
        BY <2>3, <2>4, <2>5, <2>6, <3>3, <3>4
    <2>8. CASE x \notin R
      <3>1. T \intersect R = U \intersect R
        BY <2>8
      <3>2. SumFunctionOnSet(b, T \intersect R) = SumFunctionOnSet(b, U \intersect R)
        BY <3>1, Zenon
      <3>3. c[x] = a[x] /\ a[x] \in Int
        BY <2>8
      <3> HIDE DEF U
      <3> QED
        BY <2>3, <2>4, <2>5, <2>6, <3>2, <3>3
    <2> QED
      BY <2>7, <2>8
  <1>3. \A T \in SUBSET S : T \in P
    <2> HIDE DEF P
    <2> QED
      BY <1>1, <1>2, SubsetInduction
  <1>4. S \intersect R = R
    OBVIOUS
  <1>5. SumFunctionOnSet(b, S \intersect R) = SumFunctionOnSet(b, R)
    BY <1>4, Zenon
  <1> QED
    BY <1>3, <1>5

-----------------------------------------------------------------------------
(***************************************************************************)
(* Sums over the positions of a sequence                                   *)
(***************************************************************************)
\* One more position adds its value.
LEMMA SumLast ==
    ASSUME NEW n \in Nat, NEW a, \A i \in 1..(n + 1) : a[i] \in Int
    PROVE  SumFunctionOnSet(a, 1..(n + 1)) = SumFunctionOnSet(a, 1..n) + a[n + 1]
  <1>1. IsFiniteSet(1..(n + 1)) /\ IsFiniteSet(1..n)
    BY FS_Interval
  <1>2. SumFunctionOnSet(a, 1..(n + 1)) = a[n + 1] + SumFunctionOnSet(a, (1..(n + 1)) \ {n + 1})
    BY <1>1, SumRemove
  <1>3. (1..(n + 1)) \ {n + 1} = 1..n
    OBVIOUS
  <1>4. SumFunctionOnSet(a, (1..(n + 1)) \ {n + 1}) = SumFunctionOnSet(a, 1..n)
    BY <1>3, Zenon
  <1>5. SumFunctionOnSet(a, 1..n) \in Int
    BY <1>1, SumInt
  <1> QED
    BY <1>2, <1>4, <1>5

\* Taking the first position away shifts the others.
LEMMA SumShift ==
    ASSUME NEW n \in Nat, NEW a, NEW b, \A i \in 1..(n + 1) : a[i] \in Int,
           \A i \in 1..n : b[i] = a[i + 1]
    PROVE  SumFunctionOnSet(a, 1..(n + 1)) = a[1] + SumFunctionOnSet(b, 1..n)
  <1> DEFINE K == {m \in Nat : m <= n =>
        SumFunctionOnSet(a, 1..(m + 1)) = a[1] + SumFunctionOnSet(b, 1..m)}
  <1>1. 0 \in K
    <2>1. 1..0 = {} /\ (1..1) \ {1} = {}
      OBVIOUS
    <2>2. SumFunctionOnSet(a, (1..1) \ {1}) = 0 /\ SumFunctionOnSet(b, 1..0) = 0
      BY <2>1, SumEmpty, Zenon
    <2>3. IsFiniteSet(1..1)
      <3>1. 1..1 = {1}
        OBVIOUS
      <3> QED
        BY <3>1, FS_Singleton, Zenon
    <2>4. SumFunctionOnSet(a, 1..1) = a[1] + SumFunctionOnSet(a, (1..1) \ {1})
      BY <2>3, SumRemove
    <2> QED
      BY <2>2, <2>4
  <1>2. ASSUME NEW m \in Nat, m \in K
        PROVE  m + 1 \in K
    <2> SUFFICES ASSUME m + 1 <= n
                 PROVE  SumFunctionOnSet(a, 1..(m + 1 + 1)) = a[1] + SumFunctionOnSet(b, 1..(m + 1))
      OBVIOUS
    <2>1. SumFunctionOnSet(a, 1..(m + 1 + 1)) = SumFunctionOnSet(a, 1..(m + 1)) + a[m + 1 + 1]
      BY SumLast
    <2>2. SumFunctionOnSet(b, 1..(m + 1)) = SumFunctionOnSet(b, 1..m) + b[m + 1]
      BY SumLast
    <2>3. SumFunctionOnSet(a, 1..(m + 1)) = a[1] + SumFunctionOnSet(b, 1..m)
      BY <1>2
    <2>4. b[m + 1] = a[m + 1 + 1] /\ a[1] \in Int /\ a[m + 1 + 1] \in Int
      OBVIOUS
    <2>5. SumFunctionOnSet(b, 1..m) \in Int
      <3>1. IsFiniteSet(1..m)
        BY FS_Interval
      <3> QED
        BY <3>1, SumInt
    <2> QED
      BY <2>1, <2>2, <2>3, <2>4, <2>5
  <1>3. n \in K
    <2> HIDE DEF K
    <2> QED
      BY <1>1, <1>2, NatSetInduction
  <1> QED
    BY <1>3

\* A prefix adds up to no more than the whole.
LEMMA SumPrefix ==
    ASSUME NEW n \in Nat, NEW m \in 0..n, NEW a, \A i \in 1..n : a[i] \in Nat
    PROVE  SumFunctionOnSet(a, 1..m) <= SumFunctionOnSet(a, 1..n)
  <1> DEFINE K == {k \in Nat : m + k <= n =>
        SumFunctionOnSet(a, 1..m) <= SumFunctionOnSet(a, 1..(m + k))}
  <1>0. SumFunctionOnSet(a, 1..m) \in Nat
    <2>1. IsFiniteSet(1..m)
      BY FS_Interval
    <2> QED
      BY <2>1, SumNat
  <1>1. 0 \in K
    BY <1>0
  <1>2. ASSUME NEW k \in Nat, k \in K
        PROVE  k + 1 \in K
    <2> SUFFICES ASSUME m + (k + 1) <= n
                 PROVE  SumFunctionOnSet(a, 1..m) <= SumFunctionOnSet(a, 1..(m + (k + 1)))
      OBVIOUS
    <2>1. SumFunctionOnSet(a, 1..(m + k + 1)) = SumFunctionOnSet(a, 1..(m + k)) + a[m + k + 1]
      BY SumLast
    <2>2. SumFunctionOnSet(a, 1..m) <= SumFunctionOnSet(a, 1..(m + k))
      BY <1>2
    <2>3. SumFunctionOnSet(a, 1..(m + k)) \in Nat /\ a[m + k + 1] \in Nat
      <3>1. IsFiniteSet(1..(m + k))
        BY FS_Interval
      <3> QED
        BY <3>1, SumNat
    <2>4. m + (k + 1) = m + k + 1
      OBVIOUS
    <2> QED
      BY <1>0, <2>1, <2>2, <2>3, <2>4
  <1>3. \A k \in Nat : k \in K
    <2> HIDE DEF K
    <2> QED
      BY <1>1, <1>2, NatSetInduction
  <1>4. n - m \in K
    BY <1>3
  <1> QED
    BY <1>4
=============================================================================
