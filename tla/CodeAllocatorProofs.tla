------------------------ MODULE CodeAllocatorProofs ------------------------
(***************************************************************************)
(* Proofs about CodeAllocator: about the ids of BlockCodeAllocator, for    *)
(* any number of processes and calls and any block size; about the         *)
(* scrambler, for any sizes and any mixers; and about the codes, which are *)
(* the one applied to the other.                                           *)
(*                                                                         *)
(* The scrambler's recursive functions satisfy their equations by          *)
(* RecursionTheorems, and so does the loop of permute: a network that      *)
(* permutes the pairs of halves brings a pair inside the code space back   *)
(* inside, and two such walks cannot meet.                                 *)
(***************************************************************************)
EXTENDS CodeAllocator, RecursionTheorems, TLAPS

\* The ids process p may still hand out: the rest of its block, and a block
\* PostgreSQL has granted it but reserve has not stored yet.
MayIssue(p, i) ==
    \/ next[p] <= i /\ i < end[p]
    \/ reservation[p] = "granted" /\ granted[p] <= i /\ i < granted[p] + BlockSize

GrantedIsBlock ==
    \A p \in Processes : reservation[p] = "granted" => granted[p] \in Nat

\* Below the sequence, of one process only, and never issued before.
StockBelowSequence ==
    \A p \in Processes : \A i \in Nat : MayIssue(p, i) => i < sequence

StockDisjoint ==
    \A p, q \in Processes : \A i \in Nat : MayIssue(p, i) /\ MayIssue(q, i) => p = q

StockUnissued ==
    \A c \in Callers :
        id[c] # None => id[c] < sequence /\ \A p \in Processes : ~MayIssue(p, id[c])

StockInCodeSpace == \A p \in Processes : end[p] <= CodeSpace

TypeInv == TypeOK /\ GrantedIsBlock

UniqueInv ==
    /\ StockBelowSequence /\ StockDisjoint /\ StockUnissued
    /\ IdsUnique

SpaceInv == StockInCodeSpace /\ IdsInCodeSpace

WaitInv == NoBlockWasted /\ NoStrandedCaller

-----------------------------------------------------------------------------
\* Every variable keeps its type, and a granted reservation has its block.
THEOREM TypeCorrect == Spec => []TypeInv
<1>1. Init => TypeInv
  BY AllocatorAssumption DEF Init, TypeInv, TypeOK, GrantedIsBlock, CallStates
<1>2. TypeInv /\ [Next]_vars => TypeInv'
  <2> SUFFICES ASSUME TypeInv, [Next]_vars PROVE TypeInv'
    OBVIOUS
  <2> USE AllocatorAssumption DEF TypeInv, TypeOK, GrantedIsBlock, CallStates
  <2>1. ASSUME NEW c \in Callers, Call(c) PROVE TypeInv'
    BY <2>1 DEF Call
  <2>2. ASSUME NEW c \in Callers, TakeId(c) PROVE TypeInv'
    BY <2>2 DEF TakeId
  <2>3. ASSUME NEW c \in Callers, AwaitReservation(c) PROVE TypeInv'
    BY <2>3 DEF AwaitReservation
  <2>4. ASSUME NEW p \in Processes, ReserveBlock(p) PROVE TypeInv'
    BY <2>4 DEF ReserveBlock
  <2>5. ASSUME NEW p \in Processes, Reserved(p) PROVE TypeInv'
    BY <2>5 DEF Reserved, Settle
  <2>6. ASSUME NEW p \in Processes, Exhausted(p) PROVE TypeInv'
    BY <2>6 DEF Exhausted, Settle
  <2>7. ASSUME NEW p \in Processes, ReserveFails(p) PROVE TypeInv'
    BY <2>7 DEF ReserveFails, Settle
  <2>8. ASSUME NEW p \in Processes, Restart(p) PROVE TypeInv'
    BY <2>8 DEF Restart
  <2>9. CASE UNCHANGED vars
    BY <2>9 DEF vars
  <2> QED
    BY <2>1, <2>2, <2>3, <2>4, <2>5, <2>6, <2>7, <2>8, <2>9 DEF Next, CallStep, ReservationStep
<1> QED
  BY <1>1, <1>2, PTL DEF Spec

\* Blocks, the shared reservation and the sequence (code-allocator.ts,
\* postgres-id-block-source.ts) keep their types.
THEOREM TypesKept == Spec => []TypeOK
<1>1. TypeInv => TypeOK
  BY DEF TypeInv
<1> QED
  BY <1>1, TypeCorrect, PTL

\* A reservation is in flight exactly while the block is used up and somebody
\* waits for the next: no live block is overwritten, nobody waits in vain.
THEOREM ReservationsNeeded == Spec => [](NoBlockWasted /\ NoStrandedCaller)
<1>1. Init => WaitInv
  BY AllocatorAssumption DEF Init, WaitInv, NoBlockWasted, NoStrandedCaller
<1>2. TypeInv /\ WaitInv /\ [Next]_vars => WaitInv'
  <2> SUFFICES ASSUME TypeInv, WaitInv, [Next]_vars PROVE WaitInv'
    OBVIOUS
  <2> USE AllocatorAssumption
          DEF TypeInv, TypeOK, GrantedIsBlock, WaitInv, NoBlockWasted, NoStrandedCaller, Waiting
  <2>1. ASSUME NEW c \in Callers, Call(c) PROVE WaitInv'
    BY <2>1 DEF Call
  <2>2. ASSUME NEW c \in Callers, TakeId(c) PROVE WaitInv'
    BY <2>2 DEF TakeId
  <2>3. ASSUME NEW c \in Callers, AwaitReservation(c) PROVE WaitInv'
    BY <2>3 DEF AwaitReservation
  <2>4. ASSUME NEW p \in Processes, ReserveBlock(p) PROVE WaitInv'
    BY <2>4 DEF ReserveBlock
  <2>5. ASSUME NEW p \in Processes, Reserved(p) PROVE WaitInv'
    BY <2>5 DEF Reserved, Settle
  <2>6. ASSUME NEW p \in Processes, Exhausted(p) PROVE WaitInv'
    BY <2>6 DEF Exhausted, Settle
  <2>7. ASSUME NEW p \in Processes, ReserveFails(p) PROVE WaitInv'
    BY <2>7 DEF ReserveFails, Settle
  <2>8. ASSUME NEW p \in Processes, Restart(p) PROVE WaitInv'
    BY <2>8 DEF Restart
  <2>9. CASE UNCHANGED vars
    BY <2>9 DEF vars
  <2> QED
    BY <2>1, <2>2, <2>3, <2>4, <2>5, <2>6, <2>7, <2>8, <2>9 DEF Next, CallStep, ReservationStep
<1> QED
  BY <1>1, <1>2, TypeCorrect, PTL DEF Spec, WaitInv

\* Whoever waits for a block (nextCode, code-allocator.ts) waits for a
\* reservation that is under way or has been answered, however many callers
\* share it and whether or not it failed, and no answer overwrites ids that are
\* left.
THEOREM CallersServed == Spec => []ReservationsServe
  BY ReservationsNeeded, PTL DEF ReservationsServe

\* A step that issues no id and enlarges no stock keeps ids unique.
LEMMA StockShrinks ==
  ASSUME TypeInv, sequence' \in Nat, sequence <= sequence',
         \A p \in Processes : \A i \in Nat : MayIssue(p, i)' => MayIssue(p, i),
         UNCHANGED id, UniqueInv
  PROVE  UniqueInv'
  BY AllocatorAssumption
     DEF TypeInv, TypeOK, UniqueInv, StockBelowSequence, StockDisjoint, StockUnissued, IdsUnique

\* Concurrent callers, other processes, restarts and lost answers never make
\* two calls of nextCode return the same id.
THEOREM UniqueIds == Spec => []IdsUnique
<1>1. Init => UniqueInv
  BY AllocatorAssumption
     DEF Init, UniqueInv, StockBelowSequence, StockDisjoint, StockUnissued, IdsUnique, MayIssue
<1>2. TypeInv /\ TypeInv' /\ NoBlockWasted /\ UniqueInv /\ [Next]_vars => UniqueInv'
  <2> SUFFICES ASSUME TypeInv, TypeInv', NoBlockWasted, UniqueInv, [Next]_vars PROVE UniqueInv'
    OBVIOUS
  <2> USE AllocatorAssumption DEF TypeInv, TypeOK, GrantedIsBlock
  <2>1. ASSUME NEW c \in Callers, Call(c) PROVE UniqueInv'
    BY <2>1, StockShrinks DEF Call, MayIssue
  <2>2. ASSUME NEW c \in Callers, TakeId(c) PROVE UniqueInv'
    <3> DEFINE h == Home[c]
    <3>1. h \in Processes /\ next[h] \in Nat
      OBVIOUS
    <3>2. PICK n \in Nat : n = next[h]
      BY <3>1
    <3>3. MayIssue(h, n)
      BY <2>2, <3>2 DEF TakeId, MayIssue
    <3>4. \A p \in Processes : \A i \in Nat : MayIssue(p, i)' => MayIssue(p, i)
      BY <2>2 DEF TakeId, MayIssue
    <3>5. ASSUME NEW p \in Processes, MayIssue(p, n)' PROVE FALSE
      <4>1. p = h
        BY <3>1, <3>3, <3>4, <3>5 DEF UniqueInv, StockDisjoint
      <4> QED
        BY <2>2, <3>2, <3>5, <4>1 DEF TakeId, MayIssue, NoBlockWasted
    <3>6. id' = [id EXCEPT ![c] = n] /\ sequence' = sequence
      BY <2>2, <3>2 DEF TakeId
    <3>7. StockBelowSequence' /\ StockDisjoint'
      BY <3>4, <3>6 DEF UniqueInv, StockBelowSequence, StockDisjoint
    <3>8. ASSUME NEW d \in Callers, id'[d] # None
          PROVE  id'[d] < sequence' /\ \A p \in Processes : ~MayIssue(p, id[d])'
      <4>1. CASE d = c
        <5>1. id'[d] = n
          BY <3>6, <4>1
        <5>2. n < sequence
          BY <3>1, <3>3 DEF UniqueInv, StockBelowSequence
        <5> QED
          BY <3>5, <3>6, <5>1, <5>2 DEF MayIssue
      <4>2. CASE d # c
        <5>1. id'[d] = id[d] /\ id[d] \in Nat
          BY <3>6, <3>8, <4>2
        <5>2. PICK i \in Nat : i = id[d]
          BY <5>1
        <5>3. i < sequence /\ \A p \in Processes : ~MayIssue(p, i)
          BY <3>8, <5>1, <5>2 DEF UniqueInv, StockUnissued
        <5>4. \A p \in Processes : ~MayIssue(p, i)'
          BY <3>4, <5>3
        <5> QED
          BY <3>6, <5>1, <5>2, <5>3, <5>4 DEF MayIssue
      <4> QED
        BY <4>1, <4>2
    <3>9. StockUnissued'
      BY <3>8 DEF StockUnissued
    <3>10. \A d \in Callers : id[d] # n
      BY <3>1, <3>3 DEF UniqueInv, StockUnissued
    <3>11. IdsUnique'
      BY <3>6, <3>10 DEF UniqueInv, IdsUnique
    <3> QED
      BY <3>7, <3>9, <3>11 DEF UniqueInv
  <2>3. ASSUME NEW c \in Callers, AwaitReservation(c) PROVE UniqueInv'
    BY <2>3, StockShrinks DEF AwaitReservation, MayIssue
  <2>4. ASSUME NEW p \in Processes, ReserveBlock(p) PROVE UniqueInv'
    <3>1. /\ sequence' = sequence + BlockSize
          /\ UNCHANGED id
          /\ \A q \in Processes : \A i \in Nat :
                MayIssue(q, i)' =>
                    MayIssue(q, i) \/ (q = p /\ sequence <= i /\ i < sequence + BlockSize)
      BY <2>4 DEF ReserveBlock, MayIssue
    <3>2. StockBelowSequence'
      BY <3>1 DEF UniqueInv, StockBelowSequence
    <3>3. StockDisjoint'
      BY <3>1 DEF UniqueInv, StockBelowSequence, StockDisjoint
    <3>4. StockUnissued' /\ IdsUnique'
      BY <3>1 DEF UniqueInv, StockUnissued, IdsUnique
    <3> QED
      BY <3>2, <3>3, <3>4 DEF UniqueInv
  <2>5. ASSUME NEW p \in Processes, Reserved(p) PROVE UniqueInv'
    BY <2>5, StockShrinks DEF Reserved, Settle, MayIssue
  <2>6. ASSUME NEW p \in Processes, Exhausted(p) PROVE UniqueInv'
    BY <2>6, StockShrinks DEF Exhausted, Settle, MayIssue
  <2>7. ASSUME NEW p \in Processes, ReserveFails(p) PROVE UniqueInv'
    BY <2>7, StockShrinks DEF ReserveFails, Settle, MayIssue
  <2>8. ASSUME NEW p \in Processes, Restart(p) PROVE UniqueInv'
    BY <2>8, StockShrinks DEF Restart, MayIssue
  <2>9. CASE UNCHANGED vars
    BY <2>9, StockShrinks DEF vars, MayIssue
  <2> QED
    BY <2>1, <2>2, <2>3, <2>4, <2>5, <2>6, <2>7, <2>8, <2>9 DEF Next, CallStep, ReservationStep
<1> QED
  BY <1>1, <1>2, TypeCorrect, ReservationsNeeded, PTL DEF Spec, UniqueInv

\* An id that is handed out lies in the space CodeScrambler.encode accepts.
THEOREM InCodeSpace == Spec => []IdsInCodeSpace
<1>1. Init => SpaceInv
  BY AllocatorAssumption DEF Init, SpaceInv, StockInCodeSpace, IdsInCodeSpace
<1>2. TypeInv /\ SpaceInv /\ [Next]_vars => SpaceInv'
  <2> SUFFICES ASSUME TypeInv, SpaceInv, [Next]_vars PROVE SpaceInv'
    OBVIOUS
  <2> USE AllocatorAssumption
          DEF TypeInv, TypeOK, GrantedIsBlock, SpaceInv, StockInCodeSpace, IdsInCodeSpace
  <2>1. ASSUME NEW c \in Callers, Call(c) \/ AwaitReservation(c) PROVE SpaceInv'
    BY <2>1 DEF Call, AwaitReservation
  <2>2. ASSUME NEW c \in Callers, TakeId(c) PROVE SpaceInv'
    BY <2>2 DEF TakeId
  <2>3. ASSUME NEW p \in Processes, ReserveBlock(p) \/ Exhausted(p) \/ ReserveFails(p)
        PROVE  SpaceInv'
    BY <2>3 DEF ReserveBlock, Exhausted, ReserveFails
  <2>4. ASSUME NEW p \in Processes, Reserved(p) PROVE SpaceInv'
    BY <2>4 DEF Reserved
  <2>5. ASSUME NEW p \in Processes, Restart(p) PROVE SpaceInv'
    BY <2>5 DEF Restart
  <2>6. CASE UNCHANGED vars
    BY <2>6 DEF vars
  <2> QED
    BY <2>1, <2>2, <2>3, <2>4, <2>5, <2>6 DEF Next, CallStep, ReservationStep
<1> QED
  BY <1>1, <1>2, TypeCorrect, PTL DEF Spec, SpaceInv

-----------------------------------------------------------------------------
(***************************************************************************)
(* Division and powers                                                     *)
(***************************************************************************)
\* Quotient and remainder.
LEMMA Division ==
    ASSUME NEW a \in Nat, NEW m \in Nat \ {0}
    PROVE  a \div m \in Nat /\ a % m \in 0..(m - 1) /\ a = (a \div m) * m + (a % m)
  OBVIOUS

\* There is one way to divide.
LEMMA DivisionUnique ==
    ASSUME NEW m \in Nat \ {0}, NEW q \in Nat, NEW r \in 0..(m - 1)
    PROVE  (q * m + r) \div m = q /\ (q * m + r) % m = r
  OBVIOUS

\* Dividing twice.
LEMMA DivisionTwice ==
    ASSUME NEW a \in Nat, NEW m \in Nat \ {0}
    PROVE  a \div m = 2 * (a \div (2 * m)) + ((a \div m) % 2)
  OBVIOUS

\* The powers of a number.
Powers(base, e) == CHOOSE power : power = [n \in 0..e |-> IF n = 0 THEN 1 ELSE base * power[n - 1]]

Times(base, e) == [n \in 1..e |-> [x \in Nat |-> base * x]]

\* The function in Power satisfies its equation.
LEMMA PowersEquation ==
    ASSUME NEW base \in Nat, NEW e \in Nat
    PROVE  /\ Powers(base, e) \in [0..e -> Nat]
           /\ IsRecursion(Powers(base, e), e, 1, Times(base, e))
  <1> DEFINE Q(f) == f = [n \in 0..e |-> IF n = 0 THEN 1 ELSE base * f[n - 1]]
             h == Powers(base, e)
  <1>1. Times(base, e) \in [1..e -> [Nat -> Nat]] /\ 1 \in Nat
    BY DEF Times
  <1>2. PICK f \in [0..e -> Nat] : IsRecursion(f, e, 1, Times(base, e))
    BY <1>1, RecursionExists, Zenon
  <1>3. Q(f)
    <2>1. \A n \in 1..e : n - 1 \in 0..e /\ f[n - 1] \in Nat
      OBVIOUS
    <2>2. \A n \in 1..e : f[n] = Times(base, e)[n][f[n - 1]]
      BY <1>2 DEF IsRecursion
    <2>3. \A n \in 1..e : f[n] = base * f[n - 1]
      BY <2>1, <2>2 DEF Times
    <2>4. f[0] = 1
      BY <1>2 DEF IsRecursion
    <2>5. \A n \in 0..e : f[n] = IF n = 0 THEN 1 ELSE base * f[n - 1]
      BY <2>3, <2>4
    <2> QED
      BY <2>5
  <1>4. Q(h)
    <2>1. h = CHOOSE g : Q(g)
      BY DEF Powers
    <2> HIDE DEF Q, h
    <2> QED
      BY <1>3, <2>1
  <1> HIDE DEF h
  <1>5. h[0] = 1 /\ \A n \in 1..e : h[n] = base * h[n - 1]
    BY <1>4
  <1> DEFINE P == {n \in 0..e : h[n] \in Nat}
  <1>6. \A n \in 0..e : n \in P
    <2>1. 0 \in P /\ \A n \in 1..e : n - 1 \in P => n \in P
      BY <1>5
    <2> HIDE DEF P
    <2> QED
      BY <2>1, BoundedInduction
  <1>7. h \in [0..e -> Nat]
    BY <1>4, <1>6
  <1>8. IsRecursion(h, e, 1, Times(base, e))
    BY <1>5, <1>7 DEF IsRecursion, Times
  <1> QED
    BY <1>7, <1>8 DEF h

\* Powers as they are known.
LEMMA PowerRules ==
    ASSUME NEW base \in Nat \ {0}
    PROVE  /\ Power(base, 0) = 1
           /\ \A e \in Nat : Power(base, e + 1) = base * Power(base, e)
           /\ \A e \in Nat : Power(base, e) \in Nat \ {0}
  <1>1. ASSUME NEW e \in Nat PROVE Power(base, e) = Powers(base, e)[e]
    BY DEF Power, Powers
  <1>2. Power(base, 0) = 1
    BY <1>1, PowersEquation DEF IsRecursion
  <1>3. ASSUME NEW e \in Nat PROVE Power(base, e + 1) = base * Power(base, e)
    <2> DEFINE f == Powers(base, e + 1)
               g == Powers(base, e)
    <2>1. /\ f \in [0..(e + 1) -> Nat] /\ IsRecursion(f, e + 1, 1, Times(base, e + 1))
          /\ g \in [0..e -> Nat] /\ IsRecursion(g, e, 1, Times(base, e))
      <3>1. e + 1 \in Nat /\ base \in Nat
        OBVIOUS
      <3> QED
        BY <3>1, PowersEquation
    <2> HIDE DEF f, g
    <2>2. \A n \in 1..(e + 1) : f[n] = base * f[n - 1]
      <3>1. \A n \in 1..(e + 1) : n - 1 \in 0..(e + 1) /\ f[n - 1] \in Nat
        BY <2>1
      <3>2. \A n \in 1..(e + 1) : f[n] = Times(base, e + 1)[n][f[n - 1]]
        BY <2>1 DEF IsRecursion
      <3> QED
        BY <3>1, <3>2 DEF Times
    <2>3. \A n \in 0..e : f[n] = g[n]
      <3>1. \A n \in 1..e : n \in 1..(e + 1) /\ n - 1 \in 0..(e + 1) /\ f[n - 1] \in Nat
        BY <2>1
      <3>2. \A n \in 1..e : f[n] = Times(base, e)[n][f[n - 1]]
        BY <2>2, <3>1 DEF Times
      <3>3. IsRecursion(f, e, 1, Times(base, e))
        BY <2>1, <3>2 DEF IsRecursion
      <3>4. e \in Nat /\ IsRecursion(g, e, 1, Times(base, e))
        BY <2>1
      <3> QED
        BY <3>3, <3>4, RecursionUnique
    <2>4. Power(base, e + 1) = f[e + 1] /\ Power(base, e) = g[e]
      BY <1>1 DEF f, g
    <2>5. e + 1 \in 1..(e + 1) /\ (e + 1) - 1 = e /\ e \in 0..e
      OBVIOUS
    <2> QED
      BY <2>2, <2>3, <2>4, <2>5
  <1> DEFINE K == {e \in Nat : Power(base, e) \in Nat \ {0}}
  <1>4. \A e \in Nat : e \in K
    <2>1. 0 \in K
      BY <1>2
    <2>2. ASSUME NEW e \in Nat, e \in K PROVE e + 1 \in K
      <3>1. Power(base, e + 1) = base * Power(base, e) /\ Power(base, e) \in Nat \ {0}
        BY <1>3, <2>2
      <3> QED
        BY <3>1
    <2> HIDE DEF K
    <2> QED
      BY <2>1, <2>2, NatSetInduction
  <1> QED
    BY <1>2, <1>3, <1>4

-----------------------------------------------------------------------------
(***************************************************************************)
(* Exclusive or                                                            *)
(***************************************************************************)
\* The n highest bits of a half as a number, and the last of them.
Top(x, n) == x \div Power(2, HalfBits - n)

Bit(x, n) == Top(x, n) % 2

Xors(a, b) ==
    CHOOSE xor : xor = [n \in 0..HalfBits |->
        IF n = 0 THEN 0 ELSE 2 * xor[n - 1] + ((Bit(a, n) + Bit(b, n)) % 2)]

\* A number is put together from its bits.
LEMMA TopRules ==
    ASSUME NEW x \in Halves
    PROVE  /\ Top(x, 0) = 0 /\ Top(x, HalfBits) = x
           /\ \A n \in 1..HalfBits : Top(x, n) = 2 * Top(x, n - 1) + Bit(x, n)
           /\ \A n \in 0..HalfBits : Top(x, n) \in Nat /\ Bit(x, n) \in {0, 1}
  <1>1. HalfBits \in Nat /\ HalfBits - 0 = HalfBits /\ HalfBits - HalfBits = 0
    BY ScramblerAssumption
  <1>2. x \in Nat /\ x < HalfSize /\ HalfSize \in Nat \ {0}
    BY <1>1, PowerRules DEF Halves, HalfSize
  <1>3. Top(x, 0) = 0
    BY <1>1, <1>2 DEF Top, HalfSize
  <1>4. Top(x, HalfBits) = x
    BY <1>1, <1>2, PowerRules DEF Top
  <1>5. ASSUME NEW n \in 0..HalfBits PROVE Top(x, n) \in Nat /\ Bit(x, n) \in {0, 1}
    <2>1. Power(2, HalfBits - n) \in Nat \ {0}
      BY <1>1, PowerRules
    <2>2. Top(x, n) \in Nat
      BY <1>2, <2>1 DEF Top
    <2> QED
      BY <2>2 DEF Bit
  <1>6. ASSUME NEW n \in 1..HalfBits PROVE Top(x, n) = 2 * Top(x, n - 1) + Bit(x, n)
    <2> DEFINE k == HalfBits - n
    <2>1. k \in Nat /\ HalfBits - (n - 1) = k + 1
      BY <1>1
    <2>2. Power(2, k) \in Nat \ {0} /\ Power(2, k + 1) = 2 * Power(2, k)
      BY <2>1, PowerRules
    <2> DEFINE m == Power(2, k)
    <2>3. x \div m = 2 * (x \div (2 * m)) + ((x \div m) % 2)
      <3> HIDE DEF m
      <3>1. m \in Nat \ {0}
        BY <2>2 DEF m
      <3> QED
        BY <1>2, <3>1, DivisionTwice
    <2> QED
      BY <2>1, <2>2, <2>3 DEF Top, Bit
  <1> QED
    BY <1>3, <1>4, <1>5, <1>6

\* The function in Xor satisfies its equation, and n bits make a number below
\* the power of n.
LEMMA XorsEquation ==
    ASSUME NEW a \in Halves, NEW b \in Halves
    PROVE  /\ Xors(a, b)[0] = 0
           /\ \A n \in 1..HalfBits : Xors(a, b)[n] = 2 * Xors(a, b)[n - 1] + ((Bit(a, n) + Bit(b, n)) % 2)
           /\ \A n \in 0..HalfBits : Xors(a, b)[n] \in 0..(Power(2, n) - 1)
  <1> DEFINE sum == [n \in 1..HalfBits |-> (Bit(a, n) + Bit(b, n)) % 2]
             Q(f) == f = [n \in 0..HalfBits |->
                            IF n = 0 THEN 0 ELSE 2 * f[n - 1] + ((Bit(a, n) + Bit(b, n)) % 2)]
             step == [n \in 1..HalfBits |-> [x \in Nat |-> 2 * x + sum[n]]]
             h == Xors(a, b)
  <1>1. HalfBits \in Nat
    BY ScramblerAssumption
  <1>2. \A n \in 1..HalfBits : sum[n] \in {0, 1}
    <2>1. \A n \in 1..HalfBits : Bit(a, n) \in {0, 1} /\ Bit(b, n) \in {0, 1}
      BY <1>1, TopRules
    <2> QED
      BY <2>1
  <1>3. h = CHOOSE f : Q(f)
    BY DEF Xors
  <1>10. \A n \in 1..HalfBits : sum[n] = ((Bit(a, n) + Bit(b, n)) % 2)
    OBVIOUS
  <1> HIDE DEF sum
  <1>4. step \in [1..HalfBits -> [Nat -> Nat]] /\ 0 \in Nat
    BY <1>2
  <1>5. PICK f \in [0..HalfBits -> Nat] : IsRecursion(f, HalfBits, 0, step)
    <2> HIDE DEF step
    <2> QED
      BY <1>1, <1>4, RecursionExists, Zenon
  <1>6. Q(f)
    <2>1. f[0] = 0 /\ \A n \in 1..HalfBits : f[n] = 2 * f[n - 1] + sum[n]
      <3>1. \A n \in 1..HalfBits : n - 1 \in 0..HalfBits /\ f[n - 1] \in Nat
        BY <1>1
      <3>2. f[0] = 0 /\ \A n \in 1..HalfBits : f[n] = step[n][f[n - 1]]
        BY <1>5 DEF IsRecursion
      <3>3. \A n \in 1..HalfBits, x \in Nat : step[n][x] = 2 * x + sum[n]
        OBVIOUS
      <3> HIDE DEF step
      <3> QED
        BY <3>1, <3>2, <3>3
    <2>2. \A n \in 1..HalfBits : f[n] = 2 * f[n - 1] + ((Bit(a, n) + Bit(b, n)) % 2)
      BY <1>10, <2>1
    <2>3. \A n \in 0..HalfBits : n # 0 => n \in 1..HalfBits
      BY <1>1
    <2> QED
      BY <1>5, <2>1, <2>2, <2>3
  <1>7. Q(h)
    <2> HIDE DEF Q, h
    <2> QED
      BY <1>3, <1>6
  <1> HIDE DEF h
  <1>8. h[0] = 0 /\ \A n \in 1..HalfBits : h[n] = 2 * h[n - 1] + sum[n]
    <2>1. \A n \in 1..HalfBits : n \in 0..HalfBits /\ n # 0
      BY <1>1
    <2>2. 0 \in 0..HalfBits
      BY <1>1
    <2>3. \A n \in 0..HalfBits : h[n] = IF n = 0 THEN 0 ELSE 2 * h[n - 1] + ((Bit(a, n) + Bit(b, n)) % 2)
      BY <1>7
    <2> QED
      BY <1>10, <2>1, <2>2, <2>3
  <1> DEFINE P == {n \in 0..HalfBits : h[n] \in 0..(Power(2, n) - 1)}
  <1>9. \A n \in 0..HalfBits : n \in P
    <2>1. 0 \in P
      <3>1. Power(2, 0) = 1 /\ 0 \in 0..HalfBits
        BY <1>1, PowerRules
      <3> QED
        BY <1>8, <3>1
    <2>2. ASSUME NEW n \in 1..HalfBits, n - 1 \in P PROVE n \in P
      <3>1. n - 1 \in Nat /\ (n - 1) + 1 = n
        OBVIOUS
      <3>2. Power(2, n) = 2 * Power(2, n - 1) /\ Power(2, n - 1) \in Nat \ {0}
        BY <3>1, PowerRules
      <3>3. h[n] = 2 * h[n - 1] + sum[n] /\ sum[n] \in {0, 1}
        BY <1>2, <1>8
      <3>4. h[n - 1] \in 0..(Power(2, n - 1) - 1)
        BY <2>2
      <3>5. h[n] \in 0..(Power(2, n) - 1)
        BY <3>2, <3>3, <3>4
      <3> QED
        BY <3>5
    <2> HIDE DEF P
    <2> QED
      BY <1>1, <2>1, <2>2, BoundedInduction
  <1> QED
    BY <1>8, <1>9, <1>10 DEF h

\* Mixed with the same half, different halves stay different halves.
LEMMA XorInjective ==
    ASSUME NEW b \in Halves
    PROVE  \A a, c \in Halves : Xor(a, b) \in Halves /\ (Xor(a, b) = Xor(c, b) => a = c)
  <1> SUFFICES ASSUME NEW a \in Halves, NEW c \in Halves
               PROVE  Xor(a, b) \in Halves /\ (Xor(a, b) = Xor(c, b) => a = c)
    OBVIOUS
  <1>1. HalfBits \in Nat
    BY ScramblerAssumption
  <1>2. Xor(a, b) = Xors(a, b)[HalfBits] /\ Xor(c, b) = Xors(c, b)[HalfBits]
    BY DEF Xor, Xors, Bit, Top
  <1>3. Xor(a, b) \in Halves
    BY <1>1, <1>2, XorsEquation DEF Halves, HalfSize
  <1> DEFINE f == Xors(a, b)
             g == Xors(c, b)
             P == {n \in 0..HalfBits : f[n] = g[n] => Top(a, n) = Top(c, n)}
  <1>4. /\ \A n \in 1..HalfBits : f[n] = 2 * f[n - 1] + ((Bit(a, n) + Bit(b, n)) % 2)
        /\ \A n \in 1..HalfBits : g[n] = 2 * g[n - 1] + ((Bit(c, n) + Bit(b, n)) % 2)
    BY XorsEquation
  <1>5. \A n \in 0..HalfBits : f[n] \in Nat /\ g[n] \in Nat
    <2>1. \A n \in 0..HalfBits : f[n] \in 0..(Power(2, n) - 1) /\ g[n] \in 0..(Power(2, n) - 1)
      BY XorsEquation
    <2> HIDE DEF f, g
    <2> QED
      BY <2>1
  <1> HIDE DEF f, g
  <1>6. \A n \in 0..HalfBits : n \in P
    <2>1. 0 \in P
      BY <1>1, TopRules
    <2>2. ASSUME NEW n \in 1..HalfBits, n - 1 \in P, f[n] = g[n]
          PROVE  Top(a, n) = Top(c, n)
      <3>1. n - 1 \in 0..HalfBits /\ n \in 0..HalfBits
        BY <1>1
      <3>2. Bit(a, n) \in {0, 1} /\ Bit(b, n) \in {0, 1} /\ Bit(c, n) \in {0, 1}
        BY <3>1, TopRules
      <3>3. f[n - 1] \in Nat /\ g[n - 1] \in Nat
        BY <1>5, <3>1
      <3>4. f[n - 1] = g[n - 1] /\ Bit(a, n) = Bit(c, n)
        BY <1>4, <2>2, <3>2, <3>3
      <3>5. Top(a, n - 1) = Top(c, n - 1)
        BY <2>2, <3>4
      <3>6. Top(a, n) = 2 * Top(a, n - 1) + Bit(a, n) /\ Top(c, n) = 2 * Top(c, n - 1) + Bit(c, n)
        BY TopRules
      <3> QED
        BY <3>4, <3>5, <3>6
    <2>3. \A n \in 1..HalfBits : n - 1 \in P => n \in P
      BY <1>1, <2>2
    <2> HIDE DEF P
    <2> QED
      BY <1>1, <2>1, <2>3, BoundedInduction
  <1>7. Xor(a, b) = Xor(c, b) => a = c
    <2>1. HalfBits \in 0..HalfBits
      BY <1>1
    <2>2. f[HalfBits] = g[HalfBits] => Top(a, HalfBits) = Top(c, HalfBits)
      BY <1>6, <2>1
    <2>3. Top(a, HalfBits) = a /\ Top(c, HalfBits) = c
      BY TopRules
    <2> QED
      BY <1>2, <2>2, <2>3 DEF f, g
  <1> QED
    BY <1>3, <1>7

-----------------------------------------------------------------------------
(***************************************************************************)
(* The network                                                             *)
(***************************************************************************)
Pairs == Halves \X Halves

Afters(keys, p) ==
    CHOOSE after : after = [n \in 0..Rounds |->
        IF n = 0 THEN p ELSE Round(keys[n], after[n - 1])]

\* The sizes are numbers.
LEMMA Sizes ==
    /\ HalfBits \in Nat /\ Rounds \in Nat /\ CodeLength \in Nat
    /\ Base \in Nat \ {0} /\ HalfSize \in Nat \ {0} /\ Space \in Nat \ {0}
  BY ScramblerAssumption, PowerRules DEF HalfSize, Space

\* A round takes pairs of halves to pairs, different ones to different ones,
\* whatever its mixer.
LEMMA RoundInjective ==
    ASSUME NEW mixer \in Mixers
    PROVE  /\ \A p \in Pairs : Round(mixer, p) \in Pairs
           /\ \A p, q \in Pairs : Round(mixer, p) = Round(mixer, q) => p = q
  <1>1. mixer \in [Halves -> Halves]
    BY ScramblerAssumption
  <1>2. \A x \in Halves : x % HalfSize = x
    BY Sizes DEF Halves
  <1>3. ASSUME NEW p \in Pairs PROVE Round(mixer, p) = <<p[2], Xor(p[1], mixer[p[2]])>>
                                      /\ Xor(p[1], mixer[p[2]]) \in Halves
    <2>1. p[1] \in Halves /\ p[2] \in Halves /\ mixer[p[2]] \in Halves
      BY <1>1 DEF Pairs
    <2>2. Xor(p[1], mixer[p[2]]) \in Halves
      BY <2>1, XorInjective
    <2> QED
      BY <1>2, <2>2 DEF Round
  <1>4. ASSUME NEW p \in Pairs PROVE Round(mixer, p) \in Pairs
    BY <1>3 DEF Pairs
  <1>5. ASSUME NEW p \in Pairs, NEW q \in Pairs, Round(mixer, p) = Round(mixer, q) PROVE p = q
    <2>1. p[2] = q[2] /\ Xor(p[1], mixer[p[2]]) = Xor(q[1], mixer[q[2]])
      BY <1>3, <1>5
    <2>2. p[1] \in Halves /\ q[1] \in Halves /\ mixer[p[2]] \in Halves
      BY <1>1 DEF Pairs
    <2>3. p[1] = q[1]
      BY <2>1, <2>2, XorInjective
    <2> QED
      BY <2>1, <2>3 DEF Pairs
  <1> QED
    BY <1>4, <1>5

\* The function in Feistel satisfies its equation.
LEMMA AftersEquation ==
    ASSUME NEW keys \in Keys, NEW p \in Pairs
    PROVE  /\ Afters(keys, p)[0] = p
           /\ \A n \in 1..Rounds : Afters(keys, p)[n] = Round(keys[n], Afters(keys, p)[n - 1])
           /\ \A n \in 0..Rounds : Afters(keys, p)[n] \in Pairs
  <1> DEFINE Q(f) == f = [n \in 0..Rounds |-> IF n = 0 THEN p ELSE Round(keys[n], f[n - 1])]
             step == [n \in 1..Rounds |-> [x \in Pairs |-> Round(keys[n], x)]]
             h == Afters(keys, p)
  <1>1. Rounds \in Nat /\ \A n \in 1..Rounds : keys[n] \in Mixers
    BY Sizes DEF Keys
  <1>2. \A n \in 1..Rounds, x \in Pairs : Round(keys[n], x) \in Pairs
    BY <1>1, RoundInjective
  <1>3. h = CHOOSE f : Q(f)
    BY DEF Afters
  <1>4. step \in [1..Rounds -> [Pairs -> Pairs]] /\ p \in Pairs
    BY <1>2
  <1>5. PICK f \in [0..Rounds -> Pairs] : IsRecursion(f, Rounds, p, step)
    <2> HIDE DEF step
    <2> QED
      BY <1>1, <1>4, RecursionExists, Zenon
  <1>6. Q(f)
    <2>1. \A n \in 1..Rounds : n - 1 \in 0..Rounds /\ f[n - 1] \in Pairs
      BY <1>1
    <2>2. f[0] = p /\ \A n \in 1..Rounds : f[n] = step[n][f[n - 1]]
      BY <1>5 DEF IsRecursion
    <2>3. \A n \in 1..Rounds, x \in Pairs : step[n][x] = Round(keys[n], x)
      OBVIOUS
    <2> HIDE DEF step
    <2>4. \A n \in 0..Rounds : f[n] = IF n = 0 THEN p ELSE Round(keys[n], f[n - 1])
      BY <1>1, <2>1, <2>2, <2>3
    <2> QED
      BY <2>4
  <1>7. Q(h)
    <2> HIDE DEF Q, h
    <2> QED
      BY <1>3, <1>6
  <1> HIDE DEF h
  <1>8. h[0] = p /\ \A n \in 1..Rounds : h[n] = Round(keys[n], h[n - 1])
    <2>1. 0 \in 0..Rounds /\ \A n \in 1..Rounds : n \in 0..Rounds /\ n # 0
      BY <1>1
    <2>2. \A n \in 0..Rounds : h[n] = IF n = 0 THEN p ELSE Round(keys[n], h[n - 1])
      BY <1>7
    <2> QED
      BY <2>1, <2>2
  <1> DEFINE P == {n \in 0..Rounds : h[n] \in Pairs}
  <1>9. \A n \in 0..Rounds : n \in P
    <2>1. 0 \in P
      BY <1>1, <1>8
    <2>2. \A n \in 1..Rounds : n - 1 \in P => n \in P
      BY <1>1, <1>2, <1>8
    <2> HIDE DEF P
    <2> QED
      BY <1>1, <2>1, <2>2, BoundedInduction
  <1> QED
    BY <1>8, <1>9 DEF h

\* A Feistel network permutes the pairs of halves, whatever its mixers.
LEMMA FeistelPermutes ==
    ASSUME NEW keys \in Keys
    PROVE  Permutes([p \in Pairs |-> Feistel(keys, p)], Pairs)
  <1>1. Rounds \in Nat /\ \A n \in 1..Rounds : keys[n] \in Mixers
    BY Sizes DEF Keys
  <1>2. ASSUME NEW p \in Pairs PROVE Feistel(keys, p) = Afters(keys, p)[Rounds]
    BY DEF Feistel, Afters
  <1>3. ASSUME NEW p \in Pairs PROVE Feistel(keys, p) \in Pairs
    BY <1>1, <1>2, AftersEquation
  <1>4. ASSUME NEW p \in Pairs, NEW q \in Pairs, Feistel(keys, p) = Feistel(keys, q)
        PROVE  p = q
    <2> DEFINE f == Afters(keys, p)
               g == Afters(keys, q)
               P == {n \in 0..Rounds : f[n] = g[n] => p = q}
    <2>1. /\ f[0] = p /\ g[0] = q
          /\ \A n \in 1..Rounds : f[n] = Round(keys[n], f[n - 1]) /\ g[n] = Round(keys[n], g[n - 1])
          /\ \A n \in 0..Rounds : f[n] \in Pairs /\ g[n] \in Pairs
      BY AftersEquation
    <2>2. f[Rounds] = g[Rounds]
      BY <1>2, <1>4
    <2> HIDE DEF f, g
    <2>3. 0 \in P
      BY <1>1, <2>1
    <2>4. ASSUME NEW n \in 1..Rounds, n - 1 \in P, f[n] = g[n] PROVE p = q
      <3>1. n - 1 \in 0..Rounds /\ keys[n] \in Mixers
        BY <1>1
      <3>2. f[n - 1] \in Pairs /\ g[n - 1] \in Pairs /\ Round(keys[n], f[n - 1]) = Round(keys[n], g[n - 1])
        BY <2>1, <2>4, <3>1
      <3>3. f[n - 1] = g[n - 1]
        BY <3>1, <3>2, RoundInjective
      <3> QED
        BY <2>4, <3>3
    <2>5. \A n \in 1..Rounds : n - 1 \in P => n \in P
      BY <1>1, <2>4
    <2>6. \A n \in 0..Rounds : n \in P
      <3> HIDE DEF P
      <3> QED
        BY <1>1, <2>3, <2>5, BoundedInduction
    <2> QED
      BY <1>1, <2>2, <2>6
  <1> QED
    BY <1>3, <1>4 DEF Permutes, IsInjective

-----------------------------------------------------------------------------
(***************************************************************************)
(* The walk                                                                *)
(***************************************************************************)
\* The pairs inside the code space.
Inside == {p \in Pairs : InsideCodeSpace(p[1], p[2])}

\* The walk from inside the code space ends inside it, and different pairs
\* walk to different pairs.
LEMMA PermuteHalvesInjective ==
    ASSUME NEW keys \in Keys
    PROVE  \A p, q \in Inside :
               /\ PermuteHalves(keys, p) \in Inside
               /\ PermuteHalves(keys, p) = PermuteHalves(keys, q) => p = q
  <1> DEFINE F == [q \in Pairs |-> Feistel(keys, q)]
             Q(w) == w = [q \in Pairs |->
                            IF InsideCodeSpace(Feistel(keys, q)[1], Feistel(keys, q)[2])
                            THEN Feistel(keys, q) ELSE w[Feistel(keys, q)]]
             h == CHOOSE w : Q(w)
  <1>1. Permutes(F, Pairs)
    BY FeistelPermutes
  <1>2. F \in [Pairs -> Pairs]
    BY <1>1 DEF Permutes
  <1>3. IsFiniteSet(Pairs)
    <2>1. IsFiniteSet(Halves)
      BY Sizes, FS_Interval DEF Halves
    <2> QED
      BY <2>1, FS_Product, Zenon DEF Pairs
  <1>4. Inside \in SUBSET Pairs
    BY DEF Inside
  <1>5. ASSUME NEW q \in Pairs
        PROVE  /\ F[q] = Feistel(keys, q)
               /\ F[q] \in Inside <=> InsideCodeSpace(Feistel(keys, q)[1], Feistel(keys, q)[2])
    BY <1>2 DEF Inside
  <1>6. ASSUME NEW p PROVE PermuteHalves(keys, p) = h[p]
    BY DEF PermuteHalves, Pairs
  <1>7. \A w : Q(w) <=> IsWalk(w, Pairs, F, Inside)
    <2> SUFFICES ASSUME NEW w PROVE Q(w) <=> IsWalk(w, Pairs, F, Inside)
      OBVIOUS
    <2>1. [q \in Pairs |-> IF InsideCodeSpace(Feistel(keys, q)[1], Feistel(keys, q)[2])
                            THEN Feistel(keys, q) ELSE w[Feistel(keys, q)]]
          = [q \in Pairs |-> IF F[q] \in Inside THEN F[q] ELSE w[F[q]]]
      <3> HIDE DEF F
      <3> QED
        BY <1>5
    <2> QED
      BY <2>1 DEF IsWalk
  <1> HIDE DEF F
  <1>8. \E w : Q(w)
    <2>1. \E w : IsWalk(w, Pairs, F, Inside)
      BY <1>2, <1>3, <1>4, WalkExists
    <2> HIDE DEF Q
    <2> QED
      BY <1>7, <2>1
  <1>9. IsWalk(h, Pairs, F, Inside)
    <2> HIDE DEF Q
    <2> QED
      BY <1>7, <1>8
  <1> HIDE DEF h
  <1>10. \A p, q \in Inside : h[p] \in Inside /\ (h[p] = h[q] => p = q)
    BY <1>1, <1>3, <1>4, <1>9, WalkInjective
  <1> QED
    BY <1>6, <1>10

-----------------------------------------------------------------------------
(***************************************************************************)
(* Numbers and pairs of halves                                             *)
(***************************************************************************)
\* A pair of halves is a number, and another pair is another number.
LEMMA JoinHalves ==
    ASSUME NEW p \in Pairs
    PROVE  Join(p) \in Nat /\ Split(Join(p)) = p
  <1>1. p[1] \in Nat /\ p[2] \in 0..(HalfSize - 1) /\ p = <<p[1], p[2]>>
    BY Sizes DEF Pairs, Halves
  <1>2. HalfSize \in Nat \ {0}
    BY Sizes
  <1>3. (p[1] * HalfSize + p[2]) \div HalfSize = p[1] /\ (p[1] * HalfSize + p[2]) % HalfSize = p[2]
    BY <1>1, <1>2, DivisionUnique
  <1>4. Join(p) \in Nat
    <2>1. p[2] \in Nat
      BY <1>1, <1>2
    <2> QED
      BY <1>1, <1>2, <2>1 DEF Join
  <1> QED
    BY <1>1, <1>3, <1>4 DEF Join, Split

\* The test on the halves is the test on the number.
LEMMA InsideMeansBelow ==
    ASSUME NEW p \in Pairs
    PROVE  p \in Inside <=> Join(p) < Space
  <1> DEFINE H == HalfSize
             s == Space \div HalfSize
             r == Space % HalfSize
             a == p[1]
             b == p[2]
  <1>1. H \in Nat \ {0} /\ s \in Nat /\ r \in 0..(H - 1) /\ Space = s * H + r
    BY Sizes, Division
  <1>2. a \in Nat /\ b \in 0..(H - 1)
    BY Sizes DEF Pairs, Halves
  <1>3. p \in Inside <=> a < s \/ (a = s /\ b < r)
    BY DEF Inside, InsideCodeSpace
  <1>4. Join(p) = a * H + b
    BY DEF Join
  <1> HIDE DEF H, s, r, a, b
  <1>5. CASE a < s
    <2>1. (a + 1) * H <= s * H /\ (a + 1) * H = a * H + H
      BY <1>1, <1>2, <1>5
    <2>2. a * H \in Nat /\ s * H \in Nat
      BY <1>1, <1>2
    <2> QED
      BY <1>1, <1>2, <1>3, <1>4, <1>5, <2>1, <2>2
  <1>6. CASE a = s
    <2>1. a * H = s * H /\ s * H \in Nat
      BY <1>1, <1>6
    <2> QED
      BY <1>1, <1>2, <1>3, <1>4, <1>6, <2>1
  <1>7. CASE s < a
    <2>1. (s + 1) * H <= a * H /\ (s + 1) * H = s * H + H
      BY <1>1, <1>2, <1>7
    <2>2. a * H \in Nat /\ s * H \in Nat
      BY <1>1, <1>2
    <2> QED
      BY <1>1, <1>2, <1>3, <1>4, <1>7, <2>1, <2>2
  <1> QED
    BY <1>1, <1>2, <1>5, <1>6, <1>7

\* An id of the code space splits into a pair inside it.
LEMMA SplitInside ==
    ASSUME NEW i \in 0..(Space - 1)
    PROVE  Split(i) \in Inside /\ Join(Split(i)) = i
  <1> DEFINE q == i \div HalfSize
             r == i % HalfSize
  <1>1. i \in Nat /\ i < Space /\ HalfSize \in Nat \ {0} /\ Space <= HalfSize * HalfSize
    BY Sizes, ScramblerAssumption
  <1>2. q \in Nat /\ r \in 0..(HalfSize - 1) /\ i = q * HalfSize + r
    BY <1>1, Division
  <1>3. Split(i) = <<q, r>>
    BY DEF Split
  <1> HIDE DEF q, r
  <1>4. q < HalfSize
    <2> SUFFICES ASSUME HalfSize <= q PROVE FALSE
      BY <1>1, <1>2
    <2>1. HalfSize * HalfSize <= q * HalfSize
      BY <1>1, <1>2
    <2>2. HalfSize * HalfSize \in Nat /\ q * HalfSize \in Nat /\ Space \in Nat
      BY <1>1, <1>2, Sizes
    <2> QED
      BY <1>1, <1>2, <2>1, <2>2
  <1>5. Split(i) \in Pairs
    BY <1>1, <1>2, <1>3, <1>4 DEF Pairs, Halves
  <1>6. Join(Split(i)) = i
    BY <1>2, <1>3 DEF Join
  <1> QED
    BY <1>1, <1>5, <1>6, InsideMeansBelow

-----------------------------------------------------------------------------
(***************************************************************************)
(* Digits                                                                  *)
(***************************************************************************)
\* Dividing the two parts with the carry divides the number.
LEMMA DivideHalves ==
    ASSUME NEW h \in Nat, NEW l \in Nat
    PROVE  /\ Join(<<h \div Base, Combined(<<h, l>>) \div Base>>) = Join(<<h, l>>) \div Base
           /\ Combined(<<h, l>>) % Base = Join(<<h, l>>) % Base
           /\ h \div Base \in Nat /\ Combined(<<h, l>>) \div Base \in Nat
  <1> DEFINE B == Base
             H == HalfSize
             q == h \div B
             r == h % B
             c == r * H + l
             d == c \div B
             e == c % B
  <1>1. B \in Nat \ {0} /\ H \in Nat \ {0}
    BY Sizes
  <1>2. q \in Nat /\ r \in Nat /\ h = q * B + r
    BY <1>1, Division
  <1>3. c \in Nat
    BY <1>1, <1>2
  <1>4. d \in Nat /\ e \in 0..(B - 1) /\ c = d * B + e
    BY <1>1, <1>3, Division
  <1>5. Combined(<<h, l>>) = c
    BY DEF Combined
  <1> HIDE DEF d, e
  <1>6. h * H + l = (q * H + d) * B + e
    <2>1. h * H = (q * B) * H + r * H
      BY <1>1, <1>2
    <2>2. (q * H + d) * B = (q * H) * B + d * B /\ (q * H) * B = (q * B) * H
      BY <1>1, <1>2, <1>4
    <2>3. (q * B) * H \in Nat /\ r * H \in Nat /\ d * B \in Nat
      BY <1>1, <1>2, <1>4
    <2> QED
      BY <1>4, <2>1, <2>2, <2>3
  <1>7. q * H + d \in Nat
    BY <1>1, <1>2, <1>4
  <1>8. ((q * H + d) * B + e) \div B = q * H + d /\ ((q * H + d) * B + e) % B = e
    <2> DEFINE t == q * H + d
    <2> HIDE DEF t
    <2>1. t \in Nat
      BY <1>7 DEF t
    <2>2. (t * B + e) \div B = t /\ (t * B + e) % B = e
      BY <1>1, <1>4, <2>1, DivisionUnique
    <2> QED
      BY <2>2 DEF t
  <1>9. Join(<<h, l>>) = h * H + l /\ Join(<<q, d>>) = q * H + d
    BY DEF Join
  <1> QED
    BY <1>2, <1>4, <1>5, <1>6, <1>8, <1>9 DEF d, e

Remaining(value) ==
    CHOOSE remaining : remaining = [n \in 0..CodeLength |->
        IF n = 0 THEN value ELSE remaining[n - 1] \div Base]

Lefts(p) ==
    CHOOSE left : left = [n \in 0..CodeLength |->
        IF n = 0 THEN p ELSE <<left[n - 1][1] \div Base, Combined(left[n - 1]) \div Base>>]

Below(code) ==
    CHOOSE below : below = [n \in 0..CodeLength |->
        IF n = 0 THEN 0 ELSE below[n - 1] * Base + code[n]]

\* The function in EncodeBase62Fixed satisfies its equation.
LEMMA RemainingEquation ==
    ASSUME NEW v \in Nat
    PROVE  /\ Remaining(v)[0] = v
           /\ \A n \in 1..CodeLength : Remaining(v)[n] = Remaining(v)[n - 1] \div Base
           /\ \A n \in 0..CodeLength : Remaining(v)[n] \in Nat
  <1> DEFINE L == CodeLength
             Q(f) == f = [n \in 0..L |-> IF n = 0 THEN v ELSE f[n - 1] \div Base]
             step == [n \in 1..L |-> [x \in Nat |-> x \div Base]]
             h == Remaining(v)
  <1>1. L \in Nat /\ Base \in Nat \ {0}
    BY Sizes
  <1>2. h = CHOOSE f : Q(f)
    BY DEF Remaining
  <1>3. step \in [1..L -> [Nat -> Nat]] /\ v \in Nat
    BY <1>1
  <1> HIDE DEF L
  <1>4. PICK f \in [0..L -> Nat] : IsRecursion(f, L, v, step)
    <2> HIDE DEF step
    <2> QED
      BY <1>1, <1>3, RecursionExists, Zenon
  <1>5. Q(f)
    <2>1. \A n \in 1..L : n - 1 \in 0..L /\ f[n - 1] \in Nat
      BY <1>1
    <2>2. f[0] = v /\ \A n \in 1..L : f[n] = step[n][f[n - 1]]
      BY <1>4 DEF IsRecursion
    <2>3. \A n \in 1..L, x \in Nat : step[n][x] = x \div Base
      OBVIOUS
    <2> HIDE DEF step
    <2>4. \A n \in 1..L : f[n] = f[n - 1] \div Base
      BY <2>1, <2>2, <2>3
    <2>5. \A n \in 0..L : n = 0 \/ n \in 1..L
      BY <1>1
    <2>6. \A n \in 0..L : f[n] = IF n = 0 THEN v ELSE f[n - 1] \div Base
      BY <2>2, <2>4, <2>5, Zenon
    <2> QED
      BY <2>6
  <1>6. Q(h)
    <2> HIDE DEF Q, h
    <2> QED
      BY <1>2, <1>5
  <1> HIDE DEF h
  <1>7. h[0] = v /\ \A n \in 1..L : h[n] = h[n - 1] \div Base
    <2>1. 0 \in 0..L /\ \A n \in 1..L : n \in 0..L /\ n # 0
      BY <1>1
    <2>2. \A n \in 0..L : h[n] = IF n = 0 THEN v ELSE h[n - 1] \div Base
      BY <1>6
    <2> QED
      BY <2>1, <2>2
  <1> DEFINE P == {n \in 0..L : h[n] \in Nat}
  <1>8. \A n \in 0..L : n \in P
    <2>1. 0 \in P
      BY <1>1, <1>7
    <2>2. ASSUME NEW n \in 1..L, n - 1 \in P PROVE n \in P
      <3>1. h[n - 1] \in Nat /\ h[n] = h[n - 1] \div Base
        BY <1>7, <2>2
      <3>2. h[n - 1] \div Base \in Nat
        BY <1>1, <3>1, Division
      <3>3. n \in 0..L
        BY <1>1
      <3> QED
        BY <3>1, <3>2, <3>3
    <2> HIDE DEF P
    <2> QED
      BY <1>1, <2>1, <2>2, BoundedInduction
  <1> QED
    BY <1>7, <1>8 DEF h, L

\* A division of the two parts.
LEMMA DivideStep ==
    ASSUME NEW p \in Nat \X Nat
    PROVE  LET q == <<p[1] \div Base, Combined(p) \div Base>>
           IN  /\ q \in Nat \X Nat
               /\ Join(q) = Join(p) \div Base
               /\ Combined(p) % Base = Join(p) % Base
  <1>1. p[1] \in Nat /\ p[2] \in Nat /\ p = <<p[1], p[2]>>
    OBVIOUS
  <1>2. /\ Join(<<p[1] \div Base, Combined(<<p[1], p[2]>>) \div Base>>) = Join(<<p[1], p[2]>>) \div Base
        /\ Combined(<<p[1], p[2]>>) % Base = Join(<<p[1], p[2]>>) % Base
        /\ p[1] \div Base \in Nat /\ Combined(<<p[1], p[2]>>) \div Base \in Nat
    BY <1>1, DivideHalves
  <1> QED
    BY <1>1, <1>2

\* The function in Digits satisfies its equation.
LEMMA LeftsEquation ==
    ASSUME NEW p \in Nat \X Nat
    PROVE  /\ Lefts(p)[0] = p
           /\ \A n \in 1..CodeLength :
                 Lefts(p)[n] = <<Lefts(p)[n - 1][1] \div Base, Combined(Lefts(p)[n - 1]) \div Base>>
           /\ \A n \in 0..CodeLength : Lefts(p)[n] \in Nat \X Nat
  <1> DEFINE L == CodeLength
             D(q) == <<q[1] \div Base, Combined(q) \div Base>>
             Q(f) == f = [n \in 0..L |-> IF n = 0 THEN p ELSE D(f[n - 1])]
             step == [n \in 1..L |-> [q \in Nat \X Nat |-> D(q)]]
             h == Lefts(p)
  <1>1. L \in Nat
    BY Sizes
  <1>2. h = CHOOSE f : Q(f)
    BY DEF Lefts
  <1>3. \A q \in Nat \X Nat : D(q) \in Nat \X Nat
    BY DivideStep
  <1> HIDE DEF L, D
  <1>4. step \in [1..L -> [Nat \X Nat -> Nat \X Nat]] /\ p \in Nat \X Nat
    BY <1>1, <1>3
  <1>5. PICK f \in [0..L -> Nat \X Nat] : IsRecursion(f, L, p, step)
    <2> HIDE DEF step
    <2> QED
      BY <1>1, <1>4, RecursionExists, Zenon
  <1>6. Q(f)
    <2>1. \A n \in 1..L : n - 1 \in 0..L /\ f[n - 1] \in Nat \X Nat
      BY <1>1
    <2>2. f[0] = p /\ \A n \in 1..L : f[n] = step[n][f[n - 1]]
      BY <1>5 DEF IsRecursion
    <2>3. \A n \in 1..L, x \in Nat \X Nat : step[n][x] = D(x)
      OBVIOUS
    <2> HIDE DEF step
    <2>4. \A n \in 1..L : f[n] = D(f[n - 1])
      BY <2>1, <2>2, <2>3
    <2>5. \A n \in 0..L : n = 0 \/ n \in 1..L
      BY <1>1
    <2>6. \A n \in 0..L : f[n] = IF n = 0 THEN p ELSE D(f[n - 1])
      BY <2>2, <2>4, <2>5, Zenon
    <2> QED
      BY <2>6
  <1>7. Q(h)
    <2> HIDE DEF Q, h
    <2> QED
      BY <1>2, <1>6
  <1> HIDE DEF h
  <1>8. h[0] = p /\ \A n \in 1..L : h[n] = D(h[n - 1])
    <2>1. 0 \in 0..L /\ \A n \in 1..L : n \in 0..L /\ n # 0
      BY <1>1
    <2>2. \A n \in 0..L : h[n] = IF n = 0 THEN p ELSE D(h[n - 1])
      BY <1>7
    <2> QED
      BY <2>1, <2>2
  <1> DEFINE P == {n \in 0..L : h[n] \in Nat \X Nat}
  <1>9. \A n \in 0..L : n \in P
    <2>1. 0 \in P
      BY <1>1, <1>8
    <2>2. \A n \in 1..L : n - 1 \in P => n \in P
      <3> SUFFICES ASSUME NEW n \in 1..L, n - 1 \in P PROVE n \in P
        OBVIOUS
      <3>1. h[n - 1] \in Nat \X Nat /\ n \in 0..L
        BY <1>1
      <3>2. h[n] = D(h[n - 1])
        BY <1>8
      <3>3. h[n] \in Nat \X Nat
        BY <1>3, <3>1, <3>2
      <3> QED
        BY <3>1, <3>3
    <2> HIDE DEF P
    <2> QED
      BY <1>1, <2>1, <2>2, BoundedInduction
  <1> QED
    BY <1>8, <1>9 DEF h, L, D

\* The digits of a pair are those of the number.
LEMMA DigitsOfNumber ==
    ASSUME NEW p \in Nat \X Nat
    PROVE  Digits(p) = EncodeBase62Fixed(Join(p))
  <1> DEFINE L == CodeLength
             f == Lefts(p)
             g == Remaining(Join(p))
             P == {n \in 0..L : Join(f[n]) = g[n]}
  <1>1. L \in Nat /\ Join(p) \in Nat
    <2>1. p[1] \in Nat /\ p[2] \in Nat
      OBVIOUS
    <2> QED
      BY <2>1, Sizes DEF Join
  <1>2. /\ f[0] = p
        /\ \A n \in 1..L : f[n] = <<f[n - 1][1] \div Base, Combined(f[n - 1]) \div Base>>
        /\ \A n \in 0..L : f[n] \in Nat \X Nat
    BY LeftsEquation
  <1>3. g[0] = Join(p) /\ \A n \in 1..L : g[n] = g[n - 1] \div Base
    BY <1>1, RemainingEquation
  <1>4. /\ Digits(p) = [i \in 1..L |-> Combined(f[L - i]) % Base]
        /\ EncodeBase62Fixed(Join(p)) = [i \in 1..L |-> g[L - i] % Base]
    BY DEF Digits, Lefts, EncodeBase62Fixed, Remaining
  <1> HIDE DEF L, f, g
  <1>5. \A n \in 0..L : n \in P
    <2>1. 0 \in P
      BY <1>1, <1>2, <1>3
    <2>2. ASSUME NEW n \in 1..L, n - 1 \in P PROVE n \in P
      <3>1. f[n - 1] \in Nat \X Nat /\ Join(f[n - 1]) = g[n - 1]
        BY <1>2, <2>2
      <3>2. Join(f[n]) = Join(f[n - 1]) \div Base
        BY <1>2, <3>1, DivideStep
      <3>3. Join(f[n]) = g[n] /\ n \in 0..L
        BY <1>1, <1>3, <3>1, <3>2
      <3> QED
        BY <3>3
    <2> HIDE DEF P
    <2> QED
      BY <1>1, <2>1, <2>2, BoundedInduction
  <1>6. \A n \in 0..L : Combined(f[n]) % Base = g[n] % Base
    <2> TAKE n \in 0..L
    <2>1. f[n] \in Nat \X Nat /\ Join(f[n]) = g[n]
      BY <1>2, <1>5
    <2>2. Combined(f[n]) % Base = Join(f[n]) % Base
      BY <2>1, DivideStep
    <2> QED
      BY <2>1, <2>2
  <1>7. \A i \in 1..L : Combined(f[L - i]) % Base = g[L - i] % Base
    <2> TAKE i \in 1..L
    <2>1. L - i \in 0..L
      BY <1>1
    <2> QED
      BY <1>6, <2>1
  <1> QED
    BY <1>4, <1>7

\* The function in ValueOf satisfies its equation.
LEMMA BelowEquation ==
    ASSUME NEW code, \A n \in 1..CodeLength : code[n] \in Nat
    PROVE  /\ Below(code)[0] = 0
           /\ \A n \in 1..CodeLength : Below(code)[n] = Below(code)[n - 1] * Base + code[n]
  <1> DEFINE L == CodeLength
             Q(f) == f = [n \in 0..L |-> IF n = 0 THEN 0 ELSE f[n - 1] * Base + code[n]]
             step == [n \in 1..L |-> [x \in Nat |-> x * Base + code[n]]]
             h == Below(code)
  <1>1. L \in Nat /\ Base \in Nat
    BY Sizes
  <1>2. h = CHOOSE f : Q(f)
    BY DEF Below
  <1>3. \A n \in 1..L, x \in Nat : x * Base + code[n] \in Nat
    BY <1>1
  <1> HIDE DEF L
  <1>4. step \in [1..L -> [Nat -> Nat]] /\ 0 \in Nat
    BY <1>3
  <1>5. PICK f \in [0..L -> Nat] : IsRecursion(f, L, 0, step)
    <2> HIDE DEF step
    <2> QED
      BY <1>1, <1>4, RecursionExists, Zenon
  <1>6. Q(f)
    <2>1. \A n \in 1..L : n - 1 \in 0..L /\ f[n - 1] \in Nat
      BY <1>1
    <2>2. f[0] = 0 /\ \A n \in 1..L : f[n] = step[n][f[n - 1]]
      BY <1>5 DEF IsRecursion
    <2>3. \A n \in 1..L, x \in Nat : step[n][x] = x * Base + code[n]
      OBVIOUS
    <2> HIDE DEF step
    <2>4. \A n \in 1..L : f[n] = f[n - 1] * Base + code[n]
      BY <2>1, <2>2, <2>3
    <2>5. \A n \in 0..L : n = 0 \/ n \in 1..L
      BY <1>1
    <2>6. \A n \in 0..L : f[n] = IF n = 0 THEN 0 ELSE f[n - 1] * Base + code[n]
      BY <2>2, <2>4, <2>5, Zenon
    <2> QED
      BY <2>6
  <1>7. Q(h)
    <2> HIDE DEF Q, h
    <2> QED
      BY <1>2, <1>6
  <1> HIDE DEF h
  <1>8. h[0] = 0 /\ \A n \in 1..L : h[n] = h[n - 1] * Base + code[n]
    <2>1. 0 \in 0..L /\ \A n \in 1..L : n \in 0..L /\ n # 0
      BY <1>1
    <2>2. \A n \in 0..L : h[n] = IF n = 0 THEN 0 ELSE h[n - 1] * Base + code[n]
      BY <1>7
    <2> QED
      BY <2>1, <2>2
  <1> QED
    BY <1>8 DEF h, L

\* What a division by a factor of the bound leaves is below the rest of it.
LEMMA DivisionBelow ==
    ASSUME NEW x \in Nat, NEW b \in Nat \ {0}, NEW m \in Nat, x < b * m
    PROVE  x \div b < m
  <1> DEFINE q == x \div b
             r == x % b
  <1>1. q \in Nat /\ r \in 0..(b - 1) /\ x = q * b + r
    BY Division
  <1> HIDE DEF q, r
  <1>2. q < m
    <2> SUFFICES ASSUME m <= q PROVE FALSE
      BY <1>1
    <2>1. b * m <= q * b
      <3>1. m * b <= q * b
        BY <1>1
      <3>2. m * b = b * m
        OBVIOUS
      <3> QED
        BY <3>1, <3>2
    <2>2. b * m \in Nat /\ q * b \in Nat
      BY <1>1
    <2> QED
      BY <1>1, <2>1, <2>2
  <1> QED
    BY <1>2 DEF q

\* A number that fits in the length is divided down to nothing.
LEMMA RemainingEnds ==
    ASSUME NEW v \in Nat, v < Space
    PROVE  Remaining(v)[CodeLength] = 0
  <1> DEFINE L == CodeLength
             f == Remaining(v)
             P == {n \in 0..L : f[n] < Power(Base, L - n)}
  <1>1. L \in Nat /\ Base \in Nat \ {0} /\ L - 0 = L /\ L - L = 0
    BY Sizes
  <1>2. /\ f[0] = v
        /\ \A n \in 1..L : f[n] = f[n - 1] \div Base
        /\ \A n \in 0..L : f[n] \in Nat
    BY RemainingEquation
  <1>3. v < Power(Base, L)
    BY DEF Space
  <1> HIDE DEF L, f
  <1>4. \A n \in 0..L : n \in P
    <2>1. 0 \in P
      BY <1>1, <1>2, <1>3
    <2>2. ASSUME NEW n \in 1..L, n - 1 \in P PROVE n \in P
      <3> DEFINE m == Power(Base, L - n)
      <3>1. L - n \in Nat /\ L - (n - 1) = (L - n) + 1 /\ n - 1 \in 0..L /\ n \in 0..L
        BY <1>1
      <3>2. m \in Nat /\ Power(Base, (L - n) + 1) = Base * m
        BY <1>1, <3>1, PowerRules
      <3>3. f[n - 1] < Power(Base, (L - n) + 1) /\ f[n - 1] \in Nat
        BY <1>2, <2>2, <3>1
      <3> HIDE DEF m
      <3>4. f[n - 1] \div Base < m
        BY <1>1, <3>2, <3>3, DivisionBelow
      <3>5. f[n] < m
        BY <1>2, <3>4
      <3> QED
        BY <3>1, <3>5 DEF m
    <2> HIDE DEF P
    <2> QED
      BY <1>1, <2>1, <2>2, BoundedInduction
  <1>5. f[L] < Power(Base, 0) /\ f[L] \in Nat
    <2>1. L \in 0..L
      BY <1>1
    <2> QED
      BY <1>1, <1>2, <1>4, <2>1
  <1>6. Power(Base, 0) = 1
    BY <1>1, PowerRules
  <1>7. f[L] = 0
    BY <1>5, <1>6
  <1> QED
    BY <1>7 DEF f, L

\* The numeral of a number that fits in the length says the number.
LEMMA NumeralsRead ==
    ASSUME NEW v \in Nat, v < Space
    PROVE  ValueOf(EncodeBase62Fixed(v)) = v
  <1> DEFINE L == CodeLength
             f == Remaining(v)
             code == EncodeBase62Fixed(v)
             g == Below(code)
             P == {n \in 0..L : g[n] = f[L - n]}
  <1>1. L \in Nat /\ Base \in Nat \ {0} /\ L - 0 = L /\ L - L = 0 /\ L \in 0..L
    BY Sizes
  <1>2. /\ f[0] = v
        /\ \A n \in 1..L : f[n] = f[n - 1] \div Base
        /\ \A n \in 0..L : f[n] \in Nat
    BY RemainingEquation
  <1>3. f[L] = 0
    BY RemainingEnds
  <1>4. code = [i \in 1..L |-> f[L - i] % Base]
    BY DEF EncodeBase62Fixed, Remaining
  <1>5. ValueOf(code) = g[L]
    BY DEF ValueOf, Below
  <1> HIDE DEF f, code
  <1>6. \A n \in 1..L : L - n \in 0..L /\ f[L - n] \in Nat
    <2>1. \A n \in 1..L : L - n \in 0..L
      BY <1>1
    <2> HIDE DEF L
    <2> QED
      BY <1>2, <2>1
  <1>7. \A n \in 1..L : code[n] = f[L - n] % Base /\ code[n] \in Nat
    <2> TAKE n \in 1..L
    <2>1. f[L - n] % Base \in Nat
      BY <1>1, <1>6, Division
    <2> HIDE DEF L
    <2> QED
      BY <1>4, <2>1
  <1>8. g[0] = 0 /\ \A n \in 1..L : g[n] = g[n - 1] * Base + code[n]
    BY <1>7, BelowEquation
  <1> HIDE DEF L, g
  <1>9. \A n \in 0..L : n \in P
    <2>1. 0 \in P
      BY <1>1, <1>3, <1>8
    <2>2. ASSUME NEW n \in 1..L, n - 1 \in P PROVE n \in P
      <3> DEFINE x == f[L - n]
      <3>1. n \in 0..L /\ L - (n - 1) = (L - n) + 1 /\ (L - n) + 1 \in 1..L /\ ((L - n) + 1) - 1 = L - n
        BY <1>1
      <3>2. g[n - 1] = x \div Base
        BY <1>2, <2>2, <3>1
      <3>3. g[n] = (x \div Base) * Base + (x % Base)
        BY <1>7, <1>8, <3>2
      <3>4. x = (x \div Base) * Base + (x % Base)
        <4>1. x \in Nat
          BY <1>6
        <4> HIDE DEF x
        <4> QED
          BY <1>1, <4>1, Division
      <3> QED
        BY <3>1, <3>3, <3>4
    <2> HIDE DEF P
    <2> QED
      BY <1>1, <2>1, <2>2, BoundedInduction
  <1>10. g[L] = v
    BY <1>1, <1>2, <1>9
  <1> QED
    BY <1>5, <1>10 DEF code

-----------------------------------------------------------------------------
(***************************************************************************)
(* Codes                                                                   *)
(***************************************************************************)
\* The permuted ids are ids, another one for another id.
LEMMA PermuteInjective ==
    ASSUME NEW keys \in Keys, NEW i \in Ids, NEW j \in Ids
    PROVE  /\ PermuteHalves(keys, Split(i)) \in Inside
           /\ Permute(keys, i) \in Nat /\ Permute(keys, i) < Space
           /\ Permute(keys, i) = Permute(keys, j) => i = j
  <1> DEFINE p == PermuteHalves(keys, Split(i))
             q == PermuteHalves(keys, Split(j))
  <1>1. Split(i) \in Inside /\ Split(j) \in Inside /\ Join(Split(i)) = i /\ Join(Split(j)) = j
    BY SplitInside DEF Ids
  <1>2. p \in Inside /\ q \in Inside /\ (p = q => Split(i) = Split(j))
    BY <1>1, PermuteHalvesInjective
  <1>3. Permute(keys, i) = Join(p) /\ Permute(keys, j) = Join(q)
    BY DEF Permute
  <1> HIDE DEF p, q
  <1>4. p \in Pairs /\ q \in Pairs
    BY <1>2 DEF Inside
  <1>5. Join(p) \in Nat /\ Split(Join(p)) = p /\ Split(Join(q)) = q /\ Join(p) < Space
    BY <1>2, <1>4, JoinHalves, InsideMeansBelow
  <1>6. Join(p) = Join(q) => i = j
    BY <1>1, <1>2, <1>5
  <1> QED
    BY <1>2, <1>3, <1>5, <1>6 DEF p

\* A code is the numeral of the permuted id.
LEMMA EncodeIsNumeral ==
    ASSUME NEW keys \in Keys, NEW i \in Ids
    PROVE  /\ Encode(keys, i) = EncodeBase62Fixed(Permute(keys, i))
           /\ ValueOf(Encode(keys, i)) = Permute(keys, i)
  <1> DEFINE p == PermuteHalves(keys, Split(i))
  <1>1. p \in Inside /\ Permute(keys, i) \in Nat /\ Permute(keys, i) < Space
    BY PermuteInjective
  <1>2. p \in Nat \X Nat
    BY <1>1, Sizes DEF Inside, Pairs, Halves
  <1>3. Encode(keys, i) = Digits(p) /\ Permute(keys, i) = Join(p)
    BY DEF Encode, Permute
  <1>4. Digits(p) = EncodeBase62Fixed(Join(p))
    <2> HIDE DEF p
    <2> QED
      BY <1>2, DigitsOfNumber
  <1>5. ValueOf(EncodeBase62Fixed(Permute(keys, i))) = Permute(keys, i)
    BY <1>1, NumeralsRead
  <1> QED
    BY <1>3, <1>4, <1>5

\* CodeScrambler.encode writes no id wrong and gives no two ids the same code,
\* whatever the secret makes of the mixers, for any sizes of the halves, of
\* the base and of the length whose codes fit in the two halves.
THEOREM CodesOfIds ==
    MiswrittenIds = {} /\ ClashingIds = {}
  <1>1. MiswrittenIds = {}
    BY EncodeIsNumeral DEF MiswrittenIds
  <1>2. ASSUME NEW keys \in Keys, NEW i \in Ids, NEW j \in Ids, Encode(keys, i) = Encode(keys, j)
        PROVE  i = j
    <2>1. Permute(keys, i) = Permute(keys, j)
      BY <1>2, EncodeIsNumeral
    <2> QED
      BY <2>1, PermuteInjective
  <1> DEFINE clashes(keys) ==
                LET code == [i \in Ids |-> Encode(keys, i)]
                IN  {p \in Ids \X Ids : p[1] # p[2] /\ code[p[1]] = code[p[2]]}
  <1>3. \A keys \in Keys : clashes(keys) = {}
    BY <1>2
  <1>4. ClashingIds = UNION {clashes(keys) : keys \in Keys}
    BY DEF ClashingIds
  <1> HIDE DEF clashes
  <1> QED
    BY <1>1, <1>3, <1>4

-----------------------------------------------------------------------------
\* What nextCode returns is a code of the code space that no other call is
\* given, in whatever process and across restarts and lost answers, and it is
\* the fixed-length numeral of the permuted id.
THEOREM CodesAreCorrect == Spec => []CodesCorrect
<1>1. TypeOK /\ IdsUnique /\ IdsInCodeSpace => CodesCorrect
  <2> SUFFICES ASSUME TypeOK, IdsUnique, IdsInCodeSpace PROVE CodesCorrect
    OBVIOUS
  <2>1. CodesDistinct
    BY CodesOfIds DEF CodesDistinct, IdsUnique
  <2>2. CodesAreNumerals
    BY CodesOfIds DEF CodesAreNumerals
  <2> QED
    BY <2>1, <2>2 DEF CodesCorrect
<1> QED
  BY <1>1, TypesKept, UniqueIds, InCodeSpace, PTL
=============================================================================
