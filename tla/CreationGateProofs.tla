------------------------- MODULE CreationGateProofs -------------------------
(***************************************************************************)
(* The quota of the creation gate, for any number of clients, requests and *)
(* faults, any limit and any window.                                       *)
(***************************************************************************)
EXTENDS CreationGate, FiniteSetTheorems, TLAPS

(***************************************************************************)
(* What is inductive                                                       *)
(***************************************************************************)
\* A request in the gate has a client, and every eviction was a fault.
ClientInv ==
    /\ \A r \in Requests : rpc[r] # "idle" => who[r] \in Clients
    /\ \A i \in Clients : evicted[i] <= faults

\* Requests that were counted and have not been authenticated: they may be late.
Late(i) == {r \in Requests : rpc[r] = "counted" /\ who[r] = i}

\* Seconds of the client's window that have passed.
Elapsed(i) == IF left[i] > 0 THEN Window - left[i] ELSE 0

\* What the counter allowed in the window: a refused request counts too.
Used(i) == UpTo(count[i], Maximum)

\* With n windows of the client over, its checks and the late ones fit into
\* those windows, the evicted ones and what the present one allowed.
WithinWindows(i, n) ==
    /\ checks[i] + Cardinality(Late(i)) <= Maximum * (n + evicted[i]) + Used(i)
    /\ n * Window + Elapsed(i) <= now

WindowsInv == now < MaxClock => \A i \in Clients : \E n \in Nat : WithinWindows(i, n)

-----------------------------------------------------------------------------
(***************************************************************************)
(* Types                                                                   *)
(***************************************************************************)
\* The invariants hold at the start.
LEMMA GateInit ==
    ASSUME Init
    PROVE  TypeOK /\ ClientInv
  BY GateAssumption DEF Init, TypeOK, ClientInv, Stages, Forever

\* CONSUME_RATE_LIMIT keeps the counter and its TTL of their types, and a
\* counter has a TTL.
LEMMA ConsumeTypes ==
    ASSUME TypeOK, NEW i \in Clients, ConsumeRateLimit(i)
    PROVE  /\ count' \in [Clients -> 0..(Maximum + 1)]
           /\ left' \in [Clients -> 0..Window \union {Forever}]
           /\ \A j \in Clients : count'[j] = 0 <=> left'[j] = 0
  <1> USE GateAssumption DEF TypeOK, Forever
  <1>1. /\ count' = [count EXCEPT ![i] = UpTo(count[i] + 1, Maximum + 1)]
        /\ left' = [left EXCEPT ![i] = IF count[i] = 0 \/ left[i] = Forever THEN Window ELSE left[i]]
    BY DEF ConsumeRateLimit
  <1>2. UpTo(count[i] + 1, Maximum + 1) \in 1..(Maximum + 1)
    BY DEF UpTo
  <1> QED
    BY <1>1, <1>2

\* A step of a request keeps the types.
LEMMA RequestTypes ==
    ASSUME TypeOK, ClientInv, NEW r \in Requests, RequestStep(r)
    PROVE  TypeOK' /\ ClientInv'
  <1> USE DEF TypeOK, Stages
  <1>1. ASSUME NEW i \in Clients, NEW b \in Bodies, Arrive(r, i, b)
        PROVE  TypeOK' /\ ClientInv'
    BY <1>1 DEF Arrive, Goto, limiter, ClientInv
  <1>2. CASE Consume(r)
    <2>1. who[r] \in Clients
      BY <1>2 DEF Consume, ClientInv
    <2>2. /\ ConsumeRateLimit(who[r])
          /\ rpc' \in [Requests -> Stages]
          /\ \A q \in Requests : rpc'[q] # "idle" => rpc[q] # "idle"
          /\ UNCHANGED <<ready, who, body, now, checks, evicted, faults>>
      BY <1>2 DEF Consume, Goto
    <2>3. TypeOK'
      BY <2>1, <2>2, ConsumeTypes
    <2>4. ClientInv'
      BY <2>2 DEF ClientInv
    <2> QED
      BY <2>3, <2>4
  <1>3. CASE Deny(r)
    BY <1>3 DEF Deny, Goto, limiter, ClientInv
  <1>4. CASE Authenticate(r)
    <2>1. who[r] \in Clients
      BY <1>4 DEF Authenticate, ClientInv
    <2>2. UpTo(checks[who[r]] + 1, MaxChecks) \in 0..MaxChecks
      BY <2>1, GateAssumption DEF UpTo
    <2>3. checks' \in [Clients -> 0..MaxChecks]
      BY <1>4, <2>1, <2>2 DEF Authenticate
    <2>4. /\ rpc' \in [Requests -> Stages]
          /\ \A q \in Requests : rpc'[q] # "idle" => rpc[q] # "idle"
          /\ UNCHANGED <<count, left, ready, who, body, now, evicted, faults>>
      BY <1>4 DEF Authenticate, Goto, limiter
    <2> QED
      BY <2>3, <2>4 DEF ClientInv
  <1>5. CASE Resolve(r)
    BY <1>5 DEF Resolve, Goto, limiter, ClientInv
  <1>6. CASE Accept(r)
    BY <1>6 DEF Accept, Goto, limiter, ClientInv
  <1>7. CASE Answered(r)
    BY <1>7 DEF Answered, Goto, limiter, ClientInv
  <1> QED
    BY <1>1, <1>2, <1>3, <1>4, <1>5, <1>6, <1>7 DEF RequestStep

\* The gate keeps its types, its requests their clients.
LEMMA GateStep ==
    ASSUME TypeOK, ClientInv, [Next]_vars
    PROVE  TypeOK' /\ ClientInv'
  <1> USE DEF TypeOK
  <1>1. CASE UNCHANGED vars
    BY <1>1 DEF vars, limiter, ClientInv
  <1>2. ASSUME NEW r \in Requests, RequestStep(r)
        PROVE  TypeOK' /\ ClientInv'
    BY <1>2, RequestTypes
  <1>3. CASE Second
    <2>1. /\ count' \in [Clients -> 0..(Maximum + 1)]
          /\ left' \in [Clients -> 0..Window \union {Forever}]
          /\ \A j \in Clients : count'[j] = 0 <=> left'[j] = 0
      BY <1>3, GateAssumption DEF Second, Expire, Forever
    <2>2. now' \in 0..MaxClock
      BY <1>3, GateAssumption DEF Second, UpTo
    <2> QED
      BY <1>3, <2>1, <2>2 DEF Second, ClientInv
  <1>4. CASE Connection(TRUE) /\ UNCHANGED faults
    BY <1>4 DEF Connection, limiter, ClientInv
  <1>5. CASE Fault
    <2>0. faults' \in 0..MaxFaults /\ faults' = faults + 1
      BY <1>5, GateAssumption DEF Fault
    <2>1. ASSUME NEW r \in Requests, ConsumeFails(r)
          PROVE  TypeOK' /\ ClientInv'
      <3>1. who[r] \in Clients
        BY <2>1 DEF ConsumeFails, ClientInv
      <3>2. /\ rpc' \in [Requests -> Stages]
            /\ \A q \in Requests : rpc'[q] # "idle" => rpc[q] # "idle"
            /\ UNCHANGED <<ready, who, body, now, checks, evicted>>
        BY <2>1 DEF ConsumeFails, Goto, Stages
      <3>3. /\ count' \in [Clients -> 0..(Maximum + 1)]
            /\ left' \in [Clients -> 0..Window \union {Forever}]
            /\ \A j \in Clients : count'[j] = 0 <=> left'[j] = 0
        BY <2>1, <3>1, ConsumeTypes DEF ConsumeFails, limiter
      <3>4. ClientInv'
        BY <2>0, <3>2 DEF ClientInv
      <3> QED
        BY <2>0, <3>2, <3>3, <3>4
    <2>2. ASSUME NEW i \in Clients, Evict(i)
          PROVE  TypeOK' /\ ClientInv'
      <3>1. /\ count' = [j \in Clients |-> IF j = i THEN 0 ELSE count[j]]
            /\ left' = [left EXCEPT ![i] = 0]
            /\ evicted' = [evicted EXCEPT ![i] = evicted[i] + 1]
            /\ UNCHANGED <<ready, rpc, who, body, now, checks>>
        BY <2>2 DEF Evict, Expire
      <3>2. \A j \in Clients : evicted'[j] \in 0..MaxFaults /\ evicted'[j] <= faults'
        BY <2>0, <3>1, GateAssumption DEF ClientInv
      <3>3. evicted' \in [Clients -> 0..MaxFaults]
        BY <3>1, <3>2
      <3>4. /\ count' \in [Clients -> 0..(Maximum + 1)]
            /\ left' \in [Clients -> 0..Window \union {Forever}]
            /\ \A j \in Clients : count'[j] = 0 <=> left'[j] = 0
        BY <3>1, GateAssumption
      <3> QED
        BY <2>0, <3>1, <3>2, <3>3, <3>4 DEF ClientInv
    <2>3. CASE Connection(FALSE)
      <3>1. ready' \in BOOLEAN /\ UNCHANGED <<count, left, rpc, who, body, now, checks, evicted>>
        BY <2>3 DEF Connection, limiter
      <3>2. ClientInv'
        BY <2>0, <3>1 DEF ClientInv
      <3> QED
        BY <2>0, <3>1, <3>2
    <2> QED
      BY <1>5, <2>1, <2>2, <2>3 DEF Fault
  <1> QED
    BY <1>1, <1>2, <1>3, <1>4, <1>5 DEF Next

-----------------------------------------------------------------------------
(***************************************************************************)
(* Windows                                                                 *)
(***************************************************************************)
\* The sets and numbers the quota is stated with are finite and natural.
LEMMA WindowTypes ==
    ASSUME TypeOK, NEW i \in Clients
    PROVE  /\ IsFiniteSet(Late(i)) /\ Cardinality(Late(i)) \in Nat
           /\ Elapsed(i) \in 0..Window
           /\ Used(i) \in 0..Maximum
           /\ checks[i] \in Nat /\ evicted[i] \in Nat /\ count[i] \in Nat /\ now \in Nat
           /\ left[i] \in Int
  <1>1. IsFiniteSet(Late(i))
    BY GateAssumption, FS_Subset DEF Late
  <1>2. Cardinality(Late(i)) \in Nat
    BY <1>1, FS_CardinalityType
  <1>3. Elapsed(i) \in 0..Window /\ Used(i) \in 0..Maximum /\ left[i] \in Int
    BY GateAssumption DEF TypeOK, Elapsed, Used, UpTo, Forever
  <1> QED
    BY <1>1, <1>2, <1>3, GateAssumption DEF TypeOK

\* A step that moves no request into or out of "counted" leaves the late
\* requests as they are.
LEMMA LateSame ==
    ASSUME NEW i \in Clients,
           \A q \in Requests : (rpc'[q] = "counted" /\ who'[q] = i) <=> (rpc[q] = "counted" /\ who[q] = i)
    PROVE  Late(i)' = Late(i)
  BY DEF Late

\* No step takes more from a client than its windows give: steps other than a
\* count, a check, the end of a window and an eviction.
LEMMA QuietWindows ==
    ASSUME NEW i \in Clients, NEW n \in Nat, WithinWindows(i, n),
           Late(i)' = Late(i), UNCHANGED <<count, left, checks, evicted, now>>
    PROVE  WithinWindows(i, n)'
  <1>1. /\ Elapsed(i)' = Elapsed(i) /\ Used(i)' = Used(i)
        /\ Cardinality(Late(i)') = Cardinality(Late(i))
    <2>1. Cardinality(Late(i)') = Cardinality(Late(i))
      BY Zenon
    <2> QED
      BY <2>1 DEF Elapsed, Used
  <1> QED
    BY <1>1 DEF WithinWindows

\* The TTL a count sets begins a window, which only moves its beginning on.
LEMMA ConsumeElapsed ==
    ASSUME TypeOK, NEW j \in Clients, ConsumeRateLimit(j), NEW i \in Clients
    PROVE  Elapsed(i)' \in Nat /\ Elapsed(i)' <= Elapsed(i)
  <1> USE GateAssumption DEF TypeOK, Forever
  <1>1. left' = [left EXCEPT ![j] = IF count[j] = 0 \/ left[j] = Forever THEN Window ELSE left[j]]
    BY DEF ConsumeRateLimit
  <1>2. left'[i] = left[i] \/ (left'[i] = Window /\ left[i] \in {0, Forever})
    BY <1>1
  <1> QED
    BY <1>2 DEF Elapsed

\* A count raises what the window has allowed by one, up to the maximum.
LEMMA ConsumeUsed ==
    ASSUME TypeOK, NEW j \in Clients, ConsumeRateLimit(j), NEW i \in Clients
    PROVE  /\ Used(i)' \in Nat /\ Used(i) <= Used(i)'
           /\ i = j /\ count[j] + 1 <= Maximum => Used(i)' = Used(i) + 1
  <1> USE GateAssumption DEF TypeOK
  <1>1. count' = [count EXCEPT ![j] = UpTo(count[j] + 1, Maximum + 1)]
    BY DEF ConsumeRateLimit
  <1>2. CASE i = j
    <2>1. count'[i] = UpTo(count[i] + 1, Maximum + 1)
      BY <1>1, <1>2
    <2> QED
      BY <1>2, <2>1 DEF Used, UpTo
  <1>3. CASE i # j
    <2>1. count'[i] = count[i]
      BY <1>1, <1>3
    <2> QED
      BY <1>3, <2>1 DEF Used, UpTo
  <1> QED
    BY <1>2, <1>3

\* A count that the script allowed makes a request late and uses up one more of
\* the window; one it refused makes none late.
LEMMA ConsumeWindows ==
    ASSUME TypeOK, TypeOK', ClientInv, NEW r \in Requests, Consume(r),
           NEW i \in Clients, NEW n \in Nat, WithinWindows(i, n)
    PROVE  WithinWindows(i, n)'
  <1>1. who[r] \in Clients
    BY DEF Consume, ClientInv
  <1>2. /\ ConsumeRateLimit(who[r])
        /\ rpc' = [rpc EXCEPT ![r] = IF count[who[r]] + 1 <= Maximum THEN "counted" ELSE "denied"]
        /\ rpc[r] = "limit"
        /\ UNCHANGED <<who, now, checks, evicted>>
    BY DEF Consume, Goto
  <1>3. Elapsed(i)' \in Nat /\ Elapsed(i)' <= Elapsed(i)
    BY <1>1, <1>2, ConsumeElapsed
  <1>4. /\ Used(i)' \in Nat /\ Used(i) <= Used(i)'
        /\ i = who[r] /\ count[who[r]] + 1 <= Maximum => Used(i)' = Used(i) + 1
    BY <1>1, <1>2, ConsumeUsed
  <1>5. Cardinality(Late(i)') \in Nat
        /\ Cardinality(Late(i)') + Used(i) <= Cardinality(Late(i)) + Used(i)'
    <2>0. IsFiniteSet(Late(i)) /\ Cardinality(Late(i)) \in Nat /\ Used(i) \in Nat
      BY WindowTypes, GateAssumption
    <2>1. CASE i = who[r] /\ count[who[r]] + 1 <= Maximum
      <3>1. Late(i)' = Late(i) \union {r} /\ r \notin Late(i)
        BY <1>2, <2>1 DEF Late, TypeOK
      <3>2. Cardinality(Late(i) \union {r}) = Cardinality(Late(i)) + 1
        BY <2>0, <3>1, FS_AddElement
      <3>3. Cardinality(Late(i)') = Cardinality(Late(i) \union {r})
        BY <3>1, Zenon
      <3> QED
        BY <1>4, <2>0, <2>1, <3>2, <3>3
    <2>2. CASE ~(i = who[r] /\ count[who[r]] + 1 <= Maximum)
      <3>1. Late(i)' = Late(i)
        BY <1>2, <2>2 DEF Late, TypeOK
      <3>2. Cardinality(Late(i)') = Cardinality(Late(i))
        BY <3>1, Zenon
      <3> QED
        BY <1>4, <2>0, <3>2
    <2> QED
      BY <2>1, <2>2
  <1>6. /\ checks[i] \in Nat /\ evicted[i] \in Nat /\ now \in Nat
        /\ Cardinality(Late(i)) \in Nat /\ Used(i) \in Nat /\ Elapsed(i) \in Nat
    BY WindowTypes, GateAssumption
  <1>7. checks[i] + Cardinality(Late(i)') <= Maximum * (n + evicted[i]) + Used(i)'
    <2> DEFINE Quota == Maximum * (n + evicted[i])
    <2>1. Quota \in Nat
      BY <1>6, GateAssumption
    <2>2. checks[i] + Cardinality(Late(i)) <= Quota + Used(i)
      BY DEF WithinWindows
    <2> HIDE DEF Quota
    <2>3. checks[i] + Cardinality(Late(i)') <= Quota + Used(i)'
      BY <1>4, <1>5, <1>6, <2>1, <2>2
    <2> QED
      BY <2>3 DEF Quota
  <1>8. n * Window + Elapsed(i)' <= now
    <2> DEFINE Over == n * Window
    <2>1. Over \in Nat
      BY GateAssumption
    <2>2. Over + Elapsed(i) <= now
      BY DEF WithinWindows
    <2> HIDE DEF Over
    <2>3. Over + Elapsed(i)' <= now
      BY <1>3, <1>6, <2>1, <2>2
    <2> QED
      BY <2>3 DEF Over
  <1> QED
    BY <1>2, <1>7, <1>8 DEF WithinWindows

\* A script whose answer is lost may have counted: the window has less left.
LEMMA ConsumeFailsWindows ==
    ASSUME TypeOK, TypeOK', ClientInv, NEW r \in Requests, ConsumeFails(r),
           NEW i \in Clients, NEW n \in Nat, WithinWindows(i, n)
    PROVE  WithinWindows(i, n)'
  <1>1. who[r] \in Clients
    BY DEF ConsumeFails, ClientInv
  <1>2. /\ ConsumeRateLimit(who[r]) \/ UNCHANGED <<count, left>>
        /\ rpc' = [rpc EXCEPT ![r] = "503"]
        /\ rpc[r] = "limit"
        /\ UNCHANGED <<who, now, checks, evicted>>
    BY DEF ConsumeFails, Goto, limiter
  <1>3. Late(i)' = Late(i)
    BY <1>2 DEF Late, TypeOK
  <1>4. CASE UNCHANGED <<count, left>>
    BY <1>2, <1>3, <1>4, QuietWindows
  <1>5. CASE ConsumeRateLimit(who[r])
    <2>1. Elapsed(i)' \in Nat /\ Elapsed(i)' <= Elapsed(i)
      BY <1>1, <1>5, ConsumeElapsed
    <2>2. Used(i)' \in Nat /\ Used(i) <= Used(i)'
      BY <1>1, <1>5, ConsumeUsed
    <2>3. Cardinality(Late(i)') = Cardinality(Late(i))
      BY <1>3, Zenon
    <2>4. /\ checks[i] \in Nat /\ evicted[i] \in Nat /\ now \in Nat
          /\ Cardinality(Late(i)) \in Nat /\ Used(i) \in Nat /\ Elapsed(i) \in Nat
      BY WindowTypes, GateAssumption
    <2>5. Maximum * (n + evicted[i]) \in Nat /\ n * Window \in Nat
      BY <2>4, GateAssumption
    <2> QED
      BY <1>2, <2>1, <2>2, <2>3, <2>4, <2>5 DEF WithinWindows
  <1> QED
    BY <1>2, <1>4, <1>5

\* A check of a credential is one of a late request.
LEMMA AuthenticateWindows ==
    ASSUME TypeOK, TypeOK', ClientInv, NEW r \in Requests, Authenticate(r),
           NEW i \in Clients, NEW n \in Nat, WithinWindows(i, n)
    PROVE  WithinWindows(i, n)'
  <1>1. who[r] \in Clients
    BY DEF Authenticate, ClientInv
  <1>2. /\ rpc[r] = "counted" /\ rpc' = [rpc EXCEPT ![r] = rpc'[r]] /\ rpc'[r] # "counted"
        /\ checks' = [checks EXCEPT ![who[r]] = UpTo(checks[who[r]] + 1, MaxChecks)]
        /\ UNCHANGED <<count, left, who, now, evicted>>
    BY DEF Authenticate, Goto, limiter, TypeOK
  <1>3. Elapsed(i)' = Elapsed(i) /\ Used(i)' = Used(i)
    BY <1>2 DEF Elapsed, Used
  <1>4. CASE i = who[r]
    <2>1. Late(i)' = Late(i) \ {r} /\ r \in Late(i)
      BY <1>2, <1>4 DEF Late, TypeOK
    <2>2. IsFiniteSet(Late(i)) /\ Cardinality(Late(i)) \in Nat
      BY WindowTypes
    <2>3. Cardinality(Late(i) \ {r}) = Cardinality(Late(i)) - 1
      BY <2>1, <2>2, FS_RemoveElement
    <2>4. Cardinality(Late(i)') = Cardinality(Late(i) \ {r})
      BY <2>1, Zenon
    <2>5. checks'[i] \in Nat /\ checks[i] \in Nat /\ checks'[i] <= checks[i] + 1
      BY <1>2, <1>4, GateAssumption DEF TypeOK, UpTo
    <2>6. Maximum * (n + evicted[i]) \in Nat /\ Used(i) \in Nat
      BY WindowTypes, GateAssumption
    <2> QED
      BY <1>2, <1>3, <2>2, <2>3, <2>4, <2>5, <2>6 DEF WithinWindows
  <1>5. CASE i # who[r]
    <2>1. Late(i)' = Late(i)
      BY <1>2, <1>5 DEF Late, TypeOK
    <2>2. Cardinality(Late(i)') = Cardinality(Late(i))
      BY <2>1, Zenon
    <2>3. checks'[i] = checks[i]
      BY <1>1, <1>2, <1>5 DEF TypeOK
    <2> QED
      BY <1>2, <1>3, <2>2, <2>3 DEF WithinWindows
  <1> QED
    BY <1>4, <1>5

\* One more in a product.
LEMMA OneMore ==
    ASSUME NEW a \in Nat, NEW b \in Nat
    PROVE  a * b \in Nat /\ a * (b + 1) = a * b + a /\ (b + 1) * a = b * a + a
  OBVIOUS

\* When a second ends the window of a client, as many as it allowed may come
\* again, and it has lasted its full time.
LEMMA SecondWindows ==
    ASSUME TypeOK, Second, now < MaxClock,
           NEW i \in Clients, NEW n \in Nat, WithinWindows(i, n)
    PROVE  \E m \in Nat : WithinWindows(i, m)'
  <1>1. /\ left' = [j \in Clients |-> IF left[j] > 0 THEN left[j] - 1 ELSE left[j]]
        /\ count' = [j \in Clients |-> IF left[j] = 1 THEN 0 ELSE count[j]]
        /\ now' = now + 1
        /\ UNCHANGED <<rpc, who, checks, evicted>>
    BY GateAssumption DEF Second, Expire, UpTo, TypeOK
  <1>2. Late(i)' = Late(i)
    BY <1>1 DEF Late
  <1>3. Cardinality(Late(i)') = Cardinality(Late(i))
    BY <1>2, Zenon
  <1>4. /\ checks[i] \in Nat /\ evicted[i] \in Nat /\ now \in Nat /\ left[i] \in Int
        /\ Cardinality(Late(i)) \in Nat /\ Used(i) \in 0..Maximum /\ Elapsed(i) \in Nat
    BY WindowTypes, GateAssumption
  <1>5. CASE left[i] = 1
    <2>1. Elapsed(i) = Window - 1 /\ Elapsed(i)' = 0 /\ Used(i)' = 0
      BY <1>1, <1>5, GateAssumption DEF Elapsed, Used, UpTo
    <2>2. (n + 1) * Window = n * Window + Window /\ n * Window \in Nat
      BY OneMore, GateAssumption
    <2>3. Maximum * ((n + 1) + evicted[i]) = Maximum * (n + evicted[i]) + Maximum
          /\ Maximum * (n + evicted[i]) \in Nat
      BY <1>4, OneMore, GateAssumption
    <2>4. (n + 1) * Window + Elapsed(i)' <= now'
      BY <1>1, <1>4, <2>1, <2>2, GateAssumption DEF WithinWindows
    <2>5. checks[i] + Cardinality(Late(i)') <= Maximum * ((n + 1) + evicted[i]) + Used(i)'
      <3> DEFINE Quota == Maximum * (n + evicted[i])
      <3>1. checks[i] + Cardinality(Late(i)) <= Quota + Used(i)
        BY DEF WithinWindows
      <3>2. Maximum * ((n + 1) + evicted[i]) = Quota + Maximum /\ Quota \in Nat
        BY <2>3
      <3> HIDE DEF Quota
      <3>3. checks[i] + Cardinality(Late(i)') <= (Quota + Maximum) + Used(i)'
        BY <1>3, <1>4, <2>1, <3>1, <3>2, GateAssumption
      <3> QED
        BY <3>2, <3>3, Zenon
    <2>6. WithinWindows(i, n + 1)'
      BY <1>1, <2>4, <2>5 DEF WithinWindows
    <2> QED
      BY <2>6
  <1>6. CASE left[i] # 1
    <2>1. Used(i)' = Used(i) /\ Elapsed(i)' \in Nat /\ Elapsed(i)' <= Elapsed(i) + 1
      BY <1>1, <1>4, <1>6, GateAssumption DEF Elapsed, Used, TypeOK
    <2>2. n * Window \in Nat
      BY GateAssumption
    <2>3. n * Window + Elapsed(i)' <= now'
      BY <1>1, <1>4, <2>1, <2>2 DEF WithinWindows
    <2>4. WithinWindows(i, n)'
      BY <1>1, <1>3, <2>1, <2>3 DEF WithinWindows
    <2> QED
      BY <2>4
  <1> QED
    BY <1>5, <1>6

\* An eviction ends the window early, which the quota knows of.
LEMMA EvictWindows ==
    ASSUME TypeOK, NEW j \in Clients, Evict(j),
           NEW i \in Clients, NEW n \in Nat, WithinWindows(i, n)
    PROVE  WithinWindows(i, n)'
  <1>1. /\ left[j] > 0
        /\ left' = [left EXCEPT ![j] = 0]
        /\ count' = [k \in Clients |-> IF k = j THEN 0 ELSE count[k]]
        /\ evicted' = [evicted EXCEPT ![j] = evicted[j] + 1]
        /\ UNCHANGED <<rpc, who, now, checks>>
    BY DEF Evict, Expire
  <1>2. Late(i)' = Late(i)
    BY <1>1 DEF Late
  <1>3. Cardinality(Late(i)') = Cardinality(Late(i))
    BY <1>2, Zenon
  <1>4. /\ checks[i] \in Nat /\ evicted[i] \in Nat /\ now \in Nat /\ left[i] \in Int
        /\ Cardinality(Late(i)) \in Nat /\ Used(i) \in 0..Maximum /\ Elapsed(i) \in Nat
    BY WindowTypes, GateAssumption
  <1>5. CASE i = j
    <2>1. Elapsed(i)' = 0 /\ Used(i)' = 0 /\ evicted'[i] = evicted[i] + 1
      BY <1>1, <1>5, GateAssumption DEF Elapsed, Used, UpTo, TypeOK
    <2>2. n * Window + Elapsed(i)' <= now
      <3>1. n * Window \in Nat
        BY GateAssumption
      <3> QED
        BY <1>4, <2>1, <3>1 DEF WithinWindows
    <2>3. Maximum * (n + evicted'[i]) = Maximum * (n + evicted[i]) + Maximum
          /\ Maximum * (n + evicted[i]) \in Nat
      <3>1. n + evicted'[i] = (n + evicted[i]) + 1 /\ n + evicted[i] \in Nat
        BY <1>4, <2>1
      <3> QED
        BY <3>1, OneMore, GateAssumption
    <2>4. checks[i] + Cardinality(Late(i)') <= Maximum * (n + evicted'[i]) + Used(i)'
      BY <1>3, <1>4, <2>1, <2>3, GateAssumption DEF WithinWindows
    <2> QED
      BY <1>1, <2>2, <2>4 DEF WithinWindows
  <1>6. CASE i # j
    <2>1. Elapsed(i)' = Elapsed(i) /\ Used(i)' = Used(i) /\ evicted'[i] = evicted[i]
      BY <1>1, <1>6 DEF Elapsed, Used, TypeOK
    <2> QED
      BY <1>1, <1>3, <2>1 DEF WithinWindows
  <1> QED
    BY <1>5, <1>6

\* Every step leaves a client within its windows.
LEMMA WindowsStep ==
    ASSUME TypeOK, TypeOK', ClientInv, WindowsInv, [Next]_vars
    PROVE  WindowsInv'
  <1>1. SUFFICES ASSUME now' < MaxClock, NEW i \in Clients
                 PROVE  \E m \in Nat : WithinWindows(i, m)'
    BY DEF WindowsInv
  <1>2. now < MaxClock
    <2>1. now \in Nat /\ now <= MaxClock /\ MaxClock \in Nat
      BY GateAssumption DEF TypeOK
    <2>2. CASE Second
      BY <1>1, <2>1, <2>2 DEF Second, UpTo
    <2>3. CASE ~Second
      <3>1. now' = now
        BY <2>3 DEF Next, vars, RequestStep, Arrive, Consume, Deny, Authenticate, Resolve, Accept,
                    Answered, Fault, ConsumeFails, Evict, Connection
      <3> QED
        BY <1>1, <3>1
    <2> QED
      BY <2>2, <2>3
  <1>3. PICK n \in Nat : WithinWindows(i, n)
    BY <1>2 DEF WindowsInv
  <1>4. CASE UNCHANGED vars
    <2>1. Late(i)' = Late(i)
      BY <1>4 DEF Late, vars
    <2> QED
      BY <1>3, <1>4, <2>1, QuietWindows DEF vars, limiter
  <1>5. ASSUME NEW r \in Requests, RequestStep(r)
        PROVE  WithinWindows(i, n)'
    <2>1. CASE Consume(r)
      BY <1>3, <2>1, ConsumeWindows
    <2>2. CASE Authenticate(r)
      BY <1>3, <2>2, AuthenticateWindows
    <2>3. CASE ~Consume(r) /\ ~Authenticate(r)
      <3>1. UNCHANGED <<count, left, checks, evicted, now>>
        BY <1>5, <2>3 DEF RequestStep, Arrive, Deny, Resolve, Accept, Answered, limiter
      <3> DEFINE OthersWait == /\ rpc[r] # "counted" /\ rpc'[r] # "counted"
                               /\ \A q \in Requests \ {r} : rpc'[q] = rpc[q] /\ who'[q] = who[q]
      <3>2. OthersWait
        <4> USE DEF TypeOK
        <4>1. ASSUME NEW k \in Clients, NEW b \in Bodies, Arrive(r, k, b)
              PROVE  OthersWait
          BY <4>1 DEF Arrive, Goto
        <4>2. CASE Deny(r)
          BY <4>2 DEF Deny, Goto
        <4>3. CASE Resolve(r)
          BY <4>3 DEF Resolve, Goto
        <4>4. CASE Accept(r)
          BY <4>4 DEF Accept, Goto
        <4>5. CASE Answered(r)
          BY <4>5 DEF Answered, Goto
        <4> QED
          BY <1>5, <2>3, <4>1, <4>2, <4>3, <4>4, <4>5 DEF RequestStep
      <3>3. Late(i)' = Late(i)
        BY <3>2, LateSame
      <3> QED
        BY <1>3, <3>1, <3>3, QuietWindows
    <2> QED
      BY <2>1, <2>2, <2>3
  <1>6. CASE Second
    BY <1>2, <1>3, <1>6, SecondWindows
  <1>7. ASSUME NEW up \in BOOLEAN, Connection(up)
        PROVE  WithinWindows(i, n)'
    <2>1. Late(i)' = Late(i) /\ UNCHANGED <<count, left, checks, evicted, now>>
      BY <1>7 DEF Late, Connection, limiter
    <2> QED
      BY <1>3, <2>1, QuietWindows
  <1>8. CASE Fault
    <2>1. ASSUME NEW r \in Requests, ConsumeFails(r)
          PROVE  WithinWindows(i, n)'
      BY <1>3, <2>1, ConsumeFailsWindows
    <2>2. ASSUME NEW j \in Clients, Evict(j)
          PROVE  WithinWindows(i, n)'
      BY <1>3, <2>2, EvictWindows
    <2> QED
      BY <1>7, <1>8, <2>1, <2>2 DEF Fault
  <1> QED
    BY <1>4, <1>5, <1>6, <1>7, <1>8 DEF Next

-----------------------------------------------------------------------------
(***************************************************************************)
(* The quota                                                               *)
(***************************************************************************)
\* As many windows as fit into a time are at most its quotient.
LEMMA WindowsInTime ==
    ASSUME NEW n \in Nat, NEW t \in Nat, n * Window <= t
    PROVE  t \div Window \in Nat /\ n <= t \div Window
  <1> DEFINE q == t \div Window
  <1>0. Window \in Nat /\ Window >= 1
    BY GateAssumption
  <1>1. q \in Nat /\ t < q * Window + Window
    BY <1>0
  <1> HIDE DEF q
  <1>2. ASSUME n >= q + 1 PROVE FALSE
    <2>1. PICK d \in Nat : n = (q + 1) + d
      <3>1. n - (q + 1) \in Nat /\ n = (q + 1) + (n - (q + 1))
        BY <1>1, <1>2
      <3> QED
        BY <3>1
    <2>2. n * Window = q * Window + Window + d * Window
      BY <1>0, <1>1, <2>1
    <2>3. q * Window \in Nat /\ d * Window \in Nat
      BY <1>0, <1>1, <2>1
    <2> QED
      BY <1>0, <1>1, <2>2, <2>3
  <1> QED
    BY <1>1, <1>2 DEF q

\* A larger number of windows gives no less.
LEMMA MoreWindows ==
    ASSUME NEW a \in Nat, NEW b \in Nat, a <= b
    PROVE  Maximum * a \in Nat /\ Maximum * a <= Maximum * b
  <1>1. PICK d \in Nat : b = a + d
    <2>1. b - a \in Nat /\ b = a + (b - a)
      OBVIOUS
    <2> QED
      BY <2>1
  <1>2. Maximum * b = Maximum * a + Maximum * d /\ Maximum * a \in Nat /\ Maximum * d \in Nat
    BY <1>1, GateAssumption
  <1> QED
    BY <1>2

\* A client within its windows has not guessed beyond its quota.
LEMMA QuotaFromWindows ==
    ASSUME TypeOK, WindowsInv
    PROVE  GuessesBounded
  <1>1. SUFFICES ASSUME now < MaxClock, NEW i \in Clients
                 PROVE  checks[i] <= Maximum * (1 + (now \div Window) + evicted[i])
    BY DEF GuessesBounded
  <1>2. PICK n \in Nat : WithinWindows(i, n)
    BY <1>1 DEF WindowsInv
  <1>3. /\ checks[i] \in Nat /\ evicted[i] \in Nat /\ now \in Nat
        /\ Cardinality(Late(i)) \in Nat /\ Used(i) \in 0..Maximum /\ Elapsed(i) \in Nat
    BY WindowTypes, GateAssumption
  <1>4. n * Window <= now
    <2>1. n * Window \in Nat
      BY GateAssumption
    <2> QED
      BY <1>2, <1>3, <2>1 DEF WithinWindows
  <1> DEFINE q == now \div Window
  <1>5. q \in Nat /\ n <= q
    BY <1>3, <1>4, WindowsInTime
  <1> HIDE DEF q
  <1>6. Maximum * (1 + n + evicted[i]) \in Nat
        /\ Maximum * (1 + n + evicted[i]) <= Maximum * (1 + q + evicted[i])
    BY <1>3, <1>5, MoreWindows
  <1>7. Maximum * (1 + n + evicted[i]) = Maximum * (n + evicted[i]) + Maximum
        /\ Maximum * (n + evicted[i]) \in Nat
    <2>1. 1 + n + evicted[i] = (n + evicted[i]) + 1 /\ n + evicted[i] \in Nat
      BY <1>3
    <2> QED
      BY <2>1, OneMore, GateAssumption
  <1>8. checks[i] <= Maximum * (n + evicted[i]) + Maximum
    BY <1>2, <1>3, <1>7, GateAssumption DEF WithinWindows
  <1>9. Maximum * (1 + q + evicted[i]) \in Nat
    BY <1>3, <1>5, GateAssumption
  <1>10. checks[i] <= Maximum * (1 + q + evicted[i])
    BY <1>3, <1>6, <1>7, <1>8, <1>9
  <1> QED
    BY <1>10 DEF q

\* "Rate limiting runs before authentication so invalid credentials cannot be
\* guessed without consuming quota" (app.ts:218), for any number of clients and
\* concurrent requests, any maximum and window: whatever requests are late,
\* scripts lost and counters evicted, a client's credential checks stay within
\* the maximum for each window that can have begun.
THEOREM QuotaCorrect == Spec => []QuotaHolds
  <1>1. Init => TypeOK /\ ClientInv /\ WindowsInv
    <2> SUFFICES ASSUME Init PROVE TypeOK /\ ClientInv /\ WindowsInv
      OBVIOUS
    <2>1. TypeOK /\ ClientInv
      BY GateInit
    <2>2. ASSUME NEW i \in Clients PROVE WithinWindows(i, 0)
      <3>1. Late(i) = {} /\ checks[i] = 0 /\ evicted[i] = 0 /\ now = 0 /\ Elapsed(i) = 0
        BY GateAssumption DEF Init, Late, Elapsed, Forever
      <3>2. Cardinality(Late(i)) = 0
        BY <3>1, FS_EmptySet, Zenon
      <3>3. Used(i) \in Nat
        BY <2>1, WindowTypes, GateAssumption
      <3> QED
        BY <3>1, <3>2, <3>3, GateAssumption DEF WithinWindows
    <2>3. WindowsInv
      BY <2>2 DEF WindowsInv
    <2> QED
      BY <2>1, <2>3
  <1>2. TypeOK /\ ClientInv /\ WindowsInv /\ [Next]_vars => (TypeOK /\ ClientInv /\ WindowsInv)'
    BY GateStep, WindowsStep
  <1>3. TypeOK /\ WindowsInv => QuotaHolds
    BY QuotaFromWindows DEF QuotaHolds
  <1> QED
    BY <1>1, <1>2, <1>3, PTL DEF Spec
=============================================================================
