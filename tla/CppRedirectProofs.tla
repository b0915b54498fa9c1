------------------------- MODULE CppRedirectProofs -------------------------
(***************************************************************************)
(* Proofs about CppRedirect, for any codes, requests, stripes, statements  *)
(* under way and faults.                                                   *)
(***************************************************************************)
EXTENDS CppRedirect, RecursionTheorems, TLAPS

-----------------------------------------------------------------------------
(***************************************************************************)
(* Redirects                                                               *)
(***************************************************************************)
\* The types of the links and of the requests.
LinkTypeOK ==
    /\ rows \subseteq created /\ hashes \subseteq created
    /\ created \subseteq Codes /\ expired \subseteq expiring /\ expiring \subseteq created
    /\ rpc \in [Requests -> {"new", "redis", "select", "found", "302", "404", "503"}]
    /\ rcode \in [Requests -> Codes \union {None}]
    /\ bypassed \subseteq Requests
    /\ began \in [Requests -> [links : SUBSET Codes, expired : SUBSET Codes]]

\* A link is in Redis until it has a row or an expiry; so a request that Redis
\* has answered without its link finds the link in PostgreSQL, or it expires.
LookupInv ==
    /\ created \subseteq hashes \union rows \union expiring
    /\ \A r \in Requests : rpc[r] # "new" => rcode[r] \in Codes
    /\ \A r \in Requests : began[r].links \subseteq created /\ began[r].expired \subseteq expired
    /\ \A r \in Requests : rpc[r] = "found" => rcode[r] \in rows
    /\ \A r \in Requests \ bypassed :
          (rpc[r] = "select" /\ rcode[r] \in began[r].links) => rcode[r] \in rows \union expiring

RedirectInv == LinkTypeOK /\ LookupInv /\ RedirectsRight

\* The part of RedirectInv about one request.
RequestInv(r) ==
    /\ rpc[r] # "new" => rcode[r] \in Codes
    /\ began[r].links \subseteq created /\ began[r].expired \subseteq expired
    /\ rpc[r] = "found" => rcode[r] \in rows
    /\ (r \notin bypassed /\ rpc[r] = "select" /\ rcode[r] \in began[r].links) =>
          rcode[r] \in rows \union expiring
    /\ (r \notin bypassed /\ rpc[r] = "404" /\ rcode[r] \in began[r].links) => rcode[r] \in expiring
    /\ rpc[r] \in {"found", "302"} => rcode[r] \notin began[r].expired

\* The invariant, request by request.
LEMMA RedirectParts ==
    RedirectInv <=> /\ LinkTypeOK
                    /\ created \subseteq hashes \union rows \union expiring
                    /\ \A r \in Requests : RequestInv(r)
  BY DEF RedirectInv, LookupInv, RedirectsRight, LinksFound, ExpiredNotServed, RequestInv

\* A step of one request leaves the links as they are.
LEMMA RequestStep ==
    ASSUME RedirectInv, NEW r \in Requests, LinkTypeOK', RequestInv(r)',
           UNCHANGED <<created, rows, expiring, expired>>, hashes \subseteq hashes',
           \A q \in Requests \ {r} :
              /\ rpc'[q] = rpc[q] /\ rcode'[q] = rcode[q] /\ began'[q] = began[q]
              /\ q \in bypassed' <=> q \in bypassed
    PROVE  RedirectInv'
  <1>1. \A q \in Requests : RequestInv(q)
    BY RedirectParts
  <1>2. ASSUME NEW q \in Requests PROVE RequestInv(q)'
    <2>1. CASE q = r
      BY <2>1
    <2>2. CASE q # r
      BY <1>1, <2>2 DEF RequestInv
    <2> QED
      BY <2>1, <2>2
  <1>3. created' \subseteq hashes' \union rows' \union expiring'
    BY RedirectParts
  <1>4. RedirectInv' <=> /\ LinkTypeOK'
                         /\ created' \subseteq hashes' \union rows' \union expiring'
                         /\ \A q \in Requests : RequestInv(q)'
    BY DEF RedirectInv, LookupInv, RedirectsRight, LinksFound, ExpiredNotServed, RequestInv
  <1> QED
    BY <1>2, <1>3, <1>4

\* Every step keeps the redirects right.
LEMMA RedirectStep ==
    ASSUME RedirectInv, [Next]_vars
    PROVE  RedirectInv'
  <1> USE DEF linkVars, requestVars, Goto
  <1>1. /\ LinkTypeOK /\ created \subseteq hashes \union rows \union expiring
        /\ \A r \in Requests : RequestInv(r)
    BY RedirectParts
  <1>2. ASSUME UNCHANGED <<linkVars, requestVars>> PROVE RedirectInv'
    BY <1>2 DEF RedirectInv, LinkTypeOK, LookupInv, RedirectsRight, LinksFound, ExpiredNotServed
  <1>3. ASSUME NEW r \in Requests, NEW c \in Codes, HandleRedirect(r, c) PROVE RedirectInv'
    <2>1. LinkTypeOK'
      BY <1>1, <1>3 DEF HandleRedirect, LinkTypeOK
    <2>2. /\ rpc'[r] = "redis" /\ rcode'[r] = c /\ began'[r] = [links |-> created, expired |-> expired]
          /\ UNCHANGED <<linkVars, bypassed>>
          /\ \A q \in Requests \ {r} : rpc'[q] = rpc[q] /\ rcode'[q] = rcode[q] /\ began'[q] = began[q]
      BY <1>1, <1>3 DEF HandleRedirect, LinkTypeOK
    <2>3. RequestInv(r)'
      BY <2>2 DEF RequestInv
    <2> QED
      BY <2>1, <2>2, <2>3, RequestStep
  <1>4. ASSUME NEW r \in Requests, rpc[r] # "new",
               NEW where \in {"select", "found", "302", "404", "503"},
               rpc' = [rpc EXCEPT ![r] = where], UNCHANGED <<rcode, began, created, rows, expiring, expired>>,
               bypassed' = bypassed \/ bypassed' = bypassed \union {r},
               hashes' = hashes \/ hashes' = hashes \union {rcode[r]},
               hashes' # hashes => rcode[r] \in created,
               where = "found" => rcode[r] \in rows,
               (r \notin bypassed' /\ where = "select") => rcode[r] \notin hashes \ expired,
               (r \notin bypassed' /\ where = "404") => rpc[r] = "select" /\ rcode[r] \notin rows \ expired,
               where \in {"found", "302"} =>
                    rcode[r] \notin expired \/ rcode[r] \notin began[r].expired
        PROVE  RedirectInv'
    <2>1. LinkTypeOK'
      BY <1>1, <1>4 DEF LinkTypeOK
    <2>2. /\ rpc'[r] = where /\ rcode'[r] = rcode[r] /\ began'[r] = began[r]
          /\ \A q \in Requests \ {r} : rpc'[q] = rpc[q] /\ rcode'[q] = rcode[q] /\ began'[q] = began[q]
      BY <1>1, <1>4 DEF LinkTypeOK
    <2>3. RequestInv(r) /\ rcode[r] \in Codes /\ expired \subseteq expiring
      BY <1>1, <1>4 DEF RequestInv, LinkTypeOK
    <2>4. (r \notin bypassed' /\ where = "select" /\ rcode[r] \in began[r].links) =>
             rcode[r] \in rows \union expiring
      BY <1>1, <1>4, <2>3 DEF RequestInv
    <2>5. (r \notin bypassed' /\ where = "404" /\ rcode[r] \in began[r].links) => rcode[r] \in expiring
      BY <1>4, <2>3 DEF RequestInv
    <2>6. RequestInv(r)'
      BY <1>4, <2>2, <2>3, <2>4, <2>5 DEF RequestInv
    <2> QED
      BY <1>4, <2>1, <2>2, <2>6, RequestStep
  <1>5. ASSUME NEW r \in Requests, RedisAnswers(r) PROVE RedirectInv'
    BY <1>4, <1>5 DEF RedisAnswers
  <1>6. ASSUME NEW r \in Requests, RedisFails(r) PROVE RedirectInv'
    BY <1>4, <1>6 DEF RedisFails
  <1>7. ASSUME NEW r \in Requests, SelectRow(r) PROVE RedirectInv'
    BY <1>4, <1>7 DEF SelectRow
  <1>8. ASSUME NEW r \in Requests, SelectFails(r) PROVE RedirectInv'
    BY <1>4, <1>8 DEF SelectFails
  <1>9. ASSUME NEW r \in Requests, RedirectFromRow(r) PROVE RedirectInv'
    <2>1. rcode[r] \in rows /\ rcode[r] \in created /\ rcode[r] \notin began[r].expired
      BY <1>1, <1>9 DEF RedirectFromRow, RequestInv, LinkTypeOK
    <2> QED
      BY <1>4, <1>9, <2>1 DEF RedirectFromRow
  <1>10. ASSUME NEW c \in Codes, Outside(c) PROVE RedirectInv'
    <2>1. /\ UNCHANGED <<rpc, rcode, bypassed, began>>
          /\ created \subseteq created' /\ rows \subseteq rows' /\ expiring \subseteq expiring'
          /\ expired \subseteq expired'
      BY <1>10 DEF Outside, LinkQueued, RowSynced, HashVanishes, LinkExpires
    <2>2. LinkTypeOK' /\ created' \subseteq hashes' \union rows' \union expiring'
      BY <1>1, <1>10 DEF Outside, LinkQueued, RowSynced, HashVanishes, LinkExpires, LinkTypeOK
    <2>3. \A r \in Requests : RequestInv(r)'
      BY <1>1, <2>1 DEF RequestInv
    <2>4. RedirectInv' <=> /\ LinkTypeOK'
                           /\ created' \subseteq hashes' \union rows' \union expiring'
                           /\ \A q \in Requests : RequestInv(q)'
      BY DEF RedirectInv, LookupInv, RedirectsRight, LinksFound, ExpiredNotServed, RequestInv
    <2> QED
      BY <2>2, <2>3, <2>4
  <1>11. CASE FlushTimer \/ TakeStripe \/ SendBatch \/ TermSignal \/ Quit
    BY <1>2, <1>11 DEF FlushTimer, TakeStripe, SendBatch, TermSignal, Quit
  <1>12. ASSUME NEW f \in Flights, UpdateRuns(f) \/ UpdateReturns(f) \/ UpdateFails(f) PROVE RedirectInv'
    BY <1>2, <1>12 DEF UpdateRuns, UpdateReturns, UpdateFails
  <1>13. CASE UNCHANGED vars
    BY <1>2, <1>13 DEF vars
  <1> QED
    BY <1>3, <1>5, <1>6, <1>7, <1>8, <1>9, <1>10, <1>11, <1>12, <1>13
    DEF Next, Redirect, FlushStep, Update, Fault

\* The invariant of the redirects holds in every reachable state.
LEMMA RedirectCorrect == Spec => []RedirectInv
<1>1. Init => RedirectInv
  BY DEF Init, RedirectInv, LinkTypeOK, LookupInv, RedirectsRight, LinksFound, ExpiredNotServed
<1>2. RedirectInv /\ [Next]_vars => RedirectInv'
  BY RedirectStep
<1> QED
  BY <1>1, <1>2, PTL DEF Spec

\* A link without an expiry that existed when a request came is found unless
\* Redis failed the request, and a link past its expiry is not served:
\* RedirectsRight holds however links are queued, synced, cached and expire.
THEOREM RedirectsCorrect == Spec => []RedirectsRight
<1>1. RedirectInv => RedirectsRight
  BY DEF RedirectInv
<1> QED
  BY <1>1, RedirectCorrect, PTL

-----------------------------------------------------------------------------
(***************************************************************************)
(* Clicks                                                                  *)
(***************************************************************************)
\* The types of the aggregator, the drain, the statements and the totals.
CountTypeOK ==
    /\ {counts, drained, recorded, counted, unmatched, doubled} \subseteq Counts
    /\ next \in 1..(Stripes + 1) \union {None}
    /\ flights \in [Flights -> Flight \union {None}]
    /\ stage \in {"running", "stopping", "quit"}
    /\ faults \in 0..MaxFaults

\* The clicks of a code that a statement under way still has to count, and
\* those it has run without finding a row.
Waits(f, c) == IF flights[f] # None /\ flights[f].matched = None THEN flights[f].batch[c] ELSE 0

Missed(f, c) ==
    IF flights[f] # None /\ flights[f].matched # None /\ c \notin flights[f].matched
    THEN flights[f].batch[c] ELSE 0

Waiting(c) == SumFunctionOnSet([f \in Flights |-> Waits(f, c)], Flights)

Missing(c) == SumFunctionOnSet([f \in Flights |-> Missed(f, c)], Flights)

\* A failed statement can take back what it had missed.
MissedInv == \A c \in Codes : Missing(c) <= unmatched[c]

CountInv == CountTypeOK /\ ClicksAccounted /\ MissedInv

\* The account of one code.
Account(c) ==
    /\ recorded[c] + doubled[c] = counts[c] + drained[c] + Waiting(c) + counted[c] + unmatched[c]
    /\ Missing(c) <= unmatched[c]

\* What is in flight is what the statements wait to count.
LEMMA InFlightSum ==
    ASSUME NEW c \in Codes
    PROVE  InFlight[c] = Waiting(c)
  <1> DEFINE F == [f \in Flights |->
                IF flights[f] # None /\ flights[f].matched = None THEN flights[f].batch[c] ELSE 0]
  <1>1. InFlight[c] = SumFunction(F)
    BY DEF InFlight
  <1>2. F = [f \in Flights |-> Waits(f, c)]
    BY DEF Waits
  <1>3. DOMAIN F = Flights
    OBVIOUS
  <1>4. SumFunction(F) = SumFunctionOnSet(F, Flights)
    <2> HIDE DEF F
    <2> QED
      BY <1>3, Zenon DEF SumFunction
  <1> QED
    BY <1>1, <1>2, <1>4, Zenon DEF Waiting

\* The invariant, code by code.
LEMMA CountParts == CountInv <=> CountTypeOK /\ \A c \in Codes : Account(c)
  <1>1. \A c \in Codes : InFlight[c] = Waiting(c)
    BY InFlightSum
  <1> QED
    BY <1>1 DEF CountInv, ClicksAccounted, MissedInv, Account

\* What a statement holds is a number of clicks.
LEMMA FlightTypes ==
    ASSUME CountTypeOK, NEW f \in Flights, NEW c \in Codes
    PROVE  Waits(f, c) \in Nat /\ Missed(f, c) \in Nat
  BY DEF CountTypeOK, Flight, Counts, Waits, Missed

\* The numbers in a code's account.
LEMMA CountTypes ==
    ASSUME CountTypeOK, NEW c \in Codes
    PROVE  /\ counts[c] \in Nat /\ drained[c] \in Nat /\ recorded[c] \in Nat
           /\ counted[c] \in Nat /\ unmatched[c] \in Nat /\ doubled[c] \in Nat
           /\ Waiting(c) \in Nat /\ Missing(c) \in Nat
  <1>1. \A f \in Flights : [g \in Flights |-> Waits(g, c)][f] \in Nat
    BY FlightTypes
  <1>2. \A f \in Flights : [g \in Flights |-> Missed(g, c)][f] \in Nat
    BY FlightTypes
  <1>3. Waiting(c) \in Nat /\ Missing(c) \in Nat
    BY <1>1, <1>2, CppAssumption, SumNat DEF Waiting, Missing
  <1> QED
    BY <1>3 DEF CountTypeOK, Counts

\* A change of one statement changes the sums by that statement's clicks.
LEMMA FlightChange ==
    ASSUME CountTypeOK, CountTypeOK', NEW f \in Flights, NEW c \in Codes,
           \A g \in Flights \ {f} : flights'[g] = flights[g]
    PROVE  /\ Waiting(c)' = Waiting(c) - Waits(f, c) + Waits(f, c)'
           /\ Missing(c)' = Missing(c) - Missed(f, c) + Missed(f, c)'
           /\ Waits(f, c) \in Nat /\ Missed(f, c) \in Nat
  <1> DEFINE a == [g \in Flights |-> Waits(g, c)]
             b == [g \in Flights |-> Waits(g, c)']
             d == [g \in Flights |-> Missed(g, c)]
             e == [g \in Flights |-> Missed(g, c)']
  <1>1. \A g \in Flights : /\ Waits(g, c) \in Nat /\ Missed(g, c) \in Nat
                           /\ Waits(g, c)' \in Nat /\ Missed(g, c)' \in Nat
    <2>1. \A g \in Flights : Waits(g, c)' \in Nat /\ Missed(g, c)' \in Nat
      BY DEF CountTypeOK, Flight, Counts, Waits, Missed
    <2> QED
      BY <2>1, FlightTypes
  <1>2. \A g \in Flights : a[g] \in Int /\ b[g] \in Int /\ d[g] \in Int /\ e[g] \in Int
    BY <1>1
  <1>3. \A g \in Flights \ {f} : a[g] = b[g] /\ d[g] = e[g]
    BY DEF Waits, Missed
  <1>4. /\ Waiting(c) = SumFunctionOnSet(a, Flights) /\ Waiting(c)' = SumFunctionOnSet(b, Flights)
        /\ Missing(c) = SumFunctionOnSet(d, Flights) /\ Missing(c)' = SumFunctionOnSet(e, Flights)
    BY DEF Waiting, Missing
  <1>5. a[f] = Waits(f, c) /\ b[f] = Waits(f, c)' /\ d[f] = Missed(f, c) /\ e[f] = Missed(f, c)'
    OBVIOUS
  <1> HIDE DEF a, b, d, e
  <1>6. SumFunctionOnSet(b, Flights) = SumFunctionOnSet(a, Flights) - a[f] + b[f]
    BY <1>2, <1>3, CppAssumption, SumUpdate
  <1>7. SumFunctionOnSet(e, Flights) = SumFunctionOnSet(d, Flights) - d[f] + e[f]
    BY <1>2, <1>3, CppAssumption, SumUpdate
  <1> QED
    BY <1>1, <1>4, <1>5, <1>6, <1>7

\* The sums stay when no statement changes.
LEMMA FlightsFrame ==
    ASSUME UNCHANGED flights, NEW c \in Codes
    PROVE  Waiting(c)' = Waiting(c) /\ Missing(c)' = Missing(c)
  BY DEF Waiting, Missing, Waits, Missed

\* The invariant after a step, code by code.
LEMMA CountPartsNext ==
    ASSUME CountTypeOK', \A c \in Codes : Account(c)'
    PROVE  CountInv'
  <1>1. (CountTypeOK /\ \A c \in Codes : Account(c))' => CountInv'
    BY CountParts, PTL
  <1> QED
    BY <1>1

\* A click is recorded in the aggregator.
LEMMA ClickCounted ==
    ASSUME CountInv, NEW d \in Codes, RecordClick(d),
           UNCHANGED <<flushVars, stage, counted, unmatched, doubled, faults>>
    PROVE  CountInv'
  <1> USE DEF flushVars
  <1>1. CountTypeOK
    BY DEF CountInv
  <1>2. CountTypeOK'
    BY <1>1 DEF RecordClick, CountTypeOK, Counts
  <1>3. ASSUME NEW c \in Codes PROVE Account(c)'
    <2>1. Account(c)
      BY CountParts
    <2>2. /\ counts'[c] = (IF c = d THEN counts[c] + 1 ELSE counts[c])
          /\ recorded'[c] = (IF c = d THEN recorded[c] + 1 ELSE recorded[c])
      BY <1>1 DEF RecordClick, CountTypeOK, Counts
    <2>3. Waiting(c)' = Waiting(c) /\ Missing(c)' = Missing(c)
      BY FlightsFrame
    <2>4. UNCHANGED <<drained, counted, unmatched, doubled>>
      OBVIOUS
    <2>5. /\ counts[c] \in Nat /\ drained[c] \in Nat /\ recorded[c] \in Nat
          /\ counted[c] \in Nat /\ unmatched[c] \in Nat /\ doubled[c] \in Nat
          /\ Waiting(c) \in Nat /\ Missing(c) \in Nat
      BY <1>1, CountTypes
    <2>6. CASE c = d
      BY <2>1, <2>2, <2>3, <2>4, <2>5, <2>6 DEF Account
    <2>7. CASE c # d
      BY <2>1, <2>2, <2>3, <2>4, <2>7 DEF Account
    <2> QED
      BY <2>6, <2>7
  <1> QED
    BY <1>2, <1>3, CountPartsNext

\* The drain moves a stripe.
LEMMA StripeCounted ==
    ASSUME CountInv, TakeStripe
    PROVE  CountInv'
  <1> USE DEF flushVars, totals
  <1>1. CountTypeOK
    BY DEF CountInv
  <1>2. \A c \in Codes : /\ drained'[c] = IF StripeOf[c] = next THEN drained[c] + counts[c] ELSE drained[c] + 0
                         /\ counts'[c] = IF StripeOf[c] = next THEN 0 ELSE counts[c]
    BY DEF TakeStripe, Plus, Part, InStripe
  <1>3. \A c \in Codes : counts[c] \in Nat /\ drained[c] \in Nat
    BY <1>1, CountTypes
  <1>4. drained' \in Counts /\ counts' \in Counts
    <2>1. drained' \in [Codes -> Nat]
      BY <1>2, <1>3 DEF TakeStripe, Plus
    <2>2. counts' \in [Codes -> Nat]
      BY <1>2, <1>3 DEF TakeStripe, Part
    <2> QED
      BY <2>1, <2>2 DEF Counts
  <1>5. next' \in 1..(Stripes + 1)
    BY CppAssumption DEF TakeStripe
  <1>6. CountTypeOK'
    BY <1>1, <1>4, <1>5 DEF CountTypeOK, TakeStripe
  <1>7. ASSUME NEW c \in Codes PROVE Account(c)'
    <2>1. Account(c)
      BY CountParts
    <2>2. UNCHANGED <<flights, recorded, counted, unmatched, doubled>>
      BY DEF TakeStripe
    <2>3. drained'[c] + counts'[c] = drained[c] + counts[c] /\ drained'[c] \in Nat /\ counts'[c] \in Nat
      BY <1>2, <1>3
    <2> QED
      BY <1>1, <2>1, <2>2, <2>3, FlightsFrame, CountTypes DEF Account
  <1> QED
    BY <1>6, <1>7, CountPartsNext

\* The batch leaves in a statement.
LEMMA BatchCounted ==
    ASSUME CountInv, SendBatch
    PROVE  CountInv'
  <1> USE DEF totals
  <1>1. CountTypeOK
    BY DEF CountInv
  <1>2. /\ drained' = Zero /\ next' = None
        /\ UNCHANGED <<counts, recorded, counted, unmatched, doubled, stage, faults>>
    BY DEF SendBatch
  <1>3. Zero \in Counts /\ \A c \in Codes : Zero[c] = 0
    BY DEF Zero, Counts
  <1>4. CASE drained = Zero /\ UNCHANGED flights
    <2>1. CountTypeOK'
      BY <1>1, <1>2, <1>3, <1>4 DEF CountTypeOK
    <2>2. ASSUME NEW c \in Codes PROVE Account(c)'
      <3>1. Account(c)
        BY CountParts
      <3> QED
        BY <1>2, <1>4, <3>1, FlightsFrame DEF Account
    <2> QED
      BY <2>1, <2>2, CountPartsNext
  <1>5. ASSUME NEW f \in Flights, flights[f] = None,
               flights' = [flights EXCEPT ![f] = [batch |-> drained, matched |-> None]]
        PROVE  CountInv'
    <2>1. [batch |-> drained, matched |-> None] \in Flight
      BY <1>1 DEF CountTypeOK, Flight
    <2>2. CountTypeOK'
      BY <1>1, <1>2, <1>3, <1>5, <2>1 DEF CountTypeOK
    <2>3. ASSUME NEW c \in Codes PROVE Account(c)'
      <3>1. Account(c)
        BY CountParts
      <3>2. flights'[f] = [batch |-> drained, matched |-> None]
            /\ \A g \in Flights \ {f} : flights'[g] = flights[g]
        BY <1>1, <1>5 DEF CountTypeOK
      <3>3. Waits(f, c) = 0 /\ Missed(f, c) = 0
        BY <1>5 DEF Waits, Missed
      <3>4. Waits(f, c)' = drained[c] /\ Missed(f, c)' = 0
        <4>1. flights'[f] # None
          BY <2>1, <3>2, CppNoneAssumption
        <4> QED
          BY <3>2, <4>1 DEF Waits, Missed
      <3>5. Waiting(c)' = Waiting(c) + drained[c] /\ Missing(c)' = Missing(c)
        <4>1. /\ Waiting(c)' = Waiting(c) - Waits(f, c) + Waits(f, c)'
              /\ Missing(c)' = Missing(c) - Missed(f, c) + Missed(f, c)'
          BY <1>1, <2>2, <3>2, FlightChange
        <4> QED
          BY <1>1, <3>3, <3>4, <4>1, CountTypes
      <3>6. drained'[c] = 0
        BY <1>2, <1>3
      <3> QED
        BY <1>1, <1>2, <3>1, <3>5, <3>6, CountTypes DEF Account
    <2> QED
      BY <2>2, <2>3, CountPartsNext
  <1> QED
    BY <1>4, <1>5 DEF SendBatch

\* PostgreSQL runs a statement.
LEMMA RunCounted ==
    ASSUME CountInv, rows \subseteq Codes, NEW f \in Flights, UpdateRuns(f)
    PROVE  CountInv'
  <1>1. CountTypeOK
    BY DEF CountInv
  <1>2. /\ flights[f] # None /\ flights[f].matched = None
        /\ flights' = [flights EXCEPT ![f].matched = rows]
        /\ UNCHANGED <<counts, drained, next, stage, recorded, doubled, faults>>
    BY DEF UpdateRuns
  <1>3. flights[f] \in Flight /\ flights[f].batch \in Counts
    BY <1>1, <1>2 DEF CountTypeOK, Flight
  <1>4. /\ flights'[f] = [flights[f] EXCEPT !.matched = rows]
        /\ \A g \in Flights \ {f} : flights'[g] = flights[g]
    BY <1>1, <1>2 DEF CountTypeOK
  <1>5. /\ flights'[f] \in Flight /\ flights'[f].matched = rows /\ flights'[f].batch = flights[f].batch
    BY <1>3, <1>4 DEF Flight
  <1>6. flights'[f] # None /\ flights'[f].matched # None
    BY <1>5, CppNoneAssumption
  <1>7. \A c \in Codes :
           /\ counted'[c] = IF c \in rows THEN counted[c] + flights[f].batch[c] ELSE counted[c] + 0
           /\ unmatched'[c] = IF c \in rows THEN unmatched[c] + 0 ELSE unmatched[c] + flights[f].batch[c]
           /\ flights[f].batch[c] \in Nat
    BY <1>3 DEF UpdateRuns, Plus, Part, Counts
  <1>8. CountTypeOK'
    <2>0. \A c \in Codes : counted'[c] \in Nat /\ unmatched'[c] \in Nat
      BY <1>1, <1>7, CountTypes
    <2>1. counted' \in [Codes -> Nat]
      BY <2>0 DEF UpdateRuns, Plus
    <2>2. unmatched' \in [Codes -> Nat]
      BY <2>0 DEF UpdateRuns, Plus
    <2>3. flights' \in [Flights -> Flight \union {None}]
      BY <1>1, <1>2, <1>4, <1>5 DEF CountTypeOK
    <2> QED
      BY <1>1, <1>2, <2>1, <2>2, <2>3 DEF CountTypeOK, Counts
  <1>9. ASSUME NEW c \in Codes PROVE Account(c)'
    <2>1. Account(c)
      BY CountParts
    <2>2. Waits(f, c) = flights[f].batch[c] /\ Missed(f, c) = 0 /\ Waits(f, c)' = 0
      BY <1>2, <1>6 DEF Waits, Missed
    <2>3. Missed(f, c)' = IF c \in rows THEN 0 ELSE flights[f].batch[c]
      BY <1>5, <1>6 DEF Missed
    <2>4. /\ Waiting(c)' = Waiting(c) - Waits(f, c) + Waits(f, c)'
          /\ Missing(c)' = Missing(c) - Missed(f, c) + Missed(f, c)'
      BY <1>1, <1>4, <1>8, FlightChange
    <2>5. UNCHANGED <<counts, drained, recorded, doubled>>
      BY <1>2
    <2> QED
      BY <1>1, <1>7, <2>1, <2>2, <2>3, <2>4, <2>5, CountTypes DEF Account
  <1> QED
    BY <1>8, <1>9, CountPartsNext

\* A statement is answered, or fails: what it had missed may be taken back.
LEMMA EndCounted ==
    ASSUME CountInv, NEW f \in Flights, faults' \in 0..MaxFaults,
           (UpdateReturns(f) /\ UNCHANGED faults) \/ UpdateFails(f)
    PROVE  CountInv'
  <1> USE DEF totals
  <1>1. CountTypeOK
    BY DEF CountInv
  <1>2. /\ flights[f] # None /\ flights' = [flights EXCEPT ![f] = None]
        /\ UNCHANGED <<drained, next, stage, recorded, counted>>
    BY DEF UpdateReturns, UpdateFails
  <1>3. /\ flights'[f] = None /\ \A g \in Flights \ {f} : flights'[g] = flights[g]
        /\ flights' \in [Flights -> Flight \union {None}]
        /\ flights[f] \in Flight
    BY <1>1, <1>2 DEF CountTypeOK
  <1>4. \A c \in Codes : flights[f].batch[c] \in Nat
    BY <1>3 DEF Flight, Counts
  <1>5. \A c \in Codes : Waits(f, c)' = 0 /\ Missed(f, c)' = 0
    BY <1>3 DEF Waits, Missed
  <1>6. ASSUME CountTypeOK', NEW c \in Codes
        PROVE  /\ Account(c)
               /\ Waiting(c)' = Waiting(c) - Waits(f, c) /\ Missing(c)' = Missing(c) - Missed(f, c)
               /\ Waiting(c)' \in Nat /\ Missing(c)' \in Nat
    <2>1. /\ Waiting(c)' = Waiting(c) - Waits(f, c) + Waits(f, c)'
          /\ Missing(c)' = Missing(c) - Missed(f, c) + Missed(f, c)'
          /\ Waits(f, c) \in Nat /\ Missed(f, c) \in Nat
      BY <1>1, <1>3, <1>6, FlightChange
    <2>2. Waiting(c)' \in Nat /\ Missing(c)' \in Nat
      <3>1. CountTypeOK' => (Waiting(c) \in Nat /\ Missing(c) \in Nat)'
        BY CountTypes, PTL
      <3> QED
        BY <1>6, <3>1
    <2> QED
      BY <1>1, <1>5, <2>1, <2>2, CountParts, CountTypes
  <1>7. CASE UpdateReturns(f) /\ UNCHANGED faults
    <2>1. CountTypeOK'
      BY <1>1, <1>3, <1>7 DEF CountTypeOK, UpdateReturns
    <2>2. ASSUME NEW c \in Codes PROVE Account(c)'
      <3>1. Waits(f, c) = 0 /\ Missed(f, c) \in Nat
        BY <1>1, <1>7, FlightTypes DEF UpdateReturns, Waits
      <3>2. UNCHANGED <<counts, drained, recorded, counted, unmatched, doubled>>
        BY <1>7 DEF UpdateReturns
      <3> QED
        BY <1>1, <1>6, <2>1, <3>1, <3>2, CountTypes DEF Account
    <2> QED
      BY <2>1, <2>2, CountPartsNext
  <1>8. CASE UpdateFails(f)
    <2>1. \A c \in Codes : counts'[c] = counts[c] + flights[f].batch[c]
      BY <1>8 DEF UpdateFails, Plus
    <2>2. counts' \in Counts
      <3>1. \A c \in Codes : counts'[c] \in Nat
        BY <1>1, <1>4, <2>1, CountTypes
      <3> QED
        BY <1>8, <3>1 DEF UpdateFails, Plus, Counts
    <2>3. CASE flights[f].matched = None
      <3>1. UNCHANGED <<doubled, unmatched>>
        BY <1>8, <2>3 DEF UpdateFails
      <3>2. CountTypeOK'
        BY <1>1, <1>2, <1>3, <2>2, <3>1 DEF CountTypeOK
      <3>3. ASSUME NEW c \in Codes PROVE Account(c)'
        <4>1. Waits(f, c) = flights[f].batch[c] /\ Missed(f, c) = 0
          BY <1>2, <2>3 DEF Waits, Missed
        <4> QED
          BY <1>1, <1>2, <1>4, <1>6, <2>1, <3>1, <3>2, <4>1, CountTypes DEF Account
      <3> QED
        BY <3>2, <3>3, CountPartsNext
    <2>4. CASE flights[f].matched # None
      <3> DEFINE batch == flights[f].batch
                 matched == flights[f].matched
      <3>1. /\ doubled' = Plus(doubled, Part(batch, matched))
            /\ unmatched' = [c \in Codes |-> unmatched[c] - Part(batch, Codes \ matched)[c]]
        BY <1>8, <2>4 DEF UpdateFails
      <3>2. \A c \in Codes :
               /\ doubled'[c] = IF c \in matched THEN doubled[c] + batch[c] ELSE doubled[c] + 0
               /\ unmatched'[c] = IF c \in matched THEN unmatched[c] - 0 ELSE unmatched[c] - batch[c]
        BY <3>1 DEF Plus, Part
      <3>3. \A c \in Codes : /\ Waits(f, c) = 0
                             /\ Missed(f, c) = IF c \in matched THEN 0 ELSE batch[c]
        BY <1>2, <2>4 DEF Waits, Missed
      <3>4. \A c \in Codes : Missed(f, c) <= Missing(c) /\ Missing(c) <= unmatched[c]
        <4> SUFFICES ASSUME NEW c \in Codes PROVE Missed(f, c) <= Missing(c)
          BY CountParts DEF Account
        <4> DEFINE a == [g \in Flights |-> Missed(g, c)]
        <4>1. \A g \in Flights : a[g] \in Nat
          BY <1>1, FlightTypes
        <4>2. a[f] = Missed(f, c) /\ Missing(c) = SumFunctionOnSet(a, Flights)
          BY DEF Missing
        <4> HIDE DEF a
        <4>3. SumFunctionOnSet(a, Flights) = a[f] + SumFunctionOnSet(a, Flights \ {f})
          BY <4>1, CppAssumption, SumRemove
        <4>4. SumFunctionOnSet(a, Flights \ {f}) \in Nat
          <5>1. IsFiniteSet(Flights \ {f})
            BY CppAssumption, FS_RemoveElement
          <5> QED
            BY <4>1, <5>1, SumNat
        <4> QED
          BY <4>1, <4>2, <4>3, <4>4
      <3> HIDE DEF batch, matched
      <3>5. \A c \in Codes : batch[c] \in Nat
        BY <1>4 DEF batch
      <3>6. \A c \in Codes : doubled'[c] \in Nat /\ unmatched'[c] \in Nat
        BY <1>1, <3>2, <3>3, <3>4, <3>5, CountTypes
      <3>7. doubled' \in Counts /\ unmatched' \in Counts
        BY <3>1, <3>6 DEF Plus, Counts
      <3>8. CountTypeOK'
        BY <1>1, <1>2, <1>3, <2>2, <3>7 DEF CountTypeOK
      <3>9. ASSUME NEW c \in Codes PROVE Account(c)'
        <4>1. counts'[c] = counts[c] + batch[c]
          BY <2>1 DEF batch
        <4>2. UNCHANGED <<drained, recorded, counted>>
          BY <1>2
        <4>3. /\ Account(c)
              /\ Waiting(c)' = Waiting(c) - Waits(f, c) /\ Missing(c)' = Missing(c) - Missed(f, c)
              /\ Waiting(c)' \in Nat /\ Missing(c)' \in Nat
          BY <1>6, <3>8
        <4> QED
          BY <1>1, <3>2, <3>3, <3>4, <3>5, <4>1, <4>2, <4>3, CountTypes DEF Account
      <3> QED
        BY <3>8, <3>9, CountPartsNext
    <2> QED
      BY <2>3, <2>4
  <1> QED
    BY <1>7, <1>8

\* Every step keeps the clicks in balance.
LEMMA CountStep ==
    ASSUME RedirectInv, CountInv, [Next]_vars
    PROVE  CountInv'
  <1> USE DEF flushVars, totals
  <1>1. /\ CountTypeOK /\ rows \subseteq Codes
        /\ \A r \in Requests : rpc[r] # "new" => rcode[r] \in Codes
    BY DEF CountInv, RedirectInv, LinkTypeOK, LookupInv
  <1>2. ASSUME UNCHANGED <<counts, drained, flights, totals>>, next' \in 1..(Stripes + 1) \union {None},
               stage' \in {"running", "stopping", "quit"}, faults' \in 0..MaxFaults
        PROVE  CountInv'
    <2>1. CountTypeOK'
      BY <1>1, <1>2 DEF CountTypeOK
    <2>2. ASSUME NEW c \in Codes PROVE Account(c)'
      <3>1. Account(c)
        BY CountParts
      <3> QED
        BY <1>2, <3>1, FlightsFrame DEF Account
    <2> QED
      BY <2>1, <2>2, CountPartsNext
  <1>3. /\ next \in 1..(Stripes + 1) \union {None} /\ 1 \in 1..(Stripes + 1)
        /\ stage \in {"running", "stopping", "quit"} /\ faults \in 0..MaxFaults
    BY <1>1, CppAssumption DEF CountTypeOK
  <1>4. ASSUME NEW r \in Requests, RedisAnswers(r) PROVE CountInv'
    <2>1. CASE RecordClick(rcode[r])
      BY <1>1, <1>4, <2>1, ClickCounted DEF RedisAnswers
    <2>2. CASE UNCHANGED <<counts, recorded>>
      BY <1>2, <1>3, <1>4, <2>2 DEF RedisAnswers
    <2> QED
      BY <1>4, <2>1, <2>2 DEF RedisAnswers
  <1>5. ASSUME NEW r \in Requests, RedirectFromRow(r) PROVE CountInv'
    BY <1>1, <1>5, ClickCounted DEF RedirectFromRow
  <1>6. ASSUME NEW r \in Requests, SelectRow(r) PROVE CountInv'
    BY <1>2, <1>3, <1>6 DEF SelectRow
  <1>7. ASSUME NEW r \in Requests, NEW c \in Codes, HandleRedirect(r, c) PROVE CountInv'
    BY <1>2, <1>3, <1>7 DEF HandleRedirect
  <1>8. CASE FlushTimer \/ TermSignal \/ Quit
    BY <1>2, <1>3, <1>8 DEF FlushTimer, TermSignal, Quit
  <1>9. ASSUME NEW f \in Flights, UpdateReturns(f) PROVE CountInv'
    <2>1. UNCHANGED faults
      BY <1>9 DEF UpdateReturns
    <2> QED
      BY <1>3, <1>9, <2>1, EndCounted
  <1>10. ASSUME NEW c \in Codes, Outside(c) PROVE CountInv'
    BY <1>2, <1>3, <1>10 DEF Outside
  <1>11. CASE Fault
    <2>1. faults' \in 0..MaxFaults
      BY <1>3, <1>11, CppAssumption DEF Fault
    <2>2. ASSUME NEW r \in Requests, RedisFails(r) \/ SelectFails(r) PROVE CountInv'
      BY <1>2, <1>3, <2>1, <2>2 DEF RedisFails, SelectFails
    <2>3. ASSUME NEW f \in Flights, UpdateFails(f) PROVE CountInv'
      BY <2>1, <2>3, EndCounted
    <2> QED
      BY <1>11, <2>2, <2>3 DEF Fault
  <1>12. CASE UNCHANGED vars
    BY <1>2, <1>3, <1>12 DEF vars
  <1>13. CASE TakeStripe \/ SendBatch
    BY <1>13, StripeCounted, BatchCounted
  <1>14. ASSUME NEW f \in Flights, UpdateRuns(f) PROVE CountInv'
    BY <1>1, <1>14, RunCounted
  <1> QED
    BY <1>4, <1>5, <1>6, <1>7, <1>8, <1>9, <1>10, <1>11, <1>12, <1>13, <1>14
    DEF Next, Redirect, FlushStep, Update

\* Every click is in the aggregator, drained, on its way, in its row or was
\* flushed before its link had one, and only a lost answer counts twice:
\* ClicksBalanced, with the types of the whole state, for any number of event
\* loops, stripes and overlapping statements.
THEOREM ClicksCorrect == Spec => []ClicksBalanced
<1>1. Init => CountInv
  <2> SUFFICES ASSUME Init PROVE CountInv
    OBVIOUS
  <2>1. \A c \in Codes : /\ counts[c] = 0 /\ drained[c] = 0 /\ recorded[c] = 0 /\ counted[c] = 0
                         /\ unmatched[c] = 0 /\ doubled[c] = 0
    BY DEF Init, Zero
  <2>2. CountTypeOK
    BY CppAssumption DEF Init, CountTypeOK, Counts, Zero
  <2>3. ASSUME NEW c \in Codes PROVE Account(c)
    <3>1. \A f \in Flights : [g \in Flights |-> Waits(g, c)][f] = 0 /\ [g \in Flights |-> Missed(g, c)][f] = 0
      BY DEF Init, Waits, Missed
    <3>2. Waiting(c) = 0 /\ Missing(c) = 0
      BY <3>1, CppAssumption, SumZero DEF Waiting, Missing
    <3> QED
      BY <2>1, <3>2 DEF Account
  <2> QED
    BY <2>2, <2>3, CountParts
<1>2. RedirectInv /\ CountInv /\ [Next]_vars => CountInv'
  BY CountStep
<1>3. RedirectInv /\ CountInv => ClicksBalanced
  BY DEF RedirectInv, LinkTypeOK, CountInv, CountTypeOK, ClicksBalanced, TypeOK
<1> QED
  BY <1>1, <1>2, <1>3, RedirectCorrect, PTL DEF Spec
=============================================================================
