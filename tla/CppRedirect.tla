----------------------------- MODULE CppRedirect -----------------------------
(***************************************************************************)
(* The C++ redirect service (cpp-redirect/src/main.cc, core.hpp): redirects *)
(* from Redis or PostgreSQL on several event loops, clicks added up in a   *)
(* striped aggregator, and a flush on the main loop that sends its batch   *)
(* and does not wait for the answer.                                       *)
(*                                                                         *)
(* Links are created and synced by the Node.js service.  The service fills *)
(* link hashes as CachedLinkStore does (module RedisShard, CacheHash); all *)
(* that counts here is whether a code has one.                             *)
(***************************************************************************)
EXTENDS Integers, FiniteSets, Functions

CONSTANTS
    Codes,      \* valid codes, those that pass isValidCode
    Requests,   \* GET /{code} requests
    Stripes,    \* kStripes, the number of stripes
    StripeOf,   \* the stripe of a code
    Flights,    \* UPDATE statements that may be under way at once
    MaxFaults,  \* failed Redis commands and statements
    None

ASSUME CppAssumption ==
    /\ Stripes \in Nat \ {0}
    /\ StripeOf \in [Codes -> 1..Stripes]
    /\ IsFiniteSet(Flights)
    /\ MaxFaults \in Nat

VARIABLES
    created, rows, hashes,   \* codes with a link, with a row, with a link hash
    expiring, expired,       \* codes of links that have an expiry, of those past it
    rpc, rcode,  \* where each request stands, and its code
    bypassed,    \* requests whose Redis command failed
    began,       \* history: for each request, the links when it began: those that
                 \* existed and those past their expiry
    counts,      \* the aggregator
    drained,     \* what the drain under way has taken
    next,        \* the stripe it takes next, or None
    flights,     \* batches sent to PostgreSQL, with the codes that matched a row
    stage,       \* running, stopping after a signal, quit
    recorded, counted, unmatched, doubled,   \* history: clicks of each code
    faults

linkVars == <<created, rows, hashes, expiring, expired>>
requestVars == <<rpc, rcode, bypassed, began>>
flushVars == <<drained, next, flights>>
totals == <<recorded, counted, unmatched, doubled>>
vars == <<linkVars, requestVars, counts, flushVars, stage, totals, faults>>

Counts == [Codes -> Nat]

\* A batch sent, and the codes that matched a row once it has run.
Flight == [batch : Counts, matched : (SUBSET Codes) \union {None}]

ASSUME CppNoneAssumption == None \notin Flight /\ \A S \in SUBSET Codes : None # S

Zero == [c \in Codes |-> 0]

Plus(a, b) == [c \in Codes |-> a[c] + b[c]]

Part(a, S) == [c \in Codes |-> IF c \in S THEN a[c] ELSE 0]

TypeOK ==
    /\ rows \subseteq created /\ hashes \subseteq created
    /\ created \subseteq Codes /\ expired \subseteq expiring /\ expiring \subseteq created
    /\ rpc \in [Requests -> {"new", "redis", "select", "found", "302", "404", "503"}]
    /\ rcode \in [Requests -> Codes \union {None}]
    /\ bypassed \subseteq Requests
    /\ began \in [Requests -> [links : SUBSET Codes, expired : SUBSET Codes]]
    /\ {counts, drained, recorded, counted, unmatched, doubled} \subseteq Counts
    /\ next \in 1..(Stripes + 1) \union {None}
    /\ flights \in [Flights -> Flight \union {None}]
    /\ stage \in {"running", "stopping", "quit"}
    /\ faults \in 0..MaxFaults

Init ==
    /\ created = {} /\ rows = {} /\ hashes = {} /\ expiring = {} /\ expired = {}
    /\ rpc = [r \in Requests |-> "new"]
    /\ rcode = [r \in Requests |-> None]
    /\ bypassed = {}
    /\ began = [r \in Requests |-> [links |-> {}, expired |-> {}]]
    /\ counts = Zero /\ drained = Zero
    /\ next = None
    /\ flights = [f \in Flights |-> None]
    /\ stage = "running"
    /\ recorded = Zero /\ counted = Zero /\ unmatched = Zero /\ doubled = Zero
    /\ faults = 0

-----------------------------------------------------------------------------
(***************************************************************************)
(* Redirects                                                               *)
(***************************************************************************)
Goto(r, where) == rpc' = [rpc EXCEPT ![r] = where]

\* recordClick; the cached click counter is for display.
RecordClick(c) ==
    /\ counts' = [counts EXCEPT ![c] = @ + 1]
    /\ recorded' = [recorded EXCEPT ![c] = @ + 1]

\* handleRedirect sends the HMGET.
\* (Deliberate fault: it asks PostgreSQL only.)
HandleRedirectUncached(r, c) ==
    /\ rpc[r] = "new" /\ stage # "quit"
    /\ Goto(r, "select")
    /\ rcode' = [rcode EXCEPT ![r] = c]
    /\ began' = [began EXCEPT ![r] = [links |-> created, expired |-> expired]]
    /\ UNCHANGED <<linkVars, bypassed, counts, flushVars, stage, totals, faults>>

HandleRedirect(r, c) ==
    /\ rpc[r] = "new" /\ stage # "quit"
    /\ Goto(r, "redis")
    /\ rcode' = [rcode EXCEPT ![r] = c]
    /\ began' = [began EXCEPT ![r] = [links |-> created, expired |-> expired]]
    /\ UNCHANGED <<linkVars, bypassed, counts, flushVars, stage, totals, faults>>

\* A hash whose expiry has not passed is served, anything else looked up.
\* (Deliberate fault: the expiry is not looked at.)
RedisAnswersUnread(r) ==
    /\ rpc[r] = "redis"
    /\ IF rcode[r] \in hashes
       THEN Goto(r, "302") /\ RecordClick(rcode[r])
       ELSE Goto(r, "select") /\ UNCHANGED <<counts, recorded>>
    /\ UNCHANGED <<linkVars, rcode, bypassed, began, flushVars, stage, counted, unmatched, doubled,
                   faults>>

RedisAnswers(r) ==
    /\ rpc[r] = "redis"
    /\ IF rcode[r] \in hashes \ expired
       THEN Goto(r, "302") /\ RecordClick(rcode[r])
       ELSE Goto(r, "select") /\ UNCHANGED <<counts, recorded>>
    /\ UNCHANGED <<linkVars, rcode, bypassed, began, flushVars, stage, counted, unmatched, doubled,
                   faults>>

RedisFails(r) ==
    /\ rpc[r] = "redis"
    /\ Goto(r, "select")
    /\ bypassed' = bypassed \union {r}
    /\ UNCHANGED <<linkVars, rcode, began, counts, flushVars, stage, totals>>

\* resolveFromDatabase: the SELECT sees live rows only.
SelectRow(r) ==
    /\ rpc[r] = "select"
    /\ Goto(r, IF rcode[r] \in rows \ expired THEN "found" ELSE "404")
    /\ UNCHANGED <<linkVars, rcode, bypassed, began, counts, flushVars, stage, totals, faults>>

SelectFails(r) ==
    /\ rpc[r] = "select"
    /\ Goto(r, "503")
    /\ UNCHANGED <<linkVars, rcode, bypassed, began, counts, flushVars, stage, totals>>

\* Its callback fills the cache, which may fail, counts and redirects.
RedirectFromRow(r) ==
    /\ rpc[r] = "found"
    /\ hashes' \in {hashes, hashes \union {rcode[r]}}
    /\ RecordClick(rcode[r])
    /\ Goto(r, "302")
    /\ UNCHANGED <<created, rows, expiring, expired, rcode, bypassed, began, flushVars, stage, counted,
                   unmatched, doubled, faults>>

-----------------------------------------------------------------------------
(***************************************************************************)
(* Clicks                                                                  *)
(***************************************************************************)
\* flushClicks on the main loop, by the timer: drain visits the stripes.
FlushTimer ==
    /\ stage # "quit" /\ next = None
    /\ next' = 1
    /\ UNCHANGED <<linkVars, requestVars, counts, drained, flights, stage, totals, faults>>

InStripe(n) == {c \in Codes : StripeOf[c] = n}

\* drain takes a stripe: swapped for an empty one under its mutex, while the
\* other event loops go on recording.
\* (Deliberate faults: one stripe too many, and one too few.)
TakeStripeRunsOn ==
    /\ next \in 1..(Stripes + 1)
    /\ next' = next + 1
    /\ drained' = Plus(drained, Part(counts, InStripe(next)))
    /\ counts' = Part(counts, Codes \ InStripe(next))
    /\ UNCHANGED <<linkVars, requestVars, flights, stage, totals, faults>>

TakeStripeStopsShort ==
    /\ next \in 1..Stripes
    /\ next' = Stripes + 1
    /\ drained' = Plus(drained, Part(counts, InStripe(next)))
    /\ counts' = Part(counts, Codes \ InStripe(next))
    /\ UNCHANGED <<linkVars, requestVars, flights, stage, totals, faults>>

TakeStripe ==
    /\ next \in 1..Stripes
    /\ next' = next + 1
    /\ drained' = Plus(drained, Part(counts, InStripe(next)))
    /\ counts' = Part(counts, Codes \ InStripe(next))
    /\ UNCHANGED <<linkVars, requestVars, flights, stage, totals, faults>>

\* The UPDATE is sent and the loop goes on; an empty batch is not sent.
SendBatch ==
    /\ next = Stripes + 1
    /\ next' = None
    /\ drained' = Zero
    /\ IF drained = Zero
       THEN UNCHANGED flights
       ELSE \E f \in Flights :
               /\ flights[f] = None
               /\ flights' = [flights EXCEPT ![f] = [batch |-> drained, matched |-> None]]
    /\ UNCHANGED <<linkVars, requestVars, counts, stage, totals, faults>>

\* PostgreSQL runs it: codes without a row match nothing, and nobody is told.
UpdateRuns(f) ==
    /\ flights[f] # None /\ flights[f].matched = None
    /\ flights' = [flights EXCEPT ![f].matched = rows]
    /\ counted' = Plus(counted, Part(flights[f].batch, rows))
    /\ unmatched' = Plus(unmatched, Part(flights[f].batch, Codes \ rows))
    /\ UNCHANGED <<linkVars, requestVars, counts, drained, next, stage, recorded, doubled, faults>>

UpdateReturns(f) ==
    /\ flights[f] # None /\ flights[f].matched # None
    /\ flights' = [flights EXCEPT ![f] = None]
    /\ UNCHANGED <<linkVars, requestVars, counts, drained, next, stage, totals, faults>>

\* The exception callback records the batch again, whether or not PostgreSQL
\* had run it.
\* (Deliberate fault: each code once, not as often as it was clicked.)
UpdateFailsOnce(f) ==
    /\ flights[f] # None /\ flights[f].matched = None
    /\ counts' = Plus(counts, [c \in Codes |-> IF flights[f].batch[c] > 0 THEN 1 ELSE 0])
    /\ flights' = [flights EXCEPT ![f] = None]
    /\ UNCHANGED <<linkVars, requestVars, drained, next, stage, totals>>

UpdateFails(f) ==
    /\ flights[f] # None
    /\ LET batch == flights[f].batch
           matched == flights[f].matched
       IN /\ counts' = Plus(counts, batch)
          /\ IF matched = None
             THEN UNCHANGED <<doubled, unmatched>>
             ELSE /\ doubled' = Plus(doubled, Part(batch, matched))
                  /\ unmatched' = [c \in Codes |-> unmatched[c] - Part(batch, Codes \ matched)[c]]
    /\ flights' = [flights EXCEPT ![f] = None]
    /\ UNCHANGED <<linkVars, requestVars, drained, next, stage, recorded, counted>>

\* SIGTERM or SIGINT: flush now, quit a second later.
TermSignal ==
    /\ stage = "running" /\ next = None
    /\ stage' = "stopping"
    /\ next' = 1
    /\ UNCHANGED <<linkVars, requestVars, counts, drained, flights, totals, faults>>

Quit ==
    /\ stage = "stopping" /\ next = None
    /\ stage' = "quit"
    /\ UNCHANGED <<linkVars, requestVars, counts, flushVars, totals, faults>>

-----------------------------------------------------------------------------
(***************************************************************************)
(* The Node.js service, Redis and the clock                                *)
(***************************************************************************)
\* A link is queued: it has its hash and no row yet.
LinkQueued(c) ==
    /\ c \notin created
    /\ created' = created \union {c} /\ hashes' = hashes \union {c}
    /\ expiring' \in {expiring, expiring \union {c}}
    /\ UNCHANGED <<rows, expired>>

RowSynced(c) ==
    /\ c \in created \ rows
    /\ rows' = rows \union {c}
    /\ UNCHANGED <<created, hashes, expiring, expired>>

\* A hash with a TTL goes: one whose link has its row, or an expiry.
HashVanishes(c) ==
    /\ c \in hashes \intersect (rows \union expiring)
    /\ hashes' = hashes \ {c}
    /\ UNCHANGED <<created, rows, expiring, expired>>

LinkExpires(c) ==
    /\ c \in expiring \ expired
    /\ expired' = expired \union {c}
    /\ UNCHANGED <<created, rows, hashes, expiring>>

Outside(c) ==
    /\ LinkQueued(c) \/ RowSynced(c) \/ HashVanishes(c) \/ LinkExpires(c)
    /\ UNCHANGED <<requestVars, counts, flushVars, stage, totals, faults>>

Fault ==
    /\ faults < MaxFaults /\ stage # "quit"
    /\ faults' = faults + 1
    /\ \/ \E r \in Requests : RedisFails(r) \/ SelectFails(r)
       \/ \E f \in Flights : UpdateFails(f)

Redirect(r) == RedisAnswers(r) \/ SelectRow(r) \/ RedirectFromRow(r)

FlushStep == TakeStripe \/ SendBatch

Update(f) == UpdateRuns(f) \/ UpdateReturns(f)

Next ==
    \/ /\ stage # "quit"
       /\ \/ \E r \in Requests : Redirect(r) \/ \E c \in Codes : HandleRedirect(r, c)
          \/ FlushTimer \/ FlushStep
          \/ \E f \in Flights : Update(f)
          \/ TermSignal \/ Quit
          \/ \E c \in Codes : Outside(c)
    \/ Fault

Spec == Init /\ [][Next]_vars

\* The timer fires, the main loop runs on, statements are answered; nothing
\* is assumed of requests, links or signals.
FairSpec ==
    /\ Spec
    /\ WF_vars(FlushTimer)
    /\ WF_vars(FlushStep)
    /\ \A f \in Flights : WF_vars(stage # "quit" /\ Update(f))

-----------------------------------------------------------------------------
\* The clicks of each code in statements that PostgreSQL has not run.
InFlight == [c \in Codes |-> SumFunction([f \in Flights |->
    IF flights[f] # None /\ flights[f].matched = None THEN flights[f].batch[c] ELSE 0])]

\* Every click is in the aggregator, drained, on its way, in its row, or was
\* flushed before its link had a row; only an answer lost after the commit
\* counts clicks twice.  Recording on other event loops while the stripes are
\* taken, batches that overlap and failed batches change none of this.
ClicksAccounted ==
    \A c \in Codes :
        recorded[c] + doubled[c] =
            counts[c] + drained[c] + InFlight[c] + counted[c] + unmatched[c]

\* "Those clicks are retried on later flushes (up to 10) instead of being lost"
\* (docs/ARCHITECTURE.md:43), and the C++ service "batches PostgreSQL click
\* updates the same way" (docs/ARCHITECTURE.md:107).  It does not retry.
UnsyncedClicksKept == \A c \in Codes : unmatched[c] = 0

\* "Flush buffered clicks before exiting on SIGTERM/SIGINT" (main.cc:314): not
\* those of redirects served after the signal.
FlushedBeforeExit ==
    stage = "quit" => \A c \in Codes : counts[c] + drained[c] + InFlight[c] = 0

\* A link that existed when the request came, without an expiry, is found, in
\* Redis while it is queued and in PostgreSQL at the latest when its hash may
\* go, unless Redis failed the request: Redis is asked before PostgreSQL.
LinksFound ==
    \A r \in Requests \ bypassed :
        (rpc[r] = "404" /\ rcode[r] \in began[r].links) => rcode[r] \in expiring

\* A link whose expiry had passed when the request came is not served, from a
\* hash that outlives it either.
ExpiredNotServed ==
    \A r \in Requests : rpc[r] \in {"found", "302"} => rcode[r] \notin began[r].expired

\* Redirects answer right: links are found, expired ones are not served
\* (main.cc:184).
RedirectsRight == LinksFound /\ ExpiredNotServed

\* The service's state is of its type, and its clicks add up (core.hpp:136).
ClicksBalanced == TypeOK /\ ClicksAccounted

\* As long as the service runs, clicks do not stay in memory.
ClicksLeave ==
    \A c \in Codes : (counts[c] + drained[c] > 0) ~> (counts[c] + drained[c] = 0 \/ stage = "quit")
=============================================================================
