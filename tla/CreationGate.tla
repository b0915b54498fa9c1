---------------------------- MODULE CreationGate ----------------------------
(***************************************************************************)
(* What a POST /api/v1/links goes through before a code is allocated       *)
(* (src/src/app.ts): the rate limiter of its client, the API key, the URL  *)
(* policy with its DNS lookup, the alias and the expiry.  The rate limiter *)
(* (src/src/security/rate-limiter.ts) keeps one Redis counter for each     *)
(* client, which a script increments and Redis expires.                    *)
(*                                                                         *)
(* Requests come again and again from the same slots, so that a client may *)
(* ask for ever; counters and histories stop at bounds past which nothing  *)
(* is told apart.                                                          *)
(***************************************************************************)
EXTENDS Integers, FiniteSets

CONSTANTS
    Clients,      \* request.ip
    Requests,     \* requests that may run at once
    Maximum,      \* CREATE_RATE_LIMIT_MAX
    Window,       \* CREATE_RATE_LIMIT_WINDOW_SECONDS
    Bodies,       \* what a request carries: an API key, a URL, an alias, an expiry
    ValidKeys,    \* keys whose hash is configured
    Unsafe,       \* addresses isUnsafeIpAddress refuses
    Answers,      \* what DNS may answer: sets of addresses
    MaxChecks,    \* history bound: credential checks of a client
    MaxClock,     \* history bound: seconds
    MaxFaults,    \* lost scripts, lost connections, evictions
    None

ASSUME GateAssumption ==
    /\ IsFiniteSet(Requests)
    /\ Maximum \in Nat \ {0} /\ Window \in Nat \ {0}
    /\ \A b \in Bodies :
          /\ b.url.host \in {"local", "literal", "name"}
          /\ {b.alias, b.ttl} \subseteq {"none", "valid", "invalid"}
    /\ MaxChecks \in Nat /\ MaxClock \in Nat /\ MaxFaults \in Nat

\* TTL of a counter: seconds left, or none set.
Forever == -1

VARIABLES
    count,     \* the counter of each client, 0 when there is none
    left,      \* its TTL, 0 when there is no counter
    ready,     \* redis.isReady
    rpc, who, body,   \* where each request stands, its client and what it carries
    now,       \* history: seconds
    checks,    \* history: credential checks of each client
    evicted,   \* history: counters of each client that went before their TTL
    faults

limiter == <<count, left>>
vars == <<limiter, ready, rpc, who, body, now, checks, evicted, faults>>

Stages == {"idle", "limit", "denied", "counted", "dns", "checked",
           "201", "400", "401", "429", "503"}

TypeOK ==
    /\ count \in [Clients -> 0..(Maximum + 1)]
    /\ left \in [Clients -> 0..Window \union {Forever}]
    /\ \A i \in Clients : count[i] = 0 <=> left[i] = 0
    /\ ready \in BOOLEAN
    /\ rpc \in [Requests -> Stages]
    /\ who \in [Requests -> Clients \union {None}]
    /\ body \in [Requests -> Bodies \union {None}]
    /\ now \in 0..MaxClock
    /\ checks \in [Clients -> 0..MaxChecks]
    /\ evicted \in [Clients -> 0..MaxFaults]
    /\ faults \in 0..MaxFaults

\* A counter may have been left without a TTL.
Init ==
    /\ count \in [Clients -> {0, 1}]
    /\ left = [i \in Clients |-> IF count[i] = 0 THEN 0 ELSE Forever]
    /\ ready = TRUE
    /\ rpc = [r \in Requests |-> "idle"]
    /\ who = [r \in Requests |-> None]
    /\ body = [r \in Requests |-> None]
    /\ now = 0
    /\ checks = [i \in Clients |-> 0]
    /\ evicted = [i \in Clients |-> 0]
    /\ faults = 0

Goto(r, stage) == rpc' = [rpc EXCEPT ![r] = stage]

UpTo(n, bound) == IF n < bound THEN n ELSE bound

-----------------------------------------------------------------------------
(***************************************************************************)
(* The rate limiter                                                        *)
(***************************************************************************)
\* CONSUME_RATE_LIMIT: INCR; the first of a window, and any that finds no TTL,
\* sets it.
\* (Deliberate faults: every request sets the TTL; a second too many is set.)
ConsumeRateLimitRenews(i) ==
    /\ count' = [count EXCEPT ![i] = UpTo(@ + 1, Maximum + 1)]
    /\ left' = [left EXCEPT ![i] = Window]

ConsumeRateLimitLong(i) ==
    /\ count' = [count EXCEPT ![i] = UpTo(@ + 1, Maximum + 1)]
    /\ left' = [left EXCEPT ![i] = IF count[i] = 0 \/ @ = Forever THEN Window + 1 ELSE @]

ConsumeRateLimit(i) ==
    /\ count' = [count EXCEPT ![i] = UpTo(@ + 1, Maximum + 1)]
    /\ left' = [left EXCEPT ![i] = IF count[i] = 0 \/ @ = Forever THEN Window ELSE @]

\* A request comes in; without Redis it is refused.
Arrive(r, i, b) ==
    /\ rpc[r] = "idle"
    /\ Goto(r, IF ready THEN "limit" ELSE "503")
    /\ who' = [who EXCEPT ![r] = i]
    /\ body' = [body EXCEPT ![r] = b]
    /\ UNCHANGED <<limiter, ready, now, checks, evicted, faults>>

\* consume: the script has run.
Consume(r) ==
    /\ rpc[r] = "limit"
    /\ ConsumeRateLimit(who[r])
    /\ Goto(r, IF count[who[r]] + 1 <= Maximum THEN "counted" ELSE "denied")
    /\ UNCHANGED <<ready, who, body, now, checks, evicted, faults>>

\* The script fails or its answer is lost: creation fails closed.
\* (Deliberate fault: it fails open.)
ConsumeFailsOpen(r) ==
    /\ rpc[r] = "limit"
    /\ ConsumeRateLimit(who[r]) \/ UNCHANGED limiter
    /\ Goto(r, "counted")
    /\ UNCHANGED <<ready, who, body, now, checks, evicted>>

ConsumeFails(r) ==
    /\ rpc[r] = "limit"
    /\ ConsumeRateLimit(who[r]) \/ UNCHANGED limiter
    /\ Goto(r, "503")
    /\ UNCHANGED <<ready, who, body, now, checks, evicted>>

Deny(r) ==
    /\ rpc[r] = "denied"
    /\ Goto(r, "429")
    /\ UNCHANGED <<limiter, ready, who, body, now, checks, evicted, faults>>

-----------------------------------------------------------------------------
(***************************************************************************)
(* The other checks                                                        *)
(***************************************************************************)
\* validate up to the lookup: length, scheme, no credentials, no local name, no
\* unsafe literal address.
PassesUnresolved(url) ==
    url.web /\ url.host # "local" /\ (url.host = "literal" => url.address \notin Unsafe)

\* authenticate, then the URL policy: a literal address is decided at once.
Authenticate(r) ==
    LET b == body[r] IN
    /\ rpc[r] = "counted"
    /\ checks' = [checks EXCEPT ![who[r]] = UpTo(@ + 1, MaxChecks)]
    /\ Goto(r, IF b.key \notin ValidKeys THEN "401"
               ELSE IF ~PassesUnresolved(b.url) THEN "400"
               ELSE IF b.url.host = "name" THEN "dns" ELSE "checked")
    /\ UNCHANGED <<limiter, ready, who, body, now, evicted, faults>>

\* The lookup answers, perhaps with nothing, or fails: every address must be
\* public.
Resolve(r) ==
    /\ rpc[r] = "dns"
    /\ \E addresses \in Answers \union {{}} :
          Goto(r, IF addresses # {} /\ addresses \intersect Unsafe = {} THEN "checked" ELSE "400")
    /\ UNCHANGED <<limiter, ready, who, body, now, checks, evicted, faults>>

\* Alias and expiry; the rest is the attempt loop (module WriteBehindLinkStore).
Accept(r) ==
    /\ rpc[r] = "checked"
    /\ Goto(r, IF "invalid" \in {body[r].alias, body[r].ttl} THEN "400" ELSE "201")
    /\ UNCHANGED <<limiter, ready, who, body, now, checks, evicted, faults>>

\* The answer is sent; another request may come.
Answered(r) ==
    /\ rpc[r] \in {"201", "400", "401", "429", "503"}
    /\ Goto(r, "idle")
    /\ who' = [who EXCEPT ![r] = None]
    /\ body' = [body EXCEPT ![r] = None]
    /\ UNCHANGED <<limiter, ready, now, checks, evicted, faults>>

-----------------------------------------------------------------------------
(***************************************************************************)
(* Redis and the clock                                                     *)
(***************************************************************************)
Expire(gone) ==
    count' = [i \in Clients |-> IF i \in gone THEN 0 ELSE count[i]]

\* A second passes.
Second ==
    /\ left' = [i \in Clients |-> IF left[i] > 0 THEN left[i] - 1 ELSE left[i]]
    /\ Expire({i \in Clients : left[i] = 1})
    /\ now' = UpTo(now + 1, MaxClock)
    /\ UNCHANGED <<ready, rpc, who, body, checks, evicted, faults>>

\* volatile-lru evicts a counter: it has a TTL.
Evict(i) ==
    /\ left[i] > 0
    /\ left' = [left EXCEPT ![i] = 0]
    /\ Expire({i})
    /\ evicted' = [evicted EXCEPT ![i] = @ + 1]
    /\ UNCHANGED <<ready, rpc, who, body, now, checks>>

\* The client loses Redis, or has it again.
Connection(up) ==
    /\ ready = ~up /\ ready' = up
    /\ UNCHANGED <<limiter, rpc, who, body, now, checks, evicted>>

Fault ==
    /\ faults < MaxFaults
    /\ faults' = faults + 1
    /\ \/ \E r \in Requests : ConsumeFails(r)
       \/ \E i \in Clients : Evict(i)
       \/ Connection(FALSE)

RequestStep(r) ==
    \/ \E i \in Clients, b \in Bodies : Arrive(r, i, b)
    \/ Consume(r) \/ Deny(r) \/ Authenticate(r) \/ Resolve(r) \/ Accept(r) \/ Answered(r)

Next ==
    \/ \E r \in Requests : RequestStep(r)
    \/ Second
    \/ Connection(TRUE) /\ UNCHANGED faults
    \/ Fault

Spec == Init /\ [][Next]_vars

\* The clock runs.
FairSpec == Spec /\ WF_vars(Second)

-----------------------------------------------------------------------------
\* "Rate limiting runs before authentication so invalid credentials cannot be
\* guessed without consuming quota" (app.ts:218): the credential checks of a
\* client never exceed the maximum for each window that can have begun, be
\* requests late, Redis lost or answers lost; an evicted counter begins another.
GuessesBounded ==
    now < MaxClock =>
        \A i \in Clients : checks[i] <= Maximum * (1 + (now \div Window) + evicted[i])

\* The gate's state is of its type, and no client guesses beyond its quota.
QuotaHolds == TypeOK /\ GuessesBounded

\* A client that was counted gets its quota back, even if it never stops asking
\* and even if its counter had lost its TTL: refused requests do not prolong
\* the window.
QuotaReturns ==
    \A i \in Clients :
        (\E r \in Requests : who[r] = i /\ rpc[r] \in {"counted", "denied"}) ~> (count[i] = 0)
=============================================================================
