------------------------- MODULE BlockCodeAllocator -------------------------
(***************************************************************************)
(* BlockCodeAllocator (src/src/domain/code-allocator.ts) in several        *)
(* processes over one PostgreSQL sequence (PostgresIdBlockSource,          *)
(* src/src/store/postgres-id-block-source.ts).  Callers of nextCode in one *)
(* process share one reservation; a caller runs to its await and again     *)
(* when the reservation settles, in any order with the other callers.      *)
(*                                                                         *)
(* A caller's result is the id it takes; CodeScrambler.encode maps ids to  *)
(* codes one to one.                                                       *)
(***************************************************************************)
EXTENDS Integers, FiniteSets

CONSTANTS
    Processes,
    Callers,      \* calls of nextCode
    Home,         \* the process a call is made in
    BlockSize,    \* INCREMENT BY of the sequence
    CodeSpace,    \* ids below it have codes (62^9)
    MaxFaults,    \* bound: rejected reservations and crashes
    None

ASSUME AllocatorAssumption ==
    /\ Home \in [Callers -> Processes]
    /\ BlockSize \in Nat \ {0}
    /\ CodeSpace \in Nat
    /\ MaxFaults \in Nat
    /\ None \notin Nat

VARIABLES
    next, end,    \* this.next and this.end of each process
    reservation,  \* this.reservation: "none", "asked", or "granted" by PostgreSQL
    granted,      \* the start of the block PostgreSQL answered, or None
    sequence,     \* the next value of link_code_block_seq
    call,         \* the state of each call
    id,           \* the id a finished call took, or None
    faults

vars == <<next, end, reservation, granted, sequence, call, id, faults>>

CallStates == {"new", "running", "waiting", "done", "rejected"}

TypeOK ==
    /\ next \in [Processes -> Nat]
    /\ end \in [Processes -> Nat]
    /\ reservation \in [Processes -> {"none", "asked", "granted"}]
    /\ granted \in [Processes -> Nat \union {None}]
    /\ sequence \in Nat
    /\ call \in [Callers -> CallStates]
    /\ id \in [Callers -> Nat \union {None}]
    /\ faults \in 0..MaxFaults

Init ==
    /\ next = [p \in Processes |-> 0]
    /\ end = [p \in Processes |-> 0]
    /\ reservation = [p \in Processes |-> "none"]
    /\ granted = [p \in Processes |-> None]
    /\ sequence = 0
    /\ call = [c \in Callers |-> "new"]
    /\ id = [c \in Callers |-> None]
    /\ faults = 0

Waiting(p) == {c \in Callers : Home[c] = p /\ call[c] = "waiting"}

\* Deliberate fault: only one waiting caller is woken.
SettleWakesOne(p, s) ==
    /\ \E w \in Waiting(p) : call' = [call EXCEPT ![w] = s]
    /\ reservation' = [reservation EXCEPT ![p] = "none"]
    /\ granted' = [granted EXCEPT ![p] = None]

\* The reservation settles: every caller that awaits it goes on in state s.
Settle(p, s) ==
    /\ call' = [c \in Callers |-> IF c \in Waiting(p) THEN s ELSE call[c]]
    /\ reservation' = [reservation EXCEPT ![p] = "none"]
    /\ granted' = [granted EXCEPT ![p] = None]

-----------------------------------------------------------------------------
\* nextCode is called.
Call(c) ==
    /\ call[c] = "new"
    /\ call' = [call EXCEPT ![c] = "running"]
    /\ UNCHANGED <<next, end, reservation, granted, sequence, id, faults>>

\* Deliberate fault: the counter runs the wrong way.
TakeIdBackwards(c) ==
    LET p == Home[c]
    IN /\ call[c] = "running"
       /\ next[p] < end[p]
       /\ id' = [id EXCEPT ![c] = next[p]]
       /\ next' = [next EXCEPT ![p] = @ - 1]
       /\ call' = [call EXCEPT ![c] = "done"]
       /\ UNCHANGED <<end, reservation, granted, sequence, faults>>

\* The loop test fails: the block has an id left, and the caller takes it.
TakeId(c) ==
    LET p == Home[c]
    IN /\ call[c] = "running"
       /\ next[p] < end[p]
       /\ id' = [id EXCEPT ![c] = next[p]]
       /\ next' = [next EXCEPT ![p] = @ + 1]
       /\ call' = [call EXCEPT ![c] = "done"]
       /\ UNCHANGED <<end, reservation, granted, sequence, faults>>

\* Deliberate faults: a reservation while an id is left, and none at all.
AwaitReservationEarly(c) ==
    LET p == Home[c]
    IN /\ call[c] = "running"
       /\ next[p] + 1 >= end[p]
       /\ reservation' = [reservation EXCEPT ![p] = IF @ = "none" THEN "asked" ELSE @]
       /\ call' = [call EXCEPT ![c] = "waiting"]
       /\ UNCHANGED <<next, end, granted, sequence, id, faults>>

AwaitReservationUnasked(c) ==
    LET p == Home[c]
    IN /\ call[c] = "running"
       /\ next[p] >= end[p]
       /\ call' = [call EXCEPT ![c] = "waiting"]
       /\ UNCHANGED <<next, end, reservation, granted, sequence, id, faults>>

\* The block is used up: the caller starts a reservation or joins the one in
\* flight, and awaits it.
AwaitReservation(c) ==
    LET p == Home[c]
    IN /\ call[c] = "running"
       /\ next[p] >= end[p]
       /\ reservation' = [reservation EXCEPT ![p] = IF @ = "none" THEN "asked" ELSE @]
       /\ call' = [call EXCEPT ![c] = "waiting"]
       /\ UNCHANGED <<next, end, granted, sequence, id, faults>>

\* Deliberate fault: the sequence advances by less than the block.
ReserveBlockOverlapping(p) ==
    /\ reservation[p] = "asked"
    /\ reservation' = [reservation EXCEPT ![p] = "granted"]
    /\ granted' = [granted EXCEPT ![p] = sequence]
    /\ sequence' = sequence + BlockSize - 1
    /\ UNCHANGED <<next, end, call, id, faults>>

\* reserveBlock: nextval is not undone, whatever becomes of the answer.
ReserveBlock(p) ==
    /\ reservation[p] = "asked"
    /\ reservation' = [reservation EXCEPT ![p] = "granted"]
    /\ granted' = [granted EXCEPT ![p] = sequence]
    /\ sequence' = sequence + BlockSize
    /\ UNCHANGED <<next, end, call, id, faults>>

\* Deliberate fault: the end of the code space is not tested.
ReservedUnchecked(p) ==
    /\ reservation[p] = "granted"
    /\ next' = [next EXCEPT ![p] = granted[p]]
    /\ end' = [end EXCEPT ![p] = granted[p] + BlockSize]
    /\ Settle(p, "running")
    /\ UNCHANGED <<sequence, id, faults>>

\* reserve gets its block.
Reserved(p) ==
    /\ reservation[p] = "granted"
    /\ granted[p] + BlockSize <= CodeSpace
    /\ next' = [next EXCEPT ![p] = granted[p]]
    /\ end' = [end EXCEPT ![p] = granted[p] + BlockSize]
    /\ Settle(p, "running")
    /\ UNCHANGED <<sequence, id, faults>>

\* reserve throws "short code space exhausted": every waiting call rejects.
Exhausted(p) ==
    /\ reservation[p] = "granted"
    /\ granted[p] + BlockSize > CodeSpace
    /\ Settle(p, "rejected")
    /\ UNCHANGED <<next, end, sequence, id, faults>>

\* The query rejects, run or not.
ReserveFails(p) ==
    /\ faults < MaxFaults
    /\ faults' = faults + 1
    /\ reservation[p] # "none"
    /\ Settle(p, "rejected")
    /\ UNCHANGED <<next, end, sequence, id>>

\* The process dies and is started again: its block and its calls are gone.
Restart(p) ==
    /\ faults < MaxFaults
    /\ faults' = faults + 1
    /\ next' = [next EXCEPT ![p] = 0]
    /\ end' = [end EXCEPT ![p] = 0]
    /\ reservation' = [reservation EXCEPT ![p] = "none"]
    /\ granted' = [granted EXCEPT ![p] = None]
    /\ call' = [c \in Callers |->
          IF Home[c] = p /\ call[c] \in {"running", "waiting"} THEN "rejected" ELSE call[c]]
    /\ UNCHANGED <<sequence, id>>

CallStep(c) == TakeId(c) \/ AwaitReservation(c)

ReservationStep(p) == ReserveBlock(p) \/ Reserved(p) \/ Exhausted(p)

Next ==
    \/ \E c \in Callers : Call(c) \/ CallStep(c)
    \/ \E p \in Processes : ReservationStep(p) \/ ReserveFails(p) \/ Restart(p)

Spec == Init /\ [][Next]_vars

\* Fairness: a resumed caller runs, and a query is answered.
FairSpec ==
    /\ Spec
    /\ \A c \in Callers : WF_vars(CallStep(c))
    /\ \A p \in Processes : WF_vars(ReservationStep(p))

-----------------------------------------------------------------------------
\* No two calls, in whatever processes and across restarts and lost answers,
\* return the same id: the uniqueness write-behind creation relies on.
IdsUnique ==
    \A c, d \in Callers : (id[c] # None /\ id[c] = id[d]) => c = d

\* Every id handed out has a code (CodeScrambler.encode rejects others).
IdsInCodeSpace == \A c \in Callers : id[c] # None => id[c] < CodeSpace

\* A reservation is in flight only while the process has no id left and some
\* caller waits for one, so its answer never overwrites ids of the current
\* block ("a burst never reserves more blocks than it needs").
NoBlockWasted ==
    \A p \in Processes :
        reservation[p] # "none" => next[p] >= end[p] /\ Waiting(p) # {}

\* Nobody waits without a reservation in flight that will wake them.
NoStrandedCaller ==
    \A c \in Callers : call[c] = "waiting" => reservation[Home[c]] # "none"

\* Reservations are made when they are needed and then only (code-allocator.ts:248).
ReservationsServe == NoBlockWasted /\ NoStrandedCaller

\* Every call ends with an id or an error, however often its block is used up
\* by the callers that wake before it.
CallsEnd == \A c \in Callers : call[c] = "running" ~> call[c] \in {"done", "rejected"}
=============================================================================
