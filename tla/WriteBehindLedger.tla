-------------------------- MODULE WriteBehindLedger --------------------------
(***************************************************************************)
(* The write-behind path implements the ledger: Redis queue, PostgreSQL    *)
(* rows and dead letters are its links that wait, are kept and are set     *)
(* aside.  Everything else the path does is invisible to the ledger.       *)
(***************************************************************************)
EXTENDS WriteBehind

Acked == {rlink[r] : r \in {r \in Requests : rpc[r] = "acked"}}

Ledger == INSTANCE LinkLedger WITH
    Links <- PendingLink, LetterCap <- DeadCap, Absent <- Nil,
    acked <- Acked, waiting <- Range(queue), rows <- links, letters <- dead

\* Every behaviour of the write-behind path, with its crashes, lost answers,
\* lock expiries and evictions, is one the ledger allows: a link is
\* acknowledged only when it is queued or has its row, a row is written once,
\* and an entry leaves the queue only for its row or the dead letters.
ImplementsLedger == Ledger!Spec
=============================================================================
