----------------------------- MODULE LinkLedger -----------------------------
(***************************************************************************)
(* What the write-behind path promises, without Redis, workers or locks: a *)
(* ledger of links that are acknowledged, waiting for PostgreSQL, in       *)
(* PostgreSQL, or set aside as dead letters.  Every step takes links       *)
(* forward; nothing that was acknowledged falls out.                       *)
(***************************************************************************)
EXTENDS Integers, FiniteSets

CONSTANTS
    Codes,      \* codes of links
    Links,      \* links: records with a code and a target, among other fields
    LetterCap,  \* dead letters that are kept
    Absent      \* no row

VARIABLES
    acked,    \* links whose creation was answered with 201
    waiting,  \* links on their way to PostgreSQL
    rows,     \* the row of each code, or Absent
    letters   \* dead letters, each with its link

ledgerVars == <<acked, waiting, rows, letters>>

Kept(l) == rows[l.code] # Absent /\ rows[l.code].target = l.target

SetAside(l) == \E letter \in letters : letter.link = l

Init ==
    /\ acked = {}
    /\ waiting = {}
    /\ rows = [c \in Codes |-> Absent]
    /\ letters = {}

\* A link under a code that nothing waits under is queued.  The answer may be
\* lost, and then the link is queued without being acknowledged.
Accept(l) ==
    /\ \A m \in waiting : m.code # l.code
    /\ waiting' = waiting \union {l}
    /\ acked' \in {acked, acked \union {l}}
    /\ UNCHANGED <<rows, letters>>

\* A link that has its row is acknowledged.
Acknowledge(l) ==
    /\ Kept(l)
    /\ acked' = acked \union {l}
    /\ UNCHANGED <<waiting, rows, letters>>

\* Rows are written, each once and under its own code.
Write ==
    /\ \A c \in Codes :
          \/ rows'[c] = rows[c]
          \/ rows[c] = Absent /\ rows'[c].code = c
    /\ UNCHANGED <<acked, waiting, letters>>

\* Links stop waiting: each has its row or becomes a dead letter.  New letters
\* are of links that waited; old ones give way only when the list is full.
Settle ==
    /\ waiting' \subseteq waiting
    /\ \A l \in waiting \ waiting' : Kept(l) \/ SetAside(l)'
    /\ \A letter \in letters' \ letters : letter.link \in waiting
    /\ letters \subseteq letters' \/ Cardinality(letters') >= LetterCap
    /\ UNCHANGED <<acked, rows>>

Next ==
    \/ \E l \in Links : Accept(l) \/ Acknowledge(l)
    \/ Write
    \/ Settle

Spec == Init /\ [][Next]_ledgerVars
=============================================================================
