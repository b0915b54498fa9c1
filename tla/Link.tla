-------------------------------- MODULE Link --------------------------------
(***************************************************************************)
(* The vocabulary of src/src/domain/link.ts: codes, links and the entry a  *)
(* link leaves in the write-behind queue.                                  *)
(*                                                                         *)
(* One Redis shard is modelled.  Every key a script touches (link hash,    *)
(* sync queue, sync lock, dead letters) carries the hash tag of one shard  *)
(* (src/src/cache/keys.ts), and no operation reads two shards, so shards   *)
(* never interact.                                                         *)
(***************************************************************************)
EXTENDS Integers, Sequences, FiniteSets, Functions

CONSTANTS
    GenCodes,     \* the codes the code allocator can hand out on this shard
    AliasCodes,   \* the custom codes callers ask for; may meet GenCodes
    Targets,      \* the normalised target URLs the URL policy lets through
    LongTargets,  \* those whose normalised form exceeds 2048 characters
    Instants,     \* creation instants, in milliseconds
    Expiries,     \* TRUE: links that expire may be asked for
    Nil           \* SQL NULL, an absent key, an unset variable

ASSUME LinkAssumption ==
    /\ LongTargets \subseteq Targets
    /\ Expiries \subseteq BOOLEAN
    /\ Instants # {}

Codes == GenCodes \union AliasCodes

\* A link as it is queued (PendingLink) and as a row of table links stores it.
PendingLink == [code : Codes, target : Targets, created : Instants, expires : BOOLEAN]

ASSUME NilAssumption == Nil \notin PendingLink

\* parsePendingLink refuses an entry whose targetUrl is longer than 2048
\* characters; the other fields of an entry this program wrote always parse.
ParsePendingLink(l) == l.target \notin LongTargets
=============================================================================
