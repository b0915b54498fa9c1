--------------------------- MODULE CodeAllocator ---------------------------
(***************************************************************************)
(* What nextCode returns: the allocator's ids, in every process of the     *)
(* service, written by the scrambler each process builds from the shared   *)
(* secret.  The walk through the scrambler has no await and no state, so a *)
(* code is a function of the secret and of the id.                         *)
(***************************************************************************)
EXTENDS BlockCodeAllocator, CodeScrambler

\* CODE_SPACE is the number of codes.
ASSUME SpaceAssumption == CodeSpace = Space

Ids == 0..(Space - 1)

\* Ids that some secret gives the same code.
ClashingIds ==
    LET clashes(keys) ==
            LET code == [i \in Ids |-> Encode(keys, i)]
            IN  {p \in Ids \X Ids : p[1] # p[2] /\ code[p[1]] = code[p[2]]}
    IN  UNION {clashes(keys) : keys \in Keys}

\* What a code says in positional notation.
ValueOf(code) ==
    LET below[n \in 0..CodeLength] == IF n = 0 THEN 0 ELSE below[n - 1] * Base + code[n]
    IN  below[CodeLength]

\* Ids whose code, under some secret, is not the numeral of the permuted id.
MiswrittenIds ==
    {i \in Ids : \E keys \in Keys :
        \/ Encode(keys, i) # EncodeBase62Fixed(Permute(keys, i))
        \/ ValueOf(Encode(keys, i)) # Permute(keys, i)}

(***************************************************************************)
(* No two calls return the same code, in whatever processes and across     *)
(* restarts and lost answers, whatever the secret makes of the mixers:     *)
(* rounds need not be injective, and the walk jumps over the values        *)
(* outside the space.  Write-behind creation acknowledges an allocated     *)
(* code without asking whether another link has it.                        *)
(***************************************************************************)
CodesDistinct ==
    \A c, d \in Callers :
        c # d /\ id[c] # None /\ id[d] # None =>
            id[c] # id[d] /\ <<id[c], id[d]>> \notin ClashingIds

(***************************************************************************)
(* A code is the fixed-length numeral of the permuted id: dividing the two *)
(* parts gives what the reference encoder encodeBase62Fixed gives for the  *)
(* whole number, and the number fits in the length, so no digit is lost.   *)
(***************************************************************************)
CodesAreNumerals == \A c \in Callers : id[c] \notin MiswrittenIds

\* What nextCode returns is a code of its own in the code space, written right.
CodesCorrect == IdsInCodeSpace /\ CodesDistinct /\ CodesAreNumerals
=============================================================================
