------------------------- MODULE MCWriteBehindLedger -------------------------
(* The instance of WriteBehindLedger that TLC checks.                      *)
EXTENDS WriteBehindLedger, TLC

Symmetry ==
    Permutations(Tokens) \union Permutations(Requests) \union Permutations(Instants)
        \union Permutations(LongTargets) \union Permutations(Targets \ LongTargets)
=============================================================================
