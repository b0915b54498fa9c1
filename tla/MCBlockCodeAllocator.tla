------------------------ MODULE MCBlockCodeAllocator ------------------------
(* Two processes; four of the five calls are a burst in the first one,     *)
(* larger than its block of two, and three answers or processes may be     *)
(* lost.  Two-bit halves, three rounds and nine codes of two ternary       *)
(* digits: as in the code, the space is not a power of two, ends within a  *)
(* row of halves, and the last block lies across its end.                  *)
EXTENDS CodeAllocator

Bits == INSTANCE Bitwise

CONSTANTS p1, p2, c1, c2, c3, c4, c5

MCProcesses == {p1, p2}
MCCallers == {c1, c2, c3, c4, c5}
MCHome == [c \in MCCallers |-> IF c \in {c1, c2, c3, c4} THEN p1 ELSE p2]

MCMixers == {
    [h \in 0..3 |-> 0],
    [h \in 0..3 |-> 3],
    [h \in 0..3 |-> h],
    [h \in 0..3 |-> 3 - h],
    [h \in 0..3 |-> h \div 2],
    [h \in 0..3 |-> (h * h) % 4],
    [h \in 0..3 |-> IF h = 1 THEN 2 ELSE 1]}

\* The exclusive or and the powers of the model are the usual ones.
ASSUME XorAssumption == \A a, b \in Halves : Xor(a, b) = Bits!^^(a, b)

ASSUME PowerAssumption == HalfSize = 2 ^ HalfBits /\ Space = Base ^ CodeLength
=============================================================================
