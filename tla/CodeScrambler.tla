---------------------------- MODULE CodeScrambler ----------------------------
(***************************************************************************)
(* The keyed permutation that turns ids into codes                         *)
(* (src/src/domain/code-allocator.ts, class CodeScrambler): a Feistel      *)
(* network on two halves, walked until the value lies in the code space,   *)
(* written in fixed-length Base62 by dividing the two halves.              *)
(*                                                                         *)
(* The sizes are constants.  The mixer of a round is any function on       *)
(* halves: "A Feistel network is a bijection for any round function".      *)
(***************************************************************************)
EXTENDS Integers

CONSTANTS
    HalfBits,    \* HALF_BITS, 27
    Rounds,      \* FEISTEL_ROUNDS, 8
    Base,        \* 62
    CodeLength,  \* ALLOCATED_CODE_LENGTH, 9
    Mixers       \* round functions, one of which the keys of a round select

Power(base, exponent) ==
    LET power[n \in 0..exponent] == IF n = 0 THEN 1 ELSE base * power[n - 1]
    IN  power[exponent]

HalfSize == Power(2, HalfBits)

Halves == 0..(HalfSize - 1)

Space == Power(Base, CodeLength)

\* The walk ends because the space is part of what the network permutes.
ASSUME ScramblerAssumption ==
    /\ HalfBits \in Nat \ {0} /\ Rounds \in Nat /\ Base \in Nat \ {0, 1}
    /\ CodeLength \in Nat \ {0}
    /\ Space <= HalfSize * HalfSize
    /\ Mixers \subseteq [Halves -> Halves]

\* What the secret derives for the rounds, once per process.
Keys == [1..Rounds -> Mixers]

\* The part of the grid of halves below SPACE_HIGH * HALF_SIZE + SPACE_LOW.
InsideCodeSpace(left, right) ==
    \/ left < Space \div HalfSize
    \/ left = Space \div HalfSize /\ right < Space % HalfSize

\* Exclusive or of two halves, from the highest bit down.
Xor(a, b) ==
    LET bit(x, n) == (x \div Power(2, HalfBits - n)) % 2
        xor[n \in 0..HalfBits] ==
            IF n = 0 THEN 0 ELSE 2 * xor[n - 1] + ((bit(a, n) + bit(b, n)) % 2)
    IN  xor[HalfBits]

\* A round swaps the halves and mixes the one into the other.
Round(mixer, p) == <<p[2], Xor(p[1], mixer[p[2]]) % HalfSize>>

Feistel(keys, p) ==
    LET after[n \in 0..Rounds] == IF n = 0 THEN p ELSE Round(keys[n], after[n - 1])
    IN  after[Rounds]

\* Cycle-walking: the network is applied until the value is inside the space.
\* (Deliberate fault: the value is reduced into the space, not walked.)
PermuteHalvesReduced(keys, p) ==
    LET f == Feistel(keys, p)
        v == (f[1] * HalfSize + f[2]) % Space
    IN  <<v \div HalfSize, v % HalfSize>>

PermuteHalves(keys, p) ==
    LET walk[q \in Halves \X Halves] ==
            LET f == Feistel(keys, q)
            IN  IF InsideCodeSpace(f[1], f[2]) THEN f ELSE walk[f]
    IN  walk[p]

\* The low part with the remainder of the high one.
Combined(p) == (p[1] % Base) * HalfSize + p[2]

\* The digits of high * HALF_SIZE + low, each got by dividing the two parts
\* with the remainder of the high one carried down.
\* (Deliberate fault: the remainder is not carried into the low part.)
DigitsUncarried(p) ==
    LET left[n \in 0..CodeLength] ==
            IF n = 0 THEN p ELSE <<left[n - 1][1] \div Base, left[n - 1][2] \div Base>>
    IN  [i \in 1..CodeLength |-> Combined(left[CodeLength - i]) % Base]

Digits(p) ==
    LET left[n \in 0..CodeLength] ==
            IF n = 0 THEN p
            ELSE <<left[n - 1][1] \div Base, Combined(left[n - 1]) \div Base>>
    IN  [i \in 1..CodeLength |-> Combined(left[CodeLength - i]) % Base]

Split(number) == <<number \div HalfSize, number % HalfSize>>

Join(p) == p[1] * HalfSize + p[2]

Permute(keys, number) == Join(PermuteHalves(keys, Split(number)))

Encode(keys, number) == Digits(PermuteHalves(keys, Split(number)))

\* The reference encoder, for a value that fits in the length.
EncodeBase62Fixed(value) ==
    LET remaining[n \in 0..CodeLength] == IF n = 0 THEN value ELSE remaining[n - 1] \div Base
    IN  [i \in 1..CodeLength |-> remaining[CodeLength - i] % Base]
=============================================================================
