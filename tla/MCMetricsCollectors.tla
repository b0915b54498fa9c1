------------------------- MODULE MCMetricsCollectors -------------------------
(* Instances of MetricsCollectors for TLC.                                 *)
EXTENDS MetricsCollectors, TLC

\* Two bounds; durations of 0, below, on, between and above them, and an invalid
\* one.
MCBounds == <<2, 4>>
MCDurations == {-1, 0, 1, 2, 3, 5}

Symmetry == Permutations(Workers) \union Permutations(ValidSeries)
=============================================================================
