SPECIFICATION Spec
CONSTANTS
    Bounds <- MCBounds
    Series = {s1, s2, bad}
    ValidSeries = {s1, s2}
    Names = {n1, wrong}
    ValidNames = {n1}
    Workers = {w1, w2}
    Durations <- MCDurations
    Values = {0, 2}
    MaxCalls = 4
SYMMETRY Symmetry
INVARIANTS
    SnapshotsValid
    ExpositionCounts
    CollectorsAgree
CHECK_DEADLOCK FALSE
