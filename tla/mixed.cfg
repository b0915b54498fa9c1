SPECIFICATION Spec
CONSTANTS
    GenCodes = {x1, g1}
    AliasCodes = {x1}
    Targets = {t1, t2, long1}
    LongTargets = {long1}
    Instants = {i1, i2}
    Expiries = {TRUE, FALSE}
    Nil = Nil
    Tokens = {k1, k2}
    MaxPendingPerShard = 2
    DeadCap = 2
    Workers = {w1}
    BatchSize = 2
    MaxBatches = 2
    Readers = {d1}
    Requests = {r1, r2}
    MaxAttempts = 2
    MaxFaults = 1
SYMMETRY Symmetry
INVARIANTS
    QueueCodesDistinct
    CacheCoherent
    PendingFlagBacked
    PendingVisible
    OneOwnerPerCode
PROPERTIES
    ImplementsLedger
CHECK_DEADLOCK FALSE
