SPECIFICATION Spec
CONSTANTS
    GenCodes = {g1}
    AliasCodes = {}
    Targets = {t1}
    LongTargets = {}
    Instants = {i1}
    Expiries = {TRUE}
    Nil = Nil
    Tokens = {k1, k2}
    MaxPendingPerShard = 2
    DeadCap = 2
    Workers = {w1}
    BatchSize = 2
    MaxBatches = 2
    Readers = {d1}
    Requests = {r1}
    MaxAttempts = 2
    MaxFaults = 0
INVARIANT PendingNeverEvicted
CHECK_DEADLOCK FALSE
