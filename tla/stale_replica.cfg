SPECIFICATION ReplicaSpec
CONSTANTS
    GenCodes = {g1, g2}
    AliasCodes = {}
    Targets = {t1}
    LongTargets = {}
    Instants = {i1}
    Expiries = {FALSE}
    Nil = Nil
    Tokens = {k1, k2, k3}
    MaxPendingPerShard = 3
    DeadCap = 2
    Workers = {w1}
    BatchSize = 2
    MaxBatches = 2
    Readers = {}
    Requests = {r1, r2}
    MaxAttempts = 1
    MaxFaults = 0
INVARIANT NoAckedLinkLost
CHECK_DEADLOCK FALSE
