SPECIFICATION FairSpec
CONSTANTS
    GenCodes = {g1, g2}
    AliasCodes = {}
    Targets = {t1}
    LongTargets = {}
    Instants = {i1}
    Expiries = {FALSE}
    Nil = Nil
    Tokens = {k1, k2, k3}
    MaxPendingPerShard = 2
    DeadCap = 2
    Workers = {w1, w2}
    BatchSize = 2
    MaxBatches = 2
    Readers = {}
    Requests = {r1, r2}
    MaxAttempts = 1
    MaxFaults = 2
INVARIANTS
    TypeOK
    HolderSeesHead
    NoAckedLinkLost
PROPERTIES
    EntriesLeaveAfterCommit
    QueueDrains
CHECK_DEADLOCK FALSE
