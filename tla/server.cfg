SPECIFICATION FairSpec
CONSTANTS
    Codes = {"c1", "c2"}
    Shards = {"s1", "s2"}
    Assigned = {"s1"}
    ShardOf <- MCShardOf
    Refused = {"c2"}
    PerTick = 1
    MaxFaults = 1
    MaxPendingClicks = 2
    MaxUnmatchedAttempts = 2
    MaxClicks = 1
    MaxRejects = 1
INVARIANTS
    TypeOK
    LastTickSyncs
    ShutdownInOrder
PROPERTIES
    BacklogDrains
    ServerStops
CHECK_DEADLOCK FALSE
