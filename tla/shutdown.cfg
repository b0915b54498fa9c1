SPECIFICATION FairSpec
CONSTANTS
    LinkKeyShards = 5
    WorkerCount = 2
    MaxForks = 4
    MaxEvents = 1
    Renders = {}
    None = None
    MaxFaults = 2
    MayStop = TRUE
INVARIANTS
    ShardsHaveOneWorker
    GracefulExitDelivers
PROPERTIES
    ShutdownEnds
CHECK_DEADLOCK FALSE
