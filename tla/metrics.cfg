SPECIFICATION FairSpec
CONSTANTS
    LinkKeyShards = 3
    WorkerCount = 2
    MaxForks = 3
    MaxEvents = 2
    Renders = {r1}
    None = None
    MaxFaults = 1
    MayStop = FALSE
INVARIANTS
    CollectionsConsistent
    EventsConserved
    AnswersComplete
PROPERTIES
    RendersSettle
CHECK_DEADLOCK FALSE
