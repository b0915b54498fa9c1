SPECIFICATION FairSpec
CONSTANTS
    p1 = p1
    p2 = p2
    c1 = c1
    c2 = c2
    c3 = c3
    c4 = c4
    c5 = c5
    Processes <- MCProcesses
    Callers <- MCCallers
    Home <- MCHome
    BlockSize = 2
    CodeSpace = 9
    MaxFaults = 3
    None = None
    HalfBits = 2
    Rounds = 3
    Base = 3
    CodeLength = 2
    Mixers <- MCMixers
INVARIANTS
    TypeOK
    IdsUnique
    ReservationsServe
    CodesCorrect
PROPERTIES
    CallsEnd
CHECK_DEADLOCK FALSE
