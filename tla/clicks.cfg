SPECIFICATION BufferFairSpec
CONSTANTS
    Codes = {c1, c2}
    MaxPendingClicks = 2
    MaxUnmatchedAttempts = 2
    MaxClicks = 3
    MaxRejects = 2
INVARIANTS
    BufferConsistent
    ClicksConserved
    CloseDrains
PROPERTIES
    BufferSettles
CHECK_DEADLOCK FALSE
