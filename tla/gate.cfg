SPECIFICATION FairSpec
CONSTANTS
    goodKey = goodKey
    badKey = badKey
    public = public
    private = private
    None = None
    Clients = {i1}
    Requests = {r1, r2}
    Maximum = 2
    Window = 2
    Bodies <- AllBodies
    ValidKeys = {goodKey}
    Unsafe = {private}
    Answers <- MCAnswers
    MaxChecks = 7
    MaxClock = 3
    MaxFaults = 1
INVARIANTS
    QuotaHolds
PROPERTIES
    QuotaReturns
