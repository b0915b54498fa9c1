SPECIFICATION FairSpec
CONSTANTS
    None = None
    Codes = {c1}
    Requests = {r1, r2}
    Stripes = 2
    StripeOf <- MCStripeOf
    Flights = {f1, f2}
    MaxFaults = 2
INVARIANTS
    RedirectsRight
    ClicksBalanced
PROPERTIES
    ClicksLeave
CHECK_DEADLOCK FALSE
