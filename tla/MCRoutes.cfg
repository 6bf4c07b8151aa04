\* Three routes of two proposals that qualify and one that does not; a put of the pointer outlives its publication.
SPECIFICATION FairSpec
CONSTANTS
    Operators = 1
    Proposals = {p, q, u}
    Qualified = {p, q}
    Keys = {1}
    Credentials = {1, 2}
    CandidateSpan = 1
    ZeroSpan = 1
    StartDelay = 1
    Lag = 1
    MaxRoutes = 3
    MaxTime = 1
    MaxFaults = 1
INVARIANTS LineOfRoutes LiveComplete ServedOnPurpose
PROPERTIES ZeroTakesEffect
CHECK_DEADLOCK FALSE
