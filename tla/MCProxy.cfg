\* Three requests for two permits of the gateway and one of the candidate.
SPECIFICATION Spec
CONSTANTS
    Requests = {q1, q2, q3}
    MaxInFlight = 2
    CandidateLimit = 1
    MaxRuntimes = 2
SYMMETRY Symmetry
INVARIANTS WithinLimits TracedOnce RouteHonest FuseToBlame
CHECK_DEADLOCK FALSE
