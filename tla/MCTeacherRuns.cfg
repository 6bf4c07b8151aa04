\* A run of two calls, a second after it, one fault of any kind.
SPECIFICATION Spec
CONSTANTS
    Jobs <- MCJobs
    Primaries <- MCPrimaries
    PartitionOf <- MCPartitionOf
    Quota <- MCQuota
    Rejected = {}
    ExpiresAt <- MCExpiresAt
    NotAfter = 4
    Slots <- MCSlots
    MaxCalls = 2
    MaxGpu = 2
    CallTime = 2
    Margin = 3
    LookSpan = 1
    CallSpan = 2
    TickSpan = 1
    Procs = {p, q}
    MaxNonces = 2
    MaxTime = 5
    MaxFaults = 1
INVARIANTS CallOnce RunResultsVerifiable OneRunPerCall NoSurplus
PROPERTY ImplementsCalls
SYMMETRY Symmetry
CHECK_DEADLOCK FALSE
