\* The first candidate is rejected locally, nothing fails.
SPECIFICATION FairSpec
CONSTANTS
    Jobs <- MCJobs
    Primaries <- MCPrimaries
    PartitionOf <- MCPartitionOf
    Quota <- MCQuota
    Rejected = {1}
    ExpiresAt <- MCExpiresAt
    NotAfter = 4
    Slots <- MCSlots
    MaxCalls = 2
    MaxGpu = 2
    CallTime = 2
    Margin = 3
    LookSpan = 1
    CallSpan = 2
    TickSpan = 1
    Procs = {p}
    MaxNonces = 2
    MaxTime = 5
    MaxFaults = 0
PROPERTIES DrainsAdmittedWork
CHECK_DEADLOCK FALSE
