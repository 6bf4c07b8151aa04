\* Three traces, a budget and a queue that overflow, one flush, two failed puts.
SPECIFICATION FairSpec
CONSTANTS
    small = small
    large = large
    alien = alien
    first = first
    Nobody = Nobody
    Traces = {small, large, alien}
    Foreign = {alien}
    Bytes <- Sizes
    Hour <- OccurredIn
    Hours = {1, 2}
    Flushes = {first}
    SingleScope = TRUE
    Budget = 3
    Slots = 2
    BatchLimit = 2
    MaxFaults = 2
INVARIANTS TypeOK CountedOnce NothingLost FlushHonest BudgetConserved
PROPERTIES FlushAnswered QueuedCounted
CHECK_DEADLOCK FALSE
