\* Processes stalled long past their timers and their lease: the lease record
\* stays consistent although the mutations may overlap.
SPECIFICATION FairSpec
CONSTANTS
    t1 = t1
    t2 = t2
    t3 = t3
    Tickers = {t1, t2}
    TTL = 4
    IOTimeout = 1
    MutationTimeout = 1
    Skew <- OneAhead
    Lag = 3
    LastStart = 3
    NoTicker = NoTicker
INVARIANT ActionLeavesNoLease
PROPERTIES LeaseHandover EveryTickEnds
CHECK_DEADLOCK FALSE
