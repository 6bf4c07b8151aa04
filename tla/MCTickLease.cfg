\* Timers on time, one clock ahead by the whole margin the durations leave.
SPECIFICATION Spec
CONSTANTS
    t1 = t1
    t2 = t2
    t3 = t3
    Tickers = {t1, t2, t3}
    TTL = 4
    IOTimeout = 1
    MutationTimeout = 1
    Skew <- OneAhead
    Lag = 0
    LastStart = 3
    NoTicker = NoTicker
SYMMETRY Symmetry
INVARIANT MutatorOwnsLease
PROPERTY TakeTurns
CHECK_DEADLOCK FALSE
