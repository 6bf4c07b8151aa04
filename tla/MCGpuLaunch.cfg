\* Two slots for a train job, its fanout and two teacher runs that expire, one fault.
SPECIFICATION FairSpec
CONSTANTS
    train = train
    fanout = fanout
    teacher = teacher
    second = second
    NoDispatch = NoDispatch
    Dispatches = {train, fanout, teacher, second}
    Trains = {train}
    Parent <- FanoutAfterTrain
    Expiry <- Deadlines
    Cap = 2
    MaxTime = 1
    MaxFaults = 1
INVARIANTS ChainComplete UnionBounded OneIntent
PROPERTIES IntentsSettle PointersRetire ImplementsLifecycle
CHECK_DEADLOCK FALSE
