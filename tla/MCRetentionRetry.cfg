\* A submission is cancelled between its marker and its object, and retried.
SPECIFICATION FairSpec
CONSTANTS
    trace = trace
    outcome = outcome
    capture = capture
    first = first
    second = second
    Nothing = Nothing
    Writers = {capture, first, second}
    Sources = {trace, outcome}
    Traces = {trace}
    SourceOf <- Stores
    TraceOf <- Concerns
    Keep = 2
    Span = 1
    Grace = 2
    BatchLimit = 3
    LastStart = 1
    MaxTime = 5
    MaxFaults = 1

PROPERTY ExpiryDrains
CHECK_DEADLOCK FALSE
