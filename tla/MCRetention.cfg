\* A trace and two submissions of its outcome, with cancelled writes and crashes.
SPECIFICATION FairSpec
CONSTANTS
    trace = trace
    outcome = outcome
    capture = capture
    first = first
    second = second
    Nothing = Nothing
    Writers = {capture, first, second}
    Sources = {trace, outcome}
    Traces = {trace}
    SourceOf <- Stores
    TraceOf <- Concerns
    Keep = 2
    Span = 1
    Grace = 2
    BatchLimit = 2
    LastStart = 2
    MaxTime = 5
    MaxFaults = 1
INVARIANTS SourcesIndexed DeletedForGood
PROPERTIES KeptUntilDue DueExpires
CHECK_DEADLOCK FALSE
