SPECIFICATION LiveSpec
CONSTANTS
    w1 = w1
    w2 = w2
    j1 = j1
    j2 = j2
    Workers = {w1, w2}
    Jobs = {j1, j2}
    None = None
    MaxAttempts = 2
    Duration = 8
    Second = 2
    ChildCodes = {1}
    Starts <- SomeStarts
    MaxClock = 8
    MaxFaults = 2
INVARIANTS
    StopHonoured
    LeaseOutlivesMisses
PROPERTIES
    OutcomesTrue
    DeadWasTried
    ThreadsEnd
CHECK_DEADLOCK FALSE
