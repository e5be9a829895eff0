SPECIFICATION MCFreeSpec
CONSTANTS
    r1 = r1
    r2 = r2
    w1 = w1
    w2 = w2
    Workers = {w1, w2}
    Recipients = {r1}
    Ends = {0, 1}
    AdminStatuses = {}
    PurgeAfter = 1
    Lead = 1
    LastLead = 1
    LastGap = 1
    Lock = 0
    RetryDelay = 1
    MaxAttempts = 1
    MaxTime = 2
    MaxCycles = 1
    MaxFaults = 0
SYMMETRY Symmetric
INVARIANTS CancelledStaysCancelled
CHECK_DEADLOCK FALSE
