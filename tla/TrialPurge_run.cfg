SPECIFICATION MCSpec
CONSTANTS
    r1 = r1
    r2 = r2
    w1 = w1
    w2 = w2
    Workers = {w1, w2}
    Recipients = {r1, r2}
    Ends = {0, 1}
    AdminStatuses = {"TRIAL", "ACTIVE"}
    PurgeAfter = 1
    Lead = 1
    LastLead = 1
    LastGap = 1
    Lock = 0
    RetryDelay = 1
    MaxAttempts = 2
    MaxTime = 2
    MaxCycles = 1
    MaxFaults = 1
SYMMETRY Symmetric
INVARIANTS TypeOK
PROPERTIES ToldInThisCycle DeletedAsTold PaidIsKept
CHECK_DEADLOCK FALSE
