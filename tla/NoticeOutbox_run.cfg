SPECIFICATION MCSpec
CONSTANTS
    n1 = n1
    n2 = n2
    w1 = w1
    w2 = w2
    Notices = {n1, n2}
    Workers = {w1, w2}
    MaxAttempts = 2
    Limit = 2
    NoNotice = NoNotice
    NoWorker = NoWorker
    MaxFaults = 2
INVARIANTS
    CopiesHaveCause
    AttemptsBounded
    KickIsOnItsWay
PROPERTIES
    SentStays
    Settles
