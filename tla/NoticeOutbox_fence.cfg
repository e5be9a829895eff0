SPECIFICATION Spec
CONSTANTS
    n1 = n1
    n2 = n2
    w1 = w1
    w2 = w2
    Notices = {n1}
    Workers = {w1, w2}
    MaxAttempts = 2
    Limit = 1
    NoNotice = NoNotice
    NoWorker = NoWorker
    MaxFaults = 2
PROPERTIES
    LateResultsAreDropped
