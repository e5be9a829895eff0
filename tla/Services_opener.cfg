SPECIFICATION MCSpec
CONSTANTS
    y1 = y1
    y2 = y2
    t1 = t1
    a1 = a1
    a2 = a2
    l1 = l1
    x1 = x1
    x2 = x2
    h1 = h1
    h2 = h2
    z1 = z1
    z2 = z2
    c1 = c1
    c2 = c2
    c3 = c3
    c4 = c4
    n1 = n1
    n2 = n2
    m1 = m1
    m2 = m2
    e1 = e1
    e2 = e2
    d1 = d1
    d2 = d2
    Syncers = {y1, y2}
    Tabs = {t1}
    Accounts = {a1, a2}
    WorkOf = a1
    Lessons = {l1}
    NoAccount = NoAccount
    NoSyncer = NoSyncer
    MaxContent = 1
    MaxConns = 2
    MaxClock = 1
    MaxSyncFaults = 0
    Centers = {x1, x2}
    MessageKeys = {h1, h2}
    Senders = {z1, z2}
    PerCenter = 1
    TotalSms = 1
    MaxTries = 2
    MaxSmsMonth = 1
    Calls = {c1, c2, c3, c4}
    OutgoingCalls = {c3}
    Numbers = {n1, n2}
    NumberOf <- MCNumberOf
    StudentNumbers = {n2}
    Extensions = {e1, e2}
    Users = {m1, m2}
    UserOf <- MCUserOf
    Requests = {d1, d2}
    NoUser = NoUser
    NoExtension = NoExtension
    NoCall = NoCall
    MaxEvents = 4
    MaxCallFaults = 0
    s1 = s1
    s2 = s2
    g1 = g1
    g2 = g2
    r1 = r1
    r2 = r2
    r3 = r3
    w1 = w1
    w2 = w2
    am = am
    pm = pm
    Students = {s1, s2}
    Teachers = {w1, w2}
    Groups = {g1, g2}
    Schedules = {r1, r2, r3}
    Slots = {am, pm}
    GroupOf <- MCGroupOf
    TeacherOf <- MCTeacherOf
    OneOff = {r3}
    Planned <- MCPlanned
    Members <- MCMembers
    FreeSeats <- MCFreeSeats
    MaxCredits = 2
    MaxEdits = 3
INVARIANTS OpenedIsMarked
CHECK_DEADLOCK FALSE
