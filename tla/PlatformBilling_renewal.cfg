SPECIFICATION MCRenewal
CONSTANTS
    LongMonth = 2
    ShortMonth = 1
    Subs = {s1, s2}
    Claims = {d1}
    Keys = {}
    ClickTxs = {}
    PaymeTxs = {p1}
    basic = basic
    pro = pro
    Plans = {basic}
    Price <- MCPrice
    Requests = {r1}
    Passes = {w1}
    AdminPlans = {basic}
    AdminStatuses = {"ACTIVE", "SUSPENDED"}
    NoTx = NoTx
    NoSub = NoSub
    NoKey = NoKey
    Timeout = 1
    Grace = 1
    MonthsBack = 1
    MonthsAhead = 1
    MaxTime = 6
    MaxMonth = 1
PROPERTIES PassOnlyLowersUnpaid GraceEnds
CHECK_DEADLOCK FALSE
