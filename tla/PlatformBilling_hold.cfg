SPECIFICATION Spec
CONSTANTS
    LongMonth = 2
    ShortMonth = 1
    Subs = {s1, s2}
    Claims = {}
    Keys = {}
    ClickTxs = {}
    PaymeTxs = {}
    basic = basic
    pro = pro
    Plans = {basic, pro}
    Price <- MCPrice
    Requests = {}
    Passes = {w1}
    AdminPlans = {basic}
    AdminStatuses = {"ACTIVE", "SUSPENDED"}
    NoTx = NoTx
    NoSub = NoSub
    NoKey = NoKey
    Timeout = 1
    Grace = 1
    MonthsBack = 1
    MonthsAhead = 1
    MaxTime = 6
    MaxMonth = 2
INVARIANTS AdminSuspensionStands
CHECK_DEADLOCK FALSE
