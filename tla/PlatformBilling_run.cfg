SPECIFICATION MCSpec
CONSTANTS
    LongMonth = 2
    ShortMonth = 1
    Subs = {s1, s2, s3}
    Claims = {d1, d2}
    Keys = {k1}
    ClickTxs = {c1}
    PaymeTxs = {p1}
    basic = basic
    pro = pro
    Plans = {basic, pro}
    Price <- MCPrice
    Requests = {r1, r2}
    Passes = {}
    AdminPlans = {}
    AdminStatuses = {}
    NoTx = NoTx
    NoSub = NoSub
    NoKey = NoKey
    Timeout = 1
    Grace = 1
    MonthsBack = 1
    MonthsAhead = 1
    MaxTime = 2
    MaxMonth = 1
SYMMETRY RowSymmetry
INVARIANTS OneLiveInvoice ProviderAgrees PaidAtItsPrice ConfirmedReceiptsStand
PROPERTIES PaymeStatesAdvance ImplementsPaidTime
CHECK_DEADLOCK FALSE
