SPECIFICATION MCSpec
CONSTANTS
    e1 = e1
    r1 = r1
    r2 = r2
    k1 = k1
    c1 = c1
    m1 = m1
    a1 = a1
    a2 = a2
    b1 = b1
    b2 = b2
    q1 = q1
    q2 = q2
    NoId = NoId
    Price <- MCPrice
    IdOf <- MCIdOf
    NumInvoices = 2
    NumPayments = 3
    Enrollments = {e1}
    Amounts = {1, 2}
    Discounts = {1}
    Methods = {"CASH"}
    DeskStatuses = {"PAID","PENDING"}
    Keys = {k1}
    Receipts = {r1, r2}
    LegacyReceipts = {r1}
    ClickLinks = {c1}
    PaymeLinks = {m1}
    Requests = {q1, q2}
INVARIANTS DiscountsCount
CHECK_DEADLOCK FALSE
