SPECIFICATION RefundSpec
CONSTANTS
    m1 = m1
    plan1 = plan1
    due1 = due1
    k1 = k1
    k2 = k2
    c1 = c1
    c2 = c2
    NoDue = NoDue
    NoOrder = NoOrder
    Members = {m1}
    Dues = {plan1}
    Keys = {k1}
    Calls = {c1}
    Owner <- MCOwner
    Purpose <- MCPurpose
    Amount <- MCAmount
    CreditAmounts = {2}
    MaxCredit = 2
    MaxTime = 3
INVARIANTS
    LegGivenBackOnce
