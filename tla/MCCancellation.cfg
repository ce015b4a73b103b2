SPECIFICATION CancellationSpec
CONSTANTS
    m1 = m1
    due1 = due1
    k1 = k1
    k2 = k2
    c1 = c1
    c2 = c2
    e1 = e1
    NoDue = NoDue
    NoOrder = NoOrder
    Members = {m1}
    Dues = {due1}
    Keys = {k1}
    Calls = {c1, c2}
    Events = {e1}
    Owner <- MCOwner
    Purpose <- MCPurpose
    Amount <- MCAmount
    EventOf <- MCEventOf
    CreditAmounts = {1, 2}
    MaxCredit = 2
    MaxTime = 2
SYMMETRY Interchangeable
INVARIANTS
    CancellationTypeOK
    SettledContributionsAreReversed
    ReversalsAreOnTheBooks
    ReversalAgreesWithRefund
