SPECIFICATION FairSpec
CONSTANTS
    e1 = e1
    e2 = e2
    e3 = e3
    p1 = p1
    p2 = p2
    Events = {e1, e2, e3}
    PaymentIds = {p1, p2}
    PaymentOf <- MCPaymentOf
    Captures = {e1, e3}
    Deliveries = {1, 2, 3, 4}
    EventOf <- MCEventOf
    MaxCrashes = 2
CHECK_DEADLOCK FALSE
INVARIANTS
    TypeOK
    OneReceipt
    ProcessedTookEffect
PROPERTIES
    CaptureTakesEffect
