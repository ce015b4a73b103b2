SPECIFICATION Spec
CONSTANTS
    m1 = m1
    m2 = m2
    r1 = r1
    r2 = r2
    Fee = Fee
    Unmatched = Unmatched
    NoTime = NoTime
    Members = {m1}
    Founders = {m1}
    Reports = {r1}
    ActivatedAt <- MCActivatedAt
    WaitingTime = 1
    Nominated = {m1}
    FeeTime = 1
    DueTime = 1
    InactiveAfter = 1
    MaxTime = 1
CHECK_DEADLOCK FALSE
INVARIANTS
    VerifiedDeathIsDurable
