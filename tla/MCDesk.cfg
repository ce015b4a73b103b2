SPECIFICATION DeskSpec
CONSTANTS
    m1 = m1
    m2 = m2
    r1 = r1
    r2 = r2
    a1 = a1
    a2 = a2
    co1 = co1
    p1 = p1
    f1 = f1
    f2 = f2
    k1 = k1
    Fee = Fee
    Unmatched = Unmatched
    NoTime = NoTime
    NoKey = NoKey
    NoCase = NoCase
    Nobody = Nobody
    NoCondolence = NoCondolence
    Members = {m1}
    Founders = {m1}
    Reports = {r1}
    ActivatedAt <- MCActivatedAt
    WaitingTime = 0
    Nominated = {m1, m2}
    FeeTime = 5
    DueTime = 5
    InactiveAfter = 1
    MaxTime = 0
    Reporters = {p1}
    StorageKeys = {f1, f2}
    MaxFiles = 2
    Administrators = {a1, a2}
    Coordinators = {co1}
    CoordinatorOf <- MCCoordinatorOf
    Condolences = {k1}
CHECK_DEADLOCK FALSE
SYMMETRY Interchangeable
INVARIANTS
    DeskTypeOK
    EvidenceMatchesDisk
    ToldIsAttached
    ToldStands
