CONSTANTS
    m0 = m0  m1 = m1  m2 = m2  i1 = i1  i2 = i2
    Msgs = {m0, m1, m2}
    Ids = {i1, i2}
    NoId = NoId
    IdOf <- OwnId
    Procs = {p1, p2}
    NoProc = NoProc
    Delayed = {m2}
    Malformed = {m1}
    Unhandled = {m2}
    MaxDelivery = 2
    Concurrency = 1
    ProcessLogEnabled = TRUE
    Env = {"expiry"}
SYMMETRY Interchangeable
SPECIFICATION Spec
INVARIANTS NoOrphanClaims RemovedOnlyIfSettled
CHECK_DEADLOCK FALSE
