CONSTANTS
    m0 = m0  m1 = m1  m2 = m2  i1 = i1  i2 = i2
    Msgs = {m1, m2}
    Ids = {i1}
    NoId = NoId
    IdOf <- OneId
    Procs = {p1, p2}
    NoProc = NoProc
    Delayed = {}
    Malformed = {}
    Unhandled = {}
    MaxDelivery = 2
    Concurrency = 1
    ProcessLogEnabled = TRUE
    Env = {"fault", "crash"}
SYMMETRY Interchangeable
SPECIFICATION Spec
INVARIANTS TypeOK SingleHolder SettledOnce RemovedOnlyIfSettled
PROPERTIES MarkStays ImplementsJobOnce
CHECK_DEADLOCK FALSE
