CONSTANTS
    d1 = d1  d2 = d2
    Dispatches = {d1, d2}
    Channelled = {d1}
    Parent <- Flat
    NoTask = NoTask
    Off = Off  Select = Select
    Workers = {w1}
    QueueCap = 1
    MaxListeners = 2
    MaxFlushes = 2
    Orderly = TRUE
SPECIFICATION FairSpec
INVARIANTS TypeOK ClosedMeansComplete FlushComplete
PROPERTIES FlushReturns EveryTaskRuns
CHECK_DEADLOCK FALSE
