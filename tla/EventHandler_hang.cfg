CONSTANTS
    d1 = d1  d2 = d2
    Dispatches = {d1, d2}
    Channelled = {d1}
    Parent <- Nested
    NoTask = NoTask
    Off = Off  Select = Select
    Workers = {w1}
    QueueCap = 2
    MaxListeners = 1
    MaxFlushes = 1
    Orderly = TRUE
SPECIFICATION FairSpec
PROPERTIES FlushReturns
CHECK_DEADLOCK FALSE
