CONSTANTS
    NMsgs = 5
    Workers = {w1, w2}
    Drivers = {"nats", "asynq"}
    AsynqSlots = 5
    NoMsg = NoMsg
    Off = Off
    Requeues = TRUE
SPECIFICATION FairSpec
INVARIANTS TypeOK DrainComplete
PROPERTIES ServedWhileUp TaskEnds
CHECK_DEADLOCK FALSE
