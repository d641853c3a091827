CONSTANTS
    NMsgs = 2
    Workers = {w1}
    Drivers = {"nats"}
    AsynqSlots = 1
    NoMsg = NoMsg
    Off = Off
    Requeues = FALSE
SPECIFICATION FairSpec
PROPERTIES ConsumeReturns
CHECK_DEADLOCK FALSE
