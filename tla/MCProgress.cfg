SPECIFICATION ProgressSpec
CONSTANTS
    CPU = {0, 1}
    IrqLock = {la, lb}
    Action = {memory}
    MaxSequence = 2
    IpiMayFail = TRUE
INVARIANTS
    RequestsAreLive
PROPERTIES
    Rendezvous
    WaitsEnd
CHECK_DEADLOCK FALSE
