SPECIFICATION FilesSpec
CONSTANTS
    Thread = {t1, t2, t3, t4}
    NoThread = NoThread
    Signals = TRUE
    GroupExits = TRUE
INVARIANTS
    MutexUntilSignal
    WritesKept
    ReadsCurrent
    NamesExact
    MountsSound
    EventsKept
    RequestsServed
PROPERTIES
    FifoHandoff
CHECK_DEADLOCK FALSE
