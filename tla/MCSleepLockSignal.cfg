SPECIFICATION Spec
CONSTANTS
    Thread = {t1, t2}
    NoThread = NoThread
    Signals = TRUE
    GroupExits = FALSE
INVARIANTS
    Mutex
