SPECIFICATION JFairSpec
CONSTANTS
    CPU = {c0, c1}
    Task = {t0}
    Masks = {}
    TimerCpu = c0
    Interrupted = {}
    LeaveIrqs = {TRUE}
    NoCpu = NoCpu
    NoTask = NoTask
    Sender = {s0}
    MaxSignals = 1
PROPERTIES
    StopReported
CHECK_DEADLOCK FALSE
