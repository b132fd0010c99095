SPECIFICATION JSpec
CONSTANTS
    CPU = {c0, c1}
    Task = {t0}
    Masks = {}
    TimerCpu = c0
    Interrupted = {}
    LeaveIrqs = {TRUE, FALSE}
    NoCpu = NoCpu
    NoTask = NoTask
    Sender = {s0}
    MaxSignals = 2
INVARIANTS
    NoFault
CHECK_DEADLOCK FALSE
