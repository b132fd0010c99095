SPECIFICATION Spec
CONSTANTS
    CPU = {c0, c1}
    Task = {t0, t1, t2}
    Masks = {}
    TimerCpu = c0
    Interrupted = {c0, c1}
    LeaveIrqs = {TRUE, FALSE}
    NoCpu = NoCpu
    NoTask = NoTask
SYMMETRY TaskSymmetry
INVARIANTS
    NoLostWakeup
