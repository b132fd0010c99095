SPECIFICATION Spec
CONSTANTS
    CPU = {c0, c1}
    Task = {t0, t1}
    Masks = {{c0}, {c1}}
    TimerCpu = c0
    Interrupted = {c1}
    LeaveIrqs = {TRUE}
    NoCpu = NoCpu
    NoTask = NoTask
SYMMETRY TaskSymmetry
INVARIANTS
    OneHolder
    NoFault
    NoLostRemoteWake
