SPECIFICATION BaseSpec
CONSTANTS
    Running <- All
    Context = {"a", "b", "early"}
    CpuOf <- FrameContexts
    FrameCpu = {1, 2}
    NoCpu = 0
    Frames = 3
    Tracker = {k1, k2}
    FRAME_CACHE_CAPACITY = 1
    FRAME_CACHE_BATCH = 2
    Thread = {t1, t2, t3}
    Interruptible = {t1, t2, t3}
    Reader = {"r", "s"}
    PlainStore = {}
    MaxPublish = 2
    MaxBuffer = 0
    TaskCount = 2
    Sender = {"k"}
    Sig = {10, 17}
    Deliverable = {10, 17}
    Action <- PollActions
    Dispositions <- PollDispositions
    MaskChoices = {{}, {10}}
    WantChoices = {{10}}
    Calls <- PollCalls
    Sends <- PollSends
    MaxSends = 1
    MaxActions = 2
    IsInit = FALSE
    FrameFaults = FALSE
    Smp = TRUE
INVARIANTS
    FramesExact
    AddressSpaceExact
    PagesShowData
    FileReadsCurrent
    CachePinsExact
    SharedStoresKept
    SegmentsExact
    TmpfsExact
    Exclusion
    CountersExact
    NoIdleQueue
    OwnersWoken
    ReadsAreFresh
    NoUseAfterRelease
    FutexesSound
    SignalsInterrupt
    SignalsSound
PROPERTIES
    SealsHold
CHECK_DEADLOCK FALSE
