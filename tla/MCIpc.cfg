SPECIFICATION Spec
CONSTANT Running <- All
INVARIANTS
    SleepersMustWait
    TrafficExact
    TablesAgree
    EventsCounted
    LocksReleasable
CHECK_DEADLOCK FALSE
