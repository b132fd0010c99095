SPECIFICATION Spec
CONSTANT Running <- PipeAlone
INVARIANT NoSelfDeadlock
CHECK_DEADLOCK FALSE
