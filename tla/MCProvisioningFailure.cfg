CONSTANTS
    LoopLen = 2
    QueueLen = 1
SPECIFICATION Spec
INVARIANT FailureRetried
CHECK_DEADLOCK FALSE
