CONSTANT QueueLen = 3
SPECIFICATION Spec
INVARIANT StoppedStaysStopped
CHECK_DEADLOCK FALSE
