CONSTANT QueueLen = 3
SPECIFICATION Spec
INVARIANT ReassociationHandled
CHECK_DEADLOCK FALSE
