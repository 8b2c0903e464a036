CONSTANTS
    QueueLen = 2
    LongPress = 3
    Half = 8
    Latency = 2
    MaxTime = 20
SPECIFICATION Spec
INVARIANTS
    KeyFollowed
    ResultMatchesHold
CHECK_DEADLOCK FALSE
