CONSTANTS
    Topics = {t1, t2}
    Messages = {m1, m2}
    MaxEntries = 3
SPECIFICATION Spec
SYMMETRY Symmetry
INVARIANTS
    TypeOK
    MemorySound
    MessageReachesSubscribers
    QueuedUntilOffered
PROPERTIES
    PublishesAtMostOnce
CHECK_DEADLOCK FALSE
