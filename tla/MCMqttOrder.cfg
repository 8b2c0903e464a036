CONSTANTS
    Topics = {t1}
    Messages = {m1, m2}
    MaxEntries = 2
SPECIFICATION Spec
SYMMETRY Symmetry
INVARIANT QueueKeepsOrder
CHECK_DEADLOCK FALSE
