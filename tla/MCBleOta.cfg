SPECIFICATION Spec
CONSTANTS
    ImageLen = 3
    Sizes = {1, 2}
    MaxAttempts = 4
INVARIANTS
    TypeOK
    CompleteImageBoots
    DataIsData
    CleanSessionInstalls
    HandleSound
PROPERTY AnsweredOrLost
CHECK_DEADLOCK FALSE
