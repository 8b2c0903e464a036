SPECIFICATION Spec
CONSTANTS
    ImageLen = 3
    MaxDownloads = 2
INVARIANTS
    TypeOK
    ActiveIsWhole
    FirmwareBoots
    SuccessInstalls
    HandleSound
CHECK_DEADLOCK FALSE
