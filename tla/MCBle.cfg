CONSTANTS
    Devices = {d1, d2}
    MaxOps = 3
SPECIFICATION Spec
SYMMETRY Symmetry
INVARIANTS
    TypeOK
    NoStall
    MemorySound
    LinksKnown
    RequestsKeepDevice
    RequestedScanResumes
CHECK_DEADLOCK FALSE
