SPECIFICATION Spec
CONSTANTS
    Aps = {ap1}
    Zones = {zone1}
    Names = {name1}
    Keys = {key1}
    None = None
    Default = Default
INVARIANTS
    TypeOK
    StoredIsCurrent
    StoredWholeUnlessOverlap
    ResetBringsBlufi
