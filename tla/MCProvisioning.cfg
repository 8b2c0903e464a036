CONSTANTS
    LoopLen = 2
    QueueLen = 1
SPECIFICATION FairSpec
INVARIANTS
    TypeOK
    UserHasStack
    FlagIsBlufis
PROPERTIES
    OwnerKeepsBluetooth
    AssociationReachesGateway
    BluetoothServed
    ListRequestEnds
CHECK_DEADLOCK FALSE
