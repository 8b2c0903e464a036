CONSTANT QueueLen = 3
SPECIFICATION FairSpec
INVARIANTS
    TypeOK
    ScanFollowsSession
    NoClientWithoutStation
PROPERTIES
    GatewayReturns
    SessionLeadsToScan
CHECK_DEADLOCK FALSE
