SPECIFICATION StatusFairSpec
CONSTANTS
    Period <- ledStrobeArr
INVARIANTS
    TypeOK
    BlinksInTime
    SessionTypeOK
    EventsBounded
    ReportsOnlyWhileConnected
PROPERTIES
    ReachesServer
    BlinksWithoutWifi
