SPECIFICATION FairSpec
CONSTANTS
    FdSetSize = 64
    NumSockets = 10
    Packets = 30
INVARIANTS
    TypeOK
    SocketsOwned
    OneSocketEach
PROPERTIES
    MqttComesBack
