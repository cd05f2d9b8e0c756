SPECIFICATION FairSpec
CONSTANTS
    Updates <- MCUpdates
    QueueLength = 2
    None = None
INVARIANTS
    TypeOK
    LastCommandWins
PROPERTIES
    MqttGoesOn
