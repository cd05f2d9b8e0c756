SPECIFICATION FairSpec
CONSTANTS
    Commands <- MCCommands
    SaveDelay = 2
    RestartDelay = 1
    NoBlob = NoBlob
INVARIANTS
    TypeOK
    CountdownBounded
    SavePending
    PinsFollowMask
PROPERTIES
    OnlySaveEndsCountdown
    ImplementsDurableMask
    EventuallySaved
    EventuallyShown
