SPECIFICATION FairSpec
CONSTANTS
    ShortTime = 50
    LongTime = 300
    HoldTime = 300
    RepeatTime = 5
INVARIANTS
    TypeOK
    OneTogglePerPress
PROPERTIES
    ImplementsButton
    HoldRestarts
