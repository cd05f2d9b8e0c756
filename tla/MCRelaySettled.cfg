SPECIFICATION Spec
CONSTANTS
    Commands <- MCOneCommand
    SaveDelay = 2
    RestartDelay = 1
    NoBlob = NoBlob
INVARIANTS
    SettledPinsShowMask
