SPECIFICATION Spec
CONSTANTS
    Updates <- MCOneUpdate
    QueueLength = 2
    None = None
INVARIANTS
    CommandsTakeEffect
