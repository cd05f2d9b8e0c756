SPECIFICATION FairSpec
CONSTANTS
    None = None
    Networks <- MCNetworks
    Length <- MCLength
    NvsFails = TRUE
INVARIANTS
    TypeOK
    PairsTogether
    StoresWhatItUses
PROPERTIES
    SmartConfigStops
