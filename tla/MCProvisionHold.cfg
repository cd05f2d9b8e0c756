SPECIFICATION Spec
CONSTANTS
    None = None
    Networks <- MCOneNetwork
    Length <- MCOneLength
    NvsFails = FALSE
INVARIANTS
    HoldEntersProvisioning
