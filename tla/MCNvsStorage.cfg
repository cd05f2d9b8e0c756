CONSTANTS
    mask = mask
    ssid = ssid
    channel = channel
    m1 = m1
    s1 = s1
    c1 = c1
    c2 = c2
    PageCount = 3
    EntryCount = 4
    PerWord = 2
    Keys = {mask, ssid, channel}
    NamespaceOf <- MCNamespaceOf
    ValuesOf <- MCValuesOf
    DataEntries <- MCDataEntries
    TailEntries <- MCTailEntries
    BlankValues = {s1}
    None = None
SPECIFICATION Spec
INVARIANTS
    TypeOK
    InitSucceeds
    ItemsWhole
    KeysUnique
    PageStates
    WritesErasedFlash
PROPERTIES
    ImplementsDurableMap
