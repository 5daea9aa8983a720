SPECIFICATION FairConnSpec
CONSTANTS
    p1 = p1
    p2 = p2
    p3 = p3
    a = a
    b = b
    c = c
    None = None
    Failed = Failed
    Payload <- MCPayload
    Rid <- MCRidDistinct
    RidOf <- MCRidOfDistinct
    Bytes <- MCBytes
    MaxBytes = 3
    Capacity = 2
    Unsupported = {}
    Faults = {"oom", "timeout", "decompress"}
    AsyncSend = FALSE
    MaxInflightBytes = 2
    PrefixCached = {}
    RouterWaits = TRUE
INVARIANTS
    NoMissingKV
    CreditOwed
PROPERTIES
    EveryRequestLoaded
    SaveCompletes
CHECK_DEADLOCK FALSE
