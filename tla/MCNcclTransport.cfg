SPECIFICATION Spec
CONSTANTS
    p1 = p1
    p2 = p2
    p3 = p3
    a = a
    b = b
    None = None
    Failed = Failed
    Payload <- MCPayload
    Rid <- MCRid
    RidOf <- MCRidOf
    Bytes <- MCBytes
    MaxBytes = 2
    Capacity = 2
    Unsupported = {p3}
    Faults = {"restart", "oom", "listen", "recv"}
INVARIANTS
    CreditAccounting
    WaitForSentDrained
    PublishedIntact
    OverflowBounded
PROPERTY ImplementsChannel
CHECK_DEADLOCK FALSE
