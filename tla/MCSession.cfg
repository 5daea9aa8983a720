SPECIFICATION MCFairSpec
CHECK_DEADLOCK FALSE
CONSTANTS
    s1 = s1
    s2 = s2
    t1 = t1
    k1 = k1
    k2 = k2
    r1 = r1
    r2 = r2
    r3 = r3
    Session = {s1, s2}
    Transfer = {t1}
    TransferOf <- OneTransfer
    TotalChunks <- Chunks
    MaxChunks = 2
    NeedSend = 2
    SenderSlot = {k1, k2}
    RecvSlot = {r1, r2, r3}
    SlotsOf <- SlotPerChunk
    JobFaults = {"open", "encode", "decode"}
    None = None
INVARIANTS
    BlocksHeld
    SlotsKept
    AckMeansQuiet
    ChunksDelivered
PROPERTIES
    SessionsEnd
    TablesFreed
