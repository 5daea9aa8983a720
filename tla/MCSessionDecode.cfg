SPECIFICATION SessionSpec
CHECK_DEADLOCK FALSE
CONSTANTS
    s1 = s1
    t1 = t1
    k1 = k1
    k2 = k2
    r1 = r1
    r2 = r2
    r3 = r3
    r4 = r4
    Session = {s1}
    Transfer = {t1}
    TransferOf <- OneTransfer
    TotalChunks <- TwoChunks
    MaxChunks = 2
    NeedSend = 1
    SenderSlot = {k1}
    RecvSlot = {r1, r2}
    SlotsOf <- TwoSlots
    JobFaults = {"decode"}
    None = None
INVARIANT NoSilentLoss
