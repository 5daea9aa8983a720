SPECIFICATION Spec
CONSTANTS
    s1 = s1
    s2 = s2
    t1 = t1
    t2 = t2
    q1 = q1
    k1 = k1
    j1 = j1
    j2 = j2
    None = None
    Session = {s1, s2}
    Transfer = {t1, t2}
    Pull = {q1}
    TransferOf <- WorkersTransfer
    PullOf <- WorkersPull
    TotalChunks <- WorkersChunks
    MaxChunks = 2
    NeedSend = 1
    SenderSlot = {k1}
    ReceiverSlot = {j1, j2}
    SendSlots <- WorkersSend
    RecvSlots <- WorkersRecv
    Faults <- WorkersFaults
SYMMETRY SlotSymmetry
INVARIANTS
    InprocBlocksHeld
    InprocSlotLease
    InprocNoSilentLoss
    InprocNoneWaiting
CHECK_DEADLOCK FALSE
