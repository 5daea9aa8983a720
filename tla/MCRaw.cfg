SPECIFICATION MCSpec
CONSTANTS
    p1 = p1
    p2 = p2
    d1 = d1
    d2 = d2
    r1 = r1
    r2 = r2
    b1 = b1
    Engine = Engine
    None = None
    PW = {p1}
    DW = {d1, d2}
    Req = {r1, r2}
    Batch = {b1}
    ReqsOf <- OneBatch
    EmptyReq = {r2}
    NeedSend = 2
    SenderTasks = 2
    RawFaults = {"transfer", "raise", "config", "bootstrap", "crash"}
INVARIANTS
    PulledBlocksHeld
    PulledMeansWritten
    PullsNoneWaiting
CHECK_DEADLOCK FALSE
