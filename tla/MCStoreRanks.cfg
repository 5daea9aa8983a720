SPECIFICATION MCSpec
CONSTANTS
    r1 = r1
    r2 = r2
    w1 = w1
    w2 = w2
    b1 = b1
    b2 = b2
    b3 = b3
    b4 = b4
    Null = Null
    None = None
    Req = {r1, r2}
    Worker = {w1}
    Block = {b1, b2, b3, b4}
    Prompt <- SharedPrefix
    BlockSize = 2
    StepTokens = {2, 3}
    MaxJobs = 3
    Hybrid = TRUE
    Sliding = TRUE
    SaveFaults = {"store"}
SYMMETRY BlockSymmetry
INVARIANTS
    SavedFaithful
    SavedOffset
    SavedPins
CHECK_DEADLOCK FALSE
