SPECIFICATION MCFairSpec
CHECK_DEADLOCK FALSE
CONSTANTS
    q1 = q1
    q2 = q2
    Req = {q1, q2}
    Tokens = 4
    LocalHits = {0, 1}
    TpSize = 1
    Thread = {1, 2}
    BatchKeys = 1
    MaxEpoch = 1
    MaxPuts = 2
    MaxPreempts = 1
    None = None
INVARIANTS
    LoadedPrefix
    LoadedAwaited
PROPERTIES
    LoadedEnds
