SPECIFICATION MCSpec
CONSTANTS
    Align = 4
    CodecOverhead = 4
    CodecWorkspace = 6
    GuardBytes = 4
    WarpSize = 2
    Threads = 4
    ChannelTile = 1
    MaxFused = 4
    Sign <- MCSign
    Configs <- MCConfigs
    Runtime = {"r1", "r2"}
    Stream = {"s1", "s2"}
    Owner <- MCOwner
    Unit = 2
    PoolBytes <- MCPoolBytes
    RequestSizes = {1, 3, 5}
INVARIANTS
    RoundTrip
    PoolFits
    LookupLoadable
    SharedNamespaces
    TransferExact
    AdapterRoundTrip
    ControllerLearns
PROPERTY WorkspaceServed
CHECK_DEADLOCK FALSE
