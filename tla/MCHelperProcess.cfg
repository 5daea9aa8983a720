SPECIFICATION FairHelperSpec
CHECK_DEADLOCK FALSE
CONSTANTS
    Req = {"r1"}
    Session = {1, 2}
    Of <- MCOf
    Workers = 1
    MayCrash = TRUE
    MaxLate = 1
    None = None
INVARIANTS
    ReportTruthful
    StoppedMeansQuiet
PROPERTIES
    ReceivesReported
    ShutdownEnds
