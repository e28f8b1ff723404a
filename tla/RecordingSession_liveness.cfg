SPECIFICATION FairSpec
CONSTANTS
    MaxSize = 1
    MaxChunks = 1
    FrmFromCut = FALSE
    JoinTimesOut = FALSE
    DiskFails = FALSE
    Sentinel = Sentinel
PROPERTIES
    SessionSettles
CHECK_DEADLOCK FALSE
