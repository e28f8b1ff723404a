SPECIFICATION Spec
CONSTANTS
    MaxSize = 2
    MaxChunks = 2
    FrmFromCut = TRUE
    JoinTimesOut = FALSE
    DiskFails = TRUE
    Sentinel = Sentinel
INVARIANTS
    RawIsStreamPrefix
    DoneIsHonest
    
    CutInsideCapture
PROPERTIES
    CutOriginFixed
    CauseKept
    ImplementsCaptureFile
CHECK_DEADLOCK FALSE
