SPECIFICATION Spec
CONSTANTS
    MaxSize = 1
    MaxChunks = 2
    FrmFromCut = FALSE
    JoinTimesOut = TRUE
    DiskFails = TRUE
    Sentinel = Sentinel

    
PROPERTIES
    ImplementsCaptureFile
CHECK_DEADLOCK FALSE
