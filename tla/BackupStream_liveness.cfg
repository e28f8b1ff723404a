SPECIFICATION FairSpec
CONSTANTS
    Retention = 1
    MaxFile = 3
    MaxChunk = 2
    MaxLate = 1
PROPERTIES
    BackupSettles
CHECK_DEADLOCK FALSE
