SPECIFICATION Spec
CONSTANTS
    Retention = 1
    MaxFile = 4
    MaxChunk = 2
    MaxLate = 2
INVARIANTS
    CopyIsPrefix
    SentIsHeld
PROPERTIES
    
    CopyOnlyGrows
CHECK_DEADLOCK FALSE
