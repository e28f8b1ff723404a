SPECIFICATION Spec
CONSTANTS
    MaxCuts = 2
    MaxWsFaults = 1
    Axes = {"Fx"}
    Faults = {"tacho"}
    Toggled = {"audio"}
    MaxAcks = 1
    MaxAlarmCuts = 2
    MaxTests = 1
    MaxToggles = 1
    Sessions = {"s1", "s2"}
    MaxVisits = 1
    MaxPageReqs = 2
    Cuts = {"A", "B"}
    MaxSearches = 2
    MaxPicks = 2
    MaxSwitchings = 2
    Others = {"o"}
    Popouts = {"p"}
    CutsShown = {"A", "B"}
    MaxPoints = 2
    MaxTurns = 2
    MaxBreaks = 1
    PlayCuts = {"A", "B"}
    CutLen = 4
    CutStart = 1
    BinSize = 2
    MaxSeeks = 2
    MaxPlays = 1
    MaxSpectra = 2
    Entities = {"samples", "methods"}
    MaxRowVersions = 2
    MaxSyncFails = 2
    MaxLooks = 1
    PAGE = 2
    Ids = {1, 2, 3, 4, 5}
    Inserts = {"i1", "i2"}
    Edges <- MCEdges
    MaxToolPicks = 4
    MaxMetaSaves = 2
    Names = {"Fx1", "Tacho"}
    AiPorts = {"p1", "p2", "p3"}
    MaxChannelEdits = 1
    MaxOptionSteps = 4
INVARIANTS
    
    ReplaySafe
PROPERTIES
    RecordSteps
    RecordSettles
CHECK_DEADLOCK FALSE
