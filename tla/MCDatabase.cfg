SPECIFICATION Spec
CONSTANTS
    MatWritten = TRUE
    MaxFaults = 1
    MaxOthers = 1
    Caps = {"a", "b"}
    Filters = {"all", "incomplete"}
    MaxLoads = 2
    MaxChanges = 1
    MaxClicks = 2
    RunIds = {"r1", "r2"}
    Users = {"u", "v"}
    MaxSyncFaults = 1
    MaxSwitches = 1
    Accounts = {"a"}
    Passwords = {"p", "q"}
    ApiCalls = {"r", "s"}
    FreeAttempts = 1
    MaxTokens = 2
    MaxLogins = 2
    Questions = {"p", "q"}
    HISTORY_LIMIT = 1
    SAVED_LIMIT = 2
    MAX_MESSAGES = 2
    MaxAskSteps = 3
    MaxAskFaults = 1
    Members = {"u", "v"}
    MaxWrites = 3
    MAX_ROWS = 3
    Files = {"f"}
    MaxCrawlSteps = 3
    Sections = {"a", "b"}
    MaxPageLoads = 3
    MaxDrawerSteps = 4
    MaxOtherSaves = 1
    MaxPanelClicks = 1
    MaxFileRows = 1
    MaxCodeSteps = 4
    MaxRegSteps = 4
    MAX_TILES = 3
    TRACE_CAP = 1
    MaxFastSteps = 3
INVARIANTS
    
    LabSafe
PROPERTIES
    DatabaseSteps
    DatabaseSettles
CHECK_DEADLOCK FALSE
