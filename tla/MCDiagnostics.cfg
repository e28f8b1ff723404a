SPECIFICATION Spec
CONSTANTS
    DiagTrees = {"A", "B"}
    MaxDiagLoads = 3
    MaxDiagActs = 3
    Recipes = {"base", "r1", "bad"}
    Invalid = {"bad"}
    MaxEdits = 4
    MaxPreviews = 2
    LayerIds = {"l", "m"}
    Rings = {"a", "b"}
    MaxSaves = 3
    BatchOps = {"a", "b"}
    MaxBatchActs = 2
    StartSteps <- MCStart
    Files <- MCFiles
    Addable = {"invert"}
    MaxRecipeActs = 4
    Panels = {"p", "q"}
    MaxSpatialActs = 5
    DataRanges <- MCRanges
    TypedValues = {0, 8}
    Pixels = {0, 10, 20, 31, 40}
    MaxScaleSteps = 3
    MaxDoctorSteps = 3
    MaxPanels = 3
    MaxLayoutSteps = 3
    CacheIds = {c1, c2, c3}
    MEM_CAP = 2

    
PROPERTIES
    DiagSteps
    DiagnosticsSettle
CHECK_DEADLOCK FALSE
