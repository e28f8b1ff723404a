SPECIFICATION Spec
CONSTANTS
    FOps = {"A", "B"}
    BigOps = {"B"}
    MaxRequests = 2
    MaxSelects = 2
    PlotOps = {"A", "B"}
    SavedOps = {"A"}
    PlotAxes = {"Fx", "Fz"}
    MaxTouches = 3
    EditOps = {"A", "B"}
    NoMetaOps = {"B"}
    OctreeOps = {"A"}
    MaxShows = 2
    MaxFormEdits = 2
    VOps = {"A", "B", "C"}
    LiteOps = {"A"}
    Links <- MCLinks
    MaxCompare = 1
    MaxViewActs = 2
    MapFiles = {"A", "B"}
    MaxMapLoads = 1
    MaxMapSwaps = 1
    Fingers = {"f", "g", "h"}
    MaxTaps = 4
    Octrees = {"A", "B"}
    MaxOctLoads = 3
    MaxOctActs = 2
    Times <- MCTimes
    CropTimes = {0, 5, 12, 20}
    MaxChartSteps = 3
    MaxPoints = 5
    DRAW_CAP = 3
    MaxSpraySteps = 4
    MaxRollSteps = 6
    MaxFinSteps = 4
    MaxSpecSteps = 4
    MaxWearSteps = 4
    MaxChipSteps = 4
    MaxSamples = 4
    SignalValues = {0, 1, 3}
    GRID = 3
    MaxTime = 2
    MaxRows = 4
INVARIANTS
    DashboardSafe
    MapsSafe
PROPERTIES
    ForceSteps
    ForceSettles
CHECK_DEADLOCK FALSE
