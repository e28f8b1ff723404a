SPECIFICATION Spec
CONSTANTS
    MaxRestarts = 1
    LivenessFailures = 2
    MaxFaults = 2
    MaxRestartClicks = 1
    Quits = {q1}
    Versions = {1, 2}
    MaxChecks = 2
    MaxMail = 2
    Urls = {"a", "b"}
    Foreign = {"x"}
    MaxRestored = 1
    MaxRuns = 2
    MaxVisits = 1
    MaxTyped = 1
    MaxAmpOps = 2
    MaxLoads = 2
    Ports = {"p"}
    MaxDaqOps = 2
    MaxKeys = 1
    Recordings = {"x", "y"}
    MaxDoctorRuns = 2
    MaxConfigLaunches = 3
    MaxSaves = 1
    MaxFetches = 1
    Areas = {"a", "b", "c"}
    MAX_AREAS = 2

    
PROPERTIES
    
    DesktopSettles
CHECK_DEADLOCK FALSE
