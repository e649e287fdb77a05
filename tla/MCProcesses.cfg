SPECIFICATION SuiteSpec
CONSTANTS
    p1 = p1
    p2 = p2
    p3 = p3
    Kinds = {"start", "stop"}
    Configs = {"home"}
    KillSwitches = {TRUE, FALSE}
    GeoOn = FALSE
    MaxStarts = 3
    MaxReports = 2
    MaxFaults = 1
    MaxEvents = 1
    Platform = "windows"
    MaxVersion = 3
    MaxChecks = 3
    MaxUploads = 2
    Happens = {}
    Procs = {p1, p2, p3}
    BusyIsRefused = FALSE
    Foreign <- NothingForeign
    Incidents = {"busy", "crash", "quit"}
CHECK_DEADLOCK FALSE
INVARIANTS OneInstance InstallsWhatWasOffered StopsClean
PROPERTIES KillSwitchHolds NothingForTheLate
