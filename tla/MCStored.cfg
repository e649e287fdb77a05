SPECIFICATION SuiteSpec
CONSTANTS
    p1 = p1
    p2 = p2
    p3 = p3
    Clients = {"libsecret", "tool"}
    Operations = {"connect", "save"}
    Concurrent = FALSE
    Legacy = TRUE
    Faults = {"store", "probe", "write"}
    Crashes = FALSE
    MaxMade = 4
    MaxFaults = 3
    Profiles = {p1, p2}
    Sources = {s1}
    Directions = {"vpn", "bypass"}
    MaxEdits = 3
    Happens = {"oversize"}
CHECK_DEADLOCK FALSE
INVARIANTS PasswordGoesWithServer NothingLost ReadsWhatWasSaved RoutedByItsProfile MemoryIsTheCache
PROPERTIES RestartKeepsRules
