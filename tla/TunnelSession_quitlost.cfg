SPECIFICATION Spec
CONSTANTS
    Attempts = {a1, a2}
    Configs = {c1}
    BadConfigs = {}
    Routings = {r1}
    NoAttempt = NoAttempt
    NoConfig = NoConfig
    CommandKinds = {"connect", "disconnect"}
    MaxQueue = 1
    CanQuit = TRUE
SYMMETRY AttemptSymmetry
INVARIANTS NoLostCore
CHECK_DEADLOCK FALSE
