SPECIFICATION Spec
CONSTANTS
    Attempts = {a1, a2}
    Configs = {c1, c2, bad}
    BadConfigs = {bad}
    Routings = {r1, r2}
    NoAttempt = NoAttempt
    NoConfig = NoConfig
    CommandKinds = {"connect", "setSplitRouting"}
    MaxQueue = 1
    CanQuit = TRUE
SYMMETRY SettingsSymmetry
INVARIANTS SessionFollowsSettings NoCallAfterDestruction
CHECK_DEADLOCK FALSE
