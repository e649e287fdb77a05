SPECIFICATION OwnerFairSpec
CONSTANTS
    Attempts = {a1, a2}
    Configs = {c1}
    BadConfigs = {}
    Routings = {r1}
    NoAttempt = NoAttempt
    NoConfig = NoConfig
    CommandKinds = {"connect", "disconnect"}
    MaxQueue = 2
    CanQuit = FALSE
PROPERTIES DisconnectCompletes
