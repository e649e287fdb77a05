SPECIFICATION FairSpec
CONSTANTS
    Attempts = {a1, a2}
    Configs = {c1}
    BadConfigs = {}
    Routings = {r1}
    NoAttempt = NoAttempt
    NoConfig = NoConfig
    CommandKinds = {"connect", "disconnect", "setKillSwitch"}
    MaxQueue = 1
    CanQuit = FALSE
PROPERTIES LeftoversComeDown KeepsTrying NetworkWaitEnds
