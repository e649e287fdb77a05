SPECIFICATION AskedSpec
CONSTANTS
    Attempts = {a1, a2}
    Configs = {c1}
    BadConfigs = {}
    Routings = {r1}
    NoAttempt = NoAttempt
    NoConfig = NoConfig
    CommandKinds = {"connect", "disconnect", "setKillSwitch"}
    Connects = {on, again}
    MaxQueue = 2
    CanQuit = FALSE
SYMMETRY AttemptSymmetry
INVARIANTS NoLostCore NeverStuck DisconnectedIsOff OffStaysOff
PROPERTIES KillSwitchHolds KeepsPromise
