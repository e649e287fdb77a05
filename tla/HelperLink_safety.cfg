SPECIFICATION Spec
CONSTANTS
    h1 = h1
    h2 = h2
    c1 = c1
    c2 = c2
    s1 = s1
    s2 = s2
    Helpers = {h1, h2}
    Conns = {c1, c2}
    Settings = {s1, s2}
    NoHelper = NoHelper
    NoConn = NoConn
    NoSettings = NoSettings
    Stranger = Stranger
    StrangerThere = TRUE
    DiesServing = TRUE
    MaxInFlight = 2
SYMMETRY SlotSymmetry
INVARIANTS ConfigOnlyToHelper LastClickWins WindowTellsTruth SessionBuiltFromSettings
