SPECIFICATION FairSpec
CONSTANTS
    Helpers = {h1, h2}
    Conns = {c1, c2}
    Settings = {s1}
    NoHelper = NoHelper
    NoConn = NoConn
    NoSettings = NoSettings
    Stranger = Stranger
    StrangerThere = TRUE
    DiesServing = FALSE
    MaxInFlight = 2
PROPERTIES ClicksSettle OrphansLeave
