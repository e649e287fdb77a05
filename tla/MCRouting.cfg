SPECIFICATION SuiteSpec
CONSTANTS
    c1 = c1
    c2 = c2
    p1 = p1
    p2 = p2
    s1 = s1
    s2 = s2
    listed = listed
    other = other
    a = a
    b = b
    g = g
    None = None
    Unseen = Unseen
    Unattributed = Unattributed
    Wildcard = Wildcard
    Programs = {p1, p2}
    Addresses = {a}
    MaxEdits = 2
    MaxQueue = 1
    Happens = {}
    Adapters = {7, 9}
    QuietLooks = 3
    MaxMoves = 3
    UplinkHappens = {"disagree", "rebuild", "drop"}
CHECK_DEADLOCK FALSE
INVARIANTS AnswersTruly NoMixedLeak SettledIsLast PinnedToTheNewest NoSilentGap
PROPERTIES NoNeedlessWork
