SPECIFICATION SuiteSpec
CONSTANTS
    c1 = c1
    c2 = c2
    s1 = s1
    s2 = s2
    NoConfig = NoConfig
    NoPassword = NoPassword
    p1 = p1
    p2 = p2
    host1 = host1
    host2 = host2
    host3 = host3
    Token = Token
    Unlinked = Unlinked
    NoUpdate = NoUpdate
    NoHost = NoHost
    NoImport = NoImport
    NoCall = NoCall
    Unread = Unread
    Home = {h1, h2, h3}
    First = h1
    MaxRedirects = 1
    MaxBody = 1
    MaxCalls = 2
    Elsewhere = Elsewhere
    NoReply = NoReply
CHECK_DEADLOCK FALSE
INVARIANTS RunsTheChosen NoUpdateForgotten QueueFlows SecretsStayHome
PROPERTIES ServerMovesByConsent
