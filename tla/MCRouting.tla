----------------------------- MODULE MCRouting -----------------------------
(* The routing of connections and what follows the machine under it, on small
   instances, one component at a time: the rules for programs, the process and
   the socket of a connection, the split routing, the uplink and the core's log.
   The split routing and the uplink are the components this module extends: their
   constants are given in the cfg, and their variables rest in an initial state while
   another component is looked at. *)
EXTENDS SplitRouting, UplinkFollower

CONSTANTS c1, c2, p1, p2, s1, s2, listed, other, a, b, g, Unseen, Unattributed, Wildcard

VARIABLES
    part,  \* the component looked at, the same throughout
    written, rules, disk, changed, table, clock, conns,
    platform, holder, runs, watch, rows, walked, failed, cost, age, credit,
    waited, step, flow, fresh, again, todo, inodes, whole, handed, said,
    open, left, tells, sockets, ports, only6,
    bUser, bWork, bSnap, bSession, bBuilt, bGiven, bCore, bQueue, bEdit, bAsked,
    bLast, bInForce, bBuiltBy, bMade,  \* of the routing by edits in bursts
    logging, sink, file, writing, logged, offset, carry, polling, shown,
    attempts, toggles

rulesVars == <<written, rules, disk, changed, table, clock, conns>>
lookupVars == <<platform, holder, runs, watch, rows, walked, failed, cost,
    age, credit, waited, step, flow, fresh, again, todo, inodes, whole,
    handed, said>>
socketsVars == <<open, left, tells, sockets, ports, only6>>
burstVars == <<bUser, bWork, bSnap, bSession, bBuilt, bGiven, bCore, bQueue,
    bEdit, bAsked, bLast, bInForce, bBuiltBy, bMade>>
tailVars == <<logging, sink, file, writing, logged, offset, carry, polling,
    shown, attempts, toggles>>

\* Names of files and folders, as rules and programs have them.
FileNames == {"Discord", "discord", "Discord.exe", "discord.exe", "Helper.exe", "tools",
            "kits", "Tool.exe", "tool.exe", "Firefox", "firefox", "firefox-bin", "bin", "curl",
            "usr", "lib", "app-1", "app-2", "Chat.app", "Mail.app", "Contents", "MacOS",
            "Chat", "Mail", "Render", ".", "..", "Tool", "tool", "Helper"}
LowerCase == [n \in FileNames |->
    CASE n = "Discord" -> "discord"
      [] n = "Discord.exe" -> "discord.exe"
      [] n = "Tool.exe" -> "tool.exe"
      [] n = "Tool" -> "tool"
      [] n = "Firefox" -> "firefox"
      [] OTHER -> n]
Stems == [n \in FileNames |->
    CASE n = "Discord.exe" -> "Discord"
      [] n = "discord.exe" -> "discord"
      [] n = "Tool.exe" -> "Tool"
      [] n = "tool.exe" -> "tool"
      [] n = "Helper.exe" -> "Helper"
      [] OTHER -> n]
Versions == {"app-1", "app-2"}
Bundles == {"Chat.app", "Mail.app"}
Everyones == {"bin"}

Path(p) == [form |-> "path", path |-> p]
Name(n) == [form |-> "name", path |-> <<n>>]
A(p) == [path |-> p, name |-> ""]

(* Windows                                                                 *)
Discord1 == <<"Discord", "app-1", "Discord.exe">>
Discord2 == <<"discord", "app-2", "discord.exe">>
Helper2 == <<"Discord", "app-2", "Helper.exe">>
Tool1 == <<"tools", "app-1", "Tool.exe">>
Tool2 == <<"tools", "app-2", "tool.exe">>
Kit1 == <<"kits", "app-1", "Tool.exe">>
Beside == <<"tools", "Helper.exe">>

WinRules == {<<Path(Discord1)>>, <<Path(Helper2), Path(Tool1)>>,
             <<Path(Tool2), Path(Tool1), [form |-> "folder", path |-> <<"tools">>]>>,
             <<Name("Helper.exe")>>}
WinApps == {A(Discord2), A(Helper2), A(Tool1), A(Tool2), A(Beside),
            [path |-> <<>>, name |-> "Helper.exe"]}
SharedRules == {<<Path(Tool1)>>}
SharedApps == {A(Kit1)}

(* Linux                                                                   *)
Firefox == <<"usr", "lib", "firefox", "firefox">>
FirefoxBin == <<"usr", "lib", "firefox", "firefox-bin">>
BinBin == <<"usr", "bin", "bin">>
Curl == <<"usr", "bin", "curl">>
Upper == <<"usr", "lib", "Firefox", "Firefox">>

LinuxRules == {<<Path(Firefox)>>, <<Path(BinBin)>>, <<Path(Upper), Path(Firefox)>>,
               <<Path(<<"usr", ".", "lib", "..", "bin", "curl">>), Path(Curl)>>,
               <<[form |-> "relative", path |-> Curl], Name("..")>>, <<Name("curl"), Path(Tool1)>>}
LinuxApps == {A(Firefox), A(FirefoxBin), A(BinBin), A(Curl), A(Upper), A(Tool1), A(Tool2),
              [path |-> Curl, name |-> "curl"]}

(* macOS                                                                   *)
Chat == <<"Chat.app", "Contents", "MacOS", "Chat">>
Render == <<"Chat.app", "Contents", "Render">>
Mail == <<"Mail.app", "Contents", "MacOS", "Mail">>
ChatTool == <<"Chat.app", "Tool">>
MacRules == {<<Path(Chat)>>, <<Path(Mail), Name("tool")>>, <<Path(ChatTool)>>}
MacApps == {A(Chat), A(Render), A(Mail), A(ChatTool), A(Curl)}

Windows == INSTANCE AppRules WITH
    Platform <- "windows", Lower <- LowerCase, Stem <- Stems,
    Versions <- Versions, Bundles <- Bundles, Everyones <- Everyones,
    RuleLists <- WinRules, Apps <- WinApps, Conns <- {c1}, FreshFor <- 2,
    MaxFolders <- 1, MaxClock <- 2
Shared == INSTANCE AppRules WITH
    Platform <- "windows", Lower <- LowerCase, Stem <- Stems,
    Versions <- Versions, Bundles <- Bundles, Everyones <- Everyones,
    RuleLists <- SharedRules, Apps <- SharedApps, Conns <- {c1, c2},
    FreshFor <- 2, MaxFolders <- 1, MaxClock <- 1
Linux == INSTANCE AppRules WITH
    Platform <- "linux", Lower <- LowerCase, Stem <- Stems,
    Versions <- Versions, Bundles <- Bundles, Everyones <- Everyones,
    RuleLists <- LinuxRules, Apps <- LinuxApps, Conns <- {c1}, FreshFor <- 2,
    MaxFolders <- 2, MaxClock <- 0
Mac == INSTANCE AppRules WITH
    Platform <- "mac", Lower <- LowerCase, Stem <- Stems,
    Versions <- Versions, Bundles <- Bundles, Everyones <- Everyones,
    RuleLists <- MacRules, Apps <- MacApps, Conns <- {c1, c2}, FreshFor <- 2,
    MaxFolders <- 2, MaxClock <- 0
Answers == INSTANCE ProcessLookup WITH
    Pids <- {p1, p2}, Socks <- {s1, s2}, Programs <- {listed, other},
    TtlFactor <- 2, MinTtl <- 1, Ttl <- 3, MaxDebt <- 1,
    Platforms <- {"linux", "macos", "windows"}, Costs <- {1}, Cap <- 2,
    Happens <- {"fails", "edit", "exec"}, built <- walked
Budget == INSTANCE ProcessLookup WITH
    Pids <- {p1, p2}, Socks <- {s1}, Programs <- {listed, other},
    TtlFactor <- 2, MinTtl <- 1, Ttl <- 3, MaxDebt <- 1,
    Platforms <- {"linux", "macos", "windows"}, Costs <- {1, 2}, Cap <- 3,
    Happens <- {"fails", "secondFails", "unreadable"}, built <- walked
Sockets == INSTANCE SocketTable WITH
    Addresses <- {a, b}, Addresses6 <- {g}, Pids <- {p1}, MaxSockets <- 3,
    Any <- Wildcard
Bursts == INSTANCE SplitRouting WITH
    Programs <- {p1}, Addresses <- {a}, MaxEdits <- 3, MaxQueue <- 1,
    Happens <- {"burst"}, user <- bUser, work <- bWork, snap <- bSnap,
    session <- bSession, built <- bBuilt, given <- bGiven, core <- bCore,
    queue <- bQueue, edit <- bEdit, asked <- bAsked, last <- bLast,
    inForce <- bInForce, builtBy <- bBuiltBy, made <- bMade
Session == INSTANCE CoreLogTail WITH
    Size <- 2, MaxLinesPerPoll <- 1, MaxCarry <- 4, MaxLines <- 6,
    MaxAttempts <- 2, MaxToggles <- 2, Happens <- {}
Reconnects == INSTANCE CoreLogTail WITH
    Size <- 2, MaxLinesPerPoll <- 1, MaxCarry <- 4, MaxLines <- 6,
    MaxAttempts <- 3, MaxToggles <- 1, Happens <- {"reconnect"}

-----------------------------------------------------------------------------
\* What a component leaves out when another one is looked at.
Nothing == "nothing"
NoRules ==
    /\ written = Nothing /\ rules = Nothing /\ disk = Nothing
    /\ changed = Nothing /\ table = Nothing /\ clock = Nothing
    /\ conns = Nothing
NoLookup ==
    /\ platform = Nothing /\ holder = Nothing /\ runs = Nothing
    /\ watch = Nothing /\ rows = Nothing /\ walked = Nothing
    /\ failed = Nothing /\ cost = Nothing /\ age = Nothing
    /\ credit = Nothing /\ waited = Nothing /\ step = Nothing
    /\ flow = Nothing /\ fresh = Nothing /\ again = Nothing /\ todo = Nothing
    /\ inodes = Nothing /\ whole = Nothing /\ handed = Nothing
    /\ said = Nothing
NoSockets ==
    /\ open = Nothing /\ left = Nothing /\ tells = Nothing
    /\ sockets = Nothing /\ ports = Nothing /\ only6 = Nothing
NoBursts ==
    /\ bUser = Nothing /\ bWork = Nothing /\ bSnap = Nothing
    /\ bSession = Nothing /\ bBuilt = Nothing /\ bGiven = Nothing
    /\ bCore = Nothing /\ bQueue = Nothing /\ bEdit = Nothing
    /\ bAsked = Nothing /\ bLast = Nothing /\ bInForce = Nothing
    /\ bBuiltBy = Nothing /\ bMade = Nothing
NoTail ==
    /\ logging = Nothing /\ sink = Nothing /\ file = Nothing
    /\ writing = Nothing /\ logged = Nothing /\ offset = Nothing
    /\ carry = Nothing /\ polling = Nothing /\ shown = Nothing
    /\ attempts = Nothing /\ toggles = Nothing

\* The full tunnel, and no network yet.
RoutingRests == Init /\ ~user.selective /\ user.addresses = {} /\ user.rules = {}
UplinkRests == UplinkInit /\ active = 0

SuiteInit ==
    \/ /\ \/ part = "windows" /\ Windows!Init
          \/ part = "shared" /\ Shared!Init
          \/ part = "linux" /\ Linux!Init
          \/ part = "mac" /\ Mac!Init
       /\ RoutingRests /\ UplinkRests /\ NoLookup /\ NoSockets /\ NoBursts /\ NoTail
    \/ /\ \/ part = "answers" /\ Answers!Init
          \/ part = "budget" /\ Budget!Init
       /\ RoutingRests /\ UplinkRests /\ NoRules /\ NoSockets /\ NoBursts /\ NoTail
    \/ /\ part = "sockets" /\ Sockets!Init
       /\ RoutingRests /\ UplinkRests /\ NoRules /\ NoLookup /\ NoBursts /\ NoTail
    \/ /\ part = "routing" /\ Init
       /\ UplinkRests /\ NoRules /\ NoLookup /\ NoSockets /\ NoBursts /\ NoTail
    \/ /\ part = "bursts" /\ Bursts!Init
       /\ RoutingRests /\ UplinkRests /\ NoRules /\ NoLookup /\ NoSockets /\ NoTail
    \/ /\ part = "uplink" /\ UplinkInit
       /\ RoutingRests /\ NoRules /\ NoLookup /\ NoSockets /\ NoBursts /\ NoTail
    \/ /\ \/ part = "session" /\ Session!Init
          \/ part = "reconnects" /\ Reconnects!Init
       /\ RoutingRests /\ UplinkRests /\ NoRules /\ NoLookup /\ NoSockets /\ NoBursts

extended_vars == <<vars, uplink_vars>>
SuiteNext ==
    \/ /\ \/ part = "windows" /\ Windows!Next
          \/ part = "shared" /\ Shared!Next
          \/ part = "linux" /\ Linux!Next
          \/ part = "mac" /\ Mac!Next
       /\ UNCHANGED <<part, extended_vars, lookupVars, socketsVars, burstVars, tailVars>>
    \/ /\ \/ part = "answers" /\ Answers!Next
          \/ part = "budget" /\ Budget!Next
       /\ UNCHANGED <<part, extended_vars, rulesVars, socketsVars, burstVars, tailVars>>
    \/ /\ part = "sockets" /\ Sockets!Next
       /\ UNCHANGED <<part, extended_vars, rulesVars, lookupVars, burstVars, tailVars>>
    \/ /\ part = "routing" /\ Next
       /\ UNCHANGED <<part, uplink_vars, rulesVars, lookupVars, socketsVars, burstVars, tailVars>>
    \/ /\ part = "bursts" /\ Bursts!Next
       /\ UNCHANGED <<part, extended_vars, rulesVars, lookupVars, socketsVars, tailVars>>
    \/ /\ part = "uplink" /\ UplinkNext
       /\ UNCHANGED <<part, vars, rulesVars, lookupVars, socketsVars, burstVars, tailVars>>
    \/ /\ \/ part = "session" /\ Session!Next
          \/ part = "reconnects" /\ Reconnects!Next
       /\ UNCHANGED <<part, extended_vars, rulesVars, lookupVars, socketsVars, burstVars>>

suite_vars == <<part, extended_vars, rulesVars, lookupVars, socketsVars, burstVars, tailVars>>
SuiteSpec == SuiteInit /\ [][SuiteNext]_suite_vars

-----------------------------------------------------------------------------
ASSUME /\ Windows!RuleAssumption /\ Shared!RuleAssumption /\ Linux!RuleAssumption
       /\ Mac!RuleAssumption /\ Answers!LookupAssumption /\ Budget!LookupAssumption
       /\ Sockets!TableAssumption /\ Bursts!RoutingAssumption
       /\ Session!TailAssumption /\ Reconnects!TailAssumption

\* AnswersTruly.  A connection is answered with the program that holds its socket, however
\* whole walks fail, programs replace themselves and rules change, for no more walks than the
\* budget pays; of the sockets on a port the one that would carry it answers; and a rule
\* follows its program to the version it is updated to and matches no neighbour of it, on
\* disks that change; and edits of the rules that come in bursts, each overtaking the one
\* before, end as the settings asked for last (ProcessLookupWalk.cpp, ProcessLookup.cpp,
\* AppRules.cpp, setSplitRouting).
AnswersTruly ==
    /\ part = "answers" => Answers!TypeOK /\ Answers!AnswersTruly
    /\ part = "budget" => Budget!DebtBounded
    /\ part = "sockets" => Sockets!TypeOK /\ Sockets!OwnSocketAnswers /\ Sockets!BareFlowFound
    /\ part = "windows" => Windows!TypeOK /\ Windows!FollowsTheUpdate /\ Windows!NoNeighbours
    /\ part = "shared" => Shared!RememberedIsRecent
    /\ part = "linux" => Linux!NoNeighbours /\ Linux!SavedMeansTheSame
    /\ part = "mac" => Mac!NoNeighbours
    /\ part = "bursts" => Bursts!TypeOK /\ Bursts!SettledIsLast
    /\ part = "routing" => TypeOK
    /\ part = "uplink" => UplinkTypeOK

\* NoMixedLeak, SettledIsLast and PinnedToTheNewest are the components' own.

\* NoNeedlessWork.  An adapter caught between two states costs a session no reconnect, and a
\* second walk is made only for a socket that opened after the first (followUplink, m_owners).
NoNeedlessWork ==
    [][/\ part = "uplink" => BlipIsNotAMove
       /\ part = "answers" => Answers!LooksAgainForNewSockets]_suite_vars

\* NoSilentGap.  The lines a core logs come whole, in order and once, over polls, sessions
\* and an emptied file, and none is left out without a word (pollCoreLogFile).
NoSilentGap ==
    /\ part = "session" => Session!TypeOK /\ Session!LinesAreWhole /\ Session!NoSilentGap
    /\ part = "reconnects" => Reconnects!InOrder
=============================================================================
