------------------------------ MODULE MCWindow ------------------------------
(* The window's own parts on small instances, one of them at a time: Backend's
   switch, and the subscriptions with the fetches they make.  The fetch is the component
   this module extends: its constants are given in the cfg, and its variables rest in
   their initial state while another component is looked at. *)
EXTENDS SubscriptionFetch

CONSTANTS
    c1, c2, s1, s2, NoConfig, NoPassword,  \* configurations, settings
    p1, p2, host1, host2, host3, Token, Unlinked, NoUpdate, NoHost, NoImport, NoCall, Unread                       \* links of a subscription

VARIABLES
    part,  \* the component looked at, the same throughout
    g, session, reports, files,
    c, published, tunnel, editor, imports

switchVars == <<g, session, reports, files>>
refreshVars == <<c, published, tunnel, editor, imports>>

Switch == INSTANCE BackendSwitch WITH
    Configs <- {c1, c2}, Linked <- {}, Settings <- {s1}, MaxReads <- 2,
    MaxInFlight <- 1, MaxVersion <- 0, Races <- {}
Reapply == INSTANCE BackendSwitch WITH
    Configs <- {c1}, Linked <- {}, Settings <- {s1, s2}, MaxReads <- 2,
    MaxInFlight <- 1, MaxVersion <- 0, Races <- {"refused", "link"}
Updates == INSTANCE BackendSwitch WITH
    Configs <- {c1}, Linked <- {c1}, Settings <- {s1}, MaxReads <- 2,
    MaxInFlight <- 1, MaxVersion <- 1, Races <- {}
Servers == INSTANCE SubscriptionRefresh WITH
    Backoff <- <<0>>, MaxFetches <- 1, MaxJitter <- 0, Paths <- {p1},
    Hosts <- {host1, host2, host3}, Unusable <- {}, MaxVersion <- 2, Interval <- 1,
    KillSwitch <- TRUE, MaxImports <- 0, Happens <- {}
Moves == INSTANCE SubscriptionRefresh WITH
    Backoff <- <<0>>, MaxFetches <- 1, MaxJitter <- 0, Paths <- {p1},
    Hosts <- {host1, host2}, Unusable <- {}, MaxVersion <- 1, Interval <- 1,
    KillSwitch <- TRUE, MaxImports <- 0, Happens <- {"tunnel"}
Held == INSTANCE SubscriptionRefresh WITH
    Backoff <- <<0>>, MaxFetches <- 1, MaxJitter <- 0, Paths <- {p1},
    Hosts <- {host1}, Unusable <- {}, MaxVersion <- 2, Interval <- 1,
    KillSwitch <- TRUE, MaxImports <- 0,
    Happens <- {"tunnel", "editor", "restart"}
Import == INSTANCE SubscriptionRefresh WITH
    Backoff <- <<0>>, MaxFetches <- 1, MaxJitter <- 0, Paths <- {p1},
    Hosts <- {host1}, Unusable <- {}, MaxVersion <- 0, Interval <- 0,
    KillSwitch <- FALSE, MaxImports <- 1, Happens <- {"links"}
Queue == INSTANCE SubscriptionRefresh WITH
    Backoff <- <<0>>, MaxFetches <- 1, MaxJitter <- 0, Paths <- {p1, p2},
    Hosts <- {host1}, Unusable <- {}, MaxVersion <- 0, Interval <- 0,
    KillSwitch <- FALSE, MaxImports <- 0, Happens <- {"links"}

-----------------------------------------------------------------------------
\* What a component leaves out when another one is looked at.
Nothing == "nothing"
NoSwitch ==
    /\ g = Nothing /\ session = Nothing /\ reports = Nothing
    /\ files = Nothing
NoRefresh ==
    /\ c = Nothing /\ published = Nothing /\ tunnel = Nothing
    /\ editor = Nothing /\ imports = Nothing

SuiteInit ==
    /\ Init
    /\ \/ /\ \/ part = "switch" /\ Switch!Init
             \/ part = "reapply" /\ Reapply!Init
             \/ part = "updates" /\ Updates!Init
          /\ NoRefresh
       \/ /\ \/ part = "servers" /\ Servers!Init
             \/ part = "moves" /\ Moves!Init
             \/ part = "held" /\ Held!Init
             \/ part = "import" /\ Import!Init
             \/ part = "queue" /\ Queue!Init
          /\ NoSwitch
       \/ part = "fetch" /\ NoSwitch /\ NoRefresh

SuiteNext ==
    \/ /\ \/ part = "switch" /\ Switch!Next
          \/ part = "reapply" /\ Reapply!Next
          \/ part = "updates" /\ Updates!Next
       /\ UNCHANGED <<part, refreshVars, vars>>
    \/ /\ \/ part = "servers" /\ Servers!Next
          \/ part = "moves" /\ Moves!Next
          \/ part = "held" /\ Held!Next
          \/ part = "import" /\ Import!Next
          \/ part = "queue" /\ Queue!Next
       /\ UNCHANGED <<part, switchVars, vars>>
    \/ /\ part = "fetch" /\ Next
       /\ UNCHANGED <<part, switchVars, refreshVars>>

suite_vars == <<part, switchVars, refreshVars, vars>>
SuiteSpec == SuiteInit /\ [][SuiteNext]_suite_vars

-----------------------------------------------------------------------------
ASSUME /\ Switch!SwitchAssumption /\ Reapply!SwitchAssumption /\ Updates!SwitchAssumption
       /\ Servers!RefreshAssumption /\ Moves!RefreshAssumption /\ Held!RefreshAssumption
       /\ Import!RefreshAssumption /\ Queue!RefreshAssumption

\* RunsTheChosen.  Once nothing is under way, a session is that of the configuration the
\* user chose, as it is on disk and with the settings in force, and the window says of it
\* what it is; and after a click on Disconnect no read, switch, refusal or lost helper starts
\* one again (Backend's flags, reconnectActiveConfig, reapplyIfConnected, disconnectVpn).
RunsTheChosen ==
    /\ part = "switch" => Switch!TypeOK /\ Switch!RunsTheChosen /\ Switch!FlagsFollow
    /\ part = "reapply" => Reapply!RunsTheChosen /\ Reapply!OffStaysOff
    /\ part = "updates" => Updates!RunsTheChosen

\* NoUpdateForgotten.  An update held over a change of state of the tunnel, or behind the
\* editor, is written and the tunnel rebuilt with it (flushHeldSubscriptionUpdates); no
\* update is held for nothing (applySubscriptionUpdate).
NoUpdateForgotten ==
    /\ part = "updates" => Updates!NoUpdateForgotten
    /\ part = "servers" => Servers!HeldForAReason
    /\ part = "moves" => Moves!HeldForAReason
    /\ part = "held" => Held!TypeOK /\ Held!HeldForAReason

\* ServerMovesByConsent.  A refresh moves a configuration to another server only when the
\* user's last answer was yes to that server, and never back to an older document
\* (applySubscriptionUpdate, answerHostname).
ServerMovesByConsent ==
    [][/\ part = "servers" => Servers!ServerMovesByConsent /\ Servers!NeverGoesBack
       /\ part = "moves" => Moves!ServerMovesByConsent
       /\ part = "held" => Held!NeverGoesBack]_suite_vars

\* QueueFlows.  Nothing is fetched that nobody wants any more, nothing twice at a time, no
\* fetch waits beside a free place, and each fetch has one answer, a document only of a
\* whole body (fetch, abortFetch, pump, SubscriptionFetcher::finish).  SecretsStayHome is
\* the fetch's own.
QueueFlows ==
    /\ part = "queue" => Queue!FetchIsWanted /\ Queue!QueueFlows
    /\ part = "import" => Import!FetchIsWanted /\ Import!QueueFlows
    /\ part = "fetch" => TypeOK /\ OneAnswer /\ DocumentIsWhole
=============================================================================
