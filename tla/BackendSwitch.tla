--------------------------- MODULE BackendSwitch ---------------------------
(***************************************************************************)
(* Backend between the user and the helper: connect, disconnect, a switch  *)
(* to another configuration, live reapply of settings, and the updates a   *)
(* subscription makes to a configuration in use.  A connect reads the      *)
(* password on a worker, a switch takes the old tunnel down and connects   *)
(* once it reports Disconnected (or after five seconds), and an update     *)
(* waits while the tunnel is between states.                               *)
(*                                                                         *)
(* VpnHelperClient is cut down to what Backend sees of it: HelperLink is   *)
(* the module about the link, TunnelSession the one about the session.     *)
(* What one handler of the helper reports reaches Backend in one piece.    *)
(* Reconnecting and WaitingForNetwork read as Connecting here, as they do  *)
(* to Backend's flags.  Closing the application is left out.               *)
(***************************************************************************)
EXTENDS Naturals, Sequences, FiniteSets, SequencesExt

CONSTANTS
    Configs,       \* the configurations
    Linked,        \* those with a subscription
    Settings,      \* what a session is built with (sessionSettings())
    NoConfig, Unread, NoPassword,
    MaxReads,      \* bound: credential reads in flight
    MaxInFlight,   \* bound: orders and reports under way when somebody acts
    MaxVersion,    \* bound: versions of a configuration file
    Races          \* which of RaceKinds may happen

\* Races that undo a click:
\*   link      the helper goes while it serves;
\*   cross     the user acts while a report that changes what the window shows is
\*             on its way;
\*   afterOff  the user acts between the click on Disconnect and the last report of it;
\*   midSwitch the user acts while a connect still to come reads as off;
\*   midStart  a read finds no password while the connect it was to replace runs;
\*   refused   a connect is refused by a session at rest, with an error and no state.
RaceKinds == {"link", "cross", "afterOff", "midSwitch", "midStart", "refused"}

SwitchAssumption ==
    /\ Linked \subseteq Configs /\ Configs # {} /\ NoConfig \notin Configs /\ Settings # {}
    /\ Unread \notin Nat /\ NoPassword \notin Nat /\ Unread # NoPassword
    /\ MaxReads \in Nat \ {0} /\ MaxInFlight \in Nat /\ MaxVersion \in Nat
    /\ Races \subseteq RaceKinds

VARIABLES
    g,        \* Backend and its VpnHelperClient
    session,  \* the session in the helper, and the settings it holds
    reports,  \* what the helper has reported and Backend has not read
    files     \* the configuration files on disk

vars == <<g, session, reports, files>>

(***************************************************************************)
(* Types                                                                   *)
(***************************************************************************)
States == {"Disconnected", "Disconnecting", "Connecting", "Connected", "Error"}
Versions == 0..MaxVersion
Gens == 1..(MaxReads + 1)
Tomls == [path : Configs, version : Versions]
Orders == [kind : {"settings"}, value : Settings] \cup [kind : {"disconnect"}]
            \cup [kind : {"connect"}, toml : Tomls]

GuiType ==
    [list : SUBSET Configs, active : Configs \cup {NoConfig},
     connected : BOOLEAN, connecting : BOOLEAN, disconnecting : BOOLEAN,
     reapplying : BOOLEAN, pendingReconnect : BOOLEAN,
     awaiting : BOOLEAN,                     \* m_awaitingToml
     gen : Gens,                             \* m_connectGen
     reads : SUBSET [gen : Gens, path : Configs,      \* the workers
                     got : Versions \cup {Unread, NoPassword}],
     nets : SUBSET {"earlier", "latest"},    \* the 5 s nets, by m_reconnectGen
     fire : BOOLEAN, flush : BOOLEAN,        \* queued on the event loop
     autoConnect : BOOLEAN,                  \* m_autoConnectTimer
     rebuildPending : BOOLEAN,               \* m_subscriptionRebuildPending
     held : SUBSET Linked, busy : SUBSET Linked, editor : Linked \cup {NoConfig},
     state : States, helper : {"none", "starting", "ready"},  \* of the client
     pending : BOOLEAN, toml : Tomls, settings : Settings,
     built : SUBSET Settings,                \* m_sessionBuiltWith, empty when reset
     orders : Seq(Orders),
     failed : SUBSET Linked,                 \* history: the last write failed
     wanted : BOOLEAN,                       \* history: the last click served
     chosen : Configs \cup {NoConfig}]       \* history: the user's choice

TypeOK ==
    /\ g \in GuiType
    /\ session \in [state : States, toml : Tomls, settings : Settings, built : Settings]
    /\ reports \in Seq(Seq(States \cup {"refused"}))
    /\ files \in [Configs -> Versions]

Busy == Len(g.orders) + Len(reports)
Sends(b, o) == [b EXCEPT !.orders = Append(@, o)]

(***************************************************************************)
(* Backend: steps its handlers share, on the GUI's record                  *)
(***************************************************************************)
\* flushHeldSubscriptionUpdates
Flush(b) == [b EXCEPT !.flush = @ \/ b.held # {} \/ b.rebuildPending]

\* applyVpnClientState; the teardown of a switch reads as connecting.
ApplyState(b, st) ==
    LET reapplying == b.reapplying /\ st \notin {"Connected", "Error"}
        switching == reapplying /\ st \in {"Disconnecting", "Disconnected"}
    IN  [b EXCEPT !.connected = (st = "Connected"),
                  !.reapplying = reapplying,
                  !.connecting = (st = "Connecting" \/ switching),
                  !.disconnecting = (st = "Disconnecting" /\ ~reapplying)]

\* onVpnClientStateChanged
StateChanged(b, st) ==
    LET a == ApplyState([b EXCEPT !.state = st], st)
        f == [a EXCEPT !.fire = @ \/ (st = "Disconnected" /\ a.pendingReconnect)]
    IN  IF f.connecting \/ f.disconnecting THEN f ELSE Flush(f)

\* settleRefusedConnect
SettleRefused(b) ==
    IF b.connecting /\ ~b.awaiting /\ b.state \in {"Disconnected", "Error"}
    THEN [b EXCEPT !.connecting = FALSE] ELSE b

\* onVpnErrorReceived: what is said during a switch is the old session's.
ErrorReceived(b) == IF b.reapplying THEN b ELSE SettleRefused(b)

\* VpnHelperClient::setState and its signals.
Hears(b, r) == IF r = "refused" THEN ErrorReceived(b)
               ELSE IF r = b.state THEN b ELSE StateChanged(b, r)
HearsAll(b, rs) == FoldLeft(Hears, b, rs)
HearsEach(b, batches) == FoldLeft(HearsAll, b, batches)

\* VpnHelperClient::abortStartup
Aborted(b) == [b EXCEPT !.helper = "none", !.pending = FALSE, !.built = {}, !.orders = <<>>]

\* VpnHelperClient::disconnectVpn: before the helper is ready it reports at once.
ClientDisconnect(b) ==
    IF b.helper = "ready" THEN Sends([b EXCEPT !.built = {}], [kind |-> "disconnect"])
    ELSE StateChanged([Aborted(b) EXCEPT !.state = "Disconnected"], "Disconnected")

\* VpnHelperClient::connectVpn
ClientConnect(b) ==
    IF b.helper = "ready"
    THEN Sends([b EXCEPT !.built = {b.settings}], [kind |-> "connect", toml |-> b.toml])
    ELSE [b EXCEPT !.helper = "starting", !.pending = TRUE]

\* Room for another worker, and a generation no worker in flight has: only
\* whether two are equal counts.
Room == Cardinality(g.reads) < MaxReads
FreshGen(b) == CHOOSE n \in Gens : n # b.gen /\ \A r \in b.reads : r.gen # n

\* Mutant: an attempt made over another keeps its generation.
BuildTomlSameGen(b) ==
    [b EXCEPT !.awaiting = TRUE, !.rebuildPending = FALSE,
              !.reads = @ \cup {[gen |-> b.gen, path |-> b.active, got |-> Unread]}]

\* buildConnectTomlAsync
BuildToml(b) ==
    LET n == FreshGen(b)
    IN  [b EXCEPT !.gen = n, !.awaiting = TRUE, !.rebuildPending = FALSE,
                  !.reads = @ \cup {[gen |-> n, path |-> b.active, got |-> Unread]}]

StartConnectAttempt(b) == BuildToml([b EXCEPT !.connecting = TRUE])

\* reconnectActiveConfig, past its early return.
TakeDown(b) ==
    LET a == [b EXCEPT !.reapplying = TRUE, !.connecting = FALSE, !.pendingReconnect = TRUE]
    IN  [ClientDisconnect(a) EXCEPT !.nets = {"latest"} \cup (IF @ = {} THEN {} ELSE {"earlier"})]

Reconnect(b) ==
    IF b.active = NoConfig \/ b.pendingReconnect THEN b
    ELSE IF b.awaiting \/ (b.connecting /\ ~b.connected /\ b.helper # "ready") THEN BuildToml(b)
    ELSE IF b.connected \/ b.connecting THEN TakeDown(b) ELSE b

\* reapplyIfConnected, sessionSettingsChanged
Reapply(b) ==
    IF b.awaiting \/ b.pendingReconnect \/ (~b.connected /\ b.helper # "ready")
          \/ b.built = {b.settings}
    THEN b ELSE Reconnect(b)

\* Backend::disconnectVpn
Disconnected(b) ==
    IF ~b.connected /\ ~b.connecting THEN [b EXCEPT !.autoConnect = FALSE]
    ELSE ClientDisconnect([b EXCEPT !.autoConnect = FALSE, !.gen = FreshGen(b), !.awaiting = FALSE,
                                    !.reapplying = FALSE, !.pendingReconnect = FALSE,
                                    !.connecting = FALSE, !.disconnecting = TRUE,
                                    !.wanted = FALSE])

(***************************************************************************)
(* What the user does                                                      *)
(***************************************************************************)
JustOff(b) == ~b.wanted /\ (b.connected \/ b.connecting \/ Busy > 0)
ConnectOrdered(b) == b.pending \/ \E i \in 1..Len(b.orders) : b.orders[i].kind = "connect"
ReadsAsOff(b) == /\ ~b.connected /\ ~b.connecting
                 /\ b.pendingReconnect \/ b.awaiting \/ ConnectOrdered(b)
Flags(b) == <<b.connected, b.connecting, b.disconnecting>>
Undisturbed(b) == /\ "afterOff" \in Races \/ ~JustOff(b)
                  /\ "cross" \in Races \/ Flags(b) = Flags(HearsEach(b, reports))
                  /\ "midSwitch" \in Races \/ ~ReadsAsOff(b)
UserMay == Room /\ Busy < MaxInFlight /\ Undisturbed(g)

NoHelperChange == UNCHANGED <<session, reports>>

\* connectVpn, from the button, the hotkey, a link or the start-up timer.
Connect ==
    /\ UserMay
    /\ g.active # NoConfig /\ ~g.connected /\ ~g.connecting /\ ~g.disconnecting
    /\ g' = StartConnectAttempt([g EXCEPT !.wanted = TRUE, !.chosen = g.active])
    /\ NoHelperChange /\ UNCHANGED files

AutoConnect ==
    /\ g.autoConnect /\ Room
    /\ LET b == [g EXCEPT !.autoConnect = FALSE]
       IN  g' = IF g.active = NoConfig \/ g.connected \/ g.connecting \/ g.disconnecting THEN b
                ELSE StartConnectAttempt([b EXCEPT !.wanted = TRUE, !.chosen = g.active])
    /\ NoHelperChange /\ UNCHANGED files

Disconnect ==
    /\ UserMay
    /\ g.autoConnect \/ g.connected \/ g.connecting
    /\ g' = Disconnected(g)
    /\ NoHelperChange /\ UNCHANGED files

\* selectConfig
Select ==
    /\ UserMay
    /\ \E c \in g.list \ {g.active} :
          LET b == Flush([g EXCEPT !.active = c, !.chosen = c])
          IN  g' = IF b.connected \/ b.connecting THEN Reconnect(b) ELSE b
    /\ NoHelperChange /\ UNCHANGED files

\* removeConfig; the first of the list takes the place of the active one.
RemoveConfig ==
    /\ UserMay
    /\ \E c \in g.list :
          LET b == IF c = g.active /\ (g.connected \/ g.connecting) THEN Disconnected(g) ELSE g
              left == g.list \ {c}
              next == IF c # g.active THEN {g.active} ELSE IF left = {} THEN {NoConfig} ELSE left
          IN  \E a \in next :
                  g' = [b EXCEPT !.list = left, !.active = a, !.held = @ \ {c},
                                 !.chosen = IF c = @ THEN NoConfig ELSE @]
    /\ NoHelperChange /\ UNCHANGED files

\* A setter of Backend: one of what a session is built with, or of the routing that
\* is applied live (or a geo list that came in), which changes none of them.
Edit ==
    /\ UserMay
    /\ \E s \in Settings :
          LET b == [g EXCEPT !.settings = s]
              t == IF b.helper = "ready" THEN Sends(b, [kind |-> "settings", value |-> s]) ELSE b
          IN  g' = Reapply(t)
    /\ NoHelperChange /\ UNCHANGED files

\* createConfig over a configuration of the list: written, and the tunnel rebuilt.
SaveEdited ==
    /\ UserMay
    /\ \E c \in g.list :
          /\ files[c] < MaxVersion /\ c \notin g.busy
          /\ files' = [files EXCEPT ![c] = @ + 1]
          /\ g' = IF c = g.active /\ (g.connected \/ g.connecting) THEN Reconnect(g) ELSE g
    /\ NoHelperChange

\* setConfigOpenInEditor
OpenEditor ==
    /\ UserMay
    /\ \E c \in (g.list \cap Linked) \cup {NoConfig} :
          /\ c # g.editor
          /\ g' = Flush([g EXCEPT !.editor = c])
    /\ NoHelperChange /\ UNCHANGED files

(***************************************************************************)
(* The credential read                                                     *)
(***************************************************************************)
\* buildConnectConfigToml on the worker; the store may give no password.
WorkerReads ==
    \E r \in g.reads :
        /\ r.got = Unread
        /\ \E v \in {files[r.path], NoPassword} :
              g' = [g EXCEPT !.reads = (@ \ {r}) \cup {[r EXCEPT !.got = v]}]
        /\ NoHelperChange /\ UNCHANGED files

\* failConnectNoPassword
NoPasswordFor(b) == Flush([b EXCEPT !.connecting = FALSE, !.reapplying = FALSE])

\* onConnectTomlReady with a configuration: what the helper says from here is the
\* new session's.
Connects(b, r) ==
    ClientConnect([b EXCEPT !.reapplying = FALSE, !.toml = [path |-> r.path, version |-> r.got]])

HasPassword(r) == r.got # NoPassword

AtRest(s) == s \in {"Disconnected", "Error"}

\* onConnectTomlReady
TomlReady ==
    \E r \in g.reads :
        /\ r.got # Unread
        /\ r.got = NoPassword /\ r.gen = g.gen => "midStart" \in Races \/ ~(ConnectOrdered(g) \/ ~AtRest(session.state))
        /\ LET b == [g EXCEPT !.reads = @ \ {r}]
           IN  g' = IF r.gen # g.gen THEN b
                    ELSE IF ~HasPassword(r) THEN NoPasswordFor([b EXCEPT !.awaiting = FALSE])
                    ELSE Connects([b EXCEPT !.awaiting = FALSE], r)
        /\ NoHelperChange /\ UNCHANGED files

(***************************************************************************)
(* The second half of a switch                                             *)
(***************************************************************************)
\* firePendingReconnect
FirePending(b) ==
    IF ~b.pendingReconnect THEN b
    ELSE IF b.active = NoConfig THEN [b EXCEPT !.pendingReconnect = FALSE, !.reapplying = FALSE]
    ELSE StartConnectAttempt([b EXCEPT !.pendingReconnect = FALSE])

Fire ==
    /\ g.fire /\ Room
    /\ g' = FirePending([g EXCEPT !.fire = FALSE])
    /\ NoHelperChange /\ UNCHANGED files

\* Only the net of the latest teardown may reconnect.
Net(n) == LET b == [g EXCEPT !.nets = @ \ {n}]
          IN  IF n = "latest" THEN FirePending(b) ELSE b
NetFires ==
    /\ Room
    /\ \E n \in g.nets : g' = Net(n)
    /\ NoHelperChange /\ UNCHANGED files

(***************************************************************************)
(* Updates from a subscription                                             *)
(***************************************************************************)
\* subscriptionUpdateWaits
Waits(b, c) ==
    \/ c = b.editor
    \/ /\ c = b.active
       /\ b.connecting \/ b.disconnecting \/ b.reapplying \/ b.awaiting \/ b.pendingReconnect

\* applySubscriptionUpdate, up to the write, which runs the event loop; the read
\* of the password before it is taken to answer at once.
Applied(b, c) ==
    IF c \in b.busy THEN b
    ELSE IF Waits(b, c) THEN [b EXCEPT !.held = @ \cup {c}]
    ELSE [b EXCEPT !.busy = @ \cup {c}]

UpdateArrives ==
    /\ Busy < MaxInFlight
    /\ \E c \in Linked \cap g.list :
          /\ files[c] < MaxVersion /\ c \notin g.busy
          /\ g' = Applied(g, c)
    /\ NoHelperChange /\ UNCHANGED files

\* rebuildForSubscriptionUpdate, asked after the write.
RebuildFor(b, c) ==
    IF c # b.active THEN b
    ELSE IF b.connected THEN Reconnect(b)
    ELSE [b EXCEPT !.rebuildPending = @ \/ b.connecting \/ b.awaiting]

\* The write is done, or failed and left both stores as they were.
UpdateWritten ==
    /\ Room
    /\ Undisturbed(g)
    /\ \E c \in g.busy :
          LET b == [g EXCEPT !.busy = @ \ {c}]
          IN  \/ /\ files[c] < MaxVersion
                 /\ files' = [files EXCEPT ![c] = @ + 1]
                 /\ g' = RebuildFor([b EXCEPT !.held = @ \ {c}, !.failed = @ \ {c}], c)
              \/ g' = [b EXCEPT !.failed = @ \cup {c}] /\ UNCHANGED files
    /\ NoHelperChange

\* The queued half of flushHeldSubscriptionUpdates.
FlushHeld ==
    /\ g.flush /\ Room
    /\ Undisturbed(g)
    /\ LET b == [g EXCEPT !.flush = FALSE]
           r == IF b.rebuildPending /\ b.connected
                THEN Reconnect([b EXCEPT !.rebuildPending = FALSE]) ELSE b
           now == {c \in r.held : ~Waits(r, c)}
       IN  g' = [r EXCEPT !.busy = @ \cup now]
    /\ NoHelperChange /\ UNCHANGED files

(***************************************************************************)
(* The helper, as Backend sees it                                          *)
(***************************************************************************)
\* handleReadyEvent: every setting, then the connect that waited.
HelperReady ==
    /\ g.helper = "starting"
    /\ LET b == Sends([g EXCEPT !.helper = "ready", !.pending = FALSE],
                      [kind |-> "settings", value |-> g.settings])
       IN  g' = IF g.pending THEN ClientConnect(b) ELSE b
    /\ NoHelperChange /\ UNCHANGED files

\* fail() while the helper starts.
HelperFails ==
    /\ g.helper = "starting"
    /\ g' = HearsAll(Aborted(g), <<"refused", "Error", "Disconnected">>)
    /\ NoHelperChange /\ UNCHANGED files

LinkLost ==
    /\ "link" \in Races /\ g.helper = "ready"
    /\ g' = Hears(Aborted(g), "Disconnected")
    /\ session' = [session EXCEPT !.state = "Disconnected"]
    /\ reports' = <<>>
    /\ UNCHANGED files

Reads ==
    /\ reports # <<>>
    /\ g' = HearsAll(g, Head(reports))
    /\ reports' = Tail(reports)
    /\ UNCHANGED <<session, files>>

\* The helper reads its next order.
Order(kind) == g.orders # <<>> /\ Head(g.orders).kind = kind
Taken == g' = [g EXCEPT !.orders = Tail(@)]
Says(rs) == reports' = IF rs = <<>> THEN reports ELSE Append(reports, rs)

SettingsRead ==
    /\ Order("settings") /\ Taken
    /\ session' = [session EXCEPT !.settings = Head(g.orders).value]
    /\ UNCHANGED <<reports, files>>

ConnectRead ==
    /\ Order("connect") /\ Taken
    /\ LET halted == IF AtRest(session.state) THEN <<>> ELSE <<"Disconnecting", "Disconnected">>
       IN  \/ /\ session' = [session EXCEPT !.state = "Connecting", !.toml = Head(g.orders).toml,
                                            !.built = session.settings]
              /\ Says(halted \o <<"Disconnected", "Connecting">>)
           \/ \E s \in {"Error", "Disconnected"} :
                 /\ "refused" \in Races \/ s # session.state
                 /\ session' = [session EXCEPT !.state = s]
                 /\ Says(halted \o <<s, "refused">>)
    /\ UNCHANGED files

DisconnectRead ==
    /\ Order("disconnect") /\ Taken
    /\ session' = [session EXCEPT !.state = "Disconnected"]
    /\ Says(<<"Disconnecting", "Disconnected">>)
    /\ UNCHANGED files

\* The session comes up, drops, gives up, or is built again by itself, with a
\* Disconnected on the way (loadConfigFromToml).
SessionMoves ==
    /\ Busy < MaxInFlight
    /\ \/ /\ session.state = "Connecting"
          /\ "cross" \in Races \/ \A i \in 1..Len(g.orders) : g.orders[i].kind # "disconnect"
          /\ session' = [session EXCEPT !.state = "Connected"] /\ Says(<<"Connected">>)
       \/ /\ session.state = "Connecting"
          /\ session' = [session EXCEPT !.state = "Error"] /\ Says(<<"Error", "refused">>)
       \/ /\ session.state = "Connecting"
          /\ session' = [session EXCEPT !.built = session.settings]
          /\ Says(<<"Disconnected", "Connecting">>)
       \/ /\ session.state = "Connected"
          /\ session' = [session EXCEPT !.state = "Connecting"] /\ Says(<<"Connecting">>)
    /\ UNCHANGED <<g, files>>

(***************************************************************************)
(* The specification                                                       *)
(***************************************************************************)
Init ==
    /\ files = [c \in Configs |-> 0]
    /\ reports = <<>>
    /\ \E a \in Configs, s \in Settings, auto \in BOOLEAN :
          LET toml == [path |-> a, version |-> 0]
          IN  /\ g = [list |-> Configs, active |-> a,
                      connected |-> FALSE, connecting |-> FALSE, disconnecting |-> FALSE,
                      reapplying |-> FALSE, pendingReconnect |-> FALSE, awaiting |-> FALSE,
                      gen |-> 1, reads |-> {}, nets |-> {}, fire |-> FALSE, flush |-> FALSE,
                      autoConnect |-> auto, rebuildPending |-> FALSE,
                      held |-> {}, busy |-> {}, editor |-> NoConfig,
                      state |-> "Disconnected", helper |-> "none", pending |-> FALSE,
                      toml |-> toml, settings |-> s, built |-> {}, orders |-> <<>>,
                      failed |-> {}, wanted |-> FALSE, chosen |-> NoConfig]
              /\ session = [state |-> "Disconnected", toml |-> toml, settings |-> s, built |-> s]

User == Connect \/ Disconnect \/ Select \/ RemoveConfig \/ Edit \/ SaveEdited \/ OpenEditor
EventLoop == AutoConnect \/ WorkerReads \/ TomlReady \/ Fire \/ NetFires \/ UpdateWritten \/ FlushHeld
                \/ HelperReady \/ HelperFails \/ LinkLost \/ Reads
Helper == SettingsRead \/ ConnectRead \/ DisconnectRead \/ SessionMoves

Next == User \/ UpdateArrives \/ EventLoop \/ Helper

Spec == Init /\ [][Next]_vars

(***************************************************************************)
(* Properties                                                              *)
(***************************************************************************)
\* Nothing more comes of what happened so far.
Quiet == /\ g.orders = <<>> /\ reports = <<>> /\ g.reads = {} /\ g.nets = {}
         /\ ~g.fire /\ ~g.flush /\ g.busy = {} /\ g.helper # "starting"

\* FlagsFollow.  Once nothing is under way the window agrees with the session, and
\* no flag of a switch is left on to swallow the next click, edit or error.
FlagsFollow ==
    Quiet => /\ g.connected = (session.state = "Connected")
             /\ g.connecting = (session.state = "Connecting")
             /\ ~g.disconnecting /\ ~g.reapplying /\ ~g.pendingReconnect /\ ~g.awaiting

\* OffStaysOff.  After a Disconnect nothing starts a session: no read, no switch,
\* no order that waits (disconnectVpn).
OffStaysOff ==
    ~g.wanted => /\ ~g.pendingReconnect /\ ~g.awaiting /\ ~g.pending
                 /\ Quiet => AtRest(session.state)

\* RunsTheChosen.  Settled, a session is that of the active configuration as it is
\* on disk, built with the settings in force.
RunsTheChosen ==
    Quiet /\ ~AtRest(session.state)
        => /\ session.toml.path = g.active /\ g.active = g.chosen
           /\ session.toml.version = files[g.active] \/ g.rebuildPending
           /\ session.built = g.settings

\* NoUpdateForgotten.  A held update is applied once its tunnel is settled and the
\* editor let go of it, and the tunnel rebuilt with it (flushHeldSubscriptionUpdates).
NoUpdateForgotten ==
    Quiet /\ session.state # "Connecting"
        => g.held \subseteq {g.editor} \cup g.failed /\ (g.connected => ~g.rebuildPending)
=============================================================================
