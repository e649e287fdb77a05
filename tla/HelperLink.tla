----------------------------- MODULE HelperLink -----------------------------
(***************************************************************************)
(* The link between the GUI (VpnHelperClient, driven by Backend) and the   *)
(* elevated helper (HelperServer): launch behind a password prompt, a port *)
(* that is dialled until something answers, the mutual handshake, and then *)
(* commands one way and states the other, each in order.  Either end may   *)
(* go at any moment, and something else may be answering on the port.      *)
(*                                                                         *)
(* One launch of the helper stands for its process, its port and its       *)
(* token.  A proof is represented by the token it was made with: both      *)
(* nonces are made for one connection and a proof for it serves no other.  *)
(* The session in the helper is cut down to what it reports: TunnelSession *)
(* is the module about it.  Backend is cut down to its two optimistic      *)
(* flags; the credential read before a connect takes no time here.         *)
(***************************************************************************)
EXTENDS Naturals, Sequences, FiniteSets

CONSTANTS
    Helpers,      \* slots for launches of the helper
    Conns,        \* slots for connections to the port
    Settings,     \* what a session is built from (sessionSettings())
    NoHelper, NoConn, NoSettings, \* none
    Stranger,     \* the process that answers on the port in the helper's place
    StrangerThere,\* whether there is one
    DiesServing,  \* whether a helper may die once it has reported ready
    MaxInFlight   \* bound: clicks, edits and session moves wait below it only

ASSUME SlotsAssumption == /\ NoHelper \notin Helpers /\ Stranger \notin Helpers
                          /\ NoHelper # Stranger /\ NoConn \notin Conns
ASSUME SettingsAssumption == NoSettings \notin Settings /\ Settings # {}
ASSUME SwitchesAssumption == /\ StrangerThere \in BOOLEAN /\ DiesServing \in BOOLEAN
                             /\ MaxInFlight \in Nat

VARIABLES
    gui,    \* VpnHelperClient, and Backend's flags
    conn,   \* the connections
    helper  \* the helper processes

vars == <<gui, conn, helper>>

(***************************************************************************)
(* Types                                                                   *)
(***************************************************************************)
States == {"Disconnected", "Disconnecting", "Connecting", "Connected", "Error"}

Commands == [kind : {"hello", "connect", "disconnect", "quit"}]
              \cup [kind : {"auth"}, token : Helpers]
              \cup [kind : {"settings"}, value : Settings]
Events == [kind : {"challenge"}, token : Helpers \cup {Stranger}]
            \cup [kind : {"ready", "error"}]
            \cup [kind : {"state"}, state : States]

GuiType ==
    [state : States, acked : BOOLEAN, proven : BOOLEAN, pending : BOOLEAN,
     starting : BOOLEAN, retry : BOOLEAN,
     sock : Conns \cup {NoConn},             \* m_sock, while it is connected
     helper : Helpers \cup {NoHelper},       \* the launch m_token was made for
     deadline : Helpers \cup {NoHelper},     \* the launch m_handshake was armed in
     settings : Settings, builtWith : Settings \cup {NoSettings},
     connecting : BOOLEAN, disconnecting : BOOLEAN,   \* of Backend
     wanted : BOOLEAN]                \* history: what the last click asked for

\* Where the helper has the connection: fresh, its nonce sent, or the one it serves.
Stages == {"fresh", "challenged", "serving"}
ConnType == [peer : Helpers \cup {NoHelper, Stranger}, near : BOOLEAN, far : BOOLEAN,
             stage : Stages, toHelper : Seq(Commands), toGui : Seq(Events)]

HelperType == [phase : {"absent", "prompted", "listening"}, session : States,
               settings : Settings \cup {NoSettings}, built : Settings \cup {NoSettings}]

TypeOK ==
    /\ gui \in GuiType
    /\ conn \in [Conns -> ConnType]
    /\ helper \in [Helpers -> HelperType]
    /\ \A c \in Conns : conn[c].near <=> gui.sock = c

(***************************************************************************)
(* The two ends of a connection                                            *)
(***************************************************************************)
Closed == [peer |-> NoHelper, near |-> FALSE, far |-> FALSE, stage |-> "fresh",
           toHelper |-> <<>>, toGui |-> <<>>]
Absent == [phase |-> "absent", session |-> "Disconnected",
           settings |-> NoSettings, built |-> NoSettings]

Up == gui.sock # NoConn

NearClosed(k) == IF k.far THEN [k EXCEPT !.near = FALSE, !.toGui = <<>>] ELSE Closed
FarClosed(k)  == IF k.near THEN [k EXCEPT !.far = FALSE, !.toHelper = <<>>] ELSE Closed

\* What is written to a connection whose far end is gone goes nowhere.
Tell(k, cs) == IF k.far THEN [k EXCEPT !.toHelper = @ \o cs] ELSE k
Report(k, es) == IF k.near THEN [k EXCEPT !.toGui = @ \o es] ELSE k

GuiHangsUp == conn' = [c \in Conns |-> IF c = gui.sock THEN NearClosed(conn[c]) ELSE conn[c]]
GuiTells(cs) == conn' = [c \in Conns |-> IF c = gui.sock THEN Tell(conn[c], cs) ELSE conn[c]]

Served(h) == {c \in Conns : conn[c].peer = h /\ conn[c].stage = "serving"}
HelperReports(h, es) ==
    conn' = [c \in Conns |-> IF c \in Served(h) THEN Report(conn[c], es) ELSE conn[c]]

\* The process of h ends, and every connection it held with it.
HelperEnds(h) ==
    /\ helper' = [helper EXCEPT ![h] = Absent]
    /\ conn' = [c \in Conns |-> IF conn[c].peer = h THEN FarClosed(conn[c]) ELSE conn[c]]

InFlight == IF Up THEN Len(conn[gui.sock].toHelper) + Len(conn[gui.sock].toGui) ELSE 0

(***************************************************************************)
(* VpnHelperClient: steps its handlers share, on the GUI's record          *)
(***************************************************************************)
\* setState, and what Backend makes of the stateChanged it emits.
StateShown(g, s) ==
    IF g.state = s THEN g
    ELSE [g EXCEPT !.state = s, !.connecting = (s = "Connecting"),
                   !.disconnecting = (s = "Disconnecting")]

Off(g) == [g EXCEPT !.state = "Disconnected", !.connecting = FALSE, !.disconnecting = FALSE]

\* Mutant: the cancelled connect is left pending.
AbortedStillPending(g) ==
    [g EXCEPT !.builtWith = NoSettings, !.starting = FALSE,
              !.acked = FALSE, !.proven = FALSE, !.retry = FALSE,
              !.deadline = NoHelper, !.sock = NoConn, !.helper = NoHelper]

\* abortStartup
Aborted(g) ==
    [g EXCEPT !.pending = FALSE, !.builtWith = NoSettings, !.starting = FALSE,
              !.acked = FALSE, !.proven = FALSE, !.retry = FALSE,
              !.deadline = NoHelper, !.sock = NoConn, !.helper = NoHelper]

\* fail: it reports an error, Error and Disconnected, so both flags are cleared.
Fail == gui' = Off(Aborted(gui)) /\ GuiHangsUp

\* connectVpn with the helper ready.
ConnectSent(g) == [g EXCEPT !.builtWith = g.settings]
ConnectCommand == [kind |-> "connect"]
SettingsCommand(s) == [kind |-> "settings", value |-> s]

(***************************************************************************)
(* What the user asks of the GUI                                           *)
(***************************************************************************)
FreeHelpers == {h \in Helpers : /\ helper[h].phase = "absent" /\ gui.helper # h
                                /\ gui.deadline # h
                                /\ \A c \in Conns : conn[c].peer # h}

\* ensureHelper starts a helper: a new port, token and prompt.
LaunchHelper(g) ==
    \/ \E h \in FreeHelpers :
           /\ gui' = [g EXCEPT !.starting = TRUE, !.retry = TRUE, !.helper = h, !.pending = TRUE]
           /\ helper' = [helper EXCEPT ![h].phase = "prompted"]
           /\ UNCHANGED conn
    \/ Fail /\ UNCHANGED helper

\* VpnHelperClient::connectVpn, for a GUI whose flags are those of g.
ConnectVpn(g) ==
    \/ /\ gui.acked
       /\ gui' = ConnectSent(g)
       /\ GuiTells(<<ConnectCommand>>)
       /\ UNCHANGED helper
    \/ /\ ~gui.acked /\ (Up \/ gui.starting)
       /\ gui' = [g EXCEPT !.pending = TRUE]
       /\ UNCHANGED <<conn, helper>>
    \/ ~Up /\ ~gui.starting /\ LaunchHelper(g)

\* Backend::connectVpn: a click on Connect, unless something is up or under way.
StartConnectAttempt ==
    /\ gui.state # "Connected" /\ ~gui.connecting /\ ~gui.disconnecting
    /\ InFlight < MaxInFlight
    /\ ConnectVpn([gui EXCEPT !.connecting = TRUE, !.wanted = TRUE])

\* reconnectActiveConfig while the connect has not left the GUI: it is made again
\* for the config picked now.
PickAnotherConfig ==
    /\ gui.connecting /\ ~gui.acked
    /\ ConnectVpn(gui)

\* Backend::disconnectVpn: a click on Disconnect, or on the button while connecting.
DisconnectVpn ==
    /\ gui.state = "Connected" \/ gui.connecting
    /\ \/ /\ ~gui.acked
          /\ gui' = [Off(Aborted(gui)) EXCEPT !.wanted = FALSE]
          /\ GuiHangsUp
       \/ /\ gui.acked
          /\ InFlight < MaxInFlight
          /\ gui' = [gui EXCEPT !.connecting = FALSE, !.disconnecting = TRUE,
                                !.builtWith = NoSettings, !.wanted = FALSE]
          /\ GuiTells(<<[kind |-> "disconnect"]>>)
    /\ UNCHANGED helper

\* The setters of VpnHelperClient, all of them taken as one.
EditSettings ==
    /\ InFlight < MaxInFlight
    /\ \E s \in Settings \ {gui.settings} :
           /\ gui' = [gui EXCEPT !.settings = s]
           /\ IF gui.acked THEN GuiTells(<<SettingsCommand(s)>>)
                           ELSE UNCHANGED conn
    /\ UNCHANGED helper

\* shutdown(), and the GUI started again later.
Shutdown ==
    /\ gui' = [Off(Aborted(gui)) EXCEPT !.wanted = FALSE]
    /\ conn' = [c \in Conns |->
                  IF c # gui.sock THEN conn[c]
                  ELSE NearClosed(IF gui.acked THEN Tell(conn[c], <<[kind |-> "quit"]>>)
                                               ELSE conn[c])]
    /\ UNCHANGED helper

(***************************************************************************)
(* The GUI's end of the connection                                         *)
(***************************************************************************)
\* Mutant: nothing watches the peer once it accepted the connection.
SocketUpUnwatched(g, c) == [g EXCEPT !.sock = c, !.starting = FALSE]

\* onSocketConnected; the hello it sends is RetryDials' own.
SocketUp(g, c) == [g EXCEPT !.sock = c, !.starting = FALSE, !.deadline = g.helper]

\* What accepts the connection: the helper once it listens, or a stranger before.
Answering == IF helper[gui.helper].phase = "listening" THEN {gui.helper}
             ELSE IF StrangerThere THEN {Stranger} ELSE {}

\* The retry timer dials, and is answered.
RetryDials ==
    /\ gui.retry /\ ~Up
    /\ \E c \in Conns, p \in Answering :
           /\ conn[c] = Closed
           /\ gui' = SocketUp(gui, c)
           /\ conn' = [conn EXCEPT ![c] = [Closed EXCEPT !.peer = p, !.near = TRUE, !.far = TRUE,
                                                       !.toHelper = <<[kind |-> "hello"]>>]]
    /\ UNCHANGED helper

RetryStops ==
    /\ gui.retry /\ Up
    /\ gui' = [gui EXCEPT !.retry = FALSE]
    /\ UNCHANGED <<conn, helper>>

\* The 240 tries are spent, the prompt was declined, or the service stopped.
AttemptFails ==
    /\ gui.retry /\ ~Up
    /\ Fail
    /\ UNCHANGED helper

HandshakeDeadline ==
    /\ gui.deadline # NoHelper /\ ~gui.acked
    /\ Fail
    /\ UNCHANGED helper

\* Mutant: a lost connection leaves its peer proven.
LinkLostStillProven(g) ==
    StateShown([g EXCEPT !.acked = FALSE, !.starting = FALSE,
                         !.builtWith = NoSettings, !.sock = NoConn], "Disconnected")

LinkLost(g) ==
    StateShown([g EXCEPT !.acked = FALSE, !.proven = FALSE, !.starting = FALSE,
                         !.builtWith = NoSettings, !.sock = NoConn], "Disconnected")

\* The disconnected signal.  What the far end wrote last may never be read.
SocketDisconnected ==
    /\ Up /\ ~conn[gui.sock].far
    /\ gui' = LinkLost(gui)
    /\ conn' = [conn EXCEPT ![gui.sock] = Closed]
    /\ UNCHANGED helper

\* The event of kind that the GUI reads next, taken off the connection, with
\* what it answers.
Answered(k, cs) == [Tell(k, cs) EXCEPT !.toGui = Tail(@)]
Reads(kind, cs) ==
    /\ Up /\ conn[gui.sock].toGui # <<>>
    /\ Head(conn[gui.sock].toGui).kind = kind
    /\ conn' = [conn EXCEPT ![gui.sock] = Answered(@, cs)]
    /\ UNCHANGED helper
Event == Head(conn[gui.sock].toGui)

ChallengeAnswered ==
    /\ ~gui.acked
    /\ Reads("challenge", <<[kind |-> "auth", token |-> gui.helper]>>)
    /\ Event.token = gui.helper
    /\ gui' = [gui EXCEPT !.proven = TRUE]

\* A wrong proof, or anything else from a peer that has not proven itself.
PeerRefused ==
    /\ Up /\ conn[gui.sock].toGui # <<>> /\ ~gui.acked
    /\ IF Event.kind = "challenge" THEN Event.token # gui.helper ELSE ~gui.proven
    /\ Fail
    /\ UNCHANGED helper

\* Mutant: the pending connect goes out before the settings.
ReadyConnectFirst == (IF gui.pending THEN <<ConnectCommand>> ELSE <<>>)
                        \o <<SettingsCommand(gui.settings)>>

\* handleReadyEvent: every setting, then the connect that waited for it.
ReadyCommands == <<SettingsCommand(gui.settings)>>
                    \o (IF gui.pending THEN <<ConnectCommand>> ELSE <<>>)

HelperReady ==
    /\ gui.proven
    /\ Reads("ready", ReadyCommands)
    /\ LET g == [gui EXCEPT !.acked = TRUE, !.deadline = NoHelper, !.pending = FALSE]
       IN  gui' = IF gui.pending THEN ConnectSent(g) ELSE g

StateReported ==
    /\ gui.proven
    /\ Reads("state", <<>>)
    /\ gui' = StateShown(gui, Event.state)

\* Mutant: an error is shown, but settles nothing.
ErrorOnlyShown ==
    /\ gui.proven
    /\ Reads("error", <<>>)
    /\ UNCHANGED gui

\* onVpnErrorReceived: settleRefusedConnect
ErrorReported ==
    /\ gui.proven
    /\ Reads("error", <<>>)
    /\ gui' = IF gui.state \in {"Disconnected", "Error"}
              THEN [gui EXCEPT !.connecting = FALSE] ELSE gui

(***************************************************************************)
(* The helper                                                              *)
(***************************************************************************)
\* The prompt was answered, the token file is still there and the port is free.
HelperStarts(h) ==
    /\ helper[h].phase = "prompted" /\ gui.helper = h
    /\ \A c \in Conns : conn[c].peer # Stranger
    /\ helper' = [helper EXCEPT ![h].phase = "listening"]
    /\ UNCHANGED <<gui, conn>>

\* Declined, or started to find its token file or its port gone.
HelperNeverStarts(h) ==
    /\ helper[h].phase = "prompted"
    /\ helper' = [helper EXCEPT ![h] = Absent]
    /\ UNCHANGED <<gui, conn>>

\* Nobody authenticated within the minute.
UnauthenticatedExit(h) ==
    /\ helper[h].phase = "listening" /\ Served(h) = {}
    /\ HelperEnds(h)
    /\ UNCHANGED gui

\* A signal, or a crash.
HelperDies(h) ==
    /\ DiesServing
    /\ helper[h].phase = "listening" /\ Served(h) # {}
    /\ HelperEnds(h)
    /\ UNCHANGED gui

\* The five seconds of an unauthenticated connection, or eight later ones.
PendingDropped(c) ==
    /\ conn[c].far /\ conn[c].peer \in Helpers /\ conn[c].stage # "serving"
    /\ conn' = [conn EXCEPT ![c] = FarClosed(@)]
    /\ UNCHANGED <<gui, helper>>

\* Mutant: the connection it served is only dropped.
GuiGoneDropped(c) ==
    /\ conn[c].far /\ ~conn[c].near /\ conn[c].peer \in Helpers
    /\ conn' = [conn EXCEPT ![c] = IF conn[c].stage = "serving"
                                   THEN [@ EXCEPT !.toHelper = <<>>] ELSE Closed]
    /\ UNCHANGED <<gui, helper>>

\* The GUI's end closed: the helper leaves with the connection it served.
GuiGone(c) ==
    /\ conn[c].far /\ ~conn[c].near /\ conn[c].peer \in Helpers
    /\ IF conn[c].stage = "serving" THEN HelperEnds(conn[c].peer)
       ELSE /\ conn' = [conn EXCEPT ![c] = Closed]
            /\ UNCHANGED helper
    /\ UNCHANGED gui

\* The command c delivers next; h is the helper at its far end.
Delivers(c, h, kind) ==
    /\ conn[c].far /\ conn[c].peer = h /\ conn[c].toHelper # <<>>
    /\ Head(conn[c].toHelper).kind = kind
Taken(c, es) == [Report(conn[c], es) EXCEPT !.toHelper = Tail(@)]

\* handleHelloLine; a second hello drops the connection.
HelloRead(c, h) ==
    /\ Delivers(c, h, "hello")
    /\ conn' = [conn EXCEPT ![c] =
                  IF conn[c].stage = "fresh"
                  THEN [Taken(c, <<[kind |-> "challenge", token |-> h]>>)
                          EXCEPT !.stage = "challenged"]
                  ELSE FarClosed(@)]
    /\ UNCHANGED <<gui, helper>>

\* onPendingRead's second step, and promoteToAuthed.
AuthRead(c, h) ==
    /\ Delivers(c, h, "auth")
    /\ IF conn[c].stage = "challenged" /\ Head(conn[c].toHelper).token = h
       THEN conn' = [d \in Conns |->
                       IF d = c THEN [Taken(c, <<[kind |-> "ready"]>>) EXCEPT !.stage = "serving"]
                       ELSE IF conn[d].peer = h /\ conn[d].far THEN FarClosed(conn[d])
                       ELSE conn[d]]
       ELSE conn' = [conn EXCEPT ![c] = FarClosed(@)]
    /\ UNCHANGED <<gui, helper>>

SettingsRead(c, h) ==
    /\ Delivers(c, h, "settings")
    /\ helper' = [helper EXCEPT ![h].settings = Head(conn[c].toHelper).value]
    /\ conn' = [conn EXCEPT ![c] = Taken(c, <<>>)]
    /\ UNCHANGED gui

Reported(s) == [kind |-> "state", state |-> s]
Changed(s, t) == IF s = t THEN <<>> ELSE <<Reported(t)>>

\* disconnectVpn in the helper reports both states, whatever the session was in.
Stopped == <<Reported("Disconnecting"), Reported("Disconnected")>>

\* beginConnect takes a running session down first; the 150 ms pass at once.
AtRest(s) == s \in {"Disconnected", "Error"}
Halted(s) == IF AtRest(s) THEN <<>> ELSE Stopped
HaltedAt(s) == IF AtRest(s) THEN s ELSE "Disconnected"

\* handleConnect, beginConnect: the session starts from the settings of now.
ConnectRead(c, h) ==
    /\ Delivers(c, h, "connect")
    /\ helper' = [helper EXCEPT ![h].session = "Connecting", ![h].built = helper[h].settings]
    /\ LET s == helper[h].session
       IN  conn' = [conn EXCEPT ![c] =
                Taken(c, Halted(s) \o Changed(HaltedAt(s), "Disconnected")
                           \o <<Reported("Connecting")>>)]
    /\ UNCHANGED gui

\* Refused with an error: a config that does not load, or no privileges.
ConnectRefused(c, h) ==
    /\ Delivers(c, h, "connect")
    /\ \E t \in {"Error", "Disconnected"} :
           /\ helper' = [helper EXCEPT ![h].session = t]
           /\ LET s == helper[h].session
              IN  conn' = [conn EXCEPT ![c] =
                       Taken(c, Halted(s) \o Changed(HaltedAt(s), t) \o <<[kind |-> "error"]>>)]
    /\ UNCHANGED gui

DisconnectRead(c, h) ==
    /\ Delivers(c, h, "disconnect")
    /\ helper' = [helper EXCEPT ![h].session = "Disconnected"]
    /\ conn' = [conn EXCEPT ![c] = Taken(c, Stopped)]
    /\ UNCHANGED gui

QuitRead(c, h) ==
    /\ Delivers(c, h, "quit")
    /\ HelperEnds(h)
    /\ UNCHANGED gui

\* The session moves on its own.
SessionMoves(h) ==
    /\ \E c \in Served(h) : Len(conn[c].toHelper) + Len(conn[c].toGui) < MaxInFlight
    /\ ~AtRest(helper[h].session)
    /\ \E t \in {"Connecting", "Connected", "Error"} \ {helper[h].session} :
           /\ helper' = [helper EXCEPT ![h].session = t]
           /\ HelperReports(h, <<Reported(t)>>)
    /\ UNCHANGED gui

(***************************************************************************)
(* The stranger on the port: it says what it likes, but knows no token.    *)
(***************************************************************************)
StrangerAnswers(c) ==
    /\ conn[c].peer = Stranger /\ conn[c].far /\ conn[c].near /\ conn[c].toHelper # <<>>
    /\ \E e \in {[kind |-> "challenge", token |-> Stranger], [kind |-> "ready"]} :
           conn' = [conn EXCEPT ![c] = Taken(c, <<e>>)]
    /\ UNCHANGED <<gui, helper>>

StrangerCloses(c) ==
    /\ conn[c].peer = Stranger /\ conn[c].far
    /\ conn' = [conn EXCEPT ![c] = FarClosed(@)]
    /\ UNCHANGED <<gui, helper>>

(***************************************************************************)
(* The specification                                                       *)
(***************************************************************************)
Init ==
    /\ \E s \in Settings :
          gui = [state |-> "Disconnected", acked |-> FALSE, proven |-> FALSE, pending |-> FALSE,
                 starting |-> FALSE, retry |-> FALSE, sock |-> NoConn, helper |-> NoHelper,
                 deadline |-> NoHelper, settings |-> s, builtWith |-> NoSettings,
                 connecting |-> FALSE, disconnecting |-> FALSE, wanted |-> FALSE]
    /\ conn = [c \in Conns |-> Closed]
    /\ helper = [h \in Helpers |-> Absent]

User == \/ StartConnectAttempt \/ PickAnotherConfig \/ DisconnectVpn
        \/ EditSettings \/ Shutdown

Gui == \/ RetryDials \/ RetryStops \/ AttemptFails \/ HandshakeDeadline
       \/ SocketDisconnected \/ ChallengeAnswered \/ PeerRefused \/ HelperReady
       \/ StateReported \/ ErrorReported

Reading(c, h) == \/ HelloRead(c, h) \/ AuthRead(c, h) \/ SettingsRead(c, h)
                 \/ ConnectRead(c, h) \/ ConnectRefused(c, h)
                 \/ DisconnectRead(c, h) \/ QuitRead(c, h)

Process(h) == \/ HelperStarts(h) \/ HelperNeverStarts(h) \/ UnauthenticatedExit(h)
              \/ HelperDies(h) \/ SessionMoves(h)

Wire(c) == PendingDropped(c) \/ GuiGone(c) \/ StrangerAnswers(c) \/ StrangerCloses(c)

Next == \/ User \/ Gui
        \/ \E h \in Helpers : Process(h) \/ \E c \in Conns : Reading(c, h)
        \/ \E c \in Conns : Wire(c)

Spec == Init /\ [][Next]_vars

\* The event loops of both processes run and their timers fire; a closed end is
\* noticed at the other.  Nobody has to answer the prompt, and no session moves.
Fairness ==
    /\ WF_vars(RetryStops) /\ WF_vars(AttemptFails) /\ WF_vars(HandshakeDeadline)
    /\ WF_vars(SocketDisconnected)
    /\ WF_vars(ChallengeAnswered \/ PeerRefused \/ HelperReady
                  \/ StateReported \/ ErrorReported)
    /\ \A h \in Helpers :
          /\ WF_vars(UnauthenticatedExit(h))
          /\ \A c \in Conns : WF_vars(Reading(c, h))
    /\ \A c \in Conns : WF_vars(GuiGone(c))

FairSpec == Spec /\ Fairness

(***************************************************************************)
(* Properties                                                              *)
(***************************************************************************)
\* Where the commands stand that are under way to the helper, other than those of
\* the handshake and the settings.
Ordering == conn[gui.sock].toHelper
Orders == IF Up THEN {i \in DOMAIN Ordering : Ordering[i].kind \in {"connect", "disconnect"}}
          ELSE {}
Serving == helper[conn[gui.sock].peer]

\* ConfigOnlyToHelper.  The configuration, password included, and the settings
\* go to the helper this GUI launched and to nothing else that may answer on the
\* port (handleEvent, handleChallengeEvent).
ConfigOnlyToHelper ==
    \A c \in Conns : \A i \in 1..Len(conn[c].toHelper) :
        conn[c].toHelper[i].kind \in {"connect", "settings", "disconnect"}
            => conn[c].peer \in Helpers /\ (conn[c].near => conn[c].peer = gui.helper)

\* LastClickWins.  After a Disconnect no connect waits for the handshake or is the
\* last order under way, and a helper that has read its orders has no session
\* running (disconnectVpn, abortStartup, handleReadyEvent).
LastClickWins ==
    ~gui.wanted => /\ ~gui.pending
                   /\ \A i \in Orders : (\A j \in Orders : j <= i)
                                            => Ordering[i].kind = "disconnect"
                   /\ Up /\ gui.acked /\ Orders = {} => AtRest(Serving.session)

\* WindowTellsTruth.  What the window shows of a session is what a helper it is
\* still connected to said: a link that is gone is not a tunnel that is up.  And with
\* nothing under way either way it shows the state of the session, and neither
\* "Connecting" nor "Disconnecting" is left over from a click (the disconnected
\* handler, applyVpnClientState, settleRefusedConnect).
WindowTellsTruth ==
    /\ gui.state # "Disconnected" => Up /\ gui.acked
    /\ Up /\ conn[gui.sock].far /\ gui.acked /\ InFlight = 0
           => /\ gui.state = Serving.session
              /\ gui.connecting = (Serving.session = "Connecting")
              /\ ~gui.disconnecting

\* SessionBuiltFromSettings.  Once its connect was served, a running session is
\* built from the settings the GUI keeps as m_sessionBuiltWith: every setting
\* reached the helper before the connect did (connectVpn, handleReadyEvent).
SessionBuiltFromSettings ==
    Up /\ gui.acked /\ gui.builtWith # NoSettings /\ Orders = {} /\ ~AtRest(Serving.session)
        => Serving.built = gui.builtWith

\* ClicksSettle.  "Connecting" and "Disconnecting", shown before the helper has
\* said anything, give way to a state or an error (the timers of the handshake,
\* disconnectVpn, settleRefusedConnect).
Optimistic == /\ gui.connecting \/ gui.disconnecting
              /\ gui.state \in {"Disconnected", "Error"}
ClicksSettle == Optimistic ~> ~Optimistic

\* OrphansLeave.  A helper the GUI gave up on leaves: it is a root process.
OrphansLeave ==
    \A h \in Helpers : (helper[h].phase = "listening" /\ gui.helper # h)
                           ~> helper[h].phase # "listening"
=============================================================================
