-------------------------- MODULE HelperLinkProofs --------------------------
(***************************************************************************)
(* Theorems about HelperLink, for any number of launches, connections and  *)
(* settings values and any bound on what is under way: the connections and *)
(* their proofs, and what becomes of a click.                              *)
(***************************************************************************)
EXTENDS HelperLink, TLAPS

(***************************************************************************)
(* The inductive invariant.                                                *)
(***************************************************************************)
\* What a peer may say: a proof made with no token but its own.
EventsOf(p) == {e \in Events : e.kind = "challenge" => e.token = p}

\* The commands that carry nothing of the user's.
Greetings == {m \in Commands : m.kind \in {"hello", "auth", "quit"}}

\* A connection k of a GUI that launched h.
Sound(k, h) ==
    /\ k \in ConnType
    /\ k.toGui \in Seq(EventsOf(k.peer))
    /\ \/ k.toHelper \in Seq(Greetings)
       \/ k.peer \in Helpers /\ (k.near => k.peer = h)

\* The GUI's own flags: authenticated only after the peer proved itself, which it
\* does over a connection to the port of a launch.
Ordered(g) ==
    /\ g \in GuiType
    /\ g.acked => g.proven
    /\ g.proven => g.sock # NoConn
    /\ g.retry \/ g.sock # NoConn => g.helper \in Helpers

LinkInv ==
    /\ Ordered(gui)
    /\ conn = [c \in Conns |-> conn[c]]
    /\ \A c \in Conns : Sound(conn[c], gui.helper) /\ (conn[c].near <=> gui.sock = c)
    /\ gui.proven => conn[gui.sock].peer = gui.helper
    /\ helper \in [Helpers -> HelperType]

(***************************************************************************)
(* What is written and read.                                               *)
(***************************************************************************)
LEMMA NothingWritten == \A S : <<>> \in Seq(S)
  OBVIOUS

LEMMA HeadTail ==
  ASSUME NEW S, NEW q \in Seq(S), q # <<>>
  PROVE  Head(q) \in S /\ Tail(q) \in Seq(S)
  OBVIOUS

LEMMA Written ==
  ASSUME NEW S, NEW q \in Seq(S), NEW r \in Seq(S)
  PROVE  q \o r \in Seq(S)
  OBVIOUS

LEMMA FewerAreStill ==
  ASSUME NEW S, NEW T, S \subseteq T, NEW q \in Seq(S)
  PROVE  q \in Seq(T)
  OBVIOUS

LEMMA CommandTypes ==
  /\ Greetings \subseteq Commands
  /\ [kind |-> "hello"] \in Greetings /\ [kind |-> "quit"] \in Greetings
  /\ \A h \in Helpers : [kind |-> "auth", token |-> h] \in Greetings
  /\ [kind |-> "disconnect"] \in Commands /\ ConnectCommand \in Commands
  /\ \A s \in Settings : SettingsCommand(s) \in Commands
  /\ \A m \in Commands : m.kind = "settings" => m.value \in Settings
  BY DEF Commands, Greetings, ConnectCommand, SettingsCommand

LEMMA EventTypes ==
  ASSUME NEW p
  PROVE  /\ EventsOf(p) \subseteq Events
         /\ [kind |-> "ready"] \in EventsOf(p) /\ [kind |-> "error"] \in EventsOf(p)
         /\ \A s \in States : Reported(s) \in EventsOf(p)
         /\ p \in Helpers \cup {Stranger} => [kind |-> "challenge", token |-> p] \in EventsOf(p)
         /\ \A e \in Events : e.kind = "state" => e.state \in States
  BY DEF Events, EventsOf, Reported

LEMMA ReportsType ==
  ASSUME NEW p, NEW s \in States, NEW t \in States
  PROVE  /\ Stopped \in Seq(EventsOf(p)) /\ Halted(s) \in Seq(EventsOf(p))
         /\ Changed(s, t) \in Seq(EventsOf(p)) /\ HaltedAt(s) \in States
         /\ Halted(s) \o Changed(HaltedAt(s), t) \in Seq(EventsOf(p))
  <1>1. Reported("Disconnecting") \in EventsOf(p) /\ Reported("Disconnected") \in EventsOf(p)
    BY EventTypes DEF States
  <1>2. Stopped \in Seq(EventsOf(p))
    BY <1>1 DEF Stopped
  <1>3. Halted(s) \in Seq(EventsOf(p))
    BY <1>2, NothingWritten DEF Halted
  <1>4. HaltedAt(s) \in States
    BY DEF HaltedAt, States
  <1>5. \A u \in States : Changed(u, t) \in Seq(EventsOf(p))
    <2>1. Reported(t) \in EventsOf(p)
      BY EventTypes
    <2>2. <<Reported(t)>> \in Seq(EventsOf(p))
      BY <2>1
    <2> QED BY <2>2, NothingWritten DEF Changed
  <1> QED BY <1>2, <1>3, <1>4, <1>5, Written

(***************************************************************************)
(* Each way a connection changes leaves it sound.                          *)
(***************************************************************************)
LEMMA ClosedIsSound ==
  ASSUME NEW h PROVE Sound(Closed, h) /\ ~Closed.near /\ ~Closed.far
  <1>1. Closed \in ConnType
    BY NothingWritten DEF Closed, ConnType, Stages
  <1> QED BY <1>1, NothingWritten DEF Closed, Sound

LEMMA UnheldIsSound ==
  ASSUME NEW k, NEW h, NEW g, Sound(k, h), ~k.near PROVE Sound(k, g)
  BY DEF Sound

LEMMA NearClosedIsSound ==
  ASSUME NEW k, NEW h, NEW g, Sound(k, h)
  PROVE  Sound(NearClosed(k), g) /\ ~NearClosed(k).near
  <1> DEFINE none == <<>>
  <1>1. none \in Seq(Events) /\ none \in Seq(EventsOf(k.peer))
    BY NothingWritten
  <1> HIDE DEF none
  <1> DEFINE e == [k EXCEPT !.near = FALSE, !.toGui = none]
  <1>2. e \in ConnType /\ e.peer = k.peer /\ ~e.near /\ e.toGui = none /\ e.toHelper = k.toHelper
    BY <1>1 DEF ConnType, Sound
  <1>3. NearClosed(k) = IF k.far THEN e ELSE Closed
    BY DEF NearClosed, none
  <1> HIDE DEF e
  <1>4. Sound(e, g)
    BY <1>1, <1>2 DEF Sound
  <1> QED BY <1>2, <1>3, <1>4, ClosedIsSound

LEMMA FarClosedIsSound ==
  ASSUME NEW k, NEW h, Sound(k, h)
  PROVE  /\ Sound(FarClosed(k), h) /\ FarClosed(k).near = k.near
         /\ k.near => FarClosed(k).peer = k.peer
  <1> DEFINE none == <<>>
  <1>1. none \in Seq(Commands) /\ none \in Seq(Greetings)
    BY NothingWritten
  <1> HIDE DEF none
  <1> DEFINE e == [k EXCEPT !.far = FALSE, !.toHelper = none]
  <1>2. e \in ConnType /\ e.peer = k.peer /\ e.near = k.near /\ e.toHelper = none /\ e.toGui = k.toGui
    BY <1>1 DEF ConnType, Sound
  <1>3. FarClosed(k) = IF k.near THEN e ELSE Closed
    BY DEF FarClosed, none
  <1> HIDE DEF e
  <1>4. Sound(e, h)
    BY <1>1, <1>2 DEF Sound
  <1>5. CASE k.near
    BY <1>2, <1>3, <1>4, <1>5
  <1>6. CASE ~k.near
    <2>1. k.near = FALSE
      BY <1>6 DEF Sound, ConnType
    <2>2. Closed.near = FALSE
      BY DEF Closed
    <2>3. FarClosed(k) = Closed
      BY <1>3, <1>6
    <2> QED BY <2>1, <2>2, <2>3, ClosedIsSound
  <1> QED BY <1>5, <1>6

LEMMA ToldIsSound ==
  ASSUME NEW k, NEW h, Sound(k, h), NEW cs \in Seq(Commands),
         cs \in Seq(Greetings) \/ (k.peer \in Helpers /\ (k.near => k.peer = h))
  PROVE  /\ Sound(Tell(k, cs), h) /\ Tell(k, cs).near = k.near
         /\ Tell(k, cs).peer = k.peer /\ Tell(k, cs).toGui = k.toGui
  <1> DEFINE q == k.toHelper \o cs
             e == [k EXCEPT !.toHelper = q]
  <1>1. k \in ConnType
    BY DEF Sound
  <1>2. q \in Seq(Commands)
    BY <1>1, Written DEF ConnType
  <1>3. q \in Seq(Greetings) \/ (k.peer \in Helpers /\ (k.near => k.peer = h))
    BY Written DEF Sound
  <1>4. Tell(k, cs) = IF k.far THEN e ELSE k
    BY DEF Tell
  <1> HIDE DEF q
  <1>5. e \in ConnType /\ e.peer = k.peer /\ e.near = k.near /\ e.toHelper = q /\ e.toGui = k.toGui
    BY <1>1, <1>2 DEF ConnType
  <1> HIDE DEF e
  <1>6. Sound(e, h)
    BY <1>3, <1>5 DEF Sound
  <1> QED BY <1>4, <1>5, <1>6

LEMMA ReportedIsSound ==
  ASSUME NEW k, NEW h, Sound(k, h), NEW es \in Seq(EventsOf(k.peer))
  PROVE  /\ Sound(Report(k, es), h) /\ Report(k, es).near = k.near
         /\ Report(k, es).peer = k.peer /\ Report(k, es).toHelper = k.toHelper
  <1> DEFINE q == k.toGui \o es
             e == [k EXCEPT !.toGui = q]
  <1>1. k \in ConnType /\ k.toGui \in Seq(EventsOf(k.peer))
    BY DEF Sound
  <1>2. q \in Seq(EventsOf(k.peer))
    BY <1>1, Written
  <1>3. Report(k, es) = IF k.near THEN e ELSE k
    BY DEF Report
  <1> HIDE DEF q
  <1>4. q \in Seq(Events)
    BY <1>2, FewerAreStill, EventTypes
  <1>5. e \in ConnType /\ e.peer = k.peer /\ e.near = k.near /\ e.toHelper = k.toHelper /\ e.toGui = q
    BY <1>1, <1>4 DEF ConnType
  <1> HIDE DEF e
  <1>6. Sound(e, h)
    BY <1>2, <1>5 DEF Sound
  <1> QED BY <1>3, <1>5, <1>6

\* A message leaves the head of a queue.
LEMMA TakenIsSound ==
  ASSUME NEW k, NEW h, Sound(k, h)
  PROVE  /\ k.toHelper # <<>> =>
              LET e == [k EXCEPT !.toHelper = Tail(k.toHelper)]
              IN  Sound(e, h) /\ e.near = k.near /\ e.peer = k.peer
         /\ k.toGui # <<>> =>
              LET e == [k EXCEPT !.toGui = Tail(k.toGui)]
              IN  Sound(e, h) /\ e.near = k.near /\ e.peer = k.peer
  <1>1. k \in ConnType /\ k.toGui \in Seq(EventsOf(k.peer))
    BY DEF Sound
  <1>2. ASSUME k.toHelper # <<>>
        PROVE  LET e == [k EXCEPT !.toHelper = Tail(k.toHelper)]
               IN  Sound(e, h) /\ e.near = k.near /\ e.peer = k.peer
    <2> DEFINE q == Tail(k.toHelper)
               e == [k EXCEPT !.toHelper = q]
    <2>1. k.toHelper \in Seq(Commands)
      BY <1>1 DEF ConnType
    <2>2. q \in Seq(Commands) /\ (k.toHelper \in Seq(Greetings) => q \in Seq(Greetings))
      BY <1>2, <2>1, HeadTail
    <2> HIDE DEF q
    <2>3. e \in ConnType /\ e.peer = k.peer /\ e.near = k.near /\ e.toHelper = q /\ e.toGui = k.toGui
      BY <1>1, <2>2 DEF ConnType
    <2> HIDE DEF e
    <2>4. Sound(e, h)
      BY <2>2, <2>3 DEF Sound
    <2> QED BY <2>3, <2>4 DEF e, q
  <1>3. ASSUME k.toGui # <<>>
        PROVE  LET e == [k EXCEPT !.toGui = Tail(k.toGui)]
               IN  Sound(e, h) /\ e.near = k.near /\ e.peer = k.peer
    <2> DEFINE q == Tail(k.toGui)
               e == [k EXCEPT !.toGui = q]
    <2>1. q \in Seq(EventsOf(k.peer))
      BY <1>1, <1>3, HeadTail
    <2>2. q \in Seq(Events)
      BY <2>1, FewerAreStill, EventTypes
    <2> HIDE DEF q
    <2>3. e \in ConnType /\ e.peer = k.peer /\ e.near = k.near /\ e.toHelper = k.toHelper /\ e.toGui = q
      BY <1>1, <2>2 DEF ConnType
    <2> HIDE DEF e
    <2>4. Sound(e, h)
      BY <2>1, <2>3 DEF Sound
    <2> QED BY <2>3, <2>4 DEF e, q
  <1> QED BY <1>2, <1>3

(***************************************************************************)
(* Each way the GUI's record changes leaves it ordered.                    *)
(***************************************************************************)
LEMMA AbortedIsOrdered ==
  ASSUME NEW g, Ordered(g)
  PROVE  /\ Ordered(Aborted(g)) /\ Aborted(g).sock = NoConn /\ ~Aborted(g).proven
         /\ Ordered(Off(Aborted(g))) /\ Off(Aborted(g)).sock = NoConn
         /\ ~Off(Aborted(g)).proven
  <1> DEFINE a == Aborted(g)
  <1>1. a \in GuiType /\ a.sock = NoConn /\ ~a.proven /\ ~a.acked /\ ~a.retry
    BY DEF Aborted, Ordered, GuiType
  <1> HIDE DEF a
  <1>2. /\ Off(a) \in GuiType /\ Off(a).sock = a.sock /\ Off(a).proven = a.proven
        /\ Off(a).acked = a.acked /\ Off(a).retry = a.retry
    BY <1>1 DEF Off, GuiType, States
  <1> QED BY <1>1, <1>2 DEF Ordered, a

\* The fields of the link are not touched.
SameLink(g, o) == /\ o.acked = g.acked /\ o.proven = g.proven /\ o.sock = g.sock
                  /\ o.retry = g.retry /\ o.helper = g.helper

LEMMA SameLinkIsOrdered ==
  ASSUME NEW g, NEW o \in GuiType, Ordered(g), SameLink(g, o) PROVE Ordered(o)
  BY DEF Ordered, SameLink

LEMMA StateShownIsOrdered ==
  ASSUME NEW g, NEW s \in States, Ordered(g)
  PROVE  Ordered(StateShown(g, s)) /\ SameLink(g, StateShown(g, s))
  <1> DEFINE b1 == s = "Connecting"
             b2 == s = "Disconnecting"
  <1>1. b1 \in BOOLEAN /\ b2 \in BOOLEAN
    OBVIOUS
  <1>2. StateShown(g, s) = IF g.state = s THEN g
                           ELSE [g EXCEPT !.state = s, !.connecting = b1, !.disconnecting = b2]
    BY DEF StateShown
  <1> HIDE DEF b1, b2
  <1>3. StateShown(g, s) \in GuiType /\ SameLink(g, StateShown(g, s))
    BY <1>1, <1>2 DEF Ordered, GuiType, SameLink
  <1> QED BY <1>3, SameLinkIsOrdered

LEMMA LinkLostIsOrdered ==
  ASSUME NEW g, Ordered(g), g.sock # NoConn
  PROVE  Ordered(LinkLost(g)) /\ LinkLost(g).sock = NoConn /\ ~LinkLost(g).proven
  <1> DEFINE h == [g EXCEPT !.acked = FALSE, !.proven = FALSE, !.starting = FALSE,
                            !.builtWith = NoSettings, !.sock = NoConn]
  <1>1. Ordered(h) /\ h.sock = NoConn /\ ~h.proven
    BY DEF Ordered, GuiType
  <1>2. "Disconnected" \in States
    BY DEF States
  <1>3. LinkLost(g) = StateShown(h, "Disconnected")
    BY DEF LinkLost
  <1> HIDE DEF h
  <1> QED BY <1>1, <1>2, <1>3, StateShownIsOrdered DEF SameLink

LEMMA SocketUpIsOrdered ==
  ASSUME NEW g, NEW c \in Conns, Ordered(g), g.retry, g.sock = NoConn
  PROVE  /\ Ordered(SocketUp(g, c)) /\ SocketUp(g, c).sock = c
         /\ SocketUp(g, c).helper = g.helper /\ ~SocketUp(g, c).proven
  BY DEF Ordered, GuiType, SocketUp

(***************************************************************************)
(* The three kinds of step: the GUI lets go of its connection, it makes    *)
(* one, or it keeps what it has while either end writes or reads.          *)
(***************************************************************************)
LEMMA LetGo ==
  ASSUME LinkInv, Ordered(gui'), gui'.sock = NoConn, ~gui'.proven, helper' \in [Helpers -> HelperType],
         conn' = [c \in Conns |-> conn'[c]],
         \A c \in Conns : c # gui.sock => conn'[c] = conn[c],
         Up => Sound(conn'[gui.sock], gui'.helper) /\ ~conn'[gui.sock].near
  PROVE  LinkInv'
  <1>1. ASSUME NEW c \in Conns
        PROVE  Sound(conn'[c], gui'.helper) /\ ~conn'[c].near
    <2>1. CASE c = gui.sock
      BY <2>1, SlotsAssumption DEF Up
    <2>2. CASE c # gui.sock
      BY <2>2, UnheldIsSound DEF LinkInv
    <2> QED BY <2>1, <2>2
  <1>2. \A c \in Conns : gui'.sock # c
    BY SlotsAssumption
  <1> QED BY <1>1, <1>2 DEF LinkInv

LEMMA HangsUp ==
  ASSUME LinkInv, Ordered(gui'), gui'.sock = NoConn, ~gui'.proven, UNCHANGED helper, GuiHangsUp
  PROVE  LinkInv'
  <1>1. /\ conn' = [c \in Conns |-> conn'[c]]
        /\ \A c \in Conns : c # gui.sock => conn'[c] = conn[c]
        /\ \A c \in Conns : c = gui.sock => conn'[c] = NearClosed(conn[c])
    BY DEF GuiHangsUp
  <1>2. Up => gui.sock \in Conns
    BY DEF LinkInv, Ordered, GuiType, Up
  <1>3. Up => Sound(conn'[gui.sock], gui'.helper) /\ ~conn'[gui.sock].near
    BY <1>1, <1>2, NearClosedIsSound DEF LinkInv
  <1>4. helper' \in [Helpers -> HelperType]
    BY DEF LinkInv
  <1> QED BY <1>1, <1>3, <1>4, LetGo

\* k may take the place of the connection k0 of a GUI that launched h.
Becomes(k0, k, h) == Sound(k, h) /\ k.near = k0.near /\ (k0.near => k.peer = k0.peer)

LEMMA Kept ==
  ASSUME LinkInv, Ordered(gui'), gui'.sock = gui.sock, gui'.helper = gui.helper,
         gui'.proven => gui.proven \/ (Up /\ conn[gui.sock].peer = gui.helper),
         conn' = [c \in Conns |-> conn'[c]],
         \A c \in Conns : Becomes(conn[c], conn'[c], gui.helper),
         helper' \in [Helpers -> HelperType]
  PROVE  LinkInv'
  <1>1. ASSUME NEW c \in Conns
        PROVE  Sound(conn'[c], gui'.helper) /\ (conn'[c].near <=> gui'.sock = c)
    BY DEF Becomes, LinkInv
  <1>2. ASSUME gui'.proven PROVE conn'[gui'.sock].peer = gui'.helper
    <2>1. gui.sock \in Conns
      BY <1>2 DEF Ordered, GuiType
    <2> QED BY <1>2, <2>1 DEF Becomes, LinkInv
  <1> QED BY <1>1, <1>2 DEF LinkInv

LEMMA SameBecomes ==
  ASSUME LinkInv
  PROVE  \A c \in Conns : Becomes(conn[c], conn[c], gui.helper)
  BY DEF LinkInv, Becomes

\* One connection is written to or read from.
LEMMA OneBecomes ==
  ASSUME LinkInv, NEW c \in Conns, NEW k, conn' = [conn EXCEPT ![c] = k],
         Becomes(conn[c], k, gui.helper)
  PROVE  /\ conn' = [d \in Conns |-> conn'[d]]
         /\ \A d \in Conns : Becomes(conn[d], conn'[d], gui.helper)
  <1>1. conn = [d \in Conns |-> conn[d]]
    BY DEF LinkInv
  <1>2. conn' = [d \in Conns |-> IF d = c THEN k ELSE conn[d]]
    BY <1>1
  <1>3. \A d \in Conns : conn'[d] = IF d = c THEN k ELSE conn[d]
    BY <1>2
  <1> QED BY <1>2, <1>3, SameBecomes

(***************************************************************************)
(* What the GUI writes and reads.                                          *)
(***************************************************************************)
LEMMA SockInUse ==
  ASSUME LinkInv, Up PROVE gui.sock \in Conns /\ gui.helper \in Helpers /\ gui \in GuiType
  BY DEF LinkInv, Ordered, GuiType, Up

LEMMA Tells ==
  ASSUME LinkInv, NEW cs \in Seq(Commands), gui.proven, GuiTells(cs)
  PROVE  /\ conn' = [c \in Conns |-> conn'[c]]
         /\ \A c \in Conns : Becomes(conn[c], conn'[c], gui.helper)
  <1>1. /\ conn' = [c \in Conns |-> conn'[c]]
        /\ \A c \in Conns : conn'[c] = IF c = gui.sock THEN Tell(conn[c], cs) ELSE conn[c]
    BY DEF GuiTells
  <1>2. Up /\ gui.helper \in Helpers /\ gui.sock \in Conns /\ conn[gui.sock].peer = gui.helper
    BY SockInUse DEF LinkInv, Ordered, Up
  <1>3. Becomes(conn[gui.sock], Tell(conn[gui.sock], cs), gui.helper)
    BY <1>2, ToldIsSound DEF LinkInv, Becomes
  <1> QED BY <1>1, <1>3, SameBecomes

LEMMA ReadsOne ==
  ASSUME LinkInv, NEW kind, NEW cs \in Seq(Commands),
         gui.proven \/ cs \in Seq(Greetings), Reads(kind, cs)
  PROVE  /\ Up /\ gui.sock \in Conns /\ Event.kind = kind
         /\ Event \in EventsOf(conn[gui.sock].peer)
         /\ conn' = [c \in Conns |-> conn'[c]]
         /\ \A c \in Conns : Becomes(conn[c], conn'[c], gui.helper)
         /\ helper' \in [Helpers -> HelperType]
  <1> DEFINE k == conn[gui.sock]
             t == Tell(k, cs)
             e == [t EXCEPT !.toGui = Tail(t.toGui)]
  <1>1. /\ Up /\ k.toGui # <<>> /\ Event.kind = kind /\ gui.sock \in Conns
        /\ conn' = [conn EXCEPT ![gui.sock] = e] /\ UNCHANGED helper
    BY SockInUse DEF Reads, Event, Answered
  <1>2. Sound(k, gui.helper) /\ (k.near /\ gui.proven => k.peer = gui.helper)
    BY <1>1 DEF LinkInv
  <1>3. Event \in EventsOf(k.peer)
    BY <1>1, <1>2, HeadTail DEF Sound, Event
  <1>4. cs \in Seq(Greetings) \/ (k.peer \in Helpers /\ (k.near => k.peer = gui.helper))
    BY <1>1, SockInUse DEF LinkInv
  <1>5. Sound(t, gui.helper) /\ t.near = k.near /\ t.peer = k.peer /\ t.toGui = k.toGui
    BY <1>2, <1>4, ToldIsSound
  <1>6. Becomes(k, e, gui.helper)
    BY <1>1, <1>5, TakenIsSound DEF Becomes
  <1>7. helper' \in [Helpers -> HelperType]
    BY <1>1 DEF LinkInv
  <1> QED BY <1>1, <1>3, <1>6, <1>7, OneBecomes

(***************************************************************************)
(* The steps of the user.                                                  *)
(***************************************************************************)
LEMMA HelperSet ==
  ASSUME LinkInv, NEW h \in Helpers, NEW r \in HelperType
  PROVE  [helper EXCEPT ![h] = r] \in [Helpers -> HelperType]
  BY DEF LinkInv

LEMMA FailStep ==
  ASSUME LinkInv, Fail, UNCHANGED helper PROVE LinkInv'
  BY AbortedIsOrdered, HangsUp DEF Fail, LinkInv

\* Nothing of the connections changes, and the GUI keeps its link.
LEMMA OwnStep ==
  ASSUME LinkInv, gui' \in GuiType, SameLink(gui, gui'), UNCHANGED <<conn, helper>>
  PROVE  LinkInv'
  BY SameLinkIsOrdered, SameBecomes, Kept DEF LinkInv, SameLink

\* The authenticated GUI writes something and keeps its link.
LEMMA TellStep ==
  ASSUME LinkInv, gui' \in GuiType, SameLink(gui, gui'), gui.acked,
         NEW cs \in Seq(Commands), GuiTells(cs), UNCHANGED helper
  PROVE  LinkInv'
  <1>1. gui.proven
    BY DEF LinkInv, Ordered
  <1> QED BY <1>1, Tells, SameLinkIsOrdered, Kept DEF LinkInv, SameLink

LEMMA ConnectStep ==
  ASSUME LinkInv, NEW g \in GuiType, SameLink(gui, g), ConnectVpn(g)
  PROVE  LinkInv'
  <1>0. Ordered(g)
    BY SameLinkIsOrdered DEF LinkInv
  <1>1. CASE gui.acked /\ gui' = ConnectSent(g) /\ GuiTells(<<ConnectCommand>>) /\ UNCHANGED helper
    <2>1. gui' \in GuiType /\ SameLink(gui, gui')
      BY <1>1 DEF ConnectSent, GuiType, SameLink
    <2>2. <<ConnectCommand>> \in Seq(Commands)
      BY CommandTypes
    <2> QED BY <1>1, <2>1, <2>2, TellStep
  <1>2. CASE gui' = [g EXCEPT !.pending = TRUE] /\ UNCHANGED <<conn, helper>>
    <2>1. gui' \in GuiType /\ SameLink(gui, gui')
      BY <1>2 DEF GuiType, SameLink
    <2> QED BY <1>2, <2>1, OwnStep
  <1>3. CASE ~Up /\ LaunchHelper(g)
    <2>1. CASE Fail /\ UNCHANGED helper
      BY <2>1, FailStep
    <2>2. ASSUME NEW h \in FreeHelpers,
                 gui' = [g EXCEPT !.starting = TRUE, !.retry = TRUE, !.helper = h, !.pending = TRUE],
                 helper' = [helper EXCEPT ![h].phase = "prompted"], UNCHANGED conn
          PROVE  LinkInv'
      <3>1. h \in Helpers
        BY DEF FreeHelpers
      <3>2. Ordered(gui') /\ gui'.sock = NoConn /\ ~gui'.proven
        BY <1>0, <1>3, <2>2, <3>1 DEF Ordered, GuiType, SameLink, Up
      <3> DEFINE r == [helper[h] EXCEPT !.phase = "prompted"]
      <3>3. r \in HelperType
        BY <3>1 DEF LinkInv, HelperType
      <3>4. helper' \in [Helpers -> HelperType]
        BY <2>2, <3>1, <3>3, HelperSet
      <3>5. conn' = [c \in Conns |-> conn'[c]]
        BY <2>2 DEF LinkInv
      <3> QED BY <1>3, <2>2, <3>2, <3>4, <3>5, LetGo
    <2> QED BY <1>3, <2>1, <2>2 DEF LaunchHelper
  <1> QED BY <1>1, <1>2, <1>3 DEF ConnectVpn

LEMMA UserStep ==
  ASSUME LinkInv, User PROVE LinkInv'
  <1>0. gui \in GuiType /\ Ordered(gui)
    BY DEF LinkInv, Ordered
  <1>1. CASE StartConnectAttempt
    <2> DEFINE g == [gui EXCEPT !.connecting = TRUE, !.wanted = TRUE]
    <2>1. g \in GuiType /\ SameLink(gui, g)
      BY <1>0 DEF GuiType, SameLink
    <2> QED BY <1>1, <2>1, ConnectStep DEF StartConnectAttempt
  <1>2. CASE PickAnotherConfig
    BY <1>0, <1>2, ConnectStep DEF PickAnotherConfig, SameLink
  <1>3. CASE DisconnectVpn
    <2>1. CASE ~gui.acked
      <3> DEFINE a == Off(Aborted(gui))
      <3>1. gui' = [a EXCEPT !.wanted = FALSE] /\ GuiHangsUp /\ UNCHANGED helper
        BY <1>3, <2>1 DEF DisconnectVpn
      <3>2. Ordered(a) /\ a.sock = NoConn /\ ~a.proven
        BY <1>0, AbortedIsOrdered
      <3> HIDE DEF a
      <3>3. Ordered(gui') /\ gui'.sock = NoConn /\ ~gui'.proven
        BY <3>1, <3>2 DEF Ordered, GuiType
      <3> QED BY <3>1, <3>3, HangsUp
    <2>2. CASE gui.acked
      <3>1. /\ gui' = [gui EXCEPT !.connecting = FALSE, !.disconnecting = TRUE,
                                   !.builtWith = NoSettings, !.wanted = FALSE]
            /\ GuiTells(<<[kind |-> "disconnect"]>>) /\ UNCHANGED helper
        BY <1>3, <2>2 DEF DisconnectVpn
      <3>2. gui' \in GuiType /\ SameLink(gui, gui')
        BY <1>0, <3>1 DEF GuiType, SameLink
      <3>3. <<[kind |-> "disconnect"]>> \in Seq(Commands)
        BY CommandTypes
      <3> QED BY <2>2, <3>1, <3>2, <3>3, TellStep
    <2> QED BY <2>1, <2>2
  <1>4. CASE EditSettings
    <2>1. PICK s \in Settings :
             /\ gui' = [gui EXCEPT !.settings = s]
             /\ IF gui.acked THEN GuiTells(<<SettingsCommand(s)>>) ELSE UNCHANGED conn
      BY <1>4 DEF EditSettings
    <2>2. gui' \in GuiType /\ SameLink(gui, gui') /\ UNCHANGED helper
      BY <1>0, <1>4, <2>1 DEF EditSettings, GuiType, SameLink
    <2>3. <<SettingsCommand(s)>> \in Seq(Commands)
      BY CommandTypes
    <2>4. CASE gui.acked
      BY <2>1, <2>2, <2>3, <2>4, TellStep
    <2>5. CASE ~gui.acked
      BY <2>1, <2>2, <2>5, OwnStep
    <2> QED BY <2>4, <2>5
  <1>5. CASE Shutdown
    <2> DEFINE a == Off(Aborted(gui))
               k == IF gui.acked THEN Tell(conn[gui.sock], <<[kind |-> "quit"]>>)
                                 ELSE conn[gui.sock]
    <2>1. /\ gui' = [a EXCEPT !.wanted = FALSE] /\ UNCHANGED helper
          /\ conn' = [c \in Conns |-> conn'[c]]
          /\ \A c \in Conns : c # gui.sock => conn'[c] = conn[c]
          /\ \A c \in Conns : c = gui.sock => conn'[c] = NearClosed(k)
      BY <1>5 DEF Shutdown
    <2>2. Ordered(a) /\ a.sock = NoConn /\ ~a.proven
      BY <1>0, AbortedIsOrdered
    <2> HIDE DEF a
    <2>3. Ordered(gui') /\ gui'.sock = NoConn /\ ~gui'.proven
      BY <2>1, <2>2 DEF Ordered, GuiType
    <2>4. ASSUME Up PROVE Sound(k, gui.helper)
      <3>1. gui.sock \in Conns /\ Sound(conn[gui.sock], gui.helper)
        BY <2>4, SockInUse DEF LinkInv
      <3>2. <<[kind |-> "quit"]>> \in Seq(Greetings) /\ <<[kind |-> "quit"]>> \in Seq(Commands)
        BY CommandTypes
      <3> QED BY <3>1, <3>2, ToldIsSound
    <2> HIDE DEF k
    <2>5. Up => Sound(conn'[gui.sock], gui'.helper) /\ ~conn'[gui.sock].near
      BY <2>1, <2>4, SockInUse, NearClosedIsSound
    <2>6. helper' \in [Helpers -> HelperType]
      BY <2>1 DEF LinkInv
    <2> QED BY <2>1, <2>3, <2>5, <2>6, LetGo
  <1> QED BY <1>1, <1>2, <1>3, <1>4, <1>5 DEF User

(***************************************************************************)
(* The steps of the GUI's end.                                             *)
(***************************************************************************)
LEMMA GuiStep ==
  ASSUME LinkInv, Gui PROVE LinkInv'
  <1>0. gui \in GuiType /\ Ordered(gui) /\ (Up <=> gui.sock # NoConn)
    BY DEF LinkInv, Ordered, Up
  <1>1. CASE RetryDials
    <2>1. gui.retry /\ gui.sock = NoConn /\ gui.helper \in Helpers /\ UNCHANGED helper
      BY <1>0, <1>1 DEF RetryDials, Ordered
    <2>2. PICK c \in Conns, p \in Answering :
             /\ gui' = SocketUp(gui, c)
             /\ conn' = [conn EXCEPT ![c] = [Closed EXCEPT !.peer = p, !.near = TRUE, !.far = TRUE,
                                                !.toHelper = <<[kind |-> "hello"]>>]]
      BY <1>1 DEF RetryDials
    <2> DEFINE q == <<[kind |-> "hello"]>>
               k == [Closed EXCEPT !.peer = p, !.near = TRUE, !.far = TRUE, !.toHelper = q]
    <2>3. q \in Seq(Greetings) /\ q \in Seq(Commands)
      BY CommandTypes
    <2>4. p \in Helpers \cup {Stranger}
      BY <2>1 DEF Answering
    <2>5. Closed.toGui \in Seq(EventsOf(p)) /\ Closed \in ConnType
      BY NothingWritten, ClosedIsSound DEF Closed, Sound
    <2> HIDE DEF q
    <2>6. k \in ConnType /\ k.near /\ k.peer = p /\ k.toHelper = q /\ k.toGui = Closed.toGui
      BY <2>3, <2>4, <2>5 DEF ConnType
    <2>7. conn' = [conn EXCEPT ![c] = k]
      BY <2>2 DEF q
    <2> HIDE DEF k
    <2>8. Sound(k, gui.helper)
      BY <2>3, <2>5, <2>6 DEF Sound
    <2>9. /\ Ordered(gui') /\ gui'.sock = c /\ gui'.helper = gui.helper /\ ~gui'.proven
      BY <1>0, <2>1, <2>2, SocketUpIsOrdered
    <2>10. /\ conn' = [d \in Conns |-> conn'[d]]
           /\ \A d \in Conns : conn'[d] = IF d = c THEN k ELSE conn[d]
      <3>1. conn' = [d \in Conns |-> IF d = c THEN k ELSE conn[d]]
        BY <2>7 DEF LinkInv
      <3> QED BY <3>1
    <2>11. ASSUME NEW d \in Conns
           PROVE  Sound(conn'[d], gui'.helper) /\ (conn'[d].near <=> gui'.sock = d)
      <3>1. CASE d = c
        BY <2>6, <2>8, <2>9, <2>10, <3>1
      <3>2. CASE d # c
        <4>1. Sound(conn[d], gui.helper) /\ ~conn[d].near
          BY <2>1, SlotsAssumption DEF LinkInv
        <4> QED BY <2>9, <2>10, <3>2, <4>1
      <3> QED BY <3>1, <3>2
    <2> QED BY <2>1, <2>9, <2>10, <2>11 DEF LinkInv
  <1>2. CASE RetryStops
    <2>1. Ordered(gui') /\ gui'.sock = gui.sock /\ gui'.helper = gui.helper
          /\ gui'.proven = gui.proven /\ UNCHANGED <<conn, helper>>
      BY <1>0, <1>2 DEF RetryStops, Ordered, GuiType
    <2>2. conn' = [c \in Conns |-> conn'[c]] /\ helper' \in [Helpers -> HelperType]
      BY <2>1 DEF LinkInv
    <2> QED BY <2>1, <2>2, SameBecomes, Kept
  <1>3. CASE AttemptFails \/ HandshakeDeadline \/ PeerRefused
    BY <1>3, FailStep DEF AttemptFails, HandshakeDeadline, PeerRefused
  <1>4. CASE SocketDisconnected
    <2>1. /\ gui.sock \in Conns /\ gui' = LinkLost(gui) /\ UNCHANGED helper
          /\ conn' = [conn EXCEPT ![gui.sock] = Closed]
      BY <1>4, SockInUse DEF SocketDisconnected
    <2>2. Ordered(gui') /\ gui'.sock = NoConn /\ ~gui'.proven
      BY <1>0, <1>4, <2>1, LinkLostIsOrdered DEF SocketDisconnected
    <2>3. /\ conn' = [c \in Conns |-> conn'[c]]
          /\ \A c \in Conns : c # gui.sock => conn'[c] = conn[c]
          /\ conn'[gui.sock] = Closed
      <3>1. conn' = [c \in Conns |-> IF c = gui.sock THEN Closed ELSE conn[c]]
        BY <2>1 DEF LinkInv
      <3> QED BY <2>1, <3>1
    <2>4. helper' \in [Helpers -> HelperType]
      BY <2>1 DEF LinkInv
    <2> QED BY <2>2, <2>3, <2>4, ClosedIsSound, LetGo
  <1>5. CASE ChallengeAnswered
    <2> DEFINE cs == <<[kind |-> "auth", token |-> gui.helper]>>
    <2>1. /\ ~gui.acked /\ Reads("challenge", cs) /\ Event.token = gui.helper /\ Up
          /\ gui' = [gui EXCEPT !.proven = TRUE]
      BY <1>5 DEF ChallengeAnswered, Reads
    <2>2. cs \in Seq(Greetings) /\ cs \in Seq(Commands)
      BY <2>1, SockInUse, CommandTypes
    <2> HIDE DEF cs
    <2>3. /\ Up /\ gui.sock \in Conns /\ Event.kind = "challenge"
          /\ Event \in EventsOf(conn[gui.sock].peer)
          /\ conn' = [c \in Conns |-> conn'[c]]
          /\ \A c \in Conns : Becomes(conn[c], conn'[c], gui.helper)
          /\ helper' \in [Helpers -> HelperType]
      BY <2>1, <2>2, ReadsOne
    <2>4. conn[gui.sock].peer = gui.helper
      BY <2>1, <2>3 DEF EventsOf
    <2>5. Ordered(gui') /\ gui'.sock = gui.sock /\ gui'.helper = gui.helper
      BY <1>0, <2>1 DEF Ordered, GuiType
    <2> QED BY <2>3, <2>4, <2>5, Kept
  <1>6. CASE HelperReady
    <2>1. gui.proven /\ Reads("ready", ReadyCommands)
      BY <1>6 DEF HelperReady
    <2>2. ReadyCommands \in Seq(Commands)
      <3>1. <<SettingsCommand(gui.settings)>> \in Seq(Commands)
        BY <1>0, CommandTypes DEF GuiType
      <3>2. (IF gui.pending THEN <<ConnectCommand>> ELSE <<>>) \in Seq(Commands)
        BY CommandTypes, NothingWritten
      <3> QED BY <3>1, <3>2, Written DEF ReadyCommands
    <2>3. /\ Up /\ conn' = [c \in Conns |-> conn'[c]]
          /\ \A c \in Conns : Becomes(conn[c], conn'[c], gui.helper)
          /\ helper' \in [Helpers -> HelperType]
      BY <2>1, <2>2, ReadsOne
    <2> DEFINE g == [gui EXCEPT !.acked = TRUE, !.deadline = NoHelper, !.pending = FALSE]
    <2>4. Ordered(g) /\ g.sock = gui.sock /\ g.helper = gui.helper /\ g.proven = gui.proven
      BY <1>0, <2>1 DEF Ordered, GuiType
    <2>5. gui' = IF gui.pending THEN ConnectSent(g) ELSE g
      BY <1>6 DEF HelperReady
    <2> HIDE DEF g
    <2>6. ConnectSent(g) \in GuiType /\ SameLink(g, ConnectSent(g))
      BY <2>4 DEF ConnectSent, Ordered, GuiType, SameLink
    <2>7. Ordered(gui') /\ gui'.sock = gui.sock /\ gui'.helper = gui.helper /\ gui'.proven = gui.proven
      BY <2>4, <2>5, <2>6, SameLinkIsOrdered DEF SameLink
    <2> QED BY <2>1, <2>3, <2>7, Kept
  <1>7. CASE StateReported \/ ErrorReported
    <2>1. PICK kind \in {"state", "error"} : gui.proven /\ Reads(kind, <<>>)
      BY <1>7 DEF StateReported, ErrorReported
    <2>2. /\ Event \in EventsOf(conn[gui.sock].peer) /\ Event.kind = kind
          /\ conn' = [c \in Conns |-> conn'[c]]
          /\ \A c \in Conns : Becomes(conn[c], conn'[c], gui.helper)
          /\ helper' \in [Helpers -> HelperType]
      BY <2>1, NothingWritten, ReadsOne
    <2>3. Ordered(gui') /\ SameLink(gui, gui')
      <3>1. CASE StateReported
        <4>1. Event.kind = "state" /\ gui' = StateShown(gui, Event.state)
          BY <3>1 DEF StateReported, Reads, Event
        <4>2. Event.state \in States
          BY <2>2, <4>1, EventTypes
        <4> QED BY <1>0, <4>1, <4>2, StateShownIsOrdered
      <3>2. CASE ErrorReported
        <4>1. gui' \in GuiType /\ SameLink(gui, gui')
          BY <1>0, <3>2 DEF ErrorReported, GuiType, SameLink
        <4> QED BY <1>0, <4>1, SameLinkIsOrdered
      <3> QED BY <1>7, <3>1, <3>2
    <2> QED BY <2>1, <2>2, <2>3, Kept DEF SameLink
  <1> QED BY <1>1, <1>2, <1>3, <1>4, <1>5, <1>6, <1>7 DEF Gui

(***************************************************************************)
(* The steps of the helper's end, and of what may answer in its place.     *)
(***************************************************************************)
\* The GUI takes no part in the step.
LEMMA FarStep ==
  ASSUME LinkInv, UNCHANGED gui, conn' = [c \in Conns |-> conn'[c]],
         \A c \in Conns : Becomes(conn[c], conn'[c], gui.helper),
         helper' \in [Helpers -> HelperType]
  PROVE  LinkInv'
  BY Kept DEF LinkInv

LEMMA FarStepOnOne ==
  ASSUME LinkInv, UNCHANGED gui, NEW c \in Conns, NEW k,
         conn' = [conn EXCEPT ![c] = k], Becomes(conn[c], k, gui.helper),
         helper' \in [Helpers -> HelperType]
  PROVE  LinkInv'
  BY OneBecomes, FarStep

LEMMA FarClosedBecomes ==
  ASSUME LinkInv, NEW c \in Conns
  PROVE  Becomes(conn[c], FarClosed(conn[c]), gui.helper)
  BY FarClosedIsSound DEF LinkInv, Becomes

LEMMA TakenBecomes ==
  ASSUME LinkInv, NEW c \in Conns, conn[c].toHelper # <<>>,
         NEW es \in Seq(EventsOf(conn[c].peer))
  PROVE  Becomes(conn[c], Taken(c, es), gui.helper)
  <1> DEFINE r == Report(conn[c], es)
  <1>1. /\ Sound(r, gui.helper) /\ r.near = conn[c].near /\ r.peer = conn[c].peer
        /\ r.toHelper = conn[c].toHelper
    BY ReportedIsSound DEF LinkInv
  <1>2. Taken(c, es) = [r EXCEPT !.toHelper = Tail(r.toHelper)]
    BY DEF Taken
  <1> HIDE DEF r
  <1> QED BY <1>1, <1>2, TakenIsSound DEF Becomes

LEMMA StageBecomes ==
  ASSUME NEW k0, NEW k, NEW h, Becomes(k0, k, h), NEW s \in Stages
  PROVE  Becomes(k0, [k EXCEPT !.stage = s], h)
  <1> DEFINE e == [k EXCEPT !.stage = s]
  <1>1. /\ e \in ConnType /\ e.peer = k.peer /\ e.near = k.near
        /\ e.toHelper = k.toHelper /\ e.toGui = k.toGui
    BY DEF Becomes, Sound, ConnType
  <1> HIDE DEF e
  <1>2. Becomes(k0, e, h)
    BY <1>1 DEF Becomes, Sound
  <1> QED BY <1>2 DEF e

LEMMA EndsStep ==
  ASSUME LinkInv, NEW h \in Helpers, HelperEnds(h), UNCHANGED gui PROVE LinkInv'
  <1>1. Absent \in HelperType
    BY DEF Absent, HelperType, States
  <1>2. helper' \in [Helpers -> HelperType]
    BY <1>1, HelperSet DEF HelperEnds
  <1>3. /\ conn' = [c \in Conns |-> conn'[c]]
        /\ \A c \in Conns : conn'[c] = IF conn[c].peer = h THEN FarClosed(conn[c]) ELSE conn[c]
    BY DEF HelperEnds
  <1>4. \A c \in Conns : Becomes(conn[c], conn'[c], gui.helper)
    BY <1>3, FarClosedBecomes, SameBecomes
  <1> QED BY <1>2, <1>3, <1>4, FarStep

LEMMA ReadingStep ==
  ASSUME LinkInv, NEW c \in Conns, NEW h \in Helpers, Reading(c, h) PROVE LinkInv'
  <1>0. /\ conn[c].peer = h /\ conn[c].toHelper # <<>> /\ helper \in [Helpers -> HelperType]
        /\ Sound(conn[c], gui.helper)
    <2>1. \/ Delivers(c, h, "hello") \/ Delivers(c, h, "auth") \/ Delivers(c, h, "settings")
          \/ Delivers(c, h, "connect") \/ Delivers(c, h, "disconnect") \/ Delivers(c, h, "quit")
      BY ZenonT(60) DEF Reading, HelloRead, AuthRead, SettingsRead, ConnectRead, ConnectRefused,
             DisconnectRead, QuitRead
    <2> QED BY <2>1 DEF Delivers, LinkInv
  <1>1. helper[h].session \in States
    BY <1>0 DEF HelperType
  <1>2. Head(conn[c].toHelper) \in Commands
    <2>1. conn[c].toHelper \in Seq(Commands)
      BY <1>0 DEF Sound, ConnType
    <2> QED BY <1>0, <2>1, HeadTail
  <1>3. CASE HelloRead(c, h)
    <2> DEFINE t == Taken(c, <<[kind |-> "challenge", token |-> h]>>)
               k == IF conn[c].stage = "fresh" THEN [t EXCEPT !.stage = "challenged"]
                    ELSE FarClosed(conn[c])
    <2>1. <<[kind |-> "challenge", token |-> h]>> \in Seq(EventsOf(conn[c].peer))
      BY <1>0, EventTypes
    <2>2. Becomes(conn[c], t, gui.helper)
      BY <1>0, <2>1, TakenBecomes
    <2>3. conn' = [conn EXCEPT ![c] = k] /\ UNCHANGED <<gui, helper>>
      BY <1>3 DEF HelloRead
    <2> HIDE DEF t
    <2>4. Becomes(conn[c], [t EXCEPT !.stage = "challenged"], gui.helper)
      BY <2>2, StageBecomes DEF Stages
    <2>5. Becomes(conn[c], k, gui.helper)
      BY <2>4, FarClosedBecomes
    <2> HIDE DEF k
    <2> QED BY <1>0, <2>3, <2>5, FarStepOnOne
  <1>4. CASE AuthRead(c, h)
    <2> DEFINE t == Taken(c, <<[kind |-> "ready"]>>)
               k == [t EXCEPT !.stage = "serving"]
    <2>1. <<[kind |-> "ready"]>> \in Seq(EventsOf(conn[c].peer))
      <3>1. [kind |-> "ready"] \in EventsOf(conn[c].peer)
        BY EventTypes
      <3> QED BY <3>1
    <2>2. Becomes(conn[c], t, gui.helper)
      BY <1>0, <2>1, TakenBecomes
    <2>3. UNCHANGED <<gui, helper>>
      BY <1>4 DEF AuthRead
    <2>4. \/ conn' = [d \in Conns |-> IF d = c THEN k
                                    ELSE IF conn[d].peer = h /\ conn[d].far
                                         THEN FarClosed(conn[d]) ELSE conn[d]]
          \/ conn' = [conn EXCEPT ![c] = FarClosed(conn[c])]
      BY <1>4 DEF AuthRead
    <2> HIDE DEF t
    <2>5. Becomes(conn[c], k, gui.helper)
      BY <2>2, StageBecomes DEF Stages
    <2> HIDE DEF k
    <2>6. CASE conn' = [d \in Conns |-> IF d = c THEN k
                                      ELSE IF conn[d].peer = h /\ conn[d].far
                                           THEN FarClosed(conn[d]) ELSE conn[d]]
      <3>1. /\ conn' = [d \in Conns |-> conn'[d]]
            /\ \A d \in Conns : conn'[d] = IF d = c THEN k
                                          ELSE IF conn[d].peer = h /\ conn[d].far
                                               THEN FarClosed(conn[d]) ELSE conn[d]
        BY <2>6
      <3>2. \A d \in Conns : Becomes(conn[d], conn'[d], gui.helper)
        BY <2>5, <3>1, FarClosedBecomes, SameBecomes
      <3> QED BY <1>0, <2>3, <3>1, <3>2, FarStep
    <2>7. CASE conn' = [conn EXCEPT ![c] = FarClosed(conn[c])]
      BY <1>0, <2>3, <2>7, FarClosedBecomes, FarStepOnOne
    <2> QED BY <2>4, <2>6, <2>7
  <1>5. CASE SettingsRead(c, h)
    <2> DEFINE r == [helper[h] EXCEPT !.settings = Head(conn[c].toHelper).value]
    <2>1. /\ helper' = [helper EXCEPT ![h] = r] /\ UNCHANGED gui
          /\ conn' = [conn EXCEPT ![c] = Taken(c, <<>>)]
          /\ Head(conn[c].toHelper).kind = "settings"
      BY <1>5 DEF SettingsRead, Delivers
    <2>2. r \in HelperType
      BY <1>0, <1>2, <2>1, CommandTypes DEF HelperType
    <2>3. Becomes(conn[c], Taken(c, <<>>), gui.helper)
      BY <1>0, NothingWritten, TakenBecomes
    <2> QED BY <2>1, <2>2, <2>3, HelperSet, FarStepOnOne
  <1>6. CASE ConnectRead(c, h)
    <2> DEFINE s == helper[h].session
               es == (Halted(s) \o Changed(HaltedAt(s), "Disconnected")) \o <<Reported("Connecting")>>
               r == [helper[h] EXCEPT !.session = "Connecting", !.built = helper[h].settings]
    <2>1. /\ helper' = [helper EXCEPT ![h].session = "Connecting", ![h].built = helper[h].settings]
          /\ UNCHANGED gui /\ conn' = [conn EXCEPT ![c] = Taken(c, es)]
      BY <1>6 DEF ConnectRead
    <2>2. es \in Seq(EventsOf(conn[c].peer))
      <3>1. Reported("Connecting") \in EventsOf(conn[c].peer) /\ "Disconnected" \in States
        BY EventTypes DEF States
      <3>2. <<Reported("Connecting")>> \in Seq(EventsOf(conn[c].peer))
        BY <3>1
      <3> QED BY <1>1, <3>1, <3>2, ReportsType, Written
    <2> HIDE DEF es
    <2>3. Becomes(conn[c], Taken(c, es), gui.helper)
      BY <1>0, <2>2, TakenBecomes
    <2>4. r \in HelperType
      BY <1>0 DEF HelperType, States
    <2>5. helper' \in [Helpers -> HelperType]
      <3>1. helper' = [helper EXCEPT ![h] = r]
        BY <1>0, <2>1
      <3> HIDE DEF r
      <3> QED BY <2>4, <3>1, HelperSet
    <2> QED BY <2>1, <2>3, <2>5, FarStepOnOne
  <1>7. CASE ConnectRefused(c, h)
    <2> DEFINE s == helper[h].session
    <2>1. PICK t \in {"Error", "Disconnected"} :
             /\ helper' = [helper EXCEPT ![h].session = t]
             /\ conn' = [conn EXCEPT ![c] =
                    Taken(c, (Halted(s) \o Changed(HaltedAt(s), t)) \o <<[kind |-> "error"]>>)]
      BY <1>7 DEF ConnectRefused
    <2> DEFINE es == (Halted(s) \o Changed(HaltedAt(s), t)) \o <<[kind |-> "error"]>>
               r == [helper[h] EXCEPT !.session = t]
    <2>2. es \in Seq(EventsOf(conn[c].peer))
      <3>1. t \in States
        BY DEF States
      <3>2. <<[kind |-> "error"]>> \in Seq(EventsOf(conn[c].peer))
        <4>1. [kind |-> "error"] \in EventsOf(conn[c].peer)
          BY EventTypes
        <4> QED BY <4>1
      <3> QED BY <1>1, <3>1, <3>2, ReportsType, Written
    <2> HIDE DEF es
    <2>3. Becomes(conn[c], Taken(c, es), gui.helper)
      BY <1>0, <2>2, TakenBecomes
    <2>4. r \in HelperType
      BY <1>0 DEF HelperType, States
    <2>5. helper' \in [Helpers -> HelperType]
      BY <2>1, <2>4, HelperSet
    <2>6. UNCHANGED gui
      BY <1>7 DEF ConnectRefused
    <2> QED BY <2>1, <2>3, <2>5, <2>6, FarStepOnOne DEF es
  <1>8. CASE DisconnectRead(c, h)
    <2> DEFINE r == [helper[h] EXCEPT !.session = "Disconnected"]
    <2>1. /\ helper' = [helper EXCEPT ![h] = r] /\ UNCHANGED gui
          /\ conn' = [conn EXCEPT ![c] = Taken(c, Stopped)]
      BY <1>8 DEF DisconnectRead
    <2>2. r \in HelperType
      BY <1>0 DEF HelperType, States
    <2>3. Becomes(conn[c], Taken(c, Stopped), gui.helper)
      BY <1>0, <1>1, ReportsType, TakenBecomes
    <2> QED BY <2>1, <2>2, <2>3, HelperSet, FarStepOnOne
  <1>9. CASE QuitRead(c, h)
    BY <1>9, EndsStep DEF QuitRead
  <1> QED BY <1>3, <1>4, <1>5, <1>6, <1>7, <1>8, <1>9 DEF Reading

LEMMA ProcessStep ==
  ASSUME LinkInv, NEW h \in Helpers, Process(h) PROVE LinkInv'
  <1>0. helper \in [Helpers -> HelperType] /\ conn = [c \in Conns |-> conn[c]]
    BY DEF LinkInv
  <1>1. CASE HelperStarts(h) \/ HelperNeverStarts(h)
    <2> DEFINE r == [helper[h] EXCEPT !.phase = "listening"]
    <2>1. r \in HelperType /\ Absent \in HelperType
      BY <1>0 DEF HelperType, Absent, States
    <2>2. /\ UNCHANGED <<gui, conn>>
          /\ helper' = [helper EXCEPT ![h] = r] \/ helper' = [helper EXCEPT ![h] = Absent]
      BY <1>1 DEF HelperStarts, HelperNeverStarts
    <2> HIDE DEF r
    <2>3. helper' \in [Helpers -> HelperType]
      BY <2>1, <2>2, HelperSet
    <2> QED BY <1>0, <2>2, <2>3, SameBecomes, FarStep
  <1>2. CASE UnauthenticatedExit(h) \/ HelperDies(h)
    BY <1>2, EndsStep DEF UnauthenticatedExit, HelperDies
  <1>3. CASE SessionMoves(h)
    <2>1. PICK t \in {"Connecting", "Connected", "Error"} :
             /\ helper' = [helper EXCEPT ![h].session = t]
             /\ HelperReports(h, <<Reported(t)>>)
      BY <1>3 DEF SessionMoves
    <2> DEFINE r == [helper[h] EXCEPT !.session = t]
    <2>2. r \in HelperType
      BY <1>0 DEF HelperType, States
    <2>3. helper' \in [Helpers -> HelperType]
      BY <2>1, <2>2, HelperSet
    <2> HIDE DEF r
    <2>4. /\ conn' = [c \in Conns |-> conn'[c]]
          /\ \A c \in Conns : conn'[c] = IF c \in Served(h) THEN Report(conn[c], <<Reported(t)>>)
                                        ELSE conn[c]
      BY <2>1 DEF HelperReports
    <2>5. ASSUME NEW c \in Conns
          PROVE  Becomes(conn[c], Report(conn[c], <<Reported(t)>>), gui.helper)
      <3>1. Reported(t) \in EventsOf(conn[c].peer)
        <4>1. t \in States
          BY <2>1 DEF States
        <4> QED BY <4>1, EventTypes
      <3>2. <<Reported(t)>> \in Seq(EventsOf(conn[c].peer))
        BY <3>1
      <3> DEFINE es == <<Reported(t)>>
      <3>3. es \in Seq(EventsOf(conn[c].peer))
        BY <3>2
      <3> HIDE DEF es
      <3>4. Sound(conn[c], gui.helper)
        BY DEF LinkInv
      <3>5. Becomes(conn[c], Report(conn[c], es), gui.helper)
        BY <3>3, <3>4, ReportedIsSound DEF Becomes
      <3> QED BY <3>5 DEF es
    <2>6. UNCHANGED gui
      BY <1>3 DEF SessionMoves
    <2> QED BY <2>3, <2>4, <2>5, <2>6, SameBecomes, FarStep
  <1> QED BY <1>1, <1>2, <1>3 DEF Process

LEMMA WireStep ==
  ASSUME LinkInv, NEW c \in Conns, Wire(c) PROVE LinkInv'
  <1>0. helper \in [Helpers -> HelperType] /\ Sound(conn[c], gui.helper)
    BY DEF LinkInv
  <1>1. CASE PendingDropped(c) \/ StrangerCloses(c)
    <2>1. conn' = [conn EXCEPT ![c] = FarClosed(conn[c])] /\ UNCHANGED <<gui, helper>>
      BY <1>1 DEF PendingDropped, StrangerCloses
    <2> QED BY <1>0, <2>1, FarClosedBecomes, FarStepOnOne
  <1>2. CASE GuiGone(c)
    <2>1. UNCHANGED gui /\ ~conn[c].near /\ conn[c].peer \in Helpers
      BY <1>2 DEF GuiGone
    <2>2. CASE HelperEnds(conn[c].peer)
      BY <2>1, <2>2, EndsStep
    <2>3. CASE conn' = [conn EXCEPT ![c] = Closed] /\ UNCHANGED helper
      <3>1. conn[c].near = FALSE /\ Closed.near = FALSE
        BY <1>0, <2>1 DEF Sound, ConnType, Closed
      <3>2. Becomes(conn[c], Closed, gui.helper)
        BY <3>1, ClosedIsSound DEF Becomes
      <3> QED BY <1>0, <2>1, <2>3, <3>2, FarStepOnOne
    <2> QED BY <1>2, <2>2, <2>3 DEF GuiGone
  <1>3. CASE StrangerAnswers(c)
    <2>1. PICK e \in {[kind |-> "challenge", token |-> Stranger], [kind |-> "ready"]} :
             conn' = [conn EXCEPT ![c] = Taken(c, <<e>>)]
      BY <1>3 DEF StrangerAnswers
    <2>2. conn[c].peer = Stranger /\ conn[c].toHelper # <<>> /\ UNCHANGED <<gui, helper>>
      BY <1>3 DEF StrangerAnswers
    <2>3. e \in EventsOf(conn[c].peer)
      BY <2>2, EventTypes
    <2>4. <<e>> \in Seq(EventsOf(conn[c].peer))
      BY <2>3
    <2>5. Becomes(conn[c], Taken(c, <<e>>), gui.helper)
      BY <2>2, <2>4, TakenBecomes
    <2> QED BY <1>0, <2>1, <2>2, <2>5, FarStepOnOne
  <1> QED BY <1>1, <1>2, <1>3 DEF Wire

(***************************************************************************)
(* The theorems.                                                           *)
(***************************************************************************)
LEMMA LinkInit == Init => LinkInv
  <1> SUFFICES ASSUME Init PROVE LinkInv
    OBVIOUS
  <1>1. Ordered(gui) /\ gui.sock = NoConn /\ ~gui.proven
    BY DEF Init, Ordered, GuiType, States
  <1>2. conn = [c \in Conns |-> Closed]
    BY DEF Init
  <1>3. Absent \in HelperType
    BY DEF Absent, HelperType, States
  <1>4. helper \in [Helpers -> HelperType]
    BY <1>3 DEF Init
  <1>5. conn = [c \in Conns |-> conn[c]] /\ \A c \in Conns : conn[c] = Closed
    BY <1>2
  <1>6. \A c \in Conns : Sound(conn[c], gui.helper) /\ (conn[c].near <=> gui.sock = c)
    BY <1>1, <1>5, ClosedIsSound, SlotsAssumption
  <1> QED BY <1>1, <1>4, <1>5, <1>6 DEF LinkInv

LEMMA LinkStep == LinkInv /\ [Next]_vars => LinkInv'
  <1>1. LinkInv /\ Next => LinkInv'
    BY UserStep, GuiStep, ProcessStep, ReadingStep, WireStep DEF Next
  <1>2. LinkInv /\ UNCHANGED vars => LinkInv'
    BY OwnStep DEF vars, LinkInv, Ordered, SameLink
  <1> QED BY <1>1, <1>2

LEMMA LinkInvariant == Spec => []LinkInv
  BY LinkInit, LinkStep, PTL DEF Spec

\* Every state has its type, and the two ends agree which connection is the GUI's.
THEOREM LinkTypeCorrect == Spec => []TypeOK
  <1>1. LinkInv => TypeOK
    <2> SUFFICES ASSUME LinkInv PROVE TypeOK
      OBVIOUS
    <2>1. conn = [c \in Conns |-> conn[c]] /\ \A c \in Conns : conn[c] \in ConnType
      BY DEF LinkInv, Sound
    <2>2. conn \in [Conns -> ConnType]
      BY <2>1
    <2> QED BY <2>2 DEF LinkInv, Ordered, TypeOK
  <1> QED BY <1>1, LinkInvariant, PTL

\* Whatever answers on the port, and however its answers are ordered, the user's
\* configuration and settings are written to the helper this GUI launched only.
THEOREM OnlyTheHelperIsTold == Spec => []ConfigOnlyToHelper
  <1>1. LinkInv => ConfigOnlyToHelper
    <2> SUFFICES ASSUME LinkInv, NEW c \in Conns, NEW i \in 1..Len(conn[c].toHelper),
                        conn[c].toHelper[i].kind \in {"connect", "settings", "disconnect"}
                 PROVE  conn[c].peer \in Helpers /\ (conn[c].near => conn[c].peer = gui.helper)
      BY DEF ConfigOnlyToHelper
    <2>1. Sound(conn[c], gui.helper)
      BY DEF LinkInv
    <2>2. ASSUME conn[c].toHelper \in Seq(Greetings) PROVE FALSE
      <3>1. conn[c].toHelper[i] \in Greetings
        BY <2>2
      <3> QED BY <3>1 DEF Greetings
    <2> QED BY <2>1, <2>2 DEF Sound
  <1> QED BY <1>1, LinkInvariant, PTL

-----------------------------------------------------------------------------
(***************************************************************************)
(* What becomes of a click: theorems about HelperLink, for any number of   *)
(* launches, connections and settings values and any bound on what is      *)
(* under way.  They need the whole exchange between the two ends: what a   *)
(* connection carries at each stage of the handshake, and, once it is      *)
(* made, what the orders under way will make of the session and the        *)
(* reports under way of the window.                                        *)
(***************************************************************************)

(***************************************************************************)
(* What a queue holds, and which of several comes last.                    *)
(***************************************************************************)
Has(q, S) == \E i \in DOMAIN q : q[i] \in S
Latest(q, S, T) == \E i \in DOMAIN q : q[i] \in T /\ \A j \in DOMAIN q : q[j] \in S => j <= i

LEMMA HasNone ==
  ASSUME NEW S, NEW T PROVE ~Has(<<>>, S) /\ ~Latest(<<>>, S, T)
  BY DEF Has, Latest

LEMMA HasOne ==
  ASSUME NEW m, NEW S, NEW T
  PROVE  (Has(<<m>>, S) <=> m \in S) /\ (Latest(<<m>>, S, T) <=> m \in T)
  <1> DEFINE q == <<m>>
  <1>1. DOMAIN q = {1} /\ q[1] = m
    OBVIOUS
  <1> HIDE DEF q
  <1> QED BY <1>1 DEF Has, Latest, q

\* The queue q without its first element.
LEMMA TailAt ==
  ASSUME NEW X, NEW q \in Seq(X), q # <<>>
  PROVE  /\ 1 \in DOMAIN q /\ Head(q) = q[1]
         /\ \A i \in DOMAIN Tail(q) : i \in Nat /\ i >= 1 /\ i + 1 \in DOMAIN q
                                      /\ Tail(q)[i] = q[i + 1]
         /\ \A i \in DOMAIN q : i \in Nat /\ i >= 1
                  /\ (i # 1 => i - 1 \in DOMAIN Tail(q) /\ Tail(q)[i - 1] = q[i])
  <1>1. Len(q) \in Nat /\ Len(q) > 0 /\ DOMAIN q = 1..Len(q) /\ Head(q) = q[1]
    OBVIOUS
  <1>2. DOMAIN Tail(q) = 1..(Len(q) - 1) /\ \A i \in 1..(Len(q) - 1) : Tail(q)[i] = q[i + 1]
    BY <1>1
  <1> QED BY <1>1, <1>2

\* q followed by r, of n elements together.
LEMMA ConcatAt ==
  ASSUME NEW X, NEW q \in Seq(X), NEW r \in Seq(X)
  PROVE  /\ \A i \in DOMAIN q : i \in Nat /\ i >= 1 /\ i <= Len(q) /\ i \in DOMAIN (q \o r)
                                /\ (q \o r)[i] = q[i]
         /\ \A i \in DOMAIN r : i \in Nat /\ i >= 1 /\ Len(q) + i \in DOMAIN (q \o r)
                                /\ (q \o r)[Len(q) + i] = r[i]
         /\ \A i \in DOMAIN (q \o r) : i \in Nat /\ (i \in DOMAIN q \/ i - Len(q) \in DOMAIN r)
         /\ Len(q) \in Nat
  <1>1. /\ Len(q) \in Nat /\ Len(r) \in Nat /\ Len(q \o r) = Len(q) + Len(r)
        /\ DOMAIN q = 1..Len(q) /\ DOMAIN r = 1..Len(r) /\ DOMAIN (q \o r) = 1..(Len(q) + Len(r))
    OBVIOUS
  <1>2. \A i \in 1..Len(q) : (q \o r)[i] = q[i]
    BY <1>1
  <1>3. \A i \in 1..Len(r) : (q \o r)[Len(q) + i] = r[i]
    BY <1>1
  <1> QED BY <1>1, <1>2, <1>3

LEMMA HasTail ==
  ASSUME NEW X, NEW q \in Seq(X), q # <<>>, NEW S, NEW T
  PROVE  /\ Has(q, S) <=> Head(q) \in S \/ Has(Tail(q), S)
         /\ Latest(q, S, T) => Latest(Tail(q), S, T) \/ (~Has(Tail(q), S) /\ Head(q) \in T)
         /\ Latest(Tail(q), S, T) => Latest(q, S, T)
  <1> DEFINE t == Tail(q)
  <1>0. /\ 1 \in DOMAIN q /\ Head(q) = q[1]
        /\ \A i \in DOMAIN t : i \in Nat /\ i >= 1 /\ i + 1 \in DOMAIN q /\ t[i] = q[i + 1]
        /\ \A i \in DOMAIN q : i \in Nat /\ i >= 1
                 /\ (i # 1 => i - 1 \in DOMAIN t /\ t[i - 1] = q[i])
    BY TailAt
  <1> HIDE DEF t
  <1>1. Has(q, S) <=> Head(q) \in S \/ Has(t, S)
    BY <1>0 DEF Has
  <1>2. ASSUME Latest(q, S, T) PROVE Latest(t, S, T) \/ (~Has(t, S) /\ Head(q) \in T)
    <2>1. PICK i \in DOMAIN q : q[i] \in T /\ \A j \in DOMAIN q : q[j] \in S => j <= i
      BY <1>2 DEF Latest
    <2>2. CASE i = 1
      <3>1. \A j \in DOMAIN t : t[j] \notin S
        BY <1>0, <2>1, <2>2
      <3> QED BY <1>0, <2>1, <2>2, <3>1 DEF Has
    <2>3. CASE i # 1
      <3>1. i - 1 \in DOMAIN t /\ t[i - 1] \in T
        BY <1>0, <2>1, <2>3
      <3>2. \A j \in DOMAIN t : t[j] \in S => j <= i - 1
        BY <1>0, <2>1
      <3> QED BY <3>1, <3>2 DEF Latest
    <2> QED BY <2>2, <2>3
  <1>3. ASSUME Latest(t, S, T) PROVE Latest(q, S, T)
    <2>1. PICK i \in DOMAIN t : t[i] \in T /\ \A j \in DOMAIN t : t[j] \in S => j <= i
      BY <1>3 DEF Latest
    <2>2. i + 1 \in DOMAIN q /\ q[i + 1] \in T /\ i \in Nat
      BY <1>0, <2>1
    <2>3. \A j \in DOMAIN q : q[j] \in S => j <= i + 1
      BY <1>0, <2>1, <2>2
    <2> QED BY <2>2, <2>3 DEF Latest
  <1> QED BY <1>1, <1>2, <1>3 DEF t

LEMMA HasConcat ==
  ASSUME NEW X, NEW q \in Seq(X), NEW r \in Seq(X), NEW S, NEW T
  PROVE  /\ Has(q \o r, S) <=> Has(q, S) \/ Has(r, S)
         /\ Latest(r, S, T) => Latest(q \o r, S, T)
         /\ Latest(q, S, T) /\ ~Has(r, S) => Latest(q \o r, S, T)
  <1> DEFINE p == q \o r
             n == Len(q)
  <1>0. /\ \A i \in DOMAIN q : i \in Nat /\ i >= 1 /\ i <= n /\ i \in DOMAIN p /\ p[i] = q[i]
        /\ \A i \in DOMAIN r : i \in Nat /\ i >= 1 /\ n + i \in DOMAIN p /\ p[n + i] = r[i]
        /\ \A i \in DOMAIN p : i \in Nat /\ (i \in DOMAIN q \/ i - n \in DOMAIN r)
        /\ n \in Nat
    BY ConcatAt
  <1> HIDE DEF p, n
  <1>1. \A i \in DOMAIN p : i \notin DOMAIN q => i - n \in DOMAIN r /\ p[i] = r[i - n]
    BY <1>0
  <1>2. Has(p, S) <=> Has(q, S) \/ Has(r, S)
    BY <1>0, <1>1 DEF Has
  <1>3. ASSUME Latest(r, S, T) PROVE Latest(p, S, T)
    <2>1. PICK i \in DOMAIN r : r[i] \in T /\ \A j \in DOMAIN r : r[j] \in S => j <= i
      BY <1>3 DEF Latest
    <2>2. n + i \in DOMAIN p /\ p[n + i] \in T /\ i \in Nat /\ i >= 1
      BY <1>0, <2>1
    <2>3. \A j \in DOMAIN p : p[j] \in S => j <= n + i
      <3> SUFFICES ASSUME NEW j \in DOMAIN p, p[j] \in S PROVE j <= n + i
        OBVIOUS
      <3>1. CASE j \in DOMAIN q
        BY <1>0, <2>2, <3>1
      <3>2. CASE j \notin DOMAIN q
        <4>1. j - n \in DOMAIN r /\ r[j - n] \in S /\ j \in Nat
          BY <1>0, <1>1, <3>2
        <4>2. j - n <= i
          BY <2>1, <4>1
        <4> QED BY <1>0, <2>2, <4>1, <4>2
      <3> QED BY <3>1, <3>2
    <2> QED BY <2>2, <2>3 DEF Latest
  <1>4. ASSUME Latest(q, S, T), ~Has(r, S) PROVE Latest(p, S, T)
    <2>1. PICK i \in DOMAIN q : q[i] \in T /\ \A j \in DOMAIN q : q[j] \in S => j <= i
      BY <1>4 DEF Latest
    <2>2. \A j \in DOMAIN p : p[j] \in S => j \in DOMAIN q
      BY <1>1, <1>4 DEF Has
    <2>3. i \in DOMAIN p /\ p[i] \in T /\ \A j \in DOMAIN p : p[j] \in S => j <= i
      BY <1>0, <2>1, <2>2
    <2> QED BY <2>3 DEF Latest
  <1> QED BY <1>2, <1>3, <1>4 DEF p

(***************************************************************************)
(* The orders and the settings under way.                                  *)
(***************************************************************************)
OrderSet == [kind : {"connect", "disconnect"}]
SettingsSet == [kind : {"settings"}, value : Settings]
UserCommands == OrderSet \cup SettingsSet

DisconnectCommand == [kind |-> "disconnect"]

\* v is what a helper that has the settings s has once it read all of q.
InForce(q, s, v) == \/ ~Has(q, SettingsSet) /\ s = v
                    \/ Latest(q, SettingsSet, {SettingsCommand(v)})

\* The last order in q is a connect, and finds the settings v at a helper that has s.
BuildsFrom(q, s, v) ==
    \E i \in DOMAIN q :
        /\ q[i] = ConnectCommand
        /\ \A j \in DOMAIN q : q[j] \in OrderSet => j <= i
        /\ \/ s = v /\ \A j \in DOMAIN q : q[j] \in SettingsSet => j > i
           \/ \E l \in DOMAIN q : /\ l < i /\ q[l] = SettingsCommand(v)
                                  /\ \A j \in DOMAIN q : j < i /\ q[j] \in SettingsSet => j <= l

LEMMA UserCommandTypes ==
  /\ ConnectCommand \in OrderSet /\ DisconnectCommand \in OrderSet
  /\ ConnectCommand # DisconnectCommand
  /\ \A v \in Settings : SettingsCommand(v) \in SettingsSet /\ SettingsCommand(v).value = v
  /\ \A m \in OrderSet : m \notin SettingsSet /\ m \in {ConnectCommand, DisconnectCommand}
  /\ \A m \in SettingsSet : m.value \in Settings /\ m = SettingsCommand(m.value)
  /\ UserCommands \subseteq Commands
  BY DEF OrderSet, SettingsSet, ConnectCommand, DisconnectCommand, SettingsCommand,
         UserCommands, Commands

LEMMA InForceTail ==
  ASSUME NEW q \in Seq(UserCommands), q # <<>>, NEW s, NEW v \in Settings, InForce(q, s, v)
  PROVE  /\ Head(q) \in SettingsSet => InForce(Tail(q), Head(q).value, v)
         /\ Head(q) \notin SettingsSet => InForce(Tail(q), s, v)
  <1>1. SettingsCommand(v) \in SettingsSet /\ SettingsCommand(v).value = v
    BY UserCommandTypes
  <1>2. /\ Has(q, SettingsSet) <=> Head(q) \in SettingsSet \/ Has(Tail(q), SettingsSet)
        /\ Latest(q, SettingsSet, {SettingsCommand(v)})
              => \/ Latest(Tail(q), SettingsSet, {SettingsCommand(v)})
                 \/ ~Has(Tail(q), SettingsSet) /\ Head(q) \in {SettingsCommand(v)}
    BY HasTail
  <1> QED BY <1>1, <1>2 DEF InForce

LEMMA InForceConcat ==
  ASSUME NEW q \in Seq(UserCommands), NEW r \in Seq(UserCommands), NEW s, NEW v,
         InForce(q, s, v), ~Has(r, SettingsSet)
  PROVE  InForce(q \o r, s, v)
  BY HasConcat DEF InForce

LEMMA InForceSettings ==
  ASSUME NEW q \in Seq(UserCommands), NEW s, NEW v \in Settings
  PROVE  InForce(q \o <<SettingsCommand(v)>>, s, v)
  <1> DEFINE r == <<SettingsCommand(v)>>
  <1>1. SettingsCommand(v) \in UserCommands
    BY UserCommandTypes DEF UserCommands
  <1>2. r \in Seq(UserCommands) /\ Latest(r, SettingsSet, {SettingsCommand(v)})
    BY <1>1, HasOne
  <1> HIDE DEF r
  <1>3. Latest(q \o r, SettingsSet, {SettingsCommand(v)})
    BY <1>2, HasConcat
  <1> QED BY <1>3 DEF InForce, r

LEMMA BuildsTail ==
  ASSUME NEW q \in Seq(UserCommands), q # <<>>, NEW s, NEW v \in Settings, BuildsFrom(q, s, v)
  PROVE  /\ Head(q) \in SettingsSet => BuildsFrom(Tail(q), Head(q).value, v)
         /\ Head(q) = DisconnectCommand => BuildsFrom(Tail(q), s, v)
         /\ Head(q) = ConnectCommand => BuildsFrom(Tail(q), s, v)
                                           \/ (~Has(Tail(q), OrderSet) /\ s = v)
  <1> DEFINE t == Tail(q)
  <1>0. /\ 1 \in DOMAIN q /\ Head(q) = q[1]
        /\ \A i \in DOMAIN t : i \in Nat /\ i >= 1 /\ i + 1 \in DOMAIN q /\ t[i] = q[i + 1]
        /\ \A i \in DOMAIN q : i \in Nat /\ i >= 1
                 /\ (i # 1 => i - 1 \in DOMAIN t /\ t[i - 1] = q[i])
    BY TailAt
  <1> HIDE DEF t
  <1>1. PICK i \in DOMAIN q :
           /\ q[i] = ConnectCommand
           /\ \A j \in DOMAIN q : q[j] \in OrderSet => j <= i
           /\ \/ s = v /\ \A j \in DOMAIN q : q[j] \in SettingsSet => j > i
              \/ \E l \in DOMAIN q : /\ l < i /\ q[l] = SettingsCommand(v)
                                     /\ \A j \in DOMAIN q : j < i /\ q[j] \in SettingsSet => j <= l
    BY DEF BuildsFrom
  <1>2. \A j \in DOMAIN t : t[j] \in OrderSet => j <= i - 1
    BY <1>0, <1>1
  <1>3. CASE i = 1
    <2>1. s = v
      <3>1. ~ \E l \in DOMAIN q : l < i
        BY <1>0, <1>3
      <3> QED BY <1>1, <3>1
    <2>2. \A j \in DOMAIN t : t[j] \notin OrderSet
      BY <1>0, <1>2, <1>3
    <2>3. Head(q) = ConnectCommand /\ Head(q) \notin SettingsSet /\ Head(q) # DisconnectCommand
      BY <1>0, <1>1, <1>3, UserCommandTypes
    <2> QED BY <2>1, <2>2, <2>3 DEF Has, t
  <1>4. CASE i # 1
    <2>0. i - 1 \in DOMAIN t /\ t[i - 1] = ConnectCommand /\ i \in Nat /\ i > 1
      BY <1>0, <1>1, <1>4
    <2>1. ASSUME s = v, \A j \in DOMAIN q : q[j] \in SettingsSet => j > i
          PROVE  BuildsFrom(t, s, v) /\ Head(q) \notin SettingsSet
      <3>1. \A j \in DOMAIN t : t[j] \in SettingsSet => j > i - 1
        BY <1>0, <2>0, <2>1
      <3>2. Head(q) \notin SettingsSet
        BY <1>0, <2>0, <2>1
      <3> QED BY <1>2, <2>0, <2>1, <3>1, <3>2 DEF BuildsFrom
    <2>2. ASSUME NEW l \in DOMAIN q, l < i, q[l] = SettingsCommand(v),
                 \A j \in DOMAIN q : j < i /\ q[j] \in SettingsSet => j <= l
          PROVE  \/ l # 1 /\ \A u : BuildsFrom(t, u, v)
                 \/ l = 1 /\ BuildsFrom(t, v, v)
      <3>1. CASE l = 1
        <4>1. \A j \in DOMAIN t : t[j] \in SettingsSet => j > i - 1
          <5> SUFFICES ASSUME NEW j \in DOMAIN t, t[j] \in SettingsSet, ~(j > i - 1) PROVE FALSE
            OBVIOUS
          <5>1. j + 1 \in DOMAIN q /\ q[j + 1] \in SettingsSet /\ j \in Nat /\ j >= 1
            BY <1>0
          <5>2. j + 1 # i
            BY <1>1, <5>1, UserCommandTypes
          <5>3. j + 1 < i
            BY <2>0, <5>1, <5>2
          <5>4. j + 1 <= 1
            BY <2>2, <3>1, <5>1, <5>3
          <5> QED BY <5>1, <5>4
        <4> QED BY <1>2, <2>0, <3>1, <4>1 DEF BuildsFrom
      <3>2. CASE l # 1
        <4>1. l - 1 \in DOMAIN t /\ t[l - 1] = SettingsCommand(v) /\ l \in Nat /\ l - 1 < i - 1
          BY <1>0, <2>0, <2>2, <3>2
        <4>2. ASSUME NEW j \in DOMAIN t, j < i - 1, t[j] \in SettingsSet PROVE j <= l - 1
          <5>1. j + 1 \in DOMAIN q /\ q[j + 1] \in SettingsSet /\ j \in Nat
            BY <1>0, <4>2
          <5>2. j + 1 <= l
            BY <2>0, <2>2, <4>2, <5>1
          <5> QED BY <4>1, <5>1, <5>2
        <4>3. \A u : BuildsFrom(t, u, v)
          BY <1>2, <2>0, <4>1, <4>2 DEF BuildsFrom
        <4> QED BY <3>2, <4>3
      <3> QED BY <3>1, <3>2
    <2>3. CASE \E l \in DOMAIN q : /\ l < i /\ q[l] = SettingsCommand(v)
                                   /\ \A j \in DOMAIN q : j < i /\ q[j] \in SettingsSet => j <= l
      <3>1. PICK l \in DOMAIN q : /\ l < i /\ q[l] = SettingsCommand(v)
                                  /\ \A j \in DOMAIN q : j < i /\ q[j] \in SettingsSet => j <= l
        BY <2>3
      <3>2. \/ l # 1 /\ \A u : BuildsFrom(t, u, v)
            \/ l = 1 /\ BuildsFrom(t, v, v)
        BY <2>2, <3>1
      <3>3. l = 1 => Head(q) = SettingsCommand(v) /\ Head(q).value = v /\ Head(q) \in SettingsSet
        BY <1>0, <3>1, UserCommandTypes
      <3>4. Head(q) \in SettingsSet => Head(q) \notin {ConnectCommand, DisconnectCommand}
        BY UserCommandTypes
      <3>5. BuildsFrom(t, s, v) \/ (Head(q).value = v /\ Head(q) \in SettingsSet)
        BY <3>2, <3>3
      <3>6. Head(q) \in SettingsSet => BuildsFrom(t, Head(q).value, v)
        BY <3>2, <3>3
      <3> QED BY <3>4, <3>5, <3>6 DEF t
    <2>4. CASE s = v /\ \A j \in DOMAIN q : q[j] \in SettingsSet => j > i
      BY <2>1, <2>4 DEF t
    <2> QED BY <1>1, <2>3, <2>4
  <1> QED BY <1>3, <1>4

\* Settings that follow the last connect come too late for it.
LEMMA BuildsConcat ==
  ASSUME NEW q \in Seq(UserCommands), NEW r \in Seq(UserCommands), NEW s, NEW v,
         BuildsFrom(q, s, v), ~Has(r, OrderSet)
  PROVE  BuildsFrom(q \o r, s, v)
  <1> DEFINE p == q \o r
             n == Len(q)
  <1>0. /\ \A i \in DOMAIN q : i \in Nat /\ i >= 1 /\ i <= n /\ i \in DOMAIN p /\ p[i] = q[i]
        /\ \A i \in DOMAIN r : i \in Nat /\ i >= 1 /\ n + i \in DOMAIN p /\ p[n + i] = r[i]
        /\ \A i \in DOMAIN p : i \in Nat /\ (i \in DOMAIN q \/ i - n \in DOMAIN r)
        /\ n \in Nat
    BY ConcatAt
  <1> HIDE DEF p, n
  <1>1. \A j \in DOMAIN p : \/ j \in DOMAIN q /\ p[j] = q[j]
                            \/ j \notin DOMAIN q /\ j > n /\ j - n \in DOMAIN r /\ p[j] = r[j - n]
    <2> SUFFICES ASSUME NEW j \in DOMAIN p, j \notin DOMAIN q
                 PROVE  j > n /\ j - n \in DOMAIN r /\ p[j] = r[j - n]
      BY <1>0
    <2>1. j - n \in DOMAIN r /\ j \in Nat
      BY <1>0
    <2>2. j - n >= 1 /\ p[n + (j - n)] = r[j - n]
      BY <1>0, <2>1
    <2> QED BY <1>0, <2>1, <2>2
  <1>2. PICK i \in DOMAIN q :
           /\ q[i] = ConnectCommand
           /\ \A j \in DOMAIN q : q[j] \in OrderSet => j <= i
           /\ \/ s = v /\ \A j \in DOMAIN q : q[j] \in SettingsSet => j > i
              \/ \E l \in DOMAIN q : /\ l < i /\ q[l] = SettingsCommand(v)
                                     /\ \A j \in DOMAIN q : j < i /\ q[j] \in SettingsSet => j <= l
    BY DEF BuildsFrom
  <1>3. /\ i \in DOMAIN p /\ p[i] = ConnectCommand /\ i \in Nat /\ i <= n
        /\ \A j \in DOMAIN p : p[j] \in OrderSet => j <= i
    BY <1>0, <1>1, <1>2 DEF Has
  <1>4. CASE s = v /\ \A j \in DOMAIN q : q[j] \in SettingsSet => j > i
    <2>1. \A j \in DOMAIN p : p[j] \in SettingsSet => j > i
      BY <1>0, <1>1, <1>3, <1>4
    <2> QED BY <1>3, <1>4, <2>1 DEF BuildsFrom, p
  <1>5. ASSUME NEW l \in DOMAIN q, l < i, q[l] = SettingsCommand(v),
               \A j \in DOMAIN q : j < i /\ q[j] \in SettingsSet => j <= l
        PROVE  BuildsFrom(p, s, v)
    <2>1. l \in DOMAIN p /\ p[l] = SettingsCommand(v)
      BY <1>0, <1>5
    <2>2. \A j \in DOMAIN p : j < i /\ p[j] \in SettingsSet => j <= l
      BY <1>0, <1>1, <1>3, <1>5
    <2> QED BY <1>3, <1>5, <2>1, <2>2 DEF BuildsFrom
  <1> QED BY <1>2, <1>4, <1>5 DEF p

\* A connect written now is for the settings written before it.
LEMMA BuildsConnect ==
  ASSUME NEW q \in Seq(UserCommands), NEW s, NEW v, InForce(q, s, v)
  PROVE  BuildsFrom(q \o <<ConnectCommand>>, s, v)
  <1> DEFINE r == <<ConnectCommand>>
             p == q \o r
             n == Len(q)
  <1>1. ConnectCommand \in UserCommands /\ ConnectCommand \notin SettingsSet
    BY UserCommandTypes DEF UserCommands
  <1>2. r \in Seq(UserCommands) /\ DOMAIN r = {1} /\ r[1] = ConnectCommand
    BY <1>1
  <1> HIDE DEF r
  <1>0. /\ \A i \in DOMAIN q : i \in Nat /\ i >= 1 /\ i <= n /\ i \in DOMAIN p /\ p[i] = q[i]
        /\ \A i \in DOMAIN r : i \in Nat /\ i >= 1 /\ n + i \in DOMAIN p /\ p[n + i] = r[i]
        /\ \A i \in DOMAIN p : i \in Nat /\ (i \in DOMAIN q \/ i - n \in DOMAIN r)
        /\ n \in Nat
    BY <1>2, ConcatAt
  <1> HIDE DEF p, n
  <1>3. /\ n + 1 \in DOMAIN p /\ p[n + 1] = ConnectCommand
        /\ \A j \in DOMAIN p : j \in Nat /\ (j = n + 1 \/ (j \in DOMAIN q /\ j <= n /\ p[j] = q[j]))
    BY <1>0, <1>2
  <1>4. \A j \in DOMAIN p : p[j] \in OrderSet => j <= n + 1
    BY <1>0, <1>3
  <1>5. CASE ~Has(q, SettingsSet) /\ s = v
    <2>1. \A j \in DOMAIN p : p[j] \in SettingsSet => j > n + 1
      BY <1>1, <1>3, <1>5 DEF Has
    <2> QED BY <1>3, <1>4, <1>5, <2>1 DEF BuildsFrom, p, r
  <1>6. CASE Latest(q, SettingsSet, {SettingsCommand(v)})
    <2>1. PICK l \in DOMAIN q : /\ q[l] = SettingsCommand(v)
                                /\ \A j \in DOMAIN q : q[j] \in SettingsSet => j <= l
      BY <1>6 DEF Latest
    <2>2. l \in DOMAIN p /\ p[l] = SettingsCommand(v) /\ l < n + 1
      BY <1>0, <2>1
    <2>3. \A j \in DOMAIN p : j < n + 1 /\ p[j] \in SettingsSet => j <= l
      BY <1>0, <1>3, <2>1
    <2> QED BY <1>3, <1>4, <2>2, <2>3 DEF BuildsFrom, p, r
  <1> QED BY <1>5, <1>6 DEF InForce

(***************************************************************************)
(* The reports under way.                                                  *)
(***************************************************************************)
StateSet == [kind : {"state"}, state : States]
ErrorEvent == [kind |-> "error"]
NewsSet == StateSet \cup {ErrorEvent}

\* The reports e lead from the state s to the state u.
Leads(e, s, u) == \/ Latest(e, StateSet, {Reported(u)})
                  \/ ~Has(e, StateSet) /\ s = u

\* e reports a state other than s, which settles what the window shows.
Stirs(e, s) == Has(e, StateSet \ {Reported(s)})

LEMMA NewsTypes ==
  /\ \A s \in States : Reported(s) \in StateSet /\ Reported(s) \in NewsSet
  /\ \A s, t : Reported(s) = Reported(t) => s = t
  /\ \A m \in StateSet : m.state \in States /\ m = Reported(m.state) /\ m # ErrorEvent
  /\ ErrorEvent \notin StateSet /\ ErrorEvent \in NewsSet
  /\ \A m \in NewsSet : m \in StateSet <=> m.kind = "state"
  /\ \A m \in NewsSet : m = ErrorEvent <=> m.kind = "error"
  /\ \A m \in NewsSet : m.kind \in {"state", "error"}
  /\ NewsSet \subseteq Events
  <1>1. \A s, t : Reported(s) = Reported(t) => s = t
    <2> SUFFICES ASSUME NEW s, NEW t, Reported(s) = Reported(t) PROVE s = t
      OBVIOUS
    <2>1. Reported(s).state = s /\ Reported(t).state = t
      BY DEF Reported
    <2> QED BY <2>1
  <1> QED BY <1>1 DEF StateSet, ErrorEvent, NewsSet, Reported, Events

LEMMA LeadsStirs ==
  ASSUME NEW e, NEW s, NEW u \in States, Leads(e, s, u), s # u PROVE Stirs(e, s)
  <1>1. PICK i \in DOMAIN e : e[i] = Reported(u)
    BY DEF Leads, Latest
  <1>2. Reported(u) \in StateSet \ {Reported(s)}
    BY NewsTypes
  <1> QED BY <1>1, <1>2 DEF Stirs, Has

LEMMA StirsTail ==
  ASSUME NEW e \in Seq(NewsSet), e # <<>>, NEW s, Stirs(e, s)
  PROVE  Stirs(Tail(e), s) \/ (Head(e) \in StateSet /\ Head(e).state # s)
  <1>1. Head(e) \in StateSet \ {Reported(s)} \/ Stirs(Tail(e), s)
    BY HasTail DEF Stirs
  <1> QED BY <1>1, NewsTypes

LEMMA StirsConcat ==
  ASSUME NEW e \in Seq(NewsSet), NEW f \in Seq(NewsSet), NEW s
  PROVE  Stirs(e \o f, s) <=> Stirs(e, s) \/ Stirs(f, s)
  BY HasConcat DEF Stirs

LEMMA LeadsTail ==
  ASSUME NEW e \in Seq(NewsSet), e # <<>>, NEW s, NEW u, Leads(e, s, u)
  PROVE  /\ Head(e) \in StateSet => Leads(Tail(e), Head(e).state, u)
         /\ Head(e) \notin StateSet => Leads(Tail(e), s, u)
  <1>1. /\ Has(e, StateSet) <=> Head(e) \in StateSet \/ Has(Tail(e), StateSet)
        /\ Latest(e, StateSet, {Reported(u)})
              => \/ Latest(Tail(e), StateSet, {Reported(u)})
                 \/ ~Has(Tail(e), StateSet) /\ Head(e) \in {Reported(u)}
    BY HasTail
  <1>2. Reported(u).state = u /\ Reported(u) # ErrorEvent /\ Head(e) \in NewsSet
    <2>1. Reported(u).kind = "state" /\ ErrorEvent.kind = "error"
      BY DEF Reported, ErrorEvent
    <2> QED BY <2>1, HeadTail DEF Reported
  <1>3. Head(e) = Reported(u) => Head(e) \in StateSet
    BY <1>2 DEF NewsSet
  <1> QED BY <1>1, <1>2, <1>3 DEF Leads

LEMMA LeadsConcat ==
  ASSUME NEW e \in Seq(NewsSet), NEW f \in Seq(NewsSet), NEW s, NEW t, NEW u,
         Leads(e, s, t), Leads(f, t, u)
  PROVE  Leads(e \o f, s, u)
  <1>1. /\ Has(e \o f, StateSet) <=> Has(e, StateSet) \/ Has(f, StateSet)
        /\ Latest(f, StateSet, {Reported(u)}) => Latest(e \o f, StateSet, {Reported(u)})
        /\ Latest(e, StateSet, {Reported(u)}) /\ ~Has(f, StateSet)
              => Latest(e \o f, StateSet, {Reported(u)})
    BY HasConcat
  <1> QED BY <1>1 DEF Leads

\* What the helper says as the session is stopped, or moves from s to t.
LEMMA LeadsOne ==
  ASSUME NEW s, NEW t \in States
  PROVE  <<Reported(t)>> \in Seq(NewsSet) /\ Leads(<<Reported(t)>>, s, t)
  BY NewsTypes, HasOne DEF Leads

LEMMA LeadsChanged ==
  ASSUME NEW s, NEW t \in States
  PROVE  Changed(s, t) \in Seq(NewsSet) /\ Leads(Changed(s, t), s, t)
  BY LeadsOne, HasNone, NothingWritten DEF Changed, Leads

LEMMA LeadsStopped ==
  ASSUME NEW s
  PROVE  /\ Stopped \in Seq(NewsSet) /\ Leads(Stopped, s, "Disconnected")
         /\ Stirs(Stopped, s)
  <1> DEFINE a == Reported("Disconnecting")
             b == Reported("Disconnected")
             q == <<a, b>>
  <1>1. a \in StateSet /\ b \in StateSet /\ a # b /\ a \in NewsSet /\ b \in NewsSet
    BY NewsTypes DEF States
  <1>2. q \in Seq(NewsSet) /\ DOMAIN q = {1, 2} /\ q[1] = a /\ q[2] = b
    BY <1>1
  <1>3. Stopped = q
    BY DEF Stopped
  <1> HIDE DEF a, q
  <1>4. Latest(q, StateSet, {b})
    BY <1>2 DEF Latest
  <1> HIDE DEF b
  <1>5. Stirs(q, s)
    BY <1>1, <1>2 DEF Stirs, Has
  <1> QED BY <1>2, <1>3, <1>4, <1>5 DEF Leads, b

LEMMA LeadsHalted ==
  ASSUME NEW s \in States
  PROVE  /\ Halted(s) \in Seq(NewsSet) /\ Leads(Halted(s), s, HaltedAt(s))
         /\ HaltedAt(s) \in States /\ AtRest(HaltedAt(s))
  <1>1. CASE AtRest(s)
    BY <1>1, HasNone, NothingWritten DEF Halted, HaltedAt, Leads
  <1>2. CASE ~AtRest(s)
    BY <1>2, LeadsStopped DEF Halted, HaltedAt, AtRest, States
  <1> QED BY <1>1, <1>2

\* A session in s ends or is stopped and comes to t.
LEMMA LeadsHaltedChanged ==
  ASSUME NEW s \in States, NEW t \in States
  PROVE  /\ Halted(s) \o Changed(HaltedAt(s), t) \in Seq(NewsSet)
         /\ Leads(Halted(s) \o Changed(HaltedAt(s), t), s, t)
  BY LeadsHalted, LeadsChanged, LeadsConcat, Written

(***************************************************************************)
(* The exchange between a GUI g and the helper r that serves it, with the  *)
(* commands q and the reports e under way.                                 *)
(***************************************************************************)
StopSettles(g, q, e) ==
    g.disconnecting # (g.state = "Disconnecting")
        => Stirs(e, g.state) \/ Has(q, {DisconnectCommand})

StartSettles(g, q, e, s) ==
    g.connecting # (g.state = "Connecting")
        => \/ Stirs(e, g.state) \/ Has(q, OrderSet)
           \/ AtRest(s) /\ Has(e, {ErrorEvent})

BuiltRight(g, q, r) ==
    g.builtWith # NoSettings
        => \/ BuildsFrom(q, r.settings, g.builtWith)
           \/ ~Has(q, OrderSet) /\ (AtRest(r.session) \/ r.built = g.builtWith)

Obeyed(g, q, s) ==
    ~g.wanted => \/ Latest(q, OrderSet, {DisconnectCommand})
                 \/ ~Has(q, OrderSet) /\ AtRest(s)

Exchange(g, q, e, r) ==
    /\ Leads(e, g.state, r.session)
    /\ StopSettles(g, q, e)
    /\ StartSettles(g, q, e, r.session)
    /\ InForce(q, r.settings, g.settings)
    /\ BuiltRight(g, q, r)
    /\ Obeyed(g, q, r.session)

SameView(g, o) == /\ o.state = g.state /\ o.settings = g.settings /\ o.builtWith = g.builtWith
                  /\ o.connecting = g.connecting /\ o.disconnecting = g.disconnecting
                  /\ o.wanted = g.wanted

LEMMA ExchangeSame ==
  ASSUME NEW g, NEW o, NEW q, NEW e, NEW r, SameView(g, o), Exchange(g, q, e, r)
  PROVE  Exchange(o, q, e, r)
  BY DEF SameView, Exchange, StopSettles, StartSettles, BuiltRight, Obeyed

\* What the GUI writes: a click on Connect, one on Disconnect, an edit.
LEMMA ConnectWritten ==
  ASSUME NEW g, NEW o, NEW q \in Seq(UserCommands), NEW e, NEW r, Exchange(g, q, e, r),
         o.state = g.state, o.disconnecting = g.disconnecting, o.settings = g.settings,
         o.wanted, o.builtWith = g.settings
  PROVE  Exchange(o, q \o <<ConnectCommand>>, e, r)
  <1> DEFINE c == <<ConnectCommand>>
  <1>1. ConnectCommand \in UserCommands /\ ConnectCommand \in OrderSet
        /\ ConnectCommand \notin SettingsSet
    BY UserCommandTypes DEF UserCommands
  <1>2. c \in Seq(UserCommands) /\ Has(c, OrderSet) /\ ~Has(c, SettingsSet)
    <2>1. c \in Seq(UserCommands)
      BY <1>1
    <2>2. \A S : Has(c, S) <=> ConnectCommand \in S
      BY HasOne
    <2> QED BY <1>1, <2>1, <2>2
  <1>3. BuildsFrom(q \o c, r.settings, g.settings)
    BY BuildsConnect DEF Exchange
  <1> HIDE DEF c
  <1>4. StopSettles(o, q \o c, e)
    BY <1>2, HasConcat DEF Exchange, StopSettles
  <1>5. Has(q \o c, OrderSet)
    BY <1>2, HasConcat
  <1>6. InForce(q \o c, r.settings, o.settings)
    BY <1>2, InForceConcat DEF Exchange
  <1>7. Exchange(o, q \o c, e, r)
    BY <1>3, <1>4, <1>5, <1>6 DEF Exchange, StartSettles, BuiltRight, Obeyed
  <1> QED BY <1>7 DEF c

LEMMA DisconnectWritten ==
  ASSUME NEW g, NEW o, NEW q \in Seq(UserCommands), NEW e, NEW r, Exchange(g, q, e, r),
         o.state = g.state, o.settings = g.settings, o.builtWith = NoSettings
  PROVE  Exchange(o, q \o <<DisconnectCommand>>, e, r)
  <1> DEFINE c == <<DisconnectCommand>>
  <1>1. DisconnectCommand \in UserCommands /\ DisconnectCommand \in OrderSet
        /\ DisconnectCommand \notin SettingsSet
    BY UserCommandTypes DEF UserCommands
  <1>2. /\ c \in Seq(UserCommands) /\ Has(c, OrderSet) /\ ~Has(c, SettingsSet)
        /\ Has(c, {DisconnectCommand}) /\ Latest(c, OrderSet, {DisconnectCommand})
    <2>1. c \in Seq(UserCommands)
      BY <1>1
    <2>2. \A S : Has(c, S) <=> DisconnectCommand \in S
      BY HasOne
    <2>3. Latest(c, OrderSet, {DisconnectCommand})
      BY HasOne
    <2> QED BY <1>1, <2>1, <2>2, <2>3
  <1> HIDE DEF c
  <1>3. /\ Has(q \o c, OrderSet) /\ Has(q \o c, {DisconnectCommand})
        /\ Latest(q \o c, OrderSet, {DisconnectCommand})
    BY <1>2, HasConcat
  <1>4. InForce(q \o c, r.settings, o.settings)
    BY <1>2, InForceConcat DEF Exchange
  <1>5. Exchange(o, q \o c, e, r)
    BY <1>3, <1>4 DEF Exchange, StopSettles, StartSettles, BuiltRight, Obeyed
  <1> QED BY <1>5 DEF c

LEMMA SettingsWritten ==
  ASSUME NEW g, NEW o, NEW q \in Seq(UserCommands), NEW e, NEW r, Exchange(g, q, e, r),
         NEW v \in Settings, o.settings = v, o.state = g.state, o.builtWith = g.builtWith,
         o.connecting = g.connecting, o.disconnecting = g.disconnecting, o.wanted = g.wanted
  PROVE  Exchange(o, q \o <<SettingsCommand(v)>>, e, r)
  <1> DEFINE c == <<SettingsCommand(v)>>
  <1>1. SettingsCommand(v) \in UserCommands /\ SettingsCommand(v) \notin OrderSet
    BY UserCommandTypes DEF UserCommands
  <1>2. c \in Seq(UserCommands) /\ ~Has(c, OrderSet)
    <2>1. c \in Seq(UserCommands)
      BY <1>1
    <2>2. \A S : Has(c, S) <=> SettingsCommand(v) \in S
      BY HasOne
    <2> QED BY <1>1, <2>1, <2>2
  <1>3. InForce(q \o c, r.settings, v)
    BY InForceSettings
  <1> HIDE DEF c
  <1>4. StopSettles(o, q \o c, e) /\ StartSettles(o, q \o c, e, r.session)
    BY <1>2, HasConcat DEF Exchange, StopSettles, StartSettles
  <1>5. Obeyed(o, q \o c, r.session)
    BY <1>2, HasConcat DEF Exchange, Obeyed
  <1>6. BuiltRight(o, q \o c, r)
    BY <1>2, HasConcat, BuildsConcat DEF Exchange, BuiltRight
  <1>7. Exchange(o, q \o c, e, r)
    BY <1>3, <1>4, <1>5, <1>6 DEF Exchange
  <1> QED BY <1>7 DEF c

\* What it reads: a state, an error.
LEMMA StateRead ==
  ASSUME NEW g, NEW o, NEW q, NEW e \in Seq(NewsSet), e # <<>>, NEW r, Exchange(g, q, e, r),
         Head(e) \in StateSet, o = StateShown(g, Head(e).state), g \in GuiType
  PROVE  Exchange(o, q, Tail(e), r)
  <1> DEFINE u == Head(e).state
             b1 == u = "Connecting"
             b2 == u = "Disconnecting"
  <1>1. Leads(Tail(e), u, r.session)
    BY LeadsTail DEF Exchange
  <1>2. Has(e, {ErrorEvent}) => Has(Tail(e), {ErrorEvent})
    <2>1. Head(e) # ErrorEvent
      BY NewsTypes
    <2> QED BY <2>1, HasTail
  <1>3. \A s : Stirs(e, s) => Stirs(Tail(e), s) \/ u # s
    BY StirsTail
  <1>4. o = IF g.state = u THEN g
            ELSE [g EXCEPT !.state = u, !.connecting = b1, !.disconnecting = b2]
    BY DEF StateShown
  <1> HIDE DEF u
  <1>5. CASE g.state = u
    <2>1. o = g
      BY <1>4, <1>5
    <2> QED BY <1>1, <1>2, <1>3, <1>5, <2>1 DEF Exchange, StopSettles, StartSettles
  <1>6. CASE g.state # u
    <2>1. /\ o.state = u /\ o.settings = g.settings /\ o.builtWith = g.builtWith
          /\ o.wanted = g.wanted /\ o.connecting = b1 /\ o.disconnecting = b2
      BY <1>4, <1>6 DEF GuiType
    <2>2. StopSettles(o, q, Tail(e)) /\ StartSettles(o, q, Tail(e), r.session)
      BY <2>1 DEF StopSettles, StartSettles
    <2> HIDE DEF b1, b2
    <2> QED BY <1>1, <2>1, <2>2 DEF Exchange, BuiltRight, Obeyed
  <1> QED BY <1>5, <1>6

LEMMA ErrorRead ==
  ASSUME NEW g, NEW o, NEW q, NEW e \in Seq(NewsSet), e # <<>>, NEW r, Exchange(g, q, e, r),
         Head(e) = ErrorEvent, r.session \in States, g \in GuiType,
         o = IF g.state \in {"Disconnected", "Error"} THEN [g EXCEPT !.connecting = FALSE] ELSE g
  PROVE  Exchange(o, q, Tail(e), r)
  <1>1. Head(e) \notin StateSet
    BY NewsTypes
  <1>2. Leads(Tail(e), g.state, r.session)
    BY <1>1, LeadsTail DEF Exchange
  <1>3. Stirs(e, g.state) => Stirs(Tail(e), g.state)
    BY <1>1, StirsTail
  <1>4. /\ o.state = g.state /\ o.settings = g.settings /\ o.builtWith = g.builtWith
        /\ o.wanted = g.wanted /\ o.disconnecting = g.disconnecting
        /\ g.state \in {"Disconnected", "Error"} => o.connecting = FALSE
        /\ g.state \notin {"Disconnected", "Error"} => o.connecting = g.connecting
    BY DEF GuiType
  <1>5. StartSettles(o, q, Tail(e), r.session)
    <2>1. CASE g.state \in {"Disconnected", "Error"}
      <3>1. o.connecting = (o.state = "Connecting")
        BY <1>4, <2>1
      <3> QED BY <3>1 DEF StartSettles
    <2>2. CASE g.state \notin {"Disconnected", "Error"}
      <3>1. AtRest(r.session) => Stirs(Tail(e), g.state)
        BY <1>2, <2>2, LeadsStirs DEF AtRest
      <3> QED BY <1>3, <1>4, <2>2, <3>1 DEF Exchange, StartSettles
    <2> QED BY <2>1, <2>2
  <1>6. StopSettles(o, q, Tail(e))
    BY <1>3, <1>4 DEF Exchange, StopSettles
  <1> QED BY <1>2, <1>4, <1>5, <1>6 DEF Exchange, BuiltRight, Obeyed

\* What the helper reads: settings, a connect that it serves or refuses, a disconnect.
LEMMA SettingsServed ==
  ASSUME NEW g, NEW q \in Seq(UserCommands), q # <<>>, NEW e, NEW r, NEW p,
         Exchange(g, q, e, r), Head(q) \in SettingsSet,
         g.settings \in Settings, g.builtWith \in Settings \cup {NoSettings},
         p.session = r.session, p.built = r.built, p.settings = Head(q).value
  PROVE  Exchange(g, Tail(q), e, p)
  <1>1. Head(q) \notin OrderSet /\ Head(q) # DisconnectCommand
    BY UserCommandTypes
  <1>2. /\ Has(q, OrderSet) <=> Has(Tail(q), OrderSet)
        /\ Has(q, {DisconnectCommand}) <=> Has(Tail(q), {DisconnectCommand})
    BY <1>1, HasTail
  <1>3. Latest(q, OrderSet, {DisconnectCommand}) => Latest(Tail(q), OrderSet, {DisconnectCommand})
    BY <1>1, HasTail
  <1>4. InForce(Tail(q), p.settings, g.settings)
    BY InForceTail DEF Exchange
  <1>5. BuiltRight(g, Tail(q), p)
    BY <1>2, BuildsTail DEF Exchange, BuiltRight
  <1> QED BY <1>2, <1>3, <1>4, <1>5 DEF Exchange, StopSettles, StartSettles, Obeyed

\* What a connect read leaves of the exchange, whatever becomes of it.
LEMMA ConnectTaken ==
  ASSUME NEW g, NEW q \in Seq(UserCommands), q # <<>>, NEW e, NEW r, Exchange(g, q, e, r),
         Head(q) = ConnectCommand, g.settings \in Settings,
         g.builtWith \in Settings \cup {NoSettings}
  PROVE  /\ Has(q, {DisconnectCommand}) => Has(Tail(q), {DisconnectCommand})
         /\ InForce(Tail(q), r.settings, g.settings)
         /\ ~g.wanted => Latest(Tail(q), OrderSet, {DisconnectCommand})
         /\ g.builtWith # NoSettings
               => \/ BuildsFrom(Tail(q), r.settings, g.builtWith)
                  \/ ~Has(Tail(q), OrderSet) /\ r.settings = g.builtWith
  <1>1. Head(q) \in OrderSet /\ Head(q) # DisconnectCommand /\ Head(q) \notin SettingsSet
    BY UserCommandTypes
  <1>2. Has(q, OrderSet)
    BY <1>1, HasTail
  <1>3. Has(q, {DisconnectCommand}) => Has(Tail(q), {DisconnectCommand})
    BY <1>1, HasTail
  <1>4. InForce(Tail(q), r.settings, g.settings)
    BY <1>1, InForceTail DEF Exchange
  <1>5. ~g.wanted => Latest(Tail(q), OrderSet, {DisconnectCommand})
    BY <1>1, <1>2, HasTail DEF Exchange, Obeyed
  <1>6. g.builtWith # NoSettings
               => \/ BuildsFrom(Tail(q), r.settings, g.builtWith)
                  \/ ~Has(Tail(q), OrderSet) /\ r.settings = g.builtWith
    BY <1>2, BuildsTail DEF Exchange, BuiltRight
  <1> QED BY <1>3, <1>4, <1>5, <1>6

LEMMA ConnectReports ==
  ASSUME NEW s \in States, NEW u, NEW f,
         f = (Halted(s) \o Changed(HaltedAt(s), "Disconnected")) \o <<Reported("Connecting")>>
  PROVE  /\ f \in Seq(NewsSet) /\ Leads(f, s, "Connecting")
         /\ ~AtRest(s) => Stirs(f, u)
  <1> DEFINE a == Halted(s)
             b == Changed(HaltedAt(s), "Disconnected")
             d == <<Reported("Connecting")>>
  <1>0. "Disconnected" \in States /\ "Connecting" \in States
    BY DEF States
  <1>1. /\ a \in Seq(NewsSet) /\ b \in Seq(NewsSet) /\ d \in Seq(NewsSet)
        /\ a \o b \in Seq(NewsSet) /\ Leads(a \o b, s, "Disconnected")
        /\ Leads(d, "Disconnected", "Connecting")
    BY <1>0, LeadsHalted, LeadsChanged, LeadsHaltedChanged, LeadsOne
  <1>2. ~AtRest(s) => Stirs(a, u)
    BY LeadsStopped DEF Halted
  <1> HIDE DEF a, b, d
  <1>3. (a \o b) \o d \in Seq(NewsSet) /\ Leads((a \o b) \o d, s, "Connecting")
    BY <1>1, Written, LeadsConcat
  <1>4. Stirs(a, u) => Stirs(a \o b, u)
    BY <1>1, StirsConcat
  <1>5. Stirs(a \o b, u) => Stirs((a \o b) \o d, u)
    BY <1>1, StirsConcat
  <1> QED BY <1>2, <1>3, <1>4, <1>5 DEF a, b, d

LEMMA ConnectServed ==
  ASSUME NEW g, NEW q \in Seq(UserCommands), q # <<>>, NEW e \in Seq(NewsSet), NEW r, NEW p,
         Exchange(g, q, e, r), Head(q) = ConnectCommand, g \in GuiType, r.session \in States,
         p.session = "Connecting", p.built = r.settings, p.settings = r.settings,
         NEW f \in Seq(NewsSet), Leads(f, r.session, "Connecting"),
         ~AtRest(r.session) => Stirs(f, g.state)
  PROVE  Exchange(g, Tail(q), e \o f, p)
  <1>0. "Connecting" \in States
    BY DEF States
  <1>6. Leads(e \o f, g.state, "Connecting")
    BY LeadsConcat DEF Exchange
  <1>7. Stirs(e, g.state) \/ Stirs(f, g.state) => Stirs(e \o f, g.state)
    BY StirsConcat
  <1>8. g.settings \in Settings /\ g.builtWith \in Settings \cup {NoSettings} /\ g.state \in States
    BY DEF GuiType
  <1>9. StartSettles(g, Tail(q), e \o f, "Connecting")
    <2>1. CASE g.state # "Connecting"
      <3>1. Stirs(e \o f, g.state)
        BY <1>0, <1>6, <2>1, LeadsStirs
      <3> QED BY <3>1 DEF StartSettles
    <2>2. CASE g.state = "Connecting" /\ AtRest(r.session)
      <3>1. Stirs(e, g.state)
        BY <2>2, LeadsStirs DEF Exchange, AtRest
      <3> QED BY <1>7, <3>1 DEF StartSettles
    <2>3. CASE ~AtRest(r.session)
      BY <1>7, <2>3 DEF StartSettles
    <2> QED BY <2>1, <2>2, <2>3
  <1>10. /\ Has(q, {DisconnectCommand}) => Has(Tail(q), {DisconnectCommand})
         /\ InForce(Tail(q), r.settings, g.settings)
         /\ ~g.wanted => Latest(Tail(q), OrderSet, {DisconnectCommand})
         /\ g.builtWith # NoSettings
               => \/ BuildsFrom(Tail(q), r.settings, g.builtWith)
                  \/ ~Has(Tail(q), OrderSet) /\ r.settings = g.builtWith
    BY <1>8, ConnectTaken
  <1>11. StopSettles(g, Tail(q), e \o f)
    BY <1>7, <1>10 DEF Exchange, StopSettles
  <1>12. Obeyed(g, Tail(q), p.session) /\ BuiltRight(g, Tail(q), p)
    BY <1>10 DEF Obeyed, BuiltRight
  <1> QED BY <1>6, <1>9, <1>10, <1>11, <1>12 DEF Exchange

LEMMA RefusalReports ==
  ASSUME NEW s \in States, NEW t \in States,
         NEW f, f = (Halted(s) \o Changed(HaltedAt(s), t)) \o <<ErrorEvent>>
  PROVE  f \in Seq(NewsSet) /\ Leads(f, s, t) /\ Has(f, {ErrorEvent})
  <1> DEFINE a == Halted(s) \o Changed(HaltedAt(s), t)
             d == <<ErrorEvent>>
  <1>1. a \in Seq(NewsSet) /\ Leads(a, s, t)
    BY LeadsHaltedChanged
  <1>2. /\ d \in Seq(NewsSet) /\ Has(d, {ErrorEvent}) /\ ~Has(d, StateSet)
    <2>1. ErrorEvent \in NewsSet /\ ErrorEvent \notin StateSet
      BY NewsTypes
    <2>2. \A S : Has(d, S) <=> ErrorEvent \in S
      BY HasOne
    <2>3. d \in Seq(NewsSet)
      BY <2>1
    <2> QED BY <2>1, <2>2, <2>3
  <1> HIDE DEF a, d
  <1>3. Leads(d, t, t)
    BY <1>2 DEF Leads
  <1>4. a \o d \in Seq(NewsSet) /\ Leads(a \o d, s, t)
    BY <1>1, <1>2, <1>3, Written, LeadsConcat
  <1>5. Has(a \o d, {ErrorEvent})
    BY <1>1, <1>2, HasConcat
  <1> QED BY <1>4, <1>5 DEF a, d

LEMMA ConnectTurnedDown ==
  ASSUME NEW g, NEW q \in Seq(UserCommands), q # <<>>, NEW e \in Seq(NewsSet), NEW r, NEW p,
         Exchange(g, q, e, r), Head(q) = ConnectCommand, g \in GuiType, r.session \in States,
         NEW t, AtRest(t), p.session = t, p.built = r.built, p.settings = r.settings,
         NEW f \in Seq(NewsSet), Leads(f, r.session, t), Has(f, {ErrorEvent})
  PROVE  Exchange(g, Tail(q), e \o f, p)
  <1>6. Leads(e \o f, g.state, t) /\ Has(e \o f, {ErrorEvent})
    <2>1. Leads(e \o f, g.state, t)
      BY LeadsConcat DEF Exchange
    <2>2. Has(e \o f, {ErrorEvent})
      BY HasConcat
    <2> QED BY <2>1, <2>2
  <1>7. Stirs(e, g.state) => Stirs(e \o f, g.state)
    BY StirsConcat
  <1>8. g.settings \in Settings /\ g.builtWith \in Settings \cup {NoSettings}
    BY DEF GuiType
  <1>9. /\ Has(q, {DisconnectCommand}) => Has(Tail(q), {DisconnectCommand})
        /\ InForce(Tail(q), r.settings, g.settings)
        /\ ~g.wanted => Latest(Tail(q), OrderSet, {DisconnectCommand})
        /\ g.builtWith # NoSettings
               => \/ BuildsFrom(Tail(q), r.settings, g.builtWith)
                  \/ ~Has(Tail(q), OrderSet) /\ r.settings = g.builtWith
    BY <1>8, ConnectTaken
  <1>10. StopSettles(g, Tail(q), e \o f) /\ StartSettles(g, Tail(q), e \o f, t)
    BY <1>6, <1>7, <1>9 DEF Exchange, StopSettles, StartSettles
  <1>11. Obeyed(g, Tail(q), t) /\ BuiltRight(g, Tail(q), p)
    BY <1>9 DEF Obeyed, BuiltRight
  <1> QED BY <1>6, <1>9, <1>10, <1>11 DEF Exchange

LEMMA DisconnectServed ==
  ASSUME NEW g, NEW q \in Seq(UserCommands), q # <<>>, NEW e \in Seq(NewsSet), NEW r, NEW p,
         Exchange(g, q, e, r), Head(q) = DisconnectCommand, g \in GuiType,
         p.session = "Disconnected", p.settings = r.settings
  PROVE  Exchange(g, Tail(q), e \o Stopped, p)
  <1>1. /\ Stopped \in Seq(NewsSet) /\ Leads(Stopped, r.session, "Disconnected")
        /\ Stirs(Stopped, g.state)
    BY LeadsStopped
  <1>2. Leads(e \o Stopped, g.state, "Disconnected") /\ Stirs(e \o Stopped, g.state)
    BY <1>1, LeadsConcat, StirsConcat DEF Exchange
  <1>3. Head(q) \in OrderSet /\ Head(q) \notin SettingsSet /\ AtRest("Disconnected")
    BY UserCommandTypes DEF AtRest
  <1>4. Has(q, OrderSet)
    BY <1>3, HasTail
  <1>5. g.settings \in Settings /\ g.builtWith \in Settings \cup {NoSettings}
    BY DEF GuiType
  <1>6. InForce(Tail(q), r.settings, g.settings)
    BY <1>3, <1>5, InForceTail DEF Exchange
  <1>7. ~g.wanted => Latest(Tail(q), OrderSet, {DisconnectCommand}) \/ ~Has(Tail(q), OrderSet)
    BY <1>3, <1>4, HasTail DEF Exchange, Obeyed
  <1>8. g.builtWith # NoSettings => BuildsFrom(Tail(q), r.settings, g.builtWith)
    BY <1>4, <1>5, BuildsTail DEF Exchange, BuiltRight
  <1>9. StopSettles(g, Tail(q), e \o Stopped)
        /\ StartSettles(g, Tail(q), e \o Stopped, "Disconnected")
    BY <1>2 DEF StopSettles, StartSettles
  <1>10. Obeyed(g, Tail(q), "Disconnected") /\ BuiltRight(g, Tail(q), p)
    BY <1>3, <1>7, <1>8 DEF Obeyed, BuiltRight
  <1> QED BY <1>2, <1>6, <1>9, <1>10 DEF Exchange

\* The session moves from where it runs.
LEMMA SessionMoved ==
  ASSUME NEW g, NEW q, NEW e \in Seq(NewsSet), NEW r, NEW p, Exchange(g, q, e, r),
         ~AtRest(r.session), NEW t \in States,
         p.session = t, p.built = r.built, p.settings = r.settings
  PROVE  Exchange(g, q, e \o <<Reported(t)>>, p)
  <1> DEFINE f == <<Reported(t)>>
  <1>1. f \in Seq(NewsSet) /\ Leads(f, r.session, t)
    BY LeadsOne
  <1> HIDE DEF f
  <1>2. Leads(e \o f, g.state, t)
    BY <1>1, LeadsConcat DEF Exchange
  <1>3. \A s : Stirs(e, s) => Stirs(e \o f, s)
    BY <1>1, StirsConcat
  <1>4. StopSettles(g, q, e \o f) /\ StartSettles(g, q, e \o f, t)
    BY <1>3 DEF Exchange, StopSettles, StartSettles
  <1>5. Obeyed(g, q, t) /\ BuiltRight(g, q, p)
    BY DEF Exchange, Obeyed, BuiltRight
  <1>6. Exchange(g, q, e \o f, p)
    BY <1>2, <1>4, <1>5 DEF Exchange
  <1> QED BY <1>6 DEF f

\* The exchange as it begins: the helper is ready, and hears what waited for it.
LEMMA ExchangeBegins ==
  ASSUME NEW g \in GuiType, NEW o, NEW r, r.session = "Disconnected",
         g.state = "Disconnected", g.builtWith = NoSettings, ~g.disconnecting,
         g.connecting => g.pending, ~g.wanted => ~g.pending,
         o.state = g.state, o.settings = g.settings, o.connecting = g.connecting,
         o.disconnecting = g.disconnecting, o.wanted = g.wanted,
         o.builtWith = IF g.pending THEN g.settings ELSE g.builtWith,
         NEW q, q = <<SettingsCommand(g.settings)>>
                        \o (IF g.pending THEN <<ConnectCommand>> ELSE <<>>)
  PROVE  q \in Seq(UserCommands) /\ Exchange(o, q, <<>>, r)
  <1> DEFINE a == <<SettingsCommand(g.settings)>>
             b == <<ConnectCommand>>
  <1>0. g.settings \in Settings /\ g.connecting \in BOOLEAN /\ g.disconnecting \in BOOLEAN
    BY DEF GuiType
  <1>1. /\ SettingsCommand(g.settings) \in UserCommands /\ ConnectCommand \in UserCommands
        /\ SettingsCommand(g.settings) \notin OrderSet /\ ConnectCommand \in OrderSet
        /\ ConnectCommand \notin SettingsSet
    BY <1>0, UserCommandTypes DEF UserCommands
  <1>2. a \in Seq(UserCommands) /\ b \in Seq(UserCommands)
    BY <1>1
  <1>3. ~Has(a, OrderSet) /\ Has(b, OrderSet) /\ ~Has(b, SettingsSet)
    BY <1>1, HasOne
  <1>4. InForce(a, r.settings, g.settings)
    <2>1. <<>> \in Seq(UserCommands)
      BY NothingWritten
    <2>2. <<>> \o a = a
      BY <1>2
    <2> QED BY <1>0, <2>1, <2>2, InForceSettings
  <1>5. BuildsFrom(a \o b, r.settings, g.settings)
    BY <1>2, <1>4, BuildsConnect
  <1>6. q = IF g.pending THEN a \o b ELSE a
    <2>1. a \o <<>> = a
      BY <1>2
    <2> HIDE DEF a
    <2>2. q = a \o (IF g.pending THEN b ELSE <<>>)
      BY DEF a
    <2> HIDE DEF b
    <2> QED BY <2>1, <2>2
  <1> HIDE DEF a, b
  <1>7. q \in Seq(UserCommands) /\ InForce(q, r.settings, g.settings)
        /\ (g.pending => Has(q, OrderSet)) /\ (~g.pending => ~Has(q, OrderSet))
    <2>1. a \o b \in Seq(UserCommands)
      BY <1>2, Written
    <2>2. InForce(a \o b, r.settings, g.settings)
      BY <1>2, <1>3, <1>4, InForceConcat
    <2>3. Has(a \o b, OrderSet)
      BY <1>2, <1>3, HasConcat
    <2> QED BY <1>2, <1>3, <1>4, <1>6, <2>1, <2>2, <2>3
  <1>8. Leads(<<>>, o.state, r.session)
    BY HasNone DEF Leads
  <1>9. StopSettles(o, q, <<>>) /\ StartSettles(o, q, <<>>, r.session)
    <2>1. o.disconnecting = (o.state = "Disconnecting")
      BY <1>0
    <2>2. ~g.pending => o.connecting = (o.state = "Connecting")
      BY <1>0
    <2> QED BY <1>7, <2>1, <2>2 DEF StopSettles, StartSettles
  <1>10. BuiltRight(o, q, r)
    BY <1>5, <1>6, <1>7 DEF BuiltRight
  <1>11. Obeyed(o, q, r.session)
    BY <1>7 DEF Obeyed, AtRest
  <1> QED BY <1>7, <1>8, <1>9, <1>10, <1>11 DEF Exchange

(***************************************************************************)
(* The inductive invariant.                                                *)
(***************************************************************************)
FlagsRight(g) ==
    /\ ~g.acked => g.state = "Disconnected" /\ g.builtWith = NoSettings
    /\ g.acked => ~g.pending
    /\ ~(g.connecting /\ g.disconnecting)
    /\ ~g.wanted => ~g.pending /\ (g.connecting => g.state = "Connecting")

\* While a helper may still report ready, only a pending connect shows.
Awake(g, r) ==
    ~g.acked /\ r.phase # "absent" => ~g.disconnecting /\ (g.connecting => g.pending)

Hello == [kind |-> "hello"]
Auth(h) == [kind |-> "auth", token |-> h]
Challenge(h) == [kind |-> "challenge", token |-> h]
Ready == [kind |-> "ready"]

\* The steps of the handshake between g and r over the connection k.
Greeting(g, k, r) ==
    /\ ~g.acked /\ r.session = "Disconnected"
    /\ \/ /\ ~g.proven /\ k.stage = "fresh"
          /\ k.toHelper \in {<<Hello>>, <<>>} /\ k.toGui = <<>>
       \/ /\ ~g.proven /\ k.stage = "challenged"
          /\ k.toHelper = <<>> /\ k.toGui = <<Challenge(g.helper)>>
       \/ /\ g.proven /\ k.stage = "challenged"
          /\ k.toHelper \in {<<Auth(g.helper)>>, <<>>} /\ k.toGui = <<>>
       \/ /\ g.proven /\ k.stage = "serving"
          /\ k.toHelper = <<>> /\ k.toGui = <<Ready>>

Talking(g, k, r) ==
    /\ g.acked /\ k.stage = "serving"
    /\ k.toHelper \in Seq(UserCommands) /\ k.toGui \in Seq(NewsSet)
    /\ k.far => Exchange(g, k.toHelper, k.toGui, r)

LinkRight(g, k, r) ==
    /\ ~k.far => k.toHelper = <<>>
    /\ k.stage # "serving" => r.session = "Disconnected"
    /\ k.stage = "serving" /\ ~k.far => r.phase = "absent"
    /\ Greeting(g, k, r) \/ Talking(g, k, r)

SessionsRight ==
    \A h \in Helpers : /\ helper[h].phase # "listening" => helper[h].session = "Disconnected"
                       /\ helper[h].session # "Disconnecting"
FarRight ==
    \A c \in Conns : conn[c].far /\ conn[c].peer \in Helpers
                        => helper[conn[c].peer].phase = "listening"

Ours == Up /\ conn[gui.sock].peer = gui.helper

OursRight ==
    /\ \A c \in Conns : conn[c].peer = gui.helper => gui.sock = c
    /\ Awake(gui, helper[gui.helper])
    /\ Ours => LinkRight(gui, conn[gui.sock], helper[gui.helper])
    /\ ~Ours => ~gui.acked /\ helper[gui.helper].session = "Disconnected"

OrdersInv ==
    /\ LinkInv /\ FlagsRight(gui) /\ SessionsRight /\ FarRight
    /\ gui.helper \in Helpers => OursRight

(***************************************************************************)
(* What is read at each stage.                                             *)
(***************************************************************************)
LEMMA OneRead == \A m : <<m>> # <<>> /\ Head(<<m>>) = m /\ Tail(<<m>>) = <<>>
  OBVIOUS

LEMMA MessageKinds ==
  /\ Hello.kind = "hello" /\ Ready.kind = "ready"
  /\ \A h : Auth(h).kind = "auth" /\ Auth(h).token = h
            /\ Challenge(h).kind = "challenge" /\ Challenge(h).token = h
  /\ \A m \in UserCommands : m.kind \in {"settings", "connect", "disconnect"}
  /\ \A m \in UserCommands : /\ m.kind = "settings" => m \in SettingsSet
                             /\ m.kind = "connect" => m = ConnectCommand
                             /\ m.kind = "disconnect" => m = DisconnectCommand
  BY DEF Hello, Ready, Auth, Challenge, UserCommands, OrderSet, SettingsSet, ConnectCommand,
         DisconnectCommand

LEMMA GuiReadsKinds ==
  ASSUME NEW g, NEW k, NEW r, LinkRight(g, k, r), k.toGui # <<>>
  PROVE  /\ Head(k.toGui).kind = "challenge"
               => /\ ~g.acked /\ r.session = "Disconnected" /\ k.stage = "challenged"
                  /\ k.toHelper = <<>> /\ Tail(k.toGui) = <<>>
         /\ Head(k.toGui).kind = "ready"
               => /\ ~g.acked /\ r.session = "Disconnected" /\ k.stage = "serving"
                  /\ k.toHelper = <<>> /\ Tail(k.toGui) = <<>>
         /\ Head(k.toGui).kind = "state" => Talking(g, k, r) /\ Head(k.toGui) \in StateSet
         /\ Head(k.toGui).kind = "error" => Talking(g, k, r) /\ Head(k.toGui) = ErrorEvent
  <1>1. CASE Talking(g, k, r)
    <2>1. Head(k.toGui) \in NewsSet
      BY <1>1, HeadTail DEF Talking
    <2> QED BY <1>1, <2>1, NewsTypes
  <1>2. CASE Greeting(g, k, r)
    <2>1. k.toGui \in {<<Challenge(g.helper)>>, <<Ready>>}
      BY <1>2 DEF Greeting
    <2>2. CASE k.toGui = <<Challenge(g.helper)>>
      <3>1. Head(k.toGui).kind = "challenge" /\ Tail(k.toGui) = <<>>
        BY <2>2, OneRead, MessageKinds
      <3>2. <<Challenge(g.helper)>> # <<Ready>>
        <4>1. Challenge(g.helper) # Ready
          BY MessageKinds
        <4> QED BY <4>1, OneRead
      <3> QED BY <1>2, <2>2, <3>1, <3>2 DEF Greeting
    <2>3. CASE k.toGui = <<Ready>>
      <3>1. Head(k.toGui).kind = "ready" /\ Tail(k.toGui) = <<>>
        BY <2>3, OneRead, MessageKinds
      <3>2. <<Challenge(g.helper)>> # <<Ready>>
        <4>1. Challenge(g.helper) # Ready
          BY MessageKinds
        <4> QED BY <4>1, OneRead
      <3> QED BY <1>2, <2>3, <3>1, <3>2 DEF Greeting
    <2> QED BY <2>1, <2>2, <2>3
  <1> QED BY <1>1, <1>2 DEF LinkRight

LEMMA HelperReadsKinds ==
  ASSUME NEW g, NEW k, NEW r, LinkRight(g, k, r), k.toHelper # <<>>
  PROVE  /\ Head(k.toHelper).kind = "hello"
               => /\ ~g.acked /\ ~g.proven /\ r.session = "Disconnected" /\ k.stage = "fresh"
                  /\ k.toGui = <<>> /\ Tail(k.toHelper) = <<>>
         /\ Head(k.toHelper).kind = "auth"
               => /\ ~g.acked /\ g.proven /\ r.session = "Disconnected" /\ k.stage = "challenged"
                  /\ k.toGui = <<>> /\ Tail(k.toHelper) = <<>>
                  /\ Head(k.toHelper).token = g.helper
         /\ Head(k.toHelper).kind = "settings"
               => Talking(g, k, r) /\ Head(k.toHelper) \in SettingsSet
         /\ Head(k.toHelper).kind = "connect"
               => Talking(g, k, r) /\ Head(k.toHelper) = ConnectCommand
         /\ Head(k.toHelper).kind = "disconnect"
               => Talking(g, k, r) /\ Head(k.toHelper) = DisconnectCommand
  <1>1. CASE Talking(g, k, r)
    <2>1. Head(k.toHelper) \in UserCommands
      BY <1>1, HeadTail DEF Talking
    <2> QED BY <1>1, <2>1, MessageKinds
  <1>2. CASE Greeting(g, k, r)
    <2>0. <<Hello>> # <<Auth(g.helper)>>
      <3>1. Hello # Auth(g.helper)
        BY MessageKinds
      <3> QED BY <3>1, OneRead
    <2>1. k.toHelper \in {<<Hello>>, <<Auth(g.helper)>>}
      BY <1>2 DEF Greeting
    <2>2. CASE k.toHelper = <<Hello>>
      <3>1. Head(k.toHelper).kind = "hello" /\ Tail(k.toHelper) = <<>>
        BY <2>2, OneRead, MessageKinds
      <3> QED BY <1>2, <2>0, <2>2, <3>1 DEF Greeting
    <2>3. CASE k.toHelper = <<Auth(g.helper)>>
      <3>1. /\ Head(k.toHelper).kind = "auth" /\ Tail(k.toHelper) = <<>>
            /\ Head(k.toHelper).token = g.helper
        BY <2>3, OneRead, MessageKinds
      <3> QED BY <1>2, <2>0, <2>3, <3>1 DEF Greeting
    <2> QED BY <2>1, <2>2, <2>3
  <1> QED BY <1>1, <1>2 DEF LinkRight

(***************************************************************************)
(* What each way of writing, reading and closing leaves of a connection.   *)
(***************************************************************************)

\* k is what is left of k0: the same connection, at most its far end gone, or none.
Left(k0, k) == /\ k.peer \in {k0.peer, NoHelper}
               /\ k.far => k0.far /\ k.peer = k0.peer

LEMMA ClosedFields ==
  /\ Closed.peer = NoHelper /\ ~Closed.far /\ ~Closed.near
  /\ \A k : Left(k, Closed) /\ Left(k, k)
  BY DEF Closed, Left

LEMMA TellFields ==
  ASSUME NEW k \in ConnType, NEW cs
  PROVE  /\ Left(k, Tell(k, cs)) /\ Tell(k, cs).peer = k.peer /\ Tell(k, cs).far = k.far
         /\ Tell(k, cs).stage = k.stage /\ Tell(k, cs).toGui = k.toGui
         /\ Tell(k, cs).toHelper = IF k.far THEN k.toHelper \o cs ELSE k.toHelper
  <1> DEFINE q == k.toHelper \o cs
             e == [k EXCEPT !.toHelper = q]
  <1>1. Tell(k, cs) = IF k.far THEN e ELSE k
    BY DEF Tell
  <1> HIDE DEF q
  <1>2. /\ e.peer = k.peer /\ e.far = k.far /\ e.stage = k.stage /\ e.toGui = k.toGui
        /\ e.toHelper = q
    BY DEF ConnType
  <1> HIDE DEF e
  <1> QED BY <1>1, <1>2 DEF Left, q

LEMMA AnsweredFields ==
  ASSUME NEW k \in ConnType, NEW cs
  PROVE  /\ Left(k, Answered(k, cs)) /\ Answered(k, cs).peer = k.peer
         /\ Answered(k, cs).far = k.far /\ Answered(k, cs).stage = k.stage
         /\ Answered(k, cs).toGui = Tail(k.toGui)
         /\ Answered(k, cs).toHelper = IF k.far THEN k.toHelper \o cs ELSE k.toHelper
  <1> DEFINE q == k.toHelper \o cs
             t == Tail(k.toGui)
             e == [k EXCEPT !.toHelper = q]
             u == [k EXCEPT !.toGui = t]
             v == [e EXCEPT !.toGui = t]
  <1>1. Tell(k, cs) = IF k.far THEN e ELSE k
    BY DEF Tell
  <1>2. e.toGui = k.toGui
    BY DEF ConnType
  <1>3. Answered(k, cs) = IF k.far THEN v ELSE u
    BY <1>1, <1>2 DEF Answered
  <1> HIDE DEF q, t
  <1>4. /\ v.peer = k.peer /\ v.far = k.far /\ v.stage = k.stage /\ v.toGui = t /\ v.toHelper = q
        /\ u.peer = k.peer /\ u.far = k.far /\ u.stage = k.stage /\ u.toGui = t
        /\ u.toHelper = k.toHelper
    BY DEF ConnType
  <1> HIDE DEF u, v
  <1> QED BY <1>3, <1>4 DEF Left, q, t

LEMMA NearClosedFields ==
  ASSUME NEW k \in ConnType PROVE Left(k, NearClosed(k))
  <1> DEFINE e == [k EXCEPT !.near = FALSE, !.toGui = <<>>]
  <1>1. e.peer = k.peer /\ e.far = k.far
    BY DEF ConnType
  <1>2. NearClosed(k) = IF k.far THEN e ELSE Closed
    BY DEF NearClosed
  <1> HIDE DEF e
  <1> QED BY <1>1, <1>2, ClosedFields DEF Left

LEMMA FarClosedFields ==
  ASSUME NEW k \in ConnType
  PROVE  /\ Left(k, FarClosed(k)) /\ ~FarClosed(k).far
         /\ k.near => /\ FarClosed(k).peer = k.peer /\ FarClosed(k).stage = k.stage
                      /\ FarClosed(k).toHelper = <<>> /\ FarClosed(k).toGui = k.toGui
  <1> DEFINE none == <<>>
             e == [k EXCEPT !.far = FALSE, !.toHelper = none]
  <1>2. FarClosed(k) = IF k.near THEN e ELSE Closed
    BY DEF FarClosed
  <1> HIDE DEF none
  <1>1. /\ e.peer = k.peer /\ ~e.far /\ e.stage = k.stage /\ e.toHelper = none
        /\ e.toGui = k.toGui
    BY DEF ConnType
  <1> HIDE DEF e
  <1> QED BY <1>1, <1>2, ClosedFields DEF Left, none

LEMMA ReportFields ==
  ASSUME NEW k \in ConnType, NEW es
  PROVE  /\ Left(k, Report(k, es)) /\ Report(k, es).peer = k.peer /\ Report(k, es).far = k.far
         /\ Report(k, es).stage = k.stage /\ Report(k, es).toHelper = k.toHelper
         /\ k.near => Report(k, es).toGui = k.toGui \o es
  <1> DEFINE q == k.toGui \o es
             e == [k EXCEPT !.toGui = q]
  <1>1. Report(k, es) = IF k.near THEN e ELSE k
    BY DEF Report
  <1> HIDE DEF q
  <1>2. /\ e.peer = k.peer /\ e.far = k.far /\ e.stage = k.stage /\ e.toHelper = k.toHelper
        /\ e.toGui = q
    BY DEF ConnType
  <1> HIDE DEF e
  <1> QED BY <1>1, <1>2 DEF Left, q

LEMMA TakenFields ==
  ASSUME NEW c \in Conns, conn[c] \in ConnType, NEW es
  PROVE  /\ Left(conn[c], Taken(c, es)) /\ Taken(c, es).peer = conn[c].peer
         /\ Taken(c, es).far = conn[c].far /\ Taken(c, es).stage = conn[c].stage
         /\ Taken(c, es).toHelper = Tail(conn[c].toHelper)
         /\ conn[c].near => Taken(c, es).toGui = conn[c].toGui \o es
         /\ \A s : LET k == [Taken(c, es) EXCEPT !.stage = s]
                  IN  /\ Left(conn[c], k) /\ k.peer = conn[c].peer /\ k.far = conn[c].far
                      /\ k.stage = s /\ k.toHelper = Tail(conn[c].toHelper)
                      /\ conn[c].near => k.toGui = conn[c].toGui \o es
  <1> DEFINE t == Tail(conn[c].toHelper)
             n == IF conn[c].near THEN conn[c].toGui \o es ELSE conn[c].toGui
             a == [conn[c] EXCEPT !.toGui = n]
             e == [a EXCEPT !.toHelper = t]
             u(s) == [e EXCEPT !.stage = s]
  <1>1. Report(conn[c], es) = a
    BY DEF Report, ConnType
  <1>2. a.toHelper = conn[c].toHelper
    BY DEF ConnType
  <1>3. Taken(c, es) = e
    BY <1>1, <1>2 DEF Taken
  <1>4. conn[c].near => n = conn[c].toGui \o es
    OBVIOUS
  <1> HIDE DEF t, n
  <1>5. /\ e.peer = conn[c].peer /\ e.far = conn[c].far /\ e.stage = conn[c].stage
        /\ e.toHelper = t /\ e.toGui = n
    BY DEF ConnType
  <1>6. ASSUME NEW s
        PROVE  /\ u(s).peer = conn[c].peer /\ u(s).far = conn[c].far /\ u(s).stage = s
               /\ u(s).toHelper = t /\ u(s).toGui = n
    BY DEF ConnType
  <1> HIDE DEF e
  <1>7. Left(conn[c], e) /\ \A s : Left(conn[c], u(s))
    BY <1>5, <1>6 DEF Left
  <1>8. \A s : [Taken(c, es) EXCEPT !.stage = s] = u(s)
    BY <1>3
  <1> HIDE DEF u
  <1> QED BY <1>3, <1>4, <1>5, <1>6, <1>7, <1>8 DEF t

(***************************************************************************)
(* The kinds of step.                                                      *)
(***************************************************************************)
LEMMA LinkFacts ==
  ASSUME LinkInv
  PROVE  /\ gui \in GuiType /\ helper \in [Helpers -> HelperType]
         /\ \A c \in Conns : /\ conn[c] \in ConnType /\ (conn[c].near <=> gui.sock = c)
                             /\ conn[c].toGui \in Seq(EventsOf(conn[c].peer))
         /\ Up => gui.sock \in Conns /\ conn[gui.sock].near /\ gui.helper \in Helpers
         /\ gui.acked => gui.proven
         /\ gui.proven => Up /\ Ours
  <1>1. Up => gui.sock \in Conns /\ gui.helper \in Helpers
    BY DEF LinkInv, Ordered, GuiType, Up
  <1>2. \A c \in Conns : /\ conn[c] \in ConnType /\ (conn[c].near <=> gui.sock = c)
                         /\ conn[c].toGui \in Seq(EventsOf(conn[c].peer))
    BY DEF LinkInv, Sound
  <1>3. gui.proven => Up /\ Ours
    BY DEF LinkInv, Ordered, Up, Ours
  <1> QED BY <1>1, <1>2, <1>3 DEF LinkInv, Ordered

\* A far end stays with a helper that listens.
LEMMA FarKept ==
  ASSUME FarRight, \A c \in Conns : Left(conn[c], conn'[c]),
         \A h \in Helpers : helper[h].phase = "listening" =>
             \/ helper'[h].phase = "listening"
             \/ \A c \in Conns : conn[c].peer = h => ~conn'[c].far
  PROVE  FarRight'
  <1> SUFFICES ASSUME NEW c \in Conns, conn'[c].far, conn'[c].peer \in Helpers
               PROVE  helper'[conn'[c].peer].phase = "listening"
    BY DEF FarRight
  <1>1. conn[c].far /\ conn'[c].peer = conn[c].peer
    BY DEF Left
  <1> QED BY <1>1 DEF FarRight

\* The GUI keeps its launch, and its connection if it has one.
LEMMA Frame ==
  ASSUME OrdersInv, LinkInv', gui'.sock = gui.sock, gui'.helper = gui.helper,
         \A c \in Conns : Left(conn[c], conn'[c]),
         FlagsRight(gui'), SessionsRight', FarRight',
         gui.helper \in Helpers =>
             /\ Awake(gui', helper'[gui.helper])
             /\ Ours => /\ conn'[gui.sock].peer = gui.helper
                        /\ LinkRight(gui', conn'[gui.sock], helper'[gui.helper])
             /\ ~Ours => ~gui'.acked /\ helper'[gui.helper].session = "Disconnected"
  PROVE  OrdersInv'
  <1> SUFFICES ASSUME gui.helper \in Helpers PROVE OursRight'
    BY DEF OrdersInv
  <1>0. gui.helper # NoHelper /\ (Up => gui.sock \in Conns)
    BY LinkFacts, SlotsAssumption DEF OrdersInv
  <1>1. Ours' <=> Ours
    BY <1>0 DEF Ours, Up, Left
  <1>2. \A c \in Conns : conn'[c].peer = gui'.helper => gui'.sock = c
    BY <1>0 DEF OrdersInv, OursRight, Left
  <1> QED BY <1>1, <1>2 DEF OursRight

\* Only what the GUI is connected to over changes, if anything does.
LEMMA OursChanges ==
  ASSUME OrdersInv, LinkInv', gui'.sock = gui.sock, gui'.helper = gui.helper,
         UNCHANGED helper, FlagsRight(gui'), Ours,
         \A c \in Conns : c # gui.sock => conn'[c] = conn[c],
         Left(conn[gui.sock], conn'[gui.sock]), conn'[gui.sock].peer = conn[gui.sock].peer,
         Awake(gui', helper[gui.helper]),
         LinkRight(gui', conn'[gui.sock], helper[gui.helper])
  PROVE  OrdersInv'
  <1>1. \A c \in Conns : Left(conn[c], conn'[c])
    BY ClosedFields
  <1>2. SessionsRight'
    BY DEF OrdersInv, SessionsRight
  <1>3. FarRight'
    BY <1>1, FarKept DEF OrdersInv
  <1> QED BY <1>1, <1>2, <1>3, Frame DEF Ours

\* Nothing of the GUI's link changes.
LEMMA Theirs ==
  ASSUME OrdersInv, LinkInv', UNCHANGED gui,
         \A c \in Conns : Left(conn[c], conn'[c]), SessionsRight', FarRight',
         gui.helper \in Helpers => helper'[gui.helper] = helper[gui.helper],
         Ours => conn'[gui.sock] = conn[gui.sock]
  PROVE  OrdersInv'
  BY Frame DEF OrdersInv, OursRight, Ours

LEMMA FlagsStep ==
  ASSUME OrdersInv, LinkInv', UNCHANGED <<conn, helper>>,
         gui'.sock = gui.sock, gui'.helper = gui.helper, gui'.acked = gui.acked,
         gui'.proven = gui.proven, FlagsRight(gui'), gui.acked => SameView(gui, gui'),
         gui.helper \in Helpers => Awake(gui', helper[gui.helper])
  PROVE  OrdersInv'
  <1>1. \A c \in Conns : Left(conn[c], conn'[c])
    BY ClosedFields
  <1>2. SessionsRight' /\ FarRight'
    BY DEF OrdersInv, SessionsRight, FarRight
  <1>3. \A k, r : LinkRight(gui, k, r) => LinkRight(gui', k, r)
    <2> SUFFICES ASSUME NEW k, NEW r, LinkRight(gui, k, r) PROVE LinkRight(gui', k, r)
      OBVIOUS
    <2>1. Greeting(gui, k, r) => Greeting(gui', k, r)
      BY DEF Greeting
    <2>2. Talking(gui, k, r) => Talking(gui', k, r)
      BY ExchangeSame DEF Talking
    <2> QED BY <2>1, <2>2 DEF LinkRight
  <1> QED BY <1>1, <1>2, <1>3, Frame DEF OrdersInv, OursRight, Ours

\* The GUI lets go of its launch.
LEMMA GivesUp ==
  ASSUME OrdersInv, LinkInv', gui'.helper = NoHelper, FlagsRight(gui'), UNCHANGED helper,
         \A c \in Conns : Left(conn[c], conn'[c])
  PROVE  OrdersInv'
  <1>1. SessionsRight' /\ FarRight'
    BY FarKept DEF OrdersInv, SessionsRight
  <1> QED BY <1>1, SlotsAssumption DEF OrdersInv

LEMMA AbortedFields ==
  ASSUME NEW g \in GuiType
  PROVE  /\ FlagsRight(Off(Aborted(g))) /\ Off(Aborted(g)).helper = NoHelper
         /\ FlagsRight([Off(Aborted(g)) EXCEPT !.wanted = FALSE])
         /\ [Off(Aborted(g)) EXCEPT !.wanted = FALSE].helper = NoHelper
  <1> DEFINE a == Aborted(g)
             b == Off(a)
             d == [b EXCEPT !.wanted = FALSE]
  <1>1. a \in GuiType /\ a.helper = NoHelper /\ ~a.acked /\ ~a.pending /\ a.builtWith = NoSettings
    BY DEF Aborted, GuiType
  <1> HIDE DEF a
  <1>2. /\ b \in GuiType /\ b.helper = NoHelper /\ ~b.acked /\ ~b.pending
        /\ b.builtWith = NoSettings /\ b.state = "Disconnected" /\ ~b.connecting
    BY <1>1 DEF Off, GuiType, States
  <1> HIDE DEF b
  <1>3. /\ d.helper = NoHelper /\ ~d.acked /\ ~d.pending
        /\ d.builtWith = NoSettings /\ d.state = "Disconnected" /\ ~d.connecting
    BY <1>2 DEF GuiType
  <1> HIDE DEF d
  <1>4. FlagsRight(b) /\ FlagsRight(d)
    BY <1>2, <1>3 DEF FlagsRight
  <1> QED BY <1>2, <1>3, <1>4 DEF a, b, d

LEMMA HangsUpFields ==
  ASSUME LinkInv, GuiHangsUp PROVE \A c \in Conns : Left(conn[c], conn'[c])
  <1>1. \A c \in Conns : conn'[c] = IF c = gui.sock THEN NearClosed(conn[c]) ELSE conn[c]
    BY DEF GuiHangsUp
  <1> QED BY <1>1, LinkFacts, NearClosedFields, ClosedFields

LEMMA FailRight ==
  ASSUME OrdersInv, LinkInv', Fail, UNCHANGED helper PROVE OrdersInv'
  <1>1. gui \in GuiType /\ LinkInv
    BY LinkFacts DEF OrdersInv
  <1>2. gui' = Off(Aborted(gui)) /\ GuiHangsUp
    BY DEF Fail
  <1> QED BY <1>1, <1>2, AbortedFields, HangsUpFields, GivesUp

(***************************************************************************)
(* The steps of the user and of the GUI.                                   *)
(***************************************************************************)

\* An authenticated GUI writes m to its helper.
LEMMA TellsRight ==
  ASSUME OrdersInv, LinkInv', gui.acked, gui'.acked, gui'.sock = gui.sock,
         gui'.helper = gui.helper, FlagsRight(gui'), UNCHANGED helper,
         NEW m \in UserCommands, GuiTells(<<m>>),
         \A q \in Seq(UserCommands) : \A e, r :
             Exchange(gui, q, e, r) => Exchange(gui', q \o <<m>>, e, r)
  PROVE  OrdersInv'
  <1> DEFINE k == conn[gui.sock]
             n == Tell(k, <<m>>)
             r == helper[gui.helper]
  <1>1. /\ gui.sock \in Conns /\ Ours /\ gui.helper \in Helpers /\ k \in ConnType
        /\ k.peer = gui.helper
    BY LinkFacts DEF OrdersInv, Ours
  <1>2. /\ conn'[gui.sock] = n
        /\ \A c \in Conns : c # gui.sock => conn'[c] = conn[c]
    BY <1>1 DEF GuiTells
  <1>3. LinkRight(gui, k, r)
    BY <1>1 DEF OrdersInv, OursRight
  <1>4. /\ Left(k, n) /\ n.peer = k.peer /\ n.far = k.far /\ n.stage = k.stage
        /\ n.toGui = k.toGui
        /\ n.toHelper = IF k.far THEN k.toHelper \o <<m>> ELSE k.toHelper
    BY <1>1, TellFields
  <1>5. <<m>> \in Seq(UserCommands)
    OBVIOUS
  <1> DEFINE f == <<m>>
  <1>6. /\ f \in Seq(UserCommands)
        /\ n.toHelper = IF k.far THEN k.toHelper \o f ELSE k.toHelper
        /\ \A q \in Seq(UserCommands) : \A e, p :
              Exchange(gui, q, e, p) => Exchange(gui', q \o f, e, p)
    BY <1>4, <1>5
  <1> HIDE DEF f, k, n, r
  <1>7. Talking(gui, k, r)
    BY <1>3 DEF LinkRight, Greeting
  <1>8. Talking(gui', n, r)
    <2>1. n.toHelper \in Seq(UserCommands)
      BY <1>6, <1>7, Written DEF Talking
    <2>2. n.far => Exchange(gui', n.toHelper, n.toGui, r)
      BY <1>4, <1>6, <1>7 DEF Talking
    <2> QED BY <1>4, <1>7, <2>1, <2>2 DEF Talking
  <1>9. LinkRight(gui', n, r)
    BY <1>3, <1>4, <1>6, <1>8 DEF LinkRight
  <1>10. Awake(gui', r)
    BY DEF Awake
  <1> QED BY <1>1, <1>2, <1>4, <1>9, <1>10, OursChanges DEF k, r

LEMMA LaunchRight ==
  ASSUME OrdersInv, LinkInv', NEW g, g \in GuiType, FlagsRight(g), SameLink(gui, g), g.wanted,
         ~g.disconnecting, ~Up, LaunchHelper(g)
  PROVE  OrdersInv'
  <1>1. CASE Fail /\ UNCHANGED helper
    BY <1>1, FailRight
  <1>2. CASE \E h \in FreeHelpers :
           /\ gui' = [g EXCEPT !.starting = TRUE, !.retry = TRUE, !.helper = h, !.pending = TRUE]
           /\ helper' = [helper EXCEPT ![h].phase = "prompted"]
           /\ UNCHANGED conn
    <2>1. PICK h \in FreeHelpers :
           /\ gui' = [g EXCEPT !.starting = TRUE, !.retry = TRUE, !.helper = h, !.pending = TRUE]
           /\ helper' = [helper EXCEPT ![h].phase = "prompted"]
           /\ UNCHANGED conn
      BY <1>2
    <2>2. /\ h \in Helpers /\ helper[h].phase = "absent" /\ \A c \in Conns : conn[c].peer # h
          /\ helper \in [Helpers -> HelperType] /\ ~gui.acked
      BY LinkFacts DEF FreeHelpers, OrdersInv
    <2>3. /\ helper'[h].session = helper[h].session /\ helper'[h].phase = "prompted"
          /\ \A i \in Helpers : i # h => helper'[i] = helper[i]
      BY <2>1, <2>2 DEF HelperType
    <2>4. /\ gui'.sock = g.sock /\ gui'.helper = h /\ gui'.acked = g.acked /\ gui'.pending
          /\ gui'.state = g.state /\ gui'.builtWith = g.builtWith /\ gui'.wanted = g.wanted
          /\ gui'.connecting = g.connecting /\ gui'.disconnecting = g.disconnecting
      BY <2>1 DEF GuiType
    <2>5. SessionsRight'
      BY <2>2, <2>3 DEF OrdersInv, SessionsRight
    <2>6. FarRight'
      BY <2>1, <2>2, <2>3 DEF OrdersInv, FarRight
    <2>7. FlagsRight(gui') /\ ~gui'.acked /\ ~Up'
      BY <2>2, <2>4 DEF FlagsRight, SameLink, Up
    <2>8. Awake(gui', helper'[h])
      BY <2>4 DEF Awake
    <2>9. helper'[h].session = "Disconnected"
      BY <2>2, <2>3 DEF OrdersInv, SessionsRight
    <2>10. OursRight'
      BY <2>1, <2>2, <2>4, <2>7, <2>8, <2>9 DEF OursRight, Ours
    <2> QED BY <2>5, <2>6, <2>7, <2>10 DEF OrdersInv
  <1> QED BY <1>1, <1>2 DEF LaunchHelper

\* A connect of a GUI that is gui but for the flags of a click.
LEMMA ConnectRight ==
  ASSUME OrdersInv, LinkInv', NEW g, g \in GuiType, SameLink(gui, g), g.wanted, g.connecting,
         ~g.disconnecting, g.state = gui.state, g.settings = gui.settings,
         g.builtWith = gui.builtWith, g.pending = gui.pending,
         g.disconnecting = gui.disconnecting, ConnectVpn(g)
  PROVE  OrdersInv'
  <1>1. FlagsRight(g)
    BY DEF OrdersInv, FlagsRight, SameLink
  <1>2. CASE gui.acked /\ gui' = ConnectSent(g) /\ GuiTells(<<ConnectCommand>>)
             /\ UNCHANGED helper
    <2>1. /\ gui'.state = gui.state /\ gui'.disconnecting = gui.disconnecting
          /\ gui'.settings = gui.settings /\ gui'.wanted /\ gui'.builtWith = gui.settings
          /\ gui'.acked /\ gui'.sock = gui.sock /\ gui'.helper = gui.helper
          /\ gui'.pending = gui.pending /\ gui'.connecting = g.connecting
      BY <1>2 DEF ConnectSent, GuiType, SameLink
    <2>2. FlagsRight(gui')
      BY <1>1, <1>2, <2>1 DEF FlagsRight, SameLink
    <2>3. ConnectCommand \in UserCommands
      BY UserCommandTypes DEF UserCommands
    <2>4. ASSUME NEW q \in Seq(UserCommands), NEW e, NEW r, Exchange(gui, q, e, r)
          PROVE  Exchange(gui', q \o <<ConnectCommand>>, e, r)
      BY <2>1, <2>4, ConnectWritten
    <2> QED BY <1>2, <2>1, <2>2, <2>3, <2>4, TellsRight
  <1>3. CASE ~gui.acked /\ gui' = [g EXCEPT !.pending = TRUE] /\ UNCHANGED <<conn, helper>>
    <2>1. /\ gui'.sock = gui.sock /\ gui'.helper = gui.helper /\ gui'.acked = gui.acked
          /\ gui'.proven = gui.proven /\ gui'.state = g.state /\ gui'.builtWith = g.builtWith
          /\ gui'.pending /\ gui'.wanted /\ ~gui'.disconnecting /\ gui'.connecting = g.connecting
      BY <1>3 DEF GuiType, SameLink
    <2>2. FlagsRight(gui')
      BY <1>1, <1>3, <2>1 DEF FlagsRight, SameLink
    <2>3. \A r : Awake(gui', r)
      BY <2>1 DEF Awake
    <2> QED BY <1>3, <2>1, <2>2, <2>3, FlagsStep
  <1>4. CASE ~Up /\ LaunchHelper(g)
    BY <1>1, <1>4, LaunchRight
  <1> QED BY <1>2, <1>3, <1>4 DEF ConnectVpn

LEMMA LeftTwice ==
  ASSUME NEW a, NEW b, NEW k, Left(a, b), Left(b, k) PROVE Left(a, k)
  BY DEF Left

LEMMA UserRight ==
  ASSUME OrdersInv, LinkInv', User PROVE OrdersInv'
  <1>0. LinkInv /\ gui \in GuiType /\ FlagsRight(gui)
    BY LinkFacts DEF OrdersInv
  <1>1. CASE StartConnectAttempt
    <2> DEFINE g == [gui EXCEPT !.connecting = TRUE, !.wanted = TRUE]
    <2>1. ConnectVpn(g) /\ ~gui.disconnecting
      BY <1>1 DEF StartConnectAttempt
    <2>2. /\ g \in GuiType /\ SameLink(gui, g) /\ g.wanted /\ g.connecting /\ ~g.disconnecting
          /\ g.state = gui.state /\ g.settings = gui.settings /\ g.builtWith = gui.builtWith
          /\ g.pending = gui.pending /\ g.disconnecting = gui.disconnecting
      BY <1>0, <2>1 DEF GuiType, SameLink
    <2> HIDE DEF g
    <2> QED BY <2>1, <2>2, ConnectRight
  <1>2. CASE PickAnotherConfig
    <2>1. gui.connecting /\ ~gui.acked /\ ConnectVpn(gui) /\ SameLink(gui, gui)
      BY <1>2 DEF PickAnotherConfig, SameLink
    <2>2. gui.wanted /\ ~gui.disconnecting
      BY <1>0, <2>1 DEF FlagsRight
    <2> QED BY <1>0, <2>1, <2>2, ConnectRight
  <1>3. CASE DisconnectVpn
    <2>0. UNCHANGED helper
      BY <1>3 DEF DisconnectVpn
    <2>1. CASE gui' = [Off(Aborted(gui)) EXCEPT !.wanted = FALSE] /\ GuiHangsUp
      BY <1>0, <2>0, <2>1, AbortedFields, HangsUpFields, GivesUp
    <2>2. CASE /\ gui.acked
               /\ gui' = [gui EXCEPT !.connecting = FALSE, !.disconnecting = TRUE,
                                     !.builtWith = NoSettings, !.wanted = FALSE]
               /\ GuiTells(<<[kind |-> "disconnect"]>>)
      <3>1. /\ gui'.state = gui.state /\ gui'.settings = gui.settings /\ ~gui'.connecting
            /\ gui'.builtWith = NoSettings /\ gui'.acked /\ gui'.sock = gui.sock
            /\ gui'.helper = gui.helper /\ gui'.pending = gui.pending
        BY <1>0, <2>2 DEF GuiType
      <3>2. FlagsRight(gui')
        BY <1>0, <2>2, <3>1 DEF FlagsRight
      <3>3. DisconnectCommand \in UserCommands
        BY UserCommandTypes DEF UserCommands
      <3>4. ASSUME NEW q \in Seq(UserCommands), NEW e, NEW r, Exchange(gui, q, e, r)
            PROVE  Exchange(gui', q \o <<DisconnectCommand>>, e, r)
        BY <3>1, <3>4, DisconnectWritten
      <3>5. GuiTells(<<DisconnectCommand>>)
        BY <2>2 DEF DisconnectCommand
      <3> QED BY <2>0, <2>2, <3>1, <3>2, <3>3, <3>4, <3>5, TellsRight
    <2> QED BY <1>3, <2>1, <2>2 DEF DisconnectVpn
  <1>4. CASE EditSettings
    <2>1. PICK s \in Settings :
             /\ gui' = [gui EXCEPT !.settings = s]
             /\ IF gui.acked THEN GuiTells(<<SettingsCommand(s)>>) ELSE UNCHANGED conn
      BY <1>4 DEF EditSettings
    <2>2. UNCHANGED helper
      BY <1>4 DEF EditSettings
    <2>3. /\ gui'.settings = s /\ gui'.state = gui.state /\ gui'.builtWith = gui.builtWith
          /\ gui'.connecting = gui.connecting /\ gui'.disconnecting = gui.disconnecting
          /\ gui'.wanted = gui.wanted /\ gui'.pending = gui.pending /\ gui'.acked = gui.acked
          /\ gui'.proven = gui.proven /\ gui'.sock = gui.sock /\ gui'.helper = gui.helper
      BY <1>0, <2>1 DEF GuiType
    <2>4. FlagsRight(gui')
      BY <1>0, <2>3 DEF FlagsRight
    <2>5. CASE gui.acked
      <3>1. SettingsCommand(s) \in UserCommands
        BY UserCommandTypes DEF UserCommands
      <3>2. ASSUME NEW q \in Seq(UserCommands), NEW e, NEW r, Exchange(gui, q, e, r)
            PROVE  Exchange(gui', q \o <<SettingsCommand(s)>>, e, r)
        BY <2>3, <3>2, SettingsWritten
      <3> QED BY <2>1, <2>2, <2>3, <2>4, <2>5, <3>1, <3>2, TellsRight
    <2>6. CASE ~gui.acked
      <3>1. gui.helper \in Helpers => Awake(gui', helper[gui.helper])
        BY <2>3 DEF OrdersInv, OursRight, Awake
      <3> QED BY <2>1, <2>2, <2>3, <2>4, <2>6, <3>1, FlagsStep
    <2> QED BY <2>5, <2>6
  <1>5. CASE Shutdown
    <2> DEFINE none == <<[kind |-> "quit"]>>
               t(k) == IF gui.acked THEN Tell(k, none) ELSE k
    <2>1. /\ gui' = [Off(Aborted(gui)) EXCEPT !.wanted = FALSE] /\ UNCHANGED helper
          /\ \A c \in Conns : conn'[c] = IF c # gui.sock THEN conn[c] ELSE NearClosed(t(conn[c]))
      BY <1>5 DEF Shutdown
    <2>2. none \in Seq(Greetings) /\ none \in Seq(Commands)
      <3>1. [kind |-> "quit"] \in Greetings /\ Greetings \subseteq Commands
        BY CommandTypes
      <3> QED BY <3>1
    <2> HIDE DEF none
    <2>3. ASSUME NEW c \in Conns PROVE Left(conn[c], conn'[c])
      <3>1. Sound(conn[c], gui.helper) /\ conn[c] \in ConnType
        BY <1>0 DEF LinkInv, Sound
      <3>2. t(conn[c]) \in ConnType /\ Left(conn[c], t(conn[c]))
        BY <2>2, <3>1, ToldIsSound, TellFields, ClosedFields DEF Sound
      <3>3. Left(conn[c], NearClosed(t(conn[c])))
        BY <3>2, NearClosedFields, LeftTwice
      <3> QED BY <2>1, <3>3, ClosedFields
    <2> QED BY <1>0, <2>1, <2>3, AbortedFields, GivesUp
  <1> QED BY <1>1, <1>2, <1>3, <1>4, <1>5 DEF User

\* The GUI's own steps that touch flags only.
LEMMA FlagsOnly ==
  ASSUME OrdersInv, LinkInv', RetryStops PROVE OrdersInv'
  <1>1. gui \in GuiType /\ FlagsRight(gui)
    BY LinkFacts DEF OrdersInv
  <1>2. gui' = [gui EXCEPT !.retry = FALSE] /\ UNCHANGED <<conn, helper>>
    BY DEF RetryStops
  <1>3. /\ gui'.sock = gui.sock /\ gui'.helper = gui.helper /\ gui'.acked = gui.acked
        /\ gui'.proven = gui.proven /\ gui'.pending = gui.pending /\ SameView(gui, gui')
    BY <1>1, <1>2 DEF GuiType, SameView
  <1>4. FlagsRight(gui')
    BY <1>1, <1>3 DEF FlagsRight, SameView
  <1>5. gui.helper \in Helpers => Awake(gui', helper[gui.helper])
    BY <1>3 DEF OrdersInv, OursRight, Awake, SameView
  <1> QED BY <1>2, <1>3, <1>4, <1>5, FlagsStep

LEMMA DialsRight ==
  ASSUME OrdersInv, LinkInv', RetryDials PROVE OrdersInv'
  <1>0. /\ LinkInv /\ gui \in GuiType /\ FlagsRight(gui) /\ ~Up /\ ~gui.acked /\ ~gui.proven
        /\ gui.helper \in Helpers /\ UNCHANGED helper
    BY LinkFacts DEF OrdersInv, RetryDials, LinkInv, Ordered
  <1>1. PICK c \in Conns, p \in Answering :
           /\ conn[c] = Closed /\ gui' = SocketUp(gui, c)
           /\ conn' = [conn EXCEPT ![c] = [Closed EXCEPT !.peer = p, !.near = TRUE, !.far = TRUE,
                                                       !.toHelper = <<[kind |-> "hello"]>>]]
    BY DEF RetryDials
  <1> DEFINE q == <<Hello>>
             k == [Closed EXCEPT !.peer = p, !.near = TRUE, !.far = TRUE, !.toHelper = q]
  <1>2. /\ k.peer = p /\ k.far /\ k.stage = "fresh" /\ k.toHelper = <<Hello>> /\ k.toGui = <<>>
    BY DEF Closed
  <1>3. conn' = [conn EXCEPT ![c] = k]
    BY <1>1 DEF Hello
  <1> HIDE DEF k
  <1>4. conn'[c] = k /\ \A d \in Conns : d # c => conn'[d] = conn[d]
    BY <1>0, <1>3 DEF LinkInv
  <1>5. /\ gui'.sock = c /\ gui'.helper = gui.helper /\ gui'.acked = gui.acked
        /\ gui'.proven = gui.proven /\ gui'.pending = gui.pending /\ SameView(gui, gui')
    BY <1>0, <1>1 DEF GuiType, SocketUp, SameView
  <1>6. FlagsRight(gui') /\ (\A r : Awake(gui, r) => Awake(gui', r))
    BY <1>0, <1>5 DEF FlagsRight, SameView, Awake
  <1>7. p \in Helpers => p = gui.helper /\ helper[p].phase = "listening"
    BY SlotsAssumption DEF Answering
  <1>8. SessionsRight'
    BY <1>0 DEF OrdersInv, SessionsRight
  <1>9. FarRight'
    <2> SUFFICES ASSUME NEW d \in Conns, conn'[d].far, conn'[d].peer \in Helpers
                 PROVE  helper[conn'[d].peer].phase = "listening"
      BY <1>0 DEF FarRight
    <2>1. CASE d = c
      BY <1>2, <1>4, <1>7, <2>1
    <2>2. CASE d # c
      BY <1>4, <2>2 DEF OrdersInv, FarRight
    <2> QED BY <2>1, <2>2
  <1>10. ~Ours /\ OursRight /\ gui.sock = NoConn
    BY <1>0 DEF Ours, OrdersInv, Up
  <1>11. helper[gui.helper].session = "Disconnected"
    BY <1>10 DEF OursRight
  <1>12. LinkRight(gui', k, helper[gui.helper])
    BY <1>0, <1>2, <1>5, <1>11 DEF LinkRight, Greeting
  <1>13. Ours' => LinkRight(gui', conn'[gui'.sock], helper[gui'.helper])
    BY <1>4, <1>5, <1>12
  <1>14. \A d \in Conns : conn'[d].peer = gui'.helper => gui'.sock = d
    BY <1>4, <1>5, <1>10, SlotsAssumption DEF OursRight
  <1>15. OursRight'
    BY <1>0, <1>5, <1>6, <1>10, <1>11, <1>13, <1>14 DEF OursRight
  <1> QED BY <1>6, <1>8, <1>9, <1>15 DEF OrdersInv

LEMMA LostRight ==
  ASSUME OrdersInv, LinkInv', SocketDisconnected PROVE OrdersInv'
  <1> DEFINE k == conn[gui.sock]
             r == helper[gui.helper]
  <1>0. /\ LinkInv /\ gui \in GuiType /\ FlagsRight(gui) /\ gui.helper \in Helpers
        /\ gui.sock \in Conns /\ Up /\ ~k.far /\ gui' = LinkLost(gui) /\ UNCHANGED helper
        /\ conn' = [conn EXCEPT ![gui.sock] = Closed] /\ OursRight
    BY LinkFacts DEF OrdersInv, SocketDisconnected
  <1>1. conn'[gui.sock] = Closed /\ \A c \in Conns : c # gui.sock => conn'[c] = conn[c]
    BY <1>0 DEF LinkInv
  <1> DEFINE a == [gui EXCEPT !.acked = FALSE, !.proven = FALSE, !.starting = FALSE,
                              !.builtWith = NoSettings, !.sock = NoConn]
  <1>2. /\ a \in GuiType /\ ~a.acked /\ a.builtWith = NoSettings /\ a.sock = NoConn
        /\ a.helper = gui.helper /\ a.state = gui.state /\ a.connecting = gui.connecting
        /\ a.disconnecting = gui.disconnecting /\ a.pending = gui.pending
        /\ a.wanted = gui.wanted
    BY <1>0 DEF GuiType
  <1>3. gui' = IF a.state = "Disconnected" THEN a
               ELSE [a EXCEPT !.state = "Disconnected", !.connecting = FALSE,
                              !.disconnecting = FALSE]
    <2>1. gui' = StateShown(a, "Disconnected")
      BY <1>0 DEF LinkLost
    <2>2. ("Disconnected" = "Connecting") = FALSE /\ ("Disconnected" = "Disconnecting") = FALSE
      OBVIOUS
    <2> HIDE DEF a
    <2> QED BY <2>1, <2>2 DEF StateShown
  <1> HIDE DEF a
  <1>4. /\ ~gui'.acked /\ gui'.builtWith = NoSettings /\ gui'.sock = NoConn
        /\ gui'.helper = gui.helper /\ gui'.state = "Disconnected"
        /\ gui'.pending = gui.pending /\ gui'.wanted = gui.wanted
        /\ \/ gui'.connecting = gui.connecting /\ gui'.disconnecting = gui.disconnecting
              /\ gui.state = "Disconnected"
           \/ ~gui'.connecting /\ ~gui'.disconnecting
    BY <1>2, <1>3 DEF GuiType
  <1>5. FlagsRight(gui')
    BY <1>0, <1>4 DEF FlagsRight
  <1>6. gui.acked => r.phase = "absent"
    <2> SUFFICES ASSUME gui.acked PROVE r.phase = "absent"
      OBVIOUS
    <2>1. LinkRight(gui, k, r)
      BY <1>0 DEF OursRight
    <2> QED BY <1>0, <2>1 DEF LinkRight, Greeting, Talking
  <1>7. Awake(gui', r)
    BY <1>0, <1>4, <1>6 DEF OursRight, Awake
  <1>8. r.session = "Disconnected"
    <2>1. CASE Ours
      <3>1. LinkRight(gui, k, r)
        BY <1>0, <2>1 DEF OursRight
      <3>2. k.stage = "serving" => r.phase = "absent"
        BY <1>0, <3>1 DEF LinkRight
      <3>3. r.phase = "absent" => r.session = "Disconnected"
        BY <1>0 DEF OrdersInv, SessionsRight
      <3> QED BY <3>1, <3>2, <3>3 DEF LinkRight
    <2> QED BY <1>0, <2>1 DEF OursRight
  <1>9. SessionsRight' /\ FarRight'
    BY <1>0, <1>1, ClosedFields DEF OrdersInv, SessionsRight, FarRight
  <1>10. ~Ours' /\ \A c \in Conns : conn'[c].peer # gui'.helper
    BY <1>0, <1>1, <1>4, ClosedFields, SlotsAssumption DEF Ours, Up, OursRight
  <1>11. OursRight'
    BY <1>0, <1>4, <1>7, <1>8, <1>10 DEF OursRight
  <1> QED BY <1>5, <1>9, <1>11 DEF OrdersInv

\* The GUI takes the event at the head of its connection.
LEMMA ReadsFields ==
  ASSUME LinkInv, NEW kind, NEW cs, Reads(kind, cs)
  PROVE  LET k == conn[gui.sock]
         IN  /\ k \in ConnType /\ gui.helper \in Helpers /\ UNCHANGED helper
             /\ \A c \in Conns : c # gui.sock => conn'[c] = conn[c]
             /\ k.toGui # <<>> /\ Head(k.toGui).kind = kind
             /\ Left(k, conn'[gui.sock]) /\ conn'[gui.sock].peer = k.peer
             /\ conn'[gui.sock].far = k.far /\ conn'[gui.sock].stage = k.stage
             /\ conn'[gui.sock].toGui = Tail(k.toGui)
             /\ conn'[gui.sock].toHelper = IF k.far THEN k.toHelper \o cs ELSE k.toHelper
  <1>1. /\ gui.sock \in Conns /\ conn[gui.sock] \in ConnType /\ gui.helper \in Helpers
    BY LinkFacts DEF Reads
  <1>2. /\ conn'[gui.sock] = Answered(conn[gui.sock], cs)
        /\ \A c \in Conns : c # gui.sock => conn'[c] = conn[c]
    BY <1>1 DEF Reads, LinkInv
  <1>3. LET k == conn[gui.sock]
            n == Answered(k, cs)
        IN  /\ Left(k, n) /\ n.peer = k.peer /\ n.far = k.far /\ n.stage = k.stage
            /\ n.toGui = Tail(k.toGui)
            /\ n.toHelper = IF k.far THEN k.toHelper \o cs ELSE k.toHelper
    BY <1>1, AnsweredFields
  <1> QED BY <1>1, <1>2, <1>3 DEF Reads
LEMMA ChallengeRight ==
  ASSUME OrdersInv, LinkInv', ChallengeAnswered PROVE OrdersInv'
  <1> DEFINE k == conn[gui.sock]
             n == conn'[gui.sock]
             r == helper[gui.helper]
             cs == <<[kind |-> "auth", token |-> gui.helper]>>
  <1>0. /\ LinkInv /\ gui \in GuiType /\ FlagsRight(gui) /\ Up /\ Reads("challenge", cs)
        /\ Head(k.toGui).token = gui.helper /\ gui' = [gui EXCEPT !.proven = TRUE]
        /\ k.toGui \in Seq(EventsOf(k.peer))
    BY LinkFacts DEF OrdersInv, ChallengeAnswered, Reads, Event
  <1>1. /\ k \in ConnType /\ gui.helper \in Helpers /\ UNCHANGED helper
        /\ \A c \in Conns : c # gui.sock => conn'[c] = conn[c]
        /\ k.toGui # <<>> /\ Head(k.toGui).kind = "challenge"
        /\ Left(k, n) /\ n.peer = k.peer /\ n.far = k.far /\ n.stage = k.stage
        /\ n.toGui = Tail(k.toGui)
        /\ n.toHelper = IF k.far THEN k.toHelper \o cs ELSE k.toHelper
    BY <1>0, ReadsFields
  <1>2. /\ gui'.sock = gui.sock /\ gui'.helper = gui.helper /\ gui'.acked = gui.acked
        /\ gui'.proven /\ gui'.pending = gui.pending /\ SameView(gui, gui')
    BY <1>0 DEF GuiType, SameView
  <1>3. FlagsRight(gui')
    BY <1>0, <1>2 DEF FlagsRight, SameView
  <1>4. Ours
    <2>1. Head(k.toGui) \in EventsOf(k.peer)
      BY <1>0, <1>1, HeadTail
    <2>2. k.peer = gui.helper
      BY <1>0, <1>1, <2>1 DEF EventsOf
    <2> QED BY <1>0, <2>2 DEF Ours
  <1>5. LinkRight(gui, k, r) /\ Awake(gui', r)
    BY <1>1, <1>2, <1>4 DEF OrdersInv, OursRight, Awake, SameView
  <1>6. <<>> \o cs = <<Auth(gui.helper)>>
    BY DEF Auth
  <1> HIDE DEF k, n, r, cs
  <1>7. /\ ~gui.acked /\ r.session = "Disconnected" /\ k.stage = "challenged"
        /\ k.toHelper = <<>> /\ Tail(k.toGui) = <<>>
    BY <1>1, <1>5, GuiReadsKinds
  <1>8. n.toHelper \in {<<Auth(gui.helper)>>, <<>>} /\ (~n.far => n.toHelper = <<>>)
    BY <1>1, <1>6, <1>7
  <1>9. Greeting(gui', n, r)
    BY <1>1, <1>2, <1>7, <1>8 DEF Greeting
  <1>10. LinkRight(gui', n, r)
    BY <1>1, <1>7, <1>8, <1>9 DEF LinkRight
  <1> QED BY <1>0, <1>1, <1>2, <1>3, <1>4, <1>5, <1>10, OursChanges DEF k, n, r

LEMMA ReadyRight ==
  ASSUME OrdersInv, LinkInv', HelperReady PROVE OrdersInv'
  <1> DEFINE k == conn[gui.sock]
             n == conn'[gui.sock]
             r == helper[gui.helper]
             g == [gui EXCEPT !.acked = TRUE, !.deadline = NoHelper, !.pending = FALSE]
  <1>0. /\ LinkInv /\ gui \in GuiType /\ FlagsRight(gui) /\ Up /\ Ours
        /\ Reads("ready", ReadyCommands)
        /\ gui' = IF gui.pending THEN ConnectSent(g) ELSE g
    BY LinkFacts DEF OrdersInv, HelperReady
  <1>1. /\ k \in ConnType /\ gui.helper \in Helpers /\ UNCHANGED helper
        /\ \A c \in Conns : c # gui.sock => conn'[c] = conn[c]
        /\ k.toGui # <<>> /\ Head(k.toGui).kind = "ready"
        /\ Left(k, n) /\ n.peer = k.peer /\ n.far = k.far /\ n.stage = k.stage
        /\ n.toGui = Tail(k.toGui)
        /\ n.toHelper = IF k.far THEN k.toHelper \o ReadyCommands ELSE k.toHelper
    BY <1>0, ReadsFields
  <1>2. /\ gui'.sock = gui.sock /\ gui'.helper = gui.helper /\ gui'.acked /\ ~gui'.pending
        /\ gui'.state = gui.state /\ gui'.settings = gui.settings
        /\ gui'.connecting = gui.connecting /\ gui'.disconnecting = gui.disconnecting
        /\ gui'.wanted = gui.wanted
        /\ gui'.builtWith = IF gui.pending THEN gui.settings ELSE gui.builtWith
    <2>1. /\ g \in GuiType /\ g.sock = gui.sock /\ g.helper = gui.helper /\ g.acked /\ ~g.pending
          /\ g.state = gui.state /\ g.settings = gui.settings
          /\ g.connecting = gui.connecting /\ g.disconnecting = gui.disconnecting
          /\ g.wanted = gui.wanted /\ g.builtWith = gui.builtWith
      BY <1>0 DEF GuiType
    <2> HIDE DEF g
    <2> QED BY <1>0, <2>1 DEF ConnectSent, GuiType
  <1>3. FlagsRight(gui')
    BY <1>0, <1>2 DEF FlagsRight
  <1>4. LinkRight(gui, k, r) /\ Awake(gui, r) /\ Awake(gui', r)
    BY <1>0, <1>1, <1>2 DEF OrdersInv, OursRight, Awake
  <1>5. k.far => r.phase = "listening"
    BY <1>0, <1>1, LinkFacts DEF OrdersInv, FarRight, Ours
  <1>6. k.peer = gui.helper
    BY <1>0 DEF Ours
  <1> HIDE DEF k, n, r, g
  <1>7. /\ ~gui.acked /\ r.session = "Disconnected" /\ k.stage = "serving"
        /\ k.toHelper = <<>> /\ Tail(k.toGui) = <<>>
    BY <1>1, <1>4, GuiReadsKinds
  <1>8. ReadyCommands \in Seq(UserCommands)
        /\ (k.far => Exchange(gui', ReadyCommands, <<>>, r))
    <2>1. ASSUME k.far PROVE ~gui.disconnecting /\ (gui.connecting => gui.pending)
      BY <1>4, <1>5, <1>7, <2>1 DEF Awake
    <2>2. gui.state = "Disconnected" /\ gui.builtWith = NoSettings /\ (~gui.wanted => ~gui.pending)
      BY <1>0, <1>7 DEF FlagsRight
    <2>3. ASSUME k.far PROVE Exchange(gui', ReadyCommands, <<>>, r)
      BY <1>0, <1>2, <1>7, <2>1, <2>2, <2>3, ExchangeBegins DEF ReadyCommands
    <2>4. ReadyCommands \in Seq(UserCommands)
      <3>1. SettingsCommand(gui.settings) \in UserCommands /\ ConnectCommand \in UserCommands
        BY <1>0, UserCommandTypes DEF UserCommands, GuiType
      <3>2. /\ <<SettingsCommand(gui.settings)>> \in Seq(UserCommands)
            /\ <<ConnectCommand>> \in Seq(UserCommands)
        BY <3>1
      <3> QED BY <3>2, NothingWritten, Written DEF ReadyCommands
    <2> QED BY <2>3, <2>4
  <1>9. /\ n.toHelper = IF k.far THEN ReadyCommands ELSE <<>>
        /\ <<>> \in Seq(UserCommands) /\ <<>> \in Seq(NewsSet)
    BY <1>1, <1>7, <1>8, NothingWritten
  <1>10. Talking(gui', n, r)
    BY <1>1, <1>2, <1>7, <1>8, <1>9 DEF Talking
  <1>11. LinkRight(gui', n, r)
    BY <1>1, <1>4, <1>7, <1>9, <1>10 DEF LinkRight
  <1> QED BY <1>0, <1>1, <1>2, <1>3, <1>4, <1>11, OursChanges DEF k, n, r

\* The helper's news is read.
LEMMA NewsRight ==
  ASSUME OrdersInv, LinkInv', gui.proven, gui'.sock = gui.sock, gui'.helper = gui.helper,
         gui'.acked = gui.acked, NEW kind \in {"state", "error"}, Reads(kind, <<>>),
         gui.acked => FlagsRight(gui'),
         LET k == conn[gui.sock]
             r == helper[gui.helper]
         IN  Talking(gui, k, r) /\ k.far
                 => Exchange(gui', k.toHelper, Tail(k.toGui), r)
  PROVE  OrdersInv'
  <1> DEFINE k == conn[gui.sock]
             n == conn'[gui.sock]
             r == helper[gui.helper]
             none == <<>>
  <1>0. LinkInv /\ Ours
    BY LinkFacts DEF OrdersInv
  <1>1. /\ k \in ConnType /\ gui.helper \in Helpers /\ UNCHANGED helper
        /\ \A c \in Conns : c # gui.sock => conn'[c] = conn[c]
        /\ k.toGui # <<>> /\ Head(k.toGui).kind = kind
        /\ Left(k, n) /\ n.peer = k.peer /\ n.far = k.far /\ n.stage = k.stage
        /\ n.toGui = Tail(k.toGui)
        /\ n.toHelper = IF k.far THEN k.toHelper \o none ELSE k.toHelper
    BY <1>0, ReadsFields
  <1>2. LinkRight(gui, k, r)
    BY <1>0, <1>1 DEF OrdersInv, OursRight
  <1>3. Talking(gui, k, r) /\ k.far => Exchange(gui', k.toHelper, Tail(k.toGui), r)
    OBVIOUS
  <1>4. \A q \in Seq(UserCommands) : q \o none = q
    OBVIOUS
  <1> HIDE DEF k, n, r, none
  <1>5. Talking(gui, k, r)
    BY <1>1, <1>2, GuiReadsKinds
  <1>6. n.toHelper = k.toHelper
    BY <1>1, <1>4, <1>5 DEF Talking
  <1>7. Tail(k.toGui) \in Seq(NewsSet)
    BY <1>1, <1>5, HeadTail DEF Talking
  <1>8. Talking(gui', n, r)
    BY <1>1, <1>3, <1>5, <1>6, <1>7 DEF Talking
  <1>9. LinkRight(gui', n, r)
    BY <1>1, <1>2, <1>6, <1>8 DEF LinkRight
  <1>10. FlagsRight(gui') /\ Awake(gui', r)
    BY <1>5 DEF Talking, Awake
  <1> QED BY <1>0, <1>1, <1>9, <1>10, OursChanges DEF k, n, r

LEMMA StateRight ==
  ASSUME OrdersInv, LinkInv', StateReported PROVE OrdersInv'
  <1> DEFINE k == conn[gui.sock]
             r == helper[gui.helper]
             s == Head(k.toGui).state
             b1 == s = "Connecting"
             b2 == s = "Disconnecting"
  <1>0. /\ LinkInv /\ gui \in GuiType /\ FlagsRight(gui) /\ gui.proven /\ Ours
        /\ Reads("state", <<>>) /\ gui' = StateShown(gui, s)
    BY LinkFacts DEF OrdersInv, StateReported, Event
  <1>1. gui' = IF gui.state = s THEN gui
               ELSE [gui EXCEPT !.state = s, !.connecting = b1, !.disconnecting = b2]
    BY <1>0 DEF StateShown
  <1>2. /\ k.toGui # <<>> /\ Head(k.toGui).kind = "state" /\ gui.helper \in Helpers
    BY <1>0, ReadsFields
  <1>3. LinkRight(gui, k, r)
    BY <1>0, <1>2 DEF OrdersInv, OursRight
  <1> HIDE DEF k, r
  <1>4. Talking(gui, k, r) /\ Head(k.toGui) \in StateSet
    BY <1>2, <1>3, GuiReadsKinds
  <1>5. Talking(gui, k, r) /\ k.far => Exchange(gui', k.toHelper, Tail(k.toGui), r)
    <2> SUFFICES ASSUME k.far PROVE Exchange(gui', k.toHelper, Tail(k.toGui), r)
      OBVIOUS
    <2>1. k.toGui \in Seq(NewsSet) /\ Exchange(gui, k.toHelper, k.toGui, r)
      BY <1>4 DEF Talking
    <2> QED BY <1>0, <1>2, <1>4, <2>1, StateRead
  <1> HIDE DEF s
  <1>6. /\ gui'.sock = gui.sock /\ gui'.helper = gui.helper /\ gui'.acked = gui.acked
        /\ gui'.pending = gui.pending /\ gui'.wanted = gui.wanted
        /\ \/ SameView(gui, gui')
           \/ gui'.state = s /\ gui'.connecting = b1 /\ gui'.disconnecting = b2
    BY <1>0, <1>1 DEF GuiType, SameView
  <1>7. gui.acked => FlagsRight(gui')
    <2>1. CASE SameView(gui, gui')
      BY <1>0, <1>6, <2>1 DEF FlagsRight, SameView
    <2>2. CASE gui'.state = s /\ gui'.connecting = b1 /\ gui'.disconnecting = b2
      BY <1>0, <1>6, <2>2 DEF FlagsRight
    <2> QED BY <1>6, <2>1, <2>2
  <1> QED BY <1>0, <1>5, <1>6, <1>7, NewsRight DEF k, r

LEMMA ErrorRight ==
  ASSUME OrdersInv, LinkInv', ErrorReported PROVE OrdersInv'
  <1> DEFINE k == conn[gui.sock]
             r == helper[gui.helper]
  <1>0. /\ LinkInv /\ gui \in GuiType /\ FlagsRight(gui) /\ gui.proven /\ Ours
        /\ Reads("error", <<>>) /\ helper \in [Helpers -> HelperType]
        /\ gui' = IF gui.state \in {"Disconnected", "Error"}
                  THEN [gui EXCEPT !.connecting = FALSE] ELSE gui
    BY LinkFacts DEF OrdersInv, ErrorReported
  <1>2. /\ k.toGui # <<>> /\ Head(k.toGui).kind = "error" /\ gui.helper \in Helpers
    BY <1>0, ReadsFields
  <1>3. LinkRight(gui, k, r) /\ r.session \in States
    BY <1>0, <1>2 DEF OrdersInv, OursRight, HelperType
  <1> HIDE DEF k, r
  <1>4. Talking(gui, k, r) /\ Head(k.toGui) = ErrorEvent
    BY <1>2, <1>3, GuiReadsKinds
  <1>5. Talking(gui, k, r) /\ k.far => Exchange(gui', k.toHelper, Tail(k.toGui), r)
    <2> SUFFICES ASSUME k.far PROVE Exchange(gui', k.toHelper, Tail(k.toGui), r)
      OBVIOUS
    <2>1. k.toGui \in Seq(NewsSet) /\ Exchange(gui, k.toHelper, k.toGui, r)
      BY <1>4 DEF Talking
    <2> QED BY <1>0, <1>2, <1>3, <1>4, <2>1, ErrorRead
  <1>6. /\ gui'.sock = gui.sock /\ gui'.helper = gui.helper /\ gui'.acked = gui.acked
        /\ gui'.pending = gui.pending /\ gui'.wanted = gui.wanted /\ gui'.state = gui.state
        /\ gui'.builtWith = gui.builtWith /\ gui'.disconnecting = gui.disconnecting
        /\ gui'.connecting => gui.connecting
    BY <1>0 DEF GuiType
  <1>7. FlagsRight(gui')
    BY <1>0, <1>6 DEF FlagsRight
  <1> QED BY <1>0, <1>5, <1>6, <1>7, NewsRight DEF k, r

LEMMA GuiRight ==
  ASSUME OrdersInv, LinkInv', Gui PROVE OrdersInv'
  <1>1. CASE AttemptFails \/ HandshakeDeadline \/ PeerRefused
    BY <1>1, FailRight DEF AttemptFails, HandshakeDeadline, PeerRefused
  <1> QED BY <1>1, FlagsOnly, DialsRight, LostRight, ChallengeRight, ReadyRight, StateRight,
             ErrorRight DEF Gui

(***************************************************************************)
(* The steps of the helpers, of the stranger and of the wire.              *)
(***************************************************************************)
LEMMA EndsRight ==
  ASSUME OrdersInv, LinkInv', NEW h \in Helpers, HelperEnds(h), UNCHANGED gui PROVE OrdersInv'
  <1>0. LinkInv /\ helper \in [Helpers -> HelperType]
    BY LinkFacts DEF OrdersInv
  <1>1. /\ helper'[h] = Absent /\ \A i \in Helpers : i # h => helper'[i] = helper[i]
        /\ \A c \in Conns : conn'[c] = IF conn[c].peer = h THEN FarClosed(conn[c]) ELSE conn[c]
    BY <1>0 DEF HelperEnds
  <1>2. Absent.phase = "absent" /\ Absent.session = "Disconnected"
    BY DEF Absent
  <1>3. \A c \in Conns : Left(conn[c], conn'[c])
    BY <1>0, <1>1, LinkFacts, FarClosedFields, ClosedFields
  <1>4. SessionsRight'
    BY <1>1, <1>2 DEF OrdersInv, SessionsRight
  <1>5. FarRight'
    BY <1>0, <1>1, <1>3, LinkFacts, FarClosedFields, FarKept DEF OrdersInv
  <1>6. CASE h # gui.helper
    <2>1. Ours => conn'[gui.sock] = conn[gui.sock]
      BY <1>0, <1>1, <1>6, LinkFacts DEF Ours
    <2> QED BY <1>1, <1>3, <1>4, <1>5, <1>6, <2>1, Theirs
  <1>7. CASE h = gui.helper
    <2>1. Awake(gui, helper'[h])
      BY <1>1, <1>2 DEF Awake
    <2>2. ASSUME Ours
          PROVE  conn'[gui.sock].peer = h /\ LinkRight(gui, conn'[gui.sock], helper'[h])
      <3> DEFINE k == conn[gui.sock]
                 n == conn'[gui.sock]
      <3>1. k \in ConnType /\ k.near /\ n = FarClosed(k) /\ k.peer = h
        BY <1>0, <1>1, <1>7, <2>2, LinkFacts DEF Ours
      <3>2. LinkRight(gui, k, helper[h])
        BY <1>7, <2>2 DEF OrdersInv, OursRight
      <3> HIDE DEF k, n
      <3>3. /\ ~n.far /\ n.peer = k.peer /\ n.stage = k.stage /\ n.toHelper = <<>>
            /\ n.toGui = k.toGui
        BY <3>1, FarClosedFields
      <3>4. Greeting(gui, k, helper[h]) => Greeting(gui, n, helper'[h])
        BY <1>1, <1>2, <3>3 DEF Greeting
      <3>5. Talking(gui, k, helper[h]) => Talking(gui, n, helper'[h])
        BY <3>3, NothingWritten DEF Talking
      <3>6. LinkRight(gui, n, helper'[h])
        BY <1>1, <1>2, <3>2, <3>3, <3>4, <3>5 DEF LinkRight
      <3> QED BY <3>1, <3>3, <3>6 DEF n
    <2>3. ~Ours => ~gui.acked
      BY <1>7 DEF OrdersInv, OursRight
    <2>4. FlagsRight(gui)
      BY DEF OrdersInv
    <2> QED BY <1>1, <1>2, <1>3, <1>4, <1>5, <1>7, <2>1, <2>2, <2>3, <2>4, Frame
  <1> QED BY <1>6, <1>7

LEMMA PromptRight ==
  ASSUME OrdersInv, LinkInv', NEW h \in Helpers, HelperStarts(h) \/ HelperNeverStarts(h)
  PROVE  OrdersInv'
  <1>0. /\ LinkInv /\ helper \in [Helpers -> HelperType] /\ helper[h].phase = "prompted"
        /\ UNCHANGED <<gui, conn>> /\ FlagsRight(gui)
    BY LinkFacts DEF OrdersInv, HelperStarts, HelperNeverStarts
  <1>1. /\ helper[h].session = "Disconnected"
        /\ \A c \in Conns : conn[c].peer = h => ~conn[c].far
    BY <1>0 DEF OrdersInv, SessionsRight, FarRight
  <1>2. /\ helper'[h].session = "Disconnected" /\ helper'[h].phase \in {"listening", "absent"}
        /\ \A i \in Helpers : i # h => helper'[i] = helper[i]
    BY <1>0, <1>1 DEF HelperStarts, HelperNeverStarts, HelperType, Absent
  <1>3. \A c \in Conns : Left(conn[c], conn'[c])
    BY <1>0, ClosedFields
  <1>4. SessionsRight'
    BY <1>2 DEF OrdersInv, SessionsRight
  <1>5. FarRight'
    BY <1>0, <1>2, <1>3, FarKept DEF OrdersInv
  <1>6. CASE h # gui.helper
    BY <1>0, <1>2, <1>3, <1>4, <1>5, <1>6, Theirs
  <1>7. CASE h = gui.helper
    <2>1. Awake(gui, helper'[h])
      BY <1>0, <1>7 DEF OrdersInv, OursRight, Awake
    <2>2. ASSUME Ours PROVE LinkRight(gui, conn[gui.sock], helper'[h])
      <3> DEFINE k == conn[gui.sock]
      <3>1. LinkRight(gui, k, helper[h]) /\ ~k.far
        BY <1>0, <1>1, <1>7, <2>2, LinkFacts DEF OrdersInv, OursRight, Ours
      <3> HIDE DEF k
      <3>2. Greeting(gui, k, helper[h]) => Greeting(gui, k, helper'[h])
        BY <1>2 DEF Greeting
      <3>3. Talking(gui, k, helper[h]) => Talking(gui, k, helper'[h])
        BY <3>1 DEF Talking
      <3>4. LinkRight(gui, k, helper'[h])
        BY <1>0, <1>2, <3>1, <3>2, <3>3 DEF LinkRight
      <3> QED BY <3>4 DEF k
    <2>3. ~Ours => ~gui.acked
      BY <1>7 DEF OrdersInv, OursRight
    <2>4. Ours => conn[gui.sock].peer = gui.helper
      BY DEF Ours
    <2> QED BY <1>0, <1>2, <1>3, <1>4, <1>5, <1>7, <2>1, <2>2, <2>3, <2>4, Frame
  <1> QED BY <1>6, <1>7

\* The helper h does something to its connection c; if it is the GUI's own, what it
\* leaves is right.
LEMMA HelperRight ==
  ASSUME OrdersInv, LinkInv', UNCHANGED gui, NEW c \in Conns, NEW h \in Helpers,
         conn[c].peer = h, conn[c].far, \A d \in Conns : Left(conn[d], conn'[d]),
         \A d \in Conns : d # c /\ conn[d].peer # h => conn'[d] = conn[d],
         \A i \in Helpers : i # h => helper'[i] = helper[i],
         helper'[h].phase = helper[h].phase, helper'[h].session # "Disconnecting",
         h = gui.helper /\ gui.sock = c /\ LinkRight(gui, conn[c], helper[h])
             => conn'[c].peer = h /\ LinkRight(gui, conn'[c], helper'[h])
  PROVE  OrdersInv'
  <1>1. helper[h].phase = "listening"
    BY DEF OrdersInv, FarRight
  <1>2. SessionsRight'
    BY <1>1 DEF OrdersInv, SessionsRight
  <1>3. FarRight'
    BY <1>1, FarKept DEF OrdersInv
  <1>4. CASE h # gui.helper
    <2>1. Ours => conn'[gui.sock] = conn[gui.sock]
      BY <1>4, LinkFacts DEF Ours, OrdersInv
    <2> QED BY <1>2, <1>3, <1>4, <2>1, Theirs
  <1>5. CASE h = gui.helper
    <2>1. gui.sock = c /\ Ours /\ OursRight
      BY <1>5, SlotsAssumption DEF OrdersInv, OursRight, Ours, Up
    <2>2. Awake(gui, helper'[h])
      BY <1>5, <2>1 DEF OursRight, Awake
    <2>3. LinkRight(gui, conn'[c], helper'[h]) /\ conn'[c].peer = h
      BY <1>5, <2>1 DEF OursRight
    <2>4. FlagsRight(gui)
      BY DEF OrdersInv
    <2> QED BY <1>2, <1>3, <1>5, <2>1, <2>2, <2>3, <2>4, Frame
  <1> QED BY <1>4, <1>5

LEMMA OneChanges ==
  ASSUME LinkInv, NEW c \in Conns, NEW k, conn' = [conn EXCEPT ![c] = k], Left(conn[c], k)
  PROVE  /\ conn'[c] = k /\ \A d \in Conns : d # c => conn'[d] = conn[d]
         /\ \A d \in Conns : Left(conn[d], conn'[d])
  <1>1. conn'[c] = k /\ \A d \in Conns : d # c => conn'[d] = conn[d]
    BY DEF LinkInv
  <1> QED BY <1>1, ClosedFields

LEMMA DeliversFacts ==
  ASSUME OrdersInv, NEW c \in Conns, NEW h \in Helpers, NEW kind, Delivers(c, h, kind)
  PROVE  /\ conn[c].peer = h /\ conn[c].far /\ conn[c] \in ConnType /\ conn[c].toHelper # <<>>
         /\ Head(conn[c].toHelper).kind = kind /\ (gui.sock = c => conn[c].near)
         /\ helper[h] \in HelperType /\ helper[h].session # "Disconnecting"
         /\ helper \in [Helpers -> HelperType]
         /\ gui \in GuiType
  BY LinkFacts DEF OrdersInv, Delivers, SessionsRight

LEMMA GreetedRight ==
  ASSUME OrdersInv, LinkInv', NEW c \in Conns, NEW h \in Helpers,
         HelloRead(c, h) \/ AuthRead(c, h)
  PROVE  OrdersInv'
  <1> DEFINE k == conn[c]
             f == FarClosed(k)
  <1>0. UNCHANGED <<gui, helper>> /\ (Delivers(c, h, "hello") \/ Delivers(c, h, "auth"))
    BY DEF HelloRead, AuthRead
  <1>1. /\ conn[c].peer = h /\ conn[c].far /\ conn[c] \in ConnType /\ conn[c].toHelper # <<>>
        /\ (gui.sock = c => conn[c].near) /\ helper[h].session # "Disconnecting"
        /\ helper \in [Helpers -> HelperType]
    BY <1>0, DeliversFacts
  <1>2. LinkInv
    BY DEF OrdersInv
  <1>3. Left(k, f)
    BY <1>1, FarClosedFields
  \* The connection dropped: not one over which the handshake goes on.
  <1>4. ASSUME conn' = [conn EXCEPT ![c] = f],
               ~(h = gui.helper /\ gui.sock = c /\ LinkRight(gui, conn[c], helper[h]))
        PROVE  OrdersInv'
    <2>1. /\ \A d \in Conns : d # c => conn'[d] = conn[d]
          /\ \A d \in Conns : Left(conn[d], conn'[d])
      BY <1>2, <1>3, <1>4, OneChanges
    <2> QED BY <1>0, <1>1, <1>4, <2>1, HelperRight
  <1>5. CASE HelloRead(c, h)
    <2>1. Head(k.toHelper).kind = "hello"
      BY <1>5 DEF HelloRead, Delivers
    <2>2. CASE k.stage = "fresh"
      <3> DEFINE es == <<Challenge(h)>>
                 n == [Taken(c, es) EXCEPT !.stage = "challenged"]
      <3>1. conn' = [conn EXCEPT ![c] = n]
        BY <1>5, <2>2 DEF HelloRead, Challenge
      <3>0. n = [Taken(c, es) EXCEPT !.stage = "challenged"]
        OBVIOUS
      <3> HIDE DEF n
      <3>2. /\ Left(k, n) /\ n.peer = k.peer /\ n.far = k.far /\ n.stage = "challenged"
            /\ n.toHelper = Tail(k.toHelper) /\ (k.near => n.toGui = k.toGui \o es)
        <4>1. \A s : LET u == [Taken(c, es) EXCEPT !.stage = s]
                     IN  /\ Left(k, u) /\ u.peer = k.peer /\ u.far = k.far
                         /\ u.stage = s /\ u.toHelper = Tail(k.toHelper)
                         /\ k.near => u.toGui = k.toGui \o es
          BY <1>1, TakenFields
        <4> HIDE DEF k, es
        <4> QED BY <3>0, <4>1
      <3>3. <<>> \o es = <<Challenge(h)>>
        OBVIOUS
      <3>4. ASSUME h = gui.helper, gui.sock = c, LinkRight(gui, k, helper[h])
            PROVE  n.peer = h /\ LinkRight(gui, n, helper[h])
        <4>1. /\ ~gui.acked /\ ~gui.proven /\ helper[h].session = "Disconnected"
              /\ k.toGui = <<>> /\ Tail(k.toHelper) = <<>>
          BY <1>1, <2>1, <3>4, HelperReadsKinds
        <4>2. n.toGui = <<Challenge(gui.helper)>> /\ n.toHelper = <<>>
          BY <1>1, <3>2, <3>3, <3>4, <4>1
        <4>3. Greeting(gui, n, helper[h])
          BY <3>2, <4>1, <4>2 DEF Greeting
        <4> QED BY <1>1, <3>2, <4>1, <4>2, <4>3 DEF LinkRight
      <3>5. /\ conn'[c] = n /\ \A d \in Conns : d # c => conn'[d] = conn[d]
            /\ \A d \in Conns : Left(conn[d], conn'[d])
        BY <1>2, <3>1, <3>2, OneChanges
      <3> QED BY <1>0, <1>1, <3>4, <3>5, HelperRight
    <2>3. CASE k.stage # "fresh"
      <3>1. conn' = [conn EXCEPT ![c] = f]
        BY <1>5, <2>3 DEF HelloRead
      <3>2. ~(h = gui.helper /\ gui.sock = c /\ LinkRight(gui, conn[c], helper[h]))
        BY <1>1, <2>1, <2>3, HelperReadsKinds
      <3> QED BY <1>4, <3>1, <3>2
    <2> QED BY <2>2, <2>3
  <1>6. CASE AuthRead(c, h)
    <2>1. Head(k.toHelper).kind = "auth"
      BY <1>6 DEF AuthRead, Delivers
    <2>2. CASE k.stage = "challenged" /\ Head(k.toHelper).token = h
      <3> DEFINE es == <<Ready>>
                 n == [Taken(c, es) EXCEPT !.stage = "serving"]
      <3>1. \A d \in Conns : conn'[d] = IF d = c THEN n
                                       ELSE IF conn[d].peer = h /\ conn[d].far
                                            THEN FarClosed(conn[d]) ELSE conn[d]
        BY <1>6, <2>2 DEF AuthRead, Ready
      <3>0. n = [Taken(c, es) EXCEPT !.stage = "serving"]
        OBVIOUS
      <3> HIDE DEF n
      <3>2. /\ Left(k, n) /\ n.peer = k.peer /\ n.far = k.far /\ n.stage = "serving"
            /\ n.toHelper = Tail(k.toHelper) /\ (k.near => n.toGui = k.toGui \o es)
        <4>1. \A s : LET u == [Taken(c, es) EXCEPT !.stage = s]
                     IN  /\ Left(k, u) /\ u.peer = k.peer /\ u.far = k.far
                         /\ u.stage = s /\ u.toHelper = Tail(k.toHelper)
                         /\ k.near => u.toGui = k.toGui \o es
          BY <1>1, TakenFields
        <4> HIDE DEF k, es
        <4> QED BY <3>0, <4>1
      <3>3. <<>> \o es = <<Ready>>
        OBVIOUS
      <3>4. ASSUME h = gui.helper, gui.sock = c, LinkRight(gui, k, helper[h])
            PROVE  n.peer = h /\ LinkRight(gui, n, helper[h])
        <4>1. /\ ~gui.acked /\ gui.proven /\ helper[h].session = "Disconnected"
              /\ k.toGui = <<>> /\ Tail(k.toHelper) = <<>>
          BY <1>1, <2>1, <3>4, HelperReadsKinds
        <4>2. n.toGui = <<Ready>> /\ n.toHelper = <<>>
          BY <1>1, <3>2, <3>3, <3>4, <4>1
        <4>3. Greeting(gui, n, helper[h])
          BY <3>2, <4>1, <4>2 DEF Greeting
        <4> QED BY <1>1, <3>2, <4>1, <4>2, <4>3 DEF LinkRight
      <3>5. \A d \in Conns : Left(conn[d], conn'[d])
        BY <3>1, <3>2, LinkFacts, FarClosedFields, ClosedFields DEF OrdersInv
      <3>6. /\ conn'[c] = n
            /\ \A d \in Conns : d # c /\ conn[d].peer # h => conn'[d] = conn[d]
        BY <3>1
      <3> QED BY <1>0, <1>1, <3>2, <3>4, <3>5, <3>6, HelperRight
    <2>3. CASE ~(k.stage = "challenged" /\ Head(k.toHelper).token = h)
      <3>1. conn' = [conn EXCEPT ![c] = f]
        BY <1>6, <2>3 DEF AuthRead
      <3>2. ~(h = gui.helper /\ gui.sock = c /\ LinkRight(gui, conn[c], helper[h]))
        BY <1>1, <2>1, <2>3, HelperReadsKinds
      <3> QED BY <1>4, <3>1, <3>2
    <2> QED BY <2>2, <2>3
  <1> QED BY <1>5, <1>6

\* The helper serves a command of the user's, says es of it and becomes r.
LEMMA ServesRight ==
  ASSUME OrdersInv, LinkInv', UNCHANGED gui, NEW c \in Conns, NEW h \in Helpers,
         NEW kind \in {"settings", "connect", "disconnect"}, Delivers(c, h, kind),
         NEW es \in Seq(NewsSet), conn' = [conn EXCEPT ![c] = Taken(c, es)],
         NEW r, helper' = [helper EXCEPT ![h] = r],
         r.phase = helper[h].phase, r.session # "Disconnecting",
         \A q \in Seq(UserCommands), e \in Seq(NewsSet) :
             q # <<>> /\ Head(q) = Head(conn[c].toHelper) /\ Exchange(gui, q, e, helper[h])
                /\ (kind = "settings" => Head(q) \in SettingsSet)
                /\ (kind = "connect" => Head(q) = ConnectCommand)
                /\ (kind = "disconnect" => Head(q) = DisconnectCommand)
                 => Exchange(gui, Tail(q), e \o es, r)
  PROVE  OrdersInv'
  <1> DEFINE k == conn[c]
             n == Taken(c, es)
  <1>0. n = Taken(c, es)
    OBVIOUS
  <1> HIDE DEF n
  <1>1. /\ conn[c].peer = h /\ conn[c].far /\ conn[c] \in ConnType /\ conn[c].toHelper # <<>>
        /\ Head(conn[c].toHelper).kind = kind /\ (gui.sock = c => conn[c].near)
    BY DeliversFacts
  <1>2. /\ Left(k, n) /\ n.peer = k.peer /\ n.far = k.far /\ n.stage = k.stage
        /\ n.toHelper = Tail(k.toHelper) /\ (k.near => n.toGui = k.toGui \o es)
    BY <1>1, <1>0, TakenFields
  <1>3. ASSUME h = gui.helper, gui.sock = c, LinkRight(gui, k, helper[h])
        PROVE  n.peer = h /\ LinkRight(gui, n, r)
    <2>1. /\ Talking(gui, k, helper[h])
          /\ kind = "settings" => Head(k.toHelper) \in SettingsSet
          /\ kind = "connect" => Head(k.toHelper) = ConnectCommand
          /\ kind = "disconnect" => Head(k.toHelper) = DisconnectCommand
      BY <1>1, <1>3, HelperReadsKinds
    <2>2. /\ k.toHelper \in Seq(UserCommands) /\ k.toGui \in Seq(NewsSet) /\ gui.acked
          /\ Exchange(gui, k.toHelper, k.toGui, helper[h]) /\ k.stage = "serving"
      BY <1>1, <2>1 DEF Talking
    <2>3. Exchange(gui, Tail(k.toHelper), k.toGui \o es, r)
      BY <1>1, <2>1, <2>2
    <2>4. Tail(k.toHelper) \in Seq(UserCommands) /\ k.toGui \o es \in Seq(NewsSet)
      BY <1>1, <2>2, HeadTail, Written
    <2>5. n.toHelper = Tail(k.toHelper) /\ n.toGui = k.toGui \o es
      BY <1>1, <1>2, <1>3
    <2>6. Talking(gui, n, r)
      BY <1>2, <2>2, <2>3, <2>4, <2>5 DEF Talking
    <2> QED BY <1>1, <1>2, <2>2, <2>6 DEF LinkRight
  <1>4. conn' = [conn EXCEPT ![c] = n]
    BY <1>0
  <1>5. /\ conn'[c] = n /\ \A d \in Conns : d # c => conn'[d] = conn[d]
        /\ \A d \in Conns : Left(conn[d], conn'[d])
    BY <1>2, <1>4, OneChanges DEF OrdersInv
  <1>6. helper'[h] = r /\ \A i \in Helpers : i # h => helper'[i] = helper[i]
    BY DeliversFacts
  <1> QED BY <1>1, <1>3, <1>5, <1>6, HelperRight

LEMMA ServedRight ==
  ASSUME OrdersInv, LinkInv', NEW c \in Conns, NEW h \in Helpers,
         SettingsRead(c, h) \/ ConnectRead(c, h) \/ ConnectRefused(c, h) \/ DisconnectRead(c, h)
  PROVE  OrdersInv'
  <1> DEFINE p == helper[h]
  <1>0. UNCHANGED gui
    BY DEF SettingsRead, ConnectRead, ConnectRefused, DisconnectRead
  <1>1. /\ p \in HelperType /\ p.session # "Disconnecting" /\ helper \in [Helpers -> HelperType]
        /\ gui \in GuiType /\ p.session \in States /\ gui.settings \in Settings
        /\ gui.builtWith \in Settings \cup {NoSettings}
    BY LinkFacts DEF OrdersInv, SessionsRight, HelperType, GuiType
  <1>2. CASE SettingsRead(c, h)
    <2> DEFINE v == Head(conn[c].toHelper).value
               r == [p EXCEPT !.settings = v]
               none == <<>>
    <2>1. /\ Delivers(c, h, "settings") /\ helper' = [helper EXCEPT ![h] = r]
          /\ conn' = [conn EXCEPT ![c] = Taken(c, none)]
      BY <1>1, <1>2 DEF SettingsRead
    <2>2. none \in Seq(NewsSet) /\ \A e \in Seq(NewsSet) : e \o none = e
      BY NothingWritten
    <2>3. r.session = p.session /\ r.built = p.built /\ r.settings = v /\ r.phase = p.phase
      BY <1>1 DEF HelperType
    <2> HIDE DEF r, none
    <2>4. ASSUME NEW q \in Seq(UserCommands), NEW e \in Seq(NewsSet), q # <<>>,
                 Head(q) = Head(conn[c].toHelper), Exchange(gui, q, e, p), Head(q) \in SettingsSet
          PROVE  Exchange(gui, Tail(q), e \o none, r)
      BY <1>1, <2>2, <2>3, <2>4, SettingsServed
    <2>5. \A q \in Seq(UserCommands), e \in Seq(NewsSet) :
              q # <<>> /\ Head(q) = Head(conn[c].toHelper) /\ Exchange(gui, q, e, helper[h])
                 /\ Head(q) \in SettingsSet
                  => Exchange(gui, Tail(q), e \o none, r)
      BY <2>4
    <2>6. r.phase = helper[h].phase /\ r.session # "Disconnecting" /\ none \in Seq(NewsSet)
      BY <1>1, <2>2, <2>3
    <2> HIDE DEF p, v
    <2> QED BY <1>0, <2>1, <2>5, <2>6, ServesRight
  <1>3. CASE ConnectRead(c, h)
    <2> DEFINE es == (Halted(p.session) \o Changed(HaltedAt(p.session), "Disconnected"))
                         \o <<Reported("Connecting")>>
               r == [p EXCEPT !.session = "Connecting", !.built = p.settings]
    <2>1. /\ Delivers(c, h, "connect") /\ conn' = [conn EXCEPT ![c] = Taken(c, es)]
          /\ helper' = [helper EXCEPT ![h].session = "Connecting", ![h].built = p.settings]
      BY <1>3 DEF ConnectRead
    <2>2. helper' = [helper EXCEPT ![h] = r]
      BY <1>1, <2>1
    <2>3. /\ r.session = "Connecting" /\ r.built = p.settings /\ r.settings = p.settings
          /\ r.phase = p.phase
      BY <1>1 DEF HelperType
    <2>4. /\ es \in Seq(NewsSet) /\ Leads(es, p.session, "Connecting")
          /\ ~AtRest(p.session) => Stirs(es, gui.state)
      BY <1>1, ConnectReports
    <2> HIDE DEF r, es
    <2>5. ASSUME NEW q \in Seq(UserCommands), NEW e \in Seq(NewsSet), q # <<>>,
                 Exchange(gui, q, e, p), Head(q) = ConnectCommand
          PROVE  Exchange(gui, Tail(q), e \o es, r)
      BY <1>1, <2>3, <2>4, <2>5, ConnectServed
    <2> QED BY <1>0, <2>1, <2>2, <2>3, <2>4, <2>5, ServesRight
  <1>4. CASE ConnectRefused(c, h)
    <2>1. PICK t \in {"Error", "Disconnected"} :
             /\ helper' = [helper EXCEPT ![h].session = t]
             /\ conn' = [conn EXCEPT ![c] = Taken(c,
                    (Halted(p.session) \o Changed(HaltedAt(p.session), t)) \o <<[kind |-> "error"]>>)]
      BY <1>4 DEF ConnectRefused
    <2> DEFINE es == (Halted(p.session) \o Changed(HaltedAt(p.session), t)) \o <<ErrorEvent>>
               r == [p EXCEPT !.session = t]
    <2>2. /\ helper' = [helper EXCEPT ![h] = r] /\ Delivers(c, h, "connect")
          /\ conn' = [conn EXCEPT ![c] = Taken(c, es)]
      BY <1>1, <1>4, <2>1 DEF ConnectRefused, ErrorEvent
    <2>3. r.session = t /\ r.built = p.built /\ r.settings = p.settings /\ r.phase = p.phase
      BY <1>1 DEF HelperType
    <2>4. t \in States /\ AtRest(t) /\ t # "Disconnecting"
      BY DEF States, AtRest
    <2>5. es \in Seq(NewsSet) /\ Leads(es, p.session, t) /\ Has(es, {ErrorEvent})
      BY <1>1, <2>4, RefusalReports
    <2> HIDE DEF r, es
    <2>6. ASSUME NEW q \in Seq(UserCommands), NEW e \in Seq(NewsSet), q # <<>>,
                 Exchange(gui, q, e, p), Head(q) = ConnectCommand
          PROVE  Exchange(gui, Tail(q), e \o es, r)
      BY <1>1, <2>3, <2>4, <2>5, <2>6, ConnectTurnedDown
    <2> QED BY <1>0, <2>2, <2>3, <2>4, <2>5, <2>6, ServesRight
  <1>5. CASE DisconnectRead(c, h)
    <2> DEFINE r == [p EXCEPT !.session = "Disconnected"]
    <2>1. /\ helper' = [helper EXCEPT ![h] = r] /\ Delivers(c, h, "disconnect")
          /\ conn' = [conn EXCEPT ![c] = Taken(c, Stopped)]
      BY <1>1, <1>5 DEF DisconnectRead
    <2>2. r.session = "Disconnected" /\ r.settings = p.settings /\ r.phase = p.phase
      BY <1>1 DEF HelperType
    <2>3. Stopped \in Seq(NewsSet)
      BY LeadsStopped
    <2> HIDE DEF r
    <2>4. ASSUME NEW q \in Seq(UserCommands), NEW e \in Seq(NewsSet), q # <<>>,
                 Exchange(gui, q, e, p), Head(q) = DisconnectCommand
          PROVE  Exchange(gui, Tail(q), e \o Stopped, r)
      BY <1>1, <2>2, <2>4, DisconnectServed
    <2> QED BY <1>0, <2>1, <2>2, <2>3, <2>4, ServesRight
  <1> QED BY <1>2, <1>3, <1>4, <1>5

LEMMA MovesRight ==
  ASSUME OrdersInv, LinkInv', NEW h \in Helpers, SessionMoves(h) PROVE OrdersInv'
  <1> DEFINE p == helper[h]
  <1>1. PICK t \in {"Connecting", "Connected", "Error"} :
           helper' = [helper EXCEPT ![h].session = t] /\ HelperReports(h, <<Reported(t)>>)
    BY DEF SessionMoves
  <1>2. PICK c \in Served(h) : TRUE
    BY DEF SessionMoves
  <1>3. /\ UNCHANGED gui /\ ~AtRest(p.session) /\ p \in HelperType /\ LinkInv /\ OrdersInv
        /\ helper \in [Helpers -> HelperType] /\ c \in Conns /\ conn[c].peer = h
        /\ conn[c].stage = "serving" /\ t \in States /\ t # "Disconnecting"
    BY LinkFacts DEF SessionMoves, OrdersInv, Served, States
  <1> DEFINE es == <<Reported(t)>>
             r == [p EXCEPT !.session = t]
  <1>4. /\ r.session = t /\ r.built = p.built /\ r.settings = p.settings /\ r.phase = p.phase
        /\ helper'[h] = r /\ \A i \in Helpers : i # h => helper'[i] = helper[i]
    BY <1>1, <1>3 DEF HelperType
  <1> HIDE DEF r
  <1>5. \A d \in Conns : conn'[d] = IF d \in Served(h) THEN Report(conn[d], es) ELSE conn[d]
    BY <1>1 DEF HelperReports
  <1>6. es \in Seq(NewsSet)
    BY <1>3, LeadsOne
  <1>7. p.phase = "listening"
    BY <1>3 DEF OrdersInv, SessionsRight, AtRest
  <1> HIDE DEF es
  <1>8. \A d \in Conns : Left(conn[d], conn'[d])
    BY <1>3, <1>5, LinkFacts, ReportFields, ClosedFields
  <1>9. SessionsRight'
    BY <1>3, <1>4, <1>7 DEF OrdersInv, SessionsRight
  <1>10. FarRight'
    BY <1>3, <1>4, <1>7, <1>8, FarKept DEF OrdersInv
  <1>11. CASE h # gui.helper
    <2>1. Ours => conn'[gui.sock] = conn[gui.sock]
      BY <1>3, <1>5, <1>11, LinkFacts DEF Ours, Served
    <2> QED BY <1>3, <1>4, <1>8, <1>9, <1>10, <1>11, <2>1, Theirs
  <1>12. CASE h = gui.helper
    <2> DEFINE k == conn[c]
               n == conn'[c]
    <2>1. gui.sock = c /\ Ours /\ OursRight /\ k \in ConnType /\ k.near
      BY <1>3, <1>12, LinkFacts, SlotsAssumption DEF OrdersInv, OursRight, Ours, Up
    <2>2. LinkRight(gui, k, p)
      BY <1>12, <2>1 DEF OursRight
    <2>3. n = Report(k, es)
      BY <1>2, <1>3, <1>5
    <2> HIDE DEF k, n
    <2>4. /\ n.peer = k.peer /\ n.far = k.far /\ n.stage = k.stage
          /\ n.toHelper = k.toHelper /\ n.toGui = k.toGui \o es
      BY <2>1, <2>3, ReportFields
    <2>5. Talking(gui, k, p)
      BY <1>3, <2>2 DEF LinkRight, Greeting, AtRest
    <2>6. k.far /\ Exchange(gui, k.toHelper, k.toGui, p)
      BY <1>7, <2>2, <2>5 DEF LinkRight, Talking
    <2>7. k.toGui \in Seq(NewsSet)
      BY <2>5 DEF Talking
    <2>8. Exchange(gui, k.toHelper, k.toGui \o es, r)
      BY <1>3, <1>4, <2>6, <2>7, SessionMoved DEF es
    <2>9. k.toGui \o es \in Seq(NewsSet)
      BY <1>6, <2>7, Written
    <2>10. Talking(gui, n, r)
      BY <2>4, <2>5, <2>8, <2>9 DEF Talking
    <2>11. LinkRight(gui, n, r)
      BY <2>4, <2>5, <2>6, <2>10 DEF LinkRight, Talking
    <2>12. Awake(gui, r) /\ FlagsRight(gui) /\ n.peer = gui.helper
      BY <1>3, <1>4, <1>12, <2>1, <2>4 DEF OrdersInv, OursRight, Awake, k
    <2> QED BY <1>3, <1>4, <1>8, <1>9, <1>10, <1>12, <2>1, <2>11, <2>12, Frame DEF n
  <1> QED BY <1>11, <1>12

LEMMA WireRight ==
  ASSUME OrdersInv, LinkInv', NEW c \in Conns, Wire(c) PROVE OrdersInv'
  <1> DEFINE k == conn[c]
             f == FarClosed(k)
  <1>0. LinkInv /\ FarRight /\ SessionsRight /\ k \in ConnType
    BY LinkFacts DEF OrdersInv
  <1>1. ASSUME UNCHANGED helper PROVE SessionsRight'
    BY <1>0, <1>1 DEF SessionsRight
  \* A connection that is not the GUI's to its helper.
  <1>2. ASSUME NEW n, conn' = [conn EXCEPT ![c] = n], Left(k, n), UNCHANGED <<gui, helper>>,
               gui.helper \in Helpers => k.peer # gui.helper
        PROVE  OrdersInv'
    <2>1. /\ conn'[c] = n /\ \A d \in Conns : d # c => conn'[d] = conn[d]
          /\ \A d \in Conns : Left(conn[d], conn'[d])
      BY <1>0, <1>2, OneChanges
    <2>2. FarRight'
      BY <1>0, <1>2, <2>1, FarKept
    <2>3. Ours => conn'[gui.sock] = conn[gui.sock]
      BY <1>0, <1>2, <2>1, LinkFacts DEF Ours
    <2> QED BY <1>1, <1>2, <2>1, <2>2, <2>3, Theirs
  <1>3. Left(k, f) /\ Left(k, Closed)
    BY <1>0, FarClosedFields, ClosedFields
  <1>4. CASE PendingDropped(c)
    <2>1. /\ conn' = [conn EXCEPT ![c] = f] /\ UNCHANGED <<gui, helper>>
          /\ k.stage # "serving"
      BY <1>4 DEF PendingDropped
    <2>2. CASE k.peer # gui.helper
      BY <1>2, <1>3, <2>1, <2>2
    <2>3. CASE k.peer = gui.helper /\ gui.helper \notin Helpers
      BY <1>2, <1>3, <2>1, <2>3
    <2>4. CASE k.peer = gui.helper /\ gui.helper \in Helpers
      <3> DEFINE r == helper[gui.helper]
      <3>1. gui.sock = c /\ OursRight /\ Ours /\ k.near
        BY <1>0, <2>4, LinkFacts, SlotsAssumption DEF OrdersInv, OursRight, Ours, Up
      <3>2. LinkRight(gui, k, r) /\ Awake(gui, r) /\ FlagsRight(gui)
        BY <3>1 DEF OursRight, OrdersInv
      <3>3. /\ conn'[c] = f /\ \A d \in Conns : d # c => conn'[d] = conn[d]
            /\ \A d \in Conns : Left(conn[d], conn'[d])
        BY <1>0, <1>3, <2>1, OneChanges
      <3>4. /\ ~f.far /\ f.peer = k.peer /\ f.stage = k.stage
            /\ f.toHelper = <<>> /\ f.toGui = k.toGui
        BY <1>0, <3>1, FarClosedFields
      <3> HIDE DEF k, f, r
      <3>5. Greeting(gui, k, r)
        BY <2>1, <3>2 DEF LinkRight, Talking
      <3>6. Greeting(gui, f, r)
        BY <3>4, <3>5 DEF Greeting
      <3>7. LinkRight(gui, f, r)
        BY <2>1, <3>2, <3>4, <3>6 DEF LinkRight
      <3>8. FarRight'
        BY <1>0, <2>1, <3>3, FarKept
      <3> QED BY <1>1, <2>1, <2>4, <3>1, <3>2, <3>3, <3>4, <3>7, <3>8, Frame DEF r
    <2> QED BY <2>2, <2>3, <2>4
  <1>5. CASE StrangerCloses(c) \/ StrangerAnswers(c)
    <2>1. k.peer = Stranger /\ UNCHANGED <<gui, helper>>
      BY <1>5 DEF StrangerCloses, StrangerAnswers
    <2>2. gui.helper \in Helpers => k.peer # gui.helper
      BY <2>1, SlotsAssumption
    <2>3. CASE StrangerCloses(c)
      BY <1>2, <1>3, <2>1, <2>2, <2>3 DEF StrangerCloses
    <2>4. CASE StrangerAnswers(c)
      <3>1. PICK e : conn' = [conn EXCEPT ![c] = Taken(c, <<e>>)]
        BY <2>4 DEF StrangerAnswers
      <3>2. Left(k, Taken(c, <<e>>))
        BY <1>0, TakenFields
      <3> QED BY <1>2, <2>1, <2>2, <3>1, <3>2
    <2> QED BY <1>5, <2>3, <2>4
  <1>6. CASE GuiGone(c)
    <2>1. k.peer \in Helpers /\ ~k.near /\ UNCHANGED gui
      BY <1>6 DEF GuiGone
    <2>2. CASE HelperEnds(k.peer)
      BY <2>1, <2>2, EndsRight
    <2>3. CASE conn' = [conn EXCEPT ![c] = Closed] /\ UNCHANGED helper
      <3>1. gui.helper \in Helpers => k.peer # gui.helper
        BY <1>0, <2>1, LinkFacts DEF OrdersInv, OursRight
      <3> QED BY <1>2, <1>3, <2>1, <2>3, <3>1
    <2> QED BY <1>6, <2>2, <2>3 DEF GuiGone
  <1> QED BY <1>4, <1>5, <1>6 DEF Wire

(***************************************************************************)
(* The invariant, and what follows from it.                                *)
(***************************************************************************)
LEMMA OrdersInit == Init => OrdersInv
  <1> SUFFICES ASSUME Init PROVE OrdersInv
    OBVIOUS
  <1>1. FlagsRight(gui) /\ gui.helper = NoHelper
    BY DEF Init, FlagsRight
  <1>2. \A h \in Helpers : helper[h] = Absent
    BY DEF Init
  <1>3. \A c \in Conns : conn[c] = Closed
    BY DEF Init
  <1>4. SessionsRight /\ FarRight
    BY <1>2, <1>3, ClosedFields DEF SessionsRight, FarRight, Absent
  <1> QED BY <1>1, <1>4, LinkInit, SlotsAssumption DEF OrdersInv

LEMMA OrdersStep == OrdersInv /\ [Next]_vars => OrdersInv'
  <1> SUFFICES ASSUME OrdersInv, [Next]_vars PROVE OrdersInv'
    OBVIOUS
  <1>0. LinkInv'
    BY LinkStep DEF OrdersInv
  <1>1. CASE UNCHANGED vars
    <2>1. UNCHANGED <<gui, conn, helper>>
      BY <1>1 DEF vars
    <2> QED BY <2>1 DEF OrdersInv, LinkInv, SessionsRight, FarRight, OursRight, Ours, Up
  <1>2. CASE User \/ Gui
    BY <1>0, <1>2, UserRight, GuiRight
  <1>3. ASSUME NEW h \in Helpers, Process(h) PROVE OrdersInv'
    BY <1>0, <1>3, PromptRight, EndsRight, MovesRight DEF Process, UnauthenticatedExit, HelperDies
  <1>4. ASSUME NEW h \in Helpers, NEW c \in Conns, Reading(c, h) PROVE OrdersInv'
    <2>1. CASE QuitRead(c, h)
      BY <1>0, <2>1, EndsRight DEF QuitRead
    <2> QED BY <1>0, <1>4, <2>1, GreetedRight, ServedRight DEF Reading
  <1>5. ASSUME NEW c \in Conns, Wire(c) PROVE OrdersInv'
    BY <1>0, <1>5, WireRight
  <1> QED BY <1>1, <1>2, <1>3, <1>4, <1>5 DEF Next

LEMMA OrdersInvariant == Spec => []OrdersInv
  BY OrdersInit, OrdersStep, PTL DEF Spec

\* An authenticated GUI: the session is at rest, or its helper is there and the
\* two are in the middle of their exchange.
LEMMA InTheMiddle ==
  ASSUME OrdersInv, gui.acked
  PROVE  LET k == conn[gui.sock]
         IN  /\ Up /\ gui.sock \in Conns /\ k.peer = gui.helper /\ Serving = helper[gui.helper]
             /\ Serving.session \in States /\ Serving.session # "Disconnecting"
             /\ Talking(gui, k, Serving)
             /\ ~k.far => k.toHelper = <<>> /\ Serving.session = "Disconnected"
  <1> DEFINE k == conn[gui.sock]
  <1>1. /\ Up /\ Ours /\ gui.sock \in Conns /\ gui.helper \in Helpers
        /\ k.peer = gui.helper /\ Serving = helper[gui.helper]
        /\ helper \in [Helpers -> HelperType]
    BY LinkFacts DEF OrdersInv, Ours, Serving
  <1>2. LinkRight(gui, k, Serving)
    BY <1>1 DEF OrdersInv, OursRight
  <1>3. Serving.session \in States /\ Serving.session # "Disconnecting"
    BY <1>1 DEF OrdersInv, SessionsRight, HelperType
  <1>4. Serving.phase # "listening" => Serving.session = "Disconnected"
    BY <1>1 DEF OrdersInv, SessionsRight
  <1> HIDE DEF k
  <1>5. Talking(gui, k, Serving)
    BY <1>2 DEF LinkRight, Greeting
  <1>6. ~k.far => k.toHelper = <<>> /\ Serving.session = "Disconnected"
    BY <1>2, <1>4, <1>5 DEF LinkRight, Talking
  <1> QED BY <1>1, <1>3, <1>5, <1>6 DEF k

\* Orders are what the queue of an authenticated GUI holds of them.
LEMMA OrdersHeld ==
  ASSUME OrdersInv
  PROVE  /\ ~gui.acked => Orders = {}
         /\ gui.acked => /\ Ordering \in Seq(UserCommands)
                         /\ Orders = {i \in DOMAIN Ordering : Ordering[i] \in OrderSet}
                         /\ Orders = {} <=> ~Has(Ordering, OrderSet)
  <1>1. ASSUME ~gui.acked PROVE Orders = {}
    <2> SUFFICES ASSUME Up PROVE \A i \in DOMAIN Ordering :
                                     Ordering[i].kind \notin {"connect", "disconnect"}
      BY DEF Orders
    <2> DEFINE k == conn[gui.sock]
    <2>1. /\ gui.sock \in Conns /\ k.near /\ gui.helper \in Helpers /\ Sound(k, gui.helper)
      BY LinkFacts DEF OrdersInv, LinkInv
    <2>2. CASE k.toHelper \in Seq(Greetings)
      <3>1. \A i \in DOMAIN k.toHelper : k.toHelper[i] \in Greetings
        BY <2>2
      <3> QED BY <3>1 DEF Greetings, Ordering
    <2>3. CASE k.toHelper \notin Seq(Greetings)
      <3>1. k.peer = gui.helper
        BY <2>1, <2>3 DEF Sound
      <3>2. LinkRight(gui, k, helper[gui.helper])
        BY <2>1, <3>1 DEF OrdersInv, OursRight, Ours
      <3> HIDE DEF k
      <3>3. k.toHelper \in {<<Hello>>, <<Auth(gui.helper)>>, <<>>}
        BY <1>1, <3>2 DEF LinkRight, Greeting, Talking
      <3>4. /\ Hello \in Greetings /\ Auth(gui.helper) \in Greetings
        BY <2>1, CommandTypes DEF Hello, Auth
      <3>5. k.toHelper \in Seq(Greetings)
        <4>1. <<Hello>> \in Seq(Greetings) /\ <<Auth(gui.helper)>> \in Seq(Greetings)
          BY <3>4
        <4> QED BY <3>3, <4>1, NothingWritten
      <3> QED BY <2>3, <3>5
    <2> QED BY <2>2, <2>3
  <1>2. ASSUME gui.acked
        PROVE  /\ Ordering \in Seq(UserCommands)
               /\ Orders = {i \in DOMAIN Ordering : Ordering[i] \in OrderSet}
               /\ Orders = {} <=> ~Has(Ordering, OrderSet)
    <2>1. Up /\ Ordering \in Seq(UserCommands)
      BY <1>2, InTheMiddle DEF Talking, Ordering
    <2>2. Orders = {i \in DOMAIN Ordering : Ordering[i].kind \in {"connect", "disconnect"}}
      BY <2>1 DEF Orders
    <2> DEFINE q == Ordering
    <2> HIDE DEF q
    <2>3. \A m \in UserCommands : m.kind \in {"connect", "disconnect"} <=> m \in OrderSet
      BY DEF UserCommands, OrderSet, SettingsSet
    <2>4. \A i \in DOMAIN q : q[i] \in UserCommands
      BY <2>1 DEF q
    <2>5. {i \in DOMAIN q : q[i].kind \in {"connect", "disconnect"}}
             = {i \in DOMAIN q : q[i] \in OrderSet}
      BY <2>3, <2>4
    <2>6. {i \in DOMAIN q : q[i] \in OrderSet} = {} <=> ~Has(q, OrderSet)
      BY DEF Has
    <2> QED BY <2>1, <2>2, <2>5, <2>6 DEF q
  <1> QED BY <1>1, <1>2

\* Whatever was clicked before it and however far that has come, a Disconnect wins: the
\* last order under way is one, or the session of the helper is at rest.
THEOREM LastClickIsObeyed == Spec => []LastClickWins
  <1>1. OrdersInv => LastClickWins
    <2> SUFFICES ASSUME OrdersInv, ~gui.wanted
                 PROVE  /\ ~gui.pending
                        /\ \A i \in Orders : (\A j \in Orders : j <= i)
                                                 => Ordering[i].kind = "disconnect"
                        /\ Up /\ gui.acked /\ Orders = {} => AtRest(Serving.session)
      BY DEF LastClickWins
    <2>1. ~gui.pending
      BY DEF OrdersInv, FlagsRight
    <2>2. CASE ~gui.acked
      BY <2>1, <2>2, OrdersHeld
    <2>3. CASE gui.acked
      <3> DEFINE q == Ordering
      <3>1. /\ q \in Seq(UserCommands) /\ Orders = {i \in DOMAIN q : q[i] \in OrderSet}
            /\ Orders = {} <=> ~Has(q, OrderSet)
        BY <2>3, OrdersHeld
      <3>2. \/ q = <<>> /\ Serving.session = "Disconnected"
            \/ Obeyed(gui, q, Serving.session)
        BY <2>3, InTheMiddle DEF Talking, Exchange, Ordering
      <3> HIDE DEF q
      <3>3. CASE Latest(q, OrderSet, {DisconnectCommand})
        <4>1. PICK l \in DOMAIN q : /\ q[l] = DisconnectCommand
                                    /\ \A j \in DOMAIN q : q[j] \in OrderSet => j <= l
          BY <3>3 DEF Latest
        <4>2. DisconnectCommand \in OrderSet /\ DisconnectCommand.kind = "disconnect"
          BY UserCommandTypes DEF DisconnectCommand
        <4>3. l \in Orders
          BY <3>1, <4>1, <4>2
        <4>4. \A i \in Orders : i \in Nat
          BY <3>1
        <4>5. ASSUME NEW i \in Orders, \A j \in Orders : j <= i PROVE q[i].kind = "disconnect"
          <5>1. i <= l /\ l <= i /\ i \in Nat /\ l \in Nat
            BY <3>1, <4>1, <4>3, <4>4, <4>5
          <5>2. i = l
            BY <5>1
          <5> QED BY <4>1, <4>2, <5>2
        <4> QED BY <2>1, <4>3, <4>5 DEF q
      <3>4. CASE ~Has(q, OrderSet) /\ AtRest(Serving.session)
        BY <2>1, <3>1, <3>4
      <3>5. q = <<>> => ~Has(q, OrderSet)
        BY HasNone
      <3>6. AtRest("Disconnected")
        BY DEF AtRest
      <3> QED BY <3>2, <3>3, <3>4, <3>5, <3>6 DEF Obeyed
    <2> QED BY <2>2, <2>3
  <1> QED BY <1>1, OrdersInvariant, PTL

\* Through every crossing of clicks with reports, the window never shows the state of
\* a link that is gone, and once nothing is under way it shows the session's own.
THEOREM WindowIsTrue == Spec => []WindowTellsTruth
  <1>1. OrdersInv => WindowTellsTruth
    <2> SUFFICES ASSUME OrdersInv PROVE WindowTellsTruth
      OBVIOUS
    <2>1. ASSUME gui.state # "Disconnected" PROVE Up /\ gui.acked
      BY <2>1, InTheMiddle DEF OrdersInv, FlagsRight
    <2>2. ASSUME Up, conn[gui.sock].far, gui.acked, InFlight = 0
          PROVE  /\ gui.state = Serving.session
                 /\ gui.connecting = (Serving.session = "Connecting")
                 /\ ~gui.disconnecting
      <3> DEFINE k == conn[gui.sock]
      <3>1. /\ Talking(gui, k, Serving) /\ k.far /\ gui \in GuiType
            /\ Serving.session # "Disconnecting" /\ Len(k.toHelper) + Len(k.toGui) = 0
        BY <2>2, InTheMiddle, LinkFacts DEF InFlight, OrdersInv
      <3> HIDE DEF k
      <3>2. /\ k.toHelper \in Seq(UserCommands) /\ k.toGui \in Seq(NewsSet)
            /\ Exchange(gui, k.toHelper, k.toGui, Serving)
        BY <3>1 DEF Talking
      <3>3. k.toHelper = <<>> /\ k.toGui = <<>>
        <4>1. Len(k.toHelper) = 0 /\ Len(k.toGui) = 0
          <5>1. Len(k.toHelper) \in Nat /\ Len(k.toGui) \in Nat
            BY <3>2
          <5>2. \A a, b \in Nat : a + b = 0 => a = 0 /\ b = 0
            OBVIOUS
          <5>3. Len(k.toHelper) + Len(k.toGui) = 0
            BY <3>1
          <5> HIDE DEF k
          <5> QED BY <5>1, <5>2, <5>3
        <4> QED BY <3>2, <4>1
      <3>4. /\ \A S, T : ~Has(k.toHelper, S) /\ ~Has(k.toGui, S) /\ ~Latest(k.toGui, S, T)
            /\ \A s : ~Stirs(k.toGui, s)
        BY <3>3, HasNone DEF Stirs
      <3>5. gui.state = Serving.session
        BY <3>2, <3>4 DEF Exchange, Leads
      <3>6. /\ ~(gui.connecting # (gui.state = "Connecting"))
            /\ ~(gui.disconnecting # (gui.state = "Disconnecting"))
        BY <3>2, <3>4 DEF Exchange, StopSettles, StartSettles
      <3> QED BY <3>1, <3>5, <3>6
    <2> QED BY <2>1, <2>2 DEF WindowTellsTruth
  <1> QED BY <1>1, OrdersInvariant, PTL

\* However edits, connects and refusals cross, a running session was built from the
\* settings the GUI keeps as those it connected with.
THEOREM SessionHasTheSettings == Spec => []SessionBuiltFromSettings
  <1>1. OrdersInv => SessionBuiltFromSettings
    <2> SUFFICES ASSUME OrdersInv, gui.acked, gui.builtWith # NoSettings, Orders = {},
                        ~AtRest(Serving.session)
                 PROVE  Serving.built = gui.builtWith
      BY DEF SessionBuiltFromSettings
    <2> DEFINE k == conn[gui.sock]
    <2>1. /\ Talking(gui, k, Serving) /\ Serving.session # "Disconnected"
          /\ ~k.far => Serving.session = "Disconnected"
      BY InTheMiddle DEF AtRest
    <2>2. ~Has(k.toHelper, OrderSet)
      BY OrdersHeld DEF Ordering
    <2> HIDE DEF k
    <2>3. BuiltRight(gui, k.toHelper, Serving)
      BY <2>1 DEF Talking, Exchange
    <2>4. ~BuildsFrom(k.toHelper, Serving.settings, gui.builtWith)
      BY <2>2, UserCommandTypes DEF BuildsFrom, Has
    <2> QED BY <2>3, <2>4 DEF BuiltRight
  <1> QED BY <1>1, OrdersInvariant, PTL
=============================================================================
