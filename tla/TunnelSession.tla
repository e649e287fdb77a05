--------------------------- MODULE TunnelSession ---------------------------
(***************************************************************************)
(* QtTrustTunnelClient: the object in the elevated helper that owns the    *)
(* VPN session.  One owner thread runs every handler to its end; the       *)
(* connect attempts run on worker threads, because the native calls block; *)
(* the core of a session reports its state from threads of its own.  The   *)
(* three meet in one queue of posted calls, the event loop of the owner.   *)
(*                                                                         *)
(* The counters m_sessionGen and guard.attemptGen are only ever bumped and *)
(* compared with a value read earlier, so each is represented by the       *)
(* attempt holding its current value, or NoAttempt once it was bumped with *)
(* no attempt behind it.  m_disconnectGen is compared by the delayed start *)
(* alone: a disconnect that bumps it makes that start a no-op.             *)
(***************************************************************************)
EXTENDS Naturals, Sequences, FiniteSets

CONSTANTS
    Attempts,     \* slots for connect attempts: a worker and the core it builds
    Configs,      \* configurations the GUI may ask for
    BadConfigs,   \* those loadConfigFromToml refuses
    Routings,     \* split-routing settings: mode and address list together
    NoAttempt,    \* "nobody": a null client, thread or generation
    NoConfig,
    CommandKinds, \* the commands the GUI sends
    MaxQueue,     \* bound: commands and core events are posted below it only
    CanQuit       \* whether the helper process may be told to leave

ASSUME AttemptsAssumption == NoAttempt \notin Attempts
ASSUME ConfigsAssumption == /\ BadConfigs \subseteq Configs
                            /\ NoConfig \notin Configs
ASSUME CommandsAssumption ==
    CommandKinds \subseteq {"connect", "disconnect", "setSplitRouting", "setKillSwitch"}
ASSUME BoundsAssumption == MaxQueue \in Nat /\ CanQuit \in BOOLEAN

VARIABLES
    owner,     \* the fields of the object
    queue,     \* calls posted to the owner thread, in order
    worker,    \* per attempt: where its worker thread stands
    core,      \* per attempt: the core client it built
    rescued,   \* attempts abandoned with their client already adopted
    detached,  \* attempts whose client retireCoreDetached is taking down
    alive      \* guard.alive: the object has not been destroyed

vars == <<owner, queue, worker, core, rescued, detached, alive>>

(***************************************************************************)
(* Types                                                                   *)
(***************************************************************************)
States == {"Disconnected", "Connecting", "Connected", "Reconnecting",
           "WaitingForNetwork", "Error"}

Timers == {"reconnect", "networkWait", "fdWatchdog"}

CoreEvents == {"CONNECTED", "CONNECTING", "RECOVERING", "WAITING_FOR_NETWORK",
               "DISCONNECTED"}

\* NotElevated is FatalStop with the privilege hint.
Outcomes == {"Connected", "Retry", "FatalStop", "NotElevated", "FatalKeepGoing"}

MaybeAttempt == Attempts \cup {NoAttempt}

Messages ==
    [kind : {"connect"}, config : Configs]
        \cup [kind : {"disconnect", "quit"}]
        \cup [kind : {"setSplitRouting"}, routing : Routings]
        \cup [kind : {"setKillSwitch"}, enabled : BOOLEAN]
        \cup [kind : {"coreEvent"}, session : Attempts, event : CoreEvents]
        \cup [kind : {"adopt"}, attempt : Attempts, outcome : Outcomes]
        \cup [kind : {"rescue"}, attempt : Attempts]

OwnerType ==
    [state : States, stopRequested : BOOLEAN, everConnected : BOOLEAN,
     killSwitch : BOOLEAN,
     config : BOOLEAN,               \* m_config holds a value
     lastToml : Configs \cup {NoConfig},
     routing : Routings,             \* the working set the next session takes
     sessionRouting : Routings,      \* m_sessionRouting
     client : MaybeAttempt,          \* m_client (and its network monitor)
     thread : MaybeAttempt,          \* the attempt m_connectThread is running
     attemptGen : MaybeAttempt, sessionGen : MaybeAttempt,
     timers : SUBSET Timers,
     delayed : Configs \cup {NoConfig}]  \* beginConnect's 150 ms start

\* A worker is off ("idle"), or stands before the native call it is named for.
WorkerSteps == {"idle", "retiring", "building", "connecting", "handover", "exiting"}

WorkerType == [at : WorkerSteps, outcome : Outcomes, retired : MaybeAttempt]

\* "live": the tunnel is or may be installed, and the core reports events.
\* "ended": the core reported DISCONNECTED, but disconnect() was not called yet.
CoreStatus == {"none", "live", "ended"}
CoreType == [status : CoreStatus, routing : Routings, config : Configs \cup {NoConfig}]

TypeOK ==
    /\ owner \in OwnerType
    /\ queue \in Seq(Messages)
    /\ worker \in [Attempts -> WorkerType]
    /\ core \in [Attempts -> CoreType]
    /\ rescued \subseteq Attempts
    /\ detached \subseteq Attempts
    /\ alive \in BOOLEAN

(***************************************************************************)
(* Steps several handlers share, as functions on the owner's record.       *)
(***************************************************************************)
Exists(a) == core[a].status # "none"

\* retireCore: the core of c is disconnected and destroyed.
Retire(c) == [a \in Attempts |-> IF a = c THEN [core[a] EXCEPT !.status = "none"]
                                          ELSE core[a]]

Running == owner.thread # NoAttempt

\* joinOrAbandonConnectThread.  The wait itself takes no step here: a handler
\* that waits happens once the worker is done, or, the 15 s spent, abandons it.
Joined(o) ==
    IF Running
    THEN [o EXCEPT !.thread = NoAttempt, !.attemptGen = NoAttempt,
                   !.sessionGen = NoAttempt, !.client = NoAttempt]
    ELSE o

JoinRescues ==
    rescued' = IF Running /\ owner.client # NoAttempt
               THEN rescued \cup {owner.thread} ELSE rescued

\* teardownClient: what it leaves of the object, and of the cores.
TornDown(o) == [Joined(o) EXCEPT !.sessionGen = NoAttempt, !.attemptGen = NoAttempt,
                                 !.client = NoAttempt]
TeardownClient(o) == /\ owner' = o
                     /\ core' = Retire(Joined(owner).client)
                     /\ JoinRescues

\* Mutant: the timer is started from a thread it does not live on, a silent no-op.
ScheduledNowhere(o) ==
    IF o.stopRequested \/ "reconnect" \in o.timers THEN o
    ELSE [o EXCEPT !.state = "Reconnecting"]

ScheduledReconnect(o) ==
    IF o.stopRequested \/ "reconnect" \in o.timers THEN o
    ELSE [o EXCEPT !.state = "Reconnecting", !.timers = @ \cup {"reconnect"}]

\* Mutants: the disconnect leaves the timers running; does not bump m_disconnectGen.
DisconnectedWithTimers(o) ==
    [TornDown(o) EXCEPT !.stopRequested = TRUE, !.delayed = NoConfig,
                        !.everConnected = FALSE, !.state = "Disconnected"]
DisconnectedNotCancelling(o) ==
    [TornDown(o) EXCEPT !.stopRequested = TRUE, !.timers = {},
                        !.everConnected = FALSE, !.state = "Disconnected"]

\* disconnectVpn.  Disconnecting is reported and left within the handler.
DisconnectedVpn(o) ==
    [TornDown(o) EXCEPT !.stopRequested = TRUE, !.timers = {}, !.delayed = NoConfig,
                        !.everConnected = FALSE, !.state = "Disconnected"]

\* loadConfigFromToml
Loaded(o, c) ==
    IF c \in BadConfigs THEN [o EXCEPT !.state = "Error"]
    ELSE [o EXCEPT !.lastToml = c, !.config = TRUE, !.state = "Disconnected"]

\* reloadStoredConfigIfNeeded
Reloaded(o) ==
    IF o.config THEN o
    ELSE IF o.lastToml = NoConfig THEN [o EXCEPT !.state = "Error"]
    ELSE Loaded(o, o.lastToml)

\* applyRoutingToSession: what the object believes, and what the core is handed.
NeedsRouting(o) == o.client # NoAttempt /\ o.routing # o.sessionRouting
RoutingApplied(o) == IF NeedsRouting(o) THEN [o EXCEPT !.sessionRouting = o.routing] ELSE o
CoreRouted(o) == IF NeedsRouting(o) THEN [core EXCEPT ![o.client].routing = o.routing] ELSE core

(***************************************************************************)
(* A connect attempt: doConnectAttemptInThread and prepareAttempt.         *)
(***************************************************************************)
Mentions(m, a) == \/ m.kind \in {"adopt", "rescue"} /\ m.attempt = a
                  \/ m.kind = "coreEvent" /\ m.session = a

\* A slot nothing refers to any more; an attempt in the code is a fresh object.
FreeSlots == {a \in Attempts : /\ worker[a].at = "idle" /\ ~Exists(a)
                               /\ \A i \in DOMAIN queue : ~Mentions(queue[i], a)}

\* Bound: a slot is left for every connect still queued, so that the model
\* never stops on a start it has no slot for.
Spare == Cardinality(FreeSlots) > Len(SelectSeq(queue, LAMBDA m : m.kind = "connect"))

Attempt(o, a) ==
    LET r == Reloaded([o EXCEPT !.attemptGen = a]) IN
    IF r.state = "Error" /\ ~r.config
    THEN owner' = r /\ UNCHANGED <<worker, core>>
    ELSE /\ owner' = [r EXCEPT !.state = IF @ = "Connecting" \/ r.client = NoAttempt
                                         THEN "Connecting" ELSE "Reconnecting",
                                !.config = FALSE, !.client = NoAttempt,
                                !.sessionGen = a, !.thread = a]
         /\ worker' = [worker EXCEPT ![a] =
                [at |-> IF r.client = NoAttempt THEN "building" ELSE "retiring",
                 outcome |-> "Retry", retired |-> r.client]]
         /\ core' = [core EXCEPT ![a] =
                [status |-> "none", routing |-> r.routing, config |-> r.lastToml]]

DoConnectAttempt(o) ==
    IF o.stopRequested THEN owner' = o /\ UNCHANGED <<worker, core>>
    ELSE \E a \in FreeSlots : Attempt(o, a)

(***************************************************************************)
(* What the owner thread does with a posted call.                          *)
(***************************************************************************)
Receive(kind) == /\ alive /\ queue # <<>> /\ Head(queue).kind = kind
                 /\ queue' = Tail(queue)

\* loadConfigFromToml, then connectVpn: load and start are one handler.
StartConnect(o, c) ==
    IF c \in BadConfigs
    THEN owner' = Loaded(o, c) /\ UNCHANGED <<worker, core, rescued>>
    ELSE /\ JoinRescues
         /\ DoConnectAttempt([Loaded(Joined(o), c) EXCEPT
                !.stopRequested = FALSE, !.state = "Connecting",
                !.timers = (@ \ {"reconnect"}) \cup {"fdWatchdog"}])

\* beginConnect, the tunnel being down: it starts at once.
ConnectNow ==
    /\ Receive("connect") /\ owner.state \in {"Disconnected", "Error"}
    /\ StartConnect(owner, Head(queue).config)
    /\ UNCHANGED <<detached, alive>>

\* beginConnect, the tunnel not being down: it goes first, and the start follows.
ConnectAfterTeardown ==
    /\ Receive("connect") /\ owner.state \notin {"Disconnected", "Error"}
    /\ TeardownClient([DisconnectedVpn(owner) EXCEPT !.delayed = Head(queue).config])
    /\ UNCHANGED <<worker, detached, alive>>

\* Mutant: the disconnect joins the worker, however long that takes.
DisconnectWhenJoined ==
    /\ Receive("disconnect") /\ ~Running
    /\ TeardownClient(DisconnectedVpn(owner))
    /\ UNCHANGED <<worker, detached, alive>>

DisconnectVpn ==
    /\ Receive("disconnect")
    /\ TeardownClient(DisconnectedVpn(owner))
    /\ UNCHANGED <<worker, detached, alive>>

SetSplitRouting ==
    /\ Receive("setSplitRouting")
    /\ LET o == [owner EXCEPT !.routing = Head(queue).routing] IN
       owner' = RoutingApplied(o) /\ core' = CoreRouted(o)
    /\ UNCHANGED <<worker, rescued, detached, alive>>

SetKillSwitch ==
    /\ Receive("setKillSwitch")
    /\ owner' = [owner EXCEPT !.killSwitch = Head(queue).enabled]
    /\ UNCHANGED <<worker, core, rescued, detached, alive>>

\* handleCoreStateChanged, by event.
AfterCoreEvent(o, event) ==
    LET resumed == IF o.everConnected THEN "Reconnecting" ELSE "Connecting" IN
    CASE event = "CONNECTED" ->
            [o EXCEPT !.state = "Connected", !.everConnected = TRUE,
                      !.timers = @ \ {"reconnect", "networkWait"}]
      [] event = "CONNECTING" ->
            [o EXCEPT !.state = resumed, !.timers = @ \ {"networkWait"}]
      [] event = "RECOVERING" ->  \* and WAITING_RECOVERY
            [o EXCEPT !.state = resumed, !.timers = @ \ {"reconnect", "networkWait"}]
      [] event = "WAITING_FOR_NETWORK" ->
            [o EXCEPT !.state = "WaitingForNetwork", !.timers = @ \cup {"networkWait"}]
      [] event = "DISCONNECTED" ->
            ScheduledReconnect([o EXCEPT !.timers = @ \ {"networkWait"}])

CoreStateChanged ==
    /\ Receive("coreEvent")
    /\ owner' = IF Head(queue).session = owner.sessionGen /\ ~owner.stopRequested
                THEN AfterCoreEvent(owner, Head(queue).event) ELSE owner
    /\ UNCHANGED <<worker, core, rescued, detached, alive>>

\* Mutants: a stale result is let go of; the new session keeps the routing its
\* attempt began with.
ForgetStaleAttempt ==
    /\ Receive("adopt") /\ Head(queue).attempt # owner.attemptGen
    /\ UNCHANGED <<owner, worker, core, rescued, detached, alive>>
AdoptAsBuilt ==
    /\ Receive("adopt") /\ Head(queue).attempt = owner.attemptGen
    /\ Head(queue).outcome = "Connected"
    /\ LET a == Head(queue).attempt IN
       owner' = [owner EXCEPT !.client = a, !.sessionRouting = core[a].routing]
    /\ UNCHANGED <<worker, core, rescued, detached, alive>>

\* adoptAttempt, of an attempt nobody wants any more.
DropStaleAttempt ==
    /\ Receive("adopt") /\ Head(queue).attempt # owner.attemptGen
    /\ LET a == Head(queue).attempt IN
       detached' = IF Exists(a) THEN detached \cup {a} ELSE detached
    /\ UNCHANGED <<owner, worker, core, rescued, alive>>

AdoptSession ==
    /\ Receive("adopt") /\ Head(queue).attempt = owner.attemptGen
    /\ Head(queue).outcome = "Connected"
    /\ LET a == Head(queue).attempt
           o == [owner EXCEPT !.client = a, !.sessionRouting = core[a].routing] IN
       owner' = RoutingApplied(o) /\ core' = CoreRouted(o)
    /\ UNCHANGED <<worker, rescued, detached, alive>>

AdoptFailure ==
    /\ Receive("adopt") /\ Head(queue).attempt = owner.attemptGen
    /\ Head(queue).outcome \in {"Retry", "FatalStop", "FatalKeepGoing"}
    /\ owner' = CASE Head(queue).outcome = "Retry" -> ScheduledReconnect(owner)
                  [] Head(queue).outcome = "FatalStop" ->
                        [owner EXCEPT !.stopRequested = TRUE, !.state = "Error"]
                  [] OTHER -> [owner EXCEPT !.state = "Error"]
    /\ UNCHANGED <<worker, core, rescued, detached, alive>>

\* failConnectFatal
AdoptNotElevated ==
    /\ Receive("adopt") /\ Head(queue).attempt = owner.attemptGen
    /\ Head(queue).outcome = "NotElevated"
    /\ TeardownClient([TornDown(owner) EXCEPT !.stopRequested = TRUE, !.state = "Error"])
    /\ UNCHANGED <<worker, detached, alive>>

\* The handler joinOrAbandonConnectThread left on an abandoned thread's end.
RetireRescued ==
    /\ Receive("rescue")
    /\ core' = Retire(Head(queue).attempt)
    /\ UNCHANGED <<owner, worker, rescued, detached, alive>>

\* ~HelperServer: a disconnect, then the object goes, with what is still queued.
Quit ==
    /\ alive /\ queue # <<>> /\ Head(queue).kind = "quit"
    /\ TeardownClient(DisconnectedVpn(owner))
    /\ queue' = <<>> /\ alive' = FALSE
    /\ UNCHANGED <<worker, detached>>

(***************************************************************************)
(* The owner's timers.                                                     *)
(***************************************************************************)
DelayedStart ==
    /\ alive /\ owner.delayed # NoConfig /\ Spare
    /\ StartConnect([owner EXCEPT !.delayed = NoConfig], owner.delayed)
    /\ UNCHANGED <<queue, detached, alive>>

ReconnectTimeout ==
    /\ alive /\ "reconnect" \in owner.timers /\ Spare
    /\ JoinRescues
    /\ DoConnectAttempt(Joined([owner EXCEPT !.timers = @ \ {"reconnect"}]))
    /\ UNCHANGED <<queue, detached, alive>>

\* What both watchdogs do: give the core up and start over.
ForceReconnect(o) == TeardownClient(ScheduledReconnect(TornDown(o)))

\* Mutants: the kill switch does not hold the network wait back, or holds it back
\* once and for all.
NetworkWaitRegardless ==
    /\ alive /\ "networkWait" \in owner.timers
    /\ LET o == [owner EXCEPT !.timers = @ \ {"networkWait"}] IN
       IF owner.state # "WaitingForNetwork" \/ owner.stopRequested
       THEN owner' = o /\ UNCHANGED <<core, rescued>>
       ELSE ForceReconnect(o)
    /\ UNCHANGED <<queue, worker, detached, alive>>
NetworkWaitOnce ==
    /\ alive /\ "networkWait" \in owner.timers
    /\ LET o == [owner EXCEPT !.timers = @ \ {"networkWait"}] IN
       IF owner.state # "WaitingForNetwork" \/ owner.stopRequested \/ owner.killSwitch
       THEN owner' = o /\ UNCHANGED <<core, rescued>>
       ELSE ForceReconnect(o)
    /\ UNCHANGED <<queue, worker, detached, alive>>

\* With the kill switch on the timer is armed again, and nothing else happens.
NetworkWaitTimeout ==
    /\ alive /\ "networkWait" \in owner.timers
    /\ LET o == [owner EXCEPT !.timers = @ \ {"networkWait"}] IN
       IF owner.state # "WaitingForNetwork" \/ owner.stopRequested
       THEN owner' = o /\ UNCHANGED <<core, rescued>>
       ELSE IF owner.killSwitch THEN UNCHANGED <<owner, core, rescued>>
       ELSE ForceReconnect(o)
    /\ UNCHANGED <<queue, worker, detached, alive>>

\* Mutant: the watchdog rebuilds the session whatever the kill switch says.
FdLeakRebuilds ==
    /\ alive /\ "fdWatchdog" \in owner.timers
    /\ owner.state \in {"Connected", "Reconnecting"}
    /\ ForceReconnect(owner)
    /\ UNCHANGED <<queue, worker, detached, alive>>

\* checkFdHealth finding a leak, and forceFdReconnect.
FdLeakFound ==
    /\ alive /\ "fdWatchdog" \in owner.timers
    /\ owner.state \in {"Connected", "Reconnecting"}
    /\ IF owner.killSwitch THEN UNCHANGED <<owner, core, rescued>>
       ELSE ForceReconnect(owner)
    /\ UNCHANGED <<queue, worker, detached, alive>>

(***************************************************************************)
(* The worker of attempt a: runAttempt, then the hand-over.                *)
(***************************************************************************)
At(a, step) == worker[a].at = step
Goto(a, step) == worker' = [worker EXCEPT ![a].at = step]
Ends(a, outcome) == worker' = [worker EXCEPT ![a].at = "handover", ![a].outcome = outcome]

RetirePrevious(a) ==
    /\ At(a, "retiring")
    /\ core' = Retire(worker[a].retired)
    /\ worker' = [worker EXCEPT ![a].at = "building", ![a].retired = NoAttempt]
    /\ UNCHANGED <<owner, queue, rescued, detached, alive>>

\* The core throws, its network monitor does not start, or DNS cannot be set.
BuildFails(a) ==
    /\ At(a, "building")
    /\ \E outcome \in {"Retry", "FatalStop", "FatalKeepGoing"} : Ends(a, outcome)
    /\ UNCHANGED <<owner, queue, core, rescued, detached, alive>>

Establish(a) ==
    /\ At(a, "building")
    /\ core' = [core EXCEPT ![a].status = "live"]
    /\ Goto(a, "connecting")
    /\ UNCHANGED <<owner, queue, rescued, detached, alive>>

Established(a) ==
    /\ At(a, "connecting")
    /\ Ends(a, "Connected")
    /\ UNCHANGED <<owner, queue, core, rescued, detached, alive>>

EstablishFails(a) ==
    /\ At(a, "connecting")
    /\ \E outcome \in {"Retry", "NotElevated"} : Ends(a, outcome)
    /\ core' = Retire(a)
    /\ UNCHANGED <<owner, queue, rescued, detached, alive>>

Wanted(a) == alive /\ owner.attemptGen = a

\* Mutant: an unwanted result is not retired.
HandOverOrForget(a) ==
    /\ At(a, "handover")
    /\ queue' = IF Wanted(a)
                THEN Append(queue, [kind |-> "adopt", attempt |-> a,
                                    outcome |-> worker[a].outcome])
                ELSE queue
    /\ worker' = [worker EXCEPT ![a].at = "exiting", ![a].outcome = "Retry"]
    /\ UNCHANGED <<owner, core, rescued, detached, alive>>

HandOver(a) ==
    /\ At(a, "handover")
    /\ IF Wanted(a)
       THEN /\ queue' = Append(queue, [kind |-> "adopt", attempt |-> a,
                                       outcome |-> worker[a].outcome])
            /\ UNCHANGED core
       ELSE core' = Retire(a) /\ UNCHANGED queue
    /\ worker' = [worker EXCEPT ![a].at = "exiting", ![a].outcome = "Retry"]
    /\ UNCHANGED <<owner, rescued, detached, alive>>

\* The thread finishes.  Once the owner's loop has ended nothing hears of it.
Exit(a) ==
    /\ At(a, "exiting")
    /\ Goto(a, "idle")
    /\ queue' = IF a \in rescued /\ alive
                THEN Append(queue, [kind |-> "rescue", attempt |-> a]) ELSE queue
    /\ rescued' = rescued \ {a}
    /\ owner' = [owner EXCEPT !.thread = IF @ = a THEN NoAttempt ELSE @]
    /\ UNCHANGED <<core, detached, alive>>

\* The thread retireCoreDetached started.
RetireDetached(a) ==
    /\ a \in detached
    /\ core' = Retire(a)
    /\ detached' = detached \ {a}
    /\ UNCHANGED <<owner, queue, worker, rescued, alive>>

(***************************************************************************)
(* Outside: the core of a session, and the commands the server forwards.   *)
(***************************************************************************)
\* Mutant: the callback posts without a look at the guard.
HasRoomUnguarded == Len(queue) < MaxQueue
HasRoom == alive /\ Len(queue) < MaxQueue
Post(m) == queue' = Append(queue, m) /\ UNCHANGED <<owner, worker, rescued, detached, alive>>

\* A live core reports a state; DISCONNECTED is its last word.
CoreReports(a, event) ==
    /\ core[a].status = "live" /\ HasRoom
    /\ core' = IF event = "DISCONNECTED" THEN [core EXCEPT ![a].status = "ended"] ELSE core
    /\ Post([kind |-> "coreEvent", session |-> a, event |-> event])

Quitting == \E i \in DOMAIN queue : queue[i].kind = "quit"

Commands == {m \in Messages : m.kind \in CommandKinds}

\* handleAuthed forwards a command.  The server that is going takes no more.
Command(m) == /\ HasRoom /\ ~Quitting /\ (m.kind = "connect" => Spare)
              /\ Post(m) /\ UNCHANGED core

Leave == HasRoom /\ CanQuit /\ ~Quitting /\ Post([kind |-> "quit"]) /\ UNCHANGED core

(***************************************************************************)
(* The specification.                                                      *)
(***************************************************************************)
Init ==
    /\ owner \in
        [state : {"Disconnected"}, stopRequested : {FALSE}, everConnected : {FALSE},
         killSwitch : {FALSE}, config : {FALSE}, lastToml : {NoConfig},
         routing : Routings, sessionRouting : Routings, client : {NoAttempt},
         thread : {NoAttempt}, attemptGen : {NoAttempt}, sessionGen : {NoAttempt},
         timers : {{}}, delayed : {NoConfig}]
    /\ owner.sessionRouting = owner.routing
    /\ queue = <<>>
    /\ worker = [a \in Attempts |-> [at |-> "idle", outcome |-> "Retry", retired |-> NoAttempt]]
    /\ core = [a \in Attempts |->
                [status |-> "none", routing |-> owner.routing, config |-> NoConfig]]
    /\ rescued = {} /\ detached = {} /\ alive = TRUE

StartCommand == ConnectNow \/ ConnectAfterTeardown
StopCommand == DisconnectVpn \/ Quit

ServeStep ==
    \/ SetSplitRouting \/ SetKillSwitch \/ CoreStateChanged
    \/ DropStaleAttempt \/ AdoptSession \/ AdoptFailure \/ AdoptNotElevated
    \/ RetireRescued

OwnerStep == StartCommand \/ StopCommand \/ ServeStep

TimerStep == DelayedStart \/ ReconnectTimeout \/ NetworkWaitTimeout \/ FdLeakFound

WorkerStep(a) ==
    \/ RetirePrevious(a) \/ BuildFails(a) \/ Establish(a) \/ Established(a)
    \/ EstablishFails(a) \/ HandOver(a) \/ Exit(a)

Outside == \/ \E a \in Attempts, event \in CoreEvents : CoreReports(a, event)
           \/ \E m \in Commands : Command(m)
           \/ Leave

Unasked == \/ ServeStep \/ TimerStep
           \/ \E a \in Attempts : WorkerStep(a) \/ RetireDetached(a)
           \/ Outside

Next == StartCommand \/ StopCommand \/ Unasked

Spec == Init /\ [][Next]_vars

\* The owner's event loop runs; nothing is said of the native calls.
OwnerFairSpec == Spec /\ WF_vars(OwnerStep)

\* Timers fire, and every native call returns in the end.
FairSpec ==
    /\ OwnerFairSpec
    /\ WF_vars(DelayedStart) /\ WF_vars(ReconnectTimeout) /\ WF_vars(NetworkWaitTimeout)
    /\ \A a \in Attempts : WF_vars(WorkerStep(a)) /\ WF_vars(RetireDetached(a))

(***************************************************************************)
(* Safety.                                                                 *)
(***************************************************************************)

\* Who can still reach the core of a, and so is bound to disconnect it.
Holders(a) ==
    {h \in {"client", "worker", "successor", "queue", "thread", "detached"} :
        CASE h = "client"    -> owner.client = a
          [] h = "worker"    -> worker[a].at \in {"connecting", "handover"}
          [] h = "successor" -> \E b \in Attempts : worker[b].retired = a
          [] h = "queue"     -> \E i \in DOMAIN queue :
                                    /\ queue[i].kind \in {"adopt", "rescue"}
                                    /\ queue[i].attempt = a
          [] h = "thread"    -> a \in rescued
          [] h = "detached"  -> a \in detached}

\* A core that was set to connect is held by one, and one only, until disconnect()
\* was called on it.  One that falls out of scope leaves its tunnel, its routes and
\* its DNS override installed behind a "Disconnected" state; two holders would both
\* disconnect and destroy it (the hand-over in doConnectAttemptInThread,
\* adoptAttempt, prepareAttempt, joinOrAbandonConnectThread).
NoLostCore ==
    \A a \in Attempts :
        Exists(a) => LET held == Holders(a) IN \E h \in held : held = {h}

\* What still drives the session on, besides the user.
InFlight(a) == \/ worker[a].at \in {"retiring", "building", "connecting", "handover"}
               \/ \E i \in DOMAIN queue : queue[i].kind = "adopt" /\ queue[i].attempt = a
SomethingDrives ==
    \/ "reconnect" \in owner.timers
    \/ owner.attemptGen # NoAttempt /\ InFlight(owner.attemptGen)
    \/ owner.client # NoAttempt /\ core[owner.client].status = "live"
    \/ \E i \in DOMAIN queue : /\ queue[i].kind = "coreEvent"
                               /\ queue[i].session = owner.sessionGen
                               /\ queue[i].event = "DISCONNECTED"

\* A state that promises a tunnel is never a dead end: a live core, an attempt or
\* the reconnect timer stands behind it.  handleCoreRecovery stops that timer,
\* scheduleReconnect ignores a second request: neither may leave nothing behind.
NeverStuck ==
    alive /\ owner.state \in {"Connecting", "Connected", "Reconnecting", "WaitingForNetwork"}
        => SomethingDrives

\* Disconnected means off: nothing that could bring a tunnel up is left, and no
\* result still on its way would be accepted (disconnectVpn, teardownClient).
DisconnectedIsOff ==
    owner.state = "Disconnected" =>
        /\ owner.client = NoAttempt /\ owner.timers = {}
        /\ owner.attemptGen = NoAttempt /\ owner.sessionGen = NoAttempt

\* The core in use is the session the user has now: it routes by the settings of
\* now, edits made while its attempt was running included (applyRoutingToSession,
\* called by adoptAttempt), and was built from the configuration loaded last: a
\* result of an attempt made for an earlier one is never adopted (attemptGen).
SessionFollowsSettings ==
    owner.client # NoAttempt => /\ core[owner.client].routing = owner.routing
                                /\ core[owner.client].config = owner.lastToml

\* With the kill switch on, a core that is alive is given up for a command of the
\* user and for nothing else: the watchdogs leave it, and so does every path to
\* the reconnect timer (forceFdReconnect, the network-wait timeout).
ByCommand ==
    \/ queue # <<>> /\ Head(queue).kind \in {"connect", "disconnect", "quit"} /\ queue' # queue
    \/ owner.delayed # NoConfig /\ owner'.delayed = NoConfig
KillSwitchHolds ==
    [][ owner.killSwitch /\ owner.client # NoAttempt /\ owner'.client # owner.client
            => ByCommand \/ core[owner.client].status # "live" ]_vars

\* Once the object is destroyed nothing is posted to it: core callbacks and workers
\* that outlive it look at guard.alive first (~QtTrustTunnelClient, makeCallbacks).
NoCallAfterDestruction == ~alive => queue = <<>>

(***************************************************************************)
(* Liveness.                                                               *)
(***************************************************************************)

\* A disconnect always completes, even if the native call the attempt is in never
\* returns (disconnectVpn, by way of joinOrAbandonConnectThread).
DisconnectCompletes ==
    (\E i \in DOMAIN queue : queue[i].kind = "disconnect") ~> (owner.state = "Disconnected")

\* A core left over when the session is Disconnected is taken down, whichever way
\* it was left: stuck, finished too late, or adopted by an abandoned thread's owner.
LeftoversComeDown ==
    \A a \in Attempts :
        Exists(a) /\ owner.state = "Disconnected"
            ~> ~Exists(a) \/ owner.state # "Disconnected"

\* A session that lost its core is attempted again, until the user stops it or an
\* attempt ends in Error (scheduleReconnect and its timer).
Trying == \E a \in Attempts : owner.attemptGen = a /\ worker[a].at # "idle"
KeepsTrying ==
    (owner.state = "Reconnecting" /\ owner.client = NoAttempt)
        ~> (Trying \/ owner.client # NoAttempt \/ owner.stopRequested \/ owner.state = "Error")

\* Without the kill switch the wait for a network ends, by the core or by the 30 s
\* timer that rebuilds the session.
NetworkWaitEnds ==
    owner.state = "WaitingForNetwork"
        ~> (owner.state # "WaitingForNetwork" \/ owner.killSwitch)
=============================================================================
