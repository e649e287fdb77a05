---------------------------- MODULE TunnelProofs ----------------------------
(***************************************************************************)
(* Theorems about TunnelSession and TunnelPromise, for any configurations  *)
(* and routings, any number of attempts and any bound on the queue: the    *)
(* session's own record, its settings, who holds a core, what stands       *)
(* behind a session that promises a tunnel, and what the user's commands   *)
(* make of it.                                                             *)
(***************************************************************************)
EXTENDS TunnelPromise, TLAPS

(***************************************************************************)
(* The steps handlers share keep the owner's record well formed.           *)
(***************************************************************************)
LEMMA JoinedType == ASSUME NEW o \in OwnerType PROVE Joined(o) \in OwnerType
  BY DEF Joined, OwnerType, MaybeAttempt

LEMMA TornDownType == ASSUME NEW o \in OwnerType PROVE TornDown(o) \in OwnerType
  BY JoinedType DEF TornDown, OwnerType, MaybeAttempt

LEMMA ScheduledReconnectType ==
  ASSUME NEW o \in OwnerType PROVE ScheduledReconnect(o) \in OwnerType
  BY DEF ScheduledReconnect, OwnerType, States, Timers

LEMMA DisconnectedVpnType ==
  ASSUME NEW o \in OwnerType PROVE DisconnectedVpn(o) \in OwnerType
  BY TornDownType DEF DisconnectedVpn, OwnerType, States

LEMMA LoadedType ==
  ASSUME NEW o \in OwnerType, NEW c \in Configs PROVE Loaded(o, c) \in OwnerType
  BY DEF Loaded, OwnerType, States

LEMMA ReloadedType ==
  ASSUME NEW o \in OwnerType PROVE Reloaded(o) \in OwnerType
  <1>1. CASE o.config
    BY <1>1 DEF Reloaded
  <1>2. CASE ~o.config /\ o.lastToml = NoConfig
    BY <1>2 DEF Reloaded, OwnerType, States
  <1>3. CASE ~o.config /\ o.lastToml # NoConfig
    <2>1. o.lastToml \in Configs
      BY <1>3 DEF OwnerType
    <2> QED BY <1>3, <2>1, LoadedType DEF Reloaded
  <1> QED BY <1>1, <1>2, <1>3

LEMMA AfterCoreEventType ==
  ASSUME NEW o \in OwnerType, NEW e \in CoreEvents PROVE AfterCoreEvent(o, e) \in OwnerType
  <1> DEFINE lost == [o EXCEPT !.timers = @ \ {"networkWait"}]
  <1>1. lost \in OwnerType
    BY DEF OwnerType, Timers
  <1>2. ScheduledReconnect(lost) \in OwnerType
    BY <1>1, ScheduledReconnectType
  <1>3. CASE e = "DISCONNECTED"
    BY <1>2, <1>3 DEF AfterCoreEvent
  <1>4. CASE e = "CONNECTED"
    BY <1>4 DEF AfterCoreEvent, OwnerType, States, Timers
  <1>5. CASE e = "CONNECTING"
    BY <1>5 DEF AfterCoreEvent, OwnerType, States, Timers
  <1>6. CASE e = "RECOVERING"
    BY <1>6 DEF AfterCoreEvent, OwnerType, States, Timers
  <1>7. CASE e = "WAITING_FOR_NETWORK"
    BY <1>7 DEF AfterCoreEvent, OwnerType, States, Timers
  <1> QED BY <1>3, <1>4, <1>5, <1>6, <1>7 DEF CoreEvents

LEMMA RoutingAppliedType ==
  ASSUME NEW o \in OwnerType PROVE RoutingApplied(o) \in OwnerType
  BY DEF RoutingApplied, OwnerType

(***************************************************************************)
(* The cores, the queue and its messages.                                  *)
(***************************************************************************)
LEMMA RetireType ==
  ASSUME core \in [Attempts -> CoreType], NEW c
  PROVE  Retire(c) \in [Attempts -> CoreType]
  BY DEF Retire, CoreType, CoreStatus

LEMMA CoreRoutedType ==
  ASSUME core \in [Attempts -> CoreType], NEW o \in OwnerType
  PROVE  CoreRouted(o) \in [Attempts -> CoreType]
  BY DEF CoreRouted, NeedsRouting, CoreType, OwnerType, MaybeAttempt

LEMMA HeadTail ==
  ASSUME queue \in Seq(Messages), queue # <<>>
  PROVE  Head(queue) \in Messages /\ Tail(queue) \in Seq(Messages)
  OBVIOUS

\* What the fields of a posted call range over, by its kind.
LEMMA MessageFields ==
  ASSUME NEW m \in Messages
  PROVE  /\ m.kind = "connect" => m.config \in Configs
         /\ m.kind = "setSplitRouting" => m.routing \in Routings
         /\ m.kind = "setKillSwitch" => m.enabled \in BOOLEAN
         /\ m.kind = "coreEvent" => m.session \in Attempts /\ m.event \in CoreEvents
         /\ m.kind = "adopt" => m.attempt \in Attempts /\ m.outcome \in Outcomes
         /\ m.kind = "rescue" => m.attempt \in Attempts
  BY DEF Messages

LEMMA MessagesPosted ==
  ASSUME NEW a \in Attempts
  PROVE  /\ \A x \in Outcomes : [kind |-> "adopt", attempt |-> a, outcome |-> x] \in Messages
         /\ \A e \in CoreEvents : [kind |-> "coreEvent", session |-> a, event |-> e] \in Messages
         /\ [kind |-> "rescue", attempt |-> a] \in Messages
  BY DEF Messages

(***************************************************************************)
(* Type correctness.                                                       *)
(***************************************************************************)
LEMMA JoinRescuesType ==
  ASSUME TypeOK, JoinRescues
  PROVE  rescued' \subseteq Attempts
  BY DEF TypeOK, JoinRescues, Running, OwnerType, MaybeAttempt

LEMMA TeardownClientType ==
  ASSUME TypeOK, NEW o \in OwnerType, TeardownClient(o)
  PROVE  owner' \in OwnerType /\ core' \in [Attempts -> CoreType] /\ rescued' \subseteq Attempts
  BY JoinRescuesType, RetireType DEF TeardownClient, TypeOK

LEMMA AttemptType ==
  ASSUME TypeOK, NEW o \in OwnerType, NEW a \in Attempts, Attempt(o, a)
  PROVE  /\ owner' \in OwnerType
         /\ worker' \in [Attempts -> WorkerType]
         /\ core' \in [Attempts -> CoreType]
  <1> DEFINE r == Reloaded([o EXCEPT !.attemptGen = a])
  <1>1. r \in OwnerType
    <2>1. [o EXCEPT !.attemptGen = a] \in OwnerType
      BY DEF OwnerType, MaybeAttempt
    <2> QED BY <2>1, ReloadedType
  <1>2. CASE r.state = "Error" /\ ~r.config
    BY <1>1, <1>2 DEF Attempt, TypeOK
  <1>3. CASE ~(r.state = "Error" /\ ~r.config)
    <2> HIDE DEF r
    <2>1. owner' \in OwnerType
      <3> DEFINE st == IF r.state = "Connecting" \/ r.client = NoAttempt
                       THEN "Connecting" ELSE "Reconnecting"
      <3>1. owner' = [r EXCEPT !.state = st, !.config = FALSE, !.client = NoAttempt,
                               !.sessionGen = a, !.thread = a]
        BY <1>3 DEF Attempt, r
      <3>2. st \in States
        BY DEF States
      <3> HIDE DEF st
      <3> QED BY <3>1, <3>2, <1>1 DEF OwnerType, MaybeAttempt
    <2>2. worker' \in [Attempts -> WorkerType]
      <3>1. worker' = [worker EXCEPT ![a] =
                [at |-> IF r.client = NoAttempt THEN "building" ELSE "retiring",
                 outcome |-> "Retry", retired |-> r.client]]
        BY <1>3 DEF Attempt, r
      <3>2. r.client \in MaybeAttempt
        BY <1>1 DEF OwnerType
      <3> QED BY <3>1, <3>2 DEF TypeOK, WorkerType, WorkerSteps, Outcomes
    <2>3. core' \in [Attempts -> CoreType]
      <3>1. core' = [core EXCEPT ![a] =
                [status |-> "none", routing |-> r.routing, config |-> r.lastToml]]
        BY <1>3 DEF Attempt, r
      <3>2. r.routing \in Routings /\ r.lastToml \in Configs \cup {NoConfig}
        BY <1>1 DEF OwnerType
      <3> QED BY <3>1, <3>2 DEF TypeOK, CoreType, CoreStatus
    <2> QED BY <2>1, <2>2, <2>3
  <1> QED BY <1>2, <1>3

LEMMA DoConnectAttemptType ==
  ASSUME TypeOK, NEW o \in OwnerType, DoConnectAttempt(o)
  PROVE  /\ owner' \in OwnerType
         /\ worker' \in [Attempts -> WorkerType]
         /\ core' \in [Attempts -> CoreType]
  <1>1. CASE o.stopRequested
    BY <1>1 DEF DoConnectAttempt, TypeOK
  <1>2. CASE ~o.stopRequested
    <2>1. PICK a \in FreeSlots : Attempt(o, a)
      BY <1>2 DEF DoConnectAttempt
    <2> QED BY <2>1, AttemptType DEF FreeSlots
  <1> QED BY <1>1, <1>2

LEMMA StartConnectType ==
  ASSUME TypeOK, NEW o \in OwnerType, NEW c \in Configs, StartConnect(o, c)
  PROVE  /\ owner' \in OwnerType
         /\ worker' \in [Attempts -> WorkerType]
         /\ core' \in [Attempts -> CoreType]
         /\ rescued' \subseteq Attempts
  <1>1. CASE c \in BadConfigs
    BY <1>1, LoadedType DEF StartConnect, TypeOK
  <1>2. CASE c \notin BadConfigs
    <2> DEFINE l == Loaded(Joined(o), c)
               s == [l EXCEPT !.stopRequested = FALSE, !.state = "Connecting",
                              !.timers = (@ \ {"reconnect"}) \cup {"fdWatchdog"}]
    <2>1. l \in OwnerType
      BY JoinedType, LoadedType
    <2>2. s \in OwnerType
      <3> HIDE DEF l
      <3> QED BY <2>1 DEF OwnerType, States, Timers
    <2>3. JoinRescues /\ DoConnectAttempt(s)
      BY <1>2 DEF StartConnect
    <2> QED BY <2>2, <2>3, DoConnectAttemptType, JoinRescuesType
  <1> QED BY <1>1, <1>2

LEMMA ForceReconnectType ==
  ASSUME TypeOK, NEW o \in OwnerType, ForceReconnect(o)
  PROVE  owner' \in OwnerType /\ core' \in [Attempts -> CoreType] /\ rescued' \subseteq Attempts
  BY TornDownType, ScheduledReconnectType, TeardownClientType DEF ForceReconnect

\* An owner step on the head of the queue leaves well-formed calls behind it.
LEMMA ReceiveType ==
  ASSUME TypeOK, NEW kind, Receive(kind)
  PROVE  /\ Head(queue) \in Messages /\ Head(queue).kind = kind
         /\ queue' \in Seq(Messages)
  BY HeadTail DEF Receive, TypeOK

LEMMA TypeInit == Init => TypeOK
  <1> SUFFICES ASSUME Init PROVE TypeOK
    OBVIOUS
  <1>1. owner \in OwnerType
    BY DEF Init, OwnerType, MaybeAttempt, States
  <1>2. queue \in Seq(Messages)
    BY DEF Init
  <1>3. worker \in [Attempts -> WorkerType]
    BY DEF Init, WorkerType, WorkerSteps, Outcomes, MaybeAttempt
  <1>4. core \in [Attempts -> CoreType]
    BY <1>1 DEF Init, CoreType, CoreStatus, OwnerType
  <1> QED BY <1>1, <1>2, <1>3, <1>4 DEF Init, TypeOK

LEMMA TypeOwnerStep == TypeOK /\ OwnerStep => TypeOK'
  <1> SUFFICES ASSUME TypeOK, OwnerStep PROVE TypeOK'
    OBVIOUS
  <1> USE DEF TypeOK
  <1>1. CASE ConnectNow
    <2>1. Head(queue).config \in Configs /\ queue' \in Seq(Messages)
      BY <1>1, ReceiveType, MessageFields DEF ConnectNow
    <2> QED BY <1>1, <2>1, StartConnectType DEF ConnectNow
  <1>2. CASE ConnectAfterTeardown
    <2>1. Head(queue).config \in Configs /\ queue' \in Seq(Messages)
      BY <1>2, ReceiveType, MessageFields DEF ConnectAfterTeardown
    <2> DEFINE o == [DisconnectedVpn(owner) EXCEPT !.delayed = Head(queue).config]
    <2>2. o \in OwnerType
      <3>1. DisconnectedVpn(owner) \in OwnerType
        BY DisconnectedVpnType
      <3> QED BY <2>1, <3>1 DEF OwnerType
    <2> QED BY <1>2, <2>1, <2>2, TeardownClientType DEF ConnectAfterTeardown
  <1>3. CASE DisconnectVpn
    BY <1>3, ReceiveType, DisconnectedVpnType, TeardownClientType DEF DisconnectVpn
  <1>4. CASE Quit
    <2>1. /\ queue' = <<>> /\ alive' = FALSE
          /\ UNCHANGED <<worker, detached>>
      BY <1>4 DEF Quit
    <2>2. owner' \in OwnerType /\ core' \in [Attempts -> CoreType] /\ rescued' \subseteq Attempts
      BY <1>4, DisconnectedVpnType, TeardownClientType DEF Quit
    <2>3. queue' \in Seq(Messages)
      BY <2>1
    <2> QED BY <2>1, <2>2, <2>3
  <1>5. CASE SetSplitRouting
    <2>1. Head(queue).routing \in Routings /\ queue' \in Seq(Messages)
      BY <1>5, ReceiveType, MessageFields DEF SetSplitRouting
    <2> DEFINE o == [owner EXCEPT !.routing = Head(queue).routing]
    <2>2. o \in OwnerType
      BY <2>1 DEF OwnerType
    <2> QED BY <1>5, <2>1, <2>2, RoutingAppliedType, CoreRoutedType DEF SetSplitRouting
  <1>6. CASE SetKillSwitch
    <2>1. Head(queue).enabled \in BOOLEAN /\ queue' \in Seq(Messages)
      BY <1>6, ReceiveType, MessageFields DEF SetKillSwitch
    <2>2. owner' \in OwnerType
      BY <1>6, <2>1 DEF SetKillSwitch, OwnerType
    <2> QED BY <1>6, <2>1, <2>2 DEF SetKillSwitch
  <1>7. CASE CoreStateChanged
    <2>1. Head(queue).event \in CoreEvents /\ queue' \in Seq(Messages)
      BY <1>7, ReceiveType, MessageFields DEF CoreStateChanged
    <2> QED BY <1>7, <2>1, AfterCoreEventType DEF CoreStateChanged
  <1>8. CASE DropStaleAttempt
    BY <1>8, ReceiveType, MessageFields DEF DropStaleAttempt
  <1>9. CASE AdoptSession
    <2> DEFINE a == Head(queue).attempt
               o == [owner EXCEPT !.client = a, !.sessionRouting = core[a].routing]
    <2>1. a \in Attempts /\ queue' \in Seq(Messages)
      BY <1>9, ReceiveType, MessageFields DEF AdoptSession
    <2>2. o \in OwnerType
      BY <2>1 DEF OwnerType, MaybeAttempt, CoreType
    <2>3. owner' = RoutingApplied(o) /\ core' = CoreRouted(o)
      BY <1>9 DEF AdoptSession
    <2> HIDE DEF o
    <2> QED BY <1>9, <2>1, <2>2, <2>3, RoutingAppliedType, CoreRoutedType DEF AdoptSession
  <1>10. CASE AdoptFailure
    <2>1. Head(queue).outcome \in Outcomes /\ queue' \in Seq(Messages)
      BY <1>10, ReceiveType, MessageFields DEF AdoptFailure
    <2>2. owner' \in OwnerType
      <3>1. [owner EXCEPT !.state = "Error"] \in OwnerType
        BY DEF OwnerType, States
      <3>2. [owner EXCEPT !.stopRequested = TRUE, !.state = "Error"] \in OwnerType
        BY DEF OwnerType, States
      <3> QED BY <1>10, <3>1, <3>2, ScheduledReconnectType DEF AdoptFailure
    <2> QED BY <1>10, <2>1, <2>2 DEF AdoptFailure
  <1>11. CASE AdoptNotElevated
    <2> DEFINE o == [TornDown(owner) EXCEPT !.stopRequested = TRUE, !.state = "Error"]
    <2>1. o \in OwnerType
      <3>1. TornDown(owner) \in OwnerType
        BY TornDownType
      <3> QED BY <3>1 DEF OwnerType, States
    <2> QED BY <1>11, <2>1, ReceiveType, TeardownClientType DEF AdoptNotElevated
  <1>12. CASE RetireRescued
    BY <1>12, ReceiveType, RetireType DEF RetireRescued
  <1> QED BY <1>1, <1>2, <1>3, <1>4, <1>5, <1>6, <1>7, <1>8, <1>9, <1>10, <1>11, <1>12
          DEF OwnerStep, StartCommand, StopCommand, ServeStep

LEMMA TypeTimerStep == TypeOK /\ TimerStep => TypeOK'
  <1> SUFFICES ASSUME TypeOK, TimerStep PROVE TypeOK'
    OBVIOUS
  <1> USE DEF TypeOK
  <1>1. CASE DelayedStart
    <2>1. [owner EXCEPT !.delayed = NoConfig] \in OwnerType /\ owner.delayed \in Configs
      BY <1>1 DEF DelayedStart, OwnerType
    <2> QED BY <1>1, <2>1, StartConnectType DEF DelayedStart
  <1>2. CASE ReconnectTimeout
    <2>1. [owner EXCEPT !.timers = @ \ {"reconnect"}] \in OwnerType
      BY DEF OwnerType
    <2>2. Joined([owner EXCEPT !.timers = @ \ {"reconnect"}]) \in OwnerType
      BY <2>1, JoinedType
    <2> QED BY <1>2, <2>2, DoConnectAttemptType, JoinRescuesType DEF ReconnectTimeout
  <1>3. CASE NetworkWaitTimeout
    <2> DEFINE o == [owner EXCEPT !.timers = @ \ {"networkWait"}]
    <2>1. o \in OwnerType
      BY DEF OwnerType
    <2>2. \/ owner' = o /\ UNCHANGED <<core, rescued>>
          \/ UNCHANGED <<owner, core, rescued>>
          \/ ForceReconnect(o)
      BY <1>3 DEF NetworkWaitTimeout
    <2> QED BY <1>3, <2>1, <2>2, ForceReconnectType DEF NetworkWaitTimeout
  <1>4. CASE FdLeakFound
    BY <1>4, ForceReconnectType DEF FdLeakFound
  <1> QED BY <1>1, <1>2, <1>3, <1>4 DEF TimerStep

LEMMA AppendType ==
  ASSUME queue \in Seq(Messages), NEW m \in Messages
  PROVE  Append(queue, m) \in Seq(Messages)
  OBVIOUS

LEMMA EndsType ==
  ASSUME worker \in [Attempts -> WorkerType], NEW a \in Attempts, NEW x \in Outcomes,
         Ends(a, x)
  PROVE  worker' \in [Attempts -> WorkerType]
  <1>1. [worker[a] EXCEPT !.at = "handover", !.outcome = x] \in WorkerType
    BY DEF WorkerType, WorkerSteps
  <1>2. worker' = [worker EXCEPT ![a] = [worker[a] EXCEPT !.at = "handover", !.outcome = x]]
    BY DEF Ends
  <1> QED BY <1>1, <1>2

LEMMA TypeWorkerStep ==
  ASSUME TypeOK, NEW a \in Attempts, WorkerStep(a) \/ RetireDetached(a)
  PROVE  TypeOK'
  <1> USE DEF TypeOK
  <1>1. CASE RetirePrevious(a)
    <2>1. worker' \in [Attempts -> WorkerType]
      BY <1>1 DEF RetirePrevious, WorkerType, WorkerSteps, MaybeAttempt
    <2> QED BY <1>1, <2>1, RetireType DEF RetirePrevious
  <1>2. CASE BuildFails(a)
    <2>1. worker' \in [Attempts -> WorkerType]
      BY <1>2, EndsType DEF BuildFails, Outcomes
    <2> QED BY <1>2, <2>1 DEF BuildFails
  <1>3. CASE Establish(a)
    <2>1. worker' \in [Attempts -> WorkerType]
      BY <1>3 DEF Establish, Goto, WorkerType, WorkerSteps
    <2>2. core' \in [Attempts -> CoreType]
      BY <1>3 DEF Establish, CoreType, CoreStatus
    <2> QED BY <1>3, <2>1, <2>2 DEF Establish
  <1>4. CASE Established(a)
    <2>1. worker' \in [Attempts -> WorkerType]
      BY <1>4, EndsType DEF Established, Outcomes
    <2> QED BY <1>4, <2>1 DEF Established
  <1>5. CASE EstablishFails(a)
    <2>1. worker' \in [Attempts -> WorkerType]
      BY <1>5, EndsType DEF EstablishFails, Outcomes
    <2> QED BY <1>5, <2>1, RetireType DEF EstablishFails
  <1>6. CASE HandOver(a)
    <2>1. worker' \in [Attempts -> WorkerType]
      <3>1. [worker[a] EXCEPT !.at = "exiting", !.outcome = "Retry"] \in WorkerType
        BY DEF WorkerType, WorkerSteps, Outcomes
      <3>2. worker' = [worker EXCEPT ![a] =
                          [worker[a] EXCEPT !.at = "exiting", !.outcome = "Retry"]]
        BY <1>6 DEF HandOver
      <3> QED BY <3>1, <3>2
    <2>2. worker[a].outcome \in Outcomes
      BY DEF WorkerType
    <2>3. queue' \in Seq(Messages)
      BY <1>6, <2>2, MessagesPosted, AppendType DEF HandOver
    <2>4. core' \in [Attempts -> CoreType]
      BY <1>6, RetireType DEF HandOver
    <2> QED BY <1>6, <2>1, <2>3, <2>4 DEF HandOver
  <1>7. CASE Exit(a)
    <2>1. worker' \in [Attempts -> WorkerType]
      BY <1>7 DEF Exit, Goto, WorkerType, WorkerSteps
    <2>2. queue' \in Seq(Messages)
      BY <1>7, MessagesPosted, AppendType DEF Exit
    <2>3. owner' \in OwnerType
      BY <1>7 DEF Exit, OwnerType, MaybeAttempt
    <2> QED BY <1>7, <2>1, <2>2, <2>3 DEF Exit
  <1>8. CASE RetireDetached(a)
    BY <1>8, RetireType DEF RetireDetached
  <1> QED BY <1>1, <1>2, <1>3, <1>4, <1>5, <1>6, <1>7, <1>8 DEF WorkerStep

LEMMA TypeOutside == TypeOK /\ Outside => TypeOK'
  <1> SUFFICES ASSUME TypeOK, Outside PROVE TypeOK'
    OBVIOUS
  <1> USE DEF TypeOK
  <1>1. CASE \E a \in Attempts, event \in CoreEvents : CoreReports(a, event)
    <2>1. PICK a \in Attempts, event \in CoreEvents : CoreReports(a, event)
      BY <1>1
    <2>2. core' \in [Attempts -> CoreType]
      BY <2>1 DEF CoreReports, CoreType, CoreStatus
    <2>3. queue' \in Seq(Messages)
      BY <2>1, MessagesPosted, AppendType DEF CoreReports, Post
    <2> QED BY <2>1, <2>2, <2>3 DEF CoreReports, Post
  <1>2. CASE \E m \in Commands : Command(m)
    BY <1>2, AppendType DEF Command, Commands, Post
  <1>3. CASE Leave
    <2>1. [kind |-> "quit"] \in Messages
      BY DEF Messages
    <2> QED BY <1>3, <2>1, AppendType DEF Leave, Post
  <1> QED BY <1>1, <1>2, <1>3 DEF Outside

\* A step of the specification is one of the owner, of a worker or of the outside.
LEMMA Steps ==
  ASSUME Next
  PROVE  \/ OwnerStep \/ TimerStep \/ Outside
         \/ \E a \in Attempts : WorkerStep(a) \/ RetireDetached(a)
  BY DEF Next, Unasked, OwnerStep

LEMMA TypeStep == TypeOK /\ [Next]_vars => TypeOK'
  <1>1. ASSUME TypeOK, Next PROVE TypeOK'
    BY <1>1, Steps, TypeOwnerStep, TypeTimerStep, TypeWorkerStep, TypeOutside
  <1>2. ASSUME TypeOK, UNCHANGED vars PROVE TypeOK'
    BY <1>2 DEF TypeOK, vars
  <1> QED BY <1>1, <1>2

\* Every field of the object, every posted call, worker and core stays within its
\* type, whatever the threads do and however many attempts there are.
THEOREM TypeCorrect == Spec => []TypeOK
  BY TypeInit, TypeStep, PTL DEF Spec

(***************************************************************************)
(* After its destruction.                                                  *)
(***************************************************************************)

\* No core callback, worker or command posts a call to the destroyed object: each
\* looks at guard.alive first.
THEOREM DestroyedIsLeftAlone == Spec => []NoCallAfterDestruction
  <1>1. Init => NoCallAfterDestruction
    BY DEF Init, NoCallAfterDestruction
  <1>2. NoCallAfterDestruction /\ [Next]_vars => NoCallAfterDestruction'
    <2> SUFFICES ASSUME NoCallAfterDestruction, [Next]_vars PROVE NoCallAfterDestruction'
      OBVIOUS
    <2> USE DEF NoCallAfterDestruction
    <2>1. CASE OwnerStep
      BY <2>1 DEF OwnerStep, StartCommand, StopCommand, ServeStep, ConnectNow,
            ConnectAfterTeardown, DisconnectVpn, Quit, SetSplitRouting, SetKillSwitch,
            CoreStateChanged, DropStaleAttempt, AdoptSession, AdoptFailure,
            AdoptNotElevated, RetireRescued, Receive
    <2>2. CASE TimerStep
      BY <2>2 DEF TimerStep, DelayedStart, ReconnectTimeout, NetworkWaitTimeout, FdLeakFound
    <2>3. ASSUME NEW a \in Attempts, WorkerStep(a) \/ RetireDetached(a)
          PROVE  NoCallAfterDestruction'
      BY <2>3 DEF WorkerStep, RetireDetached, RetirePrevious, BuildFails, Establish,
            Established, EstablishFails, HandOver, Wanted, Exit
    <2>4. CASE Outside
      <3>1. HasRoom /\ alive' = alive
        BY <2>4 DEF Outside, CoreReports, Command, Leave, Post
      <3> QED BY <3>1 DEF HasRoom
    <2>5. CASE UNCHANGED vars
      BY <2>5 DEF vars
    <2> QED BY <2>1, <2>2, <2>3, <2>4, <2>5, Steps
  <1> QED BY <1>1, <1>2, PTL DEF Spec

(***************************************************************************)
(* Disconnected is off.  The owner's handlers either end off, or leave a   *)
(* state that is not Disconnected, or change nothing that matters.         *)
(***************************************************************************)
Off(o) == /\ o.client = NoAttempt /\ o.timers = {}
          /\ o.attemptGen = NoAttempt /\ o.sessionGen = NoAttempt

LEMMA DisconnectedVpnIsOff ==
  ASSUME NEW o \in OwnerType
  PROVE  Off(DisconnectedVpn(o)) /\ DisconnectedVpn(o).state = "Disconnected"
         /\ DisconnectedVpn(o).delayed = NoConfig
  <1>1. TornDown(o) \in OwnerType
    BY TornDownType
  <1>2. /\ TornDown(o).client = NoAttempt /\ TornDown(o).attemptGen = NoAttempt
        /\ TornDown(o).sessionGen = NoAttempt
    <2>1. Joined(o) \in OwnerType
      BY JoinedType
    <2> QED BY <2>1 DEF TornDown, OwnerType
  <1> QED BY <1>1, <1>2 DEF DisconnectedVpn, Off, OwnerType

LEMMA ReconnectIsUp ==
  ASSUME NEW o \in OwnerType, o.state # "Disconnected"
  PROVE  ScheduledReconnect(o).state # "Disconnected"
  BY DEF ScheduledReconnect, OwnerType

LEMMA TornDownKeepsState ==
  ASSUME NEW o \in OwnerType
  PROVE  Joined(o).state = o.state /\ TornDown(o).state = o.state
  BY JoinedType DEF TornDown, Joined, OwnerType

LEMMA AttemptIsUp ==
  ASSUME TypeOK, NEW o \in OwnerType, NEW a \in Attempts, Attempt(o, a)
  PROVE  owner'.state # "Disconnected"
  <1> DEFINE r == Reloaded([o EXCEPT !.attemptGen = a])
  <1>1. r \in OwnerType
    <2>1. [o EXCEPT !.attemptGen = a] \in OwnerType
      BY DEF OwnerType, MaybeAttempt
    <2> QED BY <2>1, ReloadedType
  <1>2. CASE r.state = "Error" /\ ~r.config
    BY <1>2 DEF Attempt
  <1>3. CASE ~(r.state = "Error" /\ ~r.config)
    <2> DEFINE st == IF r.state = "Connecting" \/ r.client = NoAttempt
                     THEN "Connecting" ELSE "Reconnecting"
    <2>1. owner' = [r EXCEPT !.state = st, !.config = FALSE, !.client = NoAttempt,
                             !.sessionGen = a, !.thread = a]
      BY <1>3 DEF Attempt
    <2> HIDE DEF r
    <2> QED BY <1>1, <2>1 DEF OwnerType
  <1> QED BY <1>2, <1>3

LEMMA StartConnectIsUp ==
  ASSUME TypeOK, NEW o \in OwnerType, NEW c \in Configs, StartConnect(o, c)
  PROVE  owner'.state # "Disconnected"
  <1>1. CASE c \in BadConfigs
    BY <1>1 DEF StartConnect, Loaded, OwnerType
  <1>2. CASE c \notin BadConfigs
    <2> DEFINE l == Loaded(Joined(o), c)
               s == [l EXCEPT !.stopRequested = FALSE, !.state = "Connecting",
                              !.timers = (@ \ {"reconnect"}) \cup {"fdWatchdog"}]
    <2>1. l \in OwnerType
      BY JoinedType, LoadedType
    <2>2. DoConnectAttempt(s)
      BY <1>2 DEF StartConnect
    <2> HIDE DEF l
    <2>3. s \in OwnerType /\ ~s.stopRequested
      BY <2>1 DEF OwnerType, States, Timers
    <2>4. PICK a \in FreeSlots : Attempt(s, a)
      BY <2>2, <2>3 DEF DoConnectAttempt
    <2> HIDE DEF s
    <2> QED BY <2>3, <2>4, AttemptIsUp DEF FreeSlots
  <1> QED BY <1>1, <1>2

LEMMA ForceReconnectIsUp ==
  ASSUME NEW o \in OwnerType, o.state # "Disconnected", ForceReconnect(o)
  PROVE  owner'.state # "Disconnected"
  BY TornDownType, TornDownKeepsState, ReconnectIsUp DEF ForceReconnect, TeardownClient

LEMMA OffOwnerStep == TypeOK /\ DisconnectedIsOff /\ OwnerStep => DisconnectedIsOff'
  <1> SUFFICES ASSUME TypeOK, DisconnectedIsOff, OwnerStep PROVE DisconnectedIsOff'
    OBVIOUS
  <1> USE AttemptsAssumption
  <1>0. owner \in OwnerType
    BY DEF TypeOK
  <1>1. CASE ConnectNow
    <2>1. Head(queue).config \in Configs
      BY <1>1, ReceiveType, MessageFields DEF ConnectNow
    <2> QED BY <1>0, <1>1, <2>1, StartConnectIsUp DEF ConnectNow, DisconnectedIsOff
  <1>2. CASE ConnectAfterTeardown
    <2>1. DisconnectedVpn(owner) \in OwnerType /\ Off(DisconnectedVpn(owner))
      BY <1>0, DisconnectedVpnType, DisconnectedVpnIsOff
    <2>2. owner' = [DisconnectedVpn(owner) EXCEPT !.delayed = Head(queue).config]
      BY <1>2 DEF ConnectAfterTeardown, TeardownClient
    <2> QED BY <2>1, <2>2 DEF OwnerType, Off, DisconnectedIsOff
  <1>3. CASE DisconnectVpn \/ Quit
    <2>1. owner' = DisconnectedVpn(owner)
      BY <1>3 DEF DisconnectVpn, Quit, TeardownClient
    <2> QED BY <1>0, <2>1, DisconnectedVpnIsOff DEF Off, DisconnectedIsOff
  <1>4. CASE SetSplitRouting
    <2> DEFINE o == [owner EXCEPT !.routing = Head(queue).routing]
    <2>1. owner' = RoutingApplied(o)
      BY <1>4 DEF SetSplitRouting
    <2> QED BY <1>0, <2>1 DEF RoutingApplied, OwnerType, DisconnectedIsOff
  <1>5. CASE SetKillSwitch
    BY <1>0, <1>5 DEF SetKillSwitch, OwnerType, DisconnectedIsOff
  <1>6. CASE CoreStateChanged
    <2>1. Head(queue).session \in Attempts /\ Head(queue).event \in CoreEvents
      BY <1>6, ReceiveType, MessageFields DEF CoreStateChanged
    <2>2. CASE Head(queue).session = owner.sessionGen /\ ~owner.stopRequested
      <3>1. owner.state # "Disconnected" /\ owner' = AfterCoreEvent(owner, Head(queue).event)
        BY <1>6, <2>1, <2>2 DEF CoreStateChanged, DisconnectedIsOff
      <3>2. [owner EXCEPT !.timers = @ \ {"networkWait"}] \in OwnerType
        BY <1>0 DEF OwnerType
      <3>3. owner'.state # "Disconnected"
        BY <1>0, <2>1, <3>1, <3>2, ReconnectIsUp DEF AfterCoreEvent, CoreEvents, OwnerType
      <3> QED BY <3>3 DEF DisconnectedIsOff
    <2>3. CASE ~(Head(queue).session = owner.sessionGen /\ ~owner.stopRequested)
      BY <1>6, <2>3 DEF CoreStateChanged, DisconnectedIsOff
    <2> QED BY <2>2, <2>3
  <1>7. CASE DropStaleAttempt \/ RetireRescued
    BY <1>7 DEF DropStaleAttempt, RetireRescued, DisconnectedIsOff
  <1>8. CASE AdoptSession \/ AdoptFailure \/ AdoptNotElevated
    <2>1. Head(queue).attempt \in Attempts /\ Head(queue).attempt = owner.attemptGen
      BY <1>8, ReceiveType, MessageFields DEF AdoptSession, AdoptFailure, AdoptNotElevated
    <2>2. owner.state # "Disconnected"
      BY <2>1 DEF DisconnectedIsOff
    <2>3. CASE AdoptSession
      <3> DEFINE a == Head(queue).attempt
                 o == [owner EXCEPT !.client = a, !.sessionRouting = core[a].routing]
      <3>1. owner' = RoutingApplied(o)
        BY <2>3 DEF AdoptSession
      <3> QED BY <1>0, <2>2, <3>1 DEF RoutingApplied, OwnerType, DisconnectedIsOff
    <2>4. CASE AdoptFailure
      BY <1>0, <2>2, <2>4, ReconnectIsUp DEF AdoptFailure, OwnerType, DisconnectedIsOff
    <2>5. CASE AdoptNotElevated
      <3>1. owner' = [TornDown(owner) EXCEPT !.stopRequested = TRUE, !.state = "Error"]
        BY <2>5 DEF AdoptNotElevated, TeardownClient
      <3>2. TornDown(owner) \in OwnerType
        BY <1>0, TornDownType
      <3> QED BY <3>1, <3>2 DEF OwnerType, DisconnectedIsOff
    <2> QED BY <1>8, <2>3, <2>4, <2>5
  <1> QED BY <1>1, <1>2, <1>3, <1>4, <1>5, <1>6, <1>7, <1>8
          DEF OwnerStep, StartCommand, StopCommand, ServeStep

LEMMA OffTimerStep == TypeOK /\ DisconnectedIsOff /\ TimerStep => DisconnectedIsOff'
  <1> SUFFICES ASSUME TypeOK, DisconnectedIsOff, TimerStep PROVE DisconnectedIsOff'
    OBVIOUS
  <1>0. owner \in OwnerType
    BY DEF TypeOK
  <1>1. CASE DelayedStart
    <2>1. [owner EXCEPT !.delayed = NoConfig] \in OwnerType /\ owner.delayed \in Configs
      BY <1>0, <1>1 DEF DelayedStart, OwnerType
    <2> QED BY <1>1, <2>1, StartConnectIsUp DEF DelayedStart, DisconnectedIsOff
  <1>2. CASE ReconnectTimeout
    <2> DEFINE o == [owner EXCEPT !.timers = @ \ {"reconnect"}]
    <2>1. owner.state # "Disconnected"
      BY <1>2 DEF ReconnectTimeout, DisconnectedIsOff
    <2>2. o \in OwnerType /\ o.state = owner.state
      BY <1>0 DEF OwnerType
    <2>3. Joined(o) \in OwnerType /\ Joined(o).state # "Disconnected"
      BY <2>1, <2>2, JoinedType, TornDownKeepsState
    <2>4. DoConnectAttempt(Joined(o))
      BY <1>2 DEF ReconnectTimeout
    <2> HIDE DEF o
    <2>5. CASE Joined(o).stopRequested
      BY <2>3, <2>4, <2>5 DEF DoConnectAttempt, DisconnectedIsOff
    <2>6. CASE ~Joined(o).stopRequested
      <3>1. PICK a \in FreeSlots : Attempt(Joined(o), a)
        BY <2>4, <2>6 DEF DoConnectAttempt
      <3> QED BY <2>3, <3>1, AttemptIsUp DEF FreeSlots, DisconnectedIsOff
    <2> QED BY <2>5, <2>6
  <1>3. CASE NetworkWaitTimeout
    <2> DEFINE o == [owner EXCEPT !.timers = @ \ {"networkWait"}]
    <2>1. owner.state # "Disconnected"
      BY <1>3 DEF NetworkWaitTimeout, DisconnectedIsOff
    <2>2. o \in OwnerType /\ o.state = owner.state
      BY <1>0 DEF OwnerType
    <2>3. owner' = o \/ owner' = owner \/ ForceReconnect(o)
      BY <1>3 DEF NetworkWaitTimeout
    <2> HIDE DEF o
    <2> QED BY <2>1, <2>2, <2>3, ForceReconnectIsUp DEF DisconnectedIsOff
  <1>4. CASE FdLeakFound
    <2>1. owner.state # "Disconnected" /\ (owner' = owner \/ ForceReconnect(owner))
      BY <1>4 DEF FdLeakFound
    <2> QED BY <1>0, <2>1, ForceReconnectIsUp DEF DisconnectedIsOff
  <1> QED BY <1>1, <1>2, <1>3, <1>4 DEF TimerStep

\* What the other threads do to the object: nothing, but for the finished thread.
LEMMA OthersLeaveOwner ==
  ASSUME TypeOK,
         Outside \/ \E a \in Attempts : WorkerStep(a) \/ RetireDetached(a)
  PROVE  \/ owner' = owner
         \/ owner' = [owner EXCEPT !.thread = NoAttempt]
  BY DEF Outside, CoreReports, Command, Leave, Post, WorkerStep, RetirePrevious, BuildFails,
         Establish, Established, EstablishFails, HandOver, Exit, RetireDetached, TypeOK, OwnerType

LEMMA OffStep == TypeOK /\ DisconnectedIsOff /\ [Next]_vars => DisconnectedIsOff'
  <1> SUFFICES ASSUME TypeOK, DisconnectedIsOff, [Next]_vars PROVE DisconnectedIsOff'
    OBVIOUS
  <1>1. CASE Outside \/ \E a \in Attempts : WorkerStep(a) \/ RetireDetached(a)
    BY <1>1, OthersLeaveOwner DEF TypeOK, OwnerType, DisconnectedIsOff
  <1>2. CASE UNCHANGED vars
    BY <1>2 DEF vars, DisconnectedIsOff
  <1> QED BY <1>1, <1>2, Steps, OffOwnerStep, OffTimerStep

LEMMA OffInit == Init => DisconnectedIsOff
  BY DEF Init, DisconnectedIsOff

\* A Disconnected session has no core, no timer and no attempt behind it: nothing
\* can turn it into a running one but a new connect.
THEOREM DisconnectedHasNothingLeft == Spec => []DisconnectedIsOff
  BY OffInit, OffStep, TypeCorrect, PTL DEF Spec

-----------------------------------------------------------------------------
(***************************************************************************)
(* Theorems about the settings of TunnelSession: the core in use is the    *)
(* session the user has set, for any configurations, routings and number   *)
(* of attempts.                                                            *)
(***************************************************************************)

(***************************************************************************)
(* The routing.  What makes it inductive is the object's own idea of the   *)
(* core's routing, m_sessionRouting, being right.                          *)
(***************************************************************************)
SessionRoutingRight ==
    owner.client # NoAttempt => /\ core[owner.client].routing = owner.sessionRouting
                                /\ owner.sessionRouting = owner.routing

Keeps(o, p) == /\ p.client \in {o.client, NoAttempt}
               /\ p.routing = o.routing /\ p.sessionRouting = o.sessionRouting

LEMMA KeepsTrans ==
  ASSUME NEW o \in OwnerType, NEW p \in OwnerType, NEW q \in OwnerType,
         Keeps(o, p), Keeps(p, q)
  PROVE  Keeps(o, q)
  BY DEF Keeps

\* Every helper keeps the session's core or drops it, and touches no routing.
LEMMA HelpersKeep ==
  ASSUME NEW o \in OwnerType
  PROVE  /\ Keeps(o, Joined(o)) /\ Keeps(o, TornDown(o)) /\ Keeps(o, DisconnectedVpn(o))
         /\ Keeps(o, ScheduledReconnect(o))
         /\ \A c \in Configs : Keeps(o, Loaded(o, c))
         /\ \A e \in CoreEvents : Keeps(o, AfterCoreEvent(o, e))
  <1>1. Keeps(o, Joined(o))
    BY DEF Keeps, Joined, OwnerType
  <1>2. Keeps(o, TornDown(o))
    <2>1. Joined(o) \in OwnerType
      BY JoinedType
    <2> QED BY <1>1, <2>1 DEF Keeps, TornDown, OwnerType
  <1>3. Keeps(o, DisconnectedVpn(o))
    <2>1. TornDown(o) \in OwnerType
      BY TornDownType
    <2> QED BY <1>2, <2>1 DEF Keeps, DisconnectedVpn, OwnerType
  <1>4. ASSUME NEW p \in OwnerType PROVE Keeps(p, ScheduledReconnect(p))
    BY DEF Keeps, ScheduledReconnect, OwnerType
  <1>5. \A c \in Configs : Keeps(o, Loaded(o, c))
    BY DEF Keeps, Loaded, OwnerType
  <1>6. ASSUME NEW e \in CoreEvents PROVE Keeps(o, AfterCoreEvent(o, e))
    <2> DEFINE lost == [o EXCEPT !.timers = @ \ {"networkWait"}]
    <2>1. lost \in OwnerType /\ Keeps(o, lost)
      BY DEF Keeps, OwnerType
    <2>2. Keeps(o, ScheduledReconnect(lost))
      BY <1>4, <2>1, KeepsTrans, ScheduledReconnectType
    <2>3. CASE e = "DISCONNECTED"
      BY <2>2, <2>3 DEF AfterCoreEvent
    <2>4. CASE e # "DISCONNECTED"
      BY <2>4 DEF AfterCoreEvent, Keeps, CoreEvents, OwnerType
    <2> QED BY <2>3, <2>4
  <1> QED BY <1>1, <1>2, <1>3, <1>4, <1>5, <1>6

LEMMA RetireKeepsRouting ==
  ASSUME TypeOK, NEW c, NEW a \in Attempts
  PROVE  Retire(c)[a].routing = core[a].routing
  BY DEF Retire, TypeOK, CoreType

RoutingKept == \A a \in Attempts : core'[a].routing = core[a].routing

LEMMA KeptSession ==
  ASSUME TypeOK, SessionRoutingRight, Keeps(owner, owner'), RoutingKept
  PROVE  SessionRoutingRight'
  BY DEF SessionRoutingRight, Keeps, RoutingKept, TypeOK, OwnerType, MaybeAttempt

LEMMA TeardownKeeps ==
  ASSUME TypeOK, NEW o \in OwnerType, Keeps(owner, o), TeardownClient(o)
  PROVE  Keeps(owner, owner') /\ RoutingKept
  BY RetireKeepsRouting DEF TeardownClient, RoutingKept

\* An attempt takes the client with it, or leaves the session alone.
Started(o) == owner'.client = NoAttempt \/ (Keeps(o, owner') /\ core' = core)

LEMMA AttemptKeeps ==
  ASSUME TypeOK, NEW o \in OwnerType, NEW a \in Attempts, Attempt(o, a)
  PROVE  Started(o)
  <1> DEFINE g == [o EXCEPT !.attemptGen = a]
             r == Reloaded(g)
  <1>1. g \in OwnerType /\ Keeps(o, g)
    BY DEF OwnerType, MaybeAttempt, Keeps
  <1>2. r \in OwnerType
    BY <1>1, ReloadedType
  <1>3. CASE r.state = "Error" /\ ~r.config
    <2>1. owner' = r /\ core' = core
      BY <1>3 DEF Attempt
    <2>2. Keeps(g, r)
      <3> HIDE DEF g
      <3>1. Keeps(g, g)
        BY DEF Keeps
      <3>2. Keeps(g, [g EXCEPT !.state = "Error"])
        BY <1>1 DEF Keeps, OwnerType
      <3>3. g.lastToml # NoConfig => Keeps(g, Loaded(g, g.lastToml))
        BY <1>1, HelpersKeep DEF OwnerType
      <3> QED BY <3>1, <3>2, <3>3 DEF Reloaded
    <2> HIDE DEF r, g
    <2> QED BY <1>1, <1>2, <2>1, <2>2, KeepsTrans DEF Started
  <1>4. CASE ~(r.state = "Error" /\ ~r.config)
    <2> DEFINE st == IF r.state = "Connecting" \/ r.client = NoAttempt
                     THEN "Connecting" ELSE "Reconnecting"
    <2>1. owner' = [r EXCEPT !.state = st, !.config = FALSE, !.client = NoAttempt,
                             !.sessionGen = a, !.thread = a]
      BY <1>4 DEF Attempt
    <2>2. r \in OwnerType
      BY <1>2
    <2> HIDE DEF r, st
    <2>3. owner'.client = NoAttempt
      BY <2>1, <2>2 DEF OwnerType
    <2> QED BY <2>3 DEF Started
  <1> QED BY <1>3, <1>4

LEMMA DoConnectAttemptKeeps ==
  ASSUME TypeOK, NEW o \in OwnerType, DoConnectAttempt(o)
  PROVE  Started(o)
  <1>1. CASE o.stopRequested
    BY <1>1 DEF DoConnectAttempt, Started, Keeps
  <1>2. CASE ~o.stopRequested
    <2>1. PICK a \in FreeSlots : Attempt(o, a)
      BY <1>2 DEF DoConnectAttempt
    <2> QED BY <2>1, AttemptKeeps DEF FreeSlots
  <1> QED BY <1>1, <1>2

LEMMA StartedKeeps ==
  ASSUME TypeOK, SessionRoutingRight, NEW o \in OwnerType, Keeps(owner, o), Started(o),
         owner' \in OwnerType
  PROVE  SessionRoutingRight'
  <1>1. CASE owner'.client = NoAttempt
    BY <1>1 DEF SessionRoutingRight
  <1>2. CASE Keeps(o, owner') /\ core' = core
    BY <1>2, KeepsTrans, KeptSession DEF TypeOK, RoutingKept
  <1> QED BY <1>1, <1>2 DEF Started

LEMMA StartConnectKeeps ==
  ASSUME TypeOK, SessionRoutingRight, NEW o \in OwnerType, NEW c \in Configs,
         Keeps(owner, o), StartConnect(o, c)
  PROVE  SessionRoutingRight'
  <1>1. CASE c \in BadConfigs
    <2>1. Loaded(o, c) \in OwnerType /\ Keeps(owner, Loaded(o, c))
      BY LoadedType, HelpersKeep, KeepsTrans DEF TypeOK
    <2> QED BY <1>1, <2>1, KeptSession DEF StartConnect, RoutingKept
  <1>2. CASE c \notin BadConfigs
    <2> DEFINE j == Joined(o)
               l == Loaded(j, c)
               s == [l EXCEPT !.stopRequested = FALSE, !.state = "Connecting",
                              !.timers = (@ \ {"reconnect"}) \cup {"fdWatchdog"}]
    <2>1. j \in OwnerType /\ Keeps(owner, j)
      BY JoinedType, HelpersKeep, KeepsTrans DEF TypeOK
    <2>2. DoConnectAttempt(s)
      BY <1>2 DEF StartConnect
    <2> HIDE DEF j
    <2>3. l \in OwnerType /\ Keeps(owner, l)
      BY <2>1, LoadedType, HelpersKeep, KeepsTrans DEF TypeOK
    <2> HIDE DEF l
    <2>4. s \in OwnerType /\ Keeps(owner, s)
      BY <2>3 DEF OwnerType, States, Timers, Keeps
    <2> HIDE DEF s
    <2> QED BY <2>2, <2>4, DoConnectAttemptKeeps, DoConnectAttemptType, StartedKeeps
  <1> QED BY <1>1, <1>2

LEMMA ForceReconnectKeeps ==
  ASSUME TypeOK, SessionRoutingRight, NEW o \in OwnerType, Keeps(owner, o), ForceReconnect(o)
  PROVE  SessionRoutingRight'
  <1> DEFINE t == TornDown(o)
             s == ScheduledReconnect(t)
  <1>1. t \in OwnerType /\ Keeps(owner, t)
    BY TornDownType, HelpersKeep, KeepsTrans DEF TypeOK
  <1> HIDE DEF t
  <1>2. s \in OwnerType /\ Keeps(owner, s)
    BY <1>1, ScheduledReconnectType, HelpersKeep, KeepsTrans DEF TypeOK
  <1>3. TeardownClient(s)
    BY DEF ForceReconnect, t
  <1> QED BY <1>2, <1>3, TeardownKeeps, KeptSession

\* applyRoutingToSession, given that the object knows what the core was told.
LEMMA RoutingAppliedRight ==
  ASSUME TypeOK, NEW o \in OwnerType, owner' = RoutingApplied(o), core' = CoreRouted(o),
         o.client # NoAttempt => core[o.client].routing = o.sessionRouting
  PROVE  SessionRoutingRight'
  <1>1. CASE NeedsRouting(o)
    <2>1. owner' = [o EXCEPT !.sessionRouting = o.routing]
      BY <1>1 DEF RoutingApplied
    <2>2. o.client \in Attempts /\ core' = [core EXCEPT ![o.client].routing = o.routing]
      BY <1>1 DEF NeedsRouting, CoreRouted, OwnerType, MaybeAttempt
    <2>3. /\ owner'.client = o.client /\ owner'.sessionRouting = o.routing
          /\ owner'.routing = o.routing
      BY <2>1 DEF OwnerType
    <2>4. core'[o.client].routing = o.routing
      BY <2>2 DEF TypeOK, CoreType
    <2> QED BY <2>3, <2>4 DEF SessionRoutingRight
  <1>2. CASE ~NeedsRouting(o)
    BY <1>2 DEF NeedsRouting, RoutingApplied, CoreRouted, SessionRoutingRight
  <1> QED BY <1>1, <1>2

LEMMA OthersKeepRouting ==
  ASSUME TypeOK,
         Outside \/ \E a \in Attempts : WorkerStep(a) \/ RetireDetached(a)
  PROVE  RoutingKept
  <1>1. \/ core' = core
        \/ \E c \in MaybeAttempt : core' = Retire(c)
        \/ \E a \in Attempts, s \in CoreStatus : core' = [core EXCEPT ![a].status = s]
    <2>1. ASSUME NEW a \in Attempts, WorkerStep(a) \/ RetireDetached(a)
          PROVE  \/ core' = core
                 \/ \E c \in MaybeAttempt : core' = Retire(c)
                 \/ core' = [core EXCEPT ![a].status = "live"]
      BY <2>1 DEF WorkerStep, RetirePrevious, BuildFails, Establish, Established,
         EstablishFails, HandOver, Exit, RetireDetached, TypeOK, WorkerType, MaybeAttempt
    <2>2. ASSUME Outside
          PROVE  core' = core \/ \E a \in Attempts : core' = [core EXCEPT ![a].status = "ended"]
      BY <2>2 DEF Outside, CoreReports, Command, Leave
    <2> QED BY <2>1, <2>2 DEF CoreStatus
  <1>2. CASE core' = core
    BY <1>2 DEF RoutingKept
  <1>3. CASE \E c \in MaybeAttempt : core' = Retire(c)
    BY <1>3, RetireKeepsRouting DEF RoutingKept
  <1>4. CASE \E a \in Attempts, s \in CoreStatus : core' = [core EXCEPT ![a].status = s]
    BY <1>4 DEF RoutingKept, TypeOK, CoreType
  <1> QED BY <1>1, <1>2, <1>3, <1>4

LEMMA RoutingStep == TypeOK /\ SessionRoutingRight /\ [Next]_vars => SessionRoutingRight'
  <1> SUFFICES ASSUME TypeOK, SessionRoutingRight, [Next]_vars PROVE SessionRoutingRight'
    OBVIOUS
  <1>0. owner \in OwnerType /\ Keeps(owner, owner)
    BY DEF TypeOK, Keeps
  <1>1. CASE ConnectNow
    <2>1. Head(queue).config \in Configs
      BY <1>1, ReceiveType, MessageFields DEF ConnectNow
    <2> QED BY <1>0, <1>1, <2>1, StartConnectKeeps DEF ConnectNow
  <1>2. CASE ConnectAfterTeardown
    <2> DEFINE d == DisconnectedVpn(owner)
               o == [d EXCEPT !.delayed = Head(queue).config]
    <2>1. d \in OwnerType /\ Keeps(owner, d)
      BY <1>0, DisconnectedVpnType, HelpersKeep
    <2>2. Head(queue).config \in Configs
      BY <1>2, ReceiveType, MessageFields DEF ConnectAfterTeardown
    <2>3. TeardownClient(o)
      BY <1>2 DEF ConnectAfterTeardown
    <2> HIDE DEF d
    <2>4. o \in OwnerType /\ Keeps(owner, o)
      BY <2>1, <2>2 DEF OwnerType, Keeps
    <2> QED BY <2>3, <2>4, TeardownKeeps, KeptSession
  <1>3. CASE DisconnectVpn \/ Quit
    BY <1>0, <1>3, DisconnectedVpnType, HelpersKeep, TeardownKeeps, KeptSession
       DEF DisconnectVpn, Quit
  <1>4. CASE SetSplitRouting
    <2> DEFINE o == [owner EXCEPT !.routing = Head(queue).routing]
    <2>1. Head(queue).routing \in Routings
      BY <1>4, ReceiveType, MessageFields DEF SetSplitRouting
    <2>2. owner' = RoutingApplied(o) /\ core' = CoreRouted(o)
      BY <1>4 DEF SetSplitRouting
    <2>3. /\ o \in OwnerType /\ o.client = owner.client
          /\ o.sessionRouting = owner.sessionRouting
      BY <1>0, <2>1 DEF OwnerType
    <2> HIDE DEF o
    <2>4. o.client # NoAttempt => core[o.client].routing = o.sessionRouting
      BY <2>3 DEF SessionRoutingRight
    <2> QED BY <2>2, <2>3, <2>4, RoutingAppliedRight
  <1>5. CASE SetKillSwitch
    <2>1. Keeps(owner, owner') /\ core' = core
      BY <1>0, <1>5 DEF SetKillSwitch, Keeps, OwnerType
    <2> QED BY <2>1, KeptSession DEF RoutingKept
  <1>6. CASE CoreStateChanged
    <2>1. Head(queue).event \in CoreEvents
      BY <1>6, ReceiveType, MessageFields DEF CoreStateChanged
    <2>2. Keeps(owner, owner') /\ core' = core
      BY <1>0, <1>6, <2>1, HelpersKeep DEF CoreStateChanged
    <2> QED BY <2>2, KeptSession DEF RoutingKept
  <1>7. CASE DropStaleAttempt \/ RetireRescued
    <2>1. owner' = owner /\ RoutingKept
      BY <1>7, RetireKeepsRouting DEF DropStaleAttempt, RetireRescued, RoutingKept
    <2> QED BY <1>0, <2>1, KeptSession
  <1>8. CASE AdoptSession
    <2> DEFINE a == Head(queue).attempt
               o == [owner EXCEPT !.client = a, !.sessionRouting = core[a].routing]
    <2>1. a \in Attempts
      BY <1>8, ReceiveType, MessageFields DEF AdoptSession
    <2>2. owner' = RoutingApplied(o) /\ core' = CoreRouted(o)
      BY <1>8 DEF AdoptSession
    <2>3. /\ o \in OwnerType /\ o.client = a /\ o.sessionRouting = core[a].routing
      BY <1>0, <2>1 DEF OwnerType, MaybeAttempt, TypeOK, CoreType
    <2> HIDE DEF o
    <2> QED BY <2>2, <2>3, RoutingAppliedRight
  <1>9. CASE AdoptFailure
    <2>1. Keeps(owner, owner') /\ core' = core
      BY <1>0, <1>9, HelpersKeep DEF AdoptFailure, Keeps, OwnerType
    <2> QED BY <2>1, KeptSession DEF RoutingKept
  <1>10. CASE AdoptNotElevated
    <2> DEFINE t == TornDown(owner)
               o == [t EXCEPT !.stopRequested = TRUE, !.state = "Error"]
    <2>1. t \in OwnerType /\ Keeps(owner, t)
      BY <1>0, TornDownType, HelpersKeep
    <2>2. TeardownClient(o)
      BY <1>10 DEF AdoptNotElevated
    <2> HIDE DEF t
    <2>3. o \in OwnerType /\ Keeps(owner, o)
      BY <2>1 DEF OwnerType, States, Keeps
    <2> QED BY <2>2, <2>3, TeardownKeeps, KeptSession
  <1>11. CASE TimerStep
    <2>1. CASE DelayedStart
      <3>1. /\ [owner EXCEPT !.delayed = NoConfig] \in OwnerType /\ owner.delayed \in Configs
            /\ Keeps(owner, [owner EXCEPT !.delayed = NoConfig])
        BY <1>0, <2>1 DEF DelayedStart, OwnerType, Keeps
      <3> QED BY <2>1, <3>1, StartConnectKeeps DEF DelayedStart
    <2>2. CASE ReconnectTimeout
      <3> DEFINE o == [owner EXCEPT !.timers = @ \ {"reconnect"}]
      <3>1. o \in OwnerType /\ Keeps(owner, o)
        BY <1>0 DEF OwnerType, Keeps
      <3>2. DoConnectAttempt(Joined(o))
        BY <2>2 DEF ReconnectTimeout
      <3> HIDE DEF o
      <3>3. Joined(o) \in OwnerType /\ Keeps(owner, Joined(o))
        BY <1>0, <3>1, JoinedType, HelpersKeep, KeepsTrans
      <3> QED BY <3>2, <3>3, DoConnectAttemptKeeps, DoConnectAttemptType, StartedKeeps
    <2>3. CASE NetworkWaitTimeout
      <3> DEFINE o == [owner EXCEPT !.timers = @ \ {"networkWait"}]
      <3>1. o \in OwnerType /\ Keeps(owner, o)
        BY <1>0 DEF OwnerType, Keeps
      <3>2. (owner' \in {o, owner} /\ core' = core) \/ ForceReconnect(o)
        BY <2>3 DEF NetworkWaitTimeout
      <3> HIDE DEF o
      <3> QED BY <1>0, <3>1, <3>2, ForceReconnectKeeps, KeptSession DEF RoutingKept
    <2>4. CASE FdLeakFound
      <3>1. (owner' = owner /\ core' = core) \/ ForceReconnect(owner)
        BY <2>4 DEF FdLeakFound
      <3> QED BY <1>0, <3>1, ForceReconnectKeeps, KeptSession DEF RoutingKept
    <2> QED BY <1>11, <2>1, <2>2, <2>3, <2>4 DEF TimerStep
  <1>12. CASE Outside \/ \E a \in Attempts : WorkerStep(a) \/ RetireDetached(a)
    <2>1. Keeps(owner, owner')
      BY <1>0, <1>12, OthersLeaveOwner DEF Keeps, OwnerType
    <2>2. RoutingKept
      BY <1>12, OthersKeepRouting
    <2> QED BY <2>1, <2>2, KeptSession
  <1>13. CASE UNCHANGED vars
    BY <1>13 DEF vars, SessionRoutingRight
  <1> QED BY <1>1, <1>2, <1>3, <1>4, <1>5, <1>6, <1>7, <1>8, <1>9, <1>10, <1>11, <1>12,
             <1>13, Steps DEF OwnerStep, StartCommand, StopCommand, ServeStep

(***************************************************************************)
(* The configuration.  The core in use, and the attempt whose result would *)
(* be taken, are of the configuration loaded last; it was never refused,   *)
(* and before the first one nothing was ever started.                      *)
(***************************************************************************)
ConfigRight(o) ==
    /\ o.lastToml \notin BadConfigs
    /\ o.lastToml = NoConfig => /\ ~o.config /\ o.timers = {} /\ o.client = NoAttempt
                                /\ o.attemptGen = NoAttempt /\ o.sessionGen = NoAttempt
    /\ o.client # NoAttempt => core[o.client].config = o.lastToml
    /\ o.attemptGen # NoAttempt => core[o.attemptGen].config = o.lastToml

SessionConfigRight == ConfigRight(owner)

\* A configuration just loaded, whatever the core in use was built from.
JustLoaded(o) == o.config /\ o.lastToml \in Configs \ BadConfigs

LEMMA HelpersKeepConfig ==
  ASSUME NEW o \in OwnerType, ConfigRight(o)
  PROVE  /\ ConfigRight(Joined(o)) /\ ConfigRight(TornDown(o))
         /\ ConfigRight(DisconnectedVpn(o))
         /\ o.lastToml # NoConfig => ConfigRight(ScheduledReconnect(o))
         /\ o.lastToml # NoConfig => \A e \in CoreEvents : ConfigRight(AfterCoreEvent(o, e))
  <1>1. ConfigRight(Joined(o))
    BY DEF ConfigRight, Joined, OwnerType
  <1>2. ConfigRight(TornDown(o))
    BY <1>1, JoinedType DEF ConfigRight, TornDown, OwnerType
  <1>3. ConfigRight(DisconnectedVpn(o))
    BY <1>2, TornDownType DEF ConfigRight, DisconnectedVpn, OwnerType
  <1>4. ASSUME NEW p \in OwnerType, ConfigRight(p), p.lastToml # NoConfig
        PROVE  ConfigRight(ScheduledReconnect(p))
    BY <1>4 DEF ConfigRight, ScheduledReconnect, OwnerType
  <1>5. ASSUME o.lastToml # NoConfig, NEW e \in CoreEvents
        PROVE  ConfigRight(AfterCoreEvent(o, e))
    <2> DEFINE lost == [o EXCEPT !.timers = @ \ {"networkWait"}]
    <2>1. lost \in OwnerType /\ ConfigRight(lost) /\ lost.lastToml # NoConfig
      BY <1>5 DEF ConfigRight, OwnerType
    <2>2. CASE e = "DISCONNECTED"
      BY <1>4, <2>1, <2>2 DEF AfterCoreEvent
    <2>3. CASE e # "DISCONNECTED"
      BY <1>5, <2>3 DEF AfterCoreEvent, ConfigRight, CoreEvents, OwnerType
    <2> QED BY <2>2, <2>3
  <1> QED BY <1>1, <1>2, <1>3, <1>4, <1>5

LEMMA LoadedConfig ==
  ASSUME NEW o \in OwnerType, NEW c \in Configs
  PROVE  /\ c \notin BadConfigs => JustLoaded(Loaded(o, c))
         /\ c \in BadConfigs /\ ConfigRight(o) => ConfigRight(Loaded(o, c))
  BY DEF Loaded, JustLoaded, ConfigRight, OwnerType

ConfigsKept == \A a \in Attempts : core'[a].config = core[a].config

LEMMA RetireKeepsConfigs ==
  ASSUME TypeOK, NEW c, core' = Retire(c)
  PROVE  ConfigsKept
  BY DEF Retire, TypeOK, CoreType, ConfigsKept

LEMMA KeptConfig ==
  ASSUME owner' \in OwnerType, ConfigRight(owner'), ConfigsKept
  PROVE  SessionConfigRight'
  BY DEF SessionConfigRight, ConfigRight, ConfigsKept, OwnerType, MaybeAttempt

LEMMA TeardownKeepsConfig ==
  ASSUME TypeOK, NEW o \in OwnerType, ConfigRight(o), TeardownClient(o)
  PROVE  SessionConfigRight'
  BY RetireKeepsConfigs, KeptConfig DEF TeardownClient

\* What prepareAttempt leaves when the configuration is at hand.
Begins(o, a) ==
    /\ owner'.client = NoAttempt /\ owner'.thread = a
    /\ owner'.attemptGen = a /\ owner'.sessionGen = a
    /\ owner'.state \in {"Connecting", "Reconnecting"}
    /\ owner'.lastToml = o.lastToml /\ owner'.timers = o.timers
    /\ owner'.stopRequested = o.stopRequested /\ owner'.delayed = o.delayed
    /\ owner'.killSwitch = o.killSwitch
    /\ worker' = [worker EXCEPT ![a] =
          [at |-> IF o.client = NoAttempt THEN "building" ELSE "retiring",
           outcome |-> "Retry", retired |-> o.client]]
    /\ core' = [core EXCEPT ![a] =
          [status |-> "none", routing |-> o.routing, config |-> o.lastToml]]

\* It always is: reloadStoredConfigIfNeeded finds what was loaded once.
LEMMA AttemptBegins ==
  ASSUME NEW o \in OwnerType, NEW a \in Attempts, Attempt(o, a),
         o.lastToml \notin BadConfigs, o.lastToml # NoConfig
  PROVE  Begins(o, a)
  <1> DEFINE g == [o EXCEPT !.attemptGen = a]
             r == Reloaded(g)
             st == IF r.state = "Connecting" \/ r.client = NoAttempt
                   THEN "Connecting" ELSE "Reconnecting"
  <1>1. /\ g \in OwnerType /\ g.lastToml = o.lastToml /\ g.timers = o.timers
        /\ g.client = o.client /\ g.attemptGen = a /\ g.routing = o.routing
        /\ g.stopRequested = o.stopRequested /\ g.delayed = o.delayed
        /\ g.killSwitch = o.killSwitch
    BY DEF OwnerType, MaybeAttempt
  <1>2. r \in OwnerType
    BY <1>1, ReloadedType
  <1>3. /\ r.config /\ r.lastToml = o.lastToml /\ r.timers = o.timers
        /\ r.client = o.client /\ r.attemptGen = a /\ r.routing = o.routing
        /\ r.stopRequested = o.stopRequested /\ r.delayed = o.delayed
        /\ r.killSwitch = o.killSwitch
    <2> HIDE DEF g
    <2> QED BY <1>1 DEF Reloaded, Loaded, OwnerType
  <1>4. /\ owner' = [r EXCEPT !.state = st, !.config = FALSE, !.client = NoAttempt,
                              !.sessionGen = a, !.thread = a]
        /\ worker' = [worker EXCEPT ![a] =
              [at |-> IF r.client = NoAttempt THEN "building" ELSE "retiring",
               outcome |-> "Retry", retired |-> r.client]]
        /\ core' = [core EXCEPT ![a] =
              [status |-> "none", routing |-> r.routing, config |-> r.lastToml]]
    BY <1>3 DEF Attempt
  <1>5. st \in {"Connecting", "Reconnecting"}
    OBVIOUS
  <1> HIDE DEF r, g, st
  <1>6. /\ owner'.client = NoAttempt /\ owner'.thread = a
        /\ owner'.attemptGen = r.attemptGen /\ owner'.sessionGen = a
        /\ owner'.state = st
        /\ owner'.lastToml = r.lastToml /\ owner'.timers = r.timers
        /\ owner'.stopRequested = r.stopRequested /\ owner'.delayed = r.delayed
        /\ owner'.killSwitch = r.killSwitch
    BY <1>2, <1>4 DEF OwnerType
  <1> QED BY <1>3, <1>4, <1>5, <1>6 DEF Begins

LEMMA DoConnectAttemptBegins ==
  ASSUME NEW o \in OwnerType, DoConnectAttempt(o),
         o.lastToml \notin BadConfigs, o.lastToml # NoConfig
  PROVE  IF o.stopRequested THEN owner' = o /\ worker' = worker /\ core' = core
         ELSE \E a \in FreeSlots : Begins(o, a)
  <1>1. CASE ~o.stopRequested
    <2>1. PICK a \in FreeSlots : Attempt(o, a)
      BY <1>1 DEF DoConnectAttempt
    <2> QED BY <1>1, <2>1, AttemptBegins DEF FreeSlots
  <1> QED BY <1>1 DEF DoConnectAttempt

LEMMA DoConnectAttemptConfig ==
  ASSUME TypeOK, NEW o \in OwnerType, DoConnectAttempt(o),
         \/ ConfigRight(o) /\ o.lastToml # NoConfig
         \/ JustLoaded(o) /\ ~o.stopRequested
  PROVE  SessionConfigRight'
  <1>1. o.lastToml \notin BadConfigs /\ o.lastToml # NoConfig
    BY ConfigsAssumption DEF ConfigRight, JustLoaded
  <1>2. CASE o.stopRequested
    BY <1>2, KeptConfig DEF DoConnectAttempt, ConfigsKept
  <1>3. CASE ~o.stopRequested
    <2>1. PICK a \in FreeSlots : Begins(o, a)
      BY <1>1, <1>3, DoConnectAttemptBegins
    <2>2. core'[a].config = o.lastToml
      BY <2>1 DEF Begins, FreeSlots, TypeOK, CoreType
    <2> QED BY <1>1, <2>1, <2>2 DEF Begins, SessionConfigRight, ConfigRight
  <1> QED BY <1>2, <1>3

LEMMA StartConnectConfig ==
  ASSUME TypeOK, NEW o \in OwnerType, NEW c \in Configs, ConfigRight(o), StartConnect(o, c)
  PROVE  SessionConfigRight'
  <1>1. CASE c \in BadConfigs
    BY <1>1, LoadedType, LoadedConfig, KeptConfig DEF StartConnect, ConfigsKept
  <1>2. CASE c \notin BadConfigs
    <2> DEFINE l == Loaded(Joined(o), c)
               s == [l EXCEPT !.stopRequested = FALSE, !.state = "Connecting",
                              !.timers = (@ \ {"reconnect"}) \cup {"fdWatchdog"}]
    <2>1. l \in OwnerType /\ JustLoaded(l)
      BY <1>2, JoinedType, LoadedType, LoadedConfig
    <2>2. DoConnectAttempt(s)
      BY <1>2 DEF StartConnect
    <2> HIDE DEF l
    <2>3. s \in OwnerType /\ JustLoaded(s) /\ ~s.stopRequested
      BY <2>1 DEF OwnerType, States, Timers, JustLoaded
    <2> HIDE DEF s
    <2> QED BY <2>2, <2>3, DoConnectAttemptConfig
  <1> QED BY <1>1, <1>2

LEMMA TornDownKeepsConfig ==
  ASSUME NEW o \in OwnerType
  PROVE  Joined(o).lastToml = o.lastToml /\ TornDown(o).lastToml = o.lastToml
  BY DEF TornDown, Joined, OwnerType

LEMMA ForceReconnectConfig ==
  ASSUME TypeOK, NEW o \in OwnerType, ConfigRight(o), o.lastToml # NoConfig,
         ForceReconnect(o)
  PROVE  SessionConfigRight'
  <1> DEFINE t == TornDown(o)
             s == ScheduledReconnect(t)
  <1>1. t \in OwnerType /\ ConfigRight(t) /\ t.lastToml # NoConfig
    BY TornDownType, HelpersKeepConfig, TornDownKeepsConfig
  <1>2. TeardownClient(s)
    BY DEF ForceReconnect
  <1> HIDE DEF t
  <1>3. s \in OwnerType /\ ConfigRight(s)
    BY <1>1, ScheduledReconnectType, HelpersKeepConfig
  <1> HIDE DEF s
  <1> QED BY <1>2, <1>3, TeardownKeepsConfig

LEMMA OthersKeepConfig ==
  ASSUME TypeOK,
         Outside \/ \E a \in Attempts : WorkerStep(a) \/ RetireDetached(a)
  PROVE  ConfigsKept
  <1>1. ASSUME NEW a \in Attempts, WorkerStep(a) \/ RetireDetached(a)
        PROVE  \/ core' = core
               \/ \E c \in MaybeAttempt : core' = Retire(c)
               \/ core' = [core EXCEPT ![a].status = "live"]
    BY <1>1 DEF WorkerStep, RetirePrevious, BuildFails, Establish, Established,
       EstablishFails, HandOver, Exit, RetireDetached, TypeOK, WorkerType, MaybeAttempt
  <1>2. ASSUME Outside
        PROVE  core' = core \/ \E a \in Attempts : core' = [core EXCEPT ![a].status = "ended"]
    BY <1>2 DEF Outside, CoreReports, Command, Leave
  <1>3. CASE \E c \in MaybeAttempt : core' = Retire(c)
    BY <1>3, RetireKeepsConfigs
  <1>4. CASE core' = core
    BY <1>4 DEF ConfigsKept
  <1>5. CASE \E a \in Attempts, s \in CoreStatus : core' = [core EXCEPT ![a].status = s]
    BY <1>5 DEF ConfigsKept, TypeOK, CoreType
  <1> QED BY <1>1, <1>2, <1>3, <1>4, <1>5 DEF CoreStatus

LEMMA RoutedKeepsConfigs ==
  ASSUME TypeOK, NEW o \in OwnerType, ConfigRight(o),
         owner' = RoutingApplied(o), core' = CoreRouted(o)
  PROVE  SessionConfigRight'
  <1>1. ConfigsKept
    BY DEF CoreRouted, NeedsRouting, ConfigsKept, TypeOK, CoreType, OwnerType, MaybeAttempt
  <1>2. owner' \in OwnerType /\ ConfigRight(owner')
    BY RoutingAppliedType DEF RoutingApplied, ConfigRight, OwnerType
  <1> QED BY <1>1, <1>2, KeptConfig

LEMMA ConfigStep == TypeOK /\ SessionConfigRight /\ [Next]_vars => SessionConfigRight'
  <1> SUFFICES ASSUME TypeOK, SessionConfigRight, [Next]_vars PROVE SessionConfigRight'
    OBVIOUS
  <1>0. owner \in OwnerType /\ ConfigRight(owner)
    BY DEF TypeOK, SessionConfigRight
  <1>a. TypeOK'
    BY TypeStep
  <1>b. owner' \in OwnerType
    BY <1>a DEF TypeOK
  <1>1. CASE ConnectNow
    <2>1. Head(queue).config \in Configs
      BY <1>1, ReceiveType, MessageFields DEF ConnectNow
    <2> QED BY <1>0, <1>1, <2>1, StartConnectConfig DEF ConnectNow
  <1>2. CASE ConnectAfterTeardown
    <2> DEFINE d == DisconnectedVpn(owner)
               o == [d EXCEPT !.delayed = Head(queue).config]
    <2>1. d \in OwnerType /\ ConfigRight(d)
      BY <1>0, DisconnectedVpnType, HelpersKeepConfig
    <2>2. Head(queue).config \in Configs
      BY <1>2, ReceiveType, MessageFields DEF ConnectAfterTeardown
    <2>3. TeardownClient(o)
      BY <1>2 DEF ConnectAfterTeardown
    <2> HIDE DEF d
    <2>4. o \in OwnerType /\ ConfigRight(o)
      BY <2>1, <2>2 DEF OwnerType, ConfigRight
    <2> QED BY <2>3, <2>4, TeardownKeepsConfig
  <1>3. CASE DisconnectVpn \/ Quit
    BY <1>0, <1>3, DisconnectedVpnType, HelpersKeepConfig, TeardownKeepsConfig
       DEF DisconnectVpn, Quit
  <1>4. CASE SetSplitRouting
    <2> DEFINE o == [owner EXCEPT !.routing = Head(queue).routing]
    <2>1. Head(queue).routing \in Routings
      BY <1>4, ReceiveType, MessageFields DEF SetSplitRouting
    <2>2. owner' = RoutingApplied(o) /\ core' = CoreRouted(o)
      BY <1>4 DEF SetSplitRouting
    <2>3. o \in OwnerType /\ ConfigRight(o)
      BY <1>0, <2>1 DEF OwnerType, ConfigRight
    <2> HIDE DEF o
    <2> QED BY <2>2, <2>3, RoutedKeepsConfigs
  <1>5. CASE SetKillSwitch
    <2>1. ConfigRight(owner') /\ core' = core
      BY <1>0, <1>5 DEF SetKillSwitch, ConfigRight, OwnerType
    <2> QED BY <1>b, <2>1, KeptConfig DEF ConfigsKept
  <1>6. CASE CoreStateChanged
    <2>1. Head(queue).event \in CoreEvents /\ Head(queue).session \in Attempts
      BY <1>6, ReceiveType, MessageFields DEF CoreStateChanged
    <2>2. Head(queue).session = owner.sessionGen => owner.lastToml # NoConfig
      BY <1>0, <2>1, AttemptsAssumption DEF ConfigRight
    <2>3. ConfigRight(owner') /\ core' = core
      BY <1>0, <1>6, <2>1, <2>2, HelpersKeepConfig DEF CoreStateChanged
    <2> QED BY <1>b, <2>3, KeptConfig DEF ConfigsKept
  <1>7. CASE DropStaleAttempt \/ RetireRescued
    <2>1. owner' = owner /\ ConfigsKept
      BY <1>7, RetireKeepsConfigs DEF DropStaleAttempt, RetireRescued, ConfigsKept
    <2> QED BY <1>0, <2>1, KeptConfig
  <1>8. CASE AdoptSession
    <2> DEFINE a == Head(queue).attempt
               o == [owner EXCEPT !.client = a, !.sessionRouting = core[a].routing]
    <2>1. a \in Attempts /\ a = owner.attemptGen
      BY <1>8, ReceiveType, MessageFields DEF AdoptSession
    <2>2. owner' = RoutingApplied(o) /\ core' = CoreRouted(o)
      BY <1>8 DEF AdoptSession
    <2>3. a # NoAttempt /\ core[a].config = owner.lastToml
      BY <1>0, <2>1, AttemptsAssumption DEF ConfigRight
    <2>4. o \in OwnerType /\ ConfigRight(o)
      BY <1>0, <2>1, <2>3 DEF OwnerType, MaybeAttempt, TypeOK, CoreType, ConfigRight
    <2> HIDE DEF o
    <2> QED BY <2>2, <2>4, RoutedKeepsConfigs
  <1>9. CASE AdoptFailure
    <2>1. owner.attemptGen \in Attempts
      BY <1>9, ReceiveType, MessageFields DEF AdoptFailure
    <2>2. owner.lastToml # NoConfig
      BY <1>0, <2>1, AttemptsAssumption DEF ConfigRight
    <2>3. ConfigRight(owner') /\ core' = core
      BY <1>0, <1>9, <2>2, HelpersKeepConfig DEF AdoptFailure, ConfigRight, OwnerType
    <2> QED BY <1>b, <2>3, KeptConfig DEF ConfigsKept
  <1>10. CASE AdoptNotElevated
    <2> DEFINE t == TornDown(owner)
               o == [t EXCEPT !.stopRequested = TRUE, !.state = "Error"]
    <2>1. t \in OwnerType /\ ConfigRight(t)
      BY <1>0, TornDownType, HelpersKeepConfig
    <2>2. TeardownClient(o)
      BY <1>10 DEF AdoptNotElevated
    <2> HIDE DEF t
    <2>3. o \in OwnerType /\ ConfigRight(o)
      BY <2>1 DEF OwnerType, States, ConfigRight
    <2> QED BY <2>2, <2>3, TeardownKeepsConfig
  <1>11. CASE TimerStep
    <2>1. CASE DelayedStart
      <3>1. /\ [owner EXCEPT !.delayed = NoConfig] \in OwnerType /\ owner.delayed \in Configs
            /\ ConfigRight([owner EXCEPT !.delayed = NoConfig])
        BY <1>0, <2>1 DEF DelayedStart, OwnerType, ConfigRight
      <3> QED BY <2>1, <3>1, StartConnectConfig DEF DelayedStart
    <2>2. CASE ReconnectTimeout
      <3> DEFINE o == [owner EXCEPT !.timers = @ \ {"reconnect"}]
      <3>1. o \in OwnerType /\ ConfigRight(o) /\ o.lastToml # NoConfig
        BY <1>0, <2>2 DEF ReconnectTimeout, OwnerType, ConfigRight
      <3>2. DoConnectAttempt(Joined(o))
        BY <2>2 DEF ReconnectTimeout
      <3> HIDE DEF o
      <3> QED BY <3>1, <3>2, JoinedType, TornDownKeepsConfig, HelpersKeepConfig,
                 DoConnectAttemptConfig
    <2>3. CASE NetworkWaitTimeout
      <3> DEFINE o == [owner EXCEPT !.timers = @ \ {"networkWait"}]
      <3>1. o \in OwnerType /\ ConfigRight(o) /\ o.lastToml # NoConfig
        BY <1>0, <2>3 DEF NetworkWaitTimeout, OwnerType, ConfigRight
      <3>2. (owner' \in {o, owner} /\ core' = core) \/ ForceReconnect(o)
        BY <2>3 DEF NetworkWaitTimeout
      <3> HIDE DEF o
      <3> QED BY <1>0, <3>1, <3>2, ForceReconnectConfig, KeptConfig DEF ConfigsKept
    <2>4. CASE FdLeakFound
      <3>1. (owner' = owner /\ core' = core) \/ ForceReconnect(owner)
        BY <2>4 DEF FdLeakFound
      <3>2. owner.lastToml # NoConfig
        BY <1>0, <2>4 DEF FdLeakFound, ConfigRight
      <3> QED BY <1>0, <3>1, <3>2, ForceReconnectConfig, KeptConfig DEF ConfigsKept
    <2> QED BY <1>11, <2>1, <2>2, <2>3, <2>4 DEF TimerStep
  <1>12. CASE Outside \/ \E a \in Attempts : WorkerStep(a) \/ RetireDetached(a)
    <2>1. owner' = owner \/ owner' = [owner EXCEPT !.thread = NoAttempt]
      BY <1>12, OthersLeaveOwner
    <2>2. ConfigRight(owner')
      BY <1>0, <2>1 DEF ConfigRight, OwnerType
    <2> QED BY <1>b, <1>12, <2>2, OthersKeepConfig, KeptConfig
  <1>13. CASE UNCHANGED vars
    BY <1>13 DEF vars, SessionConfigRight, ConfigRight
  <1> QED BY <1>1, <1>2, <1>3, <1>4, <1>5, <1>6, <1>7, <1>8, <1>9, <1>10, <1>11, <1>12,
             <1>13, Steps DEF OwnerStep, StartCommand, StopCommand, ServeStep

LEMMA ConfigInit == Init => SessionConfigRight
  <1> SUFFICES ASSUME Init PROVE SessionConfigRight
    OBVIOUS
  <1>1. /\ owner.client = NoAttempt /\ owner.attemptGen = NoAttempt
        /\ owner.sessionGen = NoAttempt /\ owner.timers = {}
        /\ owner.lastToml = NoConfig /\ owner.config = FALSE
    BY DEF Init
  <1> QED BY <1>1, ConfigsAssumption DEF SessionConfigRight, ConfigRight

\* The core in use routes by the user's settings of now, whatever was edited while
\* its attempt ran, and was built from the configuration loaded last: the object
\* knows what each core was told, and takes no result of an earlier attempt.
THEOREM SettingsReachTheCore == Spec => []SessionFollowsSettings
  <1>1. Init => SessionRoutingRight
    BY DEF Init, SessionRoutingRight
  <1>2. SessionRoutingRight /\ SessionConfigRight => SessionFollowsSettings
    BY DEF SessionRoutingRight, SessionConfigRight, ConfigRight, SessionFollowsSettings
  <1> QED BY <1>1, <1>2, RoutingStep, ConfigInit, ConfigStep, TypeCorrect, PTL DEF Spec

-----------------------------------------------------------------------------
(***************************************************************************)
(* Who holds the core of an attempt: theorems about TunnelSession, for any *)
(* number of attempts and any bound on the queue.  A core is handed from   *)
(* its worker to a posted call, to the object, to the next attempt, to an  *)
(* abandoned thread or to the thread that takes it down: by every step     *)
(* from one place to one other, and by none to nowhere.                    *)
(***************************************************************************)

Busy(a) == worker[a].at \in {"retiring", "building", "connecting", "handover"}
Succeeded(a) == \E b \in Attempts : worker[b].retired = a

Carries(m, a) == m.kind \in {"adopt", "rescue"} /\ m.attempt = a
Brings(m) == m.kind = "rescue" \/ m.outcome = "Connected"

\* A posted call on its way with the core of a; with the failure of a.
Queued(a) == \E i \in DOMAIN queue : Carries(queue[i], a) /\ Brings(queue[i])
FailureQueued(a) == \E i \in DOMAIN queue : Carries(queue[i], a) /\ ~Brings(queue[i])

Exclusive(a) ==
    /\ owner.client = a => /\ ~Busy(a) /\ ~Succeeded(a) /\ ~Queued(a) /\ ~FailureQueued(a)
                           /\ a \notin rescued /\ a \notin detached
    /\ Busy(a) => /\ ~Succeeded(a) /\ ~Queued(a) /\ ~FailureQueued(a)
                  /\ a \notin rescued /\ a \notin detached
    /\ Succeeded(a) => /\ ~Queued(a) /\ ~FailureQueued(a)
                       /\ a \notin rescued /\ a \notin detached
    /\ Queued(a) => ~FailureQueued(a) /\ a \notin rescued /\ a \notin detached
    /\ FailureQueued(a) => a \notin rescued /\ a \notin detached
    /\ a \in rescued => a \notin detached

QueuedOnce(a) ==
    \A i, j \in DOMAIN queue : Carries(queue[i], a) /\ Carries(queue[j], a) => i = j
SucceededOnce(a) ==
    \A b, c \in Attempts : worker[b].retired = a /\ worker[c].retired = a => b = c

\* Whoever is said to hold a core holds one, and who reports a failure does not.
Backed(a) ==
    /\ owner.client = a \/ Succeeded(a) \/ Queued(a) \/ a \in rescued \/ a \in detached
         => Exists(a)
    /\ FailureQueued(a) => ~Exists(a)
    /\ worker[a].at \in {"retiring", "building"} => ~Exists(a)
    /\ worker[a].at = "connecting" => Exists(a)
    /\ worker[a].at = "handover" => (Exists(a) <=> worker[a].outcome = "Connected")
    /\ worker[a].retired # NoAttempt => worker[a].at = "retiring"
    /\ a \in rescued => worker[a].at = "exiting"

\* No core falls out of scope while the object lives.
HeldBySomebody(a) ==
    alive /\ Exists(a) => \/ owner.client = a \/ Busy(a) \/ Succeeded(a) \/ Queued(a)
                          \/ a \in rescued \/ a \in detached

Owned(a) == /\ Exclusive(a) /\ QueuedOnce(a) /\ SucceededOnce(a)
            /\ Backed(a) /\ HeldBySomebody(a)

\* The running thread is that of the current attempt, and of the core in use.
ThreadRight(o) ==
    o.thread # NoAttempt => /\ worker[o.thread].at # "idle"
                            /\ o.client \in {NoAttempt, o.thread}
                            /\ o.attemptGen \in {NoAttempt, o.thread}

\* The core in use is that of the current attempt, whose events are listened to.
ClientRight(o) == /\ o.client \in {NoAttempt, o.attemptGen}
                  /\ o.sessionGen = o.attemptGen

Ownership == /\ \A a \in Attempts : Owned(a)
             /\ ThreadRight(owner) /\ ClientRight(owner)

(***************************************************************************)
(* The queue.                                                              *)
(***************************************************************************)
LEMMA QueueTail ==
  ASSUME TypeOK, NEW a, QueuedOnce(a), queue # <<>>, queue' = Tail(queue)
  PROVE  /\ QueuedOnce(a)'
         /\ Queued(a)' <=> Queued(a) /\ ~Carries(Head(queue), a)
         /\ FailureQueued(a)' <=> FailureQueued(a) /\ ~Carries(Head(queue), a)
         /\ Carries(Head(queue), a) => IF Brings(Head(queue)) THEN Queued(a)
                                                              ELSE FailureQueued(a)
  <1>1. queue \in Seq(Messages) /\ Len(queue) \in Nat /\ Len(queue) > 0
    BY DEF TypeOK
  <1>2. /\ DOMAIN queue = 1..Len(queue) /\ DOMAIN queue' = 1..(Len(queue) - 1)
        /\ \A i \in DOMAIN queue' : queue'[i] = queue[i + 1]
        /\ Head(queue) = queue[1]
    BY <1>1
  <1>3. QueuedOnce(a)'
    <2> SUFFICES ASSUME NEW i \in DOMAIN queue', NEW j \in DOMAIN queue',
                        Carries(queue'[i], a), Carries(queue'[j], a)
                 PROVE  i = j
      BY DEF QueuedOnce, Carries
    <2>1. i + 1 \in DOMAIN queue /\ j + 1 \in DOMAIN queue
      BY <1>1, <1>2
    <2>2. i + 1 = j + 1
      BY <1>2, <2>1 DEF QueuedOnce
    <2> QED BY <1>1, <1>2, <2>2
  <1>4. ASSUME NEW i \in DOMAIN queue, Carries(queue[i], a), ~Carries(Head(queue), a)
        PROVE  \E j \in DOMAIN queue' : queue'[j] = queue[i]
    <2>1. i # 1
      BY <1>2, <1>4
    <2>2. i - 1 \in DOMAIN queue' /\ queue'[i - 1] = queue[i]
      BY <1>1, <1>2, <2>1
    <2> QED BY <2>2
  <1>5. ASSUME NEW j \in DOMAIN queue', Carries(queue'[j], a)
        PROVE  /\ j + 1 \in DOMAIN queue /\ queue[j + 1] = queue'[j]
               /\ ~Carries(Head(queue), a)
    <2>1. j + 1 \in DOMAIN queue /\ queue[j + 1] = queue'[j] /\ 1 \in DOMAIN queue
      BY <1>1, <1>2
    <2>2. j + 1 # 1
      BY <1>1, <1>2
    <2> QED BY <1>2, <1>5, <2>1, <2>2 DEF QueuedOnce
  <1>6. Queued(a)' <=> Queued(a) /\ ~Carries(Head(queue), a)
    <2>1. Queued(a) /\ ~Carries(Head(queue), a) => Queued(a)'
      BY <1>4 DEF Queued, Carries, Brings
    <2>2. Queued(a)' => Queued(a) /\ ~Carries(Head(queue), a)
      BY <1>5 DEF Queued, Carries, Brings
    <2> QED BY <2>1, <2>2
  <1>7. FailureQueued(a)' <=> FailureQueued(a) /\ ~Carries(Head(queue), a)
    <2>1. FailureQueued(a) /\ ~Carries(Head(queue), a) => FailureQueued(a)'
      BY <1>4 DEF FailureQueued, Carries, Brings
    <2>2. FailureQueued(a)' => FailureQueued(a) /\ ~Carries(Head(queue), a)
      BY <1>5 DEF FailureQueued, Carries, Brings
    <2> QED BY <2>1, <2>2
  <1>8. Carries(Head(queue), a) => IF Brings(Head(queue)) THEN Queued(a)
                                                          ELSE FailureQueued(a)
    <2>1. 1 \in DOMAIN queue
      BY <1>1, <1>2
    <2> QED BY <1>2, <2>1 DEF Queued, FailureQueued
  <1> QED BY <1>3, <1>6, <1>7, <1>8

LEMMA QueueAppend ==
  ASSUME TypeOK, NEW a, NEW m, QueuedOnce(a), queue' = Append(queue, m),
         Carries(m, a) => ~Queued(a) /\ ~FailureQueued(a)
  PROVE  /\ QueuedOnce(a)'
         /\ Queued(a)' <=> Queued(a) \/ (Carries(m, a) /\ Brings(m))
         /\ FailureQueued(a)' <=> FailureQueued(a) \/ (Carries(m, a) /\ ~Brings(m))
  <1> DEFINE n == Len(queue) + 1
  <1>1. queue \in Seq(Messages) /\ Len(queue) \in Nat
    BY DEF TypeOK
  <1>2. /\ DOMAIN queue = 1..Len(queue) /\ DOMAIN queue' = 1..n
        /\ \A i \in DOMAIN queue : queue'[i] = queue[i]
        /\ queue'[n] = m
    BY <1>1
  <1>3. /\ DOMAIN queue' = DOMAIN queue \cup {n} /\ n \notin DOMAIN queue
    BY <1>1, <1>2
  <1> HIDE DEF n
  <1>4. \A i \in DOMAIN queue : ~(Carries(m, a) /\ Carries(queue[i], a))
    BY DEF Queued, FailureQueued
  <1>5. QueuedOnce(a)'
    BY <1>2, <1>3, <1>4 DEF QueuedOnce, Carries
  <1>6. Queued(a)' <=> Queued(a) \/ (Carries(m, a) /\ Brings(m))
    BY <1>2, <1>3 DEF Queued, Carries, Brings
  <1>7. FailureQueued(a)' <=> FailureQueued(a) \/ (Carries(m, a) /\ ~Brings(m))
    BY <1>2, <1>3 DEF FailureQueued, Carries, Brings
  <1> QED BY <1>5, <1>6, <1>7

\* A step that takes no call about a from the queue and posts none.
LeavesQueue(a) == /\ QueuedOnce(a)'
                  /\ Queued(a)' <=> Queued(a)
                  /\ FailureQueued(a)' <=> FailureQueued(a)

LEMMA QuietQueue ==
  ASSUME TypeOK, NEW a, QueuedOnce(a),
         \/ queue' = queue
         \/ /\ queue # <<>> /\ queue' = Tail(queue)
            /\ Head(queue).kind \notin {"adopt", "rescue"}
         \/ \E m \in Messages : m.kind \notin {"adopt", "rescue"} /\ queue' = Append(queue, m)
  PROVE  LeavesQueue(a)
  <1>1. CASE queue' = queue
    BY <1>1 DEF LeavesQueue, QueuedOnce, Queued, FailureQueued, Carries, Brings
  <1>2. CASE /\ queue # <<>> /\ queue' = Tail(queue)
             /\ Head(queue).kind \notin {"adopt", "rescue"}
    BY <1>2, QueueTail DEF LeavesQueue, Carries
  <1>3. CASE \E m \in Messages : m.kind \notin {"adopt", "rescue"} /\ queue' = Append(queue, m)
    BY <1>3, QueueAppend DEF LeavesQueue, Carries
  <1> QED BY <1>1, <1>2, <1>3

LEMMA RetireExists ==
  ASSUME TypeOK, NEW c, core' = Retire(c), NEW a \in Attempts
  PROVE  Exists(a)' <=> Exists(a) /\ a # c
  BY DEF TypeOK, CoreType, Retire, Exists

(***************************************************************************)
(* The steps of the owner.                                                 *)
(***************************************************************************)
LEMMA QuietOwned ==
  ASSUME NEW a \in Attempts, Owned(a), LeavesQueue(a), owner'.client = owner.client,
         worker' = worker, Exists(a)' <=> Exists(a), rescued' = rescued,
         detached' = detached, alive' = alive
  PROVE  Owned(a)'
  BY DEF Owned, LeavesQueue, Exclusive, SucceededOnce, Backed, HeldBySomebody, Busy, Succeeded

\* A core in use is that of a thread about to end, if the thread still runs.
LEMMA RunningClient ==
  ASSUME TypeOK, Ownership, Running, owner.client # NoAttempt
  PROVE  /\ owner.client \in Attempts /\ owner.thread = owner.client
         /\ worker[owner.client].at = "exiting"
  <1>1. owner.client \in Attempts /\ owner.thread = owner.client
    BY DEF Ownership, ThreadRight, Running, TypeOK, OwnerType, MaybeAttempt
  <1>2. worker[owner.client].at # "idle" /\ ~Busy(owner.client)
    BY <1>1 DEF Ownership, ThreadRight, Running, Owned, Exclusive
  <1> QED BY <1>1, <1>2 DEF Busy, TypeOK, WorkerType, WorkerSteps

\* joinOrAbandonConnectThread by itself: a core in use goes with the thread.
LEMMA JoinOwned ==
  ASSUME TypeOK, Ownership, NEW a \in Attempts, LeavesQueue(a), JoinRescues,
         owner'.client = Joined(owner).client, worker' = worker, core' = core,
         detached' = detached, alive' = alive
  PROVE  Owned(a)'
  <1>1. Owned(a)
    BY DEF Ownership
  <1>2. CASE Running /\ owner.client # NoAttempt
    <2>1. owner'.client = NoAttempt
      BY <1>2 DEF Joined, TypeOK, OwnerType
    <2>2. rescued' = rescued \cup {owner.client} /\ worker[owner.client].at = "exiting"
      BY <1>2, RunningClient DEF JoinRescues
    <2> QED BY <1>1, <1>2, <2>1, <2>2, AttemptsAssumption
         DEF Owned, LeavesQueue, Exclusive, SucceededOnce, Backed, HeldBySomebody, Busy,
             Succeeded, Exists
  <1>3. CASE ~(Running /\ owner.client # NoAttempt)
    <2>1. rescued' = rescued /\ owner'.client = owner.client
      BY <1>3 DEF JoinRescues, Joined, TypeOK, OwnerType
    <2> QED BY <1>1, <2>1, QuietOwned DEF Exists
  <1> QED BY <1>2, <1>3

\* teardownClient: the core in use is taken down, or goes with its thread.  What is
\* queued may go with the object.
LEMMA TeardownOwned ==
  ASSUME TypeOK, Ownership, NEW o, o.client = NoAttempt, TeardownClient(o),
         worker' = worker, detached' = detached, alive' => alive,
         NEW a \in Attempts, QueuedOnce(a)', Queued(a)' => Queued(a),
         FailureQueued(a)' => FailureQueued(a), alive' => (Queued(a) => Queued(a)')
  PROVE  Owned(a)'
  <1>1. Owned(a) /\ owner'.client = NoAttempt /\ JoinRescues
    BY DEF Ownership, TeardownClient
  <1>2. Exists(a)' <=> Exists(a) /\ a # Joined(owner).client
    BY RetireExists DEF TeardownClient
  <1>3. CASE Running /\ owner.client # NoAttempt
    <2>1. Joined(owner).client = NoAttempt
      BY <1>3 DEF Joined, TypeOK, OwnerType
    <2>2. rescued' = rescued \cup {owner.client} /\ worker[owner.client].at = "exiting"
      BY <1>1, <1>3, RunningClient DEF JoinRescues
    <2> QED BY <1>1, <1>2, <1>3, <2>1, <2>2, AttemptsAssumption
         DEF Owned, Exclusive, SucceededOnce, Backed, HeldBySomebody, Busy, Succeeded
  <1>4. CASE ~(Running /\ owner.client # NoAttempt)
    <2>1. rescued' = rescued /\ Joined(owner).client = owner.client
      BY <1>1, <1>4 DEF JoinRescues, Joined, TypeOK, OwnerType
    <2> QED BY <1>1, <1>2, <2>1, AttemptsAssumption
         DEF Owned, Exclusive, SucceededOnce, Backed, HeldBySomebody, Busy, Succeeded
  <1> QED BY <1>3, <1>4

\* A slot an attempt may begin in is in nobody's hands.
LEMMA FreeSlotOwned ==
  ASSUME TypeOK, Ownership, NEW a \in FreeSlots
  PROVE  /\ a \in Attempts /\ worker[a].at = "idle" /\ worker[a].retired = NoAttempt
         /\ owner.client # a /\ ~Exists(a) /\ ~Busy(a) /\ ~Succeeded(a)
         /\ ~Queued(a) /\ ~FailureQueued(a) /\ a \notin rescued /\ a \notin detached
  <1>1. /\ a \in Attempts /\ worker[a].at = "idle" /\ ~Exists(a)
        /\ \A i \in DOMAIN queue : ~Mentions(queue[i], a)
    BY DEF FreeSlots
  <1>2. ~Queued(a) /\ ~FailureQueued(a)
    BY <1>1 DEF Queued, FailureQueued, Carries, Mentions
  <1>3. Backed(a)
    BY <1>1 DEF Ownership, Owned
  <1> QED BY <1>1, <1>2, <1>3 DEF Backed, Busy

\* An attempt begins: the core in use goes to it, or with an abandoned thread.
LEMMA BeginsOwned ==
  ASSUME TypeOK, Ownership, NEW o, o.client = Joined(owner).client, JoinRescues,
         NEW n \in FreeSlots, Begins(o, n), detached' = detached, alive' = alive,
         NEW a \in Attempts, LeavesQueue(a)
  PROVE  Owned(a)'
  <1>1. Owned(a) /\ owner'.client = NoAttempt
    BY DEF Ownership, Begins
  <1>2. /\ n \in Attempts /\ worker[n].at = "idle" /\ worker[n].retired = NoAttempt
        /\ owner.client # n /\ ~Exists(n) /\ ~Busy(n) /\ ~Succeeded(n)
        /\ ~Queued(n) /\ ~FailureQueued(n) /\ n \notin rescued /\ n \notin detached
    BY FreeSlotOwned
  <1>3. /\ \A b \in Attempts : b # n => worker'[b] = worker[b]
        /\ worker'[n].at \in {"building", "retiring"} /\ worker'[n].retired = o.client
        /\ o.client # NoAttempt => worker'[n].at = "retiring"
    BY <1>2 DEF Begins, TypeOK
  <1>4. Exists(a)' <=> Exists(a)
    BY <1>2 DEF Begins, TypeOK, CoreType, Exists
  <1>5. CASE Running /\ owner.client # NoAttempt
    <2>1. o.client = NoAttempt
      BY <1>5 DEF Joined, TypeOK, OwnerType
    <2>2. rescued' = rescued \cup {owner.client} /\ worker[owner.client].at = "exiting"
      BY <1>5, RunningClient DEF JoinRescues
    <2>3. Succeeded(a)' <=> Succeeded(a)
      BY <1>2, <1>3, <2>1, AttemptsAssumption DEF Succeeded
    <2>4. SucceededOnce(a)'
      BY <1>1, <1>2, <1>3, <2>1, AttemptsAssumption DEF Owned, SucceededOnce
    <2> QED BY <1>1, <1>2, <1>3, <1>4, <1>5, <2>1, <2>2, <2>3, <2>4, AttemptsAssumption
         DEF Owned, LeavesQueue, Exclusive, Backed, HeldBySomebody, Busy
  <1>6. CASE ~(Running /\ owner.client # NoAttempt)
    <2>1. rescued' = rescued /\ o.client = owner.client
      BY <1>6 DEF JoinRescues, Joined, TypeOK, OwnerType
    <2>2. Succeeded(a)' <=> Succeeded(a) \/ a = owner.client
      BY <1>2, <1>3, <2>1, AttemptsAssumption DEF Succeeded
    <2>3. SucceededOnce(a)'
      BY <1>1, <1>2, <1>3, <2>1, AttemptsAssumption
         DEF Owned, Exclusive, SucceededOnce, Succeeded
    <2> QED BY <1>1, <1>2, <1>3, <1>4, <2>1, <2>2, <2>3, AttemptsAssumption
         DEF Owned, LeavesQueue, Exclusive, Backed, HeldBySomebody, Busy
  <1> QED BY <1>5, <1>6

(***************************************************************************)
(* What becomes of a result, and the steps of the threads.                 *)
(***************************************************************************)
LEMMA DropStaleOwned ==
  ASSUME TypeOK, Ownership, DropStaleAttempt, NEW a \in Attempts
  PROVE  Owned(a)'
  <1> DEFINE m == Head(queue)
  <1>1. /\ m \in Messages /\ m.kind = "adopt" /\ m.attempt \in Attempts
        /\ queue # <<>> /\ queue' = Tail(queue)
    BY ReceiveType, MessageFields DEF DropStaleAttempt, Receive
  <1>2. detached' = IF Exists(m.attempt) THEN detached \cup {m.attempt} ELSE detached
    BY DEF DropStaleAttempt
  <1>3. /\ owner' = owner /\ worker' = worker /\ core' = core /\ rescued' = rescued
        /\ alive' = alive
    BY DEF DropStaleAttempt
  <1>4. Owned(a)
    BY DEF Ownership
  <1>5. /\ QueuedOnce(a)'
        /\ Queued(a)' <=> Queued(a) /\ ~Carries(m, a)
        /\ FailureQueued(a)' <=> FailureQueued(a) /\ ~Carries(m, a)
        /\ Carries(m, a) => Queued(a) \/ FailureQueued(a)
    BY <1>1, <1>4, QueueTail DEF Owned
  <1>6. Carries(m, a) <=> a = m.attempt
    BY <1>1 DEF Carries
  <1> HIDE DEF m
  <1> QED BY <1>2, <1>3, <1>4, <1>5, <1>6
       DEF Owned, Exclusive, SucceededOnce, Backed, HeldBySomebody, Busy, Succeeded, Exists

\* The core of an adopted session is the object's own, and it had none.
LEMMA AdoptedOwned ==
  ASSUME TypeOK, Ownership, AdoptSession, NEW a \in Attempts
  PROVE  /\ Owned(a)' /\ owner.client = NoAttempt
         /\ owner'.client = Head(queue).attempt
  <1> DEFINE m == Head(queue)
  <1>1. /\ m \in Messages /\ m.kind = "adopt" /\ m.attempt \in Attempts
        /\ queue # <<>> /\ queue' = Tail(queue) /\ m.outcome = "Connected"
    BY ReceiveType, MessageFields DEF AdoptSession, Receive
  <1>2. owner'.client = m.attempt
    BY <1>1 DEF AdoptSession, RoutingApplied, TypeOK, OwnerType, MaybeAttempt
  <1>3. /\ worker' = worker /\ rescued' = rescued /\ detached' = detached /\ alive' = alive
        /\ owner.attemptGen = m.attempt
    BY DEF AdoptSession
  <1>4. Exists(a)' <=> Exists(a)
    BY DEF AdoptSession, CoreRouted, TypeOK, CoreType, Exists
  <1>5. Owned(a)
    BY DEF Ownership
  <1>6. /\ QueuedOnce(a)'
        /\ Queued(a)' <=> Queued(a) /\ ~Carries(m, a)
        /\ FailureQueued(a)' <=> FailureQueued(a) /\ ~Carries(m, a)
        /\ Carries(m, a) => Queued(a)
    BY <1>1, <1>5, QueueTail DEF Owned, Brings
  <1>7. Carries(m, a) <=> a = m.attempt
    BY <1>1 DEF Carries
  <1>8. owner.client = NoAttempt
    <2>1. Owned(m.attempt) /\ Carries(m, m.attempt) /\ Brings(m)
      BY <1>1 DEF Ownership, Carries, Brings
    <2>2. Queued(m.attempt)
      BY <1>1, <2>1, QueueTail DEF Owned
    <2>3. owner.client # m.attempt
      BY <2>1, <2>2 DEF Owned, Exclusive
    <2> QED BY <1>3, <2>3 DEF Ownership, ClientRight
  <1> HIDE DEF m
  <1>9. Owned(a)'
    BY <1>1, <1>2, <1>3, <1>4, <1>5, <1>6, <1>7, <1>8, AttemptsAssumption
       DEF Owned, Exclusive, SucceededOnce, Backed, HeldBySomebody, Busy, Succeeded
  <1> QED BY <1>2, <1>8, <1>9 DEF m

LEMMA AdoptFailureOwned ==
  ASSUME TypeOK, Ownership, AdoptFailure, NEW a \in Attempts
  PROVE  Owned(a)' /\ owner'.client = owner.client
  <1> DEFINE m == Head(queue)
  <1>1. /\ m \in Messages /\ m.kind = "adopt" /\ m.attempt \in Attempts
        /\ queue # <<>> /\ queue' = Tail(queue) /\ ~Brings(m)
    BY ReceiveType, MessageFields DEF AdoptFailure, Receive, Brings
  <1>2. owner'.client = owner.client
    BY DEF AdoptFailure, ScheduledReconnect, TypeOK, OwnerType
  <1>3. /\ worker' = worker /\ rescued' = rescued /\ detached' = detached /\ alive' = alive
        /\ core' = core
    BY DEF AdoptFailure
  <1>4. Owned(a)
    BY DEF Ownership
  <1>5. /\ QueuedOnce(a)'
        /\ Queued(a)' <=> Queued(a) /\ ~Carries(m, a)
        /\ FailureQueued(a)' <=> FailureQueued(a) /\ ~Carries(m, a)
        /\ Carries(m, a) => FailureQueued(a)
    BY <1>1, <1>4, QueueTail DEF Owned
  <1> HIDE DEF m
  <1>6. Owned(a)'
    BY <1>2, <1>3, <1>4, <1>5
       DEF Owned, Exclusive, SucceededOnce, Backed, HeldBySomebody, Busy, Succeeded, Exists
  <1> QED BY <1>2, <1>6

LEMMA NotElevatedOwned ==
  ASSUME TypeOK, Ownership, AdoptNotElevated, NEW a \in Attempts
  PROVE  Owned(a)'
  <1> DEFINE m == Head(queue)
             o == [TornDown(owner) EXCEPT !.stopRequested = TRUE, !.state = "Error"]
  <1>1. /\ m \in Messages /\ m.kind = "adopt" /\ m.attempt \in Attempts
        /\ queue # <<>> /\ queue' = Tail(queue) /\ ~Brings(m)
    BY ReceiveType, MessageFields DEF AdoptNotElevated, Receive, Brings
  <1>2. o.client = NoAttempt
    BY DEF TornDown, Joined, TypeOK, OwnerType
  <1>3. TeardownClient(o) /\ worker' = worker /\ detached' = detached /\ alive' = alive
    BY DEF AdoptNotElevated
  <1>4. Owned(a)
    BY DEF Ownership
  <1>5. /\ QueuedOnce(a)'
        /\ Queued(a)' <=> Queued(a)
        /\ FailureQueued(a)' => FailureQueued(a)
    BY <1>1, <1>4, QueueTail DEF Owned, Exclusive
  <1> HIDE DEF m, o
  <1> QED BY <1>2, <1>3, <1>5, TeardownOwned

LEMMA RescuedOwned ==
  ASSUME TypeOK, Ownership, RetireRescued, NEW a \in Attempts
  PROVE  Owned(a)'
  <1> DEFINE m == Head(queue)
  <1>1. /\ m \in Messages /\ m.kind = "rescue"
        /\ queue # <<>> /\ queue' = Tail(queue) /\ Brings(m)
    BY ReceiveType DEF RetireRescued, Receive, Brings
  <1>2. /\ worker' = worker /\ rescued' = rescued /\ detached' = detached /\ alive' = alive
        /\ owner' = owner /\ core' = Retire(m.attempt)
    BY DEF RetireRescued
  <1>3. Exists(a)' <=> Exists(a) /\ ~Carries(m, a)
    BY <1>1, <1>2, RetireExists DEF Carries
  <1>4. Owned(a)
    BY DEF Ownership
  <1>5. /\ QueuedOnce(a)'
        /\ Queued(a)' <=> Queued(a) /\ ~Carries(m, a)
        /\ FailureQueued(a)' <=> FailureQueued(a) /\ ~Carries(m, a)
        /\ Carries(m, a) => Queued(a)
    BY <1>1, <1>4, QueueTail DEF Owned
  <1> HIDE DEF m
  <1> QED BY <1>2, <1>3, <1>4, <1>5
       DEF Owned, Exclusive, SucceededOnce, Backed, HeldBySomebody, Busy, Succeeded

\* A step of worker w moves it on, and touches nothing of other attempts.
LEMMA WorkerQuiet ==
  ASSUME TypeOK, NEW w \in Attempts, NEW a \in Attempts, Owned(a), LeavesQueue(a),
         owner' = owner, rescued' = rescued, detached' = detached, alive' = alive,
         \A b \in Attempts : worker'[b].retired = worker[b].retired,
         \A b \in Attempts : b # w => worker'[b] = worker[b] /\ (Exists(b)' <=> Exists(b)),
         Busy(w) /\ Busy(w)', worker[w].retired = NoAttempt,
         worker'[w].at \in {"retiring", "building"} => ~Exists(w)',
         worker'[w].at = "connecting" => Exists(w)',
         worker'[w].at = "handover" => (Exists(w)' <=> worker'[w].outcome = "Connected")
  PROVE  Owned(a)'
  <1>1. Succeeded(a)' <=> Succeeded(a)
    BY DEF Succeeded
  <1>2. SucceededOnce(a)'
    BY DEF Owned, SucceededOnce
  <1>3. CASE a # w
    BY <1>1, <1>2, <1>3 DEF Owned, LeavesQueue, Exclusive, Backed, HeldBySomebody, Busy
  <1>4. CASE a = w
    BY <1>1, <1>2, <1>4 DEF Owned, LeavesQueue, Exclusive, Backed, HeldBySomebody, Busy
  <1> QED BY <1>3, <1>4

LEMMA BuildingOwned ==
  ASSUME TypeOK, Ownership, NEW w \in Attempts,
         BuildFails(w) \/ Establish(w) \/ Established(w) \/ EstablishFails(w),
         NEW a \in Attempts
  PROVE  Owned(a)'
  <1>1. Owned(a) /\ Owned(w)
    BY DEF Ownership
  <1>2. /\ owner' = owner /\ rescued' = rescued /\ detached' = detached /\ alive' = alive
        /\ queue' = queue
    BY DEF BuildFails, Establish, Established, EstablishFails
  <1>3. LeavesQueue(a)
    BY <1>1, <1>2, QuietQueue DEF Owned
  <1>4. /\ \A b \in Attempts : worker'[b].retired = worker[b].retired
        /\ \A b \in Attempts : b # w => worker'[b] = worker[b]
        /\ Busy(w) /\ Busy(w)' /\ worker[w].retired = NoAttempt
    BY <1>1 DEF BuildFails, Establish, Established, EstablishFails, At, Goto, Ends, TypeOK,
       WorkerType, Busy, Owned, Backed
  <1>5. \A b \in Attempts : b # w => (Exists(b)' <=> Exists(b))
    BY RetireExists DEF BuildFails, Establish, Established, EstablishFails, TypeOK, CoreType,
       Exists
  <1>6. /\ worker'[w].at \in {"connecting", "handover"}
        /\ worker'[w].at = "connecting" => Exists(w)'
        /\ worker'[w].at = "handover" => (Exists(w)' <=> worker'[w].outcome = "Connected")
    <2>1. CASE BuildFails(w)
      BY <1>1, <2>1 DEF BuildFails, At, Ends, TypeOK, WorkerType, Owned, Backed, Exists
    <2>2. CASE Establish(w)
      BY <2>2 DEF Establish, Goto, TypeOK, WorkerType, CoreType, Exists
    <2>3. CASE Established(w)
      BY <1>1, <2>3 DEF Established, At, Ends, TypeOK, WorkerType, Owned, Backed, Exists
    <2>4. CASE EstablishFails(w)
      <3>1. ~Exists(w)'
        BY <2>4, RetireExists DEF EstablishFails
      <3>2. worker'[w].at = "handover" /\ worker'[w].outcome # "Connected"
        BY <2>4 DEF EstablishFails, Ends, TypeOK, WorkerType
      <3> QED BY <3>1, <3>2
    <2> QED BY <2>1, <2>2, <2>3, <2>4
  <1> QED BY <1>1, <1>2, <1>3, <1>4, <1>5, <1>6, WorkerQuiet

LEMMA RetirePreviousOwned ==
  ASSUME TypeOK, Ownership, NEW w \in Attempts, RetirePrevious(w), NEW a \in Attempts
  PROVE  Owned(a)'
  <1> DEFINE c == worker[w].retired
  <1>1. Owned(a) /\ Owned(w)
    BY DEF Ownership
  <1>2. /\ owner' = owner /\ rescued' = rescued /\ detached' = detached /\ alive' = alive
        /\ queue' = queue
    BY DEF RetirePrevious
  <1>3. LeavesQueue(a)
    BY <1>1, <1>2, QuietQueue DEF Owned
  <1>4. /\ worker[w].at = "retiring" /\ worker'[w].at = "building"
        /\ worker'[w].retired = NoAttempt
        /\ \A b \in Attempts : b # w => worker'[b] = worker[b]
    BY DEF RetirePrevious, At, TypeOK, WorkerType
  <1>5. Exists(a)' <=> Exists(a) /\ a # c
    BY RetireExists DEF RetirePrevious
  <1>6. Succeeded(a)' <=> Succeeded(a) /\ a # c
    <2>1. SucceededOnce(a)
      BY <1>1 DEF Owned
    <2> QED BY <1>4, <2>1, AttemptsAssumption DEF Succeeded, SucceededOnce
  <1>7. a = c => Succeeded(a)
    BY DEF Succeeded
  <1>8. SucceededOnce(a)'
    BY <1>1, <1>4, AttemptsAssumption DEF Owned, SucceededOnce
  <1> HIDE DEF c
  <1>9. Exists(w)' => Exists(w)
    BY RetireExists DEF RetirePrevious, c
  <1>10. CASE a = w
    BY <1>1, <1>2, <1>3, <1>4, <1>5, <1>6, <1>7, <1>8, <1>10
       DEF Owned, LeavesQueue, Exclusive, Backed, HeldBySomebody, Busy
  <1>11. CASE a # w
    BY <1>1, <1>2, <1>3, <1>4, <1>5, <1>6, <1>7, <1>8, <1>11
       DEF Owned, LeavesQueue, Exclusive, Backed, HeldBySomebody, Busy
  <1> QED BY <1>10, <1>11

LEMMA HandOverOwned ==
  ASSUME TypeOK, Ownership, NEW w \in Attempts, HandOver(w), NEW a \in Attempts
  PROVE  Owned(a)'
  <1> DEFINE m == [kind |-> "adopt", attempt |-> w, outcome |-> worker[w].outcome]
  <1>1. Owned(a) /\ Owned(w)
    BY DEF Ownership
  <1>2. /\ owner' = owner /\ rescued' = rescued /\ detached' = detached /\ alive' = alive
    BY DEF HandOver
  <1>3. /\ worker[w].at = "handover" /\ worker'[w].at = "exiting"
        /\ worker'[w].retired = worker[w].retired /\ worker[w].retired = NoAttempt
        /\ \A b \in Attempts : b # w => worker'[b] = worker[b]
    BY <1>1 DEF HandOver, At, TypeOK, WorkerType, Owned, Backed
  <1>4. Succeeded(a)' <=> Succeeded(a)
    BY <1>3 DEF Succeeded
  <1>5. SucceededOnce(a)'
    BY <1>1, <1>3 DEF Owned, SucceededOnce
  <1>6. CASE Wanted(w)
    <2>1. queue' = Append(queue, m) /\ core' = core
      BY <1>6 DEF HandOver
    <2>2. m \in Messages /\ (Carries(m, a) <=> a = w)
      BY MessagesPosted DEF TypeOK, WorkerType, Carries
    <2>3. Brings(m) <=> Exists(w)
      BY <1>1, <1>3 DEF Brings, Owned, Backed
    <2> HIDE DEF m
    <2>4. Busy(w)
      BY <1>3 DEF Busy
    <2>5. a = w => ~Queued(a) /\ ~FailureQueued(a)
      BY <1>1, <2>4 DEF Owned, Exclusive
    <2>6. /\ QueuedOnce(a)'
          /\ Queued(a)' <=> Queued(a) \/ (a = w /\ Brings(m))
          /\ FailureQueued(a)' <=> FailureQueued(a) \/ (a = w /\ ~Brings(m))
      BY <1>1, <2>1, <2>2, <2>5, QueueAppend DEF Owned
    <2>7. Exists(a)' <=> Exists(a)
      BY <2>1 DEF Exists
    <2> QED BY <1>1, <1>2, <1>3, <1>4, <1>5, <2>3, <2>6, <2>7
         DEF Owned, Exclusive, Backed, HeldBySomebody, Busy
  <1>7. CASE ~Wanted(w)
    <2>1. queue' = queue /\ core' = Retire(w)
      BY <1>7 DEF HandOver
    <2>2. LeavesQueue(a) /\ (Exists(a)' <=> Exists(a) /\ a # w)
      BY <1>1, <2>1, QuietQueue, RetireExists DEF Owned
    <2> QED BY <1>1, <1>2, <1>3, <1>4, <1>5, <2>2
         DEF Owned, LeavesQueue, Exclusive, Backed, HeldBySomebody, Busy
  <1> QED BY <1>6, <1>7

LEMMA ExitOwned ==
  ASSUME TypeOK, Ownership, NEW w \in Attempts, Exit(w), NEW a \in Attempts
  PROVE  Owned(a)' /\ owner'.client = owner.client
  <1> DEFINE m == [kind |-> "rescue", attempt |-> w]
  <1>1. Owned(a) /\ Owned(w)
    BY DEF Ownership
  <1>2. /\ owner'.client = owner.client /\ rescued' = rescued \ {w}
        /\ detached' = detached /\ alive' = alive /\ core' = core
    BY DEF Exit, TypeOK, OwnerType
  <1>3. /\ worker[w].at = "exiting" /\ worker'[w].at = "idle"
        /\ worker'[w].retired = worker[w].retired /\ worker[w].retired = NoAttempt
        /\ \A b \in Attempts : b # w => worker'[b] = worker[b]
    BY <1>1 DEF Exit, At, Goto, TypeOK, WorkerType, Owned, Backed
  <1>4. Succeeded(a)' <=> Succeeded(a)
    BY <1>3 DEF Succeeded
  <1>5. SucceededOnce(a)'
    BY <1>1, <1>3 DEF Owned, SucceededOnce
  <1>6. CASE w \in rescued /\ alive
    <2>1. queue' = Append(queue, m)
      BY <1>6 DEF Exit
    <2>2. m \in Messages /\ (Carries(m, a) <=> a = w) /\ Brings(m)
      BY MessagesPosted DEF Carries, Brings
    <2> HIDE DEF m
    <2>3. a = w => ~Queued(a) /\ ~FailureQueued(a)
      BY <1>1, <1>6 DEF Owned, Exclusive
    <2>4. /\ QueuedOnce(a)'
          /\ Queued(a)' <=> Queued(a) \/ a = w
          /\ FailureQueued(a)' <=> FailureQueued(a)
      BY <1>1, <2>1, <2>2, <2>3, QueueAppend DEF Owned
    <2> QED BY <1>1, <1>2, <1>3, <1>4, <1>5, <1>6, <2>4
         DEF Owned, Exclusive, Backed, HeldBySomebody, Busy, Exists
  <1>7. CASE ~(w \in rescued /\ alive)
    <2>1. queue' = queue
      BY <1>7 DEF Exit
    <2>2. LeavesQueue(a)
      BY <1>1, <2>1, QuietQueue DEF Owned
    <2>3. alive => rescued' = rescued
      BY <1>2, <1>7
    <2> QED BY <1>1, <1>2, <1>3, <1>4, <1>5, <2>2, <2>3
         DEF Owned, LeavesQueue, Exclusive, Backed, HeldBySomebody, Busy, Exists
  <1> QED BY <1>2, <1>6, <1>7

LEMMA DetachedOwned ==
  ASSUME TypeOK, Ownership, NEW w \in Attempts, RetireDetached(w), NEW a \in Attempts
  PROVE  Owned(a)'
  <1>1. Owned(a)
    BY DEF Ownership
  <1>2. /\ owner' = owner /\ worker' = worker /\ rescued' = rescued /\ alive' = alive
        /\ queue' = queue /\ w \in detached /\ detached' = detached \ {w}
    BY DEF RetireDetached
  <1>3. LeavesQueue(a) /\ (Exists(a)' <=> Exists(a) /\ a # w)
    BY <1>1, <1>2, QuietQueue, RetireExists DEF Owned, RetireDetached
  <1> QED BY <1>1, <1>2, <1>3
       DEF Owned, LeavesQueue, Exclusive, SucceededOnce, Backed, HeldBySomebody, Busy, Succeeded

(***************************************************************************)
(* Every step keeps the ownership.                                         *)
(***************************************************************************)
LEMMA TornDownParts ==
  ASSUME NEW o \in OwnerType, o.thread = owner.thread
  PROVE  /\ Joined(o).thread = NoAttempt
         /\ TornDown(o).client = NoAttempt /\ TornDown(o).thread = NoAttempt
         /\ TornDown(o).attemptGen = NoAttempt /\ TornDown(o).sessionGen = NoAttempt
         /\ DisconnectedVpn(o).client = NoAttempt /\ DisconnectedVpn(o).thread = NoAttempt
         /\ DisconnectedVpn(o).attemptGen = NoAttempt
         /\ DisconnectedVpn(o).sessionGen = NoAttempt
  <1>1. Joined(o).thread = NoAttempt
    BY DEF Joined, Running, OwnerType
  <1>2. /\ TornDown(o).client = NoAttempt /\ TornDown(o).thread = NoAttempt
        /\ TornDown(o).attemptGen = NoAttempt /\ TornDown(o).sessionGen = NoAttempt
    BY <1>1, JoinedType DEF TornDown, OwnerType
  <1>3. /\ DisconnectedVpn(o).client = NoAttempt /\ DisconnectedVpn(o).thread = NoAttempt
        /\ DisconnectedVpn(o).attemptGen = NoAttempt
        /\ DisconnectedVpn(o).sessionGen = NoAttempt
    BY <1>2, TornDownType DEF DisconnectedVpn, OwnerType
  <1> QED BY <1>1, <1>2, <1>3

\* loadConfigFromToml and connectVpn, of a configuration that loads.
LEMMA StartConnectBegins ==
  ASSUME TypeOK, NEW o \in OwnerType, NEW c \in Configs \ BadConfigs, StartConnect(o, c)
  PROVE  /\ JoinRescues
         /\ \E s \in OwnerType, n \in FreeSlots :
               /\ Begins(s, n) /\ s.client = Joined(o).client /\ s.delayed = o.delayed
               /\ ~s.stopRequested /\ s.killSwitch = o.killSwitch /\ s.lastToml = c
               /\ "reconnect" \notin s.timers
  <1> DEFINE j == Joined(o)
             l == Loaded(j, c)
             s == [l EXCEPT !.stopRequested = FALSE, !.state = "Connecting",
                            !.timers = (@ \ {"reconnect"}) \cup {"fdWatchdog"}]
  <1>1. JoinRescues /\ DoConnectAttempt(s)
    BY DEF StartConnect
  <1>2. j \in OwnerType /\ j.delayed = o.delayed /\ j.killSwitch = o.killSwitch
    BY JoinedType DEF Joined, OwnerType
  <1> HIDE DEF j
  <1>3. /\ l \in OwnerType /\ l.delayed = o.delayed /\ l.killSwitch = o.killSwitch
        /\ l.client = j.client /\ l.lastToml = c
    BY <1>2, LoadedType DEF Loaded, OwnerType
  <1> HIDE DEF l
  <1>4. /\ s \in OwnerType /\ s.delayed = o.delayed /\ s.killSwitch = o.killSwitch
        /\ s.client = j.client /\ s.lastToml = c /\ ~s.stopRequested
        /\ "reconnect" \notin s.timers
    BY <1>3 DEF OwnerType, States, Timers
  <1>5. c \notin BadConfigs /\ c # NoConfig
    BY ConfigsAssumption
  <1> HIDE DEF s
  <1>6. PICK n \in FreeSlots : Begins(s, n)
    BY <1>1, <1>4, <1>5, DoConnectAttemptBegins
  <1> QED BY <1>1, <1>4, <1>6 DEF j

LEMMA BeginsKeeps ==
  ASSUME TypeOK, Ownership, NEW o, o.client = Joined(owner).client, JoinRescues,
         NEW n \in FreeSlots, Begins(o, n), detached' = detached, alive' = alive,
         \A a \in Attempts : LeavesQueue(a)
  PROVE  Ownership'
  <1>1. \A a \in Attempts : Owned(a)'
    BY BeginsOwned
  <1>2. ThreadRight(owner)' /\ ClientRight(owner)'
    <2>1. n \in Attempts
      BY DEF FreeSlots
    <2>2. worker'[n].at # "idle"
      BY <2>1 DEF Begins, TypeOK
    <2> QED BY <2>2 DEF Begins, ThreadRight, ClientRight
  <1> QED BY <1>1, <1>2 DEF Ownership

LEMMA StartConnectOwnership ==
  ASSUME TypeOK, Ownership, NEW o \in OwnerType, NEW c \in Configs, StartConnect(o, c),
         o.client = owner.client, o.thread = owner.thread, o.attemptGen = owner.attemptGen,
         o.sessionGen = owner.sessionGen, detached' = detached, alive' = alive,
         \A a \in Attempts : LeavesQueue(a)
  PROVE  Ownership'
  <1>1. CASE c \in BadConfigs
    <2>1. /\ owner' = [o EXCEPT !.state = "Error"]
          /\ worker' = worker /\ core' = core /\ rescued' = rescued
      BY <1>1 DEF StartConnect, Loaded
    <2>2. /\ owner'.client = owner.client /\ owner'.thread = owner.thread
          /\ owner'.attemptGen = owner.attemptGen /\ owner'.sessionGen = owner.sessionGen
      BY <2>1 DEF OwnerType
    <2>3. \A a \in Attempts : Owned(a)'
      BY <2>1, <2>2, QuietOwned DEF Ownership, Exists
    <2> QED BY <2>1, <2>2, <2>3 DEF Ownership, ThreadRight, ClientRight
  <1>2. CASE c \notin BadConfigs
    <2>1. Joined(o).client = Joined(owner).client
      BY DEF Joined, TypeOK, OwnerType
    <2>2. /\ JoinRescues
          /\ \E s \in OwnerType, n \in FreeSlots : Begins(s, n) /\ s.client = Joined(o).client
      BY <1>2, StartConnectBegins
    <2> QED BY <2>1, <2>2, BeginsKeeps
  <1> QED BY <1>1, <1>2

LEMMA TeardownOwnership ==
  ASSUME TypeOK, Ownership, NEW o, o.client = NoAttempt, o.thread = NoAttempt,
         o.attemptGen = NoAttempt, o.sessionGen = NoAttempt, TeardownClient(o),
         worker' = worker, detached' = detached, alive' = alive,
         \A a \in Attempts : LeavesQueue(a)
  PROVE  Ownership'
  <1>1. \A a \in Attempts : Owned(a)'
    BY TeardownOwned DEF LeavesQueue
  <1>2. owner' = o
    BY DEF TeardownClient
  <1> QED BY <1>1, <1>2 DEF Ownership, ThreadRight, ClientRight

LEMMA ForceReconnectOwnership ==
  ASSUME TypeOK, Ownership, NEW o \in OwnerType, o.thread = owner.thread, ForceReconnect(o),
         worker' = worker, detached' = detached, alive' = alive,
         \A a \in Attempts : LeavesQueue(a)
  PROVE  Ownership'
  <1> DEFINE t == TornDown(o)
             s == ScheduledReconnect(t)
  <1>1. t \in OwnerType /\ t.client = NoAttempt /\ t.thread = NoAttempt
        /\ t.attemptGen = NoAttempt /\ t.sessionGen = NoAttempt
    BY TornDownType, TornDownParts
  <1>2. TeardownClient(s)
    BY DEF ForceReconnect
  <1> HIDE DEF t
  <1>3. s.client = NoAttempt /\ s.thread = NoAttempt
        /\ s.attemptGen = NoAttempt /\ s.sessionGen = NoAttempt
    BY <1>1 DEF ScheduledReconnect, OwnerType
  <1> HIDE DEF s
  <1> QED BY <1>2, <1>3, TeardownOwnership

LEMMA QuietOwnership ==
  ASSUME TypeOK, Ownership, \A a \in Attempts : LeavesQueue(a),
         owner'.client = owner.client, owner'.thread = owner.thread,
         owner'.attemptGen = owner.attemptGen, owner'.sessionGen = owner.sessionGen,
         worker' = worker, \A a \in Attempts : Exists(a)' <=> Exists(a),
         rescued' = rescued, detached' = detached, alive' = alive
  PROVE  Ownership'
  <1>1. \A a \in Attempts : Owned(a)'
    BY QuietOwned DEF Ownership
  <1> QED BY <1>1 DEF Ownership, ThreadRight, ClientRight

\* The handlers that leave who holds what alone.
LEMMA AfterCoreEventParts ==
  ASSUME NEW o \in OwnerType, NEW e \in CoreEvents
  PROVE  LET p == AfterCoreEvent(o, e) IN
         /\ p.client = o.client /\ p.thread = o.thread /\ p.delayed = o.delayed
         /\ p.attemptGen = o.attemptGen /\ p.sessionGen = o.sessionGen
         /\ p.stopRequested = o.stopRequested /\ p.killSwitch = o.killSwitch
         /\ p.state \in {"Connecting", "Connected", "Reconnecting", "WaitingForNetwork", o.state}
  BY DEF AfterCoreEvent, ScheduledReconnect, CoreEvents, OwnerType

LEMMA OwnershipInit == Init => Ownership
  <1> SUFFICES ASSUME Init PROVE Ownership
    OBVIOUS
  <1>1. /\ owner.client = NoAttempt /\ owner.thread = NoAttempt /\ queue = <<>>
        /\ owner.attemptGen = NoAttempt /\ owner.sessionGen = NoAttempt
        /\ rescued = {} /\ detached = {}
    BY DEF Init
  <1>2. \A a \in Attempts : /\ worker[a].at = "idle" /\ worker[a].retired = NoAttempt
                            /\ core[a].status = "none"
    BY DEF Init
  <1>3. DOMAIN queue = {}
    BY <1>1
  <1> QED BY <1>1, <1>2, <1>3, AttemptsAssumption
       DEF Ownership, Owned, Exclusive, QueuedOnce, SucceededOnce, Backed, HeldBySomebody,
           Busy, Succeeded, Queued, FailureQueued, Exists, ThreadRight, ClientRight

LEMMA OwnershipStep ==
  TypeOK /\ SessionConfigRight /\ Ownership /\ [Next]_vars => Ownership'
  <1> SUFFICES ASSUME TypeOK, SessionConfigRight, Ownership, [Next]_vars PROVE Ownership'
    OBVIOUS
  <1>0. owner \in OwnerType /\ \A a \in Attempts : Owned(a) /\ QueuedOnce(a)
    BY DEF TypeOK, Ownership, Owned
  <1>a. ASSUME NEW kind \in {"connect", "disconnect", "setSplitRouting", "setKillSwitch",
                             "coreEvent"},
               Receive(kind)
        PROVE  \A a \in Attempts : LeavesQueue(a)
    BY <1>0, <1>a, QuietQueue DEF Receive
  <1>b. queue' = queue => \A a \in Attempts : LeavesQueue(a)
    BY <1>0, QuietQueue
  <1>1. CASE ConnectNow
    <2>1. Head(queue).config \in Configs
      BY <1>1, ReceiveType, MessageFields DEF ConnectNow
    <2> QED BY <1>0, <1>1, <1>a, <2>1, StartConnectOwnership DEF ConnectNow
  <1>2. CASE ConnectAfterTeardown
    <2> DEFINE d == DisconnectedVpn(owner)
               o == [d EXCEPT !.delayed = Head(queue).config]
    <2>1. d \in OwnerType /\ d.client = NoAttempt /\ d.thread = NoAttempt
          /\ d.attemptGen = NoAttempt /\ d.sessionGen = NoAttempt
      BY <1>0, DisconnectedVpnType, TornDownParts
    <2>2. TeardownClient(o)
      BY <1>2 DEF ConnectAfterTeardown
    <2> HIDE DEF d
    <2>3. o.client = NoAttempt /\ o.thread = NoAttempt
          /\ o.attemptGen = NoAttempt /\ o.sessionGen = NoAttempt
      BY <2>1 DEF OwnerType
    <2> HIDE DEF o
    <2> QED BY <1>2, <1>a, <2>2, <2>3, TeardownOwnership DEF ConnectAfterTeardown
  <1>3. CASE DisconnectVpn
    BY <1>0, <1>3, <1>a, TornDownParts, TeardownOwnership DEF DisconnectVpn
  <1>4. CASE Quit
    <2> DEFINE d == DisconnectedVpn(owner)
    <2>1. d.client = NoAttempt /\ d.thread = NoAttempt
          /\ d.attemptGen = NoAttempt /\ d.sessionGen = NoAttempt
      BY <1>0, TornDownParts
    <2>2. /\ TeardownClient(d) /\ worker' = worker /\ detached' = detached
          /\ queue' = <<>> /\ alive' = FALSE
      BY <1>4 DEF Quit
    <2>3. DOMAIN queue' = {}
      BY <2>2
    <2>4. \A a \in Attempts : QueuedOnce(a)' /\ ~Queued(a)' /\ ~FailureQueued(a)'
      BY <2>3 DEF QueuedOnce, Queued, FailureQueued
    <2> HIDE DEF d
    <2>5. \A a \in Attempts : Owned(a)'
      BY <2>1, <2>2, <2>4, TeardownOwned
    <2>6. owner' = d
      BY <2>2 DEF TeardownClient
    <2> QED BY <2>1, <2>5, <2>6 DEF Ownership, ThreadRight, ClientRight
  <1>5. CASE SetSplitRouting
    <2> DEFINE o == [owner EXCEPT !.routing = Head(queue).routing]
    <2>1. owner' = RoutingApplied(o) /\ core' = CoreRouted(o)
      BY <1>5 DEF SetSplitRouting
    <2>2. /\ owner'.client = owner.client /\ owner'.thread = owner.thread
          /\ owner'.attemptGen = owner.attemptGen /\ owner'.sessionGen = owner.sessionGen
      BY <1>0, <2>1 DEF RoutingApplied, OwnerType
    <2>3. \A a \in Attempts : Exists(a)' <=> Exists(a)
      BY <2>1 DEF CoreRouted, TypeOK, CoreType, Exists
    <2> QED BY <1>5, <1>a, <2>2, <2>3, QuietOwnership DEF SetSplitRouting
  <1>6. CASE SetKillSwitch
    <2>1. /\ owner'.client = owner.client /\ owner'.thread = owner.thread
          /\ owner'.attemptGen = owner.attemptGen /\ owner'.sessionGen = owner.sessionGen
      BY <1>0, <1>6 DEF SetKillSwitch, OwnerType
    <2> QED BY <1>6, <1>a, <2>1, QuietOwnership DEF SetKillSwitch, Exists
  <1>7. CASE CoreStateChanged
    <2>1. Head(queue).event \in CoreEvents
      BY <1>7, ReceiveType, MessageFields DEF CoreStateChanged
    <2>2. /\ owner'.client = owner.client /\ owner'.thread = owner.thread
          /\ owner'.attemptGen = owner.attemptGen /\ owner'.sessionGen = owner.sessionGen
      BY <1>0, <1>7, <2>1, AfterCoreEventParts DEF CoreStateChanged
    <2> QED BY <1>7, <1>a, <2>2, QuietOwnership DEF CoreStateChanged, Exists
  <1>8. CASE DropStaleAttempt
    <2>1. owner' = owner /\ worker' = worker
      BY <1>8 DEF DropStaleAttempt
    <2> QED BY <1>8, <2>1, DropStaleOwned DEF Ownership, ThreadRight, ClientRight
  <1>9. CASE AdoptSession
    <2>1. Head(queue).attempt = owner.attemptGen /\ worker' = worker
      BY <1>9 DEF AdoptSession
    <2>2. \A a \in Attempts : Owned(a)'
      BY <1>9, AdoptedOwned
    <2>3. owner'.client = Head(queue).attempt
      BY <1>9, AdoptedOwned, ReceiveType, MessageFields DEF AdoptSession
    <2>4. owner'.thread = owner.thread /\ owner'.attemptGen = owner.attemptGen
          /\ owner'.sessionGen = owner.sessionGen
      BY <1>0, <1>9 DEF AdoptSession, RoutingApplied, OwnerType
    <2> QED BY <2>1, <2>2, <2>3, <2>4 DEF Ownership, ThreadRight, ClientRight
  <1>10. CASE AdoptFailure
    <2>1. \A a \in Attempts : Owned(a)'
      BY <1>10, AdoptFailureOwned
    <2>2. /\ owner'.client = owner.client /\ owner'.thread = owner.thread
          /\ owner'.attemptGen = owner.attemptGen /\ owner'.sessionGen = owner.sessionGen
          /\ worker' = worker
      BY <1>0, <1>10 DEF AdoptFailure, ScheduledReconnect, OwnerType
    <2> QED BY <2>1, <2>2 DEF Ownership, ThreadRight, ClientRight
  <1>11. CASE AdoptNotElevated
    <2> DEFINE t == TornDown(owner)
    <2>1. \A a \in Attempts : Owned(a)'
      BY <1>11, NotElevatedOwned
    <2>2. t \in OwnerType /\ t.client = NoAttempt /\ t.thread = NoAttempt
          /\ t.attemptGen = NoAttempt /\ t.sessionGen = NoAttempt
      BY <1>0, TornDownType, TornDownParts
    <2>3. owner' = [t EXCEPT !.stopRequested = TRUE, !.state = "Error"]
      BY <1>11 DEF AdoptNotElevated, TeardownClient
    <2> HIDE DEF t
    <2>4. owner'.client = NoAttempt /\ owner'.thread = NoAttempt
          /\ owner'.attemptGen = NoAttempt /\ owner'.sessionGen = NoAttempt
      BY <2>2, <2>3 DEF OwnerType
    <2> QED BY <2>1, <2>4 DEF Ownership, ThreadRight, ClientRight
  <1>12. CASE RetireRescued
    <2>1. owner' = owner /\ worker' = worker
      BY <1>12 DEF RetireRescued
    <2> QED BY <1>12, <2>1, RescuedOwned DEF Ownership, ThreadRight, ClientRight
  <1>13. CASE TimerStep
    <2>0. queue' = queue /\ detached' = detached /\ alive' = alive
      BY <1>13 DEF TimerStep, DelayedStart, ReconnectTimeout, NetworkWaitTimeout, FdLeakFound
    <2>1. CASE DelayedStart
      <3> DEFINE o == [owner EXCEPT !.delayed = NoConfig]
      <3>1. /\ o \in OwnerType /\ owner.delayed \in Configs
            /\ o.client = owner.client /\ o.thread = owner.thread
            /\ o.attemptGen = owner.attemptGen /\ o.sessionGen = owner.sessionGen
        BY <1>0, <2>1 DEF DelayedStart, OwnerType
      <3>2. StartConnect(o, owner.delayed)
        BY <2>1 DEF DelayedStart
      <3> HIDE DEF o
      <3> QED BY <1>b, <2>0, <3>1, <3>2, StartConnectOwnership
    <2>2. CASE ReconnectTimeout
      <3> DEFINE o == [owner EXCEPT !.timers = @ \ {"reconnect"}]
      <3>1. /\ o \in OwnerType /\ o.client = owner.client /\ o.thread = owner.thread
            /\ o.attemptGen = owner.attemptGen /\ o.sessionGen = owner.sessionGen
            /\ o.lastToml = owner.lastToml
        BY <1>0 DEF OwnerType
      <3>2. JoinRescues /\ DoConnectAttempt(Joined(o))
        BY <2>2 DEF ReconnectTimeout
      <3>3. owner.lastToml \notin BadConfigs /\ owner.lastToml # NoConfig
        BY <2>2 DEF ReconnectTimeout, SessionConfigRight, ConfigRight
      <3> HIDE DEF o
      <3>4. /\ Joined(o) \in OwnerType /\ Joined(o).lastToml = owner.lastToml
            /\ Joined(o).client = Joined(owner).client /\ Joined(o).thread = NoAttempt
            /\ ClientRight(Joined(o))
        BY <1>0, <3>1, JoinedType, TornDownParts, TornDownKeepsConfig
           DEF Joined, OwnerType, ClientRight, Ownership
      <3>5. CASE owner' = Joined(o) /\ worker' = worker /\ core' = core
        <4>1. \A a \in Attempts : Owned(a)'
          BY <1>b, <2>0, <3>2, <3>4, <3>5, JoinOwned
        <4> QED BY <3>4, <3>5, <4>1 DEF Ownership, ThreadRight, ClientRight
      <3>6. CASE \E n \in FreeSlots : Begins(Joined(o), n)
        BY <1>b, <2>0, <3>2, <3>4, <3>6, BeginsKeeps
      <3> QED BY <3>2, <3>3, <3>4, <3>5, <3>6, DoConnectAttemptBegins
    <2>3. CASE NetworkWaitTimeout
      <3> DEFINE o == [owner EXCEPT !.timers = @ \ {"networkWait"}]
      <3>1. /\ o \in OwnerType /\ o.client = owner.client /\ o.thread = owner.thread
            /\ o.attemptGen = owner.attemptGen /\ o.sessionGen = owner.sessionGen
        BY <1>0 DEF OwnerType
      <3>2. /\ worker' = worker
            /\ \/ owner' \in {o, owner} /\ core' = core /\ rescued' = rescued
               \/ ForceReconnect(o)
        BY <2>3 DEF NetworkWaitTimeout
      <3> HIDE DEF o
      <3> QED BY <1>b, <2>0, <3>1, <3>2, ForceReconnectOwnership, QuietOwnership DEF Exists
    <2>4. CASE FdLeakFound
      <3>1. /\ worker' = worker
            /\ \/ owner' = owner /\ core' = core /\ rescued' = rescued
               \/ ForceReconnect(owner)
        BY <2>4 DEF FdLeakFound
      <3> QED BY <1>0, <1>b, <2>0, <3>1, ForceReconnectOwnership, QuietOwnership DEF Exists
    <2> QED BY <1>13, <2>1, <2>2, <2>3, <2>4 DEF TimerStep
  <1>14. CASE \E w \in Attempts : WorkerStep(w) \/ RetireDetached(w)
    <2>1. PICK w \in Attempts : WorkerStep(w) \/ RetireDetached(w)
      BY <1>14
    <2>2. \A a \in Attempts : Owned(a)'
      BY <2>1, BuildingOwned, RetirePreviousOwned, HandOverOwned, ExitOwned, DetachedOwned
         DEF WorkerStep
    <2>3. CASE Exit(w)
      <3>1. /\ owner'.client = owner.client /\ owner'.attemptGen = owner.attemptGen
            /\ owner'.sessionGen = owner.sessionGen
            /\ owner'.thread = IF owner.thread = w THEN NoAttempt ELSE owner.thread
            /\ worker' = [worker EXCEPT ![w].at = "idle"]
        BY <1>0, <2>3 DEF Exit, Goto, OwnerType
      <3> QED BY <2>2, <3>1 DEF Ownership, ThreadRight, ClientRight, TypeOK, OwnerType,
              MaybeAttempt
    <2>4. CASE ~Exit(w)
      <3>1. owner' = owner /\ \A a \in Attempts : worker'[a].at = "idle" => worker[a].at = "idle"
        BY <2>1, <2>4 DEF WorkerStep, RetirePrevious, BuildFails, Establish, Established,
           EstablishFails, HandOver, RetireDetached, Goto, Ends, At, TypeOK, WorkerType
      <3> QED BY <1>0, <2>2, <3>1 DEF Ownership, ThreadRight, ClientRight, OwnerType,
              MaybeAttempt
    <2> QED BY <2>3, <2>4
  <1>15. CASE Outside
    <2>1. /\ owner' = owner /\ worker' = worker /\ rescued' = rescued
          /\ detached' = detached /\ alive' = alive
          /\ \E m \in Messages : m.kind \notin {"adopt", "rescue"} /\ queue' = Append(queue, m)
      <3>1. CASE \E a \in Attempts, event \in CoreEvents : CoreReports(a, event)
        BY <3>1, MessagesPosted DEF CoreReports, Post
      <3>2. CASE \E m \in Commands : Command(m)
        BY <3>2, CommandsAssumption DEF Command, Post, Commands
      <3>3. CASE Leave
        BY <3>3 DEF Leave, Post, Messages
      <3> QED BY <1>15, <3>1, <3>2, <3>3 DEF Outside
    <2>2. \A a \in Attempts : Exists(a)' <=> Exists(a)
      BY <1>15 DEF Outside, CoreReports, Command, Leave, TypeOK, CoreType, Exists
    <2>3. \A a \in Attempts : LeavesQueue(a)
      BY <1>0, <2>1, QuietQueue
    <2> QED BY <2>1, <2>2, <2>3, QuietOwnership
  <1>16. CASE UNCHANGED vars
    BY <1>16, <1>b, QuietOwnership DEF vars, Exists
  <1> QED BY <1>1, <1>2, <1>3, <1>4, <1>5, <1>6, <1>7, <1>8, <1>9, <1>10, <1>11, <1>12,
             <1>13, <1>14, <1>15, <1>16, Steps DEF OwnerStep, StartCommand, StopCommand, ServeStep

\* The holders of the specification, in the words of the ownership.
LEMMA HoldersAre ==
  ASSUME TypeOK, NEW a \in Attempts
  PROVE  /\ Holders(a) \subseteq {"client", "worker", "successor", "queue", "thread", "detached"}
         /\ "client" \in Holders(a) <=> owner.client = a
         /\ "worker" \in Holders(a) <=> worker[a].at \in {"connecting", "handover"}
         /\ "successor" \in Holders(a) <=> Succeeded(a)
         /\ "queue" \in Holders(a) <=> Queued(a) \/ FailureQueued(a)
         /\ "thread" \in Holders(a) <=> a \in rescued
         /\ "detached" \in Holders(a) <=> a \in detached
  <1>1. Holders(a) \subseteq {"client", "worker", "successor", "queue", "thread", "detached"}
    BY DEF Holders
  <1>2. "client" \in Holders(a) <=> owner.client = a
    BY DEF Holders
  <1>3. "worker" \in Holders(a) <=> worker[a].at \in {"connecting", "handover"}
    BY DEF Holders
  <1>4. "successor" \in Holders(a) <=> Succeeded(a)
    BY DEF Holders, Succeeded
  <1>5. "queue" \in Holders(a) <=> Queued(a) \/ FailureQueued(a)
    <2>1. "queue" \in Holders(a) <=>
             \E i \in DOMAIN queue : queue[i].kind \in {"adopt", "rescue"} /\ queue[i].attempt = a
      BY DEF Holders
    <2> QED BY <2>1 DEF Queued, FailureQueued, Carries
  <1>6. "thread" \in Holders(a) <=> a \in rescued
    BY DEF Holders
  <1>7. "detached" \in Holders(a) <=> a \in detached
    BY DEF Holders
  <1> QED BY <1>1, <1>2, <1>3, <1>4, <1>5, <1>6, <1>7

\* Nobody shares a core, and while the object lives nobody loses one.
LEMMA OneHolder == TypeOK /\ Ownership /\ alive => NoLostCore
  <1> SUFFICES ASSUME TypeOK, Ownership, alive, NEW a \in Attempts, Exists(a)
               PROVE  \E h \in Holders(a) : Holders(a) = {h}
    BY DEF NoLostCore
  <1>1. Owned(a)
    BY DEF Ownership
  <1>2. Busy(a) <=> worker[a].at \in {"connecting", "handover"}
    BY <1>1 DEF Owned, Backed, Busy
  <1>3. ~FailureQueued(a)
    BY <1>1 DEF Owned, Backed
  <1> DEFINE only(h) == h \in Holders(a) /\ Holders(a) = {h}
  <1>4. CASE owner.client = a
    <2>1. only("client")
      BY <1>1, <1>2, <1>4, HoldersAre DEF Owned, Exclusive
    <2> QED BY <2>1
  <1>5. CASE Busy(a)
    <2>1. only("worker")
      BY <1>1, <1>2, <1>5, HoldersAre DEF Owned, Exclusive
    <2> QED BY <2>1
  <1>6. CASE Succeeded(a)
    <2>1. only("successor")
      BY <1>1, <1>2, <1>6, HoldersAre DEF Owned, Exclusive
    <2> QED BY <2>1
  <1>7. CASE Queued(a)
    <2>1. only("queue")
      BY <1>1, <1>2, <1>7, HoldersAre DEF Owned, Exclusive
    <2> QED BY <2>1
  <1>8. CASE a \in rescued
    <2>1. only("thread")
      BY <1>1, <1>2, <1>3, <1>8, HoldersAre DEF Owned, Exclusive
    <2> QED BY <2>1
  <1>9. CASE a \in detached
    <2>1. only("detached")
      BY <1>1, <1>2, <1>3, <1>9, HoldersAre DEF Owned, Exclusive
    <2> QED BY <2>1
  <1> QED BY <1>1, <1>4, <1>5, <1>6, <1>7, <1>8, <1>9 DEF Owned, HeldBySomebody

\* The session is sound in all three respects at once.
SessionSound == TypeOK /\ SessionConfigRight /\ Ownership

LEMMA SoundInit == Init => SessionSound
  BY TypeInit, ConfigInit, OwnershipInit DEF SessionSound

LEMMA SoundStep == SessionSound /\ [Next]_vars => SessionSound'
  BY TypeStep, ConfigStep, OwnershipStep DEF SessionSound

\* While the object lives, a core that was set to connect is held by one who will
\* disconnect it, and by one only: whatever is abandoned, late, stale or replaced.
THEOREM CoresAreHeld == Spec => [](alive => NoLostCore)
  <1>1. SessionSound => (alive => NoLostCore)
    BY OneHolder DEF SessionSound
  <1> QED BY <1>1, SoundInit, SoundStep, PTL DEF Spec

-----------------------------------------------------------------------------
(***************************************************************************)
(* What stands behind a session that promises a tunnel, and what may take  *)
(* its core away: theorems about TunnelSession, for any number of attempts *)
(* and any bound on the queue.  The events of a core arrive in order, its  *)
(* last word after every other; an attempt whose failure arrived has said  *)
(* all it had to say; and where nothing more is to come from the current   *)
(* attempt, the reconnect timer runs.                                      *)
(***************************************************************************)

Tells(m, a) == m.kind = "coreEvent" /\ m.session = a
LastWord(m, a) == Tells(m, a) /\ m.event = "DISCONNECTED"
Closes(m, a) == LastWord(m, a) \/ (Carries(m, a) /\ ~Brings(m))

\* An event of the core of a, its last word, the end of its abandoned thread: queued.
Told(a) == \E i \in DOMAIN queue : Tells(queue[i], a)
EndTold(a) == \E i \in DOMAIN queue : LastWord(queue[i], a)
Awaited(a) == \E i \in DOMAIN queue : queue[i].kind = "rescue" /\ queue[i].attempt = a

NothingAfter(a) ==
    \A i, j \in DOMAIN queue : Closes(queue[i], a) /\ Tells(queue[j], a) => j <= i

Building(a) == worker[a].at \in {"retiring", "building"}

EventsRight(a) == /\ NothingAfter(a)
                  /\ EndTold(a) => core[a].status # "live"
                  /\ Building(a) => ~Told(a)

AllEventsRight == \A a \in Attempts : EventsRight(a)

Up == {"Connecting", "Connected", "Reconnecting", "WaitingForNetwork"}

\* Nothing more is to come from the attempt a: no core, no worker, no result.
Failed(a) == ~Exists(a) /\ ~Busy(a) /\ ~FailureQueued(a)

Retrying == "reconnect" \in owner.timers

\* The core of the current attempt g is in no hands but its own, and a session
\* whose attempt came to nothing, or whose core ended, is retried or told.
CurrentRight(g) ==
    /\ g \notin rescued /\ g \notin detached /\ ~Succeeded(g) /\ ~Awaited(g)
    /\ Retrying => ~Told(g) /\ core[g].status # "live" /\ ~Building(g)
    /\ Failed(g) => ~Told(g) /\ (Retrying \/ owner.state \notin Up)
    /\ core[g].status = "ended" => Retrying \/ owner.stopRequested \/ EndTold(g)

SessionRight == \A g \in Attempts : owner.attemptGen = g => CurrentRight(g)

StateRight ==
    /\ owner.stopRequested => owner.state \in {"Disconnected", "Error"}
    /\ owner.state \in Up => owner.attemptGen # NoAttempt \/ Retrying
    /\ Retrying => owner.state # "Connected"
    /\ ~alive => owner.attemptGen = NoAttempt

(***************************************************************************)
(* The queue.                                                              *)
(***************************************************************************)
LEMMA EventTail ==
  ASSUME TypeOK, NEW a, NothingAfter(a), queue # <<>>, queue' = Tail(queue)
  PROVE  /\ NothingAfter(a)'
         /\ Told(a)' => Told(a)
         /\ EndTold(a)' => EndTold(a)
         /\ EndTold(a) /\ ~LastWord(Head(queue), a) => EndTold(a)'
         /\ Awaited(a)' => Awaited(a)
         /\ Tells(Head(queue), a) => Told(a)
         /\ LastWord(Head(queue), a) => EndTold(a)
         /\ Closes(Head(queue), a) => ~Told(a)'
         /\ Head(queue).kind = "rescue" /\ Head(queue).attempt = a => Awaited(a)
  <1>1. queue \in Seq(Messages) /\ Len(queue) \in Nat /\ Len(queue) > 0
    BY DEF TypeOK
  <1>2. /\ DOMAIN queue = 1..Len(queue) /\ DOMAIN queue' = 1..(Len(queue) - 1)
        /\ \A i \in DOMAIN queue' : queue'[i] = queue[i + 1]
        /\ Head(queue) = queue[1]
    BY <1>1
  <1>3. \A j \in DOMAIN queue' : j \in Nat /\ j > 0 /\ j + 1 \in DOMAIN queue
                                 /\ queue[j + 1] = queue'[j]
    BY <1>1, <1>2
  <1>4. \A i \in DOMAIN queue : i # 1 => \E j \in DOMAIN queue' : queue'[j] = queue[i]
    <2> SUFFICES ASSUME NEW i \in DOMAIN queue, i # 1
                 PROVE  \E j \in DOMAIN queue' : queue'[j] = queue[i]
      OBVIOUS
    <2>1. i - 1 \in DOMAIN queue' /\ queue'[i - 1] = queue[i]
      BY <1>1, <1>2
    <2> QED BY <2>1
  <1>5. NothingAfter(a)'
    <2> SUFFICES ASSUME NEW i \in DOMAIN queue', NEW j \in DOMAIN queue',
                        Closes(queue'[i], a), Tells(queue'[j], a)
                 PROVE  j <= i
      BY DEF NothingAfter, Closes, Tells, LastWord, Carries, Brings
    <2>1. j + 1 <= i + 1
      BY <1>3 DEF NothingAfter
    <2> QED BY <1>3, <2>1
  <1>6. /\ Told(a)' => Told(a)
        /\ EndTold(a)' => EndTold(a)
        /\ Awaited(a)' => Awaited(a)
    BY <1>3 DEF Told, EndTold, Awaited, Tells, LastWord
  <1>7. EndTold(a) /\ ~LastWord(Head(queue), a) => EndTold(a)'
    BY <1>2, <1>4 DEF EndTold, LastWord, Tells
  <1>8. 1 \in DOMAIN queue
    BY <1>1, <1>2
  <1>9. Closes(Head(queue), a) => ~Told(a)'
    <2> SUFFICES ASSUME Closes(Head(queue), a), NEW j \in DOMAIN queue', Tells(queue'[j], a)
                 PROVE  FALSE
      BY DEF Told, Tells
    <2>1. j + 1 <= 1
      BY <1>2, <1>3, <1>8 DEF NothingAfter
    <2> QED BY <1>3, <2>1
  <1> QED BY <1>2, <1>5, <1>6, <1>7, <1>8, <1>9 DEF Told, EndTold, Awaited

LEMMA EventAppend ==
  ASSUME TypeOK, NEW a, NothingAfter(a), NEW m, queue' = Append(queue, m),
         Tells(m, a) => ~EndTold(a) /\ ~FailureQueued(a)
  PROVE  /\ NothingAfter(a)'
         /\ Told(a)' <=> Told(a) \/ Tells(m, a)
         /\ EndTold(a)' <=> EndTold(a) \/ LastWord(m, a)
         /\ Awaited(a)' <=> Awaited(a) \/ (m.kind = "rescue" /\ m.attempt = a)
  <1> DEFINE n == Len(queue) + 1
  <1>1. queue \in Seq(Messages) /\ Len(queue) \in Nat
    BY DEF TypeOK
  <1>2. /\ DOMAIN queue = 1..Len(queue) /\ DOMAIN queue' = 1..n
        /\ \A i \in DOMAIN queue : queue'[i] = queue[i]
        /\ queue'[n] = m
    BY <1>1
  <1>3. /\ DOMAIN queue' = DOMAIN queue \cup {n}
        /\ n <= n /\ \A i \in DOMAIN queue : i <= n
    BY <1>1, <1>2
  <1> HIDE DEF n
  <1>4. \A i \in DOMAIN queue : ~(Tells(m, a) /\ Closes(queue[i], a))
    BY DEF Closes, EndTold, FailureQueued
  <1>5. NothingAfter(a)'
    <2> SUFFICES ASSUME NEW i \in DOMAIN queue', NEW j \in DOMAIN queue',
                        Closes(queue'[i], a), Tells(queue'[j], a)
                 PROVE  j <= i
      BY DEF NothingAfter, Closes, Tells, LastWord, Carries, Brings
    <2>1. CASE i = n
      BY <1>3, <2>1
    <2>2. CASE i # n
      <3>1. i \in DOMAIN queue /\ queue'[i] = queue[i] /\ j # n
        BY <1>2, <1>3, <1>4, <2>2
      <3> QED BY <1>2, <1>3, <3>1 DEF NothingAfter
    <2> QED BY <2>1, <2>2
  <1>6. /\ Told(a)' <=> Told(a) \/ Tells(m, a)
        /\ EndTold(a)' <=> EndTold(a) \/ LastWord(m, a)
        /\ Awaited(a)' <=> Awaited(a) \/ (m.kind = "rescue" /\ m.attempt = a)
    BY <1>2, <1>3 DEF Told, EndTold, Awaited, Tells, LastWord
  <1> QED BY <1>5, <1>6

(***************************************************************************)
(* The events of every core arrive in order, the last word last.           *)
(***************************************************************************)
\* What every step but a report of a core does to the queue.
QueueMoves ==
    \/ queue' = queue
    \/ queue # <<>> /\ queue' = Tail(queue)
    \/ queue' = <<>>
    \/ \E m \in Messages : m.kind # "coreEvent" /\ queue' = Append(queue, m)

LEMMA QueueMovesKeep ==
  ASSUME TypeOK, NEW a, NothingAfter(a), QueueMoves
  PROVE  NothingAfter(a)' /\ (Told(a)' => Told(a)) /\ (EndTold(a)' => EndTold(a))
  <1>1. CASE queue' = queue
    BY <1>1 DEF NothingAfter, Told, EndTold, Closes, Tells, LastWord, Carries, Brings
  <1>2. CASE queue # <<>> /\ queue' = Tail(queue)
    BY <1>2, EventTail
  <1>3. CASE queue' = <<>>
    <2>1. DOMAIN queue' = {}
      BY <1>3
    <2> QED BY <2>1 DEF NothingAfter, Told, EndTold
  <1>4. CASE \E m \in Messages : m.kind # "coreEvent" /\ queue' = Append(queue, m)
    BY <1>4, EventAppend DEF Tells, LastWord
  <1> QED BY <1>1, <1>2, <1>3, <1>4 DEF QueueMoves

LEMMA NewAttempt ==
  ASSUME TypeOK, NEW o, DoConnectAttempt(o), NEW a \in Attempts
  PROVE  /\ core'[a].status = "live" => core[a].status = "live"
         /\ Building(a)' => Building(a) \/ a \in FreeSlots
  <1>1. CASE worker' = worker /\ core' = core
    BY <1>1 DEF Building
  <1>2. CASE \E n \in FreeSlots : Attempt(o, n)
    <2>1. PICK n \in FreeSlots : Attempt(o, n)
      BY <1>2
    <2> QED BY <1>1, <2>1 DEF Attempt, TypeOK, CoreType, Building
  <1> QED BY <1>1, <1>2 DEF DoConnectAttempt

LEMMA StartConnectNew ==
  ASSUME TypeOK, NEW o, NEW c, StartConnect(o, c), NEW a \in Attempts
  PROVE  /\ core'[a].status = "live" => core[a].status = "live"
         /\ Building(a)' => Building(a) \/ a \in FreeSlots
  BY NewAttempt DEF StartConnect, Building

LEMMA RetireStatus ==
  ASSUME TypeOK, NEW c, core' = Retire(c), NEW a \in Attempts
  PROVE  core'[a].status = IF a = c THEN "none" ELSE core[a].status
  BY DEF Retire, TypeOK, CoreType

\* A core comes to life at the hands of its worker alone; an attempt begins in a
\* slot nothing refers to.
LEMMA StatusStep ==
  ASSUME TypeOK, Next, NEW a \in Attempts
  PROVE  /\ core'[a].status = "live" => core[a].status = "live" \/ Building(a)
         /\ Building(a)' => Building(a) \/ a \in FreeSlots
  <1>1. CASE OwnerStep
    <2>1. CASE ConnectNow
      BY <2>1, StartConnectNew DEF ConnectNow
    <2>2. CASE ~ConnectNow
      <3>1. /\ worker' = worker
            /\ \/ core' = core
               \/ \E c \in MaybeAttempt : core' = Retire(c)
               \/ \E o \in OwnerType : core' = CoreRouted(o)
        <4>1. CASE ConnectAfterTeardown \/ DisconnectVpn \/ Quit \/ AdoptNotElevated
          BY <4>1, JoinedType DEF ConnectAfterTeardown, DisconnectVpn, Quit, AdoptNotElevated,
             TeardownClient, TypeOK, OwnerType
        <4>2. CASE SetSplitRouting
          BY <4>2, ReceiveType, MessageFields DEF SetSplitRouting, TypeOK, OwnerType
        <4>3. CASE AdoptSession
          <5>1. Head(queue).attempt \in Attempts
            BY <4>3, ReceiveType, MessageFields DEF AdoptSession
          <5> QED BY <4>3, <5>1 DEF AdoptSession, TypeOK, OwnerType, MaybeAttempt, CoreType
        <4>4. CASE RetireRescued
          BY <4>4, ReceiveType, MessageFields DEF RetireRescued, MaybeAttempt
        <4>5. CASE SetKillSwitch \/ CoreStateChanged \/ DropStaleAttempt \/ AdoptFailure
          BY <4>5 DEF SetKillSwitch, CoreStateChanged, DropStaleAttempt, AdoptFailure
        <4> QED BY <1>1, <2>2, <4>1, <4>2, <4>3, <4>4, <4>5
                DEF OwnerStep, StartCommand, StopCommand, ServeStep
      <3>2. core'[a].status \in {core[a].status, "none"}
        <4>1. CASE \E o \in OwnerType : core' = CoreRouted(o)
          BY <4>1 DEF CoreRouted, TypeOK, CoreType
        <4> QED BY <3>1, <4>1, RetireStatus
      <3> QED BY <3>1, <3>2 DEF Building
    <2> QED BY <2>1, <2>2
  <1>2. CASE TimerStep
    <2>1. CASE DelayedStart
      BY <2>1, StartConnectNew DEF DelayedStart
    <2>2. CASE ReconnectTimeout
      BY <2>2, NewAttempt DEF ReconnectTimeout
    <2>3. CASE NetworkWaitTimeout \/ FdLeakFound
      <3>1. worker' = worker /\ (core' = core \/ core' = Retire(Joined(owner).client))
        BY <2>3 DEF NetworkWaitTimeout, FdLeakFound, ForceReconnect, TeardownClient
      <3> QED BY <3>1, RetireStatus DEF Building
    <2> QED BY <1>2, <2>1, <2>2, <2>3 DEF TimerStep
  <1>3. ASSUME NEW w \in Attempts, WorkerStep(w) \/ RetireDetached(w)
        PROVE  /\ core'[a].status = "live" => core[a].status = "live" \/ Building(a)
               /\ Building(a)' => Building(a) \/ a \in FreeSlots
    <2>1. Building(a)' => Building(a)
      <3>1. CASE RetirePrevious(w)
        BY <3>1 DEF RetirePrevious, At, Building, TypeOK, WorkerType
      <3>2. CASE BuildFails(w) \/ Established(w) \/ EstablishFails(w)
        BY <3>2 DEF BuildFails, Established, EstablishFails, Ends, Building, TypeOK, WorkerType
      <3>3. CASE Establish(w) \/ HandOver(w) \/ Exit(w) \/ RetireDetached(w)
        BY <3>3 DEF Establish, HandOver, Exit, RetireDetached, Goto, Building, TypeOK, WorkerType
      <3> QED BY <1>3, <3>1, <3>2, <3>3 DEF WorkerStep
    <2>2. \/ core' = core \/ \E c \in MaybeAttempt : core' = Retire(c)
          \/ Building(w) /\ core' = [core EXCEPT ![w].status = "live"]
      <3>1. CASE RetirePrevious(w)
        BY <3>1 DEF RetirePrevious, TypeOK, WorkerType
      <3>2. CASE ~RetirePrevious(w)
        BY <1>3, <3>2 DEF WorkerStep, BuildFails, Establish, Established, EstablishFails,
           HandOver, Exit, RetireDetached, At, Building, MaybeAttempt
      <3> QED BY <3>1, <3>2
    <2> QED BY <2>1, <2>2, RetireStatus DEF TypeOK, CoreType
  <1>4. CASE Outside
    <2>1. worker' = worker
      BY <1>4 DEF Outside, CoreReports, Command, Leave, Post
    <2>2. core'[a].status = "live" => core[a].status = "live"
      BY <1>4 DEF Outside, CoreReports, Command, Leave, TypeOK, CoreType
    <2> QED BY <2>1, <2>2 DEF Building
  <1> QED BY <1>1, <1>2, <1>3, <1>4, Steps

LEMMA QueueStep ==
  ASSUME TypeOK, Next
  PROVE  QueueMoves \/ \E a \in Attempts, event \in CoreEvents : CoreReports(a, event)
  <1>1. CASE OwnerStep
    BY <1>1 DEF OwnerStep, StartCommand, StopCommand, ServeStep, ConnectNow,
       ConnectAfterTeardown, DisconnectVpn, Quit, SetSplitRouting, SetKillSwitch,
       CoreStateChanged, DropStaleAttempt, AdoptSession, AdoptFailure,
       AdoptNotElevated, RetireRescued, Receive, QueueMoves
  <1>2. CASE TimerStep
    BY <1>2 DEF TimerStep, DelayedStart, ReconnectTimeout, NetworkWaitTimeout, FdLeakFound,
       QueueMoves
  <1>3. ASSUME NEW w \in Attempts, WorkerStep(w) \/ RetireDetached(w) PROVE QueueMoves
    <2>1. CASE HandOver(w)
      BY <2>1, MessagesPosted DEF HandOver, QueueMoves, TypeOK, WorkerType
    <2>2. CASE Exit(w)
      BY <2>2, MessagesPosted DEF Exit, QueueMoves
    <2>3. CASE ~HandOver(w) /\ ~Exit(w)
      BY <1>3, <2>3 DEF WorkerStep, RetirePrevious, BuildFails, Establish, Established,
         EstablishFails, RetireDetached, QueueMoves
    <2> QED BY <2>1, <2>2, <2>3
  <1>4. CASE (\E m \in Commands : Command(m)) \/ Leave
    <2>1. [kind |-> "quit"] \in Messages
      BY DEF Messages
    <2> QED BY <1>4, <2>1, CommandsAssumption DEF Command, Commands, Leave, Post, QueueMoves
  <1> QED BY <1>1, <1>2, <1>3, <1>4, Steps DEF Outside

LEMMA EventsStep ==
  SessionSound /\ AllEventsRight /\ [Next]_vars => AllEventsRight'
  <1> SUFFICES ASSUME SessionSound, AllEventsRight, [Next]_vars, NEW a \in Attempts
               PROVE  EventsRight(a)'
    BY DEF AllEventsRight
  <1>0. TypeOK /\ EventsRight(a) /\ Owned(a)
    BY DEF AllEventsRight, SessionSound, Ownership
  <1>1. CASE UNCHANGED vars
    BY <1>0, <1>1 DEF vars, EventsRight, NothingAfter, Told, EndTold, Closes, Tells, LastWord,
       Carries, Brings, Building
  <1>2. CASE Next /\ QueueMoves
    <2>1. NothingAfter(a)' /\ (Told(a)' => Told(a)) /\ (EndTold(a)' => EndTold(a))
      BY <1>0, <1>2, QueueMovesKeep DEF EventsRight
    <2>2. /\ core'[a].status = "live" => core[a].status = "live" \/ Building(a)
          /\ Building(a)' => Building(a) \/ a \in FreeSlots
      BY <1>0, <1>2, StatusStep
    <2>3. a \in FreeSlots => ~Told(a)
      BY DEF FreeSlots, Mentions, Told, Tells
    <2>4. EndTold(a) => Told(a)
      BY DEF EndTold, Told, LastWord
    <2> QED BY <1>0, <2>1, <2>2, <2>3, <2>4 DEF EventsRight
  <1>3. ASSUME NEW c \in Attempts, NEW event \in CoreEvents, CoreReports(c, event)
        PROVE  EventsRight(a)'
    <2> DEFINE m == [kind |-> "coreEvent", session |-> c, event |-> event]
    <2>1. /\ queue' = Append(queue, m) /\ worker' = worker /\ core[c].status = "live"
          /\ core' = IF event = "DISCONNECTED" THEN [core EXCEPT ![c].status = "ended"] ELSE core
      BY <1>3 DEF CoreReports, Post
    <2>2. /\ Tells(m, a) <=> a = c
          /\ LastWord(m, a) <=> a = c /\ event = "DISCONNECTED"
      BY DEF Tells, LastWord
    <2> HIDE DEF m
    <2>3. a = c => ~EndTold(a) /\ ~FailureQueued(a) /\ ~Building(a)
      BY <1>0, <2>1 DEF EventsRight, Owned, Backed, Exists, Building
    <2>4. /\ NothingAfter(a)'
          /\ Told(a)' <=> Told(a) \/ Tells(m, a)
          /\ EndTold(a)' <=> EndTold(a) \/ LastWord(m, a)
      BY <1>0, <2>1, <2>2, <2>3, EventAppend DEF EventsRight
    <2>5. /\ a # c => core'[a] = core[a]
          /\ event = "DISCONNECTED" => core'[c].status # "live"
          /\ Building(a)' <=> Building(a)
      BY <2>1 DEF TypeOK, CoreType, SessionSound, Building
    <2> QED BY <1>0, <2>2, <2>3, <2>4, <2>5 DEF EventsRight
  <1> QED BY <1>0, <1>1, <1>2, <1>3, QueueStep

(***************************************************************************)
(* The current attempt and the state of the session.                       *)
(***************************************************************************)
Recovers == SessionRight /\ StateRight

\* The queue as far as the session of a is concerned.
SaysNothing(a) == /\ Told(a)' => Told(a)
                  /\ EndTold(a) => EndTold(a)'
                  /\ FailureQueued(a)' <=> FailureQueued(a)
                  /\ Awaited(a)' => Awaited(a)

LEMMA Silence ==
  ASSUME TypeOK, NEW a, NothingAfter(a), QueuedOnce(a),
         \/ queue' = queue
         \/ /\ queue # <<>> /\ queue' = Tail(queue)
            /\ ~Tells(Head(queue), a) /\ ~Carries(Head(queue), a)
         \/ \E m \in Messages : ~Tells(m, a) /\ ~Carries(m, a) /\ queue' = Append(queue, m)
  PROVE  SaysNothing(a)
  <1>1. CASE queue' = queue
    BY <1>1 DEF SaysNothing, Told, EndTold, FailureQueued, Awaited, Tells, LastWord, Carries,
       Brings
  <1>2. CASE /\ queue # <<>> /\ queue' = Tail(queue)
             /\ ~Tells(Head(queue), a) /\ ~Carries(Head(queue), a)
    BY <1>2, EventTail, QueueTail DEF SaysNothing, LastWord
  <1>3. CASE \E m \in Messages : ~Tells(m, a) /\ ~Carries(m, a) /\ queue' = Append(queue, m)
    BY <1>3, EventAppend, QueueAppend DEF SaysNothing, LastWord, Carries
  <1> QED BY <1>1, <1>2, <1>3

LEMMA CurrentKept ==
  ASSUME NEW g \in Attempts, CurrentRight(g),
         g \notin rescued', g \notin detached', Succeeded(g)' => Succeeded(g),
         Awaited(g)' => Awaited(g), Told(g)' => Told(g), EndTold(g) => EndTold(g)',
         core'[g].status \in {"live", "ended"} => core'[g].status = core[g].status,
         Building(g)' => Building(g), Failed(g)' => Failed(g), Retrying' <=> Retrying,
         owner'.state \in Up => owner.state \in Up,
         owner.stopRequested => owner'.stopRequested
  PROVE  CurrentRight(g)'
  BY DEF CurrentRight

LEMMA QuietRecovers ==
  ASSUME Recovers, \A a \in Attempts : SaysNothing(a),
         owner'.attemptGen = owner.attemptGen, Retrying' <=> Retrying,
         owner'.stopRequested = owner.stopRequested,
         owner'.state \in {owner.state, "Error"}, worker' = worker,
         \A a \in Attempts : core'[a].status = core[a].status,
         rescued' = rescued, detached' = detached, alive' = alive
  PROVE  Recovers'
  <1>1. ASSUME NEW g \in Attempts, owner'.attemptGen = g PROVE CurrentRight(g)'
    <2>1. CurrentRight(g)
      BY <1>1 DEF Recovers, SessionRight
    <2>2. /\ Succeeded(g)' => Succeeded(g)
          /\ Building(g)' => Building(g)
          /\ Failed(g)' => Failed(g)
      BY DEF Succeeded, Building, Failed, Busy, Exists, SaysNothing
    <2>3. owner'.state \in Up => owner.state \in Up
      BY DEF Up
    <2>4. g \notin rescued' /\ g \notin detached'
      BY <2>1 DEF CurrentRight
    <2> QED BY <2>1, <2>2, <2>3, <2>4, CurrentKept DEF SaysNothing
  <1>2. StateRight'
    BY DEF Recovers, StateRight, Up
  <1> QED BY <1>1, <1>2 DEF Recovers, SessionRight

\* An attempt that begins is busy, and nothing of its slot's past is queued.
LEMMA BeginsRecovers ==
  ASSUME TypeOK, Ownership, NEW o, o.client = Joined(owner).client, JoinRescues,
         NEW n \in FreeSlots, Begins(o, n), "reconnect" \notin o.timers, ~o.stopRequested,
         detached' = detached, alive, alive' = alive, SaysNothing(n)
  PROVE  Recovers'
  <1>1. /\ n \in Attempts /\ worker[n].at = "idle" /\ owner.client # n /\ ~Exists(n)
        /\ ~Succeeded(n) /\ n \notin rescued /\ n \notin detached
    BY FreeSlotOwned
  <1>2. ~Awaited(n)
    BY DEF FreeSlots, Mentions, Awaited
  <1>3. n \notin rescued'
    <2>1. Running => worker[owner.thread].at # "idle"
      BY DEF Ownership, ThreadRight, Running
    <2> QED BY <1>1, <2>1 DEF JoinRescues
  <1>4. Busy(n)' /\ ~Succeeded(n)'
    <2>1. o.client # n
      BY <1>1, AttemptsAssumption DEF Joined, TypeOK, OwnerType
    <2>2. /\ worker'[n].at \in {"building", "retiring"} /\ worker'[n].retired = o.client
          /\ \A b \in Attempts : b # n => worker'[b] = worker[b]
      BY <1>1 DEF Begins, TypeOK
    <2> QED BY <1>1, <2>1, <2>2 DEF Busy, Succeeded
  <1>5. core'[n].status = "none"
    BY <1>1 DEF Begins, TypeOK
  <1>6. ~Retrying' /\ ~owner'.stopRequested /\ owner'.attemptGen = n
    BY DEF Begins, Retrying
  <1>7. CurrentRight(n)'
    BY <1>1, <1>2, <1>3, <1>4, <1>5, <1>6 DEF CurrentRight, Failed, SaysNothing
  <1>8. StateRight'
    BY <1>1, <1>6, AttemptsAssumption DEF StateRight
  <1> QED BY <1>6, <1>7, <1>8 DEF Recovers, SessionRight

LEMMA StartConnectRecovers ==
  ASSUME TypeOK, Ownership, Recovers, NEW o \in OwnerType, NEW c \in Configs,
         StartConnect(o, c), o.client = owner.client, o.attemptGen = owner.attemptGen,
         o.timers = owner.timers, o.stopRequested = owner.stopRequested,
         detached' = detached, alive, alive' = alive, \A a \in Attempts : SaysNothing(a)
  PROVE  Recovers'
  <1>1. CASE c \in BadConfigs
    <2>1. /\ owner' = [o EXCEPT !.state = "Error"]
          /\ worker' = worker /\ core' = core /\ rescued' = rescued
      BY <1>1 DEF StartConnect, Loaded
    <2>2. /\ owner'.attemptGen = owner.attemptGen /\ owner'.timers = owner.timers
          /\ owner'.stopRequested = owner.stopRequested /\ owner'.state = "Error"
      BY <2>1 DEF OwnerType
    <2> QED BY <2>1, <2>2, QuietRecovers DEF Retrying
  <1>2. CASE c \notin BadConfigs
    <2>1. Joined(o).client = Joined(owner).client
      BY DEF Joined, TypeOK, OwnerType
    <2>2. /\ JoinRescues
          /\ \E s \in OwnerType, n \in FreeSlots :
                /\ Begins(s, n) /\ s.client = Joined(o).client
                /\ ~s.stopRequested /\ "reconnect" \notin s.timers
      BY <1>2, StartConnectBegins
    <2> QED BY <2>1, <2>2, BeginsRecovers DEF FreeSlots
  <1> QED BY <1>1, <1>2

\* Where the session is given up, no attempt is current.
LEMMA GivenUpRecovers ==
  ASSUME owner'.attemptGen = NoAttempt, owner'.state \in {"Disconnected", "Error"}
  PROVE  Recovers'
  BY AttemptsAssumption DEF Recovers, SessionRight, StateRight, Up

LEMMA ForceReconnectRecovers ==
  ASSUME StateRight, NEW o \in OwnerType, o.thread = owner.thread, o.state = owner.state,
         o.stopRequested = owner.stopRequested,
         "reconnect" \in o.timers <=> Retrying, ForceReconnect(o)
  PROVE  Recovers'
  <1> DEFINE t == TornDown(o)
             r == ScheduledReconnect(t)
  <1>1. /\ t \in OwnerType /\ t.attemptGen = NoAttempt /\ t.state = owner.state
        /\ t.stopRequested = owner.stopRequested /\ t.timers = o.timers
    BY TornDownType, TornDownParts DEF TornDown, Joined, OwnerType
  <1>2. owner' = r
    BY DEF ForceReconnect, TeardownClient
  <1> HIDE DEF t
  <1>3. /\ owner'.attemptGen = NoAttempt /\ owner'.stopRequested = owner.stopRequested
        /\ \/ owner.stopRequested /\ owner'.state = owner.state
           \/ Retrying /\ owner'.state = owner.state /\ Retrying'
           \/ owner'.state = "Reconnecting" /\ Retrying' /\ ~owner.stopRequested
    BY <1>1, <1>2 DEF ScheduledReconnect, OwnerType, Timers, Retrying
  <1>4. StateRight'
    BY <1>3 DEF StateRight, Up
  <1> QED BY <1>3, <1>4, AttemptsAssumption DEF Recovers, SessionRight

\* What the queue's order gives an owner step on its head.
LEMMA HeadOf ==
  ASSUME SessionSound, AllEventsRight, NEW kind, Receive(kind), NEW a \in Attempts
  PROVE  /\ Told(a)' => Told(a)
         /\ EndTold(a) /\ ~LastWord(Head(queue), a) => EndTold(a)'
         /\ Awaited(a)' => Awaited(a)
         /\ Tells(Head(queue), a) => Told(a)
         /\ LastWord(Head(queue), a) => EndTold(a)
         /\ Closes(Head(queue), a) => ~Told(a)'
         /\ Head(queue).kind = "rescue" /\ Head(queue).attempt = a => Awaited(a)
         /\ FailureQueued(a)' <=> FailureQueued(a) /\ ~Carries(Head(queue), a)
         /\ Carries(Head(queue), a) => IF Brings(Head(queue)) THEN Queued(a)
                                                              ELSE FailureQueued(a)
  <1>1. TypeOK /\ NothingAfter(a) /\ QueuedOnce(a) /\ queue # <<>> /\ queue' = Tail(queue)
    BY DEF SessionSound, Ownership, Owned, AllEventsRight, EventsRight, Receive
  <1> QED BY <1>1, EventTail, QueueTail

\* An event of the current session.  Its last word starts the retry.
LEMMA CoreEventRecovers ==
  ASSUME SessionSound, AllEventsRight, Recovers, CoreStateChanged
  PROVE  Recovers'
  <1> DEFINE m == Head(queue)
  <1>0. TypeOK /\ owner \in OwnerType /\ Receive("coreEvent")
    BY DEF SessionSound, TypeOK, CoreStateChanged
  <1>1. /\ m.kind = "coreEvent" /\ m.session \in Attempts /\ m.event \in CoreEvents
    BY <1>0, ReceiveType, MessageFields
  <1>2. /\ worker' = worker /\ core' = core /\ rescued' = rescued /\ detached' = detached
        /\ alive /\ alive' = alive
    BY DEF CoreStateChanged, Receive
  <1>3. \A a \in Attempts : ~Carries(m, a) /\ (Tells(m, a) <=> m.session = a)
    BY <1>1 DEF Carries, Tells
  <1>4. \A a \in Attempts : /\ Told(a)' => Told(a)
                            /\ EndTold(a) /\ ~LastWord(m, a) => EndTold(a)'
                            /\ Awaited(a)' => Awaited(a)
                            /\ Tells(m, a) => Told(a)
                            /\ LastWord(m, a) => EndTold(a) /\ ~Told(a)'
                            /\ FailureQueued(a)' <=> FailureQueued(a)
    BY <1>0, <1>3, HeadOf DEF Closes
  <1>5. \A a \in Attempts : /\ Succeeded(a)' <=> Succeeded(a)
                            /\ Building(a)' <=> Building(a)
                            /\ Failed(a)' <=> Failed(a)
    BY <1>2, <1>4 DEF Succeeded, Building, Failed, Busy, Exists
  <1>6. CASE ~(m.session = owner.sessionGen /\ ~owner.stopRequested)
    <2>1. owner' = owner
      BY <1>6 DEF CoreStateChanged
    <2>2. ASSUME NEW g \in Attempts, owner'.attemptGen = g PROVE CurrentRight(g)'
      <3>1. CurrentRight(g) /\ (owner.stopRequested \/ ~Tells(m, g))
        BY <1>3, <1>6, <2>1, <2>2
           DEF Recovers, SessionRight, SessionSound, Ownership, ClientRight
      <3>2. Retrying' <=> Retrying
        BY <2>1 DEF Retrying
      <3> QED BY <1>2, <1>4, <1>5, <2>1, <3>1, <3>2 DEF CurrentRight, LastWord
    <2>3. StateRight'
      BY <1>2, <2>1 DEF Recovers, StateRight, Retrying
    <2> QED BY <2>2, <2>3 DEF Recovers, SessionRight
  <1>7. ASSUME NEW g \in Attempts, m.session = g, g = owner.sessionGen, ~owner.stopRequested
        PROVE  Recovers'
    <2>1. owner' = AfterCoreEvent(owner, m.event) /\ owner.attemptGen = g
      BY <1>1, <1>7 DEF CoreStateChanged, SessionSound, Ownership, ClientRight
    <2>2. owner'.attemptGen = g /\ ~owner'.stopRequested
      BY <1>0, <1>1, <1>7, <2>1, AfterCoreEventParts
    <2>3. CurrentRight(g) /\ EventsRight(g) /\ Told(g)
      BY <1>3, <1>4, <1>7, <2>1 DEF Recovers, SessionRight, AllEventsRight
    <2>4. ~Retrying /\ ~Failed(g) /\ ~Building(g)
      BY <2>3 DEF CurrentRight, EventsRight
    <2> HIDE DEF m
    <2>5. CASE m.event = "DISCONNECTED"
      <3>1. EndTold(g) /\ ~Told(g)'
        BY <1>3, <1>4, <1>7, <2>5 DEF LastWord
      <3>2. Retrying' /\ owner'.state = "Reconnecting"
        BY <1>0, <1>7, <2>1, <2>4, <2>5
           DEF AfterCoreEvent, ScheduledReconnect, OwnerType, Retrying, Timers
      <3>3. CurrentRight(g)'
        BY <1>2, <1>4, <1>5, <2>1, <2>3, <2>4, <3>1, <3>2 DEF CurrentRight, EventsRight
      <3>4. StateRight'
        BY <1>2, <2>2, <3>2 DEF StateRight
      <3> QED BY <2>2, <3>3, <3>4 DEF Recovers, SessionRight
    <2>6. CASE m.event # "DISCONNECTED"
      <3>1. EndTold(g) => EndTold(g)'
        BY <1>4, <2>1, <2>6 DEF LastWord
      <3>2. ~Retrying'
        BY <1>0, <1>1, <2>1, <2>4, <2>6 DEF AfterCoreEvent, CoreEvents, OwnerType, Retrying
      <3>3. CurrentRight(g)'
        BY <1>2, <1>4, <1>5, <1>7, <2>1, <2>2, <2>3, <2>4, <3>1, <3>2 DEF CurrentRight
      <3>4. StateRight'
        BY <1>2, <2>2, <3>2, AttemptsAssumption DEF StateRight
      <3> QED BY <2>2, <3>3, <3>4 DEF Recovers, SessionRight
    <2> QED BY <2>5, <2>6
  <1> QED BY <1>1, <1>6, <1>7

\* A result nobody wants, and the end of an abandoned thread, are not the current
\* attempt's: its core stays where it is.
LEMMA StaleRecovers ==
  ASSUME SessionSound, AllEventsRight, Recovers, DropStaleAttempt \/ RetireRescued
  PROVE  Recovers'
  <1> DEFINE m == Head(queue)
  <1>1. PICK kind \in {"adopt", "rescue"} : Receive(kind) /\ m.kind = kind
    BY ReceiveType DEF SessionSound, DropStaleAttempt, RetireRescued
  <1>2. m \in Messages /\ m.attempt \in Attempts
    BY <1>1, ReceiveType, MessageFields DEF SessionSound
  <1>3. /\ owner' = owner /\ worker' = worker /\ rescued' = rescued /\ alive' = alive
        /\ detached' \subseteq detached \cup {m.attempt}
    BY <1>2 DEF DropStaleAttempt, RetireRescued
  <1>4. core' = core \/ core' = Retire(m.attempt)
    BY DEF DropStaleAttempt, RetireRescued
  <1>5. ASSUME NEW g \in Attempts, owner'.attemptGen = g PROVE CurrentRight(g)'
    <2>1. CurrentRight(g)
      BY <1>3, <1>5 DEF Recovers, SessionRight
    <2>2. ~Tells(m, g)
      BY <1>1 DEF Tells
    <2>3. m.attempt # g
      <3>1. CASE DropStaleAttempt
        BY <1>3, <1>5, <3>1 DEF DropStaleAttempt
      <3>2. CASE RetireRescued
        <4>1. m.kind = "rescue" /\ Receive("rescue")
          BY <3>2, ReceiveType DEF RetireRescued, SessionSound
        <4> QED BY <2>1, <4>1, HeadOf DEF CurrentRight
      <3> QED BY <3>1, <3>2
    <2>4. SaysNothing(g)
      BY <1>1, <2>2, <2>3, HeadOf DEF SaysNothing, LastWord, Carries
    <2>5. core'[g].status = core[g].status
      BY <1>4, <2>3, RetireStatus DEF SessionSound
    <2> HIDE DEF m
    <2>6. /\ Succeeded(g)' => Succeeded(g)
          /\ Building(g)' => Building(g)
          /\ Failed(g)' => Failed(g)
          /\ Retrying' <=> Retrying
      BY <1>3, <2>4, <2>5 DEF Succeeded, Building, Failed, Busy, Exists, SaysNothing, Retrying
    <2>7. g \notin rescued' /\ g \notin detached'
      BY <1>3, <2>1, <2>3 DEF CurrentRight
    <2> QED BY <1>3, <2>1, <2>4, <2>5, <2>6, <2>7, CurrentKept DEF SaysNothing
  <1>6. StateRight'
    BY <1>3 DEF Recovers, StateRight, Retrying
  <1> QED BY <1>5, <1>6 DEF Recovers, SessionRight

LEMMA AdoptSessionRecovers ==
  ASSUME SessionSound, AllEventsRight, Recovers, AdoptSession
  PROVE  Recovers'
  <1> DEFINE m == Head(queue)
  <1>0. TypeOK /\ owner \in OwnerType /\ Receive("adopt")
    BY DEF SessionSound, TypeOK, AdoptSession
  <1> DEFINE a == m.attempt
  <1>1. /\ m.kind = "adopt" /\ a \in Attempts /\ m.outcome = "Connected"
        /\ owner.attemptGen = a
    BY <1>0, ReceiveType, MessageFields DEF AdoptSession
  <1>2. /\ worker' = worker /\ rescued' = rescued /\ detached' = detached /\ alive' = alive
    BY DEF AdoptSession
  <1>3. /\ owner'.attemptGen = owner.attemptGen /\ owner'.timers = owner.timers
        /\ owner'.state = owner.state /\ owner'.stopRequested = owner.stopRequested
    BY <1>0 DEF AdoptSession, RoutingApplied, OwnerType
  <1>4. PICK g \in Attempts : g = m.attempt
    BY <1>1
  <1>12. core'[g].status = core[g].status
    BY <1>0, <1>4 DEF AdoptSession, CoreRouted, TypeOK, CoreType
  <1>5. ~Tells(m, g) /\ Carries(m, g) /\ Brings(m)
    BY <1>1, <1>4 DEF Tells, Carries, Brings
  <1> HIDE DEF m
  <1>6. CurrentRight(g)
    BY <1>1, <1>4 DEF Recovers, SessionRight
  <1>7. /\ Told(g)' => Told(g)
        /\ EndTold(g) => EndTold(g)'
        /\ Awaited(g)' => Awaited(g)
        /\ Queued(g)
    BY <1>0, <1>5, HeadOf DEF LastWord, m
  <1>8. ~Failed(g)'
    BY <1>12, <1>7 DEF SessionSound, Ownership, Owned, Backed, Failed, Exists
  <1>9. /\ Succeeded(g)' => Succeeded(g)
        /\ Building(g)' => Building(g)
        /\ Retrying' <=> Retrying
    BY <1>2, <1>3 DEF Succeeded, Building, Retrying
  <1>10. CurrentRight(g)'
    <2>1. g \notin rescued' /\ g \notin detached'
      BY <1>2, <1>6 DEF CurrentRight
    <2> QED BY <1>3, <1>12, <1>6, <1>7, <1>8, <1>9, <2>1, CurrentKept
  <1>11. StateRight'
    BY <1>2, <1>3 DEF Recovers, StateRight, Retrying
  <1> QED BY <1>1, <1>3, <1>4, <1>10, <1>11 DEF Recovers, SessionRight

\* A failed attempt said all it had to say, and the session is retried or told.
LEMMA AdoptFailureRecovers ==
  ASSUME SessionSound, AllEventsRight, Recovers, AdoptFailure
  PROVE  Recovers'
  <1> DEFINE m == Head(queue)
  <1>0. TypeOK /\ owner \in OwnerType /\ Receive("adopt")
    BY DEF SessionSound, TypeOK, AdoptFailure
  <1>1. /\ m.kind = "adopt" /\ m.attempt \in Attempts /\ owner.attemptGen = m.attempt
        /\ m.outcome # "Connected"
    BY <1>0, ReceiveType, MessageFields DEF AdoptFailure
  <1>2. /\ worker' = worker /\ core' = core /\ rescued' = rescued /\ detached' = detached
        /\ alive /\ alive' = alive
    BY DEF AdoptFailure, Receive
  <1>3. PICK g \in Attempts : g = m.attempt
    BY <1>1
  <1>4. Carries(m, g) /\ ~Brings(m) /\ Closes(m, g) /\ ~LastWord(m, g)
    BY <1>1, <1>3 DEF Carries, Brings, Closes, LastWord, Tells
  <1>5. /\ owner'.attemptGen = g
        /\ \/ owner' = owner /\ (owner.stopRequested \/ Retrying)
           \/ Retrying' /\ ~owner'.stopRequested /\ owner'.state = "Reconnecting"
           \/ owner'.state = "Error" /\ owner'.timers = owner.timers
              /\ owner'.stopRequested \in {TRUE, owner.stopRequested}
    BY <1>0, <1>1, <1>3 DEF AdoptFailure, ScheduledReconnect, OwnerType, Retrying, Timers
  <1> HIDE DEF m
  <1>6. CurrentRight(g) /\ StateRight
    BY <1>1, <1>3 DEF Recovers, SessionRight
  <1>7. ~Told(g)' /\ (Awaited(g)' => Awaited(g)) /\ FailureQueued(g)
    BY <1>0, <1>4, HeadOf DEF m
  <1>8. ~Exists(g) /\ ~Busy(g)
    BY <1>7 DEF SessionSound, Ownership, Owned, Backed, Exclusive
  <1>9. ~Exists(g)' /\ ~Building(g)' /\ (Succeeded(g)' <=> Succeeded(g))
    BY <1>2, <1>8 DEF Exists, Busy, Building, Succeeded
  <1>10. CurrentRight(g)'
    <2>1. Retrying' \/ owner'.state \notin Up
      BY <1>5, <1>6 DEF StateRight, Up, Retrying
    <2> QED BY <1>2, <1>6, <1>7, <1>9, <2>1 DEF CurrentRight, Exists
  <1>11. StateRight'
    BY <1>2, <1>5, <1>6, AttemptsAssumption DEF StateRight, Up, Retrying
  <1> QED BY <1>5, <1>10, <1>11 DEF Recovers, SessionRight

LEMMA ReconnectTimeoutRecovers ==
  ASSUME SessionSound, AllEventsRight, Recovers, ReconnectTimeout
  PROVE  Recovers'
  <1> DEFINE o == [owner EXCEPT !.timers = @ \ {"reconnect"}]
             j == Joined(o)
  <1>0. TypeOK /\ owner \in OwnerType /\ Ownership
    BY DEF SessionSound, TypeOK
  <1>1. /\ alive /\ alive' = alive /\ queue' = queue /\ detached' = detached
        /\ JoinRescues /\ DoConnectAttempt(j)
    BY DEF ReconnectTimeout
  <1>2. \A a \in Attempts : SaysNothing(a)
    BY <1>0, <1>1, Silence DEF Ownership, Owned, AllEventsRight, EventsRight
  <1>3. /\ o \in OwnerType /\ "reconnect" \notin o.timers
        /\ o.client = owner.client /\ o.state = owner.state /\ o.lastToml = owner.lastToml
        /\ o.attemptGen = owner.attemptGen /\ o.stopRequested = owner.stopRequested
    BY <1>0 DEF OwnerType
  <1>4. owner.lastToml \notin BadConfigs /\ owner.lastToml # NoConfig
    BY DEF ReconnectTimeout, SessionSound, SessionConfigRight, ConfigRight
  <1> HIDE DEF o
  <1>5. /\ j \in OwnerType /\ "reconnect" \notin j.timers
        /\ j.client = Joined(owner).client /\ j.state = owner.state
        /\ j.lastToml = owner.lastToml /\ j.stopRequested = owner.stopRequested
        /\ j.attemptGen = IF Running THEN NoAttempt ELSE owner.attemptGen
    BY <1>0, <1>3, JoinedType DEF Joined, OwnerType
  <1> HIDE DEF j
  <1>6. CASE ~j.stopRequested
    <2>1. PICK n \in FreeSlots : Begins(j, n)
      BY <1>1, <1>4, <1>5, <1>6, DoConnectAttemptBegins
    <2> QED BY <1>0, <1>1, <1>2, <1>5, <1>6, <2>1, BeginsRecovers DEF FreeSlots
  <1>7. CASE j.stopRequested
    <2>1. owner' = j /\ worker' = worker /\ core' = core
      BY <1>1, <1>4, <1>5, <1>7, DoConnectAttemptBegins
    <2>2. owner.state \in {"Disconnected", "Error"}
      BY <1>5, <1>7 DEF Recovers, StateRight
    <2>3. CASE Running
      BY <1>5, <2>1, <2>2, <2>3, GivenUpRecovers
    <2>4. CASE ~Running
      <3>1. rescued' = rescued
        BY <1>1, <2>4 DEF JoinRescues
      <3>2. ASSUME NEW g \in Attempts, owner'.attemptGen = g PROVE CurrentRight(g)'
        <4>1. CurrentRight(g)
          BY <1>5, <2>1, <2>4, <3>2 DEF Recovers, SessionRight
        <4>2. /\ Succeeded(g)' <=> Succeeded(g)
              /\ Failed(g)' <=> Failed(g)
          BY <1>2, <2>1 DEF Succeeded, Failed, Busy, Exists, SaysNothing
        <4>3. ~Retrying' /\ owner'.state \notin Up /\ owner'.stopRequested
          BY <1>5, <1>7, <2>1, <2>2 DEF Retrying, Up
        <4> QED BY <1>1, <1>2, <2>1, <3>1, <4>1, <4>2, <4>3 DEF CurrentRight, SaysNothing
      <3>3. StateRight'
        BY <1>1, <1>5, <2>1, <2>2 DEF StateRight, Up, Retrying
      <3> QED BY <3>2, <3>3 DEF Recovers, SessionRight
    <2> QED BY <2>3, <2>4
  <1> QED BY <1>6, <1>7

(***************************************************************************)
(* The steps of the threads, as the current attempt g sees them.           *)
(***************************************************************************)
\* A step that adds nothing to what is left to come from g, and takes nothing.
Spares(g) ==
    /\ SaysNothing(g) /\ g \notin rescued' /\ g \notin detached'
    /\ Succeeded(g)' => Succeeded(g)
    /\ core'[g].status \in {"live", "ended"} => core'[g].status = core[g].status
    /\ Building(g)' => Building(g)
    /\ Failed(g)' => Failed(g)

LEMMA RetirePreviousSpares ==
  ASSUME SessionSound, AllEventsRight, NEW w \in Attempts, RetirePrevious(w),
         NEW g \in Attempts, CurrentRight(g)
  PROVE  Spares(g)
  <1>1. TypeOK /\ NothingAfter(g) /\ QueuedOnce(g)
    BY DEF SessionSound, Ownership, Owned, AllEventsRight, EventsRight
  <1>2. /\ worker[w].at = "retiring" /\ worker'[w].at = "building"
        /\ worker'[w].retired = NoAttempt
        /\ \A b \in Attempts : b # w => worker'[b] = worker[b]
        /\ rescued' = rescued /\ detached' = detached /\ queue' = queue
    BY <1>1 DEF RetirePrevious, At, TypeOK, WorkerType
  <1>3. SaysNothing(g)
    BY <1>1, <1>2, Silence
  <1>4. core'[g].status = core[g].status
    <2>1. worker[w].retired # g
      BY DEF CurrentRight, Succeeded
    <2> QED BY <1>1, <2>1, RetireStatus DEF RetirePrevious
  <1>5. Succeeded(g)' => Succeeded(g)
    BY <1>2, AttemptsAssumption DEF Succeeded
  <1>6. (Building(g)' => Building(g)) /\ (Failed(g)' => Failed(g))
    BY <1>2, <1>3, <1>4 DEF Building, Failed, Busy, Exists, SaysNothing
  <1> QED BY <1>2, <1>3, <1>4, <1>5, <1>6 DEF Spares, CurrentRight

\* A worker that goes on from one native call to the next stays busy.
LEMMA BuildingSpares ==
  ASSUME SessionSound, AllEventsRight, NEW w \in Attempts,
         \/ BuildFails(w) \/ Establish(w) \/ Established(w) \/ EstablishFails(w),
         NEW g \in Attempts, CurrentRight(g), Establish(w) => w # g
  PROVE  Spares(g)
  <1>1. TypeOK /\ NothingAfter(g) /\ QueuedOnce(g)
    BY DEF SessionSound, Ownership, Owned, AllEventsRight, EventsRight
  <1>2. /\ rescued' = rescued /\ detached' = detached /\ queue' = queue
    BY DEF BuildFails, Establish, Established, EstablishFails
  <1>3. /\ Busy(w) /\ Busy(w)' /\ ~Building(w)'
        /\ \A b \in Attempts : b # w => worker'[b] = worker[b]
        /\ \A b \in Attempts : worker'[b].retired = worker[b].retired
    <2>1. CASE Establish(w)
      BY <1>1, <2>1 DEF Establish, At, Goto, TypeOK, WorkerType, Busy, Building
    <2>2. CASE ~Establish(w)
      <3>1. PICK outcome : Ends(w, outcome)
        BY <2>2 DEF BuildFails, Established, EstablishFails
      <3>2. Busy(w)
        BY <2>2 DEF BuildFails, Established, EstablishFails, At, Busy
      <3> QED BY <1>1, <3>1, <3>2 DEF Ends, TypeOK, WorkerType, Busy, Building
    <2> QED BY <2>1, <2>2
  <1>4. SaysNothing(g)
    BY <1>1, <1>2, Silence
  <1>5. core'[g].status = core[g].status \/ (g = w /\ core'[g].status = "none")
    BY <1>1, RetireStatus DEF BuildFails, Establish, Established, EstablishFails, TypeOK,
       CoreType
  <1>6. Succeeded(g)' => Succeeded(g)
    BY <1>3 DEF Succeeded
  <1>7. (Building(g)' => Building(g)) /\ (Failed(g)' => Failed(g))
    BY <1>3, <1>4, <1>5 DEF Building, Failed, Busy, Exists, SaysNothing
  <1> QED BY <1>2, <1>4, <1>5, <1>6, <1>7 DEF Spares, CurrentRight

\* The result of the current attempt is always posted, and not without a message:
\* a core, or the news that there is none.
LEMMA HandOverRecovers ==
  ASSUME SessionSound, AllEventsRight, Recovers, NEW w \in Attempts, HandOver(w),
         NEW g \in Attempts, owner.attemptGen = g
  PROVE  CurrentRight(g)'
  <1> DEFINE m == [kind |-> "adopt", attempt |-> w, outcome |-> worker[w].outcome]
  <1>1. TypeOK /\ NothingAfter(g) /\ Owned(g) /\ Owned(w) /\ CurrentRight(g) /\ alive
    BY AttemptsAssumption DEF SessionSound, TypeOK, Ownership, AllEventsRight, EventsRight,
       Recovers, SessionRight, StateRight
  <1>2. /\ owner' = owner /\ rescued' = rescued /\ detached' = detached
        /\ worker[w].at = "handover" /\ worker'[w].at = "exiting"
        /\ \A b \in Attempts : b # w => worker'[b] = worker[b]
        /\ \A b \in Attempts : worker'[b].retired = worker[b].retired
    BY <1>1 DEF HandOver, At, TypeOK, WorkerType
  <1>3. (Succeeded(g)' => Succeeded(g)) /\ (Building(g)' => Building(g))
        /\ (Retrying' <=> Retrying) /\ g \notin rescued' /\ g \notin detached'
    BY <1>1, <1>2 DEF Succeeded, Building, Retrying, CurrentRight
  <1>4. CASE w # g
    <2>1. ~Wanted(w)
      BY <1>4 DEF Wanted
    <2>2. queue' = queue /\ core' = Retire(w)
      BY <2>1 DEF HandOver
    <2>3. SaysNothing(g) /\ core'[g].status = core[g].status
      BY <1>1, <1>4, <2>2, Silence, RetireStatus DEF Owned
    <2>4. Failed(g)' => Failed(g)
      BY <1>2, <1>4, <2>3 DEF Failed, Busy, Exists, SaysNothing
    <2> QED BY <1>1, <1>2, <1>3, <2>3, <2>4, CurrentKept DEF SaysNothing
  <1>5. CASE w = g
    <2>1. Wanted(w)
      BY <1>1, <1>5 DEF Wanted
    <2>2. queue' = Append(queue, m) /\ core' = core
      BY <2>1 DEF HandOver
    <2>3. m \in Messages /\ Carries(m, g) /\ ~Tells(m, g) /\ m.kind # "rescue"
          /\ (Brings(m) <=> worker[w].outcome = "Connected")
      BY <1>1, <1>5, MessagesPosted DEF TypeOK, WorkerType, Carries, Tells, Brings
    <2> HIDE DEF m
    <2>4. ~Queued(g) /\ ~FailureQueued(g)
      BY <1>1, <1>2, <1>5 DEF Owned, Exclusive, Busy
    <2>5. /\ FailureQueued(g)' <=> FailureQueued(g) \/ ~Brings(m)
          /\ Told(g)' => Told(g)
          /\ EndTold(g) => EndTold(g)'
          /\ Awaited(g)' => Awaited(g)
      BY <1>1, <2>2, <2>3, <2>4, EventAppend, QueueAppend DEF Owned
    <2>6. ~Failed(g)'
      BY <1>1, <1>2, <1>5, <2>2, <2>3, <2>5 DEF Failed, Exists, Owned, Backed
    <2> QED BY <1>1, <1>2, <1>3, <2>2, <2>5, <2>6, CurrentKept
  <1> QED BY <1>4, <1>5

LEMMA ExitSpares ==
  ASSUME SessionSound, AllEventsRight, NEW w \in Attempts, Exit(w) \/ RetireDetached(w),
         NEW g \in Attempts, CurrentRight(g)
  PROVE  Spares(g)
  <1>1. TypeOK /\ NothingAfter(g) /\ QueuedOnce(g)
    BY DEF SessionSound, Ownership, Owned, AllEventsRight, EventsRight
  <1>2. /\ \A b \in Attempts : worker'[b].retired = worker[b].retired
        /\ (Busy(g)' <=> Busy(g)) /\ (Building(g)' => Building(g))
    BY <1>1 DEF Exit, RetireDetached, At, Goto, TypeOK, WorkerType, Busy, Building
  <1>3. g \notin rescued' /\ g \notin detached'
    BY DEF Exit, RetireDetached, CurrentRight
  <1>4. core'[g].status = core[g].status
    BY <1>1, RetireStatus DEF Exit, RetireDetached, CurrentRight
  <1>5. SaysNothing(g)
    <2>1. CASE queue' = queue
      BY <1>1, <2>1, Silence
    <2>2. CASE queue' # queue
      <3> DEFINE m == [kind |-> "rescue", attempt |-> w]
      <3>1. queue' = Append(queue, m) /\ w \in rescued
        BY <2>2 DEF Exit, RetireDetached
      <3>2. m \in Messages /\ ~Tells(m, g) /\ ~Carries(m, g)
        BY <3>1, MessagesPosted DEF Tells, Carries, CurrentRight
      <3> QED BY <1>1, <3>1, <3>2, Silence
    <2> QED BY <2>1, <2>2
  <1>6. Succeeded(g)' => Succeeded(g)
    BY <1>2 DEF Succeeded
  <1>7. Failed(g)' => Failed(g)
    BY <1>2, <1>4, <1>5 DEF Failed, Exists, SaysNothing
  <1> QED BY <1>2, <1>3, <1>4, <1>5, <1>6, <1>7 DEF Spares

LEMMA ThreadsRecover ==
  ASSUME SessionSound, AllEventsRight, Recovers, NEW w \in Attempts,
         WorkerStep(w) \/ RetireDetached(w)
  PROVE  Recovers'
  <1>1. /\ owner'.attemptGen = owner.attemptGen /\ owner'.timers = owner.timers
        /\ owner'.state = owner.state /\ owner'.stopRequested = owner.stopRequested
    BY OthersLeaveOwner DEF SessionSound, TypeOK, OwnerType
  <1>2. alive' = alive
    BY DEF WorkerStep, RetirePrevious, BuildFails, Establish, Established, EstablishFails,
       HandOver, Exit, RetireDetached
  <1>3. Retrying' <=> Retrying
    BY <1>1 DEF Retrying
  <1>4. StateRight'
    BY <1>1, <1>2, <1>3 DEF Recovers, StateRight
  <1>5. ASSUME NEW g \in Attempts, owner'.attemptGen = g PROVE CurrentRight(g)'
    <2>1. CurrentRight(g) /\ owner.attemptGen = g
      BY <1>1, <1>5 DEF Recovers, SessionRight
    <2>2. CASE Spares(g)
      BY <1>1, <1>3, <2>1, <2>2, CurrentKept DEF Spares, SaysNothing
    <2>3. CASE HandOver(w)
      BY <2>1, <2>3, HandOverRecovers
    <2>4. CASE Establish(w) /\ w = g
      <3>1. /\ queue' = queue /\ rescued' = rescued /\ detached' = detached
            /\ core'[g].status = "live" /\ worker'[g].at = "connecting" /\ Building(g)
            /\ \A b \in Attempts : worker'[b].retired = worker[b].retired
        BY <2>4 DEF Establish, At, Goto, Building, SessionSound, TypeOK, CoreType, WorkerType
      <3>2. ~Failed(g)' /\ (Succeeded(g)' => Succeeded(g)) /\ (Awaited(g)' => Awaited(g))
        BY <3>1 DEF Failed, Exists, Succeeded, Awaited
      <3> QED BY <1>3, <2>1, <3>1, <3>2 DEF CurrentRight
    <2>5. CASE ~HandOver(w) /\ ~(Establish(w) /\ w = g)
      BY <2>1, <2>2, <2>5, RetirePreviousSpares, BuildingSpares, ExitSpares DEF WorkerStep
    <2> QED BY <2>3, <2>4, <2>5
  <1> QED BY <1>4, <1>5 DEF Recovers, SessionRight

LEMMA OutsideRecovers ==
  ASSUME SessionSound, AllEventsRight, Recovers, Outside
  PROVE  Recovers'
  <1>1. /\ owner' = owner /\ worker' = worker /\ rescued' = rescued
        /\ detached' = detached /\ alive' = alive
    BY DEF Outside, CoreReports, Command, Leave, Post
  <1>2. TypeOK /\ \A a \in Attempts : NothingAfter(a) /\ Owned(a)
    BY DEF SessionSound, Ownership, AllEventsRight, EventsRight
  <1>3. CASE (\E m \in Commands : Command(m)) \/ Leave
    <2>1. [kind |-> "quit"] \in Messages
      BY DEF Messages
    <2>2. /\ core' = core
          /\ \E m \in Messages : /\ m.kind \notin {"coreEvent", "adopt", "rescue"}
                                 /\ queue' = Append(queue, m)
      BY <1>3, <2>1, CommandsAssumption DEF Command, Commands, Leave, Post
    <2>3. \A a \in Attempts : SaysNothing(a)
      BY <1>2, <2>2, Silence DEF Owned, Tells, Carries
    <2> QED BY <1>1, <2>2, <2>3, QuietRecovers DEF Retrying
  <1>4. ASSUME NEW c \in Attempts, NEW event \in CoreEvents, CoreReports(c, event)
        PROVE  Recovers'
    <2> DEFINE m == [kind |-> "coreEvent", session |-> c, event |-> event]
    <2>1. /\ queue' = Append(queue, m) /\ core[c].status = "live"
          /\ core' = IF event = "DISCONNECTED" THEN [core EXCEPT ![c].status = "ended"] ELSE core
      BY <1>4 DEF CoreReports, Post
    <2>2. ASSUME NEW g \in Attempts, owner'.attemptGen = g PROVE CurrentRight(g)'
      <3>1. CurrentRight(g) /\ EventsRight(g)
        BY <1>1, <2>2 DEF Recovers, SessionRight, AllEventsRight
      <3>2. /\ m \in Messages /\ ~Carries(m, g) /\ (Tells(m, g) <=> g = c)
            /\ LastWord(m, g) <=> g = c /\ event = "DISCONNECTED"
        BY MessagesPosted DEF Carries, Tells, LastWord
      <3>3. g = c => /\ ~Retrying /\ ~EndTold(g) /\ ~FailureQueued(g)
                     /\ core'[g].status \in {"live", "ended"}
                     /\ core'[g].status = "ended" => event = "DISCONNECTED"
        BY <1>2, <2>1, <3>1
           DEF CurrentRight, EventsRight, Owned, Backed, Exists, TypeOK, CoreType
      <3>4. g # c => core'[g] = core[g]
        BY <1>2, <2>1 DEF TypeOK
      <3> HIDE DEF m
      <3>5. /\ Told(g)' <=> Told(g) \/ g = c
            /\ EndTold(g)' <=> EndTold(g) \/ (g = c /\ event = "DISCONNECTED")
            /\ Awaited(g)' => Awaited(g)
            /\ FailureQueued(g)' <=> FailureQueued(g)
        <4>1. m.kind # "rescue"
          BY DEF m
        <4> QED BY <1>2, <2>1, <3>2, <3>3, <4>1, EventAppend, QueueAppend DEF Owned
      <3>6. /\ Succeeded(g)' <=> Succeeded(g)
            /\ Building(g)' <=> Building(g)
            /\ Retrying' <=> Retrying
        BY <1>1 DEF Succeeded, Building, Retrying
      <3>7. Failed(g)' => Failed(g) /\ g # c
        BY <1>1, <3>3, <3>4, <3>5 DEF Failed, Busy, Exists
      <3> QED BY <1>1, <3>1, <3>3, <3>4, <3>5, <3>6, <3>7 DEF CurrentRight
    <2>3. StateRight'
      BY <1>1 DEF Recovers, StateRight, Retrying
    <2> QED BY <2>2, <2>3 DEF Recovers, SessionRight
  <1> QED BY <1>3, <1>4 DEF Outside

(***************************************************************************)
(* Every step keeps it.                                                    *)
(***************************************************************************)
Recoverable == SessionSound /\ AllEventsRight /\ Recovers

LEMMA TimerRecovers ==
  ASSUME Recoverable, TimerStep
  PROVE  Recovers'
  <1>0. /\ SessionSound /\ AllEventsRight /\ Recovers /\ TypeOK /\ Ownership
        /\ owner \in OwnerType
    BY DEF Recoverable, SessionSound, TypeOK
  <1>1. queue' = queue /\ detached' = detached /\ alive /\ alive' = alive
    BY DEF TimerStep, DelayedStart, ReconnectTimeout, NetworkWaitTimeout, FdLeakFound
  <1>2. \A a \in Attempts : SaysNothing(a)
    BY <1>0, <1>1, Silence DEF Ownership, Owned, AllEventsRight, EventsRight
  <1>3. CASE DelayedStart
    <2> DEFINE o == [owner EXCEPT !.delayed = NoConfig]
    <2>1. /\ o \in OwnerType /\ owner.delayed \in Configs
          /\ o.client = owner.client /\ o.attemptGen = owner.attemptGen
          /\ o.timers = owner.timers /\ o.stopRequested = owner.stopRequested
      BY <1>0, <1>3 DEF DelayedStart, OwnerType
    <2>2. StartConnect(o, owner.delayed)
      BY <1>3 DEF DelayedStart
    <2> HIDE DEF o
    <2> QED BY <1>0, <1>1, <1>2, <2>1, <2>2, StartConnectRecovers
  <1>4. CASE ReconnectTimeout
    BY <1>0, <1>4, ReconnectTimeoutRecovers
  <1>5. CASE NetworkWaitTimeout
    <2> DEFINE o == [owner EXCEPT !.timers = @ \ {"networkWait"}]
    <2>1. /\ o \in OwnerType /\ o.thread = owner.thread /\ o.state = owner.state
          /\ o.attemptGen = owner.attemptGen /\ o.stopRequested = owner.stopRequested
          /\ "reconnect" \in o.timers <=> Retrying
      BY <1>0 DEF OwnerType, Retrying
    <2>2. /\ worker' = worker
          /\ \/ owner' \in {o, owner} /\ core' = core /\ rescued' = rescued
             \/ ForceReconnect(o)
      BY <1>5 DEF NetworkWaitTimeout
    <2> HIDE DEF o
    <2>3. CASE owner' \in {o, owner} /\ core' = core /\ rescued' = rescued
      BY <1>0, <1>1, <1>2, <2>1, <2>2, <2>3, QuietRecovers DEF Retrying
    <2>4. CASE ForceReconnect(o)
      BY <1>0, <2>1, <2>4, ForceReconnectRecovers DEF Recovers
    <2> QED BY <2>2, <2>3, <2>4
  <1>6. CASE FdLeakFound
    <2>1. CASE owner' = owner /\ core' = core /\ rescued' = rescued
      <3>1. worker' = worker
        BY <1>6 DEF FdLeakFound
      <3> QED BY <1>0, <1>1, <1>2, <2>1, <3>1, QuietRecovers DEF Retrying
    <2>2. CASE ForceReconnect(owner)
      BY <1>0, <2>2, ForceReconnectRecovers DEF Recovers, Retrying
    <2> QED BY <1>6, <2>1, <2>2 DEF FdLeakFound
  <1> QED BY <1>3, <1>4, <1>5, <1>6 DEF TimerStep

LEMMA OwnerRecovers ==
  ASSUME Recoverable, OwnerStep
  PROVE  Recovers'
  <1>0. /\ SessionSound /\ AllEventsRight /\ Recovers /\ TypeOK /\ Ownership
        /\ owner \in OwnerType
    BY DEF Recoverable, SessionSound, TypeOK
  <1>1. ASSUME NEW kind \in {"connect", "disconnect", "setSplitRouting", "setKillSwitch"},
               Receive(kind)
        PROVE  \A a \in Attempts : SaysNothing(a)
    BY <1>0, <1>1, Silence
       DEF Receive, Tells, Carries, Ownership, Owned, AllEventsRight, EventsRight
  <1>2. CASE ConnectNow
    <2>1. Head(queue).config \in Configs /\ Receive("connect") /\ alive
      BY <1>0, <1>2, ReceiveType, MessageFields DEF ConnectNow, Receive
    <2> QED BY <1>0, <1>1, <1>2, <2>1, StartConnectRecovers DEF ConnectNow
  <1>3. CASE ConnectAfterTeardown \/ StopCommand
    <2> DEFINE d == DisconnectedVpn(owner)
    <2>1. d \in OwnerType /\ d.attemptGen = NoAttempt /\ d.state = "Disconnected"
      BY <1>0, DisconnectedVpnType, TornDownParts, DisconnectedVpnIsOff
    <2>2. owner' = d \/ \E c : owner' = [d EXCEPT !.delayed = c]
      BY <1>3 DEF ConnectAfterTeardown, StopCommand, DisconnectVpn, Quit, TeardownClient
    <2> HIDE DEF d
    <2>3. owner'.attemptGen = NoAttempt /\ owner'.state = "Disconnected"
      BY <2>1, <2>2 DEF OwnerType
    <2> QED BY <2>3, GivenUpRecovers
  <1>4. CASE SetSplitRouting
    <2> DEFINE o == [owner EXCEPT !.routing = Head(queue).routing]
    <2>1. owner' = RoutingApplied(o) /\ core' = CoreRouted(o) /\ Receive("setSplitRouting")
      BY <1>4 DEF SetSplitRouting
    <2>2. /\ owner'.attemptGen = owner.attemptGen /\ owner'.timers = owner.timers
          /\ owner'.stopRequested = owner.stopRequested /\ owner'.state = owner.state
      BY <1>0, <2>1 DEF RoutingApplied, OwnerType
    <2>3. \A a \in Attempts : core'[a].status = core[a].status
      BY <1>0, <2>1 DEF CoreRouted, TypeOK, CoreType
    <2> QED BY <1>0, <1>1, <1>4, <2>1, <2>2, <2>3, QuietRecovers DEF SetSplitRouting, Retrying
  <1>5. CASE SetKillSwitch
    <2>1. /\ owner'.attemptGen = owner.attemptGen /\ owner'.timers = owner.timers
          /\ owner'.stopRequested = owner.stopRequested /\ owner'.state = owner.state
      BY <1>0, <1>5 DEF SetKillSwitch, OwnerType
    <2> QED BY <1>0, <1>1, <1>5, <2>1, QuietRecovers DEF SetKillSwitch, Retrying
  <1>6. CASE AdoptNotElevated
    <2> DEFINE t == TornDown(owner)
    <2>1. t \in OwnerType /\ t.attemptGen = NoAttempt
      BY <1>0, TornDownType, TornDownParts
    <2>2. owner' = [t EXCEPT !.stopRequested = TRUE, !.state = "Error"]
      BY <1>6 DEF AdoptNotElevated, TeardownClient
    <2> HIDE DEF t
    <2>3. owner'.attemptGen = NoAttempt /\ owner'.state = "Error"
      BY <2>1, <2>2 DEF OwnerType
    <2> QED BY <2>3, GivenUpRecovers
  <1> QED BY <1>0, <1>2, <1>3, <1>4, <1>5, <1>6, CoreEventRecovers, StaleRecovers,
             AdoptSessionRecovers, AdoptFailureRecovers
          DEF OwnerStep, StartCommand, ServeStep

LEMMA RecoverableStep == Recoverable /\ [Next]_vars => Recoverable'
  <1> SUFFICES ASSUME Recoverable, [Next]_vars PROVE Recoverable'
    OBVIOUS
  <1>1. SessionSound' /\ AllEventsRight'
    BY SoundStep, EventsStep DEF Recoverable
  <1>2. CASE Next
    <2>1. Recovers'
      BY <1>2, Steps, OwnerRecovers, TimerRecovers, OutsideRecovers, ThreadsRecover
         DEF Recoverable
    <2> QED BY <1>1, <2>1 DEF Recoverable
  <1>3. CASE UNCHANGED vars
    <2>1. \A a \in Attempts : SaysNothing(a)
      BY <1>3, Silence DEF vars, Recoverable, SessionSound, Ownership, Owned, AllEventsRight,
         EventsRight
    <2>2. Recovers'
      BY <1>3, <2>1, QuietRecovers DEF vars, Recoverable, Retrying
    <2> QED BY <1>1, <2>2 DEF Recoverable
  <1> QED BY <1>2, <1>3

LEMMA RecoverableInit == Init => Recoverable
  <1> SUFFICES ASSUME Init PROVE Recoverable
    OBVIOUS
  <1>1. /\ owner.attemptGen = NoAttempt /\ owner.state = "Disconnected" /\ owner.timers = {}
        /\ queue = <<>> /\ \A a \in Attempts : worker[a].at = "idle"
    BY DEF Init
  <1>2. DOMAIN queue = {}
    BY <1>1
  <1>3. AllEventsRight
    BY <1>1, <1>2 DEF AllEventsRight, EventsRight, NothingAfter, Told, EndTold, Building
  <1>4. Recovers
    BY <1>1, AttemptsAssumption DEF Recovers, SessionRight, StateRight, Up, Retrying
  <1> QED BY <1>3, <1>4, SoundInit DEF Recoverable

(***************************************************************************)
(* What follows from it.                                                   *)
(***************************************************************************)
LEMMA RecoverableDrives == Recoverable => NeverStuck
  <1> SUFFICES ASSUME Recoverable, alive, owner.state \in Up, ~Retrying
               PROVE  SomethingDrives
    BY DEF NeverStuck, Up, SomethingDrives, Retrying
  <1>1. owner.attemptGen \in Attempts /\ ~owner.stopRequested
    BY DEF Recoverable, Recovers, StateRight, SessionSound, TypeOK, OwnerType, MaybeAttempt, Up
  <1>2. PICK g \in Attempts : g = owner.attemptGen
    BY <1>1
  <1>3. /\ CurrentRight(g) /\ Owned(g) /\ g # NoAttempt /\ owner.sessionGen = g
    BY <1>2, AttemptsAssumption
       DEF Recoverable, Recovers, SessionRight, SessionSound, Ownership, ClientRight
  <1>4. CASE InFlight(g)
    BY <1>2, <1>3, <1>4 DEF SomethingDrives
  <1>5. CASE ~InFlight(g)
    <2>1. ~Busy(g) /\ ~FailureQueued(g) /\ ~Queued(g)
      BY <1>3, <1>5
         DEF InFlight, Busy, FailureQueued, Queued, Carries, Brings, CurrentRight, Awaited
    <2>2. Exists(g)
      BY <1>3, <2>1 DEF CurrentRight, Failed
    <2>3. owner.client = g
      BY <1>3, <2>1, <2>2 DEF Owned, HeldBySomebody, CurrentRight
    <2>4. core[g].status \in {"live", "ended"}
      BY <2>2 DEF Exists, Recoverable, SessionSound, TypeOK, CoreType, CoreStatus
    <2>5. core[g].status = "ended" => EndTold(g)
      BY <1>1, <1>3 DEF CurrentRight
    <2> QED BY <1>3, <2>3, <2>4, <2>5 DEF SomethingDrives, EndTold, LastWord, Tells
  <1> QED BY <1>4, <1>5

\* A session that says it is up or coming up never hangs: a live core, an attempt on
\* its way, a last word still queued or the reconnect timer stands behind it.
THEOREM SessionNeverHangs == Spec => []NeverStuck
  BY RecoverableInit, RecoverableStep, RecoverableDrives, PTL DEF Spec

(***************************************************************************)
(* Who may take the core in use away.                                      *)
(***************************************************************************)
Replaced == owner.client # NoAttempt /\ owner'.client # owner.client

LEMMA PoppedDiffers ==
  ASSUME TypeOK, NEW kind, Receive(kind)
  PROVE  queue' # queue
  <1>1. queue \in Seq(Messages) /\ queue # <<>> /\ queue' = Tail(queue)
    BY DEF TypeOK, Receive
  <1>2. Len(queue) \in Nat /\ Len(queue) > 0 /\ Len(queue') = Len(queue) - 1
    BY <1>1
  <1> QED BY <1>2

\* The handlers that only serve what was begun leave the core in use alone.
LEMMA ServeKeepsClient ==
  ASSUME SessionSound, ServeStep
  PROVE  ~Replaced
  <1>0. TypeOK /\ Ownership /\ owner \in OwnerType
    BY DEF SessionSound, TypeOK
  <1>1. CASE SetSplitRouting
    <2> DEFINE o == [owner EXCEPT !.routing = Head(queue).routing]
    <2>1. owner' = RoutingApplied(o)
      BY <1>1 DEF SetSplitRouting
    <2> QED BY <1>0, <2>1 DEF RoutingApplied, OwnerType, Replaced
  <1>2. CASE SetKillSwitch
    BY <1>0, <1>2 DEF SetKillSwitch, OwnerType, Replaced
  <1>3. CASE CoreStateChanged
    <2>1. Head(queue).event \in CoreEvents
      BY <1>0, <1>3, ReceiveType, MessageFields DEF CoreStateChanged
    <2> QED BY <1>0, <1>3, <2>1, AfterCoreEventParts DEF CoreStateChanged, Replaced
  <1>4. CASE DropStaleAttempt \/ RetireRescued
    BY <1>4 DEF DropStaleAttempt, RetireRescued, Replaced
  <1>5. CASE AdoptSession
    <2>1. owner.attemptGen \in Attempts
      BY <1>0, <1>5, ReceiveType, MessageFields DEF AdoptSession
    <2> QED BY <1>0, <1>5, <2>1, AdoptedOwned DEF Replaced
  <1>6. CASE AdoptFailure
    BY <1>0, <1>6 DEF AdoptFailure, ScheduledReconnect, OwnerType, Replaced
  <1>7. CASE AdoptNotElevated
    <2> DEFINE m == Head(queue)
    <2>1. /\ m.kind = "adopt" /\ m.attempt \in Attempts /\ m.attempt = owner.attemptGen
          /\ ~Brings(m) /\ queue # <<>> /\ queue' = Tail(queue)
      BY <1>0, <1>7, ReceiveType, MessageFields DEF AdoptNotElevated, Receive, Brings
    <2>2. PICK g \in Attempts : g = m.attempt
      BY <2>1
    <2>3. Owned(g) /\ Carries(m, g)
      BY <1>0, <2>1, <2>2 DEF Ownership, Carries
    <2>4. FailureQueued(g)
      BY <1>0, <2>1, <2>3, QueueTail DEF Owned
    <2>5. owner.client # g
      BY <2>3, <2>4 DEF Owned, Exclusive
    <2> QED BY <1>0, <2>1, <2>2, <2>5 DEF Ownership, ClientRight, Replaced
  <1> QED BY <1>1, <1>2, <1>3, <1>4, <1>5, <1>6, <1>7 DEF ServeStep

\* The timers replace a core only for want of the kill switch, for a start the user
\* asked for, or once the core is no longer alive.
LEMMA TimerKeepsClient ==
  ASSUME Recoverable, TimerStep, Replaced, owner.killSwitch
  PROVE  \/ DelayedStart /\ owner'.delayed = NoConfig
         \/ ReconnectTimeout /\ core[owner.client].status # "live"
  <1>0. /\ SessionSound /\ Recovers /\ TypeOK /\ Ownership /\ owner \in OwnerType
    BY DEF Recoverable, SessionSound, TypeOK
  <1>1. CASE DelayedStart
    <2> DEFINE o == [owner EXCEPT !.delayed = NoConfig]
    <2>1. o \in OwnerType /\ owner.delayed \in Configs /\ o.delayed = NoConfig
      BY <1>0, <1>1 DEF DelayedStart, OwnerType
    <2>2. StartConnect(o, owner.delayed)
      BY <1>1 DEF DelayedStart
    <2> HIDE DEF o
    <2>3. CASE owner.delayed \in BadConfigs
      <3>1. owner' = [o EXCEPT !.state = "Error"]
        BY <2>2, <2>3 DEF StartConnect, Loaded
      <3> QED BY <1>1, <2>1, <3>1 DEF OwnerType
    <2>4. CASE owner.delayed \notin BadConfigs
      <3>1. owner'.delayed = NoConfig
        BY <1>0, <2>1, <2>2, <2>4, StartConnectBegins DEF Begins
      <3> QED BY <1>1, <3>1
    <2> QED BY <2>3, <2>4
  <1>2. CASE ReconnectTimeout
    <2>1. Retrying /\ owner.client = owner.attemptGen /\ owner.client \in Attempts
      BY <1>0, <1>2 DEF ReconnectTimeout, Retrying, Replaced, Ownership, ClientRight,
         OwnerType, MaybeAttempt
    <2> QED BY <1>0, <1>2, <2>1 DEF Recovers, SessionRight, CurrentRight
  <1>3. CASE NetworkWaitTimeout
    <2>1. owner' \in {owner, [owner EXCEPT !.timers = @ \ {"networkWait"}]}
      BY <1>3 DEF NetworkWaitTimeout
    <2> QED BY <1>0, <2>1 DEF OwnerType, Replaced
  <1>4. CASE FdLeakFound
    BY <1>4 DEF FdLeakFound, Replaced
  <1> QED BY <1>1, <1>2, <1>3, <1>4 DEF TimerStep

LEMMA OthersKeepClient ==
  ASSUME TypeOK, Outside \/ \E a \in Attempts : WorkerStep(a) \/ RetireDetached(a)
  PROVE  ~Replaced
  BY OthersLeaveOwner DEF TypeOK, OwnerType, Replaced

\* Under the kill switch a live core is given up for a command of the user and for
\* nothing else: no watchdog, late result, event or retry takes it.
THEOREM OnlyCommandsTakeTheCore == Spec => KillSwitchHolds
  <1> DEFINE Held == owner.killSwitch /\ owner.client # NoAttempt
                         /\ owner'.client # owner.client
                     => ByCommand \/ core[owner.client].status # "live"
  <1>1. Recoverable /\ [Next]_vars => [Held]_vars
    <2> SUFFICES ASSUME Recoverable, Next, owner.killSwitch, Replaced
                 PROVE  ByCommand \/ core[owner.client].status # "live"
      BY DEF Replaced
    <2>0. SessionSound /\ TypeOK
      BY DEF Recoverable, SessionSound
    <2>1. CASE StartCommand \/ StopCommand
      <3>1. CASE Quit
        BY <3>1 DEF Quit, ByCommand
      <3>2. CASE ~Quit
        <4>1. PICK kind \in {"connect", "disconnect"} : Receive(kind)
          BY <2>1, <3>2 DEF StartCommand, StopCommand, ConnectNow, ConnectAfterTeardown,
             DisconnectVpn
        <4>2. queue # <<>> /\ Head(queue).kind \in {"connect", "disconnect"}
          BY <4>1 DEF Receive
        <4> QED BY <2>0, <4>1, <4>2, PoppedDiffers DEF ByCommand
      <3> QED BY <3>1, <3>2
    <2>2. CASE TimerStep
      BY <2>2, TimerKeepsClient DEF DelayedStart, ByCommand
    <2> QED BY <2>0, <2>1, <2>2, Steps, ServeKeepsClient, OthersKeepClient DEF OwnerStep
  <1> QED BY <1>1, RecoverableInit, RecoverableStep, PTL DEF Spec, KillSwitchHolds

-----------------------------------------------------------------------------
(***************************************************************************)
(* What TunnelPromise says of the user's commands, for every instance: off *)
(* stays off, and the session implements VpnSession.                       *)
(***************************************************************************)

\* OffStaysOff is not inductive: a start delayed by beginConnect would break it.
OffInv == asked = "off" => owner.state = "Disconnected" /\ owner.delayed = NoConfig

LEMMA AskedRefines ==
  ASSUME [AskedNext]_<<vars, asked>> PROVE [Next]_vars
  BY DEF AskedNext, Next

LEMMA OffInvStep ==
  TypeOK /\ DisconnectedIsOff /\ OffInv /\ [AskedNext]_<<vars, asked>> => OffInv'
  <1> SUFFICES ASSUME TypeOK, DisconnectedIsOff, OffInv, [AskedNext]_<<vars, asked>>
               PROVE  OffInv'
    OBVIOUS
  <1> USE AttemptsAssumption
  <1>0. owner \in OwnerType
    BY DEF TypeOK
  <1>1. CASE StartCommand /\ asked' \in Connects \ {asked}
    BY <1>1, ConnectsAssumption DEF OffInv
  <1>2. CASE StopCommand
    <2>1. owner' = DisconnectedVpn(owner)
      BY <1>2 DEF StopCommand, DisconnectVpn, Quit, TeardownClient
    <2> QED BY <1>0, <2>1, DisconnectedVpnIsOff DEF OffInv
  <1>3. CASE Unasked /\ asked' = asked
    <2> SUFFICES ASSUME asked = "off" PROVE OffInv'
      BY <1>3 DEF OffInv
    <2>1. /\ owner.state = "Disconnected" /\ owner.delayed = NoConfig
          /\ owner.timers = {} /\ owner.attemptGen = NoAttempt /\ owner.sessionGen = NoAttempt
      BY DEF OffInv, DisconnectedIsOff
    <2>2. ~TimerStep
      BY <2>1 DEF TimerStep, DelayedStart, ReconnectTimeout, NetworkWaitTimeout, FdLeakFound
    <2>3. CASE Outside \/ \E a \in Attempts : WorkerStep(a) \/ RetireDetached(a)
      BY <1>0, <2>1, <2>3, OthersLeaveOwner DEF OffInv, OwnerType
    <2>4. CASE SetSplitRouting
      <3> DEFINE o == [owner EXCEPT !.routing = Head(queue).routing]
      <3>1. owner' = RoutingApplied(o)
        BY <2>4 DEF SetSplitRouting
      <3> QED BY <1>0, <2>1, <3>1 DEF OffInv, RoutingApplied, OwnerType
    <2>5. CASE SetKillSwitch
      BY <1>0, <2>1, <2>5 DEF SetKillSwitch, OffInv, OwnerType
    <2>6. CASE CoreStateChanged
      <3>1. Head(queue).session \in Attempts
        BY <2>6, ReceiveType, MessageFields DEF CoreStateChanged
      <3> QED BY <2>1, <2>6, <3>1 DEF CoreStateChanged, OffInv
    <2>7. CASE DropStaleAttempt \/ RetireRescued
      BY <2>1, <2>7 DEF DropStaleAttempt, RetireRescued, OffInv
    <2>8. ~(AdoptSession \/ AdoptFailure \/ AdoptNotElevated)
      BY <2>1, ReceiveType, MessageFields DEF AdoptSession, AdoptFailure, AdoptNotElevated
    <2> QED BY <1>3, <2>2, <2>3, <2>4, <2>5, <2>6, <2>7, <2>8 DEF Unasked, ServeStep
  <1>4. CASE UNCHANGED <<vars, asked>>
    BY <1>4 DEF vars, OffInv
  <1> QED BY <1>1, <1>2, <1>3, <1>4 DEF AskedNext

\* Once a disconnect was served, no late result, core event, timer or delayed start
\* takes the session out of Disconnected before the next connect.
THEOREM NothingRevivesTheSession == AskedSpec => []OffStaysOff
  <1>1. AskedInit => TypeOK /\ DisconnectedIsOff /\ OffInv
    BY TypeInit, OffInit DEF AskedInit, Init, OffInv
  <1>2. TypeOK /\ DisconnectedIsOff /\ OffInv /\ [AskedNext]_<<vars, asked>>
            => (TypeOK /\ DisconnectedIsOff /\ OffInv)'
    BY AskedRefines, TypeStep, OffStep, OffInvStep
  <1>3. OffInv => OffStaysOff
    BY DEF OffInv, OffStaysOff
  <1> QED BY <1>1, <1>2, <1>3, PTL DEF AskedSpec

(***************************************************************************)
(* The session implements VpnSession, step by step.                        *)
(***************************************************************************)
Promised == Recoverable /\ DisconnectedIsOff /\ OffInv

LEMMA PhaseOf ==
  ASSUME owner \in OwnerType
  PROVE  /\ Phase = "off" <=> owner.state = "Disconnected"
         /\ Phase = "trying" <=> owner.state \in {"Connecting", "Reconnecting"}
         /\ Phase = "up" <=> owner.state = "Connected"
         /\ Phase = "waiting" <=> owner.state = "WaitingForNetwork"
         /\ Phase = "failed" <=> owner.state = "Error"
         /\ Phase \in {"off", "trying", "up", "waiting", "failed"}
  BY DEF Phase, OwnerType, States

LEMMA NextPhaseOf ==
  ASSUME owner' \in OwnerType
  PROVE  /\ Phase' = "off" <=> owner'.state = "Disconnected"
         /\ Phase' = "trying" <=> owner'.state \in {"Connecting", "Reconnecting"}
         /\ Phase' = "up" <=> owner'.state = "Connected"
         /\ Phase' = "waiting" <=> owner'.state = "WaitingForNetwork"
         /\ Phase' = "failed" <=> owner'.state = "Error"
         /\ Phase' \in {"off", "trying", "up", "waiting", "failed"}
  BY DEF Phase, OwnerType, States

\* The same core in use, in the same state.
KeepsTunnel == /\ owner'.client = owner.client
               /\ owner.client # NoAttempt
                    => core'[owner.client].status = core[owner.client].status

LEMMA TunnelKept ==
  ASSUME KeepsTunnel
  PROVE  Tunnel' = Tunnel
  BY DEF KeepsTunnel, Tunnel

LEMMA Invisible ==
  ASSUME KeepsTunnel, asked' = asked, owner'.state = owner.state,
         owner'.delayed = owner.delayed, owner'.killSwitch = owner.killSwitch
  PROVE  UNCHANGED Promise!vars
  BY TunnelKept DEF Promise!vars, Phase, Late

\* A session that is not Disconnected was asked for.
LEMMA NotOffIsOn ==
  ASSUME Promised, owner.state # "Disconnected"
  PROVE  Promise!On /\ Phase # "off"
  BY PhaseOf DEF Promised, OffInv, Promise!On, Recoverable, SessionSound, TypeOK

(***************************************************************************)
(* The commands.                                                           *)
(***************************************************************************)
LEMMA StartKept ==
  ASSUME TypeOK, Ownership, NEW o \in OwnerType, NEW c \in Configs, StartConnect(o, c),
         o.client = owner.client, o.killSwitch = owner.killSwitch
  PROVE  /\ owner'.delayed = o.delayed /\ owner'.killSwitch = owner.killSwitch
         /\ \/ owner'.state = "Error" /\ KeepsTunnel
            \/ owner'.state \in {"Connecting", "Reconnecting"} /\ owner'.client = NoAttempt
  <1>1. CASE c \in BadConfigs
    <2>1. owner' = [o EXCEPT !.state = "Error"] /\ core' = core
      BY <1>1 DEF StartConnect, Loaded
    <2> QED BY <2>1 DEF OwnerType, KeepsTunnel
  <1>2. CASE c \notin BadConfigs
    BY <1>2, StartConnectBegins DEF Begins
  <1> QED BY <1>1, <1>2

LEMMA TornDownKeepsSwitch ==
  ASSUME NEW o \in OwnerType
  PROVE  /\ TornDown(o).killSwitch = o.killSwitch /\ TornDown(o).delayed = o.delayed
         /\ DisconnectedVpn(o).killSwitch = o.killSwitch
  <1>1. /\ Joined(o) \in OwnerType /\ Joined(o).killSwitch = o.killSwitch
        /\ Joined(o).delayed = o.delayed
    BY JoinedType DEF Joined, OwnerType
  <1>2. /\ TornDown(o) \in OwnerType /\ TornDown(o).killSwitch = o.killSwitch
        /\ TornDown(o).delayed = o.delayed
    BY <1>1, TornDownType DEF TornDown, OwnerType
  <1> QED BY <1>2 DEF DisconnectedVpn, OwnerType

LEMMA StartTurnsOn ==
  ASSUME Promised, StartCommand, asked' \in Connects \ {asked}
  PROVE  Promise!TurnOn
  <1>0. /\ TypeOK /\ Ownership /\ owner \in OwnerType /\ owner' \in OwnerType
    BY TypeOwnerStep DEF Promised, Recoverable, SessionSound, TypeOK, OwnerStep
  <1>1. CASE ConnectNow
    <2>1. StartConnect(owner, Head(queue).config) /\ Head(queue).config \in Configs
      BY <1>0, <1>1, ReceiveType, MessageFields DEF ConnectNow
    <2>2. /\ owner'.delayed = owner.delayed /\ owner'.killSwitch = owner.killSwitch
          /\ \/ owner'.state = "Error" /\ KeepsTunnel
             \/ owner'.state \in {"Connecting", "Reconnecting"} /\ owner'.client = NoAttempt
      BY <1>0, <2>1, StartKept
    <2>3. Late' = Late
      BY <2>2 DEF Late
    <2>4. CASE owner'.state = "Error" /\ KeepsTunnel
      BY <1>0, <2>2, <2>3, <2>4, NextPhaseOf, TunnelKept DEF Promise!TurnOn
    <2>5. CASE owner'.state \in {"Connecting", "Reconnecting"} /\ owner'.client = NoAttempt
      <3>1. Tunnel' = "none"
        BY <2>5 DEF Tunnel
      <3> QED BY <1>0, <2>2, <2>3, <2>5, <3>1, NextPhaseOf DEF Promise!TurnOn
    <2> QED BY <2>2, <2>4, <2>5
  <1>2. CASE ConnectAfterTeardown
    <2> DEFINE d == DisconnectedVpn(owner)
    <2>1. Head(queue).config \in Configs
      BY <1>0, <1>2, ReceiveType, MessageFields DEF ConnectAfterTeardown
    <2>2. /\ d \in OwnerType /\ d.client = NoAttempt /\ d.state = "Disconnected"
          /\ d.killSwitch = owner.killSwitch
      BY <1>0, DisconnectedVpnType, TornDownParts, DisconnectedVpnIsOff, TornDownKeepsSwitch
    <2>3. owner' = [d EXCEPT !.delayed = Head(queue).config]
      BY <1>2 DEF ConnectAfterTeardown, TeardownClient
    <2> HIDE DEF d
    <2>4. /\ owner'.client = NoAttempt /\ owner'.state = "Disconnected"
          /\ owner'.killSwitch = owner.killSwitch /\ owner'.delayed = Head(queue).config
      BY <2>2, <2>3 DEF OwnerType
    <2>5. Phase' = "off" /\ Tunnel' = "none" /\ Late' = TRUE
      BY <1>0, <2>1, <2>4, NextPhaseOf, ConfigsAssumption DEF Tunnel, Late
    <2> QED BY <2>4, <2>5 DEF Promise!TurnOn
  <1> QED BY <1>1, <1>2 DEF StartCommand

LEMMA StopTurnsOff ==
  ASSUME Promised, StopCommand, asked' = "off"
  PROVE  Promise!TurnOff
  <1> DEFINE d == DisconnectedVpn(owner)
  <1>0. TypeOK /\ owner \in OwnerType /\ owner' \in OwnerType
    BY TypeOwnerStep DEF Promised, Recoverable, SessionSound, TypeOK, OwnerStep
  <1>1. /\ d.client = NoAttempt /\ d.state = "Disconnected" /\ d.delayed = NoConfig
        /\ d.killSwitch = owner.killSwitch
    BY <1>0, DisconnectedVpnType, TornDownParts, DisconnectedVpnIsOff, TornDownKeepsSwitch
  <1>2. owner' = d
    BY DEF StopCommand, DisconnectVpn, Quit, TeardownClient
  <1> HIDE DEF d
  <1>3. Phase' = "off" /\ Tunnel' = "none" /\ Late' = FALSE
    BY <1>0, <1>1, <1>2, NextPhaseOf DEF Tunnel, Late
  <1> QED BY <1>1, <1>2, <1>3 DEF Promise!TurnOff

LEMMA StateTypes ==
  ASSUME Promised, Next
  PROVE  /\ TypeOK /\ Ownership /\ owner \in OwnerType /\ owner' \in OwnerType
         /\ SessionSound /\ AllEventsRight /\ Recovers
  BY TypeStep DEF Promised, Recoverable, SessionSound, TypeOK

(***************************************************************************)
(* What the owner serves besides.                                          *)
(***************************************************************************)
LEMMA EventReports ==
  ASSUME Promised, CoreStateChanged, Next, asked' = asked
  PROVE  Promise!Reports \/ UNCHANGED Promise!vars
  <1> DEFINE m == Head(queue)
  <1>0. TypeOK /\ Ownership /\ owner \in OwnerType /\ owner' \in OwnerType
    BY StateTypes
  <1>1. m.session \in Attempts /\ m.event \in CoreEvents /\ core' = core
    BY <1>0, ReceiveType, MessageFields DEF CoreStateChanged
  <1>2. CASE owner' = owner
    BY <1>1, <1>2, Invisible DEF KeepsTunnel
  <1>3. CASE owner' # owner
    <2>1. owner' = AfterCoreEvent(owner, m.event) /\ owner.attemptGen \in Attempts
      BY <1>0, <1>1, <1>3 DEF CoreStateChanged, Ownership, ClientRight
    <2>2. owner.state # "Disconnected"
      BY <2>1, AttemptsAssumption DEF Promised, DisconnectedIsOff
    <2> HIDE DEF m
    <2>3. /\ owner'.client = owner.client /\ owner'.delayed = owner.delayed
          /\ owner'.killSwitch = owner.killSwitch /\ owner'.state # "Disconnected"
      BY <1>0, <1>1, <2>1, <2>2, AfterCoreEventParts
    <2>4. Phase' \in {"trying", "up", "waiting", "failed"}
      BY <1>0, <2>3, NextPhaseOf
    <2>5. Tunnel' = Tunnel /\ Late' = Late
      BY <1>1, <2>3 DEF Tunnel, Late
    <2> QED BY <2>2, <2>3, <2>4, <2>5, NotOffIsOn DEF Promise!Reports
  <1> QED BY <1>2, <1>3

LEMMA AdoptComesUp ==
  ASSUME Promised, AdoptSession, Next, asked' = asked
  PROVE  Promise!ComesUp
  <1> DEFINE m == Head(queue)
  <1>0. TypeOK /\ Ownership /\ owner \in OwnerType
    BY StateTypes
  <1>1. /\ m.kind = "adopt" /\ m.attempt \in Attempts /\ m.attempt = owner.attemptGen
        /\ m.outcome = "Connected" /\ queue # <<>> /\ queue' = Tail(queue)
    BY <1>0, ReceiveType, MessageFields DEF AdoptSession, Receive
  <1>2. PICK g \in Attempts : g = m.attempt
    BY <1>1
  <1>3. owner.client = NoAttempt /\ owner'.client = g
    BY <1>0, <1>2, AdoptedOwned
  <1>4. /\ owner'.state = owner.state /\ owner'.delayed = owner.delayed
        /\ owner'.killSwitch = owner.killSwitch
    BY <1>0 DEF AdoptSession, RoutingApplied, OwnerType
  <1>5. core'[g].status = core[g].status
    BY <1>0, <1>2 DEF AdoptSession, CoreRouted, TypeOK, CoreType
  <1>6. Exists(g)
    <2>1. Carries(m, g) /\ Brings(m) /\ Owned(g)
      BY <1>0, <1>1, <1>2 DEF Carries, Brings, Ownership
    <2>2. Queued(g)
      BY <1>0, <1>1, <2>1, QueueTail DEF Owned
    <2> QED BY <2>1, <2>2 DEF Owned, Backed
  <1>7. Tunnel = "none" /\ Tunnel' \in {"live", "ended"}
    BY <1>0, <1>3, <1>5, <1>6, AttemptsAssumption
       DEF Tunnel, Exists, TypeOK, CoreType, CoreStatus
  <1>8. owner.state # "Disconnected"
    BY <1>1, AttemptsAssumption DEF Promised, DisconnectedIsOff
  <1>9. Phase' = Phase /\ Late' = Late
    BY <1>4 DEF Phase, Late
  <1> QED BY <1>4, <1>7, <1>8, <1>9, NotOffIsOn DEF Promise!ComesUp

LEMMA FailureReports ==
  ASSUME Promised, AdoptFailure \/ AdoptNotElevated, Next, asked' = asked
  PROVE  Promise!Reports
  <1>0. TypeOK /\ owner \in OwnerType /\ owner' \in OwnerType /\ SessionSound
    BY StateTypes
  <1>1. owner.state # "Disconnected"
    <2>1. owner.attemptGen \in Attempts
      BY <1>0, ReceiveType, MessageFields DEF AdoptFailure, AdoptNotElevated
    <2> QED BY <2>1, AttemptsAssumption DEF Promised, DisconnectedIsOff
  <1>2. /\ owner'.delayed = owner.delayed /\ owner'.killSwitch = owner.killSwitch
        /\ owner'.state # "Disconnected" /\ Tunnel' = Tunnel
    <2>1. CASE AdoptFailure
      <3>1. /\ owner'.delayed = owner.delayed /\ owner'.killSwitch = owner.killSwitch
            /\ owner'.state # "Disconnected" /\ owner'.client = owner.client
        BY <1>0, <1>1, <2>1 DEF AdoptFailure, ScheduledReconnect, OwnerType
      <3> QED BY <2>1, <3>1 DEF AdoptFailure, Tunnel
    <2>2. CASE AdoptNotElevated
      <3> DEFINE t == TornDown(owner)
      <3>1. /\ t \in OwnerType /\ t.client = NoAttempt /\ t.killSwitch = owner.killSwitch
            /\ t.delayed = owner.delayed
        BY <1>0, TornDownType, TornDownParts, TornDownKeepsSwitch
      <3>2. owner' = [t EXCEPT !.stopRequested = TRUE, !.state = "Error"]
        BY <2>2 DEF AdoptNotElevated, TeardownClient
      <3> HIDE DEF t
      <3>3. /\ owner'.client = NoAttempt /\ owner'.killSwitch = owner.killSwitch
            /\ owner'.delayed = owner.delayed /\ owner'.state = "Error"
        BY <3>1, <3>2 DEF OwnerType
      <3>4. owner.client = NoAttempt
        BY <1>0, <2>2, <3>3, ServeKeepsClient DEF ServeStep, Replaced
      <3> QED BY <3>3, <3>4 DEF Tunnel
    <2> QED BY <2>1, <2>2
  <1>3. Phase' \in {"trying", "up", "waiting", "failed"} /\ Late' = Late
    BY <1>0, <1>2, NextPhaseOf DEF Late
  <1> QED BY <1>1, <1>2, <1>3, NotOffIsOn DEF Promise!Reports

LEMMA ServeKeepsPromise ==
  ASSUME Promised, ServeStep, Next, asked' = asked
  PROVE  Promise!Next \/ UNCHANGED Promise!vars
  <1>0. TypeOK /\ Ownership /\ owner \in OwnerType /\ owner' \in OwnerType
    BY StateTypes
  <1>1. CASE SetSplitRouting
    <2> DEFINE o == [owner EXCEPT !.routing = Head(queue).routing]
    <2>1. owner' = RoutingApplied(o) /\ core' = CoreRouted(o)
      BY <1>1 DEF SetSplitRouting
    <2>2. /\ owner'.client = owner.client /\ owner'.state = owner.state
          /\ owner'.delayed = owner.delayed /\ owner'.killSwitch = owner.killSwitch
      BY <1>0, <2>1 DEF RoutingApplied, OwnerType
    <2>3. owner.client # NoAttempt => core'[owner.client].status = core[owner.client].status
      BY <1>0, <2>1 DEF CoreRouted, TypeOK, CoreType, OwnerType, MaybeAttempt
    <2> QED BY <2>2, <2>3, Invisible DEF KeepsTunnel
  <1>2. CASE SetKillSwitch
    <2>1. Head(queue).enabled \in BOOLEAN /\ core' = core
      BY <1>0, <1>2, ReceiveType, MessageFields DEF SetKillSwitch
    <2>2. /\ owner'.client = owner.client /\ owner'.state = owner.state
          /\ owner'.delayed = owner.delayed /\ owner'.killSwitch \in BOOLEAN
      BY <1>0, <1>2, <2>1 DEF SetKillSwitch, OwnerType
    <2>3. Phase' = Phase /\ Tunnel' = Tunnel /\ Late' = Late
      BY <2>1, <2>2 DEF Phase, Tunnel, Late
    <2> QED BY <2>2, <2>3 DEF Promise!Next, Promise!SetKillSwitch
  <1>3. CASE DropStaleAttempt
    BY <1>3, Invisible DEF DropStaleAttempt, KeepsTunnel
  <1>4. CASE RetireRescued
    <2> DEFINE m == Head(queue)
    <2>1. /\ m.kind = "rescue" /\ m.attempt \in Attempts /\ owner' = owner
          /\ core' = Retire(m.attempt) /\ queue # <<>> /\ queue' = Tail(queue)
      BY <1>0, <1>4, ReceiveType, MessageFields DEF RetireRescued, Receive
    <2>2. PICK a \in Attempts : a = m.attempt
      BY <2>1
    <2>3. Owned(a) /\ Carries(m, a) /\ Brings(m)
      BY <1>0, <2>1, <2>2 DEF Ownership, Carries, Brings
    <2>4. owner.client # a
      BY <1>0, <2>1, <2>3, QueueTail DEF Owned, Exclusive
    <2>5. owner.client # NoAttempt => core'[owner.client].status = core[owner.client].status
      BY <1>0, <2>1, <2>2, <2>4, RetireStatus DEF OwnerType, MaybeAttempt
    <2> QED BY <2>1, <2>5, Invisible DEF KeepsTunnel
  <1> QED BY <1>1, <1>2, <1>3, <1>4, EventReports, AdoptComesUp, FailureReports
          DEF ServeStep, Promise!Next

(***************************************************************************)
(* The timers.                                                             *)
(***************************************************************************)
LEMMA DelayedIsLateStart ==
  ASSUME Promised, DelayedStart, Next, asked' = asked
  PROVE  Promise!LateStart
  <1> DEFINE o == [owner EXCEPT !.delayed = NoConfig]
  <1>0. TypeOK /\ Ownership /\ owner \in OwnerType /\ owner' \in OwnerType
    BY StateTypes
  <1>1. /\ o \in OwnerType /\ owner.delayed \in Configs /\ o.delayed = NoConfig
        /\ o.client = owner.client /\ o.killSwitch = owner.killSwitch
    BY <1>0 DEF DelayedStart, OwnerType
  <1>2. StartConnect(o, owner.delayed)
    BY DEF DelayedStart
  <1> HIDE DEF o
  <1>3. /\ owner'.delayed = NoConfig /\ owner'.killSwitch = owner.killSwitch
        /\ \/ owner'.state = "Error" /\ KeepsTunnel
           \/ owner'.state \in {"Connecting", "Reconnecting"} /\ owner'.client = NoAttempt
    BY <1>0, <1>1, <1>2, StartKept
  <1>4. Promise!On /\ Late /\ Late' = FALSE
    BY <1>1, <1>3, ConfigsAssumption DEF Promised, OffInv, Promise!On, Late
  <1>5. \/ Phase' = "failed" /\ Tunnel' = Tunnel
        \/ Phase' = "trying" /\ Tunnel' = "none"
    BY <1>0, <1>3, NextPhaseOf, TunnelKept DEF Tunnel
  <1> QED BY <1>3, <1>4, <1>5 DEF Promise!LateStart

\* When the reconnect timer fires, what is in use is not alive.
LEMMA ReconnectStartsOver ==
  ASSUME Promised, ReconnectTimeout, Next, asked' = asked
  PROVE  Promise!StartsOver \/ UNCHANGED Promise!vars
  <1> DEFINE o == [owner EXCEPT !.timers = @ \ {"reconnect"}]
             j == Joined(o)
  <1>0. /\ TypeOK /\ Ownership /\ owner \in OwnerType /\ owner' \in OwnerType
        /\ SessionSound /\ Recovers
    BY StateTypes
  <1>1. /\ o \in OwnerType /\ o.client = owner.client /\ o.state = owner.state
        /\ o.stopRequested = owner.stopRequested /\ o.delayed = owner.delayed
        /\ o.killSwitch = owner.killSwitch /\ o.lastToml = owner.lastToml
    BY <1>0 DEF OwnerType
  <1>2. DoConnectAttempt(j) /\ Retrying
    BY DEF ReconnectTimeout, Retrying
  <1>3. owner.lastToml \notin BadConfigs /\ owner.lastToml # NoConfig
    BY <1>0 DEF ReconnectTimeout, SessionSound, SessionConfigRight, ConfigRight
  <1> HIDE DEF o
  <1>4. /\ j \in OwnerType /\ j.client \in {owner.client, NoAttempt}
        /\ j.state = owner.state /\ j.stopRequested = owner.stopRequested
        /\ j.delayed = owner.delayed /\ j.killSwitch = owner.killSwitch
        /\ j.lastToml = owner.lastToml
    BY <1>1, JoinedType DEF Joined, OwnerType
  <1> HIDE DEF j
  <1>5. owner.state # "Disconnected"
    BY <1>2 DEF Retrying, Promised, DisconnectedIsOff
  <1>6. Tunnel # "live"
    <2>1. CASE owner.client = NoAttempt
      BY <2>1 DEF Tunnel
    <2>2. CASE owner.client # NoAttempt
      <3>1. owner.client \in Attempts /\ owner.attemptGen = owner.client
        BY <1>0, <2>2 DEF Ownership, ClientRight, OwnerType, MaybeAttempt
      <3> QED BY <1>0, <1>2, <2>2, <3>1 DEF Recovers, SessionRight, CurrentRight, Tunnel
    <2> QED BY <2>1, <2>2
  <1>7. CASE ~j.stopRequested
    <2>1. PICK n \in FreeSlots : Begins(j, n)
      BY <1>2, <1>3, <1>4, <1>7, DoConnectAttemptBegins
    <2>2. /\ owner'.client = NoAttempt /\ owner'.state \in {"Connecting", "Reconnecting"}
          /\ owner'.delayed = owner.delayed /\ owner'.killSwitch = owner.killSwitch
      BY <1>4, <2>1 DEF Begins
    <2>3. Phase' = "trying" /\ Tunnel' = "none" /\ Late' = Late
      BY <1>0, <2>2, NextPhaseOf DEF Tunnel, Late
    <2> QED BY <1>5, <1>6, <2>2, <2>3, NotOffIsOn DEF Promise!StartsOver
  <1>8. CASE j.stopRequested
    <2>1. owner' = j /\ core' = core
      BY <1>2, <1>3, <1>4, <1>8, DoConnectAttemptBegins
    <2>2. CASE j.client = owner.client
      BY <1>4, <2>1, <2>2, Invisible DEF KeepsTunnel
    <2>3. CASE j.client = NoAttempt
      <3>1. owner.state = "Error"
        BY <1>0, <1>4, <1>5, <1>8 DEF Recovers, StateRight
      <3>2. Phase' = "failed" /\ Tunnel' = "none" /\ Late' = Late
        BY <1>0, <1>4, <2>1, <2>3, <3>1, NextPhaseOf DEF Tunnel, Late
      <3> QED BY <1>4, <1>5, <1>6, <2>1, <3>2, NotOffIsOn DEF Promise!StartsOver
    <2> QED BY <1>4, <2>2, <2>3
  <1> QED BY <1>7, <1>8

LEMMA ForceStartsOver ==
  ASSUME Promised, Next, asked' = asked, NEW o \in OwnerType, ForceReconnect(o),
         ~owner.killSwitch, owner.state # "Disconnected",
         owner.state = "Connected" => ~owner.stopRequested /\ ~Retrying,
         o.state = owner.state, o.delayed = owner.delayed, o.killSwitch = owner.killSwitch,
         o.thread = owner.thread, o.stopRequested = owner.stopRequested,
         "reconnect" \in o.timers <=> Retrying
  PROVE  Promise!StartsOver
  <1> DEFINE t == TornDown(o)
             r == ScheduledReconnect(t)
  <1>0. owner \in OwnerType /\ owner' \in OwnerType
    BY StateTypes
  <1>1. /\ t \in OwnerType /\ t.client = NoAttempt /\ t.state = owner.state
        /\ t.delayed = owner.delayed /\ t.killSwitch = owner.killSwitch
    BY TornDownType, TornDownParts, TornDownKeepsState, TornDownKeepsSwitch
  <1>2. t.stopRequested = owner.stopRequested /\ t.timers = o.timers
    BY DEF TornDown, Joined, OwnerType
  <1>3. owner' = r
    BY DEF ForceReconnect, TeardownClient
  <1> HIDE DEF t
  <1>4. /\ owner'.client = NoAttempt /\ owner'.delayed = owner.delayed
        /\ owner'.killSwitch = owner.killSwitch
        /\ \/ owner'.state = "Reconnecting"
           \/ owner'.state = owner.state /\ (owner.stopRequested \/ Retrying)
    BY <1>1, <1>2, <1>3 DEF ScheduledReconnect, OwnerType, Retrying
  <1>5. owner'.state \notin {"Disconnected", "Connected"}
    BY <1>4
  <1>6. Phase' \in {"trying", "waiting", "failed"} /\ Tunnel' = "none" /\ Late' = Late
    BY <1>0, <1>4, <1>5, NextPhaseOf DEF Tunnel, Late
  <1> QED BY <1>4, <1>6, NotOffIsOn DEF Promise!StartsOver

LEMMA TimersKeepPromise ==
  ASSUME Promised, TimerStep, Next, asked' = asked
  PROVE  Promise!Next \/ UNCHANGED Promise!vars
  <1>0. owner \in OwnerType /\ Recovers
    BY StateTypes
  <1>1. CASE NetworkWaitTimeout
    <2> DEFINE o == [owner EXCEPT !.timers = @ \ {"networkWait"}]
    <2>1. /\ o \in OwnerType /\ o.client = owner.client /\ o.state = owner.state
          /\ o.delayed = owner.delayed /\ o.killSwitch = owner.killSwitch
          /\ o.thread = owner.thread /\ o.stopRequested = owner.stopRequested
          /\ "reconnect" \in o.timers <=> Retrying
      BY <1>0 DEF OwnerType, Retrying
    <2>2. \/ owner' \in {o, owner} /\ core' = core
          \/ ForceReconnect(o) /\ ~owner.killSwitch /\ owner.state = "WaitingForNetwork"
      BY <1>1 DEF NetworkWaitTimeout
    <2> HIDE DEF o
    <2>3. CASE owner' \in {o, owner} /\ core' = core
      BY <2>1, <2>3, Invisible DEF KeepsTunnel
    <2>4. CASE ForceReconnect(o) /\ ~owner.killSwitch /\ owner.state = "WaitingForNetwork"
      BY <2>1, <2>4, ForceStartsOver DEF Promise!Next
    <2> QED BY <2>2, <2>3, <2>4
  <1>2. CASE FdLeakFound
    <2>1. CASE owner' = owner /\ core' = core
      BY <2>1, Invisible DEF KeepsTunnel
    <2>2. CASE ForceReconnect(owner) /\ ~owner.killSwitch
      <3>1. owner.state \in {"Connected", "Reconnecting"}
        BY <1>2 DEF FdLeakFound
      <3>2. owner.state = "Connected" => ~owner.stopRequested /\ ~Retrying
        BY <1>0 DEF Recovers, StateRight
      <3> QED BY <1>0, <2>2, <3>1, <3>2, ForceStartsOver DEF Retrying, Promise!Next
    <2> QED BY <1>2, <2>1, <2>2 DEF FdLeakFound
  <1> QED BY <1>1, <1>2, DelayedIsLateStart, ReconnectStartsOver DEF TimerStep, Promise!Next

(***************************************************************************)
(* The threads and the outside.                                            *)
(***************************************************************************)
LEMMA ThreadsAreInvisible ==
  ASSUME Promised, Next, asked' = asked, NEW w \in Attempts,
         WorkerStep(w) \/ RetireDetached(w)
  PROVE  UNCHANGED Promise!vars
  <1>0. TypeOK /\ Ownership /\ owner \in OwnerType
    BY StateTypes
  <1>1. /\ owner'.client = owner.client /\ owner'.state = owner.state
        /\ owner'.delayed = owner.delayed /\ owner'.killSwitch = owner.killSwitch
    BY <1>0, OthersLeaveOwner DEF OwnerType
  <1>2. ASSUME NEW g \in Attempts, owner.client = g PROVE core'[g].status = core[g].status
    <2>1. ~Busy(g) /\ ~Succeeded(g) /\ g \notin detached
      BY <1>0, <1>2 DEF Ownership, Owned, Exclusive
    <2>2. CASE Establish(w)
      BY <1>0, <2>1, <2>2 DEF Establish, At, Busy, TypeOK
    <2>3. CASE EstablishFails(w) \/ HandOver(w)
      <3>1. w # g /\ (core' = core \/ core' = Retire(w))
        BY <2>1, <2>3 DEF EstablishFails, HandOver, At, Busy
      <3> QED BY <1>0, <3>1, RetireStatus
    <2>4. CASE RetirePrevious(w)
      <3>1. worker[w].retired # g
        BY <2>1 DEF Succeeded
      <3> QED BY <1>0, <2>4, <3>1, RetireStatus DEF RetirePrevious
    <2>5. CASE RetireDetached(w)
      BY <1>0, <2>1, <2>5, RetireStatus DEF RetireDetached
    <2>6. CASE BuildFails(w) \/ Established(w) \/ Exit(w)
      BY <2>6 DEF BuildFails, Established, Exit
    <2> QED BY <2>2, <2>3, <2>4, <2>5, <2>6 DEF WorkerStep
  <1> QED BY <1>0, <1>1, <1>2, Invisible DEF KeepsTunnel, OwnerType, MaybeAttempt

LEMMA OutsideKeepsPromise ==
  ASSUME Promised, Next, asked' = asked, Outside
  PROVE  Promise!TunnelEnds \/ UNCHANGED Promise!vars
  <1>0. TypeOK /\ owner \in OwnerType /\ owner' = owner
    BY StateTypes DEF Outside, CoreReports, Command, Leave, Post
  <1>1. CASE core' = core
    BY <1>0, <1>1, Invisible DEF KeepsTunnel
  <1>2. CASE core' # core
    <2>1. PICK a \in Attempts : /\ core[a].status = "live"
                               /\ core' = [core EXCEPT ![a].status = "ended"]
      BY <1>2 DEF Outside, CoreReports, Command, Leave
    <2>2. /\ core'[a].status = "ended"
          /\ \A b \in Attempts : b # a => core'[b].status = core[b].status
      BY <1>0, <2>1 DEF TypeOK, CoreType
    <2>3. CASE owner.client = a
      <3>1. Tunnel = "live" /\ Tunnel' = "ended"
        BY <1>0, <2>1, <2>2, <2>3, AttemptsAssumption DEF Tunnel
      <3> QED BY <1>0, <3>1 DEF Promise!TunnelEnds, Phase, Late
    <2>4. CASE owner.client # a
      <3>1. owner.client # NoAttempt => core'[owner.client].status = core[owner.client].status
        BY <1>0, <2>2, <2>4 DEF OwnerType, MaybeAttempt
      <3> QED BY <1>0, <3>1, Invisible DEF KeepsTunnel
    <2> QED BY <2>3, <2>4
  <1> QED BY <1>1, <1>2

(***************************************************************************)
(* The refinement.                                                         *)
(***************************************************************************)
LEMMA PromisedInit == AskedInit => Promised /\ Promise!Init
  <1> SUFFICES ASSUME AskedInit PROVE Promised /\ Promise!Init
    OBVIOUS
  <1>1. Init /\ asked = "off"
    BY DEF AskedInit
  <1>2. /\ owner.state = "Disconnected" /\ owner.client = NoAttempt
        /\ owner.delayed = NoConfig /\ owner.killSwitch = FALSE
    BY <1>1 DEF Init
  <1>3. Promised
    BY <1>1, <1>2, RecoverableInit, OffInit DEF Promised, OffInv
  <1>4. Phase = "off" /\ Tunnel = "none" /\ Late = FALSE
    BY <1>2 DEF Phase, Tunnel, Late
  <1> QED BY <1>1, <1>2, <1>3, <1>4 DEF Promise!Init

LEMMA PromisedStep ==
  Promised /\ [AskedNext]_<<vars, asked>> => Promised' /\ [Promise!Next]_Promise!vars
  <1> SUFFICES ASSUME Promised, [AskedNext]_<<vars, asked>>
               PROVE  Promised' /\ [Promise!Next]_Promise!vars
    OBVIOUS
  <1>0. TypeOK /\ Recoverable /\ DisconnectedIsOff /\ OffInv
    BY DEF Promised, Recoverable, SessionSound
  <1>1. Promised'
    BY <1>0, AskedRefines, RecoverableStep, OffStep, OffInvStep DEF Promised
  <1>2. CASE StartCommand /\ asked' \in Connects \ {asked}
    BY <1>1, <1>2, StartTurnsOn DEF Promise!Next
  <1>3. CASE StopCommand /\ asked' = "off"
    BY <1>1, <1>3, StopTurnsOff DEF Promise!Next
  <1>4. CASE Unasked /\ asked' = asked
    <2>1. Next
      BY <1>4 DEF Next
    <2> QED BY <1>1, <1>4, <2>1, ServeKeepsPromise, TimersKeepPromise, ThreadsAreInvisible,
               OutsideKeepsPromise DEF Unasked, Promise!Next
  <1>5. CASE UNCHANGED <<vars, asked>>
    BY <1>1, <1>5 DEF vars, Promise!vars, Phase, Tunnel, Late
  <1> QED BY <1>2, <1>3, <1>4, <1>5 DEF AskedNext

\* The threads, generations, timers and posted calls of the wrapper implement the
\* session the user turns on and off: off stays off, a tunnel comes up for a session
\* that was asked for, and under the kill switch it goes only for a command or after
\* it ended by itself.
THEOREM SessionKeepsPromise == AskedSpec => KeepsPromise
  BY PromisedInit, PromisedStep, PTL DEF AskedSpec, KeepsPromise, Promise!Spec
=============================================================================
