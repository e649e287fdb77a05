------------------------- MODULE AndroidTunnelProofs -------------------------
(***************************************************************************)
(* Theorems about AndroidTunnel, for any configurations, kinds of starts   *)
(* and values of the kill switch, and any number of starts, reports,       *)
(* faults and events.                                                      *)
(***************************************************************************)
EXTENDS AndroidTunnel, TLAPS

(***************************************************************************)
(* Types.                                                                  *)
(***************************************************************************)
StartKinds == {"start", "reconnect", "always_on", "stop"}
Timers == [seq : Nat, epoch : Nat] \cup {NoTimer}

StartTasks == [kind : StartKinds, id : Nat, config : Configs \cup {None}, epoch : Nat]
RevokedTasks == [kind : {"revoked"}, id : Nat]
PlainTasks == [kind : {"destroy", "network", "geo"}]
RetryTasks == [kind : {"retry"}, timer : Timers]
StateTasks == [kind : {"state"}, token : Nat, state : {0, 2, 3}]
Tasks == StartTasks \cup RevokedTasks \cup PlainTasks \cup RetryTasks \cup StateTasks

Jobs == [step : {"preparing", "prepared", "established", "failed"}, id : Nat, epoch : Nat,
         geo : BOOLEAN, source : [of : Configs, by : {"user", "plan"}], profile : Configs]

Sessions ==
    [client : Nat, generation : Nat, tun : Plans \cup {NoTun}, keepBlocked : BOOLEAN,
     source : Sources, profile : Configs \cup {None}, blocked : BOOLEAN,
     retrySeq : Nat, timer : Timers, state : 0..6]

Types ==
    /\ requests \in Seq([kind : StartKinds, id : Nat, config : Configs \cup {None}])
    /\ asked \in 0..MaxStarts /\ latest \in Nat /\ latestKind \in StartKinds \cup {None}
    /\ epoch \in Nat /\ permitted \in BOOLEAN /\ selected \in Configs
    /\ destroyed \in BOOLEAN /\ ending \in BOOLEAN
    /\ queue \in Seq(Tasks) /\ job \in Jobs \cup {Idle} /\ served \in Nat
    /\ session \in Sessions /\ alive \subseteq Nat
    /\ reports \in Nat /\ faults \in Nat /\ events \in Nat

(***************************************************************************)
(* The inductive invariant.                                                *)
(***************************************************************************)
Waiting == ToSet(queue)
WaitsFor(kind) == \E t \in Waiting : t.kind = kind

\* Starts are numbered as they are asked for, and delivered and served in that order.
StartsInOrder ==
    /\ latest + Len(requests) = asked
    /\ \A i \in DOMAIN requests : requests[i].id = latest + i
    /\ served <= latest /\ epoch <= events /\ events <= MaxEvents
    /\ \A t \in Waiting : t.kind \in StartKinds =>
           t.id <= latest /\ (t.id = latest => t.kind = latestKind)
    /\ job # Idle => job.epoch <= epoch

\* One core, the worker's; what a core said last is that it ended; and a core said
\* nothing since it was stopped that still counts.
CoreRight ==
    /\ session.client \in {0, session.generation}
    /\ alive \subseteq {session.client} \ {0}
    /\ session.tun = NoTun => session.client = 0
    /\ \A t \in Waiting : t.kind = "state" =>
           /\ t.token > 0 /\ t.token <= session.generation
           /\ t.token = session.generation => session.client = session.generation
           /\ t.state = 0 => t.token \notin alive

\* A TUN that was just established has no core and is not blocked.
JobRight ==
    /\ job.step \in {"established", "failed"} => ~session.blocked /\ alive = {}
                                                 /\ session.tun # NoTun
    /\ job.step = "established" => session.client = 0
    /\ job.step = "prepared" /\ job.epoch = epoch => permitted

BlockedRight ==
    /\ session.blocked => session.tun # NoTun /\ session.keepBlocked
    /\ session.blocked /\ session.client = 0 /\ ~destroyed =>
           LET now == [seq |-> session.retrySeq, epoch |-> epoch]
           IN  \/ session.timer = now
               \/ \E t \in Waiting : t.kind = "retry" /\ t.timer = now
               \/ WaitsFor("revoked")

\* What the app shows, while nothing is on its way that makes it so.
StateRight ==
    /\ session.tun = NoTun \/ destroyed => session.state = 0
    /\ ~destroyed /\ ~WaitsFor("revoked") =>
           /\ session.blocked => session.state = 6
           /\ session.client # 0 /\ ~session.blocked => session.state \notin {0, 6}

\* Nothing runs and nothing is planned.
Clean ==
    /\ session.tun = NoTun /\ session.client = 0 /\ alive = {} /\ session.timer = NoTimer
    /\ session.source = NoSource /\ job = Idle

StopsRight ==
    /\ destroyed => WaitsFor("destroy") \/ Clean
    /\ WaitsFor("destroy") => destroyed
    /\ latestKind = "stop" /\ ~destroyed =>
           \/ WaitsFor("revoked")
           \/ \E t \in Waiting : t.kind = "stop" /\ t.id = latest /\ t.epoch = epoch
           \/ Clean
    /\ ~permitted /\ session.tun # NoTun => WaitsFor("revoked")

AndroidInv ==
    Types /\ StartsInOrder /\ CoreRight /\ JobRight /\ BlockedRight /\ StateRight /\ StopsRight

(***************************************************************************)
(* The queue, as the set of the tasks in it.                               *)
(***************************************************************************)

\* A task that is queued is one more of those that wait.
LEMMA AppendWaits ==
    ASSUME NEW q \in Seq(Tasks), NEW t \in Tasks
    PROVE  /\ Append(q, t) \in Seq(Tasks)
           /\ ToSet(Append(q, t)) = ToSet(q) \cup {t}
<1>1. Append(q, t) \in Seq(Tasks) /\ Len(Append(q, t)) = Len(q) + 1
    OBVIOUS
<1>2. DOMAIN Append(q, t) = 1..(Len(q) + 1) /\ DOMAIN q = 1..Len(q) /\ Len(q) \in Nat
    OBVIOUS
<1>3. \A i \in 1..Len(q) : Append(q, t)[i] = q[i]
    OBVIOUS
<1>4. Append(q, t)[Len(q) + 1] = t
    OBVIOUS
<1>5. ToSet(q) \cup {t} \subseteq ToSet(Append(q, t))
    <2>1. \A i \in 1..Len(q) : i \in 1..(Len(q) + 1)
        BY <1>2
    <2>2. Len(q) + 1 \in 1..(Len(q) + 1)
        BY <1>2
    <2> QED  BY <1>2, <1>3, <1>4, <2>1, <2>2 DEF ToSet
<1>6. ToSet(Append(q, t)) \subseteq ToSet(q) \cup {t}
    <2>1. \A i \in 1..(Len(q) + 1) : i \in 1..Len(q) \/ i = Len(q) + 1
        BY <1>2
    <2> QED  BY <1>2, <1>3, <1>4, <2>1 DEF ToSet
<1> QED  BY <1>1, <1>5, <1>6

\* The worker takes one of the tasks that wait, and the others go on waiting.
LEMMA TailWaits ==
    ASSUME NEW q \in Seq(Tasks), q # <<>>
    PROVE  /\ Tail(q) \in Seq(Tasks) /\ Head(q) \in Tasks
           /\ Head(q) \in ToSet(q)
           /\ ToSet(Tail(q)) \subseteq ToSet(q)
           /\ ToSet(q) \subseteq ToSet(Tail(q)) \cup {Head(q)}
<1>1. /\ Tail(q) \in Seq(Tasks) /\ Head(q) \in Tasks /\ Len(q) \in Nat \ {0}
      /\ Len(Tail(q)) = Len(q) - 1 /\ Head(q) = q[1]
    OBVIOUS
<1>2. DOMAIN q = 1..Len(q) /\ DOMAIN Tail(q) = 1..(Len(q) - 1)
    BY <1>1
<1>3. \A i \in 1..(Len(q) - 1) : Tail(q)[i] = q[i + 1] /\ i + 1 \in 1..Len(q)
    BY <1>1
<1>4. 1 \in 1..Len(q)
    BY <1>1
<1>5. \A i \in 1..Len(q) : i = 1 \/ (i - 1 \in 1..(Len(q) - 1) /\ (i - 1) + 1 = i)
    BY <1>1
<1>6. Head(q) \in ToSet(q)
    BY <1>1, <1>2, <1>4 DEF ToSet
<1>7. ToSet(Tail(q)) \subseteq ToSet(q)
    BY <1>2, <1>3 DEF ToSet
<1>8. ToSet(q) \subseteq ToSet(Tail(q)) \cup {Head(q)}
    <2>1. ASSUME NEW i \in 1..Len(q), i # 1
          PROVE  Tail(q)[i - 1] = q[i] /\ i - 1 \in DOMAIN Tail(q)
        BY <1>2, <1>3, <1>5, <2>1
    <2>2. ASSUME NEW x \in ToSet(q)
          PROVE  x \in ToSet(Tail(q)) \cup {Head(q)}
        <3>1. PICK i \in 1..Len(q) : x = q[i]
            BY <1>2, <2>2 DEF ToSet
        <3>2. CASE i = 1
            BY <1>1, <3>1, <3>2
        <3>3. CASE i # 1
            BY <2>1, <3>1, <3>3 DEF ToSet
        <3> QED  BY <3>2, <3>3
    <2> QED  BY <2>2
<1> QED  BY <1>1, <1>6, <1>7, <1>8

\* A task of a kind is one of that kind's.
LEMMA TaskKinds ==
    ASSUME NEW t \in Tasks
    PROVE  /\ t.kind \in StartKinds <=> t \in StartTasks
           /\ t.kind = "state" <=> t \in StateTasks
           /\ t.kind = "retry" <=> t \in RetryTasks
           /\ t.kind = "revoked" <=> t \in RevokedTasks
           /\ t.kind \in StartKinds \cup {"state", "retry", "revoked", "destroy", "network", "geo"}
    BY DEF Tasks, StartTasks, StateTasks, RetryTasks, RevokedTasks, PlainTasks, StartKinds

\* What queueing does: nothing once the service was destroyed.
LEMMA Enqueued ==
    ASSUME queue \in Seq(Tasks), NEW t \in Tasks, Enqueue(t)
    PROVE  /\ queue' \in Seq(Tasks)
           /\ destroyed => Waiting' = Waiting
           /\ ~destroyed => Waiting' = Waiting \cup {t}
    BY AppendWaits DEF Enqueue, Waiting

\* What taking does.
LEMMA Taken ==
    ASSUME queue \in Seq(Tasks), NEW kinds, Takes(kinds)
    PROVE  /\ queue' \in Seq(Tasks) /\ Head(queue) \in Tasks
           /\ Head(queue) \in Waiting /\ Head(queue).kind \in kinds
           /\ Waiting' \subseteq Waiting
           /\ Waiting \subseteq Waiting' \cup {Head(queue)}
           /\ job = Idle /\ UNCHANGED <<main_vars, reports, events>>
    BY TailWaits DEF Takes, Waiting

\* A task of a kind is on its way if it is one of those that wait.
LEMMA ComingIsWaiting ==
    ASSUME queue \in Seq(Tasks), NEW kind
    PROVE  Coming(kind) <=> WaitsFor(kind)
    BY DEF Coming, WaitsFor, Waiting, ToSet

(***************************************************************************)
(* What the worker's functions do to what it owns.                         *)
(***************************************************************************)

\* cancelRetry() and scheduleRetry().
LEMMA ScheduledIs ==
    ASSUME Types, NEW s \in Sessions
    PROVE  /\ Scheduled(s) \in Sessions
           /\ Scheduled(s) = [s EXCEPT !.retrySeq = s.retrySeq + 1,
                                       !.timer = [seq |-> s.retrySeq + 1, epoch |-> epoch]]
<1>1. s.retrySeq + 1 \in Nat /\ epoch \in Nat
    BY DEF Types, Sessions
<1>2. [seq |-> s.retrySeq + 1, epoch |-> epoch] \in Timers
    BY <1>1 DEF Timers
<1>3. Scheduled(s) = [s EXCEPT !.retrySeq = s.retrySeq + 1,
                               !.timer = [seq |-> s.retrySeq + 1, epoch |-> epoch]]
    BY DEF Scheduled, Cancelled, Sessions
<1> QED  BY <1>1, <1>2, <1>3 DEF Sessions

LEMMA StoppedIs ==
    ASSUME NEW s \in Sessions
    PROVE  /\ Stopped(s) \in Sessions
           /\ Stopped(s).client = 0 /\ Stopped(s).generation = s.generation + 1
           /\ Stopped(s).retrySeq = s.retrySeq + 1 /\ Stopped(s).timer = NoTimer
           /\ Stopped(s).tun = s.tun /\ Stopped(s).keepBlocked = s.keepBlocked
           /\ Stopped(s).source = s.source /\ Stopped(s).profile = s.profile
           /\ Stopped(s).blocked = s.blocked /\ Stopped(s).state = s.state
<1> DEFINE c == Cancelled(s)
<1>1. s.retrySeq + 1 \in Nat /\ s.generation + 1 \in Nat /\ NoTimer \in Timers /\ 0 \in Nat
    BY DEF Sessions, Timers
<1>2. /\ c \in Sessions
      /\ c.retrySeq = s.retrySeq + 1 /\ c.timer = NoTimer /\ c.generation = s.generation
      /\ c.tun = s.tun /\ c.keepBlocked = s.keepBlocked /\ c.source = s.source
      /\ c.profile = s.profile /\ c.blocked = s.blocked /\ c.state = s.state
    BY <1>1 DEF Cancelled, Sessions
<1>3. Stopped(s) = [c EXCEPT !.generation = s.generation + 1, !.client = 0]
    BY <1>2 DEF Stopped
<1> HIDE DEF c
<1> QED  BY <1>1, <1>2, <1>3 DEF Sessions

LEMMA PublishedIs ==
    ASSUME NEW s \in Sessions, NEW n \in 0..6
    PROVE  /\ Published(s, n) \in Sessions
           /\ Published(s, n) = [s EXCEPT !.state = IF destroyed THEN s.state ELSE n]
    BY DEF Published, Sessions

LEMMA ClosedIs ==
    ASSUME NEW s \in Sessions
    PROVE  /\ Closed(s) \in Sessions
           /\ Closed(s).client = 0 /\ Closed(s).generation = s.generation + 1
           /\ Closed(s).timer = NoTimer /\ Closed(s).tun = NoTun /\ ~Closed(s).blocked
           /\ Closed(s).source = NoSource /\ Closed(s).profile = None
           /\ Closed(s).keepBlocked = s.keepBlocked /\ Closed(s).state = s.state
<1> DEFINE c == Stopped(s)
           d == [c EXCEPT !.tun = NoTun, !.blocked = FALSE]
<1>1. NoTun \in Plans \cup {NoTun} /\ NoSource \in Sources /\ None \in Configs \cup {None}
      /\ FALSE \in BOOLEAN
    BY DEF Sources
<1>2. /\ c \in Sessions
      /\ c.client = 0 /\ c.generation = s.generation + 1 /\ c.timer = NoTimer
      /\ c.keepBlocked = s.keepBlocked /\ c.state = s.state
    BY StoppedIs
<1>3. Closed(s) = [d EXCEPT !.source = NoSource, !.profile = None]
    BY DEF Closed
<1> HIDE DEF c
<1>4. /\ d \in Sessions
      /\ d.client = 0 /\ d.generation = s.generation + 1 /\ d.timer = NoTimer
      /\ d.keepBlocked = s.keepBlocked /\ d.state = s.state /\ d.tun = NoTun /\ d.blocked = FALSE
    BY <1>1, <1>2 DEF Sessions
<1> HIDE DEF d
<1> QED  BY <1>1, <1>3, <1>4 DEF Sessions

LEMMA CandidateIs ==
    ASSUME NEW s \in Sessions
    PROVE  /\ Candidate(s) \in Sessions
           /\ Candidate(s).client = s.generation + 1
           /\ Candidate(s).generation = s.generation + 1
           /\ Candidate(s).tun = s.tun /\ Candidate(s).keepBlocked = s.keepBlocked
           /\ Candidate(s).source = s.source /\ Candidate(s).timer = s.timer
           /\ Candidate(s).blocked = s.blocked /\ Candidate(s).retrySeq = s.retrySeq
           /\ Candidate(s).state = IF s.blocked \/ destroyed THEN s.state ELSE 1
<1> DEFINE c == [s EXCEPT !.generation = s.generation + 1, !.client = s.generation + 1]
<1>1. s.generation + 1 \in Nat /\ 1 \in 0..6
    BY DEF Sessions
<1>2. Candidate(s) = IF c.blocked \/ destroyed THEN c ELSE [c EXCEPT !.state = 1]
    BY DEF Candidate, Published
<1>3. /\ c \in Sessions
      /\ c.client = s.generation + 1 /\ c.generation = s.generation + 1 /\ c.tun = s.tun
      /\ c.keepBlocked = s.keepBlocked /\ c.source = s.source /\ c.timer = s.timer
      /\ c.blocked = s.blocked /\ c.retrySeq = s.retrySeq /\ c.state = s.state
    BY <1>1 DEF Sessions
<1> HIDE DEF c
<1> QED  BY <1>1, <1>2, <1>3 DEF Sessions

\* fail() keeps the TUN and blocks it, or closes it all.
LEMMA FailIs ==
    ASSUME Types, NEW s \in Sessions, s.tun = session.tun,
           s.keepBlocked = session.keepBlocked, ~destroyed, FailWith(s)
    PROVE  /\ session' \in Sessions
           /\ session'.client = 0 /\ session'.generation = s.generation + 1
           /\ alive' = alive \ {session.client}
           /\ \/ /\ KeepsTun /\ session'.tun = s.tun
                 /\ session'.blocked /\ session'.keepBlocked
                 /\ session'.timer = [seq |-> session'.retrySeq, epoch |-> epoch]
                 /\ session'.state = IF s.blocked THEN s.state ELSE 6
                 /\ ending' = ending
              \/ /\ ~KeepsTun /\ session'.tun = NoTun
                 /\ ~session'.blocked /\ session'.state = 0
                 /\ session'.source = NoSource /\ session'.timer = NoTimer
                 /\ ending' = (ending \/ served = asked)
<1>1. alive' = alive \ {session.client}
    BY DEF FailWith, StopsCore
<1>2. CASE KeepsTun /\ session' = Blocked(s) /\ ending' = ending
    <2> DEFINE c == Scheduled(Stopped(s))
    <2>1. c \in Sessions /\ c.client = 0 /\ c.generation = s.generation + 1 /\ c.tun = s.tun
          /\ c.timer = [seq |-> c.retrySeq, epoch |-> epoch] /\ c.keepBlocked = s.keepBlocked
          /\ c.state = s.state /\ c.blocked = s.blocked
        <3>1. Stopped(s) \in Sessions /\ Stopped(s).client = 0
              /\ Stopped(s).generation = s.generation + 1 /\ Stopped(s).tun = s.tun
              /\ Stopped(s).keepBlocked = s.keepBlocked /\ Stopped(s).state = s.state
              /\ Stopped(s).blocked = s.blocked
            BY StoppedIs
        <3> HIDE DEF c
        <3>2. c \in Sessions /\ c = [Stopped(s) EXCEPT !.retrySeq = Stopped(s).retrySeq + 1,
                          !.timer = [seq |-> Stopped(s).retrySeq + 1, epoch |-> epoch]]
            BY <3>1, ScheduledIs DEF c
        <3> QED  BY <3>1, <3>2 DEF Sessions
    <2>2. session' = IF s.blocked THEN c ELSE Published([c EXCEPT !.blocked = TRUE], 6)
        BY <1>2 DEF Blocked
    <2> HIDE DEF c
    <2>3. [c EXCEPT !.blocked = TRUE] \in Sessions
        BY <2>1 DEF Sessions
    <2>4. ~s.blocked => session' = [[c EXCEPT !.blocked = TRUE] EXCEPT !.state = 6]
        BY <2>2 DEF Published
    <2>5. 6 \in 0..6
        OBVIOUS
    <2>6. ~s.blocked => session' \in Sessions
        BY <2>3, <2>4, <2>5 DEF Sessions
    <2> QED  BY <1>1, <1>2, <2>1, <2>2, <2>4, <2>6 DEF KeepsTun, Sessions
<1>3. CASE ~KeepsTun /\ session' = Published(Closed(s), 0) /\ StopSelf(EndedWith)
    <2>1. Closed(s) \in Sessions
        BY ClosedIs
    <2>2. session' \in Sessions /\ session' = [Closed(s) EXCEPT !.state = 0]
        <3>1. 0 \in 0..6
            OBVIOUS
        <3> QED  BY <1>3, <2>1, <3>1 DEF Published, Sessions
    <2> HIDE DEF Sessions
    <2>3. /\ session'.client = 0 /\ session'.tun = NoTun /\ ~session'.blocked
          /\ session'.source = NoSource /\ session'.timer = NoTimer
          /\ session'.generation = s.generation + 1 /\ session'.state = 0
        BY <2>1, <2>2, ClosedIs DEF Sessions
    <2> QED  BY <1>1, <1>3, <2>2, <2>3 DEF StopSelf, EndedWith
<1> QED  BY <1>2, <1>3 DEF FailWith

(***************************************************************************)
(* What a step of the worker has to do to keep the invariant.              *)
(***************************************************************************)

\* The order of the starts: it is kept by whatever queues no start.
LEMMA StartsGoOn ==
    ASSUME Types, StartsInOrder, UNCHANGED main_vars, events' = events,
           \A t \in Waiting' : t.kind \in StartKinds => t \in Waiting,
           served' <= latest, job' # Idle => job'.epoch <= epoch
    PROVE  StartsInOrder'
    BY DEF StartsInOrder, main_vars, system_vars, start_vars

\* The types.
LEMMA TypesGoOn ==
    ASSUME Types, UNCHANGED main_vars, queue' \in Seq(Tasks), session' \in Sessions,
           job' \in Jobs \cup {Idle}, served' \in Nat, alive' \subseteq Nat,
           ending' \in BOOLEAN, reports' \in Nat, faults' \in Nat, events' \in Nat
    PROVE  Types'
    BY DEF Types, main_vars, system_vars, start_vars

\* A step that leaves the session alone: the tasks it takes are no revocation, no
\* stop that counts and no retry that is wanted, and the start it goes on with was
\* neither overtaken by a stop nor by the end of the service.
LEMMA LeftAlone ==
    ASSUME AndroidInv, UNCHANGED main_vars, UNCHANGED <<session, alive, reports, events>>,
           queue' \in Seq(Tasks), Waiting' \subseteq Waiting,
           job' \in Jobs \cup {Idle}, served' \in Nat, served' <= latest,
           ending' \in BOOLEAN, faults' \in Nat,
           \A t \in Waiting : \/ t \in Waiting'
                              \/ /\ t.kind \notin {"revoked", "destroy"}
                                 /\ t.kind = "retry" => ~MayRetry(t)
                                 /\ t.kind = "stop" => ~Current(t),
           job'.step \notin {"established", "failed"},
           job'.step = "prepared" /\ job'.epoch = epoch => permitted,
           job' # Idle => /\ job'.epoch <= epoch
                          /\ ~Clean \/ (~destroyed /\ latestKind # "stop")
    PROVE  AndroidInv'
<1>1. Types'
    BY TypesGoOn DEF AndroidInv, Types
<1>2. StartsInOrder'
    BY StartsGoOn DEF AndroidInv
<1>3. CoreRight'
    BY DEF AndroidInv, CoreRight
<1>4. JobRight'
    BY DEF AndroidInv, JobRight, main_vars, system_vars
<1>5. BlockedRight'
    <2> DEFINE now == [seq |-> session.retrySeq, epoch |-> epoch]
    <2>1. UNCHANGED <<session, epoch, destroyed>>
        BY DEF main_vars
    <2>2. ASSUME session.blocked, session.client = 0, ~destroyed,
                 NEW t \in Waiting, t.kind = "retry", t.timer = now
          PROVE  t \in Waiting'
        BY <2>2 DEF AndroidInv, BlockedRight, MayRetry
    <2>3. WaitsFor("revoked") => WaitsFor("revoked")'
        BY DEF WaitsFor
    <2> QED  BY <2>1, <2>2, <2>3 DEF AndroidInv, BlockedRight
<1>6. StateRight'
    <2>1. WaitsFor("revoked") => WaitsFor("revoked")'
        BY DEF WaitsFor
    <2> QED  BY <2>1 DEF AndroidInv, StateRight, main_vars
<1>7. StopsRight'
    <2>1. /\ WaitsFor("revoked") => WaitsFor("revoked")'
          /\ WaitsFor("destroy") <=> WaitsFor("destroy")'
        BY DEF WaitsFor
    <2>2. Clean => Clean' \/ (~destroyed /\ latestKind # "stop")
        BY DEF Clean
    <2>3. ASSUME NEW t \in Waiting, t.kind = "stop", t.id = latest, t.epoch = epoch, ~destroyed
          PROVE  t \in Waiting'
        BY <2>3 DEF Current
    <2>4. UNCHANGED <<latest, latestKind, epoch, destroyed, permitted, session>>
        BY DEF main_vars, system_vars, start_vars
    <2> QED  BY <2>1, <2>2, <2>3, <2>4 DEF AndroidInv, StopsRight
<1> QED  BY <1>1, <1>2, <1>3, <1>4, <1>5, <1>6, <1>7 DEF AndroidInv

\* What waits are tasks.
LEMMA TasksWait ==
    ASSUME queue \in Seq(Tasks)
    PROVE  Waiting \subseteq Tasks
    BY DEF Waiting, ToSet

\* What the cores said so far no longer counts, once there is a new generation.
LEMMA TokensStay ==
    ASSUME queue \in Seq(Tasks), CoreRight, Waiting' \subseteq Waiting,
           session'.generation = session.generation + 1, session \in Sessions
    PROVE  \A t \in Waiting' : t.kind = "state" =>
               t.token > 0 /\ t.token <= session'.generation
               /\ t.token # session'.generation
<1>1. session.generation \in Nat
    BY DEF Sessions
<1>2. \A t \in Waiting : t.kind = "state" => t.token > 0 /\ t.token <= session.generation
    BY DEF CoreRight
<1>3. \A t \in Waiting : t.kind = "state" => t.token \in Nat
    BY TasksWait, TaskKinds DEF StateTasks
<1>4. ASSUME NEW t \in Waiting', t.kind = "state"
      PROVE  t.token > 0 /\ t.token <= session.generation + 1
             /\ t.token # session.generation + 1
    <2>1. t.token \in Nat /\ t.token > 0 /\ t.token <= session.generation
        BY <1>2, <1>3, <1>4
    <2> QED  BY <1>1, <2>1
<1> QED  BY <1>4

\* Closing everything, with nothing left to go on with.
LEMMA CloseKeeps ==
    ASSUME AndroidInv, UNCHANGED main_vars, UNCHANGED <<reports, faults, events>>,
           queue' \in Seq(Tasks), Waiting' \subseteq Waiting,
           job = Idle, job' = Idle, served' \in Nat, served' <= latest, ending' \in BOOLEAN,
           session' \in Sessions, session'.client = 0, session'.tun = NoTun,
           session'.timer = NoTimer, session'.source = NoSource, ~session'.blocked,
           session'.state = 0, session'.generation = session.generation + 1,
           alive' = alive \ {session.client}
    PROVE  AndroidInv' /\ Clean'
<1>1. alive' = {} /\ session \in Sessions
    BY DEF AndroidInv, CoreRight, Types
<1>2. Clean'
    BY <1>1 DEF Clean
<1>3. Types'
    BY TypesGoOn, <1>1 DEF AndroidInv, Types
<1>4. StartsInOrder'
    BY StartsGoOn DEF AndroidInv
<1>5. CoreRight'
    BY TokensStay, <1>1 DEF AndroidInv, CoreRight, Types
<1>6. JobRight'
    BY DEF JobRight, Idle
<1>7. BlockedRight' /\ StateRight'
    BY DEF BlockedRight, StateRight
<1>8. StopsRight'
    <2>1. WaitsFor("destroy")' => WaitsFor("destroy")
        BY DEF WaitsFor
    <2> QED  BY <1>2, <2>1 DEF AndroidInv, StopsRight, main_vars
<1> QED  BY <1>2, <1>3, <1>4, <1>5, <1>6, <1>7, <1>8 DEF AndroidInv

\* fail() of a start or of a core: the tasks it takes, if any, are the core's report
\* or the retry.
LEMMA FailKeeps ==
    ASSUME AndroidInv, UNCHANGED main_vars, UNCHANGED <<reports, events>>,
           queue' \in Seq(Tasks), Waiting' \subseteq Waiting,
           \A t \in Waiting : t.kind \notin {"state", "retry"} => t \in Waiting',
           job' = Idle, served' = served, faults' \in Nat, ~destroyed, ~Clean,
           NEW s \in Sessions, FailWith(s),
           s.tun = session.tun, s.keepBlocked = session.keepBlocked,
           s.generation = session.generation, s.blocked = session.blocked,
           s.state = session.state
    PROVE  AndroidInv'
<1>1. Types /\ session \in Sessions /\ epoch \in Nat /\ queue \in Seq(Tasks)
    BY DEF AndroidInv, Types
<1>2. /\ session' \in Sessions
      /\ session'.client = 0 /\ session'.generation = session.generation + 1
      /\ alive' = alive \ {session.client}
      /\ \/ /\ KeepsTun /\ session'.tun = session.tun
            /\ session'.blocked /\ session'.keepBlocked
            /\ session'.timer = [seq |-> session'.retrySeq, epoch |-> epoch]
            /\ session'.state = IF session.blocked THEN session.state ELSE 6
            /\ ending' = ending
         \/ /\ ~KeepsTun /\ session'.tun = NoTun
            /\ ~session'.blocked /\ session'.state = 0
            /\ session'.source = NoSource /\ session'.timer = NoTimer
            /\ ending' = (ending \/ served = asked)
    BY <1>1, FailIs
<1>3. alive' = {}
    BY <1>2 DEF AndroidInv, CoreRight
<1>4. Types'
    <2>1. ending' \in BOOLEAN
        BY <1>1, <1>2 DEF Types
    <2> QED  BY <1>1, <1>2, <1>3, <2>1, TypesGoOn DEF Types
<1>5. StartsInOrder'
    BY StartsGoOn DEF AndroidInv, StartsInOrder
<1>6. CoreRight'
    BY TokensStay, <1>1, <1>2, <1>3 DEF AndroidInv, CoreRight
<1>7. JobRight'
    BY DEF JobRight, Idle
<1>8. BlockedRight'
    BY <1>2 DEF BlockedRight, KeepsTun, main_vars
<1>9. WaitsFor("revoked") => WaitsFor("revoked")'
    BY DEF WaitsFor
<1>10. StateRight'
    <2>1. session'.tun = NoTun => session'.state = 0
        BY <1>2 DEF KeepsTun
    <2> QED  BY <1>2, <1>9, <2>1 DEF AndroidInv, StateRight, main_vars
<1>11. StopsRight'
    <2>1. UNCHANGED <<latest, latestKind, epoch, destroyed, permitted>>
        BY DEF main_vars, system_vars, start_vars
    <2>2. WaitsFor("destroy") <=> WaitsFor("destroy")'
        BY DEF WaitsFor
    <2>3. session'.tun # NoTun => session.tun # NoTun
        BY <1>2
    <2> QED  BY <1>9, <2>1, <2>2, <2>3 DEF AndroidInv, StopsRight
<1> QED  BY <1>4, <1>5, <1>6, <1>7, <1>8, <1>10, <1>11 DEF AndroidInv

(***************************************************************************)
(* The worker takes a task.                                                *)
(***************************************************************************)

LEMMA DropsTaskKeeps ==
    ASSUME AndroidAssumption, AndroidInv, DropsTask
    PROVE  AndroidInv'
<1> DEFINE h == Head(queue)
<1>1. queue \in Seq(Tasks) /\ faults \in Nat /\ served \in Nat /\ ending \in BOOLEAN
      /\ served <= latest
    BY DEF AndroidInv, Types, StartsInOrder
<1>2. Takes(Kinds \cup {"state", "retry"}) /\ UNCHANGED <<session, worker_vars, faults>>
      /\ CASE h.kind = "state" -> ~OwnCore(h)
           [] h.kind = "retry" -> ~MayRetry(h)
           [] OTHER -> ~Current(h)
    BY DEF DropsTask
<1>3. /\ queue' \in Seq(Tasks) /\ h \in Tasks /\ h \in Waiting
      /\ h.kind \in Kinds \cup {"state", "retry"}
      /\ Waiting' \subseteq Waiting /\ Waiting \subseteq Waiting' \cup {h}
      /\ job = Idle /\ UNCHANGED <<main_vars, reports, events>>
    BY <1>1, <1>2, Taken
<1>4. h.kind \notin {"revoked", "destroy"}
    BY <1>3 DEF AndroidAssumption
<1>5. h.kind = "retry" => ~MayRetry(h)
    BY <1>2
<1>6. h.kind = "stop" => ~Current(h)
    BY <1>2
<1> HIDE DEF h
<1>7. \A t \in Waiting : \/ t \in Waiting'
                         \/ /\ t.kind \notin {"revoked", "destroy"}
                            /\ t.kind = "retry" => ~MayRetry(t)
                            /\ t.kind = "stop" => ~Current(t)
    BY <1>3, <1>4, <1>5, <1>6
<1>8. UNCHANGED <<session, alive, job, served, ending, faults>>
    BY <1>2 DEF worker_vars
<1> QED  BY <1>1, <1>3, <1>7, <1>8, LeftAlone DEF Idle

\* A start is served when it is the last one that was delivered.
LEMMA CurrentStart ==
    ASSUME AndroidInv, NEW t \in Waiting, t.kind \in StartKinds, Current(t)
    PROVE  t \in StartTasks /\ t.id \in Nat /\ t.id = latest /\ t.kind = latestKind
           /\ ~destroyed
    BY TasksWait, TaskKinds DEF AndroidInv, Types, StartsInOrder, Current, StartTasks

LEMMA StopKeeps ==
    ASSUME AndroidAssumption, AndroidInv, Stop
    PROVE  AndroidInv' /\ Clean'
<1> DEFINE h == Head(queue)
<1>1. queue \in Seq(Tasks) /\ ending \in BOOLEAN /\ session \in Sessions
      /\ reports \in Nat /\ faults \in Nat /\ events \in Nat /\ latest \in Nat
    BY DEF AndroidInv, Types
<1>2. Takes({"stop"}) /\ Current(h) /\ served' = h.id /\ Close /\ StopSelf(h.id)
      /\ UNCHANGED <<job, faults>>
    BY DEF Stop
<1>3. /\ queue' \in Seq(Tasks) /\ h \in Waiting /\ h.kind = "stop"
      /\ Waiting' \subseteq Waiting
      /\ job = Idle /\ UNCHANGED <<main_vars, reports, events>>
    BY <1>1, <1>2, Taken
<1>4. h.id = latest /\ ~destroyed
    BY <1>2, <1>3, CurrentStart DEF StartKinds
<1> HIDE DEF h
<1>5. ending' \in BOOLEAN
    BY <1>1, <1>2 DEF StopSelf
<1>6. session' = Published(Closed(session), 0) /\ alive' = alive \ {session.client}
    BY <1>2 DEF Close, StopsCore
<1>7. Closed(session) \in Sessions /\ 0 \in 0..6
    BY <1>1, ClosedIs
<1>8. session' \in Sessions /\ session' = [Closed(session) EXCEPT !.state = 0]
    BY <1>4, <1>6, <1>7, PublishedIs
<1>9. /\ session'.client = 0 /\ session'.tun = NoTun
      /\ session'.timer = NoTimer /\ session'.source = NoSource /\ ~session'.blocked
      /\ session'.state = 0 /\ session'.generation = session.generation + 1
    BY <1>1, <1>7, <1>8, ClosedIs DEF Sessions
<1> QED  BY <1>1, <1>2, <1>3, <1>4, <1>5, <1>6, <1>8, <1>9, CloseKeeps

LEMMA RevokedKeeps ==
    ASSUME AndroidInv, Revoked
    PROVE  AndroidInv' /\ Clean'
<1>1. queue \in Seq(Tasks) /\ ending \in BOOLEAN /\ session \in Sessions /\ destroyed \in BOOLEAN
      /\ reports \in Nat /\ faults \in Nat /\ events \in Nat /\ served \in Nat
      /\ served <= latest
    BY DEF AndroidInv, Types, StartsInOrder
<1>2. Takes({"revoked"}) /\ Close /\ StopSelf(Head(queue).id)
      /\ UNCHANGED <<job, served, faults>>
    BY DEF Revoked
<1>3. /\ queue' \in Seq(Tasks) /\ Waiting' \subseteq Waiting
      /\ job = Idle /\ UNCHANGED <<main_vars, reports, events>>
    BY <1>1, <1>2, Taken
<1>4. ending' \in BOOLEAN
    BY <1>1, <1>2 DEF StopSelf
<1>5. session' = Published(Closed(session), 0) /\ alive' = alive \ {session.client}
    BY <1>2 DEF Close, StopsCore
<1>6. Closed(session) \in Sessions /\ 0 \in 0..6
    BY <1>1, ClosedIs
<1>7. session' \in Sessions
      /\ session' = [Closed(session) EXCEPT !.state = IF destroyed THEN Closed(session).state ELSE 0]
    BY <1>5, <1>6, PublishedIs
<1>8. destroyed => Closed(session).state = 0
    BY <1>1, ClosedIs DEF AndroidInv, StateRight
<1>9. /\ session'.client = 0 /\ session'.tun = NoTun
      /\ session'.timer = NoTimer /\ session'.source = NoSource /\ ~session'.blocked
      /\ session'.state = 0 /\ session'.generation = session.generation + 1
    BY <1>1, <1>6, <1>7, <1>8, ClosedIs DEF Sessions
<1> QED  BY <1>1, <1>2, <1>3, <1>4, <1>5, <1>7, <1>9, CloseKeeps

LEMMA DestroyedKeeps ==
    ASSUME AndroidInv, Destroyed
    PROVE  AndroidInv' /\ Clean'
<1>1. queue \in Seq(Tasks) /\ ending \in BOOLEAN /\ session \in Sessions
      /\ reports \in Nat /\ faults \in Nat /\ events \in Nat /\ served \in Nat
      /\ served <= latest
    BY DEF AndroidInv, Types, StartsInOrder
<1>2. Takes({"destroy"}) /\ session' = Closed(session) /\ alive' = alive \ {session.client}
      /\ UNCHANGED <<ending, job, served, faults>>
    BY DEF Destroyed, StopsCore
<1>3. /\ queue' \in Seq(Tasks) /\ Waiting' \subseteq Waiting
      /\ Head(queue) \in Waiting /\ Head(queue).kind = "destroy"
      /\ job = Idle /\ UNCHANGED <<main_vars, reports, events>>
    BY <1>1, <1>2, Taken
<1>4. session.state = 0
    BY <1>3 DEF AndroidInv, StopsRight, WaitsFor, StateRight
<1>5. /\ session' \in Sessions /\ session'.client = 0 /\ session'.tun = NoTun
      /\ session'.timer = NoTimer /\ session'.source = NoSource /\ ~session'.blocked
      /\ session'.state = 0 /\ session'.generation = session.generation + 1
    BY <1>1, <1>2, <1>4, ClosedIs
<1> QED  BY <1>1, <1>2, <1>3, <1>5, CloseKeeps

LEMMA IgnoresKeeps ==
    ASSUME AndroidInv, Ignores
    PROVE  AndroidInv'
<1> DEFINE h == Head(queue)
<1>1. queue \in Seq(Tasks) /\ faults \in Nat /\ ending \in BOOLEAN
    BY DEF AndroidInv, Types
<1>2. Takes({"always_on"}) /\ Current(h) /\ served' = h.id
      /\ UNCHANGED <<ending, job, session, alive, faults>>
    BY DEF Ignores
<1>3. /\ queue' \in Seq(Tasks) /\ h \in Waiting /\ h.kind = "always_on"
      /\ Waiting' \subseteq Waiting /\ Waiting \subseteq Waiting' \cup {h}
      /\ job = Idle /\ UNCHANGED <<main_vars, reports, events>>
    BY <1>1, <1>2, Taken
<1> HIDE DEF h
<1>4. h.id \in Nat /\ h.id = latest
    BY <1>2, <1>3, CurrentStart DEF StartKinds
<1>5. served' \in Nat /\ served' <= latest
    BY <1>2, <1>4
<1>6. \A t \in Waiting : t \in Waiting' \/ t.kind = "always_on"
    BY <1>3
<1> QED  BY <1>1, <1>2, <1>3, <1>5, <1>6, LeftAlone DEF Idle

\* What a start runs is a config and a profile, and so is the plan that is built again.
LEMMA JobIs ==
    ASSUME Types, NEW geo \in BOOLEAN, NEW source \in [of : Configs, by : {"user", "plan"}],
           NEW profile \in Configs
    PROVE  /\ Preparing(geo, source, profile) \in Jobs
           /\ Preparing(geo, source, profile).step = "preparing"
           /\ Preparing(geo, source, profile).epoch = epoch
    BY DEF Preparing, Jobs, Types

LEMMA BeginsKeeps ==
    ASSUME AndroidInv, Begins
    PROVE  AndroidInv'
<1> DEFINE h == Head(queue)
<1>1. queue \in Seq(Tasks) /\ faults \in Nat /\ ending \in BOOLEAN /\ session \in Sessions
      /\ selected \in Configs /\ epoch \in Nat
    BY DEF AndroidInv, Types
<1>2. Takes({"start", "reconnect", "always_on"}) /\ Current(h) /\ served' = h.id
      /\ job' = Preparing(FALSE, SourceOf(h), ProfileOf(h))
      /\ UNCHANGED <<ending, session, alive, faults>>
    BY DEF Begins
<1>3. /\ queue' \in Seq(Tasks) /\ h \in Waiting
      /\ h.kind \in {"start", "reconnect", "always_on"}
      /\ Waiting' \subseteq Waiting /\ Waiting \subseteq Waiting' \cup {h}
      /\ job = Idle /\ UNCHANGED <<main_vars, reports, events>>
    BY <1>1, <1>2, Taken
<1> HIDE DEF h
<1>4. h \in StartTasks /\ h.id \in Nat /\ h.id = latest /\ h.kind = latestKind /\ ~destroyed
    BY <1>2, <1>3, CurrentStart DEF StartKinds
<1>5. SourceOf(h) \in [of : Configs, by : {"user", "plan"}] /\ ProfileOf(h) \in Configs
    <2>1. h.config \in Configs \cup {None}
        BY <1>4 DEF StartTasks
    <2>2. \A c \in Configs : [of |-> c, by |-> "user"] \in [of : Configs, by : {"user", "plan"}]
        OBVIOUS
    <2>3. session.source \in Sources /\ session.profile \in Configs \cup {None}
        BY <1>1 DEF Sessions
    <2> QED  BY <1>1, <2>1, <2>2, <2>3 DEF SourceOf, ProfileOf, Sources
<1>6. job' \in Jobs /\ job'.step = "preparing" /\ job'.epoch = epoch
    BY <1>2, <1>5, JobIs DEF AndroidInv
<1>7. served' \in Nat /\ served' <= latest
    BY <1>2, <1>4
<1>8. \A t \in Waiting : t \in Waiting' \/ t.kind \in {"start", "reconnect", "always_on"}
    BY <1>3
<1>9. job' \in Jobs \cup {Idle} /\ job'.epoch <= epoch /\ latestKind # "stop"
    BY <1>1, <1>3, <1>4, <1>6
<1> QED  BY <1>1, <1>2, <1>3, <1>4, <1>6, <1>7, <1>8, <1>9, LeftAlone

LEMMA GeoChangedKeeps ==
    ASSUME AndroidInv, GeoChanged
    PROVE  AndroidInv'
<1> DEFINE again == /\ session.source # NoSource /\ session.profile # None /\ ~destroyed
                    /\ latest = served /\ session.state # 0
<1>1. queue \in Seq(Tasks) /\ faults \in Nat /\ ending \in BOOLEAN /\ session \in Sessions
      /\ epoch \in Nat /\ served \in Nat /\ served <= latest
    BY DEF AndroidInv, Types, StartsInOrder
<1>2. /\ Takes({"geo"}) /\ UNCHANGED <<ending, served, session, alive, faults>>
      /\ again => job' = Preparing(TRUE, session.source, session.profile)
      /\ ~again => job' = job
    BY DEF GeoChanged
<1>3. /\ queue' \in Seq(Tasks) /\ Head(queue).kind = "geo"
      /\ Waiting' \subseteq Waiting /\ Waiting \subseteq Waiting' \cup {Head(queue)}
      /\ job = Idle /\ UNCHANGED <<main_vars, reports, events>>
    BY <1>1, <1>2, Taken
<1>4. \A t \in Waiting : t \in Waiting' \/ t.kind = "geo"
    BY <1>3
<1>5. CASE again
    <2>1. session.source \in [of : Configs, by : {"user", "plan"}] /\ session.profile \in Configs
        BY <1>1, <1>5 DEF Sessions, Sources
    <2>2. job' \in Jobs /\ job'.step = "preparing" /\ job'.epoch = epoch
        <3>1. /\ Preparing(TRUE, session.source, session.profile) \in Jobs
              /\ Preparing(TRUE, session.source, session.profile).step = "preparing"
              /\ Preparing(TRUE, session.source, session.profile).epoch = epoch
            BY <2>1, JobIs DEF AndroidInv
        <3>2. job' = Preparing(TRUE, session.source, session.profile)
            BY <1>2, <1>5
        <3> QED  BY <3>1, <3>2, Zenon
    <2>3. job' \in Jobs \cup {Idle} /\ job'.epoch <= epoch /\ ~Clean
        BY <1>1, <1>5, <2>2 DEF Clean
    <2>4. UNCHANGED <<ending, served, session, alive, faults>>
        BY <1>2
    <2> HIDE DEF again
    <2> QED  BY <1>1, <1>3, <1>4, <2>2, <2>3, <2>4, LeftAlone
<1>6. CASE ~again
    <2>1. job' = Idle /\ UNCHANGED <<ending, served, session, alive, faults>>
        BY <1>2, <1>3, <1>6
    <2> QED  BY <1>1, <1>3, <1>4, <2>1, LeftAlone DEF Idle
<1> QED  BY <1>5, <1>6

\* A step that gives up nothing: what must still come to stop or to revoke comes.
LEMMA StopsGoOn ==
    ASSUME AndroidInv, ~Clean, UNCHANGED main_vars, Waiting' \subseteq Waiting,
           \A t \in Waiting : t.kind \in {"revoked", "destroy", "stop"} => t \in Waiting',
           session'.tun # NoTun => session.tun # NoTun \/ permitted
    PROVE  StopsRight' /\ (WaitsFor("revoked") => WaitsFor("revoked")')
<1>1. WaitsFor("revoked") => WaitsFor("revoked")'
    BY DEF WaitsFor
<1>2. WaitsFor("destroy") <=> WaitsFor("destroy")'
    BY DEF WaitsFor
<1>3. UNCHANGED <<latest, latestKind, epoch, destroyed, permitted>>
    BY DEF main_vars, system_vars, start_vars
<1> QED  BY <1>1, <1>2, <1>3 DEF AndroidInv, StopsRight

LEMMA NetworkAvailableKeeps ==
    ASSUME AndroidInv, NetworkAvailable
    PROVE  AndroidInv'
<1> DEFINE wanted == ~destroyed /\ session.blocked /\ session.client = 0
<1>1. Types /\ queue \in Seq(Tasks) /\ faults \in Nat /\ ending \in BOOLEAN
      /\ session \in Sessions /\ epoch \in Nat /\ served \in Nat /\ served <= latest
    BY DEF AndroidInv, Types, StartsInOrder
<1>2. Takes({"network"}) /\ session' = (IF wanted THEN Scheduled(session) ELSE session)
      /\ UNCHANGED <<ending, job, served, alive, faults>>
    BY DEF NetworkAvailable
<1>3. /\ queue' \in Seq(Tasks) /\ Head(queue).kind = "network"
      /\ Waiting' \subseteq Waiting /\ Waiting \subseteq Waiting' \cup {Head(queue)}
      /\ job = Idle /\ UNCHANGED <<main_vars, reports, events>>
    BY <1>1, <1>2, Taken
<1>4. \A t \in Waiting : t \in Waiting' \/ t.kind = "network"
    BY <1>3
<1>5. CASE wanted
    <2>1. /\ session' \in Sessions
          /\ session' = [session EXCEPT !.retrySeq = session.retrySeq + 1,
                  !.timer = [seq |-> session.retrySeq + 1, epoch |-> epoch]]
        BY <1>1, <1>2, <1>5, ScheduledIs
    <2>2. /\ session'.timer = [seq |-> session'.retrySeq, epoch |-> epoch]
          /\ session'.client = session.client /\ session'.tun = session.tun
          /\ session'.generation = session.generation /\ session'.blocked = session.blocked
          /\ session'.keepBlocked = session.keepBlocked /\ session'.state = session.state
        BY <1>1, <2>1 DEF Sessions
    <2>3. ~Clean
        BY <1>5 DEF AndroidInv, BlockedRight, Clean
    <2>4. StopsRight' /\ (WaitsFor("revoked") => WaitsFor("revoked")')
        BY <1>3, <1>4, <2>2, <2>3, StopsGoOn
    <2>5. Types'
        BY <1>1, <1>2, <1>3, <2>1, TypesGoOn DEF Types
    <2>6. StartsInOrder'
        BY <1>1, <1>2, <1>3, StartsGoOn DEF AndroidInv
    <2>7. CoreRight'
        BY <1>2, <1>3, <2>2 DEF AndroidInv, CoreRight
    <2>8. JobRight'
        BY <1>2, <1>3 DEF JobRight, Idle
    <2>9. BlockedRight'
        BY <1>3, <2>2 DEF AndroidInv, BlockedRight, main_vars
    <2>10. StateRight'
        BY <1>3, <2>2, <2>4 DEF AndroidInv, StateRight, main_vars
    <2> QED  BY <2>4, <2>5, <2>6, <2>7, <2>8, <2>9, <2>10 DEF AndroidInv
<1>6. CASE ~wanted
    <2>1. session' = session
        BY <1>2, <1>6
    <2> HIDE DEF wanted
    <2> QED  BY <1>1, <1>2, <1>3, <1>4, <2>1, LeftAlone DEF Idle
<1> QED  BY <1>5, <1>6

\* A report that counts is one of the core that is on the TUN.
LEMMA OwnCoreIs ==
    ASSUME AndroidInv, NEW t \in Waiting, t.kind = "state", OwnCore(t)
    PROVE  /\ ~destroyed /\ session.client = session.generation /\ session.client # 0
           /\ session.tun # NoTun /\ t.state \in {0, 2, 3}
<1>1. t \in StateTasks
    BY TasksWait, TaskKinds DEF AndroidInv, Types
<1>2. t.token > 0 /\ (t.token = session.generation => session.client = session.generation)
    BY DEF AndroidInv, CoreRight
<1> QED  BY <1>1, <1>2 DEF AndroidInv, CoreRight, OwnCore, StateTasks

LEMMA CoreLostKeeps ==
    ASSUME AndroidInv, CoreLost
    PROVE  AndroidInv'
<1> DEFINE h == Head(queue)
<1>1. queue \in Seq(Tasks) /\ faults \in Nat /\ session \in Sessions
    BY DEF AndroidInv, Types
<1>2. Takes({"state"}) /\ OwnCore(h) /\ FailWith(session) /\ UNCHANGED <<job, served, faults>>
    BY DEF CoreLost, Fail
<1>3. /\ queue' \in Seq(Tasks) /\ h \in Waiting /\ h.kind = "state"
      /\ Waiting' \subseteq Waiting /\ Waiting \subseteq Waiting' \cup {h}
      /\ job = Idle /\ UNCHANGED <<main_vars, reports, events>>
    BY <1>1, <1>2, Taken
<1> HIDE DEF h
<1>4. ~destroyed /\ session.tun # NoTun
    BY <1>2, <1>3, OwnCoreIs
<1>5. ~Clean
    BY <1>4 DEF Clean
<1>6. \A t \in Waiting : t.kind \notin {"state", "retry"} => t \in Waiting'
    BY <1>3
<1> QED  BY <1>1, <1>2, <1>3, <1>4, <1>5, <1>6, FailKeeps

LEMMA RetryFailsKeeps ==
    ASSUME AndroidInv, RetryFails
    PROVE  AndroidInv'
<1> DEFINE h == Head(queue)
<1>1. queue \in Seq(Tasks) /\ faults \in Nat /\ session \in Sessions
    BY DEF AndroidInv, Types
<1>2. Takes({"retry"}) /\ MayRetry(h) /\ FailWith(session) /\ faults' = faults + 1
      /\ UNCHANGED <<job, served>>
    BY DEF RetryFails, Fail
<1>3. /\ queue' \in Seq(Tasks) /\ h \in Waiting /\ h.kind = "retry"
      /\ Waiting' \subseteq Waiting /\ Waiting \subseteq Waiting' \cup {h}
      /\ job = Idle /\ UNCHANGED <<main_vars, reports, events>>
    BY <1>1, <1>2, Taken
<1> HIDE DEF h
<1>4. ~destroyed /\ ~Clean
    BY <1>2 DEF MayRetry, Clean
<1>5. \A t \in Waiting : t.kind \notin {"state", "retry"} => t \in Waiting'
    BY <1>3
<1>6. faults' \in Nat
    BY <1>1, <1>2
<1> QED  BY <1>1, <1>2, <1>3, <1>4, <1>5, <1>6, FailKeeps

LEMMA CoreSaysKeeps ==
    ASSUME AndroidInv, CoreSays
    PROVE  AndroidInv'
<1> DEFINE h == Head(queue)
           n == h.state
           said == [session EXCEPT !.blocked = session.blocked /\ n # 2]
<1>1. Types /\ queue \in Seq(Tasks) /\ faults \in Nat /\ ending \in BOOLEAN
      /\ session \in Sessions /\ served \in Nat /\ served <= latest
    BY DEF AndroidInv, Types, StartsInOrder
<1>2. Takes({"state"}) /\ OwnCore(h) /\ n # 0
      /\ session' = (IF session.blocked /\ n # 2 THEN session ELSE Published(said, n))
      /\ UNCHANGED <<ending, job, served, alive, faults>>
    BY DEF CoreSays
<1>3. /\ queue' \in Seq(Tasks) /\ h \in Waiting /\ h.kind = "state"
      /\ Waiting' \subseteq Waiting /\ Waiting \subseteq Waiting' \cup {h}
      /\ job = Idle /\ UNCHANGED <<main_vars, reports, events>>
    BY <1>1, <1>2, Taken
<1>4. \A t \in Waiting : t \in Waiting' \/ t.kind = "state"
    BY <1>3
<1>5. ~destroyed /\ session.client # 0 /\ session.tun # NoTun /\ n \in {2, 3}
    BY <1>2, <1>3, OwnCoreIs
<1>6. CASE session.blocked /\ n # 2
    <2>1. session' = session
        BY <1>2, <1>6
    <2> QED  BY <1>1, <1>2, <1>3, <1>4, <2>1, LeftAlone DEF Idle
<1>7. CASE ~(session.blocked /\ n # 2)
    <2> HIDE DEF n, h
    <2>1. (session.blocked /\ n # 2) = FALSE
        BY <1>7
    <2>2. said = [session EXCEPT !.blocked = FALSE]
        BY <2>1
    <2>3. said \in Sessions /\ said.client = session.client /\ said.tun = session.tun
          /\ said.generation = session.generation /\ said.blocked = FALSE
          /\ said.keepBlocked = session.keepBlocked /\ n \in 0..6
        <3>1. n \in 0..6 /\ FALSE \in BOOLEAN
            BY <1>5
        <3> HIDE DEF said
        <3> QED  BY <1>1, <2>2, <3>1 DEF Sessions
    <2> HIDE DEF said
    <2>4. session' = [said EXCEPT !.state = n]
        BY <1>2, <1>5, <1>7 DEF Published
    <2>5. /\ session' \in Sessions /\ session'.client = session.client
          /\ session'.tun = session.tun /\ session'.generation = session.generation
          /\ ~session'.blocked /\ session'.state = n
        BY <2>3, <2>4 DEF Sessions
    <2>6. StopsRight' /\ (WaitsFor("revoked") => WaitsFor("revoked")')
        BY <1>3, <1>4, <1>5, <2>5, StopsGoOn DEF Clean
    <2>7. Types'
        BY <1>1, <1>2, <1>3, <2>5, TypesGoOn DEF Types
    <2>8. StartsInOrder'
        BY <1>1, <1>2, <1>3, StartsGoOn DEF AndroidInv
    <2>9. CoreRight'
        BY <1>2, <1>3, <2>5 DEF AndroidInv, CoreRight
    <2>10. JobRight'
        BY <1>2, <1>3 DEF JobRight, Idle
    <2>11. BlockedRight'
        BY <2>5 DEF BlockedRight
    <2>12. StateRight'
        BY <1>3, <1>5, <2>5 DEF StateRight, main_vars
    <2> QED  BY <2>6, <2>7, <2>8, <2>9, <2>10, <2>11, <2>12 DEF AndroidInv
<1> QED  BY <1>6, <1>7

LEMMA RetryBlockedKeeps ==
    ASSUME AndroidInv, RetryBlocked
    PROVE  AndroidInv'
<1> DEFINE h == Head(queue)
<1>1. Types /\ queue \in Seq(Tasks) /\ faults \in Nat /\ ending \in BOOLEAN
      /\ session \in Sessions /\ served \in Nat /\ served <= latest
    BY DEF AndroidInv, Types, StartsInOrder
<1>2. Takes({"retry"}) /\ MayRetry(h) /\ session' = Candidate(session)
      /\ alive' = alive \cup {session.generation + 1}
      /\ UNCHANGED <<ending, job, served, faults>>
    BY DEF RetryBlocked, CoreStarts
<1>3. /\ queue' \in Seq(Tasks) /\ h \in Waiting /\ h.kind = "retry"
      /\ Waiting' \subseteq Waiting /\ Waiting \subseteq Waiting' \cup {h}
      /\ job = Idle /\ UNCHANGED <<main_vars, reports, events>>
    BY <1>1, <1>2, Taken
<1> HIDE DEF h
<1>4. ~destroyed /\ session.blocked /\ session.client = 0 /\ session.tun # NoTun /\ ~Clean
    BY <1>2 DEF MayRetry, Clean
<1>5. \A t \in Waiting : t \in Waiting' \/ t.kind = "retry"
    BY <1>3
<1>6. session.generation + 1 \in Nat \ {0}
    BY <1>1 DEF Sessions
<1>7. /\ session' \in Sessions
      /\ session'.client = session.generation + 1
      /\ session'.generation = session.generation + 1
      /\ session'.tun = session.tun /\ session'.keepBlocked = session.keepBlocked
      /\ session'.blocked = session.blocked /\ session'.state = session.state
    BY <1>1, <1>2, <1>4, CandidateIs
<1>8. alive' = {session.generation + 1}
    BY <1>2, <1>4 DEF AndroidInv, CoreRight
<1>9. StopsRight' /\ (WaitsFor("revoked") => WaitsFor("revoked")')
    BY <1>3, <1>4, <1>5, <1>7, StopsGoOn
<1>10. Types'
    BY <1>1, <1>2, <1>3, <1>6, <1>7, <1>8, TypesGoOn DEF Types
<1>11. StartsInOrder'
    BY <1>1, <1>2, <1>3, StartsGoOn DEF AndroidInv
<1>12. CoreRight'
    BY <1>1, <1>3, <1>4, <1>6, <1>7, <1>8, TokensStay DEF AndroidInv, CoreRight
<1>13. JobRight'
    BY <1>2, <1>3 DEF JobRight, Idle
<1>14. BlockedRight'
    BY <1>4, <1>6, <1>7 DEF AndroidInv, BlockedRight
<1>15. StateRight'
    BY <1>3, <1>4, <1>7, <1>9 DEF AndroidInv, StateRight, main_vars
<1> QED  BY <1>9, <1>10, <1>11, <1>12, <1>13, <1>14, <1>15 DEF AndroidInv

(***************************************************************************)
(* The worker goes on with a start.                                        *)
(***************************************************************************)

\* What a start in the middle of its work is.
LEMMA InJobIs ==
    ASSUME AndroidInv, NEW step \in {"preparing", "prepared", "established", "failed"},
           InJob(step)
    PROVE  /\ job \in Jobs /\ job # Idle /\ job.step = step /\ job.epoch <= epoch /\ ~Clean
           /\ UNCHANGED <<main_vars, queue, served, reports, events>>
           /\ queue' \in Seq(Tasks) /\ Waiting' = Waiting
           /\ served' \in Nat /\ served' <= latest
<1>1. job \in Jobs /\ job # Idle
    BY DEF InJob, Idle, AndroidInv, Types
<1> QED  BY <1>1 DEF InJob, AndroidInv, Types, StartsInOrder, Waiting, Clean

LEMMA PreparedKeeps ==
    ASSUME AndroidInv, Prepared
    PROVE  AndroidInv'
<1>1. InJob("preparing") /\ permitted /\ job' = [job EXCEPT !.step = "prepared"]
      /\ UNCHANGED <<ending, session, alive, faults>>
    BY DEF Prepared
<1>2. /\ job \in Jobs /\ job # Idle /\ job.epoch <= epoch /\ ~Clean
      /\ UNCHANGED <<main_vars, queue, served, reports, events>>
      /\ queue' \in Seq(Tasks) /\ Waiting' = Waiting
      /\ served' \in Nat /\ served' <= latest
    BY <1>1, InJobIs
<1>3. job' \in Jobs /\ job'.step = "prepared" /\ job'.epoch = job.epoch
    BY <1>1, <1>2 DEF Jobs
<1>4. ending \in BOOLEAN /\ faults \in Nat
    BY DEF AndroidInv, Types
<1> QED  BY <1>1, <1>2, <1>3, <1>4, LeftAlone

LEMMA SamePlanKeeps ==
    ASSUME AndroidInv, SamePlan
    PROVE  AndroidInv'
<1>1. InJob("preparing") /\ job' = Idle /\ UNCHANGED <<ending, session, alive, faults>>
    BY DEF SamePlan
<1>2. /\ UNCHANGED <<main_vars, queue, served, reports, events>>
      /\ queue' \in Seq(Tasks) /\ Waiting' = Waiting
      /\ served' \in Nat /\ served' <= latest
    BY <1>1, InJobIs
<1>3. ending \in BOOLEAN /\ faults \in Nat
    BY DEF AndroidInv, Types
<1> QED  BY <1>1, <1>2, <1>3, LeftAlone DEF Idle

LEMMA RejectedKeeps ==
    ASSUME AndroidInv, Rejected
    PROVE  AndroidInv'
<1>1. /\ InJob("preparing") /\ job' = Idle
      /\ faults' = faults \/ faults' = faults + 1
      /\ IF ~JobIsCurrent \/ KeepsSession THEN UNCHANGED <<ending, session, alive>>
         ELSE FailWith(session)
    BY DEF Rejected, Fail
<1>2. /\ ~Clean /\ UNCHANGED <<main_vars, queue, served, reports, events>>
      /\ queue' \in Seq(Tasks) /\ Waiting' = Waiting
      /\ served' \in Nat /\ served' <= latest
    BY <1>1, InJobIs
<1>3. ending \in BOOLEAN /\ faults' \in Nat /\ session \in Sessions
    BY <1>1 DEF AndroidInv, Types
<1>4. CASE ~JobIsCurrent \/ KeepsSession
    <2>1. UNCHANGED <<ending, session, alive>>
        BY <1>1, <1>4
    <2> QED  BY <1>1, <1>2, <1>3, <2>1, LeftAlone DEF Idle
<1>5. CASE ~(~JobIsCurrent \/ KeepsSession)
    <2>1. FailWith(session)
        BY <1>1, <1>5
    <2>2. ~destroyed
        BY <1>5 DEF JobIsCurrent
    <2> QED  BY <1>1, <1>2, <1>3, <2>1, <2>2, FailKeeps
<1> QED  BY <1>4, <1>5

\* A step that goes on with a start and leaves the cores and the TUN as they are.
LEMMA NotedKeeps ==
    ASSUME AndroidInv, ~Clean, UNCHANGED main_vars,
           UNCHANGED <<queue, served, reports, events, ending, alive>>,
           faults' \in Nat, job' = Idle, session' \in Sessions,
           session'.client = session.client, session'.generation = session.generation,
           session'.tun = session.tun, session'.keepBlocked = session.keepBlocked,
           session'.blocked = session.blocked, session'.retrySeq = session.retrySeq,
           session'.timer = session.timer, session'.state = session.state
    PROVE  AndroidInv'
<1>1. Types /\ queue' \in Seq(Tasks) /\ Waiting' = Waiting /\ served <= latest
    BY DEF AndroidInv, Types, Waiting, StartsInOrder
<1>2. Types'
    BY <1>1, TypesGoOn DEF Types
<1>3. StartsInOrder'
    BY <1>1, StartsGoOn DEF AndroidInv
<1>4. CoreRight'
    BY <1>1 DEF AndroidInv, CoreRight
<1>5. JobRight'
    BY DEF JobRight, Idle
<1>6. StopsRight' /\ (WaitsFor("revoked") => WaitsFor("revoked")')
    BY <1>1, StopsGoOn
<1>7. BlockedRight'
    BY <1>1, <1>6 DEF AndroidInv, BlockedRight, main_vars
<1>8. StateRight'
    BY <1>6 DEF AndroidInv, StateRight, main_vars
<1> QED  BY <1>2, <1>3, <1>4, <1>5, <1>6, <1>7, <1>8 DEF AndroidInv

LEMMA NotedIs ==
    ASSUME NEW s \in Sessions, job \in Jobs
    PROVE  /\ Noted(s) \in Sessions
           /\ Noted(s).client = s.client /\ Noted(s).generation = s.generation
           /\ Noted(s).tun = s.tun /\ Noted(s).keepBlocked = s.keepBlocked
           /\ Noted(s).blocked = s.blocked /\ Noted(s).retrySeq = s.retrySeq
           /\ Noted(s).timer = s.timer /\ Noted(s).state = s.state
<1>1. job.source \in Sources /\ job.profile \in Configs \cup {None}
    BY DEF Jobs, Sources
<1> QED  BY <1>1 DEF Noted, Sessions

LEMMA SupersededKeeps ==
    ASSUME AndroidInv, Superseded
    PROVE  AndroidInv'
<1>1. InJob("prepared") /\ session' = Noted(session) /\ job' = Idle
      /\ UNCHANGED <<ending, alive, faults>>
    BY DEF Superseded
<1>2. /\ job \in Jobs /\ ~Clean /\ UNCHANGED <<main_vars, queue, served, reports, events>>
    BY <1>1, InJobIs
<1>3. faults \in Nat /\ session \in Sessions
    BY DEF AndroidInv, Types
<1> QED  BY <1>1, <1>2, <1>3, NotedIs, NotedKeeps

LEMMA HandleFailureKeeps ==
    ASSUME AndroidInv, HandleFailure
    PROVE  AndroidInv'
<1>1. /\ InJob("failed") /\ job' = Idle /\ faults' = faults
      /\ IF JobIsCurrent THEN FailWith(Restored)
         ELSE session' = Restored /\ UNCHANGED <<ending, alive>>
    BY DEF HandleFailure
<1>2. /\ job \in Jobs /\ ~Clean /\ UNCHANGED <<main_vars, queue, served, reports, events>>
      /\ queue' \in Seq(Tasks) /\ Waiting' = Waiting
    BY <1>1, InJobIs
<1>3. faults \in Nat /\ session \in Sessions
    BY DEF AndroidInv, Types
<1>4. /\ Restored \in Sessions
      /\ Restored.client = session.client /\ Restored.generation = session.generation
      /\ Restored.tun = session.tun /\ Restored.keepBlocked = session.keepBlocked
      /\ Restored.blocked = session.blocked /\ Restored.retrySeq = session.retrySeq
      /\ Restored.timer = session.timer /\ Restored.state = session.state
    <2>1. job.source \in Sources
        BY <1>2 DEF Jobs, Sources
    <2> QED  BY <1>3, <2>1 DEF Restored, Sessions
<1>5. CASE JobIsCurrent
    <2>1. FailWith(Restored) /\ ~destroyed
        BY <1>1, <1>5 DEF JobIsCurrent
    <2> QED  BY <1>1, <1>2, <1>3, <1>4, <2>1, FailKeeps
<1>6. CASE ~JobIsCurrent
    <2>1. session' = Restored /\ UNCHANGED <<ending, alive>>
        BY <1>1, <1>6
    <2> QED  BY <1>1, <1>2, <1>3, <1>4, <2>1, NotedKeeps
<1> QED  BY <1>5, <1>6

LEMMA EstablishKeeps ==
    ASSUME AndroidAssumption, AndroidInv, Establish
    PROVE  AndroidInv'
<1> DEFINE c == Closed(session)
           by == [of |-> job.source.of, by |-> "plan"]
<1>1. /\ InJob("prepared") /\ JobIsCurrent
      /\ \E k \in KillSwitches :
             session' = [c EXCEPT !.tun = NewTun, !.keepBlocked = k, !.source = by]
      /\ alive' = alive \ {session.client}
      /\ job' = [job EXCEPT !.step = "established"] /\ UNCHANGED <<ending, faults>>
    BY DEF Establish, StopsCore
<1>2. /\ job \in Jobs /\ job # Idle /\ job.step = "prepared" /\ job.epoch <= epoch /\ ~Clean
      /\ UNCHANGED <<main_vars, queue, served, reports, events>>
      /\ queue' \in Seq(Tasks) /\ Waiting' = Waiting
      /\ served' \in Nat /\ served' <= latest
    BY <1>1, InJobIs
<1>3. Types /\ faults \in Nat /\ ending \in BOOLEAN /\ session \in Sessions
      /\ queue \in Seq(Tasks) /\ alive' = {}
    BY <1>1 DEF AndroidInv, Types, CoreRight
<1>4. ~destroyed /\ permitted
    BY <1>1, <1>2 DEF JobIsCurrent, AndroidInv, JobRight
<1>5. NewTun \in Plans /\ NewTun # NoTun /\ by \in Sources
    <2>1. job.source.of \in Configs /\ job.profile \in Configs
        BY <1>2 DEF Jobs
    <2>2. None \notin Configs
        BY DEF AndroidAssumption, None
    <2>3. NewTun \in Plans /\ NewTun.of \in Configs /\ NoTun.of = None
        BY <2>1 DEF NewTun, Plans, NoTun
    <2> QED  BY <2>1, <2>2, <2>3 DEF Sources
<1>6. PICK k \in KillSwitches :
             session' = [c EXCEPT !.tun = NewTun, !.keepBlocked = k, !.source = by]
    BY <1>1
<1>7. k \in BOOLEAN
    BY DEF AndroidAssumption
<1>8. c \in Sessions /\ c.client = 0 /\ c.generation = session.generation + 1
      /\ ~c.blocked /\ c.state = session.state
    BY <1>3, ClosedIs
<1> HIDE DEF c, by
<1>9. /\ session' \in Sessions
      /\ session'.client = 0 /\ session'.generation = session.generation + 1
      /\ session'.tun # NoTun /\ ~session'.blocked /\ session'.state = session.state
    BY <1>5, <1>6, <1>7, <1>8 DEF Sessions
<1>10. job' \in Jobs /\ job'.step = "established" /\ job'.epoch = job.epoch
    BY <1>1, <1>2 DEF Jobs
<1>11. Types'
    BY <1>1, <1>2, <1>3, <1>9, <1>10, TypesGoOn DEF Types
<1>12. StartsInOrder'
    BY <1>2, <1>3, <1>10, StartsGoOn DEF AndroidInv
<1>13. CoreRight'
    BY <1>2, <1>3, <1>9, TokensStay DEF AndroidInv, CoreRight
<1>14. JobRight'
    BY <1>3, <1>9, <1>10 DEF JobRight
<1>15. BlockedRight'
    BY <1>9 DEF BlockedRight
<1>16. StateRight'
    BY <1>2, <1>4, <1>9 DEF StateRight, main_vars
<1>17. StopsRight'
    BY <1>2, <1>4, StopsGoOn
<1> QED  BY <1>11, <1>12, <1>13, <1>14, <1>15, <1>16, <1>17 DEF AndroidInv

LEMMA StartCoreKeeps ==
    ASSUME AndroidInv, StartCore
    PROVE  AndroidInv'
<1> DEFINE s == Noted(session)
<1>1. /\ InJob("established") /\ MayStart /\ session' = Candidate(s)
      /\ alive' = alive \cup {session.generation + 1} /\ job' = Idle
      /\ UNCHANGED <<ending, faults>>
    BY DEF StartCore, CoreStarts
<1>2. /\ job \in Jobs /\ job # Idle /\ job.step = "established" /\ ~Clean
      /\ UNCHANGED <<main_vars, queue, served, reports, events>>
      /\ queue' \in Seq(Tasks) /\ Waiting' = Waiting
      /\ served' \in Nat /\ served' <= latest
    BY <1>1, InJobIs
<1>3. Types /\ faults \in Nat /\ ending \in BOOLEAN /\ session \in Sessions
      /\ queue \in Seq(Tasks) /\ ~destroyed
    BY <1>1 DEF AndroidInv, Types, MayStart
<1>4. ~session.blocked /\ alive = {} /\ session.tun # NoTun
    BY <1>2 DEF AndroidInv, JobRight
<1>5. s \in Sessions /\ s.generation = session.generation /\ s.tun = session.tun /\ ~s.blocked
    BY <1>2, <1>3, <1>4, NotedIs
<1> HIDE DEF s
<1>6. session.generation + 1 \in Nat \ {0}
    BY <1>3 DEF Sessions
<1>7. /\ session' \in Sessions
      /\ session'.client = session.generation + 1
      /\ session'.generation = session.generation + 1
      /\ session'.tun = session.tun /\ ~session'.blocked /\ session'.state = 1
    BY <1>1, <1>3, <1>5, CandidateIs
<1>8. alive' = {session.generation + 1}
    BY <1>1, <1>4
<1>9. Types'
    BY <1>1, <1>2, <1>3, <1>6, <1>7, <1>8, TypesGoOn DEF Types
<1>10. StartsInOrder'
    BY <1>1, <1>2, <1>3, StartsGoOn DEF AndroidInv
<1>11. CoreRight'
    BY <1>2, <1>3, <1>4, <1>6, <1>7, <1>8, TokensStay DEF AndroidInv, CoreRight
<1>12. JobRight'
    BY <1>1 DEF JobRight, Idle
<1>13. BlockedRight'
    BY <1>7 DEF BlockedRight
<1>14. StateRight'
    BY <1>2, <1>3, <1>4, <1>7 DEF StateRight, main_vars
<1>15. StopsRight'
    BY <1>2, <1>7, StopsGoOn
<1> QED  BY <1>9, <1>10, <1>11, <1>12, <1>13, <1>14, <1>15 DEF AndroidInv

LEMMA StartCoreFailsKeeps ==
    ASSUME AndroidInv, StartCoreFails
    PROVE  AndroidInv'
<1>1. /\ InJob("established") /\ job' = [job EXCEPT !.step = "failed"]
      /\ UNCHANGED <<ending, alive>>
      /\ \/ session' = session /\ faults' \in {faults, faults + 1}
         \/ MayStart /\ session' = Candidate(session) /\ faults' = faults + 1
    BY DEF StartCoreFails, CoreFails
<1>2. /\ job \in Jobs /\ job # Idle /\ job.step = "established" /\ job.epoch <= epoch /\ ~Clean
      /\ UNCHANGED <<main_vars, queue, served, reports, events>>
      /\ queue' \in Seq(Tasks) /\ Waiting' = Waiting
      /\ served' \in Nat /\ served' <= latest
    BY <1>1, InJobIs
<1>3. Types /\ faults' \in Nat /\ ending \in BOOLEAN /\ session \in Sessions
      /\ queue \in Seq(Tasks)
    BY <1>1 DEF AndroidInv, Types
<1>4. ~session.blocked /\ alive = {} /\ session.tun # NoTun /\ session.client = 0
    BY <1>2 DEF AndroidInv, JobRight
<1>5. job' \in Jobs /\ job'.step = "failed" /\ job'.epoch = job.epoch
    BY <1>1, <1>2 DEF Jobs
<1>6. StartsInOrder'
    BY <1>2, <1>3, <1>5, StartsGoOn DEF AndroidInv
<1>7. CASE session' = session
    <2>1. Types'
        BY <1>1, <1>2, <1>3, <1>5, <1>7, TypesGoOn DEF Types
    <2>2. CoreRight'
        BY <1>1, <1>2, <1>7 DEF AndroidInv, CoreRight
    <2>3. JobRight'
        BY <1>1, <1>4, <1>5, <1>7 DEF JobRight
    <2>4. StopsRight' /\ (WaitsFor("revoked") => WaitsFor("revoked")')
        BY <1>2, <1>4, StopsGoOn
    <2>5. BlockedRight'
        BY <1>4, <1>7 DEF BlockedRight
    <2>6. StateRight'
        BY <1>2, <1>4, <1>7, <2>4 DEF AndroidInv, StateRight, main_vars
    <2> QED  BY <1>6, <2>1, <2>2, <2>3, <2>4, <2>5, <2>6 DEF AndroidInv
<1>8. CASE MayStart /\ session' = Candidate(session)
    <2>1. session.generation + 1 \in Nat \ {0} /\ ~destroyed
        BY <1>3, <1>8 DEF Sessions, MayStart
    <2>2. /\ session' \in Sessions
          /\ session'.client = session.generation + 1
          /\ session'.generation = session.generation + 1
          /\ session'.tun = session.tun /\ ~session'.blocked /\ session'.state = 1
        BY <1>3, <1>4, <1>8, <2>1, CandidateIs
    <2>3. Types'
        BY <1>1, <1>2, <1>3, <1>5, <2>2, TypesGoOn DEF Types
    <2>4. CoreRight'
        BY <1>1, <1>2, <1>3, <1>4, <2>1, <2>2, TokensStay DEF AndroidInv, CoreRight
    <2>5. JobRight'
        BY <1>1, <1>4, <1>5, <2>2 DEF JobRight
    <2>6. BlockedRight'
        BY <2>2 DEF BlockedRight
    <2>7. StateRight'
        BY <1>2, <1>4, <2>1, <2>2 DEF StateRight, main_vars
    <2>8. StopsRight'
        BY <1>2, <1>4, StopsGoOn
    <2> QED  BY <1>6, <2>3, <2>4, <2>5, <2>6, <2>7, <2>8 DEF AndroidInv
<1> QED  BY <1>1, <1>7, <1>8

(***************************************************************************)
(* The system, the main thread and the threads of the cores.               *)
(***************************************************************************)

\* What the steps that queue nothing of the kind leave as it was.
LEMMA MoreWaits ==
    ASSUME Waiting \subseteq Waiting', NEW kind
    PROVE  WaitsFor(kind) => WaitsFor(kind)'
    BY DEF WaitsFor

LEMMA StartServiceKeeps ==
    ASSUME AndroidAssumption, AndroidInv, NEW kind \in Kinds, StartService(kind)
    PROVE  AndroidInv'
<1> DEFINE r == [kind |-> kind, id |-> asked + 1,
                 config |-> IF kind = "start" THEN selected ELSE None]
           Requests == [kind : StartKinds, id : Nat, config : Configs \cup {None}]
<1>1. /\ asked < MaxStarts /\ asked' = asked + 1 /\ requests' = Append(requests, r)
      /\ UNCHANGED <<latest, latestKind, epoch, permitted, selected, destroyed>>
      /\ UNCHANGED <<queue, session, job, served, alive, ending, reports, faults, events>>
    BY DEF StartService, start_vars, worker_vars, count_vars
<1>2. Types /\ requests \in Seq(Requests) /\ asked \in Nat /\ selected \in Configs
      /\ latest \in Nat /\ MaxStarts \in Nat
    BY DEF AndroidInv, Types, AndroidAssumption
<1>3. r \in Requests /\ r.id = asked + 1
    BY <1>2 DEF AndroidAssumption, StartKinds
<1> HIDE DEF r, Requests
<1>4. /\ requests' \in Seq(Requests) /\ Len(requests') = Len(requests) + 1
      /\ Len(requests) \in Nat
      /\ \A i \in 1..Len(requests) : requests'[i] = requests[i]
      /\ requests'[Len(requests) + 1] = r
      /\ DOMAIN requests = 1..Len(requests) /\ DOMAIN requests' = 1..(Len(requests) + 1)
    BY <1>1, <1>2, <1>3
<1>5. asked' \in 0..MaxStarts
    BY <1>1, <1>2
<1>6. Types'
    BY <1>1, <1>2, <1>4, <1>5 DEF Types, Requests
<1>7. Waiting' = Waiting
    BY <1>1 DEF Waiting
<1>8. StartsInOrder'
    <2>1. latest + Len(requests) = asked
          /\ \A i \in DOMAIN requests : requests[i].id = latest + i
        BY DEF AndroidInv, StartsInOrder
    <2>2. latest' + Len(requests') = asked'
        BY <1>1, <1>2, <1>4, <2>1
    <2>3. ASSUME NEW i \in DOMAIN requests'
          PROVE  requests'[i].id = latest' + i
        <3>1. i \in 1..Len(requests) \/ i = Len(requests) + 1
            BY <1>4
        <3>2. CASE i \in 1..Len(requests)
            BY <1>1, <1>4, <2>1, <3>2
        <3>3. CASE i = Len(requests) + 1
            BY <1>1, <1>2, <1>3, <1>4, <2>1, <3>3
        <3> QED  BY <3>1, <3>2, <3>3
    <2> QED  BY <1>1, <1>7, <2>2, <2>3 DEF AndroidInv, StartsInOrder
<1>9. CoreRight' /\ JobRight' /\ BlockedRight' /\ StateRight' /\ StopsRight'
    BY <1>1, <1>7 DEF AndroidInv, CoreRight, JobRight, BlockedRight, StateRight, StopsRight,
                      WaitsFor, Clean
<1> QED  BY <1>6, <1>8, <1>9 DEF AndroidInv

LEMMA OnStartCommandKeeps ==
    ASSUME AndroidInv, OnStartCommand
    PROVE  AndroidInv'
<1> DEFINE r == Head(requests)
           t == [kind |-> r.kind, id |-> r.id, config |-> r.config, epoch |-> epoch]
           Requests == [kind : StartKinds, id : Nat, config : Configs \cup {None}]
<1>1. /\ requests # <<>> /\ latest' = r.id /\ latestKind' = r.kind /\ Enqueue(t)
      /\ requests' = Tail(requests)
      /\ UNCHANGED <<asked, epoch, permitted, selected, destroyed>>
      /\ UNCHANGED <<session, job, served, alive, ending, reports, faults, events>>
    BY DEF OnStartCommand, worker_vars, count_vars
<1>2. Types /\ requests \in Seq(Requests) /\ queue \in Seq(Tasks) /\ epoch \in Nat
      /\ latest \in Nat /\ served \in Nat
    BY DEF AndroidInv, Types
<1> HIDE DEF Requests
<1>3. /\ Tail(requests) \in Seq(Requests) /\ r \in Requests /\ r = requests[1]
      /\ Len(requests) \in Nat \ {0} /\ Len(Tail(requests)) = Len(requests) - 1
      /\ 1 \in DOMAIN requests /\ DOMAIN Tail(requests) = 1..(Len(requests) - 1)
      /\ \A i \in 1..(Len(requests) - 1) :
             Tail(requests)[i] = requests[i + 1] /\ i + 1 \in DOMAIN requests
    BY <1>1, <1>2
<1>4. /\ latest + Len(requests) = asked
      /\ \A i \in DOMAIN requests : requests[i].id = latest + i
    BY DEF AndroidInv, StartsInOrder
<1> HIDE DEF r
<1>5. r.id = latest + 1 /\ r.id \in Nat /\ r.kind \in StartKinds
      /\ r.config \in Configs \cup {None}
    BY <1>3, <1>4 DEF Requests
<1>6. t \in StartTasks /\ t.kind = r.kind /\ t.id = r.id /\ t.epoch = epoch
    BY <1>2, <1>5 DEF StartTasks
<1>7. t \in Tasks
    BY <1>6 DEF Tasks
<1> HIDE DEF t
<1>8. /\ queue' \in Seq(Tasks) /\ Waiting \subseteq Waiting' /\ Waiting' \subseteq Waiting \cup {t}
      /\ ~destroyed => t \in Waiting'
    BY <1>1, <1>2, <1>7, Enqueued DEF Types
<1>9. Types'
    BY <1>1, <1>2, <1>3, <1>5, <1>8 DEF Types, Requests
<1>10. StartsInOrder'
    <2>1. latest' + Len(requests') = asked'
        BY <1>1, <1>2, <1>3, <1>4, <1>5
    <2>2. ASSUME NEW i \in DOMAIN requests'
          PROVE  requests'[i].id = latest' + i
        <3>1. i \in 1..(Len(requests) - 1)
            BY <1>1, <1>3
        <3>2. requests'[i] = requests[i + 1] /\ i + 1 \in DOMAIN requests
            BY <1>1, <1>3, <3>1
        <3>3. requests'[i].id = latest + (i + 1)
            BY <1>4, <3>2
        <3> QED  BY <1>1, <1>2, <1>3, <1>5, <3>1, <3>3
    <2>3. served' <= latest'
        BY <1>1, <1>2, <1>5 DEF AndroidInv, StartsInOrder
    <2>4. ASSUME NEW u \in Waiting', u.kind \in StartKinds
          PROVE  u.id <= latest' /\ (u.id = latest' => u.kind = latestKind')
        <3>1. CASE u = t
            BY <1>1, <1>5, <1>6, <3>1
        <3>2. CASE u \in Waiting
            <4>1. u.id \in Nat
                BY <1>2, <2>4, <3>2, TasksWait, TaskKinds DEF StartTasks
            <4>2. u.id <= latest
                BY <2>4, <3>2 DEF AndroidInv, StartsInOrder
            <4> QED  BY <1>1, <1>2, <1>5, <4>1, <4>2
        <3> QED  BY <1>8, <3>1, <3>2
    <2> QED  BY <1>1, <2>1, <2>2, <2>3, <2>4 DEF AndroidInv, StartsInOrder
<1>11. \A u \in Waiting' : u \in Waiting \/ (u = t /\ u.kind \in StartKinds)
    BY <1>5, <1>6, <1>8
<1>12. CoreRight'
    BY <1>1, <1>11 DEF AndroidInv, CoreRight, StartKinds
<1>13. JobRight'
    BY <1>1 DEF AndroidInv, JobRight
<1>14. \A kind : WaitsFor(kind) => WaitsFor(kind)'
    BY <1>8, MoreWaits
<1>15. BlockedRight' /\ StateRight'
    BY <1>1, <1>8, <1>14 DEF AndroidInv, BlockedRight, StateRight
<1>16. StopsRight'
    <2>1. WaitsFor("destroy")' => WaitsFor("destroy")
        BY <1>11 DEF WaitsFor, StartKinds
    <2>2. Clean => Clean'
        BY <1>1 DEF Clean
    <2>3. latestKind' = "stop" /\ ~destroyed' =>
              t \in Waiting' /\ t.kind = "stop" /\ t.id = latest' /\ t.epoch = epoch'
        BY <1>1, <1>6, <1>8
    <2> QED  BY <1>1, <1>14, <2>1, <2>2, <2>3 DEF AndroidInv, StopsRight
<1> QED  BY <1>9, <1>10, <1>12, <1>13, <1>15, <1>16 DEF AndroidInv

LEMMA OnRevokeKeeps ==
    ASSUME AndroidAssumption, AndroidInv, OnRevoke
    PROVE  AndroidInv'
<1> DEFINE t == [kind |-> "revoked", id |-> latest]
<1>1. /\ events < MaxEvents /\ ~destroyed /\ events' = events + 1
      /\ permitted' = FALSE /\ epoch' = epoch + 1
      /\ session' = Published(session, 0) /\ Enqueue(t)
      /\ UNCHANGED <<requests, asked, selected, latest, latestKind, destroyed>>
      /\ UNCHANGED <<job, served, alive, ending, reports, faults>>
    BY DEF OnRevoke, start_vars, worker_vars
<1>2. Types /\ queue \in Seq(Tasks) /\ epoch \in Nat /\ events \in Nat /\ latest \in Nat
      /\ session \in Sessions /\ MaxEvents \in Nat
    BY DEF AndroidInv, Types, AndroidAssumption
<1>3. t \in RevokedTasks /\ t.kind = "revoked"
    BY <1>2 DEF RevokedTasks
<1>4. t \in Tasks
    BY <1>3 DEF Tasks
<1> HIDE DEF t
<1>5. queue' \in Seq(Tasks) /\ Waiting' = Waiting \cup {t}
    BY <1>1, <1>2, <1>4, Enqueued
<1>6. WaitsFor("revoked")'
    BY <1>3, <1>5 DEF WaitsFor
<1>7. session' = [session EXCEPT !.state = 0] /\ 0 \in 0..6
    BY <1>1 DEF Published
<1>8. /\ session' \in Sessions /\ session'.state = 0
      /\ session'.client = session.client /\ session'.generation = session.generation
      /\ session'.tun = session.tun /\ session'.blocked = session.blocked
      /\ session'.keepBlocked = session.keepBlocked
    BY <1>2, <1>7 DEF Sessions
<1>9. epoch' \in Nat /\ events' \in Nat /\ permitted' \in BOOLEAN
    <2>1. epoch' \in Nat /\ events' \in Nat
        BY <1>1, <1>2
    <2>2. permitted' \in BOOLEAN
        BY <1>1
    <2> QED  BY <2>1, <2>2
<1>10. Types'
    BY <1>1, <1>2, <1>5, <1>8, <1>9 DEF Types
<1>11. StartsInOrder'
    <2>1. epoch <= events /\ events <= MaxEvents /\ (job # Idle => job.epoch <= epoch)
        BY DEF AndroidInv, StartsInOrder
    <2>2. job # Idle => job.epoch \in Nat
        BY <1>2 DEF Types, Jobs
    <2>3. epoch' <= events' /\ events' <= MaxEvents /\ (job' # Idle => job'.epoch <= epoch')
        BY <1>1, <1>2, <2>1, <2>2
    <2>4. \A u \in Waiting' : u.kind \in StartKinds => u \in Waiting
        BY <1>3, <1>5 DEF StartKinds
    <2> QED  BY <1>1, <2>3, <2>4 DEF AndroidInv, StartsInOrder
<1>12. CoreRight'
    BY <1>1, <1>3, <1>5, <1>8 DEF AndroidInv, CoreRight
<1>13. JobRight'
    <2>1. job.step = "prepared" => job # Idle /\ job \in Jobs
        BY <1>2 DEF Types, Idle
    <2>2. job.step = "prepared" => job.epoch # epoch'
        <3>1. job.step = "prepared" => job.epoch \in Nat /\ job.epoch <= epoch
            BY <2>1 DEF AndroidInv, StartsInOrder, Jobs
        <3> QED  BY <1>1, <1>2, <3>1
    <2> QED  BY <1>1, <1>8, <2>2 DEF AndroidInv, JobRight
<1>14. BlockedRight'
    BY <1>6, <1>8 DEF AndroidInv, BlockedRight
<1>15. StateRight'
    BY <1>6, <1>8 DEF StateRight
<1>16. StopsRight'
    <2>1. WaitsFor("destroy")' => WaitsFor("destroy")
        BY <1>3, <1>5 DEF WaitsFor
    <2> QED  BY <1>1, <1>6, <2>1 DEF AndroidInv, StopsRight
<1> QED  BY <1>10, <1>11, <1>12, <1>13, <1>14, <1>15, <1>16 DEF AndroidInv

LEMMA OnDestroyKeeps ==
    ASSUME AndroidInv, OnDestroy
    PROVE  AndroidInv'
<1> DEFINE t == [kind |-> "destroy"]
<1>1. /\ ~destroyed /\ destroyed' = TRUE /\ session' = Published(session, 0) /\ Enqueue(t)
      /\ UNCHANGED <<requests, asked, permitted, selected, latest, latestKind, epoch>>
      /\ UNCHANGED <<job, served, alive, ending, reports, faults, events>>
    BY DEF OnDestroy, start_vars, system_vars, worker_vars, count_vars
<1>2. Types /\ queue \in Seq(Tasks) /\ session \in Sessions
    BY DEF AndroidInv, Types
<1>3. t \in PlainTasks /\ t.kind = "destroy"
    BY DEF PlainTasks
<1>4. t \in Tasks
    BY <1>3 DEF Tasks
<1> HIDE DEF t
<1>5. queue' \in Seq(Tasks) /\ Waiting' = Waiting \cup {t}
    BY <1>1, <1>2, <1>4, Enqueued
<1>6. WaitsFor("destroy")' /\ (WaitsFor("revoked") => WaitsFor("revoked")')
    BY <1>3, <1>5 DEF WaitsFor
<1>7. session' = [session EXCEPT !.state = 0] /\ 0 \in 0..6
    BY <1>1 DEF Published
<1>8. /\ session' \in Sessions /\ session'.state = 0
      /\ session'.client = session.client /\ session'.generation = session.generation
      /\ session'.tun = session.tun /\ session'.blocked = session.blocked
      /\ session'.keepBlocked = session.keepBlocked
    BY <1>2, <1>7 DEF Sessions
<1>9. Types'
    BY <1>1, <1>2, <1>5, <1>8 DEF Types
<1>10. StartsInOrder'
    <2>1. \A u \in Waiting' : u.kind \in StartKinds => u \in Waiting
        BY <1>3, <1>5 DEF StartKinds
    <2> QED  BY <1>1, <2>1 DEF AndroidInv, StartsInOrder
<1>11. CoreRight'
    BY <1>1, <1>3, <1>5, <1>8 DEF AndroidInv, CoreRight
<1>12. JobRight'
    BY <1>1, <1>8 DEF AndroidInv, JobRight
<1>13. BlockedRight' /\ StateRight'
    BY <1>1, <1>8 DEF AndroidInv, BlockedRight, StateRight
<1>14. StopsRight'
    BY <1>1, <1>6, <1>8 DEF AndroidInv, StopsRight
<1> QED  BY <1>9, <1>10, <1>11, <1>12, <1>13, <1>14 DEF AndroidInv

LEMMA UserActsKeeps ==
    ASSUME AndroidInv, UserActs
    PROVE  AndroidInv'
<1>1. /\ \/ permitted' = TRUE /\ UNCHANGED selected
         \/ selected' \in Configs /\ UNCHANGED permitted
      /\ UNCHANGED <<requests, asked, latest, latestKind, epoch, destroyed>>
      /\ UNCHANGED <<queue, session, job, served, alive, ending, reports, faults, events>>
    BY DEF UserActs, start_vars, worker_vars, count_vars
<1>2. Types'
    BY <1>1 DEF AndroidInv, Types
<1>3. Waiting' = Waiting
    BY <1>1 DEF Waiting
<1>4. StartsInOrder' /\ CoreRight'
    BY <1>1, <1>3 DEF AndroidInv, StartsInOrder, CoreRight
<1>5. JobRight'
    BY <1>1 DEF AndroidInv, JobRight
<1>6. BlockedRight' /\ StateRight' /\ StopsRight'
    BY <1>1, <1>3 DEF AndroidInv, BlockedRight, StateRight, StopsRight, WaitsFor, Clean
<1> QED  BY <1>2, <1>4, <1>5, <1>6 DEF AndroidInv

LEMMA HearsKeeps ==
    ASSUME AndroidAssumption, AndroidInv, NEW kind \in {"network", "geo"}, Hears(kind)
    PROVE  AndroidInv'
<1> DEFINE t == [kind |-> kind]
<1>1. /\ events < MaxEvents /\ ~destroyed /\ events' = events + 1 /\ Enqueue(t)
      /\ UNCHANGED main_vars
      /\ UNCHANGED <<session, job, served, alive, ending, reports, faults>>
    BY DEF Hears, worker_vars
<1>2. Types /\ queue \in Seq(Tasks) /\ events \in Nat /\ MaxEvents \in Nat /\ epoch \in Nat
    BY DEF AndroidInv, Types, AndroidAssumption
<1>3. t \in PlainTasks /\ t.kind = kind
    BY DEF PlainTasks
<1>4. t \in Tasks
    BY <1>3 DEF Tasks
<1> HIDE DEF t
<1>5. queue' \in Seq(Tasks) /\ Waiting' = Waiting \cup {t}
    BY <1>1, <1>2, <1>4, Enqueued
<1>6. UNCHANGED <<requests, asked, permitted, selected, latest, latestKind, epoch, destroyed>>
    BY <1>1 DEF main_vars, system_vars, start_vars
<1>7. Types'
    BY <1>1, <1>2, <1>5, <1>6 DEF Types
<1>8. StartsInOrder'
    <2>1. epoch' <= events' /\ events' <= MaxEvents
        BY <1>1, <1>2, <1>6 DEF AndroidInv, StartsInOrder
    <2>2. \A u \in Waiting' : u.kind \in StartKinds => u \in Waiting
        BY <1>3, <1>5 DEF StartKinds
    <2> QED  BY <1>1, <1>6, <2>1, <2>2 DEF AndroidInv, StartsInOrder
<1>9. CoreRight' /\ JobRight'
    BY <1>1, <1>3, <1>5, <1>6 DEF AndroidInv, CoreRight, JobRight
<1>10. (WaitsFor("revoked") <=> WaitsFor("revoked")')
       /\ (WaitsFor("destroy") <=> WaitsFor("destroy")')
    BY <1>3, <1>5 DEF WaitsFor
<1>11. BlockedRight' /\ StateRight'
    BY <1>1, <1>5, <1>6, <1>10 DEF AndroidInv, BlockedRight, StateRight
<1>12. StopsRight'
    BY <1>1, <1>5, <1>6, <1>10 DEF AndroidInv, StopsRight, Clean
<1> QED  BY <1>7, <1>8, <1>9, <1>11, <1>12 DEF AndroidInv

LEMMA TimerFiresKeeps ==
    ASSUME AndroidInv, TimerFires
    PROVE  AndroidInv'
<1> DEFINE t == [kind |-> "retry", timer |-> session.timer]
<1>1. /\ session.timer # NoTimer /\ Enqueue(t)
      /\ session' = [session EXCEPT !.timer = NoTimer]
      /\ UNCHANGED main_vars
      /\ UNCHANGED <<job, served, alive, ending, reports, faults, events>>
    BY DEF TimerFires, worker_vars, count_vars
<1>2. Types /\ queue \in Seq(Tasks) /\ session \in Sessions /\ session.timer \in Timers
      /\ NoTimer \in Timers
    BY DEF AndroidInv, Types, Sessions, Timers
<1>3. t \in RetryTasks /\ t.kind = "retry" /\ t.timer = session.timer
    BY <1>2 DEF RetryTasks
<1>4. t \in Tasks
    BY <1>3 DEF Tasks
<1> HIDE DEF t
<1>5. /\ queue' \in Seq(Tasks) /\ Waiting \subseteq Waiting' /\ Waiting' \subseteq Waiting \cup {t}
      /\ ~destroyed => t \in Waiting'
    BY <1>1, <1>2, <1>4, Enqueued DEF Types
<1>6. UNCHANGED <<requests, asked, permitted, selected, latest, latestKind, epoch, destroyed>>
    BY <1>1 DEF main_vars, system_vars, start_vars
<1>7. /\ session' \in Sessions /\ session'.state = session.state
      /\ session'.client = session.client /\ session'.generation = session.generation
      /\ session'.tun = session.tun /\ session'.blocked = session.blocked
      /\ session'.keepBlocked = session.keepBlocked /\ session'.retrySeq = session.retrySeq
    BY <1>1, <1>2 DEF Sessions
<1>8. Types'
    BY <1>1, <1>2, <1>5, <1>6, <1>7 DEF Types
<1>9. StartsInOrder'
    <2>1. \A u \in Waiting' : u.kind \in StartKinds => u \in Waiting
        BY <1>3, <1>5 DEF StartKinds
    <2> QED  BY <1>1, <1>6, <2>1 DEF AndroidInv, StartsInOrder
<1>10. CoreRight' /\ JobRight'
    BY <1>1, <1>3, <1>5, <1>6, <1>7 DEF AndroidInv, CoreRight, JobRight
<1>11. /\ WaitsFor("revoked") <=> WaitsFor("revoked")'
       /\ WaitsFor("destroy") <=> WaitsFor("destroy")'
    BY <1>3, <1>5 DEF WaitsFor
<1>12. BlockedRight'
    <2> DEFINE now == [seq |-> session.retrySeq, epoch |-> epoch]
    <2>1. now' = now
        BY <1>6, <1>7
    <2>2. session.timer = now /\ ~destroyed => t \in Waiting' /\ t.kind = "retry" /\ t.timer = now
        BY <1>3, <1>5
    <2>3. session'.blocked /\ session'.client = 0 /\ ~destroyed' =>
              \/ session.timer = now
              \/ \E u \in Waiting : u.kind = "retry" /\ u.timer = now
              \/ WaitsFor("revoked")
        BY <1>6, <1>7 DEF AndroidInv, BlockedRight
    <2>4. session'.blocked => session'.tun # NoTun /\ session'.keepBlocked
        BY <1>7 DEF AndroidInv, BlockedRight
    <2>5. session'.blocked /\ session'.client = 0 /\ ~destroyed' =>
              \/ \E u \in Waiting' : u.kind = "retry" /\ u.timer = now'
              \/ WaitsFor("revoked")'
        BY <1>5, <1>6, <1>11, <2>1, <2>2, <2>3
    <2> QED  BY <2>4, <2>5 DEF BlockedRight
<1>13. StateRight'
    BY <1>6, <1>7, <1>11 DEF AndroidInv, StateRight
<1>14. StopsRight'
    <2>1. ~Clean
        BY <1>1 DEF Clean
    <2> QED  BY <1>5, <1>6, <1>7, <1>11, <2>1 DEF AndroidInv, StopsRight
<1> QED  BY <1>8, <1>9, <1>10, <1>12, <1>13, <1>14 DEF AndroidInv

LEMMA OnStateChangedKeeps ==
    ASSUME AndroidInv, NEW g \in alive, NEW n \in {0, 2, 3}, OnStateChanged(g, n)
    PROVE  AndroidInv'
<1> DEFINE t == [kind |-> "state", token |-> g, state |-> n]
<1>1. /\ reports' = reports + 1 /\ Enqueue(t)
      /\ alive' = IF n = 0 THEN alive \ {g} ELSE alive
      /\ UNCHANGED main_vars /\ UNCHANGED <<ending, job, served, session, faults, events>>
    BY DEF OnStateChanged
<1>2. Types /\ queue \in Seq(Tasks) /\ session \in Sessions /\ alive \subseteq Nat
      /\ reports \in Nat
    BY DEF AndroidInv, Types
<1>3. g \in Nat /\ g > 0 /\ g = session.client /\ session.client = session.generation
    BY <1>2 DEF AndroidInv, CoreRight
<1>4. t \in StateTasks /\ t.kind = "state" /\ t.token = g /\ t.state = n
    BY <1>3 DEF StateTasks
<1>5. t \in Tasks
    BY <1>4 DEF Tasks
<1> HIDE DEF t
<1>6. /\ queue' \in Seq(Tasks) /\ Waiting \subseteq Waiting' /\ Waiting' \subseteq Waiting \cup {t}
    BY <1>1, <1>2, <1>5, Enqueued DEF Types
<1>7. UNCHANGED <<requests, asked, permitted, selected, latest, latestKind, epoch, destroyed>>
    BY <1>1 DEF main_vars, system_vars, start_vars
<1>8. alive' \subseteq alive /\ (n = 0 => g \notin alive') /\ alive # {}
    BY <1>1
<1>9. Types'
    BY <1>1, <1>2, <1>6, <1>7, <1>8 DEF Types
<1>10. StartsInOrder'
    <2>1. \A u \in Waiting' : u.kind \in StartKinds => u \in Waiting
        BY <1>4, <1>6 DEF StartKinds
    <2> QED  BY <1>1, <1>7, <2>1 DEF AndroidInv, StartsInOrder
<1>11. CoreRight'
    <2>1. ASSUME NEW u \in Waiting', u.kind = "state"
          PROVE  /\ u.token > 0 /\ u.token <= session.generation
                 /\ u.token = session.generation => session.client = session.generation
                 /\ u.state = 0 => u.token \notin alive'
        <3>1. CASE u = t
            <4>1. session.generation \in Nat /\ session.generation > 0
                BY <1>3
            <4> QED  BY <1>3, <1>4, <1>8, <3>1, <4>1
        <3>2. CASE u \in Waiting
            BY <1>8, <2>1, <3>2 DEF AndroidInv, CoreRight
        <3> QED  BY <1>6, <3>1, <3>2
    <2> QED  BY <1>1, <1>8, <2>1 DEF AndroidInv, CoreRight
<1>12. JobRight'
    BY <1>1, <1>7, <1>8 DEF AndroidInv, JobRight
<1>13. /\ WaitsFor("revoked") <=> WaitsFor("revoked")'
       /\ WaitsFor("destroy") <=> WaitsFor("destroy")'
    BY <1>4, <1>6 DEF WaitsFor
<1>14. BlockedRight' /\ StateRight'
    BY <1>1, <1>6, <1>7, <1>13 DEF AndroidInv, BlockedRight, StateRight
<1>15. StopsRight'
    <2>1. ~Clean
        BY <1>8 DEF Clean
    <2> QED  BY <1>1, <1>6, <1>7, <1>13, <2>1 DEF AndroidInv, StopsRight
<1> QED  BY <1>9, <1>10, <1>11, <1>12, <1>14, <1>15 DEF AndroidInv

(***************************************************************************)
(* The theorems.                                                           *)
(***************************************************************************)

LEMMA AndroidInit ==
    ASSUME AndroidAssumption, Init
    PROVE  AndroidInv
<1>1. Types
    <2>1. NoTimer \in Timers /\ NoSource \in Sources /\ None \in Configs \cup {None}
          /\ NoTun \in Plans \cup {NoTun} /\ 0 \in 0..6 /\ TRUE \in BOOLEAN /\ FALSE \in BOOLEAN
        BY DEF Timers, Sources
    <2>2. session \in Sessions
        BY <2>1 DEF Init, Sessions
    <2>3. asked \in 0..MaxStarts
        BY DEF Init, AndroidAssumption
    <2>4. /\ <<>> \in Seq([kind : StartKinds, id : Nat, config : Configs \cup {None}])
          /\ <<>> \in Seq(Tasks) /\ {} \subseteq Nat /\ 0 \in Nat
        OBVIOUS
    <2>5. latestKind \in StartKinds \cup {None} /\ job \in Jobs \cup {Idle}
        BY DEF Init
    <2>6. permitted \in BOOLEAN /\ destroyed \in BOOLEAN /\ ending \in BOOLEAN
        BY DEF Init
    <2> QED  BY <2>2, <2>3, <2>4, <2>5, <2>6 DEF Init, Types
<1>2. Waiting = {} /\ Len(requests) = 0 /\ DOMAIN requests = {}
    BY DEF Init, Waiting, ToSet
<1>3. session.client = 0 /\ session.generation = 0 /\ session.tun = NoTun /\ ~session.blocked
      /\ session.state = 0 /\ alive = {} /\ job = Idle
    BY DEF Init
<1>4. StartsInOrder
    BY <1>2 DEF Init, StartsInOrder, AndroidAssumption
<1>5. CoreRight
    BY <1>2, <1>3 DEF CoreRight
<1>6. JobRight
    BY <1>3 DEF JobRight, Idle
<1>7. BlockedRight /\ StateRight
    BY <1>3 DEF BlockedRight, StateRight
<1>8. StopsRight
    BY <1>2, <1>3 DEF Init, StopsRight, WaitsFor, None
<1> QED  BY <1>1, <1>4, <1>5, <1>6, <1>7, <1>8 DEF AndroidInv

LEMMA AndroidStutters ==
    ASSUME AndroidInv, UNCHANGED vars
    PROVE  AndroidInv'
<1>1. UNCHANGED <<requests, asked, permitted, selected, latest, latestKind, epoch, destroyed>>
      /\ UNCHANGED <<queue, session, job, served, alive, ending, reports, faults, events>>
    BY DEF vars, main_vars, system_vars, start_vars, worker_vars, count_vars
<1>2. Waiting' = Waiting
    BY <1>1 DEF Waiting
<1> QED  BY <1>1, <1>2 DEF AndroidInv, Types, StartsInOrder, CoreRight, JobRight,
                          BlockedRight, StateRight, StopsRight, WaitsFor, Clean

LEMMA AndroidStep ==
    ASSUME AndroidAssumption, AndroidInv, [Next]_vars
    PROVE  AndroidInv'
<1>1. CASE \E kind \in Kinds : StartService(kind)
    BY <1>1, StartServiceKeeps
<1>2. CASE OnStartCommand \/ OnRevoke \/ OnDestroy
    BY <1>2, OnStartCommandKeeps, OnRevokeKeeps, OnDestroyKeeps
<1>3. CASE UserActs \/ Hears("network") \/ Hears("geo")
    BY <1>3, UserActsKeeps, HearsKeeps
<1>4. CASE TimerFires
    BY <1>4, TimerFiresKeeps
<1>5. CASE \E g \in alive, n \in {0, 2, 3} : OnStateChanged(g, n)
    BY <1>5, OnStateChangedKeeps
<1>6. CASE DropsTask \/ Stop \/ Ignores \/ Begins
    BY <1>6, DropsTaskKeeps, StopKeeps, IgnoresKeeps, BeginsKeeps
<1>7. CASE GeoChanged \/ NetworkAvailable \/ Revoked \/ Destroyed
    BY <1>7, GeoChangedKeeps, NetworkAvailableKeeps, RevokedKeeps, DestroyedKeeps
<1>8. CASE CoreLost \/ CoreSays \/ RetryBlocked \/ RetryFails
    BY <1>8, CoreLostKeeps, CoreSaysKeeps, RetryBlockedKeeps, RetryFailsKeeps
<1>9. CASE Prepared \/ SamePlan \/ Rejected \/ Superseded
    BY <1>9, PreparedKeeps, SamePlanKeeps, RejectedKeeps, SupersededKeeps
<1>10. CASE Establish \/ StartCore \/ StartCoreFails \/ HandleFailure
    BY <1>10, EstablishKeeps, StartCoreKeeps, StartCoreFailsKeeps, HandleFailureKeeps
<1>11. CASE UNCHANGED vars
    BY <1>11, AndroidStutters
<1> QED  BY <1>1, <1>2, <1>3, <1>4, <1>5, <1>6, <1>7, <1>8, <1>9, <1>10, <1>11
         DEF Next, Worker

LEMMA AndroidInvHolds ==
    Spec => []AndroidInv
<1>1. Init => AndroidInv
    BY AndroidInit, AndroidConstants
<1>2. AndroidInv /\ [Next]_vars => AndroidInv'
    BY AndroidStep, AndroidConstants
<1> QED  BY <1>1, <1>2, PTL DEF Spec

(***************************************************************************)
(* What a step may never do.                                               *)
(***************************************************************************)
StepIsRight == TunIsKept /\ LiveCoreSurvives /\ NoStartLost

\* Most steps give up neither the TUN nor a core, and do not end the service.
LEMMA KeepingIsRight ==
    ASSUME session'.tun = session.tun \/ session'.tun # NoTun, alive \subseteq alive',
           ending' = ending
    PROVE  StepIsRight
    BY DEF StepIsRight, TunIsKept, LiveCoreSurvives, NoStartLost

LEMMA TakingIs ==
    ASSUME NEW kinds, Takes(kinds)
    PROVE  Taking(kinds)
    BY DEF Takes, Taking

\* fail() finds no core that runs.
LEMMA FailIsRight ==
    ASSUME AndroidInv, ~destroyed, alive = {}, served' = served,
           NEW s \in Sessions, FailWith(s),
           s.tun = session.tun, s.keepBlocked = session.keepBlocked
    PROVE  StepIsRight
<1>1. \/ KeepsTun /\ session'.tun = session.tun /\ ending' = ending
      \/ ~KeepsTun /\ ending' = (ending \/ served = asked)
    BY FailIs DEF AndroidInv
<1>2. TunIsKept
    BY <1>1 DEF TunIsKept, KeepsTun
<1>3. LiveCoreSurvives
    BY DEF LiveCoreSurvives
<1>4. NoStartLost
    BY <1>1 DEF NoStartLost
<1> QED  BY <1>2, <1>3, <1>4 DEF StepIsRight

LEMMA MainStepsAreRight ==
    ASSUME AndroidInv,
           \/ \E kind \in Kinds : StartService(kind)
           \/ OnStartCommand \/ OnRevoke \/ OnDestroy
           \/ UserActs \/ Hears("network") \/ Hears("geo") \/ TimerFires
           \/ \E g \in alive, n \in {0, 2, 3} : OnStateChanged(g, n)
    PROVE  StepIsRight
<1>1. session \in Sessions /\ reports \in Nat
    BY DEF AndroidInv, Types
<1>2. CASE \/ \E kind \in Kinds : StartService(kind)
           \/ OnStartCommand \/ UserActs \/ Hears("network") \/ Hears("geo")
    <2>1. UNCHANGED <<session, alive, ending>>
        BY <1>2 DEF StartService, OnStartCommand, UserActs, Hears, worker_vars
    <2> QED  BY <2>1, KeepingIsRight
<1>3. CASE OnRevoke \/ OnDestroy
    <2>1. session' = Published(session, 0) /\ UNCHANGED <<alive, ending>>
        BY <1>3 DEF OnRevoke, OnDestroy, worker_vars
    <2>2. session'.tun = session.tun
        BY <1>1, <2>1 DEF Published, Sessions
    <2> QED  BY <2>1, <2>2, KeepingIsRight
<1>4. CASE TimerFires
    <2>1. session' = [session EXCEPT !.timer = NoTimer] /\ UNCHANGED <<alive, ending>>
        BY <1>4 DEF TimerFires, worker_vars
    <2>2. session'.tun = session.tun
        BY <1>1, <2>1 DEF Sessions
    <2> QED  BY <2>1, <2>2, KeepingIsRight
<1>5. CASE \E g \in alive, n \in {0, 2, 3} : OnStateChanged(g, n)
    <2>1. UNCHANGED <<session, ending>> /\ reports' = reports + 1
        BY <1>5 DEF OnStateChanged
    <2>2. reports' # reports
        BY <1>1, <2>1
    <2> QED  BY <2>1, <2>2 DEF StepIsRight, TunIsKept, LiveCoreSurvives, NoStartLost
<1> QED  BY <1>2, <1>3, <1>4, <1>5

\* The steps that end something on purpose.
LEMMA ClosingIsRight ==
    ASSUME AndroidInv, Stop \/ Revoked \/ Destroyed
    PROVE  StepIsRight
<1>1. Taking({"stop"}) \/ Taking({"revoked"}) \/ Taking({"destroy"})
    BY TakingIs DEF Stop, Revoked, Destroyed
<1>2. Taking({"stop", "revoked", "destroy"})
    BY <1>1 DEF Taking
<1>3. CASE Stop
    <2>1. served' = Head(queue).id /\ ending' = (ending \/ Head(queue).id = asked)
        BY <1>3 DEF Stop, StopSelf
    <2> QED  BY <1>2, <2>1 DEF StepIsRight, TunIsKept, LiveCoreSurvives, NoStartLost
<1>4. CASE Revoked
    <2>1. Taking({"revoked"})
        BY <1>4, TakingIs DEF Revoked
    <2> QED  BY <1>2, <2>1 DEF StepIsRight, TunIsKept, LiveCoreSurvives, NoStartLost
<1>5. CASE Destroyed
    <2>1. ending' = ending
        BY <1>5 DEF Destroyed
    <2> QED  BY <1>2, <2>1 DEF StepIsRight, TunIsKept, LiveCoreSurvives, NoStartLost
<1> QED  BY <1>3, <1>4, <1>5

LEMMA TasksAreRight ==
    ASSUME AndroidInv,
           \/ DropsTask \/ Ignores \/ Begins \/ GeoChanged \/ NetworkAvailable
           \/ CoreLost \/ CoreSays \/ RetryBlocked \/ RetryFails
    PROVE  StepIsRight
<1> DEFINE h == Head(queue)
<1>1. Types /\ session \in Sessions /\ queue \in Seq(Tasks)
    BY DEF AndroidInv, Types
<1>2. CASE DropsTask \/ Ignores \/ Begins \/ GeoChanged
    <2>1. UNCHANGED <<session, alive, ending>>
        BY <1>2 DEF DropsTask, Ignores, Begins, GeoChanged, worker_vars
    <2> QED  BY <2>1, KeepingIsRight
<1>3. CASE NetworkAvailable
    <2>1. session' \in {Scheduled(session), session} /\ UNCHANGED <<alive, ending>>
        BY <1>3 DEF NetworkAvailable
    <2>2. Scheduled(session).tun = session.tun
        BY <1>1, ScheduledIs DEF Sessions
    <2> QED  BY <2>1, <2>2, KeepingIsRight
<1>4. CASE CoreSays
    <2> DEFINE said == [session EXCEPT !.blocked = session.blocked /\ h.state # 2]
    <2>1. session' \in {session, Published(said, h.state)} /\ UNCHANGED <<alive, ending>>
        BY <1>4 DEF CoreSays
    <2>2. said.tun = session.tun /\ Published(said, h.state).tun = said.tun
        BY <1>1 DEF Published, Sessions
    <2> QED  BY <2>1, <2>2, KeepingIsRight
<1>5. CASE RetryBlocked
    <2>1. session' = Candidate(session) /\ alive \subseteq alive' /\ UNCHANGED ending
        BY <1>5 DEF RetryBlocked, CoreStarts
    <2> QED  BY <1>1, <2>1, CandidateIs, KeepingIsRight
<1>6. CASE CoreLost
    <2>1. Takes({"state"}) /\ OwnCore(h) /\ h.state = 0 /\ FailWith(session) /\ served' = served
        BY <1>6 DEF CoreLost, Fail
    <2>2. h \in Waiting /\ h.kind = "state"
        BY <1>1, <2>1, Taken
    <2>3. alive = {} /\ ~destroyed
        <3>1. h.token = session.generation /\ h.token \notin alive /\ ~destroyed
            BY <2>1, <2>2 DEF AndroidInv, CoreRight, OwnCore
        <3>2. session.client = session.generation
            BY <2>1, <2>2, OwnCoreIs
        <3> QED  BY <3>1, <3>2 DEF AndroidInv, CoreRight
    <2> QED  BY <1>1, <2>1, <2>3, FailIsRight
<1>7. CASE RetryFails
    <2>1. MayRetry(h) /\ FailWith(session) /\ served' = served
        BY <1>7 DEF RetryFails, Fail
    <2>2. alive = {} /\ ~destroyed
        BY <2>1 DEF MayRetry, AndroidInv, CoreRight
    <2> QED  BY <1>1, <2>1, <2>2, FailIsRight
<1> QED  BY <1>2, <1>3, <1>4, <1>5, <1>6, <1>7

LEMMA JobStepsAreRight ==
    ASSUME AndroidAssumption, AndroidInv,
           \/ Prepared \/ SamePlan \/ Rejected \/ Superseded \/ Establish
           \/ StartCore \/ StartCoreFails \/ HandleFailure
    PROVE  StepIsRight
<1>1. session \in Sessions
    BY DEF AndroidInv, Types
<1>2. CASE Prepared \/ SamePlan
    <2>1. UNCHANGED <<session, alive, ending>>
        BY <1>2 DEF Prepared, SamePlan
    <2> QED  BY <2>1, KeepingIsRight
<1>3. CASE Rejected
    <2>1. InJob("preparing")
        BY <1>3 DEF Rejected
    <2>2. CASE ~JobIsCurrent \/ KeepsSession
        <3>1. UNCHANGED <<ending, session, alive>>
            BY <1>3, <2>2 DEF Rejected
        <3> QED  BY <3>1, KeepingIsRight
    <2>3. CASE ~(~JobIsCurrent \/ KeepsSession)
        <3>1. FailWith(session) /\ ~destroyed /\ session.tun = NoTun
            BY <1>3, <2>3 DEF Rejected, Fail, JobIsCurrent, KeepsSession
        <3>2. alive = {}
            BY <3>1 DEF AndroidInv, CoreRight
        <3>3. served' = served
            BY <2>1 DEF InJob
        <3> QED  BY <1>1, <3>1, <3>2, <3>3, FailIsRight
    <2> QED  BY <2>2, <2>3
<1>4. CASE Superseded
    <2>1. InJob("prepared") /\ session' = Noted(session) /\ UNCHANGED <<alive, ending>>
        BY <1>4 DEF Superseded
    <2>2. job \in Jobs
        BY <2>1, InJobIs
    <2> QED  BY <1>1, <2>1, <2>2, NotedIs, KeepingIsRight
<1>5. CASE Establish
    <2>1. InJob("prepared") /\ UNCHANGED ending /\ job' = [job EXCEPT !.step = "established"]
          /\ \E k \in KillSwitches :
                session' = [Closed(session) EXCEPT !.tun = NewTun, !.keepBlocked = k,
                                        !.source = [of |-> job.source.of, by |-> "plan"]]
        BY <1>5 DEF Establish
    <2>2. job \in Jobs /\ job.step = "prepared"
        BY <2>1, InJobIs
    <2>3. job'.step = "established"
        BY <2>1, <2>2 DEF Jobs
    <2>4. session'.tun = NewTun
        BY <1>1, <2>1, ClosedIs DEF Sessions
    <2>5. NewTun # NoTun
        <3>1. job.source.of \in Configs /\ None \notin Configs
            BY <2>2 DEF Jobs, AndroidAssumption, None
        <3>2. NewTun.of \in Configs /\ NoTun.of = None
            BY <3>1 DEF NewTun, NoTun
        <3> QED  BY <3>1, <3>2
    <2> QED  BY <2>1, <2>2, <2>3, <2>4, <2>5
             DEF StepIsRight, TunIsKept, LiveCoreSurvives, NoStartLost
<1>6. CASE StartCore
    <2>1. InJob("established") /\ session' = Candidate(Noted(session))
          /\ alive \subseteq alive' /\ UNCHANGED ending
        BY <1>6 DEF StartCore, CoreStarts
    <2>2. job \in Jobs
        BY <2>1, InJobIs
    <2>3. session'.tun = session.tun
        BY <1>1, <2>1, <2>2, NotedIs, CandidateIs
    <2> QED  BY <2>1, <2>3, KeepingIsRight
<1>7. CASE StartCoreFails
    <2>1. session' \in {session, Candidate(session)} /\ UNCHANGED <<alive, ending>>
        BY <1>7 DEF StartCoreFails, CoreFails
    <2>2. session'.tun = session.tun
        BY <1>1, <2>1, CandidateIs
    <2> QED  BY <2>1, <2>2, KeepingIsRight
<1>8. CASE HandleFailure
    <2>1. InJob("failed")
        BY <1>8 DEF HandleFailure
    <2>2. job \in Jobs /\ job.step = "failed" /\ served' = served
        BY <2>1, InJobIs
    <2>3. alive = {}
        BY <2>2 DEF AndroidInv, JobRight
    <2>4. /\ Restored \in Sessions /\ Restored.tun = session.tun
          /\ Restored.keepBlocked = session.keepBlocked
        <3>1. job.source \in Sources
            BY <2>2 DEF Jobs, Sources
        <3> QED  BY <1>1, <3>1 DEF Restored, Sessions
    <2>5. CASE JobIsCurrent
        <3>1. FailWith(Restored) /\ ~destroyed
            BY <1>8, <2>5 DEF HandleFailure, JobIsCurrent
        <3> QED  BY <2>2, <2>3, <2>4, <3>1, FailIsRight
    <2>6. CASE ~JobIsCurrent
        <3>1. session' = Restored /\ UNCHANGED <<ending, alive>>
            BY <1>8, <2>6 DEF HandleFailure
        <3> QED  BY <2>4, <3>1, KeepingIsRight
    <2> QED  BY <2>5, <2>6
<1> QED  BY <1>2, <1>3, <1>4, <1>5, <1>6, <1>7, <1>8

LEMMA StepsAreRight ==
    ASSUME AndroidAssumption, AndroidInv, Next
    PROVE  StepIsRight
<1>1. CASE Worker
    BY <1>1, ClosingIsRight, TasksAreRight, JobStepsAreRight DEF Worker
<1> QED  BY <1>1, MainStepsAreRight DEF Next

\* The types of the component's own invariant.
LEMMA AndroidTypes ==
    ASSUME AndroidAssumption, AndroidInv
    PROVE  TypeOK
<1>1. Types
    BY DEF AndroidInv
<1>2. latest \in 0..asked
    <2>1. latest + Len(requests) = asked /\ Len(requests) \in Nat /\ latest \in Nat /\ asked \in Nat
        BY <1>1 DEF AndroidInv, StartsInOrder, Types
    <2> QED  BY <2>1
<1>3. served \in 0..latest /\ epoch \in 0..MaxEvents
    <2>1. served <= latest /\ epoch <= events /\ events <= MaxEvents
          /\ served \in Nat /\ epoch \in Nat /\ latest \in Nat /\ events \in Nat
        BY <1>1 DEF AndroidInv, StartsInOrder, Types
    <2>2. MaxEvents \in Nat
        BY DEF AndroidAssumption
    <2> QED  BY <2>1, <2>2
<1>4. job.step \in {"idle", "preparing", "prepared", "established", "failed"}
    BY <1>1 DEF Types, Jobs, Idle
<1>5. session.client \in 0..session.generation
    <2>1. session.generation \in Nat /\ session.client \in {0, session.generation}
        BY <1>1 DEF AndroidInv, Types, Sessions, CoreRight
    <2> QED  BY <2>1
<1>6. /\ session.tun \in Plans \cup {NoTun} /\ session.source \in Sources
      /\ session.profile \in Configs \cup {None} /\ session.state \in 0..6
    BY <1>1 DEF Types, Sessions
<1>7. session.blocked => session.tun # NoTun /\ session.keepBlocked
    BY DEF AndroidInv, BlockedRight
<1> QED  BY <1>1, <1>2, <1>3, <1>4, <1>5, <1>6, <1>7 DEF TypeOK, Types

\* Nothing waits when everything is handled.
LEMMA QuietIs ==
    ASSUME Quiet
    PROVE  Waiting = {} /\ job = Idle
    BY DEF Quiet, Waiting, ToSet

LEMMA StopsAreClean ==
    ASSUME AndroidInv
    PROVE  NothingLeft
<1>1. SUFFICES ASSUME Quiet, destroyed \/ latestKind = "stop"
               PROVE  /\ session.tun = NoTun /\ session.client = 0 /\ alive = {}
                      /\ session.timer = NoTimer /\ session.state = 0
    BY DEF NothingLeft
<1>2. Waiting = {}
    BY <1>1, QuietIs
<1>3. Clean
    BY <1>1, <1>2 DEF AndroidInv, StopsRight, WaitsFor
<1> QED  BY <1>3 DEF Clean, AndroidInv, StateRight

LEMMA RetryComes ==
    ASSUME AndroidInv
    PROVE  RetryIsComing
<1> DEFINE now == [seq |-> session.retrySeq, epoch |-> epoch]
<1>1. SUFFICES ASSUME session.blocked, session.client = 0, ~destroyed
               PROVE  \/ session.timer = now
                      \/ \E i \in DOMAIN queue : queue[i].kind = "retry" /\ queue[i].timer = now
                      \/ Coming("revoked")
    BY DEF RetryIsComing
<1>2. \/ session.timer = now
      \/ \E t \in Waiting : t.kind = "retry" /\ t.timer = now
      \/ WaitsFor("revoked")
    BY <1>1 DEF AndroidInv, BlockedRight
<1>3. queue \in Seq(Tasks)
    BY DEF AndroidInv, Types
<1> QED  BY <1>2, <1>3, ComingIsWaiting DEF Waiting, ToSet

LEMMA ShowsTruly ==
    ASSUME AndroidInv
    PROVE  ShownTruly
<1>1. SUFFICES ASSUME Quiet, ~LeftOver
               PROVE  /\ session.state = 0 <=> session.tun = NoTun
                      /\ session.state = 6 <=> session.blocked
    BY DEF ShownTruly
<1>2. Waiting = {}
    BY <1>1, QuietIs
<1>3. ~WaitsFor("destroy") /\ ~WaitsFor("revoked")
    BY <1>2 DEF WaitsFor
<1>4. session.blocked => session.tun # NoTun
    BY DEF AndroidInv, BlockedRight
<1>5. CASE session.tun = NoTun
    BY <1>4, <1>5 DEF AndroidInv, StateRight
<1>6. CASE session.tun # NoTun
    <2>1. ~destroyed
        BY <1>3, <1>6 DEF AndroidInv, StopsRight, Clean
    <2>2. session.blocked \/ session.client # 0
        BY <1>1, <1>6 DEF LeftOver
    <2> QED  BY <1>3, <1>6, <2>1, <2>2 DEF AndroidInv, StateRight
<1> QED  BY <1>5, <1>6

\* Without consent a TUN waits for its revocation.
LEMMA ConsentIsNeeded ==
    ASSUME AndroidInv
    PROVE  NoTunWithoutConsent
<1>1. queue \in Seq(Tasks)
    BY DEF AndroidInv, Types
<1> QED  BY <1>1, ComingIsWaiting DEF AndroidInv, StopsRight, NoTunWithoutConsent

(* A stop that is the last start, and the end of the service, leave no     *)
(* TUN, no core and no retry behind, whatever was queued before them or    *)
(* comes late; until then at most one core runs and it is the one the      *)
(* worker holds, a TUN without the user's consent has its revocation on    *)
(* the way, blocked traffic has a retry that counts, and the app shows     *)
(* what the worker owns (executeWorker() and its tasks, StartRequests.kt). *)
THEOREM AndroidStopsClean ==
    Spec => [](TypeOK /\ StopsClean)
<1>1. AndroidInv => TypeOK
    BY AndroidTypes, AndroidConstants
<1>2. AndroidInv => OneCore
    BY DEF AndroidInv, CoreRight, OneCore
<1>3. AndroidInv => StopsClean
    BY <1>2, StopsAreClean, ConsentIsNeeded, RetryComes, ShowsTruly DEF StopsClean
<1> QED  BY <1>1, <1>3, AndroidInvHolds, PTL

(* With the kill switch no failure and no new start gives up the TUN; a    *)
(* core that runs is stopped for a new TUN, a stop, a revocation or the    *)
(* end, and for nothing else; and the service ends only with the last      *)
(* start served, or revoked (fail(), replace(), stopSelfResult()).         *)
THEOREM AndroidKillSwitch ==
    Spec => KillSwitchHolds
<1>1. AndroidInv /\ [Next]_vars => [TunIsKept /\ LiveCoreSurvives /\ NoStartLost]_vars
    BY StepsAreRight, AndroidConstants DEF StepIsRight
<1> QED  BY <1>1, AndroidInvHolds, PTL DEF Spec, KillSwitchHolds
=============================================================================
