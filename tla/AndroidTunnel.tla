---------------------------- MODULE AndroidTunnel ----------------------------
(***************************************************************************)
(* The Android VPN service (FreeTunnelVpnService).  Starts, revocation and *)
(* destruction come to the main thread, states to threads of the core,     *)
(* retries to the main looper: all of them queue tasks for the one worker  *)
(* that owns the core and the TUN.  A start takes the worker several steps *)
(* and the main thread goes on meanwhile.                                  *)
(***************************************************************************)
EXTENDS Integers, Sequences, FiniteSets, SequencesExt

CONSTANTS
    Kinds,          \* starts sent: "start", "reconnect", "always_on", "stop"
    Configs,        \* saved configs, each with a split profile of its name
    KillSwitches,   \* values of the kill switch setting
    GeoOn,          \* the plans have rules of geo lists
    MaxStarts,      \* bound: starts
    MaxReports,     \* bound: states reported by cores
    MaxFaults,      \* bound: refused settings and cores that do not start
    MaxEvents       \* bound: revocations, networks, changed geo lists

AndroidAssumption ==
    /\ Kinds \subseteq {"start", "reconnect", "always_on", "stop"}
    /\ KillSwitches \subseteq BOOLEAN /\ GeoOn \in BOOLEAN
    /\ {MaxStarts, MaxReports, MaxFaults, MaxEvents} \subseteq Nat
    /\ "none" \notin Configs

ASSUME AndroidConstants == AndroidAssumption

None == "none"
NoTun == [of |-> None, profile |-> None]
NoSource == [of |-> None, by |-> None]
NoTimer == [seq |-> -1, epoch |-> -1]

VARIABLES
    requests,       \* starts the system has yet to deliver
    asked,          \* the id of the last start the system was asked for
    latest,         \* latestStartId
    latestKind,     \* what that start was
    epoch,          \* permissionEpoch
    permitted,      \* VpnService.prepare() returns null
    selected,       \* the config the app has selected
    destroyed,      \* onDestroy() was called
    ending,         \* stopSelfResult() succeeded
    queue,          \* tasks of the worker
    job,            \* the start it is in the middle of
    served,         \* servedStartId
    session,        \* what the worker owns
    alive,          \* cores that run, by their generation
    reports, faults, events     \* how many there were

system_vars == <<requests, asked, permitted, selected>>
start_vars == <<latest, latestKind>>
main_vars == <<system_vars, start_vars, epoch, destroyed>>
worker_vars == <<job, served, alive, ending>>
count_vars == <<reports, faults, events>>
vars == <<main_vars, queue, session, worker_vars, count_vars>>

Idle == [step |-> "idle"]
Sources == [of : Configs, by : {"user", "plan"}] \cup {NoSource}
Plans == [of : Configs, profile : Configs]

TypeOK ==
    /\ asked \in 0..MaxStarts /\ latest \in 0..asked /\ served \in 0..latest
    /\ epoch \in 0..MaxEvents
    /\ job.step \in {"idle", "preparing", "prepared", "established", "failed"}
    /\ session.tun \in Plans \cup {NoTun}
    /\ session.source \in Sources
    /\ session.profile \in Configs \cup {None}
    /\ session.client \in 0..session.generation
    /\ session.state \in 0..6
    /\ session.blocked => session.tun # NoTun /\ session.keepBlocked

-----------------------------------------------------------------------------
(* What the worker's functions do to what it owns.                         *)

Published(s, n) == IF destroyed THEN s ELSE [s EXCEPT !.state = n]

(* cancelRetry() and scheduleRetry().                                      *)
Cancelled(s) == [s EXCEPT !.retrySeq = @ + 1, !.timer = NoTimer]
Scheduled(s) ==
    LET c == Cancelled(s)
    IN [c EXCEPT !.timer = [seq |-> c.retrySeq, epoch |-> epoch]]

Stopped(s) == [Cancelled(s) EXCEPT !.generation = @ + 1, !.client = 0]

Closed(s) ==
    [Stopped(s) EXCEPT !.tun = NoTun, !.blocked = FALSE,
                       !.source = NoSource, !.profile = None]

StopsCore == alive' = alive \ {session.client}

(* stopSelfResult(): it fails for any start but the last.                  *)
EndedWith == served
StopSelf(id) == ending' = (ending \/ id = asked)

Close ==
    /\ session' = Published(Closed(session), 0)
    /\ StopsCore

(* fail().                                                                 *)
ClosesAlways == FALSE
KeepsTun == session.keepBlocked /\ session.tun # NoTun

TriedOnce(s) == IF s.blocked THEN Stopped(s)
                ELSE Published([Scheduled(Stopped(s)) EXCEPT !.blocked = TRUE], 6)
Blocked(s) == IF s.blocked THEN Scheduled(Stopped(s))
              ELSE Published([Scheduled(Stopped(s)) EXCEPT !.blocked = TRUE], 6)

FailWith(s) ==
    /\ StopsCore
    /\ \/ /\ KeepsTun
          /\ session' = Blocked(s)
          /\ UNCHANGED ending
       \/ /\ ~KeepsTun
          /\ session' = Published(Closed(s), 0)
          /\ StopSelf(EndedWith)
Fail == FailWith(session)

-----------------------------------------------------------------------------
(* The system and the main thread.                                         *)

Enqueue(t) == queue' = IF destroyed THEN queue ELSE Append(queue, t)

StartService(kind) ==
    /\ asked < MaxStarts /\ ~ending
    /\ asked' = asked + 1
    /\ requests' = Append(requests, [kind |-> kind, id |-> asked + 1,
                                     config |-> IF kind = "start" THEN selected ELSE None])
    /\ UNCHANGED <<start_vars, epoch, permitted, selected, destroyed>>
    /\ UNCHANGED <<queue, session, worker_vars, count_vars>>

OnStartCommand ==
    /\ requests # <<>>
    /\ LET r == Head(requests)
       IN /\ latest' = r.id /\ latestKind' = r.kind
          /\ Enqueue([kind |-> r.kind, id |-> r.id, config |-> r.config, epoch |-> epoch])
    /\ requests' = Tail(requests)
    /\ UNCHANGED <<asked, epoch, permitted, selected, destroyed>>
    /\ UNCHANGED <<session, worker_vars, count_vars>>

OnRevoke ==
    /\ events < MaxEvents /\ permitted /\ ~destroyed /\ latest > 0
    /\ events' = events + 1
    /\ permitted' = FALSE
    /\ epoch' = epoch + 1
    /\ session' = Published(session, 0)
    /\ Enqueue([kind |-> "revoked", id |-> latest])
    /\ UNCHANGED <<requests, asked, selected, start_vars, destroyed>>
    /\ UNCHANGED <<worker_vars, reports, faults>>

OnDestroy ==
    /\ ending /\ ~destroyed
    /\ destroyed' = TRUE
    /\ session' = Published(session, 0)
    /\ Enqueue([kind |-> "destroy"])
    /\ UNCHANGED <<system_vars, start_vars, epoch, worker_vars, count_vars>>

(* The user consents, or selects another config.                           *)
UserActs ==
    /\ \/ ~permitted /\ permitted' = TRUE /\ UNCHANGED selected
       \/ asked < MaxStarts /\ selected' \in Configs \ {selected} /\ UNCHANGED permitted
    /\ UNCHANGED <<requests, asked, start_vars, epoch, destroyed>>
    /\ UNCHANGED <<queue, session, worker_vars, count_vars>>

(* A network appears, or a geo list changed.                               *)
Hears(kind) ==
    /\ events < MaxEvents /\ ~destroyed
    /\ kind = "geo" => GeoOn
    /\ events' = events + 1
    /\ Enqueue([kind |-> kind])
    /\ UNCHANGED <<main_vars, session, worker_vars, reports, faults>>

TimerFires ==
    /\ session.timer # NoTimer
    /\ Enqueue([kind |-> "retry", timer |-> session.timer])
    /\ session' = [session EXCEPT !.timer = NoTimer]
    /\ UNCHANGED <<main_vars, worker_vars, count_vars>>

(* A thread of a core.  What it said waits behind what stops it.           *)
OnStateChanged(g, n) ==
    /\ reports < MaxReports
    /\ reports' = reports + 1
    /\ Enqueue([kind |-> "state", token |-> g, state |-> n])
    /\ alive' = IF n = 0 THEN alive \ {g} ELSE alive
    /\ UNCHANGED <<main_vars, ending, job, served, session, faults, events>>

-----------------------------------------------------------------------------
(* The worker takes the next task.                                         *)

Takes(kinds) ==
    /\ job = Idle
    /\ queue # <<>> /\ Head(queue).kind \in kinds
    /\ queue' = Tail(queue)
    /\ UNCHANGED <<main_vars, reports, events>>

Current(t) == ~destroyed /\ t.id = latest /\ t.epoch = epoch

Stop ==
    /\ Takes({"stop"}) /\ Current(Head(queue))
    /\ served' = Head(queue).id
    /\ Close
    /\ StopSelf(Head(queue).id)
    /\ UNCHANGED <<job, faults>>

(* Always-on and the start after an update leave a running VPN alone.      *)
Ignores ==
    /\ Takes({"always_on"}) /\ Current(Head(queue))
    /\ session.client # 0
    /\ served' = Head(queue).id
    /\ UNCHANGED <<ending, job, session, alive, faults>>

(* What a start runs: what it says, what runs already, or what is saved.   *)
SourceOf(t) == IF t.config # None THEN [of |-> t.config, by |-> "user"]
               ELSE IF session.source # NoSource THEN session.source
               ELSE [of |-> selected, by |-> "user"]
ProfileOf(t) == IF t.config # None THEN t.config
                ELSE IF session.profile # None THEN session.profile ELSE selected

Preparing(geo, source, profile) ==
    [step |-> "preparing", id |-> latest, epoch |-> epoch, geo |-> geo,
     source |-> source, profile |-> profile]

Begins ==
    /\ Takes({"start", "reconnect", "always_on"})
    /\ LET t == Head(queue)
       IN /\ Current(t)
          /\ t.kind = "always_on" => session.client = 0
          /\ served' = t.id
          /\ job' = Preparing(FALSE, SourceOf(t), ProfileOf(t))
    /\ UNCHANGED <<ending, session, alive, faults>>

(* geoListener: the plan is built again from what runs.                    *)
GeoChanged ==
    /\ Takes({"geo"})
    /\ IF session.source # NoSource /\ session.profile # None /\ ~destroyed
          /\ latest = served /\ session.state # 0
       THEN job' = Preparing(TRUE, session.source, session.profile)
       ELSE UNCHANGED job
    /\ UNCHANGED <<ending, served, session, alive, faults>>

(* networkAvailable().                                                     *)
NetworkAvailable ==
    /\ Takes({"network"})
    /\ session' = IF ~destroyed /\ session.blocked /\ session.client = 0
                  THEN Scheduled(session) ELSE session
    /\ UNCHANGED <<ending, job, served, alive, faults>>

Revoked ==
    /\ Takes({"revoked"})
    /\ Close
    /\ StopSelf(Head(queue).id)
    /\ UNCHANGED <<job, served, faults>>

Destroyed ==
    /\ Takes({"destroy"})
    /\ session' = Closed(session)
    /\ StopsCore
    /\ UNCHANGED <<ending, job, served, faults>>

OwnCore(t) == ~destroyed /\ t.token = session.generation

CoreLost ==
    /\ Takes({"state"}) /\ OwnCore(Head(queue))
    /\ Head(queue).state = 0
    /\ Fail
    /\ UNCHANGED <<job, served, faults>>

(* recovered(), and what the core says while traffic is not blocked.       *)
CoreSays ==
    /\ Takes({"state"}) /\ OwnCore(Head(queue))
    /\ LET n == Head(queue).state
       IN /\ n # 0
          /\ session' = IF session.blocked /\ n # 2 THEN session
                        ELSE Published([session EXCEPT !.blocked = @ /\ n # 2], n)
    /\ UNCHANGED <<ending, job, served, alive, faults>>

-----------------------------------------------------------------------------
(* startCore().                                                            *)

Candidate(s) ==
    LET c == [s EXCEPT !.generation = @ + 1, !.client = s.generation + 1]
    IN IF c.blocked THEN c ELSE Published(c, 1)

CoreStarts(s) ==
    /\ session' = Candidate(s)
    /\ alive' = alive \cup {session.generation + 1}
    /\ UNCHANGED faults

(* VpnClient() or start() fails; the second leaves the client behind.      *)
CoreFails(s) ==
    /\ faults < MaxFaults
    /\ faults' = faults + 1
    /\ session' \in {s, Candidate(s)}

MayRetry(t) ==
    /\ t.timer.seq = session.retrySeq /\ t.timer.epoch = epoch
    /\ session.tun # NoTun /\ ~destroyed
    /\ session.blocked /\ session.client = 0

RetryBlocked ==
    /\ Takes({"retry"}) /\ MayRetry(Head(queue))
    /\ CoreStarts(session)
    /\ UNCHANGED <<ending, job, served>>

(* The attempt fails again: fail() is told at once.                        *)
RetryFails ==
    /\ Takes({"retry"}) /\ MayRetry(Head(queue))
    /\ faults < MaxFaults
    /\ faults' = faults + 1
    /\ Fail
    /\ UNCHANGED <<job, served>>

(* A start, a state or a retry that is no longer wanted.                   *)
DropsTask ==
    /\ Takes(Kinds \cup {"state", "retry"})
    /\ LET t == Head(queue)
       IN CASE t.kind = "state" -> ~OwnCore(t)
            [] t.kind = "retry" -> ~MayRetry(t)
            [] OTHER -> ~Current(t)
    /\ UNCHANGED <<session, worker_vars, faults>>

-----------------------------------------------------------------------------
(* The worker goes on with a start.                                        *)

InJob(step) ==
    /\ job.step = step
    /\ UNCHANGED <<main_vars, queue, served, reports, events>>

JobIsCurrent == ~destroyed /\ job.id = latest /\ job.epoch = epoch

(* prepare() takes no generated document that has a geo list's rules.      *)
Refusable == job.source.by = "plan" /\ GeoOn

Prepared ==
    /\ InJob("preparing")
    /\ ~Refusable /\ permitted
    /\ job' = [job EXCEPT !.step = "prepared"]
    /\ UNCHANGED <<ending, session, alive, faults>>

(* The changed list makes no other plan.                                   *)
SamePlan ==
    /\ InJob("preparing")
    /\ job.geo
    /\ job' = Idle
    /\ UNCHANGED <<ending, session, alive, faults>>

(* handleReplacementFailure() of settings that are refused.                *)
KeepsSession == session.tun # NoTun

Rejected ==
    /\ InJob("preparing")
    /\ IF Refusable \/ ~permitted THEN UNCHANGED faults
       ELSE faults < MaxFaults /\ faults' = faults + 1
    /\ IF ~JobIsCurrent \/ KeepsSession
       THEN UNCHANGED <<ending, session, alive>>
       ELSE Fail
    /\ job' = Idle

(* replace() does nothing for a start that is no longer the latest, and    *)
(* its caller notes the source all the same.                               *)
Noted(s) == [s EXCEPT !.source = job.source, !.profile = job.profile]

Superseded ==
    /\ InJob("prepared")
    /\ ~JobIsCurrent
    /\ session' = Noted(session)
    /\ job' = Idle
    /\ UNCHANGED <<ending, alive, faults>>

NewTun == [of |-> job.source.of, profile |-> job.profile]

Establish ==
    /\ InJob("prepared")
    /\ JobIsCurrent
    /\ \E k \in KillSwitches :
        session' = [Closed(session) EXCEPT
                        !.tun = NewTun, !.keepBlocked = k,
                        !.source = [of |-> job.source.of, by |-> "plan"]]
    /\ StopsCore
    /\ job' = [job EXCEPT !.step = "established"]
    /\ UNCHANGED <<ending, faults>>

MayStart == ~destroyed /\ job.epoch = epoch

StartCore ==
    /\ InJob("established")
    /\ MayStart
    /\ CoreStarts(Noted(session))
    /\ job' = Idle
    /\ UNCHANGED ending

StartCoreFails ==
    /\ InJob("established")
    /\ IF MayStart THEN CoreFails(session) ELSE UNCHANGED <<session, faults>>
    /\ job' = [job EXCEPT !.step = "failed"]
    /\ UNCHANGED <<ending, alive>>

(* handleReplacementFailure() once the TUN was replaced.  A plan left for   *)
(* a changed list stands under its own source, any other under itself.     *)
Restored == IF job.geo THEN [session EXCEPT !.source = job.source] ELSE session

HandleFailure ==
    /\ InJob("failed")
    /\ IF JobIsCurrent THEN FailWith(Restored) ELSE session' = Restored /\ UNCHANGED <<ending, alive>>
    /\ job' = Idle
    /\ UNCHANGED faults

-----------------------------------------------------------------------------
Init ==
    /\ requests = <<>> /\ asked = 0 /\ latest = 0 /\ latestKind = None
    /\ epoch = 0 /\ permitted = TRUE /\ selected \in Configs
    /\ destroyed = FALSE /\ ending = FALSE
    /\ queue = <<>> /\ job = Idle /\ served = 0
    /\ session = [client |-> 0, generation |-> 0, tun |-> NoTun, keepBlocked |-> TRUE,
                  source |-> NoSource, profile |-> None, blocked |-> FALSE,
                  retrySeq |-> 0, timer |-> NoTimer, state |-> 0]
    /\ alive = {}
    /\ reports = 0 /\ faults = 0 /\ events = 0

Worker ==
    \/ DropsTask \/ Stop \/ Ignores \/ Begins
    \/ GeoChanged \/ NetworkAvailable \/ Revoked \/ Destroyed
    \/ CoreLost \/ CoreSays
    \/ RetryBlocked \/ RetryFails
    \/ Prepared \/ SamePlan \/ Rejected \/ Superseded \/ Establish
    \/ StartCore \/ StartCoreFails \/ HandleFailure

Next ==
    \/ \E kind \in Kinds : StartService(kind)
    \/ OnStartCommand \/ OnRevoke \/ OnDestroy
    \/ UserActs \/ Hears("network") \/ Hears("geo")
    \/ TimerFires
    \/ \E g \in alive, n \in {0, 2, 3} : OnStateChanged(g, n)
    \/ Worker

Spec == Init /\ [][Next]_vars

-----------------------------------------------------------------------------
Quiet == queue = <<>> /\ job = Idle /\ requests = <<>>
Taking(kinds) == job = Idle /\ queue # <<>> /\ Head(queue).kind \in kinds
Coming(kind) == \E i \in DOMAIN queue : queue[i].kind = kind

(* "Traffic covered by this VPN is discarded while new cores are tried":   *)
(* with the kill switch no failure and no new start gives up the TUN, only *)
(* a stop, a revocation and the end of the service.                        *)
TunIsKept ==
    (session.tun # NoTun /\ session.keepBlocked /\ session'.tun = NoTun)
        => Taking({"stop", "revoked", "destroy"})

(* Whatever was queued before it or comes late, a stop that is the last    *)
(* start, or the end of the service, leaves nothing running or planned.    *)
NothingLeft ==
    (Quiet /\ (destroyed \/ latestKind = "stop")) =>
        /\ session.tun = NoTun /\ session.client = 0 /\ alive = {}
        /\ session.timer = NoTimer /\ session.state = 0

(* "Revocation always invalidates resources, even if another START arrived *)
(* while this task waited."                                                *)
NoTunWithoutConsent ==
    (~permitted /\ session.tun # NoTun) => Coming("revoked")

(* One core at a time is on the TUN, and it is the one the worker holds.   *)
OneCore == alive \subseteq {session.client}

(* A core that runs is stopped for a new TUN, a stop, a revocation or the  *)
(* end, and never for what another core said or for settings that were     *)
(* refused.                                                                *)
LiveCoreSurvives ==
    \A g \in alive \ alive' :
        \/ reports' # reports
        \/ Taking({"stop", "revoked", "destroy"})
        \/ job.step = "prepared" /\ job'.step = "established"

(* A start that came while the worker was failing an older one keeps the   *)
(* service: it ends only with the last start served, or revoked.           *)
NoStartLost ==
    (~ending /\ ending') => (served' = asked \/ Taking({"revoked"}))

(* While traffic is blocked and no core is tried, the next attempt is on   *)
(* its way: nothing that happens in between takes it away unmade.          *)
RetryIsComing ==
    (session.blocked /\ session.client = 0 /\ job = Idle /\ ~destroyed) =>
        LET now == [seq |-> session.retrySeq, epoch |-> epoch]
        IN \/ session.timer = now
           \/ \E i \in DOMAIN queue : queue[i].kind = "retry" /\ queue[i].timer = now
           \/ Coming("revoked")

(* A TUN that was established by a start another one overtook, and whose    *)
(* core failed, is left to that other start; it stays as it is if that one *)
(* is refused.                                                             *)
LeftOver == session.tun # NoTun /\ session.client = 0 /\ ~session.blocked

(* Once everything is handled, what the app shows is so: off without a     *)
(* TUN, blocked while no core has connected, and otherwise neither.        *)
ShownTruly ==
    Quiet /\ ~LeftOver =>
             /\ session.state = 0 <=> session.tun = NoTun
             /\ session.state = 6 <=> session.blocked

(* StopsClean.  A stop, a revocation or the end of the service leaves no   *)
(* core, no TUN and no retry behind; until then one core is on the TUN,    *)
(* traffic that is held back has a retry coming, and the app shows what is *)
(* so (close, onRevoke, scheduleRetry, publish).                           *)
StopsClean ==
    /\ NothingLeft /\ NoTunWithoutConsent
    /\ OneCore /\ RetryIsComing /\ ShownTruly

(* KillSwitchHolds.  No failure, network, geo list or new start gives up a *)
(* TUN that holds traffic back or stops a core that runs, and the service  *)
(* ends only with the last start served (fail, replace, stopSelfResult).   *)
KillSwitchHolds == [][TunIsKept /\ LiveCoreSurvives /\ NoStartLost]_vars
=============================================================================
