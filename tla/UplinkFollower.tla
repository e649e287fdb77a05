--------------------------- MODULE UplinkFollower ---------------------------
(***************************************************************************)
(* The network adapter under a session on Windows (QtTrustTunnelClient).   *)
(* The core sends its own traffic through one adapter, a binding the whole *)
(* process shares.  Two writers move it: the owner's thread, which takes   *)
(* the active adapter when an attempt is prepared and then follows it with *)
(* a look every two seconds, and the threads of every core that lives,     *)
(* which put the binding back each time they protect a socket.             *)
(***************************************************************************)
EXTENDS Integers, FiniteSets

CONSTANTS
    Adapters,       \* indexes, none of them 0
    QuietLooks,     \* kQuietOfflineLooks
    MaxMoves,       \* bound: changes of the network
    UplinkHappens   \* what happens: "disagree", "rebuild", "drop"

UplinkAssumption ==
    /\ Adapters \subseteq Nat \ {0} /\ QuietLooks \in Nat \ {0} /\ MaxMoves \in Nat

ASSUME UplinkConstants == UplinkAssumption

Threads == {"current", "previous"}  \* of the session's core, and of the one before

VARIABLES
    active,     \* vpn_win_detect_active_if(): the adapter the core would take, or 0
    routed,     \* a physical adapter has a default route
    outbound,   \* the process's binding
    pinned,     \* m_winPhysicalIfIndex
    phase,      \* the session: "none", "retiring", "building", "connecting", "up"
    owner,      \* what the owner's thread is in the middle of, or "idle"
    captured,   \* the adapter an attempt was prepared with
    reported,   \* m_uplinkReported
    seen,       \* m_uplinkSeen
    quiet,      \* m_quietOfflineLooks
    protect,    \* each core thread in protectOutboundSocket()
    bound,      \* the session's core has protected a socket
    lingers,    \* the core before it still has threads
    told,       \* what the core was told last: the network is there, or not
    dns,        \* the adapter the core's system DNS servers were read off
    looked,     \* the adapter the session's last look found
    late,       \* looks since the last change that left the core elsewhere
    moves       \* changes of the network

network_vars == <<active, routed, moves>>
binding_vars == <<outbound, pinned>>
look_vars == <<reported, seen, quiet, looked, late>>
core_vars == <<told, dns, bound>>
uplink_vars == <<network_vars, binding_vars, look_vars, core_vars, phase, owner,
          captured, protect, lingers>>

Indexes == Adapters \cup {0}
Idle == [at |-> "idle", index |-> 0]

UplinkTypeOK ==
    /\ active \in Indexes /\ outbound \in Indexes /\ pinned \in Indexes
    /\ reported \in Indexes /\ seen \in Indexes
    /\ phase \in {"none", "retiring", "building", "connecting", "up"}
    /\ owner \in {"idle", "store", "set", "tell"}
    /\ owner \in {"set", "tell"} => phase = "up" /\ reported = pinned
    /\ quiet \in 0..(QuietLooks - 1)
    /\ protect \in [Threads -> [at : {"idle", "pin", "check"}, index : Indexes]]

-----------------------------------------------------------------------------
(* The network.                                                            *)

(* anUplinkMayBeBack() reads the routing table as the core does, and the   *)
(* follower is written not to depend on it.                                *)
NetworkMoves(a, r) ==
    /\ moves < MaxMoves
    /\ <<a, r>> # <<active, routed>>
    /\ "disagree" \in UplinkHappens \/ r = (a # 0)
    /\ active' = a
    /\ routed' = r
    /\ moves' = moves + 1
    /\ late' = IF a = active THEN late ELSE 0
    /\ UNCHANGED <<binding_vars, reported, seen, quiet, looked, core_vars, phase,
                   owner, captured, protect, lingers>>

-----------------------------------------------------------------------------
(* Protecting a socket.  The index is read, written and read again.        *)

Running(t) == IF t = "current" THEN phase \in {"connecting", "up"} ELSE lingers

Load(t) ==
    /\ Running(t)
    /\ protect[t] = Idle
    /\ protect' = [protect EXCEPT ![t] = [at |-> "pin", index |-> pinned]]
    /\ UNCHANGED <<network_vars, binding_vars, look_vars, core_vars, phase, owner,
                   captured, lingers>>

(* pinWindowsPhysicalOutbound(): 0 pins nothing.                           *)
Pin(t) ==
    /\ protect[t].at = "pin"
    /\ outbound' = IF protect[t].index # 0 THEN protect[t].index ELSE outbound
    /\ protect' = [protect EXCEPT ![t].at = "check"]
    /\ UNCHANGED <<network_vars, pinned, look_vars, core_vars, phase, owner,
                   captured, lingers>>

PinAgain(t) == IF protect[t].index = pinned THEN Idle
               ELSE [at |-> "pin", index |-> pinned]

Check(t) ==
    /\ protect[t].at = "check"
    /\ protect' = [protect EXCEPT ![t] = PinAgain(t)]
    /\ bound' = (bound \/ (t = "current" /\ protect'[t] = Idle))
    /\ UNCHANGED <<network_vars, binding_vars, look_vars, told, dns, phase, owner,
                   captured, lingers>>

-----------------------------------------------------------------------------
(* Attempts.                                                               *)

(* prepareAttempt() binds the process before it stores the index.          *)
Capture ==
    /\ owner = "idle"
    /\ phase = "none" \/ (phase = "up" /\ "rebuild" \in UplinkHappens)
    /\ phase = "up" => ~lingers
    /\ captured' = active
    /\ outbound' = IF active # 0 THEN active ELSE outbound
    /\ owner' = "store"
    /\ UNCHANGED <<network_vars, pinned, look_vars, core_vars, phase, protect,
                   lingers>>

(* The session's core goes with the attempt, and its threads with it.      *)
Store ==
    /\ owner = "store"
    /\ pinned' = captured
    /\ owner' = "idle"
    /\ phase' = IF phase = "up" THEN "retiring" ELSE "building"
    /\ protect' = IF phase = "up"
                  THEN [protect EXCEPT !["previous"] = protect["current"],
                                       !["current"] = Idle]
                  ELSE protect
    /\ lingers' = (lingers \/ phase = "up")
    /\ late' = 0
    /\ UNCHANGED <<network_vars, outbound, reported, seen, quiet, looked, core_vars,
                   captured>>

(* The worker: disconnect() of the old core returns when its threads have  *)
(* ended.                                                                  *)
Retire ==
    /\ phase = "retiring" /\ owner = "idle"
    /\ protect["previous"] = Idle
    /\ phase' = "building"
    /\ lingers' = FALSE
    /\ UNCHANGED <<network_vars, binding_vars, look_vars, core_vars, owner, captured,
                   protect>>

(* set_system_dns() reads the servers off the adapter active now.          *)
ReadDns ==
    /\ phase = "building"
    /\ phase' = IF active # 0 THEN "connecting" ELSE "none"
    /\ dns' = IF active # 0 THEN active ELSE dns
    /\ bound' = FALSE
    /\ UNCHANGED <<network_vars, binding_vars, look_vars, told, owner, captured,
                   protect, lingers>>

ResetTracking ==
    /\ reported' = outbound
    /\ seen' = outbound
    /\ quiet' = 0
    /\ looked' = 0
    /\ late' = 0
(* A core that has connected opened a socket to its server.                *)
AdoptAttempt ==
    /\ phase = "connecting"
    /\ bound
    /\ phase' = "up"
    /\ told' = "on"
    /\ ResetTracking
    /\ UNCHANGED <<network_vars, binding_vars, dns, bound, owner, captured, protect,
                   lingers>>

(* disconnectVpn() and teardownClient(): the core's threads have ended     *)
(* when its disconnect() returns.  An attempt that was under way is        *)
(* dropped, and its core taken down beside whatever comes next.            *)
Disconnect ==
    /\ owner = "idle"
    /\ \/ phase = "up" /\ protect["current"] = Idle /\ UNCHANGED <<protect, lingers>>
       \/ /\ phase = "connecting" /\ "drop" \in UplinkHappens
          /\ ~lingers
          /\ lingers' = TRUE
          /\ protect' = [protect EXCEPT !["previous"] = protect["current"],
                                        !["current"] = Idle]
    /\ phase' = "none"
    /\ pinned' = 0
    /\ UNCHANGED <<network_vars, outbound, look_vars, core_vars, owner, captured>>

(* retireCoreDetached(): the dropped core is gone.                         *)
DroppedEnds ==
    /\ lingers /\ phase # "retiring"
    /\ protect["previous"] = Idle
    /\ lingers' = FALSE
    /\ UNCHANGED <<network_vars, binding_vars, look_vars, core_vars, phase, owner,
                   captured, protect>>

-----------------------------------------------------------------------------
(* The follower: followUplink() and reportUplink(), on the owner's thread. *)

NeverAsks == reported = 0 /\ ~routed
StaysQuiet == reported = 0 /\ ~routed /\ quiet + 1 < QuietLooks

AtOnce == TRUE
Settled == active = seen \/ reported = 0

Behind == late' = IF active = reported' THEN 0 ELSE late + 1

QuietLook ==
    /\ phase = "up" /\ owner = "idle"
    /\ StaysQuiet
    /\ quiet' = quiet + 1
    /\ looked' = active
    /\ UNCHANGED <<network_vars, binding_vars, reported, seen, core_vars, phase,
                   owner, captured, protect, lingers>>
    /\ Behind

Look ==
    /\ phase = "up" /\ owner = "idle"
    /\ ~StaysQuiet
    /\ quiet' = 0
    /\ seen' = active
    /\ looked' = active
    /\ IF ~Settled \/ active = reported
       THEN UNCHANGED <<binding_vars, reported, told, owner>>
       ELSE /\ reported' = active
            /\ IF active = 0
               THEN told' = "off" /\ UNCHANGED <<binding_vars, owner>>
               ELSE /\ pinned' = active     \* stored before the binding is set
                    /\ owner' = "set"
                    /\ UNCHANGED <<outbound, told>>
    /\ Behind
    /\ UNCHANGED <<network_vars, dns, bound, phase, captured, protect, lingers>>

Set ==
    /\ owner = "set"
    /\ outbound' = reported
    /\ owner' = "tell"
    /\ UNCHANGED <<network_vars, pinned, look_vars, core_vars, phase, captured,
                   protect, lingers>>

(* The DNS servers are read again, and kept when they cannot be read.      *)
Tell ==
    /\ owner = "tell"
    /\ dns' = IF active # 0 THEN active ELSE dns
    /\ told' = "on"
    /\ owner' = "idle"
    /\ UNCHANGED <<network_vars, binding_vars, look_vars, bound, phase, captured,
                   protect, lingers>>

-----------------------------------------------------------------------------
UplinkInit ==
    /\ active \in Indexes /\ routed = (active # 0) /\ moves = 0
    /\ outbound = 0 /\ pinned = 0 /\ captured = 0
    /\ phase = "none" /\ owner = "idle"
    /\ reported = 0 /\ seen = 0 /\ quiet = 0 /\ looked = 0 /\ late = 0
    /\ told = "on" /\ dns = 0 /\ bound = FALSE /\ lingers = FALSE
    /\ protect = [t \in Threads |-> Idle]

UplinkNext ==
    \/ \E a \in Indexes, r \in BOOLEAN : NetworkMoves(a, r)
    \/ \E t \in Threads : Load(t) \/ Pin(t) \/ Check(t)
    \/ Capture \/ Store \/ Retire \/ ReadDns \/ AdoptAttempt \/ Disconnect \/ DroppedEnds
    \/ QuietLook \/ Look \/ Set \/ Tell

UplinkSpec == UplinkInit /\ [][UplinkNext]_uplink_vars

-----------------------------------------------------------------------------
(* protectOutboundSocket() pins until the index it read is still the       *)
(* index, and the follower stores before it sets, so that whoever writes   *)
(* last writes the newest: with nobody in between, the process is bound to *)
(* the adapter the owner stored last.  It is stated of a session that is   *)
(* up, since prepareAttempt() does set first, and the new core's first     *)
(* socket makes up for it.                                                 *)
BoundToTheLast ==
    (phase = "up" /\ owner = "idle" /\ pinned # 0
        /\ \A t \in Threads : protect[t] = Idle)
        => outbound = pinned

(* Moving costs the session a reconnect, and an adapter caught between two *)
(* states must not cost it one: a session that works moves only to the     *)
(* adapter that two looks in a row found.                                  *)
BlipIsNotAMove ==
    (phase = "up" /\ phase' = "up" /\ reported' # reported)
        => (reported = 0 \/ looked = active)

(* How far the core may stay behind the network: one look on another       *)
(* adapter, and while it is offline no look at all, or fewer than          *)
(* QuietLooks of them should the routing table not show the way out.       *)
CaughtUpInTime ==
    phase = "up" =>
        late <= IF reported # 0 THEN 1
                ELSE IF "disagree" \in UplinkHappens THEN QuietLooks - 1 ELSE 0

(* So sockets pinned on several threads while the network moves end on the *)
(* newest adapter, of which a session that works is told in a look or two. *)
PinnedToTheNewest == BoundToTheLast /\ CaughtUpInTime
=============================================================================
