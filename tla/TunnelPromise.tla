--------------------------- MODULE TunnelPromise ---------------------------
(***************************************************************************)
(* TunnelSession with the last command the owner served remembered beside  *)
(* it, and what the session promises in terms of that command.             *)
(***************************************************************************)
EXTENDS TunnelSession

CONSTANT Connects   \* names for the connects served

ASSUME ConnectsAssumption ==
    /\ "off" \notin Connects
    /\ \A s \in Connects \cup {"off"} : Connects \ {s} # {}

VARIABLE asked   \* history: "off" after disconnectVpn, another of Connects after each
                 \* beginConnect, so that a connect repeated is told from no command

AskedInit == Init /\ asked = "off"

AskedNext ==
    \/ StartCommand /\ asked' \in Connects \ {asked}
    \/ StopCommand /\ asked' = "off"
    \/ Unasked /\ UNCHANGED asked

AskedSpec == AskedInit /\ [][AskedNext]_<<vars, asked>>

\* After a disconnect the session stays Disconnected until the next connect: no
\* late result, event of the core, timer or delayed start brings it back up
\* (disconnectVpn, m_stopRequested and the three generations).
OffStaysOff == asked = "off" => owner.state = "Disconnected"

Phase == CASE owner.state = "Disconnected" -> "off"
           [] owner.state \in {"Connecting", "Reconnecting"} -> "trying"
           [] owner.state = "Connected" -> "up"
           [] owner.state = "WaitingForNetwork" -> "waiting"
           [] owner.state = "Error" -> "failed"

Tunnel == IF owner.client = NoAttempt THEN "none" ELSE core[owner.client].status
Late == owner.delayed # NoConfig

Promise == INSTANCE VpnSession WITH
    phase <- Phase, tunnel <- Tunnel, late <- Late, killSwitch <- owner.killSwitch

\* The wrapper's threads, generations and timers implement that promise.
KeepsPromise == Promise!Spec
=============================================================================
