----------------------------- MODULE VpnSession -----------------------------
(***************************************************************************)
(* What the VPN session promises to the user who turns it on and off, with *)
(* no word of threads, attempts or generations: off stays off, a session   *)
(* that was asked for moves between its phases on its own, and under the   *)
(* kill switch the tunnel in use is given up for a command only, or after  *)
(* it ended by itself.                                                     *)
(***************************************************************************)
CONSTANT Connects   \* what tells a connect served from the one before it

VARIABLES
    asked,      \* the last command served: "off", or one of Connects
    phase,      \* "off", "trying", "up", "waiting" or "failed"
    tunnel,     \* "none", "live" or "ended": the core in use
    late,       \* whether a start waits for the old session to go down
    killSwitch

vars == <<asked, phase, tunnel, late, killSwitch>>

Phases == {"off", "trying", "up", "waiting", "failed"}

On == asked # "off"

Init == asked = "off" /\ phase = "off" /\ tunnel = "none" /\ late = FALSE /\ killSwitch = FALSE

TurnOff == /\ asked' = "off" /\ phase' = "off" /\ tunnel' = "none" /\ late' = FALSE
           /\ UNCHANGED killSwitch

\* A running session goes down first, and the start is made later.  A start whose
\* configuration is refused leaves the tunnel there may be.
TurnOn == /\ asked' \in Connects \ {asked}
          /\ \/ phase' = "off" /\ tunnel' = "none" /\ late' = TRUE
             \/ phase' = "trying" /\ tunnel' = "none" /\ UNCHANGED late
             \/ phase' = "failed" /\ UNCHANGED <<tunnel, late>>
          /\ UNCHANGED killSwitch

SetKillSwitch == killSwitch' \in BOOLEAN /\ UNCHANGED <<asked, phase, tunnel, late>>

\* The start that waited.  Nothing is in use then, unless another start overtook
\* it, which it replaces or, refused, leaves.
LateStart == /\ On /\ late /\ late' = FALSE
             /\ \/ phase' = "trying" /\ tunnel' = "none"
                \/ phase' = "failed" /\ UNCHANGED tunnel
             /\ UNCHANGED <<asked, killSwitch>>

ComesUp == /\ On /\ phase # "off" /\ tunnel = "none"
           /\ tunnel' \in {"live", "ended"}
           /\ UNCHANGED <<asked, phase, late, killSwitch>>

TunnelEnds == /\ tunnel = "live" /\ tunnel' = "ended"
              /\ UNCHANGED <<asked, phase, late, killSwitch>>

Reports == /\ On /\ phase # "off"
           /\ phase' \in {"trying", "up", "waiting", "failed"}
           /\ UNCHANGED <<asked, tunnel, late, killSwitch>>

\* The session starts over with another core.
StartsOver == /\ On /\ phase # "off"
              /\ tunnel = "live" => ~killSwitch
              /\ tunnel' = "none"
              /\ phase' \in {"trying", "waiting", "failed"}
              /\ UNCHANGED <<asked, late, killSwitch>>

Next == SetKillSwitch \/ TurnOff \/ TurnOn \/ LateStart \/ ComesUp \/ TunnelEnds
            \/ Reports \/ StartsOver

Spec == Init /\ [][Next]_vars
=============================================================================
