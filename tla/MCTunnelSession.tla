-------------------------- MODULE MCTunnelSession --------------------------
(* TunnelSession on small instances. *)
EXTENDS TunnelSession, TLC

AttemptSymmetry == Permutations(Attempts)

SettingsSymmetry == Permutations(Attempts) \cup Permutations(Routings)
                        \cup Permutations(Configs \ BadConfigs)
=============================================================================
