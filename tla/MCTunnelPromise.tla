-------------------------- MODULE MCTunnelPromise --------------------------
(* TunnelPromise on small instances. *)
EXTENDS TunnelPromise, TLC

AttemptSymmetry == Permutations(Attempts) \cup Permutations(Connects)
=============================================================================
