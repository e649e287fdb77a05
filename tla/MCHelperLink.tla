---------------------------- MODULE MCHelperLink ----------------------------
(* HelperLink for TLC: slots of one kind are interchangeable. *)
EXTENDS HelperLink, TLC

CONSTANTS h1, h2, c1, c2, s1, s2

SlotSymmetry == Permutations({h1, h2}) \cup Permutations({c1, c2}) \cup Permutations({s1, s2})
=============================================================================
