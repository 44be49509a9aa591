---------------------------- MODULE MCAssistant ----------------------------
(* Assistant for TLC: turns and delegations are interchangeable. *)
EXTENDS Assistant, TLC

Symmetry == Permutations(Turns) \cup Permutations(Posted)
=============================================================================
