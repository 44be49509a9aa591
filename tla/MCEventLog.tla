----------------------------- MODULE MCEventLog -----------------------------
(* EventLog with its symmetries. *)
EXTENDS EventLog, TLC

Symmetry == Permutations(Emitters) \cup Permutations(Clients) \cup Permutations(Chans)
=============================================================================
