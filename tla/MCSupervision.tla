--------------------------- MODULE MCSupervision ---------------------------
(* Supervision with a symmetry for the runs that check only invariants. *)
EXTENDS Supervision, TLC

\* CHOOSE p \in Pids is the only asymmetry and the model starts from it, so
\* only the instances are permuted.
InstanceSymmetry == Permutations(Instances)
=============================================================================
