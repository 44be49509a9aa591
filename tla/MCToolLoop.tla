----------------------------- MODULE MCToolLoop -----------------------------
(* ToolLoop for TLC: runs are interchangeable. *)
EXTENDS ToolLoop, TLC

Symmetry == Permutations(Runs)
=============================================================================
