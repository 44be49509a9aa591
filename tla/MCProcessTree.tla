--------------------------- MODULE MCProcessTree ---------------------------
(* Instances of ProcessTree for TLC. *)
EXTENDS ProcessTree, TLC

\* Concurrent SpawnChild calls run the same code.
SpawnerSymmetry == Permutations(Spawners)
=============================================================================
