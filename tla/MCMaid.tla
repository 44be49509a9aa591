------------------------------- MODULE MCMaid -------------------------------
(* Instances of Maid for TLC. *)
EXTENDS Maid, TLC

\* Concurrent SpawnChild calls run the same code.
SpawnerSymmetry == Permutations(Spawners)
=============================================================================
