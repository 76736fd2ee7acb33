-------------------------- MODULE MCShardLifecycle --------------------------
(* Model values and symmetry for TLC; the runs choose the wiring (Actors). *)
EXTENDS ShardLifecycle, TLC

Symmetry == Permutations(Shards)
=============================================================================
