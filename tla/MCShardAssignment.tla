------------------------- MODULE MCShardAssignment -------------------------
(* A ring of eight hashes with two virtual nodes for each of three shards. *)
EXTENDS ShardAssignment

TwoPoints == [s \in Shards |-> CASE s = 1 -> {1, 6} [] s = 2 -> {0, 3} [] s = 3 -> {4, 7}]

KeyHash == [k \in Keys |-> 2]

AllStrategies == {"consistent-hash", "round-robin", "least-loaded"}
=============================================================================
