---------------------------- MODULE ShardPhases ----------------------------
(***************************************************************************)
(* What the phase field of the ShardInstance objects promises to a reader  *)
(* of the API server, whatever loops, workers and callers write it: a      *)
(* shard is created Pending, moves only along the transition table of      *)
(* types.go, and its object is removed only when the table lets the shard  *)
(* be Terminated.  ShardLifecycle is checked against this specification.   *)
(***************************************************************************)
EXTENDS ShardInstance

CONSTANT Shards

VARIABLE phase   \* the phase of every shard name, "Absent" without object

Init == phase \in [Shards -> {"Absent", "Pending", "Running"}]

Create(s) == /\ phase[s] = "Absent"
             /\ phase' = [phase EXCEPT ![s] = "Pending"]

Move(s) == \E new \in Phases :
             /\ IsValidPhaseTransition(phase[s], new)
             /\ phase' = [phase EXCEPT ![s] = new]

Remove(s) == /\ IsValidPhaseTransition(phase[s], "Terminated")
             /\ phase' = [phase EXCEPT ![s] = "Absent"]

Next == \E s \in Shards : Create(s) \/ Move(s) \/ Remove(s)

Spec == Init /\ [][Next]_phase
=============================================================================
