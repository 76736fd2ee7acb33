--------------------------- MODULE ShardInstance ---------------------------
(***************************************************************************)
(* The ShardInstance object of pkg/apis/shard/v1/types.go: its phases, the *)
(* table of legal phase transitions, and the methods that change a copy of *)
(* the object held in memory.  Everything here is a pure operator on such  *)
(* a copy; the modules that EXTEND this one say who holds which copy and   *)
(* when it is written back to the API server.                              *)
(*                                                                         *)
(* Data that no property distinguishes is abstracted:                      *)
(*  - LastHeartbeat is "fresh": younger than HealthCheck.Timeout or not;   *)
(*  - AssignedResources is "assigned": empty or not;                       *)
(*  - ErrorCount saturates at FailureThreshold, the only number it is      *)
(*    ever compared with;                                                  *)
(*  - Load, messages and timestamps of checks are left out (Load is at     *)
(*    most 1.0 whenever a worker writes it, so the overload check of       *)
(*    HealthChecker.CheckHealth does not decide anything).                 *)
(***************************************************************************)
EXTENDS Naturals

CONSTANT FailureThreshold   \* HealthCheckConfig.FailureThreshold

ASSUME FailureThresholdAssumption == FailureThreshold \in Nat \ {0}

Phases == {"Pending", "Running", "Draining", "Failed", "Terminated"}

(* A name without an object in the API server has the phase "Absent". *)
Health == [known : BOOLEAN, healthy : BOOLEAN, errors : 0..FailureThreshold]

Shard == [phase    : Phases \cup {"Absent"},
          health   : Health,
          fresh    : BOOLEAN,
          assigned : BOOLEAN]

NilHealth == [known |-> FALSE, healthy |-> FALSE, errors |-> 0]

HealthOf(ok, n) == [known |-> TRUE, healthy |-> ok, errors |-> n]

NoShard ==
  [phase |-> "Absent", health |-> NilHealth, fresh |-> FALSE, assigned |-> FALSE]

Exists(o) == o.phase # "Absent"

(* IsHealthy: a nil HealthStatus counts as unhealthy. *)
IsHealthy(o) == o.health.known /\ o.health.healthy

IsActive(o) == o.phase = "Running"

----------------------------------------------------------------------------
(* The transition table of IsValidPhaseTransition. *)
ValidNext(old) ==
  CASE old = "Pending"  -> {"Running", "Failed"}
    [] old = "Running"  -> {"Draining", "Failed"}
    [] old = "Draining" -> {"Terminated", "Running"}
    [] old = "Failed"   -> {"Running", "Terminated"}
    [] OTHER            -> {}

IsValidPhaseTransition(old, new) == new \in ValidNext(old)

CanTransitionTo(o, new) == IsValidPhaseTransition(o.phase, new)

(* ErrorCount++, saturating. *)
OneMoreError(n) == IF n < FailureThreshold THEN n + 1 ELSE n

HealthAfter(h, new) ==
  CASE new = "Running" /\ ~h.known -> HealthOf(TRUE, 0)
    [] new = "Failed" /\ h.known   -> HealthOf(FALSE, OneMoreError(h.errors))
    [] OTHER                       -> h

(* TransitionTo on a copy for which CanTransitionTo holds. *)
TransitionTo(o, new) ==
  [phase    |-> new,
   health   |-> HealthAfter(o.health, new),
   fresh    |-> o.fresh \/ new = "Running",
   assigned |-> o.assigned /\ new # "Terminated"]

----------------------------------------------------------------------------
(* The object CreateShardWithLifecycle builds for a new shard ... *)
ManagerShard ==
  [phase |-> "Pending", health |-> HealthOf(FALSE, 0), fresh |-> TRUE, assigned |-> FALSE]

(* ... and the one a worker builds when it finds none under its shard id. *)
WorkerShard ==
  [phase |-> "Pending", health |-> NilHealth, fresh |-> TRUE, assigned |-> FALSE]

(* updateHeartbeat: heartbeat now, and the worker's own view of its health. *)
Heartbeat(o, ok) == [o EXCEPT !.fresh = TRUE, !.health = HealthOf(ok, 0)]

(* OnShardFailed and OnShardRecovered assign the phase without asking the  *)
(* transition table.                                                       *)
MarkFailed(o) ==
  [o EXCEPT !.phase = "Failed", !.health = HealthOf(FALSE, FailureThreshold)]

MarkRecovered(o) == [o EXCEPT !.phase = "Running", !.health = HealthOf(TRUE, 0)]

(***************************************************************************)
(* The status HealthChecker.CheckHealth computes from the previous status  *)
(* it remembers for the shard: the error count restarts at 1 on the first  *)
(* failure, grows on consecutive ones and is 0 for a healthy shard.        *)
(***************************************************************************)
CheckedHealth(prev, ok) ==
  CASE ok                              -> HealthOf(TRUE, 0)
    [] ~ok /\ prev.known /\ ~prev.healthy -> HealthOf(FALSE, OneMoreError(prev.errors))
    [] OTHER                           -> HealthOf(FALSE, 1)
=============================================================================
