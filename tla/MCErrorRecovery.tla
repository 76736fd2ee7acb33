-------------------------- MODULE MCErrorRecovery --------------------------
(* The kinds of errors of the runs of ErrorRecovery. *)
EXTENDS ErrorRecovery

CONSTANTS Components, manager, config, s1

Kind(t, c, s) == [type |-> t, component |-> c, shard |-> s]

(* Shards that do not start or fail, components that run out of resources, *)
(* a broken configuration and a type without a strategy.                   *)
MixedKinds ==
  {Kind("shard_runtime", manager, s) : s \in Shards}
  \cup {Kind("resource_exhaustion", c, None) : c \in Components}
  \cup {Kind("shard_startup", manager, s1), Kind("configuration_error", config, None),
        Kind("other", manager, None)}

(* The calls are interchangeable, and so are the components. *)
Symmetry == Permutations(Errors) \cup Permutations(Components)
=============================================================================
