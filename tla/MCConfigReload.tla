--------------------------- MODULE MCConfigReload ---------------------------
(* Instances of ConfigReload: a valid specification, one with a field that *)
(* is not set, and one whose bounds contradict each other.                 *)
EXTENDS ConfigReload

Config(min, max, timeout) == [min |-> min, max |-> max, timeout |-> timeout]

DefaultConfig == Config(1, 3, 1)
UserSpecs == {Config(2, 3, 1), Config(2, 0, 0), Config(3, 2, 1)}
UserMaps == {[min |-> 2]}
=============================================================================
