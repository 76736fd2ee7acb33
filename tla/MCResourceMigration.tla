------------------------ MODULE MCResourceMigration ------------------------
(* Plans for TLC: Bulk needs two batches, Single has Bulk's plan id, and   *)
(* Urgent and Usual are other plans with other priorities.                 *)
EXTENDS ResourceMigration

PlanOf(s, t, r, n, pr) ==
  [source |-> s, target |-> t, first |-> r, size |-> n, priority |-> pr]

Bulk   == PlanOf("a", "b", "r1", 11, "Low")
Single == PlanOf("a", "b", "r1", 1, "Low")
Usual  == PlanOf("a", "b", "r2", 1, "Medium")
Urgent == PlanOf("b", "a", "r2", 1, "High")

ClashingPlans == {Bulk, Single}
BulkOnly      == {Bulk}
MixedPlans    == {Bulk, Single, Usual, Urgent}
=============================================================================
