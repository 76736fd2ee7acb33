----------------------------- MODULE PlanLanes -----------------------------
(***************************************************************************)
(* What the queue of the MigrationScheduler promises: plans of a higher    *)
(* priority are taken first, and plans of the same priority in the order   *)
(* in which they were scheduled.  One first-in-first-out lane for each     *)
(* priority says that without any insertion into the middle of a queue.    *)
(***************************************************************************)
EXTENDS Naturals, Sequences

CONSTANTS Plans   \* records with the field priority

Priorities == {"High", "Medium", "Low"}

Rank(pr) == CASE pr = "High" -> 3 [] pr = "Medium" -> 2 [] pr = "Low" -> 1

VARIABLE lane   \* the plans that wait, per priority

Init == lane = [pr \in Priorities |-> <<>>]

Add(p) == lane' = [lane EXCEPT ![p.priority] = Append(@, p)]

Take(pr) ==
  /\ lane[pr] # <<>>
  /\ \A other \in Priorities : Rank(other) > Rank(pr) => lane[other] = <<>>
  /\ lane' = [lane EXCEPT ![pr] = Tail(@)]

Next == (\E p \in Plans : Add(p)) \/ (\E pr \in Priorities : Take(pr))

Spec == Init /\ [][Next]_lane
=============================================================================
