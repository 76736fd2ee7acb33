------------------------- MODULE ResourceMigration -------------------------
(***************************************************************************)
(* The ResourceMigrator of pkg/controllers/resource_migrator.go with its   *)
(* MigrationScheduler: goroutines that execute plans with retries, callers *)
(* that start, cancel and roll back plans while they run, and the loop     *)
(* that feeds scheduled plans to the migrator.                             *)
(*                                                                         *)
(* Plan ids are what generatePlanID makes of a plan: source, target and    *)
(* first resource, so that different plans can have the same id.           *)
(*                                                                         *)
(* The transfer of a resource only decorates a local copy, and the shards  *)
(* are copies that are never written back: what remains of a batch is the  *)
(* execution's accounting.  Loads are inputs: a batch may find the target  *)
(* overloaded.                                                             *)
(***************************************************************************)
EXTENDS Integers, Sequences, SequencesExt

CONSTANTS
  ShardIDs, Resources,
  Plans,           \* what the callers ask for: records as in Plan below
  MaxRetries,      \* retries of an execution (3)
  MaxConcurrent,   \* slots of the scheduler (3)
  MaxExecutions,   \* bound: executions ever started
  MaxQueue         \* bound: plans waiting in the scheduler

Priorities == {"High", "Medium", "Low"}

(* MigrationPlan: its resources are "first" and size - 1 others. *)
Plan == [source : ShardIDs, target : ShardIDs, first : Resources,
         size : Nat \ {0}, priority : Priorities]

ASSUME PlansAssumption == Plans \subseteq Plan
ASSUME LimitsAssumption ==
  /\ MaxRetries \in Nat /\ MaxConcurrent \in Nat \ {0}
  /\ MaxExecutions \in Nat /\ MaxQueue \in Nat

PlanIDs == ShardIDs \X ShardIDs \X Resources

generatePlanID(p) == <<p.source, p.target, p.first>>

ReversePlan(p) ==
  [p EXCEPT !.source = p.target, !.target = p.source, !.priority = "High"]

Statuses == {"Pending", "InProgress", "Completed", "Failed", "RolledBack"}

VARIABLES
  executions,   \* every MigrationExecution ever made, in order
  active,       \* activeMigrations: plan id -> index of an execution, or 0
  history,      \* migrationHistory: plan id -> index of an execution, or 0
  reversing,    \* executions marked RolledBack whose reverse is not started
  queue,        \* priorityQueue
  running,      \* currentRunning
  taken         \* the plan ProcessScheduledMigrations has in its hands

migration == <<executions, active, history, reversing>>
scheduler == <<queue, running, taken>>
vars == <<executions, active, history, reversing, queue, running, taken>>

Executions == DOMAIN executions

----------------------------------------------------------------------------
(* ExecuteMigration: refused while an execution of that id is active; else *)
(* a Pending execution is registered and its goroutine started.            *)
Refused(p) == active[generatePlanID(p)] # 0

NewExecution(p) ==
  [plan |-> p, status |-> "Pending", at |-> "new", moved |-> 0, failed |-> 0,
   retries |-> 0, batch |-> 0, cancelled |-> FALSE]

(* Mutant: the active migrations are not looked at. *)
RegisterAnyway(p) ==
  /\ Len(executions) < MaxExecutions
  /\ executions' = Append(executions, NewExecution(p))
  /\ active' = [active EXCEPT ![generatePlanID(p)] = Len(executions) + 1]

Register(p) ==
  IF Refused(p) THEN UNCHANGED <<executions, active>>
  ELSE /\ Len(executions) < MaxExecutions
       /\ executions' = Append(executions, NewExecution(p))
       /\ active' = [active EXCEPT ![generatePlanID(p)] = Len(executions) + 1]

(* A call of ExecuteMigration from outside. *)
ExecuteMigration(p) ==
  /\ Register(p)
  /\ UNCHANGED <<history, reversing, scheduler>>

----------------------------------------------------------------------------
(* The goroutine of execution e, executeMigrationAsync.                    *)

Set(e, x) == executions' = [executions EXCEPT ![e] = x]

Local == UNCHANGED <<active, history, reversing, scheduler>>

Begin(e) ==
  /\ executions[e].at = "new"
  /\ Set(e, [executions[e] EXCEPT !.status = "InProgress", !.at = "try"])
  /\ Local

Fail(e, x) == Set(e, [x EXCEPT !.status = "Failed", !.at = "finish"])

(* The loop of executeMigrationWithRetries sees the context first. *)
GiveUp(e) ==
  /\ executions[e].at \in {"try", "wait"}
  /\ executions[e].cancelled
  /\ Fail(e, executions[e])
  /\ Local

(* Mutants: the attempts are not counted, or one retry too many is made. *)
RetryUncounted(e, x) == Set(e, [x EXCEPT !.at = "wait"])
RetryOnceMore(e, x) ==
  IF x.retries > MaxRetries THEN Fail(e, [x EXCEPT !.retries = @ + 1])
                            ELSE Set(e, [x EXCEPT !.retries = @ + 1, !.at = "wait"])

(* An attempt returned an error: wait for the next one, or fail. *)
AttemptFails(e, x) ==
  LET counted == [x EXCEPT !.retries = @ + 1] IN
  IF counted.retries > MaxRetries THEN Fail(e, counted)
                                  ELSE Set(e, [counted EXCEPT !.at = "wait"])

(* performMigration up to the batches: the listed phases decide.  A shard  *)
(* that is not listed is "Absent".                                         *)
Suitable(p, phase) ==
  /\ phase[p.source] \in {"Running", "Draining"}
  /\ phase[p.target] = "Running"

Attempt(e, phase) ==
  LET x == executions[e] IN
  /\ x.at = "try"
  /\ ~x.cancelled
  /\ IF Suitable(x.plan, phase)
       THEN Set(e, [x EXCEPT !.at = "batches", !.batch = 0])
       ELSE AttemptFails(e, x)
  /\ Local

calculateBatchSize(n) == IF n <= 10 THEN n ELSE IF n <= 100 THEN 10 ELSE 20

(* The next batch of the attempt starts after x.batch resources. *)
NextBatch(x) ==
  LET left == x.plan.size - x.batch
      full == calculateBatchSize(x.plan.size)
  IN IF left < full THEN left ELSE full

(* migrateBatch succeeds, *)
BatchMoves(e) ==
  LET x == executions[e] IN
  /\ x.at = "batches"
  /\ x.batch < x.plan.size
  /\ ~x.cancelled
  /\ Set(e, [x EXCEPT !.batch = @ + NextBatch(x), !.moved = @ + NextBatch(x)])
  /\ Local

(* or fails because the target is overloaded or the context done. *)
BatchFails(e) ==
  LET x == executions[e] IN
  /\ x.at = "batches"
  /\ x.batch < x.plan.size
  /\ ~x.cancelled
  /\ AttemptFails(e, [x EXCEPT !.failed = @ + NextBatch(x)])
  /\ Local

(* Between batches a cancelled context ends the attempt. *)
BatchCancelled(e) ==
  LET x == executions[e] IN
  /\ x.at = "batches"
  /\ x.batch < x.plan.size
  /\ x.cancelled
  /\ AttemptFails(e, x)
  /\ Local

(* After the retry interval. *)
Retry(e) ==
  /\ executions[e].at = "wait"
  /\ Set(e, [executions[e] EXCEPT !.at = "try"])
  /\ Local

(* Mutant: any attempt that stops is taken for a success. *)
CompleteEarly(e) ==
  LET x == executions[e] IN
  /\ x.at = "batches"
  /\ Set(e, [x EXCEPT !.status = "Completed", !.at = "finish"])
  /\ Local

Complete(e) ==
  LET x == executions[e] IN
  /\ x.at = "batches"
  /\ x.batch >= x.plan.size
  /\ Set(e, [x EXCEPT !.status = "Completed", !.at = "finish"])
  /\ Local

(* The deferred function: into the history under its plan id. *)
Finish(e) ==
  LET id == generatePlanID(executions[e].plan) IN
  /\ executions[e].at = "finish"
  /\ Set(e, [executions[e] EXCEPT !.at = "end", !.cancelled = TRUE])
  /\ active' = [active EXCEPT ![id] = 0]
  /\ history' = [history EXCEPT ![id] = e]
  /\ UNCHANGED <<reversing, scheduler>>

Goroutine(e) ==
  \/ Begin(e) \/ GiveUp(e)
  \/ \E phase \in [ShardIDs -> {"Running", "Draining", "Failed", "Absent"}] : Attempt(e, phase)
  \/ BatchMoves(e) \/ BatchFails(e) \/ BatchCancelled(e)
  \/ Retry(e) \/ Complete(e) \/ Finish(e)

(* The migration timeout, or the caller's context is done. *)
ContextDone(e) ==
  /\ executions[e].at # "end"
  /\ ~executions[e].cancelled
  /\ Set(e, [executions[e] EXCEPT !.cancelled = TRUE])
  /\ Local

----------------------------------------------------------------------------
(* CancelMigration, and RollbackMigration of an active migration. *)
CancelMigration(id) ==
  /\ active[id] # 0
  /\ Set(active[id], [executions[active[id]] EXCEPT !.cancelled = TRUE, !.status = "RolledBack"])
  /\ Local

(* Mutant: whatever ended can be rolled back. *)
RollbackEnded(id) ==
  /\ active[id] = 0
  /\ history[id] # 0
  /\ Set(history[id], [executions[history[id]] EXCEPT !.status = "RolledBack"])
  /\ reversing' = reversing \cup {history[id]}
  /\ UNCHANGED <<active, history, scheduler>>

(* RollbackMigration of one that completed: the status under the lock, ... *)
RollbackMigration(id) ==
  /\ active[id] = 0
  /\ history[id] # 0
  /\ executions[history[id]].status = "Completed"
  /\ Set(history[id], [executions[history[id]] EXCEPT !.status = "RolledBack"])
  /\ reversing' = reversing \cup {history[id]}
  /\ UNCHANGED <<active, history, scheduler>>

(* ... the reverse plan after it is released. *)
ExecuteReverse(e) ==
  /\ e \in reversing
  /\ Register(ReversePlan(executions[e].plan))
  /\ reversing' = reversing \ {e}
  /\ UNCHANGED <<history, scheduler>>

----------------------------------------------------------------------------
(* The scheduler.                                                          *)

comparePriority(a, b) ==
  LET value(pr) == CASE pr = "High" -> 3 [] pr = "Medium" -> 2 [] pr = "Low" -> 1
  IN value(a) - value(b)

(* Mutant: a plan overtakes the plans of its own priority. *)
AddPlanFirst(q, p) ==
  LET i == SelectInSeq(q, LAMBDA x : comparePriority(p.priority, x.priority) >= 0)
  IN IF i = 0 THEN Append(q, p) ELSE InsertAt(q, i, p)

(* AddPlan: before the first plan of a lower priority. *)
AddPlan(q, p) ==
  LET i == SelectInSeq(q, LAMBDA x : comparePriority(p.priority, x.priority) > 0)
  IN IF i = 0 THEN Append(q, p) ELSE InsertAt(q, i, p)

ScheduleMigration(p) ==
  /\ Len(queue) < MaxQueue
  /\ queue' = AddPlan(queue, p)
  /\ UNCHANGED <<running, taken, migration>>

GetNextPlan ==
  /\ taken = <<>>
  /\ running < MaxConcurrent
  /\ queue # <<>>
  /\ taken' = <<Head(queue)>>
  /\ queue' = Tail(queue)
  /\ running' = running + 1
  /\ UNCHANGED migration

(* ProcessScheduledMigrations: MarkCompleted only when the execution is    *)
(* refused.                                                                *)
ExecuteScheduled ==
  /\ taken # <<>>
  /\ Register(taken[1])
  /\ taken' = <<>>
  /\ running' = IF Refused(taken[1]) THEN running - 1 ELSE running
  /\ UNCHANGED <<queue, history, reversing>>

ProcessScheduledMigrations == GetNextPlan \/ ExecuteScheduled

----------------------------------------------------------------------------
Init ==
  /\ executions = <<>>
  /\ active = [id \in PlanIDs |-> 0]
  /\ history = [id \in PlanIDs |-> 0]
  /\ reversing = {}
  /\ queue = <<>>
  /\ running = 0
  /\ taken = <<>>

Next ==
  \/ \E p \in Plans : ExecuteMigration(p) \/ ScheduleMigration(p)
  \/ \E e \in Executions : Goroutine(e) \/ ContextDone(e) \/ ExecuteReverse(e)
  \/ \E id \in PlanIDs : CancelMigration(id) \/ RollbackMigration(id)
  \/ ProcessScheduledMigrations

Safety == Init /\ [][Next]_vars

(* Goroutines run, and the scheduler's loop polls its queue. *)
Fairness ==
  /\ \A e \in 1..MaxExecutions : WF_vars(e \in Executions /\ Goroutine(e))
  /\ WF_vars(ProcessScheduledMigrations)

Spec == Safety /\ Fairness

----------------------------------------------------------------------------
(* Type invariant: executions, the two maps and the scheduler's queue.     *)
TypeOK ==
  /\ \A e \in Executions :
       /\ executions[e].plan \in Plan
       /\ executions[e].status \in Statuses
       /\ executions[e].at \in {"new", "try", "batches", "wait", "finish", "end"}
       /\ executions[e].retries \in 0..(MaxRetries + 1)
       /\ executions[e].batch \in 0..executions[e].plan.size
       /\ executions[e].moved \in Nat /\ executions[e].failed \in Nat
       /\ executions[e].cancelled \in BOOLEAN
  /\ active \in [PlanIDs -> {0} \cup Executions]
  /\ history \in [PlanIDs -> {0} \cup Executions]
  /\ reversing \subseteq Executions
  /\ queue \in Seq(Plan) /\ taken \in Seq(Plan) /\ Len(taken) <= 1
  /\ running \in 0..MaxConcurrent

(* Safety: an execution is registered under its plan id until its own      *)
(* deferred function takes it out, so no execution ever removes another    *)
(* one's entry and none runs without being found by a cancel.              *)
Registered ==
  /\ \A e \in Executions :
       LET id == generatePlanID(executions[e].plan) IN
       IF executions[e].at = "end" THEN history[id] >= e ELSE active[id] = e
  /\ \A id \in PlanIDs :
       active[id] # 0 => generatePlanID(executions[active[id]].plan) = id

(* Safety: an execution ends Completed only when its last attempt moved    *)
(* every resource, and each attempt before that counted fewer than all.    *)
Accounting ==
  \A e \in Executions :
    LET x == executions[e] IN
    /\ x.status = "Completed" => x.batch = x.plan.size /\ x.moved >= x.plan.size
    /\ x.moved <= x.batch + x.retries * (x.plan.size - 1)
    /\ x.failed > 0 => x.retries > 0

(* Action property: once an execution is in the history nothing about it   *)
(* changes, except that a Completed one is rolled back, and only once.     *)
HistoryFinal ==
  [][\A e \in Executions :
       executions[e].at = "end" =>
         \/ executions'[e] = executions[e]
         \/ /\ executions[e].status = "Completed"
            /\ executions'[e] = [executions[e] EXCEPT !.status = "RolledBack"]
            /\ e \in reversing']_vars

(* A bound on the steps the goroutine of execution x can still make: an    *)
(* attempt moves at least one resource with each of its batches.           *)
StepsLeft(x) ==
  LET attempts == MaxRetries + 1 - x.retries
      left == attempts * (x.plan.size + 3)
  IN CASE x.at = "new"     -> left + 2
       [] x.at = "wait"    -> left + 1
       [] x.at = "try"     -> left
       [] x.at = "batches" -> left - 1 - x.batch
       [] x.at = "finish"  -> 1
       [] x.at = "end"     -> 0

(* Action property: the retries of an execution run out.  Whatever moves   *)
(* its goroutine brings it nearer to its end, and neither a cancel, a      *)
(* rollback nor another execution of its plan id sends it back to work.    *)
RetriesRunOut ==
  [][\A e \in Executions :
       LET x == executions[e]
           y == executions'[e]
       IN  \/ StepsLeft(y) \in 0 .. StepsLeft(x) - 1
           \/ y = [x EXCEPT !.status = y.status, !.cancelled = y.cancelled]]_vars

(* The plans of one priority in a queue, in their order. *)
LaneOf(q, pr) ==
  LET lane[n \in 0 .. Len(q)] ==
        IF n = 0 THEN <<>>
        ELSE IF q[n].priority = pr THEN Append(lane[n - 1], q[n]) ELSE lane[n - 1]
  IN  lane[Len(q)]

Lanes == INSTANCE PlanLanes WITH lane <- [pr \in Priorities |-> LaneOf(queue, pr)]

(* Refinement: the single queue with its insertions in the middle serves   *)
(* the plans as one lane per priority would.                               *)
ServesByPriority == Lanes!Spec

(* Liveness: whatever fails, is cancelled or times out, every execution    *)
(* that was started ends up in the history.                                *)
ExecutionEnds ==
  \A e \in 1..MaxExecutions :
    e \in Executions ~> (e \in Executions /\ executions[e].at = "end")

(* Claim of resource_migrator.go:92, that the next plan is executed if     *)
(* capacity allows: with nothing active, a waiting plan gets its turn.     *)
QueuedPlanStarts ==
  (queue # <<>> /\ taken = <<>> /\ \A id \in PlanIDs : active[id] = 0)
    ~> (queue = <<>> \/ \E id \in PlanIDs : active[id] # 0)
=============================================================================
