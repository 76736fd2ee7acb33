---------------------- MODULE ResourceMigrationProofs ----------------------
(***************************************************************************)
(* What the ResourceMigrator keeps for every set of plans, every limit and *)
(* every interleaving of its goroutines with its callers: an execution is  *)
(* registered exactly while its goroutine runs, its counters add up, what  *)
(* is in the history stays as it is, and the scheduler's queue implements  *)
(* one lane per priority.                                                  *)
(***************************************************************************)
EXTENDS ResourceMigration, SetSums, SequenceTheorems, TLAPS

----------------------------------------------------------------------------
(* The scheduler's queue.                                                  *)

(* AddPlan of resource_migrator.go makes a queue of plans of a queue of    *)
(* plans, one longer.                                                      *)
LEMMA AddPlanType ==
  ASSUME NEW q \in Seq(Plan), NEW p \in Plan
  PROVE  AddPlan(q, p) \in Seq(Plan) /\ Len(AddPlan(q, p)) = Len(q) + 1
<1> DEFINE I == {j \in 1..Len(q) : comparePriority(p.priority, q[j].priority) > 0}
           i == IF I # {} THEN Min(I) ELSE 0
<1>1. AddPlan(q, p) = IF i = 0 THEN Append(q, p) ELSE InsertAt(q, i, p)
  BY DEF AddPlan, SelectInSeq
<1>2. i \in 0..Len(q)
  <2>1. CASE I = {}
    BY <2>1
  <2>2. CASE I # {}
    <3>1. I \in SUBSET Nat
      OBVIOUS
    <3>2. Min(I) \in I
      BY <2>2, <3>1, LeastOf
    <3> QED BY <2>2, <3>2
  <2> QED BY <2>1, <2>2
<1> HIDE DEF i
<1>3. CASE i = 0
  BY <1>1, <1>3
<1>4. CASE i # 0
  <2>1. i \in 1..Len(q)
    BY <1>2, <1>4
  <2>2. SubSeq(q, 1, i - 1) \in Seq(Plan) /\ Len(SubSeq(q, 1, i - 1)) = i - 1
    BY <2>1
  <2>3. SubSeq(q, i, Len(q)) \in Seq(Plan) /\ Len(SubSeq(q, i, Len(q))) = Len(q) - i + 1
    BY <2>1
  <2>4. AddPlan(q, p) = SubSeq(q, 1, i - 1) \o <<p>> \o SubSeq(q, i, Len(q))
    BY <1>1, <1>4 DEF InsertAt
  <2>5. /\ SubSeq(q, 1, i - 1) \o <<p>> \in Seq(Plan)
        /\ Len(SubSeq(q, 1, i - 1) \o <<p>>) = i
    BY <2>1, <2>2
  <2>6. ASSUME NEW a \in Seq(Plan), NEW b \in Seq(Plan)
        PROVE  a \o b \in Seq(Plan) /\ Len(a \o b) = Len(a) + Len(b)
    OBVIOUS
  <2>7. /\ AddPlan(q, p) \in Seq(Plan)
        /\ Len(AddPlan(q, p)) = i + (Len(q) - i + 1)
    BY <2>3, <2>4, <2>5, <2>6
  <2> QED BY <2>1, <2>7
<1> QED BY <1>3, <1>4

----------------------------------------------------------------------------
(* The inductive invariant.                                                *)

Execution ==
  [plan : Plan, status : Statuses,
   at : {"new", "try", "batches", "wait", "finish", "end"},
   moved : Nat, failed : Nat, retries : 0..(MaxRetries + 1), batch : Nat,
   cancelled : BOOLEAN]

(* One execution: an attempt that has not ended can still be counted, and  *)
(* the resources moved are those of this attempt and, for each one before, *)
(* all but one at most.                                                    *)
Consistent(x) ==
  /\ x.batch <= x.plan.size
  /\ x.batch <= x.moved
  /\ x.moved <= x.batch + x.retries * (x.plan.size - 1)
  /\ x.at \in {"new", "try", "wait"} =>
       x.batch < x.plan.size /\ x.moved <= x.retries * (x.plan.size - 1)
  /\ x.at \notin {"finish", "end"} => x.retries <= MaxRetries
  /\ x.status = "Completed" => x.batch = x.plan.size /\ x.at \in {"finish", "end"}
  /\ x.failed > 0 => x.retries > 0

Typed ==
  /\ executions \in Seq(Execution)
  /\ active \in [PlanIDs -> {0} \cup Executions]
  /\ history \in [PlanIDs -> {0} \cup Executions]
  /\ reversing \subseteq Executions
  /\ queue \in Seq(Plan)
  /\ taken \in Seq(Plan) /\ Len(taken) <= 1
  /\ running \in 0..MaxConcurrent
  /\ taken # <<>> => running > 0

(* The active execution of a plan id is one that has not ended, and newer  *)
(* than the one in the history.                                            *)
ActiveLives ==
  \A id \in PlanIDs :
    active[id] # 0 => /\ executions[active[id]].at # "end"
                      /\ history[id] <= active[id]

IInv ==
  /\ Typed
  /\ \A e \in Executions : Consistent(executions[e])
  /\ Registered
  /\ ActiveLives

(* The invariant implies the ones TLC checks. *)
LEMMA InvariantsFollow == IInv => TypeOK /\ Registered /\ Accounting
<1> SUFFICES ASSUME IInv PROVE TypeOK /\ Accounting
  BY DEF IInv
<1>1. \A e \in Executions : executions[e] \in Execution
  BY DEF IInv, Typed, Executions
<1>2. TypeOK
  <2>1. \A e \in Executions : executions[e].batch \in 0..executions[e].plan.size
    BY <1>1 DEF IInv, Consistent, Execution, Plan
  <2> QED BY <1>1, <2>1 DEF IInv, Typed, TypeOK, Execution
<1>3. Accounting
  BY <1>1 DEF IInv, Consistent, Accounting, Execution, Plan
<1> QED BY <1>2, <1>3

LEMMA InitInvariant == Init => IInv
<1> SUFFICES ASSUME Init PROVE IInv
  OBVIOUS
<1>1. Executions = {}
  BY DEF Init, Executions
<1> QED BY <1>1, LimitsAssumption DEF Init, IInv, Typed, Registered, ActiveLives

(* A plan's id and its reverse. *)
LEMMA PlanFacts ==
  ASSUME NEW p \in Plan
  PROVE  generatePlanID(p) \in PlanIDs /\ ReversePlan(p) \in Plan
BY DEF generatePlanID, PlanIDs, ReversePlan, Plan, Priorities

----------------------------------------------------------------------------
(* Steps that write one execution.                                         *)

(* Whatever writes execution e and leaves its plan, and whether its        *)
(* goroutine has ended, keeps the invariant if the new record is good.     *)
LEMMA WriteOne ==
  ASSUME IInv, NEW e \in Executions, NEW y \in Execution, Consistent(y),
         y.plan = executions[e].plan,
         y.at = "end" <=> executions[e].at = "end",
         executions' = [executions EXCEPT ![e] = y],
         UNCHANGED <<active, history, scheduler>>, reversing' \subseteq Executions
  PROVE  IInv'
<1>1. Executions' = Executions /\ executions' \in Seq(Execution)
  BY DEF IInv, Typed, Executions
<1>2. Typed'
  BY <1>1 DEF IInv, Typed, scheduler
<1>3. (\A d \in Executions : Consistent(executions[d]))'
  BY <1>1 DEF IInv, Typed, Executions
<1>4. \A d \in Executions : /\ executions'[d].plan = executions[d].plan
                            /\ executions'[d].at = "end" <=> executions[d].at = "end"
  BY DEF IInv, Typed, Executions
<1>5. Registered'
  BY <1>1, <1>4 DEF IInv, Typed, Registered
<1>6. ActiveLives'
  BY <1>1, <1>4 DEF IInv, Typed, ActiveLives
<1> QED BY <1>2, <1>3, <1>5, <1>6 DEF IInv

(* The next attempt may count one failed batch more than this one. *)
LEMMA OneMoreRetry ==
  ASSUME NEW r \in Nat, NEW s \in Nat \ {0}
  PROVE  (r + 1) * (s - 1) = r * (s - 1) + (s - 1)
OBVIOUS

(* A failed attempt, with or without a batch that failed. *)
LEMMA AttemptFailsGood ==
  ASSUME IInv, NEW e \in Executions, NEW x \in Execution,
         x.plan = executions[e].plan, x.batch = executions[e].batch,
         x.moved = executions[e].moved, x.retries = executions[e].retries,
         x.status = executions[e].status, x.at = executions[e].at,
         x.at \in {"try", "batches"}, x.batch < x.plan.size,
         AttemptFails(e, x), Local
  PROVE  IInv'
<1> DEFINE c == [x EXCEPT !.retries = @ + 1]
           failed == [c EXCEPT !.status = "Failed", !.at = "finish"]
           waits == [c EXCEPT !.at = "wait"]
<1>1. /\ x.retries \in Nat /\ x.plan.size \in Nat \ {0}
      /\ x.moved \in Nat /\ x.batch \in Nat /\ x.failed \in Nat
  BY DEF Execution, Plan
<1>2. /\ x.retries <= MaxRetries /\ x.status # "Completed"
      /\ x.batch <= x.moved
      /\ x.moved <= x.batch + x.retries * (x.plan.size - 1)
  BY DEF IInv, Consistent
<1>3. x.moved <= (x.retries + 1) * (x.plan.size - 1)
  <2>1. x.retries * (x.plan.size - 1) \in Nat
    BY <1>1
  <2> QED BY <1>1, <1>2, <2>1, OneMoreRetry
<1>4. (x.retries + 1) * (x.plan.size - 1) \in Nat
  BY <1>1
<1>5. failed \in Execution /\ waits \in Execution
  <2>1. x.retries + 1 \in 0..(MaxRetries + 1)
    BY <1>1, <1>2, LimitsAssumption
  <2> QED BY <2>1 DEF Execution, Statuses
<1>6. Consistent(failed)
  <2>1. /\ failed.batch = x.batch /\ failed.moved = x.moved /\ failed.plan = x.plan
        /\ failed.retries = x.retries + 1 /\ failed.at = "finish"
        /\ failed.status = "Failed"
    BY DEF Execution
  <2> HIDE DEF failed
  <2> QED BY <1>1, <1>2, <1>3, <1>4, <2>1 DEF Consistent
<1>7. c.retries <= MaxRetries => Consistent(waits)
  <2>1. /\ waits.batch = x.batch /\ waits.moved = x.moved /\ waits.plan = x.plan
        /\ waits.retries = x.retries + 1 /\ waits.at = "wait"
        /\ waits.status = x.status /\ c.retries = x.retries + 1
    BY DEF Execution
  <2> HIDE DEF waits, c
  <2> QED BY <1>1, <1>2, <1>3, <1>4, <2>1 DEF Consistent
<1>8. failed.plan = x.plan /\ waits.plan = x.plan /\ failed.at # "end" /\ waits.at # "end"
  BY DEF Execution
<1>9. c.retries \in Int
  BY <1>1 DEF Execution
<1>10. \/ executions' = [executions EXCEPT ![e] = failed]
       \/ c.retries <= MaxRetries /\ executions' = [executions EXCEPT ![e] = waits]
  BY <1>9, LimitsAssumption DEF AttemptFails, Fail, Set
<1>11. /\ UNCHANGED <<active, history, scheduler>>
       /\ reversing' \subseteq Executions
  BY DEF Local, IInv, Typed
<1> HIDE DEF failed, waits, c
<1> QED BY <1>5, <1>6, <1>7, <1>8, <1>10, <1>11, WriteOne

(* The goroutine between its start and its deferred function, and the end *)
(* of its context.                                                        *)
LEMMA GoroutineStep ==
  ASSUME IInv, NEW e \in Executions,
         \/ Begin(e) \/ GiveUp(e)
         \/ \E phase \in [ShardIDs -> {"Running", "Draining", "Failed", "Absent"}] : Attempt(e, phase)
         \/ BatchMoves(e) \/ BatchFails(e) \/ BatchCancelled(e)
         \/ Retry(e) \/ Complete(e) \/ ContextDone(e)
  PROVE  IInv'
<1> DEFINE x == executions[e]
<1>1. x \in Execution /\ Consistent(x)
  BY DEF IInv, Typed, Executions
<1>2. /\ x.retries \in Nat /\ x.plan \in Plan /\ x.plan.size \in Nat \ {0}
      /\ x.moved \in Nat /\ x.batch \in Nat /\ x.failed \in Nat
      /\ x.retries * (x.plan.size - 1) \in Nat
  BY <1>1 DEF Execution, Plan
<1>3. ASSUME Local PROVE /\ UNCHANGED <<active, history, scheduler>>
                         /\ reversing' \subseteq Executions
  BY <1>3 DEF Local, IInv, Typed
<1>4. NextBatch(x) \in Nat /\ x.batch + NextBatch(x) <= x.plan.size
  <2>1. x.batch <= x.plan.size
    BY <1>1 DEF Consistent
  <2>2. calculateBatchSize(x.plan.size) \in Nat
    BY <1>2 DEF calculateBatchSize
  <2> QED BY <1>2, <2>1, <2>2 DEF NextBatch
<1>5. CASE Begin(e)
  <2> DEFINE y == [x EXCEPT !.status = "InProgress", !.at = "try"]
  <2>1. y \in Execution /\ y.plan = x.plan
    BY <1>1 DEF Execution, Statuses
  <2>2. Consistent(y)
    BY <1>1, <1>5 DEF Consistent, Execution, Begin
  <2>3. x.at # "end" /\ y.at # "end" /\ Local /\ executions' = [executions EXCEPT ![e] = y]
    BY <1>1, <1>5 DEF Begin, Set, Execution
  <2> HIDE DEF y
  <2> QED BY <1>3, <2>1, <2>2, <2>3, WriteOne
<1>6. CASE GiveUp(e)
  <2> DEFINE y == [x EXCEPT !.status = "Failed", !.at = "finish"]
  <2>1. y \in Execution /\ y.plan = x.plan
    BY <1>1 DEF Execution, Statuses
  <2>2. Consistent(y)
    BY <1>1, <1>6 DEF Consistent, Execution, GiveUp
  <2>3. x.at # "end" /\ y.at # "end" /\ Local /\ executions' = [executions EXCEPT ![e] = y]
    BY <1>1, <1>6 DEF GiveUp, Fail, Set, Execution
  <2> HIDE DEF y
  <2> QED BY <1>3, <2>1, <2>2, <2>3, WriteOne
<1>7. CASE \E phase \in [ShardIDs -> {"Running", "Draining", "Failed", "Absent"}] : Attempt(e, phase)
  <2> DEFINE y == [x EXCEPT !.at = "batches", !.batch = 0]
  <2>1. x.at = "try" /\ Local
    BY <1>7 DEF Attempt
  <2>2. CASE Set(e, y)
    <3>1. y \in Execution /\ y.plan = x.plan
      BY <1>1 DEF Execution
    <3>2. Consistent(y)
      <4>1. /\ y.plan = x.plan /\ y.batch = 0 /\ y.moved = x.moved /\ y.retries = x.retries
            /\ y.at = "batches" /\ y.status = x.status /\ y.failed = x.failed
        BY <1>1 DEF Execution
      <4> HIDE DEF y
      <4> QED BY <1>1, <1>2, <2>1, <4>1 DEF Consistent
    <3>3. x.at # "end" /\ y.at # "end" /\ executions' = [executions EXCEPT ![e] = y]
      BY <1>1, <2>1, <2>2 DEF Set, Execution
    <3> HIDE DEF y
    <3> QED BY <1>3, <2>1, <3>1, <3>2, <3>3, WriteOne
  <2>3. CASE AttemptFails(e, x)
    <3>1. x.batch < x.plan.size
      BY <1>1, <2>1 DEF Consistent
    <3> QED BY <1>1, <2>1, <2>3, <3>1, AttemptFailsGood
  <2> QED BY <1>7, <2>2, <2>3 DEF Attempt
<1>8. CASE BatchMoves(e)
  <2> DEFINE y == [x EXCEPT !.batch = @ + NextBatch(x), !.moved = @ + NextBatch(x)]
  <2>1. y \in Execution /\ y.plan = x.plan
    <3>1. x.batch + NextBatch(x) \in Nat /\ x.moved + NextBatch(x) \in Nat
      BY <1>2, <1>4
    <3> QED BY <1>1, <3>1 DEF Execution
  <2>2. Consistent(y)
    <3>1. /\ y.plan = x.plan /\ y.batch = x.batch + NextBatch(x)
          /\ y.moved = x.moved + NextBatch(x) /\ y.retries = x.retries
          /\ y.at = "batches" /\ y.status = x.status /\ y.failed = x.failed
      BY <1>1, <1>8 DEF Execution, BatchMoves
    <3>2. x.at = "batches" /\ x.batch < x.plan.size
      BY <1>8 DEF BatchMoves
    <3> HIDE DEF y
    <3> QED BY <1>1, <1>2, <1>4, <3>1, <3>2 DEF Consistent
  <2>3. x.at # "end" /\ y.at # "end" /\ Local /\ executions' = [executions EXCEPT ![e] = y]
    BY <1>1, <1>8 DEF BatchMoves, Set, Execution
  <2> HIDE DEF y
  <2> QED BY <1>3, <2>1, <2>2, <2>3, WriteOne
<1>9. CASE BatchFails(e)
  <2> DEFINE y == [x EXCEPT !.failed = @ + NextBatch(x)]
  <2>1. /\ y \in Execution /\ y.plan = x.plan /\ y.batch = x.batch /\ y.moved = x.moved
        /\ y.retries = x.retries /\ y.status = x.status /\ y.at = x.at
    BY <1>1, <1>2, <1>4 DEF Execution
  <2>2. x.at = "batches" /\ x.batch < x.plan.size /\ Local /\ AttemptFails(e, y)
    BY <1>9 DEF BatchFails
  <2> HIDE DEF y
  <2> QED BY <2>1, <2>2, AttemptFailsGood
<1>10. CASE BatchCancelled(e)
  BY <1>1, <1>10, AttemptFailsGood DEF BatchCancelled
<1>11. CASE Retry(e)
  <2> DEFINE y == [x EXCEPT !.at = "try"]
  <2>1. y \in Execution /\ y.plan = x.plan
    BY <1>1 DEF Execution
  <2>2. Consistent(y)
    BY <1>1, <1>11 DEF Consistent, Execution, Retry
  <2>3. x.at # "end" /\ y.at # "end" /\ Local /\ executions' = [executions EXCEPT ![e] = y]
    BY <1>1, <1>11 DEF Retry, Set, Execution
  <2> HIDE DEF y
  <2> QED BY <1>3, <2>1, <2>2, <2>3, WriteOne
<1>12. CASE Complete(e)
  <2> DEFINE y == [x EXCEPT !.status = "Completed", !.at = "finish"]
  <2>1. y \in Execution /\ y.plan = x.plan
    BY <1>1 DEF Execution, Statuses
  <2>2. Consistent(y)
    <3>1. /\ y.plan = x.plan /\ y.batch = x.batch /\ y.moved = x.moved
          /\ y.retries = x.retries /\ y.at = "finish" /\ y.failed = x.failed
      BY <1>1 DEF Execution
    <3>2. x.batch = x.plan.size
      <4>1. x.batch >= x.plan.size
        BY <1>12 DEF Complete
      <4>2. x.batch <= x.plan.size
        BY <1>1 DEF Consistent
      <4> QED BY <1>2, <4>1, <4>2
    <3> HIDE DEF y
    <3> QED BY <1>1, <3>1, <3>2 DEF Consistent
  <2>3. x.at # "end" /\ y.at # "end" /\ Local /\ executions' = [executions EXCEPT ![e] = y]
    BY <1>1, <1>12 DEF Complete, Set, Execution
  <2> HIDE DEF y
  <2> QED BY <1>3, <2>1, <2>2, <2>3, WriteOne
<1>13. CASE ContextDone(e)
  <2> DEFINE y == [x EXCEPT !.cancelled = TRUE]
  <2>1. y \in Execution /\ y.plan = x.plan
    BY <1>1 DEF Execution
  <2>2. Consistent(y)
    BY <1>1 DEF Consistent, Execution
  <2>3. x.at # "end" /\ y.at # "end" /\ Local /\ executions' = [executions EXCEPT ![e] = y]
    BY <1>1, <1>13 DEF ContextDone, Set, Execution
  <2> HIDE DEF y
  <2> QED BY <1>3, <2>1, <2>2, <2>3, WriteOne
<1> QED
  BY <1>5, <1>6, <1>7, <1>8, <1>9, <1>10, <1>11, <1>12, <1>13

----------------------------------------------------------------------------
(* Steps that change the registrations.                                    *)

(* A new execution is registered, or refused: the executions there were    *)
(* stay as they are.                                                       *)
LEMMA RegisterGood ==
  ASSUME IInv, NEW p \in Plan, Register(p), UNCHANGED history, reversing' \subseteq Executions,
         queue' \in Seq(Plan), taken' \in Seq(Plan), Len(taken') <= 1,
         running' \in 0..MaxConcurrent, taken' # <<>> => running' > 0
  PROVE  /\ IInv'
         /\ \A e \in Executions : executions'[e] = executions[e]
<1> DEFINE id == generatePlanID(p)
           n == Len(executions) + 1
           new == NewExecution(p)
<1>0. id \in PlanIDs
  BY PlanFacts
<1>1. CASE Refused(p)
  <2>1. UNCHANGED <<executions, active, history>>
    BY <1>1 DEF Register
  <2> QED BY <2>1 DEF IInv, Typed, Registered, ActiveLives, Executions
<1>2. CASE ~Refused(p)
  <2>1. /\ executions' = Append(executions, new) /\ active' = [active EXCEPT ![id] = n]
        /\ active[id] = 0
    BY <1>2 DEF Register, Refused
  <2>2. new \in Execution
    BY LimitsAssumption DEF NewExecution, Execution, Statuses
  <2>3. Consistent(new)
    <3>1. new.plan = p /\ p.size \in Nat \ {0}
      BY DEF NewExecution, Plan
    <3> QED BY <3>1, LimitsAssumption DEF NewExecution, Consistent
  <2>4. new.plan = p /\ new.at = "new"
    BY DEF NewExecution
  <2> HIDE DEF new
  <2>5. /\ executions \in Seq(Execution) /\ Executions = 1..Len(executions)
        /\ Len(executions) \in Nat
    BY DEF IInv, Typed, Executions
  <2>6. /\ executions' \in Seq(Execution) /\ Executions' = 1..n
        /\ \A e \in Executions : executions'[e] = executions[e]
        /\ executions'[n] = new
    BY <2>1, <2>2, <2>5 DEF Executions
  <2>7. Executions' = Executions \cup {n} /\ n \notin Executions
    BY <2>5, <2>6
  <2>8. active \in [PlanIDs -> {0} \cup Executions] /\ history \in [PlanIDs -> {0} \cup Executions]
    BY DEF IInv, Typed
  <2>9. Typed'
    BY <2>1, <2>6, <2>7, <2>8, <1>0 DEF Typed
  <2>10. (\A e \in Executions : Consistent(executions[e]))'
    BY <2>3, <2>6, <2>7 DEF IInv
  <2> HIDE DEF n, id
  <2>11. Registered'
    <3>1. ASSUME NEW e \in Executions'
          PROVE  LET d == generatePlanID(executions'[e].plan) IN
                 IF executions'[e].at = "end" THEN history'[d] >= e ELSE active'[d] = e
      <4>1. CASE e = n
        BY <4>1, <2>1, <2>4, <2>6, <2>8, <1>0 DEF id
      <4>2. CASE e \in Executions
        <5>1. executions'[e] = executions[e] /\ executions[e].plan \in Plan
          <6>1. executions[e] \in Execution
            BY <4>2, <2>5
          <6> QED BY <4>2, <2>6, <6>1 DEF Execution
        <5>2. generatePlanID(executions[e].plan) \in PlanIDs
          BY <5>1, PlanFacts
        <5>3. e # 0
          BY <4>2, <2>5
        <5> QED BY <4>2, <5>1, <5>2, <5>3, <2>1, <2>8, <1>0 DEF IInv, Registered
      <4> QED BY <4>1, <4>2, <2>7
    <3>2. ASSUME NEW d \in PlanIDs, active'[d] # 0
          PROVE  generatePlanID(executions'[active'[d]].plan) = d
      <4>1. CASE d = id
        BY <4>1, <2>1, <2>4, <2>6, <2>8, <1>0 DEF id
      <4>2. CASE d # id
        <5>1. active'[d] = active[d] /\ active[d] \in Executions
          BY <4>2, <3>2, <2>1, <2>8
        <5> QED BY <5>1, <3>2, <2>6 DEF IInv, Registered
      <4> QED BY <4>1, <4>2
    <3> QED BY <3>1, <3>2 DEF Registered
  <2>12. ActiveLives'
    <3>1. ASSUME NEW d \in PlanIDs, active'[d] # 0
          PROVE  executions'[active'[d]].at # "end" /\ history'[d] <= active'[d]
      <4>1. CASE d = id
        <5>1. active'[d] = n /\ history'[d] \in {0} \cup Executions
          BY <4>1, <2>1, <2>8
        <5>2. history'[d] <= n
          BY <5>1, <2>5 DEF n
        <5> QED BY <5>1, <5>2, <2>4, <2>6
      <4>2. CASE d # id
        <5>1. active'[d] = active[d] /\ active[d] \in Executions
          BY <4>2, <3>1, <2>1, <2>8
        <5> QED BY <5>1, <3>1, <2>6 DEF IInv, ActiveLives
      <4> QED BY <4>1, <4>2
    <3> QED BY <3>1 DEF ActiveLives
  <2> QED BY <2>6, <2>9, <2>10, <2>11, <2>12 DEF IInv
<1> QED BY <1>1, <1>2

(* The deferred function moves its own entry to the history. *)
LEMMA FinishGood ==
  ASSUME IInv, NEW e \in Executions, Finish(e)
  PROVE  IInv'
<1> DEFINE id == generatePlanID(executions[e].plan)
           y == [executions[e] EXCEPT !.at = "end", !.cancelled = TRUE]
<1>1. /\ executions \in Seq(Execution) /\ executions[e] \in Execution
      /\ executions[e].at = "finish" /\ id \in PlanIDs /\ e \in Nat \ {0}
  <2>1. executions \in Seq(Execution) /\ executions[e] \in Execution /\ e \in Nat \ {0}
    BY DEF IInv, Typed, Executions
  <2>2. executions[e].plan \in Plan
    BY <2>1 DEF Execution
  <2> QED BY <2>1, <2>2, PlanFacts DEF Finish
<1>2. /\ executions' = [executions EXCEPT ![e] = y]
      /\ active' = [active EXCEPT ![id] = 0]
      /\ history' = [history EXCEPT ![id] = e]
      /\ UNCHANGED <<reversing, queue, running, taken>>
  BY DEF Finish, Set, scheduler
<1>3. y \in Execution /\ y.plan = executions[e].plan /\ y.at = "end"
  BY <1>1 DEF Execution
<1>4. Consistent(y)
  BY <1>1 DEF IInv, Consistent, Execution
<1>5. active[id] = e /\ history[id] <= e
  BY <1>1 DEF IInv, Registered, ActiveLives
<1> HIDE DEF y
<1>6. /\ executions' \in Seq(Execution) /\ Executions' = Executions /\ executions'[e] = y
      /\ \A d \in Executions : d # e => executions'[d] = executions[d]
  BY <1>1, <1>2, <1>3 DEF Executions
<1>7. active \in [PlanIDs -> {0} \cup Executions] /\ history \in [PlanIDs -> {0} \cup Executions]
  BY DEF IInv, Typed
<1>8. Typed'
  BY <1>1, <1>2, <1>6, <1>7 DEF IInv, Typed
<1>9. (\A d \in Executions : Consistent(executions[d]))'
  BY <1>4, <1>6 DEF IInv
<1>10. Registered'
  <2>1. ASSUME NEW d \in Executions
        PROVE  LET k == generatePlanID(executions'[d].plan) IN
               IF executions'[d].at = "end" THEN history'[k] >= d ELSE active'[k] = d
    <3>1. CASE d = e
      BY <3>1, <1>1, <1>2, <1>3, <1>6, <1>7
    <3>2. CASE d # e
      <4> DEFINE k == generatePlanID(executions[d].plan)
      <4>1. /\ executions'[d] = executions[d] /\ k \in PlanIDs /\ d \in Nat \ {0}
        <5>1. executions[d] \in Execution /\ d \in Nat \ {0}
          BY <1>1 DEF Executions
        <5>2. executions[d].plan \in Plan
          BY <5>1 DEF Execution
        <5> QED BY <3>2, <1>6, <5>1, <5>2, PlanFacts
      <4>2. IF executions[d].at = "end" THEN history[k] >= d ELSE active[k] = d
        BY DEF IInv, Registered
      <4> HIDE DEF k, id
      <4>3. CASE k = id
        <5>1. executions[d].at = "end" /\ history[id] >= d
          BY <4>2, <4>3, <1>5, <3>2
        <5>2. history[id] \in Nat
          BY <1>1, <1>7 DEF Executions
        <5>3. e >= d
          BY <5>1, <5>2, <1>1, <1>5, <4>1
        <5> QED BY <4>1, <4>3, <5>1, <5>3, <1>1, <1>2, <1>7 DEF k
      <4>4. CASE k # id
        BY <4>1, <4>2, <4>4, <1>2, <1>7, <1>1 DEF k
      <4> QED BY <4>3, <4>4
    <3> QED BY <3>1, <3>2
  <2>2. ASSUME NEW d \in PlanIDs, active'[d] # 0
        PROVE  generatePlanID(executions'[active'[d]].plan) = d
    <3>1. d # id /\ active'[d] = active[d] /\ active[d] \in Executions
      BY <2>2, <1>1, <1>2, <1>7
    <3>2. generatePlanID(executions[active[d]].plan) = d
      BY <2>2, <3>1 DEF IInv, Registered
    <3>3. active[d] # e
      BY <3>1, <3>2
    <3> QED BY <3>1, <3>2, <3>3, <1>6
  <2> QED BY <2>1, <2>2, <1>6 DEF Registered
<1>11. ActiveLives'
  <2>1. ASSUME NEW d \in PlanIDs, active'[d] # 0
        PROVE  executions'[active'[d]].at # "end" /\ history'[d] <= active'[d]
    <3>1. d # id /\ active'[d] = active[d] /\ active[d] \in Executions /\ history'[d] = history[d]
      BY <2>1, <1>1, <1>2, <1>7
    <3>2. generatePlanID(executions[active[d]].plan) = d
      BY <2>1, <3>1 DEF IInv, Registered
    <3>3. active[d] # e
      BY <3>1, <3>2
    <3> QED BY <2>1, <3>1, <3>3, <1>6 DEF IInv, ActiveLives
  <2> QED BY <2>1 DEF ActiveLives
<1> QED BY <1>8, <1>9, <1>10, <1>11 DEF IInv

----------------------------------------------------------------------------
(* The callers and the scheduler.                                          *)

LEMMA CancelGood ==
  ASSUME IInv, NEW id \in PlanIDs, CancelMigration(id)
  PROVE  IInv'
<1> DEFINE e == active[id]
           y == [executions[e] EXCEPT !.cancelled = TRUE, !.status = "RolledBack"]
<1>1. e \in Executions /\ executions[e].at # "end"
  BY DEF CancelMigration, IInv, Typed, ActiveLives
<1>2. executions[e] \in Execution /\ Consistent(executions[e])
  BY <1>1 DEF IInv, Typed, Executions
<1>3. y \in Execution /\ y.plan = executions[e].plan /\ y.at = executions[e].at
  BY <1>2 DEF Execution, Statuses
<1>4. Consistent(y)
  BY <1>2 DEF Consistent, Execution
<1>5. executions' = [executions EXCEPT ![e] = y] /\ Local
  BY DEF CancelMigration, Set
<1>6. reversing' \subseteq Executions /\ UNCHANGED <<active, history, scheduler>>
  BY <1>5 DEF Local, IInv, Typed
<1> HIDE DEF y, e
<1> QED BY <1>1, <1>3, <1>4, <1>5, <1>6, WriteOne

LEMMA RollbackGood ==
  ASSUME IInv, NEW id \in PlanIDs, RollbackMigration(id)
  PROVE  IInv'
<1> DEFINE e == history[id]
           y == [executions[e] EXCEPT !.status = "RolledBack"]
<1>1. e \in Executions
  BY DEF RollbackMigration, IInv, Typed
<1>2. executions[e] \in Execution /\ Consistent(executions[e])
  BY <1>1 DEF IInv, Typed, Executions
<1>3. y \in Execution /\ y.plan = executions[e].plan /\ y.at = executions[e].at
  BY <1>2 DEF Execution, Statuses
<1>4. Consistent(y)
  BY <1>2 DEF Consistent, Execution
<1>5. /\ executions' = [executions EXCEPT ![e] = y]
      /\ UNCHANGED <<active, history, scheduler>>
      /\ reversing' = reversing \cup {e}
  BY DEF RollbackMigration, Set
<1>6. reversing' \subseteq Executions
  BY <1>1, <1>5 DEF IInv, Typed
<1> HIDE DEF y, e
<1> QED BY <1>1, <1>3, <1>4, <1>5, <1>6, WriteOne

(* Calls that register a plan, and the reverse of one. *)
LEMMA CallsGood ==
  ASSUME IInv,
         \/ \E p \in Plans : ExecuteMigration(p)
         \/ \E e \in Executions : ExecuteReverse(e)
         \/ ExecuteScheduled
  PROVE  /\ IInv'
         /\ \A e \in Executions : executions'[e] = executions[e]
<1>1. /\ reversing \subseteq Executions /\ queue \in Seq(Plan) /\ taken \in Seq(Plan)
      /\ Len(taken) <= 1 /\ running \in 0..MaxConcurrent /\ (taken # <<>> => running > 0)
  BY DEF IInv, Typed
<1>2. ASSUME NEW p \in Plans, ExecuteMigration(p) PROVE
        IInv' /\ \A e \in Executions : executions'[e] = executions[e]
  <2>1. /\ p \in Plan /\ Register(p) /\ UNCHANGED <<history, reversing, queue, running, taken>>
    BY <1>2, PlansAssumption DEF ExecuteMigration, scheduler
  <2> QED BY <1>1, <2>1, RegisterGood
<1>3. ASSUME NEW d \in Executions, ExecuteReverse(d) PROVE
        IInv' /\ \A e \in Executions : executions'[e] = executions[e]
  <2>1. executions[d] \in Execution
    BY DEF IInv, Typed, Executions
  <2>2. ReversePlan(executions[d].plan) \in Plan
    BY <2>1, PlanFacts DEF Execution
  <2>3. /\ Register(ReversePlan(executions[d].plan)) /\ UNCHANGED <<history, queue, running, taken>>
        /\ reversing' \subseteq Executions
    BY <1>1, <1>3 DEF ExecuteReverse, scheduler
  <2> QED BY <1>1, <2>2, <2>3, RegisterGood
<1>4. ASSUME ExecuteScheduled PROVE
        IInv' /\ \A e \in Executions : executions'[e] = executions[e]
  <2>1. /\ taken # <<>> /\ Register(taken[1]) /\ taken' = <<>>
        /\ running' = (IF Refused(taken[1]) THEN running - 1 ELSE running)
        /\ UNCHANGED <<queue, history, reversing>>
    BY <1>4 DEF ExecuteScheduled
  <2>2. taken[1] \in Plan
    BY <1>1, <2>1
  <2>3. running' \in 0..MaxConcurrent
    BY <1>1, <2>1, LimitsAssumption
  <2>4. taken' \in Seq(Plan) /\ Len(taken') <= 1
    BY <2>1
  <2> QED BY <1>1, <2>1, <2>2, <2>3, <2>4, RegisterGood
<1> QED BY <1>2, <1>3, <1>4

(* The scheduler's own steps leave the migrations alone. *)
LEMMA SchedulerGood ==
  ASSUME IInv, (\E p \in Plans : ScheduleMigration(p)) \/ GetNextPlan
  PROVE  IInv' /\ UNCHANGED migration
<1>1. UNCHANGED <<executions, active, history, reversing>>
  BY DEF ScheduleMigration, GetNextPlan, migration
<1>2. Typed'
  <2>1. ASSUME NEW p \in Plans, ScheduleMigration(p) PROVE Typed'
    <3>1. p \in Plan /\ AddPlan(queue, p) \in Seq(Plan)
      BY PlansAssumption, AddPlanType DEF IInv, Typed
    <3> QED BY <1>1, <2>1, <3>1 DEF ScheduleMigration, IInv, Typed, Executions
  <2>2. ASSUME GetNextPlan PROVE Typed'
    <3>1. queue \in Seq(Plan) /\ queue # <<>>
      BY <2>2 DEF GetNextPlan, IInv, Typed
    <3>2. Head(queue) \in Plan /\ Tail(queue) \in Seq(Plan)
      BY <3>1
    <3>3. running + 1 \in 1..MaxConcurrent
      BY <2>2, LimitsAssumption DEF GetNextPlan, IInv, Typed
    <3>4. /\ taken' \in Seq(Plan) /\ Len(taken') <= 1 /\ queue' \in Seq(Plan)
          /\ running' \in 0..MaxConcurrent /\ running' > 0
      BY <2>2, <3>2, <3>3, LimitsAssumption DEF GetNextPlan
    <3> QED BY <1>1, <3>4 DEF IInv, Typed, Executions
  <2> QED BY <2>1, <2>2
<1> QED BY <1>1, <1>2 DEF IInv, Registered, ActiveLives, Executions, migration

LEMMA StepGood == IInv /\ [Next]_vars => IInv'
<1> SUFFICES ASSUME IInv, [Next]_vars PROVE IInv'
  OBVIOUS
<1>1. CASE \/ \E p \in Plans : ExecuteMigration(p)
           \/ \E e \in Executions : ExecuteReverse(e)
           \/ ExecuteScheduled
  BY <1>1, CallsGood
<1>2. CASE (\E p \in Plans : ScheduleMigration(p)) \/ GetNextPlan
  BY <1>2, SchedulerGood
<1>3. CASE \E e \in Executions : Goroutine(e) \/ ContextDone(e)
  BY <1>3, GoroutineStep, FinishGood DEF Goroutine
<1>4. CASE \E id \in PlanIDs : CancelMigration(id) \/ RollbackMigration(id)
  BY <1>4, CancelGood, RollbackGood
<1>5. CASE UNCHANGED vars
  BY <1>5 DEF vars, IInv, Typed, Registered, ActiveLives, Executions
<1> QED
  BY <1>1, <1>2, <1>3, <1>4, <1>5 DEF Next, ProcessScheduledMigrations

(* IInv is an invariant. *)
THEOREM Inductive == Safety => []IInv
<1> QED BY InitInvariant, StepGood, PTL DEF Safety

----------------------------------------------------------------------------
(* Every reachable state of the migrator and its scheduler is well typed:  *)
(* retries stay within MaxRetries and running plans within the slots of    *)
(* GetNextPlan.                                                            *)
THEOREM TypeCorrect == Safety => []TypeOK
<1> QED BY Inductive, InvariantsFollow, PTL

(* From ExecuteMigration until its own deferred function every execution   *)
(* is the registered one of its plan id, however many plans share the id.  *)
THEOREM AlwaysRegistered == Safety => []Registered
<1> QED BY Inductive, InvariantsFollow, PTL

(* Completed means that the last attempt moved every resource, and what is *)
(* counted twice is bounded by the retries.                                *)
THEOREM AccountsAddUp == Safety => []Accounting
<1> QED BY Inductive, InvariantsFollow, PTL

(* What is in the migration history stays as it is, but for the one        *)
(* rollback of a completed migration.                                      *)
THEOREM HistoryKept == Safety => HistoryFinal
<1> DEFINE Kept == \A e \in Executions :
             executions[e].at = "end" =>
               \/ executions'[e] = executions[e]
               \/ /\ executions[e].status = "Completed"
                  /\ executions'[e] = [executions[e] EXCEPT !.status = "RolledBack"]
                  /\ e \in reversing'
<1>1. IInv /\ [Next]_vars => [Kept]_vars
  <2> SUFFICES ASSUME IInv, Next PROVE Kept
    BY DEF vars
  <2> SUFFICES ASSUME NEW d \in Executions, executions[d].at = "end"
               PROVE  \/ executions'[d] = executions[d]
                      \/ /\ executions[d].status = "Completed"
                         /\ executions'[d] = [executions[d] EXCEPT !.status = "RolledBack"]
                         /\ d \in reversing'
    OBVIOUS
  <2>1. CASE \/ \E p \in Plans : ExecuteMigration(p)
             \/ \E e \in Executions : ExecuteReverse(e)
             \/ ExecuteScheduled
    BY <2>1, CallsGood
  <2>2. CASE (\E p \in Plans : ScheduleMigration(p)) \/ GetNextPlan
    BY <2>2, SchedulerGood DEF migration
  <2>3. ASSUME NEW e \in Executions, Goroutine(e) \/ ContextDone(e)
        PROVE  executions'[d] = executions[d]
    <3>1. executions[e].at # "end"
      BY <2>3 DEF Goroutine, Begin, GiveUp, Attempt, BatchMoves, BatchFails, BatchCancelled,
                  Retry, Complete, Finish, ContextDone
    <3>2. \E y : executions' = [executions EXCEPT ![e] = y]
      BY <2>3 DEF Goroutine, Begin, GiveUp, Attempt, BatchMoves, BatchFails, BatchCancelled,
                  Retry, Complete, Finish, ContextDone, Set, Fail, AttemptFails
    <3> QED BY <3>1, <3>2 DEF Executions
  <2>4. ASSUME NEW id \in PlanIDs, CancelMigration(id)
        PROVE  executions'[d] = executions[d]
    <3>1. active[id] # d
      BY <2>4 DEF CancelMigration, IInv, ActiveLives
    <3> QED BY <2>4, <3>1 DEF CancelMigration, Set, Executions
  <2>5. ASSUME NEW id \in PlanIDs, RollbackMigration(id)
        PROVE  \/ executions'[d] = executions[d]
               \/ /\ executions[d].status = "Completed"
                  /\ executions'[d] = [executions[d] EXCEPT !.status = "RolledBack"]
                  /\ d \in reversing'
    <3>1. /\ executions[history[id]].status = "Completed"
          /\ executions' = [executions EXCEPT ![history[id]] =
                             [executions[history[id]] EXCEPT !.status = "RolledBack"]]
          /\ history[id] \in reversing'
      BY <2>5 DEF RollbackMigration, Set
    <3> QED BY <3>1 DEF Executions
  <2> QED
    BY <2>1, <2>2, <2>3, <2>4, <2>5 DEF Next, ProcessScheduledMigrations
<1> QED BY <1>1, Inductive, PTL DEF Safety, HistoryFinal

----------------------------------------------------------------------------
(* The retries run out.  While the goroutine of an execution works, it has *)
(* an attempt left, and an attempt is worth more steps than it can use.    *)
Working(x) ==
  x.batch <= x.plan.size /\ (x.at \notin {"finish", "end"} => x.retries <= MaxRetries)

LEMMA AttemptsLeft ==
  ASSUME NEW x \in Execution, Working(x)
  PROVE  /\ x.retries \in Nat /\ x.batch \in Nat /\ x.plan.size \in Nat \ {0}
         /\ x.batch <= x.plan.size
         /\ (MaxRetries + 1 - x.retries) * (x.plan.size + 3) \in Int
         /\ (MaxRetries + 1 - (x.retries + 1)) * (x.plan.size + 3) =
              (MaxRetries + 1 - x.retries) * (x.plan.size + 3) - (x.plan.size + 3)
         /\ x.at \notin {"finish", "end"} =>
              (MaxRetries + 1 - x.retries) * (x.plan.size + 3) >= x.plan.size + 3
<1>1. x.retries \in Nat /\ x.batch \in Nat /\ x.plan.size \in Nat \ {0} /\ x.batch <= x.plan.size
  BY DEF Execution, Plan, Working
<1> DEFINE n == x.plan.size + 3
           k == MaxRetries + 1 - x.retries
<1>2. n \in Nat /\ k \in Int /\ MaxRetries + 1 - (x.retries + 1) = k - 1
  BY <1>1, LimitsAssumption
<1>3. x.at \notin {"finish", "end"} => k >= 1
  BY <1>1, LimitsAssumption DEF Working
<1> HIDE DEF n, k
<1>4. k * n \in Int /\ (k - 1) * n = k * n - n /\ (k >= 1 => k * n >= n)
  BY <1>2
<1> QED BY <1>1, <1>2, <1>3, <1>4 DEF n, k

(* A failed attempt leaves the goroutine waiting with an attempt less, or  *)
(* at its end.                                                             *)
LEMMA FailureLeavesLess ==
  ASSUME NEW x \in Execution, Working(x), x.at \in {"try", "batches"},
         NEW e, AttemptFails(e, x)
  PROVE  \E y : /\ executions' = [executions EXCEPT ![e] = y]
                /\ StepsLeft(y) \in 0 .. StepsLeft(x) - 1
<1> DEFINE c == [x EXCEPT !.retries = @ + 1]
           failed == [c EXCEPT !.status = "Failed", !.at = "finish"]
           waits == [c EXCEPT !.at = "wait"]
           left == (MaxRetries + 1 - x.retries) * (x.plan.size + 3)
           size == x.plan.size
<1>1. /\ x.batch \in Nat /\ size \in Nat \ {0} /\ x.batch <= size
      /\ left \in Int /\ left >= size + 3
      /\ (MaxRetries + 1 - (x.retries + 1)) * (x.plan.size + 3) = left - (size + 3)
  BY AttemptsLeft
<1>2. StepsLeft(failed) = 1
  BY DEF StepsLeft, Execution
<1>3. StepsLeft(waits) = left - (size + 3) + 1
  <2>1. /\ waits.at = "wait" /\ waits.retries = x.retries + 1 /\ waits.plan = x.plan
    BY DEF Execution
  <2> HIDE DEF waits
  <2> QED BY <1>1, <2>1 DEF StepsLeft
<1>4. StepsLeft(x) = IF x.at = "try" THEN left ELSE left - 1 - x.batch
  BY DEF StepsLeft
<1>5. \/ executions' = [executions EXCEPT ![e] = failed]
      \/ executions' = [executions EXCEPT ![e] = waits]
  BY DEF AttemptFails, Fail, Set
<1> HIDE DEF failed, waits, left, size, c
<1>6. /\ StepsLeft(failed) \in 0 .. StepsLeft(x) - 1
      /\ StepsLeft(waits) \in 0 .. StepsLeft(x) - 1
  BY <1>1, <1>2, <1>3, <1>4
<1> QED BY <1>5, <1>6

LEMMA GoroutineRunsOut ==
  ASSUME IInv, NEW e \in Executions, Goroutine(e)
  PROVE  \E y : /\ executions' = [executions EXCEPT ![e] = y]
                /\ StepsLeft(y) \in 0 .. StepsLeft(executions[e]) - 1
<1> DEFINE x == executions[e]
           left == (MaxRetries + 1 - x.retries) * (x.plan.size + 3)
           size == x.plan.size
<1>1. x \in Execution /\ Working(x)
  BY DEF IInv, Typed, Executions, Consistent, Working
<1>2. /\ x.batch \in Nat /\ size \in Nat \ {0} /\ x.batch <= size
      /\ left \in Int
      /\ x.at \notin {"finish", "end"} => left >= size + 3
  BY <1>1, AttemptsLeft
<1>3. /\ x.at = "new" => StepsLeft(x) = left + 2
      /\ x.at = "wait" => StepsLeft(x) = left + 1
      /\ x.at = "try" => StepsLeft(x) = left
      /\ x.at = "batches" => StepsLeft(x) = left - 1 - x.batch
      /\ x.at = "finish" => StepsLeft(x) = 1
  BY DEF StepsLeft
<1>4. ASSUME NEW y, y.at = "try", y.retries = x.retries, y.plan = x.plan
      PROVE  StepsLeft(y) = left
  BY <1>4 DEF StepsLeft
<1>5. ASSUME NEW y, y.at = "batches", y.retries = x.retries, y.plan = x.plan
      PROVE  StepsLeft(y) = left - 1 - y.batch
  BY <1>5 DEF StepsLeft
<1>6. ASSUME NEW y, y.at = "finish" PROVE StepsLeft(y) = 1
  BY <1>6 DEF StepsLeft
<1> SUFFICES ASSUME \A y : executions' = [executions EXCEPT ![e] = y] =>
                              StepsLeft(y) \notin 0 .. StepsLeft(x) - 1
             PROVE  FALSE
  OBVIOUS
<1>7. CASE Begin(e)
  <2> DEFINE y == [x EXCEPT !.status = "InProgress", !.at = "try"]
  <2>1. /\ x.at = "new" /\ executions' = [executions EXCEPT ![e] = y]
        /\ y.at = "try" /\ y.retries = x.retries /\ y.plan = x.plan
    BY <1>1, <1>7 DEF Begin, Set, Execution
  <2> HIDE DEF y, left, size
  <2>2. StepsLeft(y) = left
    BY <1>4, <2>1
  <2>8. StepsLeft(y) \in 0 .. StepsLeft(x) - 1
    <3> HIDE DEF x
    <3> QED BY <1>2, <1>3, <2>1, <2>2
  <2> QED BY <2>1, <2>8
<1>8. CASE Retry(e)
  <2> DEFINE y == [x EXCEPT !.at = "try"]
  <2>1. /\ x.at = "wait" /\ executions' = [executions EXCEPT ![e] = y]
        /\ y.at = "try" /\ y.retries = x.retries /\ y.plan = x.plan
    BY <1>1, <1>8 DEF Retry, Set, Execution
  <2> HIDE DEF y, left, size
  <2>2. StepsLeft(y) = left
    BY <1>4, <2>1
  <2>8. StepsLeft(y) \in 0 .. StepsLeft(x) - 1
    <3> HIDE DEF x
    <3> QED BY <1>2, <1>3, <2>1, <2>2
  <2> QED BY <2>1, <2>8
<1>9. CASE GiveUp(e)
  <2> DEFINE y == [x EXCEPT !.status = "Failed", !.at = "finish"]
  <2>1. x.at \in {"try", "wait"} /\ executions' = [executions EXCEPT ![e] = y] /\ y.at = "finish"
    BY <1>1, <1>9 DEF GiveUp, Fail, Set, Execution
  <2> HIDE DEF y, left, size
  <2>2. StepsLeft(y) = 1
    BY <1>6, <2>1
  <2>8. StepsLeft(y) \in 0 .. StepsLeft(x) - 1
    <3> HIDE DEF x
    <3> QED BY <1>2, <1>3, <2>1, <2>2
  <2> QED BY <2>1, <2>8
<1>10. CASE \E phase \in [ShardIDs -> {"Running", "Draining", "Failed", "Absent"}] : Attempt(e, phase)
  <2> DEFINE y == [x EXCEPT !.at = "batches", !.batch = 0]
  <2>1. x.at = "try" /\ (executions' = [executions EXCEPT ![e] = y] \/ AttemptFails(e, x))
    BY <1>10 DEF Attempt, Set
  <2>2. y.at = "batches" /\ y.retries = x.retries /\ y.plan = x.plan /\ y.batch = 0
    BY <1>1 DEF Execution
  <2>3. CASE AttemptFails(e, x)
    BY <1>1, <2>1, <2>3, FailureLeavesLess
  <2> HIDE DEF y, left, size
  <2>4. StepsLeft(y) = left - 1 - 0
    BY <1>5, <2>2
  <2> QED BY <1>2, <1>3, <2>1, <2>3, <2>4
<1>11. CASE BatchMoves(e)
  <2> DEFINE y == [x EXCEPT !.batch = @ + NextBatch(x), !.moved = @ + NextBatch(x)]
  <2>1. /\ x.at = "batches" /\ x.batch < size /\ executions' = [executions EXCEPT ![e] = y]
        /\ y.at = "batches" /\ y.retries = x.retries /\ y.plan = x.plan
        /\ y.batch = x.batch + NextBatch(x)
    BY <1>1, <1>11 DEF BatchMoves, Set, Execution
  <2>2. NextBatch(x) \in Nat \ {0} /\ x.batch + NextBatch(x) <= size
    <3>1. calculateBatchSize(size) \in Nat \ {0}
      BY <1>2 DEF calculateBatchSize
    <3> QED BY <1>2, <2>1, <3>1 DEF NextBatch
  <2> HIDE DEF y, left, size
  <2>3. StepsLeft(y) = left - 1 - y.batch
    BY <1>5, <2>1
  <2>8. StepsLeft(y) \in 0 .. StepsLeft(x) - 1
    <3> HIDE DEF x
    <3> QED BY <1>2, <1>3, <2>1, <2>2, <2>3
  <2> QED BY <2>1, <2>8
<1>12. CASE BatchFails(e)
  <2> DEFINE z == [x EXCEPT !.failed = @ + NextBatch(x)]
  <2>1. NextBatch(x) \in Nat
    <3>1. calculateBatchSize(size) \in Nat
      BY <1>2 DEF calculateBatchSize
    <3> QED BY <1>2, <3>1 DEF NextBatch
  <2>2. x.failed + NextBatch(x) \in Nat /\ x.failed \in Nat
    BY <1>1, <2>1 DEF Execution
  <2>3. /\ z \in Execution /\ z.at = x.at /\ z.retries = x.retries /\ z.batch = x.batch
        /\ z.plan = x.plan /\ z.moved = x.moved /\ z.status = x.status
    BY <1>1, <2>2 DEF Execution
  <2>4. x.at = "batches" /\ x.batch < x.plan.size /\ AttemptFails(e, z)
    BY <1>12 DEF BatchFails
  <2> HIDE DEF z
  <2>5. Working(z) /\ z.at = "batches"
    BY <1>1, <2>3, <2>4 DEF Working
  <2>6. \E y : /\ executions' = [executions EXCEPT ![e] = y]
               /\ StepsLeft(y) \in 0 .. StepsLeft(z) - 1
    BY <2>3, <2>4, <2>5, FailureLeavesLess
  <2>7. StepsLeft(z) = StepsLeft(x)
    BY <2>3 DEF StepsLeft
  <2> QED BY <2>6, <2>7
<1>13. CASE BatchCancelled(e)
  BY <1>1, <1>13, FailureLeavesLess DEF BatchCancelled
<1>14. CASE Complete(e)
  <2> DEFINE y == [x EXCEPT !.status = "Completed", !.at = "finish"]
  <2>1. x.at = "batches" /\ executions' = [executions EXCEPT ![e] = y] /\ y.at = "finish"
    BY <1>1, <1>14 DEF Complete, Set, Execution
  <2> HIDE DEF y, left, size
  <2>2. StepsLeft(y) = 1
    BY <1>6, <2>1
  <2>8. StepsLeft(y) \in 0 .. StepsLeft(x) - 1
    <3> HIDE DEF x
    <3> QED BY <1>2, <1>3, <2>1, <2>2
  <2> QED BY <2>1, <2>8
<1>15. CASE Finish(e)
  <2> DEFINE y == [x EXCEPT !.at = "end", !.cancelled = TRUE]
  <2>1. x.at = "finish" /\ executions' = [executions EXCEPT ![e] = y] /\ y.at = "end"
    BY <1>1, <1>15 DEF Finish, Set, Execution
  <2> HIDE DEF y
  <2>2. StepsLeft(y) = 0
    BY <2>1 DEF StepsLeft
  <2>8. StepsLeft(y) \in 0 .. StepsLeft(x) - 1
    <3> HIDE DEF x
    <3> QED BY <1>3, <2>1, <2>2
  <2> QED BY <2>1, <2>8
<1> QED
  BY <1>7, <1>8, <1>9, <1>10, <1>11, <1>12, <1>13, <1>14, <1>15 DEF Goroutine

(* Every execution has a bounded number of steps before it, whatever its   *)
(* plan's size, and every step of its goroutine is one of them: the        *)
(* retries of executeMigrationWithRetries run out.                         *)
THEOREM EveryExecutionRunsOut == Safety => RetriesRunOut
<1> DEFINE Less(d) == StepsLeft(executions'[d]) \in 0 .. StepsLeft(executions[d]) - 1
           Flags(d) == executions'[d] = [executions[d] EXCEPT !.status = executions'[d].status,
                                                              !.cancelled = executions'[d].cancelled]
<1>1. IInv /\ [Next]_vars =>
        [\A e \in Executions :
           LET x == executions[e]
               y == executions'[e]
           IN  \/ StepsLeft(y) \in 0 .. StepsLeft(x) - 1
               \/ y = [x EXCEPT !.status = y.status, !.cancelled = y.cancelled]]_vars
  <2> SUFFICES ASSUME IInv, Next, NEW d \in Executions PROVE Less(d) \/ Flags(d)
    OBVIOUS
  <2>0. executions[d] \in Execution /\ executions \in Seq(Execution)
    BY DEF IInv, Typed, Executions
  <2>1. executions'[d] = executions[d] => Flags(d)
    BY <2>0 DEF Execution
  <2>2. CASE \/ \E p \in Plans : ExecuteMigration(p)
             \/ \E e \in Executions : ExecuteReverse(e)
             \/ ExecuteScheduled
    BY <2>1, <2>2, CallsGood
  <2>3. CASE (\E p \in Plans : ScheduleMigration(p)) \/ GetNextPlan
    BY <2>1, <2>3, SchedulerGood DEF migration
  <2>4. ASSUME NEW e \in Executions, Goroutine(e) PROVE Less(d) \/ Flags(d)
    <3>1. PICK y : /\ executions' = [executions EXCEPT ![e] = y]
                   /\ StepsLeft(y) \in 0 .. StepsLeft(executions[e]) - 1
      BY <2>4, GoroutineRunsOut
    <3>2. executions'[e] = y /\ (d # e => executions'[d] = executions[d])
      BY <2>0, <3>1 DEF Executions
    <3> QED BY <2>1, <3>1, <3>2
  <2>5. ASSUME NEW e \in Executions, ContextDone(e) PROVE Flags(d)
    <3>1. executions' = [executions EXCEPT ![e] = [executions[e] EXCEPT !.cancelled = TRUE]]
      BY <2>5 DEF ContextDone, Set
    <3> QED BY <2>0, <3>1 DEF Executions, Execution
  <2>6. ASSUME NEW id \in PlanIDs, CancelMigration(id) PROVE Flags(d)
    <3>1. executions' = [executions EXCEPT ![active[id]] =
                          [executions[active[id]] EXCEPT !.cancelled = TRUE, !.status = "RolledBack"]]
      BY <2>6 DEF CancelMigration, Set
    <3> QED BY <2>0, <3>1 DEF Executions, Execution
  <2>7. ASSUME NEW id \in PlanIDs, RollbackMigration(id) PROVE Flags(d)
    <3>1. executions' = [executions EXCEPT ![history[id]] =
                          [executions[history[id]] EXCEPT !.status = "RolledBack"]]
      BY <2>7 DEF RollbackMigration, Set
    <3> QED BY <2>0, <3>1 DEF Executions, Execution
  <2> QED
    BY <2>2, <2>3, <2>4, <2>5, <2>6, <2>7 DEF Next, ProcessScheduledMigrations
<1> QED BY <1>1, Inductive, PTL DEF Safety, RetriesRunOut

----------------------------------------------------------------------------
(* The lanes of a queue.  IsLane unfolds the recursive function in LaneOf  *)
(* up to m plans.                                                          *)
IsLane(f, q, pr, m) ==
  f = [n \in 0 .. m |->
         IF n = 0 THEN <<>>
         ELSE IF q[n].priority = pr THEN Append(f[n - 1], q[n]) ELSE f[n - 1]]

LEMMA LaneExists ==
  ASSUME NEW q, NEW pr, NEW m \in Nat
  PROVE  \E f : IsLane(f, q, pr, m)
<1> DEFINE T == {k \in Nat : ~\E f : IsLane(f, q, pr, k)}
<1>1. SUFFICES ASSUME T # {} PROVE FALSE
  OBVIOUS
<1> DEFINE k == Min(T)
<1>2. k \in T /\ \A i \in T : k <= i
  <2>1. T \in SUBSET Nat
    OBVIOUS
  <2> HIDE DEF T
  <2> QED BY <1>1, <2>1, LeastOf
<1> HIDE DEF k
<1>3. CASE k = 0
  <2> DEFINE f == [n \in 0 .. 0 |-> <<>>]
  <2>1. IsLane(f, q, pr, 0)
    BY DEF IsLane
  <2> QED BY <1>2, <1>3, <2>1
<1>4. CASE k # 0
  <2>1. k \in Nat /\ k - 1 \in Nat /\ ~(k <= k - 1)
    BY <1>2, <1>4
  <2>2. PICK f : IsLane(f, q, pr, k - 1)
    BY <1>2, <2>1
  <2> DEFINE g == [n \in 0 .. k |->
                     IF n < k THEN f[n]
                     ELSE IF q[n].priority = pr THEN Append(f[n - 1], q[n]) ELSE f[n - 1]]
  <2>3. ASSUME NEW n \in 0 .. k
        PROVE  g[n] = IF n = 0 THEN <<>>
                      ELSE IF q[n].priority = pr THEN Append(g[n - 1], q[n]) ELSE g[n - 1]
    <3>1. n # 0 => n - 1 \in 0 .. k /\ n - 1 < k
      BY <2>1
    <3>2. n # 0 => g[n - 1] = f[n - 1]
      BY <3>1
    <3>3. CASE n < k
      <4>1. n \in 0 .. k - 1 /\ g[n] = f[n]
        BY <2>1, <3>3
      <4>2. f[n] = IF n = 0 THEN <<>>
                   ELSE IF q[n].priority = pr THEN Append(f[n - 1], q[n]) ELSE f[n - 1]
        BY <2>2, <4>1 DEF IsLane
      <4> HIDE DEF g
      <4> QED BY <3>2, <4>1, <4>2
    <3>4. CASE ~(n < k)
      <4>1. n # 0 /\ g[n] = IF q[n].priority = pr THEN Append(f[n - 1], q[n]) ELSE f[n - 1]
        BY <1>4, <2>1, <3>4
      <4> HIDE DEF g
      <4> QED BY <3>2, <4>1
    <3> QED BY <3>3, <3>4
  <2>4. g = [n \in 0 .. k |-> g[n]]
    OBVIOUS
  <2> HIDE DEF g
  <2>5. IsLane(g, q, pr, k)
    BY <2>3, <2>4 DEF IsLane
  <2> QED BY <1>2, <2>5
<1> QED BY <1>3, <1>4

LEMMA LaneUnique ==
  ASSUME NEW f, NEW q, NEW m \in Nat, NEW g, NEW r, NEW n \in Nat, NEW pr,
         IsLane(f, q, pr, m), IsLane(g, r, pr, n),
         NEW k \in Nat, k <= m, k <= n, \A i \in 1 .. k : q[i] = r[i]
  PROVE  f[k] = g[k]
<1> DEFINE T == {i \in 0 .. k : f[i] # g[i]}
<1>1. SUFFICES ASSUME T # {} PROVE FALSE
  OBVIOUS
<1> DEFINE i == Min(T)
<1>2. i \in T /\ \A j \in T : i <= j
  <2>1. T \in SUBSET Nat
    OBVIOUS
  <2> HIDE DEF T
  <2> QED BY <1>1, <2>1, LeastOf
<1> HIDE DEF i
<1>3. i \in 0 .. k /\ i \in 0 .. m /\ i \in 0 .. n /\ f[i] # g[i]
  BY <1>2
<1>4. /\ f[i] = IF i = 0 THEN <<>>
                ELSE IF q[i].priority = pr THEN Append(f[i - 1], q[i]) ELSE f[i - 1]
      /\ g[i] = IF i = 0 THEN <<>>
                ELSE IF r[i].priority = pr THEN Append(g[i - 1], r[i]) ELSE g[i - 1]
  BY <1>3 DEF IsLane
<1>5. i # 0
  BY <1>3, <1>4
<1>6. i - 1 \in 0 .. k /\ i - 1 \notin T /\ q[i] = r[i]
  <2>1. i \in 1 .. k /\ i - 1 \in 0 .. k /\ ~(i <= i - 1)
    BY <1>3, <1>5
  <2> HIDE DEF T
  <2> QED BY <1>2, <2>1
<1>7. f[i - 1] = g[i - 1]
  BY <1>6
<1> QED BY <1>3, <1>4, <1>5, <1>6, <1>7

LEMMA LaneUnfolds ==
  ASSUME NEW q \in Seq(Plan), NEW pr
  PROVE  \E f : IsLane(f, q, pr, Len(q)) /\ LaneOf(q, pr) = f[Len(q)]
<1> DEFINE f == CHOOSE f : IsLane(f, q, pr, Len(q))
<1>1. IsLane(f, q, pr, Len(q))
  BY LaneExists
<1>2. LaneOf(q, pr) = f[Len(q)]
  BY DEF LaneOf, IsLane
<1> HIDE DEF f
<1> QED BY <1>1, <1>2

LEMMA LaneOfEmpty ==
  ASSUME NEW pr
  PROVE  LaneOf(<<>>, pr) = <<>>
<1>1. <<>> \in Seq(Plan) /\ Len(<<>>) = 0
  OBVIOUS
<1>2. PICK f : IsLane(f, <<>>, pr, 0) /\ LaneOf(<<>>, pr) = f[0]
  BY <1>1, LaneUnfolds
<1> QED BY <1>2 DEF IsLane

LEMMA LaneOfAppend ==
  ASSUME NEW q \in Seq(Plan), NEW p \in Plan, NEW pr
  PROVE  LaneOf(Append(q, p), pr) =
           IF p.priority = pr THEN Append(LaneOf(q, pr), p) ELSE LaneOf(q, pr)
<1> DEFINE r == Append(q, p)
           n == Len(q)
<1>1. /\ n \in Nat /\ r \in Seq(Plan) /\ Len(r) = n + 1 /\ r[n + 1] = p
      /\ \A i \in 1 .. n : q[i] = r[i]
  OBVIOUS
<1> HIDE DEF r
<1>2. PICK f : IsLane(f, q, pr, n) /\ LaneOf(q, pr) = f[n]
  BY LaneUnfolds
<1> HIDE DEF n
<1>3. PICK g : IsLane(g, r, pr, n + 1) /\ LaneOf(r, pr) = g[n + 1]
  BY <1>1, LaneUnfolds
<1>4. f[n] = g[n]
  <2>1. n <= n + 1 /\ n <= n /\ n + 1 \in Nat
    BY <1>1
  <2> QED BY <1>1, <1>2, <1>3, <2>1, LaneUnique
<1>5. n + 1 \in 0 .. n + 1 /\ n + 1 # 0 /\ (n + 1) - 1 = n
  BY <1>1
<1>6. g[n + 1] = IF r[n + 1].priority = pr THEN Append(g[(n + 1) - 1], r[n + 1]) ELSE g[(n + 1) - 1]
  BY <1>3, <1>5 DEF IsLane
<1> QED BY <1>1, <1>2, <1>3, <1>4, <1>5, <1>6 DEF r

(* The form in which least counterexamples among queues are used.          *)
LEMMA ShortestQueue ==
  ASSUME NEW W \in SUBSET Seq(Plan), W # {}
  PROVE  \/ <<>> \in W
         \/ \E s \in Seq(Plan), p \in Plan : Append(s, p) \in W /\ s \notin W
<1> DEFINE T == {Len(s) : s \in W}
<1>1. T \in SUBSET Nat /\ T # {}
  <2>1. \A s \in W : Len(s) \in Nat
    OBVIOUS
  <2> QED BY <2>1
<1>2. PICK r \in W : \A s \in W : Len(r) <= Len(s)
  <2>1. Min(T) \in T /\ \A y \in T : Min(T) <= y
    <3> HIDE DEF T
    <3> QED BY <1>1, LeastOf
  <2> QED BY <2>1
<1>3. CASE r = <<>>
  BY <1>3
<1>4. CASE r # <<>>
  <2>1. PICK s \in Seq(Plan), p \in Plan : r = Append(s, p)
    BY <1>4, SequenceEmptyOrAppend
  <2>2. Len(r) = Len(s) + 1 /\ Len(s) \in Nat
    BY <2>1
  <2>3. s \notin W
    <3>1. ~(Len(r) <= Len(s))
      BY <2>2
    <3> QED BY <1>2, <3>1
  <2> QED BY <2>1, <2>3
<1> QED BY <1>3, <1>4

LEMMA LaneTyped ==
  ASSUME NEW q \in Seq(Plan), NEW pr
  PROVE  LaneOf(q, pr) \in Seq(Plan)
<1> DEFINE W == {s \in Seq(Plan) : LaneOf(s, pr) \notin Seq(Plan)}
<1>1. SUFFICES ASSUME W # {} PROVE FALSE
  OBVIOUS
<1>2. <<>> \notin W
  BY LaneOfEmpty
<1>3. PICK s \in Seq(Plan), p \in Plan : Append(s, p) \in W /\ s \notin W
  <2>1. W \in SUBSET Seq(Plan)
    OBVIOUS
  <2> HIDE DEF W
  <2> QED BY <1>1, <1>2, <2>1, ShortestQueue
<1>4. LaneOf(Append(s, p), pr) \in {LaneOf(s, pr), Append(LaneOf(s, pr), p)}
  BY LaneOfAppend
<1> QED BY <1>3, <1>4

LEMMA LaneOfNone ==
  ASSUME NEW q \in Seq(Plan), NEW pr, \A i \in 1 .. Len(q) : q[i].priority # pr
  PROVE  LaneOf(q, pr) = <<>>
<1> DEFINE W == {s \in Seq(Plan) : /\ \A i \in 1 .. Len(s) : s[i].priority # pr
                                  /\ LaneOf(s, pr) # <<>>}
<1>1. SUFFICES ASSUME W # {} PROVE FALSE
  OBVIOUS
<1>2. <<>> \notin W
  BY LaneOfEmpty
<1>3. PICK s \in Seq(Plan), p \in Plan : Append(s, p) \in W /\ s \notin W
  <2>1. W \in SUBSET Seq(Plan)
    OBVIOUS
  <2> HIDE DEF W
  <2> QED BY <1>1, <1>2, <2>1, ShortestQueue
<1> DEFINE r == Append(s, p)
<1>4. /\ Len(s) \in Nat /\ Len(r) = Len(s) + 1 /\ r[Len(s) + 1] = p
      /\ \A i \in 1 .. Len(s) : r[i] = s[i]
  OBVIOUS
<1>5. (\A i \in 1 .. Len(r) : r[i].priority # pr) /\ LaneOf(r, pr) # <<>>
  BY <1>3
<1>6. LaneOf(r, pr) = IF p.priority = pr THEN Append(LaneOf(s, pr), p) ELSE LaneOf(s, pr)
  BY LaneOfAppend
<1> HIDE DEF r
<1>7. p.priority # pr /\ \A i \in 1 .. Len(s) : s[i].priority # pr
  BY <1>4, <1>5
<1>8. LaneOf(s, pr) # <<>>
  BY <1>5, <1>6, <1>7
<1> QED BY <1>3, <1>7, <1>8

LEMMA LaneOfConcat ==
  ASSUME NEW a \in Seq(Plan), NEW b \in Seq(Plan), NEW pr
  PROVE  LaneOf(a \o b, pr) = LaneOf(a, pr) \o LaneOf(b, pr)
<1> DEFINE W == {s \in Seq(Plan) : LaneOf(a \o s, pr) # LaneOf(a, pr) \o LaneOf(s, pr)}
<1>1. SUFFICES ASSUME W # {} PROVE FALSE
  OBVIOUS
<1>2. <<>> \notin W
  BY LaneOfEmpty, LaneTyped, ConcatEmptySeq
<1>3. PICK s \in Seq(Plan), p \in Plan : Append(s, p) \in W /\ s \notin W
  <2>1. W \in SUBSET Seq(Plan)
    OBVIOUS
  <2> HIDE DEF W
  <2> QED BY <1>1, <1>2, <2>1, ShortestQueue
<1>4. LaneOf(a \o s, pr) = LaneOf(a, pr) \o LaneOf(s, pr)
  BY <1>3
<1>5. /\ a \o s \in Seq(Plan) /\ a \o Append(s, p) = Append(a \o s, p)
      /\ Append(s, p) \in Seq(Plan)
  OBVIOUS
<1>6. /\ LaneOf(Append(a \o s, p), pr) =
           IF p.priority = pr THEN Append(LaneOf(a \o s, pr), p) ELSE LaneOf(a \o s, pr)
      /\ LaneOf(Append(s, p), pr) =
           IF p.priority = pr THEN Append(LaneOf(s, pr), p) ELSE LaneOf(s, pr)
  BY <1>5, LaneOfAppend
<1> DEFINE u == LaneOf(a, pr)
           v == LaneOf(s, pr)
<1>7. u \in Seq(Plan) /\ v \in Seq(Plan)
  BY LaneTyped
<1>8. Append(u \o v, p) = u \o Append(v, p)
  <2> HIDE DEF u, v
  <2>1. <<p>> \in Seq(Plan)
    OBVIOUS
  <2>2. (u \o v) \o <<p>> = u \o (v \o <<p>>)
    BY <1>7, <2>1, ConcatAssociative
  <2>3. u \o v \in Seq(Plan)
    BY <1>7
  <2> QED BY <1>7, <2>2, <2>3, AppendIsConcat
<1>9. LaneOf(a \o Append(s, p), pr) = u \o LaneOf(Append(s, p), pr)
  BY <1>4, <1>5, <1>6, <1>8
<1> QED BY <1>3, <1>5, <1>9

----------------------------------------------------------------------------
(* The queue is sorted by priority, which is why insertion before the      *)
(* first plan of a lower priority is insertion after the last plan of the  *)
(* same one, and why the head has the highest priority there is.           *)
RankOf(p) == Lanes!Rank(p.priority)

Sorted(q) ==
  \A i, j \in 1 .. Len(q) : i < j => RankOf(q[i]) >= RankOf(q[j])

LEMMA Ranks ==
  /\ \A p \in Plan : RankOf(p) \in 1 .. 3 /\ p.priority \in Priorities
  /\ \A p, r \in Plan : /\ comparePriority(p.priority, r.priority) = RankOf(p) - RankOf(r)
                        /\ p.priority = r.priority <=> RankOf(p) = RankOf(r)
<1>1. \A p \in Plan : p.priority \in Priorities
  BY DEF Plan
<1>2. ASSUME NEW x \in Priorities PROVE Lanes!Rank(x) \in 1 .. 3
  BY DEF Priorities, Lanes!Rank
<1>3. ASSUME NEW x \in Priorities, NEW y \in Priorities
      PROVE  /\ comparePriority(x, y) = Lanes!Rank(x) - Lanes!Rank(y)
             /\ x = y <=> Lanes!Rank(x) = Lanes!Rank(y)
  BY DEF Priorities, Lanes!Rank, comparePriority
<1>4. ASSUME NEW p \in Plan PROVE RankOf(p) \in 1 .. 3 /\ p.priority \in Priorities
  BY <1>1, <1>2 DEF RankOf
<1>5. ASSUME NEW p \in Plan, NEW r \in Plan
      PROVE  /\ comparePriority(p.priority, r.priority) = RankOf(p) - RankOf(r)
             /\ p.priority = r.priority <=> RankOf(p) = RankOf(r)
  <2>1. p.priority \in Priorities /\ r.priority \in Priorities
    BY <1>1
  <2> QED BY <2>1, <1>3, Zenon DEF RankOf
<1> QED BY <1>4, <1>5

LEMMA CutInTwo ==
  ASSUME NEW q \in Seq(Plan), NEW i \in 1 .. Len(q)
  PROVE  q = SubSeq(q, 1, i - 1) \o SubSeq(q, i, Len(q))
<1>1. /\ 1 \in 1 .. Len(q) + 1 /\ i - 1 \in (1 - 1) .. Len(q)
      /\ Len(q) \in (i - 1) .. Len(q) /\ (i - 1) + 1 = i
  OBVIOUS
<1>2. SubSeq(q, 1, i - 1) \o SubSeq(q, (i - 1) + 1, Len(q)) = SubSeq(q, 1, Len(q))
  BY <1>1, ConcatAdjacentSubSeq
<1> QED BY <1>1, <1>2, SubSeqFull

(* AddPlan puts the plan between those that are as urgent and those that   *)
(* are less so.                                                            *)
LEMMA AddPlanSplits ==
  ASSUME NEW q \in Seq(Plan), Sorted(q), NEW p \in Plan
  PROVE  \E a, b \in Seq(Plan) :
           /\ q = a \o b
           /\ AddPlan(q, p) = Append(a, p) \o b
           /\ \A i \in 1 .. Len(a) : RankOf(a[i]) >= RankOf(p)
           /\ \A i \in 1 .. Len(b) : RankOf(b[i]) < RankOf(p)
<1> DEFINE I == {j \in 1..Len(q) : comparePriority(p.priority, q[j].priority) > 0}
           i == IF I # {} THEN Min(I) ELSE 0
           n == Len(q)
<1>1. AddPlan(q, p) = IF i = 0 THEN Append(q, p) ELSE InsertAt(q, i, p)
  BY DEF AddPlan, SelectInSeq
<1>2. n \in Nat /\ \A j \in 1 .. n : q[j] \in Plan /\ RankOf(q[j]) \in 1 .. 3
  BY Ranks
<1>3. RankOf(p) \in 1 .. 3
  BY Ranks
<1>4. \A j \in 1 .. n : j \in I <=> RankOf(q[j]) < RankOf(p)
  <2>1. \A j \in 1 .. n : comparePriority(p.priority, q[j].priority) = RankOf(p) - RankOf(q[j])
    BY <1>2, Ranks
  <2> QED BY <1>2, <1>3, <2>1
<1>5. CASE I = {}
  <2>1. AddPlan(q, p) = Append(q, p) \o <<>> /\ q = q \o <<>> /\ <<>> \in Seq(Plan)
    <3>1. AddPlan(q, p) = Append(q, p)
      BY <1>1, <1>5
    <3> QED BY <3>1, ConcatEmptySeq, AppendProperties
  <2>2. \A j \in 1 .. n : RankOf(q[j]) >= RankOf(p)
    <3> HIDE DEF I
    <3> QED BY <1>2, <1>3, <1>4, <1>5
  <2>3. \A j \in 1 .. Len(<<>>) : RankOf(<<>>[j]) < RankOf(p)
    OBVIOUS
  <2> HIDE DEF I, i
  <2> WITNESS q \in Seq(Plan)
  <2>4. <<>> \in Seq(Plan)
    OBVIOUS
  <2> WITNESS <<>> \in Seq(Plan)
  <2> QED BY <2>1, <2>2, <2>3
<1>6. CASE I # {}
  <2>1. i \in I /\ \A j \in I : i <= j
    <3>1. I \in SUBSET Nat
      OBVIOUS
    <3> HIDE DEF I
    <3> QED BY <1>6, <3>1, LeastOf
  <2> HIDE DEF i
  <2>2. i \in 1 .. n /\ i # 0 /\ i - 1 \in Nat
    BY <2>1
  <2> DEFINE a == SubSeq(q, 1, i - 1)
             b == SubSeq(q, i, n)
  <2>3. /\ a \in Seq(Plan) /\ Len(a) = i - 1 /\ \A j \in 1 .. i - 1 : a[j] = q[j]
        /\ b \in Seq(Plan) /\ Len(b) = n - i + 1 /\ \A j \in 1 .. n - i + 1 : b[j] = q[i + j - 1]
    <3> HIDE DEF n
    <3> QED BY <1>2, <2>2, SubSeqProperties
  <2>4. q = a \o b
    BY <2>2, CutInTwo
  <2>5. AddPlan(q, p) = Append(a, p) \o b
    <3>1. AddPlan(q, p) = SubSeq(q, 1, i - 1) \o <<p>> \o SubSeq(q, i, Len(q))
      BY <1>1, <2>2 DEF InsertAt
    <3>2. Append(a, p) = a \o <<p>>
      BY <2>3, AppendIsConcat
    <3> QED BY <3>1, <3>2
  <2>6. ASSUME NEW j \in 1 .. i - 1 PROVE RankOf(a[j]) >= RankOf(p)
    <3>1. j \in 1 .. n /\ ~(i <= j)
      BY <2>2
    <3>2. j \notin I
      BY <2>1, <3>1
    <3>3. ~(RankOf(q[j]) < RankOf(p)) /\ RankOf(q[j]) \in 1 .. 3
      BY <1>2, <1>4, <3>1, <3>2
    <3> QED BY <1>3, <2>3, <3>3
  <2>7. ASSUME NEW j \in 1 .. n - i + 1 PROVE RankOf(b[j]) < RankOf(p)
    <3>1. i + j - 1 \in 1 .. n /\ (j = 1 \/ i < i + j - 1)
      BY <1>2, <2>2
    <3>2. RankOf(q[i]) < RankOf(p) /\ RankOf(q[i]) \in 1 .. 3
      BY <1>2, <1>4, <2>1, <2>2
    <3>3. j = 1 => i + j - 1 = i
      BY <2>2
    <3>4. RankOf(q[i + j - 1]) <= RankOf(q[i])
      <4>1. CASE j = 1
        BY <3>2, <3>3, <4>1
      <4>2. CASE i < i + j - 1
        <5>1. RankOf(q[i]) >= RankOf(q[i + j - 1]) /\ RankOf(q[i + j - 1]) \in 1 .. 3
          BY <1>2, <2>2, <3>1, <4>2 DEF Sorted
        <5> QED BY <3>2, <5>1
      <4> QED BY <3>1, <4>1, <4>2
    <3>5. RankOf(q[i + j - 1]) \in 1 .. 3 /\ b[j] = q[i + j - 1]
      BY <1>2, <2>3, <3>1
    <3> HIDE DEF b
    <3> QED BY <1>3, <3>2, <3>4, <3>5
  <2> HIDE DEF a, b, n
  <2> QED BY <2>3, <2>4, <2>5, <2>6, <2>7
<1> QED BY <1>5, <1>6

LEMMA ConcatSorted ==
  ASSUME NEW a \in Seq(Plan), NEW b \in Seq(Plan),
         Sorted(a), Sorted(b),
         \A i \in 1 .. Len(a), j \in 1 .. Len(b) : RankOf(a[i]) >= RankOf(b[j])
  PROVE  Sorted(a \o b)
<1> DEFINE c == a \o b
           m == Len(a)
           n == Len(b)
<1>1. /\ m \in Nat /\ n \in Nat /\ Len(c) = m + n
      /\ \A i \in 1 .. m + n : c[i] = IF i <= m THEN a[i] ELSE b[i - m]
  OBVIOUS
<1> SUFFICES ASSUME NEW i \in 1 .. Len(c), NEW j \in 1 .. Len(c), i < j
             PROVE  RankOf(c[i]) >= RankOf(c[j])
  BY DEF Sorted
<1>2. c[i] = (IF i <= m THEN a[i] ELSE b[i - m]) /\ c[j] = (IF j <= m THEN a[j] ELSE b[j - m])
  BY <1>1
<1>3. CASE j <= m
  <2>1. i \in 1 .. m /\ j \in 1 .. m /\ i <= m
    BY <1>1, <1>3
  <2> HIDE DEF c
  <2> QED BY <1>2, <1>3, <2>1 DEF Sorted
<1>4. CASE i <= m /\ ~(j <= m)
  <2>1. i \in 1 .. m /\ j - m \in 1 .. n
    BY <1>1, <1>4
  <2> HIDE DEF c
  <2> QED BY <1>2, <1>4, <2>1
<1>5. CASE ~(i <= m)
  <2>1. i - m \in 1 .. n /\ j - m \in 1 .. n /\ i - m < j - m /\ ~(j <= m)
    BY <1>1, <1>5
  <2> HIDE DEF c
  <2> QED BY <1>2, <1>5, <2>1 DEF Sorted
<1> QED BY <1>3, <1>4, <1>5

LEMMA PartsSorted ==
  ASSUME NEW a \in Seq(Plan), NEW b \in Seq(Plan), Sorted(a \o b)
  PROVE  Sorted(a) /\ Sorted(b)
<1> DEFINE c == a \o b
           m == Len(a)
           n == Len(b)
<1>1. /\ m \in Nat /\ n \in Nat /\ Len(c) = m + n
      /\ \A i \in 1 .. m : c[i] = a[i]
      /\ \A i \in 1 .. n : c[m + i] = b[i]
  OBVIOUS
<1>2. \A i, j \in 1 .. m + n : i < j => RankOf(c[i]) >= RankOf(c[j])
  BY <1>1 DEF Sorted
<1> HIDE DEF c
<1>3. Sorted(a)
  BY <1>1, <1>2 DEF Sorted
<1>4. ASSUME NEW i \in 1 .. n, NEW j \in 1 .. n, i < j
      PROVE  RankOf(b[i]) >= RankOf(b[j])
  <2>1. m + i \in 1 .. m + n /\ m + j \in 1 .. m + n /\ m + i < m + j
    BY <1>1, <1>4
  <2>2. RankOf(c[m + i]) >= RankOf(c[m + j])
    BY <1>2, <2>1
  <2> QED BY <1>1, <2>2
<1> QED BY <1>3, <1>4 DEF Sorted

LEMMA AppendSorted ==
  ASSUME NEW a \in Seq(Plan), NEW p \in Plan, Sorted(a),
         \A i \in 1 .. Len(a) : RankOf(a[i]) >= RankOf(p)
  PROVE  Sorted(Append(a, p))
<1> DEFINE w == <<p>>
<1>1. w \in Seq(Plan) /\ Len(w) = 1 /\ w[1] = p
  OBVIOUS
<1>2. Append(a, p) = a \o w
  BY AppendIsConcat
<1> HIDE DEF w
<1>3. Sorted(w)
  BY <1>1 DEF Sorted
<1>4. ASSUME NEW i \in 1 .. Len(a), NEW j \in 1 .. Len(w)
      PROVE  RankOf(a[i]) >= RankOf(w[j])
  <2>1. j = 1
    BY <1>1
  <2> QED BY <1>1, <2>1
<1>5. Sorted(a \o w)
  BY <1>1, <1>3, <1>4, ConcatSorted
<1> QED BY <1>2, <1>5

LEMMA AddPlanSorted ==
  ASSUME NEW q \in Seq(Plan), Sorted(q), NEW p \in Plan
  PROVE  Sorted(AddPlan(q, p))
<1>1. PICK a, b \in Seq(Plan) :
        /\ q = a \o b
        /\ AddPlan(q, p) = Append(a, p) \o b
        /\ \A i \in 1 .. Len(a) : RankOf(a[i]) >= RankOf(p)
        /\ \A i \in 1 .. Len(b) : RankOf(b[i]) < RankOf(p)
  BY AddPlanSplits
<1>2. Sorted(a) /\ Sorted(b)
  BY <1>1, PartsSorted
<1> DEFINE u == Append(a, p)
<1>3. u \in Seq(Plan) /\ Sorted(u) /\ Len(u) = Len(a) + 1 /\ u[Len(a) + 1] = p
      /\ \A i \in 1 .. Len(a) : u[i] = a[i]
  BY <1>1, <1>2, AppendSorted
<1> HIDE DEF u
<1>4. ASSUME NEW i \in 1 .. Len(u), NEW j \in 1 .. Len(b)
      PROVE  RankOf(u[i]) >= RankOf(b[j])
  <2>1. RankOf(p) \in 1 .. 3 /\ RankOf(b[j]) \in 1 .. 3 /\ RankOf(b[j]) < RankOf(p)
    BY <1>1, Ranks
  <2>2. RankOf(u[i]) \in 1 .. 3 /\ RankOf(u[i]) >= RankOf(p)
    <3>1. CASE i \in 1 .. Len(a)
      <4>1. u[i] = a[i] /\ a[i] \in Plan
        BY <1>3, <3>1
      <4> QED BY <1>1, <3>1, <4>1, Ranks
    <3>2. CASE i = Len(a) + 1
      BY <1>3, <2>1, <3>2
    <3> QED BY <1>3, <3>1, <3>2
  <2> QED BY <2>1, <2>2
<1> QED BY <1>1, <1>2, <1>3, <1>4, ConcatSorted DEF u

(* One lane grows at its end: the plans behind the new one are of other    *)
(* priorities.                                                             *)
LEMMA AddPlanLane ==
  ASSUME NEW q \in Seq(Plan), Sorted(q), NEW p \in Plan, NEW pr \in Priorities
  PROVE  LaneOf(AddPlan(q, p), pr) =
           IF pr = p.priority THEN Append(LaneOf(q, pr), p) ELSE LaneOf(q, pr)
<1>1. PICK a, b \in Seq(Plan) :
        /\ q = a \o b
        /\ AddPlan(q, p) = Append(a, p) \o b
        /\ \A i \in 1 .. Len(b) : RankOf(b[i]) < RankOf(p)
  BY AddPlanSplits
<1> DEFINE u == LaneOf(a, pr)
           v == LaneOf(b, pr)
<1>2. u \in Seq(Plan) /\ v \in Seq(Plan) /\ LaneOf(q, pr) = u \o v
  BY <1>1, LaneTyped, LaneOfConcat
<1>3. LaneOf(AddPlan(q, p), pr) = LaneOf(Append(a, p), pr) \o v
  <2>1. Append(a, p) \in Seq(Plan)
    BY AppendProperties
  <2> DEFINE c == Append(a, p)
  <2>2. c \in Seq(Plan)
    BY <2>1
  <2> HIDE DEF c
  <2>3. LaneOf(c \o b, pr) = LaneOf(c, pr) \o LaneOf(b, pr)
    BY <2>2, LaneOfConcat
  <2> QED BY <1>1, <2>3, Zenon DEF c
<1>4. LaneOf(Append(a, p), pr) = IF p.priority = pr THEN Append(u, p) ELSE u
  BY LaneOfAppend
<1>5. CASE pr = p.priority
  <2>1. ASSUME NEW i \in 1 .. Len(b) PROVE b[i].priority # pr
    <3>1. b[i] \in Plan /\ RankOf(b[i]) \in 1 .. 3 /\ RankOf(p) \in 1 .. 3
      BY Ranks
    <3>2. RankOf(b[i]) # RankOf(p)
      BY <1>1, <3>1
    <3> QED BY <1>5, <3>1, <3>2, Ranks
  <2>2. v = <<>>
    BY <2>1, LaneOfNone
  <2> HIDE DEF u, v
  <2>3. Append(u, p) \in Seq(Plan)
    BY <1>2
  <2> QED BY <1>2, <1>3, <1>4, <1>5, <2>2, <2>3, ConcatEmptySeq
<1>6. CASE pr # p.priority
  BY <1>2, <1>3, <1>4, <1>6
<1> QED BY <1>5, <1>6

(* And one lane shrinks at its head: the higher ones are empty.            *)
LEMMA HeadLane ==
  ASSUME NEW q \in Seq(Plan), Sorted(q), q # <<>>, NEW pr \in Priorities
  PROVE  /\ Sorted(Tail(q))
         /\ pr = Head(q).priority =>
              LaneOf(q, pr) # <<>> /\ LaneOf(Tail(q), pr) = Tail(LaneOf(q, pr))
         /\ pr # Head(q).priority => LaneOf(Tail(q), pr) = LaneOf(q, pr)
         /\ Lanes!Rank(pr) > RankOf(Head(q)) => LaneOf(q, pr) = <<>>
<1> DEFINE h == Head(q)
           t == Tail(q)
           w == <<h>>
           v == LaneOf(t, pr)
<1>1. /\ h \in Plan /\ t \in Seq(Plan) /\ q = w \o t
      /\ w \in Seq(Plan) /\ w = Append(<<>>, h) /\ <<>> \in Seq(Plan)
  OBVIOUS
<1>2. v \in Seq(Plan)
  BY <1>1, LaneTyped
<1>3. q[1] = h /\ 1 \in 1 .. Len(q)
  OBVIOUS
<1> HIDE DEF h, t
<1>4. Sorted(t)
  BY <1>1, PartsSorted
<1>5. LaneOf(w, pr) = IF h.priority = pr THEN w ELSE <<>>
  <2>1. LaneOf(Append(<<>>, h), pr) =
          IF h.priority = pr THEN Append(LaneOf(<<>>, pr), h) ELSE LaneOf(<<>>, pr)
    BY <1>1, LaneOfAppend
  <2> QED BY <1>1, <2>1, LaneOfEmpty
<1> HIDE DEF w
<1>6. LaneOf(q, pr) = LaneOf(w, pr) \o v
  <2>1. w \in Seq(Plan) /\ t \in Seq(Plan)
    BY <1>1
  <2>2. LaneOf(w \o t, pr) = LaneOf(w, pr) \o LaneOf(t, pr)
    BY <2>1, LaneOfConcat
  <2> QED BY <1>1, <2>2, Zenon
<1> HIDE DEF v
<1>7. CASE pr = h.priority
  <2>1. LaneOf(q, pr) = w \o v
    BY <1>5, <1>6, <1>7
  <2>2. w \o v # <<>> /\ Tail(w \o v) = v
    BY <1>1, <1>2 DEF w
  <2>3. RankOf(h) = Lanes!Rank(pr) /\ RankOf(h) \in 1 .. 3
    BY <1>1, <1>7, Ranks DEF RankOf
  <2> QED BY <1>4, <1>7, <2>1, <2>2, <2>3 DEF h, t, v
<1>8. CASE pr # h.priority
  <2>1. LaneOf(q, pr) = v
    BY <1>2, <1>5, <1>6, <1>8, ConcatEmptySeq
  <2>2. ASSUME Lanes!Rank(pr) > RankOf(h) PROVE LaneOf(q, pr) = <<>>
    <3>1. ASSUME NEW i \in 1 .. Len(q) PROVE q[i].priority # pr
      <4>1. q[i] \in Plan /\ RankOf(q[i]) \in 1 .. 3 /\ RankOf(h) \in 1 .. 3
        BY <1>1, Ranks
      <4>2. RankOf(h) >= RankOf(q[i])
        <5>1. CASE i = 1
          BY <1>3, <4>1, <5>1
        <5>2. CASE i # 1
          BY <1>3, <5>2 DEF Sorted
        <5> QED BY <5>1, <5>2
      <4>3. q[i].priority = pr => RankOf(q[i]) = Lanes!Rank(pr)
        BY DEF RankOf
      <4> QED BY <2>2, <4>1, <4>2, <4>3
    <3> QED BY <3>1, LaneOfNone
  <2> QED BY <1>4, <1>8, <2>1, <2>2 DEF h, t, v
<1> QED BY <1>7, <1>8

----------------------------------------------------------------------------
(* The refinement: the queue stays sorted, and each step of the program is *)
(* a step of the lanes or leaves them alone.                               *)
LEMMA QueueSteps ==
  [Next]_vars =>
    (\E p \in Plans : ScheduleMigration(p)) \/ GetNextPlan \/ UNCHANGED queue
BY DEF Next, vars, scheduler, ProcessScheduledMigrations, ExecuteMigration, Goroutine,
   Begin, GiveUp, Attempt, BatchMoves, BatchFails, BatchCancelled, Retry, Complete, Finish,
   ContextDone, ExecuteReverse, CancelMigration, RollbackMigration, ExecuteScheduled, Local

QueueSorted == Sorted(queue)

LEMMA QueueStays == IInv /\ QueueSorted /\ [Next]_vars => QueueSorted'
<1> SUFFICES ASSUME IInv, Sorted(queue), [Next]_vars
             PROVE  Sorted(queue')
  BY DEF QueueSorted
<1>1. queue \in Seq(Plan)
  BY DEF IInv, Typed
<1>2. CASE \E p \in Plans : ScheduleMigration(p)
  BY <1>1, <1>2, AddPlanSorted, PlansAssumption DEF ScheduleMigration
<1>3. CASE GetNextPlan
  <2>1. "High" \in Priorities
    BY DEF Priorities
  <2> QED BY <1>1, <1>3, <2>1, HeadLane DEF GetNextPlan
<1>4. CASE UNCHANGED queue
  BY <1>4
<1> QED BY <1>2, <1>3, <1>4, QueueSteps

LEMMA LanesStart == Init => Lanes!Init
<1> SUFFICES ASSUME Init PROVE Lanes!Init
  OBVIOUS
<1>1. \A pr \in Priorities : LaneOf(queue, pr) = <<>>
  BY LaneOfEmpty DEF Init
<1> QED BY <1>1 DEF Lanes!Init, Lanes!Priorities, Priorities

LEMMA LanesStep ==
  IInv /\ QueueSorted /\ [Next]_vars =>
    [Lanes!Next]_([pr \in Priorities |-> LaneOf(queue, pr)])
<1> DEFINE Bar == [pr \in Priorities |-> LaneOf(queue, pr)]
<1> SUFFICES ASSUME IInv, Sorted(queue), [Next]_vars
             PROVE  Lanes!Next \/ UNCHANGED Bar
  BY DEF QueueSorted
<1>1. queue \in Seq(Plan)
  BY DEF IInv, Typed
<1>2. Lanes!Priorities = Priorities
  BY DEF Lanes!Priorities, Priorities
<1>3. ASSUME NEW p \in Plans, ScheduleMigration(p) PROVE Lanes!Add(p)
  <2>1. p \in Plan /\ p.priority \in Priorities
    BY PlansAssumption, Ranks
  <2>2. queue' = AddPlan(queue, p)
    BY <1>3 DEF ScheduleMigration
  <2>3. \A pr \in Priorities :
           LaneOf(queue', pr) = IF pr = p.priority THEN Append(LaneOf(queue, pr), p)
                                ELSE LaneOf(queue, pr)
    BY <1>1, <2>1, <2>2, AddPlanLane
  <2>4. Bar' = [Bar EXCEPT ![p.priority] = Append(@, p)]
    BY <2>1, <2>3
  <2> QED BY <2>4 DEF Lanes!Add
<1>4. ASSUME GetNextPlan PROVE Lanes!Take(Head(queue).priority) /\ Head(queue).priority \in Priorities
  <2> DEFINE hp == Head(queue).priority
  <2>1. queue # <<>> /\ queue' = Tail(queue)
    BY <1>4 DEF GetNextPlan
  <2>2. Head(queue) \in Plan
    BY <1>1, <2>1
  <2>3. hp \in Priorities
    BY <2>2, Ranks
  <2>4. RankOf(Head(queue)) = Lanes!Rank(hp)
    BY DEF RankOf
  <2>5. \A pr \in Priorities :
           /\ pr = hp => LaneOf(queue, pr) # <<>> /\ LaneOf(queue', pr) = Tail(LaneOf(queue, pr))
           /\ pr # hp => LaneOf(queue', pr) = LaneOf(queue, pr)
           /\ Lanes!Rank(pr) > Lanes!Rank(hp) => LaneOf(queue, pr) = <<>>
    BY <1>1, <2>1, <2>4, HeadLane
  <2> HIDE DEF hp
  <2>6. /\ Bar[hp] # <<>>
        /\ \A pr \in Priorities : Lanes!Rank(pr) > Lanes!Rank(hp) => Bar[pr] = <<>>
        /\ Bar' = [Bar EXCEPT ![hp] = Tail(@)]
    BY <2>3, <2>5
  <2> QED BY <1>2, <2>3, <2>6 DEF Lanes!Take, hp
<1>5. CASE UNCHANGED queue
  BY <1>5
<1> QED BY <1>2, <1>3, <1>4, <1>5, QueueSteps DEF Lanes!Next

(* The queue of resource_migrator.go, into whose middle AddPlan inserts,   *)
(* implements one first-in-first-out lane per priority: GetNextPlan takes  *)
(* the oldest of the most urgent plans, whatever was scheduled and taken   *)
(* before.                                                                 *)
THEOREM QueueImplementsLanes == Safety => ServesByPriority
<1>1. Init => QueueSorted
  BY DEF Init, QueueSorted, Sorted
<1>2. Safety => [](IInv /\ QueueSorted)
  BY <1>1, InitInvariant, StepGood, QueueStays, PTL DEF Safety
<1> QED BY <1>2, LanesStart, LanesStep, PTL DEF Safety, ServesByPriority, Lanes!Spec
=============================================================================
