------------------------ MODULE ShardLifecycleProofs ------------------------
(***************************************************************************)
(* Proofs about ShardLifecycle for every set of shards, every bound, every *)
(* failure threshold and every wiring of the actors.                       *)
(***************************************************************************)
EXTENDS ShardLifecycle, FiniteSetTheorems, TLAPS

(* The helpers on copies of an object return objects, with the phase and   *)
(* the health that their callers rely on.                                  *)
LEMMA ConstantObjects ==
  /\ NilHealth \in Health
  /\ NoShard \in Shard /\ ManagerShard \in Shard /\ WorkerShard \in Shard
  /\ NoShard.phase = "Absent"
  /\ ManagerShard.phase = "Pending" /\ WorkerShard.phase = "Pending"
BY FailureThresholdAssumption, SMT
   DEF NilHealth, NoShard, ManagerShard, WorkerShard, HealthOf, Shard, Health, Phases

(* The saturating error count stays in its range.                          *)
LEMMA OneMoreErrorTyped ==
  ASSUME NEW n \in 0..FailureThreshold
  PROVE  OneMoreError(n) \in 0..FailureThreshold
BY FailureThresholdAssumption DEF OneMoreError

(* CheckHealth computes a status, healthy only if its checks passed.       *)
LEMMA CheckedHealthTyped ==
  ASSUME NEW p \in Health, NEW ok \in BOOLEAN
  PROVE  /\ CheckedHealth(p, ok) \in Health
         /\ CheckedHealth(p, ok).healthy => ok
<1> DEFINE n == IF p.known /\ ~p.healthy THEN OneMoreError(p.errors) ELSE 1
<1>1. n \in 0..FailureThreshold
  BY OneMoreErrorTyped, FailureThresholdAssumption DEF Health
<1>2. CheckedHealth(p, ok) = IF ok THEN HealthOf(TRUE, 0) ELSE HealthOf(FALSE, n)
  BY DEF CheckedHealth
<1>3. HealthOf(TRUE, 0) \in Health /\ HealthOf(FALSE, n) \in Health
  BY <1>1, FailureThresholdAssumption DEF HealthOf, Health
<1>4. HealthOf(FALSE, n).healthy = FALSE
  BY DEF HealthOf
<1> HIDE DEF n
<1> QED BY <1>2, <1>3, <1>4

(* TransitionTo yields an object in exactly the phase it was asked for.    *)
LEMMA TransitionTyped ==
  ASSUME NEW o \in Shard, NEW new \in Phases
  PROVE  /\ TransitionTo(o, new) \in Shard
         /\ TransitionTo(o, new).phase = new
<1>1. HealthAfter(o.health, new) \in Health
  BY OneMoreErrorTyped, FailureThresholdAssumption
     DEF HealthAfter, HealthOf, Shard, Health
<1> QED BY <1>1 DEF TransitionTo, Shard

(* OnShardFailed and OnShardRecovered yield objects in their phase.        *)
LEMMA MarksTyped ==
  ASSUME NEW o \in Shard
  PROVE  /\ MarkFailed(o) \in Shard /\ MarkFailed(o).phase = "Failed"
         /\ MarkRecovered(o) \in Shard /\ MarkRecovered(o).phase = "Running"
<1>1. HealthOf(TRUE, 0) \in Health /\ HealthOf(FALSE, FailureThreshold) \in Health
  BY FailureThresholdAssumption DEF HealthOf, Health
<1> QED BY <1>1 DEF MarkFailed, MarkRecovered, Shard, Phases

(* Heartbeats and status reports change an object but never its phase.     *)
LEMMA WritersTyped ==
  ASSUME NEW o \in Shard, NEW ok \in BOOLEAN
  PROVE  /\ Heartbeat(o, ok) \in Shard /\ Heartbeat(o, ok).phase = o.phase
         /\ [o EXCEPT !.fresh = ok] \in Shard /\ [o EXCEPT !.fresh = ok].phase = o.phase
         /\ [o EXCEPT !.assigned = ok] \in Shard
         /\ [o EXCEPT !.assigned = ok].phase = o.phase
<1>1. HealthOf(ok, 0) \in Health
  BY FailureThresholdAssumption DEF HealthOf, Health
<1> QED BY <1>1 DEF Heartbeat, Shard

----------------------------------------------------------------------------
(* Type correctness. *)

(* The listed shards can be counted.                                       *)
LEMMA ExistingFinite ==
  ASSUME TypeOK
  PROVE  /\ Existing \subseteq Shards
         /\ IsFiniteSet(Existing)
         /\ Cardinality(Existing) \in Nat
<1>1. Existing \subseteq Shards
  BY DEF Existing
<1> QED BY <1>1, ShardsAssumption, FS_Subset, FS_CardinalityType

(* A read only adds shards to the reader's current set.                    *)
LEMMA ReadTyped ==
  ASSUME NEW c \in [Holders -> SUBSET Shards], NEW h \in Holders, NEW S \in SUBSET Shards
  PROVE  [c EXCEPT ![h] = @ \cup S] \in [Holders -> SUBSET Shards]
<1>1. c[h] \cup S \in SUBSET Shards
  OBVIOUS
<1> QED BY <1>1

(* A refused or an accepted write only takes shards out of current sets.   *)
LEMMA CurrentTyped ==
  ASSUME NEW c \in [Holders -> SUBSET Shards], NEW h \in Holders, NEW s \in Shards, NEW K
  PROVE  /\ [c EXCEPT ![h] = @ \ {s}] \in [Holders -> SUBSET Shards]
         /\ [g \in Holders |-> IF g \in K THEN c[g] ELSE c[g] \ {s}]
              \in [Holders -> SUBSET Shards]
<1>1. \A g \in Holders : c[g] \in SUBSET Shards /\ c[g] \ {s} \in SUBSET Shards
  OBVIOUS
<1> QED BY <1>1

(* Status().Update keeps the store and the current sets well typed.        *)
LEMMA UpdateStatusTyped ==
  ASSUME TypeOK, NEW h \in Holders, NEW s \in Shards, NEW o \in Shard,
         UpdateStatus(h, s, o)
  PROVE  /\ store' \in [Shards -> Shard]
         /\ current' \in [Holders -> SUBSET Shards]
<1>1. CASE Accepted(h, s)
  <2>1. /\ store' = [store EXCEPT ![s] = o]
        /\ current' = [g \in Holders |-> IF g \in {} THEN current[g] ELSE current[g] \ {s}]
    BY <1>1 DEF UpdateStatus, Put
  <2> QED BY <2>1, CurrentTyped DEF TypeOK
<1>2. CASE ~Accepted(h, s)
  <2>1. store' = store /\ current' = [current EXCEPT ![h] = @ \ {s}]
    BY <1>2 DEF UpdateStatus, Forget
  <2> QED BY <2>1, CurrentTyped DEF TypeOK
<1> QED BY <1>1, <1>2

(* The program's first states are well typed and keep the bookkeeping.     *)
LEMMA InitTypeOK == Init => TypeOK /\ Bookkeeping
<1> SUFFICES ASSUME Init PROVE TypeOK /\ Bookkeeping
  OBVIOUS
<1>1. store \in [Shards -> Shard]
  BY ConstantObjects, MarksTyped DEF Init
<1>2. Existing \subseteq Shards
  BY DEF Existing
<1> QED BY <1>1, <1>2, ConstantObjects
        DEF Init, TypeOK, Bookkeeping, Loops, WorkerCalls, Holders

(* The steps both health loops share keep types and bookkeeping.           *)
LEMMA HealthLoopTypeOK ==
  ASSUME TypeOK, NEW l \in Loops, HealthLoop(l)
  PROVE  TypeOK'
<1> USE DEF storeVars, healthVars, scaleVars, workerVars, Go, Read, Forget
<1>1. CASE StartPass(l)
  <2>1. Existing \subseteq Shards /\ l \in Holders
    BY DEF Existing, Loops, Holders
  <2> QED BY <1>1, <2>1 DEF StartPass, TypeOK
<1>2. ASSUME NEW s \in Shards, ReadPrevious(l, s) PROVE TypeOK'
  BY <1>2 DEF ReadPrevious, TypeOK
<1>3. ASSUME NEW s \in Shards, WriteStatus(l, s) PROVE TypeOK'
  <2> DEFINE o == [seen[l][s] EXCEPT !.fresh = store[s].fresh]
  <2>1. seen[l][s] \in Shard /\ store[s].fresh \in BOOLEAN
    BY DEF TypeOK, Shard
  <2>2. o \in Shard
    BY <2>1, WritersTyped
  <2>3. UpdateStatus(l, s, o)
    BY <1>3 DEF WriteStatus
  <2> HIDE DEF o
  <2>4. l \in Holders
    BY DEF Loops, Holders
  <2>5. store' \in [Shards -> Shard] /\ current' \in [Holders -> SUBSET Shards]
    BY <2>2, <2>3, <2>4, UpdateStatusTyped
  <2> QED BY <1>3, <2>5, ConstantObjects DEF WriteStatus, TypeOK
<1> QED BY <1>1, <1>2, <1>3 DEF HealthLoop

(* What CheckHealth finds is a status, healthy only for a Running shard. *)
LEMMA CheckHealthTyped ==
  ASSUME TypeOK, NEW l \in Loops, NEW s \in Shards, NEW timely \in BOOLEAN
  PROVE  /\ CheckHealth(l, s, timely) \in Health
         /\ CheckHealth(l, s, timely).healthy => seen[l][s].phase = "Running"
         /\ seen[l][s] \in Shard
         /\ [seen[l][s] EXCEPT !.health = CheckHealth(l, s, timely)] \in Shard
<1>1. seen[l][s] \in Shard /\ prev[l] \in Health
  BY DEF TypeOK
<1> DEFINE ok == seen[l][s].phase = "Running" /\ seen[l][s].fresh /\ timely
<1>2. ok \in BOOLEAN
  OBVIOUS
<1>3. /\ CheckedHealth(prev[l], ok) \in Health
      /\ CheckedHealth(prev[l], ok).healthy => ok
  <2> HIDE DEF ok
  <2> QED BY <1>1, <1>2, CheckedHealthTyped
<1>4. CheckHealth(l, s, timely) = CheckedHealth(prev[l], ok)
  BY DEF CheckHealth
<1> QED BY <1>1, <1>3, <1>4 DEF Shard

(* The ShardManager's health loop keeps types and bookkeeping.             *)
LEMMA ManagerLoopTypeOK ==
  ASSUME TypeOK, ManagerLoop
  PROVE  TypeOK'
<1> USE DEF storeVars, healthVars, scaleVars, workerVars, Go, Forget
<1>1. CASE HealthLoop("sm")
  BY <1>1, HealthLoopTypeOK DEF Loops
<1>2. ASSUME NEW s \in Shards, NEW timely \in BOOLEAN, SmCheck(s, timely)
      PROVE  TypeOK'
  <2> DEFINE h == CheckHealth("sm", s, timely)
             checked == [seen["sm"][s] EXCEPT !.health = h]
  <2>1. "sm" \in Loops /\ "sm" \in Holders
    BY DEF Loops, Holders
  <2>2. h \in Health /\ checked \in Shard
    BY <2>1, CheckHealthTyped
  <2>3. \/ Skip("sm", s, h)
        \/ Proceed("sm", s, TransitionTo(checked, "Failed"), "failing")
        \/ Proceed("sm", s, TransitionTo(checked, "Running"), "write")
        \/ Proceed("sm", s, checked, "write")
    BY <1>2 DEF SmCheck
  <2> HIDE DEF h, checked
  <2>4. /\ TransitionTo(checked, "Failed") \in Shard
        /\ TransitionTo(checked, "Running") \in Shard
    BY <2>2, TransitionTyped DEF Phases
  <2>5. /\ UNCHANGED <<store, used, scaleVars, workerVars>>
        /\ prev' = [prev EXCEPT !["sm"] = NilHealth]
    BY <1>2 DEF SmCheck
  <2>6. CASE Skip("sm", s, h)
    BY <2>1, <2>2, <2>5, <2>6, ConstantObjects, CurrentTyped DEF Skip, TypeOK
  <2>7. ASSUME NEW o \in Shard, NEW where \in {"failing", "write"},
               Proceed("sm", s, o, where)
        PROVE  TypeOK'
    <3>1. o.health \in Health
      BY DEF Shard
    <3> QED BY <2>1, <2>5, <2>7, <3>1, ConstantObjects DEF Proceed, TypeOK
  <2> QED BY <2>2, <2>3, <2>4, <2>6, <2>7
<1>3. ASSUME NEW s \in Shards, SmReread(s) PROVE TypeOK'
  <2>1. "sm" \in Loops /\ "fail" \in Holders /\ {s} \in SUBSET Shards
    BY DEF Loops, Holders
  <2>2. PICK where \in {"marking", "write"} : at' = [at EXCEPT !["sm"][s] = where]
    BY <1>3 DEF SmReread
  <2>3. \/ current' = [current EXCEPT !["fail"] = @ \cup {s}]
        \/ current' = current
    BY <1>3 DEF SmReread, Read
  <2>4. current' \in [Holders -> SUBSET Shards]
    <3>1. current \in [Holders -> SUBSET Shards]
      BY DEF TypeOK
    <3> QED BY <2>1, <2>3, <3>1, ReadTyped
  <2>5. UNCHANGED <<store, used, statuses, prev, seen, scaleVars, workerVars>>
    BY <1>3 DEF SmReread
  <2> QED BY <2>1, <2>2, <2>4, <2>5 DEF TypeOK
<1>4. ASSUME NEW s \in Shards, SmMarkFailed(s) PROVE TypeOK'
  <2>1. MarkFailed(store[s]) \in Shard /\ "fail" \in Holders
    BY MarksTyped DEF TypeOK, Holders
  <2>2. UpdateStatus("fail", s, MarkFailed(store[s]))
    BY <1>4 DEF SmMarkFailed
  <2>3. store' \in [Shards -> Shard] /\ current' \in [Holders -> SUBSET Shards]
    BY <2>1, <2>2, UpdateStatusTyped
  <2> QED BY <1>4, <2>3 DEF SmMarkFailed, TypeOK
<1> QED BY <1>1, <1>2, <1>3, <1>4 DEF ManagerLoop

(* The HealthChecker's loop keeps types and bookkeeping.                   *)
LEMMA CheckerLoopTypeOK ==
  ASSUME TypeOK, CheckerLoop
  PROVE  TypeOK'
<1> USE DEF storeVars, healthVars, scaleVars, workerVars, Go, Forget
<1>1. CASE HealthLoop("hc")
  BY <1>1, HealthLoopTypeOK DEF Loops
<1>2. ASSUME NEW s \in Shards, NEW timely \in BOOLEAN, HcCheck(s, timely)
      PROVE  TypeOK'
  <2> DEFINE h == CheckHealth("hc", s, timely)
             checked == [seen["hc"][s] EXCEPT !.health = h]
  <2>1. "hc" \in Loops /\ "hc" \in Holders
    BY DEF Loops, Holders
  <2>2. h \in Health /\ checked \in Shard
    BY <2>1, CheckHealthTyped
  <2>3. \/ Skip("hc", s, h)
        \/ Proceed("hc", s, TransitionTo(checked, "Failed"), "write")
        \/ Proceed("hc", s, TransitionTo(checked, "Running"), "write")
        \/ Proceed("hc", s, checked, "write")
    BY <1>2 DEF HcCheck
  <2> HIDE DEF h, checked
  <2>4. /\ TransitionTo(checked, "Failed") \in Shard
        /\ TransitionTo(checked, "Running") \in Shard
    BY <2>2, TransitionTyped DEF Phases
  <2>5. /\ UNCHANGED <<store, used, scaleVars, workerVars>>
        /\ prev' = [prev EXCEPT !["hc"] = NilHealth]
    BY <1>2 DEF HcCheck
  <2>6. CASE Skip("hc", s, h)
    BY <2>1, <2>2, <2>5, <2>6, ConstantObjects, CurrentTyped DEF Skip, TypeOK
  <2>7. ASSUME NEW o \in Shard, Proceed("hc", s, o, "write")
        PROVE  TypeOK'
    <3>1. o.health \in Health
      BY DEF Shard
    <3> QED BY <2>1, <2>5, <2>7, <3>1, ConstantObjects DEF Proceed, TypeOK
  <2> QED BY <2>2, <2>3, <2>4, <2>6, <2>7
<1> QED BY <1>1, <1>2 DEF CheckerLoop

(* A scaling decision that ends leaves well typed idle state.              *)
LEMMA EndScalingTyped ==
  ASSUME EndScaling
  PROVE  /\ stage' = "idle" /\ target' = 0 /\ missing' = 0
         /\ victims' = {} /\ removing' = {}
         /\ picked' \in [Shards -> Shard]
BY ConstantObjects DEF EndScaling

(* An accepted write keeps the store and the current sets well typed.      *)
LEMMA PutTyped ==
  ASSUME TypeOK, NEW s \in Shards, NEW o \in Shard, NEW K, Put(s, o, K)
  PROVE  /\ store' \in [Shards -> Shard]
         /\ current' \in [Holders -> SUBSET Shards]
BY CurrentTyped DEF Put, TypeOK

(* The scaling loop keeps types and bookkeeping.                           *)
LEMMA ScalingLoopTypeOK ==
  ASSUME TypeOK, Bookkeeping, ScalingLoop
  PROVE  TypeOK'
<1> USE DEF storeVars, healthVars, scaleVars, workerVars
<1>0. Cardinality(Existing) \in Nat /\ Existing \subseteq Shards
  BY ExistingFinite
<1>1. CASE Decide
  BY <1>0, <1>1, BoundsAssumption DEF Decide, MayGrow, MayShrink, TypeOK
<1>2. CASE CountMissing
  <2>1. CASE Cardinality(Existing) >= target
    BY <1>2, <2>1, EndScalingTyped DEF CountMissing, TypeOK
  <2>2. CASE ~(Cardinality(Existing) >= target)
    BY <1>0, <1>2, <2>2 DEF CountMissing, TypeOK
  <2> QED BY <2>1, <2>2
<1>3. CASE CreateFails
  BY <1>3, EndScalingTyped DEF CreateFails, TypeOK
<1>4. CASE Select
  <2>1. CASE EndScaling /\ UNCHANGED current
    BY <1>4, <2>1, EndScalingTyped DEF Select, TypeOK
  <2>2. ASSUME NEW V \in Selections(Cardinality(Existing) - target),
               victims' = V,
               picked' = [s \in Shards |-> IF s \in V THEN store[s] ELSE NoShard],
               Read("scale", V),
               stage' = "drain",
               UNCHANGED <<target, missing, removing>>
        PROVE  TypeOK'
    <3>1. V \in SUBSET Shards /\ "scale" \in Holders
      BY <1>0 DEF Selections, Holders
    <3>2. current' \in [Holders -> SUBSET Shards]
      BY <2>2, <3>1, ReadTyped DEF Read, TypeOK
    <3>3. picked' \in [Shards -> Shard]
      BY <2>2, ConstantObjects DEF TypeOK
    <3> QED BY <1>4, <2>2, <3>1, <3>2, <3>3 DEF Select, TypeOK
  <2> QED BY <1>4, <2>1, <2>2 DEF Select
<1>5. ASSUME NEW s \in Shards, CreateShard(s) PROVE TypeOK'
  <2>1. store' \in [Shards -> Shard] /\ current' \in [Holders -> SUBSET Shards]
    BY <1>5, ConstantObjects, PutTyped DEF CreateShard
  <2>2. CASE missing = 1
    BY <1>5, <2>1, <2>2, EndScalingTyped DEF CreateShard, TypeOK
  <2>3. CASE missing # 1
    <3>1. missing - 1 \in Nat
      BY <1>5, <2>3 DEF CreateShard, Bookkeeping, TypeOK
    <3> QED BY <1>5, <2>1, <2>3, <3>1 DEF CreateShard, TypeOK
  <2> QED BY <2>2, <2>3
<1>6. ASSUME NEW s \in Shards, DrainVictim(s) PROVE TypeOK'
  <2>1. TransitionTo(store[s], "Draining") \in Shard
    BY TransitionTyped DEF Phases, TypeOK
  <2>2. CASE CanTransitionTo(picked[s], "Draining") /\ Accepted("scale", s)
    <3>1. store' \in [Shards -> Shard] /\ current' \in [Holders -> SUBSET Shards]
      BY <1>6, <2>1, <2>2, PutTyped DEF DrainVictim
    <3> QED BY <1>6, <2>2, <3>1 DEF DrainVictim, TypeOK
  <2>3. CASE ~(CanTransitionTo(picked[s], "Draining") /\ Accepted("scale", s))
    <3>1. current' \in [Holders -> SUBSET Shards]
      BY <1>6, <2>3 DEF DrainVictim, ScaleForgets, TypeOK
    <3> QED BY <1>6, <2>3, <3>1, EndScalingTyped DEF DrainVictim, TypeOK
  <2> QED BY <2>2, <2>3
<1>7. ASSUME NEW s \in Shards, Handoff(s) PROVE TypeOK'
  <2>1. CASE stage' = "remove" /\ UNCHANGED <<target, missing, victims, picked, removing, current>>
    BY <1>7, <2>1 DEF Handoff, TypeOK
  <2>2. CASE EndScaling /\ ScaleForgets
    <3>1. current' \in [Holders -> SUBSET Shards]
      BY <2>2 DEF ScaleForgets, TypeOK
    <3> QED BY <1>7, <2>2, <3>1, EndScalingTyped DEF Handoff, TypeOK
  <2> QED BY <1>7, <2>1, <2>2 DEF Handoff
<1>8. ASSUME NEW s \in Shards, RemoveShard(s) PROVE TypeOK'
  <2>1. store' \in [Shards -> Shard] /\ current' \in [Holders -> SUBSET Shards]
    BY <1>8, ConstantObjects, PutTyped DEF RemoveShard
  <2>2. CASE victims = {s}
    BY <1>8, <2>1, <2>2, EndScalingTyped DEF RemoveShard, TypeOK
  <2>3. CASE victims # {s}
    <3>1. picked' \in [Shards -> Shard]
      BY <1>8, <2>3, ConstantObjects DEF RemoveShard, TypeOK
    <3> QED BY <1>8, <2>1, <2>3, <3>1 DEF RemoveShard, TypeOK
  <2> QED BY <2>2, <2>3
<1>9. CASE RemoveFails
  <2>1. current' \in [Holders -> SUBSET Shards]
    BY <1>9 DEF RemoveFails, ScaleForgets, TypeOK
  <2> QED BY <1>9, <2>1, EndScalingTyped DEF RemoveFails, TypeOK
<1> QED BY <1>1, <1>2, <1>3, <1>4, <1>5, <1>6, <1>7, <1>8, <1>9 DEF ScalingLoop

(* Workers, recoveries, crashes and ageing keep types and bookkeeping.     *)
LEMMA WorkersTypeOK ==
  ASSUME TypeOK, Bookkeeping, NEW s \in Shards,
         \/ HeartbeatLoop(s) \/ DrainCall(s) \/ ReportCall(s) \/ RecoverCall(s)
         \/ WorkerCrash(s) \/ WorkerStart(s) \/ Age(s)
  PROVE  TypeOK'
<1> USE DEF storeVars, healthVars, scaleVars, workerVars, NotWorkers, SetCall
<1>0. /\ "beat" \in Holders /\ "drain" \in Holders
      /\ "report" \in Holders /\ "recover" \in Holders
      /\ {s} \in SUBSET Shards /\ store[s] \in Shard
  BY DEF Holders, WorkerCalls, TypeOK
<1>a. /\ WorkerCalls \cup {"recover"} = {"beat", "drain", "report", "recover"}
      /\ WorkerCalls = {"beat", "drain", "report"}
  BY DEF WorkerCalls
<1>1. ASSUME NEW k \in {"beat", "drain", "report", "recover"},
             SetCall(k, s, "read"), Read(k, {s}), NotWorkers, UNCHANGED <<store, worker>>
      PROVE  TypeOK'
  <2>1. current' \in [Holders -> SUBSET Shards]
    BY <1>0, <1>1, ReadTyped DEF Read, TypeOK
  <2> QED BY <1>1, <1>a, <2>1 DEF TypeOK
<1>2. CASE BeatReportHealth(s)
  <2>1. worker[s] \in {"up", "draining"}
    BY <1>2, <1>a DEF BeatReportHealth, Bookkeeping, TypeOK
  <2> QED BY <1>2, <1>a, <2>1 DEF BeatReportHealth, TypeOK
<1>b. CASE DrainFlag(s)
  BY <1>b, <1>a DEF DrainFlag, TypeOK
<1>3. CASE BeatUpdate(s)
  <2> DEFINE ok == call["beat"][s] = "up"
             o  == Heartbeat(store[s], ok)
  <2>1. o \in Shard
    <3>1. ok \in BOOLEAN
      OBVIOUS
    <3> HIDE DEF ok
    <3> QED BY <1>0, <3>1, WritersTyped
  <2>2. UpdateStatus("beat", s, o)
    BY <1>3 DEF BeatUpdate
  <2> HIDE DEF o
  <2>3. store' \in [Shards -> Shard] /\ current' \in [Holders -> SUBSET Shards]
    BY <1>0, <2>1, <2>2, UpdateStatusTyped
  <2> QED BY <1>3, <2>3 DEF BeatUpdate, TypeOK
<1>4. CASE DrainGet(s)
  <2>1. CASE CanTransitionTo(store[s], "Draining")
    <3>1. SetCall("drain", s, "read") /\ Read("drain", {s})
      BY <1>4, <2>1 DEF DrainGet
    <3>2. NotWorkers /\ UNCHANGED <<store, worker>>
      BY <1>4 DEF DrainGet
    <3> QED BY <1>1, <3>1, <3>2
  <2>2. CASE ~CanTransitionTo(store[s], "Draining")
    <3>1. call' = [call EXCEPT !["drain"][s] = "idle"] /\ current' = current
      BY <1>4, <2>2 DEF DrainGet
    <3> QED BY <1>4, <1>a, <3>1 DEF DrainGet, TypeOK
  <2> QED BY <2>1, <2>2
<1>5. CASE DrainUpdate(s)
  <2>1. TransitionTo(store[s], "Draining") \in Shard
    BY <1>0, TransitionTyped DEF Phases
  <2>2. UpdateStatus("drain", s, TransitionTo(store[s], "Draining"))
    BY <1>5 DEF DrainUpdate
  <2>3. store' \in [Shards -> Shard] /\ current' \in [Holders -> SUBSET Shards]
    BY <1>0, <2>1, <2>2, UpdateStatusTyped
  <2> QED BY <1>5, <2>3 DEF DrainUpdate, TypeOK
<1>6. CASE ReportUpdate(s)
  <2>1. PICK some \in BOOLEAN :
          UpdateStatus("report", s, [store[s] EXCEPT !.assigned = some])
    BY <1>6 DEF ReportUpdate
  <2>2. [store[s] EXCEPT !.assigned = some] \in Shard
    BY <1>0, WritersTyped
  <2>3. store' \in [Shards -> Shard] /\ current' \in [Holders -> SUBSET Shards]
    BY <1>0, <2>1, <2>2, UpdateStatusTyped
  <2> QED BY <1>6, <2>3 DEF ReportUpdate, TypeOK
<1>7. CASE RecoverUpdate(s)
  <2>1. MarkRecovered(store[s]) \in Shard
    BY <1>0, MarksTyped
  <2>2. UpdateStatus("recover", s, MarkRecovered(store[s]))
    BY <1>7 DEF RecoverUpdate
  <2>3. store' \in [Shards -> Shard] /\ current' \in [Holders -> SUBSET Shards]
    BY <1>0, <2>1, <2>2, UpdateStatusTyped
  <2> QED BY <1>7, <2>3 DEF RecoverUpdate, TypeOK
<1>8. CASE WorkerCrash(s)
  <2>1. current' \in [Holders -> SUBSET Shards]
    BY <1>8 DEF WorkerCrash, TypeOK
  <2>2. call' \in [WorkerCalls \cup {"recover"} ->
                  [Shards -> {"idle", "read", "up", "draining", "flagged"}]]
    BY <1>8 DEF WorkerCrash, TypeOK
  <2> QED BY <1>8, <2>1, <2>2 DEF WorkerCrash, TypeOK
<1>9. CASE WorkerStart(s)
  <2>1. CASE Exists(store[s])
    BY <1>9, <2>1 DEF WorkerStart, TypeOK
  <2>2. CASE ~Exists(store[s])
    <3>1. store' \in [Shards -> Shard] /\ current' \in [Holders -> SUBSET Shards]
      BY <1>9, <2>2, ConstantObjects, PutTyped DEF WorkerStart
    <3> QED BY <1>9, <3>1 DEF WorkerStart, TypeOK
  <2> QED BY <2>1, <2>2
<1>10. CASE Age(s)
  <2>1. [store[s] EXCEPT !.fresh = FALSE] \in Shard
    BY <1>0, WritersTyped
  <2> QED BY <1>10, <2>1 DEF Age, TypeOK
<1>c. CASE BeatGet(s) \/ ReportGet(s) \/ RecoverGet(s)
  BY <1>1, <1>c DEF BeatGet, ReportGet, RecoverGet
<1> QED BY <1>2, <1>b, <1>3, <1>4, <1>5, <1>6, <1>7, <1>8, <1>9, <1>10, <1>c
        DEF HeartbeatLoop, DrainCall, ReportCall, RecoverCall

----------------------------------------------------------------------------
(* Copies that can be written are current. *)

IInv == TypeOK /\ CopiesCurrent /\ Bookkeeping

(* A step that changes nothing that matters to a shard other than s. *)
OnlyTouches(s) ==
  \A t \in Shards \ {s} :
    /\ store'[t].phase = store[t].phase
    /\ \A h \in Holders : t \in current'[h] => t \in current[h]
    /\ \A l \in Loops : at'[l][t] = at[l][t] /\ seen'[l][t] = seen[l][t]
    /\ call'["drain"][t] = call["drain"][t]
    /\ t \in victims' \ removing' => t \in victims \ removing /\ picked'[t] = picked[t]

(* The ways in which a step may change the stored phase of s, and who does *)
(* it: the two creators, a loop or OnShardFailed failing it, a drain, the  *)
(* removal of a victim, and OnShardRecovered.                              *)
PhaseStep(s) ==
  \/ store'[s].phase = store[s].phase
  \/ ~Exists(store[s]) /\ store'[s].phase = "Pending" /\ (used' # used \/ "start" \in Actors)
  \/ Exists(store[s]) /\ store'[s].phase = "Failed"
       /\ (CanTransitionTo(store[s], "Failed") \/ at["sm"][s] = "marking")
  \/ store'[s].phase = "Draining" /\ CanTransitionTo(store[s], "Draining")
  \/ store'[s].phase = "Absent" /\ s \in removing /\ s \notin removing'
  \/ Exists(store[s]) /\ store'[s].phase = "Running" /\ call["recover"][s] = "read"

(* What every step is shown to do. *)
GoodStep ==
  /\ CopiesCurrent'
  /\ Bookkeeping'
  /\ \/ \A t \in Shards : store'[t].phase = store[t].phase
     \/ \E s \in Shards : PhaseStep(s) /\ \A t \in Shards \ {s} : store'[t].phase = store[t].phase

(* A shard that a step does not touch keeps its current copies current.    *)
LEMMA OnlyTouchesKeeps ==
  ASSUME CopiesCurrent, NEW s \in Shards, OnlyTouches(s), CopyCurrent(s)'
  PROVE  CopiesCurrent'
<1> SUFFICES ASSUME NEW t \in Shards, t # s PROVE CopyCurrent(t)'
  BY DEF CopiesCurrent
<1>1. CopyCurrent(t)
  BY DEF CopiesCurrent
<1>2. "drain" \in Holders /\ "scale" \in Holders /\ Loops \subseteq Holders
  BY DEF Holders, Loops, WorkerCalls
<1> QED BY <1>1, <1>2 DEF OnlyTouches, CopyCurrent, Exists, CanTransitionTo, IsValidPhaseTransition

(* Where nobody holds the stored version, no copy can be written.          *)
LEMMA RevokedIsCurrent ==
  ASSUME NEW s \in Shards, \A h \in Holders : s \notin current'[h]
  PROVE  CopyCurrent(s)'
<1>1. "drain" \in Holders /\ "scale" \in Holders /\ Loops \subseteq Holders
  BY DEF Holders, Loops, WorkerCalls
<1> QED BY <1>1 DEF CopyCurrent

(* An update is refused and changes nothing, or it takes the shard out of  *)
(* everybody's current set.                                                *)
LEMMA UpdateStatusEffect ==
  ASSUME TypeOK, NEW h \in Holders, NEW s \in Shards, NEW o \in Shard,
         UpdateStatus(h, s, o)
  PROVE  /\ \A t \in Shards \ {s} :
              /\ store'[t] = store[t]
              /\ \A g \in Holders : t \in current'[g] => t \in current[g]
         /\ \/ /\ store' = store /\ s \notin current'[h]
               /\ \A g \in Holders : current'[g] \subseteq current[g]
            \/ /\ s \in current[h] /\ store'[s] = o
               /\ \A g \in Holders : s \notin current'[g]
<1>1. CASE Accepted(h, s)
  <2>1. /\ store' = [store EXCEPT ![s] = o]
        /\ current' = [g \in Holders |-> current[g] \ {s}]
    BY <1>1 DEF UpdateStatus, Put
  <2> QED BY <1>1, <2>1 DEF Accepted, TypeOK
<1>2. CASE ~Accepted(h, s)
  <2>1. store' = store /\ current' = [current EXCEPT ![h] = @ \ {s}]
    BY <1>2 DEF UpdateStatus, Forget
  <2> QED BY <2>1 DEF TypeOK
<1> QED BY <1>1, <1>2

(* The steps both health loops share are good steps.                       *)
LEMMA HealthLoopGood ==
  ASSUME IInv, NEW l \in Loops, HealthLoop(l)
  PROVE  GoodStep
<1> USE DEF storeVars, healthVars, scaleVars, workerVars, Go, IInv
<1>0. l \in Holders /\ "drain" \in Holders /\ "scale" \in Holders /\ Loops \subseteq Holders
  BY DEF Loops, Holders, WorkerCalls
<1>1. CASE StartPass(l)
  <2>1. ASSUME NEW t \in Shards PROVE CopyCurrent(t)'
    <3>1. CopyCurrent(t)
      BY DEF CopiesCurrent
    <3>2. current' = [current EXCEPT ![l] = @ \cup Existing] /\ store' = store
      BY <1>1 DEF StartPass, Read
    <3>3. \A h \in Holders : t \in current'[h] => t \in current[h] \/ (h = l /\ Exists(store[t]))
      BY <1>0, <3>2 DEF TypeOK, Existing
    <3>4. \A m \in Loops \ {l} : at'[m][t] = at[m][t] /\ seen'[m][t] = seen[m][t]
                                /\ (t \in current'[m] => t \in current[m])
      BY <1>0, <1>1, <3>3 DEF StartPass, TypeOK
    <3>5. at'[l][t] \in {"listed", "idle"} /\ seen'[l][t] = store[t]
      BY <1>1 DEF StartPass, TypeOK
    <3>6. /\ call' = call /\ victims' = victims /\ removing' = removing /\ picked' = picked
          /\ (t \in current'["drain"] => t \in current["drain"])
          /\ (t \in current'["scale"] => t \in current["scale"])
      BY <1>0, <1>1, <3>3 DEF StartPass, Loops
    <3> QED BY <1>0, <3>1, <3>2, <3>3, <3>4, <3>5, <3>6 DEF CopyCurrent, Exists
  <2> QED BY <1>1, <2>1 DEF GoodStep, CopiesCurrent, StartPass, Bookkeeping, Existing, Exists
<1>2. ASSUME NEW s \in Shards, ReadPrevious(l, s) PROVE GoodStep
  <2>1. OnlyTouches(s)
    BY <1>2 DEF OnlyTouches, ReadPrevious, TypeOK
  <2>2. CopyCurrent(s)
    BY DEF CopiesCurrent
  <2>3. /\ at[l][s] = "listed" /\ at'[l][s] = "check"
        /\ \A m \in Loops \ {l} : at'[m][s] = at[m][s]
        /\ UNCHANGED <<store, current, seen, call, victims, removing, picked>>
    BY <1>2 DEF ReadPrevious, TypeOK
  <2>4. CopyCurrent(s)'
    BY <2>2, <2>3 DEF CopyCurrent, Exists
  <2> QED BY <1>2, <2>1, <2>4, OnlyTouchesKeeps
          DEF GoodStep, ReadPrevious, Bookkeeping, Existing, Exists
<1>3. ASSUME NEW s \in Shards, WriteStatus(l, s) PROVE GoodStep
  <2> DEFINE o == [seen[l][s] EXCEPT !.fresh = store[s].fresh]
  <2>1. seen[l][s] \in Shard /\ store[s].fresh \in BOOLEAN
    BY DEF TypeOK, Shard
  <2>2. o \in Shard /\ o.phase = seen[l][s].phase
    BY <2>1, WritersTyped
  <2>3. UpdateStatus(l, s, o)
    BY <1>3 DEF WriteStatus
  <2>4. /\ at[l][s] = "write" /\ at'[l][s] = "idle"
        /\ \A m \in Loops \ {l} : at'[m][s] = at[m][s] /\ seen'[m][s] = seen[m][s]
        /\ \A m \in Loops, t \in Shards \ {s} :
             at'[m][t] = at[m][t] /\ seen'[m][t] = seen[m][t]
        /\ UNCHANGED <<used, call, victims, removing, picked, stage, missing, worker>>
    BY <1>3 DEF WriteStatus, TypeOK
  <2>5. CopyCurrent(s)
    BY DEF CopiesCurrent
  <2> HIDE DEF o
  <2>6. /\ \A t \in Shards \ {s} :
             /\ store'[t] = store[t]
             /\ \A g \in Holders : t \in current'[g] => t \in current[g]
        /\ \/ /\ store' = store /\ s \notin current'[l]
              /\ \A g \in Holders : current'[g] \subseteq current[g]
           \/ /\ s \in current[l] /\ store'[s] = o
              /\ \A g \in Holders : s \notin current'[g]
    BY <1>0, <2>2, <2>3, UpdateStatusEffect
  <2>7. OnlyTouches(s)
    BY <2>4, <2>6 DEF OnlyTouches
  <2>8. CopyCurrent(s)' /\ PhaseStep(s) /\ (Exists(store'[s]) => Exists(store[s]))
    <3>1. CASE store' = store /\ s \notin current'[l] /\ \A g \in Holders : current'[g] \subseteq current[g]
      BY <1>0, <2>4, <2>5, <3>1 DEF CopyCurrent, PhaseStep, Exists
    <3>2. CASE s \in current[l] /\ store'[s] = o /\ \A g \in Holders : s \notin current'[g]
      <4>1. CopyCurrent(s)'
        BY <3>2, RevokedIsCurrent
      <4>2. \/ o.phase = store[s].phase
            \/ o.phase = "Failed" /\ CanTransitionTo(store[s], "Failed")
        BY <2>2, <2>4, <2>5, <3>2 DEF CopyCurrent
      <4>3. Exists(store[s])
        BY <1>0, <2>5, <3>2 DEF CopyCurrent
      <4> QED BY <3>2, <4>1, <4>2, <4>3 DEF PhaseStep
    <3> QED BY <2>6, <3>1, <3>2
  <2>9. Bookkeeping'
    <3>1. Existing' \subseteq Existing
      BY <2>6, <2>8 DEF Existing
    <3> QED BY <2>4, <3>1 DEF Bookkeeping
  <2> QED BY <2>6, <2>7, <2>8, <2>9, OnlyTouchesKeeps DEF GoodStep
<1> QED BY <1>1, <1>2, <1>3 DEF HealthLoop

(* An update of s that is lawful when it is accepted, by a caller whose    *)
(* local state changes for s only.                                         *)
LEMMA UpdateGood ==
  ASSUME IInv, NEW h \in Holders, NEW s \in Shards, NEW o \in Shard,
         UpdateStatus(h, s, o),
         \A m \in Loops, t \in Shards \ {s} :
           at'[m][t] = at[m][t] /\ seen'[m][t] = seen[m][t],
         \A t \in Shards \ {s} : call'["drain"][t] = call["drain"][t],
         UNCHANGED <<used, victims, removing, picked, stage, missing, worker>>,
         \A k \in WorkerCalls, t \in Shards : call'[k][t] # "idle" => call[k][t] # "idle",
         s \in current[h] /\ Exists(store[s]) /\ store'[s].phase = o.phase => PhaseStep(s),
         /\ store' = store /\ s \notin current'[h]
         /\ \A g \in Holders : current'[g] \subseteq current[g]
         => CopyCurrent(s)'
  PROVE  GoodStep
<1> USE DEF IInv
<1>1. /\ \A t \in Shards \ {s} :
           /\ store'[t] = store[t]
           /\ \A g \in Holders : t \in current'[g] => t \in current[g]
      /\ \/ /\ store' = store /\ s \notin current'[h]
            /\ \A g \in Holders : current'[g] \subseteq current[g]
         \/ /\ s \in current[h] /\ store'[s] = o
            /\ \A g \in Holders : s \notin current'[g]
  BY UpdateStatusEffect
<1>2. OnlyTouches(s)
  BY <1>1 DEF OnlyTouches
<1>3. CopyCurrent(s)' /\ PhaseStep(s) /\ (Exists(store'[s]) => Exists(store[s]))
  <2>1. CASE /\ store' = store /\ s \notin current'[h]
             /\ \A g \in Holders : current'[g] \subseteq current[g]
    BY <2>1 DEF PhaseStep
  <2>2. CASE s \in current[h] /\ store'[s] = o /\ \A g \in Holders : s \notin current'[g]
    <3>1. CopyCurrent(s)'
      BY <2>2, RevokedIsCurrent
    <3>2. Exists(store[s])
      BY <2>2 DEF CopiesCurrent, CopyCurrent
    <3> QED BY <2>2, <3>1, <3>2
  <2> QED BY <1>1, <2>1, <2>2
<1>4. Bookkeeping'
  <2>1. Existing' \subseteq Existing
    BY <1>1, <1>3 DEF Existing
  <2> QED BY <2>1 DEF Bookkeeping
<1> QED BY <1>1, <1>2, <1>3, <1>4, OnlyTouchesKeeps DEF GoodStep

(* A step that leaves the objects alone and changes the local state of one *)
(* loop or call for s only.                                                *)
LEMMA LocalGood ==
  ASSUME IInv, NEW s \in Shards, OnlyTouches(s), CopyCurrent(s)', Bookkeeping',
         store' = store
  PROVE  GoodStep
BY OnlyTouchesKeeps DEF GoodStep, IInv

(* A health loop that goes on to write holds a lawful copy.                *)
LEMMA ProceedGood ==
  ASSUME IInv, NEW l \in Loops, NEW s \in Shards, NEW o \in Shard,
         NEW where \in {"failing", "write"},
         at[l][s] = "check",
         Proceed(l, s, o, where),
         UNCHANGED <<store, used, scaleVars, workerVars>>,
         \/ o.phase = seen[l][s].phase
         \/ o.phase = "Failed" /\ CanTransitionTo(seen[l][s], "Failed")
  PROVE  GoodStep
<1> USE DEF scaleVars, workerVars, IInv
<1>1. /\ at'[l][s] = where /\ seen'[l][s] = o
      /\ \A m \in Loops, t \in Shards : (m # l \/ t # s) =>
           at'[m][t] = at[m][t] /\ seen'[m][t] = seen[m][t]
      /\ UNCHANGED <<store, current, used, call, victims, removing, picked, stage, missing, worker>>
  BY DEF Proceed, Go, TypeOK
<1>2. OnlyTouches(s)
  BY <1>1 DEF OnlyTouches
<1>3. CopyCurrent(s)
  BY DEF CopiesCurrent
<1>4. CopyCurrent(s)'
  BY <1>1, <1>3 DEF CopyCurrent, Exists, CanTransitionTo
<1>5. Bookkeeping'
  BY <1>1 DEF Bookkeeping, Existing, Exists
<1> QED BY <1>1, <1>2, <1>4, <1>5, LocalGood

(* A health loop that has nothing to write drops its copy.                 *)
LEMMA SkipGood ==
  ASSUME IInv, NEW l \in Loops, NEW s \in Shards, NEW h,
         Skip(l, s, h),
         UNCHANGED <<store, used, scaleVars, workerVars>>
  PROVE  GoodStep
<1> USE DEF scaleVars, workerVars, IInv
<1>0. Loops \subseteq Holders
  BY DEF Loops, Holders
<1>1. /\ at'[l][s] = "idle"
      /\ \A m \in Loops, t \in Shards : (m # l \/ t # s) =>
           at'[m][t] = at[m][t] /\ seen'[m][t] = seen[m][t]
      /\ \A g \in Holders, t \in Shards : t \in current'[g] => t \in current[g]
      /\ UNCHANGED <<store, used, call, victims, removing, picked, stage, missing, worker>>
  BY <1>0 DEF Skip, Go, Forget, TypeOK
<1>2. OnlyTouches(s)
  BY <1>1 DEF OnlyTouches
<1>3. CopyCurrent(s)
  BY DEF CopiesCurrent
<1>4. CopyCurrent(s)'
  <2>1. "drain" \in Holders /\ "scale" \in Holders
    BY DEF Holders, WorkerCalls
  <2> QED BY <1>0, <1>1, <1>3, <2>1 DEF CopyCurrent, Exists
<1>5. Bookkeeping'
  BY <1>1 DEF Bookkeeping, Existing, Exists
<1> QED BY <1>1, <1>2, <1>4, <1>5, LocalGood

(* Every step of the ShardManager's health loop is a good step.            *)
LEMMA ManagerLoopGood ==
  ASSUME IInv, ManagerLoop
  PROVE  GoodStep
<1> USE DEF storeVars, healthVars, scaleVars, workerVars, Go, IInv
<1>0. "sm" \in Loops /\ "sm" \in Holders /\ "fail" \in Holders
  BY DEF Loops, Holders
<1>1. CASE HealthLoop("sm")
  BY <1>0, <1>1, HealthLoopGood
<1>2. ASSUME NEW s \in Shards, NEW timely \in BOOLEAN, SmCheck(s, timely)
      PROVE  GoodStep
  <2> DEFINE h == CheckHealth("sm", s, timely)
             checked == [seen["sm"][s] EXCEPT !.health = h]
  <2>1. /\ h.healthy => seen["sm"][s].phase = "Running"
        /\ checked \in Shard /\ checked.phase = seen["sm"][s].phase
    BY <1>0, CheckHealthTyped DEF Shard
  <2>2. /\ at["sm"][s] = "check"
        /\ UNCHANGED <<store, used, scaleVars, workerVars>>
        /\ \/ Skip("sm", s, h)
           \/ /\ seen["sm"][s].phase = "Running"
              /\ Proceed("sm", s, TransitionTo(checked, "Failed"), "failing")
           \/ /\ h.healthy /\ seen["sm"][s].phase = "Failed"
              /\ Proceed("sm", s, TransitionTo(checked, "Running"), "write")
           \/ Proceed("sm", s, checked, "write")
    BY <1>2 DEF SmCheck
  <2> HIDE DEF h, checked
  <2>3. TransitionTo(checked, "Failed") \in Shard /\ TransitionTo(checked, "Failed").phase = "Failed"
    BY <2>1, TransitionTyped DEF Phases
  <2>4. seen["sm"][s].phase = "Running" => CanTransitionTo(seen["sm"][s], "Failed")
    BY DEF CanTransitionTo, IsValidPhaseTransition, ValidNext
  <2>5. CASE Skip("sm", s, h)
    BY <1>0, <2>2, <2>5, SkipGood
  <2>6. CASE seen["sm"][s].phase = "Running"
             /\ Proceed("sm", s, TransitionTo(checked, "Failed"), "failing")
    BY <1>0, <2>2, <2>3, <2>4, <2>6, ProceedGood
  <2>7. CASE Proceed("sm", s, checked, "write")
    BY <1>0, <2>1, <2>2, <2>7, ProceedGood
  <2> QED BY <2>1, <2>2, <2>5, <2>6, <2>7
<1>3. ASSUME NEW s \in Shards, SmReread(s) PROVE GoodStep
  <2>1. /\ at["sm"][s] = "failing" /\ at'["sm"][s] \in {"marking", "write"}
        /\ \A m \in Loops, t \in Shards : (m # "sm" \/ t # s) => at'[m][t] = at[m][t]
        /\ UNCHANGED <<store, used, statuses, prev, seen, scaleVars, workerVars>>
    BY <1>0, <1>3 DEF SmReread, TypeOK
  <2>2. \A g \in Holders, t \in Shards :
          t \in current'[g] => t \in current[g] \/ (g = "fail" /\ t = s /\ Exists(store[s]))
    BY <1>0, <1>3 DEF SmReread, Read, TypeOK
  <2>3. OnlyTouches(s)
    BY <2>1, <2>2 DEF OnlyTouches
  <2>4. CopyCurrent(s)
    BY DEF CopiesCurrent
  <2>5. CopyCurrent(s)'
    <3>1. /\ "drain" \in Holders /\ "scale" \in Holders /\ "hc" \in Holders
          /\ Loops = {"sm", "hc"}
      BY DEF Holders, WorkerCalls, Loops
    <3> QED BY <1>0, <2>1, <2>2, <2>4, <3>1 DEF CopyCurrent, Exists
  <2>6. Bookkeeping'
    BY <2>1 DEF Bookkeeping, Existing, Exists
  <2> QED BY <2>1, <2>3, <2>5, <2>6, LocalGood
<1>4. ASSUME NEW s \in Shards, SmMarkFailed(s) PROVE GoodStep
  <2>1. /\ at["sm"][s] = "marking" /\ at'["sm"][s] = "write"
        /\ \A m \in Loops, t \in Shards : (m # "sm" \/ t # s) => at'[m][t] = at[m][t]
        /\ UNCHANGED <<used, statuses, prev, seen, scaleVars, workerVars>>
        /\ UpdateStatus("fail", s, MarkFailed(store[s]))
    BY <1>0, <1>4 DEF SmMarkFailed, TypeOK
  <2>2. store[s] \in Shard
    BY DEF TypeOK
  <2>3. MarkFailed(store[s]) \in Shard /\ MarkFailed(store[s]).phase = "Failed"
    BY <2>2, MarksTyped
  <2>4. CopyCurrent(s)
    BY DEF CopiesCurrent
  <2>5. /\ store' = store /\ s \notin current'["fail"]
        /\ \A g \in Holders : current'[g] \subseteq current[g]
        => CopyCurrent(s)'
    <3>1. "drain" \in Holders /\ "scale" \in Holders /\ Loops \subseteq Holders
      BY DEF Holders, WorkerCalls, Loops
    <3> QED BY <1>0, <2>1, <2>4, <3>1 DEF CopyCurrent, Exists
  <2>6. Exists(store[s]) /\ store'[s].phase = MarkFailed(store[s]).phase => PhaseStep(s)
    BY <2>1, <2>3 DEF PhaseStep
  <2>7. \A m \in Loops, t \in Shards \ {s} : at'[m][t] = at[m][t] /\ seen'[m][t] = seen[m][t]
    BY <2>1
  <2> QED BY <1>0, <2>1, <2>3, <2>5, <2>6, <2>7, UpdateGood
<1> QED BY <1>1, <1>2, <1>3, <1>4 DEF ManagerLoop

(* Every step of the HealthChecker's loop is a good step.                  *)
LEMMA CheckerLoopGood ==
  ASSUME IInv, CheckerLoop
  PROVE  GoodStep
<1> USE DEF storeVars, healthVars, IInv
<1>0. "hc" \in Loops
  BY DEF Loops
<1>1. CASE HealthLoop("hc")
  BY <1>0, <1>1, HealthLoopGood
<1>2. ASSUME NEW s \in Shards, NEW timely \in BOOLEAN, HcCheck(s, timely)
      PROVE  GoodStep
  <2> DEFINE h == CheckHealth("hc", s, timely)
             checked == [seen["hc"][s] EXCEPT !.health = h]
  <2>1. /\ h.healthy => seen["hc"][s].phase = "Running"
        /\ checked \in Shard /\ checked.phase = seen["hc"][s].phase
    BY <1>0, CheckHealthTyped DEF Shard
  <2>2. /\ at["hc"][s] = "check"
        /\ UNCHANGED <<store, used, scaleVars, workerVars>>
        /\ \/ Skip("hc", s, h)
           \/ /\ CanTransitionTo(seen["hc"][s], "Failed")
              /\ Proceed("hc", s, TransitionTo(checked, "Failed"), "write")
           \/ /\ h.healthy /\ seen["hc"][s].phase = "Failed"
              /\ Proceed("hc", s, TransitionTo(checked, "Running"), "write")
           \/ Proceed("hc", s, checked, "write")
    BY <1>2 DEF HcCheck
  <2> HIDE DEF h, checked
  <2>3. TransitionTo(checked, "Failed") \in Shard /\ TransitionTo(checked, "Failed").phase = "Failed"
    BY <2>1, TransitionTyped DEF Phases
  <2>4. CASE Skip("hc", s, h)
    BY <1>0, <2>2, <2>4, SkipGood
  <2>5. CASE CanTransitionTo(seen["hc"][s], "Failed")
             /\ Proceed("hc", s, TransitionTo(checked, "Failed"), "write")
    BY <1>0, <2>2, <2>3, <2>5, ProceedGood
  <2>6. CASE Proceed("hc", s, checked, "write")
    BY <1>0, <2>1, <2>2, <2>6, ProceedGood
  <2> QED BY <2>1, <2>2, <2>4, <2>5, <2>6
<1> QED BY <1>1, <1>2 DEF CheckerLoop

(* Every step of the workers and of recovery is a good step.               *)
LEMMA WorkersGood ==
  ASSUME IInv, NEW s \in Shards,
         \/ HeartbeatLoop(s) \/ DrainCall(s) \/ ReportCall(s) \/ RecoverCall(s)
         \/ WorkerCrash(s) \/ WorkerStart(s) \/ Age(s)
  PROVE  GoodStep
<1> USE DEF storeVars, healthVars, scaleVars, workerVars, NotWorkers, SetCall, IInv
<1>0. /\ "beat" \in Holders /\ "drain" \in Holders
      /\ "report" \in Holders /\ "recover" \in Holders /\ "scale" \in Holders
      /\ {s} \in SUBSET Shards /\ store[s] \in Shard
      /\ WorkerCalls = {"beat", "drain", "report"}
      /\ DOMAIN call = {"beat", "drain", "report", "recover"}
      /\ Loops = {"sm", "hc"} /\ Loops \subseteq Holders
  BY DEF Holders, WorkerCalls, TypeOK, Loops
<1>a. CopyCurrent(s)
  BY DEF CopiesCurrent
<1>1. ASSUME NEW k \in {"beat", "report", "recover"},
             worker[s] # "down" \/ k = "recover", Exists(store[s]),
             SetCall(k, s, "read"), Read(k, {s}), NotWorkers, UNCHANGED <<store, worker>>
      PROVE  GoodStep
  <2>1. \A j \in DOMAIN call, t \in Shards : (t # s \/ j # k) => call'[j][t] = call[j][t]
    BY <1>0, <1>1 DEF TypeOK
  <2>2. Bookkeeping'
    BY <1>0, <1>1, <2>1 DEF Bookkeeping, Existing
  <2>3. call'["drain"][s] = "read" => CanTransitionTo(store[s], "Draining") \/ call["drain"][s] = "read"
    BY <1>0, <2>1
  <2>4. OnlyTouches(s)
    BY <1>0, <1>1, <2>1 DEF OnlyTouches, Read, TypeOK
  <2>5. CopyCurrent(s)'
    <3>1. \A g \in Holders : s \in current'[g] => s \in current[g] \/ g = k
      BY <1>0, <1>1 DEF Read, TypeOK
    <3> QED BY <1>0, <1>1, <1>a, <2>1, <3>1 DEF CopyCurrent
  <2> QED BY <1>1, <2>2, <2>4, <2>5, LocalGood
<1>2. CASE BeatGet(s) \/ ReportGet(s) \/ RecoverGet(s)
  BY <1>1, <1>2 DEF BeatGet, ReportGet, RecoverGet
<1>3. CASE BeatReportHealth(s)
  <2>1. \A j \in DOMAIN call, t \in Shards : (t # s \/ j # "beat") => call'[j][t] = call[j][t]
    BY <1>0, <1>3 DEF BeatReportHealth, TypeOK
  <2>2. Bookkeeping'
    BY <1>0, <1>3, <2>1 DEF BeatReportHealth, Bookkeeping, Existing
  <2>3. OnlyTouches(s) /\ CopyCurrent(s)'
    BY <1>0, <1>3, <1>a, <2>1 DEF BeatReportHealth, OnlyTouches, CopyCurrent
  <2> QED BY <1>3, <2>2, <2>3, LocalGood DEF BeatReportHealth
<1>4. CASE DrainFlag(s)
  <2>1. /\ \A j \in DOMAIN call, t \in Shards : (t # s \/ j # "drain") => call'[j][t] = call[j][t]
        /\ call'["drain"][s] = "flagged"
    BY <1>0, <1>4 DEF DrainFlag, TypeOK
  <2>2. Bookkeeping'
    BY <1>0, <1>4, <2>1 DEF DrainFlag, Bookkeeping, Existing, TypeOK
  <2>3. OnlyTouches(s) /\ CopyCurrent(s)'
    BY <1>0, <1>4, <1>a, <2>1 DEF DrainFlag, OnlyTouches, CopyCurrent
  <2> QED BY <1>4, <2>2, <2>3, LocalGood DEF DrainFlag
<1>5. CASE DrainGet(s)
  <2>1. /\ \A j \in DOMAIN call, t \in Shards : (t # s \/ j # "drain") => call'[j][t] = call[j][t]
        /\ call["drain"][s] = "flagged"
        /\ \/ call'["drain"][s] = "idle" /\ current' = current
           \/ /\ call'["drain"][s] = "read" /\ CanTransitionTo(store[s], "Draining")
              /\ current' = [current EXCEPT !["drain"] = @ \cup {s}]
    BY <1>0, <1>5 DEF DrainGet, Read, TypeOK
  <2>2. CanTransitionTo(store[s], "Draining") => Exists(store[s])
    BY DEF CanTransitionTo, IsValidPhaseTransition, ValidNext, Exists
  <2>3. Bookkeeping'
    BY <1>0, <1>5, <2>1 DEF DrainGet, Bookkeeping, Existing
  <2>4. \A g \in Holders, t \in Shards :
          t \in current'[g] => t \in current[g] \/ (g = "drain" /\ t = s /\ Exists(store[s]))
    BY <1>0, <2>1, <2>2 DEF TypeOK
  <2>5. OnlyTouches(s)
    BY <1>0, <1>5, <2>1, <2>4 DEF DrainGet, OnlyTouches
  <2>6. CopyCurrent(s)'
    BY <1>0, <1>5, <1>a, <2>1, <2>4 DEF DrainGet, CopyCurrent
  <2> QED BY <1>5, <2>3, <2>5, <2>6, LocalGood DEF DrainGet
<1>6. ASSUME NEW k \in {"beat", "drain", "report", "recover"}, NEW o \in Shard,
             call[k][s] # "idle",
             SetCall(k, s, "idle"), UpdateStatus(k, s, o), NotWorkers, UNCHANGED worker,
             s \in current[k] /\ Exists(store[s]) /\ store'[s].phase = o.phase => PhaseStep(s)
      PROVE  GoodStep
  <2>1. /\ \A j \in DOMAIN call, t \in Shards : (t # s \/ j # k) => call'[j][t] = call[j][t]
        /\ call'[k][s] = "idle"
    BY <1>0, <1>6 DEF TypeOK
  <2>2. /\ store' = store /\ s \notin current'[k]
        /\ \A g \in Holders : current'[g] \subseteq current[g]
        => CopyCurrent(s)'
    BY <1>0, <1>6, <1>a, <2>1 DEF CopyCurrent
  <2>3. \A j \in WorkerCalls, t \in Shards : call'[j][t] # "idle" => call[j][t] # "idle"
    BY <1>0, <2>1
  <2>4. k \in Holders /\ \A t \in Shards \ {s} : call'["drain"][t] = call["drain"][t]
    BY <1>0, <2>1
  <2>5. /\ UNCHANGED <<used, victims, removing, picked, stage, missing, worker>>
        /\ \A m \in Loops, t \in Shards \ {s} : at'[m][t] = at[m][t] /\ seen'[m][t] = seen[m][t]
    BY <1>6
  <2> QED BY <1>6, <2>2, <2>3, <2>4, <2>5, UpdateGood
<1>7. CASE BeatUpdate(s)
  <2> DEFINE ok == call["beat"][s] = "up"
             o  == Heartbeat(store[s], ok)
  <2>1. o \in Shard /\ o.phase = store[s].phase
    <3>1. ok \in BOOLEAN
      OBVIOUS
    <3> HIDE DEF ok
    <3> QED BY <1>0, <3>1, WritersTyped
  <2>2. /\ UpdateStatus("beat", s, o) /\ call["beat"][s] # "idle"
        /\ SetCall("beat", s, "idle") /\ NotWorkers /\ UNCHANGED worker
    BY <1>7 DEF BeatUpdate
  <2> HIDE DEF o
  <2> QED BY <1>6, <2>1, <2>2 DEF PhaseStep
<1>8. CASE DrainUpdate(s)
  <2> DEFINE o == TransitionTo(store[s], "Draining")
  <2>1. o \in Shard /\ o.phase = "Draining"
    BY <1>0, TransitionTyped DEF Phases
  <2>2. /\ UpdateStatus("drain", s, o) /\ call["drain"][s] = "read"
        /\ SetCall("drain", s, "idle") /\ NotWorkers /\ UNCHANGED worker
    BY <1>8 DEF DrainUpdate
  <2> HIDE DEF o
  <2>3. s \in current["drain"] => CanTransitionTo(store[s], "Draining")
    BY <1>a, <2>2 DEF CopyCurrent
  <2> QED BY <1>6, <2>1, <2>2, <2>3 DEF PhaseStep
<1>9. CASE ReportUpdate(s)
  <2>1. PICK some \in BOOLEAN :
          UpdateStatus("report", s, [store[s] EXCEPT !.assigned = some])
    BY <1>9 DEF ReportUpdate
  <2> DEFINE o == [store[s] EXCEPT !.assigned = some]
  <2>2. o \in Shard /\ o.phase = store[s].phase
    BY <1>0, WritersTyped
  <2>3. /\ UpdateStatus("report", s, o) /\ call["report"][s] # "idle"
        /\ SetCall("report", s, "idle") /\ NotWorkers /\ UNCHANGED worker
    BY <1>9, <2>1 DEF ReportUpdate
  <2> HIDE DEF o
  <2> QED BY <1>6, <2>2, <2>3 DEF PhaseStep
<1>10. CASE RecoverUpdate(s)
  <2> DEFINE o == MarkRecovered(store[s])
  <2>1. o \in Shard /\ o.phase = "Running"
    BY <1>0, MarksTyped
  <2>2. /\ UpdateStatus("recover", s, o) /\ call["recover"][s] = "read"
        /\ SetCall("recover", s, "idle") /\ NotWorkers /\ UNCHANGED worker
    BY <1>10 DEF RecoverUpdate
  <2> HIDE DEF o
  <2> QED BY <1>6, <2>1, <2>2 DEF PhaseStep
<1>11. CASE WorkerCrash(s)
  <2>1. /\ \A j \in DOMAIN call, t \in Shards : t # s => call'[j][t] = call[j][t]
        /\ \A j \in WorkerCalls : call'[j][s] = "idle"
        /\ \A g \in Holders, t \in Shards : t \in current'[g] => t \in current[g]
        /\ \A t \in Shards : t # s => worker'[t] = worker[t]
    BY <1>0, <1>11 DEF WorkerCrash, TypeOK
  <2>2. Bookkeeping'
    BY <1>0, <1>11, <2>1 DEF WorkerCrash, Bookkeeping, Existing
  <2>3. OnlyTouches(s)
    BY <1>0, <1>11, <2>1 DEF WorkerCrash, OnlyTouches
  <2>4. CopyCurrent(s)'
    BY <1>0, <1>11, <1>a, <2>1 DEF WorkerCrash, CopyCurrent
  <2> QED BY <1>11, <2>2, <2>3, <2>4, LocalGood DEF WorkerCrash
<1>12. CASE WorkerStart(s)
  <2>1. CASE Exists(store[s])
    <3>1. Bookkeeping'
      BY <1>12, <2>1 DEF WorkerStart, Bookkeeping, Existing, TypeOK
    <3>2. OnlyTouches(s) /\ CopyCurrent(s)'
      BY <1>12, <1>a, <2>1 DEF WorkerStart, OnlyTouches, CopyCurrent
    <3> QED BY <1>12, <2>1, <3>1, <3>2, LocalGood DEF WorkerStart
  <2>2. CASE ~Exists(store[s])
    <3>1. /\ store' = [store EXCEPT ![s] = WorkerShard]
          /\ current' = [g \in Holders |-> current[g] \ {s}]
      BY <1>12, <2>2 DEF WorkerStart, Put
    <3>2. /\ store'[s].phase = "Pending"
          /\ \A t \in Shards \ {s} : store'[t] = store[t]
          /\ \A g \in Holders : s \notin current'[g]
          /\ \A g \in Holders, t \in Shards : t \in current'[g] => t \in current[g]
      BY <3>1, ConstantObjects DEF TypeOK
    <3>3. OnlyTouches(s)
      BY <1>12, <3>2 DEF WorkerStart, OnlyTouches
    <3>4. CopyCurrent(s)'
      BY <3>2, RevokedIsCurrent
    <3>5. Bookkeeping'
      BY <1>12, <3>2 DEF WorkerStart, Bookkeeping, Existing, TypeOK
    <3>6. PhaseStep(s)
      BY <1>12, <2>2, <3>2 DEF PhaseStep, WorkerStart
    <3> QED BY <3>2, <3>3, <3>4, <3>5, <3>6, OnlyTouchesKeeps DEF GoodStep
  <2> QED BY <2>1, <2>2
<1>13. CASE Age(s)
  <2>1. \A t \in Shards : store'[t].phase = store[t].phase
    BY <1>0, <1>13 DEF Age, TypeOK, Shard
  <2>2. OnlyTouches(s)
    BY <1>13, <2>1 DEF Age, OnlyTouches
  <2>3. CopyCurrent(s)'
    BY <1>13, <1>a, <2>1 DEF Age, CopyCurrent, Exists, CanTransitionTo
  <2>4. Bookkeeping'
    BY <1>13, <2>1 DEF Age, Bookkeeping, Existing, Exists
  <2> QED BY <2>1, <2>2, <2>3, <2>4, OnlyTouchesKeeps DEF GoodStep
<1> QED BY <1>2, <1>3, <1>4, <1>5, <1>7, <1>8, <1>9, <1>10, <1>11, <1>12, <1>13
        DEF HeartbeatLoop, DrainCall, ReportCall, RecoverCall

(* A step of the scaling loop that leaves the objects alone and at most    *)
(* drops victims, copies and the shard being removed.                      *)
LEMMA ScaleLocalGood ==
  ASSUME IInv, UNCHANGED <<store, used, healthVars, workerVars>>,
         \A g \in Holders : current'[g] \subseteq current[g],
         \/ /\ UNCHANGED <<victims, removing, picked>>
            /\ (stage' \in {"handoff", "remove"}) = (stage \in {"handoff", "remove"})
         \/ victims' = {} /\ removing' = {} /\ stage' = "idle",
         stage' = "create" => missing' > 0
  PROVE  GoodStep
<1> USE DEF healthVars, workerVars, IInv
<1>1. ASSUME NEW t \in Shards PROVE CopyCurrent(t)'
  <2>1. CopyCurrent(t)
    BY DEF CopiesCurrent
  <2>2. "drain" \in Holders /\ "scale" \in Holders /\ Loops \subseteq Holders
    BY DEF Holders, WorkerCalls, Loops
  <2> QED BY <2>1, <2>2 DEF CopyCurrent
<1>2. Bookkeeping'
  BY DEF Bookkeeping, Existing
<1> QED BY <1>1, <1>2 DEF GoodStep, CopiesCurrent

(* Every step of the scaling loop is a good step.                          *)
LEMMA ScalingLoopGood ==
  ASSUME IInv, ScalingLoop
  PROVE  GoodStep
<1> USE DEF storeVars, healthVars, scaleVars, workerVars, IInv
<1>0. /\ "drain" \in Holders /\ "scale" \in Holders /\ Loops \subseteq Holders
      /\ "scale" \notin Loops
  BY DEF Holders, WorkerCalls, Loops
<1>1. CASE Decide
  BY <1>1, ScaleLocalGood DEF Decide
<1>2. CASE CountMissing
  <2>1. Cardinality(Existing) \in Nat /\ target \in Nat
    BY ExistingFinite DEF TypeOK
  <2>2. \/ UNCHANGED <<victims, removing, picked>> /\ missing' > 0 /\ stage' = "create"
        \/ victims' = {} /\ removing' = {} /\ stage' = "idle"
    BY <1>2, <2>1 DEF CountMissing, EndScaling
  <2> QED BY <1>2, <2>2, ScaleLocalGood DEF CountMissing
<1>3. CASE CreateFails
  BY <1>3, ScaleLocalGood DEF CreateFails, EndScaling
<1>4. CASE Select
  <2>1. CASE EndScaling /\ UNCHANGED current
    BY <1>4, <2>1, ScaleLocalGood DEF Select, EndScaling
  <2>2. ASSUME NEW V \in Selections(Cardinality(Existing) - target),
               victims' = V,
               picked' = [s \in Shards |-> IF s \in V THEN store[s] ELSE NoShard],
               Read("scale", V),
               stage' = "drain",
               UNCHANGED <<target, missing, removing>>
        PROVE  GoodStep
    <3>1. V \subseteq Existing /\ Existing \subseteq Shards
      BY DEF Selections, Existing
    <3>2. stage = "shrink" /\ UNCHANGED <<store, used, healthVars, workerVars>>
      BY <1>4 DEF Select
    <3>3. ASSUME NEW t \in Shards PROVE CopyCurrent(t)'
      <4>1. CopyCurrent(t)
        BY DEF CopiesCurrent
      <4>2. \A g \in Holders : t \in current'[g] => t \in current[g] \/ (g = "scale" /\ t \in V)
        BY <1>0, <2>2 DEF Read, TypeOK
      <4>3. t \in V => Exists(store[t])
        BY <3>1 DEF Existing
      <4>4. t \in victims' => picked'[t] = store[t]
        BY <2>2
      <4> QED BY <1>0, <3>2, <4>1, <4>2, <4>3, <4>4 DEF CopyCurrent
    <3>4. removing = {}
      BY <3>2 DEF Bookkeeping
    <3> QED BY <2>2, <3>2, <3>3, <3>4 DEF GoodStep, CopiesCurrent, Bookkeeping, Existing
  <2> QED BY <1>4, <2>1, <2>2 DEF Select
<1>5. ASSUME NEW s \in Shards, CreateShard(s) PROVE GoodStep
  <2>1. s \notin used /\ used' = used \cup {s} /\ UNCHANGED <<healthVars, workerVars>>
    BY <1>5 DEF CreateShard
  <2>2. ~Exists(store[s])
    BY <2>1 DEF Bookkeeping, Existing
  <2>3. /\ store' = [store EXCEPT ![s] = ManagerShard]
        /\ current' = [g \in Holders |-> current[g] \ {s}]
    BY <1>5 DEF CreateShard, Put
  <2>4. /\ store'[s].phase = "Pending"
        /\ \A t \in Shards \ {s} : store'[t] = store[t]
        /\ \A g \in Holders : s \notin current'[g]
        /\ \A g \in Holders, t \in Shards : t \in current'[g] => t \in current[g]
    BY <2>3, ConstantObjects DEF TypeOK
  <2>5. \/ /\ UNCHANGED <<victims, removing, picked>>
           /\ missing' = missing - 1 /\ missing # 1
           /\ stage = "create" /\ stage' = "create"
        \/ victims' = {} /\ removing' = {} /\ stage' = "idle"
    BY <1>5 DEF CreateShard, EndScaling
  <2>6. OnlyTouches(s)
    BY <2>1, <2>4, <2>5 DEF OnlyTouches
  <2>7. CopyCurrent(s)'
    BY <2>4, RevokedIsCurrent
  <2>8. Bookkeeping'
    <3>1. missing \in Nat /\ missing > 0
      BY <1>5 DEF CreateShard, Bookkeeping, TypeOK
    <3> QED BY <2>1, <2>4, <2>5, <3>1 DEF Bookkeeping, Existing
  <2>9. PhaseStep(s)
    BY <2>1, <2>2, <2>4 DEF PhaseStep
  <2> QED BY <2>4, <2>6, <2>7, <2>8, <2>9, OnlyTouchesKeeps DEF GoodStep
<1>6. ASSUME NEW s \in Shards, DrainVictim(s) PROVE GoodStep
  <2>1. CASE CanTransitionTo(picked[s], "Draining") /\ Accepted("scale", s)
    <3> DEFINE o == TransitionTo(store[s], "Draining")
    <3>1. store[s] \in Shard
      BY DEF TypeOK
    <3>2. o \in Shard /\ o.phase = "Draining"
      BY <3>1, TransitionTyped DEF Phases
    <3>3. /\ s \in victims /\ s \in current["scale"]
          /\ store' = [store EXCEPT ![s] = o]
          /\ current' = [g \in Holders |-> IF g \in {"scale"} THEN current[g] ELSE current[g] \ {s}]
          /\ stage' = "handoff" /\ removing' = {s}
          /\ UNCHANGED <<used, target, missing, victims, picked, healthVars, workerVars>>
      BY <1>6, <2>1 DEF DrainVictim, NextVictim, Put, Accepted
    <3> HIDE DEF o
    <3>a. removing = {}
      BY <1>6 DEF DrainVictim, Bookkeeping
    <3>b. picked[s].phase = store[s].phase
      BY <3>3, <3>a DEF CopiesCurrent, CopyCurrent
    <3>4. CanTransitionTo(store[s], "Draining")
      BY <2>1, <3>b DEF CanTransitionTo
    <3>5. Exists(store[s])
      BY <1>0, <3>3 DEF CopiesCurrent, CopyCurrent
    <3>6. /\ store'[s] = o
          /\ \A t \in Shards \ {s} : store'[t] = store[t]
          /\ \A g \in Holders : g # "scale" => s \notin current'[g]
          /\ \A g \in Holders, t \in Shards : t \in current'[g] => t \in current[g]
      BY <3>3 DEF TypeOK
    <3>7. OnlyTouches(s)
      BY <3>3, <3>6, <3>a DEF OnlyTouches
    <3>8. CopyCurrent(s)'
      BY <1>0, <3>2, <3>3, <3>6 DEF CopyCurrent, Exists
    <3>9. Bookkeeping'
      BY <3>3, <3>5, <3>6 DEF Bookkeeping, Existing
    <3> QED BY <3>2, <3>4, <3>6, <3>7, <3>8, <3>9, OnlyTouchesKeeps DEF GoodStep, PhaseStep
  <2>2. CASE ~(CanTransitionTo(picked[s], "Draining") /\ Accepted("scale", s))
    <3>1. EndScaling /\ ScaleForgets /\ UNCHANGED <<store, used, healthVars, workerVars>>
      BY <1>6, <2>2 DEF DrainVictim
    <3>2. \A g \in Holders : current'[g] \subseteq current[g]
      BY <3>1 DEF ScaleForgets, TypeOK
    <3> QED BY <3>1, <3>2, ScaleLocalGood DEF EndScaling
  <2> QED BY <2>1, <2>2
<1>7. ASSUME NEW s \in Shards, Handoff(s) PROVE GoodStep
  <2>1. \/ /\ stage = "handoff" /\ stage' = "remove"
           /\ UNCHANGED <<victims, picked, removing, current>>
        \/ EndScaling /\ ScaleForgets
    BY <1>7 DEF Handoff
  <2>2. UNCHANGED <<store, used, healthVars, workerVars>>
    BY <1>7 DEF Handoff
  <2>3. \A g \in Holders : current'[g] \subseteq current[g]
    BY <2>1 DEF ScaleForgets, TypeOK
  <2> QED BY <2>1, <2>2, <2>3, ScaleLocalGood DEF EndScaling
<1>8. ASSUME NEW s \in Shards, RemoveShard(s) PROVE GoodStep
  <2>1. s \in removing /\ UNCHANGED <<used, healthVars, workerVars>>
    BY <1>8 DEF RemoveShard
  <2>2. /\ store' = [store EXCEPT ![s] = NoShard]
        /\ current' = [g \in Holders |-> current[g] \ {s}]
    BY <1>8 DEF RemoveShard, Put
  <2>3. /\ store'[s].phase = "Absent"
        /\ \A t \in Shards \ {s} : store'[t] = store[t]
        /\ \A g \in Holders : s \notin current'[g]
        /\ \A g \in Holders, t \in Shards : t \in current'[g] => t \in current[g]
    BY <2>2, ConstantObjects DEF TypeOK
  <2>4. \/ victims' = {} /\ removing' = {} /\ stage' = "idle"
        \/ /\ victims' = victims \ {s} /\ removing' = {} /\ stage' = "drain"
           /\ \A t \in Shards \ {s} : picked'[t] = picked[t]
    BY <1>8 DEF RemoveShard, EndScaling, TypeOK
  <2>5. OnlyTouches(s)
    <3>1. removing = {s}
      BY <1>8 DEF RemoveShard, Bookkeeping
    <3> QED BY <2>1, <2>3, <2>4, <3>1 DEF OnlyTouches
  <2>6. CopyCurrent(s)'
    BY <2>3, RevokedIsCurrent
  <2>7. Bookkeeping'
    BY <2>1, <2>3, <2>4 DEF Bookkeeping, Existing, Exists
  <2> QED BY <2>1, <2>3, <2>4, <2>5, <2>6, <2>7, OnlyTouchesKeeps DEF GoodStep, PhaseStep
<1>9. CASE RemoveFails
  <2>1. EndScaling /\ ScaleForgets /\ UNCHANGED <<store, used, healthVars, workerVars>>
    BY <1>9 DEF RemoveFails
  <2>2. \A g \in Holders : current'[g] \subseteq current[g]
    BY <2>1 DEF ScaleForgets, TypeOK
  <2> QED BY <2>1, <2>2, ScaleLocalGood DEF EndScaling
<1> QED BY <1>1, <1>2, <1>3, <1>4, <1>5, <1>6, <1>7, <1>8, <1>9 DEF ScalingLoop

----------------------------------------------------------------------------
(* The theorems. *)

(* The inductive invariant holds in the program's first states.            *)
LEMMA InitIInv == Init => IInv
<1> SUFFICES ASSUME Init PROVE IInv
  OBVIOUS
<1>1. CopiesCurrent
  BY DEF Init, CopiesCurrent, CopyCurrent, Holders, Loops, WorkerCalls
<1> QED BY <1>1, InitTypeOK DEF IInv

(* Every step keeps the types and is a good step.                          *)
LEMMA NextGood == IInv /\ [Next]_vars => TypeOK' /\ GoodStep
<1> SUFFICES ASSUME IInv, [Next]_vars PROVE TypeOK' /\ GoodStep
  OBVIOUS
<1> USE DEF IInv
<1>1. CASE ManagerLoop
  BY <1>1, ManagerLoopTypeOK, ManagerLoopGood
<1>2. CASE CheckerLoop
  BY <1>2, CheckerLoopTypeOK, CheckerLoopGood
<1>3. CASE ScalingLoop
  BY <1>3, ScalingLoopTypeOK, ScalingLoopGood
<1>4. ASSUME NEW s \in Shards,
             \/ HeartbeatLoop(s) \/ DrainCall(s) \/ ReportCall(s) \/ RecoverCall(s)
             \/ WorkerCrash(s) \/ WorkerStart(s) \/ Age(s)
      PROVE  TypeOK' /\ GoodStep
  BY <1>4, WorkersTypeOK, WorkersGood
<1>5. CASE UNCHANGED vars
  BY <1>5 DEF vars, storeVars, healthVars, scaleVars, workerVars, TypeOK, GoodStep,
              CopiesCurrent, CopyCurrent, Bookkeeping, Existing, Exists
<1> QED BY <1>1, <1>2, <1>3, <1>4, <1>5 DEF Next

(* The inductive invariant holds in every wiring of the actors. *)
THEOREM Inductive == Safety => []IInv
<1>1. IInv /\ [Next]_vars => IInv'
  BY NextGood DEF IInv, GoodStep
<1> QED BY InitIInv, <1>1, PTL DEF Safety

(* Type correctness of the component. *)
THEOREM TypeCorrect == Safety => []TypeOK
<1>1. IInv => TypeOK
  BY DEF IInv
<1> QED BY Inductive, <1>1, PTL

(* No copy that missed a phase transition can be written: whoever would be *)
(* allowed to write a shard agrees with the stored phase.                  *)
THEOREM NoStaleWrites == Safety => []CopiesCurrent
<1>1. IInv => CopiesCurrent
  BY DEF IInv
<1> QED BY Inductive, <1>1, PTL

(* A Failed shard leaves that phase only through OnShardRecovered or by a  *)
(* scale-down that was already removing it, for any number of shards and   *)
(* any set of concurrent actors.                                           *)
THEOREM FailedSticky == Safety => FailedIsSticky
<1>1. IInv /\ [Next]_vars =>
        [\A s \in Shards :
           store[s].phase = "Failed" =>
             \/ store'[s].phase = "Failed"
             \/ store'[s].phase = "Running" /\ call["recover"][s] = "read"
             \/ store'[s].phase = "Absent" /\ s \in victims]_vars
  <2> SUFFICES ASSUME IInv, [Next]_vars, NEW s \in Shards, store[s].phase = "Failed"
               PROVE  \/ store'[s].phase = "Failed"
                      \/ store'[s].phase = "Running" /\ call["recover"][s] = "read"
                      \/ store'[s].phase = "Absent" /\ s \in victims
    OBVIOUS
  <2>1. PhaseStep(s)
    BY NextGood DEF GoodStep, PhaseStep
  <2>2. s \in removing => s \in victims
    BY DEF IInv, Bookkeeping
  <2> QED BY <2>1, <2>2
          DEF PhaseStep, Exists, CanTransitionTo, IsValidPhaseTransition, ValidNext
<1> QED BY Inductive, <1>1, PTL DEF Safety, FailedIsSticky

(* No write of a health loop, a drain, a heartbeat or a report makes a     *)
(* shard Running, whatever copies are around; OnShardRecovered does.       *)
THEOREM OnlyRecoveryRuns == Safety => RunningOnlyByRecovery
<1>1. IInv /\ [Next]_vars =>
        [\A s \in Shards :
           store[s].phase # "Running" /\ store'[s].phase = "Running" =>
             call["recover"][s] = "read"]_vars
  <2> SUFFICES ASSUME IInv, [Next]_vars, NEW s \in Shards,
                      store[s].phase # "Running", store'[s].phase = "Running"
               PROVE  call["recover"][s] = "read"
    OBVIOUS
  <2>1. PhaseStep(s)
    BY NextGood DEF GoodStep, PhaseStep
  <2> QED BY <2>1 DEF PhaseStep
<1> QED BY Inductive, <1>1, PTL DEF Safety, RunningOnlyByRecovery

----------------------------------------------------------------------------
(* Refinement.  Without the two writers that assign the phase unasked, the *)
(* health loop of the ShardManager and the callers of OnShardRecovered,    *)
(* the shard being removed stays Draining until it is gone.                *)
Unforced ==
  /\ \A s \in Shards : at["sm"][s] = "idle" /\ call["recover"][s] = "idle"
  /\ \A s \in removing : store[s].phase = "Draining"

(* In wirings without forced phases, a shard being removed is Draining.    *)
LEMMA RemovingDrains ==
  ASSUME IInv, [Next]_vars, NEW s \in removing', s \notin removing
  PROVE  store'[s].phase = "Draining"
<1> USE DEF storeVars, healthVars, scaleVars, workerVars, NotWorkers, IInv
<1>1. CASE ScalingLoop
  <2>1. PICK t \in Shards : DrainVictim(t)
    BY <1>1 DEF ScalingLoop, Decide, CountMissing, CreateFails, Select, CreateShard,
                Handoff, RemoveShard, RemoveFails, EndScaling
  <2>2. store[t] \in Shard
    BY DEF TypeOK
  <2>3. TransitionTo(store[t], "Draining").phase = "Draining"
    BY <2>2, TransitionTyped DEF Phases
  <2>4. s = t /\ store' = [store EXCEPT ![t] = TransitionTo(store[t], "Draining")]
    BY <2>1 DEF DrainVictim, EndScaling, Put
  <2> QED BY <2>3, <2>4 DEF TypeOK
<1>2. CASE ~ScalingLoop
  <2>1. removing' = removing
    BY <1>2 DEF Next, vars, ManagerLoop, CheckerLoop, HealthLoop, StartPass, ReadPrevious,
                WriteStatus, SmCheck, SmReread, SmMarkFailed, HcCheck,
                HeartbeatLoop, DrainCall, ReportCall, RecoverCall, BeatGet, BeatReportHealth,
                BeatUpdate, DrainFlag, DrainGet, DrainUpdate, ReportGet, ReportUpdate,
                RecoverGet, RecoverUpdate, WorkerCrash, WorkerStart, Age
  <2> QED BY <2>1
<1> QED BY <1>1, <1>2

(* In such wirings, a step of the program is a step of ShardPhases.        *)
LEMMA UnforcedStep ==
  ASSUME "sm" \notin Actors, "recover" \notin Actors, IInv, Unforced, [Next]_vars
  PROVE  Unforced'
<1> USE DEF storeVars, healthVars, scaleVars, workerVars, NotWorkers, IInv
<1>1. \A s \in Shards : at'["sm"][s] = "idle" /\ call'["recover"][s] = "idle"
  <2>1. CASE ManagerLoop
    BY <2>1 DEF ManagerLoop, HealthLoop, StartPass, ReadPrevious, WriteStatus,
                SmCheck, SmReread, SmMarkFailed, Unforced
  <2>2. CASE CheckerLoop
    BY <2>2 DEF CheckerLoop, HealthLoop, StartPass, ReadPrevious, WriteStatus, HcCheck,
                Proceed, Skip, Go, Unforced, TypeOK, Loops
  <2>3. CASE ScalingLoop
    BY <2>3 DEF ScalingLoop, Decide, CountMissing, CreateFails, Select, CreateShard,
                DrainVictim, Handoff, RemoveShard, RemoveFails, Unforced
  <2>4. ASSUME NEW s \in Shards,
               \/ HeartbeatLoop(s) \/ DrainCall(s) \/ ReportCall(s) \/ RecoverCall(s)
               \/ WorkerCrash(s) \/ WorkerStart(s) \/ Age(s)
        PROVE  \A t \in Shards : at'["sm"][t] = "idle" /\ call'["recover"][t] = "idle"
    BY <2>4 DEF HeartbeatLoop, DrainCall, ReportCall, RecoverCall, BeatGet, BeatReportHealth,
                BeatUpdate, DrainFlag, DrainGet, DrainUpdate, ReportGet, ReportUpdate,
                RecoverGet, RecoverUpdate, WorkerCrash, WorkerStart, Age, SetCall,
                Unforced, TypeOK, WorkerCalls
  <2>5. CASE UNCHANGED vars
    BY <2>5 DEF vars, Unforced
  <2> QED BY <2>1, <2>2, <2>3, <2>4, <2>5 DEF Next
<1>2. ASSUME NEW s \in removing' PROVE store'[s].phase = "Draining"
  <2>1. CASE s \notin removing
    BY <2>1, RemovingDrains
  <2>2. CASE s \in removing
    <3>1. s \in Shards /\ store[s].phase = "Draining"
      BY <2>2 DEF Unforced, TypeOK
    <3>2. PhaseStep(s)
      BY <3>1, NextGood DEF GoodStep, PhaseStep
    <3> QED BY <1>2, <3>1, <3>2
            DEF PhaseStep, Unforced, Exists, CanTransitionTo, IsValidPhaseTransition, ValidNext
  <2> QED BY <2>1, <2>2
<1> QED BY <1>1, <1>2 DEF Unforced

(* With the HealthChecker's loop, the scaling loop and the workers, in any *)
(* number and interleaving, the stored phases follow ShardPhases.          *)
THEOREM PhasesImplemented ==
  ASSUME "sm" \notin Actors, "recover" \notin Actors
  PROVE  Safety => ImplementsPhases
<1> DEFINE phase == [s \in Shards |-> store[s].phase]
<1>1. Init => Unforced
  BY DEF Init, Unforced, Loops, WorkerCalls
<1>2. Safety => []Unforced
  <2>1. IInv /\ Unforced /\ [Next]_vars => Unforced'
    BY UnforcedStep
  <2> QED BY <1>1, <2>1, Inductive, PTL DEF Safety
<1>3. Init => PhaseMachine!Init
  <2> SUFFICES ASSUME Init PROVE phase \in [Shards -> {"Absent", "Pending", "Running"}]
    BY DEF PhaseMachine!Init
  <2>1. MarkRecovered(ManagerShard).phase = "Running"
    BY ConstantObjects, MarksTyped
  <2> QED BY <2>1, ConstantObjects DEF Init
<1>4. IInv /\ Unforced /\ [Next]_vars => [PhaseMachine!Next]_phase
  <2> SUFFICES ASSUME IInv, Unforced, [Next]_vars PROVE PhaseMachine!Next \/ phase' = phase
    BY DEF PhaseMachine!Next
  <2>1. CASE \A t \in Shards : store'[t].phase = store[t].phase
    BY <2>1
  <2>2. ASSUME NEW s \in Shards, PhaseStep(s),
               \A t \in Shards \ {s} : store'[t].phase = store[t].phase
        PROVE  PhaseMachine!Next \/ phase' = phase
    <3>1. store'[s].phase \in Phases \cup {"Absent"}
      BY NextGood DEF TypeOK, Shard
    <3>2. phase' = [phase EXCEPT ![s] = store'[s].phase]
      BY <2>2
    <3>3. phase[s] = store[s].phase
      OBVIOUS
    <3> HIDE DEF phase
    <3>4. CASE store'[s].phase = store[s].phase
      BY <2>2, <3>4 DEF phase
    <3>5. CASE ~Exists(store[s]) /\ store'[s].phase = "Pending"
      BY <3>2, <3>3, <3>5 DEF PhaseMachine!Next, PhaseMachine!Create, Exists, phase
    <3>6. CASE store'[s].phase \in {"Failed", "Draining"}
               /\ CanTransitionTo(store[s], store'[s].phase)
      BY <3>2, <3>3, <3>6
         DEF PhaseMachine!Next, PhaseMachine!Move, CanTransitionTo,
             IsValidPhaseTransition, PhaseMachine!IsValidPhaseTransition,
             ValidNext, PhaseMachine!ValidNext, PhaseMachine!Phases, phase
    <3>7. CASE store'[s].phase = "Absent" /\ s \in removing
      <4>1. store[s].phase = "Draining"
        BY <3>7 DEF Unforced
      <4> QED BY <3>2, <3>3, <3>7, <4>1
              DEF PhaseMachine!Next, PhaseMachine!Remove,
                  PhaseMachine!IsValidPhaseTransition, PhaseMachine!ValidNext, phase
    <3> QED BY <2>2, <3>4, <3>5, <3>6, <3>7 DEF PhaseStep, Unforced
  <2> QED BY <2>1, <2>2, NextGood DEF GoodStep
<1> QED BY <1>2, <1>3, <1>4, Inductive, PTL DEF Safety, ImplementsPhases, PhaseMachine!Spec

----------------------------------------------------------------------------
(* The number of shards.  As long as no worker starts without an object,   *)
(* only the scaling loop changes which objects exist.                      *)

(* Nobody but the scaling loop and starting workers creates or deletes.    *)
LEMMA OthersKeepExisting ==
  ASSUME "start" \notin Actors, IInv, [Next]_vars, ~ScalingLoop
  PROVE  Existing' = Existing /\ UNCHANGED scaleVars
<1> USE DEF storeVars, healthVars, scaleVars, workerVars, NotWorkers, IInv
<1>1. UNCHANGED <<used, scaleVars>>
  BY DEF Next, vars, ManagerLoop, CheckerLoop, HealthLoop, StartPass, ReadPrevious,
         WriteStatus, SmCheck, SmReread, SmMarkFailed, HcCheck,
         HeartbeatLoop, DrainCall, ReportCall, RecoverCall, BeatGet, BeatReportHealth,
         BeatUpdate, DrainFlag, DrainGet, DrainUpdate, ReportGet, ReportUpdate,
         RecoverGet, RecoverUpdate, WorkerCrash, WorkerStart, Age
<1>2. ASSUME NEW s \in Shards PROVE Exists(store'[s]) <=> Exists(store[s])
  <2>1. CASE store'[s].phase = store[s].phase
    BY <2>1 DEF Exists
  <2>2. CASE store'[s].phase # store[s].phase
    <3>1. PhaseStep(s)
      BY <2>2, NextGood DEF GoodStep
    <3>2. used' = used /\ removing' = removing
      BY <1>1
    <3> QED BY <2>2, <3>1, <3>2
            DEF PhaseStep, Exists, CanTransitionTo, IsValidPhaseTransition, ValidNext
  <2> QED BY <2>1, <2>2
<1> QED BY <1>1, <1>2 DEF Existing

(* The inductive invariant of the count: the loop stays on its way from    *)
(* the number of shards it counted to its target.                          *)
CInv == IInv /\ ScalingOnTarget /\ CountWithinBounds

(* The scaling loop keeps the count where its target says.                 *)
LEMMA ScalingKeepsCount ==
  ASSUME CInv, ScalingLoop
  PROVE  ScalingOnTarget' /\ CountWithinBounds'
<1> USE DEF storeVars, healthVars, scaleVars, workerVars
<1> DEFINE n == Cardinality(Existing)
<1>0. /\ IsFiniteSet(Existing) /\ n \in Nat /\ Existing \subseteq Shards
      /\ MinShards \in Nat /\ MaxShards \in Nat /\ n \in MinShards..MaxShards
      /\ target \in Nat /\ missing \in Nat /\ store \in [Shards -> Shard]
  BY ExistingFinite, BoundsAssumption DEF CInv, IInv, CountWithinBounds, TypeOK
<1>b. Bookkeeping /\ ScalingOnTarget
  BY DEF CInv, IInv
<1>e. ASSUME UNCHANGED store PROVE Existing' = Existing /\ CountWithinBounds'
  BY <1>0, <1>e DEF Existing, CountWithinBounds
<1>i. ASSUME EndScaling, CountWithinBounds' PROVE ScalingOnTarget'
  BY <1>i DEF EndScaling, ScalingOnTarget
<1>1. CASE Decide
  <2>1. Existing' = Existing /\ CountWithinBounds'
    BY <1>1, <1>e DEF Decide
  <2> HIDE DEF n
  <2>2. n = Cardinality(Existing)
    BY DEF n
  <2>3. /\ stage = "idle" /\ missing' = missing /\ victims' = victims /\ removing' = removing
        /\ \/ n < MaxShards /\ stage' = "grow" /\ target' = n + 1
           \/ n > MinShards /\ stage' = "shrink" /\ target' = n - 1
    BY <1>1, <2>2 DEF Decide, MayGrow, MayShrink
  <2> QED BY <1>0, <1>b, <2>1, <2>2, <2>3 DEF ScalingOnTarget
<1>2. CASE CountMissing
  <2>1. Existing' = Existing /\ CountWithinBounds'
    BY <1>2, <1>e DEF CountMissing
  <2>2. CASE EndScaling
    BY <1>i, <2>1, <2>2
  <2>3. CASE ~EndScaling
    <3>1. /\ stage = "grow" /\ stage' = "create" /\ missing' = target - n
          /\ UNCHANGED <<target, victims, removing>>
      BY <1>2, <2>3 DEF CountMissing
    <3> QED BY <1>0, <1>b, <2>1, <3>1 DEF ScalingOnTarget
  <2> QED BY <2>2, <2>3
<1>3. CASE CreateFails
  BY <1>3, <1>e, <1>i DEF CreateFails
<1>4. CASE Select
  <2>1. Existing' = Existing /\ CountWithinBounds'
    BY <1>4, <1>e DEF Select
  <2>2. CASE EndScaling
    BY <1>i, <2>1, <2>2
  <2>3. CASE ~EndScaling
    <3>1. /\ stage = "shrink" /\ stage' = "drain" /\ target' = target
          /\ victims' \in Selections(n - target)
      BY <1>4, <2>3 DEF Select
    <3>2. victims' \subseteq Existing /\ Cardinality(victims') = n - target
      BY <3>1 DEF Selections
    <3> QED BY <1>0, <1>b, <2>1, <3>1, <3>2 DEF ScalingOnTarget
  <2> QED BY <2>2, <2>3
<1>5. ASSUME NEW s \in Shards, CreateShard(s) PROVE ScalingOnTarget' /\ CountWithinBounds'
  <2>1. s \notin Existing
    BY <1>5, <1>b DEF CreateShard, Bookkeeping
  <2>2. Existing' = Existing \cup {s}
    BY <1>0, <1>5, ConstantObjects DEF CreateShard, Put, Existing, Exists
  <2>3. Cardinality(Existing') = n + 1
    BY <1>0, <2>1, <2>2, FS_AddElement
  <2>4. stage = "create" /\ missing > 0
    BY <1>5, <1>b DEF CreateShard, Bookkeeping
  <2>5. n + missing <= MaxShards
    BY <1>0, <1>b, <2>4 DEF ScalingOnTarget
  <2>6. CountWithinBounds'
    BY <1>0, <2>3, <2>4, <2>5 DEF CountWithinBounds
  <2>7. CASE EndScaling
    BY <1>i, <2>6, <2>7
  <2>8. CASE ~EndScaling
    <3>1. missing' = missing - 1 /\ UNCHANGED <<stage, target, victims, removing>>
      BY <1>5, <2>8 DEF CreateShard
    <3> QED BY <1>0, <1>b, <2>3, <2>4, <2>6, <3>1 DEF ScalingOnTarget
  <2> QED BY <2>6, <2>7, <2>8
<1>6. ASSUME NEW s \in Shards, DrainVictim(s) PROVE ScalingOnTarget' /\ CountWithinBounds'
  <2>1. CASE EndScaling /\ UNCHANGED store
    BY <1>e, <1>i, <2>1
  <2>2. CASE ~(EndScaling /\ UNCHANGED store)
    <3>1. /\ s \in victims /\ stage = "drain" /\ stage' = "handoff"
          /\ UNCHANGED <<target, missing, victims>>
          /\ store' = [store EXCEPT ![s] = TransitionTo(store[s], "Draining")]
      BY <1>6, <2>2 DEF DrainVictim, NextVictim, Put
    <3>2. victims \subseteq Existing
      BY <1>b, <3>1 DEF ScalingOnTarget
    <3>3. TransitionTo(store[s], "Draining").phase = "Draining"
      BY <1>0, TransitionTyped DEF Phases
    <3>4. Existing' = Existing
      BY <1>0, <3>1, <3>2, <3>3 DEF Existing, Exists
    <3> QED BY <1>0, <1>b, <3>1, <3>4 DEF ScalingOnTarget, CountWithinBounds
  <2> QED BY <2>1, <2>2
<1>7. ASSUME NEW s \in Shards, Handoff(s) PROVE ScalingOnTarget' /\ CountWithinBounds'
  <2>1. Existing' = Existing /\ CountWithinBounds'
    BY <1>7, <1>e DEF Handoff
  <2>2. CASE EndScaling
    BY <1>i, <2>1, <2>2
  <2>3. CASE ~EndScaling
    BY <1>7, <1>b, <2>1, <2>3 DEF Handoff, ScalingOnTarget
  <2> QED BY <2>1, <2>2, <2>3
<1>8. ASSUME NEW s \in Shards, RemoveShard(s) PROVE ScalingOnTarget' /\ CountWithinBounds'
  <2>1. stage = "remove" /\ s \in victims /\ victims \subseteq Existing
    BY <1>8, <1>b DEF RemoveShard, Bookkeeping, ScalingOnTarget
  <2>2. Existing' = Existing \ {s}
    BY <1>0, <1>8, ConstantObjects DEF RemoveShard, Put, Existing, Exists
  <2>3. Cardinality(Existing') = n - 1
    BY <1>0, <2>1, <2>2, FS_RemoveElement
  <2>4. /\ IsFiniteSet(victims)
        /\ Cardinality(victims \ {s}) = Cardinality(victims) - 1
        /\ Cardinality(victims) \in Nat /\ Cardinality(victims) # 0
    BY <1>0, <2>1, FS_Subset, FS_RemoveElement, FS_EmptySet, FS_CardinalityType
  <2>5. n = target + Cardinality(victims) /\ target >= MinShards
    BY <1>b, <2>1 DEF ScalingOnTarget
  <2>6. CountWithinBounds'
    BY <1>0, <2>3, <2>4, <2>5 DEF CountWithinBounds
  <2>7. CASE EndScaling
    BY <1>i, <2>6, <2>7
  <2>8. CASE ~EndScaling
    <3>1. stage' = "drain" /\ victims' = victims \ {s} /\ UNCHANGED target
      BY <1>8, <2>8 DEF RemoveShard
    <3> QED BY <1>0, <2>1, <2>2, <2>3, <2>4, <2>5, <2>6, <3>1 DEF ScalingOnTarget
  <2> QED BY <2>6, <2>7, <2>8
<1>9. CASE RemoveFails
  BY <1>9, <1>e, <1>i DEF RemoveFails
<1> QED BY <1>1, <1>2, <1>3, <1>4, <1>5, <1>6, <1>7, <1>8, <1>9 DEF ScalingLoop

(* The scaling loop keeps the number of shards within the bounds of the    *)
(* configuration, however its steps interleave with all other actors,      *)
(* provided no worker re-creates an object.                                *)
THEOREM CountBounded ==
  ASSUME "start" \notin Actors
  PROVE  Safety => []CountWithinBounds
<1>1. Init => CInv
  BY InitIInv DEF Init, CInv, ScalingOnTarget, CountWithinBounds
<1>2. CInv /\ [Next]_vars => CInv'
  <2> SUFFICES ASSUME CInv, [Next]_vars PROVE CInv'
    OBVIOUS
  <2>1. IInv'
    BY NextGood DEF CInv, IInv, GoodStep
  <2>2. CASE ScalingLoop
    BY <2>1, <2>2, ScalingKeepsCount DEF CInv
  <2>3. CASE ~ScalingLoop
    <3>1. Existing' = Existing /\ UNCHANGED scaleVars
      BY <2>3, OthersKeepExisting DEF CInv
    <3> QED BY <2>1, <3>1 DEF CInv, ScalingOnTarget, CountWithinBounds, scaleVars
  <2> QED BY <2>2, <2>3
<1>3. CInv => CountWithinBounds
  BY DEF CInv
<1> QED BY <1>1, <1>2, <1>3, PTL DEF Safety
=============================================================================
