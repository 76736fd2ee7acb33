--------------------------- MODULE ShardLifecycle ---------------------------
(***************************************************************************)
(* The life of ShardInstance objects in the API server, and everything     *)
(* that writes them concurrently:                                          *)
(*   sm       the health loop of the ShardManager (runHealthCheckLoop),    *)
(*   hc       the loop of the HealthChecker (StartHealthChecking),         *)
(*   scale    the scaling loop of the ShardManager,                        *)
(*   beat     one heartbeat loop per worker,                               *)
(*   drain    WorkerShard.Drain, report  WorkerShard.updateShardStatus,    *)
(*   recover  callers of HealthChecker.OnShardRecovered,                   *)
(*   crash, start   the worker processes stop and start,                   *)
(*   time     heartbeats grow stale in the store.                          *)
(* The constant Actors says which of them run, so that a run can look at   *)
(* one wiring of the components.                                           *)
(*                                                                         *)
(* The API server (external) rejects an update whose resourceVersion is    *)
(* not the stored one.  Instead of counting versions, "current" holds for  *)
(* every caller the shards whose stored version is still the one that the  *)
(* caller read: a write succeeds exactly for those, and it takes the shard *)
(* out of the current set of everybody else.                               *)
(***************************************************************************)
EXTENDS ShardInstance, FiniteSets

CONSTANTS Shards,      \* shard names (bounds how many are ever created)
          MinShards, MaxShards,   \* of the ShardConfig
          Actors       \* which of the concurrent activities run

AllActors ==
  {"sm", "hc", "scale", "beat", "drain", "report", "recover", "crash", "start", "time"}

ASSUME ShardsAssumption == IsFiniteSet(Shards)
ASSUME ActorsAssumption == Actors \subseteq AllActors
ASSUME BoundsAssumption == MinShards \in Nat /\ MaxShards \in Nat

Loops == {"sm", "hc"}
WorkerCalls == {"beat", "drain", "report"}
(* Whoever can hold a copy of an object between its read and its write;    *)
(* "fail" is the copy OnShardFailed makes inside the ShardManager's loop.  *)
Holders == Loops \cup WorkerCalls \cup {"fail", "recover", "scale"}

VARIABLES
  store,     \* the API server: the object of every shard name
  current,   \* for every holder, the shards it holds at the stored version
  used,      \* names that have ever been given to a shard
  statuses,  \* HealthChecker.shardStatuses, shared by both health loops
  at,        \* where each health loop is with each shard
  prev,      \* the status CheckHealth read for the shard it is handling
  seen,      \* the copies it listed
  stage,     \* where the scaling loop is
  target,    \* the shard count it wants
  missing,   \* how many shards ScaleUp still has to create
  victims,   \* the shards it still has to drain and remove
  picked,    \* its copies of those
  removing,  \* the one of them (as a set) that it has moved to Draining
  worker,    \* "down", "up" or "draining", per shard
  call       \* where each call of each worker, and of OnShardRecovered, is

healthVars == <<statuses, at, prev, seen>>
scaleVars  == <<stage, target, missing, victims, picked, removing>>
workerVars == <<worker, call>>
storeVars  == <<store, current, used>>
vars == <<storeVars, healthVars, scaleVars, workerVars>>

Existing == {s \in Shards : Exists(store[s])}

----------------------------------------------------------------------------
(* The API server, as client.Get, List, Status().Update, Create and Delete *)
(* are used.                                                               *)

(* Holder h reads the objects of S. *)
Read(h, S) == current' = [current EXCEPT ![h] = @ \cup S]

(* Holder h has shard s at the stored version: its update is accepted. *)
Accepted(h, s) == s \in current[h]

Forget(h, s) == current' = [current EXCEPT ![h] = @ \ {s}]

(* Store o under s; only the holders in Keep know the new version. *)
Put(s, o, Keep) ==
  /\ store' = [store EXCEPT ![s] = o]
  /\ current' = [h \in Holders |-> IF h \in Keep THEN current[h] ELSE current[h] \ {s}]

(* The last call of holder h for shard s: Status().Update with o, which a  *)
(* conflict turns into an error that is only logged.                       *)
UpdateStatus(h, s, o) ==
  IF Accepted(h, s) THEN Put(s, o, {}) ELSE Forget(h, s) /\ UNCHANGED store

----------------------------------------------------------------------------
(* The two health loops.  at[l][s] is "idle" when loop l has nothing to do *)
(* with s, "listed" when s waits for its turn in the running pass, and     *)
(* otherwise what the loop does next with s, one shard at a time.          *)

Turn(l, s) == \A t \in Shards \ {s} : at[l][t] \in {"idle", "listed"}

Go(l, s, where) == at' = [at EXCEPT ![l][s] = where]

(* performHealthChecks and checkAllShards list the shards on every tick. *)
StartPass(l) ==
  /\ l \in Actors
  /\ \A s \in Shards : at[l][s] = "idle"
  /\ Existing # {}
  /\ at' = [at EXCEPT ![l] = [s \in Shards |-> IF s \in Existing THEN "listed" ELSE "idle"]]
  /\ seen' = [seen EXCEPT ![l] = store]
  /\ Read(l, Existing)
  /\ UNCHANGED <<store, used, statuses, prev, scaleVars, workerVars>>

(* CheckHealth up to mu.RUnlock: remember what the last check found. *)
ReadPrevious(l, s) ==
  /\ at[l][s] = "listed"
  /\ Turn(l, s)
  /\ Go(l, s, "check")
  /\ prev' = [prev EXCEPT ![l] = statuses[s]]
  /\ UNCHANGED <<storeVars, statuses, seen, scaleVars, workerVars>>

(* Mutant: the age of the heartbeat is not looked at. *)
CheckPhaseOnly(l, s, timely) == CheckedHealth(prev[l], seen[l][s].phase = "Running")

(* The rest of CheckHealth.  A heartbeat that was fresh when the shard was *)
(* listed may have become stale since ("timely").                          *)
CheckHealth(l, s, timely) ==
  LET o == seen[l][s] IN
  CheckedHealth(prev[l], o.phase = "Running" /\ o.fresh /\ timely)

(* The copy goes on to be written.  The health loops put the very pointer  *)
(* that CheckHealth stored in shardStatuses into the copy, so that what    *)
(* TransitionTo does to the HealthStatus shows in shardStatuses as well.   *)
Proceed(l, s, o, where) ==
  /\ seen' = [seen EXCEPT ![l][s] = o]
  /\ statuses' = [statuses EXCEPT ![s] = o.health]
  /\ Go(l, s, where)
  /\ UNCHANGED current

(* Nothing is written: on to the next shard. *)
Skip(l, s, h) ==
  /\ seen' = [seen EXCEPT ![l][s] = NoShard]
  /\ statuses' = [statuses EXCEPT ![s] = h]
  /\ Go(l, s, "idle")
  /\ Forget(l, s)

(* ShardManager.checkAndUpdateShardHealth: nothing to do while the health  *)
(* is what the listed object says; a Running shard found unhealthy fails,  *)
(* a Failed one found healthy runs again.                                  *)
SmCheck(s, timely) ==
  LET o == seen["sm"][s]
      h == CheckHealth("sm", s, timely)
      checked == [o EXCEPT !.health = h]
  IN
  /\ at["sm"][s] = "check"
  /\ prev' = [prev EXCEPT !["sm"] = NilHealth]
  /\ UNCHANGED <<store, used, scaleVars, workerVars>>
  /\ IF o.health.known /\ o.health.healthy = h.healthy THEN Skip("sm", s, h)
     ELSE IF ~h.healthy /\ o.phase = "Running"
       THEN Proceed("sm", s, TransitionTo(checked, "Failed"), "failing")
     ELSE IF h.healthy /\ o.phase = "Failed"
       THEN Proceed("sm", s, TransitionTo(checked, "Running"), "write")
     ELSE Proceed("sm", s, checked, "write")

(* HandleFailedShard -> OnShardFailed: list the shards again, *)
SmReread(s) ==
  /\ at["sm"][s] = "failing"
  /\ IF Exists(store[s]) THEN Go("sm", s, "marking") /\ Read("fail", {s})
                         ELSE Go("sm", s, "write") /\ UNCHANGED current
  /\ UNCHANGED <<store, used, statuses, prev, seen, scaleVars, workerVars>>

(* and write the shard as Failed, whatever its phase is by now. *)
SmMarkFailed(s) ==
  /\ at["sm"][s] = "marking"
  /\ Go("sm", s, "write")
  /\ UpdateStatus("fail", s, MarkFailed(store[s]))
  /\ UNCHANGED <<used, statuses, prev, seen, scaleVars, workerVars>>

(* handleHealthStateTransition fails a shard when the threshold is reached *)
(* in the same check that turns the stored health from good to bad.        *)
ThresholdReached(o, h) ==
  IsHealthy(o) /\ ~h.healthy /\ h.errors >= FailureThreshold

(* HealthChecker.checkAndUpdateShardHealth: it always writes the status,   *)
(* except when the transition to Failed is not allowed.                    *)
HcCheck(s, timely) ==
  LET o == seen["hc"][s]
      h == CheckHealth("hc", s, timely)
      checked == [o EXCEPT !.health = h]
  IN
  /\ at["hc"][s] = "check"
  /\ prev' = [prev EXCEPT !["hc"] = NilHealth]
  /\ UNCHANGED <<store, used, scaleVars, workerVars>>
  /\ IF ThresholdReached(o, h)
       THEN IF CanTransitionTo(o, "Failed")
              THEN Proceed("hc", s, TransitionTo(checked, "Failed"), "write")
              ELSE Skip("hc", s, h)
     ELSE IF ~IsHealthy(o) /\ h.healthy /\ o.phase = "Failed"
       THEN Proceed("hc", s, TransitionTo(checked, "Running"), "write")
     ELSE Proceed("hc", s, checked, "write")

(* Mutant: a loop whose update was refused repeats it with its own copy    *)
(* until it is accepted.                                                   *)
WriteStatusForced(l, s) ==
  LET mine == [seen[l][s] EXCEPT !.fresh = store[s].fresh] IN
  /\ at[l][s] = "write"
  /\ IF Exists(store[s]) THEN Put(s, mine, {}) ELSE Forget(l, s) /\ UNCHANGED store
  /\ seen' = [seen EXCEPT ![l][s] = NoShard]
  /\ Go(l, s, "idle")
  /\ UNCHANGED <<used, statuses, prev, scaleVars, workerVars>>

(* Status().Update of either loop.  Time has gone on: the heartbeat in the *)
(* copy is the stored one, fresh only if that still is.                    *)
WriteStatus(l, s) ==
  /\ at[l][s] = "write"
  /\ UpdateStatus(l, s, [seen[l][s] EXCEPT !.fresh = store[s].fresh])
  /\ seen' = [seen EXCEPT ![l][s] = NoShard]
  /\ Go(l, s, "idle")
  /\ UNCHANGED <<used, statuses, prev, scaleVars, workerVars>>

HealthLoop(l) ==
  \/ StartPass(l)
  \/ \E s \in Shards : ReadPrevious(l, s) \/ WriteStatus(l, s)

ManagerLoop ==
  \/ HealthLoop("sm")
  \/ \E s \in Shards : SmReread(s) \/ SmMarkFailed(s) \/ \E timely \in BOOLEAN : SmCheck(s, timely)

CheckerLoop ==
  \/ HealthLoop("hc")
  \/ \E s \in Shards, timely \in BOOLEAN : HcCheck(s, timely)

----------------------------------------------------------------------------
(* The scaling loop.  Load averages are abstracted: a tick may find the    *)
(* load above or below the thresholds.                                     *)

EndScaling ==
  /\ stage' = "idle"
  /\ target' = 0
  /\ missing' = 0
  /\ victims' = {}
  /\ picked' = [s \in Shards |-> NoShard]
  /\ removing' = {}

(* Mutants: the lower bound is off by one, or forgotten. *)
MayShrinkPastMin(n) == n >= MinShards
AlwaysShrinks(n) == TRUE

MayGrow(n) == n < MaxShards
MayShrink(n) == n > MinShards

(* makeScalingDecision: one shard more or one shard less. *)
Decide ==
  LET n == Cardinality(Existing) IN
  /\ "scale" \in Actors
  /\ stage = "idle"
  /\ \/ MayGrow(n) /\ stage' = "grow" /\ target' = n + 1
     \/ MayShrink(n) /\ stage' = "shrink" /\ target' = n - 1
  /\ UNCHANGED <<storeVars, healthVars, missing, victims, picked, removing, workerVars>>

(* ScaleUp lists the shards again to see how many are missing ... *)
CountMissing ==
  LET n == Cardinality(Existing) IN
  /\ stage = "grow"
  /\ IF n >= target THEN EndScaling
     ELSE /\ stage' = "create"
          /\ missing' = target - n
          /\ UNCHANGED <<target, victims, picked, removing>>
  /\ UNCHANGED <<storeVars, healthVars, workerVars>>

(* ... and creates that many, each under a name never used before. *)
CreateShard(s) ==
  /\ stage = "create"
  /\ s \notin used
  /\ used' = used \cup {s}
  /\ Put(s, ManagerShard, {})
  /\ IF missing = 1 THEN EndScaling
     ELSE missing' = missing - 1 /\ UNCHANGED <<stage, target, victims, picked, removing>>
  /\ UNCHANGED <<healthVars, workerVars>>

(* LoadConfig or Create returns an error: ScaleUp returns it. *)
CreateFails ==
  /\ stage = "create"
  /\ EndScaling
  /\ UNCHANGED <<storeVars, healthVars, workerVars>>

(* selectShardsForRemoval: unhealthy shards go first. *)
Selections(n) ==
  {V \in SUBSET Existing :
     /\ Cardinality(V) = n
     /\ (\E s \in Existing \ V : ~IsHealthy(store[s])) => \A s \in V : ~IsHealthy(store[s])}

(* ScaleDownGracefully counts again and selects the shards to remove. *)
Select ==
  LET n == Cardinality(Existing) IN
  /\ stage = "shrink"
  /\ UNCHANGED <<store, used, healthVars, workerVars>>
  /\ \/ /\ n <= target
        /\ EndScaling
        /\ UNCHANGED current
     \/ /\ n > target
        /\ \E V \in Selections(n - target) :
             /\ victims' = V
             /\ picked' = [s \in Shards |-> IF s \in V THEN store[s] ELSE NoShard]
             /\ Read("scale", V)
        /\ stage' = "drain"
        /\ UNCHANGED <<target, missing, removing>>

(* The victims are handled in the order of their selection; when all are   *)
(* to go that is the order of the list.                                    *)
NextVictim(s) ==
  /\ s \in victims
  /\ (IsHealthy(picked[s]) /\ target > 0) => \A v \in victims : IsHealthy(picked[v])

ScaleForgets == current' = [current EXCEPT !["scale"] = {}]

(* Mutant: the phase is assigned without asking the transition table. *)
DrainAnyVictim(s) ==
  /\ stage = "drain"
  /\ NextVictim(s)
  /\ IF Accepted("scale", s)
       THEN /\ Put(s, TransitionTo(store[s], "Draining"), {"scale"})
            /\ stage' = "handoff"
            /\ removing' = {s}
            /\ UNCHANGED <<target, missing, victims, picked>>
       ELSE EndScaling /\ ScaleForgets /\ UNCHANGED store
  /\ UNCHANGED <<used, healthVars, workerVars>>

(* drainAndRemoveShard up to the status update: an error of TransitionTo   *)
(* or of the update ends the whole scale-down.                             *)
DrainVictim(s) ==
  /\ stage = "drain"
  /\ NextVictim(s)
  /\ IF CanTransitionTo(picked[s], "Draining") /\ Accepted("scale", s)
       THEN /\ Put(s, TransitionTo(store[s], "Draining"), {"scale"})
            /\ stage' = "handoff"
            /\ removing' = {s}
            /\ UNCHANGED <<target, missing, victims, picked>>
       ELSE EndScaling /\ ScaleForgets /\ UNCHANGED store
  /\ UNCHANGED <<used, healthVars, workerVars>>

(* migrateShardResources needs a healthy and active shard to take the      *)
(* resources.  Plans can be refused; the ones that are accepted run in     *)
(* goroutines nobody waits for, on copies that are never written back, so  *)
(* the stored objects do not change.                                       *)
Handoff(s) ==
  LET targets == {t \in Existing \ {s} : IsHealthy(store[t]) /\ IsActive(store[t])} IN
  /\ stage = "handoff"
  /\ s \in removing
  /\ \/ /\ ~picked[s].assigned \/ targets # {}
        /\ stage' = "remove"
        /\ UNCHANGED <<target, missing, victims, picked, removing, current>>
     \/ /\ picked[s].assigned
        /\ EndScaling
        /\ ScaleForgets
  /\ UNCHANGED <<store, used, healthVars, workerVars>>

(* After 30 seconds: TransitionTo(Terminated) on the copy, which is legal  *)
(* from Draining, and an unconditional delete.                             *)
RemoveShard(s) ==
  /\ stage = "remove"
  /\ s \in removing
  /\ Put(s, NoShard, {})
  /\ IF victims = {s}
       THEN EndScaling
       ELSE /\ stage' = "drain"
            /\ victims' = victims \ {s}
            /\ picked' = [picked EXCEPT ![s] = NoShard]
            /\ removing' = {}
            /\ UNCHANGED <<target, missing>>
  /\ UNCHANGED <<used, healthVars, workerVars>>

(* The delete returns an error, and the scale-down with it: the shard      *)
(* stays in the store as Draining.                                         *)
RemoveFails ==
  /\ stage = "remove"
  /\ EndScaling
  /\ ScaleForgets
  /\ UNCHANGED <<store, used, healthVars, workerVars>>

ScalingLoop ==
  \/ Decide
  \/ CountMissing
  \/ CreateFails
  \/ Select
  \/ RemoveFails
  \/ \E s \in Shards : CreateShard(s) \/ DrainVictim(s) \/ Handoff(s) \/ RemoveShard(s)

----------------------------------------------------------------------------
(* The workers.  call[k][s] is "idle", "read" when the call has its copy   *)
(* of the object, and for a heartbeat "up" or "draining" once ReportHealth *)
(* has looked at the worker's flags.                                       *)

SetCall(k, s, where) == call' = [call EXCEPT ![k][s] = where]

NotWorkers == UNCHANGED <<used, healthVars, scaleVars>>

(* client.Get fails when there is no object: the call ends. *)
BeatGet(s) ==
  /\ "beat" \in Actors
  /\ worker[s] # "down"
  /\ call["beat"][s] = "idle"
  /\ Exists(store[s])
  /\ SetCall("beat", s, "read")
  /\ Read("beat", {s})
  /\ NotWorkers /\ UNCHANGED <<store, worker>>

(* ReportHealth: healthy means running and not draining. *)
BeatReportHealth(s) ==
  /\ call["beat"][s] = "read"
  /\ SetCall("beat", s, worker[s])
  /\ NotWorkers /\ UNCHANGED <<store, current, worker>>

BeatUpdate(s) ==
  /\ call["beat"][s] \in {"up", "draining"}
  /\ SetCall("beat", s, "idle")
  /\ UpdateStatus("beat", s, Heartbeat(store[s], call["beat"][s] = "up"))
  /\ NotWorkers /\ UNCHANGED worker

(* Drain sets the flag under the mutex ... *)
DrainFlag(s) ==
  /\ "drain" \in Actors
  /\ worker[s] = "up"
  /\ call["drain"][s] = "idle"
  /\ worker' = [worker EXCEPT ![s] = "draining"]
  /\ SetCall("drain", s, "flagged")
  /\ NotWorkers /\ UNCHANGED <<store, current>>

(* Mutant: updateShardPhase assigns whatever phase it is given. *)
DrainGetUnchecked(s) ==
  /\ call["drain"][s] = "flagged"
  /\ SetCall("drain", s, "read")
  /\ Read("drain", {s})
  /\ NotWorkers /\ UNCHANGED <<store, worker>>

(* ... and then moves the phase.  Errors on the way are only logged. *)
DrainGet(s) ==
  /\ call["drain"][s] = "flagged"
  /\ IF CanTransitionTo(store[s], "Draining")
       THEN SetCall("drain", s, "read") /\ Read("drain", {s})
       ELSE SetCall("drain", s, "idle") /\ UNCHANGED current
  /\ NotWorkers /\ UNCHANGED <<store, worker>>

DrainUpdate(s) ==
  /\ call["drain"][s] = "read"
  /\ SetCall("drain", s, "idle")
  /\ UpdateStatus("drain", s, TransitionTo(store[s], "Draining"))
  /\ NotWorkers /\ UNCHANGED worker

(* updateShardStatus, called by AcceptMigratedResources and by the         *)
(* migration loop: the object lists what the worker now holds.             *)
ReportGet(s) ==
  /\ "report" \in Actors
  /\ worker[s] # "down"
  /\ call["report"][s] = "idle"
  /\ Exists(store[s])
  /\ SetCall("report", s, "read")
  /\ Read("report", {s})
  /\ NotWorkers /\ UNCHANGED <<store, worker>>

ReportUpdate(s) ==
  /\ call["report"][s] = "read"
  /\ SetCall("report", s, "idle")
  /\ \E some \in BOOLEAN :
       UpdateStatus("report", s, [store[s] EXCEPT !.assigned = some])
  /\ NotWorkers /\ UNCHANGED worker

(* The process ends, with whatever calls it was making. *)
WorkerCrash(s) ==
  /\ "crash" \in Actors
  /\ worker[s] # "down"
  /\ worker' = [worker EXCEPT ![s] = "down"]
  /\ call' = [k \in DOMAIN call |->
                IF k \in WorkerCalls THEN [call[k] EXCEPT ![s] = "idle"] ELSE call[k]]
  /\ current' = [h \in Holders |->
                   IF h \in WorkerCalls THEN current[h] \ {s} ELSE current[h]]
  /\ NotWorkers /\ UNCHANGED store

(* Start -> initializeShardInstance: a worker without an object makes one. *)
WorkerStart(s) ==
  /\ "start" \in Actors
  /\ worker[s] = "down"
  /\ worker' = [worker EXCEPT ![s] = "up"]
  /\ used' = used \cup {s}
  /\ IF Exists(store[s]) THEN UNCHANGED <<store, current>>
                         ELSE Put(s, WorkerShard, {})
  /\ UNCHANGED <<healthVars, scaleVars, call>>

(* OnShardRecovered: list, then write the shard as Running and healthy. *)
RecoverGet(s) ==
  /\ "recover" \in Actors
  /\ call["recover"][s] = "idle"
  /\ Exists(store[s])
  /\ SetCall("recover", s, "read")
  /\ Read("recover", {s})
  /\ NotWorkers /\ UNCHANGED <<store, worker>>

RecoverUpdate(s) ==
  /\ call["recover"][s] = "read"
  /\ SetCall("recover", s, "idle")
  /\ UpdateStatus("recover", s, MarkRecovered(store[s]))
  /\ NotWorkers /\ UNCHANGED worker

(* Time passes without a heartbeat. *)
Age(s) ==
  /\ "time" \in Actors
  /\ store[s].fresh
  /\ store' = [store EXCEPT ![s].fresh = FALSE]
  /\ UNCHANGED <<current, used, healthVars, scaleVars, workerVars>>

HeartbeatLoop(s) == BeatGet(s) \/ BeatReportHealth(s) \/ BeatUpdate(s)
DrainCall(s)     == DrainFlag(s) \/ DrainGet(s) \/ DrainUpdate(s)
ReportCall(s)    == ReportGet(s) \/ ReportUpdate(s)
RecoverCall(s)   == RecoverGet(s) \/ RecoverUpdate(s)

----------------------------------------------------------------------------
(* The loops start on a store that an earlier life of the controllers left *)
(* behind: shards that were created, some of which OnShardRecovered made   *)
(* Running, each with its worker.                                          *)
Init ==
  /\ store \in [Shards -> {NoShard, ManagerShard, MarkRecovered(ManagerShard)}]
  /\ Cardinality(Existing) \in MinShards..MaxShards
  /\ used = Existing
  /\ current = [h \in Holders |-> {}]
  /\ statuses = [s \in Shards |-> NilHealth]
  /\ at = [l \in Loops |-> [s \in Shards |-> "idle"]]
  /\ prev = [l \in Loops |-> NilHealth]
  /\ seen = [l \in Loops |-> [s \in Shards |-> NoShard]]
  /\ stage = "idle"
  /\ target = 0
  /\ missing = 0
  /\ victims = {}
  /\ removing = {}
  /\ picked = [s \in Shards |-> NoShard]
  /\ worker = [s \in Shards |-> IF Exists(store[s]) THEN "up" ELSE "down"]
  /\ call = [k \in WorkerCalls \cup {"recover"} |-> [s \in Shards |-> "idle"]]

Next ==
  \/ ManagerLoop
  \/ CheckerLoop
  \/ ScalingLoop
  \/ \E s \in Shards :
       \/ HeartbeatLoop(s)
       \/ DrainCall(s)
       \/ ReportCall(s)
       \/ RecoverCall(s)
       \/ WorkerCrash(s)
       \/ WorkerStart(s)
       \/ Age(s)

Safety == Init /\ [][Next]_vars
----------------------------------------------------------------------------
(* Type invariant: the shape of the stored objects, of everybody's copies  *)
(* and of the local state of the loops and calls.                          *)
TypeOK ==
  /\ store \in [Shards -> Shard]
  /\ current \in [Holders -> SUBSET Shards]
  /\ used \in SUBSET Shards
  /\ statuses \in [Shards -> Health]
  /\ at \in [Loops -> [Shards -> {"idle", "listed", "check", "failing", "marking", "write"}]]
  /\ prev \in [Loops -> Health]
  /\ seen \in [Loops -> [Shards -> Shard]]
  /\ stage \in {"idle", "grow", "create", "shrink", "drain", "handoff", "remove"}
  /\ target \in Nat /\ missing \in Nat
  /\ victims \in SUBSET Shards /\ removing \in SUBSET Shards
  /\ picked \in [Shards -> Shard]
  /\ worker \in [Shards -> {"down", "up", "draining"}]
  /\ call \in [WorkerCalls \cup {"recover"} ->
               [Shards -> {"idle", "read", "up", "draining", "flagged"}]]

(* The phases of the stored objects, for the abstract specification. *)
PhaseMachine == INSTANCE ShardPhases WITH phase <- [s \in Shards |-> store[s].phase]

(* Refinement: with the loops that check their transitions (hc, the        *)
(* scaling loop and the workers), every step of every interleaving moves   *)
(* the stored phases along the table of types.go, because a copy that is   *)
(* out of date cannot be written.                                          *)
ImplementsPhases == PhaseMachine!Spec

(* Safety, the reason why the other properties hold: whoever would be      *)
(* allowed to write a shard now holds a copy that agrees with the stored   *)
(* phase, or is about to fail a shard that may fail.  A copy that missed   *)
(* a transition is a copy that the API server refuses.                     *)
CopyCurrent(s) ==
  /\ \A h \in Holders : s \in current[h] => Exists(store[s])
  /\ \A l \in Loops : s \in current[l] =>
       /\ at[l][s] \in {"listed", "check"} => seen[l][s].phase = store[s].phase
       /\ at[l][s] \in {"failing", "marking", "write"} =>
            \/ seen[l][s].phase = store[s].phase
            \/ seen[l][s].phase = "Failed" /\ CanTransitionTo(store[s], "Failed")
  /\ (s \in current["drain"] /\ call["drain"][s] = "read") =>
       CanTransitionTo(store[s], "Draining")
  /\ (s \in current["scale"] /\ s \in victims \ removing) =>
       picked[s].phase = store[s].phase

CopiesCurrent == \A s \in Shards : CopyCurrent(s)

(* Bookkeeping: names are not given twice, the scaling loop is removing    *)
(* one of its victims, and a worker process that is down makes no calls.   *)
Bookkeeping ==
  /\ Existing \subseteq used
  /\ IF stage \in {"handoff", "remove"} THEN \E s \in victims : removing = {s}
                                       ELSE removing = {}
  /\ stage = "create" => missing > 0
  /\ \A k \in WorkerCalls, s \in Shards : worker[s] = "down" => call[k][s] = "idle"

(* Where the scaling loop stands with its target, as long as nobody else   *)
(* creates objects (no worker starts without one).                         *)
ScalingOnTarget ==
  /\ stage = "idle" => target = 0 /\ missing = 0 /\ victims = {} /\ removing = {}
  /\ stage \in {"grow", "create"} =>
       /\ victims = {}
       /\ target = Cardinality(Existing) + (IF stage = "create" THEN missing ELSE 1)
       /\ target <= MaxShards
  /\ stage = "shrink" =>
       victims = {} /\ target = Cardinality(Existing) - 1 /\ target >= MinShards
  /\ stage \in {"drain", "handoff", "remove"} =>
       /\ victims \subseteq Existing
       /\ Cardinality(Existing) = target + Cardinality(victims)
       /\ target >= MinShards

(* Safety: the scaling loop alone creates and deletes, so the number of    *)
(* shards stays between MinShards and MaxShards although the loop counts   *)
(* them again between its decision and its action.                         *)
CountWithinBounds == Cardinality(Existing) \in MinShards..MaxShards

(* Action property: a Failed shard is never put back by a stale copy of a  *)
(* heartbeat, a drain, a status report or a health check.  Only a caller   *)
(* of OnShardRecovered takes it out of Failed, and only a scale-down that  *)
(* had begun before can remove it.                                         *)
FailedIsSticky ==
  [][\A s \in Shards :
       store[s].phase = "Failed" =>
         \/ store'[s].phase = "Failed"
         \/ store'[s].phase = "Running" /\ call["recover"][s] = "read"
         \/ store'[s].phase = "Absent" /\ s \in victims]_vars

(* Action property: only a caller of OnShardRecovered makes a shard        *)
(* Running.  A loop that lists a shard as Running, and writes it after it  *)
(* was drained or failed, does not bring that back; and the branches of    *)
(* both loops that are to let a Failed shard run again never do.           *)
RunningOnlyByRecovery ==
  [][\A s \in Shards :
       store[s].phase # "Running" /\ store'[s].phase = "Running" =>
         call["recover"][s] = "read"]_vars

----------------------------------------------------------------------------
(* Fairness: the loops are goroutines driven by tickers, and the API       *)
(* server answers.  Worker calls other than the heartbeat, crashes and     *)
(* restarts need not happen.  A heartbeat grows stale once its worker is   *)
(* down, because time passes.                                              *)
Fairness ==
  /\ WF_vars(ManagerLoop)
  /\ WF_vars(CheckerLoop)
  /\ WF_vars(ScalingLoop)
  /\ \A s \in Shards :
       /\ WF_vars(HeartbeatLoop(s))
       /\ WF_vars(DrainGet(s) \/ DrainUpdate(s))
       /\ WF_vars(worker[s] = "down" /\ Age(s))

Spec == Safety /\ Fairness

(* The stored health says already that the shard is not healthy. *)
ReportedUnhealthy(s) == store[s].health.known /\ ~store[s].health.healthy

(* Liveness: while its worker stays down, a Running shard does not stay    *)
(* Running for ever: the ShardManager's health loop finds out.  The        *)
(* exception is a shard that is Running and stored as unhealthy when its   *)
(* worker is down: a draining worker reports itself unhealthy, and if the  *)
(* update of the phase was lost to a conflict the loop, which acts on a    *)
(* change of the health only, leaves the shard Running.                    *)
DeadShardDetected ==
  \A s \in Shards :
    (store[s].phase = "Running" /\ worker[s] = "down" /\ ~ReportedUnhealthy(s))
      ~> (store[s].phase # "Running" \/ worker[s] # "down")

(* Liveness: with both health loops writing and overwriting each other's   *)
(* copies, a shard whose worker is down is still stored as unhealthy.      *)
DeadShardUnhealthy ==
  \A s \in Shards :
    (Exists(store[s]) /\ worker[s] = "down")
      ~> (~IsHealthy(store[s]) \/ worker[s] # "down")
============================================================================
