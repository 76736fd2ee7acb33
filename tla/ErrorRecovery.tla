--------------------------- MODULE ErrorRecovery ---------------------------
(***************************************************************************)
(* The error handler, pkg/controllers/error_handler.go, and what its       *)
(* integration (error_handler_integration.go) feeds it.  Every error is    *)
(* one call of HandleError in a goroutine of its own: it asks the circuit  *)
(* breaker of its key, is listed among the active errors, is retried by a *)
(* recovery handler and ends recovered, refused, cancelled or with a call  *)
(* for manual intervention.  The calls share the breakers, the map of      *)
(* active errors, the history and the phases of the shards.                *)
(*                                                                         *)
(* Every critical section of eh.mu and of a breaker's mutex is one step.   *)
(* A breaker is an object: "breaker" is the map of them, by component and  *)
(* type of the error, and a call keeps the pointer it looked up.  A        *)
(* breaker is named after the call that created it.                        *)
(***************************************************************************)
EXTENDS Naturals, Sequences, FiniteSets, SequencesExt, FiniteSetsExt

CONSTANTS Errors,        \* calls of HandleError
          Shards,
          Kinds,         \* the [type, component, shard] an error can have
          None,          \* no breaker, no active error, no shard
          Threshold,     \* failures that open a breaker (5)
          RepeatLimit,   \* similar errors in the history that need a human (5)
          MaxHistory,    \* maxHistorySize (1000)
          MaxSeconds     \* bound on the clock

ASSUME ErrorsAssumption == IsFiniteSet(Errors) /\ None \notin Errors
ASSUME ThresholdAssumption == Threshold \in Nat \ {0}
ASSUME BoundsAssumption == RepeatLimit \in Nat /\ MaxHistory \in Nat \ {0} /\ MaxSeconds \in Nat

(* initializeDefaultStrategies: action, retries, and whether a human is    *)
(* asked at once.                                                          *)
Strategies ==
  [shard_startup       |-> [action |-> "retry",   retries |-> 3, manual |-> FALSE],
   shard_runtime       |-> [action |-> "restart", retries |-> 2, manual |-> FALSE],
   migration_failure   |-> [action |-> "retry",   retries |-> 3, manual |-> FALSE],
   network_partition   |-> [action |-> "retry",   retries |-> 5, manual |-> FALSE],
   configuration_error |-> [action |-> "manual_intervention", retries |-> 1, manual |-> TRUE],
   resource_exhaustion |-> [action |-> "scale",   retries |-> 2, manual |-> FALSE],
   system_overload     |-> [action |-> "scale",   retries |-> 1, manual |-> FALSE],
   leader_election     |-> [action |-> "retry",   retries |-> 5, manual |-> FALSE]]

(* The errors the integration creates with severity critical. *)
Critical == {"configuration_error", "system_overload"}

(* The constructors name a shard for these types. *)
OfShard == {"shard_startup", "shard_runtime", "migration_failure"}

ASSUME KindsAssumption ==
  /\ None \notin Shards
  /\ \A k \in Kinds : /\ DOMAIN k = {"type", "component", "shard"}
                     /\ IF k.type \in OfShard THEN k.shard \in Shards ELSE k.shard = None

(* The key of a breaker; an error id has the second of the error too.  The *)
(* operation, which is also in the id, is a function of the type.          *)
KeyOf(k) == <<k.component, k.type>>
Keys == {KeyOf(k) : k \in Kinds}
Ids  == Keys \X (0 .. MaxSeconds)

VARIABLES
  now,        \* the clock, in seconds
  kind,       \* what each error is about
  at,         \* where each call is
  stamp,      \* Timestamp of each error
  retries,    \* RetryCount of each error
  breaker,    \* circuitBreakers, by key
  box,        \* the breaker objects
  using,      \* the breaker each call looked up and still uses
  active,     \* activeErrors, by id
  history,    \* errorHistory
  phase,      \* phase of the shards
  notified,   \* shards whose OnShardRecovered has not looked at the errors yet
  clearing    \* OnShardRecovered of each shard: ids it still removes

errorVars   == <<kind, stamp, retries>>
breakerVars == <<breaker, box, using>>
shardVars   == <<phase, notified, clearing>>
vars == <<now, at, errorVars, breakerVars, active, history, shardVars>>

Type(e)     == kind[e].type
Shard(e)    == kind[e].shard
Key(e)      == KeyOf(kind[e])
Known(e)    == Type(e) \in DOMAIN Strategies
Strategy(e) == Strategies[Type(e)]

(* generateErrorID *)
Id(e) == <<Key(e), stamp[e]>>

(* Where a call has returned. *)
Returned == {"refused", "unknown", "manual", "cancelled", "done"}

Goto(e, from, to) == at[e] = from /\ at' = [at EXCEPT ![e] = to]

----------------------------------------------------------------------------
(* The circuit breaker. *)
NewBreaker == [state |-> "closed", failures |-> 0, elapsed |-> FALSE]

(* Mutant: the threshold is off by one. *)
LateFailure(b) ==
  [state    |-> IF b.state = "half_open" \/ b.failures + 1 > Threshold THEN "open" ELSE b.state,
   failures |-> b.failures + 1,
   elapsed  |-> FALSE]

(* RecordFailure; lastFailureTime is the time of this failure. *)
RecordFailure(b) ==
  [state    |-> IF b.state = "half_open" \/ b.failures + 1 >= Threshold THEN "open" ELSE b.state,
   failures |-> b.failures + 1,
   elapsed  |-> FALSE]

(* RecordSuccess *)
RecordSuccess(b) ==
  [b EXCEPT !.failures = 0, !.state = IF @ = "half_open" THEN "closed" ELSE @]

(* An open breaker whose timeout is not over. *)
Refuses(b) == b.state = "open" /\ ~b.elapsed

(* The last failure of the open breakers in S is now longer ago than their timeout. *)
Tick ==
  /\ now < MaxSeconds
  /\ now' = now + 1
  /\ \E S \in SUBSET {b \in Errors : Refuses(box[b])} :
       box' = [b \in Errors |-> IF b \in S THEN [box[b] EXCEPT !.elapsed = TRUE] ELSE box[b]]
  /\ UNCHANGED <<at, errorVars, breaker, using, active, history, shardVars>>

----------------------------------------------------------------------------
(* HandleError(e) is called by one of the constructors of the integration, *)
(* or by a detector; isCircuitBreakerOpen looks the breaker up ...         *)
HandleError(e) ==
  /\ at[e] = "new"
  /\ stamp' = [stamp EXCEPT ![e] = now]
  /\ using' = [using EXCEPT ![e] = breaker[Key(e)]]
  /\ at' = [at EXCEPT ![e] = IF breaker[Key(e)] = None THEN "absent" ELSE "lookedUp"]
  /\ UNCHANGED <<now, kind, retries, breaker, box, active, history, shardVars>>

(* ... or puts a new one into the map, which may have one by now, ... *)
CreateBreaker(e) ==
  /\ Goto(e, "absent", "lookedUp")
  /\ breaker' = [breaker EXCEPT ![Key(e)] = e]
  /\ box' = [box EXCEPT ![e] = NewBreaker]
  /\ using' = [using EXCEPT ![e] = e]
  /\ UNCHANGED <<now, errorVars, active, history, shardVars>>

(* ... and asks IsOpen.  If the timeout is over, IsOpen gives up its read  *)
(* lock ...                                                                *)
IsOpen(e) ==
  LET b == box[using[e]] IN
  /\ at[e] = "lookedUp"
  /\ at' = [at EXCEPT ![e] = IF Refuses(b) THEN "refused"
                             ELSE IF b.state = "open" THEN "halfOpening" ELSE "admitted"]
  /\ using' = IF at'[e] = "halfOpening" THEN using ELSE [using EXCEPT ![e] = None]
  /\ UNCHANGED <<now, errorVars, breaker, box, active, history, shardVars>>

(* ... to take the lock for writing, and does not look again. *)
HalfOpen(e) ==
  /\ Goto(e, "halfOpening", "admitted")
  /\ box' = [box EXCEPT ![using[e]].state = "half_open"]
  /\ using' = [using EXCEPT ![e] = None]
  /\ UNCHANGED <<now, errorVars, breaker, active, history, shardVars>>

(* storeActiveError, or handleUnknownError when no strategy is known. *)
StoreActiveError(e) ==
  /\ at[e] = "admitted"
  /\ IF Known(e)
       THEN /\ at' = [at EXCEPT ![e] = "stored"]
            /\ active' = [active EXCEPT ![Id(e)] = e]
       ELSE /\ at' = [at EXCEPT ![e] = "unknown"]
            /\ UNCHANGED active
  /\ UNCHANGED <<now, errorVars, breakerVars, history, shardVars>>

(* isRepeatedErrorPattern: the history holds too many errors of the type   *)
(* and the component.  All of a behaviour happens within its hour.         *)
Repeated(e) == Len(SelectSeq(history, LAMBDA f : Key(f) = Key(e))) > RepeatLimit

(* shouldTriggerManualIntervention, then triggerManualIntervention or the  *)
(* first attempt.                                                          *)
Decide(e) ==
  /\ at[e] = "stored"
  /\ at' = [at EXCEPT ![e] = IF Strategy(e).manual \/ Type(e) \in Critical \/ Repeated(e)
                             THEN "manual" ELSE "attempt"]
  /\ UNCHANGED <<now, errorVars, breakerVars, active, history, shardVars>>

----------------------------------------------------------------------------
(* attemptRecovery.  The wait before a retry is over. *)
BeginAttempt(e) ==
  /\ Goto(e, "attempt", "handling")
  /\ retries' = [retries EXCEPT ![e] = @ + 1]
  /\ UNCHANGED <<now, kind, stamp, breakerVars, active, history, shardVars>>

(* The caller's context ends during the wait. *)
Cancelled(e) ==
  /\ retries[e] > 0
  /\ Goto(e, "attempt", "cancelled")
  /\ UNCHANGED <<now, errorVars, breakerVars, active, history, shardVars>>

(* RestartRecoveryHandler: HandleFailedShard assigns the phase Failed; the *)
(* health is checked five seconds later.                                   *)
FailShard(e) ==
  /\ Goto(e, "handling", "restarting")
  /\ Strategy(e).action = "restart"
  /\ phase' = [phase EXCEPT ![Shard(e)] = "Failed"]
  /\ UNCHANGED <<now, errorVars, breakerVars, active, history, notified, clearing>>

(* When a handler can return nil: a restart finds the shard healthy, the   *)
(* retry of a start finds it running, or failed, when it asks for a health *)
(* check that only an error of the API fails; the other retries do         *)
(* nothing, and scaling up succeeds.                                       *)
CanSucceed(e) ==
  \/ at[e] = "restarting" /\ phase[Shard(e)] = "Running"
  \/ /\ at[e] = "handling"
     /\ Strategy(e).action # "restart"
     /\ Type(e) = "shard_startup" => phase[Shard(e)] # "Pending"

(* When it can return an error: the API server fails it, the shard is not  *)
(* healthy, or the resource is not named; two retries never fail.          *)
CanFail(e) ==
  /\ at[e] \in {"handling", "restarting"}
  /\ Type(e) \notin {"network_partition", "leader_election"}

HandlerSucceeds(e) ==
  /\ CanSucceed(e)
  /\ at' = [at EXCEPT ![e] = "succeeded"]
  /\ UNCHANGED <<now, errorVars, breakerVars, active, history, shardVars>>

HandlerFails(e) ==
  /\ CanFail(e)
  /\ at' = [at EXCEPT ![e] = "failed"]
  /\ UNCHANGED <<now, errorVars, breakerVars, active, history, shardVars>>

(* Mutant: an attempt that fails is counted when it was the last one only. *)
LastFailureOnly(e) ==
  /\ at[e] = "failed"
  /\ IF retries[e] < Strategy(e).retries
       THEN at' = [at EXCEPT ![e] = "attempt"] /\ UNCHANGED box
       ELSE /\ at' = [at EXCEPT ![e] = "manual"]
            /\ box' = [box EXCEPT ![breaker[Key(e)]] = RecordFailure(@)]
  /\ UNCHANGED <<now, errorVars, breaker, using, active, history, shardVars>>

(* recordFailure, on the breaker that is in the map, then another attempt, *)
(* which does not ask the breaker, or triggerManualIntervention.           *)
Failure(e) ==
  /\ at[e] = "failed"
  /\ box' = [box EXCEPT ![breaker[Key(e)]] = RecordFailure(@)]
  /\ at' = [at EXCEPT ![e] = IF retries[e] < Strategy(e).retries THEN "attempt" ELSE "manual"]
  /\ UNCHANGED <<now, errorVars, breaker, using, active, history, shardVars>>

(* recordSuccess, ... *)
Success(e) ==
  /\ Goto(e, "succeeded", "recovered")
  /\ box' = [box EXCEPT ![breaker[Key(e)]] = RecordSuccess(@)]
  /\ UNCHANGED <<now, errorVars, breaker, using, active, history, shardVars>>

(* ... removeActiveError, by id, ... *)
RemoveActiveError(e) ==
  /\ Goto(e, "recovered", "removed")
  /\ active' = [active EXCEPT ![Id(e)] = None]
  /\ UNCHANGED <<now, errorVars, breakerVars, history, shardVars>>

(* Mutant: the history may grow past its size before it is trimmed. *)
AddToHistoryThenTrim(e) ==
  /\ Goto(e, "removed", "done")
  /\ history' = Append(IF Len(history) > MaxHistory THEN Tail(history) ELSE history, e)
  /\ UNCHANGED <<now, errorVars, breakerVars, active, shardVars>>

(* ... and addToHistory, which keeps the newest MaxHistory errors. *)
AddToHistory(e) ==
  /\ Goto(e, "removed", "done")
  /\ LET all == Append(history, e) IN
     history' = SubSeq(all, Len(all) - Min({Len(all), MaxHistory}) + 1, Len(all))
  /\ UNCHANGED <<now, errorVars, breakerVars, active, shardVars>>

----------------------------------------------------------------------------
(* The shards: the worker starts or stops reporting, and the health        *)
(* checker stores the recovery of a failed shard (external; ShardLifecycle *)
(* has these steps).  Its loop takes one shard after the other.            *)
ShardStarts(s) ==
  /\ phase[s] = "Pending"
  /\ phase' = [phase EXCEPT ![s] = "Running"]
  /\ UNCHANGED <<now, at, errorVars, breakerVars, active, history, notified, clearing>>

ShardFails(s) ==
  /\ phase[s] = "Running"
  /\ phase' = [phase EXCEPT ![s] = "Failed"]
  /\ UNCHANGED <<now, at, errorVars, breakerVars, active, history, notified, clearing>>

ShardRecovers(s) ==
  /\ phase[s] = "Failed"
  /\ notified = {} /\ \A t \in Shards : clearing[t] = {}
  /\ phase' = [phase EXCEPT ![s] = "Running"]
  /\ notified' = {s}
  /\ UNCHANGED <<now, at, errorVars, breakerVars, active, history, clearing>>

(* Mutant: the errors of every shard are cleared. *)
CopyAllActive(s) ==
  /\ s \in notified
  /\ notified' = notified \ {s}
  /\ clearing' = [clearing EXCEPT ![s] = {id \in Ids : active[id] # None}]
  /\ UNCHANGED <<now, at, errorVars, breakerVars, active, history, phase>>

(* The detector's OnShardRecovered takes a copy of the active errors, in   *)
(* which it looks for the shard's, ...                                     *)
CopyActive(s) ==
  /\ s \in notified
  /\ notified' = notified \ {s}
  /\ clearing' = [clearing EXCEPT ![s] = {id \in Ids : active[id] # None /\ Shard(active[id]) = s}]
  /\ UNCHANGED <<now, at, errorVars, breakerVars, active, history, phase>>

(* ... and removes them by id. *)
ClearRecovered(s) ==
  \E id \in clearing[s] :
    /\ active' = [active EXCEPT ![id] = None]
    /\ clearing' = [clearing EXCEPT ![s] = @ \ {id}]
    /\ UNCHANGED <<now, at, errorVars, breakerVars, history, phase, notified>>

----------------------------------------------------------------------------
Init ==
  /\ now = 0
  /\ kind \in [Errors -> Kinds]
  /\ at = [e \in Errors |-> "new"]
  /\ stamp = [e \in Errors |-> 0]
  /\ retries = [e \in Errors |-> 0]
  /\ breaker = [k \in Keys |-> None]
  /\ box = [b \in Errors |-> NewBreaker]
  /\ using = [e \in Errors |-> None]
  /\ active = [id \in Ids |-> None]
  /\ history = <<>>
  /\ phase \in [Shards -> {"Pending", "Running"}]
  /\ notified = {}
  /\ clearing = [s \in Shards |-> {}]

(* A call that was made goes on. *)
Proceed(e) ==
  \/ CreateBreaker(e) \/ IsOpen(e) \/ HalfOpen(e) \/ StoreActiveError(e) \/ Decide(e)
  \/ BeginAttempt(e) \/ FailShard(e) \/ HandlerSucceeds(e) \/ HandlerFails(e)
  \/ Failure(e) \/ Success(e) \/ RemoveActiveError(e) \/ AddToHistory(e)

Next ==
  \/ Tick
  \/ \E e \in Errors : HandleError(e) \/ Proceed(e) \/ Cancelled(e)
  \/ \E s \in Shards :
       \/ ShardStarts(s) \/ ShardFails(s) \/ ShardRecovers(s)
       \/ CopyActive(s) \/ ClearRecovered(s)

Spec == Init /\ [][Next]_vars

----------------------------------------------------------------------------
Breaker == [state : {"closed", "open", "half_open"}, failures : Nat, elapsed : BOOLEAN]

(* Type invariant of the error handler: retries stay within the strategy's *)
(* limit, and the history within its size.                                 *)
TypeOK ==
  /\ now \in 0 .. MaxSeconds
  /\ kind \in [Errors -> Kinds]
  /\ at \in [Errors -> Returned \cup
       {"new", "absent", "lookedUp", "halfOpening", "admitted", "stored", "attempt", "handling",
        "restarting", "failed", "succeeded", "recovered", "removed"}]
  /\ stamp \in [Errors -> 0 .. MaxSeconds]
  /\ retries \in [Errors -> Nat]
  /\ \A e \in Errors : retries[e] > 0 => Known(e) /\ retries[e] <= Strategy(e).retries
  /\ breaker \in [Keys -> Errors \cup {None}]
  /\ box \in [Errors -> Breaker]
  /\ using \in [Errors -> Errors \cup {None}]
  /\ active \in [Ids -> Errors \cup {None}]
  /\ history \in Seq(Errors) /\ Len(history) <= MaxHistory
  /\ phase \in [Shards -> {"Pending", "Running", "Failed"}]
  /\ notified \subseteq Shards /\ clearing \in [Shards -> SUBSET Ids]

(* Safety: a closed breaker has seen fewer failures since the last success *)
(* than its threshold, whichever calls share it and however their checks   *)
(* and results interleave.                                                 *)
ClosedBelowThreshold ==
  \A b \in Errors : box[b].state = "closed" => box[b].failures < Threshold

(* Where the attempt a call made last has not failed, or not yet been      *)
(* recorded as a failure.                                                  *)
Unrecorded == {"handling", "restarting", "failed", "succeeded", "recovered", "removed", "done"}

Recorded == [e \in Errors |-> IF at[e] \in Unrecorded THEN retries[e] - 1 ELSE retries[e]]

(* Safety: until a call succeeds, the breakers of a component and type     *)
(* have counted every failed attempt of their errors exactly once, whether *)
(* the calls share one breaker or two calls made one each; after that,     *)
(* never more.  No refused error, no half-open breaker and no error of     *)
(* another component or type adds a failure.                               *)
EveryFailureCounted ==
  \A k \in Keys :
    LET calls   == {e \in Errors : Key(e) = k}
        counted == SumFunctionOnSet([b \in Errors |-> box[b].failures], calls)
        failed  == SumFunctionOnSet(Recorded, calls)
    IN /\ counted <= failed
       /\ (\A e \in calls : at[e] \notin {"recovered", "removed", "done"}) => counted = failed

(* Action property: an entry leaves the active errors only by the hand of  *)
(* a call that recovered and has its id, or of OnShardRecovered of the     *)
(* shard of an error that has its id.  So an error that shares its id with *)
(* no other goes only when it recovered or its own shard did, although the *)
(* removals go by ids that were read from a copy.                          *)
DropsOnlyRecovered ==
  [][\A id \in Ids :
       active[id] # None /\ active'[id] = None =>
         \/ \E f \in Errors : Id(f) = id /\ at[f] = "recovered" /\ at'[f] = "removed"
         \/ \E s \in Shards :
              /\ id \in clearing[s] \ clearing'[s]
              /\ \E f \in Errors : Id(f) = id /\ Shard(f) = s]_vars
=============================================================================
