------------------------ MODULE ErrorRecoveryProofs ------------------------
(***************************************************************************)
(* Proofs about ErrorRecovery for any number of errors of any kinds, any   *)
(* shards, thresholds, size of the history and length of time.             *)
(***************************************************************************)
EXTENDS ErrorRecovery, SetSums, FiniteSetTheorems, TLAPS

(* Every strategy retries at least once.                                   *)
LEMMA StrategiesRetry ==
  \A t \in DOMAIN Strategies : Strategies[t].retries \in Nat \ {0}
BY DEF Strategies

(* The smaller of two numbers, as the history is trimmed to it.            *)
LEMMA MinOfTwo ==
  ASSUME NEW a \in Nat, NEW b \in Nat
  PROVE  /\ Min({a, b}) \in {a, b}
         /\ Min({a, b}) <= a /\ Min({a, b}) <= b
<1>1. \E x \in {a, b} : \A y \in {a, b} : x <= y
  <2>1. CASE a <= b
    BY <2>1
  <2>2. CASE ~(a <= b)
    BY <2>2
  <2> QED BY <2>1, <2>2
<1> QED BY <1>1 DEF Min

(* A breaker stays a breaker. *)
LEMMA BreakersTyped ==
  /\ NewBreaker \in Breaker
  /\ \A b \in Breaker : RecordFailure(b) \in Breaker /\ RecordSuccess(b) \in Breaker
<1>1. NewBreaker \in Breaker
  BY DEF NewBreaker, Breaker
<1>2. ASSUME NEW b \in Breaker PROVE RecordFailure(b) \in Breaker
  BY DEF RecordFailure, Breaker
<1>3. ASSUME NEW b \in Breaker PROVE RecordSuccess(b) \in Breaker
  BY DEF RecordSuccess, Breaker
<1> QED BY <1>1, <1>2, <1>3

----------------------------------------------------------------------------
(* Type correctness, with what makes it inductive: retries are counted     *)
(* only after an error was stored, and only as far as its strategy goes.   *)
BeforeAttempts == {"new", "absent", "lookedUp", "halfOpening", "admitted", "stored"}
Attempting     == {"attempt", "handling", "restarting", "failed"}

Attempts ==
  \A e \in Errors :
    /\ at[e] \in BeforeAttempts => retries[e] = 0
    /\ at[e] \in Attempting \cup {"stored"} => Known(e)
    /\ at[e] = "attempt" => retries[e] < Strategy(e).retries

TInv == TypeOK /\ Attempts

(* Time and the shards. *)
LEMMA WorldTyped ==
  ASSUME TInv,
         \/ Tick
         \/ \E s \in Shards :
              \/ ShardStarts(s) \/ ShardFails(s) \/ ShardRecovers(s)
              \/ CopyActive(s) \/ ClearRecovered(s)
  PROVE  TInv'
<1>0. TypeOK /\ Attempts
  BY DEF TInv
<1>a. ASSUME UNCHANGED <<at, errorVars>> PROVE Attempts'
  BY <1>0, <1>a DEF Attempts, errorVars, Known, Strategy, Type
<1>1. CASE Tick
  <2>1. PICK S \in SUBSET {b \in Errors : Refuses(box[b])} :
          box' = [b \in Errors |-> IF b \in S THEN [box[b] EXCEPT !.elapsed = TRUE] ELSE box[b]]
    BY <1>1 DEF Tick
  <2>2. box' \in [Errors -> Breaker]
    BY <1>0, <2>1 DEF TypeOK, Breaker
  <2>3. now' \in 0 .. MaxSeconds
    BY <1>0, <1>1, BoundsAssumption DEF Tick, TypeOK
  <2> QED BY <1>0, <1>1, <1>a, <2>2, <2>3 DEF Tick, TInv, TypeOK, errorVars, shardVars, Known, Strategy, Type
<1>2. ASSUME NEW s \in Shards, ShardStarts(s) \/ ShardFails(s) PROVE TInv'
  <2>1. phase' \in [Shards -> {"Pending", "Running", "Failed"}]
    BY <1>0, <1>2 DEF ShardStarts, ShardFails, TypeOK
  <2> QED BY <1>0, <1>2, <1>a, <2>1
          DEF ShardStarts, ShardFails, TInv, TypeOK, errorVars, breakerVars, Known, Strategy, Type
<1>3. ASSUME NEW s \in Shards, ShardRecovers(s) PROVE TInv'
  <2>1. /\ phase' \in [Shards -> {"Pending", "Running", "Failed"}]
        /\ notified' \subseteq Shards
    BY <1>0, <1>3 DEF ShardRecovers, TypeOK
  <2> QED BY <1>0, <1>3, <1>a, <2>1
          DEF ShardRecovers, TInv, TypeOK, errorVars, breakerVars, Known, Strategy, Type
<1>c. ASSUME NEW s \in Shards, CopyActive(s) PROVE TInv'
  <2>1. /\ clearing' \in [Shards -> SUBSET Ids]
        /\ notified' \subseteq Shards
    BY <1>0, <1>c DEF CopyActive, TypeOK
  <2> QED BY <1>0, <1>c, <1>a, <2>1
          DEF CopyActive, TInv, TypeOK, errorVars, breakerVars, Known, Strategy, Type
<1>4. ASSUME NEW s \in Shards, ClearRecovered(s) PROVE TInv'
  <2>1. /\ active' \in [Ids -> Errors \cup {None}]
        /\ clearing' \in [Shards -> SUBSET Ids]
    BY <1>0, <1>4 DEF ClearRecovered, TypeOK
  <2> QED BY <1>0, <1>4, <1>a, <2>1
          DEF ClearRecovered, TInv, TypeOK, errorVars, breakerVars, Known, Strategy, Type
<1> QED BY <1>1, <1>2, <1>3, <1>4, <1>c

Places == Returned \cup
  {"new", "absent", "lookedUp", "halfOpening", "admitted", "stored", "attempt", "handling",
   "restarting", "failed", "succeeded", "recovered", "removed"}

(* A call moves on and counts no retry. *)
LEMMA MoveTyped ==
  ASSUME TInv, NEW e \in Errors, NEW new \in Places,
         at' = [at EXCEPT ![e] = new], UNCHANGED <<kind, retries>>,
         new \in BeforeAttempts => at[e] \in BeforeAttempts,
         new \in Attempting \cup {"stored"} => Known(e),
         new = "attempt" => retries[e] < Strategy(e).retries
  PROVE  /\ Attempts' /\ at' \in [Errors -> Places]
         /\ \A f \in Errors : retries'[f] > 0 => Known(f)' /\ retries'[f] <= Strategy(f).retries'
<1>1. /\ at \in [Errors -> Places] /\ Attempts
      /\ \A f \in Errors : retries[f] > 0 => Known(f) /\ retries[f] <= Strategy(f).retries
  BY DEF TInv, TypeOK, Places
<1>2. at' \in [Errors -> Places] /\ at'[e] = new /\ \A f \in Errors \ {e} : at'[f] = at[f]
  BY <1>1
<1>3. \A f \in Errors : (Known(f)' <=> Known(f)) /\ Strategy(f)' = Strategy(f)
  BY DEF Known, Strategy, Type
<1>4. Attempts'
  BY <1>1, <1>2, <1>3 DEF Attempts
<1> QED BY <1>1, <1>2, <1>3, <1>4

(* From HandleError to the decision. *)
LEMMA AdmissionTyped ==
  ASSUME TInv, NEW e \in Errors,
         \/ HandleError(e) \/ CreateBreaker(e) \/ IsOpen(e) \/ HalfOpen(e)
         \/ StoreActiveError(e) \/ Decide(e)
  PROVE  TInv'
<1>0. TypeOK /\ Attempts
  BY DEF TInv
<1>1. CASE HandleError(e)
  <2>1. stamp' \in [Errors -> 0 .. MaxSeconds] /\ using' \in [Errors -> Errors \cup {None}]
    BY <1>0, <1>1 DEF HandleError, TypeOK, Keys, Key
  <2>2. PICK new \in {"absent", "lookedUp"} : at' = [at EXCEPT ![e] = new]
    BY <1>1 DEF HandleError
  <2>3. /\ Attempts' /\ at' \in [Errors -> Places]
        /\ \A f \in Errors : retries'[f] > 0 => Known(f)' /\ retries'[f] <= Strategy(f).retries'
    BY <1>1, <2>2, MoveTyped DEF HandleError, Places, BeforeAttempts, Attempting
  <2> QED BY <1>0, <1>1, <2>1, <2>3 DEF HandleError, TInv, TypeOK, shardVars, Places
<1>2. CASE CreateBreaker(e)
  <2>1. /\ breaker' \in [Keys -> Errors \cup {None}] /\ box' \in [Errors -> Breaker]
        /\ using' \in [Errors -> Errors \cup {None}]
    BY <1>0, <1>2, BreakersTyped DEF CreateBreaker, TypeOK
  <2>2. /\ Attempts' /\ at' \in [Errors -> Places]
        /\ \A f \in Errors : retries'[f] > 0 => Known(f)' /\ retries'[f] <= Strategy(f).retries'
    BY <1>2, MoveTyped DEF CreateBreaker, Goto, errorVars, Places, BeforeAttempts, Attempting
  <2> QED BY <1>0, <1>2, <2>1, <2>2 DEF CreateBreaker, TInv, TypeOK, shardVars, errorVars, Places
<1>3. CASE IsOpen(e)
  <2>1. using' \in [Errors -> Errors \cup {None}]
    BY <1>0, <1>3 DEF IsOpen, TypeOK
  <2>2. PICK new \in {"refused", "halfOpening", "admitted"} : at' = [at EXCEPT ![e] = new]
    BY <1>3 DEF IsOpen
  <2>3. /\ Attempts' /\ at' \in [Errors -> Places]
        /\ \A f \in Errors : retries'[f] > 0 => Known(f)' /\ retries'[f] <= Strategy(f).retries'
    BY <1>3, <2>2, MoveTyped
       DEF IsOpen, errorVars, Places, Returned, BeforeAttempts, Attempting
  <2> QED BY <1>0, <1>3, <2>1, <2>3 DEF IsOpen, TInv, TypeOK, shardVars, errorVars, Places
<1>4. CASE HalfOpen(e)
  <2>1. box' \in [Errors -> Breaker] /\ using' \in [Errors -> Errors \cup {None}]
    BY <1>0, <1>4 DEF HalfOpen, TypeOK, Breaker
  <2>2. /\ Attempts' /\ at' \in [Errors -> Places]
        /\ \A f \in Errors : retries'[f] > 0 => Known(f)' /\ retries'[f] <= Strategy(f).retries'
    BY <1>4, MoveTyped DEF HalfOpen, Goto, errorVars, Places, BeforeAttempts, Attempting
  <2> QED BY <1>0, <1>4, <2>1, <2>2 DEF HalfOpen, TInv, TypeOK, shardVars, errorVars, Places
<1>5. CASE StoreActiveError(e)
  <2>1. active' \in [Ids -> Errors \cup {None}]
    BY <1>0, <1>5 DEF StoreActiveError, TypeOK
  <2>2. PICK new \in {"stored", "unknown"} : /\ at' = [at EXCEPT ![e] = new]
                                            /\ new = "stored" => Known(e)
    BY <1>5 DEF StoreActiveError
  <2>3. /\ Attempts' /\ at' \in [Errors -> Places]
        /\ \A f \in Errors : retries'[f] > 0 => Known(f)' /\ retries'[f] <= Strategy(f).retries'
    BY <1>5, <2>2, MoveTyped
       DEF StoreActiveError, errorVars, Places, Returned, BeforeAttempts, Attempting
  <2> QED BY <1>0, <1>5, <2>1, <2>3
          DEF StoreActiveError, TInv, TypeOK, shardVars, errorVars, breakerVars, Places
<1>6. CASE Decide(e)
  <2>1. PICK new \in {"manual", "attempt"} : at' = [at EXCEPT ![e] = new]
    BY <1>6 DEF Decide
  <2>2. at[e] = "stored" /\ Known(e) /\ retries[e] = 0
    BY <1>0, <1>6 DEF Decide, Attempts, BeforeAttempts
  <2>3. retries[e] < Strategy(e).retries
    BY <2>2, StrategiesRetry DEF Known, Strategy
  <2>4. /\ Attempts' /\ at' \in [Errors -> Places]
        /\ \A f \in Errors : retries'[f] > 0 => Known(f)' /\ retries'[f] <= Strategy(f).retries'
    BY <1>6, <2>1, <2>2, <2>3, MoveTyped
       DEF Decide, errorVars, Places, Returned, BeforeAttempts, Attempting
  <2> QED BY <1>0, <1>6, <2>4 DEF Decide, TInv, TypeOK, shardVars, errorVars, breakerVars, Places
<1> QED BY <1>1, <1>2, <1>3, <1>4, <1>5, <1>6

(* The attempts. *)
LEMMA RecoveryTyped ==
  ASSUME TInv, NEW e \in Errors,
         \/ BeginAttempt(e) \/ Cancelled(e) \/ FailShard(e) \/ HandlerSucceeds(e)
         \/ HandlerFails(e) \/ Failure(e) \/ Success(e)
  PROVE  TInv'
<1>0. TypeOK /\ Attempts
  BY DEF TInv
<1>1. CASE BeginAttempt(e)
  <2>1. /\ at[e] = "attempt" /\ Known(e) /\ retries[e] < Strategy(e).retries
        /\ retries[e] \in Nat
    BY <1>0, <1>1 DEF BeginAttempt, Goto, Attempts, Attempting, TypeOK
  <2>2. /\ at' = [at EXCEPT ![e] = "handling"] /\ retries' = [retries EXCEPT ![e] = @ + 1]
        /\ kind' = kind
    BY <1>1 DEF BeginAttempt, Goto
  <2>3. \A f \in Errors : (Known(f)' <=> Known(f)) /\ Strategy(f)' = Strategy(f)
    BY <2>2 DEF Known, Strategy, Type
  <2>4. Strategy(e).retries \in Nat
    BY <2>1, StrategiesRetry DEF Known, Strategy
  <2>5. /\ at' \in [Errors -> Places] /\ retries' \in [Errors -> Nat]
        /\ at'[e] = "handling" /\ retries'[e] = retries[e] + 1
        /\ \A f \in Errors \ {e} : at'[f] = at[f] /\ retries'[f] = retries[f]
    BY <1>0, <2>2 DEF TypeOK, Places
  <2>6. Attempts'
    BY <1>0, <2>1, <2>3, <2>5 DEF Attempts, BeforeAttempts, Attempting
  <2>7. \A f \in Errors : retries'[f] > 0 => Known(f)' /\ retries'[f] <= Strategy(f).retries'
    BY <1>0, <2>1, <2>3, <2>4, <2>5 DEF TypeOK
  <2> QED BY <1>0, <1>1, <2>5, <2>6, <2>7
          DEF BeginAttempt, TInv, TypeOK, shardVars, breakerVars, Places
<1>2. CASE Cancelled(e)
  <2>1. /\ Attempts' /\ at' \in [Errors -> Places]
        /\ \A f \in Errors : retries'[f] > 0 => Known(f)' /\ retries'[f] <= Strategy(f).retries'
    BY <1>2, MoveTyped
       DEF Cancelled, Goto, errorVars, Places, Returned, BeforeAttempts, Attempting
  <2> QED BY <1>0, <1>2, <2>1 DEF Cancelled, TInv, TypeOK, shardVars, errorVars, breakerVars, Places
<1>3. CASE FailShard(e)
  <2>1. phase' \in [Shards -> {"Pending", "Running", "Failed"}]
    BY <1>0, <1>3 DEF FailShard, TypeOK
  <2>2. Known(e)
    BY <1>0, <1>3 DEF FailShard, Goto, Attempts, Attempting
  <2>3. /\ Attempts' /\ at' \in [Errors -> Places]
        /\ \A f \in Errors : retries'[f] > 0 => Known(f)' /\ retries'[f] <= Strategy(f).retries'
    BY <1>3, <2>2, MoveTyped DEF FailShard, Goto, errorVars, Places, BeforeAttempts, Attempting
  <2> QED BY <1>0, <1>3, <2>1, <2>3 DEF FailShard, TInv, TypeOK, shardVars, errorVars, breakerVars, Places
<1>4. CASE HandlerSucceeds(e)
  <2>1. /\ Attempts' /\ at' \in [Errors -> Places]
        /\ \A f \in Errors : retries'[f] > 0 => Known(f)' /\ retries'[f] <= Strategy(f).retries'
    BY <1>4, MoveTyped DEF HandlerSucceeds, errorVars, Places, BeforeAttempts, Attempting
  <2> QED BY <1>0, <1>4, <2>1 DEF HandlerSucceeds, TInv, TypeOK, shardVars, errorVars, breakerVars, Places
<1>5. CASE HandlerFails(e)
  <2>1. Known(e)
    BY <1>0, <1>5 DEF HandlerFails, CanFail, Attempts, Attempting
  <2>2. /\ Attempts' /\ at' \in [Errors -> Places]
        /\ \A f \in Errors : retries'[f] > 0 => Known(f)' /\ retries'[f] <= Strategy(f).retries'
    BY <1>5, <2>1, MoveTyped DEF HandlerFails, errorVars, Places, BeforeAttempts, Attempting
  <2> QED BY <1>0, <1>5, <2>2 DEF HandlerFails, TInv, TypeOK, shardVars, errorVars, breakerVars, Places
<1>6. CASE Failure(e)
  <2>1. Known(e)
    BY <1>0, <1>6 DEF Failure, Attempts, Attempting
  <2>2. box' \in [Errors -> Breaker]
    BY <1>0, <1>6, BreakersTyped DEF Failure, TypeOK
  <2>3. PICK new \in {"attempt", "manual"} :
          /\ at' = [at EXCEPT ![e] = new]
          /\ new = "attempt" => retries[e] < Strategy(e).retries
    BY <1>6 DEF Failure
  <2>4. /\ Attempts' /\ at' \in [Errors -> Places]
        /\ \A f \in Errors : retries'[f] > 0 => Known(f)' /\ retries'[f] <= Strategy(f).retries'
    BY <1>6, <2>1, <2>3, MoveTyped
       DEF Failure, errorVars, Places, Returned, BeforeAttempts, Attempting
  <2> QED BY <1>0, <1>6, <2>2, <2>4 DEF Failure, TInv, TypeOK, shardVars, errorVars, Places
<1>7. CASE Success(e)
  <2>1. box' \in [Errors -> Breaker]
    BY <1>0, <1>7, BreakersTyped DEF Success, TypeOK
  <2>2. /\ Attempts' /\ at' \in [Errors -> Places]
        /\ \A f \in Errors : retries'[f] > 0 => Known(f)' /\ retries'[f] <= Strategy(f).retries'
    BY <1>7, MoveTyped DEF Success, Goto, errorVars, Places, BeforeAttempts, Attempting
  <2> QED BY <1>0, <1>7, <2>1, <2>2 DEF Success, TInv, TypeOK, shardVars, errorVars, Places
<1> QED BY <1>1, <1>2, <1>3, <1>4, <1>5, <1>6, <1>7

(* The end of a recovery: the active errors and the history. *)
LEMMA EndingTyped ==
  ASSUME TInv, NEW e \in Errors, RemoveActiveError(e) \/ AddToHistory(e)
  PROVE  TInv'
<1>0. TypeOK /\ Attempts
  BY DEF TInv
<1>1. CASE RemoveActiveError(e)
  <2>1. active' \in [Ids -> Errors \cup {None}]
    BY <1>0, <1>1 DEF RemoveActiveError, TypeOK
  <2>2. /\ Attempts' /\ at' \in [Errors -> Places]
        /\ \A f \in Errors : retries'[f] > 0 => Known(f)' /\ retries'[f] <= Strategy(f).retries'
    BY <1>1, MoveTyped DEF RemoveActiveError, Goto, errorVars, Places, BeforeAttempts, Attempting
  <2> QED BY <1>0, <1>1, <2>1, <2>2
          DEF RemoveActiveError, TInv, TypeOK, shardVars, errorVars, breakerVars, Places
<1>2. CASE AddToHistory(e)
  <2> DEFINE all  == Append(history, e)
             keep == Min({Len(all), MaxHistory})
  <2>1. all \in Seq(Errors) /\ Len(all) \in Nat /\ MaxHistory \in Nat
    BY <1>0, BoundsAssumption DEF TypeOK
  <2>2. keep \in Nat /\ keep <= Len(all) /\ keep <= MaxHistory
    BY <2>1, MinOfTwo
  <2>3. history' = SubSeq(all, Len(all) - keep + 1, Len(all))
    BY <1>2 DEF AddToHistory
  <2> HIDE DEF all, keep
  <2>4. history' \in Seq(Errors) /\ Len(history') = keep
    BY <2>1, <2>2, <2>3
  <2>5. /\ Attempts' /\ at' \in [Errors -> Places]
        /\ \A f \in Errors : retries'[f] > 0 => Known(f)' /\ retries'[f] <= Strategy(f).retries'
    BY <1>2, MoveTyped
       DEF AddToHistory, Goto, errorVars, Places, Returned, BeforeAttempts, Attempting
  <2> QED BY <1>0, <1>2, <2>2, <2>4, <2>5
          DEF AddToHistory, TInv, TypeOK, shardVars, errorVars, breakerVars, Places
<1> QED BY <1>1, <1>2

LEMMA TypesInductive == Spec => []TInv
<1>1. Init => TInv
  <2> SUFFICES ASSUME Init PROVE TInv
    OBVIOUS
  <2>1. /\ history \in Seq(Errors) /\ Len(history) = 0
        /\ box \in [Errors -> Breaker] /\ 0 \in 0 .. MaxSeconds
        /\ phase \in [Shards -> {"Pending", "Running", "Failed"}]
    BY BreakersTyped, BoundsAssumption DEF Init
  <2>2. TypeOK
    BY <2>1, BoundsAssumption DEF Init, TypeOK, Returned
  <2>3. Attempts
    BY DEF Init, Attempts, Attempting, BeforeAttempts
  <2> QED BY <2>2, <2>3 DEF TInv
<1>2. TInv /\ [Next]_vars => TInv'
  <2> SUFFICES ASSUME TInv, [Next]_vars PROVE TInv'
    OBVIOUS
  <2>1. CASE Next
    BY <2>1, WorldTyped, AdmissionTyped, RecoveryTyped, EndingTyped DEF Next, Proceed
  <2>2. CASE UNCHANGED vars
    BY <2>2 DEF vars, errorVars, breakerVars, shardVars, TInv, TypeOK, Attempts, Known, Strategy, Type
  <2> QED BY <2>1, <2>2
<1> QED BY <1>1, <1>2, PTL DEF Spec

(* The state of the error handler is well typed: no error is retried more  *)
(* often than its strategy allows, and the history never outgrows its      *)
(* size.                                                                   *)
THEOREM TypeCorrect == Spec => []TypeOK
<1>1. TInv => TypeOK
  BY DEF TInv
<1> QED BY <1>1, TypesInductive, PTL

----------------------------------------------------------------------------
(* The circuit breaker. *)

BelowThreshold(b) == b.state = "closed" => b.failures < Threshold

LEMMA OutcomesKeepBelow ==
  /\ BelowThreshold(NewBreaker)
  /\ \A b \in Breaker : BelowThreshold(b) => BelowThreshold(RecordFailure(b))
  /\ \A b \in Breaker : BelowThreshold(b) => BelowThreshold(RecordSuccess(b))
<1>1. BelowThreshold(NewBreaker)
  BY ThresholdAssumption DEF BelowThreshold, NewBreaker
<1>2. ASSUME NEW b \in Breaker, BelowThreshold(b) PROVE BelowThreshold(RecordFailure(b))
  <2>1. b.failures \in Nat
    BY DEF Breaker
  <2>2. CASE b.state = "half_open" \/ b.failures + 1 >= Threshold
    BY <2>2 DEF BelowThreshold, RecordFailure
  <2>3. CASE ~(b.state = "half_open" \/ b.failures + 1 >= Threshold)
    BY <2>1, <2>3, ThresholdAssumption DEF BelowThreshold, RecordFailure
  <2> QED BY <2>2, <2>3
<1>3. ASSUME NEW b \in Breaker, BelowThreshold(b) PROVE BelowThreshold(RecordSuccess(b))
  <2>1. RecordSuccess(b).failures = 0
    BY DEF RecordSuccess, Breaker
  <2> QED BY <2>1, ThresholdAssumption DEF BelowThreshold
<1> QED BY <1>1, <1>2, <1>3

(* A breaker that has seen as many failures since the last success as its  *)
(* threshold is not closed, whichever calls of HandleError share it and    *)
(* however they interleave with IsOpen's change to half open.              *)
THEOREM BreakersOpenInTime == Spec => []ClosedBelowThreshold
<1>1. Init => ClosedBelowThreshold
  BY OutcomesKeepBelow DEF Init, ClosedBelowThreshold, BelowThreshold
<1>2. TInv /\ ClosedBelowThreshold /\ [Next]_vars => ClosedBelowThreshold'
  <2> SUFFICES ASSUME TInv, ClosedBelowThreshold, [Next]_vars PROVE ClosedBelowThreshold'
    OBVIOUS
  <2>0. box \in [Errors -> Breaker] /\ \A b \in Errors : BelowThreshold(box[b])
    BY DEF TInv, TypeOK, ClosedBelowThreshold, BelowThreshold
  <2>1. CASE Tick
    <3>1. \A b \in Errors : /\ box'[b].state = box[b].state
                            /\ box'[b].failures = box[b].failures
      BY <2>0, <2>1 DEF Tick, Breaker
    <3> QED BY <2>0, <3>1 DEF ClosedBelowThreshold, BelowThreshold
  <2>2. ASSUME NEW e \in Errors, CreateBreaker(e) PROVE ClosedBelowThreshold'
    BY <2>0, <2>2, OutcomesKeepBelow DEF CreateBreaker, ClosedBelowThreshold, BelowThreshold
  <2>3. ASSUME NEW e \in Errors, HalfOpen(e) PROVE ClosedBelowThreshold'
    BY <2>0, <2>3 DEF HalfOpen, ClosedBelowThreshold, BelowThreshold, Breaker
  <2>4. ASSUME NEW e \in Errors, Failure(e) PROVE ClosedBelowThreshold'
    <3>1. \A b \in Errors : box'[b] \in {box[b], RecordFailure(box[b])}
      BY <2>0, <2>4 DEF Failure
    <3> QED BY <2>0, <3>1, OutcomesKeepBelow DEF ClosedBelowThreshold, BelowThreshold
  <2>5. ASSUME NEW e \in Errors, Success(e) PROVE ClosedBelowThreshold'
    <3>1. \A b \in Errors : box'[b] \in {box[b], RecordSuccess(box[b])}
      BY <2>0, <2>5 DEF Success
    <3> QED BY <2>0, <3>1, OutcomesKeepBelow DEF ClosedBelowThreshold, BelowThreshold
  <2>6. CASE UNCHANGED box
    BY <2>6 DEF ClosedBelowThreshold
  <2> QED BY <2>1, <2>2, <2>3, <2>4, <2>5, <2>6
          DEF Next, Proceed, HandleError, IsOpen, StoreActiveError, Decide, BeginAttempt,
              Cancelled, FailShard, HandlerSucceeds, HandlerFails, RemoveActiveError,
              AddToHistory, ShardStarts, ShardFails, ShardRecovers, CopyActive,
              ClearRecovered, vars, breakerVars
<1> QED BY <1>1, <1>2, TypesInductive, PTL DEF Spec

----------------------------------------------------------------------------
(* What the breakers count.  "retries" also has the attempt that is under  *)
(* way, which "Recorded" leaves out.  A breaker in the map was made by a   *)
(* call with its key that has come past the map, and a call that has not   *)
(* made one counts nothing.                                                *)
Arriving  == {"new", "absent"}
Succeeded == {"recovered", "removed", "done"}

Counted == [b \in Errors |-> box[b].failures]

CallsOf(k) == {e \in Errors : Key(e) = k}

Mapped ==
  /\ \A e \in Errors : at[e] \notin Arriving => breaker[Key(e)] \in Errors
  /\ \A k \in Keys : breaker[k] \in Errors =>
       Key(breaker[k]) = k /\ at[breaker[k]] \notin Arriving
  /\ \A e \in Errors : at[e] \in Arriving => box[e].failures = 0

Tried == \A e \in Errors : at[e] \in Unrecorded => retries[e] > 0

CountedOnce ==
  \A k \in Keys :
    /\ SumFunctionOnSet(Counted, CallsOf(k)) <= SumFunctionOnSet(Recorded, CallsOf(k))
    /\ (\A e \in CallsOf(k) : at[e] \notin Succeeded) =>
         SumFunctionOnSet(Counted, CallsOf(k)) = SumFunctionOnSet(Recorded, CallsOf(k))

CInv == TInv /\ Mapped /\ Tried /\ CountedOnce

LEMMA CountsTyped ==
  ASSUME TInv, Tried, NEW e \in Errors
  PROVE  Counted[e] \in Nat /\ Recorded[e] \in Nat
<1>1. box[e].failures \in Nat /\ retries[e] \in Nat /\ (at[e] \in Unrecorded => retries[e] > 0)
  BY DEF TInv, TypeOK, Tried, Breaker
<1> QED BY <1>1 DEF Counted, Recorded

LEMMA CountsTypedNext ==
  ASSUME TInv', Tried', NEW e \in Errors
  PROVE  Counted'[e] \in Nat /\ Recorded'[e] \in Nat
<1>1. /\ box'[e].failures \in Nat /\ retries'[e] \in Nat
      /\ at'[e] \in Unrecorded => retries'[e] > 0
  BY DEF TInv, TypeOK, Tried, Breaker
<1> QED BY <1>1 DEF Counted, Recorded

LEMMA CallsFinite ==
  ASSUME NEW k PROVE IsFiniteSet(CallsOf(k)) /\ CallsOf(k) \subseteq Errors
BY ErrorsAssumption, FS_Subset DEF CallsOf

(* Only a failure changes what is recorded, and by one; a call that has    *)
(* succeeded stays so, and one that has come past the map does not return. *)
LEMMA AttemptsKept ==
  ASSUME TInv, Tried, [Next]_vars
  PROVE  /\ kind' = kind
         /\ Tried'
         /\ \A e \in Errors : /\ at[e] \in Succeeded => at'[e] \in Succeeded
                              /\ at[e] \notin Arriving => at'[e] \notin Arriving
         /\ (\A e \in Errors : ~Failure(e)) => \A f \in Errors : Recorded'[f] = Recorded[f]
<1> DEFINE Kept == /\ Tried'
                   /\ \A f \in Errors : /\ at[f] \in Succeeded => at'[f] \in Succeeded
                                        /\ at[f] \notin Arriving => at'[f] \notin Arriving
           Same == \A f \in Errors : Recorded'[f] = Recorded[f]
<1>0. /\ at \in [Errors -> Places] /\ \A f \in Errors : retries[f] \in Nat
      /\ retries \in [Errors -> Nat] /\ \A f \in Errors : at[f] \in Unrecorded => retries[f] > 0
  BY DEF TInv, TypeOK, Tried, Places
<1>1. ASSUME NEW e \in Errors, NEW new, at' = [at EXCEPT ![e] = new], retries' = retries,
             at[e] \in Succeeded => new \in Succeeded,
             at[e] \notin Arriving => new \notin Arriving,
             new \in Unrecorded => at[e] \in Unrecorded
      PROVE  Kept /\ ((new \in Unrecorded <=> at[e] \in Unrecorded) => Same)
  <2>1. at'[e] = new /\ \A f \in Errors \ {e} : at'[f] = at[f]
    BY <1>0, <1>1
  <2> QED BY <1>0, <1>1, <2>1 DEF Tried, Recorded
<1>2. ASSUME NEW e \in Errors, BeginAttempt(e) PROVE Kept /\ Same
  <2>1. /\ at[e] = "attempt" /\ at'[e] = "handling" /\ retries'[e] = retries[e] + 1
        /\ \A f \in Errors \ {e} : at'[f] = at[f] /\ retries'[f] = retries[f]
    BY <1>0, <1>2 DEF BeginAttempt, Goto
  <2>2. \A f \in Errors : /\ at[f] \in Succeeded => at'[f] \in Succeeded
                          /\ at[f] \notin Arriving => at'[f] \notin Arriving
    BY <2>1 DEF Succeeded, Arriving
  <2>3. Same
    BY <1>0, <2>1 DEF Recorded, Unrecorded
  <2>4. Tried'
    BY <1>0, <2>1 DEF Tried
  <2> QED BY <2>2, <2>3, <2>4
<1>3. ASSUME UNCHANGED <<at, retries>> PROVE Kept /\ Same
  BY <1>0, <1>3 DEF Tried, Recorded
<1>4. ASSUME NEW e \in Errors,
             \/ HandleError(e) \/ CreateBreaker(e) \/ IsOpen(e) \/ HalfOpen(e)
             \/ StoreActiveError(e) \/ Decide(e) \/ Cancelled(e)
      PROVE  /\ kind' = kind /\ retries' = retries
             /\ at[e] \notin Unrecorded \cup Succeeded
             /\ \E new \in Places \ Unrecorded :
                  at' = [at EXCEPT ![e] = new] /\ (at[e] \notin Arriving => new \notin Arriving)
  BY <1>4 DEF HandleError, CreateBreaker, IsOpen, HalfOpen, StoreActiveError, Decide, Cancelled,
              Goto, errorVars, Places, Returned, Unrecorded, Succeeded, Arriving
<1>5. ASSUME NEW e \in Errors,
             \/ FailShard(e) \/ HandlerFails(e) \/ HandlerSucceeds(e) \/ Success(e)
             \/ RemoveActiveError(e) \/ AddToHistory(e)
      PROVE  /\ kind' = kind /\ retries' = retries /\ at[e] \in Unrecorded
             /\ \E new \in Unrecorded :
                  at' = [at EXCEPT ![e] = new] /\ (at[e] \in Succeeded => new \in Succeeded)
  BY <1>5 DEF FailShard, HandlerFails, HandlerSucceeds, CanSucceed, CanFail, Success,
              RemoveActiveError, AddToHistory, Goto, errorVars, Unrecorded, Succeeded
<1>6. ASSUME NEW e \in Errors, Failure(e)
      PROVE  /\ kind' = kind /\ retries' = retries /\ at[e] = "failed"
             /\ \E new \in {"attempt", "manual"} : at' = [at EXCEPT ![e] = new]
  BY <1>6 DEF Failure, errorVars
<1>7. \A x \in Unrecorded : x \notin Arriving
  BY DEF Unrecorded, Arriving
<1>8. ASSUME NEW e \in Errors, Proceed(e) \/ HandleError(e) \/ Cancelled(e)
      PROVE  kind' = kind /\ Kept /\ (~Failure(e) => Same)
  <2> HIDE DEF Kept, Same
  <2>1. CASE \/ HandleError(e) \/ CreateBreaker(e) \/ IsOpen(e) \/ HalfOpen(e)
             \/ StoreActiveError(e) \/ Decide(e) \/ Cancelled(e)
    BY <1>1, <1>4, <2>1
  <2>2. CASE \/ FailShard(e) \/ HandlerFails(e) \/ HandlerSucceeds(e) \/ Success(e)
             \/ RemoveActiveError(e) \/ AddToHistory(e)
    BY <1>1, <1>5, <1>7, <2>2
  <2>3. CASE Failure(e)
    <3>1. /\ at[e] \notin Succeeded
          /\ \A new \in {"attempt", "manual"} : new \notin Arriving /\ new \notin Unrecorded
      BY <1>6, <2>3 DEF Succeeded, Arriving, Unrecorded
    <3> QED BY <1>1, <1>6, <2>3, <3>1
  <2>4. CASE BeginAttempt(e)
    BY <1>2, <2>4 DEF BeginAttempt
  <2> QED BY <1>8, <2>1, <2>2, <2>3, <2>4 DEF Proceed
<1>9. ASSUME UNCHANGED <<at, kind, retries>> PROVE kind' = kind /\ Kept /\ Same
  BY <1>3, <1>9
<1> HIDE DEF Kept, Same
<1>10. \/ \E e \in Errors : Proceed(e) \/ HandleError(e) \/ Cancelled(e)
       \/ UNCHANGED <<at, kind, retries>>
  BY DEF Next, Tick, ShardStarts, ShardFails, ShardRecovers, CopyActive, ClearRecovered, vars,
         errorVars
<1>11. kind' = kind /\ Kept /\ ((\A e \in Errors : ~Failure(e)) => Same)
  BY <1>8, <1>9, <1>10
<1> QED BY <1>11 DEF Kept, Same

(* A breaker that is put into the map is new, and only a result changes    *)
(* what a breaker has counted.                                             *)
LEMMA OnlyResultsCount ==
  ASSUME TInv, Mapped, [Next]_vars, \A e \in Errors : ~Failure(e) /\ ~Success(e)
  PROVE  \A b \in Errors : Counted'[b] = Counted[b]
<1>0. /\ box \in [Errors -> Breaker]
      /\ \A e \in Errors : at[e] \in Arriving => box[e].failures = 0
  BY DEF TInv, TypeOK, Mapped
<1>1. SUFFICES ASSUME NEW b \in Errors PROVE box'[b].failures = box[b].failures
  BY DEF Counted
<1>2. CASE Tick
  BY <1>0, <1>2 DEF Tick, Breaker
<1>3. ASSUME NEW e \in Errors, CreateBreaker(e) PROVE box'[b].failures = box[b].failures
  BY <1>0, <1>3 DEF CreateBreaker, NewBreaker, Goto, Arriving
<1>4. ASSUME NEW e \in Errors, HalfOpen(e) PROVE box'[b].failures = box[b].failures
  BY <1>0, <1>4 DEF HalfOpen, Breaker
<1>5. CASE UNCHANGED box
  BY <1>5
<1> QED BY <1>2, <1>3, <1>4, <1>5
        DEF Next, Proceed, HandleError, IsOpen, StoreActiveError, Decide, BeginAttempt,
            Cancelled, FailShard, HandlerSucceeds, HandlerFails, RemoveActiveError,
            AddToHistory, ShardStarts, ShardFails, ShardRecovers, CopyActive, ClearRecovered,
            vars, breakerVars

(* A result changes the breaker in the map of the call's key, which is one *)
(* of the key's.                                                           *)
LEMMA ResultsCount ==
  ASSUME TInv, Mapped, NEW e \in Errors, Failure(e) \/ Success(e)
  PROVE  LET b == breaker[Key(e)] IN
         /\ b \in CallsOf(Key(e)) /\ b \in Errors /\ e \in CallsOf(Key(e))
         /\ at[e] \notin Arriving /\ at[b] \notin Arriving /\ breaker' = breaker
         /\ \A f \in Errors \ {b} : Counted'[f] = Counted[f]
         /\ Failure(e) => Counted'[b] = Counted[b] + 1
         /\ Success(e) => Counted'[b] = 0
<1> DEFINE b == breaker[Key(e)]
<1>0. box \in [Errors -> Breaker] /\ Key(e) \in Keys
  BY DEF TInv, TypeOK, Keys, Key
<1>1. at[e] \in {"failed", "succeeded"} /\ breaker' = breaker
  BY DEF Failure, Success, Goto
<1>2. b \in Errors /\ Key(b) = Key(e) /\ at[e] \notin Arriving /\ at[b] \notin Arriving
  BY <1>0, <1>1 DEF Mapped, Arriving
<1>3. CASE Failure(e)
  <2>1. box' = [box EXCEPT ![b] = RecordFailure(@)]
    BY <1>3 DEF Failure
  <2>2. RecordFailure(box[b]).failures = box[b].failures + 1
    BY DEF RecordFailure
  <2>3. /\ \A f \in Errors \ {b} : Counted'[f] = Counted[f]
        /\ Counted'[b] = Counted[b] + 1
    <3> HIDE DEF b
    <3> QED BY <1>0, <1>2, <2>1, <2>2 DEF Counted
  <2>4. ~Success(e)
    BY <1>3 DEF Failure, Success, Goto
  <2> QED BY <1>1, <1>2, <2>3, <2>4 DEF CallsOf
<1>4. CASE Success(e)
  <2>1. box' = [box EXCEPT ![b] = RecordSuccess(@)]
    BY <1>4 DEF Success
  <2>2. RecordSuccess(box[b]).failures = 0
    BY <1>0, <1>2 DEF RecordSuccess, Breaker
  <2>3. /\ \A f \in Errors \ {b} : Counted'[f] = Counted[f]
        /\ Counted'[b] = 0
    <3> HIDE DEF b
    <3> QED BY <1>0, <1>2, <2>1, <2>2 DEF Counted
  <2>4. ~Failure(e)
    BY <1>4 DEF Failure, Success, Goto
  <2> QED BY <1>1, <1>2, <2>3, <2>4 DEF CallsOf
<1> QED BY <1>3, <1>4

LEMMA MappedKept ==
  ASSUME TInv, Mapped, Tried, [Next]_vars
  PROVE  Mapped'
<1>0. /\ breaker \in [Keys -> Errors \cup {None}] /\ None \notin Errors
      /\ at \in [Errors -> Places] /\ \A e \in Errors : Key(e) \in Keys
  BY ErrorsAssumption DEF TInv, TypeOK, Keys, Key, Places
<1>1. /\ kind' = kind
      /\ \A e \in Errors : at[e] \notin Arriving => at'[e] \notin Arriving
  BY AttemptsKept
<1>2. \A e \in Errors : at'[e] \in Arriving => box'[e].failures = 0
  <2>1. ASSUME NEW e \in Errors, at'[e] \in Arriving, \A f \in Errors : ~Failure(f) /\ ~Success(f)
        PROVE  box'[e].failures = 0
    <3>1. at[e] \in Arriving /\ Counted'[e] = Counted[e]
      BY <1>1, <2>1, OnlyResultsCount
    <3> QED BY <3>1 DEF Counted, Mapped
  <2>2. ASSUME NEW e \in Errors, at'[e] \in Arriving, NEW f \in Errors, Failure(f) \/ Success(f)
        PROVE  box'[e].failures = 0
    <3>1. at[e] \in Arriving
      BY <1>1, <2>2
    <3>2. Counted'[e] = Counted[e]
      BY <2>2, <3>1, ResultsCount
    <3> QED BY <3>1, <3>2 DEF Counted, Mapped
  <2> QED BY <2>1, <2>2
<1>3. ASSUME NEW e \in Errors, CreateBreaker(e) PROVE Mapped'
  <2>1. breaker' = [breaker EXCEPT ![Key(e)] = e] /\ at' = [at EXCEPT ![e] = "lookedUp"]
    BY <1>3 DEF CreateBreaker, Goto
  <2>2. at'[e] \notin Arriving
    BY <1>0, <2>1 DEF Arriving
  <2>3. ASSUME NEW f \in Errors, at'[f] \notin Arriving PROVE breaker'[Key(f)] \in Errors
    <3>1. CASE Key(f) = Key(e)
      BY <1>0, <2>1, <3>1
    <3>2. CASE Key(f) # Key(e)
      <4>1. at[f] \notin Arriving
        BY <1>0, <2>1, <2>3, <3>2
      <4> QED BY <1>0, <2>1, <3>2, <4>1 DEF Mapped
    <3> QED BY <3>1, <3>2
  <2>4. ASSUME NEW k \in Keys, breaker'[k] \in Errors
        PROVE  Key(breaker'[k]) = k /\ at'[breaker'[k]] \notin Arriving
    <3>1. CASE k = Key(e)
      BY <1>0, <2>1, <2>2, <3>1
    <3>2. CASE k # Key(e)
      BY <1>0, <1>1, <2>1, <2>4, <3>2 DEF Mapped
    <3> QED BY <3>1, <3>2
  <2> QED BY <1>1, <1>2, <2>3, <2>4 DEF Mapped, Key
<1>4. ASSUME UNCHANGED breaker,
             \A e \in Errors : at'[e] \notin Arriving /\ at[e] \in Arriving =>
                                 breaker[Key(e)] \in Errors
      PROVE  Mapped'
  <2>1. \A f \in Errors : at'[f] \notin Arriving => breaker'[Key(f)] \in Errors
    BY <1>1, <1>4 DEF Mapped
  <2>2. \A k \in Keys : breaker'[k] \in Errors =>
          Key(breaker'[k]) = k /\ at'[breaker'[k]] \notin Arriving
    BY <1>1, <1>4 DEF Mapped
  <2> QED BY <1>1, <1>2, <2>1, <2>2 DEF Mapped, Key
<1>5. ASSUME NEW e \in Errors, HandleError(e) PROVE Mapped'
  <2>1. /\ UNCHANGED breaker
        /\ at' = [at EXCEPT ![e] = IF breaker[Key(e)] = None THEN "absent" ELSE "lookedUp"]
    BY <1>5 DEF HandleError
  <2>2. ASSUME NEW f \in Errors, at'[f] \notin Arriving, at[f] \in Arriving
        PROVE  breaker[Key(f)] \in Errors
    <3>1. f = e /\ breaker[Key(e)] # None
      BY <1>0, <2>1, <2>2 DEF Arriving
    <3> QED BY <1>0, <3>1
  <2> QED BY <1>4, <2>1, <2>2
<1>6. ASSUME NEW e \in Errors, at[e] \notin Arriving, UNCHANGED breaker,
             \E new : at' = [at EXCEPT ![e] = new]
      PROVE  Mapped'
  BY <1>0, <1>4, <1>6
<1>7. CASE UNCHANGED <<at, breaker>>
  BY <1>4, <1>7
<1>8. ASSUME NEW e \in Errors, Proceed(e) \/ Cancelled(e), ~CreateBreaker(e) PROVE Mapped'
  <2>1. UNCHANGED breaker /\ at[e] \notin Arriving
    BY <1>8 DEF Proceed, IsOpen, HalfOpen, StoreActiveError, Decide, BeginAttempt, Cancelled,
                FailShard, HandlerSucceeds, HandlerFails, CanSucceed, CanFail, Failure, Success,
                RemoveActiveError, AddToHistory, Goto, breakerVars, Arriving
  <2>2. \E new : at' = [at EXCEPT ![e] = new]
    BY <1>8 DEF Proceed, IsOpen, HalfOpen, StoreActiveError, Decide, BeginAttempt, Cancelled,
                FailShard, HandlerSucceeds, HandlerFails, Failure, Success,
                RemoveActiveError, AddToHistory, Goto
  <2> QED BY <1>6, <2>1, <2>2
<1> QED BY <1>3, <1>5, <1>7, <1>8
        DEF Next, Tick, ShardStarts, ShardFails, ShardRecovers, CopyActive, ClearRecovered,
            vars, breakerVars

(* No breaker of k counts anything and no attempt of its calls is recorded. *)
LEMMA CountsKept ==
  ASSUME TInv, Tried, CountedOnce, [Next]_vars, NEW k \in Keys,
         \A f \in CallsOf(k) : Counted'[f] = Counted[f] /\ Recorded'[f] = Recorded[f]
  PROVE  /\ SumFunctionOnSet(Counted', CallsOf(k)) <= SumFunctionOnSet(Recorded', CallsOf(k))
         /\ (\A e \in CallsOf(k) : at'[e] \notin Succeeded) =>
              SumFunctionOnSet(Counted', CallsOf(k)) = SumFunctionOnSet(Recorded', CallsOf(k))
<1>1. /\ SumFunctionOnSet(Counted', CallsOf(k)) = SumFunctionOnSet(Counted, CallsOf(k))
      /\ SumFunctionOnSet(Recorded', CallsOf(k)) = SumFunctionOnSet(Recorded, CallsOf(k))
  BY CallsFinite, SumEqual
<1>2. \A e \in CallsOf(k) : at[e] \in Succeeded => at'[e] \in Succeeded
  BY AttemptsKept, CallsFinite
<1> QED BY <1>1, <1>2 DEF CountedOnce

(* The breaker of the call counts its failure, when the call records it.   *)
LEMMA FailureCountedOnce ==
  ASSUME TInv, Mapped, Tried, CountedOnce, TInv', Tried', [Next]_vars,
         NEW e \in Errors, Failure(e)
  PROVE  CountedOnce'
<1> DEFINE b == breaker[Key(e)]
           Sum(g, k) == SumFunctionOnSet(g, CallsOf(k))
<1>0. /\ kind' = kind /\ retries' = retries /\ at[e] = "failed"
      /\ at'[e] \in {"attempt", "manual"} /\ \A f \in Errors \ {e} : at'[f] = at[f]
  BY DEF TInv, TypeOK, Failure, errorVars
<1>1. \A f \in Errors : retries[f] \in Nat
  BY DEF TInv, TypeOK
<1>2. Recorded'[e] = Recorded[e] + 1 /\ \A f \in Errors \ {e} : Recorded'[f] = Recorded[f]
  BY <1>0, <1>1 DEF Recorded, Unrecorded
<1>3. /\ b \in CallsOf(Key(e)) /\ b \in Errors /\ e \in CallsOf(Key(e))
      /\ \A f \in Errors \ {b} : Counted'[f] = Counted[f]
      /\ Counted'[b] = Counted[b] + 1
  BY ResultsCount
<1>4. \A f \in Errors : /\ Counted[f] \in Nat /\ Recorded[f] \in Nat
                        /\ Counted'[f] \in Nat /\ Recorded'[f] \in Nat
  BY CountsTyped, CountsTypedNext
<1> SUFFICES ASSUME NEW k \in Keys
             PROVE  /\ Sum(Counted', k) <= Sum(Recorded', k)
                    /\ (\A f \in CallsOf(k) : at'[f] \notin Succeeded) =>
                         Sum(Counted', k) = Sum(Recorded', k)
  BY <1>0 DEF CountedOnce, CallsOf, Key
<1>5. IsFiniteSet(CallsOf(k)) /\ CallsOf(k) \subseteq Errors
  BY CallsFinite
<1>6. /\ Sum(Counted, k) <= Sum(Recorded, k)
      /\ (\A f \in CallsOf(k) : at[f] \notin Succeeded) => Sum(Counted, k) = Sum(Recorded, k)
  BY DEF CountedOnce
<1>7. \A f \in CallsOf(k) : at[f] \in Succeeded => at'[f] \in Succeeded
  BY <1>5, AttemptsKept
<1>8. CASE k = Key(e)
  <2> HIDE DEF b
  <2>1. b \in CallsOf(k) /\ e \in CallsOf(k)
    BY <1>3, <1>8
  <2>2. Sum(Counted', k) + Counted[b] = Sum(Counted, k) + Counted'[b]
    BY <1>3, <1>4, <1>5, <2>1, SumChange
  <2>3. Sum(Recorded', k) + Recorded[e] = Sum(Recorded, k) + Recorded'[e]
    BY <1>2, <1>4, <1>5, <2>1, SumChange
  <2>4. /\ Sum(Counted, k) \in Nat /\ Sum(Recorded, k) \in Nat
        /\ Sum(Counted', k) \in Nat /\ Sum(Recorded', k) \in Nat
    BY <1>4, <1>5, SumNat
  <2>5. /\ Counted[b] \in Nat /\ Counted'[b] = Counted[b] + 1
        /\ Recorded[e] \in Nat /\ Recorded'[e] = Recorded[e] + 1
    BY <1>2, <1>3, <1>4
  <2> HIDE DEF Sum
  <2>6. Sum(Counted', k) = Sum(Counted, k) + 1 /\ Sum(Recorded', k) = Sum(Recorded, k) + 1
    BY <2>2, <2>3, <2>4, <2>5
  <2> QED BY <1>6, <1>7, <2>4, <2>6
<1>9. CASE k # Key(e)
  <2>1. b \notin CallsOf(k) /\ e \notin CallsOf(k)
    BY <1>3, <1>9 DEF CallsOf
  <2>2. \A f \in CallsOf(k) : Counted'[f] = Counted[f] /\ Recorded'[f] = Recorded[f]
    <3> HIDE DEF b
    <3> QED BY <1>2, <1>3, <1>5, <2>1
  <2> QED BY <2>2, CountsKept
<1> QED BY <1>8, <1>9

(* A success takes counts back, and from then on the calls of its key hold *)
(* one that has succeeded.                                                 *)
LEMMA SuccessTakesBack ==
  ASSUME TInv, Mapped, Tried, CountedOnce, TInv', Tried', [Next]_vars,
         NEW e \in Errors, Success(e)
  PROVE  CountedOnce'
<1> DEFINE b == breaker[Key(e)]
           Sum(g, k) == SumFunctionOnSet(g, CallsOf(k))
<1>0. kind' = kind /\ at'[e] \in Succeeded
  BY DEF TInv, TypeOK, Success, Goto, errorVars, Succeeded
<1>2. \A f \in Errors : Recorded'[f] = Recorded[f]
  <2>1. at[e] \in Unrecorded /\ at'[e] \in Unrecorded /\ retries' = retries
        /\ \A f \in Errors \ {e} : at'[f] = at[f]
    BY DEF TInv, TypeOK, Success, Goto, errorVars, Unrecorded
  <2> QED BY <2>1 DEF Recorded
<1>3. /\ b \in CallsOf(Key(e)) /\ b \in Errors /\ e \in CallsOf(Key(e))
      /\ \A f \in Errors \ {b} : Counted'[f] = Counted[f]
      /\ Counted'[b] = 0
  BY ResultsCount
<1>4. \A f \in Errors : /\ Counted[f] \in Nat /\ Recorded[f] \in Nat
                        /\ Counted'[f] \in Nat /\ Recorded'[f] \in Nat
  BY CountsTyped, CountsTypedNext
<1> SUFFICES ASSUME NEW k \in Keys
             PROVE  /\ Sum(Counted', k) <= Sum(Recorded', k)
                    /\ (\A f \in CallsOf(k) : at'[f] \notin Succeeded) =>
                         Sum(Counted', k) = Sum(Recorded', k)
  BY <1>0 DEF CountedOnce, CallsOf, Key
<1>5. IsFiniteSet(CallsOf(k)) /\ CallsOf(k) \subseteq Errors
  BY CallsFinite
<1>8. CASE k = Key(e)
  <2>1. \A f \in CallsOf(k) : Counted'[f] <= Counted[f]
    <3> HIDE DEF b
    <3> QED BY <1>3, <1>4, <1>5
  <2>2. Sum(Counted', k) <= Sum(Counted, k)
    BY <1>4, <1>5, <2>1, SumLeq
  <2>3. Sum(Recorded', k) = Sum(Recorded, k) /\ Sum(Counted, k) <= Sum(Recorded, k)
    BY <1>2, <1>5, SumEqual DEF CountedOnce
  <2>4. Sum(Counted, k) \in Nat /\ Sum(Recorded, k) \in Nat /\ Sum(Counted', k) \in Nat
    BY <1>4, <1>5, SumNat
  <2>5. \E f \in CallsOf(k) : at'[f] \in Succeeded
    BY <1>0, <1>3, <1>8
  <2> HIDE DEF Sum
  <2> QED BY <2>2, <2>3, <2>4, <2>5
<1>9. CASE k # Key(e)
  <2>1. b \notin CallsOf(k)
    BY <1>3, <1>9 DEF CallsOf
  <2>2. \A f \in CallsOf(k) : Counted'[f] = Counted[f] /\ Recorded'[f] = Recorded[f]
    <3> HIDE DEF b
    <3> QED BY <1>2, <1>3, <1>5, <2>1
  <2> QED BY <2>2, CountsKept
<1> QED BY <1>8, <1>9

LEMMA CountsInductive == Spec => []CInv
<1>1. Init /\ TInv => Mapped /\ Tried /\ CountedOnce
  <2> SUFFICES ASSUME Init, TInv PROVE Mapped /\ Tried /\ CountedOnce
    OBVIOUS
  <2>1. Mapped /\ Tried
    BY ErrorsAssumption DEF Init, Mapped, Tried, Unrecorded, Arriving, NewBreaker
  <2>2. \A e \in Errors : Counted[e] = 0 /\ Recorded[e] = 0
    BY DEF Init, Counted, Recorded, NewBreaker, Unrecorded
  <2>3. ASSUME NEW k \in Keys
        PROVE  /\ SumFunctionOnSet(Counted, CallsOf(k)) = SumFunctionOnSet(Recorded, CallsOf(k))
               /\ SumFunctionOnSet(Counted, CallsOf(k)) <= SumFunctionOnSet(Recorded, CallsOf(k))
    BY <2>2, CallsFinite, SumEqual, SumLeq
  <2> QED BY <2>1, <2>3 DEF CountedOnce
<1>2. CInv /\ TInv' /\ [Next]_vars => CInv'
  <2> SUFFICES ASSUME CInv, TInv', [Next]_vars PROVE CInv'
    OBVIOUS
  <2>1. TInv /\ Mapped /\ Tried /\ CountedOnce
    BY DEF CInv
  <2>2. kind' = kind /\ Tried' /\ Mapped'
    BY <2>1, AttemptsKept, MappedKept
  <2>4. ASSUME NEW e \in Errors, Failure(e) PROVE CountedOnce'
    BY <2>1, <2>2, <2>4, FailureCountedOnce
  <2>5. ASSUME NEW e \in Errors, Success(e) PROVE CountedOnce'
    BY <2>1, <2>2, <2>5, SuccessTakesBack
  <2>6. ASSUME \A e \in Errors : ~Failure(e) /\ ~Success(e) PROVE CountedOnce'
    <3>1. \A f \in Errors : Counted'[f] = Counted[f] /\ Recorded'[f] = Recorded[f]
      BY <2>1, <2>6, AttemptsKept, OnlyResultsCount
    <3>2. ASSUME NEW k \in Keys
          PROVE  /\ SumFunctionOnSet(Counted', CallsOf(k)) <= SumFunctionOnSet(Recorded', CallsOf(k))
                 /\ (\A e \in CallsOf(k) : at'[e] \notin Succeeded) =>
                      SumFunctionOnSet(Counted', CallsOf(k)) = SumFunctionOnSet(Recorded', CallsOf(k))
      BY <2>1, <3>1, CallsFinite, CountsKept
    <3> QED BY <2>2, <3>2 DEF CountedOnce, CallsOf, Key
  <2> QED BY <2>2, <2>4, <2>5, <2>6 DEF CInv
<1>3. TInv /\ Mapped /\ Tried /\ CountedOnce => CInv
  BY DEF CInv
<1> QED BY <1>1, <1>2, <1>3, TypesInductive, PTL DEF Spec

(* Every failed attempt is counted, once and by a breaker of its own       *)
(* component and type, even when two calls made a breaker each or several  *)
(* share a half-open one; until a call of the key succeeds nothing is      *)
(* forgotten, and nothing else is ever counted.                            *)
THEOREM FailuresCounted == Spec => []EveryFailureCounted
<1>1. CInv => EveryFailureCounted
  BY DEF CInv, CountedOnce, EveryFailureCounted, Counted, CallsOf, Succeeded
<1> QED BY <1>1, CountsInductive, PTL

----------------------------------------------------------------------------
(* The active errors.  An entry of the map was stored under its own id;    *)
(* what OnShardRecovered still has to remove was the id of an error of the *)
(* shard, although by now another error may be there.                      *)
OwnId ==
  \A id \in Ids : \A e \in Errors : active[id] = e => at[e] # "new" /\ Id(e) = id

WasOfShard ==
  \A s \in Shards : \A id \in clearing[s] :
    \E f \in Errors : at[f] # "new" /\ Id(f) = id /\ Shard(f) = s

AInv == TInv /\ OwnId /\ WasOfShard

(* Errors that were handed in keep their id. *)
LEMMA IdsStay ==
  ASSUME TInv, [Next]_vars
  PROVE  \A f \in Errors : at[f] # "new" =>
           at'[f] # "new" /\ Id(f)' = Id(f) /\ Shard(f)' = Shard(f)
<1>1. kind' = kind
  BY DEF Next, Tick, HandleError, Proceed, CreateBreaker, IsOpen, HalfOpen, StoreActiveError,
         Decide, BeginAttempt, Cancelled, FailShard, HandlerSucceeds, HandlerFails, Failure,
         Success, RemoveActiveError, AddToHistory, ShardStarts, ShardFails, ShardRecovers,
         CopyActive, ClearRecovered, vars, errorVars
<1>2. ASSUME NEW f \in Errors, at[f] # "new" PROVE at'[f] # "new" /\ stamp'[f] = stamp[f]
  <2>0. at \in [Errors -> Places] /\ stamp \in [Errors -> 0 .. MaxSeconds]
    BY DEF TInv, TypeOK, Places
  <2>1. ASSUME NEW e \in Errors, HandleError(e) PROVE at'[f] # "new" /\ stamp'[f] = stamp[f]
    BY <1>2, <2>0, <2>1 DEF HandleError
  <2>2. ASSUME NEW e \in Errors, Proceed(e) \/ Cancelled(e)
        PROVE  at'[f] # "new" /\ stamp'[f] = stamp[f]
    <3>1. stamp' = stamp
      BY <2>2 DEF Proceed, CreateBreaker, IsOpen, HalfOpen, StoreActiveError, Decide,
                  BeginAttempt, Cancelled, FailShard, HandlerSucceeds, HandlerFails, Failure,
                  Success, RemoveActiveError, AddToHistory, errorVars
    <3>2. \E new : new # "new" /\ at' = [at EXCEPT ![e] = new]
      BY <2>2 DEF Proceed, CreateBreaker, IsOpen, HalfOpen, StoreActiveError, Decide,
                  BeginAttempt, Cancelled, FailShard, HandlerSucceeds, HandlerFails, Failure,
                  Success, RemoveActiveError, AddToHistory, Goto
    <3> QED BY <1>2, <2>0, <3>1, <3>2
  <2>3. CASE UNCHANGED <<at, stamp>>
    BY <1>2, <2>3
  <2> QED BY <2>1, <2>2, <2>3
          DEF Next, Tick, ShardStarts, ShardFails, ShardRecovers, CopyActive,
              ClearRecovered, vars, errorVars
<1> QED BY <1>1, <1>2 DEF Id, Key, Shard

LEMMA ActiveInductive == Spec => []AInv
<1>1. Init => OwnId /\ WasOfShard
  BY ErrorsAssumption DEF Init, OwnId, WasOfShard
<1>2. AInv /\ TInv' /\ [Next]_vars => AInv'
  <2> SUFFICES ASSUME AInv, TInv', [Next]_vars PROVE OwnId' /\ WasOfShard'
    BY DEF AInv
  <2>0. TInv /\ OwnId /\ WasOfShard /\ active \in [Ids -> Errors \cup {None}]
        /\ clearing \in [Shards -> SUBSET Ids] /\ None \notin Errors
    BY ErrorsAssumption DEF AInv, TInv, TypeOK
  <2>1. ASSUME \A id \in Ids : active'[id] \in {active[id], None} PROVE OwnId'
    <3> SUFFICES ASSUME NEW id \in Ids, NEW e \in Errors, active'[id] = e
                 PROVE  at'[e] # "new" /\ Id(e)' = id
      BY DEF OwnId
    <3>1. active[id] = e /\ at[e] # "new" /\ Id(e) = id
      BY <2>0, <2>1 DEF OwnId
    <3> QED BY <2>0, <3>1, IdsStay
  <2>2. ASSUME \A s \in Shards : clearing'[s] \subseteq clearing[s] PROVE WasOfShard'
    <3> SUFFICES ASSUME NEW s \in Shards, NEW id \in clearing'[s]
                 PROVE  \E f \in Errors : at'[f] # "new" /\ Id(f)' = id /\ Shard(f)' = s
      BY DEF WasOfShard
    <3>1. PICK f \in Errors : at[f] # "new" /\ Id(f) = id /\ Shard(f) = s
      BY <2>0, <2>2 DEF WasOfShard
    <3> QED BY <2>0, <3>1, IdsStay
  <2>3. ASSUME NEW e \in Errors, StoreActiveError(e) PROVE OwnId' /\ WasOfShard'
    <3>1. at[e] # "new" /\ UNCHANGED clearing
      BY <2>3 DEF StoreActiveError, shardVars
    <3>2. \A id \in Ids : active'[id] \in {active[id], None} \/ (id = Id(e) /\ active'[id] = e)
      BY <2>0, <2>3 DEF StoreActiveError
    <3>3. at'[e] # "new" /\ Id(e)' = Id(e)
      BY <2>0, <3>1, IdsStay
    <3>4. ASSUME NEW id \in Ids, NEW f \in Errors, active'[id] = f
          PROVE  at'[f] # "new" /\ Id(f)' = id
      <4>1. CASE active[id] = f
        BY <2>0, <4>1, IdsStay DEF OwnId
      <4>2. CASE active[id] # f
        BY <2>0, <3>2, <3>3, <3>4, <4>2
      <4> QED BY <4>1, <4>2
    <3>5. OwnId'
      BY <3>4 DEF OwnId
    <3> QED BY <2>2, <3>1, <3>5
  <2>4. ASSUME NEW e \in Errors, RemoveActiveError(e) PROVE OwnId' /\ WasOfShard'
    <3>1. UNCHANGED clearing /\ \A id \in Ids : active'[id] \in {active[id], None}
      BY <2>0, <2>4 DEF RemoveActiveError, shardVars
    <3> QED BY <2>1, <2>2, <3>1
  <2>5. ASSUME NEW s \in Shards, CopyActive(s) PROVE OwnId' /\ WasOfShard'
    <3>1. UNCHANGED <<active, at>>
      BY <2>5 DEF CopyActive
    <3>2. OwnId'
      BY <2>1, <3>1
    <3>3. ASSUME NEW t \in Shards, NEW id \in clearing'[t]
          PROVE  \E f \in Errors : at'[f] # "new" /\ Id(f)' = id /\ Shard(f)' = t
      <4>1. CASE t = s
        <5>1. id \in Ids /\ active[id] # None /\ Shard(active[id]) = t
          BY <2>0, <2>5, <3>3, <4>1 DEF CopyActive
        <5>2. active[id] \in Errors /\ at[active[id]] # "new" /\ Id(active[id]) = id
          BY <2>0, <5>1 DEF OwnId
        <5> QED BY <2>0, <5>1, <5>2, IdsStay
      <4>2. CASE t # s
        <5>1. id \in clearing[t]
          BY <2>0, <2>5, <3>3, <4>2 DEF CopyActive
        <5>2. PICK f \in Errors : at[f] # "new" /\ Id(f) = id /\ Shard(f) = t
          BY <2>0, <5>1 DEF WasOfShard
        <5> QED BY <2>0, <5>2, IdsStay
      <4> QED BY <4>1, <4>2
    <3> QED BY <3>2, <3>3 DEF WasOfShard
  <2>6. ASSUME NEW s \in Shards, ClearRecovered(s) PROVE OwnId' /\ WasOfShard'
    <3>1. /\ \A id \in Ids : active'[id] \in {active[id], None}
          /\ \A t \in Shards : clearing'[t] \subseteq clearing[t]
      BY <2>0, <2>6 DEF ClearRecovered
    <3> QED BY <2>1, <2>2, <3>1
  <2>7. CASE UNCHANGED <<active, clearing>>
    BY <2>1, <2>2, <2>7
  <2> QED BY <2>3, <2>4, <2>5, <2>6, <2>7
          DEF Next, Tick, HandleError, Proceed, CreateBreaker, IsOpen, HalfOpen, Decide,
              BeginAttempt, Cancelled, FailShard, HandlerSucceeds, HandlerFails, Failure,
              Success, AddToHistory, ShardStarts, ShardFails, ShardRecovers, vars, shardVars
<1>3. TInv /\ OwnId /\ WasOfShard => AInv
  BY DEF AInv
<1> QED BY <1>1, <1>2, <1>3, TypesInductive, PTL DEF Spec

(* An active error leaves the map only by the hand of a call that          *)
(* recovered and has its id, or because the shard of an error with its id  *)
(* recovered; an error whose id is its own therefore never leaves for the  *)
(* sake of another error or another shard.                                 *)
THEOREM ErrorsDropLawfully == Spec => DropsOnlyRecovered
<1> DEFINE Lawful ==
      \A id \in Ids :
        active[id] # None /\ active'[id] = None =>
          \/ \E f \in Errors : Id(f) = id /\ at[f] = "recovered" /\ at'[f] = "removed"
          \/ \E s \in Shards :
               /\ id \in clearing[s] \ clearing'[s]
               /\ \E f \in Errors : Id(f) = id /\ Shard(f) = s
<1>1. ASSUME AInv, [Next]_vars PROVE Lawful
  <2> SUFFICES ASSUME NEW id \in Ids, active[id] # None, active'[id] = None
               PROVE  \/ \E f \in Errors : Id(f) = id /\ at[f] = "recovered" /\ at'[f] = "removed"
                      \/ \E s \in Shards :
                           /\ id \in clearing[s] \ clearing'[s]
                           /\ \E f \in Errors : Id(f) = id /\ Shard(f) = s
    OBVIOUS
  <2>0. /\ active \in [Ids -> Errors \cup {None}] /\ at \in [Errors -> Places]
        /\ clearing \in [Shards -> SUBSET Ids]
    BY <1>1 DEF AInv, TInv, TypeOK, Places
  <2>1. ASSUME NEW f \in Errors, RemoveActiveError(f)
        PROVE  Id(f) = id /\ at[f] = "recovered" /\ at'[f] = "removed"
    BY <2>0, <2>1 DEF RemoveActiveError, Goto
  <2>2. ASSUME NEW s \in Shards, ClearRecovered(s)
        PROVE  /\ id \in clearing[s] \ clearing'[s]
               /\ \E f \in Errors : Id(f) = id /\ Shard(f) = s
    <3>1. id \in clearing[s] \ clearing'[s]
      BY <2>0, <2>2 DEF ClearRecovered
    <3> QED BY <1>1, <3>1 DEF AInv, WasOfShard
  <2>3. ASSUME NEW f \in Errors, StoreActiveError(f) PROVE FALSE
    BY <2>0, <2>3, ErrorsAssumption DEF StoreActiveError
  <2>4. CASE UNCHANGED active
    BY <2>4
  <2> QED BY <1>1, <2>1, <2>2, <2>3, <2>4
          DEF Next, Tick, HandleError, Proceed, CreateBreaker, IsOpen, HalfOpen, Decide,
              BeginAttempt, Cancelled, FailShard, HandlerSucceeds, HandlerFails, Failure,
              Success, AddToHistory, ShardStarts, ShardFails, ShardRecovers, CopyActive, vars
<1>2. AInv /\ [Next]_vars => [Lawful]_vars
  BY <1>1
<1> QED BY <1>1, ActiveInductive, PTL DEF Spec, DropsOnlyRecovered
=============================================================================
