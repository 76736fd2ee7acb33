------------------------ MODULE WorkerProcessProofs ------------------------
(***************************************************************************)
(* Proofs about WorkerProcess for every set of resources and callers and   *)
(* every capacity of the two channels.                                     *)
(***************************************************************************)
EXTENDS WorkerProcess, FiniteSetTheorems, TLAPS

(* No element occurs twice. *)
Distinct(s) == \A i, j \in 1..Len(s) : s[i] = s[j] => i = j

(* What Append and Tail do to the elements of a queue without repetitions. *)
LEMMA AppendElements ==
  ASSUME NEW S, NEW s \in Seq(S), NEW e \in S
  PROVE  /\ Append(s, e) \in Seq(S) /\ Len(Append(s, e)) = Len(s) + 1
         /\ ToSet(Append(s, e)) = ToSet(s) \cup {e}
         /\ Distinct(s) /\ e \notin ToSet(s) => Distinct(Append(s, e))
<1> DEFINE t == Append(s, e)
<1>1. /\ t \in Seq(S) /\ Len(t) = Len(s) + 1 /\ Len(s) \in Nat
      /\ DOMAIN t = 1..Len(s) + 1 /\ DOMAIN s = 1..Len(s)
  OBVIOUS
<1>2. /\ \A i \in 1..Len(s) : t[i] = s[i]
      /\ t[Len(s) + 1] = e
  OBVIOUS
<1> HIDE DEF t
<1>3. 1..Len(s) + 1 = 1..Len(s) \cup {Len(s) + 1}
  BY <1>1
<1>4. ToSet(t) = ToSet(s) \cup {e}
  BY <1>1, <1>2, <1>3 DEF ToSet
<1>5. ASSUME Distinct(s), e \notin ToSet(s) PROVE Distinct(t)
  <2>1. \A i \in 1..Len(s) : t[i] # t[Len(s) + 1]
    BY <1>1, <1>2, <1>5 DEF ToSet
  <2>2. \A i, j \in 1..Len(s) : t[i] = t[j] => i = j
    BY <1>2, <1>5 DEF Distinct
  <2> QED BY <1>1, <1>3, <2>1, <2>2 DEF Distinct
<1> QED BY <1>1, <1>4, <1>5 DEF t

LEMMA TailElements ==
  ASSUME NEW S, NEW s \in Seq(S), s # <<>>
  PROVE  /\ Head(s) \in S /\ Tail(s) \in Seq(S) /\ Len(Tail(s)) = Len(s) - 1
         /\ ToSet(s) = ToSet(Tail(s)) \cup {Head(s)}
         /\ Distinct(s) => Distinct(Tail(s)) /\ Head(s) \notin ToSet(Tail(s))
<1> DEFINE t == Tail(s)
<1>1. /\ Len(s) \in Nat \ {0} /\ t \in Seq(S) /\ Len(t) = Len(s) - 1
      /\ DOMAIN t = 1..Len(s) - 1 /\ DOMAIN s = 1..Len(s)
      /\ Head(s) = s[1] /\ s[1] \in S
  OBVIOUS
<1>2. \A i \in 1..Len(s) - 1 : t[i] = s[i + 1]
  OBVIOUS
<1> HIDE DEF t
<1>3. ASSUME NEW x \in ToSet(s) PROVE x \in ToSet(t) \cup {Head(s)}
  <2>1. PICK i \in 1..Len(s) : x = s[i]
    BY <1>1 DEF ToSet
  <2>2. CASE i = 1
    BY <1>1, <2>1, <2>2
  <2>3. CASE i # 1
    <3>1. i - 1 \in 1..Len(s) - 1 /\ (i - 1) + 1 = i
      BY <1>1, <2>3
    <3>2. t[i - 1] = x
      BY <1>2, <2>1, <3>1
    <3> QED BY <1>1, <3>1, <3>2 DEF ToSet
  <2> QED BY <2>2, <2>3
<1>4. ASSUME NEW x \in ToSet(t) \cup {Head(s)} PROVE x \in ToSet(s)
  BY <1>1, <1>2 DEF ToSet
<1>5. ASSUME Distinct(s) PROVE Distinct(t) /\ Head(s) \notin ToSet(t)
  BY <1>1, <1>2, <1>5 DEF Distinct, ToSet
<1> QED BY <1>1, <1>3, <1>4, <1>5 DEF t

(* A sequence without repetitions is as long as its set of elements is     *)
(* large.                                                                  *)
LEMMA DistinctLength ==
  ASSUME NEW S, NEW s \in Seq(S), Distinct(s)
  PROVE  Len(s) = Cardinality(ToSet(s))
<1>1. Len(s) \in Nat /\ DOMAIN s = 1..Len(s) /\ s \in [1..Len(s) -> ToSet(s)]
  BY DEF ToSet
<1>2. s \in Bijection(1..Len(s), ToSet(s))
  BY <1>1 DEF Bijection, Injection, Surjection, IsInjective, ToSet, Distinct
<1> QED BY <1>1, <1>2, FS_CountingElements DEF ExistsBijection

----------------------------------------------------------------------------
(* Type correctness. *)

(* The hand of the processing loop holds one resource or none.             *)
LEMMA HandElements ==
  ASSUME hand \in Seq(Resources), Len(hand) <= 1
  PROVE  /\ hand = <<>> => InHand = {}
         /\ hand # <<>> => hand[1] \in Resources /\ InHand = {hand[1]}
BY DEF InHand, ToSet

(* The steps of the processing loop. *)
LEMMA ProcessingTyped ==
  ASSUME TypeOK, ProcessingLoop
  PROVE  TypeOK'
<1>1. CASE Receive
  <2>1. Head(queue) \in Resources /\ Tail(queue) \in Seq(Resources)
        /\ Len(Tail(queue)) = Len(queue) - 1 /\ Len(queue) \in Nat
    BY <1>1, TailElements DEF Receive, TypeOK
  <2>2. <<Head(queue)>> \in Seq(Resources) /\ Len(<<Head(queue)>>) = 1
    BY <2>1
  <2> QED BY <1>1, <2>1, <2>2, SizesAssumption
          DEF Receive, TypeOK, flags, calls, held, reports, migrations
<1>2. CASE Process
  <2>1. assigned' \subseteq Resources
    BY <1>2, HandElements DEF Process, TypeOK
  <2>2. <<>> \in Seq(Resources) /\ Len(<<>>) = 0
    OBVIOUS
  <2> QED BY <1>2, <2>1, <2>2 DEF Process, TypeOK, flags, calls, reports, migrations
<1>3. CASE EndProcessing
  BY <1>3 DEF EndProcessing, TypeOK, flags, calls, held, reports, migrations
<1> QED BY <1>1, <1>2, <1>3 DEF ProcessingLoop

(* The steps of the callers that hand in resources. *)
LEMMA ProducersTyped ==
  ASSUME TypeOK, NEW r \in Resources, CheckAccepting(r) \/ Enqueue(r) \/ AcceptMigrated(r)
  PROVE  TypeOK'
<1>1. CASE CheckAccepting(r)
  BY <1>1 DEF CheckAccepting, TypeOK, flags, held, reports, processor, migrations
<1>2. CASE Enqueue(r)
  <2>1. CASE Len(queue) < QueueSize /\ queue' = Append(queue, r)
              /\ producer' = [producer EXCEPT ![r] = "accepted"]
    <3>1. queue' = Append(queue, r) /\ producer' = [producer EXCEPT ![r] = "accepted"]
      BY <2>1
    <3>2. queue' \in Seq(Resources) /\ Len(queue') = Len(queue) + 1 /\ Len(queue) \in Nat
      BY <3>1, AppendElements DEF TypeOK
    <3>3. Len(queue') <= QueueSize
      BY <2>1, <3>2, SizesAssumption
    <3> QED BY <1>2, <3>1, <3>2, <3>3 DEF Enqueue, TypeOK, flags, held, reports, processor, migrations
  <2>2. CASE queue' = queue /\ producer' = [producer EXCEPT ![r] = "refused"]
    BY <1>2, <2>2 DEF Enqueue, TypeOK, flags, held, reports, processor, migrations
  <2> QED BY <1>2, <2>1, <2>2 DEF Enqueue
<1>3. CASE AcceptMigrated(r)
  <2>1. /\ assigned' \subseteq Resources
        /\ update' \in [Writers -> {"no", "get", "read", "put"}]
        /\ UNCHANGED <<fresh, snap, published>>
    BY <1>3 DEF AcceptMigrated, TypeOK, held, reports, Writers
  <2> QED BY <1>3, <2>1 DEF AcceptMigrated, TypeOK, flags, processor, migrations
<1> QED BY <1>1, <1>2, <1>3

(* The steps of updateShardStatus. *)
LEMMA ReportsTyped ==
  ASSUME TypeOK, NEW w \in Writers, UpdateStatus(w)
  PROVE  TypeOK'
<1>1. CASE GetStatus(w)
  BY <1>1 DEF GetStatus, TypeOK, flags, calls, processor, migrations
<1>2. CASE ReadAssigned(w)
  <2>1. [has |-> assigned, left |-> gone] \in Snapshots
    BY DEF TypeOK, Snapshots
  <2> QED BY <1>2, <2>1 DEF ReadAssigned, TypeOK, flags, calls, processor, migrations
<1>3. CASE PutStatus(w)
  <2>1. NoSnapshot \in Snapshots
    BY DEF NoSnapshot, Snapshots
  <2>2. snap' \in [Writers -> Snapshots] /\ published' \in Snapshots /\ fresh' \subseteq Writers
    BY <1>3, <2>1 DEF PutStatus, TypeOK
  <2> QED BY <1>3, <2>2 DEF PutStatus, TypeOK, flags, calls, processor, migrations
<1> QED BY <1>1, <1>2, <1>3 DEF UpdateStatus

(* The steps of migrations: callers and loop. *)
LEMMA MigrationsTyped ==
  ASSUME TypeOK, MigrationLoop \/ \E c \in Callers : SendRequest(c)
  PROVE  TypeOK'
<1>1. ASSUME NEW c \in Callers, SendRequest(c) PROVE TypeOK'
  <2>1. requests' \in Seq(Callers) /\ Len(requests') <= RequestsSize
    BY <1>1, AppendElements, SizesAssumption DEF SendRequest, TypeOK
  <2>2. moving' \in [Callers -> SUBSET Resources]
    BY <1>1 DEF SendRequest, TypeOK
  <2> QED BY <1>1, <2>1, <2>2 DEF SendRequest, TypeOK, flags, calls, held, reports, processor
<1>2. CASE TakeRequest
  <2>1. Head(requests) \in Callers /\ Tail(requests) \in Seq(Callers)
        /\ Len(Tail(requests)) = Len(requests) - 1 /\ Len(requests) \in Nat
    BY <1>2, TailElements DEF TakeRequest, TypeOK
  <2> QED BY <1>2, <2>1, SizesAssumption
          DEF TakeRequest, TypeOK, flags, calls, held, reports, processor
<1>3. ASSUME NEW c \in Callers, RemoveMigrated(c) PROVE TypeOK'
  <2>1. /\ assigned' \subseteq Resources
        /\ update' \in [Writers -> {"no", "get", "read", "put"}]
    BY <1>3 DEF RemoveMigrated, TypeOK, Writers
  <2> QED BY <1>3, <2>1 DEF RemoveMigrated, TypeOK, flags, calls, processor
<1>4. ASSUME NEW c \in Callers, Respond(c) PROVE TypeOK'
  BY <1>4 DEF Respond, TypeOK, flags, calls, held, reports, processor
<1>5. CASE EndMigrations
  BY <1>5 DEF EndMigrations, TypeOK, flags, calls, held, reports, processor
<1>6. ASSUME NEW c \in Callers, UpdateStatus(c) PROVE TypeOK'
  BY <1>6, ReportsTyped DEF Writers
<1> QED BY <1>1, <1>2, <1>3, <1>4, <1>5, <1>6 DEF MigrationLoop

(* Start, the heartbeat loop, Drain, Stop and Shutdown: they touch no      *)
(* resource.                                                               *)
Control ==
  \/ Start \/ Signal \/ HeartbeatLoop \/ Drain \/ MainStops \/ StopSeesDone \/ StopTimesOut
  \/ ShutdownDrains \/ ShutdownSeesEmpty \/ ShutdownTimesOut \/ ShutdownStops

LEMMA ControlTyped ==
  ASSUME TypeOK, Control
  PROVE  /\ TypeOK'
         /\ UNCHANGED <<held, queue, hand, producer, gone>>
<1>1. CASE Start
  BY <1>1 DEF Start, TypeOK, calls, held, reports
<1>2. CASE Signal
  BY <1>2 DEF Signal, TypeOK, calls, held, reports, processor, migrations
<1>3. CASE HeartbeatLoop
  <2>1. CASE Tick \/ ReadHealth \/ ReadLoad
    BY <2>1 DEF Tick, ReadHealth, ReadLoad, TypeOK, flags, calls, held, reports, processor, migrations
  <2>2. CASE EndHeartbeats
    BY <2>2 DEF EndHeartbeats, TypeOK, calls, held, reports, processor, migrations
  <2> QED BY <1>3, <2>1, <2>2 DEF HeartbeatLoop
<1>4. CASE Drain
  BY <1>4 DEF Drain, TypeOK, calls, held, reports, processor, migrations
<1>5. CASE MainStops
  BY <1>5 DEF MainStops, StopCall, TypeOK, held, reports, processor, migrations
<1>6. CASE StopSeesDone \/ StopTimesOut
  BY <1>6 DEF StopSeesDone, StopTimesOut, TypeOK, flags, held, reports, processor, migrations
<1>7. CASE ShutdownDrains
  BY <1>7 DEF ShutdownDrains, TypeOK, held, reports, processor, migrations
<1>8. CASE ShutdownSeesEmpty \/ ShutdownTimesOut
  BY <1>8 DEF ShutdownSeesEmpty, ShutdownTimesOut, TypeOK, flags, held, reports, processor, migrations
<1>9. CASE ShutdownStops
  <2>1. /\ running' \in BOOLEAN /\ stopClosed' \in BOOLEAN
        /\ stop' \in {"no", "waiting", "stopped", "timeout"}
    BY <1>9 DEF ShutdownStops, StopCall, TypeOK
  <2> QED BY <1>9, <2>1 DEF ShutdownStops, TypeOK, held, reports, processor, migrations
<1> QED BY <1>1, <1>2, <1>3, <1>4, <1>5, <1>6, <1>7, <1>8, <1>9 DEF Control

(* What a step of Next is. *)
LEMMA NextCases ==
  ASSUME Next
  PROVE  \/ \E r \in Resources : CheckAccepting(r) \/ Enqueue(r) \/ AcceptMigrated(r)
         \/ \E r \in Incoming : UpdateStatus(r)
         \/ ProcessingLoop
         \/ MigrationLoop \/ \E c \in Callers : SendRequest(c)
         \/ Control
BY DEF Next, Control

(* The initial state and every step are well typed. *)
LEMMA TypeInit == Init => TypeOK
<1> SUFFICES ASSUME Init PROVE TypeOK
  OBVIOUS
<1>1. /\ queue \in Seq(Resources) /\ Len(queue) <= QueueSize
      /\ hand \in Seq(Resources) /\ Len(hand) <= 1
      /\ requests \in Seq(Callers) /\ Len(requests) <= RequestsSize
  BY SizesAssumption DEF Init
<1>2. NoSnapshot \in Snapshots
  BY DEF NoSnapshot, Snapshots
<1> QED BY <1>1, <1>2 DEF Init, TypeOK

LEMMA TypeStep == TypeOK /\ [Next]_vars => TypeOK'
<1> SUFFICES ASSUME TypeOK, [Next]_vars PROVE TypeOK'
  OBVIOUS
<1>1. CASE Next
  BY <1>1, NextCases, ProducersTyped, ReportsTyped, ProcessingTyped, MigrationsTyped, ControlTyped
     DEF Writers
<1>2. CASE UNCHANGED vars
  BY <1>2 DEF vars, flags, calls, held, reports, processor, migrations, TypeOK
<1> QED BY <1>1, <1>2

(* The state of the worker process is well typed: no channel holds more    *)
(* than its capacity, whatever the capacities are.                         *)
THEOREM TypeCorrect == Safety => []TypeOK
BY TypeInit, TypeStep, PTL DEF Safety

----------------------------------------------------------------------------
(* Conservation. *)

Accepted == {r \in Resources : producer[r] = "accepted"}

(* Conserved, with the length of the queue replaced by what makes it       *)
(* inductive: no resource is queued twice.                                 *)
Places ==
  /\ Queued \cup InHand \cup assigned \cup gone = Accepted
  /\ Distinct(queue)
  /\ Queued \cap InHand = {}
  /\ (Queued \cup InHand) \cap (assigned \cup gone) = {}
  /\ assigned \cap gone = {}

IInv == TypeOK /\ Places

(* Steps that touch no resource keep it. *)
LEMMA UntouchedPlaces ==
  ASSUME IInv, TypeOK', UNCHANGED <<assigned, queue, hand, producer, gone>>
  PROVE  IInv'
BY DEF IInv, Places, Accepted, Queued, InHand, Distinct, held, reports

LEMMA ReportsUntouched ==
  ASSUME NEW w \in Writers, UpdateStatus(w)
  PROVE  UNCHANGED <<assigned, queue, hand, producer, gone>>
BY DEF UpdateStatus, GetStatus, ReadAssigned, PutStatus, calls, processor, migrations

LEMMA ProducersConserve ==
  ASSUME IInv, NEW r \in Resources, CheckAccepting(r) \/ Enqueue(r) \/ AcceptMigrated(r)
  PROVE  Places'
<1>0. TypeOK /\ Places
  BY DEF IInv
<1>1. CASE CheckAccepting(r)
  <2>1. producer[r] = "new" /\ producer'[r] \in {"checked", "refused"}
        /\ \A q \in Resources \ {r} : producer'[q] = producer[q]
    BY <1>0, <1>1 DEF CheckAccepting, TypeOK
  <2>2. Accepted' = Accepted
    BY <2>1 DEF Accepted
  <2> QED BY <1>0, <1>1, <2>2
          DEF CheckAccepting, Places, Queued, InHand, Distinct, held, reports, processor, migrations
<1>2. CASE Enqueue(r) /\ producer'[r] = "accepted"
  <2>1. /\ producer[r] = "checked" /\ queue' = Append(queue, r)
        /\ producer' = [producer EXCEPT ![r] = "accepted"]
        /\ UNCHANGED <<assigned, hand, gone>>
    BY <1>0, <1>2 DEF Enqueue, held, processor, migrations, TypeOK
  <2>2. r \notin Accepted /\ Accepted' = Accepted \cup {r}
    BY <1>0, <2>1 DEF Accepted, TypeOK
  <2>3. r \notin Queued \cup InHand \cup assigned \cup gone
    BY <1>0, <2>2 DEF Places
  <2>4. Queued' = Queued \cup {r} /\ Distinct(queue)'
    <3>1. queue \in Seq(Resources) /\ Distinct(queue) /\ r \notin ToSet(queue)
      BY <1>0, <2>3 DEF TypeOK, Places, Queued
    <3>2. ToSet(Append(queue, r)) = ToSet(queue) \cup {r} /\ Distinct(Append(queue, r))
      BY <3>1, AppendElements
    <3>3. Distinct(queue)' <=> Distinct(queue')
      BY DEF Distinct
    <3> QED BY <2>1, <3>2, <3>3 DEF Queued
  <2>5. InHand' = InHand
    BY <2>1 DEF InHand
  <2> QED BY <1>0, <2>1, <2>2, <2>3, <2>4, <2>5 DEF Places
<1>3. CASE Enqueue(r) /\ producer'[r] # "accepted"
  <2>1. /\ producer[r] = "checked" /\ producer' = [producer EXCEPT ![r] = "refused"]
        /\ UNCHANGED <<queue, assigned, hand, gone>>
    BY <1>0, <1>3 DEF Enqueue, held, processor, migrations, TypeOK
  <2>2. Accepted' = Accepted
    BY <1>0, <2>1 DEF Accepted, TypeOK
  <2> QED BY <1>0, <2>1, <2>2 DEF Places, Queued, InHand, Distinct
<1>4. CASE AcceptMigrated(r) /\ running /\ ~draining
  <2>1. /\ producer[r] = "new" /\ producer' = [producer EXCEPT ![r] = "accepted"]
        /\ assigned' = assigned \cup {r} /\ UNCHANGED <<queue, hand, gone>>
    BY <1>4 DEF AcceptMigrated, processor, migrations
  <2>2. r \notin Accepted /\ Accepted' = Accepted \cup {r}
    BY <1>0, <2>1 DEF Accepted, TypeOK
  <2>3. r \notin Queued \cup InHand \cup assigned \cup gone
    BY <1>0, <2>2 DEF Places
  <2> QED BY <1>0, <2>1, <2>2, <2>3 DEF Places, Queued, InHand, Distinct
<1>5. CASE AcceptMigrated(r) /\ ~(running /\ ~draining)
  <2>1. /\ producer[r] = "new" /\ producer' = [producer EXCEPT ![r] = "refused"]
        /\ UNCHANGED <<queue, assigned, hand, gone>>
    BY <1>5 DEF AcceptMigrated, held, reports, processor, migrations
  <2>2. Accepted' = Accepted
    BY <1>0, <2>1 DEF Accepted, TypeOK
  <2> QED BY <1>0, <2>1, <2>2 DEF Places, Queued, InHand, Distinct
<1> QED BY <1>1, <1>2, <1>3, <1>4, <1>5

LEMMA ProcessingConserves ==
  ASSUME IInv, ProcessingLoop
  PROVE  Places'
<1>0. TypeOK /\ Places
  BY DEF IInv
<1>1. CASE Receive
  <2>1. /\ hand = <<>> /\ queue # <<>> /\ hand' = <<Head(queue)>> /\ queue' = Tail(queue)
        /\ UNCHANGED <<assigned, producer, gone>>
    BY <1>1 DEF Receive, calls, held, reports, migrations
  <2>2. InHand = {} /\ InHand' = {Head(queue)}
    BY <2>1 DEF InHand, ToSet
  <2>3. Queued = Queued' \cup {Head(queue)} /\ Head(queue) \notin Queued' /\ Distinct(queue)'
    BY <1>0, <2>1, TailElements DEF Queued, Places, TypeOK, Distinct
  <2>4. Accepted' = Accepted
    BY <2>1 DEF Accepted
  <2> QED BY <1>0, <2>1, <2>2, <2>3, <2>4 DEF Places
<1>2. CASE Process
  <2>1. /\ hand # <<>> /\ hand' = <<>> /\ assigned' = assigned \cup {hand[1]}
        /\ UNCHANGED <<queue, producer, gone>>
    BY <1>2 DEF Process, calls, migrations
  <2>2. InHand = {hand[1]} /\ hand[1] \in Resources /\ InHand' = {}
    BY <1>0, <2>1, HandElements DEF TypeOK, InHand, ToSet
  <2>3. assigned' = assigned \cup InHand
    BY <2>1, <2>2
  <2>4. Accepted' = Accepted /\ Queued' = Queued /\ Distinct(queue)' = Distinct(queue)
    BY <2>1 DEF Accepted, Queued, Distinct
  <2> QED BY <1>0, <2>1, <2>2, <2>3, <2>4 DEF Places
<1>3. CASE EndProcessing
  BY <1>0, <1>3 DEF EndProcessing, Places, Accepted, Queued, InHand, Distinct,
                    calls, held, reports, migrations
<1> QED BY <1>1, <1>2, <1>3 DEF ProcessingLoop

LEMMA MigrationsConserve ==
  ASSUME IInv, MigrationLoop \/ \E c \in Callers : SendRequest(c)
  PROVE  Places'
<1>0. TypeOK /\ Places
  BY DEF IInv
<1>1. ASSUME NEW c \in Callers, RemoveMigrated(c) PROVE Places'
  <2>1. /\ assigned' = assigned \ moving[c] /\ gone' = gone \cup (assigned \cap moving[c])
        /\ UNCHANGED <<queue, hand, producer>>
    BY <1>1 DEF RemoveMigrated, calls, processor
  <2>2. assigned' \cup gone' = assigned \cup gone
    BY <2>1
  <2> QED BY <1>0, <2>1, <2>2 DEF Places, Accepted, Queued, InHand, Distinct
<1>2. CASE ~\E c \in Callers : RemoveMigrated(c)
  <2>1. UNCHANGED <<assigned, queue, hand, producer, gone>>
    BY <1>2, ReportsUntouched
       DEF MigrationLoop, TakeRequest, Respond, EndMigrations, SendRequest, Writers, calls, held,
           processor
  <2> QED BY <1>0, <2>1 DEF Places, Accepted, Queued, InHand, Distinct, held, reports
<1> QED BY <1>1, <1>2

(* The invariant the theorem rests on. *)
LEMMA Inductive == Safety => []IInv
<1>1. Init => IInv
  <2> SUFFICES ASSUME Init PROVE Places
    BY TypeInit DEF IInv
  <2>1. Queued = {} /\ InHand = {} /\ Distinct(queue)
    BY DEF Init, Queued, InHand, ToSet, Distinct
  <2>2. Accepted = {}
    BY DEF Init, Accepted
  <2> QED BY <2>1, <2>2, FS_EmptySet DEF Init, Places
<1>2. IInv /\ [Next]_vars => IInv'
  <2> SUFFICES ASSUME IInv, [Next]_vars PROVE IInv'
    OBVIOUS
  <2>0. TypeOK'
    BY TypeStep DEF IInv
  <2>1. CASE Control \/ UNCHANGED vars
    <3>1. UNCHANGED <<assigned, queue, hand, producer, gone>>
      BY <2>1, ControlTyped DEF IInv, vars, calls, held, processor, migrations
    <3> QED BY <2>0, <3>1, UntouchedPlaces
  <2>2. ASSUME NEW w \in Incoming, UpdateStatus(w) PROVE IInv'
    BY <2>0, <2>2, ReportsUntouched, UntouchedPlaces DEF Writers
  <2>3. CASE ~(Control \/ UNCHANGED vars \/ \E w \in Incoming : UpdateStatus(w))
    <3>1. Places'
      BY <2>3, NextCases, ProducersConserve, ProcessingConserves, MigrationsConserve
    <3> QED BY <2>0, <3>1 DEF IInv
  <2> QED BY <2>1, <2>2, <2>3
<1> QED BY <1>1, <1>2, PTL DEF Safety

(* No accepted resource is lost or held twice: it is in the queue, in the  *)
(* hand of the loop, assigned or migrated away, whatever stops or drains   *)
(* when.                                                                   *)
THEOREM ResourcesConserved == Safety => []Conserved
<1>1. IInv => Conserved
  BY DistinctLength DEF IInv, TypeOK, Places, Accepted, Conserved, Queued
<1> QED BY <1>1, Inductive, PTL
----------------------------------------------------------------------------
(* The order of the reports. *)

(* Whatever the first snapshot shows, the second still shows or has seen   *)
(* leave.                                                                  *)
Older(p, q) == p.left \subseteq q.left /\ p.has \subseteq q.has \cup q.left

Current == [has |-> assigned, left |-> gone]

(* What is published, and what a copy that is still current will publish.  *)
Reported ==
  /\ Older(published, Current)
  /\ \A w \in Writers :
       update[w] = "put" => /\ Older(snap[w], Current)
                            /\ w \in fresh => Older(published, snap[w])

LEMMA OlderTransitive ==
  ASSUME NEW p, NEW q, NEW t, Older(p, q), Older(q, t)
  PROVE  Older(p, t)
BY DEF Older

(* Resources are added, and the removed ones are known to have left.       *)
LEMMA ResourcesAdvance ==
  ASSUME Next
  PROVE  Older(Current, Current')
<1>1. gone \subseteq gone' /\ assigned \subseteq assigned' \cup gone'
  <2>1. CASE Control
    BY <2>1 DEF Control, Start, Signal, HeartbeatLoop, Tick, ReadHealth, ReadLoad, EndHeartbeats,
                Drain, MainStops, StopSeesDone, StopTimesOut, ShutdownDrains, ShutdownSeesEmpty,
                ShutdownTimesOut, ShutdownStops, held, migrations
  <2>2. CASE ProcessingLoop
    BY <2>2 DEF ProcessingLoop, Receive, Process, EndProcessing, held, migrations
  <2>3. ASSUME NEW r \in Resources, CheckAccepting(r) \/ Enqueue(r) \/ AcceptMigrated(r)
        PROVE  gone \subseteq gone' /\ assigned \subseteq assigned' \cup gone'
    BY <2>3 DEF CheckAccepting, Enqueue, AcceptMigrated, held, migrations
  <2>4. ASSUME NEW w \in Writers, UpdateStatus(w)
        PROVE  gone \subseteq gone' /\ assigned \subseteq assigned' \cup gone'
    BY <2>4, ReportsUntouched
  <2>5. CASE (\E c \in Callers : SendRequest(c)) \/ TakeRequest \/ EndMigrations
    BY <2>5 DEF SendRequest, TakeRequest, EndMigrations, held
  <2>6. ASSUME NEW c \in Callers, RemoveMigrated(c) \/ Respond(c)
        PROVE  gone \subseteq gone' /\ assigned \subseteq assigned' \cup gone'
    BY <2>6 DEF RemoveMigrated, Respond, held
  <2> QED BY <2>1, <2>2, <2>3, <2>4, <2>5, <2>6, NextCases DEF MigrationLoop, Writers
<1> QED BY <1>1 DEF Older, Current

(* Whoever does not report changes no report, and starts at most one.      *)
LEMMA ReportsUnchanged ==
  ASSUME TypeOK, Next, ~\E w \in Writers : UpdateStatus(w)
  PROVE  /\ UNCHANGED <<fresh, snap, published>>
         /\ \A w \in Writers : update'[w] = "put" => update[w] = "put"
<1>1. CASE Control
  BY <1>1, ControlTyped DEF held, reports
<1>2. CASE ProcessingLoop
  BY <1>2 DEF ProcessingLoop, Receive, Process, EndProcessing, held, reports
<1>3. ASSUME NEW r \in Resources, CheckAccepting(r) \/ Enqueue(r)
      PROVE  UNCHANGED <<update, fresh, snap, published>>
  BY <1>3 DEF CheckAccepting, Enqueue, held, reports
<1>4. ASSUME NEW r \in Resources, AcceptMigrated(r)
      PROVE  /\ UNCHANGED <<fresh, snap, published>>
             /\ update' = update \/ update' = [update EXCEPT ![r] = "get"]
  BY <1>4 DEF AcceptMigrated, held, reports
<1>5. CASE (\E c \in Callers : SendRequest(c) \/ Respond(c)) \/ TakeRequest \/ EndMigrations
  BY <1>5 DEF SendRequest, Respond, TakeRequest, EndMigrations, held, reports
<1>6. ASSUME NEW c \in Callers, RemoveMigrated(c)
      PROVE  /\ UNCHANGED <<fresh, snap, published>>
             /\ update' = [update EXCEPT ![c] = "get"]
  BY <1>6 DEF RemoveMigrated
<1>7. ASSUME NEW x, update' = [update EXCEPT ![x] = "get"], NEW w \in Writers, update'[w] = "put"
      PROVE  update[w] = "put"
  BY <1>7 DEF TypeOK
<1> QED BY <1>1, <1>2, <1>3, <1>4, <1>5, <1>6, <1>7, NextCases DEF MigrationLoop, Writers

(* A step keeps the order, and what it publishes is not older than what    *)
(* was published before.                                                   *)
LEMMA OrderStep ==
  ASSUME TypeOK, TypeOK', Reported, Next
  PROVE  Reported' /\ Older(published, published')
<1>1. Older(Current, Current')
  BY ResourcesAdvance
<1>2. CASE ~\E w \in Writers : UpdateStatus(w)
  <2>1. /\ UNCHANGED <<fresh, snap, published>>
        /\ \A w \in Writers : update'[w] = "put" => update[w] = "put"
    BY <1>2, ReportsUnchanged
  <2>2. Older(published', Current')
    BY <1>1, <2>1, OlderTransitive DEF Reported
  <2>3. ASSUME NEW w \in Writers, update'[w] = "put"
        PROVE  Older(snap'[w], Current') /\ (w \in fresh' => Older(published', snap'[w]))
    BY <1>1, <2>1, <2>3, OlderTransitive DEF Reported
  <2> QED BY <2>1, <2>2, <2>3 DEF Reported, Older
<1>3. ASSUME NEW w \in Writers, UpdateStatus(w) PROVE Reported' /\ Older(published, published')
  <2>1. Current' = Current
    BY <1>3, ReportsUntouched DEF Current
  <2>2. CASE GetStatus(w)
    <3>1. /\ UNCHANGED <<snap, published>>
          /\ \A x \in Writers : update'[x] = "put" => x # w /\ update[x] = "put"
          /\ \A x \in Writers \ {w} : x \in fresh' => x \in fresh
      BY <2>2 DEF GetStatus, TypeOK
    <3> QED BY <2>1, <3>1 DEF Reported, Older
  <2>3. CASE ReadAssigned(w)
    <3>1. /\ UNCHANGED <<fresh, published>> /\ snap'[w] = Current
          /\ \A x \in Writers \ {w} : update'[x] = update[x] /\ snap'[x] = snap[x]
      BY <2>3 DEF ReadAssigned, TypeOK, Current
    <3>2. Older(Current, Current)
      BY DEF Older
    <3> QED BY <2>1, <3>1, <3>2 DEF Reported, Older
  <2>4. CASE PutStatus(w)
    <3>1. /\ update[w] = "put" /\ update'[w] = "no"
          /\ \A x \in Writers \ {w} : update'[x] = update[x] /\ snap'[x] = snap[x]
          /\ \/ w \in fresh /\ published' = snap[w] /\ fresh' = {}
             \/ published' = published /\ fresh' = fresh \ {w}
      BY <2>4 DEF PutStatus, TypeOK
    <3>2. Older(published', Current) /\ Older(published, published')
      BY <3>1 DEF Reported, Older
    <3>3. ASSUME NEW x \in Writers, update'[x] = "put"
          PROVE  Older(snap'[x], Current') /\ (x \in fresh' => Older(published', snap'[x]))
      <4>1. x # w /\ update[x] = "put" /\ snap'[x] = snap[x]
        BY <3>1, <3>3
      <4> QED BY <2>1, <3>1, <4>1 DEF Reported
    <3> QED BY <2>1, <3>2, <3>3 DEF Reported
  <2> QED BY <1>3, <2>2, <2>3, <2>4 DEF UpdateStatus
<1> QED BY <1>2, <1>3

(* The list of assigned resources in the stored object never goes back to  *)
(* an older one, however many callers report at a time and whichever of    *)
(* their updates are refused or fail.                                      *)
THEOREM ReportsInOrder == Safety => StatusInOrder
<1>1. Init => Reported
  <2> SUFFICES ASSUME Init PROVE Reported
    OBVIOUS
  <2>1. published = NoSnapshot /\ \A w \in Writers : update[w] = "no"
    BY DEF Init
  <2> QED BY <2>1 DEF Reported, Older, NoSnapshot
<1>2. TypeOK /\ TypeOK' /\ Reported /\ [Next]_vars => Reported'
  <2>1. CASE UNCHANGED vars
    BY <2>1 DEF vars, held, reports, migrations, Reported, Older, Current
  <2> QED BY <2>1, OrderStep
<1>3. TypeOK /\ TypeOK' /\ Reported /\ [Next]_vars
      => [/\ published.left \subseteq published'.left
          /\ published.has \subseteq published'.has \cup published'.left]_vars
  BY OrderStep DEF Older
<1> QED BY <1>1, <1>2, <1>3, TypeCorrect, PTL DEF Safety, StatusInOrder
=============================================================================
