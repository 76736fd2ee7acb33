--------------------------- MODULE WorkerProcess ---------------------------
(***************************************************************************)
(* One worker process, pkg/worker/worker.go: the goroutines Start spawns   *)
(* (heartbeats, resource processing, migrations), the callers of           *)
(* ProcessResource, AcceptMigratedResources, MigrateResourcesTo, Drain,    *)
(* Shutdown and Stop, and the mutex, the channels and the flags they       *)
(* share.  Of what they write to the API server only the list of assigned  *)
(* resources is here (updateShardStatus); the rest is ShardLifecycle's.    *)
(*                                                                         *)
(* Every critical section of ws.mu is one step, except that Stop keeps the *)
(* mutex while it waits for the heartbeat loop: "locked" is TRUE then, and *)
(* everything that needs the mutex, for reading too, has to wait.          *)
(***************************************************************************)
EXTENDS Naturals, Sequences, FiniteSets, SequencesExt

CONSTANTS Resources,
          Incoming,      \* those that other shards may hand over
          Callers,       \* concurrent callers of MigrateResourcesTo
          QueueSize,     \* capacity of resourceQueue (1000)
          RequestsSize   \* capacity of migrationCh (100)

ASSUME ResourcesAssumption == IsFiniteSet(Resources) /\ Incoming \subseteq Resources
ASSUME SizesAssumption == QueueSize \in Nat \ {0} /\ RequestsSize \in Nat \ {0}

VARIABLES
  running, draining,   \* the flags
  ctxDone,             \* the context given to Start is cancelled
  stopClosed,          \* stopCh is closed
  doneClosed,          \* doneCh is closed
  stop,                \* the call of Stop: "no", "waiting", "stopped", "timeout"
  shutdown,            \* the call of Shutdown: "no", "polling", "stopping", "done"
  assigned,            \* assignedResources
  queue,               \* resourceQueue
  producer,            \* the call of ProcessResource for every resource
  heart,               \* the heartbeat loop
  hand,                \* the processing loop: its resource, as a sequence
  processing,          \* ... "off", "on" or "ended"
  requests,            \* migrationCh: callers, in order
  moving,              \* what each caller asks to move
  caller,              \* the call of MigrateResourcesTo of each caller
  serving,             \* the migration loop: the caller it serves, if any
  migrating,           \* ... "off", "select", "remove", "respond" or "ended"
  gone,                \* resources some migration took out of the worker
  update,              \* the call of updateShardStatus of every writer
  fresh,               \* writers whose copy of the object is still current
  snap,                \* what each of them has read of the resources
  published            \* what the last accepted update said of them

flags      == <<running, draining, ctxDone, stopClosed, doneClosed>>
calls      == <<stop, shutdown, producer>>
processor  == <<hand, processing>>
migrations == <<requests, moving, caller, serving, migrating, gone>>
reports    == <<update, fresh, snap, published>>
held       == <<assigned, reports>>
vars == <<flags, calls, held, queue, heart, processor, migrations>>

locked == stop = "waiting"

(* What ends the loops: <-ctx.Done() or <-ws.stopCh. *)
Ending == ctxDone \/ stopClosed

(* Those who report the assigned resources: whoever hands in a migrated    *)
(* resource, and the migration loop for the caller it serves.              *)
Writers == Incoming \cup Callers

(* The assigned resources at some moment, and those that had left by then, *)
(* which the list does not show but which tell an older list from a newer. *)
Snapshots == [has : SUBSET Resources, left : SUBSET Resources]
NoSnapshot == [has |-> {}, left |-> {}]

----------------------------------------------------------------------------
(* Start marks the worker running and starts the loops (the one that       *)
(* computes the load metrics is left out).  It is called once              *)
(* (cmd/worker/main.go).                                                   *)
Start ==
  /\ ~running /\ heart = "off" /\ ~stopClosed
  /\ running' = TRUE
  /\ heart' = "select"
  /\ processing' = "on"
  /\ migrating' = "select"
  /\ UNCHANGED <<draining, ctxDone, stopClosed, doneClosed, calls, held, queue, hand,
                 requests, moving, caller, serving, gone>>

(* The signal handler of main. *)
Signal ==
  /\ ~ctxDone
  /\ ctxDone' = TRUE
  /\ UNCHANGED <<running, draining, stopClosed, doneClosed, calls, held, queue, heart,
                 processor, migrations>>

----------------------------------------------------------------------------
(* ProcessResource(r): the flags are read under the mutex, ... *)
CheckAccepting(r) ==
  /\ producer[r] = "new"
  /\ ~locked
  /\ producer' = [producer EXCEPT ![r] = IF running /\ ~draining THEN "checked" ELSE "refused"]
  /\ UNCHANGED <<flags, stop, shutdown, held, queue, heart, processor, migrations>>

(* Mutant: the send does not look whether there is room. *)
EnqueueBeyond(r) ==
  /\ producer[r] = "checked"
  /\ queue' = Append(queue, r)
  /\ producer' = [producer EXCEPT ![r] = "accepted"]
  /\ UNCHANGED <<flags, stop, shutdown, held, heart, processor, migrations>>

(* ... the resource is sent without it, unless the queue is full or the    *)
(* caller's context has ended.                                             *)
Enqueue(r) ==
  /\ producer[r] = "checked"
  /\ \/ /\ Len(queue) < QueueSize
        /\ queue' = Append(queue, r)
        /\ producer' = [producer EXCEPT ![r] = "accepted"]
     \/ /\ producer' = [producer EXCEPT ![r] = "refused"]
        /\ UNCHANGED queue
  /\ UNCHANGED <<flags, stop, shutdown, held, heart, processor, migrations>>

(* AcceptMigratedResources of one resource from another shard, whose       *)
(* caller then reports the assigned resources.                             *)
AcceptMigrated(r) ==
  /\ r \in Incoming
  /\ producer[r] = "new"
  /\ ~locked
  /\ IF running /\ ~draining
       THEN /\ producer' = [producer EXCEPT ![r] = "accepted"]
            /\ assigned' = assigned \cup {r}
            /\ update' = [update EXCEPT ![r] = "get"]
            /\ UNCHANGED <<fresh, snap, published>>
       ELSE /\ producer' = [producer EXCEPT ![r] = "refused"]
            /\ UNCHANGED held
  /\ UNCHANGED <<flags, stop, shutdown, queue, heart, processor, migrations>>

----------------------------------------------------------------------------
(* resourceProcessingLoop. *)
Receive ==
  /\ processing = "on"
  /\ hand = <<>>
  /\ queue # <<>>
  /\ hand' = <<Head(queue)>>
  /\ queue' = Tail(queue)
  /\ UNCHANGED <<flags, calls, held, heart, processing, migrations>>

(* Mutant: a resource in hand is dropped when the worker is draining. *)
ProcessUnlessDraining ==
  /\ hand # <<>>
  /\ ~locked
  /\ IF draining THEN UNCHANGED held ELSE assigned' = assigned \cup {hand[1]} /\ UNCHANGED reports
  /\ hand' = <<>>
  /\ UNCHANGED <<flags, calls, queue, heart, processing, migrations>>

(* processResourceInternal: nothing is reported to the API server. *)
Process ==
  /\ hand # <<>>
  /\ ~locked
  /\ assigned' = assigned \cup {hand[1]}
  /\ hand' = <<>>
  /\ UNCHANGED <<flags, calls, reports, queue, heart, processing, migrations>>

(* Mutant: the loop ends as soon as the worker drains. *)
EndProcessingEarly ==
  /\ processing = "on" /\ hand = <<>> /\ (Ending \/ draining)
  /\ processing' = "ended"
  /\ UNCHANGED <<flags, calls, held, queue, heart, hand, migrations>>

EndProcessing ==
  /\ processing = "on" /\ hand = <<>> /\ Ending
  /\ processing' = "ended"
  /\ UNCHANGED <<flags, calls, held, queue, heart, hand, migrations>>

ProcessingLoop == Receive \/ Process \/ EndProcessing

----------------------------------------------------------------------------
(* Mutant: the resources are read first, and the object after them. *)
GetStatusLate(w) ==
  /\ \/ /\ update[w] = "get"
        /\ update' = [update EXCEPT ![w] = "read"]
        /\ UNCHANGED fresh
     \/ /\ update[w] = "put"
        /\ fresh' = fresh \cup {w}
        /\ UNCHANGED update
  /\ UNCHANGED <<flags, calls, assigned, snap, published, queue, heart, processor, migrations>>

(* updateShardStatus, called without the mutex: Get the object, ... *)
GetStatus(w) ==
  /\ update[w] = "get"
  /\ \/ /\ update' = [update EXCEPT ![w] = "read"]
        /\ fresh' = fresh \cup {w}
     \/ /\ update' = [update EXCEPT ![w] = "no"]     \* the Get fails
        /\ UNCHANGED fresh
  /\ UNCHANGED <<flags, calls, assigned, snap, published, queue, heart, processor, migrations>>

(* ... read the resources under the mutex, ... *)
ReadAssigned(w) ==
  /\ update[w] = "read" /\ ~locked
  /\ update' = [update EXCEPT ![w] = "put"]
  /\ snap' = [snap EXCEPT ![w] = [has |-> assigned, left |-> gone]]
  /\ UNCHANGED <<flags, calls, assigned, fresh, published, queue, heart, processor, migrations>>

(* ... and update the status.  A copy that is not current any more is      *)
(* refused; any update may fail, and one fails when the heartbeat, a drain *)
(* or a controller wrote the object since the Get (they leave the          *)
(* resources as they are).  The error is only logged.                      *)
PutStatus(w) ==
  /\ update[w] = "put"
  /\ update' = [update EXCEPT ![w] = "no"]
  /\ snap' = [snap EXCEPT ![w] = NoSnapshot]
  /\ \/ /\ w \in fresh
        /\ published' = snap[w]
        /\ fresh' = {}
     \/ /\ fresh' = fresh \ {w}
        /\ UNCHANGED published
  /\ UNCHANGED <<flags, calls, assigned, queue, heart, processor, migrations>>

UpdateStatus(w) == GetStatus(w) \/ ReadAssigned(w) \/ PutStatus(w)

----------------------------------------------------------------------------
(* MigrateResourcesTo: send a request and wait for the response. *)
SendRequest(c) ==
  /\ caller[c] = "no"
  /\ Len(requests) < RequestsSize
  /\ \E S \in SUBSET Resources \ {{}} : moving' = [moving EXCEPT ![c] = S]
  /\ requests' = Append(requests, c)
  /\ caller' = [caller EXCEPT ![c] = "waiting"]
  /\ UNCHANGED <<flags, calls, held, queue, heart, processor, serving, migrating, gone>>

(* migrationHandlingLoop: take a request, *)
TakeRequest ==
  /\ migrating = "select"
  /\ requests # <<>>
  /\ serving' = {Head(requests)}
  /\ requests' = Tail(requests)
  /\ migrating' = "remove"
  /\ UNCHANGED <<flags, calls, held, queue, heart, processor, moving, caller, gone>>

(* remove its resources (handleMigrationRequest), *)
RemoveMigrated(c) ==
  /\ migrating = "remove"
  /\ c \in serving
  /\ ~locked
  /\ assigned' = assigned \ moving[c]
  /\ gone' = gone \cup (assigned \cap moving[c])
  /\ update' = [update EXCEPT ![c] = "get"]
  /\ migrating' = "respond"
  /\ UNCHANGED <<flags, calls, fresh, snap, published, queue, heart, processor, requests, moving,
                 caller, serving>>

(* and respond after updateShardStatus.  The channel has room for the      *)
(* response, so a caller that gave up waiting makes no difference here.    *)
Respond(c) ==
  /\ migrating = "respond"
  /\ c \in serving
  /\ update[c] = "no"
  /\ caller' = [caller EXCEPT ![c] = "answered"]
  /\ moving' = [moving EXCEPT ![c] = {}]
  /\ serving' = {}
  /\ migrating' = "select"
  /\ UNCHANGED <<flags, calls, held, queue, heart, processor, requests, gone>>

(* Mutant: a draining worker serves no migrations. *)
EndMigrationsEarly ==
  /\ migrating = "select" /\ (Ending \/ draining)
  /\ migrating' = "ended"
  /\ UNCHANGED <<flags, calls, held, queue, heart, processor, requests, moving, caller,
                 serving, gone>>

EndMigrations ==
  /\ migrating = "select" /\ Ending
  /\ migrating' = "ended"
  /\ UNCHANGED <<flags, calls, held, queue, heart, processor, requests, moving, caller,
                 serving, gone>>

MigrationLoop ==
  \/ TakeRequest
  \/ \E c \in Callers : RemoveMigrated(c) \/ UpdateStatus(c) \/ Respond(c)
  \/ EndMigrations

----------------------------------------------------------------------------
(* healthReportLoop: ReportHealth and the load each take the read lock.  A *)
(* tick whose Get fails changes nothing; one that the stopped ticker left  *)
(* behind is like one taken just before the stop.                          *)
Tick ==
  /\ heart = "select" /\ ~stopClosed
  /\ heart' = "health"
  /\ UNCHANGED <<flags, calls, held, queue, processor, migrations>>

ReadHealth ==
  /\ heart = "health" /\ ~locked
  /\ heart' = "load"
  /\ UNCHANGED <<flags, calls, held, queue, processor, migrations>>

ReadLoad ==
  /\ heart = "load" /\ ~locked
  /\ heart' = "select"
  /\ UNCHANGED <<flags, calls, held, queue, processor, migrations>>

EndHeartbeats ==
  /\ heart = "select" /\ Ending
  /\ heart' = "ended"
  /\ doneClosed' = TRUE
  /\ UNCHANGED <<running, draining, ctxDone, stopClosed, calls, held, queue, processor,
                 migrations>>

HeartbeatLoop == Tick \/ ReadHealth \/ ReadLoad \/ EndHeartbeats

----------------------------------------------------------------------------
(* Drain only sets the flag (and writes the phase, see ShardLifecycle). *)
Drain ==
  /\ ~locked
  /\ ~draining
  /\ draining' = TRUE
  /\ UNCHANGED <<running, ctxDone, stopClosed, doneClosed, calls, held, queue, heart,
                 processor, migrations>>

(* Stop under the mutex: nothing to do, or close stopCh and wait. *)
StopCall ==
  IF running THEN running' = FALSE /\ stopClosed' = TRUE /\ stop' = "waiting"
             ELSE UNCHANGED <<running, stopClosed, stop>>

(* main stops the worker after the signal. *)
MainStops ==
  /\ ctxDone /\ ~locked /\ running
  /\ StopCall
  /\ UNCHANGED <<draining, ctxDone, doneClosed, shutdown, producer, held, queue, heart,
                 processor, migrations>>

StopSeesDone ==
  /\ stop = "waiting" /\ doneClosed
  /\ stop' = "stopped"
  /\ UNCHANGED <<flags, shutdown, producer, held, queue, heart, processor, migrations>>

(* Mutant: Stop waits without a timer. *)
StopNeverTimesOut == FALSE

(* 30 seconds are enough for a heartbeat loop that can move at all. *)
StopTimesOut ==
  /\ stop = "waiting" /\ heart \in {"health", "load"}
  /\ stop' = "timeout"
  /\ UNCHANGED <<flags, shutdown, producer, held, queue, heart, processor, migrations>>

(* Shutdown drains, ... *)
ShutdownDrains ==
  /\ shutdown = "no" /\ ~locked
  /\ shutdown' = "polling"
  /\ draining' = TRUE
  /\ UNCHANGED <<running, ctxDone, stopClosed, doneClosed, stop, producer, held, queue, heart,
                 processor, migrations>>

(* ... and leaves its loop when it sees no assigned resource any more, *)
ShutdownSeesEmpty ==
  /\ shutdown = "polling" /\ ~locked
  /\ assigned = {}
  /\ shutdown' = "stopping"
  /\ UNCHANGED <<flags, stop, producer, held, queue, heart, processor, migrations>>

(* or when its time is over; *)
ShutdownTimesOut ==
  /\ shutdown = "polling"
  /\ shutdown' = "stopping"
  /\ UNCHANGED <<flags, stop, producer, held, queue, heart, processor, migrations>>

(* then it stops the worker. *)
ShutdownStops ==
  /\ shutdown = "stopping" /\ ~locked
  /\ shutdown' = "done"
  /\ StopCall
  /\ UNCHANGED <<draining, ctxDone, doneClosed, producer, held, queue, heart, processor,
                 migrations>>

----------------------------------------------------------------------------
Init ==
  /\ running = FALSE /\ draining = FALSE
  /\ ctxDone = FALSE /\ stopClosed = FALSE /\ doneClosed = FALSE
  /\ stop = "no" /\ shutdown = "no"
  /\ assigned = {}
  /\ queue = <<>>
  /\ producer = [r \in Resources |-> "new"]
  /\ heart = "off"
  /\ hand = <<>> /\ processing = "off"
  /\ requests = <<>> /\ moving = [c \in Callers |-> {}]
  /\ caller = [c \in Callers |-> "no"]
  /\ serving = {} /\ migrating = "off"
  /\ gone = {}
  /\ update = [w \in Writers |-> "no"] /\ fresh = {}
  /\ snap = [w \in Writers |-> NoSnapshot] /\ published = NoSnapshot

Next ==
  \/ Start \/ Signal
  \/ \E r \in Resources : CheckAccepting(r) \/ Enqueue(r) \/ AcceptMigrated(r)
  \/ \E r \in Incoming : UpdateStatus(r)
  \/ ProcessingLoop
  \/ \E c \in Callers : SendRequest(c)
  \/ MigrationLoop
  \/ HeartbeatLoop
  \/ Drain \/ MainStops \/ StopSeesDone \/ StopTimesOut
  \/ ShutdownDrains \/ ShutdownSeesEmpty \/ ShutdownTimesOut \/ ShutdownStops

Safety == Init /\ [][Next]_vars

(* The loops are goroutines, a caller that has checked the flags goes on,  *)
(* main stops the worker after a signal, and the timer of Stop fires.      *)
Fairness ==
  /\ WF_vars(ProcessingLoop)
  /\ WF_vars(MigrationLoop)
  /\ WF_vars(HeartbeatLoop)
  /\ WF_vars(MainStops)
  /\ WF_vars(StopSeesDone \/ StopTimesOut)

Spec == Safety /\ Fairness

----------------------------------------------------------------------------
Queued == ToSet(queue)
InHand == ToSet(hand)

(* Type invariant of the process. *)
TypeOK ==
  /\ running \in BOOLEAN /\ draining \in BOOLEAN
  /\ ctxDone \in BOOLEAN /\ stopClosed \in BOOLEAN /\ doneClosed \in BOOLEAN
  /\ stop \in {"no", "waiting", "stopped", "timeout"}
  /\ shutdown \in {"no", "polling", "stopping", "done"}
  /\ assigned \subseteq Resources /\ gone \subseteq Resources
  /\ queue \in Seq(Resources) /\ Len(queue) <= QueueSize
  /\ producer \in [Resources -> {"new", "checked", "accepted", "refused"}]
  /\ heart \in {"off", "select", "health", "load", "ended"}
  /\ hand \in Seq(Resources) /\ Len(hand) <= 1
  /\ processing \in {"off", "on", "ended"}
  /\ requests \in Seq(Callers) /\ Len(requests) <= RequestsSize
  /\ moving \in [Callers -> SUBSET Resources]
  /\ caller \in [Callers -> {"no", "waiting", "answered"}]
  /\ serving \subseteq Callers
  /\ migrating \in {"off", "select", "remove", "respond", "ended"}
  /\ update \in [Writers -> {"no", "get", "read", "put"}] /\ fresh \subseteq Writers
  /\ snap \in [Writers -> Snapshots] /\ published \in Snapshots

(* Safety: every accepted resource, and no other, is in exactly one place  *)
(* of the worker, or was migrated away, whatever stops or drains when.     *)
Conserved ==
  /\ Queued \cup InHand \cup assigned \cup gone = {r \in Resources : producer[r] = "accepted"}
  /\ Len(queue) = Cardinality(Queued)
  /\ Queued \cap InHand = {}
  /\ (Queued \cup InHand) \cap (assigned \cup gone) = {}
  /\ assigned \cap gone = {}

(* Action property: whoever reports last, the list of resources in the     *)
(* stored object never goes back to an older one, though a migration and   *)
(* several callers report at a time and every call can be overtaken.  It   *)
(* rests on the order in updateShardStatus: the object is read before the  *)
(* resources, so that an update that is not refused carries a list read    *)
(* after the stored one was written.                                       *)
StatusInOrder ==
  [][/\ published.left \subseteq published'.left
     /\ published.has \subseteq published'.has \cup published'.left]_vars

(* Liveness: a queued resource leaves the queue unless the worker stops;   *)
(* draining does not strand it.                                            *)
QueuedIsProcessed ==
  \A r \in Resources : r \in Queued ~> (r \in assigned \cup gone \/ Ending)

(* Liveness: Stop returns, although the heartbeat loop it waits for may be *)
(* waiting for the mutex that Stop holds.                                  *)
StopReturns == locked ~> ~locked

(* Liveness: a migration request is answered as long as the worker runs,   *)
(* whatever becomes of the reports to the API server.                      *)
RequestsAnswered ==
  \A c \in Callers : (running /\ caller[c] = "waiting") ~> (caller[c] = "answered" \/ Ending)
=============================================================================
