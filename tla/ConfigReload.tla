---------------------------- MODULE ConfigReload ----------------------------
(***************************************************************************)
(* The configuration of the controller, pkg/controllers/config_manager.go: *)
(* a ShardConfig object and a ConfigMap at the API server, the cache the   *)
(* manager's client reads, the calls of LoadConfig, which hold the mutex   *)
(* from their first read to the store, the event handlers of the watches,  *)
(* which validate without and store with the mutex, and the callbacks,     *)
(* each in a goroutine.                                                    *)
(*                                                                         *)
(* Of a specification three fields are kept: min and max, which are also   *)
(* what the two thresholds are checked like, and timeout, which stands for *)
(* the durations and the strategy.  0 is "not set".                        *)
(***************************************************************************)
EXTENDS Naturals, Sequences, FiniteSets, SequencesExt, Functions

CONSTANTS Specs,       \* specifications a user may write
          MapData,     \* data a user may put into the ConfigMap
          Default,     \* DefaultShardConfig of the process
          Absent,      \* no object, no specification
          Loaders,     \* goroutines that may be in LoadConfig
          Watches,     \* registrations of the event handlers (StartHotReload)
          MaxEdits,    \* bound on the changes of the user
          None         \* nobody holds the mutex

Fields == {"min", "max", "timeout"}

(* ValidateShardConfig *)
Valid(c) == c.min > 0 /\ c.max >= c.min /\ c.timeout > 0

(* applyDefaults *)
WithDefaults(c) == [f \in Fields |-> IF c[f] <= 0 THEN Default[f] ELSE c[f]]

(* parseConfigMapData: fields that are there and can be parsed replace     *)
(* those of the configuration.                                             *)
Parsed(data, c) == [f \in Fields |-> IF f \in DOMAIN data THEN data[f] ELSE c[f]]

ASSUME SpecsAssumption == Specs \subseteq [Fields -> Nat] /\ Absent \notin [Fields -> Nat]
ASSUME DefaultAssumption == Default \in [Fields -> Nat] /\ Valid(Default)
ASSUME MapAssumption == \A d \in MapData : DOMAIN d \subseteq Fields /\ \A f \in DOMAIN d : d[f] \in Nat
ASSUME LoadersAssumption == None \notin Loaders
ASSUME EditsAssumption == MaxEdits \in Nat

VARIABLES
  crd,        \* the ShardConfig object
  configMap,  \* the ConfigMap object
  edits,      \* changes of the user so far
  wire,       \* changes of the ShardConfig the cache has not received yet
  mapWire,    \* changes of the ConfigMap the cache has not received yet
  cached,     \* the ShardConfig in the cache
  cachedMap,  \* the ConfigMap in the cache
  events,     \* changes in the cache each watch has not handled yet
  mapEvents,  \* changes of the ConfigMap in it that are not handled yet
  reloads,    \* goroutines of triggerConfigReload that have not begun
  current,    \* shardConfig of the manager
  holder,     \* who holds the mutex across API calls
  loader,     \* where each call of LoadConfig is
  draft,      \* the configuration it builds
  pending,    \* configurations on their way to the callback
  seen        \* the configuration the callback got last

api    == <<crd, configMap, edits, wire, mapWire>>
queues == <<cached, cachedMap, events, mapEvents, reloads>>
calls  == <<holder, loader, draft>>
vars   == <<api, queues, current, calls, pending, seen>>

(* The objects change at the API server. *)
WriteConfig(c) == crd' = c /\ wire' = Append(wire, c)
WriteMap(d) == configMap' = d /\ mapWire' = Append(mapWire, d)

----------------------------------------------------------------------------
(* A user writes or deletes the objects (external). *)
EditConfig(c) ==
  /\ edits < MaxEdits
  /\ c # crd
  /\ WriteConfig(c)
  /\ edits' = edits + 1
  /\ UNCHANGED <<configMap, mapWire, queues, current, calls, pending, seen>>

(* ValidateAndApplyConfig: validated before its defaults are applied. *)
ApplyConfig(c) ==
  /\ Valid(c)
  /\ EditConfig(WithDefaults(c))

(* The informer of the cache receives a change and passes it to every      *)
(* watch, in order.                                                        *)
CacheReceives ==
  /\ wire # <<>>
  /\ cached' = Head(wire)
  /\ wire' = Tail(wire)
  /\ events' = [w \in Watches |-> Append(events[w], Head(wire))]
  /\ UNCHANGED <<crd, configMap, edits, mapWire, cachedMap, mapEvents, reloads,
                 current, calls, pending, seen>>

(* UpdateConfigMap writes it, or the user does. *)
EditMap(d) ==
  /\ edits < MaxEdits
  /\ d # configMap
  /\ WriteMap(d)
  /\ edits' = edits + 1
  /\ UNCHANGED <<crd, wire, queues, current, calls, pending, seen>>

(* The cache receives a ConfigMap; what changed is read again later. *)
CacheReceivesMap ==
  /\ mapWire # <<>>
  /\ cachedMap' = Head(mapWire)
  /\ mapWire' = Tail(mapWire)
  /\ mapEvents' = mapEvents + 1
  /\ UNCHANGED <<crd, configMap, edits, wire, cached, events, reloads,
                 current, calls, pending, seen>>

----------------------------------------------------------------------------
(* Mutant: a call does not wait for the mutex. *)
ReadMapWithoutMutex(l) ==
  /\ loader[l] = "idle"
  /\ holder' = l
  /\ loader' = [loader EXCEPT ![l] = "mapRead"]
  /\ draft' = [draft EXCEPT ![l] = Default]
  /\ UNCHANGED <<api, cached, cachedMap, events, mapEvents, current, pending, seen>>

(* LoadConfig: with the mutex, the ConfigMap is read from the cache or, if *)
(* that has none, created from the defaults.  An error, also that there is *)
(* one at the API server already, leaves the defaults.                     *)
ReadMap(l) ==
  /\ loader[l] = "idle" /\ holder = None
  /\ holder' = l
  /\ loader' = [loader EXCEPT ![l] = "mapRead"]
  /\ \/ /\ cachedMap # Absent
        /\ draft' = [draft EXCEPT ![l] = Parsed(cachedMap, Default)]
        /\ UNCHANGED <<configMap, mapWire>>
     \/ /\ cachedMap = Absent /\ configMap = Absent
        /\ WriteMap(Default)
        /\ draft' = [draft EXCEPT ![l] = Default]
     \/ /\ draft' = [draft EXCEPT ![l] = Default]
        /\ UNCHANGED <<configMap, mapWire>>
  /\ UNCHANGED <<crd, edits, wire, cached, cachedMap, events, mapEvents, current, pending, seen>>

(* Anyone calls LoadConfig, or a goroutine of triggerConfigReload does. *)
CallLoad(l)   == ReadMap(l) /\ UNCHANGED reloads
BeginReload(l) == reloads > 0 /\ reloads' = reloads - 1 /\ ReadMap(l)

(* The ShardConfig replaces all of it. *)
ReadConfig(l) ==
  /\ loader[l] = "mapRead" /\ cached # Absent
  /\ draft' = [draft EXCEPT ![l] = cached]
  /\ loader' = [loader EXCEPT ![l] = "merged"]
  /\ UNCHANGED <<api, queues, current, holder, pending, seen>>

(* The cache has none: it will be created from the draft. *)
FindNoConfig(l) ==
  /\ loader[l] = "mapRead" /\ cached = Absent
  /\ loader' = [loader EXCEPT ![l] = "create"]
  /\ UNCHANGED <<api, queues, current, holder, draft, pending, seen>>

(* Mutant: the object is written whether or not there is one by now. *)
CreateOrReplace(l) ==
  /\ loader[l] = "create"
  /\ WriteConfig(draft[l])
  /\ loader' = [loader EXCEPT ![l] = "merged"]
  /\ UNCHANGED <<configMap, mapWire, edits, queues, current, holder, draft, pending, seen>>

CreateConfig(l) ==
  /\ loader[l] = "create" /\ crd = Absent
  /\ WriteConfig(draft[l])
  /\ loader' = [loader EXCEPT ![l] = "merged"]
  /\ UNCHANGED <<configMap, mapWire, edits, queues, current, holder, draft, pending, seen>>

Leave(l) ==
  /\ holder' = None
  /\ loader' = [loader EXCEPT ![l] = "idle"]
  /\ draft' = [draft EXCEPT ![l] = Absent]

(* The object is created and the call still returns an error. *)
CreateTimesOut(l) ==
  /\ loader[l] = "create" /\ crd = Absent
  /\ WriteConfig(draft[l])
  /\ Leave(l)
  /\ UNCHANGED <<configMap, mapWire, edits, queues, current, pending, seen>>

(* An API error, or an object that somebody else has created meanwhile. *)
LoadFails(l) ==
  /\ loader[l] \in {"mapRead", "create"}
  /\ Leave(l)
  /\ UNCHANGED <<api, queues, current, pending, seen>>

(* Mutant: the configuration is stored without a look at it. *)
StoreUnchecked(l) ==
  /\ loader[l] = "merged"
  /\ current' = draft[l]
  /\ Leave(l)
  /\ UNCHANGED <<api, queues, pending, seen>>

(* Defaults, validation, and the result is stored. *)
StoreLoaded(l) ==
  /\ loader[l] = "merged"
  /\ current' = IF Valid(WithDefaults(draft[l])) THEN WithDefaults(draft[l]) ELSE current
  /\ Leave(l)
  /\ UNCHANGED <<api, queues, pending, seen>>

----------------------------------------------------------------------------
(* handleConfigChange: a deleted object stands for the default. *)
Received(w) == IF Head(events[w]) = Absent THEN Default ELSE Head(events[w])

IgnoreChange(w) ==
  /\ events[w] # <<>>
  /\ ~Valid(Received(w))
  /\ events' = [events EXCEPT ![w] = Tail(@)]
  /\ UNCHANGED <<api, cached, cachedMap, mapEvents, reloads, current, calls, pending, seen>>

(* Mutant: the handler does not wait for the mutex. *)
AcceptWithoutMutex(w) ==
  /\ events[w] # <<>>
  /\ Valid(Received(w))
  /\ current' = Received(w)
  /\ events' = [events EXCEPT ![w] = Tail(@)]
  /\ pending' = Append(pending, Received(w))
  /\ UNCHANGED <<api, cached, cachedMap, mapEvents, reloads, calls, seen>>

(* Mutant: the configuration is stored and nobody is told. *)
AcceptSilently(w) ==
  /\ events[w] # <<>>
  /\ Valid(Received(w))
  /\ holder = None
  /\ current' = Received(w)
  /\ events' = [events EXCEPT ![w] = Tail(@)]
  /\ UNCHANGED <<api, cached, cachedMap, mapEvents, reloads, calls, pending, seen>>

AcceptChange(w) ==
  /\ events[w] # <<>>
  /\ Valid(Received(w))
  /\ holder = None
  /\ current' = Received(w)
  /\ events' = [events EXCEPT ![w] = Tail(@)]
  /\ pending' = Append(pending, Received(w))
  /\ UNCHANGED <<api, cached, cachedMap, mapEvents, reloads, calls, seen>>

(* The callbacks run in goroutines: in any order. *)
RunCallback ==
  \E i \in DOMAIN pending :
    /\ seen' = pending[i]
    /\ pending' = RemoveAt(pending, i)
    /\ UNCHANGED <<api, queues, current, calls>>

(* handleConfigMapChange: a goroutine will load the configuration. *)
HandleMapChange ==
  /\ mapEvents > 0
  /\ holder = None
  /\ mapEvents' = mapEvents - 1
  /\ reloads' = reloads + 1
  /\ UNCHANGED <<api, cached, cachedMap, events, current, calls, pending, seen>>

----------------------------------------------------------------------------
Init ==
  /\ crd \in Specs \cup {Absent}
  /\ configMap \in MapData \cup {Absent}
  /\ edits = 0
  /\ wire = <<>> /\ mapWire = <<>>
  /\ cached = crd /\ cachedMap = configMap
  /\ events = [w \in Watches |-> IF crd = Absent THEN <<>> ELSE <<crd>>]
  /\ mapEvents = IF configMap = Absent THEN 0 ELSE 1
  /\ reloads = 0
  /\ current = Absent
  /\ holder = None
  /\ loader = [l \in Loaders |-> "idle"]
  /\ draft = [l \in Loaders |-> Absent]
  /\ pending = <<>>
  /\ seen = Absent

GoOn(l) ==
  \/ ReadConfig(l) \/ FindNoConfig(l) \/ CreateConfig(l) \/ CreateTimesOut(l)
  \/ LoadFails(l) \/ StoreLoaded(l)
Handle(w) == IgnoreChange(w) \/ AcceptChange(w)

Next ==
  \/ \E c \in Specs \cup {Absent} : EditConfig(c)
  \/ \E c \in Specs : ApplyConfig(c)
  \/ \E d \in MapData \cup {Absent} : EditMap(d)
  \/ \E l \in Loaders : CallLoad(l) \/ BeginReload(l) \/ GoOn(l)
  \/ \E w \in Watches : Handle(w)
  \/ CacheReceives \/ CacheReceivesMap \/ RunCallback \/ HandleMapChange

(* The API server answers, the watches deliver and get the mutex, which    *)
(* the calls of LoadConfig keep taking, and goroutines run.                *)
Spec ==
  /\ Init /\ [][Next]_vars
  /\ \A l \in Loaders : WF_vars(GoOn(l))
  /\ \A w \in Watches : SF_vars(Handle(w))
  /\ WF_vars(CacheReceives) /\ WF_vars(RunCallback)

----------------------------------------------------------------------------
Configs == [Fields -> Nat]

(* Type invariant of the configuration manager: a call of LoadConfig is    *)
(* under way exactly if it holds the mutex, and then has a draft.          *)
TypeOK ==
  /\ {crd, cached, current, seen} \subseteq Configs \cup {Absent}
  /\ {configMap, cachedMap} \subseteq MapData \cup {Default, Absent}
  /\ mapWire \in Seq(MapData \cup {Default, Absent})
  /\ edits \in 0..MaxEdits
  /\ {wire, pending} \subseteq Seq(Configs \cup {Absent})
  /\ events \in [Watches -> Seq(Configs \cup {Absent})]
  /\ {mapEvents, reloads} \subseteq Nat
  /\ holder \in Loaders \cup {None}
  /\ loader \in [Loaders -> {"idle", "mapRead", "create", "merged"}]
  /\ \A l \in Loaders : loader[l] # "idle" <=> holder = l
  /\ draft \in [Loaders -> Configs \cup {Absent}]
  /\ \A l \in Loaders : loader[l] # "idle" => draft[l] # Absent

(* Whatever the user writes and however loads and watches interleave, the  *)
(* configuration in force and every one handed to a callback is valid.     *)
OnlyValidInForce ==
  \A c \in {current, seen} \cup Range(pending) : c # Absent => Valid(c)

(* LoadConfig creates a ShardConfig from a cache that may be behind; it    *)
(* never replaces one that a user has written meanwhile.                   *)
UserConfigKept == [][crd' # crd /\ crd # Absent => edits' = edits + 1]_vars

(* When the ShardConfig stays at a valid value, that value comes into      *)
(* force and stays so: no call of LoadConfig that has read an older one    *)
(* stores it after the watch has stored the newer.                         *)
ShardConfigWins ==
  \A c \in Specs : Valid(c) => (<>[](crd = c) => <>[](current = c))

(* A valid ShardConfig that the cache hands to a watch, the defaults in    *)
(* place of a deleted one, reaches the callback, however many follow it    *)
(* and whatever loads keep the handler waiting.  In which order several    *)
(* arrive is not said: their goroutines may overtake each other.           *)
EveryChangeReported ==
  \A w \in Watches, c \in Specs \cup {Default} :
    Valid(c) =>
      ((\E e \in Range(events[w]) : c = IF e = Absent THEN Default ELSE e) ~> (seen = c))
=============================================================================
