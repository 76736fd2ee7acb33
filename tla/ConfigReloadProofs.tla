------------------------- MODULE ConfigReloadProofs -------------------------
(***************************************************************************)
(* Proofs about ConfigReload for all specifications and ConfigMaps a user  *)
(* may write, any number of callers and watches and any number of edits.   *)
(***************************************************************************)
EXTENDS ConfigReload, TLAPS

(* The helpers on configurations yield configurations.                     *)
LEMMA HelpersTyped ==
  /\ Default \in Configs
  /\ \A c \in Configs : WithDefaults(c) \in Configs
  /\ \A d \in MapData \cup {Default} : Parsed(d, Default) \in Configs
<1>1. Default \in Configs
  BY DefaultAssumption DEF Configs
<1>2. ASSUME NEW c \in Configs PROVE WithDefaults(c) \in Configs
  BY <1>1 DEF WithDefaults, Configs
<1>3. ASSUME NEW d \in MapData \cup {Default} PROVE Parsed(d, Default) \in Configs
  <2>1. \A f \in Fields : f \in DOMAIN d => d[f] \in Nat
    BY <1>1, MapAssumption DEF Configs
  <2> QED BY <1>1, <2>1 DEF Parsed, Configs
<1> QED BY <1>1, <1>2, <1>3

(* Defaults that are applied after the validation, as                      *)
(* ValidateAndApplyConfig does, change nothing.                            *)
THEOREM DefaultsAfterValidation ==
  ASSUME NEW c \in Configs, Valid(c)
  PROVE  WithDefaults(c) = c
<1>1. \A f \in Fields : ~(c[f] <= 0)
  <2>0. {"min", "max", "timeout"} = Fields
    BY DEF Fields
  <2>1. c["min"] \in Nat /\ c["max"] \in Nat /\ c["timeout"] \in Nat
    BY <2>0 DEF Configs
  <2>2. c["min"] > 0 /\ c["max"] >= c["min"] /\ c["timeout"] > 0
    BY DEF Valid
  <2> QED BY <2>1, <2>2 DEF Fields
<1> QED BY <1>1 DEF WithDefaults, Configs

(* One element is taken out of a sequence. *)
LEMMA RemoveAtElements ==
  ASSUME NEW S, NEW s \in Seq(S), NEW i \in DOMAIN s
  PROVE  /\ s[i] \in S /\ RemoveAt(s, i) \in Seq(S)
         /\ Range(RemoveAt(s, i)) \subseteq Range(s)
<1> DEFINE a == SubSeq(s, 1, i - 1)
           b == SubSeq(s, i + 1, Len(s))
           r == a \o b
<1>1. i \in 1..Len(s) /\ Len(s) \in Nat
  OBVIOUS
<1>2. /\ a \in Seq(S) /\ Len(a) = i - 1 /\ \A j \in 1..i - 1 : a[j] = s[j]
      /\ b \in Seq(S) /\ Len(b) = Len(s) - i /\ \A j \in 1..Len(s) - i : b[j] = s[i + j]
  BY <1>1
<1> HIDE DEF a, b
<1>3. /\ r \in Seq(S) /\ DOMAIN r = 1..Len(s) - 1
      /\ \A j \in 1..Len(s) - 1 : r[j] = IF j <= i - 1 THEN a[j] ELSE b[j - (i - 1)]
  BY <1>1, <1>2
<1> HIDE DEF r
<1>4. ASSUME NEW j \in 1..Len(s) - 1 PROVE \E k \in 1..Len(s) : r[j] = s[k]
  <2>1. CASE j <= i - 1
    BY <1>1, <1>2, <1>3, <2>1
  <2>2. CASE ~(j <= i - 1)
    <3>1. j - (i - 1) \in 1..Len(s) - i /\ i + (j - (i - 1)) = j + 1 /\ j + 1 \in 1..Len(s)
      BY <1>1, <2>2
    <3>2. r[j] = s[j + 1]
      BY <1>2, <1>3, <2>2, <3>1
    <3> QED BY <3>1, <3>2
  <2> QED BY <2>1, <2>2
<1>5. Range(r) \subseteq Range(s)
  <2>1. DOMAIN s = 1..Len(s)
    OBVIOUS
  <2>2. ASSUME NEW x \in Range(r) PROVE x \in Range(s)
    <3>1. PICK j \in 1..Len(s) - 1 : x = r[j]
      BY <1>3 DEF Range
    <3>2. PICK k \in 1..Len(s) : x = s[k]
      BY <1>4, <3>1
    <3> QED BY <2>1, <3>2 DEF Range
  <2> QED BY <2>2
<1> QED BY <1>1, <1>3, <1>5 DEF RemoveAt, a, b, r

(* One element is added to a sequence. *)
LEMMA AppendRange ==
  ASSUME NEW S, NEW s \in Seq(S), NEW e \in S
  PROVE  Range(Append(s, e)) = Range(s) \cup {e}
<1> DEFINE t == Append(s, e)
<1>1. /\ Len(s) \in Nat /\ DOMAIN s = 1..Len(s) /\ DOMAIN t = 1..Len(s) \cup {Len(s) + 1}
      /\ t[Len(s) + 1] = e /\ \A i \in 1..Len(s) : t[i] = s[i]
  OBVIOUS
<1> HIDE DEF t
<1>2. Range(t) = Range(s) \cup {e}
  BY <1>1 DEF Range
<1> QED BY <1>2 DEF t

----------------------------------------------------------------------------
(* Type correctness. *)

MaybeConfigs == Configs \cup {Absent}
MaybeMaps == MapData \cup {Default, Absent}

(* One more change travels to the cache. *)
LEMMA WriteTyped ==
  ASSUME TypeOK, NEW c \in MaybeConfigs, WriteConfig(c)
  PROVE  crd' \in MaybeConfigs /\ wire' \in Seq(MaybeConfigs)
BY DEF WriteConfig, TypeOK, MaybeConfigs

(* The user's changes and the cache. *)
LEMMA EditTyped ==
  ASSUME TypeOK, NEW c \in MaybeConfigs, EditConfig(c)
  PROVE  TypeOK'
<1>1. crd' \in MaybeConfigs /\ wire' \in Seq(MaybeConfigs)
  BY WriteTyped DEF EditConfig
<1>2. edits' \in 0..MaxEdits
  BY EditsAssumption DEF EditConfig, TypeOK
<1> QED BY <1>1, <1>2 DEF EditConfig, TypeOK, MaybeConfigs, queues, calls

(* So does one of the ConfigMap. *)
LEMMA MapWriteTyped ==
  ASSUME TypeOK, NEW d \in MaybeMaps, WriteMap(d)
  PROVE  configMap' \in MaybeMaps /\ mapWire' \in Seq(MaybeMaps)
BY DEF WriteMap, TypeOK, MaybeMaps

LEMMA UserTyped ==
  ASSUME TypeOK,
         \/ \E c \in Specs \cup {Absent} : EditConfig(c)
         \/ \E c \in Specs : ApplyConfig(c)
         \/ \E d \in MapData \cup {Absent} : EditMap(d)
         \/ CacheReceives \/ CacheReceivesMap
  PROVE  TypeOK'
<1>1. ASSUME NEW c \in Specs \cup {Absent}, EditConfig(c) PROVE TypeOK'
  BY <1>1, EditTyped, SpecsAssumption DEF MaybeConfigs, Configs
<1>2. ASSUME NEW c \in Specs, ApplyConfig(c) PROVE TypeOK'
  <2>1. WithDefaults(c) \in MaybeConfigs
    BY HelpersTyped, SpecsAssumption DEF MaybeConfigs, Configs
  <2> QED BY <1>2, <2>1, EditTyped DEF ApplyConfig
<1>3. ASSUME NEW d \in MapData \cup {Absent}, EditMap(d) PROVE TypeOK'
  <2>1. edits' \in 0..MaxEdits
    BY <1>3, EditsAssumption DEF EditMap, TypeOK
  <2>2. configMap' \in MaybeMaps /\ mapWire' \in Seq(MaybeMaps)
    BY <1>3, MapWriteTyped DEF EditMap, MaybeMaps
  <2> QED BY <1>3, <2>1, <2>2 DEF EditMap, TypeOK, MaybeMaps, queues, calls
<1>4. CASE CacheReceives
  <2>1. Head(wire) \in MaybeConfigs /\ Tail(wire) \in Seq(MaybeConfigs)
    BY <1>4 DEF CacheReceives, TypeOK, MaybeConfigs
  <2>2. events' \in [Watches -> Seq(MaybeConfigs)]
    BY <1>4, <2>1 DEF CacheReceives, TypeOK, MaybeConfigs
  <2> QED BY <1>4, <2>1, <2>2 DEF CacheReceives, TypeOK, MaybeConfigs, calls
<1>5. CASE CacheReceivesMap
  <2>1. Head(mapWire) \in MaybeMaps /\ Tail(mapWire) \in Seq(MaybeMaps) /\ mapEvents' \in Nat
    BY <1>5 DEF CacheReceivesMap, TypeOK, MaybeMaps
  <2> QED BY <1>5, <2>1 DEF CacheReceivesMap, TypeOK, MaybeMaps, calls
<1> QED BY <1>1, <1>2, <1>3, <1>4, <1>5

(* The calls of LoadConfig. *)
LEMMA ReadMapTyped ==
  ASSUME TypeOK, NEW l \in Loaders, CallLoad(l) \/ BeginReload(l)
  PROVE  TypeOK'
<1>1. ReadMap(l) /\ reloads' \in Nat
  BY DEF CallLoad, BeginReload, TypeOK
<1>2. /\ draft' \in [Loaders -> MaybeConfigs] /\ draft'[l] \in Configs
      /\ configMap' \in MaybeMaps /\ mapWire' \in Seq(MaybeMaps)
  <2>1. CASE cachedMap # Absent /\ draft' = [draft EXCEPT ![l] = Parsed(cachedMap, Default)]
             /\ UNCHANGED <<configMap, mapWire>>
    <3>1. Parsed(cachedMap, Default) \in Configs
      BY <2>1, HelpersTyped DEF TypeOK
    <3> QED BY <2>1, <3>1 DEF TypeOK, MaybeConfigs, MaybeMaps
  <2>2. CASE WriteMap(Default) /\ draft' = [draft EXCEPT ![l] = Default]
    <3>1. configMap' \in MaybeMaps /\ mapWire' \in Seq(MaybeMaps)
      BY <2>2, MapWriteTyped DEF MaybeMaps
    <3> QED BY <2>2, <3>1, HelpersTyped DEF TypeOK, MaybeConfigs
  <2>3. CASE draft' = [draft EXCEPT ![l] = Default] /\ UNCHANGED <<configMap, mapWire>>
    BY <2>3, HelpersTyped DEF TypeOK, MaybeConfigs, MaybeMaps
  <2> QED BY <1>1, <2>1, <2>2, <2>3 DEF ReadMap
<1>3. /\ holder' \in Loaders \cup {None}
      /\ loader' \in [Loaders -> {"idle", "mapRead", "create", "merged"}]
      /\ \A m \in Loaders : loader'[m] # "idle" <=> holder' = m
  BY <1>1, LoadersAssumption DEF ReadMap, TypeOK
<1>4. \A m \in Loaders : loader'[m] # "idle" => draft'[m] # Absent
  <2>1. \A m \in Loaders \ {l} : loader'[m] = "idle"
    BY <1>1, LoadersAssumption DEF ReadMap, TypeOK
  <2> QED BY <1>2, <2>1, SpecsAssumption DEF Configs
<1> QED BY <1>1, <1>2, <1>3, <1>4 DEF ReadMap, TypeOK, MaybeConfigs, MaybeMaps

LEMMA LeaveTyped ==
  ASSUME TypeOK, NEW l \in Loaders, loader[l] # "idle", Leave(l)
  PROVE  /\ holder' \in Loaders \cup {None}
         /\ loader' \in [Loaders -> {"idle", "mapRead", "create", "merged"}]
         /\ \A m \in Loaders : loader'[m] # "idle" <=> holder' = m
         /\ draft' \in [Loaders -> MaybeConfigs]
         /\ \A m \in Loaders : loader'[m] # "idle" => draft'[m] # Absent
BY LoadersAssumption DEF Leave, TypeOK, MaybeConfigs

LEMMA LoadTyped ==
  ASSUME TypeOK, NEW l \in Loaders, GoOn(l)
  PROVE  TypeOK'
<1>1. CASE ReadConfig(l)
  <2>1. draft' \in [Loaders -> MaybeConfigs]
    BY <1>1 DEF ReadConfig, TypeOK, MaybeConfigs
  <2>2. /\ loader' \in [Loaders -> {"idle", "mapRead", "create", "merged"}]
        /\ \A m \in Loaders : loader'[m] # "idle" <=> holder = m
        /\ \A m \in Loaders : loader'[m] # "idle" => draft'[m] # Absent
    BY <1>1 DEF ReadConfig, TypeOK
  <2> QED BY <1>1, <2>1, <2>2 DEF ReadConfig, TypeOK, MaybeConfigs, api, queues
<1>2. CASE FindNoConfig(l)
  <2>1. /\ loader' \in [Loaders -> {"idle", "mapRead", "create", "merged"}]
        /\ \A m \in Loaders : loader'[m] # "idle" <=> holder = m
        /\ \A m \in Loaders : loader'[m] # "idle" => draft[m] # Absent
    BY <1>2 DEF FindNoConfig, TypeOK
  <2> QED BY <1>2, <2>1 DEF FindNoConfig, TypeOK, api, queues
<1>3. CASE CreateConfig(l)
  <2>1. draft[l] \in MaybeConfigs
    BY DEF TypeOK, MaybeConfigs
  <2>2. crd' \in MaybeConfigs /\ wire' \in Seq(MaybeConfigs)
    BY <1>3, <2>1, WriteTyped DEF CreateConfig
  <2>3. /\ loader' \in [Loaders -> {"idle", "mapRead", "create", "merged"}]
        /\ \A m \in Loaders : loader'[m] # "idle" <=> holder = m
        /\ \A m \in Loaders : loader'[m] # "idle" => draft[m] # Absent
    BY <1>3 DEF CreateConfig, TypeOK
  <2> QED BY <1>3, <2>2, <2>3 DEF CreateConfig, TypeOK, MaybeConfigs, queues
<1>4. CASE LoadFails(l)
  <2>1. loader[l] # "idle" /\ Leave(l)
    BY <1>4 DEF LoadFails
  <2> QED BY <1>4, <2>1, LeaveTyped DEF LoadFails, TypeOK, MaybeConfigs, api, queues
<1>5. CASE StoreLoaded(l)
  <2>1. loader[l] # "idle" /\ Leave(l)
    BY <1>5 DEF StoreLoaded
  <2>2. draft[l] # Absent
    BY <1>5 DEF StoreLoaded, TypeOK
  <2>3. current' \in MaybeConfigs
    BY <1>5, <2>2, HelpersTyped DEF StoreLoaded, TypeOK, MaybeConfigs
  <2> QED BY <1>5, <2>1, <2>3, LeaveTyped DEF StoreLoaded, TypeOK, MaybeConfigs, api, queues
<1>6. CASE CreateTimesOut(l)
  <2>1. draft[l] \in MaybeConfigs /\ loader[l] # "idle" /\ Leave(l)
    BY <1>6 DEF CreateTimesOut, TypeOK, MaybeConfigs
  <2>2. crd' \in MaybeConfigs /\ wire' \in Seq(MaybeConfigs)
    BY <1>6, <2>1, WriteTyped DEF CreateTimesOut
  <2> QED BY <1>6, <2>1, <2>2, LeaveTyped DEF CreateTimesOut, TypeOK, MaybeConfigs, queues
<1> QED BY <1>1, <1>2, <1>3, <1>4, <1>5, <1>6 DEF GoOn

(* The watches and the callbacks. *)
LEMMA ReceivedTyped ==
  ASSUME TypeOK, NEW w \in Watches, events[w] # <<>>
  PROVE  /\ Received(w) \in Configs
         /\ [events EXCEPT ![w] = Tail(@)] \in [Watches -> Seq(MaybeConfigs)]
<1>1. Head(events[w]) \in MaybeConfigs /\ Tail(events[w]) \in Seq(MaybeConfigs)
  BY DEF TypeOK, MaybeConfigs
<1> QED BY <1>1, HelpersTyped DEF Received, TypeOK, MaybeConfigs

LEMMA WatchTyped ==
  ASSUME TypeOK, RunCallback \/ HandleMapChange \/ \E w \in Watches : Handle(w)
  PROVE  TypeOK'
<1>1. ASSUME NEW w \in Watches, IgnoreChange(w) PROVE TypeOK'
  BY <1>1, ReceivedTyped DEF IgnoreChange, TypeOK, MaybeConfigs, api, calls
<1>2. ASSUME NEW w \in Watches, AcceptChange(w) PROVE TypeOK'
  <2>1. Received(w) \in MaybeConfigs /\ events' \in [Watches -> Seq(MaybeConfigs)]
    BY <1>2, ReceivedTyped DEF AcceptChange, MaybeConfigs
  <2>2. pending' \in Seq(MaybeConfigs)
    BY <1>2, <2>1 DEF AcceptChange, TypeOK, MaybeConfigs
  <2> QED BY <1>2, <2>1, <2>2 DEF AcceptChange, TypeOK, MaybeConfigs, api, calls
<1>3. CASE RunCallback
  <2>1. seen' \in MaybeConfigs /\ pending' \in Seq(MaybeConfigs)
    BY <1>3, RemoveAtElements DEF RunCallback, TypeOK, MaybeConfigs
  <2> QED BY <1>3, <2>1 DEF RunCallback, TypeOK, MaybeConfigs, api, queues, calls
<1>4. CASE HandleMapChange
  <2>1. mapEvents' \in Nat /\ reloads' \in Nat
    BY <1>4 DEF HandleMapChange, TypeOK
  <2> QED BY <1>4, <2>1 DEF HandleMapChange, TypeOK, api, calls
<1> QED BY <1>1, <1>2, <1>3, <1>4 DEF Handle

(* The state of the manager is well typed, for every configuration and     *)
(* number of callers: whoever is between the first read and the store of   *)
(* LoadConfig holds the mutex, and nobody else does.                       *)
THEOREM TypeCorrect == Spec => []TypeOK
<1>1. Init => TypeOK
  <2> SUFFICES ASSUME Init PROVE TypeOK
    OBVIOUS
  <2>1. crd \in MaybeConfigs
    BY SpecsAssumption DEF Init, MaybeConfigs, Configs
  <2>2. /\ wire \in Seq(MaybeConfigs) /\ pending \in Seq(MaybeConfigs) /\ mapWire = <<>>
        /\ events \in [Watches -> Seq(MaybeConfigs)]
    BY <2>1 DEF Init
  <2> QED BY <2>1, <2>2, EditsAssumption, LoadersAssumption DEF Init, TypeOK, MaybeConfigs
<1>2. TypeOK /\ [Next]_vars => TypeOK'
  <2> SUFFICES ASSUME TypeOK, [Next]_vars PROVE TypeOK'
    OBVIOUS
  <2>1. CASE Next
    BY <2>1, UserTyped, ReadMapTyped, LoadTyped, WatchTyped DEF Next
  <2>2. CASE UNCHANGED vars
    BY <2>2 DEF vars, api, queues, calls, TypeOK
  <2> QED BY <2>1, <2>2
<1> QED BY <1>1, <1>2, PTL DEF Spec

----------------------------------------------------------------------------
(* Validity. *)

(* Every way into shardConfig and to the callbacks leads through           *)
(* ValidateShardConfig: no invalid configuration is ever in force.         *)
THEOREM AlwaysValid == Spec => []OnlyValidInForce
<1>1. Init => OnlyValidInForce
  BY DEF Init, OnlyValidInForce, Range
<1>2. TypeOK /\ OnlyValidInForce /\ [Next]_vars => OnlyValidInForce'
  <2> SUFFICES ASSUME TypeOK, OnlyValidInForce, [Next]_vars PROVE OnlyValidInForce'
    OBVIOUS
  <2>1. ASSUME NEW l \in Loaders, StoreLoaded(l) PROVE OnlyValidInForce'
    BY <2>1 DEF StoreLoaded, OnlyValidInForce
  <2>2. ASSUME NEW w \in Watches, AcceptChange(w) PROVE OnlyValidInForce'
    <3>1. /\ Valid(Received(w)) /\ current' = Received(w) /\ seen' = seen
          /\ pending' = Append(pending, Received(w)) /\ Received(w) \in MaybeConfigs
      BY <2>2, ReceivedTyped DEF AcceptChange, MaybeConfigs
    <3>2. Range(pending') = Range(pending) \cup {Received(w)}
      <4>1. pending \in Seq(MaybeConfigs)
        BY DEF TypeOK, MaybeConfigs
      <4> QED BY <3>1, <4>1, AppendRange
    <3> QED BY <3>1, <3>2 DEF OnlyValidInForce
  <2>3. CASE RunCallback
    <3>1. PICK i \in DOMAIN pending : seen' = pending[i] /\ pending' = RemoveAt(pending, i)
      BY <2>3 DEF RunCallback
    <3>2. pending[i] \in Range(pending) /\ Range(pending') \subseteq Range(pending)
      <4>1. pending \in Seq(MaybeConfigs)
        BY DEF TypeOK, MaybeConfigs
      <4>2. Range(RemoveAt(pending, i)) \subseteq Range(pending)
        BY <4>1, RemoveAtElements
      <4> QED BY <3>1, <4>2 DEF Range
    <3> QED BY <2>3, <3>1, <3>2 DEF RunCallback, OnlyValidInForce
  <2>4. CASE UNCHANGED <<current, pending, seen>>
    BY <2>4 DEF OnlyValidInForce
  <2> QED BY <2>1, <2>2, <2>3, <2>4
          DEF Next, EditConfig, ApplyConfig, EditMap, CacheReceives, CallLoad, BeginReload,
              ReadMap, GoOn, ReadConfig, FindNoConfig, CreateConfig, CreateTimesOut,
              LoadFails, Handle, IgnoreChange, CacheReceivesMap, HandleMapChange, vars
<1> QED BY <1>1, <1>2, TypeCorrect, PTL DEF Spec

(* LoadConfig creates a ShardConfig where there is none; whatever a user   *)
(* has written stays until the user changes it.                            *)
THEOREM NothingReplaced == Spec => UserConfigKept
<1> DEFINE Kept == crd' # crd /\ crd # Absent => edits' = edits + 1
<1>1. ASSUME [Next]_vars PROVE Kept
  <2>1. ASSUME NEW c, EditConfig(c) PROVE Kept
    BY <2>1 DEF EditConfig
  <2>2. ASSUME NEW l \in Loaders, CreateConfig(l) \/ CreateTimesOut(l) PROVE Kept
    BY <2>2 DEF CreateConfig, CreateTimesOut
  <2>3. CASE UNCHANGED crd
    BY <2>3
  <2> HIDE DEF Kept
  <2> QED BY <1>1, <2>1, <2>2, <2>3
          DEF Next, ApplyConfig, EditMap, CacheReceives, CacheReceivesMap, CallLoad, BeginReload, ReadMap, GoOn,
              ReadConfig, FindNoConfig, LoadFails, StoreLoaded, Handle, IgnoreChange,
              AcceptChange, RunCallback, HandleMapChange, vars, api
<1> QED BY <1>1, PTL DEF Spec, UserConfigKept
=============================================================================
