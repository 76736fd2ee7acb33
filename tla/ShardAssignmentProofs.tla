----------------------- MODULE ShardAssignmentProofs -----------------------
(***************************************************************************)
(* What the ring and the load balancer do for every number of shards, of   *)
(* hashes and of virtual nodes.  Two things are assumed where a theorem    *)
(* names them: no hash belongs to two shards (utils/hash.go would let the  *)
(* second take it over), and UpdateShardNodes has one caller at a time.    *)
(***************************************************************************)
EXTENDS ShardAssignment, SetSums, FiniteSetTheorems, TLAPS

NoCollisions ==
  \A m, n \in Shards : m # n => PointsOf[m] \cap PointsOf[n] = {}

OneUpdater == \A u, v \in Updaters : u = v

Rings == [owner : [Ring!Hashes -> Shards \cup {NoShard}], copies : [Ring!Hashes -> Nat]]

----------------------------------------------------------------------------
(* The way round the ring. *)
LEMMA DistanceValue ==
  ASSUME NEW key \in Ring!Hashes, NEW h \in Ring!Hashes
  PROVE  /\ h >= key => Ring!Distance(key, h) = h - key
         /\ h < key => Ring!Distance(key, h) = h - key + HashSize
BY RingAssumption DEF Ring!Distance, Ring!Hashes

----------------------------------------------------------------------------
(* A ring that holds every virtual node of its nodes, and no other, once.  *)
Exact(r) ==
  /\ r \in Rings
  /\ \A h \in Ring!Hashes : r.owner[h] # NoShard =>
       /\ h \in PointsOf[r.owner[h]]
       /\ \A g \in PointsOf[r.owner[h]] : r.owner[g] = r.owner[h]
  /\ \A h \in Ring!Hashes : r.copies[h] = IF r.owner[h] = NoShard THEN 0 ELSE 1

LEMMA ExactPoints ==
  ASSUME NEW r, Exact(r)
  PROVE  Ring!Points(r) = {h \in Ring!Hashes : r.owner[h] # NoShard}
BY DEF Exact, Ring!Points

(* It is the ring of the set of its nodes. *)
LEMMA ExactIsRingOf ==
  ASSUME NEW r, Exact(r)
  PROVE  r = Ring!RingOf(Ring!GetAllNodes(r))
<1> DEFINE S == Ring!GetAllNodes(r)
<1>1. ASSUME NEW h \in Ring!Hashes
      PROVE  {n \in S : h \in PointsOf[n]} =
               IF r.owner[h] = NoShard THEN {} ELSE {r.owner[h]}
  <2>1. ASSUME NEW n \in S, h \in PointsOf[n] PROVE r.owner[h] = n /\ n # NoShard
    BY <2>1 DEF Exact, Ring!GetAllNodes
  <2>2. r.owner[h] # NoShard => r.owner[h] \in S /\ h \in PointsOf[r.owner[h]]
    BY DEF Exact, Ring!GetAllNodes
  <2> QED BY <2>1, <2>2
<1>2. ASSUME NEW h \in Ring!Hashes
      PROVE  r.owner[h] = IF \E n \in S : h \in PointsOf[n]
                          THEN CHOOSE n \in S : h \in PointsOf[n] ELSE NoShard
  BY <1>1
<1>3. ASSUME NEW h \in Ring!Hashes
      PROVE  r.copies[h] = Cardinality({n \in S : h \in PointsOf[n]})
  <2>1. Cardinality({}) = 0 /\ Cardinality({r.owner[h]}) = 1
    BY FS_EmptySet, FS_Singleton
  <2> QED BY <1>1, <2>1 DEF Exact
<1>4. r = [owner |-> [h \in Ring!Hashes |-> r.owner[h]], copies |-> [h \in Ring!Hashes |-> r.copies[h]]]
  BY DEF Exact, Rings
<1> HIDE DEF S
<1>5. Ring!RingOf(S) = [owner |-> [h \in Ring!Hashes |-> r.owner[h]],
                        copies |-> [h \in Ring!Hashes |-> r.copies[h]]]
  BY <1>2, <1>3 DEF Ring!RingOf, Ring!Cardinality, Cardinality
<1> QED BY <1>4, <1>5 DEF S

LEMMA AddExact ==
  ASSUME NoCollisions, NEW r, Exact(r), NEW n \in Shards, n \notin Ring!GetAllNodes(r)
  PROVE  /\ Exact(Ring!AddNode(r, n))
         /\ Ring!GetAllNodes(Ring!AddNode(r, n)) \subseteq Ring!GetAllNodes(r) \cup {n}
         /\ \A h \in Ring!Hashes :
              /\ h \in PointsOf[n] => r.owner[h] = NoShard
              /\ Ring!AddNode(r, n).owner[h] = IF h \in PointsOf[n] THEN n ELSE r.owner[h]
<1> DEFINE a == Ring!AddNode(r, n)
<1>1. ASSUME NEW h \in Ring!Hashes, h \in PointsOf[n] PROVE r.owner[h] = NoShard
  <2>1. r.owner[h] # n /\ r.owner[h] \in Shards \cup {NoShard}
    BY RingAssumption DEF Exact, Rings, Ring!GetAllNodes
  <2> QED BY <1>1, <2>1 DEF Exact, NoCollisions
<1>2. /\ a.owner = [h \in Ring!Hashes |-> IF h \in PointsOf[n] THEN n ELSE r.owner[h]]
      /\ a.copies = [h \in Ring!Hashes |-> r.copies[h] + IF h \in PointsOf[n] THEN 1 ELSE 0]
      /\ a \in Rings
  BY DEF Ring!AddNode, Exact, Rings
<1> HIDE DEF a
<1>3. ASSUME NEW h \in Ring!Hashes, a.owner[h] # NoShard
      PROVE  h \in PointsOf[a.owner[h]] /\ \A g \in PointsOf[a.owner[h]] : a.owner[g] = a.owner[h]
  <2>1. CASE h \in PointsOf[n]
    BY <2>1, <1>2, RingAssumption
  <2>2. CASE h \notin PointsOf[n]
    <3>1. /\ a.owner[h] = r.owner[h] /\ r.owner[h] \in Shards /\ h \in PointsOf[r.owner[h]]
          /\ \A g \in PointsOf[r.owner[h]] : r.owner[g] = r.owner[h]
      BY <2>2, <1>2, <1>3 DEF Exact, Rings
    <3>2. ASSUME NEW g \in PointsOf[r.owner[h]] PROVE a.owner[g] = r.owner[h]
      <4>1. g \in Ring!Hashes /\ g \notin PointsOf[n]
        BY <3>1, <1>1, <1>3, RingAssumption
      <4> QED BY <1>2, <3>1, <4>1
    <3> QED BY <3>1, <3>2
  <2> QED BY <2>1, <2>2
<1>4. ASSUME NEW h \in Ring!Hashes PROVE a.copies[h] = IF a.owner[h] = NoShard THEN 0 ELSE 1
  BY <1>1, <1>2, RingAssumption DEF Exact
<1>5. Exact(a)
  BY <1>2, <1>3, <1>4 DEF Exact
<1>6. Ring!GetAllNodes(a) \subseteq Ring!GetAllNodes(r) \cup {n}
  BY <1>2 DEF Ring!GetAllNodes
<1> QED BY <1>1, <1>2, <1>5, <1>6 DEF a

LEMMA RemoveExact ==
  ASSUME NoCollisions, NEW r, Exact(r), NEW n \in Shards
  PROVE  /\ Exact(Ring!RemoveNode(r, n))
         /\ Ring!GetAllNodes(Ring!RemoveNode(r, n)) \subseteq Ring!GetAllNodes(r) \ {n}
         /\ \A h \in Ring!Hashes :
              Ring!RemoveNode(r, n).owner[h] = IF r.owner[h] = n THEN NoShard ELSE r.owner[h]
<1> DEFINE d == Ring!RemoveNode(r, n)
<1>1. ASSUME NEW h \in Ring!Hashes PROVE
        /\ h \in PointsOf[n] => r.owner[h] \in {n, NoShard}
        /\ r.owner[h] = n => h \in PointsOf[n]
  BY RingAssumption DEF Exact, Rings, NoCollisions
<1>2. /\ d.owner = [h \in Ring!Hashes |-> IF h \in PointsOf[n] THEN NoShard ELSE r.owner[h]]
      /\ d.copies = [h \in Ring!Hashes |-> IF h \in PointsOf[n] /\ r.copies[h] > 0
                                           THEN r.copies[h] - 1 ELSE r.copies[h]]
  BY DEF Ring!RemoveNode
<1>3. ASSUME NEW h \in Ring!Hashes
      PROVE  d.owner[h] = IF r.owner[h] = n THEN NoShard ELSE r.owner[h]
  BY <1>1, <1>2
<1>4. ASSUME NEW h \in Ring!Hashes
      PROVE  d.copies[h] = IF d.owner[h] = NoShard THEN 0 ELSE 1
  BY <1>1, <1>2 DEF Exact
<1>5. d \in Rings
  <2>1. d = [owner |-> d.owner, copies |-> d.copies]
    BY DEF Ring!RemoveNode
  <2>2. \A h \in Ring!Hashes : d.copies[h] \in Nat /\ d.owner[h] \in Shards \cup {NoShard}
    BY <1>3, <1>4 DEF Exact, Rings
  <2> HIDE DEF d
  <2> QED BY <1>2, <2>1, <2>2 DEF Rings
<1> HIDE DEF d
<1>6. ASSUME NEW h \in Ring!Hashes, d.owner[h] # NoShard
      PROVE  h \in PointsOf[d.owner[h]] /\ \A g \in PointsOf[d.owner[h]] : d.owner[g] = d.owner[h]
  <2>1. /\ d.owner[h] = r.owner[h] /\ r.owner[h] # n /\ r.owner[h] \in Shards
        /\ h \in PointsOf[r.owner[h]]
        /\ \A g \in PointsOf[r.owner[h]] : r.owner[g] = r.owner[h]
    BY <1>3, <1>6 DEF Exact, Rings
  <2>2. ASSUME NEW g \in PointsOf[r.owner[h]] PROVE d.owner[g] = r.owner[h]
    BY <1>3, <2>1, RingAssumption
  <2> QED BY <2>1, <2>2
<1>7. Exact(d)
  BY <1>4, <1>5, <1>6 DEF Exact
<1>8. Ring!GetAllNodes(d) \subseteq Ring!GetAllNodes(r) \ {n}
  BY <1>3, RingAssumption DEF Ring!GetAllNodes
<1> QED BY <1>3, <1>7, <1>8 DEF d

(* GetNode finds the nearest point, in any exact ring. *)
LEMMA NodeIsOwner ==
  ASSUME NEW r, Exact(r), NEW key \in Ring!Hashes
  PROVE  Ring!Owners(r, key) = {Ring!GetNode(r, key)} \ {NoShard}
<1> DEFINE P == Ring!Points(r)
           p == Ring!PointAfter(r, key)
<1>1. P = {h \in Ring!Hashes : r.owner[h] # NoShard} /\ P \in SUBSET Nat
  BY ExactPoints DEF Ring!Hashes
<1>2. CASE P = {}
  BY <1>1, <1>2, RingAssumption DEF Ring!Owners, Ring!GetNode
<1>3. CASE P # {}
  <2> DEFINE later == {h \in P : h >= key}
  <2>1. p = IF later # {} THEN Min(later) ELSE Min(P)
    BY DEF Ring!PointAfter, Ring!Min, Min
  <2>2. p \in P /\ \A h \in P : /\ p >= key => h < key \/ p <= h
                                /\ p < key => h < key /\ p <= h
    <3>1. CASE later # {}
      <4>1. later \in SUBSET Nat
        BY <1>1
      <4>2. p \in later /\ \A h \in later : p <= h
        BY <2>1, <3>1, <4>1, LeastOf
      <4>3. \A h \in P : h >= key \/ h < key
        BY <1>1 DEF Ring!Hashes
      <4>4. p \in Nat /\ key \in Nat
        BY <4>1, <4>2 DEF Ring!Hashes
      <4> QED BY <4>2, <4>3, <4>4
    <3>2. CASE later = {}
      <4>1. p \in P /\ \A h \in P : p <= h
        BY <1>1, <1>3, <2>1, <3>2, LeastOf
      <4>2. \A h \in P : h < key
        BY <1>1, <3>2 DEF Ring!Hashes
      <4> QED BY <4>1, <4>2, <1>1 DEF Ring!Hashes
    <3> QED BY <3>1, <3>2
  <2> HIDE DEF p, later
  <2>3. ASSUME NEW h \in P
        PROVE  /\ Ring!Distance(key, p) <= Ring!Distance(key, h)
               /\ Ring!Distance(key, h) <= Ring!Distance(key, p) => h = p
    <3>1. p \in Ring!Hashes /\ h \in Ring!Hashes
      BY <1>1, <2>2
    <3>2. HashSize \in Nat /\ p \in 0 .. HashSize - 1 /\ h \in 0 .. HashSize - 1 /\ key \in 0 .. HashSize - 1
      BY <3>1, RingAssumption DEF Ring!Hashes
    <3> QED BY <2>2, <3>1, <3>2, DistanceValue
  <2>4. Ring!GetNode(r, key) = r.owner[p] /\ r.owner[p] \in Shards
    BY <1>1, <1>3, <2>2 DEF Ring!GetNode, Exact, Rings, p
  <2>5. r.owner[p] \in Ring!Owners(r, key)
    <3>1. p \in PointsOf[r.owner[p]]
      BY <1>1, <2>2 DEF Exact
    <3>2. \A g \in Ring!Hashes : r.owner[g] # NoShard => Ring!Distance(key, p) <= Ring!Distance(key, g)
      BY <1>1, <2>3
    <3> QED BY <2>4, <3>1, <3>2 DEF Ring!Owners
  <2>6. ASSUME NEW n \in Ring!Owners(r, key) PROVE n = r.owner[p]
    <3>1. PICK h \in PointsOf[n] :
            /\ r.owner[h] = n
            /\ \A g \in Ring!Hashes : r.owner[g] # NoShard => Ring!Distance(key, h) <= Ring!Distance(key, g)
      BY DEF Ring!Owners
    <3>2. n \in Shards /\ h \in P
      BY <1>1, <3>1, RingAssumption DEF Ring!Owners
    <3>3. Ring!Distance(key, h) <= Ring!Distance(key, p)
      BY <1>1, <2>2, <3>1
    <3> QED BY <2>3, <3>1, <3>2, <3>3
  <2> QED BY <2>4, <2>5, <2>6, RingAssumption
<1> QED BY <1>2, <1>3

----------------------------------------------------------------------------
(* The ring over time.                                                     *)

(* What an updater still adds is not in the ring, because no other updater *)
(* adds it: this is what keeps every virtual node single.                  *)
RInv ==
  /\ Exact(ring)
  /\ updating \in [Updaters -> [remove : SUBSET Shards, add : SUBSET Shards]]
  /\ \A u \in Updaters : updating[u].add \cap Ring!GetAllNodes(ring) = {}

LEMMA InitRing == Init => RInv
<1> SUFFICES ASSUME Init PROVE RInv
  OBVIOUS
<1>1. /\ ring.owner = [h \in Ring!Hashes |-> NoShard] /\ ring.copies = [h \in Ring!Hashes |-> 0]
      /\ ring \in Rings
  BY DEF Init, Ring!EmptyRing, Rings
<1>2. Exact(ring)
  BY <1>1 DEF Exact
<1> QED BY <1>2 DEF Init, RInv

(* The three steps of UpdateShardNodes. *)
LEMMA UpdateKeepsRing ==
  ASSUME NoCollisions, OneUpdater, RInv, NEW u \in Updaters,
         BeginUpdate(u) \/ RemoveNode(u) \/ AddNode(u)
  PROVE  RInv'
<1>1. updating[u] \in [remove : SUBSET Shards, add : SUBSET Shards]
  BY DEF RInv
<1>2. ASSUME BeginUpdate(u) PROVE RInv'
  <2> DEFINE new == [remove |-> Ring!GetAllNodes(ring) \ Running,
                     add    |-> Running \ Ring!GetAllNodes(ring)]
  <2>1. updating' = [updating EXCEPT ![u] = new] /\ ring' = ring
    BY <1>2 DEF BeginUpdate, balancer
  <2>2. new \in [remove : SUBSET Shards, add : SUBSET Shards]
    BY DEF Running, RInv, Exact, Rings, Ring!GetAllNodes
  <2>3. new.add \cap Ring!GetAllNodes(ring) = {}
    OBVIOUS
  <2> HIDE DEF new
  <2> QED BY <2>1, <2>2, <2>3 DEF RInv
<1>3. ASSUME RemoveNode(u) PROVE RInv'
  <2>1. PICK n \in updating[u].remove :
          /\ ring' = Ring!RemoveNode(ring, n)
          /\ updating' = [updating EXCEPT ![u].remove = @ \ {n}]
    BY <1>3 DEF RemoveNode
  <2>2. Exact(ring') /\ Ring!GetAllNodes(ring') \subseteq Ring!GetAllNodes(ring)
    BY <1>1, <2>1, RemoveExact DEF RInv
  <2>3. updating' \in [Updaters -> [remove : SUBSET Shards, add : SUBSET Shards]]
    BY <1>1, <2>1 DEF RInv
  <2>4. \A v \in Updaters : updating'[v].add = updating[v].add
    BY <2>1 DEF RInv
  <2> QED BY <2>2, <2>3, <2>4 DEF RInv
<1>4. ASSUME AddNode(u) PROVE RInv'
  <2>1. PICK n \in updating[u].add :
          /\ ring' = Ring!AddNode(ring, n)
          /\ updating' = [updating EXCEPT ![u].add = @ \ {n}]
    BY <1>4 DEF AddNode
  <2>2. n \in Shards /\ n \notin Ring!GetAllNodes(ring)
    BY <1>1, <2>1 DEF RInv
  <2>3. Exact(ring') /\ Ring!GetAllNodes(ring') \subseteq Ring!GetAllNodes(ring) \cup {n}
    BY <2>1, <2>2, AddExact DEF RInv
  <2>4. updating' \in [Updaters -> [remove : SUBSET Shards, add : SUBSET Shards]]
    BY <1>1, <2>1 DEF RInv
  <2>5. updating'[u].add = updating[u].add \ {n}
    BY <1>1, <2>1 DEF RInv
  <2> QED BY <2>3, <2>4, <2>5 DEF RInv, OneUpdater
<1> QED BY <1>2, <1>3, <1>4

(* Every other step leaves ring and update alone. *)
LEMMA OthersKeepRing ==
  ASSUME [Next]_vars
  PROVE  \/ UNCHANGED <<ring, updating>>
         \/ \E u \in Updaters : BeginUpdate(u) \/ RemoveNode(u) \/ AddNode(u)
BY DEF Next, vars, balancer, CreateShard, StartShard, RemoveShard, Report, ListShards,
       AssignByRing, AssignInTurn, AssignToLeastLoaded, GetOptimalShard, Picked

LEMMA StepRing ==
  ASSUME NoCollisions, OneUpdater
  PROVE  RInv /\ [Next]_vars => RInv'
<1> SUFFICES ASSUME RInv, [Next]_vars PROVE RInv'
  OBVIOUS
<1>1. CASE UNCHANGED <<ring, updating>>
  BY <1>1 DEF RInv
<1>2. CASE \E u \in Updaters : BeginUpdate(u) \/ RemoveNode(u) \/ AddNode(u)
  BY <1>2, UpdateKeepsRing
<1> QED BY <1>1, <1>2, OthersKeepRing

LEMMA RingInvariant ==
  ASSUME NoCollisions, OneUpdater
  PROVE  Spec => []RInv
<1> QED BY InitRing, StepRing, PTL DEF Spec

(* With one updater the ring of the load balancer is, after every step of  *)
(* UpdateShardNodes, the ring of the nodes it holds.                       *)
THEOREM RingAlwaysExact ==
  ASSUME NoCollisions, OneUpdater
  PROVE  Spec => []RingExact
<1>1. RInv => RingExact
  BY ExactIsRingOf DEF RInv, RingExact
<1> QED BY <1>1, RingInvariant, PTL

(* GetNode answers with the node nearest clockwise, for every key and at   *)
(* every moment of an update.                                              *)
THEOREM AlwaysNearest ==
  ASSUME NoCollisions, OneUpdater
  PROVE  Spec => []OwnerIsNearest
<1>1. RInv => OwnerIsNearest
  BY NodeIsOwner DEF RInv, OwnerIsNearest
<1> QED BY <1>1, RingInvariant, PTL

(* A node added or removed moves only its own keys. *)
THEOREM KeysStay ==
  ASSUME NoCollisions, OneUpdater
  PROVE  Spec => MinimalMovement
<1> DEFINE Stays == ring' # ring => \A key \in Ring!Hashes :
             Ring!GetNode(ring', key) # Ring!GetNode(ring, key) =>
               \/ Ring!GetNode(ring, key) \notin Ring!GetAllNodes(ring')
               \/ Ring!GetNode(ring', key) \notin Ring!GetAllNodes(ring)
<1>1. ASSUME RInv, [Next]_vars PROVE Stays
  <2> SUFFICES ASSUME ring' # ring, NEW key \in Ring!Hashes,
                      Ring!GetNode(ring, key) \in Ring!GetAllNodes(ring'),
                      Ring!GetNode(ring', key) \in Ring!GetAllNodes(ring)
               PROVE  Ring!GetNode(ring', key) = Ring!GetNode(ring, key)
    OBVIOUS
  <2> DEFINE m == Ring!GetNode(ring, key)
             k == Ring!GetNode(ring', key)
  <2>1. PICK u \in Updaters : RemoveNode(u) \/ AddNode(u)
    BY <1>1, OthersKeepRing DEF BeginUpdate, balancer
  <2>2. Exact(ring) /\ Exact(ring')
    BY <1>1, StepRing DEF RInv
  <2>3. m # NoShard /\ k # NoShard
    BY DEF Ring!GetAllNodes
  <2>4. Ring!Owners(ring, key) = {m} /\ Ring!Owners(ring', key) = {k}
    BY <2>2, <2>3, NodeIsOwner
  <2> HIDE DEF m, k
  <2>5. CASE RemoveNode(u)
    <3>1. PICK n \in Shards : ring' = Ring!RemoveNode(ring, n)
      BY <1>1, <2>5 DEF RemoveNode, RInv
    <3>2. /\ m # n
          /\ \A h \in Ring!Hashes : ring'.owner[h] = IF ring.owner[h] = n THEN NoShard ELSE ring.owner[h]
      BY <2>2, <3>1, RemoveExact DEF m
    <3>3. m \in Ring!Owners(ring', key)
      <4>1. m \in Shards
        BY <2>4 DEF Ring!Owners
      <4>2. PICK h \in PointsOf[m] :
              /\ ring.owner[h] = m
              /\ \A g \in Ring!Hashes : ring.owner[g] # NoShard => Ring!Distance(key, h) <= Ring!Distance(key, g)
        BY <2>4 DEF Ring!Owners
      <4>3. h \in Ring!Hashes /\ ring'.owner[h] = m
        BY <3>2, <4>1, <4>2, RingAssumption
      <4>4. \A g \in Ring!Hashes : ring'.owner[g] # NoShard => ring.owner[g] # NoShard
        BY <3>2
      <4> QED BY <4>1, <4>2, <4>3, <4>4 DEF Ring!Owners
    <3> QED BY <2>4, <3>3 DEF m, k
  <2>6. CASE AddNode(u)
    <3>1. PICK n \in updating[u].add : ring' = Ring!AddNode(ring, n)
      BY <2>6 DEF AddNode
    <3>2. n \in Shards /\ n \notin Ring!GetAllNodes(ring)
      BY <1>1, <3>1 DEF RInv
    <3>3. /\ k # n
          /\ \A h \in Ring!Hashes :
               /\ h \in PointsOf[n] => ring.owner[h] = NoShard
               /\ ring'.owner[h] = IF h \in PointsOf[n] THEN n ELSE ring.owner[h]
      BY <2>2, <3>1, <3>2, AddExact DEF k
    <3>4. k \in Ring!Owners(ring, key)
      <4>1. k \in Shards
        BY <2>4 DEF Ring!Owners
      <4>2. PICK h \in PointsOf[k] :
              /\ ring'.owner[h] = k
              /\ \A g \in Ring!Hashes : ring'.owner[g] # NoShard => Ring!Distance(key, h) <= Ring!Distance(key, g)
        BY <2>4 DEF Ring!Owners
      <4>3. h \in Ring!Hashes /\ ring.owner[h] = k
        BY <3>3, <4>1, <4>2, RingAssumption
      <4>4. \A g \in Ring!Hashes : ring.owner[g] # NoShard => ring'.owner[g] # NoShard
        BY <3>2, <3>3, RingAssumption
      <4> QED BY <4>1, <4>2, <4>3, <4>4 DEF Ring!Owners
    <3> QED BY <2>4, <3>4 DEF m, k
  <2> QED BY <2>1, <2>5, <2>6
<1>2. RInv /\ [Next]_vars => [Stays]_vars
  BY <1>1
<1> QED BY <1>2, RingInvariant, PTL DEF Spec, MinimalMovement

(* When the ring holds exactly the shards that serve, a resource goes to   *)
(* the nearest one, whatever their loads.                                  *)
THEOREM ResourceGoesToOwner ==
  ASSUME NoCollisions, OneUpdater
  PROVE  Spec => OwnerGetsResource
<1> DEFINE Goes == \A k \in Keys : AssignByRing(k) /\ Ring!GetAllNodes(ring) = Candidates =>
                     pick' \in Ring!Owners(ring, HashOf[k])
<1>1. ASSUME RInv PROVE Goes
  <2> SUFFICES ASSUME NEW k \in Keys, AssignByRing(k), Ring!GetAllNodes(ring) = Candidates
               PROVE  pick' \in Ring!Owners(ring, HashOf[k])
    OBVIOUS
  <2> DEFINE owner == Ring!GetNode(ring, HashOf[k])
  <2>1. HashOf[k] \in Ring!Hashes /\ Exact(ring)
    BY <1>1, RingAssumption DEF RInv
  <2>2. PICK h \in Ring!Hashes : ring.owner[h] # NoShard
    BY DEF AssignByRing, Ring!GetAllNodes
  <2>3. Ring!Points(ring) # {} /\ Ring!Points(ring) \in SUBSET Nat
    BY <2>1, <2>2, ExactPoints DEF Ring!Hashes
  <2>4. Ring!PointAfter(ring, HashOf[k]) \in Ring!Points(ring)
    <3> DEFINE later == {g \in Ring!Points(ring) : g >= HashOf[k]}
    <3>1. Ring!PointAfter(ring, HashOf[k]) = IF later # {} THEN Min(later) ELSE Min(Ring!Points(ring))
      BY DEF Ring!PointAfter, Ring!Min, Min
    <3>2. later \in SUBSET Nat
      BY <2>3
    <3> QED BY <2>3, <3>1, <3>2, LeastOf
  <2>5. owner \in Ring!GetAllNodes(ring) /\ owner # NoShard
    BY <2>1, <2>3, <2>4, ExactPoints DEF Ring!GetNode, Ring!GetAllNodes
  <2>6. pick' = owner
    BY <2>5 DEF AssignByRing, Picked
  <2>7. Ring!Owners(ring, HashOf[k]) = {owner} \ {NoShard}
    BY <2>1, NodeIsOwner
  <2> QED BY <2>5, <2>6, <2>7
<1>2. RInv /\ [Next]_vars => [Goes]_vars
  BY <1>1
<1> QED BY <1>2, RingInvariant, PTL DEF Spec, OwnerGetsResource

----------------------------------------------------------------------------
(* Lists of shards, in any order, and positions in them.                   *)
Distinct(L) == \A i, j \in 1 .. Len(L) : i # j => L[i] # L[j]

Elements(L) == {L[i] : i \in 1 .. Len(L)}

Position(L, s) == CHOOSE i \in 0 .. Len(L) - 1 : L[i + 1] = s

(* A list of the members of C has each of them once. *)
LEMMA ListOf ==
  ASSUME NEW C \in SUBSET Shards, NEW L \in SetToSeqs(C)
  PROVE  /\ L \in Seq(Shards) /\ Distinct(L) /\ Elements(L) = C /\ Len(L) = Cardinality(C)
         /\ Len(L) \in Nat
<1> DEFINE n == Cardinality(C)
           D == 1 .. n
<1>1. IsFiniteSet(C) /\ n \in Nat
  BY RingAssumption, FS_Subset, FS_CardinalityType
<1>2. L \in [D -> C] /\ \A i, j \in D : i # j => L[i] # L[j]
  BY DEF SetToSeqs
<1>3. IsFiniteSet(D) /\ Cardinality(D) = n
  BY <1>1, FS_Interval
<1>4. L \in Injection(D, C)
  <2> HIDE DEF D
  <2> QED BY <1>2 DEF Injection, IsInjective
<1>5. L \in Surjection(D, C)
  <2> HIDE DEF D, n
  <2> QED BY <1>1, <1>3, <1>4, FS_Injection DEF n
<1>6. \A s \in C : \E i \in D : L[i] = s
  BY <1>5 DEF Surjection
<1>7. L \in Seq(Shards) /\ Len(L) = n
  <2>1. L \in [1 .. n -> Shards]
    BY <1>2
  <2> HIDE DEF n
  <2> QED BY <1>1, <2>1
<1> QED BY <1>1, <1>2, <1>6, <1>7 DEF Distinct, Elements

LEMMA PositionRange ==
  ASSUME NEW L \in Seq(Shards), NEW s \in Elements(L)
  PROVE  /\ Len(L) \in Nat
         /\ Position(L, s) \in 0 .. Len(L) - 1
         /\ L[Position(L, s) + 1] = s
<1>1. PICK i \in 1 .. Len(L) : L[i] = s
  BY DEF Elements
<1>2. Len(L) \in Nat /\ i - 1 \in 0 .. Len(L) - 1 /\ L[(i - 1) + 1] = s
  BY <1>1
<1> QED BY <1>2 DEF Position

(* Every position is that of one shard.                                    *)
LEMMA PositionUnique ==
  ASSUME NEW L \in Seq(Shards), NEW s \in Elements(L), NEW u \in Elements(L),
         Position(L, s) = Position(L, u)
  PROVE  s = u
BY PositionRange

LEMMA AtIndexFinds ==
  ASSUME NEW L \in Seq(Shards), Distinct(L), NEW i \in 0 .. Len(L) - 1
  PROVE  AtIndex(L, i) \in Elements(L) /\ Position(L, AtIndex(L, i)) = i
<1>1. Len(L) \in Nat /\ i + 1 \in 1 .. Len(L)
  OBVIOUS
<1>2. AtIndex(L, i) \in Elements(L) /\ L[i + 1] = AtIndex(L, i)
  BY <1>1 DEF AtIndex, Elements
<1> DEFINE p == Position(L, AtIndex(L, i))
<1>3. p \in 0 .. Len(L) - 1 /\ L[p + 1] = L[i + 1]
  BY <1>2, PositionRange
<1> HIDE DEF p
<1>4. p + 1 \in 1 .. Len(L) /\ (p # i => p + 1 # i + 1)
  BY <1>1, <1>3
<1>5. p = i
  BY <1>1, <1>3, <1>4 DEF Distinct
<1> QED BY <1>2, <1>5 DEF p

----------------------------------------------------------------------------
(* Type correctness.                                                       *)
LoadsTyped == load \in [Shards -> Loads]

Typed ==
  /\ phase \in [Shards -> {"absent", "pending", "running"}]
  /\ healthy \in [Shards -> BOOLEAN] /\ LoadsTyped
  /\ strategy \in Strategies
  /\ ring \in Rings
  /\ lastIndex \in -1 .. Cardinality(Shards) - 1
  /\ updating \in [Updaters -> [remove : SUBSET Shards, add : SUBSET Shards]]
  /\ Candidates \subseteq Shards /\ \A s \in Candidates : listed[s] \in Loads
  /\ pick \in Shards \cup {NoShard}
  /\ round \in [list : Seq(Shards), picked : SUBSET Shards]

LEMMA LowestIsLoad == Min(Loads) \in Loads
<1>1. Loads \in SUBSET Nat /\ Loads # {}
  BY LoadsAssumption
<1> QED BY <1>1, LeastOf

LEMMA RingStaysTyped ==
  ASSUME NEW r \in Rings, NEW n \in Shards
  PROVE  Ring!AddNode(r, n) \in Rings /\ Ring!RemoveNode(r, n) \in Rings
<1>1. \A h \in Ring!Hashes : r.copies[h] \in Nat /\ r.owner[h] \in Shards \cup {NoShard}
  BY DEF Rings
<1>2. Ring!AddNode(r, n) \in Rings
  BY <1>1 DEF Ring!AddNode, Rings
<1>3. Ring!RemoveNode(r, n) \in Rings
  BY <1>1 DEF Ring!RemoveNode, Rings
<1> QED BY <1>2, <1>3

(* Round robin's index is an index of the list it is applied to.           *)
LEMMA NextIndexInList ==
  ASSUME NEW L \in SUBSET Shards, L # {}, lastIndex \in -1 .. Cardinality(Shards) - 1
  PROVE  /\ Cardinality(L) \in Nat \ {0} /\ Cardinality(L) <= Cardinality(Shards)
         /\ Cardinality(Shards) \in Nat
         /\ NextIndex(Cardinality(L)) \in 0 .. Cardinality(L) - 1
<1>1. /\ Cardinality(L) \in Nat /\ Cardinality(L) # 0 /\ Cardinality(L) <= Cardinality(Shards)
      /\ Cardinality(Shards) \in Nat
  BY RingAssumption, FS_Subset, FS_CardinalityType, FS_EmptySet
<1>2. NextIndex(Cardinality(L)) \in 0 .. Cardinality(L) - 1
  BY <1>1 DEF NextIndex
<1> QED BY <1>1, <1>2

LEMMA ShardsTyped ==
  ASSUME Typed, NEW s \in Shards, CreateShard(s) \/ StartShard(s) \/ RemoveShard(s) \/ Report(s)
  PROVE  Typed'
<1>1. CASE CreateShard(s)
  BY <1>1 DEF CreateShard, Typed, LoadsTyped, balancer, Candidates
<1>2. CASE StartShard(s)
  BY <1>2 DEF StartShard, Typed, LoadsTyped, balancer, Candidates
<1>3. CASE RemoveShard(s)
  BY <1>3, LowestIsLoad DEF RemoveShard, Typed, LoadsTyped, balancer, Candidates
<1>4. CASE Report(s)
  <2>1. PICK h \in BOOLEAN, l \in Loads :
          /\ healthy' = [healthy EXCEPT ![s] = h]
          /\ load' = [load EXCEPT ![s] = IF h THEN l ELSE Min(Loads)]
    BY <1>4 DEF Report
  <2>2. healthy' \in [Shards -> BOOLEAN] /\ load' \in [Shards -> Loads]
    BY <2>1, LowestIsLoad DEF Typed, LoadsTyped
  <2> QED BY <1>4, <2>2 DEF Report, Typed, LoadsTyped, balancer, Candidates
<1> QED BY <1>1, <1>2, <1>3, <1>4

LEMMA UpdateTyped ==
  ASSUME Typed, NEW u \in Updaters, BeginUpdate(u) \/ RemoveNode(u) \/ AddNode(u)
  PROVE  Typed'
<1>0. updating[u] \in [remove : SUBSET Shards, add : SUBSET Shards]
  BY DEF Typed
<1>1. CASE BeginUpdate(u)
  <2>1. Running \subseteq Shards /\ Ring!GetAllNodes(ring) \subseteq Shards
    BY DEF Typed, Rings, Running, Ring!GetAllNodes
  <2>2. updating' \in [Updaters -> [remove : SUBSET Shards, add : SUBSET Shards]]
    BY <1>1, <2>1 DEF BeginUpdate, Typed
  <2> QED BY <1>1, <2>2 DEF BeginUpdate, Typed, LoadsTyped, balancer, shardVars, Candidates
<1>2. CASE RemoveNode(u)
  <2>1. PICK n \in updating[u].remove :
          /\ ring' = Ring!RemoveNode(ring, n)
          /\ updating' = [updating EXCEPT ![u].remove = @ \ {n}]
    BY <1>2 DEF RemoveNode
  <2>2. ring' \in Rings
    BY <1>0, <2>1, RingStaysTyped DEF Typed
  <2>3. updating' \in [Updaters -> [remove : SUBSET Shards, add : SUBSET Shards]]
    BY <1>0, <2>1 DEF Typed
  <2> QED BY <1>2, <2>2, <2>3 DEF RemoveNode, Typed, LoadsTyped, shardVars, Candidates
<1>3. CASE AddNode(u)
  <2>1. PICK n \in updating[u].add :
          /\ ring' = Ring!AddNode(ring, n)
          /\ updating' = [updating EXCEPT ![u].add = @ \ {n}]
    BY <1>3 DEF AddNode
  <2>2. ring' \in Rings
    BY <1>0, <2>1, RingStaysTyped DEF Typed
  <2>3. updating' \in [Updaters -> [remove : SUBSET Shards, add : SUBSET Shards]]
    BY <1>0, <2>1 DEF Typed
  <2> QED BY <1>3, <2>2, <2>3 DEF AddNode, Typed, LoadsTyped, shardVars, Candidates
<1> QED BY <1>1, <1>2, <1>3

LEMMA PickTyped ==
  ASSUME Typed, NEW s \in Candidates, Picked(s),
         lastIndex' \in -1 .. Cardinality(Shards) - 1,
         round' \in [list : Seq(Shards), picked : SUBSET Shards]
  PROVE  Typed'
<1>1. /\ pick' \in Shards \cup {NoShard}
      /\ listed' = <<>> /\ UNCHANGED <<shardVars, strategy, ring, updating>>
  BY DEF Picked, Typed
<1>2. Candidates' = {}
  BY <1>1 DEF Candidates
<1> QED BY <1>1, <1>2 DEF Typed, LoadsTyped, shardVars

LEMMA AssignmentTyped ==
  ASSUME Typed,
         \/ ListShards \/ (\E k \in Keys : AssignByRing(k))
         \/ AssignInTurn \/ AssignToLeastLoaded \/ GetOptimalShard
  PROVE  Typed'
<1>0. LeastLoaded \subseteq Candidates /\ Candidates \subseteq Shards
  BY DEF Typed, LeastLoaded
<1>1. CASE ListShards
  <2>1. Serving \subseteq Shards /\ \A s \in Serving : load[s] \in Loads
    BY DEF Serving, Typed, LoadsTyped
  <2>2. Candidates' = Serving /\ \A s \in Serving : listed'[s] = load[s]
    BY <1>1 DEF ListShards, Candidates
  <2> QED BY <1>1, <2>1, <2>2 DEF ListShards, Typed, LoadsTyped, balancer, shardVars
<1>2. ASSUME NEW k \in Keys, AssignByRing(k) PROVE Typed'
  <2>1. PICK s \in Candidates : Picked(s)
    BY <1>0, <1>2 DEF AssignByRing
  <2> QED BY <1>2, <2>1, PickTyped DEF AssignByRing, Typed
<1>3. CASE AssignToLeastLoaded \/ GetOptimalShard
  <2>1. PICK s \in Candidates : Picked(s)
    BY <1>0, <1>3 DEF AssignToLeastLoaded, GetOptimalShard
  <2> QED BY <1>3, <2>1, PickTyped DEF AssignToLeastLoaded, GetOptimalShard, Typed
<1>4. CASE AssignInTurn
  <2> DEFINE n == Cardinality(Candidates)
  <2>1. Candidates # {} /\ lastIndex' = NextIndex(n)
    BY <1>4 DEF AssignInTurn
  <2>2. PICK list \in SetToSeqs(Candidates) :
          LET s == AtIndex(list, lastIndex')
              picked == (IF round.list = list THEN round.picked ELSE {}) \cup {s} IN
          /\ Picked(s)
          /\ round' = [list |-> list, picked |-> IF picked = Candidates THEN {} ELSE picked]
    BY <1>4 DEF AssignInTurn
  <2> DEFINE s == AtIndex(list, lastIndex')
             picked == (IF round.list = list THEN round.picked ELSE {}) \cup {s}
  <2>3. n \in Nat /\ n <= Cardinality(Shards) /\ Cardinality(Shards) \in Nat /\ lastIndex' \in 0 .. n - 1
    BY <1>0, <2>1, NextIndexInList DEF Typed
  <2>4. list \in Seq(Shards) /\ Distinct(list) /\ Elements(list) = Candidates /\ Len(list) = n
    BY <1>0, ListOf
  <2>5. s \in Candidates
    BY <2>3, <2>4, AtIndexFinds
  <2>6. /\ Picked(s)
        /\ round' = [list |-> list, picked |-> IF picked = Candidates THEN {} ELSE picked]
    BY <2>2
  <2> HIDE DEF n, s
  <2>7. lastIndex' \in -1 .. Cardinality(Shards) - 1
    BY <2>3
  <2>8. picked \subseteq Shards
    BY <1>0, <2>5 DEF Typed
  <2>9. round' \in [list : Seq(Shards), picked : SUBSET Shards]
    <3> HIDE DEF picked
    <3> QED BY <1>0, <2>4, <2>6, <2>8
  <2> QED BY <2>5, <2>6, <2>7, <2>9, PickTyped
<1> QED BY <1>1, <1>2, <1>3, <1>4

LEMMA TypedInvariant == Spec => []Typed
<1>1. Init => Typed
  <2> SUFFICES ASSUME Init PROVE Typed
    OBVIOUS
  <2>1. ring \in Rings
    BY DEF Init, Ring!EmptyRing, Rings
  <2>2. -1 \in -1 .. Cardinality(Shards) - 1
    BY RingAssumption, FS_CardinalityType
  <2>3. Candidates = {}
    BY DEF Init, Candidates
  <2> QED BY <2>1, <2>2, <2>3, LowestIsLoad DEF Init, Typed, LoadsTyped
<1>2. Typed /\ [Next]_vars => Typed'
  <2> SUFFICES ASSUME Typed, [Next]_vars PROVE Typed'
    OBVIOUS
  <2>1. CASE UNCHANGED vars
    BY <2>1 DEF vars, shardVars, balancer, Typed, LoadsTyped, Candidates
  <2> QED BY <2>1, ShardsTyped, UpdateTyped, AssignmentTyped DEF Next
<1> QED BY <1>1, <1>2, PTL DEF Spec

(* The load balancer and its callers are well typed for any number of      *)
(* callers of UpdateShardNodes: round robin's index never leaves its list, *)
(* and with a single caller the ring holds no hash twice.                  *)
THEOREM TypeCorrect ==
  ASSUME NoCollisions
  PROVE  Spec => []TypeOK
<1>1. Typed /\ (OneUpdater => Exact(ring)) => TypeOK
  <2> SUFFICES ASSUME Typed, OneUpdater => Exact(ring) PROVE TypeOK
    OBVIOUS
  <2>1. /\ ring.owner \in [Ring!Hashes -> Shards \cup {NoShard}]
        /\ ring.copies \in [Ring!Hashes -> Nat]
    BY DEF Typed, Rings
  <2>2. OneUpdater => \A h \in Ring!Hashes : ring.copies[h] <= 1
    BY DEF Exact
  <2> QED BY <2>1, <2>2 DEF Typed, LoadsTyped, TypeOK, OneUpdater
<1>2. CASE OneUpdater
  <2>1. RInv => Exact(ring)
    BY DEF RInv
  <2>2. Spec => []RInv
    BY <1>2, RingInvariant
  <2> QED BY <1>1, <2>1, <2>2, TypedInvariant, PTL
<1>3. CASE ~OneUpdater
  <2>1. Typed => TypeOK
    BY <1>1, <1>3
  <2> QED BY <2>1, TypedInvariant, PTL
<1> QED BY <1>2, <1>3

----------------------------------------------------------------------------
(* Round robin.  Back(L, i, s) is how many turns ago s had its turn, if    *)
(* the list was L all the time and the turn is now at index i; the shards  *)
(* picked since all had their turn are those of the last k turns.          *)
Back(L, i, s) ==
  IF Position(L, s) <= i THEN i - Position(L, s) ELSE i + Len(L) - Position(L, s)

LastTurns(L, i, k) == {s \in Elements(L) : Back(L, i, s) < k}

RoundInv ==
  /\ Typed
  /\ round.picked # {} =>
       /\ lastIndex \in 0 .. Len(round.list) - 1
       /\ round.picked # Elements(round.list)
       /\ \E k \in Nat : round.picked = LastTurns(round.list, lastIndex, k)

(* After one more turn the shard at the new index has had its turn now,    *)
(* every other one turn longer ago.                                        *)
LEMMA OneMoreTurn ==
  ASSUME NEW L \in Seq(Shards), NEW i \in 0 .. Len(L) - 1,
         NEW j, j = (i + 1) % Len(L), NEW s \in Elements(L), Position(L, s) = j,
         NEW t \in Elements(L)
  PROVE  /\ Back(L, i, t) \in 0 .. Len(L) - 1
         /\ Back(L, i, s) = Len(L) - 1
         /\ Back(L, j, t) = IF t = s THEN 0 ELSE Back(L, i, t) + 1
<1> DEFINE n == Len(L)
           p == Position(L, t)
<1>1. n \in Nat /\ p \in 0 .. n - 1 /\ i \in 0 .. n - 1
  BY PositionRange
<1>2. p = j <=> t = s
  BY PositionUnique
<1>3. j = IF i + 1 = n THEN 0 ELSE i + 1
  <2>1. j = (i + 1) % n /\ n > 0 /\ i + 1 \in 1 .. n
    BY <1>1
  <2> HIDE DEF n
  <2>2. CASE i + 1 = n
    <3>1. n % n = 0
      BY <1>1, <2>1
    <3> QED BY <2>1, <2>2, <3>1
  <2>3. CASE i + 1 # n
    <3>1. i + 1 \in 0 .. n - 1
      BY <1>1, <2>1, <2>3
    <3> QED BY <1>1, <2>1, <2>3, <3>1
  <2> QED BY <2>2, <2>3
<1>4. /\ Back(L, i, t) = IF p <= i THEN i - p ELSE i + n - p
      /\ Back(L, j, t) = IF p <= j THEN j - p ELSE j + n - p
      /\ Back(L, i, s) = IF j <= i THEN i - j ELSE i + n - j
  BY DEF Back
<1> HIDE DEF n, p
<1>5. /\ Back(L, i, t) \in 0 .. n - 1
      /\ Back(L, i, s) = n - 1
      /\ Back(L, j, t) = IF p = j THEN 0 ELSE Back(L, i, t) + 1
  BY <1>1, <1>3, <1>4
<1> QED BY <1>2, <1>5 DEF n

(* So the shard whose turn it is is none of the last turns', unless those  *)
(* are all.                                                                *)
LEMMA TurnIsNew ==
  ASSUME NEW L \in Seq(Shards), NEW i \in 0 .. Len(L) - 1, NEW k \in Nat,
         NEW j, j = (i + 1) % Len(L), NEW s \in Elements(L), Position(L, s) = j,
         LastTurns(L, i, k) # Elements(L)
  PROVE  /\ s \notin LastTurns(L, i, k)
         /\ LastTurns(L, i, k) \cup {s} = LastTurns(L, j, k + 1)
<1> DEFINE n == Len(L)
           E == Elements(L)
           B(t) == Back(L, i, t)
           C(t) == Back(L, j, t)
<1>1. \A t \in E : B(t) \in 0 .. n - 1 /\ C(t) = IF t = s THEN 0 ELSE B(t) + 1
  BY OneMoreTurn
<1>2. B(s) = n - 1 /\ n \in Nat
  BY OneMoreTurn, PositionRange
<1>3. PICK t \in E : ~(B(t) < k)
  BY DEF LastTurns
<1>4. LastTurns(L, i, k) = {u \in E : B(u) < k} /\ LastTurns(L, j, k + 1) = {u \in E : C(u) < k + 1}
  BY DEF LastTurns
<1> HIDE DEF B, C, n, E
<1>s. s \in E
  BY DEF E
<1>5. ~(B(s) < k)
  BY <1>1, <1>2, <1>3
<1>6. \A u \in E : C(u) < k + 1 <=> (u = s \/ B(u) < k)
  BY <1>1
<1> QED BY <1>s, <1>4, <1>5, <1>6

(* The first turn of a round. *)
LEMMA FirstTurn ==
  ASSUME NEW L \in Seq(Shards), NEW s \in Elements(L)
  PROVE  {s} = LastTurns(L, Position(L, s), 1)
<1>1. ASSUME NEW t \in Elements(L) PROVE Back(L, Position(L, s), t) < 1 <=> t = s
  <2>1. /\ Len(L) \in Nat /\ Position(L, s) \in 0 .. Len(L) - 1
        /\ Position(L, t) \in 0 .. Len(L) - 1
    BY PositionRange
  <2>2. Back(L, Position(L, s), t) < 1 <=> Position(L, t) = Position(L, s)
    BY <2>1 DEF Back
  <2> QED BY <2>2, PositionUnique
<1> QED BY <1>1 DEF LastTurns

LEMMA TurnKeepsRounds ==
  ASSUME RoundInv, Typed', AssignInTurn
  PROVE  /\ RoundInv'
         /\ round'.list = round.list => pick' \notin round.picked
<1> DEFINE n == Cardinality(Candidates)
<1>1. Candidates # {} /\ lastIndex' = NextIndex(n)
  BY DEF AssignInTurn
<1>2. Candidates \subseteq Shards /\ lastIndex \in -1 .. Cardinality(Shards) - 1
  BY DEF RoundInv, Typed
<1>a. PICK L \in SetToSeqs(Candidates) :
        LET s == AtIndex(L, lastIndex')
            picked == (IF round.list = L THEN round.picked ELSE {}) \cup {s} IN
        /\ Picked(s)
        /\ round' = [list |-> L, picked |-> IF picked = Candidates THEN {} ELSE picked]
  BY DEF AssignInTurn
<1> DEFINE s == AtIndex(L, lastIndex')
           before == IF round.list = L THEN round.picked ELSE {}
<1>b. L \in Seq(Shards) /\ Distinct(L) /\ Elements(L) = Candidates /\ Len(L) = n
  BY <1>2, ListOf
<1>c. /\ pick' = s
      /\ round' = [list |-> L, picked |-> IF before \cup {s} = Elements(L) THEN {} ELSE before \cup {s}]
  BY <1>a, <1>b DEF Picked
<1>3. lastIndex' \in 0 .. n - 1 /\ n \in Nat
  BY <1>1, <1>2, NextIndexInList
<1>4. s \in Elements(L) /\ Position(L, s) = lastIndex'
  BY <1>b, <1>3, AtIndexFinds
<1> HIDE DEF s
<1>5. s \notin before /\ \E k \in Nat : before \cup {s} = LastTurns(L, lastIndex', k)
  <2>1. CASE before = {}
    <3>1. before \cup {s} = LastTurns(L, lastIndex', 1)
      BY <1>b, <1>4, <2>1, FirstTurn
    <3> QED BY <2>1, <3>1
  <2>2. CASE before # {}
    <3>1. before = round.picked /\ round.list = L
      BY <2>2
    <3>2. PICK k \in Nat : round.picked = LastTurns(L, lastIndex, k)
      BY <2>2, <3>1 DEF RoundInv
    <3>3. lastIndex \in 0 .. Len(L) - 1 /\ round.picked # Elements(L)
      BY <2>2, <3>1 DEF RoundInv
    <3>4. lastIndex' = (lastIndex + 1) % Len(L)
      BY <1>1, <1>b DEF NextIndex
    <3>5. s \notin round.picked /\ round.picked \cup {s} = LastTurns(L, lastIndex', k + 1)
      BY <1>b, <1>4, <3>2, <3>3, <3>4, TurnIsNew
    <3> QED BY <3>1, <3>5
  <2> QED BY <2>1, <2>2
<1>6. round'.list = round.list => pick' \notin round.picked
  BY <1>c, <1>5
<1>7. RoundInv'
  <2>1. /\ round'.list = L
        /\ round'.picked = IF before \cup {s} = Elements(L) THEN {} ELSE before \cup {s}
    BY <1>c
  <2> HIDE DEF before
  <2> QED BY <1>b, <1>3, <1>5, <2>1 DEF RoundInv
<1> QED BY <1>6, <1>7

(* As long as it is given the same shards in the same order, round robin   *)
(* gives every one its turn before it gives any one a second.              *)
THEOREM EveryShardHasItsTurn == Spec => RoundRobinVisitsAll
<1>1. Init /\ Typed => RoundInv
  BY DEF Init, RoundInv
<1>2. RoundInv /\ Typed' /\ [Next]_vars => RoundInv'
  <2> SUFFICES ASSUME RoundInv, Typed', [Next]_vars PROVE RoundInv'
    OBVIOUS
  <2>1. CASE UNCHANGED <<lastIndex, round>>
    BY <2>1 DEF RoundInv
  <2>2. CASE AssignInTurn
    BY <2>2, TurnKeepsRounds
  <2> QED BY <2>1, <2>2
          DEF Next, vars, balancer, CreateShard, StartShard, RemoveShard, Report, BeginUpdate,
              RemoveNode, AddNode, ListShards, AssignByRing, AssignToLeastLoaded, GetOptimalShard
<1>3. RoundInv /\ Typed' =>
        [AssignInTurn /\ round'.list = round.list => pick' \notin round.picked]_vars
  BY TurnKeepsRounds
<1> QED BY <1>1, <1>2, <1>3, TypedInvariant, PTL DEF Spec, RoundRobinVisitsAll

----------------------------------------------------------------------------
(* The reported distribution.  The keys that go to a point are the hashes  *)
(* from the point before it, and for the first point also those beyond the *)
(* last one.                                                               *)
Arc(r, p) == {key \in Ring!Hashes : Ring!PointAfter(r, key) = p}

LEMMA PointsBounded ==
  ASSUME NEW r
  PROVE  /\ HashSize - 1 \in Nat /\ Ring!Hashes = 0 .. HashSize - 1
         /\ Ring!Points(r) \in SUBSET (0 .. HashSize - 1) /\ Ring!Points(r) \in SUBSET Nat
BY RingAssumption DEF Ring!Points, Ring!Hashes

LEMMA ArcOfLaterPoint ==
  ASSUME NEW r, NEW p \in Ring!Points(r), NEW q \in Ring!Points(r), q < p,
         \A h \in Ring!Points(r) : h < p => h <= q
  PROVE  Arc(r, p) = q + 1 .. p
<1> DEFINE P == Ring!Points(r)
           later(key) == {h \in P : h >= key}
<1>1. P \in SUBSET Nat /\ P \in SUBSET (0 .. HashSize - 1) /\ Ring!Hashes = 0 .. HashSize - 1
  BY PointsBounded
<1>2. \A key : Ring!PointAfter(r, key) = IF later(key) # {} THEN Min(later(key)) ELSE Min(P)
  BY DEF Ring!PointAfter, Ring!Min, Min
<1>3. p \in P /\ q \in P /\ p \in Nat /\ q \in Nat /\ p <= HashSize - 1 /\ HashSize \in Nat
  BY <1>1, RingAssumption
<1>4. ASSUME NEW key \in Ring!Hashes, key \in q + 1 .. p PROVE Ring!PointAfter(r, key) = p
  <2>1. later(key) \in SUBSET Nat /\ p \in later(key)
    BY <1>1, <1>3, <1>4
  <2>2. \A h \in later(key) : h >= p
    BY <1>1, <1>3, <1>4
  <2>3. Min(later(key)) \in later(key) /\ Min(later(key)) <= p
    BY <2>1, LeastOf
  <2>4. Min(later(key)) \in Nat
    BY <2>1, <2>3
  <2> HIDE DEF later
  <2> QED BY <1>2, <1>3, <2>1, <2>2, <2>3, <2>4
<1>5. ASSUME NEW key \in Ring!Hashes, key \notin q + 1 .. p PROVE Ring!PointAfter(r, key) # p
  <2>1. key \in Nat
    BY <1>1
  <2>2. CASE key <= q
    <3>1. later(key) \in SUBSET Nat /\ q \in later(key)
      BY <1>1, <1>3, <2>2
    <3>2. Min(later(key)) <= q /\ Min(later(key)) \in Nat
      BY <3>1, LeastOf
    <3> HIDE DEF later
    <3> QED BY <1>2, <1>3, <3>1, <3>2
  <2>3. CASE key > p
    <3>1. CASE later(key) # {}
      <4>1. later(key) \in SUBSET Nat /\ \A h \in later(key) : h # p
        BY <1>1, <1>3, <2>1, <2>3
      <4>2. Min(later(key)) \in later(key)
        BY <3>1, <4>1, LeastOf
      <4> HIDE DEF later
      <4> QED BY <1>2, <3>1, <4>1, <4>2
    <3>2. CASE later(key) = {}
      <4>1. Min(P) <= q /\ Min(P) \in Nat
        BY <1>1, <1>3, LeastOf
      <4> HIDE DEF later, P
      <4> QED BY <1>2, <1>3, <3>2, <4>1
    <3> QED BY <3>1, <3>2
  <2> QED BY <1>3, <1>5, <2>1, <2>2, <2>3
<1>6. q + 1 .. p \subseteq Ring!Hashes
  BY <1>1, <1>3
<1> QED BY <1>4, <1>5, <1>6 DEF Arc

LEMMA ArcOfFirstPoint ==
  ASSUME NEW r, NEW p \in Ring!Points(r), NEW last \in Ring!Points(r),
         \A h \in Ring!Points(r) : p <= h /\ h <= last
  PROVE  Arc(r, p) = (0 .. p) \cup (last + 1 .. HashSize - 1)
<1> DEFINE P == Ring!Points(r)
           later(key) == {h \in P : h >= key}
<1>1. P \in SUBSET Nat /\ P \in SUBSET (0 .. HashSize - 1) /\ Ring!Hashes = 0 .. HashSize - 1
  BY PointsBounded
<1>2. \A key : Ring!PointAfter(r, key) = IF later(key) # {} THEN Min(later(key)) ELSE Min(P)
  BY DEF Ring!PointAfter, Ring!Min, Min
<1>3. /\ p \in P /\ last \in P /\ p \in Nat /\ last \in Nat /\ last <= HashSize - 1
      /\ p <= last /\ HashSize \in Nat
  BY <1>1, RingAssumption
<1>4. \A T \in SUBSET P : p \in T => Min(T) = p
  <2> SUFFICES ASSUME NEW T \in SUBSET P, p \in T PROVE Min(T) = p
    OBVIOUS
  <2>1. T \in SUBSET Nat
    BY <1>1
  <2>2. Min(T) \in T /\ Min(T) <= p
    BY <2>1, LeastOf
  <2>3. Min(T) \in Nat /\ p <= Min(T)
    BY <2>1, <2>2
  <2> QED BY <1>3, <2>2, <2>3
<1>5. ASSUME NEW key \in Ring!Hashes PROVE Ring!PointAfter(r, key) = p <=> key <= p \/ key > last
  <2>1. key \in Nat
    BY <1>1
  <2>2. CASE key <= p
    <3>1. later(key) \in SUBSET P /\ p \in later(key)
      BY <1>3, <2>2
    <3> HIDE DEF later, P
    <3> QED BY <1>2, <1>4, <2>2, <3>1
  <2>3. CASE key > last
    <3>1. later(key) = {}
      BY <1>1, <1>3, <2>1, <2>3
    <3> HIDE DEF later
    <3> QED BY <1>2, <1>3, <1>4, <2>3, <3>1
  <2>4. CASE key > p /\ key <= last
    <3>1. later(key) \in SUBSET Nat /\ last \in later(key) /\ p \notin later(key)
      BY <1>1, <1>3, <2>1, <2>4
    <3>2. Min(later(key)) \in later(key)
      BY <3>1, LeastOf
    <3> HIDE DEF later
    <3> QED BY <1>2, <1>3, <2>1, <2>4, <3>1, <3>2
  <2> QED BY <1>3, <2>1, <2>2, <2>3, <2>4
<1>6. \A key \in Ring!Hashes : key \in (0 .. p) \cup (last + 1 .. HashSize - 1) <=> key <= p \/ key > last
  BY <1>1, <1>3
<1>7. (0 .. p) \cup (last + 1 .. HashSize - 1) \subseteq Ring!Hashes
  BY <1>1, <1>3
<1> QED BY <1>5, <1>6, <1>7 DEF Arc

LEMMA SpaceIsArc ==
  ASSUME NEW r, NEW p \in Ring!Points(r)
  PROVE  IsFiniteSet(Arc(r, p)) /\ Ring!Space(r, p) = Cardinality(Arc(r, p))
<1> DEFINE P == Ring!Points(r)
           before == {h \in P : h < p}
<1>1. /\ P \in SUBSET Nat /\ P \in SUBSET (0 .. HashSize - 1) /\ HashSize - 1 \in Nat
      /\ p \in P /\ p \in Nat /\ p <= HashSize - 1 /\ HashSize \in Nat
  BY PointsBounded, RingAssumption
<1>2. Ring!Space(r, p) = IF before = {} THEN p + (HashSize - Max(P)) ELSE p - Max(before)
  BY DEF Ring!Space, Ring!Max, Max
<1>3. CASE before # {}
  <2> DEFINE q == Max(before)
  <2>1. before \in SUBSET (0 .. HashSize - 1)
    BY <1>1
  <2>2. q \in before /\ \A h \in before : q >= h
    <3> HIDE DEF before
    <3> QED BY <1>1, <1>3, <2>1, GreatestOf
  <2>3. q \in P /\ q < p /\ q \in Nat /\ \A h \in P : h < p => h <= q
    BY <1>1, <2>2
  <2> HIDE DEF q
  <2>4. Arc(r, p) = q + 1 .. p
    BY <2>3, ArcOfLaterPoint
  <2>5. IsFiniteSet(q + 1 .. p) /\ Cardinality(q + 1 .. p) = p - q
    <3>1. q + 1 \in Int /\ p \in Int /\ ~(q + 1 > p) /\ p - (q + 1) + 1 = p - q
      BY <1>1, <2>3
    <3> QED BY <3>1, FS_Interval
  <2>6. Ring!Space(r, p) = p - q
    BY <1>2, <1>3 DEF q
  <2> QED BY <2>4, <2>5, <2>6
<1>4. CASE before = {}
  <2> DEFINE last == Max(P)
             A == 0 .. p
             B == last + 1 .. HashSize - 1
  <2>1. last \in P /\ \A h \in P : last >= h
    <3> HIDE DEF P
    <3> QED BY <1>1, GreatestOf
  <2>2. last \in Nat /\ last <= HashSize - 1 /\ p <= last
    BY <1>1, <2>1
  <2>3. \A h \in P : p <= h /\ h <= last
    BY <1>1, <1>4, <2>1, <2>2
  <2> HIDE DEF last
  <2>4. Arc(r, p) = A \cup B
    BY <2>1, <2>3, ArcOfFirstPoint
  <2>5. IsFiniteSet(A) /\ Cardinality(A) = p + 1
    <3>1. 0 \in Int /\ p \in Int /\ ~(0 > p) /\ p - 0 + 1 = p + 1
      BY <1>1
    <3> QED BY <3>1, FS_Interval
  <2>6. IsFiniteSet(B) /\ Cardinality(B) = HashSize - 1 - last
    <3>1. last + 1 \in Int /\ HashSize - 1 \in Int
      BY <1>1, <2>2
    <3>2. (IF last + 1 > HashSize - 1 THEN 0 ELSE HashSize - 1 - (last + 1) + 1) = HashSize - 1 - last
      BY <1>1, <2>2
    <3> QED BY <3>1, <3>2, FS_Interval
  <2>7. A \cap B = {}
    BY <1>1, <2>2
  <2> HIDE DEF A, B
  <2>8. /\ IsFiniteSet(A \cup B)
        /\ Cardinality(A \cup B) = Cardinality(A) + Cardinality(B) - Cardinality(A \cap B)
    BY <2>5, <2>6, FS_Union
  <2>9. Cardinality(A \cap B) = 0
    BY <2>7, FS_EmptySet
  <2>10. Cardinality(A \cup B) = p + (HashSize - last)
    BY <1>1, <2>2, <2>5, <2>6, <2>8, <2>9
  <2>11. Ring!Space(r, p) = p + (HashSize - last)
    BY <1>2, <1>4 DEF last
  <2> QED BY <2>4, <2>8, <2>10, <2>11
<1> QED BY <1>3, <1>4

(* The keys of a node, point by point.                                     *)
LEMMA SpaceOfNode ==
  ASSUME NEW r, Exact(r), NEW n \in Ring!GetAllNodes(r)
  PROVE  Ring!SpaceOf(r, n) = Cardinality({key \in Ring!Hashes : Ring!GetNode(r, key) = n})
<1> DEFINE P == Ring!Points(r)
           S == {p \in P : r.owner[p] = n}
           size == [p \in P |-> Ring!Space(r, p)]
           part == [p \in P |-> Arc(r, p)]
<1>1. P \in SUBSET Nat /\ P \in SUBSET (0 .. HashSize - 1) /\ HashSize - 1 \in Nat
  BY PointsBounded
<1>2. IsFiniteSet(S)
  <2>1. IsFiniteSet(0 .. HashSize - 1)
    BY <1>1, FS_Interval
  <2>2. S \in SUBSET (0 .. HashSize - 1)
    BY <1>1
  <2> QED BY <2>1, <2>2, FS_Subset
<1>3. P # {}
  <2>1. PICK h \in Ring!Hashes : r.owner[h] = n /\ n # NoShard
    BY DEF Ring!GetAllNodes
  <2> QED BY <2>1, ExactPoints
<1>4. \A p \in S : IsFiniteSet(part[p]) /\ size[p] = Cardinality(part[p])
  BY SpaceIsArc
<1>5. \A p, q \in S : p # q => part[p] \cap part[q] = {}
  BY DEF Arc
<1>6. Cardinality(UNION {part[p] : p \in S}) = SumFunctionOnSet(size, S)
  <2> HIDE DEF S, part, size
  <2> QED BY <1>2, <1>4, <1>5, CardinalityOfParts
<1>7. {key \in Ring!Hashes : Ring!GetNode(r, key) = n} = UNION {part[p] : p \in S}
  <2>1. ASSUME NEW key \in Ring!Hashes
        PROVE  Ring!PointAfter(r, key) \in P /\ Ring!GetNode(r, key) = r.owner[Ring!PointAfter(r, key)]
    <3> DEFINE later == {h \in P : h >= key}
    <3>1. Ring!PointAfter(r, key) = IF later # {} THEN Min(later) ELSE Min(P)
      BY DEF Ring!PointAfter, Ring!Min, Min
    <3>2. later \in SUBSET Nat /\ later \subseteq P
      BY <1>1
    <3>3. Ring!PointAfter(r, key) \in P
      <4> HIDE DEF P, later
      <4> QED BY <1>1, <1>3, <3>1, <3>2, LeastOf
    <3> QED BY <1>3, <3>3 DEF Ring!GetNode
  <2> QED BY <2>1 DEF Arc
<1>8. Ring!SpaceOf(r, n) = SumFunctionOnSet(size, S)
  BY DEF Ring!SpaceOf, Ring!SumFunctionOnSet, SumFunctionOnSet, Ring!FoldFunctionOnSet,
         FoldFunctionOnSet, Ring!MapThenFoldSet, MapThenFoldSet
<1> QED BY <1>6, <1>7, <1>8

(* The share of the hash space that GetLoadDistribution computes for a     *)
(* node from the gaps between the points is the number of hashes that      *)
(* GetNode gives to it, also in the middle of an update.                   *)
THEOREM DistributionIsExact ==
  ASSUME NoCollisions, OneUpdater
  PROVE  Spec => []SpaceIsShare
<1>1. RInv => SpaceIsShare
  BY SpaceOfNode DEF RInv, SpaceIsShare, Ring!Cardinality, Cardinality
<1> QED BY <1>1, RingInvariant, PTL

----------------------------------------------------------------------------
(* Loads.                                                                  *)

(* The two decisions of RebalanceLoad agree, and a plan's target serves:   *)
(* a shard that does not counts as full and is never the emptier one.      *)
THEOREM RebalanceAgrees == Spec => []RebalanceLawful
<1>1. ASSUME LoadsTyped PROVE RebalanceLawful
  <2> DEFINE L(s) == CalculateShardLoad(s)
             T == {CalculateShardLoad(s) : s \in Present}
  <2>1. \A s \in Shards : L(s) \in 0 .. 10 /\ (s \notin Serving => L(s) = 10)
    <3>1. ASSUME NEW s \in Shards PROVE load[s] \in 0 .. 10
      BY <1>1, LoadsAssumption DEF LoadsTyped
    <3>2. ASSUME NEW s \in Shards PROVE L(s) = IF s \in Serving THEN load[s] ELSE 10
      BY DEF CalculateShardLoad
    <3> HIDE DEF L
    <3> QED BY <3>1, <3>2
  <2>2. Present \subseteq Shards
    BY DEF Present
  <2>3. \A s \in Present : L(s) \in T
    OBVIOUS
  <2> HIDE DEF L
  <2>4. T = {L(s) : s \in Present} /\ \A s \in Present : L(s) = CalculateShardLoad(s)
    BY DEF L
  <2> HIDE DEF T
  <2>5. /\ LowestLoad \in {10} \cup T /\ \A s \in Present : LowestLoad <= L(s)
        /\ LowestLoad \in 0 .. 10
    <3>1. ({10} \cup T) \in SUBSET Nat /\ {10} \cup T # {} /\ ({10} \cup T) \subseteq 0 .. 10
      BY <2>1, <2>2, <2>4
    <3>2. LowestLoad = Min({10} \cup T)
      BY DEF LowestLoad, T
    <3> QED BY <2>3, <3>1, <3>2, LeastOf
  <2>6. /\ HighestLoad \in {0} \cup T /\ \A s \in Present : HighestLoad >= L(s)
        /\ HighestLoad \in 0 .. 10
    <3>1. ({0} \cup T) \in SUBSET (0 .. 10) /\ {0} \cup T # {} /\ 10 \in Nat
      BY <2>1, <2>2, <2>4
    <3>2. HighestLoad = Max({0} \cup T)
      BY DEF HighestLoad, T
    <3> QED BY <2>3, <3>1, <3>2, GreatestOf
  <2>7. ASSUME ShouldRebalance PROVE RebalancePlans # {}
    <3>1. HighestLoad - LowestLoad > 2 /\ Cardinality(Present) > 1
      BY <2>7 DEF ShouldRebalance
    <3>2. HighestLoad # 0 /\ LowestLoad # 10
      BY <2>5, <2>6, <3>1
    <3>3. PICK s \in Present, t \in Present : L(s) = HighestLoad /\ L(t) = LowestLoad
      BY <2>4, <2>5, <2>6, <3>2
    <3>4. [source |-> s, target |-> t] \in RebalancePlans
      BY <2>4, <2>5, <2>6, <3>1, <3>3 DEF RebalancePlans
    <3> QED BY <3>4
  <2>8. ASSUME NEW p \in RebalancePlans
        PROVE  ShouldRebalance /\ p.target \in Serving /\ p.source # p.target
    <3>1. /\ p.source \in Present /\ p.target \in Present /\ Cardinality(Present) > 1
          /\ L(p.source) - L(p.target) > 2
      BY <2>4 DEF RebalancePlans
    <3>2. /\ L(p.source) \in 0 .. 10 /\ L(p.target) \in 0 .. 10
          /\ (p.target \notin Serving => L(p.target) = 10)
      BY <2>1, <2>2, <3>1
    <3>3. p.target \in Serving /\ p.source # p.target
      BY <3>1, <3>2
    <3>4. HighestLoad >= L(p.source) /\ LowestLoad <= L(p.target)
      BY <2>5, <2>6, <3>1
    <3>5. HighestLoad - LowestLoad > 2
      BY <2>5, <2>6, <3>1, <3>2, <3>4
    <3> QED BY <3>1, <3>3, <3>5 DEF ShouldRebalance
  <2> QED BY <2>7, <2>8 DEF RebalanceLawful
<1>2. Typed => LoadsTyped
  BY DEF Typed
<1> QED BY <1>1, <1>2, TypedInvariant, PTL
=============================================================================
