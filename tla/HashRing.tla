------------------------------ MODULE HashRing ------------------------------
(***************************************************************************)
(* The consistent-hash ring, pkg/utils/hash.go, as operators on a record.  *)
(* "owner" is the map hashRing, in which a hash that is missing yields the *)
(* empty name; "copies" is the slice sortedHashes, which is always sorted  *)
(* and so is known by how often it holds every hash.                       *)
(***************************************************************************)
EXTENDS Integers, Sequences, FiniteSets, SequencesExt, FiniteSetsExt

CONSTANTS Nodes,
          NoNode,     \* the empty name
          HashSize,   \* number of hashes (2^32)
          PointsOf    \* [Nodes -> SUBSET Hashes]: the virtual nodes of each node

Hashes == 0 .. HashSize - 1

EmptyRing == [owner |-> [h \in Hashes |-> NoNode], copies |-> [h \in Hashes |-> 0]]

(* AddNode does not ask whether the node is there already. *)
AddNode(ring, n) ==
  [owner  |-> [h \in Hashes |-> IF h \in PointsOf[n] THEN n ELSE ring.owner[h]],
   copies |-> [h \in Hashes |-> ring.copies[h] + IF h \in PointsOf[n] THEN 1 ELSE 0]]

(* Mutant: the hashes leave the slice and stay in the map. *)
RemoveHashesOnly(ring, n) ==
  [ring EXCEPT !.copies =
     [h \in Hashes |-> IF h \in PointsOf[n] /\ @[h] > 0 THEN @[h] - 1 ELSE @[h]]]

(* RemoveNode deletes the hashes from the map and one copy of each from    *)
(* the slice.                                                              *)
RemoveNode(ring, n) ==
  [owner  |-> [h \in Hashes |-> IF h \in PointsOf[n] THEN NoNode ELSE ring.owner[h]],
   copies |-> [h \in Hashes |-> IF h \in PointsOf[n] /\ ring.copies[h] > 0
                                THEN ring.copies[h] - 1 ELSE ring.copies[h]]]

(* The hashes of the slice. *)
Points(ring) == {h \in Hashes : ring.copies[h] > 0}

(* Mutant: a key on a hash goes to the next one. *)
PointAfterBeyond(ring, key) ==
  LET later == {h \in Points(ring) : h > key} IN
  IF later # {} THEN Min(later) ELSE Min(Points(ring))

(* The first hash that is not smaller, or the first of all. *)
PointAfter(ring, key) ==
  LET later == {h \in Points(ring) : h >= key} IN
  IF later # {} THEN Min(later) ELSE Min(Points(ring))

(* Mutant: keys are dealt to the hashes in turn. *)
GetNodeModulo(ring, key) ==
  IF Points(ring) = {} THEN NoNode
  ELSE ring.owner[SetToSortSeq(Points(ring), <)[(key % Cardinality(Points(ring))) + 1]]

(* GetNode of a key with hash "key", and GetNodeWithHash. *)
GetNode(ring, key) ==
  IF Points(ring) = {} THEN NoNode ELSE ring.owner[PointAfter(ring, key)]

(* getUniqueNodes: the nodes in the map. *)
GetAllNodes(ring) == {ring.owner[h] : h \in Hashes} \ {NoNode}

(* Mutant: the part of the ring beyond the last hash is nobody's. *)
SpaceWithoutWrap(ring, p) ==
  LET before == {h \in Points(ring) : h < p} IN
  IF before = {} THEN p + 1 ELSE p - Max(before)

(* The part of the hash space that ends at a point; the first point also   *)
(* has what lies beyond the last one.                                      *)
Space(ring, p) ==
  LET before == {h \in Points(ring) : h < p} IN
  IF before = {} THEN p + (HashSize - Max(Points(ring))) ELSE p - Max(before)

(* GetLoadDistribution of the ring, in hashes. *)
SpaceOf(ring, n) ==
  SumFunctionOnSet([p \in Points(ring) |-> Space(ring, p)],
                   {p \in Points(ring) : ring.owner[p] = n})

----------------------------------------------------------------------------
(* What consistent hashing means, without the slice: a key belongs to the  *)
(* node with the nearest point clockwise.                                  *)
Distance(key, h) == (h - key) % HashSize

Owners(ring, key) ==
  {n \in Nodes : \E h \in PointsOf[n] :
     /\ ring.owner[h] = n
     /\ \A g \in Hashes : ring.owner[g] # NoNode => Distance(key, h) <= Distance(key, g)}

(* The ring of a set of nodes, every virtual node once. *)
RingOf(S) ==
  [owner  |-> [h \in Hashes |-> IF \E n \in S : h \in PointsOf[n]
                                THEN CHOOSE n \in S : h \in PointsOf[n] ELSE NoNode],
   copies |-> [h \in Hashes |-> Cardinality({n \in S : h \in PointsOf[n]})]]
=============================================================================
