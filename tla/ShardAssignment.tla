-------------------------- MODULE ShardAssignment --------------------------
(***************************************************************************)
(* Which shard gets a resource: the load balancer (load_balancer.go) with  *)
(* its ring and its round-robin index, used by ShardManager.AssignResource *)
(* and RebalanceLoad on a list of shards that was read before, while       *)
(* shards come, go and report their loads.                                 *)
(*                                                                         *)
(* UpdateShardNodes takes the lock of the ring once for every node it      *)
(* removes or adds.  "Updaters" are the callers of it; the controller      *)
(* manager has none.  Loads are in tenths: a shard that does not serve     *)
(* counts as full.                                                         *)
(***************************************************************************)
EXTENDS Integers, Sequences, FiniteSets, SequencesExt, FiniteSetsExt

CONSTANTS Shards,
          NoShard,
          HashSize, PointsOf,
          Keys, HashOf,
          Loads,       \* loads a serving shard can report, in tenths
          Strategies,  \* strategies the load balancer may be created with
          Updaters

ASSUME LoadsAssumption == Loads \subseteq 0 .. 10 /\ Loads # {}
ASSUME StrategiesAssumption ==
  Strategies \subseteq {"consistent-hash", "round-robin", "least-loaded"}

Ring == INSTANCE HashRing WITH Nodes <- Shards, NoNode <- NoShard

ASSUME RingAssumption ==
  /\ IsFiniteSet(Shards) /\ NoShard \notin Shards
  /\ HashSize \in Nat \ {0} /\ PointsOf \in [Shards -> SUBSET Ring!Hashes]
  /\ HashOf \in [Keys -> Ring!Hashes]

VARIABLES
  phase,       \* "absent", "pending" or "running"
  healthy,     \* stored health of the shard, with a fresh heartbeat
  load,        \* what CalculateShardLoad makes of a shard that serves
  strategy,
  ring,        \* consistentHash
  lastIndex,   \* lastShardIndex
  updating,    \* UpdateShardNodes: the nodes it still removes and adds
  listed,      \* AssignResource: loads of the serving shards it listed, or none
  pick,        \* the shard it picked last, until it lists again
  round        \* round robin's last list and what it picked since it had picked all of it

balancer == <<strategy, ring, lastIndex>>
shardVars == <<phase, healthy, load>>
vars == <<shardVars, balancer, updating, listed, pick, round>>

(* IsShardHealthy *)
Serving == {s \in Shards : phase[s] = "running" /\ healthy[s]}
Present == {s \in Shards : phase[s] # "absent"}
Running == {s \in Shards : phase[s] = "running"}

(* Mutant: a shard that does not serve counts as empty. *)
LoadOfServing(s) == IF s \in Serving THEN load[s] ELSE 0

(* CalculateShardLoad: a shard that does not serve is full. *)
CalculateShardLoad(s) == IF s \in Serving THEN load[s] ELSE 10

----------------------------------------------------------------------------
(* The shards: created, started, removed, and their reports (external). *)
CreateShard(s) ==
  /\ phase[s] = "absent"
  /\ phase' = [phase EXCEPT ![s] = "pending"]
  /\ UNCHANGED <<healthy, load, balancer, updating, listed, pick, round>>

StartShard(s) ==
  /\ phase[s] = "pending"
  /\ phase' = [phase EXCEPT ![s] = "running"]
  /\ healthy' = [healthy EXCEPT ![s] = TRUE]
  /\ UNCHANGED <<load, balancer, updating, listed, pick, round>>

RemoveShard(s) ==
  /\ phase[s] # "absent"
  /\ phase' = [phase EXCEPT ![s] = "absent"]
  /\ healthy' = [healthy EXCEPT ![s] = FALSE]
  /\ load' = [load EXCEPT ![s] = Min(Loads)]
  /\ UNCHANGED <<balancer, updating, listed, pick, round>>

Report(s) ==
  /\ phase[s] = "running"
  /\ \E h \in BOOLEAN, l \in Loads :
       /\ healthy' = [healthy EXCEPT ![s] = h]
       /\ load' = [load EXCEPT ![s] = IF h THEN l ELSE Min(Loads)]
  /\ UNCHANGED <<phase, balancer, updating, listed, pick, round>>

----------------------------------------------------------------------------
(* UpdateShardNodes: what is in the ring and does not run is removed, what *)
(* runs and is not in the ring is added.  The code compares the ring with  *)
(* the list it was given; here the shards are read in the same step, and   *)
(* come and go before the nodes are removed and added.                     *)
BeginUpdate(u) ==
  /\ strategy = "consistent-hash"
  /\ updating[u] = [remove |-> {}, add |-> {}]
  /\ updating' = [updating EXCEPT ![u] = [remove |-> Ring!GetAllNodes(ring) \ Running,
                                          add    |-> Running \ Ring!GetAllNodes(ring)]]
  /\ UNCHANGED <<shardVars, balancer, listed, pick, round>>

RemoveNode(u) ==
  \E n \in updating[u].remove :
    /\ ring' = Ring!RemoveNode(ring, n)
    /\ updating' = [updating EXCEPT ![u].remove = @ \ {n}]
    /\ UNCHANGED <<shardVars, strategy, lastIndex, listed, pick, round>>

(* Mutant: the same node is added over and over. *)
AddNodeAgain(u) ==
  /\ updating[u].remove = {}
  /\ \E n \in updating[u].add :
       /\ ring' = Ring!AddNode(ring, n)
       /\ UNCHANGED <<shardVars, strategy, lastIndex, updating, listed, pick, round>>

AddNode(u) ==
  /\ updating[u].remove = {}
  /\ \E n \in updating[u].add :
       /\ ring' = Ring!AddNode(ring, n)
       /\ updating' = [updating EXCEPT ![u].add = @ \ {n}]
       /\ UNCHANGED <<shardVars, strategy, lastIndex, listed, pick, round>>

----------------------------------------------------------------------------
(* AssignResource lists the shards; AssignResourceToShard keeps the        *)
(* serving ones, and ends if there is none.                                *)
ListShards ==
  /\ listed = <<>>
  /\ Serving # {}
  /\ listed' = [s \in Serving |-> load[s]]
  /\ pick' = NoShard
  /\ UNCHANGED <<shardVars, balancer, updating, round>>

Candidates == DOMAIN listed

(* getOptimalShardLeastLoaded; the sort is not stable. *)
LeastLoaded == {s \in Candidates : \A t \in Candidates : listed[s] <= listed[t]}

Picked(s) ==
  /\ pick' = s
  /\ listed' = <<>>
  /\ UNCHANGED <<shardVars, strategy, ring, updating>>

(* Mutant: the shard of the ring is taken only if it is least loaded too. *)
AssignToIdleOwner(k) ==
  /\ strategy = "consistent-hash" /\ Candidates # {}
  /\ LET owner == Ring!GetNode(ring, HashOf[k]) IN
     \E s \in IF owner \in LeastLoaded THEN {owner} ELSE LeastLoaded : Picked(s)
  /\ UNCHANGED <<lastIndex, round>>

(* AssignResourceToShard by the ring, or to the least loaded shard when    *)
(* the ring's is not among the serving ones; *)
AssignByRing(k) ==
  /\ strategy = "consistent-hash" /\ Candidates # {}
  /\ LET owner == Ring!GetNode(ring, HashOf[k]) IN
     \E s \in IF owner \in Candidates THEN {owner} ELSE LeastLoaded : Picked(s)
  /\ UNCHANGED <<lastIndex, round>>

(* Mutant: the index advances too far. *)
NextIndexSkips(n) == (lastIndex + 2) % n

(* lastShardIndex, advanced over n shards. *)
NextIndex(n) == (lastIndex + 1) % n

(* The shard at an index, which counts from 0. *)
AtIndex(list, i) == list[i + 1]

(* in turn, in whatever order the list has this time: it comes from the    *)
(* manager's cache, which has none; *)
AssignInTurn ==
  /\ strategy = "round-robin" /\ Candidates # {}
  /\ lastIndex' = NextIndex(Cardinality(Candidates))
  /\ \E list \in SetToSeqs(Candidates) :
       LET s == AtIndex(list, lastIndex')
           picked == (IF round.list = list THEN round.picked ELSE {}) \cup {s} IN
       /\ Picked(s)
       /\ round' = [list |-> list, picked |-> IF picked = Candidates THEN {} ELSE picked]

(* or to the least loaded shard. *)
AssignToLeastLoaded ==
  /\ strategy = "least-loaded" /\ Candidates # {}
  /\ \E s \in LeastLoaded : Picked(s)
  /\ UNCHANGED <<lastIndex, round>>

(* GetOptimalShard has no key: a single shard is taken without a look at   *)
(* the strategy, and the ring is not asked; in turn it is AssignInTurn.    *)
GetOptimalShard ==
  /\ Candidates # {}
  /\ Cardinality(Candidates) = 1 \/ strategy # "round-robin"
  /\ \E s \in LeastLoaded : Picked(s)
  /\ UNCHANGED <<lastIndex, round>>

----------------------------------------------------------------------------
(* RebalanceLoad. *)
LowestLoad  == Min({10} \cup {CalculateShardLoad(s) : s \in Present})
HighestLoad == Max({0} \cup {CalculateShardLoad(s) : s \in Present})

(* ShouldRebalance: the loads differ by more than 20 %. *)
ShouldRebalance ==
  /\ Cardinality(Present) > 1
  /\ HighestLoad - LowestLoad > 2

(* GenerateRebalancePlan: from a most loaded shard to a least loaded one. *)
RebalancePlans ==
  {p \in [source : Present, target : Present] :
     /\ Cardinality(Present) > 1
     /\ \A s \in Present : CalculateShardLoad(s) <= CalculateShardLoad(p.source)
     /\ \A s \in Present : CalculateShardLoad(s) >= CalculateShardLoad(p.target)
     /\ CalculateShardLoad(p.source) - CalculateShardLoad(p.target) > 2}

----------------------------------------------------------------------------
Init ==
  /\ phase = [s \in Shards |-> "absent"]
  /\ healthy = [s \in Shards |-> FALSE]
  /\ load = [s \in Shards |-> Min(Loads)]
  /\ strategy \in Strategies
  /\ ring = Ring!EmptyRing
  /\ lastIndex = -1
  /\ updating = [u \in Updaters |-> [remove |-> {}, add |-> {}]]
  /\ listed = <<>>
  /\ pick = NoShard
  /\ round = [list |-> <<>>, picked |-> {}]

Next ==
  \/ \E s \in Shards : CreateShard(s) \/ StartShard(s) \/ RemoveShard(s) \/ Report(s)
  \/ \E u \in Updaters : BeginUpdate(u) \/ RemoveNode(u) \/ AddNode(u)
  \/ ListShards
  \/ \E k \in Keys : AssignByRing(k)
  \/ AssignInTurn \/ AssignToLeastLoaded \/ GetOptimalShard

Spec == Init /\ [][Next]_vars

----------------------------------------------------------------------------
(* Type invariant of the load balancer and its callers: the index is one   *)
(* of the last list, and with one updater no hash is in the ring twice.    *)
TypeOK ==
  /\ phase \in [Shards -> {"absent", "pending", "running"}]
  /\ healthy \in [Shards -> BOOLEAN] /\ load \in [Shards -> Loads]
  /\ strategy \in Strategies
  /\ ring.owner \in [Ring!Hashes -> Shards \cup {NoShard}]
  /\ ring.copies \in [Ring!Hashes -> Nat]
  /\ (\A u, v \in Updaters : u = v) => \A h \in Ring!Hashes : ring.copies[h] <= 1
  /\ lastIndex \in -1 .. Cardinality(Shards) - 1
  /\ updating \in [Updaters -> [remove : SUBSET Shards, add : SUBSET Shards]]
  /\ Candidates \subseteq Shards /\ \A s \in Candidates : listed[s] \in Loads
  /\ pick \in Shards \cup {NoShard}
  /\ round \in [list : Seq(Shards), picked : SUBSET Shards]

(* Safety: with one caller of UpdateShardNodes at a time the ring always   *)
(* holds every virtual node of its nodes once, map and slice alike, also   *)
(* between two nodes of an update, whatever shards come back meanwhile.    *)
RingExact == ring = Ring!RingOf(Ring!GetAllNodes(ring))

(* Safety: GetNode finds the node with the nearest point clockwise, also   *)
(* in the middle of an update: no key is without a shard.                  *)
OwnerIsNearest ==
  \A key \in Ring!Hashes :
    Ring!Owners(ring, key) = {Ring!GetNode(ring, key)} \ {NoShard}

(* Safety: the distribution that is reported is the part of the hashes     *)
(* that GetNode gives to each shard.                                       *)
SpaceIsShare ==
  \A n \in Ring!GetAllNodes(ring) :
    Ring!SpaceOf(ring, n) = Cardinality({key \in Ring!Hashes : Ring!GetNode(ring, key) = n})

(* Safety: a key moves only off a node that left or to one that joined.    *)
MinimalMovement ==
  [][ring' # ring => \A key \in Ring!Hashes :
       Ring!GetNode(ring', key) # Ring!GetNode(ring, key) =>
         \/ Ring!GetNode(ring, key) \notin Ring!GetAllNodes(ring')
         \/ Ring!GetNode(ring', key) \notin Ring!GetAllNodes(ring)]_vars

(* Safety: when the ring holds the shards to choose from, a resource goes  *)
(* to the nearest of them, however the loads differ.                       *)
OwnerGetsResource ==
  [][\A k \in Keys : AssignByRing(k) /\ Ring!GetAllNodes(ring) = Candidates =>
       pick' \in Ring!Owners(ring, HashOf[k])]_vars

(* Safety: as long as it is given the same shards in the same order, round *)
(* robin picks no shard twice before it has picked all of them.  The order *)
(* matters: the caller lists the shards anew for every resource, and when  *)
(* it gets the same ones in another order a shard can have two turns.      *)
RoundRobinVisitsAll ==
  [][AssignInTurn /\ round'.list = round.list => pick' \notin round.picked]_vars

(* Safety: RebalanceLoad finds a plan exactly if it decides to rebalance,  *)
(* and no plan moves resources to a shard that does not serve.             *)
RebalanceLawful ==
  /\ ShouldRebalance <=> RebalancePlans # {}
  /\ \A p \in RebalancePlans : p.target \in Serving /\ p.source # p.target
=============================================================================
