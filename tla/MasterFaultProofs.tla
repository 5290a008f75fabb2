------------------------ MODULE MasterFaultProofs ------------------------
(***************************************************************************)
(* What MasterServiceFaults keeps when allocations of memory fail, for any  *)
(* number of workers, hosts, keys and failures.                            *)
(***************************************************************************)
EXTENDS MasterServiceFaults, MasterDirectoryProofs

-----------------------------------------------------------------------------
(* Pools: what each operation, finished or cut short, does to the ids.      *)

(* The ids handed out that the queue does not hold: each is claimed by a    *)
(* key, or is lost.                                                        *)
Unqueued(m) == m.next_fresh_block - Len(m.recycled_blocks)

(* The ids of the queue are those of its positions.                        *)
LEMMA QueueIds ==
    ASSUME NEW m \in HostMemory
    PROVE  /\ Len(m.recycled_blocks) \in Nat /\ m.next_fresh_block \in Nat
           /\ Unqueued(m) \in Int
           /\ \A x \in Recycled(m) :
                 \E i \in 1..Len(m.recycled_blocks) : x = m.recycled_blocks[i]
BY DEF HostMemory, Recycled, Unqueued

(* A pool whose counter has not gone back, and whose set and queue name     *)
(* only ids they named before or the given one, has handed them out.        *)
LEMMA StillHandedOut ==
    ASSUME NEW m \in HostMemory, HandedOut(m), NEW n \in HostMemory, NEW x \in Nat,
           n.total_blocks = m.total_blocks, n.next_fresh_block <= n.total_blocks,
           m.next_fresh_block <= n.next_fresh_block, x < n.next_fresh_block,
           n.allocated_blocks \subseteq m.allocated_blocks \cup {x},
           Recycled(n) \subseteq Recycled(m) \cup {x}
    PROVE  HandedOut(n)
<1>1. m.next_fresh_block \in Nat /\ n.next_fresh_block \in Nat
  BY QueueIds
<1>2. \A y \in 0..(m.next_fresh_block - 1) : y \in 0..(n.next_fresh_block - 1)
  BY <1>1
<1>3. x \in 0..(n.next_fresh_block - 1)
  BY <1>1
<1> QED BY <1>2, <1>3 DEF HandedOut

(* An id taken from the pool has been handed out, whether or not it reaches *)
(* the allocated set.                                                      *)
LEMMA TakenHandedOut ==
    ASSUME NEW m \in HostMemory, HandedOut(m), HasFront(m),
           NEW n \in {BlockTaken(m), AllocateOne(m)}
    PROVE  /\ n \in HostMemory /\ HandedOut(n)
           /\ NextBlock(m) \in Nat /\ NextBlock(m) < n.next_fresh_block
           /\ m.next_fresh_block <= n.next_fresh_block
           /\ n.total_blocks = m.total_blocks
           /\ Unqueued(n) = Unqueued(m) + 1
<1> DEFINE q == m.recycled_blocks
           b == NextBlock(m)
<1>0. /\ m.total_blocks \in Nat /\ m.next_fresh_block \in Nat
      /\ q \in Seq(Nat) /\ Len(q) \in Nat /\ m.allocated_blocks \in SUBSET Nat
      /\ m.registration \in MemoryRegistration
      /\ m.next_fresh_block <= m.total_blocks
      /\ Recycled(m) \subseteq 0..(m.next_fresh_block - 1)
  BY DEF HostMemory, HandedOut
<1>1. /\ b \in Nat /\ AllocateOne(m) \in HostMemory
      /\ AllocateOne(m).total_blocks = m.total_blocks
      /\ AllocateOne(m).allocated_blocks = m.allocated_blocks \cup {b}
      /\ IsFresh(m) =>
            /\ b = m.next_fresh_block
            /\ AllocateOne(m).next_fresh_block = m.next_fresh_block + 1
            /\ AllocateOne(m).recycled_blocks = q
      /\ ~IsFresh(m) =>
            /\ b = q[1] /\ Len(q) > 0
            /\ AllocateOne(m).next_fresh_block = m.next_fresh_block
            /\ AllocateOne(m).recycled_blocks = Tail(q)
  BY AllocateOneTyped
<1>2. /\ BlockTaken(m) \in HostMemory
      /\ BlockTaken(m).total_blocks = m.total_blocks
      /\ BlockTaken(m).allocated_blocks = m.allocated_blocks
      /\ IsFresh(m) =>
            /\ BlockTaken(m).next_fresh_block = m.next_fresh_block + 1
            /\ BlockTaken(m).recycled_blocks = q
      /\ ~IsFresh(m) =>
            /\ BlockTaken(m).next_fresh_block = m.next_fresh_block
            /\ BlockTaken(m).recycled_blocks = Tail(q)
  <2>1. CASE IsFresh(m)
    <3>1. m.next_fresh_block + 1 \in Nat
      BY <1>0
    <3> QED BY <1>0, <2>1, <3>1 DEF BlockTaken, HostMemory
  <2>2. CASE ~IsFresh(m)
    <3>1. Tail(q) \in Seq(Nat)
      BY <1>0, <1>1, <2>2
    <3> QED BY <1>0, <2>2, <3>1 DEF BlockTaken, HostMemory
  <2> QED BY <2>1, <2>2
<1> HIDE DEF b
<1>3. /\ n \in HostMemory /\ n.total_blocks = m.total_blocks
      /\ n.allocated_blocks \subseteq m.allocated_blocks \cup {b}
      /\ IsFresh(m) => n.next_fresh_block = m.next_fresh_block + 1 /\ n.recycled_blocks = q
      /\ ~IsFresh(m) => n.next_fresh_block = m.next_fresh_block /\ n.recycled_blocks = Tail(q)
  <2>1. CASE n = AllocateOne(m)
    BY <1>1, <2>1
  <2>2. CASE n = BlockTaken(m)
    BY <1>2, <2>2
  <2> QED BY <2>1, <2>2
<1>4. CASE IsFresh(m)
  <2>1. Recycled(n) = Recycled(m)
    BY <1>3, <1>4 DEF Recycled
  <2>2. /\ m.next_fresh_block < m.total_blocks /\ b = m.next_fresh_block
        /\ n.next_fresh_block = m.next_fresh_block + 1
    BY <1>1, <1>3, <1>4 DEF IsFresh
  <2>3. HandedOut(n)
    BY <1>0, <1>1, <1>3, <2>1, <2>2, StillHandedOut
  <2> QED BY <1>0, <1>1, <1>3, <1>4, <2>2, <2>3 DEF Unqueued, b
<1>5. CASE ~IsFresh(m)
  <2>1. b = q[1] /\ Len(q) > 0 /\ n.recycled_blocks = Tail(q)
        /\ n.next_fresh_block = m.next_fresh_block
    BY <1>1, <1>3, <1>5
  <2>2. /\ Len(Tail(q)) = Len(q) - 1
        /\ \A i \in 1..Len(Tail(q)) : Tail(q)[i] = q[i + 1] /\ i + 1 \in 1..Len(q)
    BY <1>0, <2>1
  <2>3. Recycled(n) \subseteq Recycled(m)
    BY <2>1, <2>2 DEF Recycled
  <2>4. b \in Recycled(m)
    BY <1>0, <2>1 DEF Recycled
  <2>5. b < n.next_fresh_block
    BY <1>0, <2>1, <2>4
  <2>6. HandedOut(n)
    BY <1>0, <1>1, <1>3, <2>1, <2>3, <2>5, StillHandedOut
  <2> QED BY <1>0, <1>1, <1>3, <2>1, <2>2, <2>5, <2>6 DEF Unqueued, b
<1> QED BY <1>4, <1>5

(* A block dropped or returned stays handed out.                            *)
LEMMA GivenBackHandedOut ==
    ASSUME NEW m \in HostMemory, HandedOut(m), NEW b \in Nat, b < m.next_fresh_block,
           NEW n \in {Dropped(m, b), FreeOne(m, b)}
    PROVE  /\ n \in HostMemory /\ HandedOut(n)
           /\ n.next_fresh_block = m.next_fresh_block
           /\ n.total_blocks = m.total_blocks
           /\ n = FreeOne(m, b) => Unqueued(n) = Unqueued(m) - 1
           /\ n = Dropped(m, b) => Unqueued(n) = Unqueued(m)
<1> DEFINE q == m.recycled_blocks
<1>0. /\ m.total_blocks \in Nat /\ m.next_fresh_block \in Nat
      /\ q \in Seq(Nat) /\ Len(q) \in Nat /\ m.allocated_blocks \in SUBSET Nat
      /\ m.next_fresh_block <= m.total_blocks
  BY DEF HostMemory, HandedOut
<1>1. /\ FreeOne(m, b) \in HostMemory
      /\ FreeOne(m, b).total_blocks = m.total_blocks
      /\ FreeOne(m, b).next_fresh_block = m.next_fresh_block
      /\ FreeOne(m, b).allocated_blocks = m.allocated_blocks \ {b}
      /\ FreeOne(m, b).recycled_blocks = Append(q, b)
  BY FreeOneTyped
<1>2. /\ Dropped(m, b) \in HostMemory
      /\ Dropped(m, b).total_blocks = m.total_blocks
      /\ Dropped(m, b).next_fresh_block = m.next_fresh_block
      /\ Dropped(m, b).allocated_blocks = m.allocated_blocks \ {b}
      /\ Dropped(m, b).recycled_blocks = q
  <2>1. m.allocated_blocks \ {b} \in SUBSET Nat
    BY <1>0
  <2> QED BY <2>1 DEF Dropped, HostMemory
<1>3. /\ Len(Append(q, b)) = Len(q) + 1
      /\ \A i \in 1..Len(q) : Append(q, b)[i] = q[i]
      /\ Append(q, b)[Len(q) + 1] = b
  BY <1>0
<1>4. CASE n = FreeOne(m, b)
  <2>1. n.recycled_blocks = Append(q, b)
    BY <1>1, <1>4
  <2>2. ASSUME NEW i \in 1..(Len(q) + 1)
        PROVE  Append(q, b)[i] = b \/ \E j \in 1..Len(q) : Append(q, b)[i] = q[j]
    <3>1. CASE i = Len(q) + 1
      BY <1>3, <3>1
    <3>2. CASE i # Len(q) + 1
      <4>1. Len(q) \in Nat
        BY <1>0
      <4>2. i \in 1..Len(q)
        BY <3>2, <4>1
      <4> QED BY <1>3, <4>2
    <3> QED BY <3>1, <3>2
  <2>3. Recycled(n) \subseteq Recycled(m) \cup {b}
    BY <1>3, <2>1, <2>2 DEF Recycled
  <2>4. HandedOut(n)
    BY <1>0, <1>1, <1>4, <2>3, StillHandedOut
  <2>5. Unqueued(n) = Unqueued(m) - 1
    <3>1. n.next_fresh_block = m.next_fresh_block /\ Len(n.recycled_blocks) = Len(q) + 1
      BY <1>1, <1>3, <1>4
    <3> QED BY <1>0, <3>1 DEF Unqueued
  <2>6. FreeOne(m, b) # Dropped(m, b)
    <3>1. Len(FreeOne(m, b).recycled_blocks) # Len(Dropped(m, b).recycled_blocks)
      BY <1>0, <1>1, <1>2, <1>3
    <3> QED BY <3>1
  <2> QED BY <1>1, <1>4, <2>4, <2>5, <2>6
<1>5. CASE n = Dropped(m, b)
  <2>1. Recycled(n) = Recycled(m)
    BY <1>2, <1>5 DEF Recycled
  <2>2. HandedOut(n)
    BY <1>0, <1>2, <1>5, <2>1, StillHandedOut
  <2>3. Unqueued(n) = Unqueued(m)
    BY <1>2, <1>5 DEF Unqueued
  <2>4. FreeOne(m, b) # Dropped(m, b)
    <3>1. Len(FreeOne(m, b).recycled_blocks) # Len(Dropped(m, b).recycled_blocks)
      BY <1>0, <1>1, <1>2, <1>3
    <3> QED BY <3>1
  <2> QED BY <1>2, <1>5, <2>2, <2>3, <2>4
<1> QED BY <1>4, <1>5

-----------------------------------------------------------------------------
(* The pools and the index together.  *)

FaultyPools ==
    /\ StateTyped /\ faults \in Nat
    /\ IsFiniteSet(DOMAIN key_index_)
    /\ FaultsContained

(* The keys of a host are finitely many, and what the loss of a pool is.    *)
LEMMA LossAt ==
    ASSUME FaultyPools, NEW h \in DOMAIN hosts_
    PROVE  /\ hosts_[h] \in HostMemory /\ HandedOut(hosts_[h])
           /\ Unqueued(hosts_[h]) \in Int
           /\ IsFiniteSet(KeysOn(h)) /\ Cardinality(KeysOn(h)) \in Nat
           /\ Unqueued(hosts_[h]) - Cardinality(KeysOn(h)) <= faults
           /\ Cardinality(KeysOn(h)) - Unqueued(hosts_[h]) <= faults
<1>1. hosts_[h] \in HostMemory /\ HandedOut(hosts_[h])
  BY DEF FaultyPools, StateTyped, FaultsContained, BlocksHandedOut
<1>2. /\ Len(hosts_[h].recycled_blocks) \in Nat /\ hosts_[h].next_fresh_block \in Nat
      /\ Unqueued(hosts_[h]) \in Int
  BY <1>1, QueueIds
<1>3. IsFiniteSet(KeysOn(h)) /\ Cardinality(KeysOn(h)) \in Nat
  BY FS_Subset, FS_CardinalityType DEF FaultyPools, KeysOn
<1>4. /\ hosts_[h].next_fresh_block <= Claims(h) + faults
      /\ Claims(h) <= hosts_[h].next_fresh_block + faults
  BY DEF FaultyPools, FaultsContained, LossBounded
<1> QED BY <1>1, <1>2, <1>3, <1>4 DEF FaultyPools, Claims, Unqueued

(* A step that changes one pool and its keys names no block that was not    *)
(* handed out, if the pool and the new keys do not.                         *)
LEMMA OnePoolHandedOut ==
    ASSUME FaultyPools, NEW H \in DOMAIN hosts_, NEW n \in HostMemory,
           DOMAIN hosts_' = DOMAIN hosts_, hosts_'[H] = n,
           \A g \in DOMAIN hosts_ \ {H} : hosts_'[g] = hosts_[g],
           HandedOut(n), hosts_[H].next_fresh_block <= n.next_fresh_block,
           \A k \in DOMAIN key_index_' :
              \/ k \in DOMAIN key_index_ /\ key_index_'[k] = key_index_[k]
              \/ key_index_'[k].host_id = H /\ key_index_'[k].block_id < n.next_fresh_block
    PROVE  BlocksHandedOut'
<1>1. \A g \in DOMAIN hosts_' : HandedOut(hosts_'[g])
  BY DEF FaultyPools, FaultsContained, BlocksHandedOut
<1>2. ASSUME NEW k \in DOMAIN key_index_'
      PROVE  /\ key_index_'[k].host_id \in DOMAIN hosts_'
             /\ key_index_'[k].block_id < hosts_'[key_index_'[k].host_id].next_fresh_block
  <2>1. CASE k \in DOMAIN key_index_ /\ key_index_'[k] = key_index_[k]
    <3> DEFINE g == key_index_[k].host_id
               b == key_index_[k].block_id
    <3>1. g \in DOMAIN hosts_ /\ b < hosts_[g].next_fresh_block /\ b \in Nat
      BY <2>1 DEF FaultyPools, FaultsContained, BlocksHandedOut, StateTyped, BlockLocation
    <3> HIDE DEF g, b
    <3>2. CASE g = H
      <4>1. hosts_[H].next_fresh_block \in Nat /\ n.next_fresh_block \in Nat
        BY LossAt, QueueIds
      <4>2. b < n.next_fresh_block
        BY <3>1, <3>2, <4>1
      <4> QED BY <2>1, <3>1, <3>2, <4>2 DEF g, b
    <3>3. CASE g # H
      BY <2>1, <3>1, <3>3 DEF g, b
    <3> QED BY <3>2, <3>3
  <2>2. CASE key_index_'[k].host_id = H /\ key_index_'[k].block_id < n.next_fresh_block
    BY <2>2
  <2> QED BY <2>1, <2>2
<1> QED BY <1>1, <1>2 DEF BlocksHandedOut

(* The loss of a pool, written as LossBounded does.                         *)
LEMMA Balance ==
    ASSUME NEW x \in Nat, NEW l \in Nat, NEW c \in Nat, NEW f \in Nat,
           x - l - c <= f, c - (x - l) <= f
    PROVE  x <= c + l + f /\ c + l <= x + f
OBVIOUS

(* A bound on the difference of two numbers may grow.                      *)
LEMMA LargerBound ==
    ASSUME NEW x \in Nat, NEW c \in Nat, NEW f \in Nat, NEW g \in Nat,
           x <= c + f, c <= x + f, f <= g
    PROVE  x <= c + g /\ c <= x + g
OBVIOUS

(* A step that changes one pool and its keys by the same amount keeps the   *)
(* loss as it was, and one that fails may change it by one block.           *)
LEMMA OnePoolLoss ==
    ASSUME FaultyPools, NEW H \in DOMAIN hosts_, NEW n \in HostMemory,
           DOMAIN hosts_' = DOMAIN hosts_, hosts_'[H] = n,
           \A g \in DOMAIN hosts_ \ {H} : hosts_'[g] = hosts_[g],
           NEW K \in [DOMAIN hosts_ -> SUBSET Keys],
           \A g \in DOMAIN hosts_ : K[g] = {k \in DOMAIN key_index_' : key_index_'[k].host_id = g},
           \A g \in DOMAIN hosts_ \ {H} : K[g] = KeysOn(g),
           Cardinality(K[H]) \in Nat,
           NEW d \in {-1, 0, 1},
           Unqueued(n) - Cardinality(K[H]) = Unqueued(hosts_[H]) - Cardinality(KeysOn(H)) + d,
           \/ d = 0 /\ faults' = faults
           \/ faults' = faults + 1
    PROVE  LossBounded'
<1> SUFFICES ASSUME NEW g \in DOMAIN hosts_
             PROVE  /\ hosts_'[g].next_fresh_block <=
                          Cardinality(K[g]) + Len(hosts_'[g].recycled_blocks) + faults'
                    /\ Cardinality(K[g]) + Len(hosts_'[g].recycled_blocks) <=
                          hosts_'[g].next_fresh_block + faults'
  BY DEF LossBounded, Claims, KeysOn
<1>0. faults \in Nat
  BY DEF FaultyPools
<1>1. CASE g = H
  <2>1. /\ Unqueued(hosts_[H]) \in Int /\ Cardinality(KeysOn(H)) \in Nat
        /\ Unqueued(hosts_[H]) - Cardinality(KeysOn(H)) <= faults
        /\ Cardinality(KeysOn(H)) - Unqueued(hosts_[H]) <= faults
    BY LossAt
  <2>2. Len(n.recycled_blocks) \in Nat /\ n.next_fresh_block \in Nat /\ Unqueued(n) \in Int
    BY QueueIds
  <2>3. Unqueued(n) - Cardinality(K[H]) <= faults' /\ Cardinality(K[H]) - Unqueued(n) <= faults'
    BY <1>0, <2>1, <2>2
  <2>4. faults' \in Nat /\ Unqueued(n) = n.next_fresh_block - Len(n.recycled_blocks)
    BY <1>0 DEF Unqueued
  <2>5. /\ n.next_fresh_block <= Cardinality(K[H]) + Len(n.recycled_blocks) + faults'
        /\ Cardinality(K[H]) + Len(n.recycled_blocks) <= n.next_fresh_block + faults'
    <3> DEFINE c == Cardinality(K[H])
               l == Len(n.recycled_blocks)
               x == n.next_fresh_block
    <3>1. c \in Nat /\ l \in Nat /\ x \in Nat /\ x - l - c <= faults' /\ c - (x - l) <= faults'
      BY <2>2, <2>3, <2>4
    <3> HIDE DEF c, l, x
    <3>2. x <= c + l + faults' /\ c + l <= x + faults'
      BY <2>4, <3>1, Balance
    <3> QED BY <3>2 DEF c, l, x
  <2>6. hosts_'[g] = n /\ K[g] = K[H]
    BY <1>1
  <2> QED BY <2>5, <2>6
<1>2. CASE g # H
  <2>1. K[g] = KeysOn(g) /\ hosts_'[g] = hosts_[g]
    BY <1>2
  <2>2. /\ Unqueued(hosts_[g]) \in Int /\ Cardinality(KeysOn(g)) \in Nat
        /\ Unqueued(hosts_[g]) - Cardinality(KeysOn(g)) <= faults
        /\ Cardinality(KeysOn(g)) - Unqueued(hosts_[g]) <= faults
        /\ hosts_[g] \in HostMemory
    BY LossAt
  <2>3. Len(hosts_[g].recycled_blocks) \in Nat /\ hosts_[g].next_fresh_block \in Nat
    BY <2>2, QueueIds
  <2>4. /\ faults' \in Nat /\ faults <= faults'
        /\ Unqueued(hosts_[g]) = hosts_[g].next_fresh_block - Len(hosts_[g].recycled_blocks)
    BY <1>0 DEF Unqueued
  <2> DEFINE c == Cardinality(KeysOn(g))
             l == Len(hosts_[g].recycled_blocks)
             x == hosts_[g].next_fresh_block
  <2>5. c \in Nat /\ l \in Nat /\ x \in Nat /\ x - l - c <= faults /\ c - (x - l) <= faults
    BY <2>2, <2>3, <2>4
  <2>6. hosts_'[g].next_fresh_block = x /\ Len(hosts_'[g].recycled_blocks) = l
        /\ Cardinality(K[g]) = c
    BY <2>1
  <2> HIDE DEF c, l, x
  <2>7. x <= c + l + faults' /\ c + l <= x + faults'
    <3>1. x - l - c <= faults' /\ c - (x - l) <= faults'
      BY <1>0, <2>4, <2>5
    <3> QED BY <2>4, <2>5, <3>1, Balance
  <2> QED BY <2>6, <2>7
<1> QED BY <1>1, <1>2

(* A step that leaves the pools and the index alone.                        *)
LEMMA PoolsStay ==
    ASSUME FaultyPools, UNCHANGED <<hosts_, key_index_>>, faults' \in {faults, faults + 1}
    PROVE  FaultsContained' /\ IsFiniteSet(DOMAIN key_index_')
<1>1. BlocksHandedOut' /\ IsFiniteSet(DOMAIN key_index_')
  BY DEF FaultyPools, FaultsContained, BlocksHandedOut
<1>2. ASSUME NEW h \in DOMAIN hosts_
      PROVE  /\ hosts_'[h].next_fresh_block <= Claims(h)' + faults'
             /\ Claims(h)' <= hosts_'[h].next_fresh_block + faults'
  <2> DEFINE c == Claims(h)
             x == hosts_[h].next_fresh_block
  <2>1. Claims(h)' = c /\ hosts_'[h].next_fresh_block = x
    BY DEF Claims, KeysOn
  <2>2. c \in Nat /\ x \in Nat /\ faults \in Nat
    <3>1. Cardinality(KeysOn(h)) \in Nat /\ hosts_[h] \in HostMemory
      BY LossAt
    <3> QED BY <3>1, QueueIds DEF Claims, FaultyPools
  <2>3. x <= c + faults /\ c <= x + faults
    BY DEF FaultyPools, FaultsContained, LossBounded
  <2> HIDE DEF c, x
  <2>4. x <= c + faults' /\ c <= x + faults'
    <3>1. faults' \in Nat /\ faults <= faults'
      BY <2>2
    <3> QED BY <2>2, <2>3, <3>1, LargerBound
  <2> QED BY <2>1, <2>4
<1> QED BY <1>1, <1>2 DEF FaultsContained, LossBounded

(* What a registration does to the pools, whether or not its reply can be   *)
(* built afterwards.                                                       *)
PoolAdded(r, h) ==
    /\ h \notin DOMAIN hosts_ /\ DOMAIN hosts_' = DOMAIN hosts_ \cup {h}
    /\ hosts_'[h] = NewHost(r) /\ UNCHANGED key_index_
    /\ \A g \in DOMAIN hosts_ : hosts_'[g] = hosts_[g]

(* A registration adds a pool that has handed out no id.                    *)
LEMMA RegisterContained ==
    ASSUME FaultyPools, NEW r \in MemoryRegistration, NEW h \in HostIds,
           ValidateRegistration(r) = "kOk", PoolAdded(r, h), faults' \in {faults, faults + 1}
    PROVE  FaultsContained' /\ IsFiniteSet(DOMAIN key_index_')
<1>0. faults \in Nat /\ faults' \in Nat /\ faults <= faults'
  BY DEF FaultyPools
<1>1. /\ h \notin DOMAIN hosts_ /\ DOMAIN hosts_' = DOMAIN hosts_ \cup {h}
      /\ hosts_'[h] = NewHost(r) /\ key_index_' = key_index_
      /\ \A g \in DOMAIN hosts_ : hosts_'[g] = hosts_[g]
  BY DEF PoolAdded
<1>2. HandedOut(NewHost(r))
  BY NewHostPool DEF Partitioned, HandedOut
<1>3. \A k \in DOMAIN key_index_ :
         /\ key_index_[k].host_id \in DOMAIN hosts_
         /\ key_index_[k].block_id < hosts_[key_index_[k].host_id].next_fresh_block
  BY DEF FaultyPools, FaultsContained, BlocksHandedOut
<1>4. BlocksHandedOut'
  BY <1>1, <1>2, <1>3 DEF FaultyPools, FaultsContained, BlocksHandedOut
<1>5. ASSUME NEW g \in DOMAIN hosts_
      PROVE  /\ hosts_'[g].next_fresh_block <= Claims(g)' + faults'
             /\ Claims(g)' <= hosts_'[g].next_fresh_block + faults'
  <2>1. Claims(g)' = Claims(g) /\ hosts_'[g] = hosts_[g]
    BY <1>1 DEF Claims, KeysOn
  <2> DEFINE c == Claims(g)
             x == hosts_[g].next_fresh_block
  <2>2. c \in Nat /\ x \in Nat
    <3>1. Cardinality(KeysOn(g)) \in Nat /\ hosts_[g] \in HostMemory
      BY LossAt
    <3> QED BY <3>1, QueueIds DEF Claims
  <2>3. x <= c + faults /\ c <= x + faults
    BY DEF FaultyPools, FaultsContained, LossBounded
  <2>4. Claims(g)' = c /\ hosts_'[g].next_fresh_block = x
    BY <2>1
  <2> HIDE DEF c, x
  <2>5. x <= c + faults' /\ c <= x + faults'
    BY <1>0, <2>2, <2>3, LargerBound
  <2> QED BY <2>4, <2>5
<1>6. /\ hosts_'[h].next_fresh_block <= Claims(h)' + faults'
      /\ Claims(h)' <= hosts_'[h].next_fresh_block + faults'
  <2>1. KeysOn(h)' = {}
    BY <1>1, <1>3 DEF KeysOn
  <2>2. Cardinality(KeysOn(h)') = 0
    BY <2>1, FS_EmptySet
  <2>3. hosts_'[h].next_fresh_block = 0 /\ Len(hosts_'[h].recycled_blocks) = 0
    BY <1>1 DEF NewHost
  <2>4. Claims(h)' = 0
    BY <2>2, <2>3 DEF Claims
  <2>5. PICK f \in Nat : f = faults'
    BY <1>0
  <2>6. 0 <= 0 + f /\ 0 <= f
    OBVIOUS
  <2> QED BY <2>3, <2>4, <2>5, <2>6
<1> QED BY <1>1, <1>4, <1>5, <1>6 DEF FaultsContained, LossBounded, FaultyPools

(* A key inserted is the one claim of the id taken for it.                  *)
LEMMA AllocKeyContained ==
    ASSUME FaultyPools, NEW t \in Threads, NEW H \in DOMAIN hosts_, NEW m \in HostMemory,
           NEW key \in Keys, HasFront(m), AllocatesKey(t, H, m, key), faults' = faults,
           DOMAIN key_index_' \subseteq Keys
    PROVE  FaultsContained' /\ IsFiniteSet(DOMAIN key_index_')
<1> DEFINE n == AllocateOne(m)
           K == [g \in DOMAIN hosts_ |-> {k \in DOMAIN key_index_' : key_index_'[k].host_id = g}]
<1>1. /\ m = hosts_[H] /\ key \notin DOMAIN key_index_
      /\ DOMAIN hosts_' = DOMAIN hosts_ /\ hosts_'[H] = n
      /\ \A g \in DOMAIN hosts_ \ {H} : hosts_'[g] = hosts_[g]
      /\ DOMAIN key_index_' = DOMAIN key_index_ \cup {key}
      /\ key_index_'[key] = [host_id |-> H, block_id |-> NextBlock(m)]
      /\ \A k \in DOMAIN key_index_ : key_index_'[k] = key_index_[k]
  BY DEF AllocatesKey
<1>2. HandedOut(m) /\ IsFiniteSet(KeysOn(H)) /\ Cardinality(KeysOn(H)) \in Nat
      /\ Unqueued(m) \in Int
  BY <1>1, LossAt
<1>3. /\ n \in HostMemory /\ HandedOut(n) /\ NextBlock(m) < n.next_fresh_block
      /\ m.next_fresh_block <= n.next_fresh_block /\ Unqueued(n) = Unqueued(m) + 1
  BY <1>2, TakenHandedOut
<1> HIDE DEF n
<1>4. BlocksHandedOut'
  <2>1. \A k \in DOMAIN key_index_' :
           \/ k \in DOMAIN key_index_ /\ key_index_'[k] = key_index_[k]
           \/ key_index_'[k].host_id = H /\ key_index_'[k].block_id < n.next_fresh_block
    BY <1>1, <1>3
  <2> QED BY <1>1, <1>3, <2>1, OnePoolHandedOut
<1>5. K \in [DOMAIN hosts_ -> SUBSET Keys]
  OBVIOUS
<1>6. K[H] = KeysOn(H) \cup {key} /\ \A g \in DOMAIN hosts_ \ {H} : K[g] = KeysOn(g)
  BY <1>1 DEF KeysOn
<1>7. Cardinality(K[H]) = Cardinality(KeysOn(H)) + 1
  <2>1. key \notin KeysOn(H)
    BY <1>1 DEF KeysOn
  <2> QED BY <1>2, <1>6, <2>1, FS_AddElement
<1>8. \A g \in DOMAIN hosts_ : K[g] = {k \in DOMAIN key_index_' : key_index_'[k].host_id = g}
  OBVIOUS
<1>9. LossBounded'
  <2>1. /\ Cardinality(K[H]) \in Nat
        /\ Unqueued(n) - Cardinality(K[H]) = Unqueued(hosts_[H]) - Cardinality(KeysOn(H)) + 0
    BY <1>1, <1>2, <1>3, <1>7
  <2> HIDE DEF K
  <2> QED BY <1>1, <1>3, <1>5, <1>6, <1>8, <2>1, OnePoolLoss
<1>10. IsFiniteSet(DOMAIN key_index_')
  BY <1>1, FS_AddElement DEF FaultyPools
<1> QED BY <1>4, <1>9, <1>10 DEF FaultsContained

(* A key erased gives its claim to the queue.                               *)
LEMMA FreeKeyContained ==
    ASSUME FaultyPools, NEW t \in Threads, NEW H \in DOMAIN hosts_, NEW m \in HostMemory,
           NEW key \in DOMAIN key_index_, NEW block \in Nat, FreesKey(t, H, m, key, block),
           FreedKey(H, m, key, block), faults' = faults
    PROVE  FaultsContained' /\ IsFiniteSet(DOMAIN key_index_')
<1> DEFINE n == FreeOne(m, block)
           K == [g \in DOMAIN hosts_ |-> {k \in DOMAIN key_index_' : key_index_'[k].host_id = g}]
<1>1. /\ m = hosts_[H] /\ key_index_[key] = [host_id |-> H, block_id |-> block]
      /\ DOMAIN hosts_' = DOMAIN hosts_ /\ hosts_'[H] = n
      /\ \A g \in DOMAIN hosts_ \ {H} : hosts_'[g] = hosts_[g]
      /\ DOMAIN key_index_' = DOMAIN key_index_ \ {key}
      /\ \A k \in DOMAIN key_index_ \ {key} : key_index_'[k] = key_index_[k]
  BY DEF FreesKey, FreedKey
<1>2. HandedOut(m) /\ IsFiniteSet(KeysOn(H)) /\ Cardinality(KeysOn(H)) \in Nat
      /\ Unqueued(m) \in Int
  BY <1>1, LossAt
<1>3. block < m.next_fresh_block
  BY <1>1 DEF FaultyPools, FaultsContained, BlocksHandedOut
<1>4. /\ n \in HostMemory /\ HandedOut(n) /\ n.next_fresh_block = m.next_fresh_block
      /\ Unqueued(n) = Unqueued(m) - 1
  BY <1>2, <1>3, GivenBackHandedOut
<1>5. m.next_fresh_block <= n.next_fresh_block
  BY <1>4, QueueIds
<1> HIDE DEF n
<1>6. BlocksHandedOut'
  <2>1. \A k \in DOMAIN key_index_' : k \in DOMAIN key_index_ /\ key_index_'[k] = key_index_[k]
    BY <1>1
  <2> QED BY <1>1, <1>4, <1>5, <2>1, OnePoolHandedOut
<1>7. K \in [DOMAIN hosts_ -> SUBSET Keys]
  BY <1>1 DEF FaultyPools, StateTyped
<1>8. K[H] = KeysOn(H) \ {key} /\ \A g \in DOMAIN hosts_ \ {H} : K[g] = KeysOn(g)
  BY <1>1 DEF KeysOn
<1>9. Cardinality(K[H]) = Cardinality(KeysOn(H)) - 1 /\ Cardinality(K[H]) \in Nat
  <2>1. key \in KeysOn(H)
    BY <1>1 DEF KeysOn
  <2>2. /\ IsFiniteSet(KeysOn(H) \ {key})
        /\ Cardinality(KeysOn(H) \ {key}) = Cardinality(KeysOn(H)) - 1
    BY <1>2, <2>1, FS_RemoveElement
  <2>3. Cardinality(KeysOn(H) \ {key}) \in Nat
    BY <2>2, FS_CardinalityType
  <2>4. K[H] = KeysOn(H) \ {key}
    BY <1>8
  <2> HIDE DEF K
  <2> QED BY <2>2, <2>3, <2>4
<1>10. \A g \in DOMAIN hosts_ : K[g] = {k \in DOMAIN key_index_' : key_index_'[k].host_id = g}
  OBVIOUS
<1>11. LossBounded'
  <2>1. Unqueued(n) - Cardinality(K[H]) = Unqueued(hosts_[H]) - Cardinality(KeysOn(H)) + 0
    BY <1>1, <1>2, <1>4, <1>9
  <2> HIDE DEF K
  <2> QED BY <1>1, <1>4, <1>7, <1>8, <1>9, <1>10, <2>1, OnePoolLoss
<1>12. IsFiniteSet(DOMAIN key_index_')
  BY <1>1, FS_RemoveElement DEF FaultyPools
<1> QED BY <1>6, <1>11, <1>12 DEF FaultsContained

(* A block lost, or returned although its key remains, is one failure's.    *)
LEMMA FailureContained ==
    ASSUME FaultyPools, NEW H \in DOMAIN hosts_, NEW n \in HostMemory,
           hosts_' = [hosts_ EXCEPT ![H] = n], UNCHANGED key_index_, faults' = faults + 1,
           HandedOut(n), hosts_[H].next_fresh_block <= n.next_fresh_block,
           NEW d \in {-1, 0, 1}, Unqueued(n) = Unqueued(hosts_[H]) + d
    PROVE  FaultsContained' /\ IsFiniteSet(DOMAIN key_index_')
<1> DEFINE K == [g \in DOMAIN hosts_ |-> KeysOn(g)]
<1>1. /\ DOMAIN hosts_' = DOMAIN hosts_ /\ hosts_'[H] = n
      /\ \A g \in DOMAIN hosts_ \ {H} : hosts_'[g] = hosts_[g]
  BY DEF FaultyPools, StateTyped
<1>2. BlocksHandedOut'
  <2>1. \A k \in DOMAIN key_index_' : k \in DOMAIN key_index_ /\ key_index_'[k] = key_index_[k]
    OBVIOUS
  <2> QED BY <1>1, <2>1, OnePoolHandedOut
<1>3. Unqueued(hosts_[H]) \in Int /\ Cardinality(KeysOn(H)) \in Nat
  BY LossAt
<1>4. K \in [DOMAIN hosts_ -> SUBSET Keys]
  BY DEF KeysOn, FaultyPools, StateTyped
<1>5. \A g \in DOMAIN hosts_ : K[g] = {k \in DOMAIN key_index_' : key_index_'[k].host_id = g}
  BY DEF KeysOn
<1>6. /\ \A g \in DOMAIN hosts_ \ {H} : K[g] = KeysOn(g)
      /\ Cardinality(K[H]) \in Nat
      /\ Unqueued(n) - Cardinality(K[H]) = Unqueued(hosts_[H]) - Cardinality(KeysOn(H)) + d
  BY <1>3
<1> HIDE DEF K
<1>7. LossBounded'
  BY <1>1, <1>4, <1>5, <1>6, OnePoolLoss
<1> QED BY <1>2, <1>7 DEF FaultsContained, FaultyPools

-----------------------------------------------------------------------------
(* Steps.  *)

(* The invariant as the steps below use it.                                *)
LEMMA FaultParts ==
    ASSUME FaultInv
    PROVE  /\ GInv /\ FaultyPools
           /\ reply \in [Threads -> Reply \cup {NoReply, BadAlloc}]
           /\ faults \in 0..MaxFaults
           /\ \A h \in DOMAIN hosts_ : IsFiniteSet(hosts_[h].allocated_blocks)
<1>1. GInv
  BY DEF FaultInv, FaultTyped, HandlerOK, ChecksStillHold, GInv, LocalOK
<1>2. FaultyPools
  BY FaultAssumption DEF FaultInv, FaultTyped, FaultyPools
<1>3. ASSUME NEW h \in DOMAIN hosts_ PROVE IsFiniteSet(hosts_[h].allocated_blocks)
  <2>1. hosts_[h] \in HostMemory /\ HandedOut(hosts_[h])
    BY <1>2, LossAt
  <2>2. hosts_[h].next_fresh_block \in Nat
    BY <2>1, QueueIds
  <2>3. hosts_[h].allocated_blocks \subseteq 0..(hosts_[h].next_fresh_block - 1)
    BY <2>1 DEF HandedOut
  <2>4. IsFiniteSet(0..(hosts_[h].next_fresh_block - 1))
    <3>1. hosts_[h].next_fresh_block - 1 \in Int
      BY <2>2
    <3> QED BY <3>1, FS_Interval
  <2> QED BY <2>3, <2>4, FS_Subset
<1> QED BY <1>1, <1>2, <1>3 DEF FaultInv, FaultTyped

(* The same one step later, in the direction the step lemmas use.          *)
LEMMA FaultOfParts ==
    ASSUME GInv', FaultsContained', IsFiniteSet(DOMAIN key_index_'),
           reply' \in [Threads -> Reply \cup {NoReply, BadAlloc}], faults' \in 0..MaxFaults
    PROVE  FaultInv'
BY DEF FaultInv, FaultTyped, HandlerOK, ChecksStillHold, GInv, LocalOK

(* A step of a worker that does not fail harms no block.                    *)
LEMMA HandlerContained ==
    ASSUME GInv, FaultyPools, GInv', NEW t \in Threads, Call(t) \/ Handler(t),
           AllocKey(t) => HasFront(hosts_[Host(t)]), faults' = faults
    PROVE  FaultsContained' /\ IsFiniteSet(DOMAIN key_index_')
<1>1. CASE RegisterMemory(t)
  <2>1. CASE RegistersNothing(t)
    BY <2>1, PoolsStay DEF RegistersNothing, dataVars
  <2>2. CASE ~RegistersNothing(t)
    <3>1. PICK r \in MemoryRegistration, h \in HostIds :
             ValidateRegistration(r) = "kOk" /\ RegistersPool(t, r, h)
      BY <1>1, <2>2, RegisterEffect
    <3>2. PoolAdded(r, h)
      BY <3>1 DEF RegistersPool, PoolAdded
    <3> QED BY <3>1, <3>2, RegisterContained
  <2> QED BY <2>1, <2>2
<1>2. CASE AllocKey(t)
  <2>1. PICK H \in DOMAIN hosts_, m \in HostMemory, key \in Keys :
           HasFront(m) /\ AllocatesKey(t, H, m, key)
    BY <1>2, AllocKeyEffect
  <2>2. DOMAIN key_index_' \subseteq Keys
    BY DEF GInv, StateTyped
  <2> QED BY <2>1, <2>2, AllocKeyContained
<1>3. CASE FreeKey(t)
  <2>1. PICK H \in DOMAIN hosts_, m \in HostMemory, key \in DOMAIN key_index_, block \in Nat :
           FreesKey(t, H, m, key, block)
    BY <1>3, FreesItsKey DEF FreeKey
  <2>2. FreedKey(H, m, key, block)
    BY <1>3, <2>1, FreeKeyEffect
  <2> QED BY <2>1, <2>2, FreeKeyContained
<1>4. CASE AllocCheck(t)
  <2>1. UNCHANGED <<hosts_, key_index_>>
    BY <1>4 DEF AllocCheck, Start, dataVars
  <2> QED BY <2>1, PoolsStay
<1>5. CASE ~(RegisterMemory(t) \/ AllocKey(t) \/ FreeKey(t) \/ AllocCheck(t))
  <2>1. UNCHANGED <<hosts_, key_index_>>
    BY <1>5, QuietSteps DEF Handler
  <2> QED BY <2>1, PoolsStay
<1> QED BY <1>1, <1>2, <1>3, <1>4, <1>5

(* A handler does not allocate from an empty pool here: that is the crash.  *)
LEMMA FrontThere ==
    ASSUME NEW t \in Threads, ~FrontOfEmpty(t), Looping(t, "AllocBlocks")
    PROVE  HasFront(hosts_[Host(t)])
BY DEF FrontOfEmpty, HasFront

(* A step of a worker that does not fail keeps the invariant.               *)
LEMMA HandlerKeeps ==
    ASSUME FaultInv, NEW t \in Threads, Call(t) \/ (Handler(t) /\ ~FrontOfEmpty(t)),
           UNCHANGED faults
    PROVE  FaultInv'
<1>0. GInv /\ FaultyPools
      /\ reply \in [Threads -> Reply \cup {NoReply, BadAlloc}] /\ faults \in 0..MaxFaults
      /\ \A h \in DOMAIN hosts_ : IsFiniteSet(hosts_[h].allocated_blocks)
  BY FaultParts
<1>1. AllocKey(t) => HasFront(hosts_[Host(t)])
  <2>1. CASE Call(t)
    BY <2>1 DEF Call, AllocKey, Looping, Reaches
  <2>2. CASE ~FrontOfEmpty(t)
    BY <2>2, FrontThere DEF AllocKey
  <2> QED BY <2>1, <2>2
<1>2. GInv'
  BY <1>0, <1>1, GuardStep
<1>3. FaultsContained' /\ IsFiniteSet(DOMAIN key_index_')
  BY <1>0, <1>1, <1>2, HandlerContained
<1>4. reply' \in [Threads -> Reply \cup {NoReply, BadAlloc}]
  <2>1. \/ UNCHANGED reply
        \/ \E r \in Reply \cup {NoReply} : reply' = [reply EXCEPT ![t] = r]
    BY <1>0, ReplyStep
  <2> QED BY <1>0, <2>1
<1> QED BY <1>0, <1>2, <1>3, <1>4, FaultOfParts

(* What every exception that leaves a handler under the lock does.          *)
LEMMA ThrowEffect ==
    ASSUME GInv, NEW t \in Threads, Throw(t), faults \in 0..MaxFaults,
           reply \in [Threads -> Reply \cup {NoReply, BadAlloc}]
    PROVE  /\ Frame(t) /\ Respond(t, BadAlloc) /\ faults' = faults + 1
           /\ faults' \in 0..MaxFaults
           /\ reply' \in [Threads -> Reply \cup {NoReply, BadAlloc}]
<1>1. Respond(t, BadAlloc) /\ faults' = faults + 1 /\ faults' \in 0..MaxFaults
  BY FaultAssumption DEF Throw
<1>2. Frame(t) /\ reply' \in [Threads -> Reply \cup {NoReply, BadAlloc}]
  BY <1>1 DEF Respond, Goto, localVars, Frame, GInv, StateTyped
<1> QED BY <1>1, <1>2

(* An exception before the lock is taken.                                   *)
LEMMA UnlockedGuard ==
    ASSUME GInv, NEW t \in Threads, ThrowUnlocked(t)
    PROVE  GInv'
<1> USE DEF ThrowUnlocked, Goto, localVars, lockVars, dataVars
<1>0. StateTyped /\ LocalOK(t) /\ LockDiscipline
  BY DEF GInv
<1>1. StateTyped'
  BY <1>0 DEF StateTyped, Stages
<1>2. /\ pc'[t] = "return" /\ request'[t] = request[t]
      /\ cursor'[t] = cursor[t] /\ matches'[t] = matches[t] /\ best'[t] = best[t]
  BY <1>0 DEF StateTyped
<1>3. Frame(t)
  BY <1>0 DEF Frame, StateTyped
<1>4. LockDiscipline'
  BY <1>0, <1>2, <1>3, LockUnchanged DEF InCriticalSection
<1>5. LocalOK(t)'
  BY <1>0, <1>2
     DEF LocalOK, StageOK, ChecksHold, AllocChecked, FreeChecked,
         MatchesCurrent, Reaches
<1>6. \A u \in Threads \ {t} : LocalOK(u)'
  BY <1>3, OtherThreads DEF GInv
<1> QED BY <1>1, <1>4, <1>5, <1>6 DEF GInv

(* What an exception after a registration has done.                         *)
LEMMA RegisteredEffect ==
    ASSUME GInv, NEW t \in Threads, ThrowRegistered(t)
    PROVE  \E r \in MemoryRegistration, h \in HostIds :
              /\ ValidateRegistration(r) = "kOk" /\ PoolAdded(r, h)
              /\ available_blocks_' \in Word
              /\ hosts_' \in [DOMAIN hosts_' -> HostMemory]
<1> DEFINE r == request[t].registration
           h == r.host_id
<1>0. StateTyped /\ StageOK(t) /\ pc[t] = "locked" /\ request[t].op = "RegisterMemory"
  BY DEF GInv, ThrowRegistered, Reaches, LocalOK
<1>1. r \in MemoryRegistration /\ h \in HostIds /\ ValidateRegistration(r) = "kOk"
  <2>1. request[t] \in Request /\ ValidateRequest(request[t]) = "kOk"
    BY <1>0 DEF StageOK
  <2>2. r \in MemoryRegistration
    BY <1>0, <2>1, RequestFields
  <2>3. ValidateRegistration(r) = "kOk"
    BY <1>0, <2>1 DEF ValidateRequest, BatchOps
  <2> QED BY <2>2, <2>3 DEF MemoryRegistration
<1>2. Total(r) \in Nat /\ NewHost(r) \in HostMemory
  BY <1>1, NewHostPool
<1>3. /\ h \notin DOMAIN hosts_ /\ available_blocks_ <= MaxWord - Total(r)
      /\ hosts_' = Emplace(hosts_, h, NewHost(r))
      /\ available_blocks_' = available_blocks_ + Total(r)
      /\ UNCHANGED key_index_
  BY DEF ThrowRegistered
<1> HIDE DEF r, h
<1>4. /\ DOMAIN hosts_' = DOMAIN hosts_ \cup {h}
      /\ hosts_'[h] = NewHost(r)
      /\ \A g \in DOMAIN hosts_ : hosts_'[g] = hosts_[g]
      /\ hosts_' = [g \in DOMAIN hosts_ \cup {h} |-> IF g = h THEN NewHost(r) ELSE hosts_[g]]
  BY <1>3 DEF Emplace
<1>5. PoolAdded(r, h) /\ hosts_' \in [DOMAIN hosts_' -> HostMemory]
  BY <1>0, <1>2, <1>3, <1>4 DEF StateTyped, PoolAdded
<1>6. available_blocks_' \in Word
  BY <1>0, <1>2, <1>3, WordAssumption DEF StateTyped, Word
<1> QED BY <1>1, <1>5, <1>6

(* The handlers and the lock after it.                                      *)
LEMMA RegisteredGuard ==
    ASSUME GInv, NEW t \in Threads, pc[t] = "locked", request[t].op = "RegisterMemory",
           Frame(t), Respond(t, BadAlloc),
           NEW r \in MemoryRegistration, NEW h \in HostIds, PoolAdded(r, h),
           available_blocks_' \in Word, hosts_' \in [DOMAIN hosts_' -> HostMemory]
    PROVE  GInv'
<1>0. StateTyped /\ LocalOK(t) /\ LockDiscipline
  BY DEF GInv
<1>1. DOMAIN hosts_' = DOMAIN hosts_ \cup {h} /\ UNCHANGED key_index_
  BY DEF PoolAdded
<1>2. StateTyped'
  BY <1>0, <1>1 DEF StateTyped, Respond, Goto, Stages, localVars, lockVars
<1>3. pc'[t] = "unlock" /\ request'[t] = request[t] /\ best'[t] = best[t]
  BY <1>0 DEF StateTyped, Respond, Goto, localVars
<1>4. LockDiscipline'
  BY <1>0, <1>3, LockUnchanged DEF Respond, InCriticalSection
<1>5. LocalOK(t)'
  BY <1>0, <1>3
     DEF LocalOK, StageOK, ChecksHold, AllocChecked, FreeChecked,
         MatchesCurrent, Reaches
<1>6. \A u \in Threads \ {t} : LocalOK(u)'
  <2>1. \A u \in Threads \ {t} : ~InCriticalSection(u)
    BY WriterAlone DEF WriteOps
  <2> QED BY <2>1, OtherThreads DEF GInv
<1> QED BY <1>2, <1>4, <1>5, <1>6 DEF GInv

(* An exception out of a loop that has changed a pool.                      *)
LEMMA LoopGuard ==
    ASSUME GInv, NEW t \in Threads, pc[t] = "update", request[t].op \in BatchOps,
           Frame(t), Respond(t, BadAlloc), NEW H \in DOMAIN hosts_, NEW n \in HostMemory,
           hosts_' = [hosts_ EXCEPT ![H] = n], UNCHANGED <<key_index_, available_blocks_>>
    PROVE  GInv'
<1>0. StateTyped /\ LocalOK(t) /\ LockDiscipline
  BY DEF GInv
<1>1. DOMAIN hosts_' = DOMAIN hosts_ /\ hosts_' \in [DOMAIN hosts_' -> HostMemory]
  BY <1>0 DEF StateTyped
<1>2. StateTyped'
  BY <1>0, <1>1 DEF StateTyped, Respond, Goto, Stages, localVars, lockVars
<1>3. pc'[t] = "unlock" /\ request'[t] = request[t] /\ best'[t] = best[t]
  BY <1>0 DEF StateTyped, Respond, Goto, localVars
<1>4. LockDiscipline'
  BY <1>0, <1>3, LockUnchanged DEF Respond, InCriticalSection
<1>5. LocalOK(t)'
  BY <1>0, <1>3
     DEF LocalOK, StageOK, ChecksHold, AllocChecked, FreeChecked,
         MatchesCurrent, Reaches
<1>6. \A u \in Threads \ {t} : LocalOK(u)'
  <2>1. \A u \in Threads \ {t} : ~InCriticalSection(u)
    BY WriterAlone DEF WriteOps, BatchOps
  <2> QED BY <2>1, OtherThreads DEF GInv
<1> QED BY <1>2, <1>4, <1>5, <1>6 DEF GInv

(* An exception keeps the invariant: the lock is released with the frame,   *)
(* and the loop it leaves harms at most the block it was at.                *)
LEMMA ThrowKeeps ==
    ASSUME FaultInv, NEW t \in Threads, ~FrontOfEmpty(t), Throws(t)
    PROVE  FaultInv'
<1>0. /\ GInv /\ FaultyPools /\ StateTyped
      /\ reply \in [Threads -> Reply \cup {NoReply, BadAlloc}] /\ faults \in 0..MaxFaults
  BY FaultParts DEF GInv
<1>1. CASE ThrowBefore(t) \/ ThrowAllocated(t)
  <2>1. Throw(t) /\ UNCHANGED <<hosts_, key_index_>> /\ pc[t] \in {"locked", "update", "scan"}
    BY <1>1 DEF ThrowBefore, ThrowAllocated, Looped, Reaches, dataVars
  <2>2. /\ Frame(t) /\ Respond(t, BadAlloc) /\ faults' = faults + 1
        /\ faults' \in 0..MaxFaults
        /\ reply' \in [Threads -> Reply \cup {NoReply, BadAlloc}]
    BY <1>0, <2>1, ThrowEffect
  <2>3. available_blocks_' \in Word
    <3>1. CASE ThrowBefore(t)
      BY <1>0, <3>1 DEF ThrowBefore, dataVars, StateTyped
    <3>2. CASE ThrowAllocated(t)
      <4>1. pc[t] = "update" /\ request[t].op = "AllocBlocks" /\ StageOK(t)
        BY <1>0, <3>2 DEF ThrowAllocated, Looped, Reaches, GInv, LocalOK
      <4>2. Len(request[t].keys) \in Nat /\ available_blocks_ \in Nat
        BY <1>0, <4>1, BatchKeys, WordAssumption DEF BatchOps, StateTyped, Word
      <4>3. \A n \in Int : n % (MaxWord + 1) \in Word
        BY WordAssumption DEF Word
      <4> QED BY <3>2, <4>2, <4>3 DEF ThrowAllocated
    <3> QED BY <1>1, <3>1, <3>2
  <2>4. GInv'
    BY <1>0, <2>1, <2>2, <2>3, RespondStep
  <2>5. FaultsContained' /\ IsFiniteSet(DOMAIN key_index_')
    BY <1>0, <2>1, <2>2, PoolsStay
  <2> QED BY <2>2, <2>4, <2>5, FaultOfParts
<1>2. CASE ThrowUnlocked(t)
  <2>1. GInv'
    BY <1>0, <1>2, UnlockedGuard
  <2>2. UNCHANGED <<hosts_, key_index_>> /\ faults' = faults + 1 /\ faults' \in 0..MaxFaults
    BY <1>0, <1>2, FaultAssumption DEF ThrowUnlocked, dataVars
  <2>3. reply' \in [Threads -> Reply \cup {NoReply, BadAlloc}]
    BY <1>0, <1>2 DEF ThrowUnlocked
  <2> QED BY <1>0, <2>1, <2>2, <2>3, PoolsStay, FaultOfParts
<1>3. CASE ThrowAllocating(t)
  <2>0. /\ Throw(t) /\ UNCHANGED <<key_index_, available_blocks_>>
        /\ pc[t] = "update" /\ request[t].op = "AllocBlocks" /\ StageOK(t)
        /\ Looping(t, "AllocBlocks")
    BY <1>0, <1>3 DEF ThrowAllocating, Looping, Reaches, GInv, LocalOK
  <2>1. /\ Frame(t) /\ Respond(t, BadAlloc) /\ faults' = faults + 1
        /\ faults' \in 0..MaxFaults
        /\ reply' \in [Threads -> Reply \cup {NoReply, BadAlloc}]
    BY <1>0, <2>0, ThrowEffect
  <2>2. HasFront(hosts_[Host(t)]) /\ Host(t) \in DOMAIN hosts_
    BY <2>0, FrontThere DEF StageOK
  <2>3. PICK H \in DOMAIN hosts_ : H = Host(t)
    BY <2>2
  <2>4. PICK n \in {BlockTaken(hosts_[H]), AllocateOne(hosts_[H])} :
           hosts_' = [hosts_ EXCEPT ![H] = n]
    BY <1>3, <2>3 DEF ThrowAllocating
  <2>5. hosts_[H] \in HostMemory /\ HandedOut(hosts_[H])
    BY <1>0, LossAt
  <2>6. /\ n \in HostMemory /\ HandedOut(n)
        /\ hosts_[H].next_fresh_block <= n.next_fresh_block
        /\ Unqueued(n) = Unqueued(hosts_[H]) + 1
    BY <2>2, <2>3, <2>5, TakenHandedOut
  <2>7. GInv'
    BY <1>0, <2>0, <2>1, <2>4, <2>6, LoopGuard DEF BatchOps
  <2>8. FaultsContained' /\ IsFiniteSet(DOMAIN key_index_')
    BY <1>0, <2>0, <2>1, <2>4, <2>6, FailureContained
  <2> QED BY <2>1, <2>7, <2>8, FaultOfParts
<1>4. CASE ThrowFreeing(t)
  <2>0. /\ Throw(t) /\ UNCHANGED <<key_index_, available_blocks_>>
        /\ pc[t] = "update" /\ request[t].op = "FreeBlocks" /\ Looping(t, "FreeBlocks")
    BY <1>4 DEF ThrowFreeing, Looping, Reaches
  <2>1. /\ Frame(t) /\ Respond(t, BadAlloc) /\ faults' = faults + 1
        /\ faults' \in 0..MaxFaults
        /\ reply' \in [Threads -> Reply \cup {NoReply, BadAlloc}]
    BY <1>0, <2>0, ThrowEffect
  <2>2. PICK H \in DOMAIN hosts_, m \in HostMemory, key \in DOMAIN key_index_, b \in Nat :
           FreesKey(t, H, m, key, b)
    BY <1>0, <2>0, FreesItsKey
  <2>3. /\ H = Host(t) /\ m = hosts_[H] /\ b = locations[t][cursor[t]].block_id
        /\ key_index_[key].host_id = H /\ key_index_[key].block_id = b
    BY <2>2 DEF FreesKey
  <2>4. PICK n \in {Dropped(hosts_[H], b), FreeOne(hosts_[H], b)} :
           hosts_' = [hosts_ EXCEPT ![H] = n]
    BY <1>4, <2>3 DEF ThrowFreeing
  <2>5. /\ hosts_[H] \in HostMemory /\ HandedOut(hosts_[H]) /\ Unqueued(hosts_[H]) \in Int
        /\ b < hosts_[H].next_fresh_block /\ hosts_[H].next_fresh_block \in Nat
    BY <1>0, <2>3, LossAt, QueueIds DEF FaultyPools, FaultsContained, BlocksHandedOut
  <2>6. /\ n \in HostMemory /\ HandedOut(n)
        /\ n.next_fresh_block = hosts_[H].next_fresh_block
        /\ n = FreeOne(hosts_[H], b) => Unqueued(n) = Unqueued(hosts_[H]) - 1
        /\ n = Dropped(hosts_[H], b) => Unqueued(n) = Unqueued(hosts_[H])
    BY <2>5, GivenBackHandedOut
  <2>7. PICK d \in {-1, 0, 1} : Unqueued(n) = Unqueued(hosts_[H]) + d
    <3>1. CASE n = FreeOne(hosts_[H], b)
      <4>1. Unqueued(n) = Unqueued(hosts_[H]) + (-1)
        BY <2>5, <2>6, <3>1
      <4> QED BY <4>1
    <3>2. CASE n = Dropped(hosts_[H], b)
      <4>1. Unqueued(n) = Unqueued(hosts_[H]) + 0
        BY <2>5, <2>6, <3>2
      <4> QED BY <4>1
    <3> QED BY <2>4, <3>1, <3>2
  <2>8. GInv'
    BY <1>0, <2>0, <2>1, <2>4, <2>6, LoopGuard DEF BatchOps
  <2>9. FaultsContained' /\ IsFiniteSet(DOMAIN key_index_')
    <3>1. hosts_[H].next_fresh_block <= n.next_fresh_block
      BY <2>5, <2>6
    <3> QED BY <1>0, <2>0, <2>1, <2>4, <2>6, <2>7, <3>1, FailureContained
  <2> QED BY <2>1, <2>8, <2>9, FaultOfParts
<1>5. CASE ThrowRegistered(t)
  <2>0. Throw(t) /\ pc[t] = "locked" /\ request[t].op = "RegisterMemory"
    BY <1>5 DEF ThrowRegistered, Reaches
  <2>1. /\ Frame(t) /\ Respond(t, BadAlloc) /\ faults' = faults + 1
        /\ faults' \in 0..MaxFaults
        /\ reply' \in [Threads -> Reply \cup {NoReply, BadAlloc}]
    BY <1>0, <2>0, ThrowEffect
  <2>2. PICK r \in MemoryRegistration, h \in HostIds :
           /\ ValidateRegistration(r) = "kOk" /\ PoolAdded(r, h)
           /\ available_blocks_' \in Word
           /\ hosts_' \in [DOMAIN hosts_' -> HostMemory]
    BY <1>0, <1>5, RegisteredEffect
  <2>3. GInv'
    BY <1>0, <2>0, <2>1, <2>2, RegisteredGuard
  <2>4. FaultsContained' /\ IsFiniteSet(DOMAIN key_index_')
    BY <1>0, <2>1, <2>2, RegisterContained
  <2> QED BY <2>1, <2>3, <2>4, FaultOfParts
<1> QED BY <1>1, <1>2, <1>3, <1>4, <1>5 DEF Throws

(* A Master just constructed has handed out nothing.                        *)
LEMMA InitContained ==
    Init => /\ IInv /\ IsFiniteSet(DOMAIN key_index_) /\ DOMAIN hosts_ = {}
            /\ DOMAIN key_index_ = {}
<1> SUFFICES ASSUME Init
             PROVE  /\ IInv /\ IsFiniteSet(DOMAIN key_index_) /\ DOMAIN hosts_ = {}
                    /\ DOMAIN key_index_ = {}
  OBVIOUS
<1>1. DOMAIN hosts_ = {} /\ DOMAIN key_index_ = {}
  BY DEF Init
<1> QED BY <1>1, InitInvariant, FS_EmptySet

(* The same one step later: a Master started again.                         *)
LEMMA RestartContained ==
    Init' => /\ IInv' /\ IsFiniteSet(DOMAIN key_index_)' /\ (DOMAIN hosts_ = {})'
             /\ (DOMAIN key_index_ = {})'
BY InitContained, PTL

(* The crash leaves a Master just started.                                  *)
LEMMA CrashKeeps ==
    ASSUME FaultInv, NEW t \in Threads, Crash(t)
    PROVE  FaultInv'
<1>1. Init'
  BY DEF Crash, Init
<1>2. /\ IInv' /\ IsFiniteSet(DOMAIN key_index_') /\ DOMAIN hosts_' = {}
      /\ DOMAIN key_index_' = {} /\ faults' = faults
  BY <1>1, RestartContained DEF Crash
<1>3. FaultsContained'
  BY <1>2 DEF FaultsContained, BlocksHandedOut, LossBounded
<1>4. GInv'
  BY <1>2 DEF IInv, TypeOK, HandlerOK, ChecksStillHold, GInv, LocalOK
<1>5. reply' \in [Threads -> Reply \cup {NoReply, BadAlloc}] /\ faults' \in 0..MaxFaults
  BY <1>2, FaultParts DEF IInv, TypeOK
<1> QED BY <1>2, <1>3, <1>4, <1>5, FaultOfParts

(* Every step, failed or not, keeps the invariant.                          *)
LEMMA FaultStep == FaultInv /\ [FaultNext]_faultVars => FaultInv'
<1> SUFFICES ASSUME FaultInv, [FaultNext]_faultVars PROVE FaultInv'
  OBVIOUS
<1>1. CASE UNCHANGED faultVars
  <2>1. UNCHANGED vars /\ faults' = faults
    BY <1>1 DEF faultVars
  <2>2. UNCHANGED <<hosts_, key_index_, reply>>
    BY <2>1 DEF vars, threadVars, dataVars
  <2>3. GInv'
    BY <2>1, FaultParts, GuardUnchanged
  <2>4. FaultsContained' /\ IsFiniteSet(DOMAIN key_index_')
    BY <2>1, <2>2, FaultParts, PoolsStay
  <2> QED BY <2>1, <2>2, <2>3, <2>4, FaultParts, FaultOfParts
<1>2. ASSUME NEW t \in Threads, Call(t) /\ UNCHANGED <<faults, before>>
      PROVE  FaultInv'
  BY <1>2, HandlerKeeps
<1>3. ASSUME NEW t \in Threads, FaultHandler(t) PROVE FaultInv'
  BY <1>3, HandlerKeeps, ThrowKeeps, CrashKeeps DEF FaultHandler
<1> QED BY <1>1, <1>2, <1>3 DEF FaultNext

-----------------------------------------------------------------------------
(* The theorems.  *)

(* Whatever allocations fail and whenever, the invariant of the fault model *)
(* holds: types, stages, lock, checks, pools.                              *)
THEOREM FaultInvariance == FaultSpec => []FaultInv
<1>1. FaultInit => FaultInv
  <2> SUFFICES ASSUME FaultInit PROVE FaultInv
    OBVIOUS
  <2>1. /\ IInv /\ IsFiniteSet(DOMAIN key_index_) /\ DOMAIN hosts_ = {}
        /\ DOMAIN key_index_ = {} /\ faults = 0
    BY InitContained DEF FaultInit
  <2>2. FaultsContained
    BY <2>1 DEF FaultsContained, BlocksHandedOut, LossBounded
  <2>3. FaultTyped
    BY <2>1, FaultAssumption DEF FaultTyped, IInv, TypeOK
  <2> QED BY <2>1, <2>2, <2>3 DEF FaultInv, IInv
<1> QED BY <1>1, FaultStep, PTL DEF FaultSpec

(* An exception releases the lock it leaves: the lock records exactly the   *)
(* handlers inside it, so that a failed request blocks nobody.              *)
THEOREM LockSurvivesFaults == FaultSpec => []LockDiscipline
BY FaultInvariance, PTL DEF FaultInv

(* What a handler has checked stays true for its loop, although other       *)
(* handlers fail half-way: it overwrites no key and frees no block but its  *)
(* keys' own.                                                              *)
THEOREM ChecksSurviveFaults == FaultSpec => []ChecksStillHold
BY FaultInvariance, PTL DEF FaultInv

(* Each failed allocation costs at most one block of a pool, and no key     *)
(* ever names a block that was not handed out.                             *)
THEOREM FaultDamageBounded == FaultSpec => []FaultsContained
BY FaultInvariance, PTL DEF FaultInv

Faultless == faults = 0 => RInv

(* Until the first failure nothing of this changes what the Master promises *)
(* otherwise: its invariant holds, with which no crash is possible.         *)
THEOREM SafeUntilFault == FaultSpec => []Faultless
<1>1. FaultInit => Faultless
  BY InitRInv DEF FaultInit, Faultless
<1>2. FaultInv /\ Faultless /\ [FaultNext]_faultVars => Faultless'
  <2> SUFFICES ASSUME FaultInv, faults = 0 => RInv, [FaultNext]_faultVars, faults' = 0
               PROVE  RInv'
    BY DEF Faultless
  <2>0. faults \in Nat
    BY FaultParts DEF FaultyPools
  <2>1. CASE UNCHANGED faultVars
    <3>1. UNCHANGED vars /\ RInv
      BY <2>1 DEF faultVars
    <3> QED BY <3>1, StepRInv
  <2>2. ASSUME NEW t \in Threads, Call(t) /\ UNCHANGED <<faults, before>>
        PROVE  RInv'
    <3>1. RInv /\ Next
      BY <2>2 DEF Next
    <3> QED BY <3>1, StepRInv
  <2>3. ASSUME NEW t \in Threads, FaultHandler(t)
        PROVE  RInv'
    <3>1. CASE Throws(t)
      <4>1. faults' = faults + 1
        BY <3>1 DEF Throws, ThrowBefore, ThrowUnlocked, ThrowRegistered, ThrowAllocating,
                    ThrowFreeing, ThrowAllocated, Throw
      <4> QED BY <2>0, <4>1
    <3>2. CASE Crash(t)
      <4>1. IInv
        BY <3>2 DEF Crash, RInv
      <4>2. HasFront(hosts_[Host(t)])
        BY <3>2, <4>1, FrontHeld DEF Crash, FrontOfEmpty
      <4> QED BY <3>2, <4>2 DEF Crash, FrontOfEmpty, HasFront
    <3>3. CASE Handler(t) /\ UNCHANGED faults
      <4>1. RInv /\ Next
        BY <3>3 DEF Next
      <4> QED BY <4>1, StepRInv
    <3> QED BY <2>3, <3>1, <3>2, <3>3 DEF FaultHandler
  <2> QED BY <2>1, <2>2, <2>3 DEF FaultNext
<1> QED BY <1>1, <1>2, FaultInvariance, PTL DEF FaultSpec

(* With no failure the fault model is the service, and so the directory: it *)
(* adds to MasterService what failures do and nothing else.                 *)
THEOREM NoFaultsIsService ==
    ASSUME MaxFaults = 0
    PROVE  FaultSpec => Spec /\ ImplementsDirectory
<1>1. FaultInit => Init
  BY DEF FaultInit
<1>2. FaultInv /\ Faultless /\ [FaultNext]_faultVars => [Next]_vars
  <2> SUFFICES ASSUME FaultInv, Faultless, FaultNext PROVE Next \/ UNCHANGED vars
    BY DEF faultVars
  <2>1. faults = 0 /\ RInv
    BY FaultParts DEF Faultless
  <2>2. ASSUME NEW t \in Threads, FaultHandler(t) PROVE Handler(t)
    <3>1. ~Throws(t)
      BY <2>1 DEF Throws, ThrowBefore, ThrowUnlocked, ThrowRegistered, ThrowAllocating,
                  ThrowFreeing, ThrowAllocated, Throw
    <3>2. ~FrontOfEmpty(t)
      BY <2>1, FrontHeld DEF RInv, FrontOfEmpty, HasFront
    <3> QED BY <2>2, <3>1, <3>2 DEF FaultHandler
  <2> QED BY <2>2 DEF FaultNext, Next
<1>3. FaultSpec => Spec
  BY <1>1, <1>2, FaultInvariance, SafeUntilFault, PTL DEF FaultSpec, Spec
<1> QED BY <1>3, Implementation, PTL

-----------------------------------------------------------------------------
(* How far a handler is from its end.                                      *)

(* A request has a number of keys to go through.                           *)
LEMMA BatchLengthNat ==
    ASSUME NEW r \in Request
    PROVE  BatchLength(r) \in Nat
<1>1. CASE r.op \in BatchOps \cup {"BatchExist"}
  <2>1. r.keys \in Seq(RawKeys)
    BY <1>1 DEF Request, BatchOps, CountOps
  <2> QED BY <1>1, <2>1 DEF BatchLength
<1>2. CASE r.op \notin BatchOps \cup {"BatchExist"}
  BY <1>2 DEF BatchLength
<1> QED BY <1>1, <1>2

(* The stages in the order in which a handler passes them.                  *)
Onward ==
    {<<"validate", "acquire">>, <<"validate", "return">>,
     <<"acquire", "locked">>, <<"acquire", "scan">>, <<"acquire", "return">>,
     <<"locked", "update">>, <<"locked", "unlock">>,
     <<"update", "unlock">>, <<"scan", "unlock">>, <<"unlock", "return">>}

(* What a handler at each stage has left: nothing when idle;               *)
LEMMA IdleLeft ==
    ASSUME NEW n, NEW i
    PROVE  StepsLeft("idle", n, i) = 0
BY DEF StepsLeft

(* outside the loops, what StepsLeft says of the stage;                    *)
LEMMA StageLeft ==
    ASSUME NEW n \in Nat, NEW i \in Nat \ {0}
    PROVE  /\ StepsLeft("return", n, i) = 1
           /\ StepsLeft("unlock", n, i) = 2
           /\ StepsLeft("locked", n, i) = 4 + n
           /\ StepsLeft("acquire", n, i) = 5 + n
           /\ StepsLeft("validate", n, i) = 6 + n
BY DEF StepsLeft

(* and in a loop, one less with every iteration.                           *)
LEMMA LoopLeft ==
    ASSUME NEW n \in Nat, NEW i \in Nat \ {0}, NEW stage \in {"update", "scan"}
    PROVE  /\ StepsLeft(stage, n, i) \in 3..(3 + n)
           /\ StepsLeft(stage, n, i + 1) \in Nat
           /\ i <= n => StepsLeft(stage, n, i + 1) < StepsLeft(stage, n, i)
<1>1. \A j : StepsLeft(stage, n, j) = 3 + (IF j <= n THEN n - j + 1 ELSE 0)
  BY DEF StepsLeft
<1>2. StepsLeft(stage, n, i) \in 3..(3 + n) /\ StepsLeft(stage, n, i + 1) \in Nat
  BY <1>1
<1>3. ASSUME i <= n PROVE StepsLeft(stage, n, i + 1) < StepsLeft(stage, n, i)
  <2>1. CASE i + 1 <= n
    BY <1>1, <1>3, <2>1
  <2>2. CASE ~(i + 1 <= n)
    BY <1>1, <1>3, <2>2
  <2> QED BY <2>1, <2>2
<1> QED BY <1>2, <1>3

(* From one stage to a later one there is less to do.                       *)
LEMMA OnwardDescends ==
    ASSUME NEW n \in Nat, NEW i \in Nat \ {0}, NEW from, NEW to, <<from, to>> \in Onward
    PROVE  StepsLeft(to, n, i) \in Nat /\ StepsLeft(to, n, i) < StepsLeft(from, n, i)
<1>1. /\ StepsLeft("update", n, i) \in 3..(3 + n) /\ StepsLeft("scan", n, i) \in 3..(3 + n)
  BY LoopLeft
<1> DEFINE F(s) == StepsLeft(s, n, i)
<1>2. /\ F("return") = 1 /\ F("unlock") = 2 /\ F("locked") = 4 + n /\ F("acquire") = 5 + n
      /\ F("validate") = 6 + n /\ F("update") \in 3..(3 + n) /\ F("scan") \in 3..(3 + n)
  BY <1>1, StageLeft
<1> HIDE DEF F
<1>3. F("acquire") < F("validate") /\ F("return") < F("validate")
      /\ F("locked") < F("acquire") /\ F("scan") < F("acquire") /\ F("return") < F("acquire")
      /\ F("update") < F("locked") /\ F("unlock") < F("locked")
      /\ F("unlock") < F("update") /\ F("unlock") < F("scan") /\ F("return") < F("unlock")
  BY <1>2
<1>4. F(to) < F(from)
  BY <1>3 DEF Onward
<1>5. F(to) \in Nat
  BY <1>2 DEF Onward
<1> QED BY <1>4, <1>5 DEF F

(* What a step of a handler does to the handler: it leaves, it goes on to a *)
(* later stage, or it ends an iteration.                                   *)
Moves(t) ==
    /\ pc[t] # "idle"
    /\ \/ pc'[t] = "idle"
       \/ /\ request'[t] = request[t] /\ cursor'[t] = cursor[t]
          /\ <<pc[t], pc'[t]>> \in Onward
       \/ /\ request'[t] = request[t] /\ cursor'[t] = cursor[t] + 1
          /\ pc'[t] = pc[t] /\ pc[t] \in {"update", "scan"}
          /\ cursor[t] <= BatchLength(request[t])

(* The handlers' steps move,                                               *)
LEMMA HandlerMoves ==
    ASSUME StateTyped, NEW t \in Threads, Handler(t)
    PROVE  Moves(t)
<1> USE DEF StateTyped, Goto, Reaches
<1>1. CASE Validate(t)
  BY <1>1 DEF Validate, localVars, Moves, Onward
<1>2. CASE AcquireExclusive(t) \/ AcquireShared(t)
  BY <1>2 DEF AcquireExclusive, AcquireShared, localVars, Moves, Onward
<1>3. ASSUME pc[t] \in {"locked", "update", "scan"}, NEW r, Respond(t, r) PROVE Moves(t)
  BY <1>3 DEF Respond, localVars, Moves, Onward
<1>4. CASE AllocCheck(t)
  <2>1. CASE Start(t)
    BY <1>4, <2>1 DEF AllocCheck, Start, Moves, Onward
  <2>2. CASE Respond(t, Refusal(AllocError(t)))
    BY <1>3, <1>4, <2>2 DEF AllocCheck
  <2> QED BY <1>4, <2>1, <2>2 DEF AllocCheck
<1>5. CASE FreeCheck(t)
  <2>1. CASE Start(t)
    BY <1>5, <2>1 DEF FreeCheck, Start, Moves, Onward
  <2>2. CASE Respond(t, Refusal(FreeError(t)))
    BY <1>3, <1>5, <2>2 DEF FreeCheck
  <2> QED BY <1>5, <2>1, <2>2 DEF FreeCheck
<1>6. CASE AllocKey(t)
  BY <1>6 DEF AllocKey, Looping, Moves, BatchLength, BatchOps
<1>7. CASE FreeKey(t)
  BY <1>7 DEF FreeKey, Looping, Moves, BatchLength, BatchOps
<1>8. CASE ScanKey(t)
  BY <1>8 DEF ScanKey, Scanning, Moves, BatchLength, BatchOps
<1>9. CASE RegisterMemory(t)
  BY <1>3, <1>9 DEF RegisterMemory
<1>10. CASE AllocDone(t) \/ FreeDone(t)
  BY <1>3, <1>10 DEF AllocDone, FreeDone, Looped
<1>11. CASE Exist(t) \/ FindHost(t)
  BY <1>3, <1>11 DEF Exist, FindHost
<1>12. CASE ScanDone(t)
  BY <1>3, <1>12 DEF ScanDone
<1>13. CASE Count(t)
  BY <1>3, <1>13 DEF Count
<1>14. CASE Unlock(t)
  BY <1>14 DEF Unlock, localVars, Moves, Onward
<1>15. CASE Return(t)
  BY <1>15 DEF Return, Moves
<1> QED BY <1>1, <1>2, <1>4, <1>5, <1>6, <1>7, <1>8, <1>9, <1>10, <1>11, <1>12, <1>13, <1>14, <1>15
       DEF Handler

(* and so do the exceptions, on which a handler leaves through its unlock. *)
LEMMA ThrowMoves ==
    ASSUME StateTyped, NEW t \in Threads, Throws(t)
    PROVE  Moves(t) /\ Frame(t)
<1> USE DEF StateTyped, Goto, localVars
<1>1. CASE ThrowUnlocked(t)
  BY <1>1 DEF ThrowUnlocked, Moves, Onward, Frame
<1>2. CASE ~ThrowUnlocked(t)
  <2>1. pc[t] \in {"locked", "update", "scan"} /\ Respond(t, BadAlloc)
    BY <1>2 DEF Throws, ThrowBefore, ThrowRegistered, ThrowAllocating, ThrowFreeing,
                ThrowAllocated, Throw,
                Looping, Looped, Reaches
  <2> QED BY <2>1 DEF Respond, Moves, Onward, Frame
<1> QED BY <1>1, <1>2

(* A handler that moves has less to do.                                    *)
LEMMA MovesDescend ==
    ASSUME GInv, NEW t \in Threads, Moves(t)
    PROVE  Remaining(t)' \in Nat /\ Remaining(t)' < Remaining(t)
<1>1. /\ request[t] \in Request /\ cursor[t] \in Nat \ {0} /\ pc[t] \in Stages \ {"idle"}
  BY DEF GInv, LocalOK, StageOK, StateTyped, Moves
<1> DEFINE n == BatchLength(request[t])
           i == cursor[t]
<1>2. n \in Nat /\ i \in Nat \ {0}
  BY <1>1, BatchLengthNat
<1>3. Remaining(t) = StepsLeft(pc[t], n, i)
      /\ Remaining(t)' = StepsLeft(pc'[t], BatchLength(request'[t]), cursor'[t])
  BY DEF Remaining
<1>4. CASE pc'[t] = "idle"
  <2>1. Remaining(t)' = 0
    BY <1>3, <1>4, IdleLeft
  <2>2. StepsLeft(pc[t], n, i) > 0
    <3> HIDE DEF n, i
    <3>1. CASE pc[t] \in {"update", "scan"}
      <4>1. StepsLeft(pc[t], n, i) \in 3..(3 + n)
        BY <1>2, <3>1, LoopLeft
      <4> QED BY <1>2, <4>1
    <3>2. CASE pc[t] \notin {"update", "scan"}
      BY <1>1, <1>2, <3>2, StageLeft DEF Stages
    <3> QED BY <3>1, <3>2
  <2> QED BY <1>3, <2>1, <2>2
<1>5. CASE request'[t] = request[t] /\ cursor'[t] = cursor[t] /\ <<pc[t], pc'[t]>> \in Onward
  <2>1. Remaining(t)' = StepsLeft(pc'[t], n, i)
    BY <1>3, <1>5
  <2> HIDE DEF n, i
  <2> QED BY <1>2, <1>3, <1>5, <2>1, OnwardDescends
<1>6. CASE /\ request'[t] = request[t] /\ cursor'[t] = cursor[t] + 1
           /\ pc'[t] = pc[t] /\ pc[t] \in {"update", "scan"} /\ cursor[t] <= n
  <2>1. Remaining(t)' = StepsLeft(pc[t], n, i + 1) /\ i <= n
    BY <1>3, <1>6
  <2> HIDE DEF n, i
  <2> QED BY <1>2, <1>3, <1>6, <2>1, LoopLeft
<1> QED BY <1>4, <1>5, <1>6 DEF Moves

(* What is left is a number, so it cannot go down for ever.                *)
LEMMA RemainingNat ==
    ASSUME GInv, NEW t \in Threads
    PROVE  Remaining(t) \in Nat
<1>1. CASE pc[t] = "idle"
  BY <1>1, IdleLeft DEF Remaining
<1>2. CASE pc[t] # "idle"
  <2>1. /\ request[t] \in Request /\ cursor[t] \in Nat \ {0} /\ pc[t] \in Stages \ {"idle"}
    BY <1>2 DEF GInv, LocalOK, StageOK, StateTyped
  <2> DEFINE n == BatchLength(request[t])
             i == cursor[t]
  <2>2. n \in Nat /\ i \in Nat \ {0}
    BY <2>1, BatchLengthNat
  <2>3. Remaining(t) = StepsLeft(pc[t], n, i)
    BY DEF Remaining
  <2> HIDE DEF n, i
  <2>4. CASE pc[t] \in {"update", "scan"}
    <3>1. StepsLeft(pc[t], n, i) \in 3..(3 + n)
      BY <2>2, <2>4, LoopLeft
    <3> QED BY <2>2, <2>3, <3>1
  <2>5. CASE pc[t] \notin {"update", "scan"}
    BY <2>1, <2>2, <2>3, <2>5, StageLeft DEF Stages
  <2> QED BY <2>4, <2>5
<1> QED BY <1>1, <1>2

(* The steps of one worker leave what the others have to do.                *)
LEMMA OthersRemain ==
    ASSUME NEW t \in Threads, NEW u \in Threads \ {t}, Frame(t)
    PROVE  Remaining(u)' = Remaining(u)
BY DEF Frame, Remaining

(* Every step of the fault model moves a handler on, or begins one: with    *)
(* Answered's fairness and a lock that its holders give back, this is why   *)
(* every request is answered (master_service.cpp's loops and their          *)
(* exceptions).                                                            *)
THEOREM HandlersEnd == FaultSpec => HandlersAdvance
<1>1. ASSUME FaultInv, FaultNext PROVE Advances
  <2>0. GInv /\ StateTyped
    BY <1>1, FaultParts DEF GInv
  <2>1. ASSUME NEW t \in Threads, Moves(t), Frame(t) PROVE Advances
    <3>1. /\ Remaining(t)' \in Nat /\ Remaining(t)' < Remaining(t)
          /\ \A u \in Threads : Remaining(u) \in Nat
          /\ \A u \in Threads \ {t} : Remaining(u)' = Remaining(u)
      BY <2>0, <2>1, MovesDescend, RemainingNat, OthersRemain
    <3>2. Remaining(t)' # Remaining(t) /\ Remaining(t)' <= Remaining(t)
      BY <3>1
    <3>3. \A u \in Threads : Remaining(u)' <= Remaining(u)
      BY <3>1, <3>2
    <3> QED BY <3>2, <3>3 DEF Advances
  <2>2. ASSUME NEW t \in Threads, Call(t) PROVE Advances
    <3>1. PICK r \in Requests : request' = [request EXCEPT ![t] = r]
      BY <2>2 DEF Call
    <3>2. pc[t] = "idle" /\ pc'[t] = "validate" /\ request'[t] = r /\ cursor' = cursor
      BY <2>0, <2>2, <3>1 DEF Call, Goto, localVars, StateTyped
    <3>3. r \in Request /\ cursor[t] \in Nat \ {0}
      BY <2>0, RequestAssumption DEF StateTyped
    <3>4. Remaining(t) = 0
      BY <3>2, IdleLeft DEF Remaining
    <3>5. Remaining(t)' = 6 + BatchLength(r) /\ BatchLength(r) \in Nat
      BY <3>2, <3>3, BatchLengthNat, StageLeft DEF Remaining
    <3>6. ASSUME NEW u \in Threads, pc[u] # "idle" PROVE Remaining(u)' <= Remaining(u)
      <4>1. Remaining(u)' = Remaining(u) /\ Remaining(u) \in Nat
        BY <2>0, <2>2, <3>2, <3>6, FrameOfStep, OthersRemain, RemainingNat
      <4> QED BY <4>1
    <3>7. Remaining(t)' # Remaining(t)
      BY <3>4, <3>5
    <3> QED BY <3>6, <3>7 DEF Advances
  <2>3. ASSUME NEW t \in Threads, Crash(t) PROVE Advances
    <3>1. \A u \in Threads : Remaining(u)' = 0 /\ Remaining(u) \in Nat
      BY <2>0, <2>3, IdleLeft, RemainingNat DEF Crash, Remaining
    <3>2. pc[t] = "update"
      BY <2>3 DEF Crash, FrontOfEmpty, Looping, Reaches
    <3>3. request[t] \in Request /\ cursor[t] \in Nat \ {0}
      BY <2>0, <3>2 DEF GInv, LocalOK, StageOK, StateTyped
    <3>4. Remaining(t) \in 3..(3 + BatchLength(request[t]))
      BY <3>2, <3>3, BatchLengthNat, LoopLeft DEF Remaining
    <3>5. Remaining(t) # 0
      BY <3>3, <3>4, BatchLengthNat
    <3> QED BY <3>1, <3>5 DEF Advances
  <2> QED BY <1>1, <2>0, <2>1, <2>2, <2>3, HandlerMoves, ThrowMoves, FrameOfStep
          DEF FaultNext, FaultHandler
<1> QED BY <1>1, FaultInvariance, PTL DEF FaultSpec, HandlersAdvance
=============================================================================
