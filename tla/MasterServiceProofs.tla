------------------------ MODULE MasterServiceProofs ------------------------
(***************************************************************************)
(* The safety of MasterService for every set of threads, hosts and keys,   *)
(* every word size and every set of requests.                              *)
(***************************************************************************)
EXTENDS MasterService, TLAPS, FiniteSetTheorems, SequenceTheorems

-----------------------------------------------------------------------------
(* Requests and keys.  *)

(* The fields that a request of each operation has.                        *)
LEMMA RequestFields ==
    ASSUME NEW r \in Request
    PROVE  /\ r.op = "RegisterMemory" => r.registration \in MemoryRegistration
           /\ r.op \in BatchOps => r.host_id \in HostIds
           /\ r.op \in BatchOps \cup {"BatchExist"} => r.keys \in Seq(RawKeys)
           /\ r.op = "Exist" => r.key \in RawKeys
           /\ r.op = "FindHost" => r.host_id \in HostIds
           /\ r.op \in WriteOps \cup {"Exist", "BatchExist", "FindHost"} \cup CountOps
BY DEF Request, BatchOps, WriteOps, CountOps

(* Canonical is a sequence of the same length.                             *)
LEMMA CanonicalSequence ==
    ASSUME NEW keys \in Seq(RawKeys)
    PROVE  /\ Canonical(keys) \in Seq(RawKeys)
           /\ Len(Canonical(keys)) = Len(keys)
           /\ DOMAIN Canonical(keys) = 1..Len(keys)
           /\ DOMAIN keys = 1..Len(keys)
           /\ \A i \in 1..Len(keys) : Canonical(keys)[i] = CanonicalKey(keys[i])
BY KeyAssumption DEF Canonical, CanonicalKey

(* A list that passes ValidateKeys holds distinct keys only.               *)
LEMMA ValidatedKeys ==
    ASSUME NEW keys \in Seq(RawKeys), ValidateKeys(keys) = "kOk"
    PROVE  /\ Len(keys) > 0
           /\ \A i \in 1..Len(keys) : Canonical(keys)[i] \in Keys
           /\ \A i, j \in 1..Len(keys) : Canonical(keys)[i] = Canonical(keys)[j] => i = j
<1> DEFINE offending == {i \in DOMAIN keys : Malformed(keys, i) \/ Repeated(keys, i)}
<1>1. keys # << >> /\ offending = {}
  BY DEF ValidateKeys
<1>2. DOMAIN keys = 1..Len(keys) /\ Len(keys) \in Nat /\ Len(keys) > 0
  BY <1>1
<1>3. \A i \in 1..Len(keys) : keys[i] \in HexKeys
  BY <1>1, <1>2 DEF Malformed, IsSha256Key
<1>4. \A i \in 1..Len(keys) : \A j \in 1..(i - 1) : CanonicalKey(keys[j]) # CanonicalKey(keys[i])
  BY <1>1, <1>2 DEF Repeated
<1>5. \A i, j \in 1..Len(keys) : CanonicalKey(keys[i]) = CanonicalKey(keys[j]) => i = j
  <2> SUFFICES ASSUME NEW i \in 1..Len(keys), NEW j \in 1..Len(keys), i < j
               PROVE  CanonicalKey(keys[i]) # CanonicalKey(keys[j])
    BY <1>2
  <2> QED BY <1>2, <1>4
<1>6. \A i \in 1..Len(keys) : Canonical(keys)[i] \in Keys
  BY <1>3, CanonicalSequence DEF Keys
<1> QED BY <1>2, <1>5, <1>6, CanonicalSequence

-----------------------------------------------------------------------------
(* Pools.  *)

(* A registration that passes validation makes a pool of a whole number of *)
(* blocks, all fresh.                                                      *)
LEMMA NewHostPool ==
    ASSUME NEW r \in MemoryRegistration, ValidateRegistration(r) = "kOk"
    PROVE  /\ Total(r) \in Nat
           /\ NewHost(r) \in HostMemory
           /\ Partitioned(NewHost(r))
           /\ Accounted(NewHost(r))
           /\ NewHost(r).allocated_blocks = {}
<1>1. Total(r) \in Nat
  BY WordAssumption DEF Total, MemoryRegistration, Word, ValidateRegistration
<1>2. NewHost(r) \in HostMemory
  BY <1>1 DEF NewHost, HostMemory
<1>3. Partitioned(NewHost(r))
  BY <1>1 DEF NewHost, Partitioned, Recycled
<1>4. Accounted(NewHost(r))
  BY FS_EmptySet DEF NewHost, Accounted
<1> QED BY <1>1, <1>2, <1>3, <1>4 DEF NewHost

(* The number of blocks a pool has left.                                   *)
LEMMA PoolAvailable ==
    ASSUME NEW m \in HostMemory, Partitioned(m), Accounted(m)
    PROVE  /\ Cardinality(m.allocated_blocks) \in Nat
           /\ AvailableBlockCount(m) \in Nat
           /\ AvailableBlockCount(m) =
                m.total_blocks - m.next_fresh_block + Len(m.recycled_blocks)
BY FS_CardinalityType DEF HostMemory, Partitioned, Accounted, AvailableBlockCount

(* A pool that has an id to give: AllocateOne reads no empty queue.         *)
HasFront(m) == IsFresh(m) \/ m.recycled_blocks # << >>

(* What AllocateOne makes of a pool that has an id to give, whatever else   *)
(* holds of the pool.                                                      *)
LEMMA AllocateOneTyped ==
    ASSUME NEW m \in HostMemory, HasFront(m)
    PROVE  /\ NextBlock(m) \in Nat
           /\ AllocateOne(m) \in HostMemory
           /\ AllocateOne(m).total_blocks = m.total_blocks
           /\ AllocateOne(m).allocated_blocks = m.allocated_blocks \cup {NextBlock(m)}
           /\ IsFresh(m) =>
                 /\ NextBlock(m) = m.next_fresh_block
                 /\ AllocateOne(m).next_fresh_block = m.next_fresh_block + 1
                 /\ AllocateOne(m).recycled_blocks = m.recycled_blocks
           /\ ~IsFresh(m) =>
                 /\ NextBlock(m) = m.recycled_blocks[1]
                 /\ Len(m.recycled_blocks) > 0
                 /\ AllocateOne(m).next_fresh_block = m.next_fresh_block
                 /\ AllocateOne(m).recycled_blocks = Tail(m.recycled_blocks)
<1> DEFINE q == m.recycled_blocks
<1>0. /\ m.total_blocks \in Nat /\ m.next_fresh_block \in Nat
      /\ q \in Seq(Nat) /\ m.allocated_blocks \in SUBSET Nat
      /\ m.registration \in MemoryRegistration /\ Len(q) \in Nat
  BY DEF HostMemory
<1>1. CASE IsFresh(m)
  <2>1. NextBlock(m) = m.next_fresh_block
    BY <1>1 DEF NextBlock
  <2>2. /\ m.next_fresh_block + 1 \in Nat
        /\ m.allocated_blocks \cup {NextBlock(m)} \in SUBSET Nat
    BY <1>0, <2>1
  <2> QED BY <1>0, <1>1, <2>1, <2>2 DEF AllocateOne, HostMemory
<1>2. CASE ~IsFresh(m)
  <2>1. Len(q) > 0 /\ Head(q) = q[1] /\ q[1] \in Nat /\ Tail(q) \in Seq(Nat)
    BY <1>0, <1>2 DEF HasFront
  <2>2. NextBlock(m) = q[1]
    BY <1>2, <2>1 DEF NextBlock
  <2>3. m.allocated_blocks \cup {NextBlock(m)} \in SUBSET Nat
    BY <1>0, <2>1, <2>2
  <2> QED BY <1>0, <1>2, <2>1, <2>2, <2>3 DEF AllocateOne, HostMemory
<1> QED BY <1>1, <1>2

(* What FreeOne makes of any pool.                                         *)
LEMMA FreeOneTyped ==
    ASSUME NEW m \in HostMemory, NEW b \in Nat
    PROVE  /\ FreeOne(m, b) \in HostMemory
           /\ FreeOne(m, b).total_blocks = m.total_blocks
           /\ FreeOne(m, b).next_fresh_block = m.next_fresh_block
           /\ FreeOne(m, b).allocated_blocks = m.allocated_blocks \ {b}
           /\ FreeOne(m, b).recycled_blocks = Append(m.recycled_blocks, b)
<1>1. /\ m.recycled_blocks \in Seq(Nat)
      /\ Append(m.recycled_blocks, b) \in Seq(Nat)
      /\ m.allocated_blocks \ {b} \in SUBSET Nat
  BY DEF HostMemory
<1> QED BY <1>1 DEF FreeOne, HostMemory

(* AllocateOne on a pool that has a block left takes one that was not      *)
(* allocated and keeps the pool a partition.                               *)
LEMMA AllocateOnePool ==
    ASSUME NEW m \in HostMemory, Partitioned(m), Accounted(m),
           AvailableBlockCount(m) > 0
    PROVE  /\ NextBlock(m) \in Nat
           /\ NextBlock(m) \notin m.allocated_blocks
           /\ AllocateOne(m) \in HostMemory
           /\ AllocateOne(m).allocated_blocks = m.allocated_blocks \cup {NextBlock(m)}
           /\ AllocateOne(m).registration = m.registration
           /\ Partitioned(AllocateOne(m))
           /\ Accounted(AllocateOne(m))
           /\ AvailableBlockCount(AllocateOne(m)) = AvailableBlockCount(m) - 1
<1> DEFINE n == AllocateOne(m)
           q == m.recycled_blocks
<1>0. /\ m.total_blocks \in Nat /\ m.next_fresh_block \in Nat
      /\ q \in Seq(Nat) /\ m.allocated_blocks \in SUBSET Nat
      /\ m.registration \in MemoryRegistration /\ Len(q) \in Nat
  BY DEF HostMemory
<1>a. /\ IsFiniteSet(m.allocated_blocks)
      /\ Cardinality(m.allocated_blocks) \in Nat
      /\ Cardinality(m.allocated_blocks) + Len(q) = m.next_fresh_block
  BY PoolAvailable DEF Accounted
<1>1. ~IsFresh(m) => Len(q) > 0
  BY <1>0, PoolAvailable DEF IsFresh, Partitioned
<1>2. NextBlock(m) \in Nat /\ NextBlock(m) \notin m.allocated_blocks
  <2>1. CASE IsFresh(m)
    BY <2>1, <1>0 DEF NextBlock, Partitioned
  <2>2. CASE ~IsFresh(m)
    <3>1. Head(q) = q[1] /\ 1 \in 1..Len(q) /\ q[1] \in Nat
      BY <2>2, <1>0, <1>1
    <3> QED BY <2>2, <3>1 DEF NextBlock, Partitioned, Recycled
  <2> QED BY <2>1, <2>2
<1>3. /\ n.total_blocks = m.total_blocks
      /\ n.registration = m.registration
      /\ n.allocated_blocks = m.allocated_blocks \cup {NextBlock(m)}
      /\ IsFresh(m) => /\ n.next_fresh_block = m.next_fresh_block + 1
                       /\ n.recycled_blocks = q
      /\ ~IsFresh(m) => /\ n.next_fresh_block = m.next_fresh_block
                        /\ n.recycled_blocks = Tail(q)
  BY DEF AllocateOne, HostMemory
<1>4. n \in HostMemory
  <2>0. m.allocated_blocks \cup {NextBlock(m)} \in SUBSET Nat
    BY <1>0, <1>2
  <2>1. CASE IsFresh(m)
    <3>1. m.next_fresh_block + 1 \in Nat
      BY <1>0
    <3> QED BY <2>1, <3>1, <1>0, <2>0 DEF AllocateOne, HostMemory
  <2>2. CASE ~IsFresh(m)
    <3>1. Tail(q) \in Seq(Nat)
      BY <2>2, <1>0, <1>1
    <3> QED BY <2>2, <3>1, <1>0, <2>0 DEF AllocateOne, HostMemory
  <2> QED BY <2>1, <2>2
<1> HIDE DEF n
<1>5. Partitioned(n)
  <2>1. CASE IsFresh(m)
    <3>1. Recycled(n) = Recycled(m)
      BY <2>1, <1>3 DEF Recycled
    <3>2. NextBlock(m) = m.next_fresh_block
      BY <2>1 DEF NextBlock
    <3>3. 0..m.next_fresh_block = (0..(m.next_fresh_block - 1)) \cup {m.next_fresh_block}
      BY <1>0
    <3>4. NextBlock(m) \notin Recycled(m)
      BY <3>2, <1>0 DEF Partitioned
    <3> QED BY <2>1, <1>0, <1>3, <3>1, <3>2, <3>3, <3>4 DEF IsFresh, Partitioned
  <2>2. CASE ~IsFresh(m)
    <3>1. /\ Len(Tail(q)) = Len(q) - 1
          /\ \A i \in 1..(Len(q) - 1) : Tail(q)[i] = q[i + 1]
      BY <1>0, <1>1, <2>2
    <3>2. NextBlock(m) = q[1]
      BY <2>2, <1>0, <1>1 DEF NextBlock
    <3>3. Recycled(n) = Recycled(m) \ {q[1]}
      <4>1. Recycled(n) = {q[i + 1] : i \in 1..(Len(q) - 1)}
        BY <2>2, <1>3, <3>1, <1>0 DEF Recycled
      <4>2. \A i \in 1..Len(q) : i # 1 => q[i] # q[1] /\ i - 1 \in 1..(Len(q) - 1)
        BY <1>0, <1>1, <2>2 DEF Partitioned
      <4>3. \A i \in 1..(Len(q) - 1) : i + 1 \in 1..Len(q) /\ i + 1 # 1
        BY <1>0
      <4>4. \A b \in Recycled(n) : b \in Recycled(m) \ {q[1]}
        BY <4>1, <4>2, <4>3 DEF Recycled
      <4>5. ASSUME NEW b \in Recycled(m) \ {q[1]} PROVE b \in Recycled(n)
        <5>1. PICK i \in 1..Len(q) : b = q[i]
          BY DEF Recycled
        <5>2. i # 1 /\ i = (i - 1) + 1
          BY <5>1, <4>5
        <5> QED BY <5>1, <5>2, <4>1, <4>2
      <4> QED BY <4>4, <4>5
    <3>4. q[1] \in Recycled(m)
      BY <1>0, <1>1, <2>2 DEF Recycled
    <3>5. \A i, j \in 1..Len(n.recycled_blocks) :
             n.recycled_blocks[i] = n.recycled_blocks[j] => i = j
      <4>0. n.recycled_blocks = Tail(q) /\ Len(n.recycled_blocks) = Len(q) - 1
        BY <2>2, <1>3, <3>1
      <4> SUFFICES ASSUME NEW i \in 1..(Len(q) - 1), NEW j \in 1..(Len(q) - 1),
                          q[i + 1] = q[j + 1]
                   PROVE  i = j
        BY <4>0, <3>1
      <4>1. i + 1 \in 1..Len(q) /\ j + 1 \in 1..Len(q)
        BY <1>0
      <4> QED BY <4>1 DEF Partitioned
    <3>6. n.next_fresh_block = m.next_fresh_block /\ n.total_blocks = m.total_blocks
      BY <2>2, <1>3
    <3>7. n.allocated_blocks = m.allocated_blocks \cup {q[1]}
      BY <1>3, <3>2
    <3> QED BY <1>2, <3>2, <3>3, <3>4, <3>5, <3>6, <3>7 DEF Partitioned
  <2> QED BY <2>1, <2>2
<1>6. /\ IsFiniteSet(n.allocated_blocks)
      /\ Cardinality(n.allocated_blocks) = Cardinality(m.allocated_blocks) + 1
  <2> QED BY <1>2, <1>3, FS_AddElement DEF Accounted
<1>7. Accounted(n)
  <2>1. CASE IsFresh(m)
    <3>1. n.next_fresh_block = m.next_fresh_block + 1 /\ n.recycled_blocks = q
      BY <2>1, <1>3
    <3>2. Cardinality(n.allocated_blocks) + Len(q) = m.next_fresh_block + 1
      BY <1>0, <1>a, <1>6
    <3> QED BY <3>1, <3>2, <1>6 DEF Accounted
  <2>2. CASE ~IsFresh(m)
    <3>1. Len(Tail(q)) = Len(q) - 1
      BY <1>0, <1>1, <2>2
    <3>2. n.next_fresh_block = m.next_fresh_block /\ n.recycled_blocks = Tail(q)
      BY <2>2, <1>3
    <3>3. Cardinality(n.allocated_blocks) + Len(Tail(q)) = m.next_fresh_block
      BY <3>1, <1>0, <1>a, <1>6
    <3> QED BY <3>2, <3>3, <1>6 DEF Accounted
  <2> QED BY <2>1, <2>2
<1>8. AvailableBlockCount(n) = AvailableBlockCount(m) - 1
  BY <1>0, <1>a, <1>3, <1>6 DEF AvailableBlockCount
<1> QED BY <1>2, <1>3, <1>4, <1>5, <1>7, <1>8 DEF n

(* FreeOne on an allocated block returns it to the pool.                   *)
LEMMA FreeOnePool ==
    ASSUME NEW m \in HostMemory, Partitioned(m), Accounted(m),
           NEW b \in m.allocated_blocks
    PROVE  /\ FreeOne(m, b) \in HostMemory
           /\ FreeOne(m, b).allocated_blocks = m.allocated_blocks \ {b}
           /\ FreeOne(m, b).registration = m.registration
           /\ Partitioned(FreeOne(m, b))
           /\ Accounted(FreeOne(m, b))
<1> DEFINE n == FreeOne(m, b)
           q == m.recycled_blocks
<1>0. /\ m.total_blocks \in Nat /\ m.next_fresh_block \in Nat
      /\ q \in Seq(Nat) /\ m.allocated_blocks \in SUBSET Nat
      /\ m.registration \in MemoryRegistration /\ Len(q) \in Nat /\ b \in Nat
  BY DEF HostMemory
<1>1. /\ n.total_blocks = m.total_blocks
      /\ n.registration = m.registration
      /\ n.next_fresh_block = m.next_fresh_block
      /\ n.allocated_blocks = m.allocated_blocks \ {b}
      /\ n.recycled_blocks = Append(q, b)
  BY DEF FreeOne, HostMemory
<1>2. /\ Append(q, b) \in Seq(Nat)
      /\ Len(Append(q, b)) = Len(q) + 1
      /\ \A i \in 1..Len(q) : Append(q, b)[i] = q[i]
      /\ Append(q, b)[Len(q) + 1] = b
  BY <1>0
<1>3. n \in HostMemory
  BY <1>0, <1>2 DEF FreeOne, HostMemory
<1> HIDE DEF n
<1>4. b \notin Recycled(m)
  BY DEF Partitioned
<1>5. Recycled(n) = Recycled(m) \cup {b}
  <2>1. 1..(Len(q) + 1) = (1..Len(q)) \cup {Len(q) + 1}
    BY <1>0
  <2> QED BY <1>1, <1>2, <2>1 DEF Recycled
<1>6. Partitioned(n)
  <2>1. \A i, j \in 1..(Len(q) + 1) : Append(q, b)[i] = Append(q, b)[j] => i = j
    <3> SUFFICES ASSUME NEW i \in 1..(Len(q) + 1), NEW j \in 1..(Len(q) + 1), i # j
                 PROVE  Append(q, b)[i] # Append(q, b)[j]
      OBVIOUS
    <3>1. CASE i = Len(q) + 1
      BY <3>1, <1>0, <1>2, <1>4 DEF Recycled
    <3>2. CASE j = Len(q) + 1
      BY <3>2, <1>0, <1>2, <1>4 DEF Recycled
    <3>3. CASE i \in 1..Len(q) /\ j \in 1..Len(q)
      BY <3>3, <1>2 DEF Partitioned
    <3> QED BY <3>1, <3>2, <3>3, <1>0
  <2>2. b \in 0..(m.next_fresh_block - 1)
    BY DEF Partitioned
  <2>3. \A i, j \in 1..Len(n.recycled_blocks) :
           n.recycled_blocks[i] = n.recycled_blocks[j] => i = j
    BY <1>1, <1>2, <2>1
  <2> QED BY <1>1, <1>5, <1>4, <2>2, <2>3 DEF Partitioned
<1>7. /\ IsFiniteSet(n.allocated_blocks)
      /\ Cardinality(n.allocated_blocks) = Cardinality(m.allocated_blocks) - 1
  BY <1>1, FS_RemoveElement DEF Accounted
<1>8. Accounted(n)
  <2>1. /\ Cardinality(m.allocated_blocks) \in Nat
        /\ Cardinality(m.allocated_blocks) + Len(q) = m.next_fresh_block
    BY PoolAvailable DEF Accounted
  <2> QED BY <1>0, <1>1, <1>2, <1>7, <2>1 DEF Accounted
<1> QED BY <1>1, <1>3, <1>6, <1>8 DEF n

-----------------------------------------------------------------------------
(* The inductive invariant, one action at a time.  *)

(* What the parts of the invariant about the shared state say of it.       *)
SharedOK == PoolPartition /\ PoolCounts /\ IndexMatchesPools

USE ThreadAssumption

(* A MasterService just constructed, with idle workers, satisfies the      *)
(* invariant.                                                              *)
LEMMA InitInvariant == Init => IInv
<1> SUFFICES ASSUME Init PROVE IInv
  OBVIOUS
<1> USE DEF Init
<1>1. TypeOK
  <2>1. << >> \in [DOMAIN hosts_ -> HostMemory] /\ DOMAIN hosts_ = {}
    OBVIOUS
  <2>2. << >> \in [DOMAIN key_index_ -> BlockLocation] /\ DOMAIN key_index_ = {}
    OBVIOUS
  <2>3. NoMatches \in [HostIds -> Seq(KeyBlockLocation)]
    BY DEF NoMatches
  <2> QED BY <2>1, <2>2, <2>3, WordAssumption
     DEF TypeOK, StateTyped, Stages, NoBest, Word
<1>2. HandlerOK
  BY DEF HandlerOK, StageOK, NoBest
<1>3. LockDiscipline
  BY DEF LockDiscipline, HoldsLock, InCriticalSection
<1>4. SharedOK
  BY DEF SharedOK, PoolPartition, PoolCounts, IndexMatchesPools
<1>5. ChecksStillHold /\ AllocCovered
  BY DEF ChecksStillHold, ChecksHold, AllocChecked, FreeChecked, MatchesCurrent,
         AllocCovered, Covered, Reaches
<1> QED BY <1>1, <1>2, <1>3, <1>4, <1>5 DEF IInv, SharedOK

-----------------------------------------------------------------------------
(* What a step of one thread leaves alone.  *)

LocalOK(t) == StageOK(t) /\ ChecksHold(t)

Frame(t) ==
    \A u \in Threads \ {t} :
       /\ pc'[u] = pc[u] /\ request'[u] = request[u] /\ cursor'[u] = cursor[u]
       /\ locations'[u] = locations[u] /\ matches'[u] = matches[u] /\ best'[u] = best[u]

(* What holds of the lock and of the handlers, whatever the pools hold.     *)
GInv == StateTyped /\ LockDiscipline /\ \A t \in Threads : LocalOK(t)

(* The invariant is what it says of the lock and of the handlers, of the    *)
(* replies, and of the pools.                                              *)
LEMMA InvariantParts ==
    IInv <=> /\ GInv
             /\ reply \in [Threads -> Reply \cup {NoReply}]
             /\ SharedOK /\ AllocCovered
BY DEF IInv, TypeOK, GInv, SharedOK, LocalOK, HandlerOK, ChecksStillHold

(* The same one step later, in the direction the step lemmas use.          *)
LEMMA InvariantOfParts ==
    ASSUME GInv', reply' \in [Threads -> Reply \cup {NoReply}], SharedOK', AllocCovered'
    PROVE  IInv'
BY DEF IInv, TypeOK, GInv, SharedOK, LocalOK, HandlerOK, ChecksStillHold

(* A step changes the locals of one thread only.                           *)
LEMMA FrameOfStep ==
    ASSUME StateTyped, NEW t \in Threads, Call(t) \/ Handler(t)
    PROVE  Frame(t)
<1> USE DEF StateTyped, Frame, Goto, Respond, localVars
<1>1. CASE Call(t)
  BY <1>1 DEF Call
<1>2. CASE Validate(t)
  BY <1>2 DEF Validate
<1>3. CASE AcquireExclusive(t) \/ AcquireShared(t)
  BY <1>3 DEF AcquireExclusive, AcquireShared
<1>4. CASE RegisterMemory(t)
  BY <1>4 DEF RegisterMemory
<1>5. CASE AllocCheck(t) \/ AllocKey(t) \/ AllocDone(t)
  BY <1>5 DEF AllocCheck, AllocKey, AllocDone, Start
<1>6. CASE FreeCheck(t) \/ FreeKey(t) \/ FreeDone(t)
  BY <1>6 DEF FreeCheck, FreeKey, FreeDone, Start
<1>7. CASE Exist(t) \/ FindHost(t) \/ Count(t) \/ ScanDone(t)
  BY <1>7 DEF Exist, FindHost, Count, ScanDone
<1>8. CASE ScanKey(t)
  BY <1>8 DEF ScanKey
<1>9. CASE Unlock(t) \/ Return(t)
  BY <1>9 DEF Unlock, Return
<1> QED BY <1>1, <1>2, <1>3, <1>4, <1>5, <1>6, <1>7, <1>8, <1>9 DEF Handler

(* A thread that does not move keeps its part of the invariant if the      *)
(* shared state stays as it is or if the thread is not under the lock.      *)
LEMMA OtherThreads ==
    ASSUME NEW t \in Threads, NEW u \in Threads \ {t}, Frame(t), LocalOK(u),
           UNCHANGED <<hosts_, key_index_>> \/ ~InCriticalSection(u)
    PROVE  LocalOK(u)'
<1>1. /\ pc'[u] = pc[u] /\ request'[u] = request[u] /\ cursor'[u] = cursor[u]
      /\ locations'[u] = locations[u] /\ matches'[u] = matches[u] /\ best'[u] = best[u]
  BY DEF Frame
<1>2. StageOK(u)'
  BY <1>1 DEF LocalOK, StageOK, Host, InCriticalSection
<1>3. ChecksHold(u)'
  <2>1. CASE ~InCriticalSection(u)
    BY <1>1, <2>1
       DEF ChecksHold, AllocChecked, FreeChecked, MatchesCurrent, Reaches,
           InCriticalSection
  <2>2. CASE UNCHANGED <<hosts_, key_index_>>
    <3>1. RequestKeys(u)' = RequestKeys(u) /\ Host(u)' = Host(u)
      BY <1>1 DEF RequestKeys, Host
    <3>2. \A ops : Reaches(u, "update", ops)' <=> Reaches(u, "update", ops)
      BY <1>1 DEF Reaches
    <3>3. ChecksHold(u)
      BY DEF LocalOK
    <3>4. AllocChecked(u)'
      BY <1>1, <2>2, <3>1, <3>2, <3>3 DEF ChecksHold, AllocChecked
    <3>5. FreeChecked(u)'
      BY <1>1, <2>2, <3>1, <3>2, <3>3 DEF ChecksHold, FreeChecked
    <3>6. MatchesCurrent(u)'
      <4>1. MatchesCurrent(u)
        BY <3>3 DEF ChecksHold
      <4>2. /\ pc'[u] = pc[u] /\ matches'[u] = matches[u]
            /\ key_index_' = key_index_
        BY <1>1, <2>2
      <4> QED BY ONLY <4>1, <4>2 DEF MatchesCurrent
    <3> QED BY <3>4, <3>5, <3>6 DEF ChecksHold
  <2> QED BY <2>1, <2>2
<1> QED BY <1>2, <1>3 DEF LocalOK

(* The holder of the exclusive lock is alone under it.                     *)
LEMMA Alone ==
    ASSUME LockDiscipline, NEW t \in Threads, t = writer, NEW u \in Threads \ {t}
    PROVE  ~InCriticalSection(u)
BY DEF LockDiscipline, HoldsLock

(* What is said of the shared state survives a step that leaves it alone.  *)
LEMMA SharedUnchanged ==
    ASSUME SharedOK, UNCHANGED <<hosts_, key_index_>>
    PROVE  SharedOK'
BY DEF SharedOK, PoolPartition, PoolCounts, IndexMatchesPools

(* The lock stays in order if nobody takes or releases it and its holder   *)
(* stays under it with the same request.                                   *)
LEMMA LockUnchanged ==
    ASSUME LockDiscipline, NEW t \in Threads, Frame(t), UNCHANGED lockVars,
           InCriticalSection(t)' <=> InCriticalSection(t),
           InCriticalSection(t) => request'[t] = request[t]
    PROVE  LockDiscipline'
<1> SUFFICES ASSUME NEW u \in Threads
             PROVE  /\ InCriticalSection(u)' <=> HoldsLock(u)'
                    /\ HoldsLock(u)' => (u = writer' <=> request'[u].op \in WriteOps)
  BY DEF LockDiscipline, lockVars
<1>1. HoldsLock(u)' <=> HoldsLock(u)
  BY DEF HoldsLock, lockVars
<1>2. InCriticalSection(u)' <=> InCriticalSection(u)
  BY DEF Frame, InCriticalSection
<1>3. HoldsLock(u) => request'[u] = request[u]
  BY DEF Frame, LockDiscipline
<1> QED BY <1>1, <1>2, <1>3 DEF LockDiscipline, lockVars

-----------------------------------------------------------------------------
(* Every response a handler builds has the type of a reply.                *)
LEMMA ReplyTypes ==
    /\ \A code \in RpcCode \cup {"nullopt"} : Refusal(code) \in Reply
    /\ \A n \in Nat : Registered(n) \in Reply /\ Freed(n) \in Reply /\ Counted(n) \in Reply
    /\ \A s \in Seq(KeyBlockLocation) : Allocated(s) \in Reply
    /\ \A l \in BlockLocation : Found(l) \in Reply
    /\ \A h \in HostIds, s \in Seq(KeyBlockLocation) : BestMatch(h, s) \in Reply
    /\ \A r \in MemoryRegistration : FoundHost(r) \in Reply
<1>1. \A code \in RpcCode \cup {"nullopt"} : Refusal(code) \in Reply
  BY DEF Refusal, Reply
<1>2. \A n \in Nat : Registered(n) \in Reply /\ Freed(n) \in Reply /\ Counted(n) \in Reply
  BY DEF Registered, Freed, Counted, Reply
<1>3. \A s \in Seq(KeyBlockLocation) : Allocated(s) \in Reply
  BY DEF Allocated, Reply
<1>4. \A l \in BlockLocation : Found(l) \in Reply
  BY DEF Found, Reply, BlockLocation
<1>5. \A h \in HostIds, s \in Seq(KeyBlockLocation) : BestMatch(h, s) \in Reply
  BY DEF BestMatch, Reply
<1>6. \A r \in MemoryRegistration : FoundHost(r) \in Reply
  BY DEF FoundHost, Reply
<1> QED BY <1>1, <1>2, <1>3, <1>4, <1>5, <1>6

(* A handler that responds keeps the lock and the others in order, whatever *)
(* it responds.                                                            *)
LEMMA RespondStep ==
    ASSUME GInv, NEW t \in Threads, pc[t] \in {"locked", "update", "scan"}, Frame(t),
           NEW response, Respond(t, response),
           UNCHANGED <<hosts_, key_index_>>, available_blocks_' \in Word
    PROVE  GInv'
<1>1. StateTyped'
  BY DEF GInv, StateTyped, Respond, Goto, Stages, localVars, lockVars
<1>2. pc'[t] = "unlock" /\ request'[t] = request[t] /\ best'[t] = best[t]
  BY DEF GInv, StateTyped, Respond, Goto, localVars
<1>3. LockDiscipline'
  BY <1>2, LockUnchanged DEF GInv, Respond, InCriticalSection
<1>4. LocalOK(t)
  BY DEF GInv
<1>5. LocalOK(t)'
  BY <1>2, <1>4
     DEF LocalOK, StageOK, ChecksHold, AllocChecked, FreeChecked,
         MatchesCurrent, Reaches
<1>6. \A u \in Threads \ {t} : LocalOK(u)'
  BY OtherThreads DEF GInv
<1> QED BY <1>1, <1>3, <1>5, <1>6 DEF GInv

(* The handlers and accessors that only read give a reply and change       *)
(* nothing.                                                                *)
LEMMA ReadReplies ==
    ASSUME GInv, NEW t \in Threads,
           \A h \in DOMAIN hosts_ : IsFiniteSet(hosts_[h].allocated_blocks),
           Exist(t) \/ FindHost(t) \/ Count(t) \/ ScanDone(t)
    PROVE  /\ pc[t] \in {"locked", "scan"} /\ UNCHANGED dataVars
           /\ \E response \in Reply : Respond(t, response)
<1> USE DEF Reaches
<1>0. StateTyped /\ StageOK(t) /\ request[t] \in Request \cup {NoRequest}
  BY DEF GInv, LocalOK, StateTyped
<1>1. CASE Exist(t)
  <2> DEFINE key == CanonicalKey(request[t].key)
  <2>1. key \in DOMAIN key_index_ => key_index_[key] \in BlockLocation
    BY <1>0 DEF StateTyped
  <2>2. (IF key \in DOMAIN key_index_ THEN Found(key_index_[key])
         ELSE Refusal("kKeyNotFound")) \in Reply
    BY <2>1, ReplyTypes DEF RpcCode
  <2> QED BY <1>1, <2>2 DEF Exist
<1>2. CASE FindHost(t)
  <2>1. Host(t) \in DOMAIN hosts_ => hosts_[Host(t)].registration \in MemoryRegistration
    BY <1>0 DEF StateTyped, HostMemory
  <2>2. (IF Host(t) \in DOMAIN hosts_ THEN FoundHost(hosts_[Host(t)].registration)
         ELSE Refusal("nullopt")) \in Reply
    BY <2>1, ReplyTypes
  <2> QED BY <1>2, <2>2 DEF FindHost
<1>3. CASE ScanDone(t)
  <2>1. best[t].count # 0 => best[t].host_id \in HostIds
    BY <1>0 DEF StateTyped, StageOK
  <2>2. best[t].count # 0 => matches[t][best[t].host_id] \in Seq(KeyBlockLocation)
    BY <1>0, <2>1 DEF StateTyped
  <2>3. (IF best[t].count = 0 THEN Refusal("kKeyNotFound")
         ELSE BestMatch(best[t].host_id, matches[t][best[t].host_id])) \in Reply
    BY <2>1, <2>2, ReplyTypes DEF RpcCode
  <2> QED BY <1>3, <2>3 DEF ScanDone
<1>4. CASE Count(t)
  <2>1. Cardinality(DOMAIN hosts_) \in Nat
    BY <1>0, HostAssumption, FS_Subset, FS_CardinalityType DEF StateTyped
  <2>2. available_blocks_ \in Nat
    BY <1>0, WordAssumption DEF StateTyped, Word
  <2>3. AllocatedBlockCount % (MaxWord + 1) \in Nat
    <3>1. IsFiniteSet(DOMAIN hosts_)
      BY <1>0, HostAssumption, FS_Subset DEF StateTyped
    <3>2. \A h \in DOMAIN hosts_ : IsFiniteSet({h} \X hosts_[h].allocated_blocks)
      BY FS_Product, FS_Singleton
    <3>3. IsFiniteSet({{h} \X hosts_[h].allocated_blocks : h \in DOMAIN hosts_})
      <4> DEFINE f == [h \in DOMAIN hosts_ |-> {h} \X hosts_[h].allocated_blocks]
             pairs == {{h} \X hosts_[h].allocated_blocks : h \in DOMAIN hosts_}
      <4>1. f \in [DOMAIN hosts_ -> pairs] /\ \A p \in pairs : \E h \in DOMAIN hosts_ : f[h] = p
        OBVIOUS
      <4>2. f \in Surjection(DOMAIN hosts_, pairs)
        BY <4>1 DEF Surjection
      <4> QED BY <3>1, <4>2, FS_Surjection
    <3>4. IsFiniteSet(UNION {{h} \X hosts_[h].allocated_blocks : h \in DOMAIN hosts_})
      BY <3>2, <3>3, FS_UNION
    <3>5. AllocatedBlockCount \in Nat
      BY <3>4, FS_CardinalityType DEF AllocatedBlockCount
    <3> QED BY <3>5, WordAssumption
  <2> DEFINE count == CASE request[t].op = "RegisteredHostCount" -> Cardinality(DOMAIN hosts_)
                        [] request[t].op = "AvailableBlockCount" -> available_blocks_
                        [] request[t].op = "AllocatedBlockCount" ->
                              AllocatedBlockCount % (MaxWord + 1)
  <2>4. count \in Nat
    BY <1>4, <2>1, <2>2, <2>3 DEF Count, CountOps
  <2>5. Counted(count) \in Reply
    BY <2>4, ReplyTypes
  <2> QED BY <1>4, <2>5 DEF Count
<1> QED BY <1>1, <1>2, <1>3, <1>4

(* A handler that only reads keeps the lock and the others in order.       *)
LEMMA ReadStep ==
    ASSUME GInv, NEW t \in Threads, Frame(t),
           Exist(t) \/ FindHost(t) \/ Count(t) \/ ScanDone(t)
    PROVE  GInv'
<1>1. /\ pc[t] \in {"locked", "scan"} /\ UNCHANGED dataVars
      /\ \E response : Respond(t, response)
  BY DEF Exist, FindHost, Count, ScanDone, Reaches
<1>2. PICK response : Respond(t, response)
  BY <1>1
<1> QED BY <1>1, <1>2, RespondStep DEF dataVars, GInv, StateTyped

(* The steps outside the lock and those that take and release it.  *)

(* The server hands a worker a request: a handler that holds no lock       *)
(* starts.                                                                 *)
LEMMA CallStep ==
    ASSUME GInv, NEW t \in Threads, Frame(t), Call(t)
    PROVE  GInv'
<1> USE DEF Call, Goto, localVars, lockVars, dataVars
<1>0. StateTyped /\ LocalOK(t) /\ LockDiscipline
  BY DEF GInv
<1>1. StateTyped'
  BY <1>0, RequestAssumption DEF StateTyped, Stages
<1>2. /\ pc'[t] = "validate" /\ request'[t] \in Request
      /\ cursor'[t] = cursor[t] /\ matches'[t] = matches[t] /\ best'[t] = best[t]
  BY <1>0, RequestAssumption DEF StateTyped
<1>3. LockDiscipline'
  BY <1>0, <1>2, LockUnchanged DEF InCriticalSection
<1>4. LocalOK(t)'
  BY <1>0, <1>2
     DEF LocalOK, StageOK, ChecksHold, AllocChecked, FreeChecked,
         MatchesCurrent, Reaches
<1>5. \A u \in Threads \ {t} : LocalOK(u)'
  BY OtherThreads DEF GInv
<1> QED BY <1>1, <1>3, <1>4, <1>5 DEF GInv

(* A request that validation turns down is refused with an error code.     *)
LEMMA RefusalTyped ==
    ASSUME NEW r \in Request, ValidateRequest(r) # "kOk"
    PROVE  Refusal(ValidateRequest(r)) \in Reply
<1>1. r.op \in WriteOps \cup {"Exist", "BatchExist", "FindHost"} \cup CountOps
  BY RequestFields
<1>2. ValidateRequest(r) \in {"kInvalidArgument", "kInvalidKey"}
  BY <1>1 DEF ValidateRequest, ValidateRegistration, ValidateKeys,
              WriteOps, BatchOps, CountOps
<1> QED BY <1>2, ReplyTypes DEF RpcCode

(* Validation before the lock either establishes what the loops rely on or *)
(* ends the handler with a refusal.                                        *)
LEMMA ValidateStep ==
    ASSUME GInv, NEW t \in Threads, Frame(t), Validate(t)
    PROVE  GInv'
<1> USE DEF Validate, Goto, localVars, lockVars, dataVars
<1>0. StateTyped /\ LocalOK(t) /\ LockDiscipline
  BY DEF GInv
<1>1. StateTyped'
  BY <1>0 DEF StateTyped, Stages
<1>2. /\ pc'[t] \in {"acquire", "return"} /\ request'[t] = request[t]
      /\ pc'[t] = "acquire" => ValidateRequest(request[t]) = "kOk"
      /\ cursor'[t] = cursor[t] /\ matches'[t] = matches[t] /\ best'[t] = best[t]
  BY <1>0 DEF StateTyped
<1>3. LockDiscipline'
  BY <1>0, <1>2, LockUnchanged DEF InCriticalSection
<1>4. LocalOK(t)'
  BY <1>0, <1>2
     DEF LocalOK, StageOK, ChecksHold, AllocChecked, FreeChecked,
         MatchesCurrent, Reaches
<1>5. \A u \in Threads \ {t} : LocalOK(u)'
  BY OtherThreads DEF GInv
<1> QED BY <1>1, <1>3, <1>4, <1>5 DEF GInv

(* A handler takes the lock in its mode only when that leaves every other  *)
(* holder in order.                                                        *)
LEMMA AcquireStep ==
    ASSUME GInv, NEW t \in Threads, Frame(t),
           AcquireExclusive(t) \/ AcquireShared(t)
    PROVE  GInv'
<1> USE DEF AcquireExclusive, AcquireShared, Unlocked, Goto, Reaches,
            localVars, lockVars, dataVars
<1>0. StateTyped /\ LocalOK(t) /\ LockDiscipline
  BY DEF GInv
<1>1. StateTyped'
  BY <1>0 DEF StateTyped, Stages
<1>2. /\ pc[t] = "acquire" /\ pc'[t] \in {"locked", "scan"} /\ request'[t] = request[t]
      /\ pc'[t] = "scan" => request[t].op = "BatchExist"
      /\ cursor'[t] = cursor[t] /\ matches'[t] = matches[t] /\ best'[t] = best[t]
  BY <1>0 DEF StateTyped
<1>3. LockDiscipline'
  <2>1. ~HoldsLock(t)
    BY <1>0, <1>2 DEF LockDiscipline, InCriticalSection
  <2>2. writer' # NoThread => readers' = {}
    BY <1>0 DEF LockDiscipline
  <2>3. /\ InCriticalSection(t)' /\ HoldsLock(t)'
        /\ (t = writer' <=> request'[t].op \in WriteOps)
    BY <1>2 DEF InCriticalSection, HoldsLock
  <2>4. ASSUME NEW u \in Threads \ {t}
        PROVE  /\ InCriticalSection(u)' <=> HoldsLock(u)'
               /\ HoldsLock(u)' => (u = writer' <=> request'[u].op \in WriteOps)
    <3>1. HoldsLock(u)' <=> HoldsLock(u)
      BY <2>4 DEF HoldsLock
    <3>2. u = writer' <=> u = writer
      BY <2>4
    <3>3. (InCriticalSection(u)' <=> InCriticalSection(u)) /\ request'[u] = request[u]
      BY <2>4 DEF Frame, InCriticalSection
    <3> QED BY <1>0, <3>1, <3>2, <3>3 DEF LockDiscipline
  <2> QED BY <2>2, <2>3, <2>4 DEF LockDiscipline
<1>4. LocalOK(t)'
  <2>1. matches[t] = NoMatches
    BY <1>0, <1>2 DEF LocalOK, StageOK
  <2>2. \A h \in HostIds : Len(matches'[t][h]) = 0
    BY <1>2, <2>1 DEF NoMatches
  <2>3. ChecksHold(t)'
    BY <1>2, <2>2 DEF ChecksHold, AllocChecked, FreeChecked, MatchesCurrent
  <2> QED BY <1>0, <1>2, <2>3 DEF LocalOK, StageOK
<1>5. \A u \in Threads \ {t} : LocalOK(u)'
  BY OtherThreads DEF GInv
<1> QED BY <1>1, <1>3, <1>4, <1>5 DEF GInv

(* The guard's destructor releases the lock the handler held, and only     *)
(* that.                                                                   *)
LEMMA UnlockStep ==
    ASSUME GInv, NEW t \in Threads, Frame(t), Unlock(t)
    PROVE  GInv'
<1> USE DEF Unlock, Goto, localVars, lockVars, dataVars
<1>0. StateTyped /\ LocalOK(t) /\ LockDiscipline
  BY DEF GInv
<1>1. StateTyped'
  BY <1>0 DEF StateTyped, Stages
<1>2. pc[t] = "unlock" /\ pc'[t] = "return" /\ request'[t] = request[t] /\ best'[t] = best[t]
  BY <1>0 DEF StateTyped
<1>3. LockDiscipline'
  <2>1. writer' # NoThread => readers' = {}
    BY <1>0 DEF LockDiscipline
  <2>2. ~InCriticalSection(t)' /\ ~HoldsLock(t)'
    BY <1>2 DEF InCriticalSection, HoldsLock
  <2>3. ASSUME NEW u \in Threads \ {t}
        PROVE  /\ InCriticalSection(u)' <=> HoldsLock(u)'
               /\ HoldsLock(u)' => (u = writer' <=> request'[u].op \in WriteOps)
    <3>1. (HoldsLock(u)' <=> HoldsLock(u)) /\ (u = writer' <=> u = writer)
      BY <2>3 DEF HoldsLock
    <3>2. (InCriticalSection(u)' <=> InCriticalSection(u)) /\ request'[u] = request[u]
      BY <2>3 DEF Frame, InCriticalSection
    <3> QED BY <1>0, <3>1, <3>2 DEF LockDiscipline
  <2> QED BY <2>1, <2>2, <2>3 DEF LockDiscipline
<1>4. LocalOK(t)'
  BY <1>0, <1>2
     DEF LocalOK, StageOK, ChecksHold, AllocChecked, FreeChecked,
         MatchesCurrent, Reaches
<1>5. \A u \in Threads \ {t} : LocalOK(u)'
  BY OtherThreads DEF GInv
<1> QED BY <1>1, <1>3, <1>4, <1>5 DEF GInv

(* A worker returns its response and starts afresh.                        *)
LEMMA ReturnStep ==
    ASSUME GInv, NEW t \in Threads, Frame(t), Return(t)
    PROVE  GInv'
<1> USE DEF Return, Goto, localVars, lockVars, dataVars
<1>0. StateTyped /\ LocalOK(t) /\ LockDiscipline
  BY DEF GInv
<1>a. NoMatches \in [HostIds -> Seq(KeyBlockLocation)]
      /\ NoBest \in [host_id : HostIds \cup {NoHost}, count : Nat] /\ NoBest.count = 0
  BY DEF NoMatches, NoBest
<1>1. StateTyped'
  BY <1>0, <1>a DEF StateTyped, Stages
<1>2. /\ pc[t] = "return" /\ pc'[t] = "idle"
      /\ cursor'[t] = 1 /\ matches'[t] = NoMatches /\ best'[t] = NoBest
  BY <1>0 DEF StateTyped
<1>3. LockDiscipline'
  BY <1>0, <1>2, LockUnchanged DEF InCriticalSection
<1>4. LocalOK(t)'
  BY <1>a, <1>2
     DEF LocalOK, StageOK, ChecksHold, AllocChecked, FreeChecked,
         MatchesCurrent, Reaches
<1>5. \A u \in Threads \ {t} : LocalOK(u)'
  BY OtherThreads DEF GInv
<1> QED BY <1>1, <1>3, <1>4, <1>5 DEF GInv

(* The checks of a batch under the lock, and the refusals they end in.  *)

(* A batch that passes its checks begins its loop at the first key.        *)
LEMMA StartedLocals ==
    ASSUME StateTyped, NEW t \in Threads, StageOK(t), pc[t] = "locked", Start(t)
    PROVE  /\ pc'[t] = "update" /\ request'[t] = request[t]
           /\ cursor'[t] = 1 /\ best'[t] = best[t]
           /\ pc' \in [Threads -> Stages]
BY DEF StateTyped, StageOK, Start, Goto, Stages

(* The canonical keys of a validated batch are distinct keys of the index. *)
LEMMA BatchKeys ==
    ASSUME NEW t \in Threads, StageOK(t), pc[t] \in {"locked", "update", "scan"},
           request[t].op \in BatchOps \cup {"BatchExist"}
    PROVE  /\ request[t].keys \in Seq(RawKeys)
           /\ Len(request[t].keys) \in Nat \ {0}
           /\ request[t].op \in BatchOps => Host(t) \in HostIds
           /\ DOMAIN RequestKeys(t) = 1..Len(request[t].keys)
           /\ Len(RequestKeys(t)) = Len(request[t].keys)
           /\ \A i \in 1..Len(request[t].keys) : RequestKeys(t)[i] \in Keys
           /\ \A i, j \in 1..Len(request[t].keys) :
                 RequestKeys(t)[i] = RequestKeys(t)[j] => i = j
<1>1. request[t] \in Request /\ ValidateRequest(request[t]) = "kOk"
  BY DEF StageOK
<1>2. /\ request[t].keys \in Seq(RawKeys)
      /\ request[t].op \in BatchOps => Host(t) \in HostIds
  BY <1>1, RequestFields DEF Host
<1>3. ValidateKeys(request[t].keys) = "kOk"
  BY <1>1 DEF ValidateRequest, BatchOps
<1> QED BY <1>2, <1>3, ValidatedKeys, CanonicalSequence DEF RequestKeys

(* The checks of AllocBlocks establish what its loop relies on: the keys   *)
(* are absent.                                                             *)
LEMMA AllocCheckStep ==
    ASSUME GInv, NEW t \in Threads, Frame(t), AllocCheck(t)
    PROVE  GInv'
<1>0. StateTyped /\ LocalOK(t) /\ LockDiscipline /\ StageOK(t)
      /\ pc[t] = "locked" /\ request[t].op = "AllocBlocks"
  BY DEF GInv, AllocCheck, Reaches, LocalOK
<1>1. CASE AllocError(t) # "kOk"
  <2>1. Respond(t, Refusal(AllocError(t))) /\ UNCHANGED dataVars
    BY <1>1 DEF AllocCheck
  <2> QED BY <1>0, <2>1, RespondStep DEF StateTyped, dataVars
<1>2. CASE AllocError(t) = "kOk"
  <2>1. Start(t) /\ UNCHANGED locations
    BY <1>2 DEF AllocCheck
  <2>2. /\ pc'[t] = "update" /\ request'[t] = request[t]
        /\ cursor'[t] = 1 /\ best'[t] = best[t] /\ pc' \in [Threads -> Stages]
    BY <1>0, <2>1, StartedLocals
  <2>3. StateTyped'
    BY <1>0, <2>1, <2>2 DEF StateTyped, Start, lockVars, dataVars
  <2>4. LockDiscipline'
    BY <1>0, <2>1, <2>2, LockUnchanged DEF InCriticalSection, Start
  <2>6. /\ Host(t) \in DOMAIN hosts_
        /\ \A i \in DOMAIN RequestKeys(t) : RequestKeys(t)[i] \notin DOMAIN key_index_
    BY <1>2 DEF AllocError
  <2>7. /\ DOMAIN RequestKeys(t) = 1..Len(request[t].keys)
        /\ Len(RequestKeys(t)) = Len(request[t].keys)
        /\ Len(request[t].keys) \in Nat \ {0}
    BY <1>0, BatchKeys DEF BatchOps
  <2>8. hosts_' = hosts_ /\ key_index_' = key_index_
    BY <2>1 DEF Start, dataVars
  <2>9. RequestKeys(t)' = RequestKeys(t) /\ Host(t)' = Host(t)
    BY <2>2 DEF RequestKeys, Host
  <2>10. StageOK(t)'
    BY <1>0, <2>2, <2>6, <2>7, <2>8, <2>9 DEF StageOK, BatchOps
  <2>11. ChecksHold(t)'
    BY <1>0, <2>2, <2>6, <2>7, <2>8, <2>9
       DEF ChecksHold, AllocChecked, FreeChecked, MatchesCurrent, Reaches
  <2>12. \A u \in Threads \ {t} : LocalOK(u)'
    BY <2>8, OtherThreads DEF GInv
  <2> QED BY <2>3, <2>4, <2>10, <2>11, <2>12 DEF GInv, LocalOK
<1> QED BY <1>1, <1>2

(* The checks of FreeBlocks establish what its loop relies on: the         *)
(* locations collected are those of the index.                             *)
LEMMA FreeCheckStep ==
    ASSUME GInv, NEW t \in Threads, Frame(t), FreeCheck(t)
    PROVE  GInv'
<1>0. StateTyped /\ LocalOK(t) /\ LockDiscipline /\ StageOK(t)
      /\ pc[t] = "locked" /\ request[t].op = "FreeBlocks"
  BY DEF GInv, FreeCheck, Reaches, LocalOK
<1>1. CASE FreeError(t) # "kOk"
  <2>1. Respond(t, Refusal(FreeError(t))) /\ UNCHANGED dataVars
    BY <1>1 DEF FreeCheck
  <2> QED BY <1>0, <2>1, RespondStep DEF StateTyped, dataVars
<1>2. CASE FreeError(t) = "kOk"
  <2> DEFINE toFree == [i \in DOMAIN RequestKeys(t) |->
                          [key      |-> RequestKeys(t)[i],
                           host_id  |-> Host(t),
                           block_id |-> key_index_[RequestKeys(t)[i]].block_id]]
  <2>1. Start(t) /\ locations' = [locations EXCEPT ![t] = toFree]
    BY <1>2 DEF FreeCheck
  <2>2. /\ pc'[t] = "update" /\ request'[t] = request[t]
        /\ cursor'[t] = 1 /\ best'[t] = best[t] /\ pc' \in [Threads -> Stages]
    BY <1>0, <2>1, StartedLocals
  <2>3. /\ DOMAIN RequestKeys(t) = 1..Len(request[t].keys)
        /\ Len(RequestKeys(t)) = Len(request[t].keys)
        /\ Len(request[t].keys) \in Nat \ {0}
        /\ Host(t) \in HostIds
        /\ \A i \in 1..Len(request[t].keys) : RequestKeys(t)[i] \in Keys
    BY <1>0, BatchKeys DEF BatchOps
  <2>4. /\ Host(t) \in DOMAIN hosts_
        /\ \A i \in DOMAIN RequestKeys(t) :
              /\ RequestKeys(t)[i] \in DOMAIN key_index_
              /\ key_index_[RequestKeys(t)[i]].host_id = Host(t)
    <3>1. Host(t) \in DOMAIN hosts_ /\ Missing(t) \cup Foreign(t) = {}
      BY <1>2 DEF FreeError
    <3> QED BY <3>1 DEF Missing, Foreign
  <2>5. \A i \in 1..Len(request[t].keys) :
          /\ key_index_[RequestKeys(t)[i]] \in BlockLocation
          /\ key_index_[RequestKeys(t)[i]] =
                [host_id |-> Host(t), block_id |-> key_index_[RequestKeys(t)[i]].block_id]
    BY <1>0, <2>3, <2>4 DEF StateTyped, BlockLocation
  <2>6. toFree \in Seq(KeyBlockLocation) /\ Len(toFree) = Len(request[t].keys)
    <3>1. \A i \in 1..Len(request[t].keys) : key_index_[RequestKeys(t)[i]].block_id \in Nat
      BY <2>5 DEF BlockLocation
    <3>2. \A i \in 1..Len(request[t].keys) :
             [key      |-> RequestKeys(t)[i],
              host_id  |-> Host(t),
              block_id |-> key_index_[RequestKeys(t)[i]].block_id] \in KeyBlockLocation
      BY <2>3, <3>1 DEF KeyBlockLocation
    <3>3. toFree \in [1..Len(request[t].keys) -> KeyBlockLocation]
      BY <2>3, <3>2
    <3> QED BY <2>3, <3>3
  <2>7. StateTyped'
    BY <1>0, <2>1, <2>2, <2>6 DEF StateTyped, Start, lockVars, dataVars
  <2>8. LockDiscipline'
    BY <1>0, <2>1, <2>2, LockUnchanged DEF InCriticalSection, Start
  <2>10. hosts_' = hosts_ /\ key_index_' = key_index_ /\ locations'[t] = toFree
    BY <1>0, <2>1 DEF Start, dataVars, StateTyped
  <2>11. RequestKeys(t)' = RequestKeys(t) /\ Host(t)' = Host(t)
    BY <2>2 DEF RequestKeys, Host
  <2>12. StageOK(t)'
    BY <1>0, <2>2, <2>3, <2>4, <2>6, <2>10, <2>11 DEF StageOK, BatchOps
  <2>13. ChecksHold(t)'
    <3>1. \A i \in 1..Len(request[t].keys) :
             toFree[i].block_id = key_index_[RequestKeys(t)[i]].block_id
      BY <2>3
    <3> HIDE DEF toFree
    <3>2. \A i \in cursor'[t]..Len(request'[t].keys) :
             /\ RequestKeys(t)'[i] \in DOMAIN key_index_'
             /\ key_index_'[RequestKeys(t)'[i]] =
                   [host_id |-> Host(t)', block_id |-> locations'[t][i].block_id]
      BY <1>0, <2>2, <2>3, <2>4, <2>5, <2>10, <2>11, <3>1
    <3> QED BY <1>0, <2>2, <3>2
       DEF ChecksHold, AllocChecked, FreeChecked, MatchesCurrent, Reaches
  <2>14. \A u \in Threads \ {t} : LocalOK(u)'
    BY <2>10, OtherThreads DEF GInv
  <2> QED BY <2>7, <2>8, <2>12, <2>13, <2>14 DEF GInv, LocalOK
<1> QED BY <1>1, <1>2

(* One key of a BatchExist.                                                *)
LEMMA ScanKeyStep ==
    ASSUME GInv, NEW t \in Threads, Frame(t), ScanKey(t)
    PROVE  GInv'
<1>0. StateTyped /\ LocalOK(t) /\ LockDiscipline /\ StageOK(t) /\ ChecksHold(t)
      /\ pc[t] = "scan" /\ request[t].op = "BatchExist"
  BY DEF GInv, ScanKey, Scanning, Reaches, LocalOK
<1> DEFINE key  == RequestKeys(t)[cursor[t]]
           h    == key_index_[key].host_id
           item == [key |-> key, host_id |-> h, block_id |-> key_index_[key].block_id]
           list == Append(matches[t][h], item)
<1>1. /\ key \in DOMAIN key_index_
      /\ matches' = [matches EXCEPT ![t][h] = list]
      /\ best' = IF Improves(list, best[t])
                 THEN [best EXCEPT ![t] = [host_id |-> h, count |-> Len(list)]]
                 ELSE best
      /\ cursor' = [cursor EXCEPT ![t] = @ + 1]
      /\ UNCHANGED <<pc, request, locations, reply, lockVars, dataVars>>
  BY DEF ScanKey, Scanning
<1>2. /\ key \in Keys /\ h \in HostIds /\ key_index_[key].block_id \in Nat
      /\ key_index_[key] = [host_id |-> h, block_id |-> key_index_[key].block_id]
  BY <1>0, <1>1 DEF StateTyped, BlockLocation
<1>3. /\ item \in KeyBlockLocation
      /\ item.key = key /\ item.block_id = key_index_[key].block_id
  BY <1>2 DEF KeyBlockLocation
<1>4. matches[t] \in [HostIds -> Seq(KeyBlockLocation)]
  BY <1>0 DEF StateTyped
<1>5. /\ list \in Seq(KeyBlockLocation)
      /\ Len(list) = Len(matches[t][h]) + 1 /\ Len(list) \in Nat
      /\ \A i \in 1..Len(matches[t][h]) : list[i] = matches[t][h][i]
      /\ list[Len(matches[t][h]) + 1] = item
      /\ Len(matches[t][h]) \in Nat
  <2> HIDE DEF item, h
  <2>1. matches[t][h] \in Seq(KeyBlockLocation)
    BY <1>2, <1>4
  <2> QED BY <2>1, <1>3
<1> HIDE DEF key, item, list, h
<1>6. StateTyped'
  <2>1. matches' \in [Threads -> [HostIds -> Seq(KeyBlockLocation)]]
    BY <1>0, <1>1, <1>2, <1>5 DEF StateTyped
  <2>2. best' \in [Threads -> [host_id : HostIds \cup {NoHost}, count : Nat]]
    BY <1>0, <1>1, <1>2, <1>5 DEF StateTyped
  <2>3. cursor' \in [Threads -> Nat \ {0}]
    BY <1>0, <1>1 DEF StateTyped
  <2> QED BY <1>0, <1>1, <2>1, <2>2, <2>3 DEF StateTyped, lockVars, dataVars
<1>7. LockDiscipline'
  BY <1>0, <1>1, LockUnchanged DEF InCriticalSection
<1>8. hosts_' = hosts_ /\ key_index_' = key_index_
  BY <1>1 DEF dataVars
<1>9. StageOK(t)'
  <2>1. best'[t].count > 0 => best'[t].host_id \in HostIds
    <3>1. CASE Improves(list, best[t])
      BY <1>0, <1>1, <1>2, <3>1 DEF StateTyped
    <3>2. CASE ~Improves(list, best[t])
      BY <1>0, <1>1, <3>2 DEF StageOK
    <3> QED BY <3>1, <3>2
  <2>2. pc' = pc /\ request' = request
    BY <1>1
  <2> QED BY <1>0, <2>1, <2>2 DEF StageOK
<1>10. ChecksHold(t)'
  <2>0. \A g \in HostIds : \A i \in 1..Len(matches[t][g]) :
           /\ matches[t][g][i].key \in DOMAIN key_index_
           /\ key_index_[matches[t][g][i].key] =
                 [host_id |-> g, block_id |-> matches[t][g][i].block_id]
    BY <1>0 DEF ChecksHold, AllocChecked, FreeChecked, MatchesCurrent
  <2>1. ASSUME NEW g \in HostIds, NEW i \in 1..Len(matches'[t][g])
        PROVE  /\ matches'[t][g][i].key \in DOMAIN key_index_
               /\ key_index_[matches'[t][g][i].key] =
                     [host_id |-> g, block_id |-> matches'[t][g][i].block_id]
    <3>1. CASE g # h
      <4>1. matches'[t][g] = matches[t][g]
        BY <1>0, <1>1, <3>1 DEF StateTyped
      <4> QED BY <2>0, <2>1, <4>1
    <3>2. CASE g = h
      <4>1. matches'[t][g] = list
        BY <1>0, <1>1, <1>2, <3>2 DEF StateTyped
      <4>2. CASE i = Len(matches[t][h]) + 1
        BY <1>1, <1>2, <1>3, <1>5, <3>2, <4>1, <4>2
      <4>3. CASE i \in 1..Len(matches[t][h])
        BY <2>0, <1>2, <1>5, <3>2, <4>1, <4>3
      <4> QED BY <1>5, <2>1, <4>1, <4>2, <4>3
    <3> QED BY <3>1, <3>2
  <2>2. pc' = pc
    BY <1>1
  <2> QED BY <1>0, <1>8, <2>1, <2>2
     DEF ChecksHold, AllocChecked, FreeChecked, MatchesCurrent, Reaches
<1>11. \A u \in Threads \ {t} : LocalOK(u)'
  BY <1>8, OtherThreads DEF GInv
<1> QED BY <1>6, <1>7, <1>9, <1>10, <1>11 DEF GInv, LocalOK

(* The end of a loop: the count of free blocks wraps around like a word.   *)
LEMMA LoopDoneStep ==
    ASSUME GInv, NEW t \in Threads, Frame(t), AllocDone(t) \/ FreeDone(t)
    PROVE  GInv'
<1> USE DEF AllocDone, FreeDone, Looped, Reaches
<1>0. StateTyped /\ StageOK(t) /\ pc[t] = "update"
      /\ request[t].op \in {"AllocBlocks", "FreeBlocks"}
  BY DEF GInv, LocalOK
<1>1. Len(request[t].keys) \in Nat /\ available_blocks_ \in Nat
  BY <1>0, BatchKeys, WordAssumption DEF BatchOps, StateTyped, Word
<1>2. available_blocks_' \in Word
  <2>1. \A n \in Int : n % (MaxWord + 1) \in Word
    BY WordAssumption DEF Word
  <2> QED BY <1>1, <2>1
<1> QED BY <1>0, <1>2, RespondStep

(* A handler that writes holds the exclusive lock, alone.                  *)
LEMMA WriterAlone ==
    ASSUME GInv, NEW t \in Threads, pc[t] \in {"locked", "update"},
           request[t].op \in WriteOps
    PROVE  t = writer /\ \A u \in Threads \ {t} : ~InCriticalSection(u)
<1>1. t = writer
  BY DEF GInv, LockDiscipline, InCriticalSection
<1> QED BY <1>1, Alone DEF GInv

(* A registration turned down, or repeated, changes nothing.                *)
RegistersNothing(t) == UNCHANGED dataVars /\ \E response : Respond(t, response)

(* What a registration does to the pools, otherwise.                        *)
RegistersPool(t, r, h) ==
    /\ r = request[t].registration /\ h = r.host_id /\ h \notin DOMAIN hosts_
    /\ available_blocks_' = available_blocks_ + Total(r)
    /\ available_blocks_ <= MaxWord - Total(r)
    /\ Respond(t, Registered(Total(r)))
    /\ UNCHANGED key_index_
    /\ DOMAIN hosts_' = DOMAIN hosts_ \cup {h}
    /\ hosts_'[h] = NewHost(r)
    /\ \A g \in DOMAIN hosts_ : hosts_'[g] = hosts_[g]

(* A registration adds a fresh pool or changes nothing.                    *)
LEMMA RegisterEffect ==
    ASSUME GInv, NEW t \in Threads, RegisterMemory(t)
    PROVE  \/ RegistersNothing(t)
           \/ \E r \in MemoryRegistration, h \in HostIds :
                 /\ ValidateRegistration(r) = "kOk" /\ RegistersPool(t, r, h)
                 /\ hosts_' \in [DOMAIN hosts_' -> HostMemory]
<1> DEFINE r == request[t].registration
           h == r.host_id
<1>0. StateTyped /\ StageOK(t) /\ pc[t] = "locked" /\ request[t].op = "RegisterMemory"
  BY DEF GInv, RegisterMemory, Reaches, LocalOK
<1>1. r \in MemoryRegistration /\ h \in HostIds /\ ValidateRegistration(r) = "kOk"
  <2>1. request[t] \in Request /\ ValidateRequest(request[t]) = "kOk"
    BY <1>0 DEF StageOK
  <2>2. r \in MemoryRegistration
    BY <1>0, <2>1, RequestFields
  <2>3. ValidateRegistration(r) = "kOk"
    BY <1>0, <2>1 DEF ValidateRequest, BatchOps
  <2> QED BY <2>2, <2>3 DEF MemoryRegistration
<1>2. Total(r) \in Nat /\ NewHost(r) \in HostMemory
  BY <1>1, NewHostPool
<1>3. CASE UNCHANGED dataVars
  <2>1. \E response : Respond(t, response)
    BY DEF RegisterMemory
  <2> QED BY <1>3, <2>1 DEF RegistersNothing
<1>4. CASE /\ h \notin DOMAIN hosts_
           /\ available_blocks_ <= MaxWord - Total(r)
           /\ hosts_' = Emplace(hosts_, h, NewHost(r))
           /\ available_blocks_' = available_blocks_ + Total(r)
           /\ Respond(t, Registered(Total(r)))
           /\ UNCHANGED key_index_
  <2>0. r = request[t].registration /\ h = r.host_id
    OBVIOUS
  <2> HIDE DEF r, h
  <2>1. /\ DOMAIN hosts_' = DOMAIN hosts_ \cup {h}
        /\ hosts_'[h] = NewHost(r)
        /\ \A g \in DOMAIN hosts_ : hosts_'[g] = hosts_[g]
        /\ hosts_' = [g \in DOMAIN hosts_ \cup {h} |-> IF g = h THEN NewHost(r) ELSE hosts_[g]]
    BY <1>4 DEF Emplace
  <2>2. hosts_' \in [DOMAIN hosts_' -> HostMemory]
    BY <1>0, <1>2, <2>1 DEF StateTyped
  <2>3. RegistersPool(t, r, h)
    BY <1>4, <2>0, <2>1 DEF RegistersPool
  <2> QED BY <1>1, <2>2, <2>3
<1> QED BY <1>3, <1>4 DEF RegisterMemory

(* A registration keeps the lock and the handlers in order.                 *)
LEMMA RegisterStep ==
    ASSUME GInv, NEW t \in Threads, Frame(t), RegisterMemory(t)
    PROVE  GInv'
<1>0. StateTyped /\ LocalOK(t) /\ LockDiscipline
      /\ pc[t] = "locked" /\ request[t].op = "RegisterMemory"
  BY DEF GInv, RegisterMemory, Reaches
<1>1. CASE RegistersNothing(t)
  <2>1. PICK response : Respond(t, response)
    BY <1>1 DEF RegistersNothing
  <2> QED BY <1>0, <1>1, <2>1, RespondStep DEF StateTyped, dataVars, RegistersNothing
<1>2. ASSUME NEW r \in MemoryRegistration, NEW h \in HostIds,
             ValidateRegistration(r) = "kOk", RegistersPool(t, r, h),
             hosts_' \in [DOMAIN hosts_' -> HostMemory]
      PROVE  GInv'
  <2>1. /\ Respond(t, Registered(Total(r)))
        /\ DOMAIN hosts_' = DOMAIN hosts_ \cup {h} /\ UNCHANGED key_index_
    BY <1>2 DEF RegistersPool
  <2>2. available_blocks_' \in Word
    BY <1>0, <1>2, NewHostPool, WordAssumption DEF RegistersPool, StateTyped, Word
  <2>3. StateTyped'
    BY <1>0, <1>2, <2>1, <2>2 DEF StateTyped, Respond, Goto, Stages, localVars, lockVars
  <2>4. pc'[t] = "unlock" /\ request'[t] = request[t] /\ best'[t] = best[t]
    BY <1>0, <2>1 DEF StateTyped, Respond, Goto, localVars
  <2>5. LockDiscipline'
    BY <1>0, <2>1, <2>4, LockUnchanged DEF Respond, InCriticalSection
  <2>6. LocalOK(t)'
    BY <1>0, <2>4
       DEF LocalOK, StageOK, ChecksHold, AllocChecked, FreeChecked,
           MatchesCurrent, Reaches
  <2>7. \A u \in Threads \ {t} : LocalOK(u)'
    <3>1. \A u \in Threads \ {t} : ~InCriticalSection(u)
      BY <1>0, WriterAlone DEF WriteOps
    <3> QED BY <3>1, OtherThreads DEF GInv
  <2> QED BY <2>3, <2>5, <2>6, <2>7 DEF GInv
<1> QED BY <1>1, <1>2, RegisterEffect

(* What one key of an allocation does to the pools and to the index.        *)
AllocatesKey(t, H, m, key) ==
    /\ H = Host(t) /\ m = hosts_[H] /\ key = RequestKeys(t)[cursor[t]]
    /\ key \notin DOMAIN key_index_
    /\ DOMAIN hosts_' = DOMAIN hosts_ /\ hosts_'[H] = AllocateOne(m)
    /\ \A g \in DOMAIN hosts_ \ {H} : hosts_'[g] = hosts_[g]
    /\ DOMAIN key_index_' = DOMAIN key_index_ \cup {key}
    /\ key_index_'[key] = [host_id |-> H, block_id |-> NextBlock(m)]
    /\ \A k \in DOMAIN key_index_ : key_index_'[k] = key_index_[k]

(* One key of an allocation that finds a block.                             *)
LEMMA AllocKeyEffect ==
    ASSUME GInv, NEW t \in Threads, AllocKey(t), HasFront(hosts_[Host(t)])
    PROVE  \E H \in DOMAIN hosts_, m \in HostMemory, key \in Keys :
              /\ HasFront(m) /\ AllocatesKey(t, H, m, key)
              /\ cursor[t] \in 1..Len(request[t].keys)
<1> DEFINE n     == Len(request[t].keys)
           c     == cursor[t]
           H     == Host(t)
           key   == RequestKeys(t)[c]
           m     == hosts_[H]
<1>0. /\ StateTyped /\ StageOK(t) /\ ChecksHold(t)
      /\ pc[t] = "update" /\ request[t].op = "AllocBlocks" /\ c <= n
  BY DEF GInv, AllocKey, Looping, Reaches, LocalOK
<1>1. /\ hosts_' = [hosts_ EXCEPT ![H] = AllocateOne(m)]
      /\ key_index_' = Emplace(key_index_, key, [host_id |-> H, block_id |-> NextBlock(m)])
  BY DEF AllocKey
<1>2. /\ n \in Nat /\ c \in 1..n /\ H \in DOMAIN hosts_
      /\ key \in Keys
  <2>1. n \in Nat /\ \A i \in 1..n : RequestKeys(t)[i] \in Keys
    BY <1>0, BatchKeys DEF BatchOps
  <2>2. c \in Nat \ {0}
    BY <1>0 DEF StateTyped
  <2>3. H \in DOMAIN hosts_
    BY <1>0 DEF StageOK
  <2> QED BY <1>0, <2>1, <2>2, <2>3
<1>3. key \notin DOMAIN key_index_
  <2>1. \A i \in c..n : RequestKeys(t)[i] \notin DOMAIN key_index_
    BY <1>0 DEF ChecksHold, AllocChecked, Reaches
  <2> QED BY <1>2, <2>1
<1>4. m \in HostMemory /\ HasFront(m)
  BY <1>0, <1>2 DEF StateTyped
<1>5. H = Host(t) /\ m = hosts_[H] /\ key = RequestKeys(t)[cursor[t]]
  OBVIOUS
<1> HIDE DEF key, m, H, n, c
<1>6. /\ DOMAIN hosts_' = DOMAIN hosts_ /\ hosts_'[H] = AllocateOne(m)
      /\ \A g \in DOMAIN hosts_ \ {H} : hosts_'[g] = hosts_[g]
  BY <1>0, <1>1, <1>2 DEF StateTyped
<1>7. /\ DOMAIN key_index_' = DOMAIN key_index_ \cup {key}
      /\ key_index_'[key] = [host_id |-> H, block_id |-> NextBlock(m)]
      /\ \A k \in DOMAIN key_index_ : key_index_'[k] = key_index_[k]
  BY <1>1, <1>3 DEF Emplace
<1>8. AllocatesKey(t, H, m, key)
  BY <1>3, <1>5, <1>6, <1>7 DEF AllocatesKey
<1> QED BY <1>2, <1>4, <1>8 DEF c, n

(* One key of an allocation keeps the lock and the handlers in order.       *)
LEMMA AllocKeyStep ==
    ASSUME GInv, NEW t \in Threads, Frame(t), AllocKey(t), HasFront(hosts_[Host(t)])
    PROVE  GInv'
<1>1. PICK H \in DOMAIN hosts_, m \in HostMemory, key \in Keys :
         /\ HasFront(m) /\ AllocatesKey(t, H, m, key)
         /\ cursor[t] \in 1..Len(request[t].keys)
  BY AllocKeyEffect
<1> DEFINE n     == Len(request[t].keys)
           c     == cursor[t]
           block == NextBlock(m)
           item  == [key |-> key, host_id |-> H, block_id |-> block]
<1>0. /\ StateTyped /\ LockDiscipline
      /\ StageOK(t) /\ ChecksHold(t)
      /\ pc[t] = "update" /\ request[t].op = "AllocBlocks" /\ c <= n
  BY DEF GInv, AllocKey, Looping, Reaches, LocalOK
<1>2. /\ H = Host(t) /\ m = hosts_[H] /\ key = RequestKeys(t)[c]
      /\ DOMAIN hosts_' = DOMAIN hosts_ /\ hosts_'[H] = AllocateOne(m)
      /\ \A g \in DOMAIN hosts_ \ {H} : hosts_'[g] = hosts_[g]
      /\ DOMAIN key_index_' = DOMAIN key_index_ \cup {key}
      /\ key_index_'[key] = [host_id |-> H, block_id |-> block]
      /\ \A k \in DOMAIN key_index_ : key_index_'[k] = key_index_[k]
  BY <1>1 DEF AllocatesKey
<1>3. /\ hosts_' = [hosts_ EXCEPT ![H] = AllocateOne(m)]
      /\ key_index_' = Emplace(key_index_, key, [host_id |-> H, block_id |-> block])
      /\ locations' = [locations EXCEPT ![t] = Append(@, item)]
      /\ cursor' = [cursor EXCEPT ![t] = c + 1]
      /\ UNCHANGED <<pc, request, matches, best, reply, lockVars, available_blocks_>>
  BY <1>2 DEF AllocKey
<1>4. /\ n \in Nat /\ c \in 1..n
      /\ \A i, j \in 1..n : RequestKeys(t)[i] = RequestKeys(t)[j] => i = j
  BY <1>0, <1>1, BatchKeys DEF BatchOps
<1>5. \A i \in c..n : RequestKeys(t)[i] \notin DOMAIN key_index_
  BY <1>0 DEF ChecksHold, AllocChecked, FreeChecked, MatchesCurrent, Reaches
<1>6. block \in Nat /\ AllocateOne(m) \in HostMemory /\ H \in HostIds
  BY <1>0, <1>1, AllocateOneTyped DEF HasFront, StateTyped
<1>7. item \in KeyBlockLocation
  BY <1>6 DEF KeyBlockLocation
<1> HIDE DEF block, item, n, c
<1>8. StateTyped'
  <2>1. locations' \in [Threads -> Seq(KeyBlockLocation)]
    BY <1>0, <1>3, <1>7 DEF StateTyped
  <2>2. cursor' \in [Threads -> Nat \ {0}]
    BY <1>0, <1>3, <1>4 DEF StateTyped
  <2>3. hosts_' \in [DOMAIN hosts_ -> HostMemory]
    BY <1>0, <1>3, <1>6 DEF StateTyped
  <2>4. /\ key_index_' \in [DOMAIN key_index_' -> BlockLocation]
        /\ DOMAIN key_index_' \subseteq Keys
    BY <1>0, <1>2, <1>3, <1>6 DEF Emplace, StateTyped, BlockLocation
  <2> QED BY <1>0, <1>2, <1>3, <2>1, <2>2, <2>3, <2>4 DEF StateTyped, lockVars
<1>9. LockDiscipline'
  BY <1>0, <1>3, LockUnchanged DEF InCriticalSection
<1>10. /\ pc'[t] = "update" /\ request'[t] = request[t] /\ best'[t] = best[t]
       /\ cursor'[t] = c + 1
       /\ RequestKeys(t)' = RequestKeys(t) /\ Host(t)' = H
  BY <1>0, <1>2, <1>3 DEF StateTyped, RequestKeys, Host
<1>11. StageOK(t)'
  BY <1>0, <1>2, <1>4, <1>10 DEF StageOK, n
<1>12. ChecksHold(t)'
  <2>1. \A i \in (c + 1)..n : RequestKeys(t)[i] \notin DOMAIN key_index_'
    <3> SUFFICES ASSUME NEW i \in (c + 1)..n PROVE RequestKeys(t)[i] \notin DOMAIN key_index_'
      OBVIOUS
    <3>1. i \in c..n /\ i \in 1..n /\ i # c
      BY <1>4
    <3>2. RequestKeys(t)[i] # key
      BY <1>2, <1>4, <3>1
    <3> QED BY <1>2, <1>5, <3>1, <3>2
  <2> QED BY <1>0, <1>10, <2>1
     DEF ChecksHold, AllocChecked, FreeChecked, MatchesCurrent, Reaches, n
<1>13. \A u \in Threads \ {t} : LocalOK(u)'
  <2>1. \A u \in Threads \ {t} : ~InCriticalSection(u)
    BY <1>0, WriterAlone DEF WriteOps, BatchOps
  <2> QED BY <2>1, OtherThreads DEF GInv
<1> QED BY <1>8, <1>9, <1>11, <1>12, <1>13 DEF GInv, LocalOK

(* What one key of a free does to the pools and to the index.               *)
FreesKey(t, H, m, key, block) ==
    /\ H = Host(t) /\ m = hosts_[H] /\ key = RequestKeys(t)[cursor[t]]
    /\ block = locations[t][cursor[t]].block_id
    /\ key_index_[key] = [host_id |-> H, block_id |-> block]

(* What FreeOne and the erasure of the key do, together.                    *)
FreedKey(H, m, key, block) ==
    /\ DOMAIN hosts_' = DOMAIN hosts_ /\ hosts_'[H] = FreeOne(m, block)
    /\ \A g \in DOMAIN hosts_ \ {H} : hosts_'[g] = hosts_[g]
    /\ DOMAIN key_index_' = DOMAIN key_index_ \ {key}
    /\ \A k \in DOMAIN key_index_ \ {key} : key_index_'[k] = key_index_[k]

(* The loop of FreeBlocks frees the block of a key that is in the index.    *)
LEMMA FreesItsKey ==
    ASSUME GInv, NEW t \in Threads, Looping(t, "FreeBlocks")
    PROVE  \E H \in DOMAIN hosts_, m \in HostMemory, key \in DOMAIN key_index_, block \in Nat :
              FreesKey(t, H, m, key, block) /\ cursor[t] \in 1..Len(request[t].keys)
<1> DEFINE n     == Len(request[t].keys)
           c     == cursor[t]
           H     == Host(t)
           key   == RequestKeys(t)[c]
           m     == hosts_[H]
           block == locations[t][c].block_id
<1>0. /\ StateTyped /\ StageOK(t) /\ ChecksHold(t)
      /\ pc[t] = "update" /\ request[t].op = "FreeBlocks" /\ c <= n
  BY DEF GInv, Looping, Reaches, LocalOK
<1>1. n \in Nat /\ c \in 1..n /\ H \in DOMAIN hosts_
  <2>1. n \in Nat
    BY <1>0, BatchKeys DEF BatchOps
  <2>2. c \in Nat \ {0} /\ H \in DOMAIN hosts_
    BY <1>0 DEF StateTyped, StageOK
  <2> QED BY <1>0, <2>1, <2>2
<1>2. key \in DOMAIN key_index_ /\ key_index_[key] = [host_id |-> H, block_id |-> block]
  <2>1. \A i \in c..n :
           /\ RequestKeys(t)[i] \in DOMAIN key_index_
           /\ key_index_[RequestKeys(t)[i]] =
                 [host_id |-> H, block_id |-> locations[t][i].block_id]
    BY <1>0 DEF ChecksHold, FreeChecked, Reaches
  <2> QED BY <1>1, <2>1
<1>3. m \in HostMemory
  BY <1>0, <1>1 DEF StateTyped
<1>4. block \in Nat
  <2>1. key_index_[key] \in BlockLocation
    BY <1>0, <1>2 DEF StateTyped
  <2>2. key_index_[key].block_id = block
    BY <1>2
  <2> QED BY <2>1, <2>2 DEF BlockLocation
<1>5. FreesKey(t, H, m, key, block)
  BY <1>2 DEF FreesKey
<1> HIDE DEF key, m, H, block
<1> QED BY <1>1, <1>2, <1>3, <1>4, <1>5

(* One key of a free.                                                      *)
LEMMA FreeKeyEffect ==
    ASSUME GInv, NEW t \in Threads, FreeKey(t),
           NEW H \in DOMAIN hosts_, NEW m, NEW key, NEW block, FreesKey(t, H, m, key, block)
    PROVE  FreedKey(H, m, key, block)
<1>1. /\ hosts_' = [hosts_ EXCEPT ![H] = FreeOne(m, block)]
      /\ key_index_' = Erase(key_index_, key)
  BY DEF FreeKey, FreesKey
<1>2. hosts_ \in [DOMAIN hosts_ -> HostMemory]
  BY DEF GInv, StateTyped
<1> QED BY <1>1, <1>2 DEF FreedKey, Erase

(* One key of a free keeps the lock and the handlers in order.              *)
LEMMA FreeKeyStep ==
    ASSUME GInv, NEW t \in Threads, Frame(t), FreeKey(t)
    PROVE  GInv'
<1> DEFINE n     == Len(request[t].keys)
           c     == cursor[t]
<1>0. /\ StateTyped /\ LockDiscipline /\ StageOK(t) /\ ChecksHold(t)
      /\ Looping(t, "FreeBlocks")
      /\ pc[t] = "update" /\ request[t].op = "FreeBlocks" /\ c <= n
  BY DEF GInv, FreeKey, Looping, Reaches, LocalOK
<1>1. PICK H \in DOMAIN hosts_, m \in HostMemory, key \in DOMAIN key_index_, block \in Nat :
         FreesKey(t, H, m, key, block) /\ c \in 1..n
  BY <1>0, FreesItsKey
<1>2. FreedKey(H, m, key, block)
  BY <1>1, FreeKeyEffect
<1>3. /\ hosts_' = [hosts_ EXCEPT ![H] = FreeOne(m, block)]
      /\ key_index_' = Erase(key_index_, key)
      /\ cursor' = [cursor EXCEPT ![t] = c + 1]
      /\ UNCHANGED <<pc, request, locations, matches, best, reply, lockVars,
                     available_blocks_>>
  BY <1>1 DEF FreeKey, FreesKey
<1>4. /\ n \in Nat
      /\ \A i, j \in 1..n : RequestKeys(t)[i] = RequestKeys(t)[j] => i = j
  BY <1>0, BatchKeys DEF BatchOps
<1>5. \A i \in c..n :
         /\ RequestKeys(t)[i] \in DOMAIN key_index_
         /\ key_index_[RequestKeys(t)[i]] =
               [host_id |-> H, block_id |-> locations[t][i].block_id]
  BY <1>0, <1>1 DEF ChecksHold, FreeChecked, Reaches, FreesKey
<1>6. FreeOne(m, block) \in HostMemory
  BY <1>1, FreeOneTyped
<1> HIDE DEF n, c
<1>7. StateTyped'
  <2>1. cursor' \in [Threads -> Nat \ {0}]
    BY <1>0, <1>1, <1>3, <1>4 DEF StateTyped
  <2>2. hosts_' \in [DOMAIN hosts_ -> HostMemory]
    BY <1>0, <1>3, <1>6 DEF StateTyped
  <2>3. /\ key_index_' \in [DOMAIN key_index_' -> BlockLocation]
        /\ DOMAIN key_index_' \subseteq Keys
    BY <1>0, <1>3 DEF Erase, StateTyped
  <2>4. DOMAIN hosts_' = DOMAIN hosts_
    BY <1>2 DEF FreedKey
  <2> QED BY <1>0, <1>3, <2>1, <2>2, <2>3, <2>4 DEF StateTyped, lockVars
<1>8. LockDiscipline'
  BY <1>0, <1>3, LockUnchanged DEF InCriticalSection
<1>9. /\ pc'[t] = "update" /\ request'[t] = request[t] /\ best'[t] = best[t]
      /\ locations'[t] = locations[t] /\ cursor'[t] = c + 1
      /\ RequestKeys(t)' = RequestKeys(t) /\ Host(t)' = H
  BY <1>0, <1>1, <1>3 DEF StateTyped, RequestKeys, Host, FreesKey
<1>10. StageOK(t)'
  BY <1>0, <1>1, <1>2, <1>4, <1>9 DEF StageOK, n, FreedKey
<1>11. ChecksHold(t)'
  <2>1. ASSUME NEW i \in (c + 1)..n
        PROVE  /\ RequestKeys(t)[i] \in DOMAIN key_index_'
               /\ key_index_'[RequestKeys(t)[i]] =
                     [host_id |-> H, block_id |-> locations[t][i].block_id]
    <3>1. i \in c..n /\ i \in 1..n /\ i # c
      BY <1>1, <1>4, <2>1
    <3>2. RequestKeys(t)[i] # key
      BY <1>1, <1>4, <3>1 DEF FreesKey, c
    <3> QED BY <1>2, <1>5, <3>1, <3>2 DEF FreedKey
  <2> QED BY <1>0, <1>9, <2>1
     DEF ChecksHold, AllocChecked, FreeChecked, MatchesCurrent, Reaches, n
<1>12. \A u \in Threads \ {t} : LocalOK(u)'
  <2>1. \A u \in Threads \ {t} : ~InCriticalSection(u)
    BY <1>0, WriterAlone DEF WriteOps, BatchOps
  <2> QED BY <2>1, OtherThreads DEF GInv
<1> QED BY <1>7, <1>8, <1>10, <1>11, <1>12 DEF GInv, LocalOK

(* Every step of a worker keeps the lock and the handlers in order, if no   *)
(* allocation finds an empty pool.                                         *)
LEMMA GuardStep ==
    ASSUME GInv, NEW t \in Threads, Call(t) \/ Handler(t),
           AllocKey(t) => HasFront(hosts_[Host(t)])
    PROVE  GInv'
<1>1. Frame(t)
  BY FrameOfStep DEF GInv
<1> QED BY <1>1, CallStep, ValidateStep, AcquireStep, RegisterStep, AllocCheckStep,
           AllocKeyStep, FreeCheckStep, FreeKeyStep, LoopDoneStep, ReadStep,
           ScanKeyStep, UnlockStep, ReturnStep DEF Handler

(* Nothing moves.                                                          *)
LEMMA GuardUnchanged ==
    ASSUME GInv, UNCHANGED vars
    PROVE  GInv'
<1>1. StateTyped' /\ LockDiscipline'
  BY DEF GInv, vars, threadVars, localVars, lockVars, dataVars, StateTyped,
         LockDiscipline, HoldsLock, InCriticalSection
<1>2. ASSUME NEW t \in Threads PROVE LocalOK(t)'
  <2>1. /\ LocalOK(t) /\ RequestKeys(t)' = RequestKeys(t) /\ Host(t)' = Host(t)
        /\ \A ops : Reaches(t, "update", ops)' <=> Reaches(t, "update", ops)
    BY DEF GInv, vars, threadVars, RequestKeys, Host, Reaches
  <2>2. StageOK(t)'
    BY <2>1 DEF vars, threadVars, localVars, dataVars, LocalOK, StageOK
  <2>3. ChecksHold(t)'
    BY <2>1
       DEF vars, threadVars, localVars, dataVars, LocalOK, ChecksHold,
           AllocChecked, FreeChecked, MatchesCurrent
  <2> QED BY <2>2, <2>3 DEF LocalOK
<1> QED BY <1>1, <1>2 DEF GInv

-----------------------------------------------------------------------------
(* Replies.  *)

(* Every reply a handler builds has the type of one.                        *)
LEMMA ReplyStep ==
    ASSUME GInv, NEW t \in Threads, Call(t) \/ Handler(t),
           \A h \in DOMAIN hosts_ : IsFiniteSet(hosts_[h].allocated_blocks)
    PROVE  \/ UNCHANGED reply
           \/ \E r \in Reply \cup {NoReply} : reply' = [reply EXCEPT ![t] = r]
<1>0. StateTyped /\ StageOK(t)
  BY DEF GInv, LocalOK
<1>1. CASE Call(t) \/ AcquireExclusive(t) \/ AcquireShared(t) \/ AllocKey(t)
           \/ FreeKey(t) \/ ScanKey(t) \/ Unlock(t)
  BY <1>1 DEF Call, AcquireExclusive, AcquireShared, AllocKey, FreeKey, ScanKey, Unlock
<1>2. CASE Return(t)
  BY <1>2 DEF Return
<1>3. CASE Validate(t)
  <2>1. pc[t] = "validate" /\ request[t] \in Request
    BY <1>0, <1>3 DEF Validate, StageOK
  <2> QED BY <1>3, <2>1, RefusalTyped DEF Validate
<1>4. CASE Exist(t) \/ FindHost(t) \/ Count(t) \/ ScanDone(t)
  BY <1>4, ReadReplies DEF Respond
<1>5. CASE RegisterMemory(t)
  <2>1. request[t].registration \in MemoryRegistration
        /\ ValidateRegistration(request[t].registration) = "kOk"
    <3>1. /\ request[t] \in Request /\ ValidateRequest(request[t]) = "kOk"
          /\ request[t].op = "RegisterMemory"
      BY <1>0, <1>5 DEF StageOK, RegisterMemory, Reaches
    <3> QED BY <3>1, RequestFields DEF ValidateRequest, BatchOps
  <2>2. Registered(Total(request[t].registration)) \in Reply
    BY <2>1, NewHostPool, ReplyTypes
  <2>3. Refusal("kHostAlreadyRegistered") \in Reply /\ Refusal("kInvalidArgument") \in Reply
    BY ReplyTypes DEF RpcCode
  <2> QED BY <1>5, <2>2, <2>3 DEF RegisterMemory, Respond
<1>6. CASE AllocCheck(t)
  <2>1. AllocError(t) # "kOk" => Refusal(AllocError(t)) \in Reply
    BY ReplyTypes DEF AllocError, RpcCode
  <2> QED BY <1>6, <2>1 DEF AllocCheck, Start, Respond
<1>7. CASE FreeCheck(t)
  <2>1. FreeError(t) # "kOk" => Refusal(FreeError(t)) \in Reply
    BY ReplyTypes DEF FreeError, RpcCode
  <2> QED BY <1>7, <2>1 DEF FreeCheck, Start, Respond
<1>8. CASE AllocDone(t) \/ FreeDone(t)
  <2>1. pc[t] = "update" /\ request[t].op \in BatchOps
    BY <1>8 DEF AllocDone, FreeDone, Looped, Reaches, BatchOps
  <2>2. Len(request[t].keys) \in Nat
    BY <1>0, <2>1, BatchKeys
  <2>3. locations[t] \in Seq(KeyBlockLocation)
    BY <1>0 DEF StateTyped
  <2>4. Allocated(locations[t]) \in Reply /\ Freed(Len(request[t].keys)) \in Reply
    BY <2>2, <2>3, ReplyTypes
  <2> QED BY <1>8, <2>4 DEF AllocDone, FreeDone, Respond
<1> QED BY <1>1, <1>2, <1>3, <1>4, <1>5, <1>6, <1>7, <1>8 DEF Handler

-----------------------------------------------------------------------------
(* Pools and index.  *)

(* The invariant as the steps below use it.                                *)
LEMMA GuardOfInvariant ==
    ASSUME IInv
    PROVE  /\ GInv /\ SharedOK /\ AllocCovered
           /\ \A h \in DOMAIN hosts_ : IsFiniteSet(hosts_[h].allocated_blocks)
BY InvariantParts DEF SharedOK, PoolCounts, Accounted

(* The count compared before the loop covers every iteration of it.        *)
LEMMA FrontHeld ==
    ASSUME IInv, NEW t \in Threads, Looping(t, "AllocBlocks")
    PROVE  HasFront(hosts_[Host(t)])
<1> SUFFICES ASSUME ~IsFresh(hosts_[Host(t)])
             PROVE  hosts_[Host(t)].recycled_blocks # << >>
  BY DEF HasFront
<1> DEFINE m == hosts_[Host(t)]
<1>1. /\ StageOK(t) /\ Covered(t) /\ Reaches(t, "update", {"AllocBlocks"})
      /\ cursor[t] <= Len(request[t].keys)
  BY DEF IInv, HandlerOK, AllocCovered, Looping
<1>2. Len(request[t].keys) \in Nat /\ cursor[t] \in Nat /\ Host(t) \in DOMAIN hosts_
  BY <1>1, BatchKeys DEF Reaches, BatchOps, IInv, TypeOK, StateTyped, StageOK
<1>3. m \in HostMemory /\ Partitioned(m) /\ Accounted(m)
  BY <1>2 DEF IInv, TypeOK, StateTyped, PoolPartition, PoolCounts
<1>4. Len(request[t].keys) - cursor[t] + 1 <= AvailableBlockCount(m)
  BY <1>1 DEF Covered
<1>5. AvailableBlockCount(m) > 0
  BY <1>1, <1>2, <1>3, <1>4, PoolAvailable
<1>6. Len(m.recycled_blocks) > 0
  BY <1>3, <1>5, PoolAvailable DEF IsFresh, HostMemory, Partitioned
<1> QED BY <1>6

(* A loop under way elsewhere keeps its blocks: the pools do not change, or *)
(* nobody else is in a loop.                                               *)
LEMMA OthersCovered ==
    ASSUME AllocCovered, NEW t \in Threads, Frame(t), Covered(t)',
           UNCHANGED hosts_ \/ \A u \in Threads \ {t} : ~InCriticalSection(u)
    PROVE  AllocCovered'
<1> SUFFICES ASSUME NEW u \in Threads \ {t} PROVE Covered(u)'
  BY DEF AllocCovered
<1>1. pc'[u] = pc[u] /\ request'[u] = request[u] /\ cursor'[u] = cursor[u]
  BY DEF Frame
<1> QED BY <1>1 DEF AllocCovered, Covered, Reaches, Host, InCriticalSection

(* A step that leaves the pools alone, and starts no allocation that they   *)
(* do not cover, keeps what is said of them.                               *)
LEMMA PoolsUntouched ==
    ASSUME IInv, NEW t \in Threads, Frame(t), UNCHANGED <<hosts_, key_index_>>, Covered(t)'
    PROVE  SharedOK' /\ AllocCovered'
BY GuardOfInvariant, SharedUnchanged, OthersCovered

(* A registration adds a pool that is a partition and that no key names.    *)
LEMMA RegisterPools ==
    ASSUME IInv, NEW t \in Threads, Frame(t), RegisterMemory(t)
    PROVE  SharedOK' /\ AllocCovered'
<1>0. GInv /\ SharedOK /\ AllocCovered /\ StateTyped
      /\ pc[t] = "locked" /\ request[t].op = "RegisterMemory"
  BY GuardOfInvariant DEF GInv, RegisterMemory, Reaches
<1>1. pc'[t] = "unlock"
  BY <1>0 DEF RegisterMemory, Respond, Goto, StateTyped
<1>2. Covered(t)'
  BY <1>1 DEF Covered, Reaches
<1>3. CASE RegistersNothing(t)
  BY <1>2, <1>3, PoolsUntouched DEF RegistersNothing, dataVars
<1>4. ASSUME NEW r \in MemoryRegistration, NEW h \in HostIds,
             ValidateRegistration(r) = "kOk", RegistersPool(t, r, h)
      PROVE  SharedOK' /\ AllocCovered'
  <2>1. /\ h \notin DOMAIN hosts_ /\ UNCHANGED key_index_
        /\ DOMAIN hosts_' = DOMAIN hosts_ \cup {h} /\ hosts_'[h] = NewHost(r)
        /\ \A g \in DOMAIN hosts_ : hosts_'[g] = hosts_[g]
    BY <1>4 DEF RegistersPool
  <2>2. /\ Partitioned(NewHost(r)) /\ Accounted(NewHost(r))
        /\ NewHost(r).allocated_blocks = {}
    BY <1>4, NewHostPool
  <2>3. PoolPartition' /\ PoolCounts'
    BY <1>0, <2>1, <2>2 DEF SharedOK, PoolPartition, PoolCounts
  <2>4. IndexMatchesPools'
    BY <1>0, <2>1, <2>2 DEF SharedOK, IndexMatchesPools
  <2>5. \A u \in Threads \ {t} : ~InCriticalSection(u)
    BY <1>0, WriterAlone DEF WriteOps
  <2> QED BY <1>0, <1>2, <2>3, <2>4, <2>5, OthersCovered DEF SharedOK
<1> QED BY <1>0, <1>3, <1>4, RegisterEffect

(* An allocation of one key moves a block from the pool to the key.         *)
LEMMA AllocKeyPools ==
    ASSUME IInv, NEW t \in Threads, Frame(t), AllocKey(t)
    PROVE  SharedOK' /\ AllocCovered'
<1>0. /\ GInv /\ SharedOK /\ AllocCovered /\ StateTyped /\ StageOK(t)
      /\ Looping(t, "AllocBlocks") /\ pc[t] = "update" /\ request[t].op = "AllocBlocks"
  BY GuardOfInvariant DEF GInv, LocalOK, AllocKey, Looping, Reaches
<1>1. PICK H \in DOMAIN hosts_, m \in HostMemory, key \in Keys :
         /\ HasFront(m) /\ AllocatesKey(t, H, m, key)
         /\ cursor[t] \in 1..Len(request[t].keys)
  BY <1>0, FrontHeld, AllocKeyEffect
<1> DEFINE n     == Len(request[t].keys)
           c     == cursor[t]
           block == NextBlock(m)
<1>2. /\ H = Host(t) /\ m = hosts_[H] /\ key \notin DOMAIN key_index_
      /\ DOMAIN hosts_' = DOMAIN hosts_ /\ hosts_'[H] = AllocateOne(m)
      /\ \A g \in DOMAIN hosts_ \ {H} : hosts_'[g] = hosts_[g]
      /\ DOMAIN key_index_' = DOMAIN key_index_ \cup {key}
      /\ key_index_'[key] = [host_id |-> H, block_id |-> block]
      /\ \A k \in DOMAIN key_index_ : key_index_'[k] = key_index_[k]
  BY <1>1 DEF AllocatesKey
<1>3. Partitioned(m) /\ Accounted(m)
  BY <1>0, <1>2 DEF SharedOK, PoolPartition, PoolCounts
<1>4. n \in Nat /\ c \in 1..n
  BY <1>0, <1>1, BatchKeys DEF BatchOps
<1>5. n - c + 1 <= AvailableBlockCount(m) /\ AvailableBlockCount(m) \in Nat
  BY <1>0, <1>2, <1>3, PoolAvailable DEF AllocCovered, Covered, Reaches
<1>6. /\ block \in Nat /\ block \notin m.allocated_blocks
      /\ AllocateOne(m) \in HostMemory
      /\ AllocateOne(m).allocated_blocks = m.allocated_blocks \cup {block}
      /\ Partitioned(AllocateOne(m)) /\ Accounted(AllocateOne(m))
      /\ AvailableBlockCount(AllocateOne(m)) = AvailableBlockCount(m) - 1
  BY <1>3, <1>4, <1>5, AllocateOnePool
<1> HIDE DEF block
<1>7. SharedOK'
  <2>1. PoolPartition' /\ PoolCounts'
    BY <1>0, <1>2, <1>6 DEF SharedOK, PoolPartition, PoolCounts
  <2>2. ASSUME NEW k \in DOMAIN key_index_'
        PROVE  /\ key_index_'[k].host_id \in DOMAIN hosts_'
               /\ key_index_'[k].block_id \in hosts_'[key_index_'[k].host_id].allocated_blocks
    <3>1. CASE k = key
      BY <1>2, <1>6, <3>1
    <3>2. CASE k # key
      <4>1. /\ k \in DOMAIN key_index_ /\ key_index_'[k] = key_index_[k]
            /\ key_index_[k].host_id \in DOMAIN hosts_
            /\ key_index_[k].block_id \in hosts_[key_index_[k].host_id].allocated_blocks
        BY <1>0, <1>2, <2>2, <3>2 DEF SharedOK, IndexMatchesPools
      <4>2. CASE key_index_[k].host_id = H
        BY <1>2, <1>6, <4>1, <4>2
      <4>3. CASE key_index_[k].host_id # H
        BY <1>2, <4>1, <4>3
      <4> QED BY <4>2, <4>3
    <3> QED BY <3>1, <3>2
  <2>3. ASSUME NEW k \in DOMAIN key_index_
        PROVE  key_index_[k] # [host_id |-> H, block_id |-> block]
    <3>1. key_index_[k].block_id \in hosts_[key_index_[k].host_id].allocated_blocks
      BY <1>0, <2>3 DEF SharedOK, IndexMatchesPools
    <3> QED BY <1>2, <1>6, <3>1
  <2>4. ASSUME NEW k \in DOMAIN key_index_', NEW l \in DOMAIN key_index_',
               key_index_'[k] = key_index_'[l]
        PROVE  k = l
    <3>1. CASE k \in DOMAIN key_index_ /\ l \in DOMAIN key_index_
      BY <1>0, <1>2, <2>4, <3>1 DEF SharedOK, IndexMatchesPools
    <3>2. CASE k = key \/ l = key
      BY <1>2, <2>3, <2>4, <3>2
    <3> QED BY <1>2, <3>1, <3>2
  <2>5. ASSUME NEW g \in DOMAIN hosts_', NEW b \in hosts_'[g].allocated_blocks
        PROVE  \E k \in DOMAIN key_index_' :
                  key_index_'[k] = [host_id |-> g, block_id |-> b]
    <3>1. CASE g = H /\ b = block
      BY <1>2, <3>1
    <3>2. CASE ~(g = H /\ b = block)
      <4>1. g \in DOMAIN hosts_ /\ b \in hosts_[g].allocated_blocks
        BY <1>2, <1>6, <2>5, <3>2
      <4>2. PICK k \in DOMAIN key_index_ : key_index_[k] = [host_id |-> g, block_id |-> b]
        BY <1>0, <4>1 DEF SharedOK, IndexMatchesPools
      <4> QED BY <1>2, <4>2
    <3> QED BY <3>1, <3>2
  <2>6. IndexMatchesPools'
    BY <2>2, <2>4, <2>5 DEF IndexMatchesPools
  <2> QED BY <2>1, <2>6 DEF SharedOK
<1>8. Covered(t)'
  <2>1. request' = request /\ cursor'[t] = c + 1 /\ Host(t)' = H
    BY <1>0, <1>2 DEF AllocKey, StateTyped, Host
  <2>2. n - (c + 1) + 1 <= AvailableBlockCount(AllocateOne(m))
    BY <1>4, <1>5, <1>6
  <2>3. AvailableBlockCount(hosts_'[H]) = AvailableBlockCount(AllocateOne(m))
    BY <1>2
  <2> QED BY <2>1, <2>2, <2>3 DEF Covered
<1>9. \A u \in Threads \ {t} : ~InCriticalSection(u)
  BY <1>0, WriterAlone DEF WriteOps, BatchOps
<1> QED BY <1>0, <1>7, <1>8, <1>9, OthersCovered

(* A free of one key moves a block from the key to the pool.                *)
LEMMA FreeKeyPools ==
    ASSUME IInv, NEW t \in Threads, Frame(t), FreeKey(t)
    PROVE  SharedOK' /\ AllocCovered'
<1>0. /\ GInv /\ SharedOK /\ AllocCovered /\ StateTyped
      /\ Looping(t, "FreeBlocks") /\ pc[t] = "update" /\ request[t].op = "FreeBlocks"
  BY GuardOfInvariant DEF GInv, FreeKey, Looping, Reaches
<1>1. PICK H \in DOMAIN hosts_, m \in HostMemory, key \in DOMAIN key_index_, block \in Nat :
         FreesKey(t, H, m, key, block)
  BY <1>0, FreesItsKey
<1>2. /\ m = hosts_[H] /\ key_index_[key] = [host_id |-> H, block_id |-> block]
      /\ DOMAIN hosts_' = DOMAIN hosts_ /\ hosts_'[H] = FreeOne(m, block)
      /\ \A g \in DOMAIN hosts_ \ {H} : hosts_'[g] = hosts_[g]
      /\ DOMAIN key_index_' = DOMAIN key_index_ \ {key}
      /\ \A k \in DOMAIN key_index_ \ {key} : key_index_'[k] = key_index_[k]
  BY <1>0, <1>1, FreeKeyEffect DEF FreesKey, FreedKey
<1>3. Partitioned(m) /\ Accounted(m) /\ block \in m.allocated_blocks
  BY <1>0, <1>2 DEF SharedOK, PoolPartition, PoolCounts, IndexMatchesPools
<1>4. /\ FreeOne(m, block).allocated_blocks = m.allocated_blocks \ {block}
      /\ Partitioned(FreeOne(m, block)) /\ Accounted(FreeOne(m, block))
  BY <1>3, FreeOnePool
<1>5. SharedOK'
  <2>1. PoolPartition' /\ PoolCounts'
    BY <1>0, <1>2, <1>4 DEF SharedOK, PoolPartition, PoolCounts
  <2>2. ASSUME NEW k \in DOMAIN key_index_'
        PROVE  /\ key_index_'[k].host_id \in DOMAIN hosts_'
               /\ key_index_'[k].block_id \in hosts_'[key_index_'[k].host_id].allocated_blocks
    <3>1. /\ k \in DOMAIN key_index_ /\ k # key /\ key_index_'[k] = key_index_[k]
          /\ key_index_[k].host_id \in DOMAIN hosts_
          /\ key_index_[k].block_id \in hosts_[key_index_[k].host_id].allocated_blocks
          /\ key_index_[k] # key_index_[key]
      BY <1>0, <1>2, <2>2 DEF SharedOK, IndexMatchesPools
    <3>2. CASE key_index_[k].host_id = H
      <4>1. key_index_[k].block_id # block
        <5>1. key_index_[k] \in BlockLocation
          BY <1>0, <3>1 DEF StateTyped
        <5> QED BY <1>2, <3>1, <3>2, <5>1 DEF BlockLocation
      <4> QED BY <1>2, <1>4, <3>1, <3>2, <4>1
    <3>3. CASE key_index_[k].host_id # H
      BY <1>2, <3>1, <3>3
    <3> QED BY <3>2, <3>3
  <2>3. \A k, l \in DOMAIN key_index_' : key_index_'[k] = key_index_'[l] => k = l
    BY <1>0, <1>2 DEF SharedOK, IndexMatchesPools
  <2>4. ASSUME NEW g \in DOMAIN hosts_', NEW b \in hosts_'[g].allocated_blocks
        PROVE  \E k \in DOMAIN key_index_' :
                  key_index_'[k] = [host_id |-> g, block_id |-> b]
    <3>1. /\ g \in DOMAIN hosts_ /\ b \in hosts_[g].allocated_blocks
          /\ ~(g = H /\ b = block)
      BY <1>2, <1>4, <2>4
    <3>2. PICK k \in DOMAIN key_index_ : key_index_[k] = [host_id |-> g, block_id |-> b]
      BY <1>0, <3>1 DEF SharedOK, IndexMatchesPools
    <3>3. k # key
      BY <1>2, <3>1, <3>2
    <3> QED BY <1>2, <3>2, <3>3
  <2>5. IndexMatchesPools'
    BY <2>2, <2>3, <2>4 DEF IndexMatchesPools
  <2> QED BY <2>1, <2>5 DEF SharedOK
<1>6. Covered(t)'
  <2>1. request' = request
    BY DEF FreeKey
  <2> QED BY <1>0, <2>1 DEF Covered, Reaches
<1>7. \A u \in Threads \ {t} : ~InCriticalSection(u)
  BY <1>0, WriterAlone DEF WriteOps, BatchOps
<1> QED BY <1>0, <1>5, <1>6, <1>7, OthersCovered

(* A batch that passes the checks of AllocBlocks asks for no more blocks     *)
(* than the pool has left.                                                 *)
LEMMA AllocCheckCovers ==
    ASSUME IInv, NEW t \in Threads, AllocCheck(t)
    PROVE  Covered(t)'
<1>0. /\ StateTyped /\ StageOK(t) /\ SharedOK
      /\ pc[t] = "locked" /\ request[t].op = "AllocBlocks"
  BY GuardOfInvariant DEF GInv, LocalOK, AllocCheck, Reaches
<1>1. CASE AllocError(t) # "kOk"
  <2>1. pc'[t] = "unlock"
    BY <1>0, <1>1 DEF AllocCheck, Respond, Goto, StateTyped
  <2> QED BY <2>1 DEF Covered, Reaches
<1>2. CASE AllocError(t) = "kOk"
  <2>1. Start(t)
    BY <1>2 DEF AllocCheck
  <2>2. request'[t] = request[t] /\ cursor'[t] = 1 /\ hosts_' = hosts_
    BY <1>0, <2>1, StartedLocals DEF Start, dataVars
  <2>3. /\ Host(t) \in DOMAIN hosts_
        /\ ~(Len(RequestKeys(t)) > AvailableBlockCount(hosts_[Host(t)]))
    BY <1>2 DEF AllocError
  <2>4. Len(RequestKeys(t)) = Len(request[t].keys) /\ Len(request[t].keys) \in Nat \ {0}
    BY <1>0, BatchKeys DEF BatchOps
  <2>5. AvailableBlockCount(hosts_[Host(t)]) \in Nat
    BY <1>0, <2>3, PoolAvailable DEF SharedOK, PoolPartition, PoolCounts, StateTyped
  <2>6. Host(t)' = Host(t)
    BY <2>2 DEF Host
  <2> QED BY <2>2, <2>3, <2>4, <2>5, <2>6 DEF Covered
<1> QED BY <1>1, <1>2

(* No other step touches the pools or goes on with an allocation.           *)
LEMMA QuietSteps ==
    ASSUME GInv, NEW t \in Threads,
           \/ Call(t) \/ Validate(t) \/ AcquireExclusive(t) \/ AcquireShared(t)
           \/ AllocDone(t) \/ FreeCheck(t) \/ FreeDone(t) \/ Exist(t) \/ ScanKey(t)
           \/ ScanDone(t) \/ FindHost(t) \/ Count(t) \/ Unlock(t) \/ Return(t)
    PROVE  UNCHANGED <<hosts_, key_index_>> /\ Covered(t)'
<1>0. StateTyped
  BY DEF GInv
<1> USE DEF dataVars, Goto, Covered, Reaches
<1>1. CASE Call(t) \/ Validate(t) \/ AcquireExclusive(t) \/ AcquireShared(t)
  BY <1>0, <1>1 DEF Call, Validate, AcquireExclusive, AcquireShared, StateTyped
<1>2. CASE AllocDone(t) \/ FreeDone(t) \/ Exist(t) \/ ScanDone(t) \/ FindHost(t) \/ Count(t)
  BY <1>0, <1>2
     DEF AllocDone, FreeDone, Exist, ScanDone, FindHost, Count, Respond, StateTyped
<1>3. CASE FreeCheck(t)
  <2>1. request' = request /\ request[t].op = "FreeBlocks" /\ UNCHANGED <<hosts_, key_index_>>
    BY <1>3 DEF FreeCheck, Start, Respond
  <2> QED BY <2>1
<1>4. CASE ScanKey(t)
  <2>1. request' = request /\ request[t].op = "BatchExist" /\ UNCHANGED <<hosts_, key_index_>>
    BY <1>4 DEF ScanKey, Scanning
  <2> QED BY <2>1
<1>5. CASE Unlock(t) \/ Return(t)
  BY <1>0, <1>5 DEF Unlock, Return, StateTyped
<1> QED BY <1>1, <1>2, <1>3, <1>4, <1>5

(* Every step of a worker keeps pools and index in order.                   *)
LEMMA PoolStep ==
    ASSUME IInv, NEW t \in Threads, Call(t) \/ Handler(t)
    PROVE  SharedOK' /\ AllocCovered'
<1>1. GInv /\ Frame(t)
  BY GuardOfInvariant, FrameOfStep DEF GInv
<1>2. CASE AllocCheck(t)
  <2>1. UNCHANGED <<hosts_, key_index_>>
    BY <1>2 DEF AllocCheck, Start, dataVars
  <2> QED BY <1>1, <1>2, <2>1, AllocCheckCovers, PoolsUntouched
<1>3. CASE RegisterMemory(t) \/ AllocKey(t) \/ FreeKey(t)
  BY <1>1, <1>3, RegisterPools, AllocKeyPools, FreeKeyPools
<1>4. CASE ~(AllocCheck(t) \/ RegisterMemory(t) \/ AllocKey(t) \/ FreeKey(t))
  <2>1. UNCHANGED <<hosts_, key_index_>> /\ Covered(t)'
    BY <1>1, <1>4, QuietSteps DEF Handler
  <2> QED BY <1>1, <2>1, PoolsUntouched
<1> QED BY <1>2, <1>3, <1>4

-----------------------------------------------------------------------------
(* The theorems.  *)

(* Every step of every worker keeps the invariant.                         *)
LEMMA StepInvariant == IInv /\ [Next]_vars => IInv'
<1> SUFFICES ASSUME IInv, [Next]_vars PROVE IInv'
  OBVIOUS
<1>0. /\ GInv /\ SharedOK /\ AllocCovered
      /\ reply \in [Threads -> Reply \cup {NoReply}]
      /\ \A h \in DOMAIN hosts_ : IsFiniteSet(hosts_[h].allocated_blocks)
  BY GuardOfInvariant, InvariantParts
<1>1. CASE UNCHANGED vars
  <2>1. GInv'
    BY <1>0, <1>1, GuardUnchanged
  <2>2. SharedOK'
    BY <1>0, <1>1, SharedUnchanged DEF vars, dataVars
  <2>3. AllocCovered' /\ reply' = reply
    BY <1>0, <1>1
       DEF AllocCovered, Covered, Reaches, Host, vars, threadVars, localVars, dataVars
  <2> QED BY <1>0, <2>1, <2>2, <2>3, InvariantOfParts
<1>2. ASSUME NEW t \in Threads, Call(t) \/ Handler(t) PROVE IInv'
  <2>1. GInv'
    <3>1. AllocKey(t) => HasFront(hosts_[Host(t)])
      BY FrontHeld DEF AllocKey
    <3> QED BY <1>0, <1>2, <3>1, GuardStep
  <2>2. reply' \in [Threads -> Reply \cup {NoReply}]
    <3>1. \/ UNCHANGED reply
          \/ \E r \in Reply \cup {NoReply} : reply' = [reply EXCEPT ![t] = r]
      BY <1>0, <1>2, ReplyStep
    <3> QED BY <1>0, <3>1
  <2> QED BY <1>2, <2>1, <2>2, PoolStep, InvariantOfParts
<1> QED BY <1>1, <1>2 DEF Next

(* The inductive invariant holds in every reachable state, for any number  *)
(* of workers, any hosts, keys and requests.                               *)
THEOREM Invariance == Spec => []IInv
BY InitInvariant, StepInvariant, PTL DEF Spec

(* Every variable keeps the type the code gives it.                        *)
THEOREM TypeCorrect == Spec => []TypeOK
BY Invariance, PTL DEF IInv

(* The shared mutex is never held by a writer and anybody else, and every  *)
(* handler that touches the state holds it.                                *)
THEOREM LockSafe == Spec => []LockDiscipline
BY Invariance, PTL DEF IInv

(* No block id is lost or in two places of a pool.                         *)
THEOREM PoolsSafe == Spec => []PoolPartition
BY Invariance, PTL DEF IInv

(* Keys and allocated blocks correspond one to one.                        *)
THEOREM IndexSafe == Spec => []IndexMatchesPools
BY Invariance, PTL DEF IInv

(* What a handler read under the lock holds until it releases the lock.    *)
THEOREM ChecksSafe == Spec => []ChecksStillHold
BY Invariance, PTL DEF IInv

(* recycled_blocks.front() is never called on an empty queue.              *)
THEOREM FrontSafe == Spec => []FrontOfNonEmpty
<1>1. IInv => FrontOfNonEmpty
  BY FrontHeld DEF FrontOfNonEmpty, HasFront
<1> QED BY <1>1, Invariance, PTL
=============================================================================
