------------------------ MODULE MasterDirectoryProofs ------------------------
(***************************************************************************)
(* The Master implements the atomic directory of KeyDirectory, for every    *)
(* set of threads, hosts and keys, every word size and every set of         *)
(* requests, and its count of free blocks is exact.                        *)
(*                                                                         *)
(* RInv adds to the invariant of MasterServiceProofs what a handler has     *)
(* done so far: which keys its loop has inserted or erased and which ids it *)
(* has taken or returned.  With it, every step of a handler either leaves    *)
(* the directory that AbstractQueue and AbstractDirectory describe as it is  *)
(* or is one of the directory's own.                                       *)
(***************************************************************************)
EXTENDS MasterServiceProofs, SumTheorems

-----------------------------------------------------------------------------
(* The protocol is the same on both sides.                                 *)

(* The replies of both sides are built alike.                             *)
LEMMA SameReplies ==
    /\ \A c : Directory!Refusal(c) = Refusal(c)
    /\ \A n : Directory!Registered(n) = Registered(n)
    /\ \A s : Directory!Allocated(s) = Allocated(s)
    /\ \A n : Directory!Freed(n) = Freed(n)
    /\ \A l : Directory!Found(l) = Found(l)
    /\ \A h, s : Directory!BestMatch(h, s) = BestMatch(h, s)
    /\ \A r : Directory!FoundHost(r) = FoundHost(r)
    /\ \A n : Directory!Counted(n) = Counted(n)
BY DEF Refusal, Registered, Allocated, Freed, Found, BestMatch, FoundHost, Counted,
       Directory!Refusal, Directory!Registered, Directory!Allocated,
       Directory!Freed, Directory!Found, Directory!BestMatch,
       Directory!FoundHost, Directory!Counted

(* Both sides sort the requests into the same kinds.                      *)
LEMMA SameOperations ==
    /\ Directory!BatchOps = BatchOps
    /\ Directory!WriteOps = WriteOps
    /\ Directory!Word = Word
BY DEF BatchOps, WriteOps, Word, Directory!BatchOps, Directory!WriteOps, Directory!Word

(* Both sides read a spelling of a key alike.                             *)
LEMMA SameKeys ==
    /\ \A key : Directory!CanonicalKey(key) = CanonicalKey(key)
    /\ \A keys : Directory!Canonical(keys) = Canonical(keys)
    /\ \A key : Directory!IsSha256Key(key) <=> IsSha256Key(key)
BY DEF Canonical, CanonicalKey, IsSha256Key,
       Directory!Canonical, Directory!CanonicalKey, Directory!IsSha256Key

(* Both sides count, compare and divide alike.                            *)
LEMMA SameArithmetic ==
    /\ \A S : Directory!Cardinality(S) = Cardinality(S)
    /\ \A S : Directory!Max(S) = Max(S)
    /\ \A r : Directory!Blocks(r) = Total(r)
BY DEF Cardinality, Max, Total, Directory!Cardinality, Directory!Max, Directory!Blocks

(* Both sides add up alike.                                               *)
LEMMA SameSum == \A f : Directory!SumFunction(f) = SumFunction(f)
BY DEF SumFunction, SumFunctionOnSet, FoldFunctionOnSet, MapThenFoldSet,
       Directory!SumFunction, Directory!SumFunctionOnSet,
       Directory!FoldFunctionOnSet, Directory!MapThenFoldSet

-----------------------------------------------------------------------------
(* Validation: a request passes exactly when nothing may refuse it.        *)

(* The registrations that validation lets pass are those the README allows. *)
LEMMA RegistrationValid ==
    ASSUME NEW r \in MemoryRegistration
    PROVE  Directory!ValidRegistration(r) <=> ValidateRegistration(r) = "kOk"
<1> DEFINE a == r.start_address
           n == r.total_size
           d == r.block_size
<1>1. a \in Nat /\ n \in Nat /\ d \in Nat /\ MaxWord \in Nat
  BY WordAssumption DEF MemoryRegistration, Word
<1>2. ValidateRegistration(r) = "kOk" <=>
         /\ n # 0 /\ d # 0 /\ n % d = 0 /\ a % d = 0 /\ ~(a > MaxWord - n)
  BY DEF ValidateRegistration
<1>3. Directory!ValidRegistration(r) <=>
         /\ n > 0 /\ d > 0
         /\ \E k \in 0..n : n = k * d
         /\ \E k \in 0..a : a = k * d
         /\ a + n \in Word
  BY SameOperations DEF Directory!ValidRegistration, Directory!Multiple
<1> HIDE DEF a, n, d
<1>4. n > 0 <=> n # 0
  BY <1>1
<1>5. d > 0 <=> d # 0
  BY <1>1
<1>6. d # 0 => (n % d = 0 <=> \E k \in 0..n : n = k * d)
  BY <1>1, RestZero
<1>7. d # 0 => (a % d = 0 <=> \E k \in 0..a : a = k * d)
  BY <1>1, RestZero
<1>8. a + n \in Word <=> ~(a > MaxWord - n)
  BY <1>1 DEF Word
<1> QED BY <1>2, <1>3, <1>4, <1>5, <1>6, <1>7, <1>8

(* The lists that validation lets pass are those nothing is wrong with, and *)
(* the error it reports for another is one the list has.                  *)
LEMMA KeysRefused ==
    ASSUME NEW keys \in Seq(RawKeys)
    PROVE  /\ ValidateKeys(keys) = "kOk" => Directory!RefusalsOfKeys(keys) = {}
           /\ ValidateKeys(keys) # "kOk" =>
                 ValidateKeys(keys) \in Directory!RefusalsOfKeys(keys)
<1> DEFINE offending == {i \in DOMAIN keys : Malformed(keys, i) \/ Repeated(keys, i)}
           twice == \E i, j \in DOMAIN keys :
                       i # j /\ CanonicalKey(keys[i]) = CanonicalKey(keys[j])
           malformed == \E i \in DOMAIN keys : ~IsSha256Key(keys[i])
<1>1. \A code : code \in Directory!RefusalsOfKeys(keys) <=>
         \/ code = "kInvalidKey" /\ malformed
         \/ code = "kInvalidArgument" /\ (keys = << >> \/ twice)
  BY SameKeys DEF Directory!RefusalsOfKeys
<1>2. DOMAIN keys = 1..Len(keys) /\ Len(keys) \in Nat
  OBVIOUS
<1>3. CASE keys = << >>
  BY <1>1, <1>3 DEF ValidateKeys
<1>4. CASE keys # << >> /\ offending = {}
  <2>1. ValidateKeys(keys) = "kOk"
    BY <1>4 DEF ValidateKeys
  <2>2. ~malformed
    BY <1>4 DEF Malformed
  <2>3. ~twice
    <3> SUFFICES ASSUME NEW i \in 1..Len(keys), NEW j \in 1..Len(keys), i < j
                 PROVE  CanonicalKey(keys[i]) # CanonicalKey(keys[j])
      BY <1>2
    <3>1. ~Repeated(keys, j) /\ i \in 1..(j - 1)
      BY <1>2, <1>4
    <3> QED BY <3>1 DEF Repeated
  <2> QED BY <1>1, <1>4, <2>1, <2>2, <2>3
<1>5. CASE keys # << >> /\ offending # {}
  <2> DEFINE m == Min(offending)
  <2>1. m \in offending
    <3>1. offending \in SUBSET Nat /\ offending # {}
      BY <1>2, <1>5
    <3> HIDE DEF offending
    <3>2. \E x \in offending : \A y \in offending : x <= y
      BY <3>1, LeastNatural
    <3> QED BY <3>2 DEF Min
  <2>2. CASE Malformed(keys, m)
    <3>1. ValidateKeys(keys) = "kInvalidKey"
      BY <1>5, <2>2 DEF ValidateKeys
    <3>2. malformed
      BY <2>1, <2>2 DEF Malformed
    <3> QED BY <1>1, <3>1, <3>2
  <2>3. CASE ~Malformed(keys, m)
    <3>1. ValidateKeys(keys) = "kInvalidArgument"
      BY <1>5, <2>3 DEF ValidateKeys
    <3>2. twice
      <4> HIDE DEF m
      <4>1. m \in 1..Len(keys) /\ Repeated(keys, m)
        BY <1>2, <2>1, <2>3
      <4>2. PICK j \in 1..(m - 1) : CanonicalKey(keys[j]) = CanonicalKey(keys[m])
        BY <4>1 DEF Repeated
      <4>3. j \in 1..Len(keys) /\ j # m
        BY <1>2, <4>1, <4>2
      <4> QED BY <1>2, <4>1, <4>2, <4>3
    <3> QED BY <1>1, <3>1, <3>2
  <2> QED BY <2>2, <2>3
<1> QED BY <1>3, <1>4, <1>5

(* The same for every request.                                            *)
LEMMA RequestRefused ==
    ASSUME NEW r \in Request
    PROVE  /\ ValidateRequest(r) = "kOk" => Directory!RefusalsOf(r) = {}
           /\ ValidateRequest(r) # "kOk" => ValidateRequest(r) \in Directory!RefusalsOf(r)
<1>1. CASE r.op = "RegisterMemory"
  <2>1. r.registration \in MemoryRegistration
    BY <1>1, RequestFields
  <2>2. ValidateRequest(r) = ValidateRegistration(r.registration)
    BY <1>1 DEF ValidateRequest, BatchOps
  <2>3. Directory!RefusalsOf(r) =
           IF Directory!ValidRegistration(r.registration) THEN {} ELSE {"kInvalidArgument"}
    BY <1>1, SameOperations DEF Directory!RefusalsOf, BatchOps
  <2>4. ValidateRegistration(r.registration) \in {"kOk", "kInvalidArgument"}
    BY DEF ValidateRegistration
  <2> QED BY <2>1, <2>2, <2>3, <2>4, RegistrationValid
<1>2. CASE r.op \in BatchOps \cup {"BatchExist"}
  <2>1. r.keys \in Seq(RawKeys)
    BY <1>2, RequestFields
  <2>2. ValidateRequest(r) = ValidateKeys(r.keys)
    BY <1>2 DEF ValidateRequest, BatchOps
  <2>3. Directory!RefusalsOf(r) = Directory!RefusalsOfKeys(r.keys)
    BY <1>2, SameOperations DEF Directory!RefusalsOf, BatchOps
  <2> QED BY <2>1, <2>2, <2>3, KeysRefused
<1>3. CASE r.op = "Exist"
  <2>1. ValidateRequest(r) = IF IsSha256Key(r.key) THEN "kOk" ELSE "kInvalidKey"
    BY <1>3 DEF ValidateRequest, BatchOps
  <2>2. Directory!RefusalsOf(r) = IF IsSha256Key(r.key) THEN {} ELSE {"kInvalidKey"}
    BY <1>3, SameOperations, SameKeys DEF Directory!RefusalsOf, BatchOps
  <2> QED BY <2>1, <2>2
<1>4. CASE r.op \notin {"RegisterMemory", "Exist", "BatchExist"} \cup BatchOps
  <2>1. ValidateRequest(r) = "kOk"
    BY <1>4 DEF ValidateRequest
  <2>2. Directory!RefusalsOf(r) = {}
    BY <1>4, SameOperations DEF Directory!RefusalsOf
  <2> QED BY <2>1, <2>2
<1> QED BY <1>1, <1>2, <1>3, <1>4

-----------------------------------------------------------------------------
(* The free ids of a pool.  *)

(* The elements of two sequences, one after the other.                     *)
LEMMA Joined ==
    ASSUME NEW s \in Seq(Nat), NEW r \in Seq(Nat)
    PROVE  /\ s \o r \in Seq(Nat) /\ Len(s \o r) = Len(s) + Len(r)
           /\ \A i \in 1..Len(s) : (s \o r)[i] = s[i]
           /\ \A i \in 1..Len(r) : (s \o r)[Len(s) + i] = r[i]
<1>1. Len(s) \in Nat /\ Len(r) \in Nat
  OBVIOUS
<1>2. /\ s \o r \in Seq(Nat) /\ Len(s \o r) = Len(s) + Len(r)
      /\ \A i \in 1..(Len(s) + Len(r)) :
            (s \o r)[i] = IF i <= Len(s) THEN s[i] ELSE r[i - Len(s)]
  BY ConcatProperties
<1>3. ASSUME NEW i \in 1..Len(r) PROVE (s \o r)[Len(s) + i] = r[i]
  <2>1. /\ Len(s) + i \in 1..(Len(s) + Len(r)) /\ ~(Len(s) + i <= Len(s))
        /\ (Len(s) + i) - Len(s) = i
    BY <1>1
  <2> QED BY <1>2, <2>1
<1>4. \A i \in 1..Len(s) : i \in 1..(Len(s) + Len(r)) /\ i <= Len(s)
  BY <1>1
<1> QED BY <1>2, <1>3, <1>4

FreshLeft(m) == m.total_blocks - m.next_fresh_block

(* Those taken come first, then those never handed out, then the recycled.  *)
LEMMA FreeIdsElements ==
    ASSUME NEW m \in HostMemory, Partitioned(m), NEW taken \in Seq(Nat),
           NEW k \in 0..Len(m.recycled_blocks)
    PROVE  /\ FreshLeft(m) \in Nat /\ Len(taken) \in Nat /\ Len(m.recycled_blocks) \in Nat
           /\ FreeIds(m, taken, k) \in Seq(Nat)
           /\ Len(FreeIds(m, taken, k)) =
                 Len(taken) + FreshLeft(m) + (Len(m.recycled_blocks) - k)
           /\ \A i \in 1..Len(taken) : FreeIds(m, taken, k)[i] = taken[i]
           /\ \A i \in 1..FreshLeft(m) :
                 FreeIds(m, taken, k)[Len(taken) + i] = m.next_fresh_block + i - 1
           /\ \A i \in 1..(Len(m.recycled_blocks) - k) :
                 FreeIds(m, taken, k)[Len(taken) + FreshLeft(m) + i] = m.recycled_blocks[i]
<1> DEFINE f == FreshLeft(m)
           n == Len(taken)
           q == m.recycled_blocks
           fresh == [i \in 1..f |-> m.next_fresh_block + i - 1]
           old == SubSeq(q, 1, Len(q) - k)
<1>1. /\ f \in Nat /\ n \in Nat /\ Len(q) \in Nat /\ m.next_fresh_block \in Nat
      /\ q \in Seq(Nat) /\ k \in Nat /\ k <= Len(q)
  BY DEF HostMemory, Partitioned, FreshLeft
<1>2. /\ fresh \in Seq(Nat) /\ Len(fresh) = f
      /\ \A i \in 1..f : fresh[i] = m.next_fresh_block + i - 1
  <2>1. \A i \in 1..f : m.next_fresh_block + i - 1 \in Nat
    BY <1>1
  <2>2. fresh \in [1..f -> Nat]
    BY <2>1
  <2>3. f \in Nat
    BY <1>1
  <2> HIDE DEF f
  <2> QED BY <2>2, <2>3
<1>3. /\ old \in Seq(Nat) /\ Len(old) = Len(q) - k
      /\ \A i \in 1..(Len(q) - k) : old[i] = q[i]
  <2>1. Len(q) - k \in Nat /\ Len(q) - k <= Len(q)
    BY <1>1
  <2> QED BY <1>1, <2>1, SMTT(30)
<1>4. FreeIds(m, taken, k) = taken \o fresh \o old
  BY DEF FreeIds, FreshLeft
<1> HIDE DEF fresh, old, q, f
<1>5. /\ taken \o fresh \in Seq(Nat) /\ Len(taken \o fresh) = n + f
      /\ \A i \in 1..n : (taken \o fresh)[i] = taken[i]
      /\ \A i \in 1..f : (taken \o fresh)[n + i] = fresh[i]
  BY <1>2, Joined
<1> DEFINE front == taken \o fresh
<1> HIDE DEF front
<1>6. /\ front \in Seq(Nat) /\ Len(front) = n + f
      /\ \A i \in 1..n : front[i] = taken[i]
      /\ \A i \in 1..f : front[n + i] = fresh[i]
  BY <1>5 DEF front
<1>a. /\ front \o old \in Seq(Nat) /\ Len(front \o old) = Len(front) + Len(old)
      /\ \A i \in 1..Len(front) : (front \o old)[i] = front[i]
      /\ \A i \in 1..Len(old) : (front \o old)[Len(front) + i] = old[i]
  BY <1>3, <1>6, Joined
<1>7. /\ front \o old \in Seq(Nat) /\ Len(front \o old) = n + f + (Len(q) - k)
      /\ \A i \in 1..(n + f) : (front \o old)[i] = front[i]
      /\ \A i \in 1..(Len(q) - k) : (front \o old)[n + f + i] = old[i]
  BY ONLY <1>3, <1>6, <1>a
<1>8. (\A i \in 1..n : i \in 1..(n + f)) /\ (\A i \in 1..f : n + i \in 1..(n + f))
  BY <1>1
<1>9. FreeIds(m, taken, k) = front \o old
  BY <1>4 DEF front
<1> QED BY <1>1, <1>2, <1>3, <1>6, <1>7, <1>8, <1>9 DEF q, f

(* The same with nothing left out.                                        *)
LEMMA WholeQueue ==
    ASSUME NEW m \in HostMemory, Partitioned(m), NEW taken \in Seq(Nat)
    PROVE  /\ FreshLeft(m) \in Nat /\ Len(taken) \in Nat /\ Len(m.recycled_blocks) \in Nat
           /\ FreeIds(m, taken, 0) \in Seq(Nat)
           /\ Len(FreeIds(m, taken, 0)) =
                 Len(taken) + FreshLeft(m) + Len(m.recycled_blocks)
           /\ \A i \in 1..Len(taken) : FreeIds(m, taken, 0)[i] = taken[i]
           /\ \A i \in 1..FreshLeft(m) :
                 FreeIds(m, taken, 0)[Len(taken) + i] = m.next_fresh_block + i - 1
           /\ \A i \in 1..Len(m.recycled_blocks) :
                 FreeIds(m, taken, 0)[Len(taken) + FreshLeft(m) + i] = m.recycled_blocks[i]
<1>1. Len(m.recycled_blocks) \in Nat
  BY DEF HostMemory
<1>2. 0 \in 0..Len(m.recycled_blocks) /\ Len(m.recycled_blocks) - 0 = Len(m.recycled_blocks)
  BY <1>1
<1> DEFINE k == 0
<1> HIDE DEF k
<1>3. k \in 0..Len(m.recycled_blocks) /\ Len(m.recycled_blocks) - k = Len(m.recycled_blocks)
  BY <1>2 DEF k
<1>4. /\ FreshLeft(m) \in Nat /\ Len(taken) \in Nat
      /\ FreeIds(m, taken, k) \in Seq(Nat)
      /\ Len(FreeIds(m, taken, k)) =
            Len(taken) + FreshLeft(m) + (Len(m.recycled_blocks) - k)
      /\ \A i \in 1..Len(taken) : FreeIds(m, taken, k)[i] = taken[i]
      /\ \A i \in 1..FreshLeft(m) :
            FreeIds(m, taken, k)[Len(taken) + i] = m.next_fresh_block + i - 1
      /\ \A i \in 1..(Len(m.recycled_blocks) - k) :
            FreeIds(m, taken, k)[Len(taken) + FreshLeft(m) + i] = m.recycled_blocks[i]
  BY <1>3, FreeIdsElements
<1> QED BY <1>1, <1>3, <1>4 DEF k

(* What is known of a pool whose blocks are being taken or returned.       *)
GoodPool(m) == m \in HostMemory /\ Partitioned(m) /\ Accounted(m)

(* Two sequences of ids that agree at every place are equal.               *)
LEMMA SameIds ==
    ASSUME NEW s \in Seq(Nat), NEW r \in Seq(Nat), Len(s) = Len(r),
           \A i \in 1..Len(s) : s[i] = r[i]
    PROVE  s = r
OBVIOUS

(* AllocateOne takes the first of the ids that are left.                    *)
LEMMA TakeOne ==
    ASSUME NEW m, GoodPool(m), AvailableBlockCount(m) > 0, NEW taken \in Seq(Nat)
    PROVE  FreeIds(AllocateOne(m), Append(taken, NextBlock(m)), 0) = FreeIds(m, taken, 0)
<1> DEFINE a == AllocateOne(m)
           b == NextBlock(m)
           t == Append(taken, b)
           q == m.recycled_blocks
           f == FreshLeft(m)
           n == Len(taken)
           s == FreeIds(m, taken, 0)
           r == FreeIds(a, t, 0)
<1>1. /\ m \in HostMemory /\ Partitioned(m) /\ b \in Nat
      /\ a \in HostMemory /\ Partitioned(a)
  BY AllocateOnePool DEF GoodPool
<1>2. /\ m.total_blocks \in Nat /\ m.next_fresh_block \in Nat /\ q \in Seq(Nat)
      /\ Len(q) \in Nat /\ n \in Nat /\ f \in Nat
  BY <1>1 DEF HostMemory, Partitioned, FreshLeft
<1>3. /\ t \in Seq(Nat) /\ Len(t) = n + 1 /\ t[n + 1] = b
      /\ \A i \in 1..n : t[i] = taken[i]
  BY <1>1, <1>2
<1>4. /\ s \in Seq(Nat) /\ Len(s) = n + f + Len(q)
      /\ \A i \in 1..n : s[i] = taken[i]
      /\ \A i \in 1..f : s[n + i] = m.next_fresh_block + i - 1
      /\ \A i \in 1..Len(q) : s[n + f + i] = q[i]
  BY <1>1, WholeQueue
<1>5. CASE IsFresh(m)
  <2>1. /\ a.next_fresh_block = m.next_fresh_block + 1 /\ a.recycled_blocks = q
        /\ a.total_blocks = m.total_blocks /\ b = m.next_fresh_block
    BY <1>1, <1>5 DEF AllocateOne, NextBlock, HostMemory
  <2>2. f >= 1 /\ FreshLeft(a) = f - 1
    BY <1>2, <1>5, <2>1 DEF IsFresh, FreshLeft
  <2>4. /\ r \in Seq(Nat) /\ Len(r) = (n + 1) + (f - 1) + Len(q)
        /\ \A i \in 1..(n + 1) : r[i] = t[i]
        /\ \A i \in 1..(f - 1) : r[(n + 1) + i] = (m.next_fresh_block + 1) + i - 1
        /\ \A i \in 1..Len(q) : r[(n + 1) + (f - 1) + i] = q[i]
    <3> HIDE DEF a, t, f, n
    <3>1. /\ r \in Seq(Nat) /\ Len(r) = Len(t) + FreshLeft(a) + Len(a.recycled_blocks)
          /\ \A i \in 1..Len(t) : r[i] = t[i]
          /\ \A i \in 1..FreshLeft(a) : r[Len(t) + i] = a.next_fresh_block + i - 1
          /\ \A i \in 1..Len(a.recycled_blocks) :
                r[Len(t) + FreshLeft(a) + i] = a.recycled_blocks[i]
      BY <1>1, <1>3, WholeQueue
    <3> QED BY <1>3, <2>1, <2>2, <3>1
  <2> HIDE DEF a, b, t, q, f, n, s, r
  <2>5. Len(r) = Len(s)
    BY <1>2, <1>4, <2>4
  <2>6. ASSUME NEW i \in 1..Len(s) PROVE s[i] = r[i]
    <3>1. CASE i \in 1..n
      <4>1. i \in 1..(n + 1)
        BY <1>2, <3>1
      <4> QED BY <1>3, <1>4, <2>4, <3>1, <4>1
    <3>2. CASE i = n + 1
      <4>1. s[n + 1] = m.next_fresh_block + 1 - 1
        BY <1>2, <1>4, <2>2
      <4> QED BY <1>2, <1>3, <2>1, <2>4, <3>2, <4>1
    <3>3. CASE i \in (n + 2)..(n + f)
      <4> DEFINE j == i - n
      <4>1. j \in 1..f /\ j - 1 \in 1..(f - 1) /\ i = n + j /\ i = (n + 1) + (j - 1) /\ j \in Int
        BY <1>2, <3>3
      <4> HIDE DEF j
      <4>2. s[i] = m.next_fresh_block + j - 1
        BY <1>4, <4>1
      <4>3. r[i] = (m.next_fresh_block + 1) + (j - 1) - 1
        BY <2>4, <4>1
      <4>4. (m.next_fresh_block + 1) + (j - 1) - 1 = m.next_fresh_block + j - 1
        <5>1. m.next_fresh_block \in Nat /\ j \in Int
          BY <1>2, <4>1
        <5> QED BY <5>1
      <4> QED BY <4>2, <4>3, <4>4
    <3>4. CASE i \in (n + f + 1)..(n + f + Len(q))
      <4> DEFINE j == i - (n + f)
      <4>1. j \in 1..Len(q) /\ i = n + f + j /\ i = (n + 1) + (f - 1) + j
        BY <1>2, <3>4
      <4> HIDE DEF j
      <4> QED BY <1>4, <2>4, <4>1
    <3> QED BY <1>2, <1>4, <2>6, <3>1, <3>2, <3>3, <3>4
  <2>7. r = s
    BY <1>4, <2>4, <2>5, <2>6, SameIds
  <2> QED BY <2>7 DEF r, s, a, t, b
<1>6. CASE ~IsFresh(m)
  <2>1. Len(q) >= 1 /\ f = 0
    <3>1. f = 0
      BY <1>1, <1>2, <1>6 DEF IsFresh, Partitioned, FreshLeft
    <3>2. AvailableBlockCount(m) = f + Len(q)
      BY PoolAvailable DEF GoodPool, FreshLeft
    <3>3. AvailableBlockCount(m) > 0
      OBVIOUS
    <3> HIDE DEF f, q
    <3> QED BY <1>2, <3>1, <3>2, <3>3
  <2>2. /\ a.next_fresh_block = m.next_fresh_block /\ a.recycled_blocks = Tail(q)
        /\ a.total_blocks = m.total_blocks /\ b = Head(q)
    BY <1>1, <1>6 DEF AllocateOne, NextBlock, HostMemory
  <2>3. /\ Len(Tail(q)) = Len(q) - 1 /\ b = q[1]
        /\ \A i \in 1..(Len(q) - 1) : Tail(q)[i] = q[i + 1]
    BY <1>2, <2>1, <2>2
  <2>4. FreshLeft(a) = 0
    BY <1>2, <2>1, <2>2 DEF FreshLeft
  <2>6. /\ r \in Seq(Nat) /\ Len(r) = (n + 1) + 0 + (Len(q) - 1)
        /\ \A i \in 1..(n + 1) : r[i] = t[i]
        /\ \A i \in 1..(Len(q) - 1) : r[(n + 1) + 0 + i] = Tail(q)[i]
    <3> HIDE DEF a, t, f, n
    <3>1. /\ r \in Seq(Nat) /\ Len(r) = Len(t) + FreshLeft(a) + Len(a.recycled_blocks)
          /\ \A i \in 1..Len(t) : r[i] = t[i]
          /\ \A i \in 1..Len(a.recycled_blocks) :
                r[Len(t) + FreshLeft(a) + i] = a.recycled_blocks[i]
      BY <1>1, <1>3, WholeQueue
    <3> QED BY <1>3, <2>2, <2>3, <2>4, <3>1
  <2> HIDE DEF a, b, t, q, f, n, s, r
  <2>7. Len(r) = Len(s)
    BY <1>2, <1>4, <2>1, <2>6
  <2>8. ASSUME NEW i \in 1..Len(s) PROVE s[i] = r[i]
    <3>1. CASE i \in 1..n
      <4>1. i \in 1..(n + 1)
        BY <1>2, <3>1
      <4>2. r[i] = t[i] /\ t[i] = taken[i]
        BY <1>3, <2>6, <3>1, <4>1
      <4>3. s[i] = taken[i]
        BY <1>4, <3>1
      <4> QED BY <4>2, <4>3
    <3>2. CASE i = n + 1
      <4>1. s[n + 0 + 1] = q[1]
        BY <1>2, <1>4, <2>1
      <4> QED BY <1>2, <1>3, <2>3, <2>6, <3>2, <4>1
    <3>3. CASE i \in (n + 2)..(n + Len(q))
      <4> DEFINE j == i - n
      <4>1. /\ j \in 1..Len(q) /\ j - 1 \in 1..(Len(q) - 1) /\ j = (j - 1) + 1
            /\ i = n + f + j /\ i = (n + 1) + 0 + (j - 1)
        BY <1>2, <2>1, <3>3
      <4> HIDE DEF j
      <4>2. s[i] = q[j]
        BY <1>4, <4>1
      <4>3. r[i] = q[j]
        BY <2>3, <2>6, <4>1
      <4> QED BY <4>2, <4>3
    <3> QED BY <1>2, <1>4, <2>1, <2>8, <3>1, <3>2, <3>3
  <2>9. r = s
    BY <1>4, <2>6, <2>7, <2>8, SameIds
  <2> QED BY <2>9 DEF r, s, a, t, b
<1> QED BY <1>5, <1>6

(* FreeOne returns an id behind those that were returned before.           *)
LEMMA ReturnOne ==
    ASSUME NEW m, GoodPool(m), NEW b \in m.allocated_blocks,
           NEW n \in 0..Len(m.recycled_blocks)
    PROVE  /\ FreeIds(FreeOne(m, b), << >>, n + 1) = FreeIds(m, << >>, n)
           /\ Len(FreeOne(m, b).recycled_blocks) = Len(m.recycled_blocks) + 1
           /\ LastRecycled(FreeOne(m, b), n + 1, n + 1) = b
           /\ \A i \in 1..n : LastRecycled(FreeOne(m, b), n + 1, i) = LastRecycled(m, n, i)
<1> DEFINE q == m.recycled_blocks
           a == FreeOne(m, b)
<1>1. q \in Seq(Nat) /\ Len(q) \in Nat /\ b \in Nat /\ n \in Nat /\ n <= Len(q)
  BY DEF GoodPool, HostMemory
<1>2. /\ a.total_blocks = m.total_blocks /\ a.next_fresh_block = m.next_fresh_block
      /\ a.recycled_blocks = Append(q, b)
  BY DEF GoodPool, HostMemory, FreeOne
<1>3. /\ Append(q, b) \in Seq(Nat) /\ Len(Append(q, b)) = Len(q) + 1
      /\ \A i \in 1..Len(q) : Append(q, b)[i] = q[i]
      /\ Append(q, b)[Len(q) + 1] = b
  BY <1>1
<1> HIDE DEF q, a
<1>4. (Len(q) + 1) - (n + 1) = Len(q) - n /\ Len(q) - n \in Nat
  BY <1>1
<1>5. SubSeq(Append(q, b), 1, Len(q) - n) = SubSeq(q, 1, Len(q) - n)
  <2>1. \A i \in 1..(Len(q) - n) : i \in 1..Len(q)
    BY <1>1
  <2>2. SubSeq(q, 1, Len(q) - n) = [i \in 1..(Len(q) - n) |-> q[i]]
    BY <1>1, <1>4
  <2>3. SubSeq(Append(q, b), 1, Len(q) - n) = [i \in 1..(Len(q) - n) |-> Append(q, b)[i]]
    BY <1>1, <1>3, <1>4
  <2> QED BY <1>3, <2>1, <2>2, <2>3
<1>6. FreeIds(a, << >>, n + 1) = FreeIds(m, << >>, n)
  BY <1>2, <1>3, <1>4, <1>5 DEF FreeIds, q
<1>7. LastRecycled(a, n + 1, n + 1) = b
  <2>1. (Len(q) + 1) - (n + 1) + (n + 1) = Len(q) + 1
    BY <1>1
  <2> QED BY <1>2, <1>3, <2>1 DEF LastRecycled
<1>8. ASSUME NEW i \in 1..n PROVE LastRecycled(a, n + 1, i) = LastRecycled(m, n, i)
  <2>1. (Len(q) + 1) - (n + 1) + i = Len(q) - n + i /\ Len(q) - n + i \in 1..Len(q)
    BY <1>1
  <2> QED BY <1>2, <1>3, <2>1 DEF LastRecycled, q
<1>9. Len(a.recycled_blocks) = Len(q) + 1
  BY <1>2, <1>3
<1> QED BY <1>6, <1>7, <1>8, <1>9 DEF a, q

(* Without the ids taken, those that are left.                             *)
LEMMA TakenAll ==
    ASSUME NEW m, GoodPool(m), NEW taken \in Seq(Nat)
    PROVE  SubSeq(FreeIds(m, taken, 0), Len(taken) + 1, Len(FreeIds(m, taken, 0))) =
              FreeIds(m, << >>, 0)
<1> DEFINE s == FreeIds(m, taken, 0)
           r == FreeIds(m, << >>, 0)
           n == Len(taken)
           f == FreshLeft(m)
           q == m.recycled_blocks
           l == f + Len(q)
           u == SubSeq(s, n + 1, n + l)
<1>1. /\ f \in Nat /\ n \in Nat /\ Len(q) \in Nat /\ m.next_fresh_block \in Nat
      /\ s \in Seq(Nat) /\ Len(s) = n + f + Len(q)
      /\ \A i \in 1..f : s[n + i] = m.next_fresh_block + i - 1
      /\ \A i \in 1..Len(q) : s[n + f + i] = q[i]
  BY WholeQueue DEF GoodPool, HostMemory
<1>2. /\ r \in Seq(Nat) /\ Len(r) = f + Len(q)
      /\ \A i \in 1..f : r[i] = m.next_fresh_block + i - 1
      /\ \A i \in 1..Len(q) : r[f + i] = q[i]
  <2> DEFINE none == << >>
  <2>1. none \in Seq(Nat) /\ Len(none) = 0
    OBVIOUS
  <2> HIDE DEF none, f, q
  <2>2. /\ FreeIds(m, none, 0) \in Seq(Nat)
        /\ Len(FreeIds(m, none, 0)) = Len(none) + f + Len(q)
        /\ \A i \in 1..f : FreeIds(m, none, 0)[Len(none) + i] = m.next_fresh_block + i - 1
        /\ \A i \in 1..Len(q) : FreeIds(m, none, 0)[Len(none) + f + i] = q[i]
    BY <2>1, WholeQueue DEF GoodPool, f, q
  <2>3. \A i \in Int : 0 + i = i
    OBVIOUS
  <2>4. 0 + f + Len(q) = f + Len(q) /\ 0 + f = f
    BY <1>1
  <2> QED BY <1>1, <2>1, <2>2, <2>3, <2>4 DEF none
<1> HIDE DEF s, r, n, f, q
<1>3. l \in Nat /\ n + l = Len(s)
  BY <1>1
<1> HIDE DEF l
<1>4. /\ u \in Seq(Nat) /\ Len(u) = l
      /\ \A i \in 1..l : u[i] = s[n + i]
  BY <1>1, <1>3
<1> HIDE DEF u
<1>5. \A i \in 1..l : s[n + i] = r[i]
  <2> SUFFICES ASSUME NEW i \in 1..l PROVE s[n + i] = r[i]
    OBVIOUS
  <2>1. CASE i \in 1..f
    BY <1>1, <1>2, <2>1
  <2>2. CASE i \in (f + 1)..l
    <3> DEFINE j == i - f
    <3>1. j \in 1..Len(q) /\ i = f + j /\ n + i = n + f + j
      BY <1>1, <2>2 DEF l
    <3> HIDE DEF j
    <3> QED BY <1>1, <1>2, <3>1
  <2> QED BY <1>1, <1>3, <2>1, <2>2
<1>6. u = r
  BY <1>2, <1>4, <1>5, SameIds DEF l
<1> QED BY <1>3, <1>6 DEF u, s, r, n

(* With the ids returned, those that are left.                             *)
LEMMA ReturnedAll ==
    ASSUME NEW m, GoodPool(m), NEW n \in 0..Len(m.recycled_blocks),
           NEW returned \in Seq(Nat), Len(returned) = n,
           \A i \in 1..n : LastRecycled(m, n, i) = returned[i]
    PROVE  FreeIds(m, << >>, n) \o returned = FreeIds(m, << >>, 0)
<1> DEFINE q == m.recycled_blocks
           fresh == [i \in 1..(m.total_blocks - m.next_fresh_block) |-> m.next_fresh_block + i - 1]
           old == SubSeq(q, 1, Len(q) - n)
           front == << >> \o fresh
<1>1. /\ q \in Seq(Nat) /\ Len(q) \in Nat /\ n \in Nat /\ n <= Len(q)
      /\ m.next_fresh_block \in Nat /\ m.total_blocks - m.next_fresh_block \in Nat
  BY DEF GoodPool, HostMemory, Partitioned
<1>2. fresh \in Seq(Nat)
  <2> DEFINE l == m.total_blocks - m.next_fresh_block
  <2>1. l \in Nat /\ \A i \in 1..l : m.next_fresh_block + i - 1 \in Nat
    BY <1>1
  <2> HIDE DEF l
  <2>2. [i \in 1..l |-> m.next_fresh_block + i - 1] \in [1..l -> Nat]
    BY <2>1
  <2>3. [i \in 1..l |-> m.next_fresh_block + i - 1] \in Seq(Nat)
    BY <2>1, <2>2
  <2> QED BY <2>3 DEF l
<1> HIDE DEF q, fresh
<1>3. /\ old \in Seq(Nat) /\ Len(old) = Len(q) - n
      /\ \A i \in 1..(Len(q) - n) : old[i] = q[i]
  BY <1>1
<1>4. front \in Seq(Nat)
  BY <1>2
<1> HIDE DEF old
<1>5. old \o returned = q
  <2> DEFINE w == old \o returned
  <2>1. /\ w \in Seq(Nat) /\ Len(w) = Len(old) + Len(returned)
        /\ \A i \in 1..Len(old) : w[i] = old[i]
        /\ \A i \in 1..Len(returned) : w[Len(old) + i] = returned[i]
    BY <1>3, Joined
  <2> HIDE DEF w
  <2>2. Len(w) = Len(q)
    BY <1>1, <1>3, <2>1
  <2>3. ASSUME NEW i \in 1..Len(q) PROVE w[i] = q[i]
    <3>1. CASE i \in 1..(Len(q) - n)
      BY <1>3, <2>1, <3>1
    <3>2. CASE i \in (Len(q) - n + 1)..Len(q)
      <4> DEFINE j == i - (Len(q) - n)
      <4>1. j \in 1..n /\ i = Len(q) - n + j
        BY <1>1, <3>2
      <4> HIDE DEF j
      <4>2. w[i] = returned[j]
        BY <1>3, <2>1, <4>1
      <4>3. q[i] = returned[j]
        BY <4>1 DEF LastRecycled, q
      <4> QED BY <4>2, <4>3
    <3> QED BY <1>1, <2>3, <3>1, <3>2
  <2>4. w = q
    BY <1>1, <2>1, <2>2, <2>3, SameIds
  <2> QED BY <2>4 DEF w
<1>6. FreeIds(m, << >>, n) = front \o old
  BY DEF FreeIds, fresh, old, q
<1>7. FreeIds(m, << >>, 0) = front \o q
  <2>1. Len(q) - 0 = Len(q) /\ SubSeq(q, 1, Len(q)) = q
    BY <1>1
  <2> QED BY <2>1 DEF FreeIds, fresh, q
<1> HIDE DEF front
<1>8. (front \o old) \o returned = front \o (old \o returned)
  BY <1>3, <1>4, ConcatAssociative, SMTT(30)
<1> QED BY <1>5, <1>6, <1>7, <1>8

(* A new pool has all its ids left, from 0 on.                             *)
LEMMA NewQueue ==
    ASSUME NEW r \in MemoryRegistration, ValidateRegistration(r) = "kOk"
    PROVE  FreeIds(NewHost(r), << >>, 0) = [i \in 1..Total(r) |-> i - 1]
<1> DEFINE n == Total(r)
           fresh == [i \in 1..(n - 0) |-> 0 + i - 1]
<1>1. n \in Nat
  BY NewHostPool
<1>2. FreeIds(NewHost(r), << >>, 0) = << >> \o fresh \o SubSeq(<< >>, 1, Len(<< >>) - 0)
  BY DEF FreeIds, NewHost
<1> HIDE DEF n
<1>3. fresh = [i \in 1..n |-> i - 1]
  <2>1. n - 0 = n /\ \A i \in 1..n : 0 + i - 1 = i - 1
    BY <1>1
  <2> QED BY <2>1
<1>4. fresh \in Seq(Nat)
  <2>1. \A i \in 1..n : i - 1 \in Nat
    BY <1>1
  <2>2. fresh \in [1..n -> Nat]
    BY <1>3, <2>1
  <2> QED BY <1>1, <2>2
<1> HIDE DEF fresh
<1>5. << >> \o fresh = fresh
  BY <1>4, ConcatEmptySeq
<1>6. fresh \o << >> = fresh
  BY <1>4, ConcatEmptySeq
<1>7. SubSeq(<< >>, 1, Len(<< >>) - 0) = << >>
  BY SubSeqEmpty
<1> QED BY <1>2, <1>3, <1>5, <1>6, <1>7 DEF n

(* The queue of a pool is as long as the blocks it has left.               *)
LEMMA QueueLength ==
    ASSUME NEW m, GoodPool(m)
    PROVE  Len(FreeIds(m, << >>, 0)) = AvailableBlockCount(m)
<1> DEFINE none == << >>
<1>1. none \in Seq(Nat) /\ Len(none) = 0
  OBVIOUS
<1> HIDE DEF none
<1>2. Len(FreeIds(m, none, 0)) = Len(none) + FreshLeft(m) + Len(m.recycled_blocks)
  BY <1>1, WholeQueue DEF GoodPool
<1>3. FreshLeft(m) \in Nat /\ Len(m.recycled_blocks) \in Nat
  BY <1>1, WholeQueue DEF GoodPool
<1>4. Len(FreeIds(m, none, 0)) = FreshLeft(m) + Len(m.recycled_blocks)
  BY <1>1, <1>2, <1>3
<1>5. AvailableBlockCount(m) = FreshLeft(m) + Len(m.recycled_blocks)
  BY PoolAvailable DEF GoodPool, FreshLeft
<1> QED BY <1>4, <1>5 DEF none

-----------------------------------------------------------------------------
(* The index with and without the keys of a loop under way.  *)

IsIndex(index) == index \in [DOMAIN index -> BlockLocation]

\* a list of locations that names no key twice
IsBatch(list) ==
    /\ list \in Seq(KeyBlockLocation)
    /\ \A i, j \in 1..Len(list) : list[i].key = list[j].key => i = j

Place(item) == [host_id |-> item.host_id, block_id |-> item.block_id]

(* The first k locations of a list.                                        *)
LEMMA Prefix ==
    ASSUME NEW list, IsBatch(list), NEW k \in 0..Len(list)
    PROVE  /\ Len(list) \in Nat /\ k \in Nat
           /\ IsBatch(SubSeq(list, 1, k))
           /\ Len(SubSeq(list, 1, k)) = k /\ DOMAIN SubSeq(list, 1, k) = 1..k
           /\ \A i \in 1..k : SubSeq(list, 1, k)[i] = list[i] /\ i \in 1..Len(list)
           /\ KeysOf(SubSeq(list, 1, k)) = {list[i].key : i \in 1..k}
<1>1. list \in Seq(KeyBlockLocation) /\ Len(list) \in Nat /\ k \in Nat /\ k <= Len(list)
  BY DEF IsBatch
<1> DEFINE s == SubSeq(list, 1, k)
<1>2. /\ s \in Seq(KeyBlockLocation) /\ Len(s) = k /\ DOMAIN s = 1..k
      /\ \A i \in 1..k : s[i] = list[i]
  BY <1>1
<1> HIDE DEF s
<1>3. \A i \in 1..k : i \in 1..Len(list)
  BY <1>1
<1>4. IsBatch(s)
  BY <1>2, <1>3 DEF IsBatch
<1>5. KeysOf(s) = {list[i].key : i \in 1..k}
  BY <1>2 DEF KeysOf
<1> QED BY <1>1, <1>2, <1>3, <1>4, <1>5 DEF s

(* A key of a list is found where the list has it.                         *)
LEMMA Located ==
    ASSUME NEW list, IsBatch(list), NEW i \in 1..Len(list)
    PROVE  LocationIn(list, list[i].key) = Place(list[i])
<1>1. DOMAIN list = 1..Len(list)
  BY DEF IsBatch
<1>2. (CHOOSE j \in DOMAIN list : list[j].key = list[i].key) = i
  BY <1>1 DEF IsBatch
<1> QED BY <1>2 DEF LocationIn, Place

(* A loop that has done nothing hides nothing.                            *)
LEMMA NoneDone ==
    ASSUME NEW index, IsIndex(index)
    PROVE  Without(index, << >>) = index /\ With(index, << >>) = index
BY DEF Without, With, KeysOf, IsIndex

(* A key that a loop inserts is not there yet.                             *)
LEMMA InsertHidden ==
    ASSUME NEW index, NEW key, key \notin DOMAIN index, NEW place,
           NEW list, NEW more, KeysOf(more) = KeysOf(list) \cup {key}
    PROVE  Without(Emplace(index, key, place), more) = Without(index, list)
BY DEF Without, Emplace

(* A key that a loop erases is still there.                                *)
LEMMA EraseHidden ==
    ASSUME NEW index, NEW list, IsBatch(list), NEW c \in 1..Len(list),
           list[c].key \in DOMAIN index, index[list[c].key] = Place(list[c])
    PROVE  With(Erase(index, list[c].key), SubSeq(list, 1, c)) =
              With(index, SubSeq(list, 1, c - 1))
<1> DEFINE key == list[c].key
           old == SubSeq(list, 1, c - 1)
           new == SubSeq(list, 1, c)
<1>1. /\ c - 1 \in 0..Len(list) /\ c \in 0..Len(list) /\ c \in Nat /\ Len(list) \in Nat
      /\ 1..c = (1..(c - 1)) \cup {c}
  <2>1. Len(list) \in Nat
    BY DEF IsBatch
  <2> QED BY <2>1
<1>2. /\ IsBatch(old) /\ Len(old) = c - 1 /\ KeysOf(old) = {list[i].key : i \in 1..(c - 1)}
      /\ \A i \in 1..(c - 1) : old[i] = list[i] /\ i \in 1..Len(list)
  BY <1>1, Prefix
<1>3. /\ IsBatch(new) /\ Len(new) = c /\ KeysOf(new) = {list[i].key : i \in 1..c}
      /\ \A i \in 1..c : new[i] = list[i]
  BY <1>1, Prefix
<1> HIDE DEF old, new
<1>4. key \notin KeysOf(old)
  BY <1>1, <1>2 DEF IsBatch
<1>5. KeysOf(new) = KeysOf(old) \cup {key}
  BY <1>1, <1>2, <1>3
<1>6. ASSUME NEW k \in KeysOf(old) PROVE LocationIn(new, k) = LocationIn(old, k)
  <2>1. PICK i \in 1..(c - 1) : k = list[i].key
    BY <1>2, <1>6
  <2>2. i \in 1..Len(old) /\ i \in 1..Len(new)
    BY <1>1, <1>2, <1>3, <2>1
  <2>3. k = old[i].key /\ k = new[i].key /\ old[i] = list[i] /\ new[i] = list[i]
    BY <1>1, <1>2, <1>3, <2>1
  <2> QED BY <1>2, <1>3, <2>2, <2>3, Located
<1>7. LocationIn(new, key) = index[key]
  <2>1. c \in 1..Len(new) /\ new[c] = list[c]
    BY <1>1, <1>3
  <2> QED BY <1>3, <2>1, Located
<1> HIDE DEF key
<1>8. key \in DOMAIN index
  BY DEF key
<1>9. With(Erase(index, key), new) = With(index, old)
  <2>1. DOMAIN index \cup KeysOf(old) = (DOMAIN index \ {key}) \cup KeysOf(new)
    BY <1>5, <1>8
  <2>2. \A k \in DOMAIN index \cup KeysOf(old) :
           (IF k \in KeysOf(new) THEN LocationIn(new, k) ELSE Erase(index, key)[k]) =
           (IF k \in KeysOf(old) THEN LocationIn(old, k) ELSE index[k])
    BY <1>4, <1>5, <1>6, <1>7 DEF Erase
  <2>3. DOMAIN Erase(index, key) = DOMAIN index \ {key}
    BY DEF Erase
  <2> QED BY <2>1, <2>2, <2>3 DEF With
<1> QED BY <1>9 DEF key, old, new

Inserted(dir, list) ==
    [k \in DOMAIN dir \cup {list[i].key : i \in 1..Len(list)} |->
        IF k \in DOMAIN dir THEN dir[k] ELSE LocationIn(list, k)]

Erased(dir, list) == [k \in DOMAIN dir \ {list[i].key : i \in 1..Len(list)} |-> dir[k]]

(* The keys that a whole loop has inserted, added to the index without them. *)
LEMMA InsertedAll ==
    ASSUME NEW index, IsIndex(index), NEW list, IsBatch(list),
           \A i \in 1..Len(list) :
              list[i].key \in DOMAIN index /\ index[list[i].key] = Place(list[i])
    PROVE  /\ \A i \in 1..Len(list) : list[i].key \notin DOMAIN Without(index, list)
           /\ index = Inserted(Without(index, list), list)
<1> DEFINE keys == {list[i].key : i \in 1..Len(list)}
<1>1. KeysOf(list) = keys
  BY DEF KeysOf, IsBatch
<1>2. \A k \in keys : k \in DOMAIN index /\ LocationIn(list, k) = index[k]
  <2> SUFFICES ASSUME NEW i \in 1..Len(list)
               PROVE  /\ list[i].key \in DOMAIN index
                      /\ LocationIn(list, list[i].key) = index[list[i].key]
    OBVIOUS
  <2> QED BY Located
<1> HIDE DEF keys
<1>3. /\ DOMAIN Without(index, list) = DOMAIN index \ keys
      /\ \A k \in DOMAIN index \ keys : Without(index, list)[k] = index[k]
  BY <1>1 DEF Without
<1>4. index = [k \in DOMAIN index |-> index[k]]
  BY DEF IsIndex
<1>5. DOMAIN index = DOMAIN Without(index, list) \cup keys
  BY <1>2, <1>3
<1>6. index = [k \in DOMAIN Without(index, list) \cup keys |->
                 IF k \in DOMAIN Without(index, list) THEN Without(index, list)[k]
                 ELSE LocationIn(list, k)]
  BY <1>2, <1>3, <1>4, <1>5
<1> QED BY <1>3, <1>6 DEF keys, Inserted

(* The keys that a whole loop has erased, taken from the index with them.   *)
LEMMA ErasedAll ==
    ASSUME NEW index, IsIndex(index), NEW list, IsBatch(list),
           \A i \in 1..Len(list) : list[i].key \notin DOMAIN index
    PROVE  /\ \A i \in 1..Len(list) :
                 /\ list[i].key \in DOMAIN With(index, list)
                 /\ With(index, list)[list[i].key] = Place(list[i])
           /\ index = Erased(With(index, list), list)
<1> DEFINE keys == {list[i].key : i \in 1..Len(list)}
<1>1. KeysOf(list) = keys
  BY DEF KeysOf, IsBatch
<1>2. /\ DOMAIN With(index, list) = DOMAIN index \cup keys
      /\ \A k \in keys : With(index, list)[k] = LocationIn(list, k)
      /\ \A k \in DOMAIN index \ keys : With(index, list)[k] = index[k]
  BY <1>1 DEF With
<1>3. keys \cap DOMAIN index = {}
  OBVIOUS
<1>4. ASSUME NEW i \in 1..Len(list)
      PROVE  /\ list[i].key \in DOMAIN With(index, list)
             /\ With(index, list)[list[i].key] = Place(list[i])
  BY <1>2, <1>4, Located
<1> HIDE DEF keys
<1>5. index = [k \in DOMAIN index |-> index[k]]
  BY DEF IsIndex
<1>6. index = [k \in DOMAIN With(index, list) \ keys |-> With(index, list)[k]]
  <2>1. DOMAIN With(index, list) \ keys = DOMAIN index
    BY <1>2, <1>3
  <2> QED BY <1>2, <1>3, <1>5, <2>1
<1> QED BY <1>4, <1>6 DEF keys, Erased

-----------------------------------------------------------------------------
(* The blocks left in all the pools.  *)

Left(hosts) == SumFunction([h \in DOMAIN hosts |-> AvailableBlockCount(hosts[h])])

GoodPools(hosts) == IsFiniteSet(DOMAIN hosts) /\ \A h \in DOMAIN hosts : GoodPool(hosts[h])

(* The sum is a number.                                                   *)
LEMMA LeftType ==
    ASSUME NEW hosts, GoodPools(hosts)
    PROVE  Left(hosts) \in Nat
<1> DEFINE f == [h \in DOMAIN hosts |-> AvailableBlockCount(hosts[h])]
<1>1. IsFiniteSet(DOMAIN hosts) /\ \A h \in DOMAIN hosts : f[h] \in Nat
  BY PoolAvailable DEF GoodPools, GoodPool
<1>2. DOMAIN f = DOMAIN hosts
  OBVIOUS
<1> HIDE DEF f
<1>3. SumFunctionOnSet(f, DOMAIN hosts) \in Nat
  BY <1>1, SumType
<1> QED BY <1>2, <1>3 DEF Left, SumFunction, f

(* A pool that changes changes the sum by as much.                         *)
LEMMA LeftChanged ==
    ASSUME NEW hosts, GoodPools(hosts), NEW next, GoodPools(next),
           DOMAIN next = DOMAIN hosts, NEW H \in DOMAIN hosts,
           \A h \in DOMAIN hosts \ {H} : next[h] = hosts[h]
    PROVE  Left(next) - AvailableBlockCount(next[H]) =
              Left(hosts) - AvailableBlockCount(hosts[H])
<1> DEFINE f == [h \in DOMAIN hosts |-> AvailableBlockCount(hosts[h])]
           e == [h \in DOMAIN next |-> AvailableBlockCount(next[h])]
<1>1. /\ IsFiniteSet(DOMAIN hosts)
      /\ \A h \in DOMAIN hosts : e[h] \in Nat /\ f[h] \in Nat
      /\ \A h \in DOMAIN hosts \ {H} : e[h] = f[h]
  BY PoolAvailable DEF GoodPools, GoodPool
<1>2. DOMAIN f = DOMAIN hosts /\ DOMAIN e = DOMAIN hosts
  OBVIOUS
<1>3. f[H] = AvailableBlockCount(hosts[H]) /\ e[H] = AvailableBlockCount(next[H])
  OBVIOUS
<1> HIDE DEF f, e
<1>4. SumFunctionOnSet(e, DOMAIN hosts) - e[H] = SumFunctionOnSet(f, DOMAIN hosts) - f[H]
  BY <1>1, SumChanged
<1> QED BY <1>2, <1>3, <1>4 DEF Left, SumFunction, f, e

(* A pool that is added adds its blocks.                                   *)
LEMMA LeftAdded ==
    ASSUME NEW hosts, GoodPools(hosts), NEW next, GoodPools(next),
           NEW H, H \notin DOMAIN hosts, DOMAIN next = DOMAIN hosts \cup {H},
           \A h \in DOMAIN hosts : next[h] = hosts[h]
    PROVE  Left(next) = AvailableBlockCount(next[H]) + Left(hosts)
<1> DEFINE f == [h \in DOMAIN hosts |-> AvailableBlockCount(hosts[h])]
           e == [h \in DOMAIN next |-> AvailableBlockCount(next[h])]
<1>1. /\ IsFiniteSet(DOMAIN hosts) /\ IsFiniteSet(DOMAIN next)
      /\ \A h \in DOMAIN next : e[h] \in Nat
      /\ \A h \in DOMAIN hosts : f[h] \in Nat /\ f[h] = e[h]
  BY PoolAvailable DEF GoodPools, GoodPool
<1>2. /\ DOMAIN f = DOMAIN hosts /\ DOMAIN e = DOMAIN next
      /\ H \in DOMAIN next /\ DOMAIN next \ {H} = DOMAIN hosts
  OBVIOUS
<1>3. e[H] = AvailableBlockCount(next[H])
  OBVIOUS
<1> HIDE DEF f, e
<1>4. SumFunctionOnSet(e, DOMAIN next) = e[H] + SumFunctionOnSet(e, DOMAIN next \ {H})
  BY <1>1, <1>2, SumAnyFirst
<1>5. SumFunctionOnSet(f, DOMAIN hosts) = SumFunctionOnSet(e, DOMAIN hosts)
  BY <1>1, SumSame
<1> QED BY <1>2, <1>3, <1>4, <1>5 DEF Left, SumFunction, f, e

(* The pools have no more left than their registrations asked for.          *)
LEMMA LeftBounded ==
    ASSUME NEW hosts, GoodPools(hosts), NEW e, DOMAIN e = DOMAIN hosts,
           \A h \in DOMAIN hosts : e[h] = hosts[h].total_blocks
    PROVE  Left(hosts) <= SumFunction(e) /\ SumFunction(e) \in Nat
<1> DEFINE f == [h \in DOMAIN hosts |-> AvailableBlockCount(hosts[h])]
<1>1. IsFiniteSet(DOMAIN hosts)
  BY DEF GoodPools
<1>2. ASSUME NEW h \in DOMAIN hosts
      PROVE  /\ f[h] \in Nat /\ e[h] \in Nat /\ f[h] <= e[h]
  <2>1. hosts[h] \in HostMemory /\ Partitioned(hosts[h]) /\ Accounted(hosts[h])
    BY DEF GoodPools, GoodPool
  <2>2. hosts[h].total_blocks \in Nat
    BY <2>1 DEF HostMemory
  <2>3. /\ AvailableBlockCount(hosts[h]) \in Nat
        /\ AvailableBlockCount(hosts[h]) <= hosts[h].total_blocks
    BY <2>1, <2>2, PoolAvailable DEF AvailableBlockCount
  <2> QED BY <2>2, <2>3
<1>3. DOMAIN f = DOMAIN hosts
  OBVIOUS
<1> HIDE DEF f
<1>4. SumFunctionOnSet(f, DOMAIN hosts) <= SumFunctionOnSet(e, DOMAIN hosts)
  BY <1>1, <1>2, SumMonotone
<1>5. SumFunctionOnSet(e, DOMAIN hosts) \in Nat
  BY <1>1, <1>2, SumType
<1> QED BY <1>3, <1>4, <1>5 DEF Left, SumFunction, f

(* What the invariant says of the pools and the index.                    *)
LEMMA PoolsGood == IInv => GoodPools(hosts_) /\ IsIndex(key_index_) /\ BlocksLeft = Left(hosts_)
<1> SUFFICES ASSUME IInv PROVE GoodPools(hosts_) /\ IsIndex(key_index_) /\ BlocksLeft = Left(hosts_)
  OBVIOUS
<1>1. IsFiniteSet(DOMAIN hosts_)
  BY HostAssumption, FS_Subset DEF IInv, TypeOK, StateTyped
<1>2. \A h \in DOMAIN hosts_ : GoodPool(hosts_[h])
  BY DEF IInv, TypeOK, StateTyped, GoodPool, PoolPartition, PoolCounts
<1>3. IsIndex(key_index_)
  BY DEF IInv, TypeOK, StateTyped, IsIndex
<1> QED BY <1>1, <1>2, <1>3 DEF GoodPools, BlocksLeft, Left

(* The same one step later.                                               *)
LEMMA PoolsGoodNext ==
    ASSUME IInv'
    PROVE  GoodPools(hosts_') /\ IsIndex(key_index_') /\ BlocksLeft' = Left(hosts_')
<1>1. IsFiniteSet(DOMAIN hosts_')
  BY HostAssumption, FS_Subset DEF IInv, TypeOK, StateTyped
<1>2. \A h \in DOMAIN hosts_' : GoodPool(hosts_'[h])
  BY DEF IInv, TypeOK, StateTyped, GoodPool, PoolPartition, PoolCounts
<1>3. IsIndex(key_index_')
  BY DEF IInv, TypeOK, StateTyped, IsIndex
<1> QED BY <1>1, <1>2, <1>3 DEF GoodPools, BlocksLeft, Left

-----------------------------------------------------------------------------
(* What a step of one thread leaves alone.  *)

WholeFrame(t) == Frame(t) /\ \A u \in Threads \ {t} : reply'[u] = reply[u]

(* A step of a thread gives no other thread a reply.                      *)
LEMMA WholeFrameOfStep ==
    ASSUME TypeOK, NEW t \in Threads, Call(t) \/ Handler(t)
    PROVE  WholeFrame(t)
<1>1. Frame(t)
  BY FrameOfStep DEF TypeOK
<1> USE DEF TypeOK, StateTyped, Goto, Respond, localVars
<1>2. ASSUME NEW u \in Threads \ {t} PROVE reply'[u] = reply[u]
  <2>1. CASE Call(t)
    BY <2>1 DEF Call
  <2>2. CASE Validate(t)
    BY <2>2 DEF Validate
  <2>3. CASE AcquireExclusive(t) \/ AcquireShared(t)
    BY <2>3 DEF AcquireExclusive, AcquireShared
  <2>4. CASE RegisterMemory(t)
    BY <2>4 DEF RegisterMemory
  <2>5. CASE AllocCheck(t) \/ AllocKey(t) \/ AllocDone(t)
    BY <2>5 DEF AllocCheck, AllocKey, AllocDone, Start
  <2>6. CASE FreeCheck(t) \/ FreeKey(t) \/ FreeDone(t)
    BY <2>6 DEF FreeCheck, FreeKey, FreeDone, Start
  <2>7. CASE Exist(t) \/ FindHost(t) \/ Count(t) \/ ScanDone(t)
    BY <2>7 DEF Exist, FindHost, Count, ScanDone
  <2>8. CASE ScanKey(t)
    BY <2>8 DEF ScanKey
  <2>9. CASE Unlock(t) \/ Return(t)
    BY <2>9 DEF Unlock, Return
  <2> QED BY <1>2, <2>1, <2>2, <2>3, <2>4, <2>5, <2>6, <2>7, <2>8, <2>9 DEF Handler
<1> QED BY <1>1, <1>2 DEF WholeFrame

(* What a thread that does not move has done so far stays as it is.        *)
LEMMA OthersProgress ==
    ASSUME NEW t \in Threads, NEW u \in Threads \ {t}, WholeFrame(t), Progress(u),
           UNCHANGED <<hosts_, key_index_>> \/ ~InCriticalSection(u)
    PROVE  Progress(u)'
<1>1. /\ pc'[u] = pc[u] /\ request'[u] = request[u] /\ cursor'[u] = cursor[u]
      /\ locations'[u] = locations[u] /\ matches'[u] = matches[u] /\ best'[u] = best[u]
      /\ reply'[u] = reply[u]
  BY DEF WholeFrame, Frame
<1>2. Owes(u)'
  BY <1>1 DEF Progress, Owes
<1>3. CASE ~InCriticalSection(u)
  BY <1>1, <1>2, <1>3
     DEF Progress, AllocProgress, FreeProgress, ScanProgress, Reaches, InCriticalSection
<1>4. CASE UNCHANGED <<hosts_, key_index_>>
  <2>1. RequestKeys(u)' = RequestKeys(u) /\ Host(u)' = Host(u)
    BY <1>1 DEF RequestKeys, Host
  <2>2. \A ops : Reaches(u, "update", ops)' <=> Reaches(u, "update", ops)
    BY <1>1 DEF Reaches
  <2>3. AllocProgress(u)'
    BY <1>1, <1>4, <2>1, <2>2 DEF Progress, AllocProgress
  <2>4. FreeProgress(u)'
    BY <1>1, <1>4, <2>1, <2>2 DEF Progress, FreeProgress
  <2>5. ScanProgress(u)'
    <3>1. \A h : On(u, h)' = On(u, h)
      BY <1>1, <1>4, <2>1 DEF On
    <3> QED BY <1>1, <1>4, <2>1, <3>1 DEF Progress, ScanProgress
  <2> QED BY <1>2, <2>3, <2>4, <2>5 DEF Progress
<1> QED BY <1>3, <1>4

-----------------------------------------------------------------------------
(* The loop that is under way.  *)

(* A step of a thread outside the loops neither starts nor ends one.       *)
LEMMA Bystander ==
    ASSUME TypeOK, NEW t \in Threads, WholeFrame(t),
           pc[t] # "update", pc'[t] # "update",
           writer' = writer \/ (writer \in {t, NoThread} /\ writer' \in {t, NoThread})
    PROVE  /\ \A op : Updating(op)' <=> Updating(op)
           /\ \A op : UnderWay(op)' = UnderWay(op)
           /\ \A op : Updating(op) =>
                 /\ writer' = writer /\ writer \in Threads \ {t}
                 /\ cursor'[writer] = cursor[writer]
                 /\ locations'[writer] = locations[writer]
                 /\ request'[writer] = request[writer]
<1>1. ASSUME NEW op
      PROVE  /\ Updating(op)' <=> Updating(op)
             /\ Updating(op) =>
                   /\ writer' = writer /\ writer \in Threads \ {t}
                   /\ cursor'[writer] = cursor[writer]
                   /\ locations'[writer] = locations[writer]
                   /\ request'[writer] = request[writer]
  <2>1. writer \in Threads \cup {NoThread}
    BY DEF TypeOK, StateTyped
  <2>2. CASE writer \in Threads \ {t}
    BY <2>2 DEF WholeFrame, Frame, Updating, Reaches
  <2>3. CASE writer \in {t, NoThread}
    BY <2>3 DEF Updating, Reaches
  <2> QED BY <2>1, <2>2, <2>3
<1>2. ASSUME NEW op PROVE UnderWay(op)' = UnderWay(op)
  BY <1>1 DEF UnderWay
<1> QED BY <1>1, <1>2

(* Nor does it show in the directory, if the pools and the index stay.     *)
LEMMA ViewKept ==
    ASSUME TypeOK, NEW t \in Threads, WholeFrame(t),
           pc[t] # "update", pc'[t] # "update",
           writer' = writer \/ (writer \in {t, NoThread} /\ writer' \in {t, NoThread}),
           UNCHANGED <<hosts_, key_index_>>
    PROVE  /\ AbstractQueue' = AbstractQueue
           /\ AbstractDirectory' = AbstractDirectory
           /\ Registrations' = Registrations
<1>1. /\ \A op : Updating(op)' <=> Updating(op)
      /\ \A op : Updating(op) =>
            /\ writer' = writer /\ writer \in Threads \ {t}
            /\ cursor'[writer] = cursor[writer]
            /\ locations'[writer] = locations[writer]
            /\ request'[writer] = request[writer]
  BY Bystander
<1>2. \A op : Updating(op) => LoopDone' = LoopDone
  BY <1>1 DEF LoopDone
<1>3. AbstractDirectory' = AbstractDirectory
  BY <1>1, <1>2 DEF AbstractDirectory
<1>4. ASSUME NEW h PROVE Taken(h)' = Taken(h) /\ Returned(h)' = Returned(h)
  <2>1. (Allocating(h)' <=> Allocating(h)) /\ (Freeing(h)' <=> Freeing(h))
    BY <1>1 DEF Allocating, Freeing, Host
  <2>2. Taken(h)' = Taken(h)
    BY <1>2, <2>1 DEF Taken, Allocating
  <2>3. Returned(h)' = Returned(h)
    BY <1>1, <2>1 DEF Returned, Freeing
  <2> QED BY <2>2, <2>3
<1>5. AbstractQueue' = AbstractQueue
  BY <1>4 DEF AbstractQueue
<1> QED BY <1>3, <1>5 DEF Registrations

(* With no loop under way the directory is what the variables say.         *)
LEMMA QuietView ==
    ASSUME IInv, \A op : ~Updating(op)
    PROVE  /\ AbstractQueue = [h \in DOMAIN hosts_ |-> FreeIds(hosts_[h], << >>, 0)]
           /\ AbstractDirectory = key_index_
           /\ \A op : UnderWay(op) = 0
BY DEF AbstractQueue, AbstractDirectory, UnderWay, Taken, Returned, Allocating, Freeing

(* The same one step later.                                               *)
LEMMA QuietViewNext ==
    ASSUME \A op : ~Updating(op)'
    PROVE  /\ AbstractQueue' = [h \in DOMAIN hosts_' |-> FreeIds(hosts_'[h], << >>, 0)]
           /\ AbstractDirectory' = key_index_'
           /\ \A op : UnderWay(op)' = 0
BY DEF AbstractQueue, AbstractDirectory, UnderWay, Taken, Returned, Allocating, Freeing

(* Nobody is in a loop while a thread holds the lock outside of one.       *)
LEMMA HolderQuiet ==
    ASSUME IInv, NEW t \in Threads, pc[t] \in {"locked", "scan", "unlock"}
    PROVE  \A op : ~Updating(op)
<1>1. HoldsLock(t)
  BY DEF IInv, LockDiscipline, InCriticalSection
<1>2. writer = t \/ writer = NoThread
  BY <1>1 DEF IInv, LockDiscipline, HoldsLock
<1> QED BY <1>2 DEF Updating, Reaches

-----------------------------------------------------------------------------
(* The invariant, one action at a time.  *)

(* A MasterService just constructed has no pools and owes no replies.      *)
LEMMA InitRInv == Init => RInv
<1> SUFFICES ASSUME Init PROVE RInv
  OBVIOUS
<1>1. IInv
  BY InitInvariant
<1>2. PoolSizes
  BY DEF Init, PoolSizes
<1>3. AvailableExact
  <2>1. DOMAIN hosts_ = {}
    BY DEF Init
  <2>2. BlocksLeft = 0
    BY <2>1, SumOfNone DEF BlocksLeft, SumFunction
  <2>3. \A op : UnderWay(op) = 0
    BY DEF Init, UnderWay, Updating
  <2>4. 0 % (MaxWord + 1) = 0
    BY WordAssumption
  <2> QED BY <2>2, <2>3, <2>4 DEF AvailableExact, Init
<1>4. ASSUME NEW t \in Threads PROVE Progress(t)
  BY DEF Init, Progress, Owes, AllocProgress, FreeProgress, ScanProgress, Reaches
<1> QED BY <1>1, <1>2, <1>3, <1>4 DEF RInv

(* A handler that responds has nothing more to account for.                *)
LEMMA RespondProgress ==
    ASSUME TypeOK, NEW t \in Threads, NEW response \in Reply, Respond(t, response)
    PROVE  Progress(t)'
<1>1. pc'[t] = "unlock" /\ reply'[t] = response
  BY DEF TypeOK, StateTyped, Respond, Goto
<1> QED BY <1>1, ThreadAssumption DEF Progress, Owes, AllocProgress, FreeProgress, ScanProgress, Reaches

(* The count stays exact if it, the pools and the loop under way stay.      *)
LEMMA CountKept ==
    ASSUME AvailableExact, UNCHANGED <<hosts_, available_blocks_>>,
           \A op : UnderWay(op)' = UnderWay(op)
    PROVE  AvailableExact'
BY DEF AvailableExact, BlocksLeft

(* The sizes stay if the pools do.                                        *)
LEMMA SizesKept == ASSUME PoolSizes, UNCHANGED hosts_ PROVE PoolSizes'
BY DEF PoolSizes

(* A step outside the loops that leaves the shared state alone.            *)
LEMMA CalmStep ==
    ASSUME RInv, IInv', NEW t \in Threads, WholeFrame(t), UNCHANGED dataVars, Progress(t)',
           pc[t] # "update", pc'[t] # "update",
           writer' = writer \/ (writer \in {t, NoThread} /\ writer' \in {t, NoThread})
    PROVE  RInv'
<1>1. TypeOK /\ AvailableExact /\ PoolSizes /\ \A u \in Threads : Progress(u)
  BY DEF RInv, IInv
<1>2. UNCHANGED <<hosts_, key_index_, available_blocks_>>
  BY DEF dataVars
<1>3. \A op : UnderWay(op)' = UnderWay(op)
  BY <1>1, Bystander
<1>4. AvailableExact' /\ PoolSizes'
  BY <1>1, <1>2, <1>3, CountKept, SizesKept
<1>5. \A u \in Threads : Progress(u)'
  BY <1>1, <1>2, OthersProgress
<1> QED BY <1>4, <1>5 DEF RInv

(* The steps outside the lock, and those that take and release it.         *)
LEMMA OutsideRInv ==
    ASSUME RInv, IInv', NEW t \in Threads, WholeFrame(t),
           Call(t) \/ Validate(t) \/ AcquireExclusive(t) \/ AcquireShared(t)
              \/ Unlock(t) \/ Return(t)
    PROVE  RInv'
<1> USE DEF Goto, localVars, lockVars
<1>0. TypeOK /\ Progress(t) /\ StageOK(t)
  BY DEF RInv, IInv, HandlerOK
<1>1. CASE Call(t)
  <2>1. /\ pc[t] = "idle" /\ pc'[t] = "validate" /\ UNCHANGED <<dataVars, writer>>
        /\ reply'[t] = reply[t] /\ locations'[t] = locations[t]
    BY <1>0, <1>1 DEF Call, TypeOK, StateTyped
  <2>2. Progress(t)'
    BY <1>0, <2>1
       DEF Progress, Owes, AllocProgress, FreeProgress, ScanProgress, Reaches
  <2> QED BY <2>1, <2>2, CalmStep
<1>2. CASE Validate(t)
  <2>1. pc[t] = "validate" /\ UNCHANGED <<dataVars, writer>> /\ locations'[t] = locations[t]
    BY <1>2 DEF Validate
  <2>2. CASE ValidateRequest(request[t]) = "kOk"
    <3>1. pc'[t] = "acquire" /\ reply'[t] = reply[t]
      BY <1>0, <1>2, <2>2 DEF Validate, TypeOK, StateTyped
    <3>2. Progress(t)'
      BY <1>0, <2>1, <3>1
         DEF Progress, Owes, AllocProgress, FreeProgress, ScanProgress, Reaches
    <3> QED BY <2>1, <3>1, <3>2, CalmStep
  <2>3. CASE ValidateRequest(request[t]) # "kOk"
    <3>1. pc'[t] = "return" /\ reply'[t] = Refusal(ValidateRequest(request[t]))
      BY <1>0, <1>2, <2>3 DEF Validate, TypeOK, StateTyped
    <3>2. Refusal(ValidateRequest(request[t])) \in Reply
      BY <1>0, <2>1, <2>3, RefusalTyped DEF StageOK
    <3>3. Progress(t)'
      BY <3>1, <3>2, ThreadAssumption
         DEF Progress, Owes, AllocProgress, FreeProgress, ScanProgress, Reaches
    <3> QED BY <2>1, <3>1, <3>3, CalmStep
  <2> QED BY <2>2, <2>3
<1>3. CASE AcquireExclusive(t) \/ AcquireShared(t)
  <2>1. /\ pc[t] = "acquire" /\ pc'[t] \in {"locked", "scan"} /\ UNCHANGED dataVars
        /\ writer \in {t, NoThread} /\ writer' \in {t, NoThread}
        /\ reply'[t] = reply[t] /\ locations'[t] = locations[t]
        /\ request'[t] = request[t] /\ cursor'[t] = cursor[t]
        /\ matches'[t] = matches[t] /\ best'[t] = best[t]
    BY <1>0, <1>3 DEF AcquireExclusive, AcquireShared, TypeOK, StateTyped, Reaches, Unlocked
  <2>2. cursor[t] = 1 /\ matches[t] = NoMatches /\ best[t] = NoBest
    BY <1>0, <2>1 DEF StageOK
  <2>3. ScanProgress(t)'
    <3> SUFFICES ASSUME pc'[t] = "scan"
                 PROVE  ScanProgress(t)'
      BY DEF ScanProgress
    <3>1. request[t].op = "BatchExist"
      BY <1>0, <1>3 DEF AcquireExclusive, AcquireShared, TypeOK, StateTyped, Reaches
    <3>2. Len(request[t].keys) \in Nat
      BY <1>0, <2>1, <3>1, RequestFields DEF StageOK
    <3>3. 1..(cursor'[t] - 1) = {} /\ cursor'[t] = 1 /\ cursor'[t] <= Len(request'[t].keys) + 1
      BY <2>1, <2>2, <3>2
    <3>4. \A h : On(t, h)' = {}
      BY <3>3 DEF On
    <3>5. best'[t].count = 0
      BY <2>1, <2>2 DEF NoBest
    <3>6. \A h \in HostIds : Len(matches'[t][h]) = 0
      BY <2>1, <2>2 DEF NoMatches
    <3>7. Cardinality({}) = 0
      BY FS_EmptySet
    <3> QED BY <3>3, <3>4, <3>5, <3>6, <3>7, SMTT(30) DEF ScanProgress
  <2>4. Progress(t)'
    BY <1>0, <2>1, <2>3 DEF Progress, Owes, AllocProgress, FreeProgress, Reaches
  <2> QED BY <2>1, <2>4, CalmStep
<1>4. CASE Unlock(t)
  <2>1. /\ pc[t] = "unlock" /\ pc'[t] = "return" /\ UNCHANGED dataVars
        /\ writer' = writer \/ (writer \in {t, NoThread} /\ writer' \in {t, NoThread})
        /\ reply'[t] = reply[t]
    BY <1>0, <1>4 DEF Unlock, TypeOK, StateTyped
  <2>2. Progress(t)'
    BY <1>0, <2>1
       DEF Progress, Owes, AllocProgress, FreeProgress, ScanProgress, Reaches
  <2> QED BY <2>1, <2>2, CalmStep
<1>5. CASE Return(t)
  <2>1. /\ pc[t] = "return" /\ pc'[t] = "idle" /\ UNCHANGED <<dataVars, writer>>
        /\ reply'[t] = NoReply /\ request'[t] = NoRequest /\ locations'[t] = << >>
    BY <1>0, <1>5 DEF Return, TypeOK, StateTyped
  <2>2. Progress(t)'
    BY <2>1 DEF Progress, Owes, AllocProgress, FreeProgress, ScanProgress, Reaches
  <2> QED BY <2>1, <2>2, CalmStep
<1> QED BY <1>1, <1>2, <1>3, <1>4, <1>5

(* A reply that changes nothing else.                                      *)
LEMMA RespondRInv ==
    ASSUME RInv, IInv', NEW t \in Threads, WholeFrame(t), pc[t] \in {"locked", "scan"},
           NEW response \in Reply, Respond(t, response), UNCHANGED dataVars
    PROVE  RInv'
<1>1. TypeOK
  BY DEF RInv, IInv
<1>2. pc[t] # "update" /\ pc'[t] # "update" /\ writer' = writer
  BY <1>1 DEF TypeOK, StateTyped, Respond, Goto, lockVars
<1>3. Progress(t)'
  BY <1>1, RespondProgress
<1> QED BY <1>2, <1>3, CalmStep

(* The handlers and accessors that only read.  *)
LEMMA ReadRInv ==
    ASSUME RInv, IInv', NEW t \in Threads, WholeFrame(t),
           Exist(t) \/ FindHost(t) \/ Count(t) \/ ScanDone(t)
    PROVE  RInv'
<1>1. IInv
  BY DEF RInv
<1>2. PICK response \in Reply : Respond(t, response)
  BY <1>1, GuardOfInvariant, ReadReplies
<1>3. pc[t] \in {"locked", "scan"} /\ UNCHANGED dataVars
  BY <1>1, GuardOfInvariant, ReadReplies
<1> QED BY <1>2, <1>3, RespondRInv

(* The rank of a position among those of a set, and what a later position   *)
(* changes of it.                                                          *)
LEMMA Ranks ==
    ASSUME NEW S \in SUBSET Nat, IsFiniteSet(S)
    PROVE  /\ Cardinality(S) \in Nat
           /\ \A i \in S : Rank(S, i) \in 1..Cardinality(S)
           /\ \A c \in Nat : (\A j \in S : j < c) =>
                 /\ Cardinality(S \cup {c}) = Cardinality(S) + 1
                 /\ Rank(S \cup {c}, c) = Cardinality(S) + 1
                 /\ \A i \in S : Rank(S \cup {c}, i) = Rank(S, i)
<1>1. Cardinality(S) \in Nat
  BY FS_CardinalityType
<1>2. ASSUME NEW i \in S PROVE Rank(S, i) \in 1..Cardinality(S)
  <2> DEFINE T == {j \in S : j <= i}
  <2>1. T \subseteq S /\ i \in T
    OBVIOUS
  <2> HIDE DEF T
  <2>2. IsFiniteSet(T) /\ Cardinality(T) <= Cardinality(S)
    BY <2>1, FS_Subset
  <2>3. Cardinality(T) \in Nat /\ Cardinality(T) # 0
    BY <2>1, <2>2, FS_CardinalityType, FS_EmptySet
  <2>4. Cardinality(T) \in 1..Cardinality(S)
    BY <1>1, <2>2, <2>3
  <2> QED BY <2>4 DEF Rank, T
<1>3. ASSUME NEW c \in Nat, \A j \in S : j < c
      PROVE  /\ Cardinality(S \cup {c}) = Cardinality(S) + 1
             /\ Rank(S \cup {c}, c) = Cardinality(S) + 1
             /\ \A i \in S : Rank(S \cup {c}, i) = Rank(S, i)
  <2>1. c \notin S
    BY <1>3
  <2>2. Cardinality(S \cup {c}) = Cardinality(S) + 1
    BY <2>1, FS_AddElement
  <2>3. {j \in S \cup {c} : j <= c} = S \cup {c}
    <3>1. \A j \in S \cup {c} : j <= c
      BY <1>3
    <3> QED BY <3>1
  <2>4. ASSUME NEW i \in S PROVE {j \in S \cup {c} : j <= i} = {j \in S : j <= i}
    <3>1. ~(c <= i)
      BY <1>3
    <3> QED BY <3>1
  <2> QED BY <2>2, <2>3, <2>4 DEF Rank
<1> QED BY <1>1, <1>2, <1>3

(* ScanProgress, of the state it is about.                                 *)
Positions(index, keys, c, h) == {i \in 1..(c - 1) : index[keys[i]].host_id = h}

Matched(index, keys, c, lists, h) ==
    LET on == Positions(index, keys, c, h) IN
       /\ Len(lists[h]) = Cardinality(on)
       /\ \A i \in on : lists[h][Rank(on, i)].key = keys[i] /\ lists[h][Rank(on, i)].host_id = h

FirstOfMost(index, keys, c, lists, b) ==
    /\ \A h \in HostIds : Len(lists[h]) <= b.count
    /\ b.count = 0 => c = 1
    /\ b.count > 0 =>
          /\ Len(lists[b.host_id]) = b.count
          /\ \A h \in HostIds \ {b.host_id} :
                Len(lists[h]) = b.count =>
                   \E i \in Positions(index, keys, c, h) :
                      \A j \in Positions(index, keys, c, b.host_id) : j < i

Scanned(index, keys, c, lists, b) ==
    /\ \A i \in 1..(c - 1) : keys[i] \in DOMAIN index
    /\ \A h \in HostIds : Matched(index, keys, c, lists, h)
    /\ FirstOfMost(index, keys, c, lists, b)

(* ScanProgress is Scanned of the state it is about.                      *)
LEMMA ScanProgressIs ==
    ASSUME NEW t
    PROVE  ScanProgress(t) <=>
              (pc[t] = "scan" =>
                 /\ cursor[t] <= Len(request[t].keys) + 1
                 /\ Scanned(key_index_, RequestKeys(t), cursor[t], matches[t], best[t]))
BY DEF ScanProgress, Scanned, Matched, FirstOfMost, Positions, On

(* The same one step later.                                               *)
LEMMA ScanProgressIsNext ==
    ASSUME NEW t,
           pc'[t] = "scan" =>
              /\ cursor'[t] <= Len(request'[t].keys) + 1
              /\ Scanned(key_index_', RequestKeys(t)', cursor'[t], matches'[t], best'[t])
    PROVE  ScanProgress(t)'
BY DEF ScanProgress, Scanned, Matched, FirstOfMost, Positions, On

(* The positions of a host are some of those scanned.                     *)
LEMMA PositionsFinite ==
    ASSUME NEW index, NEW keys, NEW c \in Nat \ {0}, NEW h
    PROVE  /\ Positions(index, keys, c, h) \in SUBSET Nat
           /\ IsFiniteSet(Positions(index, keys, c, h))
           /\ \A j \in Positions(index, keys, c, h) : j \in 1..(c - 1) /\ j < c
<1>1. Positions(index, keys, c, h) \subseteq 1..(c - 1)
  BY DEF Positions
<1>2. IsFiniteSet(1..(c - 1))
  BY FS_Interval
<1>3. \A j \in 1..(c - 1) : j \in Nat /\ j < c
  OBVIOUS
<1> QED BY <1>1, <1>2, <1>3, FS_Subset

(* One more key scanned is one more position of the host that holds it, and  *)
(* the best host changes only to one with more matches.                    *)
LEMMA ScannedOne ==
    ASSUME NEW index, NEW keys, NEW c \in Nat \ {0},
           NEW lists \in [HostIds -> Seq(KeyBlockLocation)],
           NEW b, b.count \in Nat, b.count > 0 => b.host_id \in HostIds,
           Scanned(index, keys, c, lists, b),
           keys[c] \in DOMAIN index,
           NEW h \in HostIds, h = index[keys[c]].host_id,
           NEW item \in KeyBlockLocation, item.key = keys[c], item.host_id = h,
           NEW lists2, lists2[h] = Append(lists[h], item),
           \A g \in HostIds \ {h} : lists2[g] = lists[g],
           NEW b2, b2.count \in Nat,
           Improves(lists2[h], b) => b2.host_id = h /\ b2.count = Len(lists2[h]),
           ~Improves(lists2[h], b) => b2 = b
    PROVE  Scanned(index, keys, c + 1, lists2, b2)
<1> DEFINE S(g) == Positions(index, keys, c, g)
           T(g) == Positions(index, keys, c + 1, g)
<1>1. /\ Len(lists2[h]) = Len(lists[h]) + 1 /\ Len(lists[h]) \in Nat
      /\ \A i \in 1..Len(lists[h]) : lists2[h][i] = lists[h][i]
      /\ lists2[h][Len(lists[h]) + 1] = item
      /\ \A g \in HostIds \ {h} : lists2[g] = lists[g]
  <2>1. lists[h] \in Seq(KeyBlockLocation)
    OBVIOUS
  <2> QED BY <2>1
<1>2. \A g : /\ S(g) \in SUBSET Nat /\ IsFiniteSet(S(g))
             /\ \A j \in S(g) : j \in 1..(c - 1) /\ j < c
  BY PositionsFinite
<1>3. T(h) = S(h) \cup {c} /\ \A g : g # h => T(g) = S(g)
  <2>1. c + 1 - 1 = c /\ 1..c = (1..(c - 1)) \cup {c}
    OBVIOUS
  <2>2. \A g : T(g) = {i \in (1..(c - 1)) \cup {c} : index[keys[i]].host_id = g}
    BY <2>1 DEF Positions
  <2>3. \A g : S(g) = {i \in 1..(c - 1) : index[keys[i]].host_id = g}
    BY DEF Positions
  <2> HIDE DEF S, T
  <2>4. T(h) = S(h) \cup {c}
    BY <2>2, <2>3
  <2>5. ASSUME NEW g, g # h PROVE T(g) = S(g)
    BY <2>2, <2>3, <2>5
  <2> QED BY <2>4, <2>5
<1>4. \A g : /\ Cardinality(S(g)) \in Nat
             /\ \A i \in S(g) : Rank(S(g), i) \in 1..Cardinality(S(g))
             /\ Cardinality(S(g) \cup {c}) = Cardinality(S(g)) + 1
             /\ Rank(S(g) \cup {c}, c) = Cardinality(S(g)) + 1
             /\ \A i \in S(g) : Rank(S(g) \cup {c}, i) = Rank(S(g), i)
  <2> HIDE DEF S
  <2> SUFFICES ASSUME NEW g
               PROVE  /\ Cardinality(S(g)) \in Nat
                      /\ \A i \in S(g) : Rank(S(g), i) \in 1..Cardinality(S(g))
                      /\ Cardinality(S(g) \cup {c}) = Cardinality(S(g)) + 1
                      /\ Rank(S(g) \cup {c}, c) = Cardinality(S(g)) + 1
                      /\ \A i \in S(g) : Rank(S(g) \cup {c}, i) = Rank(S(g), i)
    OBVIOUS
  <2> QED BY <1>2, Ranks
<1>5. /\ \A i \in 1..(c - 1) : keys[i] \in DOMAIN index
      /\ \A g \in HostIds :
            /\ Len(lists[g]) = Cardinality(S(g)) /\ Len(lists[g]) <= b.count
            /\ \A i \in S(g) : lists[g][Rank(S(g), i)].key = keys[i]
                               /\ lists[g][Rank(S(g), i)].host_id = g
      /\ b.count > 0 =>
            /\ Len(lists[b.host_id]) = b.count
            /\ \A g \in HostIds \ {b.host_id} :
                  Len(lists[g]) = b.count => \E i \in S(g) : \A j \in S(b.host_id) : j < i
  BY DEF Scanned, Matched, FirstOfMost
<1>6. \A i \in 1..(c + 1 - 1) : keys[i] \in DOMAIN index
  <2>1. \A i \in 1..(c + 1 - 1) : i \in 1..(c - 1) \/ i = c
    OBVIOUS
  <2> QED BY <1>5, <2>1
<1> HIDE DEF S, T
<1>7. ASSUME NEW g \in HostIds
      PROVE  /\ Len(lists2[g]) = Cardinality(T(g))
             /\ \A i \in T(g) : lists2[g][Rank(T(g), i)].key = keys[i]
                                /\ lists2[g][Rank(T(g), i)].host_id = g
  <2>1. CASE g # h
    <3>1. T(g) = S(g) /\ lists2[g] = lists[g]
      BY <1>1, <1>3, <2>1
    <3> QED BY <1>5, <3>1
  <2>2. CASE g = h
    <3>1. Len(lists[h]) = Cardinality(S(h)) /\ T(h) = S(h) \cup {c}
      BY <1>3, <1>5
    <3>2. Len(lists2[h]) = Cardinality(T(h))
      BY <1>1, <1>4, <3>1
    <3>3. lists2[h][Rank(T(h), c)] = item
      <4>1. Rank(T(h), c) = Len(lists[h]) + 1
        BY <1>4, <3>1
      <4> QED BY <1>1, <4>1
    <3>4. ASSUME NEW i \in S(h)
          PROVE  /\ lists2[h][Rank(T(h), i)].key = keys[i]
                 /\ lists2[h][Rank(T(h), i)].host_id = h
      <4>1. Rank(T(h), i) = Rank(S(h), i) /\ Rank(S(h), i) \in 1..Len(lists[h])
        BY <1>4, <3>1, <3>4
      <4>2. lists2[h][Rank(T(h), i)] = lists[h][Rank(S(h), i)]
        BY <1>1, <4>1
      <4>3. /\ lists[h][Rank(S(h), i)].key = keys[i]
            /\ lists[h][Rank(S(h), i)].host_id = h
        BY <1>5, <3>4, Zenon
      <4> QED BY ONLY <4>2, <4>3
    <3> QED BY <2>2, <3>1, <3>2, <3>3, <3>4
  <2> QED BY <2>1, <2>2
<1>8. /\ b2.count >= Len(lists2[h]) /\ b2.count >= b.count /\ b2.count > 0
      /\ Len(lists2[h]) \in Nat
  <2>1. Len(lists2[h]) \in Nat \ {0}
    BY <1>1
  <2>2. CASE Improves(lists2[h], b)
    BY <2>1, <2>2 DEF Improves
  <2>3. CASE ~Improves(lists2[h], b)
    BY <2>1, <2>3 DEF Improves
  <2> QED BY <2>1, <2>2, <2>3
<1>9. \A g \in HostIds : Len(lists2[g]) <= b2.count
  <2> SUFFICES ASSUME NEW g \in HostIds, g # h PROVE Len(lists2[g]) <= b2.count
    BY <1>8
  <2>1. lists2[g] = lists[g] /\ Len(lists[g]) <= b.count /\ Len(lists[g]) \in Nat
    BY <1>1, <1>4, <1>5
  <2> QED BY <1>8, <2>1
<1>10. /\ Len(lists2[b2.host_id]) = b2.count
       /\ \A g \in HostIds \ {b2.host_id} :
             Len(lists2[g]) = b2.count => \E i \in T(g) : \A j \in T(b2.host_id) : j < i
  <2>1. CASE Improves(lists2[h], b)
    <3>1. b2.count = Len(lists2[h]) /\ b2.host_id = h
      BY <2>1
    <3>2. ASSUME NEW g \in HostIds \ {h} PROVE Len(lists2[g]) # Len(lists2[h])
      <4>1. lists2[g] = lists[g] /\ Len(lists[g]) <= b.count /\ Len(lists[g]) \in Nat
        BY <1>1, <1>4, <1>5
      <4>2. Len(lists2[h]) > b.count
        BY <2>1 DEF Improves
      <4> QED BY <1>8, <4>1, <4>2
    <3> QED BY <3>1, <3>2
  <2>2. CASE ~Improves(lists2[h], b)
    <3>1. b2 = b /\ b.count >= Len(lists2[h]) /\ b.count > 0
      BY <1>8, <2>2
    <3> DEFINE B == b.host_id
    <3>2. Len(lists[B]) = b.count /\ B \in HostIds
      BY <1>5, <3>1
    <3>3. B # h
      BY <1>1, <3>1, <3>2
    <3>4. Len(lists2[B]) = b.count /\ T(B) = S(B)
      BY <1>1, <1>3, <3>2, <3>3
    <3>5. ASSUME NEW g \in HostIds \ {B}, Len(lists2[g]) = b.count
          PROVE  \E i \in T(g) : \A j \in S(B) : j < i
      <4>1. CASE g = h
        <5>1. c \in T(g)
          BY <1>3, <4>1
        <5> QED BY <1>2, <5>1
      <4>2. CASE g # h
        <5>1. lists2[g] = lists[g] /\ T(g) = S(g)
          BY <1>1, <1>3, <4>2
        <5>2. \E i \in S(g) : \A j \in S(B) : j < i
          BY <1>5, <3>1, <3>5, <5>1
        <5> QED BY <5>1, <5>2
      <4> QED BY <4>1, <4>2
    <3> QED BY <3>1, <3>4, <3>5
  <2> QED BY <2>1, <2>2
<1>11. FirstOfMost(index, keys, c + 1, lists2, b2)
  BY <1>8, <1>9, <1>10 DEF FirstOfMost, T
<1>12. \A g \in HostIds : Matched(index, keys, c + 1, lists2, g)
  BY <1>7 DEF Matched, T
<1> QED BY ONLY <1>6, <1>11, <1>12 DEF Scanned

(* One key of a BatchExist.                                                *)
LEMMA ScanKeyRInv ==
    ASSUME RInv, IInv', NEW t \in Threads, WholeFrame(t), ScanKey(t)
    PROVE  RInv'
<1> DEFINE c    == cursor[t]
           n    == Len(request[t].keys)
           keys == RequestKeys(t)
           key  == keys[c]
           h    == key_index_[key].host_id
           item == [key |-> key, host_id |-> h, block_id |-> key_index_[key].block_id]
           list == Append(matches[t][h], item)
<1>0. /\ IInv /\ TypeOK /\ StageOK(t) /\ Progress(t)
      /\ pc[t] = "scan" /\ request[t].op = "BatchExist" /\ c <= n
  BY DEF RInv, IInv, HandlerOK, ScanKey, Scanning, Reaches
<1>1. /\ key \in DOMAIN key_index_
      /\ matches' = [matches EXCEPT ![t][h] = list]
      /\ best' = IF Improves(list, best[t])
                 THEN [best EXCEPT ![t] = [host_id |-> h, count |-> Len(list)]]
                 ELSE best
      /\ cursor' = [cursor EXCEPT ![t] = c + 1]
      /\ UNCHANGED <<pc, request, locations, reply, lockVars, dataVars>>
  BY DEF ScanKey, Scanning
<1>2. /\ c \in Nat \ {0} /\ n \in Nat /\ best[t].count \in Nat
      /\ best[t].count > 0 => best[t].host_id \in HostIds
      /\ best'[t].count \in Nat
  <2>1. n \in Nat
    BY <1>0, BatchKeys
  <2>2. TypeOK'
    BY DEF IInv
  <2> QED BY <1>0, <2>1, <2>2 DEF TypeOK, StateTyped, StageOK
<1>3. /\ h \in HostIds /\ matches[t] \in [HostIds -> Seq(KeyBlockLocation)]
      /\ item \in KeyBlockLocation
  <2>1. key_index_[key] \in BlockLocation /\ key \in Keys
    BY <1>0, <1>1 DEF TypeOK, StateTyped
  <2> QED BY <1>0, <2>1 DEF TypeOK, StateTyped, BlockLocation, KeyBlockLocation
<1>4. Scanned(key_index_, keys, c, matches[t], best[t])
  BY <1>0, ScanProgressIs DEF Progress
<1>5. item.key = key /\ item.host_id = h
  OBVIOUS
<1> HIDE DEF item, h
<1>6. /\ matches'[t][h] = Append(matches[t][h], item)
      /\ \A g \in HostIds \ {h} : matches'[t][g] = matches[t][g]
  BY <1>0, <1>1, <1>3 DEF TypeOK, StateTyped
<1>7. /\ Improves(matches'[t][h], best[t]) =>
            best'[t].host_id = h /\ best'[t].count = Len(matches'[t][h])
      /\ ~Improves(matches'[t][h], best[t]) => best'[t] = best[t]
  BY <1>0, <1>1, <1>6 DEF TypeOK, StateTyped
<1>8. h = key_index_[keys[c]].host_id
  BY DEF h
<1>9. /\ cursor'[t] = c + 1 /\ request'[t] = request[t] /\ key_index_' = key_index_
      /\ pc'[t] = "scan" /\ RequestKeys(t)' = keys
      /\ locations'[t] = locations[t] /\ reply'[t] = reply[t]
      /\ writer' = writer /\ UNCHANGED dataVars
  BY <1>0, <1>1 DEF TypeOK, StateTyped, RequestKeys, dataVars, lockVars
<1> HIDE DEF list, keys
<1>10. Scanned(key_index_, keys, c + 1, matches'[t], best'[t])
  <2>1. keys[c] \in DOMAIN key_index_ /\ item.key = keys[c]
    BY <1>1, <1>5
  <2> HIDE DEF c, key
  <2> QED BY <1>2, <1>3, <1>4, <1>5, <1>6, <1>7, <1>8, <2>1, ScannedOne, ZenonT(30)
<1>11. c + 1 <= n + 1
  BY <1>0, <1>2
<1>12. ScanProgress(t)'
  BY <1>9, <1>10, <1>11, ScanProgressIsNext
<1>13. Progress(t)'
  BY <1>0, <1>9, <1>12 DEF Progress, Owes, AllocProgress, FreeProgress, Reaches
<1>14. pc[t] # "update" /\ pc'[t] # "update"
  BY <1>0, <1>9
<1> QED BY <1>9, <1>13, <1>14, CalmStep

(* A registration that has reached the lock is valid.                      *)
LEMMA Registering ==
    ASSUME IInv, NEW t \in Threads, RegisterMemory(t)
    PROVE  /\ pc[t] = "locked" /\ request[t].op = "RegisterMemory"
           /\ request[t].registration \in MemoryRegistration
           /\ request[t].registration.host_id \in HostIds
           /\ ValidateRegistration(request[t].registration) = "kOk"
           /\ Total(request[t].registration) \in Nat
           /\ GoodPool(NewHost(request[t].registration))
           /\ AvailableBlockCount(NewHost(request[t].registration)) =
                 Total(request[t].registration)
           /\ t = writer /\ \A u \in Threads \ {t} : ~InCriticalSection(u)
<1> DEFINE r == request[t].registration
<1>1. /\ pc[t] = "locked" /\ request[t].op = "RegisterMemory" /\ TypeOK /\ StageOK(t)
  BY DEF IInv, HandlerOK, RegisterMemory, Reaches
<1>2. request[t] \in Request /\ ValidateRequest(request[t]) = "kOk"
  BY <1>1 DEF StageOK
<1>3. r \in MemoryRegistration
  BY <1>1, <1>2, RequestFields
<1>4. ValidateRegistration(r) = "kOk" /\ r.host_id \in HostIds
  BY <1>1, <1>2, <1>3 DEF ValidateRequest, BatchOps, MemoryRegistration
<1> HIDE DEF r
<1>5. /\ Total(r) \in Nat /\ GoodPool(NewHost(r)) /\ NewHost(r).allocated_blocks = {}
  BY <1>3, <1>4, NewHostPool DEF GoodPool
<1>6. AvailableBlockCount(NewHost(r)) = Total(r)
  <2>1. NewHost(r).total_blocks = Total(r)
    BY DEF NewHost
  <2> QED BY <1>5, <2>1, FS_EmptySet DEF AvailableBlockCount
<1>7. t = writer /\ \A u \in Threads \ {t} : ~InCriticalSection(u)
  BY <1>1, GuardOfInvariant, WriterAlone DEF WriteOps
<1> QED BY <1>1, <1>3, <1>4, <1>5, <1>6, <1>7 DEF r

(* A registration adds a pool with all its blocks left, or changes nothing. *)
LEMMA RegisterRInv ==
    ASSUME RInv, IInv', NEW t \in Threads, WholeFrame(t), RegisterMemory(t)
    PROVE  RInv'
<1> DEFINE r == request[t].registration
           h == r.host_id
           W == MaxWord + 1
<1>0. /\ IInv /\ TypeOK /\ PoolSizes /\ AvailableExact
      /\ pc[t] = "locked" /\ Total(r) \in Nat /\ GoodPool(NewHost(r))
      /\ AvailableBlockCount(NewHost(r)) = Total(r)
      /\ \A u \in Threads \ {t} : ~InCriticalSection(u)
      /\ \A u \in Threads : Progress(u)
  BY Registering DEF RInv, IInv
<1>1. CASE UNCHANGED dataVars
  <2>1. Registered(Total(r)) \in Reply /\ Refusal("kHostAlreadyRegistered") \in Reply
        /\ Refusal("kInvalidArgument") \in Reply
    BY <1>0, ReplyTypes DEF RpcCode
  <2>2. PICK response \in Reply : Respond(t, response)
    BY <2>1 DEF RegisterMemory
  <2> QED BY <1>0, <1>1, <2>2, RespondRInv
<1>2. CASE /\ h \notin DOMAIN hosts_
           /\ available_blocks_ <= MaxWord - Total(r)
           /\ hosts_' = Emplace(hosts_, h, NewHost(r))
           /\ available_blocks_' = available_blocks_ + Total(r)
           /\ Respond(t, Registered(Total(r)))
           /\ UNCHANGED key_index_
  <2> HIDE DEF r, h
  <2>1. Registered(Total(r)) \in Reply
    BY <1>0, ReplyTypes
  <2>2. Progress(t)'
    BY <1>0, <1>2, <2>1, RespondProgress
  <2>3. /\ DOMAIN hosts_' = DOMAIN hosts_ \cup {h} /\ hosts_'[h] = NewHost(r)
        /\ \A g \in DOMAIN hosts_ : hosts_'[g] = hosts_[g]
        /\ NewHost(r).registration = r /\ NewHost(r).total_blocks = Total(r)
    <3> DEFINE next == Emplace(hosts_, h, NewHost(r))
    <3>1. h \notin DOMAIN hosts_ /\ hosts_' = next
      BY <1>2
    <3>2. /\ DOMAIN next = DOMAIN hosts_ \cup {h} /\ next[h] = NewHost(r)
          /\ \A g \in DOMAIN hosts_ : next[g] = hosts_[g]
          /\ NewHost(r).registration = r /\ NewHost(r).total_blocks = Total(r)
      BY <3>1 DEF Emplace, NewHost
    <3> QED BY <3>1, <3>2
  <2>4. PoolSizes'
    BY <1>0, <2>3 DEF PoolSizes
  <2>5. \A op : UnderWay(op) = 0 /\ UnderWay(op)' = 0
    <3>1. \A op : UnderWay(op) = 0
      BY <1>0, HolderQuiet, QuietView
    <3>2. pc[t] # "update" /\ pc'[t] # "update" /\ writer' = writer
      BY <1>0, <1>2 DEF TypeOK, StateTyped, Respond, Goto, lockVars
    <3> QED BY <1>0, <3>1, <3>2, Bystander
  <2>6. /\ GoodPools(hosts_) /\ BlocksLeft = Left(hosts_)
        /\ GoodPools(hosts_') /\ BlocksLeft' = Left(hosts_')
    BY <1>0, PoolsGood, PoolsGoodNext
  <2>7. Left(hosts_') = Total(r) + Left(hosts_) /\ Left(hosts_) \in Nat
    BY <1>0, <1>2, <2>3, <2>6, LeftAdded, LeftType
  <2>8. available_blocks_ = BlocksLeft % W
    <3>1. BlocksLeft + 0 - 0 = BlocksLeft
      BY <2>6, <2>7
    <3> QED BY <1>0, <2>5, <3>1 DEF AvailableExact
  <2>9. W \in Nat \ {0} /\ available_blocks_ \in Nat /\ available_blocks_ + Total(r) < W
        /\ available_blocks_ + Total(r) \in Nat
    BY <1>0, <1>2, WordAssumption DEF TypeOK, StateTyped, Word
  <2> HIDE DEF W
  <2>10. available_blocks_' = (Left(hosts_) + Total(r)) % W
    <3>1. ((Left(hosts_) % W) + Total(r)) % W = (Left(hosts_) + Total(r)) % W
      BY <1>0, <2>7, <2>9, RestAdded
    <3>2. (available_blocks_ + Total(r)) % W = available_blocks_ + Total(r)
      BY <2>9, RestSmall
    <3> QED BY <1>2, <2>6, <2>8, <3>1, <3>2
  <2>11. AvailableExact'
    <3>1. BlocksLeft' + 0 - 0 = Left(hosts_) + Total(r)
      BY <1>0, <2>6, <2>7
    <3> QED BY <2>5, <2>10, <3>1 DEF AvailableExact, W
  <2>12. \A u \in Threads : Progress(u)'
    BY <1>0, <2>2, OthersProgress
  <2> QED BY <2>4, <2>11, <2>12 DEF RInv
<1> QED BY <1>1, <1>2 DEF RegisterMemory

(* What a handler in its loop can rely on.                                 *)
PoolOf(t) == hosts_[Host(t)]

(* It holds the lock alone, and its request, its locals and its pool are in *)
(* order.                                                                 *)
LEMMA InLoop ==
    ASSUME RInv, NEW t \in Threads, pc[t] = "update"
    PROVE  /\ t = writer /\ \A u \in Threads \ {t} : ~InCriticalSection(u)
           /\ request[t].op \in BatchOps /\ request[t].keys \in Seq(RawKeys)
           /\ Len(request[t].keys) \in Nat \ {0}
           /\ cursor[t] \in Nat \ {0} /\ cursor[t] <= Len(request[t].keys) + 1
           /\ Host(t) \in DOMAIN hosts_ /\ Host(t) \in HostIds
           /\ GoodPool(PoolOf(t)) /\ locations[t] \in Seq(KeyBlockLocation)
           /\ \A i \in 1..Len(request[t].keys) : RequestKeys(t)[i] \in Keys
           /\ \A i, j \in 1..Len(request[t].keys) :
                 RequestKeys(t)[i] = RequestKeys(t)[j] => i = j
           /\ \A op : Updating(op) <=> request[t].op = op
           /\ \A op : UnderWay(op) = IF request[t].op = op THEN cursor[t] - 1 ELSE 0
<1>1. IInv /\ TypeOK /\ StageOK(t)
  BY DEF RInv, IInv, HandlerOK
<1>2. request[t].op \in BatchOps
  BY <1>1 DEF StageOK
<1>3. t = writer /\ \A u \in Threads \ {t} : ~InCriticalSection(u)
  BY <1>1, <1>2, GuardOfInvariant, WriterAlone DEF WriteOps
<1>4. /\ request[t].keys \in Seq(RawKeys) /\ Len(request[t].keys) \in Nat \ {0}
      /\ Host(t) \in HostIds
      /\ \A i \in 1..Len(request[t].keys) : RequestKeys(t)[i] \in Keys
      /\ \A i, j \in 1..Len(request[t].keys) : RequestKeys(t)[i] = RequestKeys(t)[j] => i = j
  BY <1>1, <1>2, BatchKeys
<1>5. /\ cursor[t] \in Nat \ {0} /\ cursor[t] <= Len(request[t].keys) + 1
      /\ Host(t) \in DOMAIN hosts_ /\ locations[t] \in Seq(KeyBlockLocation)
  BY <1>1 DEF TypeOK, StateTyped, StageOK
<1>6. GoodPool(PoolOf(t))
  BY <1>1, <1>5, PoolsGood DEF GoodPools, PoolOf
<1>7. \A op : Updating(op) <=> request[t].op = op
  BY <1>3, ThreadAssumption DEF Updating, Reaches
<1>8. \A op : UnderWay(op) = IF request[t].op = op THEN cursor[t] - 1 ELSE 0
  BY <1>3, <1>7 DEF UnderWay
<1> QED BY <1>1, <1>2, <1>3, <1>4, <1>5, <1>6, <1>7, <1>8

(* The loops before and after a step of one.                               *)
LEMMA InLoopNext ==
    ASSUME NEW t \in Threads, t = writer, writer' = writer
    PROVE  /\ \A op : Updating(op)' <=> pc'[t] = "update" /\ request'[t].op = op
           /\ \A op : UnderWay(op)' =
                 IF pc'[t] = "update" /\ request'[t].op = op THEN cursor'[t] - 1 ELSE 0
<1>1. \A op : Updating(op)' <=> pc'[t] = "update" /\ request'[t].op = op
  BY ThreadAssumption DEF Updating, Reaches
<1> QED BY <1>1 DEF UnderWay

(* A batch that passes its checks has done nothing yet.                    *)
LEMMA StartRInv ==
    ASSUME RInv, IInv', NEW t \in Threads, WholeFrame(t), pc[t] = "locked", Start(t),
           Progress(t)'
    PROVE  RInv'
<1>1. IInv /\ TypeOK /\ StageOK(t) /\ PoolSizes /\ AvailableExact
      /\ \A u \in Threads : Progress(u)
  BY DEF RInv, IInv, HandlerOK
<1>2. /\ UNCHANGED <<hosts_, key_index_, available_blocks_>>
      /\ pc'[t] = "update" /\ cursor'[t] = 1 /\ writer' = writer
  BY <1>1, StartedLocals DEF TypeOK, Start, dataVars, lockVars
<1>3. \A op : UnderWay(op) = 0
  BY <1>1, HolderQuiet, QuietView
<1>4. \A op : UnderWay(op)' = 0
  <2>1. CASE t = writer
    BY <1>2, <2>1, InLoopNext
  <2>2. CASE t # writer
    <3>1. \A op : ~Updating(op)
      BY <1>1, HolderQuiet
    <3>2. writer # NoThread => writer \in Threads \ {t} /\ pc[writer] = pc'[writer]
      BY <1>1, <2>2 DEF TypeOK, StateTyped, WholeFrame, Frame
    <3>3. \A op : Updating(op)' => Updating(op)
      BY <1>2, <3>2 DEF Updating, Reaches, WholeFrame, Frame
    <3> QED BY <3>1, <3>3 DEF UnderWay
  <2> QED BY <2>1, <2>2
<1>5. AvailableExact' /\ PoolSizes'
  BY <1>1, <1>2, <1>3, <1>4, CountKept, SizesKept
<1>6. \A u \in Threads : Progress(u)'
  BY <1>1, <1>2, OthersProgress
<1> QED BY <1>5, <1>6 DEF RInv

(* The checks of AllocBlocks.  *)
LEMMA AllocCheckRInv ==
    ASSUME RInv, IInv', NEW t \in Threads, WholeFrame(t), AllocCheck(t)
    PROVE  RInv'
<1>0. /\ TypeOK /\ StageOK(t) /\ Progress(t)
      /\ pc[t] = "locked" /\ request[t].op = "AllocBlocks"
  BY DEF RInv, IInv, HandlerOK, AllocCheck, Reaches
<1>1. CASE AllocError(t) # "kOk"
  <2>1. Respond(t, Refusal(AllocError(t))) /\ UNCHANGED dataVars
    BY <1>1 DEF AllocCheck
  <2>2. Refusal(AllocError(t)) \in Reply
    BY ReplyTypes DEF AllocError, RpcCode
  <2> QED BY <1>0, <2>1, <2>2, RespondRInv
<1>2. CASE AllocError(t) = "kOk"
  <2>1. Start(t) /\ locations' = locations
    BY <1>2 DEF AllocCheck
  <2>2. /\ pc'[t] = "update" /\ cursor'[t] = 1 /\ request'[t] = request[t]
        /\ locations'[t] = << >> /\ reply'[t] = NoReply
    BY <1>0, <2>1, StartedLocals DEF TypeOK, Progress, Owes, Start
  <2>3. 1..(cursor'[t] - 1) = {} /\ Len(locations'[t]) = cursor'[t] - 1
    BY <2>2
  <2>4. Progress(t)'
    BY <1>0, <2>2, <2>3
       DEF Progress, Owes, AllocProgress, FreeProgress, ScanProgress, Reaches
  <2> QED BY <1>0, <2>1, <2>4, StartRInv
<1> QED BY <1>1, <1>2

(* The checks of FreeBlocks, which collect the locations to free.  *)
LEMMA FreeCheckRInv ==
    ASSUME RInv, IInv', NEW t \in Threads, WholeFrame(t), FreeCheck(t)
    PROVE  RInv'
<1>0. /\ TypeOK /\ StageOK(t) /\ Progress(t)
      /\ pc[t] = "locked" /\ request[t].op = "FreeBlocks"
  BY DEF RInv, IInv, HandlerOK, FreeCheck, Reaches
<1>1. CASE FreeError(t) # "kOk"
  <2>1. Respond(t, Refusal(FreeError(t))) /\ UNCHANGED dataVars
    BY <1>1 DEF FreeCheck
  <2>2. Refusal(FreeError(t)) \in Reply
    BY ReplyTypes DEF FreeError, RpcCode
  <2> QED BY <1>0, <2>1, <2>2, RespondRInv
<1>2. CASE FreeError(t) = "kOk"
  <2> DEFINE toFree == [i \in DOMAIN RequestKeys(t) |->
                          [key      |-> RequestKeys(t)[i],
                           host_id  |-> Host(t),
                           block_id |-> key_index_[RequestKeys(t)[i]].block_id]]
  <2>1. Start(t) /\ locations' = [locations EXCEPT ![t] = toFree]
    BY <1>2 DEF FreeCheck
  <2>2. /\ pc'[t] = "update" /\ cursor'[t] = 1 /\ request'[t] = request[t]
        /\ reply'[t] = NoReply /\ locations'[t] = toFree
        /\ hosts_' = hosts_ /\ key_index_' = key_index_
    BY <1>0, <2>1, StartedLocals DEF TypeOK, Progress, Owes, Start, TypeOK, StateTyped, dataVars
  <2>3. /\ RequestKeys(t)' = RequestKeys(t) /\ Host(t)' = Host(t)
        /\ DOMAIN RequestKeys(t) = 1..Len(request[t].keys)
    BY <1>0, <2>2, BatchKeys DEF RequestKeys, Host, BatchOps
  <2>4. \A i \in 1..Len(request[t].keys) :
           toFree[i].key = RequestKeys(t)[i] /\ toFree[i].host_id = Host(t)
    BY <2>3
  <2>5. Host(t) \in DOMAIN hosts_ /\ Len(hosts_[Host(t)].recycled_blocks) \in Nat
    <3>1. Host(t) \in DOMAIN hosts_
      BY <1>2 DEF FreeError
    <3> QED BY <1>0, <3>1 DEF TypeOK, StateTyped, HostMemory
  <2>6. 1..(cursor'[t] - 1) = {} /\ cursor'[t] - 1 <= Len(hosts_[Host(t)].recycled_blocks)
    BY <2>2, <2>5
  <2> HIDE DEF toFree
  <2>7. FreeProgress(t)'
    BY <2>2, <2>3, <2>4, <2>6 DEF FreeProgress
  <2>8. Progress(t)'
    BY <1>0, <2>2, <2>7 DEF Progress, Owes, AllocProgress, ScanProgress, Reaches
  <2> QED BY <1>0, <2>1, <2>8, StartRInv
<1> QED BY <1>1, <1>2

-----------------------------------------------------------------------------
(* One key of a loop.  *)

KeyAt(t) == RequestKeys(t)[cursor[t]]

Item(t) == [key |-> KeyAt(t), host_id |-> Host(t), block_id |-> NextBlock(PoolOf(t))]

(* What an iteration of AllocBlocks does.                                  *)
LEMMA AllocKeyChanges ==
    ASSUME RInv, NEW t \in Threads, AllocKey(t)
    PROVE  /\ pc[t] = "update" /\ request[t].op = "AllocBlocks"
           /\ cursor[t] \in 1..Len(request[t].keys)
           /\ AvailableBlockCount(PoolOf(t)) > 0
           /\ DOMAIN hosts_' = DOMAIN hosts_ /\ hosts_'[Host(t)] = AllocateOne(PoolOf(t))
           /\ \A g \in DOMAIN hosts_ \ {Host(t)} : hosts_'[g] = hosts_[g]
           /\ \A i \in cursor[t]..Len(request[t].keys) :
                 RequestKeys(t)[i] \notin DOMAIN key_index_
           /\ KeyAt(t) \notin DOMAIN key_index_ /\ Item(t) \in KeyBlockLocation
           /\ key_index_' = Emplace(key_index_, KeyAt(t), Place(Item(t)))
           /\ locations'[t] = Append(locations[t], Item(t))
           /\ cursor'[t] = cursor[t] + 1
           /\ UNCHANGED <<pc, request, matches, best, reply, lockVars, available_blocks_>>
<1>0. /\ IInv /\ TypeOK /\ ChecksHold(t) /\ Covered(t)
      /\ pc[t] = "update" /\ request[t].op = "AllocBlocks"
      /\ cursor[t] <= Len(request[t].keys)
  BY DEF RInv, IInv, ChecksStillHold, AllocCovered, AllocKey, Looping, Reaches
<1>1. /\ Len(request[t].keys) \in Nat /\ cursor[t] \in Nat \ {0}
      /\ Host(t) \in DOMAIN hosts_ /\ Host(t) \in HostIds
      /\ GoodPool(PoolOf(t)) /\ locations[t] \in Seq(KeyBlockLocation)
      /\ \A i \in 1..Len(request[t].keys) : RequestKeys(t)[i] \in Keys
  BY <1>0, InLoop
<1>2. cursor[t] \in 1..Len(request[t].keys) /\ cursor[t] \in cursor[t]..Len(request[t].keys)
  BY <1>0, <1>1
<1>3. \A i \in cursor[t]..Len(request[t].keys) : RequestKeys(t)[i] \notin DOMAIN key_index_
  BY <1>0 DEF ChecksHold, AllocChecked, Reaches
<1>4. KeyAt(t) \notin DOMAIN key_index_ /\ KeyAt(t) \in Keys
  BY <1>1, <1>2, <1>3 DEF KeyAt
<1>5. AvailableBlockCount(PoolOf(t)) > 0
  <2>1. Len(request[t].keys) - cursor[t] + 1 <= AvailableBlockCount(PoolOf(t))
    BY <1>0 DEF Covered, Reaches, PoolOf
  <2>2. AvailableBlockCount(PoolOf(t)) \in Nat
    BY <1>1, PoolAvailable DEF GoodPool
  <2> QED BY <1>0, <1>1, <2>1, <2>2
<1>6. NextBlock(PoolOf(t)) \in Nat
  BY <1>1, <1>5, AllocateOnePool DEF GoodPool
<1>7. Item(t) \in KeyBlockLocation
  BY <1>1, <1>4, <1>6 DEF Item, KeyBlockLocation
<1>8. /\ hosts_' = [hosts_ EXCEPT ![Host(t)] = AllocateOne(PoolOf(t))]
      /\ key_index_' = Emplace(key_index_, KeyAt(t), Place(Item(t)))
      /\ locations' = [locations EXCEPT ![t] = Append(@, Item(t))]
      /\ cursor' = [cursor EXCEPT ![t] = @ + 1]
      /\ UNCHANGED <<pc, request, matches, best, reply, lockVars, available_blocks_>>
  BY DEF AllocKey, PoolOf, KeyAt, Item, Place
<1>9. /\ locations'[t] = Append(locations[t], Item(t)) /\ cursor'[t] = cursor[t] + 1
      /\ DOMAIN hosts_' = DOMAIN hosts_ /\ hosts_'[Host(t)] = AllocateOne(PoolOf(t))
      /\ \A g \in DOMAIN hosts_ \ {Host(t)} : hosts_'[g] = hosts_[g]
  BY <1>0, <1>1, <1>8 DEF TypeOK, StateTyped
<1> QED BY <1>0, <1>2, <1>3, <1>4, <1>5, <1>7, <1>8, <1>9

(* A key taken from the pool is counted as under way.                      *)
LEMMA AllocKeyRInv ==
    ASSUME RInv, IInv', NEW t \in Threads, WholeFrame(t), AllocKey(t)
    PROVE  RInv'
<1> DEFINE c == cursor[t]
           n == Len(request[t].keys)
           H == Host(t)
           m == PoolOf(t)
           item == Item(t)
           keys == RequestKeys(t)
<1>0. /\ IInv /\ TypeOK /\ PoolSizes /\ AvailableExact /\ Progress(t)
      /\ \A u \in Threads : Progress(u)
  BY DEF RInv, IInv
<1>1. /\ pc[t] = "update" /\ request[t].op = "AllocBlocks" /\ c \in 1..n
      /\ AvailableBlockCount(m) > 0
      /\ DOMAIN hosts_' = DOMAIN hosts_ /\ hosts_'[H] = AllocateOne(m)
      /\ \A g \in DOMAIN hosts_ \ {H} : hosts_'[g] = hosts_[g]
      /\ KeyAt(t) \notin DOMAIN key_index_ /\ item \in KeyBlockLocation
      /\ key_index_' = Emplace(key_index_, KeyAt(t), Place(item))
      /\ locations'[t] = Append(locations[t], item) /\ cursor'[t] = c + 1
      /\ UNCHANGED <<pc, request, matches, best, reply, lockVars, available_blocks_>>
  BY AllocKeyChanges
<1>2. /\ t = writer /\ \A u \in Threads \ {t} : ~InCriticalSection(u)
      /\ n \in Nat /\ c \in Nat \ {0} /\ H \in DOMAIN hosts_
      /\ GoodPool(m) /\ locations[t] \in Seq(KeyBlockLocation)
      /\ UnderWay("AllocBlocks") = c - 1 /\ UnderWay("FreeBlocks") = 0
  BY <1>1, InLoop
<1>3. UnderWay("AllocBlocks")' = c /\ UnderWay("FreeBlocks")' = 0
  <2>1. writer' = writer /\ pc' = pc /\ request' = request
    BY <1>1 DEF lockVars
  <2>2. /\ UnderWay("AllocBlocks")' = cursor'[t] - 1 /\ UnderWay("FreeBlocks")' = 0
    BY <1>1, <1>2, <2>1, InLoopNext
  <2> QED BY <1>1, <1>2, <2>2
<1>4. m = hosts_[H]
  BY DEF PoolOf
<1> HIDE DEF c, n, H, m, item, keys
<1>5. /\ AllocateOne(m) \in HostMemory /\ AllocateOne(m).registration = m.registration
      /\ AvailableBlockCount(AllocateOne(m)) = AvailableBlockCount(m) - 1
      /\ AvailableBlockCount(m) \in Nat
      /\ AllocateOne(m).total_blocks = m.total_blocks
  <2>1. m \in HostMemory /\ Partitioned(m) /\ Accounted(m)
    BY <1>2 DEF GoodPool
  <2>2. AllocateOne(m).total_blocks = m.total_blocks
    BY <2>1 DEF AllocateOne, HostMemory
  <2> QED BY <1>1, <2>1, <2>2, AllocateOnePool, PoolAvailable
<1>6. PoolSizes'
  BY <1>0, <1>1, <1>2, <1>4, <1>5 DEF PoolSizes
<1>7. AvailableExact'
  <2>1. /\ GoodPools(hosts_) /\ BlocksLeft = Left(hosts_)
        /\ GoodPools(hosts_') /\ BlocksLeft' = Left(hosts_')
    BY <1>0, PoolsGood, PoolsGoodNext
  <2>2. Left(hosts_) \in Nat /\ Left(hosts_') \in Nat
    BY <2>1, LeftType
  <2>3. Left(hosts_') - AvailableBlockCount(hosts_'[H]) =
           Left(hosts_) - AvailableBlockCount(hosts_[H])
    BY <1>1, <1>2, <2>1, LeftChanged
  <2>4. Left(hosts_') = Left(hosts_) - 1
    BY <1>1, <1>4, <1>5, <2>2, <2>3
  <2>5. BlocksLeft' + c - 0 = BlocksLeft + (c - 1) - 0
    BY <1>2, <2>1, <2>2, <2>4
  <2>6. available_blocks_' = available_blocks_
    BY <1>1
  <2> QED BY <1>0, <1>2, <1>3, <2>5, <2>6 DEF AvailableExact
<1>8. /\ RequestKeys(t)' = keys /\ Host(t)' = H /\ request'[t] = request[t]
      /\ pc'[t] = pc[t] /\ reply'[t] = reply[t]
  BY <1>1 DEF RequestKeys, Host, keys, H
<1>9. AllocProgress(t)'
  <2>1. /\ Len(locations[t]) = c - 1
        /\ \A i \in 1..(c - 1) :
              /\ locations[t][i].key = keys[i]
              /\ locations[t][i].host_id = H
              /\ keys[i] \in DOMAIN key_index_
              /\ key_index_[keys[i]] = [host_id |-> H, block_id |-> locations[t][i].block_id]
    BY <1>0, <1>1 DEF Progress, AllocProgress, Reaches, c, keys, H
  <2>2. /\ Len(locations'[t]) = c /\ locations'[t][c] = item
        /\ \A i \in 1..(c - 1) : locations'[t][i] = locations[t][i]
    BY <1>1, <1>2, <2>1
  <2>3. /\ DOMAIN key_index_' = DOMAIN key_index_ \cup {KeyAt(t)}
        /\ key_index_'[KeyAt(t)] = Place(item)
        /\ \A k \in DOMAIN key_index_ : key_index_'[k] = key_index_[k]
    BY <1>1 DEF Emplace
  <2>4. item.key = KeyAt(t) /\ item.host_id = H /\ KeyAt(t) = keys[c]
    BY DEF item, Item, H, KeyAt, keys, c
  <2>5. ASSUME NEW i \in 1..c
        PROVE  /\ locations'[t][i].key = keys[i]
               /\ locations'[t][i].host_id = H
               /\ keys[i] \in DOMAIN key_index_'
               /\ key_index_'[keys[i]] =
                     [host_id |-> H, block_id |-> locations'[t][i].block_id]
    <3>1. CASE i = c
      BY <2>2, <2>3, <2>4, <3>1 DEF Place
    <3>2. CASE i # c
      <4>1. i \in 1..(c - 1)
        BY <1>2, <3>2
      <4> QED BY <2>1, <2>2, <2>3, <4>1
    <3> QED BY <3>1, <3>2
  <2>6. c + 1 - 1 = c
    BY <1>2
  <2> QED BY <1>1, <1>8, <2>2, <2>5, <2>6 DEF AllocProgress
<1>10. Progress(t)'
  BY <1>0, <1>1, <1>8, <1>9 DEF Progress, Owes, FreeProgress, ScanProgress, Reaches
<1>11. \A u \in Threads : Progress(u)'
  BY <1>0, <1>2, <1>10, OthersProgress
<1> QED BY <1>6, <1>7, <1>11 DEF RInv

(* What an iteration of FreeBlocks does.                                   *)
LEMMA FreeKeyChanges ==
    ASSUME RInv, NEW t \in Threads, FreeKey(t)
    PROVE  /\ pc[t] = "update" /\ request[t].op = "FreeBlocks"
           /\ cursor[t] \in 1..Len(request[t].keys)
           /\ Len(locations[t]) = Len(request[t].keys)
           /\ \A i \in 1..Len(request[t].keys) :
                 /\ locations[t][i].key = RequestKeys(t)[i]
                 /\ locations[t][i].host_id = Host(t)
           /\ cursor[t] - 1 \in 0..Len(PoolOf(t).recycled_blocks)
           /\ \A i \in 1..(cursor[t] - 1) :
                 /\ RequestKeys(t)[i] \notin DOMAIN key_index_
                 /\ LastRecycled(PoolOf(t), cursor[t] - 1, i) = locations[t][i].block_id
           /\ locations[t][cursor[t]].block_id \in PoolOf(t).allocated_blocks
           /\ KeyAt(t) \in DOMAIN key_index_
           /\ key_index_[KeyAt(t)] = Place(locations[t][cursor[t]])
           /\ DOMAIN hosts_' = DOMAIN hosts_
           /\ hosts_'[Host(t)] = FreeOne(PoolOf(t), locations[t][cursor[t]].block_id)
           /\ \A g \in DOMAIN hosts_ \ {Host(t)} : hosts_'[g] = hosts_[g]
           /\ key_index_' = Erase(key_index_, KeyAt(t))
           /\ cursor'[t] = cursor[t] + 1
           /\ UNCHANGED <<pc, request, locations, matches, best, reply, lockVars,
                          available_blocks_>>
<1>0. /\ IInv /\ TypeOK /\ StageOK(t) /\ ChecksHold(t) /\ Progress(t)
      /\ pc[t] = "update" /\ request[t].op = "FreeBlocks"
      /\ cursor[t] <= Len(request[t].keys)
  BY DEF RInv, IInv, HandlerOK, ChecksStillHold, FreeKey, Looping, Reaches
<1>1. /\ Len(request[t].keys) \in Nat /\ cursor[t] \in Nat \ {0}
      /\ Host(t) \in DOMAIN hosts_ /\ GoodPool(PoolOf(t))
  BY <1>0, InLoop
<1>2. cursor[t] \in 1..Len(request[t].keys) /\ cursor[t] \in cursor[t]..Len(request[t].keys)
  BY <1>0, <1>1
<1>3. Len(locations[t]) = Len(request[t].keys)
  BY <1>0 DEF StageOK
<1>4. /\ cursor[t] - 1 <= Len(PoolOf(t).recycled_blocks)
      /\ \A i \in 1..Len(request[t].keys) :
            locations[t][i].key = RequestKeys(t)[i] /\ locations[t][i].host_id = Host(t)
      /\ \A i \in 1..(cursor[t] - 1) :
            /\ RequestKeys(t)[i] \notin DOMAIN key_index_
            /\ LastRecycled(PoolOf(t), cursor[t] - 1, i) = locations[t][i].block_id
  BY <1>0 DEF Progress, FreeProgress, Reaches, PoolOf
<1>5. cursor[t] - 1 \in 0..Len(PoolOf(t).recycled_blocks)
  <2>1. Len(PoolOf(t).recycled_blocks) \in Nat
    BY <1>1 DEF GoodPool, HostMemory
  <2> QED BY <1>1, <1>4, <2>1
<1>6. /\ KeyAt(t) \in DOMAIN key_index_
      /\ key_index_[KeyAt(t)] = [host_id |-> Host(t), block_id |-> locations[t][cursor[t]].block_id]
  BY <1>0, <1>2 DEF ChecksHold, FreeChecked, Reaches, KeyAt
<1>7. key_index_[KeyAt(t)] = Place(locations[t][cursor[t]])
  BY <1>2, <1>4, <1>6 DEF Place
<1>8. locations[t][cursor[t]].block_id \in PoolOf(t).allocated_blocks
  BY <1>0, <1>6 DEF IInv, IndexMatchesPools, PoolOf
<1>9. /\ hosts_' = [hosts_ EXCEPT ![Host(t)] =
                       FreeOne(PoolOf(t), locations[t][cursor[t]].block_id)]
      /\ key_index_' = Erase(key_index_, KeyAt(t))
      /\ cursor' = [cursor EXCEPT ![t] = @ + 1]
      /\ UNCHANGED <<pc, request, locations, matches, best, reply, lockVars,
                     available_blocks_>>
  BY DEF FreeKey, PoolOf, KeyAt
<1>10. /\ cursor'[t] = cursor[t] + 1
       /\ DOMAIN hosts_' = DOMAIN hosts_
       /\ hosts_'[Host(t)] = FreeOne(PoolOf(t), locations[t][cursor[t]].block_id)
       /\ \A g \in DOMAIN hosts_ \ {Host(t)} : hosts_'[g] = hosts_[g]
  BY <1>0, <1>1, <1>9 DEF TypeOK, StateTyped
<1> QED BY <1>0, <1>2, <1>3, <1>4, <1>5, <1>6, <1>7, <1>8, <1>9, <1>10

(* A block returned to the pool is counted as under way.                   *)
LEMMA FreeKeyRInv ==
    ASSUME RInv, IInv', NEW t \in Threads, WholeFrame(t), FreeKey(t)
    PROVE  RInv'
<1> DEFINE c == cursor[t]
           n == Len(request[t].keys)
           H == Host(t)
           m == PoolOf(t)
           list == locations[t]
           block == list[c].block_id
           keys == RequestKeys(t)
           key == KeyAt(t)
<1>0. /\ IInv /\ TypeOK /\ PoolSizes /\ AvailableExact /\ Progress(t)
      /\ \A u \in Threads : Progress(u)
  BY DEF RInv, IInv
<1>1. /\ pc[t] = "update" /\ request[t].op = "FreeBlocks" /\ c \in 1..n
      /\ \A i \in 1..n : list[i].key = keys[i] /\ list[i].host_id = H
      /\ c - 1 \in 0..Len(m.recycled_blocks)
      /\ \A i \in 1..(c - 1) :
            keys[i] \notin DOMAIN key_index_ /\ LastRecycled(m, c - 1, i) = list[i].block_id
      /\ block \in m.allocated_blocks /\ key \in DOMAIN key_index_
      /\ DOMAIN hosts_' = DOMAIN hosts_ /\ hosts_'[H] = FreeOne(m, block)
      /\ \A g \in DOMAIN hosts_ \ {H} : hosts_'[g] = hosts_[g]
      /\ key_index_' = Erase(key_index_, key) /\ cursor'[t] = c + 1
      /\ UNCHANGED <<pc, request, locations, matches, best, reply, lockVars, available_blocks_>>
  BY FreeKeyChanges
<1>2. /\ t = writer /\ \A u \in Threads \ {t} : ~InCriticalSection(u)
      /\ n \in Nat /\ c \in Nat \ {0} /\ H \in DOMAIN hosts_ /\ GoodPool(m)
      /\ UnderWay("FreeBlocks") = c - 1 /\ UnderWay("AllocBlocks") = 0
  BY <1>1, InLoop
<1>3. UnderWay("FreeBlocks")' = c /\ UnderWay("AllocBlocks")' = 0
  <2>1. writer' = writer /\ pc' = pc /\ request' = request
    BY <1>1 DEF lockVars
  <2>2. /\ UnderWay("FreeBlocks")' = cursor'[t] - 1 /\ UnderWay("AllocBlocks")' = 0
    BY <1>1, <1>2, <2>1, InLoopNext
  <2> QED BY <1>1, <1>2, <2>2
<1>4. m = hosts_[H] /\ key = keys[c]
  BY DEF PoolOf, KeyAt
<1> HIDE DEF c, n, H, m, list, block, keys, key
<1>5. /\ FreeOne(m, block).registration = m.registration
      /\ FreeOne(m, block).total_blocks = m.total_blocks
      /\ AvailableBlockCount(FreeOne(m, block)) = AvailableBlockCount(m) + 1
      /\ AvailableBlockCount(m) \in Nat
  <2>1. m \in HostMemory /\ Partitioned(m) /\ Accounted(m)
    BY <1>2 DEF GoodPool
  <2>2. /\ FreeOne(m, block) \in HostMemory /\ Partitioned(FreeOne(m, block))
        /\ Accounted(FreeOne(m, block)) /\ FreeOne(m, block).registration = m.registration
    BY <1>1, <2>1, FreeOnePool
  <2>3. /\ FreeOne(m, block).total_blocks = m.total_blocks
        /\ FreeOne(m, block).next_fresh_block = m.next_fresh_block
    BY <2>1 DEF FreeOne, HostMemory
  <2>4. Len(FreeOne(m, block).recycled_blocks) = Len(m.recycled_blocks) + 1
    BY <1>1, <1>2, ReturnOne
  <2>5. /\ m.total_blocks \in Nat /\ m.next_fresh_block \in Nat
        /\ Len(m.recycled_blocks) \in Nat
    BY <2>1 DEF HostMemory
  <2>6. /\ AvailableBlockCount(m) \in Nat
        /\ AvailableBlockCount(m) =
              m.total_blocks - m.next_fresh_block + Len(m.recycled_blocks)
    BY <2>1, PoolAvailable
  <2>7. AvailableBlockCount(FreeOne(m, block)) =
           m.total_blocks - m.next_fresh_block + (Len(m.recycled_blocks) + 1)
    BY <2>2, <2>3, <2>4, PoolAvailable
  <2>8. AvailableBlockCount(FreeOne(m, block)) = AvailableBlockCount(m) + 1
    BY <2>5, <2>6, <2>7
  <2> QED BY <2>2, <2>3, <2>6, <2>8
<1>6. PoolSizes'
  BY <1>0, <1>1, <1>2, <1>4, <1>5 DEF PoolSizes
<1>7. AvailableExact'
  <2>1. /\ GoodPools(hosts_) /\ BlocksLeft = Left(hosts_)
        /\ GoodPools(hosts_') /\ BlocksLeft' = Left(hosts_')
    BY <1>0, PoolsGood, PoolsGoodNext
  <2>2. Left(hosts_) \in Nat /\ Left(hosts_') \in Nat
    BY <2>1, LeftType
  <2>3. Left(hosts_') - AvailableBlockCount(hosts_'[H]) =
           Left(hosts_) - AvailableBlockCount(hosts_[H])
    BY <1>1, <1>2, <2>1, LeftChanged
  <2>4. Left(hosts_') = Left(hosts_) + 1
    BY <1>1, <1>4, <1>5, <2>2, <2>3
  <2>5. BlocksLeft' + 0 - c = BlocksLeft + 0 - (c - 1)
    BY <1>2, <2>1, <2>2, <2>4
  <2>6. available_blocks_' = available_blocks_
    BY <1>1
  <2> QED BY <1>0, <1>2, <1>3, <2>5, <2>6 DEF AvailableExact
<1>8. /\ RequestKeys(t)' = keys /\ Host(t)' = H /\ request'[t] = request[t]
      /\ pc'[t] = pc[t] /\ reply'[t] = reply[t] /\ locations'[t] = list
  BY <1>1 DEF RequestKeys, Host, keys, H, list
<1>9. FreeProgress(t)'
  <2>1. /\ c - 1 \in Nat /\ c - 1 + 1 = c /\ c + 1 - 1 = c
        /\ \A i \in 1..c : i \in 1..(c - 1) \/ i = c
    BY <1>2
  <2>2. /\ Len(FreeOne(m, block).recycled_blocks) = Len(m.recycled_blocks) + 1
        /\ LastRecycled(FreeOne(m, block), c - 1 + 1, c - 1 + 1) = block
        /\ \A i \in 1..(c - 1) :
              LastRecycled(FreeOne(m, block), c - 1 + 1, i) = LastRecycled(m, c - 1, i)
    <3> DEFINE k == c - 1
    <3>1. k \in 0..Len(m.recycled_blocks) /\ block \in m.allocated_blocks
      BY <1>1
    <3> HIDE DEF k
    <3>2. /\ Len(FreeOne(m, block).recycled_blocks) = Len(m.recycled_blocks) + 1
          /\ LastRecycled(FreeOne(m, block), k + 1, k + 1) = block
          /\ \A i \in 1..k :
                LastRecycled(FreeOne(m, block), k + 1, i) = LastRecycled(m, k, i)
      BY <1>2, <3>1, ReturnOne
    <3> QED BY <3>2 DEF k
  <2>3. Len(m.recycled_blocks) \in Nat
    BY <1>2 DEF GoodPool, HostMemory
  <2>4. c <= Len(FreeOne(m, block).recycled_blocks)
    BY <1>1, <1>2, <2>2, <2>3
  <2>5. DOMAIN key_index_' = DOMAIN key_index_ \ {key}
    BY <1>1 DEF Erase
  <2>6. LastRecycled(FreeOne(m, block), c, c) = block
    BY <2>1, <2>2
  <2>7. ASSUME NEW i \in 1..c
        PROVE  /\ keys[i] \notin DOMAIN key_index_'
               /\ LastRecycled(hosts_'[H], c, i) = list[i].block_id
    <3>1. CASE i = c
      BY <1>1, <1>4, <2>5, <2>6, <3>1 DEF block
    <3>2. CASE i \in 1..(c - 1)
      BY <1>1, <2>1, <2>2, <2>5, <3>2
    <3> QED BY <2>1, <3>1, <3>2
  <2> QED BY <1>1, <1>8, <2>1, <2>4, <2>7 DEF FreeProgress, n
<1>10. Progress(t)'
  BY <1>0, <1>1, <1>8, <1>9 DEF Progress, Owes, AllocProgress, ScanProgress, Reaches
<1>11. \A u \in Threads : Progress(u)'
  BY <1>0, <1>2, <1>10, OthersProgress
<1> QED BY <1>6, <1>7, <1>11 DEF RInv

-----------------------------------------------------------------------------
(* The end of a loop counts its blocks in or out.                          *)
LEMMA LoopDoneRInv ==
    ASSUME RInv, IInv', NEW t \in Threads, WholeFrame(t), AllocDone(t) \/ FreeDone(t)
    PROVE  RInv'
<1> DEFINE n == Len(request[t].keys)
           W == MaxWord + 1
<1>0. /\ IInv /\ TypeOK /\ PoolSizes /\ AvailableExact
      /\ pc[t] = "update" /\ request[t].op \in {"AllocBlocks", "FreeBlocks"}
      /\ cursor[t] > n /\ UNCHANGED <<hosts_, key_index_>>
      /\ \A u \in Threads : Progress(u)
  BY DEF RInv, IInv, AllocDone, FreeDone, Looped, Reaches
<1>1. /\ t = writer /\ n \in Nat /\ cursor[t] = n + 1
      /\ locations[t] \in Seq(KeyBlockLocation)
      /\ \A op : UnderWay(op) = IF request[t].op = op THEN cursor[t] - 1 ELSE 0
  <2>1. /\ t = writer /\ n \in Nat /\ cursor[t] \in Nat /\ cursor[t] <= n + 1
        /\ locations[t] \in Seq(KeyBlockLocation)
        /\ \A op : UnderWay(op) = IF request[t].op = op THEN cursor[t] - 1 ELSE 0
    BY <1>0, InLoop
  <2> QED BY <1>0, <2>1
<1>2. Allocated(locations[t]) \in Reply /\ Freed(n) \in Reply
  BY <1>1, ReplyTypes
<1>3. PICK response \in Reply : Respond(t, response)
  BY <1>2 DEF AllocDone, FreeDone
<1>4. pc'[t] = "unlock" /\ writer' = writer
  BY <1>0, <1>3 DEF TypeOK, StateTyped, Respond, Goto, lockVars
<1>5. \A op : UnderWay(op)' = 0
  BY <1>1, <1>4, InLoopNext
<1>6. GoodPools(hosts_) /\ BlocksLeft = Left(hosts_) /\ BlocksLeft' = BlocksLeft
  BY <1>0, PoolsGood DEF BlocksLeft
<1>7. BlocksLeft \in Nat
  BY <1>6, LeftType
<1>8. W \in Nat \ {0}
  BY WordAssumption
<1>9. available_blocks_' = BlocksLeft % W
  <2>1. CASE AllocDone(t)
    <3>1. available_blocks_' = (available_blocks_ - n) % W /\ request[t].op = "AllocBlocks"
      BY <2>1 DEF AllocDone, Looped, Reaches
    <3>2. /\ UnderWay("AllocBlocks") = cursor[t] - 1 /\ UnderWay("FreeBlocks") = 0
      BY <1>1, <3>1
    <3>3. available_blocks_ = (BlocksLeft + (cursor[t] - 1) - 0) % W
      BY <1>0, <3>2 DEF AvailableExact
    <3> HIDE DEF W, n
    <3>4. /\ BlocksLeft + (cursor[t] - 1) - 0 = BlocksLeft + n
          /\ BlocksLeft + n \in Int /\ -n \in Int
          /\ BlocksLeft + n + (-n) = BlocksLeft
      BY <1>1, <1>7
    <3>6. ((BlocksLeft + n) % W) - n = ((BlocksLeft + n) % W) + (-n)
      <4> DEFINE rest == (BlocksLeft + n) % W
      <4>1. rest \in Int
        BY <1>8, <3>4, DivRest
      <4> HIDE DEF rest
      <4>2. rest - n = rest + (-n)
        BY <1>1, <4>1
      <4> QED BY <4>2 DEF rest
    <3>5. (((BlocksLeft + n) % W) + (-n)) % W = (BlocksLeft + n + (-n)) % W
      BY <1>8, <3>4, RestAdded
    <3> QED BY ONLY <3>1, <3>3, <3>4, <3>5, <3>6
  <2>2. CASE FreeDone(t)
    <3>1. available_blocks_' = (available_blocks_ + n) % W /\ request[t].op = "FreeBlocks"
      BY <2>2 DEF FreeDone, Looped, Reaches
    <3>2. /\ UnderWay("FreeBlocks") = cursor[t] - 1 /\ UnderWay("AllocBlocks") = 0
      BY <1>1, <3>1
    <3>3. available_blocks_ = (BlocksLeft + 0 - (cursor[t] - 1)) % W
      BY <1>0, <3>2 DEF AvailableExact
    <3> HIDE DEF W, n
    <3>4. /\ BlocksLeft + 0 - (cursor[t] - 1) = BlocksLeft - n
          /\ BlocksLeft - n \in Int /\ n \in Int
          /\ BlocksLeft - n + n = BlocksLeft
      BY <1>1, <1>7, <1>8
    <3>5. (((BlocksLeft - n) % W) + n) % W = (BlocksLeft - n + n) % W
      BY <1>8, <3>4, RestAdded
    <3> QED BY ONLY <3>1, <3>3, <3>4, <3>5
  <2> QED BY <2>1, <2>2
<1>10. AvailableExact'
  <2>1. BlocksLeft' + 0 - 0 = BlocksLeft
    BY <1>6, <1>7
  <2> QED BY <1>5, <1>9, <2>1 DEF AvailableExact
<1>11. PoolSizes'
  BY <1>0, SizesKept
<1>12. \A u \in Threads : Progress(u)'
  BY <1>0, <1>3, RespondProgress, OthersProgress
<1> QED BY <1>10, <1>11, <1>12 DEF RInv

(* Every step of every worker keeps the invariant.                         *)
LEMMA StepRInv == RInv /\ [Next]_vars => RInv'
<1> SUFFICES ASSUME RInv, [Next]_vars PROVE RInv'
  OBVIOUS
<1>1. IInv'
  BY StepInvariant DEF RInv
<1>2. CASE UNCHANGED vars
  <2>1. /\ UNCHANGED <<pc, request, cursor, locations, matches, best, reply, writer>>
        /\ UNCHANGED <<hosts_, key_index_, available_blocks_>>
    BY <1>2 DEF vars, threadVars, localVars, lockVars, dataVars
  <2>2. PoolSizes'
    BY <2>1 DEF RInv, PoolSizes
  <2>3. AvailableExact'
    BY <2>1 DEF RInv, AvailableExact, BlocksLeft, UnderWay, Updating, Reaches
  <2>4. ASSUME NEW t \in Threads PROVE Progress(t)'
    <3>1. /\ Progress(t) /\ RequestKeys(t)' = RequestKeys(t) /\ Host(t)' = Host(t)
          /\ \A ops : Reaches(t, "update", ops)' <=> Reaches(t, "update", ops)
          /\ \A h : On(t, h)' = On(t, h)
      BY <2>1 DEF RInv, RequestKeys, Host, Reaches, On
    <3>2. Owes(t)' /\ AllocProgress(t)' /\ FreeProgress(t)'
      BY <2>1, <3>1 DEF Progress, Owes, AllocProgress, FreeProgress
    <3>3. ScanProgress(t)'
      BY <2>1, <3>1 DEF Progress, ScanProgress
    <3> QED BY <3>2, <3>3 DEF Progress
  <2> QED BY <1>1, <2>2, <2>3, <2>4 DEF RInv
<1>3. ASSUME NEW t \in Threads, Call(t) \/ Handler(t) PROVE RInv'
  <2>1. WholeFrame(t)
    BY <1>3, WholeFrameOfStep DEF RInv, IInv
  <2> QED BY <1>1, <1>3, <2>1, OutsideRInv, RegisterRInv, AllocCheckRInv, AllocKeyRInv,
             FreeCheckRInv, FreeKeyRInv, LoopDoneRInv, ReadRInv, ScanKeyRInv DEF Handler
<1> QED BY <1>2, <1>3 DEF Next

(* In every reachable state each handler's locals account for what its      *)
(* loop has done, and the count of free blocks for what all have done.      *)
THEOREM ProgressInvariance == Spec => []RInv
BY InitRInv, StepRInv, PTL DEF Spec

(* available_blocks_ is the number of blocks the pools have left, modulo    *)
(* 2^64, in every state in which no loop is under way, however many hosts    *)
(* there are and however the batches of the workers follow one another.     *)
THEOREM AvailableSafe == Spec => []AvailableExact
BY ProgressInvariance, PTL DEF RInv

-----------------------------------------------------------------------------
(* The refinement: what a step of a handler is to the directory.           *)

View == <<Registrations, AbstractQueue, AbstractDirectory>>

(* A handler that replies answers a request that is waiting.               *)
LEMMA Answering ==
    ASSUME RInv, NEW t \in Threads, pc[t] \in {"validate", "locked", "update", "scan"},
           NEW response \in Reply,
           reply' = [reply EXCEPT ![t] = response], request' = request
    PROVE  /\ Unanswered[t] = request[t] /\ request[t] \in Request
           /\ request[t] # NoRequest /\ Directory!Answer(t, response)
<1>1. /\ StageOK(t) /\ Owes(t) /\ reply \in [Threads -> Reply \cup {NoReply}]
  BY DEF RInv, IInv, HandlerOK, Progress, TypeOK, StateTyped
<1>2. request[t] \in Request /\ reply[t] = NoReply
  BY <1>1 DEF StageOK, Owes
<1>3. request[t] # NoRequest /\ response # NoReply
  BY <1>2, ThreadAssumption
<1>4. Unanswered[t] = request[t]
  BY <1>2 DEF Unanswered
<1>5. Unanswered' = [Unanswered EXCEPT ![t] = NoRequest]
  <2>1. reply'[t] = response /\ \A u \in Threads \ {t} : reply'[u] = reply[u]
    BY <1>1
  <2>2. \A u \in Threads : (IF reply'[u] = NoReply THEN request'[u] ELSE NoRequest) =
           (IF u = t THEN NoRequest ELSE Unanswered[u])
    BY <1>3, <2>1 DEF Unanswered
  <2> QED BY <2>2 DEF Unanswered
<1> QED BY <1>2, <1>3, <1>4, <1>5 DEF Directory!Answer

(* A step that neither replies nor shows in the directory.                 *)
LEMMA Silent ==
    ASSUME UNCHANGED View, UNCHANGED Unanswered, UNCHANGED reply
    PROVE  [Directory!Next]_(Directory!vars)
BY DEF View, Directory!vars

(* A step without a request or a reply leaves the waiting requests alone. *)
LEMMA SameWaiting ==
    ASSUME UNCHANGED <<reply, request>>
    PROVE  UNCHANGED Unanswered
BY DEF Unanswered

(* A request takes effect.                                                 *)
LEMMA Effect ==
    ASSUME NEW t \in Threads, Directory!TakeEffect(t)
    PROVE  [Directory!Next]_(Directory!vars)
BY DEF Directory!Next

(* An error is a refusal of the directory's.                               *)
LEMMA RefusedAtOnce ==
    ASSUME RInv, NEW t \in Threads, Validate(t), WholeFrame(t),
           ValidateRequest(request[t]) # "kOk"
    PROVE  [Directory!Next]_(Directory!vars)
<1> DEFINE code == ValidateRequest(request[t])
<1>1. /\ TypeOK /\ StageOK(t) /\ pc[t] = "validate"
  BY DEF RInv, IInv, HandlerOK, Validate
<1>2. /\ pc'[t] = "return" /\ reply' = [reply EXCEPT ![t] = Refusal(code)]
      /\ UNCHANGED <<request, lockVars, dataVars>>
  BY <1>1 DEF Validate, Goto, TypeOK, StateTyped
<1>3. request[t] \in Request
  BY <1>1 DEF StageOK
<1>4. Refusal(code) \in Reply /\ code \in Directory!RefusalsOf(request[t])
  BY <1>3, RefusalTyped, RequestRefused
<1>5. UNCHANGED View
  BY <1>1, <1>2, ViewKept DEF View, lockVars, dataVars
<1> HIDE DEF code
<1>6. /\ Unanswered[t] = request[t] /\ request[t] # NoRequest
      /\ Directory!Answer(t, Refusal(code))
  BY <1>1, <1>2, <1>4, Answering
<1>7. Directory!Refuse(t, code)
  BY <1>5, <1>6, SameReplies DEF Directory!Refuse, View
<1>8. Directory!TakeEffect(t)
  BY <1>4, <1>6, <1>7 DEF Directory!TakeEffect
<1> QED BY <1>8, Effect

(* The steps outside the lock, and those that take and release it.         *)
LEMMA OutsideRefines ==
    ASSUME RInv, NEW t \in Threads, WholeFrame(t),
           Call(t) \/ Validate(t) \/ AcquireExclusive(t) \/ AcquireShared(t)
              \/ Unlock(t) \/ Return(t)
    PROVE  [Directory!Next]_(Directory!vars)
<1> USE DEF Goto, localVars, lockVars
<1>0. TypeOK /\ Owes(t) /\ \A u \in Threads : Owes(u)
  BY DEF RInv, IInv, Progress
<1>1. CASE Call(t)
  <2>1. /\ pc[t] = "idle" /\ pc'[t] = "validate" /\ UNCHANGED <<dataVars, writer, reply>>
    BY <1>0, <1>1 DEF Call, TypeOK, StateTyped
  <2>2. PICK r \in Requests : request' = [request EXCEPT ![t] = r]
    BY <1>1 DEF Call
  <2>3. UNCHANGED View
    BY <1>0, <2>1, ViewKept DEF View, dataVars
  <2>4. reply[t] = NoReply /\ request[t] = NoRequest
    BY <1>0, <2>1 DEF Owes
  <2>5. Unanswered[t] = NoRequest
    BY <2>4 DEF Unanswered
  <2>6. Unanswered' = [Unanswered EXCEPT ![t] = r]
    <3>1. request'[t] = r /\ \A u \in Threads \ {t} : request'[u] = request[u]
      BY <1>0, <2>2 DEF TypeOK, StateTyped
    <3>2. \A u \in Threads : (IF reply'[u] = NoReply THEN request'[u] ELSE NoRequest) =
             (IF u = t THEN r ELSE Unanswered[u])
      BY <2>1, <2>4, <3>1 DEF Unanswered
    <3> QED BY <3>2 DEF Unanswered
  <2>7. Directory!Call(t)
    BY <2>1, <2>3, <2>4, <2>5, <2>6 DEF Directory!Call, View
  <2> QED BY <2>7 DEF Directory!Next
<1>2. CASE Validate(t)
  <2>1. CASE ValidateRequest(request[t]) = "kOk"
    <3>1. /\ pc[t] = "validate" /\ pc'[t] = "acquire"
          /\ UNCHANGED <<dataVars, writer, reply, request>>
      BY <1>0, <1>2, <2>1 DEF Validate, TypeOK, StateTyped
    <3>2. UNCHANGED View
      BY <1>0, <3>1, ViewKept DEF View, dataVars
    <3> QED BY <3>1, <3>2, Silent, SameWaiting
  <2>2. CASE ValidateRequest(request[t]) # "kOk"
    BY <1>2, <2>2, RefusedAtOnce
  <2> QED BY <2>1, <2>2
<1>3. CASE AcquireExclusive(t) \/ AcquireShared(t) \/ Unlock(t)
  <2>1. /\ pc[t] # "update" /\ pc'[t] # "update"
        /\ UNCHANGED <<dataVars, reply, request>>
        /\ writer' = writer \/ (writer \in {t, NoThread} /\ writer' \in {t, NoThread})
    BY <1>0, <1>3
       DEF AcquireExclusive, AcquireShared, Unlock, TypeOK, StateTyped, Reaches, Unlocked
  <2>2. UNCHANGED View
    BY <1>0, <2>1, ViewKept DEF View, dataVars
  <2> QED BY <2>1, <2>2, Silent, SameWaiting
<1>4. CASE Return(t)
  <2>1. /\ pc[t] = "return" /\ pc'[t] = "idle" /\ UNCHANGED <<dataVars, writer>>
        /\ reply' = [reply EXCEPT ![t] = NoReply]
        /\ request' = [request EXCEPT ![t] = NoRequest]
    BY <1>0, <1>4 DEF Return, TypeOK, StateTyped
  <2>2. UNCHANGED View
    BY <1>0, <2>1, ViewKept DEF View, dataVars
  <2>3. reply[t] # NoReply
    BY <1>0, <2>1 DEF Owes
  <2>4. Unanswered' = Unanswered
    <3>1. /\ request'[t] = NoRequest /\ reply'[t] = NoReply
          /\ \A u \in Threads \ {t} : request'[u] = request[u] /\ reply'[u] = reply[u]
      BY <1>0, <2>1 DEF TypeOK, StateTyped
    <3>2. \A u \in Threads : (IF reply'[u] = NoReply THEN request'[u] ELSE NoRequest) =
             (IF reply[u] = NoReply THEN request[u] ELSE NoRequest)
      BY <2>3, <3>1
    <3> QED BY <3>2 DEF Unanswered
  <2>5. Directory!Return(t)
    BY <2>1, <2>2, <2>3, <2>4 DEF Directory!Return, View
  <2> QED BY <2>5 DEF Directory!Next
<1> QED BY <1>1, <1>2, <1>3, <1>4

(* A handler that replies under the lock and changes nothing: its request    *)
(* is one the directory may not refuse out of hand, and the directory is     *)
(* what the variables say.                                                 *)
LEMMA Replying ==
    ASSUME RInv, NEW t \in Threads, WholeFrame(t), pc[t] \in {"locked", "scan"},
           NEW response \in Reply, Respond(t, response)
    PROVE  /\ Unanswered[t] = request[t] /\ request[t] \in Request
           /\ request[t] # NoRequest /\ Directory!RefusalsOf(request[t]) = {}
           /\ Directory!Answer(t, response)
           /\ AbstractQueue = [h \in DOMAIN hosts_ |-> FreeIds(hosts_[h], << >>, 0)]
           /\ AbstractDirectory = key_index_
           /\ UNCHANGED dataVars => UNCHANGED View
<1>1. /\ IInv /\ TypeOK /\ StageOK(t)
  BY DEF RInv, IInv, HandlerOK
<1>2. /\ pc'[t] = "unlock" /\ reply' = [reply EXCEPT ![t] = response]
      /\ request' = request /\ writer' = writer
  BY <1>1 DEF Respond, Goto, TypeOK, StateTyped, lockVars
<1>3. Unanswered[t] = request[t] /\ request[t] \in Request /\ request[t] # NoRequest
  BY <1>2, Answering
<1>4. Directory!Answer(t, response)
  BY <1>2, Answering
<1>5. Directory!RefusalsOf(request[t]) = {}
  BY <1>1, <1>3, RequestRefused DEF StageOK
<1>6. /\ AbstractQueue = [h \in DOMAIN hosts_ |-> FreeIds(hosts_[h], << >>, 0)]
      /\ AbstractDirectory = key_index_
  BY <1>1, HolderQuiet, QuietView
<1>7. UNCHANGED dataVars => UNCHANGED View
  BY <1>1, <1>2, ViewKept DEF View, dataVars
<1> QED BY <1>3, <1>4, <1>5, <1>6, <1>7

(* The handlers and accessors that only read, if they reply as the directory *)
(* does.                                                                   *)
LEMMA ReadRefines ==
    ASSUME RInv, NEW t \in Threads, WholeFrame(t), pc[t] \in {"locked", "scan"},
           NEW response \in Reply, Respond(t, response), UNCHANGED dataVars,
           request[t].op \notin WriteOps, Directory!ReadReply(request[t]) = response
    PROVE  [Directory!Next]_(Directory!vars)
<1>1. /\ Unanswered[t] = request[t] /\ request[t] # NoRequest
      /\ Directory!RefusalsOf(request[t]) = {}
      /\ Directory!Answer(t, response) /\ UNCHANGED View
  BY Replying
<1>2. Directory!Read(t, request[t])
  BY <1>1, SameOperations DEF Directory!Read, View
<1>3. Directory!TakeEffect(t)
  BY <1>1, <1>2 DEF Directory!TakeEffect
<1> QED BY <1>3, Effect

(* Exist and FindHost.                                                     *)
LEMMA LookupRefines ==
    ASSUME RInv, NEW t \in Threads, WholeFrame(t), Exist(t) \/ FindHost(t)
    PROVE  [Directory!Next]_(Directory!vars)
<1>1. /\ IInv /\ pc[t] = "locked" /\ UNCHANGED dataVars
      /\ request[t].op \in {"Exist", "FindHost"}
  BY DEF RInv, Exist, FindHost, Reaches
<1>2. PICK response \in Reply : Respond(t, response)
  BY <1>1, GuardOfInvariant, ReadReplies
<1>3. AbstractDirectory = key_index_ /\ request[t] \in Request
  BY <1>1, <1>2, Replying
<1>4. reply'[t] = response
  BY <1>1, <1>2 DEF IInv, TypeOK, StateTyped, Respond
<1>5. Directory!ReadReply(request[t]) = response
  <2>1. CASE Exist(t)
    <3> DEFINE key == CanonicalKey(request[t].key)
    <3>1. request[t].op = "Exist" /\ Directory!CanonicalKey(request[t].key) = key
      BY <2>1, SameKeys DEF Exist, Reaches
    <3>2. response = IF key \in DOMAIN key_index_ THEN Found(key_index_[key])
                     ELSE Refusal("kKeyNotFound")
      BY <1>1, <1>4, <2>1 DEF Exist, Respond, IInv, TypeOK, StateTyped
    <3> HIDE DEF key
    <3>3. Directory!ReadReply(request[t]) = Directory!Exist(key)
      BY <3>1 DEF Directory!ReadReply
    <3>4. Directory!Exist(key) = response
      BY <1>3, <3>2, SameReplies DEF Directory!Exist
    <3> QED BY <3>3, <3>4
  <2>2. CASE FindHost(t)
    <3> DEFINE h == request[t].host_id
    <3>1. request[t].op = "FindHost"
      BY <2>2 DEF FindHost, Reaches
    <3>2. response = IF h \in DOMAIN hosts_ THEN FoundHost(hosts_[h].registration)
                     ELSE Refusal("nullopt")
      BY <1>1, <1>4, <2>2 DEF FindHost, Respond, IInv, TypeOK, StateTyped, Host
    <3>3. Directory!ReadReply(request[t]) =
             IF h \in DOMAIN Registrations THEN Directory!FoundHost(Registrations[h])
             ELSE Directory!Refusal("nullopt")
      BY <3>1 DEF Directory!ReadReply
    <3> HIDE DEF h
    <3> QED BY <3>2, <3>3, SameReplies DEF Registrations
  <2> QED BY <2>1, <2>2
<1>6. request[t].op \notin WriteOps
  BY <1>1 DEF WriteOps, BatchOps
<1> QED BY <1>1, <1>2, <1>5, <1>6, ReadRefines

(* While no loop is under way the count is that of the blocks left.        *)
LEMMA QuietCount ==
    ASSUME RInv, \A op : ~Updating(op)
    PROVE  available_blocks_ = Left(hosts_) % (MaxWord + 1)
<1>1. GoodPools(hosts_) /\ BlocksLeft = Left(hosts_)
  BY PoolsGood DEF RInv
<1>2. Left(hosts_) \in Nat
  BY <1>1, LeftType
<1>3. UnderWay("AllocBlocks") = 0 /\ UnderWay("FreeBlocks") = 0
  BY DEF UnderWay
<1>4. Left(hosts_) + 0 - 0 = Left(hosts_)
  BY <1>2
<1>5. available_blocks_ =
         (BlocksLeft + UnderWay("AllocBlocks") - UnderWay("FreeBlocks")) % (MaxWord + 1)
  BY DEF RInv, AvailableExact
<1>6. available_blocks_ = (Left(hosts_) + 0 - 0) % (MaxWord + 1)
  BY <1>1, <1>3, <1>5, Zenon
<1> QED BY <1>2, <1>4, <1>6, WordAssumption

(* A registration that overflows the count is one whose blocks, with those   *)
(* of all others, are more than a word can count.                          *)
LEMMA OverflowRefused ==
    ASSUME RInv, \A op : ~Updating(op), NEW n \in Nat, available_blocks_ > MaxWord - n
    PROVE  Directory!RegisteredBlocks + n \notin Directory!Word
<1> DEFINE e == [h \in DOMAIN hosts_ |-> Total(hosts_[h].registration)]
<1>1. Directory!RegisteredBlocks = SumFunction(e)
  <2>1. \A h \in DOMAIN hosts_ :
           Directory!Blocks(Registrations[h]) = Total(hosts_[h].registration)
    BY SameArithmetic DEF Registrations
  <2>2. [h \in DOMAIN Registrations |-> Directory!Blocks(Registrations[h])] = e
    BY <2>1 DEF Registrations
  <2> QED BY <2>2, SameSum DEF Directory!RegisteredBlocks
<1>2. GoodPools(hosts_) /\ BlocksLeft = Left(hosts_)
  BY PoolsGood DEF RInv
<1>3. DOMAIN e = DOMAIN hosts_ /\ \A h \in DOMAIN hosts_ : e[h] = hosts_[h].total_blocks
  BY DEF RInv, PoolSizes
<1> HIDE DEF e
<1>4. /\ Left(hosts_) \in Nat /\ SumFunction(e) \in Nat
      /\ Left(hosts_) <= SumFunction(e)
  BY <1>2, <1>3, LeftBounded, LeftType
<1>5. available_blocks_ = Left(hosts_) % (MaxWord + 1)
  BY QuietCount
<1>6. available_blocks_ <= Left(hosts_)
  BY <1>4, <1>5, WordAssumption, RestSmall
<1>7. available_blocks_ \in Nat
  BY WordAssumption DEF RInv, IInv, TypeOK, StateTyped, Word
<1>8. SumFunction(e) + n > MaxWord
  BY <1>4, <1>6, <1>7, WordAssumption
<1> QED BY <1>1, <1>4, <1>8, WordAssumption, SameOperations DEF Word

(* RegisterMemory.                                                         *)
LEMMA RegisterRefines ==
    ASSUME RInv, IInv', NEW t \in Threads, WholeFrame(t), RegisterMemory(t)
    PROVE  [Directory!Next]_(Directory!vars)
<1> DEFINE r == request[t].registration
           h == r.host_id
<1>0. /\ IInv /\ pc[t] = "locked" /\ request[t].op = "RegisterMemory"
      /\ r \in MemoryRegistration /\ ValidateRegistration(r) = "kOk"
      /\ Total(r) \in Nat /\ GoodPool(NewHost(r))
  BY Registering DEF RInv
<1>1. /\ Directory!Blocks(r) = Total(r)
      /\ DOMAIN Registrations = DOMAIN hosts_
      /\ \A g \in DOMAIN hosts_ : Registrations[g] = hosts_[g].registration
  BY SameArithmetic DEF Registrations
<1>2. ASSUME NEW response \in Reply, Respond(t, response),
             Directory!Answer(t, response) => Directory!RegisterMemory(t, r)
      PROVE  [Directory!Next]_(Directory!vars)
  <2>1. /\ Unanswered[t] = request[t] /\ request[t] # NoRequest
        /\ Directory!RefusalsOf(request[t]) = {} /\ Directory!Answer(t, response)
    BY <1>0, <1>2, Replying
  <2>2. Directory!TakeEffect(t)
    BY <1>0, <1>2, <2>1 DEF Directory!TakeEffect
  <2> QED BY <2>2, Effect
<1> DEFINE known(code) == h \in DOMAIN hosts_ /\ Respond(t, code) /\ UNCHANGED dataVars
<1>3. \/ known(Registered(Total(r))) /\ hosts_[h].registration = r
      \/ known(Refusal("kHostAlreadyRegistered")) /\ hosts_[h].registration # r
      \/ /\ h \notin DOMAIN hosts_ /\ available_blocks_ > MaxWord - Total(r)
         /\ Respond(t, Refusal("kInvalidArgument")) /\ UNCHANGED dataVars
      \/ /\ h \notin DOMAIN hosts_ /\ hosts_' = Emplace(hosts_, h, NewHost(r))
         /\ Respond(t, Registered(Total(r))) /\ UNCHANGED key_index_
  BY DEF RegisterMemory
<1>4. /\ Registered(Total(r)) \in Reply /\ Refusal("kHostAlreadyRegistered") \in Reply
      /\ Refusal("kInvalidArgument") \in Reply
  BY <1>0, ReplyTypes DEF RpcCode
<1>5. CASE known(Registered(Total(r))) /\ hosts_[h].registration = r
  <2>1. UNCHANGED View
    BY <1>0, <1>4, <1>5, Replying
  <2>2. ASSUME Directory!Answer(t, Registered(Total(r))) PROVE Directory!RegisterMemory(t, r)
    BY <1>1, <1>5, <2>1, <2>2, SameReplies DEF Directory!RegisterMemory, View
  <2> QED BY <1>2, <1>4, <1>5, <2>2
<1>6. CASE known(Refusal("kHostAlreadyRegistered")) /\ hosts_[h].registration # r
  <2>1. UNCHANGED View
    BY <1>0, <1>4, <1>6, Replying
  <2>2. ASSUME Directory!Answer(t, Refusal("kHostAlreadyRegistered"))
        PROVE  Directory!RegisterMemory(t, r)
    BY <1>1, <1>6, <2>1, <2>2, SameReplies DEF Directory!RegisterMemory, Directory!Refuse, View
  <2> QED BY <1>2, <1>4, <1>6, <2>2
<1>7. CASE /\ h \notin DOMAIN hosts_ /\ available_blocks_ > MaxWord - Total(r)
           /\ Respond(t, Refusal("kInvalidArgument")) /\ UNCHANGED dataVars
  <2>1. UNCHANGED View
    BY <1>0, <1>4, <1>7, Replying
  <2>2. Directory!RegisteredBlocks + Directory!Blocks(r) \notin Directory!Word
    BY <1>0, <1>1, <1>7, HolderQuiet, OverflowRefused
  <2>3. ASSUME Directory!Answer(t, Refusal("kInvalidArgument"))
        PROVE  Directory!RegisterMemory(t, r)
    BY <1>1, <1>7, <2>1, <2>2, <2>3, SameReplies
       DEF Directory!RegisterMemory, Directory!Refuse, View
  <2> QED BY <1>2, <1>4, <1>7, <2>3
<1>8. CASE /\ h \notin DOMAIN hosts_ /\ hosts_' = Emplace(hosts_, h, NewHost(r))
           /\ Respond(t, Registered(Total(r))) /\ UNCHANGED key_index_
  <2>1. DOMAIN hosts_' = DOMAIN hosts_ \cup {h} /\ hosts_'[h] = NewHost(r)
        /\ \A g \in DOMAIN hosts_ : hosts_'[g] = hosts_[g] /\ g # h
    BY <1>8 DEF Emplace
  <2>2. AbstractQueue = [g \in DOMAIN hosts_ |-> FreeIds(hosts_[g], << >>, 0)]
        /\ AbstractDirectory = key_index_
    BY <1>0, <1>4, <1>8, Replying
  <2>3. /\ AbstractQueue' = [g \in DOMAIN hosts_' |-> FreeIds(hosts_'[g], << >>, 0)]
        /\ AbstractDirectory' = key_index_'
    <3>1. pc'[t] = "unlock"
      BY <1>0, <1>8 DEF Respond, Goto, IInv, TypeOK, StateTyped
    <3>2. \A op : ~Updating(op)'
      <4>1. t = writer /\ writer' = writer
        BY <1>0, <1>8, Registering DEF Respond, lockVars
      <4> QED BY <3>1, <4>1 DEF Updating, Reaches
    <3> QED BY <3>2, QuietViewNext
  <2>4. NewHost(r).registration = r
    BY DEF NewHost
  <2>5. FreeIds(NewHost(r), << >>, 0) = [i \in 1..Total(r) |-> i - 1]
    BY <1>0, NewQueue
  <2>6. Registrations' = Directory!Extend(Registrations, h, r)
    BY <1>1, <2>1, <2>4 DEF Directory!Extend, Registrations
  <2>7. AbstractQueue' = Directory!Extend(AbstractQueue, h, [i \in 1..Directory!Blocks(r) |-> i - 1])
    <3>1. AbstractQueue' = [g \in DOMAIN hosts_ \cup {h} |->
             IF g = h THEN [i \in 1..Total(r) |-> i - 1] ELSE FreeIds(hosts_[g], << >>, 0)]
      BY <2>1, <2>3, <2>5
    <3> QED BY <1>1, <2>2, <3>1 DEF Directory!Extend
  <2>8. ASSUME Directory!Answer(t, Registered(Total(r))) PROVE Directory!RegisterMemory(t, r)
    BY <1>1, <1>8, <2>2, <2>3, <2>6, <2>7, <2>8, SameReplies DEF Directory!RegisterMemory
  <2> QED BY <1>2, <1>4, <1>8, <2>8
<1> QED BY <1>3, <1>5, <1>6, <1>7, <1>8

-----------------------------------------------------------------------------
(* The checks of a batch.  *)

(* A loop that has just begun does not show in the directory.              *)
LEMMA StartView ==
    ASSUME RInv, NEW t \in Threads, t = writer, pc[t] = "locked", Start(t),
           locations'[t] \in Seq(KeyBlockLocation)
    PROVE  [Directory!Next]_(Directory!vars)
<1>1. /\ IInv /\ TypeOK /\ StageOK(t)
  BY DEF RInv, IInv, HandlerOK
<1>2. /\ cursor'[t] = 1 /\ writer' = writer /\ UNCHANGED <<hosts_, key_index_, reply, request>>
  BY <1>1 DEF Start, StageOK, lockVars, dataVars
<1>3. LoopDone' = << >>
  <2>1. LoopDone' = SubSeq(locations'[t], 1, 0)
    BY <1>2 DEF LoopDone
  <2> QED BY <2>1
<1>4. /\ AbstractQueue = [h \in DOMAIN hosts_ |-> FreeIds(hosts_[h], << >>, 0)]
      /\ AbstractDirectory = key_index_
  BY <1>1, HolderQuiet, QuietView
<1>5. ASSUME NEW h PROVE Taken(h)' = << >> /\ Returned(h)' = 0
  <2>1. Taken(h)' = << >>
    <3>1. [i \in DOMAIN LoopDone' |-> (LoopDone')[i].block_id] = << >>
      BY <1>3
    <3> QED BY <3>1 DEF Taken
  <2>2. Returned(h)' = 0
    BY <1>2 DEF Returned
  <2> QED BY <2>1, <2>2
<1>6. AbstractQueue' = AbstractQueue
  <2>1. \A h \in DOMAIN hosts_ :
           FreeIds(hosts_[h], Taken(h), Returned(h))' = FreeIds(hosts_[h], << >>, 0)
    BY <1>2, <1>5
  <2>2. AbstractQueue' = [h \in DOMAIN hosts_ |-> FreeIds(hosts_[h], << >>, 0)]
    BY <1>2, <1>5 DEF AbstractQueue
  <2> QED BY <1>4, <2>2
<1>7. AbstractDirectory' = AbstractDirectory
  <2>1. IsIndex(key_index_)
    BY <1>1, PoolsGood
  <2>2. Without(key_index_, << >>) = key_index_ /\ With(key_index_, << >>) = key_index_
    BY <2>1, NoneDone
  <2>3. AbstractDirectory' = key_index_
    BY <1>2, <1>3, <2>2 DEF AbstractDirectory
  <2> QED BY <1>4, <2>3
<1>8. UNCHANGED View
  BY <1>2, <1>6, <1>7 DEF View, Registrations
<1> QED BY <1>2, <1>8, Silent, SameWaiting

(* A batch that has the lock.                                              *)
LEMMA Checking ==
    ASSUME RInv, NEW t \in Threads, pc[t] = "locked", request[t].op \in BatchOps
    PROVE  /\ IInv /\ TypeOK /\ t = writer
           /\ request[t].keys \in Seq(RawKeys) /\ Len(request[t].keys) \in Nat
           /\ Host(t) \in HostIds
           /\ Directory!Canonical(request[t].keys) = RequestKeys(t)
           /\ DOMAIN RequestKeys(t) = 1..Len(request[t].keys)
           /\ Len(RequestKeys(t)) = Len(request[t].keys)
           /\ GoodPools(hosts_)
           /\ \A i \in 1..Len(request[t].keys) : RequestKeys(t)[i] \in Keys
           /\ \A i, j \in 1..Len(request[t].keys) :
                 RequestKeys(t)[i] = RequestKeys(t)[j] => i = j
<1>1. /\ IInv /\ TypeOK /\ StageOK(t) /\ LockDiscipline
  BY DEF RInv, IInv, HandlerOK
<1>2. request[t] \in Request /\ ValidateRequest(request[t]) = "kOk"
  BY <1>1 DEF StageOK
<1>3. request[t].keys \in Seq(RawKeys) /\ request[t].host_id \in HostIds
  BY <1>2, RequestFields
<1>4. ValidateKeys(request[t].keys) = "kOk"
  BY <1>2 DEF ValidateRequest, BatchOps
<1>5. t = writer
  BY <1>1 DEF LockDiscipline, InCriticalSection, HoldsLock, WriteOps
<1> QED BY <1>1, <1>3, <1>4, <1>5, ValidatedKeys, CanonicalSequence, PoolsGood, SameKeys
        DEF Host, RequestKeys

(* The checks of AllocBlocks.                                              *)
LEMMA AllocCheckRefines ==
    ASSUME RInv, IInv', NEW t \in Threads, WholeFrame(t), AllocCheck(t)
    PROVE  [Directory!Next]_(Directory!vars)
<1> DEFINE keys == RequestKeys(t)
           h == Host(t)
           n == Len(request[t].keys)
<1>0. /\ pc[t] = "locked" /\ request[t].op = "AllocBlocks" /\ request[t].op \in BatchOps
  BY DEF AllocCheck, Reaches, BatchOps
<1>1. /\ IInv /\ TypeOK /\ t = writer /\ GoodPools(hosts_)
      /\ Directory!Canonical(request[t].keys) = keys
      /\ DOMAIN keys = 1..n /\ Len(keys) = n
  BY <1>0, Checking
<1>2. CASE AllocError(t) = "kOk"
  <2>1. Start(t) /\ UNCHANGED locations
    BY <1>2 DEF AllocCheck
  <2>2. locations'[t] \in Seq(KeyBlockLocation)
    BY <1>1, <2>1 DEF TypeOK, StateTyped
  <2> QED BY <1>0, <1>1, <2>1, <2>2, StartView
<1>3. CASE AllocError(t) # "kOk"
  <2>1. /\ AllocError(t) \in {"kHostNotRegistered", "kKeyAlreadyExists", "kInsufficientMemory"}
        /\ Respond(t, Refusal(AllocError(t))) /\ UNCHANGED dataVars
    BY <1>3 DEF AllocCheck, AllocError
  <2>2. Refusal(AllocError(t)) \in Reply
    BY <2>1, ReplyTypes DEF RpcCode
  <2>3. /\ Unanswered[t] = request[t] /\ request[t] # NoRequest
        /\ Directory!RefusalsOf(request[t]) = {}
        /\ Directory!Answer(t, Refusal(AllocError(t))) /\ UNCHANGED View
        /\ AbstractQueue = [g \in DOMAIN hosts_ |-> FreeIds(hosts_[g], << >>, 0)]
        /\ AbstractDirectory = key_index_
    BY <1>0, <2>1, <2>2, Replying
  <2>4. Directory!Refuse(t, AllocError(t))
    BY <2>3, SameReplies DEF Directory!Refuse, View
  <2>5. Directory!AllocBlocks(t, h, keys)
    <3>1. CASE h \notin DOMAIN hosts_
      <4>1. AllocError(t) = "kHostNotRegistered" /\ h \notin DOMAIN AbstractQueue
        BY <2>3, <3>1 DEF AllocError
      <4> QED BY <2>4, <4>1 DEF Directory!AllocBlocks
    <3>2. CASE /\ h \in DOMAIN hosts_
               /\ \E i \in DOMAIN keys : keys[i] \in DOMAIN key_index_
      <4>1. AllocError(t) = "kKeyAlreadyExists" /\ h \in DOMAIN AbstractQueue
        BY <2>3, <3>2 DEF AllocError
      <4>2. \E i \in 1..Len(keys) : keys[i] \in DOMAIN AbstractDirectory
        BY <1>1, <2>3, <3>2
      <4> HIDE DEF keys, h
      <4> QED BY <2>4, <4>1, <4>2 DEF Directory!AllocBlocks
    <3>3. CASE /\ h \in DOMAIN hosts_
               /\ ~\E i \in DOMAIN keys : keys[i] \in DOMAIN key_index_
      <4>1. /\ AllocError(t) = "kInsufficientMemory" /\ h \in DOMAIN AbstractQueue
            /\ Len(keys) > AvailableBlockCount(hosts_[h])
        BY <1>3, <2>3, <3>3 DEF AllocError
      <4>2. \A i \in 1..Len(keys) : keys[i] \notin DOMAIN AbstractDirectory
        BY <1>1, <2>3, <3>3
      <4>3. Len(AbstractQueue[h]) = AvailableBlockCount(hosts_[h])
        <5>1. GoodPool(hosts_[h]) /\ AbstractQueue[h] = FreeIds(hosts_[h], << >>, 0)
          BY <1>1, <2>3, <3>3 DEF GoodPools
        <5> QED BY <5>1, QueueLength
      <4>4. Len(keys) > Len(AbstractQueue[h])
        BY <4>1, <4>3
      <4> HIDE DEF keys, h
      <4> QED BY <2>4, <4>1, <4>2, <4>4 DEF Directory!AllocBlocks
    <3> QED BY <3>1, <3>2, <3>3
  <2>6. Directory!TakeEffect(t)
    <3>1. Directory!AllocBlocks(t, request[t].host_id, Directory!Canonical(request[t].keys))
      BY <1>1, <2>5 DEF Host
    <3> QED BY <1>0, <2>3, <3>1 DEF Directory!TakeEffect
  <2> QED BY <2>6, Effect
<1> QED BY <1>2, <1>3

(* The checks of FreeBlocks.                                               *)
LEMMA FreeCheckRefines ==
    ASSUME RInv, IInv', NEW t \in Threads, WholeFrame(t), FreeCheck(t)
    PROVE  [Directory!Next]_(Directory!vars)
<1> DEFINE keys == RequestKeys(t)
           h == Host(t)
           n == Len(request[t].keys)
<1>0. /\ pc[t] = "locked" /\ request[t].op = "FreeBlocks" /\ request[t].op \in BatchOps
  BY DEF FreeCheck, Reaches, BatchOps
<1>1. /\ IInv /\ TypeOK /\ t = writer
      /\ Directory!Canonical(request[t].keys) = keys
      /\ DOMAIN keys = 1..n /\ Len(keys) = n /\ n \in Nat
  BY <1>0, Checking
<1>2. CASE FreeError(t) = "kOk"
  <2>1. Start(t)
    BY <1>2 DEF FreeCheck
  <2>2. locations'[t] \in Seq(KeyBlockLocation)
    BY DEF IInv, TypeOK, StateTyped
  <2> QED BY <1>0, <1>1, <2>1, <2>2, StartView
<1>3. CASE FreeError(t) # "kOk"
  <2>1. /\ FreeError(t) \in {"kHostNotRegistered", "kKeyNotFound", "kKeyHostMismatch"}
        /\ Respond(t, Refusal(FreeError(t))) /\ UNCHANGED dataVars
    BY <1>3 DEF FreeCheck, FreeError
  <2>2. Refusal(FreeError(t)) \in Reply
    BY <2>1, ReplyTypes DEF RpcCode
  <2>3. /\ Unanswered[t] = request[t] /\ request[t] # NoRequest
        /\ Directory!RefusalsOf(request[t]) = {}
        /\ Directory!Answer(t, Refusal(FreeError(t))) /\ UNCHANGED View
        /\ AbstractQueue = [g \in DOMAIN hosts_ |-> FreeIds(hosts_[g], << >>, 0)]
        /\ AbstractDirectory = key_index_
    BY <1>0, <2>1, <2>2, Replying
  <2>4. Directory!Refuse(t, FreeError(t))
    BY <2>3, SameReplies DEF Directory!Refuse, View
  <2>5. Directory!FreeBlocks(t, h, keys)
    <3>0. /\ Missing(t) = {i \in DOMAIN keys : keys[i] \notin DOMAIN AbstractDirectory}
          /\ Foreign(t) = {i \in DOMAIN keys \ Missing(t) :
                              AbstractDirectory[keys[i]].host_id # h}
          /\ DOMAIN AbstractQueue = DOMAIN hosts_
      BY <2>3 DEF Missing, Foreign
    <3>1. CASE h \notin DOMAIN hosts_
      <4>1. FreeError(t) = "kHostNotRegistered" /\ h \notin DOMAIN AbstractQueue
        BY <3>0, <3>1 DEF FreeError
      <4> QED BY <2>4, <4>1 DEF Directory!FreeBlocks
    <3>2. CASE h \in DOMAIN hosts_
      <4>1. /\ Missing(t) \cup Foreign(t) # {} /\ h \in DOMAIN AbstractQueue
            /\ Min(Missing(t) \cup Foreign(t)) \in Missing(t) => FreeError(t) = "kKeyNotFound"
            /\ Min(Missing(t) \cup Foreign(t)) \notin Missing(t) =>
                  FreeError(t) = "kKeyHostMismatch"
        BY <1>3, <3>0, <3>2 DEF FreeError
      <4>2. Min(Missing(t) \cup Foreign(t)) \in Missing(t) \cup Foreign(t)
        <5>1. Missing(t) \cup Foreign(t) \in SUBSET Nat
          BY <1>1, <3>0
        <5>2. \E x \in Missing(t) \cup Foreign(t) :
                 \A y \in Missing(t) \cup Foreign(t) : x <= y
          BY <4>1, <5>1, LeastNatural
        <5> QED BY <5>2 DEF Min
      <4>3. \/ Missing(t) # {} /\ FreeError(t) = "kKeyNotFound"
            \/ Foreign(t) # {} /\ FreeError(t) = "kKeyHostMismatch"
        BY <4>1, <4>2
      <4> HIDE DEF keys, h
      <4>4. CASE Missing(t) # {} /\ FreeError(t) = "kKeyNotFound"
        BY <2>4, <3>0, <4>1, <4>4 DEF Directory!FreeBlocks
      <4>5. CASE Foreign(t) # {} /\ FreeError(t) = "kKeyHostMismatch"
        BY <2>4, <3>0, <4>1, <4>5 DEF Directory!FreeBlocks
      <4> QED BY <4>3, <4>4, <4>5
    <3> QED BY <3>1, <3>2
  <2>6. Directory!TakeEffect(t)
    <3>1. Directory!FreeBlocks(t, request[t].host_id, Directory!Canonical(request[t].keys))
      BY <1>1, <2>5 DEF Host
    <3> QED BY <1>0, <2>3, <3>1 DEF Directory!TakeEffect
  <2> QED BY <2>6, Effect
<1> QED BY <1>2, <1>3

-----------------------------------------------------------------------------
(* The directory while a loop is under way.  *)

Ids(list) == [i \in DOMAIN list |-> list[i].block_id]

(* The ids of a list of locations, and of one more.                        *)
LEMMA IdsOf ==
    ASSUME NEW list \in Seq(KeyBlockLocation)
    PROVE  /\ Len(list) \in Nat /\ DOMAIN list = 1..Len(list)
           /\ Ids(list) \in Seq(Nat) /\ Len(Ids(list)) = Len(list)
           /\ \A i \in 1..Len(list) : Ids(list)[i] = list[i].block_id
           /\ SubSeq(list, 1, Len(list)) = list
           /\ \A item \in KeyBlockLocation :
                 /\ Ids(Append(list, item)) = Append(Ids(list), item.block_id)
                 /\ KeysOf(Append(list, item)) = KeysOf(list) \cup {item.key}
                 /\ Append(list, item) \in Seq(KeyBlockLocation)
<1>1. Len(list) \in Nat /\ DOMAIN list = 1..Len(list)
  OBVIOUS
<1>2. \A i \in 1..Len(list) : list[i].block_id \in Nat
  <2>1. \A i \in 1..Len(list) : list[i] \in KeyBlockLocation
    BY <1>1
  <2> QED BY <2>1 DEF KeyBlockLocation
<1>3. \A i \in 1..Len(list) : Ids(list)[i] = list[i].block_id
  BY <1>1 DEF Ids
<1>4. Ids(list) \in Seq(Nat) /\ Len(Ids(list)) = Len(list)
  <2> DEFINE l == Len(list)
  <2>1. DOMAIN list = 1..l /\ l \in Nat /\ \A i \in 1..l : list[i].block_id \in Nat
    BY <1>1, <1>2
  <2> HIDE DEF l
  <2>2. Ids(list) = [i \in 1..l |-> list[i].block_id]
    BY <2>1 DEF Ids
  <2>3. Ids(list) \in Seq(Nat) /\ Len(Ids(list)) = l
    BY <2>1, <2>2
  <2> QED BY <2>3 DEF l
<1>5. SubSeq(list, 1, Len(list)) = list
  OBVIOUS
<1>6. ASSUME NEW item \in KeyBlockLocation
      PROVE  /\ Ids(Append(list, item)) = Append(Ids(list), item.block_id)
             /\ KeysOf(Append(list, item)) = KeysOf(list) \cup {item.key}
             /\ Append(list, item) \in Seq(KeyBlockLocation)
  <2> DEFINE more == Append(list, item)
  <2>1. /\ more \in Seq(KeyBlockLocation) /\ Len(more) = Len(list) + 1
        /\ DOMAIN more = 1..(Len(list) + 1)
        /\ \A i \in 1..Len(list) : more[i] = list[i]
        /\ more[Len(list) + 1] = item
    OBVIOUS
  <2> HIDE DEF more
  <2>2. item.block_id \in Nat
    BY DEF KeyBlockLocation
  <2>3. Ids(more) = Append(Ids(list), item.block_id)
    <3> DEFINE ids == Ids(list)
               b == item.block_id
    <3>1. /\ ids \in Seq(Nat) /\ Len(ids) = Len(list) /\ b \in Nat
          /\ \A i \in 1..Len(list) : ids[i] = more[i].block_id
          /\ b = more[Len(list) + 1].block_id
      BY <1>3, <1>4, <2>1, <2>2
    <3>2. Ids(more) = [i \in 1..(Len(list) + 1) |-> more[i].block_id]
      BY <2>1 DEF Ids
    <3> HIDE DEF ids, b
    <3>3. /\ Append(ids, b) \in Seq(Nat) /\ Len(Append(ids, b)) = Len(list) + 1
          /\ \A i \in 1..Len(list) : Append(ids, b)[i] = ids[i]
          /\ Append(ids, b)[Len(list) + 1] = b
      BY <3>1
    <3>4. \A i \in 1..(Len(list) + 1) :
             more[i].block_id \in Nat /\ Append(ids, b)[i] = more[i].block_id
      <4>1. \A i \in 1..(Len(list) + 1) : i \in 1..Len(list) \/ i = Len(list) + 1
        BY <1>1
      <4>2. \A i \in 1..Len(list) : more[i].block_id \in Nat
        BY <1>2, <2>1
      <4> QED BY <3>1, <3>3, <4>1, <4>2
    <3>5. Ids(more) \in Seq(Nat) /\ Len(Ids(more)) = Len(list) + 1
      <4> DEFINE l == Len(list) + 1
      <4>1. l \in Nat
        BY <1>1
      <4> HIDE DEF l
      <4>2. Ids(more) = [i \in 1..l |-> more[i].block_id]
        BY <3>2 DEF l
      <4>3. \A i \in 1..l : more[i].block_id \in Nat
        BY <3>4 DEF l
      <4>4. Ids(more) \in Seq(Nat) /\ Len(Ids(more)) = l
        BY <4>1, <4>2, <4>3
      <4> QED BY <4>4 DEF l
    <3>7. \A i \in 1..(Len(list) + 1) : Ids(more)[i] = Append(ids, b)[i]
      BY <3>2, <3>4
    <3>6. Ids(more) = Append(ids, b)
      BY <3>3, <3>5, <3>7, SameIds
    <3> QED BY <3>6 DEF ids, b
  <2>4. KeysOf(more) = KeysOf(list) \cup {item.key}
    <3>1. \A i \in 1..(Len(list) + 1) : i \in 1..Len(list) \/ i = Len(list) + 1
      BY <1>1
    <3>2. Len(list) + 1 \in 1..(Len(list) + 1)
          /\ \A i \in 1..Len(list) : i \in 1..(Len(list) + 1)
      BY <1>1
    <3> QED BY <1>1, <2>1, <3>1, <3>2 DEF KeysOf
  <2> QED BY <2>1, <2>3, <2>4 DEF more
<1> QED BY <1>1, <1>3, <1>4, <1>5, <1>6

(* In a loop of AllocBlocks.                                               *)
LEMMA AllocView ==
    ASSUME RInv, NEW t \in Threads, Reaches(t, "update", {"AllocBlocks"})
    PROVE  /\ Len(locations[t]) = cursor[t] - 1
           /\ AbstractQueue = [h \in DOMAIN hosts_ |->
                 IF h = Host(t) THEN FreeIds(hosts_[h], Ids(locations[t]), 0)
                 ELSE FreeIds(hosts_[h], << >>, 0)]
           /\ AbstractDirectory = Without(key_index_, locations[t])
<1>1. /\ pc[t] = "update" /\ request[t].op = "AllocBlocks" /\ AllocProgress(t)
      /\ locations[t] \in Seq(KeyBlockLocation)
  BY DEF Reaches, RInv, IInv, TypeOK, StateTyped, Progress
<1>2. t = writer /\ Updating("AllocBlocks") /\ ~Updating("FreeBlocks")
  BY <1>1, InLoop
<1>3. Len(locations[t]) = cursor[t] - 1
  BY <1>1 DEF AllocProgress
<1>4. LoopDone = locations[t]
  BY <1>1, <1>2, <1>3, IdsOf DEF LoopDone
<1>5. \A h : /\ Taken(h) = IF h = Host(t) THEN Ids(locations[t]) ELSE << >>
             /\ Returned(h) = 0
  BY <1>2, <1>4 DEF Taken, Returned, Allocating, Freeing, Ids
<1>6. AbstractQueue = [h \in DOMAIN hosts_ |->
         FreeIds(hosts_[h], IF h = Host(t) THEN Ids(locations[t]) ELSE << >>, 0)]
  BY <1>5 DEF AbstractQueue
<1>7. AbstractDirectory = Without(key_index_, locations[t])
  BY <1>2, <1>4 DEF AbstractDirectory
<1> QED BY <1>3, <1>6, <1>7

(* The same after a step of the loop.                                      *)
LEMMA AllocViewNext ==
    ASSUME NEW t \in Threads, t = writer, writer' = writer,
           pc'[t] = "update", request'[t].op = "AllocBlocks",
           locations'[t] \in Seq(KeyBlockLocation), Len(locations'[t]) = cursor'[t] - 1
    PROVE  /\ AbstractQueue' = [h \in DOMAIN hosts_' |->
                 IF h = request'[t].host_id THEN FreeIds(hosts_'[h], Ids(locations'[t]), 0)
                 ELSE FreeIds(hosts_'[h], << >>, 0)]
           /\ AbstractDirectory' = Without(key_index_', locations'[t])
<1>2. writer' = t /\ Updating("AllocBlocks")' /\ ~Updating("FreeBlocks")'
  BY InLoopNext
<1>4. LoopDone' = locations'[t]
  <2>1. LoopDone' = SubSeq(locations'[t], 1, cursor'[t] - 1)
    BY <1>2 DEF LoopDone
  <2> QED BY <2>1, IdsOf
<1>5. \A h : /\ (IF Updating("AllocBlocks")' /\ Host(writer)' = h
                 THEN [i \in DOMAIN LoopDone' |-> (LoopDone')[i].block_id] ELSE << >>) =
                    IF h = request'[t].host_id THEN Ids(locations'[t]) ELSE << >>
             /\ (IF Updating("FreeBlocks")' /\ Host(writer)' = h
                 THEN cursor'[writer'] - 1 ELSE 0) = 0
  BY <1>2, <1>4 DEF Host, Ids
<1>6. AbstractQueue' = [h \in DOMAIN hosts_' |->
         FreeIds(hosts_'[h], IF h = request'[t].host_id THEN Ids(locations'[t]) ELSE << >>, 0)]
  BY <1>5 DEF AbstractQueue, Taken, Returned, Allocating, Freeing
<1>7. AbstractDirectory' = Without(key_index_', locations'[t])
  BY <1>2, <1>4 DEF AbstractDirectory
<1> QED BY <1>6, <1>7

(* One key of AllocBlocks: the id is still at the head of the queue, and the *)
(* key is not yet in the directory.                                        *)
LEMMA AllocKeyRefines ==
    ASSUME RInv, IInv', NEW t \in Threads, WholeFrame(t), AllocKey(t)
    PROVE  [Directory!Next]_(Directory!vars)
<1>1. /\ pc[t] = "update" /\ request[t].op = "AllocBlocks"
      /\ AvailableBlockCount(PoolOf(t)) > 0
      /\ DOMAIN hosts_' = DOMAIN hosts_ /\ hosts_'[Host(t)] = AllocateOne(PoolOf(t))
      /\ \A g \in DOMAIN hosts_ \ {Host(t)} : hosts_'[g] = hosts_[g]
      /\ KeyAt(t) \notin DOMAIN key_index_ /\ Item(t) \in KeyBlockLocation
      /\ key_index_' = Emplace(key_index_, KeyAt(t), Place(Item(t)))
      /\ locations'[t] = Append(locations[t], Item(t)) /\ cursor'[t] = cursor[t] + 1
      /\ UNCHANGED <<pc, request, reply, lockVars>>
  BY AllocKeyChanges
<1>2. /\ t = writer /\ writer' = writer /\ Reaches(t, "update", {"AllocBlocks"})
      /\ Host(t) \in DOMAIN hosts_ /\ GoodPool(PoolOf(t))
      /\ locations[t] \in Seq(KeyBlockLocation) /\ cursor[t] \in Nat \ {0}
  BY <1>1, InLoop DEF lockVars, Reaches
<1>3. /\ Len(locations[t]) = cursor[t] - 1
      /\ AbstractQueue = [h \in DOMAIN hosts_ |->
            IF h = Host(t) THEN FreeIds(hosts_[h], Ids(locations[t]), 0)
            ELSE FreeIds(hosts_[h], << >>, 0)]
      /\ AbstractDirectory = Without(key_index_, locations[t])
  BY <1>2, AllocView
<1>4. /\ locations'[t] \in Seq(KeyBlockLocation)
      /\ Ids(locations[t]) \in Seq(Nat)
      /\ Ids(locations'[t]) = Append(Ids(locations[t]), NextBlock(PoolOf(t)))
      /\ KeysOf(locations'[t]) = KeysOf(locations[t]) \cup {KeyAt(t)}
  BY <1>1, <1>2, IdsOf DEF Item
<1>5. Len(locations'[t]) = cursor'[t] - 1
  <2>1. Len(Append(locations[t], Item(t))) = Len(locations[t]) + 1
    BY <1>1, <1>2
  <2> QED BY <1>1, <1>2, <1>3, <2>1
<1>6. /\ AbstractQueue' = [h \in DOMAIN hosts_' |->
            IF h = request'[t].host_id THEN FreeIds(hosts_'[h], Ids(locations'[t]), 0)
            ELSE FreeIds(hosts_'[h], << >>, 0)]
      /\ AbstractDirectory' = Without(key_index_', locations'[t])
  BY <1>1, <1>2, <1>4, <1>5, AllocViewNext
<1>7. AbstractQueue' = AbstractQueue
  <2>1. FreeIds(hosts_'[Host(t)], Ids(locations'[t]), 0) =
           FreeIds(hosts_[Host(t)], Ids(locations[t]), 0)
    BY <1>1, <1>2, <1>4, TakeOne DEF PoolOf
  <2>2. request'[t].host_id = Host(t)
    BY <1>1 DEF Host
  <2>3. \A h \in DOMAIN hosts_ :
           (IF h = request'[t].host_id THEN FreeIds(hosts_'[h], Ids(locations'[t]), 0)
            ELSE FreeIds(hosts_'[h], << >>, 0)) =
           (IF h = Host(t) THEN FreeIds(hosts_[h], Ids(locations[t]), 0)
            ELSE FreeIds(hosts_[h], << >>, 0))
    BY <1>1, <2>1, <2>2
  <2> QED BY <1>1, <1>3, <1>6, <2>3
<1>8. AbstractDirectory' = AbstractDirectory
  <2>1. Without(Emplace(key_index_, KeyAt(t), Place(Item(t))), locations'[t]) =
           Without(key_index_, locations[t])
    <3> DEFINE key == KeyAt(t)
               place == Place(Item(t))
               list == locations[t]
               more == locations'[t]
    <3>1. key \notin DOMAIN key_index_ /\ KeysOf(more) = KeysOf(list) \cup {key}
      BY <1>1, <1>4
    <3> HIDE DEF key, place, list, more
    <3>2. Without(Emplace(key_index_, key, place), more) = Without(key_index_, list)
      BY <3>1, InsertHidden
    <3> QED BY <3>2 DEF key, place, list, more
  <2> QED BY <1>1, <1>3, <1>6, <2>1
<1>9. Registrations' = Registrations
  <2>1. hosts_'[Host(t)].registration = hosts_[Host(t)].registration
    BY <1>1, <1>2, AllocateOnePool DEF GoodPool, PoolOf
  <2> QED BY <1>1, <2>1 DEF Registrations
<1> QED BY <1>1, <1>7, <1>8, <1>9, Silent, SameWaiting DEF View

(* In a loop of FreeBlocks.                                                *)
LEMMA FreeView ==
    ASSUME RInv, NEW t \in Threads, Reaches(t, "update", {"FreeBlocks"})
    PROVE  /\ AbstractQueue = [h \in DOMAIN hosts_ |->
                 IF h = Host(t) THEN FreeIds(hosts_[h], << >>, cursor[t] - 1)
                 ELSE FreeIds(hosts_[h], << >>, 0)]
           /\ AbstractDirectory = With(key_index_, SubSeq(locations[t], 1, cursor[t] - 1))
<1>1. /\ pc[t] = "update" /\ request[t].op = "FreeBlocks"
  BY DEF Reaches
<1>2. t = writer /\ Updating("FreeBlocks") /\ ~Updating("AllocBlocks")
  BY <1>1, InLoop
<1>3. LoopDone = SubSeq(locations[t], 1, cursor[t] - 1)
  BY <1>2 DEF LoopDone
<1>4. \A h : /\ Taken(h) = << >>
             /\ Returned(h) = IF h = Host(t) THEN cursor[t] - 1 ELSE 0
  BY <1>2 DEF Taken, Returned, Allocating, Freeing
<1>5. AbstractQueue = [h \in DOMAIN hosts_ |->
         FreeIds(hosts_[h], << >>, IF h = Host(t) THEN cursor[t] - 1 ELSE 0)]
  BY <1>4 DEF AbstractQueue
<1>6. AbstractDirectory = With(key_index_, SubSeq(locations[t], 1, cursor[t] - 1))
  BY <1>2, <1>3 DEF AbstractDirectory
<1> QED BY <1>5, <1>6

(* The same after a step of the loop.                                      *)
LEMMA FreeViewNext ==
    ASSUME NEW t \in Threads, t = writer, writer' = writer,
           pc'[t] = "update", request'[t].op = "FreeBlocks"
    PROVE  /\ AbstractQueue' = [h \in DOMAIN hosts_' |->
                 IF h = request'[t].host_id THEN FreeIds(hosts_'[h], << >>, cursor'[t] - 1)
                 ELSE FreeIds(hosts_'[h], << >>, 0)]
           /\ AbstractDirectory' = With(key_index_', SubSeq(locations'[t], 1, cursor'[t] - 1))
<1>2. writer' = t /\ Updating("FreeBlocks")' /\ ~Updating("AllocBlocks")'
  BY InLoopNext
<1>3. LoopDone' = SubSeq(locations'[t], 1, cursor'[t] - 1)
  BY <1>2 DEF LoopDone
<1>4. \A h : /\ (IF Updating("AllocBlocks")' /\ Host(writer)' = h
                 THEN [i \in DOMAIN LoopDone' |-> (LoopDone')[i].block_id] ELSE << >>) = << >>
             /\ (IF Updating("FreeBlocks")' /\ Host(writer)' = h
                 THEN cursor'[writer'] - 1 ELSE 0) =
                    IF h = request'[t].host_id THEN cursor'[t] - 1 ELSE 0
  BY <1>2 DEF Host
<1>5. AbstractQueue' = [h \in DOMAIN hosts_' |->
         FreeIds(hosts_'[h], << >>, IF h = request'[t].host_id THEN cursor'[t] - 1 ELSE 0)]
  BY <1>4 DEF AbstractQueue, Taken, Returned, Allocating, Freeing
<1>6. AbstractDirectory' = With(key_index_', SubSeq(locations'[t], 1, cursor'[t] - 1))
  BY <1>2, <1>3 DEF AbstractDirectory
<1> QED BY <1>5, <1>6

(* The locations a handler has collected are those of distinct keys.       *)
LEMMA Batch ==
    ASSUME RInv, NEW t \in Threads, pc[t] = "update",
           Len(locations[t]) <= Len(request[t].keys),
           \A i \in 1..Len(locations[t]) : locations[t][i].key = RequestKeys(t)[i]
    PROVE  IsBatch(locations[t])
<1>1. /\ Len(request[t].keys) \in Nat /\ locations[t] \in Seq(KeyBlockLocation)
      /\ \A i, j \in 1..Len(request[t].keys) :
            RequestKeys(t)[i] = RequestKeys(t)[j] => i = j
  BY InLoop
<1>2. Len(locations[t]) \in Nat
  BY <1>1
<1>3. \A i \in 1..Len(locations[t]) : i \in 1..Len(request[t].keys)
  BY <1>1, <1>2
<1> QED BY <1>1, <1>3 DEF IsBatch

(* One key of FreeBlocks: the id is not yet at the tail of the queue, and the *)
(* key is still in the directory.                                          *)
LEMMA FreeKeyRefines ==
    ASSUME RInv, IInv', NEW t \in Threads, WholeFrame(t), FreeKey(t)
    PROVE  [Directory!Next]_(Directory!vars)
<1> DEFINE b == locations[t][cursor[t]].block_id
           c == cursor[t]
           list == locations[t]
<1>1. /\ pc[t] = "update" /\ request[t].op = "FreeBlocks"
      /\ c \in 1..Len(request[t].keys) /\ Len(list) = Len(request[t].keys)
      /\ \A i \in 1..Len(request[t].keys) : list[i].key = RequestKeys(t)[i]
      /\ c - 1 \in 0..Len(PoolOf(t).recycled_blocks)
      /\ b \in PoolOf(t).allocated_blocks
      /\ KeyAt(t) \in DOMAIN key_index_ /\ key_index_[KeyAt(t)] = Place(list[c])
      /\ DOMAIN hosts_' = DOMAIN hosts_ /\ hosts_'[Host(t)] = FreeOne(PoolOf(t), b)
      /\ \A g \in DOMAIN hosts_ \ {Host(t)} : hosts_'[g] = hosts_[g]
      /\ key_index_' = Erase(key_index_, KeyAt(t)) /\ cursor'[t] = c + 1
      /\ UNCHANGED <<pc, request, locations, reply, lockVars>>
  BY FreeKeyChanges
<1>2. /\ t = writer /\ writer' = writer /\ Reaches(t, "update", {"FreeBlocks"})
      /\ Host(t) \in DOMAIN hosts_ /\ GoodPool(PoolOf(t))
      /\ c \in Nat \ {0} /\ Len(request[t].keys) \in Nat
  BY <1>1, InLoop DEF lockVars, Reaches
<1>3. /\ AbstractQueue = [h \in DOMAIN hosts_ |->
            IF h = Host(t) THEN FreeIds(hosts_[h], << >>, c - 1)
            ELSE FreeIds(hosts_[h], << >>, 0)]
      /\ AbstractDirectory = With(key_index_, SubSeq(list, 1, c - 1))
  BY <1>2, FreeView
<1>4. /\ AbstractQueue' = [h \in DOMAIN hosts_' |->
            IF h = request'[t].host_id THEN FreeIds(hosts_'[h], << >>, c)
            ELSE FreeIds(hosts_'[h], << >>, 0)]
      /\ AbstractDirectory' = With(key_index_', SubSeq(list, 1, c))
  <2>1. cursor'[t] - 1 = c /\ locations'[t] = list /\ pc'[t] = "update"
        /\ request'[t].op = "FreeBlocks"
    BY <1>1, <1>2
  <2> HIDE DEF c, list
  <2> QED BY <1>2, <2>1, FreeViewNext
<1>5. AbstractQueue' = AbstractQueue
  <2>1. FreeIds(hosts_'[Host(t)], << >>, c) = FreeIds(hosts_[Host(t)], << >>, c - 1)
    <3> DEFINE m == PoolOf(t)
               n == c - 1
    <3>1. GoodPool(m) /\ n \in 0..Len(m.recycled_blocks) /\ b \in m.allocated_blocks
      BY <1>1, <1>2
    <3>2. n + 1 = c /\ hosts_'[Host(t)] = FreeOne(m, b) /\ hosts_[Host(t)] = m
      BY <1>1, <1>2 DEF PoolOf
    <3> HIDE DEF m, n, b, c
    <3>3. FreeIds(FreeOne(m, b), << >>, n + 1) = FreeIds(m, << >>, n)
      BY <3>1, ReturnOne
    <3> QED BY <3>2, <3>3 DEF n
  <2>2. request'[t].host_id = Host(t)
    BY <1>1 DEF Host
  <2>3. \A h \in DOMAIN hosts_ :
           (IF h = request'[t].host_id THEN FreeIds(hosts_'[h], << >>, c)
            ELSE FreeIds(hosts_'[h], << >>, 0)) =
           (IF h = Host(t) THEN FreeIds(hosts_[h], << >>, c - 1)
            ELSE FreeIds(hosts_[h], << >>, 0))
    BY <1>1, <2>1, <2>2
  <2> QED BY <1>1, <1>3, <1>4, <2>3
<1>6. AbstractDirectory' = AbstractDirectory
  <2>1. IsBatch(list) /\ c \in 1..Len(list)
    BY <1>1, <1>2, Batch
  <2>2. list[c].key = KeyAt(t)
    BY <1>1 DEF KeyAt
  <2>3. With(Erase(key_index_, list[c].key), SubSeq(list, 1, c)) =
           With(key_index_, SubSeq(list, 1, c - 1))
    <3>1. list[c].key \in DOMAIN key_index_ /\ key_index_[list[c].key] = Place(list[c])
      BY <1>1, <2>2
    <3> HIDE DEF list, c
    <3> QED BY <2>1, <3>1, EraseHidden
  <2> QED BY <1>1, <1>3, <1>4, <2>2, <2>3
<1>7. Registrations' = Registrations
  <2>1. hosts_'[Host(t)].registration = hosts_[Host(t)].registration
    BY <1>1, <1>2, FreeOnePool DEF GoodPool, PoolOf
  <2> QED BY <1>1, <2>1 DEF Registrations
<1> QED BY <1>1, <1>5, <1>6, <1>7, Silent, SameWaiting DEF View

-----------------------------------------------------------------------------
(* The end of a loop is the instant at which the request takes effect.      *)

(* A handler that has done all its keys.                                   *)
LEMMA LoopEnds ==
    ASSUME RInv, NEW t \in Threads, WholeFrame(t), pc[t] = "update",
           cursor[t] > Len(request[t].keys),
           NEW response \in Reply, Respond(t, response), UNCHANGED <<hosts_, key_index_>>
    PROVE  /\ t = writer /\ cursor[t] = Len(request[t].keys) + 1
           /\ Unanswered[t] = request[t] /\ request[t] # NoRequest
           /\ Directory!RefusalsOf(request[t]) = {}
           /\ Directory!Canonical(request[t].keys) = RequestKeys(t)
           /\ DOMAIN RequestKeys(t) = 1..Len(request[t].keys)
           /\ Len(RequestKeys(t)) = Len(request[t].keys)
           /\ Directory!Answer(t, response)
           /\ AbstractQueue' = [h \in DOMAIN hosts_ |-> FreeIds(hosts_[h], << >>, 0)]
           /\ AbstractDirectory' = key_index_
           /\ Registrations' = Registrations
<1>1. /\ IInv /\ TypeOK /\ StageOK(t)
  BY DEF RInv, IInv, HandlerOK
<1>2. /\ pc'[t] = "unlock" /\ reply' = [reply EXCEPT ![t] = response]
      /\ request' = request /\ writer' = writer
  BY <1>1 DEF Respond, Goto, TypeOK, StateTyped, lockVars
<1>3. /\ t = writer /\ request[t].keys \in Seq(RawKeys)
      /\ cursor[t] \in Nat \ {0} /\ cursor[t] <= Len(request[t].keys) + 1
      /\ Len(request[t].keys) \in Nat
  BY InLoop
<1>4. /\ Unanswered[t] = request[t] /\ request[t] \in Request /\ request[t] # NoRequest
      /\ Directory!Answer(t, response)
  BY <1>2, Answering
<1>5. Directory!RefusalsOf(request[t]) = {}
  BY <1>1, <1>4, RequestRefused DEF StageOK
<1>6. /\ Directory!Canonical(request[t].keys) = RequestKeys(t)
      /\ DOMAIN RequestKeys(t) = 1..Len(request[t].keys)
      /\ Len(RequestKeys(t)) = Len(request[t].keys)
  BY <1>3, CanonicalSequence, SameKeys DEF RequestKeys
<1>7. \A op : ~Updating(op)'
  BY <1>2, <1>3, InLoopNext
<1>8. /\ AbstractQueue' = [h \in DOMAIN hosts_ |-> FreeIds(hosts_[h], << >>, 0)]
      /\ AbstractDirectory' = key_index_
  BY <1>7, QuietViewNext
<1>9. Registrations' = Registrations
  BY DEF Registrations
<1>10. cursor[t] = Len(request[t].keys) + 1
  BY <1>3
<1> QED BY <1>3, <1>4, <1>5, <1>6, <1>8, <1>9, <1>10

(* AllocBlocks: the ids at the head of the queue go to the keys, in order.   *)
LEMMA AllocDoneRefines ==
    ASSUME RInv, NEW t \in Threads, WholeFrame(t), AllocDone(t)
    PROVE  [Directory!Next]_(Directory!vars)
<1> DEFINE keys == RequestKeys(t)
           h == Host(t)
           list == locations[t]
           n == Len(request[t].keys)
           q == AbstractQueue[h]
           m == hosts_[h]
<1>1. /\ pc[t] = "update" /\ request[t].op = "AllocBlocks" /\ cursor[t] > n
      /\ Respond(t, Allocated(list)) /\ UNCHANGED <<hosts_, key_index_>>
      /\ Reaches(t, "update", {"AllocBlocks"}) /\ AllocProgress(t)
  BY DEF AllocDone, Looped, Reaches, RInv, Progress
<1>2. /\ h \in DOMAIN hosts_ /\ GoodPool(m) /\ n \in Nat
      /\ list \in Seq(KeyBlockLocation)
      /\ \A i \in 1..n : keys[i] \in Keys
      /\ \A i, j \in 1..n : keys[i] = keys[j] => i = j
  BY <1>1, InLoop DEF PoolOf
<1>3. Allocated(list) \in Reply
  BY <1>2, ReplyTypes
<1>4. /\ cursor[t] = n + 1
      /\ Unanswered[t] = request[t] /\ request[t] # NoRequest
      /\ Directory!RefusalsOf(request[t]) = {}
      /\ Directory!Canonical(request[t].keys) = keys
      /\ DOMAIN keys = 1..n /\ Len(keys) = n
      /\ Directory!Answer(t, Allocated(list))
      /\ AbstractQueue' = [g \in DOMAIN hosts_ |-> FreeIds(hosts_[g], << >>, 0)]
      /\ AbstractDirectory' = key_index_
      /\ Registrations' = Registrations
  BY <1>1, <1>3, LoopEnds
<1>5. /\ Len(list) = n
      /\ AbstractQueue = [g \in DOMAIN hosts_ |->
            IF g = h THEN FreeIds(hosts_[g], Ids(list), 0) ELSE FreeIds(hosts_[g], << >>, 0)]
      /\ AbstractDirectory = Without(key_index_, list)
  BY <1>1, <1>2, <1>4, AllocView
<1>6. \A i \in 1..n :
         /\ list[i] = [key |-> keys[i], host_id |-> h, block_id |-> list[i].block_id]
         /\ list[i].key = keys[i] /\ list[i].host_id = h
         /\ keys[i] \in DOMAIN key_index_ /\ key_index_[keys[i]] = Place(list[i])
  <2>1. n = cursor[t] - 1
    BY <1>2, <1>4
  <2>2. \A i \in 1..n :
           /\ list[i].key = keys[i] /\ list[i].host_id = h
           /\ keys[i] \in DOMAIN key_index_
           /\ key_index_[keys[i]] = [host_id |-> h, block_id |-> list[i].block_id]
    BY <1>1, <2>1 DEF AllocProgress
  <2>3. \A i \in 1..n : list[i] \in KeyBlockLocation
    BY <1>2, <1>5
  <2>4. \A i \in 1..n : list[i] =
           [key |-> list[i].key, host_id |-> list[i].host_id, block_id |-> list[i].block_id]
    BY <2>3 DEF KeyBlockLocation
  <2> HIDE DEF keys, h, list, n
  <2> QED BY <2>2, <2>4 DEF Place
<1>7. /\ IsBatch(list) /\ IsIndex(key_index_)
  <2>1. IsBatch(list)
    <3>1. Len(list) = n /\ \A i \in 1..n : list[i].key = keys[i]
      BY <1>5, <1>6
    <3>2. n <= n
      BY <1>2
    <3>3. /\ Len(list) <= n
          /\ \A i \in 1..Len(list) : list[i].key = keys[i]
      <4> HIDE DEF list, n, keys
      <4> QED BY <3>1, <3>2
    <3> QED BY <1>1, <3>3, Batch
  <2> QED BY <2>1, PoolsGood DEF RInv
<1>8. /\ Ids(list) \in Seq(Nat) /\ Len(Ids(list)) = n
      /\ \A i \in 1..n : Ids(list)[i] = list[i].block_id
  BY <1>2, <1>5, IdsOf
<1>9. q = FreeIds(m, Ids(list), 0)
  BY <1>2, <1>5
<1>10. /\ \A i \in 1..n : q[i] = list[i].block_id
       /\ n <= Len(q)
       /\ SubSeq(q, n + 1, Len(q)) = FreeIds(m, << >>, 0)
  <2> DEFINE ids == Ids(list)
  <2>1. GoodPool(m) /\ ids \in Seq(Nat) /\ Len(ids) = n /\ q = FreeIds(m, ids, 0)
        /\ m \in HostMemory /\ Partitioned(m)
    BY <1>2, <1>8, <1>9 DEF GoodPool
  <2>2. \A i \in 1..n : ids[i] = list[i].block_id
    BY <1>8
  <2> HIDE DEF ids, m, q, list
  <2>3. /\ FreshLeft(m) \in Nat /\ Len(m.recycled_blocks) \in Nat
        /\ Len(q) = Len(ids) + FreshLeft(m) + Len(m.recycled_blocks)
        /\ \A i \in 1..Len(ids) : q[i] = ids[i]
    BY <2>1, WholeQueue
  <2>4. SubSeq(FreeIds(m, ids, 0), Len(ids) + 1, Len(FreeIds(m, ids, 0))) = FreeIds(m, << >>, 0)
    BY <2>1, TakenAll
  <2> HIDE DEF n
  <2> QED BY <1>2, <2>1, <2>2, <2>3, <2>4, SMTT(30)
<1>11. AbstractQueue' = [AbstractQueue EXCEPT ![h] = SubSeq(q, n + 1, Len(q))]
  <2> HIDE DEF h, n, q, m
  <2>1. SubSeq(q, n + 1, Len(q)) = FreeIds(hosts_[h], << >>, 0)
    BY <1>10 DEF m
  <2> QED BY <1>2, <1>4, <1>5, <2>1
<1>12. /\ \A i \in 1..n : keys[i] \notin DOMAIN AbstractDirectory
       /\ key_index_ = [k \in DOMAIN AbstractDirectory \cup {keys[i] : i \in 1..n} |->
             IF k \in DOMAIN AbstractDirectory THEN AbstractDirectory[k]
             ELSE LocationIn(list, k)]
  <2>1. \A i \in 1..Len(list) :
           list[i].key \in DOMAIN key_index_ /\ key_index_[list[i].key] = Place(list[i])
    BY <1>5, <1>6
  <2>2. {list[i].key : i \in 1..Len(list)} = {keys[i] : i \in 1..n}
    <3>1. Len(list) = n /\ \A i \in 1..n : list[i].key = keys[i]
      BY <1>5, <1>6
    <3> HIDE DEF list, n, keys
    <3> QED BY <3>1
  <2>3. \A i \in 1..n : i \in 1..Len(list) /\ list[i].key = keys[i]
    BY <1>5, <1>6
  <2> HIDE DEF list, n, keys
  <2>4. /\ \A i \in 1..Len(list) : list[i].key \notin DOMAIN Without(key_index_, list)
        /\ key_index_ = Inserted(Without(key_index_, list), list)
    BY <1>7, <2>1, InsertedAll
  <2> QED BY <1>5, <2>2, <2>3, <2>4 DEF Inserted
<1> DEFINE IndexOf(key) == CHOOSE i \in 1..n : keys[i] = key
<1>13. \A i \in 1..n :
          LocationIn(list, keys[i]) = [host_id |-> h, block_id |-> q[IndexOf(keys[i])]]
  <2> SUFFICES ASSUME NEW i \in 1..n
               PROVE  LocationIn(list, keys[i]) =
                         [host_id |-> h, block_id |-> q[IndexOf(keys[i])]]
    OBVIOUS
  <2>1. IndexOf(keys[i]) = i
    BY <1>2
  <2>2. LocationIn(list, keys[i]) = Place(list[i])
    <3>1. i \in 1..Len(list) /\ list[i].key = keys[i]
      BY <1>5, <1>6
    <3> HIDE DEF list, keys, n
    <3>2. LocationIn(list, list[i].key) = Place(list[i])
      BY <1>7, <3>1, Located
    <3> QED BY <3>1, <3>2
  <2>3. q[i] = list[i].block_id /\ list[i].host_id = h
    BY <1>6, <1>10
  <2> HIDE DEF IndexOf, q, list, keys, h, n
  <2> QED BY <2>1, <2>2, <2>3 DEF Place
<1>14. AbstractDirectory' =
          [k \in DOMAIN AbstractDirectory \cup {keys[i] : i \in 1..n} |->
             IF k \in DOMAIN AbstractDirectory THEN AbstractDirectory[k]
             ELSE [host_id |-> h, block_id |-> q[IndexOf(k)]]]
  <2> HIDE DEF IndexOf, q, list, keys, h, n
  <2> QED BY <1>4, <1>12, <1>13
<1>15. list = [i \in 1..n |-> [key |-> keys[i], host_id |-> h, block_id |-> q[i]]]
  <2>1. list = [i \in 1..n |-> list[i]]
    <3>1. DOMAIN list = 1..n /\ list = [i \in DOMAIN list |-> list[i]]
      BY <1>2, <1>5
    <3> QED BY <3>1
  <2>2. \A i \in 1..n : list[i] = [key |-> keys[i], host_id |-> h, block_id |-> q[i]]
    BY <1>6, <1>10
  <2> HIDE DEF q, list, keys, h, n
  <2> QED BY <2>1, <2>2
<1>16. Directory!AllocBlocks(t, h, keys)
  <2>1. /\ h \in DOMAIN AbstractQueue
        /\ AbstractQueue' = [AbstractQueue EXCEPT ![h] =
              SubSeq(AbstractQueue[h], Len(keys) + 1, Len(AbstractQueue[h]))]
        /\ Len(keys) <= Len(AbstractQueue[h])
    BY <1>2, <1>4, <1>5, <1>10, <1>11
  <2>2. Directory!Answer(t, Directory!Allocated([i \in 1..Len(keys) |->
           [key |-> keys[i], host_id |-> h, block_id |-> AbstractQueue[h][i]]]))
    <3>1. list = [i \in 1..Len(keys) |->
             [key |-> keys[i], host_id |-> h, block_id |-> AbstractQueue[h][i]]]
      BY <1>4, <1>15
    <3> HIDE DEF list, keys, h
    <3> QED BY <1>4, <3>1, SameReplies
  <2>3. /\ \A i \in 1..Len(keys) : keys[i] \notin DOMAIN AbstractDirectory
        /\ AbstractDirectory' =
              [k \in DOMAIN AbstractDirectory \cup {keys[i] : i \in 1..Len(keys)} |->
                 IF k \in DOMAIN AbstractDirectory THEN AbstractDirectory[k]
                 ELSE [host_id |-> h,
                       block_id |-> AbstractQueue[h][CHOOSE i \in 1..Len(keys) : keys[i] = k]]]
    BY <1>4, <1>12, <1>14, SMTT(30)
  <2> HIDE DEF keys, h
  <2> QED BY <1>4, <2>1, <2>2, <2>3 DEF Directory!AllocBlocks
<1>17. Directory!TakeEffect(t)
  <2>1. Directory!AllocBlocks(t, request[t].host_id, Directory!Canonical(request[t].keys))
    BY <1>4, <1>16 DEF Host
  <2> QED BY <1>1, <1>4, <2>1 DEF Directory!TakeEffect
<1> QED BY <1>17, Effect

(* FreeBlocks: the keys leave the index and their ids go to the tail of the  *)
(* queue, in order.                                                        *)
LEMMA FreeDoneRefines ==
    ASSUME RInv, NEW t \in Threads, WholeFrame(t), FreeDone(t)
    PROVE  [Directory!Next]_(Directory!vars)
<1> DEFINE keys == RequestKeys(t)
           h == Host(t)
           list == locations[t]
           n == Len(request[t].keys)
           m == hosts_[h]
           dir == AbstractDirectory
<1>1. /\ pc[t] = "update" /\ request[t].op = "FreeBlocks" /\ cursor[t] > n
      /\ Respond(t, Freed(n)) /\ UNCHANGED <<hosts_, key_index_>>
      /\ Reaches(t, "update", {"FreeBlocks"}) /\ FreeProgress(t) /\ StageOK(t)
  BY DEF FreeDone, Looped, Reaches, RInv, Progress, IInv, HandlerOK
<1>2. /\ h \in DOMAIN hosts_ /\ GoodPool(m) /\ n \in Nat
      /\ list \in Seq(KeyBlockLocation) /\ Len(list) = n
      /\ \A i, j \in 1..n : keys[i] = keys[j] => i = j
  BY <1>1, InLoop DEF PoolOf, StageOK
<1>3. Freed(n) \in Reply
  BY <1>2, ReplyTypes
<1>4. /\ cursor[t] = n + 1
      /\ Unanswered[t] = request[t] /\ request[t] # NoRequest
      /\ Directory!RefusalsOf(request[t]) = {}
      /\ Directory!Canonical(request[t].keys) = keys
      /\ DOMAIN keys = 1..n /\ Len(keys) = n
      /\ Directory!Answer(t, Freed(n))
      /\ AbstractQueue' = [g \in DOMAIN hosts_ |-> FreeIds(hosts_[g], << >>, 0)]
      /\ AbstractDirectory' = key_index_
      /\ Registrations' = Registrations
  BY <1>1, <1>3, LoopEnds
<1>5. cursor[t] - 1 = n
  BY <1>2, <1>4
<1>6. /\ AbstractQueue = [g \in DOMAIN hosts_ |->
            IF g = h THEN FreeIds(hosts_[g], << >>, n) ELSE FreeIds(hosts_[g], << >>, 0)]
      /\ dir = With(key_index_, list)
  <2>1. SubSeq(list, 1, n) = list
    BY <1>2, IdsOf
  <2> QED BY <1>1, <1>5, <2>1, FreeView
<1>7. /\ n <= Len(m.recycled_blocks)
      /\ \A i \in 1..n :
            /\ list[i].key = keys[i] /\ list[i].host_id = h
            /\ keys[i] \notin DOMAIN key_index_
            /\ LastRecycled(m, n, i) = list[i].block_id
  BY <1>1, <1>5 DEF FreeProgress
<1>8. IsBatch(list) /\ IsIndex(key_index_)
  <2>1. IsBatch(list)
    BY <1>1, <1>2, <1>7, Batch
  <2> QED BY <2>1, PoolsGood DEF RInv
<1>9. /\ \A i \in 1..n : keys[i] \in DOMAIN dir /\ dir[keys[i]] = Place(list[i])
      /\ key_index_ = [k \in DOMAIN dir \ {keys[i] : i \in 1..n} |-> dir[k]]
  <2>1. \A i \in 1..Len(list) : list[i].key \notin DOMAIN key_index_
    BY <1>2, <1>7
  <2>2. {list[i].key : i \in 1..Len(list)} = {keys[i] : i \in 1..n}
    BY <1>2, <1>7
  <2>3. \A i \in 1..n : i \in 1..Len(list) /\ list[i].key = keys[i]
    BY <1>2, <1>7
  <2> HIDE DEF list, n, keys, dir
  <2>4. /\ \A i \in 1..Len(list) :
              /\ list[i].key \in DOMAIN With(key_index_, list)
              /\ With(key_index_, list)[list[i].key] = Place(list[i])
        /\ key_index_ = Erased(With(key_index_, list), list)
    BY <1>8, <2>1, ErasedAll
  <2> QED BY <1>6, <2>2, <2>3, <2>4 DEF Erased
<1>10. \A i \in 1..n : dir[keys[i]].host_id = h /\ dir[keys[i]].block_id = list[i].block_id
  <2> HIDE DEF list, n, keys, dir, h
  <2>1. \A x : Place(x).host_id = x.host_id /\ Place(x).block_id = x.block_id
    BY DEF Place
  <2> QED BY <1>7, <1>9, <2>1
<1> DEFINE returned == [i \in DOMAIN keys |-> dir[keys[i]].block_id]
<1>11. returned = Ids(list)
  <2>1. DOMAIN list = DOMAIN keys
    BY <1>2, <1>4
  <2> HIDE DEF list, n, keys, dir, h
  <2> QED BY <1>4, <1>10, <2>1 DEF Ids
<1>12. FreeIds(m, << >>, n) \o returned = FreeIds(m, << >>, 0)
  <2>1. /\ Ids(list) \in Seq(Nat) /\ Len(Ids(list)) = n
        /\ \A i \in 1..n : Ids(list)[i] = list[i].block_id
    BY <1>2, IdsOf
  <2>2. Len(m.recycled_blocks) \in Nat
    BY <1>2 DEF GoodPool, HostMemory
  <2>3. /\ n \in 0..Len(m.recycled_blocks) /\ returned \in Seq(Nat) /\ Len(returned) = n
        /\ \A i \in 1..n : LastRecycled(m, n, i) = returned[i]
    BY <1>2, <1>7, <1>11, <2>1, <2>2
  <2> HIDE DEF m, n, returned
  <2> QED BY <1>2, <2>3, ReturnedAll
<1>13. AbstractQueue' = [AbstractQueue EXCEPT ![h] = AbstractQueue[h] \o returned]
  <2> HIDE DEF h, n, returned, m
  <2>1. AbstractQueue[h] \o returned = FreeIds(hosts_[h], << >>, 0)
    BY <1>2, <1>6, <1>12 DEF m
  <2> QED BY <1>2, <1>4, <1>6, <2>1
<1>14. Directory!FreeBlocks(t, h, keys)
  <2> DEFINE missing == {i \in DOMAIN keys : keys[i] \notin DOMAIN dir}
             foreign == {i \in DOMAIN keys \ missing : dir[keys[i]].host_id # h}
  <2>1. missing = {} /\ foreign = {} /\ h \in DOMAIN AbstractQueue
    BY <1>2, <1>4, <1>6, <1>9, <1>10
  <2>2. AbstractDirectory' =
           [k \in DOMAIN dir \ {keys[i] : i \in DOMAIN keys} |-> dir[k]]
    BY <1>4, <1>9
  <2>3. Directory!Answer(t, Directory!Freed(Len(keys)))
    BY <1>4, SameReplies
  <2> HIDE DEF keys, h
  <2> QED BY <1>4, <1>13, <2>1, <2>2, <2>3 DEF Directory!FreeBlocks
<1>15. Directory!TakeEffect(t)
  <2>1. Directory!FreeBlocks(t, request[t].host_id, Directory!Canonical(request[t].keys))
    BY <1>4, <1>14 DEF Host
  <2> QED BY <1>1, <1>4, <2>1 DEF Directory!TakeEffect
<1> QED BY <1>15, Effect

-----------------------------------------------------------------------------
(* The counts.  *)

(* The blocks left are those of the directory's queues.                    *)
LEMMA QueuesCount ==
    ASSUME IInv, AbstractQueue = [h \in DOMAIN hosts_ |-> FreeIds(hosts_[h], << >>, 0)]
    PROVE  Directory!FreeCount = Left(hosts_)
<1>1. GoodPools(hosts_)
  BY PoolsGood
<1>2. \A h \in DOMAIN hosts_ : Len(AbstractQueue[h]) = AvailableBlockCount(hosts_[h])
  <2> SUFFICES ASSUME NEW h \in DOMAIN hosts_
               PROVE  Len(AbstractQueue[h]) = AvailableBlockCount(hosts_[h])
    OBVIOUS
  <2>1. GoodPool(hosts_[h]) /\ AbstractQueue[h] = FreeIds(hosts_[h], << >>, 0)
    BY <1>1 DEF GoodPools
  <2> QED BY <2>1, QueueLength
<1>3. [h \in DOMAIN AbstractQueue |-> Len(AbstractQueue[h])] =
         [h \in DOMAIN hosts_ |-> AvailableBlockCount(hosts_[h])]
  BY <1>2
<1> QED BY <1>3, SameSum DEF Directory!FreeCount, Left

AllocatedPairs == UNION {{h} \X hosts_[h].allocated_blocks : h \in DOMAIN hosts_}

(* The pools' allocated blocks are finitely many.                          *)
LEMMA PairsFinite ==
    ASSUME IInv
    PROVE  IsFiniteSet(AllocatedPairs)
<1> DEFINE S == DOMAIN hosts_
           e == [h \in S |-> hosts_[h].total_blocks]
           N == SumFunctionOnSet(e, S)
<1>1. /\ IsFiniteSet(S) /\ \A h \in S : GoodPool(hosts_[h])
  BY PoolsGood DEF GoodPools
<1>2. \A h \in S : /\ e[h] \in Nat /\ e[h] = hosts_[h].total_blocks
                   /\ \A b \in hosts_[h].allocated_blocks : b \in Nat /\ b <= e[h]
  <2> SUFFICES ASSUME NEW h \in S
               PROVE  /\ hosts_[h].total_blocks \in Nat
                      /\ \A b \in hosts_[h].allocated_blocks :
                            b \in Nat /\ b <= hosts_[h].total_blocks
    OBVIOUS
  <2> DEFINE m == hosts_[h]
  <2>1. m \in HostMemory /\ Partitioned(m)
    BY <1>1 DEF GoodPool
  <2> HIDE DEF m
  <2>2. /\ m.total_blocks \in Nat /\ m.next_fresh_block \in Nat
        /\ m.allocated_blocks \subseteq 0..(m.next_fresh_block - 1)
        /\ m.next_fresh_block <= m.total_blocks
    BY <2>1 DEF Partitioned, HostMemory
  <2>3. \A b \in m.allocated_blocks : b \in Nat /\ b <= m.total_blocks
    BY <2>2
  <2> QED BY <2>2, <2>3 DEF m
<1> HIDE DEF e
<1>3. \A h \in S : e[h] <= N /\ N \in Nat
  <2> SUFFICES ASSUME NEW h \in S PROVE e[h] <= N /\ N \in Nat
    OBVIOUS
  <2>1. IsFiniteSet(S \ {h})
    BY <1>1, FS_RemoveElement
  <2>2. N \in Nat /\ SumFunctionOnSet(e, S \ {h}) \in Nat
    BY <1>1, <1>2, <2>1, SumType
  <2>3. N = e[h] + SumFunctionOnSet(e, S \ {h})
    BY <1>1, <1>2, SumAnyFirst
  <2>4. e[h] \in Nat
    BY <1>2
  <2> QED BY <2>2, <2>3, <2>4
<1>4. N \in Nat
  BY <1>1, <1>2, SumType
<1> HIDE DEF N
<1>5. AllocatedPairs \subseteq S \X (0..N)
  <2> SUFFICES ASSUME NEW h \in S, NEW b \in hosts_[h].allocated_blocks PROVE b \in 0..N
    BY DEF AllocatedPairs
  <2> QED BY <1>2, <1>3
<1>6. IsFiniteSet(S \X (0..N))
  <2>1. IsFiniteSet(0..N)
    BY <1>4, FS_Interval
  <2> QED BY <1>1, <2>1, FS_Product
<1> QED BY <1>5, <1>6, FS_Subset

(* There are as many allocated blocks as there are keys.                   *)
LEMMA KeysCount ==
    ASSUME IInv
    PROVE  AllocatedBlockCount = Cardinality(DOMAIN key_index_)
<1> DEFINE D == DOMAIN key_index_
           f == [k \in D |-> <<key_index_[k].host_id, key_index_[k].block_id>>]
<1>1. IndexMatchesPools /\ key_index_ \in [D -> BlockLocation]
  BY DEF IInv, TypeOK, StateTyped
<1>2. \A k \in D : key_index_[k] =
         [host_id |-> key_index_[k].host_id, block_id |-> key_index_[k].block_id]
  BY <1>1 DEF BlockLocation
<1>3. f \in Injection(D, AllocatedPairs)
  <2>1. \A k \in D : f[k] \in AllocatedPairs
    BY <1>1 DEF IndexMatchesPools, AllocatedPairs
  <2>2. ASSUME NEW k \in D, NEW l \in D, f[k] = f[l] PROVE k = l
    <3>1. key_index_[k] = key_index_[l]
      BY <1>2, <2>2
    <3> QED BY <1>1, <3>1 DEF IndexMatchesPools
  <2> QED BY <2>1, <2>2 DEF Injection, IsInjective
<1>4. f \in Surjection(D, AllocatedPairs)
  <2>1. \A p \in AllocatedPairs : \E k \in D : f[k] = p
    <3> SUFFICES ASSUME NEW p \in AllocatedPairs PROVE \E k \in D : f[k] = p
      OBVIOUS
    <3>1. PICK h \in DOMAIN hosts_ : p \in {h} \X hosts_[h].allocated_blocks
      BY DEF AllocatedPairs
    <3>2. PICK b \in hosts_[h].allocated_blocks : p = <<h, b>>
      BY <3>1
    <3>3. PICK k \in D : key_index_[k] = [host_id |-> h, block_id |-> b]
      BY <1>1 DEF IndexMatchesPools
    <3> QED BY <3>2, <3>3
  <2> QED BY <1>3, <2>1 DEF Injection, Surjection
<1> HIDE DEF f
<1>5. Cardinality(D) = Cardinality(AllocatedPairs)
  BY <1>3, <1>4, PairsFinite, FS_Injection
<1> QED BY <1>5 DEF AllocatedBlockCount, AllocatedPairs

(* The three counts of the accessors.                                      *)
LEMMA CountRefines ==
    ASSUME RInv, NEW t \in Threads, WholeFrame(t), Count(t)
    PROVE  [Directory!Next]_(Directory!vars)
<1>1. /\ IInv /\ pc[t] = "locked" /\ UNCHANGED dataVars /\ request[t].op \in CountOps
  BY DEF RInv, Count, Reaches
<1>2. PICK response \in Reply : Respond(t, response)
  BY <1>1, GuardOfInvariant, ReadReplies
<1>3. /\ AbstractDirectory = key_index_
      /\ AbstractQueue = [h \in DOMAIN hosts_ |-> FreeIds(hosts_[h], << >>, 0)]
  BY <1>1, <1>2, Replying
<1>4. reply'[t] = response
  BY <1>1, <1>2 DEF IInv, TypeOK, StateTyped, Respond
<1>5. /\ request[t].op = "RegisteredHostCount" => response = Counted(Cardinality(DOMAIN hosts_))
      /\ request[t].op = "AvailableBlockCount" => response = Counted(available_blocks_)
      /\ request[t].op = "AllocatedBlockCount" =>
            response = Counted(AllocatedBlockCount % (MaxWord + 1))
  BY <1>1, <1>4 DEF Count, Respond, IInv, TypeOK, StateTyped
<1>6. Directory!ReadReply(request[t]) = response
  <2>1. CASE request[t].op = "RegisteredHostCount"
    <3>1. Directory!ReadReply(request[t]) =
             Directory!Counted(Directory!Cardinality(DOMAIN Registrations))
      BY <2>1 DEF Directory!ReadReply
    <3>2. Directory!Cardinality(DOMAIN Registrations) = Cardinality(DOMAIN hosts_)
      BY SameArithmetic DEF Registrations
    <3> QED BY <1>5, <2>1, <3>1, <3>2, SameReplies
  <2>2. CASE request[t].op = "AvailableBlockCount"
    <3>1. Directory!ReadReply(request[t]) =
             Directory!Counted(Directory!FreeCount % (MaxWord + 1))
      BY <2>2 DEF Directory!ReadReply
    <3>2. Directory!FreeCount % (MaxWord + 1) = available_blocks_
      BY <1>1, <1>3, HolderQuiet, QuietCount, QueuesCount
    <3> QED BY <1>5, <2>2, <3>1, <3>2, SameReplies
  <2>3. CASE request[t].op = "AllocatedBlockCount"
    <3>1. Directory!ReadReply(request[t]) =
             Directory!Counted(Directory!Cardinality(DOMAIN AbstractDirectory) % (MaxWord + 1))
      BY <2>3 DEF Directory!ReadReply
    <3>2. Directory!Cardinality(DOMAIN AbstractDirectory) = AllocatedBlockCount
      BY <1>1, <1>3, KeysCount, SameArithmetic
    <3> QED BY <1>5, <2>3, <3>1, <3>2, SameReplies
  <2> QED BY <1>1, <2>1, <2>2, <2>3 DEF CountOps
<1>7. request[t].op \notin WriteOps
  BY <1>1 DEF WriteOps, BatchOps, CountOps
<1> QED BY <1>1, <1>2, <1>6, <1>7, ReadRefines

-----------------------------------------------------------------------------
(* BatchExist.  *)

(* The greatest of a bounded set of naturals.                              *)
LEMMA Greatest ==
    ASSUME NEW n \in Nat, NEW S \in SUBSET (0..n), S # {}
    PROVE  Max(S) \in S /\ \A x \in S : x <= Max(S)
<1>1. {n - x : x \in S} \in SUBSET Nat /\ {n - x : x \in S} # {}
  <2>1. \A x \in S : n - x \in Nat
    OBVIOUS
  <2>2. PICK x \in S : TRUE
    OBVIOUS
  <2>3. n - x \in {n - z : z \in S}
    OBVIOUS
  <2> QED BY <2>1, <2>3
<1>2. PICK y \in {n - x : x \in S} : \A z \in {n - x : x \in S} : y <= z
  BY <1>1, LeastNatural
<1>3. PICK x \in S : y = n - x
  BY <1>2
<1>4. \A z \in S : z \in Int /\ x \in Int /\ n - x <= n - z
  BY <1>2, <1>3
<1>5. \A z \in S : x >= z
  BY <1>4
<1>6. Max(S) \in S /\ \A z \in S : Max(S) >= z
  BY <1>5 DEF Max
<1> QED BY <1>4, <1>6

(* Each element of a finite set of naturals has a rank of its own, and all   *)
(* ranks are taken.                                                        *)
LEMMA RankedAll ==
    ASSUME NEW S \in SUBSET Nat, IsFiniteSet(S)
    PROVE  /\ \A i, j \in S : Rank(S, i) = Rank(S, j) => i = j
           /\ \A k \in 1..Cardinality(S) : \E i \in S : Rank(S, i) = k
<1> DEFINE n == Cardinality(S)
           below(i) == {j \in S : j <= i}
           f == [i \in S |-> Rank(S, i)]
<1>1. n \in Nat /\ \A i \in S : Rank(S, i) \in 1..n
  BY Ranks
<1>2. ASSUME NEW i \in S, NEW j \in S, i < j PROVE Rank(S, i) # Rank(S, j)
  <2>1. below(i) \subseteq below(j) /\ j \in below(j) /\ j \notin below(i)
        /\ below(j) \subseteq S
    <3>1. \A x \in S : x <= i => x <= j
      BY <1>2
    <3>2. j <= j /\ ~(j <= i)
      BY <1>2
    <3> QED BY <3>1, <3>2
  <2> HIDE DEF below
  <2>2. IsFiniteSet(below(j))
    BY <2>1, FS_Subset
  <2>3. Cardinality(below(j)) # Cardinality(below(i))
    BY <2>1, <2>2, FS_Subset
  <2> QED BY <2>3 DEF Rank, below
<1>3. \A i, j \in S : Rank(S, i) = Rank(S, j) => i = j
  <2> SUFFICES ASSUME NEW i \in S, NEW j \in S, Rank(S, i) = Rank(S, j), i # j PROVE FALSE
    OBVIOUS
  <2>1. i < j \/ j < i
    OBVIOUS
  <2> QED BY <1>2, <2>1
<1>4. f \in Injection(S, 1..n)
  BY <1>1, <1>3 DEF Injection, IsInjective
<1>5. IsFiniteSet(1..n) /\ Cardinality(1..n) = n
  BY <1>1, FS_Interval
<1>6. f \in Surjection(S, 1..n)
  <2> HIDE DEF f
  <2>1. Cardinality(S) = Cardinality(1..n)
    BY <1>5
  <2> HIDE DEF n
  <2> QED BY <1>4, <1>5, <2>1, FS_Injection
<1>7. \A k \in 1..n : \E i \in S : Rank(S, i) = k
  BY <1>6 DEF Surjection
<1> QED BY <1>3, <1>7

HostsOf(index, keys, c) == {index[keys[i]].host_id : i \in 1..(c - 1)}

Largest(index, keys, c) ==
    {h \in HostsOf(index, keys, c) : \A g \in HostsOf(index, keys, c) :
        Cardinality(Positions(index, keys, c, g)) <= Cardinality(Positions(index, keys, c, h))}

IsBest(index, keys, c, h) ==
    \A g \in Largest(index, keys, c) :
       Max(Positions(index, keys, c, h)) <= Max(Positions(index, keys, c, g))

(* The best host of a scan is the one that the directory replies.          *)
LEMMA BestIsBest ==
    ASSUME NEW index, NEW keys, NEW c \in Nat \ {0},
           NEW lists \in [HostIds -> Seq(KeyBlockLocation)],
           NEW b, b.count \in Nat \ {0}, b.host_id \in HostIds,
           Scanned(index, keys, c, lists, b),
           \A i \in 1..(c - 1) : index[keys[i]].host_id \in HostIds
    PROVE  /\ b.host_id \in Largest(index, keys, c)
           /\ \A h \in Largest(index, keys, c) : IsBest(index, keys, c, h) <=> h = b.host_id
<1> DEFINE S(h) == Positions(index, keys, c, h)
           B == b.host_id
           hosts == HostsOf(index, keys, c)
           largest == Largest(index, keys, c)
<1>1. \A h \in HostIds : /\ Len(lists[h]) = Cardinality(S(h)) /\ Len(lists[h]) <= b.count
                         /\ Len(lists[h]) \in Nat
  BY DEF Scanned, Matched, FirstOfMost
<1>2. /\ Len(lists[B]) = b.count
      /\ \A h \in HostIds \ {B} : Len(lists[h]) = b.count =>
            \E i \in S(h) : \A j \in S(B) : j < i
  BY DEF Scanned, FirstOfMost
<1>3. \A h : /\ S(h) \in SUBSET Nat /\ IsFiniteSet(S(h)) /\ S(h) \in SUBSET (0..(c - 1))
             /\ c - 1 \in Nat
  BY PositionsFinite
<1>4. hosts \subseteq HostIds /\ \A h \in hosts : S(h) # {}
  BY DEF HostsOf, Positions
<1>5. \A h : S(h) # {} => h \in hosts
  BY DEF HostsOf, Positions
<1> HIDE DEF S, hosts
<1>6. B \in hosts
  <2>1. Cardinality(S(B)) # 0
    BY <1>1, <1>2
  <2> QED BY <1>5, <2>1, FS_EmptySet
<1>7. largest = {h \in hosts : \A g \in hosts : Cardinality(S(g)) <= Cardinality(S(h))}
  BY DEF Largest, hosts, S
<1>8. B \in largest
  BY <1>1, <1>2, <1>4, <1>6, <1>7
<1>9. ASSUME NEW h \in largest, h # B
      PROVE  Max(S(B)) < Max(S(h)) /\ Max(S(B)) \in Nat /\ Max(S(h)) \in Nat
  <2>1. h \in hosts /\ h \in HostIds /\ Cardinality(S(B)) <= Cardinality(S(h))
    BY <1>4, <1>6, <1>7, <1>9
  <2>2. Len(lists[h]) = b.count
    BY <1>1, <1>2, <2>1
  <2>3. PICK i \in S(h) : \A j \in S(B) : j < i
    BY <1>2, <1>9, <2>1, <2>2
  <2>4. Max(S(B)) \in S(B) /\ Max(S(h)) \in S(h) /\ i <= Max(S(h))
    BY <1>3, <1>4, <1>6, <2>1, Greatest
  <2>5. Max(S(B)) < i /\ Max(S(B)) \in Nat /\ Max(S(h)) \in Nat /\ i \in Nat
    BY <1>3, <2>3, <2>4
  <2> QED BY <2>4, <2>5
<1>10. \A h \in largest : IsBest(index, keys, c, h) <=> h = B
  <2>0. \A h : IsBest(index, keys, c, h) <=> \A g \in largest : Max(S(h)) <= Max(S(g))
    BY DEF IsBest, S
  <2>1. \A g \in largest : Max(S(B)) <= Max(S(g))
    <3> SUFFICES ASSUME NEW g \in largest PROVE Max(S(B)) <= Max(S(g))
      OBVIOUS
    <3>1. CASE g = B
      <4>1. Max(S(B)) \in S(B)
        BY <1>3, <1>4, <1>6, Greatest
      <4>2. Max(S(B)) \in Nat
        BY <1>3, <4>1
      <4> QED BY <3>1, <4>2
    <3>2. CASE g # B
      BY <1>9, <3>2
    <3> QED BY <3>1, <3>2
  <2>2. \A h \in largest : h # B => ~(Max(S(h)) <= Max(S(B)))
    BY <1>9
  <2> HIDE DEF largest, B
  <2> QED BY <1>8, <2>0, <2>1, <2>2
<1> QED BY <1>8, <1>10

MatchAt(index, key, h) == [key |-> key, host_id |-> h, block_id |-> index[key].block_id]

Listed(index, keys, c, lists, h) ==
    /\ c \in Nat \ {0} /\ lists[h] \in Seq(KeyBlockLocation)
    /\ Matched(index, keys, c, lists, h)
    /\ \A i \in 1..Len(lists[h]) : index[lists[h][i].key].block_id = lists[h][i].block_id

InOrder(index, keys, c, lists, h) ==
    LET S == Positions(index, keys, c, h) IN
       /\ S \in SUBSET Nat /\ IsFiniteSet(S) /\ Len(lists[h]) = Cardinality(S)
       /\ \A i \in S : lists[h][Rank(S, i)] = MatchAt(index, keys[i], h)

(* A host's list of matches is the positions it has, in order.             *)
LEMMA MatchesInOrder ==
    ASSUME NEW index, NEW keys, NEW c, NEW lists, NEW h, Listed(index, keys, c, lists, h)
    PROVE  InOrder(index, keys, c, lists, h)
<1> DEFINE S == Positions(index, keys, c, h)
           list == lists[h]
<1>0. /\ c \in Nat \ {0} /\ lists[h] \in Seq(KeyBlockLocation)
      /\ Matched(index, keys, c, lists, h)
      /\ \A i \in 1..Len(list) : index[list[i].key].block_id = list[i].block_id
  BY DEF Listed
<1>1. S \in SUBSET Nat /\ IsFiniteSet(S)
  BY <1>0, PositionsFinite
<1>2. /\ Len(list) = Cardinality(S) /\ list \in Seq(KeyBlockLocation)
      /\ \A i \in S : list[Rank(S, i)].key = keys[i] /\ list[Rank(S, i)].host_id = h
  BY <1>0 DEF Matched
<1> HIDE DEF S, list
<1>3. ASSUME NEW i \in S PROVE list[Rank(S, i)] = MatchAt(index, keys[i], h)
  <2> DEFINE item == list[Rank(S, i)]
  <2>1. Rank(S, i) \in 1..Len(list)
    BY <1>1, <1>2, Ranks
  <2>2. item \in KeyBlockLocation
    BY <1>2, <2>1
  <2>3. index[item.key].block_id = item.block_id
    BY <1>0, <2>1
  <2>4. item.key = keys[i] /\ item.host_id = h
    BY <1>2
  <2> HIDE DEF item
  <2>5. item = [key |-> item.key, host_id |-> item.host_id, block_id |-> item.block_id]
    BY <2>2 DEF KeyBlockLocation
  <2>6. item = MatchAt(index, keys[i], h)
    BY <2>3, <2>4, <2>5 DEF MatchAt
  <2> QED BY <2>6 DEF item
<1> QED BY <1>1, <1>2, <1>3 DEF list, S, InOrder

(* What a scan that has stopped has found.                                 *)
LEMMA ScanStopped ==
    ASSUME RInv, NEW t \in Threads, ScanDone(t)
    PROVE  /\ pc[t] = "scan" /\ request[t].op = "BatchExist"
           /\ cursor[t] \in Nat \ {0} /\ Len(request[t].keys) \in Nat \ {0}
           /\ Directory!Canonical(request[t].keys) = RequestKeys(t)
           /\ Len(RequestKeys(t)) = Len(request[t].keys)
           /\ cursor[t] <= Len(request[t].keys) + 1
           /\ cursor[t] <= Len(request[t].keys) =>
                 RequestKeys(t)[cursor[t]] \notin DOMAIN key_index_
           /\ Scanned(key_index_, RequestKeys(t), cursor[t], matches[t], best[t])
           /\ matches[t] \in [HostIds -> Seq(KeyBlockLocation)]
           /\ best[t].count \in Nat /\ (best[t].count > 0 => best[t].host_id \in HostIds)
           /\ \A k \in DOMAIN key_index_ : key_index_[k].host_id \in HostIds
           /\ \A h \in HostIds : \A i \in 1..Len(matches[t][h]) :
                 key_index_[matches[t][h][i].key].block_id = matches[t][h][i].block_id
<1>1. /\ IInv /\ TypeOK /\ StageOK(t) /\ ScanProgress(t) /\ MatchesCurrent(t)
      /\ pc[t] = "scan" /\ request[t].op = "BatchExist"
      /\ ~Scanning(t)
  BY DEF RInv, IInv, HandlerOK, ChecksStillHold, ChecksHold, Progress, ScanDone, Reaches
<1>2. /\ cursor[t] <= Len(request[t].keys) + 1
      /\ Scanned(key_index_, RequestKeys(t), cursor[t], matches[t], best[t])
  BY <1>1, ScanProgressIs
<1>3. request[t] \in Request /\ ValidateRequest(request[t]) = "kOk"
  BY <1>1 DEF StageOK
<1>4. request[t].keys \in Seq(RawKeys)
  BY <1>1, <1>3, RequestFields
<1>5. ValidateKeys(request[t].keys) = "kOk"
  BY <1>1, <1>3 DEF ValidateRequest, BatchOps
<1>6. /\ Len(request[t].keys) \in Nat \ {0} /\ Len(RequestKeys(t)) = Len(request[t].keys)
      /\ Directory!Canonical(request[t].keys) = RequestKeys(t)
  BY <1>4, <1>5, ValidatedKeys, CanonicalSequence, SameKeys DEF RequestKeys
<1>7. cursor[t] <= Len(request[t].keys) => RequestKeys(t)[cursor[t]] \notin DOMAIN key_index_
  BY <1>1 DEF Scanning, Reaches
<1>8. /\ cursor[t] \in Nat \ {0} /\ matches[t] \in [HostIds -> Seq(KeyBlockLocation)]
      /\ best[t].count \in Nat /\ (best[t].count > 0 => best[t].host_id \in HostIds)
      /\ \A k \in DOMAIN key_index_ : key_index_[k].host_id \in HostIds
  BY <1>1 DEF TypeOK, StateTyped, StageOK, BlockLocation
<1>9. \A h \in HostIds : \A i \in 1..Len(matches[t][h]) :
         key_index_[matches[t][h][i].key].block_id = matches[t][h][i].block_id
  <2> SUFFICES ASSUME NEW h \in HostIds, NEW i \in 1..Len(matches[t][h])
               PROVE  key_index_[matches[t][h][i].key].block_id = matches[t][h][i].block_id
    OBVIOUS
  <2>1. key_index_[matches[t][h][i].key] =
           [host_id |-> h, block_id |-> matches[t][h][i].block_id]
    BY <1>1 DEF MatchesCurrent
  <2> QED BY <2>1
<1> QED BY <1>1, <1>2, <1>6, <1>7, <1>8, <1>9

(* A scan that has stopped replies as the directory does.                   *)
LEMMA ScanReply ==
    ASSUME RInv, NEW t \in Threads, ScanDone(t), AbstractDirectory = key_index_
    PROVE  /\ best[t].count = 0 =>
                 Directory!BatchExist(RequestKeys(t)) = Refusal("kKeyNotFound")
           /\ best[t].count > 0 =>
                 Directory!BatchExist(RequestKeys(t)) =
                    BestMatch(best[t].host_id, matches[t][best[t].host_id])
<1> DEFINE keys == RequestKeys(t)
           c == cursor[t]
           n == Len(request[t].keys)
           B == best[t].host_id
           lists == matches[t]
           present == {m \in 0..Len(keys) : \A i \in 1..m : keys[i] \in DOMAIN AbstractDirectory}
           on(h) == {i \in 1..Directory!Max(present) : AbstractDirectory[keys[i]].host_id = h}
           hosts == {AbstractDirectory[keys[i]].host_id : i \in 1..Directory!Max(present)}
           largest == {h \in hosts : \A g \in hosts :
                         Directory!Cardinality(on(g)) <= Directory!Cardinality(on(h))}
           most == CHOOSE h \in largest : \A g \in largest :
                      Directory!Max(on(h)) <= Directory!Max(on(g))
           nth(k) == CHOOSE i \in on(most) :
                        Directory!Cardinality({j \in on(most) : j <= i}) = k
           found == [k \in 1..Directory!Cardinality(on(most)) |->
                       [key |-> keys[nth(k)], host_id |-> most,
                        block_id |-> AbstractDirectory[keys[nth(k)]].block_id]]
           S(h) == Positions(key_index_, keys, c, h)
<1>1. Directory!BatchExist(keys) =
         IF 1 \notin present THEN Directory!Refusal("kKeyNotFound")
         ELSE Directory!BestMatch(most, found)
  BY DEF Directory!BatchExist
<1>2. /\ c \in Nat \ {0} /\ n \in Nat \ {0} /\ Len(keys) = n /\ c <= n + 1
      /\ c <= n => keys[c] \notin DOMAIN key_index_
      /\ Scanned(key_index_, keys, c, lists, best[t])
      /\ lists \in [HostIds -> Seq(KeyBlockLocation)]
      /\ best[t].count \in Nat /\ (best[t].count > 0 => B \in HostIds)
      /\ \A k \in DOMAIN key_index_ : key_index_[k].host_id \in HostIds
      /\ \A h \in HostIds : \A i \in 1..Len(lists[h]) :
            key_index_[lists[h][i].key].block_id = lists[h][i].block_id
  BY ScanStopped
<1>3. \A i \in 1..(c - 1) : keys[i] \in DOMAIN key_index_
  BY <1>2 DEF Scanned
<1>4. Directory!Max(present) = c - 1 /\ (1 \in present <=> c > 1)
  <2>1. present = {m \in 0..n : \A i \in 1..m : keys[i] \in DOMAIN key_index_}
    BY <1>2
  <2> HIDE DEF present, keys, c, n
  <2>2. c - 1 \in present
    BY <1>2, <1>3, <2>1
  <2>3. \A m \in present : m \in Nat /\ m <= c - 1
    <3> SUFFICES ASSUME NEW m \in present, ~(m <= c - 1) PROVE FALSE
      BY <2>1
    <3>1. m \in 0..n /\ \A i \in 1..m : keys[i] \in DOMAIN key_index_
      BY <2>1
    <3>2. c <= n /\ c \in 1..m
      BY <1>2, <3>1
    <3> QED BY <1>2, <3>1, <3>2
  <2>4. Max(present) = c - 1
    <3>1. \A x \in present : (\A y \in present : x >= y) <=> x = c - 1
      BY <1>2, <2>2, <2>3
    <3> QED BY <2>2, <3>1 DEF Max
  <2>5. 1 \in present <=> c > 1
    <3>1. 1 \in present => 1 <= c - 1
      BY <2>3
    <3>2. c > 1 => 1 \in 0..n /\ \A i \in 1..1 : keys[i] \in DOMAIN key_index_
      BY <1>2, <1>3
    <3> QED BY <1>2, <2>1, <3>1, <3>2
  <2> QED BY <2>4, <2>5, SameArithmetic
<1>5. \A h : on(h) = S(h)
  <2> HIDE DEF present
  <2> QED BY <1>4 DEF Positions
<1>6. CASE best[t].count = 0
  <2>1. c = 1
    BY <1>2, <1>6 DEF Scanned, FirstOfMost
  <2>2. 1 \notin present
    BY <1>4, <2>1
  <2> HIDE DEF present, most, found, keys
  <2> QED BY <1>1, <1>6, <2>2, SameReplies DEF keys
<1>7. CASE best[t].count > 0
  <2>1. /\ B \in Largest(key_index_, keys, c)
        /\ \A h \in Largest(key_index_, keys, c) : IsBest(key_index_, keys, c, h) <=> h = B
    <3>1. \A i \in 1..(c - 1) : key_index_[keys[i]].host_id \in HostIds
      BY <1>2, <1>3
    <3>2. best[t].count \in Nat \ {0}
      BY <1>2, <1>7
    <3> HIDE DEF keys, c, lists
    <3> QED BY <1>2, <1>7, <3>1, <3>2, BestIsBest
  <2>2. hosts = HostsOf(key_index_, keys, c)
    <3> HIDE DEF present
    <3> QED BY <1>4 DEF HostsOf
  <2>3. largest = Largest(key_index_, keys, c)
    <3> HIDE DEF hosts, on
    <3> QED BY <1>5, <2>2, SameArithmetic DEF Largest
  <2>4. \A h : (\A g \in largest : Directory!Max(on(h)) <= Directory!Max(on(g))) <=>
                  IsBest(key_index_, keys, c, h)
    <3> HIDE DEF largest, on
    <3> QED BY <1>5, <2>3, SameArithmetic DEF IsBest
  <2>5. most = B
    <3> HIDE DEF largest, on
    <3> QED BY <2>1, <2>3, <2>4
  <2>6. /\ S(B) \in SUBSET Nat /\ IsFiniteSet(S(B))
        /\ Len(lists[B]) = Cardinality(S(B)) /\ lists[B] \in Seq(KeyBlockLocation)
        /\ \A i \in S(B) : lists[B][Rank(S(B), i)] = MatchAt(key_index_, keys[i], B)
    <3>1. B \in HostIds /\ Matched(key_index_, keys, c, lists, B)
      BY <1>2, <1>7 DEF Scanned
    <3>2. Listed(key_index_, keys, c, lists, B)
      BY <1>2, <3>1 DEF Listed
    <3>3. InOrder(key_index_, keys, c, lists, B)
      <4> HIDE DEF keys, c, lists, B
      <4> QED BY <3>2, MatchesInOrder
    <3> HIDE DEF keys, c, lists, B
    <3> QED BY <3>2, <3>3 DEF InOrder, Listed
  <2>7. ASSUME NEW k \in 1..Cardinality(S(B))
        PROVE  nth(k) \in S(B) /\ Rank(S(B), nth(k)) = k
    <3>1. \E i \in S(B) : Rank(S(B), i) = k
      BY <2>6, RankedAll
    <3>2. \A i : Directory!Cardinality({j \in on(most) : j <= i}) = Rank(S(B), i)
      <4> HIDE DEF on, most
      <4> QED BY <1>5, <2>5, SameArithmetic DEF Rank
    <3>3. on(most) = S(B)
      <4> HIDE DEF on, most
      <4> QED BY <1>5, <2>5
    <3> HIDE DEF on, most, S
    <3> QED BY <3>1, <3>2, <3>3
  <2>8. found = [k \in 1..Cardinality(S(B)) |-> MatchAt(key_index_, keys[nth(k)], B)]
    <3>1. Directory!Cardinality(on(most)) = Cardinality(S(B))
      <4> HIDE DEF on, most
      <4> QED BY <1>5, <2>5, SameArithmetic
    <3> HIDE DEF on, most, S, nth
    <3> QED BY <2>5, <3>1 DEF MatchAt
  <2>9. lists[B] = found
    <3> DEFINE list == lists[B]
               l == Cardinality(S(B))
    <3>1. list = [k \in 1..l |-> list[k]]
      <4>1. DOMAIN list = 1..l /\ list = [k \in DOMAIN list |-> list[k]]
        BY <2>6
      <4> QED BY <4>1
    <3>2. \A k \in 1..l : list[k] = MatchAt(key_index_, keys[nth(k)], B)
      <4> HIDE DEF nth, S
      <4> QED BY <2>6, <2>7
    <3> HIDE DEF list, l, nth, found
    <3>3. found = [k \in 1..l |-> MatchAt(key_index_, keys[nth(k)], B)]
      BY <2>8 DEF l
    <3>4. list = found
      BY <3>1, <3>2, <3>3
    <3> QED BY <3>4 DEF list
  <2>10. 1 \in present
    <3>1. c # 1
      <4>1. c = 1 => S(B) = {}
        BY DEF Positions
      <4>2. Cardinality(S(B)) = best[t].count
        BY <1>2, <1>7, <2>6 DEF Scanned, FirstOfMost
      <4> QED BY <1>7, <4>1, <4>2, FS_EmptySet
    <3> QED BY <1>2, <1>4, <3>1
  <2> HIDE DEF present, most, found, lists, B, keys
  <2>11. Directory!BatchExist(keys) = BestMatch(B, lists[B])
    BY <1>1, <2>5, <2>9, <2>10, SameReplies
  <2> QED BY <1>7, <2>11 DEF lists, B, keys
<1> QED BY <1>2, <1>6, <1>7

(* BatchExist.                                                             *)
LEMMA ScanDoneRefines ==
    ASSUME RInv, NEW t \in Threads, WholeFrame(t), ScanDone(t)
    PROVE  [Directory!Next]_(Directory!vars)
<1>1. /\ IInv /\ pc[t] = "scan" /\ UNCHANGED dataVars /\ request[t].op = "BatchExist"
  BY DEF RInv, ScanDone, Reaches
<1>2. PICK response \in Reply : Respond(t, response)
  BY <1>1, GuardOfInvariant, ReadReplies
<1>3. AbstractDirectory = key_index_
  BY <1>1, <1>2, Replying
<1>4. reply'[t] = response
  BY <1>1, <1>2 DEF IInv, TypeOK, StateTyped, Respond
<1>5. response = IF best[t].count = 0 THEN Refusal("kKeyNotFound")
                 ELSE BestMatch(best[t].host_id, matches[t][best[t].host_id])
  BY <1>1, <1>4 DEF ScanDone, Respond, IInv, TypeOK, StateTyped
<1>6. /\ Directory!Canonical(request[t].keys) = RequestKeys(t) /\ best[t].count \in Nat
  BY ScanStopped
<1>7. best[t].count = 0 \/ best[t].count > 0
  BY <1>6
<1>8. Directory!BatchExist(RequestKeys(t)) = response
  BY <1>3, <1>5, <1>7, ScanReply
<1>9. Directory!ReadReply(request[t]) = response
  <2>1. Directory!ReadReply(request[t]) =
           Directory!BatchExist(Directory!Canonical(request[t].keys))
    BY <1>1 DEF Directory!ReadReply
  <2> QED BY <1>6, <1>8, <2>1
<1>10. request[t].op \notin WriteOps
  BY <1>1 DEF WriteOps, BatchOps
<1> QED BY <1>1, <1>2, <1>9, <1>10, ReadRefines

(* One key of BatchExist.                                                  *)
LEMMA ScanKeyRefines ==
    ASSUME RInv, NEW t \in Threads, WholeFrame(t), ScanKey(t)
    PROVE  [Directory!Next]_(Directory!vars)
<1>1. /\ TypeOK /\ pc[t] = "scan" /\ pc'[t] = "scan" /\ writer' = writer
      /\ UNCHANGED <<reply, request>> /\ UNCHANGED <<hosts_, key_index_>>
  BY DEF RInv, IInv, ScanKey, Scanning, Reaches, lockVars, dataVars
<1>2. UNCHANGED View
  BY <1>1, ViewKept DEF View
<1> QED BY <1>1, <1>2, Silent, SameWaiting

-----------------------------------------------------------------------------
(* A Master just constructed is an empty directory.                        *)
LEMMA InitRefines == Init => Directory!Init
<1> SUFFICES ASSUME Init PROVE Directory!Init
  OBVIOUS
<1>1. hosts_ = << >> /\ key_index_ = << >> /\ ~Updating("AllocBlocks") /\ ~Updating("FreeBlocks")
  BY DEF Init, Updating
<1>2. DOMAIN hosts_ = {} /\ << >> = [h \in {} |-> 0]
  BY <1>1
<1>3. Registrations = << >> /\ AbstractQueue = << >>
  BY <1>1, <1>2 DEF Registrations, AbstractQueue
<1>4. AbstractDirectory = << >>
  BY <1>1 DEF AbstractDirectory
<1>5. /\ Unanswered = [t \in Threads |-> NoRequest]
      /\ reply = [t \in Threads |-> NoReply]
  BY DEF Init, Unanswered
<1> QED BY <1>3, <1>4, <1>5 DEF Directory!Init

(* Every step of a handler is one of the directory's, or none at all.       *)
LEMMA StepRefines ==
    ASSUME RInv, IInv', [Next]_vars
    PROVE  [Directory!Next]_(Directory!vars)
<1>1. CASE UNCHANGED vars
  <2>1. /\ UNCHANGED <<pc, request, cursor, locations, reply, writer, hosts_, key_index_>>
    BY <1>1 DEF vars, threadVars, localVars, lockVars, dataVars
  <2>2. \A op : Updating(op)' <=> Updating(op)
    BY <2>1 DEF Updating, Reaches
  <2>3. LoopDone' = LoopDone /\ Host(writer)' = Host(writer)
    BY <2>1 DEF LoopDone, Host
  <2>4. \A h : Taken(h)' = Taken(h) /\ Returned(h)' = Returned(h)
    BY <2>1, <2>2, <2>3 DEF Taken, Returned, Allocating, Freeing
  <2>5. AbstractQueue' = AbstractQueue
    BY <2>1, <2>4 DEF AbstractQueue
  <2>6. AbstractDirectory' = AbstractDirectory
    BY <2>1, <2>2, <2>3 DEF AbstractDirectory
  <2>7. Registrations' = Registrations
    BY <2>1 DEF Registrations
  <2> QED BY <2>1, <2>5, <2>6, <2>7, Silent, SameWaiting DEF View
<1>2. ASSUME NEW t \in Threads, Call(t) \/ Handler(t)
      PROVE  [Directory!Next]_(Directory!vars)
  <2>1. WholeFrame(t)
    BY <1>2, WholeFrameOfStep DEF RInv, IInv
  <2> QED BY <1>2, <2>1, OutsideRefines, RegisterRefines, AllocCheckRefines, AllocKeyRefines,
             AllocDoneRefines, FreeCheckRefines, FreeKeyRefines, FreeDoneRefines,
             LookupRefines, ScanKeyRefines, ScanDoneRefines, CountRefines DEF Handler
<1> QED BY <1>1, <1>2 DEF Next

(* The Master is the atomic directory of README.md to every client: each   *)
(* reply is that of the whole request executed at one instant between its   *)
(* call and its return, batches are all or nothing, and ids are handed out  *)
(* fresh ones first and then in the order they were freed, although the     *)
(* handlers of several workers interleave and change the pools and the      *)
(* index one key at a time.                                                *)
THEOREM Implementation == Spec => ImplementsDirectory
<1>1. Spec => []RInv
  BY ProgressInvariance
<1>3. RInv /\ RInv' /\ [Next]_vars => [Directory!Next]_(Directory!vars)
  BY StepRefines DEF RInv
<1> QED BY <1>1, <1>3, InitRefines, PTL DEF Spec, ImplementsDirectory, Directory!Spec
=============================================================================
