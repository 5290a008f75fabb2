------------------------------ MODULE ToolsProofs ------------------------------
(***************************************************************************)
(* Proofs about the programs of MCTools that PhysmapToolsProofs does not    *)
(* treat, and about their composition.  GpuFill: what the process holds is  *)
(* what its list says, and it reports success only if every byte was right, *)
(* for any GPUs, free memory, arguments, buffer and lists of any length.    *)
(* LineEditor: the row shown is the line that Enter returns, what is typed  *)
(* survives a walk through the history, and a second Ctrl+C cancels         *)
(* wherever an escape sequence was cut off, for lines and histories of any  *)
(* length.  MCTools: each program moves there as it does on its own, so     *)
(* what is proved of one holds of the composition.                         *)
(***************************************************************************)
EXTENDS MCTools, PhysmapToolsProofs, SumTheorems, SequenceTheorems

(***************************************************************************)
(* The GPU memory test.                                                    *)
(***************************************************************************)


Phases == {"idle", "query", "fill", "wait", "verify", "release", "over"}

(* What belongs to each phase besides the types.                            *)
PhaseInv ==
    /\ phase \in Phases
    /\ at \in [allocation : Nat \ {0}, offset : Word]
    /\ resident \in [Gpus -> Nat]
    /\ phase \notin {"idle", "over"} => selected # <<>>
    /\ phase \in {"idle", "query"} => allocs = <<>>
    /\ phase = "idle" => spoiled = {}
    /\ phase = "verify" /\ at.allocation \in DOMAIN allocs => at.offset <= allocs[at.allocation]

(* A spoiled byte of the GPU at hand that the comparison has not reached.    *)
Unread(s) ==
    /\ s.gpu = Gpu
    /\ s.allocation \in DOMAIN allocs
    /\ s.byte \in Nat /\ s.byte < allocs[s.allocation]

Ahead(s) ==
    \/ at.allocation < s.allocation
    \/ at.allocation = s.allocation /\ at.offset <= s.byte

(* A byte that was spoiled has been reported, or is still to be read.        *)
Noticed(s) ==
    \/ failed
    \/ phase \in {"wait", "verify", "release"} /\ rc = 1
    \/ phase = "wait" /\ Unread(s)
    \/ phase = "verify" /\ Unread(s) /\ Ahead(s)

(* The inductive invariant.                                                *)
FInv ==
    /\ FillTypeOK /\ PhaseInv /\ ResidentListed /\ SuccessMeansIntact
    /\ phase # "over" => \A s \in spoiled : Noticed(s)

-----------------------------------------------------------------------------
(* Lists of sizes, and the halves of a number.                             *)

(* The smaller of two numbers.                                             *)
LEMMA MinOfTwo ==
    ASSUME NEW a \in Nat, NEW b \in Nat
    PROVE  Min({a, b}) \in Nat /\ Min({a, b}) <= a /\ Min({a, b}) <= b /\ Min({a, b}) \in {a, b}
<1>1. \E x \in {a, b} : \A y \in {a, b} : x <= y
  BY LeastNatural
<1> QED BY <1>1 DEF Min

(* The sum of a list is a number, 0 for the empty list, and grows by what   *)
(* is appended: `allocated` of test_one_gpu.                               *)
LEMMA SumOfList ==
    ASSUME NEW list \in Seq(Word)
    PROVE  /\ SumFunction(list) \in Nat
           /\ list = <<>> => SumFunction(list) = 0
           /\ \A size \in Word : SumFunction(Append(list, size)) = SumFunction(list) + size
<1>0. Word \subseteq Nat /\ Len(list) \in Nat /\ DOMAIN list = 1..Len(list)
      /\ \A i \in 1..Len(list) : list[i] \in Nat
  BY WordAssumption DEF Word
<1>1. IsFiniteSet(1..Len(list)) /\ IsFiniteSet(1..(Len(list) + 1))
  BY <1>0, FS_Interval
<1>2. SumFunction(list) \in Nat
  BY <1>0, <1>1, SumType DEF SumFunction
<1>3. ASSUME list = <<>> PROVE SumFunction(list) = 0
  <2>1. DOMAIN list = {}
    BY <1>0, <1>3
  <2> QED BY <2>1, SumOfNone DEF SumFunction
<1>4. ASSUME NEW size \in Word PROVE SumFunction(Append(list, size)) = SumFunction(list) + size
  <2> DEFINE more == Append(list, size)
             last == Len(list) + 1
  <2>1. /\ DOMAIN more = 1..last /\ more[last] = size
        /\ \A i \in 1..Len(list) : more[i] = list[i]
    BY <1>0
  <2>2. /\ \A i \in 1..last : more[i] \in Nat
        /\ last \in 1..last /\ (1..last) \ {last} = 1..Len(list)
    BY <1>0, <2>1
  <2>3. \A i \in 1..Len(list) : list[i] \in Nat /\ list[i] = more[i]
    BY <1>0, <2>1
  <2> HIDE DEF more, last
  <2>4. SumFunctionOnSet(more, 1..last) = more[last] + SumFunctionOnSet(more, (1..last) \ {last})
    BY <1>1, <2>2, SumAnyFirst DEF last
  <2>5. SumFunctionOnSet(list, 1..Len(list)) = SumFunctionOnSet(more, 1..Len(list))
    BY <1>1, <2>3, SumSame
  <2>6. SumFunction(more) = size + SumFunction(list)
    BY <1>0, <2>1, <2>2, <2>4, <2>5 DEF SumFunction
  <2> QED BY <1>0, <1>2, <2>6 DEF more
<1> QED BY <1>2, <1>3, <1>4

(* The sizes of the buffer that verify_allocations tries are numbers: the   *)
(* recursion defines a function, and a least number whose halves are not    *)
(* numbers has a smaller one.                                              *)
LEMMA HalvesAreNumbers == \A n \in Nat : Halves[n] \subseteq Nat
<1> DEFINE Closed(n, S) == n \in S /\ \A m \in S : m > MiB => m \div 2 \in S
           Least(n) == {m \in Nat : \A S \in SUBSET Nat : Closed(n, S) => m \in S}
           Solves(h) == h = [n \in Nat |-> IF n <= MiB THEN {n} ELSE {n} \cup h[n \div 2]]
           least == [n \in Nat |-> Least(n)]
<1>0. MiB \in Nat \ {0} /\ \A n \in Nat : n \div 2 \in Nat /\ (n > MiB => n \div 2 < n)
  BY WordAssumption
<1>1. Solves(least)
  <2> SUFFICES ASSUME NEW n \in Nat
               PROVE  Least(n) = IF n <= MiB THEN {n} ELSE {n} \cup Least(n \div 2)
    BY <1>0
  <2>1. CASE n <= MiB
    <3>1. {n} \in SUBSET Nat /\ Closed(n, {n})
      BY <1>0, <2>1
    <3> QED BY <2>1, <3>1
  <2>2. CASE n > MiB
    <3>1. n \div 2 \in Nat
      BY <1>0
    <3>2. ASSUME NEW S \in SUBSET Nat, Closed(n, S) PROVE Closed(n \div 2, S)
      BY <2>2, <3>2
    <3>3. ASSUME NEW S \in SUBSET Nat, Closed(n \div 2, S)
          PROVE  S \cup {n} \in SUBSET Nat /\ Closed(n, S \cup {n})
      BY <3>3
    <3>4. ASSUME NEW m \in Least(n) PROVE m \in {n} \cup Least(n \div 2)
      <4>1. m \in Nat
        OBVIOUS
      <4>2. ASSUME NEW S \in SUBSET Nat, Closed(n \div 2, S), m # n PROVE m \in S
        BY <3>3, <4>2
      <4> QED BY <4>1, <4>2
    <3>5. ASSUME NEW m \in {n} \cup Least(n \div 2) PROVE m \in Least(n)
      BY <3>1, <3>2
    <3> QED BY <1>0, <2>2, <3>4, <3>5
  <2> QED BY <1>0, <2>1, <2>2
<1>2. Solves(Halves)
  <2>1. Halves = CHOOSE h : Solves(h)
    BY DEF Halves
  <2> HIDE DEF Solves, least
  <2> QED BY <1>1, <2>1
<1>3. SUFFICES ASSUME {n \in Nat : ~(Halves[n] \subseteq Nat)} # {} PROVE FALSE
  OBVIOUS
<1>4. PICK n \in Nat : /\ ~(Halves[n] \subseteq Nat)
                       /\ \A m \in Nat : ~(Halves[m] \subseteq Nat) => n <= m
  <2> DEFINE Bad == {m \in Nat : ~(Halves[m] \subseteq Nat)}
  <2>1. Bad \in SUBSET Nat /\ Bad # {}
    BY <1>3
  <2> HIDE DEF Bad
  <2>2. PICK n \in Bad : \A m \in Bad : n <= m
    BY <2>1, LeastNatural
  <2> QED BY <2>2 DEF Bad
<1>5. Halves[n] = IF n <= MiB THEN {n} ELSE {n} \cup Halves[n \div 2]
  BY <1>2
<1>6. n > MiB => Halves[n \div 2] \subseteq Nat
  <2>1. n > MiB => n \div 2 \in Nat /\ ~(n <= n \div 2)
    BY <1>0
  <2> QED BY <1>4, <2>1
<1>7. n <= MiB \/ n > MiB
  BY <1>0
<1> QED BY <1>4, <1>5, <1>6, <1>7

-----------------------------------------------------------------------------
(* The steps.                                                              *)

(* The invariant gives the types that a step needs.                         *)
LEMMA FillTypes ==
    ASSUME FInv
    PROVE  /\ Word \subseteq Nat /\ 0 \in Word
           /\ allocs \in Seq(Word) /\ Len(allocs) \in Nat /\ DOMAIN allocs = 1..Len(allocs)
           /\ Allocated \in Nat /\ target \in Nat /\ chunk \in Nat /\ capacity \in Nat
           /\ phase \notin {"idle", "over"} => Gpu \in Gpus
<1>1. Word \subseteq Nat /\ 0 \in Word
  BY WordAssumption DEF Word
<1>2. allocs \in Seq(Word) /\ selected \in Seq(Gpus) /\ {target, chunk} \subseteq Word
      /\ capacity \in Nat
  BY DEF FInv, FillTypeOK
<1>3. Allocated \in Nat
  BY <1>2, SumOfList DEF Allocated
<1>4. phase \notin {"idle", "over"} => Gpu \in Gpus
  BY <1>2 DEF FInv, PhaseInv, Gpu
<1>5. target \in Nat /\ chunk \in Nat
  <2>1. target \in Word /\ chunk \in Word
    BY <1>2, Zenon
  <2> QED BY <1>1, <2>1
<1>6. Len(allocs) \in Nat /\ DOMAIN allocs = 1..Len(allocs)
  BY <1>2
<1> QED BY <1>1, <1>2, <1>3, <1>4, <1>5, <1>6

(* The first state.                                                        *)
LEMMA FillInitial == ASSUME FillInit PROVE FInv
<1>0. 0 \in Word /\ <<>> \in Seq(Word) /\ <<>> \in Seq(Gpus) /\ Len(<<>>) = 0
  BY WordAssumption DEF Word
<1>1. FillTypeOK
  <2>1. /\ selected = <<>> /\ min_chunk = 0 /\ reserve_bytes = 0 /\ phase = "idle"
        /\ target = 0 /\ chunk = 0 /\ allocs = <<>> /\ capacity = 0 /\ buffer = 0
        /\ at.allocation = 1 /\ at.offset = 0
        /\ rc = 0 /\ failed = FALSE /\ exit_status = "none"
    BY DEF FillInit
  <2>2. {min_chunk, reserve_bytes, target, chunk} \subseteq Word
    BY <1>0, <2>1
  <2>3. selected \in Seq(Gpus) /\ allocs \in Seq(Word) /\ Len(allocs) = 0
    <3>1. selected \in Seq(Gpus)
      BY <2>1
    <3>2. allocs \in Seq(Word) /\ Len(allocs) = 0
      BY <2>1
    <3> QED BY <3>1, <3>2
  <2>4. at.allocation \in Nat
    BY <2>1
  <2>5. at.offset \in Word
    BY <1>0, <2>1, Zenon
  <2>6. failed \in BOOLEAN
    BY <2>1, Zenon
  <2> QED BY <2>1, <2>2, <2>3, <2>4, <2>5, <2>6 DEF FillTypeOK
<1>2. PhaseInv
  BY WordAssumption DEF FillInit, PhaseInv, Phases, Word
<1> QED BY <1>1, <1>2 DEF FillInit, FInv, ResidentListed, SuccessMeansIntact

(* main: what the options may be.                                          *)
LEMMA StartFillStep == ASSUME FInv, StartFill PROVE FInv'
<1>1. PICK reserve \in FillArguments, least \in FillArguments :
         /\ reserve_bytes' = Bytes(reserve)
         /\ min_chunk' = Bytes(IF least = 0 THEN 1 ELSE least)
  BY DEF StartFill
<1>2. \A n \in Nat : Bytes(n) \in Word
  <2>1. \A n \in Nat : n * MiB \in Nat
    BY WordAssumption
  <2>2. MaxWord \in Nat /\ \A n \in Nat : n % (MaxWord + 1) \in 0..MaxWord
    BY WordAssumption
  <2> QED BY <2>1, <2>2 DEF Bytes, Wrapped, Word
<1>3. reserve_bytes' \in Word /\ min_chunk' \in Word
  <2>1. FillArguments \subseteq Nat
    BY FillAssumption, WordAssumption DEF Word
  <2> QED BY <1>1, <1>2, <2>1
<1>4. selected' \in Seq(Gpus) /\ selected' # <<>>
  <2>1. [i \in 1..GpuCount |-> i - 1] \in Seq(Gpus)
    BY FillAssumption DEF Gpus
  <2>2. \A g \in Gpus : <<g>> \in Seq(Gpus)
    OBVIOUS
  <2> QED BY <2>1, <2>2 DEF StartFill
<1>5. /\ phase = "idle" /\ phase' = "query" /\ spoiled = {} /\ allocs = <<>>
      /\ UNCHANGED <<target, chunk, allocs, capacity, resident, buffer, at, rc, failed,
                     exit_status, spoiled>>
  BY DEF StartFill, FillGoto, FInv, PhaseInv
<1>6. FillTypeOK'
  BY <1>3, <1>4, <1>5 DEF FInv, FillTypeOK
<1>7. PhaseInv'
  BY <1>4, <1>5 DEF FInv, PhaseInv, Phases
<1>8. ResidentListed'
  <2>1. allocs' = <<>> /\ allocs' \in Seq(Word)
    BY <1>5
  <2>2. Allocated' = 0
    BY <2>1, SumOfList DEF Allocated
  <2> QED BY <1>5, <2>2 DEF FInv, ResidentListed
<1> QED BY <1>5, <1>6, <1>7, <1>8 DEF FInv, SuccessMeansIntact

(* test_one_gpu asks for the free memory.                                  *)
LEMMA QueryStep == ASSUME FInv, Query PROVE FInv'
<1>1. /\ phase = "query" /\ phase' = "fill" /\ allocs = <<>>
      /\ chunk' = target'
      /\ UNCHANGED <<selected, min_chunk, reserve_bytes, allocs, capacity, resident, buffer, at,
                     rc, failed, exit_status, spoiled>>
  BY DEF Query, FillGoto, FInv, PhaseInv
<1>2. target' \in Word /\ target' \in Nat
  <2>1. FreeBytes \subseteq 0..MaxWord /\ MaxWord \in Nat /\ reserve_bytes \in 0..MaxWord
    BY FillAssumption, WordAssumption DEF FInv, FillTypeOK, Word
  <2>2. PICK free \in FreeBytes : target' = IF free > reserve_bytes THEN free - reserve_bytes ELSE 0
    BY DEF Query
  <2>3. free \in 0..MaxWord
    BY <2>1, <2>2
  <2> HIDE DEF FInv
  <2> QED BY <2>1, <2>2, <2>3 DEF Word
<1>3. FillTypeOK'
  BY <1>1, <1>2 DEF FInv, FillTypeOK
<1>4. PhaseInv'
  BY <1>1 DEF FInv, PhaseInv, Phases
<1>5. Allocated = 0 /\ Allocated' = Allocated
  BY <1>1, FillTypes, SumOfList DEF Allocated
<1>6. ResidentListed'
  BY <1>1, <1>2, <1>5 DEF FInv, ResidentListed, Gpu
<1>7. \A s \in spoiled' : Noticed(s)'
  BY <1>1 DEF FInv, Noticed
<1> QED BY <1>1, <1>3, <1>4, <1>6, <1>7 DEF FInv, SuccessMeansIntact

(* A chunk clipped to what is left of the target is a word that fits.       *)
LEMMA ClippedFits ==
    ASSUME FInv, Filling
    PROVE  /\ Clipped \in Word /\ Clipped \in Nat /\ Clipped \div 2 \in Word
           /\ Allocated + Clipped <= target
<1>1. Allocated < target /\ target \in 0..MaxWord /\ chunk \in 0..MaxWord /\ MaxWord \in Nat
  BY WordAssumption DEF Filling, FInv, FillTypeOK, Word
<1>2. target - Allocated \in Nat /\ chunk \in Nat
  BY <1>1, FillTypes
<1>3. Clipped \in Nat /\ Clipped <= chunk /\ Clipped <= target - Allocated
  BY <1>2, MinOfTwo DEF Clipped
<1>4. Allocated \in Nat
  BY FillTypes
<1> HIDE DEF FInv, Filling
<1> QED BY <1>1, <1>3, <1>4 DEF Word

(* One turn of the loop: the chunk is allocated and listed.                 *)
LEMMA FillChunkStep == ASSUME FInv, FillChunk PROVE FInv'
<1> DEFINE size == Clipped
<1>1. /\ phase = "fill" /\ allocs' = Append(allocs, size) /\ chunk' = size
      /\ capacity' = Grown /\ resident' = [resident EXCEPT ![Gpu] = @ + size]
      /\ UNCHANGED <<selected, min_chunk, reserve_bytes, phase, target, buffer, at, rc, failed,
                     exit_status, spoiled>>
  BY DEF FillChunk, Filling
<1>2. size \in Word /\ size \in Nat /\ Allocated + size <= target
  BY ClippedFits DEF FillChunk
<1> HIDE DEF size
<1>3. /\ allocs \in Seq(Word) /\ Len(allocs) \in Nat /\ Allocated \in Nat /\ capacity \in Nat
      /\ Gpu \in Gpus /\ Len(allocs) <= capacity
  BY <1>1, FillTypes DEF FInv, FillTypeOK
<1>4. allocs' \in Seq(Word) /\ Len(allocs') = Len(allocs) + 1
  BY <1>1, <1>2, <1>3
<1>5. capacity' \in Nat /\ Len(allocs') <= capacity'
  BY <1>1, <1>3, <1>4, FillAssumption DEF Grown
<1>6. FillTypeOK'
  BY <1>1, <1>2, <1>4, <1>5 DEF FInv, FillTypeOK
<1>7. PhaseInv'
  BY <1>1, <1>2, <1>3 DEF FInv, PhaseInv
<1>8. Allocated' = Allocated + size
  BY <1>1, <1>2, <1>3, SumOfList DEF Allocated
<1>9. ResidentListed'
  BY <1>1, <1>2, <1>3, <1>8 DEF FInv, PhaseInv, ResidentListed, Gpu
<1>10. \A s \in spoiled' : Noticed(s)'
  BY <1>1 DEF FInv, Noticed
<1> QED BY <1>1, <1>6, <1>7, <1>9, <1>10 DEF FInv, SuccessMeansIntact

(* The other turns of the loop, and its end, list nothing.                  *)
LEMMA FillStays ==
    ASSUME FInv, phase = "fill", phase' \in {"fill", "wait"}, chunk' \in Word, rc' \in {0, 1},
           UNCHANGED <<selected, min_chunk, reserve_bytes, target, allocs, capacity, resident,
                       buffer, at, failed, exit_status, spoiled>>
    PROVE  FInv'
<1>1. FillTypeOK'
  BY DEF FInv, FillTypeOK
<1>2. PhaseInv'
  BY DEF FInv, PhaseInv, Phases
<1>3. Allocated' = Allocated /\ Gpu' = Gpu
  BY DEF Allocated, Gpu
<1>4. ResidentListed'
  BY <1>3 DEF FInv, ResidentListed
<1>5. \A s \in spoiled' : Noticed(s)'
  BY DEF FInv, Noticed
<1> QED BY <1>1, <1>2, <1>4, <1>5 DEF FInv, SuccessMeansIntact

(* The loop of test_one_gpu.                                               *)
LEMMA FillLoopStep == ASSUME FInv, FillLoop PROVE FInv'
<1>1. CASE FillChunk
  BY <1>1, FillChunkStep
<1>2. CASE MallocFails
  <2>1. Clipped \div 2 \in Word /\ phase = "fill"
    BY <1>2, ClippedFits DEF MallocFails, Filling
  <2> QED BY <1>2, <2>1, FillStays DEF MallocFails, FInv, FillTypeOK
<1>3. CASE AppendFails
  <2>1. Clipped \in Word /\ phase = "fill"
    BY <1>3, ClippedFits DEF AppendFails, Filling
  <2> QED BY <1>3, <2>1, FillStays DEF AppendFails, FillGoto
<1>4. CASE FillDone
  BY <1>4, FillStays DEF FillDone, FillGoto, FInv, FillTypeOK
<1> QED BY <1>1, <1>2, <1>3, <1>4 DEF FillLoop

(* A byte loses the pattern while the user is waited for.                   *)
LEMMA SpoilStep == ASSUME FInv, Spoil PROVE FInv'
<1>1. PICK i \in DOMAIN allocs : \E byte \in 0..(allocs[i] - 1) :
         spoiled' = spoiled \cup {[gpu |-> Gpu, allocation |-> i, byte |-> byte]}
  BY DEF Spoil
<1>2. PICK byte \in 0..(allocs[i] - 1) :
         spoiled' = spoiled \cup {[gpu |-> Gpu, allocation |-> i, byte |-> byte]}
  BY <1>1
<1>3. /\ phase = "wait"
      /\ UNCHANGED <<selected, min_chunk, reserve_bytes, phase, target, chunk, allocs, capacity,
                     resident, buffer, at, rc, failed, exit_status>>
  BY DEF Spoil
<1>4. allocs[i] \in Nat
  BY <1>1, FillTypes
<1>5. FillTypeOK' /\ PhaseInv'
  BY <1>3 DEF FInv, FillTypeOK, PhaseInv
<1>6. ResidentListed'
  BY <1>3 DEF FInv, ResidentListed, Allocated, Gpu
<1>7. SuccessMeansIntact'
  BY <1>3 DEF FInv, FillTypeOK, SuccessMeansIntact
<1>8. PICK new : new = [gpu |-> Gpu, allocation |-> i, byte |-> byte]
  OBVIOUS
<1>9. \A s \in spoiled' : Noticed(s)'
  <2>1. Unread(new)
    BY <1>1, <1>2, <1>4, <1>8 DEF Unread
  <2>2. Unread(new)'
    BY <1>3, <2>1 DEF Unread, Gpu
  <2>3. \A s \in spoiled : Noticed(s) => Noticed(s)'
    BY <1>3 DEF Noticed, Unread, Ahead, Gpu
  <2>4. \A s \in spoiled : Noticed(s)
    BY <1>3 DEF FInv
  <2>5. Noticed(new)'
    BY <1>3, <2>2 DEF Noticed
  <2> QED BY <1>2, <1>8, <2>3, <2>4, <2>5
<1> QED BY <1>5, <1>6, <1>7, <1>9 DEF FInv

(* verify_allocations gets its buffer, or not, or has nothing to do.         *)
LEMMA WaitForUserStep == ASSUME FInv, WaitForUser PROVE FInv'
<1>1. /\ phase = "wait" /\ at' = [allocation |-> 1, offset |-> 0]
      /\ UNCHANGED <<selected, min_chunk, reserve_bytes, target, chunk, allocs, capacity,
                     resident, failed, exit_status, spoiled>>
  BY DEF WaitForUser
<1>2. phase' \in {"verify", "release"} /\ buffer' \in Nat /\ rc' \in {0, 1}
  <2>1. Halves[VerifyBytes] \subseteq Nat
    BY FillAssumption, HalvesAreNumbers
  <2> QED BY <2>1 DEF WaitForUser, FillGoto, FInv, FillTypeOK
<1>3. FillTypeOK'
  <2>1. at'.allocation \in Nat /\ at'.offset \in Word
    BY <1>1, FillTypes
  <2> QED BY <1>1, <1>2, <2>1 DEF FInv, FillTypeOK
<1>4. PhaseInv'
  <2>1. at' \in [allocation : Nat \ {0}, offset : Word]
    BY <1>1, FillTypes
  <2>2. at'.allocation \in DOMAIN allocs => at'.offset <= allocs[at'.allocation]
    <3>1. 1 \in DOMAIN allocs => allocs[1] \in Nat
      BY FillTypes
    <3> QED BY <1>1, <3>1
  <2> QED BY <1>1, <1>2, <2>1, <2>2 DEF FInv, PhaseInv, Phases
<1>5. ResidentListed'
  BY <1>1, <1>2 DEF FInv, ResidentListed, Allocated, Gpu
<1>6. \A s \in spoiled' : Noticed(s)'
  <2> SUFFICES ASSUME NEW s \in spoiled PROVE Noticed(s)'
    BY <1>1
  <2>1. failed \/ rc = 1 \/ Unread(s)
    BY <1>1 DEF FInv, Noticed
  <2>2. Unread(s) => Unread(s)' /\ s.allocation \in Nat /\ s.allocation >= 1 /\ s.byte >= 0
    BY <1>1, FillTypes DEF Unread, Gpu
  <2>3. Unread(s) => Ahead(s)'
    BY <1>1, <2>2 DEF Ahead
  <2>4. Unread(s) => allocs # <<>>
    BY FillTypes DEF Unread
  <2>5. rc = 1 => rc' = 1
    BY DEF WaitForUser
  <2>6. allocs # <<>> => rc' = 1 \/ phase' = "verify"
    BY DEF WaitForUser, FillGoto
  <2> QED BY <1>1, <1>2, <2>1, <2>2, <2>3, <2>4, <2>5, <2>6 DEF Noticed
<1> QED BY <1>1, <1>2, <1>3, <1>4, <1>5, <1>6 DEF FInv, SuccessMeansIntact, FillTypeOK

(* One piece is compared: what was spoiled in it is seen, and the rest is    *)
(* still ahead, however long the pieces are.                               *)
LEMMA VerifyPieceStep == ASSUME FInv, VerifyPiece PROVE FInv'
<1> DEFINE i == at.allocation
           offset == at.offset
           size == allocs[i]
<1>1. /\ phase = "verify" /\ i <= Len(allocs) /\ at' = NextPiece
      /\ UNCHANGED <<selected, min_chunk, reserve_bytes, target, chunk, allocs, capacity,
                     resident, buffer, failed, exit_status, spoiled>>
      /\ IF Differs THEN rc' = 1 /\ phase' = "release" ELSE rc' = rc /\ phase' = phase
  BY DEF VerifyPiece, FillGoto
<1>2. /\ at \in [allocation : Nat \ {0}, offset : Word] /\ i \in Nat \ {0} /\ offset \in 0..MaxWord
      /\ offset \in Nat /\ buffer \in Nat /\ MaxWord \in Nat /\ Word = 0..MaxWord
  BY WordAssumption DEF FInv, PhaseInv, FillTypeOK, Word
<1>3. i \in DOMAIN allocs /\ size \in Word /\ size \in Nat /\ offset <= size
  <2>1. i \in DOMAIN allocs
    BY <1>1, <1>2, FillTypes
  <2>2. size \in Word /\ size \in Nat
    BY <2>1, FillTypes
  <2> QED BY <1>1, <2>1, <2>2 DEF FInv, PhaseInv
<1>4. /\ Todo \in Nat /\ offset + Todo <= size
      /\ Todo = size - offset \/ Todo = buffer
  <2>1. size - offset \in Nat
    BY <1>2, <1>3
  <2>2. Todo = Min({size - offset, buffer})
    BY DEF Todo
  <2> HIDE DEF size, offset
  <2> QED BY <1>2, <1>3, <2>1, <2>2, MinOfTwo
<1>5. \/ /\ offset + Todo < size
         /\ at'.allocation = i /\ at'.offset = offset + Todo
      \/ /\ offset + Todo >= size
         /\ at'.allocation = i + 1 /\ at'.offset = 0
  <2>1. CASE offset + Todo < size
    <3>1. at' = [at EXCEPT !.offset = offset + Todo]
      BY <1>1, <2>1 DEF NextPiece
    <3> QED BY <1>2, <2>1, <3>1
  <2>2. CASE ~(offset + Todo < size)
    <3>1. at' = [allocation |-> i + 1, offset |-> 0]
      BY <1>1, <2>2 DEF NextPiece
    <3> QED BY <1>2, <1>3, <1>4, <2>2, <3>1
  <2> QED BY <2>1, <2>2
<1>6. at' \in [allocation : Nat \ {0}, offset : Word]
  <2>1. at' = [at EXCEPT !.offset = offset + Todo] \/ at' = [allocation |-> i + 1, offset |-> 0]
    BY <1>1 DEF NextPiece
  <2>2. at'.allocation \in Nat \ {0} /\ at'.offset \in Word
    <3> HIDE DEF i, offset, size
    <3> QED BY <1>2, <1>3, <1>4, <1>5
  <2>3. at' = [allocation |-> at'.allocation, offset |-> at'.offset]
    BY <1>2, <2>1
  <2> QED BY <2>2, <2>3
<1>7. phase' \in {"verify", "release"} /\ rc' \in {0, 1}
  BY <1>1 DEF FInv, FillTypeOK
<1>8. FillTypeOK'
  BY <1>1, <1>6, <1>7 DEF FInv, FillTypeOK
<1>9. PhaseInv'
  <2>1. at'.allocation \in DOMAIN allocs => at'.offset <= allocs[at'.allocation]
    <3>1. CASE at'.allocation = i /\ at'.offset = offset + Todo
      BY <1>4, <3>1
    <3>2. CASE at'.allocation = i + 1 /\ at'.offset = 0
      <4>1. at'.allocation \in DOMAIN allocs => allocs[at'.allocation] \in Nat
        BY FillTypes
      <4> QED BY <3>2, <4>1
    <3> QED BY <1>5, <3>1, <3>2
  <2> QED BY <1>1, <1>6, <1>7, <2>1 DEF FInv, PhaseInv, Phases
<1>10. ResidentListed'
  BY <1>1, <1>7 DEF FInv, ResidentListed, Allocated, Gpu
<1>11. \A s \in spoiled' : Noticed(s)'
  <2> SUFFICES ASSUME NEW s \in spoiled PROVE Noticed(s)'
    BY <1>1
  <2>1. failed \/ rc = 1 \/ (Unread(s) /\ Ahead(s))
    BY <1>1 DEF FInv, Noticed
  <2>2. Differs => rc' = 1 /\ phase' = "release"
    BY <1>1
  <2>3. Unread(s) => Unread(s)' /\ s.allocation \in Nat /\ s.byte \in Nat
    BY <1>1, FillTypes DEF Unread, Gpu
  <2>4. ASSUME Unread(s), Ahead(s), ~Differs PROVE Ahead(s)'
    <3>1. ~(s.allocation = i /\ offset <= s.byte /\ s.byte < offset + Todo)
      BY <2>4 DEF Differs, Unread
    <3>2. s.allocation = i => s.byte < size
      BY <2>4 DEF Unread
    <3>3. i < s.allocation \/ (i = s.allocation /\ offset <= s.byte)
      BY <2>4 DEF Ahead
    <3>4. s.allocation \in Nat /\ s.byte \in Nat
      BY <2>3, <2>4
    <3> HIDE DEF i, offset, size
    <3>5. \/ at'.allocation < s.allocation
          \/ at'.allocation = s.allocation /\ at'.offset <= s.byte
      BY <1>2, <1>3, <1>4, <1>5, <3>1, <3>2, <3>3, <3>4
    <3> QED BY <1>1, <3>5 DEF Ahead
  <2>5. ~Differs => rc' = rc /\ phase' = "verify"
    BY <1>1
  <2> QED BY <1>1, <1>7, <2>1, <2>2, <2>3, <2>4, <2>5 DEF Noticed
<1> QED BY <1>1, <1>7, <1>8, <1>9, <1>10, <1>11 DEF FInv, SuccessMeansIntact

(* The comparison has reached the end of the list: nothing is ahead.        *)
LEMMA VerifyDoneStep == ASSUME FInv, VerifyDone PROVE FInv'
<1>1. /\ phase = "verify" /\ phase' = "release" /\ at.allocation > Len(allocs)
      /\ UNCHANGED <<selected, min_chunk, reserve_bytes, target, chunk, allocs, capacity,
                     resident, buffer, at, rc, failed, exit_status, spoiled>>
  BY DEF VerifyDone, FillGoto
<1>2. FillTypeOK' /\ PhaseInv'
  BY <1>1 DEF FInv, FillTypeOK, PhaseInv, Phases
<1>3. ResidentListed'
  BY <1>1 DEF FInv, ResidentListed, Allocated, Gpu
<1>4. \A s \in spoiled' : Noticed(s)'
  <2> SUFFICES ASSUME NEW s \in spoiled PROVE Noticed(s)'
    BY <1>1
  <2>1. failed \/ rc = 1 \/ (Unread(s) /\ Ahead(s))
    BY <1>1 DEF FInv, Noticed
  <2>2. Unread(s) => s.allocation \in 1..Len(allocs)
    BY FillTypes DEF Unread
  <2>3. at.allocation \in Nat /\ Len(allocs) \in Nat
    BY FillTypes DEF FInv, PhaseInv
  <2>4. ~(Unread(s) /\ Ahead(s))
    BY <1>1, <2>2, <2>3 DEF Ahead
  <2> QED BY <1>1, <2>1, <2>4 DEF Noticed
<1> QED BY <1>1, <1>2, <1>3, <1>4 DEF FInv, SuccessMeansIntact

(* free_allocations and main's loop: what was listed is all there was.       *)
LEMMA ReleaseStep == ASSUME FInv, Release PROVE FInv'
<1>1. /\ phase = "release" /\ resident' = [resident EXCEPT ![Gpu] = @ - Allocated]
      /\ failed' = (failed \/ rc # 0) /\ selected' = Tail(selected)
      /\ NoLocals /\ phase' = (IF selected' = <<>> THEN "over" ELSE "query")
      /\ exit_status' = IF selected' # <<>> THEN exit_status
                        ELSE IF failed' THEN "failure" ELSE "success"
      /\ UNCHANGED <<min_chunk, reserve_bytes, spoiled>>
  BY DEF Release, FillGoto
<1>2. /\ selected \in Seq(Gpus) /\ selected # <<>> /\ rc \in {0, 1} /\ failed \in BOOLEAN
      /\ exit_status = "none" /\ resident \in [Gpus -> Nat]
  BY <1>1 DEF FInv, FillTypeOK, PhaseInv
<1>3. selected' \in Seq(Gpus) /\ failed' \in BOOLEAN
  BY <1>1, <1>2
<1>4. resident' \in [Gpus -> Nat] /\ \A g \in Gpus : resident'[g] = 0
  <2>1. Gpu \in Gpus /\ Allocated \in Nat
    BY <1>1, FillTypes
  <2>2. resident[Gpu] = Allocated /\ \A g \in Gpus \ {Gpu} : resident[g] = 0
    BY <1>1, <2>1 DEF FInv, ResidentListed
  <2>3. \A g \in Gpus : resident'[g] = 0
    BY <1>1, <1>2, <2>1, <2>2
  <2>4. resident' = [g \in Gpus |-> resident'[g]]
    BY <1>1, <1>2
  <2> QED BY <2>3, <2>4
<1>5. /\ allocs' = <<>> /\ at' = [allocation |-> 1, offset |-> 0]
      /\ target' = 0 /\ chunk' = 0 /\ capacity' = 0 /\ buffer' = 0 /\ rc' = 0
  BY <1>1 DEF NoLocals
<1>6. allocs' \in Seq(Word) /\ Len(allocs') = 0 /\ at' \in [allocation : Nat \ {0}, offset : Word]
  BY <1>5, FillTypes
<1>7. FillTypeOK'
  <2>1. (phase' = "over") <=> (exit_status' # "none")
    BY <1>1, <1>2
  <2>2. exit_status' \in {"none", "success", "failure"}
    BY <1>1, <1>2
  <2>3. at'.allocation \in Nat /\ at'.offset \in Word /\ {target', chunk'} \subseteq Word
    BY <1>5, FillTypes
  <2> QED BY <1>1, <1>3, <1>5, <1>6, <2>1, <2>2, <2>3 DEF FInv, FillTypeOK
<1>8. PhaseInv'
  BY <1>1, <1>4, <1>5, <1>6 DEF FInv, PhaseInv, Phases
<1>9. ResidentListed'
  <2>1. Allocated' = 0
    BY <1>5, <1>6, SumOfList DEF Allocated
  <2> QED BY <1>1, <1>4, <2>1 DEF ResidentListed
<1>10. \A s \in spoiled : failed'
  <2>1. \A s \in spoiled : failed \/ rc = 1
    BY <1>1 DEF FInv, Noticed
  <2>2. rc = 1 => rc # 0
    OBVIOUS
  <2>3. failed' <=> (failed \/ rc # 0)
    BY <1>1, Zenon
  <2> QED BY <2>1, <2>2, <2>3
<1>11. SuccessMeansIntact'
  BY <1>1, <1>2, <1>10 DEF SuccessMeansIntact
<1> QED BY <1>1, <1>7, <1>8, <1>9, <1>10, <1>11 DEF FInv, Noticed

(* CHECK_MC: the process ends, and its memory goes with it.                 *)
LEMMA FillAbortsStep == ASSUME FInv, FillAborts PROVE FInv'
<1>1. /\ phase' = "over" /\ exit_status' = "failure" /\ NoLocals
      /\ resident' = [g \in Gpus |-> 0]
      /\ UNCHANGED <<selected, min_chunk, reserve_bytes, failed, spoiled>>
  BY DEF FillAborts, FillExit, FillGoto
<1>2. /\ allocs' = <<>> /\ at' = [allocation |-> 1, offset |-> 0]
      /\ target' = 0 /\ chunk' = 0 /\ capacity' = 0 /\ buffer' = 0 /\ rc' = 0
  BY <1>1 DEF NoLocals
<1>3. allocs' \in Seq(Word) /\ Len(allocs') = 0 /\ at' \in [allocation : Nat \ {0}, offset : Word]
  BY <1>2, FillTypes
<1>4. FillTypeOK'
  <2>1. at'.allocation \in Nat /\ at'.offset \in Word /\ {target', chunk'} \subseteq Word
    BY <1>2, FillTypes
  <2> QED BY <1>1, <1>2, <1>3, <2>1 DEF FInv, FillTypeOK
<1>5. PhaseInv'
  BY <1>1, <1>2, <1>3 DEF PhaseInv, Phases
<1> QED BY <1>1, <1>4, <1>5 DEF FInv, ResidentListed, SuccessMeansIntact

-----------------------------------------------------------------------------
(* The invariant of the test program: the phase says what is held, listed   *)
(* and compared.                                                           *)
THEOREM FillInvariance == FillSpec => []FInv
<1>1. ASSUME FInv, [FillNext]_fillVars PROVE FInv'
  <2>1. CASE UNCHANGED fillVars
    <3>0. /\ selected' = selected /\ min_chunk' = min_chunk /\ reserve_bytes' = reserve_bytes
          /\ phase' = phase /\ target' = target /\ chunk' = chunk /\ allocs' = allocs
          /\ capacity' = capacity /\ resident' = resident /\ buffer' = buffer /\ at' = at
          /\ rc' = rc /\ failed' = failed /\ exit_status' = exit_status /\ spoiled' = spoiled
      BY <2>1 DEF fillVars
    <3>1. FillTypeOK' /\ PhaseInv'
      BY <1>1, <3>0 DEF FInv, FillTypeOK, PhaseInv
    <3>2. ResidentListed' /\ SuccessMeansIntact'
      BY <1>1, <3>0 DEF FInv, ResidentListed, SuccessMeansIntact, Allocated, Gpu
    <3>3. \A s \in spoiled : Noticed(s) => Noticed(s)'
      BY <3>0 DEF Noticed, Unread, Ahead, Gpu
    <3> QED BY <1>1, <3>0, <3>1, <3>2, <3>3 DEF FInv
  <2> QED BY <1>1, <2>1, StartFillStep, QueryStep, FillLoopStep, SpoilStep, WaitForUserStep,
             VerifyPieceStep, VerifyDoneStep, ReleaseStep, FillAbortsStep DEF FillNext
<1> QED BY <1>1, FillInitial, PTL DEF FillSpec

(* The array of allocations never overflows, and no size wraps.             *)
THEOREM FillTyped == FillSpec => []FillTypeOK
<1>1. FInv => FillTypeOK
  BY DEF FInv
<1> QED BY <1>1, FillInvariance, PTL

(* test_one_gpu and free_allocations: on every path the process holds what   *)
(* its list says, on one GPU, and no more than the target.                  *)
THEOREM ResidentSafe == FillSpec => []ResidentListed
<1>1. FInv => ResidentListed
  BY DEF FInv
<1> QED BY <1>1, FillInvariance, PTL

(* verify_allocations and main: exit status 0 means that every byte of every *)
(* GPU kept the pattern, whatever the sizes of chunks and buffers are.       *)
THEOREM SuccessSafe == FillSpec => []SuccessMeansIntact
<1>1. FInv => SuccessMeansIntact
  BY DEF FInv
<1> QED BY <1>1, FillInvariance, PTL

(***************************************************************************)
(* The line editor.                                                        *)
(***************************************************************************)


(* EditorTypeOK without what the keys read so far have done.               *)
PlacesOK ==
    /\ history \in Seq(Lines) /\ Len(history) <= MaxHistory
    /\ line \in Lines /\ draft \in Lines /\ bottom \in Lines
    /\ cursor \in 0..Len(line)
    /\ history_index \in 0..Len(history)
    /\ shown.text \in Lines /\ shown.column \in Nat

(* Away from the bottom of the history, the line typed there is the draft.  *)
DraftOK == Reading => bottom = IF AtBottom THEN line ELSE draft

LineInv == PlacesOK /\ ScreenMatches /\ DraftOK

(* A Ctrl+C that has not cancelled has ended an escape sequence instead.    *)
KeyInv ==
    /\ escape \in {"", "esc", "csi", "csi3"}
    /\ result \in {"reading", "kLine", "kCancelled", "kEndOfInput"}
    /\ interrupts \in Nat
    /\ Reading => interrupts < 2 /\ (interrupts = 1 => escape = "")

EInv == LineInv /\ KeyInv

-----------------------------------------------------------------------------
(* A line is a sequence of at most MaxLine characters.                     *)
LEMMA LineIsSequence ==
    ASSUME NEW s
    PROVE  s \in Lines <=> s \in Seq(Chars) /\ Len(s) <= MaxLine
<1>1. ASSUME s \in Lines PROVE s \in Seq(Chars) /\ Len(s) <= MaxLine
  <2>1. PICK n \in 0..MaxLine : s \in [1..n -> Chars]
    BY <1>1 DEF Lines
  <2>2. n \in Nat /\ n <= MaxLine
    <3>1. MaxLine \in Nat
      BY EditorAssumption
    <3> QED BY <2>1, <3>1, SMT
  <2> QED BY <2>1, <2>2
<1>2. ASSUME s \in Seq(Chars), Len(s) <= MaxLine PROVE s \in Lines
  <2>1. Len(s) \in 0..MaxLine
    <3>1. Len(s) \in Nat /\ MaxLine \in Nat
      BY <1>2, EditorAssumption, LenProperties
    <3> QED BY <1>2, <3>1, SMT
  <2>2. s \in [1..Len(s) -> Chars]
    BY <1>2, LenProperties
  <2> QED BY <2>1, <2>2 DEF Lines
<1> QED BY <1>1, <1>2

LEMMA Part ==
    ASSUME NEW s \in Seq(Chars), NEW first \in 1..(Len(s) + 1), NEW last \in (first - 1)..Len(s)
    PROVE  SubSeq(s, first, last) \in Seq(Chars) /\ Len(SubSeq(s, first, last)) = last - (first - 1)
<1>1. first \in Int /\ last \in Int /\ Len(s) \in Nat /\ first >= 1 /\ last <= Len(s)
      /\ last >= first - 1
  BY LenProperties, SMT
<1>2. \A i \in first..last : s[i] \in Chars
  BY <1>1, ElementOfSeq, SMT
<1>3. /\ SubSeq(s, first, last) \in Seq(Chars)
      /\ Len(SubSeq(s, first, last)) = IF first <= last THEN last - first + 1 ELSE 0
  BY <1>1, <1>2, SubSeqProperties
<1> QED BY <1>1, <1>3, SMT

(* string::erase of a part, and string::insert of a character.             *)
LEMMA WithoutPart ==
    ASSUME line \in Lines, NEW first \in 0..Len(line), NEW last \in first..Len(line)
    PROVE  Without(first, last) \in Lines /\ Len(Without(first, last)) = Len(line) - (last - first)
<1>1. line \in Seq(Chars) /\ Len(line) <= MaxLine /\ Len(line) \in Nat /\ MaxLine \in Nat
  BY LineIsSequence, LenProperties, EditorAssumption
<1>2. first \in Nat /\ last \in Nat /\ first <= last /\ last <= Len(line)
  BY <1>1, SMT
<1> DEFINE front == SubSeq(line, 1, first)
           back  == SubSeq(line, last + 1, Len(line))
<1>3. front \in Seq(Chars) /\ Len(front) = first
  BY <1>1, <1>2, Part
<1>4. back \in Seq(Chars) /\ Len(back) = Len(line) - last
  BY <1>1, <1>2, Part
<1>5. Without(first, last) = front \o back
  BY DEF Without
<1> HIDE DEF front, back
<1>6. front \o back \in Seq(Chars) /\ Len(front \o back) = Len(front) + Len(back)
  BY <1>3, <1>4, ConcatProperties
<1>7. Len(front \o back) = Len(line) - (last - first) /\ Len(front \o back) <= MaxLine
  BY <1>1, <1>2, <1>3, <1>4, <1>6, SMT
<1> QED BY <1>5, <1>6, <1>7, LineIsSequence

LEMMA InsertedKey ==
    ASSUME line \in Lines, cursor \in 0..Len(line), Len(line) < MaxLine, NEW key \in Chars
    PROVE  Inserted(key) \in Lines /\ Len(Inserted(key)) = Len(line) + 1
<1>0. line \in Seq(Chars) /\ Len(line) \in Nat /\ MaxLine \in Nat
  BY LineIsSequence, LenProperties, EditorAssumption
<1>1. line \in Seq(Chars) /\ Len(line) \in Nat /\ MaxLine \in Nat /\ cursor \in Nat
      /\ cursor <= Len(line)
  BY <1>0, SMT
<1> DEFINE front == SubSeq(line, 1, cursor)
           back  == SubSeq(line, cursor + 1, Len(line))
<1>2. front \in Seq(Chars) /\ Len(front) = cursor
  BY <1>1, Part
<1>3. back \in Seq(Chars) /\ Len(back) = Len(line) - cursor
  BY <1>1, Part
<1>4. Inserted(key) = (front \o <<key>>) \o back
  BY DEF Inserted
<1> HIDE DEF front, back
<1>5. <<key>> \in Seq(Chars) /\ Len(<<key>>) = 1
  OBVIOUS
<1>6. front \o <<key>> \in Seq(Chars) /\ Len(front \o <<key>>) = Len(front) + 1
  BY <1>2, <1>5, ConcatProperties
<1>7. /\ (front \o <<key>>) \o back \in Seq(Chars)
      /\ Len((front \o <<key>>) \o back) = (Len(front) + 1) + Len(back)
  BY <1>3, <1>6, ConcatProperties, SMTT(30)
<1>8. Len((front \o <<key>>) \o back) = Len(line) + 1 /\ Len(line) + 1 <= MaxLine
  BY <1>1, <1>2, <1>3, <1>7, SMT
<1> QED BY <1>4, <1>7, <1>8, LineIsSequence

LEMMA LeastMember ==
    ASSUME NEW S \in SUBSET Nat, S # {}
    PROVE  Min(S) \in S
<1> DEFINE less == OpToRel(<, Nat)
<1>1. PICK n \in S : \A m \in S : <<m, n>> \notin less
  <2>1. IsWellFoundedOn(less, Nat)
    BY NatLessThanWellFounded
  <2> HIDE DEF less
  <2> QED BY <2>1, WFMin
<1>2. \A m \in S : n <= m
  <2> TAKE m \in S
  <2>1. ~(m < n)
    BY <1>1 DEF OpToRel
  <2> QED BY <2>1
<1> QED BY <1>2 DEF Min

(* DeletePreviousWord never goes back past the beginning of the line.       *)
LEMMA WordStartInLine ==
    ASSUME cursor \in Nat
    PROVE  WordStart \in 0..cursor
<1>1. ASSUME NEW from \in Nat, NEW blank PROVE Back(from, blank) \in 0..from
  <2> DEFINE Same(i) == (line[i] = " ") = blank
             S       == {c \in 0..from : \A i \in (c + 1)..from : Same(i)}
  <2>1. from \in 0..from /\ (from + 1)..from = {}
    BY SMT
  <2>2. Back(from, blank) = Min(S)
    BY DEF Back
  <2> HIDE DEF Same
  <2>3. from \in S
    BY <2>1
  <2>4. S \subseteq 0..from
    OBVIOUS
  <2> HIDE DEF S
  <2>5. S \in SUBSET Nat
    BY <2>4, SMT
  <2>6. Min(S) \in S
    BY <2>3, <2>5, LeastMember
  <2> QED BY <2>2, <2>4, <2>6
<1> DEFINE blanks == Back(cursor, TRUE)
<1>2. blanks \in 0..cursor
  BY <1>1
<1>3. WordStart = Back(blanks, FALSE)
  BY DEF WordStart
<1> HIDE DEF blanks
<1>4. blanks \in Nat /\ blanks <= cursor
  BY <1>2, SMT
<1> DEFINE start == Back(blanks, FALSE)
<1>5. start \in 0..blanks
  BY <1>1, <1>4
<1> HIDE DEF start
<1>6. start \in 0..cursor
  BY <1>4, <1>5, SMT
<1> QED BY <1>3, <1>6 DEF start

-----------------------------------------------------------------------------
(* An edit of the line is drawn where it happened; below the history it is  *)
(* what stands there from now on, elsewhere it leaves that and the draft.   *)
LEMMA EditStep ==
    ASSUME LineInv, Reading, NEW text \in Lines, NEW column \in 0..Len(text),
           Edit(text, column), result' = result
    PROVE  LineInv'
<1>1. Len(text) \in Nat /\ column \in Nat /\ column <= Len(text)
  <2>1. text \in Seq(Chars)
    BY LineIsSequence
  <2>2. Len(text) \in Nat
    BY <2>1, LenProperties
  <2> QED BY <2>2, SMT
<1>2. (IF column < Len(text) THEN Len(text) - (Len(text) - column) ELSE Len(text)) = column
  BY <1>1, SMT
<1>3. shown' = [text |-> text, column |-> column]
  BY <1>2 DEF Edit, Redraw
<1>4. /\ line' = text /\ cursor' = column
      /\ bottom' = IF AtBottom THEN text ELSE bottom
      /\ UNCHANGED <<history, draft, history_index>>
  BY DEF Edit
<1>5. PlacesOK'
  BY <1>1, <1>3, <1>4 DEF LineInv, PlacesOK
<1>6. ScreenMatches' /\ DraftOK'
  BY <1>3, <1>4 DEF LineInv, ScreenMatches, DraftOK, Reading, AtBottom
<1> QED BY <1>5, <1>6 DEF LineInv

LEMMA NothingStep == ASSUME LineInv, Nothing, result' = result PROVE LineInv'
BY DEF LineInv, Nothing, PlacesOK, ScreenMatches, DraftOK, Reading, AtBottom

LEMMA ReturnStep ==
    ASSUME LineInv, NEW status \in {"kLine", "kCancelled", "kEndOfInput"}, Return(status)
    PROVE  LineInv'
BY DEF LineInv, Return, PlacesOK, ScreenMatches, DraftOK, Reading

(* The history forgets nothing.                                            *)
LEMMA RememberedLine ==
    ASSUME history \in Seq(Lines), NEW text \in Lines
    PROVE  Remembered(text) \in Seq(Lines) /\ Len(history) <= Len(Remembered(text))
<1>1. Len(history) \in Nat
  BY LenProperties
<1>2. Append(history, text) \in Seq(Lines) /\ Len(Append(history, text)) = Len(history) + 1
  BY AppendProperties
<1>3. Remembered(text) = history \/ Remembered(text) = Append(history, text)
  BY DEF Remembered
<1> QED BY <1>1, <1>2, <1>3, SMT

LEMMA EnterStep == ASSUME LineInv, Enter PROVE LineInv'
<1>1. history' = Remembered(line) /\ Len(history') <= MaxHistory /\ result' = "kLine"
      /\ UNCHANGED <<line, cursor, draft, history_index, shown, bottom>>
  BY DEF Enter
<1>2. history' \in Seq(Lines) /\ Len(history) <= Len(history')
      /\ Len(history) \in Nat /\ Len(history') \in Nat
  BY <1>1, RememberedLine, LenProperties DEF LineInv, PlacesOK
<1>3. history_index' \in 0..Len(history')
  <2>1. history_index \in 0..Len(history)
    BY DEF LineInv, PlacesOK
  <2> QED BY <1>1, <1>2, <2>1, SMT
<1>4. PlacesOK'
  BY <1>1, <1>2, <1>3 DEF LineInv, PlacesOK
<1>5. ScreenMatches' /\ DraftOK'
  BY <1>1 DEF ScreenMatches, DraftOK, Reading
<1> QED BY <1>4, <1>5 DEF LineInv

(* What the cursor may do to the line.                                     *)
LEMMA CursorInLine ==
    ASSUME LineInv
    PROVE  /\ line \in Lines /\ Len(line) \in Nat /\ cursor \in Nat /\ cursor <= Len(line)
           /\ <<>> \in Lines /\ Len(<<>>) = 0
<1>1. line \in Lines /\ cursor \in 0..Len(line)
  BY DEF LineInv, PlacesOK
<1>2. line \in Seq(Chars)
  BY <1>1, LineIsSequence
<1>3. Len(line) \in Nat
  BY <1>2, LenProperties
<1>4. <<>> \in Seq(Chars) /\ Len(<<>>) = 0
  BY EmptySeq
<1>5. <<>> \in Lines
  <2>1. 0 <= MaxLine
    <3>1. MaxLine \in Nat
      BY EditorAssumption
    <3> QED BY <3>1, SMT
  <2> QED BY <1>4, <2>1, LineIsSequence
<1> QED BY <1>1, <1>3, <1>4, <1>5, SMT

LEMMA EditingStep ==
    ASSUME LineInv, Reading, NEW key, Editing(key),
           key \in EditKeys \/ (key \in Chars /\ Len(line) < MaxLine)
    PROVE  LineInv'
<1>1. result' = result
  BY DEF Editing
<1>2. line \in Lines /\ Len(line) \in Nat /\ cursor \in Nat /\ cursor <= Len(line)
      /\ <<>> \in Lines /\ Len(<<>>) = 0
  BY CursorInLine
<1>3. CASE key = "ctrl_a"
  <2>1. Edit(line, 0) /\ 0 \in 0..Len(line)
    BY <1>2, <1>3 DEF Editing
  <2> QED BY <1>1, <1>2, <2>1, EditStep
<1>4. CASE key = "ctrl_e"
  <2>1. Edit(line, Len(line)) /\ Len(line) \in 0..Len(line)
    BY <1>2, <1>4 DEF Editing
  <2> QED BY <1>1, <1>2, <2>1, EditStep
<1>5. CASE key = "ctrl_k"
  <2>1. Edit(SubSeq(line, 1, cursor), cursor)
    BY <1>5 DEF Editing
  <2>2. SubSeq(line, 1, cursor) \in Seq(Chars) /\ Len(SubSeq(line, 1, cursor)) = cursor
    <3>1. line \in Seq(Chars)
      BY <1>2, LineIsSequence
    <3>2. 1 \in 1..(Len(line) + 1) /\ cursor \in (1 - 1)..Len(line) /\ cursor - (1 - 1) = cursor
      BY <1>2, SMT
    <3>3. Len(SubSeq(line, 1, cursor)) = cursor - (1 - 1)
      BY <3>1, <3>2, Part
    <3> QED BY <3>1, <3>2, <3>3, Part
  <2>3. cursor <= MaxLine
    <3>1. Len(line) <= MaxLine /\ MaxLine \in Nat
      BY <1>2, LineIsSequence, EditorAssumption
    <3> QED BY <1>2, <3>1, SMT
  <2> DEFINE front == SubSeq(line, 1, cursor)
  <2>4. front \in Seq(Chars) /\ Len(front) <= MaxLine /\ Len(front) = cursor
    BY <2>2, <2>3
  <2> HIDE DEF front
  <2>5. front \in Lines
    BY <2>4, LineIsSequence
  <2>6. cursor \in 0..Len(front)
    BY <1>2, <2>4, SMT
  <2> QED BY <1>1, <2>1, <2>5, <2>6, EditStep DEF front
<1>6. CASE key = "ctrl_u"
  <2>1. Edit(<<>>, 0) /\ 0 \in 0..Len(<<>>)
    BY <1>2, <1>6 DEF Editing
  <2> QED BY <1>1, <1>2, <2>1, EditStep
<1>7. CASE key = "ctrl_w"
  <2>1. Edit(Without(WordStart, cursor), WordStart)
    BY <1>7 DEF Editing
  <2>2. WordStart \in 0..cursor
    BY <1>2, WordStartInLine
  <2>3. WordStart \in 0..Len(line) /\ cursor \in WordStart..Len(line) /\ WordStart \in Nat
    BY <1>2, <2>2, SMT
  <2>4. /\ Without(WordStart, cursor) \in Lines
        /\ Len(Without(WordStart, cursor)) = Len(line) - (cursor - WordStart)
    BY <1>2, <2>3, WithoutPart
  <2>5. WordStart \in 0..Len(Without(WordStart, cursor))
    BY <1>2, <2>3, <2>4, SMT
  <2> QED BY <1>1, <2>1, <2>4, <2>5, EditStep
<1>8. CASE key = "backspace"
  <2>1. CASE cursor > 0
    <3>1. Edit(Without(cursor - 1, cursor), cursor - 1)
      BY <1>8, <2>1 DEF Editing, Do
    <3>2. cursor - 1 \in 0..Len(line) /\ cursor \in (cursor - 1)..Len(line)
      BY <1>2, <2>1, SMT
    <3>3. /\ Without(cursor - 1, cursor) \in Lines
          /\ Len(Without(cursor - 1, cursor)) = Len(line) - (cursor - (cursor - 1))
      BY <1>2, <3>2, WithoutPart
    <3>4. cursor - 1 \in 0..Len(Without(cursor - 1, cursor))
      BY <1>2, <2>1, <3>3, SMT
    <3> QED BY <1>1, <3>1, <3>3, <3>4, EditStep
  <2>2. CASE ~(cursor > 0)
    BY <1>1, <1>8, <2>2, NothingStep DEF Editing, Do
  <2> QED BY <2>1, <2>2
<1>9. CASE key \notin EditKeys
  <2>1. Edit(Inserted(key), cursor + 1) /\ key \in Chars /\ Len(line) < MaxLine
    BY <1>9 DEF Editing, EditKeys
  <2>2. cursor \in 0..Len(line)
    BY <1>2, SMT
  <2>3. Inserted(key) \in Lines /\ Len(Inserted(key)) = Len(line) + 1
    BY <1>2, <2>1, <2>2, InsertedKey
  <2>4. cursor + 1 \in 0..Len(Inserted(key))
    BY <1>2, <2>3, SMT
  <2> QED BY <1>1, <2>1, <2>3, <2>4, EditStep
<1> QED BY <1>3, <1>4, <1>5, <1>6, <1>7, <1>8, <1>9 DEF EditKeys

(* Delete, by Ctrl+D or by its escape sequence.                            *)
LEMMA DeleteStep ==
    ASSUME LineInv, Reading, cursor < Len(line), Edit(Without(cursor, cursor + 1), cursor),
           result' = result
    PROVE  LineInv'
<1>1. line \in Lines /\ Len(line) \in Nat /\ cursor \in Nat /\ cursor < Len(line)
  BY CursorInLine
<1>2. cursor \in 0..Len(line) /\ cursor + 1 \in cursor..Len(line)
  BY <1>1, SMT
<1>3. /\ Without(cursor, cursor + 1) \in Lines
      /\ Len(Without(cursor, cursor + 1)) = Len(line) - ((cursor + 1) - cursor)
  BY <1>1, <1>2, WithoutPart
<1>4. cursor \in 0..Len(Without(cursor, cursor + 1))
  BY <1>1, <1>3, SMT
<1> QED BY <1>3, <1>4, EditStep

(* A walk through the history: the first step up saves the draft, the last  *)
(* step down brings it back.                                               *)
LEMMA WalkStep ==
    ASSUME LineInv, Reading, Up \/ Down, result' = result
    PROVE  LineInv'
<1>1. /\ history \in Seq(Lines) /\ Len(history) \in Nat /\ Len(history) <= MaxHistory
      /\ line \in Lines /\ draft \in Lines /\ bottom \in Lines
      /\ history_index \in 0..Len(history)
      /\ bottom = IF AtBottom THEN line ELSE draft
  <2>1. history \in Seq(Lines)
    BY DEF LineInv, PlacesOK
  <2> QED BY <2>1, LenProperties DEF LineInv, PlacesOK, DraftOK
<1>2. ASSUME line' \in Lines, cursor' = Len(line'), Redraw(line', cursor')
      PROVE  /\ cursor' \in 0..Len(line') /\ shown' = [text |-> line', column |-> cursor']
             /\ shown'.text \in Lines /\ shown'.column \in Nat
  <2>1. line' \in Seq(Chars)
    BY <1>2, LineIsSequence
  <2>2. Len(line') \in Nat
    BY <2>1, LenProperties
  <2>3. cursor' \in Nat /\ cursor' \in 0..Len(line')
    BY <1>2, <2>2, SMT
  <2>4. shown' = [text |-> line', column |-> cursor']
    BY <1>2 DEF Redraw
  <2> QED BY <1>2, <2>3, <2>4
<1>3. CASE Up
  <2>1. /\ history_index > 0 /\ history_index' = history_index - 1
        /\ line' = history[history_index] /\ cursor' = Len(line') /\ Redraw(line', cursor')
        /\ draft' = (IF AtBottom THEN line ELSE draft)
        /\ UNCHANGED <<history, bottom>>
    BY <1>3 DEF Up
  <2>2. history_index \in 1..Len(history) /\ history_index' \in 0..Len(history)
        /\ history_index' # Len(history)
    BY <1>1, <2>1, SMT
  <2>3. line' \in Lines
    BY <1>1, <2>1, <2>2, ElementOfSeq
  <2>4. draft' \in Lines /\ bottom' = draft'
    BY <1>1, <2>1
  <2>5. PlacesOK'
    BY <1>1, <1>2, <2>1, <2>2, <2>3, <2>4 DEF PlacesOK
  <2>6. ScreenMatches'
    BY <1>2, <2>1, <2>3 DEF ScreenMatches
  <2>7. DraftOK'
    BY <2>1, <2>2, <2>4 DEF DraftOK, AtBottom
  <2> QED BY <2>5, <2>6, <2>7 DEF LineInv
<1>4. CASE Down
  <2>1. /\ history_index # Len(history) /\ history_index' = history_index + 1
        /\ line' = (IF history_index' = Len(history) THEN draft ELSE history[history_index' + 1])
        /\ cursor' = Len(line') /\ Redraw(line', cursor')
        /\ UNCHANGED <<history, draft, bottom>>
    BY <1>4 DEF Down, AtBottom
  <2>2. history_index' \in 0..Len(history)
        /\ (history_index' # Len(history) => history_index' + 1 \in 1..Len(history))
    BY <1>1, <2>1, SMT
  <2>3. history_index' # Len(history) => history[history_index' + 1] \in Lines
    BY <1>1, <2>2, ElementOfSeq
  <2>4. line' \in Lines
    BY <1>1, <2>1, <2>3
  <2>5. bottom = draft
    BY <1>1, <2>1 DEF AtBottom
  <2>6. PlacesOK'
    BY <1>1, <1>2, <2>1, <2>2, <2>4 DEF PlacesOK
  <2>7. ScreenMatches'
    BY <1>2, <2>1, <2>4 DEF ScreenMatches
  <2>8. DraftOK'
    BY <2>1, <2>5 DEF DraftOK, AtBottom
  <2> QED BY <2>6, <2>7, <2>8 DEF LineInv
<1> QED BY <1>3, <1>4

LEMMA PlainStep ==
    ASSUME LineInv, Reading, NEW key, Plain(key)
    PROVE  LineInv'
<1>1. CASE Enter
  BY <1>1, EnterStep
<1>2. CASE Return("kCancelled") \/ Return("kEndOfInput")
  BY <1>2, ReturnStep
<1>3. CASE CtrlD
  <2>1. CASE line = <<>>
    BY <1>2, <1>3, <2>1 DEF CtrlD
  <2>2. CASE line # <<>>
    <3>1. result' = result
      BY <1>3, <2>2 DEF CtrlD
    <3>2. CASE cursor < Len(line)
      <4>1. Edit(Without(cursor, cursor + 1), cursor)
        BY <1>3, <2>2, <3>2 DEF CtrlD, Do
      <4> QED BY <3>1, <3>2, <4>1, DeleteStep
    <3>3. CASE ~(cursor < Len(line))
      <4>1. Nothing
        BY <1>3, <2>2, <3>3 DEF CtrlD, Do
      <4> QED BY <3>1, <4>1, NothingStep
    <3> QED BY <3>2, <3>3
  <2> QED BY <2>1, <2>2
<1>4. CASE Editing(key) /\ (key \in EditKeys \/ (key \in Chars /\ Len(line) < MaxLine))
  BY <1>4, EditingStep
<1>5. CASE Nothing /\ result' = result
  BY <1>5, NothingStep
<1> QED BY <1>1, <1>2, <1>3, <1>4, <1>5 DEF Plain

LEMMA EscapedStep ==
    ASSUME LineInv, Reading, NEW key, Escaped(key)
    PROVE  LineInv'
<1>1. result' = result
  BY DEF Escaped
<1>2. line \in Lines /\ Len(line) \in Nat /\ cursor \in Nat /\ cursor <= Len(line)
  BY CursorInLine
<1>3. CASE Nothing
  BY <1>1, <1>3, NothingStep
<1>4. CASE Up \/ Down
  BY <1>1, <1>4, WalkStep
<1>5. CASE cursor < Len(line) /\ Edit(line, cursor + 1)
  <2>1. cursor + 1 \in 0..Len(line)
    BY <1>2, <1>5, SMT
  <2> QED BY <1>1, <1>2, <1>5, <2>1, EditStep
<1>6. CASE cursor > 0 /\ Edit(line, cursor - 1)
  <2>1. cursor - 1 \in 0..Len(line)
    BY <1>2, <1>6, SMT
  <2> QED BY <1>1, <1>2, <1>6, <2>1, EditStep
<1>7. CASE Edit(line, 0) \/ Edit(line, Len(line))
  <2>1. 0 \in 0..Len(line) /\ Len(line) \in 0..Len(line)
    BY <1>2, SMT
  <2> QED BY <1>1, <1>2, <1>7, <2>1, EditStep
<1>8. CASE escape = "csi"
  <2>1. Code(key)
    BY <1>8 DEF Escaped
  <2>2. \/ Nothing \/ Up \/ Down \/ Edit(line, 0) \/ Edit(line, Len(line))
        \/ cursor < Len(line) /\ Edit(line, cursor + 1)
        \/ cursor > 0 /\ Edit(line, cursor - 1)
    BY <2>1 DEF Code, Do
  <2> QED BY <1>3, <1>4, <1>5, <1>6, <1>7, <2>2
<1>9. CASE escape = "csi3"
  <2>1. CASE key = "~" /\ cursor < Len(line)
    <3>1. Edit(Without(cursor, cursor + 1), cursor)
      BY <1>9, <2>1 DEF Escaped, Do
    <3> QED BY <1>1, <2>1, <3>1, DeleteStep
  <2>2. CASE ~(key = "~" /\ cursor < Len(line))
    <3>1. Nothing
      BY <1>9, <2>2 DEF Escaped, Do
    <3> QED BY <1>1, <3>1, NothingStep
  <2> QED BY <2>1, <2>2
<1>10. CASE escape \notin {"csi", "csi3"}
  BY <1>3, <1>10 DEF Escaped
<1> QED BY <1>8, <1>9, <1>10

(* A Ctrl+C outside of a sequence ends the line; inside of one it ends the   *)
(* sequence.                                                               *)
LEMMA KeyKeepsKeyInv == ASSUME KeyInv, Key PROVE KeyInv'
<1>1. PICK key \in Keys :
          /\ Plain(key) \/ Escaped(key)
          /\ interrupts' = IF key = "ctrl_c" THEN interrupts + 1 ELSE 0
  BY DEF Key
<1>2. result = "reading" /\ (interrupts = 1 => escape = "")
  BY DEF Key, KeyInv, Reading
<1>3. interrupts \in Nat /\ interrupts < 2
  BY DEF Key, KeyInv, Reading
<1>4. interrupts \in {0, 1} /\ interrupts + 1 \in Nat /\ 0 \in Nat /\ 0 < 2 /\ 0 # 1
  BY <1>3, SMT
<1>5. interrupts' \in Nat
  BY <1>1, <1>4
<1>6. key # "ctrl_c" => interrupts' = 0
  BY <1>1
<1>7. CASE Plain(key)
  <2>1. escape' \in {"", "esc"}
    BY <1>7 DEF Plain
  <2>2. result' \in {"reading", "kLine", "kCancelled", "kEndOfInput"}
    BY <1>2, <1>7 DEF Plain, Enter, Return, CtrlD, Editing
  <2>3. key = "ctrl_c" => result' = "kCancelled"
    BY <1>7, EditorAssumption DEF Plain, Return, EditKeys
  <2>4. CASE key = "ctrl_c"
    BY <1>5, <2>1, <2>2, <2>3, <2>4 DEF KeyInv, Reading
  <2>5. CASE key # "ctrl_c"
    BY <1>4, <1>5, <1>6, <2>1, <2>2, <2>5 DEF KeyInv, Reading
  <2> QED BY <2>4, <2>5
<1>8. CASE Escaped(key)
  <2>1. escape' \in {"", "csi", "csi3"} /\ result' = "reading" /\ escape # ""
    BY <1>2, <1>8 DEF Escaped, EscapeAfter
  <2>2. CASE key = "ctrl_c"
    <3>1. escape' = ""
      BY <1>8, <2>2 DEF Escaped, EscapeAfter
    <3>2. interrupts = 0
      BY <1>2, <1>4, <2>1
    <3>3. interrupts' = 0 + 1
      BY <1>1, <2>2, <3>2
    <3>4. interrupts' < 2
      BY <3>3, SMT
    <3> QED BY <1>5, <2>1, <3>1, <3>4 DEF KeyInv, Reading
  <2>3. CASE key # "ctrl_c"
    BY <1>4, <1>5, <1>6, <2>1, <2>3 DEF KeyInv, Reading
  <2> QED BY <2>2, <2>3
<1> QED BY <1>1, <1>7, <1>8

LEMMA KeyStep == ASSUME EInv, Key PROVE EInv'
<1>1. Reading /\ LineInv /\ KeyInv /\ \E key \in Keys : Plain(key) \/ Escaped(key)
  BY DEF Key, EInv
<1>2. LineInv'
  BY <1>1, PlainStep, EscapedStep
<1>3. KeyInv'
  BY <1>1, KeyKeepsKeyInv
<1> QED BY <1>2, <1>3 DEF EInv

LEMMA HangupStep == ASSUME EInv, Hangup PROVE EInv'
<1>1. Reading /\ LineInv /\ KeyInv /\ escape' = "" /\ interrupts' = interrupts
  BY DEF Hangup, EInv
<1>2. CASE escape = ""
  <2>1. Return("kEndOfInput")
    BY <1>2 DEF Hangup
  <2>2. LineInv'
    BY <1>1, <2>1, ReturnStep
  <2>3. KeyInv'
    BY <1>1, <2>1 DEF KeyInv, Return, Reading
  <2> QED BY <2>2, <2>3 DEF EInv
<1>3. CASE escape # ""
  <2>1. Nothing /\ result' = result
    BY <1>3 DEF Hangup
  <2>2. LineInv'
    BY <1>1, <2>1, NothingStep
  <2>3. KeyInv'
    BY <1>1, <2>1 DEF KeyInv, Reading
  <2> QED BY <2>2, <2>3 DEF EInv
<1> QED BY <1>2, <1>3

(* The next line starts empty, below the history.                          *)
LEMMA FreshStep ==
    ASSUME EInv, FreshLine, history' \in Seq(Lines), Len(history') <= MaxHistory,
           Len(history) <= Len(history'),
           result' \in {"reading", "kLine", "kEndOfInput"},
           result' = "reading" => history' = history
    PROVE  EInv'
<1>1. history \in Seq(Lines) /\ <<>> \in Lines /\ Len(<<>>) = 0
  <2>1. LineInv
    BY DEF EInv
  <2>2. history \in Seq(Lines)
    BY <2>1 DEF LineInv, PlacesOK
  <2> QED BY <2>1, <2>2, CursorInLine
<1>2. Len(history) \in Nat /\ Len(history') \in Nat
  BY <1>1, LenProperties
<1>3. /\ line' = <<>> /\ cursor' = 0 /\ draft' = <<>> /\ history_index' = Len(history)
      /\ escape' = "" /\ shown' = [text |-> <<>>, column |-> 0]
      /\ bottom' = <<>> /\ interrupts' = 0
  BY DEF FreshLine
<1>4. history_index' \in 0..Len(history')
  <2>1. Len(history) \in 0..Len(history')
    BY <1>2, SMT
  <2> QED BY <1>3, <2>1
<1>5. cursor' \in 0..Len(line')
  <2>1. Len(line') = 0
    BY <1>1, <1>3
  <2>2. 0 \in 0..0
    BY SMT
  <2> QED BY <1>3, <2>1, <2>2
<1>6. PlacesOK'
  <2>1. shown'.text = <<>> /\ shown'.column = 0
    BY <1>3
  <2>2. line' \in Lines /\ draft' \in Lines /\ bottom' \in Lines
        /\ shown'.text \in Lines /\ shown'.column \in Nat
    BY <1>1, <1>3, <2>1
  <2> QED BY <1>4, <1>5, <2>2 DEF PlacesOK
<1>7. ScreenMatches' /\ DraftOK'
  BY <1>3 DEF ScreenMatches, DraftOK
<1>8. KeyInv'
  <2>1. 0 \in Nat /\ 0 < 2 /\ 0 # 1
    BY SMT
  <2>2. result' \in {"reading", "kLine", "kCancelled", "kEndOfInput"}
    OBVIOUS
  <2> QED BY <1>3, <2>1, <2>2 DEF KeyInv
<1> QED BY <1>6, <1>7, <1>8 DEF EInv, LineInv

LEMMA LineStep == ASSUME EInv, ReadLine \/ GetLine PROVE EInv'
<1>1. history \in Seq(Lines) /\ Len(history) <= MaxHistory
  BY DEF EInv, LineInv, PlacesOK
<1>2. Len(history) \in Nat
  BY <1>1, LenProperties
<1>3. CASE ReadLine
  <2>1. FreshLine /\ result' = "reading" /\ history' = history
    BY <1>3 DEF ReadLine
  <2>2. Len(history) <= Len(history')
    BY <1>2, <2>1
  <2> QED BY <1>1, <2>1, <2>2, FreshStep
<1>4. CASE GetLine
  <2>1. /\ FreshLine /\ Len(history') <= MaxHistory
        /\ \/ \E text \in Lines : history' = Remembered(text) /\ result' = "kLine"
           \/ history' = history /\ result' = "kEndOfInput"
    BY <1>4 DEF GetLine
  <2>2. history' \in Seq(Lines) /\ Len(history) <= Len(history')
    BY <1>1, <1>2, <2>1, RememberedLine
  <2> QED BY <2>1, <2>2, FreshStep
<1> QED BY <1>3, <1>4

-----------------------------------------------------------------------------
(* EInv is inductive.                                                      *)
THEOREM EditorInvariant == EditorSpec => []EInv
<1>1. EditorInit => EInv
  <2>1. SUFFICES ASSUME EditorInit PROVE EInv
    OBVIOUS
  <2>2. <<>> \in Lines /\ Len(<<>>) = 0 /\ MaxHistory \in Nat
    <3>1. MaxLine \in Nat /\ MaxHistory \in Nat
      BY EditorAssumption
    <3>2. 0 <= MaxLine
      BY <3>1, SMT
    <3> QED BY <3>1, <3>2, EmptySeq, LineIsSequence
  <2>3. <<>> \in Seq(Lines)
    BY EmptySeq
  <2>4. 0 \in 0..0 /\ 0 <= MaxHistory
    BY <2>2, SMT
  <2>5. /\ history = <<>> /\ line = <<>> /\ cursor = 0 /\ draft = <<>> /\ history_index = 0
        /\ bottom = <<>> /\ shown.text = <<>> /\ shown.column = 0
    BY <2>1 DEF EditorInit
  <2>6. Len(history) = 0 /\ Len(line) = 0
    BY <2>2, <2>5
  <2>7. PlacesOK
    BY <2>2, <2>3, <2>4, <2>5, <2>6 DEF PlacesOK
  <2>8. ScreenMatches /\ DraftOK /\ KeyInv
    BY <2>1 DEF EditorInit, ScreenMatches, DraftOK, KeyInv, Reading
  <2> QED BY <2>7, <2>8 DEF EInv, LineInv
<1>2. ASSUME EInv, [EditorNext]_editorVars PROVE EInv'
  <2>1. CASE UNCHANGED editorVars
    BY <1>2, <2>1 DEF editorVars, EInv, LineInv, KeyInv, PlacesOK, ScreenMatches, DraftOK, Reading,
                      AtBottom
  <2> QED BY <1>2, <2>1, KeyStep, HangupStep, LineStep DEF EditorNext
<1> QED BY <1>1, <1>2, PTL DEF EditorSpec

(* ReadLine's locals stay inside their bounds: the cursor in the line, the  *)
(* place in the history in the history.                                    *)
THEOREM EditorTyped == EditorSpec => []EditorTypeOK
<1>1. EInv => EditorTypeOK
  BY DEF EInv, LineInv, KeyInv, PlacesOK, EditorTypeOK
<1> QED BY <1>1, EditorInvariant, PTL

(* Redraw shows, after every key, the line that Enter would return and the  *)
(* cursor where the next character goes.                                   *)
THEOREM ScreenFaithful == EditorSpec => []ScreenMatches
<1>1. EInv => ScreenMatches
  BY DEF EInv, LineInv
<1> QED BY <1>1, EditorInvariant, PTL

(* Up and Down, and whatever is edited between them, bring back the line    *)
(* that was typed below the history.                                       *)
THEOREM DraftSafe == EditorSpec => []DraftReturns
<1>1. EInv => DraftReturns
  BY DEF EInv, LineInv, DraftOK, DraftReturns
<1> QED BY <1>1, EditorInvariant, PTL

(* One Ctrl+C may not cancel the line (run interrupt); of two in a row, the  *)
(* second does, wherever an escape sequence was cut off.                   *)
THEOREM InterruptSafe == EditorSpec => []SecondCtrlCCancels
<1>1. EInv => SecondCtrlCCancels
  BY DEF EInv, KeyInv, SecondCtrlCCancels
<1> QED BY <1>1, EditorInvariant, PTL


(***************************************************************************)
(* The composition.                                                        *)
(***************************************************************************)

(* A step of the composition is a step of the program that is its subject,  *)
(* and the others do not move.                                             *)
LEMMA OneMoves ==
    ASSUME [Next]_mcVars
    PROVE  [ToolNext]_toolVars /\ [FillNext]_fillVars /\ [EditorNext]_editorVars
<1>1. CASE UNCHANGED mcVars
  <2>1. UNCHANGED <<toolVars, fillVars, editorVars>>
    BY <1>1 DEF mcVars
  <2> QED BY <2>1
<1>2. CASE Next
  BY <1>2 DEF Next
<1> QED BY <1>1, <1>2

(* The programs share no state, so each of them behaves beside the others   *)
(* as its own specification says, with the fairness that it assumes.       *)
THEOREM ProgramsApart == Spec => ToolSpec /\ FillSpec /\ EditorSpec
<1>1. Init => ToolInit /\ FillInit /\ EditorInit
  BY DEF Init
<1>2. [Next]_mcVars => [ToolNext]_toolVars /\ [FillNext]_fillVars /\ [EditorNext]_editorVars
  BY OneMoves
<1> QED BY <1>1, <1>2, PTL DEF Spec, ToolSpec, FillSpec, EditorSpec

(* Every variable of every program keeps its type: windows and their rooms  *)
(* are machine words, the list of allocations stays inside its array, the   *)
(* cursor inside the line.                                                 *)
THEOREM ProgramsTyped == Spec => []TypeOK
<1>1. ToolTypeOK /\ FillTypeOK /\ EditorTypeOK => TypeOK
  BY DEF TypeOK
<1> QED BY <1>1, ProgramsApart, ToolTyped, FillTyped, EditorTyped, PTL

(* What the programs promise, but for the division of a copy among threads, *)
(* which needs devices that leave room for the sums (EachByteOnce).         *)
Promises ==
    /\ AccessCovered /\ MappedInsideRoom /\ AttachedWhileMapped /\ NothingLeft
    /\ OpensWhatWasNamed
    /\ ResidentListed /\ SuccessMeansIntact
    /\ ScreenMatches /\ DraftReturns

(* All that each program promises on its own holds beside the others, for   *)
(* every width of a word, page size, device, command line, GPU, line and    *)
(* history.                                                                *)
THEOREM ProgramsSafe == Spec => []Promises
<1>1. ASSUME AccessCovered, MappedInsideRoom, AttachedWhileMapped, NothingLeft,
             OpensWhatWasNamed, ResidentListed, SuccessMeansIntact,
             ScreenMatches, DraftReturns
      PROVE  Promises
  BY <1>1 DEF Promises
<1> QED BY <1>1, ProgramsApart, AccessIsCovered, MappingInsideRoom, AttachmentInsideMapping,
           SuccessLeavesNothing, OpenedIsNamed, ResidentSafe, SuccessSafe,
           ScreenFaithful, DraftSafe, PTL
=============================================================================
