-------------------------- MODULE PhysmapToolsProofs --------------------------
(***************************************************************************)
(* First, what the address arithmetic of the tools and of the driver's      *)
(* get_unmapped_area guarantees for every page size, alignment and width of *)
(* a word: what a tool maps covers what it accesses, a mapping that has     *)
(* been aligned stays in the room that was found for it, and the threads of *)
(* a copy divide the bytes between them.                                    *)
(*                                                                         *)
(* Then the inductive invariant of PhysmapTools, and what follows from it   *)
(* for every word size, page size, region and command line.  IInv says of   *)
(* every stage what the tool holds there (HoldsInv), which device it has    *)
(* named (NameInv) and where its window lies (WindowInv): none of the       *)
(* properties is inductive alone, for the order of the calls is only in the *)
(* stages.                                                                 *)
(***************************************************************************)
EXTENDS PhysmapTools, TLAPS

(* Division with a rest.                                                   *)
LEMMA DivMod ==
    ASSUME NEW n \in Nat, NEW d \in Nat \ {0}
    PROVE  /\ n \div d \in Nat /\ n % d \in 0..(d - 1)
           /\ n = ((n \div d) * d) + (n % d)
<1>1. n \div d \in Nat /\ n % d \in 0..(d - 1)
  BY SMT
<1>2. n = (d * (n \div d)) + (n % d)
  BY SMT
<1> QED BY <1>1, <1>2, SMT

LEMMA Multiple ==
    ASSUME NEW k \in Nat, NEW d \in Nat \ {0}
    PROVE  (k * d) % d = 0
<1> DEFINE q == (k * d) \div d
           r == (k * d) % d
<1>1. q \in Nat /\ r \in 0..(d - 1) /\ k * d = (q * d) + r
  <2>1. k * d \in Nat
    BY SMT
  <2> QED BY <2>1, DivMod
<1> HIDE DEF q, r
<1>2. r = (k - q) * d
  BY <1>1, SMT
<1>3. CASE k - q <= 0
  BY <1>1, <1>2, <1>3, SMT
<1>4. CASE k - q >= 1
  <2>1. (k - q) * d >= d
    BY <1>1, <1>4, SMT
  <2> QED BY <1>1, <1>2, <2>1, SMT
<1>5. r = 0
  BY <1>1, <1>3, <1>4, SMT
<1> QED BY <1>5 DEF r

(* Quotient and rest are unique.                                           *)
LEMMA RestUnique ==
    ASSUME NEW d \in Nat \ {0}, NEW p \in Nat, NEW q \in Nat,
           NEW r \in 0..(d - 1), NEW s \in 0..(d - 1), (p * d) + r = (q * d) + s
    PROVE  p = q /\ r = s
<1>1. (p - q) * d = s - r
  BY SMT
<1>2. CASE p - q >= 1
  <2>1. (p - q) * d >= d
    BY <1>2, SMT
  <2> QED BY <1>1, <2>1, SMT
<1>3. CASE q - p >= 1
  <2>1. (q - p) * d >= d
    BY <1>3, SMT
  <2>2. (q - p) * d = r - s
    BY SMT
  <2> QED BY <2>1, <2>2, SMT
<1>4. CASE p = q
  BY <1>4, <1>1, SMT
<1> QED BY <1>2, <1>3, <1>4, SMT

(* The start of a page lies at most a page before the byte.                 *)
LEMMA AlignDown ==
    ASSUME NEW n \in Nat
    PROVE  /\ page_align_down(n) \in Nat /\ page_align_down(n) % PageSize = 0
           /\ n - page_align_down(n) \in 0..(PageSize - 1)
<1>1. PageSize \in Nat \ {0}
  BY WordAssumption, SMT
<1>2. /\ n \div PageSize \in Nat /\ n % PageSize \in 0..(PageSize - 1)
      /\ n = ((n \div PageSize) * PageSize) + (n % PageSize)
  BY <1>1, DivMod
<1>3. page_align_down(n) = (n \div PageSize) * PageSize
  BY DEF page_align_down
<1>4. page_align_down(n) \in Nat
  BY <1>1, <1>2, <1>3, SMT
<1>5. page_align_down(n) % PageSize = 0
  BY <1>1, <1>2, <1>3, Multiple
<1>6. n - page_align_down(n) = n % PageSize
  BY <1>1, <1>2, <1>3, <1>4, SMT
<1> QED BY <1>2, <1>4, <1>5, <1>6

(* Rounding up loses nothing and adds less than a page.                     *)
LEMMA AlignUp ==
    ASSUME NEW n \in Nat
    PROVE  /\ page_align_up(n) \in Nat /\ page_align_up(n) % PageSize = 0
           /\ n <= page_align_up(n) /\ page_align_up(n) <= n + (PageSize - 1)
<1>1. PageSize \in Nat \ {0}
  BY WordAssumption, SMT
<1> DEFINE m == n + (PageSize - 1)
<1>2. m \in Nat
  BY <1>1, SMT
<1>3. /\ page_align_down(m) \in Nat /\ page_align_down(m) % PageSize = 0
      /\ m - page_align_down(m) \in 0..(PageSize - 1)
  BY <1>2, AlignDown
<1>4. page_align_up(n) = page_align_down(m)
  BY DEF page_align_up
<1>5. m = n + (PageSize - 1)
  OBVIOUS
<1> HIDE DEF m
<1> QED BY <1>1, <1>2, <1>3, <1>4, <1>5, SMT

(* map_physmem of physmap_memtest: whatever offset and size the user gives, *)
(* the window consists of whole pages, begins at or before the first byte   *)
(* of the access and ends behind the last one, and none of the sums that    *)
(* lead to it has overflowed.                                              *)
THEOREM WindowCovers ==
    ASSUME NEW offset \in Word, NEW size \in Word, NEW w \in Window(offset, size)
    PROVE  /\ w.first \in Nat /\ w.length \in Word /\ w.position \in Nat
           /\ w.first % PageSize = 0 /\ w.length % PageSize = 0
           /\ w.first + w.position = offset
           /\ w.position + size <= w.length
<1>1. PageSize \in Nat \ {0} /\ MaxWord \in Nat /\ offset \in Nat /\ size \in Nat
  BY WordAssumption, SMT DEF Word
<1> DEFINE first    == page_align_down(offset)
           position == offset - first
           span     == position + size
<1>2. /\ first \in Nat /\ first % PageSize = 0 /\ position \in 0..(PageSize - 1)
  BY <1>1, AlignDown
<1>3. span \in Nat
  BY <1>1, <1>2, SMT
<1>4. /\ page_align_up(span) \in Nat /\ page_align_up(span) % PageSize = 0
      /\ span <= page_align_up(span) /\ page_align_up(span) <= span + (PageSize - 1)
  BY <1>3, AlignUp
<1>5. /\ w = [first |-> first, length |-> page_align_up(span), position |-> position]
      /\ ~AddOverflows(span, PageSize - 1)
  BY DEF Window
<1>6. w.first = first /\ w.length = page_align_up(span) /\ w.position = position
  BY <1>5
<1>7. span + (PageSize - 1) <= MaxWord
  BY <1>1, <1>3, <1>5, SMT DEF AddOverflows
<1>8. first + position = offset /\ position + size = span
  BY <1>1, <1>2, SMT
<1> HIDE DEF first, position, span
<1>9. page_align_up(span) \in Word
  BY <1>1, <1>3, <1>4, <1>7, SMT DEF Word
<1>10. position \in Nat
  BY <1>1, <1>2, SMT
<1> QED BY <1>2, <1>4, <1>6, <1>8, <1>9, <1>10

(* map_physmem of physmap_mc_memtest_v2p: the access lies in the device.    *)
THEOREM WholeDeviceCovers ==
    ASSUME NEW device_size \in Word, NEW offset \in Word, NEW size \in Word,
           NEW w \in WholeDevice(device_size, offset, size)
    PROVE  /\ w.first = 0 /\ w.length = device_size /\ w.position = offset
           /\ w.position + size <= w.length
<1>1. /\ w = [first |-> 0, length |-> device_size, position |-> offset]
      /\ offset <= device_size /\ size <= device_size - offset
  BY WordAssumption, SMT DEF WholeDevice, Word
<1>2. w.first = 0 /\ w.length = device_size /\ w.position = offset
  BY <1>1
<1>3. offset + size <= device_size
  BY <1>1, WordAssumption, SMT DEF Word
<1> QED BY <1>2, <1>3

(* physmap_data_get_unmapped_area: the address that it returns is aligned   *)
(* and the mapping ends inside the room that the kernel has found, also     *)
(* where the sums wrap.                                                    *)
THEOREM UnmappedAreaInside ==
    ASSUME NEW len \in Word, NEW area \in Word, NEW place \in UnmappedArea(len, area)
    PROVE  /\ place.room = area /\ place.room_end = area + SearchLength(len)
           /\ place.va \in Word /\ place.va % VaAlign = 0
           /\ area <= place.va /\ place.va + len <= place.room_end
<1>1. /\ VaAlign \in Nat \ {0} /\ MaxWord + 1 \in Nat \ {0} /\ MaxWord \in Nat
      /\ (MaxWord + 1) % VaAlign = 0 /\ area \in Nat /\ len \in Nat
  BY WordAssumption, SMT DEF Word
<1> DEFINE k    == (area + (VaAlign - 1)) \div VaAlign
           word == MaxWord + 1
           va   == (k * VaAlign) % word
<1>2. va = AlignVa(area)
  BY DEF AlignVa, Wrapped
<1>3. k \in Nat
  <2>1. area + (VaAlign - 1) \in Nat
    BY <1>1, SMT
  <2> QED BY <1>1, <2>1, DivMod
<1>4. va \in 0..(word - 1) /\ k * VaAlign = (((k * VaAlign) \div word) * word) + va
  <2>1. k * VaAlign \in Nat
    BY <1>1, <1>3, SMT
  <2> QED BY <1>1, <2>1, DivMod
<1>5. va % VaAlign = 0
  <2> DEFINE q == (k * VaAlign) \div word
             m == word \div VaAlign
  <2>1. m \in Nat /\ word = m * VaAlign
    <3>1. word = (m * VaAlign) + (word % VaAlign)
      BY <1>1, DivMod
    <3>2. m \in Nat
      BY <1>1, DivMod
    <3>3. word \in Nat /\ word % VaAlign = 0
      BY <1>1
    <3> HIDE DEF m, word
    <3> QED BY <3>1, <3>2, <3>3, <1>1, SMT
  <2>2. q \in Nat
    <3>1. k * VaAlign \in Nat
      BY <1>1, <1>3, SMT
    <3> QED BY <1>1, <3>1, DivMod
  <2>3. k * VaAlign = (q * word) + va /\ va \in Nat /\ word \in Nat
    BY <1>1, <1>4, SMT
  <2> HIDE DEF q, m, k, word, va
  <2>4. va = (k - (q * m)) * VaAlign
    <3>1. k * VaAlign = (q * (m * VaAlign)) + va
      BY <2>1, <2>3
    <3> QED BY <3>1, <2>1, <2>2, <2>3, <1>1, <1>3, SMT
  <2>5. k - (q * m) \in Nat
    <3>1. CASE k - (q * m) <= 0 - 1
      <4>1. (k - (q * m)) * VaAlign <= 0 - VaAlign
        BY <3>1, <1>1, <1>3, <2>1, <2>2, SMT
      <4> QED BY <4>1, <2>3, <2>4, <1>1, SMT
    <3> QED BY <3>1, <1>3, <2>1, <2>2, SMT
  <2> QED BY <2>4, <2>5, <1>1, Multiple
<1> HIDE DEF k, word, va
<1>6. /\ place = [va |-> va, room |-> area, room_end |-> area + SearchLength(len)]
      /\ ~(va < area) /\ ~(va > Wrapped(area + SearchLength(len) - len))
  BY <1>2 DEF UnmappedArea
<1>7. place.va = va /\ place.room = area /\ place.room_end = area + SearchLength(len)
  BY <1>6
<1>8. word = MaxWord + 1
  BY DEF word
<1>9. va \in Nat /\ va \in Word
  BY <1>1, <1>4, <1>8, SMT DEF Word
<1>10. Wrapped(area + SearchLength(len) - len) <= area + VaAlign
  <2> DEFINE n == area + VaAlign
  <2>1. n \in Nat /\ area + SearchLength(len) - len = n
    BY <1>1, SMT DEF SearchLength
  <2>2. /\ n \div (MaxWord + 1) \in Nat /\ n % (MaxWord + 1) \in 0..MaxWord
        /\ n = ((n \div (MaxWord + 1)) * (MaxWord + 1)) + (n % (MaxWord + 1))
    <3>1. MaxWord = (MaxWord + 1) - 1
      BY <1>1, SMT
    <3> QED BY <1>1, <2>1, <3>1, DivMod
  <2>3. n % (MaxWord + 1) <= n
    BY <1>1, <2>1, <2>2, SMT
  <2> QED BY <2>1, <2>3 DEF Wrapped
<1>11. Wrapped(area + SearchLength(len) - len) \in Nat
  BY <1>1, SMT DEF Wrapped, SearchLength
<1>12. area <= va /\ va + len <= area + SearchLength(len)
  BY <1>1, <1>6, <1>9, <1>10, <1>11, SMT DEF SearchLength
<1> QED BY <1>5, <1>7, <1>9, <1>12

(* launch_sm_copy starts at least one thread and at most as many as its     *)
(* limits allow.                                                           *)
LEMMA TotalBounds ==
    ASSUME NEW size \in Word
    PROVE  Total(size) \in Nat \ {0} /\ Total(size) <= MaxBlocks * Threads
<1>1. Blocks(size) \in 1..MaxBlocks
  <2> DEFINE n      == Wrapped(size + (Threads - 1)) \div Threads
             blocks == Truncated(n)
  <2>1. Wrapped(size + (Threads - 1)) \in Nat
    BY WordAssumption, LaunchAssumption, SMT DEF Wrapped, Word
  <2>2. n \in Nat
    BY <2>1, LaunchAssumption, DivMod
  <2>3. blocks \in Nat
    BY <2>2, LaunchAssumption, SMT DEF Truncated
  <2>4. Blocks(size) = IF blocks = 0 THEN 1 ELSE IF blocks > MaxBlocks THEN MaxBlocks ELSE blocks
    BY DEF Blocks
  <2> HIDE DEF n, blocks
  <2> QED BY <2>3, <2>4, LaunchAssumption, SMT
<1>2. Blocks(size) * Threads \in Nat \ {0} /\ Blocks(size) * Threads <= MaxBlocks * Threads
  BY <1>1, LaunchAssumption, SMT
<1> QED BY <1>2 DEF Total

(* sm_copy_kernel of the C and MUSA sources: every byte of every transfer is *)
(* copied by exactly one thread.                                           *)
THEOREM StrideOnce ==
    ASSUME NEW size \in Word, NEW byte \in 0..(size - 1)
    PROVE  \E tid \in 0..(Total(size) - 1) : \A other \in 0..(Total(size) - 1) :
               (byte \in Stride(other, Total(size), size)) <=> (other = tid)
<1> DEFINE total == Total(size)
           tid   == byte % total
           turn  == byte \div total
<1>1. total \in Nat \ {0}
  BY TotalBounds
<1>2. byte \in Nat
  BY WordAssumption, SMT DEF Word
<1>3. turn \in Nat /\ tid \in 0..(total - 1) /\ byte = (turn * total) + tid
  BY <1>1, <1>2, DivMod
<1> HIDE DEF total, tid, turn
<1>4. ASSUME NEW other \in 0..(total - 1)
      PROVE  (byte \in Stride(other, total, size)) <=> (other = tid)
  <2>1. (byte \in Stride(other, total, size)) <=> (byte >= other /\ (byte - other) % total = 0)
    BY DEF Stride
  <2>2. ASSUME other = tid
        PROVE  byte >= other /\ (byte - other) % total = 0
    <3>1. byte - other = turn * total
      BY <1>1, <1>2, <1>3, <2>2, SMT
    <3>2. turn * total \in Nat
      BY <1>1, <1>3, SMT
    <3>3. (turn * total) % total = 0
      BY <1>1, <1>3, Multiple
    <3>4. byte >= other
      BY <1>1, <1>2, <3>1, <3>2, SMT
    <3> QED BY <3>1, <3>3, <3>4
  <2>3. ASSUME byte >= other, (byte - other) % total = 0
        PROVE  other = tid
    <3> DEFINE n == byte - other
               round == n \div total
    <3>1. n \in Nat /\ other \in Nat
      BY <1>1, <1>2, <2>3, SMT
    <3>2. round \in Nat /\ n = (round * total) + (n % total)
      BY <1>1, <3>1, DivMod
    <3>3. n % total = 0 /\ byte = n + other
      BY <1>1, <1>2, <2>3, SMT
    <3> HIDE DEF n, round
    <3>4. (round * total) + other = (turn * total) + tid
      BY <1>1, <1>3, <3>1, <3>2, <3>3, SMT
    <3>5. round \in Nat /\ turn \in Nat /\ tid \in 0..(total - 1)
      BY <1>3, <3>2
    <3>6. \A a, b \in Nat : \A r, s \in 0..(total - 1) :
              (a * total) + r = (b * total) + s => r = s
      BY <1>1, RestUnique
    <3> QED BY <3>4, <3>5, <3>6
  <2> QED BY <2>1, <2>2, <2>3
<1>5. \E t \in 0..(total - 1) : \A other \in 0..(total - 1) :
          (byte \in Stride(other, total, size)) <=> (other = t)
  BY <1>3, <1>4
<1> QED BY <1>5 DEF total

(* sm_copy_kernel of the CUDA source: the same, for a transfer that is at   *)
(* least one grid of threads shorter than the largest word; beyond that the *)
(* sums of the kernel wrap.                                                *)
THEOREM ChunkOnce ==
    ASSUME NEW size \in Word, NEW byte \in 0..(size - 1),
           size + (MaxBlocks * Threads) <= MaxWord
    PROVE  \E tid \in 0..(Total(size) - 1) : \A other \in 0..(Total(size) - 1) :
               (byte \in Chunk(other, Total(size), size)) <=> (other = tid)
<1> DEFINE total == Total(size)
           m     == size + (total - 1)
           c     == m \div total
           tid   == byte \div c
<1>1. total \in Nat \ {0} /\ size + total <= MaxWord /\ byte \in Nat /\ size \in Nat
      /\ MaxWord \in Nat /\ byte <= size - 1
  BY TotalBounds, WordAssumption, LaunchAssumption, SMT DEF Word
<1>2. m \in Nat /\ m <= MaxWord
  BY <1>1, SMT
<1>3. ChunkSize(total, size) = c
  <2>1. Wrapped(m) = m
    BY <1>1, <1>2, SMT DEF Wrapped
  <2> QED BY <2>1 DEF ChunkSize
<1>4. c \in Nat /\ m % total \in 0..(total - 1) /\ m = (c * total) + (m % total)
  BY <1>1, <1>2, DivMod
<1>5. m = size + (total - 1)
  OBVIOUS
<1> HIDE DEF total, m, c
<1>6. size <= c * total /\ c * total <= m /\ c * total \in Nat
  BY <1>1, <1>2, <1>4, <1>5, SMT
<1>7. c \in Nat \ {0}
  <2>1. c # 0
    BY <1>1, <1>4, <1>6, SMT
  <2> QED BY <1>4, <2>1
<1>8. tid \in Nat /\ byte % c \in 0..(c - 1) /\ byte = (tid * c) + (byte % c)
  BY <1>1, <1>7, DivMod
<1> HIDE DEF tid
<1>9. tid \in 0..(total - 1)
  <2>1. CASE tid >= total
    <3>1. tid * c >= total * c
      BY <1>1, <1>7, <1>8, <2>1, SMT
    <3>2. total * c = c * total
      BY <1>1, <1>7, SMT
    <3> QED BY <1>1, <1>6, <1>7, <1>8, <3>1, <3>2, SMT
  <2> QED BY <1>1, <1>8, <2>1, SMT
<1>10. ASSUME NEW other \in 0..(total - 1)
       PROVE  (byte \in Chunk(other, total, size)) <=> (other = tid)
  <2> DEFINE start == other * c
  <2>1. other \in Nat /\ start \in Nat /\ start + c <= c * total
    <3>1. other \in Nat /\ other + 1 <= total
      BY <1>1, SMT
    <3>2. (other + 1) * c <= total * c
      BY <1>1, <1>7, <3>1, SMT
    <3>3. (other + 1) * c = start + c /\ total * c = c * total /\ start \in Nat
      BY <1>1, <1>7, <3>1, SMT
    <3> QED BY <1>6, <3>1, <3>2, <3>3
  <2>2. Wrapped(other * c) = start /\ Wrapped(start + c) = start + c
    <3>1. start <= MaxWord /\ start + c <= MaxWord
      BY <1>1, <1>2, <1>6, <1>7, <2>1, SMT
    <3>2. start = other * c
      OBVIOUS
    <3> HIDE DEF start
    <3> QED BY <1>1, <1>7, <2>1, <3>1, <3>2, SMT DEF Wrapped
  <2>3. (byte \in Chunk(other, total, size)) <=> (start <= byte /\ byte < start + c)
    BY <1>3, <2>2 DEF Chunk
  <2>4. ASSUME other = tid PROVE start <= byte /\ byte < start + c
    <3>1. start = tid * c
      BY <2>4
    <3> HIDE DEF start
    <3> QED BY <1>1, <1>7, <1>8, <2>1, <3>1, SMT
  <2>5. ASSUME start <= byte, byte < start + c PROVE other = tid
    <3> DEFINE r == byte - start
    <3>1. start = other * c
      OBVIOUS
    <3> HIDE DEF start
    <3>2. r \in 0..(c - 1) /\ byte = start + r
      BY <1>1, <1>7, <2>1, <2>5, SMT
    <3> HIDE DEF r
    <3>3. (other * c) + r = (tid * c) + (byte % c)
      BY <1>8, <3>1, <3>2
    <3> QED BY <1>7, <1>8, <2>1, <3>2, <3>3, RestUnique
  <2> HIDE DEF start
  <2> QED BY <2>3, <2>4, <2>5
<1>11. \E t \in 0..(total - 1) : \A other \in 0..(total - 1) :
           (byte \in Chunk(other, total, size)) <=> (other = t)
  BY <1>9, <1>10
<1> QED BY <1>11 DEF total

-----------------------------------------------------------------------------
(* The invariant of a tool.                                                *)
Beginning == {"idle", "resolve", "open"}
Opened    == {"map", "attach", "verify", "alloc", "copy", "measure", "free", "wait", "hold",
              "pause", "asleep", "detach", "unmap", "close"}
InMapping == Opened \ {"map", "close"}
Holding   == {"hold", "pause", "asleep"}
Working   == {"alloc", "copy", "measure", "free"}

TableInv == table \in [Ids -> Regions \cup {Null}]

StageInv ==
    /\ stage \in Beginning \cup Opened \cup {"ended"}
    /\ stage # "idle" => options \in CommandLines
    /\ stage \in Beginning \cup {"ended"} => held = {} /\ file = Null
    /\ stage \in Beginning \cup {"map", "attach"} => kmd = Null
    /\ stage # "ended" => outcome = Null
    /\ (stage = "ended" /\ outcome = "success") => kmd = Null
    /\ stage \in {"verify", "wait"} => Tool \in V2pTools
    /\ stage \in Holding => Tool = "register_mm"
    /\ stage = "measure" => Tool \in Bandwidth
    /\ stage \in {"resolve", "open"} => options.backing = "file"
    /\ stage \in {"attach", "detach"} => options.backing # "malloc_host"

HoldsInv == stage \in Opened =>
    /\ held \subseteq {"fd", "mapping", "registration", "buffer"}
    /\ options.backing = "file" => "fd" \in held /\ file \in Regions
    /\ "mapping" \in held <=> stage \in InMapping
    /\ "registration" \in held <=>
          /\ stage \in Working \cup Holding \cup {"detach"}
          /\ Tool \notin V2pTools /\ options.backing # "malloc_host"
    /\ "buffer" \in held <=> stage \in {"copy", "measure", "free"}
    /\ kmd # Null <=> Tool \in V2pTools /\ stage \in Working \cup {"verify", "wait", "detach"}
    /\ kmd # Null =>
          kmd = [phys_addr |-> entry.region.phys_addr, length |-> entry.region.size]

EntryInv ==
    (stage \in Opened \cup {"open"} /\ options.backing = "file") =>
        /\ entry.id \in Ids
        /\ Tool \in V2pTools => entry.region \in Regions
        /\ Tool = "bwtest_v2p" => ~RangeExceeds(entry.region.size, options.offset, options.size)

WindowInv == stage \in InMapping =>
    /\ window.first \in Nat /\ window.length \in Nat /\ window.position \in Nat
    /\ window.position + options.size <= window.length
    /\ window.room <= window.va /\ window.va + window.length <= window.room_end
    /\ options.backing = "file" =>
          /\ window.first + window.position = options.offset
          /\ window.first + window.length <= file.size
          /\ window.va % VaAlign = 0
    /\ Tool \in V2pTools => window.first = 0 /\ window.length = entry.region.size

(* The region is the one that the command line names, and for a V2P tool    *)
(* the one whose range it has been told.                                   *)
Named(region) ==
    /\ options.device \in Identifiers => region.identifier = options.device
    /\ Tool \in V2pTools => region = entry.region

Tied == options.device \in Identifiers \/ Tool \in V2pTools

NameInv ==
    /\ (stage = "open" /\ ~replaced /\ Tied) => table[entry.id] # Null /\ Named(table[entry.id])
    /\ (stage \in Opened /\ file # Null /\ ~replaced) => Named(file)

IInv == TableInv /\ StageInv /\ HoldsInv /\ EntryInv /\ WindowInv /\ NameInv

-----------------------------------------------------------------------------
(* What the parsers of numbers return is a machine word.                    *)
LEMMA Numbers == Checked \subseteq Word /\ Unchecked \subseteq Word /\ SizesInMiB \subseteq Word
<1>1. ASSUME NEW n \in Nat PROVE Wrapped(n) \in Word
  BY WordAssumption, SMT DEF Wrapped, Word
<1>2. ASSUME NEW base \in Word, NEW scale \in Suffixes
      PROVE  base \in Nat /\ scale \in Nat \ {0} /\ base * scale \in Nat
  <2>1. base \in Nat /\ scale \in Nat \ {0}
    BY WordAssumption, RegionAssumption, SMT DEF Word
  <2> QED BY <2>1, SMT
<1>3. ASSUME NEW base \in Word, NEW scale \in Suffixes
      PROVE  parse_u64_arg(base, scale) \subseteq Word
  <2>1. CASE base > MaxWord \div scale
    BY <2>1 DEF parse_u64_arg
  <2>2. CASE ~(base > MaxWord \div scale)
    <3> DEFINE k == MaxWord \div scale
               r == MaxWord % scale
    <3>1. MaxWord \in Nat
      BY WordAssumption
    <3>2. k \in Nat /\ r \in 0..(scale - 1) /\ MaxWord = (k * scale) + r
      BY <1>2, <3>1, DivMod
    <3>3. base <= k
      BY <1>2, <2>2, <3>2, SMT
    <3> HIDE DEF k, r
    <3>4. base * scale <= k * scale
      BY <1>2, <3>2, <3>3, SMT
    <3>5. r \in Nat /\ k * scale \in Nat
      BY <1>2, <3>2, SMT
    <3>6. base * scale \in Word
      BY <1>2, <3>1, <3>2, <3>4, <3>5, SMT DEF Word
    <3> QED BY <2>2, <3>6 DEF parse_u64_arg
  <2> QED BY <2>1, <2>2
<1>4. Checked \subseteq Word
  BY <1>3 DEF Checked
<1>5. Unchecked \subseteq Word
  BY <1>1, <1>2 DEF Unchecked, parse_size_value
<1>6. ASSUME NEW size \in Word PROVE size * MiB \in Nat
  BY WordAssumption, SMT DEF Word
<1>7. SizesInMiB \subseteq Word
  BY <1>1, <1>5, <1>6 DEF SizesInMiB
<1> QED BY <1>4, <1>5, <1>7

(* What parse_args lets through: the memory tests and the V2P tools have a  *)
(* device, and only the bandwidth test takes memory of mcMallocHost.        *)
LEMMA CommandLine ==
    ASSUME NEW o \in CommandLines
    PROVE  /\ o.offset \in Word /\ o.size \in Word /\ o.device \in Devices
           /\ o.tool \in V2pTools \cup {"memtest", "mc_memtest"} => o.backing = "file"
           /\ o.backing = "malloc_host" => o.tool = "bwtest"
<1> DEFINE Good(c) ==
           /\ c.offset \in Word /\ c.size \in Word /\ c.device \in Devices
           /\ c.tool \in V2pTools \cup {"memtest", "mc_memtest"} => c.backing = "file"
           /\ c.backing = "malloc_host" => c.tool = "bwtest"
<1>1. ASSUME NEW c \in MemtestOptions PROVE Good(c) /\ c.backing = "file" /\ c.tool = "memtest"
  BY <1>1, Numbers, RegionAssumption DEF MemtestOptions
<1>2. ASSUME NEW c \in McMemtestOptions PROVE Good(c)
  <2>1. PICK m \in MemtestOptions : c = [m EXCEPT !.tool = "mc_memtest"]
    BY DEF McMemtestOptions
  <2>2. /\ c.offset = m.offset /\ c.size = m.size /\ c.device = m.device
        /\ c.backing = m.backing /\ c.tool = "mc_memtest"
    BY <2>1 DEF MemtestOptions
  <2> QED BY <1>1, <2>2
<1>3. ASSUME NEW c \in V2pMemtestOptions PROVE Good(c)
  <2>1. PICK m \in MemtestOptions : c = [m EXCEPT !.tool = "memtest_v2p"]
    BY DEF V2pMemtestOptions
  <2>2. /\ c.offset = m.offset /\ c.size = m.size /\ c.device = m.device
        /\ c.backing = m.backing /\ c.tool = "memtest_v2p"
    BY <2>1 DEF MemtestOptions
  <2> QED BY <1>1, <2>2
<1>4. ASSUME NEW c \in BwtestOptions PROVE Good(c)
  BY Numbers DEF BwtestOptions, Devices, V2pTools
<1>5. ASSUME NEW c \in BwtestV2pOptions PROVE Good(c)
  BY Numbers DEF BwtestV2pOptions, Devices
<1>6. ASSUME NEW c \in RegisterOptions PROVE Good(c)
  BY Numbers DEF RegisterOptions, Devices, V2pTools
<1> QED BY <1>1, <1>2, <1>3, <1>4, <1>5, <1>6 DEF CommandLines

-----------------------------------------------------------------------------
Inside  == <<table, replaced, options, entry, file, window>>
StepIn  == stage \in Opened /\ stage' \in Opened /\ (stage' \in InMapping => stage \in InMapping)

(* A call between two stages of an open tool that maps and opens nothing.   *)
LEMMA InsideStep ==
    ASSUME IInv, UNCHANGED Inside, StepIn
    PROVE  TableInv' /\ EntryInv' /\ WindowInv' /\ NameInv'
<1> USE DEF IInv, Inside, StepIn
<1>1. TableInv'
  BY DEF TableInv
<1>2. EntryInv'
  BY DEF EntryInv, Tool
<1>3. WindowInv'
  BY DEF WindowInv, Tool
<1>4. NameInv'
  BY DEF NameInv, Named, Tool, Opened
<1> QED BY <1>1, <1>2, <1>3, <1>4

(* The end of the process, whoever ends it.                                *)
LEMMA ExitStep ==
    ASSUME IInv, stage # "idle", NEW how \in {"failure", "killed"}, Exit(how)
    PROVE  IInv'
<1> USE DEF Exit, ToolGoto
<1>1. TableInv'
  BY DEF IInv, TableInv
<1>2. StageInv'
  BY DEF IInv, StageInv, Beginning, Opened, Holding
<1>3. HoldsInv' /\ EntryInv' /\ WindowInv' /\ NameInv'
  BY DEF HoldsInv, EntryInv, WindowInv, NameInv, Opened, InMapping
<1> QED BY <1>1, <1>2, <1>3 DEF IInv

LEMMA InitStep == ASSUME ToolInit PROVE IInv
<1> USE DEF ToolInit
<1>1. TableInv
  BY DEF TableInv
<1>2. StageInv
  BY DEF StageInv, Beginning, Opened, Holding
<1>3. HoldsInv /\ EntryInv /\ WindowInv /\ NameInv
  BY DEF HoldsInv, EntryInv, WindowInv, NameInv, Opened, InMapping
<1> QED BY <1>1, <1>2, <1>3 DEF IInv

LEMMA StartStep == ASSUME IInv, StartTool PROVE IInv'
<1>1. options' \in CommandLines /\ stage = "idle"
      /\ stage' = (IF options'.backing = "file" THEN "resolve" ELSE "map")
      /\ UNCHANGED <<table, replaced, entry, file, window, held, kmd, stop, outcome>>
  BY DEF StartTool, ToolGoto
<1>2. held = {} /\ file = Null /\ kmd = Null /\ outcome = Null
  BY <1>1 DEF IInv, StageInv, Beginning
<1>3. TableInv'
  BY <1>1 DEF IInv, TableInv
<1>4. StageInv'
  BY <1>1, <1>2 DEF StageInv, Beginning, Opened, Holding
<1>5. HoldsInv'
  BY <1>1, <1>2 DEF HoldsInv, Opened, InMapping, Working, Holding
<1>6. EntryInv' /\ WindowInv'
  BY <1>1 DEF EntryInv, WindowInv, Opened, InMapping
<1>7. NameInv'
  BY <1>1, <1>2 DEF NameInv
<1> QED BY <1>3, <1>4, <1>5, <1>6, <1>7 DEF IInv

(* CreateMapping takes a free number, which no tool counts on; a mapping    *)
(* that is destroyed before a tool has opened it is noted in `replaced`.   *)
LEMMA AdministrateStep == ASSUME IInv, Administrate PROVE IInv'
<1>1. /\ UNCHANGED <<options, stage, entry, file, window, held, kmd, stop, outcome>>
      /\ TableInv'
      /\ (~replaced' => ~replaced)
      /\ (stage = "open" /\ ~replaced') => \A id \in Ids : table[id] # Null => table'[id] = table[id]
  <2>1. CASE \E id \in Ids : DestroyMapping(id)
    BY <2>1 DEF IInv, TableInv, DestroyMapping
  <2>2. CASE \E id \in Ids, region \in Regions : CreateMapping(id, region)
    BY <2>2 DEF IInv, TableInv, CreateMapping
  <2> QED BY <2>1, <2>2 DEF Administrate
<1>2. StageInv' /\ HoldsInv' /\ EntryInv' /\ WindowInv'
  BY <1>1 DEF IInv, StageInv, HoldsInv, EntryInv, WindowInv, Tool
<1>3. NameInv'
  <2>1. ASSUME stage = "open", ~replaced', Tied
        PROVE  table'[entry.id] # Null /\ Named(table'[entry.id])
    <3>1. entry.id \in Ids
      BY <2>1 DEF IInv, EntryInv, StageInv
    <3>2. table[entry.id] # Null /\ Named(table[entry.id])
      BY <1>1, <2>1 DEF IInv, NameInv
    <3>3. table'[entry.id] = table[entry.id]
      BY <1>1, <2>1, <3>1, <3>2
    <3> QED BY <3>2, <3>3
  <2>2. ASSUME stage \in Opened, file # Null, ~replaced'
        PROVE  Named(file)
    BY <1>1, <2>2 DEF IInv, NameInv
  <2> QED BY <1>1, <2>1, <2>2 DEF NameInv, Named, Tied, Tool
<1> QED BY <1>1, <1>2, <1>3 DEF IInv

LEMMA ResolveStep == ASSUME IInv, Resolve PROVE IInv'
<1>1. /\ stage = "resolve" /\ stage' = "open"
      /\ UNCHANGED <<table, replaced, options, file, window, held, kmd, stop, outcome>>
  BY DEF Resolve, ResolveDevPath, ResolveDeviceInfo, ToolGoto
<1>2. options \in CommandLines /\ options.backing = "file" /\ TableInv
      /\ held = {} /\ file = Null /\ kmd = Null /\ outcome = Null
  BY <1>1 DEF IInv, StageInv, Beginning
<1>3. PICK id \in Ids, region \in Regions \cup {Null} :
          /\ entry' = [id |-> id, region |-> region]
          /\ Tool \in V2pTools => region \in Regions /\ region = table[id]
          /\ Tool = "bwtest_v2p" => ~RangeExceeds(region.size, options.offset, options.size)
          /\ options.device \in Identifiers => id \in Listed(options.device)
  <2>1. CASE ResolveDevPath
    <3>1. PICK id \in (IF options.device \in Ids THEN {options.device} ELSE Listed(options.device)) :
              entry' = [id |-> id, region |-> Null]
      BY <2>1 DEF ResolveDevPath
    <3>2. id \in Ids /\ (options.device \in Identifiers => id \in Listed(options.device))
      BY <3>1, RegionAssumption DEF Listed, Mapped
    <3>3. Tool \notin V2pTools /\ Tool # "bwtest_v2p"
      BY <2>1 DEF ResolveDevPath, V2pTools
    <3> QED BY <3>1, <3>2, <3>3
  <2>2. CASE ResolveDeviceInfo
    <3>1. PICK id \in Listed(options.device) :
              /\ entry' = [id |-> id, region |-> table[id]]
              /\ Tool = "bwtest_v2p" =>
                    ~RangeExceeds(table[id].size, options.offset, options.size)
      BY <2>2 DEF ResolveDeviceInfo
    <3>2. id \in Ids /\ table[id] \in Regions
      BY <1>2 DEF Listed, Mapped, TableInv
    <3> QED BY <3>1, <3>2
  <2> QED BY <1>1, <2>1, <2>2 DEF Resolve
<1>4. TableInv'
  BY <1>1, <1>2 DEF TableInv
<1>5. StageInv'
  BY <1>1, <1>2 DEF StageInv, Beginning, Opened, Holding
<1>6. HoldsInv' /\ WindowInv'
  BY <1>1 DEF HoldsInv, WindowInv, Opened, InMapping
<1>7. EntryInv'
  BY <1>1, <1>3 DEF EntryInv, Tool
<1>8. NameInv'
  <2>1. ASSUME options.device \in Identifiers
        PROVE  table[id] # Null /\ table[id].identifier = options.device
    <3>1. id \in Listed(options.device) /\ id # options.device
      BY <1>3, <2>1, RegionAssumption
    <3> QED BY <3>1 DEF Listed, Mapped
  <2>2. Tool \in V2pTools => table[id] # Null /\ table[id] = region
    BY <1>3, RegionAssumption
  <2>3. entry'.id = id /\ entry'.region = region
    BY <1>3
  <2> QED BY <1>1, <2>1, <2>2, <2>3 DEF NameInv, Named, Tied, Tool, Opened
<1> QED BY <1>4, <1>5, <1>6, <1>7, <1>8 DEF IInv

LEMMA OpenStep == ASSUME IInv, OpenDevice PROVE IInv'
<1>1. /\ stage = "open" /\ stage' = "map"
      /\ table[entry.id] # Null /\ file' = table[entry.id] /\ held' = {"fd"}
      /\ UNCHANGED <<table, replaced, options, entry, window, kmd, stop, outcome>>
  BY DEF OpenDevice, ToolGoto
<1>2. options \in CommandLines /\ options.backing = "file" /\ TableInv
      /\ kmd = Null /\ outcome = Null /\ entry.id \in Ids
  BY <1>1 DEF IInv, StageInv, EntryInv, Beginning
<1>3. TableInv'
  BY <1>1, <1>2 DEF TableInv
<1>4. StageInv'
  BY <1>1, <1>2 DEF StageInv, Beginning, Opened, Holding
<1>5. HoldsInv'
  <2>1. file' \in Regions
    BY <1>1, <1>2 DEF TableInv
  <2> QED BY <1>1, <1>2, <2>1 DEF HoldsInv, InMapping, Working, Holding
<1>6. EntryInv' /\ WindowInv'
  BY <1>1 DEF IInv, EntryInv, WindowInv, InMapping, Tool
<1>7. NameInv'
  <2>1. ~replaced /\ Tied => Named(table[entry.id])
    BY <1>1 DEF IInv, NameInv
  <2>2. ~Tied => Named(table[entry.id])
    BY DEF Tied, Named
  <2> QED BY <1>1, <2>1, <2>2 DEF NameInv, Named, Tool
<1> QED BY <1>3, <1>4, <1>5, <1>6, <1>7 DEF IInv

(* Every window that a tool asks for holds the bytes that it will access.   *)
LEMMA WindowsCover ==
    ASSUME IInv, stage = "map", NEW w \in Windows
    PROVE  /\ w.first \in Nat /\ w.length \in Nat /\ w.position \in Nat
           /\ w.position + options.size <= w.length
           /\ options.backing = "file" => w.first + w.position = options.offset
           /\ Tool \in V2pTools => w.first = 0 /\ w.length = entry.region.size
<1>1. options \in CommandLines
  BY DEF IInv, StageInv
<1>2. options.offset \in Word /\ options.size \in Word
      /\ (Tool \in V2pTools => options.backing = "file")
  BY <1>1, CommandLine DEF Tool
<1>3. options.offset \in Nat /\ options.size \in Nat
  BY <1>2, WordAssumption, SMT DEF Word
<1>4. Tool \in V2pTools => entry.region.size \in Word
  BY <1>2, RegionAssumption DEF IInv, EntryInv, Opened, Region
<1>5. CASE Tool \in {"memtest", "mc_memtest"}
  <2>1. w \in Window(options.offset, options.size)
    BY <1>5 DEF Windows
  <2>2. w.length \in Nat
    BY <1>2, <2>1, WindowCovers, WordAssumption DEF Word
  <2> QED BY <1>2, <1>5, <2>1, <2>2, WindowCovers DEF V2pTools
<1>6. CASE Tool = "memtest_v2p"
  <2>1. w \in WholeDevice(entry.region.size, options.offset, options.size)
    BY <1>6 DEF Windows
  <2>2. entry.region.size \in Nat /\ entry.region.size \in Word
    BY <1>4, <1>6, WordAssumption DEF V2pTools, Word
  <2>3. w.first = 0 /\ w.length = entry.region.size /\ w.position = options.offset
        /\ w.position + options.size <= w.length
    BY <1>2, <2>1, <2>2, WholeDeviceCovers
  <2> QED BY <1>3, <2>2, <2>3, SMT
<1>7. CASE Tool = "bwtest_v2p"
  <2>1. w = [first |-> 0, length |-> entry.region.size, position |-> options.offset]
    BY <1>7 DEF Windows
  <2>2. entry.region.size \in Nat
    BY <1>4, <1>7, WordAssumption DEF V2pTools, Word
  <2>3. ~RangeExceeds(entry.region.size, options.offset, options.size)
    BY <1>2, <1>7 DEF IInv, EntryInv, Opened, V2pTools
  <2>4. options.offset + options.size <= entry.region.size
    BY <1>3, <2>2, <2>3, SMT DEF RangeExceeds
  <2>5. w.first = 0 /\ w.length = entry.region.size /\ w.position = options.offset
    BY <2>1
  <2> QED BY <1>3, <2>2, <2>4, <2>5, SMT
<1>8. CASE Tool \notin V2pTools \cup {"memtest", "mc_memtest"}
  <2>1. w = [first |-> options.offset, length |-> page_align_up(options.size), position |-> 0]
    BY <1>8 DEF Windows, V2pTools
  <2>2. page_align_up(options.size) \in Nat /\ options.size <= page_align_up(options.size)
    BY <1>3, AlignUp
  <2>3. w.first = options.offset /\ w.length = page_align_up(options.size) /\ w.position = 0
    BY <2>1
  <2> QED BY <1>3, <1>8, <2>2, <2>3, SMT
<1> QED BY <1>5, <1>6, <1>7, <1>8 DEF V2pTools

(* What both ways to a mapping have in common.                             *)
LEMMA MappingStep ==
    ASSUME IInv, stage = "map", WindowInv',
           stage' = IF options.backing = "malloc_host" THEN "alloc" ELSE "attach",
           held' = held \cup {"mapping"},
           UNCHANGED <<table, replaced, options, entry, file, kmd, stop, outcome>>
    PROVE  IInv'
<1>1. options \in CommandLines /\ kmd = Null /\ outcome = Null
  BY DEF IInv, StageInv
<1>2. options.backing = "malloc_host" => Tool = "bwtest"
  BY <1>1, CommandLine DEF Tool
<1>3. TableInv' /\ EntryInv'
  BY DEF IInv, TableInv, EntryInv, Opened, Tool
<1>4. StageInv'
  BY <1>1, <1>2 DEF StageInv, Beginning, Opened, Holding, Tool
<1>5. HoldsInv'
  BY <1>1, <1>2 DEF IInv, HoldsInv, Opened, InMapping, Working, Holding, V2pTools, Tool
<1>6. NameInv'
  BY DEF IInv, NameInv, Named, Opened, Tool
<1> QED BY <1>3, <1>4, <1>5, <1>6 DEF IInv

LEMMA MapStep == ASSUME IInv, MapDevice PROVE IInv'
<1>0. PICK w \in Windows, area \in FreeAreas :
          /\ DriverAccepts(file, w)
          /\ \E place \in UnmappedArea(w.length, area) : window' = At(w, place)
  BY DEF MapDevice
<1>1. PICK place \in UnmappedArea(w.length, area) :
          DriverAccepts(file, w) /\ window' = At(w, place)
  BY <1>0
<1>2. /\ stage = "map" /\ stage' = "attach" /\ options.backing = "file"
      /\ held' = held \cup {"mapping"}
      /\ UNCHANGED <<table, replaced, options, entry, file, kmd, stop, outcome>>
  BY DEF MapDevice, ToolGoto
<1>3. /\ w.first \in Nat /\ w.length \in Nat /\ w.position \in Nat
      /\ w.position + options.size <= w.length
      /\ w.first + w.position = options.offset
      /\ Tool \in V2pTools => w.first = 0 /\ w.length = entry.region.size
  BY <1>2, WindowsCover
<1>4. file.size \in Nat /\ file.size <= MaxWord /\ MaxWord \in Nat
  <2>1. file.size \in Word
    BY <1>2, RegionAssumption DEF IInv, HoldsInv, Opened, Region
  <2> QED BY <2>1, WordAssumption, SMT DEF Word
<1>5. w.first + w.length <= file.size /\ w.length \in Word
  BY <1>1, <1>3, <1>4, SMT DEF DriverAccepts, Word
<1>6. /\ place.room <= place.va /\ place.va + w.length <= place.room_end
      /\ place.va % VaAlign = 0
  <2>1. area \in Word
    BY RegionAssumption
  <2> QED BY <1>1, <1>5, <2>1, UnmappedAreaInside
<1>7. /\ window'.first = w.first /\ window'.length = w.length /\ window'.position = w.position
      /\ window'.va = place.va /\ window'.room = place.room /\ window'.room_end = place.room_end
  BY <1>1 DEF At
<1>8. WindowInv'
  BY <1>2, <1>3, <1>5, <1>6, <1>7 DEF WindowInv, Tool
<1> QED BY <1>2, <1>8, MappingStep

LEMMA AllocStep == ASSUME IInv, AllocMemory PROVE IInv'
<1>1. PICK w \in Windows, area \in FreeAreas :
          window' = At(w, [va |-> area, room |-> area, room_end |-> area + w.length])
  BY DEF AllocMemory
<1>2. /\ stage = "map" /\ options.backing # "file"
      /\ stage' = (IF options.backing = "malloc_host" THEN "alloc" ELSE "attach")
      /\ held' = held \cup {"mapping"}
      /\ UNCHANGED <<table, replaced, options, entry, file, kmd, stop, outcome>>
  BY DEF AllocMemory, ToolGoto
<1>3. /\ w.first \in Nat /\ w.length \in Nat /\ w.position \in Nat
      /\ w.position + options.size <= w.length
      /\ Tool \in V2pTools => w.first = 0 /\ w.length = entry.region.size
  BY <1>2, WindowsCover
<1>4. area \in Nat
  BY RegionAssumption, WordAssumption, SMT DEF Word
<1>5. /\ window'.first = w.first /\ window'.length = w.length /\ window'.position = w.position
      /\ window'.va = area /\ window'.room = area /\ window'.room_end = area + w.length
  BY <1>1 DEF At
<1>6. area <= area /\ area + w.length <= area + w.length
  BY <1>3, <1>4, SMT
<1>7. WindowInv'
  BY <1>2, <1>3, <1>5, <1>6 DEF WindowInv, Tool
<1> QED BY <1>2, <1>7, MappingStep

(* The calls between two stages: what each takes and gives back is what     *)
(* HoldsInv says of the stage that follows.                                *)
LEMMA CallsStep ==
    ASSUME IInv,
           \/ HostRegister \/ VaPaMap \/ VaToPa \/ CpuAccess \/ AllocBuffer \/ GpuAccess
           \/ Validate \/ Measure \/ TestStop \/ Pause \/ FreeBuffer \/ WaitForUnregister
           \/ Detach \/ UnmapMemory
    PROVE  IInv'
<1>0. StageInv /\ HoldsInv /\ (options.backing = "malloc_host" => Tool = "bwtest")
      /\ (stage \in Opened => (Tool \in V2pTools => options.backing = "file"))
  <2>1. stage \in Opened => options \in CommandLines
    BY DEF IInv, StageInv, Opened
  <2>2. stage \in Opened
    BY DEF HostRegister, VaPaMap, VaToPa, CpuAccess, AllocBuffer, GpuAccess, Validate, Measure,
           TestStop, Pause, FreeBuffer, WaitForUnregister, Detach, UnmapMemory, Opened
  <2> QED BY <2>1, <2>2, CommandLine DEF IInv, Tool
<1> USE <1>0 DEF Inside, StepIn, Opened, InMapping, ToolGoto, Tool
<1>1. CASE HostRegister
  <2>1. UNCHANGED Inside /\ StepIn
    BY <1>1 DEF HostRegister, Attached
  <2>2. StageInv'
    BY <1>1 DEF HostRegister, Attached, StageInv, Beginning, Holding, V2pTools, Bandwidth
  <2>3. HoldsInv'
    BY <1>1 DEF HostRegister, Attached, HoldsInv, StageInv, Working, Holding, V2pTools, Bandwidth
  <2> QED BY <2>1, <2>2, <2>3, InsideStep DEF IInv
<1>2. CASE VaPaMap
  <2>1. UNCHANGED Inside /\ StepIn
    BY <1>2 DEF VaPaMap
  <2>2. StageInv'
    BY <1>2 DEF VaPaMap, StageInv, Beginning, Holding, V2pTools, Bandwidth
  <2>4. entry.region \in Regions
    BY <1>2 DEF VaPaMap, IInv, EntryInv
  <2>5. kmd' # Null
    BY <1>2, <2>4, RegionAssumption DEF VaPaMap, Region
  <2>3. HoldsInv'
    BY <1>2, <2>5 DEF VaPaMap, HoldsInv, StageInv, Working, Holding, V2pTools, Bandwidth
  <2> QED BY <2>1, <2>2, <2>3, InsideStep DEF IInv
<1>3. CASE VaToPa
  <2>1. UNCHANGED Inside /\ StepIn
    BY <1>3 DEF VaToPa
  <2>2. StageInv'
    BY <1>3 DEF VaToPa, StageInv, Beginning, Holding, V2pTools, Bandwidth
  <2>3. HoldsInv'
    BY <1>3 DEF VaToPa, HoldsInv, StageInv, Working, Holding, V2pTools, Bandwidth
  <2> QED BY <2>1, <2>2, <2>3, InsideStep DEF IInv
<1>4. CASE CpuAccess
  <2>1. UNCHANGED Inside /\ StepIn
    BY <1>4 DEF CpuAccess
  <2>2. StageInv'
    BY <1>4 DEF CpuAccess, StageInv, Beginning, Holding, V2pTools, Bandwidth
  <2>3. HoldsInv'
    BY <1>4 DEF CpuAccess, HoldsInv, StageInv, Working, Holding, V2pTools, Bandwidth
  <2> QED BY <2>1, <2>2, <2>3, InsideStep DEF IInv
<1>5. CASE AllocBuffer
  <2>1. UNCHANGED Inside /\ StepIn
    BY <1>5 DEF AllocBuffer
  <2>2. StageInv'
    BY <1>5 DEF AllocBuffer, StageInv, Beginning, Holding, V2pTools, Bandwidth
  <2>3. HoldsInv'
    BY <1>5 DEF AllocBuffer, HoldsInv, StageInv, Working, Holding, V2pTools, Bandwidth
  <2> QED BY <2>1, <2>2, <2>3, InsideStep DEF IInv
<1>6. CASE GpuAccess
  <2>1. UNCHANGED Inside /\ StepIn
    BY <1>6 DEF GpuAccess
  <2>2. StageInv'
    BY <1>6 DEF GpuAccess, StageInv, Beginning, Holding, V2pTools, Bandwidth
  <2>3. HoldsInv'
    BY <1>6 DEF GpuAccess, HoldsInv, StageInv, Working, Holding, V2pTools, Bandwidth
  <2> QED BY <2>1, <2>2, <2>3, InsideStep DEF IInv
<1>7. CASE Validate
  <2>1. UNCHANGED Inside /\ StepIn
    BY <1>7 DEF Validate
  <2>2. StageInv'
    BY <1>7 DEF Validate, StageInv, Beginning, Holding, V2pTools, Bandwidth
  <2>3. HoldsInv'
    BY <1>7 DEF Validate, HoldsInv, StageInv, Working, Holding, V2pTools, Bandwidth
  <2> QED BY <2>1, <2>2, <2>3, InsideStep DEF IInv
<1>8. CASE Measure
  <2>1. UNCHANGED Inside /\ StepIn
    BY <1>8 DEF Measure
  <2>2. StageInv'
    BY <1>8 DEF Measure, StageInv, Beginning, Holding, V2pTools, Bandwidth
  <2>3. HoldsInv'
    BY <1>8 DEF Measure, HoldsInv, StageInv, Working, Holding, V2pTools, Bandwidth
  <2> QED BY <2>1, <2>2, <2>3, InsideStep DEF IInv
<1>9. CASE TestStop
  <2>1. UNCHANGED Inside /\ StepIn
    BY <1>9 DEF TestStop
  <2>2. StageInv'
    BY <1>9 DEF TestStop, StageInv, Beginning, Holding, V2pTools, Bandwidth
  <2>3. HoldsInv'
    BY <1>9 DEF TestStop, HoldsInv, StageInv, Working, Holding, V2pTools, Bandwidth
  <2> QED BY <2>1, <2>2, <2>3, InsideStep DEF IInv
<1>10. CASE Pause
  <2>1. UNCHANGED Inside /\ StepIn
    BY <1>10 DEF Pause
  <2>2. StageInv'
    BY <1>10 DEF Pause, StageInv, Beginning, Holding, V2pTools, Bandwidth
  <2>3. HoldsInv'
    BY <1>10 DEF Pause, HoldsInv, StageInv, Working, Holding, V2pTools, Bandwidth
  <2> QED BY <2>1, <2>2, <2>3, InsideStep DEF IInv
<1>11. CASE FreeBuffer
  <2>1. UNCHANGED Inside /\ StepIn
    BY <1>11 DEF FreeBuffer
  <2>2. StageInv'
    BY <1>11 DEF FreeBuffer, StageInv, Beginning, Holding, V2pTools, Bandwidth
  <2>3. HoldsInv'
    BY <1>11 DEF FreeBuffer, HoldsInv, StageInv, Working, Holding, V2pTools, Bandwidth
  <2> QED BY <2>1, <2>2, <2>3, InsideStep DEF IInv
<1>12. CASE WaitForUnregister
  <2>1. UNCHANGED Inside /\ StepIn
    BY <1>12 DEF WaitForUnregister
  <2>2. StageInv'
    BY <1>12 DEF WaitForUnregister, StageInv, Beginning, Holding, V2pTools, Bandwidth
  <2>3. HoldsInv'
    BY <1>12 DEF WaitForUnregister, HoldsInv, StageInv, Working, Holding, V2pTools, Bandwidth
  <2> QED BY <2>1, <2>2, <2>3, InsideStep DEF IInv
<1>13. CASE Detach
  <2>1. UNCHANGED Inside /\ StepIn
    BY <1>13 DEF Detach
  <2>2. StageInv'
    BY <1>13 DEF Detach, StageInv, Beginning, Holding, V2pTools, Bandwidth
  <2>3. HoldsInv'
    BY <1>13 DEF Detach, HoldsInv, StageInv, Working, Holding, V2pTools, Bandwidth
  <2> QED BY <2>1, <2>2, <2>3, InsideStep DEF IInv
<1>14. CASE UnmapMemory
  <2>1. UNCHANGED Inside /\ StepIn
    BY <1>14 DEF UnmapMemory
  <2>2. StageInv'
    BY <1>14 DEF UnmapMemory, StageInv, Beginning, Holding, V2pTools, Bandwidth
  <2>3. HoldsInv'
    BY <1>14 DEF UnmapMemory, HoldsInv, StageInv, Working, Holding, V2pTools, Bandwidth
  <2> QED BY <2>1, <2>2, <2>3, InsideStep DEF IInv
<1> QED BY <1>1, <1>2, <1>3, <1>4, <1>5, <1>6, <1>7, <1>8, <1>9, <1>10, <1>11, <1>12, <1>13, <1>14

(* close and the return from main: by then the mapping is given back.       *)
LEMMA CloseStep == ASSUME IInv, CloseDevice PROVE IInv'
<1>1. /\ stage = "close" /\ stage' = "ended" /\ outcome' = "success"
      /\ held' = held \ {"fd"} /\ file' = Null
      /\ UNCHANGED <<table, replaced, options, entry, window, kmd, stop>>
  BY DEF CloseDevice, ToolGoto
<1>2. options \in CommandLines /\ held \subseteq {"fd"} /\ kmd = Null
  BY <1>1 DEF IInv, StageInv, HoldsInv, Opened, InMapping, Working, Holding
<1>3. TableInv'
  BY <1>1 DEF IInv, TableInv
<1>4. StageInv'
  BY <1>1, <1>2 DEF StageInv, Beginning, Opened, Holding
<1>5. HoldsInv' /\ EntryInv' /\ WindowInv' /\ NameInv'
  BY <1>1 DEF HoldsInv, EntryInv, WindowInv, NameInv, Opened, InMapping
<1> QED BY <1>3, <1>4, <1>5 DEF IInv

(* A VA to PA mapping that does not check out ends the process, with or     *)
(* without its mapping.                                                    *)
LEMMA VerifyFailsStep == ASSUME IInv, VerifyFails PROVE IInv'
<1>1. /\ stage = "verify" /\ stage' = "ended" /\ outcome' = "failure"
      /\ held' = {} /\ file' = Null
      /\ UNCHANGED <<table, replaced, options, entry, window, stop>>
  BY DEF VerifyFails, ToolGoto
<1>2. TableInv'
  BY <1>1 DEF IInv, TableInv
<1>3. StageInv'
  BY <1>1 DEF IInv, StageInv, Beginning, Opened, Holding
<1>4. HoldsInv' /\ EntryInv' /\ WindowInv' /\ NameInv'
  BY <1>1 DEF HoldsInv, EntryInv, WindowInv, NameInv, Opened, InMapping
<1> QED BY <1>2, <1>3, <1>4 DEF IInv

(* A handler only sets stop_requested and wakes a sleep in pause.           *)
LEMMA SignalStep == ASSUME IInv, Signal PROVE IInv'
<1>1. CASE ~Handles
  <2>1. stage # "idle" /\ Exit("killed")
    BY <1>1 DEF Signal
  <2> QED BY <2>1, ExitStep
<1>2. CASE Handles /\ stage # "asleep"
  <2>1. UNCHANGED <<table, replaced, options, stage, entry, file, window, held, kmd, outcome>>
    BY <1>2 DEF Signal, ToolGoto
  <2> QED BY <2>1 DEF IInv, TableInv, StageInv, HoldsInv, EntryInv, WindowInv, NameInv, Named,
                      Tied, Tool
<1>3. CASE Handles /\ stage = "asleep"
  <2>1. /\ stage' = "hold"
        /\ UNCHANGED <<table, replaced, options, entry, file, window, held, kmd, outcome>>
    BY <1>3 DEF Signal, ToolGoto
  <2>2. TableInv' /\ EntryInv' /\ WindowInv' /\ NameInv'
    BY <1>3, <2>1, InsideStep DEF Inside, StepIn, Opened, InMapping
  <2>3. StageInv'
    BY <1>3, <2>1 DEF IInv, StageInv, Beginning, Opened, Holding, Tool
  <2>4. HoldsInv'
    BY <1>3, <2>1 DEF IInv, HoldsInv, Opened, InMapping, Working, Holding, Tool
  <2> QED BY <2>2, <2>3, <2>4 DEF IInv
<1> QED BY <1>1, <1>2, <1>3

(* IInv is inductive.                                                      *)
THEOREM ToolInvariant == ToolSpec => []IInv
<1>1. ToolInit => IInv
  BY InitStep
<1>2. ASSUME IInv, [ToolNext]_toolVars PROVE IInv'
  <2>1. CASE UNCHANGED toolVars
    BY <1>2, <2>1 DEF toolVars, IInv, TableInv, StageInv, HoldsInv, EntryInv, WindowInv, NameInv,
                      Named, Tied, Tool
  <2>2. CASE StartTool
    BY <1>2, <2>2, StartStep
  <2>3. CASE Resolve
    BY <1>2, <2>3, ResolveStep
  <2>4. CASE OpenDevice
    BY <1>2, <2>4, OpenStep
  <2>5. CASE MapDevice
    BY <1>2, <2>5, MapStep
  <2>6. CASE AllocMemory
    BY <1>2, <2>6, AllocStep
  <2>7. CASE \/ HostRegister \/ VaPaMap \/ VaToPa \/ CpuAccess \/ AllocBuffer \/ GpuAccess
             \/ Validate \/ Measure \/ TestStop \/ Pause \/ FreeBuffer \/ WaitForUnregister
             \/ Detach \/ UnmapMemory
    BY <1>2, <2>7, CallsStep
  <2>8. CASE CloseDevice
    BY <1>2, <2>8, CloseStep
  <2>9. CASE VerifyFails
    BY <1>2, <2>9, VerifyFailsStep
  <2>10. CASE ToolFails \/ Kill
    <3>1. stage # "idle" /\ (Exit("failure") \/ Exit("killed"))
      BY <2>10 DEF ToolFails, Kill
    <3> QED BY <1>2, <3>1, ExitStep
  <2>11. CASE Signal
    BY <1>2, <2>11, SignalStep
  <2>12. CASE Administrate
    BY <1>2, <2>12, AdministrateStep
  <2> QED BY <1>2, <2>1, <2>2, <2>3, <2>4, <2>5, <2>6, <2>7, <2>8, <2>9, <2>10, <2>11, <2>12
          DEF ToolNext, RunTool
<1> QED BY <1>1, <1>2, PTL DEF ToolSpec

-----------------------------------------------------------------------------
(* The types of what a tool holds.  The invariant knows where a window lies *)
(* and that a tool holds nothing outside its stages; the types add that all *)
(* addresses are machine words.                                            *)
WindowTyped ==
    window = Null \/ window \in [first : Word, length : Word, position : Word, va : Word,
                                room : Word, room_end : 0..(MaxWord + 1)]

EntryTyped == entry \in [id : Ids, region : Regions \cup {Null}] \cup {Null}

KmdTyped == kmd = Null \/ kmd \in [phys_addr : Word, length : Word]

EndTyped ==
    /\ outcome \in {Null, "success", "failure", "killed"}
    /\ (stage = "ended") <=> (outcome # Null)

(* The parts of the types that most steps leave alone.                     *)
NamesTyped ==
    /\ options \in CommandLines \cup {Null} /\ EntryTyped /\ file \in Regions \cup {Null}
    /\ WindowTyped

FlagsTyped == stop \in BOOLEAN /\ replaced \in BOOLEAN

PartsTyped == NamesTyped /\ KmdTyped /\ FlagsTyped /\ EndTyped

(* The table and what is held are typed by the invariant.                   *)
LEMMA TypesByInvariant ==
    ASSUME IInv
    PROVE  ToolTypeOK <=> NamesTyped /\ KmdTyped /\ FlagsTyped /\ EndTyped
<1>1. table \in [Ids -> Regions \cup {Null}]
  BY DEF IInv, TableInv
<1>2. held \subseteq {"fd", "mapping", "registration", "buffer"}
  <2>1. CASE stage \in Opened
    BY <2>1 DEF IInv, HoldsInv
  <2>2. CASE stage \in Beginning \cup {"ended"}
    BY <2>2 DEF IInv, StageInv
  <2> QED BY <2>1, <2>2 DEF IInv, StageInv
<1> QED BY <1>1, <1>2
       DEF ToolTypeOK, NamesTyped, EntryTyped, WindowTyped, KmdTyped, FlagsTyped, EndTyped

(* What a tool asks mmap for fits a word: the sums of map_physmem have been *)
(* checked, and mmap refuses a length that its rounding takes to the end.   *)
LEMMA WindowsAreWords ==
    ASSUME IInv, stage = "map", NEW w \in Windows
    PROVE  w.first \in Word /\ w.length \in Word /\ w.position \in Word
<1>1. options \in CommandLines
  BY DEF IInv, StageInv
<1>2. /\ options.offset \in Word /\ options.size \in Word
      /\ Tool \in V2pTools \cup {"memtest", "mc_memtest"} => options.backing = "file"
  BY <1>1, CommandLine DEF Tool
<1>3. MaxWord \in Nat /\ 0 \in Word
  BY WordAssumption, SMT DEF Word
<1>4. Tool \in V2pTools => entry.region.size \in Word
  BY <1>2, RegionAssumption DEF IInv, EntryInv, Opened, Region
<1>5. CASE Tool \in {"memtest", "mc_memtest"}
  <2>1. w \in Window(options.offset, options.size)
    BY <1>5 DEF Windows
  <2>2. /\ w.first \in Nat /\ w.length \in Word /\ w.position \in Nat
        /\ w.first + w.position = options.offset
    BY <1>2, <2>1, WindowCovers
  <2> QED BY <1>2, <1>3, <2>2, SMT DEF Word
<1>6. CASE Tool = "memtest_v2p"
  <2>1. w \in WholeDevice(entry.region.size, options.offset, options.size)
    BY <1>6 DEF Windows
  <2>2. w.first = 0 /\ w.length = entry.region.size /\ w.position = options.offset
    BY <1>2, <1>4, <1>6, <2>1, WholeDeviceCovers DEF V2pTools
  <2> QED BY <1>2, <1>3, <1>4, <1>6, <2>2 DEF V2pTools
<1>7. CASE Tool = "bwtest_v2p"
  <2>1. w = [first |-> 0, length |-> entry.region.size, position |-> options.offset]
    BY <1>7 DEF Windows
  <2> QED BY <1>2, <1>3, <1>4, <1>7, <2>1 DEF V2pTools
<1>8. CASE Tool \notin V2pTools \cup {"memtest", "mc_memtest"}
  <2>1. /\ w = [first |-> options.offset, length |-> page_align_up(options.size), position |-> 0]
        /\ w.length \in Word
    BY <1>8 DEF Windows, V2pTools
  <2> QED BY <1>2, <1>3, <2>1
<1> QED BY <1>5, <1>6, <1>7, <1>8 DEF V2pTools

LEMMA MapTyped == ASSUME IInv, MapDevice PROVE WindowTyped'
<1>1. PICK w \in Windows, area \in FreeAreas :
          /\ DriverAccepts(file, w)
          /\ \E place \in UnmappedArea(w.length, area) :
                place.room_end <= MaxWord + 1 /\ window' = At(w, place)
  BY DEF MapDevice
<1>2. PICK place \in UnmappedArea(w.length, area) :
          place.room_end <= MaxWord + 1 /\ window' = At(w, place)
  BY <1>1
<1>3. stage = "map"
  BY DEF MapDevice
<1>4. w.first \in Word /\ w.length \in Word /\ w.position \in Word
  BY <1>3, WindowsAreWords
<1>5. area \in Word
  BY RegionAssumption
<1>6. place.va \in Word /\ place.room = area /\ place.room_end = area + SearchLength(w.length)
  BY <1>4, <1>5, UnmappedAreaInside
<1>7. place.room_end \in 0..(MaxWord + 1)
  BY <1>2, <1>4, <1>5, <1>6, WordAssumption, SMT DEF SearchLength, Word
<1> QED BY <1>2, <1>4, <1>5, <1>6, <1>7 DEF At, WindowTyped

LEMMA AllocTyped == ASSUME IInv, AllocMemory PROVE WindowTyped'
<1>1. PICK w \in Windows, area \in FreeAreas :
          /\ area + w.length <= MaxWord + 1
          /\ window' = At(w, [va |-> area, room |-> area, room_end |-> area + w.length])
  BY DEF AllocMemory
<1>2. stage = "map"
  BY DEF AllocMemory
<1>3. w.first \in Word /\ w.length \in Word /\ w.position \in Word
  BY <1>2, WindowsAreWords
<1>4. area \in Word
  BY RegionAssumption
<1>5. area + w.length \in 0..(MaxWord + 1)
  BY <1>1, <1>3, <1>4, WordAssumption, SMT DEF Word
<1> QED BY <1>1, <1>3, <1>4, <1>5 DEF At, WindowTyped

(* The types are kept by every step from a state of the invariant.         *)
LEMMA TypesStep ==
    ASSUME IInv, ToolTypeOK, [ToolNext]_toolVars
    PROVE  NamesTyped' /\ KmdTyped' /\ FlagsTyped' /\ EndTyped'
<1>0. NamesTyped /\ KmdTyped /\ FlagsTyped /\ EndTyped
  BY TypesByInvariant
<1>a. /\ Null \notin {"success", "failure", "killed"}
      /\ stage # "ended" => outcome = Null
  BY RegionAssumption DEF IInv, StageInv
<1> DEFINE Same == UNCHANGED <<options, entry, file, window>>
<1>b. ASSUME Same PROVE NamesTyped'
  BY <1>0, <1>b DEF NamesTyped, EntryTyped, WindowTyped
<1>c. ASSUME UNCHANGED <<stop, replaced>> PROVE FlagsTyped'
  BY <1>0, <1>c DEF FlagsTyped
<1>d. ASSUME UNCHANGED kmd PROVE KmdTyped'
  BY <1>0, <1>d DEF KmdTyped
<1>e. ASSUME stage # "ended", stage' # "ended", UNCHANGED outcome PROVE EndTyped'
  BY <1>a, <1>e DEF EndTyped
<1>f. ASSUME NEW how \in {"success", "failure", "killed"}, stage' = "ended", outcome' = how
      PROVE  EndTyped'
  BY <1>a, <1>f DEF EndTyped
<1>1. CASE UNCHANGED toolVars
  <2>1. Same /\ UNCHANGED <<stop, replaced, kmd, stage, outcome>>
    BY <1>1 DEF toolVars
  <2>2. EndTyped'
    BY <1>0, <2>1 DEF EndTyped
  <2> QED BY <2>1, <2>2, <1>b, <1>c, <1>d
<1>2. CASE StartTool
  <2>1. /\ options' \in CommandLines /\ UNCHANGED <<entry, file, window, stop, replaced, kmd, outcome>>
        /\ stage = "idle" /\ stage' \in {"resolve", "map"}
    BY <1>2 DEF StartTool, ToolGoto
  <2>2. NamesTyped'
    BY <1>0, <2>1 DEF NamesTyped, EntryTyped, WindowTyped
  <2> QED BY <2>1, <2>2, <1>c, <1>d, <1>e
<1>3. CASE Resolve
  <2>1. /\ UNCHANGED <<options, file, window, stop, replaced, kmd, outcome>>
        /\ stage = "resolve" /\ stage' = "open"
    BY <1>3 DEF Resolve, ResolveDevPath, ResolveDeviceInfo, ToolGoto
  <2>2. options \in CommandLines
    BY <2>1 DEF IInv, StageInv
  <2>3. EntryTyped'
    <3>1. CASE ResolveDevPath
      <4>1. PICK id \in (IF options.device \in Ids THEN {options.device} ELSE Listed(options.device)) :
                entry' = [id |-> id, region |-> Null]
        BY <3>1 DEF ResolveDevPath
      <4>2. id \in Ids
        BY <4>1 DEF Listed, Mapped
      <4> QED BY <4>1, <4>2 DEF EntryTyped
    <3>2. CASE ResolveDeviceInfo
      <4>1. PICK id \in Listed(options.device) : entry' = [id |-> id, region |-> table[id]]
        BY <3>2 DEF ResolveDeviceInfo
      <4>2. id \in Ids /\ table[id] \in Regions \cup {Null}
        BY <4>1 DEF Listed, Mapped, IInv, TableInv
      <4> QED BY <4>1, <4>2 DEF EntryTyped
    <3> QED BY <1>3, <3>1, <3>2 DEF Resolve
  <2>4. NamesTyped'
    BY <1>0, <2>1, <2>3 DEF NamesTyped, WindowTyped
  <2> QED BY <2>1, <2>4, <1>c, <1>d, <1>e
<1>4. CASE OpenDevice
  <2>1. /\ UNCHANGED <<options, entry, window, stop, replaced, kmd, outcome>>
        /\ stage = "open" /\ stage' = "map"
        /\ table[entry.id] # Null /\ file' = table[entry.id]
    BY <1>4 DEF OpenDevice, ToolGoto
  <2>2. entry.id \in Ids
    BY <2>1 DEF IInv, EntryInv, StageInv
  <2>3. file' \in Regions \cup {Null}
    BY <2>1, <2>2 DEF IInv, TableInv
  <2>4. NamesTyped'
    BY <1>0, <2>1, <2>3 DEF NamesTyped, EntryTyped, WindowTyped
  <2> QED BY <2>1, <2>4, <1>c, <1>d, <1>e
<1>5. CASE MapDevice \/ AllocMemory
  <2>1. /\ UNCHANGED <<options, entry, file, stop, replaced, kmd, outcome>>
        /\ stage = "map" /\ stage' \in {"attach", "alloc"}
    BY <1>5 DEF MapDevice, AllocMemory, ToolGoto
  <2>2. WindowTyped'
    BY <1>5, MapTyped, AllocTyped
  <2>3. NamesTyped'
    BY <1>0, <2>1, <2>2 DEF NamesTyped, EntryTyped
  <2> QED BY <2>1, <2>3, <1>c, <1>d, <1>e
<1>6. CASE VaPaMap
  <2>1. /\ Same /\ UNCHANGED <<stop, replaced, outcome>>
        /\ stage = "attach" /\ stage' = "verify" /\ Tool \in V2pTools
        /\ kmd' = [phys_addr |-> entry.region.phys_addr, length |-> entry.region.size]
    BY <1>6 DEF VaPaMap, ToolGoto
  <2>2. options \in CommandLines
    BY <2>1 DEF IInv, StageInv
  <2>3. options.backing = "file"
    BY <2>1, <2>2, CommandLine DEF Tool
  <2>4. entry.region \in Region
    BY <2>1, <2>3, RegionAssumption DEF IInv, EntryInv, Opened
  <2>5. KmdTyped'
    BY <2>1, <2>4 DEF KmdTyped, Region
  <2> QED BY <2>1, <2>5, <1>b, <1>c, <1>e
<1>7. CASE \/ HostRegister \/ VaToPa \/ CpuAccess \/ AllocBuffer \/ GpuAccess \/ Validate
           \/ Measure \/ TestStop \/ Pause \/ FreeBuffer \/ WaitForUnregister \/ UnmapMemory
  <2>1. Same /\ UNCHANGED <<stop, replaced, kmd, outcome>> /\ stage # "ended" /\ stage' # "ended"
    BY <1>7 DEF HostRegister, VaToPa, CpuAccess, AllocBuffer, GpuAccess, Validate, Measure,
                TestStop, Pause, FreeBuffer, WaitForUnregister, UnmapMemory, ToolGoto, Attached
  <2> QED BY <2>1, <1>b, <1>c, <1>d, <1>e
<1>8. CASE Detach
  <2>1. /\ Same /\ UNCHANGED <<stop, replaced, outcome>> /\ kmd' = Null
        /\ stage = "detach" /\ stage' = "unmap"
    BY <1>8 DEF Detach, ToolGoto
  <2>2. KmdTyped'
    BY <2>1 DEF KmdTyped
  <2> QED BY <2>1, <2>2, <1>b, <1>c, <1>e
<1>9. ASSUME NEW how \in {"failure", "killed"}, Exit(how)
      PROVE  NamesTyped' /\ KmdTyped' /\ FlagsTyped' /\ EndTyped'
  <2>1. /\ UNCHANGED <<options, entry, window, stop, replaced, kmd>> /\ file' = Null
        /\ stage' = "ended" /\ outcome' = how
    BY <1>9 DEF Exit, ToolGoto
  <2>2. NamesTyped'
    BY <1>0, <2>1 DEF NamesTyped, EntryTyped, WindowTyped
  <2> QED BY <2>1, <2>2, <1>c, <1>d, <1>f
<1>10. CASE CloseDevice \/ VerifyFails
  <2>1. /\ UNCHANGED <<options, entry, window, stop, replaced>> /\ file' = Null
        /\ stage' = "ended" /\ outcome' \in {"success", "failure"} /\ kmd' \in {Null, kmd}
    BY <1>10 DEF CloseDevice, VerifyFails, ToolGoto
  <2>2. NamesTyped'
    BY <1>0, <2>1 DEF NamesTyped, EntryTyped, WindowTyped
  <2>3. KmdTyped'
    BY <1>0, <2>1 DEF KmdTyped
  <2> QED BY <2>1, <2>2, <2>3, <1>c, <1>f
<1>11. CASE ToolFails \/ Kill
  BY <1>9, <1>11 DEF ToolFails, Kill
<1>12. CASE Signal
  <2>1. CASE ~Handles
    <3>1. Exit("killed")
      BY <1>12, <2>1 DEF Signal
    <3> QED BY <1>9, <3>1
  <2>2. CASE Handles
    <3>1. /\ Same /\ UNCHANGED <<replaced, kmd, outcome>> /\ stop' = TRUE
          /\ stage # "ended" /\ stage' # "ended"
      BY <1>12, <2>2 DEF Signal, ToolGoto
    <3>2. FlagsTyped'
      BY <1>0, <3>1 DEF FlagsTyped
    <3> QED BY <3>1, <3>2, <1>b, <1>d, <1>e
  <2> QED BY <2>1, <2>2
<1>13. CASE Administrate
  <2>1. /\ Same /\ UNCHANGED <<stop, kmd, stage, outcome>>
        /\ replaced' = replaced \/ replaced' = (replaced \/ stage = "open")
    BY <1>13 DEF Administrate, DestroyMapping, CreateMapping
  <2>2. FlagsTyped'
    BY <1>0, <2>1 DEF FlagsTyped
  <2>3. EndTyped'
    BY <1>0, <2>1 DEF EndTyped
  <2> QED BY <2>1, <2>2, <2>3, <1>b, <1>d
<1> QED BY <1>1, <1>2, <1>3, <1>4, <1>5, <1>6, <1>7, <1>8, <1>10, <1>11, <1>12, <1>13
       DEF ToolNext, RunTool

LEMMA TypesInit == ASSUME ToolInit PROVE ToolTypeOK
<1>1. NamesTyped /\ KmdTyped /\ FlagsTyped /\ EndTyped
  BY DEF ToolInit, NamesTyped, EntryTyped, WindowTyped, KmdTyped, FlagsTyped, EndTyped
<1> QED BY <1>1, InitStep, TypesByInvariant

(* Every variable of the tools keeps its type, whatever the width of a word *)
(* and the sizes on the command line: in particular every window that a    *)
(* tool maps, its address and its length are machine words, and the room    *)
(* that the kernel has found for it ends inside the address space.         *)
THEOREM ToolTyped == ToolSpec => []ToolTypeOK
<1>1. ToolInit => PartsTyped
  BY TypesInit, InitStep, TypesByInvariant DEF PartsTyped
<1>2. ASSUME IInv, PartsTyped, [ToolNext]_toolVars PROVE PartsTyped'
  <2>1. ToolTypeOK
    BY <1>2, TypesByInvariant DEF PartsTyped
  <2> QED BY <1>2, <2>1, TypesStep DEF PartsTyped
<1>3. IInv /\ PartsTyped => ToolTypeOK
  BY TypesByInvariant DEF PartsTyped
<1> QED BY <1>1, <1>2, <1>3, ToolInvariant, PTL DEF ToolSpec

-----------------------------------------------------------------------------
(* What a tool accesses is what its command line asks for, inside the       *)
(* mapping, the region and what the GPU has been given                     *)
(* (map_physmem, main of the tools).                                       *)
THEOREM AccessIsCovered == ToolSpec => []AccessCovered
<1>1. ASSUME IInv PROVE AccessCovered
  <2>1. SUFFICES ASSUME Accessing PROVE AccessCovered
    BY DEF AccessCovered
  <2>2. stage \in InMapping /\ stage \in Opened
    BY <2>1 DEF Accessing, InMapping, Opened
  <2>3. options \in CommandLines
    BY <1>1, <2>2 DEF IInv, StageInv, Opened
  <2>4. /\ window.position + options.size <= window.length
        /\ options.backing = "file" =>
              /\ window.first + window.position = options.offset
              /\ window.first + window.length <= file.size
        /\ Tool \in V2pTools => window.first = 0 /\ window.length = entry.region.size
        /\ window.position \in Nat /\ window.length \in Nat
    BY <1>1, <2>2 DEF IInv, WindowInv
  <2>5. Tool \in V2pTools => options.backing = "file"
    BY <2>3, CommandLine DEF Tool
  <2>6. kmd # Null => Tool \in V2pTools /\ kmd.length = entry.region.size
    BY <1>1, <2>2 DEF IInv, HoldsInv
  <2>7. Tool \in V2pTools => kmd # Null
    BY <1>1, <2>1, <2>2 DEF IInv, HoldsInv, Accessing, Working, V2pTools
  <2>8. kmd # Null => options.offset + options.size <= kmd.length
    <3>1. SUFFICES ASSUME kmd # Null PROVE options.offset + options.size <= kmd.length
      OBVIOUS
    <3>2. window.first = 0 /\ window.length = kmd.length /\ window.first + window.position = options.offset
      BY <2>4, <2>5, <2>6, <3>1
    <3>3. options.offset = window.position
      BY <2>4, <3>2
    <3> QED BY <2>4, <3>2, <3>3
  <2> QED BY <2>4, <2>7, <2>8 DEF AccessCovered
<1> QED BY <1>1, ToolInvariant, PTL

(* physmap_data_get_unmapped_area keeps every mapping of a device inside    *)
(* the room that the kernel has found, at an address that the GPU accepts.  *)
THEOREM MappingInsideRoom == ToolSpec => []MappedInsideRoom
<1>1. ASSUME IInv PROVE MappedInsideRoom
  <2>1. "mapping" \in held => stage \in InMapping
    BY <1>1 DEF IInv, StageInv, HoldsInv, Beginning, InMapping, Opened
  <2> QED BY <1>1, <2>1 DEF IInv, WindowInv, MappedInsideRoom
<1> QED BY <1>1, ToolInvariant, PTL

(* What the tools attach, allocate and map they give back in reverse: the   *)
(* GPU is never attached to memory that is not mapped.                     *)
THEOREM AttachmentInsideMapping == ToolSpec => []AttachedWhileMapped
<1>1. ASSUME IInv PROVE AttachedWhileMapped
  <2>1. SUFFICES ASSUME Running PROVE AttachedWhileMapped
    BY DEF AttachedWhileMapped
  <2>2. CASE stage \in Beginning
    BY <1>1, <2>2 DEF IInv, StageInv, AttachedWhileMapped
  <2>3. CASE stage \in Opened
    <3>1. HoldsInv
      BY <1>1 DEF IInv
    <3> QED BY <2>3, <3>1 DEF HoldsInv, AttachedWhileMapped, Opened, InMapping, Working, Holding
  <2> QED BY <1>1, <2>1, <2>2, <2>3 DEF IInv, StageInv, Running, Beginning
<1> QED BY <1>1, ToolInvariant, PTL

(* A tool that returns from main successfully has given everything back,    *)
(* the VA to PA mapping of the GPU driver included.                        *)
THEOREM SuccessLeavesNothing == ToolSpec => []NothingLeft
<1>1. ASSUME IInv PROVE NothingLeft
  <2>1. outcome = "success" => stage = "ended"
    BY <1>1, RegionAssumption DEF IInv, StageInv
  <2> QED BY <1>1, <2>1 DEF IInv, StageInv, NothingLeft, Beginning
<1> QED BY <1>1, ToolInvariant, PTL

(* resolve_dev_path, resolve_device_info and open: the device that is open   *)
(* is the one named, and the physical range given to the GPU is its, unless *)
(* a mapping was destroyed in between.                                     *)
THEOREM OpenedIsNamed == ToolSpec => []OpensWhatWasNamed
<1>1. ASSUME IInv PROVE OpensWhatWasNamed
  <2>1. SUFFICES ASSUME file # Null, ~replaced PROVE OpensWhatWasNamed
    BY DEF OpensWhatWasNamed
  <2>2. stage \in Opened /\ Named(file)
    BY <1>1, <2>1 DEF IInv, NameInv, StageInv
  <2>3. file \in Regions \/ kmd = Null
    <3>1. kmd # Null => Tool \in V2pTools
      BY <1>1, <2>2 DEF IInv, HoldsInv
    <3>2. options \in CommandLines
      BY <1>1, <2>2 DEF IInv, StageInv, Opened
    <3>3. Tool \in V2pTools => options.backing = "file"
      BY <3>2, CommandLine DEF Tool
    <3> QED BY <1>1, <2>2, <3>1, <3>3 DEF IInv, HoldsInv
  <2>4. kmd # Null => kmd.phys_addr = file.phys_addr + window.first /\ kmd.length = file.size
    <3>1. SUFFICES ASSUME kmd # Null
                   PROVE  kmd.phys_addr = file.phys_addr + window.first /\ kmd.length = file.size
      OBVIOUS
    <3>2. /\ Tool \in V2pTools
          /\ kmd = [phys_addr |-> entry.region.phys_addr, length |-> entry.region.size]
          /\ stage \in InMapping
      BY <1>1, <2>2, <3>1 DEF IInv, HoldsInv, Working, InMapping, Opened
    <3>3. file = entry.region /\ window.first = 0
      BY <1>1, <2>2, <3>2 DEF IInv, WindowInv, Named
    <3>4. file.phys_addr \in Nat
      BY <2>3, <3>1, RegionAssumption, WordAssumption, SMT DEF Region, Word
    <3> QED BY <3>2, <3>3, <3>4, SMT
  <2> QED BY <2>2, <2>4 DEF OpensWhatWasNamed, Named
<1> QED BY <1>1, ToolInvariant, PTL

(* launch_sm_copy and both kernels: each byte of the transfer is copied by  *)
(* exactly one thread, if no region is so large that the kernels' sums wrap. *)
THEOREM EachByteOnce ==
    ASSUME \A r \in Regions : r.size + (MaxBlocks * Threads) <= MaxWord
    PROVE  ToolSpec => []EveryByteOnce
<1>1. ASSUME IInv PROVE EveryByteOnce
  <2>1. SUFFICES ASSUME stage = "measure", Tool = "bwtest_v2p"
                 PROVE  Once(Stride, options.size) /\ Once(Chunk, options.size)
    BY DEF EveryByteOnce
  <2>2. options \in CommandLines /\ HoldsInv /\ EntryInv
    BY <1>1, <2>1 DEF IInv, StageInv
  <2>3. options.size \in Word /\ options.offset \in Word /\ options.backing = "file"
    BY <2>1, <2>2, CommandLine DEF Tool, V2pTools
  <2>4. /\ entry.region \in Regions
        /\ ~RangeExceeds(entry.region.size, options.offset, options.size)
    BY <2>1, <2>2, <2>3 DEF EntryInv, Opened, V2pTools
  <2>5. options.size + (MaxBlocks * Threads) <= MaxWord
    <3>1. entry.region.size \in Nat /\ options.size \in Nat /\ options.offset \in Nat
          /\ options.size <= entry.region.size
      BY <2>3, <2>4, RegionAssumption, WordAssumption, SMT DEF Region, Word, RangeExceeds
    <3>2. MaxBlocks * Threads \in Nat /\ MaxWord \in Nat
      BY LaunchAssumption, WordAssumption, SMT
    <3>3. entry.region.size + (MaxBlocks * Threads) <= MaxWord
      BY <2>4
    <3> DEFINE device_size == entry.region.size
               size        == options.size
               grid        == MaxBlocks * Threads
    <3>4. /\ device_size \in Nat /\ size \in Nat /\ size <= device_size /\ grid \in Nat
          /\ MaxWord \in Nat /\ device_size + grid <= MaxWord
      BY <3>1, <3>2, <3>3
    <3>5. size + grid <= MaxWord
      <4> HIDE DEF device_size, size, grid
      <4> QED BY <3>4, SMT
    <3> QED BY <3>5
  <2>6. Once(Stride, options.size)
    BY <2>3, StrideOnce DEF Once
  <2>7. Once(Chunk, options.size)
    BY <2>3, <2>5, ChunkOnce DEF Once
  <2> QED BY <2>6, <2>7
<1> QED BY <1>1, ToolInvariant, PTL
=============================================================================
