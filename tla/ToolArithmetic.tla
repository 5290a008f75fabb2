---------------------------- MODULE ToolArithmetic ----------------------------
(***************************************************************************)
(* The address arithmetic of the physmap tools and of the driver's         *)
(* get_unmapped_area, on machine words.  An operator that may refuse its   *)
(* arguments returns the set of its results: empty when it refuses.        *)
(***************************************************************************)
EXTENDS Naturals

CONSTANTS
    MaxWord,        \* 2^64 - 1: the largest value of a size_t and a uint64_t
    MaxUnsigned,    \* the largest value of an unsigned int
    MiB,            \* 2^20
    PageSize,       \* sysconf(_SC_PAGESIZE)
    VaAlign,        \* PHYSMAP_MMAP_VA_ALIGN
    Threads,        \* SM_COPY_THREADS
    MaxBlocks       \* SM_COPY_MAX_BLOCKS

ASSUME WordAssumption ==
    /\ MaxWord \in Nat
    /\ MiB \in Nat \ {0}
    /\ PageSize \in 1..MaxWord
    /\ VaAlign \in 1..MaxWord
    /\ (MaxWord + 1) % VaAlign = 0

ASSUME LaunchAssumption ==
    /\ MaxUnsigned \in Nat
    /\ Threads \in Nat \ {0}
    /\ MaxBlocks \in Nat \ {0}

Word == 0..MaxWord

(* What a size_t keeps of a number.                                        *)
Wrapped(n) == n % (MaxWord + 1)

AddOverflows(m, n) == m > MaxWord - n

-----------------------------------------------------------------------------
(* Numbers of the command line: digits and the factor of their suffix.      *)

parse_u64_arg(base, scale) ==
    IF base > MaxWord \div scale THEN {} ELSE {base * scale}

parse_size_value(base, scale) == {Wrapped(base * scale)}

-----------------------------------------------------------------------------
(* The part of a device that a tool maps: `first` is the offset of its      *)
(* first byte in the device, `position` where in it the access starts.      *)

page_align_down(n) == (n \div PageSize) * PageSize

page_align_up(n) == page_align_down(n + (PageSize - 1))

\* Mutant: the span to map is the size of the access
WindowOfSize(offset, size) ==
    IF size = 0 \/ AddOverflows(size, PageSize - 1) THEN {}
    ELSE {[first |-> page_align_down(offset), length |-> page_align_up(size),
           position |-> offset - page_align_down(offset)]}

(* map_physmem of physmap_memtest: pages around the bytes asked for.        *)
Window(offset, size) ==
    LET position == offset - page_align_down(offset)
        span     == position + size
    IN  IF \/ size = 0
           \/ AddOverflows(offset, size)
           \/ AddOverflows(position, size)
           \/ AddOverflows(span, PageSize - 1)
        THEN {}
        ELSE {[first |-> page_align_down(offset), length |-> page_align_up(span),
               position |-> position]}

(* map_physmem of physmap_mc_memtest_v2p: the device as LIST has shown it.  *)
WholeDevice(device_size, offset, size) ==
    IF \/ size = 0 \/ device_size = 0
       \/ AddOverflows(offset, size)
       \/ offset > device_size \/ size > device_size - offset
       \/ AddOverflows(device_size, PageSize - 1)
       \/ device_size # page_align_up(device_size)
    THEN {}
    ELSE {[first |-> 0, length |-> device_size, position |-> offset]}

(* main of physmap_mc_bwtest_v2p, before it maps the device.                *)
RangeExceeds(device_size, offset, size) ==
    size > device_size \/ offset > device_size - size

-----------------------------------------------------------------------------
(* physmap_data_get_unmapped_area: where a mapping of len bytes goes, given *)
(* the room that the kernel has found for a longer one.                     *)

SearchLength(len) == len + VaAlign

AlignVa(area) == Wrapped(((area + (VaAlign - 1)) \div VaAlign) * VaAlign)

\* Mutant: the search asks for the length of the mapping only
UnmappedAreaOfLength(len, area) ==
    {[va |-> AlignVa(area), room |-> area, room_end |-> area + len]}

UnmappedArea(len, area) ==
    IF \/ AddOverflows(len, VaAlign)
       \/ AlignVa(area) < area
       \/ AlignVa(area) > Wrapped(area + SearchLength(len) - len)
    THEN {}
    ELSE {[va |-> AlignVa(area), room |-> area, room_end |-> area + SearchLength(len)]}

-----------------------------------------------------------------------------
(* launch_sm_copy and the two kernels: which bytes a thread copies.         *)

Truncated(n) == n % (MaxUnsigned + 1)

Blocks(size) ==
    LET blocks == Truncated(Wrapped(size + (Threads - 1)) \div Threads)
    IN  IF blocks = 0 THEN 1 ELSE IF blocks > MaxBlocks THEN MaxBlocks ELSE blocks

Total(size) == Blocks(size) * Threads

\* Mutant: the stride is that of one block
StrideOfBlock(tid, total, size) == {i \in 0..(size - 1) : i >= tid /\ (i - tid) % Threads = 0}

(* sm_copy_kernel of the C and MUSA sources: every total-th byte.           *)
Stride(tid, total, size) == {i \in 0..(size - 1) : i >= tid /\ (i - tid) % total = 0}

ChunkSize(total, size) == Wrapped(size + (total - 1)) \div total

(* sm_copy_kernel of the CUDA source: a chunk of consecutive bytes.         *)
Chunk(tid, total, size) ==
    LET start == Wrapped(tid * ChunkSize(total, size))
        end   == Wrapped(start + ChunkSize(total, size))
    IN  {i \in 0..(size - 1) : start <= i /\ i < end}
=============================================================================
