-------------------------------- MODULE GpuFill --------------------------------
(***************************************************************************)
(* mvxi_test, and data_validation, which is the same program: on one GPU   *)
(* after the other, allocate all free memory in ever smaller chunks, fill   *)
(* it with a pattern, wait for the user, read it back and compare.          *)
(***************************************************************************)
EXTENDS ToolArithmetic, Sequences, FiniteSetsExt

CONSTANTS
    GpuCount,           \* mcGetDeviceCount
    FreeBytes,          \* bound: what mcMemGetInfo may say is free
    FillArguments,      \* bound: numbers of --reserve-mib and --min-chunk-mib
    VerifyBytes,        \* VERIFY_CHUNK_BYTES
    FirstCapacity,      \* 64, the first size of the array of allocations
    MaxAllocations      \* bound: how many chunks are allocated

ASSUME FillAssumption ==
    /\ GpuCount \in Nat
    /\ FreeBytes \subseteq Word /\ FillArguments \subseteq Word
    /\ VerifyBytes \in Nat \ {0} /\ FirstCapacity \in Nat \ {0}
    /\ MaxAllocations \in Nat

VARIABLES
    selected,       \* the GPUs that are left to test, the current one first
    min_chunk, reserve_bytes,
    phase,          \* what test_one_gpu does next
    target, chunk,
    allocs,         \* the sizes of the allocations on the current GPU
    capacity,
    resident,       \* GPU -> the bytes of its memory that the process holds
    buffer,         \* the size of the host buffer of verify_allocations
    at,             \* the allocation and the offset to compare next
    rc,             \* of test_one_gpu
    failed,         \* whether main has seen a GPU fail
    exit_status,
    spoiled         \* bytes that have lost the pattern before they are compared

fillVars == <<selected, min_chunk, reserve_bytes, phase, target, chunk, allocs, capacity,
              resident, buffer, at, rc, failed, exit_status, spoiled>>

Gpus == 0..(GpuCount - 1)

FillInit ==
    /\ selected = <<>> /\ min_chunk = 0 /\ reserve_bytes = 0
    /\ phase = "idle"
    /\ target = 0 /\ chunk = 0 /\ allocs = <<>> /\ capacity = 0
    /\ resident = [g \in Gpus |-> 0]
    /\ buffer = 0 /\ at = [allocation |-> 1, offset |-> 0]
    /\ rc = 0 /\ failed = FALSE /\ exit_status = "none" /\ spoiled = {}

Gpu       == Head(selected)
Allocated == SumFunction(allocs)
FillGoto(next) == phase' = next

(* The locals of test_one_gpu are gone.                                    *)
NoLocals ==
    /\ target' = 0 /\ chunk' = 0 /\ allocs' = <<>> /\ capacity' = 0
    /\ buffer' = 0 /\ at' = [allocation |-> 1, offset |-> 0] /\ rc' = 0

(* exit: the process, and with it all its GPU memory, is gone.             *)
FillExit(status) ==
    /\ FillGoto("over")
    /\ exit_status' = status
    /\ resident' = [g \in Gpus |-> 0]
    /\ NoLocals
    /\ UNCHANGED <<selected, min_chunk, reserve_bytes, failed, spoiled>>

-----------------------------------------------------------------------------
(* parse_args and main: one GPU or all; 1 MiB is the least chunk by default *)
(* and in place of 0.  The shift by 20 bits may lose the upper ones.        *)
Bytes(mib) == Wrapped(mib * MiB)

StartFill ==
    /\ phase = "idle"
    /\ selected' \in {<<g>> : g \in Gpus} \cup {[i \in 1..GpuCount |-> i - 1]}
    /\ selected' # <<>>
    /\ \E reserve, least \in FillArguments :
          /\ reserve_bytes' = Bytes(reserve)
          /\ min_chunk' = Bytes(IF least = 0 THEN 1 ELSE least)
    /\ FillGoto("query")
    /\ UNCHANGED <<target, chunk, allocs, capacity, resident, buffer, at, rc, failed,
                   exit_status, spoiled>>

Query ==
    /\ phase = "query"
    /\ \E free \in FreeBytes :
          target' = IF free > reserve_bytes THEN free - reserve_bytes ELSE 0
    /\ chunk' = target'
    /\ FillGoto("fill")
    /\ UNCHANGED <<selected, min_chunk, reserve_bytes, allocs, capacity, resident, buffer, at,
                   rc, failed, exit_status, spoiled>>

-----------------------------------------------------------------------------
(* The loop of test_one_gpu.                                              *)

\* Mutant: only a full target ends the loop
FillingToTheLast == phase = "fill" /\ Allocated < target

Filling == phase = "fill" /\ Allocated < target /\ chunk >= min_chunk

Clipped == Min({chunk, target - Allocated})

(* append_allocation doubles the array when it is full.                    *)
\* Mutant: the array grows once it has overflowed
GrownLate ==
    IF Len(allocs) <= capacity THEN capacity
    ELSE IF capacity = 0 THEN FirstCapacity ELSE 2 * capacity

Grown ==
    IF Len(allocs) # capacity THEN capacity
    ELSE IF capacity = 0 THEN FirstCapacity ELSE 2 * capacity

FillChunk ==
    /\ Filling
    /\ Len(allocs) < MaxAllocations
    /\ chunk' = Clipped
    /\ allocs' = Append(allocs, Clipped)
    /\ capacity' = Grown
    /\ resident' = [resident EXCEPT ![Gpu] = @ + Clipped]
    /\ UNCHANGED <<selected, min_chunk, reserve_bytes, phase, target, buffer, at, rc, failed,
                   exit_status, spoiled>>

MallocFails ==
    /\ Filling
    /\ chunk' = Clipped \div 2
    /\ UNCHANGED <<selected, min_chunk, reserve_bytes, phase, target, allocs, capacity,
                   resident, buffer, at, rc, failed, exit_status, spoiled>>

\* Mutant: the chunk that could not be recorded is not freed
AppendFailsLeaking ==
    /\ Filling
    /\ rc' = 1
    /\ resident' = [resident EXCEPT ![Gpu] = @ + Clipped]
    /\ FillGoto("wait")
    /\ UNCHANGED <<selected, min_chunk, reserve_bytes, target, chunk, allocs, capacity,
                   buffer, at, failed, exit_status, spoiled>>

(* mcMemset fails, or the array cannot grow: the chunk is freed again, and  *)
(* what has been filled is compared all the same.                          *)
AppendFails ==
    /\ Filling
    /\ chunk' = Clipped
    /\ rc' = 1
    /\ FillGoto("wait")
    /\ UNCHANGED <<selected, min_chunk, reserve_bytes, target, allocs, capacity, resident,
                   buffer, at, failed, exit_status, spoiled>>

FillDone ==
    /\ phase = "fill" /\ ~Filling
    /\ FillGoto("wait")
    /\ UNCHANGED <<selected, min_chunk, reserve_bytes, target, chunk, allocs, capacity,
                   resident, buffer, at, rc, failed, exit_status, spoiled>>

-----------------------------------------------------------------------------
(* The defect that the test looks for.                                     *)
Spoil ==
    /\ phase = "wait"
    /\ \E i \in DOMAIN allocs : \E byte \in 0..(allocs[i] - 1) :
          spoiled' = spoiled \cup {[gpu |-> Gpu, allocation |-> i, byte |-> byte]}
    /\ \A s \in spoiled : s.gpu # Gpu
    /\ UNCHANGED <<selected, min_chunk, reserve_bytes, phase, target, chunk, allocs, capacity,
                   resident, buffer, at, rc, failed, exit_status>>

(* verify_allocations: a host buffer of VERIFY_CHUNK_BYTES, or the largest  *)
(* half of a half that malloc gives, down to 1 MiB.                        *)
Halves[n \in Nat] == IF n <= MiB THEN {n} ELSE {n} \cup Halves[n \div 2]

WaitForUser ==
    /\ phase = "wait"
    /\ at' = [allocation |-> 1, offset |-> 0]
    /\ \/ allocs = <<>> /\ FillGoto("release") /\ UNCHANGED <<buffer, rc>>
       \/ allocs # <<>> /\ buffer' \in Halves[VerifyBytes] /\ FillGoto("verify") /\ UNCHANGED rc
       \/ allocs # <<>> /\ rc' = 1 /\ FillGoto("release") /\ UNCHANGED buffer
    /\ UNCHANGED <<selected, min_chunk, reserve_bytes, target, chunk, allocs, capacity,
                   resident, failed, exit_status, spoiled>>

Todo == Min({allocs[at.allocation] - at.offset, buffer})

\* Mutant: only one buffer of each allocation is compared
NextAllocation == [allocation |-> at.allocation + 1, offset |-> 0]

NextPiece ==
    IF at.offset + Todo < allocs[at.allocation]
    THEN [at EXCEPT !.offset = @ + Todo]
    ELSE [allocation |-> at.allocation + 1, offset |-> 0]

Differs == \E s \in spoiled :
    /\ s.gpu = Gpu /\ s.allocation = at.allocation
    /\ at.offset <= s.byte /\ s.byte < at.offset + Todo

VerifyPiece ==
    /\ phase = "verify" /\ at.allocation <= Len(allocs)
    /\ at' = NextPiece
    /\ IF Differs THEN rc' = 1 /\ FillGoto("release") ELSE UNCHANGED <<rc, phase>>
    /\ UNCHANGED <<selected, min_chunk, reserve_bytes, target, chunk, allocs, capacity,
                   resident, buffer, failed, exit_status, spoiled>>

VerifyDone ==
    /\ phase = "verify" /\ at.allocation > Len(allocs)
    /\ FillGoto("release")
    /\ UNCHANGED <<selected, min_chunk, reserve_bytes, target, chunk, allocs, capacity,
                   resident, buffer, at, rc, failed, exit_status, spoiled>>

-----------------------------------------------------------------------------
(* free_allocations, and the loop of main over the GPUs.                   *)
Release ==
    /\ phase = "release"
    /\ resident' = [resident EXCEPT ![Gpu] = @ - Allocated]
    /\ failed' = (failed \/ rc # 0)
    /\ selected' = Tail(selected)
    /\ NoLocals
    /\ FillGoto(IF selected' = <<>> THEN "over" ELSE "query")
    /\ exit_status' = IF selected' # <<>> THEN exit_status
                      ELSE IF failed' THEN "failure" ELSE "success"
    /\ UNCHANGED <<min_chunk, reserve_bytes, spoiled>>

(* CHECK_MC: any other call of the runtime fails, or the user gives up.     *)
FillAborts == phase \notin {"idle", "over"} /\ FillExit("failure")

-----------------------------------------------------------------------------
FillLoop == FillChunk \/ MallocFails \/ AppendFails \/ FillDone

FillNext ==
    \/ StartFill \/ Query \/ FillLoop \/ Spoil \/ WaitForUser
    \/ VerifyPiece \/ VerifyDone \/ Release \/ FillAborts

(* Calls of the runtime return; none of them has to fail for the loop to end. *)
FillFairness == WF_fillVars(FillChunk \/ MallocFails \/ FillDone)

FillSpec == FillInit /\ [][FillNext]_fillVars /\ FillFairness

-----------------------------------------------------------------------------
(* Every variable keeps its type, and the allocations stay inside their     *)
(* array.                                                                  *)
FillTypeOK ==
    /\ selected \in Seq(Gpus)
    /\ {min_chunk, reserve_bytes, target, chunk} \subseteq Word
    /\ allocs \in Seq(Word) /\ Len(allocs) <= capacity
    /\ capacity \in Nat /\ buffer \in Nat
    /\ at.allocation \in Nat /\ at.offset \in Word
    /\ rc \in {0, 1} /\ failed \in BOOLEAN
    /\ exit_status \in {"none", "success", "failure"}
    /\ (phase = "over") <=> (exit_status # "none")

(* The process holds exactly the memory that its array lists, on the        *)
(* current GPU only, and never more than the target: what --reserve-mib     *)
(* sets aside stays free, and no path of an error keeps a chunk.            *)
ResidentListed == \A g \in Gpus :
    IF phase \notin {"idle", "over"} /\ g = Gpu
    THEN resident[g] = Allocated /\ (phase # "query" => resident[g] <= target)
    ELSE resident[g] = 0

(* The program succeeds only when every byte that it has filled, on every   *)
(* GPU, has kept the pattern.                                              *)
SuccessMeansIntact == exit_status = "success" => spoiled = {}

(* The allocation of a GPU's memory comes to an end, whichever sizes        *)
(* mcMalloc refuses, provided the least chunk in bytes is not 0.            *)
FillStops == (phase = "fill" /\ min_chunk > 0) ~> (phase # "fill")
=============================================================================
