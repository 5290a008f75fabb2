----------------------------- MODULE PhysmapTools -----------------------------
(***************************************************************************)
(* The programs that map a physmap device, or other memory, and let the    *)
(* CPU or the GPU access it: physmap_memtest, physmap_mc_memtest,           *)
(* physmap_mc_memtest_v2p, physmap_mc_bwtest, physmap_mc_bwtest_v2p and     *)
(* register_mm.  One of them runs; meanwhile an administrator creates and  *)
(* destroys mappings with physmapctl, and users press Ctrl-C.               *)
(*                                                                         *)
(* All of them walk the same way: name a device, open and map it, attach   *)
(* the GPU to the mapping (mcHostRegister, or a VA to PA mapping of the    *)
(* kernel driver), access it, and give everything back in reverse.  A call *)
(* that fails ends the process; the system then takes back what it held,    *)
(* except the VA to PA mapping, which belongs to no process: its file is    *)
(* closed as soon as it is made.                                           *)
(***************************************************************************)
EXTENDS ToolArithmetic

CONSTANTS
    Ids,            \* the minors of /dev/physmapN
    Identifiers,
    Regions,        \* bound: the mappings that the administrator creates
    Suffixes,       \* the factors of the size suffixes
    U64,            \* sizeof(uint64_t)
    FreeAreas,      \* bound: where the kernel finds free addresses
    Null

Region == [identifier : Identifiers, phys_addr : Word, size : Word \ {0}]

(* What physmap_create_region accepts, but for an identifier that begins    *)
(* with a slash: the tools would take it for a path.                       *)
ASSUME RegionAssumption ==
    /\ Regions \subseteq Region
    /\ \A r \in Regions : r.phys_addr % PageSize = 0 /\ r.size % PageSize = 0
    /\ U64 \in Word \ {0}
    /\ Suffixes \subseteq Nat \ {0}
    /\ FreeAreas \subseteq Word
    /\ Ids \cap Identifiers = {}
    /\ Null \notin Ids /\ Null \notin Regions
    /\ Null \notin [phys_addr : Word, length : Word]
    /\ Null \notin {"success", "failure", "killed"}

VARIABLES
    table,      \* the driver: id -> the mapping behind /dev/physmapN
    options,    \* the tool and its command line
    stage,      \* what the tool does next
    entry,      \* the device as the tool has resolved it
    file,       \* the mapping behind its open file
    window,     \* the part of the device that it has mapped
    held,       \* what it must give back
    kmd,        \* the VA to PA mapping that the kernel's GPU driver has for it
    stop,       \* stop_requested
    outcome,    \* how the tool has ended
    replaced    \* history variable: a mapping was destroyed after the tool had
                \* resolved its device and before it opened it

toolVars == <<table, replaced, options, stage, entry, file, window, held, kmd, stop, outcome>>

V2pTools      == {"memtest_v2p", "bwtest_v2p"}
Bandwidth     == {"bwtest", "bwtest_v2p"}
Stoppable     == Bandwidth \cup {"register_mm"}
Devices       == Ids \cup Identifiers

ToolInit ==
    /\ table = [id \in Ids |-> Null]
    /\ options = Null /\ stage = "idle" /\ entry = Null /\ file = Null
    /\ window = Null /\ held = {} /\ kmd = Null /\ stop = FALSE /\ outcome = Null
    /\ replaced = FALSE

Tool == options.tool

ToolGoto(next) == stage' = next

(* exit or a signal: the system takes back what the process held.          *)
Exit(how) ==
    /\ ToolGoto("ended") /\ outcome' = how
    /\ held' = {} /\ file' = Null
    /\ UNCHANGED <<table, replaced, options, entry, window, kmd, stop>>

-----------------------------------------------------------------------------
(* physmapctl create and destroy, each as one step of the driver.           *)

Mapped == {id \in Ids : table[id] # Null}

CreateMapping(id, region) ==
    /\ table[id] = Null
    /\ region.identifier \notin {table[other].identifier : other \in Mapped}
    /\ table' = [table EXCEPT ![id] = region]
    /\ UNCHANGED <<replaced, options, stage, entry, file, window, held, kmd, stop, outcome>>

DestroyMapping(id) ==
    /\ table[id] # Null
    /\ table' = [table EXCEPT ![id] = Null]
    /\ replaced' = (replaced \/ stage = "open")
    /\ UNCHANGED <<options, stage, entry, file, window, held, kmd, stop, outcome>>

-----------------------------------------------------------------------------
(* Command lines.  *)

Checked   == UNION {parse_u64_arg(base, scale) : base \in Word, scale \in Suffixes}
Unchecked == UNION {parse_size_value(base, scale) : base \in Word, scale \in Suffixes}

MemtestOptions ==
         [tool : {"memtest"}, device : Devices, backing : {"file"},
          mode : {"read", "write"}, offset : Checked, size : Checked]
    \cup [tool : {"memtest"}, device : Devices, backing : {"file"},
          mode : {"read64", "write64"}, offset : Checked, size : {U64}]

McMemtestOptions == {[o EXCEPT !.tool = "mc_memtest"] : o \in MemtestOptions}

V2pMemtestOptions ==
    {[o EXCEPT !.tool = "memtest_v2p"] : o \in {o \in MemtestOptions : o.mode \in {"read", "write"}}}

(* Both bandwidth tools: a number of MiB other than 0, once in bytes.       *)
SizesInMiB == {Wrapped(size * MiB) : size \in Unchecked \ {0}}

BwtestOptions ==
    {o \in [tool : {"bwtest"}, device : Ids, backing : {"file", "anon", "malloc_host"},
            mode : {"once", "continuous"}, offset : Unchecked, size : SizesInMiB] :
        IF o.backing = "file" THEN o.offset % PageSize = 0 ELSE o.offset = 0}

BwtestV2pOptions ==
    [tool : {"bwtest_v2p"}, device : Devices, backing : {"file"},
     mode : {"once", "continuous"}, offset : Unchecked, size : SizesInMiB]

RegisterOptions ==
    {o \in [tool : {"register_mm"}, device : Ids, backing : {"file", "anon", "system"},
            mode : {"hold"}, offset : Checked, size : Checked \ {0}] :
        IF o.backing = "file" THEN o.offset % PageSize = 0 ELSE o.offset = 0}

CommandLines ==
    UNION {MemtestOptions, McMemtestOptions, V2pMemtestOptions,
           BwtestOptions, BwtestV2pOptions, RegisterOptions}

StartTool ==
    /\ stage = "idle"
    /\ \E o \in CommandLines : options' = o
    /\ ToolGoto(IF options'.backing = "file" THEN "resolve" ELSE "map")
    /\ UNCHANGED <<table, replaced, entry, file, window, held, kmd, stop, outcome>>

-----------------------------------------------------------------------------
(* From the name of a device to an open file.  *)

\* Mutant: any mapping in the list will do
ListedAny(device) == Mapped

Listed(device) == {id \in Mapped : device \in {id, table[id].identifier}}

(* A path is taken as it is; an identifier is looked up in the list.        *)
ResolveDevPath ==
    /\ Tool \notin V2pTools
    /\ \E id \in (IF options.device \in Ids THEN {options.device} ELSE Listed(options.device)) :
          entry' = [id |-> id, region |-> Null]
    /\ ToolGoto("open")
    /\ UNCHANGED <<table, replaced, options, file, window, held, kmd, stop, outcome>>

(* Path or identifier: the list says where the device lies and how large    *)
(* it is; the bandwidth test refuses a range outside of it.                 *)
ResolveDeviceInfo ==
    /\ Tool \in V2pTools
    /\ \E id \in Listed(options.device) :
          /\ entry' = [id |-> id, region |-> table[id]]
          /\ Tool = "bwtest_v2p" =>
                ~RangeExceeds(table[id].size, options.offset, options.size)
    /\ ToolGoto("open")
    /\ UNCHANGED <<table, replaced, options, file, window, held, kmd, stop, outcome>>

Resolve == stage = "resolve" /\ (ResolveDevPath \/ ResolveDeviceInfo)

(* open finds what the device's number means now.                          *)
OpenDevice ==
    /\ stage = "open"
    /\ table[entry.id] # Null
    /\ file' = table[entry.id]
    /\ held' = {"fd"}
    /\ ToolGoto("map")
    /\ UNCHANGED <<table, replaced, options, entry, window, kmd, stop, outcome>>

-----------------------------------------------------------------------------
(* The mapping.  *)

Refused64 == options.mode \in {"read64", "write64"} /\ options.offset % U64 # 0

(* Windows that a tool asks for; mmap rounds a length to pages, and refuses *)
(* 0 and what would round to the end of the word.                          *)
Windows ==
    CASE Tool \in {"memtest", "mc_memtest"} ->
            IF Refused64 THEN {} ELSE Window(options.offset, options.size)
      [] Tool = "memtest_v2p" ->
            WholeDevice(entry.region.size, options.offset, options.size)
      [] Tool = "bwtest_v2p" ->
            {[first |-> 0, length |-> entry.region.size, position |-> options.offset]}
      [] OTHER ->
            {w \in {[first |-> options.offset, length |-> page_align_up(options.size),
                     position |-> 0]} : w.length \in Word \ {0}}

(* physmap_data_mmap.                                                      *)
DriverAccepts(region, w) ==
    /\ w.first % PageSize = 0
    /\ w.first <= region.size /\ w.length <= region.size - w.first

At(w, place) ==
    [first |-> w.first, length |-> w.length, position |-> w.position,
     va |-> place.va, room |-> place.room, room_end |-> place.room_end]

MapDevice ==
    /\ stage = "map" /\ options.backing = "file"
    /\ \E w \in Windows, area \in FreeAreas :
          /\ DriverAccepts(file, w)
          /\ \E place \in UnmappedArea(w.length, area) :
                /\ place.room_end <= MaxWord + 1
                /\ window' = At(w, place)
    /\ held' = held \cup {"mapping"}
    /\ ToolGoto("attach")
    /\ UNCHANGED <<table, replaced, options, entry, file, kmd, stop, outcome>>

(* Anonymous pages, posix_memalign, or mcMallocHost, which attaches too.    *)
AllocMemory ==
    /\ stage = "map" /\ options.backing # "file"
    /\ \E w \in Windows, area \in FreeAreas :
          /\ area + w.length <= MaxWord + 1
          /\ window' = At(w, [va |-> area, room |-> area, room_end |-> area + w.length])
    /\ held' = held \cup {"mapping"}
    /\ ToolGoto(IF options.backing = "malloc_host" THEN "alloc" ELSE "attach")
    /\ UNCHANGED <<table, replaced, options, entry, file, kmd, stop, outcome>>

-----------------------------------------------------------------------------
(* The GPU's way to the mapping.  *)

Attached == IF Tool = "register_mm" THEN "hold" ELSE "alloc"

HostRegister ==
    /\ stage = "attach" /\ Tool \notin V2pTools \cup {"memtest"}
    /\ held' = held \cup {"registration"}
    /\ ToolGoto(Attached)
    /\ UNCHANGED <<table, replaced, options, entry, file, window, kmd, stop, outcome>>

(* map_va_to_pa: the mapping, then what the kernel says of it.              *)
VaPaMap ==
    /\ stage = "attach" /\ Tool \in V2pTools
    /\ kmd' = [phys_addr |-> entry.region.phys_addr, length |-> entry.region.size]
    /\ ToolGoto("verify")
    /\ UNCHANGED <<table, replaced, options, entry, file, window, held, stop, outcome>>

VaToPa ==
    /\ stage = "verify"
    /\ ToolGoto("alloc")
    /\ UNCHANGED <<table, replaced, options, entry, file, window, held, kmd, stop, outcome>>

(* VA_TO_PA fails or names another address: the mapping is undone, unless   *)
(* that fails too, and the tool exits.                                     *)
VerifyFails ==
    /\ stage = "verify"
    /\ ToolGoto("ended") /\ outcome' = "failure"
    /\ held' = {} /\ file' = Null
    /\ kmd' \in {Null, kmd}
    /\ UNCHANGED <<table, replaced, options, entry, window, stop>>

-----------------------------------------------------------------------------
(* The accesses.  *)

CpuAccess ==
    /\ stage = "attach" /\ Tool = "memtest"
    /\ ToolGoto("unmap")
    /\ UNCHANGED <<table, replaced, options, entry, file, window, held, kmd, stop, outcome>>

(* mcMalloc, and for the bandwidth tools a stream and two events.           *)
AllocBuffer ==
    /\ stage = "alloc"
    /\ held' = held \cup {"buffer"}
    /\ ToolGoto("copy")
    /\ UNCHANGED <<table, replaced, options, entry, file, window, kmd, stop, outcome>>

(* Both memory tests: the copies between the buffer and the mapping.        *)
GpuAccess ==
    /\ stage = "copy" /\ Tool \notin Bandwidth
    /\ ToolGoto("free")
    /\ UNCHANGED <<table, replaced, options, entry, file, window, held, kmd, stop, outcome>>

(* The bandwidth tests: write, read back, compare, and warm up.             *)
Validate ==
    /\ stage = "copy" /\ Tool \in Bandwidth
    /\ ToolGoto("measure")
    /\ UNCHANGED <<table, replaced, options, entry, file, window, held, kmd, stop, outcome>>

\* Mutant: nothing looks at stop_requested between two updates
MeasureOn ==
    /\ stage = "measure"
    /\ ToolGoto(IF options.mode = "continuous" THEN "measure" ELSE "free")
    /\ UNCHANGED <<table, replaced, options, entry, file, window, held, kmd, stop, outcome>>

(* One update after another until stop_requested, or one measurement.       *)
Measure ==
    /\ stage = "measure"
    /\ ToolGoto(IF options.mode = "continuous" /\ ~stop THEN "measure" ELSE "free")
    /\ UNCHANGED <<table, replaced, options, entry, file, window, held, kmd, stop, outcome>>

\* Mutant: the mapping is taken away while the GPU is still attached
FreeThenUnmap ==
    /\ stage = "free"
    /\ held' = held \ {"buffer"}
    /\ ToolGoto("unmap")
    /\ UNCHANGED <<table, replaced, options, entry, file, window, kmd, stop, outcome>>

FreeBuffer ==
    /\ stage = "free"
    /\ held' = held \ {"buffer"}
    /\ ToolGoto(IF Tool = "memtest_v2p" THEN "wait"
                ELSE IF options.backing = "malloc_host" THEN "unmap" ELSE "detach")
    /\ UNCHANGED <<table, replaced, options, entry, file, window, kmd, stop, outcome>>

(* wait_for_unregister: Enter, or the end of the input.                     *)
WaitForUnregister ==
    /\ stage = "wait"
    /\ ToolGoto("detach")
    /\ UNCHANGED <<table, replaced, options, entry, file, window, held, kmd, stop, outcome>>

(* register_mm: `while (!stop_requested) pause();`, the test and the sleep. *)
TestStop ==
    /\ stage = "hold"
    /\ ToolGoto(IF stop THEN "detach" ELSE "pause")
    /\ UNCHANGED <<table, replaced, options, entry, file, window, held, kmd, stop, outcome>>

Pause ==
    /\ stage = "pause"
    /\ ToolGoto("asleep")
    /\ UNCHANGED <<table, replaced, options, entry, file, window, held, kmd, stop, outcome>>

-----------------------------------------------------------------------------
(* Giving back.  *)

\* Mutant: the VA to PA mapping is left to the end of the process
DetachRegistration ==
    /\ stage = "detach"
    /\ held' = held \ {"registration"}
    /\ ToolGoto("unmap")
    /\ UNCHANGED <<table, replaced, options, entry, file, window, kmd, stop, outcome>>

(* mcHostUnregister or unmap_va_to_pa.                                     *)
Detach ==
    /\ stage = "detach"
    /\ held' = held \ {"registration"}
    /\ kmd' = Null
    /\ ToolGoto("unmap")
    /\ UNCHANGED <<table, replaced, options, entry, file, window, stop, outcome>>

(* munmap, free or mcFreeHost.                                             *)
UnmapMemory ==
    /\ stage = "unmap"
    /\ held' = held \ {"mapping"}
    /\ ToolGoto("close")
    /\ UNCHANGED <<table, replaced, options, entry, file, window, kmd, stop, outcome>>

(* close and the return from main.                                         *)
CloseDevice ==
    /\ stage = "close"
    /\ held' = held \ {"fd"}
    /\ file' = Null
    /\ ToolGoto("ended") /\ outcome' = "success"
    /\ UNCHANGED <<table, replaced, options, entry, window, kmd, stop>>

(* Every call may fail, and reports it by ending the process, except the    *)
(* CPU's accesses, munmap and close.                                       *)
ToolFails ==
    /\ stage \notin {"idle", "verify", "wait", "hold", "pause", "asleep", "close", "ended"}
    /\ stage = "unmap" => options.backing = "malloc_host"
    /\ stage = "attach" => Tool # "memtest"
    /\ Exit("failure")

-----------------------------------------------------------------------------
(* Signals.  register_mm installs its handler before anything else, the    *)
(* bandwidth tests before they open the device, the memory tests never.     *)

Handles == Tool = "register_mm" \/ (Tool \in Bandwidth /\ stage # "resolve")

(* The handler sets stop_requested; a sleep in pause ends, one that is yet  *)
(* to begin does not.                                                      *)
Signal ==
    /\ stage \notin {"idle", "ended"}
    /\ IF Handles
       THEN /\ stop' = TRUE
            /\ ToolGoto(IF stage = "asleep" THEN "hold" ELSE stage)
            /\ UNCHANGED <<table, replaced, options, entry, file, window, held, kmd, outcome>>
       ELSE Exit("killed")

Kill == stage \notin {"idle", "ended"} /\ Exit("killed")

-----------------------------------------------------------------------------
RunTool ==
    \/ Resolve \/ OpenDevice \/ MapDevice \/ AllocMemory
    \/ HostRegister \/ VaPaMap \/ VaToPa \/ VerifyFails
    \/ CpuAccess \/ AllocBuffer \/ GpuAccess \/ Validate \/ Measure \/ TestStop \/ Pause
    \/ FreeBuffer \/ Detach \/ UnmapMemory \/ CloseDevice \/ ToolFails

Administrate ==
    \E id \in Ids : DestroyMapping(id) \/ \E region \in Regions : CreateMapping(id, region)

ToolNext ==
    \/ StartTool \/ RunTool \/ WaitForUnregister
    \/ Signal \/ Kill
    \/ Administrate

(* Calls return, with or without an error; but no measurement need fail.    *)
CallReturns == RunTool /\ (stage = "measure" => Measure)

(* Nobody need press Ctrl-C, or press it again.                            *)
ToolFairness == WF_toolVars(CallReturns)

ToolSpec == ToolInit /\ [][ToolNext]_toolVars /\ ToolFairness

-----------------------------------------------------------------------------
Running == stage \notin {"idle", "ended"}

(* The GPU, or for physmap_memtest the CPU, goes through the mapping.       *)
Accessing == stage \in {"copy", "measure"} \/ (stage = "attach" /\ Tool = "memtest")

(* Every variable keeps its type.                                          *)
ToolTypeOK ==
    /\ table \in [Ids -> Regions \cup {Null}]
    /\ options \in CommandLines \cup {Null}
    /\ entry \in [id : Ids, region : Regions \cup {Null}] \cup {Null}
    /\ file \in Regions \cup {Null}
    /\ window = Null \/ window \in [first : Word, length : Word, position : Word, va : Word,
                                   room : Word, room_end : 0..(MaxWord + 1)]
    /\ held \subseteq {"fd", "mapping", "registration", "buffer"}
    /\ kmd = Null \/ kmd \in [phys_addr : Word, length : Word]
    /\ stop \in BOOLEAN /\ replaced \in BOOLEAN
    /\ outcome \in {Null, "success", "failure", "killed"}
    /\ (stage = "ended") <=> (outcome # Null)

(* What a tool accesses is what its command line asks for: it lies inside   *)
(* the mapping and, for a device, inside the region and at the offset       *)
(* given; the GPU reaches all of it through what the tool has attached.     *)
(* Sizes and offsets may have wrapped on the way (parse_size_value).        *)
AccessCovered == Accessing =>
    /\ window.position + options.size <= window.length
    /\ options.backing = "file" =>
          /\ window.first + window.position = options.offset
          /\ window.first + window.length <= file.size
    /\ kmd # Null => options.offset + options.size <= kmd.length
    /\ Tool \in V2pTools => kmd # Null

(* A device is mapped at a multiple of the alignment that the GPU wants,    *)
(* and inside the room that the kernel has found for it                    *)
(* (physmap_data_get_unmapped_area).                                       *)
MappedInsideRoom == "mapping" \in held =>
    /\ window.room <= window.va /\ window.va + window.length <= window.room_end
    /\ options.backing = "file" => window.va % VaAlign = 0

(* As long as a tool lives, the GPU is attached only to memory that is      *)
(* still mapped, and its buffer outlives no attachment: what is given back  *)
(* is given back in reverse order.                                         *)
AttachedWhileMapped == Running =>
    /\ (kmd # Null \/ "registration" \in held) => "mapping" \in held
    /\ ("mapping" \in held /\ options.backing = "file") => "fd" \in held
    /\ ("buffer" \in held /\ options.backing # "malloc_host") =>
          kmd # Null \/ "registration" \in held

(* A tool that reports success has given everything back itself, the VA to *)
(* PA mapping of the kernel driver included, which no exit would take back. *)
NothingLeft == outcome = "success" => held = {} /\ kmd = Null

(* sm_copy_kernel, in both forms: each byte of the transfer is copied by    *)
(* exactly one thread.                                                     *)
Once(Part(_, _, _), size) == \A byte \in 0..(size - 1) :
    \E tid \in 0..(Total(size) - 1) : \A other \in 0..(Total(size) - 1) :
        (byte \in Part(other, Total(size), size)) <=> (other = tid)

EveryByteOnce == (stage = "measure" /\ Tool = "bwtest_v2p") =>
    Once(Stride, options.size) /\ Once(Chunk, options.size)

(* A tool that has been asked to stop once ends, whatever it was doing when *)
(* the signal came, but for the sleep of register_mm and the step before it. *)
StopEnds == (stop /\ stage \notin {"pause", "asleep"}) ~> (stage = "ended")

(* README.md: register_mm "registers the memory and then stays alive until  *)
(* Ctrl-C or SIGTERM": one of them, whenever it comes, ends it.            *)
HoldEndsOnSignal == (stop /\ Tool = "register_mm") ~> (stage = "ended")

(* The device that a tool opens is the one its command line names, and the  *)
(* physical range that it gives to the GPU is that device: unless a mapping *)
(* was destroyed between the list (resolve_dev_path, resolve_device_info)   *)
(* and the open, for nothing ties the two together.                        *)
OpensWhatWasNamed == (file # Null /\ ~replaced) =>
    /\ options.device \in Identifiers => file.identifier = options.device
    /\ kmd # Null =>
          kmd.phys_addr = file.phys_addr + window.first /\ kmd.length = file.size
=============================================================================
