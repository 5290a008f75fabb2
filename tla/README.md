# Formal model of superpod

TLA+ specifications of the programs in this repository, the configurations
that check them with TLC, and proofs checked by TLAPS. `PROJECT.json` maps every
definition to the source lines it stands for; comments in the modules say what
each property means for the code.

## 1. The system

superpod shares PCIe-attached memory between machines. A kernel driver exposes
physical address ranges as character devices, a Master keeps a directory of the
blocks these ranges are divided into, and clients allocate blocks under SHA-256
keys and read and write them through a GPU's DMA engine. The rest are stand-alone
test tools.

| Component | Source | State | Operations | Talks to |
|---|---|---|---|---|
| RPC protocol | `master/include/pcie/protocol.h` | – | request and response structs, result codes | – |
| Master service | `master/src/master_service.cpp` | per host a pool (`next_fresh_block`, `recycled_blocks`, `allocated_blocks`), `key_index_`, `available_blocks_`, `mutex_` | RegisterMemory, AllocBlocks, FreeBlocks, Exist, BatchExist; FindHost and three counts | called by the server's workers |
| Master server | `master/src/main.cpp` | worker threads of `coro_rpc_server` | hands each request to a worker | Master service; clients by RPC |
| Client shell | `master/src/client.cpp` | mapped devices (`HostMappings`), one RPC connection, a GPU | register, alloc, free, exist, batch_exist, write, get | Master by RPC; driver by open/mmap; GPU runtime |
| Line editor | `master/src/line_editor.cpp` | line, cursor, history position, terminal mode | one key at a time | terminal |
| physmap driver | `physmap_char/physmap_driver.c` | `regions[]`, `id_bitmap`, reference counts, cdevs, device nodes | create, destroy, list (ioctl); open, mmap, release | kernel device model |
| Control tools | `physmapctl.c`, `create_physmap.sh` | – | one ioctl per command, size parsing | driver |
| Memory test tools | `physmap_memtest.c`, `physmap_mc_memtest*.c` | one mapped window | read/write a range of a device | driver, GPU runtime |
| Bandwidth tools | `physmap_mc_bwtest*` | host buffer, events | acquire buffer, validate, measure, release | driver, GPU runtime |
| `map_va_to_pa` | `map_va_to_pa.c` | fd, VA, registration | map, unmap | driver, GPU runtime |
| `register_mm` | `register_mm.cu` | mapping, `stop_requested` | map, register, wait for a signal, release | GPU runtime |
| GPU validation | `mvxi_test/mvxi_test.c` | list of allocations | fill, wait, verify, free | GPU runtime |

What is hard here:

* **Concurrency.** The Master's workers run handlers in parallel around one
  `std::shared_mutex`; each batch changes two containers one key at a time. The
  driver's ioctls run in parallel and hold `regions_lock` for only part of a
  create or a destroy.
* **All or nothing.** A batch is checked completely, then executed; every check
  must still hold when its result is used.
* **Partial failure.** Allocation failures inside a batch; `cdev_add`,
  `device_create` or `copy_to_user` failing after a region is visible.
* **Time of check, time of use.** A client resolves a key by RPC and then does DMA.
* **Loss and restart.** The Master keeps nothing on disk; a reply may be lost.
* **Boundaries.** 64-bit sizes, counts and addresses; pools that are full or empty.

What makes each component correct:

* *Master*: it behaves as an atomic directory. Ids never leak or have two owners,
  keys and allocated blocks correspond one to one, ids come fresh first and then
  in the order they were freed, a refused batch changes nothing, every
  request is answered.
* *Client*: a write or read under a key touches only that key's block; mappings
  opened are closed; what it reports is what happened.
* *Driver*: a region lives as long as anybody uses it, ids and identifiers are
  unique, a device node exists exactly while its mapping does, an mmap stays
  inside its region.
* *Line editor*: a key does what README.md says, whatever was typed before it.
* *Tools*: what was acquired is released on every path, ranges do not overflow, a
  device is the one that was named, waiting ends when a signal arrives.

## 2. Modules

| Module | Models | Kind |
|---|---|---|
| `RpcProtocol` | requests, replies, key format and canonical spelling | definitions and assumptions on constants |
| `KeyDirectory` | what the Master promises: every request takes effect at one instant | abstract specification |
| `MasterService` | `master_service.cpp` as `main.cpp` runs it | detailed specification |
| `MasterServiceProofs` | – | inductive invariant of lock, pools and index, and theorems |
| `MasterDirectoryProofs` | – | invariant of the refinement; proof that `MasterService` implements `KeyDirectory` |
| `SumTheorems` | – | lemmas about sums over finite sets and about remainders, for the other proofs |
| `MasterServiceFaults` | the same with `std::bad_alloc` thrown at any allocation of a handler | extension of `MasterService` |
| `MasterFaultProofs` | – | what survives a failed allocation: inductive invariant and theorems |
| `MCMaster`, `MCService`, `MCFaults` | – | instances for TLC |
| `PhysmapDriver` | `physmap_driver.c` with the kernel's device model and VFS around it | detailed specification |
| `PhysmapDriverProofs` | – | inductive invariant and theorems |
| `MCDriver` | – | instances for TLC |
| `Client` | `client.cpp`, any number of processes, composed with `KeyDirectory` as the Master | detailed specification |
| `ClientProofs` | – | inductive invariants and theorems |
| `MCClient` | – | instances for TLC |
| `ToolArithmetic` | number parsing, page-aligned windows, the driver's aligned unmapped area, the division of a copy among GPU threads | operators on machine words |
| `PhysmapTools` | the memory tests, the bandwidth tests, `register_mm`, `map_va_to_pa`, beside `physmapctl create` and `destroy` | detailed specification |
| `PhysmapToolsProofs` | – | theorems about `ToolArithmetic`; inductive invariant and theorems about the tools |
| `GpuFill` | `mvxi_test.c` and its copy `data_validation.c` | detailed specification |
| `LineEditor` | `line_editor.cpp` as the shell's loop uses it | detailed specification |
| `MCTools` | `PhysmapTools`, `GpuFill` and `LineEditor` side by side | composition, with instances for TLC |
| `ToolsProofs` | – | inductive invariants and theorems of `GpuFill` and `LineEditor`; proof that the composition keeps the promises of all three |

### RpcProtocol

A key is a member of `RawKeys`, not a string: `HexKeys` are those `IsSha256Key`
accepts, `LowerCase` is `std::tolower` over the characters, so two spellings of one
key are two members with the same `LowerCase`. Reply messages are left out.

### KeyDirectory

For each registered host one FIFO queue of free ids, initially `0 .. n-1`, and a map
from keys to locations. It has no lock, no loops and no counters, and it describes
`BatchExist` by the set of matching prefixes instead of a scan: it says what the
README.md of the Master says, so that `MasterService` can be compared with it.

### MasterService

Each worker thread has a stage (`pc`), its request, and the handler's local
variables. A handler is cut into the steps between which another worker can run:

| Stage | Code | Actions |
|---|---|---|
| idle | worker waits for a request | `Call` |
| validate | `ValidateKeys`, range checks, before the lock | `Validate` |
| acquire | constructing `unique_lock` / `shared_lock` | `AcquireExclusive`, `AcquireShared` |
| locked | checks of the whole request under the lock, single-step handlers | `RegisterMemory`, `AllocCheck`, `FreeCheck`, `Exist`, `FindHost`, `Count` |
| update | one iteration of the batch loop; the final `available_blocks_` | `AllocKey`, `AllocDone`, `FreeKey`, `FreeDone` |
| scan | one iteration of BatchExist's loop; its reply | `ScanKey`, `ScanDone` |
| unlock | destructor of the lock guard, after the reply is built | `Unlock` |
| return | the response leaves | `Return` |

The lock is a variable (`writer`, `readers`), not an assumption: the loops are
interleaved with everything other workers may do, so a path that missed the lock
would show. `hosts_` and `key_index_` are functions from the ids and keys present.
`available_blocks_` is a machine word: additions and subtractions are modulo
`MaxWord + 1`, as in `std::uint64_t`. The first `front()` of a `std::deque` is
`Head`, which TLC refuses on an empty sequence.

The pools' reserve() calls (lines 168-170) are no state change and are not
modelled. Here no allocation fails; the next module adds that.

### MasterServiceFaults

Every handler builds strings, nodes and replies, and so may throw `std::bad_alloc` at
almost any place. `Throws` adds to each step of a handler the ways in which it can be
left: before it has done anything (`ThrowBefore`, `ThrowUnlocked`), between the two
containers that one iteration changes (`ThrowAllocating`, `ThrowFreeing`), and when all is
done but the message of the reply cannot be built: "blocks allocated" and "memory
registered" are longer than a `std::string` stores in place (`ThrowAllocated`,
`ThrowRegistered`; "blocks freed" fits). The host is then registered and its blocks
are counted although the client is told that it failed; the same registration, sent
again, finds it there. Unwinding releases the lock, so the handler continues with `Unlock` and answers with an error.

An exception can leave a block out of its pool that `available_blocks_` still counts. A
later AllocBlocks then reads `front()` of an empty deque, which is undefined; `Crash` is
the outcome taken for it: the process ends, and a new Master starts empty.

### PhysmapDriver

The Master and the driver do not call each other: a client opens the driver's
devices and asks the Master where to write. They are modelled apart.

`regions`, `id_bitmap`, and `private` (`file->private_data`) are the variables of
that name. `mem` is the content of each object kzalloc can return and `heap` the
set of those that are allocated, so that a pointer can outlive its object: kfree
takes the object out of `heap` and leaves `mem` alone. `pc`, `region`, `id` and `args`
are the locals of the ioctl a task is in.

Nothing that other tasks see happens between `mutex_lock(&regions_lock)` and
`mutex_unlock`, so each such section is one step; each call into the device model
outside it is a step of its own.

| Operation | Code | Steps |
|---|---|---|
| create | `physmap_create_region` | `Create` (checks, kzalloc), `Publish` (lock), `CdevAdd`, `DeviceCreate`, `CopyToUser`; on failure `ErrClear` (lock), `Put` |
| destroy | `physmap_destroy_region` | `Destroy`, `Unpublish` (lock), `DeviceDestroy`, `CdevDel`, `Put` |
| list | `physmap_fill_list` | `List` |
| open | `physmap_data_open` | `VfsOpen` (the VFS finds the cdev), `DataOpen` (lock) |
| mmap, munmap | `physmap_data_mmap` | `Mmap`, `Munmap` |
| last close | `physmap_data_release` | `Release`, `DropCdev` (the VFS drops the cdev) |
| load, unload | `physmap_init`, `physmap_exit` | `ModuleInit`, `ModuleUnwind` (the error labels), `ModuleExit` |

Every call that can fail may fail at any time: `cdev_add`, `device_create` (always,
if the node's name is taken), `copy_to_user` and each registration of
`physmap_init`.

External: `cdevs` is the kernel's map of device numbers, for each id the list of the
cdevs registered under its number, newest first. `cdev_add` puts one in front, an open
takes the first, and `cdev_del` removes the first entry of its cdev's number, whosever
cdev that entry has (`NewestGone`): `kobj_unmap` looks for number and range, not for
the cdev. A create that takes an id between the locked section of a destroy and its
`cdev_del` therefore loses its own cdev to that destroy (run `driver_reuse`). A cdev that
`cdev_add` has not had yet has number 0, under which nothing is registered
(`Unnumbered`). `nodes` are the device nodes by id; an open file keeps its module loaded;
a mapping keeps its file open.

Left out of the VFS: an inode caches the cdev it was first opened with until that cdev is
deleted; and an open through a cdev whose memory was freed continues as if the cdev were
still there.

`IdSources` is the environment. With `{"create"}` a destroy names an id that a create
returned, and no id is destroyed twice: the programs that create mappings remove
their own. With `"list"` a destroy may also name any id the list shows, as an
administrator with `physmapctl list` can.

`get_unmapped_area` chooses the user address of a mapping and changes no state of
the driver; it is `UnmappedArea` of `ToolArithmetic`, used where a tool maps a device.

Left out: cache modes, which choose page attributes and change no state; a copy_from_user that fails before
anything has happened; the list's buffer; a kzalloc that fails, which like a
request that `ValidCreate` refuses returns at once and leaves no trace. `MaxWindows`
bounds how often one file is mapped at a time.

### Client

The client processes, the connections between them and the Master, and the Master
itself, which is an instance of `KeyDirectory` with one thread per connection: what
`MasterService` is proved to implement. A request on a connection takes effect at
one instant (`Serve`) after it was sent and before it is answered.

| Stage | Code | Actions |
|---|---|---|
| down | before `main`, after it | `Connect` |
| load | `HostMappings::Load`, `GpuAccessor::Initialize`, `RegisterConfiguredHost` | `LoadLine`, `RegisterConfiguredHost`, `StartFails` |
| join | waiting for the reply to the registration | `Joined` |
| prompt | `ReadLine` | `Enter`, `Quit` |
| call | `syncAwait` of a command's RPC | `Answered`, `Resolved` (write and get) |
| map, copy, release | `FillBlock`, `ReadBlock` | `HostRegister`, `Copy`, `Release` |

`lines` is how much of the configuration is mapped, `access` the part of a mapping that
a command copies, `location` the block the Master named for it, `gpu` what the
GPU runtime holds. `block_id * block_size` is computed in machine words.

Failures: `Lose` ends a connection from the client's side ("RPC failed"; the code connects
once, so every later call fails too, which changes nothing and is not an action). The
request on it may be dropped (`Drop`) or take effect later. `Kill` ends a client
anywhere, `MasterRestart` empties the Master and breaks all connections. Every call
that can fail in start-up may (`StartFails`), and so may each GPU call
except the two that release: if `mcFree` or `mcHostUnregister` fail, the code only
says so.

`holds` and `doubt` are history variables: what a user has been told is his, and the keys
of frees whose outcome he cannot know.

Left out: option parsing, the address that `exist` prints, a command line that is
refused before a request is sent.

### ToolArithmetic

Numbers are machine words (`MaxWord`), and `Wrapped` is applied where the code computes
without a test. `parse_u64_arg` refuses a product that overflows, `parse_size_value` of the
bandwidth tools keeps what is left of it. `Window`, `WholeDevice` and
`UnmappedArea` return the set of their results, which is empty when the code refuses.
`Stride` and `Chunk` are the bytes that one thread of `sm_copy_kernel` copies, in the C
and MUSA sources and in the CUDA source.

### PhysmapTools

One process of one of the six programs runs from its command line to its end. All walk
the same way, so `stage` is shared and the actions say which tool takes them:

| Stage | Code | Actions |
|---|---|---|
| idle | `parse_args` | `StartTool` |
| resolve | `resolve_dev_path`, `resolve_device_info` (the driver's list) | `Resolve` |
| open | `open` | `OpenDevice` |
| map | `map_physmem`, `alloc_mapping`, `acquire_host_buffer` | `MapDevice`, `AllocMemory` |
| attach, verify | `mcHostRegister`; `map_va_to_pa` | `HostRegister`, `VaPaMap`, `VaToPa`, `VerifyFails`, `CpuAccess` |
| alloc, copy, measure, free | `do_gpu_read`, `do_gpu_write`, `run_test` | `AllocBuffer`, `GpuAccess`, `Validate`, `Measure`, `FreeBuffer` |
| wait | `wait_for_unregister` | `WaitForUnregister` |
| hold, pause, asleep | `while (!stop_requested) pause();` | `TestStop`, `Pause` |
| detach, unmap, close | releases in reverse | `Detach`, `UnmapMemory`, `CloseDevice` |

Meanwhile `CreateMapping` and `DestroyMapping` change the driver's `table`, each as one
step (what happens inside is `PhysmapDriver`'s subject), and `Signal` and `Kill` come at
any time. Every call that the code checks may fail (`ToolFails`). `held` is what the exit of
a process gives back; `kmd`, the VA to PA mapping, it does not: the ioctl goes
through a file that `map_va_to_pa` closes at once. `CommandLines` are the options that
`parse_args` lets through. `replaced` is a history variable. External: the GPU runtime,
the kernel's GPU driver, and where the kernel finds free addresses (`FreeAreas`).

Left out: the bytes, hex dumps, times and rates; `mmap`'s own limits.

### GpuFill

`test_one_gpu` and the loop of `main`: query, the loop that halves a refused chunk, the
array of allocations with its doubling, the wait for the user, the comparison in pieces of
a buffer that is itself halved until malloc grants it, the release, and the exit status.
`spoiled` are the bytes that lose the pattern while the user waits: the environment, one
byte per GPU. `MaxAllocations` bounds the list.

### LineEditor

A key at a time from a raw terminal: printable characters, control keys, and escape
sequences, which are states of `escape` because the terminal may deliver, or lose, their
bytes one by one. `Redraw` is what the row shows after the escape codes that the code
prints. `history` grows by what `ReadLine` remembers. `bottom` and `interrupts` are history
variables. `MaxLine` and `MaxHistory` are the bounds.

Left out: lines wider than the terminal, for which `Redraw` assumes one row, and the type-ahead
that `TCSAFLUSH` discards when the terminal changes its mode.

## 3. Runs

The Master's instances are in `MCMaster`, `MCService` and `MCFaults`, the driver's in
`MCDriver`, the clients' in `MCClient`, the rest in `MCTools`. Hosts `h1` and `h2`; keys `a`, `b`, `c`, a second
spelling `upper_a` of `a`, and `bad`, which is not 64 hexadecimal characters.

| Run | Instance | Result |
|---|---|---|
| `service` | 2 workers (symmetric), `MaxWord` 8, two settings. *concurrent*: pools of 2 and 1 blocks, 22 requests of all nine operations, batches with repeated, malformed, missing, foreign and already allocated keys. *sequential*: one request at a time, pools of 3 and 2 blocks, every list of 1 to 3 distinct keys in alloc, free and BatchExist, registrations at every edge of the arithmetic | passes: five invariants, the type, refinement of `KeyDirectory` |
| `contention` | 3 workers, 5 requests, one failing allocation, `FairFaultSpec` | passes: `LockDiscipline`, `FaultsContained`, `HandlersAdvance`, `Answered` |
| `driver` | table of 2 ids, 2 tasks, 1 file, 3 objects, 3 identifiers, addresses 0..7 with pages of 2, 8 create requests (5 refused), ids from creates | passes: seven invariants besides the type, `FilesKeepTheirRange` |
| `driver_race` | 2 tasks, 1 file, 2 objects, ids from the list too | violates `DestroyRemovesNode` (section 6) |
| `driver_close` | 2 tasks, 1 file, 2 objects | violates `CdevOutlivesFile` (section 6) |
| `driver_reuse` | the same | violates `NodeOpensItsMapping` (section 6) |
| `client` | 2 clients on 2 hosts, one with 1 block of 8 bytes, one with 3 blocks of 2; 1 key; alloc, free, write and get; 2 connections | passes: five properties and the type |
| `client_stale` | 2 clients on 2 hosts (2 and 1 blocks of 2 bytes), 2 keys to allocate, free and write | violates `AccessSparesOtherKeys` (section 6) |
| `faults` | 1 worker, 5 requests, one failing allocation | violates `FailedBatchChangesNothing` (section 6) |
| `tools` | one of three subjects per behaviour. *tools*: words 0..15, pages of 2, alignment 4, one device number, three mappings of two identifiers, all command lines with all numbers and suffixes 1 and 4. *fill*: 2 GPUs with 3 or 13 free bytes, 4 allocations. *editor*: 2 characters, lines and history of length 2 | passes: ten invariants, the type, `StopEnds`, `FillStops` |
| `hold` | the *tools* of `tools` | violates `HoldEndsOnSignal` (section 6) |
| `interrupt` | the *editor* of `tools` | violates `CtrlCCancels` (section 6) |

Why these bounds are enough to be interesting. Two workers are enough for
every pairwise interference between a reader or writer and a writer, which is
all a lock can get wrong; three are used where waiting matters. Pools of two and
one blocks fill, refuse, empty and wrap around their recycled queue; the sequential
setting adds a third block and key so that queue order and ties between hosts in BatchExist
matter, without interleaving, and at `MaxWord` 8 its registrations lie on both
sides of every border of the arithmetic. No counter is capped: the state
space is finite because keys and pools are. One failing allocation (`MaxFaults`) is
enough to leave a batch at each of its places; a second could only do so again.

For the driver, two tasks give every interleaving of a create and a destroy, two
creates or two destroys, including a create that takes the id of a destroy that
has not finished; a third task adds no pair of sections. There is one identifier
more than table slots, so that a create can find the table full, and one object
more than slots, so that an object that a file still has open and a full table
exist together. Four pages are enough for two disjoint regions, an offset inside
one, and requests that are unaligned, empty or pass the last address. One file is
enough to hold a region across its destroy; that several files share one correctly is
proved for any number of them (section 4). `MaxWindows` is 1 in all runs: a window
depends on the region only.

For the clients, the interesting case is a request that outlives the process that
sent it: two connections are enough for it to be under way while the same user's
next process calls, and with one key every such request concerns the same entry.
The pool of three blocks moves the key from block to block. The clients disagree on the size of
a block, and each resolves keys of the other's host: with `MaxWord` 15 the last block of host
`h2` lies, for the client with blocks of 8, at an offset of 16, which wraps to 0, and the one
before it at 8, beyond the end of the mapping. `Connections` and the commands are the only
bounds. Registration by hand and clients without a configuration
are in the model but not among the run's commands; for them there are the proofs (section 4).

For the tools, a word of four bits with pages of 2 has every remainder, windows that
touch the end of their region, sums that pass the last address, and sizes that wrap,
while a command line still takes every value. One device number is enough for a mapping to
be replaced by another, of the same or another identifier, under a tool that has
looked it up. With `MaxUnsigned` 3, the count of blocks is truncated and
clipped. In *fill*, 13 bytes exceed what a halving series adds up to, the array of
capacity 1 doubles twice, and an allocation takes two buffers to compare. In *editor*, two
entries of history and lines of two characters, one of them a blank, make every key's
cases differ; longer lines are more of the same.

Properties, and what they would catch:

* `LockDiscipline`: the lock's holders are exactly the handlers between acquiring
  and releasing, a writer is alone, and writers hold it exclusively. Broken by any
  return or exception that leaves the lock held.
* `PoolPartition`: ids below `next_fresh_block` are split without repetition between
  `allocated_blocks` and `recycled_blocks`.
* `IndexMatchesPools`: a bijection of keys and allocated blocks, at every iteration.
* `ChecksStillHold`: what the first loops of AllocBlocks and FreeBlocks and the scan
  of BatchExist saw is still true in every later iteration.
* `FrontOfNonEmpty`: `recycled_blocks.front()` is always defined.
* `AvailableExact`: `available_blocks_` equals the sum over pools modulo the word,
  up to the blocks of the loop that is under way.
* `ImplementsDirectory`: refinement. `TakeEffect` of the directory happens in the
  step that computes the reply; while a batch loop runs, the mapping undoes what
  it has done so far (`AbstractQueue`, `AbstractDirectory`).
* `FaultsContained`: one failed allocation costs a pool one block at most, and no key
  names a block that was never handed out. Broken if a loop changed the pools for the whole
  batch before the keys, or if a handler could be left in a second place per failure.
* `HandlersAdvance`: each step makes smaller what some handler has left to do (`Remaining`), or
  begins one, and makes larger what none under way has. Broken by a loop that does not go
  on to its next key, or a handler that begins again after an exception.
* `Answered` (liveness): once clients stop sending requests, all are answered.
* `BitmapMatchesTable`, `IdentifiersUnique`: what is checked in one locked section
  still holds in the next, whoever failed in between.
* `ReferencesCounted`: a region's count is that of those who will give a reference
  back. An open that takes none, or a close that gives two, breaks it.
* `NoUseAfterFree`: table, handlers and files point to allocated objects.
* `DevicesMatchTable`: when nobody works on an id, there are one node and one cdev under
  its number if it has a mapping, and none if it has none. Broken by an error path that
  undoes too little or too much. That the one cdev is the mapping's own is
  `NodeOpensItsMapping`, which does not hold.
* `MappedInsideRegion`: windows lie in the region opened, even after its destroy.
* `FilesKeepTheirRange` (action property): no step changes the range behind an open
  file, in particular none that reuses its memory.
* `UnloadLeavesNothing`: unloading, or a load that fails half-way, leaves no region,
  node, cdev or registration.

* `HeldBlocksExist`: what a user was told stays true although other clients call,
  calls get lost and processes restart; `doubt` is the exact exception, and without it
  TLC finds a free that arrives after the key was allocated again.
* `RestartedClientJoins`: a registration is repeatable whatever became of the last.
* `AccessInsideMapping`, `AccessStaysInBlock`: the bytes copied, in unbounded arithmetic.
  The second speaks of blocks whose host was registered with the client's own block size,
  and holds for sizes within a block.
* `GpuReleased`: every path through the GPU calls releases what it acquired.

* `AccessCovered`: what a tool reads or writes is at the offset its command line gives,
  inside its mapping, inside the region, and inside what the GPU was given. Broken by any
  error in the page arithmetic or in the tests for overflow.
* `MappedInsideRoom`: `get_unmapped_area`'s rounding stays inside the area found.
* `AttachedWhileMapped`: on no path is memory unmapped, or its file closed, while the GPU
  is attached to it.
* `NothingLeft`: success means that nothing is left behind, the VA to PA mapping in
  particular, which outlives the process. Ctrl-C and errors do leave it (section 6).
* `EveryByteOnce`: the bandwidth tests' kernels divide a transfer exactly.
* `OpensWhatWasNamed`: a tool opens the device it was told to, and hands the GPU that
  device's addresses; `replaced` is the exact exception.
* `StopEnds` (liveness): a tool that has been asked to stop, once, ends, from whatever stage
  the signal found it in, but for the two stages around `pause()`. Broken by a
  loop that does not look at `stop_requested`.
* `HoldEndsOnSignal` (liveness): the same for `register_mm` without the exception. It does not
  hold.
* `ResidentListed`: what a process holds on each GPU is what its list says, whatever fails,
  and never more than the target.
* `SuccessMeansIntact`: exit status 0 means every byte of every GPU was compared and equal.
* `FillStops` (liveness): the halving loop ends.
* `ScreenMatches`: the row shown is the line Enter returns.
* `DraftReturns`: back from the history, the line is what it was before.
* `CtrlCCancels`: no line is still being read after a Ctrl+C. It does not hold; that a second one
  in a row cancels (`SecondCtrlCCancels`) is proved in section 4.

`Spec` of the clients has no fairness: users need not type, and the Master need not
come back. `Spec` of the driver has no fairness and no liveness property: none of its steps
waits for anything but the lock, which is free between steps. Deadlock is checked
in all runs but `tools`, whose programs end.

**Fairness.** `FairSpec` has weak fairness on each worker's handler: the operating
system schedules a runnable thread, and a thread blocked on the mutex is woken.
There is none on `Call` (clients need not send anything) and no strong fairness on
acquiring the lock: `std::shared_mutex` does not promise that a writer gets in
between overlapping readers. This is why `Answered` assumes that requests stop.
`FairFaultSpec` is the same for handlers that may throw; that an allocation fails is never
required.
`ToolFairness` has weak fairness on the tool's own steps only, because its calls return. There is
none on `Signal`: nobody need press Ctrl-C, or press it again. There is none on
`WaitForUnregister`, which waits for a user, and none on a failure in the midst of
measuring, so that no error has to occur for a measurement to end (`CallReturns`). `FillFairness`
is on the steps of the loop that succeed or are refused, and not on `AppendFails`, so
that no error has to occur for the loop to end. The line editor has no liveness:
keys need not come.

Every property has a mutant of the code that breaks it (`PROJECT.json`); the mutated
operators stand before the originals, marked `Mutant:`.

## 4. Proofs

### The Master service

`MasterServiceProofs` proves, for any set of workers, finite set of hosts, keys,
requests and word size, that the following hold in every behaviour of
`MasterService!Spec`:

| Theorem | Property |
|---|---|
| `Invariance` | `IInv`, the inductive invariant |
| `TypeCorrect` | `TypeOK` |
| `LockSafe` | `LockDiscipline` |
| `PoolsSafe` | `PoolPartition` |
| `IndexSafe` | `IndexMatchesPools` |
| `ChecksSafe` | `ChecksStillHold` |
| `FrontSafe` | `FrontOfNonEmpty` |

Assumptions: `KeyAssumption` (lower-casing a valid key gives a valid key and is
idempotent), `HostAssumption` (finitely many host ids: they are 32-bit),
`WordAssumption`, `RequestAssumption` (requests are well typed) and
`ThreadAssumption` (the null values are not threads, requests, replies or hosts).

The properties are not inductive one by one. `IInv` adds what each stage of a
handler knows: `HandlerOK` (the request passed validation, the cursor's range, the
host of a running batch is registered), `PoolCounts` (the allocated set is finite
and allocated plus recycled make up the ids handed out) and `AllocCovered` (the
blocks an AllocBlocks loop still needs are there). The argument for a loop is: the
checks establish `ChecksHold` and `Covered` for the whole batch; the exclusive lock
makes the handler the only one in its critical section (`WriterAlone`), so nobody
disturbs them; each iteration takes a block the partition says is not allocated and a
key the check says is absent, and since the keys of a validated batch are
distinct (`ValidatedKeys`), the rest of the batch is undisturbed. There is one step
lemma per action; `OtherThreads` and `FrameOfStep` dispose of the workers that do
not move.

### The Master implements the directory

`MasterDirectoryProofs` proves, from the same assumptions:

| Theorem | Property |
|---|---|
| `ProgressInvariance` | `RInv`, the invariant of the refinement |
| `AvailableSafe` | `AvailableExact` |
| `Implementation` | `ImplementsDirectory`: `Spec => Directory!Spec` under the mapping of `MasterService` |

`IInv` says that what a loop will still do is possible; the refinement also needs that what
it has done can be undone by the mapping. `RInv` adds, for each handler (`Progress`): it has a
request and no reply exactly while it owes one (`Owes`); the list of an AllocBlocks names the
keys it has inserted, with the blocks they have (`AllocProgress`); the ids freed so far are the
last of the recycled ones, in the request's order, and their keys are gone (`FreeProgress`);
BatchExist's table has, for each host, the positions scanned so far in their order, and `best`
is the host that was first to have as many (`ScanProgress`). It also says that a pool has the
size that was registered (`PoolSizes`), and `AvailableExact`.

A step of a handler is then one of three things to the directory. An iteration of a loop changes
nothing there: the block an AllocKey takes from the front of the pool is the block that the mapping
puts back at the front (`FreeIds` of one id more taken), and likewise for the block that a FreeKey
returns at the end. The step that computes a reply is `TakeEffect`: there the mapping stops
undoing, and the whole batch happens at once, with the reply that the directory gives. All
other steps stutter, but for `Call` and `Return`, which are the directory's. For BatchExist it is
shown that the best host of the scan, with ties going to whoever was first to reach that number, is
the host that the directory's definition by matching prefixes chooses.

`AvailableExact` is about a sum over all hosts, in words. A fold is a recursive function, and
the library's induction theorems cannot be instantiated here; `SumTheorems` therefore proves
from the least counterexample that the function which the fold chooses exists, is
unique, and can be unfolded at any element (`SumAnyFirst`), and from this that changing
one pool changes the sum by as much (`SumChanged`). `RestAdded` does the same for `% 2^w`.

One thing in the model was wrong, and the proof of the step `Count` showed it: the directory's
`AllocatedBlockCount` did not wrap, as the `uint64_t` sum in the code does (master_service.cpp:302).

Only model-checked: `Answered` (liveness is beyond the prover; `HandlersEnd` below is the part
of it that is a safety property).

### Failed allocations

`MasterFaultProofs` proves about `MasterServiceFaults`, from the same assumptions and any number
`MaxFaults` of failures:

| Theorem | Property |
|---|---|
| `FaultInvariance` | `FaultInv`, the inductive invariant |
| `LockSurvivesFaults` | `LockDiscipline` |
| `ChecksSurviveFaults` | `ChecksStillHold` |
| `FaultDamageBounded` | `FaultsContained` |
| `SafeUntilFault` | `RInv` as long as no allocation has failed |
| `HandlersEnd` | `HandlersAdvance` |
| `NoFaultsIsService` | if `MaxFaults` is 0, `FaultSpec` implies `Spec` and the refinement of `KeyDirectory` |

The partition of a pool, the bijection of keys and blocks, and the count of available blocks do not
survive (run `faults`, section 6). What does is divided in two.

The lock and the checks need no partition. `MasterServiceProofs` therefore proves the
lock's and the handlers' half of `IInv` apart from the pools: `LocalOK` says what a handler's stage
knows, `GuardStep` that nobody else's step disturbs it. In an iteration that throws, the step is a
step of the loop that stops half-way, so the same lemmas serve: an AllocBlocks that is left
between its two containers has added no key that another handler has looked for, and the
exclusive lock is released only by `Unlock`.

The damage is a count. `Claims(h)` is how many ids of `h` a key or the queue still names, each
as often as it is named. Without failures it is the number of ids handed out. An
iteration keeps the difference; `ThrowAllocating` takes an id away that nobody names, and
`ThrowFreeing` leaves one named twice, so that the difference moves by at most one, and so
does `faults`. Both bounds are needed, since the two errors go opposite ways. Counting each id as
often as it is named matters: after `ThrowFreeing` a block may be in the queue while a key, or a
second entry of the queue, names it too, and `FreeOne` pushes it whether or not it erased
anything. `BlocksHandedOut` is inductive beside it.

`SafeUntilFault` and `NoFaultsIsService` say that the fault model adds nothing else: `Crash` is
impossible before a failure, since `RInv` makes the front of the queue defined (`FrontHeld`).

`HandlersEnd` is the safety half of `Answered`: `Remaining(t)` is a natural number (`RemainingNat`),
a handler's own steps make it smaller (`HandlerMoves`, `ThrowMoves`, `MovesDescend`), and other
workers' steps leave it alone, or end everything (`Crash`). So a request that is never answered is
one whose handler waits for the lock for ever. That the lock is given back is `LockDiscipline`, and that
its waiters then get it is fairness, which TLC assumes and checks in `Answered`.

### The driver

`PhysmapDriverProofs` proves every property of the `driver` run, for any table size,
page size, address space, tasks and files (finitely many), objects and requests:

| Theorem | Property |
|---|---|
| `DriverInvariance` | `IInv`, the inductive invariant |
| `DriverTyped` | `TypeOK` |
| `IdentifiersSafe` | `IdentifiersUnique` |
| `ReferencesSafe` | `ReferencesCounted` |
| `MemorySafe` | `NoUseAfterFree` |
| `DevicesSafe` | `DevicesMatchTable` |
| `MappingsSafe` | `MappedInsideRegion` |
| `RangesSafe` | `FilesKeepTheirRange` |
| `UnloadSafe` | `UnloadLeavesNothing` |
| `BitmapSafe` | `BitmapMatchesTable` |

All but `BitmapSafe` assume `"list" \notin IdSources`, and `driver_race` shows that some
such assumption is needed. The others are `DriverAssumption`: sizes are
positive, requests have the fields of `physmap_create_req`, there are finitely many
files and tasks (counts must be numbers), and `Null` is no object or identifier.

`IInv` says who owns what. An active id has at most one owner (`IdsOwnedOnce`): a
task that is making it, a task that was told to destroy it, or the user who
got it from a create (`known`). The owner alone takes the region out of the table
(`TakenOut`), and holds it alone from then on (`HeldOnce`) until its `Put`. With ownership
each device call can be accounted for: a node exists because of a
finished mapping or because of the one task that is about to remove it
(`NodesAccounted`), and so a create that took over the id cannot
lose its node to the old destroy. Cdevs can only be counted, because `cdev_del` may take
another's: under each number there is one for the mapping, once its `cdev_add` has been done
(`Added`), and one for each destroy that has not come to its `cdev_del` (`CdevsAccounted`). Each
of these has one to take, and the number comes out right whoever took whose (`ListMoves`, `NewestGoes`, `CountKept`). `DevicesSafe` is this statement about
numbers. It does not imply `NodeOpensItsMapping`, which `driver_reuse` refutes.
`NothingLeaked` and the equation `ReferencesCounted` meet when a reference is dropped:
the count reaches zero exactly when nobody is left (`PutStep`, `ReleaseStep`), and in
`ExitStep`, where the table holds the only reference to each region.
There is one lemma per step, and lemmas for what groups of steps leave alone
(`BuilderMoves`, `HolderMoves`, `OutsideMoves`, `OwnershipKept`). That
`find_first_zero_bit` returns a clear bit of the table rests on `MinMember`, proved
from the well-foundedness of the naturals.

`BitmapSafe` needs none of it: each locked section changes slot and bit together, so
the smaller invariant `TableInv` is inductive even if destroys race with creates.

Beyond the prover and not stated: liveness.

### The clients

`ClientProofs` proves every property of the `client` run, for any number of
clients, connections, hosts, configuration lines, commands and for any word, in every
interleaving with lost connections, killed clients and restarts of the Master:

| Theorem | Property | Holds if |
|---|---|---|
| `ClientInvariance` | `CInv`, the inductive invariant | |
| `ClientTypeCorrect` | `TypeOK` | |
| `GpuSafe` | `GpuReleased` | |
| `AccessSafe` | `AccessInsideMapping` | |
| `HeldSafe` | `HeldBlocksExist` | |
| `AccessStays` | `AccessStaysInBlock` | `Agreed`, `SizesFit` |
| `RestartSafe` | `RestartedClientJoins` | `Agreed`, `HostsFit` |

`ClientAssumption` gives the shape of configuration and commands. The three hypotheses of the
last two theorems are about users, and the client does not check them:

* `Agreed`: nobody registers by hand, and the clients of one host have one `--block-size`. The
  code has every client register its host from its own options (client.cpp:539), and the
  Master compares only with what the same host said before.
* `SizesFit`: no write or get has a size larger than a block; section 6 says what
  happens otherwise.
* `HostsFit`: what the configuration says for a client's host is a registration that
  the Master accepts, and the sizes of all hosts add up to at most a word. The Master refuses a
  host whose blocks do not fit its count (master_service.cpp:128).

The instance of the `client` run satisfies all three, so that none of them excludes every state.

`CInv` ties three processes together. `Conversations`: nobody shares a connection, a request
and its answer are never both on it, and what is on the connection of a client that waits is
the request of the command he gave, or an answer to that request; what a killed client leaves
behind is on a connection that no other gets. With this, `Resolved` reads the answer
to its own `Exist`. `GpuReleased` and `AccessInsideMapping` are inductive beside it.
The product `block_id * block_size` wraps, so the tests of `WritableBlockAddress` must be shown to
exclude that for any id the Master may name.

`HeldSafe` needs, beside it, `HInv` for each host with one client: the keys held and not in
doubt name their blocks in the Master's index; every free of that host that is under way
is that client's current command, or concerns keys in doubt only, however old it is;
and what an answer on its way grants is in the index already. The argument is that a
block leaves the index only by a free of its own host (`IndexKept`).

`AccessStays` and `RestartSafe` share `AInv`: all lines loaded name different hosts, and every
registration in the Master or on its way is the one that the configuration gives
(`FromConfig`), so any two for a host are equal (`SameRegistration`). The Master can then
refuse a registration only because its sum would overflow, and the sum of what is registered
is at most that of the configuration (`SumMonotone`, `SumOfPart`).

Two things in the model were wrong: `doubt` was typed as a set of valid keys, but a user may name
others in a free that gets lost, and nothing said that `Null` is none of the values it stands beside.

### The tools

`PhysmapToolsProofs` first proves about the arithmetic, for every word, page size, alignment and launch limit that
`WordAssumption` and `LaunchAssumption` allow:

| Theorem | Says |
|---|---|
| `WindowCovers` | the window of `physmap_memtest` and `physmap_mc_memtest` covers the access, page-aligned and without wrapping |
| `WholeDeviceCovers` | so does the whole device of `physmap_mc_memtest_v2p` |
| `UnmappedAreaInside` | the aligned address is in the area found, and so is the end of the mapping |
| `StrideOnce`, `ChunkOnce` | each byte belongs to exactly one thread; for chunks, if the transfer and one grid fit in a word |

The provers know little about division, so everything rests on three lemmas: `DivMod`
(quotient and rest), `Multiple` and `RestUnique` (the same number has one quotient and
rest). That the alignment divides the number of words (both are powers of 2) is what
keeps `AlignVa` from landing below the area after a wrap.

It then proves the safety properties of `PhysmapTools`, from
`RegionAssumption` (what `physmap_create_region` accepts; identifiers are not paths) and the
two above:

| Theorem | Property |
|---|---|
| `ToolInvariant` | `IInv`, the inductive invariant |
| `AccessIsCovered` | `AccessCovered` |
| `MappingInsideRoom` | `MappedInsideRoom` |
| `AttachmentInsideMapping` | `AttachedWhileMapped` |
| `SuccessLeavesNothing` | `NothingLeft` |
| `OpenedIsNamed` | `OpensWhatWasNamed` |
| `EachByteOnce` | `EveryByteOnce`, if no region is within one grid of the largest word |
| `ToolTyped` | `ToolTypeOK` |

`IInv` ties everything to the stage: `HoldsInv` says what is held there, `WindowInv` that the
window covers the access, `EntryInv` what the lookup has checked, and `NameInv` that the
name still means the device: before `open` it speaks of the driver's table, after it of
the open file. The steps between two stages share `InsideStep`, the ends of a process
`ExitStep`. `CommandLine` is what the option parsers guarantee.

`ToolTyped` adds the types of all variables, which `IInv` does not contain: that a window and its
length are machine words is shown from the tests of `map_physmem` (`WindowsAreWords`), and that
its room ends in the address space from the kernel's. The proof showed one thing wrong in the
model: `mmap` rounds a length to pages and refuses one that rounds to 2^64, that is to 0, but the
model let the anonymous mappings of `register_mm` and the bandwidth test have 2^64 bytes at address 0.

`ToolsProofs` proves the properties of the line editor for any set of characters with a
blank and without the control keys (`EditorAssumption`), and for lines and histories of
any length:

| Theorem | Property |
|---|---|
| `EditorInvariant` | `EInv`, the inductive invariant |
| `EditorTyped` | `EditorTypeOK` |
| `ScreenFaithful` | `ScreenMatches` |
| `DraftSafe` | `DraftReturns` |
| `InterruptSafe` | `SecondCtrlCCancels`, what is left of `CtrlCCancels` |

`EInv` adds to the types what holds away from the bottom of the history, where the line
typed there is the draft (`DraftOK`), and that after a first Ctrl+C the editor is outside of
an escape sequence (`KeyInv`), so that the next one cancels. Every key that edits goes through
`EditStep`; `WithoutPart`, `InsertedKey` and `WordStartInLine` say what erase, insert and the
search for the start of a word do to the length.

It proves the safety properties of `GpuFill`, for any number of GPUs, any sizes, and
lists of allocations of any length, from `FillAssumption` and `WordAssumption`:

| Theorem | Property |
|---|---|
| `FillInvariance` | `FInv`, the inductive invariant |
| `FillTyped` | `FillTypeOK` |
| `ResidentSafe` | `ResidentListed` |
| `SuccessSafe` | `SuccessMeansIntact` |

`ResidentListed` is nearly inductive; it needs that a chunk clipped to the rest of the target fits it
(`ClippedFits`) and that the sum of a list grows by what is appended (`SumOfList`).
`SuccessMeansIntact` is a statement about the end. Until then (`Noticed`) each spoiled byte has
either made a GPU fail, or set `rc`, or is of the current GPU and still ahead of the
comparison: a piece ends where the next begins, and the last piece at the end of the
allocation, whatever the size of the buffer. That this size is a number at all is
`HalvesAreNumbers`, about a recursive function, again by a least counterexample.

`MCTools` puts the three programs side by side, and `ToolsProofs` ends with that composition:

| Theorem | Says |
|---|---|
| `ProgramsApart` | `Spec` of the composition implies `ToolSpec`, `FillSpec` and `EditorSpec`, their fairness included |
| `ProgramsTyped` | `TypeOK` of the composition |
| `ProgramsSafe` | all its other invariants but `EveryByteOnce`, which `EachByteOnce` proves under its hypothesis |

They share no state, so a step of one is a stutter of the others (`OneMoves`), and what is
proved of each alone carries over.

Only model-checked: `StopEnds` and `FillStops` (liveness).

## 5. Not modelled

coro_rpc's transport and connection handling, printing, the text of messages, build
files and tests; the option parsing of the Master and the client (that of the tools is
`CommandLines`); `physmapctl list`, which only prints, and `create_physmap.sh`, a loop of
`physmapctl create`; of each component what section 2 lists as left out. The tests are read
for what they expect; their sequences of requests are among those `service` explores.

## 6. Findings

* **`driver_race`.** A create publishes its region (physmap_driver.c:246) before the
  cdev and the node exist (lines 252-257). A destroy of the id, which `list` already
  shows, finds nothing to remove and frees the region; the create then makes the node
  and reports success. The node stays without a mapping, against README.md:178 of
  `physmap_char` ("Destroying a mapping removes the device node."), and the creator has
  written to freed memory.
* **`driver_close`.** The region embeds its cdev (line 30) but is freed by its own count
  (line 109), which does not include the VFS's reference to the cdev. A file whose
  open began before a destroy and found the next mapping of the same id holds a
  cdev whose memory is gone, while README.md:178 says that open files "remain valid until
  closed". The same count is at fault at the last close after a destroy: the region is
  freed by `Release`, the cdev dropped only by `DropCdev`.

* **`driver_reuse`.** A destroy clears the id in the table (physmap_driver.c:317) and deletes node
  and cdev afterwards (line 197). In the run a create takes the id in between and adds its
  cdev under the same number; the old `cdev_del` removes that one, the newest, and its
  own stays registered while line 109 frees the memory it lies in. The new node then opens a
  freed cdev. README.md:10 says that applications "open `/dev/physmapN`" to reach the
  requested range.

* **`faults`.** AllocBlocks promises to "reserve all growable containers before changing
  allocation state" (master_service.cpp:167), but `reserve` reserves buckets: each insert
  still allocates a node, and each free builds a canonical key. A `std::bad_alloc` there
  leaves half a batch done while the client is told that it failed: blocks allocated
  under the keys done so far, a block that is in no pool and under no key, or (in
  FreeBlocks, "all-or-nothing", line 199) a key that names a block which is free and may be
  given to another key. A lost block is still counted as available, so that a later
  AllocateOne may read `front()` of an empty queue.
* **`client_stale`.** Nothing keeps the block allocated between the reply to `Exist` and
  the copy (client.cpp:699-708): in the run the owner frees the key and allocates another,
  which gets the block, before the first client's GPU fills it.

* **`hold`.** A signal between `register_mm`'s test of `stop_requested` and `pause()`
  (register_mm.cu:357) sets the flag, and the tool sleeps all the same until another signal comes.
  README.md:104 says that it "stays alive until Ctrl-C or SIGTERM".
* **`interrupt`.** The line editor reads what follows a lone Esc as part of a sequence
  (line_editor.cpp:174), so a Ctrl+C or Enter after it is swallowed, although README.md:131
  of the Master says that Ctrl+C cancels the current input. The second one does.

Met while modelling, without a run of their own:

* `RegisterMemory` (master_service.cpp:128) guards against "total registered block count
  overflows uint64_t" but compares the number of *free* blocks. Once blocks are allocated,
  registrations whose totals exceed a word are accepted, and when the keys are freed
  `available_blocks_` wraps to a small number. `AvailableExact` is therefore stated modulo
  the word.
* The size of a write or get is compared with the rest of the mapping (client.cpp:654), not
  with the block, so a larger size reaches into the blocks of other keys. This is
  what the hypothesis `SizesFit` excludes.
* The failure path of a create (physmap_driver.c:268-274) clears the slot and drops a reference
  without looking whether the slot is still its own. A destroy of the id, known from the list,
  may have done both: the count is then one too low, and memory that another create has got
  meanwhile is freed while a file is open on it. `ReferencesCounted` is therefore
  checked and proved for ids that creates returned.
* physmap_mc_bwtest_v2p.c:345 refuses a size of 0 but looks at the number of MiB, which line 617
  multiplies afterwards: `--size 16T` becomes 0 bytes, transfers nothing, and passes validation.
* Nothing ties the device that a tool opens to the entry of the list it has resolved
  (physmap_mc_bwtest_v2p.c:166): if the mapping is replaced in between by one of another
  identifier, the tool opens that, and a V2P tool gives the GPU the addresses of the old one.
  `OpensWhatWasNamed` excepts this by `replaced`.
* `--min-chunk-mib` of a multiple of 2^44 shifts to 0 in mvxi_test, and the halving loop may
  go on with chunks of 0 bytes for ever. `FillStops` excludes it.
* Ctrl-C in `physmap_mc_memtest_v2p`, and any failure between its mapping and its
  unmapping, leave the VA to PA mapping in the kernel's GPU driver; the same failures in the
  V2P bandwidth test do too.
* The driver accepts an identifier that begins with a slash; the tools take it for a path.

## 7. Plan

Done: every component that section 5 does not leave out is modelled and checked, and every safety
property of a passing run, the refinement of the Master's directory included, is proved for all
values of the constants. Three of the properties that hold are liveness and stay with TLC: `Answered`,
`StopEnds` and `FillStops`. The safety fact that the first rests on is proved (`HandlersEnd`); next would come the
same for the other two, whose loops are bounded by the targets and stages of the tools.
