--------------------------- MODULE PhysmapDriver ---------------------------
(***************************************************************************)
(* The kernel module physmap_char/physmap_driver.c: a table of physical    *)
(* address ranges, each with a character device that maps it into user     *)
(* space.  Tasks run ioctls on the control device, files are opened,        *)
(* mapped and closed on the data devices, and the module is loaded and     *)
(* unloaded.                                                               *)
(*                                                                         *)
(* regions_lock is held in short sections with nothing else in between, so *)
(* each section is one step.  What a create or a destroy does outside them *)
(* is one step per call into the kernel's device model: two calls of        *)
(* different tasks come in any order.                                      *)
(*                                                                         *)
(* The device model and the VFS are external: cdevs are the registrations  *)
(* of character devices under each number, nodes the device nodes; an open *)
(* file holds the cdev it was opened through until after its release, an   *)
(* mmap holds its file, and a module with a running handler or an open     *)
(* file is not unloaded.                                                   *)
(***************************************************************************)
EXTENDS Integers, Sequences, FiniteSetsExt

CONSTANTS
    Tasks,          \* the processes that use the control device
    Files,          \* the files opened on data devices
    Objects,        \* the memory that kzalloc can hand out for a region
    Identifiers,    \* the valid strings for a region's identifier
    MaxMappings,    \* PHYSMAP_MAX_MAPPINGS
    PageSize,       \* PAGE_SIZE
    MaxAddress,     \* the largest phys_addr_t
    CreateRequests, \* the arguments of PHYSMAP_IOC_CREATE
    IdSources,      \* where the ids come from that destroys name
    MaxWindows,     \* bound: the mappings of one file at a time
    Null

CreateRequest == [identifier : Identifiers \cup {Null}, phys_addr : Nat, size : Nat]

ASSUME DriverAssumption ==
    /\ MaxMappings \in Nat \ {0}
    /\ PageSize \in Nat \ {0}
    /\ MaxAddress \in Nat
    /\ CreateRequests \subseteq CreateRequest
    /\ IdSources \subseteq {"create", "list"}
    /\ Null \notin Objects \cup Identifiers
    /\ IsFiniteSet(Tasks) /\ IsFiniteSet(Files)
    /\ MaxWindows \in Nat

Ids == 0..(MaxMappings - 1)

VARIABLES
    module,     \* unloaded, loading, unwinding or ready
    control,    \* how many of its four registrations physmap_init has made
    heap,       \* the objects that are allocated
    mem,        \* what each object holds; kfree leaves it there
    regions,    \* id -> the object of its region, or Null
    id_bitmap,
    cdevs,      \* id -> the objects whose cdev has its number, the newest first
    nodes,      \* the ids of existing device nodes
    pc,         \* task -> the next thing its ioctl does
    region,     \* task -> the region pointer in its ioctl
    id,         \* task -> the id there
    args,       \* task -> the create_req of its ioctl
    known,      \* the ids that a user may destroy
    stage,      \* file -> closed, opening, open or dropping
    minor,      \* file -> the id of the node it was opened through
    cdev,       \* file -> the object whose cdev it holds
    private,    \* file -> private_data
    windows     \* file -> the physical ranges mapped through it

moduleVars == <<module, control>>
memVars    == <<heap, mem>>
tableVars  == <<regions, id_bitmap>>
kernelVars == <<cdevs, nodes>>
taskVars   == <<pc, region, id, args>>
fileVars   == <<stage, minor, cdev, private, windows>>
vars == <<moduleVars, memVars, tableVars, kernelVars, taskVars, known, fileVars>>

Region == [refs : Int, phys_addr : Nat, size : Nat,
           identifier : Identifiers \cup {Null}, id : Nat, alive : BOOLEAN]

\* what kzalloc leaves in an object
Zeroed == [refs |-> 0, phys_addr |-> 0, size |-> 0,
           identifier |-> Null, id |-> 0, alive |-> FALSE]

Init ==
    /\ module = "unloaded"
    /\ control = 0
    /\ heap = {}
    /\ mem = [x \in Objects |-> Zeroed]
    /\ regions = [i \in Ids |-> Null]
    /\ id_bitmap = {}
    /\ cdevs = [i \in Ids |-> << >>]
    /\ nodes = {}
    /\ pc = [t \in Tasks |-> "idle"]
    /\ region = [t \in Tasks |-> Null]
    /\ id = [t \in Tasks |-> 0]
    /\ args = [t \in Tasks |-> Null]
    /\ known = {}
    /\ stage = [f \in Files |-> "closed"]
    /\ minor = [f \in Files |-> 0]
    /\ cdev = [f \in Files |-> Null]
    /\ private = [f \in Files |-> Null]
    /\ windows = [f \in Files |-> {}]

-----------------------------------------------------------------------------
(* Loading: the numbers and class of the devices, then the control device. *)

ModuleInit ==
    /\ module \in {"unloaded", "loading"}
    /\ control < 4
    /\ \/ /\ control' = control + 1
          /\ module' = IF control' = 4 THEN "ready" ELSE "loading"
       \/ module' = "unwinding" /\ UNCHANGED control
    /\ UNCHANGED <<memVars, tableVars, kernelVars, taskVars, known, fileVars>>

(* The labels err_cdev, err_class and err_unregister, one after the other.  *)
ModuleUnwind ==
    /\ module = "unwinding"
    /\ control' = IF control = 0 THEN 0 ELSE control - 1
    /\ module' = IF control' = 0 THEN "unloaded" ELSE "unwinding"
    /\ UNCHANGED <<memVars, tableVars, kernelVars, taskVars, known, fileVars>>

-----------------------------------------------------------------------------
(* The table, under regions_lock.  *)

\* Mutant: two mappings may have one identifier
IdentifierNeverExists(identifier) == FALSE

IdentifierExists(identifier) ==
    \E i \in Ids : /\ regions[i] # Null
                   /\ mem[regions[i]].alive
                   /\ mem[regions[i]].identifier = identifier

FirstZeroBit == IF Ids \subseteq id_bitmap THEN MaxMappings ELSE Min(Ids \ id_bitmap)

\* Mutant: the result of find_first_zero_bit is not compared with the limit
NeverFull == FALSE

Full == FirstZeroBit >= MaxMappings

\* Mutant: an open does not take a reference of its own
ReferenceBorrowed(x) == mem' = mem

ReferenceTaken(x) == mem' = [mem EXCEPT ![x].refs = @ + 1]

\* Mutant: the object is freed whoever else refers to it
FreedByFirst(x) ==
    /\ mem' = [mem EXCEPT ![x].refs = @ - 1]
    /\ heap' = heap \ {x}

(* physmap_put_region: the last reference frees the object.  *)
PutRegion(x) ==
    /\ mem' = [mem EXCEPT ![x].refs = @ - 1]
    /\ heap' = IF mem[x].refs = 1 THEN heap \ {x} ELSE heap

\* Mutant: the id is not given back
ClearSlotKeepBit(i, x) ==
    /\ regions' = [regions EXCEPT ![i] = Null]
    /\ UNCHANGED id_bitmap
    /\ mem' = [mem EXCEPT ![x].alive = FALSE]

(* The section of err_clear and of destroy: slot, bit and flag together.  *)
ClearSlot(i, x) ==
    /\ regions' = [regions EXCEPT ![i] = Null]
    /\ id_bitmap' = id_bitmap \ {i}
    /\ mem' = [mem EXCEPT ![x].alive = FALSE]

-----------------------------------------------------------------------------
(* PHYSMAP_IOC_CREATE.  *)

Aligned(n) == n % PageSize = 0

ValidCreate(req) ==
    /\ req.identifier # Null
    /\ req.size > 0
    /\ Aligned(req.phys_addr) /\ Aligned(req.size)
    /\ req.phys_addr + (req.size - 1) <= MaxAddress

Idle(t) == module = "ready" /\ pc[t] = "idle"

Goto(t, step) == pc' = [pc EXCEPT ![t] = step]

(* A handler returns: its locals are gone.  *)
Return(t) ==
    /\ Goto(t, "idle")
    /\ region' = [region EXCEPT ![t] = Null]
    /\ id' = [id EXCEPT ![t] = 0]
    /\ args' = [args EXCEPT ![t] = Null]

Create(t) ==
    /\ Idle(t)
    /\ \E req \in CreateRequests, x \in Objects \ heap :
          /\ ValidCreate(req)
          /\ heap' = heap \cup {x}
          /\ mem' = [mem EXCEPT ![x] = Zeroed]
          /\ region' = [region EXCEPT ![t] = x]
          /\ args' = [args EXCEPT ![t] = req]
    /\ Goto(t, "publish")
    /\ UNCHANGED <<tableVars, kernelVars, id, known>>

Publish(t) ==
    /\ pc[t] = "publish"
    /\ IF IdentifierExists(args[t].identifier) \/ Full
       THEN /\ heap' = heap \ {region[t]}
            /\ Return(t)
            /\ UNCHANGED <<mem, tableVars>>
       ELSE /\ regions' = [regions EXCEPT ![FirstZeroBit] = region[t]]
            /\ id_bitmap' = id_bitmap \cup {FirstZeroBit}
            /\ mem' = [mem EXCEPT ![region[t]] =
                  [refs |-> 1, phys_addr |-> args[t].phys_addr, size |-> args[t].size,
                   identifier |-> args[t].identifier, id |-> FirstZeroBit, alive |-> TRUE]]
            /\ id' = [id EXCEPT ![t] = FirstZeroBit]
            /\ Goto(t, "cdev_add")
            /\ UNCHANGED <<heap, region, args>>
    /\ UNCHANGED <<kernelVars, known>>

(* The kernel keeps the registrations of a number as a list: cdev_add puts  *)
(* one in front, an open takes the first, and cdev_del removes the first of *)
(* its cdev's number, whosever cdev that registers.                        *)
NewestGone(i) ==
    IF cdevs[i] = << >> THEN cdevs ELSE [cdevs EXCEPT ![i] = Tail(@)]

CdevAdd(t) ==
    /\ pc[t] = "cdev_add"
    /\ \/ Goto(t, "device_create") /\ cdevs' = [cdevs EXCEPT ![id[t]] = <<region[t]>> \o @]
       \/ Goto(t, "err_clear") /\ UNCHANGED cdevs
    /\ UNCHANGED <<memVars, tableVars, nodes, region, id, args, known>>

(* device_create fails if there is a node of that name, or for lack of     *)
(* memory; then the cdev is deleted again.                                 *)
DeviceCreate(t) ==
    /\ pc[t] = "device_create"
    /\ \/ /\ id[t] \notin nodes
          /\ nodes' = nodes \cup {id[t]}
          /\ Goto(t, "copy_to_user")
          /\ UNCHANGED cdevs
       \/ /\ cdevs' = NewestGone(id[t])
          /\ Goto(t, "err_clear")
          /\ UNCHANGED nodes
    /\ UNCHANGED <<memVars, tableVars, region, id, args, known>>

ErrClear(t) ==
    /\ pc[t] = "err_clear"
    /\ ClearSlot(id[t], region[t])
    /\ Goto(t, "put")
    /\ UNCHANGED <<heap, kernelVars, region, id, args, known>>

(* The caller learns the id, or the mapping is destroyed again, by its id.  *)
CopyToUser(t) ==
    /\ pc[t] = "copy_to_user"
    /\ \/ Return(t) /\ known' = known \cup {id[t]}
       \/ /\ Goto(t, "unpublish")
          /\ region' = [region EXCEPT ![t] = Null]
          /\ UNCHANGED <<id, args, known>>
    /\ UNCHANGED <<memVars, tableVars, kernelVars>>

-----------------------------------------------------------------------------
(* PHYSMAP_IOC_DESTROY and PHYSMAP_IOC_LIST.  *)

(* A destroy names an id that a create returned, once, or one that a list  *)
(* showed if IdSources says so, or one that is out of range.                *)
Destroy(t) ==
    /\ Idle(t)
    /\ \E i \in known \cup {MaxMappings} : /\ id' = [id EXCEPT ![t] = i]
                                           /\ known' = known \ {i}
    /\ Goto(t, "unpublish")
    /\ UNCHANGED <<memVars, tableVars, kernelVars, region, args>>

Unpublish(t) ==
    /\ pc[t] = "unpublish"
    /\ IF id[t] >= MaxMappings \/ regions[id[t]] = Null
       THEN Return(t) /\ UNCHANGED <<mem, tableVars>>
       ELSE /\ ClearSlot(id[t], regions[id[t]])
            /\ region' = [region EXCEPT ![t] = regions[id[t]]]
            /\ Goto(t, "device_destroy")
            /\ UNCHANGED <<id, args>>
    /\ UNCHANGED <<heap, kernelVars, known>>

\* Mutant: only the cdev is deleted
NodeKept(t) == UNCHANGED nodes

NodeRemoved(t) == nodes' = nodes \ {mem[region[t]].id}

DeviceDestroy(t) ==
    /\ pc[t] = "device_destroy"
    /\ NodeRemoved(t)
    /\ Goto(t, "cdev_del")
    /\ UNCHANGED <<memVars, tableVars, cdevs, region, id, args, known>>

(* A cdev that cdev_add has not had in hand has no number yet.  *)
Unnumbered(x) == \E t \in Tasks : pc[t] = "cdev_add" /\ region[t] = x

CdevDel(t) ==
    /\ pc[t] = "cdev_del"
    /\ cdevs' = IF Unnumbered(region[t]) THEN cdevs ELSE NewestGone(mem[region[t]].id)
    /\ Goto(t, "put")
    /\ UNCHANGED <<memVars, tableVars, nodes, region, id, args, known>>

(* The end of a destroy and of a failed create.  *)
Put(t) ==
    /\ pc[t] = "put"
    /\ PutRegion(region[t])
    /\ Return(t)
    /\ UNCHANGED <<tableVars, kernelVars, known>>

Listed == {i \in Ids : regions[i] # Null /\ mem[regions[i]].alive}

List(t) ==
    /\ Idle(t)
    /\ known' = IF "list" \in IdSources THEN known \cup Listed ELSE known
    /\ UNCHANGED <<memVars, tableVars, kernelVars, taskVars>>

-----------------------------------------------------------------------------
(* The data devices.  *)

(* The VFS looks the node's cdev up and takes it, before the driver's open. *)
VfsOpen(f) ==
    /\ module = "ready" /\ stage[f] = "closed"
    /\ \E i \in nodes :
          /\ cdevs[i] # << >>
          /\ minor' = [minor EXCEPT ![f] = i]
          /\ cdev' = [cdev EXCEPT ![f] = Head(cdevs[i])]
    /\ stage' = [stage EXCEPT ![f] = "opening"]
    /\ UNCHANGED <<memVars, private, windows>>

(* physmap_data_open takes whatever region has the minor number by now.    *)
DataOpen(f) ==
    /\ stage[f] = "opening"
    /\ LET x == regions[minor[f]] IN
          IF x # Null /\ mem[x].alive
          THEN /\ ReferenceTaken(x)
               /\ private' = [private EXCEPT ![f] = x]
               /\ stage' = [stage EXCEPT ![f] = "open"]
          ELSE /\ stage' = [stage EXCEPT ![f] = "dropping"]
               /\ UNCHANGED <<mem, private>>
    /\ UNCHANGED <<heap, minor, cdev, windows>>

Window(first, length) == first..(first + length - 1)

\* Mutant: the length is compared with the whole region
InsideRegardlessOfOffset(x, offset, requested) ==
    offset <= mem[x].size /\ requested <= mem[x].size

Inside(x, offset, requested) ==
    offset <= mem[x].size /\ requested <= mem[x].size - offset

(* remap_pfn_range may fail; the system call passes whole pages.  *)
Mmap(f) ==
    /\ stage[f] = "open" /\ Cardinality(windows[f]) < MaxWindows
    /\ \E offset, requested \in {n \in 0..MaxAddress : Aligned(n)} :
          /\ requested > 0
          /\ Inside(private[f], offset, requested)
          /\ windows' = [windows EXCEPT ![f] =
                @ \cup {Window(mem[private[f]].phys_addr + offset, requested)}]
    /\ UNCHANGED <<memVars, stage, minor, cdev, private>>

Munmap(f) ==
    /\ \E w \in windows[f] : windows' = [windows EXCEPT ![f] = @ \ {w}]
    /\ UNCHANGED <<memVars, stage, minor, cdev, private>>

(* The last close of a file that is mapped nowhere.  *)
Release(f) ==
    /\ stage[f] = "open" /\ windows[f] = {}
    /\ PutRegion(private[f])
    /\ private' = [private EXCEPT ![f] = Null]
    /\ stage' = [stage EXCEPT ![f] = "dropping"]
    /\ UNCHANGED <<minor, cdev, windows>>

(* The VFS lets the cdev go after the driver's release or failed open.  *)
DropCdev(f) ==
    /\ stage[f] = "dropping"
    /\ stage' = [stage EXCEPT ![f] = "closed"]
    /\ minor' = [minor EXCEPT ![f] = 0]
    /\ cdev' = [cdev EXCEPT ![f] = Null]
    /\ UNCHANGED <<memVars, private, windows>>

-----------------------------------------------------------------------------
(* Unloading, when nothing else runs: physmap_destroy_region for each id.   *)

\* Mutant: the loop starts behind the first id
IdsButFirst == Ids \ {0}

ExitIds == Ids

ModuleExit ==
    /\ module = "ready"
    /\ \A t \in Tasks : pc[t] = "idle"
    /\ \A f \in Files : stage[f] = "closed"
    /\ LET gone    == {i \in ExitIds : regions[i] # Null}
           objects == {regions[i] : i \in gone}
           numbers == {mem[x].id : x \in objects}
       IN  /\ regions' = [i \in Ids |-> IF i \in gone THEN Null ELSE regions[i]]
           /\ id_bitmap' = id_bitmap \ gone
           /\ nodes' = nodes \ numbers
           /\ cdevs' = [i \in Ids |-> IF i \in numbers THEN NewestGone(i)[i] ELSE cdevs[i]]
           /\ mem' = [x \in Objects |-> IF x \in objects
                         THEN [mem[x] EXCEPT !.alive = FALSE, !.refs = @ - 1]
                         ELSE mem[x]]
           /\ heap' = heap \ {x \in objects : mem[x].refs = 1}
    /\ module' = "unloaded"
    /\ control' = 0
    /\ known' = {}
    /\ UNCHANGED <<taskVars, fileVars>>

-----------------------------------------------------------------------------
Ioctl(t) ==
    /\ \/ Create(t) \/ Publish(t) \/ CdevAdd(t) \/ DeviceCreate(t) \/ ErrClear(t)
       \/ CopyToUser(t)
       \/ Destroy(t) \/ Unpublish(t) \/ DeviceDestroy(t) \/ CdevDel(t) \/ Put(t)
       \/ List(t)
    /\ UNCHANGED <<moduleVars, fileVars>>

FileOperation(f) ==
    /\ \/ VfsOpen(f) \/ DataOpen(f) \/ Release(f) \/ DropCdev(f)
       \/ Mmap(f) \/ Munmap(f)
    /\ UNCHANGED <<moduleVars, tableVars, kernelVars, taskVars, known>>

Next ==
    \/ ModuleInit \/ ModuleUnwind \/ ModuleExit
    \/ \E t \in Tasks : Ioctl(t)
    \/ \E f \in Files : FileOperation(f)

Spec == Init /\ [][Next]_vars

-----------------------------------------------------------------------------
(* Properties *)

Steps == {"idle", "publish", "cdev_add", "device_create", "copy_to_user",
          "err_clear", "put", "unpublish", "device_destroy", "cdev_del"}

(* Every variable has its type; no id is outside the table, and no         *)
(* reference count is negative.                                            *)
TypeOK ==
    /\ module \in {"unloaded", "loading", "unwinding", "ready"}
    /\ control \in 0..4
    /\ heap \subseteq Objects
    /\ mem \in [Objects -> Region]
    /\ \A x \in Objects : mem[x].refs >= 0
    /\ regions \in [Ids -> Objects \cup {Null}]
    /\ id_bitmap \subseteq Ids
    /\ cdevs \in [Ids -> Seq(Objects)]
    /\ nodes \subseteq Ids
    /\ pc \in [Tasks -> Steps]
    /\ region \in [Tasks -> Objects \cup {Null}]
    /\ id \in [Tasks -> 0..MaxMappings]
    /\ args \in [Tasks -> CreateRequests \cup {Null}]
    /\ known \subseteq Ids
    /\ stage \in [Files -> {"closed", "opening", "open", "dropping"}]
    /\ minor \in [Files -> Ids]
    /\ cdev \in [Files -> Objects \cup {Null}]
    /\ private \in [Files -> Objects \cup {Null}]
    /\ windows \in [Files -> SUBSET SUBSET Nat]

(* The bitmap that hands out ids agrees with the table at every moment.    *)
BitmapMatchesTable == \A i \in Ids : i \in id_bitmap <=> regions[i] # Null

(* README.md: "The identifier must be unique among active mappings."       *)
IdentifiersUnique ==
    \A i, j \in Ids : regions[i] # Null /\ regions[j] # Null /\ i # j =>
       mem[regions[i]].identifier # mem[regions[j]].identifier

(* A region's count is one for the table or for the handler that took it   *)
(* out, and one for each file: it is freed by the last of them, not before. *)
Opened(x) == {f \in Files : private[f] = x}

HeldBy(t, x) ==
    region[t] = x /\ pc[t] \in {"device_destroy", "cdev_del", "put"}

Kept(x) ==
    (\E i \in Ids : regions[i] = x) \/ (\E t \in Tasks : HeldBy(t, x))

Counted(x) == mem[x].refs = Cardinality(Opened(x)) + IF Kept(x) THEN 1 ELSE 0

ReferencesCounted == \A x \in heap : Counted(x)

(* The table, the running handlers and the open files refer to allocated   *)
(* memory only.                                                            *)
NoUseAfterFree ==
    /\ \A i \in Ids : regions[i] \in heap \cup {Null}
    /\ \A t \in Tasks : region[t] \in heap \cup {Null}
    /\ \A f \in Files : private[f] \in heap \cup {Null}

(* Once no handler is at work on an id, it has a device node and a cdev is  *)
(* registered under its number, once, if it has a mapping, and neither if   *)
(* it has none: nothing is left of a mapping that has gone, nothing lacks   *)
(* of one that is there.                                                   *)
Busy(i) == \E t \in Tasks : pc[t] \notin {"idle", "publish"} /\ id[t] = i

DevicesMatchTable ==
    \A i \in Ids : ~Busy(i) =>
       /\ i \in nodes <=> regions[i] # Null
       /\ Len(cdevs[i]) = IF regions[i] # Null THEN 1 ELSE 0

(* README.md: "Other applications open `/dev/physmapN` and call `mmap(2)`   *)
(* to access the requested physical range": the cdev which an open of the   *)
(* node finds is that of the mapping.                                      *)
NodeOpensItsMapping ==
    \A i \in nodes : ~Busy(i) => cdevs[i] # << >> /\ Head(cdevs[i]) = regions[i]

(* README.md: "Destroying a mapping removes the device node."              *)
DestroyRemovesNode ==
    \A i \in Ids : ~Busy(i) /\ i \in nodes => regions[i] # Null

(* User space sees no physical page outside the region it opened, not even *)
(* after the mapping was destroyed, and no region passes the last address.  *)
MappedInsideRegion ==
    \A f \in Files : \A w \in windows[f] :
       /\ private[f] \in heap
       /\ w \subseteq Window(mem[private[f]].phys_addr, mem[private[f]].size)
       /\ w \subseteq 0..MaxAddress

(* An open file means the same range until it is closed, whatever is       *)
(* destroyed and created in the meantime.                                  *)
FilesKeepTheirRange ==
    [][\A f \in Files : private[f] # Null /\ private'[f] = private[f] =>
          /\ mem'[private[f]].phys_addr = mem[private[f]].phys_addr
          /\ mem'[private[f]].size = mem[private[f]].size]_vars

(* README.md: "Existing open file descriptors remain valid until closed":  *)
(* likewise the memory that holds the cdev a file was opened through.      *)
CdevOutlivesFile == \A f \in Files : stage[f] = "open" => cdev[f] \in heap

(* Nothing is left behind when the module is unloaded or fails to load.    *)
UnloadLeavesNothing ==
    module = "unloaded" =>
       /\ control = 0 /\ heap = {} /\ nodes = {} /\ id_bitmap = {}
       /\ \A i \in Ids : cdevs[i] = << >>

-----------------------------------------------------------------------------
(* The inductive invariant, when every destroy names an id of its own.     *)

Building(t) == pc[t] \in {"cdev_add", "device_create", "err_clear", "copy_to_user"}

\* t is the only one that may take the mapping with id i out of the table
Owns(t, i) == id[t] = i /\ (Building(t) \/ pc[t] = "unpublish")

\* the region of t is not in the table: not yet or no longer
Holds(t) == pc[t] \in {"publish", "device_destroy", "cdev_del", "put"}

\* t has still to make the device node of id i
Unfinished(t, i) ==
    id[t] = i /\ pc[t] \in {"cdev_add", "device_create", "err_clear"}

Finished(i) == regions[i] # Null /\ \A t \in Tasks : ~Unfinished(t, i)

IdsOwnedOnce ==
    /\ \A t, u \in Tasks : \A i \in Ids : Owns(t, i) /\ Owns(u, i) => t = u
    /\ \A t \in Tasks : \A i \in Ids : Owns(t, i) => regions[i] # Null /\ i \notin known
    /\ \A i \in known : regions[i] # Null

TableHolds ==
    \A i \in Ids : regions[i] # Null =>
       regions[i] \in heap /\ mem[regions[i]].id = i /\ mem[regions[i]].alive

Knows(t) ==
    /\ pc[t] \in {"idle", "unpublish"} => region[t] = Null
    /\ pc[t] = "publish" => /\ args[t] \in CreateRequests /\ ValidCreate(args[t])
                            /\ mem[region[t]].refs = 0
                            /\ Opened(region[t]) = {}
    /\ Building(t) => id[t] \in Ids /\ regions[id[t]] = region[t]
    /\ Holds(t) => region[t] \in heap /\ \A i \in Ids : regions[i] # region[t]
    /\ pc[t] \in {"device_destroy", "cdev_del"} =>
          id[t] \in Ids /\ mem[region[t]].id = id[t]

HandlerKnows == \A t \in Tasks : Knows(t)

HeldOnce ==
    \A t, u \in Tasks : Holds(t) /\ Holds(u) /\ region[t] = region[u] => t = u

FilesHold ==
    \A f \in Files :
       /\ private[f] \in heap \cup {Null}
       /\ stage[f] = "open" <=> private[f] # Null
       /\ stage[f] # "open" => windows[f] = {}

Reachable(x) ==
    \/ \E i \in Ids : regions[i] = x
    \/ \E t \in Tasks : Holds(t) /\ region[t] = x
    \/ Opened(x) # {}

NothingLeaked == \A x \in heap : Reachable(x)

\* t has not registered the cdev of id i yet, or no longer has it
Bare(t, i) == id[t] = i /\ pc[t] \in {"cdev_add", "err_clear"}

\* the mapping with id i has registered its cdev
Added(i) == regions[i] # Null /\ \A t \in Tasks : ~Bare(t, i)

\* t has still to delete a cdev with the number of id i
CdevOwner(t, i) == id[t] = i /\ pc[t] \in {"device_destroy", "cdev_del"}

CdevOwners(i) == {t \in Tasks : CdevOwner(t, i)}

CdevsCounted(i) ==
    Len(cdevs[i]) = Cardinality(CdevOwners(i)) + IF Added(i) THEN 1 ELSE 0

CdevsAccounted == \A i \in Ids : CdevsCounted(i)

\* t has still to remove the device node of id i
NodeOwner(t, i) == id[t] = i /\ pc[t] = "device_destroy"

NodesAccounted ==
    \A i \in Ids :
       /\ i \in nodes <=> Finished(i) \/ \E t \in Tasks : NodeOwner(t, i)
       /\ Finished(i) => \A t \in Tasks : ~NodeOwner(t, i)
       /\ \A t, u \in Tasks : NodeOwner(t, i) /\ NodeOwner(u, i) => t = u

RangesFit == \A x \in Objects : mem[x].phys_addr + mem[x].size <= MaxAddress + 1

Unloaded ==
    module # "ready" =>
       /\ \A t \in Tasks : pc[t] = "idle"
       /\ \A f \in Files : stage[f] = "closed"
       /\ known = {} /\ heap = {} /\ nodes = {} /\ id_bitmap = {}
       /\ \A i \in Ids : cdevs[i] = << >>
       /\ module = "unloaded" => control = 0

(* What the handlers, the files, the table and the device model hold, each *)
(* thing exactly once.                                                     *)
IInv ==
    /\ TypeOK
    /\ BitmapMatchesTable /\ TableHolds /\ IdentifiersUnique
    /\ IdsOwnedOnce /\ HandlerKnows /\ HeldOnce
    /\ FilesHold /\ ReferencesCounted /\ NothingLeaked
    /\ CdevsAccounted /\ NodesAccounted
    /\ RangesFit /\ MappedInsideRegion
    /\ Unloaded
=============================================================================
