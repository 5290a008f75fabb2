--------------------------- MODULE MasterService ---------------------------
(***************************************************************************)
(* MasterService (master/src/master_service.cpp) as the coro_rpc server of *)
(* master/src/main.cpp runs it: Threads workers, each answering one request *)
(* at a time, share one object whose state a std::shared_mutex guards.     *)
(*                                                                         *)
(* A handler validates its request before it takes the lock, checks the    *)
(* whole request under the lock, then changes the state one key at a time,  *)
(* so a step of this module is one of those stages or one iteration of a   *)
(* loop.  The lock is released by the guard's destructor, a step of its own *)
(* after the reply has been computed.                                      *)
(***************************************************************************)
EXTENDS RpcProtocol, FiniteSetsExt

CONSTANTS Threads, NoThread, NoRequest, NoReply, NoHost

ASSUME ThreadAssumption ==
    /\ NoThread \notin Threads
    /\ NoRequest \notin Request
    /\ NoReply \notin Reply
    /\ NoHost \notin HostIds

VARIABLES
    pc,         \* thread -> the stage of its handler
    request,    \* thread -> the request it is answering
    cursor,     \* thread -> the loop's position in the request's keys
    locations,  \* thread -> allocations made so far, or the blocks to free
    matches,    \* thread -> matches_by_host of a BatchExist
    best,       \* thread -> its best_host_id and best_count
    reply,      \* thread -> the response, once it is computed
    writer,     \* mutex_: the holder of the exclusive lock
    readers,    \*         and those of the shared lock
    hosts_,             \* host id -> HostMemory
    key_index_,         \* canonical key -> BlockLocation
    available_blocks_   \* a std::uint64_t

localVars  == <<cursor, locations, matches, best>>
threadVars == <<pc, request, localVars, reply>>
lockVars   == <<writer, readers>>
dataVars   == <<hosts_, key_index_, available_blocks_>>
vars       == <<threadVars, lockVars, dataVars>>

Stages == {"idle", "validate", "acquire", "locked", "update", "scan", "unlock", "return"}

HostMemory ==
    [registration     : MemoryRegistration,
     total_blocks     : Nat,
     next_fresh_block : Nat,
     recycled_blocks  : Seq(Nat),
     allocated_blocks : SUBSET Nat]

BlockLocation == [host_id : HostIds, block_id : Nat]

NoMatches == [h \in HostIds |-> << >>]

NoBest == [host_id |-> NoHost, count |-> 0]

Init ==
    /\ pc = [t \in Threads |-> "idle"]
    /\ request = [t \in Threads |-> NoRequest]
    /\ cursor = [t \in Threads |-> 1]
    /\ locations = [t \in Threads |-> << >>]
    /\ matches = [t \in Threads |-> NoMatches]
    /\ best = [t \in Threads |-> NoBest]
    /\ reply = [t \in Threads |-> NoReply]
    /\ writer = NoThread
    /\ readers = {}
    /\ hosts_ = << >>
    /\ key_index_ = << >>
    /\ available_blocks_ = 0

-----------------------------------------------------------------------------
(* HostMemory: one host's pool of blocks.  *)

AvailableBlockCount(m) == m.total_blocks - Cardinality(m.allocated_blocks)

IsFresh(m) == m.next_fresh_block < m.total_blocks

NextBlock(m) ==
    IF IsFresh(m) THEN m.next_fresh_block ELSE Head(m.recycled_blocks)

\* Mutant: the id of a fresh block is taken but the counter is not advanced
AllocateOneNoAdvance(m) ==
    IF IsFresh(m)
    THEN [m EXCEPT !.allocated_blocks = @ \cup {NextBlock(m)}]
    ELSE [m EXCEPT !.recycled_blocks  = Tail(@),
                   !.allocated_blocks = @ \cup {NextBlock(m)}]

AllocateOne(m) ==
    IF IsFresh(m)
    THEN [m EXCEPT !.next_fresh_block = @ + 1,
                   !.allocated_blocks = @ \cup {NextBlock(m)}]
    ELSE [m EXCEPT !.recycled_blocks  = Tail(@),
                   !.allocated_blocks = @ \cup {NextBlock(m)}]

\* Mutant: a freed block goes to the head of the recycled blocks
FreeOneToFront(m, block) ==
    [m EXCEPT !.allocated_blocks = @ \ {block},
              !.recycled_blocks  = <<block>> \o @]

FreeOne(m, block) ==
    [m EXCEPT !.allocated_blocks = @ \ {block},
              !.recycled_blocks  = Append(@, block)]

-----------------------------------------------------------------------------
(* The validation that precedes the lock: kOk or the first error met.  *)

\* Mutant: a string of any length is a key
MalformedNever(keys, i) == FALSE

Malformed(keys, i) == ~IsSha256Key(keys[i])

\* Mutant: repetitions are looked for among the spellings, not the keys
RepeatedSpelling(keys, i) == \E j \in 1..(i - 1) : keys[j] = keys[i]

Repeated(keys, i) ==
    \E j \in 1..(i - 1) : CanonicalKey(keys[j]) = CanonicalKey(keys[i])

ValidateKeys(keys) ==
    LET offending == {i \in DOMAIN keys : Malformed(keys, i) \/ Repeated(keys, i)}
    IN  IF keys = << >> THEN "kInvalidArgument"
        ELSE IF offending = {} THEN "kOk"
        ELSE IF Malformed(keys, Min(offending)) THEN "kInvalidKey"
        ELSE "kInvalidArgument"

\* Mutant: the end of the range may pass the last address
ValidateRegistrationNoEnd(r) ==
    IF \/ r.total_size = 0
       \/ r.block_size = 0
       \/ r.total_size % r.block_size # 0
       \/ r.start_address % r.block_size # 0
    THEN "kInvalidArgument" ELSE "kOk"

ValidateRegistration(r) ==
    IF \/ r.total_size = 0
       \/ r.block_size = 0
       \/ r.total_size % r.block_size # 0
       \/ r.start_address % r.block_size # 0
       \/ r.start_address > MaxWord - r.total_size
    THEN "kInvalidArgument" ELSE "kOk"

ValidateRequest(r) ==
    CASE r.op = "RegisterMemory" -> ValidateRegistration(r.registration)
      [] r.op \in BatchOps \cup {"BatchExist"} -> ValidateKeys(r.keys)
      [] r.op = "Exist" -> IF IsSha256Key(r.key) THEN "kOk" ELSE "kInvalidKey"
      [] OTHER -> "kOk"

-----------------------------------------------------------------------------
(* A thread's passage from one stage to the next.  *)

Goto(t, stage) == pc' = [pc EXCEPT ![t] = stage]

Reaches(t, from, ops) == pc[t] = from /\ request[t].op \in ops

(* return {code, ...}: the response is built, the lock still held.  *)
Respond(t, response) ==
    /\ reply' = [reply EXCEPT ![t] = response]
    /\ Goto(t, "unlock")
    /\ UNCHANGED <<request, localVars, lockVars>>

(* The partial functions that stand for the unordered_maps.  *)
Emplace(f, x, y) ==
    IF x \in DOMAIN f THEN f
    ELSE [z \in DOMAIN f \cup {x} |-> IF z = x THEN y ELSE f[z]]

\* Mutant: a freed key stays in the index
EraseNothing(f, x) == f

Erase(f, x) == [z \in DOMAIN f \ {x} |-> f[z]]

(* The server hands a request to an idle worker.  *)
Call(t) ==
    /\ pc[t] = "idle"
    /\ \E r \in Requests : request' = [request EXCEPT ![t] = r]
    /\ Goto(t, "validate")
    /\ UNCHANGED <<localVars, reply, lockVars, dataVars>>

Validate(t) ==
    /\ pc[t] = "validate"
    /\ IF ValidateRequest(request[t]) = "kOk"
       THEN Goto(t, "acquire") /\ UNCHANGED reply
       ELSE /\ Goto(t, "return")
            /\ reply' = [reply EXCEPT ![t] = Refusal(ValidateRequest(request[t]))]
    /\ UNCHANGED <<request, localVars, lockVars, dataVars>>

\* Mutant: an exclusive lock that does not wait for the readers to leave
NotWritten == writer = NoThread

Unlocked == writer = NoThread /\ readers = {}

AcquireExclusive(t) ==
    /\ Reaches(t, "acquire", WriteOps)
    /\ Unlocked
    /\ writer' = t
    /\ Goto(t, "locked")
    /\ UNCHANGED <<request, localVars, reply, readers, dataVars>>

AcquireShared(t) ==
    /\ pc[t] = "acquire" /\ request[t].op \notin WriteOps
    /\ writer = NoThread
    /\ readers' = readers \cup {t}
    /\ Goto(t, IF request[t].op = "BatchExist" THEN "scan" ELSE "locked")
    /\ UNCHANGED <<request, localVars, reply, writer, dataVars>>

Unlock(t) ==
    /\ pc[t] = "unlock"
    /\ writer' = IF writer = t THEN NoThread ELSE writer
    /\ readers' = readers \ {t}
    /\ Goto(t, "return")
    /\ UNCHANGED <<request, localVars, reply, dataVars>>

(* The response leaves and the worker's locals die.  *)
Return(t) ==
    /\ pc[t] = "return"
    /\ Goto(t, "idle")
    /\ request' = [request EXCEPT ![t] = NoRequest]
    /\ cursor' = [cursor EXCEPT ![t] = 1]
    /\ locations' = [locations EXCEPT ![t] = << >>]
    /\ matches' = [matches EXCEPT ![t] = NoMatches]
    /\ best' = [best EXCEPT ![t] = NoBest]
    /\ reply' = [reply EXCEPT ![t] = NoReply]
    /\ UNCHANGED <<lockVars, dataVars>>

-----------------------------------------------------------------------------
(* RegisterMemory under the exclusive lock.  *)

Total(r) == r.total_size \div r.block_size

NewHost(r) ==
    [registration |-> r, total_blocks |-> Total(r), next_fresh_block |-> 0,
     recycled_blocks |-> << >>, allocated_blocks |-> {}]

RegisterMemory(t) ==
    /\ Reaches(t, "locked", {"RegisterMemory"})
    /\ LET r == request[t].registration
           h == r.host_id
       IN  \/ /\ h \in DOMAIN hosts_
              /\ Respond(t, IF hosts_[h].registration = r THEN Registered(Total(r))
                            ELSE Refusal("kHostAlreadyRegistered"))
              /\ UNCHANGED dataVars
           \/ /\ h \notin DOMAIN hosts_
              /\ available_blocks_ > MaxWord - Total(r)
              /\ Respond(t, Refusal("kInvalidArgument"))
              /\ UNCHANGED dataVars
           \/ /\ h \notin DOMAIN hosts_
              /\ available_blocks_ <= MaxWord - Total(r)
              /\ hosts_' = Emplace(hosts_, h, NewHost(r))
              /\ available_blocks_' = available_blocks_ + Total(r)
              /\ Respond(t, Registered(Total(r)))
              /\ UNCHANGED key_index_

-----------------------------------------------------------------------------
(* AllocBlocks under the exclusive lock: the checks of the whole request,  *)
(* one iteration per key, and the count that makes it final.               *)

Host(t) == request[t].host_id

RequestKeys(t) == Canonical(request[t].keys)

Start(t) ==
    /\ Goto(t, "update")
    /\ UNCHANGED <<request, cursor, matches, best, reply, lockVars, dataVars>>

\* Mutant: the batch is compared with the size of the pool, not with what is left
AllocErrorOfTotal(t) ==
    IF Host(t) \notin DOMAIN hosts_ THEN "kHostNotRegistered"
    ELSE IF \E i \in DOMAIN RequestKeys(t) : RequestKeys(t)[i] \in DOMAIN key_index_
    THEN "kKeyAlreadyExists"
    ELSE IF Len(RequestKeys(t)) > hosts_[Host(t)].total_blocks
    THEN "kInsufficientMemory"
    ELSE "kOk"

AllocError(t) ==
    IF Host(t) \notin DOMAIN hosts_ THEN "kHostNotRegistered"
    ELSE IF \E i \in DOMAIN RequestKeys(t) : RequestKeys(t)[i] \in DOMAIN key_index_
    THEN "kKeyAlreadyExists"
    ELSE IF Len(RequestKeys(t)) > AvailableBlockCount(hosts_[Host(t)])
    THEN "kInsufficientMemory"
    ELSE "kOk"

AllocCheck(t) ==
    /\ Reaches(t, "locked", {"AllocBlocks"})
    /\ IF AllocError(t) = "kOk"
       THEN Start(t) /\ UNCHANGED locations
       ELSE Respond(t, Refusal(AllocError(t))) /\ UNCHANGED dataVars

Looping(t, op) ==
    Reaches(t, "update", {op}) /\ cursor[t] <= Len(request[t].keys)

Looped(t, op) ==
    Reaches(t, "update", {op}) /\ cursor[t] > Len(request[t].keys)

AllocKey(t) ==
    /\ Looping(t, "AllocBlocks")
    /\ LET key   == RequestKeys(t)[cursor[t]]
           block == NextBlock(hosts_[Host(t)])
       IN  /\ hosts_' = [hosts_ EXCEPT ![Host(t)] = AllocateOne(@)]
           /\ key_index_' = Emplace(key_index_, key,
                                [host_id |-> Host(t), block_id |-> block])
           /\ locations' = [locations EXCEPT ![t] = Append(@,
                   [key |-> key, host_id |-> Host(t), block_id |-> block])]
    /\ cursor' = [cursor EXCEPT ![t] = @ + 1]
    /\ UNCHANGED <<pc, request, matches, best, reply, lockVars, available_blocks_>>

AllocDone(t) ==
    /\ Looped(t, "AllocBlocks")
    /\ available_blocks_' =
          (available_blocks_ - Len(request[t].keys)) % (MaxWord + 1)
    /\ Respond(t, Allocated(locations[t]))
    /\ UNCHANGED <<hosts_, key_index_>>

-----------------------------------------------------------------------------
(* FreeBlocks under the exclusive lock.  *)

Missing(t) ==
    {i \in DOMAIN RequestKeys(t) : RequestKeys(t)[i] \notin DOMAIN key_index_}

Foreign(t) ==
    {i \in DOMAIN RequestKeys(t) \ Missing(t) :
        key_index_[RequestKeys(t)[i]].host_id # Host(t)}

FreeError(t) ==
    IF Host(t) \notin DOMAIN hosts_ THEN "kHostNotRegistered"
    ELSE IF Missing(t) \cup Foreign(t) = {} THEN "kOk"
    ELSE IF Min(Missing(t) \cup Foreign(t)) \in Missing(t) THEN "kKeyNotFound"
    ELSE "kKeyHostMismatch"

FreeCheck(t) ==
    /\ Reaches(t, "locked", {"FreeBlocks"})
    /\ IF FreeError(t) = "kOk"
       THEN /\ Start(t)
            /\ locations' = [locations EXCEPT ![t] =
                  [i \in DOMAIN RequestKeys(t) |->
                     [key      |-> RequestKeys(t)[i],
                      host_id  |-> Host(t),
                      block_id |-> key_index_[RequestKeys(t)[i]].block_id]]]
       ELSE Respond(t, Refusal(FreeError(t))) /\ UNCHANGED dataVars

FreeKey(t) ==
    /\ Looping(t, "FreeBlocks")
    /\ hosts_' = [hosts_ EXCEPT ![Host(t)] = FreeOne(@, locations[t][cursor[t]].block_id)]
    /\ key_index_' = Erase(key_index_, RequestKeys(t)[cursor[t]])
    /\ cursor' = [cursor EXCEPT ![t] = @ + 1]
    /\ UNCHANGED <<pc, request, locations, matches, best, reply, lockVars,
                   available_blocks_>>

FreeDone(t) ==
    /\ Looped(t, "FreeBlocks")
    /\ available_blocks_' =
          (available_blocks_ + Len(request[t].keys)) % (MaxWord + 1)
    /\ Respond(t, Freed(Len(request[t].keys)))
    /\ UNCHANGED <<hosts_, key_index_>>

-----------------------------------------------------------------------------
(* The handlers and accessors under the shared lock.  *)

Exist(t) ==
    /\ Reaches(t, "locked", {"Exist"})
    /\ LET key == CanonicalKey(request[t].key) IN
          Respond(t, IF key \in DOMAIN key_index_ THEN Found(key_index_[key])
                     ELSE Refusal("kKeyNotFound"))
    /\ UNCHANGED dataVars

Scanning(t) ==
    /\ Reaches(t, "scan", {"BatchExist"})
    /\ cursor[t] <= Len(request[t].keys)
    /\ RequestKeys(t)[cursor[t]] \in DOMAIN key_index_

\* Mutant: of two hosts with as many matches the later one wins
AtLeastAsMany(list, b) == Len(list) >= b.count

Improves(list, b) == Len(list) > b.count

ScanKey(t) ==
    /\ Scanning(t)
    /\ LET key  == RequestKeys(t)[cursor[t]]
           h    == key_index_[key].host_id
           list == Append(matches[t][h], [key |-> key, host_id |-> h,
                                          block_id |-> key_index_[key].block_id])
       IN  /\ matches' = [matches EXCEPT ![t][h] = list]
           /\ best' = IF Improves(list, best[t])
                      THEN [best EXCEPT ![t] = [host_id |-> h, count |-> Len(list)]]
                      ELSE best
    /\ cursor' = [cursor EXCEPT ![t] = @ + 1]
    /\ UNCHANGED <<pc, request, locations, reply, lockVars, dataVars>>

ScanDone(t) ==
    /\ Reaches(t, "scan", {"BatchExist"})
    /\ ~Scanning(t)
    /\ Respond(t, IF best[t].count = 0 THEN Refusal("kKeyNotFound")
                  ELSE BestMatch(best[t].host_id, matches[t][best[t].host_id]))
    /\ UNCHANGED dataVars

FindHost(t) ==
    /\ Reaches(t, "locked", {"FindHost"})
    /\ Respond(t, IF Host(t) \in DOMAIN hosts_ THEN FoundHost(hosts_[Host(t)].registration)
                  ELSE Refusal("nullopt"))
    /\ UNCHANGED dataVars

\* the sizes of the hosts' allocated sets, added up
AllocatedBlockCount ==
    Cardinality(UNION {{h} \X hosts_[h].allocated_blocks : h \in DOMAIN hosts_})

Count(t) ==
    /\ Reaches(t, "locked", CountOps)
    /\ Respond(t, Counted(CASE request[t].op = "RegisteredHostCount" -> Cardinality(DOMAIN hosts_)
                            [] request[t].op = "AvailableBlockCount" -> available_blocks_
                            [] request[t].op = "AllocatedBlockCount" ->
                                  AllocatedBlockCount % (MaxWord + 1)))
    /\ UNCHANGED dataVars

-----------------------------------------------------------------------------
Handler(t) ==
    \/ Validate(t)
    \/ AcquireExclusive(t) \/ AcquireShared(t)
    \/ RegisterMemory(t)
    \/ AllocCheck(t) \/ AllocKey(t) \/ AllocDone(t)
    \/ FreeCheck(t) \/ FreeKey(t) \/ FreeDone(t)
    \/ Exist(t) \/ ScanKey(t) \/ ScanDone(t) \/ FindHost(t) \/ Count(t)
    \/ Unlock(t) \/ Return(t)

Next == \E t \in Threads : Call(t) \/ Handler(t)

Spec == Init /\ [][Next]_vars

(* A worker that has begun a request keeps running: the operating system   *)
(* schedules it, and a waiting thread is woken when the lock is free.       *)
FairSpec == Spec /\ \A t \in Threads : WF_vars(Handler(t))

-----------------------------------------------------------------------------
(* Properties *)

InCriticalSection(t) == pc[t] \in {"locked", "update", "scan", "unlock"}

(* Every variable holds what the code's types allow.                       *)
StateTyped ==
    /\ pc \in [Threads -> Stages]
    /\ request \in [Threads -> Request \cup {NoRequest}]
    /\ cursor \in [Threads -> Nat \ {0}]
    /\ locations \in [Threads -> Seq(KeyBlockLocation)]
    /\ matches \in [Threads -> [HostIds -> Seq(KeyBlockLocation)]]
    /\ best \in [Threads -> [host_id : HostIds \cup {NoHost}, count : Nat]]
    /\ writer \in Threads \cup {NoThread}
    /\ readers \subseteq Threads
    /\ DOMAIN hosts_ \subseteq HostIds
    /\ hosts_ \in [DOMAIN hosts_ -> HostMemory]
    /\ DOMAIN key_index_ \subseteq Keys
    /\ key_index_ \in [DOMAIN key_index_ -> BlockLocation]
    /\ available_blocks_ \in Word

TypeOK ==
    /\ StateTyped
    /\ reply \in [Threads -> Reply \cup {NoReply}]

(* Between taking and releasing the lock a handler that writes is alone,   *)
(* and the lock records exactly the handlers that hold it: no path leaves   *)
(* a handler with the lock held or changes state without it.               *)
HoldsLock(t) == t = writer \/ t \in readers

LockDiscipline ==
    /\ writer # NoThread => readers = {}
    /\ \A t \in Threads :
          /\ InCriticalSection(t) <=> HoldsLock(t)
          /\ HoldsLock(t) => (t = writer <=> request[t].op \in WriteOps)

(* The ids a host has handed out so far are split between the allocated    *)
(* set and the recycled queue: no id is lost, and none is in both or twice *)
(* in the queue, which would give one block to two keys.                   *)
Recycled(m) == {m.recycled_blocks[i] : i \in 1..Len(m.recycled_blocks)}

Partitioned(m) ==
    /\ m.next_fresh_block <= m.total_blocks
    /\ m.allocated_blocks \cap Recycled(m) = {}
    /\ m.allocated_blocks \cup Recycled(m) = 0..(m.next_fresh_block - 1)
    /\ \A i, j \in 1..Len(m.recycled_blocks) :
          m.recycled_blocks[i] = m.recycled_blocks[j] => i = j

PoolPartition == \A h \in DOMAIN hosts_ : Partitioned(hosts_[h])

(* key_index_ and the pools agree at every step of every loop: a key names *)
(* an allocated block of a registered host, no block has two keys, and no   *)
(* block is allocated without a key.                                       *)
IndexMatchesPools ==
    /\ \A k \in DOMAIN key_index_ :
          /\ key_index_[k].host_id \in DOMAIN hosts_
          /\ key_index_[k].block_id \in hosts_[key_index_[k].host_id].allocated_blocks
    /\ \A k, l \in DOMAIN key_index_ : key_index_[k] = key_index_[l] => k = l
    /\ \A h \in DOMAIN hosts_ : \A b \in hosts_[h].allocated_blocks :
          \E k \in DOMAIN key_index_ : key_index_[k] = [host_id |-> h, block_id |-> b]

(* What a handler read under the lock is still so when it uses it: the     *)
(* keys AllocBlocks has yet to insert are absent, the locations FreeBlocks *)
(* collected are those of the index, and so are a BatchExist's matches.    *)
AllocChecked(t) ==
    Reaches(t, "update", {"AllocBlocks"}) =>
       \A i \in cursor[t]..Len(request[t].keys) :
          RequestKeys(t)[i] \notin DOMAIN key_index_

FreeChecked(t) ==
    Reaches(t, "update", {"FreeBlocks"}) =>
       \A i \in cursor[t]..Len(request[t].keys) :
          /\ RequestKeys(t)[i] \in DOMAIN key_index_
          /\ key_index_[RequestKeys(t)[i]] =
                [host_id |-> Host(t), block_id |-> locations[t][i].block_id]

MatchesCurrent(t) ==
    pc[t] = "scan" =>
       \A h \in HostIds : \A i \in 1..Len(matches[t][h]) :
          LET m == matches[t][h][i] IN
             /\ m.key \in DOMAIN key_index_
             /\ key_index_[m.key] = [host_id |-> h, block_id |-> m.block_id]

ChecksHold(t) == AllocChecked(t) /\ FreeChecked(t) /\ MatchesCurrent(t)

ChecksStillHold == \A t \in Threads : ChecksHold(t)

(* AllocateOne calls recycled_blocks.front() only on a queue that is not    *)
(* empty: the count compared before the loop covers every iteration of it.  *)
FrontOfNonEmpty ==
    \A t \in Threads : Looping(t, "AllocBlocks") =>
       IsFresh(hosts_[Host(t)]) \/ hosts_[Host(t)].recycled_blocks # << >>

(* available_blocks_ is the number of blocks the pools have left, modulo   *)
(* 2^64, once the blocks of a loop under way are counted in or out.         *)
BlocksLeft == SumFunction([h \in DOMAIN hosts_ |-> AvailableBlockCount(hosts_[h])])

Updating(op) == writer # NoThread /\ Reaches(writer, "update", {op})

UnderWay(op) == IF Updating(op) THEN cursor[writer] - 1 ELSE 0

AvailableExact ==
    available_blocks_ =
       (BlocksLeft + UnderWay("AllocBlocks") - UnderWay("FreeBlocks")) % (MaxWord + 1)

(* No request is lost and no handler waits forever for a lock nobody will  *)
(* release: once clients stop sending requests, every one is answered.     *)
(* (While they keep sending them, overlapping readers may starve a writer.) *)
NoNewCalls == ~\E t \in Threads : Call(t)

Answered ==
    <>[][NoNewCalls]_vars => <>[](\A t \in Threads : pc[t] = "idle")

-----------------------------------------------------------------------------
(* The inductive invariant of the safety theorems.  *)

(* What the stage of a handler says about its request and its locals.  *)
StageOK(t) ==
    /\ pc[t] # "idle" => request[t] \in Request
    /\ pc[t] \in {"acquire", "locked", "update", "scan"} =>
          ValidateRequest(request[t]) = "kOk"
    /\ pc[t] \in {"idle", "validate", "acquire", "locked"} =>
          cursor[t] = 1 /\ matches[t] = NoMatches /\ best[t] = NoBest
    /\ pc[t] = "update" =>
          /\ request[t].op \in BatchOps
          /\ Host(t) \in DOMAIN hosts_
          /\ cursor[t] <= Len(request[t].keys) + 1
          /\ request[t].op = "FreeBlocks" => Len(locations[t]) = Len(request[t].keys)
    /\ pc[t] = "scan" => request[t].op = "BatchExist"
    /\ best[t].count > 0 => best[t].host_id \in HostIds

HandlerOK == \A t \in Threads : StageOK(t)

(* The ids a host has handed out, counted.  *)
Accounted(m) ==
    /\ IsFiniteSet(m.allocated_blocks)
    /\ Cardinality(m.allocated_blocks) + Len(m.recycled_blocks) = m.next_fresh_block

PoolCounts == \A h \in DOMAIN hosts_ : Accounted(hosts_[h])

(* The blocks still to be allocated by a loop are there.  *)
Covered(t) ==
    Reaches(t, "update", {"AllocBlocks"}) =>
       Len(request[t].keys) - cursor[t] + 1 <= AvailableBlockCount(hosts_[Host(t)])

AllocCovered == \A t \in Threads : Covered(t)

(* The invariants above hold together, with the facts each step needs to   *)
(* keep them: the stage of a handler, the count of a pool, the blocks a     *)
(* loop still needs.                                                       *)
IInv ==
    /\ TypeOK
    /\ HandlerOK
    /\ LockDiscipline
    /\ PoolPartition
    /\ PoolCounts
    /\ IndexMatchesPools
    /\ ChecksStillHold
    /\ AllocCovered

-----------------------------------------------------------------------------
(* What a handler has done so far, which the reply it is about to give      *)
(* must account for.                                                       *)

(* A thread has a request and a reply exactly while it owes one.            *)
Owes(t) ==
    /\ reply[t] = NoReply <=> pc[t] \notin {"unlock", "return"}
    /\ pc[t] = "idle" => request[t] = NoRequest
    /\ pc[t] \in {"idle", "validate", "acquire", "locked"} => locations[t] = << >>

(* The list of allocations names the keys inserted, in the request's order. *)
AllocProgress(t) ==
    Reaches(t, "update", {"AllocBlocks"}) =>
       /\ Len(locations[t]) = cursor[t] - 1
       /\ \A i \in 1..(cursor[t] - 1) :
             /\ locations[t][i].key = RequestKeys(t)[i]
             /\ locations[t][i].host_id = Host(t)
             /\ RequestKeys(t)[i] \in DOMAIN key_index_
             /\ key_index_[RequestKeys(t)[i]] =
                   [host_id |-> Host(t), block_id |-> locations[t][i].block_id]

(* The keys erased are those of the list of blocks to free, and the blocks  *)
(* freed are the last of the recycled ones, in the request's order.         *)
LastRecycled(m, n, i) == m.recycled_blocks[Len(m.recycled_blocks) - n + i]

FreeProgress(t) ==
    Reaches(t, "update", {"FreeBlocks"}) =>
       /\ cursor[t] - 1 <= Len(hosts_[Host(t)].recycled_blocks)
       /\ \A i \in 1..Len(request[t].keys) :
             /\ locations[t][i].key = RequestKeys(t)[i]
             /\ locations[t][i].host_id = Host(t)
       /\ \A i \in 1..(cursor[t] - 1) :
             /\ RequestKeys(t)[i] \notin DOMAIN key_index_
             /\ LastRecycled(hosts_[Host(t)], cursor[t] - 1, i) = locations[t][i].block_id

(* The positions scanned so far whose block lies on a host.                 *)
On(t, h) ==
    {i \in 1..(cursor[t] - 1) : key_index_[RequestKeys(t)[i]].host_id = h}

Rank(S, i) == Cardinality({j \in S : j <= i})

(* matches_by_host holds the positions of each host, in order, and best is  *)
(* the host with the most of them, the first to have had as many.           *)
ScanProgress(t) ==
    pc[t] = "scan" =>
       /\ cursor[t] <= Len(request[t].keys) + 1
       /\ \A i \in 1..(cursor[t] - 1) : RequestKeys(t)[i] \in DOMAIN key_index_
       /\ \A h \in HostIds :
             /\ Len(matches[t][h]) = Cardinality(On(t, h))
             /\ Len(matches[t][h]) <= best[t].count
             /\ \A i \in On(t, h) :
                   LET m == matches[t][h][Rank(On(t, h), i)]
                   IN  m.key = RequestKeys(t)[i] /\ m.host_id = h
       /\ best[t].count = 0 => cursor[t] = 1
       /\ best[t].count > 0 =>
             /\ Len(matches[t][best[t].host_id]) = best[t].count
             /\ \A h \in HostIds \ {best[t].host_id} :
                   Len(matches[t][h]) = best[t].count =>
                      \E i \in On(t, h) : \A j \in On(t, best[t].host_id) : j < i

Progress(t) == Owes(t) /\ AllocProgress(t) /\ FreeProgress(t) /\ ScanProgress(t)

(* Every pool has the size its registration asked for.                      *)
PoolSizes ==
    \A h \in DOMAIN hosts_ : hosts_[h].total_blocks = Total(hosts_[h].registration)

(* The invariant of the refinement below.                                   *)
RInv ==
    /\ IInv
    /\ PoolSizes
    /\ AvailableExact
    /\ \A t \in Threads : Progress(t)

-----------------------------------------------------------------------------
(* The atomic directory this state stands for.  Until the handler that     *)
(* holds the exclusive lock has counted its blocks, what its loop has done *)
(* so far has not happened: an allocation's ids are still at the head of    *)
(* the queue, a free's are not yet at its tail.                            *)

Allocating(h) == Updating("AllocBlocks") /\ Host(writer) = h

Freeing(h) == Updating("FreeBlocks") /\ Host(writer) = h

LoopDone == SubSeq(locations[writer], 1, cursor[writer] - 1)

(* The free ids of a pool from which taken were taken and to which returned *)
(* were returned, before that.                                             *)
FreeIds(m, taken, returned) ==
    taken \o [i \in 1..(m.total_blocks - m.next_fresh_block) |-> m.next_fresh_block + i - 1]
          \o SubSeq(m.recycled_blocks, 1, Len(m.recycled_blocks) - returned)

Taken(h) ==
    IF Allocating(h) THEN [i \in DOMAIN LoopDone |-> LoopDone[i].block_id] ELSE << >>

Returned(h) == IF Freeing(h) THEN cursor[writer] - 1 ELSE 0

AbstractQueue == [h \in DOMAIN hosts_ |-> FreeIds(hosts_[h], Taken(h), Returned(h))]

(* An index without the keys of a list of locations, and with them.        *)
KeysOf(list) == {list[i].key : i \in DOMAIN list}

Without(index, list) == [k \in DOMAIN index \ KeysOf(list) |-> index[k]]

LocationIn(list, k) ==
    LET i == CHOOSE i \in DOMAIN list : list[i].key = k
    IN  [host_id |-> list[i].host_id, block_id |-> list[i].block_id]

With(index, list) ==
    [k \in DOMAIN index \cup KeysOf(list) |->
        IF k \in KeysOf(list) THEN LocationIn(list, k) ELSE index[k]]

AbstractDirectory ==
    IF Updating("AllocBlocks") THEN Without(key_index_, LoopDone)
    ELSE IF Updating("FreeBlocks") THEN With(key_index_, LoopDone)
    ELSE key_index_

Registrations == [h \in DOMAIN hosts_ |-> hosts_[h].registration]

Unanswered == [t \in Threads |-> IF reply[t] = NoReply THEN request[t] ELSE NoRequest]

Directory == INSTANCE KeyDirectory WITH
    registrations <- Registrations,
    queue         <- AbstractQueue,
    directory     <- AbstractDirectory,
    waiting       <- Unanswered,
    answer        <- reply

(* The Master is the atomic directory of README.md to every client: each   *)
(* reply is that of the whole request executed at one instant, batches are *)
(* all or nothing, and ids are handed out fresh ones first and then in the *)
(* order they were freed.                                                  *)
ImplementsDirectory == Directory!Spec
=============================================================================
