-------------------------- MODULE MasterServiceFaults --------------------------
(***************************************************************************)
(* MasterService when an allocation of memory fails: std::bad_alloc leaves  *)
(* a handler wherever the code builds a string, a node of a container or a  *)
(* reply.  Unwinding releases the lock, and coro_rpc answers with an error; *)
(* what the handler has changed so far stays changed.                      *)
(***************************************************************************)
EXTENDS MasterService

CONSTANT MaxFaults      \* bound: how many allocations fail

ASSUME FaultAssumption == MaxFaults \in Nat

VARIABLES
    faults,     \* how many allocations have failed
    before      \* history variable: the state when a batch began its loop

faultVars == <<vars, faults, before>>

NoBatch == << >>

FaultInit ==
    /\ Init
    /\ faults = 0
    /\ before = NoBatch

-----------------------------------------------------------------------------
BadAlloc == Refusal("bad_alloc")

\* Mutant: the handler catches the exception and begins its loop again
ThrowRetrying(t) ==
    /\ faults < MaxFaults
    /\ faults' = faults + 1
    /\ cursor' = [cursor EXCEPT ![t] = 1]
    /\ UNCHANGED <<pc, request, locations, matches, best, reply, lockVars, before>>

(* The exception leaves the handler: the lock is still held.               *)
Throw(t) ==
    /\ faults < MaxFaults
    /\ faults' = faults + 1
    /\ Respond(t, BadAlloc)
    /\ UNCHANGED before

\* Mutant: an exception leaves the lock as it is
ThrowKeepingLock(t) ==
    /\ pc[t] \in {"locked", "update", "scan"}
    /\ faults < MaxFaults
    /\ faults' = faults + 1
    /\ reply' = [reply EXCEPT ![t] = BadAlloc]
    /\ Goto(t, "return")
    /\ UNCHANGED <<request, localVars, lockVars, dataVars, before>>

(* Nothing of this step has happened yet, or nothing is to happen:          *)
(* ValidateKeys, reserve, the canonical key of AllocBlocks, the node of a   *)
(* new host, the lists of a query, the reply of a request turned down.      *)
ThrowBefore(t) ==
    /\ pc[t] \in {"locked", "update", "scan"}
    /\ ~Looping(t, "FreeBlocks")
    /\ Throw(t)
    /\ UNCHANGED dataVars

ThrowUnlocked(t) ==
    /\ pc[t] \in {"validate", "acquire"}
    /\ faults < MaxFaults
    /\ faults' = faults + 1
    /\ reply' = [reply EXCEPT ![t] = BadAlloc]
    /\ Goto(t, "return")
    /\ UNCHANGED <<request, localVars, lockVars, dataVars, before>>

(* AllocateOne has taken the block from the pool, and insert throws; or it  *)
(* has returned the block, and emplace throws.                             *)
BlockTaken(m) ==
    IF IsFresh(m) THEN [m EXCEPT !.next_fresh_block = @ + 1]
    ELSE [m EXCEPT !.recycled_blocks = Tail(@)]

ThrowAllocating(t) ==
    /\ Looping(t, "AllocBlocks")
    /\ Throw(t)
    /\ \E half \in {BlockTaken(hosts_[Host(t)]), AllocateOne(hosts_[Host(t)])} :
          hosts_' = [hosts_ EXCEPT ![Host(t)] = half]
    /\ UNCHANGED <<key_index_, available_blocks_>>

(* FreeOne has erased the block, and push_back throws; or it has returned,  *)
(* and CanonicalKey throws.  The key still names the block.                *)
Dropped(m, block) == [m EXCEPT !.allocated_blocks = @ \ {block}]

ThrowFreeing(t) ==
    /\ Looping(t, "FreeBlocks")
    /\ Throw(t)
    /\ LET block == locations[t][cursor[t]].block_id IN
       \E half \in {Dropped(hosts_[Host(t)], block), FreeOne(hosts_[Host(t)], block)} :
          hosts_' = [hosts_ EXCEPT ![Host(t)] = half]
    /\ UNCHANGED <<key_index_, available_blocks_>>

(* The message of the reply is too long for std::string's own buffer, and   *)
(* is built last: the host is registered and its blocks are counted, and    *)
(* the client is told that it failed.                                      *)
ThrowRegistered(t) ==
    /\ Reaches(t, "locked", {"RegisterMemory"})
    /\ Throw(t)
    /\ LET r == request[t].registration IN
          /\ r.host_id \notin DOMAIN hosts_
          /\ available_blocks_ <= MaxWord - Total(r)
          /\ hosts_' = Emplace(hosts_, r.host_id, NewHost(r))
          /\ available_blocks_' = available_blocks_ + Total(r)
    /\ UNCHANGED key_index_

(* Likewise a batch that is complete, and a client told that it failed.     *)
ThrowAllocated(t) ==
    /\ Looped(t, "AllocBlocks")
    /\ Throw(t)
    /\ available_blocks_' =
          (available_blocks_ - Len(request[t].keys)) % (MaxWord + 1)
    /\ UNCHANGED <<hosts_, key_index_>>

Throws(t) ==
    \/ ThrowBefore(t) \/ ThrowUnlocked(t) \/ ThrowRegistered(t)
    \/ ThrowAllocating(t) \/ ThrowFreeing(t) \/ ThrowAllocated(t)

-----------------------------------------------------------------------------
(* A pool that has lost a block counts it as available, and AllocateOne may *)
(* read the front of an empty queue.  Of what undefined behaviour may do,   *)
(* the model takes the crash, after which the Master is started again.      *)
FrontOfEmpty(t) ==
    /\ Looping(t, "AllocBlocks")
    /\ ~IsFresh(hosts_[Host(t)]) /\ hosts_[Host(t)].recycled_blocks = << >>

Crash(t) ==
    /\ FrontOfEmpty(t)
    /\ pc' = [w \in Threads |-> "idle"]
    /\ request' = [w \in Threads |-> NoRequest]
    /\ cursor' = [w \in Threads |-> 1]
    /\ locations' = [w \in Threads |-> << >>]
    /\ matches' = [w \in Threads |-> NoMatches]
    /\ best' = [w \in Threads |-> NoBest]
    /\ reply' = [w \in Threads |-> NoReply]
    /\ writer' = NoThread /\ readers' = {}
    /\ hosts_' = << >> /\ key_index_' = << >> /\ available_blocks_' = 0
    /\ before' = NoBatch
    /\ UNCHANGED faults

FaultHandler(t) ==
    IF FrontOfEmpty(t) THEN Crash(t)
    ELSE \/ /\ Handler(t)
            /\ before' = CASE Reaches(t, "locked", BatchOps) -> dataVars
                           [] pc[t] = "unlock" /\ writer = t -> NoBatch
                           [] OTHER -> before
            /\ UNCHANGED faults
         \/ Throws(t)

FaultNext ==
    \E t \in Threads :
       \/ Call(t) /\ UNCHANGED <<faults, before>>
       \/ FaultHandler(t)

FaultSpec == FaultInit /\ [][FaultNext]_faultVars

(* As in FairSpec: a worker that has begun a request keeps running.         *)
FairFaultSpec == FaultSpec /\ \A t \in Threads : WF_faultVars(FaultHandler(t))

-----------------------------------------------------------------------------
(* A batch whose client is told that it has failed has changed nothing:     *)
(* master_service.cpp reserves its containers and validates the whole       *)
(* request first to that end, but allocates inside its loops.               *)
FailedBatchChangesNothing ==
    \A t \in Threads :
       (pc[t] = "unlock" /\ reply[t] = BadAlloc /\ before # NoBatch) => dataVars = before

-----------------------------------------------------------------------------
(* What every step keeps, whatever fails.                                  *)

FaultTyped ==
    /\ StateTyped
    /\ reply \in [Threads -> Reply \cup {NoReply, BadAlloc}]
    /\ faults \in 0..MaxFaults

(* No block that its pool has not handed out is ever named: neither by the  *)
(* pool's own set and queue nor by a key.                                  *)
HandedOut(m) ==
    /\ m.next_fresh_block <= m.total_blocks
    /\ m.allocated_blocks \cup Recycled(m) \subseteq 0..(m.next_fresh_block - 1)

BlocksHandedOut ==
    /\ \A h \in DOMAIN hosts_ : HandedOut(hosts_[h])
    /\ \A k \in DOMAIN key_index_ :
          /\ key_index_[k].host_id \in DOMAIN hosts_
          /\ key_index_[k].block_id < hosts_[key_index_[k].host_id].next_fresh_block

(* The ids handed out that a key or the queue still names, one by one.      *)
KeysOn(h) == {k \in DOMAIN key_index_ : key_index_[k].host_id = h}

Claims(h) == Cardinality(KeysOn(h)) + Len(hosts_[h].recycled_blocks)

LossBounded ==
    \A h \in DOMAIN hosts_ :
       /\ hosts_[h].next_fresh_block <= Claims(h) + faults
       /\ Claims(h) <= hosts_[h].next_fresh_block + faults

(* A failed allocation costs one block at most, wherever in a loop it       *)
(* happens, because the loops change the pool and the index one key at a    *)
(* time: the ids handed out and the ids still named, each counted as often  *)
(* as a key or the queue names it, differ by at most one for every failure, *)
(* and no key names a block that was never handed out.                     *)
FaultsContained == BlocksHandedOut /\ LossBounded

FaultInv ==
    /\ FaultTyped
    /\ HandlerOK
    /\ LockDiscipline
    /\ ChecksStillHold
    /\ IsFiniteSet(DOMAIN key_index_)
    /\ FaultsContained

-----------------------------------------------------------------------------
(* How far a handler is from its end.                                      *)

BatchLength(r) == IF r.op \in BatchOps \cup {"BatchExist"} THEN Len(r.keys) ELSE 0

(* The steps that a handler has left at most, if it never has to wait; in a *)
(* loop over n keys, `next` is the one to come.                            *)
StepsLeft(stage, n, next) ==
    CASE stage = "idle"              -> 0
      [] stage = "return"            -> 1
      [] stage = "unlock"            -> 2
      [] stage \in {"update", "scan"} -> 3 + (IF next <= n THEN n - next + 1 ELSE 0)
      [] stage = "locked"            -> 4 + n
      [] stage = "acquire"           -> 5 + n
      [] stage = "validate"          -> 6 + n

Remaining(t) == StepsLeft(pc[t], BatchLength(request[t]), cursor[t])

Advances ==
    /\ \E t \in Threads : Remaining(t)' # Remaining(t)
    /\ \A t \in Threads : pc[t] # "idle" => Remaining(t)' <= Remaining(t)

(* Every step gives an idle worker a request or brings a handler nearer to  *)
(* its end, and no step takes another handler back: neither loops nor       *)
(* exceptions nor what other workers do meanwhile can keep a handler busy   *)
(* for ever; if it is never answered, it waits for the lock.               *)
HandlersAdvance == [][Advances]_faultVars
=============================================================================
