---------------------------- MODULE KeyDirectory ----------------------------
(***************************************************************************)
(* What the Master promises its clients (README.md, "Block management"):    *)
(* a directory of keys, each naming one block of one host, and for every   *)
(* registered host one first-in-first-out queue of free block ids that     *)
(* starts as 0, 1, ..., n - 1.  An allocation takes ids from the head of    *)
(* the queue of the host it names, a free returns them to its tail, and a   *)
(* request takes effect completely or not at all, at one instant between    *)
(* its call and its return.                                                *)
(*                                                                         *)
(* This is a specification to be implemented, so it is not a translation   *)
(* of code: MasterService.tla is, and implements it.                       *)
(***************************************************************************)
EXTENDS RpcProtocol, FiniteSetsExt

CONSTANTS Threads, NoRequest, NoReply

VARIABLES
    registrations,  \* host id -> the registration it was accepted with
    queue,          \* host id -> the sequence of its free block ids
    directory,      \* key -> the location of its block
    waiting,        \* thread -> the request it has not answered yet
    answer          \* thread -> its reply, between effect and return

vars == <<registrations, queue, directory, waiting, answer>>

Init ==
    /\ registrations = << >>
    /\ queue = << >>
    /\ directory = << >>
    /\ waiting = [t \in Threads |-> NoRequest]
    /\ answer = [t \in Threads |-> NoReply]

Extend(f, x, y) == [z \in DOMAIN f \cup {x} |-> IF z = x THEN y ELSE f[z]]

Blocks(registration) == registration.total_size \div registration.block_size

-----------------------------------------------------------------------------
(* The requests the Master may refuse whatever its state is.  *)

Multiple(x, y) == \E n \in 0..x : x = n * y

ValidRegistration(r) ==
    /\ r.total_size > 0 /\ r.block_size > 0
    /\ Multiple(r.total_size, r.block_size)
    /\ Multiple(r.start_address, r.block_size)
    /\ r.start_address + r.total_size \in Word

(* A list is refused as malformed only if a key of it is malformed, as     *)
(* invalid only if it is empty or two of its spellings mean one key.        *)
RefusalsOfKeys(keys) ==
         {code \in {"kInvalidKey"} :
             \E i \in DOMAIN keys : ~IsSha256Key(keys[i])}
    \cup {code \in {"kInvalidArgument"} :
             \/ keys = << >>
             \/ \E i, j \in DOMAIN keys :
                   i # j /\ CanonicalKey(keys[i]) = CanonicalKey(keys[j])}

RefusalsOf(r) ==
    CASE r.op = "RegisterMemory" ->
            IF ValidRegistration(r.registration) THEN {} ELSE {"kInvalidArgument"}
      [] r.op \in BatchOps \cup {"BatchExist"} -> RefusalsOfKeys(r.keys)
      [] r.op = "Exist" -> IF IsSha256Key(r.key) THEN {} ELSE {"kInvalidKey"}
      [] OTHER -> {}

-----------------------------------------------------------------------------
(* The effect of each request on the directory, with its reply.  *)

Answer(t, reply) ==
    /\ waiting' = [waiting EXCEPT ![t] = NoRequest]
    /\ answer' = [answer EXCEPT ![t] = reply]

Refuse(t, code) ==
    Answer(t, Refusal(code)) /\ UNCHANGED <<registrations, queue, directory>>

RegisteredBlocks ==
    SumFunction([h \in DOMAIN registrations |-> Blocks(registrations[h])])

RegisterMemory(t, r) ==
    \/ /\ r.host_id \notin DOMAIN registrations
       /\ registrations' = Extend(registrations, r.host_id, r)
       /\ queue' = Extend(queue, r.host_id, [i \in 1..Blocks(r) |-> i - 1])
       /\ Answer(t, Registered(Blocks(r)))
       /\ UNCHANGED directory
    \/ /\ r.host_id \in DOMAIN registrations
       /\ registrations[r.host_id] = r
       /\ Answer(t, Registered(Blocks(r)))
       /\ UNCHANGED <<registrations, queue, directory>>
    \/ /\ r.host_id \in DOMAIN registrations
       /\ registrations[r.host_id] # r
       /\ Refuse(t, "kHostAlreadyRegistered")
    \/ /\ r.host_id \notin DOMAIN registrations
       /\ RegisteredBlocks + Blocks(r) \notin Word
       /\ Refuse(t, "kInvalidArgument")

AllocBlocks(t, host, keys) ==
    LET n == Len(keys)
        allocations == [i \in 1..n |->
            [key |-> keys[i], host_id |-> host, block_id |-> queue[host][i]]]
        IndexOf(key) == CHOOSE i \in 1..n : keys[i] = key
    IN  \/ host \notin DOMAIN queue /\ Refuse(t, "kHostNotRegistered")
        \/ /\ host \in DOMAIN queue
           /\ \E i \in 1..n : keys[i] \in DOMAIN directory
           /\ Refuse(t, "kKeyAlreadyExists")
        \/ /\ host \in DOMAIN queue
           /\ \A i \in 1..n : keys[i] \notin DOMAIN directory
           /\ n > Len(queue[host])
           /\ Refuse(t, "kInsufficientMemory")
        \/ /\ host \in DOMAIN queue
           /\ \A i \in 1..n : keys[i] \notin DOMAIN directory
           /\ n <= Len(queue[host])
           /\ directory' = [key \in DOMAIN directory \cup {keys[i] : i \in 1..n} |->
                 IF key \in DOMAIN directory THEN directory[key]
                 ELSE [host_id |-> host, block_id |-> queue[host][IndexOf(key)]]]
           /\ queue' = [queue EXCEPT ![host] = SubSeq(@, n + 1, Len(@))]
           /\ Answer(t, Allocated(allocations))
           /\ UNCHANGED registrations

FreeBlocks(t, host, keys) ==
    LET missing  == {i \in DOMAIN keys : keys[i] \notin DOMAIN directory}
        foreign  == {i \in DOMAIN keys \ missing : directory[keys[i]].host_id # host}
        returned == [i \in DOMAIN keys |-> directory[keys[i]].block_id]
    IN  \/ host \notin DOMAIN queue /\ Refuse(t, "kHostNotRegistered")
        \/ host \in DOMAIN queue /\ missing # {} /\ Refuse(t, "kKeyNotFound")
        \/ host \in DOMAIN queue /\ foreign # {} /\ Refuse(t, "kKeyHostMismatch")
        \/ /\ host \in DOMAIN queue
           /\ missing = {} /\ foreign = {}
           /\ directory' = [key \in DOMAIN directory \
                               {keys[i] : i \in DOMAIN keys} |-> directory[key]]
           /\ queue' = [queue EXCEPT ![host] = @ \o returned]
           /\ Answer(t, Freed(Len(keys)))
           /\ UNCHANGED registrations

-----------------------------------------------------------------------------
(* Requests that only read.  *)

Exist(key) ==
    IF key \in DOMAIN directory THEN Found(directory[key]) ELSE Refusal("kKeyNotFound")

(* The longest prefix of the list whose keys are all allocated; the blocks *)
(* of it that lie on one host, that of the most of them; of several such    *)
(* hosts, the one whose last block of the prefix comes first.               *)
BatchExist(keys) ==
    LET present == {n \in 0..Len(keys) : \A i \in 1..n : keys[i] \in DOMAIN directory}
        on(host) == {i \in 1..Max(present) : directory[keys[i]].host_id = host}
        hosts    == {directory[keys[i]].host_id : i \in 1..Max(present)}
        largest  == {h \in hosts : \A g \in hosts :
                        Cardinality(on(g)) <= Cardinality(on(h))}
        best     == CHOOSE h \in largest : \A g \in largest : Max(on(h)) <= Max(on(g))
        nth(k)   == CHOOSE i \in on(best) :
                        Cardinality({j \in on(best) : j <= i}) = k
    IN  IF 1 \notin present
        THEN Refusal("kKeyNotFound")
        ELSE BestMatch(best, [k \in 1..Cardinality(on(best)) |->
                [key |-> keys[nth(k)], host_id |-> best,
                 block_id |-> directory[keys[nth(k)]].block_id]])

FreeCount == SumFunction([h \in DOMAIN queue |-> Len(queue[h])])

ReadReply(r) ==
    CASE r.op = "Exist"      -> Exist(CanonicalKey(r.key))
      [] r.op = "BatchExist" -> BatchExist(Canonical(r.keys))
      [] r.op = "FindHost"   ->
            IF r.host_id \in DOMAIN registrations
            THEN FoundHost(registrations[r.host_id])
            ELSE Refusal("nullopt")
      [] r.op = "RegisteredHostCount" -> Counted(Cardinality(DOMAIN registrations))
      [] r.op = "AvailableBlockCount" -> Counted(FreeCount % (MaxWord + 1))
      [] r.op = "AllocatedBlockCount" ->
            Counted(Cardinality(DOMAIN directory) % (MaxWord + 1))

Read(t, r) ==
    /\ r.op \notin WriteOps
    /\ Answer(t, ReadReply(r))
    /\ UNCHANGED <<registrations, queue, directory>>

-----------------------------------------------------------------------------
Call(t) ==
    /\ waiting[t] = NoRequest /\ answer[t] = NoReply
    /\ \E r \in Requests : waiting' = [waiting EXCEPT ![t] = r]
    /\ UNCHANGED <<registrations, queue, directory, answer>>

TakeEffect(t) ==
    /\ waiting[t] # NoRequest
    /\ LET r == waiting[t] IN
          \/ \E code \in RefusalsOf(r) : Refuse(t, code)
          \/ /\ RefusalsOf(r) = {}
             /\ \/ r.op = "RegisterMemory" /\ RegisterMemory(t, r.registration)
                \/ r.op = "AllocBlocks" /\ AllocBlocks(t, r.host_id, Canonical(r.keys))
                \/ r.op = "FreeBlocks" /\ FreeBlocks(t, r.host_id, Canonical(r.keys))
                \/ Read(t, r)

Return(t) ==
    /\ answer[t] # NoReply
    /\ answer' = [answer EXCEPT ![t] = NoReply]
    /\ UNCHANGED <<registrations, queue, directory, waiting>>

Next == \E t \in Threads : Call(t) \/ TakeEffect(t) \/ Return(t)

Spec == Init /\ [][Next]_vars
=============================================================================
