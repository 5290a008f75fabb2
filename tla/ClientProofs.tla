---------------------------- MODULE ClientProofs ----------------------------
(***************************************************************************)
(* Proofs about Client: what a client keeps of the Master's replies, what   *)
(* the GPU runtime holds for it, where its copies go, and what its user may *)
(* rely on, for any number of clients, connections, hosts, configuration   *)
(* lines and commands.                                                     *)
(***************************************************************************)
EXTENDS Client, SumTheorems

(* What holds of the Master besides the type of the requests it has.        *)
MasterTyped ==
    /\ DOMAIN registrations \subseteq HostIds
    /\ DOMAIN queue = DOMAIN registrations
    /\ \A h \in DOMAIN queue : queue[h] \in Seq(Nat)
    /\ \A key \in DOMAIN directory : directory[key] \in BlockLocation
    /\ queue = [h \in DOMAIN queue |-> queue[h]]
    /\ answer = [k \in Connections |-> answer[k]]

(* What a command may rely on in the reply to a request.                    *)
Answers(reply, r) ==
    r.op = "Exist" /\ reply.code = "kOk" =>
       [host_id |-> reply.host_id, block_id |-> reply.block_id] \in BlockLocation

(* The conversation of a client on its connection: nobody else is on it, a *)
(* request and its reply are never both there, nothing is there outside of *)
(* a call, and what is there belongs to the command.                       *)
Conversation(c) ==
    \A k \in Connections : conn[c] = k =>
       /\ \A d \in Clients : conn[d] = k => d = c
       /\ answer[k] # NoReply => waiting[k] = NoRequest
       /\ stage[c] \notin {"join", "call"} => waiting[k] = NoRequest /\ answer[k] = NoReply
       /\ stage[c] = "call" =>
             /\ waiting[k] # NoRequest => waiting[k] = RequestOf(c, command[c])
             /\ answer[k] # NoReply => Answers(answer[k], RequestOf(c, command[c]))

Conversations == \A c \in Clients : Conversation(c)

(* The inductive invariant.  *)
CInv ==
    /\ TypeOK /\ MasterTyped /\ Conversations
    /\ GpuReleased /\ AccessInsideMapping

-----------------------------------------------------------------------------
(* Requests and commands.  *)

(* What RequestOf builds for a command is a request of the protocol.        *)
LEMMA RequestTyped ==
    ASSUME NEW c \in Clients, NEW cmd \in Commands
    PROVE  /\ RequestOf(c, cmd) \in Request
           /\ cmd.name = "alloc" <=> RequestOf(c, cmd).op = "AllocBlocks"
           /\ cmd.name = "free" <=> RequestOf(c, cmd).op = "FreeBlocks"
           /\ cmd.name \in {"alloc", "free"} =>
                 /\ RequestOf(c, cmd).host_id = HostIdOf[c]
                 /\ RequestOf(c, cmd).keys = cmd.keys
           /\ cmd.name \in {"write", "get"} => RequestOf(c, cmd).op = "Exist"
           /\ cmd.name = "register" <=> RequestOf(c, cmd).op = "RegisterMemory"
<1>0. cmd \in Command /\ HostIdOf[c] \in HostIds
  BY ClientAssumption
<1>1. CASE cmd.name = "register"
  <2>1. cmd \in [name : {"register"}, start_address : Word, total_size : Word, block_size : Word]
    BY <1>0, <1>1 DEF Command
  <2> DEFINE r == [host_id |-> HostIdOf[c], start_address |-> cmd.start_address,
                   total_size |-> cmd.total_size, block_size |-> cmd.block_size]
  <2>2. r \in MemoryRegistration
    BY <1>0, <2>1 DEF MemoryRegistration
  <2>3. RequestOf(c, cmd) = [op |-> "RegisterMemory", registration |-> r]
    BY <1>1 DEF RequestOf
  <2> QED BY <1>1, <2>2, <2>3 DEF Request
<1>2. CASE cmd.name \in {"alloc", "free", "batch_exist"}
  <2>1. cmd.keys \in Seq(RawKeys)
    BY <1>0, <1>2 DEF Command
  <2>2. CASE cmd.name = "alloc"
    <3>1. RequestOf(c, cmd) = [op |-> "AllocBlocks", host_id |-> HostIdOf[c], keys |-> cmd.keys]
      BY <2>2 DEF RequestOf
    <3> QED BY <1>0, <2>1, <2>2, <3>1 DEF Request, BatchOps
  <2>3. CASE cmd.name = "free"
    <3>1. RequestOf(c, cmd) = [op |-> "FreeBlocks", host_id |-> HostIdOf[c], keys |-> cmd.keys]
      BY <2>3 DEF RequestOf
    <3> QED BY <1>0, <2>1, <2>3, <3>1 DEF Request, BatchOps
  <2>4. CASE cmd.name = "batch_exist"
    <3>1. RequestOf(c, cmd) = [op |-> "BatchExist", keys |-> cmd.keys]
      BY <2>4 DEF RequestOf
    <3> QED BY <1>0, <2>1, <2>4, <3>1 DEF Request
  <2> QED BY <1>2, <2>2, <2>3, <2>4
<1>3. CASE cmd.name \in {"exist", "write", "get"}
  <2>1. cmd.key \in RawKeys
    BY <1>0, <1>3 DEF Command
  <2>2. RequestOf(c, cmd) = [op |-> "Exist", key |-> cmd.key]
    BY <1>3 DEF RequestOf
  <2> QED BY <1>3, <2>1, <2>2 DEF Request
<1> QED BY <1>0, <1>1, <1>2, <1>3 DEF Command

(* The request with which a configured host joins.                         *)
LEMMA JoinTyped ==
    ASSUME NEW c \in Clients, NEW i \in DOMAIN Config
    PROVE  /\ RegistrationOf(c, Config[i]) \in MemoryRegistration
           /\ [op |-> "RegisterMemory", registration |-> RegistrationOf(c, Config[i])] \in Request
<1>1. HostIdOf[c] \in HostIds /\ BlockSizeOf[c] \in Word /\ Config[i] \in PhysmapConfigEntry
  BY ClientAssumption
<1>2. Config[i].start_address \in Word /\ Config[i].size \in Word
  BY <1>1 DEF PhysmapConfigEntry
<1>3. RegistrationOf(c, Config[i]) \in MemoryRegistration
  BY <1>1, <1>2 DEF RegistrationOf, MemoryRegistration
<1> QED BY <1>3 DEF Request

-----------------------------------------------------------------------------
(* The Master.  *)

(* A request that is not refused for what it says has well-formed keys, no  *)
(* two the same.                                                           *)
LEMMA KeysAccepted ==
    ASSUME NEW r, r.op \in BatchOps, Master!RefusalsOf(r) = {}
    PROVE  /\ \A i \in DOMAIN r.keys : IsSha256Key(r.keys[i])
           /\ \A i, j \in DOMAIN r.keys :
                 i # j => CanonicalKey(r.keys[i]) # CanonicalKey(r.keys[j])
<1>1. Master!RefusalsOfKeys(r.keys) = {}
  BY DEF Master!RefusalsOf, Master!BatchOps, BatchOps
<1> QED
  BY <1>1 DEF Master!RefusalsOfKeys, Master!IsSha256Key, IsSha256Key,
              Master!CanonicalKey, CanonicalKey

(* A request is refused for what it says with one of two codes.             *)
LEMMA RefusalCodes ==
    ASSUME NEW r, NEW code \in Master!RefusalsOf(r)
    PROVE  code \in {"kInvalidArgument", "kInvalidKey"}
BY DEF Master!RefusalsOf, Master!RefusalsOfKeys

(* A request takes effect: the variables of the Master keep their types,    *)
(* and the reply is one that a command may rely on.                        *)
LEMMA ServeTyped ==
    ASSUME MasterTyped, waiting \in [Connections -> Request \cup {NoRequest}],
           NEW k \in Connections, Master!TakeEffect(k)
    PROVE  /\ MasterTyped'
           /\ waiting[k] \in Request
           /\ waiting' = [waiting EXCEPT ![k] = NoRequest]
           /\ \A j \in Connections : j # k => answer'[j] = answer[j]
           /\ Answers(answer'[k], waiting[k])
<1> DEFINE r == waiting[k]
<1>1. r \in Request /\ r # NoRequest
  BY DEF Master!TakeEffect
<1>2. ASSUME NEW reply, Master!Answer(k, reply)
      PROVE  /\ waiting' = [waiting EXCEPT ![k] = NoRequest]
             /\ \A j \in Connections : j # k => answer'[j] = answer[j]
             /\ answer'[k] = reply
             /\ answer' = [j \in Connections |-> answer'[j]]
  BY <1>2 DEF MasterTyped, Master!Answer
<1>3. ASSUME NEW code, Master!Refuse(k, code), code # "kOk"
      PROVE  /\ MasterTyped'
             /\ waiting' = [waiting EXCEPT ![k] = NoRequest]
             /\ \A j \in Connections : j # k => answer'[j] = answer[j]
             /\ Answers(answer'[k], r)
  <2>1. Master!Answer(k, [code |-> code]) /\ UNCHANGED <<registrations, queue, directory>>
    BY <1>3 DEF Master!Refuse, Master!Refusal
  <2>2. answer'[k] = [code |-> code] /\ answer' = [j \in Connections |-> answer'[j]]
    BY <2>1, <1>2
  <2>3. Answers(answer'[k], r)
    BY <2>2, <1>3 DEF Answers
  <2>4. MasterTyped'
    BY <2>1, <2>2 DEF MasterTyped
  <2> QED BY <2>1, <2>3, <2>4, <1>2
<1>4. CASE \E code \in Master!RefusalsOf(r) : Master!Refuse(k, code)
  BY <1>1, <1>3, <1>4, RefusalCodes
<1>5. CASE Master!RefusalsOf(r) = {} /\ r.op = "RegisterMemory" /\ Master!RegisterMemory(k, r.registration)
  <2> DEFINE g == r.registration
  <2>1. g \in MemoryRegistration
    BY <1>1, <1>5 DEF Request, BatchOps, CountOps
  <2>2. Master!Blocks(g) \in Nat
    <3>1. Master!ValidRegistration(g)
      <4>1. Master!RefusalsOf(r) = IF Master!ValidRegistration(g) THEN {} ELSE {"kInvalidArgument"}
        BY <1>5 DEF Master!RefusalsOf, Master!BatchOps
      <4>2. {"kInvalidArgument"} # {}
        OBVIOUS
      <4> QED BY <1>5, <4>1, <4>2
    <3>2. g.total_size \in Nat /\ g.block_size \in Nat \ {0}
      BY <2>1, <3>1, WordAssumption DEF MemoryRegistration, Word, Master!ValidRegistration
    <3>3. \A n \in Nat, d \in Nat \ {0} : n \div d \in Nat
      OBVIOUS
    <3> QED BY <3>2, <3>3 DEF Master!Blocks
  <2>3. \A h : Answers(h, r)
    BY <1>5 DEF Answers
  <2>4. CASE /\ g.host_id \notin DOMAIN registrations
             /\ registrations' = Master!Extend(registrations, g.host_id, g)
             /\ queue' = Master!Extend(queue, g.host_id, [i \in 1..Master!Blocks(g) |-> i - 1])
             /\ Master!Answer(k, Master!Registered(Master!Blocks(g)))
             /\ UNCHANGED directory
    <3> DEFINE b == Master!Blocks(g)
               ids == [i \in 1..b |-> i - 1]
    <3>1. ids \in Seq(Nat)
      BY <2>2
    <3> HIDE DEF ids
    <3>2. g.host_id \in HostIds
      BY <2>1 DEF MemoryRegistration
    <3>3. /\ DOMAIN registrations' = DOMAIN registrations \cup {g.host_id}
          /\ DOMAIN queue' = DOMAIN queue \cup {g.host_id}
          /\ queue' = [h \in DOMAIN queue' |-> queue'[h]]
          /\ \A h \in DOMAIN queue' : queue'[h] = IF h = g.host_id THEN ids ELSE queue[h]
      BY <2>4 DEF Master!Extend, ids
    <3>4. \A h \in DOMAIN queue' : queue'[h] \in Seq(Nat)
      BY <3>1, <3>3 DEF MasterTyped
    <3>5. answer' = [j \in Connections |-> answer'[j]]
      BY <2>4, <1>2
    <3>6. MasterTyped'
      BY <2>4, <3>2, <3>3, <3>4, <3>5 DEF MasterTyped
    <3> QED BY <3>6, <2>3, <2>4, <1>1, <1>2
  <2>5. ASSUME NEW reply, Master!Answer(k, reply), UNCHANGED <<registrations, queue, directory>>
        PROVE  MasterTyped'
    BY <2>5, <1>2 DEF MasterTyped
  <2>6. CASE /\ Master!Answer(k, Master!Registered(Master!Blocks(g)))
             /\ UNCHANGED <<registrations, queue, directory>>
    BY <2>3, <2>5, <2>6, <1>1, <1>2
  <2>7. CASE \/ Master!Refuse(k, "kHostAlreadyRegistered")
             \/ Master!Refuse(k, "kInvalidArgument")
    BY <1>1, <1>3, <2>7
  <2> QED BY <1>5, <2>4, <2>6, <2>7 DEF Master!RegisterMemory
<1>6. CASE /\ Master!RefusalsOf(r) = {} /\ r.op = "AllocBlocks"
           /\ Master!AllocBlocks(k, r.host_id, Master!Canonical(r.keys))
  <2> DEFINE keys == Master!Canonical(r.keys)
             host == r.host_id
             n == Len(keys)
             allocations == [i \in 1..n |->
                [key |-> keys[i], host_id |-> host, block_id |-> queue[host][i]]]
             IndexOf(key) == CHOOSE i \in 1..n : keys[i] = key
  <2>1. \A reply : Answers(reply, r)
    BY <1>6 DEF Answers
  <2>2. CASE \/ Master!Refuse(k, "kHostNotRegistered") \/ Master!Refuse(k, "kKeyAlreadyExists")
             \/ Master!Refuse(k, "kInsufficientMemory")
    BY <1>1, <1>3, <2>2
  <2>3. CASE /\ host \in DOMAIN queue /\ n <= Len(queue[host])
             /\ directory' = [key \in DOMAIN directory \cup {keys[i] : i \in 1..n} |->
                  IF key \in DOMAIN directory THEN directory[key]
                  ELSE [host_id |-> host, block_id |-> queue[host][IndexOf(key)]]]
             /\ queue' = [queue EXCEPT ![host] = SubSeq(@, n + 1, Len(@))]
             /\ Master!Answer(k, Master!Allocated(allocations))
             /\ UNCHANGED registrations
    <3>1. host \in HostIds /\ r.keys \in Seq(RawKeys)
      BY <1>1, <1>6 DEF Request, BatchOps, CountOps
    <3>2. keys \in Seq({CanonicalKey(key) : key \in RawKeys}) /\ n \in Nat
      <4>1. PICK l \in Nat : DOMAIN r.keys = 1..l
        BY <3>1
      <4>2. \A i \in 1..l : r.keys[i] \in RawKeys
        BY <3>1, <4>1
      <4>3. keys = [i \in 1..l |-> CanonicalKey(r.keys[i])]
        BY <4>1 DEF Master!Canonical, Master!CanonicalKey, CanonicalKey
      <4> HIDE DEF keys
      <4> QED BY <4>2, <4>3
    <3> HIDE DEF keys
    <3>3. queue[host] \in Seq(Nat)
      BY <2>3 DEF MasterTyped
    <3>4. SubSeq(queue[host], n + 1, Len(queue[host])) \in Seq(Nat)
      BY <3>2, <3>3
    <3>5. /\ DOMAIN queue' = DOMAIN queue
          /\ queue' = [h \in DOMAIN queue' |-> queue'[h]]
          /\ \A h \in DOMAIN queue' : queue'[h] \in Seq(Nat)
      BY <2>3, <3>4 DEF MasterTyped
    <3>6. ASSUME NEW key \in DOMAIN directory'
          PROVE  directory'[key] \in BlockLocation
      <4>1. CASE key \in DOMAIN directory
        BY <2>3, <3>6, <4>1 DEF MasterTyped
      <4>2. CASE key \notin DOMAIN directory
        <5>1. \E i \in 1..n : keys[i] = key
          BY <2>3, <3>6, <4>2
        <5>2. IndexOf(key) \in 1..n
          BY <5>1
        <5>3. queue[host][IndexOf(key)] \in Nat
          BY <2>3, <3>2, <3>3, <5>2
        <5>4. directory'[key] = [host_id |-> host, block_id |-> queue[host][IndexOf(key)]]
          BY <2>3, <3>6, <4>2
        <5> QED BY <3>1, <5>3, <5>4 DEF BlockLocation
      <4> QED BY <4>1, <4>2
    <3>7. answer' = [j \in Connections |-> answer'[j]]
      BY <2>3, <1>2
    <3>8. MasterTyped'
      BY <2>3, <3>5, <3>6, <3>7 DEF MasterTyped
    <3> QED BY <2>1, <2>3, <3>8, <1>1, <1>2
  <2> QED BY <1>6, <2>2, <2>3 DEF Master!AllocBlocks
<1>7. CASE /\ Master!RefusalsOf(r) = {} /\ r.op = "FreeBlocks"
           /\ Master!FreeBlocks(k, r.host_id, Master!Canonical(r.keys))
  <2> DEFINE keys == Master!Canonical(r.keys)
             host == r.host_id
             missing  == {i \in DOMAIN keys : keys[i] \notin DOMAIN directory}
             returned == [i \in DOMAIN keys |-> directory[keys[i]].block_id]
  <2>1. \A reply : Answers(reply, r)
    BY <1>7 DEF Answers
  <2>2. CASE \/ Master!Refuse(k, "kHostNotRegistered") \/ Master!Refuse(k, "kKeyNotFound")
             \/ Master!Refuse(k, "kKeyHostMismatch")
    BY <1>1, <1>3, <2>2
  <2>3. CASE /\ host \in DOMAIN queue /\ missing = {}
             /\ directory' = [key \in DOMAIN directory \ {keys[i] : i \in DOMAIN keys} |-> directory[key]]
             /\ queue' = [queue EXCEPT ![host] = @ \o returned]
             /\ Master!Answer(k, Master!Freed(Len(keys)))
             /\ UNCHANGED registrations
    <3>1. r.keys \in Seq(RawKeys)
      BY <1>1, <1>7 DEF Request, BatchOps, CountOps
    <3>2. keys \in Seq({CanonicalKey(key) : key \in RawKeys})
      <4>1. PICK l \in Nat : DOMAIN r.keys = 1..l
        BY <3>1
      <4>2. \A i \in 1..l : r.keys[i] \in RawKeys
        BY <3>1, <4>1
      <4>3. keys = [i \in 1..l |-> CanonicalKey(r.keys[i])]
        BY <4>1 DEF Master!Canonical, Master!CanonicalKey, CanonicalKey
      <4> HIDE DEF keys
      <4> QED BY <4>2, <4>3
    <3> HIDE DEF keys
    <3>3. queue[host] \in Seq(Nat)
      BY <2>3 DEF MasterTyped
    <3>4. \A i \in DOMAIN keys : directory[keys[i]].block_id \in Nat
      BY <2>3 DEF MasterTyped, BlockLocation
    <3>5. queue[host] \o returned \in Seq(Nat)
      <4>1. PICK n \in Nat : DOMAIN keys = 1..n
        BY <3>2
      <4>2. [i \in 1..n |-> directory[keys[i]].block_id] \in Seq(Nat)
        BY <3>4, <4>1
      <4> QED BY <3>3, <4>1, <4>2
    <3> HIDE DEF returned
    <3>6. /\ DOMAIN queue' = DOMAIN queue
          /\ queue' = [h \in DOMAIN queue' |-> queue'[h]]
          /\ \A h \in DOMAIN queue' : queue'[h] \in Seq(Nat)
      BY <2>3, <3>5 DEF MasterTyped
    <3>7. \A key \in DOMAIN directory' : directory'[key] \in BlockLocation
      BY <2>3 DEF MasterTyped
    <3>8. answer' = [j \in Connections |-> answer'[j]]
      BY <2>3, <1>2
    <3>9. MasterTyped'
      BY <2>3, <3>6, <3>7, <3>8 DEF MasterTyped
    <3> QED BY <2>1, <2>3, <3>9, <1>1, <1>2
  <2> QED BY <1>7, <2>2, <2>3 DEF Master!FreeBlocks
<1>8. CASE Master!Read(k, r)
  <2>1. Master!Answer(k, Master!ReadReply(r)) /\ UNCHANGED <<registrations, queue, directory>>
    BY <1>8 DEF Master!Read
  <2>2. MasterTyped'
    BY <2>1, <1>2 DEF MasterTyped
  <2>3. Answers(Master!ReadReply(r), r)
    <3> SUFFICES ASSUME r.op = "Exist", Master!ReadReply(r).code = "kOk"
                 PROVE  [host_id |-> Master!ReadReply(r).host_id,
                         block_id |-> Master!ReadReply(r).block_id] \in BlockLocation
      BY DEF Answers
    <3> DEFINE key == Master!CanonicalKey(r.key)
    <3>1. Master!ReadReply(r) = Master!Exist(key)
      BY DEF Master!ReadReply
    <3>2. key \in DOMAIN directory
      BY <3>1 DEF Master!Exist, Master!Refusal
    <3>3. /\ Master!ReadReply(r).host_id = directory[key].host_id
          /\ Master!ReadReply(r).block_id = directory[key].block_id
      BY <3>1, <3>2 DEF Master!Exist, Master!Found
    <3> QED BY <3>2, <3>3 DEF MasterTyped, BlockLocation
  <2> QED BY <2>1, <2>2, <2>3, <1>1, <1>2
<1> QED BY <1>1, <1>4, <1>5, <1>6, <1>7, <1>8 DEF Master!TakeEffect

-----------------------------------------------------------------------------
(* Steps of the clients.  *)

(* A reply leaves its connection.                                          *)
LEMMA ReturnTyped ==
    ASSUME MasterTyped, NEW k \in Connections, Master!Return(k)
    PROVE  /\ MasterTyped' /\ waiting' = waiting
           /\ answer'[k] = NoReply
           /\ \A j \in Connections : j # k => answer'[j] = answer[j]
BY DEF MasterTyped, Master!Return

(* Nothing changes on any connection.                                      *)
LEMMA MasterUnchanged ==
    ASSUME MasterTyped, UNCHANGED masterVars
    PROVE  /\ MasterTyped' /\ waiting' = waiting /\ answer' = answer
           /\ registrations' = registrations /\ queue' = queue /\ directory' = directory
BY DEF MasterTyped, masterVars

(* What a client keeps about itself and its GPU, without its conversation.  *)
Local(c) ==
    /\ stage[c] \in {"down", "load", "join", "prompt", "call", "map", "copy", "release"}
    /\ conn[c] \in Connections \cup {NoConnection}
    /\ command[c] \in Commands \cup {Null}
    /\ lines[c] \in 0..Len(Config)
    /\ location[c] \in BlockLocation \cup {Null}
    /\ access[c] \in MappedRange \cup {Null}
    /\ gpu[c] \in SUBSET {"registration", "buffer"}
    /\ command[c] # Null <=> stage[c] \in {"call", "map", "copy", "release"}
    /\ access[c] # Null <=> stage[c] \in {"map", "copy", "release"}
    /\ location[c] # Null <=> access[c] # Null
    /\ conn[c] = NoConnection => stage[c] \notin {"join", "call"}
    /\ stage[c] \notin {"copy", "release"} => gpu[c] = {}
    /\ access[c] # Null =>
       /\ access[c].line <= lines[c]
       /\ Config[access[c].line].host_id = location[c].host_id
       /\ access[c].offset = location[c].block_id * BlockSizeOf[c]
       /\ access[c].offset + access[c].count <= Config[access[c].line].size

Shapes ==
    /\ waiting \in [Connections -> Request \cup {NoRequest}]
    /\ doubt \in [Clients -> SUBSET RawKeys]
    /\ stage = [c \in Clients |-> stage[c]]
    /\ conn = [c \in Clients |-> conn[c]]
    /\ command = [c \in Clients |-> command[c]]
    /\ lines = [c \in Clients |-> lines[c]]
    /\ location = [c \in Clients |-> location[c]]
    /\ access = [c \in Clients |-> access[c]]
    /\ gpu = [c \in Clients |-> gpu[c]]

(* The invariant is one of each client, and of the Master.                  *)
LEMMA InvariantByClient ==
    CInv <=> /\ Shapes /\ MasterTyped /\ Conversations
             /\ \A c \in Clients : Local(c)
<1>1. CInv => Shapes /\ \A c \in Clients : Local(c)
  BY DEF CInv, TypeOK, Shapes, Local, GpuReleased, AccessInsideMapping
<1>2. Shapes /\ (\A c \in Clients : Local(c)) => TypeOK /\ GpuReleased /\ AccessInsideMapping
  BY DEF TypeOK, Shapes, Local, GpuReleased, AccessInsideMapping
<1> QED BY <1>1, <1>2 DEF CInv

(* The same after a step.                                                  *)
LEMMA InvariantOfClients ==
    ASSUME Shapes', MasterTyped', Conversations', \A c \in Clients : Local(c)'
    PROVE  CInv'
<1>1. TypeOK' /\ GpuReleased' /\ AccessInsideMapping'
  BY DEF TypeOK, Shapes, Local, GpuReleased, AccessInsideMapping
<1> QED BY <1>1 DEF CInv

OthersKeep(c) ==
    \A d \in Clients \ {c} :
       /\ stage'[d] = stage[d] /\ conn'[d] = conn[d] /\ command'[d] = command[d]
       /\ lines'[d] = lines[d] /\ location'[d] = location[d]
       /\ access'[d] = access[d] /\ gpu'[d] = gpu[d]

(* The client uses its connection, gives it up, or takes one of nobody.     *)
OwnConnection(c) ==
    /\ \A k \in Connections : k # conn[c] => waiting'[k] = waiting[k] /\ answer'[k] = answer[k]
    /\ \A d \in Clients \ {c} : conn'[c] \in Connections => conn[d] # conn'[c]

(* A step of one client preserves the invariant if it does for that client. *)
LEMMA ClientStep ==
    ASSUME CInv, NEW c \in Clients, Shapes', MasterTyped', OthersKeep(c), OwnConnection(c),
           Local(c)', Conversation(c)'
    PROVE  CInv'
<1>1. \A d \in Clients \ {c} : Local(d)'
  BY InvariantByClient DEF OthersKeep, Local
<1>2. ASSUME NEW d \in Clients \ {c} PROVE Conversation(d)'
  <2> SUFFICES ASSUME NEW k \in Connections, conn'[d] = k
               PROVE  /\ \A e \in Clients : conn'[e] = k => e = d
                      /\ answer'[k] # NoReply => waiting'[k] = NoRequest
                      /\ stage'[d] \notin {"join", "call"} => waiting'[k] = NoRequest /\ answer'[k] = NoReply
                      /\ stage'[d] = "call" =>
                            /\ waiting'[k] # NoRequest => waiting'[k] = RequestOf(d, command'[d])
                            /\ answer'[k] # NoReply => Answers(answer'[k], RequestOf(d, command'[d]))
    BY DEF Conversation
  <2>1. conn[d] = k /\ conn'[c] # k
    BY DEF OthersKeep, OwnConnection
  <2>2. Conversation(d)
    BY DEF CInv, Conversations
  <2>3. \A e \in Clients : conn[e] = k => e = d
    BY <2>1, <2>2 DEF Conversation
  <2>4. conn[c] # k
    BY <2>3
  <2>5. waiting'[k] = waiting[k] /\ answer'[k] = answer[k]
    BY <2>4 DEF OwnConnection
  <2>6. \A e \in Clients : conn'[e] = k => e = d
    BY <2>1, <2>3 DEF OthersKeep
  <2>7. stage'[d] = stage[d] /\ command'[d] = command[d]
    BY DEF OthersKeep
  <2> QED BY <2>1, <2>2, <2>5, <2>6, <2>7 DEF Conversation
<1>3. Conversations' /\ \A d \in Clients : Local(d)'
  BY <1>1, <1>2 DEF Conversations
<1> QED BY <1>3, InvariantOfClients

(* What the invariant says of one client.                                  *)
LEMMA OfClient ==
    ASSUME CInv, NEW c \in Clients
    PROVE  /\ Shapes /\ MasterTyped /\ Local(c) /\ Conversation(c)
           /\ \A d \in Clients \ {c} : conn[c] \in Connections => conn[d] # conn[c]
<1>1. Shapes /\ MasterTyped /\ Local(c) /\ Conversation(c)
  BY InvariantByClient DEF Conversations
<1>2. ASSUME NEW d \in Clients \ {c}, conn[c] \in Connections PROVE conn[d] # conn[c]
  BY <1>1, <1>2 DEF Conversation
<1> QED BY <1>1, <1>2

(* The end of a process, whatever it was doing, and whatever became of the  *)
(* messages on its connection.                                             *)
LEMMA GoneStep ==
    ASSUME CInv, NEW c \in Clients, Gone(c), MasterTyped',
           waiting' = waiting, doubt' \in [Clients -> SUBSET RawKeys],
           \A k \in Connections : k # conn[c] => answer'[k] = answer[k]
    PROVE  CInv'
<1>1. Shapes /\ Local(c)
  BY OfClient
<1>2. Shapes' /\ OthersKeep(c)
  BY <1>1 DEF Gone, Goto, Shapes, OthersKeep
<1>3. /\ stage'[c] = "down" /\ conn'[c] = NoConnection /\ command'[c] = Null
      /\ lines'[c] = 0 /\ location'[c] = Null /\ access'[c] = Null /\ gpu'[c] = {}
  BY <1>1 DEF Gone, Goto, Shapes
<1>4. Local(c)'
  <2>1. 0 \in 0..Len(Config)
    BY ClientAssumption
  <2> QED BY <1>3, <2>1 DEF Local
<1>5. Conversation(c)' /\ OwnConnection(c)
  BY <1>3, ClientAssumption DEF Conversation, OwnConnection
<1> QED BY <1>2, <1>4, <1>5, ClientStep

-----------------------------------------------------------------------------
(* Starting up.  *)

(* A connection that is nobody's, with nothing on it.                       *)
LEMMA ConnectStep ==
    ASSUME CInv, NEW c \in Clients, Connect(c) PROVE CInv'
<1>1. Shapes /\ Local(c) /\ MasterTyped
  BY OfClient
<1>2. PICK k \in Connections :
          /\ \A d \in Clients : conn[d] # k
          /\ waiting[k] = NoRequest /\ answer[k] = NoReply
          /\ conn' = [conn EXCEPT ![c] = k]
  BY DEF Connect
<1>3. UNCHANGED masterVars /\ UNCHANGED <<command, lines, location, access, gpu, doubt>>
  BY DEF Connect, historyVars
<1>4. MasterTyped' /\ waiting' = waiting /\ answer' = answer
  BY <1>1, <1>3, MasterUnchanged
<1>5. stage[c] = "down" /\ stage' = [stage EXCEPT ![c] = IF c \in Configured THEN "load" ELSE "prompt"]
  BY DEF Connect, Goto
<1>6. Shapes' /\ OthersKeep(c)
  BY <1>1, <1>2, <1>3, <1>4, <1>5 DEF Shapes, OthersKeep
<1>7. stage'[c] \in {"load", "prompt"} /\ conn'[c] = k
  BY <1>1, <1>2, <1>5 DEF Shapes
<1>8. Local(c)'
  BY <1>1, <1>3, <1>5, <1>7, ClientAssumption DEF Local
<1>9. \A d \in Clients : conn'[d] = k => d = c
  BY <1>2, <1>6 DEF OthersKeep
<1>10. Conversation(c)'
  BY <1>2, <1>4, <1>7, <1>9 DEF Conversation
<1>11. OwnConnection(c)
  BY <1>2, <1>4, <1>7 DEF OwnConnection
<1> QED BY <1>4, <1>6, <1>8, <1>10, <1>11, ClientStep

(* A step that leaves connection and messages alone: what remains to show  *)
(* is what the client keeps.                                               *)
LEMMA QuietStep ==
    ASSUME CInv, NEW c \in Clients, UNCHANGED masterVars, conn' = conn,
           doubt' = doubt, Shapes', OthersKeep(c), Local(c)',
           stage[c] \notin {"join", "call"}, stage'[c] \notin {"join", "call"}
    PROVE  CInv'
<1>1. Conversation(c) /\ MasterTyped
  BY OfClient
<1>2. MasterTyped' /\ waiting' = waiting /\ answer' = answer
  BY <1>1, MasterUnchanged
<1>3. Conversation(c)'
  BY <1>1, <1>2 DEF Conversation
<1>4. OwnConnection(c)
  BY <1>2, OfClient DEF OwnConnection
<1> QED BY <1>2, <1>3, <1>4, ClientStep

(* A line of the configuration is mapped.                                  *)
LEMMA LoadLineStep ==
    ASSUME CInv, NEW c \in Clients, LoadLine(c) PROVE CInv'
<1>1. Shapes /\ Local(c)
  BY OfClient
<1>2. /\ stage[c] = "load" /\ lines[c] < Len(Config)
      /\ lines' = [lines EXCEPT ![c] = lines[c] + 1]
      /\ UNCHANGED masterVars
      /\ UNCHANGED <<stage, conn, command, location, access, gpu, doubt>>
  BY DEF LoadLine, historyVars
<1>3. waiting' = waiting
  BY <1>2 DEF masterVars
<1>4. Shapes' /\ OthersKeep(c)
  BY <1>1, <1>2, <1>3 DEF Shapes, OthersKeep
<1>5. lines'[c] = lines[c] + 1 /\ lines'[c] \in 0..Len(Config)
  <2>1. lines'[c] = lines[c] + 1
    BY <1>1, <1>2 DEF Shapes
  <2>2. Len(Config) \in Nat /\ lines[c] \in 0..Len(Config)
    BY <1>1, ClientAssumption DEF Local
  <2> QED BY <2>1, <2>2, <1>2
<1>6. Local(c)'
  BY <1>1, <1>2, <1>5 DEF Local
<1> QED BY <1>2, <1>4, <1>6, QuietStep

(* The host is registered as the configuration says.                        *)
LEMMA RegisterConfiguredHostStep ==
    ASSUME CInv, NEW c \in Clients, RegisterConfiguredHost(c) PROVE CInv'
<1>1. Shapes /\ Local(c) /\ MasterTyped /\ Conversation(c)
  BY OfClient
<1>2. PICK i \in FindConfig(HostIdOf[c]) :
         Send(c, [op |-> "RegisterMemory", registration |-> RegistrationOf(c, Config[i])])
  BY DEF RegisterConfiguredHost
<1> DEFINE r == [op |-> "RegisterMemory", registration |-> RegistrationOf(c, Config[i])]
<1>3. r \in Request
  BY <1>2, JoinTyped DEF FindConfig
<1> HIDE DEF r
<1>4. PICK k \in Connections : conn[c] = k
  BY <1>1, <1>2 DEF Local, Send
<1>5. /\ stage[c] = "load" /\ stage' = [stage EXCEPT ![c] = "join"]
      /\ UNCHANGED <<conn, command, lines, location, access, gpu, doubt>>
      /\ UNCHANGED <<registrations, queue, directory, answer>>
      /\ waiting' = [waiting EXCEPT ![k] = r]
  BY <1>2, <1>4 DEF RegisterConfiguredHost, Goto, historyVars, Send, r
<1>6. Shapes' /\ OthersKeep(c) /\ MasterTyped'
  BY <1>1, <1>3, <1>4, <1>5 DEF Shapes, OthersKeep, MasterTyped
<1>7. stage'[c] = "join" /\ waiting'[k] = r /\ answer'[k] = NoReply
  BY <1>1, <1>3, <1>4, <1>5 DEF Shapes, Conversation
<1>8. Local(c)'
  BY <1>1, <1>4, <1>5, <1>7, ClientAssumption DEF Local
<1>9. Conversation(c)'
  BY <1>1, <1>4, <1>5, <1>7 DEF Conversation
<1>10. OwnConnection(c)
  BY <1>1, <1>4, <1>5, OfClient DEF OwnConnection, Shapes
<1> QED BY <1>6, <1>8, <1>9, <1>10, ClientStep

(* The Master accepts the host, or the process ends.                        *)
LEMMA JoinedStep ==
    ASSUME CInv, NEW c \in Clients, Joined(c) PROVE CInv'
<1>1. Shapes /\ Local(c) /\ MasterTyped /\ Conversation(c)
  BY OfClient
<1>2. PICK k \in Connections : conn[c] = k
  BY <1>1 DEF Local, Joined, Received
<1>3. Master!Return(k) /\ stage[c] = "join" /\ doubt' = doubt
  BY <1>2 DEF Joined, Received, historyVars
<1>4. /\ MasterTyped' /\ waiting' = waiting /\ answer'[k] = NoReply
      /\ \A j \in Connections : j # k => answer'[j] = answer[j]
  BY <1>1, <1>3, ReturnTyped
<1>5. CASE Gone(c)
  BY <1>1, <1>2, <1>3, <1>4, <1>5, GoneStep DEF Shapes
<1>6. CASE stage' = [stage EXCEPT ![c] = "prompt"] /\ UNCHANGED <<conn, command, lines, location, access, gpu>>
  <2>1. Shapes' /\ OthersKeep(c)
    BY <1>1, <1>3, <1>4, <1>6 DEF Shapes, OthersKeep
  <2>2. stage'[c] = "prompt"
    BY <1>1, <1>6 DEF Shapes
  <2>3. Local(c)'
    BY <1>1, <1>3, <1>6, <2>2 DEF Local
  <2>4. answer[k] # NoReply
    BY <1>3 DEF Master!Return
  <2>5. Conversation(c)'
    BY <1>1, <1>2, <1>4, <1>6, <2>2, <2>4 DEF Conversation
  <2>6. OwnConnection(c)
    BY <1>2, <1>4, <1>6, OfClient DEF OwnConnection
  <2> QED BY <1>4, <2>1, <2>3, <2>5, <2>6, ClientStep
<1> QED BY <1>5, <1>6 DEF Joined, Goto

(* Start-up fails, a user quits: the process is gone.                       *)
LEMMA EndStep ==
    ASSUME CInv, NEW c \in Clients, StartFails(c) \/ Quit(c) \/ Kill(c) PROVE CInv'
<1>1. Shapes /\ MasterTyped
  BY OfClient
<1>2. Gone(c) /\ UNCHANGED masterVars
  BY DEF StartFails, Quit, Kill
<1>3. MasterTyped' /\ waiting' = waiting /\ answer' = answer
  BY <1>1, <1>2, MasterUnchanged
<1>4. Unanswered(c) \subseteq RawKeys
  <2>1. CASE stage[c] = "call" /\ command[c].name = "free"
    <3>1. command[c] \in Commands
      BY <2>1, OfClient DEF Local
    <3>2. command[c].keys \in Seq(RawKeys)
      BY <2>1, <3>1, ClientAssumption DEF Command
    <3> QED BY <2>1, <3>2, KeyAssumption DEF Unanswered, CanonicalKey
  <2> QED BY <2>1 DEF Unanswered
<1>5. doubt' \in [Clients -> SUBSET RawKeys]
  BY <1>1, <1>4 DEF StartFails, Quit, Kill, Shapes, historyVars
<1> QED BY <1>2, <1>3, <1>5, GoneStep

-----------------------------------------------------------------------------
(* Commands.  *)

(* The request of a command goes out.                                      *)
LEMMA EnterStep ==
    ASSUME CInv, NEW c \in Clients, Enter(c) PROVE CInv'
<1>1. Shapes /\ Local(c) /\ MasterTyped /\ Conversation(c)
  BY OfClient
<1>2. PICK cmd \in Commands : Send(c, RequestOf(c, cmd)) /\ command' = [command EXCEPT ![c] = cmd]
  BY DEF Enter
<1> DEFINE r == RequestOf(c, cmd)
<1>3. r \in Request
  BY RequestTyped
<1> HIDE DEF r
<1>4. PICK k \in Connections : conn[c] = k
  BY <1>1, <1>2 DEF Local, Send
<1>5. /\ stage[c] = "prompt" /\ stage' = [stage EXCEPT ![c] = "call"]
      /\ UNCHANGED <<conn, lines, location, access, gpu, doubt>>
      /\ UNCHANGED <<registrations, queue, directory, answer>>
      /\ waiting' = [waiting EXCEPT ![k] = r]
      /\ command' = [command EXCEPT ![c] = cmd]
  BY <1>2, <1>4 DEF Enter, Goto, Send, r
<1>6. Shapes' /\ OthersKeep(c) /\ MasterTyped'
  BY <1>1, <1>3, <1>4, <1>5 DEF Shapes, OthersKeep, MasterTyped
<1>7. stage'[c] = "call" /\ waiting'[k] = r /\ answer'[k] = NoReply /\ command'[c] = cmd
  BY <1>1, <1>3, <1>4, <1>5 DEF Shapes, Conversation
<1>8. Local(c)'
  BY <1>1, <1>4, <1>5, <1>7, ClientAssumption DEF Local
<1>9. Conversation(c)'
  BY <1>1, <1>4, <1>5, <1>7 DEF Conversation, r
<1>10. OwnConnection(c)
  BY <1>1, <1>4, <1>5, OfClient DEF OwnConnection, Shapes
<1> QED BY <1>6, <1>8, <1>9, <1>10, ClientStep

(* The reply to a command arrives: what of the client the command ends with *)
(* remains to be shown.                                                    *)
LEMMA ReplyStep ==
    ASSUME CInv, NEW c \in Clients, Received(c), stage[c] = "call",
           conn' = conn, doubt' = doubt, Shapes', OthersKeep(c), Local(c)',
           stage'[c] \notin {"join", "call"}
    PROVE  CInv'
<1>1. Shapes /\ Local(c) /\ MasterTyped /\ Conversation(c)
  BY OfClient
<1>2. PICK k \in Connections : conn[c] = k
  BY <1>1 DEF Local, Received
<1>3. /\ MasterTyped' /\ waiting' = waiting /\ answer'[k] = NoReply /\ answer[k] # NoReply
      /\ \A j \in Connections : j # k => answer'[j] = answer[j]
  BY <1>1, <1>2, ReturnTyped DEF Received, Master!Return
<1>4. Conversation(c)'
  BY <1>1, <1>2, <1>3 DEF Conversation
<1>5. OwnConnection(c)
  BY <1>2, <1>3, OfClient DEF OwnConnection
<1> QED BY <1>3, <1>4, <1>5, ClientStep

(* A reply arrives that ends the command.                                  *)
LEMMA AnsweredStep ==
    ASSUME CInv, NEW c \in Clients, Answered(c) PROVE CInv'
<1>1. Shapes /\ Local(c) /\ MasterTyped
  BY OfClient
<1>2. /\ stage[c] = "call" /\ Received(c)
      /\ stage' = [stage EXCEPT ![c] = "prompt"] /\ command' = [command EXCEPT ![c] = Null]
      /\ UNCHANGED <<conn, lines, location, access, gpu, doubt>>
  BY DEF Answered, Prompt, Goto
<1>3. waiting' = waiting
  BY <1>2 DEF Received, Master!Return
<1>4. Shapes' /\ OthersKeep(c)
  BY <1>1, <1>2, <1>3 DEF Shapes, OthersKeep
<1>5. stage'[c] = "prompt" /\ command'[c] = Null
  BY <1>1, <1>2 DEF Shapes
<1>6. Local(c)'
  BY <1>1, <1>2, <1>5 DEF Local
<1> QED BY <1>2, <1>4, <1>5, <1>6, ReplyStep

(* If the id of a block is not larger than the largest word divided by the  *)
(* block size, the product has not wrapped around.                         *)
LEMMA ProductExact ==
    ASSUME NEW b \in Nat, NEW d \in Nat \ {0}, NoOverflow(b, d)
    PROVE  Product(b, d) = b * d /\ b * d \in Word
<1> DEFINE q == MaxWord \div d
           m == MaxWord % d
<1>1. q \in Int /\ m \in 0..(d - 1) /\ MaxWord = (q * d) + m
  <2>1. MaxWord \in Int /\ d \in Nat \ {0}
    BY WordAssumption
  <2>2. /\ MaxWord \div d \in Int /\ MaxWord % d \in 0..(d - 1)
        /\ MaxWord = ((MaxWord \div d) * d) + (MaxWord % d)
    BY <2>1, DivRest
  <2> QED BY <2>2
<1>2. b <= q
  BY DEF NoOverflow
<1> HIDE DEF q, m
<1>3. q - b \in Nat
  BY <1>1, <1>2
<1>4. \A x \in Nat, y \in Nat : x * y \in Nat
  OBVIOUS
<1>5. (q - b) * d \in Nat /\ b * d \in Nat
  BY <1>3, <1>4
<1>6. (q - b) * d = (q * d) - (b * d)
  BY <1>1
<1>7. q * d \in Int
  BY <1>1
<1> DEFINE p == b * d
           e == q * d
           f == (q - b) * d
<1>8. p \in Nat /\ e \in Int /\ f \in Nat /\ f = e - p /\ MaxWord = e + m
  BY <1>1, <1>5, <1>6, <1>7
<1> HIDE DEF p, e, f
<1>9. p <= MaxWord
  BY <1>1, <1>8
<1>10. p % (MaxWord + 1) = p
  BY <1>8, <1>9, WordAssumption, RestSmall
<1>11. Product(b, d) = p /\ p \in Word
  BY <1>8, <1>9, <1>10, WordAssumption DEF Product, Word, p
<1> QED BY <1>11 DEF p

(* The count of a copy is a word.                                          *)
LEMMA CountTyped ==
    ASSUME NEW c \in Clients, NEW cmd \in Commands, cmd.name \in {"write", "get"}
    PROVE  ByteCount(c, cmd) \in Word /\ ByteCount(c, cmd) > 0
<1>1. cmd.size \in Word
  BY ClientAssumption DEF Command
<1>2. BlockSizeOf[c] \in Word \ {0}
  BY ClientAssumption
<1>3. 1 \in Word
  BY <1>2, WordAssumption DEF Word
<1> DEFINE s == cmd.size
           b == BlockSizeOf[c]
<1>4. ByteCount(c, cmd) = IF s > 0 THEN s ELSE IF cmd.name = "write" THEN b ELSE 1
  BY DEF ByteCount
<1>5. ByteCount(c, cmd) \in {s, b, 1} /\ (ByteCount(c, cmd) = s => s > 0 \/ s \in {b, 1})
  BY <1>4
<1> HIDE DEF s, b
<1> QED BY <1>1, <1>2, <1>3, <1>5, WordAssumption DEF Word, s, b

(* An address that WritableBlockAddress returns is exact and inside.        *)
LEMMA AddressInside ==
    ASSUME NEW c \in Clients, NEW block \in BlockLocation, NEW count \in Word,
           lines[c] \in 0..Len(Config), NEW a \in Addresses(c, block, count)
    PROVE  /\ a \in MappedRange /\ a.count = count
           /\ a.line <= lines[c]
           /\ Config[a.line].host_id = block.host_id
           /\ a.offset = block.block_id * BlockSizeOf[c]
           /\ a.offset + a.count <= Config[a.line].size
<1> DEFINE offset == Product(block.block_id, BlockSizeOf[c])
<1>1. PICK i \in FindConfig(block.host_id) :
         /\ a = [line |-> i, offset |-> offset, count |-> count]
         /\ i <= lines[c]
         /\ NoOverflow(block.block_id, BlockSizeOf[c])
         /\ offset <= Config[i].size /\ count <= Config[i].size - offset
  BY DEF Addresses
<1>2. block.block_id \in Nat /\ BlockSizeOf[c] \in Nat \ {0}
  BY ClientAssumption, WordAssumption DEF BlockLocation, Word
<1>3. offset = block.block_id * BlockSizeOf[c] /\ offset \in Word
  BY <1>1, <1>2, ProductExact
<1>4. i \in DOMAIN Config /\ Config[i].host_id = block.host_id
  BY <1>1 DEF FindConfig
<1>5. Config[i].size \in Word
  <2>1. Config[i] \in PhysmapConfigEntry
    BY <1>4, ClientAssumption
  <2> QED BY <2>1 DEF PhysmapConfigEntry
<1> HIDE DEF offset
<1>6. offset + count <= Config[i].size
  BY <1>1, <1>3, <1>5, WordAssumption DEF Word
<1>7. a \in MappedRange
  BY <1>1, <1>3, <1>4 DEF MappedRange
<1> QED BY <1>1, <1>3, <1>4, <1>6, <1>7

(* A copy is prepared, or there is no address for it.                       *)
LEMMA ResolvedStep ==
    ASSUME CInv, NEW c \in Clients, Resolved(c) PROVE CInv'
<1>1. Shapes /\ Local(c) /\ MasterTyped /\ Conversation(c)
  BY OfClient
<1>2. PICK k \in Connections : conn[c] = k
  BY <1>1 DEF Local, Resolved, Received
<1> DEFINE reply == answer[k]
           block == [host_id |-> reply.host_id, block_id |-> reply.block_id]
           count == ByteCount(c, command[c])
           address == Addresses(c, block, count)
<1>3. /\ stage[c] = "call" /\ command[c].name \in {"write", "get"} /\ Received(c)
      /\ reply.code = "kOk" /\ UNCHANGED <<conn, lines, gpu, doubt>>
      /\ \/ /\ address # {}
            /\ \E a \in address : access' = [access EXCEPT ![c] = a]
            /\ location' = [location EXCEPT ![c] = block]
            /\ stage' = [stage EXCEPT ![c] = "map"]
            /\ UNCHANGED command
         \/ /\ stage' = [stage EXCEPT ![c] = "prompt"] /\ command' = [command EXCEPT ![c] = Null]
            /\ UNCHANGED <<location, access>>
  BY <1>2 DEF Resolved, ReplyTo, Goto, Prompt, historyVars
<1>4. command[c] \in Commands /\ reply # NoReply
  BY <1>1, <1>2, <1>3 DEF Local, Received, Master!Return
<1>5. block \in BlockLocation
  BY <1>1, <1>2, <1>3, <1>4, RequestTyped DEF Conversation, Answers
<1>6. count \in Word
  BY <1>3, <1>4, CountTyped
<1>7. waiting' = waiting
  BY <1>3 DEF Received, Master!Return
<1> HIDE DEF block, count
<1>8. CASE /\ stage' = [stage EXCEPT ![c] = "prompt"] /\ command' = [command EXCEPT ![c] = Null]
           /\ UNCHANGED <<location, access>>
  <2>1. Shapes' /\ OthersKeep(c)
    BY <1>1, <1>3, <1>7, <1>8 DEF Shapes, OthersKeep
  <2>2. stage'[c] = "prompt" /\ command'[c] = Null
    BY <1>1, <1>8 DEF Shapes
  <2>3. Local(c)'
    BY <1>1, <1>3, <1>8, <2>2 DEF Local
  <2> QED BY <1>3, <2>1, <2>2, <2>3, ReplyStep
<1>9. ASSUME NEW a \in address, access' = [access EXCEPT ![c] = a],
             location' = [location EXCEPT ![c] = block],
             stage' = [stage EXCEPT ![c] = "map"], command' = command
      PROVE  CInv'
  <2>1. Shapes' /\ OthersKeep(c)
    BY <1>1, <1>3, <1>7, <1>9 DEF Shapes, OthersKeep
  <2>2. stage'[c] = "map" /\ access'[c] = a /\ location'[c] = block
    BY <1>1, <1>9 DEF Shapes
  <2>3. lines[c] \in 0..Len(Config)
    BY <1>1 DEF Local
  <2>4. /\ a \in MappedRange
        /\ a.line <= lines[c]
        /\ Config[a.line].host_id = block.host_id
        /\ a.offset = block.block_id * BlockSizeOf[c]
        /\ a.offset + a.count <= Config[a.line].size
    BY <1>5, <1>6, <1>9, <2>3, AddressInside
  <2>5. a # Null /\ block # Null
    BY <1>5, <2>4, ClientAssumption
  <2> HIDE DEF address
  <2>6. Local(c)'
    BY <1>1, <1>3, <1>4, <1>5, <1>9, <2>2, <2>4, <2>5, ClientAssumption DEF Local
  <2> QED BY <1>3, <2>1, <2>2, <2>6, ReplyStep
<1> QED BY <1>3, <1>8, <1>9

(* Registering the range, copying and releasing.                           *)
LEMMA GpuStep ==
    ASSUME CInv, NEW c \in Clients, HostRegister(c) \/ Copy(c) \/ Release(c)
    PROVE  CInv'
<1>1. Shapes /\ Local(c)
  BY OfClient
<1>2. UNCHANGED masterVars /\ UNCHANGED <<conn, lines, doubt>>
  BY DEF HostRegister, Copy, Release, historyVars
<1>3. waiting' = waiting
  BY <1>2 DEF masterVars
<1>4. stage[c] \in {"map", "copy", "release"}
  BY DEF HostRegister, Copy, Release
<1>5. ASSUME Finished(c), (gpu' = gpu /\ gpu[c] = {}) \/ gpu' = [gpu EXCEPT ![c] = {}]
      PROVE  CInv'
  <2>1. Shapes' /\ OthersKeep(c)
    BY <1>1, <1>2, <1>3, <1>5 DEF Shapes, OthersKeep, Finished, Prompt, Goto
  <2>2. /\ stage'[c] = "prompt" /\ command'[c] = Null /\ location'[c] = Null
        /\ access'[c] = Null /\ gpu'[c] = {}
    BY <1>1, <1>5 DEF Shapes, Finished, Prompt, Goto
  <2>3. Local(c)'
    BY <1>1, <1>2, <2>2 DEF Local
  <2> QED BY <1>2, <1>4, <2>1, <2>2, <2>3, QuietStep
<1>6. ASSUME NEW next \in {"copy", "release"}, Goto(c, next),
             UNCHANGED <<command, location, access>>,
             NEW kept \in SUBSET {"registration", "buffer"}, gpu' = [gpu EXCEPT ![c] = kept]
      PROVE  CInv'
  <2>1. Shapes' /\ OthersKeep(c)
    BY <1>1, <1>2, <1>3, <1>6 DEF Shapes, OthersKeep, Goto
  <2>2. stage'[c] = next /\ gpu'[c] = kept
    BY <1>1, <1>6 DEF Shapes, Goto
  <2>3. Local(c)'
    BY <1>1, <1>2, <1>4, <1>6, <2>2 DEF Local
  <2> QED BY <1>2, <1>4, <1>6, <2>1, <2>2, <2>3, QuietStep
<1>7. gpu[c] \in SUBSET {"registration", "buffer"} /\ gpu = [gpu EXCEPT ![c] = gpu[c]]
  BY <1>1 DEF Local, Shapes
<1>8. CASE HostRegister(c)
  <2>1. stage[c] = "map" /\ gpu[c] = {}
    BY <1>1, <1>8 DEF HostRegister, Local
  <2>2. {"registration"} \in SUBSET {"registration", "buffer"}
    OBVIOUS
  <2> QED BY <1>5, <1>6, <1>8, <2>1, <2>2 DEF HostRegister
<1>9. CASE Copy(c)
  <2>1. gpu[c] \cup {"buffer"} \in SUBSET {"registration", "buffer"}
    BY <1>7
  <2>2. /\ Goto(c, "release") /\ UNCHANGED <<command, location, access>>
        /\ \/ gpu' = [gpu EXCEPT ![c] = gpu[c]]
           \/ gpu' = [gpu EXCEPT ![c] = gpu[c] \cup {"buffer"}]
    BY <1>7, <1>9 DEF Copy
  <2> QED BY <1>6, <1>7, <2>1, <2>2
<1>10. CASE Release(c)
  BY <1>5, <1>10 DEF Release
<1> QED BY <1>8, <1>9, <1>10

-----------------------------------------------------------------------------
(* Failures, the network and the Master.  *)

(* Connections are lost, and with them what waited on them; nothing else    *)
(* becomes of the messages than that all of them are gone, or none.         *)
LEMMA DisconnectedStep ==
    ASSUME CInv, NEW lost \in SUBSET Clients, Disconnected(lost), MasterTyped',
           doubt' \in [Clients -> SUBSET RawKeys],
           (waiting' = waiting /\ answer' = answer) \/ lost = Clients,
           waiting' \in [Connections -> Request \cup {NoRequest}]
    PROVE  CInv'
<1>1. Shapes
  BY InvariantByClient
<1>2. Shapes'
  BY <1>1 DEF Shapes, Disconnected
<1>3. ASSUME NEW c \in Clients
      PROVE  /\ Local(c)'
             /\ c \in lost => conn'[c] = NoConnection
             /\ c \notin lost => /\ conn'[c] = conn[c] /\ stage'[c] = stage[c]
                                 /\ command'[c] = command[c]
  <2>1. Local(c)
    BY OfClient
  <2>2. location'[c] = location[c] /\ access'[c] = access[c] /\ gpu'[c] = gpu[c]
    BY DEF Disconnected
  <2>3. CASE c \in lost
    <3>1. /\ conn'[c] = NoConnection
          /\ stage'[c] = IF stage[c] = "call" THEN "prompt"
                         ELSE IF stage[c] = "join" THEN "down" ELSE stage[c]
          /\ command'[c] = IF stage[c] = "call" THEN Null ELSE command[c]
          /\ lines'[c] = IF stage[c] = "join" THEN 0 ELSE lines[c]
      BY <2>3 DEF Disconnected
    <3>2. 0 \in 0..Len(Config)
      BY ClientAssumption
    <3>3. /\ stage'[c] \in {"down", "load", "prompt", "map", "copy", "release"}
          /\ stage'[c] \in {"map", "copy", "release"} => lines'[c] = lines[c]
          /\ stage'[c] \in {"map", "copy", "release"} <=> stage[c] \in {"map", "copy", "release"}
          /\ stage'[c] \in {"copy", "release"} <=> stage[c] \in {"copy", "release"}
          /\ command'[c] \in Commands \cup {Null} /\ lines'[c] \in 0..Len(Config)
          /\ command'[c] # Null <=> stage[c] \in {"map", "copy", "release"}
      BY <2>1, <3>1, <3>2 DEF Local
    <3>4. /\ location'[c] \in BlockLocation \cup {Null} /\ access'[c] \in MappedRange \cup {Null}
          /\ gpu'[c] \in SUBSET {"registration", "buffer"}
          /\ access'[c] # Null <=> stage'[c] \in {"map", "copy", "release"}
          /\ location'[c] # Null <=> access'[c] # Null
          /\ stage'[c] \notin {"copy", "release"} => gpu'[c] = {}
      BY <2>1, <2>2, <3>3 DEF Local
    <3>5. access'[c] # Null =>
             /\ access'[c].line <= lines'[c]
             /\ Config[access'[c].line].host_id = location'[c].host_id
             /\ access'[c].offset = location'[c].block_id * BlockSizeOf[c]
             /\ access'[c].offset + access'[c].count <= Config[access'[c].line].size
      BY <2>1, <2>2, <3>3, <3>4 DEF Local
    <3>6. Local(c)'
      BY <3>1, <3>3, <3>4, <3>5 DEF Local
    <3> QED BY <2>3, <3>1, <3>6
  <2>4. CASE c \notin lost
    <3>1. conn'[c] = conn[c] /\ stage'[c] = stage[c] /\ command'[c] = command[c] /\ lines'[c] = lines[c]
      BY <2>4 DEF Disconnected
    <3> QED BY <2>1, <2>2, <2>4, <3>1 DEF Local
  <2> QED BY <2>3, <2>4
<1>4. ASSUME NEW c \in Clients PROVE Conversation(c)'
  <2>1. CASE c \in lost
    <3>1. conn'[c] \notin Connections
      BY <1>3, <2>1, ClientAssumption
    <3> QED BY <3>1 DEF Conversation
  <2>2. CASE c \notin lost
    <3>1. \A k \in Connections : \A d \in Clients : conn'[d] = k => conn[d] = k
      BY <1>3, ClientAssumption
    <3>2. conn'[c] = conn[c] /\ stage'[c] = stage[c] /\ command'[c] = command[c]
      BY <1>3, <2>2
    <3>3. waiting' = waiting /\ answer' = answer
      BY <2>2
    <3>4. Conversation(c)
      BY OfClient
    <3> QED BY <3>1, <3>2, <3>3, <3>4 DEF Conversation
  <2> QED BY <2>1, <2>2
<1>5. Conversations' /\ \A c \in Clients : Local(c)'
  BY <1>3, <1>4 DEF Conversations
<1> QED BY <1>2, <1>5, InvariantOfClients

(* The keys of an unanswered free are spelled in its command.               *)
LEMMA UnansweredTyped ==
    ASSUME CInv, NEW c \in Clients PROVE Unanswered(c) \subseteq RawKeys
<1>1. CASE stage[c] = "call" /\ command[c].name = "free"
  <2>1. command[c] \in Commands
    BY <1>1, OfClient DEF Local
  <2>2. command[c].keys \in Seq(RawKeys)
    BY <1>1, <2>1, ClientAssumption DEF Command
  <2> QED BY <1>1, <2>2, KeyAssumption DEF Unanswered, CanonicalKey
<1> QED BY <1>1 DEF Unanswered

(* A client loses its connection.                                          *)
LEMMA LoseStep ==
    ASSUME CInv, NEW c \in Clients, Lose(c) PROVE CInv'
<1>1. Shapes /\ MasterTyped
  BY InvariantByClient
<1>2. Disconnected({c}) /\ UNCHANGED masterVars
      /\ doubt' = [doubt EXCEPT ![c] = doubt[c] \cup Unanswered(c)]
  BY DEF Lose
<1>3. MasterTyped' /\ waiting' = waiting /\ answer' = answer
  BY <1>1, <1>2, MasterUnchanged
<1>4. doubt' \in [Clients -> SUBSET RawKeys]
  BY <1>1, <1>2, UnansweredTyped DEF Shapes
<1>5. waiting' \in [Connections -> Request \cup {NoRequest}]
  BY <1>1, <1>3 DEF Shapes
<1> QED BY <1>2, <1>3, <1>4, <1>5, DisconnectedStep

(* The Master is restarted.                                                *)
LEMMA RestartStep ==
    ASSUME CInv, MasterRestart PROVE CInv'
<1>1. /\ registrations' = << >> /\ queue' = << >> /\ directory' = << >>
      /\ waiting' = [k \in Connections |-> NoRequest]
      /\ answer' = [k \in Connections |-> NoReply]
      /\ Disconnected(Clients) /\ doubt' = [c \in Clients |-> {}]
  BY DEF MasterRestart
<1>2. MasterTyped'
  BY <1>1 DEF MasterTyped
<1> QED BY <1>1, <1>2, DisconnectedStep

(* Something happens to the messages of one connection: what is there       *)
(* afterwards must again belong to the command, if the connection has one.  *)
LEMMA ConnectionStep ==
    ASSUME CInv, UNCHANGED <<processVars, historyVars>>, MasterTyped', NEW k \in Connections,
           waiting' \in [Connections -> Request \cup {NoRequest}],
           \A j \in Connections : j # k => waiting'[j] = waiting[j] /\ answer'[j] = answer[j],
           \A c \in Clients : conn[c] = k => Conversation(c)'
    PROVE  CInv'
<1>1. /\ stage' = stage /\ conn' = conn /\ command' = command /\ lines' = lines
      /\ location' = location /\ access' = access /\ gpu' = gpu /\ doubt' = doubt
  BY DEF processVars, historyVars
<1>2. Shapes' /\ \A c \in Clients : Local(c)'
  BY <1>1, InvariantByClient DEF Shapes, Local
<1>3. ASSUME NEW c \in Clients, conn[c] # k PROVE Conversation(c)'
  BY <1>1, <1>3, OfClient DEF Conversation
<1>4. Conversations'
  BY <1>3 DEF Conversations
<1> QED BY <1>2, <1>4, InvariantOfClients

(* A request takes effect.                                                 *)
LEMMA ServeStep ==
    ASSUME CInv, NEW k \in Connections, Serve(k) PROVE CInv'
<1>1. MasterTyped /\ waiting \in [Connections -> Request \cup {NoRequest}]
  BY InvariantByClient DEF Shapes
<1>2. Master!TakeEffect(k) /\ UNCHANGED <<processVars, historyVars>> /\ waiting[k] # NoRequest
  BY DEF Serve, Master!TakeEffect
<1>3. /\ MasterTyped'
      /\ waiting' = [waiting EXCEPT ![k] = NoRequest]
      /\ \A j \in Connections : j # k => answer'[j] = answer[j]
      /\ Answers(answer'[k], waiting[k])
  BY <1>1, <1>2, ServeTyped
<1>4. /\ waiting' \in [Connections -> Request \cup {NoRequest}]
      /\ waiting'[k] = NoRequest
      /\ \A j \in Connections : j # k => waiting'[j] = waiting[j]
  BY <1>1, <1>3
<1>5. ASSUME NEW c \in Clients, conn[c] = k PROVE Conversation(c)'
  <2>1. stage' = stage /\ conn' = conn /\ command' = command
    BY <1>2 DEF processVars
  <2>2. Conversation(c)
    BY OfClient
  <2>3. stage[c] \in {"join", "call"}
    BY <1>2, <1>5, <2>2 DEF Conversation
  <2>4. stage[c] = "call" => waiting[k] = RequestOf(c, command[c])
    BY <1>2, <1>5, <2>2 DEF Conversation
  <2> QED BY <1>3, <1>4, <1>5, <2>1, <2>2, <2>3, <2>4 DEF Conversation
<1> QED BY <1>2, <1>3, <1>4, <1>5, ConnectionStep

(* What is left on a connection of nobody is dropped.                       *)
LEMMA DropStep ==
    ASSUME CInv, NEW k \in Connections, Drop(k) PROVE CInv'
<1>1. MasterTyped /\ waiting \in [Connections -> Request \cup {NoRequest}]
  BY InvariantByClient DEF Shapes
<1>2. (\A c \in Clients : conn[c] # k) /\ UNCHANGED <<processVars, historyVars>>
  BY DEF Drop
<1>3. CASE /\ waiting' = [waiting EXCEPT ![k] = NoRequest]
           /\ UNCHANGED <<registrations, queue, directory, answer>>
  <2>1. MasterTyped'
    BY <1>1, <1>3 DEF MasterTyped
  <2> QED BY <1>1, <1>2, <1>3, <2>1, ConnectionStep
<1>4. CASE Master!Return(k)
  BY <1>1, <1>2, <1>4, ReturnTyped, ConnectionStep
<1> QED BY <1>3, <1>4 DEF Drop

-----------------------------------------------------------------------------
(* Before anything is started the invariant holds.                          *)
LEMMA InitInvariant == Init => CInv
<1> SUFFICES ASSUME Init PROVE CInv
  OBVIOUS
<1>1. Shapes /\ MasterTyped
  BY DEF Init, Master!Init, Shapes, MasterTyped
<1>2. 0 \in 0..Len(Config)
  BY ClientAssumption
<1>3. \A c \in Clients : Local(c)
  BY <1>2 DEF Init, Local
<1>4. Conversations
  BY ClientAssumption DEF Init, Conversations, Conversation
<1> QED BY <1>1, <1>3, <1>4, InvariantByClient

(* Every step preserves it.                                                *)
LEMMA StepInvariant == CInv /\ [Next]_vars => CInv'
<1> SUFFICES ASSUME CInv, [Next]_vars PROVE CInv'
  OBVIOUS
<1>1. ASSUME NEW c \in Clients, Startup(c) PROVE CInv'
  BY <1>1, ConnectStep, LoadLineStep, RegisterConfiguredHostStep, JoinedStep, EndStep DEF Startup
<1>2. ASSUME NEW c \in Clients, RunInteractive(c) PROVE CInv'
  BY <1>2, EnterStep, AnsweredStep, EndStep, ResolvedStep, GpuStep DEF RunInteractive
<1>3. ASSUME NEW c \in Clients, Kill(c) \/ Lose(c) PROVE CInv'
  BY <1>3, EndStep, LoseStep
<1>4. ASSUME NEW k \in Connections, Serve(k) \/ Drop(k) PROVE CInv'
  BY <1>4, ServeStep, DropStep
<1>5. CASE UNCHANGED vars
  <2>1. UNCHANGED masterVars /\ UNCHANGED <<processVars, historyVars>>
    BY <1>5 DEF vars
  <2>2. /\ stage' = stage /\ conn' = conn /\ command' = command /\ lines' = lines
        /\ location' = location /\ access' = access /\ gpu' = gpu /\ doubt' = doubt
    BY <2>1 DEF processVars, historyVars
  <2>3. Shapes /\ MasterTyped /\ Conversations /\ \A c \in Clients : Local(c)
    BY InvariantByClient
  <2>4. MasterTyped' /\ waiting' = waiting /\ answer' = answer
    BY <2>1, <2>3, MasterUnchanged
  <2>5. Shapes' /\ (\A c \in Clients : Local(c)') /\ Conversations'
    BY <2>2, <2>3, <2>4 DEF Shapes, Local, Conversations, Conversation
  <2> QED BY <2>4, <2>5, InvariantOfClients
<1> QED BY <1>1, <1>2, <1>3, <1>4, <1>5, RestartStep DEF Next

(* The inductive invariant of the clients and the Master together.  *)
THEOREM ClientInvariance == Spec => []CInv
BY InitInvariant, StepInvariant, PTL DEF Spec

(* Whatever a client sends is a request of the protocol, and it has a       *)
(* command and an address exactly while it uses them.                      *)
THEOREM ClientTypeCorrect == Spec => []TypeOK
<1>1. CInv => TypeOK
  BY DEF CInv
<1> QED BY <1>1, ClientInvariance, PTL

(* GpuAccessor's FillBlock and ReadBlock release on every path what they    *)
(* have registered and allocated.                                          *)
THEOREM GpuSafe == Spec => []GpuReleased
<1>1. CInv => GpuReleased
  BY DEF CInv
<1> QED BY <1>1, ClientInvariance, PTL

(* WritableBlockAddress: whatever sizes users give, and whatever block size *)
(* and host id the Master names, no copy leaves the mapping.                *)
THEOREM AccessSafe == Spec => []AccessInsideMapping
<1>1. CInv => AccessInsideMapping
  BY DEF CInv
<1> QED BY <1>1, ClientInvariance, PTL

(* The blocks that users hold.  *)

Sole(c) == \A d \in Clients \ {c} : HostIdOf[d] # HostIdOf[c]

SpelledKeys(keys) == {CanonicalKey(keys[i]) : i \in DOMAIN keys}

(* The key names that block, in the index.                                 *)
Names(key, block) ==
    key \in DOMAIN directory /\ directory[key] = block

HeldNamed(c) ==
    \A key \in DOMAIN holds[c] \ doubt[c] :
       Names(key, holds[c][key]) /\ holds[c][key].host_id = HostIdOf[c]

(* A free under way for the client's host is his command, and then names   *)
(* none of the blocks he holds, or names only keys in doubt.               *)
FreesOwn(c) ==
    \A k \in Connections :
       waiting[k] # NoRequest /\ waiting[k].op = "FreeBlocks" /\ waiting[k].host_id = HostIdOf[c] =>
          \/ SpelledKeys(waiting[k].keys) \subseteq doubt[c]
          \/ /\ conn[c] = k /\ stage[c] = "call"
             /\ SpelledKeys(waiting[k].keys) \cap DOMAIN holds[c] = {}

(* What an allocation has granted is in the index when the reply arrives.   *)
Grants(c, allocations) ==
    \A i \in DOMAIN allocations :
       /\ allocations[i].host_id = HostIdOf[c]
       /\ allocations[i].key \notin doubt[c] =>
             Names(allocations[i].key, [host_id |-> allocations[i].host_id,
                                        block_id |-> allocations[i].block_id])

GrantNamed(c) ==
    stage[c] = "call" /\ command[c].name = "alloc" =>
       \A k \in Connections : conn[c] = k /\ answer[k] # NoReply /\ answer[k].code = "kOk" =>
          Grants(c, answer[k].allocations)

Own(c) == HeldNamed(c) /\ FreesOwn(c) /\ GrantNamed(c)

HInv ==
    /\ holds = [c \in Clients |-> holds[c]]
    /\ \A c \in Clients : Sole(c) => Own(c)

(* What a step may do to the index: a block that a key names stays that    *)
(* key's, unless a free of its host names the key.                         *)
LEMMA IndexKept ==
    ASSUME NEW k \in Connections, Master!TakeEffect(k), NEW key \in DOMAIN directory
    PROVE  \/ key \in DOMAIN directory' /\ directory'[key] = directory[key]
           \/ /\ waiting[k].op = "FreeBlocks"
              /\ key \in SpelledKeys(waiting[k].keys)
              /\ directory[key].host_id = waiting[k].host_id
<1> DEFINE r == waiting[k]
<1>1. CASE directory' = directory
  BY <1>1
<1>2. CASE Master!AllocBlocks(k, r.host_id, Master!Canonical(r.keys))
  BY <1>2 DEF Master!AllocBlocks, Master!Refuse
<1>3. CASE r.op = "FreeBlocks" /\ Master!FreeBlocks(k, r.host_id, Master!Canonical(r.keys))
  <2> DEFINE keys == Master!Canonical(r.keys)
             missing == {i \in DOMAIN keys : keys[i] \notin DOMAIN directory}
             foreign == {i \in DOMAIN keys \ missing : directory[keys[i]].host_id # r.host_id}
  <2>1. CASE /\ missing = {} /\ foreign = {}
             /\ directory' = [x \in DOMAIN directory \ {keys[i] : i \in DOMAIN keys} |-> directory[x]]
    <3>1. CASE key \in {keys[i] : i \in DOMAIN keys}
      <4>1. PICK i \in DOMAIN keys : keys[i] = key
        BY <3>1
      <4>2. directory[key].host_id = r.host_id
        BY <2>1, <4>1
      <4>3. i \in DOMAIN r.keys /\ key = CanonicalKey(r.keys[i])
        BY <4>1 DEF Master!Canonical, Master!CanonicalKey, CanonicalKey
      <4> QED BY <1>3, <4>2, <4>3 DEF SpelledKeys
    <3>2. CASE key \notin {keys[i] : i \in DOMAIN keys}
      BY <2>1, <3>2
    <3> QED BY <3>1, <3>2
  <2>2. CASE directory' = directory
    BY <2>2
  <2> QED BY <1>3, <2>1, <2>2 DEF Master!FreeBlocks, Master!Refuse
<1>4. \/ directory' = directory
      \/ Master!AllocBlocks(k, r.host_id, Master!Canonical(r.keys))
      \/ r.op = "FreeBlocks" /\ Master!FreeBlocks(k, r.host_id, Master!Canonical(r.keys))
  BY DEF Master!TakeEffect, Master!Refuse, Master!RegisterMemory, Master!Read
<1> QED BY <1>1, <1>2, <1>3, <1>4

(* An allocation that is granted is in the index, with just the blocks that *)
(* the reply names.                                                        *)
LEMMA IndexGranted ==
    ASSUME MasterTyped, waiting \in [Connections -> Request \cup {NoRequest}],
           NEW k \in Connections, Master!TakeEffect(k),
           waiting[k].op = "AllocBlocks", answer'[k].code = "kOk"
    PROVE  LET given == answer'[k].allocations IN
           \A i \in DOMAIN given :
              /\ given[i].host_id = waiting[k].host_id
              /\ given[i].key \in DOMAIN directory'
              /\ directory'[given[i].key] =
                    [host_id |-> given[i].host_id, block_id |-> given[i].block_id]
<1> DEFINE r == waiting[k]
           keys == Master!Canonical(r.keys)
           host == r.host_id
           n == Len(keys)
           allocations == [i \in 1..n |->
              [key |-> keys[i], host_id |-> host, block_id |-> queue[host][i]]]
           IndexOf(key) == CHOOSE i \in 1..n : keys[i] = key
<1>1. ASSUME NEW reply, Master!Answer(k, reply) PROVE answer'[k] = reply
  BY <1>1 DEF MasterTyped, Master!Answer
<1>2. ASSUME NEW code, Master!Refuse(k, code) PROVE code = "kOk"
  BY <1>1, <1>2 DEF Master!Refuse, Master!Refusal
<1>3. Master!RefusalsOf(r) = {} /\ Master!AllocBlocks(k, host, keys)
  <2>1. \A code \in Master!RefusalsOf(r) : ~Master!Refuse(k, code)
    BY <1>2, RefusalCodes
  <2>2. ~Master!Read(k, r)
    BY DEF Master!Read, Master!WriteOps, Master!BatchOps
  <2> QED BY <2>1, <2>2 DEF Master!TakeEffect
<1>4. r \in Request
  BY DEF Master!TakeEffect
<1>5. r.keys \in Seq(RawKeys)
  BY <1>4 DEF Request, BatchOps, CountOps
<1>6. PICK l \in Nat : DOMAIN r.keys = 1..l
  BY <1>5
<1>7. keys = [i \in 1..l |-> CanonicalKey(r.keys[i])]
  BY <1>6 DEF Master!Canonical, Master!CanonicalKey, CanonicalKey
<1>8. \A i, j \in 1..l : keys[i] = keys[j] => i = j
  <2>1. r.op \in BatchOps
    BY DEF BatchOps
  <2> QED BY <1>3, <1>6, <1>7, <2>1, KeysAccepted
<1> HIDE DEF keys
<1>9. n = l /\ DOMAIN keys = 1..l
  BY <1>7
<1>10. /\ host \in DOMAIN queue
       /\ \A i \in 1..n : keys[i] \notin DOMAIN directory
       /\ directory' = [key \in DOMAIN directory \cup {keys[i] : i \in 1..n} |->
             IF key \in DOMAIN directory THEN directory[key]
             ELSE [host_id |-> host, block_id |-> queue[host][IndexOf(key)]]]
       /\ Master!Answer(k, Master!Allocated(allocations))
  BY <1>2, <1>3 DEF Master!AllocBlocks
<1>11. answer'[k].allocations = allocations
  BY <1>1, <1>10, SMTT(30) DEF Master!Allocated
<1>12. ASSUME NEW i \in 1..n
       PROVE  /\ keys[i] \in DOMAIN directory'
              /\ directory'[keys[i]] = [host_id |-> host, block_id |-> queue[host][i]]
  <2>1. keys[i] \notin DOMAIN directory
    BY <1>10
  <2>2. IndexOf(keys[i]) = i
    BY <1>8, <1>9
  <2> QED BY <1>10, <2>1, <2>2
<1>13. DOMAIN allocations = 1..n
  OBVIOUS
<1>14. \A i \in 1..n : /\ allocations[i].key = keys[i] /\ allocations[i].host_id = host
                       /\ allocations[i].block_id = queue[host][i]
  OBVIOUS
<1> HIDE DEF allocations, n
<1> QED BY <1>11, <1>12, <1>13, <1>14

(* A free of the client's host, under way on a connection.                  *)
FreeOf(c, r) == r # NoRequest /\ r.op = "FreeBlocks" /\ r.host_id = HostIdOf[c]

(* No new free of the client's host is under way, and what is the command   *)
(* of the client stays so, or its keys come in doubt.                      *)
FreesKept(c) ==
    \A k \in Connections :
       /\ FreeOf(c, waiting[k])' => waiting'[k] = waiting[k]
       /\ FreeOf(c, waiting[k]) /\ conn[c] = k /\ stage[c] = "call" =>
             \/ SpelledKeys(waiting[k].keys) \subseteq doubt'[c]
             \/ conn'[c] = k /\ stage'[c] = "call"

(* No new reply is there for the client.                                   *)
GrantsKept(c) ==
    stage'[c] = "call" =>
       /\ stage[c] = "call" /\ command'[c] = command[c] /\ conn'[c] = conn[c]
       /\ \A k \in Connections : conn[c] = k /\ answer'[k] # NoReply => answer'[k] = answer[k]

(* A step that leaves index and blocks held alone.                         *)
LEMMA OwnKept ==
    ASSUME NEW c \in Clients, Own(c), directory' = directory, holds'[c] = holds[c],
           doubt[c] \subseteq doubt'[c], FreesKept(c), GrantsKept(c)
    PROVE  Own(c)'
<1>1. HeldNamed(c)'
  BY DEF Own, HeldNamed, Names
<1>2. FreesOwn(c)'
  <2> SUFFICES ASSUME NEW k \in Connections, waiting'[k] # NoRequest,
                      waiting'[k].op = "FreeBlocks", waiting'[k].host_id = HostIdOf[c]
               PROVE  \/ SpelledKeys(waiting'[k].keys) \subseteq doubt'[c]
                      \/ /\ conn'[c] = k /\ stage'[c] = "call"
                         /\ SpelledKeys(waiting'[k].keys) \cap DOMAIN holds'[c] = {}
    BY DEF FreesOwn, SpelledKeys
  <2>1. waiting'[k] = waiting[k] /\ FreeOf(c, waiting[k])
    BY DEF FreesKept, FreeOf
  <2>2. \/ SpelledKeys(waiting[k].keys) \subseteq doubt[c]
        \/ /\ conn[c] = k /\ stage[c] = "call"
           /\ SpelledKeys(waiting[k].keys) \cap DOMAIN holds[c] = {}
    BY <2>1 DEF Own, FreesOwn, FreeOf
  <2> QED BY <2>1, <2>2 DEF FreesKept
<1>3. GrantNamed(c)'
  <2> SUFFICES ASSUME stage'[c] = "call", command'[c].name = "alloc", NEW k \in Connections,
                      conn'[c] = k, answer'[k] # NoReply, answer'[k].code = "kOk",
                      NEW i \in DOMAIN answer'[k].allocations
               PROVE  LET a == answer'[k].allocations[i] IN
                      /\ a.host_id = HostIdOf[c]
                      /\ a.key \notin doubt'[c] =>
                            /\ a.key \in DOMAIN directory'
                            /\ directory'[a.key] = [host_id |-> a.host_id, block_id |-> a.block_id]
    BY DEF GrantNamed, Grants, Names
  <2>1. /\ stage[c] = "call" /\ command[c].name = "alloc" /\ conn[c] = k
        /\ answer'[k] = answer[k]
    BY DEF GrantsKept
  <2>2. Grants(c, answer[k].allocations)
    BY <2>1 DEF Own, GrantNamed
  <2> QED BY <2>1, <2>2 DEF Grants, Names
<1> QED BY <1>1, <1>2, <1>3 DEF Own

(* What the invariants say of a client whose host is its own.               *)
LEMMA SoleOwn ==
    ASSUME HInv, NEW c \in Clients, Sole(c)
    PROVE  Own(c)
BY DEF HInv

(* A step of one client is none of another's.                              *)
LEMMA OtherOwn ==
    ASSUME CInv, HInv, NEW c \in Clients, NEW d \in Clients \ {c}, Sole(d),
           OthersKeep(c), directory' = directory, holds'[d] = holds[d], doubt'[d] = doubt[d],
           \A k \in Connections : FreeOf(d, waiting[k])' => waiting'[k] = waiting[k],
           \A k \in Connections : k # conn[c] => answer'[k] = answer[k]
    PROVE  Own(d)'
<1>1. conn'[d] = conn[d] /\ stage'[d] = stage[d] /\ command'[d] = command[d]
  BY DEF OthersKeep
<1>2. \A k \in Connections : conn[d] = k => k # conn[c]
  BY OfClient
<1>3. FreesKept(d) /\ GrantsKept(d)
  BY <1>1, <1>2 DEF FreesKept, GrantsKept
<1> QED BY <1>3, SoleOwn, OwnKept

(* The invariant of all clients from that of one and of the others.         *)
LEMMA OwnByClient ==
    ASSUME HInv, NEW c \in Clients, holds' = [d \in Clients |-> holds'[d]],
           Sole(c) => Own(c)', \A d \in Clients \ {c} : Sole(d) => Own(d)'
    PROVE  HInv'
BY DEF HInv, Sole

(* A step of a client that asks for nothing and tells its user nothing.     *)
LEMMA SilentStep ==
    ASSUME CInv, HInv, NEW c \in Clients, OthersKeep(c), directory' = directory,
           holds' = holds, \A d \in Clients \ {c} : doubt'[d] = doubt[d],
           doubt[c] \subseteq doubt'[c],
           \A k \in Connections : FreeOf(c, waiting[k])' => waiting'[k] = waiting[k],
           \A d \in Clients \ {c} : \A k \in Connections :
              FreeOf(d, waiting[k])' => waiting'[k] = waiting[k],
           \A k \in Connections : k # conn[c] => answer'[k] = answer[k],
           stage'[c] # "call",
           stage[c] = "call" => \A k \in Connections :
              conn[c] = k /\ FreeOf(c, waiting[k]) => SpelledKeys(waiting[k].keys) \subseteq doubt'[c]
    PROVE  HInv'
<1>1. Sole(c) => Own(c)'
  <2>1. FreesKept(c) /\ GrantsKept(c)
    BY DEF FreesKept, GrantsKept
  <2> QED BY <2>1, SoleOwn, OwnKept
<1>2. \A d \in Clients \ {c} : Sole(d) => Own(d)'
  BY OtherOwn
<1> QED BY <1>1, <1>2, OwnByClient DEF HInv

(* Steps in which no message is sent or received.                          *)
LEMMA OwnQuietSteps ==
    ASSUME CInv, HInv, NEW c \in Clients,
           \/ Connect(c) \/ LoadLine(c) \/ StartFails(c) \/ Quit(c)
           \/ HostRegister(c) \/ Copy(c) \/ Release(c)
    PROVE  HInv'
<1>1. Shapes
  BY OfClient
<1>2. UNCHANGED masterVars /\ UNCHANGED historyVars /\ stage[c] # "call"
  BY DEF Connect, LoadLine, StartFails, Quit, HostRegister, Copy, Release
<1>3. waiting' = waiting /\ answer' = answer /\ directory' = directory /\ holds' = holds /\ doubt' = doubt
  BY <1>2 DEF masterVars, historyVars
<1>4. OthersKeep(c) /\ stage'[c] # "call"
  BY <1>1 DEF Connect, LoadLine, StartFails, Quit, HostRegister, Copy, Release,
              Finished, Prompt, Gone, Goto, Shapes, OthersKeep
<1> QED BY <1>2, <1>3, <1>4, SilentStep

(* The host is registered, and the Master's answer to that.                 *)
LEMMA OwnJoinSteps ==
    ASSUME CInv, HInv, NEW c \in Clients, RegisterConfiguredHost(c) \/ Joined(c)
    PROVE  HInv'
<1>1. Shapes /\ MasterTyped
  BY OfClient
<1>2. CASE RegisterConfiguredHost(c)
  <2>1. PICK i \in FindConfig(HostIdOf[c]) :
           Send(c, [op |-> "RegisterMemory", registration |-> RegistrationOf(c, Config[i])])
    BY <1>2 DEF RegisterConfiguredHost
  <2> DEFINE r == [op |-> "RegisterMemory", registration |-> RegistrationOf(c, Config[i])]
  <2>2. \A d \in Clients : ~FreeOf(d, r)
    BY DEF FreeOf
  <2> HIDE DEF r
  <2>3. waiting' = [waiting EXCEPT ![conn[c]] = r] /\ answer' = answer /\ directory' = directory
    BY <2>1 DEF Send, r
  <2>4. \A k \in Connections : waiting'[k] = waiting[k] \/ waiting'[k] = r
    BY <1>1, <2>3 DEF Shapes
  <2>5. \A d \in Clients : \A k \in Connections : FreeOf(d, waiting[k])' => waiting'[k] = waiting[k]
    BY <2>2, <2>4 DEF FreeOf
  <2>6. /\ OthersKeep(c) /\ stage[c] = "load" /\ stage'[c] = "join"
        /\ holds' = holds /\ doubt' = doubt
    BY <1>1, <1>2 DEF RegisterConfiguredHost, Goto, Shapes, OthersKeep, historyVars
  <2> QED BY <2>3, <2>5, <2>6, SilentStep
<1>3. CASE Joined(c)
  <2>1. /\ stage[c] = "join" /\ Received(c) /\ UNCHANGED historyVars
        /\ \/ Goto(c, "prompt") /\ UNCHANGED <<conn, command, lines, location, access, gpu>>
           \/ Gone(c)
    BY <1>3 DEF Joined
  <2>2. /\ waiting' = waiting /\ directory' = directory
        /\ \A k \in Connections : k # conn[c] => answer'[k] = answer[k]
    BY <1>1, <2>1 DEF Received, Master!Return, MasterTyped
  <2>3. OthersKeep(c) /\ stage'[c] # "call" /\ holds' = holds /\ doubt' = doubt
    BY <1>1, <2>1 DEF Gone, Goto, Shapes, OthersKeep, historyVars
  <2> QED BY <2>1, <2>2, <2>3, SilentStep
<1> QED BY <1>2, <1>3

(* A command waits on the connection for itself: when the reply is there,   *)
(* no request is.                                                          *)
LEMMA ReceivedNothingWaits ==
    ASSUME CInv, NEW c \in Clients, Received(c)
    PROVE  /\ \A k \in Connections : conn[c] = k => waiting[k] = NoRequest
           /\ waiting' = waiting /\ directory' = directory
           /\ \A k \in Connections : k # conn[c] => answer'[k] = answer[k]
<1>1. MasterTyped /\ Conversation(c)
  BY OfClient
<1>2. \A k \in Connections : conn[c] = k => answer[k] # NoReply
  BY DEF Received, Master!Return
<1> QED BY <1>1, <1>2 DEF Conversation, Received, Master!Return, MasterTyped

(* A reply that tells the user of no block.                                 *)
LEMMA OwnReplySteps ==
    ASSUME CInv, HInv, NEW c \in Clients, Resolved(c) \/ Answered(c), holds' = holds
    PROVE  HInv'
<1>1. Shapes /\ Received(c)
  BY OfClient DEF Resolved, Answered
<1>2. OthersKeep(c) /\ stage'[c] # "call" /\ doubt' = doubt
  <2>1. CASE Answered(c)
    BY <1>1, <2>1 DEF Answered, Prompt, Goto, Shapes, OthersKeep
  <2>2. CASE Resolved(c)
    <3>1. /\ UNCHANGED <<conn, lines, gpu, historyVars>>
          /\ \/ /\ \E a : access' = [access EXCEPT ![c] = a]
                /\ \E b : location' = [location EXCEPT ![c] = b]
                /\ Goto(c, "map") /\ UNCHANGED command
             \/ Prompt(c) /\ UNCHANGED <<location, access>>
      BY <2>2 DEF Resolved
    <3> QED BY <1>1, <3>1 DEF Prompt, Goto, Shapes, OthersKeep, historyVars
  <2> QED BY <2>1, <2>2
<1>3. /\ \A k \in Connections : conn[c] = k => waiting[k] = NoRequest
      /\ waiting' = waiting /\ directory' = directory
      /\ \A k \in Connections : k # conn[c] => answer'[k] = answer[k]
  BY <1>1, ReceivedNothingWaits
<1>4. \A k \in Connections : conn[c] = k => ~FreeOf(c, waiting[k])
  BY <1>3 DEF FreeOf
<1> QED BY <1>2, <1>3, <1>4, SilentStep

(* A command that waits is cut off, by the end of the process or of its     *)
(* connection: the keys of a free are then in doubt.                       *)
LEMMA OwnFailureSteps ==
    ASSUME CInv, HInv, NEW c \in Clients, Kill(c) \/ Lose(c)
    PROVE  HInv'
<1>1. Shapes /\ Local(c) /\ Conversation(c)
  BY OfClient
<1>2. /\ UNCHANGED masterVars /\ holds' = holds
      /\ doubt' = [doubt EXCEPT ![c] = doubt[c] \cup Unanswered(c)]
  BY DEF Kill, Lose
<1>3. waiting' = waiting /\ answer' = answer /\ directory' = directory
  BY <1>2 DEF masterVars
<1>4. doubt'[c] = doubt[c] \cup Unanswered(c) /\ \A d \in Clients \ {c} : doubt'[d] = doubt[d]
  BY <1>1, <1>2 DEF Shapes
<1>5. OthersKeep(c) /\ stage'[c] # "call"
  <2>1. CASE Kill(c)
    BY <1>1, <2>1 DEF Kill, Gone, Goto, Shapes, OthersKeep
  <2>2. CASE Lose(c)
    BY <1>1, <2>2 DEF Lose, Disconnected, OthersKeep
  <2> QED BY <2>1, <2>2
<1>6. ASSUME stage[c] = "call", NEW k \in Connections, conn[c] = k, FreeOf(c, waiting[k])
      PROVE  SpelledKeys(waiting[k].keys) \subseteq doubt'[c]
  <2>1. waiting[k] = RequestOf(c, command[c])
    BY <1>1, <1>6 DEF Conversation, FreeOf
  <2>2. command[c] \in Commands
    BY <1>1, <1>6 DEF Local
  <2>3. command[c].name = "free" /\ waiting[k].keys = command[c].keys
    BY <1>6, <2>1, <2>2, RequestTyped DEF FreeOf
  <2> QED BY <1>4, <1>6, <2>3 DEF Unanswered, SpelledKeys
<1> QED BY <1>2, <1>3, <1>4, <1>5, <1>6, SilentStep

(* A command is entered: from then on its user does not hold what it frees. *)
LEMMA OwnEnterStep ==
    ASSUME CInv, HInv, NEW c \in Clients, Enter(c)
    PROVE  HInv'
<1>1. Shapes /\ Local(c) /\ Conversation(c)
  BY OfClient
<1>2. PICK cmd \in Commands :
         /\ Send(c, RequestOf(c, cmd))
         /\ command' = [command EXCEPT ![c] = cmd]
         /\ holds' = IF cmd.name # "free" THEN holds
               ELSE [holds EXCEPT ![c] =
                       [key \in DOMAIN @ \ {CanonicalKey(cmd.keys[i]) : i \in DOMAIN cmd.keys}
                           |-> @[key]]]
  BY DEF Enter
<1>3. PICK k \in Connections : conn[c] = k
  BY <1>1, <1>2 DEF Local, Send
<1> DEFINE r == RequestOf(c, cmd)
<1>4. /\ r.op = "FreeBlocks" <=> cmd.name = "free"
      /\ cmd.name = "free" => r.host_id = HostIdOf[c] /\ r.keys = cmd.keys
  BY RequestTyped
<1> HIDE DEF r
<1>5. /\ stage[c] = "prompt" /\ conn' = conn /\ doubt' = doubt /\ answer' = answer
      /\ directory' = directory /\ waiting' = [waiting EXCEPT ![k] = r]
  BY <1>2, <1>3 DEF Enter, Send, r
<1>6. OthersKeep(c) /\ stage'[c] = "call"
  BY <1>1 DEF Enter, Goto, Shapes, OthersKeep
<1>7. waiting'[k] = r /\ \A j \in Connections : j # k => waiting'[j] = waiting[j]
  BY <1>1, <1>5 DEF Shapes
<1>8. answer[k] = NoReply
  BY <1>1, <1>3, <1>5 DEF Conversation
<1>9. /\ holds' = [d \in Clients |-> holds'[d]]
      /\ \A d \in Clients \ {c} : holds'[d] = holds[d]
      /\ DOMAIN holds'[c] \subseteq DOMAIN holds[c]
      /\ \A key \in DOMAIN holds'[c] : holds'[c][key] = holds[c][key]
      /\ cmd.name = "free" => SpelledKeys(cmd.keys) \cap DOMAIN holds'[c] = {}
  <2>1. holds = [d \in Clients |-> holds[d]]
    BY DEF HInv
  <2>2. CASE cmd.name # "free"
    BY <1>2, <2>1, <2>2
  <2>3. CASE cmd.name = "free"
    <3> DEFINE left == [key \in DOMAIN holds[c] \ SpelledKeys(cmd.keys) |-> holds[c][key]]
    <3>1. holds' = [holds EXCEPT ![c] = left]
      BY <1>2, <2>3 DEF SpelledKeys
    <3>2. holds'[c] = left /\ \A d \in Clients \ {c} : holds'[d] = holds[d]
      BY <2>1, <3>1
    <3>3. holds' = [d \in Clients |-> holds'[d]]
      BY <2>1, <3>1
    <3> QED BY <3>2, <3>3
  <2> QED BY <2>2, <2>3
<1>10. ASSUME Sole(c) PROVE Own(c)'
  <2>1. Own(c)
    BY <1>10, SoleOwn
  <2>2. HeldNamed(c)'
    BY <1>5, <1>9, <2>1 DEF Own, HeldNamed, Names
  <2>3. FreesOwn(c)'
    <3> SUFFICES ASSUME NEW j \in Connections, waiting'[j] # NoRequest,
                        waiting'[j].op = "FreeBlocks", waiting'[j].host_id = HostIdOf[c]
                 PROVE  \/ SpelledKeys(waiting'[j].keys) \subseteq doubt'[c]
                        \/ /\ conn'[c] = j /\ stage'[c] = "call"
                           /\ SpelledKeys(waiting'[j].keys) \cap DOMAIN holds'[c] = {}
      BY DEF FreesOwn, SpelledKeys
    <3>1. CASE j = k
      BY <1>3, <1>4, <1>5, <1>6, <1>7, <1>9, <3>1
    <3>2. CASE j # k
      BY <1>3, <1>5, <1>7, <2>1, <3>2 DEF Own, FreesOwn
    <3> QED BY <3>1, <3>2
  <2>4. GrantNamed(c)'
    BY <1>3, <1>5, <1>8 DEF GrantNamed
  <2> QED BY <2>2, <2>3, <2>4 DEF Own
<1>11. ASSUME NEW d \in Clients \ {c}, Sole(d) PROVE Own(d)'
  <2>1. HostIdOf[c] # HostIdOf[d]
    BY <1>11 DEF Sole
  <2>2. \A j \in Connections : FreeOf(d, waiting[j])' => waiting'[j] = waiting[j]
    BY <1>4, <1>7, <2>1 DEF FreeOf
  <2> QED BY <1>5, <1>6, <1>9, <1>11, <2>2, OtherOwn
<1> QED BY <1>9, <1>10, <1>11, OwnByClient

(* A user is told of an allocation.                                        *)
LEMMA OwnToldStep ==
    ASSUME CInv, HInv, NEW c \in Clients, Answered(c),
           command[c].name = "alloc", ReplyTo(c).code = "kOk"
    PROVE  HInv'
<1>1. Shapes /\ Local(c) /\ Received(c)
  BY OfClient DEF Answered
<1>2. PICK k \in Connections : conn[c] = k
  BY <1>1 DEF Local, Received
<1> DEFINE given == answer[k].allocations
<1>3. /\ stage[c] = "call" /\ Told(c, given) /\ conn' = conn /\ doubt' = doubt
      /\ answer[k].code = "kOk" /\ answer[k] # NoReply
  BY <1>1, <1>2 DEF Answered, ReplyTo, Received, Master!Return
<1>4. OthersKeep(c) /\ stage'[c] # "call"
  BY <1>1 DEF Answered, Prompt, Goto, Shapes, OthersKeep
<1>5. /\ \A j \in Connections : conn[c] = j => waiting[j] = NoRequest
      /\ waiting' = waiting /\ directory' = directory
      /\ \A j \in Connections : j # conn[c] => answer'[j] = answer[j]
  BY <1>1, ReceivedNothingWaits
<1> HIDE DEF given
<1>6. holds = [d \in Clients |-> holds[d]]
  BY DEF HInv
<1>7. /\ holds' = [d \in Clients |-> holds'[d]]
      /\ \A d \in Clients \ {c} : holds'[d] = holds[d]
      /\ DOMAIN holds'[c] = DOMAIN holds[c] \cup {given[i].key : i \in DOMAIN given}
      /\ \A key \in DOMAIN holds[c] : holds'[c][key] = holds[c][key]
      /\ \A key \in DOMAIN holds'[c] \ DOMAIN holds[c] :
            \E i \in DOMAIN given : given[i].key = key /\
               holds'[c][key] = [host_id |-> given[i].host_id, block_id |-> given[i].block_id]
  <2> DEFINE First(key) == CHOOSE i \in DOMAIN given : given[i].key = key
             told == [key \in DOMAIN holds[c] \cup {given[i].key : i \in DOMAIN given} |->
                        IF key \in DOMAIN holds[c] THEN holds[c][key]
                        ELSE [host_id |-> given[First(key)].host_id,
                              block_id |-> given[First(key)].block_id]]
  <2>1. holds' = [holds EXCEPT ![c] = told]
    BY <1>3 DEF Told
  <2>2. holds'[c] = told /\ \A d \in Clients \ {c} : holds'[d] = holds[d]
    BY <1>6, <2>1
  <2>3. holds' = [d \in Clients |-> holds'[d]]
    BY <1>6, <2>1
  <2>4. ASSUME NEW key \in DOMAIN told \ DOMAIN holds[c]
        PROVE  \E i \in DOMAIN given : given[i].key = key /\
                  told[key] = [host_id |-> given[i].host_id, block_id |-> given[i].block_id]
    <3>1. \E i \in DOMAIN given : given[i].key = key
      BY <2>4
    <3>2. First(key) \in DOMAIN given /\ given[First(key)].key = key
      BY <3>1
    <3>3. told[key] = [host_id |-> given[First(key)].host_id,
                       block_id |-> given[First(key)].block_id]
      BY <2>4
    <3> QED BY <3>2, <3>3
  <2>5. /\ DOMAIN told = DOMAIN holds[c] \cup {given[i].key : i \in DOMAIN given}
        /\ \A key \in DOMAIN holds[c] : told[key] = holds[c][key]
    OBVIOUS
  <2> HIDE DEF told
  <2> QED BY <2>2, <2>3, <2>4, <2>5
<1>8. ASSUME Sole(c) PROVE Own(c)'
  <2>1. Own(c)
    BY <1>8, SoleOwn
  <2>2. Grants(c, given)
    BY <1>2, <1>3, <2>1 DEF Own, GrantNamed, given
  <2>3. HeldNamed(c)'
    <3> SUFFICES ASSUME NEW key \in DOMAIN holds'[c] \ doubt'[c]
                 PROVE  /\ key \in DOMAIN directory /\ directory[key] = holds'[c][key]
                        /\ holds'[c][key].host_id = HostIdOf[c]
      BY <1>5 DEF HeldNamed, Names
    <3>1. CASE key \in DOMAIN holds[c]
      BY <1>3, <1>7, <2>1, <3>1 DEF Own, HeldNamed, Names
    <3>2. CASE key \notin DOMAIN holds[c]
      <4>1. PICK i \in DOMAIN given : given[i].key = key /\
               holds'[c][key] = [host_id |-> given[i].host_id, block_id |-> given[i].block_id]
        BY <1>7, <3>2
      <4> QED BY <1>3, <2>2, <4>1 DEF Grants, Names
    <3> QED BY <3>1, <3>2
  <2>4. FreesOwn(c)'
    <3>1. \A j \in Connections : FreeOf(c, waiting[j]) => conn[c] # j
      BY <1>5 DEF FreeOf
    <3> QED BY <1>3, <1>5, <2>1, <3>1 DEF Own, FreesOwn, FreeOf
  <2>5. GrantNamed(c)'
    BY <1>4 DEF GrantNamed
  <2> QED BY <2>3, <2>4, <2>5 DEF Own
<1>9. \A d \in Clients \ {c} : Sole(d) => Own(d)'
  BY <1>3, <1>4, <1>5, <1>7, OtherOwn
<1> QED BY <1>7, <1>8, <1>9, OwnByClient

(* A request takes effect: only a free of its host, naming its key, may     *)
(* take a block away, and such a free names no key that is held.            *)
LEMMA OwnServeStep ==
    ASSUME CInv, HInv, NEW k \in Connections, Serve(k)
    PROVE  HInv'
<1>1. MasterTyped /\ Shapes
  BY InvariantByClient
<1>2. /\ Master!TakeEffect(k) /\ waiting[k] # NoRequest
      /\ stage' = stage /\ conn' = conn /\ command' = command
      /\ holds' = holds /\ doubt' = doubt
  BY DEF Serve, Master!TakeEffect, processVars, historyVars
<1>3. /\ waiting' = [waiting EXCEPT ![k] = NoRequest]
      /\ \A j \in Connections : j # k => answer'[j] = answer[j]
  BY <1>1, <1>2, ServeTyped DEF Shapes
<1>4. waiting'[k] = NoRequest /\ \A j \in Connections : j # k => waiting'[j] = waiting[j]
  BY <1>1, <1>3 DEF Shapes
<1>5. ASSUME NEW c \in Clients, Sole(c) PROVE Own(c)'
  <2>1. Own(c) /\ Conversation(c) /\ Local(c)
    BY <1>5, SoleOwn, OfClient
  <2>2. ASSUME NEW key \in DOMAIN directory, directory[key].host_id = HostIdOf[c],
               key \notin doubt[c], conn[c] = k /\ stage[c] = "call" => key \in DOMAIN holds[c] \/ waiting[k].op # "FreeBlocks"
        PROVE  key \in DOMAIN directory' /\ directory'[key] = directory[key]
    <3>1. SUFFICES ASSUME waiting[k].op = "FreeBlocks", key \in SpelledKeys(waiting[k].keys),
                          waiting[k].host_id = HostIdOf[c]
                   PROVE  FALSE
      BY <1>2, <2>2, IndexKept
    <3>2. \/ SpelledKeys(waiting[k].keys) \subseteq doubt[c]
          \/ /\ conn[c] = k /\ stage[c] = "call"
             /\ SpelledKeys(waiting[k].keys) \cap DOMAIN holds[c] = {}
      BY <1>2, <2>1, <3>1 DEF Own, FreesOwn
    <3> QED BY <2>2, <3>1, <3>2
  <2>3. HeldNamed(c)'
    <3> SUFFICES ASSUME NEW key \in DOMAIN holds[c] \ doubt[c]
                 PROVE  /\ key \in DOMAIN directory' /\ directory'[key] = holds[c][key]
                        /\ holds[c][key].host_id = HostIdOf[c]
      BY <1>2 DEF HeldNamed, Names
    <3>1. /\ key \in DOMAIN directory /\ directory[key] = holds[c][key]
          /\ holds[c][key].host_id = HostIdOf[c]
      BY <2>1 DEF Own, HeldNamed, Names
    <3> QED BY <2>2, <3>1
  <2>4. FreesOwn(c)'
    BY <1>2, <1>4, <2>1 DEF Own, FreesOwn
  <2>5. GrantNamed(c)'
    <3> SUFFICES ASSUME stage[c] = "call", command[c].name = "alloc", NEW j \in Connections,
                        conn[c] = j, answer'[j] # NoReply, answer'[j].code = "kOk",
                        NEW i \in DOMAIN answer'[j].allocations
                 PROVE  LET a == answer'[j].allocations[i] IN
                        /\ a.host_id = HostIdOf[c]
                        /\ a.key \notin doubt[c] =>
                              /\ a.key \in DOMAIN directory'
                              /\ directory'[a.key] = [host_id |-> a.host_id, block_id |-> a.block_id]
      BY <1>2 DEF GrantNamed, Grants, Names
    <3>1. command[c] \in Commands
      BY <2>1 DEF Local
    <3>2. CASE j = k
      <4>1. waiting[k] = RequestOf(c, command[c])
        BY <1>2, <2>1, <3>2 DEF Conversation
      <4>2. waiting[k].op = "AllocBlocks" /\ waiting[k].host_id = HostIdOf[c]
        BY <3>1, <4>1, RequestTyped
      <4> QED BY <1>1, <1>2, <3>2, <4>2, IndexGranted, SMTT(30) DEF Shapes
    <3>3. CASE j # k
      <4> DEFINE a == answer[j].allocations[i]
      <4>1. answer'[j] = answer[j]
        BY <1>3, <3>3
      <4>2. Grants(c, answer[j].allocations)
        BY <2>1, <4>1 DEF Own, GrantNamed
      <4>3. /\ a.host_id = HostIdOf[c]
            /\ a.key \notin doubt[c] =>
                  /\ a.key \in DOMAIN directory
                  /\ directory[a.key] = [host_id |-> a.host_id, block_id |-> a.block_id]
        BY <4>1, <4>2 DEF Grants, Names
      <4>4. a.key \notin doubt[c] => directory[a.key].host_id = HostIdOf[c]
        BY <4>3
      <4> HIDE DEF a
      <4>5. a.key \notin doubt[c] =>
               a.key \in DOMAIN directory' /\ directory'[a.key] = directory[a.key]
        BY <2>2, <3>3, <4>3, <4>4
      <4>6. /\ a.host_id = HostIdOf[c]
            /\ a.key \notin doubt[c] =>
                  /\ a.key \in DOMAIN directory'
                  /\ directory'[a.key] = [host_id |-> a.host_id, block_id |-> a.block_id]
        BY <4>3, <4>5
      <4> QED BY <4>1, <4>6 DEF a
    <3> QED BY <3>2, <3>3
  <2> QED BY <2>3, <2>4, <2>5 DEF Own
<1> QED BY <1>2, <1>5 DEF HInv

(* What is left on a connection of nobody is dropped.                       *)
LEMMA OwnDropStep ==
    ASSUME CInv, HInv, NEW k \in Connections, Drop(k)
    PROVE  HInv'
<1>1. MasterTyped /\ Shapes
  BY InvariantByClient
<1>2. /\ \A c \in Clients : conn[c] # k
      /\ UNCHANGED <<processVars, historyVars>> /\ directory' = directory
      /\ \/ waiting' = [waiting EXCEPT ![k] = NoRequest] /\ answer' = answer
         \/ Master!Return(k)
  BY DEF Drop, Master!Return
<1>3. /\ stage' = stage /\ conn' = conn /\ command' = command
      /\ holds' = holds /\ doubt' = doubt
  BY <1>2 DEF processVars, historyVars
<1>4. /\ \A j \in Connections : waiting'[j] = waiting[j] \/ waiting'[j] = NoRequest
      /\ \A j \in Connections : j # k => answer'[j] = answer[j]
  BY <1>1, <1>2 DEF Shapes, MasterTyped, Master!Return
<1>5. ASSUME NEW c \in Clients, Sole(c) PROVE Own(c)'
  <2>1. \A j \in Connections : FreeOf(c, waiting[j])' => waiting'[j] = waiting[j]
    BY <1>4 DEF FreeOf
  <2>2. FreesKept(c) /\ GrantsKept(c)
    BY <1>2, <1>3, <1>4, <2>1 DEF FreesKept, GrantsKept
  <2> QED BY <1>2, <1>3, <1>5, <2>2, SoleOwn, OwnKept
<1> QED BY <1>3, <1>5 DEF HInv

(* After a restart of the Master nobody holds anything and nothing waits.   *)
LEMMA OwnRestartStep ==
    ASSUME CInv, MasterRestart
    PROVE  HInv'
<1>1. /\ holds' = [c \in Clients |-> << >>] /\ waiting' = [k \in Connections |-> NoRequest]
      /\ answer' = [k \in Connections |-> NoReply]
  BY DEF MasterRestart
<1>2. \A c \in Clients : HeldNamed(c)' /\ FreesOwn(c)' /\ GrantNamed(c)'
  BY <1>1 DEF HeldNamed, FreesOwn, GrantNamed
<1> QED BY <1>1, <1>2 DEF HInv, Own

(* The blocks that users hold, in every step.                              *)
LEMMA StepOwn == CInv /\ HInv /\ [Next]_vars => HInv'
<1> SUFFICES ASSUME CInv, HInv, [Next]_vars PROVE HInv'
  OBVIOUS
<1>1. ASSUME NEW c \in Clients, Startup(c) PROVE HInv'
  BY <1>1, OwnQuietSteps, OwnJoinSteps DEF Startup
<1>2. ASSUME NEW c \in Clients, Answered(c) PROVE HInv'
  BY <1>2, OwnToldStep, OwnReplySteps DEF Answered
<1>3. ASSUME NEW c \in Clients, Resolved(c) PROVE HInv'
  BY <1>3, OwnReplySteps DEF Resolved, historyVars
<1>4. ASSUME NEW c \in Clients, RunInteractive(c) PROVE HInv'
  BY <1>2, <1>3, <1>4, OwnEnterStep, OwnQuietSteps DEF RunInteractive
<1>5. ASSUME NEW c \in Clients, Kill(c) \/ Lose(c) PROVE HInv'
  BY <1>5, OwnFailureSteps
<1>6. ASSUME NEW k \in Connections, Serve(k) \/ Drop(k) PROVE HInv'
  BY <1>6, OwnServeStep, OwnDropStep
<1>7. CASE UNCHANGED vars
  BY <1>7 DEF vars, masterVars, processVars, historyVars, HInv, Own, HeldNamed,
              FreesOwn, GrantNamed, Grants, Names
<1> QED BY <1>1, <1>4, <1>5, <1>6, <1>7, OwnRestartStep DEF Next

(* What a user was told of his blocks stays true until he asks to free      *)
(* them, whatever the other clients do, which calls are lost and who is     *)
(* restarted, except for keys of frees whose answer was lost: AllocBlocks,  *)
(* FreeBlocks and main of the client, with the Master they call.            *)
THEOREM HeldSafe == Spec => []HeldBlocksExist
<1>1. Init => HInv
  BY DEF Init, Master!Init, HInv, Own, HeldNamed, FreesOwn, GrantNamed
<1>2. HInv => HeldBlocksExist
  BY DEF HInv, Sole, Own, HeldNamed, Names, HeldBlocksExist
<1> QED BY <1>1, <1>2, StepOwn, ClientInvariance, PTL DEF Spec

-----------------------------------------------------------------------------
(* Clients that agree.  What follows is about hosts that all of their       *)
(* clients register alike: nobody registers by hand, and the clients of one *)
(* host have one configuration, as Config is, and one --block-size.         *)
Agreed ==
    /\ \A cmd \in Commands : cmd.name # "register"
    /\ \A c \in Clients, d \in Clients :
          HostIdOf[c] = HostIdOf[d] => BlockSizeOf[c] = BlockSizeOf[d]

(* Users give no size larger than a block's.                               *)
SizesFit ==
    \A c \in Clients : \A cmd \in Commands :
       cmd.name \in {"write", "get"} => cmd.size <= BlockSizeOf[c]

(* No two of the first lines name one host.                                *)
DistinctLines(n) ==
    \A i, j \in 1..n : Config[i].host_id = Config[j].host_id => i = j

(* The registration that the configuration says for a client's host.        *)
FromConfig(r) ==
    /\ DistinctLines(Len(Config))
    /\ \E c \in Clients : \E i \in DOMAIN Config :
          Config[i].host_id = HostIdOf[c] /\ r = RegistrationOf(c, Config[i])

LinesDistinct == \A c \in Clients : DistinctLines(lines[c])

RegistrationsAgreed ==
    \A h \in DOMAIN registrations :
       registrations[h].host_id = h /\ FromConfig(registrations[h])

Joining(r) == r # NoRequest /\ r.op = "RegisterMemory"

RequestsAgreed ==
    \A k \in Connections : Joining(waiting[k]) => FromConfig(waiting[k].registration)

AInv == LinesDistinct /\ RegistrationsAgreed /\ RequestsAgreed

(* Of two clients that agree, the same host has the same registration.      *)
LEMMA SameRegistration ==
    ASSUME Agreed, NEW r, NEW q, FromConfig(r), FromConfig(q), r.host_id = q.host_id
    PROVE  r = q
<1>1. PICK c \in Clients, i \in DOMAIN Config :
         Config[i].host_id = HostIdOf[c] /\ r = RegistrationOf(c, Config[i])
  BY DEF FromConfig
<1>2. PICK d \in Clients, j \in DOMAIN Config :
         Config[j].host_id = HostIdOf[d] /\ q = RegistrationOf(d, Config[j])
  BY DEF FromConfig
<1>3. HostIdOf[c] = HostIdOf[d]
  BY <1>1, <1>2 DEF RegistrationOf
<1>4. Config \in Seq(PhysmapConfigEntry)
  BY ClientAssumption
<1>5. DOMAIN Config = 1..Len(Config)
  BY <1>4
<1>6. i = j
  BY <1>1, <1>2, <1>3, <1>5 DEF FromConfig, DistinctLines
<1>7. BlockSizeOf[c] = BlockSizeOf[d]
  BY <1>3 DEF Agreed
<1> QED BY <1>1, <1>2, <1>3, <1>6, <1>7 DEF RegistrationOf

(* The Master registers what a request asks for, and nothing else.          *)
LEMMA RegistrationsServed ==
    ASSUME NEW k \in Connections, Master!TakeEffect(k), NEW h \in DOMAIN registrations'
    PROVE  \/ h \in DOMAIN registrations /\ registrations'[h] = registrations[h]
           \/ /\ Joining(waiting[k]) /\ h = waiting[k].registration.host_id
              /\ registrations'[h] = waiting[k].registration
<1> DEFINE r == waiting[k]
           g == r.registration
<1>1. \/ registrations' = registrations
      \/ /\ Joining(r)
         /\ g.host_id \notin DOMAIN registrations
         /\ registrations' = Master!Extend(registrations, g.host_id, g)
  BY DEF Master!TakeEffect, Master!Refuse, Master!RegisterMemory, Master!AllocBlocks,
         Master!FreeBlocks, Master!Read, Joining
<1> HIDE DEF g
<1>2. CASE registrations' = Master!Extend(registrations, g.host_id, g) /\ Joining(r)
  BY <1>2 DEF Master!Extend, g
<1> QED BY <1>1, <1>2

(* The agreement outlasts every step.                                      *)
LEMMA StepAgreed ==
    ASSUME Agreed
    PROVE  CInv /\ AInv /\ [Next]_vars => AInv'
<1> SUFFICES ASSUME CInv, AInv, [Next]_vars PROVE AInv'
  OBVIOUS
<1>1. Shapes /\ MasterTyped /\ \A c \in Clients : Local(c)
  BY InvariantByClient
<1>2. LinesDistinct'
  <2>1. ASSUME NEW c \in Clients
        PROVE  \/ lines'[c] \in {lines[c], 0}
               \/ LoadLine(c)
    <3>1. ASSUME NEW d \in Clients, Startup(d) \/ RunInteractive(d) \/ Kill(d) \/ Lose(d)
          PROVE  lines'[c] \in {lines[c], 0} \/ LoadLine(c)
      <4>1. CASE LoadLine(d)
        BY <1>1, <4>1 DEF LoadLine, Shapes
      <4>2. CASE Gone(d)
        BY <1>1, <4>2 DEF Gone, Shapes
      <4>3. CASE Lose(d)
        BY <4>3 DEF Lose, Disconnected
      <4>4. CASE lines' = lines
        BY <4>4
      <4> QED BY <3>1, <4>1, <4>2, <4>3, <4>4
              DEF Startup, RunInteractive, Connect, RegisterConfiguredHost, Joined, StartFails,
                  Enter, Answered, Quit, Resolved, HostRegister, Copy, Release, Kill
    <3>2. CASE MasterRestart
      BY <3>2 DEF MasterRestart, Disconnected
    <3>3. ASSUME NEW k \in Connections, Serve(k) \/ Drop(k)
          PROVE  lines'[c] \in {lines[c], 0}
      BY <3>3 DEF Serve, Drop, processVars
    <3>4. CASE UNCHANGED vars
      BY <3>4 DEF vars, processVars
    <3> QED BY <3>1, <3>2, <3>3, <3>4 DEF Next
  <2>2. ASSUME NEW c \in Clients PROVE DistinctLines(lines'[c])
    <3>1. DistinctLines(lines[c])
      BY DEF AInv, LinesDistinct
    <3>2. CASE lines'[c] \in {lines[c], 0}
      BY <3>1, <3>2 DEF DistinctLines
    <3>3. CASE LoadLine(c)
      <4>1. /\ lines'[c] = lines[c] + 1 /\ lines[c] \in Nat
            /\ \A i \in 1..lines[c] : Config[i].host_id # Config[lines[c] + 1].host_id
        <5>1. Len(Config) \in Nat /\ lines[c] \in 0..Len(Config)
          BY <1>1, ClientAssumption DEF Local
        <5>2. lines'[c] = lines[c] + 1
          BY <1>1, <3>3 DEF LoadLine, Shapes
        <5> QED BY <3>3, <5>1, <5>2 DEF LoadLine
      <4> DEFINE n == lines[c]
      <4>2. /\ n \in Nat
            /\ \A i, j \in 1..n : Config[i].host_id = Config[j].host_id => i = j
            /\ \A i \in 1..n : Config[i].host_id # Config[n + 1].host_id
        BY <3>1, <4>1 DEF DistinctLines
      <4>3. lines'[c] = n + 1
        BY <4>1
      <4> HIDE DEF n
      <4>4. \A i \in 1..(n + 1) : i \in 1..n \/ i = n + 1
        BY <4>2
      <4>5. \A i, j \in 1..(n + 1) : Config[i].host_id = Config[j].host_id => i = j
        BY <4>2, <4>4
      <4> QED BY <4>3, <4>5 DEF DistinctLines
    <3> QED BY <2>1, <3>2, <3>3
  <2> QED BY <2>2 DEF LinesDistinct
<1>3. RegistrationsAgreed'
  <2>1. ASSUME NEW k \in Connections, Serve(k) PROVE RegistrationsAgreed'
    <3>1. Master!TakeEffect(k)
      BY <2>1 DEF Serve
    <3>2. ASSUME NEW h \in DOMAIN registrations'
          PROVE  registrations'[h].host_id = h /\ FromConfig(registrations'[h])
      <4>1. CASE h \in DOMAIN registrations /\ registrations'[h] = registrations[h]
        BY <4>1 DEF AInv, RegistrationsAgreed
      <4>2. CASE /\ Joining(waiting[k]) /\ h = waiting[k].registration.host_id
                 /\ registrations'[h] = waiting[k].registration
        BY <4>2 DEF AInv, RequestsAgreed
      <4> QED BY <3>1, <3>2, <4>1, <4>2, RegistrationsServed
    <3> QED BY <3>2 DEF RegistrationsAgreed
  <2>2. CASE registrations' = registrations
    BY <2>2 DEF AInv, RegistrationsAgreed
  <2>3. CASE MasterRestart
    BY <2>3 DEF MasterRestart, RegistrationsAgreed
  <2>4. CASE \E c \in Clients : Startup(c) \/ RunInteractive(c) \/ Kill(c) \/ Lose(c)
    <3>1. registrations' = registrations
      BY <2>4 DEF Startup, RunInteractive, Connect, LoadLine, RegisterConfiguredHost, Joined,
                  StartFails, Enter, Answered, Quit, Resolved, HostRegister, Copy, Release,
                  Kill, Lose, masterVars, Send, Received, Master!Return
    <3> QED BY <3>1, <2>2
  <2>5. ASSUME NEW k \in Connections, Drop(k) PROVE registrations' = registrations
    BY <2>5 DEF Drop, Master!Return
  <2>6. CASE UNCHANGED vars
    BY <2>2, <2>6 DEF vars, masterVars
  <2> QED BY <2>1, <2>2, <2>3, <2>4, <2>5, <2>6 DEF Next
<1>4. RequestsAgreed'
  <2>1. ASSUME \A k \in Connections : waiting'[k] = waiting[k] \/ ~Joining(waiting'[k])
                                       \/ FromConfig(waiting'[k].registration)
        PROVE  RequestsAgreed'
    BY <2>1 DEF AInv, RequestsAgreed, Joining
  <2>2. ASSUME NEW c \in Clients, RegisterConfiguredHost(c) PROVE RequestsAgreed'
    <3>1. PICK i \in FindConfig(HostIdOf[c]) :
             Send(c, [op |-> "RegisterMemory", registration |-> RegistrationOf(c, Config[i])])
      BY <2>2 DEF RegisterConfiguredHost
    <3>2. lines[c] = Len(Config)
      BY <2>2 DEF RegisterConfiguredHost
    <3> DEFINE g == RegistrationOf(c, Config[i])
    <3>3. FromConfig(g)
      BY <3>1, <3>2 DEF FromConfig, FindConfig, AInv, LinesDistinct
    <3> HIDE DEF g
    <3>4. waiting' = [waiting EXCEPT ![conn[c]] = [op |-> "RegisterMemory", registration |-> g]]
      BY <3>1 DEF Send, g
    <3>5. \A k \in Connections :
             waiting'[k] = waiting[k] \/ waiting'[k] = [op |-> "RegisterMemory", registration |-> g]
      BY <1>1, <3>4 DEF Shapes
    <3> QED BY <2>1, <3>3, <3>5
  <2>3. ASSUME NEW c \in Clients, Enter(c) PROVE RequestsAgreed'
    <3>1. PICK cmd \in Commands : Send(c, RequestOf(c, cmd))
      BY <2>3 DEF Enter
    <3> DEFINE r == RequestOf(c, cmd)
    <3>2. r.op # "RegisterMemory"
      BY RequestTyped DEF Agreed
    <3> HIDE DEF r
    <3>3. waiting' = [waiting EXCEPT ![conn[c]] = r]
      BY <3>1 DEF Send, r
    <3>4. \A k \in Connections : waiting'[k] = waiting[k] \/ waiting'[k] = r
      BY <1>1, <3>3 DEF Shapes
    <3> QED BY <2>1, <3>2, <3>4 DEF Joining
  <2>4. ASSUME NEW c \in Clients, Startup(c) \/ RunInteractive(c) \/ Kill(c) \/ Lose(c)
        PROVE  waiting' = waiting \/ RegisterConfiguredHost(c) \/ Enter(c)
    BY <2>4 DEF Startup, RunInteractive, Connect, LoadLine, Joined, StartFails, Answered, Quit,
                Resolved, HostRegister, Copy, Release, Kill, Lose, masterVars, Received, Master!Return
  <2>5. ASSUME NEW k \in Connections, Serve(k) \/ Drop(k) PROVE RequestsAgreed'
    <3>1. \/ waiting' = waiting
          \/ waiting' = [waiting EXCEPT ![k] = NoRequest]
      BY <1>1, <2>5, ServeTyped DEF Shapes, Serve, Drop, Master!Return
    <3>2. \A j \in Connections : waiting'[j] = waiting[j] \/ waiting'[j] = NoRequest
      BY <1>1, <3>1 DEF Shapes
    <3> QED BY <2>1, <3>2 DEF Joining
  <2>6. CASE MasterRestart
    BY <2>6 DEF MasterRestart, RequestsAgreed, Joining
  <2>7. CASE waiting' = waiting
    BY <2>1, <2>7
  <2>8. CASE UNCHANGED vars
    BY <2>7, <2>8 DEF vars, masterVars
  <2> QED BY <2>2, <2>3, <2>4, <2>5, <2>6, <2>7, <2>8 DEF Next
<1> QED BY <1>2, <1>3, <1>4 DEF AInv

CountFits == \A c \in Clients : access[c] # Null => access[c].count <= BlockSizeOf[c]

(* A command copies no more than a block, if no user gives a larger size.   *)
LEMMA StepCount ==
    ASSUME SizesFit
    PROVE  CInv /\ CountFits /\ [Next]_vars => CountFits'
<1> SUFFICES ASSUME CInv, CountFits, [Next]_vars, NEW c \in Clients, access'[c] # Null
             PROVE  access'[c].count <= BlockSizeOf[c]
  BY DEF CountFits
<1>1. Shapes /\ Local(c)
  BY OfClient
<1>2. CASE access'[c] = access[c]
  BY <1>2 DEF CountFits
<1>3. CASE Resolved(c) /\ access'[c] # access[c]
  <2> DEFINE block == [host_id |-> ReplyTo(c).host_id, block_id |-> ReplyTo(c).block_id]
             cmd == command[c]
  <2>1. /\ stage[c] = "call" /\ cmd.name \in {"write", "get"}
        /\ \E a \in Addresses(c, block, ByteCount(c, cmd)) : access' = [access EXCEPT ![c] = a]
    BY <1>3 DEF Resolved
  <2>2. cmd \in Commands
    BY <1>1, <2>1 DEF Local
  <2>3. access'[c].count = ByteCount(c, cmd)
    <3>1. PICK a \in Addresses(c, block, ByteCount(c, cmd)) : access' = [access EXCEPT ![c] = a]
      BY <2>1
    <3>2. a.count = ByteCount(c, cmd)
      BY DEF Addresses
    <3>3. access'[c] = a
      BY <1>1, <3>1 DEF Shapes
    <3> QED BY <3>2, <3>3
  <2> DEFINE s == cmd.size
             b == BlockSizeOf[c]
  <2>4. ByteCount(c, cmd) \in {s, b, 1}
    BY DEF ByteCount
  <2>5. s <= b
    BY <2>1, <2>2 DEF SizesFit
  <2>6. b \in Nat \ {0}
    BY ClientAssumption, WordAssumption DEF Word
  <2> HIDE DEF s, b
  <2>7. ByteCount(c, cmd) <= b
    BY <2>4, <2>5, <2>6
  <2> QED BY <2>3, <2>7 DEF b
<1>4. access'[c] \in {access[c], Null} \/ Resolved(c)
  <2>1. ASSUME NEW d \in Clients, Startup(d) \/ RunInteractive(d) \/ Kill(d) \/ Lose(d)
        PROVE  access'[c] \in {access[c], Null} \/ Resolved(c)
    <3>1. CASE Gone(d)
      BY <1>1, <3>1 DEF Gone, Shapes
    <3>2. CASE Finished(d)
      BY <1>1, <3>2 DEF Finished, Shapes
    <3>3. CASE Resolved(d)
      <4>1. access' = access \/ \E a : access' = [access EXCEPT ![d] = a]
        BY <3>3 DEF Resolved
      <4> QED BY <1>1, <3>3, <4>1 DEF Shapes
    <3>4. CASE access' = access
      BY <3>4
    <3> QED BY <2>1, <3>1, <3>2, <3>3, <3>4
            DEF Startup, RunInteractive, Connect, LoadLine, RegisterConfiguredHost, Joined,
                StartFails, Enter, Answered, Quit, HostRegister, Copy, Release, Kill, Lose,
                Disconnected
  <2>2. CASE MasterRestart
    BY <2>2 DEF MasterRestart, Disconnected
  <2>3. ASSUME NEW k \in Connections, Serve(k) \/ Drop(k) PROVE access' = access
    BY <2>3 DEF Serve, Drop, processVars
  <2>4. CASE UNCHANGED vars
    BY <2>4 DEF vars, processVars
  <2> QED BY <2>1, <2>2, <2>3, <2>4 DEF Next
<1> QED BY <1>2, <1>3, <1>4

(* WritableBlockAddress and RegisterConfiguredHost together: if all clients *)
(* have one configuration, those of one host one block size, and no user    *)
(* gives a larger size or registers by hand, then the physical addresses    *)
(* that a write or get copies are those that the Master means by the block, *)
(* unless its host has another block size than the client.                 *)
THEOREM AccessStays ==
    ASSUME Agreed, SizesFit
    PROVE  Spec => []AccessStaysInBlock
<1>1. Init => AInv /\ CountFits
  BY DEF Init, Master!Init, AInv, LinesDistinct, DistinctLines, RegistrationsAgreed,
         RequestsAgreed, Joining, CountFits
<1>2. CInv /\ AInv /\ CountFits => AccessStaysInBlock
  <2> SUFFICES ASSUME CInv, AInv, CountFits, NEW c \in Clients, access[c] # Null,
                      location[c].host_id \in DOMAIN registrations,
                      registrations[location[c].host_id].block_size = BlockSizeOf[c]
               PROVE  LET r     == registrations[location[c].host_id]
                          first == Config[access[c].line].start_address + access[c].offset
                          block == r.start_address + location[c].block_id * r.block_size
                      IN  block <= first /\ first + access[c].count <= block + r.block_size
    BY DEF AccessStaysInBlock
  <2> DEFINE h == location[c].host_id
             r == registrations[h]
             l == access[c].line
  <2>1. /\ access[c] \in MappedRange /\ location[c] \in BlockLocation
        /\ Config[l].host_id = h
        /\ access[c].offset = location[c].block_id * BlockSizeOf[c]
    BY OfClient DEF Local
  <2>2. l \in DOMAIN Config /\ access[c].offset \in Word /\ access[c].count \in Word
    BY <2>1 DEF MappedRange
  <2>3. FromConfig(r) /\ r.host_id = h
    BY DEF AInv, RegistrationsAgreed
  <2>4. PICK d \in Clients, i \in DOMAIN Config :
           Config[i].host_id = HostIdOf[d] /\ r = RegistrationOf(d, Config[i])
    BY <2>3 DEF FromConfig
  <2>5. Config[i].host_id = h
    BY <2>3, <2>4 DEF RegistrationOf
  <2>6. Config \in Seq(PhysmapConfigEntry)
    BY ClientAssumption
  <2>7. DOMAIN Config = 1..Len(Config)
    BY <2>6
  <2>8. i = l
    BY <2>1, <2>2, <2>3, <2>5, <2>7 DEF FromConfig, DistinctLines
  <2>9. r.block_size = BlockSizeOf[c] /\ r.start_address = Config[l].start_address
    BY <2>4, <2>8 DEF RegistrationOf
  <2>10. Config[l] \in PhysmapConfigEntry
    BY <2>2, <2>6
  <2> DEFINE o == access[c].offset
             s == Config[l].start_address
             n == access[c].count
             b == BlockSizeOf[c]
  <2>11. o \in Nat /\ n \in Nat /\ s \in Nat /\ b \in Nat
    BY <2>2, <2>10, ClientAssumption, WordAssumption, SMTT(30) DEF Word, PhysmapConfigEntry
  <2>12. n <= b
    BY DEF CountFits
  <2>13. o = location[c].block_id * r.block_size /\ s = r.start_address /\ b = r.block_size
    BY <2>1, <2>9
  <2> HIDE DEF o, s, n, b
  <2>14. s + o <= s + o /\ (s + o) + n <= (s + o) + b
    BY <2>11, <2>12
  <2> QED BY <2>13, <2>14 DEF o, s, n
<1> QED BY <1>1, <1>2, StepAgreed, StepCount, ClientInvariance, PTL DEF Spec

-----------------------------------------------------------------------------
(* The hosts of the configuration together are no larger than the address   *)
(* space, and each is one that the Master accepts.                          *)
SizeOf(h) ==
    IF FindConfig(h) = {} THEN 0 ELSE Config[CHOOSE i \in FindConfig(h) : TRUE].size

HostsFit ==
    /\ \A c \in Clients : \A i \in FindConfig(HostIdOf[c]) :
          Master!ValidRegistration(RegistrationOf(c, Config[i]))
    /\ SumFunctionOnSet([h \in HostIds |-> SizeOf(h)], HostIds) <= MaxWord

(* The Master adds up the blocks of the hosts.                              *)
LEMMA RegisteredSum ==
    Master!RegisteredBlocks =
       SumFunctionOnSet([h \in DOMAIN registrations |-> Master!Blocks(registrations[h])],
                        DOMAIN registrations)
<1> DEFINE f == [h \in DOMAIN registrations |-> Master!Blocks(registrations[h])]
<1>1. \A g : Master!SumFunction(g) = SumFunctionOnSet(g, DOMAIN g)
  BY DEF SumFunctionOnSet, FoldFunctionOnSet, MapThenFoldSet,
         Master!SumFunction, Master!SumFunctionOnSet,
         Master!FoldFunctionOnSet, Master!MapThenFoldSet, Master!SumFunction
<1>2. Master!RegisteredBlocks = Master!SumFunction(f)
  BY DEF Master!RegisteredBlocks
<1>3. DOMAIN f = DOMAIN registrations
  OBVIOUS
<1> QED BY <1>1, <1>2, <1>3

(* A registration of the configuration has no more blocks than bytes.       *)
LEMMA BlocksOfConfig ==
    ASSUME Agreed, NEW r, FromConfig(r), HostsFit
    PROVE  /\ r.host_id \in HostIds /\ Master!ValidRegistration(r)
           /\ Master!Blocks(r) \in Nat
           /\ SizeOf(r.host_id) \in Nat /\ Master!Blocks(r) <= SizeOf(r.host_id)
<1>1. PICK c \in Clients, i \in DOMAIN Config :
         Config[i].host_id = HostIdOf[c] /\ r = RegistrationOf(c, Config[i])
  BY DEF FromConfig
<1>2. i \in FindConfig(HostIdOf[c]) /\ Config \in Seq(PhysmapConfigEntry)
  BY <1>1, ClientAssumption DEF FindConfig
<1>3. DOMAIN Config = 1..Len(Config) /\ Config[i] \in PhysmapConfigEntry
  BY <1>2
<1>4. /\ r.host_id = HostIdOf[c] /\ r.total_size = Config[i].size
      /\ r.block_size = BlockSizeOf[c]
  BY <1>1 DEF RegistrationOf
<1>5. FindConfig(HostIdOf[c]) = {i}
  BY <1>1, <1>2, <1>3 DEF FindConfig, FromConfig, DistinctLines
<1>6. SizeOf(r.host_id) = r.total_size
  BY <1>4, <1>5 DEF SizeOf
<1>7. r.total_size \in Nat /\ r.block_size \in Nat \ {0}
  BY <1>3, <1>4, ClientAssumption, WordAssumption DEF PhysmapConfigEntry, Word
<1>8. Master!Blocks(r) \in Nat /\ Master!Blocks(r) <= r.total_size
  <2> DEFINE t == r.total_size
             d == r.block_size
             q == t \div d
             m == t % d
  <2>1. q \in Nat
    <3>1. \A x \in Nat, y \in Nat \ {0} : x \div y \in Nat
      OBVIOUS
    <3> QED BY <1>7, <3>1
  <2>2. m \in 0..(d - 1) /\ t = (q * d) + m
    <3>1. t \in Int
      BY <1>7
    <3>2. t % d \in 0..(d - 1) /\ t = ((t \div d) * d) + (t % d)
      BY <1>7, <3>1, DivRest
    <3> QED BY <3>2
  <2>3. Master!Blocks(r) = q
    BY DEF Master!Blocks
  <2>4. t \in Nat /\ d \in Nat \ {0}
    BY <1>7
  <2> HIDE DEF t, d, q, m
  <2>5. q * d >= q
    <3>1. \A x \in Nat : q * x \in Nat /\ q * (x + 1) = (q * x) + q
      BY <2>1
    <3>2. d - 1 \in Nat /\ d = (d - 1) + 1
      BY <2>4
    <3>3. q * (d - 1) \in Nat /\ q * ((d - 1) + 1) = (q * (d - 1)) + q
      BY <3>1, <3>2
    <3>4. q * d = (q * (d - 1)) + q
      BY <3>2, <3>3
    <3> DEFINE e == q * (d - 1)
               p == q * d
    <3>5. e \in Nat /\ p = e + q
      BY <3>3, <3>4
    <3> HIDE DEF e, p
    <3>6. p >= q
      BY <2>1, <3>5
    <3> QED BY <3>6 DEF p
  <2> DEFINE p == q * d
  <2>6. p >= q /\ t = p + m /\ p \in Int
    BY <2>1, <2>2, <2>4, <2>5
  <2> HIDE DEF p
  <2>7. q <= t
    BY <2>1, <2>2, <2>4, <2>6
  <2> QED BY <2>1, <2>3, <2>7 DEF t
<1> QED BY <1>1, <1>2, <1>4, <1>6, <1>7, <1>8, ClientAssumption DEF HostsFit

(* The hosts that are registered and one more have no more blocks than fit  *)
(* in a word.                                                              *)
LEMMA RoomForHost ==
    ASSUME Agreed, HostsFit, CInv, RegistrationsAgreed, NEW r, FromConfig(r),
           r.host_id \notin DOMAIN registrations
    PROVE  Master!RegisteredBlocks + Master!Blocks(r) \in Word
<1> DEFINE D == DOMAIN registrations
           f == [h \in D |-> Master!Blocks(registrations[h])]
           g == [h \in HostIds |-> SizeOf(h)]
           x == r.host_id
           E == D \cup {x}
           s == [h \in HostIds |-> IF h \in E THEN g[h] ELSE 0]
<1>1. D \subseteq HostIds /\ IsFiniteSet(HostIds)
  BY HostAssumption DEF CInv, MasterTyped
<1>2. /\ x \in HostIds /\ Master!Blocks(r) \in Nat
      /\ SizeOf(x) \in Nat /\ Master!Blocks(r) <= SizeOf(x)
  BY BlocksOfConfig
<1>3. \A h \in D : /\ f[h] \in Nat /\ g[h] \in Nat /\ f[h] <= g[h]
  <2>1. \A h \in D : registrations[h].host_id = h /\ FromConfig(registrations[h])
    BY DEF RegistrationsAgreed
  <2>2. ASSUME NEW h \in D
        PROVE  /\ Master!Blocks(registrations[h]) \in Nat /\ SizeOf(h) \in Nat
               /\ Master!Blocks(registrations[h]) <= SizeOf(h)
    <3> DEFINE q == registrations[h]
    <3>1. q.host_id = h /\ FromConfig(q)
      BY <2>1
    <3> HIDE DEF q
    <3>2. Master!Blocks(q) \in Nat /\ SizeOf(h) \in Nat /\ Master!Blocks(q) <= SizeOf(h)
      BY <3>1, BlocksOfConfig
    <3> QED BY <3>2 DEF q
  <2> QED BY <1>1, <2>2
<1>4. \A h \in HostIds : g[h] \in Nat
  <2>1. ASSUME NEW h \in HostIds PROVE SizeOf(h) \in Nat
    <3>1. CASE FindConfig(h) = {}
      BY <3>1 DEF SizeOf
    <3>2. CASE FindConfig(h) # {}
      <4> DEFINE i == CHOOSE i \in FindConfig(h) : TRUE
      <4>1. i \in DOMAIN Config
        BY <3>2 DEF FindConfig
      <4>2. Config[i] \in PhysmapConfigEntry
        BY <4>1, ClientAssumption
      <4> QED BY <3>2, <4>2, WordAssumption DEF SizeOf, PhysmapConfigEntry, Word
    <3> QED BY <3>1, <3>2
  <2> QED BY <2>1
<1>5. g[x] = SizeOf(x) /\ x \notin D
  BY <1>2
<1> HIDE DEF f, g, x, D, s
<1>6. IsFiniteSet(E) /\ E \in SUBSET HostIds /\ E \ {x} = D
  BY <1>1, <1>2, <1>5, FS_Subset
<1>7. IsFiniteSet(D)
  BY <1>1, FS_Subset
<1>8. SumFunctionOnSet(f, D) <= SumFunctionOnSet(g, D)
  BY <1>3, <1>7, SumMonotone
<1>9. SumFunctionOnSet(g, E) = g[x] + SumFunctionOnSet(g, D)
  <2>1. \A h \in E : g[h] \in Nat
    BY <1>4, <1>6
  <2>2. SumFunctionOnSet(g, E) = g[x] + SumFunctionOnSet(g, E \ {x})
    <3>1. x \in E
      OBVIOUS
    <3> HIDE DEF E
    <3> QED BY <1>6, <2>1, <3>1, SumAnyFirst
  <2> QED BY <1>6, <2>2
<1>10. SumFunctionOnSet(g, E) <= SumFunctionOnSet(g, HostIds)
  BY <1>1, <1>4, <1>6, SumOfPart
<1>11. SumFunctionOnSet(g, HostIds) <= MaxWord
  BY DEF HostsFit, g
<1>12. /\ SumFunctionOnSet(f, D) \in Nat /\ SumFunctionOnSet(g, D) \in Nat
       /\ SumFunctionOnSet(g, E) \in Nat /\ SumFunctionOnSet(g, HostIds) \in Nat
  <2>1. SumFunctionOnSet(f, D) \in Nat
    BY <1>3, <1>7, SumType
  <2>2. SumFunctionOnSet(g, D) \in Nat
    BY <1>3, <1>7, SumType
  <2>3. \A h \in E : g[h] \in Nat
    BY <1>4, <1>6
  <2>4. SumFunctionOnSet(g, E) \in Nat
    BY <1>6, <2>3, SumType
  <2>5. SumFunctionOnSet(g, HostIds) \in Nat
    BY <1>1, <1>4, SumType
  <2> QED BY <2>1, <2>2, <2>4, <2>5
<1>13. Master!RegisteredBlocks = SumFunctionOnSet(f, D)
  BY RegisteredSum DEF f, D
<1> DEFINE a == SumFunctionOnSet(f, D)
           b == SumFunctionOnSet(g, D)
           e == SumFunctionOnSet(g, E)
           t == SumFunctionOnSet(g, HostIds)
           n == Master!Blocks(r)
           z == g[x]
<1>14. /\ a \in Nat /\ b \in Nat /\ e \in Nat /\ t \in Nat /\ n \in Nat /\ z \in Nat
       /\ a <= b /\ e = z + b /\ e <= t /\ t <= MaxWord /\ n <= z
  BY <1>2, <1>4, <1>5, <1>8, <1>9, <1>10, <1>11, <1>12 DEF x
<1> HIDE DEF a, b, e, t, n, z
<1>15. a + n \in Word
  BY <1>14, WordAssumption DEF Word
<1> QED BY <1>13, <1>15 DEF a, n

(* A registration of the configuration is accepted.                         *)
LEMMA JoinAccepted ==
    ASSUME Agreed, HostsFit, CInv, AInv, NEW k \in Connections, Master!TakeEffect(k),
           Joining(waiting[k])
    PROVE  answer'[k].code = "kOk"
<1> DEFINE r == waiting[k]
           g == r.registration
<1>1. MasterTyped
  BY DEF CInv
<1>2. FromConfig(g)
  BY DEF AInv, RequestsAgreed
<1>3. Master!RefusalsOf(r) = {}
  <2>1. Master!RefusalsOf(r) = IF Master!ValidRegistration(g) THEN {} ELSE {"kInvalidArgument"}
    BY DEF Master!RefusalsOf, Master!BatchOps, Joining
  <2> QED BY <1>2, <2>1, BlocksOfConfig
<1>4. Master!RegisterMemory(k, g)
  <2>1. r.op = "RegisterMemory"
    BY DEF Joining
  <2> QED BY <1>3, <2>1 DEF Master!TakeEffect, Master!Read, Master!WriteOps
<1> HIDE DEF g
<1>5. g.host_id \in DOMAIN registrations => registrations[g.host_id] = g
  <2> SUFFICES ASSUME g.host_id \in DOMAIN registrations
               PROVE  registrations[g.host_id] = g
    OBVIOUS
  <2> DEFINE q == registrations[g.host_id]
  <2>1. q.host_id = g.host_id /\ FromConfig(q)
    BY DEF AInv, RegistrationsAgreed
  <2> HIDE DEF q
  <2>2. q = g
    BY <1>2, <2>1, SameRegistration
  <2> QED BY <2>2 DEF q
<1>6. g.host_id \notin DOMAIN registrations => Master!RegisteredBlocks + Master!Blocks(g) \in Word
  BY <1>2, RoomForHost DEF AInv
<1>7. Master!Word = Word
  BY DEF Master!Word, Word
<1>8. Master!Answer(k, Master!Registered(Master!Blocks(g)))
  BY <1>4, <1>5, <1>6, <1>7 DEF Master!RegisterMemory
<1>9. answer'[k] = Master!Registered(Master!Blocks(g))
  BY <1>1, <1>8 DEF Master!Answer, MasterTyped
<1> QED BY <1>9 DEF Master!Registered

(* What waits for a client that joins is its registration, and the answer   *)
(* accepts it.                                                             *)
JoinsWell(c) ==
    stage[c] = "join" =>
       \A k \in Connections : conn[c] = k =>
          /\ waiting[k] # NoRequest => Joining(waiting[k])
          /\ answer[k] # NoReply => answer[k].code = "kOk"

JInv == \A c \in Clients : JoinsWell(c)

(* A step of one client lets the others join.                              *)
LEMMA OtherJoins ==
    ASSUME CInv, JInv, NEW c \in Clients, NEW d \in Clients \ {c}, OthersKeep(c),
           \A k \in Connections : k # conn[c] => waiting'[k] = waiting[k] /\ answer'[k] = answer[k]
    PROVE  JoinsWell(d)'
<1>1. JoinsWell(d) /\ conn'[d] = conn[d] /\ stage'[d] = stage[d]
  BY DEF JInv, OthersKeep
<1>2. \A k \in Connections : conn[d] = k => k # conn[c]
  BY OfClient
<1> QED BY <1>1, <1>2 DEF JoinsWell, Joining

(* Every step, if the clients agree.                                       *)
LEMMA StepJoins ==
    ASSUME Agreed, HostsFit
    PROVE  CInv /\ AInv /\ JInv /\ [Next]_vars => JInv'
<1> SUFFICES ASSUME CInv, AInv, JInv, [Next]_vars PROVE JInv'
  OBVIOUS
<1>1. Shapes /\ MasterTyped
  BY InvariantByClient
<1>2. ASSUME NEW c \in Clients, OthersKeep(c), stage'[c] # "join",
             \A k \in Connections : k # conn[c] => waiting'[k] = waiting[k] /\ answer'[k] = answer[k]
      PROVE  JInv'
  <2>1. JoinsWell(c)'
    BY <1>2 DEF JoinsWell
  <2> QED BY <1>2, <2>1, OtherJoins DEF JInv
<1>3. ASSUME NEW c \in Clients,
             \/ Connect(c) \/ LoadLine(c) \/ StartFails(c) \/ Quit(c) \/ Kill(c)
             \/ HostRegister(c) \/ Copy(c) \/ Release(c)
      PROVE  JInv'
  <2>1. waiting' = waiting /\ answer' = answer
    BY <1>3 DEF Connect, LoadLine, StartFails, Quit, Kill, HostRegister, Copy, Release, masterVars
  <2>2. OthersKeep(c) /\ stage'[c] # "join"
    BY <1>1, <1>3 DEF Connect, LoadLine, StartFails, Quit, Kill, HostRegister, Copy, Release,
              Finished, Prompt, Gone, Goto, Shapes, OthersKeep
  <2> QED BY <1>2, <2>1, <2>2
<1>4. ASSUME NEW c \in Clients, RegisterConfiguredHost(c) PROVE JInv'
  <2>1. PICK i \in FindConfig(HostIdOf[c]) :
           Send(c, [op |-> "RegisterMemory", registration |-> RegistrationOf(c, Config[i])])
    BY <1>4 DEF RegisterConfiguredHost
  <2> DEFINE r == [op |-> "RegisterMemory", registration |-> RegistrationOf(c, Config[i])]
  <2>2. r # NoRequest => Joining(r)
    BY DEF Joining
  <2> HIDE DEF r
  <2>3. waiting' = [waiting EXCEPT ![conn[c]] = r] /\ answer' = answer
    BY <2>1 DEF Send, r
  <2>4. \A k \in Connections : waiting'[k] = IF k = conn[c] THEN r ELSE waiting[k]
    BY <1>1, <2>3 DEF Shapes
  <2>5. OthersKeep(c) /\ conn' = conn /\ stage[c] = "load"
    BY <1>1, <1>4 DEF RegisterConfiguredHost, Goto, Shapes, OthersKeep
  <2>6. \A k \in Connections : conn[c] = k => answer[k] = NoReply
    BY <2>5, OfClient DEF Conversation
  <2>7. JoinsWell(c)'
    BY <2>2, <2>3, <2>4, <2>5, <2>6 DEF JoinsWell, Joining
  <2> QED BY <2>3, <2>4, <2>5, <2>7, OtherJoins DEF JInv
<1>5. ASSUME NEW c \in Clients, Joined(c) \/ Answered(c) \/ Resolved(c) PROVE JInv'
  <2>1. Received(c)
    BY <1>5 DEF Joined, Answered, Resolved
  <2>2. /\ waiting' = waiting
        /\ \A k \in Connections : k # conn[c] => answer'[k] = answer[k]
    BY <2>1, ReceivedNothingWaits
  <2>3. OthersKeep(c) /\ stage'[c] # "join"
    <3>1. CASE Joined(c)
      BY <1>1, <3>1 DEF Joined, Gone, Goto, Shapes, OthersKeep
    <3>2. CASE Answered(c)
      BY <1>1, <3>2 DEF Answered, Prompt, Goto, Shapes, OthersKeep
    <3>3. CASE Resolved(c)
      <4>1. /\ UNCHANGED <<conn, lines, gpu>>
            /\ \/ /\ \E a : access' = [access EXCEPT ![c] = a]
                  /\ \E b : location' = [location EXCEPT ![c] = b]
                  /\ Goto(c, "map") /\ UNCHANGED command
               \/ Prompt(c) /\ UNCHANGED <<location, access>>
        BY <3>3 DEF Resolved
      <4> QED BY <1>1, <4>1 DEF Prompt, Goto, Shapes, OthersKeep
    <3> QED BY <1>5, <3>1, <3>2, <3>3
  <2> QED BY <1>2, <2>2, <2>3
<1>6. ASSUME NEW c \in Clients, Enter(c) PROVE JInv'
  <2>1. PICK r : waiting' = [waiting EXCEPT ![conn[c]] = r]
    BY <1>6 DEF Enter, Send
  <2>2. answer' = answer
    BY <1>6 DEF Enter, Send
  <2>3. \A k \in Connections : k # conn[c] => waiting'[k] = waiting[k]
    BY <1>1, <2>1 DEF Shapes
  <2>4. OthersKeep(c) /\ stage'[c] # "join"
    BY <1>1, <1>6 DEF Enter, Goto, Shapes, OthersKeep
  <2> QED BY <1>2, <2>2, <2>3, <2>4
<1>7. ASSUME NEW c \in Clients, Lose(c) PROVE JInv'
  <2>1. waiting' = waiting /\ answer' = answer
    BY <1>7 DEF Lose, masterVars
  <2>2. OthersKeep(c) /\ stage'[c] # "join"
    BY <1>1, <1>7 DEF Lose, Disconnected, OthersKeep
  <2> QED BY <1>2, <2>1, <2>2
<1>8. ASSUME NEW k \in Connections, Serve(k) PROVE JInv'
  <2>1. stage' = stage /\ conn' = conn /\ Master!TakeEffect(k) /\ waiting[k] # NoRequest
    BY <1>8 DEF Serve, processVars, Master!TakeEffect
  <2>2. /\ waiting' = [waiting EXCEPT ![k] = NoRequest]
        /\ \A j \in Connections : j # k => answer'[j] = answer[j]
    BY <1>1, <2>1, ServeTyped DEF Shapes
  <2>3. waiting'[k] = NoRequest /\ \A j \in Connections : j # k => waiting'[j] = waiting[j]
    BY <1>1, <2>2 DEF Shapes
  <2>4. Joining(waiting[k]) => answer'[k].code = "kOk"
    BY <2>1, JoinAccepted
  <2>5. ASSUME NEW c \in Clients PROVE JoinsWell(c)'
    <3>1. JoinsWell(c)
      BY DEF JInv
    <3> QED BY <2>1, <2>2, <2>3, <2>4, <3>1 DEF JoinsWell, Joining
  <2> QED BY <2>5 DEF JInv
<1>9. ASSUME NEW k \in Connections, Drop(k) PROVE JInv'
  <2>1. /\ stage' = stage /\ conn' = conn /\ \A c \in Clients : conn[c] # k
        /\ \/ waiting' = [waiting EXCEPT ![k] = NoRequest] /\ answer' = answer
           \/ Master!Return(k)
    BY <1>9 DEF Drop, processVars, Master!Return
  <2>2. \A j \in Connections : j # k => waiting'[j] = waiting[j] /\ answer'[j] = answer[j]
    BY <1>1, <2>1 DEF Shapes, MasterTyped, Master!Return
  <2> QED BY <2>1, <2>2 DEF JInv, JoinsWell, Joining
<1>10. CASE MasterRestart
  <2>1. \A c \in Clients : stage'[c] # "join"
    BY <1>10 DEF MasterRestart, Disconnected
  <2> QED BY <2>1 DEF JInv, JoinsWell
<1>11. CASE UNCHANGED vars
  BY <1>11 DEF vars, masterVars, processVars, JInv, JoinsWell, Joining
<1>12. ASSUME NEW c \in Clients, Startup(c) \/ RunInteractive(c) \/ Kill(c) \/ Lose(c) PROVE JInv'
  BY <1>3, <1>4, <1>5, <1>6, <1>7, <1>12 DEF Startup, RunInteractive
<1> QED BY <1>8, <1>9, <1>10, <1>11, <1>12 DEF Next

(* README.md: registering the same memory again is accepted.  If the        *)
(* clients of one host have one block size, the configured hosts are valid  *)
(* and fit in the address space, and nobody registers by hand, then         *)
(* RegisterConfiguredHost is never refused, however often clients and the   *)
(* Master restart.                                                          *)
THEOREM RestartSafe ==
    ASSUME Agreed, HostsFit
    PROVE  Spec => []RestartedClientJoins
<1>1. Init => AInv /\ JInv
  BY DEF Init, Master!Init, AInv, LinesDistinct, DistinctLines, RegistrationsAgreed,
         RequestsAgreed, Joining, JInv, JoinsWell
<1>2. CInv /\ JInv => RestartedClientJoins
  BY OfClient DEF RestartedClientJoins, JInv, JoinsWell, Local
<1> QED BY <1>1, <1>2, StepAgreed, StepJoins, ClientInvariance, PTL DEF Spec

=============================================================================
