------------------------------- MODULE Client -------------------------------
(***************************************************************************)
(* The Client shells (client.cpp) with the Master they call.  A client     *)
(* connects once, maps the devices of its configuration, registers its     *)
(* host, and then runs one command at a time: an RPC, and for write and    *)
(* get a GPU copy to or from the block that the RPC has named.             *)
(*                                                                         *)
(* The Master is KeyDirectory, which MasterService implements: a request   *)
(* takes effect at one instant after it was sent, or never.  A connection  *)
(* may be lost at any time; the request on it may be lost with it or take   *)
(* effect later.  Processes may be killed and started again, the Master    *)
(* too, which then has forgotten everything.                               *)
(***************************************************************************)
EXTENDS RpcProtocol

CONSTANTS
    Clients,        \* the client processes; a restarted one has its old name
    Connections,    \* bound: the TCP connections that exist at a time
    HostIdOf,       \* client -> --host-id
    BlockSizeOf,    \* client -> --block-size
    Configured,     \* the clients started with --config
    Config,         \* the lines of the physmap configuration file
    Commands,       \* the commands that users enter
    NoRequest, NoReply, NoConnection, Null

PhysmapConfigEntry == [host_id : HostIds, start_address : Word, size : Word \ {0}]

(* A size that the user leaves out is 0: the parser refuses a 0.            *)
Command ==
         [name : {"register"}, start_address : Word, total_size : Word, block_size : Word]
    \cup [name : {"alloc", "free", "batch_exist"}, keys : Seq(RawKeys)]
    \cup [name : {"exist"}, key : RawKeys]
    \cup [name : {"write", "get"}, key : RawKeys, size : Word]

BlockLocation == [host_id : HostIds, block_id : Nat]

MappedRange == [line : DOMAIN Config, offset : Word, count : Word]

ASSUME ClientAssumption ==
    /\ HostIdOf \in [Clients -> HostIds]
    /\ BlockSizeOf \in [Clients -> Word \ {0}]
    /\ Configured \subseteq Clients
    /\ Config \in Seq(PhysmapConfigEntry)
    /\ Commands \subseteq Command
    /\ NoConnection \notin Connections
    /\ Null \notin Commands \cup BlockLocation \cup MappedRange

VARIABLES
    registrations, queue, directory, waiting, answer,   \* see KeyDirectory
    stage,      \* client -> what it does next
    conn,       \* client -> its connection
    command,    \* client -> the command it is executing
    lines,      \* client -> how many lines of the configuration it has mapped
    location,   \* client -> the block that ResolveKey returned
    access,     \* client -> the part of a mapping its command copies
    gpu,        \* client -> what the GPU runtime holds for its command
    holds,      \* history: client -> the blocks its user was told are his
    doubt       \* history: client -> the keys of frees without an answer

masterVars  == <<registrations, queue, directory, waiting, answer>>
processVars == <<stage, conn, command, lines, location, access, gpu>>
historyVars == <<holds, doubt>>
vars == <<masterVars, processVars, historyVars>>

Master == INSTANCE KeyDirectory WITH Threads <- Connections

Init ==
    /\ Master!Init
    /\ stage = [c \in Clients |-> "down"]
    /\ conn = [c \in Clients |-> NoConnection]
    /\ command = [c \in Clients |-> Null]
    /\ lines = [c \in Clients |-> 0]
    /\ location = [c \in Clients |-> Null]
    /\ access = [c \in Clients |-> Null]
    /\ gpu = [c \in Clients |-> {}]
    /\ holds = [c \in Clients |-> << >>]
    /\ doubt = [c \in Clients |-> {}]

Goto(c, next) == stage' = [stage EXCEPT ![c] = next]

-----------------------------------------------------------------------------
(* Remote calls.  *)

Send(c, request) ==
    /\ conn[c] # NoConnection
    /\ waiting' = [waiting EXCEPT ![conn[c]] = request]
    /\ UNCHANGED <<registrations, queue, directory, answer>>

ReplyTo(c) == answer[conn[c]]

Received(c) == conn[c] # NoConnection /\ Master!Return(conn[c])

(* The keys of a free that c has sent and not heard of.                    *)
Unanswered(c) ==
    IF stage[c] = "call" /\ command[c].name = "free"
    THEN {CanonicalKey(command[c].keys[i]) : i \in DOMAIN command[c].keys}
    ELSE {}

(* The process is gone, and with it its mappings, its connection and what  *)
(* the GPU runtime held for it.                                            *)
Gone(c) ==
    /\ Goto(c, "down")
    /\ conn' = [conn EXCEPT ![c] = NoConnection]
    /\ command' = [command EXCEPT ![c] = Null]
    /\ lines' = [lines EXCEPT ![c] = 0]
    /\ location' = [location EXCEPT ![c] = Null]
    /\ access' = [access EXCEPT ![c] = Null]
    /\ gpu' = [gpu EXCEPT ![c] = {}]

-----------------------------------------------------------------------------
(* main: connect, HostMappings::Load, GpuAccessor::Initialize, register.    *)

Connect(c) ==
    /\ stage[c] = "down"
    /\ \E k \in Connections :
          /\ \A d \in Clients : conn[d] # k
          /\ waiting[k] = NoRequest /\ answer[k] = NoReply
          /\ conn' = [conn EXCEPT ![c] = k]
    /\ Goto(c, IF c \in Configured THEN "load" ELSE "prompt")
    /\ UNCHANGED <<masterVars, command, lines, location, access, gpu, historyVars>>

LoadLine(c) ==
    /\ stage[c] = "load" /\ lines[c] < Len(Config)
    /\ \A i \in 1..lines[c] : Config[i].host_id # Config[lines[c] + 1].host_id
    /\ lines' = [lines EXCEPT ![c] = @ + 1]
    /\ UNCHANGED <<masterVars, stage, conn, command, location, access, gpu, historyVars>>

FindConfig(host) == {i \in DOMAIN Config : Config[i].host_id = host}

\* Mutant: the total size and the block size in the wrong order
RegistrationOfBlocks(c, entry) ==
    [host_id |-> HostIdOf[c], start_address |-> entry.start_address,
     total_size |-> BlockSizeOf[c], block_size |-> entry.size]

RegistrationOf(c, entry) ==
    [host_id |-> HostIdOf[c], start_address |-> entry.start_address,
     total_size |-> entry.size, block_size |-> BlockSizeOf[c]]

RegisterConfiguredHost(c) ==
    /\ stage[c] = "load" /\ lines[c] = Len(Config) /\ lines[c] > 0
    /\ \E i \in FindConfig(HostIdOf[c]) :
          Send(c, [op |-> "RegisterMemory", registration |-> RegistrationOf(c, Config[i])])
    /\ Goto(c, "join")
    /\ UNCHANGED <<conn, command, lines, location, access, gpu, historyVars>>

Joined(c) ==
    /\ stage[c] = "join"
    /\ Received(c)
    /\ IF ReplyTo(c).code = "kOk"
       THEN Goto(c, "prompt") /\ UNCHANGED <<conn, command, lines, location, access, gpu>>
       ELSE Gone(c)
    /\ UNCHANGED historyVars

(* No configuration line for the host, a line that names a host twice, a   *)
(* device that cannot be opened or mapped, a GPU that cannot be set, or no  *)
(* connection any more: main returns.                                      *)
StartFails(c) ==
    /\ stage[c] = "load"
    /\ Gone(c)
    /\ UNCHANGED <<masterVars, historyVars>>

-----------------------------------------------------------------------------
(* RunInteractive: one command at a time.  *)

\* Mutant: the request has the default host id
RequestWithoutHost(c, cmd) ==
    CASE cmd.name \in {"alloc", "free"} ->
            [op |-> IF cmd.name = "alloc" THEN "AllocBlocks" ELSE "FreeBlocks",
             host_id |-> Config[1].host_id, keys |-> cmd.keys]
      [] OTHER -> [op |-> "Exist", key |-> CHOOSE key \in RawKeys : TRUE]

RequestOf(c, cmd) ==
    CASE cmd.name = "register" ->
            [op |-> "RegisterMemory", registration |->
               [host_id |-> HostIdOf[c], start_address |-> cmd.start_address,
                total_size |-> cmd.total_size, block_size |-> cmd.block_size]]
      [] cmd.name = "alloc" ->
            [op |-> "AllocBlocks", host_id |-> HostIdOf[c], keys |-> cmd.keys]
      [] cmd.name = "free" ->
            [op |-> "FreeBlocks", host_id |-> HostIdOf[c], keys |-> cmd.keys]
      [] cmd.name = "batch_exist" -> [op |-> "BatchExist", keys |-> cmd.keys]
      [] cmd.name \in {"exist", "write", "get"} -> [op |-> "Exist", key |-> cmd.key]

(* From the moment that a user asks to free a key it is no longer his.      *)
Enter(c) ==
    /\ stage[c] = "prompt"
    /\ \E cmd \in Commands :
          /\ Send(c, RequestOf(c, cmd))
          /\ command' = [command EXCEPT ![c] = cmd]
          /\ holds' = IF cmd.name # "free" THEN holds
                ELSE [holds EXCEPT ![c] =
                        [key \in DOMAIN @ \ {CanonicalKey(cmd.keys[i]) : i \in DOMAIN cmd.keys}
                            |-> @[key]]]
    /\ Goto(c, "call")
    /\ UNCHANGED <<conn, lines, location, access, gpu, doubt>>

Prompt(c) == Goto(c, "prompt") /\ command' = [command EXCEPT ![c] = Null]

(* What the user is told of an allocation.                                 *)
Told(c, allocations) ==
    holds' = [holds EXCEPT ![c] =
        [key \in DOMAIN @ \cup {allocations[i].key : i \in DOMAIN allocations} |->
            IF key \in DOMAIN @ THEN @[key]
            ELSE LET i == CHOOSE i \in DOMAIN allocations : allocations[i].key = key
                 IN  [host_id |-> allocations[i].host_id,
                      block_id |-> allocations[i].block_id]]]

(* The commands that end with the reply, and write or get if the key is not *)
(* known to the Master.                                                    *)
Answered(c) ==
    /\ stage[c] = "call"
    /\ Received(c)
    /\ command[c].name \in {"write", "get"} => ReplyTo(c).code # "kOk"
    /\ IF command[c].name = "alloc" /\ ReplyTo(c).code = "kOk"
       THEN Told(c, ReplyTo(c).allocations)
       ELSE UNCHANGED holds
    /\ Prompt(c)
    /\ UNCHANGED <<conn, lines, location, access, gpu, doubt>>

-----------------------------------------------------------------------------
(* write and get: the reply to Exist names a block, the GPU copies it.      *)

\* Mutant: the id is taken for the offset
OffsetOfId(block_id, block_size) == block_id

(* The product of BlockOffset, which std::uint64_t computes modulo a word.  *)
Product(block_id, block_size) == (block_id * block_size) % (MaxWord + 1)

\* Mutant: the product is not checked
AnyProduct(block_id, block_size) == TRUE

NoOverflow(block_id, block_size) == block_id <= MaxWord \div block_size

ByteCount(c, cmd) ==
    IF cmd.size > 0 THEN cmd.size ELSE IF cmd.name = "write" THEN BlockSizeOf[c] ELSE 1

(* WritableBlockAddress: the line of the mapping and the offset in it.      *)
Addresses(c, block, count) ==
    {[line |-> i, offset |-> Product(block.block_id, BlockSizeOf[c]), count |-> count] :
        i \in {i \in FindConfig(block.host_id) :
                 /\ i <= lines[c]
                 /\ NoOverflow(block.block_id, BlockSizeOf[c])
                 /\ LET offset == Product(block.block_id, BlockSizeOf[c]) IN
                       offset <= Config[i].size /\ count <= Config[i].size - offset}}

Resolved(c) ==
    /\ stage[c] = "call" /\ command[c].name \in {"write", "get"}
    /\ Received(c)
    /\ ReplyTo(c).code = "kOk"
    /\ LET block   == [host_id |-> ReplyTo(c).host_id, block_id |-> ReplyTo(c).block_id]
           address == Addresses(c, block, ByteCount(c, command[c]))
       IN  \/ /\ address # {}
              /\ \E a \in address : access' = [access EXCEPT ![c] = a]
              /\ location' = [location EXCEPT ![c] = block]
              /\ Goto(c, "map")
              /\ UNCHANGED command
           \/ address = {} /\ Prompt(c) /\ UNCHANGED <<location, access>>
    /\ UNCHANGED <<conn, lines, gpu, historyVars>>

\* Mutant: the address of the last command is kept
FinishedKeepingAddress(c) == Prompt(c) /\ UNCHANGED <<location, access>>

Finished(c) ==
    /\ Prompt(c)
    /\ location' = [location EXCEPT ![c] = Null]
    /\ access' = [access EXCEPT ![c] = Null]

HostRegister(c) ==
    /\ stage[c] = "map"
    /\ \/ /\ gpu' = [gpu EXCEPT ![c] = {"registration"}]
          /\ Goto(c, "copy")
          /\ UNCHANGED <<command, location, access>>
       \/ Finished(c) /\ UNCHANGED gpu
    /\ UNCHANGED <<masterVars, conn, lines, historyVars>>

\* Mutant: the command ends when there is no buffer
CopyOrReturn(c) ==
    /\ stage[c] = "copy"
    /\ \/ Finished(c) /\ UNCHANGED gpu
       \/ /\ gpu' = [gpu EXCEPT ![c] = @ \cup {"buffer"}]
          /\ Goto(c, "release")
          /\ UNCHANGED <<command, location, access>>
    /\ UNCHANGED <<masterVars, conn, lines, historyVars>>

(* mcMalloc fails, or the calls after it do what they do: what was acquired *)
(* is released.                                                            *)
Copy(c) ==
    /\ stage[c] = "copy"
    /\ \/ UNCHANGED gpu
       \/ gpu' = [gpu EXCEPT ![c] = @ \cup {"buffer"}]
    /\ Goto(c, "release")
    /\ UNCHANGED <<masterVars, conn, command, lines, location, access, historyVars>>

(* mcFree, if there is a buffer, and mcHostUnregister.                      *)
Release(c) ==
    /\ stage[c] = "release"
    /\ gpu' = [gpu EXCEPT ![c] = {}]
    /\ Finished(c)
    /\ UNCHANGED <<masterVars, conn, lines, historyVars>>

-----------------------------------------------------------------------------
(* Ends and failures.  *)

Quit(c) ==
    /\ stage[c] = "prompt"
    /\ Gone(c)
    /\ UNCHANGED <<masterVars, historyVars>>

Kill(c) ==
    /\ stage[c] # "down"
    /\ doubt' = [doubt EXCEPT ![c] = @ \cup Unanswered(c)]
    /\ Gone(c)
    /\ UNCHANGED <<masterVars, holds>>

(* "RPC failed": a waiting command ends, a client that is starting returns *)
(* from main.  No client connects twice, so every later RPC fails as well.  *)
Disconnected(lost) ==
    /\ conn' = [c \in Clients |-> IF c \in lost THEN NoConnection ELSE conn[c]]
    /\ stage' = [c \in Clients |->
          IF c \in lost /\ stage[c] = "call" THEN "prompt"
          ELSE IF c \in lost /\ stage[c] = "join" THEN "down" ELSE stage[c]]
    /\ command' = [c \in Clients |->
          IF c \in lost /\ stage[c] = "call" THEN Null ELSE command[c]]
    /\ lines' = [c \in Clients |-> IF c \in lost /\ stage[c] = "join" THEN 0 ELSE lines[c]]
    /\ UNCHANGED <<location, access, gpu>>

Lose(c) ==
    /\ conn[c] # NoConnection
    /\ Disconnected({c})
    /\ doubt' = [doubt EXCEPT ![c] = @ \cup Unanswered(c)]
    /\ UNCHANGED <<masterVars, holds>>

(* A request on a connection that is gone may never arrive, or its reply   *)
(* arrives nowhere.                                                        *)
Drop(k) ==
    /\ \A c \in Clients : conn[c] # k
    /\ \/ /\ waiting[k] # NoRequest
          /\ waiting' = [waiting EXCEPT ![k] = NoRequest]
          /\ UNCHANGED <<registrations, queue, directory, answer>>
       \/ Master!Return(k)
    /\ UNCHANGED <<processVars, historyVars>>

Serve(k) == Master!TakeEffect(k) /\ UNCHANGED <<processVars, historyVars>>

(* The Master keeps nothing; what users were told before is void.           *)
MasterRestart ==
    /\ registrations # << >>
    /\ registrations' = << >> /\ queue' = << >> /\ directory' = << >>
    /\ waiting' = [k \in Connections |-> NoRequest]
    /\ answer' = [k \in Connections |-> NoReply]
    /\ Disconnected(Clients)
    /\ holds' = [c \in Clients |-> << >>]
    /\ doubt' = [c \in Clients |-> {}]

-----------------------------------------------------------------------------
Startup(c) ==
    Connect(c) \/ LoadLine(c) \/ RegisterConfiguredHost(c) \/ Joined(c) \/ StartFails(c)

RunInteractive(c) ==
    \/ Enter(c) \/ Answered(c) \/ Quit(c)
    \/ Resolved(c) \/ HostRegister(c) \/ Copy(c) \/ Release(c)

Next ==
    \/ \E c \in Clients : Startup(c) \/ RunInteractive(c) \/ Kill(c) \/ Lose(c)
    \/ \E k \in Connections : Serve(k) \/ Drop(k)
    \/ MasterRestart

Spec == Init /\ [][Next]_vars

-----------------------------------------------------------------------------
(* Properties *)

(* Every variable has its type, whatever a client sends is a request of the *)
(* protocol, and a client has a command and an address while it uses them.  *)
TypeOK ==
    /\ waiting \in [Connections -> Request \cup {NoRequest}]
    /\ stage \in [Clients -> {"down", "load", "join", "prompt", "call",
                              "map", "copy", "release"}]
    /\ conn \in [Clients -> Connections \cup {NoConnection}]
    /\ command \in [Clients -> Commands \cup {Null}]
    /\ lines \in [Clients -> 0..Len(Config)]
    /\ location \in [Clients -> BlockLocation \cup {Null}]
    /\ access \in [Clients -> MappedRange \cup {Null}]
    /\ gpu \in [Clients -> SUBSET {"registration", "buffer"}]
    /\ doubt \in [Clients -> SUBSET RawKeys]
    /\ \A c \in Clients :
          /\ command[c] # Null <=> stage[c] \in {"call", "map", "copy", "release"}
          /\ access[c] # Null <=> stage[c] \in {"map", "copy", "release"}
          /\ location[c] # Null <=> access[c] # Null
          /\ conn[c] = NoConnection => stage[c] \notin {"join", "call"}

(* A copy starts where block_id * block_size bytes of the mapping end, in  *)
(* unbounded arithmetic, and does not leave the mapping, whatever size the *)
(* user gave and whoever registered the host.                              *)
AccessInsideMapping ==
    \A c \in Clients : access[c] # Null =>
       /\ access[c].line <= lines[c]
       /\ Config[access[c].line].host_id = location[c].host_id
       /\ access[c].offset = location[c].block_id * BlockSizeOf[c]
       /\ access[c].offset + access[c].count <= Config[access[c].line].size

(* The usage text, client.cpp:144: "Fill the key's block": the physical     *)
(* addresses copied are those that the Master means by the block, if the    *)
(* client has the block size that the block's host was registered with.     *)
AccessStaysInBlock ==
    \A c \in Clients :
       access[c] # Null /\ location[c].host_id \in DOMAIN registrations =>
          LET r     == registrations[location[c].host_id]
              first == Config[access[c].line].start_address + access[c].offset
              block == r.start_address + location[c].block_id * r.block_size
          IN  r.block_size = BlockSizeOf[c] =>
                 block <= first /\ first + access[c].count <= block + r.block_size

(* The same text: while the GPU copies, the block is no other key's.        *)
AccessSparesOtherKeys ==
    \A c \in Clients : stage[c] = "copy" =>
       \A key \in DOMAIN directory :
          directory[key] = location[c] => key = CanonicalKey(command[c].key)

(* A command leaves no registration and no buffer behind, on any path.      *)
GpuReleased ==
    \A c \in Clients : stage[c] \notin {"copy", "release"} => gpu[c] = {}

(* What a user was told of his blocks stays true until he asks to free     *)
(* them, whatever other clients do, whichever calls are lost and however    *)
(* often clients restart; except for a key that an earlier free has named   *)
(* whose answer was lost, because that free may come late.                  *)
HeldBlocksExist ==
    \A c \in Clients : (\A d \in Clients \ {c} : HostIdOf[d] # HostIdOf[c]) =>
       \A key \in DOMAIN holds[c] \ doubt[c] :
          key \in DOMAIN directory /\ directory[key] = holds[c][key]

(* README.md: registering the same memory again is accepted.  A client that *)
(* restarts is never refused, whether the Master has answered its first     *)
(* registration, has not, or has restarted itself.                         *)
RestartedClientJoins ==
    \A c \in Clients : stage[c] = "join" /\ answer[conn[c]] # NoReply =>
       answer[conn[c]].code = "kOk"
=============================================================================
