---------------------------- MODULE RpcProtocol ----------------------------
(***************************************************************************)
(* The messages a Client and the Master exchange (protocol.h), and the two *)
(* conversions every handler applies to a key: the SHA-256 format check    *)
(* and the lower-casing that makes a spelling canonical.                   *)
(*                                                                         *)
(* A spelling of a key is a member of RawKeys.  HexKeys are the spellings  *)
(* of 64 hexadecimal characters; two of them that differ only in letter    *)
(* case have the same LowerCase, which is the key of the Master's index.   *)
(* A reply's text message is left out.                                     *)
(***************************************************************************)
EXTENDS Integers, Sequences, FiniteSets

CONSTANTS
    HostIds,    \* HostId, a uint32_t the operator gives each machine
    RawKeys,    \* the spellings of keys that occur in requests
    HexKeys,    \* those made of exactly 64 hexadecimal characters
    LowerCase,  \* std::tolower applied to each character of a spelling
    MaxWord,    \* the largest value of std::uint64_t
    Requests    \* the requests that clients of the instance send

CanonicalKey(key) == LowerCase[key]

IsSha256Key(key) == key \in HexKeys

Keys == {CanonicalKey(key) : key \in HexKeys}

Word == 0..MaxWord

MemoryRegistration ==
    [host_id : HostIds, start_address : Word, total_size : Word, block_size : Word]

KeyBlockLocation == [key : Keys, host_id : HostIds, block_id : Nat]

-----------------------------------------------------------------------------
(* Requests: the five RPCs and the four accessors of the class.  *)

BatchOps == {"AllocBlocks", "FreeBlocks"}
CountOps == {"RegisteredHostCount", "AvailableBlockCount", "AllocatedBlockCount"}
WriteOps == {"RegisterMemory"} \cup BatchOps

Request ==
         [op : {"RegisterMemory"}, registration : MemoryRegistration]
    \cup [op : BatchOps, host_id : HostIds, keys : Seq(RawKeys)]
    \cup [op : {"Exist"}, key : RawKeys]
    \cup [op : {"BatchExist"}, keys : Seq(RawKeys)]
    \cup [op : {"FindHost"}, host_id : HostIds]
    \cup [op : CountOps]

(* The keys of a batch request, in the form the index holds them.  *)
Canonical(keys) == [i \in DOMAIN keys |-> CanonicalKey(keys[i])]

-----------------------------------------------------------------------------
(* Replies.  A reply with an error code has default values everywhere else; *)
(* nullopt is the empty optional of the accessor FindHost.                  *)

RpcCode == {"kOk", "kInvalidArgument", "kHostAlreadyRegistered",
            "kInsufficientMemory", "kHostNotRegistered", "kInvalidKey",
            "kKeyAlreadyExists", "kKeyNotFound", "kKeyHostMismatch"}

Refusal(code) == [code |-> code]

Registered(blocks)     == [code |-> "kOk", total_blocks |-> blocks]
Allocated(allocations) == [code |-> "kOk", allocations |-> allocations]
Freed(count)           == [code |-> "kOk", freed_count |-> count]
Found(location)        == [code |-> "kOk", host_id |-> location.host_id,
                                           block_id |-> location.block_id]
BestMatch(host, matches) ==
    [code |-> "kOk", host_id |-> host,
     matched_count |-> Len(matches), matches |-> matches]
FoundHost(registration) == [code |-> "kOk", registration |-> registration]
Counted(count)          == [code |-> "kOk", count |-> count]

Reply ==
         [code : RpcCode \cup {"nullopt"}]
    \cup [code : {"kOk"}, total_blocks : Nat]
    \cup [code : {"kOk"}, allocations : Seq(KeyBlockLocation)]
    \cup [code : {"kOk"}, freed_count : Nat]
    \cup [code : {"kOk"}, host_id : HostIds, block_id : Nat]
    \cup [code : {"kOk"}, host_id : HostIds, matched_count : Nat,
          matches : Seq(KeyBlockLocation)]
    \cup [code : {"kOk"}, registration : MemoryRegistration]
    \cup [code : {"kOk"}, count : Nat]

-----------------------------------------------------------------------------
(* A key that lower-cases to a spelling of 64 hexadecimal characters was    *)
(* one already, and lower-casing twice is lower-casing once.                *)
ASSUME KeyAssumption ==
    /\ HexKeys \subseteq RawKeys
    /\ LowerCase \in [RawKeys -> RawKeys]
    /\ \A key \in HexKeys :
          /\ LowerCase[key] \in HexKeys
          /\ LowerCase[LowerCase[key]] = LowerCase[key]

ASSUME HostAssumption == IsFiniteSet(HostIds)

ASSUME WordAssumption == MaxWord \in Nat

ASSUME RequestAssumption == Requests \subseteq Request
=============================================================================
