------------------------------ MODULE MCMaster ------------------------------
(***************************************************************************)
(* Small instances of MasterService and KeyDirectory for TLC: two hosts    *)
(* with pools of two and one blocks, two keys one of which has a second,    *)
(* upper-case spelling, and a string that is not a key.                    *)
(***************************************************************************)
EXTENDS MasterService, TLC

CONSTANTS h1, h2, a, upper_a, b, c, bad

MCHostIds  == {h1, h2}
MCRawKeys  == {a, upper_a, b, c, bad}
MCHexKeys  == {a, upper_a, b, c}
MCLowerCase == [k \in MCRawKeys |-> IF k = upper_a THEN a ELSE k]

Memory(h, start, total, block) ==
    [host_id |-> h, start_address |-> start, total_size |-> total, block_size |-> block]

Register(registration) == [op |-> "RegisterMemory", registration |-> registration]
Batch(op, h, keys)     == [op |-> op, host_id |-> h, keys |-> keys]
Query(keys)            == [op |-> "BatchExist", keys |-> keys]

(* Both pools fill up, empty and refill in every order; batches name keys  *)
(* of one host, of two, repeated under two spellings, malformed.            *)
ServiceRequests ==
         {Register(Memory(h1, 0, 2, 1)), Register(Memory(h1, 2, 2, 2)),
          Register(Memory(h2, 4, 2, 2)), Register(Memory(h2, 4, 3, 2))}
    \cup {Batch("AllocBlocks", h1, keys) : keys \in {<<a>>, <<b>>, <<upper_a, b>>, <<a, upper_a>>, <<bad>>}}
    \cup {Batch("AllocBlocks", h2, keys) : keys \in {<<upper_a>>, <<b, a>>}}
    \cup {Batch("FreeBlocks", h1, keys) : keys \in {<<a>>, <<b, upper_a>>, <<a, upper_a>>, <<bad, b>>}}
    \cup {Batch("FreeBlocks", h2, keys) : keys \in {<<a>>, <<>>}}
    \cup {Query(keys) : keys \in {<<a, b>>, <<b>>}}
    \cup {[op |-> "Exist", key |-> k] : k \in {upper_a, bad}}
    \cup {[op |-> "FindHost", host_id |-> h1]}
    \cup {[op |-> "AvailableBlockCount"], [op |-> "AllocatedBlockCount"],
          [op |-> "RegisteredHostCount"]}

(* For one request at a time: three keys on pools of three and two blocks,  *)
(* every order of single and batched allocations and frees, and queries for *)
(* every list of distinct keys.                                            *)
Lists == {keys \in UNION {[1..n -> {a, b, c}] : n \in 1..3} :
             \A i, j \in DOMAIN keys : keys[i] = keys[j] => i = j}

(* Sizes of zero, a rest, an unaligned start, ends past the last address;   *)
(* Memory(h2, 4, 4, 2) below ends at the last address.                      *)
Refused == {Memory(h1, 0, 0, 1), Memory(h1, 0, 4, 0), Memory(h1, 0, 3, 2), Memory(h1, 1, 2, 2),
            Memory(h1, 6, 3, 1), Memory(h2, 6, 4, 2), Memory(h2, 8, 8, 8)}

SequentialRequests ==
         {Register(Memory(h1, 0, 3, 1)), Register(Memory(h2, 4, 4, 2))}
    \cup {Register(r) : r \in Refused} \cup {[op |-> "AvailableBlockCount"]}
    \cup {Batch(op, h, keys) : op \in BatchOps, h \in HostIds, keys \in Lists}
    \cup {Query(keys) : keys \in Lists}

(* Two workers or more that write and read; no symmetry, so that TLC can   *)
(* check liveness.                                                         *)
ContentionRequests ==
    {Register(Memory(h1, 0, 2, 1)),
     Batch("AllocBlocks", h1, <<a, b>>), Batch("FreeBlocks", h1, <<b>>),
     Query(<<a, b>>), [op |-> "Exist", key |-> a]}

Workers == Permutations(Threads)
=============================================================================
