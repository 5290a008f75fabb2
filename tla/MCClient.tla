------------------------------ MODULE MCClient ------------------------------
(***************************************************************************)
(* Instances of Client for TLC: a client on each of two hosts, and as many *)
(* connections as clients, so that a restarted client meets the request    *)
(* that its predecessor has left under way.                                *)
(***************************************************************************)
EXTENDS Client, TLC

CONSTANTS h1, h2, c1, c2, a, b

MCHostIds   == {h1, h2}
MCClients   == {c1, c2}
MCRawKeys   == {a, b}
MCLowerCase == [k \in MCRawKeys |-> k]
MCHostIdOf  == [c \in MCClients |-> IF c = c1 THEN h1 ELSE h2]
MCRequests  == {RequestOf(c, cmd) : c \in Clients, cmd \in Commands}

Line(h, start, size)    == [host_id |-> h, start_address |-> start, size |-> size]
On(name, keys)          == [name |-> name, keys |-> keys]
Access(name, key, size) == [name |-> name, key |-> key, size |-> size]

(* One block of eight bytes and three of two.  Each client takes the other *)
(* host's blocks for blocks of its own size: for the first, the offset of   *)
(* the last block of the other host does not fit into a word.              *)
MixedConfig    == <<Line(h1, 0, 8), Line(h2, 8, 6)>>
MixedBlockSize == [c \in MCClients |-> IF c = c1 THEN 8 ELSE 2]
MixedCommands  ==
    {On("alloc", <<a>>), On("free", <<a>>), Access("write", a, 0), Access("get", a, 0)}

(* Hosts of two blocks and of one, and clients that agree on their size.    *)
AgreedConfig    == <<Line(h1, 0, 4), Line(h2, 4, 2)>>
AgreedBlockSize == [c \in MCClients |-> 2]

(* A block is freed and given to a second key.                             *)
ReuseCommands == {On("alloc", <<a>>), On("alloc", <<b>>), On("free", <<a>>), Access("write", a, 0)}

Interchangeable == Permutations(Connections)
=============================================================================
