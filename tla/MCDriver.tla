------------------------------ MODULE MCDriver ------------------------------
(***************************************************************************)
(* Instances of PhysmapDriver for TLC: an address space of four pages of   *)
(* two bytes, a table of two slots, and an identifier more than slots, so  *)
(* that a create can find the table full.                                  *)
(***************************************************************************)
EXTENDS PhysmapDriver, TLC

CONSTANTS p, q, r

MCIdentifiers == {p, q, r}

PhysRange(identifier, first, size) ==
    [identifier |-> identifier, phys_addr |-> first, size |-> size]

(* Three mappings that may be created, the last of which finds a full      *)
(* table, and requests that fail each of the checks.                       *)
MCCreateRequests ==
    {PhysRange(p, 0, 4), PhysRange(q, 4, 2), PhysRange(r, 6, 2),
     PhysRange(q, 6, 4),
     PhysRange(p, 1, 2), PhysRange(p, 2, 3), PhysRange(q, 0, 0), PhysRange(Null, 0, 2)}

Symmetric == Permutations(Tasks) \cup Permutations(Files) \cup Permutations(Objects)
=============================================================================
