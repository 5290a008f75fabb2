------------------------------- MODULE MCFaults -------------------------------
(***************************************************************************)
(* The instances of MCMaster, with allocations of memory that fail.         *)
(***************************************************************************)
EXTENDS MCMaster, MasterServiceFaults
=============================================================================
