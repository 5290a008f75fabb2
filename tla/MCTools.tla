-------------------------------- MODULE MCTools --------------------------------
(***************************************************************************)
(* Small instances, for TLC, of the programs that run beside the client and *)
(* the Master.  They share no state but the driver's table, so a behaviour  *)
(* has one of them as its subject, and the others do not move.              *)
(***************************************************************************)
EXTENDS PhysmapTools, GpuFill, LineEditor

CONSTANTS p, q, Subjects

VARIABLE subject

mcVars == <<subject, toolVars, fillVars, editorVars>>

(* Two regions under one identifier, and one under another; all share the   *)
(* only device number, one after the other.                                *)
Mapping(identifier, phys_addr, size) ==
    [identifier |-> identifier, phys_addr |-> phys_addr, size |-> size]

MCRegions == {Mapping(p, 0, 4), Mapping(p, 4, 6), Mapping(q, 2, 4)}

Init ==
    /\ subject \in Subjects
    /\ ToolInit /\ FillInit /\ EditorInit

Next ==
    /\ UNCHANGED subject
    /\ \/ subject = "tools"  /\ ToolNext   /\ UNCHANGED <<fillVars, editorVars>>
       \/ subject = "fill"   /\ FillNext   /\ UNCHANGED <<toolVars, editorVars>>
       \/ subject = "editor" /\ EditorNext /\ UNCHANGED <<toolVars, fillVars>>

(* Every variable of the three keeps its type: the list of allocations stays *)
(* inside its array, the cursor in the line, the place in the history in it. *)
TypeOK == ToolTypeOK /\ FillTypeOK /\ EditorTypeOK

Spec == Init /\ [][Next]_mcVars /\ ToolFairness /\ FillFairness
=============================================================================
