------------------------ MODULE PhysmapDriverProofs ------------------------
(***************************************************************************)
(* The inductive invariant of PhysmapDriver, and what follows from it for  *)
(* every size of the table and every number of tasks, files and objects.   *)
(*                                                                         *)
(* IInv says who owns what: an active id has one owner at a time, and the  *)
(* owner of the id owns its region and its device node; a number has one   *)
(* cdev for the mapping that has it and one more for each handler that has *)
(* still to delete one; a region is allocated as long as the table, a      *)
(* handler or a file has it, and its count is the number of those that do. *)
(* It is inductive when a destroy names an id that a create has returned   *)
(* and that no other destroy has been given: "list" \notin IdSources.  With *)
(* ids taken from the list IInv does not hold (run driver_race); that the  *)
(* bitmap agrees with the table holds all the same and is proved at the    *)
(* end without the assumption.                                             *)
(***************************************************************************)
EXTENDS PhysmapDriver, TLAPS, FiniteSetTheorems, WellFoundedInduction

(* The least element of a set of naturals that is not empty is in it: that *)
(* is why find_first_zero_bit returns a bit that is clear.                 *)
LEMMA MinMember ==
    ASSUME NEW S \in SUBSET Nat, S # {}
    PROVE  Min(S) \in S
<1> DEFINE less == OpToRel(<, Nat)
<1>1. PICK n \in S : \A m \in S : <<m, n>> \notin less
  <2>1. IsWellFoundedOn(less, Nat)
    BY NatLessThanWellFounded
  <2> HIDE DEF less
  <2> QED BY <2>1, WFMin
<1>2. \A m \in S : n <= m
  <2> TAKE m \in S
  <2>1. ~(m < n)
    BY <1>1 DEF OpToRel
  <2> QED BY <2>1
<1> QED BY <1>2 DEF Min

(* The tasks that have a cdev to delete can be counted.                    *)
LEMMA OwnersFinite ==
    ASSUME NEW i
    PROVE  IsFiniteSet(CdevOwners(i)) /\ Cardinality(CdevOwners(i)) \in Nat
BY DriverAssumption, FS_Subset, FS_CardinalityType DEF CdevOwners

(* The cdevs of a number are accounted for as before if they, the slot of  *)
(* the number and the handlers at work on it are as before.                *)
LEMMA CountKept ==
    ASSUME NEW i \in Ids, CdevsCounted(i), cdevs'[i] = cdevs[i],
           regions'[i] # Null <=> regions[i] # Null,
           \A u \in Tasks : Bare(u, i)' <=> Bare(u, i),
           \A u \in Tasks : CdevOwner(u, i)' <=> CdevOwner(u, i)
    PROVE  CdevsCounted(i)'
<1>1. CdevOwners(i)' = CdevOwners(i)
  <2>1. \A u \in Tasks : CdevOwner(u, i)' <=> CdevOwner(u, i)
    OBVIOUS
  <2> QED BY ONLY <2>1 DEF CdevOwners
<1>2. Added(i)' <=> Added(i)
  <2>1. \A u \in Tasks : Bare(u, i)' <=> Bare(u, i)
    OBVIOUS
  <2>2. (regions'[i] # Null) <=> (regions[i] # Null)
    OBVIOUS
  <2> QED BY ONLY <2>1, <2>2 DEF Added
<1> QED BY <1>1, <1>2 DEF CdevsCounted

(* The same for all numbers.                                               *)
LEMMA CdevsKept ==
    ASSUME CdevsAccounted, cdevs' = cdevs, regions' = regions,
           \A u \in Tasks, i \in Ids : Bare(u, i)' <=> Bare(u, i),
           \A u \in Tasks, i \in Ids : CdevOwner(u, i)' <=> CdevOwner(u, i)
    PROVE  CdevsAccounted'
<1> SUFFICES ASSUME NEW i \in Ids PROVE CdevsCounted(i)'
  BY DEF CdevsAccounted, Ids
<1>1. CdevsCounted(i)
  BY DEF CdevsAccounted
<1> QED BY <1>1, CountKept

(* A registration more in front of a list, and the first one gone.         *)
LEMMA ListMoves ==
    ASSUME NEW T, NEW l \in Seq(T), NEW x \in T
    PROVE  /\ <<x>> \o l \in Seq(T) /\ Len(<<x>> \o l) = Len(l) + 1
           /\ Len(l) \in Nat
           /\ l # << >> => /\ Tail(l) \in Seq(T) /\ Head(l) \in T
                          /\ Len(Tail(l)) = Len(l) - 1 /\ Len(l) > 0
           /\ l = << >> => Len(l) = 0
OBVIOUS

(* cdev_del takes one registration away, of its own number.                *)
LEMMA NewestGoes ==
    ASSUME cdevs \in [Ids -> Seq(Objects)], NEW i \in Ids, Len(cdevs[i]) > 0
    PROVE  /\ NewestGone(i) \in [Ids -> Seq(Objects)]
           /\ Len(NewestGone(i)[i]) = Len(cdevs[i]) - 1
           /\ \A j \in Ids : j # i => NewestGone(i)[j] = cdevs[j]
<1>1. cdevs[i] \in Seq(Objects) /\ cdevs[i] # << >>
  OBVIOUS
<1>2. Tail(cdevs[i]) \in Seq(Objects) /\ Len(Tail(cdevs[i])) = Len(cdevs[i]) - 1
  BY <1>1
<1>3. NewestGone(i) = [cdevs EXCEPT ![i] = Tail(cdevs[i])]
  BY <1>1 DEF NewestGone
<1> QED BY <1>2, <1>3

(* The same for the device nodes.                                          *)
LEMMA NodesKept ==
    ASSUME NodesAccounted, nodes' = nodes, regions' = regions,
           \A u \in Tasks, i \in Ids : /\ NodeOwner(u, i)' <=> NodeOwner(u, i)
                                       /\ Unfinished(u, i)' <=> Unfinished(u, i)
    PROVE  NodesAccounted'
BY DEF NodesAccounted, Finished

(* physmap_create_region, to its allocation: the new region is zeroed, has *)
(* one reference and belongs to the create alone.                          *)
LEMMA CreateStep ==
    ASSUME IInv, NEW t \in Tasks, Create(t), UNCHANGED <<moduleVars, fileVars>>
    PROVE  IInv'
<1>1. PICK req \in CreateRequests, x \in Objects \ heap :
          /\ ValidCreate(req)
          /\ heap' = heap \cup {x}
          /\ mem' = [mem EXCEPT ![x] = Zeroed]
          /\ region' = [region EXCEPT ![t] = x]
          /\ args' = [args EXCEPT ![t] = req]
  BY DEF Create
<1>2. /\ pc[t] = "idle" /\ module = "ready"
      /\ pc' = [pc EXCEPT ![t] = "publish"]
      /\ UNCHANGED <<regions, id_bitmap, cdevs, nodes, id, known, module, control,
                     stage, minor, cdev, private, windows>>
  BY DEF Create, Idle, Goto, tableVars, kernelVars, moduleVars, fileVars
<1>3. TypeOK'
  <2>1. Zeroed \in Region /\ Zeroed.refs = 0
    BY DEF Zeroed, Region
  <2>2. mem' \in [Objects -> Region] /\ \A y \in Objects : mem'[y].refs >= 0
    BY <1>1, <2>1 DEF IInv, TypeOK
  <2> QED BY <1>1, <1>2, <2>2 DEF IInv, TypeOK, Steps
<1>4. /\ \A i \in Ids : regions[i] # x
      /\ \A f \in Files : private[f] # x
      /\ \A u \in Tasks : Holds(u) => region[u] # x
  BY DriverAssumption DEF IInv, TypeOK, TableHolds, FilesHold, HandlerKnows, Knows
<1>5. \A y \in Objects \ {x} : mem'[y] = mem[y]
  BY <1>1 DEF IInv, TypeOK
<1>6. BitmapMatchesTable' /\ TableHolds' /\ IdentifiersUnique'
  BY <1>1, <1>2, <1>4, <1>5 DEF IInv, TypeOK, BitmapMatchesTable, TableHolds, IdentifiersUnique
<1>7. IdsOwnedOnce'
  BY <1>2 DEF IInv, TypeOK, IdsOwnedOnce, Owns, Building
<1>8. ASSUME NEW u \in Tasks PROVE Knows(u)'
  <2>1. Knows(u) /\ (u # t => (Holds(u) => region[u] # x))
    BY <1>4 DEF IInv, HandlerKnows
  <2>2. CASE u = t
    <3>1. Opened(x)' = {}
      BY <1>2, <1>4 DEF Opened
    <3> QED BY <2>2, <3>1, <1>1, <1>2, <1>4 DEF IInv, TypeOK, Knows, Holds, Building, Zeroed
  <2>3. CASE u # t
    <3>1. pc'[u] = pc[u] /\ id'[u] = id[u] /\ region'[u] = region[u] /\ args'[u] = args[u]
      BY <1>1, <1>2, <2>3 DEF IInv, TypeOK
    <3>2. Holds(u) => mem'[region[u]] = mem[region[u]]
      BY <1>5, <2>1, <2>3 DEF Knows, IInv, TypeOK
    <3> QED BY <2>1, <3>1, <3>2, <1>1, <1>2 DEF Knows, Holds, Building, Opened
  <2> QED BY <2>2, <2>3
<1>9. HandlerKnows' /\ HeldOnce'
  BY <1>1, <1>2, <1>4, <1>8 DEF IInv, TypeOK, HandlerKnows, HeldOnce, Holds
<1>10. FilesHold'
  BY <1>1, <1>2 DEF IInv, FilesHold
<1>11. ASSUME NEW y \in heap' PROVE Counted(y)' /\ Reachable(y)'
  <2>1. CASE y = x
    <3>1. Opened(x)' = {} /\ Cardinality(Opened(x)') = 0
      BY <1>2, <1>4, FS_EmptySet DEF Opened
    <3>2. ~Kept(x)'
      BY <1>1, <1>2, <1>4 DEF IInv, TypeOK, Kept, HeldBy, Holds
    <3> QED BY <2>1, <3>1, <3>2, <1>1, <1>2 DEF IInv, TypeOK, Counted, Reachable, Holds, Zeroed
  <2>2. CASE y # x
    <3>1. y \in heap /\ Counted(y) /\ Reachable(y) /\ mem'[y] = mem[y]
      BY <1>1, <1>5, <2>2 DEF IInv, TypeOK, ReferencesCounted, NothingLeaked
    <3>2. \A u \in Tasks : HeldBy(u, y)' <=> HeldBy(u, y)
      BY <1>1, <1>2, <2>2 DEF IInv, TypeOK, HeldBy
    <3>3. (Kept(y)' <=> Kept(y)) /\ Opened(y)' = Opened(y)
      BY <3>2, <1>2 DEF Kept, Opened
    <3>4. Reachable(y)'
      BY <3>1, <3>3, <1>1, <1>2, <2>2 DEF IInv, TypeOK, Reachable, Holds
    <3> QED BY <3>1, <3>3, <3>4 DEF Counted
  <2> QED BY <2>1, <2>2
<1>12. ReferencesCounted' /\ NothingLeaked'
  BY <1>11 DEF ReferencesCounted, NothingLeaked
<1>13. CdevsAccounted'
  <2>1. \A u \in Tasks, i \in Ids : Bare(u, i)' <=> Bare(u, i)
    BY <1>2 DEF IInv, TypeOK, Bare
  <2>2. \A u \in Tasks, i \in Ids : CdevOwner(u, i)' <=> CdevOwner(u, i)
    BY <1>1, <1>2 DEF IInv, TypeOK, CdevOwner
  <2> QED BY <1>2, <2>1, <2>2, CdevsKept DEF IInv
<1>14. NodesAccounted'
  <2>1. \A u \in Tasks, i \in Ids : /\ NodeOwner(u, i)' <=> NodeOwner(u, i)
                                    /\ Unfinished(u, i)' <=> Unfinished(u, i)
    BY <1>2 DEF IInv, TypeOK, NodeOwner, Unfinished
  <2> QED BY <1>2, <2>1, NodesKept DEF IInv
<1>15. RangesFit'
  BY <1>1, <1>5, DriverAssumption DEF IInv, TypeOK, RangesFit, Zeroed
<1>16. MappedInsideRegion'
  BY <1>1, <1>2, <1>4, <1>5 DEF IInv, TypeOK, MappedInsideRegion
<1>17. Unloaded'
  BY <1>2 DEF Unloaded
<1> QED
  BY <1>3, <1>6, <1>7, <1>9, <1>10, <1>12, <1>13, <1>14, <1>15, <1>16, <1>17 DEF IInv

(* A create that goes on to its next stage keeps all but the devices.      *)
LEMMA BuilderMoves ==
    ASSUME IInv, NEW t \in Tasks, Building(t),
           NEW s \in {"cdev_add", "device_create", "err_clear", "copy_to_user"},
           pc' = [pc EXCEPT ![t] = s],
           UNCHANGED <<memVars, tableVars, region, id, args, known, moduleVars, fileVars>>,
           cdevs' \in [Ids -> Seq(Objects)], CdevsAccounted',
           nodes' \subseteq Ids, NodesAccounted'
    PROVE  IInv'
<1>1. /\ UNCHANGED <<heap, mem, regions, id_bitmap, region, id, args, known, module,
                     control, stage, minor, cdev, private, windows>>
      /\ pc \in [Tasks -> Steps] /\ pc' \in [Tasks -> Steps]
      /\ \A u \in Tasks \ {t} : pc'[u] = pc[u]
      /\ pc'[t] = s
  BY DEF memVars, tableVars, moduleVars, fileVars, IInv, TypeOK, Steps
<1>2. TypeOK'
  BY <1>1 DEF IInv, TypeOK
<1>3. BitmapMatchesTable' /\ TableHolds' /\ IdentifiersUnique'
  BY <1>1 DEF IInv, BitmapMatchesTable, TableHolds, IdentifiersUnique
<1>4. \A u \in Tasks : /\ Building(u)' <=> Building(u)
                       /\ Holds(u)' <=> Holds(u)
                       /\ \A i \in Ids : Owns(u, i)' <=> Owns(u, i)
                       /\ \A x \in Objects : HeldBy(u, x)' <=> HeldBy(u, x)
  BY <1>1 DEF Building, Holds, Owns, HeldBy
<1>5. IdsOwnedOnce' /\ HeldOnce'
  BY <1>1, <1>4 DEF IInv, IdsOwnedOnce, HeldOnce
<1>6. HandlerKnows'
  <2> SUFFICES ASSUME NEW u \in Tasks PROVE Knows(u)'
    BY DEF HandlerKnows
  <2>1. Knows(u)
    BY DEF IInv, HandlerKnows
  <2> QED BY <2>1, <1>1, <1>4 DEF Knows, Opened, Building
<1>7. FilesHold' /\ RangesFit' /\ MappedInsideRegion'
  BY <1>1 DEF IInv, FilesHold, RangesFit, MappedInsideRegion
<1>8. ASSUME NEW x \in heap PROVE Counted(x)' /\ Reachable(x)'
  <2>1. x \in Objects /\ Counted(x) /\ Reachable(x)
    BY DEF IInv, TypeOK, ReferencesCounted, NothingLeaked
  <2>2. (Kept(x)' <=> Kept(x)) /\ Opened(x)' = Opened(x)
    BY <2>1, <1>1, <1>4 DEF Kept, Opened
  <2> QED BY <2>1, <2>2, <1>1, <1>4 DEF Counted, Reachable
<1>9. ReferencesCounted' /\ NothingLeaked'
  BY <1>1, <1>8 DEF ReferencesCounted, NothingLeaked
<1>10. Unloaded'
  <2>1. module = "ready"
    BY DEF IInv, Unloaded, Building
  <2> QED BY <2>1, <1>1 DEF Unloaded
<1> QED BY <1>2, <1>3, <1>5, <1>6, <1>7, <1>9, <1>10 DEF IInv

(* What a create knows of the id and the object it has put into the table. *)
LEMMA BuilderKnows ==
    ASSUME IInv, NEW t \in Tasks, Building(t)
    PROVE  /\ id[t] \in Ids /\ region[t] \in Objects /\ regions[id[t]] = region[t]
           /\ mem[region[t]].id = id[t] /\ mem[region[t]].alive /\ region[t] \in heap
           /\ id[t] \notin known
           /\ \A u \in Tasks : ~(Owns(u, id[t]) /\ u # t)
           /\ \A i \in Ids : regions[i] = region[t] => i = id[t]
           /\ \A u \in Tasks : Holds(u) => region[u] # region[t]
           /\ module = "ready"
<1>1. id[t] \in Ids /\ regions[id[t]] = region[t] /\ Owns(t, id[t])
  BY DEF IInv, HandlerKnows, Knows, Owns
<1>2. /\ regions[id[t]] # Null /\ id[t] \notin known
      /\ \A u \in Tasks : ~(Owns(u, id[t]) /\ u # t)
  BY <1>1 DEF IInv, IdsOwnedOnce
<1>3. \A i \in Ids : regions[i] # Null =>
         regions[i] \in heap /\ mem[regions[i]].id = i /\ mem[regions[i]].alive
  BY DEF IInv, TableHolds
<1>4. region[t] \in Objects
  BY <1>1, <1>2 DEF IInv, TypeOK
<1>5. \A u \in Tasks : Holds(u) => region[u] # region[t]
  BY <1>1 DEF IInv, HandlerKnows, Knows
<1>6. module = "ready"
  BY DEF IInv, Unloaded, Building
<1> QED BY <1>1, <1>2, <1>3, <1>4, <1>5, <1>6

(* cdev_add: the cdev of the new region is there, or the create turns to   *)
(* its error path with the slot still its own.                             *)
LEMMA CdevAddStep ==
    ASSUME IInv, NEW t \in Tasks, CdevAdd(t), UNCHANGED <<moduleVars, fileVars>>
    PROVE  IInv'
<1> DEFINE i == id[t]
           x == region[t]
<1>1. /\ pc[t] = "cdev_add" /\ Building(t)
      /\ UNCHANGED <<memVars, tableVars, region, id, args, known, nodes, regions>>
  BY DEF CdevAdd, Building, tableVars
<1>2. /\ i \in Ids /\ x \in Objects /\ regions[i] = x
      /\ \A u \in Tasks : ~(Owns(u, i) /\ u # t)
      /\ \A j \in Ids : regions[j] = x => j = i
      /\ \A u \in Tasks : Holds(u) => region[u] # x
  BY <1>1, BuilderKnows
<1>3. PICK s \in {"device_create", "err_clear"} :
         /\ pc' = [pc EXCEPT ![t] = s]
         /\ cdevs' = IF s = "device_create" THEN [cdevs EXCEPT ![i] = <<x>> \o cdevs[i]] ELSE cdevs
  BY DEF CdevAdd, Goto
<1>4. \A u \in Tasks : u # t => pc'[u] = pc[u] /\ ~(id[u] = i /\ Building(u))
  BY <1>2, <1>3 DEF IInv, TypeOK, Owns
<1>5. pc'[t] = s
  BY <1>3 DEF IInv, TypeOK
<1>6. NodesAccounted'
  <2>1. \A u \in Tasks, j \in Ids : /\ NodeOwner(u, j)' <=> NodeOwner(u, j)
                                    /\ Unfinished(u, j)' <=> Unfinished(u, j)
    BY <1>1, <1>3, <1>4, <1>5 DEF NodeOwner, Unfinished
  <2> QED BY <1>1, <2>1, NodesKept DEF IInv
<1>7. CdevsAccounted' /\ cdevs' \in [Ids -> Seq(Objects)]
  <2>1. cdevs \in [Ids -> Seq(Objects)] /\ cdevs[i] \in Seq(Objects)
    BY <1>2 DEF IInv, TypeOK
  <2>2. PICK l \in Seq(Objects) :
           l = <<x>> \o cdevs[i] /\ Len(l) = Len(cdevs[i]) + 1
    BY <1>2, <2>1, ListMoves
  <2>3. ASSUME NEW j \in Ids PROVE CdevsCounted(j)'
    <3>1. CdevsCounted(j) /\ \A u \in Tasks : CdevOwner(u, j)' <=> CdevOwner(u, j)
      BY <1>1, <1>3, <1>4, <1>5 DEF IInv, CdevsAccounted, CdevOwner
    <3>2. CASE j = i
      <4>1. Bare(t, j) /\ \A u \in Tasks : u # t => ~Bare(u, j) /\ ~Bare(u, j)'
        BY <3>2, <1>1, <1>4 DEF Bare, Building
      <4>2. Bare(t, j)' <=> s = "err_clear"
        BY <3>2, <1>1, <1>3, <1>5 DEF Bare
      <4>3. ~Added(j) /\ (Added(j)' <=> s = "device_create")
        BY <4>1, <4>2, <3>2, <1>1, <1>2, DriverAssumption DEF Added
      <4>4. CdevOwners(j)' = CdevOwners(j)
        BY <3>1 DEF CdevOwners
      <4>5. Len(cdevs'[j]) = Len(cdevs[j]) + IF s = "device_create" THEN 1 ELSE 0
        <5>1. cdevs'[i] = IF s = "device_create" THEN l ELSE cdevs[i]
          BY <2>1, <2>2, <1>2, <1>3
        <5>2. Len(cdevs[i]) \in Nat
          BY <2>1
        <5>3. Len(l) = Len(cdevs[j]) + 1 /\ Len(cdevs[j]) \in Nat
          BY <5>2, <3>2, <2>2
        <5>4. CASE s = "device_create"
          BY <5>1, <5>3, <5>4, <3>2
        <5>5. CASE s = "err_clear"
          BY <5>1, <5>3, <5>5, <3>2
        <5> QED BY <5>4, <5>5
      <4> HIDE DEF i, x
      <4> QED BY <4>3, <4>4, <4>5, <3>1, OwnersFinite DEF CdevsCounted
    <3>3. CASE j # i
      <4>1. \A u \in Tasks : Bare(u, j)' <=> Bare(u, j)
        BY <3>3, <1>1, <1>3, <1>4, <1>5 DEF Bare
      <4>2. cdevs'[j] = cdevs[j] /\ regions'[j] = regions[j]
        BY <3>3, <2>1, <1>1, <1>3
      <4> QED BY <4>1, <4>2, <3>1, CountKept
    <3> QED BY <3>2, <3>3
  <2>4. CdevsAccounted'
    BY <2>3 DEF CdevsAccounted, Ids
  <2> QED BY <2>1, <2>2, <2>4, <1>2, <1>3
<1>8. nodes' \subseteq Ids
  BY <1>1 DEF IInv, TypeOK
<1> QED BY <1>1, <1>3, <1>6, <1>7, <1>8, BuilderMoves

(* device_create: the mapping has its node, or cdev_del is next and the    *)
(* cdev goes with the failure.                                             *)
LEMMA DeviceCreateStep ==
    ASSUME IInv, NEW t \in Tasks, DeviceCreate(t), UNCHANGED <<moduleVars, fileVars>>
    PROVE  IInv'
<1> DEFINE i == id[t]
           x == region[t]
<1>1. /\ pc[t] = "device_create" /\ Building(t)
      /\ UNCHANGED <<memVars, tableVars, region, id, args, known, regions>>
  BY DEF DeviceCreate, Building, tableVars
<1>2. /\ i \in Ids /\ x \in Objects /\ regions[i] = x
      /\ \A u \in Tasks : ~(Owns(u, i) /\ u # t)
      /\ \A j \in Ids : regions[j] = x => j = i
      /\ \A u \in Tasks : Holds(u) => region[u] # x
  BY <1>1, BuilderKnows
<1>3. PICK s \in {"copy_to_user", "err_clear"} :
         /\ pc' = [pc EXCEPT ![t] = s]
         /\ s = "copy_to_user" => i \notin nodes
         /\ nodes' = IF s = "copy_to_user" THEN nodes \cup {i} ELSE nodes
         /\ cdevs' = IF s = "err_clear" THEN NewestGone(i) ELSE cdevs
  BY DEF DeviceCreate, Goto
<1>4. \A u \in Tasks : u # t => pc'[u] = pc[u] /\ ~(id[u] = i /\ Building(u))
  BY <1>2, <1>3 DEF IInv, TypeOK, Owns
<1>5. pc'[t] = s
  BY <1>3 DEF IInv, TypeOK
<1>6. NodesAccounted'
  <2> SUFFICES ASSUME NEW j \in Ids
               PROVE  /\ j \in nodes' <=> Finished(j)' \/ \E u \in Tasks : NodeOwner(u, j)'
                      /\ Finished(j)' => \A u \in Tasks : ~NodeOwner(u, j)'
                      /\ \A u, v \in Tasks : NodeOwner(u, j)' /\ NodeOwner(v, j)' => u = v
    BY DEF NodesAccounted, Ids
  <2>1. \A u \in Tasks : NodeOwner(u, j)' <=> NodeOwner(u, j)
    BY <1>1, <1>3, <1>4, <1>5 DEF NodeOwner
  <2>2. /\ j \in nodes <=> Finished(j) \/ \E u \in Tasks : NodeOwner(u, j)
        /\ Finished(j) => \A u \in Tasks : ~NodeOwner(u, j)
        /\ \A u, v \in Tasks : NodeOwner(u, j) /\ NodeOwner(v, j) => u = v
    BY DEF IInv, NodesAccounted
  <2>3. CASE j = i
    <3>1. ~Finished(j)
      BY <2>3, <1>1 DEF Finished, Unfinished
    <3>2. Finished(j)' <=> s = "copy_to_user"
      BY <2>3, <1>1, <1>2, <1>3, <1>4, <1>5, DriverAssumption DEF Finished, Unfinished, Building
    <3> QED BY <2>1, <2>2, <2>3, <3>1, <3>2, <1>3
  <2>4. CASE j # i
    <3>1. Finished(j)' <=> Finished(j)
      BY <2>4, <1>1, <1>3, <1>4, <1>5 DEF Finished, Unfinished
    <3> QED BY <2>1, <2>2, <2>4, <3>1, <1>3
  <2> QED BY <2>3, <2>4
<1>7. CdevsAccounted' /\ cdevs' \in [Ids -> Seq(Objects)]
  <2>1. cdevs \in [Ids -> Seq(Objects)] /\ Len(cdevs[i]) \in Nat
    BY <1>2 DEF IInv, TypeOK
  <2>2. \A u \in Tasks : ~Bare(u, i) /\ (u # t => ~Bare(u, i)')
    BY <1>1, <1>4 DEF Bare, Building
  <2>3. Added(i) /\ CdevsCounted(i)
    BY <2>2, <1>2, DriverAssumption DEF Added, IInv, CdevsAccounted
  <2>4. Len(cdevs[i]) > 0
    BY <2>3, OwnersFinite DEF CdevsCounted
  <2>5. /\ NewestGone(i) \in [Ids -> Seq(Objects)]
        /\ Len(NewestGone(i)[i]) = Len(cdevs[i]) - 1
        /\ \A j \in Ids : j # i => NewestGone(i)[j] = cdevs[j]
    BY <2>1, <2>4, <1>2, NewestGoes
  <2>6. ASSUME NEW j \in Ids PROVE CdevsCounted(j)'
    <3>1. CdevsCounted(j) /\ \A u \in Tasks : CdevOwner(u, j)' <=> CdevOwner(u, j)
      BY <1>1, <1>3, <1>4, <1>5 DEF IInv, CdevsAccounted, CdevOwner
    <3>2. CASE j = i
      <4>1. Bare(t, j)' <=> s = "err_clear"
        BY <3>2, <1>1, <1>3, <1>5 DEF Bare
      <4>2. Added(j)' <=> s = "copy_to_user"
        BY <4>1, <3>2, <2>2, <1>1, <1>2, DriverAssumption DEF Added
      <4>3. CdevOwners(j)' = CdevOwners(j)
        BY <3>1 DEF CdevOwners
      <4>4. Len(cdevs'[j]) = Len(cdevs[j]) - IF s = "err_clear" THEN 1 ELSE 0
        BY <3>2, <2>1, <2>5, <1>3
      <4>5. Added(j) /\ Len(cdevs[j]) \in Nat
        BY <3>2, <2>1, <2>3
      <4> HIDE DEF i, x
      <4> QED BY <4>2, <4>3, <4>4, <4>5, <3>1, OwnersFinite DEF CdevsCounted
    <3>3. CASE j # i
      <4>1. \A u \in Tasks : Bare(u, j)' <=> Bare(u, j)
        BY <3>3, <1>1, <1>3, <1>4, <1>5 DEF Bare
      <4>2. cdevs'[j] = cdevs[j] /\ regions'[j] = regions[j]
        BY <3>3, <2>5, <1>1, <1>3
      <4> QED BY <4>1, <4>2, <3>1, CountKept
    <3> QED BY <3>2, <3>3
  <2>7. CdevsAccounted'
    BY <2>6 DEF CdevsAccounted, Ids
  <2> QED BY <2>1, <2>5, <2>7, <1>3
<1>8. nodes' \subseteq Ids
  BY <1>1, <1>2, <1>3 DEF IInv, TypeOK
<1> QED BY <1>1, <1>3, <1>6, <1>7, <1>8, BuilderMoves

(* Clearing the flag of an object changes nothing else of it.              *)
LEMMA FlagCleared ==
    ASSUME mem \in [Objects -> Region], NEW x \in Objects,
           mem' = [mem EXCEPT ![x].alive = FALSE]
    PROVE  /\ mem' \in [Objects -> Region]
           /\ \A y \in Objects : /\ mem'[y].refs = mem[y].refs
                                 /\ mem'[y].phys_addr = mem[y].phys_addr
                                 /\ mem'[y].size = mem[y].size
                                 /\ mem'[y].identifier = mem[y].identifier
                                 /\ mem'[y].id = mem[y].id
                                 /\ y # x => mem'[y] = mem[y]
BY DEF Region

(* Neither does a new count.                                               *)
LEMMA CountChanged ==
    ASSUME mem \in [Objects -> Region], NEW x \in Objects, NEW n \in Int,
           mem' = [mem EXCEPT ![x].refs = n]
    PROVE  /\ mem' \in [Objects -> Region]
           /\ mem'[x].refs = n
           /\ \A y \in Objects : /\ mem'[y].alive = mem[y].alive
                                 /\ mem'[y].phys_addr = mem[y].phys_addr
                                 /\ mem'[y].size = mem[y].size
                                 /\ mem'[y].identifier = mem[y].identifier
                                 /\ mem'[y].id = mem[y].id
                                 /\ y # x => mem'[y] = mem[y]
BY DEF Region

(* An identifier that is not in use is not that of any mapping.            *)
LEMMA IdentifierFree ==
    ASSUME IInv, NEW identifier, ~IdentifierExists(identifier)
    PROVE  \A i \in Ids : regions[i] # Null => mem[regions[i]].identifier # identifier
BY DEF IInv, TableHolds, IdentifierExists

(* The id that a create takes is one of the table's and not in use.        *)
LEMMA FreeId ==
    ASSUME BitmapMatchesTable, ~Full
    PROVE  FirstZeroBit \in Ids /\ FirstZeroBit \notin id_bitmap /\ regions[FirstZeroBit] = Null
<1>1. ~(Ids \subseteq id_bitmap)
  BY DriverAssumption DEF Full, FirstZeroBit
<1>2. Min(Ids \ id_bitmap) \in Ids \ id_bitmap
  <2>1. Ids \ id_bitmap \in SUBSET Nat /\ Ids \ id_bitmap # {}
    BY <1>1 DEF Ids
  <2> QED BY <2>1, MinMember
<1> QED BY <1>1, <1>2 DEF FirstZeroBit, BitmapMatchesTable

(* A create that is refused under the lock gives its object back.          *)
LEMMA PublishRefused ==
    ASSUME IInv, NEW t \in Tasks, pc[t] = "publish", heap' = heap \ {region[t]}, Return(t),
           UNCHANGED <<mem, tableVars, kernelVars, known, moduleVars, fileVars>>
    PROVE  IInv'
<1> DEFINE x == region[t]
<1>1. /\ pc' = [pc EXCEPT ![t] = "idle"] /\ region' = [region EXCEPT ![t] = Null]
      /\ id' = [id EXCEPT ![t] = 0] /\ args' = [args EXCEPT ![t] = Null]
      /\ UNCHANGED <<mem, regions, id_bitmap, cdevs, nodes, known, module, control,
                     stage, minor, cdev, private, windows>>
  BY DEF Return, Goto, tableVars, kernelVars, moduleVars, fileVars
<1>2. TypeOK'
  BY <1>1, DriverAssumption DEF IInv, TypeOK, Steps
<1>3. /\ Knows(t) /\ Holds(t) /\ x \in heap /\ x \in Objects
      /\ \A i \in Ids : regions[i] # x
      /\ \A f \in Files : private[f] # x
      /\ \A u \in Tasks : Holds(u) /\ u # t => region[u] # x
  <2>1. Knows(t) /\ Holds(t)
    BY DEF IInv, HandlerKnows, Holds
  <2>2. x \in heap /\ Opened(x) = {} /\ \A i \in Ids : regions[i] # x
    BY <2>1 DEF Knows
  <2> QED BY <2>1, <2>2 DEF IInv, TypeOK, HeldOnce, Opened
<1>4. \A u \in Tasks : u # t => /\ pc'[u] = pc[u] /\ id'[u] = id[u]
                                /\ region'[u] = region[u] /\ args'[u] = args[u]
  BY <1>1 DEF IInv, TypeOK
<1>5. pc'[t] = "idle" /\ region'[t] = Null
  BY <1>1 DEF IInv, TypeOK
<1>6. BitmapMatchesTable' /\ TableHolds' /\ IdentifiersUnique' /\ FilesHold'
  BY <1>1, <1>3 DEF IInv, BitmapMatchesTable, TableHolds, IdentifiersUnique, FilesHold
<1>7. IdsOwnedOnce' /\ HeldOnce'
  BY <1>1, <1>4, <1>5 DEF IInv, IdsOwnedOnce, Owns, Building, HeldOnce, Holds
<1>8. HandlerKnows'
  <2> SUFFICES ASSUME NEW u \in Tasks PROVE Knows(u)'
    BY DEF HandlerKnows
  <2>1. Knows(u)
    BY DEF IInv, HandlerKnows
  <2> QED BY <2>1, <1>1, <1>3, <1>4, <1>5 DEF Knows, Holds, Building, Opened
<1>9. ASSUME NEW y \in heap' PROVE Counted(y)' /\ Reachable(y)'
  <2>1. y \in heap /\ y # x /\ Counted(y) /\ Reachable(y)
    BY <1>9 DEF IInv, ReferencesCounted, NothingLeaked
  <2>2. \A u \in Tasks : HeldBy(u, y)' <=> HeldBy(u, y)
    BY <2>1, <1>4, <1>5 DEF HeldBy
  <2>3. (Kept(y)' <=> Kept(y)) /\ Opened(y)' = Opened(y)
    BY <2>2, <1>1 DEF Kept, Opened
  <2>4. Reachable(y)'
    BY <2>1, <2>3, <1>1, <1>4 DEF Reachable, Holds
  <2> QED BY <2>1, <2>3, <2>4, <1>1 DEF Counted
<1>10. ReferencesCounted' /\ NothingLeaked'
  BY <1>9 DEF ReferencesCounted, NothingLeaked
<1>11. CdevsAccounted' /\ NodesAccounted'
  <2>1. \A u \in Tasks, i \in Ids : /\ Bare(u, i)' <=> Bare(u, i)
                                    /\ NodeOwner(u, i)' <=> NodeOwner(u, i)
                                    /\ Unfinished(u, i)' <=> Unfinished(u, i)
    BY <1>4, <1>5 DEF Bare, NodeOwner, Unfinished
  <2>2. \A u \in Tasks, i \in Ids : CdevOwner(u, i)' <=> CdevOwner(u, i)
    BY <1>4, <1>5 DEF CdevOwner
  <2> QED BY <1>1, <2>1, <2>2, CdevsKept, NodesKept DEF IInv
<1>12. RangesFit' /\ MappedInsideRegion'
  <2>1. \A f \in Files : private[f] \in heap => private[f] \in heap'
    BY <1>3
  <2> QED BY <2>1, <1>1 DEF IInv, RangesFit, MappedInsideRegion
<1>13. Unloaded'
  <2>1. module = "ready"
    BY DEF IInv, Unloaded
  <2> QED BY <2>1, <1>1 DEF Unloaded
<1> QED
  BY <1>2, <1>6, <1>7, <1>8, <1>10, <1>11, <1>12, <1>13 DEF IInv

(* A create that finds a place puts its region into the table.             *)
LEMMA PublishInserts ==
    ASSUME IInv, NEW t \in Tasks, pc[t] = "publish",
           ~IdentifierExists(args[t].identifier), ~Full, Publish(t),
           UNCHANGED <<moduleVars, fileVars>>
    PROVE  IInv'
<1> DEFINE i == FirstZeroBit
           x == region[t]
           r == [refs |-> 1, phys_addr |-> args[t].phys_addr, size |-> args[t].size,
                 identifier |-> args[t].identifier, id |-> i, alive |-> TRUE]
<1>1. /\ regions' = [regions EXCEPT ![i] = x] /\ id_bitmap' = id_bitmap \cup {i}
      /\ mem' = [mem EXCEPT ![x] = r] /\ id' = [id EXCEPT ![t] = i]
      /\ pc' = [pc EXCEPT ![t] = "cdev_add"]
      /\ UNCHANGED <<heap, region, args, cdevs, nodes, known, module, control,
                     stage, minor, cdev, private, windows>>
  BY DEF Publish, Goto, kernelVars, moduleVars, fileVars
<1>2. i \in Ids /\ i \in Nat /\ regions[i] = Null
  BY FreeId DEF IInv, Ids
<1> HIDE DEF i
<1>3. /\ Knows(t) /\ Holds(t) /\ x \in heap /\ x \in Objects
      /\ \A j \in Ids : regions[j] # x
      /\ \A f \in Files : private[f] # x
      /\ Opened(x) = {}
      /\ \A u \in Tasks : Holds(u) /\ u # t => region[u] # x
  <2>1. Knows(t) /\ Holds(t)
    BY DEF IInv, HandlerKnows, Holds
  <2>2. x \in heap /\ Opened(x) = {} /\ \A j \in Ids : regions[j] # x
    BY <2>1 DEF Knows
  <2> QED BY <2>1, <2>2 DEF IInv, TypeOK, HeldOnce, Opened
<1>4. /\ args[t] \in CreateRequest /\ ValidCreate(args[t])
      /\ r \in Region /\ r.phys_addr + r.size <= MaxAddress + 1
  <2>1. args[t] \in CreateRequest /\ ValidCreate(args[t])
    BY <1>3, DriverAssumption DEF Knows
  <2>2. r \in Region
    BY <2>1, <1>2 DEF CreateRequest, Region
  <2>3. args[t].phys_addr + args[t].size <= MaxAddress + 1
    BY <2>1, DriverAssumption DEF CreateRequest, ValidCreate
  <2> QED BY <2>1, <2>2, <2>3
<1>5. mem'[x] = r /\ \A y \in Objects : y # x => mem'[y] = mem[y]
  BY <1>1, <1>3 DEF IInv, TypeOK
<1>6. r.refs = 1 /\ r.id = i /\ r.alive /\ r.identifier = args[t].identifier
  OBVIOUS
<1> HIDE DEF r
<1>7. TypeOK'
  <2>1. mem' \in [Objects -> Region] /\ \A y \in Objects : mem'[y].refs >= 0
    BY <1>1, <1>3, <1>4, <1>5, <1>6 DEF IInv, TypeOK
  <2>2. i \in 0..MaxMappings
    BY <1>2, DriverAssumption DEF Ids
  <2> QED BY <2>1, <2>2, <1>1, <1>2, <1>3 DEF IInv, TypeOK, Steps
<1>8. \A u \in Tasks : u # t => /\ pc'[u] = pc[u] /\ id'[u] = id[u]
                                /\ ~Owns(u, i) /\ (~Building(u) \/ id[u] # i)
  BY <1>1, <1>2 DEF IInv, TypeOK, IdsOwnedOnce, Owns
<1>9. pc'[t] = "cdev_add" /\ id'[t] = i
  BY <1>1 DEF IInv, TypeOK
<1>10. /\ regions'[i] = x /\ \A j \in Ids : j # i => regions'[j] = regions[j]
       /\ x # Null
  BY <1>1, <1>2, <1>3, DriverAssumption DEF IInv, TypeOK
<1>11. BitmapMatchesTable' /\ TableHolds' /\ FilesHold'
  <2>1. BitmapMatchesTable'
    BY <1>1, <1>2, <1>10 DEF IInv, BitmapMatchesTable, Ids
  <2>2. TableHolds'
    <3> SUFFICES ASSUME NEW j \in Ids, regions'[j] # Null
                 PROVE  /\ regions'[j] \in heap /\ mem'[regions'[j]].id = j
                        /\ mem'[regions'[j]].alive
      BY <1>1 DEF TableHolds, Ids
    <3>1. CASE j = i
      BY <3>1, <1>3, <1>5, <1>6, <1>10
    <3>2. CASE j # i
      BY <3>2, <1>3, <1>5, <1>10 DEF IInv, TypeOK, TableHolds
    <3> QED BY <3>1, <3>2
  <2> QED BY <2>1, <2>2, <1>1 DEF IInv, FilesHold
<1>12. IdentifiersUnique'
  <2>1. \A j \in Ids : regions[j] # Null => mem[regions[j]].identifier # r.identifier
    BY <1>6, IdentifierFree
  <2>2. \A j \in Ids : j # i /\ regions[j] # Null => mem'[regions[j]] = mem[regions[j]]
    BY <1>3, <1>5 DEF IInv, TypeOK
  <2> QED BY <2>1, <2>2, <1>5, <1>10 DEF IInv, IdentifiersUnique, Ids
<1>13. IdsOwnedOnce'
  <2>1. i \notin known
    BY <1>2 DEF IInv, IdsOwnedOnce
  <2>2. \A u \in Tasks, j \in Ids : u # t => (Owns(u, j)' <=> Owns(u, j))
    BY <1>8 DEF Owns, Building
  <2>3. \A j \in Ids : Owns(t, j)' <=> j = i
    BY <1>9 DEF Owns, Building
  <2>4. \A u \in Tasks : ~(u # t /\ Owns(u, i))
    BY <1>2 DEF IInv, IdsOwnedOnce
  <2>5. \A u \in Tasks, j \in Ids : Owns(u, j)' => (u = t /\ j = i) \/ (j # i /\ Owns(u, j))
    BY <2>2, <2>3, <2>4
  <2>6. \A u, v \in Tasks, j \in Ids : Owns(u, j)' /\ Owns(v, j)' => u = v
    BY <2>5 DEF IInv, IdsOwnedOnce
  <2>7. \A u \in Tasks, j \in Ids : Owns(u, j)' => regions'[j] # Null /\ j \notin known
    BY <2>1, <2>5, <1>10 DEF IInv, IdsOwnedOnce
  <2>8. \A j \in known : regions'[j] # Null
    BY <1>10 DEF IInv, TypeOK, IdsOwnedOnce
  <2> QED BY <2>6, <2>7, <2>8, <1>1 DEF IdsOwnedOnce, Ids
<1>14. HandlerKnows'
  <2> SUFFICES ASSUME NEW u \in Tasks PROVE Knows(u)'
    BY DEF HandlerKnows
  <2>1. CASE u = t
    BY <2>1, <1>1, <1>2, <1>9, <1>10 DEF Knows, Holds, Building, Ids
  <2>2. CASE u # t
    <3>1. Knows(u) /\ pc'[u] = pc[u] /\ id'[u] = id[u]
      BY <2>2, <1>8 DEF IInv, HandlerKnows
    <3>2. Building(u) => id[u] # i /\ regions'[id[u]] = region[u]
      BY <3>1, <2>2, <1>2, <1>10 DEF Knows, IInv, IdsOwnedOnce, Owns
    <3>3. Holds(u) => /\ region[u] \in heap /\ mem'[region[u]] = mem[region[u]]
                      /\ \A j \in Ids : regions'[j] # region[u]
      BY <3>1, <2>2, <1>3, <1>5, <1>10 DEF Knows, IInv, TypeOK
    <3> QED BY <3>1, <3>2, <3>3, <1>1 DEF Knows, Holds, Building, Opened, Ids
  <2> QED BY <2>1, <2>2
<1>15. HeldOnce'
  BY <1>1, <1>8, <1>9 DEF IInv, HeldOnce, Holds
<1>16. ASSUME NEW y \in heap PROVE Counted(y)' /\ Reachable(y)'
  <2>1. y \in Objects /\ Counted(y) /\ Reachable(y) /\ Opened(y)' = Opened(y)
    BY <1>1 DEF IInv, TypeOK, ReferencesCounted, NothingLeaked, Opened
  <2>2. CASE y = x
    <3>1. Kept(y)' /\ Reachable(y)'
      BY <2>2, <1>2, <1>10 DEF Kept, Reachable, Ids
    <3>2. Cardinality(Opened(y)) = 0
      BY <2>2, <1>3, FS_EmptySet
    <3> QED BY <2>1, <2>2, <3>1, <3>2, <1>5, <1>6 DEF Counted
  <2>3. CASE y # x
    <3>1. \A u \in Tasks : HeldBy(u, y)' <=> HeldBy(u, y)
      BY <2>3, <1>1, <1>8, <1>9 DEF HeldBy
    <3>2. (\E j \in Ids : regions'[j] = y) <=> (\E j \in Ids : regions[j] = y)
      BY <2>1, <2>3, <1>2, <1>10, DriverAssumption
    <3>3. Kept(y)' <=> Kept(y)
      BY <3>1, <3>2 DEF Kept, Ids
    <3>4. Reachable(y)'
      BY <2>1, <2>3, <3>2, <1>1, <1>8 DEF Reachable, Holds, Ids
    <3> QED BY <2>1, <2>3, <3>3, <3>4, <1>5 DEF Counted
  <2> QED BY <2>2, <2>3
<1>17. ReferencesCounted' /\ NothingLeaked'
  BY <1>1, <1>16 DEF ReferencesCounted, NothingLeaked
<1>18. CdevsAccounted'
  <2> SUFFICES ASSUME NEW j \in Ids PROVE CdevsCounted(j)'
    BY DEF CdevsAccounted, Ids
  <2>1. CdevsCounted(j) /\ \A u \in Tasks : CdevOwner(u, j)' <=> CdevOwner(u, j)
    BY <1>1, <1>8, <1>9 DEF IInv, CdevsAccounted, CdevOwner
  <2>2. CASE j = i
    <3>1. Bare(t, j)' /\ regions[j] = Null
      BY <2>2, <1>2, <1>9 DEF Bare
    <3>2. ~Added(j) /\ ~Added(j)'
      BY <3>1 DEF Added
    <3>3. CdevOwners(j)' = CdevOwners(j)
      BY <2>1 DEF CdevOwners
    <3> QED BY <2>1, <3>2, <3>3, <1>1 DEF CdevsCounted
  <2>3. CASE j # i
    <3>1. \A u \in Tasks : Bare(u, j)' <=> Bare(u, j)
      BY <2>3, <1>8, <1>9 DEF Bare
    <3> QED BY <2>1, <2>3, <3>1, <1>1, <1>10, CountKept
  <2> QED BY <2>2, <2>3
<1>19. NodesAccounted'
  <2> SUFFICES ASSUME NEW j \in Ids
               PROVE  /\ j \in nodes <=> Finished(j)' \/ \E u \in Tasks : NodeOwner(u, j)'
                      /\ Finished(j)' => \A u \in Tasks : ~NodeOwner(u, j)'
                      /\ \A u, v \in Tasks : NodeOwner(u, j)' /\ NodeOwner(v, j)' => u = v
    BY <1>1 DEF NodesAccounted, Ids
  <2>1. \A u \in Tasks : NodeOwner(u, j)' <=> NodeOwner(u, j)
    BY <1>8, <1>9 DEF NodeOwner
  <2>2. /\ j \in nodes <=> Finished(j) \/ \E u \in Tasks : NodeOwner(u, j)
        /\ Finished(j) => \A u \in Tasks : ~NodeOwner(u, j)
        /\ \A u, v \in Tasks : NodeOwner(u, j) /\ NodeOwner(v, j) => u = v
    BY DEF IInv, NodesAccounted
  <2>3. Finished(j)' <=> Finished(j)
    <3>1. CASE j = i
      BY <3>1, <1>2, <1>9 DEF Finished, Unfinished
    <3>2. CASE j # i
      BY <3>2, <1>8, <1>9, <1>10 DEF Finished, Unfinished
    <3> QED BY <3>1, <3>2
  <2> QED BY <2>1, <2>2, <2>3
<1>20. RangesFit' /\ MappedInsideRegion'
  BY <1>1, <1>3, <1>4, <1>5 DEF IInv, TypeOK, RangesFit, MappedInsideRegion
<1>21. Unloaded'
  <2>1. module = "ready"
    BY DEF IInv, Unloaded
  <2> QED BY <2>1, <1>1 DEF Unloaded
<1> QED
  BY <1>7, <1>11, <1>12, <1>13, <1>14, <1>15, <1>17, <1>18, <1>19, <1>20, <1>21 DEF IInv

(* The section under the lock in which a create takes an id: it is refused *)
(* or its region is inserted.                                              *)
LEMMA PublishStep ==
    ASSUME IInv, NEW t \in Tasks, Publish(t), UNCHANGED <<moduleVars, fileVars>>
    PROVE  IInv'
<1>1. CASE IdentifierExists(args[t].identifier) \/ Full
  BY <1>1, PublishRefused DEF Publish
<1>2. CASE ~IdentifierExists(args[t].identifier) /\ ~Full
  BY <1>2, PublishInserts DEF Publish
<1> QED BY <1>1, <1>2

(* The owner of an id takes its region out of the table and holds it from  *)
(* then on.  A create that failed has no devices left, a destroy has both  *)
(* still to remove.                                                        *)
LEMMA TakenOut ==
    ASSUME IInv, NEW t \in Tasks, NEW i \in Ids, NEW x \in Objects, NEW s,
           Owns(t, i), regions[i] = x, ClearSlot(i, x),
           pc' = [pc EXCEPT ![t] = s], region' = [region EXCEPT ![t] = x],
           \/ pc[t] = "err_clear" /\ s = "put"
           \/ pc[t] = "unpublish" /\ s = "device_destroy",
           UNCHANGED <<heap, kernelVars, id, args, known, moduleVars, fileVars>>
    PROVE  IInv'
<1>1. /\ regions' = [regions EXCEPT ![i] = Null] /\ id_bitmap' = id_bitmap \ {i}
      /\ mem' = [mem EXCEPT ![x].alive = FALSE]
      /\ UNCHANGED <<heap, cdevs, nodes, id, args, known, module, control,
                     stage, minor, cdev, private, windows>>
  BY DEF ClearSlot, kernelVars, moduleVars, fileVars
<1>2. /\ mem' \in [Objects -> Region]
      /\ \A y \in Objects : /\ mem'[y].refs = mem[y].refs
                            /\ mem'[y].phys_addr = mem[y].phys_addr
                            /\ mem'[y].size = mem[y].size
                            /\ mem'[y].identifier = mem[y].identifier
                            /\ mem'[y].id = mem[y].id
                            /\ y # x => mem'[y] = mem[y]
  BY <1>1, FlagCleared DEF IInv, TypeOK
<1>3. /\ regions'[i] = Null /\ \A j \in Ids : j # i => regions'[j] = regions[j]
      /\ x # Null /\ s \in Steps
  BY <1>1, DriverAssumption DEF IInv, TypeOK, Steps
<1>4. TypeOK'
  BY <1>1, <1>2, <1>3 DEF IInv, TypeOK
<1>5. /\ x \in heap /\ mem[x].id = i /\ i \notin known /\ id[t] = i /\ ~Holds(t)
      /\ \A j \in Ids : regions[j] = x => j = i
      /\ \A u \in Tasks : u # t => ~Owns(u, i)
      /\ \A u \in Tasks : Holds(u) => region[u] # x
  <2>1. x \in heap /\ mem[x].id = i /\ \A j \in Ids : regions[j] = x => j = i
    BY <1>3 DEF IInv, TableHolds
  <2>2. i \notin known /\ \A u \in Tasks : u # t => ~Owns(u, i)
    BY DEF IInv, IdsOwnedOnce
  <2> QED BY <2>1, <2>2 DEF IInv, HandlerKnows, Knows, Owns, Holds
<1>6. \A u \in Tasks : u # t => /\ pc'[u] = pc[u] /\ region'[u] = region[u]
                                /\ ~(id[u] = i /\ Building(u))
  BY <1>5 DEF IInv, TypeOK, Owns
<1>7. pc'[t] = s /\ region'[t] = x
  BY DEF IInv, TypeOK
<1>8. \A j \in Ids : j # i /\ regions[j] # Null => mem'[regions[j]] = mem[regions[j]]
  BY <1>2, <1>5 DEF IInv, TypeOK
<1>9. BitmapMatchesTable' /\ TableHolds' /\ IdentifiersUnique'
  <2>1. BitmapMatchesTable'
    BY <1>1, <1>3 DEF IInv, BitmapMatchesTable, Ids
  <2>2. TableHolds'
    BY <1>1, <1>3, <1>8 DEF IInv, TableHolds, Ids
  <2> QED BY <2>1, <2>2, <1>3, <1>8 DEF IInv, IdentifiersUnique, Ids
<1>10. IdsOwnedOnce'
  <2>1. \A u \in Tasks, j \in Ids : Owns(u, j)' => u # t /\ j # i /\ Owns(u, j)
    BY <1>1, <1>5, <1>6, <1>7 DEF Owns, Building
  <2>2. \A u, v \in Tasks, j \in Ids : Owns(u, j)' /\ Owns(v, j)' => u = v
    BY <2>1 DEF IInv, IdsOwnedOnce
  <2>3. \A u \in Tasks, j \in Ids : Owns(u, j)' => regions'[j] # Null /\ j \notin known
    BY <2>1, <1>3 DEF IInv, IdsOwnedOnce
  <2>4. \A j \in known : regions'[j] # Null
    BY <1>3, <1>5 DEF IInv, TypeOK, IdsOwnedOnce
  <2> QED BY <2>2, <2>3, <2>4, <1>1 DEF IdsOwnedOnce, Ids
<1>11. HandlerKnows'
  <2> SUFFICES ASSUME NEW u \in Tasks PROVE Knows(u)'
    BY DEF HandlerKnows
  <2>1. CASE u = t
    BY <2>1, <1>1, <1>2, <1>3, <1>5, <1>7 DEF Knows, Holds, Building, Ids
  <2>2. CASE u # t
    <3>1. Knows(u) /\ pc'[u] = pc[u] /\ region'[u] = region[u]
      BY <2>2, <1>6 DEF IInv, HandlerKnows
    <3>2. Building(u) => regions'[id[u]] = region[u]
      BY <3>1, <2>2, <1>3, <1>6 DEF Knows
    <3>3. Holds(u) => /\ region[u] \in heap /\ mem'[region[u]] = mem[region[u]]
                      /\ \A j \in Ids : regions'[j] # region[u]
      BY <3>1, <1>2, <1>3, <1>5, DriverAssumption DEF Knows, IInv, TypeOK
    <3> QED BY <3>1, <3>2, <3>3, <1>1 DEF Knows, Holds, Building, Opened, Ids
  <2> QED BY <2>1, <2>2
<1>12. HeldOnce' /\ FilesHold'
  BY <1>1, <1>5, <1>6, <1>7 DEF IInv, HeldOnce, Holds, FilesHold
<1>13. ASSUME NEW y \in heap PROVE Counted(y)' /\ Reachable(y)'
  <2>1. y \in Objects /\ Counted(y) /\ Reachable(y) /\ Opened(y)' = Opened(y)
    BY <1>1 DEF IInv, TypeOK, ReferencesCounted, NothingLeaked, Opened
  <2>2. CASE y = x
    <3>1. HeldBy(t, y)' /\ Reachable(y)'
      BY <2>2, <1>7 DEF HeldBy, Reachable, Holds
    <3>2. Kept(y)' /\ Kept(y)
      BY <2>2, <3>1 DEF Kept
    <3> QED BY <2>1, <3>1, <3>2, <1>2 DEF Counted
  <2>3. CASE y # x
    <3>1. \A u \in Tasks : HeldBy(u, y)' <=> HeldBy(u, y)
      BY <2>3, <1>5, <1>6, <1>7 DEF HeldBy, Holds
    <3>2. (\E j \in Ids : regions'[j] = y) <=> (\E j \in Ids : regions[j] = y)
      BY <2>1, <2>3, <1>3, DriverAssumption
    <3>3. Kept(y)' <=> Kept(y)
      BY <3>1, <3>2 DEF Kept, Ids
    <3>4. Reachable(y)'
      BY <2>1, <2>3, <3>2, <1>5, <1>6 DEF Reachable, Holds, Ids
    <3> QED BY <2>1, <3>3, <3>4, <1>2 DEF Counted
  <2> QED BY <2>2, <2>3
<1>14. ReferencesCounted' /\ NothingLeaked'
  BY <1>1, <1>13 DEF ReferencesCounted, NothingLeaked
<1>15. CdevsAccounted'
  <2> SUFFICES ASSUME NEW j \in Ids PROVE CdevsCounted(j)'
    BY DEF CdevsAccounted, Ids
  <2>1. CdevsCounted(j)
    BY DEF IInv, CdevsAccounted
  <2>2. /\ ~CdevOwner(t, j)
        /\ \A u \in Tasks : u # t => (CdevOwner(u, j)' <=> CdevOwner(u, j))
    BY <1>1, <1>6 DEF CdevOwner
  <2>3. CASE j = i
    <3>1. ~Added(j)'
      BY <2>3, <1>3 DEF Added
    <3>2. Added(j) <=> s # "put"
      <4>1. \A u \in Tasks : u # t => ~Bare(u, j)
        BY <2>3, <1>6 DEF Bare, Building
      <4>2. Bare(t, j) <=> s = "put"
        BY <2>3, <1>5 DEF Bare
      <4> QED BY <2>3, <4>1, <4>2, DriverAssumption DEF Added
    <3>3. CdevOwner(t, j)' <=> s # "put"
      BY <2>3, <1>1, <1>5, <1>7 DEF CdevOwner
    <3>4. /\ s # "put" => CdevOwners(j)' = CdevOwners(j) \cup {t} /\ t \notin CdevOwners(j)
          /\ s = "put" => CdevOwners(j)' = CdevOwners(j)
      BY <2>2, <3>3 DEF CdevOwners
    <3>5. /\ s # "put" => Cardinality(CdevOwners(j)') = Cardinality(CdevOwners(j)) + 1
          /\ Cardinality(CdevOwners(j)) \in Nat
      BY <3>4, OwnersFinite, FS_AddElement
    <3> QED BY <2>1, <3>1, <3>2, <3>4, <3>5, <1>1 DEF CdevsCounted
  <2>4. CASE j # i
    <3>1. \A u \in Tasks : Bare(u, j)' <=> Bare(u, j)
      BY <2>4, <1>1, <1>5, <1>6, <1>7 DEF Bare
    <3>2. ~CdevOwner(t, j)'
      BY <2>4, <1>1, <1>5 DEF CdevOwner
    <3> QED BY <2>1, <2>2, <2>4, <3>1, <3>2, <1>1, <1>3, CountKept
  <2> QED BY <2>3, <2>4
<1>16. NodesAccounted'
  <2> SUFFICES ASSUME NEW j \in Ids
               PROVE  /\ j \in nodes <=> Finished(j)' \/ \E u \in Tasks : NodeOwner(u, j)'
                      /\ Finished(j)' => \A u \in Tasks : ~NodeOwner(u, j)'
                      /\ \A u, v \in Tasks : NodeOwner(u, j)' /\ NodeOwner(v, j)' => u = v
    BY <1>1 DEF NodesAccounted, Ids
  <2>1. /\ j \in nodes <=> Finished(j) \/ \E u \in Tasks : NodeOwner(u, j)
        /\ Finished(j) => \A u \in Tasks : ~NodeOwner(u, j)
        /\ \A u, v \in Tasks : NodeOwner(u, j) /\ NodeOwner(v, j) => u = v
    BY DEF IInv, NodesAccounted
  <2>2. /\ ~NodeOwner(t, j)
        /\ \A u \in Tasks : u # t => (NodeOwner(u, j)' <=> NodeOwner(u, j))
    BY <1>1, <1>6 DEF NodeOwner
  <2>3. CASE j = i
    <3>1. ~Finished(j)'
      BY <2>3, <1>3 DEF Finished
    <3>2. Finished(j) <=> s = "device_destroy"
      BY <2>3, <1>3, <1>5, <1>6 DEF Finished, Unfinished, Building
    <3>3. NodeOwner(t, j)' <=> s = "device_destroy"
      BY <2>3, <1>1, <1>5, <1>7 DEF NodeOwner
    <3> QED BY <2>1, <2>2, <3>1, <3>2, <3>3
  <2>4. CASE j # i
    <3>1. Finished(j)' <=> Finished(j)
      BY <2>4, <1>1, <1>3, <1>5, <1>6, <1>7 DEF Finished, Unfinished
    <3>2. ~NodeOwner(t, j)'
      BY <2>4, <1>1, <1>5 DEF NodeOwner
    <3> QED BY <2>1, <2>2, <3>1, <3>2
  <2> QED BY <2>3, <2>4
<1>17. RangesFit' /\ MappedInsideRegion'
  <2>1. \A f \in Files : private[f] \in heap => private[f] \in Objects
    BY DEF IInv, TypeOK
  <2> QED BY <2>1, <1>1, <1>2 DEF IInv, RangesFit, MappedInsideRegion
<1>18. Unloaded'
  <2>1. module = "ready"
    BY DEF IInv, Unloaded
  <2> QED BY <2>1, <1>1 DEF Unloaded
<1> QED
  BY <1>4, <1>9, <1>10, <1>11, <1>12, <1>14, <1>15, <1>16, <1>17, <1>18 DEF IInv

(* A create that failed clears the slot it filled, which nobody else has   *)
(* cleared in between.                                                     *)
LEMMA ErrClearStep ==
    ASSUME IInv, NEW t \in Tasks, ErrClear(t), UNCHANGED <<moduleVars, fileVars>>
    PROVE  IInv'
<1>1. pc[t] = "err_clear" /\ Building(t) /\ pc' = [pc EXCEPT ![t] = "put"]
  BY DEF ErrClear, Building, Goto
<1>2. /\ id[t] \in Ids /\ region[t] \in Objects /\ regions[id[t]] = region[t]
      /\ Owns(t, id[t])
  BY <1>1, BuilderKnows DEF Owns
<1>3. region' = [region EXCEPT ![t] = region[t]]
  BY DEF ErrClear, IInv, TypeOK
<1> QED BY <1>1, <1>2, <1>3, TakenOut DEF ErrClear

(* A handler that neither holds a region nor has devices to make, before   *)
(* or after the step, keeps all but the ownership of ids.                  *)
LEMMA OutsideMoves ==
    ASSUME IInv, NEW t \in Tasks, module = "ready",
           pc[t] \in {"idle", "copy_to_user", "unpublish"},
           NEW s \in {"idle", "unpublish"}, pc' = [pc EXCEPT ![t] = s],
           NEW n \in 0..MaxMappings, id' = [id EXCEPT ![t] = n],
           NEW a \in CreateRequests \cup {Null}, args' = [args EXCEPT ![t] = a],
           region' = [region EXCEPT ![t] = Null],
           UNCHANGED <<memVars, tableVars, kernelVars, moduleVars, fileVars>>,
           known' \subseteq Ids, IdsOwnedOnce'
    PROVE  IInv'
<1>1. UNCHANGED <<heap, mem, regions, id_bitmap, cdevs, nodes, module, control,
                  stage, minor, cdev, private, windows>>
  BY DEF memVars, tableVars, kernelVars, moduleVars, fileVars
<1>2. TypeOK'
  BY <1>1 DEF IInv, TypeOK, Steps
<1>3. \A u \in Tasks : u # t => /\ pc'[u] = pc[u] /\ region'[u] = region[u]
                                /\ id'[u] = id[u] /\ args'[u] = args[u]
  BY DEF IInv, TypeOK
<1>4. pc'[t] = s /\ region'[t] = Null
  BY DEF IInv, TypeOK
<1>5. /\ BitmapMatchesTable' /\ TableHolds' /\ IdentifiersUnique' /\ FilesHold'
      /\ RangesFit' /\ MappedInsideRegion' /\ Unloaded'
  BY <1>1 DEF IInv, BitmapMatchesTable, TableHolds, IdentifiersUnique, FilesHold,
              RangesFit, MappedInsideRegion, Unloaded
<1>6. HandlerKnows' /\ HeldOnce'
  <2>1. ASSUME NEW u \in Tasks PROVE Knows(u)'
    <3>1. Knows(u)
      BY DEF IInv, HandlerKnows
    <3> QED BY <3>1, <1>1, <1>3, <1>4 DEF Knows, Holds, Building, Opened
  <2> QED BY <2>1, <1>3, <1>4 DEF IInv, HandlerKnows, HeldOnce, Holds
<1>7. ASSUME NEW y \in heap PROVE Counted(y)' /\ Reachable(y)'
  <2>1. Counted(y) /\ Reachable(y)
    BY DEF IInv, ReferencesCounted, NothingLeaked
  <2>2. \A u \in Tasks : HeldBy(u, y)' <=> HeldBy(u, y)
    BY <1>3, <1>4 DEF HeldBy
  <2>3. (Kept(y)' <=> Kept(y)) /\ Opened(y)' = Opened(y)
    BY <2>2, <1>1 DEF Kept, Opened
  <2>4. Reachable(y)'
    BY <2>1, <2>3, <1>1, <1>3 DEF Reachable, Holds
  <2> QED BY <2>1, <2>3, <2>4, <1>1 DEF Counted
<1>8. ReferencesCounted' /\ NothingLeaked'
  BY <1>1, <1>7 DEF ReferencesCounted, NothingLeaked
<1>9. CdevsAccounted' /\ NodesAccounted'
  <2>1. \A u \in Tasks, i \in Ids : /\ Bare(u, i)' <=> Bare(u, i)
                                    /\ NodeOwner(u, i)' <=> NodeOwner(u, i)
                                    /\ Unfinished(u, i)' <=> Unfinished(u, i)
    BY <1>3, <1>4 DEF Bare, NodeOwner, Unfinished
  <2>2. \A u \in Tasks, i \in Ids : CdevOwner(u, i)' <=> CdevOwner(u, i)
    BY <1>3, <1>4 DEF CdevOwner
  <2> QED BY <1>1, <2>1, <2>2, CdevsKept, NodesKept DEF IInv
<1> QED BY <1>2, <1>5, <1>6, <1>8, <1>9 DEF IInv

(* A create returns its id, or cannot and goes on as a destroy of it.      *)
LEMMA CopyToUserStep ==
    ASSUME IInv, NEW t \in Tasks, CopyToUser(t), UNCHANGED <<moduleVars, fileVars>>
    PROVE  IInv'
<1>1. /\ pc[t] = "copy_to_user" /\ Building(t) /\ Owns(t, id[t])
      /\ UNCHANGED <<memVars, tableVars, kernelVars, regions>>
  BY DEF CopyToUser, Building, Owns, tableVars
<1>2. /\ id[t] \in Ids /\ regions[id[t]] # Null /\ module = "ready" /\ id[t] \notin known
      /\ \A u \in Tasks : ~(Owns(u, id[t]) /\ u # t)
  BY <1>1, BuilderKnows, DriverAssumption
<1>3. CASE Return(t) /\ known' = known \cup {id[t]}
  <2>1. /\ pc' = [pc EXCEPT ![t] = "idle"] /\ region' = [region EXCEPT ![t] = Null]
        /\ id' = [id EXCEPT ![t] = 0] /\ args' = [args EXCEPT ![t] = Null]
        /\ known' \subseteq Ids /\ 0 \in 0..MaxMappings
    BY <1>2, <1>3, DriverAssumption DEF Return, Goto, IInv, TypeOK
  <2>2. \A u \in Tasks, j \in Ids : Owns(u, j)' => u # t /\ Owns(u, j)
    BY <2>1 DEF IInv, TypeOK, Owns, Building
  <2>3. \A u \in Tasks, j \in Ids : Owns(u, j)' => j # id[t]
    BY <2>2, <1>2
  <2>4. IdsOwnedOnce'
    BY <2>2, <2>3, <1>1, <1>2, <1>3 DEF IInv, IdsOwnedOnce, Ids
  <2> QED BY <1>1, <1>2, <2>1, <2>4, OutsideMoves
<1>4. CASE /\ Goto(t, "unpublish") /\ region' = [region EXCEPT ![t] = Null]
           /\ UNCHANGED <<id, args, known>>
  <2>1. /\ pc' = [pc EXCEPT ![t] = "unpublish"] /\ known' \subseteq Ids
        /\ id' = [id EXCEPT ![t] = id[t]] /\ id[t] \in 0..MaxMappings
        /\ args' = [args EXCEPT ![t] = args[t]] /\ args[t] \in CreateRequests \cup {Null}
    BY <1>4 DEF Goto, IInv, TypeOK
  <2>2. \A u \in Tasks, j \in Ids : Owns(u, j)' <=> Owns(u, j)
    BY <2>1, <1>1, <1>4 DEF IInv, TypeOK, Owns, Building
  <2>3. IdsOwnedOnce'
    BY <2>2, <1>1, <1>4 DEF IInv, IdsOwnedOnce, Ids
  <2> QED BY <1>1, <1>2, <1>4, <2>1, <2>3, OutsideMoves
<1> QED BY <1>3, <1>4 DEF CopyToUser

(* A destroy begins with an id that a create returned, which from then on  *)
(* is its own.                                                             *)
LEMMA DestroyStep ==
    ASSUME IInv, NEW t \in Tasks, Destroy(t), UNCHANGED <<moduleVars, fileVars>>
    PROVE  IInv'
<1>1. PICK i \in known \cup {MaxMappings} :
         id' = [id EXCEPT ![t] = i] /\ known' = known \ {i}
  BY DEF Destroy
<1>2. /\ pc[t] = "idle" /\ module = "ready" /\ pc' = [pc EXCEPT ![t] = "unpublish"]
      /\ UNCHANGED <<memVars, tableVars, kernelVars, regions>>
      /\ UNCHANGED <<region, args>>
  BY DEF Destroy, Idle, Goto, tableVars
<1>3. i \in 0..MaxMappings /\ (i \in Ids => i \in known)
  BY DriverAssumption DEF IInv, TypeOK, Ids
<1>4. /\ region' = [region EXCEPT ![t] = Null] /\ args' = [args EXCEPT ![t] = args[t]]
      /\ args[t] \in CreateRequests \cup {Null} /\ known' \subseteq Ids
  <2>1. region[t] = Null
    BY <1>2 DEF IInv, HandlerKnows, Knows
  <2> QED BY <2>1, <1>1, <1>2 DEF IInv, TypeOK
<1>5. IdsOwnedOnce'
  <2>1. \A u \in Tasks, j \in Ids :
           Owns(u, j)' => (u = t /\ j = i) \/ (u # t /\ Owns(u, j))
    BY <1>1, <1>2 DEF IInv, TypeOK, Owns, Building
  <2>2. i \in known => /\ regions[i] # Null
                       /\ \A u \in Tasks : ~Owns(u, i)
    BY DEF IInv, TypeOK, IdsOwnedOnce
  <2> QED BY <2>1, <2>2, <1>1, <1>2, <1>3 DEF IInv, IdsOwnedOnce, Ids
<1> QED BY <1>1, <1>2, <1>3, <1>4, <1>5, OutsideMoves

(* The section under the lock in which a destroy takes the region out of   *)
(* the table.                                                              *)
LEMMA UnpublishStep ==
    ASSUME IInv, NEW t \in Tasks, Unpublish(t), UNCHANGED <<moduleVars, fileVars>>
    PROVE  IInv'
<1> DEFINE i == id[t]
<1>1. pc[t] = "unpublish" /\ module = "ready" /\ Owns(t, i) /\ i \in 0..MaxMappings
  BY DEF Unpublish, Owns, IInv, TypeOK, Unloaded
<1>2. CASE i >= MaxMappings \/ regions[i] = Null
  <2>1. /\ pc' = [pc EXCEPT ![t] = "idle"] /\ region' = [region EXCEPT ![t] = Null]
        /\ id' = [id EXCEPT ![t] = 0] /\ args' = [args EXCEPT ![t] = Null]
        /\ 0 \in 0..MaxMappings
        /\ UNCHANGED <<memVars, tableVars, kernelVars, regions, known>>
    BY <1>2, DriverAssumption DEF Unpublish, Return, Goto, memVars, tableVars
  <2>2. \A u \in Tasks, j \in Ids : Owns(u, j)' => Owns(u, j)
    BY <2>1 DEF IInv, TypeOK, Owns, Building
  <2>3. IdsOwnedOnce' /\ known' \subseteq Ids
    BY <2>1, <2>2 DEF IInv, TypeOK, IdsOwnedOnce, Ids
  <2> QED BY <1>1, <2>1, <2>3, OutsideMoves
<1>3. CASE ~(i >= MaxMappings \/ regions[i] = Null)
  <2>1. i \in Ids /\ regions[i] \in Objects
    BY <1>1, <1>3, DriverAssumption DEF Ids, IInv, TypeOK
  <2>2. /\ ClearSlot(i, regions[i]) /\ region' = [region EXCEPT ![t] = regions[i]]
        /\ pc' = [pc EXCEPT ![t] = "device_destroy"]
        /\ UNCHANGED <<heap, kernelVars, id, args, known>>
    BY <1>3 DEF Unpublish, Goto
  <2> QED BY <1>1, <2>1, <2>2, TakenOut
<1> QED BY <1>2, <1>3

(* A destroy that goes on to its next stage keeps all but the devices.     *)
LEMMA HolderMoves ==
    ASSUME IInv, NEW t \in Tasks, pc[t] \in {"device_destroy", "cdev_del"},
           NEW s \in {"cdev_del", "put"}, pc' = [pc EXCEPT ![t] = s],
           UNCHANGED <<memVars, tableVars, region, id, args, known, moduleVars, fileVars>>,
           cdevs' \in [Ids -> Seq(Objects)], CdevsAccounted',
           nodes' \subseteq Ids, NodesAccounted'
    PROVE  IInv'
<1>1. /\ UNCHANGED <<heap, mem, regions, id_bitmap, region, id, args, known, module,
                     control, stage, minor, cdev, private, windows>>
      /\ pc' \in [Tasks -> Steps]
      /\ \A u \in Tasks \ {t} : pc'[u] = pc[u]
      /\ pc'[t] = s
  BY DEF memVars, tableVars, moduleVars, fileVars, IInv, TypeOK, Steps
<1>2. TypeOK'
  BY <1>1 DEF IInv, TypeOK
<1>3. BitmapMatchesTable' /\ TableHolds' /\ IdentifiersUnique'
  BY <1>1 DEF IInv, BitmapMatchesTable, TableHolds, IdentifiersUnique
<1>4. \A u \in Tasks : /\ Building(u)' <=> Building(u)
                       /\ Holds(u)' <=> Holds(u)
                       /\ \A i \in Ids : Owns(u, i)' <=> Owns(u, i)
                       /\ \A x \in Objects : HeldBy(u, x)' <=> HeldBy(u, x)
  BY <1>1 DEF Building, Holds, Owns, HeldBy
<1>5. IdsOwnedOnce' /\ HeldOnce'
  BY <1>1, <1>4 DEF IInv, IdsOwnedOnce, HeldOnce
<1>6. HandlerKnows'
  <2> SUFFICES ASSUME NEW u \in Tasks PROVE Knows(u)'
    BY DEF HandlerKnows
  <2>1. Knows(u)
    BY DEF IInv, HandlerKnows
  <2> QED BY <2>1, <1>1, <1>4 DEF Knows, Opened
<1>7. FilesHold' /\ RangesFit' /\ MappedInsideRegion'
  BY <1>1 DEF IInv, FilesHold, RangesFit, MappedInsideRegion
<1>8. ASSUME NEW x \in heap PROVE Counted(x)' /\ Reachable(x)'
  <2>1. x \in Objects /\ Counted(x) /\ Reachable(x)
    BY DEF IInv, TypeOK, ReferencesCounted, NothingLeaked
  <2>2. (Kept(x)' <=> Kept(x)) /\ Opened(x)' = Opened(x)
    BY <2>1, <1>1, <1>4 DEF Kept, Opened
  <2> QED BY <2>1, <2>2, <1>1, <1>4 DEF Counted, Reachable
<1>9. ReferencesCounted' /\ NothingLeaked'
  BY <1>1, <1>8 DEF ReferencesCounted, NothingLeaked
<1>10. Unloaded'
  <2>1. module = "ready"
    BY DEF IInv, Unloaded
  <2> QED BY <2>1, <1>1 DEF Unloaded
<1> QED BY <1>2, <1>3, <1>5, <1>6, <1>7, <1>9, <1>10 DEF IInv

(* device_destroy removes the node of the mapping being destroyed and no   *)
(* other.                                                                  *)
LEMMA DeviceDestroyStep ==
    ASSUME IInv, NEW t \in Tasks, DeviceDestroy(t), UNCHANGED <<moduleVars, fileVars>>
    PROVE  IInv'
<1> DEFINE i == id[t]
<1>1. /\ pc[t] = "device_destroy" /\ pc' = [pc EXCEPT ![t] = "cdev_del"]
      /\ nodes' = nodes \ {mem[region[t]].id}
      /\ UNCHANGED <<memVars, tableVars, regions, cdevs, region, id, args, known>>
  BY DEF DeviceDestroy, Goto, NodeRemoved, tableVars
<1>2. i \in Ids /\ mem[region[t]].id = i /\ NodeOwner(t, i)
  BY <1>1 DEF IInv, HandlerKnows, Knows, NodeOwner
<1>3. pc'[t] = "cdev_del" /\ \A u \in Tasks : u # t => pc'[u] = pc[u]
  BY <1>1 DEF IInv, TypeOK
<1>4. CdevsAccounted'
  <2>1. \A u \in Tasks, j \in Ids : Bare(u, j)' <=> Bare(u, j)
    BY <1>1, <1>3 DEF Bare
  <2>2. \A u \in Tasks, j \in Ids : CdevOwner(u, j)' <=> CdevOwner(u, j)
    BY <1>1, <1>3 DEF CdevOwner
  <2> QED BY <1>1, <2>1, <2>2, CdevsKept DEF IInv
<1>5. NodesAccounted'
  <2> SUFFICES ASSUME NEW j \in Ids
               PROVE  /\ j \in nodes' <=> Finished(j)' \/ \E u \in Tasks : NodeOwner(u, j)'
                      /\ Finished(j)' => \A u \in Tasks : ~NodeOwner(u, j)'
                      /\ \A u, v \in Tasks : NodeOwner(u, j)' /\ NodeOwner(v, j)' => u = v
    BY DEF NodesAccounted, Ids
  <2>1. /\ j \in nodes <=> Finished(j) \/ \E u \in Tasks : NodeOwner(u, j)
        /\ Finished(j) => \A u \in Tasks : ~NodeOwner(u, j)
        /\ \A u, v \in Tasks : NodeOwner(u, j) /\ NodeOwner(v, j) => u = v
    BY DEF IInv, NodesAccounted
  <2>2. /\ ~NodeOwner(t, j)' /\ (NodeOwner(t, j) <=> j = i)
        /\ \A u \in Tasks : u # t => (NodeOwner(u, j)' <=> NodeOwner(u, j))
    BY <1>1, <1>3 DEF NodeOwner
  <2>3. Finished(j)' <=> Finished(j)
    BY <1>1, <1>3 DEF Finished, Unfinished
  <2> QED BY <2>1, <2>2, <2>3, <1>1, <1>2
<1>6. cdevs' \in [Ids -> Seq(Objects)] /\ nodes' \subseteq Ids
  BY <1>1 DEF IInv, TypeOK
<1> QED BY <1>1, <1>4, <1>5, <1>6, HolderMoves

(* cdev_del leaves one registration less under the number of the region    *)
(* being destroyed, which is not always the region's own.                  *)
LEMMA CdevDelStep ==
    ASSUME IInv, NEW t \in Tasks, CdevDel(t), UNCHANGED <<moduleVars, fileVars>>
    PROVE  IInv'
<1> DEFINE i == id[t]
           x == region[t]
<1>1. /\ pc[t] = "cdev_del" /\ pc' = [pc EXCEPT ![t] = "put"]
      /\ cdevs' = IF Unnumbered(x) THEN cdevs ELSE NewestGone(mem[x].id)
      /\ UNCHANGED <<memVars, tableVars, regions, nodes, region, id, args, known>>
  BY DEF CdevDel, Goto, tableVars
<1>2. /\ i \in Ids /\ mem[x].id = i /\ Holds(t) /\ x \in heap
      /\ \A j \in Ids : regions[j] # x
  BY <1>1 DEF IInv, HandlerKnows, Knows, Holds
<1>3. pc'[t] = "put" /\ \A u \in Tasks : u # t => pc'[u] = pc[u]
  BY <1>1 DEF IInv, TypeOK
<1>4. cdevs' = NewestGone(i)
  <2>1. ASSUME NEW u \in Tasks, pc[u] = "cdev_add", region[u] = x PROVE FALSE
    BY <2>1, <1>2 DEF IInv, HandlerKnows, Knows, Building
  <2> QED BY <2>1, <1>1, <1>2 DEF Unnumbered
<1>5. Len(cdevs[i]) > 0
  <2>1. CdevsCounted(i) /\ t \in CdevOwners(i)
    BY <1>1, <1>2 DEF IInv, CdevsAccounted, CdevOwners, CdevOwner
  <2>2. Cardinality(CdevOwners(i)) > 0
    BY <2>1, OwnersFinite, FS_EmptySet
  <2> QED BY <2>1, <2>2, OwnersFinite DEF CdevsCounted
<1>6. /\ cdevs' \in [Ids -> Seq(Objects)]
      /\ Len(cdevs'[i]) = Len(cdevs[i]) - 1
      /\ \A j \in Ids : j # i => cdevs'[j] = cdevs[j]
  <2>1. cdevs \in [Ids -> Seq(Objects)]
    BY DEF IInv, TypeOK
  <2> QED BY <2>1, <1>2, <1>4, <1>5, NewestGoes
<1>7. CdevsAccounted'
  <2> SUFFICES ASSUME NEW j \in Ids PROVE CdevsCounted(j)'
    BY DEF CdevsAccounted, Ids
  <2>1. CdevsCounted(j) /\ \A u \in Tasks : Bare(u, j)' <=> Bare(u, j)
    BY <1>1, <1>3 DEF IInv, CdevsAccounted, Bare
  <2>2. /\ ~CdevOwner(t, j)' /\ (CdevOwner(t, j) <=> j = i)
        /\ \A u \in Tasks : u # t => (CdevOwner(u, j)' <=> CdevOwner(u, j))
    BY <1>1, <1>2, <1>3 DEF CdevOwner
  <2>3. CASE j = i
    <3>1. CdevOwners(j)' = CdevOwners(j) \ {t} /\ t \in CdevOwners(j)
      BY <2>2, <2>3 DEF CdevOwners
    <3>2. /\ Cardinality(CdevOwners(j)') = Cardinality(CdevOwners(j)) - 1
          /\ Cardinality(CdevOwners(j)) \in Nat
      BY <3>1, OwnersFinite, FS_RemoveElement
    <3>3. Added(j)' <=> Added(j)
      BY <2>1, <1>1 DEF Added
    <3>4. Len(cdevs'[j]) = Len(cdevs[j]) - 1
      BY <2>3, <1>6
    <3> HIDE DEF i, x
    <3> QED BY <2>1, <3>2, <3>3, <3>4 DEF CdevsCounted
  <2>4. CASE j # i
    BY <2>1, <2>2, <2>4, <1>1, <1>6, CountKept
  <2> QED BY <2>3, <2>4
<1>8. NodesAccounted'
  <2>1. \A u \in Tasks, j \in Ids : /\ NodeOwner(u, j)' <=> NodeOwner(u, j)
                                    /\ Unfinished(u, j)' <=> Unfinished(u, j)
    BY <1>1, <1>3 DEF NodeOwner, Unfinished
  <2> QED BY <1>1, <2>1, NodesKept DEF IInv
<1>9. nodes' \subseteq Ids
  BY <1>1 DEF IInv, TypeOK
<1> QED BY <1>1, <1>6, <1>7, <1>8, <1>9, HolderMoves

(* The files that have a region open can be counted.                       *)
LEMMA OpenedFinite ==
    ASSUME NEW x
    PROVE  IsFiniteSet(Opened(x)) /\ Cardinality(Opened(x)) \in Nat
BY DriverAssumption, FS_Subset, FS_CardinalityType DEF Opened

(* A handler that held a region gives it up.                               *)
LEMMA PutStep ==
    ASSUME IInv, NEW t \in Tasks, Put(t), UNCHANGED <<moduleVars, fileVars>>
    PROVE  IInv'
<1> DEFINE x == region[t]
<1>1. /\ pc[t] = "put"
      /\ mem' = [mem EXCEPT ![x].refs = mem[x].refs - 1]
      /\ heap' = IF mem[x].refs = 1 THEN heap \ {x} ELSE heap
      /\ pc' = [pc EXCEPT ![t] = "idle"] /\ region' = [region EXCEPT ![t] = Null]
      /\ id' = [id EXCEPT ![t] = 0] /\ args' = [args EXCEPT ![t] = Null]
      /\ UNCHANGED <<regions, id_bitmap, cdevs, nodes, known, module, control,
                     stage, minor, cdev, private, windows>>
  BY DEF Put, PutRegion, Return, Goto, tableVars, kernelVars, moduleVars, fileVars
<1>2. /\ Knows(t) /\ Holds(t) /\ HeldBy(t, x) /\ x \in heap /\ x \in Objects
      /\ \A i \in Ids : regions[i] # x
      /\ \A u \in Tasks : Holds(u) /\ u # t => region[u] # x
  BY <1>1 DEF IInv, TypeOK, HandlerKnows, Knows, HeldOnce, Holds, HeldBy
<1>3. /\ mem[x].refs \in Int /\ mem[x].refs = Cardinality(Opened(x)) + 1
      /\ Cardinality(Opened(x)) \in Nat
  <2>1. Counted(x) /\ Kept(x)
    BY <1>2 DEF IInv, ReferencesCounted, Kept
  <2> QED BY <2>1, OpenedFinite DEF Counted
<1>4. /\ mem' \in [Objects -> Region]
      /\ mem'[x].refs = Cardinality(Opened(x))
      /\ \A y \in Objects : /\ mem'[y].alive = mem[y].alive
                            /\ mem'[y].phys_addr = mem[y].phys_addr
                            /\ mem'[y].size = mem[y].size
                            /\ mem'[y].identifier = mem[y].identifier
                            /\ mem'[y].id = mem[y].id
                            /\ y # x => mem'[y] = mem[y]
  <2>1. mem \in [Objects -> Region] /\ mem[x].refs - 1 \in Int
    BY <1>3 DEF IInv, TypeOK
  <2>2. mem[x].refs - 1 = Cardinality(Opened(x))
    BY <1>3
  <2> QED BY <2>1, <2>2, <1>1, <1>2, CountChanged, ZenonT(30)
<1>5. x \notin heap' <=> Opened(x) = {}
  <2>1. Cardinality(Opened(x)) = 0 <=> Opened(x) = {}
    BY OpenedFinite, FS_EmptySet
  <2> QED BY <2>1, <1>1, <1>2, <1>3
<1>6. heap' \subseteq heap /\ \A y \in heap : y # x => y \in heap'
  BY <1>1
<1>7. TypeOK'
  <2>1. \A y \in Objects : mem'[y].refs >= 0
    <3>1. mem \in [Objects -> Region] /\ \A y \in Objects : mem[y].refs >= 0
      BY DEF IInv, TypeOK
    <3> QED BY ONLY <3>1, <1>1, <1>2, <1>3, <1>4 DEF Region
  <2> QED BY <2>1, <1>1, <1>4, <1>6, DriverAssumption DEF IInv, TypeOK, Steps
<1>8. \A u \in Tasks : u # t => /\ pc'[u] = pc[u] /\ id'[u] = id[u]
                                /\ region'[u] = region[u] /\ args'[u] = args[u]
  BY <1>1 DEF IInv, TypeOK
<1>9. pc'[t] = "idle" /\ region'[t] = Null
  BY <1>1 DEF IInv, TypeOK
<1>10. BitmapMatchesTable' /\ TableHolds' /\ IdentifiersUnique'
  BY <1>1, <1>2, <1>4, <1>6 DEF IInv, TypeOK, BitmapMatchesTable, TableHolds, IdentifiersUnique
<1>11. FilesHold'
  BY <1>1, <1>5, <1>6 DEF IInv, FilesHold, Opened
<1>12. IdsOwnedOnce' /\ HeldOnce'
  BY <1>1, <1>8, <1>9 DEF IInv, IdsOwnedOnce, Owns, Building, HeldOnce, Holds
<1>13. HandlerKnows'
  <2> SUFFICES ASSUME NEW u \in Tasks PROVE Knows(u)'
    BY DEF HandlerKnows
  <2>1. Knows(u)
    BY DEF IInv, HandlerKnows
  <2>2. CASE u = t
    BY <2>2, <1>9 DEF Knows, Holds, Building
  <2>3. CASE u # t
    <3>1. Holds(u) => region[u] \in heap' /\ mem'[region[u]] = mem[region[u]]
      BY <2>1, <2>3, <1>2, <1>4, <1>6 DEF Knows, IInv, TypeOK
    <3>2. Opened(region[u])' = Opened(region[u])
      BY <2>3, <1>1, <1>8 DEF Opened
    <3>3. (Holds(u)' <=> Holds(u)) /\ (Building(u)' <=> Building(u))
      BY <2>3, <1>8 DEF Holds, Building
    <3>4. pc[u] \in {"publish", "device_destroy", "cdev_del"} => Holds(u)
      BY DEF Holds
    <3> QED BY <2>1, <2>3, <3>1, <3>2, <3>3, <3>4, <1>1, <1>8 DEF Knows
  <2> QED BY <2>2, <2>3
<1>14. ASSUME NEW y \in heap' PROVE Counted(y)' /\ Reachable(y)'
  <2>1. /\ y \in heap /\ y \in Objects /\ Counted(y) /\ Reachable(y)
        /\ Opened(y)' = Opened(y)
    BY <1>1, <1>6 DEF IInv, TypeOK, ReferencesCounted, NothingLeaked, Opened
  <2>2. CASE y = x
    <3>1. ~Kept(y)'
      BY <2>2, <1>1, <1>2, <1>8, <1>9 DEF Kept, HeldBy, Holds
    <3>2. Opened(y) # {}
      BY <2>2, <1>5, <1>14
    <3> QED BY <2>1, <2>2, <3>1, <3>2, <1>3, <1>4 DEF Counted, Reachable
  <2>3. CASE y # x
    <3>1. \A u \in Tasks : HeldBy(u, y)' <=> HeldBy(u, y)
      BY <2>3, <1>8, <1>9, <1>2 DEF HeldBy, IInv, TypeOK
    <3>2. Kept(y)' <=> Kept(y)
      BY <3>1, <1>1 DEF Kept
    <3>3. Reachable(y)'
      BY <2>1, <2>3, <1>1, <1>8 DEF Reachable, Holds
    <3> QED BY <2>1, <2>3, <3>2, <3>3, <1>4 DEF Counted
  <2> QED BY <2>2, <2>3
<1>15. ReferencesCounted' /\ NothingLeaked'
  BY <1>14 DEF ReferencesCounted, NothingLeaked
<1>16. CdevsAccounted' /\ NodesAccounted'
  <2>1. \A u \in Tasks, i \in Ids : /\ Bare(u, i)' <=> Bare(u, i)
                                    /\ NodeOwner(u, i)' <=> NodeOwner(u, i)
                                    /\ Unfinished(u, i)' <=> Unfinished(u, i)
    BY <1>1, <1>8, <1>9 DEF Bare, NodeOwner, Unfinished
  <2>2. \A u \in Tasks, i \in Ids : CdevOwner(u, i)' <=> CdevOwner(u, i)
    BY <1>1, <1>8, <1>9 DEF CdevOwner
  <2> QED BY <1>1, <2>1, <2>2, CdevsKept, NodesKept DEF IInv
<1>17. RangesFit' /\ MappedInsideRegion'
  <2>1. \A f \in Files : private[f] \in heap => private[f] \in heap' /\ private[f] \in Objects
    BY <1>5, <1>6 DEF IInv, TypeOK, Opened
  <2> QED BY <2>1, <1>1, <1>4 DEF IInv, RangesFit, MappedInsideRegion
<1>18. Unloaded'
  <2>1. module = "ready"
    BY <1>1 DEF IInv, Unloaded
  <2> QED BY <2>1, <1>1 DEF Unloaded
<1> QED
  BY <1>7, <1>10, <1>11, <1>12, <1>13, <1>15, <1>16, <1>17, <1>18 DEF IInv

(* What a file does leaves the table, the handlers and the devices alone,  *)
(* and of an object no more than its count.                                *)
LEMMA FilesMove ==
    ASSUME IInv,
           UNCHANGED <<tableVars, kernelVars, taskVars, known>>,
           mem' \in [Objects -> Region],
           \A y \in Objects : /\ mem'[y].alive = mem[y].alive
                              /\ mem'[y].phys_addr = mem[y].phys_addr
                              /\ mem'[y].size = mem[y].size
                              /\ mem'[y].identifier = mem[y].identifier
                              /\ mem'[y].id = mem[y].id,
           heap' \subseteq heap,
           \A i \in Ids : regions[i] # Null => regions[i] \in heap'
    PROVE  /\ BitmapMatchesTable' /\ TableHolds' /\ IdentifiersUnique'
           /\ IdsOwnedOnce' /\ HeldOnce' /\ CdevsAccounted' /\ NodesAccounted'
           /\ RangesFit'
<1>1. UNCHANGED <<regions, id_bitmap, cdevs, nodes, pc, region, id, args, known>>
  BY DEF tableVars, kernelVars, taskVars
<1>2. BitmapMatchesTable' /\ TableHolds' /\ IdentifiersUnique' /\ RangesFit'
  <2>1. regions \in [Ids -> Objects \cup {Null}]
    BY DEF IInv, TypeOK
  <2>2. BitmapMatchesTable /\ TableHolds /\ IdentifiersUnique /\ RangesFit
    BY DEF IInv
  <2> QED BY <1>1, <2>1, <2>2 DEF BitmapMatchesTable, TableHolds, IdentifiersUnique, RangesFit
<1>3. IdsOwnedOnce' /\ HeldOnce'
  BY <1>1 DEF IInv, IdsOwnedOnce, Owns, Building, HeldOnce, Holds
<1>4. CdevsAccounted' /\ NodesAccounted'
  <2>1. \A u \in Tasks, i \in Ids : /\ Bare(u, i)' <=> Bare(u, i)
                                    /\ NodeOwner(u, i)' <=> NodeOwner(u, i)
                                    /\ Unfinished(u, i)' <=> Unfinished(u, i)
    BY <1>1 DEF Bare, NodeOwner, Unfinished
  <2>2. \A u \in Tasks, i \in Ids : CdevOwner(u, i)' <=> CdevOwner(u, i)
    BY <1>1 DEF CdevOwner
  <2> QED BY <1>1, <2>1, <2>2, CdevsKept, NodesKept DEF IInv
<1> QED BY <1>2, <1>3, <1>4

(* So does a step that leaves the regions and who has them alone.          *)
LEMMA OwnershipKept ==
    ASSUME IInv, UNCHANGED <<memVars, tableVars, kernelVars, taskVars, known, private>>,
           TypeOK', FilesHold', MappedInsideRegion', Unloaded'
    PROVE  IInv'
<1>1. UNCHANGED <<heap, mem, regions, id_bitmap, pc, region, id, args, known, private>>
  BY DEF memVars, tableVars, taskVars
<1>2. /\ BitmapMatchesTable' /\ TableHolds' /\ IdentifiersUnique'
      /\ IdsOwnedOnce' /\ HeldOnce' /\ CdevsAccounted' /\ NodesAccounted'
      /\ RangesFit'
  <2>1. /\ mem' \in [Objects -> Region]
        /\ \A i \in Ids : regions[i] # Null => regions[i] \in heap'
    BY <1>1 DEF IInv, TypeOK, TableHolds
  <2> QED BY <2>1, <1>1, FilesMove
<1>3. HandlerKnows'
  <2>1. ASSUME NEW u \in Tasks PROVE Knows(u)'
    <3>1. Knows(u)
      BY DEF IInv, HandlerKnows
    <3> QED BY <3>1, <1>1 DEF Knows, Holds, Building, Opened
  <2> QED BY <2>1 DEF HandlerKnows
<1>4. ReferencesCounted' /\ NothingLeaked'
  <2>1. ASSUME NEW y \in heap PROVE Counted(y)' /\ Reachable(y)'
    <3>1. Counted(y) /\ Reachable(y)
      BY DEF IInv, ReferencesCounted, NothingLeaked
    <3> QED BY <3>1, <1>1 DEF Counted, Kept, HeldBy, Opened, Reachable, Holds
  <2> QED BY <2>1, <1>1 DEF ReferencesCounted, NothingLeaked
<1> QED BY <1>2, <1>3, <1>4 DEF IInv

(* Nothing changes the invariant if nothing changes.                       *)
LEMMA StutterStep ==
    ASSUME IInv, UNCHANGED vars
    PROVE  IInv'
<1>1. /\ UNCHANGED <<memVars, tableVars, kernelVars, taskVars, known>>
      /\ UNCHANGED <<module, control, heap, mem, regions, id_bitmap, cdevs, nodes, pc,
                     region, id, args, stage, minor, cdev, private, windows>>
  BY DEF vars, moduleVars, memVars, tableVars, kernelVars, taskVars, fileVars
<1>2. TypeOK' /\ Unloaded'
  BY <1>1 DEF IInv, TypeOK, Unloaded
<1>3. FilesHold' /\ MappedInsideRegion'
  BY <1>1 DEF IInv, FilesHold, MappedInsideRegion
<1> QED BY <1>1, <1>2, <1>3, OwnershipKept

(* The VFS finds a cdev for a file: the driver has not seen the file yet.  *)
LEMMA VfsOpenStep ==
    ASSUME IInv, NEW f \in Files, VfsOpen(f),
           UNCHANGED <<moduleVars, tableVars, kernelVars, taskVars, known>>
    PROVE  IInv'
<1>1. PICK i \in nodes, x \in Objects :
         minor' = [minor EXCEPT ![f] = i] /\ cdev' = [cdev EXCEPT ![f] = x]
  <2>1. PICK i \in nodes : /\ cdevs[i] # << >>
                          /\ minor' = [minor EXCEPT ![f] = i]
                          /\ cdev' = [cdev EXCEPT ![f] = Head(cdevs[i])]
    BY DEF VfsOpen
  <2>2. cdevs[i] \in Seq(Objects)
    BY DEF IInv, TypeOK
  <2>3. Head(cdevs[i]) \in Objects
    BY <2>1, <2>2
  <2> QED BY <2>1, <2>3
<1>2. /\ module = "ready" /\ stage[f] = "closed"
      /\ stage' = [stage EXCEPT ![f] = "opening"]
      /\ UNCHANGED <<heap, mem, private, windows>>
      /\ UNCHANGED <<module, control, regions, id_bitmap, cdevs, nodes, pc, region, id,
                     args, known>>
  BY DEF VfsOpen, memVars, moduleVars, tableVars, kernelVars, taskVars
<1>3. TypeOK'
  BY <1>1, <1>2 DEF IInv, TypeOK
<1>4. FilesHold' /\ MappedInsideRegion'
  BY <1>2 DEF IInv, TypeOK, FilesHold, MappedInsideRegion
<1>5. Unloaded'
  BY <1>2 DEF Unloaded
<1> QED BY <1>2, <1>3, <1>4, <1>5, OwnershipKept DEF memVars

(* Windows are unmapped without the driver.                                *)
LEMMA MunmapStep ==
    ASSUME IInv, NEW f \in Files, Munmap(f),
           UNCHANGED <<moduleVars, tableVars, kernelVars, taskVars, known>>
    PROVE  IInv'
<1>1. PICK w \in windows[f] : windows' = [windows EXCEPT ![f] = windows[f] \ {w}]
  BY DEF Munmap
<1>2. /\ UNCHANGED <<heap, mem, private, stage, minor, cdev>>
      /\ UNCHANGED <<module, control, regions, id_bitmap, cdevs, nodes, pc, region, id,
                     args, known>>
  BY DEF Munmap, memVars, moduleVars, tableVars, kernelVars, taskVars
<1>3. \A g \in Files : windows'[g] \subseteq windows[g]
  BY <1>1 DEF IInv, TypeOK
<1>4. TypeOK'
  BY <1>1, <1>2 DEF IInv, TypeOK
<1>5. FilesHold' /\ MappedInsideRegion'
  BY <1>2, <1>3 DEF IInv, FilesHold, MappedInsideRegion
<1>6. Unloaded'
  BY <1>2 DEF IInv, Unloaded
<1> QED BY <1>2, <1>4, <1>5, <1>6, OwnershipKept DEF memVars

(* A window that physmap_data_mmap admits lies inside the region, and so   *)
(* inside the address space.                                               *)
LEMMA WindowInside ==
    ASSUME IInv, NEW x \in Objects, NEW offset \in Nat, NEW requested \in Nat,
           Inside(x, offset, requested)
    PROVE  LET w == Window(mem[x].phys_addr + offset, requested) IN
              /\ w \subseteq Window(mem[x].phys_addr, mem[x].size)
              /\ w \subseteq 0..MaxAddress
              /\ w \subseteq Nat
<1>1. mem[x].phys_addr \in Nat /\ mem[x].size \in Nat
  BY DEF IInv, TypeOK, Region
<1>2. mem[x].phys_addr + mem[x].size <= MaxAddress + 1 /\ MaxAddress \in Nat
  BY DriverAssumption DEF IInv, RangesFit
<1> QED BY <1>1, <1>2 DEF Inside, Window

(* physmap_data_mmap adds a window that lies inside the region of the      *)
(* file.                                                                   *)
LEMMA MmapStep ==
    ASSUME IInv, NEW f \in Files, Mmap(f),
           UNCHANGED <<moduleVars, tableVars, kernelVars, taskVars, known>>
    PROVE  IInv'
<1> DEFINE x == private[f]
<1>1. PICK offset \in Nat, requested \in Nat :
         /\ Inside(x, offset, requested)
         /\ windows' = [windows EXCEPT ![f] =
               windows[f] \cup {Window(mem[x].phys_addr + offset, requested)}]
  <2>1. PICK n, m \in {k \in 0..MaxAddress : Aligned(k)} :
           /\ Inside(x, n, m)
           /\ windows' = [windows EXCEPT ![f] =
                 windows[f] \cup {Window(mem[x].phys_addr + n, m)}]
    BY DEF Mmap
  <2>2. n \in Nat /\ m \in Nat
    BY DriverAssumption
  <2> QED BY <2>1, <2>2
<1> DEFINE w == Window(mem[x].phys_addr + offset, requested)
<1>2. /\ stage[f] = "open"
      /\ UNCHANGED <<heap, mem, private, stage, minor, cdev>>
      /\ UNCHANGED <<module, control, regions, id_bitmap, cdevs, nodes, pc, region, id,
                     args, known>>
  BY DEF Mmap, memVars, moduleVars, tableVars, kernelVars, taskVars
<1>3. x \in heap /\ x \in Objects /\ module = "ready"
  BY <1>2 DEF IInv, TypeOK, FilesHold, Unloaded
<1>4. /\ w \subseteq Window(mem[x].phys_addr, mem[x].size)
      /\ w \subseteq 0..MaxAddress /\ w \subseteq Nat
  BY <1>1, <1>3, WindowInside
<1> HIDE DEF w
<1>5. /\ windows'[f] = windows[f] \cup {w}
      /\ \A g \in Files : g # f => windows'[g] = windows[g]
  BY <1>1 DEF IInv, TypeOK, w
<1>6. TypeOK'
  <2>1. windows[f] \cup {w} \in SUBSET SUBSET Nat
    BY <1>4 DEF IInv, TypeOK
  <2>2. windows' \in [Files -> SUBSET SUBSET Nat]
    BY <2>1, <1>1 DEF IInv, TypeOK, w
  <2> QED BY <2>2, <1>2 DEF IInv, TypeOK
<1>7. FilesHold'
  BY <1>2, <1>5 DEF IInv, FilesHold
<1>8. MappedInsideRegion'
  <2> SUFFICES ASSUME NEW g \in Files, NEW v \in windows'[g]
               PROVE  /\ private[g] \in heap
                      /\ v \subseteq Window(mem[private[g]].phys_addr, mem[private[g]].size)
                      /\ v \subseteq 0..MaxAddress
    BY <1>2 DEF MappedInsideRegion, Window
  <2>1. CASE v \in windows[g]
    BY <2>1 DEF IInv, MappedInsideRegion
  <2>2. CASE v \notin windows[g]
    BY <2>2, <1>3, <1>4, <1>5
  <2> QED BY <2>1, <2>2
<1>9. Unloaded'
  BY <1>2, <1>3 DEF Unloaded
<1> QED BY <1>2, <1>6, <1>7, <1>8, <1>9, OwnershipKept DEF memVars

(* The last of a file: it has no region any more.                          *)
LEMMA DropCdevStep ==
    ASSUME IInv, NEW f \in Files, DropCdev(f),
           UNCHANGED <<moduleVars, tableVars, kernelVars, taskVars, known>>
    PROVE  IInv'
<1>1. /\ stage[f] = "dropping" /\ stage' = [stage EXCEPT ![f] = "closed"]
      /\ minor' = [minor EXCEPT ![f] = 0] /\ cdev' = [cdev EXCEPT ![f] = Null]
      /\ UNCHANGED <<heap, mem, private, windows>>
      /\ UNCHANGED <<module, control, regions, id_bitmap, cdevs, nodes, pc, region, id,
                     args, known>>
  BY DEF DropCdev, memVars, moduleVars, tableVars, kernelVars, taskVars
<1>2. 0 \in Ids
  BY DriverAssumption DEF Ids
<1>3. TypeOK'
  BY <1>1, <1>2 DEF IInv, TypeOK
<1>4. FilesHold' /\ MappedInsideRegion'
  BY <1>1 DEF IInv, TypeOK, FilesHold, MappedInsideRegion
<1>5. Unloaded'
  BY <1>1 DEF IInv, Unloaded
<1> QED BY <1>1, <1>3, <1>4, <1>5, OwnershipKept DEF memVars

(* An open that finds a region takes a reference of its own.               *)
LEMMA DataOpenTakes ==
    ASSUME IInv, NEW f \in Files, DataOpen(f), regions[minor[f]] # Null,
           mem[regions[minor[f]]].alive,
           UNCHANGED <<moduleVars, tableVars, kernelVars, taskVars, known>>
    PROVE  IInv'
<1>0. PICK x \in Objects : x = regions[minor[f]]
  <2>1. minor[f] \in Ids
    BY DEF IInv, TypeOK
  <2> QED BY <2>1 DEF IInv, TypeOK
<1>1. /\ stage[f] = "opening" /\ stage' = [stage EXCEPT ![f] = "open"]
      /\ mem' = [mem EXCEPT ![x].refs = mem[x].refs + 1]
      /\ private' = [private EXCEPT ![f] = x]
      /\ UNCHANGED <<heap, minor, cdev, windows>>
      /\ UNCHANGED <<module, control, regions, id_bitmap, cdevs, nodes, pc, region, id,
                     args, known>>
  BY <1>0 DEF DataOpen, ReferenceTaken, moduleVars, tableVars, kernelVars, taskVars
<1>2. /\ minor[f] \in Ids /\ x \in Objects /\ x \in heap /\ private[f] = Null
      /\ x # Null /\ module = "ready"
  <2>1. minor[f] \in Ids
    BY DEF IInv, TypeOK
  <2>2. x \in Objects /\ x \in heap
    BY <2>1, <1>0 DEF IInv, TypeOK, TableHolds
  <2> QED BY <1>1, <2>1, <2>2, DriverAssumption DEF IInv, FilesHold, Unloaded
<1>3. \A u \in Tasks : Holds(u) => region[u] # x
  BY <1>0, <1>2 DEF IInv, HandlerKnows, Knows
<1>4. /\ mem' \in [Objects -> Region]
      /\ mem'[x].refs = mem[x].refs + 1
      /\ \A y \in Objects : /\ mem'[y].alive = mem[y].alive
                            /\ mem'[y].phys_addr = mem[y].phys_addr
                            /\ mem'[y].size = mem[y].size
                            /\ mem'[y].identifier = mem[y].identifier
                            /\ mem'[y].id = mem[y].id
                            /\ y # x => mem'[y] = mem[y]
  <2>1. mem \in [Objects -> Region] /\ mem[x].refs + 1 \in Int
    BY <1>2 DEF IInv, TypeOK, Region
  <2> QED BY <2>1, <1>1, <1>2, CountChanged
<1>5. private'[f] = x /\ \A g \in Files : g # f => private'[g] = private[g]
  BY <1>1 DEF IInv, TypeOK
<1>6. TypeOK'
  <2>1. \A y \in Objects : mem'[y].refs >= 0
    <3>1. mem[x].refs \in Int /\ \A y \in Objects : mem[y].refs >= 0
      BY <1>2 DEF IInv, TypeOK, Region
    <3> QED BY <3>1, <1>2, <1>4
  <2> QED BY <2>1, <1>1, <1>2, <1>4 DEF IInv, TypeOK
<1>7. /\ BitmapMatchesTable' /\ TableHolds' /\ IdentifiersUnique'
      /\ IdsOwnedOnce' /\ HeldOnce' /\ CdevsAccounted' /\ NodesAccounted'
      /\ RangesFit'
  <2>1. \A i \in Ids : regions[i] # Null => regions[i] \in heap'
    BY <1>1 DEF IInv, TableHolds
  <2> QED BY <2>1, <1>1, <1>4, FilesMove
<1>8. Opened(x)' = Opened(x) \cup {f} /\ f \notin Opened(x)
  BY <1>2, <1>5, DriverAssumption DEF Opened
<1>9. \A y \in Objects : y # x => Opened(y)' = Opened(y)
  BY <1>2, <1>5, DriverAssumption DEF Opened
<1>10. HandlerKnows'
  <2>1. ASSUME NEW u \in Tasks PROVE Knows(u)'
    <3>1. Knows(u)
      BY DEF IInv, HandlerKnows
    <3>2. Holds(u) => /\ mem'[region[u]] = mem[region[u]]
                      /\ Opened(region[u])' = Opened(region[u])
      BY <3>1, <1>1, <1>3, <1>4, <1>9 DEF Knows, IInv, TypeOK, Opened
    <3>3. (Holds(u)' <=> Holds(u)) /\ (Building(u)' <=> Building(u))
      BY <1>1 DEF Holds, Building
    <3>4. pc[u] \in {"publish", "device_destroy", "cdev_del"} => Holds(u)
      BY DEF Holds
    <3> QED BY <3>1, <3>2, <3>3, <3>4, <1>1 DEF Knows
  <2> QED BY <2>1 DEF HandlerKnows
<1>11. FilesHold'
  BY <1>1, <1>2, <1>5 DEF IInv, TypeOK, FilesHold
<1>12. ASSUME NEW y \in heap PROVE Counted(y)' /\ Reachable(y)'
  <2>1. y \in Objects /\ Counted(y) /\ Reachable(y)
    BY DEF IInv, TypeOK, ReferencesCounted, NothingLeaked
  <2>2. Kept(y)' <=> Kept(y)
    BY <1>1 DEF Kept, HeldBy
  <2>3. CASE y = x
    <3>1. Opened(y)' = Opened(y) \cup {f} /\ f \notin Opened(y) /\ mem'[y].refs = mem[y].refs + 1
      BY <2>3, <1>1, <1>4, <1>5, <1>8 DEF Opened
    <3>2. Cardinality(Opened(y)') = Cardinality(Opened(y)) + 1
      BY <3>1, OpenedFinite, FS_AddElement
    <3>3. Cardinality(Opened(y)) \in Nat
      BY OpenedFinite
    <3> QED BY <2>1, <2>2, <3>1, <3>2, <3>3 DEF Counted, Reachable
  <2>4. CASE y # x
    <3>1. Opened(y)' = Opened(y) /\ mem'[y] = mem[y]
      BY <2>1, <2>4, <1>4, <1>9
    <3> QED BY <2>1, <2>2, <3>1, <1>1 DEF Counted, Reachable, Holds
  <2> QED BY <2>3, <2>4
<1>13. ReferencesCounted' /\ NothingLeaked'
  BY <1>1, <1>12 DEF ReferencesCounted, NothingLeaked
<1>14. MappedInsideRegion'
  <2>1. windows[f] = {}
    BY <1>1 DEF IInv, FilesHold
  <2>2. \A g \in Files : private[g] \in heap => private[g] \in Objects
    BY DEF IInv, TypeOK
  <2> QED BY <2>1, <2>2, <1>1, <1>4, <1>5 DEF IInv, MappedInsideRegion
<1>15. Unloaded'
  BY <1>1, <1>2 DEF Unloaded
<1> QED BY <1>6, <1>7, <1>10, <1>11, <1>13, <1>14, <1>15 DEF IInv

(* physmap_data_open, whether or not there is a region with the file's     *)
(* minor.                                                                  *)
LEMMA DataOpenStep ==
    ASSUME IInv, NEW f \in Files, DataOpen(f),
           UNCHANGED <<moduleVars, tableVars, kernelVars, taskVars, known>>
    PROVE  IInv'
<1>1. CASE regions[minor[f]] # Null /\ mem[regions[minor[f]]].alive
  BY <1>1, DataOpenTakes
<1>2. CASE ~(regions[minor[f]] # Null /\ mem[regions[minor[f]]].alive)
  <2>1. /\ stage[f] = "opening" /\ stage' = [stage EXCEPT ![f] = "dropping"]
        /\ UNCHANGED <<heap, mem, private, minor, cdev, windows>>
        /\ UNCHANGED <<module, control, regions, id_bitmap, cdevs, nodes, pc, region, id,
                       args, known>>
    BY <1>2 DEF DataOpen, moduleVars, tableVars, kernelVars, taskVars
  <2>2. TypeOK'
    BY <2>1 DEF IInv, TypeOK
  <2>3. FilesHold' /\ MappedInsideRegion'
    BY <2>1 DEF IInv, TypeOK, FilesHold, MappedInsideRegion
  <2>4. Unloaded'
    BY <2>1 DEF IInv, Unloaded
  <2> QED BY <2>1, <2>2, <2>3, <2>4, OwnershipKept DEF memVars
<1> QED BY <1>1, <1>2

(* The last close of a file gives its reference up, and frees the region   *)
(* if no other file, handler or slot has it.                               *)
LEMMA ReleaseStep ==
    ASSUME IInv, NEW f \in Files, Release(f),
           UNCHANGED <<moduleVars, tableVars, kernelVars, taskVars, known>>
    PROVE  IInv'
<1>0. PICK x \in Objects : x = private[f]
  BY DEF Release, IInv, TypeOK, FilesHold
<1>1. /\ stage[f] = "open" /\ stage' = [stage EXCEPT ![f] = "dropping"]
      /\ windows[f] = {}
      /\ mem' = [mem EXCEPT ![x].refs = mem[x].refs - 1]
      /\ heap' = IF mem[x].refs = 1 THEN heap \ {x} ELSE heap
      /\ private' = [private EXCEPT ![f] = Null]
      /\ UNCHANGED <<minor, cdev, windows>>
      /\ UNCHANGED <<module, control, regions, id_bitmap, cdevs, nodes, pc, region, id,
                     args, known>>
  BY <1>0 DEF Release, PutRegion, moduleVars, tableVars, kernelVars, taskVars
<1>2. /\ x \in Objects /\ x \in heap /\ x # Null /\ f \in Opened(x) /\ module = "ready"
      /\ Counted(x)
  BY <1>0, <1>1 DEF IInv, TypeOK, FilesHold, Opened, Unloaded, ReferencesCounted
<1>3. PICK rest : rest = Opened(x) \ {f}
  OBVIOUS
<1>4. /\ Cardinality(Opened(x)) = Cardinality(rest) + 1
      /\ Cardinality(rest) \in Nat
      /\ Cardinality(rest) = 0 <=> rest = {}
  <2>1. /\ IsFiniteSet(rest) /\ Cardinality(rest) = Cardinality(Opened(x)) - 1
        /\ Cardinality(Opened(x)) \in Nat
    BY <1>2, <1>3, OpenedFinite, FS_RemoveElement
  <2> QED BY <2>1, FS_CardinalityType, FS_EmptySet
<1>5. mem[x].refs = Cardinality(rest) + 1 + (IF Kept(x) THEN 1 ELSE 0)
  BY <1>2, <1>4 DEF Counted
<1>6. x \notin heap' <=> rest = {} /\ ~Kept(x)
  BY <1>1, <1>2, <1>4, <1>5
<1>7. heap' \subseteq heap /\ \A y \in heap : y # x => y \in heap'
  BY <1>1
<1>8. /\ mem' \in [Objects -> Region]
      /\ mem'[x].refs = mem[x].refs - 1
      /\ \A y \in Objects : /\ mem'[y].alive = mem[y].alive
                            /\ mem'[y].phys_addr = mem[y].phys_addr
                            /\ mem'[y].size = mem[y].size
                            /\ mem'[y].identifier = mem[y].identifier
                            /\ mem'[y].id = mem[y].id
                            /\ y # x => mem'[y] = mem[y]
  <2>1. mem \in [Objects -> Region] /\ mem[x].refs - 1 \in Int
    BY <1>2 DEF IInv, TypeOK, Region
  <2> QED BY <2>1, <1>1, <1>2, CountChanged
<1>9. private'[f] = Null /\ \A g \in Files : g # f => private'[g] = private[g]
  BY <1>1 DEF IInv, TypeOK
<1>10. TypeOK'
  <2>1. \A y \in Objects : mem'[y].refs >= 0
    <3>1. mem[x].refs >= 1
      BY <1>4, <1>5
    <3>2. mem \in [Objects -> Region] /\ \A y \in Objects : mem[y].refs >= 0
      BY DEF IInv, TypeOK
    <3> QED BY <3>1, <3>2, <1>2, <1>8 DEF Region
  <2>2. heap' \subseteq Objects
    BY <1>7 DEF IInv, TypeOK
  <2> QED BY <2>1, <2>2, <1>1, <1>8 DEF IInv, TypeOK
<1>11. \A i \in Ids : regions[i] # Null => regions[i] \in heap'
  <2> SUFFICES ASSUME NEW i \in Ids, regions[i] # Null PROVE regions[i] \in heap'
    OBVIOUS
  <2>1. regions[i] = x => Kept(x)
    BY DEF Kept
  <2> QED BY <2>1, <1>6, <1>7 DEF IInv, TableHolds
<1>12. /\ BitmapMatchesTable' /\ TableHolds' /\ IdentifiersUnique'
       /\ IdsOwnedOnce' /\ HeldOnce' /\ CdevsAccounted' /\ NodesAccounted'
       /\ RangesFit'
  BY <1>7, <1>8, <1>11, FilesMove
<1>13. \A y \in Objects : y # x => Opened(y)' = Opened(y)
  BY <1>0, <1>9, DriverAssumption DEF Opened
<1>14. Opened(x)' = rest
  BY <1>2, <1>3, <1>9 DEF Opened
<1>15. HandlerKnows'
  <2>1. ASSUME NEW u \in Tasks PROVE Knows(u)'
    <3>1. Knows(u)
      BY DEF IInv, HandlerKnows
    <3>2. Holds(u) => region[u] \in heap
      BY <3>1 DEF Knows
    <3>3. Holds(u) /\ region[u] = x => pc[u] # "publish" /\ Kept(x)
      BY <3>1, <1>2 DEF Knows, Holds, Kept, HeldBy
    <3>4. Holds(u) => region[u] \in heap'
      BY <3>2, <3>3, <1>6, <1>7
    <3>5. pc[u] = "publish" => /\ mem'[region[u]].refs = mem[region[u]].refs
                               /\ Opened(region[u])' = Opened(region[u])
      BY <3>2, <3>3, <1>1, <1>8, <1>9, <1>13 DEF Holds, IInv, TypeOK, Opened
    <3>6. Holds(u) => mem'[region[u]].id = mem[region[u]].id
      BY <3>2, <1>8 DEF IInv, TypeOK
    <3>7. (Holds(u)' <=> Holds(u)) /\ (Building(u)' <=> Building(u))
      BY <1>1 DEF Holds, Building
    <3>8. pc[u] \in {"publish", "device_destroy", "cdev_del"} => Holds(u)
      BY DEF Holds
    <3> QED BY <3>1, <3>4, <3>5, <3>6, <3>7, <3>8, <1>1 DEF Knows
  <2> QED BY <2>1 DEF HandlerKnows
<1>16. FilesHold'
  <2> SUFFICES ASSUME NEW g \in Files
               PROVE  /\ private'[g] \in heap' \cup {Null}
                      /\ stage'[g] = "open" <=> private'[g] # Null
                      /\ stage'[g] # "open" => windows'[g] = {}
    BY DEF FilesHold
  <2>1. CASE g = f
    BY <2>1, <1>1, <1>9 DEF IInv, TypeOK
  <2>2. CASE g # f
    <3>1. private[g] = x => g \in rest
      BY <2>2, <1>3 DEF Opened
    <3> QED BY <2>2, <3>1, <1>1, <1>6, <1>7, <1>9 DEF IInv, TypeOK, FilesHold
  <2> QED BY <2>1, <2>2
<1>17. ASSUME NEW y \in heap' PROVE Counted(y)' /\ Reachable(y)'
  <2>1. y \in heap /\ y \in Objects /\ Counted(y) /\ Reachable(y)
    BY <1>7, <1>17 DEF IInv, TypeOK, ReferencesCounted, NothingLeaked
  <2>2. Kept(y)' <=> Kept(y)
    BY <1>1 DEF Kept, HeldBy
  <2>3. CASE y = x
    <3>1. mem'[y].refs = Cardinality(rest) + (IF Kept(y) THEN 1 ELSE 0)
      BY <2>3, <1>4, <1>5, <1>8
    <3>2. Reachable(y)'
      <4>1. CASE rest # {}
        BY <2>3, <4>1, <1>14 DEF Reachable
      <4>2. CASE Kept(y)'
        BY <4>2 DEF Kept, HeldBy, Reachable, Holds
      <4> QED BY <4>1, <4>2, <2>2, <2>3, <1>6, <1>17
    <3> QED BY <2>2, <2>3, <3>1, <3>2, <1>14 DEF Counted
  <2>4. CASE y # x
    <3>1. Opened(y)' = Opened(y) /\ mem'[y] = mem[y]
      BY <2>1, <2>4, <1>8, <1>13
    <3> QED BY <2>1, <2>2, <3>1, <1>1 DEF Counted, Reachable, Holds
  <2> QED BY <2>3, <2>4
<1>18. ReferencesCounted' /\ NothingLeaked'
  BY <1>17 DEF ReferencesCounted, NothingLeaked
<1>19. MappedInsideRegion'
  <2> SUFFICES ASSUME NEW g \in Files, NEW v \in windows[g]
               PROVE  /\ private'[g] \in heap'
                      /\ v \subseteq Window(mem'[private'[g]].phys_addr, mem'[private'[g]].size)
                      /\ v \subseteq 0..MaxAddress
    BY <1>1 DEF MappedInsideRegion, Window
  <2>1. /\ g # f /\ private[g] \in heap /\ v \subseteq 0..MaxAddress
        /\ v \subseteq Window(mem[private[g]].phys_addr, mem[private[g]].size)
    BY <1>1 DEF IInv, MappedInsideRegion
  <2>2. private'[g] = private[g] /\ private[g] \in heap' /\ private[g] \in Objects
    <3>1. private[g] = x => g \in rest
      BY <2>1, <1>3 DEF Opened
    <3> QED BY <2>1, <3>1, <1>6, <1>7, <1>9 DEF IInv, TypeOK
  <2> QED BY <2>1, <2>2, <1>8
<1>20. Unloaded'
  BY <1>1, <1>2 DEF Unloaded
<1> QED BY <1>10, <1>12, <1>15, <1>16, <1>18, <1>19, <1>20 DEF IInv

(* With ids from creates alone, reading the list changes nothing of        *)
(* interest.                                                               *)
LEMMA ListStep ==
    ASSUME IInv, "list" \notin IdSources, NEW t \in Tasks, List(t),
           UNCHANGED <<moduleVars, fileVars>>
    PROVE  IInv'
<1>1. UNCHANGED vars
  BY DEF List, vars
<1> QED BY <1>1, StutterStep

(* Loading and undoing a load move nothing but the module's own state.     *)
LEMMA LoadStep ==
    ASSUME IInv, ModuleInit \/ ModuleUnwind
    PROVE  IInv'
<1>1. /\ UNCHANGED <<memVars, tableVars, kernelVars, taskVars, known>>
      /\ UNCHANGED <<heap, mem, regions, id_bitmap, cdevs, nodes, pc, region, id, args,
                     stage, minor, cdev, private, windows>>
  BY DEF ModuleInit, ModuleUnwind, memVars, tableVars, kernelVars, taskVars, fileVars
<1>2. /\ module # "ready"
      /\ control' \in 0..4 /\ module' \in {"unloaded", "loading", "unwinding", "ready"}
      /\ module' = "unloaded" => control' = 0
  BY DEF ModuleInit, ModuleUnwind, IInv, TypeOK
<1>3. TypeOK' /\ Unloaded'
  BY <1>1, <1>2 DEF IInv, TypeOK, Unloaded
<1>4. FilesHold' /\ MappedInsideRegion'
  BY <1>1 DEF IInv, FilesHold, MappedInsideRegion
<1> QED BY <1>1, <1>3, <1>4, OwnershipKept

(* Unloading frees every region: with no handler at work and no file open, *)
(* the table's is the only reference to each.                              *)
LEMMA ExitStep ==
    ASSUME IInv, ModuleExit
    PROVE  IInv'
<1> DEFINE gone == {i \in Ids : regions[i] # Null}
           objects == {regions[i] : i \in gone}
<1>1. /\ module = "ready"
      /\ \A t \in Tasks : pc[t] = "idle"
      /\ \A f \in Files : stage[f] = "closed"
      /\ module' = "unloaded" /\ control' = 0 /\ known' = {}
      /\ UNCHANGED <<pc, region, id, args, stage, minor, cdev, private, windows>>
  BY DEF ModuleExit, taskVars, fileVars
<1>2. /\ regions' = [i \in Ids |-> IF i \in gone THEN Null ELSE regions[i]]
      /\ id_bitmap' = id_bitmap \ gone
      /\ nodes' = nodes \ {mem[x].id : x \in objects}
      /\ cdevs' = [i \in Ids |-> IF i \in {mem[x].id : x \in objects}
                                THEN NewestGone(i)[i] ELSE cdevs[i]]
      /\ mem' = [x \in Objects |-> IF x \in objects
                    THEN [mem[x] EXCEPT !.alive = FALSE, !.refs = mem[x].refs - 1]
                    ELSE mem[x]]
      /\ heap' = heap \ {x \in objects : mem[x].refs = 1}
  BY DEF ModuleExit, ExitIds
<1>3. \A f \in Files : private[f] = Null /\ windows[f] = {}
  BY <1>1 DEF IInv, FilesHold
<1>4. \A i \in gone : regions[i] \in objects /\ regions[i] \in heap /\ mem[regions[i]].id = i
  BY DEF IInv, TableHolds
<1>5. \A x \in heap : x \in objects /\ x \in Objects /\ mem[x].refs = 1
  <2> TAKE x \in heap
  <2>1. x \in Objects /\ Counted(x) /\ Reachable(x)
    BY DEF IInv, TypeOK, ReferencesCounted, NothingLeaked
  <2>2. Opened(x) = {} /\ Cardinality(Opened(x)) = 0
    BY <2>1, <1>3, FS_EmptySet, DriverAssumption DEF Opened
  <2>3. PICK i \in Ids : regions[i] = x
    BY <2>1, <2>2, <1>1 DEF Reachable, Holds
  <2>4. i \in gone /\ x \in objects
    BY <2>1, <2>3, DriverAssumption
  <2>5. Kept(x)
    BY <2>3 DEF Kept
  <2> QED BY <2>1, <2>2, <2>4, <2>5 DEF Counted
<1>6. \A x \in objects : x \in heap
  BY <1>4
<1>7. heap' = {}
  BY <1>2, <1>5
<1>8. id_bitmap' = {} /\ \A i \in Ids : regions'[i] = Null
  BY <1>2 DEF IInv, TypeOK, BitmapMatchesTable
<1>9. nodes' = {}
  <2> SUFFICES ASSUME NEW i \in nodes PROVE \E x \in objects : i = mem[x].id
    BY <1>2
  <2>1. i \in Ids /\ Finished(i)
    BY <1>1 DEF IInv, TypeOK, NodesAccounted, NodeOwner
  <2>2. i \in gone
    BY <2>1 DEF Finished
  <2> QED BY <2>2, <1>4
<1>10. cdevs' \in [Ids -> Seq(Objects)] /\ \A i \in Ids : cdevs'[i] = << >>
  <2> DEFINE now(i) == IF i \in {mem[x].id : x \in objects}
                       THEN NewestGone(i)[i] ELSE cdevs[i]
  <2> SUFFICES ASSUME NEW i \in Ids PROVE now(i) = << >>
    <3>1. cdevs' = [i \in Ids |-> now(i)]
      BY <1>2
    <3>2. << >> \in Seq(Objects)
      OBVIOUS
    <3> HIDE DEF now
    <3> QED BY <3>1, <3>2
  <2>1. cdevs \in [Ids -> Seq(Objects)] /\ cdevs[i] \in Seq(Objects)
    BY DEF IInv, TypeOK
  <2>2. CdevOwners(i) = {} /\ Cardinality(CdevOwners(i)) = 0
    BY <1>1, FS_EmptySet DEF CdevOwners, CdevOwner
  <2>3. Added(i) <=> regions[i] # Null
    BY <1>1 DEF Added, Bare
  <2>4. Len(cdevs[i]) = IF regions[i] # Null THEN 1 ELSE 0
    <3>1. CdevsCounted(i)
      BY DEF IInv, CdevsAccounted
    <3> QED BY <2>2, <2>3, <3>1 DEF CdevsCounted
  <2>5. CASE regions[i] = Null
    <3>1. i \notin {mem[x].id : x \in objects}
      BY <2>5, <1>4
    <3> QED BY <2>1, <2>4, <2>5, <3>1
  <2>6. CASE regions[i] # Null
    <3>1. i \in {mem[x].id : x \in objects}
      BY <2>6, <1>4
    <3>2. Len(cdevs[i]) = 1
      BY <2>4, <2>6
    <3>3. NewestGone(i) \in [Ids -> Seq(Objects)] /\ Len(NewestGone(i)[i]) = 0
      <4>1. Len(cdevs[i]) > 0 /\ Len(cdevs[i]) - 1 = 0
        BY <3>2
      <4>2. Len(NewestGone(i)[i]) = Len(cdevs[i]) - 1
        BY <2>1, <4>1, NewestGoes
      <4>3. NewestGone(i) \in [Ids -> Seq(Objects)]
        BY <2>1, <4>1, NewestGoes
      <4> QED BY <4>1, <4>2, <4>3
    <3>4. NewestGone(i)[i] = << >>
      BY <3>3
    <3> QED BY <3>1, <3>4
  <2> QED BY <2>5, <2>6
<1>11. mem' \in [Objects -> Region] /\ \A x \in Objects : mem'[x].refs >= 0
  <2> SUFFICES ASSUME NEW x \in Objects PROVE mem'[x] \in Region /\ mem'[x].refs >= 0
    BY <1>2
  <2>1. mem[x] \in Region /\ mem[x].refs >= 0
    BY DEF IInv, TypeOK
  <2>2. CASE x \in objects
    <3>1. mem[x].refs = 1
      BY <2>2, <1>5, <1>6
    <3>2. mem'[x] = [mem[x] EXCEPT !.alive = FALSE, !.refs = 0]
      <4>1. mem[x].refs - 1 = 0
        BY <3>1
      <4> QED BY <2>2, <4>1, <1>2
    <3>3. PICK r \in Region : r = [mem[x] EXCEPT !.refs = 0] /\ r.refs = 0
      <4>1. [mem[x] EXCEPT !.refs = 0] \in Region /\ [mem[x] EXCEPT !.refs = 0].refs = 0
        BY <2>1 DEF Region
      <4> QED BY ONLY <4>1
    <3>4. mem'[x] = [r EXCEPT !.alive = FALSE]
      BY <2>1, <3>2, <3>3 DEF Region
    <3>5. [r EXCEPT !.alive = FALSE] \in Region /\ [r EXCEPT !.alive = FALSE].refs = r.refs
      BY DEF Region
    <3> QED BY ONLY <3>3, <3>4, <3>5
  <2>3. CASE x \notin objects
    BY <2>1, <2>3, <1>2
  <2> QED BY <2>2, <2>3
<1>12. \A x \in Objects : mem'[x].phys_addr = mem[x].phys_addr /\ mem'[x].size = mem[x].size
  <2> TAKE x \in Objects
  <2>1. mem[x] \in Region
    BY DEF IInv, TypeOK
  <2>2. CASE x \in objects
    BY <2>1, <2>2, <1>2 DEF Region
  <2>3. CASE x \notin objects
    BY <2>3, <1>2
  <2> QED BY <2>2, <2>3
<1>13. regions' \in [Ids -> Objects \cup {Null}]
  BY <1>2 DEF IInv, TypeOK
<1> HIDE DEF gone, objects
<1>14. TypeOK' /\ Unloaded'
  BY <1>1, <1>7, <1>8, <1>9, <1>10, <1>11, <1>13 DEF IInv, TypeOK, Unloaded, Ids
<1>15. /\ BitmapMatchesTable' /\ TableHolds' /\ IdentifiersUnique'
  BY <1>8 DEF BitmapMatchesTable, TableHolds, IdentifiersUnique, Ids
<1>16. IdsOwnedOnce' /\ HeldOnce'
  BY <1>1 DEF IdsOwnedOnce, Owns, Building, HeldOnce, Holds
<1>17. HandlerKnows'
  BY <1>1 DEF IInv, HandlerKnows, Knows, Holds, Building
<1>18. FilesHold' /\ MappedInsideRegion'
  BY <1>1, <1>3 DEF IInv, FilesHold, MappedInsideRegion
<1>19. ReferencesCounted' /\ NothingLeaked'
  BY <1>7 DEF ReferencesCounted, NothingLeaked
<1>20. CdevsAccounted'
  <2> SUFFICES ASSUME NEW i \in Ids PROVE CdevsCounted(i)'
    BY DEF CdevsAccounted, Ids
  <2>1. CdevOwners(i)' = {} /\ ~Added(i)' /\ cdevs'[i] = << >>
    BY <1>1, <1>8, <1>10 DEF CdevOwners, CdevOwner, Added
  <2> QED BY <2>1, FS_EmptySet DEF CdevsCounted
<1>21. NodesAccounted'
  BY <1>1, <1>8, <1>9 DEF NodesAccounted, NodeOwner, Finished, Ids
<1>22. RangesFit'
  BY <1>12 DEF IInv, RangesFit
<1> QED
  BY <1>14, <1>15, <1>16, <1>17, <1>18, <1>19, <1>20, <1>21, <1>22 DEF IInv

(* Before the module is loaded nothing exists.                             *)
LEMMA InitInvariant == Init => IInv
<1> SUFFICES ASSUME Init PROVE IInv
  OBVIOUS
<1>1. Zeroed \in Region /\ Zeroed.refs = 0 /\ Zeroed.phys_addr = 0 /\ Zeroed.size = 0
  BY DEF Zeroed, Region
<1>2. 0 \in Ids /\ 0 \in 0..MaxMappings /\ MaxAddress \in Nat
  BY DriverAssumption DEF Ids
<1>3. TypeOK
  BY <1>1, <1>2 DEF Init, TypeOK, Steps
<1>4. BitmapMatchesTable /\ TableHolds /\ IdentifiersUnique /\ IdsOwnedOnce /\ HeldOnce
  BY DEF Init, BitmapMatchesTable, TableHolds, IdentifiersUnique, IdsOwnedOnce, Owns,
         Building, HeldOnce, Holds
<1>5. HandlerKnows
  BY DEF Init, HandlerKnows, Knows, Building, Holds
<1>6. FilesHold /\ MappedInsideRegion /\ ReferencesCounted /\ NothingLeaked
  BY DEF Init, FilesHold, MappedInsideRegion, ReferencesCounted, NothingLeaked
<1>7. CdevsAccounted
  <2> SUFFICES ASSUME NEW i \in Ids PROVE CdevsCounted(i)
    BY DEF CdevsAccounted
  <2>1. CdevOwners(i) = {} /\ ~Added(i) /\ cdevs[i] = << >>
    BY DEF Init, CdevOwners, CdevOwner, Added
  <2> QED BY <2>1, FS_EmptySet DEF CdevsCounted
<1>8. NodesAccounted
  BY DEF Init, NodesAccounted, Finished, NodeOwner
<1>9. RangesFit
  BY <1>1, <1>2 DEF Init, RangesFit
<1>10. Unloaded
  BY DEF Init, Unloaded
<1> QED BY <1>3, <1>4, <1>5, <1>6, <1>7, <1>8, <1>9, <1>10 DEF IInv

(* Every step keeps the invariant if destroys name only ids that a create  *)
(* returned.                                                               *)
LEMMA StepInvariant ==
    ASSUME IInv, [Next]_vars, "list" \notin IdSources
    PROVE  IInv'
<1>1. CASE UNCHANGED vars
  BY <1>1, StutterStep
<1>2. CASE ModuleInit \/ ModuleUnwind
  BY <1>2, LoadStep
<1>3. CASE ModuleExit
  BY <1>3, ExitStep
<1>4. ASSUME NEW t \in Tasks, Ioctl(t) PROVE IInv'
  BY <1>4, CreateStep, PublishStep, CdevAddStep, DeviceCreateStep, ErrClearStep,
     CopyToUserStep, DestroyStep, UnpublishStep, DeviceDestroyStep, CdevDelStep,
     PutStep, ListStep DEF Ioctl
<1>5. ASSUME NEW f \in Files, FileOperation(f) PROVE IInv'
  BY <1>5, VfsOpenStep, DataOpenStep, ReleaseStep, DropCdevStep, MmapStep, MunmapStep
     DEF FileOperation
<1> QED BY <1>1, <1>2, <1>3, <1>4, <1>5 DEF Next

(* What the handlers, files, table and device model hold is accounted for  *)
(* in every reachable state.                                               *)
THEOREM DriverInvariance ==
    ASSUME "list" \notin IdSources
    PROVE  Spec => []IInv
<1>1. IInv /\ [Next]_vars => IInv'
  BY StepInvariant
<1> QED BY <1>1, InitInvariant, PTL DEF Spec

-----------------------------------------------------------------------------
(* What follows from the invariant.  *)

(* Every pointer in use is to memory that is allocated.                    *)
LEMMA PointersValid == IInv => NoUseAfterFree
<1> SUFFICES ASSUME IInv PROVE NoUseAfterFree
  OBVIOUS
<1>1. \A i \in Ids : regions[i] \in heap \cup {Null}
  BY DEF IInv, TableHolds
<1>2. ASSUME NEW t \in Tasks PROVE region[t] \in heap \cup {Null}
  <2>1. Knows(t) /\ pc[t] \in Steps
    BY DEF IInv, TypeOK, HandlerKnows
  <2>2. pc[t] \in {"idle", "unpublish"} \/ Building(t) \/ Holds(t)
    BY <2>1 DEF Steps, Building, Holds
  <2> QED BY <2>1, <2>2, <1>1 DEF Knows
<1>3. \A f \in Files : private[f] \in heap \cup {Null}
  BY DEF IInv, FilesHold
<1> QED BY <1>1, <1>2, <1>3 DEF NoUseAfterFree

(* The devices of an id that nobody works on are those of its mapping.     *)
LEMMA DevicesSettled == IInv => DevicesMatchTable
<1> SUFFICES ASSUME IInv, NEW i \in Ids, ~Busy(i)
             PROVE  /\ i \in nodes <=> regions[i] # Null
                    /\ Len(cdevs[i]) = IF regions[i] # Null THEN 1 ELSE 0
  BY DEF DevicesMatchTable
<1>1. \A t \in Tasks : /\ ~Unfinished(t, i) /\ ~NodeOwner(t, i) /\ ~Bare(t, i)
                       /\ ~CdevOwner(t, i)
  BY DEF Busy, Unfinished, NodeOwner, Bare, CdevOwner
<1>2. i \in nodes <=> regions[i] # Null
  BY <1>1 DEF IInv, NodesAccounted, Finished
<1>3. CdevOwners(i) = {} /\ Cardinality(CdevOwners(i)) = 0
  BY <1>1, FS_EmptySet DEF CdevOwners
<1>4. Added(i) <=> regions[i] # Null
  BY <1>1 DEF Added
<1>5. CdevsCounted(i)
  BY DEF IInv, CdevsAccounted
<1> QED BY <1>2, <1>3, <1>4, <1>5 DEF CdevsCounted

(* No step changes the range of a region that a file has open.             *)
LEMMA RangeKept ==
    ASSUME IInv, [Next]_vars, NEW f \in Files, private[f] # Null
    PROVE  /\ mem'[private[f]].phys_addr = mem[private[f]].phys_addr
           /\ mem'[private[f]].size = mem[private[f]].size
<1> DEFINE x == private[f]
           RangeSame == mem'[x].phys_addr = mem[x].phys_addr /\ mem'[x].size = mem[x].size
<1>1. /\ x \in heap /\ x \in Objects /\ mem \in [Objects -> Region] /\ stage[f] = "open"
      /\ \A y \in Objects : mem[y].refs \in Int
  BY DEF IInv, TypeOK, FilesHold, Region
<1>2. ASSUME NEW y \in Objects, mem' = [mem EXCEPT ![y].alive = FALSE] PROVE RangeSame
  BY <1>1, <1>2, FlagCleared
<1>3. ASSUME NEW y \in Objects, NEW n \in Int, mem' = [mem EXCEPT ![y].refs = n]
      PROVE  RangeSame
  BY <1>1, <1>3, CountChanged
<1>4. ASSUME NEW y, y # x, NEW r, mem' = [mem EXCEPT ![y] = r] PROVE RangeSame
  BY <1>1, <1>4
<1>5. ASSUME NEW y \in Objects, PutRegion(y) PROVE RangeSame
  BY <1>1, <1>3, <1>5 DEF PutRegion
<1>6. CASE UNCHANGED vars
  BY <1>6 DEF vars, memVars
<1>7. CASE ModuleInit \/ ModuleUnwind
  BY <1>7 DEF ModuleInit, ModuleUnwind, memVars
<1>8. CASE ModuleExit
  BY <1>1, <1>8 DEF ModuleExit
<1>9. ASSUME NEW t \in Tasks, Ioctl(t) PROVE RangeSame
  <2>1. CASE Create(t)
    <3>1. PICK y \in Objects \ heap : mem' = [mem EXCEPT ![y] = Zeroed]
      BY <2>1 DEF Create
    <3>2. y # x
      BY <1>1
    <3> QED BY <3>1, <3>2, <1>4
  <2>2. CASE Publish(t)
    <3>1. region[t] # x
      BY <2>2 DEF Publish, IInv, HandlerKnows, Knows, Opened
    <3> QED BY <2>2, <3>1, <1>4 DEF Publish
  <2>3. CASE ErrClear(t)
    <3>1. region[t] \in Objects /\ mem' = [mem EXCEPT ![region[t]].alive = FALSE]
      BY <2>3, BuilderKnows DEF ErrClear, ClearSlot, Building
    <3> QED BY <3>1, <1>2
  <2>4. CASE Unpublish(t)
    <3>1. CASE id[t] >= MaxMappings \/ regions[id[t]] = Null
      BY <2>4, <3>1 DEF Unpublish
    <3>2. CASE ~(id[t] >= MaxMappings \/ regions[id[t]] = Null)
      <4>1. regions[id[t]] \in Objects
        BY <3>2, DriverAssumption DEF IInv, TypeOK, Ids
      <4>2. mem' = [mem EXCEPT ![regions[id[t]]].alive = FALSE]
        BY <2>4, <3>2 DEF Unpublish, ClearSlot
      <4> QED BY <4>1, <4>2, <1>2
    <3> QED BY <3>1, <3>2
  <2>5. CASE Put(t)
    <3>1. region[t] \in Objects /\ PutRegion(region[t])
      BY <2>5 DEF Put, IInv, TypeOK, HandlerKnows, Knows, Holds
    <3> QED BY <3>1, <1>5
  <2>6. CASE CdevAdd(t) \/ DeviceCreate(t) \/ CopyToUser(t)
    BY <2>6 DEF CdevAdd, DeviceCreate, CopyToUser, memVars
  <2>7. CASE Destroy(t) \/ DeviceDestroy(t) \/ CdevDel(t) \/ List(t)
    BY <2>7 DEF Destroy, DeviceDestroy, CdevDel, List, memVars
  <2> QED BY <1>9, <2>1, <2>2, <2>3, <2>4, <2>5, <2>6, <2>7 DEF Ioctl
<1>10. ASSUME NEW g \in Files, FileOperation(g) PROVE RangeSame
  <2>1. CASE DataOpen(g)
    <3>1. CASE regions[minor[g]] # Null /\ mem[regions[minor[g]]].alive
      <4>1. regions[minor[g]] \in Objects
        BY <3>1 DEF IInv, TypeOK
      <4>2. mem' = [mem EXCEPT ![regions[minor[g]]].refs = mem[regions[minor[g]]].refs + 1]
        BY <2>1, <3>1 DEF DataOpen, ReferenceTaken
      <4>3. mem[regions[minor[g]]].refs + 1 \in Int
        BY <4>1, <1>1
      <4> QED BY <4>1, <4>2, <4>3, <1>3
    <3>2. CASE ~(regions[minor[g]] # Null /\ mem[regions[minor[g]]].alive)
      BY <2>1, <3>2 DEF DataOpen
    <3> QED BY <3>1, <3>2
  <2>2. CASE Release(g)
    <3>1. private[g] \in Objects /\ PutRegion(private[g])
      BY <2>2 DEF Release, IInv, TypeOK, FilesHold
    <3> QED BY <3>1, <1>5
  <2>3. CASE VfsOpen(g) \/ DropCdev(g) \/ Mmap(g) \/ Munmap(g)
    BY <2>3 DEF VfsOpen, DropCdev, Mmap, Munmap, memVars
  <2> QED BY <1>10, <2>1, <2>2, <2>3 DEF FileOperation
<1> QED BY <1>6, <1>7, <1>8, <1>9, <1>10 DEF Next

(* No reference count is negative and no id outside the table.             *)
THEOREM DriverTyped ==
    ASSUME "list" \notin IdSources
    PROVE  Spec => []TypeOK
BY DriverInvariance, PTL DEF IInv

(* Two active mappings never have one identifier.                          *)
THEOREM IdentifiersSafe ==
    ASSUME "list" \notin IdSources
    PROVE  Spec => []IdentifiersUnique
BY DriverInvariance, PTL DEF IInv

(* Every count is the number of those that will give a reference back.     *)
THEOREM ReferencesSafe ==
    ASSUME "list" \notin IdSources
    PROVE  Spec => []ReferencesCounted
BY DriverInvariance, PTL DEF IInv

(* Neither the table nor a handler nor an open file uses freed memory.     *)
THEOREM MemorySafe ==
    ASSUME "list" \notin IdSources
    PROVE  Spec => []NoUseAfterFree
BY DriverInvariance, PointersValid, PTL

(* Device nodes and cdevs exist for exactly the mappings, up to the        *)
(* handlers that are making or removing them.                              *)
THEOREM DevicesSafe ==
    ASSUME "list" \notin IdSources
    PROVE  Spec => []DevicesMatchTable
BY DriverInvariance, DevicesSettled, PTL

(* Whatever is mapped through a file lies in the region that it opened.    *)
THEOREM MappingsSafe ==
    ASSUME "list" \notin IdSources
    PROVE  Spec => []MappedInsideRegion
BY DriverInvariance, PTL DEF IInv

(* An unloaded module has left no region, node, cdev or registration.      *)
THEOREM UnloadSafe ==
    ASSUME "list" \notin IdSources
    PROVE  Spec => []UnloadLeavesNothing
<1>1. IInv => UnloadLeavesNothing
  BY DEF IInv, Unloaded, UnloadLeavesNothing
<1> QED BY <1>1, DriverInvariance, PTL

(* An open file keeps its range whatever is created and destroyed.         *)
THEOREM RangesSafe ==
    ASSUME "list" \notin IdSources
    PROVE  Spec => FilesKeepTheirRange
<1>1. IInv /\ [Next]_vars =>
         [\A f \in Files : private[f] # Null /\ private'[f] = private[f] =>
             /\ mem'[private[f]].phys_addr = mem[private[f]].phys_addr
             /\ mem'[private[f]].size = mem[private[f]].size]_vars
  BY RangeKept
<1> QED BY <1>1, DriverInvariance, PTL DEF Spec, FilesKeepTheirRange

-----------------------------------------------------------------------------
(* What holds whatever ids destroys name.                                  *)

(* Enough of the types for the bitmap, and what a create knows of its id.  *)
TableInv ==
    /\ pc \in [Tasks -> Steps]
    /\ region \in [Tasks -> Objects \cup {Null}]
    /\ id \in [Tasks -> 0..MaxMappings]
    /\ regions \in [Ids -> Objects \cup {Null}]
    /\ id_bitmap \subseteq Ids
    /\ known \subseteq Ids
    /\ BitmapMatchesTable
    /\ \A t \in Tasks : /\ pc[t] = "publish" => region[t] \in Objects
                        /\ Building(t) => id[t] \in Ids

(* Clearing a slot and its bit together keeps them in agreement.           *)
LEMMA SlotCleared ==
    ASSUME TableInv, NEW i \in Ids, NEW x, ClearSlot(i, x)
    PROVE  /\ regions' \in [Ids -> Objects \cup {Null}] /\ id_bitmap' \subseteq Ids
           /\ BitmapMatchesTable'
BY DEF TableInv, ClearSlot, BitmapMatchesTable, Ids

(* No step of a handler separates the bitmap from the table.               *)
LEMMA TableIoctl ==
    ASSUME TableInv, NEW t \in Tasks, Ioctl(t)
    PROVE  TableInv'
<1>1. 0 \in 0..MaxMappings /\ MaxMappings \in Nat
  BY DriverAssumption
<1>2. ASSUME Return(t), UNCHANGED <<regions, id_bitmap>>, known' \subseteq Ids PROVE TableInv'
  BY <1>1, <1>2 DEF TableInv, Return, Goto, Steps, BitmapMatchesTable, Building
<1>3. CASE Create(t)
  BY <1>3 DEF TableInv, Create, Idle, Goto, tableVars, Steps, BitmapMatchesTable, Building
<1>4. CASE Publish(t)
  <2>1. CASE IdentifierExists(args[t].identifier) \/ Full
    BY <1>2, <1>4, <2>1 DEF Publish, tableVars, TableInv
  <2>2. CASE ~(IdentifierExists(args[t].identifier) \/ Full)
    <3> DEFINE i == FirstZeroBit
    <3>1. i \in Ids /\ i \in 0..MaxMappings
      BY <2>2, <1>1, FreeId DEF TableInv, Ids
    <3> HIDE DEF i
    <3>2. /\ regions' = [regions EXCEPT ![i] = region[t]] /\ id_bitmap' = id_bitmap \cup {i}
          /\ id' = [id EXCEPT ![t] = i] /\ pc' = [pc EXCEPT ![t] = "cdev_add"]
          /\ region' = region /\ known' = known
      BY <1>4, <2>2 DEF Publish, Goto, i
    <3>3. region[t] \in Objects /\ Null \notin Objects
      BY <1>4, DriverAssumption DEF Publish, TableInv
    <3>4. BitmapMatchesTable'
      BY <3>1, <3>2, <3>3 DEF TableInv, BitmapMatchesTable, Ids
    <3> QED BY <3>1, <3>2, <3>3, <3>4 DEF TableInv, Building, Steps
  <2> QED BY <2>1, <2>2
<1>5. CASE ErrClear(t)
  <2>1. id[t] \in Ids
    BY <1>5 DEF ErrClear, TableInv, Building
  <2> QED BY <1>5, <2>1, SlotCleared DEF ErrClear, Goto, TableInv, Building, Steps
<1>6. CASE Unpublish(t)
  <2>1. CASE id[t] >= MaxMappings \/ regions[id[t]] = Null
    BY <1>2, <1>6, <2>1 DEF Unpublish, tableVars, TableInv
  <2>2. CASE ~(id[t] >= MaxMappings \/ regions[id[t]] = Null)
    <3>1. id[t] \in Ids /\ regions[id[t]] \in Objects
      BY <2>2, <1>1 DEF TableInv, Ids
    <3>2. /\ ClearSlot(id[t], regions[id[t]]) /\ pc' = [pc EXCEPT ![t] = "device_destroy"]
          /\ region' = [region EXCEPT ![t] = regions[id[t]]] /\ id' = id /\ known' = known
      BY <1>6, <2>2 DEF Unpublish, Goto
    <3> QED BY <3>1, <3>2, SlotCleared DEF TableInv, Building, Steps
  <2> QED BY <2>1, <2>2
<1>7. CASE CopyToUser(t)
  <2>1. CASE Return(t) /\ known' = known \cup {id[t]}
    <3>1. known' \subseteq Ids /\ UNCHANGED <<regions, id_bitmap>>
      BY <1>7, <2>1 DEF CopyToUser, TableInv, Building, tableVars
    <3> QED BY <1>2, <2>1, <3>1
  <2>2. CASE Goto(t, "unpublish") /\ region' = [region EXCEPT ![t] = Null]
             /\ UNCHANGED <<id, args, known>>
    BY <1>7, <2>2 DEF CopyToUser, Goto, TableInv, Building, Steps, tableVars, BitmapMatchesTable
  <2> QED BY <1>7, <2>1, <2>2 DEF CopyToUser
<1>8. CASE Put(t)
  BY <1>2, <1>8 DEF Put, tableVars, TableInv
<1>9. CASE CdevAdd(t) \/ DeviceCreate(t)
  BY <1>9 DEF CdevAdd, DeviceCreate, Goto, tableVars, TableInv, Building, Steps,
              BitmapMatchesTable
<1>10. CASE DeviceDestroy(t) \/ CdevDel(t)
  BY <1>10 DEF DeviceDestroy, CdevDel, Goto, tableVars, TableInv, Building, Steps,
               BitmapMatchesTable
<1>11. CASE Destroy(t)
  <2>1. PICK i \in known \cup {MaxMappings} :
           id' = [id EXCEPT ![t] = i] /\ known' = known \ {i}
    BY <1>11 DEF Destroy
  <2>2. i \in 0..MaxMappings
    BY <1>1 DEF TableInv, Ids
  <2> QED BY <1>11, <2>1, <2>2 DEF Destroy, Goto, tableVars, TableInv, Building, Steps,
                                   BitmapMatchesTable
<1>12. CASE List(t)
  <2>1. known' \subseteq Ids
    BY <1>12 DEF List, Listed, TableInv
  <2> QED BY <1>12, <2>1 DEF List, tableVars, taskVars, TableInv, Building, BitmapMatchesTable
<1> QED
  BY <1>3, <1>4, <1>5, <1>6, <1>7, <1>8, <1>9, <1>10, <1>11, <1>12 DEF Ioctl

(* The bitmap agrees with the table even if destroys race with creates.    *)
THEOREM BitmapSafe == Spec => []BitmapMatchesTable
<1>1. Init => TableInv
  BY DriverAssumption DEF Init, TableInv, Steps, BitmapMatchesTable, Building
<1>2. TableInv /\ [Next]_vars => TableInv'
  <2> SUFFICES ASSUME TableInv, [Next]_vars PROVE TableInv'
    OBVIOUS
  <2>1. CASE UNCHANGED <<tableVars, taskVars, known>>
    BY <2>1 DEF tableVars, taskVars, TableInv, Building, BitmapMatchesTable
  <2>2. CASE UNCHANGED vars
    BY <2>1, <2>2 DEF vars
  <2>3. CASE ModuleInit \/ ModuleUnwind
    BY <2>1, <2>3 DEF ModuleInit, ModuleUnwind
  <2>4. CASE ModuleExit
    <3> DEFINE gone == {i \in Ids : regions[i] # Null}
    <3>1. /\ regions' = [i \in Ids |-> IF i \in gone THEN Null ELSE regions[i]]
          /\ id_bitmap' = id_bitmap \ gone /\ known' = {}
          /\ UNCHANGED <<pc, region, id>>
      BY <2>4 DEF ModuleExit, ExitIds, taskVars
    <3>2. BitmapMatchesTable'
      BY <3>1 DEF TableInv, BitmapMatchesTable, Ids
    <3> QED BY <3>1, <3>2 DEF TableInv, Building
  <2>5. ASSUME NEW t \in Tasks, Ioctl(t) PROVE TableInv'
    BY <2>5, TableIoctl
  <2>6. ASSUME NEW f \in Files, FileOperation(f) PROVE TableInv'
    BY <2>1, <2>6 DEF FileOperation
  <2> QED BY <2>2, <2>3, <2>4, <2>5, <2>6 DEF Next
<1>3. TableInv => BitmapMatchesTable
  BY DEF TableInv
<1> QED BY <1>1, <1>2, <1>3, PTL DEF Spec
=============================================================================
