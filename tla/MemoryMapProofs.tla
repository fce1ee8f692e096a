-------------------------- MODULE MemoryMapProofs --------------------------
(***************************************************************************)
(* Proofs about MemoryMap, for a memory of every size and every slack.     *)
(***************************************************************************)
EXTENDS MemoryMap, FiniteSetTheorems, TLAPS

\* A map has no more descriptors than there are pages.
LEMMA DescriptorsBounded == \A m : Descriptors(m) \in 0 .. (Last + 1)
<1> USE MemoryAssumption
<1>1. IsFiniteSet(Pages) /\ Cardinality(Pages) = Last + 1
  BY FS_Interval DEF Pages
<1> TAKE m
<1> DEFINE Firsts == {p \in Pages : p = 0 \/ m[p] # m[p - 1]}
<1>2. Firsts \in SUBSET Pages
  OBVIOUS
<1> HIDE DEF Firsts
<1>3. IsFiniteSet(Firsts) /\ Cardinality(Firsts) <= Last + 1
  BY <1>1, <1>2, FS_Subset
<1>4. Cardinality(Firsts) \in Nat
  BY <1>3, FS_CardinalityType
<1> QED BY <1>3, <1>4 DEF Descriptors, Firsts

\* Marking pages makes a map of a map.
LEMMA MarkIsMap ==
  ASSUME map \in Maps, NEW run, NEW memory_type \in MemoryType
  PROVE  /\ Mark(run, memory_type) \in Maps
         /\ \A p \in Pages : Mark(run, memory_type)[p] = IF p \in run THEN memory_type ELSE map[p]
BY DEF Mark, Maps

-----------------------------------------------------------------------------
(* The inductive invariant: a key that is current belongs to the copy, and *)
(* the pages of the client are marked as such, those it has allocated      *)
(* apart from those of its pool.                                           *)

KeyOfCopy == listed /\ map_key = "current" => copy = map

Left == phase = "ended" => listed /\ map_key = "current"

PagesMarked ==
  /\ pool \cap claimed = {}
  /\ \A p \in pool \cup claimed : map[p] = "LoaderData"

IInv == TypeOK /\ KeyOfCopy /\ Left /\ PagesMarked

LEMMA InitIInv == Init => IInv
<1> SUFFICES ASSUME Init PROVE IInv
  OBVIOUS
<1>1. map \in Maps
  <2>1. map \in [Pages -> MemoryType \ {"LoaderData"}] /\ MemoryType \ {"LoaderData"} \subseteq MemoryType
    BY DEF Init
  <2> HIDE DEF MemoryType
  <2> QED BY <2>1 DEF Maps
<1>2. 0 \in 0 .. (Last + 1) /\ 0 \in 0 .. (Last + 1 + Slack)
  BY MemoryAssumption
<1>3. TypeOK
  BY <1>1, <1>2 DEF Init, TypeOK
<1> QED BY <1>3 DEF Init, IInv, KeyOfCopy, Left, PagesMarked

\* A change of the map makes the key stale, so that the copy may differ.
LEMMA TouchStep ==
  ASSUME IInv, NEW new \in Maps, Touch(new), copy' = copy, listed' = listed
  PROVE  map' \in Maps /\ map_key' \in {"current", "stale", "no key"} /\ KeyOfCopy'
BY DEF IInv, TypeOK, KeyOfCopy, Touch

-----------------------------------------------------------------------------
(* One step for each method.                                               *)

LEMMA allocate_pagesStep ==
  ASSUME IInv, NEW type \in AllocateType, NEW pages \in {1, 2}, NEW memory \in Pages,
         allocate_pages(type, pages, memory)
  PROVE  IInv'
<1> USE DEF allocate_pages, IInv
<1>1. CASE Places(type, pages, memory) = {}
  BY <1>1 DEF allocate_pages_, TypeOK, KeyOfCopy, Left, PagesMarked
<1>2. CASE Places(type, pages, memory) # {}
  <2>1. PICK first \in Places(type, pages, memory) :
          /\ Touch(Mark(Run(first, pages), "LoaderData"))
          /\ claimed' = claimed \cup Run(first, pages)
    BY <1>2 DEF allocate_pages_
  <2>2. Run(first, pages) \subseteq Free(map)
    BY <2>1 DEF Places
  <2> DEFINE new == Mark(Run(first, pages), "LoaderData")
  <2>3. new \in Maps /\ \A p \in Pages : new[p] = IF p \in Run(first, pages) THEN "LoaderData" ELSE map[p]
    BY MarkIsMap DEF TypeOK, MemoryType
  <2> HIDE DEF new
  <2>4. Touch(new)
    BY <2>1 DEF new
  <2>5. TypeOK' /\ KeyOfCopy'
    BY <2>1, <2>2, <2>3, <2>4, TouchStep DEF TypeOK, Free
  <2>6. PagesMarked'
    BY <2>1, <2>2, <2>3, <2>4 DEF PagesMarked, Touch, Free, TypeOK
  <2> QED BY <2>5, <2>6 DEF Left
<1> QED BY <1>1, <1>2

LEMMA free_pagesStep ==
  ASSUME IInv, NEW memory \in Pages, NEW pages \in {1, 2}, free_pages(memory, pages)
  PROVE  IInv'
<1> USE DEF free_pages, free_pages_, IInv
<1> DEFINE new == Mark(Run(memory, pages), "ConventionalMemory")
<1>1. new \in Maps /\ \A p \in Pages :
        new[p] = IF p \in Run(memory, pages) THEN "ConventionalMemory" ELSE map[p]
  BY MarkIsMap DEF TypeOK, MemoryType
<1>2. Touch(new)
  OBVIOUS
<1> HIDE DEF new
<1>3. TypeOK' /\ KeyOfCopy'
  BY <1>1, <1>2, TouchStep DEF TypeOK
<1>4. PagesMarked'
  BY <1>1, <1>2 DEF PagesMarked, Touch, TypeOK
<1> QED BY <1>3, <1>4 DEF Left

LEMMA allocate_poolStep == ASSUME IInv, allocate_pool PROVE IInv'
<1> USE MemoryAssumption DEF allocate_pool, IInv
<1>1. capacity' \in 0 .. (Last + 1 + Slack)
  <2>1. capacity' \in {capacity, memory_map_size + Slack}
    BY DEF allocate_pool_
  <2>2. capacity \in 0 .. (Last + 1 + Slack) /\ memory_map_size \in 0 .. (Last + 1)
    BY DEF TypeOK
  <2> HIDE DEF allocate_pool, IInv
  <2>3. Last \in Nat /\ Slack \in Nat
    BY MemoryAssumption
  <2> QED BY <2>1, <2>2, <2>3
<1>2. KeyOfCopy' /\ Left'
  BY DEF KeyOfCopy, Left, Calls
<1>3. CASE UNCHANGED <<map, map_key, pool>>
  BY <1>1, <1>2, <1>3 DEF TypeOK, PagesMarked
<1>4. ASSUME NEW p \in Free(map), Touch(Mark({p}, "LoaderData")), pool' = pool \cup {p}
      PROVE  IInv'
  <2> DEFINE new == Mark({p}, "LoaderData")
  <2>1. new \in Maps /\ \A q \in Pages : new[q] = IF q \in {p} THEN "LoaderData" ELSE map[q]
    BY MarkIsMap DEF TypeOK, MemoryType
  <2>2. Touch(new)
    BY <1>4
  <2> HIDE DEF new
  <2>3. TypeOK'
    BY <1>1, <1>4, <2>1, <2>2 DEF TypeOK, Touch, Free
  <2>4. PagesMarked'
    BY <1>4, <2>1, <2>2 DEF PagesMarked, Touch, Free, TypeOK
  <2> QED BY <1>2, <2>3, <2>4
<1> QED BY <1>3, <1>4 DEF allocate_pool_

LEMMA free_poolStep == ASSUME IInv, free_pool PROVE IInv'
<1> USE DEF free_pool, IInv
<1>0. capacity' \in 0 .. (Last + 1 + Slack)
  BY MemoryAssumption
<1>1. KeyOfCopy' /\ Left'
  BY DEF KeyOfCopy, Left, Calls
<1>2. CASE UNCHANGED <<map, map_key, pool>>
  BY <1>0, <1>1, <1>2 DEF TypeOK, PagesMarked
<1>3. ASSUME NEW p \in pool, Touch(Mark({p}, "ConventionalMemory")), pool' = pool \ {p}
      PROVE  IInv'
  <2> DEFINE new == Mark({p}, "ConventionalMemory")
  <2>1. new \in Maps /\ \A q \in Pages : new[q] = IF q \in {p} THEN "ConventionalMemory" ELSE map[q]
    BY MarkIsMap DEF TypeOK, MemoryType
  <2>2. Touch(new)
    BY <1>3
  <2> HIDE DEF new
  <2>3. TypeOK'
    BY <1>0, <1>3, <2>1, <2>2 DEF TypeOK, Touch
  <2>4. PagesMarked'
    BY <1>3, <2>1, <2>2 DEF PagesMarked, Touch, TypeOK
  <2> QED BY <1>1, <2>3, <2>4
<1> QED BY <1>2, <1>3 DEF free_pool_

LEMMA get_memory_mapStep == ASSUME IInv, get_memory_map PROVE IInv'
<1> USE DEF get_memory_map, get_memory_map_, IInv
<1>1. TypeOK'
  BY DescriptorsBounded DEF TypeOK
<1>2. KeyOfCopy' /\ Left'
  BY DEF KeyOfCopy, Left, Calls
<1>3. PagesMarked'
  BY DEF PagesMarked
<1> QED BY <1>1, <1>2, <1>3

LEMMA exit_boot_servicesStep == ASSUME IInv, exit_boot_services PROVE IInv'
<1> USE DEF exit_boot_services, IInv
<1>1. PICK m \in Notified :
        /\ phase' = IF map_key = "current" /\ m = map THEN "ended" ELSE "leaving"
        /\ Touch(m)
  BY DEF exit_boot_services_
<1>2. m \in Maps /\ \A p \in pool \cup claimed : m[p] = "LoaderData"
  <2>1. CASE m = map
    BY <2>1 DEF TypeOK, PagesMarked
  <2>2. CASE m # map
    <3>1. PICK p \in Pages, t \in MemoryType : map[p] # "LoaderData" /\ m = [map EXCEPT ![p] = t]
      BY <2>2 DEF Notified
    <3> QED BY <3>1 DEF TypeOK, PagesMarked, Maps
  <2> QED BY <2>1, <2>2
<1>3. TypeOK' /\ PagesMarked'
  BY <1>1, <1>2 DEF TypeOK, PagesMarked, Touch
<1>4. KeyOfCopy' /\ Left'
  BY <1>1 DEF KeyOfCopy, Left, Touch
<1> QED BY <1>3, <1>4

LEMMA DriversStep == ASSUME IInv, NEW p \in Pages, Drivers(p) PROVE IInv'
<1> USE DEF Drivers, IInv
<1>1. PICK memory_type \in {"BootServicesData", "ConventionalMemory"} :
        Touch(Mark({p}, memory_type)) /\ map[p] # "LoaderData"
  OBVIOUS
<1> DEFINE new == Mark({p}, memory_type)
<1>2. new \in Maps /\ \A q \in Pages : new[q] = IF q \in {p} THEN memory_type ELSE map[q]
  <2>1. memory_type \in MemoryType /\ map \in Maps
    BY <1>1 DEF TypeOK, MemoryType
  <2> HIDE DEF Drivers, IInv
  <2> QED BY <2>1, MarkIsMap
<1>3. Touch(new)
  BY <1>1
<1> HIDE DEF new
<1>4. TypeOK' /\ KeyOfCopy'
  BY <1>2, <1>3, TouchStep DEF TypeOK
<1>5. PagesMarked'
  BY <1>1, <1>2, <1>3 DEF PagesMarked, Touch, TypeOK
<1> QED BY <1>4, <1>5 DEF Left

LEMMA NextIInv == IInv /\ [Next]_vars => IInv'
<1> SUFFICES ASSUME IInv, [Next]_vars PROVE IInv'
  OBVIOUS
<1>1. CASE UNCHANGED vars
  BY <1>1 DEF vars, client, IInv, TypeOK, KeyOfCopy, Left, PagesMarked
<1>2. CASE Next
  BY <1>2, allocate_pagesStep, free_pagesStep, allocate_poolStep, free_poolStep,
     get_memory_mapStep, exit_boot_servicesStep, DriversStep DEF Next, Loader
<1> QED BY <1>1, <1>2

\* The inductive invariant holds always: whatever the loader's calls and the drivers' change,
\* a key that get_memory_map has made current belongs to the copy it made.
THEOREM Invariance == Spec => []IInv
BY InitIInv, NextIInv, PTL DEF Spec

-----------------------------------------------------------------------------
\* The memory map, the client's variables and its key have their types: a map has as
\* many descriptors as pages at most, whatever get_memory_map and allocate_pool do.
THEOREM TypeCorrect == Spec => []TypeOK
BY Invariance, PTL DEF IInv

\* When exit_boot_services has succeeded, the copy that get_memory_map made is the map, and
\* shows the pages of allocate_pages as the loader's: a key that is current
\* belongs to the copy (KeyOfCopy), and no other key lets the loader out (Left).
THEOREM LeavesWithFreshMap == Spec => []MapFresh
<1>1. IInv => MapFresh
  BY DEF IInv, TypeOK, KeyOfCopy, Left, PagesMarked, MapFresh
<1> QED BY <1>1, Invariance, PTL

\* get_memory_map implements the read by a size: it copies the map whole or not at all,
\* into a buffer with room for it, whatever changed the map since the size
\* was asked for.
THEOREM ImplementsSizedRead == Spec => SizedReadSpec
<1>1. Init => Reader!Init
  BY InitIInv DEF Init, Reader!Init, IInv, TypeOK
<1>2. IInv /\ IInv' /\ [Next]_vars => [Reader!Next]_<<map, capacity, copy>>
  <2> SUFFICES ASSUME IInv, IInv', [Next]_vars PROVE [Reader!Next]_<<map, capacity, copy>>
    OBVIOUS
  <2>1. map' \in Maps /\ capacity' \in Nat
    <3>1. map' \in Maps /\ capacity' \in 0 .. (Last + 1 + Slack)
      BY DEF IInv, TypeOK
    <3> QED BY <3>1, MemoryAssumption
  <2>2. CASE UNCHANGED vars
    BY <2>2 DEF vars, client
  <2>3. CASE get_memory_map
    <3>1. CASE Descriptors(map) <= capacity
      BY <2>3, <3>1 DEF get_memory_map, get_memory_map_, Reader!Next, Reader!Read
    <3>2. CASE ~(Descriptors(map) <= capacity)
      BY <2>3, <3>2 DEF get_memory_map, get_memory_map_
    <3> QED BY <3>1, <3>2
  <2>4. CASE allocate_pool \/ free_pool
    BY <2>1, <2>4 DEF allocate_pool, free_pool, Reader!Next, Reader!Provide
  <2>5. CASE exit_boot_services
    BY <2>1, <2>5 DEF exit_boot_services, Reader!Next, Reader!Change
  <2>6. ASSUME NEW memory \in Pages, NEW pages \in {1, 2}, NEW type \in AllocateType,
               free_pages(memory, pages) \/ allocate_pages(type, pages, memory)
        PROVE  Reader!Next
    BY <2>1, <2>6 DEF free_pages, allocate_pages, Reader!Next, Reader!Change
  <2>7. ASSUME NEW p \in Pages, Drivers(p) PROVE Reader!Next
    BY <2>1, <2>7 DEF Drivers, Reader!Next, Reader!Change
  <2>8. AllocateType # {}
    BY DEF AllocateType
  <2> QED BY <2>2, <2>3, <2>4, <2>5, <2>6, <2>7, <2>8 DEF Next, Loader
<1> QED BY <1>1, <1>2, Invariance, PTL DEF Spec, SizedReadSpec, Reader!Spec

=============================================================================
