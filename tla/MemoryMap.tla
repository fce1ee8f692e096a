----------------------------- MODULE MemoryMap -----------------------------
(***************************************************************************)
(* The memory services of BootServices and the end of the boot services    *)
(* (boot_services.hpp): allocate_pages to free_pool, get_memory_map and    *)
(* exit_boot_services.  The client is a loader that takes the memory map   *)
(* with it: exit_boot_services wants the key of the map as it is, and      *)
(* every allocation, the one of the map's own buffer included, changes it. *)
(***************************************************************************)
EXTENDS Integers, FiniteSets

CONSTANTS Last,    \* the address of the last page
          Slack,   \* the descriptors a loader adds to the size it is told
          none     \* no map has been copied

ASSUME MemoryAssumption ==
  /\ Last \in Nat
  /\ Slack \in Nat

VARIABLES
  map,          \* the memory type of each page
  pool,         \* the pages the client's pool memory is taken from
  claimed,      \* the pages the client has allocated
  phase,        \* "boot", "leaving" after a refused exit, or "ended"
  memory_map_size,  \* the client's in-out variable, in descriptors
  capacity,     \* the size of the client's buffer, 0 if it has none
  copy,         \* the map in it
  map_key,      \* the client's key: "current", "stale", or no key at all
  listed        \* the last get_memory_map has succeeded

client == <<capacity, copy, memory_map_size, map_key, listed>>
vars == <<map, pool, claimed, phase, client>>

Pages == 0 .. Last
AllocateType == {"AnyPages", "MaxAddress", "Address"}

\* Free memory, the client's, and that of the firmware and its drivers.
MemoryType == {"ConventionalMemory", "LoaderData", "BootServicesData"}
Maps == [Pages -> MemoryType]

\* A MemoryDescriptor describes a run of pages of one type.
Descriptors(m) == Cardinality({p \in Pages : p = 0 \/ m[p] # m[p - 1]})

Free(m) == {p \in Pages : m[p] = "ConventionalMemory"}
Run(first, pages) == first .. (first + pages - 1)
Mark(run, memory_type) ==
  [p \in Pages |-> IF p \in run THEN memory_type ELSE map[p]]

TypeOK ==
  /\ map \in Maps
  /\ pool \subseteq Pages
  /\ claimed \subseteq Pages
  /\ phase \in {"boot", "leaving", "ended"}
  /\ memory_map_size \in 0 .. (Last + 1)
  /\ capacity \in 0 .. (Last + 1 + Slack)
  /\ copy \in Maps \cup {none}
  /\ map_key \in {"current", "stale", "no key"}
  /\ listed \in BOOLEAN

Init ==
  /\ map \in [Pages -> MemoryType \ {"LoaderData"}]
  /\ pool = {}
  /\ claimed = {}
  /\ phase = "boot"
  /\ memory_map_size = 0
  /\ capacity = 0
  /\ copy = none
  /\ map_key = "no key"
  /\ listed = FALSE

-----------------------------------------------------------------------------
\* The firmware.

\* Every change of the map makes the key given out for it stale.
Touch(new) ==
  /\ map' = new
  /\ map_key' = IF new # map /\ map_key = "current" THEN "stale" ELSE map_key

\* Where a run of pages may go; `memory` is read for two of the types.
Places(type, pages, memory) ==
  {first \in Pages :
     /\ Run(first, pages) \subseteq Free(map)
     /\ type = "MaxAddress" => first + pages - 1 <= memory
     /\ type = "Address" => first = memory}

allocate_pages_(type, pages, memory) ==
  IF Places(type, pages, memory) = {} THEN UNCHANGED <<map, map_key, claimed>>
  ELSE \E first \in Places(type, pages, memory) :
         /\ Touch(Mark(Run(first, pages), "LoaderData"))
         /\ claimed' = claimed \cup Run(first, pages)

free_pages_(memory, pages) ==
  /\ Touch(Mark(Run(memory, pages), "ConventionalMemory"))
  /\ claimed' = claimed \ Run(memory, pages)

\* From room the pool has, or from a further page.
allocate_pool_(size) ==
  \/ /\ pool # {}
     /\ UNCHANGED <<map, map_key, pool>>
     /\ capacity' = size
  \/ \E p \in Free(map) :
       /\ Touch(Mark({p}, "LoaderData"))
       /\ pool' = pool \cup {p}
       /\ capacity' = size
  \/ /\ pool = {} /\ Free(map) = {}
     /\ UNCHANGED <<map, map_key, pool, capacity>>

\* The page may stay with the pool.
free_pool_ ==
  \/ UNCHANGED <<map, map_key, pool>>
  \/ \E p \in pool :
       /\ Touch(Mark({p}, "ConventionalMemory"))
       /\ pool' = pool \ {p}

\* Some implementations return the key even if the buffer is too small.
get_memory_map_(size) ==
  /\ memory_map_size' = Descriptors(map)
  /\ IF Descriptors(map) <= size
     THEN copy' = map /\ map_key' = "current" /\ listed' = TRUE
     ELSE copy' = copy /\ map_key' \in {map_key, "current"} /\ listed' = FALSE

\* The first call notifies drivers, which may allocate and free.
Notified ==
  {map} \cup IF phase # "boot" THEN {}
             ELSE {[map EXCEPT ![p] = t] : p \in {q \in Pages : map[q] # "LoaderData"},
                                           t \in MemoryType \ {"LoaderData"}}

exit_boot_services_(key) ==
  \E m \in Notified :
    /\ phase' = IF key = "current" /\ m = map THEN "ended" ELSE "leaving"
    /\ Touch(m)

\* Drivers allocate and free, until the first exit_boot_services stops timers.
Drivers(p) ==
  /\ phase = "boot"
  /\ \/ /\ map[p] = "ConventionalMemory"
        /\ Touch(Mark({p}, "BootServicesData"))
     \/ /\ map[p] = "BootServicesData"
        /\ Touch(Mark({p}, "ConventionalMemory"))
  /\ UNCHANGED <<pool, claimed, phase, memory_map_size, capacity, copy, listed>>

-----------------------------------------------------------------------------
\* The methods, as the loader calls them.  Once an exit has been refused only
\* the memory services may be called: the loader asks for the map again and
\* provides a larger buffer for as long as that takes.

Retry ==
  CASE listed                            -> "exit_boot_services"
    [] ~listed /\ capacity = 0           -> "allocate_pool"
    [] ~listed /\ capacity > 0 /\ memory_map_size > capacity -> "free_pool"
    [] OTHER                             -> "get_memory_map"

Calls(method) == phase = "boot" \/ (phase = "leaving" /\ method = Retry)

allocate_pages(type, pages, memory) ==
  /\ phase = "boot"
  /\ allocate_pages_(type, pages, memory)
  /\ UNCHANGED <<pool, phase, memory_map_size, capacity, copy, listed>>

free_pages(memory, pages) ==
  /\ phase = "boot"
  /\ Run(memory, pages) \subseteq claimed
  /\ free_pages_(memory, pages)
  /\ UNCHANGED <<pool, phase, memory_map_size, capacity, copy, listed>>

\* The buffer for the next get_memory_map.
allocate_pool ==
  /\ Calls("allocate_pool")
  /\ capacity = 0
  /\ allocate_pool_(memory_map_size + Slack)
  /\ copy' = none
  /\ listed' = FALSE
  /\ UNCHANGED <<claimed, phase, memory_map_size>>

free_pool ==
  /\ Calls("free_pool")
  /\ capacity > 0
  /\ free_pool_
  /\ capacity' = 0
  /\ copy' = none
  /\ listed' = FALSE
  /\ UNCHANGED <<claimed, phase, memory_map_size>>

\* Mutant: the size of the last answer is passed on, not that of the buffer.
get_memory_mapKeepsSize ==
  /\ Calls("get_memory_map")
  /\ get_memory_map_(memory_map_size)
  /\ UNCHANGED <<map, pool, claimed, phase, capacity>>

\* Mutant: map_key and descriptor_size, both uintn_t*, are passed in the
\* other order.
get_memory_mapSwapsKey ==
  /\ Calls("get_memory_map")
  /\ memory_map_size' = Descriptors(map)
  /\ map_key' = "no key"
  /\ listed' = (Descriptors(map) <= capacity)
  /\ copy' = IF listed' THEN map ELSE copy
  /\ UNCHANGED <<map, pool, claimed, phase, capacity>>

\* Mutant: the room for one descriptor more is added to the size on return.
get_memory_mapAddsRoom ==
  /\ Calls("get_memory_map")
  /\ memory_map_size' = Descriptors(map) + 1
  /\ listed' = (Descriptors(map) <= capacity)
  /\ copy' = IF listed' THEN map ELSE copy
  /\ map_key' = IF listed' THEN "current" ELSE map_key
  /\ UNCHANGED <<map, pool, claimed, phase, capacity>>

\* The size goes in as that of the buffer.
get_memory_map ==
  /\ Calls("get_memory_map")
  /\ get_memory_map_(capacity)
  /\ UNCHANGED <<map, pool, claimed, phase, capacity>>

\* Mutant: the method gets the key of the moment by itself.
exit_boot_servicesAnyKey ==
  /\ Calls("exit_boot_services")
  /\ listed
  /\ exit_boot_services_("current")
  /\ listed' = (phase' = "ended")
  /\ UNCHANGED <<pool, claimed, memory_map_size, capacity, copy>>

exit_boot_services ==
  /\ Calls("exit_boot_services")
  /\ listed
  /\ exit_boot_services_(map_key)
  /\ listed' = (phase' = "ended")
  /\ UNCHANGED <<pool, claimed, memory_map_size, capacity, copy>>

-----------------------------------------------------------------------------
Loader ==
  \/ \E memory \in Pages, pages \in {1, 2} :
       \/ free_pages(memory, pages)
       \/ \E type \in AllocateType : allocate_pages(type, pages, memory)
  \/ allocate_pool \/ free_pool \/ get_memory_map \/ exit_boot_services

Next == Loader \/ \E p \in Pages : Drivers(p)

Spec == Init /\ [][Next]_vars

\* A loader that has begun to leave goes on with it.
FairSpec == Spec /\ WF_vars(phase = "leaving" /\ Loader)

-----------------------------------------------------------------------------
\* get_memory_map copies the map whole or not at all and never beyond the buffer it
\* was given, although drivers and the allocation of that buffer change the
\* map between the call for the size and the call for the map.
Reader == INSTANCE SizedRead
  WITH source <- map, Contents <- Maps, Size <- Descriptors
SizedReadSpec == Reader!Spec

\* When exit_boot_services has succeeded, the map the loader takes with it is the
\* memory as it is, and shows what allocate_pages has given the loader as the loader's.
MapFresh ==
  phase = "ended" => copy = map /\ \A p \in claimed : copy[p] = "LoaderData"

\* A loader whose exit_boot_services was refused, for a key that drivers notified of the
\* exit or earlier ones had made stale, leaves in the end: asking again and
\* allocating a larger buffer does not chase the map for ever.
LeavingEnds == phase = "leaving" ~> phase = "ended"

=============================================================================
