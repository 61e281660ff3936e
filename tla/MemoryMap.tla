----------------------------- MODULE MemoryMap -----------------------------
(****************************************************************************)
(* The memory map on its way from the firmware to the kernel: how the       *)
(* loader leaves the boot services (boot/entry.cc), where it has runtime    *)
(* services relocated, and how the kernel reclaims boot memory, compacts    *)
(* the map in place and maps the runtime services (core/init.cc).           *)
(****************************************************************************)
EXTENDS Integers, SequencesExt

CONSTANTS NPages,  \* pages of physical memory
          Spare,   \* descriptors map_capacity has room for beyond those asked for
          Base     \* kva::uefi.base

Physical == 0..(NPages - 1)

\* uefi::memory_type as far as the kernel tells types apart ("boot" is what it
\* reclaims: boot services and the loader), and the runtime attribute.
Kind(type, runtime) == [type |-> type, runtime |-> runtime]
Free  == Kind("conventional", FALSE)
Data  == Kind("loader data", FALSE)
Boot  == Kind("boot", FALSE)
Kinds == {Free, Data, Boot, Kind("boot", TRUE), Kind("runtime services", TRUE)}
Hole  == Kind("not described", FALSE)

\* uefi::memory_descriptor; type and attribute are its kind.
MemoryDescriptor(kind, start, pages) == [kind |-> kind, start |-> start, pages |-> pages, virtual |-> 0]

VARIABLES step,      \* where the loader, and then the kernel, is
          memory,    \* what each page is, as the firmware knows it
          capacity,  \* map_capacity, in descriptors
          current,   \* map_key is the one of the map the firmware has now
          map,       \* the buffer, as far as map_size
          last, desc,    \* CoalesceMemoryDescriptors' pointers, as indices
          told, mapped   \* virtual and physical pages: what set_virtual_address_map
                         \* was given, what MapUefiRuntime has mapped
vars == <<step, memory, capacity, current, map, last, desc, told, mapped>>
-----------------------------------------------------------------------------
(* The firmware.                                                            *)

\* Adjacent pages of a kind may be described together or not, in any order.
Described == {p \in Physical : memory[p] # Hole}
Begins(p) == p = 0 \/ memory[p] # memory[p - 1]
Starts == {s \in SUBSET Described : \A p \in Described : Begins(p) => p \in s}

Descriptor(starts, p) ==
    LET next == {q \in Physical : q > p /\ (q \in starts \/ memory[q] # memory[p])} \cup {NPages}
        end  == CHOOSE q \in next : \A r \in next : q <= r
    IN  MemoryDescriptor(memory[p], p, end - p)

Maps == UNION {SetToSeqs({Descriptor(s, p) : p \in s}) : s \in Starts}

\* Timers and drivers run until exit_boot_services is called.
FirmwareEvent ==
    /\ step \in {"size", "allocate", "get", "exit"}
    /\ \E p \in Physical, kind \in {Free, Boot} :
         /\ memory[p] \in {Free, Boot} \ {kind}
         /\ memory' = [memory EXCEPT ![p] = kind]
    /\ current' = FALSE
    /\ UNCHANGED <<step, capacity, map, last, desc, told, mapped>>
-----------------------------------------------------------------------------
(* The loader.                                                              *)

AskSize ==
    /\ step = "size" /\ step' = "allocate"
    /\ \E m \in Maps : capacity' = Len(m) + Spare
    /\ UNCHANGED <<memory, current, map, last, desc, told, mapped>>

AllocateBuffer ==
    /\ step = "allocate" /\ step' = "get"
    /\ \E p \in Physical : memory[p] = Free /\ memory' = [memory EXCEPT ![p] = Data]
    /\ UNCHANGED <<capacity, current, map, last, desc, told, mapped>>

\* get_memory_map fails if the map has outgrown the buffer: the loader returns,
\* or halts if it has begun to leave the boot services.
GetMap(from, next, failure) ==
    /\ step = from
    /\ \E m \in Maps :
         IF Len(m) <= capacity
         THEN step' = next /\ map' = m /\ current' = TRUE
         ELSE step' = failure /\ UNCHANGED <<map, current>>
    /\ UNCHANGED <<memory, capacity, last, desc, told, mapped>>

\* Mutant of ExitBootServices: the second call comes without a new map.
ExitWithoutMap ==
    /\ step \in {"exit", "get again"}
    /\ step' = IF current \/ step = "get again" THEN "relocate" ELSE "get again"
    /\ UNCHANGED <<memory, capacity, current, map, last, desc, told, mapped>>

ExitBootServices ==
    /\ step \in {"exit", "exit again"}
    /\ step' = IF current THEN "relocate" ELSE IF step = "exit" THEN "get again" ELSE "halted"
    /\ UNCHANGED <<memory, capacity, current, map, last, desc, told, mapped>>

RuntimeEntries(descriptors) == {i \in DOMAIN descriptors : descriptors[i].kind.runtime}

\* The pages MapPages maps for a descriptor, and those the firmware relocates.
Mapping(d) == {<<d.virtual + k, d.start + k>> : k \in 0..(d.pages - 1)}

Relocate ==
    /\ step = "relocate" /\ step' = "reclaim"
    /\ map' = [i \in DOMAIN map |->
                 IF i \in RuntimeEntries(map) THEN [map[i] EXCEPT !.virtual = map[i].start + Base] ELSE map[i]]
    /\ told' = UNION {Mapping(map'[i]) : i \in RuntimeEntries(map')}
    /\ UNCHANGED <<memory, capacity, current, last, desc, mapped>>
-----------------------------------------------------------------------------
(* The kernel.                                                              *)

Reclaimed(kind) == IF kind = Boot THEN Free ELSE kind

ReclaimBootPages ==
    /\ step = "reclaim" /\ step' = "coalesce"
    /\ map' = [i \in DOMAIN map |-> [map[i] EXCEPT !.kind = Reclaimed(@)]]
    /\ last' = 1 /\ desc' = 2
    /\ UNCHANGED <<memory, capacity, current, told, mapped>>

\* Mutant of Mergeable: there may be other pages in between.
MergeableApart(d, e) == d.kind = e.kind

Mergeable(d, e) == d.kind = e.kind /\ d.start + d.pages = e.start

\* Mutant of Kept: overwrites the last descriptor instead of the one after it.
KeptInPlace(d) == last' = last + 1 /\ map' = [map EXCEPT ![last] = d]

Kept(d) == last' = last + 1 /\ map' = [map EXCEPT ![last + 1] = d]

Coalesce ==
    /\ step = "coalesce" /\ desc <= Len(map)
    /\ IF Mergeable(map[last], map[desc])
       THEN map' = [map EXCEPT ![last].pages = @ + map[desc].pages] /\ UNCHANGED last
       ELSE Kept(map[desc])
    /\ desc' = desc + 1
    /\ UNCHANGED <<step, memory, capacity, current, told, mapped>>

\* The map is not empty: it describes the pages of its buffer.
Coalesced ==
    /\ step = "coalesce" /\ desc > Len(map) /\ step' = "map"
    /\ map' = SubSeq(map, 1, last)
    /\ UNCHANGED <<memory, capacity, current, last, desc, told, mapped>>

MapUefiRuntime ==
    /\ step = "map" /\ step' = "done"
    /\ mapped' = UNION {Mapping(map[i]) : i \in RuntimeEntries(map)}
    /\ UNCHANGED <<memory, capacity, current, map, last, desc, told>>

Init ==
    /\ step = "size" /\ capacity = 0 /\ current = FALSE
    /\ memory \in [Physical -> Kinds \cup {Hole}]
    /\ map = <<>> /\ last = 0 /\ desc = 0 /\ told = {} /\ mapped = {}

Next ==
    \/ FirmwareEvent
    \/ AskSize \/ AllocateBuffer \/ GetMap("get", "exit", "returned") \/ ExitBootServices
    \/ GetMap("get again", "exit again", "halted") \/ Relocate
    \/ ReclaimBootPages \/ Coalesce \/ Coalesced \/ MapUefiRuntime

Spec == Init /\ [][Next]_vars
-----------------------------------------------------------------------------
(* Properties.                                                              *)

InKernel == {"coalesce", "map", "done"}

\* While the map is compacted the descriptors between last and desc are void.
Valid == {i \in DOMAIN map : step = "coalesce" => i <= last \/ i >= desc}
Covers(i, p) == p \in map[i].start..(map[i].start + map[i].pages - 1)

\* Once the boot services are left the map describes the memory as it is, each
\* page once, and so it stays through reclaiming and every step of the compaction.
MapDescribesMemory ==
    step \in InKernel \cup {"relocate", "reclaim"} =>
      \A p \in Physical :
        LET kind == IF step \in InKernel THEN Reclaimed(memory[p]) ELSE memory[p]
            covering == {i \in Valid : Covers(i, p)}
        IN  IF memory[p] = Hole THEN covering = {}
            ELSE \E i \in covering : covering = {i} /\ map[i].kind = kind

\* The kernel maps runtime services where the firmware was told they would be,
\* all of them and nothing else, although their descriptors have been merged.
RuntimeIsWhereTold == step = "done" => mapped = told
=============================================================================
