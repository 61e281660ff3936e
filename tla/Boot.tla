-------------------------------- MODULE Boot --------------------------------
(****************************************************************************)
(* The machine from the firmware to the first user thread: the loader up to *)
(* the kernel's entry point, MemoryMap's loader and kernel, then PageTable  *)
(* with the runtime services the memory map names.                          *)
(****************************************************************************)
EXTENDS PageTable

CONSTANTS NPages, Spare, Base, Files, AcpiTables, MaxTables

VARIABLES step, memory, capacity, current, map, last, desc, told, mapped,  \* MemoryMap's
          at, leaving, areas, file, section, image, tables, block, fadt, wp, upper, ran  \* Loader's

handoff == <<step, memory, capacity, current, map, last, desc, told, mapped>>
loader  == <<at, leaving, areas, file, section, image, tables, block, fadt, wp, upper, ran>>

Handoff == INSTANCE MemoryMap
Loading == INSTANCE Loader WITH memory <- areas

ASSUME BootAssumption ==
    /\ NPages \in Nat /\ Spare \in Nat /\ Base \in Nat /\ MaxTables \in Nat
    /\ \A f \in Files : f.valid => Loading!WellFormed(f)

\* A pool that stands for all of them until one is chosen.
AnyPool == Init /\ \A p \in PoolSizes : pages <= p

InitBoot == Handoff!Init /\ AnyPool /\ Loading!Init

\* Loader and MemoryMap follow the same calls, each with what it has of them: they
\* are told apart here by the memory, on which Loader does not depend.
Loads == \A p \in 0..(NPages - 1) : memory[p] = Handoff!Hole

BootLoader == AnyPool /\ Loads /\ Loading!Next /\ UNCHANGED <<vars, handoff>>

HandingOff == AnyPool /\ ~Loads /\ Handoff!Next /\ UNCHANGED <<vars, loader>>

\* PageTable depends on the memory map by the runtime services alone: of all that
\* name Runtime's pages, it goes on from the one that was in order from the start.
HandedOff ==
    /\ step = "done" /\ {m[2] : m \in mapped} = Runtime
    /\ \A p \in 0..(NPages - 1) : memory[p] = IF p \in Runtime THEN Handoff!Kind("boot", TRUE)
                                               ELSE IF p = NPages - 1 THEN Handoff!Data
                                               ELSE Handoff!Free
    /\ \A i, j \in DOMAIN map : i < j => map[i].start < map[j].start
    /\ capacity = Len(map) + Spare /\ desc = Len(map) + 1

ChoosePool ==
    /\ HandedOff /\ AnyPool
    /\ pages' \in PoolSizes
    /\ entry' = [p \in 1..(pages' - 1) |-> [i \in 0..(Fanout - 1) |-> None]]
    /\ UNCHANGED <<present, todo, ok, stage, count, pa, handoff, loader>>

Mapping == HandedOff /\ Next /\ UNCHANGED <<handoff, loader>>

NextBoot == BootLoader \/ HandingOff \/ ChoosePool \/ Mapping

SpecBoot == InitBoot /\ [][NextBoot]_<<vars, handoff, loader>>
-----------------------------------------------------------------------------
(* Loader's and MemoryMap's properties.                                     *)

KernelIsWhole  == Loading!KernelIsWhole
ReturnsInOrder == Loading!ReturnsInOrder

MapDescribesMemory == Handoff!MapDescribesMemory
RuntimeIsWhereTold == Handoff!RuntimeIsWhereTold
=============================================================================
