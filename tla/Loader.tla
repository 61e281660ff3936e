------------------------------- MODULE Loader -------------------------------
(****************************************************************************)
(* The boot loader, boot/entry.cc: EfiMain from its first allocation to the *)
(* call of the kernel's entry point, with the kernel's image, the ACPI      *)
(* tables and the page tables' upper half on the way.  Any call of the      *)
(* firmware may fail.  What becomes of the memory map is MemoryMap's.       *)
(*                                                                          *)
(* An image is a sequence of pages, of which the first holds the headers;   *)
(* a section begins at a page and has data in the file for raw pages.       *)
(****************************************************************************)
EXTENDS Integers, Sequences, FiniteSets

CONSTANTS Files,       \* kernel files
          AcpiTables,  \* tables an XSDT may list
          MaxTables,   \* bound: how many it does
          None

\* pe::File as far as it is looked at, and pe::Section; initializers is what a
\* section's data start with, up to a null pointer.
File(valid, size, sections) == [valid |-> valid, SizeOfImage |-> size, sections |-> sections]
Section(name, page, raw, initializers) ==
    [name |-> name, page |-> page, raw |-> raw, initializers |-> initializers]

\* What acpi_initialize reads of a table; id tells tables of a kind apart.
Table(signature, id, revision, long, flag) ==
    [signature |-> signature, id |-> id, revision |-> revision, long |-> long, flag |-> flag]

Areas == {"loader block", "boot tables", "kernel tables", "pool", "back buffer"}

VARIABLES at,       \* where EfiMain is
          leaving,  \* g_leaving_boot_services
          memory,   \* area -> "none", or what is in it
          file,     \* the file, once it is open
          section,  \* how many of its sections a loop has gone through
          image,    \* page -> what is in it
          tables,   \* those acpi_initialize has seen
          block,    \* madt_header, i8042, hpet and kernel of the loader block
          fadt,     \* found_fadt
          wp,       \* CR0's bit
          upper,    \* what the upper half of the address space maps
          ran       \* the initializers that have run
loading == <<memory, file, section, image>>
acpi    == <<tables, block, fadt>>
vars    == <<at, leaving, loading, acpi, wp, upper, ran>>
-----------------------------------------------------------------------------
(* Calls of the firmware.                                                   *)

\* Mutant of Failed: efi_check always reports.
FailedAloud == "returned"

\* Where efi_check goes: it reports the error and returns, or halts.
Failed == IF leaving THEN "halted" ELSE "returned"

Go(from, to) == at = from /\ at' = to
Fail(from)   == Go(from, Failed)

\* A call of which nothing else is modelled.
Check(from, to) ==
    /\ Go(from, to) \/ Fail(from)
    /\ UNCHANGED <<leaving, loading, acpi, wp, upper, ran>>

\* Mutant of Zeroed: allocate_pages leaves what was there.
ZeroedNot == "junk"

\* zero_allocate_pages
Zeroed == "zero"

Allocate(from, to, area) ==
    /\ \/ Go(from, to) /\ memory' = [memory EXCEPT ![area] = Zeroed]
       \/ Fail(from) /\ UNCHANGED memory
    /\ UNCHANGED <<leaving, file, section, image, tables, fadt, wp, upper, ran>>

AllocateBlock ==
    /\ Allocate("start", "boot tables", "loader block")
    /\ block' = [madt |-> memory'["loader block"], i8042 |-> memory'["loader block"],
                 hpet |-> memory'["loader block"], kernel |-> memory'["loader block"]]

AllocateArea ==
    /\ \/ Allocate("boot tables", "kernel tables", "boot tables")
       \/ Allocate("kernel tables", "pool", "kernel tables")
       \/ Allocate("pool", "volume", "pool")
       \/ Allocate("back buffer", "map", "back buffer")
    /\ UNCHANGED block

\* get_protocol, open_volume, open, and the user who may press Q.
OpenFile ==
    /\ \/ Go("volume", "headers") /\ file' \in Files
       \/ Fail("volume") /\ UNCHANGED file
    /\ UNCHANGED <<leaving, memory, section, image, acpi, wp, upper, ran>>
-----------------------------------------------------------------------------
(* load_kernel_executable.                                                  *)

Sections(f)   == {f.sections[i] : i \in DOMAIN f.sections}
HasData(d, p) == p \in d.page..(d.page + d.raw - 1)

\* What a linker makes of a kernel: sections share no page with each other or the
\* headers, an initializer is listed once, and lists are data of the file.
WellFormed(f) ==
    /\ f.SizeOfImage \in Nat \ {0} /\ f.sections \in Seq(Sections(f))
    /\ \A d \in Sections(f) :
         /\ d.page \in 1..(f.SizeOfImage - 1) /\ d.raw \in 0..(f.SizeOfImage - d.page)
         /\ d.initializers \in Seq({d.initializers[k] : k \in DOMAIN d.initializers})
         /\ d.initializers # <<>> => d.raw > 0
         /\ \A k, l \in DOMAIN d.initializers : d.initializers[k] = d.initializers[l] => k = l
    /\ \A i, j \in DOMAIN f.sections : i # j =>
         /\ \A p \in 0..f.SizeOfImage : ~(HasData(f.sections[i], p) /\ HasData(f.sections[j], p))
         /\ \A k \in DOMAIN f.sections[i].initializers, l \in DOMAIN f.sections[j].initializers :
              f.sections[i].initializers[k] # f.sections[j].initializers[l]

\* Pages for the whole image and the headers into the first.
ReadHeaders ==
    /\ \/ /\ Go("headers", "sections") /\ file.valid
          /\ image' = [p \in 0..(file.SizeOfImage - 1) |-> IF p = 0 THEN "headers" ELSE Zeroed]
       \/ Fail("headers") /\ UNCHANGED image
    /\ UNCHANGED <<leaving, memory, file, section, acpi, wp, upper, ran>>

\* Sections without data are not read.
ReadSection ==
    /\ at = "sections" /\ section < Len(file.sections)
    /\ LET d == file.sections[section + 1]
       IN  \/ /\ Go("sections", "sections") /\ section' = section + 1
              /\ image' = [p \in DOMAIN image |-> IF HasData(d, p) THEN d.name ELSE image[p]]
           \/ d.raw > 0 /\ Fail("sections") /\ UNCHANGED <<section, image>>
    /\ UNCHANGED <<leaving, memory, file, acpi, wp, upper, ran>>

\* The image gets its virtual base.
LoadKernel ==
    /\ Go("sections", "xsdt") /\ section = Len(file.sections) /\ section' = 0
    /\ image' = [image EXCEPT ![0] = "relocated headers"]
    /\ block' = [block EXCEPT !.kernel = file.SizeOfImage]
    /\ UNCHANGED <<leaving, memory, file, tables, fadt, wp, upper, ran>>
-----------------------------------------------------------------------------
(* locate_xsdt and acpi_initialize.                                         *)

LocateXsdt == Check("xsdt", "acpi")

\* Old systems have an 8042, others tell.
Has8042(t) == t.revision < 2 \/ ~t.long \/ t.flag

ReadTable(t) ==
    /\ at = "acpi" /\ Len(tables) < MaxTables
    /\ tables' = Append(tables, t)
    /\ block' = CASE t.signature = "madt" -> [block EXCEPT !.madt = t.id]
                  [] t.signature = "fadt" -> [block EXCEPT !.i8042 = Has8042(t)]
                  [] t.signature = "hpet" -> [block EXCEPT !.hpet = t.id]
                  [] OTHER                -> block
    /\ fadt' = (fadt \/ t.signature = "fadt")
    /\ UNCHANGED <<at, leaving, loading, wp, upper, ran>>

\* MADT and FADT have to exist; graphics, in a pixel format the kernel knows.
AcpiInitialize ==
    /\ at = "acpi"
    /\ IF block.madt # "zero" /\ fadt THEN at' = "graphics" ELSE at' = Failed
    /\ UNCHANGED <<leaving, loading, acpi, wp, upper, ran>>

LocateGraphics == Check("graphics", "back buffer")
-----------------------------------------------------------------------------
(* The kernel's mapping, its initializers, and the way out.                 *)

\* The firmware's tables are read-only, and its upper half goes.
MapKernel ==
    /\ Go("map", "mapping")
    /\ wp' = FALSE /\ upper' = {}
    /\ UNCHANGED <<leaving, loading, acpi, ran>>

MapPages ==
    /\ Go("mapping", "close")
    /\ upper' = {"image", "kernel tables", "pool"} /\ wp' = TRUE
    /\ UNCHANGED <<leaving, loading, acpi, ran>>

CloseFiles == Check("close", "size")
AskSize    == Check("size", "buffer")
AllocateBuffer == Check("buffer", "get")
GetMap     == Check("get", "initializers")

\* Mutant of Initializers: the first such section only.
InitializersOfFirst(d) == IF ran = <<>> /\ image[d.page] = d.name THEN d.initializers ELSE <<>>

\* As the mapped image has them: a null pointer ends them.
Initializers(d) == IF image[d.page] = d.name THEN d.initializers ELSE <<>>

\* Sections by name.
RunInitializers ==
    /\ at = "initializers" /\ section < Len(file.sections) /\ section' = section + 1
    /\ LET d == file.sections[section + 1]
       IN  ran' = IF d.name = ".CRT" THEN ran \o Initializers(d) ELSE ran
    /\ UNCHANGED <<at, leaving, memory, file, image, acpi, wp, upper>>

LeaveBootServices ==
    /\ Go("initializers", "exit") /\ section = Len(file.sections)
    /\ leaving' = TRUE
    /\ UNCHANGED <<loading, acpi, wp, upper, ran>>

\* The first failure is no error.
ExitBootServices ==
    /\ Go("exit", "address map") \/ Go("exit", "get again")
    /\ UNCHANGED <<leaving, loading, acpi, wp, upper, ran>>

GetMapAgain == Check("get again", "exit again")
ExitAgain   == Check("exit again", "address map")
SetVirtualAddressMap == Check("address map", "kernel")

Init ==
    /\ at = "start" /\ leaving = FALSE /\ memory = [a \in Areas |-> "none"]
    /\ file = None /\ section = 0 /\ image = <<>>
    /\ tables = <<>> /\ block = None /\ fadt = FALSE
    /\ wp = TRUE /\ upper = {"firmware's"} /\ ran = <<>>

Next ==
    \/ AllocateBlock \/ AllocateArea \/ OpenFile \/ ReadHeaders \/ ReadSection \/ LoadKernel
    \/ LocateXsdt \/ (\E t \in AcpiTables : ReadTable(t)) \/ AcpiInitialize \/ LocateGraphics
    \/ MapKernel \/ MapPages \/ CloseFiles \/ AskSize \/ AllocateBuffer \/ GetMap
    \/ RunInitializers \/ LeaveBootServices \/ ExitBootServices \/ GetMapAgain \/ ExitAgain \/ SetVirtualAddressMap

Spec == Init /\ [][Next]_vars
-----------------------------------------------------------------------------
(* Properties.                                                              *)

Found(signature) == {k \in DOMAIN tables : tables[k].signature = signature}

\* Sections are where they are linked to, and all else is zero.
ImageIsLinked ==
    \A p \in DOMAIN image :
      IF p = 0 THEN image[p] = "relocated headers"
      ELSE IF \E d \in Sections(file) : HasData(d, p)
      THEN \E d \in Sections(file) : HasData(d, p) /\ image[p] = d.name
      ELSE image[p] = "zero"

EachRanOnce ==
    \A d \in Sections(file) : d.name = ".CRT" =>
      \A i \in DOMAIN d.initializers : Cardinality({k \in DOMAIN ran : ran[k] = d.initializers[i]}) = 1

\* The loader block has the size of the image, the last HPET and no 8042 only if an
\* FADT says so.
BlockIsTrue ==
    /\ block.kernel = Cardinality(DOMAIN image)
    /\ IF Found("hpet") = {} THEN block.hpet = "zero"
       ELSE \E k \in Found("hpet") : (\A l \in Found("hpet") : l <= k) /\ block.hpet = tables[k].id
    /\ Found("madt") # {} /\ Found("fadt") # {}
    /\ block.i8042 \/ \E k \in Found("fadt") : ~Has8042(tables[k])

\* "These must be zeroed: anything past a section's raw data (e.g. .bss) is never
\* read from the file": when the kernel is entered its image is what the linker
\* made of it, whatever was in the pages, the tables and the pool it builds on are
\* empty and mapped, and each of its initializers has run once.  The loader block
\* says what the firmware has, and nothing of what it has not.
KernelIsWhole ==
    at = "kernel" =>
      /\ ImageIsLinked /\ EachRanOnce /\ BlockIsTrue
      /\ \A a \in Areas : memory[a] = "zero"
      /\ {"image", "kernel tables", "pool"} \subseteq upper

\* The loader returns to the firmware, and writes to its console, only as long as
\* the boot services are complete and page tables write-protected; after that it
\* halts.
ReturnsInOrder ==
    /\ at = "returned" => ~leaving /\ wp
    /\ at = "halted" => leaving
=============================================================================
