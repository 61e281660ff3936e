----------------------------- MODULE PageTable -----------------------------
(****************************************************************************)
(* Page tables and the pool of pages they are built from (common/mm.h), as  *)
(* OsInitialize and CreateUserThread use them.  Pages of the pool are       *)
(* numbered; 0 holds PageTable::phys_info.  Virtual pages are numbered too, *)
(* and a table has Fanout entries instead of 512.  One step maps one page.  *)
(****************************************************************************)
EXTENDS Integers, Sequences, FiniteSets

CONSTANTS Fanout,      \* entries of a table
          PoolSizes,   \* values of PageTable::pages (4096 in the code: the pages of KernelPt)
          Outside,     \* physical pages from here on are not of the pool
          Image, KernelPt, Devices, FrameBuffer, KernelPool, Uefi, BackBuffer, \* the regions of va.h
          UserCode, UserStack,  \* virtual pages of the user thread
          Runtime,     \* physical pages that runtime services may use
          MaxDevices,  \* bound: devices and runtime descriptors
          None

Levels  == 1..4        \* PML4, PDPT, page directory, page table
Space   == Fanout * Fanout * Fanout * Fanout
Root    == 1

\* Regions and user pages are disjoint; a region is a set of consecutive pages.
Region  == <<Image, KernelPt, Devices, FrameBuffer, KernelPool, Uefi, BackBuffer, {UserCode}, {UserStack}>>
Regions == {Region[i] : i \in 1..9}
Pages   == (UNION Regions) \cup {(v + p) % Space : v \in Uefi, p \in Runtime}

ASSUME PageTableAssumption ==
    /\ Fanout \in Nat \ {0, 1} /\ MaxDevices \in Nat /\ Runtime \subseteq Nat
    /\ Outside \in Nat /\ PoolSizes \subseteq 2..(Outside - 1)
    /\ \A n \in PoolSizes : n <= Cardinality(KernelPt)
    /\ Pages \subseteq 0..(Space - 1) /\ {} \notin Regions
    /\ \A i, j \in 1..9 : i # j => Region[i] \cap Region[j] = {}
    /\ \A r \in Regions : \A v, w \in r : v..w \subseteq r
    /\ None \notin Nat /\ None \notin [to : Nat, present : BOOLEAN, user : BOOLEAN]

VARIABLES pages,      \* PageTable::pages
          present,    \* PhysicalPage::present
          entry,      \* entry[page][index]: what a table holds there, or None
          todo,       \* pages the current request has not mapped yet
          ok,         \* no page of it has failed
          stage,      \* how far OsInitialize has come
          count,      \* requests made in this stage
          pa          \* CreateUserThread's variable, None: not page aligned
vars == <<pages, present, entry, todo, ok, stage, count, pa>>

Index == [v \in Pages |-> <<(v \div (Fanout * Fanout * Fanout)) % Fanout,
                            (v \div (Fanout * Fanout)) % Fanout,
                            (v \div Fanout) % Fanout, v % Fanout>>]

\* The upper half of the address space is the kernel's.
ASSUME HalvesAssumption ==
    \A i \in 1..7 : \A v \in Region[i] : Index[v][1] \notin {Index[UserCode][1], Index[UserStack][1]}

First(region) == CHOOSE v \in region : \A w \in region : v <= w
-----------------------------------------------------------------------------
(* AllocatePhysical, GetPresentPte, MapPage.                                *)

Free == {p \in 1..(pages - 1) : p \notin present}

\* The page that the n-th call of AllocatePhysical from now on returns.
Allocated(n) ==
    IF n > Cardinality(Free) THEN None
    ELSE CHOOSE p \in Free : Cardinality({q \in Free : q <= p}) = n

\* The table of v at each level, None below a level that has no entry for it.
Path(v) ==
    LET Child(page, l) ==
          IF page = None \/ entry[page][Index[v][l]] = None THEN None
          ELSE entry[page][Index[v][l]].to
        pdpt == Child(Root, 1)
        pd   == Child(pdpt, 2)
        pt   == Child(pd, 3)
    IN  <<Root, pdpt, pd, pt>>

Pte(v) == LET pt == Path(v)[4] IN IF pt = None THEN None ELSE entry[pt][Index[v][4]]

IsPagePresent(v) == LET pte == Pte(v) IN pte # None /\ pte.present

Translate(v) == LET pte == Pte(v) IN IF pte # None /\ pte.present THEN pte.to ELSE None

Entry(to, user) == [to |-> to, present |-> TRUE, user |-> user]

\* Mutants of InnerEntry and Taken: inner entries are the kernel's; pages are
\* not marked.
InnerEntryOfKernel(to, user) == Entry(to, FALSE)
TakenUnmarked(new) == {}

InnerEntry(to, user) == Entry(to, user)

Taken(new) == new \ {None}

\* Tables that v lacks are allocated from the top until none is left; an inner
\* entry is only written where there was none, the last one always.
MapPage(v, phys, user) ==
    LET path == Path(v)
        Lacking(l) == Cardinality({m \in 1..l : path[m] = None})
        full == [l \in Levels |-> IF path[l] # None THEN path[l] ELSE Allocated(Lacking(l))]
        Written(p, i) ==
          IF p = full[4] /\ i = Index[v][4] THEN Entry(phys, user)
          ELSE IF \E l \in 1..3 : path[l + 1] = None /\ full[l + 1] # None
                                  /\ p = full[l] /\ i = Index[v][l]
          THEN LET l == CHOOSE l \in 1..3 : p = full[l] IN InnerEntry(full[l + 1], user)
          ELSE entry[p][i]
    IN  /\ present' = present \cup Taken({full[l] : l \in Levels})
        /\ entry' = [p \in DOMAIN entry |-> [i \in DOMAIN entry[p] |-> Written(p, i)]]
        /\ ok' = (full[4] # None)
-----------------------------------------------------------------------------
(* Requests: MapPages, MapPagesInRegion.                                    *)

Request(virt, phys, n, user) ==
    /\ todo' = [k \in 1..n |-> [virt |-> (virt + k - 1) % Space, phys |-> phys + k - 1, user |-> user]]
    /\ ok' = TRUE

\* Mutant of RegionStart: takes pages for free that are in use.
RegionStartAnywhere(region, n) == {v \in region : v + n - 1 \in region}

\* Where MapPagesInRegion may begin: only the first page is looked at.
RegionStart(region, n) == {v \in region : v + n - 1 \in region /\ ~IsPagePresent(v)}

RequestIn(region, phys, n) ==
    LET starts == RegionStart(region, n) IN
    IF starts = {} THEN ok' = FALSE /\ UNCHANGED todo ELSE Request(First(starts), phys, n, FALSE)

\* Between requests of the same kind, or on to those of the next.
At(s) == stage = s /\ todo = <<>>
Tables == <<pages, present, entry>>
Stay == stage' = stage /\ count' = count + 1 /\ count < MaxDevices
Go(s) == stage' = s /\ count' = 0

\* MapPages stops at the first failure, and what it has mapped stays.
MapNext ==
    /\ todo # <<>> /\ Head(todo).phys # None /\ ~Head(todo).user
    /\ MapPage(Head(todo).virt, Head(todo).phys, FALSE)
    /\ todo' = IF ok' THEN Tail(todo) ELSE <<>>
    /\ UNCHANGED <<pages, stage, count, pa>>
-----------------------------------------------------------------------------
(* OsInitialize.  Only the mapping of the back buffer is checked, and a     *)
(* missing table for the frame buffer faults.                               *)

MapImage ==
    /\ At("image") /\ Go("tables")
    /\ Request(First(Image), Outside, Cardinality(Image), FALSE) /\ UNCHANGED <<Tables, pa>>

MapTables ==
    /\ At("tables") /\ Go("frame buffer")
    /\ Request(First(KernelPt), 0, pages, FALSE) /\ UNCHANGED <<Tables, pa>>

MapFrameBuffer ==
    /\ At("frame buffer") /\ Go("back buffer")
    /\ RequestIn(FrameBuffer, Outside + First(FrameBuffer), Cardinality(FrameBuffer))
    /\ UNCHANGED <<Tables, pa>>

MapBackBuffer ==
    /\ At("back buffer") /\ Go("write combining")
    /\ RequestIn(BackBuffer, Outside + First(BackBuffer), Cardinality(BackBuffer))
    /\ UNCHANGED <<Tables, pa>>

\* Panic without a back buffer; pat is set in every entry of the frame buffer.
SetWriteCombining ==
    /\ At("write combining")
    /\ Go(IF ok /\ \A v \in FrameBuffer : Pte(v) # None THEN "devices" ELSE "panic")
    /\ UNCHANGED <<Tables, todo, ok, pa>>

\* MapDeviceUncached: HPET, I/O APIC, local APIC, those there are.
MapDevice ==
    /\ At("devices") /\ Stay
    /\ RequestIn(Devices, 2 * Outside + count, 1) /\ UNCHANGED <<Tables, pa>>

\* The loader has set virtual_start to physical_start + kva::uefi.base.
MapRuntime(p) ==
    /\ \/ At("devices") /\ Go("runtime")
       \/ At("runtime") /\ Stay
    /\ Request(First(Uefi) + p, 3 * Outside + p, 1, FALSE) /\ UNCHANGED <<Tables, pa>>

MapPool ==
    /\ At("devices") \/ At("runtime")
    /\ Go("mapped")
    /\ Request(First(KernelPool), Outside + First(KernelPool), Cardinality(KernelPool), FALSE)
    /\ UNCHANGED <<Tables, pa>>

\* A page that MapPage has entered.
UnmapPage(v) ==
    /\ Pte(v) # None
    /\ entry' = [entry EXCEPT ![Path(v)[4]][Index[v][4]].present = FALSE]

\* A page of a discardable section of the image.
FinalizeKernelMapping(v) ==
    /\ At("mapped") \/ At("finalize")
    /\ Go("finalize")
    /\ UnmapPage(v)
    /\ UNCHANGED <<pages, present, todo, ok, pa>>
-----------------------------------------------------------------------------
(* CreateUserThread looks at no result: pa keeps its value when             *)
(* AllocatePhysical fails, and may hold anything before the first.          *)

\* What pa may hold before AllocatePhysical has set it.
Junk == {None, 0, Root, Outside}

CreateUserThread(junk) ==
    /\ At("mapped") \/ At("finalize")
    /\ Go("running")
    /\ pa' = junk
    /\ todo' = <<[virt |-> UserStack, phys |-> None, user |-> TRUE],
                 [virt |-> UserCode, phys |-> None, user |-> TRUE]>>
    /\ UNCHANGED <<Tables, ok>>

\* Mutant of NeedsPage: both virtual pages get the first page.
StackNeedsPage(request) == request.phys = None /\ request.virt = UserStack

NeedsPage(request) == request.phys = None

\* AllocatePhysical and MapPage.  MapPage refuses a page that is not aligned.
MapUser ==
    /\ todo # <<>> /\ Head(todo).user
    /\ IF NeedsPage(Head(todo)) /\ Free # {}
       THEN /\ pa' = Allocated(1) /\ present' = present \cup Taken({Allocated(1)})
            /\ todo' = [todo EXCEPT ![1].phys = Allocated(1)]
            /\ UNCHANGED <<entry, ok>>
       ELSE /\ IF pa = None THEN UNCHANGED <<present, entry, ok>>
               ELSE MapPage(Head(todo).virt, pa, TRUE)
            /\ todo' = Tail(todo) /\ pa' = pa
    /\ UNCHANGED <<pages, stage, count>>

Init ==
    /\ pages \in PoolSizes
    /\ present = {0, Root}
    /\ entry = [p \in 1..(pages - 1) |-> [i \in 0..(Fanout - 1) |-> None]]
    /\ todo = <<>> /\ ok = TRUE /\ stage = "image" /\ count = 0 /\ pa = None

Next ==
    \/ MapNext \/ MapImage \/ MapTables \/ MapFrameBuffer \/ MapBackBuffer
    \/ SetWriteCombining \/ MapDevice \/ MapPool
    \/ \E p \in Runtime : MapRuntime(p)
    \/ \E v \in Image : FinalizeKernelMapping(v)
    \/ \E junk \in Junk : CreateUserThread(junk)
    \/ MapUser

Spec == Init /\ [][Next]_vars
-----------------------------------------------------------------------------
(* Properties.                                                              *)

TablesAt(level) == {Path(v)[level] : v \in Pages} \ {None}
InnerTables == TablesAt(1) \cup TablesAt(2) \cup TablesAt(3)
AllTables == InnerTables \cup TablesAt(4)

\* The entries of inner tables form a tree of pages that are marked as taken: a
\* page is never handed out a second time, whether the request succeeded or not.
TablesFormTree ==
    LET refs == {r \in InnerTables \X (0..(Fanout - 1)) : entry[r[1]][r[2]] # None}
        To(r) == entry[r[1]][r[2]].to
    IN  /\ \A r, s \in refs : To(r) = To(s) => r = s
        /\ \A r \in refs : To(r) \in present \ {0, Root}

\* The pages a user thread runs on are no tables, also when the pool runs dry under
\* CreateUserThread, if it has had one page: it goes on with that.  (Without one it maps
\* whatever pa held.)  While there are pages left they are not the same page.  Every level
\* on the way to one admits ring 3, although the tables in between may be shared with what
\* was mapped before.
UserPagesAreOwn ==
    LET frames == {Translate(UserCode), Translate(UserStack)} \ {None} IN
    /\ Free # {} \/ pa \notin Junk => frames \cap (AllTables \cup {0}) = {}
    /\ Free # {} /\ Translate(UserCode) # None => Cardinality(frames) = 2
    /\ \A v \in {UserCode, UserStack} : IsPagePresent(v) =>
         \A l \in Levels : entry[Path(v)[l]][Index[v][l]].user

\* A request changes the translation of the page it maps next and of no other (a step that
\* enters nothing changes none),
\* wherever its tables come from.  A mapping is never replaced by another one:
\* regions do not meet, and a region is only searched for one free page
\* ("currently we alloc sequentially so it doesn't matter").
MappingsAreStable ==
    [][entry' # entry => \A v \in Pages : Translate(v)' # Translate(v) =>
         /\ \/ todo # <<>> /\ v = Head(todo).virt
            \/ stage' = "finalize" /\ v \in Image
         /\ Translate(v) = None \/ Translate(v)' = None]_vars

\* What va.h says of "Console back buffer" and "UEFI runtime": the pages of the
\* back buffer's region hold the back buffer.
BackBufferHoldsItself ==
    \A v \in BackBuffer : Translate(v) \in {Outside + v, None}
=============================================================================
