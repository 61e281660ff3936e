----------------------------- MODULE HeapProofs -----------------------------
(****************************************************************************)
(* LiveMemoryIsKept, for every pool, every size of word and allocation and  *)
(* any number of threads that print long messages and exit.  The argument:  *)
(* stacks and Threads are only ever allocated before any Free can be        *)
(* interrupted, so the word a Free has loaded, however old, still holds the *)
(* bits of every thread that is alive now.                                  *)
(****************************************************************************)
EXTENDS Heap, NaturalFacts

\* Control points at which a thread exists.
Alive   == {"run", "free", "loop", "store", "load_free", "store_free"}
\* Control points at which Free still needs the header.
Freeing == {"free", "loop", "store"}

\* Threads that exist own both their allocations; while some do not exist yet,
\* none has begun to free a message.
StageOK ==
    /\ \A t \in Threads : pc[t] \in Alive => held[t]["stack"] # None /\ held[t]["thread"] # None
    /\ \A t \in Threads : pc[t] = "stack" => held[t]["stack"] # None
    /\ ~Booted => \A t \in Threads : pc[t] \in {"none", "stack", "run"}

\* LiveMemoryIsKept, without its premise.
KeptOK ==
    \A t \in Threads, k \in Lasting : held[t][k] # None =>
        /\ Extent(held[t][k], SizeOf[k]) \subseteq marked
        /\ header[held[t][k]] = [offset |-> held[t][k], blocks |-> SizeOf[k]]
        /\ \A u \in Threads, j \in Lasting :
             held[u][j] # None /\ (u # t \/ j # k) =>
             Extent(held[t][k], SizeOf[k]) \cap Extent(held[u][j], SizeOf[j]) = {}

\* A buffer being freed is no part of a live thread, its header is its own or
\* illegible, and the word Free has loaded holds the bits of all live threads.
BufferOK ==
    \A t \in Threads :
      /\ pc[t] \in Freeing =>
           /\ held[t]["buffer"] # None
           /\ \A u \in Threads, k \in Lasting : held[u][k] # None =>
                Extent(held[t]["buffer"], SizeOf["buffer"]) \cap Extent(held[u][k], SizeOf[k]) = {}
           /\ header[held[t]["buffer"]] # Overwritten =>
                header[held[t]["buffer"]] = [offset |-> held[t]["buffer"], blocks |-> SizeOf["buffer"]]
      /\ pc[t] \in {"loop", "store"} => index[t] >= held[t]["buffer"]
      /\ pc[t] = "store" =>
           /\ index[t] \in Extent(held[t]["buffer"], SizeOf["buffer"])
           /\ \A u \in Threads, k \in Lasting : held[u][k] # None =>
                Extent(held[u][k], SizeOf[k]) \cap Word(index[t]) \subseteq word[t]

HInv == TypeOK /\ StageOK /\ KeptOK /\ BufferOK

\* First fit finds a range within the pool that is free throughout.
LEMMA FirstFitFits ==
    ASSUME NEW n \in Nat \ {0}, Fits(n) # {}
    PROVE  FirstFit(n) \in Blocks /\ FirstFit(n) + n <= NBlocks /\ Extent(FirstFit(n), n) \cap marked = {}
<1>1. Fits(n) \subseteq Nat
  BY DEF Fits, Blocks
<1>2. \E b \in Fits(n) : \A c \in Fits(n) : b <= c
  BY <1>1, LeastNatural
<1>3. FirstFit(n) \in Fits(n)
  BY <1>2 DEF FirstFit
<1> QED BY <1>3 DEF Fits

\* A live allocation begins in a block of its own, which is marked.
LEMMA LiveHeaderIsMarked ==
    ASSUME TypeOK, KeptOK, NEW u \in Threads, NEW k \in Lasting, held[u][k] # None
    PROVE  /\ held[u][k] \in Blocks
           /\ held[u][k] \in Extent(held[u][k], SizeOf[k])
           /\ held[u][k] \in marked
<1>1. k \in Kinds /\ held[u][k] \in Blocks
  BY DEF TypeOK, Lasting, Kinds
<1>2. SizeOf[k] \in Nat \ {0}
  BY <1>1, HeapAssumption
<1>3. held[u][k] \in Extent(held[u][k], SizeOf[k])
  BY <1>1, <1>2 DEF Extent, Blocks
<1> QED BY <1>1, <1>3 DEF KeptOK

\* What Allocate does when it finds room at the block first.
Allocated(t, kind, next, first) ==
    /\ Extent(first, SizeOf[kind]) \subseteq Blocks
    /\ Extent(first, SizeOf[kind]) \cap marked = {}
    /\ first \in Extent(first, SizeOf[kind])
    /\ marked' = marked \cup Extent(first, SizeOf[kind])
    /\ header' \in [Blocks -> Allocation \cup {Overwritten}]
    /\ header'[first] = [offset |-> first, blocks |-> SizeOf[kind]]
    /\ \A b \in Extent(first, SizeOf[kind]) \ {first} : header'[b] = Overwritten
    /\ \A b \in Blocks \ Extent(first, SizeOf[kind]) : header'[b] = header[b]
    /\ total_free' \in Int
    /\ held' = [held EXCEPT ![t][kind] = first]
    /\ pc' = [pc EXCEPT ![t] = next]
    /\ UNCHANGED panicked

\* An allocation marks one free run of blocks as its own, or panics.
LEMMA AllocateEffect ==
    ASSUME TypeOK, NEW t \in Threads, NEW kind \in Kinds, NEW next \in Labels,
           Allocate(t, kind, next)
    PROVE  \/ UNCHANGED <<mapVars, total_free, held, pc>> /\ panicked' = TRUE
           \/ \E first \in Blocks : Allocated(t, kind, next, first)
<1> DEFINE n == SizeOf[kind]
           first == FirstFit(n)
<1>1. n \in Nat \ {0} /\ NBlocks \in Nat
  BY HeapAssumption
<1>2. CASE n > total_free \/ Fits(n) = {}
  BY <1>2 DEF Allocate
<1>3. CASE ~(n > total_free \/ Fits(n) = {})
  <2>1. /\ marked' = marked \cup Extent(first, n)
        /\ header' = [b \in Blocks |->
               IF b = first THEN [offset |-> first, blocks |-> n]
               ELSE IF b \in Extent(first, n) THEN Overwritten ELSE header[b]]
        /\ total_free' = total_free - n
        /\ held' = [held EXCEPT ![t][kind] = first]
        /\ pc' = [pc EXCEPT ![t] = next]
        /\ UNCHANGED panicked
    BY <1>3 DEF Allocate
  <2>2. first \in Blocks /\ first + n <= NBlocks /\ Extent(first, n) \cap marked = {}
    BY <1>1, <1>3, FirstFitFits
  <2> HIDE DEF first, n
  <2>3. Extent(first, n) \subseteq Blocks /\ first \in Extent(first, n)
    BY <1>1, <2>2 DEF Extent, Blocks
  <2>4. header' \in [Blocks -> Allocation \cup {Overwritten}]
    BY <1>1, <2>1, <2>2 DEF TypeOK, Allocation
  <2>5. total_free' \in Int
    BY <1>1, <2>1 DEF TypeOK
  <2>6. /\ header'[first] = [offset |-> first, blocks |-> n]
        /\ \A b \in Extent(first, n) \ {first} : header'[b] = Overwritten
        /\ \A b \in Blocks \ Extent(first, n) : header'[b] = header[b]
    BY <2>1, <2>2, <2>3
  <2> QED BY <2>1, <2>2, <2>3, <2>4, <2>5, <2>6 DEF n, Allocated
<1> QED BY <1>2, <1>3

\* Nothing is marked and no thread exists when the kernel has its heap.
LEMMA InitHolds == Init => HInv
<1> SUFFICES ASSUME Init PROVE HInv
  OBVIOUS
<1> USE DEF Init
<1>1. TypeOK
  <2>1. header \in [Blocks -> Allocation \cup {Overwritten}] /\ total_free \in Int
    BY HeapAssumption
  <2>2. held \in [Threads -> [Kinds -> Blocks \cup {None}]]
    OBVIOUS
  <2>3. /\ pc \in [Threads -> Labels] /\ index \in [Threads -> Nat] /\ word \in [Threads -> SUBSET Blocks]
        /\ size \in [Threads -> Nat] /\ total \in [Threads -> Int]
    BY DEF Labels
  <2>4. marked \subseteq Blocks /\ messages \in Nat /\ panicked \in BOOLEAN
    OBVIOUS
  <2> QED BY <2>1, <2>2, <2>3, <2>4 DEF TypeOK
<1>2. StageOK
  BY DEF StageOK, Alive, Booted
<1>3. KeptOK
  BY DEF KeptOK, Lasting, Kinds
<1>4. BufferOK
  BY DEF BufferOK, Freeing
<1> QED BY <1>1, <1>2, <1>3, <1>4 DEF HInv

\* What live threads own depends on the map, the headers and the pointers only.
LEMMA KeptUnchanged ==
    ASSUME KeptOK, UNCHANGED <<marked, header, held>>
    PROVE  KeptOK'
BY DEF KeptOK

\* Two live allocations are disjoint.
LEMMA KeptDisjoint ==
    ASSUME KeptOK, NEW u \in Threads, NEW k \in Lasting, held[u][k] # None,
           NEW v \in Threads, NEW j \in Lasting, held[v][j] # None, v # u \/ j # k
    PROVE  Extent(held[u][k], SizeOf[k]) \cap Extent(held[v][j], SizeOf[j]) = {}
BY DEF KeptOK

\* A live allocation is marked throughout and has its header.
LEMMA KeptOwn ==
    ASSUME KeptOK, NEW u \in Threads, NEW k \in Lasting, held[u][k] # None
    PROVE  /\ Extent(held[u][k], SizeOf[k]) \subseteq marked
           /\ header[held[u][k]] = [offset |-> held[u][k], blocks |-> SizeOf[k]]
BY DEF KeptOK

\* A step that clears no bit of a live thread, and changes neither its pointers
\* nor its headers, keeps what it owns.
LEMMA KeptWhileMarked ==
    ASSUME KeptOK,
           \A u \in Threads, k \in Lasting : held'[u][k] = held[u][k],
           \A u \in Threads, k \in Lasting : held[u][k] # None =>
             /\ Extent(held[u][k], SizeOf[k]) \subseteq marked'
             /\ header'[held[u][k]] = header[held[u][k]]
    PROVE  KeptOK'
<1>1. ASSUME NEW u \in Threads, NEW k \in Lasting, held'[u][k] # None
      PROVE  /\ Extent(held'[u][k], SizeOf[k]) \subseteq marked'
             /\ header'[held'[u][k]] = [offset |-> held'[u][k], blocks |-> SizeOf[k]]
  <2>1. held'[u][k] = held[u][k] /\ held[u][k] # None
    BY <1>1
  <2>2. header[held[u][k]] = [offset |-> held[u][k], blocks |-> SizeOf[k]]
    BY <2>1, KeptOwn
  <2> QED BY <2>1, <2>2
<1>2. ASSUME NEW u \in Threads, NEW k \in Lasting, held'[u][k] # None,
             NEW v \in Threads, NEW j \in Lasting, held'[v][j] # None, v # u \/ j # k
      PROVE  Extent(held'[u][k], SizeOf[k]) \cap Extent(held'[v][j], SizeOf[j]) = {}
  <2>1. held'[u][k] = held[u][k] /\ held'[v][j] = held[v][j]
    OBVIOUS
  <2>2. Extent(held[u][k], SizeOf[k]) \cap Extent(held[v][j], SizeOf[j]) = {}
    BY <1>2, <2>1, KeptDisjoint
  <2> QED BY <2>1, <2>2
<1> QED BY <1>1, <1>2 DEF KeptOK

\* A lasting allocation leaves the others as they are: it lies outside all of
\* them, so neither their bits nor their headers change.
LEMMA KeptByAllocation ==
    ASSUME TypeOK, KeptOK, NEW t \in Threads, NEW kind \in Lasting, NEW next \in Labels,
           NEW first \in Blocks, Allocated(t, kind, next, first)
    PROVE  KeptOK'
<1> DEFINE range == Extent(first, SizeOf[kind])
<1>1. /\ range \cap marked = {} /\ marked' = marked \cup range
      /\ \A b \in Blocks \ range : header'[b] = header[b]
      /\ header'[first] = [offset |-> first, blocks |-> SizeOf[kind]]
      /\ held' = [held EXCEPT ![t][kind] = first]
  BY DEF Allocated
<1>2. kind \in Kinds /\ Lasting \subseteq Kinds /\ held \in [Threads -> [Kinds -> Blocks \cup {None}]]
  BY DEF TypeOK, Lasting, Kinds
<1> HIDE DEF range
<1>3. held'[t][kind] = first
  BY <1>1, <1>2
<1>4. \A u \in Threads, k \in Lasting : u # t \/ k # kind => held'[u][k] = held[u][k]
  BY <1>1, <1>2
<1>5. ASSUME NEW u \in Threads, NEW k \in Lasting, u # t \/ k # kind, held'[u][k] # None
      PROVE  /\ held'[u][k] = held[u][k]
             /\ Extent(held[u][k], SizeOf[k]) \subseteq marked
             /\ Extent(held[u][k], SizeOf[k]) \cap range = {}
             /\ header'[held[u][k]] = [offset |-> held[u][k], blocks |-> SizeOf[k]]
  <2>1. held'[u][k] = held[u][k] /\ held[u][k] # None
    BY <1>4, <1>5
  <2>2. held[u][k] \in Blocks /\ held[u][k] \in marked
    BY <2>1, LiveHeaderIsMarked
  <2>3. Extent(held[u][k], SizeOf[k]) \subseteq marked
    BY <2>1, KeptOwn
  <2>4. header[held[u][k]] = [offset |-> held[u][k], blocks |-> SizeOf[k]]
    BY <2>1, KeptOwn
  <2>5. held[u][k] \in Blocks \ range
    BY <1>1, <2>2
  <2>6. header'[held[u][k]] = header[held[u][k]]
    BY <1>1, <2>5
  <2>7. Extent(held[u][k], SizeOf[k]) \cap range = {}
    BY <1>1, <2>3
  <2> QED BY <2>1, <2>3, <2>4, <2>6, <2>7
<1>6. ASSUME NEW u \in Threads, NEW k \in Lasting, held'[u][k] # None
      PROVE  /\ Extent(held'[u][k], SizeOf[k]) \subseteq marked'
             /\ header'[held'[u][k]] = [offset |-> held'[u][k], blocks |-> SizeOf[k]]
  <2>1. CASE u = t /\ k = kind
    BY <1>1, <1>3, <2>1 DEF range
  <2>2. CASE u # t \/ k # kind
    <3>1. /\ held'[u][k] = held[u][k]
          /\ Extent(held[u][k], SizeOf[k]) \subseteq marked
          /\ header'[held[u][k]] = [offset |-> held[u][k], blocks |-> SizeOf[k]]
      BY <1>5, <1>6, <2>2
    <3> QED BY <1>1, <3>1
  <2> QED BY <2>1, <2>2
<1>7. ASSUME NEW u \in Threads, NEW k \in Lasting, held'[u][k] # None,
             NEW v \in Threads, NEW j \in Lasting, held'[v][j] # None, v # u \/ j # k
      PROVE  Extent(held'[u][k], SizeOf[k]) \cap Extent(held'[v][j], SizeOf[j]) = {}
  <2>1. CASE u = t /\ k = kind
    <3>1. held'[v][j] = held[v][j] /\ Extent(held[v][j], SizeOf[j]) \cap range = {}
      BY <1>5, <1>7, <2>1
    <3>2. Extent(held'[u][k], SizeOf[k]) = range
      BY <1>3, <2>1 DEF range
    <3> QED BY <3>1, <3>2
  <2>2. CASE v = t /\ j = kind
    <3>1. held'[u][k] = held[u][k] /\ Extent(held[u][k], SizeOf[k]) \cap range = {}
      BY <1>5, <1>7, <2>2
    <3>2. Extent(held'[v][j], SizeOf[j]) = range
      BY <1>3, <2>2 DEF range
    <3> QED BY <3>1, <3>2
  <2>3. CASE ~(u = t /\ k = kind) /\ ~(v = t /\ j = kind)
    <3>1. held'[u][k] = held[u][k] /\ held'[v][j] = held[v][j]
      BY <1>4, <2>3
    <3>2. held[u][k] # None /\ held[v][j] # None
      BY <1>7, <3>1
    <3>3. Extent(held[u][k], SizeOf[k]) \cap Extent(held[v][j], SizeOf[j]) = {}
      BY <1>7, <3>2, KeptDisjoint
    <3> QED BY <3>1, <3>3
  <2> QED BY <2>1, <2>2, <2>3
<1> QED BY <1>6, <1>7 DEF KeptOK

\* At boot, a stack or a Thread is added to what live threads own, outside
\* everything marked.
LEMMA BootAllocationKeeps ==
    ASSUME HInv, NEW t \in Threads, NEW kind \in Lasting, NEW next \in Labels, ~Booted,
           \/ pc[t] = "none" /\ kind = "stack" /\ next = "stack"
           \/ pc[t] = "stack" /\ kind = "thread" /\ next = "run",
           Allocate(t, kind, next), UNCHANGED <<freeVars, messages>>
    PROVE  HInv'
<1> USE DEF freeVars
<1>1. CASE UNCHANGED <<mapVars, total_free, held, pc>> /\ panicked' = TRUE
  <2> USE <1>1 DEF mapVars
  <2>1. TypeOK'
    BY DEF HInv, TypeOK
  <2>2. StageOK'
    BY DEF HInv, StageOK, Booted
  <2>3. KeptOK'
    BY KeptUnchanged DEF HInv
  <2>4. BufferOK'
    BY DEF HInv, BufferOK
  <2> QED BY <2>1, <2>2, <2>3, <2>4 DEF HInv
<1>2. ASSUME NEW first \in Blocks, Allocated(t, kind, next, first)
      PROVE  HInv'
  <2> USE <1>2 DEF Allocated
  <2>0. /\ kind \in Kinds /\ Lasting \subseteq Kinds /\ first # None
        /\ held \in [Threads -> [Kinds -> Blocks \cup {None}]]
    BY DEF HInv, TypeOK, Lasting, Kinds, Blocks, None
  <2>1. TypeOK'
    BY <2>0 DEF HInv, TypeOK
  <2>2. /\ held'[t][kind] = first
        /\ \A u \in Threads, k \in Kinds : u # t \/ k # kind => held'[u][k] = held[u][k]
    BY <2>0
  <2>3. \A u \in Threads : pc'[u] = IF u = t THEN next ELSE pc[u]
    BY DEF HInv, TypeOK
  <2>4. \A u \in Threads : pc[u] \in {"none", "stack", "run"} /\ pc'[u] \in {"none", "stack", "run"}
    BY <2>3 DEF HInv, StageOK
  <2>5. StageOK'
    BY <2>0, <2>2, <2>3, <2>4 DEF HInv, StageOK, Alive, Kinds
  <2>6. BufferOK'
    BY <2>4 DEF BufferOK, Freeing
  <2>8. KeptOK'
    BY <2>0, KeptByAllocation DEF HInv
  <2> QED BY <2>1, <2>5, <2>6, <2>8 DEF HInv
<1>3. TypeOK /\ kind \in Kinds
  BY DEF HInv, Lasting, Kinds
<1> QED BY <1>1, <1>2, <1>3, AllocateEffect

\* A step that leaves alloc_map, the headers and what is held alone, and moves a
\* thread on within its Free or out of it.
LEMMA LocalStepKeeps ==
    ASSUME HInv, NEW t \in Threads, NEW next \in Labels, Booted, pc[t] \in Freeing \cup {"load_free"},
           next \in {"loop", "load_free", "store_free", "wild"},
           next = "loop" => pc[t] = "free" /\ Legible(t) /\ index'[t] = header[Buffer(t)].offset,
           pc' = [pc EXCEPT ![t] = next], index' \in [Threads -> Nat],
           \A u \in Threads \ {t} : index'[u] = index[u],
           size' \in [Threads -> Nat], total' \in [Threads -> Int],
           UNCHANGED <<mapVars, total_free, held, word, messages, panicked>>
    PROVE  HInv'
<1> USE DEF mapVars
<1>0. \A u \in Threads : pc'[u] = IF u = t THEN next ELSE pc[u]
  BY DEF HInv, TypeOK
<1>1. TypeOK'
  BY DEF HInv, TypeOK
<1>2. StageOK'
  BY <1>0 DEF HInv, StageOK, Alive, Freeing, Booted
<1>3. KeptOK'
  BY KeptUnchanged DEF HInv
<1>4. BufferOK'
  <2>1. next = "loop" => index'[t] = Buffer(t)
    <3> SUFFICES ASSUME next = "loop" PROVE index'[t] = Buffer(t)
      OBVIOUS
    <3>1. header[Buffer(t)] = [offset |-> Buffer(t), blocks |-> SizeOf["buffer"]]
      BY DEF HInv, BufferOK, Freeing, Legible, Buffer
    <3> QED BY <3>1
  <2>2. Buffer(t) \in Int
    BY DEF HInv, TypeOK, Buffer, Kinds, Blocks, None
  <2>3. \A u \in Threads : pc'[u] \in Freeing => pc[u] \in Freeing
    BY <1>0 DEF Freeing
  <2>4. \A u \in Threads \ {t} : pc'[u] = pc[u] /\ index'[u] = index[u]
    BY <1>0
  <2>5. pc'[t] # "store" /\ (pc'[t] = "loop" => index'[t] >= held[t]["buffer"])
    BY <1>0, <2>1, <2>2 DEF Buffer
  <2> QED BY <2>3, <2>4, <2>5 DEF HInv, BufferOK
<1> QED BY <1>1, <1>2, <1>3, <1>4 DEF HInv

\* Steps that only a thread's own variables see.
LEMMA LocalStepsKeep ==
    ASSUME HInv, NEW t \in Threads,
           FreeStart(t) \/ ReadSize(t) \/ FreeWild(t) \/ LoadFree(t)
    PROVE  HInv'
<1>z. \A u \in Threads : held[u]["buffer"] \in Blocks \cup {None}
  BY DEF HInv, TypeOK, Kinds
<1>0. /\ index \in [Threads -> Nat] /\ size \in [Threads -> Nat] /\ total \in [Threads -> Int]
      /\ total_free \in Int
      /\ pc[t] \in Freeing => held[t]["buffer"] # None
      /\ header \in [Blocks -> Allocation \cup {Overwritten}]
      /\ held[t]["buffer"] \in Blocks \cup {None}
  BY <1>z DEF HInv, TypeOK, BufferOK
<1>1. pc[t] \in Freeing /\ Legible(t) =>
        header[Buffer(t)].offset \in Nat /\ header[Buffer(t)].blocks \in Nat
  BY <1>0 DEF Legible, Buffer, Allocation, Blocks
<1>2. CASE FreeStart(t)
  BY <1>0, <1>1, <1>2, LocalStepKeeps DEF FreeStart, Runs, Labels, Freeing
<1>3. CASE ReadSize(t)
  BY <1>0, <1>1, <1>3, LocalStepKeeps DEF ReadSize, Runs, Labels, Freeing
<1>4. CASE FreeWild(t)
  BY <1>0, <1>4, LocalStepKeeps DEF FreeWild, Labels, Freeing, freeVars
<1>5. CASE LoadFree(t)
  BY <1>0, <1>5, LocalStepKeeps DEF LoadFree, Runs, Labels, Freeing
<1> QED BY <1>2, <1>3, <1>4, <1>5

\* A long message's buffer lies outside everything marked; if it covers a buffer
\* that is being freed it overwrites that one's header, or restores it.
LEMMA PrintLongKeeps ==
    ASSUME HInv, NEW t \in Threads, PrintLong(t)
    PROVE  HInv'
<1> USE DEF freeVars
<1>a. /\ Booted /\ pc[t] = "run" /\ Allocate(t, "buffer", "free") /\ messages' = messages + 1
      /\ UNCHANGED freeVars /\ "buffer" \in Kinds /\ "free" \in Labels
  BY DEF PrintLong, Runs, Kinds, Labels
<1>1. CASE UNCHANGED <<mapVars, total_free, held, pc>> /\ panicked' = TRUE
  <2> USE <1>a, <1>1 DEF mapVars
  <2>1. TypeOK'
    BY DEF HInv, TypeOK
  <2>2. StageOK'
    BY DEF HInv, StageOK, Booted
  <2>3. KeptOK'
    BY KeptUnchanged DEF HInv
  <2>4. BufferOK'
    BY DEF HInv, BufferOK
  <2> QED BY <2>1, <2>2, <2>3, <2>4 DEF HInv
<1>2. ASSUME NEW first \in Blocks, Allocated(t, "buffer", "free", first)
      PROVE  HInv'
  <2> USE <1>2 DEF Allocated
  <2>0. first # None /\ held \in [Threads -> [Kinds -> Blocks \cup {None}]] /\ Lasting \subseteq Kinds
    BY DEF HInv, TypeOK, Blocks, None, Lasting, Kinds
  <2>1. TypeOK'
    BY <1>a, <2>0 DEF HInv, TypeOK
  <2>2. /\ held'[t]["buffer"] = first
        /\ \A u \in Threads, k \in Lasting : held'[u][k] = held[u][k]
        /\ \A u \in Threads \ {t} : held'[u]["buffer"] = held[u]["buffer"]
    BY <1>a, <2>0 DEF Lasting, Kinds
  <2>3. \A u \in Threads : pc'[u] = IF u = t THEN "free" ELSE pc[u]
    BY DEF HInv, TypeOK
  <2>4. StageOK'
    BY <1>a, <2>2, <2>3 DEF HInv, StageOK, Alive, Booted, Lasting
  <2>5. \A u \in Threads, k \in Lasting : held[u][k] # None =>
           /\ Extent(held[u][k], SizeOf[k]) \subseteq marked
           /\ header'[held[u][k]] = header[held[u][k]]
    <3> SUFFICES ASSUME NEW u \in Threads, NEW k \in Lasting, held[u][k] # None
                 PROVE  /\ Extent(held[u][k], SizeOf[k]) \subseteq marked
                        /\ header'[held[u][k]] = header[held[u][k]]
      OBVIOUS
    <3>1. held[u][k] \in Blocks /\ held[u][k] \in marked
      BY LiveHeaderIsMarked DEF HInv
    <3>2. Extent(held[u][k], SizeOf[k]) \subseteq marked
      BY DEF HInv, KeptOK
    <3> QED BY <3>1, <3>2
  <2>6. KeptOK'
    <3>1. KeptOK /\ \A u \in Threads, k \in Lasting : held[u][k] # None =>
            Extent(held[u][k], SizeOf[k]) \subseteq marked'
      BY <2>5 DEF HInv
    <3> QED BY <2>2, <2>5, <3>1, KeptWhileMarked
  <2>7. \A u \in Threads : pc'[u] \in Freeing =>
           /\ held'[u]["buffer"] # None
           /\ \A v \in Threads, k \in Lasting : held'[v][k] # None =>
                Extent(held'[u]["buffer"], SizeOf["buffer"]) \cap Extent(held'[v][k], SizeOf[k]) = {}
           /\ header'[held'[u]["buffer"]] # Overwritten =>
                header'[held'[u]["buffer"]] = [offset |-> held'[u]["buffer"], blocks |-> SizeOf["buffer"]]
    <3> SUFFICES ASSUME NEW u \in Threads, pc'[u] \in Freeing
                 PROVE  /\ held'[u]["buffer"] # None
                        /\ \A v \in Threads, k \in Lasting : held'[v][k] # None =>
                             Extent(held'[u]["buffer"], SizeOf["buffer"])
                               \cap Extent(held'[v][k], SizeOf[k]) = {}
                        /\ header'[held'[u]["buffer"]] # Overwritten =>
                             header'[held'[u]["buffer"]]
                               = [offset |-> held'[u]["buffer"], blocks |-> SizeOf["buffer"]]
      OBVIOUS
    <3>1. CASE u = t
      BY <2>0, <2>2, <2>5, <3>1
    <3>2. CASE u # t
      <4> DEFINE b == held[u]["buffer"]
      <4>1. held'[u]["buffer"] = b /\ pc[u] \in Freeing
        BY <2>2, <2>3, <3>2
      <4>2. /\ b # None
            /\ \A v \in Threads, k \in Lasting : held[v][k] # None =>
                 Extent(b, SizeOf["buffer"]) \cap Extent(held[v][k], SizeOf[k]) = {}
            /\ header[b] # Overwritten => header[b] = [offset |-> b, blocks |-> SizeOf["buffer"]]
        BY <4>1 DEF HInv, BufferOK
      <4>3. b \in Blocks
        BY <1>a, <2>0, <4>2
      <4> HIDE DEF b
      <4>4. header'[b] # Overwritten => header'[b] = [offset |-> b, blocks |-> SizeOf["buffer"]]
        BY <4>2, <4>3
      <4> QED BY <2>2, <4>1, <4>2, <4>4
    <3> QED BY <3>1, <3>2
  <2>8. ASSUME NEW u \in Threads, pc'[u] \in {"loop", "store"}
        PROVE  /\ index'[u] >= held'[u]["buffer"]
               /\ pc'[u] = "store" =>
                    /\ index'[u] \in Extent(held'[u]["buffer"], SizeOf["buffer"])
                    /\ \A v \in Threads, k \in Lasting : held'[v][k] # None =>
                         Extent(held'[v][k], SizeOf[k]) \cap Word(index'[u]) \subseteq word'[u]
    <3>1. u # t /\ pc'[u] = pc[u] /\ held'[u]["buffer"] = held[u]["buffer"]
      BY <2>2, <2>3, <2>8
    <3>2. /\ index[u] >= held[u]["buffer"]
          /\ pc[u] = "store" =>
               /\ index[u] \in Extent(held[u]["buffer"], SizeOf["buffer"])
               /\ \A v \in Threads, k \in Lasting : held[v][k] # None =>
                    Extent(held[v][k], SizeOf[k]) \cap Word(index[u]) \subseteq word[u]
      BY <2>8, <3>1 DEF HInv, BufferOK
    <3>3. index' = index /\ word' = word
      BY <1>a
    <3> QED BY <2>2, <3>1, <3>2, <3>3
  <2>9. BufferOK'
    BY <2>7, <2>8 DEF BufferOK
  <2> QED BY <2>1, <2>4, <2>6, <2>9 DEF HInv
<1>3. TypeOK
  BY DEF HInv
<1> QED BY <1>a, <1>1, <1>2, <1>3, AllocateEffect

\* The word Free loads holds the bits of every live thread.
LEMMA LoadWordKeeps ==
    ASSUME HInv, NEW t \in Threads, LoadWord(t)
    PROVE  HInv'
<1> USE DEF LoadWord, Runs, mapVars
<1>0. \A u \in Threads : pc'[u] = IF u = t THEN "store" ELSE pc[u]
  BY DEF HInv, TypeOK
<1>1. TypeOK'
  BY DEF HInv, TypeOK, Labels
<1>2. StageOK'
  BY <1>0 DEF HInv, StageOK, Alive, Booted
<1>3. KeptOK'
  BY KeptUnchanged DEF HInv
<1>4. BufferOK'
  <2>1. /\ header[held[t]["buffer"]] = [offset |-> held[t]["buffer"], blocks |-> SizeOf["buffer"]]
        /\ index[t] >= held[t]["buffer"] /\ held[t]["buffer"] # None
    BY DEF HInv, BufferOK, Freeing, Legible, Buffer
  <2>2. index[t] < held[t]["buffer"] + SizeOf["buffer"]
    BY <2>1 DEF End, Buffer
  <2>3. index[t] \in Nat /\ held[t]["buffer"] \in Blocks /\ SizeOf["buffer"] \in Nat
    BY <2>1, HeapAssumption DEF HInv, TypeOK, Kinds
  <2>4. index[t] \in Extent(held[t]["buffer"], SizeOf["buffer"])
    BY <2>1, <2>2, <2>3 DEF Extent, Blocks
  <2>5. word'[t] = marked \cap Word(index[t]) /\ \A u \in Threads \ {t} : word'[u] = word[u]
    BY DEF HInv, TypeOK
  <2>6. \A v \in Threads, k \in Lasting : held[v][k] # None =>
           Extent(held[v][k], SizeOf[k]) \cap Word(index[t]) \subseteq word'[t]
    BY <2>5 DEF HInv, KeptOK
  <2>7. pc[t] \in Freeing
    BY DEF Freeing
  <2>8. Word(index[t])' = Word(index'[t])
    BY DEF Word
  <2> QED BY <1>0, <2>1, <2>4, <2>5, <2>6, <2>7, <2>8 DEF HInv, BufferOK, Freeing
<1> QED BY <1>1, <1>2, <1>3, <1>4 DEF HInv

\* However old the word is, storing it clears no bit of a live thread.
LEMMA StoreWordKeeps ==
    ASSUME HInv, NEW t \in Threads, StoreWord(t)
    PROVE  HInv'
<1> USE DEF StoreWord, Runs
<1>0. \A u \in Threads : pc'[u] = IF u = t THEN "loop" ELSE pc[u]
  BY DEF HInv, TypeOK
<1>1. TypeOK'
  BY DEF HInv, TypeOK, Labels
<1>2. StageOK'
  BY <1>0 DEF HInv, StageOK, Alive, Booted
<1>3. KeptOK'
  <2>1. index[t] \in Extent(held[t]["buffer"], SizeOf["buffer"]) /\ pc[t] \in Freeing
    BY DEF HInv, BufferOK, Freeing
  <2>2. \A u \in Threads, k \in Lasting : held[u][k] # None =>
           /\ Extent(held[u][k], SizeOf[k]) \cap Word(index[t]) \subseteq word[t]
           /\ Extent(held[t]["buffer"], SizeOf["buffer"]) \cap Extent(held[u][k], SizeOf[k]) = {}
    BY <2>1 DEF HInv, BufferOK
  <2>3. ASSUME NEW u \in Threads, NEW k \in Lasting, held[u][k] # None
        PROVE  Extent(held[u][k], SizeOf[k]) \subseteq marked'
    <3>1. Extent(held[u][k], SizeOf[k]) \subseteq marked
      BY <2>3, KeptOwn DEF HInv
    <3>2. Extent(held[u][k], SizeOf[k]) \cap Word(index[t]) \subseteq word[t]
          /\ index[t] \notin Extent(held[u][k], SizeOf[k])
      BY <2>1, <2>2, <2>3
    <3> QED BY <3>1, <3>2
  <2> QED BY <2>3, KeptWhileMarked DEF HInv
<1>4. BufferOK'
  <2>1. /\ \A u \in Threads \ {t} : index'[u] = index[u] /\ word'[u] = word[u]
        /\ index'[t] = index[t] + 1
    BY DEF HInv, TypeOK
  <2>2. index[t] >= held[t]["buffer"] /\ index[t] \in Nat /\ held[t]["buffer"] \in Int /\ pc[t] \in Freeing
    <3>1. "buffer" \in Kinds /\ index[t] \in Nat
      BY DEF HInv, TypeOK, Kinds
    <3>2. held[t]["buffer"] \in Blocks \cup {None}
      BY <3>1 DEF HInv, TypeOK
    <3>3. held[t]["buffer"] \in Int
      BY <3>2 DEF Blocks, None
    <3>4. index[t] >= held[t]["buffer"]
      BY DEF HInv, BufferOK
    <3> QED BY <3>1, <3>3, <3>4 DEF Freeing
  <2>3. index'[t] >= held[t]["buffer"]
    BY <2>1, <2>2
  <2> QED BY <1>0, <2>1, <2>2, <2>3 DEF HInv, BufferOK
<1> QED BY <1>1, <1>2, <1>3, <1>4 DEF HInv

\* The end of Free: the thread owns no buffer any more.
LEMMA StoreFreeKeeps ==
    ASSUME HInv, NEW t \in Threads, StoreFree(t)
    PROVE  HInv'
<1> USE DEF StoreFree, Runs, mapVars
<1>0. \A u \in Threads : pc'[u] = IF u = t THEN "run" ELSE pc[u]
  BY DEF HInv, TypeOK
<1>z. held \in [Threads -> [Kinds -> Blocks \cup {None}]] /\ Lasting \subseteq Kinds /\ "buffer" \notin Lasting
  BY DEF HInv, TypeOK, Kinds, Lasting
<1>1. TypeOK'
  <2>1. total_free' \in Int
    BY DEF HInv, TypeOK
  <2>2. held' \in [Threads -> [Kinds -> Blocks \cup {None}]]
    BY <1>z
  <2>3. pc' \in [Threads -> Labels] /\ size' \in [Threads -> Nat] /\ total' \in [Threads -> Int]
    BY DEF HInv, TypeOK, Labels
  <2> QED BY <2>1, <2>2, <2>3 DEF HInv, TypeOK
<1>2. /\ \A u \in Threads, k \in Lasting : held'[u][k] = held[u][k]
      /\ \A u \in Threads \ {t} : held'[u] = held[u]
  BY <1>z
<1>3. StageOK'
  BY <1>0, <1>2 DEF HInv, StageOK, Alive, Booted, Lasting
<1>4. KeptOK'
  <2> SUFFICES ASSUME NEW u \in Threads, NEW k \in Lasting, held'[u][k] # None
               PROVE  /\ Extent(held'[u][k], SizeOf[k]) \subseteq marked'
                      /\ header'[held'[u][k]] = [offset |-> held'[u][k], blocks |-> SizeOf[k]]
                      /\ \A v \in Threads, j \in Lasting :
                           held'[v][j] # None /\ (v # u \/ j # k) =>
                           Extent(held'[u][k], SizeOf[k]) \cap Extent(held'[v][j], SizeOf[j]) = {}
    BY DEF KeptOK
  <2>1. held[u][k] # None
    BY <1>2
  <2>2. /\ Extent(held[u][k], SizeOf[k]) \subseteq marked
        /\ header[held[u][k]] = [offset |-> held[u][k], blocks |-> SizeOf[k]]
        /\ \A v \in Threads, j \in Lasting :
             held[v][j] # None /\ (v # u \/ j # k) =>
             Extent(held[u][k], SizeOf[k]) \cap Extent(held[v][j], SizeOf[j]) = {}
    BY <2>1 DEF HInv, KeptOK
  <2> QED BY <1>2, <2>2
<1>5. BufferOK'
  <2> SUFFICES ASSUME NEW u \in Threads, pc'[u] \in Freeing
               PROVE  /\ held'[u]["buffer"] # None
                      /\ \A v \in Threads, k \in Lasting : held'[v][k] # None =>
                           Extent(held'[u]["buffer"], SizeOf["buffer"]) \cap Extent(held'[v][k], SizeOf[k]) = {}
                      /\ header'[held'[u]["buffer"]] # Overwritten =>
                           header'[held'[u]["buffer"]] = [offset |-> held'[u]["buffer"], blocks |-> SizeOf["buffer"]]
                      /\ pc'[u] \in {"loop", "store"} => index'[u] >= held'[u]["buffer"]
                      /\ pc'[u] = "store" =>
                           /\ index'[u] \in Extent(held'[u]["buffer"], SizeOf["buffer"])
                           /\ \A v \in Threads, k \in Lasting : held'[v][k] # None =>
                                Extent(held'[v][k], SizeOf[k]) \cap Word(index'[u]) \subseteq word'[u]
    BY DEF BufferOK, Freeing
  <2>1. /\ pc[u] = pc'[u] /\ held'[u]["buffer"] = held[u]["buffer"]
        /\ UNCHANGED <<header, index, word>>
    BY <1>0, <1>2 DEF Freeing
  <2>2. /\ held[u]["buffer"] # None
        /\ \A v \in Threads, k \in Lasting : held[v][k] # None =>
             Extent(held[u]["buffer"], SizeOf["buffer"]) \cap Extent(held[v][k], SizeOf[k]) = {}
        /\ header[held[u]["buffer"]] # Overwritten =>
             header[held[u]["buffer"]] = [offset |-> held[u]["buffer"], blocks |-> SizeOf["buffer"]]
        /\ pc[u] \in {"loop", "store"} => index[u] >= held[u]["buffer"]
        /\ pc[u] = "store" =>
             /\ index[u] \in Extent(held[u]["buffer"], SizeOf["buffer"])
             /\ \A v \in Threads, k \in Lasting : held[v][k] # None =>
                  Extent(held[v][k], SizeOf[k]) \cap Word(index[u]) \subseteq word[u]
    BY <2>1 DEF HInv, BufferOK, Freeing
  <2> QED BY <1>2, <2>1, <2>2
<1> QED BY <1>1, <1>3, <1>4, <1>5 DEF HInv

\* An exiting thread frees exactly what it owns.
LEMMA ExitThreadKeeps ==
    ASSUME HInv, NEW t \in Threads, ExitThread(t)
    PROVE  HInv'
<1> USE DEF ExitThread, Runs, freeVars
<1>0. pc'[t] \in {"wild", "exited"} /\ \A u \in Threads \ {t} : pc'[u] = pc[u]
  BY DEF HInv, TypeOK
<1>z. /\ held \in [Threads -> [Kinds -> Blocks \cup {None}]] /\ Lasting \subseteq Kinds
      /\ "stack" \in Lasting /\ "thread" \in Lasting
      /\ held[t]["stack"] # None /\ held[t]["thread"] # None
  BY DEF HInv, TypeOK, Kinds, Lasting, StageOK, Alive
<1>y. /\ header[held[t]["stack"]] = [offset |-> held[t]["stack"], blocks |-> SizeOf["stack"]]
      /\ header[held[t]["thread"]] = [offset |-> held[t]["thread"], blocks |-> SizeOf["thread"]]
  BY <1>z DEF HInv, KeptOK
<1>x. SizeOf["stack"] \in Nat \ {0} /\ SizeOf["thread"] \in Nat \ {0}
  BY HeapAssumption DEF Kinds
<1>w. \A k \in {"stack", "thread"} : FreedBy(held[t][k]) = Extent(held[t][k], SizeOf[k])
  <2>1. \A k \in {"stack", "thread"} : held[t][k] \in Blocks
    BY <1>z
  <2>2. \A b \in Blocks, n \in Nat : [offset |-> b, blocks |-> n] # Overwritten
    BY DEF Blocks, None, Overwritten
  <2>3. header[held[t]["stack"]] # Overwritten /\ header[held[t]["thread"]] # Overwritten
    BY <1>y, <1>x, <2>1, <2>2
  <2> QED BY <1>y, <2>3 DEF FreedBy
<1>v. marked' = marked \ (Extent(held[t]["stack"], SizeOf["stack"])
                          \cup Extent(held[t]["thread"], SizeOf["thread"]))
  BY <1>w
<1>u. /\ held' \in [Threads -> [Kinds -> Blocks \cup {None}]]
      /\ \A u \in Threads \ {t} : held'[u] = held[u]
      /\ \A k \in Kinds : held'[t][k] = None
  BY <1>z
<1>1. TypeOK'
  <2>1. total_free' \in Int
    BY <1>y, <1>x DEF HInv, TypeOK
  <2>2. pc' \in [Threads -> Labels]
    BY DEF HInv, TypeOK, Labels
  <2> QED BY <1>u, <2>1, <2>2 DEF HInv, TypeOK
<1>2. StageOK'
  <2>1. \A u \in Threads \ {t} : held'[u] = held[u]
    BY <1>u
  <2>2. Booted'
    BY <1>0 DEF Booted
  <2> QED BY <1>0, <2>1, <2>2 DEF HInv, StageOK, Alive
<1>3. KeptOK'
  <2>1. \A u \in Threads, k \in Lasting : held'[u][k] # None => u # t /\ held'[u][k] = held[u][k]
    BY <1>z, <1>u
  <2>2. \A u \in Threads, k \in Lasting : u # t /\ held[u][k] # None =>
           Extent(held[u][k], SizeOf[k]) \subseteq marked'
    <3> SUFFICES ASSUME NEW u \in Threads, NEW k \in Lasting, u # t, held[u][k] # None
                 PROVE  Extent(held[u][k], SizeOf[k]) \subseteq marked'
      OBVIOUS
    <3>1. /\ Extent(held[u][k], SizeOf[k]) \subseteq marked
          /\ Extent(held[u][k], SizeOf[k]) \cap Extent(held[t]["stack"], SizeOf["stack"]) = {}
          /\ Extent(held[u][k], SizeOf[k]) \cap Extent(held[t]["thread"], SizeOf["thread"]) = {}
      BY <1>z DEF HInv, KeptOK
    <3> QED BY <1>v, <3>1
  <2> SUFFICES ASSUME NEW u \in Threads, NEW k \in Lasting, held'[u][k] # None
               PROVE  /\ Extent(held'[u][k], SizeOf[k]) \subseteq marked'
                      /\ header'[held'[u][k]] = [offset |-> held'[u][k], blocks |-> SizeOf[k]]
                      /\ \A v \in Threads, j \in Lasting :
                           held'[v][j] # None /\ (v # u \/ j # k) =>
                           Extent(held'[u][k], SizeOf[k]) \cap Extent(held'[v][j], SizeOf[j]) = {}
    BY DEF KeptOK
  <2>3. /\ held[u][k] # None
        /\ \A v \in Threads, j \in Lasting : held'[v][j] # None => held[v][j] = held'[v][j]
    BY <2>1
  <2>4. /\ Extent(held[u][k], SizeOf[k]) \subseteq marked
        /\ header[held[u][k]] = [offset |-> held[u][k], blocks |-> SizeOf[k]]
        /\ \A v \in Threads, j \in Lasting :
             held[v][j] # None /\ (v # u \/ j # k) =>
             Extent(held[u][k], SizeOf[k]) \cap Extent(held[v][j], SizeOf[j]) = {}
    BY <2>3 DEF HInv, KeptOK
  <2> QED BY <2>1, <2>2, <2>3, <2>4
<1>4. BufferOK'
  <2>1. \A u \in Threads : pc'[u] \in Freeing \cup {"loop", "store"} => u # t /\ pc[u] = pc'[u]
    BY <1>0 DEF Freeing
  <2>2. \A u \in Threads, k \in Lasting : held'[u][k] # None => held[u][k] # None /\ held'[u][k] = held[u][k]
    BY <1>z, <1>u
  <2> SUFFICES ASSUME NEW u \in Threads, pc'[u] \in Freeing
               PROVE  /\ held'[u]["buffer"] # None
                      /\ \A v \in Threads, k \in Lasting : held'[v][k] # None =>
                           Extent(held'[u]["buffer"], SizeOf["buffer"]) \cap Extent(held'[v][k], SizeOf[k]) = {}
                      /\ header'[held'[u]["buffer"]] # Overwritten =>
                           header'[held'[u]["buffer"]] = [offset |-> held'[u]["buffer"], blocks |-> SizeOf["buffer"]]
                      /\ pc'[u] \in {"loop", "store"} => index'[u] >= held'[u]["buffer"]
                      /\ pc'[u] = "store" =>
                           /\ index'[u] \in Extent(held'[u]["buffer"], SizeOf["buffer"])
                           /\ \A v \in Threads, k \in Lasting : held'[v][k] # None =>
                                Extent(held'[v][k], SizeOf[k]) \cap Word(index'[u]) \subseteq word'[u]
    BY DEF BufferOK, Freeing
  <2>3. u # t /\ pc[u] = pc'[u] /\ held'[u] = held[u] /\ UNCHANGED <<header, index, word>>
    BY <1>u, <2>1
  <2>4. /\ held[u]["buffer"] # None
        /\ \A v \in Threads, k \in Lasting : held[v][k] # None =>
             Extent(held[u]["buffer"], SizeOf["buffer"]) \cap Extent(held[v][k], SizeOf[k]) = {}
        /\ header[held[u]["buffer"]] # Overwritten =>
             header[held[u]["buffer"]] = [offset |-> held[u]["buffer"], blocks |-> SizeOf["buffer"]]
        /\ pc[u] \in {"loop", "store"} => index[u] >= held[u]["buffer"]
        /\ pc[u] = "store" =>
             /\ index[u] \in Extent(held[u]["buffer"], SizeOf["buffer"])
             /\ \A v \in Threads, k \in Lasting : held[v][k] # None =>
                  Extent(held[v][k], SizeOf[k]) \cap Word(index[u]) \subseteq word[u]
    BY <2>3 DEF HInv, BufferOK, Freeing
  <2> QED BY <2>2, <2>3, <2>4
<1> QED BY <1>1, <1>2, <1>3, <1>4 DEF HInv

\* Every step keeps the map, the allocations and the count of free blocks in agreement.
LEMMA NextKeepsHeap == HInv /\ [Next]_vars => HInv'
<1> SUFFICES ASSUME HInv, [Next]_vars PROVE HInv'
  OBVIOUS
<1>1. ASSUME NEW t \in Threads, CreateStack(t) PROVE HInv'
  <2>1. ~Booted /\ "stack" \in Lasting /\ "stack" \in Labels
    BY <1>1 DEF CreateStack, Booted, Lasting, Labels
  <2> QED BY <1>1, <2>1, BootAllocationKeeps DEF CreateStack
<1>2. ASSUME NEW t \in Threads, CreateThread(t) PROVE HInv'
  <2>1. ~Booted /\ "thread" \in Lasting /\ "run" \in Labels
    BY <1>2 DEF CreateThread, Booted, Lasting, Labels
  <2> QED BY <1>2, <2>1, BootAllocationKeeps DEF CreateThread
<1>3. ASSUME NEW t \in Threads, FreeStep(t) PROVE HInv'
  BY <1>3, LocalStepsKeep, LoadWordKeeps, StoreWordKeeps, StoreFreeKeeps DEF FreeStep
<1>4. CASE UNCHANGED vars
  <2> USE <1>4 DEF vars, mapVars, freeVars
  <2>1. TypeOK'
    BY DEF HInv, TypeOK
  <2>2. StageOK'
    BY DEF HInv, StageOK, Booted
  <2>3. KeptOK'
    BY KeptUnchanged DEF HInv
  <2>4. BufferOK'
    BY DEF HInv, BufferOK
  <2> QED BY <2>1, <2>2, <2>3, <2>4 DEF HInv
<1> QED BY <1>1, <1>2, <1>3, <1>4, PrintLongKeeps, ExitThreadKeeps DEF Next

\* The stack and the Thread of every live thread stay marked, keep their headers
\* and overlap no other, whatever the interrupted Frees of long messages do.
THEOREM LiveMemorySafety == Spec => []LiveMemoryIsKept
<1>1. Init => HInv
  BY InitHolds
<1>2. HInv => LiveMemoryIsKept
  BY DEF HInv, KeptOK, LiveMemoryIsKept, Owns, Range
<1> QED BY <1>1, <1>2, NextKeepsHeap, PTL DEF Spec

\* Every variable keeps its type: no Free writes outside alloc_map.
THEOREM HeapTypes == Spec => []TypeOK
<1>1. Init => HInv
  BY InitHolds
<1>2. HInv => TypeOK
  BY DEF HInv
<1> QED BY <1>1, <1>2, NextKeepsHeap, PTL DEF Spec
=============================================================================
