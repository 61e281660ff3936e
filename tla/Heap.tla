-------------------------------- MODULE Heap --------------------------------
(****************************************************************************)
(* The kernel heap, kernel/core/alloc.cc, and the threads that use it:      *)
(* creation at boot (CreateThreadInternal), exit (FreeThread) and messages  *)
(* too long for Print's stack buffer (ec::string, kernel/hw/gfx/output.cc). *)
(*                                                                          *)
(* Allocate and the Frees of FreeThread run with interrupts masked, or at   *)
(* boot, and are one step.  The buffer of a long message is allocated, used *)
(* and filled with interrupts masked, but it is freed by the destructor of  *)
(* heap_str, after Print has enabled interrupts again: that Free is a loop  *)
(* of loads and stores between which other threads run.                     *)
(*                                                                          *)
(* Memory is counted in blocks; what an allocation holds is left out except *)
(* that it overwrites whatever headers were there before, and so is         *)
(* total_used, which no decision depends on.                                *)
(****************************************************************************)
EXTENDS Integers, FiniteSets

CONSTANTS Threads,     \* threads made at boot
          Printers,    \* threads that print long messages
          Exiters,     \* threads that may exit
          NBlocks,     \* kva::kernel_pool.size / block_size
          WordBits,    \* bits of a member of alloc_map
          SizeOf,      \* blocks of a "stack", a "thread" and a "buffer"
          MaxMessages  \* bound: long messages in a run

Kinds  == {"stack", "thread", "buffer"}
Blocks == 0..(NBlocks - 1)
None   == -1

ASSUME HeapAssumption ==
    /\ Printers \subseteq Threads /\ Exiters \subseteq Threads
    /\ NBlocks \in Nat /\ WordBits \in Nat \ {0}
    /\ SizeOf \in [Kinds -> Nat \ {0}]
    /\ MaxMessages \in Nat

Extent(first, n) == first..(first + n - 1)
Allocation == [offset : Blocks, blocks : Nat]
Overwritten == [offset |-> None, blocks |-> None]

VARIABLES marked,      \* alloc_map, as the set of blocks whose bit is set
          header,      \* the Allocation each block begins with, if any
          total_free,
          held,        \* the first block of what each thread owns
          pc,          \* where each thread stands
          index,       \* SetAllocationState's loop variable
          word,        \* the word of alloc_map clear_bit has loaded
          size, total, \* Free's size and the total_free it has loaded
          messages,    \* long messages printed so far
          panicked

mapVars   == <<marked, header>>
freeVars  == <<index, word, size, total>>
vars == <<mapVars, total_free, held, pc, freeVars, messages, panicked>>

\* The bits of alloc_map that share a word with block b.
Word(b) == {c \in Blocks : c \div WordBits = b \div WordBits}

\* Mutant of Fits: the first block may be in use.
FitsOnUsed(n) == {b \in Blocks : b + n <= NBlocks /\ Extent(b + 1, n - 1) \cap marked = {}}

Fits(n) == {b \in Blocks : b + n <= NBlocks /\ Extent(b, n) \cap marked = {}}

\* The search of Allocate restarts behind every used block: first fit.
FirstFit(n) == CHOOSE b \in Fits(n) : \A c \in Fits(n) : b <= c

Allocate(t, kind, next) ==
    LET n == SizeOf[kind] IN
    IF n > total_free \/ Fits(n) = {}
    THEN /\ panicked' = TRUE
         /\ UNCHANGED <<mapVars, total_free, held, pc>>
    ELSE LET first == FirstFit(n) IN
         /\ marked' = marked \cup Extent(first, n)
         /\ header' = [b \in Blocks |->
               IF b = first THEN [offset |-> first, blocks |-> n]
               ELSE IF b \in Extent(first, n) THEN Overwritten ELSE header[b]]
         /\ total_free' = total_free - n
         /\ held' = [held EXCEPT ![t][kind] = first]
         /\ pc' = [pc EXCEPT ![t] = next]
         /\ UNCHANGED panicked
-----------------------------------------------------------------------------
(* Boot: CreateThreadInternal allocates the stack, then the Thread.         *)

Booted == \A t \in Threads : pc[t] \notin {"none", "stack"}
Runs(t, label) == Booted /\ ~panicked /\ pc[t] = label

CreateStack(t) ==
    /\ ~panicked /\ pc[t] = "none" /\ \A u \in Threads : pc[u] # "stack"
    /\ Allocate(t, "stack", "stack")
    /\ UNCHANGED <<freeVars, messages>>

CreateThread(t) ==
    /\ ~panicked /\ pc[t] = "stack"
    /\ Allocate(t, "thread", "run")
    /\ UNCHANGED <<freeVars, messages>>
-----------------------------------------------------------------------------
(* FreeThread: both Frees with interrupts masked, through the headers.      *)

FreedBy(b) == IF header[b] = Overwritten THEN {} ELSE Extent(header[b].offset, header[b].blocks)

ExitThread(t) ==
    /\ Runs(t, "run") /\ t \in Exiters
    /\ LET stack == held[t]["stack"]
           thread == held[t]["thread"]
           n == header[stack].blocks + header[thread].blocks
       IN  /\ marked' = marked \ (FreedBy(stack) \cup FreedBy(thread))
           /\ total_free' = total_free + n
           /\ pc' = [pc EXCEPT ![t] = IF Overwritten \in {header[stack], header[thread]}
                                      THEN "wild" ELSE "exited"]
    /\ held' = [held EXCEPT ![t] = [k \in Kinds |-> None]]
    /\ UNCHANGED <<header, freeVars, messages, panicked>>
-----------------------------------------------------------------------------
(* Print of a long message, and the destructor's Free with interrupts on.   *)

PrintLong(t) ==
    /\ Runs(t, "run") /\ t \in Printers /\ messages < MaxMessages
    /\ messages' = messages + 1
    /\ Allocate(t, "buffer", "free")
    /\ UNCHANGED freeVars

\* What Free is given, and how far the allocation there extends.
Buffer(t)  == held[t]["buffer"]
End(t)     == header[Buffer(t)].offset + header[Buffer(t)].blocks
Legible(t) == header[Buffer(t)] # Overwritten

FreeStart(t) ==
    /\ Runs(t, "free") /\ Legible(t)
    /\ index' = [index EXCEPT ![t] = header[Buffer(t)].offset]
    /\ pc' = [pc EXCEPT ![t] = "loop"]
    /\ UNCHANGED <<mapVars, total_free, held, word, size, total, messages, panicked>>

LoadWord(t) ==
    /\ Runs(t, "loop") /\ Legible(t) /\ index[t] < End(t)
    /\ word' = [word EXCEPT ![t] = marked \cap Word(index[t])]
    /\ pc' = [pc EXCEPT ![t] = "store"]
    /\ UNCHANGED <<mapVars, total_free, held, index, size, total, messages, panicked>>

\* Bits other threads changed since LoadWord go back to what they were.
StoreWord(t) ==
    /\ Runs(t, "store")
    /\ marked' = (marked \ Word(index[t])) \cup (word[t] \ {index[t]})
    /\ index' = [index EXCEPT ![t] = @ + 1]
    /\ word' = [word EXCEPT ![t] = {}]
    /\ pc' = [pc EXCEPT ![t] = "loop"]
    /\ UNCHANGED <<header, total_free, held, size, total, messages, panicked>>

ReadSize(t) ==
    /\ Runs(t, "loop") /\ Legible(t) /\ index[t] >= End(t)
    /\ size' = [size EXCEPT ![t] = header[Buffer(t)].blocks]
    /\ index' = [index EXCEPT ![t] = 0]
    /\ pc' = [pc EXCEPT ![t] = "load_free"]
    /\ UNCHANGED <<mapVars, total_free, held, word, total, messages, panicked>>

\* The header is not one any more: where the loop ends is anybody's guess.
FreeWild(t) ==
    /\ Booted /\ ~panicked /\ pc[t] \in {"free", "loop"} /\ ~Legible(t)
    /\ pc' = [pc EXCEPT ![t] = "wild"]
    /\ UNCHANGED <<mapVars, total_free, held, freeVars, messages, panicked>>

LoadFree(t) ==
    /\ Runs(t, "load_free")
    /\ total' = [total EXCEPT ![t] = total_free]
    /\ pc' = [pc EXCEPT ![t] = "store_free"]
    /\ UNCHANGED <<mapVars, total_free, held, index, word, size, messages, panicked>>

StoreFree(t) ==
    /\ Runs(t, "store_free")
    /\ total_free' = total[t] + size[t]
    /\ size' = [size EXCEPT ![t] = 0]
    /\ total' = [total EXCEPT ![t] = 0]
    /\ held' = [held EXCEPT ![t]["buffer"] = None]
    /\ pc' = [pc EXCEPT ![t] = "run"]
    /\ UNCHANGED <<mapVars, index, word, messages, panicked>>
-----------------------------------------------------------------------------
Init ==
    /\ marked = {}
    /\ header = [b \in Blocks |-> Overwritten]
    /\ total_free = NBlocks
    /\ held = [t \in Threads |-> [k \in Kinds |-> None]]
    /\ pc = [t \in Threads |-> "none"]
    /\ index = [t \in Threads |-> 0]
    /\ word = [t \in Threads |-> {}]
    /\ size = [t \in Threads |-> 0] /\ total = [t \in Threads |-> 0]
    /\ messages = 0
    /\ panicked = FALSE

FreeStep(t) ==
    \/ FreeStart(t) \/ LoadWord(t) \/ StoreWord(t) \/ ReadSize(t) \/ FreeWild(t)
    \/ LoadFree(t) \/ StoreFree(t)

Next == \E t \in Threads :
    CreateStack(t) \/ CreateThread(t) \/ ExitThread(t) \/ PrintLong(t) \/ FreeStep(t)

Spec == Init /\ [][Next]_vars
-----------------------------------------------------------------------------
(* Properties.                                                              *)

Labels == {"none", "stack", "run", "exited", "wild", "free", "loop", "store",
           "load_free", "store_free"}

\* Every variable has its type.
TypeOK ==
    /\ marked \subseteq Blocks
    /\ header \in [Blocks -> Allocation \cup {Overwritten}]
    /\ total_free \in Int
    /\ held \in [Threads -> [Kinds -> Blocks \cup {None}]]
    /\ pc \in [Threads -> Labels]
    /\ index \in [Threads -> Nat]
    /\ word \in [Threads -> SUBSET Blocks]
    /\ size \in [Threads -> Nat] /\ total \in [Threads -> Int]
    /\ messages \in Nat
    /\ panicked \in BOOLEAN

\* What a live thread depends on: its kernel stack and its Thread.
Lasting == {"stack", "thread"}
Owns(t, kind) == held[t][kind] # None
Range(t, kind) == Extent(held[t][kind], SizeOf[kind])

\* However the unmasked Frees of long messages interleave with each other, with
\* allocations and with exits, every live thread's stack and Thread stay marked
\* in alloc_map, keep their headers and overlap nothing else of the kind: a lost
\* update of a word of alloc_map never frees them.  Nothing is said of what
\* happens after a Free that took other data for a header.
LiveMemoryIsKept ==
    (\A t \in Threads : pc[t] # "wild") =>
    \A t \in Threads, k \in Lasting : Owns(t, k) =>
        /\ Range(t, k) \subseteq marked
        /\ header[held[t][k]] = [offset |-> held[t][k], blocks |-> SizeOf[k]]
        /\ \A u \in Threads, j \in Lasting :
             Owns(u, j) /\ (u # t \/ j # k) => Range(t, k) \cap Range(u, j) = {}

\* "Is this block in use?": a bit is set only for a block that somebody owns.
MarkedIsOwned ==
    \A b \in marked : \E t \in Threads, k \in Kinds : Owns(t, k) /\ b \in Range(t, k)
=============================================================================
