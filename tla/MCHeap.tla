------------------------------- MODULE MCHeap -------------------------------
(* Model-checking instances of the heap.  The pool has room for every thread *)
(* and one buffer, so that further buffers need the room of threads that     *)
(* have exited.                                                              *)
EXTENDS Heap, TLC

\* In proportion to the code, where a stack is one block short of two message
\* buffers (129 blocks to two times 65) and a Thread fits in between.
Sizes == [stack |-> 3, thread |-> 2, buffer |-> 2]
\* The smallest sizes with which a buffer can overlap one that is being freed.
SmallSizes == [stack |-> 2, thread |-> 1, buffer |-> 2]

\* Threads that print are created alike and never exit.
PrinterSymmetry == Permutations(Printers)
=============================================================================
