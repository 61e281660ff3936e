------------------------------ MODULE EcString ------------------------------
(****************************************************************************)
(* ec::string: kernel/lib/ec/string.h and string.cc.  An object keeps a     *)
(* short text in its own bytes (m_short) and a longer one in a block of the *)
(* heap (m_long); one bit they share says which.  Every operation is one    *)
(* step: an object is used by one thread.                                   *)
(*                                                                          *)
(* capacity is cut to 32 bits by reserve, and from + count in substr to 64: *)
(* neither is reached here.  What reads a text and changes nothing (find,   *)
(* count, equals, ...) is in Strings.                                       *)
(****************************************************************************)
EXTENDS Integers, Sequences

CONSTANTS Objects,
          Blocks,     \* what operator new[] can return
          Letters,    \* characters that are not NUL
          LocalCap,   \* max_local_cap
          MaxText,    \* bound: characters of a text
          MaxReserve, \* bound: bytes asked of reserve
          Zero, Junk, \* the other values of a byte: NUL, and what was there before
          None        \* nullptr

ASSUME LocalCapAssumption == LocalCap \in Nat \ {0}
ASSUME NoneAssumption     == None \notin Blocks

Texts == UNION {[1..k -> Letters] : k \in 0..MaxText}

VARIABLES rep,   \* an object's fields; those its form does not have are fixed
          heap,  \* the bytes of every block; one that is not allocated has none
          text,  \* the text an object's user has given it, None when length is no longer its length
          tail   \* the bytes behind the text: "zero", "ended" by a NUL and then anything, or "open"
strings == <<rep, heap, text, tail>>

Memory(n, c) == [i \in 0..(n - 1) |-> c]
Written(bytes, at, chars) ==
    [i \in DOMAIN bytes |-> IF (i - at) + 1 \in DOMAIN chars THEN chars[(i - at) + 1] ELSE bytes[i]]
Filled(n, c) == [i \in 1..n |-> c]

Local(form, n, bytes) == [form |-> form, length |-> n, capacity |-> LocalCap, buffer |-> None, bytes |-> bytes]
Short(n, bytes) == Local("short", n, bytes)
Long(n, size, b) == [form |-> "long", length |-> n, capacity |-> size, buffer |-> b, bytes |-> Memory(LocalCap, Junk)]
Absent == Local("absent", 0, Memory(LocalCap, Junk))
Hollow == Long(0, 0, None)   \* a long string that was moved from

Exists(o) == rep[o].form # "absent"
Owned(o)  == {rep[o].buffer} \ {None}
\* Others may only be assigned to and destroyed.
Valid(o)  == Exists(o) /\ rep[o] # Hollow /\ text[o] # None

Data(o) == IF rep[o].form = "short" THEN rep[o].bytes ELSE heap[rep[o].buffer]
Read(o) == [i \in 1..rep[o].length |-> Data(o)[i - 1]]

Unused == {b \in Blocks : DOMAIN heap[b] = {}}

\* The heap with bytes in block b, and the blocks of freed deleted.
HeapWith(b, bytes, freed) ==
    [x \in Blocks |-> IF x = b THEN bytes ELSE IF x \in freed THEN Memory(0, Junk) ELSE heap[x]]

Means(o, chars, behind) ==
    /\ text' = [text EXCEPT ![o] = chars]
    /\ tail' = [tail EXCEPT ![o] = behind]
-----------------------------------------------------------------------------
(* The pieces of the operations.                                            *)

\* init(length) and the copy of the characters; before are the object's bytes,
\* freed is deleted behind it.
Build(o, chars, before, freed) ==
    LET n == Len(chars)
        copied == Append(chars, Zero)
    IN  \/ /\ n < LocalCap
           /\ rep' = [rep EXCEPT ![o] = Short(n, Written(before, 0, copied))]
           /\ heap' = HeapWith(None, <<>>, freed)
        \/ /\ n >= LocalCap
           /\ \E b \in Unused :
                /\ rep' = [rep EXCEPT ![o] = Long(n, n + 1, b)]
                /\ heap' = HeapWith(b, Written(Memory(n + 1, Junk), 0, copied), freed)

\* Writes chars at a position of the buffer there is, which then counts n.
Write(o, at, chars, n) ==
    \/ /\ rep[o].form = "short"
       /\ rep' = [rep EXCEPT ![o] = Short(n, Written(rep[o].bytes, at, chars))]
       /\ UNCHANGED heap
    \/ /\ rep[o].form = "long"
       /\ rep' = [rep EXCEPT ![o] = Long(n, rep[o].capacity, rep[o].buffer)]
       /\ heap' = HeapWith(rep[o].buffer, Written(Data(o), at, chars), {})

\* Mutant of Grow: what is behind the text is not set to zero.
GrowWithoutZeroes(o, size, chars, n) ==
    \E b \in Unused :
        /\ rep' = [rep EXCEPT ![o] = Long(n, size, b)]
        /\ heap' = HeapWith(b, Written(Written(Memory(size, Junk), 0, Append(Read(o), Zero)), rep[o].length, chars), Owned(o))

\* reserve beyond the capacity: a block of size bytes takes the text over, zeroes
\* behind it, and then chars as Write does.
Grow(o, size, chars, n) ==
    \E b \in Unused :
        /\ rep' = [rep EXCEPT ![o] = Long(n, size, b)]
        /\ heap' = HeapWith(b, Written(Written(Memory(size, Zero), 0, Read(o)), rep[o].length, chars), Owned(o))

\* append's and push_back's choice; more characters are to come.
Extend(o, more, chars, n) ==
    LET needed == rep[o].length + more
    IN  IF needed < rep[o].capacity THEN Write(o, rep[o].length, chars, n)
        ELSE Grow(o, needed * 2, chars, n)
Grows(o, more) == rep[o].length + more >= rep[o].capacity

\* Mutant of Taken: the source keeps its pointer.
TakenStays(o) == rep[o]
\* What a move leaves of its source: the text when that is local.
Taken(o) == IF rep[o].form = "long" THEN Hollow ELSE rep[o]
-----------------------------------------------------------------------------
(* Construction and destruction.                                            *)

Construct(o, chars, meant) ==
    /\ ~Exists(o)
    /\ Build(o, chars, Memory(LocalCap, Zero), {})
    /\ Means(o, meant, "zero")

\* string(), string(cstr), string(cstr, length) and string(c, length)
FromText(o) == \E chars \in Texts : Construct(o, chars, chars)

CopyOf(o, p) == Valid(p) /\ Construct(o, Read(p), text[p])

\* substr: from counts from 0, and too high a count stands for npos.
Slice(chars, from, count) ==
    LET rest == IF from + count > Len(chars) THEN Len(chars) - from ELSE count
    IN  CASE from >= Len(chars) -> <<>>
          [] from = 0 /\ rest >= Len(chars) -> chars
          [] OTHER -> SubSeq(chars, from + 1, from + rest)
SubstrOf(o, p) ==
    \E from, count \in 0..MaxText :
        /\ Valid(p)
        /\ Construct(o, Slice(Read(p), from, count),
                     SubSeq(text[p], from + 1, IF from + count < Len(text[p]) THEN from + count ELSE Len(text[p])))

MoveTo(o, p, freed) ==
    /\ Valid(p)
    /\ rep' = [rep EXCEPT ![o] = rep[p], ![p] = Taken(p)]
    /\ heap' = HeapWith(None, <<>>, freed)
    /\ Means(o, text[p], tail[p])

MovedFrom(o, p) == ~Exists(o) /\ MoveTo(o, p, {})

Destroy(o) ==
    /\ Exists(o)
    /\ rep' = [rep EXCEPT ![o] = Absent]
    /\ heap' = HeapWith(None, <<>>, Owned(o))
    /\ Means(o, <<>>, "zero")
-----------------------------------------------------------------------------
(* Assignment.                                                              *)

AssignCopy(o, p) ==
    /\ Exists(o) /\ Valid(p)
    /\ Build(o, Read(p), Memory(LocalCap, Zero), Owned(o))
    /\ Means(o, text[p], "zero")

AssignMoved(o, p) == Exists(o) /\ o # p /\ MoveTo(o, p, Owned(o))

\* operator=(const char*) builds over what is there: a block it had stays
\* allocated, and its own bytes are not cleared.
AssignText(o) ==
    \E chars \in Texts :
        /\ Exists(o)
        /\ Build(o, chars, rep[o].bytes, {})
        /\ Means(o, chars, IF Len(chars) < LocalCap THEN "ended" ELSE "zero")
-----------------------------------------------------------------------------
(* Changes.                                                                 *)

\* append(cstr, length): the count grows by strlen(cstr), as strlcpy returns it,
\* also when fewer characters are copied.
AppendText(o) ==
    \E chars \in Texts : \E length \in 0..Len(chars) :
        /\ Valid(o) /\ Len(text[o]) + Len(chars) <= MaxText
        /\ Extend(o, length + 1, Append(SubSeq(chars, 1, length), Zero), rep[o].length + Len(chars))
        /\ Means(o, IF length = Len(chars) THEN text[o] \o chars ELSE None,
                    IF Grows(o, length + 1) THEN "zero" ELSE IF tail[o] = "zero" THEN "zero" ELSE "ended")

\* Writes no NUL: one has to be there.
PushBack(o) ==
    \E c \in Letters :
        /\ Valid(o) /\ Len(text[o]) < MaxText
        /\ Extend(o, 1, <<c>>, rep[o].length + 1)
        /\ Means(o, Append(text[o], c),
                 IF Grows(o, 1) THEN "zero" ELSE IF tail[o] = "zero" THEN "zero" ELSE "open")

PopBack(o) ==
    /\ Valid(o) /\ rep[o].length > 0
    /\ Write(o, rep[o].length - 1, <<Zero>>, rep[o].length - 1)
    /\ Means(o, SubSeq(text[o], 1, Len(text[o]) - 1), IF tail[o] = "zero" THEN "zero" ELSE "ended")

\* clear, and the assignment of nullptr
Clear(o) ==
    /\ Valid(o)
    /\ Write(o, 0, Filled(rep[o].length, Zero), 0)
    /\ Means(o, <<>>, IF tail[o] = "zero" THEN "zero" ELSE "ended")

\* at(i) = c, of which to_upper, to_lower and reverse are made
SetAt(o) ==
    \E i \in 0..(MaxText - 1), c \in Letters :
        /\ Valid(o) /\ i < rep[o].length
        /\ Write(o, i, <<c>>, rep[o].length)
        /\ Means(o, [text[o] EXCEPT ![i + 1] = c], tail[o])

Reserve(o) ==
    \E size \in 0..MaxReserve :
        /\ Valid(o) /\ size > rep[o].capacity
        /\ Grow(o, size, <<>>, rep[o].length)
        /\ Means(o, text[o], "zero")
-----------------------------------------------------------------------------
InitStrings ==
    /\ rep  = [o \in Objects |-> Absent]
    /\ heap = [b \in Blocks |-> Memory(0, Junk)]
    /\ text = [o \in Objects |-> <<>>]
    /\ tail = [o \in Objects |-> "zero"]

Alone(o) ==
    \/ FromText(o) \/ Destroy(o) \/ AssignText(o)
    \/ AppendText(o) \/ PushBack(o) \/ PopBack(o) \/ Clear(o) \/ SetAt(o) \/ Reserve(o)

Pair(o, p) ==
    \/ CopyOf(o, p) \/ SubstrOf(o, p) \/ MovedFrom(o, p)
    \/ AssignCopy(o, p) \/ AssignMoved(o, p)

NextStrings == \E o \in Objects : Alone(o) \/ (\E p \in Objects : Pair(o, p))

SpecStrings == InitStrings /\ [][NextStrings]_strings
-----------------------------------------------------------------------------
(* Properties.                                                              *)

\* Copies, moves, growth and assignment never leave two strings with one block
\* of the heap, nor a string with a block that was deleted or is of another size:
\* what a destructor deletes is allocated and nobody else's.
BuffersHaveOneOwner ==
    /\ \A o \in Objects : Owned(o) # {} =>
         /\ rep[o].buffer \in Blocks /\ rep[o].capacity > 0
         /\ DOMAIN heap[rep[o].buffer] = 0..(rep[o].capacity - 1)
    /\ \A o, p \in Objects : o # p => Owned(o) \cap Owned(p) = {}

\* A string counts and holds the text it was given, and a NUL ends it, through
\* every change between the two forms.  The exceptions are a part appended with a
\* length, and characters pushed behind an assigned literal.
HoldsText ==
    \A o \in Objects : Valid(o) =>
        /\ rep[o].length < rep[o].capacity
        /\ Read(o) = text[o]
        /\ tail[o] # "open" => Data(o)[rep[o].length] = Zero
        /\ tail[o] = "zero" => \A i \in rep[o].length..(rep[o].capacity - 1) : Data(o)[i] = Zero
=============================================================================
