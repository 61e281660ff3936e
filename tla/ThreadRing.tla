----------------------------- MODULE ThreadRing -----------------------------
(****************************************************************************)
(* ec::slist_entry, kernel/lib/ec/list.h: the ring that core->              *)
(* thread_list_head names the first entry of.  Each operation runs with     *)
(* interrupts masked (RegisterThread, UnregisterThread) and is one step.    *)
(* An entry that was removed keeps its m_next.                              *)
(****************************************************************************)
EXTENDS Integers, Sequences, FiniteSets

CONSTANTS Entries,  \* the thread_list_entry of every Thread
          Null

ASSUME EntriesAssumption == IsFiniteSet(Entries) /\ Null \notin Entries

VARIABLES first,   \* m_next of the head
          m_next   \* m_next of every entry
pointers == <<first, m_next>>

\* The entry k steps after the first one.
Follow[k \in Nat] == IF k = 0 THEN first ELSE m_next[Follow[k - 1]]

\* The entries a walk from the first one passes before it is back there.
Back  == {k \in 1..Cardinality(Entries) : Follow[k] = first}
Steps == IF first = Null THEN 0 ELSE CHOOSE k \in Back : \A j \in Back : k <= j
InRing(e) == \E k \in 0..(Steps - 1) : Follow[k] = e

\* Where the loops of push, pop and remove end: the entry whose m_next is e.
Before(e) == CHOOSE p \in Entries : InRing(p) /\ m_next[p] = e

\* Mutant of Push: the head is not moved to the new entry.
PushBehind(e) ==
    /\ ~InRing(e)
    /\ first' = IF first = Null THEN e ELSE first
    /\ m_next' = IF first = Null THEN [m_next EXCEPT ![e] = e]
                 ELSE [m_next EXCEPT ![e] = first, ![Before(first)] = e]

Push(e) ==
    /\ ~InRing(e)
    /\ first' = e
    /\ m_next' = IF first = Null THEN [m_next EXCEPT ![e] = e]
                 ELSE [m_next EXCEPT ![e] = first, ![Before(first)] = e]

Pop ==
    /\ first # Null
    /\ IF m_next[first] = first
       THEN first' = Null /\ UNCHANGED m_next
       ELSE first' = m_next[first] /\ m_next' = [m_next EXCEPT ![Before(first)] = m_next[first]]

Remove(e) ==
    IF first = Null \/ ~InRing(e) THEN UNCHANGED pointers
    ELSE IF Before(e) = e
         THEN first' = Null /\ UNCHANGED m_next
         ELSE /\ m_next' = [m_next EXCEPT ![Before(e)] = m_next[e]]
              /\ first' = IF first = e THEN m_next[e] ELSE first

InitRing == first = Null /\ m_next = [e \in Entries |-> Null]

NextRing == (\E e \in Entries : Push(e) \/ Remove(e)) \/ Pop

SpecRing == InitRing /\ [][NextRing]_pointers
-----------------------------------------------------------------------------
(* Properties.                                                              *)

\* The ring as Scheduler sees it, and what Scheduler's Without makes of it.
AsSequence == [i \in 1..Steps |-> Follow[i - 1]]
Without(r, e) ==
    IF \A i \in DOMAIN r : r[i] # e THEN r
    ELSE LET at == CHOOSE i \in DOMAIN r : r[i] = e
         IN  [i \in 1..(Len(r) - 1) |-> IF i < at THEN r[i] ELSE r[i + 1]]

\* Pushing, popping and removing at any position and in any order do to the
\* chain of pointers what the sequence of threads in Scheduler says, and leave a
\* ring: no entry is lost, doubled or reached through one that was removed.
KeepsSequence ==
    [][/\ \A e \in Entries :
            /\ Push(e)   => AsSequence' = <<e>> \o AsSequence
            /\ Remove(e) => AsSequence' = Without(AsSequence, e)
       /\ Pop => AsSequence' = Tail(AsSequence)]_pointers
=============================================================================
