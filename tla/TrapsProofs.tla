---------------------------- MODULE TrapsProofs ----------------------------
(****************************************************************************)
(* The kernel finds its Core, and user code its own base, for any number of *)
(* threads.  The argument: the base is a function of the position and of    *)
(* the innermost frame (BaseAt); what an NMI or a machine check interrupts  *)
(* keeps that relation inside its frame (FrameOK), so that it holds again   *)
(* when the frame is popped.                                                *)
(*                                                                          *)
(* Processor is Traps with the descriptors and gates that its crossings     *)
(* load: every step is one of Traps, and a pair of selectors is always that *)
(* of the ring it is kept for.                                              *)
(****************************************************************************)
EXTENDS Processor, SequenceTheorems, TLAPS

Positions == OnUserBase \cup OnCoreBase \cup {"load_iret"} \cup FromIsr \cup FromParanoid

\* What a pushed, a replaced and a popped frame leave of a sequence.
LEMMA Pushed ==
    ASSUME NEW S, NEW s \in Seq(S), NEW x \in S
    PROVE  /\ Append(s, x) \in Seq(S) /\ Len(Append(s, x)) = Len(s) + 1
           /\ Append(s, x)[Len(s) + 1] = x
           /\ \A i \in 1..Len(s) : Append(s, x)[i] = s[i]
  OBVIOUS

\* An entry of a sequence is one of its set.
LEMMA Entries == ASSUME NEW S, NEW s \in Seq(S), NEW i \in 1..Len(s) PROVE s[i] \in S
  OBVIOUS

\* A sequence without its last entry.
LEMMA Popped ==
    ASSUME NEW S, NEW s \in Seq(S), Len(s) > 0
    PROVE  /\ SubSeq(s, 1, Len(s) - 1) \in Seq(S)
           /\ Len(SubSeq(s, 1, Len(s) - 1)) = Len(s) - 1
           /\ \A i \in 1..(Len(s) - 1) : SubSeq(s, 1, Len(s) - 1)[i] = s[i]
<1> DEFINE m == Len(s) - 1
<1>1. m \in 0..Len(s) /\ 1 \in 1..(Len(s) + 1) /\ m - 1 + 1 = m
  OBVIOUS
<1>2. /\ SubSeq(s, 1, m) \in Seq(S)
      /\ Len(SubSeq(s, 1, m)) = IF 1 <= m THEN m - 1 + 1 ELSE 0
      /\ \A i \in 1..(m - 1 + 1) : SubSeq(s, 1, m)[i] = s[1 + i - 1]
  BY <1>1, SubSeqProperties
<1>3. Len(SubSeq(s, 1, m)) = m
  BY <1>1, <1>2
<1>4. ASSUME NEW i \in 1..m PROVE SubSeq(s, 1, m)[i] = s[i]
  <2>1. 1 + i - 1 = i /\ i \in 1..(m - 1 + 1)
    BY <1>1
  <2> QED BY <2>1, <1>2
<1> QED BY <1>2, <1>3, <1>4

\* A sequence with another last entry.
LEMMA Replaced ==
    ASSUME NEW S, NEW s \in Seq(S), Len(s) > 0, NEW x \in S
    PROVE  LET t == Append(SubSeq(s, 1, Len(s) - 1), x) IN
           /\ t \in Seq(S) /\ Len(t) = Len(s) /\ t[Len(s)] = x
           /\ \A i \in 1..(Len(s) - 1) : t[i] = s[i]
<1> DEFINE t == Append(SubSeq(s, 1, Len(s) - 1), x)
<1>1. SubSeq(s, 1, Len(s) - 1) \in Seq(S) /\ Len(SubSeq(s, 1, Len(s) - 1)) = Len(s) - 1
  BY Popped
<1>2. Len(s) - 1 + 1 = Len(s) /\ Len(s) - 1 \in Nat
  OBVIOUS
<1>3. t \in Seq(S) /\ Len(t) = Len(s) /\ t[Len(s)] = x
  BY <1>1, <1>2, Pushed
<1>4. \A i \in 1..(Len(s) - 1) : t[i] = SubSeq(s, 1, Len(s) - 1)[i]
  BY <1>1, Pushed
<1> QED BY <1>3, <1>4, Popped

\* BaseAt looks at one frame, and a frame at the one below it.
LEMMA SameBase ==
    ASSUME NEW p, NEW g, NEW n \in Nat, NEW s, NEW t, NEW c,
           BaseAt(p, g, n, s, c), n > 0 => t[n] = s[n]
    PROVE  BaseAt(p, g, n, t, c)
<1>1. CASE n = 0
  BY <1>1 DEF BaseAt, FromIsr, FromParanoid
<1>2. CASE n # 0
  BY <1>2 DEF BaseAt
<1> QED BY <1>1, <1>2

\* A frame is in order whatever lies above it.
LEMMA SameFrame ==
    ASSUME NEW n \in Nat, NEW s, NEW t, NEW c, NEW i \in 1..n,
           FrameOK(s, i, c), \A j \in 1..n : t[j] = s[j]
    PROVE  FrameOK(t, i, c)
<1>1. t[i] = s[i]
  OBVIOUS
<1>2. i - 1 \in Nat /\ (i - 1 > 0 => t[i - 1] = s[i - 1])
  OBVIOUS
<1>3. BaseAt(s[i].at, s[i].gs, i - 1, s, c) => BaseAt(s[i].at, s[i].gs, i - 1, t, c)
  BY <1>2, SameBase
<1> QED BY <1>1, <1>3 DEF FrameOK

\* A frame that a paranoid vector has pushed is in order.
LEMMA ParanoidFrameOK ==
    ASSUME NEW s, NEW n \in Nat, NEW c, NEW f, f = s[n + 1], f.kind \in {"debug", "nmi", "mce"},
           BaseAt(f.at, f.gs, n, s, c), f.kind = "debug" => f.at = "user"
    PROVE  FrameOK(s, n + 1, c)
  BY DEF FrameOK

\* Before the first thread no frame is pushed.
LEMMA InitCrossing == Init => Crossing
<1> SUFFICES ASSUME Init PROVE Crossing
  OBVIOUS
<1>1. TypeOK
  <2>1. ctx \in [Threads -> {"none", "user", "kernel", "syscall"}]
    BY DEF Init
  <2>2. nested \in Seq(Frames)
    BY DEF Init
  <2> QED BY <2>1, <2>2 DEF Init, TypeOK, Threads, OnCoreBase, Bases
<1>2. Len(nested) = 0
  BY DEF Init
<1>3. BaseAt(at, gs, Len(nested), nested, ctx[current])
  BY <1>2 DEF Init, BaseAt, OnUserBase, OnCoreBase, FromIsr, FromParanoid
<1> QED BY <1>1, <1>2, <1>3 DEF Crossing

-----------------------------------------------------------------------------
\* Steps that only move within the innermost frame.
LEMMA StepsWithin ==
    ASSUME Crossing, UNCHANGED <<nested, ctx, current>>,
           TypeOK', blocked' = blocked \/ Len(nested) = 0,
           at' # "halted" => BaseAt(at', gs', Len(nested), nested, ctx[current])
    PROVE  Crossing'
  BY DEF Crossing

\* System calls and LoadContext's first half move the base of gs and push nothing.
LEMMA CallsStep ==
    ASSUME Crossing, Syscall \/ SyscallEntry \/ SyscallReturn \/ Sysret \/ LoadContext
    PROVE  Crossing'
<1>1. UNCHANGED <<nested, ctx, current, blocked>>
  BY DEF Syscall, SyscallEntry, SyscallReturn, Sysret, LoadContext
<1>2. TypeOK'
  BY DEF Crossing, TypeOK, Syscall, SyscallEntry, SyscallReturn, Sysret, LoadContext, SwapIf, Other, Bases,
     OnUserBase, OnCoreBase
<1>3. BaseAt(at', gs', Len(nested), nested, ctx[current])
  BY DEF Crossing, TypeOK, Syscall, SyscallEntry, SyscallReturn, Sysret, LoadContext, SwapIf, Other, Bases, BaseAt,
     OnUserBase, OnCoreBase, FromIsr, FromParanoid
<1> QED BY <1>1, <1>2, <1>3, StepsWithin

\* The interrupt entry, its handler's end and its exit swap gs by the saved selector.
LEMMA IsrStep ==
    ASSUME Crossing, Entry \/ HandlerReturns \/ Leave
    PROVE  Crossing'
<1>1. UNCHANGED <<nested, ctx, current, blocked>>
  BY DEF Entry, HandlerReturns, Leave
<1>2. TypeOK'
  BY DEF Crossing, TypeOK, Entry, HandlerReturns, Leave, SwapIf, Other, Bases, FromIsr
<1>3. BaseAt(at', gs', Len(nested), nested, ctx[current])
  BY DEF Crossing, TypeOK, Entry, HandlerReturns, Leave, SwapIf, Other, Bases, Frame, BaseAt,
     OnUserBase, OnCoreBase, FromIsr, FromParanoid
<1> QED BY <1>1, <1>2, <1>3, StepsWithin

\* The paranoid exit swaps gs by the base that its entry found.
LEMMA ParanoidStep ==
    ASSUME Crossing, ParanoidReturns \/ ParanoidLeave \/ HaltSystem
    PROVE  Crossing'
<1>1. UNCHANGED <<nested, ctx, current, blocked>>
  BY DEF ParanoidReturns, ParanoidLeave, HaltSystem
<1>2. TypeOK'
  BY DEF Crossing, TypeOK, ParanoidReturns, ParanoidLeave, HaltSystem, SwapIf, Other, Bases, FromParanoid
<1>3. at' # "halted" => BaseAt(at', gs', Len(nested), nested, ctx[current])
  <2>1. CASE ParanoidReturns
    BY <2>1 DEF Crossing, ParanoidReturns, Frame, BaseAt, OnUserBase, OnCoreBase, FromIsr, FromParanoid
  <2>2. CASE ParanoidLeave
    <3> DEFINE n == Len(nested)
    <3>1. /\ n > 0 /\ nested[n].kind = "nmi" /\ gs = "core"
          /\ nested[n].swapped = (nested[n].gs = "user")
      BY <2>2 DEF Crossing, ParanoidLeave, BaseAt, FromParanoid
    <3>2. nested[n].gs \in Bases
      <4>1. n \in 1..Len(nested) /\ nested \in Seq(Frames)
        BY <3>1 DEF Crossing, TypeOK
      <4>2. nested[n] \in Frames
        BY <4>1
      <4> QED BY <4>2 DEF Frames
    <3>3. gs' = nested[n].gs /\ at' = "paranoid_iret"
      BY <2>2, <3>1, <3>2 DEF ParanoidLeave, SwapIf, Other, Bases, Frame
    <3> HIDE DEF n
    <3> QED BY <3>1, <3>3 DEF n, BaseAt, OnUserBase, OnCoreBase, FromIsr, FromParanoid
  <2>3. CASE HaltSystem
    BY <2>3 DEF HaltSystem
  <2> QED BY <2>1, <2>2, <2>3
<1> QED BY <1>1, <1>2, <1>3, StepsWithin

\* iretq at the end of LoadContext.
LEMMA LoadContextIretStep ==
    ASSUME Crossing, LoadContextIret
    PROVE  Crossing'
<1>1. UNCHANGED <<nested, ctx, current>> /\ Len(nested) = 0
  BY DEF LoadContextIret, Crossing, BaseAt
<1>2. TypeOK' /\ ctx[current] \in {"user", "kernel", "syscall"}
  BY DEF Crossing, TypeOK, LoadContextIret, BaseAt, OnUserBase, OnCoreBase, Threads
<1>3. BaseAt(at', gs', Len(nested), nested, ctx[current])
  BY <1>2 DEF Crossing, TypeOK, LoadContextIret, Bases, BaseAt, OnUserBase, OnCoreBase, FromIsr, FromParanoid
<1> QED BY <1>1, <1>2, <1>3, StepsWithin
-----------------------------------------------------------------------------
\* A frame pushed on those there are.
LEMMA StepsIn ==
    ASSUME Crossing, NEW x \in Frames, nested' = Append(nested, x),
           UNCHANGED <<ctx, current>>, TypeOK', blocked => blocked',
           BaseAt(at', gs', Len(nested) + 1, Append(nested, x), ctx[current]),
           FrameOK(Append(nested, x), Len(nested) + 1, ctx[current]),
           x.kind = "nmi" => blocked'
    PROVE  Crossing'
<1> DEFINE n == Len(nested)
           t == Append(nested, x)
           c == ctx[current]
<1>1. nested \in Seq(Frames) /\ n \in Nat
  BY DEF Crossing, TypeOK
<1>2. Len(t) = n + 1 /\ t[n + 1] = x /\ \A i \in 1..n : t[i] = nested[i]
  BY <1>1, Pushed
<1>3. ASSUME NEW i \in 1..(n + 1) PROVE FrameOK(t, i, c)
  <2>1. CASE i = n + 1
    BY <2>1
  <2>2. CASE i \in 1..n
    <3>1. FrameOK(nested, i, c)
      BY <2>2 DEF Crossing
    <3> HIDE DEF n, t, c
    <3> QED BY <3>1, <1>1, <1>2, <2>2, SameFrame
  <2> QED BY <2>1, <2>2, <1>1
<1>4. ASSUME NEW i \in 1..(n + 1), t[i].kind = "nmi" PROVE blocked'
  <2>1. CASE i = n + 1
    BY <2>1, <1>2, <1>4
  <2>2. CASE i \in 1..n
    BY <2>2, <1>2, <1>4 DEF Crossing
  <2> QED BY <2>1, <2>2, <1>1
<1>5. nested' = t /\ Len(nested') = n + 1 /\ (ctx[current])' = c
  BY <1>2
<1> HIDE DEF n, t, c
<1>6. at' # "halted" => BaseAt(at', gs', n + 1, t, c)
  BY DEF n, t, c
<1> QED BY <1>3, <1>4, <1>5, <1>6 DEF Crossing

\* An interrupt or exception pushes a frame.
LEMMA PushStep ==
    ASSUME Crossing, NEW kind \in Kinds, Interrupt(kind) \/ Paranoid(kind)
    PROVE  Crossing'
<1> DEFINE x == [kind |-> kind, at |-> at, gs |-> gs, swapped |-> FALSE]
           n == Len(nested)
           t == Append(nested, x)
           c == ctx[current]
<1>1. nested \in Seq(Frames) /\ n \in Nat
  BY DEF Crossing, TypeOK
<1>2. at # "halted" /\ at \in Positions
  BY DEF Crossing, TypeOK, Interrupt, Paranoid, Positions, Interruptible
<1>3. x \in Frames
  BY <1>2 DEF Frames, Positions, Crossing, TypeOK
<1>4. nested' = t /\ UNCHANGED <<ctx, current, gs>>
  BY DEF Interrupt, Paranoid, Push
<1>5. t \in Seq(Frames) /\ Len(t) = n + 1 /\ t[n + 1] = x /\ \A i \in 1..n : t[i] = nested[i]
  BY <1>1, <1>3, Pushed
<1>6. at' \in FromIsr \cup FromParanoid /\ blocked' \in BOOLEAN
  BY DEF Interrupt, Paranoid, FromIsr, FromParanoid, Crossing, TypeOK
<1>7. TypeOK'
  BY <1>4, <1>5, <1>6 DEF Crossing, TypeOK
<1>8. BaseAt(at, gs, n, nested, c)
  BY <1>2 DEF Crossing
<1>9. BaseAt(at, gs, n, t, c)
  <2> HIDE DEF n, t, c, x
  <2> QED BY <1>8, <1>1, <1>5, SameBase
<1>10. FrameOK(t, n + 1, c)
  <2>1. n + 1 - 1 = n
    BY <1>1
  <2>2. CASE Interrupt(kind)
    <3>1. n = 0 /\ at \in Interruptible /\ kind \in {"irq", "fault"}
      BY <2>2, <1>8 DEF Interrupt, BaseAt, OnUserBase, OnCoreBase, Interruptible
    <3> QED BY <3>1, <1>5 DEF FrameOK
  <2>3. CASE Paranoid(kind)
    <3>1. kind \in {"debug", "nmi", "mce"} /\ (kind = "debug" => at = "user")
      BY <2>3 DEF Paranoid
    <3>2. x.kind = kind /\ x.at = at /\ x.gs = gs
      OBVIOUS
    <3> HIDE DEF n, t, c, x
    <3>3. BaseAt(x.at, x.gs, n, t, c) /\ x = t[n + 1]
      BY <3>2, <1>5, <1>9
    <3> QED BY <1>1, <3>1, <3>2, <3>3, ParanoidFrameOK
  <2> QED BY <2>2, <2>3
<1>11. BaseAt(at', gs', n + 1, t, c)
  <2>1. t[n + 1].kind = kind /\ t[n + 1].at = at /\ t[n + 1].gs = gs /\ n + 1 > 0
    BY <1>5, <1>1
  <2>2. CASE Interrupt(kind)
    <3>1. at' = "entry" /\ gs' = gs /\ kind \in {"irq", "fault"} /\ at \in Interruptible
      BY <2>2 DEF Interrupt
    <3>2. gs = "user" <=> at = "user"
      BY <3>1, <1>8 DEF BaseAt, OnUserBase, OnCoreBase, Interruptible
    <3> HIDE DEF n, t, c, x
    <3> QED BY <3>1, <3>2, <2>1 DEF BaseAt, OnUserBase, OnCoreBase, FromIsr, FromParanoid
  <2>3. CASE Paranoid(kind)
    <3>1. at' = "paranoid_entry" /\ gs' = gs /\ kind \in {"debug", "nmi", "mce"}
      BY <2>3 DEF Paranoid
    <3> HIDE DEF n, t, c, x
    <3> QED BY <3>1, <2>1 DEF BaseAt, OnUserBase, OnCoreBase, FromIsr, FromParanoid
  <2> QED BY <2>2, <2>3
<1>12. (blocked => blocked') /\ (x.kind = "nmi" => blocked')
  <2>1. x.kind = kind
    OBVIOUS
  <2>2. CASE Interrupt(kind)
    <3>1. kind # "nmi" /\ blocked' = blocked
      BY <2>2 DEF Interrupt
    <3> QED BY <3>1, <2>1
  <2>3. CASE Paranoid(kind)
    <3>1. blocked' = (blocked \/ kind = "nmi")
      BY <2>3 DEF Paranoid
    <3> HIDE DEF x
    <3> QED BY <3>1, <2>1, Zenon
  <2> QED BY <2>2, <2>3
<1> HIDE DEF x
<1> QED BY <1>3, <1>4, <1>7, <1>10, <1>11, <1>12, StepsIn
-----------------------------------------------------------------------------
\* The innermost frame replaced: swapped is set, and no more.
LEMMA ParanoidEntryStep ==
    ASSUME Crossing, ParanoidEntry
    PROVE  Crossing'
<1> DEFINE n == Len(nested)
           f == nested[n]
           x == [kind |-> f.kind, at |-> f.at, gs |-> f.gs, swapped |-> (gs = "user")]
           c == ctx[current]
<1>1. nested \in Seq(Frames) /\ n \in Nat /\ n > 0 /\ f.kind \in {"debug", "nmi", "mce"} /\ gs = f.gs
  BY DEF Crossing, TypeOK, ParanoidEntry, Enter, BaseAt, FromParanoid
<1>2. f \in Frames
  BY <1>1
<1>3. x \in Frames
  BY <1>2 DEF Frames
<1>4. nested' = Append(SubSeq(nested, 1, n - 1), x) /\ UNCHANGED <<ctx, current, blocked>>
  BY DEF ParanoidEntry, Enter, Below, Frame
<1> HIDE DEF x
<1>5. nested' \in Seq(Frames) /\ Len(nested') = n /\ nested'[n] = x /\ \A i \in 1..(n - 1) : nested'[i] = nested[i]
  <2>1. nested \in Seq(Frames) /\ Len(nested) > 0 /\ nested' = Append(SubSeq(nested, 1, Len(nested) - 1), x)
    BY <1>1, <1>4
  <2> HIDE DEF n, f, c
  <2> DEFINE t == Append(SubSeq(nested, 1, Len(nested) - 1), x)
  <2>2. /\ t \in Seq(Frames) /\ Len(t) = Len(nested) /\ t[Len(nested)] = x
        /\ \A i \in 1..(Len(nested) - 1) : t[i] = nested[i]
    <3>1. nested \in Seq(Frames) /\ Len(nested) > 0 /\ x \in Frames
      BY <2>1, <1>3
    <3> QED BY <3>1, Replaced
  <2>3. nested' = t
    BY <2>1
  <2> HIDE DEF t
  <2> QED BY <2>2, <2>3 DEF n
<1>6. x.kind = f.kind /\ x.at = f.at /\ x.gs = f.gs /\ x.swapped = (gs = "user")
  BY DEF x
<1>7. at' = "paranoid_handler" /\ gs' = "core"
  BY DEF ParanoidEntry, Enter, SwapIf, Other, Crossing, TypeOK, Bases
<1>8. TypeOK'
  BY <1>4, <1>5, <1>7 DEF Crossing, TypeOK, FromParanoid, Bases
<1>9. BaseAt(at', gs', n, nested', c)
  BY <1>1, <1>5, <1>6, <1>7 DEF BaseAt, OnUserBase, OnCoreBase, FromIsr, FromParanoid
<1>10. ASSUME NEW i \in 1..n PROVE FrameOK(nested', i, c)
  <2>1. FrameOK(nested, i, c)
    BY DEF Crossing
  <2>2. CASE i = n
    <3>1. BaseAt(f.at, f.gs, n - 1, nested, c) /\ (f.kind = "debug" => f.at = "user")
      BY <2>1, <2>2, <1>1 DEF FrameOK
    <3>2. n - 1 \in Nat /\ (n - 1 > 0 => nested'[n - 1] = nested[n - 1])
      BY <1>1, <1>5
    <3>3. BaseAt(f.at, f.gs, n - 1, nested', c)
      BY <3>1, <3>2, SameBase
    <3> QED BY <3>1, <3>3, <2>2, <1>1, <1>5, <1>6 DEF FrameOK
  <2>3. CASE i \in 1..(n - 1)
    <3>1. n - 1 \in Nat
      BY <1>1
    <3> QED BY <2>1, <2>3, <3>1, <1>5, SameFrame
  <2> QED BY <2>2, <2>3, <1>1
<1>11. ASSUME NEW i \in 1..n, nested'[i].kind = "nmi" PROVE blocked'
  <2>1. nested[i].kind = nested'[i].kind
    BY <1>1, <1>5, <1>6
  <2> QED BY <2>1, <1>4, <1>11 DEF Crossing
<1>12. (ctx[current])' = c
  BY <1>4
<1> HIDE DEF n, c
<1> QED BY <1>5, <1>8, <1>9, <1>10, <1>11, <1>12 DEF Crossing

\* A frame popped: what it interrupted resumes.
LEMMA IretStep ==
    ASSUME Crossing, OneFramePerStack, Iret
    PROVE  Crossing'
<1> DEFINE n == Len(nested)
           f == nested[n]
           c == ctx[current]
<1>1. nested \in Seq(Frames) /\ n \in Nat /\ n > 0 /\ BaseAt(at, gs, n, nested, c)
  BY DEF Crossing, TypeOK, Iret, BaseAt, FromIsr, FromParanoid
<1>2. f \in Frames
  BY <1>1
<1>3. /\ nested' \in Seq(Frames) /\ Len(nested') = n - 1
      /\ \A i \in 1..(n - 1) : nested'[i] = nested[i]
  BY <1>1, Popped DEF Iret, Below
<1>4. UNCHANGED <<ctx, current, gs>> /\ at' = f.at /\ blocked' = FALSE
  BY DEF Iret, Frame
<1>5. FrameOK(nested, n, c)
  BY <1>1 DEF Crossing
<1>6. TypeOK'
  BY <1>2, <1>3, <1>4 DEF Crossing, TypeOK, Frames
<1>7. BaseAt(at', gs', n - 1, nested', c)
  <2>1. CASE at = "iret"
    <3>1. n = 1 /\ f.at \in Interruptible /\ (gs = "user" <=> f.at = "user")
      BY <2>1, <1>1, <1>5 DEF BaseAt, FrameOK, FromIsr
    <3> QED BY <3>1, <1>4 DEF BaseAt, Interruptible, OnUserBase, OnCoreBase, FromIsr, FromParanoid, Crossing, TypeOK, Bases
  <2>2. CASE at = "paranoid_iret"
    <3>1. BaseAt(f.at, f.gs, n - 1, nested, c) /\ gs = f.gs
      BY <2>2, <1>1, <1>5 DEF BaseAt, FrameOK, FromParanoid
    <3>2. n - 1 \in Nat /\ (n - 1 > 0 => nested'[n - 1] = nested[n - 1])
      BY <1>1, <1>3
    <3> QED BY <3>1, <3>2, <1>4, SameBase
  <2> QED BY <2>1, <2>2 DEF Iret
<1>8. ASSUME NEW i \in 1..(n - 1) PROVE FrameOK(nested', i, c)
  <2>1. FrameOK(nested, i, c) /\ n - 1 \in Nat
    BY <1>1 DEF Crossing
  <2> QED BY <2>1, <1>3, SameFrame
<1>9. ASSUME NEW i \in 1..(n - 1), nested'[i].kind = "nmi" PROVE FALSE
  <2>1. nested[i].kind = "nmi" /\ i # n /\ i \in 1..n
    BY <1>1, <1>3, <1>9
  <2>2. CASE at = "iret"
    BY <2>2, <1>1, <1>5 DEF BaseAt, FrameOK, FromIsr
  <2>3. CASE at = "paranoid_iret"
    <3>1. f.kind = "nmi"
      BY <2>3, <1>1 DEF BaseAt
    <3> QED BY <3>1, <2>1, <1>1 DEF OneFramePerStack
  <2> QED BY <2>2, <2>3 DEF Iret
<1>10. (ctx[current])' = c
  BY <1>4
<1> HIDE DEF n, c
<1> QED BY <1>3, <1>6, <1>7, <1>8, <1>9, <1>10 DEF Crossing
-----------------------------------------------------------------------------
\* Switches of threads.
LEMMA CreateThreadStep ==
    ASSUME Crossing, NEW t \in Threads, CreateThread(t)
    PROVE  Crossing'
<1>1. UNCHANGED <<at, gs, nested, blocked, current>> /\ (ctx[current])' = ctx[current]
  BY DEF CreateThread, Crossing, TypeOK
<1>2. TypeOK'
  BY <1>1 DEF CreateThread, Crossing, TypeOK
<1> QED BY <1>1, <1>2 DEF Crossing

\* A handler that switches threads leaves its frame to the thread it came from.
LEMMA HandlerSwitchesStep ==
    ASSUME Crossing, NEW next \in Threads, HandlerSwitches(next)
    PROVE  Crossing'
<1> DEFINE n == Len(nested)
           x == [kind |-> "irq", at |-> ctx[next], gs |-> nested[n].gs, swapped |-> FALSE]
<1>1. nested \in Seq(Frames) /\ n \in Nat /\ n > 0 /\ nested[n].kind = "irq" /\ gs = "core"
  BY DEF Crossing, TypeOK, HandlerSwitches, BaseAt, FromIsr, Frame
<1>2. n = 1 /\ nested[1].at \in Interruptible
  <2>1. FrameOK(nested, n, ctx[current])
    BY <1>1 DEF Crossing
  <2> QED BY <2>1, <1>1 DEF FrameOK
<1>3. nested[n] \in Frames /\ ctx[next] \in Interruptible
  BY <1>1 DEF HandlerSwitches, Crossing, TypeOK, Interruptible
<1>4. x \in Frames
  BY <1>3 DEF Frames, Interruptible, OnUserBase, OnCoreBase, Kinds
<1>5. nested' = Append(SubSeq(nested, 1, n - 1), x)
  BY DEF HandlerSwitches, Below, Frame
<1> HIDE DEF x
<1>6. nested' \in Seq(Frames) /\ Len(nested') = 1 /\ nested'[1] = x
  BY <1>1, <1>2, <1>4, <1>5, Replaced
<1>7. x.kind = "irq" /\ x.at \in Interruptible
  BY <1>3 DEF x
<1>8. at' = "leave" /\ gs' = "core" /\ current' = next /\ blocked' = blocked
  BY <1>1 DEF HandlerSwitches
<1>9. ctx' \in [Threads -> {"none", "user", "kernel", "syscall"}]
  BY <1>1, <1>2 DEF HandlerSwitches, Crossing, TypeOK, Frame, Interruptible
<1>10. TypeOK'
  BY <1>6, <1>8, <1>9 DEF Crossing, TypeOK, FromIsr, Bases
<1>11. ASSUME NEW c PROVE BaseAt(at', gs', 1, nested', c) /\ FrameOK(nested', 1, c)
  BY <1>6, <1>7, <1>8 DEF BaseAt, FrameOK, OnUserBase, OnCoreBase, FromIsr, FromParanoid
<1>12. nested'[1].kind # "nmi"
  BY <1>6, <1>7
<1> QED BY <1>6, <1>10, <1>11, <1>12 DEF Crossing

\* Yield puts a thread aside with the base it has.
LEMMA YieldStep ==
    ASSUME Crossing, NEW next \in Threads, Yield(next)
    PROVE  Crossing'
<1>1. Len(nested) = 0 /\ gs = "core"
  BY DEF Crossing, Yield, BaseAt, OnUserBase, OnCoreBase
<1>2. UNCHANGED <<gs, nested, blocked>> /\ at' = "load" /\ current' = next
  BY DEF Yield
<1>3. TypeOK' /\ (ctx[current])' # "none"
  BY <1>2 DEF Yield, Crossing, TypeOK, OnCoreBase
<1>4. BaseAt(at', gs', 0, nested', (ctx[current])')
  BY <1>1, <1>2, <1>3 DEF BaseAt, OnUserBase, OnCoreBase, FromIsr, FromParanoid
<1> QED BY <1>1, <1>2, <1>3, <1>4 DEF Crossing

\* ExitThread forgets the thread's frames.
LEMMA ExitThreadStep ==
    ASSUME Crossing, NEW next \in Threads, ExitThread(next)
    PROVE  Crossing'
<1>1. gs = "core"
  BY DEF Crossing, ExitThread, BaseAt, OnUserBase, OnCoreBase
<1>2. gs' = gs /\ nested' = <<>> /\ at' = "load" /\ current' = next /\ blocked' = blocked
  BY DEF ExitThread
<1>3. TypeOK' /\ (ctx[current])' # "none" /\ Len(nested') = 0
  BY <1>2 DEF ExitThread, Crossing, TypeOK, OnCoreBase
<1>4. BaseAt(at', gs', 0, nested', (ctx[current])')
  BY <1>1, <1>2, <1>3 DEF BaseAt, OnUserBase, OnCoreBase, FromIsr, FromParanoid
<1> QED BY <1>2, <1>3, <1>4 DEF Crossing
-----------------------------------------------------------------------------
Alone == {"debug", "nmi", "mce"}

\* Frames that only go, or change in nothing but swapped, stay unique.
LEMMA StaysUnique ==
    ASSUME OneFramePerStack, NEW n \in Nat, n <= Len(nested), Len(nested) \in Nat, Len(nested') = n,
           \A i \in 1..n : nested'[i].kind = nested[i].kind
    PROVE  OneFramePerStack'
<1> SUFFICES ASSUME NEW i \in 1..n, NEW j \in 1..n,
                    nested'[i].kind = nested'[j].kind, nested'[i].kind \in Alone
             PROVE  i = j
  BY DEF OneFramePerStack, Alone
<1>1. i \in 1..Len(nested) /\ j \in 1..Len(nested)
  OBVIOUS
<1>2. nested[i].kind = nested[j].kind /\ nested[i].kind \in Alone
  OBVIOUS
<1> QED BY <1>1, <1>2 DEF OneFramePerStack, Alone

\* What is pushed has no frame of its kind yet: interrupts and debug exceptions
\* find none at all, NMIs are blocked.
LEMMA PushUnique ==
    ASSUME Crossing, OneFramePerStack, NEW kind \in Kinds, Interrupt(kind) \/ Paranoid(kind)
    PROVE  OneFramePerStack'
<1> DEFINE n == Len(nested)
           x == [kind |-> kind, at |-> at, gs |-> gs, swapped |-> FALSE]
<1>1. nested \in Seq(Frames) /\ n \in Nat
  BY DEF Crossing, TypeOK
<1>2. at # "halted" /\ at \in Positions
  BY DEF Crossing, TypeOK, Interrupt, Paranoid, Positions, Interruptible
<1>3. x \in Frames
  BY <1>2 DEF Frames, Positions, Crossing, TypeOK
<1>4. nested' = Append(nested, x)
  BY DEF Interrupt, Paranoid, Push
<1>5. /\ Len(nested') = n + 1 /\ nested'[n + 1].kind = kind
      /\ \A i \in 1..n : nested'[i] = nested[i]
  BY <1>1, <1>3, <1>4, Pushed
<1>6. kind \in Alone => \A i \in 1..n : nested[i].kind # kind
  <2>1. CASE Interrupt(kind)
    BY <2>1 DEF Interrupt, Alone
  <2>2. CASE Paranoid(kind)
    <3>1. kind = "debug" => n = 0
      BY <2>2 DEF Paranoid, Crossing, BaseAt, OnUserBase
    <3>2. kind = "nmi" => \A i \in 1..n : nested[i].kind # kind
      BY <2>2 DEF Paranoid, Crossing
    <3>3. kind = "mce" => \A i \in 1..n : nested[i].kind # kind
      BY <2>2 DEF Paranoid
    <3> QED BY <3>1, <3>2, <3>3, <1>1 DEF Alone
  <2> QED BY <2>1, <2>2
<1> HIDE DEF n, x
<1> SUFFICES ASSUME NEW i \in 1..(n + 1), NEW j \in 1..(n + 1),
                    nested'[i].kind = nested'[j].kind, nested'[i].kind \in Alone
             PROVE  i = j
  BY <1>5 DEF OneFramePerStack, Alone
<1>7. CASE i \in 1..n /\ j \in 1..n
  <2>1. nested[i].kind = nested[j].kind /\ nested[i].kind \in Alone
    BY <1>5, <1>7
  <2> QED BY <2>1, <1>7 DEF OneFramePerStack, Alone, n
<1>8. CASE i = n + 1 /\ j \in 1..n
  BY <1>5, <1>6, <1>8
<1>9. CASE i \in 1..n /\ j = n + 1
  BY <1>5, <1>6, <1>9
<1> QED BY <1>1, <1>7, <1>8, <1>9

\* A vector that has a stack of its own is not entered again on it.
LEMMA UniqueStep ==
    ASSUME Crossing, OneFramePerStack, [Next]_vars
    PROVE  OneFramePerStack'
<1>0. nested \in Seq(Frames) /\ Len(nested) \in Nat
  BY DEF Crossing, TypeOK
<1>1. CASE UNCHANGED nested
  BY <1>1 DEF OneFramePerStack
<1>2. ASSUME NEW kind \in Kinds, Interrupt(kind) \/ Paranoid(kind) PROVE OneFramePerStack'
  BY <1>2, PushUnique
<1>3. CASE Iret
  <2>1. Len(nested) > 0
    BY <1>3 DEF Crossing, Iret, BaseAt, FromIsr, FromParanoid
  <2>2. /\ Len(nested') = Len(nested) - 1
        /\ \A i \in 1..(Len(nested) - 1) : nested'[i] = nested[i]
    BY <1>0, <1>3, <2>1, Popped DEF Iret, Below
  <2>3. Len(nested) - 1 \in Nat /\ Len(nested) - 1 <= Len(nested)
    BY <1>0, <2>1
  <2> QED BY <1>0, <2>2, <2>3, StaysUnique
<1>4. CASE ParanoidEntry
  <2> DEFINE x == [kind |-> Frame.kind, at |-> Frame.at, gs |-> Frame.gs, swapped |-> (gs = "user")]
  <2>1. Len(nested) > 0
    BY <1>4 DEF Crossing, ParanoidEntry, Enter, BaseAt, FromParanoid
  <2>2. Frame \in Frames
    BY <1>0, <2>1 DEF Frame
  <2>3. x \in Frames /\ x.kind = Frame.kind
    BY <2>2 DEF Frames
  <2>4. nested' = Append(SubSeq(nested, 1, Len(nested) - 1), x)
    BY <1>4 DEF ParanoidEntry, Enter, Below
  <2> HIDE DEF x
  <2>5. /\ Len(nested') = Len(nested) /\ nested'[Len(nested)] = x
        /\ \A i \in 1..(Len(nested) - 1) : nested'[i] = nested[i]
    <3> DEFINE t == Append(SubSeq(nested, 1, Len(nested) - 1), x)
    <3>1. /\ Len(t) = Len(nested) /\ t[Len(nested)] = x
          /\ \A i \in 1..(Len(nested) - 1) : t[i] = nested[i]
      BY <1>0, <2>1, <2>3, Replaced
    <3>2. nested' = t
      BY <2>4
    <3> HIDE DEF t
    <3> QED BY <3>1, <3>2
  <2>6. \A i \in 1..Len(nested) : nested'[i].kind = nested[i].kind
    BY <1>0, <2>3, <2>5 DEF Frame
  <2> QED BY <1>0, <2>5, <2>6, StaysUnique
<1>5. ASSUME NEW t \in Threads, HandlerSwitches(t) PROVE OneFramePerStack'
  <2>1. Len(nested) > 0 /\ Frame.kind = "irq"
    BY <1>5 DEF Crossing, HandlerSwitches, BaseAt, FromIsr
  <2>2. Len(nested) = 1
    <3>1. FrameOK(nested, Len(nested), ctx[current])
      BY <1>0, <2>1 DEF Crossing
    <3> QED BY <3>1, <2>1 DEF FrameOK, Frame
  <2>3. Crossing'
    BY <1>5, HandlerSwitchesStep
  <2> DEFINE x == [kind |-> "irq", at |-> ctx[t], gs |-> Frame.gs, swapped |-> FALSE]
  <2>4. Len(nested') = 1
    <3>1. Below \in Seq(Frames) /\ Len(Below) = 0
      BY <1>0, <2>1, <2>2, Popped DEF Below
    <3>2. nested' = Append(Below, x)
      BY <1>5 DEF HandlerSwitches
    <3> QED BY <3>1, <3>2
  <2> QED BY <2>4 DEF OneFramePerStack
<1>6. ASSUME NEW t \in Threads, ExitThread(t) PROVE OneFramePerStack'
  BY <1>6 DEF ExitThread, OneFramePerStack
<1> QED BY <1>1, <1>2, <1>3, <1>4, <1>5, <1>6
        DEF Next, vars, Syscall, SyscallEntry, SyscallReturn, Sysret, Entry, HandlerReturns, Leave,
            ParanoidReturns, ParanoidLeave, HaltSystem, CreateThread, Yield, LoadContext, LoadContextIret

\* Every step keeps the frames and the base of gs in order.
LEMMA CrossingStep ==
    ASSUME Crossing, OneFramePerStack, [Next]_vars
    PROVE  Crossing'
<1>1. CASE UNCHANGED vars
  <2>1. UNCHANGED <<at, gs, nested, blocked, ctx, current>>
    BY <1>1 DEF vars
  <2> QED BY <2>1 DEF Crossing, TypeOK
<1>2. CASE Syscall \/ SyscallEntry \/ SyscallReturn \/ Sysret \/ LoadContext
  BY <1>2, CallsStep
<1>3. CASE Entry \/ HandlerReturns \/ Leave
  BY <1>3, IsrStep
<1>4. CASE ParanoidReturns \/ ParanoidLeave \/ HaltSystem
  BY <1>4, ParanoidStep
<1>5. CASE Iret
  BY <1>5, IretStep
<1>6. CASE ParanoidEntry
  BY <1>6, ParanoidEntryStep
<1>7. ASSUME NEW kind \in Kinds, Interrupt(kind) \/ Paranoid(kind) PROVE Crossing'
  BY <1>7, PushStep
<1>8. ASSUME NEW t \in Threads, CreateThread(t) \/ HandlerSwitches(t) \/ Yield(t) \/ ExitThread(t)
      PROVE  Crossing'
  BY <1>8, CreateThreadStep, HandlerSwitchesStep, YieldStep, ExitThreadStep
<1>9. CASE LoadContextIret
  BY <1>9, LoadContextIretStep
<1> QED BY <1>1, <1>2, <1>3, <1>4, <1>5, <1>6, <1>7, <1>8, <1>9 DEF Next

\* The base always belongs to the position, and every IST stack to one frame.
THEOREM CrossingHolds == Spec => [](Crossing /\ OneFramePerStack)
<1>1. Init => Crossing /\ OneFramePerStack
  BY InitCrossing DEF Init, OneFramePerStack
<1>2. Crossing /\ OneFramePerStack /\ [Next]_vars => (Crossing /\ OneFramePerStack)'
  BY CrossingStep, UniqueStep
<1> QED BY <1>1, <1>2, PTL DEF Spec

\* IsrCommon, SyscallEntry and the scheduler never read a Core through the base
\* of user code, whatever crossing an NMI interrupted.
THEOREM KernelAlwaysFindsCore == Spec => []KernelFindsCore
<1>1. Crossing => KernelFindsCore
  BY DEF Crossing, KernelFindsCore, BaseAt, OnUserBase, OnCoreBase, FromIsr, FromParanoid
<1> QED BY <1>1, CrossingHolds, PTL

\* User code never holds the core's base.
THEOREM UserAlwaysHasOwnBase == Spec => []UserHasOwnBase
<1>1. Crossing => UserHasOwnBase
  BY DEF Crossing, UserHasOwnBase, BaseAt, OnUserBase
<1> QED BY <1>1, CrossingHolds, PTL

\* An NMI returns with the base it found, at every instruction.
THEOREM NmiIsTransparent == Spec => []ParanoidIsTransparent
<1>1. Crossing => ParanoidIsTransparent
  BY DEF Crossing, ParanoidIsTransparent, BaseAt, Frame
<1> QED BY <1>1, CrossingHolds, PTL
-----------------------------------------------------------------------------
(* The processor's tables.  OsInitialize fills them in order (StartOK,      *)
(* TablesOK); a selector is one of a few, and tells the position it is for  *)
(* (PairAt), wherever it is kept meanwhile: in CS and SS, in a frame, in a  *)
(* context.  No stack but the outermost frame's is shared by two gates.     *)

\* The steps of OsInitialize from some step on.
SinceCore       == {"core", "running"}
SinceDevices    == {"devices", "finalize"} \cup SinceCore
SinceInterrupts == {"interrupts", "syscalls"} \cup SinceDevices
SinceTables     == {"tables", "cr3"} \cup SinceInterrupts
SinceTr         == {"tr", "idt"} \cup SinceTables
SinceGdt        == {"gdt", "segments"} \cup SinceTr
Stopped         == {"panic", "halted"}

StartOK ==
    /\ start \in {"madt", "identify", "control"} \cup SinceGdt \cup Stopped
    /\ console = space /\ (start \notin SinceInterrupts \cup Stopped => space = "loader")
    /\ sealed => start \in SinceCore
    /\ start \in {"cr3"} \cup SinceInterrupts /\ using_apic => mapped
    /\ start \in SinceTables /\ using_apic => idt[SpuriousVector].stub = "_IsrSpurious"
    /\ "FSGSBASE" \in cr4 => "FSGSBASE" \in has
    /\ start \in SinceGdt => "FSGSBASE" \notin cr4

GdtLoaded == [Gdt EXCEPT ![TssLow] = [Gdt[TssLow] EXCEPT !.used = TRUE]]

GatesOK ==
    /\ DOMAIN idt = 0..255
    /\ \A v \in 0..255 : idt[v].selector = Selector(R0Code, 0) /\ idt[v].ist = IF v \in 0..47 THEN Ist(v) ELSE 0

TablesOK ==
    /\ GatesOK
    /\ gdt = Gdt \/ gdt = GdtLoaded
    /\ start \in {"madt", "identify", "control", "gdt", "segments", "tr"} => gdt = Gdt
    /\ start \in {"idt"} \cup SinceTables => gdt = GdtLoaded /\ tr = TssLow
    /\ start \in SinceDevices => star = MsrStar(Selector(R0Code, 0), Selector(R3Code32, 3))

Nothing == Selector(NullIndex, 0)
Codes   == {KernelPair.cs, UserPair.cs}
Stacks  == {KernelPair.ss, UserPair.ss, Nothing}

\* The selectors of user code are ring 3's; kernel code may have no stack segment.
PairAt(code, stack, position) ==
    IF position = "user" THEN code = UserPair.cs /\ stack = UserPair.ss
                         ELSE code = KernelPair.cs /\ stack \in {KernelPair.ss, Nothing}

IstOf(kind) ==
    CASE kind = "nmi"   -> {NmiIst}
      [] kind = "mce"   -> {MachineCheckIst}
      [] kind = "debug" -> {DebugIst}
      [] kind = "irq"   -> {0}
      [] kind = "fault" -> {0, DoubleFaultIst, DebugIst}

SavedFrames == [cs : Codes, ss : Stacks, words : {6}, ist : 0..4]

FramesOK ==
    /\ frames \in Seq(SavedFrames) /\ Len(frames) = Len(nested)
    /\ \A i \in 1..Len(nested) : /\ PairAt(frames[i].cs, frames[i].ss, nested[i].at)
                                 /\ frames[i].ist \in IstOf(nested[i].kind)

KeptOK ==
    /\ kept \in [Threads -> [cs : Codes, ss : Stacks]]
    /\ \A t \in Threads : ctx[t] # "none" => PairAt(kept[t].cs, kept[t].ss, ctx[t])

PairsOK ==
    /\ FramesOK /\ KeptOK
    /\ start \in SinceTr => PairAt(cs, ss, at)
    /\ start # "running" => at = "kernel" /\ nested = <<>>

ProcessorInv == StartOK /\ TablesOK /\ PairsOK

\* Vectors with an error code of their own are those whose stubs push none.
LEMMA WordsAreSix == ASSUME NEW v PROVE Words(v) = 6
<1>1. v \in ErrorCodes <=> v \in HasError
  BY DEF ErrorCodes, HasError
<1> QED BY <1>1 DEF Words

\* The firmware's tables, before OsInitialize.
LEMMA InitialProcessor == InitProcessor => ProcessorInv
<1> SUFFICES ASSUME InitProcessor PROVE ProcessorInv
  OBVIOUS
<1>1. StartOK
  BY DEF InitProcessor, StartOK, SinceGdt, SinceTr, SinceTables, SinceInterrupts, SinceDevices, SinceCore, Stopped
<1>2. TablesOK
  <2>1. DOMAIN idt = 0..255
    BY DEF InitProcessor, Idt
  <2>2. ASSUME NEW v \in 0..255
        PROVE  idt[v].selector = Selector(R0Code, 0) /\ idt[v].ist = IF v \in 0..47 THEN Ist(v) ELSE 0
    <3>1. idt[v] = IF v \in 0..47 THEN Isrs[v] ELSE Unassigned[v]
      BY DEF InitProcessor, Idt, Isrs
    <3>2. CASE v \in 0..47
      BY <3>1, <3>2 DEF Isrs, Gate
    <3>3. CASE v \notin 0..47
      <4>1. v \in 48..255
        BY <3>3
      <4> QED BY <3>1, <3>3, <4>1 DEF Unassigned, Gate
    <3> QED BY <3>2, <3>3
  <2> QED BY <2>1, <2>2 DEF InitProcessor, TablesOK, GatesOK, SinceTables, SinceInterrupts, SinceDevices, SinceCore
<1>3. PairsOK
  <2>1. frames = <<>> /\ nested = <<>> /\ at = "kernel" /\ start = "madt" /\ kept = [t \in Threads |-> KernelPair]
    BY DEF InitProcessor, Init
  <2>2. \A t \in Threads : ctx[t] = "none"
    BY DEF InitProcessor, Init
  <2>3. kept \in [Threads -> [cs : Codes, ss : Stacks]]
    BY <2>1 DEF KernelPair, Pair, Codes, Stacks
  <2> QED BY <2>1, <2>2, <2>3 DEF PairsOK, FramesOK, KeptOK, SinceTr, SinceTables, SinceInterrupts, SinceDevices, SinceCore
<1> QED BY <1>1, <1>2, <1>3 DEF ProcessorInv

\* The descriptors that OsInitialize writes, one by one.
LEMMA GdtFacts ==
    /\ DOMAIN Gdt = 0..7 /\ DOMAIN GdtLoaded = 0..7
    /\ Gdt[1] = GdtEntry("code", 0, TRUE, TRUE, TRUE)
    /\ Gdt[2] = GdtEntry("data", 0, TRUE, TRUE, TRUE)
    /\ Gdt[4] = GdtEntry("data", 3, TRUE, TRUE, TRUE)
    /\ Gdt[5] = GdtEntry("code", 3, TRUE, TRUE, TRUE)
    /\ Gdt[6] = GdtEntry("tss", 0, FALSE, FALSE, TRUE)
    /\ \A i \in {1, 2, 4, 5} : GdtLoaded[i] = Gdt[i]
<1>1. /\ DOMAIN Gdt = 0..7
      /\ Gdt[1] = GdtEntry("code", 0, TRUE, TRUE, TRUE)
      /\ Gdt[2] = GdtEntry("data", 0, TRUE, TRUE, TRUE)
      /\ Gdt[4] = GdtEntry("data", 3, TRUE, TRUE, TRUE)
      /\ Gdt[5] = GdtEntry("code", 3, TRUE, TRUE, TRUE)
      /\ Gdt[6] = GdtEntry("tss", 0, FALSE, FALSE, TRUE)
  BY DEF Gdt, R0Code, R0Data, R3Code32, R3Data, R3Code, TssLow
<1>2. \A i \in {1, 2, 4, 5} : i \in 0..7 /\ i # TssLow
  BY DEF TssLow
<1> QED BY <1>1, <1>2 DEF GdtLoaded

\* A descriptor whose accessed bit is set does not change when it is set.
LEMMA UsedStays ==
    ASSUME NEW d, d = [field \in DOMAIN d |-> d[field]], d.used = TRUE
    PROVE  [d EXCEPT !.used = TRUE] = d
  OBVIOUS

\* A segment's descriptor already has the bit that loading it sets.
LEMMA MarkKeeps ==
    ASSUME gdt = Gdt \/ gdt = GdtLoaded, NEW used \in SUBSET {NullIndex, R0Code, R0Data, R3Data, R3Code}, Mark(used)
    PROVE  gdt' = gdt
<1>1. DOMAIN gdt = 0..7
  BY GdtFacts
<1>2. gdt = [i \in 0..7 |-> gdt[i]]
  BY <1>1 DEF Gdt, GdtLoaded
<1>3. ASSUME NEW i \in used \ {NullIndex} PROVE [gdt[i] EXCEPT !.used = TRUE] = gdt[i]
  <2>1. i \in {1, 2, 4, 5}
    BY DEF NullIndex, R0Code, R0Data, R3Data, R3Code
  <2>2. gdt[i] = Gdt[i]
    BY <2>1, GdtFacts
  <2>3. gdt[i] = [field \in DOMAIN gdt[i] |-> gdt[i][field]] /\ gdt[i].used = TRUE
    BY <2>1, <2>2, GdtFacts DEF GdtEntry
  <2> QED BY <2>3, UsedStays
<1> QED BY <1>1, <1>2, <1>3 DEF Mark
-----------------------------------------------------------------------------
Unused == <<frames, kept, vars>>

\* OsInitialize's steps follow each other as in the code.
LEMMA StartSteps ==
    ASSUME StartOK, TablesOK, OsInitialize
    PROVE  StartOK'
<1> USE DEF StartOK, SinceGdt, SinceTr, SinceTables, SinceInterrupts, SinceDevices, SinceCore, Stopped,
            Go, Panic, found, memory, written, loaded
<1>1. CASE ParseMadt
  BY <1>1 DEF ParseMadt
<1>2. CASE Identify
  BY <1>2 DEF Identify
<1>3. CASE SetControlRegisters
  BY <1>3 DEF SetControlRegisters, Cr4
<1>4. CASE LoadGdt
  BY <1>4 DEF LoadGdt
<1>5. CASE ReloadSegments
  BY <1>5 DEF ReloadSegments
<1>6. CASE LoadTr
  BY <1>6 DEF LoadTr
<1>7. CASE LoadIdt
  <2>1. using_apic => idt'[SpuriousVector].stub = "_IsrSpurious"
    BY <1>7 DEF LoadIdt, TablesOK, GatesOK, SpuriousVector, Gate
  <2> QED BY <1>7, <2>1 DEF LoadIdt
<1>8. CASE MapDevices
  <2>1. (using_apic' => using_apic /\ mapped') /\ start = "tables" /\ start' = "cr3"
    BY <1>8 DEF MapDevices
  <2> QED BY <1>8, <2>1 DEF MapDevices
<1>13. CASE MapFails
  BY <1>13 DEF MapFails
<1>9. CASE SwitchTables
  BY <1>9 DEF SwitchTables
<1>10. CASE InitializeInterrupts
  BY <1>10 DEF InitializeInterrupts
<1>11. CASE InitializeSyscalls
  BY <1>11 DEF InitializeSyscalls
<1>12. CASE InitializeDevices \/ FinalizeKernelMapping \/ StartThreads \/ Halt
  BY <1>12 DEF InitializeDevices, FinalizeKernelMapping, StartThreads, Halt
<1> QED BY <1>1, <1>2, <1>3, <1>4, <1>5, <1>6, <1>7, <1>8, <1>9, <1>10, <1>11, <1>12, <1>13
        DEF OsInitialize, InitializeStage1, InitializeStage2
\* Gates change in nothing but the one of spurious interrupts, and in its stub.
LEMMA GateSteps ==
    ASSUME GatesOK, OsInitialize
    PROVE  GatesOK'
<1>1. CASE LoadIdt /\ using_apic
  BY <1>1 DEF LoadIdt, GatesOK, SpuriousVector, Gate
<1>2. CASE idt' = idt
  BY <1>2 DEF GatesOK
<1> QED BY <1>1, <1>2
        DEF OsInitialize, InitializeStage1, InitializeStage2, ParseMadt, Identify, SetControlRegisters,
            LoadGdt, ReloadSegments, LoadTr, LoadIdt, MapDevices, MapFails, SwitchTables, InitializeInterrupts,
            InitializeSyscalls, InitializeDevices, FinalizeKernelMapping, StartThreads, Halt, written

\* OsInitialize's steps write each table before it is loaded.
LEMMA TableSteps ==
    ASSUME TablesOK, OsInitialize
    PROVE  TablesOK'
<1>0. GatesOK'
  BY GateSteps DEF TablesOK
<1> USE <1>0 DEF TablesOK, SinceTables, SinceInterrupts, SinceDevices, SinceCore, Go, Panic, memory, written, loaded
<1>1. CASE ParseMadt \/ Identify \/ SetControlRegisters \/ LoadGdt
  BY <1>1 DEF ParseMadt, Identify, SetControlRegisters, LoadGdt
<1>2. CASE ReloadSegments
  <2>1. gdt' = gdt
    BY <1>2, MarkKeeps DEF ReloadSegments, Load, KernelPair, Pair, Selector
  <2> QED BY <1>2, <2>1 DEF ReloadSegments, Load
<1>3. CASE LoadTr
  <2>1. gdt = Gdt /\ Mark({TssLow}) /\ TssLow \in 0..7 /\ TssLow # NullIndex
    BY <1>3 DEF LoadTr, NullIndex, TssLow
  <2>2. gdt' = GdtLoaded
    <3>1. DOMAIN gdt = 0..7 /\ {TssLow} \ {NullIndex} = {TssLow}
      BY <2>1, GdtFacts
    <3>2. gdt' = [i \in 0..7 |-> IF i \in {TssLow} THEN [Gdt[i] EXCEPT !.used = TRUE] ELSE Gdt[i]]
      BY <2>1, <3>1 DEF Mark
    <3>3. Gdt = [i \in 0..7 |-> Gdt[i]]
      BY DEF Gdt
    <3> QED BY <2>1, <3>2, <3>3, GdtFacts DEF GdtLoaded
  <2> QED BY <1>3, <2>2 DEF LoadTr
<1>4. CASE LoadIdt
  BY <1>4 DEF LoadIdt
<1>5. CASE MapDevices \/ MapFails \/ SwitchTables
  BY <1>5 DEF MapDevices, MapFails, SwitchTables
<1>6. CASE InitializeInterrupts \/ InitializeSyscalls
  BY <1>6 DEF InitializeInterrupts, InitializeSyscalls
<1>7. CASE InitializeDevices \/ FinalizeKernelMapping \/ StartThreads \/ Halt
  BY <1>7 DEF InitializeDevices, FinalizeKernelMapping, StartThreads, Halt
<1> QED BY <1>1, <1>2, <1>3, <1>4, <1>5, <1>6, <1>7
        DEF OsInitialize, InitializeStage1, InitializeStage2

\* OsInitialize loads ring 0's pair before there are threads.
LEMMA PairSteps ==
    ASSUME PairsOK, Starting
    PROVE  PairsOK'
<1> USE DEF SinceTr, SinceTables, SinceInterrupts, SinceDevices, SinceCore
<1>1. UNCHANGED Unused /\ start # "running"
  BY DEF Starting, Unused, OsInitialize, InitializeStage1, InitializeStage2, ParseMadt, Identify, SetControlRegisters,
     LoadGdt, ReloadSegments, LoadTr, LoadIdt, MapDevices, MapFails, SwitchTables, InitializeInterrupts,
     InitializeSyscalls, InitializeDevices, FinalizeKernelMapping, StartThreads, Halt, Panic, Go
<1>2. start' \in SinceTr => PairAt(cs', ss', "kernel")
  <2>1. CASE ReloadSegments
    BY <2>1 DEF ReloadSegments, Load, PairAt
  <2>2. CASE start \in SinceTr /\ UNCHANGED <<cs, ss>>
    BY <1>1, <2>2 DEF PairsOK
  <2> QED BY <2>1, <2>2
       DEF Starting, OsInitialize, InitializeStage1, InitializeStage2, ParseMadt, Identify, SetControlRegisters,
     LoadGdt, ReloadSegments, LoadTr, LoadIdt, MapDevices, MapFails, SwitchTables, InitializeInterrupts,
     InitializeSyscalls, InitializeDevices, FinalizeKernelMapping, StartThreads, Halt, Panic, Go, loaded, written
<1> QED BY <1>1, <1>2 DEF PairsOK, FramesOK, KeptOK, Unused, vars
-----------------------------------------------------------------------------
\* Only the position's ring matters.
LEMMA PairMoves ==
    ASSUME NEW c, NEW s, NEW p, NEW q, PairAt(c, s, p), p = "user" <=> q = "user"
    PROVE  PairAt(c, s, q)
  BY DEF PairAt

\* The selectors of a ring are those of its two segments.
LEMMA PairTypes ==
    ASSUME NEW c, NEW s, NEW p, PairAt(c, s, p)
    PROVE  /\ c \in Codes /\ s \in Stacks /\ (c.rpl = 3 <=> p = "user")
           /\ {c.index, s.index} \in SUBSET {NullIndex, R0Code, R0Data, R3Data, R3Code}
  BY DEF PairAt, Codes, Stacks, Nothing, KernelPair, UserPair, Pair, Selector,
         NullIndex, R0Code, R0Data, R3Data, R3Code

\* The gate of a vector names ring 0's code and the stack for its kind.
LEMMA VectorIst ==
    ASSUME TablesOK, using_apic, NEW kind \in Kinds, NEW v \in Vectors(kind)
    PROVE  v \in 0..255 /\ idt[v].ist \in IstOf(kind) /\ idt[v].selector = Selector(R0Code, 0)
<1>1. v \in 0..255
  BY DEF Vectors, Kinds, Irqs, ErrorVector
<1>g. GatesOK
  BY DEF TablesOK
<1>2. idt[v].selector = Selector(R0Code, 0) /\ idt[v].ist = IF v \in 0..47 THEN Ist(v) ELSE 0
  BY <1>1, <1>g DEF GatesOK
<1> SUFFICES idt[v].ist \in IstOf(kind)
  BY <1>1, <1>2
<1>3. CASE kind = "irq"
  <2>1. idt[v].ist = 0
    BY <1>2, <1>3 DEF Vectors, Irqs, ErrorVector, Ist
  <2> QED BY <2>1, <1>3 DEF IstOf
<1>4. CASE kind = "fault"
  <2>1. v \in (0..21 \cup {29, 30}) \ {1, 2, 9, 15, 18}
    BY <1>4 DEF Vectors
  <2>2. idt[v].ist \in {0, DoubleFaultIst, DebugIst}
    BY <1>2, <2>1 DEF Ist
  <2> QED BY <2>2, <1>4 DEF IstOf
<1>5. CASE kind \in {"debug", "nmi", "mce"}
  <2>1. v = (IF kind = "debug" THEN 1 ELSE IF kind = "nmi" THEN 2 ELSE 18)
    BY <1>5 DEF Vectors
  <2>2. idt[v].ist = (IF kind = "debug" THEN DebugIst ELSE IF kind = "nmi" THEN NmiIst ELSE MachineCheckIst)
    BY <1>2, <1>5, <2>1 DEF Ist
  <2> QED BY <2>2, <1>5 DEF IstOf
<1> QED BY <1>3, <1>4, <1>5 DEF Kinds

\* Only stacks of the task state segment are named.
LEMMA IstTypes == ASSUME NEW kind \in Kinds PROVE IstOf(kind) \subseteq 0..4
  BY DEF IstOf, Kinds, NmiIst, MachineCheckIst, DebugIst, DoubleFaultIst

\* A crossing is a step of Traps.
LEMMA CrossIsNext == Cross => Next
  BY DEF Cross, Within, Next

\* The tables stay as OsInitialize leaves them.
LEMMA RunningKeepsTables ==
    ASSUME StartOK, TablesOK, UNCHANGED <<start, found, memory, written>>, gdt' = gdt
    PROVE  StartOK' /\ TablesOK'
  BY DEF StartOK, TablesOK, GatesOK, found, memory, written

\* PairsOK's parts, for a step while threads run.
LEMMA RunningPairs ==
    ASSUME start = "running", start' = start, FramesOK', KeptOK', PairAt(cs', ss', at')
    PROVE  PairsOK'
  BY DEF PairsOK

\* Steps that stay in their ring load no selector.
LEMMA WithinStep ==
    ASSUME Crossing, PairsOK, start = "running", start' = start, Within, UNCHANGED <<loaded, frames, kept>>
    PROVE  gdt' = gdt /\ PairsOK'
<1> DEFINE n == Len(nested)
<1>1. nested \in Seq(Frames) /\ n \in Nat
  BY DEF Crossing, TypeOK
<1>2. UNCHANGED <<ctx, gdt, cs, ss, frames, kept>> /\ at # "user" /\ at' # "user"
  BY DEF Within, loaded, SyscallEntry, SyscallReturn, Entry, HandlerReturns, Leave, ParanoidEntry, Enter,
         ParanoidReturns, ParanoidLeave, HaltSystem, LoadContext
<1>3. Len(nested') = n /\ \A i \in 1..n : nested'[i].at = nested[i].at /\ nested'[i].kind = nested[i].kind
  <2>1. CASE ParanoidEntry
    <3> DEFINE x == [kind |-> Frame.kind, at |-> Frame.at, gs |-> Frame.gs, swapped |-> (gs = "user")]
    <3>1. n > 0 /\ Frame \in Frames /\ Frame = nested[n]
      BY <1>1, <2>1 DEF Crossing, ParanoidEntry, Enter, BaseAt, FromParanoid, Frame
    <3>2. x \in Frames /\ x.at = Frame.at /\ x.kind = Frame.kind
      BY <3>1 DEF Frames
    <3>3. nested' = Append(SubSeq(nested, 1, n - 1), x)
      BY <2>1 DEF ParanoidEntry, Enter, Below
    <3> HIDE DEF x
    <3>4. Len(nested') = n /\ nested'[n] = x /\ \A i \in 1..(n - 1) : nested'[i] = nested[i]
      <4> DEFINE t == Append(SubSeq(nested, 1, Len(nested) - 1), x)
      <4>1. Len(t) = n /\ t[n] = x /\ \A i \in 1..(n - 1) : t[i] = nested[i]
        BY <1>1, <3>1, <3>2, Replaced
      <4>2. nested' = t
        BY <3>3
      <4> HIDE DEF t
      <4> QED BY <4>1, <4>2
    <3> QED BY <1>1, <3>1, <3>2, <3>4
  <2>2. CASE nested' = nested
    BY <2>2
  <2> QED BY <2>1, <2>2 DEF Within, SyscallEntry, SyscallReturn, Entry, HandlerReturns, Leave,
         ParanoidReturns, ParanoidLeave, HaltSystem, LoadContext
<1>4. PairAt(cs', ss', at')
  BY <1>2, PairMoves DEF PairsOK, SinceTr, SinceTables, SinceInterrupts, SinceDevices, SinceCore
<1>5. FramesOK'
  BY <1>1, <1>2, <1>3 DEF PairsOK, FramesOK
<1>6. KeptOK'
  BY <1>2 DEF PairsOK, KeptOK
<1> QED BY <1>2, <1>4, <1>5, <1>6, RunningPairs
\* syscall and sysret load the pairs that the STAR register tells them.
LEMMA CallSteps ==
    ASSUME Crossing, TablesOK, PairsOK, start = "running", start' = start, star' = star,
           UNCHANGED <<frames, kept>>,
           \/ Syscall /\ Take(SyscallPair)
           \/ Sysret /\ Take(SysretPair)
    PROVE  gdt' = gdt /\ PairsOK'
<1>1. star = MsrStar(Selector(R0Code, 0), Selector(R3Code32, 3))
  BY DEF TablesOK, SinceDevices, SinceCore
<1>2. FramesOK' /\ KeptOK'
  BY DEF Syscall, Sysret, PairsOK, FramesOK, KeptOK
<1>3. PairAt(cs', ss', at')
  BY <1>1 DEF Syscall, Sysret, Take, SyscallPair, SysretPair, PairAt, MsrStar, Pair, Selector, KernelPair, UserPair,
              R0Code, R0Data, R3Code32, R3Data, R3Code
<1>4. gdt' = gdt
  BY DEF Take
<1> QED BY <1>2, <1>3, <1>4, RunningPairs

\* Delivering an interrupt loads ring 0's code and keeps the pair it interrupted.
LEMMA DeliverStep ==
    ASSUME Crossing, TablesOK, PairsOK, start = "running", start' = start, using_apic, UNCHANGED kept,
           NEW kind \in Kinds, Interrupt(kind) \/ Paranoid(kind), NEW v \in Vectors(kind), Deliver(v)
    PROVE  gdt' = gdt /\ PairsOK'
<1> DEFINE n == Len(nested)
           x == [kind |-> kind, at |-> at, gs |-> gs, swapped |-> FALSE]
           f == [cs |-> cs, ss |-> ss, words |-> Words(v), ist |-> idt[v].ist]
<1>1. nested \in Seq(Frames) /\ n \in Nat /\ frames \in Seq(SavedFrames) /\ Len(frames) = n
  BY DEF Crossing, TypeOK, PairsOK, FramesOK
<1>2. x \in Frames
  <2>1. at # "halted"
    BY DEF Interrupt, Paranoid, Interruptible
  <2> QED BY <2>1 DEF Frames, Crossing, TypeOK
<1>3. nested' = Append(nested, x) /\ UNCHANGED ctx /\ at' \in {"entry", "paranoid_entry"}
  BY DEF Interrupt, Paranoid, Push
<1>4. PairAt(cs, ss, at)
  BY DEF PairsOK, SinceTr, SinceTables, SinceInterrupts, SinceDevices, SinceCore
<1>5. cs \in Codes /\ ss \in Stacks /\ (cs.rpl = 3 <=> at = "user")
  BY <1>4, PairTypes
<1>6. v \in 0..255 /\ idt[v].ist \in IstOf(kind) /\ idt[v].ist \in 0..4 /\ idt[v].selector = Selector(R0Code, 0)
  BY VectorIst, IstTypes
<1>7. f \in SavedFrames /\ f.cs = cs /\ f.ss = ss /\ f.ist = idt[v].ist
  BY <1>5, <1>6, WordsAreSix DEF SavedFrames
<1>8. frames' = Append(frames, f)
  BY DEF Deliver
<1>9. x.kind = kind /\ x.at = at
  OBVIOUS
<1> HIDE DEF n, x, f
<1>10. Len(nested') = n + 1 /\ nested'[n + 1] = x /\ \A i \in 1..n : nested'[i] = nested[i]
  BY <1>1, <1>2, <1>3, Pushed DEF n
<1>11. frames' \in Seq(SavedFrames) /\ Len(frames') = n + 1 /\ frames'[n + 1] = f /\ \A i \in 1..n : frames'[i] = frames[i]
  BY <1>1, <1>7, <1>8, Pushed
<1>12. ASSUME NEW i \in 1..(n + 1)
       PROVE  PairAt(frames'[i].cs, frames'[i].ss, nested'[i].at) /\ frames'[i].ist \in IstOf(nested'[i].kind)
  <2>1. CASE i = n + 1
    BY <2>1, <1>4, <1>6, <1>7, <1>9, <1>10, <1>11
  <2>2. CASE i \in 1..n
    BY <2>2, <1>10, <1>11 DEF PairsOK, FramesOK, n
  <2> QED BY <2>1, <2>2, <1>1
<1>13. FramesOK'
  BY <1>10, <1>11, <1>12 DEF FramesOK
<1>14. KeptOK'
  BY <1>3 DEF PairsOK, KeptOK
<1>15. cs' = KernelPair.cs /\ ss' \in {KernelPair.ss, Nothing}
  <2>1. cs' = KernelPair.cs
    BY <1>6 DEF Deliver, KernelPair, Pair, Selector
  <2>2. CASE cs.rpl = 3
    BY <2>1, <2>2 DEF Deliver, Nothing
  <2>3. CASE cs.rpl # 3
    BY <2>1, <2>3, <1>4, <1>5 DEF Deliver, PairAt
  <2> QED BY <2>1, <2>2, <2>3
<1>16. PairAt(cs', ss', at')
  BY <1>3, <1>15 DEF PairAt
<1>17. gdt' = gdt
  <2>1. Mark({R0Code})
    BY <1>6 DEF Deliver, Selector
  <2> QED BY <2>1, MarkKeeps DEF TablesOK
<1> QED BY <1>13, <1>14, <1>16, <1>17, RunningPairs
\* iretq loads the pair that its frame has kept.
LEMMA IretPairs ==
    ASSUME Crossing, TablesOK, PairsOK, start = "running", start' = start, UNCHANGED kept,
           Iret, Load(Saved), frames' = Outer
    PROVE  gdt' = gdt /\ PairsOK'
<1> DEFINE n == Len(nested)
<1>1. nested \in Seq(Frames) /\ n \in Nat /\ frames \in Seq(SavedFrames) /\ Len(frames) = n /\ n > 0
  BY DEF Crossing, TypeOK, PairsOK, FramesOK, Iret, BaseAt, FromIsr, FromParanoid
<1>2. at' = nested[n].at /\ nested' = SubSeq(nested, 1, n - 1) /\ UNCHANGED ctx
  BY DEF Iret, Frame, Below
<1>3. PairAt(Saved.cs, Saved.ss, nested[n].at)
  BY <1>1 DEF PairsOK, FramesOK, Saved
<1>4. gdt' = gdt
  BY <1>3, PairTypes, MarkKeeps DEF Load, TablesOK
<1>5. Len(nested') = n - 1 /\ \A i \in 1..(n - 1) : nested'[i] = nested[i]
  BY <1>1, <1>2, Popped
<1>6. frames' \in Seq(SavedFrames) /\ Len(frames') = n - 1 /\ \A i \in 1..(n - 1) : frames'[i] = frames[i]
  BY <1>1, Popped DEF Outer
<1>7. FramesOK'
  BY <1>1, <1>5, <1>6 DEF PairsOK, FramesOK
<1>8. KeptOK'
  BY <1>2 DEF PairsOK, KeptOK
<1>9. PairAt(cs', ss', at')
  BY <1>2, <1>3 DEF Load
<1> QED BY <1>4, <1>7, <1>8, <1>9, RunningPairs

\* A new thread is given the pair of its ring.
LEMMA CreatePairs ==
    ASSUME Crossing, PairsOK, start = "running", start' = start, NEW t \in Threads,
           CreateThread(t), UNCHANGED <<loaded, frames>>,
           kept' = [kept EXCEPT ![t] = IF t \in UserThreads THEN UserPair ELSE KernelPair]
    PROVE  gdt' = gdt /\ PairsOK'
<1> DEFINE p == IF t \in UserThreads THEN UserPair ELSE KernelPair
           c == IF t \in UserThreads THEN "user" ELSE "kernel"
<1>1. UNCHANGED <<at, nested, gdt, cs, ss, frames>> /\ ctx' = [ctx EXCEPT ![t] = c]
  BY DEF CreateThread, loaded
<1>2. p \in [cs : Codes, ss : Stacks] /\ PairAt(p.cs, p.ss, c)
  BY DEF PairAt, Codes, Stacks, KernelPair, UserPair, Pair
<1>3. ctx \in [Threads -> {"none", "user", "kernel", "syscall"}]
  BY DEF Crossing, TypeOK
<1> HIDE DEF p, c
<1>4. kept' = [kept EXCEPT ![t] = p]
  BY DEF p
<1>5. KeptOK'
  BY <1>1, <1>2, <1>3, <1>4 DEF PairsOK, KeptOK
<1>6. FramesOK' /\ PairAt(cs', ss', at')
  BY <1>1 DEF PairsOK, FramesOK, SinceTr, SinceTables, SinceInterrupts, SinceDevices, SinceCore
<1> QED BY <1>1, <1>5, <1>6, RunningPairs

\* Yield keeps the pair that is loaded, which is ring 0's.
LEMMA YieldPairs ==
    ASSUME Crossing, PairsOK, start = "running", start' = start, NEW t \in Threads,
           Yield(t), UNCHANGED <<loaded, frames>>, kept' = [kept EXCEPT ![current] = Pair(cs, ss)]
    PROVE  gdt' = gdt /\ PairsOK'
<1>1. UNCHANGED <<nested, gdt, cs, ss, frames>> /\ ctx' = [ctx EXCEPT ![current] = at]
      /\ at # "user" /\ at' # "user"
  BY DEF Yield, loaded
<1>2. PairAt(cs, ss, at) /\ cs \in Codes /\ ss \in Stacks
  BY PairTypes DEF PairsOK, SinceTr, SinceTables, SinceInterrupts, SinceDevices, SinceCore
<1>3. ctx \in [Threads -> {"none", "user", "kernel", "syscall"}] /\ current \in Threads
  BY DEF Crossing, TypeOK
<1>4. KeptOK'
  BY <1>1, <1>2, <1>3 DEF PairsOK, KeptOK, Pair
<1>5. FramesOK' /\ PairAt(cs', ss', at')
  BY <1>1, <1>2, PairMoves DEF PairsOK, FramesOK
<1> QED BY <1>1, <1>4, <1>5, RunningPairs

\* ExitThread drops the frames; what other threads have kept stays.
LEMMA ExitPairs ==
    ASSUME Crossing, PairsOK, start = "running", start' = start, NEW t \in Threads,
           ExitThread(t), frames' = <<>>, UNCHANGED <<loaded, kept>>
    PROVE  gdt' = gdt /\ PairsOK'
<1>1. UNCHANGED <<gdt, cs, ss, kept>> /\ ctx' = [ctx EXCEPT ![current] = "none"] /\ nested' = <<>>
      /\ at # "user" /\ at' # "user"
  BY DEF ExitThread, loaded
<1>2. PairAt(cs, ss, at)
  BY DEF PairsOK, SinceTr, SinceTables, SinceInterrupts, SinceDevices, SinceCore
<1>3. ctx \in [Threads -> {"none", "user", "kernel", "syscall"}] /\ current \in Threads
  BY DEF Crossing, TypeOK
<1>4. KeptOK'
  BY <1>1, <1>3 DEF PairsOK, KeptOK
<1>5. FramesOK' /\ PairAt(cs', ss', at')
  BY <1>1, <1>2, PairMoves DEF FramesOK
<1> QED BY <1>1, <1>4, <1>5, RunningPairs

\* LoadContext loads the pair of the thread it goes on with.
LEMMA LoadContextPairs ==
    ASSUME Crossing, TablesOK, PairsOK, start = "running", start' = start, UNCHANGED <<frames, kept>>,
           LoadContextIret, Load(kept[current])
    PROVE  gdt' = gdt /\ PairsOK'
<1>1. UNCHANGED <<nested, ctx>> /\ at' = ctx[current] /\ ctx[current] # "none" /\ current \in Threads
  BY DEF LoadContextIret, Crossing, TypeOK, BaseAt
<1>2. PairAt(kept[current].cs, kept[current].ss, at')
  BY <1>1 DEF PairsOK, KeptOK
<1>3. gdt' = gdt
  BY <1>2, PairTypes, MarkKeeps DEF Load, TablesOK
<1>4. FramesOK' /\ KeptOK' /\ PairAt(cs', ss', at')
  BY <1>1, <1>2 DEF PairsOK, FramesOK, KeptOK, Load
<1> QED BY <1>3, <1>4, RunningPairs

\* A context and the frame in place change roles.
LEMMA SwitchPairs ==
    ASSUME Crossing, PairsOK, start = "running", start' = start, NEW t \in Threads,
           HandlerSwitches(t), UNCHANGED loaded,
           kept' = [kept EXCEPT ![current] = Pair(Saved.cs, Saved.ss)],
           frames' = Append(Outer, [Saved EXCEPT !.cs = kept[t].cs, !.ss = kept[t].ss])
    PROVE  gdt' = gdt /\ PairsOK'
<1> DEFINE f == [Saved EXCEPT !.cs = kept[t].cs, !.ss = kept[t].ss]
           x == [kind |-> "irq", at |-> ctx[t], gs |-> Frame.gs, swapped |-> FALSE]
<1>1. nested \in Seq(Frames) /\ Len(nested) > 0 /\ Frame = nested[Len(nested)] /\ Frame.kind = "irq"
  BY DEF Crossing, TypeOK, HandlerSwitches, BaseAt, FromIsr, Frame
<1>2. Len(nested) = 1
  <2>1. FrameOK(nested, Len(nested), ctx[current])
    BY <1>1 DEF Crossing
  <2> QED BY <2>1, <1>1 DEF FrameOK
<1>3. frames \in Seq(SavedFrames) /\ Len(frames) = 1 /\ Saved = frames[1] /\ Saved \in SavedFrames
      /\ PairAt(Saved.cs, Saved.ss, Frame.at) /\ Saved.ist \in IstOf("irq")
  <2>1. frames \in Seq(SavedFrames) /\ Len(frames) = 1 /\ Saved = frames[1]
    BY <1>2 DEF PairsOK, FramesOK, Saved
  <2>2. Saved \in SavedFrames
    <3>1. 1 \in 1..Len(frames)
      BY <2>1
    <3> QED BY <2>1, <3>1, Entries, Zenon
  <2> QED BY <1>1, <1>2, <2>1, <2>2 DEF PairsOK, FramesOK
<1>4. ctx[t] \in {"user", "kernel", "syscall"} /\ t # current /\ current \in Threads
      /\ ctx \in [Threads -> {"none", "user", "kernel", "syscall"}]
  BY DEF HandlerSwitches, Crossing, TypeOK
<1>5. kept[t] \in [cs : Codes, ss : Stacks] /\ PairAt(kept[t].cs, kept[t].ss, ctx[t])
  BY <1>4 DEF PairsOK, KeptOK
<1>6. f \in SavedFrames /\ f.cs = kept[t].cs /\ f.ss = kept[t].ss /\ f.ist = Saved.ist
  BY <1>3, <1>5 DEF SavedFrames
<1>7. x \in Frames /\ x.at = ctx[t] /\ x.kind = "irq"
  <2>1. Frame \in Frames
    BY <1>1
  <2> QED BY <2>1, <1>4 DEF Frames, Kinds, OnUserBase, OnCoreBase
<1>8. nested' = Append(Below, x) /\ ctx' = [ctx EXCEPT ![current] = Frame.at] /\ at # "user" /\ at' # "user"
  BY DEF HandlerSwitches
<1>9. frames' = Append(Outer, f) /\ UNCHANGED <<gdt, cs, ss>>
  BY DEF loaded
<1> HIDE DEF f, x
<1>10. Len(nested') = 1 /\ nested'[1] = x
  BY <1>1, <1>2, <1>7, <1>8, Replaced DEF Below
<1>11. frames' \in Seq(SavedFrames) /\ Len(frames') = 1 /\ frames'[1] = f
  BY <1>3, <1>6, <1>9, Replaced DEF Outer
<1>12. FramesOK'
  BY <1>3, <1>5, <1>6, <1>7, <1>10, <1>11 DEF FramesOK
<1>13. KeptOK'
  <2>1. Pair(Saved.cs, Saved.ss) \in [cs : Codes, ss : Stacks]
    BY <1>3 DEF SavedFrames, Pair
  <2> QED BY <2>1, <1>3, <1>4, <1>8 DEF PairsOK, KeptOK, Pair
<1>14. PairAt(cs', ss', at')
  BY <1>8, <1>9, PairMoves DEF PairsOK, SinceTr, SinceTables, SinceInterrupts, SinceDevices, SinceCore
<1> QED BY <1>9, <1>12, <1>13, <1>14, RunningPairs
\* Every crossing keeps loaded and kept pairs those of the rings.
LEMMA CrossStep ==
    ASSUME Crossing, TablesOK, PairsOK, start = "running", start' = start, using_apic, star' = star, Cross
    PROVE  gdt' = gdt /\ PairsOK'
<1>1. CASE Within /\ UNCHANGED <<loaded, frames, kept>>
  BY <1>1, WithinStep
<1>2. CASE Syscall /\ Take(SyscallPair) /\ UNCHANGED <<frames, kept>>
  BY <1>2, CallSteps
<1>3. CASE Sysret /\ Take(SysretPair) /\ UNCHANGED <<frames, kept>>
  BY <1>3, CallSteps
<1>4. ASSUME NEW kind \in Kinds, Interrupt(kind) \/ Paranoid(kind),
             \E v \in Vectors(kind) : Deliver(v), UNCHANGED kept
      PROVE  gdt' = gdt /\ PairsOK'
  BY <1>4, DeliverStep
<1>5. CASE Iret /\ Load(Saved) /\ frames' = Outer /\ UNCHANGED kept
  BY <1>5, IretPairs
<1>6. ASSUME NEW t \in Threads, CreateThread(t), UNCHANGED <<loaded, frames>>,
             kept' = [kept EXCEPT ![t] = IF t \in UserThreads THEN UserPair ELSE KernelPair]
      PROVE  gdt' = gdt /\ PairsOK'
  BY <1>6, CreatePairs
<1>7. ASSUME NEW t \in Threads, HandlerSwitches(t), UNCHANGED loaded,
             kept' = [kept EXCEPT ![current] = Pair(Saved.cs, Saved.ss)],
             frames' = Append(Outer, [Saved EXCEPT !.cs = kept[t].cs, !.ss = kept[t].ss])
      PROVE  gdt' = gdt /\ PairsOK'
  BY <1>7, SwitchPairs
<1>8. ASSUME NEW t \in Threads, Yield(t), UNCHANGED <<loaded, frames>>,
             kept' = [kept EXCEPT ![current] = Pair(cs, ss)]
      PROVE  gdt' = gdt /\ PairsOK'
  BY <1>8, YieldPairs
<1>9. ASSUME NEW t \in Threads, ExitThread(t), frames' = <<>>, UNCHANGED <<loaded, kept>>
      PROVE  gdt' = gdt /\ PairsOK'
  BY <1>9, ExitPairs
<1>10. CASE LoadContextIret /\ Load(kept[current]) /\ UNCHANGED <<frames, kept>>
  BY <1>10, LoadContextPairs
<1> QED BY <1>1, <1>2, <1>3, <1>4, <1>5, <1>6, <1>7, <1>8, <1>9, <1>10 DEF Cross

processor_vars == <<vars, start, found, memory, written, loaded, frames, kept>>

\* The invariant of the processor's tables and pairs is inductive.
LEMMA ProcessorStep ==
    ASSUME Crossing, ProcessorInv, [NextProcessor]_processor_vars
    PROVE  ProcessorInv'
<1>1. CASE Starting
  BY <1>1, StartSteps, TableSteps, PairSteps DEF ProcessorInv, Starting
<1>2. CASE Running
  <2>1. start = "running" /\ start' = start /\ using_apic /\ star' = star /\ Cross
        /\ UNCHANGED <<start, found, memory, written>>
    BY <1>2 DEF Running, Representative, written
  <2>2. gdt' = gdt /\ PairsOK'
    BY <2>1, CrossStep DEF ProcessorInv
  <2> QED BY <2>1, <2>2, RunningKeepsTables DEF ProcessorInv
<1>3. CASE UNCHANGED processor_vars
  BY <1>3 DEF processor_vars, vars, found, memory, written, loaded,
              ProcessorInv, StartOK, TablesOK, GatesOK, PairsOK, FramesOK, KeptOK
<1> QED BY <1>1, <1>2, <1>3 DEF NextProcessor

\* The tables and selectors change nothing about which crossings there are: what
\* is proved of Traps holds of the processor.
THEOREM ProcessorImplementsTraps == SpecProcessor => Spec
<1>1. InitProcessor => Init
  BY DEF InitProcessor
<1>2. ASSUME [NextProcessor]_processor_vars PROVE [Next]_vars
  BY <1>2, CrossIsNext DEF NextProcessor, Starting, Running, processor_vars
<1> QED BY <1>1, <1>2, PTL DEF SpecProcessor, processor_vars, Spec

\* The invariant of Processor: frames are in order, tables are as OsInitialize leaves them, and a pair
\* that is loaded or kept is the pair of the ring it belongs to.
THEOREM ProcessorInvariance == SpecProcessor => [](Crossing /\ OneFramePerStack /\ ProcessorInv)
<1>1. SpecProcessor => [](Crossing /\ OneFramePerStack)
  BY ProcessorImplementsTraps, CrossingHolds, PTL
<1>2. InitProcessor => ProcessorInv
  BY InitialProcessor
<1>3. Crossing /\ ProcessorInv /\ [NextProcessor]_processor_vars => ProcessorInv'
  BY ProcessorStep
<1> QED BY <1>1, <1>2, <1>3, PTL DEF SpecProcessor, processor_vars

\* The pair of a ring can be loaded from the descriptors that OsInitialize has written.
LEMMA PairLoads ==
    ASSUME gdt = GdtLoaded, NEW p, NEW position, PairAt(p.cs, p.ss, position)
    PROVE  Loads(p)
<1>1. /\ gdt[1] = GdtEntry("code", 0, TRUE, TRUE, TRUE) /\ gdt[2] = GdtEntry("data", 0, TRUE, TRUE, TRUE)
      /\ gdt[4] = GdtEntry("data", 3, TRUE, TRUE, TRUE) /\ gdt[5] = GdtEntry("code", 3, TRUE, TRUE, TRUE)
  BY GdtFacts
<1>2. CASE position = "user"
  <2>1. p.cs = Selector(5, 3) /\ p.ss = Selector(4, 3)
    BY <1>2 DEF PairAt, UserPair, Pair, R3Code, R3Data
  <2> QED BY <1>1, <2>1 DEF Loads, LoadsCode, LoadsStack, Marks, Selector, GdtEntry
<1>3. CASE position # "user"
  <2>1. p.cs = Selector(1, 0) /\ (p.ss = Selector(2, 0) \/ p.ss = Selector(0, 0))
    BY <1>3 DEF PairAt, KernelPair, Nothing, Pair, R0Code, R0Data, NullIndex
  <2> QED BY <1>1, <2>1 DEF Loads, LoadsCode, LoadsStack, Marks, Selector, GdtEntry, NullIndex
<1> QED BY <1>2, <1>3

\* No far return, gate, iretq or LoadContext faults over a selector, whichever way
\* the ring was entered and left before, and for any number of threads.
THEOREM SelectorsAlwaysLoad == SpecProcessor => []EverySelectorLoads
<1>1. ASSUME Crossing, ProcessorInv PROVE EverySelectorLoads
  <2>1. start = "segments" => Loads(KernelPair)
    <3>1. /\ Gdt[1] = GdtEntry("code", 0, TRUE, TRUE, TRUE) /\ Gdt[2] = GdtEntry("data", 0, TRUE, TRUE, TRUE)
      BY GdtFacts
    <3>2. start = "segments" => gdt = Gdt
      BY <1>1 DEF ProcessorInv, TablesOK
    <3> QED BY <3>1, <3>2 DEF Loads, LoadsCode, LoadsStack, Marks, KernelPair, Pair, Selector, GdtEntry, R0Code, R0Data
  <2>2. start = "tr" => LoadsTss(TssLow)
    <3>1. Gdt[6] = GdtEntry("tss", 0, FALSE, FALSE, TRUE)
      BY GdtFacts
    <3>2. start = "tr" => gdt = Gdt /\ ~sealed
      BY <1>1 DEF ProcessorInv, TablesOK, StartOK, SinceCore
    <3> QED BY <3>1, <3>2 DEF LoadsTss, GdtEntry, TssLow
  <2>3. start = "running" => gdt = GdtLoaded /\ tr = TssLow
    BY <1>1 DEF ProcessorInv, TablesOK, SinceTables, SinceInterrupts, SinceDevices, SinceCore
  <2>4. at # "kernel" \/ nested # <<>> => start = "running"
    BY <1>1 DEF ProcessorInv, PairsOK
  <2>5. start = "running" => LoadsCode(idt[0].selector, 0)
    <3>1. idt[0].selector = Selector(R0Code, 0)
      BY <1>1 DEF ProcessorInv, TablesOK, GatesOK
    <3>2. GdtLoaded[1] = GdtEntry("code", 0, TRUE, TRUE, TRUE)
      BY GdtFacts
    <3> QED BY <2>3, <3>1, <3>2 DEF LoadsCode, Marks, Selector, GdtEntry, R0Code
  <2>6. ASSUME at \in {"iret", "paranoid_iret"} PROVE Loads(Saved)
    <3>1. Len(nested) \in 1..Len(nested) /\ Len(frames) = Len(nested)
      BY <1>1, <2>6 DEF ProcessorInv, PairsOK, FramesOK, Crossing, TypeOK, BaseAt, FromIsr, FromParanoid
    <3>2. PairAt(Saved.cs, Saved.ss, nested[Len(nested)].at)
      BY <1>1, <3>1 DEF ProcessorInv, PairsOK, FramesOK, Saved
    <3> QED BY <2>3, <2>4, <2>6, <3>2, PairLoads
  <2>7. ASSUME at = "load_iret" PROVE Loads(kept[current])
    <3>1. ctx[current] # "none" /\ current \in Threads
      BY <1>1, <2>7 DEF Crossing, TypeOK, BaseAt
    <3>2. PairAt(kept[current].cs, kept[current].ss, ctx[current])
      BY <1>1, <3>1 DEF ProcessorInv, PairsOK, KeptOK
    <3> QED BY <2>3, <2>4, <2>7, <3>2, PairLoads
  <2> QED BY <2>1, <2>2, <2>3, <2>5, <2>6, <2>7 DEF EverySelectorLoads
<1> QED BY <1>1, ProcessorInvariance, PTL

\* Frames have an error code and five words whatever gate made them, their CS and
\* that of every context tells the ring, and none is on another's stack.
THEOREM FramesAlwaysTellRing == SpecProcessor => []FramesTellRing
<1>1. ASSUME Crossing, OneFramePerStack, ProcessorInv PROVE FramesTellRing
  <2>0. nested \in Seq(Frames) /\ frames \in Seq(SavedFrames) /\ Len(frames) = Len(nested) /\ Len(nested) \in Nat
    BY <1>1 DEF Crossing, TypeOK, ProcessorInv, PairsOK, FramesOK
  <2>1. DOMAIN frames = DOMAIN nested /\ DOMAIN frames = 1..Len(nested)
    BY <2>0
  <2>2. ASSUME NEW i \in 1..Len(nested) PROVE frames[i].words = 6 /\ (frames[i].cs.rpl = 3 <=> nested[i].at = "user")
    <3>1. frames[i] \in SavedFrames
      BY <2>0
    <3>2. PairAt(frames[i].cs, frames[i].ss, nested[i].at)
      BY <1>1 DEF ProcessorInv, PairsOK, FramesOK
    <3> QED BY <3>1, <3>2, PairTypes DEF SavedFrames
  <2>3. ASSUME NEW i \in 1..Len(nested), NEW j \in 1..Len(nested), i # j
        PROVE  frames[i].ist = 0 \/ frames[i].ist # frames[j].ist
    <3>1. \A k \in 1..Len(nested) : /\ nested[k].kind \in Kinds /\ frames[k].ist \in IstOf(nested[k].kind)
                                    /\ k # 1 => nested[k].kind \in {"nmi", "mce"}
      <4> SUFFICES ASSUME NEW k \in 1..Len(nested)
                   PROVE  /\ nested[k].kind \in Kinds /\ frames[k].ist \in IstOf(nested[k].kind)
                          /\ k # 1 => nested[k].kind \in {"nmi", "mce"}
        OBVIOUS
      <4>1. nested[k] \in Frames
        BY <2>0
      <4>2. FrameOK(nested, k, ctx[current])
        BY <1>1 DEF Crossing
      <4>3. k # 1 => nested[k].kind \in {"nmi", "mce"}
        BY <4>1, <4>2 DEF FrameOK, Frames, Kinds, BaseAt, OnUserBase
      <4> QED BY <1>1, <4>1, <4>3 DEF Frames, ProcessorInv, PairsOK, FramesOK
    <3>2. nested[i].kind = nested[j].kind => nested[i].kind \notin {"nmi", "mce"}
      BY <1>1, <2>3 DEF OneFramePerStack
    <3>3. i # 1 \/ j # 1
      BY <2>3
    <3>4. \A k \in 1..Len(nested) :
            /\ nested[k].kind = "nmi" => frames[k].ist = 2
            /\ nested[k].kind = "mce" => frames[k].ist = 4
            /\ nested[k].kind \notin {"nmi", "mce"} => frames[k].ist \in {0, 1, 3}
      BY <3>1 DEF IstOf, Kinds, NmiIst, MachineCheckIst, DebugIst, DoubleFaultIst
    <3> QED BY <3>1, <3>2, <3>3, <3>4
  <2>4. ASSUME NEW t \in Threads, ctx[t] # "none" PROVE kept[t].cs.rpl = 3 <=> ctx[t] = "user"
    BY <1>1, <2>4, PairTypes DEF ProcessorInv, PairsOK, KeptOK
  <2>5. start = "running" => (cs.rpl = 3 <=> at = "user")
    BY <1>1, PairTypes DEF ProcessorInv, PairsOK, SinceTr, SinceTables, SinceInterrupts, SinceDevices, SinceCore
  <2> QED BY <2>1, <2>2, <2>3, <2>4, <2>5 DEF FramesTellRing
<1> QED BY <1>1, ProcessorInvariance, PTL

\* OsInitialize's order is right for every machine: nothing is used before it is
\* mapped, nor after it is discarded or write-protected, a panic included.
THEOREM EverythingIsUsedWhilePresent == SpecProcessor => []UsedWhilePresent
<1>1. ProcessorInv => UsedWhilePresent
  <2> SUFFICES ASSUME ProcessorInv PROVE UsedWhilePresent
    OBVIOUS
  <2> USE DEF ProcessorInv, StartOK, SinceGdt, SinceTr, SinceTables, SinceInterrupts, SinceDevices, SinceCore, Stopped
  <2>1. ASSUME NEW what \in Touched PROVE Present(what)
    BY <2>1 DEF Touched, Present
  <2> QED BY <2>1 DEF UsedWhilePresent
<1> QED BY <1>1, ProcessorInvariance, PTL
=============================================================================
