----------------------------- MODULE BootProofs -----------------------------
(****************************************************************************)
(* Proofs about Boot, whose three parts take turns.                         *)
(*                                                                          *)
(* PageTable, in three parts of one invariant.  TreeInv: there is a level   *)
(* for every page of the pool such that the tables are a tree of taken      *)
(* pages, and a page without a level has nothing in it.  With it a virtual  *)
(* page's path is known: paths share tables only above the first index in   *)
(* which the pages differ.  UserInv: no step opens the kernel's half to     *)
(* ring 3 or maps a user page before CreateUserThread, whose pages are      *)
(* taken and are no tables.  MappedInv: a page is mapped or asked for only  *)
(* once its region's stage has begun, and asked for again only with the     *)
(* page it has already.  A pool is chosen before anything is mapped.        *)
(*                                                                          *)
(* Loader: each part of LoaderInv says from which call on something is done *)
(* (areas cleared, headers checked, sections read, tables found,            *)
(* initializers run); at the kernel's entry all of it is.                   *)
(*                                                                          *)
(* MemoryMap: while the firmware may still change memory, a map that is not *)
(* old describes it; afterwards every step changes both alike.  Coalescing  *)
(* keeps the descriptors valid, apart, and each of one kind.                *)
(****************************************************************************)
EXTENDS Boot, NaturalFacts, FiniteSetTheorems, SequenceTheorems, TLAPS

(* PageTable.                                                               *)

Ptes    == [to : Nat, present : BOOLEAN, user : BOOLEAN]
Own     == 1..(pages - 1)
Entries == 0..(Fanout - 1)

\* The tables, and what they say.
TablesOK ==
    /\ pages \in PoolSizes
    /\ present \subseteq 0..(pages - 1) /\ 0 \in present /\ Root \in present
    /\ entry \in [Own -> [Entries -> Ptes \cup {None}]]

\* Of which level a table is; 0 is no table, with nothing in it.  Tables are taken, and
\* an entry of an inner table leads to a table of the next level that no other leads to.
TreeOK(level) ==
    /\ level \in [Own -> 0..4] /\ level[Root] = 1
    /\ \A p \in Own : level[p] # 0 => p \in present
    /\ \A p \in Own, i \in Entries : entry[p][i] # None => level[p] # 0
    /\ \A p \in Own, i \in Entries : level[p] \in 1..3 /\ entry[p][i] # None =>
         entry[p][i].to \in Own \ {Root} /\ level[entry[p][i].to] = level[p] + 1
    /\ \A p, q \in Own, i, j \in Entries :
         (level[p] \in 1..3 /\ entry[p][i] # None /\ level[q] \in 1..3 /\ entry[q][j] # None
          /\ entry[p][i].to = entry[q][j].to) => (p = q /\ i = j)

\* A pool has a page for the root, and no page of it is None.
LEMMA SizeFacts ==
  ASSUME NEW n \in PoolSizes
  PROVE  n \in Nat /\ n > 1 /\ Root \in 1..(n - 1) /\ None \notin 0..(n - 1) /\ Fanout \in Nat /\ Fanout > 1
<1>1. n \in 2..(Outside - 1)
  BY PageTableAssumption
<1> QED BY <1>1, PageTableAssumption DEF Root

\* The indices of a page are entries of tables.
LEMMA IndexFacts ==
  ASSUME NEW v \in Pages, NEW l \in Levels
  PROVE  Index[v][l] \in Entries
<1>1. v \in Nat /\ Fanout \in Nat /\ Fanout > 0
  BY PageTableAssumption
<1> DEFINE F2 == Fanout * Fanout
           F3 == F2 * Fanout
<1>2. F2 \in Nat /\ F2 > 0
  BY <1>1
<1> HIDE DEF F2
<1>3. F3 \in Nat /\ F3 > 0
  BY <1>1, <1>2
<1> HIDE DEF F3
<1>4. v \div F3 \in Int /\ v \div F2 \in Int /\ v \div Fanout \in Int
  BY <1>1, <1>2, <1>3
<1>5. \A n \in Int : n % Fanout \in 0..(Fanout - 1)
  BY <1>1
<1>6. Index[v] = <<(v \div F3) % Fanout, (v \div F2) % Fanout, (v \div Fanout) % Fanout, v % Fanout>>
  BY DEF Index, F2, F3
<1> QED BY <1>1, <1>4, <1>5, <1>6 DEF Levels, Entries

(* Allocation.                                                              *)

Rank(p) == Cardinality({q \in Free : q <= p})

\* Free pages are the pool's own, finitely many, and not taken.
LEMMA FreeFacts ==
  ASSUME TablesOK
  PROVE  /\ IsFiniteSet(Free) /\ Cardinality(Free) \in Nat /\ Free \subseteq Own /\ Free \cap present = {}
         /\ \A p : IsFiniteSet({q \in Free : q <= p}) /\ Rank(p) \in Nat /\ Rank(p) <= Cardinality(Free)
<1>1. Free \subseteq 1..(pages - 1) /\ IsFiniteSet(1..(pages - 1))
  BY SizeFacts, FS_Interval DEF TablesOK, Free
<1>2. IsFiniteSet(Free) /\ Cardinality(Free) \in Nat
  BY <1>1, FS_Subset, FS_CardinalityType
<1>3. ASSUME NEW p PROVE IsFiniteSet({q \in Free : q <= p}) /\ Rank(p) \in Nat /\ Rank(p) <= Cardinality(Free)
  <2>1. {q \in Free : q <= p} \in SUBSET Free
    OBVIOUS
  <2> QED BY <1>2, <2>1, FS_Subset, FS_CardinalityType DEF Rank
<1> QED BY <1>1, <1>2, <1>3 DEF Free, Own

\* A page further on has a higher rank.
LEMMA RankGrows ==
  ASSUME TablesOK, NEW p \in Free, NEW q \in Free, p < q
  PROVE  Rank(p) < Rank(q)
<1>1. p \in Nat /\ q \in Nat /\ \A r \in Free : r \in Nat
  BY SizeFacts DEF TablesOK, Free
<1>2. {r \in Free : r <= p} \in SUBSET {r \in Free : r <= q} /\ {r \in Free : r <= p} # {r \in Free : r <= q}
  <2>1. \A r \in Free : r <= p => r <= q
    BY <1>1
  <2>2. q \in {r \in Free : r <= q} /\ q \notin {r \in Free : r <= p}
    BY <1>1
  <2> QED BY <2>1, <2>2
<1>3. IsFiniteSet({r \in Free : r <= q})
  BY FreeFacts
<1> DEFINE A == {r \in Free : r <= p}
           B == {r \in Free : r <= q}
<1>4. Cardinality(A) <= Cardinality(B) /\ Cardinality(A) # Cardinality(B) /\ Cardinality(A) \in Nat /\ Cardinality(B) \in Nat
  <2> HIDE DEF A, B
  <2>1. A \in SUBSET B /\ A # B /\ IsFiniteSet(B)
    BY <1>2, <1>3 DEF A, B
  <2> QED BY <2>1, FS_Subset, FS_CardinalityType
<1> QED BY <1>4 DEF Rank

\* The n-th free page exists if there are as many.
LEMMA Ranked ==
  ASSUME TablesOK, NEW n \in Nat \ {0}, n <= Cardinality(Free)
  PROVE  \E p \in Free : Rank(p) = n
<1>1. pages \in Nat /\ \A q \in Free : q \in Nat /\ 1 <= q /\ q <= pages
  BY SizeFacts DEF TablesOK, Free
<1> DEFINE S == {k \in Nat : Rank(k) >= n}
<1>2. pages \in S
  <2>1. {q \in Free : q <= pages} = Free
    BY <1>1
  <2> QED BY <1>1, <2>1 DEF Rank
<1>3. PICK k \in S : \A j \in S : k <= j
  BY <1>2, LeastNatural
<1>4. k \in Nat /\ Rank(k) >= n /\ Rank(k) \in Nat
  BY <1>3, FreeFacts
<1>5. k # 0
  <2>1. {q \in Free : q <= 0} = {}
    BY <1>1
  <2>2. Rank(0) = 0
    BY <2>1, FS_EmptySet DEF Rank
  <2> QED BY <1>4, <2>2
<1>6. Rank(k - 1) < n /\ Rank(k - 1) \in Nat
  <2>1. k - 1 \in Nat /\ k - 1 < k
    BY <1>4, <1>5
  <2>2. k - 1 \notin S
    BY <1>3, <1>4, <2>1
  <2>3. Rank(k - 1) \in Nat
    BY FreeFacts
  <2> QED BY <2>1, <2>2, <2>3
<1>7. k \in Free
  <2> SUFFICES ASSUME k \notin Free PROVE FALSE
    OBVIOUS
  <2>1. {q \in Free : q <= k} = {q \in Free : q <= k - 1}
    <3>1. \A q \in Free : q <= k <=> q <= k - 1
      BY <1>1, <1>4
    <3> QED BY <3>1
  <2> QED BY <1>4, <1>6, <2>1 DEF Rank
<1>8. Rank(k) = Rank(k - 1) + 1
  <2> DEFINE B == {q \in Free : q <= k - 1}
  <2>1. {q \in Free : q <= k} = B \cup {k}
    <3>1. \A q \in Free : q <= k <=> q <= k - 1 \/ q = k
      BY <1>1, <1>4
    <3> QED BY <1>7, <3>1
  <2>2. IsFiniteSet(B) /\ k \notin B
    BY <1>4, FreeFacts
  <2> HIDE DEF B
  <2>3. Cardinality(B \cup {k}) = Cardinality(B) + 1
    BY <2>2, FS_AddElement
  <2> QED BY <2>1, <2>3 DEF Rank, B
<1> QED BY <1>4, <1>6, <1>7, <1>8

\* AllocatePhysical's n-th page from now on is free and has n - 1 free pages before it, if there are n.
LEMMA AllocatedFacts ==
  ASSUME TablesOK, NEW n \in Nat \ {0}
  PROVE  /\ n > Cardinality(Free) => Allocated(n) = None
         /\ n <= Cardinality(Free) => Allocated(n) \in Free /\ Rank(Allocated(n)) = n
<1>1. CASE n > Cardinality(Free)
  BY <1>1, FreeFacts DEF Allocated
<1>2. CASE n <= Cardinality(Free)
  <2>1. Allocated(n) = CHOOSE p \in Free : Rank(p) = n
    <3>1. ~(n > Cardinality(Free))
      BY <1>2, FreeFacts
    <3> QED BY <3>1, Zenon DEF Allocated, Rank
  <2>2. \E p \in Free : Rank(p) = n
    BY <1>2, Ranked
  <2> QED BY <1>2, <2>1, <2>2, FreeFacts
<1> QED BY <1>1, <1>2, FreeFacts

(* The way to a page.                                                       *)

\* What the table p has for v, at level l.
Child(p, v, l) == IF p = None \/ entry[p][Index[v][l]] = None THEN None ELSE entry[p][Index[v][l]].to

\* A path, level by level.
LEMMA PathIs ==
  ASSUME NEW v \in Pages
  PROVE  Path(v)[1] = Root /\ \A l \in 1..3 : Path(v)[l + 1] = Child(Path(v)[l], v, l)
<1>1. Path(v) = <<Root, Child(Root, v, 1), Child(Child(Root, v, 1), v, 2),
                  Child(Child(Child(Root, v, 1), v, 2), v, 3)>>
  BY DEF Path, Child
<1>2. Path(v)[1] = Root /\ Path(v)[2] = Child(Path(v)[1], v, 1)
      /\ Path(v)[3] = Child(Path(v)[2], v, 2) /\ Path(v)[4] = Child(Path(v)[3], v, 3)
  BY <1>1
<1>3. \A l \in 1..3 : l = 1 \/ l = 2 \/ l = 3
  OBVIOUS
<1> QED BY <1>2, <1>3

\* The table an entry leads to is taken and one level further down.
LEMMA ChildFacts ==
  ASSUME TablesOK, NEW level, TreeOK(level), NEW v \in Pages, NEW l \in 1..3, NEW p,
         p = None \/ (p \in Own /\ level[p] = l)
  PROVE  \/ Child(p, v, l) = None
         \/ /\ p # None /\ entry[p][Index[v][l]] # None
            /\ Child(p, v, l) \in Own \ {Root} /\ level[Child(p, v, l)] = l + 1
            /\ Child(p, v, l) = entry[p][Index[v][l]].to
<1>1. CASE p = None
  BY <1>1 DEF Child
<1>2. CASE p # None /\ entry[p][Index[v][l]] = None
  BY <1>2 DEF Child
<1>3. CASE p # None /\ entry[p][Index[v][l]] # None
  <2>1. Index[v][l] \in Entries /\ p \in Own /\ level[p] \in 1..3
    BY <1>3, IndexFacts DEF Levels
  <2> QED BY <1>3, <2>1 DEF Child, TreeOK
<1> QED BY <1>1, <1>2, <1>3

\* A path goes down the levels until an entry is missing.
LEMMA PathFacts ==
  ASSUME TablesOK, NEW level, TreeOK(level), NEW v \in Pages
  PROVE  /\ Path(v)[1] = Root
         /\ \A l \in Levels : Path(v)[l] # None =>
              Path(v)[l] \in Own /\ level[Path(v)[l]] = l /\ Path(v)[l] \in present
         /\ \A l \in 1..3 : Path(v)[l] = None => Path(v)[l + 1] = None
         /\ \A l \in 1..3 : Path(v)[l] # None =>
              Path(v)[l + 1] = (IF entry[Path(v)[l]][Index[v][l]] = None THEN None
                                ELSE entry[Path(v)[l]][Index[v][l]].to)
<1> DEFINE Good(l) == Path(v)[l] # None => Path(v)[l] \in Own /\ level[Path(v)[l]] = l
<1>1. Good(1)
  BY PathIs, SizeFacts DEF TreeOK, TablesOK, Own
<1>2. ASSUME NEW l \in 1..3, Good(l) PROVE Good(l + 1)
  <2>1. Path(v)[l + 1] = Child(Path(v)[l], v, l)
    BY PathIs
  <2>2. Path(v)[l] = None \/ (Path(v)[l] \in Own /\ level[Path(v)[l]] = l)
    BY <1>2
  <2> QED BY <2>1, <2>2, ChildFacts
<1>3. Good(2)
  BY <1>1, <1>2
<1>4. Good(3)
  BY <1>3, <1>2
<1>5. Good(4)
  BY <1>4, <1>2
<1>6. ASSUME NEW l \in Levels, Path(v)[l] # None
      PROVE  Path(v)[l] \in Own /\ level[Path(v)[l]] = l /\ Path(v)[l] \in present
  <2>1. Path(v)[l] \in Own /\ level[Path(v)[l]] = l
    BY <1>1, <1>3, <1>4, <1>5, <1>6 DEF Levels
  <2> QED BY <2>1 DEF TreeOK, Levels
<1>7. ASSUME NEW l \in 1..3
      PROVE  /\ Path(v)[l] = None => Path(v)[l + 1] = None
             /\ Path(v)[l] # None =>
                  Path(v)[l + 1] = (IF entry[Path(v)[l]][Index[v][l]] = None THEN None
                                    ELSE entry[Path(v)[l]][Index[v][l]].to)
  BY PathIs DEF Child
<1> HIDE DEF Good
<1> QED BY <1>6, <1>7, PathIs

\* Two pages have the same table only if they have the same tables above it.
LEMMA SharedPath ==
  ASSUME TablesOK, NEW level, TreeOK(level), NEW v \in Pages, NEW w \in Pages, NEW l \in 1..3,
         Path(v)[l + 1] # None, Path(v)[l + 1] = Path(w)[l + 1]
  PROVE  Path(v)[l] # None /\ Path(v)[l] = Path(w)[l] /\ Index[v][l] = Index[w][l]
<1>1. /\ Path(v)[l] # None /\ Path(w)[l] # None
      /\ entry[Path(v)[l]][Index[v][l]] # None /\ Path(v)[l + 1] = entry[Path(v)[l]][Index[v][l]].to
      /\ entry[Path(w)[l]][Index[w][l]] # None /\ Path(w)[l + 1] = entry[Path(w)[l]][Index[w][l]].to
  BY PathFacts
<1>a. entry[Path(v)[l]][Index[v][l]].to = entry[Path(w)[l]][Index[w][l]].to
  BY <1>1
<1>2. /\ Path(v)[l] \in Own /\ level[Path(v)[l]] \in 1..3 /\ Index[v][l] \in Entries
      /\ Path(w)[l] \in Own /\ level[Path(w)[l]] \in 1..3 /\ Index[w][l] \in Entries
  BY <1>1, PathFacts, IndexFacts DEF Levels
<1>3. Path(v)[l] = Path(w)[l] /\ Index[v][l] = Index[w][l]
  <2> DEFINE p == Path(v)[l]
             q == Path(w)[l]
             i == Index[v][l]
             j == Index[w][l]
  <2>1. /\ p \in Own /\ i \in Entries /\ level[p] \in 1..3 /\ entry[p][i] # None
        /\ q \in Own /\ j \in Entries /\ level[q] \in 1..3 /\ entry[q][j] # None
        /\ entry[p][i].to = entry[q][j].to
    BY <1>1, <1>a, <1>2
  <2> HIDE DEF p, q, i, j
  <2>2. p = q /\ i = j
    BY <2>1 DEF TreeOK
  <2> QED BY <2>2 DEF p, q, i, j
<1> QED BY <1>1, <1>3

\* Pages that share a table share the indices above it.
LEMMA SharedIndices ==
  ASSUME TablesOK, NEW level, TreeOK(level), NEW v \in Pages, NEW w \in Pages, NEW l \in Levels,
         Path(v)[l] # None, Path(v)[l] = Path(w)[l]
  PROVE  \A m \in Levels : m < l => Index[v][m] = Index[w][m]
<1> DEFINE Same(k) == Path(v)[k] # None /\ Path(v)[k] = Path(w)[k]
<1>1. \A k \in 1..3 : Same(k + 1) => Same(k) /\ Index[v][k] = Index[w][k]
  BY SharedPath
<1>2. Same(4) => Same(3) /\ Index[v][3] = Index[w][3]
  <2>1. 3 \in 1..3 /\ 3 + 1 = 4
    OBVIOUS
  <2> HIDE DEF Same
  <2> QED BY <1>1, <2>1
<1>3. Same(3) => Same(2) /\ Index[v][2] = Index[w][2]
  <2>1. 2 \in 1..3 /\ 2 + 1 = 3
    OBVIOUS
  <2> HIDE DEF Same
  <2> QED BY <1>1, <2>1
<1>4. Same(2) => Index[v][1] = Index[w][1]
  <2>1. 1 \in 1..3 /\ 1 + 1 = 2
    OBVIOUS
  <2> HIDE DEF Same
  <2> QED BY <1>1, <2>1
<1>5. Same(l)
  OBVIOUS
<1> HIDE DEF Same
<1>6. l \in {1, 2, 3, 4} /\ \A m \in Levels : m \in {1, 2, 3, 4}
  BY DEF Levels
<1>7. CASE l = 1
  <2>1. \A m \in Levels : ~(m < 1)
    BY DEF Levels
  <2> QED BY <1>7, <2>1
<1>8. CASE l = 2
  <2>1. \A m \in Levels : m < 2 => m = 1
    BY <1>6
  <2> QED BY <1>4, <1>5, <1>8, <2>1
<1>9. CASE l = 3
  <2>1. \A m \in Levels : m < 3 => m \in {1, 2}
    BY <1>6
  <2> QED BY <1>3, <1>4, <1>5, <1>9, <2>1
<1>10. CASE l = 4
  <2>1. \A m \in Levels : m < 4 => m \in {1, 2, 3}
    BY <1>6
  <2> QED BY <1>2, <1>3, <1>4, <1>5, <1>10, <2>1
<1> QED BY <1>6, <1>7, <1>8, <1>9, <1>10

\* The indices tell pages apart.
LEMMA IndexInjective ==
  ASSUME NEW v \in Pages, NEW w \in Pages, \A l \in Levels : Index[v][l] = Index[w][l]
  PROVE  v = w
<1>1. /\ v \in Nat /\ w \in Nat /\ Fanout \in Nat /\ Fanout > 0
      /\ v < Fanout * Fanout * Fanout * Fanout /\ w < Fanout * Fanout * Fanout * Fanout
  BY PageTableAssumption DEF Space
<1> DEFINE F2 == Fanout * Fanout
           F3 == F2 * Fanout
           F4 == F3 * Fanout
<1>2. F2 \in Nat /\ F2 > 0
  BY <1>1
<1> HIDE DEF F2
<1>3. F3 \in Nat /\ F3 > 0
  BY <1>1, <1>2
<1> HIDE DEF F3
<1>4. ASSUME NEW x \in Pages
      PROVE  Index[x] = <<(x \div F3) % Fanout, (x \div F2) % Fanout, (x \div Fanout) % Fanout, x % Fanout>>
  BY DEF Index, F2, F3
<1>5. /\ (v \div F3) % Fanout = (w \div F3) % Fanout /\ (v \div F2) % Fanout = (w \div F2) % Fanout
      /\ (v \div Fanout) % Fanout = (w \div Fanout) % Fanout /\ v % Fanout = w % Fanout
  BY <1>4 DEF Levels
<1>8. ASSUME NEW n \in Nat, n > 0, (v \div n) % Fanout = (w \div n) % Fanout, v \div (n * Fanout) = w \div (n * Fanout)
      PROVE  v \div n = w \div n
  <2>1. /\ v \div n \in Nat /\ w \div n \in Nat
        /\ v \div n = Fanout * ((v \div n) \div Fanout) + ((v \div n) % Fanout)
        /\ w \div n = Fanout * ((w \div n) \div Fanout) + ((w \div n) % Fanout)
    <3>a. n \in Nat \ {0} /\ Fanout \in Nat \ {0}
      BY <1>1, <1>8
    <3>1. v \div n \in Nat /\ w \div n \in Nat
      BY <1>1, <3>a, Division
    <3> QED BY <3>a, <3>1, Division
  <2>2. (v \div n) \div Fanout = (w \div n) \div Fanout
    <3>1. (v \div n) \div Fanout = v \div (n * Fanout)
      BY <1>1, <1>8, DividedTwice
    <3>2. (w \div n) \div Fanout = w \div (n * Fanout)
      BY <1>1, <1>8, DividedTwice
    <3> QED BY <1>8, <3>1, <3>2
  <2>3. v \div n = w \div n
    <3> DEFINE a == v \div n
               b == w \div n
    <3>1. a = Fanout * (a \div Fanout) + (a % Fanout) /\ b = Fanout * (b \div Fanout) + (b % Fanout)
          /\ a \div Fanout = b \div Fanout /\ a % Fanout = b % Fanout
      BY <1>8, <2>1, <2>2
    <3> HIDE DEF a, b
    <3>2. a = b
      BY <3>1
    <3> QED BY <3>2 DEF a, b
  <2> QED BY <2>3
<1>9. F2 * Fanout = F3 /\ F3 * Fanout = F4 /\ Fanout * Fanout = F2
  BY DEF F2, F3
<1>10. v < F4 /\ w < F4 /\ F4 \in Nat
  BY <1>1, <1>3 DEF F2, F3
<1> HIDE DEF F4
<1>11. v \div F4 = 0 /\ w \div F4 = 0
  BY <1>1, <1>10
<1>12. v \div F3 = w \div F3
  BY <1>3, <1>5, <1>8, <1>9, <1>11
<1>13. v \div F2 = w \div F2
  BY <1>2, <1>5, <1>8, <1>9, <1>12
<1>14. v \div Fanout = w \div Fanout
  BY <1>1, <1>5, <1>8, <1>9, <1>13
<1>a. Fanout \in Nat \ {0}
  BY <1>1
<1>15. v = Fanout * (v \div Fanout) + (v % Fanout) /\ w = Fanout * (w \div Fanout) + (w % Fanout)
  BY <1>1, <1>a, Division
<1> QED BY <1>5, <1>14, <1>15

(* What MapPage makes of the way to a page.                                 *)

Lacking(v, l) == Cardinality({m \in 1..l : Path(v)[m] = None})
Full(v) == [l \in Levels |-> IF Path(v)[l] # None THEN Path(v)[l] ELSE Allocated(Lacking(v, l))]

\* What is missing is missing from some level on.
LEMMA LackingFacts ==
  ASSUME TablesOK, NEW level, TreeOK(level), NEW v \in Pages
  PROVE  \E f \in 2..5 : \A l \in Levels : (Path(v)[l] = None <=> l >= f) /\ (l >= f => Lacking(v, l) = l - f + 1)
<1>1. Path(v)[1] # None /\ \A l \in 1..3 : Path(v)[l] = None => Path(v)[l + 1] = None
  BY PathFacts, SizeFacts DEF TablesOK
<1>2. \E f \in 2..5 : \A l \in Levels : Path(v)[l] = None <=> l >= f
  <2>1. \A l \in Levels : l = 1 \/ l = 2 \/ l = 3 \/ l = 4
    BY DEF Levels
  <2>2. /\ Path(v)[2] = None => Path(v)[3] = None
        /\ Path(v)[3] = None => Path(v)[4] = None
    <3>1. 2 \in 1..3 /\ 3 \in 1..3 /\ 2 + 1 = 3 /\ 3 + 1 = 4
      OBVIOUS
    <3> QED BY <1>1, <3>1
  <2>3. CASE Path(v)[2] = None
    <3> SUFFICES \A l \in Levels : Path(v)[l] = None <=> l >= 2
      OBVIOUS
    <3> QED BY <1>1, <2>1, <2>2, <2>3
  <2>4. CASE Path(v)[2] # None /\ Path(v)[3] = None
    <3> SUFFICES \A l \in Levels : Path(v)[l] = None <=> l >= 3
      OBVIOUS
    <3> QED BY <1>1, <2>1, <2>2, <2>4
  <2>5. CASE Path(v)[2] # None /\ Path(v)[3] # None /\ Path(v)[4] = None
    <3> SUFFICES \A l \in Levels : Path(v)[l] = None <=> l >= 4
      OBVIOUS
    <3> QED BY <1>1, <2>1, <2>2, <2>5
  <2>6. CASE Path(v)[2] # None /\ Path(v)[3] # None /\ Path(v)[4] # None
    <3> SUFFICES \A l \in Levels : Path(v)[l] = None <=> l >= 5
      OBVIOUS
    <3> QED BY <1>1, <2>1, <2>2, <2>6
  <2> QED BY <2>3, <2>4, <2>5, <2>6
<1>3. PICK f \in 2..5 : \A l \in Levels : Path(v)[l] = None <=> l >= f
  BY <1>2
<1>4. ASSUME NEW l \in Levels, l >= f PROVE Lacking(v, l) = l - f + 1
  <2>1. \A m \in 1..l : m \in Levels
    BY DEF Levels
  <2>2. l \in Int /\ f \in Int
    BY DEF Levels
  <2>3. \A m : m \in 1..l /\ Path(v)[m] = None <=> m \in f..l
    BY <1>3, <2>1, <2>2
  <2>4. {m \in 1..l : Path(v)[m] = None} = f..l
    BY <2>3
  <2>5. Cardinality(f..l) = l - f + 1
    BY <1>4, <2>2, FS_Interval
  <2> QED BY <2>4, <2>5 DEF Lacking
<1> QED BY <1>3, <1>4

\* The tables MapPage has at hand: the path's, and new ones from the level on where it ends.
LEMMA FullFacts ==
  ASSUME TablesOK, NEW level, TreeOK(level), NEW v \in Pages
  PROVE  /\ Full(v)[1] = Root
         /\ \A l \in Levels : Path(v)[l] # None => Full(v)[l] = Path(v)[l]
         /\ \A l \in Levels : Path(v)[l] = None => Full(v)[l] = None \/ Full(v)[l] \in Free
         /\ \A l \in Levels : Full(v)[l] # None => Full(v)[l] \in Own
         /\ \A l \in 1..3 : Full(v)[l] = None => Full(v)[l + 1] = None
         /\ \A l, m \in Levels : Full(v)[l] # None /\ Full(v)[l] = Full(v)[m] => l = m
         /\ Full(v)[4] = None => \A p \in Free : \E l \in Levels : Full(v)[l] = p
<1>1. PICK f \in 2..5 : \A l \in Levels : (Path(v)[l] = None <=> l >= f) /\ (l >= f => Lacking(v, l) = l - f + 1)
  BY LackingFacts
<1>2. f \in Int /\ f >= 2 /\ f <= 5 /\ \A l \in Levels : l \in Int /\ l >= 1 /\ l <= 4
  BY DEF Levels
<1>3. Cardinality(Free) \in Nat /\ \A p \in Free : p \in Own /\ p # None /\ p \notin present
  BY FreeFacts, SizeFacts DEF TablesOK, Own
<1>4. \A l \in Levels : Path(v)[l] # None => Full(v)[l] = Path(v)[l]
  BY DEF Full
<1>5. ASSUME NEW l \in Levels, Path(v)[l] = None
      PROVE  /\ l - f + 1 \in Nat \ {0}
             /\ l - f + 1 > Cardinality(Free) => Full(v)[l] = None
             /\ l - f + 1 <= Cardinality(Free) =>
                  Full(v)[l] \in Free /\ Rank(Full(v)[l]) = l - f + 1
  <2>1. Full(v)[l] = Allocated(l - f + 1) /\ l - f + 1 \in Nat \ {0}
    <3>1. l >= f /\ Lacking(v, l) = l - f + 1
      BY <1>1, <1>5
    <3>2. l - f + 1 \in Nat \ {0}
      BY <1>2, <3>1
    <3>3. Full(v)[l] = Allocated(Lacking(v, l))
      BY <1>5 DEF Full
    <3> QED BY <3>1, <3>2, <3>3
  <2> QED BY <2>1, AllocatedFacts
<1>6. ASSUME NEW l \in 1..3, Full(v)[l] = None PROVE Full(v)[l + 1] = None
  <2>1. l \in Levels /\ l + 1 \in Levels
    BY DEF Levels
  <2>2. Path(v)[l] = None
    BY <1>4, <1>6, <2>1
  <2>3. l - f + 1 > Cardinality(Free)
    BY <1>2, <1>3, <1>5, <1>6, <2>1, <2>2
  <2>4. Path(v)[l + 1] = None
    BY <2>2, PathFacts
  <2>5. l + 1 - f + 1 > Cardinality(Free)
    BY <1>2, <1>3, <2>1, <2>3
  <2> QED BY <1>5, <2>1, <2>4, <2>5
<1>7. ASSUME NEW l \in Levels, NEW m \in Levels, Full(v)[l] # None, Full(v)[l] = Full(v)[m] PROVE l = m
  <2>1. CASE Path(v)[l] # None /\ Path(v)[m] # None
    <3>1. Path(v)[l] = Path(v)[m]
      BY <1>4, <1>7, <2>1
    <3> QED BY <2>1, <3>1, PathFacts
  <2>2. CASE Path(v)[l] # None /\ Path(v)[m] = None
    <3>1. Full(v)[l] \in present
      BY <1>4, <2>2, PathFacts
    <3>2. Full(v)[m] \in Free
      BY <1>2, <1>3, <1>5, <1>7, <2>2
    <3> QED BY <1>3, <1>7, <3>1, <3>2
  <2>3. CASE Path(v)[l] = None /\ Path(v)[m] # None
    <3>1. Full(v)[m] \in present
      BY <1>4, <2>3, PathFacts
    <3>2. Full(v)[l] \in Free
      BY <1>2, <1>3, <1>5, <1>7, <2>3
    <3> QED BY <1>3, <1>7, <3>1, <3>2
  <2>4. CASE Path(v)[l] = None /\ Path(v)[m] = None
    <3>1. Rank(Full(v)[l]) = l - f + 1
      BY <1>2, <1>3, <1>5, <1>7, <2>4
    <3>2. Rank(Full(v)[m]) = m - f + 1
      BY <1>2, <1>3, <1>5, <1>7, <2>4
    <3> QED BY <1>2, <1>7, <3>1, <3>2
  <2> QED BY <2>1, <2>2, <2>3, <2>4
<1>8. ASSUME Full(v)[4] = None, NEW p \in Free PROVE \E l \in Levels : Full(v)[l] = p
  <2>1. 4 \in Levels /\ Path(v)[4] = None
    BY <1>4, <1>8 DEF Levels
  <2>2. 4 - f + 1 > Cardinality(Free)
    BY <1>2, <1>3, <1>5, <1>8, <2>1
  <2>3. Rank(p) \in Nat /\ Rank(p) <= Cardinality(Free) /\ Rank(p) # 0
    <3>1. Rank(p) \in Nat /\ Rank(p) <= Cardinality(Free) /\ IsFiniteSet({q \in Free : q <= p})
      BY FreeFacts
    <3>2. p \in {q \in Free : q <= p}
      BY <1>3, SizeFacts DEF TablesOK, Own
    <3> QED BY <3>1, <3>2, FS_EmptySet DEF Rank
  <2>4. PICK l \in Levels : l = Rank(p) + f - 1
    <3>1. Rank(p) + f - 1 \in 1..4
      BY <1>2, <1>3, <2>2, <2>3
    <3> QED BY <3>1 DEF Levels
  <2>5. Path(v)[l] = None
    <3>1. l >= f
      BY <1>2, <2>3, <2>4
    <3> QED BY <1>1, <3>1
  <2>6. Full(v)[l] \in Free /\ Rank(Full(v)[l]) = Rank(p)
    <3>1. l - f + 1 = Rank(p)
      BY <1>2, <2>3, <2>4
    <3> QED BY <1>5, <2>3, <2>5, <3>1
  <2>7. Full(v)[l] = p
    <3>1. Full(v)[l] \in Int /\ p \in Int /\ Rank(p) \in Nat
      BY <1>3, <2>3, <2>6 DEF Own
    <3>2. CASE Full(v)[l] < p
      BY <2>6, <3>1, <3>2, RankGrows
    <3>3. CASE p < Full(v)[l]
      BY <2>6, <3>1, <3>3, RankGrows
    <3> QED BY <3>1, <3>2, <3>3
  <2> QED BY <2>7
<1>9. Full(v)[1] = Root
  BY <1>4, PathFacts, SizeFacts DEF TablesOK, Levels
<1>10. \A l \in Levels : Path(v)[l] = None => Full(v)[l] = None \/ Full(v)[l] \in Free
  BY <1>2, <1>3, <1>5
<1>11. \A l \in Levels : Full(v)[l] # None => Full(v)[l] \in Own
  BY <1>3, <1>4, <1>10, PathFacts
<1> QED BY <1>4, <1>6, <1>7, <1>8, <1>9, <1>10, <1>11

(* MapPage.                                                                 *)

\* That MapPage writes the entry i of the table p, on the way to v above the last table.
Descends(v, p, i) == \E l \in 1..3 : Path(v)[l + 1] = None /\ Full(v)[l + 1] # None
                                   /\ p = Full(v)[l] /\ i = Index[v][l]

WrittenBy(v, phys, user, p, i) ==
    IF p = Full(v)[4] /\ i = Index[v][4] THEN Entry(phys, user)
    ELSE IF Descends(v, p, i)
    THEN InnerEntry(Full(v)[(CHOOSE l \in 1..3 : p = Full(v)[l]) + 1], user)
    ELSE entry[p][i]

\* An entry that MapPage writes.
LEMMA EntryFacts ==
  ASSUME NEW to \in Nat, NEW user \in BOOLEAN
  PROVE  /\ Entry(to, user) \in Ptes /\ Entry(to, user).to = to /\ Entry(to, user).user = user
         /\ Entry(to, user).present /\ InnerEntry(to, user) = Entry(to, user) /\ Entry(to, user) # None
<1>1. [to |-> to, present |-> TRUE, user |-> user] \in Ptes
  BY DEF Ptes
<1>2. None \notin Ptes
  BY PageTableAssumption DEF Ptes
<1> QED BY <1>1, <1>2 DEF Entry, InnerEntry

\* MapPage, by the tables and entries named above.
LEMMA MapPageIs ==
  ASSUME NEW v, NEW phys, NEW user, MapPage(v, phys, user)
  PROVE  /\ present' = present \cup ({Full(v)[l] : l \in Levels} \ {None})
         /\ entry' = [p \in DOMAIN entry |-> [i \in DOMAIN entry[p] |-> WrittenBy(v, phys, user, p, i)]]
         /\ ok' = (Full(v)[4] # None)
BY DEF MapPage, WrittenBy, Descends, Full, Lacking, Taken

\* MapPage writes the last entry of its page, and inner ones where there was none.
LEMMA MapPageWrites ==
  ASSUME TablesOK, NEW level, TreeOK(level), NEW v \in Pages, NEW phys \in Nat, NEW user \in BOOLEAN,
         MapPage(v, phys, user)
  PROVE  /\ entry' \in [Own -> [Entries -> Ptes \cup {None}]]
         /\ Full(v)[4] # None => entry'[Full(v)[4]][Index[v][4]] = Entry(phys, user)
         /\ \A l \in 1..3 : Path(v)[l + 1] = None /\ Full(v)[l + 1] # None =>
              entry'[Full(v)[l]][Index[v][l]] = InnerEntry(Full(v)[l + 1], user)
         /\ \A p \in Own, i \in Entries :
              (p # Full(v)[4] \/ i # Index[v][4]) /\ ~Descends(v, p, i) => entry'[p][i] = entry[p][i]
<1>1. DOMAIN entry = Own /\ \A p \in Own : DOMAIN entry[p] = Entries
  BY DEF TablesOK
<1>2. entry' = [p \in Own |-> [i \in Entries |-> WrittenBy(v, phys, user, p, i)]]
  BY <1>1, MapPageIs
<1>3. \A p \in Own, i \in Entries : entry'[p][i] = WrittenBy(v, phys, user, p, i)
  BY <1>2
<1>4. \A l \in Levels : Index[v][l] \in Entries
  BY IndexFacts
<1>5. \A l \in 1..3 : l \in Levels /\ l + 1 \in Levels
  BY DEF Levels
<1>6. \A l \in 1..3 : Full(v)[l + 1] # None => Full(v)[l] # None /\ Full(v)[l] \in Own
  BY <1>5, FullFacts
<1>7. ASSUME NEW l \in 1..3, Path(v)[l + 1] = None, Full(v)[l + 1] # None
      PROVE  entry'[Full(v)[l]][Index[v][l]] = InnerEntry(Full(v)[l + 1], user)
  <2>1. Full(v)[l] \in Own /\ Full(v)[l] # None /\ Index[v][l] \in Entries /\ l \in Levels /\ 4 \in Levels
    BY <1>4, <1>5, <1>6, <1>7 DEF Levels
  <2>2. Full(v)[l] # Full(v)[4]
    BY <2>1, FullFacts
  <2>3. Descends(v, Full(v)[l], Index[v][l])
    BY <1>7 DEF Descends
  <2>4. \A k \in 1..3 : Full(v)[l] = Full(v)[k] => k = l
    BY <1>5, <2>1, FullFacts
  <2>5. (CHOOSE k \in 1..3 : Full(v)[l] = Full(v)[k]) = l
    BY <2>4
  <2>6. entry'[Full(v)[l]][Index[v][l]] = WrittenBy(v, phys, user, Full(v)[l], Index[v][l])
    BY <1>3, <2>1
  <2> QED BY <2>2, <2>3, <2>5, <2>6 DEF WrittenBy
<1>8. Full(v)[4] # None => entry'[Full(v)[4]][Index[v][4]] = Entry(phys, user)
  <2>1. 4 \in Levels
    BY DEF Levels
  <2> QED BY <1>3, <1>4, <2>1, FullFacts DEF WrittenBy
<1>9. ASSUME NEW p \in Own, NEW i \in Entries, p # Full(v)[4] \/ i # Index[v][4], ~Descends(v, p, i)
      PROVE  entry'[p][i] = entry[p][i]
  BY <1>3, <1>9 DEF WrittenBy
<1>10. ASSUME NEW p \in Own, NEW i \in Entries PROVE entry'[p][i] \in Ptes \cup {None}
  <2>1. CASE p = Full(v)[4] /\ i = Index[v][4]
    <3>1. Full(v)[4] # None
      BY <2>1, SizeFacts DEF TablesOK, Own
    <3> QED BY <1>8, <2>1, <3>1, EntryFacts
  <2>2. CASE Descends(v, p, i)
    <3>1. PICK l \in 1..3 : Path(v)[l + 1] = None /\ Full(v)[l + 1] # None /\ p = Full(v)[l] /\ i = Index[v][l]
      BY <2>2 DEF Descends
    <3>2. Full(v)[l + 1] \in Own /\ Own \subseteq Nat
      BY <1>5, <3>1, FullFacts DEF Own
    <3>3. entry'[p][i] = InnerEntry(Full(v)[l + 1], user)
      BY <1>7, <3>1
    <3>4. InnerEntry(Full(v)[l + 1], user) \in Ptes
      BY <3>2, EntryFacts
    <3> QED BY <3>3, <3>4
  <2>3. CASE (p # Full(v)[4] \/ i # Index[v][4]) /\ ~Descends(v, p, i)
    BY <1>9, <2>3 DEF TablesOK
  <2> QED BY <2>1, <2>2, <2>3
<1>11. entry' \in [Own -> [Entries -> Ptes \cup {None}]]
  BY <1>2, <1>3, <1>10
<1> QED BY <1>7, <1>8, <1>9, <1>11

\* Of which level a table is when v has its tables.
NewLevel(v, level) ==
    [p \in Own |-> IF \E l \in Levels : Full(v)[l] = p THEN CHOOSE l \in Levels : Full(v)[l] = p ELSE level[p]]

\* New tables have the level at which they are put in.
LEMMA NewLevelFacts ==
  ASSUME TablesOK, NEW level, TreeOK(level), NEW v \in Pages
  PROVE  /\ NewLevel(v, level) \in [Own -> 0..4]
         /\ \A l \in Levels : Full(v)[l] # None => NewLevel(v, level)[Full(v)[l]] = l
         /\ \A p \in Own : (\A l \in Levels : Full(v)[l] # p) => NewLevel(v, level)[p] = level[p]
         /\ \A p \in Own : p \in present => NewLevel(v, level)[p] = level[p]
<1>1. ASSUME NEW l \in Levels, Full(v)[l] # None PROVE NewLevel(v, level)[Full(v)[l]] = l
  <2>1. Full(v)[l] \in Own /\ \A m \in Levels : Full(v)[m] = Full(v)[l] => m = l
    BY <1>1, FullFacts
  <2>2. (CHOOSE m \in Levels : Full(v)[m] = Full(v)[l]) = l
    BY <2>1
  <2> QED BY <2>1, <2>2 DEF NewLevel
<1>2. ASSUME NEW p \in Own, \A l \in Levels : Full(v)[l] # p PROVE NewLevel(v, level)[p] = level[p]
  BY <1>2 DEF NewLevel
<1>3. ASSUME NEW p \in Own, p \in present PROVE NewLevel(v, level)[p] = level[p]
  <2>1. CASE \E l \in Levels : Full(v)[l] = p
    <3>1. PICK l \in Levels : Full(v)[l] = p
      BY <2>1
    <3>2. p # None
      BY SizeFacts DEF TablesOK, Own
    <3>3. Path(v)[l] = p
      BY <1>3, <3>1, <3>2, FullFacts, FreeFacts
    <3> QED BY <1>1, <3>1, <3>2, <3>3, PathFacts
  <2>2. CASE ~\E l \in Levels : Full(v)[l] = p
    BY <1>2, <2>2
  <2> QED BY <2>1, <2>2
<1>4. \A p \in Own : NewLevel(v, level)[p] \in 0..4
  <2> SUFFICES ASSUME NEW p \in Own PROVE NewLevel(v, level)[p] \in 0..4
    OBVIOUS
  <2>1. CASE \E l \in Levels : Full(v)[l] = p
    <3>1. PICK l \in Levels : Full(v)[l] = p
      BY <2>1
    <3>2. p # None
      BY SizeFacts DEF TablesOK, Own
    <3> QED BY <1>1, <3>1, <3>2 DEF Levels
  <2>2. CASE ~\E l \in Levels : Full(v)[l] = p
    BY <1>2, <2>2 DEF TreeOK
  <2> QED BY <2>1, <2>2
<1>5. NewLevel(v, level) \in [Own -> 0..4]
  BY <1>4 DEF NewLevel
<1> QED BY <1>1, <1>2, <1>3, <1>5

\* MapPage keeps the tree, and what it says about where tables come from.
LEMMA MapPageKeepsTree ==
  ASSUME TablesOK, NEW level, TreeOK(level), NEW v \in Pages, NEW phys \in Nat, NEW user \in BOOLEAN,
         MapPage(v, phys, user), UNCHANGED pages
  PROVE  TablesOK' /\ \E L : L = NewLevel(v, level) /\ TreeOK(L)'
<1>1. PICK L : L = NewLevel(v, level)
  OBVIOUS
<1>2. /\ L \in [Own -> 0..4]
      /\ \A l \in Levels : Full(v)[l] # None => L[Full(v)[l]] = l
      /\ \A p \in Own : (\A l \in Levels : Full(v)[l] # p) => L[p] = level[p]
      /\ \A p \in Own : p \in present => L[p] = level[p]
  BY <1>1, NewLevelFacts
<1>3. Own' = Own /\ \A p \in Own : p # None /\ p \in Nat
  BY SizeFacts DEF Own, TablesOK
<1>4. /\ entry' \in [Own -> [Entries -> Ptes \cup {None}]]
      /\ Full(v)[4] # None => entry'[Full(v)[4]][Index[v][4]] = Entry(phys, user)
      /\ \A l \in 1..3 : Path(v)[l + 1] = None /\ Full(v)[l + 1] # None =>
           entry'[Full(v)[l]][Index[v][l]] = InnerEntry(Full(v)[l + 1], user)
      /\ \A p \in Own, i \in Entries :
           (p # Full(v)[4] \/ i # Index[v][4]) /\ ~Descends(v, p, i) => entry'[p][i] = entry[p][i]
  BY MapPageWrites
<1>5. present' = present \cup ({Full(v)[l] : l \in Levels} \ {None})
  BY MapPageIs
<1>6. \A l \in 1..3 : l \in Levels /\ l + 1 \in Levels
  BY DEF Levels
<1>7. Free \subseteq Own /\ Free \cap present = {}
  BY FreeFacts
<1>8. TablesOK'
  <2>1. \A l \in Levels : Full(v)[l] # None => Full(v)[l] \in 0..(pages - 1)
    BY FullFacts DEF Own, TablesOK
  <2>2. present' \subseteq 0..(pages - 1)
    BY <1>5, <2>1 DEF TablesOK
  <2>3. 0 \in present' /\ Root \in present'
    BY <1>5 DEF TablesOK
  <2> QED BY <1>3, <1>4, <2>2, <2>3 DEF TablesOK, Entries
\* An entry of an inner table is as it was, or leads from one table of v to the next, which was free.
<1>9. ASSUME NEW p \in Own, NEW i \in Entries, L[p] \in 1..3, entry'[p][i] # None
      PROVE  \/ /\ entry'[p][i] = entry[p][i] /\ level[p] = L[p]
                /\ entry[p][i].to \in Own \ {Root} /\ level[entry[p][i].to] = L[p] + 1
                /\ entry[p][i].to \in present /\ L[entry[p][i].to] = L[p] + 1
             \/ \E l \in 1..3 : /\ p = Full(v)[l] /\ i = Index[v][l] /\ entry'[p][i].to = Full(v)[l + 1]
                                /\ Full(v)[l + 1] \in Free /\ L[p] = l /\ L[Full(v)[l + 1]] = l + 1
  <2>1. CASE Descends(v, p, i)
    <3>1. PICK l \in 1..3 : Path(v)[l + 1] = None /\ Full(v)[l + 1] # None /\ p = Full(v)[l] /\ i = Index[v][l]
      BY <2>1 DEF Descends
    <3>2. entry'[p][i] = InnerEntry(Full(v)[l + 1], user)
      BY <1>4, <3>1
    <3>3. Full(v)[l + 1] \in Free
      BY <1>6, <3>1, FullFacts
    <3>4. Full(v)[l + 1] \in Nat
      BY <1>3, <1>7, <3>3
    <3>5. entry'[p][i].to = Full(v)[l + 1]
      BY <3>2, <3>4, EntryFacts
    <3>6. L[p] = l /\ L[Full(v)[l + 1]] = l + 1
      BY <1>2, <1>3, <1>6, <3>1
    <3> QED BY <3>1, <3>3, <3>5, <3>6
  <2>2. CASE ~Descends(v, p, i)
    <3>1. p # Full(v)[4]
      <4>1. 4 \in Levels
        BY DEF Levels
      <4> QED BY <1>2, <1>3, <1>9, <4>1
    <3>2. entry'[p][i] = entry[p][i]
      BY <1>4, <2>2, <3>1
    <3>3. level[p] # 0
      BY <1>9, <3>2 DEF TreeOK
    <3>4. p \in present
      BY <3>3 DEF TreeOK
    <3>5. level[p] = L[p]
      BY <1>2, <3>4
    <3>6. entry[p][i].to \in Own \ {Root} /\ level[entry[p][i].to] = level[p] + 1
      BY <1>9, <3>2, <3>5 DEF TreeOK
    <3>7. level[entry[p][i].to] # 0
      BY <1>9, <3>5, <3>6
    <3>8. entry[p][i].to \in present
      BY <3>6, <3>7 DEF TreeOK
    <3>9. L[entry[p][i].to] = level[entry[p][i].to]
      BY <1>2, <3>6, <3>8
    <3> QED BY <3>2, <3>5, <3>6, <3>8, <3>9
  <2> QED BY <2>1, <2>2
<1>10. L[Root] = 1
  <2>1. 1 \in Levels /\ Root # None
    BY SizeFacts DEF Levels, TablesOK
  <2> QED BY <1>2, <2>1, FullFacts
<1>11. ASSUME NEW p \in Own, L[p] # 0 PROVE p \in present'
  <2>1. CASE \E l \in Levels : Full(v)[l] = p
    BY <1>3, <1>5, <2>1
  <2>2. CASE ~\E l \in Levels : Full(v)[l] = p
    BY <1>2, <1>5, <1>11, <2>2 DEF TreeOK
  <2> QED BY <2>1, <2>2
<1>12. ASSUME NEW p \in Own, NEW i \in Entries, entry'[p][i] # None PROVE L[p] # 0
  <2>1. CASE \E l \in Levels : Full(v)[l] = p
    BY <1>2, <1>3, <2>1 DEF Levels
  <2>2. CASE ~\E l \in Levels : Full(v)[l] = p
    <3>1. 4 \in Levels /\ ~Descends(v, p, i)
      BY <1>6, <2>2 DEF Descends, Levels
    <3>2. entry'[p][i] = entry[p][i]
      BY <1>4, <2>2, <3>1
    <3> QED BY <1>2, <1>12, <2>2, <3>2 DEF TreeOK
  <2> QED BY <2>1, <2>2
<1>13. ASSUME NEW p \in Own, NEW i \in Entries, L[p] \in 1..3, entry'[p][i] # None
       PROVE  entry'[p][i].to \in Own \ {Root} /\ L[entry'[p][i].to] = L[p] + 1
  <2>1. Root \in present
    BY DEF TablesOK
  <2> QED BY <1>7, <1>9, <1>13, <2>1
<1>14. ASSUME NEW p \in Own, NEW q \in Own, NEW i \in Entries, NEW j \in Entries,
              L[p] \in 1..3, entry'[p][i] # None, L[q] \in 1..3, entry'[q][j] # None,
              entry'[p][i].to = entry'[q][j].to
       PROVE  p = q /\ i = j
  <2> DEFINE Old(r, k) == /\ entry'[r][k] = entry[r][k] /\ level[r] = L[r] /\ entry[r][k].to \in present
             New(r, k) == \E l \in 1..3 : /\ r = Full(v)[l] /\ k = Index[v][l] /\ entry'[r][k].to = Full(v)[l + 1]
                                         /\ Full(v)[l + 1] \in Free
  <2>1. Old(p, i) \/ New(p, i)
    BY <1>9, <1>14
  <2>2. Old(q, j) \/ New(q, j)
    BY <1>9, <1>14
  <2>3. CASE Old(p, i) /\ Old(q, j)
    <3>1. /\ level[p] \in 1..3 /\ entry[p][i] # None /\ level[q] \in 1..3 /\ entry[q][j] # None
          /\ entry[p][i].to = entry[q][j].to
      BY <1>14, <2>3
    <3> QED BY <3>1 DEF TreeOK
  <2>4. CASE New(p, i) /\ New(q, j)
    <3>1. PICK l \in 1..3 : /\ p = Full(v)[l] /\ i = Index[v][l] /\ entry'[p][i].to = Full(v)[l + 1]
                            /\ Full(v)[l + 1] \in Free
      BY <2>4
    <3>2. PICK m \in 1..3 : /\ q = Full(v)[m] /\ j = Index[v][m] /\ entry'[q][j].to = Full(v)[m + 1]
                            /\ Full(v)[m + 1] \in Free
      BY <2>4
    <3>3. l + 1 = m + 1
      BY <1>3, <1>6, <1>7, <1>14, <3>1, <3>2, FullFacts
    <3> QED BY <3>1, <3>2, <3>3
  <2>5. CASE Old(p, i) /\ New(q, j)
    BY <1>7, <1>14, <2>5
  <2>6. CASE New(p, i) /\ Old(q, j)
    BY <1>7, <1>14, <2>6
  <2> QED BY <2>1, <2>2, <2>3, <2>4, <2>5, <2>6
<1>15. TreeOK(L)'
  <2>1. \A p \in Own : L[p] # 0 => p \in present'
    BY <1>11
  <2>2. \A p \in Own, i \in Entries : entry'[p][i] # None => L[p] # 0
    BY <1>12
  <2>3. \A p \in Own, i \in Entries : L[p] \in 1..3 /\ entry'[p][i] # None =>
          entry'[p][i].to \in Own \ {Root} /\ L[entry'[p][i].to] = L[p] + 1
    BY <1>13
  <2>4. \A p, q \in Own, i, j \in Entries :
          (L[p] \in 1..3 /\ entry'[p][i] # None /\ L[q] \in 1..3 /\ entry'[q][j] # None
           /\ entry'[p][i].to = entry'[q][j].to) => (p = q /\ i = j)
    BY <1>14
  <2> QED BY <1>2, <1>3, <1>10, <2>1, <2>2, <2>3, <2>4 DEF TreeOK
<1> QED BY <1>1, <1>8, <1>15

(* Requests.                                                                *)

Requests == [virt : Pages, phys : Nat \cup {None}, user : BOOLEAN]

TreeInv ==
    /\ TablesOK /\ \E level : TreeOK(level)
    /\ todo \in Seq(Requests) /\ pa \in Nat \cup {None} /\ count \in Nat

\* The regions by their names.
LEMMA RegionNames ==
  /\ Image \in Regions /\ KernelPt \in Regions /\ Devices \in Regions /\ FrameBuffer \in Regions
  /\ KernelPool \in Regions /\ Uefi \in Regions /\ BackBuffer \in Regions
  /\ {UserCode} \in Regions /\ {UserStack} \in Regions
<1>1. \A i \in 1..9 : Region[i] \in Regions
  BY DEF Regions
<1>2. /\ Region[1] = Image /\ Region[2] = KernelPt /\ Region[3] = Devices /\ Region[4] = FrameBuffer
      /\ Region[5] = KernelPool /\ Region[6] = Uefi /\ Region[7] = BackBuffer
      /\ Region[8] = {UserCode} /\ Region[9] = {UserStack}
  BY DEF Region
<1>3. 1 \in 1..9 /\ 2 \in 1..9 /\ 3 \in 1..9 /\ 4 \in 1..9 /\ 5 \in 1..9 /\ 6 \in 1..9 /\ 7 \in 1..9 /\ 8 \in 1..9 /\ 9 \in 1..9
  OBVIOUS
<1> QED BY <1>1, <1>2, <1>3

\* A region goes on from its first page for as many pages as it has.
LEMMA RegionFacts ==
  ASSUME NEW r \in Regions
  PROVE  /\ r \subseteq Pages /\ r \subseteq Nat /\ IsFiniteSet(r) /\ Cardinality(r) \in Nat
         /\ First(r) \in r /\ \A w \in r : First(r) <= w
         /\ \A k \in 1..Cardinality(r) : First(r) + k - 1 \in r
<1>1. r \subseteq Pages /\ Pages \subseteq 0..(Space - 1) /\ r # {}
  <2>1. r \subseteq UNION Regions
    OBVIOUS
  <2>2. UNION Regions \subseteq Pages
    BY DEF Pages
  <2> QED BY <2>1, <2>2, PageTableAssumption
<1>2. Space \in Nat
  BY PageTableAssumption DEF Space
<1>3. IsFiniteSet(r) /\ Cardinality(r) \in Nat /\ r \subseteq Nat
  <2>1. IsFiniteSet(0..(Space - 1)) /\ r \subseteq 0..(Space - 1) /\ r \subseteq Nat
    BY <1>1, <1>2, FS_Interval
  <2> QED BY <2>1, FS_Subset, FS_CardinalityType
<1>4. First(r) \in r /\ \A w \in r : First(r) <= w
  <2>1. \E v \in r : \A w \in r : v <= w
    BY <1>1, <1>3, LeastNatural
  <2> QED BY <2>1 DEF First
<1>5. ASSUME NEW k \in 1..Cardinality(r), First(r) + k - 1 \notin r PROVE FALSE
  <2> DEFINE f == First(r)
             x == f + k - 1
  <2>1. f \in Nat /\ k \in Nat /\ k >= 1 /\ k <= Cardinality(r) /\ x \in Nat /\ f <= x /\ x \notin r /\ f \in r
        /\ \A w \in r : w \in Nat /\ f <= w
    <3>1. f \in Nat /\ f \in r /\ \A w \in r : w \in Nat /\ f <= w
      BY <1>3, <1>4
    <3>2. k \in Nat /\ k >= 1 /\ k <= Cardinality(r)
      BY <1>3
    <3> QED BY <1>5, <3>1, <3>2
  <2>2. ASSUME NEW w \in r PROVE w < x
    <3>1. f..w \subseteq r
      BY <2>1, PageTableAssumption
    <3> HIDE DEF f, x
    <3>2. x \in f..w => x \in r
      BY <3>1
    <3> QED BY <2>1, <3>2
  <2> HIDE DEF f
  <2>3. r \subseteq f..(x - 1)
    BY <2>1, <2>2
  <2>4. IsFiniteSet(f..(x - 1)) /\ Cardinality(f..(x - 1)) = (IF f > x - 1 THEN 0 ELSE (x - 1) - f + 1)
    BY <2>1, FS_Interval
  <2>5. Cardinality(r) <= Cardinality(f..(x - 1))
    BY <2>3, <2>4, FS_Subset
  <2> QED BY <2>1, <2>4, <2>5, <1>3
<1> QED BY <1>1, <1>3, <1>4, <1>5

\* A region's first page and its size are numbers, and so is the first page's number outside the pool.
LEMMA RegionNumbers ==
  ASSUME NEW r \in Regions
  PROVE  First(r) \in Nat /\ Outside + First(r) \in Nat /\ Cardinality(r) \in Nat
<1>1. First(r) \in Nat /\ Cardinality(r) \in Nat
  BY RegionFacts
<1>2. Outside \in Nat
  BY PageTableAssumption
<1> QED BY <1>1, <1>2

\* The region of the page tables has a page for each of the pool.
LEMMA PoolIsMapped ==
  ASSUME TreeInv
  PROVE  /\ KernelPt \in Regions /\ First(KernelPt) \in Nat /\ pages \in Nat
         /\ \A k \in 1..pages : First(KernelPt) + k - 1 \in KernelPt
<1>1. pages \in PoolSizes
  BY DEF TreeInv, TablesOK
<1>2. pages \in Nat /\ pages <= Cardinality(KernelPt)
  BY <1>1, SizeFacts, PageTableAssumption
<1>3. /\ KernelPt \in Regions /\ First(KernelPt) \in Nat /\ Cardinality(KernelPt) \in Nat
      /\ \A k \in 1..Cardinality(KernelPt) : First(KernelPt) + k - 1 \in KernelPt
  BY RegionNames, RegionFacts
<1>4. \A k \in 1..pages : k \in 1..Cardinality(KernelPt)
  BY <1>2, <1>3
<1> QED BY <1>2, <1>3, <1>4

\* Pages that lie in one region need no wrapping.
LEMMA Unwrapped ==
  ASSUME NEW v \in Pages
  PROVE  v \in Nat /\ v % Space = v
<1>1. Space \in Nat \ {0} /\ v \in 0..(Space - 1)
  <2>1. Space \in Nat /\ v \in 0..(Space - 1)
    BY PageTableAssumption DEF Space
  <2> QED BY <2>1
<1> QED BY <1>1, SmallRemainder

\* A request for pages is a list of requests for a page.
LEMMA RequestFacts ==
  ASSUME NEW virt \in Nat, NEW phys \in Nat, NEW n \in Nat, NEW user \in BOOLEAN,
         \A k \in 1..n : (virt + k - 1) % Space \in Pages,
         Request(virt, phys, n, user)
  PROVE  todo' \in Seq(Requests)
<1>1. \A k \in 1..n : [virt |-> (virt + k - 1) % Space, phys |-> phys + k - 1, user |-> user] \in Requests
  BY DEF Requests
<1>2. todo' \in [1..n -> Requests]
  BY <1>1 DEF Request
<1> QED BY <1>2

\* A request in a region asks for pages of it.
LEMMA RegionRequest ==
  ASSUME NEW r \in Regions, NEW v \in r, NEW n \in Nat, n = 0 \/ v + n - 1 \in r, NEW k \in 1..n
  PROVE  v \in Nat /\ (v + k - 1) % Space \in r /\ (v + k - 1) % Space = v + k - 1 /\ r \subseteq Pages
<1>1. r \subseteq Pages /\ r \subseteq Nat
  BY RegionFacts
<1>2. n >= 1 /\ v + n - 1 \in r
  OBVIOUS
<1>3. v..(v + n - 1) \subseteq r
  BY <1>2, PageTableAssumption
<1>4. v + k - 1 \in r
  <2>1. v + k - 1 \in v..(v + n - 1)
    BY <1>1, <1>2
  <2> QED BY <1>3, <2>1
<1> QED BY <1>1, <1>4, Unwrapped

\* So is one in a region, that finds room or not.
LEMMA RequestInFacts ==
  ASSUME NEW r \in Regions, NEW phys \in Nat, NEW n \in Nat, RequestIn(r, phys, n), todo \in Seq(Requests)
  PROVE  todo' \in Seq(Requests)
<1> DEFINE starts == RegionStart(r, n)
<1>1. CASE starts = {}
  BY <1>1 DEF RequestIn
<1>2. CASE starts # {}
  <2>1. starts \subseteq r /\ \A v \in starts : v + n - 1 \in r
    BY DEF RegionStart
  <2>2. First(starts) \in starts
    <3>1. starts \subseteq Nat
      BY <2>1, RegionFacts
    <3> HIDE DEF starts
    <3>2. \E v \in starts : \A w \in starts : v <= w
      BY <1>2, <3>1, LeastNatural
    <3> QED BY <3>2 DEF First
  <2>3. \A k \in 1..n : (First(starts) + k - 1) % Space \in Pages
    BY <2>1, <2>2, RegionRequest
  <2>4. First(starts) \in Nat
    BY <2>1, <2>2, RegionFacts
  <2>5. Request(First(starts), phys, n, FALSE)
    BY <1>2 DEF RequestIn
  <2> QED BY <2>3, <2>4, <2>5, RequestFacts
<1> QED BY <1>1, <1>2

\* Tables that are not touched, and pages that are taken, leave the tree as it is.
LEMMA TreeStays ==
  ASSUME TablesOK, NEW level, TreeOK(level), present \subseteq present', present' \subseteq 0..(pages - 1),
         UNCHANGED <<pages, entry>>
  PROVE  TablesOK' /\ TreeOK(level)'
<1>1. TablesOK'
  BY DEF TablesOK, Own
<1>2. TreeOK(level)'
  BY DEF TreeOK, Own
<1> QED BY <1>1, <1>2

\* A pool without entries.
LEMMA EmptyPool ==
  ASSUME pages' \in PoolSizes, present' = {0, Root},
         entry' = [p \in 1..(pages' - 1) |-> [i \in 0..(Fanout - 1) |-> None]]
  PROVE  TablesOK' /\ \E level : TreeOK(level)'
<1>1. pages' \in Nat /\ pages' > 1 /\ Root \in 1..(pages' - 1) /\ 0 \in 0..(pages' - 1) /\ Root \in 0..(pages' - 1)
  BY SizeFacts
<1>2. TablesOK'
  <2>1. present' \subseteq 0..(pages' - 1) /\ 0 \in present' /\ Root \in present'
    BY <1>1
  <2>2. entry' \in [Own' -> [Entries -> Ptes \cup {None}]]
    BY DEF Own, Entries
  <2> QED BY <2>1, <2>2 DEF TablesOK, Entries
<1>3. PICK level : level = [p \in Own' |-> IF p = Root THEN 1 ELSE 0]
  OBVIOUS
<1>4. TreeOK(level)'
  <2>1. \A p \in Own', i \in Entries : entry'[p][i] = None
    BY DEF Own, Entries
  <2>2. level \in [Own' -> 0..4] /\ level[Root] = 1 /\ \A p \in Own' : level[p] # 0 => p = Root
    <3>1. Root \in Own'
      BY <1>1 DEF Own
    <3> QED BY <1>3, <3>1
  <2> QED BY <2>1, <2>2 DEF TreeOK, Entries
<1> QED BY <1>2, <1>4

(* The invariant.                                                           *)

LEMMA TreeInit == Init => TreeInv
<1> SUFFICES ASSUME Init PROVE TreeInv
  OBVIOUS
<1>1. pages \in Nat /\ pages > 1 /\ Root \in 1..(pages - 1) /\ Root \in 0..(pages - 1) /\ 0 \in 0..(pages - 1)
  BY SizeFacts DEF Init
<1>2. TablesOK
  <2>1. present \subseteq 0..(pages - 1) /\ 0 \in present /\ Root \in present
    BY <1>1 DEF Init
  <2>2. entry \in [Own -> [Entries -> Ptes \cup {None}]]
    BY DEF Init, Own, Entries
  <2> QED BY <2>1, <2>2 DEF TablesOK, Init
<1>3. PICK level : level = [p \in Own |-> IF p = Root THEN 1 ELSE 0]
  OBVIOUS
<1>4. TreeOK(level)
  <2>1. \A p \in Own, i \in Entries : entry[p][i] = None
    BY DEF Init, Own, Entries
  <2>2. level \in [Own -> 0..4] /\ level[Root] = 1 /\ \A p \in Own : level[p] # 0 => p = Root
    <3>1. Root \in Own
      BY <1>1 DEF Own
    <3> QED BY <1>3, <3>1
  <2> QED BY <1>2, <2>1, <2>2 DEF TreeOK, TablesOK
<1> QED BY <1>2, <1>4 DEF TreeInv, Init

\* MapPages maps the next page.
LEMMA MapNextKeeps == TreeInv /\ MapNext => TreeInv'
<1> SUFFICES ASSUME TreeInv, MapNext PROVE TreeInv'
  OBVIOUS
<1>1. Head(todo) \in Requests /\ Tail(todo) \in Seq(Requests)
  BY DEF TreeInv, MapNext
<1>2. Head(todo).virt \in Pages /\ Head(todo).phys \in Nat
  BY <1>1 DEF Requests, MapNext
<1>3. MapPage(Head(todo).virt, Head(todo).phys, FALSE) /\ UNCHANGED pages
  BY DEF MapNext
<1>4. PICK level : TreeOK(level)
  BY DEF TreeInv
<1>5. TablesOK' /\ \E level_1 : TreeOK(level_1)'
  BY <1>2, <1>3, <1>4, MapPageKeepsTree DEF TreeInv
<1>6. todo' \in Seq(Requests) /\ pa' \in Nat \cup {None} /\ count' \in Nat
  BY <1>1 DEF TreeInv, MapNext
<1> QED BY <1>5, <1>6 DEF TreeInv

\* Requests leave the tables alone.
LEMMA RequestsKeep ==
  ASSUME TreeInv, UNCHANGED Tables, todo' \in Seq(Requests), pa' \in Nat \cup {None}, count' \in Nat
  PROVE  TreeInv'
<1>1. PICK level : TreeOK(level)
  BY DEF TreeInv
<1>2. TablesOK' /\ TreeOK(level)'
  BY <1>1, TreeStays DEF Tables, TreeInv, TablesOK
<1> QED BY <1>2 DEF TreeInv

\* The count of requests stays a number.
LEMMA StepCounts ==
  ASSUME TreeInv, NEW s, Stay \/ Go(s)
  PROVE  count' \in Nat
BY DEF TreeInv, Stay, Go

\* UnmapPage leaves the tree.
LEMMA UnmapKeeps ==
  ASSUME TreeInv, NEW v \in Pages, UnmapPage(v), UNCHANGED <<pages, present, todo, pa>>, count' \in Nat
  PROVE  TreeInv'
<1>1. PICK level : TreeOK(level)
  BY DEF TreeInv
<1> DEFINE pt == Path(v)[4]
           i == Index[v][4]
<1>2. 4 \in Levels /\ pt # None
  BY DEF UnmapPage, Pte, Levels
<1>3. pt \in Own /\ level[pt] = 4 /\ i \in Entries /\ entry[pt][i] # None
  BY <1>1, <1>2, PathFacts, IndexFacts DEF TreeInv, UnmapPage, Pte
<1>4. entry' = [entry EXCEPT ![pt][i].present = FALSE]
  BY DEF UnmapPage
<1> HIDE DEF pt, i
<1>5. entry[pt][i] \in Ptes /\ DOMAIN entry = Own /\ DOMAIN entry[pt] = Entries
  BY <1>3 DEF TreeInv, TablesOK
<1>6. [entry[pt][i] EXCEPT !.present = FALSE] \in Ptes
  BY <1>5 DEF Ptes
<1>7. \A p \in Own, j \in Entries :
        entry'[p][j] = IF p = pt /\ j = i THEN [entry[pt][i] EXCEPT !.present = FALSE] ELSE entry[p][j]
  BY <1>3, <1>4, <1>5 DEF TreeInv, TablesOK
<1>8. entry' \in [Own -> [Entries -> Ptes \cup {None}]]
  <2>1. entry \in [Own -> [Entries -> Ptes \cup {None}]]
    BY DEF TreeInv, TablesOK
  <2> QED BY <1>3, <1>4, <1>6, <2>1
<1>9. TablesOK'
  BY <1>8 DEF TreeInv, TablesOK, Own, Entries
<1>10. None \notin Ptes
  BY PageTableAssumption DEF Ptes
<1>11. /\ \A p \in Own, j \in Entries : entry'[p][j] # None <=> entry[p][j] # None
       /\ \A p \in Own, j \in Entries : level[p] \in 1..3 => entry'[p][j] = entry[p][j]
  <2>1. [entry[pt][i] EXCEPT !.present = FALSE] # None
    BY <1>6, <1>10
  <2>2. \A p \in Own, j \in Entries : entry'[p][j] # None <=> entry[p][j] # None
    BY <1>3, <1>7, <2>1
  <2>3. \A p \in Own, j \in Entries : level[p] \in 1..3 => entry'[p][j] = entry[p][j]
    <3> SUFFICES ASSUME NEW p \in Own, NEW j \in Entries, level[p] \in 1..3 PROVE entry'[p][j] = entry[p][j]
      OBVIOUS
    <3>1. p # pt
      BY <1>3
    <3> QED BY <1>7, <3>1
  <2> QED BY <2>2, <2>3
<1>12. TreeOK(level)'
  <2>1. Own' = Own
    BY DEF Own
  <2>2. \A p \in Own, j \in Entries : level[p] \in 1..3 /\ entry'[p][j] # None =>
          entry'[p][j].to \in Own \ {Root} /\ level[entry'[p][j].to] = level[p] + 1
    BY <1>1, <1>11 DEF TreeOK
  <2>3. \A p, q \in Own, j, k \in Entries :
          (level[p] \in 1..3 /\ entry'[p][j] # None /\ level[q] \in 1..3 /\ entry'[q][k] # None
           /\ entry'[p][j].to = entry'[q][k].to) => (p = q /\ j = k)
    BY <1>1, <1>11 DEF TreeOK
  <2>4. \A p \in Own, j \in Entries : entry'[p][j] # None => level[p] # 0
    BY <1>1, <1>11 DEF TreeOK
  <2> QED BY <1>1, <2>1, <2>2, <2>3, <2>4 DEF TreeOK, Entries
<1> QED BY <1>9, <1>12 DEF TreeInv

\* CreateUserThread takes a page or maps one.
LEMMA MapUserKeeps == TreeInv /\ MapUser => TreeInv'
<1> SUFFICES ASSUME TreeInv, MapUser PROVE TreeInv'
  OBVIOUS
<1>1. Head(todo) \in Requests /\ Tail(todo) \in Seq(Requests) /\ todo \in Seq(Requests) /\ todo # <<>>
  BY DEF TreeInv, MapUser
<1>2. PICK level : TreeOK(level)
  BY DEF TreeInv
<1>3. CASE NeedsPage(Head(todo)) /\ Free # {}
  <2>1. pa' = Allocated(1) /\ present' = present \cup Taken({Allocated(1)})
        /\ todo' = [todo EXCEPT ![1].phys = Allocated(1)] /\ UNCHANGED <<pages, entry, count>>
    BY <1>3 DEF MapUser
  <2>2. Allocated(1) \in Free
    <3>1. Cardinality(Free) \in Nat /\ Cardinality(Free) # 0
      BY <1>3, FreeFacts, FS_EmptySet DEF TreeInv
    <3> QED BY <3>1, AllocatedFacts DEF TreeInv
  <2>3. Allocated(1) \in Nat /\ Allocated(1) \in 0..(pages - 1)
    BY <2>2, FreeFacts, SizeFacts DEF TreeInv, TablesOK, Own
  <2>4. TablesOK' /\ TreeOK(level)'
    BY <1>2, <2>1, <2>3, TreeStays DEF Taken, TreeInv, TablesOK
  <2>5. todo' \in Seq(Requests)
    <3>1. todo[1] \in Requests /\ 1 \in DOMAIN todo
      BY <1>1
    <3>2. [todo[1] EXCEPT !.phys = Allocated(1)] \in Requests
      BY <2>3, <3>1 DEF Requests
    <3> QED BY <1>1, <2>1, <3>1, <3>2
  <2> QED BY <2>1, <2>3, <2>4, <2>5 DEF TreeInv
<1>4. CASE ~(NeedsPage(Head(todo)) /\ Free # {})
  <2>1. todo' = Tail(todo) /\ pa' = pa /\ UNCHANGED <<pages, count>>
    BY <1>4 DEF MapUser
  <2>2. TablesOK' /\ \E level_1 : TreeOK(level_1)'
    <3>1. CASE pa = None
      BY <1>2, <1>4, <3>1, TreeStays DEF MapUser, TreeInv, TablesOK
    <3>2. CASE pa # None
      <4>1. MapPage(Head(todo).virt, pa, TRUE) /\ UNCHANGED pages
        BY <1>4, <3>2 DEF MapUser
      <4>2. Head(todo).virt \in Pages /\ pa \in Nat
        BY <1>1, <3>2 DEF Requests, TreeInv
      <4> QED BY <1>2, <4>1, <4>2, MapPageKeepsTree DEF TreeInv
    <3> QED BY <3>1, <3>2
  <2> QED BY <1>1, <2>1, <2>2 DEF TreeInv
<1> QED BY <1>3, <1>4

\* The tree is kept by every step, wherever runtime services lie.
LEMMA TreeStep == TreeInv /\ [Next]_vars => TreeInv'
<1> SUFFICES ASSUME TreeInv, [Next]_vars PROVE TreeInv'
  OBVIOUS
<1>a. /\ Image \in Regions /\ KernelPt \in Regions /\ Devices \in Regions /\ FrameBuffer \in Regions
      /\ KernelPool \in Regions /\ Uefi \in Regions /\ BackBuffer \in Regions
      /\ {UserCode} \in Regions /\ {UserStack} \in Regions
  BY RegionNames
<1>b. Outside \in Nat /\ todo \in Seq(Requests) /\ pa \in Nat \cup {None} /\ count \in Nat
  BY PageTableAssumption DEF TreeInv
<1>c. UserCode \in Pages /\ UserStack \in Pages
  BY <1>a, RegionFacts
<1>1. CASE MapNext
  BY <1>1, MapNextKeeps
<1>2. CASE MapImage
  <2>1. \A k \in 1..Cardinality(Image) : (First(Image) + k - 1) % Space \in Pages
    BY <1>a, RegionFacts, Unwrapped
  <2>2. todo' \in Seq(Requests)
    BY <1>2, <1>a, <1>b, <2>1, RegionFacts, RequestFacts DEF MapImage
  <2> QED BY <1>2, <1>b, <2>2, RequestsKeep DEF MapImage, Go
<1>3. CASE MapTables
  <2>1. \A k \in 1..pages : (First(KernelPt) + k - 1) % Space \in Pages
    BY PoolIsMapped, RegionFacts, Unwrapped
  <2>2. todo' \in Seq(Requests)
    BY <1>3, <2>1, PoolIsMapped, RequestFacts DEF MapTables
  <2> QED BY <1>3, <1>b, <2>2, RequestsKeep DEF MapTables, Go
<1>4. CASE MapFrameBuffer
  <2>1. Outside + First(FrameBuffer) \in Nat /\ Cardinality(FrameBuffer) \in Nat
    BY <1>a, RegionNumbers
  <2>2. todo' \in Seq(Requests)
    BY <1>4, <1>a, <1>b, <2>1, RequestInFacts DEF MapFrameBuffer
  <2> QED BY <1>4, <1>b, <2>2, RequestsKeep DEF MapFrameBuffer, Go
<1>5. CASE MapBackBuffer
  <2>1. Outside + First(BackBuffer) \in Nat /\ Cardinality(BackBuffer) \in Nat
    BY <1>a, RegionNumbers
  <2>2. todo' \in Seq(Requests)
    BY <1>5, <1>a, <1>b, <2>1, RequestInFacts DEF MapBackBuffer
  <2> QED BY <1>5, <1>b, <2>2, RequestsKeep DEF MapBackBuffer, Go
<1>6. CASE SetWriteCombining
  BY <1>6, <1>b, RequestsKeep DEF SetWriteCombining, Go
<1>7. CASE MapDevice
  <2>1. 2 * Outside + count \in Nat
    BY <1>b
  <2>2. todo' \in Seq(Requests)
    BY <1>7, <1>a, <1>b, <2>1, RequestInFacts DEF MapDevice
  <2> QED BY <1>7, <1>b, <2>2, RequestsKeep DEF MapDevice, Stay
<1>8. CASE MapPool
  <2>1. \A k \in 1..Cardinality(KernelPool) : (First(KernelPool) + k - 1) % Space \in Pages
    BY <1>a, RegionFacts, Unwrapped
  <2>2. First(KernelPool) \in Nat /\ Outside + First(KernelPool) \in Nat /\ Cardinality(KernelPool) \in Nat
    BY <1>a, RegionNumbers
  <2>3. todo' \in Seq(Requests)
    BY <1>8, <2>1, <2>2, RequestFacts DEF MapPool
  <2> QED BY <1>8, <1>b, <2>3, RequestsKeep DEF MapPool, Go
<1>9. ASSUME NEW p \in Runtime, MapRuntime(p) PROVE TreeInv'
  <2>1. p \in Nat /\ First(Uefi) \in Uefi /\ First(Uefi) \in Nat
    BY <1>a, PageTableAssumption, RegionFacts
  <2>2. (First(Uefi) + p) % Space \in Pages
    <3> DEFINE f == First(Uefi)
    <3>1. f \in Uefi /\ p \in Runtime
      BY <2>1
    <3> HIDE DEF f
    <3>2. (f + p) % Space \in {(v + q) % Space : v \in Uefi, q \in Runtime}
      BY <3>1
    <3> QED BY <3>2 DEF Pages, f
  <2>3. \A k \in 1..1 : ((First(Uefi) + p) + k - 1) % Space \in Pages
    <3>1. \A k \in 1..1 : (First(Uefi) + p) + k - 1 = First(Uefi) + p
      BY <2>1
    <3> QED BY <2>2, <3>1
  <2>4. First(Uefi) + p \in Nat /\ 3 * Outside + p \in Nat
    BY <1>b, <2>1
  <2>5. todo' \in Seq(Requests)
    BY <1>9, <2>3, <2>4, RequestFacts DEF MapRuntime
  <2>6. count' \in Nat
    BY <1>9, <1>b DEF MapRuntime, Go, Stay
  <2> QED BY <1>9, <1>b, <2>5, <2>6, RequestsKeep DEF MapRuntime
<1>10. ASSUME NEW v \in Image, FinalizeKernelMapping(v) PROVE TreeInv'
  <2>1. v \in Pages
    BY <1>a, RegionFacts
  <2> QED BY <1>10, <2>1, UnmapKeeps DEF FinalizeKernelMapping, Go
<1>11. ASSUME NEW junk \in Junk, CreateUserThread(junk) PROVE TreeInv'
  <2>1. [virt |-> UserStack, phys |-> None, user |-> TRUE] \in Requests
        /\ [virt |-> UserCode, phys |-> None, user |-> TRUE] \in Requests
    BY <1>c DEF Requests
  <2>2. todo' \in Seq(Requests)
    BY <1>11, <2>1 DEF CreateUserThread
  <2>3. pa' \in Nat \cup {None}
    BY <1>11, PageTableAssumption DEF CreateUserThread, Junk, Root
  <2> QED BY <1>11, <2>2, <2>3, RequestsKeep DEF CreateUserThread, Go
<1>12. CASE MapUser
  BY <1>12, MapUserKeeps
<1>13. CASE UNCHANGED vars
  BY <1>13, <1>b, RequestsKeep DEF vars, Tables
<1> QED BY <1>1, <1>2, <1>3, <1>4, <1>5, <1>6, <1>7, <1>8, <1>9, <1>10, <1>11, <1>12, <1>13 DEF Next

\* The invariant says what TablesFormTree asks.
LEMMA TreeInvMeans == TreeInv => TablesFormTree
<1> SUFFICES ASSUME TreeInv PROVE TablesFormTree
  OBVIOUS
<1>1. PICK level : TreeOK(level)
  BY DEF TreeInv
<1>2. ASSUME NEW p \in InnerTables PROVE p \in Own /\ level[p] \in 1..3
  <2>1. PICK l \in 1..3 : p \in TablesAt(l)
    BY <1>2 DEF InnerTables
  <2>2. PICK v \in Pages : p = Path(v)[l] /\ p # None
    BY <2>1 DEF TablesAt
  <2>3. l \in Levels
    BY DEF Levels
  <2> QED BY <1>1, <2>2, <2>3, PathFacts DEF TreeInv
<1> DEFINE refs == {r \in InnerTables \X (0..(Fanout - 1)) : entry[r[1]][r[2]] # None}
           To(r) == entry[r[1]][r[2]].to
<1>3. ASSUME NEW r \in refs
      PROVE  r[1] \in Own /\ r[2] \in Entries /\ level[r[1]] \in 1..3 /\ entry[r[1]][r[2]] # None
             /\ r = <<r[1], r[2]>>
  BY <1>2 DEF Entries
<1>4. ASSUME NEW r \in refs, NEW s \in refs, To(r) = To(s) PROVE r = s
  <2>1. r[1] = s[1] /\ r[2] = s[2]
    <3>1. entry[r[1]][r[2]].to = entry[s[1]][s[2]].to
      BY <1>4
    <3> HIDE DEF refs, To
    <3> QED BY <1>1, <1>3, <3>1 DEF TreeOK
  <2> HIDE DEF refs, To
  <2> QED BY <1>3, <2>1
<1>5. ASSUME NEW r \in refs PROVE To(r) \in present \ {0, Root}
  <2>1. entry[r[1]][r[2]].to \in Own \ {Root} /\ level[entry[r[1]][r[2]].to] = level[r[1]] + 1
        /\ level[r[1]] \in 1..3
    <3> HIDE DEF refs
    <3> QED BY <1>1, <1>3 DEF TreeOK
  <2>2. entry[r[1]][r[2]].to \in present
    BY <1>1, <2>1 DEF TreeOK
  <2> QED BY <2>1, <2>2 DEF Own
<1> HIDE DEF refs, To
<1>6. (\A r, s \in refs : To(r) = To(s) => r = s) /\ (\A r \in refs : To(r) \in present \ {0, Root})
  BY <1>4, <1>5
<1> QED BY <1>6 DEF TablesFormTree, refs, To

\* TablesFormTree: AllocatePhysical never hands out a page twice, and each entry of an inner table leads
\* to a table of its own, whether requests (MapPages, MapPagesInRegion, CreateUserThread) fail or not.
THEOREM TablesAlwaysFormTree == Spec => []TablesFormTree
<1>1. Spec => []TreeInv
  BY TreeInit, TreeStep, PTL DEF Spec
<1> QED BY <1>1, TreeInvMeans, PTL

(* What MapPage changes for the pages it does not map.                      *)

\* The tables of a page, all of its levels.
WaysOK ==
    TablesOK => \A level : TreeOK(level) => \A v, w \in Pages :
      /\ Path(v)[1] = Root
      /\ \A l \in Levels : Path(v)[l] # None =>
           Path(v)[l] \in Own /\ level[Path(v)[l]] = l /\ Path(v)[l] \in present
      /\ \A l \in 1..3 : Path(v)[l] = None => Path(v)[l + 1] = None
      /\ \A l \in 1..3 : Path(v)[l] # None =>
           Path(v)[l + 1] = (IF entry[Path(v)[l]][Index[v][l]] = None THEN None
                             ELSE entry[Path(v)[l]][Index[v][l]].to)
      /\ \A l \in Levels : Path(v)[l] # None /\ Path(v)[l] = Path(w)[l] =>
           \A m \in Levels : m < l => Index[v][m] = Index[w][m]

\* PathFacts and SharedIndices in one formula, for states before and after a step.
LEMMA WaysAreOK == WaysOK
<1> SUFFICES ASSUME TablesOK, NEW level, TreeOK(level), NEW v \in Pages, NEW w \in Pages
             PROVE  /\ Path(v)[1] = Root
                    /\ \A l \in Levels : Path(v)[l] # None =>
                         Path(v)[l] \in Own /\ level[Path(v)[l]] = l /\ Path(v)[l] \in present
                    /\ \A l \in 1..3 : Path(v)[l] = None => Path(v)[l + 1] = None
                    /\ \A l \in 1..3 : Path(v)[l] # None =>
                         Path(v)[l + 1] = (IF entry[Path(v)[l]][Index[v][l]] = None THEN None
                                           ELSE entry[Path(v)[l]][Index[v][l]].to)
                    /\ \A l \in Levels : Path(v)[l] # None /\ Path(v)[l] = Path(w)[l] =>
                         \A m \in Levels : m < l => Index[v][m] = Index[w][m]
  BY DEF WaysOK
<1>1. \A l \in Levels : Path(v)[l] # None /\ Path(v)[l] = Path(w)[l] =>
        \A m \in Levels : m < l => Index[v][m] = Index[w][m]
  BY SharedIndices
<1> QED BY <1>1, PathFacts

\* The tables of a page afterwards: those that v has now, and for another page those that
\* it had and perhaps a new one of v's.
LEMMA MapPagePaths ==
  ASSUME TablesOK, NEW level, TreeOK(level), NEW v \in Pages, NEW phys \in Nat, NEW user \in BOOLEAN,
         MapPage(v, phys, user), UNCHANGED pages
  PROVE  /\ \A l \in Levels : Path(v)'[l] = Full(v)[l]
         /\ \A w \in Pages, l \in Levels :
              Path(w)'[l] = Path(w)[l] \/ (Path(w)[l] = None /\ Path(w)'[l] \in Free)
<1>1. TablesOK' /\ \E L : TreeOK(L)'
  BY MapPageKeepsTree
<1>2. WaysOK'
  BY WaysAreOK, PTL
<1>3. PICK L : TreeOK(L)'
  BY <1>1
<1>4. \A w \in Pages : /\ Path(w)'[1] = Root
                       /\ \A l \in 1..3 : Path(w)'[l] = None => Path(w)'[l + 1] = None
                       /\ \A l \in 1..3 : Path(w)'[l] # None =>
                            Path(w)'[l + 1] = (IF entry'[Path(w)'[l]][Index[w][l]] = None THEN None
                                               ELSE entry'[Path(w)'[l]][Index[w][l]].to)
  BY <1>1, <1>2, <1>3 DEF WaysOK
<1>5. /\ \A l \in 1..3 : Path(v)[l + 1] = None /\ Full(v)[l + 1] # None =>
           entry'[Full(v)[l]][Index[v][l]] = InnerEntry(Full(v)[l + 1], user)
      /\ \A p \in Own, i \in Entries :
           (p # Full(v)[4] \/ i # Index[v][4]) /\ ~Descends(v, p, i) => entry'[p][i] = entry[p][i]
  BY MapPageWrites
<1>6. \A l \in 1..3 : l \in Levels /\ l + 1 \in Levels
  BY DEF Levels
<1>7. Free \subseteq Own /\ Free \cap present = {} /\ Own \subseteq Nat
      /\ \A p \in Own : p # None
  BY FreeFacts, SizeFacts DEF TablesOK, Own
\* What an entry of a table above the last was, or leads to.
<1>8. ASSUME NEW p \in Own, NEW i \in Entries, p # Full(v)[4]
      PROVE  \/ entry'[p][i] = entry[p][i]
             \/ /\ entry[p][i] = None /\ entry'[p][i] # None /\ entry'[p][i].to \in Free
                /\ \E l \in 1..3 : p = Full(v)[l] /\ i = Index[v][l]
  <2>1. CASE ~Descends(v, p, i)
    BY <1>5, <1>8, <2>1
  <2>2. CASE Descends(v, p, i)
    <3>1. PICK l \in 1..3 : Path(v)[l + 1] = None /\ Full(v)[l + 1] # None /\ p = Full(v)[l] /\ i = Index[v][l]
      BY <2>2 DEF Descends
    <3>2. entry'[p][i] = InnerEntry(Full(v)[l + 1], user)
      BY <1>5, <3>1
    <3>3. Full(v)[l + 1] \in Free /\ Full(v)[l + 1] \in Nat
      BY <1>6, <1>7, <3>1, FullFacts
    <3>4. entry'[p][i].to \in Free /\ entry'[p][i] # None
      BY <3>2, <3>3, EntryFacts
    <3>5. entry[p][i] = None
      <4>1. CASE Path(v)[l] = None
        <5>1. p \in Free
          BY <1>6, <1>7, <3>1, <4>1, FullFacts
        <5> QED BY <1>7, <5>1 DEF TreeOK
      <4>2. CASE Path(v)[l] # None
        <5>1. p = Path(v)[l] /\ Path(v)[l + 1] = (IF entry[p][i] = None THEN None ELSE entry[p][i].to)
          BY <1>6, <3>1, <4>2, FullFacts, PathFacts
        <5>2. entry[p][i] # None => level[p] \in 1..3
          BY <1>6, <4>2, <5>1, PathFacts
        <5>3. entry[p][i] # None => entry[p][i].to \in Own
          BY <5>2 DEF TreeOK
        <5> QED BY <1>7, <3>1, <5>1, <5>3
      <4> QED BY <4>1, <4>2
    <3> QED BY <3>1, <3>4, <3>5
  <2> QED BY <2>1, <2>2
<1> DEFINE Way(w, l) == Path(w)'[l] = Path(w)[l] \/ (Path(w)[l] = None /\ Path(w)'[l] \in Free)
<1>9. ASSUME NEW w \in Pages, NEW l \in 1..3, Way(w, l) PROVE Way(w, l + 1)
  <2>1. Index[w][l] \in Entries
    BY <1>6, IndexFacts
  <2>2. CASE Path(w)'[l] = None
    <3>1. Path(w)[l] = None
      BY <1>7, <1>9, <2>2
    <3>2. Path(w)'[l + 1] = None /\ Path(w)[l + 1] = None
      BY <1>4, <2>2, <3>1, PathFacts
    <3> QED BY <3>2
  <2>3. CASE Path(w)'[l] # None
    <3> DEFINE p == Path(w)'[l]
               i == Index[w][l]
    <3>1. p \in Own
      BY <1>6, <1>7, <1>9, <2>3, PathFacts
    <3>2. p # Full(v)[4]
      <4>1. CASE p = Path(w)[l]
        <5>1. level[p] = l /\ p \in present
          BY <1>6, <2>3, <4>1, PathFacts
        <5>2. CASE Path(v)[4] = None
          <6>1. 4 \in Levels
            BY DEF Levels
          <6> QED BY <1>7, <3>1, <5>1, <5>2, <6>1, FullFacts
        <5>3. CASE Path(v)[4] # None
          <6>1. 4 \in Levels
            BY DEF Levels
          <6>2. level[Path(v)[4]] = 4 /\ Full(v)[4] = Path(v)[4]
            BY <5>3, <6>1, PathFacts, FullFacts
          <6> QED BY <5>1, <6>2
        <5> QED BY <5>2, <5>3
      <4>2. CASE p # Path(w)[l]
        <5>1. L[p] = l
          BY <1>1, <1>2, <1>3, <1>6, <2>3 DEF WaysOK
        <5>2. CASE p = Full(v)[4]
          <6>1. PICK M : M = NewLevel(v, level) /\ TreeOK(M)'
            BY MapPageKeepsTree
          <6>2. M[p] = l
            BY <1>1, <1>2, <1>6, <2>3, <6>1 DEF WaysOK
          <6>3. 4 \in Levels
            BY DEF Levels
          <6>4. M[p] = 4
            <7>1. Full(v)[4] # None
              BY <1>7, <3>1, <5>2
            <7>2. NewLevel(v, level)[Full(v)[4]] = 4
              BY <6>3, <7>1, NewLevelFacts
            <7> QED BY <5>2, <6>1, <7>2
          <6> QED BY <6>2, <6>4
        <5> QED BY <5>2
      <4> QED BY <4>1, <4>2
    <3>3. Path(w)'[l + 1] = IF entry'[p][i] = None THEN None ELSE entry'[p][i].to
      BY <1>4, <2>3
    <3>4. \/ entry'[p][i] = entry[p][i]
          \/ entry[p][i] = None /\ entry'[p][i] # None /\ entry'[p][i].to \in Free
      BY <1>8, <2>1, <3>1, <3>2
    <3>5. CASE p = Path(w)[l]
      <4>1. Path(w)[l + 1] = IF entry[p][i] = None THEN None ELSE entry[p][i].to
        BY <2>3, <3>5, PathFacts
      <4> QED BY <3>3, <3>4, <4>1
    <3>6. CASE Path(w)[l] = None /\ p \in Free
      <4>1. Path(w)[l + 1] = None
        BY <3>6, PathFacts
      <4>2. entry[p][i] = None
        BY <1>7, <2>1, <3>1, <3>6 DEF TreeOK
      <4> QED BY <3>3, <3>4, <4>1, <4>2
    <3> QED BY <1>9, <3>5, <3>6
  <2> QED BY <2>2, <2>3
<1>10. ASSUME NEW w \in Pages, NEW l \in Levels PROVE Way(w, l)
  <2>1. Way(w, 1)
    BY <1>4, PathFacts
  <2>2. 1 \in 1..3 /\ 2 \in 1..3 /\ 3 \in 1..3 /\ 1 + 1 = 2 /\ 2 + 1 = 3 /\ 3 + 1 = 4
    OBVIOUS
  <2> HIDE DEF Way
  <2>3. Way(w, 2)
    BY <1>9, <2>1, <2>2
  <2>4. Way(w, 3)
    BY <1>9, <2>3, <2>2
  <2>5. Way(w, 4)
    BY <1>9, <2>4, <2>2
  <2> QED BY <2>1, <2>3, <2>4, <2>5 DEF Levels
<1> DEFINE Own4(l) == Path(v)'[l] = Full(v)[l]
<1>11. ASSUME NEW l \in 1..3, Own4(l) PROVE Own4(l + 1)
  <2>1. CASE Full(v)[l] = None
    BY <1>4, <1>11, <2>1, FullFacts
  <2>2. CASE Full(v)[l] # None
    <3> DEFINE p == Full(v)[l]
               i == Index[v][l]
    <3>1. p \in Own /\ i \in Entries /\ p # Full(v)[4]
      <4>1. 4 \in Levels /\ l \in Levels
        BY DEF Levels
      <4> QED BY <2>2, <4>1, FullFacts, IndexFacts
    <3>2. Path(v)'[l + 1] = IF entry'[p][i] = None THEN None ELSE entry'[p][i].to
      BY <1>4, <1>11, <2>2
    <3>3. CASE Path(v)[l + 1] = None /\ Full(v)[l + 1] # None
      <4>1. entry'[p][i] = InnerEntry(Full(v)[l + 1], user)
        BY <1>5, <3>3
      <4>2. Full(v)[l + 1] \in Nat
        BY <1>6, <1>7, <3>3, FullFacts
      <4> QED BY <3>2, <4>1, <4>2, EntryFacts
    <3>4. CASE ~(Path(v)[l + 1] = None /\ Full(v)[l + 1] # None)
      <4>1. Full(v)[l + 1] = Path(v)[l + 1]
        BY <1>6, <3>4, FullFacts
      <4>2. ~Descends(v, p, i)
        <5> SUFFICES ASSUME NEW k \in 1..3, Path(v)[k + 1] = None, Full(v)[k + 1] # None, p = Full(v)[k]
                     PROVE  FALSE
          BY DEF Descends
        <5>1. k = l
          BY <1>6, <2>2, FullFacts
        <5> QED BY <3>4, <5>1
      <4>3. entry'[p][i] = entry[p][i]
        BY <1>5, <3>1, <4>2
      <4>4. CASE Path(v)[l] # None
        <5>1. p = Path(v)[l] /\ Path(v)[l + 1] = IF entry[p][i] = None THEN None ELSE entry[p][i].to
          BY <1>6, <4>4, FullFacts, PathFacts
        <5> QED BY <3>2, <4>1, <4>3, <5>1
      <4>5. CASE Path(v)[l] = None
        <5>1. Path(v)[l + 1] = None
          BY <4>5, PathFacts
        <5>2. p \in Free
          BY <1>6, <2>2, <4>5, FullFacts
        <5>3. entry[p][i] = None
          BY <1>7, <3>1, <5>2 DEF TreeOK
        <5> QED BY <3>2, <4>1, <4>3, <5>1, <5>3
      <4> QED BY <4>4, <4>5
    <3> QED BY <3>3, <3>4
  <2> QED BY <2>1, <2>2
<1>12. ASSUME NEW l \in Levels PROVE Own4(l)
  <2>1. Own4(1)
    BY <1>4, FullFacts
  <2>2. 1 \in 1..3 /\ 2 \in 1..3 /\ 3 \in 1..3 /\ 1 + 1 = 2 /\ 2 + 1 = 3 /\ 3 + 1 = 4
    OBVIOUS
  <2> HIDE DEF Own4
  <2>3. Own4(2)
    BY <1>11, <2>1, <2>2
  <2>4. Own4(3)
    BY <1>11, <2>3, <2>2
  <2>5. Own4(4)
    BY <1>11, <2>4, <2>2
  <2> QED BY <2>1, <2>3, <2>4, <2>5 DEF Levels
<1> QED BY <1>10, <1>12

\* Only the translation of the page that is mapped changes.
LEMMA MapPagePtes ==
  ASSUME TablesOK, NEW level, TreeOK(level), NEW v \in Pages, NEW phys \in Nat, NEW user \in BOOLEAN,
         MapPage(v, phys, user), UNCHANGED pages
  PROVE  /\ Pte(v)' = IF Full(v)[4] = None THEN None ELSE Entry(phys, user)
         /\ Full(v)[4] = None => Pte(v) = None
         /\ \A w \in Pages : w # v => Pte(w)' = Pte(w)
<1>1. 4 \in Levels
  BY DEF Levels
<1>2. Path(v)'[4] = Full(v)[4] /\ \A w \in Pages :
        Path(w)'[4] = Path(w)[4] \/ (Path(w)[4] = None /\ Path(w)'[4] \in Free)
  BY <1>1, MapPagePaths
<1>3. /\ Full(v)[4] # None => entry'[Full(v)[4]][Index[v][4]] = Entry(phys, user)
      /\ \A p \in Own, i \in Entries :
           (p # Full(v)[4] \/ i # Index[v][4]) /\ ~Descends(v, p, i) => entry'[p][i] = entry[p][i]
  BY MapPageWrites
<1>4. TablesOK' /\ WaysOK'
  BY MapPageKeepsTree, WaysAreOK, PTL
<1>5. PICK L : L = NewLevel(v, level) /\ TreeOK(L)'
  BY MapPageKeepsTree
<1>6. Free \subseteq Own /\ Free \cap present = {} /\ \A p \in Own : p # None
  BY FreeFacts, SizeFacts DEF TablesOK, Own
<1>7. Pte(v)' = IF Full(v)[4] = None THEN None ELSE Entry(phys, user)
  BY <1>2, <1>3 DEF Pte
<1>8. Full(v)[4] = None => Pte(v) = None
  BY <1>1, FullFacts DEF Pte
<1>9. ASSUME NEW w \in Pages, w # v PROVE Pte(w)' = Pte(w)
  <2> DEFINE q == Path(w)'[4]
             i == Index[w][4]
  <2>1. CASE q = None
    BY <1>2, <1>6, <2>1 DEF Pte
  <2>2. CASE q # None
    <3>1. q \in Own /\ L[q] = 4 /\ i \in Entries
      <4>1. q \in Own' /\ L[q] = 4
        BY <1>1, <1>4, <1>5, <2>2 DEF WaysOK
      <4> QED BY <1>1, <4>1, IndexFacts DEF Own
    <3>2. ~Descends(v, q, i)
      <4> SUFFICES ASSUME NEW l \in 1..3, Full(v)[l + 1] # None, q = Full(v)[l] PROVE FALSE
        BY DEF Descends
      <4>1. l \in Levels /\ Full(v)[l] # None
        BY <2>2 DEF Levels
      <4>2. L[q] = l
        BY <1>5, <4>1, NewLevelFacts
      <4> QED BY <3>1, <4>2
    <3>3. q # Full(v)[4] \/ i # Index[v][4]
      <4> SUFFICES ASSUME q = Full(v)[4], i = Index[v][4] PROVE FALSE
        OBVIOUS
      <4>1. Path(v)'[4] # None /\ Path(v)'[4] = Path(w)'[4]
        BY <1>2, <2>2
      <4>2. \A m \in Levels : m < 4 => Index[v][m] = Index[w][m]
        BY <1>1, <1>4, <1>5, <4>1 DEF WaysOK
      <4>3. \A m \in Levels : Index[v][m] = Index[w][m]
        <5>1. \A m \in Levels : m < 4 \/ m = 4
          BY DEF Levels
        <5> QED BY <4>2, <5>1
      <4> QED BY <1>9, <4>3, IndexInjective
    <3>4. entry'[q][i] = entry[q][i]
      BY <1>3, <3>1, <3>2, <3>3
    <3>5. Pte(w)' = entry'[q][i]
      BY <2>2 DEF Pte
    <3>6. CASE q = Path(w)[4]
      BY <2>2, <3>4, <3>5, <3>6 DEF Pte
    <3>7. CASE Path(w)[4] = None /\ q \in Free
      <4>1. entry[q][i] = None
        BY <1>6, <3>1, <3>7 DEF TreeOK
      <4> QED BY <3>4, <3>5, <3>7, <4>1 DEF Pte
    <3> QED BY <1>2, <3>6, <3>7
  <2> QED BY <2>1, <2>2
<1> QED BY <1>7, <1>8, <1>9

(* The way to a page of a user thread.                                      *)

UserPages == {UserCode, UserStack}

\* Every entry on the way to u admits ring 3.
OpenWay(u) == \A l \in Levels :
    Path(u)[l] # None /\ entry[Path(u)[l]][Index[u][l]] # None => entry[Path(u)[l]][Index[u][l]].user

\* A page of the kernel lies under another entry of the root.
LEMMA KernelIsElsewhere ==
  ASSUME NEW u \in Pages, NEW v \in Pages, Index[v][1] # Index[u][1], OpenWay(u),
         TablesOK, NEW level, TreeOK(level), NEW phys \in Nat, NEW user \in BOOLEAN,
         MapPage(v, phys, user), UNCHANGED pages
  PROVE  OpenWay(u)'
<1>1. /\ \A l \in Levels : Path(v)'[l] = Full(v)[l]
      /\ \A l \in Levels : Path(u)'[l] = Path(u)[l] \/ (Path(u)[l] = None /\ Path(u)'[l] \in Free)
  BY MapPagePaths
<1>2. \A p \in Own, i \in Entries :
           (p # Full(v)[4] \/ i # Index[v][4]) /\ ~Descends(v, p, i) => entry'[p][i] = entry[p][i]
  BY MapPageWrites
<1>3. TablesOK' /\ WaysOK'
  BY MapPageKeepsTree, WaysAreOK, PTL
<1>4. PICK L : L = NewLevel(v, level) /\ TreeOK(L)'
  BY MapPageKeepsTree
<1>5. Free \subseteq Own /\ Free \cap present = {} /\ \A p \in Own : p # None
  BY FreeFacts, SizeFacts DEF TablesOK, Own
<1>6. ASSUME NEW l \in Levels, Path(u)'[l] # None, entry'[Path(u)'[l]][Index[u][l]] # None
      PROVE  entry'[Path(u)'[l]][Index[u][l]].user
  <2> DEFINE q == Path(u)'[l]
             i == Index[u][l]
  <2>1. q \in Own /\ L[q] = l /\ i \in Entries
    <3>1. q \in Own' /\ L[q] = l
      BY <1>3, <1>4, <1>6 DEF WaysOK
    <3> QED BY <3>1, IndexFacts DEF Own
  \* v comes past the same entry only above the root.
  <2>2. \A k \in Levels : ~(q = Full(v)[k] /\ i = Index[v][k])
    <3> SUFFICES ASSUME NEW k \in Levels, q = Full(v)[k], i = Index[v][k] PROVE FALSE
      OBVIOUS
    <3>1. L[q] = k
      BY <1>4, <1>6, NewLevelFacts
    <3>2. k = l
      BY <2>1, <3>1
    <3>3. Path(v)'[l] # None /\ Path(v)'[l] = Path(u)'[l]
      BY <1>1, <1>6, <3>2
    <3>4. \A m \in Levels : m < l => Index[v][m] = Index[u][m]
      BY <1>3, <1>4, <3>3 DEF WaysOK
    <3>5. 1 \in Levels /\ (1 < l \/ l = 1)
      BY DEF Levels
    <3> QED BY <3>2, <3>4, <3>5
  <2>3. q # Full(v)[4] \/ i # Index[v][4]
    <3>1. 4 \in Levels
      BY DEF Levels
    <3> QED BY <2>2, <3>1
  <2>4. ~Descends(v, q, i)
    <3>1. \A k \in 1..3 : k \in Levels
      BY DEF Levels
    <3> QED BY <2>2, <3>1 DEF Descends
  <2>5. entry'[q][i] = entry[q][i]
    BY <1>2, <2>1, <2>3, <2>4
  <2>6. q = Path(u)[l]
    <3> SUFFICES ASSUME q \in Free PROVE FALSE
      BY <1>1
    <3> QED BY <1>5, <1>6, <2>1, <2>5 DEF TreeOK
  <2> QED BY <1>6, <2>5, <2>6 DEF OpenWay
<1> QED BY <1>6 DEF OpenWay

\* What is entered for a page of a user thread admits ring 3.
LEMMA UserIsOpen ==
  ASSUME NEW u \in Pages, NEW v \in Pages, OpenWay(u),
         TablesOK, NEW level, TreeOK(level), NEW phys \in Nat,
         MapPage(v, phys, TRUE), UNCHANGED pages
  PROVE  OpenWay(u)'
<1>1. \A l \in Levels : Path(u)'[l] = Path(u)[l] \/ (Path(u)[l] = None /\ Path(u)'[l] \in Free)
  BY MapPagePaths
<1>2. /\ Full(v)[4] # None => entry'[Full(v)[4]][Index[v][4]] = Entry(phys, TRUE)
      /\ \A l \in 1..3 : Path(v)[l + 1] = None /\ Full(v)[l + 1] # None =>
           entry'[Full(v)[l]][Index[v][l]] = InnerEntry(Full(v)[l + 1], TRUE)
      /\ \A p \in Own, i \in Entries :
           (p # Full(v)[4] \/ i # Index[v][4]) /\ ~Descends(v, p, i) => entry'[p][i] = entry[p][i]
  BY MapPageWrites
<1>a. TRUE \in BOOLEAN
  OBVIOUS
<1>b. WaysOK'
  BY WaysAreOK, PTL
<1>3. TablesOK' /\ WaysOK'
  BY <1>a, <1>b, MapPageKeepsTree
<1>4. PICK L : L = NewLevel(v, level) /\ TreeOK(L)'
  BY MapPageKeepsTree
<1>5. Free \subseteq Own /\ Free \cap present = {} /\ \A p \in Own : p # None /\ p \in Nat
  BY FreeFacts, SizeFacts DEF TablesOK, Own
<1>6. ASSUME NEW l \in Levels, Path(u)'[l] # None, entry'[Path(u)'[l]][Index[u][l]] # None
      PROVE  entry'[Path(u)'[l]][Index[u][l]].user
  <2> DEFINE q == Path(u)'[l]
             i == Index[u][l]
  <2>1. q \in Own /\ i \in Entries
    <3>1. q \in Own'
      BY <1>3, <1>4, <1>6 DEF WaysOK
    <3> QED BY <3>1, IndexFacts DEF Own
  <2>2. CASE q = Full(v)[4] /\ i = Index[v][4]
    <3>1. entry'[q][i] = Entry(phys, TRUE)
      BY <1>2, <1>6, <2>2
    <3>2. Entry(phys, TRUE).user = TRUE
      BY DEF Entry
    <3> QED BY <3>1, <3>2
  <2>3. CASE Descends(v, q, i)
    <3>1. PICK k \in 1..3 : Path(v)[k + 1] = None /\ Full(v)[k + 1] # None /\ q = Full(v)[k] /\ i = Index[v][k]
      BY <2>3 DEF Descends
    <3>2. k + 1 \in Levels
      BY DEF Levels
    <3>3. Full(v)[k + 1] \in Nat
      BY <1>5, <3>1, <3>2, FullFacts
    <3>4. entry'[q][i] = InnerEntry(Full(v)[k + 1], TRUE)
      BY <1>2, <3>1
    <3>5. InnerEntry(Full(v)[k + 1], TRUE).user = TRUE
      BY DEF InnerEntry, Entry
    <3> QED BY <3>4, <3>5
  <2>4. CASE (q # Full(v)[4] \/ i # Index[v][4]) /\ ~Descends(v, q, i)
    <3>1. entry'[q][i] = entry[q][i]
      BY <1>2, <2>1, <2>4
    <3>2. q = Path(u)[l]
      <4> SUFFICES ASSUME q \in Free PROVE FALSE
        BY <1>1
      <4> QED BY <1>5, <1>6, <2>1, <3>1 DEF TreeOK
    <3> QED BY <1>6, <3>1, <3>2 DEF OpenWay
  <2> QED BY <2>2, <2>3, <2>4
<1> QED BY <1>6 DEF OpenWay

(* The pages of a user thread.                                              *)

\* Runtime services lie where the region for them has a page for each of theirs.
RuntimeFits == \A p \in Runtime : First(Uefi) + p \in Uefi

KernelPages == UNION {Region[i] : i \in 1..7}

UserRequest(virt, phys) == [virt |-> virt, phys |-> phys, user |-> TRUE]

KernelRequests == \A k \in DOMAIN todo : ~todo[k].user /\ todo[k].virt \in KernelPages /\ todo[k].phys \in Nat

\* A page that is taken, and no table.
IsFrame(p) == p \in Own /\ p \in present /\ \A v \in Pages, l \in Levels : Path(v)[l] # p

\* The stack's page is not mapped yet: x is its page if it has one.  While there are pages
\* left, no request for one has failed.
StackAsked(x) ==
    /\ todo = <<UserRequest(UserStack, x), UserRequest(UserCode, None)>>
    /\ Pte(UserStack) = None /\ Pte(UserCode) = None
    /\ (Free # {} /\ x # None) => (pa = x /\ IsFrame(x))

\* The stack's page is s, the code's is not mapped yet.
StackIs(s) == s \in Own /\ IsFrame(s) /\ Pte(UserStack) = Entry(s, TRUE)
CodeAsked(x) ==
    /\ todo = <<UserRequest(UserCode, x)>>
    /\ Pte(UserCode) = None
    /\ Free # {} => \E s : StackIs(s) /\ s # x
    /\ (Free # {} /\ x # None) => (pa = x /\ IsFrame(x))

CodeIs(c) == c \in Own /\ IsFrame(c) /\ Pte(UserCode) = Entry(c, TRUE)
UserMapped ==
    /\ todo = <<>>
    /\ Free # {} => \E s, c : StackIs(s) /\ CodeIs(c) /\ s # c

UserInv ==
    /\ OpenWay(UserCode) /\ OpenWay(UserStack)
    /\ stage # "running" => (KernelRequests /\ Pte(UserCode) = None /\ Pte(UserStack) = None)
    /\ stage = "running" => (\E x \in Nat \cup {None} : StackAsked(x) \/ CodeAsked(x)) \/ UserMapped

\* The user's pages are two, and lie under other entries of the root than the kernel's regions.
LEMMA UserFacts ==
  /\ UserCode \in Pages /\ UserStack \in Pages /\ UserCode # UserStack
  /\ \A i \in 1..7 : Region[i] \subseteq KernelPages /\ Region[i] \in Regions
  /\ \A v \in KernelPages : /\ v \in Pages /\ v # UserCode /\ v # UserStack
                            /\ Index[v][1] # Index[UserCode][1] /\ Index[v][1] # Index[UserStack][1]
<1>1. Region[8] = {UserCode} /\ Region[9] = {UserStack}
  BY DEF Region
<1>2. UserCode # UserStack
  BY <1>1, PageTableAssumption
<1>3. \A i \in 1..7 : Region[i] \subseteq KernelPages /\ Region[i] \in Regions
  BY DEF KernelPages, Regions
<1>4. ASSUME NEW v \in KernelPages
      PROVE  /\ v \in Pages
             /\ Index[v][1] # Index[UserCode][1] /\ Index[v][1] # Index[UserStack][1]
  <2>1. PICK i \in 1..7 : v \in Region[i]
    BY DEF KernelPages
  <2>2. v \in Pages
    BY <1>3, <2>1, RegionFacts
  <2> QED BY <2>1, <2>2, HalvesAssumption
<1> QED BY <1>2, <1>3, <1>4, RegionNames, RegionFacts

\* Frames stay frames, and only fewer pages are free.
LEMMA MapPageFrames ==
  ASSUME TablesOK, NEW level, TreeOK(level), NEW v \in Pages, NEW phys \in Nat, NEW user \in BOOLEAN,
         MapPage(v, phys, user), UNCHANGED pages
  PROVE  /\ \A p : IsFrame(p) => IsFrame(p)'
         /\ Free' \subseteq Free
         /\ Free' # {} => Full(v)[4] # None
<1>1. present' = present \cup ({Full(v)[l] : l \in Levels} \ {None})
  BY MapPageIs
<1>2. Free \cap present = {} /\ \A p \in Own : p # None
  BY FreeFacts, SizeFacts DEF TablesOK, Own
<1>3. ASSUME NEW p, IsFrame(p) PROVE IsFrame(p)'
  <2>1. \A w \in Pages, l \in Levels : Path(w)'[l] = Path(w)[l] \/ Path(w)'[l] \in Free
    BY MapPagePaths
  <2>2. p \in Own' /\ p \in present'
    BY <1>1, <1>3 DEF IsFrame, Own
  <2>3. \A w \in Pages, l \in Levels : Path(w)'[l] # p
    BY <1>2, <1>3, <2>1 DEF IsFrame
  <2> QED BY <2>2, <2>3 DEF IsFrame
<1>4. Free' \subseteq Free
  BY <1>1 DEF Free
<1>5. ASSUME Free' # {}, Full(v)[4] = None PROVE FALSE
  <2>1. PICK p \in Free' : TRUE
    BY <1>5
  <2>2. p \in Free /\ p \notin present'
    BY <1>4, <2>1 DEF Free
  <2>3. PICK l \in Levels : Full(v)[l] = p
    BY <1>5, <2>2, FullFacts
  <2>4. p # None
    BY <1>2, <2>2, FreeFacts
  <2> QED BY <1>1, <2>2, <2>3, <2>4
<1> QED BY <1>3, <1>4, <1>5

\* Taking a free page as a frame.
LEMMA TakeFrame ==
  ASSUME TreeInv, NEW p \in Free, present' = present \cup {p}, UNCHANGED <<pages, entry>>
  PROVE  /\ IsFrame(p)' /\ \A q : IsFrame(q) => IsFrame(q)' /\ q # p
         /\ \A v \in Pages : Pte(v)' = Pte(v) /\ Path(v)' = Path(v)
         /\ Free' \subseteq Free
<1>1. PICK level : TablesOK /\ TreeOK(level)
  BY DEF TreeInv
<1>2. \A v \in Pages : Pte(v)' = Pte(v) /\ Path(v)' = Path(v)
  BY DEF Pte, Path
<1>3. p \in Own /\ p \notin present /\ p # None
  BY <1>1, FreeFacts, SizeFacts DEF TablesOK, Own
<1>4. \A v \in Pages, l \in Levels : Path(v)[l] # p
  BY <1>1, <1>3, PathFacts
<1>5. IsFrame(p)'
  BY <1>2, <1>3, <1>4 DEF IsFrame, Own
<1>6. ASSUME NEW q, IsFrame(q) PROVE IsFrame(q)' /\ q # p
  <2>1. q \in Own' /\ q \in present' /\ q # p
    BY <1>3, <1>6 DEF IsFrame, Own
  <2>2. \A v \in Pages, l \in Levels : Path(v)'[l] # q
    BY <1>2, <1>6 DEF IsFrame
  <2> QED BY <2>1, <2>2 DEF IsFrame
<1>7. Free' \subseteq Free
  BY DEF Free
<1>8. \A q : IsFrame(q) => IsFrame(q)' /\ q # p
  BY <1>6
<1> QED BY <1>2, <1>5, <1>7, <1>8, Zenon

\* Without new entries a way stays open, and a page mapped as it was.
LEMMA OpenWayStays ==
  ASSUME NEW u, UNCHANGED entry
  PROVE  (OpenWay(u) => OpenWay(u)') /\ Pte(u)' = Pte(u)
<1>1. Path(u)' = Path(u)
  BY DEF Path
<1>2. Pte(u)' = Pte(u)
  BY <1>1 DEF Pte
<1>3. OpenWay(u) => OpenWay(u)'
  BY <1>1 DEF OpenWay
<1> QED BY <1>2, <1>3

\* UnmapPage leaves every page its tables.
LEMMA UnmapPaths ==
  ASSUME TreeInv, NEW v \in Pages, UnmapPage(v), TreeInv'
  PROVE  /\ \A w \in Pages : \A l \in Levels : Path(w)'[l] = Path(w)[l]
         /\ \A w \in Pages : w # v => Pte(w)' = Pte(w)
         /\ \A w \in Pages : OpenWay(w) => OpenWay(w)'
         /\ Pte(v)' = [Pte(v) EXCEPT !.present = FALSE]
<1>1. PICK level : TablesOK /\ TreeOK(level)
  BY DEF TreeInv
<1> DEFINE pt == Path(v)[4]
           i == Index[v][4]
<1>2. 4 \in Levels /\ pt # None
  BY DEF UnmapPage, Pte, Levels
<1>3. pt \in Own /\ level[pt] = 4 /\ i \in Entries /\ entry[pt][i] # None
  BY <1>1, <1>2, PathFacts, IndexFacts DEF UnmapPage, Pte
<1>4. entry' = [entry EXCEPT ![pt][i].present = FALSE]
  BY DEF UnmapPage
<1>5. Pte(v) = entry[pt][i]
  BY <1>2 DEF Pte
<1>6. \A j \in Levels, w \in Pages, u \in Pages : Path(w)[j] # None /\ Path(w)[j] = Path(u)[j] =>
        \A m \in Levels : m < j => Index[w][m] = Index[u][m]
  BY <1>1, SharedIndices
<1> HIDE DEF pt, i
<1>7. entry[pt][i] \in Ptes /\ DOMAIN entry = Own /\ \A p \in Own : DOMAIN entry[p] = Entries
  BY <1>1, <1>3 DEF TablesOK
<1>8. \A p \in Own, j \in Entries :
        entry'[p][j] = IF p = pt /\ j = i THEN [entry[pt][i] EXCEPT !.present = FALSE] ELSE entry[p][j]
  BY <1>3, <1>4, <1>7
<1>9. [entry[pt][i] EXCEPT !.present = FALSE] # None /\ [entry[pt][i] EXCEPT !.present = FALSE].user = entry[pt][i].user
  <2>1. [entry[pt][i] EXCEPT !.present = FALSE] \in Ptes
    BY <1>7 DEF Ptes
  <2> QED BY <1>7, <2>1, PageTableAssumption DEF Ptes
<1>10. ASSUME NEW w \in Pages PROVE \A l \in Levels : Path(w)'[l] = Path(w)[l]
  <2> DEFINE Same(l) == Path(w)'[l] = Path(w)[l]
  <2>1. /\ Path(w)'[1] = Root
        /\ \A l \in 1..3 : Path(w)'[l] = None => Path(w)'[l + 1] = None
        /\ \A l \in 1..3 : Path(w)'[l] # None =>
             Path(w)'[l + 1] = (IF entry'[Path(w)'[l]][Index[w][l]] = None THEN None
                                ELSE entry'[Path(w)'[l]][Index[w][l]].to)
    <3>1. WaysOK' /\ TablesOK' /\ \E L : TreeOK(L)'
      <4>1. WaysOK'
        BY WaysAreOK, PTL
      <4> QED BY <4>1 DEF TreeInv
    <3>2. PICK L : TreeOK(L)'
      BY <3>1
    <3> QED BY <3>1, <3>2 DEF WaysOK
  <2>2. ASSUME NEW l \in 1..3, Same(l) PROVE Same(l + 1)
    <3>1. CASE Path(w)[l] = None
      BY <1>1, <2>1, <2>2, <3>1, PathFacts
    <3>2. CASE Path(w)[l] # None
      <4>1. l \in Levels
        BY DEF Levels
      <4>2. Path(w)[l] \in Own /\ level[Path(w)[l]] = l /\ Index[w][l] \in Entries /\ Path(w)[l] # pt
        BY <1>1, <1>3, <3>2, <4>1, PathFacts, IndexFacts
      <4>3. entry'[Path(w)[l]][Index[w][l]] = entry[Path(w)[l]][Index[w][l]]
        BY <1>8, <4>2
      <4>4. Path(w)[l + 1] = (IF entry[Path(w)[l]][Index[w][l]] = None THEN None
                              ELSE entry[Path(w)[l]][Index[w][l]].to)
        BY <1>1, <3>2, PathFacts
      <4>5. Path(w)'[l + 1] = (IF entry'[Path(w)[l]][Index[w][l]] = None THEN None
                               ELSE entry'[Path(w)[l]][Index[w][l]].to)
        BY <2>1, <2>2, <3>2
      <4> QED BY <4>3, <4>4, <4>5
    <3> QED BY <3>1, <3>2
  <2>3. Same(1)
    BY <1>1, <2>1, PathFacts
  <2>4. 1 \in 1..3 /\ 2 \in 1..3 /\ 3 \in 1..3 /\ 1 + 1 = 2 /\ 2 + 1 = 3 /\ 3 + 1 = 4
    OBVIOUS
  <2> HIDE DEF Same
  <2>5. Same(2)
    BY <2>2, <2>3, <2>4
  <2>6. Same(3)
    BY <2>2, <2>4, <2>5
  <2>7. Same(4)
    BY <2>2, <2>4, <2>6
  <2> QED BY <2>3, <2>5, <2>6, <2>7 DEF Levels, Same
<1>11. ASSUME NEW w \in Pages, w # v PROVE Pte(w)' = Pte(w)
  <2>1. CASE Path(w)[4] = None
    BY <1>2, <1>10, <2>1 DEF Pte
  <2>2. CASE Path(w)[4] # None
    <3>1. Path(w)[4] \in Own /\ Index[w][4] \in Entries
      BY <1>1, <1>2, <2>2, PathFacts, IndexFacts
    <3>2. Path(w)[4] # pt \/ Index[w][4] # i
      <4> SUFFICES ASSUME Path(w)[4] = pt, Index[w][4] = i PROVE FALSE
        OBVIOUS
      <4>1. \A m \in Levels : m < 4 => Index[w][m] = Index[v][m]
        BY <1>2, <1>6, <2>2 DEF pt
      <4>2. \A m \in Levels : Index[w][m] = Index[v][m]
        <5>1. \A m \in Levels : m < 4 \/ m = 4
          BY DEF Levels
        <5> QED BY <4>1, <5>1 DEF i
      <4> QED BY <1>11, <4>2, IndexInjective
    <3>3. entry'[Path(w)[4]][Index[w][4]] = entry[Path(w)[4]][Index[w][4]]
      BY <1>8, <3>1, <3>2
    <3> QED BY <1>2, <1>10, <3>3 DEF Pte
  <2> QED BY <2>1, <2>2
<1>12. ASSUME NEW w \in Pages, OpenWay(w) PROVE OpenWay(w)'
  <2> SUFFICES ASSUME NEW l \in Levels, Path(w)'[l] # None, entry'[Path(w)'[l]][Index[w][l]] # None
               PROVE  entry'[Path(w)'[l]][Index[w][l]].user
    BY DEF OpenWay
  <2> DEFINE q == Path(w)[l]
             j == Index[w][l]
  <2>1. q \in Own /\ j \in Entries /\ Path(w)'[l] = q /\ q # None
    BY <1>1, <1>10, PathFacts, IndexFacts
  <2>2. CASE q = pt /\ j = i
    <3>1. entry[q][j].user
      BY <1>3, <1>12, <2>1, <2>2 DEF OpenWay
    <3> QED BY <1>8, <1>9, <2>1, <2>2, <3>1
  <2>3. CASE ~(q = pt /\ j = i)
    <3>1. entry'[q][j] = entry[q][j]
      BY <1>8, <2>1, <2>3
    <3> QED BY <1>12, <2>1, <3>1 DEF OpenWay
  <2> QED BY <2>2, <2>3
<1>13. Pte(v)' = [Pte(v) EXCEPT !.present = FALSE]
  <2>1. Path(v)'[4] = pt
    BY <1>2, <1>10 DEF pt
  <2>2. Pte(v)' = entry'[pt][i]
    BY <1>2, <2>1 DEF Pte, i
  <2> QED BY <1>3, <1>5, <1>8, <2>2
<1> QED BY <1>10, <1>11, <1>12, <1>13

\* A request of OsInitialize is for the kernel's pages.
LEMMA KernelRequest ==
  ASSUME NEW virt \in Nat, NEW phys \in Nat, NEW n \in Nat,
         \A k \in 1..n : (virt + k - 1) % Space \in KernelPages,
         Request(virt, phys, n, FALSE)
  PROVE  KernelRequests'
<1>1. DOMAIN todo' = 1..n /\ \A k \in 1..n :
        todo'[k] = [virt |-> (virt + k - 1) % Space, phys |-> phys + k - 1, user |-> FALSE]
  BY DEF Request
<1>2. \A k \in 1..n : phys + k - 1 \in Nat
  OBVIOUS
<1>3. \A k \in 1..n : todo'[k].user = FALSE /\ todo'[k].virt \in KernelPages /\ todo'[k].phys \in Nat
  BY <1>1, <1>2
<1> QED BY <1>1, <1>3 DEF KernelRequests

\* So is one in a region of the kernel.
LEMMA KernelRequestIn ==
  ASSUME NEW r \in Regions, r \subseteq KernelPages, NEW phys \in Nat, NEW n \in Nat, RequestIn(r, phys, n),
         todo = <<>>
  PROVE  KernelRequests'
<1> DEFINE starts == RegionStart(r, n)
<1>1. CASE starts = {}
  BY <1>1 DEF RequestIn, KernelRequests
<1>2. CASE starts # {}
  <2>1. starts \subseteq r /\ \A v \in starts : v + n - 1 \in r
    BY DEF RegionStart
  <2>2. First(starts) \in starts
    <3>1. starts \subseteq Nat
      BY <2>1, RegionFacts
    <3> HIDE DEF starts
    <3>2. \E v \in starts : \A w \in starts : v <= w
      BY <1>2, <3>1, LeastNatural
    <3> QED BY <3>2 DEF First
  <2>3. \A k \in 1..n : (First(starts) + k - 1) % Space \in KernelPages
    BY <2>1, <2>2, RegionRequest
  <2>4. First(starts) \in Nat
    BY <2>1, <2>2, RegionFacts
  <2>5. Request(First(starts), phys, n, FALSE)
    BY <1>2 DEF RequestIn
  <2> QED BY <2>3, <2>4, <2>5, KernelRequest
<1> QED BY <1>1, <1>2

\* A request of the kernel.
LEMMA UserWaits ==
  ASSUME UserInv, stage # "running", UNCHANGED entry, stage' # "running", KernelRequests'
  PROVE  UserInv'
<1>1. UNCHANGED <<Pte(UserCode), Pte(UserStack)>> /\ OpenWay(UserCode)' /\ OpenWay(UserStack)'
  BY OpenWayStays DEF UserInv
<1> QED BY <1>1 DEF UserInv

\* With nothing in the tables, no page is mapped.
EmptyOK ==
    (TablesOK /\ (\E level : TreeOK(level)) /\ (\A p \in Own, i \in Entries : entry[p][i] = None))
      => (\A u \in Pages : OpenWay(u) /\ Pte(u) = None)

\* Every way is open where nothing is entered.
LEMMA EmptyIsOK == EmptyOK
<1> SUFFICES ASSUME TablesOK, NEW level, TreeOK(level), \A p \in Own, i \in Entries : entry[p][i] = None,
                    NEW u \in Pages
             PROVE  OpenWay(u) /\ Pte(u) = None
  BY DEF EmptyOK
<1>1. \A l \in Levels : Path(u)[l] # None => entry[Path(u)[l]][Index[u][l]] = None
  BY PathFacts, IndexFacts
<1>2. 4 \in Levels
  BY DEF Levels
<1> QED BY <1>1, <1>2 DEF OpenWay, Pte

\* At first nothing is entered.
LEMMA InitIsEmpty ==
  ASSUME Init
  PROVE  TreeInv /\ \A u \in Pages : OpenWay(u) /\ Pte(u) = None
<1>1. TreeInv
  BY TreeInit
<1>2. \A p \in Own, i \in Entries : entry[p][i] = None
  BY DEF Init, Own, Entries
<1> QED BY <1>1, <1>2, EmptyIsOK DEF TreeInv, EmptyOK

\* At first there is no user thread.
LEMMA UserInit == Init => UserInv
<1> SUFFICES ASSUME Init PROVE UserInv
  OBVIOUS
<1>1. \A u \in Pages : OpenWay(u) /\ Pte(u) = None
  BY InitIsEmpty
<1>2. KernelRequests
  BY DEF Init, KernelRequests
<1> QED BY <1>1, <1>2, UserFacts DEF UserInv, Init

\* OsInitialize's requests keep off the user's pages.
LEMMA UserMapNext == TreeInv /\ UserInv /\ MapNext => UserInv'
<1> SUFFICES ASSUME TreeInv, UserInv, MapNext PROVE UserInv'
  OBVIOUS
<1>1. todo \in Seq(Requests) /\ todo # <<>> /\ Head(todo) = todo[1] /\ 1 \in DOMAIN todo
  BY DEF TreeInv, MapNext
<1>2. stage # "running"
  <2> SUFFICES ASSUME stage = "running" PROVE FALSE
    OBVIOUS
  <2>1. Head(todo).user = TRUE
    BY <1>1 DEF UserInv, UserRequest, StackAsked, CodeAsked, UserMapped
  <2> QED BY <2>1 DEF MapNext
<1>3. KernelRequests /\ Pte(UserCode) = None /\ Pte(UserStack) = None /\ OpenWay(UserCode) /\ OpenWay(UserStack)
  BY <1>2 DEF UserInv
<1> DEFINE v == Head(todo).virt
<1>4. v \in KernelPages /\ v \in Pages /\ Head(todo).phys \in Nat
  BY <1>1, <1>3, UserFacts DEF KernelRequests
<1>5. PICK level : TablesOK /\ TreeOK(level)
  BY DEF TreeInv
<1>6. MapPage(v, Head(todo).phys, FALSE) /\ UNCHANGED pages
  BY DEF MapNext
<1> HIDE DEF v
<1>7. Pte(UserCode)' = None /\ Pte(UserStack)' = None
  BY <1>3, <1>4, <1>5, <1>6, MapPagePtes, UserFacts
<1>8. OpenWay(UserCode)' /\ OpenWay(UserStack)'
  BY <1>3, <1>4, <1>5, <1>6, KernelIsElsewhere, UserFacts
<1>9. KernelRequests'
  <2>1. todo' = Tail(todo) \/ todo' = <<>>
    BY DEF MapNext
  <2>2. CASE todo' = <<>>
    BY <2>2 DEF KernelRequests
  <2>3. CASE todo' = Tail(todo)
    <3>1. \A k \in DOMAIN todo' : k + 1 \in DOMAIN todo /\ todo'[k] = todo[k + 1]
      BY <1>1, <2>3
    <3> QED BY <1>3, <3>1 DEF KernelRequests
  <2> QED BY <2>1, <2>2, <2>3
<1> QED BY <1>2, <1>7, <1>8, <1>9 DEF UserInv, MapNext

\* Records with the same fields are the same.
LEMMA SameRequest ==
  ASSUME NEW r \in Requests, NEW s \in Requests, r.virt = s.virt, r.phys = s.phys, r.user = s.user
  PROVE  r = s
BY DEF Requests

\* CreateUserThread has a page for its request.
LEMMA RequestWithPage ==
  ASSUME NEW virt \in Pages, NEW x \in Nat \cup {None}, NEW a \in Nat \cup {None}
  PROVE  [UserRequest(virt, x) EXCEPT !.phys = a] = UserRequest(virt, a)
<1>1. UserRequest(virt, x) \in Requests /\ UserRequest(virt, a) \in Requests
  BY DEF UserRequest, Requests
<1>2. [UserRequest(virt, x) EXCEPT !.phys = a] \in Requests
  BY <1>1 DEF Requests
<1>3. /\ UserRequest(virt, x).virt = virt /\ UserRequest(virt, x).user = TRUE
      /\ UserRequest(virt, a).virt = virt /\ UserRequest(virt, a).phys = a /\ UserRequest(virt, a).user = TRUE
  BY DEF UserRequest
<1>4. \A r \in Requests : [r EXCEPT !.phys = a].virt = r.virt /\ [r EXCEPT !.phys = a].phys = a
                          /\ [r EXCEPT !.phys = a].user = r.user
  BY DEF Requests
<1> DEFINE r == UserRequest(virt, x)
           s == UserRequest(virt, a)
           e == [r EXCEPT !.phys = a]
<1>5. e \in Requests /\ s \in Requests
  BY <1>1, <1>2
<1>6. e.virt = s.virt /\ e.phys = s.phys /\ e.user = s.user
  <2>1. e.virt = r.virt /\ e.phys = a /\ e.user = r.user
    BY <1>1, <1>4
  <2> QED BY <1>3, <2>1
<1>7. e = s
  <2> HIDE DEF e, s
  <2> QED BY <1>5, <1>6, SameRequest
<1> QED BY <1>7

\* CreateUserThread takes a free page for the stack or the code, which is none of the tables'.
LEMMA UserTakes ==
  ASSUME TreeInv, UserInv, MapUser, NeedsPage(Head(todo)), Free # {}
  PROVE  UserInv'
<1>1. stage = "running" /\ stage' = "running"
  <2>1. todo # <<>> /\ Head(todo).user /\ Head(todo) = todo[1] /\ 1 \in DOMAIN todo
    BY DEF TreeInv, MapUser
  <2> QED BY <2>1 DEF UserInv, KernelRequests, MapUser
<1>a. PICK a : a = Allocated(1)
  OBVIOUS
<1>2. a \in Free
  <2>1. Cardinality(Free) \in Nat /\ Cardinality(Free) # 0
    BY FreeFacts, FS_EmptySet DEF TreeInv
  <2> QED BY <1>a, <2>1, AllocatedFacts DEF TreeInv
<1>3. a # None /\ a \in Nat /\ a \in Own
  BY <1>2, FreeFacts, SizeFacts DEF TreeInv, TablesOK, Own
<1>4. pa' = a /\ present' = present \cup {a} /\ todo' = [todo EXCEPT ![1].phys = a] /\ UNCHANGED <<pages, entry>>
  BY <1>a, <1>3 DEF MapUser, Taken
<1>5. /\ IsFrame(a)' /\ (\A q : IsFrame(q) => IsFrame(q)' /\ q # a)
      /\ Pte(UserCode)' = Pte(UserCode) /\ Pte(UserStack)' = Pte(UserStack) /\ Free' \subseteq Free
  BY <1>2, <1>4, TakeFrame, UserFacts
<1>6. OpenWay(UserCode)' /\ OpenWay(UserStack)'
  BY <1>4, OpenWayStays DEF UserInv
<1>7. ASSUME NEW x \in Nat \cup {None}, StackAsked(x) PROVE StackAsked(a)'
  <2>1. todo = <<UserRequest(UserStack, x), UserRequest(UserCode, None)>>
    BY <1>7 DEF StackAsked
  <2>2. todo[1] = UserRequest(UserStack, x) /\ todo[2] = UserRequest(UserCode, None) /\ DOMAIN todo = 1..2
    BY <2>1
  <2>3. todo' = <<UserRequest(UserStack, a), UserRequest(UserCode, None)>>
    <3>1. [UserRequest(UserStack, x) EXCEPT !.phys = a] = UserRequest(UserStack, a)
      BY <1>3, RequestWithPage, UserFacts
    <3>2. todo' = [todo EXCEPT ![1] = UserRequest(UserStack, a)]
      BY <1>4, <2>2, <3>1
    <3> QED BY <2>1, <3>2
  <2> QED BY <1>4, <1>5, <1>7, <2>3 DEF StackAsked
<1>8. ASSUME NEW x \in Nat \cup {None}, CodeAsked(x) PROVE CodeAsked(a)'
  <2>1. todo = <<UserRequest(UserCode, x)>>
    BY <1>8 DEF CodeAsked
  <2>2. todo' = <<UserRequest(UserCode, a)>>
    <3>1. [UserRequest(UserCode, x) EXCEPT !.phys = a] = UserRequest(UserCode, a)
      BY <1>3, RequestWithPage, UserFacts
    <3>2. todo' = [todo EXCEPT ![1] = UserRequest(UserCode, a)]
      BY <1>4, <2>1, <3>1
    <3> QED BY <2>1, <3>2
  <2>3. PICK s : StackIs(s)
    BY <1>8 DEF CodeAsked
  <2>4. StackIs(s)' /\ s # a
    BY <1>4, <1>5, <2>3 DEF StackIs, Own
  <2> QED BY <1>4, <1>5, <1>8, <2>2, <2>4 DEF CodeAsked
<1>9. todo # <<>>
  BY DEF MapUser
<1>10. \E x \in Nat \cup {None} : StackAsked(x) \/ CodeAsked(x)
  BY <1>1, <1>9 DEF UserInv, UserMapped
<1>11. StackAsked(a)' \/ CodeAsked(a)'
  BY <1>7, <1>8, <1>10
<1>12. \E x \in Nat \cup {None} : StackAsked(x)' \/ CodeAsked(x)'
  BY <1>3, <1>11
<1> QED BY <1>1, <1>6, <1>12 DEF UserInv

\* CreateUserThread maps the page it has, and opens the way to it.
LEMMA UserMaps ==
  ASSUME TreeInv, UserInv, MapUser, ~(NeedsPage(Head(todo)) /\ Free # {})
  PROVE  UserInv'
<1>1. stage = "running" /\ stage' = "running" /\ todo # <<>>
  <2>1. todo # <<>> /\ Head(todo).user /\ Head(todo) = todo[1] /\ 1 \in DOMAIN todo
    BY DEF TreeInv, MapUser
  <2> QED BY <2>1 DEF UserInv, KernelRequests, MapUser
<1>2. todo' = Tail(todo) /\ pa' = pa /\ UNCHANGED pages
  BY DEF MapUser
<1>3. PICK level : TablesOK /\ TreeOK(level)
  BY DEF TreeInv
<1>4. pa \in Nat \cup {None}
  BY DEF TreeInv
<1>a. TRUE \in BOOLEAN
  OBVIOUS
<1>5. ASSUME NEW v \in Pages, v = Head(todo).virt
      PROVE  /\ \A q : IsFrame(q) => IsFrame(q)'
             /\ Free' \subseteq Free
             /\ OpenWay(UserCode)' /\ OpenWay(UserStack)'
             /\ \A w \in UserPages : w # v => Pte(w)' = Pte(w)
             /\ Free' # {} /\ pa # None => Pte(v)' = Entry(pa, TRUE)
  <2>1. CASE pa = None
    <3>1. UNCHANGED <<present, entry, pages>>
      BY <1>2, <2>1 DEF MapUser
    <3>2. Free' \subseteq Free /\ OpenWay(UserCode)' /\ OpenWay(UserStack)' /\ \A w \in UserPages : Pte(w)' = Pte(w)
      BY <3>1, OpenWayStays DEF UserInv, Free
    <3>3. \A q : IsFrame(q) => IsFrame(q)'
      <4>1. \A w \in Pages : Path(w)' = Path(w)
        BY <3>1 DEF Path
      <4> QED BY <3>1, <4>1 DEF IsFrame, Own
    <3> QED BY <2>1, <3>2, <3>3
  <2>2. CASE pa # None
    <3>1. MapPage(v, pa, TRUE) /\ pa \in Nat
      BY <1>4, <1>5, <2>2 DEF MapUser
    <3>2. OpenWay(UserCode)' /\ OpenWay(UserStack)'
      BY <1>2, <1>3, <3>1, UserIsOpen, UserFacts DEF UserInv
    <3>3. (\A q : IsFrame(q) => IsFrame(q)') /\ Free' \subseteq Free /\ (Free' # {} => Full(v)[4] # None)
      BY <1>2, <1>3, <1>a, <3>1, MapPageFrames
    <3>4. /\ Pte(v)' = IF Full(v)[4] = None THEN None ELSE Entry(pa, TRUE)
          /\ \A w \in Pages : w # v => Pte(w)' = Pte(w)
      BY <1>2, <1>3, <1>a, <3>1, MapPagePtes
    <3> QED BY <3>2, <3>3, <3>4, UserFacts DEF UserPages
  <2> QED BY <2>1, <2>2
<1>6. ASSUME NEW x \in Nat \cup {None}, StackAsked(x) PROVE CodeAsked(None)'
  <2>1. todo = <<UserRequest(UserStack, x), UserRequest(UserCode, None)>>
    BY <1>6 DEF StackAsked
  <2>2. Tail(todo) = <<UserRequest(UserCode, None)>> /\ Head(todo) = UserRequest(UserStack, x)
    BY <2>1
  <2>3. Head(todo).virt = UserStack /\ Head(todo).phys = x /\ todo' = <<UserRequest(UserCode, None)>>
    BY <1>2, <2>2 DEF UserRequest
  <2>4. /\ (\A q : IsFrame(q) => IsFrame(q)') /\ Free' \subseteq Free
        /\ Pte(UserCode)' = Pte(UserCode)
        /\ Free' # {} /\ pa # None => Pte(UserStack)' = Entry(pa, TRUE)
    BY <1>5, <2>3, UserFacts DEF UserPages
  <2>5. ASSUME Free' # {} PROVE StackIs(x)' /\ x # None
    <3>1. Free # {}
      BY <2>4, <2>5
    <3>2. x # None
      BY <2>3, <3>1 DEF NeedsPage
    <3>3. pa = x /\ IsFrame(x)
      BY <1>6, <3>1, <3>2 DEF StackAsked
    <3> QED BY <1>2, <2>4, <2>5, <3>2, <3>3 DEF IsFrame, Own, StackIs
  <2>6. Pte(UserCode)' = None
    BY <1>6, <2>4 DEF StackAsked
  <2> QED BY <2>3, <2>5, <2>6 DEF CodeAsked
<1>7. ASSUME NEW x \in Nat \cup {None}, CodeAsked(x) PROVE UserMapped'
  <2>1. todo = <<UserRequest(UserCode, x)>>
    BY <1>7 DEF CodeAsked
  <2>2. Tail(todo) = <<>> /\ Head(todo) = UserRequest(UserCode, x)
    BY <2>1
  <2>3. Head(todo).virt = UserCode /\ Head(todo).phys = x /\ todo' = <<>>
    BY <1>2, <2>2 DEF UserRequest
  <2>4. /\ (\A q : IsFrame(q) => IsFrame(q)') /\ Free' \subseteq Free
        /\ Pte(UserStack)' = Pte(UserStack)
        /\ Free' # {} /\ pa # None => Pte(UserCode)' = Entry(pa, TRUE)
    BY <1>5, <2>3, UserFacts DEF UserPages
  <2>5. ASSUME Free' # {} PROVE \E s, c : StackIs(s)' /\ CodeIs(c)' /\ s # c
    <3>1. Free # {}
      BY <2>4, <2>5
    <3>2. x # None
      BY <2>3, <3>1 DEF NeedsPage
    <3>3. pa = x /\ IsFrame(x)
      BY <1>7, <3>1, <3>2 DEF CodeAsked
    <3>4. PICK s : StackIs(s) /\ s # x
      BY <1>7, <3>1 DEF CodeAsked
    <3>5. StackIs(s)'
      BY <1>2, <2>4, <3>4 DEF StackIs, Own
    <3>6. CodeIs(x)'
      BY <1>2, <2>4, <2>5, <3>2, <3>3 DEF IsFrame, Own, CodeIs
    <3> QED BY <3>4, <3>5, <3>6
  <2> QED BY <2>3, <2>5 DEF UserMapped
<1>8. OpenWay(UserCode)' /\ OpenWay(UserStack)'
  <2>1. \E v \in Pages : v = Head(todo).virt
    <3>1. Head(todo) \in Requests
      BY <1>1 DEF TreeInv
    <3> QED BY <3>1 DEF Requests
  <2> QED BY <1>5, <2>1
<1>9. \E x \in Nat \cup {None} : StackAsked(x) \/ CodeAsked(x)
  BY <1>1 DEF UserInv, UserMapped
<1>10. CodeAsked(None)' \/ UserMapped'
  BY <1>6, <1>7, <1>9
<1>11. (\E x \in Nat \cup {None} : StackAsked(x)' \/ CodeAsked(x)') \/ UserMapped'
  BY <1>10
<1> QED BY <1>1, <1>8, <1>11 DEF UserInv

\* The user's invariant is kept by every step.
LEMMA UserStep ==
  ASSUME RuntimeFits, TreeInv, UserInv, [Next]_vars
  PROVE  UserInv'
<1>1. TreeInv'
  BY TreeStep
<1>2. /\ Region[1] = Image /\ Region[2] = KernelPt /\ Region[3] = Devices /\ Region[4] = FrameBuffer
      /\ Region[5] = KernelPool /\ Region[6] = Uefi /\ Region[7] = BackBuffer
  BY DEF Region
<1>3. /\ Image \subseteq KernelPages /\ KernelPt \subseteq KernelPages /\ Devices \subseteq KernelPages
      /\ FrameBuffer \subseteq KernelPages /\ KernelPool \subseteq KernelPages
      /\ Uefi \subseteq KernelPages /\ BackBuffer \subseteq KernelPages
  <2>1. 1 \in 1..7 /\ 2 \in 1..7 /\ 3 \in 1..7 /\ 4 \in 1..7 /\ 5 \in 1..7 /\ 6 \in 1..7 /\ 7 \in 1..7
    OBVIOUS
  <2> QED BY <1>2, <2>1, UserFacts
<1>4. \A v \in KernelPages : v \in Nat /\ v % Space = v
  BY UserFacts, Unwrapped
<1>5. Outside \in Nat /\ count \in Nat
  BY PageTableAssumption DEF TreeInv
<1>6. CASE MapNext
  BY <1>6, UserMapNext
<1>7. CASE MapImage
  <2>1. \A k \in 1..Cardinality(Image) : (First(Image) + k - 1) % Space \in KernelPages
    BY <1>3, <1>4, RegionNames, RegionFacts
  <2>2. KernelRequests'
    BY <1>5, <1>7, <2>1, RegionNames, RegionFacts, KernelRequest DEF MapImage
  <2> QED BY <1>7, <2>2, UserWaits DEF MapImage, At, Go, Tables
<1>8. CASE MapTables
  <2>1. \A k \in 1..pages : (First(KernelPt) + k - 1) % Space \in KernelPages
    BY <1>3, <1>4, PoolIsMapped
  <2>2. KernelRequests'
    BY <1>8, <2>1, PoolIsMapped, KernelRequest DEF MapTables
  <2> QED BY <1>8, <2>2, UserWaits DEF MapTables, At, Go, Tables
<1>9. CASE MapFrameBuffer
  <2>1. Outside + First(FrameBuffer) \in Nat /\ Cardinality(FrameBuffer) \in Nat
    BY RegionNames, RegionNumbers
  <2>2. KernelRequests'
    BY <1>3, <1>9, <2>1, RegionNames, KernelRequestIn DEF MapFrameBuffer, At
  <2> QED BY <1>9, <2>2, UserWaits DEF MapFrameBuffer, At, Go, Tables
<1>10. CASE MapBackBuffer
  <2>1. Outside + First(BackBuffer) \in Nat /\ Cardinality(BackBuffer) \in Nat
    BY RegionNames, RegionNumbers
  <2>2. KernelRequests'
    BY <1>3, <1>10, <2>1, RegionNames, KernelRequestIn DEF MapBackBuffer, At
  <2> QED BY <1>10, <2>2, UserWaits DEF MapBackBuffer, At, Go, Tables
<1>11. CASE SetWriteCombining
  <2>1. KernelRequests'
    <3>1. todo' = <<>>
      BY <1>11 DEF SetWriteCombining, At
    <3> QED BY <3>1 DEF KernelRequests
  <2>2. stage # "running" /\ stage' # "running"
    BY <1>11 DEF SetWriteCombining, At, Go
  <2> QED BY <1>11, <2>1, <2>2, UserWaits DEF SetWriteCombining, Tables
<1>12. CASE MapDevice
  <2>1. 2 * Outside + count \in Nat
    BY <1>5
  <2>2. KernelRequests'
    BY <1>3, <1>12, <2>1, RegionNames, KernelRequestIn DEF MapDevice, At
  <2> QED BY <1>12, <2>2, UserWaits DEF MapDevice, At, Stay, Tables
<1>13. CASE MapPool
  <2>1. \A k \in 1..Cardinality(KernelPool) : (First(KernelPool) + k - 1) % Space \in KernelPages
    BY <1>3, <1>4, RegionNames, RegionFacts
  <2>2. First(KernelPool) \in Nat /\ Outside + First(KernelPool) \in Nat /\ Cardinality(KernelPool) \in Nat
    BY RegionNames, RegionNumbers
  <2>3. KernelRequests'
    BY <1>13, <2>1, <2>2, KernelRequest DEF MapPool
  <2> QED BY <1>13, <2>3, UserWaits DEF MapPool, At, Go, Tables
<1>14. ASSUME NEW p \in Runtime, MapRuntime(p) PROVE UserInv'
  <2>1. First(Uefi) + p \in KernelPages /\ p \in Nat /\ First(Uefi) \in Nat
    BY <1>3, PageTableAssumption, RegionNames, RegionFacts DEF RuntimeFits
  <2>2. \A k \in 1..1 : ((First(Uefi) + p) + k - 1) % Space \in KernelPages
    <3>1. \A k \in 1..1 : (First(Uefi) + p) + k - 1 = First(Uefi) + p
      BY <2>1
    <3> QED BY <1>4, <2>1, <3>1
  <2>3. First(Uefi) + p \in Nat /\ 3 * Outside + p \in Nat
    BY <1>5, <2>1
  <2>4. KernelRequests'
    BY <1>14, <2>2, <2>3, KernelRequest DEF MapRuntime
  <2> QED BY <1>14, <2>4, UserWaits DEF MapRuntime, At, Go, Stay, Tables
<1>15. ASSUME NEW v \in Image, FinalizeKernelMapping(v) PROVE UserInv'
  <2>1. v \in Pages /\ v # UserCode /\ v # UserStack
    BY <1>3, UserFacts
  <2>2. /\ Pte(UserCode)' = Pte(UserCode) /\ Pte(UserStack)' = Pte(UserStack)
        /\ (OpenWay(UserCode) => OpenWay(UserCode)') /\ (OpenWay(UserStack) => OpenWay(UserStack)')
    BY <1>1, <1>15, <2>1, UnmapPaths, UserFacts DEF FinalizeKernelMapping
  <2>3. KernelRequests'
    BY <1>15 DEF FinalizeKernelMapping, At, KernelRequests
  <2> QED BY <1>15, <2>2, <2>3 DEF UserInv, FinalizeKernelMapping, At, Go
<1>16. ASSUME NEW junk \in Junk, CreateUserThread(junk) PROVE UserInv'
  <2>1. todo' = <<UserRequest(UserStack, None), UserRequest(UserCode, None)>>
    BY <1>16 DEF CreateUserThread, UserRequest
  <2>2. Pte(UserCode) = None /\ Pte(UserStack) = None /\ OpenWay(UserCode) /\ OpenWay(UserStack)
    BY <1>16 DEF UserInv, CreateUserThread, At
  <2>3. Pte(UserCode)' = None /\ Pte(UserStack)' = None /\ OpenWay(UserCode)' /\ OpenWay(UserStack)'
    BY <1>16, <2>2, OpenWayStays DEF CreateUserThread, Tables
  <2>4. StackAsked(None)'
    BY <2>1, <2>3 DEF StackAsked
  <2> QED BY <1>16, <2>3, <2>4 DEF UserInv, CreateUserThread, Go
<1>17. CASE MapUser
  BY <1>17, UserTakes, UserMaps
<1>18. CASE UNCHANGED vars
  <2>1. /\ Pte(UserCode)' = Pte(UserCode) /\ Pte(UserStack)' = Pte(UserStack)
        /\ OpenWay(UserCode)' /\ OpenWay(UserStack)'
    BY <1>18, OpenWayStays DEF vars, UserInv
  <2>2. \A p : IsFrame(p)' <=> IsFrame(p)
    <3>1. \A v \in Pages : Path(v)' = Path(v)
      BY <1>18 DEF vars, Path
    <3> QED BY <1>18, <3>1 DEF vars, IsFrame, Own
  <2>3. Free' = Free /\ Own' = Own /\ UNCHANGED <<todo, stage, pa>>
    BY <1>18 DEF vars, Free, Own
  <2>4. \A x : (StackIs(x) => StackIs(x)') /\ (CodeIs(x) => CodeIs(x)')
    BY <2>1, <2>2, <2>3 DEF StackIs, CodeIs
  <2>5. \A x \in Nat \cup {None} : (StackAsked(x) => StackAsked(x)') /\ (CodeAsked(x) => CodeAsked(x)')
    BY <2>1, <2>2, <2>3, <2>4 DEF StackAsked, CodeAsked
  <2>6. UserMapped => UserMapped'
    BY <2>3, <2>4 DEF UserMapped
  <2>7. KernelRequests => KernelRequests'
    BY <2>3 DEF KernelRequests
  <2> QED BY <2>1, <2>3, <2>5, <2>6, <2>7 DEF UserInv
<1> QED BY <1>6, <1>7, <1>8, <1>9, <1>10, <1>11, <1>12, <1>13, <1>14, <1>15, <1>16, <1>17, <1>18 DEF Next

\* Once CreateUserThread has had a page, it has mapped nothing but pages that are no tables, also
\* when there was no second one.
Framed(v) == Pte(v) = None \/ \E p \in Own : IsFrame(p) /\ Pte(v) = Entry(p, TRUE)
FrameInv ==
    stage = "running" /\ pa \notin Junk =>
      /\ \E p \in Own : pa = p /\ IsFrame(p)
      /\ Framed(UserCode) /\ Framed(UserStack)

\* What is mapped after the step of CreateUserThread that has taken a page.
LEMMA FramesTaken ==
  ASSUME TreeInv, UserInv, MapUser, NeedsPage(Head(todo)), Free # {}
  PROVE  FrameInv'
<1>1. stage = "running"
  <2>1. todo # <<>> /\ Head(todo).user /\ Head(todo) = todo[1] /\ 1 \in DOMAIN todo
    BY DEF TreeInv, MapUser
  <2> QED BY <2>1 DEF UserInv, KernelRequests
<1>2. PICK a : a = Allocated(1)
  OBVIOUS
<1>3. a \in Free
  <2>1. Cardinality(Free) \in Nat /\ Cardinality(Free) # 0
    BY FreeFacts, FS_EmptySet DEF TreeInv
  <2> QED BY <1>2, <2>1, AllocatedFacts DEF TreeInv
<1>4. a # None /\ a \in Own
  BY <1>3, FreeFacts, SizeFacts DEF TreeInv, TablesOK, Own
<1>5. pa' = a /\ present' = present \cup {a} /\ UNCHANGED <<pages, entry>>
  BY <1>2, <1>4 DEF MapUser, Taken
<1>6. /\ IsFrame(a)' /\ \A q : IsFrame(q) => IsFrame(q)'
      /\ Pte(UserCode)' = Pte(UserCode) /\ Pte(UserStack)' = Pte(UserStack)
  BY <1>3, <1>5, TakeFrame, UserFacts
<1>7. Own' = Own
  BY <1>5 DEF Own
<1>8. Pte(UserCode) = None /\ (Pte(UserStack) = None \/ \E s : StackIs(s))
  <2>1. todo # <<>>
    BY DEF MapUser
  <2>2. \E x \in Nat \cup {None} : StackAsked(x) \/ CodeAsked(x)
    BY <1>1, <2>1 DEF UserInv, UserMapped
  <2> QED BY <2>2 DEF StackAsked, CodeAsked
<1>9. Framed(UserCode)' /\ Framed(UserStack)'
  BY <1>6, <1>7, <1>8 DEF Framed, StackIs
<1>10. \E p \in Own' : pa' = p /\ IsFrame(p)'
  BY <1>4, <1>5, <1>6, <1>7
<1> QED BY <1>9, <1>10 DEF FrameInv

\* And after the step that has mapped the page it has, if it has one.
LEMMA FramesMapped ==
  ASSUME TreeInv, UserInv, FrameInv, MapUser, ~(NeedsPage(Head(todo)) /\ Free # {})
  PROVE  FrameInv'
<1>1. stage = "running" /\ Head(todo) \in Requests
  <2>1. todo # <<>> /\ Head(todo).user /\ Head(todo) = todo[1] /\ 1 \in DOMAIN todo /\ Head(todo) \in Requests
    BY DEF TreeInv, MapUser
  <2> QED BY <2>1 DEF UserInv, KernelRequests
<1>2. pa' = pa /\ UNCHANGED pages /\ Own' = Own
  BY DEF MapUser, Own
<1>3. CASE pa \in Junk
  BY <1>2, <1>3 DEF FrameInv, Junk
<1>4. CASE pa \notin Junk
  <2>1. PICK p \in Own : pa = p /\ IsFrame(p)
    BY <1>1, <1>4 DEF FrameInv
  <2>2. PICK level : TablesOK /\ TreeOK(level)
    BY DEF TreeInv
  <2>3. PICK v \in Pages : v = Head(todo).virt
    BY <1>1 DEF Requests
  <2>4. pa \in Nat /\ MapPage(v, pa, TRUE) /\ TRUE \in BOOLEAN
    BY <1>4, <2>3 DEF MapUser, TreeInv, Junk
  <2>5. \A q : IsFrame(q) => IsFrame(q)'
    BY <1>2, <2>2, <2>4, MapPageFrames
  <2>6. /\ Pte(v)' = IF Full(v)[4] = None THEN None ELSE Entry(pa, TRUE)
        /\ \A w \in Pages : w # v => Pte(w)' = Pte(w)
    BY <1>2, <2>2, <2>4, MapPagePtes
  <2>7. ASSUME NEW w \in Pages, Framed(w) PROVE Framed(w)'
    <3>1. CASE w = v
      BY <1>2, <2>1, <2>5, <2>6, <3>1 DEF Framed
    <3>2. CASE w # v
      BY <1>2, <2>5, <2>6, <2>7, <3>2 DEF Framed
    <3> QED BY <3>1, <3>2
  <2>8. Framed(UserCode)' /\ Framed(UserStack)'
    BY <1>1, <1>4, <2>7, UserFacts DEF FrameInv
  <2>9. \E q \in Own' : pa' = q /\ IsFrame(q)'
    BY <1>2, <2>1, <2>5
  <2> QED BY <2>8, <2>9 DEF FrameInv
<1> QED BY <1>3, <1>4

\* No other step is one of a running user thread's.
LEMMA FrameStep ==
  ASSUME TreeInv, UserInv, FrameInv, [Next]_vars
  PROVE  FrameInv'
<1>1. CASE MapUser
  BY <1>1, FramesTaken, FramesMapped
<1>2. ASSUME NEW junk \in Junk, CreateUserThread(junk) PROVE FrameInv'
  <2>1. pa' \in Junk /\ Junk' = Junk
    BY <1>2 DEF CreateUserThread, Junk
  <2> QED BY <2>1 DEF FrameInv
<1>3. CASE MapNext
  <2>1. stage # "running"
    <3> SUFFICES ASSUME stage = "running" PROVE FALSE
      OBVIOUS
    <3>1. todo \in Seq(Requests) /\ todo # <<>> /\ Head(todo) = todo[1]
      BY <1>3 DEF TreeInv, MapNext
    <3>2. Head(todo).user = TRUE
      BY <3>1 DEF UserInv, UserRequest, StackAsked, CodeAsked, UserMapped
    <3> QED BY <1>3, <3>2 DEF MapNext
  <2> QED BY <1>3, <2>1 DEF MapNext, FrameInv
<1>4. CASE UNCHANGED vars
  <2>1. \A v \in Pages : Path(v)' = Path(v)
    BY <1>4 DEF vars, Path
  <2>2. \A q : IsFrame(q)' <=> IsFrame(q)
    BY <1>4, <2>1 DEF vars, IsFrame, Own
  <2>3. Pte(UserCode)' = Pte(UserCode) /\ Pte(UserStack)' = Pte(UserStack) /\ Own' = Own /\ Junk' = Junk
    BY <1>4 DEF vars, Pte, Path, Own, Junk
  <2>4. (Framed(UserCode) => Framed(UserCode)') /\ (Framed(UserStack) => Framed(UserStack)')
    BY <2>2, <2>3 DEF Framed
  <2> QED BY <1>4, <2>2, <2>3, <2>4 DEF vars, FrameInv
<1>5. CASE \/ MapImage \/ MapTables \/ MapFrameBuffer \/ MapBackBuffer \/ SetWriteCombining \/ MapDevice \/ MapPool
           \/ (\E p \in Runtime : MapRuntime(p)) \/ (\E v \in Image : FinalizeKernelMapping(v))
  <2>1. stage' # "running"
    BY <1>5 DEF MapImage, MapTables, MapFrameBuffer, MapBackBuffer, SetWriteCombining, MapDevice, MapPool, MapRuntime,
                FinalizeKernelMapping, At, Go, Stay
  <2> QED BY <2>1 DEF FrameInv
<1> QED BY <1>1, <1>2, <1>3, <1>4, <1>5 DEF Next

\* The invariants say what UserPagesAreOwn asks.
LEMMA UserInvMeans == TreeInv /\ UserInv /\ FrameInv => UserPagesAreOwn
<1> SUFFICES ASSUME TreeInv, UserInv, FrameInv PROVE UserPagesAreOwn
  OBVIOUS
<1>1. PICK level : TablesOK /\ TreeOK(level)
  BY DEF TreeInv
<1>2. \A p \in Own : p # None /\ p # 0 /\ p \in Nat
  BY <1>1, SizeFacts DEF TablesOK, Own
<1>3. ASSUME NEW p, IsFrame(p) PROVE p \notin AllTables \cup {0}
  <2>1. \A l \in Levels : p \notin TablesAt(l)
    BY <1>3 DEF IsFrame, TablesAt
  <2>2. 1 \in Levels /\ 2 \in Levels /\ 3 \in Levels /\ 4 \in Levels
    BY DEF Levels
  <2> QED BY <1>2, <1>3, <2>1, <2>2 DEF AllTables, InnerTables, IsFrame
<1>4. /\ \A s : StackIs(s) => Translate(UserStack) = s
      /\ \A c : CodeIs(c) => Translate(UserCode) = c
      /\ Pte(UserStack) = None => Translate(UserStack) = None
      /\ Pte(UserCode) = None => Translate(UserCode) = None
  <2>1. \A s \in Nat : Entry(s, TRUE) # None /\ Entry(s, TRUE).present /\ Entry(s, TRUE).to = s
    BY EntryFacts
  <2> QED BY <1>2, <2>1 DEF StackIs, CodeIs, Translate
<1> DEFINE frames == {Translate(UserCode), Translate(UserStack)} \ {None}
<1>5. ASSUME Free # {}
      PROVE  frames \cap (AllTables \cup {0}) = {} /\ (Translate(UserCode) # None => Cardinality(frames) = 2)
  <2>1. CASE Pte(UserStack) = None /\ Pte(UserCode) = None
    BY <1>4, <2>1
  <2>2. CASE \E s : StackIs(s) /\ Pte(UserCode) = None
    BY <1>3, <1>4, <2>2 DEF StackIs
  <2>3. CASE \E s, c : StackIs(s) /\ CodeIs(c) /\ s # c
    <3>1. PICK s, c : StackIs(s) /\ CodeIs(c) /\ s # c
      BY <2>3
    <3>2. s # None /\ c # None
      BY <1>2, <3>1 DEF StackIs, CodeIs
    <3>3. frames = {s} \cup {c}
      BY <1>4, <3>1, <3>2
    <3>4. Cardinality({s} \cup {c}) = 2
      <4>1. IsFiniteSet({s}) /\ Cardinality({s}) = 1 /\ c \notin {s}
        BY <3>1, FS_Singleton
      <4> QED BY <4>1, FS_AddElement
    <3>5. s \notin AllTables \cup {0} /\ c \notin AllTables \cup {0}
      BY <1>3, <3>1 DEF StackIs, CodeIs
    <3> QED BY <3>3, <3>4, <3>5
  <2> QED BY <1>5, <2>1, <2>2, <2>3 DEF UserInv, StackAsked, CodeAsked, UserMapped
<1>7. ASSUME pa \notin Junk PROVE frames \cap (AllTables \cup {0}) = {}
  <2>1. ASSUME NEW v \in UserPages, Translate(v) # None PROVE IsFrame(Translate(v))
    <3>1. Pte(v) # None
      BY <2>1 DEF Translate
    <3>2. stage = "running"
      BY <3>1 DEF UserInv, UserPages
    <3>3. Framed(v)
      BY <1>7, <3>2 DEF FrameInv, UserPages
    <3>4. PICK p \in Own : IsFrame(p) /\ Pte(v) = Entry(p, TRUE)
      BY <3>1, <3>3 DEF Framed
    <3>5. Translate(v) = p
      BY <1>2, <3>1, <3>4, EntryFacts DEF Translate
    <3> QED BY <3>4, <3>5
  <2>2. UserCode \in UserPages /\ UserStack \in UserPages
    BY DEF UserPages
  <2> QED BY <1>3, <2>1, <2>2
<1>6. ASSUME NEW v \in UserPages, IsPagePresent(v), NEW l \in Levels
      PROVE  entry[Path(v)[l]][Index[v][l]].user
  <2>1. v \in Pages /\ OpenWay(v)
    BY UserFacts DEF UserPages, UserInv
  <2>2. Path(v)[4] # None /\ entry[Path(v)[4]][Index[v][4]] # None
    BY <1>6 DEF IsPagePresent, Pte
  <2>3. \A k \in 1..3 : Path(v)[k + 1] # None =>
          Path(v)[k] # None /\ entry[Path(v)[k]][Index[v][k]] # None
    BY <1>1, <2>1, PathFacts
  <2>4. 1 \in 1..3 /\ 2 \in 1..3 /\ 3 \in 1..3 /\ 1 + 1 = 2 /\ 2 + 1 = 3 /\ 3 + 1 = 4
    OBVIOUS
  <2>5. Path(v)[3] # None /\ entry[Path(v)[3]][Index[v][3]] # None
    BY <2>2, <2>3, <2>4
  <2>6. Path(v)[2] # None /\ entry[Path(v)[2]][Index[v][2]] # None
    BY <2>3, <2>4, <2>5
  <2>7. Path(v)[1] # None /\ entry[Path(v)[1]][Index[v][1]] # None
    BY <2>3, <2>4, <2>6
  <2>8. l = 1 \/ l = 2 \/ l = 3 \/ l = 4
    BY DEF Levels
  <2> QED BY <2>1, <2>2, <2>5, <2>6, <2>7, <2>8 DEF OpenWay
<1> HIDE DEF frames
<1> QED BY <1>5, <1>6, <1>7 DEF UserPagesAreOwn, frames, UserPages

(* Mappings.                                                                *)

\* The stages in which pages of a region may be mapped.
WithDevices  == {"devices", "runtime", "mapped", "finalize", "running"}
WithScreen == {"write combining", "panic"} \cup WithDevices
Begun == <<{"tables", "frame buffer", "back buffer"} \cup WithScreen, {"frame buffer", "back buffer"} \cup WithScreen,
           WithDevices, {"back buffer"} \cup WithScreen, {"mapped", "finalize", "running"},
           {"runtime", "mapped", "finalize", "running"}, WithScreen, {"running"}, {"running"}>>

RuntimePage(v) == 3 * Outside + (v - First(Uefi))

\* What is mapped, and what is asked for, is of regions that have been asked for; no page is asked for
\* twice, or while it is mapped to another one; runtime services lie where they are told.
RequestsNew ==
    /\ \A k \in DOMAIN todo : \E i \in 1..9 : todo[k].virt \in Region[i] /\ stage \in Begun[i]
    /\ \A j, k \in DOMAIN todo : todo[j].virt = todo[k].virt => j = k
    /\ \A k \in DOMAIN todo, v \in Pages : todo[k].virt = v /\ Translate(v) # None =>
         ~todo[k].user /\ Translate(v) = todo[k].phys
    /\ \A k \in DOMAIN todo, v \in Uefi : todo[k].virt = v => todo[k].phys = RuntimePage(v)

PtesBegun ==
    /\ \A v \in Pages : Pte(v) # None => \E i \in 1..9 : v \in Region[i] /\ stage \in Begun[i]
    /\ \A v \in Uefi : Translate(v) # None => Translate(v) = RuntimePage(v)

MappedInv == RequestsNew /\ PtesBegun

\* A later stage has all regions of an earlier one.
Onwards == \A i \in 1..9 : stage \in Begun[i] => stage' \in Begun[i]

\* A page lies in one region only.
LEMMA RegionsApart ==
  ASSUME NEW i \in 1..9, NEW j \in 1..9, NEW v, v \in Region[i], v \in Region[j]
  PROVE  i = j
BY PageTableAssumption

\* No page of a region is mapped before its stage.
LEMMA RegionUnmapped ==
  ASSUME PtesBegun, NEW i \in 1..9, stage \notin Begun[i], NEW v \in Region[i]
  PROVE  v \in Pages /\ Pte(v) = None /\ Translate(v) = None
<1>1. v \in Pages
  <2>1. Region[i] \in Regions
    BY DEF Regions
  <2> QED BY <2>1, RegionFacts
<1>2. Pte(v) = None
  <2> SUFFICES ASSUME Pte(v) # None PROVE FALSE
    OBVIOUS
  <2>1. PICK j \in 1..9 : v \in Region[j] /\ stage \in Begun[j]
    BY <1>1 DEF PtesBegun
  <2> QED BY <2>1, RegionsApart
<1> QED BY <1>1, <1>2 DEF Translate

\* Without new entries what is mapped stays mapped.
LEMMA PtesStay ==
  ASSUME PtesBegun, UNCHANGED entry, Onwards
  PROVE  PtesBegun' /\ \A v : Translate(v)' = Translate(v)
<1>1. \A v : Pte(v)' = Pte(v) /\ Translate(v)' = Translate(v)
  <2>1. \A v : Path(v)' = Path(v)
    BY DEF Path
  <2> QED BY <2>1 DEF Pte, Translate
<1> QED BY <1>1 DEF PtesBegun, Onwards, RuntimePage

\* A step that asks for nothing.
LEMMA NothingAsked ==
  ASSUME MappedInv, UNCHANGED entry, Onwards, todo' = <<>>
  PROVE  MappedInv'
<1>1. RequestsNew'
  BY DEF RequestsNew
<1> QED BY <1>1, PtesStay DEF MappedInv

\* A request of the kernel for pages of a region.
LEMMA Requested ==
  ASSUME MappedInv, UNCHANGED entry, Onwards, NEW i \in 1..7, stage' \in Begun[i],
         NEW virt \in Nat, NEW phys \in Nat, NEW n \in Nat, Request(virt, phys, n, FALSE),
         \A k \in 1..n : virt + k - 1 \in Region[i],
         \A k \in 1..n : Translate(virt + k - 1) # None => Translate(virt + k - 1) = phys + k - 1,
         i = 6 => phys = RuntimePage(virt)
  PROVE  MappedInv'
<1>1. ASSUME NEW k \in 1..n
      PROVE  /\ todo'[k].virt = virt + k - 1 /\ todo'[k].phys = phys + k - 1 /\ todo'[k].user = FALSE
             /\ virt + k - 1 \in Region[i]
  <2>1. virt + k - 1 \in KernelPages
    BY UserFacts
  <2>2. (virt + k - 1) % Space = virt + k - 1
    BY <2>1, UserFacts, Unwrapped
  <2>3. todo'[k] = [virt |-> (virt + k - 1) % Space, phys |-> phys + k - 1, user |-> FALSE]
    BY DEF Request
  <2>4. todo'[k].virt = (virt + k - 1) % Space /\ todo'[k].phys = phys + k - 1 /\ todo'[k].user = FALSE
    BY <2>3
  <2>5. virt + k - 1 \in Region[i]
    OBVIOUS
  <2> QED BY <2>2, <2>4, <2>5
<1>2. DOMAIN todo' = 1..n
  BY DEF Request
<1>3. i \in 1..9
  OBVIOUS
<1>4. \A v : Translate(v)' = Translate(v)
  BY PtesStay DEF MappedInv
<1>5. First(Uefi) \in Nat /\ Outside \in Nat /\ Region[6] = Uefi /\ 6 \in 1..9
  BY RegionNames, RegionFacts, PageTableAssumption DEF Region
<1>6. \A k \in DOMAIN todo' : \E j \in 1..9 : todo'[k].virt \in Region[j] /\ stage' \in Begun[j]
  BY <1>1, <1>2, <1>3
<1>7. \A j, k \in DOMAIN todo' : todo'[j].virt = todo'[k].virt => j = k
  <2> SUFFICES ASSUME NEW j \in 1..n, NEW k \in 1..n, todo'[j].virt = todo'[k].virt PROVE j = k
    BY <1>2
  <2>1. virt + j - 1 = virt + k - 1
    BY <1>1
  <2> QED BY <2>1
<1>8. ASSUME NEW k \in 1..n, NEW v, todo'[k].virt = v
      PROVE  /\ Translate(v)' # None => ~todo'[k].user /\ Translate(v)' = todo'[k].phys
             /\ v \in Uefi => todo'[k].phys = RuntimePage(v)
  <2>1. v = virt + k - 1 /\ Translate(v)' = Translate(v)
    BY <1>1, <1>4, <1>8
  <2>2. v \in Uefi => i = 6
    BY <1>1, <1>3, <1>5, <2>1, RegionsApart
  <2>3. i = 6 => phys + k - 1 = RuntimePage(v)
    BY <1>5, <2>1 DEF RuntimePage
  <2> QED BY <1>1, <2>1, <2>2, <2>3
<1>9. RequestsNew'
  <2>1. \A v : RuntimePage(v)' = RuntimePage(v)
    BY DEF RuntimePage
  <2>2. \A k \in DOMAIN todo', v \in Pages : todo'[k].virt = v /\ Translate(v)' # None =>
         ~todo'[k].user /\ Translate(v)' = todo'[k].phys
    BY <1>2, <1>8
  <2>3. \A k \in DOMAIN todo', v \in Uefi : todo'[k].virt = v => todo'[k].phys = RuntimePage(v)
    BY <1>2, <1>8
  <2> QED BY <1>6, <1>7, <2>1, <2>2, <2>3 DEF RequestsNew
<1> QED BY <1>9, PtesStay DEF MappedInv

\* What a step may change.
StableStep ==
    entry' # entry => \A v \in Pages : Translate(v)' # Translate(v) =>
         /\ \/ todo # <<>> /\ v = Head(todo).virt
            \/ stage' = "finalize" /\ v \in Image
         /\ Translate(v) = None \/ Translate(v)' = None

\* A step that enters nothing changes no translation.
LEMMA EntryStays ==
  ASSUME UNCHANGED entry
  PROVE  StableStep
<1>1. \A v : Translate(v)' = Translate(v)
  <2>1. \A v : Path(v)' = Path(v)
    BY DEF Path
  <2> QED BY <2>1 DEF Pte, Translate
<1> QED BY <1>1 DEF StableStep

\* The page that is asked for next is mapped, or not.
LEMMA HeadMapped ==
  ASSUME MappedInv, todo # <<>>, todo \in Seq(Requests), UNCHANGED stage, todo' = Tail(todo) \/ todo' = <<>>,
         NEW v \in Pages, v = Head(todo).virt, NEW phys \in Nat,
         \A w \in Pages : w # v => Pte(w)' = Pte(w) /\ Translate(w)' = Translate(w),
         Translate(v) \in {None, phys}, Translate(v)' \in {None, phys},
         v \in Uefi => phys = RuntimePage(v)
  PROVE  MappedInv' /\ StableStep
<1>1. StableStep
  BY DEF StableStep
<1>2. Head(todo) = todo[1] /\ 1 \in DOMAIN todo /\ Len(todo) \in Nat
  OBVIOUS
<1>3. \A w \in Pages : RuntimePage(w)' = RuntimePage(w)
  BY DEF RuntimePage
<1>4. PtesBegun'
  <2>1. ASSUME NEW w \in Pages, Pte(w)' # None
        PROVE  \E i \in 1..9 : w \in Region[i] /\ stage' \in Begun[i]
    <3>1. CASE w = v
      BY <1>2, <3>1 DEF MappedInv, RequestsNew
    <3>2. CASE w # v
      BY <2>1, <3>2 DEF MappedInv, PtesBegun
    <3> QED BY <3>1, <3>2
  <2>2. ASSUME NEW w \in Uefi, Translate(w)' # None PROVE Translate(w)' = RuntimePage(w)
    <3>1. w \in Pages
      BY RegionNames, RegionFacts
    <3> QED BY <2>2, <3>1 DEF MappedInv, PtesBegun
  <2>3. \A w \in Uefi : RuntimePage(w)' = RuntimePage(w)
    BY DEF RuntimePage
  <2> QED BY <2>1, <2>2, <2>3 DEF PtesBegun
<1>5. RequestsNew'
  <2>1. CASE todo' = <<>>
    BY <2>1 DEF RequestsNew
  <2>2. CASE todo' = Tail(todo)
    <3>1. DOMAIN todo' = 1..(Len(todo) - 1) /\ \A k \in 1..(Len(todo) - 1) : todo'[k] = todo[k + 1] /\ k + 1 \in DOMAIN todo
      BY <2>2
    <3>2. \A k \in DOMAIN todo' : todo[k + 1].virt # v /\ k + 1 \in DOMAIN todo
      <4> SUFFICES ASSUME NEW k \in DOMAIN todo', todo[k + 1].virt = v PROVE FALSE
        BY <3>1
      <4>1. k + 1 \in DOMAIN todo /\ k \in Nat \ {0}
        BY <3>1
      <4>2. k + 1 = 1
        BY <1>2, <4>1 DEF MappedInv, RequestsNew
      <4> QED BY <4>1, <4>2
    <3>3. \A k \in DOMAIN todo' : \E i \in 1..9 : todo'[k].virt \in Region[i] /\ stage' \in Begun[i]
      BY <3>1 DEF MappedInv, RequestsNew
    <3>4. \A j, k \in DOMAIN todo' : todo'[j].virt = todo'[k].virt => j = k
      <4> SUFFICES ASSUME NEW j \in DOMAIN todo', NEW k \in DOMAIN todo', todo'[j].virt = todo'[k].virt
                   PROVE  j = k
        OBVIOUS
      <4>1. j + 1 = k + 1
        BY <3>1 DEF MappedInv, RequestsNew
      <4> QED BY <3>1, <4>1
    <3>5. ASSUME NEW k \in DOMAIN todo', NEW w \in Pages, todo'[k].virt = w, Translate(w)' # None
          PROVE  ~todo'[k].user /\ Translate(w)' = todo'[k].phys
      <4>1. w # v /\ todo'[k] = todo[k + 1] /\ k + 1 \in DOMAIN todo
        BY <3>1, <3>2, <3>5
      <4> QED BY <3>5, <4>1 DEF MappedInv, RequestsNew
    <3>6. \A k \in DOMAIN todo', w \in Uefi : todo'[k].virt = w => todo'[k].phys = RuntimePage(w)
      BY <3>1 DEF MappedInv, RequestsNew
    <3>7. \A w \in Uefi : RuntimePage(w)' = RuntimePage(w)
      BY DEF RuntimePage
    <3> QED BY <3>3, <3>4, <3>5, <3>6, <3>7 DEF RequestsNew
  <2> QED BY <2>1, <2>2
<1> QED BY <1>1, <1>4, <1>5 DEF MappedInv

\* What an entry makes of the translation afterwards.
LEMMA PteTranslates ==
  /\ \A v \in Pages : Pte(v)' = Pte(v) => Translate(v)' = Translate(v)
  /\ \A v \in Pages, to \in Nat, user \in BOOLEAN : Pte(v)' = Entry(to, user) => Translate(v)' = to
  /\ \A v \in Pages : Pte(v)' = None => Translate(v)' = None
<1>1. \A to \in Nat, user \in BOOLEAN : Entry(to, user) # None /\ Entry(to, user).present /\ Entry(to, user).to = to
  BY EntryFacts
<1> QED BY <1>1 DEF Translate

\* MapPages maps the next page: it was not mapped, or to the same page.
LEMMA MappedMapNext ==
  ASSUME TreeInv, MappedInv, MapNext
  PROVE  MappedInv' /\ StableStep
<1>1. PICK level : TablesOK /\ TreeOK(level)
  BY DEF TreeInv
<1>2. todo # <<>> /\ todo \in Seq(Requests) /\ Head(todo) \in Requests /\ Head(todo) = todo[1] /\ 1 \in DOMAIN todo
  BY DEF MapNext, TreeInv
<1>3. PICK v : v = Head(todo).virt
  OBVIOUS
<1>4. PICK phys : phys = Head(todo).phys
  OBVIOUS
<1>5. v \in Pages /\ phys \in Nat /\ FALSE \in BOOLEAN
  BY <1>2, <1>3, <1>4 DEF Requests, MapNext
<1>6. MapPage(v, phys, FALSE) /\ UNCHANGED <<pages, stage>> /\ (todo' = Tail(todo) \/ todo' = <<>>)
  BY <1>3, <1>4 DEF MapNext
<1>7. /\ Pte(v)' = IF Full(v)[4] = None THEN None ELSE Entry(phys, FALSE)
      /\ \A w \in Pages : w # v => Pte(w)' = Pte(w)
  BY <1>1, <1>5, <1>6, MapPagePtes
<1>8. Translate(v)' \in {None, phys}
  BY <1>5, <1>7, PteTranslates
<1>9. \A w \in Pages : w # v => Pte(w)' = Pte(w) /\ Translate(w)' = Translate(w)
  BY <1>7, PteTranslates
<1>10. Translate(v) \in {None, phys} /\ (v \in Uefi => phys = RuntimePage(v))
  BY <1>2, <1>3, <1>4, <1>5 DEF MappedInv, RequestsNew
<1> QED BY <1>2, <1>3, <1>5, <1>6, <1>8, <1>9, <1>10, HeadMapped

\* The pages a user thread asks for.
LEMMA UserAsks ==
  ASSUME TreeInv, UserInv, todo # <<>>, Head(todo).user
  PROVE  /\ todo \in Seq(Requests) /\ Head(todo) \in Requests /\ Head(todo) = todo[1] /\ 1 \in DOMAIN todo
         /\ Head(todo).virt \in UserPages /\ Head(todo).virt \in Pages /\ Head(todo).virt \notin Uefi
         /\ stage = "running"
<1>1. todo \in Seq(Requests) /\ Head(todo) \in Requests /\ Head(todo) = todo[1] /\ 1 \in DOMAIN todo
  BY DEF TreeInv
<1>2. stage = "running"
  BY <1>1 DEF UserInv, KernelRequests
<1>3. \E x \in Nat \cup {None} : StackAsked(x) \/ CodeAsked(x)
  BY <1>2 DEF UserInv, UserMapped
<1>4. Head(todo).virt \in UserPages
  BY <1>3 DEF StackAsked, CodeAsked, UserRequest, UserPages
<1>5. Uefi \subseteq KernelPages
  <2>1. Region[6] = Uefi /\ 6 \in 1..7
    BY DEF Region
  <2> QED BY <2>1, UserFacts
<1> QED BY <1>1, <1>2, <1>4, <1>5, UserFacts DEF UserPages

\* CreateUserThread takes a page, or maps a page that was not mapped.
LEMMA MappedMapUser ==
  ASSUME TreeInv, UserInv, MappedInv, MapUser
  PROVE  MappedInv' /\ StableStep
<1>1. PICK level : TablesOK /\ TreeOK(level)
  BY DEF TreeInv
<1>2. /\ todo # <<>> /\ todo \in Seq(Requests) /\ Head(todo) \in Requests /\ Head(todo) = todo[1] /\ 1 \in DOMAIN todo
      /\ Head(todo).virt \in Pages /\ Head(todo).virt \notin Uefi /\ Head(todo).user
      /\ UNCHANGED <<pages, stage>>
  BY UserAsks DEF MapUser
<1>3. PICK v : v = Head(todo).virt
  OBVIOUS
<1>4. v \in Pages /\ v \notin Uefi /\ Translate(v) = None
  BY <1>2, <1>3 DEF MappedInv, RequestsNew
<1>5. CASE NeedsPage(Head(todo)) /\ Free # {}
  <2>1. UNCHANGED entry /\ todo' = [todo EXCEPT ![1].phys = Allocated(1)]
    BY <1>5 DEF MapUser
  <2>2. DOMAIN todo' = DOMAIN todo /\ \A k \in DOMAIN todo : k # 1 => todo'[k] = todo[k]
    BY <2>1
  <2>3. todo[1] \in [virt : Pages, phys : Nat \cup {None}, user : BOOLEAN]
    BY <1>2 DEF Requests
  <2>4. todo'[1].virt = todo[1].virt /\ todo'[1].user = todo[1].user
    BY <1>2, <2>1, <2>3
  <2>5. \A k \in DOMAIN todo : todo'[k].virt = todo[k].virt /\ todo'[k].user = todo[k].user
    BY <2>2, <2>4
  <2>6. Onwards
    BY <1>2 DEF Onwards
  <2>7. PtesBegun' /\ \A w : Translate(w)' = Translate(w)
    BY <2>1, <2>6, PtesStay DEF MappedInv
  <2>8. RequestsNew'
    <3>1. \A k \in DOMAIN todo' : \E i \in 1..9 : todo'[k].virt \in Region[i] /\ stage' \in Begun[i]
      BY <1>2, <2>2, <2>5 DEF MappedInv, RequestsNew
    <3>2. \A j, k \in DOMAIN todo' : todo'[j].virt = todo'[k].virt => j = k
      BY <2>2, <2>5 DEF MappedInv, RequestsNew
    <3>3. ASSUME NEW k \in DOMAIN todo', NEW w \in Pages, todo'[k].virt = w, Translate(w)' # None
          PROVE  ~todo'[k].user /\ Translate(w)' = todo'[k].phys
      <4>1. k # 1
        BY <1>2, <1>3, <1>4, <2>4, <2>7, <3>3
      <4> QED BY <2>2, <2>7, <3>3, <4>1 DEF MappedInv, RequestsNew
    <3>4. ASSUME NEW k \in DOMAIN todo', NEW w \in Uefi, todo'[k].virt = w PROVE todo'[k].phys = RuntimePage(w)
      <4>1. k # 1
        BY <1>2, <1>3, <1>4, <2>4, <3>4
      <4> QED BY <2>2, <3>4, <4>1 DEF MappedInv, RequestsNew
    <3>5. \A w \in Uefi : RuntimePage(w)' = RuntimePage(w)
      BY DEF RuntimePage
    <3> QED BY <3>1, <3>2, <3>3, <3>4, <3>5 DEF RequestsNew
  <2> QED BY <2>1, <2>7, <2>8, EntryStays DEF MappedInv
<1>6. CASE ~(NeedsPage(Head(todo)) /\ Free # {})
  <2>1. todo' = Tail(todo)
    BY <1>6 DEF MapUser
  <2>2. CASE pa = None
    <3>1. UNCHANGED entry
      BY <1>6, <2>2 DEF MapUser
    <3>2. \A w : Pte(w)' = Pte(w) /\ Translate(w)' = Translate(w)
      BY <3>1 DEF Translate, Pte, Path
    <3>3. Translate(v) \in {None, 0} /\ Translate(v)' \in {None, 0}
      BY <1>4, <3>2
    <3> QED BY <1>2, <1>3, <1>4, <2>1, <3>2, <3>3, HeadMapped
  <2>3. CASE pa # None
    <3>1. MapPage(v, pa, TRUE) /\ pa \in Nat /\ TRUE \in BOOLEAN
      BY <1>3, <1>6, <2>3 DEF MapUser, TreeInv
    <3>2. /\ Pte(v)' = IF Full(v)[4] = None THEN None ELSE Entry(pa, TRUE)
          /\ \A w \in Pages : w # v => Pte(w)' = Pte(w)
      BY <1>1, <1>2, <1>4, <3>1, MapPagePtes
    <3>3. Translate(v)' \in {None, pa} /\ Translate(v) \in {None, pa}
      BY <1>4, <3>1, <3>2, PteTranslates
    <3>4. \A w \in Pages : w # v => Pte(w)' = Pte(w) /\ Translate(w)' = Translate(w)
      BY <3>2, PteTranslates
    <3> QED BY <1>2, <1>3, <1>4, <2>1, <3>1, <3>3, <3>4, HeadMapped
  <2> QED BY <2>2, <2>3
<1> QED BY <1>5, <1>6

\* A request in a region: for one page that is free, or for pages of a region without any.
LEMMA MappedRequestIn ==
  ASSUME MappedInv, UNCHANGED entry, Onwards, NEW i \in 1..7, i # 6, stage' \in Begun[i], todo = <<>>,
         NEW phys \in Nat, NEW n \in Nat, RequestIn(Region[i], phys, n), n = 1 \/ stage \notin Begun[i]
  PROVE  MappedInv'
<1> DEFINE starts == RegionStart(Region[i], n)
<1>1. CASE starts = {}
  <2>1. todo' = <<>>
    BY <1>1 DEF RequestIn
  <2> QED BY <2>1, NothingAsked
<1>2. CASE starts # {}
  <2>1. starts \subseteq Region[i] /\ \A v \in starts : v + n - 1 \in Region[i] /\ ~IsPagePresent(v)
    BY DEF RegionStart
  <2>2. Region[i] \in Regions
    BY UserFacts
  <2>3. First(starts) \in starts
    <3>1. starts \subseteq Nat
      BY <2>1, <2>2, RegionFacts
    <3> HIDE DEF starts
    <3>2. \E v \in starts : \A w \in starts : v <= w
      BY <1>2, <3>1, LeastNatural
    <3> QED BY <3>2 DEF First
  <2>4. PICK v : v = First(starts)
    OBVIOUS
  <2>5. v \in Region[i] /\ v + n - 1 \in Region[i] /\ ~IsPagePresent(v)
    BY <2>1, <2>3, <2>4
  <2>6. v \in Nat
    BY <2>2, <2>5, RegionFacts
  <2>7. \A k \in 1..n : v + k - 1 \in Region[i]
    <3>1. \A k \in 1..n : (v + k - 1) % Space \in Region[i] /\ (v + k - 1) % Space = v + k - 1
      BY <2>2, <2>5, RegionRequest
    <3> QED BY <3>1
  <2>8. \A k \in 1..n : Translate(v + k - 1) = None
    <3>1. CASE n = 1
      <4>1. \A k \in 1..n : v + k - 1 = v
        BY <2>6, <3>1
      <4>2. Translate(v) = None
        BY <2>5 DEF IsPagePresent, Translate
      <4> QED BY <4>1, <4>2
    <3>2. CASE stage \notin Begun[i]
      <4>1. i \in 1..9
        OBVIOUS
      <4> QED BY <2>7, <3>2, <4>1, RegionUnmapped DEF MappedInv
    <3> QED BY <3>1, <3>2
  <2>9. Request(v, phys, n, FALSE)
    BY <1>2, <2>4 DEF RequestIn
  <2> QED BY <2>6, <2>7, <2>8, <2>9, Requested
<1> QED BY <1>1, <1>2

\* The stages of the regions, one by one.
LEMMA BegunIs ==
  /\ Begun[1] = {"tables", "frame buffer", "back buffer"} \cup WithScreen
  /\ Begun[2] = {"frame buffer", "back buffer"} \cup WithScreen
  /\ Begun[3] = WithDevices /\ Begun[4] = {"back buffer"} \cup WithScreen
  /\ Begun[5] = {"mapped", "finalize", "running"} /\ Begun[6] = {"runtime", "mapped", "finalize", "running"}
  /\ Begun[7] = WithScreen /\ Begun[8] = {"running"} /\ Begun[9] = {"running"}
BY DEF Begun

\* There are nine regions.
LEMMA Nine == \A i \in 1..9 : i = 1 \/ i = 2 \/ i = 3 \/ i = 4 \/ i = 5 \/ i = 6 \/ i = 7 \/ i = 8 \/ i = 9
OBVIOUS

\* OsInitialize goes through its stages in order.
LEMMA StagesGoOn ==
  ASSUME \/ stage' = stage
         \/ stage = "image" /\ stage' = "tables"
         \/ stage = "tables" /\ stage' = "frame buffer"
         \/ stage = "frame buffer" /\ stage' = "back buffer"
         \/ stage = "back buffer" /\ stage' = "write combining"
         \/ stage = "write combining" /\ stage' \in {"devices", "panic"}
         \/ stage = "devices" /\ stage' \in {"runtime", "mapped"}
         \/ stage = "runtime" /\ stage' = "mapped"
         \/ stage \in {"mapped", "finalize"} /\ stage' \in {"finalize", "running"}
  PROVE  Onwards
<1>2. ASSUME NEW i \in 1..9, stage \in Begun[i] PROVE stage' \in Begun[i]
  <2>1. CASE i = 1
    BY <1>2, <2>1, BegunIs DEF WithScreen, WithDevices
  <2>2. CASE i = 2
    BY <1>2, <2>2, BegunIs DEF WithScreen, WithDevices
  <2>3. CASE i = 3
    BY <1>2, <2>3, BegunIs DEF WithScreen, WithDevices
  <2>4. CASE i = 4
    BY <1>2, <2>4, BegunIs DEF WithScreen, WithDevices
  <2>5. CASE i = 5
    BY <1>2, <2>5, BegunIs
  <2>6. CASE i = 6
    BY <1>2, <2>6, BegunIs
  <2>7. CASE i = 7
    BY <1>2, <2>7, BegunIs DEF WithScreen, WithDevices
  <2>8. CASE i = 8 \/ i = 9
    BY <1>2, <2>8, BegunIs
  <2> QED BY Nine, <2>1, <2>2, <2>3, <2>4, <2>5, <2>6, <2>7, <2>8
<1> QED BY <1>2 DEF Onwards

\* At first nothing is mapped or asked for.
LEMMA MappedInit == Init => MappedInv
<1> SUFFICES ASSUME Init PROVE MappedInv
  OBVIOUS
<1>1. \A v \in Pages : Pte(v) = None
  BY InitIsEmpty
<1>2. todo = <<>>
  BY DEF Init
<1>3. Uefi \subseteq Pages
  BY RegionNames, RegionFacts
<1> QED BY <1>1, <1>2, <1>3 DEF MappedInv, RequestsNew, PtesBegun, Translate

\* The third part of the invariant is kept by every step, and no step replaces a mapping.
LEMMA MappedStep ==
  ASSUME RuntimeFits, TreeInv, UserInv, MappedInv, [Next]_vars
  PROVE  MappedInv' /\ StableStep
<1>1. TreeInv'
  BY TreeStep
<1>2. /\ Region[1] = Image /\ Region[2] = KernelPt /\ Region[3] = Devices /\ Region[4] = FrameBuffer
      /\ Region[5] = KernelPool /\ Region[6] = Uefi /\ Region[7] = BackBuffer
      /\ Region[8] = {UserCode} /\ Region[9] = {UserStack}
  BY DEF Region
<1>3. Outside \in Nat /\ count \in Nat
  BY PageTableAssumption DEF TreeInv
<1>a. 1 \in 1..7 /\ 2 \in 1..7 /\ 5 \in 1..7 /\ 6 \in 1..7 /\ 1 # 6 /\ 2 # 6 /\ 5 # 6 /\ 1 \in Nat /\ 0 \in Nat
  OBVIOUS
<1>4. CASE MapNext
  BY <1>4, MappedMapNext
<1>5. CASE MapImage
  <2>1. Onwards /\ stage' \in Begun[1] /\ stage \notin Begun[1]
    BY <1>5, StagesGoOn, BegunIs DEF MapImage, At, Go, WithScreen, WithDevices
  <2>2. UNCHANGED entry /\ Request(First(Image), Outside, Cardinality(Image), FALSE)
    BY <1>5 DEF MapImage, Tables
  <2>3. \A k \in 1..Cardinality(Image) : First(Image) + k - 1 \in Region[1]
    BY <1>2, RegionNames, RegionFacts
  <2>4. \A k \in 1..Cardinality(Image) : Translate(First(Image) + k - 1) = None
    BY <2>1, <2>3, RegionUnmapped DEF MappedInv
  <2>5. First(Image) \in Nat /\ Cardinality(Image) \in Nat
    BY RegionNames, RegionFacts
  <2>6. MappedInv'
    BY <1>3, <1>a, <2>1, <2>2, <2>3, <2>4, <2>5, Requested
  <2> QED BY <2>2, <2>6, EntryStays
<1>6. CASE MapTables
  <2>1. Onwards /\ stage' \in Begun[2] /\ stage \notin Begun[2]
    BY <1>6, StagesGoOn, BegunIs DEF MapTables, At, Go, WithScreen, WithDevices
  <2>2. UNCHANGED entry /\ Request(First(KernelPt), 0, pages, FALSE)
    BY <1>6 DEF MapTables, Tables
  <2>3. \A k \in 1..pages : First(KernelPt) + k - 1 \in Region[2]
    BY <1>2, PoolIsMapped
  <2>4. \A k \in 1..pages : Translate(First(KernelPt) + k - 1) = None
    BY <2>1, <2>3, RegionUnmapped DEF MappedInv
  <2>5. MappedInv'
    BY <1>a, <2>1, <2>2, <2>3, <2>4, PoolIsMapped, Requested
  <2> QED BY <2>2, <2>5, EntryStays
<1>7. CASE MapFrameBuffer
  <2>1. Onwards /\ stage' \in Begun[4] /\ stage \notin Begun[4]
    BY <1>7, StagesGoOn, BegunIs DEF MapFrameBuffer, At, Go, WithScreen, WithDevices
  <2>2. Outside + First(FrameBuffer) \in Nat /\ Cardinality(FrameBuffer) \in Nat
    BY RegionNames, RegionNumbers
  <2>3. UNCHANGED entry /\ todo = <<>> /\ RequestIn(Region[4], Outside + First(FrameBuffer), Cardinality(FrameBuffer))
    BY <1>2, <1>7 DEF MapFrameBuffer, Tables, At
  <2>4. MappedInv'
    BY <2>1, <2>2, <2>3, MappedRequestIn
  <2> QED BY <2>3, <2>4, EntryStays
<1>8. CASE MapBackBuffer
  <2>1. Onwards /\ stage' \in Begun[7] /\ stage \notin Begun[7]
    BY <1>8, StagesGoOn, BegunIs DEF MapBackBuffer, At, Go, WithScreen, WithDevices
  <2>2. Outside + First(BackBuffer) \in Nat /\ Cardinality(BackBuffer) \in Nat
    BY RegionNames, RegionNumbers
  <2>3. UNCHANGED entry /\ todo = <<>> /\ RequestIn(Region[7], Outside + First(BackBuffer), Cardinality(BackBuffer))
    BY <1>2, <1>8 DEF MapBackBuffer, Tables, At
  <2>4. MappedInv'
    BY <2>1, <2>2, <2>3, MappedRequestIn
  <2> QED BY <2>3, <2>4, EntryStays
<1>9. CASE SetWriteCombining
  <2>1. Onwards
    BY <1>9, StagesGoOn DEF SetWriteCombining, At, Go
  <2>2. UNCHANGED entry /\ todo' = <<>>
    BY <1>9 DEF SetWriteCombining, Tables, At
  <2> QED BY <2>1, <2>2, NothingAsked, EntryStays
<1>10. CASE MapDevice
  <2>1. Onwards /\ stage' \in Begun[3]
    BY <1>10, StagesGoOn, BegunIs DEF MapDevice, At, Stay, WithDevices
  <2>2. 2 * Outside + count \in Nat
    BY <1>3
  <2>3. UNCHANGED entry /\ todo = <<>> /\ RequestIn(Region[3], 2 * Outside + count, 1)
    BY <1>2, <1>10 DEF MapDevice, Tables, At
  <2>4. MappedInv'
    BY <2>1, <2>2, <2>3, MappedRequestIn
  <2> QED BY <2>3, <2>4, EntryStays
<1>11. CASE MapPool
  <2>1. Onwards /\ stage' \in Begun[5] /\ stage \notin Begun[5]
    BY <1>11, StagesGoOn, BegunIs DEF MapPool, At, Go
  <2>2. UNCHANGED entry
        /\ Request(First(KernelPool), Outside + First(KernelPool), Cardinality(KernelPool), FALSE)
    BY <1>11 DEF MapPool, Tables
  <2>3. \A k \in 1..Cardinality(KernelPool) : First(KernelPool) + k - 1 \in Region[5]
    BY <1>2, RegionNames, RegionFacts
  <2>4. \A k \in 1..Cardinality(KernelPool) : Translate(First(KernelPool) + k - 1) = None
    BY <2>1, <2>3, RegionUnmapped DEF MappedInv
  <2>5. First(KernelPool) \in Nat /\ Outside + First(KernelPool) \in Nat /\ Cardinality(KernelPool) \in Nat
    BY RegionNames, RegionNumbers
  <2>6. MappedInv'
    BY <1>a, <2>1, <2>2, <2>3, <2>4, <2>5, Requested
  <2> QED BY <2>2, <2>6, EntryStays
<1>12. ASSUME NEW p \in Runtime, MapRuntime(p) PROVE MappedInv' /\ StableStep
  <2>1. Onwards /\ stage' \in Begun[6]
    BY <1>12, StagesGoOn, BegunIs DEF MapRuntime, At, Go, Stay
  <2>2. PICK v : v = First(Uefi) + p
    OBVIOUS
  <2>3. v \in Uefi /\ v \in Nat /\ p \in Nat /\ First(Uefi) \in Nat /\ 3 * Outside + p \in Nat
    BY <1>3, <2>2, PageTableAssumption, RegionNames, RegionFacts DEF RuntimeFits
  <2>4. RuntimePage(v) = 3 * Outside + p
    BY <1>3, <2>2, <2>3 DEF RuntimePage
  <2>5. UNCHANGED entry /\ Request(v, 3 * Outside + p, 1, FALSE)
    BY <1>12, <2>2 DEF MapRuntime, Tables
  <2>6. \A k \in 1..1 : v + k - 1 = v /\ (3 * Outside + p) + k - 1 = 3 * Outside + p
    BY <1>3, <2>3
  <2>7. \A k \in 1..1 : /\ v + k - 1 \in Region[6]
                        /\ Translate(v + k - 1) # None => Translate(v + k - 1) = (3 * Outside + p) + k - 1
    BY <1>2, <2>3, <2>4, <2>6 DEF MappedInv, PtesBegun
  <2>8. MappedInv'
    BY <1>a, <2>1, <2>3, <2>4, <2>5, <2>7, Requested
  <2> QED BY <2>5, <2>8, EntryStays
<1>13. ASSUME NEW v \in Image, FinalizeKernelMapping(v) PROVE MappedInv' /\ StableStep
  <2>1. Onwards /\ stage' = "finalize" /\ stage' \in Begun[1] /\ todo = <<>> /\ todo' = <<>>
    BY <1>13, StagesGoOn, BegunIs DEF FinalizeKernelMapping, At, Go, WithScreen, WithDevices
  <2>2. v \in Pages /\ v \in Region[1] /\ Uefi \subseteq Pages
    BY <1>2, RegionNames, RegionFacts
  <2>3. UnmapPage(v)
    BY <1>13 DEF FinalizeKernelMapping
  <2>4. (\A w \in Pages : w # v => Pte(w)' = Pte(w)) /\ Pte(v)' = [Pte(v) EXCEPT !.present = FALSE]
    BY <1>1, <2>2, <2>3, UnmapPaths
  <2>5. Translate(v)' = None
    <3>1. Pte(v) \in Ptes
      <4>1. PICK level : TablesOK /\ TreeOK(level)
        BY DEF TreeInv
      <4>2. Path(v)[4] # None /\ entry[Path(v)[4]][Index[v][4]] # None /\ 4 \in Levels
        BY <2>3 DEF UnmapPage, Pte, Levels
      <4>3. Path(v)[4] \in Own /\ Index[v][4] \in Entries
        BY <2>2, <4>1, <4>2, PathFacts, IndexFacts
      <4> QED BY <4>1, <4>2, <4>3 DEF Pte, TablesOK
    <3>2. Pte(v)'.present = FALSE
      BY <2>4, <3>1 DEF Ptes
    <3> QED BY <3>2 DEF Translate
  <2>6. \A w \in Pages : w # v => Translate(w)' = Translate(w)
    BY <2>4, PteTranslates
  <2>7. StableStep
    BY <1>13, <2>1, <2>5, <2>6 DEF StableStep
  <2>8. RequestsNew'
    BY <2>1 DEF RequestsNew
  <2>9. PtesBegun'
    <3>1. ASSUME NEW w \in Pages, Pte(w)' # None
          PROVE  \E i \in 1..9 : w \in Region[i] /\ stage' \in Begun[i]
      <4>1. CASE w = v
        <5>1. 1 \in 1..9
          OBVIOUS
        <5> QED BY <2>1, <2>2, <4>1, <5>1
      <4>2. CASE w # v
        BY <2>1, <2>4, <3>1, <4>2 DEF MappedInv, PtesBegun, Onwards
      <4> QED BY <4>1, <4>2
    <3>2. ASSUME NEW w \in Uefi, Translate(w)' # None PROVE Translate(w)' = RuntimePage(w)
      BY <2>2, <2>5, <2>6, <3>2 DEF MappedInv, PtesBegun
    <3>3. \A w \in Uefi : RuntimePage(w)' = RuntimePage(w)
      BY DEF RuntimePage
    <3> QED BY <3>1, <3>2, <3>3 DEF PtesBegun
  <2> QED BY <2>7, <2>8, <2>9 DEF MappedInv
<1>14. ASSUME NEW junk \in Junk, CreateUserThread(junk) PROVE MappedInv' /\ StableStep
  <2>1. /\ Onwards /\ stage' = "running" /\ stage # "running" /\ stage \notin Begun[8] /\ stage \notin Begun[9]
        /\ stage' \in Begun[8] /\ stage' \in Begun[9] /\ UNCHANGED entry
    BY <1>14, StagesGoOn, BegunIs DEF CreateUserThread, At, Go, Tables
  <2>2. todo' = <<UserRequest(UserStack, None), UserRequest(UserCode, None)>>
    BY <1>14 DEF CreateUserThread, UserRequest
  <2>3. /\ DOMAIN todo' = 1..2 /\ todo'[1].virt = UserStack /\ todo'[2].virt = UserCode
    BY <2>2 DEF UserRequest
  <2>4. PtesBegun' /\ \A w : Translate(w)' = Translate(w)
    BY <2>1, PtesStay DEF MappedInv
  <2>5. 8 \in 1..9 /\ 9 \in 1..9 /\ 6 \in 1..7
    OBVIOUS
  <2>6. Translate(UserCode) = None /\ Translate(UserStack) = None
    BY <1>2, <2>1, <2>5, RegionUnmapped DEF MappedInv
  <2>7. UserCode # UserStack /\ UserCode \notin Uefi /\ UserStack \notin Uefi
    BY <1>2, <2>5, UserFacts
  <2>8. \A k \in DOMAIN todo' : k = 1 \/ k = 2
    BY <2>3
  <2>9. \A k \in DOMAIN todo' : \E i \in 1..9 : todo'[k].virt \in Region[i] /\ stage' \in Begun[i]
    BY <1>2, <2>1, <2>3, <2>5, <2>8
  <2>10. \A j, k \in DOMAIN todo' : todo'[j].virt = todo'[k].virt => j = k
    BY <2>3, <2>7, <2>8
  <2>11. \A k \in DOMAIN todo', v \in Pages : todo'[k].virt = v /\ Translate(v)' # None =>
           ~todo'[k].user /\ Translate(v)' = todo'[k].phys
    BY <2>3, <2>4, <2>6, <2>8
  <2>12. \A k \in DOMAIN todo', v \in Uefi : todo'[k].virt = v => todo'[k].phys = RuntimePage(v)'
    BY <2>3, <2>7, <2>8
  <2>13. RequestsNew'
    BY <2>9, <2>10, <2>11, <2>12 DEF RequestsNew
  <2> QED BY <2>1, <2>4, <2>13, EntryStays DEF MappedInv
<1>15. CASE MapUser
  BY <1>15, MappedMapUser
<1>16. CASE UNCHANGED vars
  <2>1. UNCHANGED <<entry, todo, stage>> /\ Onwards
    BY <1>16, StagesGoOn DEF vars
  <2>2. PtesBegun' /\ \A w : Translate(w)' = Translate(w)
    BY <2>1, PtesStay DEF MappedInv
  <2>3. \A v : RuntimePage(v)' = RuntimePage(v)
    BY DEF RuntimePage
  <2>4. RequestsNew'
    BY <2>1, <2>2, <2>3 DEF MappedInv, RequestsNew
  <2> QED BY <2>1, <2>2, <2>4, EntryStays DEF MappedInv
<1> QED BY <1>4, <1>5, <1>6, <1>7, <1>8, <1>9, <1>10, <1>11, <1>12, <1>13, <1>14, <1>15, <1>16 DEF Next

(* The theorems.                                                            *)

\* What a pool begins with, when it is chosen: no page is mapped or asked for.
LEMMA PoolIsEmpty ==
  ASSUME Init, pages' \in PoolSizes, entry' = [p \in 1..(pages' - 1) |-> [i \in 0..(Fanout - 1) |-> None]],
         UNCHANGED <<present, todo, ok, stage, count, pa>>
  PROVE  TreeInv' /\ UserInv' /\ FrameInv' /\ MappedInv' /\ StableStep
<1>1. present' = {0, Root} /\ todo' = <<>> /\ stage' = "image" /\ count' = 0 /\ pa' = None
  BY DEF Init
<1>2. TablesOK' /\ \E level : TreeOK(level)'
  BY <1>1, EmptyPool
<1>3. TreeInv'
  BY <1>1, <1>2 DEF TreeInv
<1>4. \A u \in Pages : OpenWay(u)' /\ Pte(u)' = None
  <2>1. EmptyOK'
    BY EmptyIsOK, PTL
  <2>2. \A p \in Own', i \in Entries : entry'[p][i] = None
    BY DEF Own, Entries
  <2> QED BY <1>2, <2>1, <2>2 DEF EmptyOK
<1>5. UserInv'
  <2>1. KernelRequests'
    BY <1>1 DEF KernelRequests
  <2> QED BY <1>1, <1>4, <2>1, UserFacts DEF UserInv
<1>6. \A u \in Pages : Translate(u)' = None
  BY <1>4, PteTranslates
<1>7. \A u \in Pages : Translate(u) = None
  BY InitIsEmpty DEF Translate
<1>8. MappedInv'
  <2>1. Uefi \subseteq Pages
    BY RegionNames, RegionFacts
  <2>2. PtesBegun'
    BY <1>4, <1>6, <2>1 DEF PtesBegun
  <2>3. RequestsNew'
    BY <1>1 DEF RequestsNew
  <2> QED BY <2>2, <2>3 DEF MappedInv
<1>9. StableStep
  BY <1>6, <1>7 DEF StableStep
<1>10. FrameInv'
  BY <1>1 DEF FrameInv
<1> QED BY <1>3, <1>5, <1>8, <1>9, <1>10

\* UserPagesAreOwn, when runtime services lie where there is room for them: CreateUserThread takes
\* pages that are no tables, for pages that nobody has mapped, and no request of OsInitialize comes
\* near them or their way from the root.
THEOREM UserPagesAreAlwaysOwn ==
  ASSUME RuntimeFits
  PROVE  Spec => []UserPagesAreOwn
<1>1. TreeInv /\ UserInv /\ FrameInv /\ [Next]_vars => (TreeInv /\ UserInv /\ FrameInv)'
  BY TreeStep, UserStep, FrameStep
<1>2. Init => FrameInv
  BY DEF Init, FrameInv
<1>3. Spec => [](TreeInv /\ UserInv /\ FrameInv)
  BY <1>1, <1>2, TreeInit, UserInit, PTL DEF Spec
<1> QED BY <1>3, UserInvMeans, PTL

\* MappingsAreStable, on the same condition: every region is asked for once, but for the runtime
\* services', each of which has its own page, and the devices', of which a free page is looked for.
THEOREM MappingsStayStable ==
  ASSUME RuntimeFits
  PROVE  Spec => MappingsAreStable
<1> DEFINE PagesInv == TreeInv /\ UserInv /\ MappedInv
<1>1. Init => PagesInv
  BY TreeInit, UserInit, MappedInit
<1>2. PagesInv /\ [Next]_vars => PagesInv' /\ StableStep
  BY TreeStep, UserStep, MappedStep
<1> HIDE DEF PagesInv
<1>3. Spec => [][StableStep]_vars
  BY <1>1, <1>2, PTL DEF Spec
<1> QED BY <1>3 DEF MappingsAreStable, StableStep

(* Loader.                                                                  *)

\* From which step on what is true, until the loader returns or halts.
Ended   == {"returned", "halted"}
Late    == {"exit", "get again", "exit again", "address map", "kernel"}
Mapped  == {"close", "size", "buffer", "get", "initializers"} \cup Late
Drawn   == {"map", "mapping"} \cup Mapped
Informed   == {"graphics", "back buffer"} \cup Drawn
Loaded  == {"xsdt", "acpi"} \cup Informed
Valid   == {"sections"} \cup Loaded
Open    == {"headers"} \cup Valid
Pooled  == {"volume"} \cup Open
Tabled  == {"pool"} \cup Pooled
Staged  == {"kernel tables"} \cup Tabled
Blocked == {"boot tables"} \cup Staged

\* The loader's steps, one after the other.
Moves ==
    {<<"start", "boot tables">>, <<"boot tables", "kernel tables">>, <<"kernel tables", "pool">>,
     <<"pool", "volume">>, <<"volume", "headers">>, <<"headers", "sections">>, <<"sections", "sections">>,
     <<"sections", "xsdt">>, <<"xsdt", "acpi">>, <<"acpi", "acpi">>, <<"acpi", "graphics">>,
     <<"graphics", "back buffer">>, <<"back buffer", "map">>, <<"map", "mapping">>, <<"mapping", "close">>,
     <<"close", "size">>, <<"size", "buffer">>, <<"buffer", "get">>, <<"get", "initializers">>,
     <<"initializers", "initializers">>, <<"initializers", "exit">>, <<"exit", "get again">>,
     <<"exit", "address map">>, <<"get again", "exit again">>, <<"exit again", "address map">>,
     <<"address map", "kernel">>}

\* A step of Boot is one of Loader's, or leaves its variables alone.
LEMMA LoaderSteps ==
  ASSUME NextBoot
  PROVE  Loading!Next \/ UNCHANGED Loading!vars
BY DEF NextBoot, BootLoader, HandingOff, ChoosePool, Mapping, loader, Loading!vars, Loading!loading, Loading!acpi

\* ReadTable, kind by kind.
LEMMA ReadTableCase ==
  ASSUME NEW t \in AcpiTables, Loading!ReadTable(t)
  PROVE /\ at = "acpi" /\ tables' = Append(tables, t)
        /\ t.signature = "madt" => block' = [block EXCEPT !.madt = t.id]
        /\ t.signature = "fadt" => block' = [block EXCEPT !.i8042 = Loading!Has8042(t)]
        /\ t.signature = "hpet" => block' = [block EXCEPT !.hpet = t.id]
        /\ t.signature \notin {"madt", "fadt", "hpet"} => block' = block
        /\ (fadt' = (fadt \/ t.signature = "fadt"))
        /\ UNCHANGED <<at, leaving, areas, file, section, image, wp, upper, ran>>
BY DEF Loading!ReadTable, Loading!loading

\* What is changed by a few actions only.
LEMMA Stays ==
  ASSUME Loading!Next
  PROVE  /\ ~Loading!AllocateBlock /\ ~Loading!AllocateArea => UNCHANGED areas
         /\ ~Loading!OpenFile => UNCHANGED file
         /\ ~Loading!OpenFile /\ ~Loading!ReadSection /\ ~Loading!LoadKernel /\ ~Loading!RunInitializers =>
              UNCHANGED section
         /\ ~Loading!ReadHeaders /\ ~Loading!ReadSection /\ ~Loading!LoadKernel => UNCHANGED image
         /\ (\A t \in AcpiTables : ~Loading!ReadTable(t)) => UNCHANGED <<tables, fadt>>
         /\ ~Loading!AllocateBlock /\ ~Loading!LoadKernel /\ (\A t \in AcpiTables : ~Loading!ReadTable(t)) =>
              UNCHANGED block
         /\ ~Loading!MapKernel /\ ~Loading!MapPages => UNCHANGED <<wp, upper>>
         /\ ~Loading!LeaveBootServices => UNCHANGED leaving
         /\ ~Loading!RunInitializers => UNCHANGED ran
BY ReadTableCase DEF Loading!Next, Loading!Check, Loading!Go, Loading!Fail, Loading!ReadSection, Loading!LocateXsdt,
 Loading!LocateGraphics, Loading!CloseFiles, Loading!AskSize, Loading!AllocateBuffer, Loading!GetMap, Loading!GetMapAgain,
 Loading!ExitAgain, Loading!SetVirtualAddressMap, Loading!RunInitializers, Loading!ExitBootServices,
 Loading!AllocateBlock, Loading!AllocateArea, Loading!Allocate, Loading!OpenFile, Loading!ReadHeaders, Loading!LoadKernel, Loading!AcpiInitialize,
 Loading!MapKernel, Loading!MapPages, Loading!LeaveBootServices, Loading!loading, Loading!acpi


\* A step is a move, or the way out after a failure, for which the mapping of the
\* kernel leaves no room.
LEMMA Going ==
  ASSUME Loading!Next
  PROVE  \/ at \notin Ended \cup {"mapping"} /\ at' = Loading!Failed
         \/ <<at, at'>> \in Moves
<1> USE DEF Ended, Moves, Loading!Go, Loading!Fail
<1>1. CASE Loading!AllocateBlock \/ Loading!AllocateArea
  BY <1>1 DEF Loading!AllocateBlock, Loading!AllocateArea, Loading!Allocate
<1>2. CASE Loading!OpenFile \/ Loading!ReadHeaders \/ Loading!ReadSection \/ Loading!LoadKernel
  BY <1>2 DEF Loading!OpenFile, Loading!ReadHeaders, Loading!ReadSection, Loading!LoadKernel
<1>3. CASE Loading!LocateXsdt \/ Loading!LocateGraphics \/ Loading!CloseFiles \/ Loading!AskSize
           \/ Loading!AllocateBuffer \/ Loading!GetMap
  BY <1>3 DEF Loading!Check, Loading!LocateXsdt, Loading!LocateGraphics, Loading!CloseFiles,
              Loading!AskSize, Loading!AllocateBuffer, Loading!GetMap
<1>4. CASE \E t \in AcpiTables : Loading!ReadTable(t)
  BY <1>4, ReadTableCase
<1>5. CASE Loading!AcpiInitialize \/ Loading!MapKernel \/ Loading!MapPages
  BY <1>5 DEF Loading!AcpiInitialize, Loading!MapKernel, Loading!MapPages
<1>6. CASE Loading!RunInitializers \/ Loading!LeaveBootServices \/ Loading!ExitBootServices
  BY <1>6 DEF Loading!RunInitializers, Loading!LeaveBootServices, Loading!ExitBootServices
<1>7. CASE Loading!GetMapAgain \/ Loading!ExitAgain \/ Loading!SetVirtualAddressMap
  BY <1>7 DEF Loading!Check, Loading!GetMapAgain, Loading!ExitAgain, Loading!SetVirtualAddressMap
<1> QED BY <1>1, <1>2, <1>3, <1>4, <1>5, <1>6, <1>7 DEF Loading!Next

\* The steps that loop.
LEMMA Inside ==
  ASSUME Loading!Next
  PROVE  /\ at = "sections" => Loading!ReadSection \/ Loading!LoadKernel
         /\ at = "acpi" => (\E t \in AcpiTables : Loading!ReadTable(t)) \/ Loading!AcpiInitialize
         /\ at = "initializers" => Loading!RunInitializers \/ Loading!LeaveBootServices
BY ReadTableCase
   DEF Loading!Next, Loading!Check, Loading!ReadSection, Loading!LocateXsdt, Loading!LocateGraphics,
       Loading!CloseFiles, Loading!AskSize, Loading!AllocateBuffer, Loading!GetMap, Loading!GetMapAgain,
       Loading!ExitAgain, Loading!SetVirtualAddressMap, Loading!RunInitializers, Loading!ExitBootServices,
       Loading!AllocateBlock, Loading!AllocateArea, Loading!Allocate, Loading!OpenFile, Loading!ReadHeaders,
       Loading!LoadKernel, Loading!AcpiInitialize, Loading!MapKernel, Loading!MapPages,
       Loading!LeaveBootServices, Loading!Go, Loading!Fail, Loading!Failed

\* What a step brings about is done by the action that is named for it.
LEMMA Entering ==
  ASSUME Loading!Next
  PROVE  /\ at' \in Blocked /\ at \notin Blocked => Loading!AllocateBlock
         /\ \A H \in {Staged, Tabled, Pooled, Drawn} : at' \in H /\ at \notin H => Loading!AllocateArea
         /\ at' \in Open /\ at \notin Open => Loading!OpenFile
         /\ at' \in Valid /\ at \notin Valid => Loading!ReadHeaders
         /\ at' \in Loaded /\ at \notin Loaded => Loading!LoadKernel
         /\ at' \in Informed /\ at \notin Informed => Loading!AcpiInitialize
         /\ at' = "mapping" => Loading!MapKernel
         /\ at = "mapping" => Loading!MapPages
         /\ at' \in Mapped /\ at \notin Mapped => Loading!MapPages
         /\ at' \in Late /\ at \notin Late => Loading!LeaveBootServices
<1> USE DEF Loading!Go, Loading!Fail, Loading!Failed
<1>1. /\ at = "start" => Loading!AllocateBlock
      /\ at \in {"boot tables", "kernel tables", "pool", "back buffer"} => Loading!AllocateArea
      /\ at = "volume" => Loading!OpenFile
      /\ at = "headers" => Loading!ReadHeaders
      /\ at = "sections" => Loading!ReadSection \/ Loading!LoadKernel
      /\ at = "acpi" => (\E t \in AcpiTables : Loading!ReadTable(t)) \/ Loading!AcpiInitialize
      /\ at = "map" => Loading!MapKernel
      /\ at = "mapping" => Loading!MapPages
      /\ at = "initializers" => Loading!RunInitializers \/ Loading!LeaveBootServices
  BY ReadTableCase
     DEF Loading!Next, Loading!Check, Loading!ReadSection, Loading!LocateXsdt, Loading!LocateGraphics,
         Loading!CloseFiles, Loading!AskSize, Loading!AllocateBuffer, Loading!GetMap, Loading!GetMapAgain,
         Loading!ExitAgain, Loading!SetVirtualAddressMap, Loading!RunInitializers, Loading!ExitBootServices,
         Loading!AllocateBlock, Loading!AllocateArea, Loading!Allocate, Loading!OpenFile, Loading!ReadHeaders,
         Loading!LoadKernel, Loading!AcpiInitialize, Loading!MapKernel, Loading!MapPages,
         Loading!LeaveBootServices
<1>2. /\ Loading!ReadSection => at' \notin Loaded
      /\ (\E t \in AcpiTables : Loading!ReadTable(t)) => at' \notin Informed
      /\ Loading!RunInitializers => at' \notin Late
  BY ReadTableCase DEF Loading!ReadSection, Loading!RunInitializers, Late, Mapped, Drawn, Informed, Loaded
<1> USE Going, <1>1, <1>2 DEF Moves
<1>3. at' \in Blocked /\ at \notin Blocked => Loading!AllocateBlock
  BY DEF Blocked, Staged, Tabled, Pooled, Open, Valid, Loaded, Informed, Drawn, Mapped, Late
<1>4. at' \in Staged /\ at \notin Staged => Loading!AllocateArea
  BY DEF Staged, Tabled, Pooled, Open, Valid, Loaded, Informed, Drawn, Mapped, Late
<1>5. at' \in Tabled /\ at \notin Tabled => Loading!AllocateArea
  BY DEF Tabled, Pooled, Open, Valid, Loaded, Informed, Drawn, Mapped, Late
<1>6. at' \in Pooled /\ at \notin Pooled => Loading!AllocateArea
  BY DEF Pooled, Open, Valid, Loaded, Informed, Drawn, Mapped, Late
<1>7. at' \in Drawn /\ at \notin Drawn => Loading!AllocateArea
  BY DEF Drawn, Mapped, Late
<1>8. at' \in Open /\ at \notin Open => Loading!OpenFile
  BY DEF Open, Valid, Loaded, Informed, Drawn, Mapped, Late
<1>9. at' \in Valid /\ at \notin Valid => Loading!ReadHeaders
  BY DEF Valid, Loaded, Informed, Drawn, Mapped, Late
<1>10. at' \in Loaded /\ at \notin Loaded => Loading!LoadKernel
  BY DEF Loaded, Informed, Drawn, Mapped, Late
<1>11. at' \in Informed /\ at \notin Informed => Loading!AcpiInitialize
  BY DEF Informed, Drawn, Mapped, Late
<1>12. (at' = "mapping" => Loading!MapKernel) /\ (at = "mapping" => Loading!MapPages)
  OBVIOUS
<1>13. at' \in Mapped /\ at \notin Mapped => Loading!MapPages
  BY DEF Mapped, Late
<1>14. at' \in Late /\ at \notin Late => Loading!LeaveBootServices
  BY DEF Late
<1> QED BY <1>3, <1>4, <1>5, <1>6, <1>7, <1>8, <1>9, <1>10, <1>11, <1>12, <1>13, <1>14

\* The loader returns before the boot services are left, and halts after.
LeavesOK ==
    /\ leaving \in BOOLEAN /\ wp \in BOOLEAN
    /\ leaving <=> at \in Late \cup {"halted"}
    /\ wp <=> at # "mapping"

\* Boot services are left at one call, and write protection is off while pages are mapped.
LEMMA LeavesStep ==
  ASSUME LeavesOK, Loading!Next
  PROVE  LeavesOK'
<1>1. CASE Loading!MapKernel \/ Loading!MapPages
  <2>1. /\ leaving' = leaving /\ at \in {"map", "mapping"}
        /\ \/ at' = "mapping" /\ wp' = FALSE
           \/ at' = "close" /\ wp' = TRUE
    BY <1>1 DEF Loading!MapKernel, Loading!MapPages, Loading!Go
  <2>2. leaving' <=> at' \in Late \cup {"halted"}
    BY <2>1 DEF LeavesOK, Late
  <2>3. wp' <=> at' # "mapping"
    BY <2>1
  <2> QED BY <2>1, <2>2, <2>3 DEF LeavesOK
<1>3. CASE Loading!LeaveBootServices
  BY <1>3 DEF LeavesOK, Loading!LeaveBootServices, Loading!Go, Late
<1>2. CASE ~(Loading!MapKernel \/ Loading!MapPages \/ Loading!LeaveBootServices)
  <2>1. UNCHANGED <<leaving, wp>>
    BY <1>2, Stays
  <2>2. at' # "mapping" /\ (at' \in Late => at \in Late)
    BY <1>2, Entering
  <2>3. at # "mapping" /\ (at \in Late \cup {"halted"} => at' \in Late \cup {"halted"})
    <3>1. at # "mapping"
      BY <1>2, Entering
    <3>2. at \in Late => at' \in Late \/ at' = "halted"
      BY Going DEF LeavesOK, Ended, Late, Moves, Loading!Failed
    <3>3. at # "halted"
      BY Going DEF Ended, Moves
    <3> QED BY <3>1, <3>2, <3>3
  <2>4. at' = "halted" => at \in Late
    BY Going DEF LeavesOK, Moves, Ended, Loading!Failed, Late
  <2> QED BY <2>1, <2>2, <2>3, <2>4 DEF LeavesOK
<1> QED BY <1>1, <1>2, <1>3

\* Areas that are allocated are empty.
AreasOK ==
    /\ areas = [a \in Loading!Areas |-> areas[a]]
    /\ at \in Blocked => areas["loader block"] = "zero"
    /\ at \in Staged => areas["boot tables"] = "zero"
    /\ at \in Tabled => areas["kernel tables"] = "zero"
    /\ at \in Pooled => areas["pool"] = "zero"
    /\ at \in Drawn => areas["back buffer"] = "zero"

\* An area is cleared once the loader has come past its allocation.
LEMMA AreasStep ==
  ASSUME AreasOK, Loading!Next
  PROVE  AreasOK'
<1> USE DEF Mapped, Drawn, Informed, Loaded, Valid, Open, Pooled, Tabled, Staged, Blocked, Late
<1>1. CASE Loading!AllocateBlock
  BY <1>1 DEF AreasOK, Loading!AllocateBlock, Loading!Allocate, Loading!Go, Loading!Fail, Loading!Failed, Loading!Zeroed, Loading!Areas
<1>2. CASE Loading!AllocateArea
  BY <1>2 DEF AreasOK, Loading!AllocateArea, Loading!Allocate, Loading!Go, Loading!Fail, Loading!Failed, Loading!Zeroed, Loading!Areas
<1>3. CASE ~(Loading!AllocateBlock \/ Loading!AllocateArea)
  <2>1. areas' = areas
    BY <1>3, Stays
  <2>2. \A H \in {Blocked, Staged, Tabled, Pooled, Drawn} : at' \in H => at \in H
    BY <1>3, Entering
  <2> QED BY <2>1, <2>2 DEF AreasOK
<1> QED BY <1>1, <1>2, <1>3

\* The file is one of Files, and well formed once its headers are read.
FileOK ==
    /\ at \in Open => file \in Files
    /\ at \in Valid => file.valid

\* The file is one of the firmware's, and in order once its headers are read.
LEMMA FileStep ==
  ASSUME FileOK, Loading!Next
  PROVE  FileOK'
<1>1. at' \in Open => file' \in Files
  <2>1. CASE at \in Open
    <3>1. ~Loading!OpenFile
      BY <2>1 DEF Loading!OpenFile, Loading!Go, Loading!Fail, Open, Valid, Loaded, Informed, Drawn, Mapped, Late
    <3> QED BY <2>1, <3>1, Stays DEF FileOK
  <2>2. CASE at \notin Open
    <3> SUFFICES ASSUME at' \in Open PROVE file' \in Files
      OBVIOUS
    <3>1. Loading!OpenFile
      BY <2>2, Entering
    <3>2. at' # "returned" /\ at' # "halted"
      BY DEF Open, Valid, Loaded, Informed, Drawn, Mapped, Late
    <3> QED BY <3>1, <3>2 DEF Loading!OpenFile, Loading!Go, Loading!Fail, Loading!Failed
  <2> QED BY <2>1, <2>2
<1>2. at' \in Valid => file'.valid
  <2> SUFFICES ASSUME at' \in Valid PROVE file'.valid
    OBVIOUS
  <2>0. ~Loading!OpenFile
    BY DEF Loading!OpenFile, Loading!Go, Loading!Fail, Loading!Failed, Valid, Loaded, Informed, Drawn, Mapped, Late
  <2>1. file' = file
    BY <2>0, Stays
  <2>2. CASE at \in Valid
    BY <2>1, <2>2 DEF FileOK
  <2>3. CASE at \notin Valid
    <3>1. Loading!ReadHeaders
      BY <2>3, Entering
    <3>2. at' # "returned" /\ at' # "halted"
      BY DEF Valid, Loaded, Informed, Drawn, Mapped, Late
    <3> QED BY <2>1, <3>1, <3>2 DEF Loading!ReadHeaders, Loading!Go, Loading!Fail, Loading!Failed
  <2> QED BY <2>2, <2>3
<1> QED BY <1>1, <1>2 DEF FileOK

\* What WellFormed says of a file that is read.
LEMMA FileFacts ==
  ASSUME NEW f \in Files, f.valid
  PROVE  /\ Loading!WellFormed(f)
         /\ f.SizeOfImage \in Nat \ {0}
         /\ Len(f.sections) \in Nat /\ DOMAIN f.sections = 1..Len(f.sections)
         /\ \A i \in 1..Len(f.sections) : f.sections[i] \in Loading!Sections(f)
<1>2. Loading!WellFormed(f)
  BY BootAssumption
<1>3. f.sections \in Seq(Loading!Sections(f)) /\ f.SizeOfImage \in Nat \ {0}
  BY <1>2 DEF Loading!WellFormed
<1> QED BY <1>2, <1>3

\* Past the headers the file is in order.
LEMMA FileOfStep ==
  ASSUME FileOK, at \in Valid
  PROVE  file \in Files /\ file.valid
BY DEF FileOK, Open

\* How far a loop over the sections has come.
SectionOK ==
    /\ section \in Nat
    /\ at \notin Valid \cup Ended => section = 0
    /\ at \in Loaded \ ({"initializers"} \cup Late) => section = 0
    /\ at \in {"sections", "initializers"} => section <= Len(file.sections)

\* Sections are read in their order, and initializers in theirs.
LEMMA SectionStep ==
  ASSUME SectionOK, FileOK, Loading!Next
  PROVE  SectionOK'
<1>0. at \in Valid => Len(file.sections) \in Nat
  BY FileFacts, FileOfStep
<1>s. /\ "sections" \in Valid /\ "initializers" \in Valid /\ "initializers" \in Loaded /\ Loaded \subseteq Valid
      /\ Late \subseteq Loaded /\ "xsdt" \in Loaded /\ "sections" \notin Loaded
      /\ {"volume", "headers"} \cap (Valid \cup Ended) = {} /\ "xsdt" \notin Late
      /\ Ended \cap Valid = {} /\ Loading!Failed \in Ended
  BY DEF Valid, Loaded, Informed, Drawn, Mapped, Late, Ended, Loading!Failed
<1>1. CASE Loading!OpenFile
  BY <1>1, <1>s DEF SectionOK, Loading!OpenFile, Loading!Go, Loading!Fail, Loading!loading
<1>2. CASE Loading!ReadSection
  <2>1. at = "sections" /\ section < Len(file.sections) /\ file' = file
    BY <1>2 DEF Loading!ReadSection
  <2>2. \/ at' = "sections" /\ section' = section + 1
        \/ at' = Loading!Failed /\ section' = section
    BY <1>2 DEF Loading!ReadSection, Loading!Go, Loading!Fail
  <2> QED BY <1>0, <1>s, <2>1, <2>2 DEF SectionOK
<1>3. CASE Loading!LoadKernel
  BY <1>3, <1>s DEF SectionOK, Loading!LoadKernel, Loading!Go
<1>4. CASE Loading!RunInitializers
  <2>1. at = "initializers" /\ section < Len(file.sections) /\ file' = file
        /\ at' = at /\ section' = section + 1
    BY <1>4 DEF Loading!RunInitializers
  <2> QED BY <1>0, <1>s, <2>1 DEF SectionOK
<1>5. CASE ~(Loading!OpenFile \/ Loading!ReadSection \/ Loading!LoadKernel \/ Loading!RunInitializers)
  <2>1. section' = section /\ file' = file
    BY <1>5, Stays
  <2>2. /\ at' \in Loaded => at \in Loaded
        /\ at' \in Valid => at \in Valid \/ Loading!ReadHeaders
    BY <1>5, Entering
  <2>3. Loading!ReadHeaders => at = "headers"
    BY DEF Loading!ReadHeaders, Loading!Go, Loading!Fail
  <2>4. CASE <<at, at'>> \in Moves
    <3>1. at' \notin Valid \cup Ended => at \notin Valid \cup Ended
      BY <2>4 DEF Moves, Valid, Loaded, Informed, Drawn, Mapped, Late, Ended
    <3>2. at' \in Loaded \ ({"initializers"} \cup Late) => at \notin {"initializers"} \cup Late
      BY <2>4 DEF Moves, Late
    <3>3. at' = "sections" => at \in {"headers", "sections"}
      BY <2>4 DEF Moves
    <3>4. at' = "initializers" => at = "get" \/ at = "initializers"
      BY <2>4 DEF Moves
    <3>5. "get" \in Loaded \ ({"initializers"} \cup Late)
      BY DEF Loaded, Informed, Drawn, Mapped, Late
    <3>6. at' \in {"sections", "initializers"} => section' <= Len(file'.sections)
      <4>1. CASE at' = at
        BY <2>1, <4>1 DEF SectionOK
      <4>2. CASE at' # at /\ at' \in {"sections", "initializers"}
        <5>1. section = 0
          BY <1>s, <3>3, <3>4, <3>5, <4>2 DEF SectionOK
        <5>2. at' = "sections" => Loading!ReadHeaders
          BY <1>s, <2>2, <3>3, <4>2
        <5>3. Len(file'.sections) \in Nat
          <6>1. FileOK' /\ at' \in Valid /\ at' \in Open
            BY <1>s, <4>2, FileStep DEF Open
          <6>2. file' \in Files /\ file'.valid
            BY <6>1 DEF FileOK
          <6> QED BY <6>2, FileFacts
        <5> QED BY <2>1, <5>1, <5>3
      <4> QED BY <4>1, <4>2
    <3> QED BY <2>1, <2>2, <2>3, <3>1, <3>2, <3>6, <1>s DEF SectionOK
  <2>5. CASE at' = Loading!Failed
    BY <1>s, <2>1, <2>5 DEF SectionOK
  <2> QED BY <2>4, <2>5, Going
<1> QED BY <1>1, <1>2, <1>3, <1>4, <1>5

\* A page past the headers as the first n sections leave it.
ReadInto(p, n) ==
    IF \E i \in 1..n : Loading!HasData(file.sections[i], p)
    THEN \E i \in 1..n : Loading!HasData(file.sections[i], p) /\ image[p] = file.sections[i].name
    ELSE image[p] = "zero"

\* The image is as large as the headers say, zero where no section has data.
ImageOK ==
    /\ at \in Valid => DOMAIN image = 0..(file.SizeOfImage - 1)
    /\ at = "sections" => \A p \in 1..(file.SizeOfImage - 1) : ReadInto(p, section)
    /\ at \in Loaded => /\ image[0] = "relocated headers"
                        /\ \A p \in 1..(file.SizeOfImage - 1) : ReadInto(p, Len(file.sections))

\* The image holds the sections that were read.
LEMMA ImageStep ==
  ASSUME ImageOK, SectionOK, FileOK, Loading!Next
  PROVE  ImageOK'
<1>s. /\ "sections" \in Valid /\ Loaded \subseteq Valid
      /\ "xsdt" \in Loaded /\ "sections" \notin Loaded
      /\ "headers" \notin Valid \cup Ended
      /\ Ended \cap Valid = {} /\ Loading!Failed \in Ended
  BY DEF Valid, Loaded, Informed, Drawn, Mapped, Late, Ended, Loading!Failed
<1>1. CASE Loading!ReadHeaders
  <2>1. file' = file /\ section' = section /\ section = 0
    BY <1>1, <1>s DEF Loading!ReadHeaders, Loading!Go, Loading!Fail, SectionOK
  <2>2. CASE at' = Loading!Failed
    BY <1>s, <2>2 DEF ImageOK
  <2>3. CASE at' = "sections"
    <3>1. image' = [p \in 0..(file.SizeOfImage - 1) |-> IF p = 0 THEN "headers" ELSE "zero"]
      BY <1>1, <1>s, <2>3 DEF Loading!ReadHeaders, Loading!Go, Loading!Fail, Loading!Zeroed
    <3>2. \A p \in 1..(file'.SizeOfImage - 1) : ReadInto(p, section)'
      BY <2>1, <3>1 DEF ReadInto
    <3> QED BY <1>s, <2>1, <2>3, <3>1, <3>2 DEF ImageOK
  <2> QED BY <1>1, <2>2, <2>3 DEF Loading!ReadHeaders, Loading!Go, Loading!Fail
<1>2. CASE Loading!ReadSection
  <2>1. file' = file /\ at = "sections" /\ section < Len(file.sections)
    BY <1>2 DEF Loading!ReadSection
  <2>2. CASE at' = Loading!Failed
    BY <1>s, <2>2 DEF ImageOK
  <2>3. CASE at' = "sections"
    <3> DEFINE d == file.sections[section + 1]
    <3>1. /\ image' = [p \in DOMAIN image |-> IF Loading!HasData(d, p) THEN d.name ELSE image[p]]
          /\ section' = section + 1
      BY <1>2, <1>s, <2>3 DEF Loading!ReadSection, Loading!Go, Loading!Fail
    <3>2. ASSUME NEW p \in 1..(file.SizeOfImage - 1)
          PROVE  ReadInto(p, section)'
      <4>1. ReadInto(p, section) /\ p \in DOMAIN image /\ section \in Nat
        <5>1. ReadInto(p, section) /\ DOMAIN image = 0..(file.SizeOfImage - 1) /\ section \in Nat
          BY <2>1, <1>s DEF ImageOK, SectionOK
        <5>2. file.SizeOfImage \in Nat
          BY <2>1, <1>s, FileFacts, FileOfStep
        <5> QED BY <5>1, <5>2
      <4>2. 1..section' = (1..section) \cup {section + 1}
        BY <3>1, <4>1
      <4>3. image'[p] = IF Loading!HasData(d, p) THEN d.name ELSE image[p]
        BY <3>1, <4>1
      <4>4. CASE Loading!HasData(d, p)
        <5>1. section + 1 \in 1..section'
          BY <4>2
        <5> QED BY <2>1, <4>3, <4>4, <5>1 DEF ReadInto
      <4>5. CASE ~Loading!HasData(d, p)
        BY <2>1, <4>1, <4>2, <4>3, <4>5 DEF ReadInto
      <4> QED BY <4>4, <4>5
    <3> QED BY <1>s, <2>1, <2>3, <3>1, <3>2 DEF ImageOK
  <2> QED BY <1>2, <2>2, <2>3 DEF Loading!ReadSection, Loading!Go, Loading!Fail
<1>3. CASE Loading!LoadKernel
  <2>1. /\ file' = file /\ at = "sections" /\ at' = "xsdt" /\ section = Len(file.sections)
        /\ image' = [image EXCEPT ![0] = "relocated headers"]
    BY <1>3 DEF Loading!LoadKernel, Loading!Go
  <2>2. DOMAIN image = 0..(file.SizeOfImage - 1) /\ file.SizeOfImage \in Nat \ {0}
    BY <1>s, <2>1, FileFacts, FileOfStep DEF ImageOK
  <2>3. /\ image'[0] = "relocated headers" /\ DOMAIN image' = DOMAIN image
        /\ \A p \in 1..(file.SizeOfImage - 1) : image'[p] = image[p]
    <3>1. 0 \in DOMAIN image /\ \A p \in 1..(file.SizeOfImage - 1) : p \in DOMAIN image /\ p # 0
      BY <2>2
    <3> QED BY <2>1, <3>1
  <2>4. \A p \in 1..(file.SizeOfImage - 1) : ReadInto(p, Len(file.sections))
    BY <2>1 DEF ImageOK
  <2>5. \A p \in 1..(file'.SizeOfImage - 1) : ReadInto(p, Len(file.sections))'
    BY <2>1, <2>3, <2>4 DEF ReadInto
  <2> QED BY <1>s, <2>1, <2>2, <2>3, <2>5 DEF ImageOK
<1>4. CASE ~(Loading!ReadHeaders \/ Loading!ReadSection \/ Loading!LoadKernel)
  <2>1. image' = image
    BY <1>4, Stays
  <2>2. (at' \in Loaded => at \in Loaded) /\ (at' \in Valid => at \in Valid)
    BY <1>4, Entering
  <2>3. at \in Valid => file' = file
    <3>1. Loading!OpenFile => at = "volume"
      BY DEF Loading!OpenFile, Loading!Go, Loading!Fail
    <3>2. "volume" \notin Valid
      BY DEF Valid, Loaded, Informed, Drawn, Mapped, Late
    <3> QED BY <3>1, <3>2, Stays
  <2>4. at' # "sections"
    <3>1. at' = "sections" => at \in {"headers", "sections"}
      BY Going DEF Moves, Loading!Failed
    <3>2. at # "headers" \/ at' # "sections"
      BY <1>s, <1>4, Entering
    <3>3. at # "sections" \/ at' # "sections"
      BY <1>4, Inside
    <3> QED BY <3>1, <3>2, <3>3
  <2>5. at \in Loaded => UNCHANGED <<file, image>>
    BY <1>s, <2>1, <2>3
  <2>6. at' \in Loaded => ImageOK' 
    BY <1>s, <2>2, <2>4, <2>5 DEF ImageOK, ReadInto
  <2>7. at' \notin Loaded => at' \notin Valid
    BY <2>4 DEF Valid
  <2> QED BY <1>s, <2>4, <2>6, <2>7 DEF ImageOK
<1> QED BY <1>1, <1>2, <1>3, <1>4

\* The loader block, once there is one, speaks of the tables that were found.
Fields == {"madt", "i8042", "hpet", "kernel"}
HpetOK ==
    IF Loading!Found("hpet") = {} THEN block.hpet = "zero"
    ELSE \E k \in Loading!Found("hpet") : (\A l \in Loading!Found("hpet") : l <= k) /\ block.hpet = tables[k].id
MadtOK == block.madt # "zero" => Loading!Found("madt") # {}
FadtOK == fadt => \E k \in Loading!Found("fadt") : block.i8042 = Loading!Has8042(tables[k])

BlockOK ==
    /\ tables \in Seq(AcpiTables) /\ fadt \in BOOLEAN
    /\ at = "start" => tables = <<>> /\ ~fadt
    /\ at \in Blocked => DOMAIN block = Fields /\ HpetOK /\ MadtOK /\ FadtOK
    /\ at \in Informed => block.madt # "zero" /\ fadt
    /\ at \in Loaded => block.kernel = file.SizeOfImage

\* One more table is found under its signature, and the others stay where they are.
LEMMA FoundAppended ==
  ASSUME tables \in Seq(AcpiTables), NEW t \in AcpiTables, tables' = Append(tables, t), NEW sig
  PROVE  /\ Loading!Found(sig)' = Loading!Found(sig) \cup (IF t.signature = sig THEN {Len(tables) + 1} ELSE {})
         /\ \A k \in Loading!Found(sig) : tables'[k] = tables[k] /\ k \in 1..Len(tables)
         /\ tables'[Len(tables) + 1] = t /\ Len(tables) \in Nat
<1>1. /\ Len(tables) \in Nat /\ DOMAIN tables = 1..Len(tables) /\ DOMAIN tables' = 1..(Len(tables) + 1)
      /\ \A k \in 1..Len(tables) : tables'[k] = tables[k]
      /\ tables'[Len(tables) + 1] = t
  OBVIOUS
<1>2. \A k : k \in Loading!Found(sig)' <=> k \in Loading!Found(sig) \/ (k = Len(tables) + 1 /\ t.signature = sig)
  BY <1>1 DEF Loading!Found
<1> QED BY <1>1, <1>2 DEF Loading!Found

\* The loader's block is filled in with what was found.
LEMMA BlockStep ==
  ASSUME BlockOK, AreasOK, FileOK, Loading!Next
  PROVE  BlockOK'
<1>s. /\ "acpi" \in Blocked /\ "acpi" \in Loaded /\ "acpi" \notin Informed /\ "start" \notin Blocked
      /\ Ended \cap Blocked = {} /\ Loading!Failed \in Ended /\ "start" \notin Ended
      /\ Informed \subseteq Loaded /\ Loaded \subseteq Blocked /\ "xsdt" \in Loaded /\ "xsdt" \notin Informed
      /\ "sections" \in Blocked /\ "boot tables" \in Blocked /\ "boot tables" \notin Loaded
  BY DEF Blocked, Staged, Tabled, Pooled, Open, Valid, Loaded, Informed, Drawn, Mapped, Late, Ended, Loading!Failed
<1>1. CASE Loading!AllocateBlock
  <2>1. /\ at = "start" /\ UNCHANGED <<tables, fadt>>
        /\ at' = "boot tables" => areas' = [areas EXCEPT !["loader block"] = "zero"]
        /\ at' \in {"boot tables", Loading!Failed}
        /\ block' = [madt |-> areas'["loader block"], i8042 |-> areas'["loader block"],
                     hpet |-> areas'["loader block"], kernel |-> areas'["loader block"]]
    BY <1>1, <1>s DEF Loading!AllocateBlock, Loading!Allocate, Loading!Go, Loading!Fail, Loading!Zeroed, Ended, Loading!Failed
  <2>2. CASE at' = "boot tables"
    <3>1. areas'["loader block"] = "zero"
      BY <2>1, <2>2 DEF AreasOK, Loading!Areas
    <3>2. tables' = <<>> /\ fadt' = FALSE
      BY <2>1 DEF BlockOK
    <3>3. \A sig : Loading!Found(sig)' = {}
      BY <3>2 DEF Loading!Found
    <3>4. DOMAIN block' = Fields /\ block'.hpet = "zero" /\ block'.madt = "zero"
      BY <2>1, <3>1 DEF Fields
    <3> QED BY <1>s, <2>1, <2>2, <3>2, <3>3, <3>4 DEF BlockOK, HpetOK, MadtOK, FadtOK
  <2>3. CASE at' = Loading!Failed
    BY <1>s, <2>1, <2>3 DEF BlockOK
  <2> QED BY <2>1, <2>2, <2>3
<1>2. ASSUME NEW t \in AcpiTables, Loading!ReadTable(t)
      PROVE  BlockOK'
  <2>1. /\ at = "acpi" /\ at' = at /\ file' = file /\ tables' = Append(tables, t)
        /\ fadt' = (fadt \/ t.signature = "fadt")
    BY <1>2, ReadTableCase
  <2>2. tables \in Seq(AcpiTables) /\ tables' \in Seq(AcpiTables) /\ fadt' \in BOOLEAN
    BY <2>1 DEF BlockOK
  <2>3. DOMAIN block = Fields /\ HpetOK /\ MadtOK /\ FadtOK /\ block.kernel = file.SizeOfImage
    BY <1>s, <2>1 DEF BlockOK
  <2>4. /\ DOMAIN block' = Fields /\ block'.kernel = block.kernel
        /\ block'.madt = IF t.signature = "madt" THEN t.id ELSE block.madt
        /\ block'.i8042 = IF t.signature = "fadt" THEN Loading!Has8042(t) ELSE block.i8042
        /\ block'.hpet = IF t.signature = "hpet" THEN t.id ELSE block.hpet
    <3> USE <2>3 DEF Fields
    <3>1. CASE t.signature = "madt"
      BY <1>2, <3>1, ReadTableCase
    <3>2. CASE t.signature = "fadt"
      BY <1>2, <3>2, ReadTableCase
    <3>3. CASE t.signature = "hpet"
      BY <1>2, <3>3, ReadTableCase
    <3>4. CASE t.signature \notin {"madt", "fadt", "hpet"}
      BY <1>2, <3>4, ReadTableCase
    <3> QED BY <3>1, <3>2, <3>3, <3>4
  <2>5. HpetOK'
    <3>1. CASE t.signature = "hpet"
      BY <2>1, <2>2, <2>4, <3>1, FoundAppended DEF HpetOK
    <3>2. CASE t.signature # "hpet"
      BY <2>1, <2>2, <2>3, <2>4, <3>2, FoundAppended DEF HpetOK
    <3> QED BY <3>1, <3>2
  <2>6. MadtOK'
    BY <2>1, <2>2, <2>3, <2>4, FoundAppended DEF MadtOK
  <2>7. FadtOK'
    <3>1. CASE t.signature = "fadt"
      <4>1. Len(tables) + 1 \in Loading!Found("fadt")' /\ tables'[Len(tables) + 1] = t
        BY <2>1, <2>2, <3>1, FoundAppended
      <4> DEFINE k == Len(tables) + 1
      <4> HIDE DEF k
      <4>2. k \in Loading!Found("fadt")' /\ tables'[k] = t
        BY <4>1 DEF k
      <4> QED BY <2>4, <3>1, <4>2 DEF FadtOK, Loading!Has8042
    <3>2. CASE t.signature # "fadt"
      <4> SUFFICES ASSUME fadt PROVE FadtOK'
        BY <2>1, <3>2 DEF FadtOK
      <4>1. PICK k \in Loading!Found("fadt") : block.i8042 = Loading!Has8042(tables[k])
        BY <2>3 DEF FadtOK
      <4>2. k \in Loading!Found("fadt")' /\ tables'[k] = tables[k]
        BY <2>1, <2>2, FoundAppended
      <4> QED BY <2>4, <3>2, <4>1, <4>2 DEF FadtOK, Loading!Has8042
    <3> QED BY <3>1, <3>2
  <2> QED BY <1>s, <2>1, <2>2, <2>3, <2>4, <2>5, <2>6, <2>7 DEF BlockOK
<1>3. CASE Loading!LoadKernel
  <2>1. /\ at = "sections" /\ at' = "xsdt" /\ UNCHANGED <<tables, fadt, file>>
        /\ block' = [block EXCEPT !.kernel = file.SizeOfImage]
    BY <1>3 DEF Loading!LoadKernel, Loading!Go
  <2>2. DOMAIN block = Fields /\ HpetOK /\ MadtOK /\ FadtOK
    BY <1>s, <2>1 DEF BlockOK
  <2>3. /\ DOMAIN block' = Fields /\ block'.kernel = file.SizeOfImage
        /\ block'.madt = block.madt /\ block'.i8042 = block.i8042 /\ block'.hpet = block.hpet
    BY <2>1, <2>2 DEF Fields
  <2>4. HpetOK' /\ MadtOK' /\ FadtOK'
    BY <2>1, <2>2, <2>3 DEF HpetOK, MadtOK, FadtOK, Loading!Found, Loading!Has8042
  <2> QED BY <1>s, <2>1, <2>3, <2>4 DEF BlockOK
<1>4. CASE Loading!AcpiInitialize
  <2>1. /\ at = "acpi" /\ UNCHANGED <<tables, fadt, file, block>>
        /\ \/ at' = "graphics" /\ block.madt # "zero" /\ fadt
           \/ at' = Loading!Failed
    BY <1>4 DEF Loading!AcpiInitialize, Loading!loading, Loading!acpi
  <2>2. at' \in Informed => block.madt # "zero" /\ fadt
    BY <1>s, <2>1
  <2>3. HpetOK' /\ MadtOK' /\ FadtOK'
    BY <1>s, <2>1 DEF BlockOK, HpetOK, MadtOK, FadtOK, Loading!Found, Loading!Has8042
  <2> QED BY <1>s, <2>1, <2>2, <2>3 DEF BlockOK
<1>5. CASE ~(Loading!AllocateBlock \/ (\E t \in AcpiTables : Loading!ReadTable(t)) \/ Loading!LoadKernel \/ Loading!AcpiInitialize)
  <2>1. UNCHANGED <<block, tables, fadt>>
    BY <1>5, Stays
  <2>2. /\ at' \in Blocked => at \in Blocked
        /\ at' \in Loaded => at \in Loaded
        /\ at' \in Informed => at \in Informed
    BY <1>5, Entering
  <2>3. at \in Loaded => file' = file
    <3>1. Loading!OpenFile => at = "volume"
      BY DEF Loading!OpenFile, Loading!Go, Loading!Fail
    <3>2. "volume" \notin Loaded
      BY DEF Loaded, Informed, Drawn, Mapped, Late
    <3> QED BY <3>1, <3>2, Stays
  <2>4. at' = "start" => at = "start"
    BY <1>s, Going DEF Moves
  <2>5. at \in Blocked => HpetOK' /\ MadtOK' /\ FadtOK'
    BY <2>1 DEF BlockOK, HpetOK, MadtOK, FadtOK, Loading!Found, Loading!Has8042
  <2> QED BY <2>1, <2>2, <2>3, <2>4, <2>5 DEF BlockOK
<1> QED BY <1>1, <1>2, <1>3, <1>4, <1>5

\* What the kernel builds its tables with is mapped.
UpperOK == at \in Mapped => {"image", "kernel tables", "pool"} \subseteq upper

\* What the loader has mapped in the upper half stays there.
LEMMA UpperStep ==
  ASSUME UpperOK, Loading!Next
  PROVE  UpperOK'
<1>1. CASE Loading!MapKernel
  BY <1>1 DEF UpperOK, Loading!MapKernel, Loading!Go, Mapped, Late
<1>2. CASE Loading!MapPages
  BY <1>2 DEF UpperOK, Loading!MapPages
<1>3. CASE ~Loading!MapKernel /\ ~Loading!MapPages
  <2>1. upper' = upper
    BY <1>3, Stays
  <2>2. at' \in Mapped => at \in Mapped
    BY <1>3, Entering
  <2> QED BY <2>1, <2>2 DEF UpperOK
<1> QED BY <1>1, <1>2, <1>3

\* Of the first n sections of f those with initializers have had each called once, in r.
Lists(f, i) == f.sections[i].name = ".CRT"
Once(f, r, n) ==
    /\ r \in Seq({r[q] : q \in DOMAIN r})
    /\ \A q \in 1..Len(r) : \E i \in 1..n : Lists(f, i) /\ \E k \in DOMAIN f.sections[i].initializers :
                                                             r[q] = f.sections[i].initializers[k]
    /\ \A i \in 1..n : Lists(f, i) => \A k \in DOMAIN f.sections[i].initializers :
         \E q \in 1..Len(r) : \A p \in 1..Len(r) : r[p] = f.sections[i].initializers[k] <=> p = q

\* A sequence is one of its own entries.
LEMMA OwnEntries ==
  ASSUME NEW S, NEW s \in Seq(S)
  PROVE  s \in Seq({s[q] : q \in DOMAIN s})
<1> DEFINE T == {s[q] : q \in DOMAIN s}
<1>1. s \in [1..Len(s) -> S] /\ Len(s) \in Nat /\ DOMAIN s = 1..Len(s)
  OBVIOUS
<1>2. s \in [1..Len(s) -> T]
  BY <1>1
<1> HIDE DEF T
<1>3. s \in Seq(T)
  BY <1>1, <1>2, SeqDef
<1> QED BY <1>3 DEF T

\* The initializers of one more section.
LEMMA OnceMore ==
  ASSUME NEW f \in Files, f.valid, NEW n \in Nat, n < Len(f.sections), NEW r, Once(f, r, n)
  PROVE  Once(f, IF Lists(f, n + 1) THEN r \o f.sections[n + 1].initializers ELSE r, n + 1)
<1>1. /\ n + 1 \in DOMAIN f.sections /\ 1..(n + 1) = (1..n) \cup {n + 1} /\ 1..(n + 1) \subseteq DOMAIN f.sections
      /\ n + 1 \notin 1..n
  BY FileFacts
<1>2. CASE ~Lists(f, n + 1)
  <2>1. \A i \in 1..(n + 1) : Lists(f, i) => i \in 1..n
    BY <1>1, <1>2
  <2>2. Once(f, r, n + 1)
    BY <1>1, <2>1 DEF Once
  <2> QED BY <1>2, <2>2
<1>3. CASE Lists(f, n + 1)
  <2> DEFINE t == f.sections[n + 1].initializers
             u == r \o t
  <2>1. t \in Seq({t[k] : k \in DOMAIN t}) /\ \A k, l \in DOMAIN t : t[k] = t[l] => k = l
    <3>1. f.sections[n + 1] \in Loading!Sections(f) /\ Loading!WellFormed(f)
      BY <1>1, FileFacts
    <3> QED BY <3>1 DEF Loading!WellFormed
  <2>2. \A i \in 1..n : \A k \in DOMAIN f.sections[i].initializers, l \in DOMAIN t :
          f.sections[i].initializers[k] # t[l]
    BY <1>1, FileFacts DEF Loading!WellFormed
  <2> HIDE DEF t
  <2>3. /\ Len(r) \in Nat /\ Len(t) \in Nat /\ DOMAIN r = 1..Len(r) /\ DOMAIN t = 1..Len(t)
    BY <2>1 DEF Once
  <2>4. /\ u \in Seq({r[q] : q \in DOMAIN r} \cup {t[k] : k \in DOMAIN t}) /\ Len(u) = Len(r) + Len(t)
        /\ \A q \in 1..Len(r) : u[q] = r[q] /\ q \in 1..Len(u)
        /\ \A k \in 1..Len(t) : u[Len(r) + k] = t[k] /\ Len(r) + k \in 1..Len(u)
    <3>1. r \in Seq({r[q] : q \in DOMAIN r} \cup {t[k] : k \in DOMAIN t})
      BY <2>3 DEF Once
    <3>2. t \in Seq({r[q] : q \in DOMAIN r} \cup {t[k] : k \in DOMAIN t})
      BY <2>1, <2>3
    <3> HIDE DEF u
    <3> QED BY <2>3, <3>1, <3>2, ConcatProperties DEF u
  <2>5. \A q \in 1..Len(u) : q \in 1..Len(r) \/ \E k \in 1..Len(t) : q = Len(r) + k
    <3> SUFFICES ASSUME NEW q \in 1..Len(u), q \notin 1..Len(r) PROVE \E k \in 1..Len(t) : q = Len(r) + k
      OBVIOUS
    <3>1. q - Len(r) \in 1..Len(t) /\ q = Len(r) + (q - Len(r))
      BY <2>3, <2>4
    <3> QED BY <3>1
  <2> HIDE DEF u
  <2>6. u \in Seq({u[q] : q \in DOMAIN u})
    BY <2>4, OwnEntries
  <2>7. \A q \in 1..Len(u) : \E i \in 1..(n + 1) : Lists(f, i) /\ \E k \in DOMAIN f.sections[i].initializers :
                                                      u[q] = f.sections[i].initializers[k]
    <3> SUFFICES ASSUME NEW q \in 1..Len(u)
                 PROVE  \E i \in 1..(n + 1) : Lists(f, i) /\ \E k \in DOMAIN f.sections[i].initializers :
                                                 u[q] = f.sections[i].initializers[k]
      OBVIOUS
    <3>1. CASE q \in 1..Len(r)
      <4>1. PICK i \in 1..n : Lists(f, i) /\ \E k \in DOMAIN f.sections[i].initializers :
                                               r[q] = f.sections[i].initializers[k]
        BY <3>1 DEF Once
      <4>2. u[q] = r[q] /\ i \in 1..(n + 1)
        BY <1>1, <2>4, <3>1
      <4> QED BY <4>1, <4>2
    <3>2. CASE q \notin 1..Len(r)
      <4>1. PICK k \in 1..Len(t) : q = Len(r) + k
        BY <2>5, <3>2
      <4>2. u[q] = t[k] /\ k \in DOMAIN t
        BY <2>3, <2>4, <4>1
      <4> QED BY <1>1, <1>3, <4>2 DEF t
    <3> QED BY <3>1, <3>2
  <2>8. ASSUME NEW i \in 1..(n + 1), Lists(f, i), NEW k \in DOMAIN f.sections[i].initializers
        PROVE  \E q \in 1..Len(u) : \A p \in 1..Len(u) : u[p] = f.sections[i].initializers[k] <=> p = q
    <3>1. CASE i \in 1..n
      <4>1. PICK q \in 1..Len(r) : \A p \in 1..Len(r) : r[p] = f.sections[i].initializers[k] <=> p = q
        BY <2>8, <3>1 DEF Once
      <4>2. ASSUME NEW p \in 1..Len(u) PROVE u[p] = f.sections[i].initializers[k] <=> p = q
        <5>1. CASE p \in 1..Len(r)
          BY <2>4, <4>1, <5>1
        <5>2. CASE p \notin 1..Len(r)
          <6>1. PICK l \in 1..Len(t) : p = Len(r) + l
            BY <2>5, <5>2
          <6>2. u[p] = t[l] /\ l \in DOMAIN t
            BY <2>3, <2>4, <6>1
          <6>3. u[p] # f.sections[i].initializers[k]
            BY <2>2, <3>1, <6>2
          <6> QED BY <4>1, <5>2, <6>3
        <5> QED BY <5>1, <5>2
      <4> QED BY <2>4, <4>2
    <3>2. CASE i = n + 1
      <4>1. k \in DOMAIN t /\ f.sections[i].initializers[k] = t[k]
        BY <3>2 DEF t
      <4> DEFINE q == Len(r) + k
      <4>2. q \in 1..Len(u) /\ u[q] = t[k] /\ q \in Nat /\ q \notin 1..Len(r)
        BY <2>3, <2>4, <4>1
      <4>3. ASSUME NEW p \in 1..Len(u) PROVE u[p] = t[k] <=> p = q
        <5>1. CASE p \in 1..Len(r)
          <6>1. PICK j \in 1..n : \E l \in DOMAIN f.sections[j].initializers : r[p] = f.sections[j].initializers[l]
            BY <5>1 DEF Once
          <6>2. r[p] # t[k]
            BY <2>2, <4>1, <6>1
          <6> QED BY <2>4, <4>2, <5>1, <6>2
        <5>2. CASE p \notin 1..Len(r)
          <6>1. PICK l \in 1..Len(t) : p = Len(r) + l
            BY <2>5, <5>2
          <6>2. u[p] = t[l] /\ l \in DOMAIN t
            BY <2>3, <2>4, <6>1
          <6>3. t[l] = t[k] <=> l = k
            BY <2>1, <4>1, <6>2
          <6>4. l = k <=> p = q
            BY <2>3, <4>1, <6>1
          <6> QED BY <6>2, <6>3, <6>4
        <5> QED BY <5>1, <5>2
      <4> HIDE DEF q
      <4> QED BY <4>1, <4>2, <4>3
    <3> QED BY <1>1, <3>1, <3>2
  <2>9. Once(f, u, n + 1)
    BY <2>6, <2>7, <2>8 DEF Once
  <2> QED BY <1>3, <2>9 DEF u, t
<1> QED BY <1>2, <1>3

\* An initializer runs once.
RanOK ==
    /\ at \notin {"initializers"} \cup Late \cup Ended => ran = <<>>
    /\ at = "initializers" => Once(file, ran, section)
    /\ at \in Late => Once(file, ran, Len(file.sections))

\* The mapped image has the initializers of the file.
LEMMA MappedInitializers ==
  ASSUME ImageOK, FileOK, at \in Loaded, NEW i \in DOMAIN file.sections
  PROVE  Loading!Initializers(file.sections[i]) = file.sections[i].initializers
<1> DEFINE d == file.sections[i]
<1>0. Loaded \subseteq Valid
  BY DEF Valid
<1>1. file \in Files /\ file.valid
  BY <1>0, FileOfStep
<1>2. /\ file.SizeOfImage \in Nat \ {0} /\ Len(file.sections) \in Nat /\ DOMAIN file.sections = 1..Len(file.sections)
      /\ d \in Loading!Sections(file) /\ Loading!WellFormed(file)
  BY <1>1, FileFacts
<1>3. CASE d.initializers = <<>>
  BY <1>3 DEF Loading!Initializers
<1>4. CASE d.initializers # <<>>
  <2>1. d.page \in 1..(file.SizeOfImage - 1) /\ d.raw \in Nat /\ d.raw > 0
    <3>1. /\ d.page \in 1..(file.SizeOfImage - 1) /\ d.raw \in 0..(file.SizeOfImage - d.page)
          /\ d.initializers # <<>> => d.raw > 0
      BY <1>2 DEF Loading!WellFormed
    <3> QED BY <1>2, <1>4, <3>1
  <2>2. Loading!HasData(d, d.page)
    BY <2>1 DEF Loading!HasData
  <2>3. ReadInto(d.page, Len(file.sections))
    BY <2>1 DEF ImageOK
  <2>4. PICK j \in 1..Len(file.sections) : Loading!HasData(file.sections[j], d.page) /\ image[d.page] = file.sections[j].name
    BY <1>2, <2>2, <2>3 DEF ReadInto
  <2>5. j = i
    <3>1. d.page \in 0..file.SizeOfImage
      BY <1>2, <2>1
    <3> QED BY <1>2, <2>2, <2>4, <3>1 DEF Loading!WellFormed
  <2> QED BY <2>4, <2>5 DEF Loading!Initializers
<1> QED BY <1>3, <1>4

\* Initializers have run that the sections so far name.
LEMMA RanStep ==
  ASSUME RanOK, ImageOK, SectionOK, FileOK, Loading!Next
  PROVE  RanOK'
<1>s. /\ "initializers" \in Loaded /\ "initializers" \notin Late \cup Ended /\ Loaded \subseteq Valid /\ Late \subseteq Loaded
      /\ "get" \notin {"initializers"} \cup Late \cup Ended /\ Ended \cap Late = {} /\ "get" \in Loaded
      /\ Loading!Failed \in Ended /\ "volume" \notin {"initializers"} \cup Late
  BY DEF Valid, Loaded, Informed, Drawn, Mapped, Late, Ended, Loading!Failed
<1>1. CASE Loading!RunInitializers
  <2>1. /\ at = "initializers" /\ at' = at /\ file' = file /\ section' = section + 1 /\ section < Len(file.sections)
        /\ ran' = IF file.sections[section + 1].name = ".CRT"
                  THEN ran \o Loading!Initializers(file.sections[section + 1]) ELSE ran
    BY <1>1 DEF Loading!RunInitializers
  <2>2. file \in Files /\ file.valid /\ section \in Nat /\ section + 1 \in DOMAIN file.sections
    BY <1>s, <2>1, FileOfStep, FileFacts DEF SectionOK
  <2>3. ran' = IF Lists(file, section + 1) THEN ran \o file.sections[section + 1].initializers ELSE ran
    BY <1>s, <2>1, <2>2, MappedInitializers DEF Lists
  <2>4. Once(file, ran, section)
    BY <2>1 DEF RanOK
  <2>5. Once(file, ran', section + 1)
    BY <2>1, <2>2, <2>3, <2>4, OnceMore
  <2>6. Once(file', ran', section')
    BY <2>1, <2>5
  <2>7. Once(file, ran, section)'
    BY <2>6 DEF Once, Lists
  <2> QED BY <1>s, <2>1, <2>7 DEF RanOK
<1>2. CASE Loading!LeaveBootServices
  <2>1. at = "initializers" /\ section = Len(file.sections) /\ UNCHANGED <<file, ran>> /\ at' = "exit"
    BY <1>2 DEF Loading!LeaveBootServices, Loading!loading, Loading!Go
  <2>2. Once(file, ran, Len(file.sections))
    BY <2>1 DEF RanOK
  <2>3. Once(file', ran', Len(file'.sections))
    BY <2>1, <2>2
  <2>4. Once(file, ran, Len(file.sections))'
    BY <2>3 DEF Once, Lists
  <2> QED BY <1>s, <2>1, <2>4 DEF RanOK, Late
<1>3. CASE ~Loading!RunInitializers /\ ~Loading!LeaveBootServices
  <2>1. ran' = ran /\ (at' \in Late => at \in Late)
    BY <1>3, Stays, Entering
  <2>2. at # "initializers"
    BY <1>3, Inside
  <2>3. Loading!OpenFile => at = "volume"
    BY DEF Loading!OpenFile, Loading!Go, Loading!Fail
  <2>4. at \in Late => file' = file
    BY <1>s, <2>3, Stays
  <2>5. at' = "initializers" => at = "get"
    BY <2>2, Going DEF Moves, Loading!Failed
  <2>6. at' \notin {"initializers"} \cup Late \cup Ended => at \notin {"initializers"} \cup Late \cup Ended
    BY <1>s, <2>2, Going DEF Moves, Late, Ended
  <2>7. at' \in Late => Once(file, ran, Len(file.sections))'
    BY <2>1, <2>4 DEF RanOK, Once, Lists
  <2>8. at' = "initializers" => Once(file, ran, section)'
    <3> SUFFICES ASSUME at' = "initializers" PROVE Once(file, ran, section)'
      OBVIOUS
    <3>1. at = "get" /\ ran = <<>> /\ section' = 0
      <4>1. at = "get" /\ ran = <<>>
        BY <1>s, <2>5 DEF RanOK
      <4>2. section = 0
        BY <1>s, <4>1 DEF SectionOK
      <4>3. "get" \notin {"volume", "sections"}
        OBVIOUS
      <4>4. ~Loading!OpenFile /\ ~Loading!ReadSection /\ ~Loading!LoadKernel
        BY <4>1 DEF Loading!OpenFile, Loading!Go, Loading!Fail, Loading!ReadSection, Loading!LoadKernel
      <4> QED BY <1>3, <4>1, <4>2, <4>4, Stays
    <3>2. ran' = <<>>
      BY <2>1, <3>1
    <3>3. Once(file', <<>>, 0)
      <4>1. <<>> \in Seq({(<<>>)[q] : q \in DOMAIN <<>>}) /\ 1..Len(<<>>) = {} /\ 1..0 = {}
        OBVIOUS
      <4> QED BY <4>1 DEF Once
    <3> QED BY <3>1, <3>2, <3>3 DEF Once, Lists
  <2> QED BY <2>1, <2>6, <2>7, <2>8 DEF RanOK
<1> QED BY <1>1, <1>2, <1>3

\* The loader's invariant.
LoaderInv == LeavesOK /\ AreasOK /\ FileOK /\ SectionOK /\ ImageOK /\ BlockOK /\ UpperOK /\ RanOK

\* The firmware's state.
LEMMA LoaderInit == Loading!Init => LoaderInv
<1> SUFFICES ASSUME Loading!Init PROVE LoaderInv
  OBVIOUS
<1> USE DEF Loading!Init
<1>s. at = "start" /\ "start" \notin Blocked \cup {"initializers"} \cup Late \cup Ended
  BY DEF Blocked, Staged, Tabled, Pooled, Open, Valid, Loaded, Informed, Drawn, Mapped, Late, Ended
<1>t. at \notin Blocked /\ at \notin Staged /\ at \notin Tabled /\ at \notin Pooled /\ at \notin Open /\ at \notin Valid
      /\ at \notin Loaded /\ at \notin Informed /\ at \notin Drawn /\ at \notin Mapped /\ at \notin Late
  BY <1>s DEF Blocked, Staged, Tabled, Pooled, Open, Valid, Loaded, Informed, Drawn, Mapped, Late
<1>1. LeavesOK
  BY <1>s, <1>t DEF LeavesOK
<1>2. AreasOK
  BY <1>t DEF AreasOK
<1>3. FileOK /\ SectionOK /\ ImageOK /\ UpperOK
  BY <1>s, <1>t DEF FileOK, SectionOK, ImageOK, UpperOK
<1>4. BlockOK
  <2>1. tables \in Seq(AcpiTables) /\ tables = <<>> /\ fadt = FALSE
    OBVIOUS
  <2> QED BY <1>t, <2>1 DEF BlockOK
<1>5. RanOK
  BY <1>s, <1>t DEF RanOK
<1> QED BY <1>1, <1>2, <1>3, <1>4, <1>5 DEF LoaderInv

\* The loader's invariant is inductive.
LEMMA LoaderStep == LoaderInv /\ [NextBoot]_<<vars, handoff, loader>> => LoaderInv'
<1> SUFFICES ASSUME LoaderInv, [NextBoot]_<<vars, handoff, loader>> PROVE LoaderInv'
  OBVIOUS
<1>1. CASE Loading!Next
  BY <1>1, LeavesStep, AreasStep, FileStep, SectionStep, ImageStep, BlockStep, UpperStep, RanStep DEF LoaderInv
<1>2. CASE UNCHANGED Loading!vars
  <2> USE <1>2 DEF Loading!vars, Loading!loading, Loading!acpi
  <2>1. LeavesOK' /\ AreasOK' /\ FileOK' /\ SectionOK' /\ UpperOK'
    <3>1. LeavesOK' /\ AreasOK'
      BY DEF LoaderInv, LeavesOK, AreasOK
    <3>2. FileOK' /\ SectionOK'
      BY DEF LoaderInv, FileOK, SectionOK
    <3>3. UpperOK'
      BY DEF LoaderInv, UpperOK
    <3> QED BY <3>1, <3>2, <3>3
  <2>2. ImageOK'
    BY DEF LoaderInv, ImageOK, ReadInto
  <2>3. BlockOK'
    BY DEF LoaderInv, BlockOK, HpetOK, MadtOK, FadtOK, Loading!Found, Loading!Has8042
  <2>4. RanOK'
    BY DEF LoaderInv, RanOK, Once, Lists
  <2> QED BY <2>1, <2>2, <2>3, <2>4 DEF LoaderInv
<1>3. Loading!Next \/ UNCHANGED Loading!vars
  BY LoaderSteps DEF vars, handoff, loader, Loading!vars, Loading!loading, Loading!acpi
<1> QED BY <1>1, <1>2, <1>3

\* Loader's Cardinality is that of FiniteSets.
LEMMA SameCardinality ==
  ASSUME NEW S
  PROVE  Loading!Cardinality(S) = Cardinality(S)
BY DEF Loading!Cardinality, Cardinality

\* LoaderInv says what KernelIsWhole wants.
LEMMA LoaderWhole == LoaderInv => KernelIsWhole
<1> SUFFICES ASSUME LoaderInv, at = "kernel" PROVE KernelIsWhole
  BY DEF KernelIsWhole, Loading!KernelIsWhole
<1>s. at \in Blocked /\ at \in Staged /\ at \in Tabled /\ at \in Pooled /\ at \in Open /\ at \in Valid
      /\ at \in Loaded /\ at \in Informed /\ at \in Drawn /\ at \in Mapped /\ at \in Late
  BY DEF Blocked, Staged, Tabled, Pooled, Open, Valid, Loaded, Informed, Drawn, Mapped, Late
<1>f. /\ file \in Files /\ file.valid /\ file.SizeOfImage \in Nat \ {0} /\ Len(file.sections) \in Nat
      /\ DOMAIN file.sections = 1..Len(file.sections)
  BY <1>s, FileFacts DEF LoaderInv, FileOK
<1>1. ASSUME NEW p \in DOMAIN image
      PROVE  IF p = 0 THEN image[p] = "relocated headers"
             ELSE IF \E d \in Loading!Sections(file) : Loading!HasData(d, p)
             THEN \E d \in Loading!Sections(file) : Loading!HasData(d, p) /\ image[p] = d.name
             ELSE image[p] = "zero"
  <2>1. CASE p = 0
    BY <1>s, <2>1 DEF LoaderInv, ImageOK
  <2>2. CASE p # 0
    <3>1. p \in 1..(file.SizeOfImage - 1)
      <4>1. DOMAIN image = 0..(file.SizeOfImage - 1)
        BY <1>s DEF LoaderInv, ImageOK
      <4> QED BY <1>f, <1>1, <2>2, <4>1
    <3>2. ReadInto(p, Len(file.sections))
      BY <1>s, <3>1 DEF LoaderInv, ImageOK
    <3> QED BY <1>f, <2>2, <3>2 DEF ReadInto, Loading!Sections
  <2> QED BY <2>1, <2>2
<1>2. \A a \in Loading!Areas : areas[a] = "zero"
  BY <1>s DEF LoaderInv, AreasOK, Loading!Areas
<1>3. {"image", "kernel tables", "pool"} \subseteq upper
  BY <1>s DEF LoaderInv, UpperOK
<1>4. ASSUME NEW d \in Loading!Sections(file), d.name = ".CRT", NEW k \in DOMAIN d.initializers
      PROVE  Cardinality({q \in DOMAIN ran : ran[q] = d.initializers[k]}) = 1
  <2>1. PICK i \in 1..Len(file.sections) : d = file.sections[i]
    BY <1>f DEF Loading!Sections
  <2>2. Once(file, ran, Len(file.sections))
    BY <1>s DEF LoaderInv, RanOK
  <2>3. PICK q \in 1..Len(ran) : \A p \in 1..Len(ran) : ran[p] = d.initializers[k] <=> p = q
    BY <1>4, <2>1, <2>2 DEF Once, Lists
  <2>4. DOMAIN ran = 1..Len(ran)
    BY <2>2 DEF Once
  <2>5. {p \in DOMAIN ran : ran[p] = d.initializers[k]} = {q}
    BY <2>3, <2>4
  <2> QED BY <2>5, FS_Singleton
<1>5. block.kernel = Cardinality(DOMAIN image)
  <2>1. block.kernel = file.SizeOfImage /\ DOMAIN image = 0..(file.SizeOfImage - 1)
    BY <1>s DEF LoaderInv, BlockOK, ImageOK
  <2>2. Cardinality(0..(file.SizeOfImage - 1)) = file.SizeOfImage
    <3> DEFINE n == file.SizeOfImage
    <3>1. n \in Int /\ n - 1 \in Int /\ n >= 1 /\ 0 \in Int
      BY <1>f
    <3> HIDE DEF n
    <3>2. Cardinality(0..(n - 1)) = IF 0 > n - 1 THEN 0 ELSE (n - 1) - 0 + 1
      BY <3>1, FS_Interval
    <3>3. Cardinality(0..(n - 1)) = n
      BY <3>1, <3>2
    <3> QED BY <3>3 DEF n
  <2> QED BY <2>1, <2>2
<1>6. /\ IF Loading!Found("hpet") = {} THEN block.hpet = "zero"
         ELSE \E k \in Loading!Found("hpet") :
                (\A l \in Loading!Found("hpet") : l <= k) /\ block.hpet = tables[k].id
      /\ Loading!Found("madt") # {} /\ Loading!Found("fadt") # {}
      /\ block.i8042 \/ \E k \in Loading!Found("fadt") : ~Loading!Has8042(tables[k])
  BY <1>s DEF LoaderInv, BlockOK, HpetOK, MadtOK, FadtOK
<1>7. \A d \in Loading!Sections(file) : d.name = ".CRT" =>
        \A i \in DOMAIN d.initializers : Cardinality({k \in DOMAIN ran : ran[k] = d.initializers[i]}) = 1
  BY <1>4
<1>8. Loading!ImageIsLinked
  BY <1>1 DEF Loading!ImageIsLinked
<1>9. Loading!EachRanOnce
  BY <1>7, SameCardinality DEF Loading!EachRanOnce
<1>10. Loading!BlockIsTrue
  BY <1>5, <1>6, SameCardinality DEF Loading!BlockIsTrue
<1> QED BY <1>2, <1>3, <1>8, <1>9, <1>10 DEF KernelIsWhole, Loading!KernelIsWhole

\* What the loader does is Loader's, whatever the memory map and the kernel do.
THEOREM BootImplementsLoader == SpecBoot => Loading!Spec
<1>1. InitBoot => Loading!Init
  BY DEF InitBoot
<1>2. [NextBoot]_<<vars, handoff, loader>> => [Loading!Next]_(Loading!vars)
  BY LoaderSteps DEF vars, handoff, loader, Loading!vars, Loading!loading, Loading!acpi
<1> QED BY <1>1, <1>2, PTL DEF SpecBoot, Loading!Spec

\* The loader's invariant.
LEMMA LoaderInvariance == SpecBoot => []LoaderInv
<1>1. InitBoot => LoaderInv
  BY LoaderInit DEF InitBoot
<1> QED BY <1>1, LoaderStep, PTL DEF SpecBoot

\* When EfiMain calls the kernel, its image is what the linker made of it, of any file
\* of Files, its initializers have run once, and the loader block speaks of the tables
\* the firmware has.
THEOREM KernelIsAlwaysWhole == SpecBoot => []KernelIsWhole
BY LoaderInvariance, LoaderWhole, PTL

\* efi_check returns to the firmware as long as there is one to return to.
THEOREM AlwaysReturnsInOrder == SpecBoot => []ReturnsInOrder
<1>1. LoaderInv => ReturnsInOrder
  BY DEF LoaderInv, LeavesOK, ReturnsInOrder, Loading!ReturnsInOrder, Late
<1> QED BY <1>1, LoaderInvariance, PTL
-----------------------------------------------------------------------------
(* MemoryMap.                                                               *)

Descriptors == [kind : Handoff!Kinds, start : Nat, pages : Nat, virtual : Nat]
Spans(d, p) == p \in d.start..(d.start + d.pages - 1)

\* The descriptors of m that V names describe each page once, as kinds has it.
Describes(m, V, kinds) ==
    /\ m \in Seq(Descriptors) /\ V \subseteq DOMAIN m
    /\ \A i \in V : m[i].start + m[i].pages <= NPages
    /\ \A i \in V, p \in Handoff!Physical : Spans(m[i], p) => m[i].kind = kinds[p]
    /\ \A i, j \in V, p \in Handoff!Physical : Spans(m[i], p) /\ Spans(m[j], p) => i = j
    /\ \A p \in Handoff!Physical : kinds[p] # Handoff!Hole => \E i \in V : Spans(m[i], p)

\* Where set_virtual_address_map has been told.
Virtuals(m, V) == \A i \in V : m[i].kind.runtime => m[i].virtual = m[i].start + Base

AllKinds == [Handoff!Physical -> Handoff!Kinds \cup {Handoff!Hole}]

\* The kinds of memory differ.
LEMMA KindFacts ==
  /\ Handoff!Hole \notin Handoff!Kinds /\ Handoff!Free \in Handoff!Kinds /\ Handoff!Data \in Handoff!Kinds
  /\ Handoff!Boot \in Handoff!Kinds /\ Handoff!Data \notin {Handoff!Free, Handoff!Boot}
  /\ ~Handoff!Hole.runtime /\ ~Handoff!Free.runtime /\ ~Handoff!Boot.runtime
<1> USE DEF Handoff!Hole, Handoff!Free, Handoff!Data, Handoff!Boot, Handoff!Kind
<1>1. ASSUME NEW k \in Handoff!Kinds
      PROVE  k.type # "not described"
  <2>1. CASE k = Handoff!Free
    BY <2>1
  <2>2. CASE k = Handoff!Data
    BY <2>2
  <2>3. CASE k = Handoff!Boot
    BY <2>3
  <2>4. CASE k = Handoff!Kind("boot", TRUE)
    BY <2>4
  <2>5. CASE k = Handoff!Kind("runtime services", TRUE)
    BY <2>5
  <2> HIDE DEF Handoff!Hole, Handoff!Free, Handoff!Data, Handoff!Boot, Handoff!Kind
  <2> QED BY <2>1, <2>2, <2>3, <2>4, <2>5 DEF Handoff!Kinds
<1>2. Handoff!Hole.type = "not described" /\ Handoff!Hole.runtime = FALSE
  OBVIOUS
<1>3. Handoff!Free.type = "conventional" /\ Handoff!Free.runtime = FALSE /\ Handoff!Free \in Handoff!Kinds
  BY DEF Handoff!Kinds
<1>4. Handoff!Boot.type = "boot" /\ Handoff!Boot.runtime = FALSE /\ Handoff!Boot \in Handoff!Kinds
  BY DEF Handoff!Kinds
<1>5. Handoff!Data.type = "loader data" /\ Handoff!Data \in Handoff!Kinds
  BY DEF Handoff!Kinds
<1> HIDE DEF Handoff!Hole, Handoff!Free, Handoff!Data, Handoff!Boot, Handoff!Kind
<1> QED BY <1>1, <1>2, <1>3, <1>4, <1>5

\* A descriptor ends where the next one begins, and before the kind changes.
LEMMA DescriptorSpans ==
  ASSUME memory \in AllKinds, NEW s \in Handoff!Starts, NEW p \in s
  PROVE  LET d == Handoff!Descriptor(s, p) IN
         /\ d \in Descriptors /\ d.start = p /\ d.kind = memory[p] /\ d.pages > 0 /\ p + d.pages <= NPages
         /\ \A q \in Handoff!Physical : Spans(d, q) /\ q # p => q \notin s /\ memory[q] = memory[p]
         /\ p + d.pages # NPages => p + d.pages \in s \/ memory[p + d.pages] # memory[p]
<1> DEFINE next == {q \in Handoff!Physical : q > p /\ (q \in s \/ memory[q] # memory[p])} \cup {NPages}
           end  == CHOOSE q \in next : \A r \in next : q <= r
<1>1. p \in Handoff!Physical /\ memory[p] \in Handoff!Kinds /\ NPages \in Nat /\ p \in Nat /\ p < NPages
  BY BootAssumption DEF AllKinds, Handoff!Starts, Handoff!Described, Handoff!Physical
<1>2. next \subseteq Nat /\ next # {} /\ \A q \in next : q > p /\ q <= NPages
  BY <1>1 DEF Handoff!Physical
<1>3. \E q \in next : \A r \in next : q <= r
  BY <1>2, LeastNatural
<1>4. end \in next /\ \A r \in next : end <= r
  BY <1>3
<1>5. Handoff!Descriptor(s, p) = [kind |-> memory[p], start |-> p, pages |-> end - p, virtual |-> 0]
  BY DEF Handoff!Descriptor, Handoff!MemoryDescriptor
<1> HIDE DEF end
<1>6. end - p \in Nat /\ end - p > 0 /\ p + (end - p) = end /\ end <= NPages /\ end \in Nat
  BY <1>1, <1>2, <1>4
<1>7. ASSUME NEW q \in Handoff!Physical, q \in p..(end - 1), q # p
      PROVE  q \notin s /\ memory[q] = memory[p]
  BY <1>1, <1>4, <1>6, <1>7 DEF Handoff!Physical
<1>8. end # NPages => end \in s \/ memory[end] # memory[p]
  BY <1>4
<1> HIDE DEF next
<1>9. Handoff!Descriptor(s, p).start = p /\ Handoff!Descriptor(s, p).pages = end - p
  BY <1>5
<1>10. \A q \in Handoff!Physical : Spans(Handoff!Descriptor(s, p), q) <=> q \in p..(end - 1)
  <2>1. p + (end - p) - 1 = end - 1
    BY <1>1, <1>6
  <2> QED BY <1>9, <2>1 DEF Spans
<1>11. Handoff!Descriptor(s, p) \in Descriptors
  BY <1>1, <1>5, <1>6 DEF Descriptors
<1> QED BY <1>1, <1>5, <1>6, <1>7, <1>8, <1>10, <1>11

\* A page that is described is in one of the descriptors that begin at starts.
LEMMA SomeSpans ==
  ASSUME memory \in AllKinds, NEW s \in Handoff!Starts, NEW q \in Handoff!Described
  PROVE  \E p \in s : Spans(Handoff!Descriptor(s, p), q)
<1>1. /\ NPages \in Nat /\ q \in Handoff!Physical /\ q \in Nat /\ Handoff!Physical = 0..(NPages - 1)
      /\ s \subseteq Handoff!Physical
  BY BootAssumption DEF Handoff!Described, Handoff!Physical, Handoff!Starts
<1> DEFINE Same == {b \in 0..q : \A r \in b..q : memory[r] = memory[q]}
<1>2. PICK b \in Same : \A c \in Same : b <= c
  <2>1. q \in Same /\ Same \subseteq Nat
    BY <1>1
  <2> HIDE DEF Same
  <2> QED BY <2>1, LeastNatural
<1>3. b \in 0..q /\ \A r \in b..q : memory[r] = memory[q]
  BY <1>2
<1>4. Handoff!Begins(b)
  <2> SUFFICES ASSUME b # 0, memory[b] = memory[b - 1] PROVE FALSE
    BY DEF Handoff!Begins
  <2>1. \A r \in (b - 1)..q : r = b - 1 \/ r \in b..q
    BY <1>1, <1>3
  <2>2. memory[b] = memory[q]
    BY <1>1, <1>3
  <2>3. b - 1 \in Same
    <3>1. \A r \in (b - 1)..q : memory[r] = memory[q]
      BY <1>3, <2>1, <2>2
    <3>2. b - 1 \in 0..q
      BY <1>1, <1>3
    <3> QED BY <3>1, <3>2
  <2> QED BY <1>1, <1>2, <1>3, <2>3
<1>5. b \in s
  <2>1. b \in Handoff!Described
    BY <1>1, <1>3 DEF Handoff!Described
  <2> QED BY <1>4, <2>1 DEF Handoff!Starts
<1> HIDE DEF Same
<1> DEFINE Back == {k \in 0..q : q - k \in s}
<1>6. PICK k \in Back : \A c \in Back : k <= c
  <2>1. q - b \in 0..q /\ q - (q - b) = b
    BY <1>1, <1>3
  <2>2. q - b \in Back /\ Back \subseteq Nat
    BY <1>5, <2>1
  <2> HIDE DEF Back
  <2> QED BY <2>2, LeastNatural
<1> DEFINE p == q - k
<1>7. p \in s /\ p \in 0..q /\ k \in 0..q
  BY <1>1, <1>6
<1>8. b <= p
  <2>1. q - b \in Back
    <3>1. q - b \in 0..q /\ q - (q - b) = b
      BY <1>1, <1>3
    <3> QED BY <1>5, <3>1
  <2>2. k <= q - b
    BY <1>6, <2>1
  <2> QED BY <1>1, <1>3, <1>7, <2>2
<1>9. \A r \in (p + 1)..q : r \notin s /\ memory[r] = memory[q]
  <2> SUFFICES ASSUME NEW r \in (p + 1)..q PROVE r \notin s /\ memory[r] = memory[q]
    OBVIOUS
  <2>1. r \in b..q /\ q - r \in 0..q /\ q - (q - r) = r /\ q - r < k
    BY <1>1, <1>3, <1>7, <1>8
  <2> QED BY <1>3, <1>6, <2>1
<1>10. memory[p] = memory[q]
  BY <1>1, <1>3, <1>7, <1>8
<1> HIDE DEF p
<1> DEFINE d == Handoff!Descriptor(s, p)
<1>11. /\ d \in Descriptors /\ d.start = p /\ d.pages > 0
       /\ p + d.pages # NPages => p + d.pages \in s \/ memory[p + d.pages] # memory[p]
  BY <1>7, DescriptorSpans
<1> HIDE DEF d
<1>12. d.pages \in Nat
  BY <1>11 DEF Descriptors
<1>13. q < p + d.pages
  <2> SUFFICES ASSUME p + d.pages <= q PROVE FALSE
    BY <1>1, <1>7, <1>12
  <2>1. p + d.pages \in (p + 1)..q /\ p + d.pages # NPages
    BY <1>1, <1>7, <1>11, <1>12
  <2> QED BY <1>9, <1>10, <1>11, <2>1
<1>14. Spans(d, q)
  BY <1>1, <1>7, <1>11, <1>12, <1>13 DEF Spans
<1> QED BY <1>7, <1>14 DEF d

\* What get_memory_map returns describes the memory.
LEMMA MapsDescribe ==
  ASSUME memory \in AllKinds, NEW m \in Handoff!Maps
  PROVE  Describes(m, DOMAIN m, memory)
<1>0. NPages \in Nat
  BY BootAssumption
<1>1. PICK s \in Handoff!Starts : m \in Handoff!SetToSeqs({Handoff!Descriptor(s, p) : p \in s})
  BY DEF Handoff!Maps
<1> DEFINE S == {Handoff!Descriptor(s, p) : p \in s}
           n == Cardinality(S)
<1>2. IsFiniteSet(S)
  <2>1. IsFiniteSet(s)
    <3>1. s \subseteq 0..(NPages - 1)
      BY DEF Handoff!Starts, Handoff!Described, Handoff!Physical
    <3>2. IsFiniteSet(0..(NPages - 1))
      BY <1>0, FS_Interval
    <3> QED BY <3>1, <3>2, FS_Subset
  <2> DEFINE f == [p \in s |-> Handoff!Descriptor(s, p)]
  <2>2. f \in Surjection(s, S)
    BY DEF Surjection
  <2> HIDE DEF f, S
  <2> QED BY <2>1, <2>2, FS_Surjection
<1>3. n \in Nat
  BY <1>2, FS_CardinalityType
<1>4. m \in [1..n -> S] /\ \A i, j \in 1..n : i # j => m[i] # m[j]
  BY <1>1 DEF Handoff!SetToSeqs, Handoff!Cardinality, Cardinality
<1> HIDE DEF n
<1>5. \A d \in S : \E i \in 1..n : m[i] = d
  <2> HIDE DEF S
  <2>1. m \in Injection(1..n, S)
    BY <1>4 DEF Injection, IsInjective
  <2>2. Cardinality(1..n) = n
    BY <1>3, FS_Interval
  <2>3. m \in Surjection(1..n, S)
    BY <1>2, <1>3, <2>1, <2>2, FS_Injection DEF n
  <2> QED BY <2>3 DEF Surjection
<1>6. \A d \in S : \E p \in s : d = Handoff!Descriptor(s, p)
  OBVIOUS
<1>7. S \subseteq Descriptors
  BY DescriptorSpans
<1>8. \A p \in s : Handoff!Descriptor(s, p) \in S
  OBVIOUS
<1> HIDE DEF S
<1>9. m \in Seq(Descriptors) /\ DOMAIN m = 1..n
  BY <1>3, <1>4, <1>7, SeqDef
<1>10. ASSUME NEW i \in 1..n
       PROVE  \E p \in s : m[i] = Handoff!Descriptor(s, p)
  BY <1>4, <1>6
<1>11. ASSUME NEW i \in 1..n
       PROVE  /\ m[i].start + m[i].pages <= NPages
              /\ \A p \in Handoff!Physical : Spans(m[i], p) => m[i].kind = memory[p]
  <2>1. PICK p \in s : m[i] = Handoff!Descriptor(s, p)
    BY <1>10
  <2> QED BY <2>1, DescriptorSpans
<1>12. ASSUME NEW i \in 1..n, NEW j \in 1..n, NEW q \in Handoff!Physical, Spans(m[i], q), Spans(m[j], q)
       PROVE  i = j
  <2>1. PICK a \in s : m[i] = Handoff!Descriptor(s, a)
    BY <1>10
  <2>2. PICK b \in s : m[j] = Handoff!Descriptor(s, b)
    BY <1>10
  <2>3. /\ m[i].start = a /\ m[i].pages \in Nat /\ a \in Handoff!Physical
        /\ m[j].start = b /\ m[j].pages \in Nat /\ b \in Handoff!Physical
    <3>1. a \in Handoff!Physical /\ b \in Handoff!Physical
      BY DEF Handoff!Starts, Handoff!Described
    <3>2. m[i].start = a /\ m[j].start = b /\ m[i] \in Descriptors /\ m[j] \in Descriptors
      BY <2>1, <2>2, DescriptorSpans
    <3> QED BY <3>1, <3>2 DEF Descriptors
  <2>4. a \in Nat /\ b \in Nat /\ q \in Nat /\ q \in a..(a + m[i].pages - 1) /\ q \in b..(b + m[j].pages - 1)
    BY <1>0, <1>12, <2>3 DEF Spans, Handoff!Physical
  <2>5. ~(a < b)
    <3> SUFFICES ASSUME a < b PROVE FALSE
      OBVIOUS
    <3>1. Spans(m[i], b)
      BY <2>3, <2>4 DEF Spans
    <3> QED BY <2>1, <2>3, <3>1, DescriptorSpans, <2>4
  <2>6. ~(b < a)
    <3> SUFFICES ASSUME b < a PROVE FALSE
      OBVIOUS
    <3>1. Spans(m[j], a)
      BY <2>3, <2>4 DEF Spans
    <3> QED BY <2>2, <2>3, <3>1, DescriptorSpans, <2>4
  <2>7. a = b
    BY <2>4, <2>5, <2>6
  <2> QED BY <1>4, <2>1, <2>2, <2>7
<1>13. ASSUME NEW q \in Handoff!Physical, memory[q] # Handoff!Hole
       PROVE  \E i \in 1..n : Spans(m[i], q)
  <2>1. q \in Handoff!Described
    BY <1>13 DEF Handoff!Described
  <2>2. PICK p \in s : Spans(Handoff!Descriptor(s, p), q)
    BY <2>1, SomeSpans
  <2>3. PICK i \in 1..n : m[i] = Handoff!Descriptor(s, p)
    BY <1>5, <1>8
  <2> QED BY <2>2, <2>3
<1> QED BY <1>9, <1>11, <1>12, <1>13 DEF Describes

\* The pages that runtime services use, and where the firmware is told they will be.
RuntimeMapping(m) == UNION {Handoff!Mapping(m[i]) : i \in Handoff!RuntimeEntries(m)}
Told(kinds) == {<<p + Base, p>> : p \in {q \in Handoff!Physical : kinds[q].runtime}}

\* A map that describes the memory has the runtime services' pages mapped there.
LEMMA MappingsTold ==
  ASSUME NEW kinds \in AllKinds, NEW m, Describes(m, DOMAIN m, kinds), Virtuals(m, DOMAIN m)
  PROVE  RuntimeMapping(m) = Told(kinds)
<1>0. NPages \in Nat /\ Base \in Nat /\ Handoff!Physical = 0..(NPages - 1)
  BY BootAssumption DEF Handoff!Physical
<1>1. ASSUME NEW i \in DOMAIN m
      PROVE  /\ m[i].start \in Nat /\ m[i].pages \in Nat /\ m[i].start + m[i].pages <= NPages
             /\ m[i].kind \in Handoff!Kinds
  <2>1. m[i] \in Descriptors /\ m[i].start + m[i].pages <= NPages
    BY DEF Describes
  <2> QED BY <2>1 DEF Descriptors
<1>2. ASSUME NEW i \in Handoff!RuntimeEntries(m), NEW x \in Handoff!Mapping(m[i])
      PROVE  x \in Told(kinds)
  <2>1. i \in DOMAIN m /\ m[i].kind.runtime
    BY DEF Handoff!RuntimeEntries
  <2>2. PICK k \in 0..(m[i].pages - 1) : x = <<m[i].virtual + k, m[i].start + k>>
    BY DEF Handoff!Mapping
  <2> DEFINE p == m[i].start + k
  <2>3. p \in Handoff!Physical /\ Spans(m[i], p) /\ m[i].virtual + k = p + Base
    <3> DEFINE a == m[i].start
               n == m[i].pages
    <3>1. m[i].virtual = a + Base
      BY <2>1 DEF Virtuals
    <3>2. a \in Nat /\ n \in Nat /\ a + n <= NPages /\ k \in 0..(n - 1) /\ p = a + k
      BY <1>1, <2>1
    <3>3. Spans(m[i], p) <=> p \in a..(a + n - 1)
      BY DEF Spans
    <3> HIDE DEF a, n, p
    <3> QED BY <1>0, <3>1, <3>2, <3>3
  <2>4. kinds[p].runtime
    BY <2>1, <2>3 DEF Describes
  <2> QED BY <2>2, <2>3, <2>4 DEF Told
<1>3. ASSUME NEW p \in Handoff!Physical, kinds[p].runtime
      PROVE  \E i \in Handoff!RuntimeEntries(m) : <<p + Base, p>> \in Handoff!Mapping(m[i])
  <2>1. kinds[p] # Handoff!Hole
    BY <1>3, KindFacts
  <2>2. PICK i \in DOMAIN m : Spans(m[i], p)
    BY <2>1 DEF Describes
  <2>3. m[i].kind.runtime /\ i \in Handoff!RuntimeEntries(m)
    BY <1>3, <2>2 DEF Describes, Handoff!RuntimeEntries
  <2>4. m[i].virtual = m[i].start + Base
    BY <2>3 DEF Virtuals
  <2> DEFINE k == p - m[i].start
  <2>5. k \in 0..(m[i].pages - 1) /\ m[i].virtual + k = p + Base /\ m[i].start + k = p
    <3> DEFINE a == m[i].start
               n == m[i].pages
    <3>1. a \in Nat /\ n \in Nat /\ p \in a..(a + n - 1) /\ m[i].virtual = a + Base /\ k = p - a /\ p \in Nat
      BY <1>0, <1>1, <2>2, <2>4 DEF Spans
    <3> HIDE DEF a, n, k
    <3>2. k \in 0..(n - 1) /\ m[i].virtual + k = p + Base /\ a + k = p
      BY <1>0, <3>1
    <3> QED BY <3>2 DEF a, n
  <2> HIDE DEF k
  <2> QED BY <2>3, <2>5 DEF Handoff!Mapping
<1>4. \A x \in Told(kinds) : \E i \in Handoff!RuntimeEntries(m) : x \in Handoff!Mapping(m[i])
  BY <1>3 DEF Told
<1> QED BY <1>2, <1>4 DEF RuntimeMapping

\* Descriptors that tell the same of each page describe the same.
LEMMA DescribedAlike ==
  ASSUME NEW kinds, NEW others, NEW m, NEW n, NEW V, Describes(m, V, kinds), n \in Seq(Descriptors),
         DOMAIN n = DOMAIN m,
         \A i \in V : n[i].start = m[i].start /\ n[i].pages = m[i].pages,
         \A i \in V, p \in Handoff!Physical : m[i].kind = kinds[p] => n[i].kind = others[p],
         \A p \in Handoff!Physical : others[p] # Handoff!Hole => kinds[p] # Handoff!Hole
  PROVE  Describes(n, V, others)
BY DEF Describes, Spans

\* What Coalesce does to the map.
Merged(m, l, e) == [m EXCEPT ![l].pages = @ + m[e].pages]
Moved(m, l, e)  == [m EXCEPT ![l] = m[e]]

\* Two descriptors become one.
LEMMA Merging ==
  ASSUME NEW kinds, NEW m, NEW l, NEW e, NEW V, Describes(m, V, kinds), Virtuals(m, V),
         l \in V, e \in V, l # e, Handoff!Mergeable(m[l], m[e]),
         NEW n, n = Merged(m, l, e)
  PROVE  Describes(n, V \ {e}, kinds) /\ Virtuals(n, V \ {e}) /\ Len(n) = Len(m)
<1>1. /\ m \in Seq(Descriptors) /\ V \subseteq DOMAIN m /\ DOMAIN m = 1..Len(m) /\ Len(m) \in Nat
      /\ m[l] \in Descriptors /\ m[e] \in Descriptors
  BY DEF Describes
<1>2. /\ m[l].start \in Nat /\ m[l].pages \in Nat /\ m[e].start \in Nat /\ m[e].pages \in Nat
      /\ m[l].kind \in Handoff!Kinds /\ m[l].virtual \in Nat
      /\ m[l] = [kind |-> m[l].kind, start |-> m[l].start, pages |-> m[l].pages, virtual |-> m[l].virtual]
  BY <1>1 DEF Descriptors
<1> DEFINE d == [kind |-> m[l].kind, start |-> m[l].start, pages |-> m[l].pages + m[e].pages, virtual |-> m[l].virtual]
<1>3. d \in Descriptors
  BY <1>2 DEF Descriptors
<1>4. [m[l] EXCEPT !.pages = @ + m[e].pages] = d
  BY <1>2
<1>5. n = [m EXCEPT ![l] = d]
  BY <1>4 DEF Merged
<1>6. /\ n \in Seq(Descriptors) /\ Len(n) = Len(m) /\ DOMAIN n = DOMAIN m /\ n[l] = d
      /\ \A i \in DOMAIN m : i # l => n[i] = m[i]
  BY <1>1, <1>3, <1>5
<1>7. d.start = m[l].start /\ d.pages = m[l].pages + m[e].pages /\ d.kind = m[l].kind /\ d.virtual = m[l].virtual
  OBVIOUS
<1> HIDE DEF d
<1>8. m[l].kind = m[e].kind /\ m[l].start + m[l].pages = m[e].start
  BY DEF Handoff!Mergeable
<1>9. \A p \in Handoff!Physical : Spans(n[l], p) <=> Spans(m[l], p) \/ Spans(m[e], p)
  <2>1. /\ n[l].start = m[l].start /\ n[l].start + n[l].pages - 1 = m[e].start + m[e].pages - 1
        /\ \A p \in Handoff!Physical : p \in Int
    BY <1>2, <1>6, <1>7, <1>8, BootAssumption DEF Handoff!Physical
  <2>2. m[l].start + m[l].pages - 1 = m[e].start - 1 /\ m[l].start <= m[e].start
        /\ m[e].start - 1 <= m[e].start + m[e].pages - 1
    BY <1>2, <1>8
  <2> QED BY <1>2, <2>1, <2>2 DEF Spans
<1>10. \A i \in V \ {e} : i # l => n[i] = m[i]
  BY <1>1, <1>6
<1>11. \A i \in V \ {e} : n[i].start + n[i].pages <= NPages
  <2>1. n[l].start + n[l].pages = m[e].start + m[e].pages
    BY <1>2, <1>6, <1>7, <1>8
  <2> QED BY <1>10, <2>1 DEF Describes
<1>12. \A i \in V \ {e}, p \in Handoff!Physical : Spans(n[i], p) => n[i].kind = kinds[p]
  <2>1. \A p \in Handoff!Physical : Spans(n[l], p) => n[l].kind = kinds[p]
    BY <1>6, <1>7, <1>8, <1>9 DEF Describes
  <2> QED BY <1>10, <2>1 DEF Describes
<1>13. \A i, j \in V \ {e}, p \in Handoff!Physical : Spans(n[i], p) /\ Spans(n[j], p) => i = j
  <2> SUFFICES ASSUME NEW i \in V \ {e}, NEW j \in V \ {e}, NEW p \in Handoff!Physical,
                      Spans(n[i], p), Spans(n[j], p)
               PROVE  i = j
    OBVIOUS
  <2>1. \A a, b \in V : Spans(m[a], p) /\ Spans(m[b], p) => a = b
    BY DEF Describes
  <2>2. (i = l /\ Spans(m[e], p)) \/ Spans(m[i], p)
    BY <1>9, <1>10
  <2>3. (j = l /\ Spans(m[e], p)) \/ Spans(m[j], p)
    BY <1>9, <1>10
  <2> QED BY <2>1, <2>2, <2>3
<1>14. \A p \in Handoff!Physical : kinds[p] # Handoff!Hole => \E i \in V \ {e} : Spans(n[i], p)
  <2> SUFFICES ASSUME NEW p \in Handoff!Physical, kinds[p] # Handoff!Hole PROVE \E i \in V \ {e} : Spans(n[i], p)
    OBVIOUS
  <2>1. PICK i \in V : Spans(m[i], p)
    BY DEF Describes
  <2> QED BY <1>9, <1>10, <2>1
<1>15. Describes(n, V \ {e}, kinds)
  BY <1>1, <1>6, <1>11, <1>12, <1>13, <1>14 DEF Describes
<1>16. Virtuals(n, V \ {e})
  BY <1>6, <1>7, <1>10 DEF Virtuals
<1> QED BY <1>6, <1>15, <1>16

\* A descriptor moves to a place that is void.
LEMMA Moving ==
  ASSUME NEW kinds, NEW m, NEW l, NEW e, NEW V, Describes(m, V, kinds), Virtuals(m, V),
         e \in V, l \in DOMAIN m, l \notin V \ {e}, NEW n, n = Moved(m, l, e)
  PROVE  Describes(n, (V \ {e}) \cup {l}, kinds) /\ Virtuals(n, (V \ {e}) \cup {l}) /\ Len(n) = Len(m)
<1> DEFINE W == (V \ {e}) \cup {l}
<1>1. /\ m \in Seq(Descriptors) /\ V \subseteq DOMAIN m /\ DOMAIN m = 1..Len(m) /\ Len(m) \in Nat
      /\ m[e] \in Descriptors
  BY DEF Describes
<1>2. /\ n \in Seq(Descriptors) /\ Len(n) = Len(m) /\ DOMAIN n = DOMAIN m /\ n[l] = m[e]
      /\ \A i \in DOMAIN m : i # l => n[i] = m[i]
  BY <1>1 DEF Moved
<1>3. W \subseteq DOMAIN n /\ \A i \in W : i # l => i \in V /\ i # e /\ n[i] = m[i]
  BY <1>1, <1>2
<1>4. \A i \in W : n[i].start + n[i].pages <= NPages
  BY <1>2, <1>3 DEF Describes
<1>5. \A i \in W, p \in Handoff!Physical : Spans(n[i], p) => n[i].kind = kinds[p]
  BY <1>2, <1>3 DEF Describes
<1>6. \A i, j \in W, p \in Handoff!Physical : Spans(n[i], p) /\ Spans(n[j], p) => i = j
  BY <1>2, <1>3 DEF Describes
<1>7. \A p \in Handoff!Physical : kinds[p] # Handoff!Hole => \E i \in W : Spans(n[i], p)
  <2> SUFFICES ASSUME NEW p \in Handoff!Physical, kinds[p] # Handoff!Hole PROVE \E i \in W : Spans(n[i], p)
    OBVIOUS
  <2>1. PICK i \in V : Spans(m[i], p)
    BY DEF Describes
  <2>2. CASE i = e
    BY <1>2, <2>1, <2>2
  <2>3. CASE i # e
    BY <1>1, <1>2, <2>1, <2>3
  <2> QED BY <2>2, <2>3
<1>8. Describes(n, W, kinds)
  BY <1>2, <1>3, <1>4, <1>5, <1>6, <1>7 DEF Describes
<1>9. Virtuals(n, W)
  BY <1>2, <1>3 DEF Virtuals
<1> QED BY <1>2, <1>8, <1>9

\* From when on the buffer is allocated, the boot services are left, and so on.
Buffered == {"get", "exit", "get again", "exit again", "relocate", "reclaim"} \cup Handoff!InKernel
Settled  == {"relocate", "reclaim"} \cup Handoff!InKernel
Virtual  == {"reclaim"} \cup Handoff!InKernel

\* What the map has to say of the pages.
Kinds == IF step \in Handoff!InKernel THEN [p \in Handoff!Physical |-> Handoff!Reclaimed(memory[p])] ELSE memory

\* MemoryMap's invariant.  A map that is current describes the memory; while it is
\* compacted one descriptor at least is behind, and what has been read is void.
MapInv ==
    /\ memory \in AllKinds /\ current \in BOOLEAN
    /\ step \in Buffered => \E p \in Handoff!Physical : memory[p] = Handoff!Data
    /\ step \in Settled \/ (step \in {"exit", "exit again"} /\ current) => Describes(map, Handoff!Valid, Kinds)
    /\ step \in Virtual => Virtuals(map, Handoff!Valid) /\ told = Told(memory)
    /\ step = "coalesce" => last \in Nat /\ desc \in Nat /\ 1 <= last /\ last < desc /\ desc <= Len(map) + 1
    /\ step = "done" => mapped = told

\* A step of Boot is one of MemoryMap's, or leaves its variables alone.
LEMMA HandoffSteps ==
  ASSUME [NextBoot]_<<vars, handoff, loader>>
  PROVE  Handoff!Next \/ UNCHANGED Handoff!vars
BY DEF NextBoot, BootLoader, HandingOff, ChoosePool, Mapping, handoff, Handoff!vars

\* The map is not read yet.
LEMMA MapInit == Handoff!Init => MapInv
<1> SUFFICES ASSUME Handoff!Init PROVE MapInv
  OBVIOUS
<1>1. step = "size" /\ memory \in AllKinds /\ current = FALSE
  BY DEF Handoff!Init, AllKinds
<1> QED BY <1>1 DEF MapInv, Buffered, Settled, Virtual, Handoff!InKernel

\* All of a map is valid unless it is being compacted.
LEMMA AllValid ==
  /\ step # "coalesce" => Handoff!Valid = DOMAIN map
  /\ step' # "coalesce" => Handoff!Valid' = DOMAIN map'
BY DEF Handoff!Valid

\* While the firmware runs, memory changes and the map may get old.
LEMMA FirmwareKeeps ==
  ASSUME MapInv, Handoff!FirmwareEvent \/ Handoff!AskSize \/ Handoff!AllocateBuffer
  PROVE  MapInv'
<1>1. /\ step' \notin Settled /\ step' \notin Virtual /\ step' # "coalesce" /\ step' # "done"
      /\ current' = FALSE \/ step' \notin {"exit", "exit again"}
  BY DEF Handoff!FirmwareEvent, Handoff!AskSize, Handoff!AllocateBuffer, Settled, Virtual, Handoff!InKernel
<1>2. memory' \in AllKinds /\ current' \in BOOLEAN
  BY KindFacts DEF MapInv, AllKinds, Handoff!FirmwareEvent, Handoff!AskSize, Handoff!AllocateBuffer
<1>3. step' \in Buffered => \E p \in Handoff!Physical : memory'[p] = Handoff!Data
  <2>1. CASE Handoff!FirmwareEvent
    <3>1. PICK q \in Handoff!Physical, kind \in {Handoff!Free, Handoff!Boot} :
            memory[q] \in {Handoff!Free, Handoff!Boot} \ {kind} /\ memory' = [memory EXCEPT ![q] = kind]
      BY <2>1 DEF Handoff!FirmwareEvent
    <3>2. step' = step
      BY <2>1 DEF Handoff!FirmwareEvent
    <3> QED BY <3>1, <3>2, KindFacts DEF MapInv, AllKinds
  <2>2. CASE Handoff!AskSize
    BY <2>2 DEF Handoff!AskSize, Buffered, Handoff!InKernel
  <2>3. CASE Handoff!AllocateBuffer
    BY <2>3 DEF Handoff!AllocateBuffer, MapInv, AllKinds
  <2> QED BY <2>1, <2>2, <2>3
<1> QED BY <1>1, <1>2, <1>3 DEF MapInv

\* GetMemoryMap writes what memory is, if the buffer holds it.
LEMMA GetMapKeeps ==
  ASSUME MapInv, \/ Handoff!GetMap("get", "exit", "returned")
                 \/ Handoff!GetMap("get again", "exit again", "halted")
  PROVE  MapInv'
<1>1. /\ step \in {"get", "get again"} /\ memory' = memory
      /\ \/ \E m \in Handoff!Maps : map' = m /\ current' = TRUE /\ step' \in {"exit", "exit again"}
         \/ step' \in {"returned", "halted"} /\ current' = current
  BY DEF Handoff!GetMap
<1>2. step \in Buffered
  BY <1>1 DEF Buffered
<1>3. {"exit", "exit again", "returned", "halted"} \cap Settled = {}
      /\ {"exit", "exit again", "returned", "halted"} \cap Virtual = {}
      /\ {"exit", "exit again", "returned", "halted"} \cap Handoff!InKernel = {}
  BY DEF Settled, Virtual, Handoff!InKernel
<1>4. CASE step' \in {"returned", "halted"}
  <2>1. step' \notin Buffered
    BY <1>4 DEF Buffered, Handoff!InKernel
  <2> QED BY <1>1, <1>3, <1>4, <2>1 DEF MapInv
<1>5. ASSUME NEW m \in Handoff!Maps, map' = m, current' = TRUE, step' \in {"exit", "exit again"}
      PROVE  MapInv'
  <2>1. Describes(m, DOMAIN m, memory)
    BY MapsDescribe DEF MapInv
  <2>2. Kinds' = memory /\ Handoff!Valid' = DOMAIN m
    BY <1>1, <1>3, <1>5, AllValid DEF Kinds
  <2>3. Describes(map', Handoff!Valid', Kinds')
    BY <1>5, <2>1, <2>2
  <2>4. Describes(map, Handoff!Valid, Kinds)'
    BY <2>3 DEF Describes, Spans
  <2> QED BY <1>1, <1>2, <1>3, <1>5, <2>4 DEF MapInv
<1> QED BY <1>1, <1>4, <1>5

\* ExitBootServices succeeds only with a map that is not old.
LEMMA ExitKeeps ==
  ASSUME MapInv, Handoff!ExitBootServices
  PROVE  MapInv'
<1>1. /\ step \in {"exit", "exit again"} /\ UNCHANGED <<memory, current, map>>
      /\ IF current THEN step' = "relocate" ELSE step' \in {"get again", "halted"}
  BY DEF Handoff!ExitBootServices
<1>2. step \in Buffered /\ step # "coalesce" /\ step \notin Handoff!InKernel
  BY <1>1 DEF Buffered, Handoff!InKernel
<1>3. step' # "coalesce" /\ step' # "done" /\ step' \notin Virtual /\ step' \notin Handoff!InKernel
  BY <1>1 DEF Virtual, Handoff!InKernel
<1>4. step' \in Settled \/ step' \in {"exit", "exit again"} => current /\ step' = "relocate"
  BY <1>1 DEF Settled, Handoff!InKernel
<1>5. Kinds' = Kinds /\ Handoff!Valid' = Handoff!Valid
  BY <1>1, <1>2, <1>3, AllValid DEF Kinds
<1>6. current => Describes(map, Handoff!Valid, Kinds)'
  <2>1. current => Describes(map', Handoff!Valid', Kinds')
    BY <1>1, <1>5 DEF MapInv
  <2> QED BY <2>1 DEF Describes, Spans
<1> QED BY <1>1, <1>2, <1>3, <1>4, <1>6 DEF MapInv

\* Only the runtime descriptors' virtual addresses change.
LEMMA RelocateKeeps ==
  ASSUME MapInv, Handoff!Relocate
  PROVE  MapInv'
<1>1. /\ step = "relocate" /\ step' = "reclaim" /\ UNCHANGED <<memory, current>>
      /\ map' = [i \in DOMAIN map |->
                   IF i \in Handoff!RuntimeEntries(map)
                   THEN [map[i] EXCEPT !.virtual = map[i].start + Base] ELSE map[i]]
      /\ told' = UNION {Handoff!Mapping(map'[i]) : i \in Handoff!RuntimeEntries(map')}
  BY DEF Handoff!Relocate
<1>2. step \in Settled /\ step \in Buffered /\ step \notin Handoff!InKernel /\ step' \notin Handoff!InKernel
  BY <1>1 DEF Settled, Buffered, Handoff!InKernel
<1>3. Describes(map, DOMAIN map, memory)
  <2>1. Describes(map, Handoff!Valid, Kinds)
    BY <1>2 DEF MapInv
  <2> QED BY <1>1, <1>2, <2>1, AllValid DEF Kinds
<1>4. ASSUME NEW i \in DOMAIN map
      PROVE  /\ map'[i] \in Descriptors /\ map'[i].start = map[i].start /\ map'[i].pages = map[i].pages
             /\ map'[i].kind = map[i].kind
             /\ map[i].kind.runtime => map'[i].virtual = map'[i].start + Base
  <2>1. map[i] \in Descriptors /\ map[i].start + Base \in Nat
    <3>1. map[i] \in Descriptors
      BY <1>3 DEF Describes
    <3> QED BY <3>1, BootAssumption DEF Descriptors
  <2>2. map'[i] = IF map[i].kind.runtime THEN [map[i] EXCEPT !.virtual = map[i].start + Base] ELSE map[i]
    BY <1>1 DEF Handoff!RuntimeEntries
  <2>3. CASE map[i].kind.runtime
    BY <2>1, <2>2, <2>3 DEF Descriptors
  <2>4. CASE ~map[i].kind.runtime
    BY <2>1, <2>2, <2>4
  <2> QED BY <2>3, <2>4
<1>5. DOMAIN map' = DOMAIN map /\ map' \in Seq(Descriptors)
  <2>1. DOMAIN map = 1..Len(map) /\ Len(map) \in Nat /\ DOMAIN map' = DOMAIN map
    BY <1>1, <1>3 DEF Describes
  <2>2. map' \in [1..Len(map) -> Descriptors]
    BY <1>1, <1>4, <2>1
  <2> QED BY <2>1, <2>2, SeqDef
<1>6. Describes(map', DOMAIN map', memory)
  BY <1>3, <1>4, <1>5, DescribedAlike
<1>7. Virtuals(map', DOMAIN map')
  BY <1>4, <1>5 DEF Virtuals
<1>8. told' = Told(memory)
  <2>1. told' = RuntimeMapping(map')
    BY <1>1 DEF RuntimeMapping
  <2>2. memory \in AllKinds
    BY DEF MapInv
  <2> QED BY <1>6, <1>7, <2>1, <2>2, MappingsTold
<1>9. Kinds' = memory /\ Handoff!Valid' = DOMAIN map'
  BY <1>1, <1>2, AllValid DEF Kinds
<1>10. Describes(map, Handoff!Valid, Kinds)' /\ Virtuals(map, Handoff!Valid)' /\ told' = Told(memory)'
  <2>1. Describes(map', Handoff!Valid', Kinds') /\ Virtuals(map', Handoff!Valid') /\ Told(memory') = Told(memory)
    BY <1>1, <1>6, <1>7, <1>9
  <2> QED BY <1>8, <2>1 DEF Describes, Spans, Virtuals, Told
<1> QED BY <1>1, <1>2, <1>10 DEF MapInv

\* The boot services' memory becomes free, in the map and in memory.
LEMMA ReclaimKeeps ==
  ASSUME MapInv, Handoff!ReclaimBootPages
  PROVE  MapInv'
<1>1. /\ step = "reclaim" /\ step' = "coalesce" /\ UNCHANGED <<memory, current, told>>
      /\ map' = [i \in DOMAIN map |-> [map[i] EXCEPT !.kind = Handoff!Reclaimed(@)]]
      /\ last' = 1 /\ desc' = 2
  BY DEF Handoff!ReclaimBootPages
<1>2. step \in Settled /\ step \in Buffered /\ step \in Virtual /\ step \notin Handoff!InKernel
      /\ step' \in Handoff!InKernel
  BY <1>1 DEF Settled, Buffered, Virtual, Handoff!InKernel
<1>3. Describes(map, DOMAIN map, memory) /\ Virtuals(map, DOMAIN map)
  <2>1. Describes(map, Handoff!Valid, Kinds) /\ Virtuals(map, Handoff!Valid)
    BY <1>2 DEF MapInv
  <2> QED BY <1>1, <1>2, <2>1, AllValid DEF Kinds
<1> DEFINE others == [p \in Handoff!Physical |-> Handoff!Reclaimed(memory[p])]
<1>4. ASSUME NEW i \in DOMAIN map
      PROVE  /\ map'[i] \in Descriptors /\ map'[i].start = map[i].start /\ map'[i].pages = map[i].pages
             /\ map'[i].virtual = map[i].virtual /\ map'[i].kind = Handoff!Reclaimed(map[i].kind)
             /\ map'[i].kind.runtime => map[i].kind.runtime
  <2>1. map[i] \in Descriptors /\ Handoff!Reclaimed(map[i].kind) \in Handoff!Kinds
    <3>1. map[i] \in Descriptors
      BY <1>3 DEF Describes
    <3> QED BY <3>1, KindFacts DEF Descriptors, Handoff!Reclaimed
  <2>2. map'[i] = [map[i] EXCEPT !.kind = Handoff!Reclaimed(map[i].kind)]
    BY <1>1
  <2>3. /\ map'[i] \in Descriptors /\ map'[i].start = map[i].start /\ map'[i].pages = map[i].pages
        /\ map'[i].virtual = map[i].virtual /\ map'[i].kind = Handoff!Reclaimed(map[i].kind)
    BY <2>1, <2>2 DEF Descriptors
  <2> QED BY <2>3, KindFacts DEF Handoff!Reclaimed
<1>5. DOMAIN map' = DOMAIN map /\ map' \in Seq(Descriptors) /\ Len(map') \in Nat /\ DOMAIN map' = 1..Len(map')
  <2>1. DOMAIN map = 1..Len(map) /\ Len(map) \in Nat /\ DOMAIN map' = DOMAIN map
    BY <1>1, <1>3 DEF Describes
  <2>2. map' \in [1..Len(map) -> Descriptors]
    BY <1>1, <1>4, <2>1
  <2>3. map' \in Seq(Descriptors)
    BY <2>1, <2>2, SeqDef
  <2> QED BY <2>1, <2>3
<1>6. Describes(map', DOMAIN map', others)
  <2>1. \A i \in DOMAIN map, p \in Handoff!Physical : map[i].kind = memory[p] => map'[i].kind = others[p]
    BY <1>4
  <2>2. \A p \in Handoff!Physical : others[p] # Handoff!Hole => memory[p] # Handoff!Hole
    BY KindFacts DEF Handoff!Reclaimed
  <2> HIDE DEF others
  <2>3. Describes(map', DOMAIN map, others)
    <3>1. \A i \in DOMAIN map : map'[i].start = map[i].start /\ map'[i].pages = map[i].pages
      BY <1>4
    <3> QED BY <1>3, <1>5, <2>1, <2>2, <3>1, DescribedAlike
  <2> QED BY <1>5, <2>3
<1>7. Virtuals(map', DOMAIN map')
  BY <1>3, <1>4, <1>5 DEF Virtuals
<1>8. Len(map') >= 1
  <2>1. PICK p \in Handoff!Physical : memory[p] = Handoff!Data
    BY <1>2 DEF MapInv
  <2>2. PICK i \in DOMAIN map : Spans(map[i], p)
    BY <1>3, <2>1, KindFacts DEF Describes
  <2> QED BY <1>5, <2>2
<1>9. Kinds' = others
  BY <1>1, <1>2 DEF Kinds
<1>10. Handoff!Valid' = DOMAIN map'
  BY <1>1, <1>5 DEF Handoff!Valid
<1> HIDE DEF others
<1>11. Describes(map, Handoff!Valid, Kinds)' /\ Virtuals(map, Handoff!Valid)'
  <2>1. Describes(map', Handoff!Valid', Kinds') /\ Virtuals(map', Handoff!Valid')
    BY <1>6, <1>7, <1>9, <1>10
  <2> QED BY <2>1 DEF Describes, Spans, Virtuals
<1>12. told' = Told(memory)'
  BY <1>1, <1>2 DEF MapInv, Told
<1>13. memory' \in AllKinds /\ current' \in BOOLEAN /\ \E p \in Handoff!Physical : memory'[p] = Handoff!Data
  BY <1>1, <1>2 DEF MapInv
<1>14. last' \in Nat /\ desc' \in Nat /\ 1 <= last' /\ last' < desc' /\ desc' <= Len(map') + 1
  BY <1>1, <1>5, <1>8
<1> QED BY <1>1, <1>11, <1>12, <1>13, <1>14 DEF MapInv

\* A descriptor takes in its neighbour of the same kind.
LEMMA CoalesceKeeps ==
  ASSUME MapInv, Handoff!Coalesce
  PROVE  MapInv'
<1>1. /\ step = "coalesce" /\ step' = step /\ UNCHANGED <<memory, current, told>>
      /\ desc <= Len(map) /\ desc' = desc + 1
      /\ IF Handoff!Mergeable(map[last], map[desc])
         THEN map' = [map EXCEPT ![last].pages = @ + map[desc].pages] /\ last' = last
         ELSE last' = last + 1 /\ map' = [map EXCEPT ![last + 1] = map[desc]]
  BY DEF Handoff!Coalesce, Handoff!Kept
<1>2. step \in Settled /\ step \in Buffered /\ step \in Virtual /\ step \in Handoff!InKernel
  BY <1>1 DEF Settled, Buffered, Virtual, Handoff!InKernel
<1>3. /\ Describes(map, Handoff!Valid, Kinds) /\ Virtuals(map, Handoff!Valid)
      /\ last \in Nat /\ desc \in Nat /\ 1 <= last /\ last < desc
  BY <1>1, <1>2 DEF MapInv
<1>4. /\ DOMAIN map = 1..Len(map) /\ Len(map) \in Nat
      /\ \A i : i \in Handoff!Valid <=> i \in 1..Len(map) /\ (i <= last \/ i >= desc)
  BY <1>1, <1>3 DEF Describes, Handoff!Valid
<1>5. last \in Handoff!Valid /\ desc \in Handoff!Valid /\ last # desc
  BY <1>1, <1>3, <1>4
<1> DEFINE Result == /\ Describes(map', Handoff!Valid', Kinds) /\ Virtuals(map', Handoff!Valid')
                     /\ last' \in Nat /\ desc' \in Nat /\ 1 <= last' /\ last' < desc' /\ desc' <= Len(map') + 1
<1>6. ASSUME Handoff!Mergeable(map[last], map[desc]) PROVE Result
  <2>1. map' = [map EXCEPT ![last].pages = @ + map[desc].pages] /\ last' = last
    BY <1>1, <1>6
  <2>2. Describes(map', Handoff!Valid \ {desc}, Kinds) /\ Virtuals(map', Handoff!Valid \ {desc}) /\ Len(map') = Len(map)
    <3>1. map' = Merged(map, last, desc)
      BY <2>1 DEF Merged
    <3> QED BY <1>3, <1>5, <1>6, <3>1, Merging
  <2>3. DOMAIN map' = 1..Len(map')
    BY <2>2 DEF Describes
  <2>4. Handoff!Valid' = Handoff!Valid \ {desc}
    <3>1. \A i : i \in Handoff!Valid' <=> i \in 1..Len(map) /\ (i <= last \/ i >= desc + 1)
      BY <1>1, <2>1, <2>2, <2>3 DEF Handoff!Valid
    <3>2. \A i \in 1..Len(map) : i >= desc + 1 <=> i >= desc /\ i # desc
      BY <1>3, <1>4
    <3> QED BY <1>3, <1>4, <3>1, <3>2
  <2>5. last' \in Nat /\ desc' \in Nat /\ 1 <= last' /\ last' < desc' /\ desc' <= Len(map') + 1
    BY <1>1, <1>3, <1>4, <2>1, <2>2
  <2> QED BY <2>2, <2>4, <2>5
<1>7. ASSUME ~Handoff!Mergeable(map[last], map[desc]) PROVE Result
  <2>1. map' = [map EXCEPT ![last + 1] = map[desc]] /\ last' = last + 1
    BY <1>1, <1>7
  <2>2. last + 1 \in DOMAIN map /\ last + 1 \notin Handoff!Valid \ {desc}
    BY <1>1, <1>3, <1>4
  <2> DEFINE W == (Handoff!Valid \ {desc}) \cup {last + 1}
  <2>3. Describes(map', W, Kinds) /\ Virtuals(map', W) /\ Len(map') = Len(map)
    <3>1. map' = Moved(map, last + 1, desc)
      BY <2>1 DEF Moved
    <3> QED BY <1>3, <1>5, <2>2, <3>1, Moving
  <2>4. DOMAIN map' = 1..Len(map')
    BY <2>3 DEF Describes
  <2>5. Handoff!Valid' = W
    <3>1. \A i : i \in Handoff!Valid' <=> i \in 1..Len(map) /\ (i <= last + 1 \/ i >= desc + 1)
      BY <1>1, <2>1, <2>3, <2>4 DEF Handoff!Valid
    <3>2. \A i \in 1..Len(map) : (i <= last + 1 \/ i >= desc + 1) <=> i = last + 1 \/ ((i <= last \/ i >= desc) /\ i # desc)
      BY <1>3, <1>4
    <3> QED BY <1>4, <2>2, <3>1, <3>2
  <2>6. last' \in Nat /\ desc' \in Nat /\ 1 <= last' /\ last' < desc' /\ desc' <= Len(map') + 1
    BY <1>1, <1>3, <1>4, <2>1, <2>3
  <2> QED BY <2>3, <2>5, <2>6
<1>8. Result
  BY <1>6, <1>7
<1>9. Kinds' = Kinds
  BY <1>1 DEF Kinds
<1>10. Describes(map, Handoff!Valid, Kinds)' /\ Virtuals(map, Handoff!Valid)'
  <2>1. Describes(map', Handoff!Valid', Kinds')
    BY <1>8, <1>9
  <2> QED BY <1>8, <2>1 DEF Describes, Spans, Virtuals
<1>11. told' = Told(memory)'
  BY <1>1, <1>2 DEF MapInv, Told
<1>12. memory' \in AllKinds /\ current' \in BOOLEAN /\ \E p \in Handoff!Physical : memory'[p] = Handoff!Data
  BY <1>1, <1>2 DEF MapInv
<1> QED BY <1>1, <1>8, <1>10, <1>11, <1>12 DEF MapInv

\* The end of the list is reached.
LEMMA CoalescedKeeps ==
  ASSUME MapInv, Handoff!Coalesced
  PROVE  MapInv'
<1>1. /\ step = "coalesce" /\ step' = "map" /\ UNCHANGED <<memory, current, told>>
      /\ desc > Len(map) /\ map' = SubSeq(map, 1, last)
  BY DEF Handoff!Coalesced
<1>2. step \in Settled /\ step \in Buffered /\ step \in Virtual /\ step \in Handoff!InKernel /\ step' \in Handoff!InKernel
  BY <1>1 DEF Settled, Buffered, Virtual, Handoff!InKernel
<1>3. /\ Describes(map, Handoff!Valid, Kinds) /\ Virtuals(map, Handoff!Valid)
      /\ last \in Nat /\ desc \in Nat /\ 1 <= last /\ last < desc /\ desc <= Len(map) + 1
  BY <1>1, <1>2 DEF MapInv
<1>4. DOMAIN map = 1..Len(map) /\ Len(map) \in Nat /\ map \in Seq(Descriptors) /\ last <= Len(map)
  BY <1>1, <1>3 DEF Describes
<1>5. Handoff!Valid = 1..last
  BY <1>1, <1>3, <1>4 DEF Handoff!Valid
<1>6. map' \in Seq(Descriptors) /\ DOMAIN map' = 1..last /\ \A i \in 1..last : map'[i] = map[i]
  BY <1>1, <1>3, <1>4
<1>7. Describes(map', 1..last, Kinds) /\ Virtuals(map', 1..last)
  <2>1. Describes(map, 1..last, Kinds) /\ Virtuals(map, 1..last)
    BY <1>3, <1>5
  <2>2. Virtuals(map', 1..last)
    BY <1>6, <2>1 DEF Virtuals
  <2>3. /\ \A i \in 1..last : map'[i].start + map'[i].pages <= NPages
        /\ \A i \in 1..last, p \in Handoff!Physical : Spans(map'[i], p) => map'[i].kind = Kinds[p]
    BY <1>6, <2>1 DEF Describes
  <2>4. \A i, j \in 1..last, p \in Handoff!Physical : Spans(map'[i], p) /\ Spans(map'[j], p) => i = j
    BY <1>6, <2>1 DEF Describes
  <2>5. \A p \in Handoff!Physical : Kinds[p] # Handoff!Hole => \E i \in 1..last : Spans(map'[i], p)
    BY <1>6, <2>1 DEF Describes
  <2> QED BY <1>6, <2>2, <2>3, <2>4, <2>5 DEF Describes
<1>8. Kinds' = Kinds /\ Handoff!Valid' = 1..last
  BY <1>1, <1>2, <1>6, AllValid DEF Kinds
<1>9. Describes(map, Handoff!Valid, Kinds)' /\ Virtuals(map, Handoff!Valid)'
  <2>1. Describes(map', Handoff!Valid', Kinds') /\ Virtuals(map', Handoff!Valid')
    BY <1>7, <1>8
  <2> QED BY <2>1 DEF Describes, Spans, Virtuals
<1>10. told' = Told(memory)'
  BY <1>1, <1>2 DEF MapInv, Told
<1>11. memory' \in AllKinds /\ current' \in BOOLEAN /\ \E p \in Handoff!Physical : memory'[p] = Handoff!Data
  BY <1>1, <1>2 DEF MapInv
<1> QED BY <1>1, <1>9, <1>10, <1>11 DEF MapInv

\* A runtime descriptor is mapped where it was told.
LEMMA MapRuntimeKeeps ==
  ASSUME MapInv, Handoff!MapUefiRuntime
  PROVE  MapInv'
<1>1. /\ step = "map" /\ step' = "done" /\ UNCHANGED <<memory, current, told, map>>
      /\ mapped' = UNION {Handoff!Mapping(map[i]) : i \in Handoff!RuntimeEntries(map)}
  BY DEF Handoff!MapUefiRuntime
<1>2. step \in Settled /\ step \in Buffered /\ step \in Virtual /\ step \in Handoff!InKernel /\ step' \in Handoff!InKernel
  BY <1>1 DEF Settled, Buffered, Virtual, Handoff!InKernel
<1>3. Describes(map, DOMAIN map, Kinds) /\ Virtuals(map, DOMAIN map) /\ told = Told(memory)
  <2>1. Describes(map, Handoff!Valid, Kinds) /\ Virtuals(map, Handoff!Valid) /\ told = Told(memory)
    BY <1>2 DEF MapInv
  <2> QED BY <1>1, <2>1, AllValid
<1>4. Kinds \in AllKinds /\ Told(Kinds) = Told(memory)
  <2>1. Kinds = [p \in Handoff!Physical |-> Handoff!Reclaimed(memory[p])]
    BY <1>2 DEF Kinds
  <2>2. memory \in AllKinds
    BY DEF MapInv
  <2>3. \A p \in Handoff!Physical : Kinds[p] \in Handoff!Kinds \cup {Handoff!Hole} /\ (Kinds[p].runtime <=> memory[p].runtime)
    BY <2>1, <2>2, KindFacts DEF Handoff!Reclaimed, AllKinds
  <2> HIDE DEF Kinds
  <2>4. {q \in Handoff!Physical : Kinds[q].runtime} = {q \in Handoff!Physical : memory[q].runtime}
    BY <2>3
  <2> QED BY <2>1, <2>3, <2>4 DEF AllKinds, Told
<1>5. mapped' = told
  <2>1. mapped' = RuntimeMapping(map)
    BY <1>1 DEF RuntimeMapping
  <2> QED BY <1>3, <1>4, <2>1, MappingsTold
<1>6. Kinds' = Kinds /\ Handoff!Valid' = Handoff!Valid
  BY <1>1, <1>2, AllValid DEF Kinds
<1>7. Describes(map, Handoff!Valid, Kinds)' /\ Virtuals(map, Handoff!Valid)'
  <2>1. Describes(map', Handoff!Valid', Kinds') /\ Virtuals(map', Handoff!Valid')
    BY <1>1, <1>3, <1>6, AllValid
  <2> QED BY <2>1 DEF Describes, Spans, Virtuals
<1>8. told' = Told(memory)'
  BY <1>1, <1>3 DEF Told
<1>9. memory' \in AllKinds /\ current' \in BOOLEAN /\ \E p \in Handoff!Physical : memory'[p] = Handoff!Data
  BY <1>1, <1>2 DEF MapInv
<1> QED BY <1>1, <1>5, <1>7, <1>8, <1>9 DEF MapInv

\* The map's invariant is inductive.
LEMMA MapInvStep == MapInv /\ [NextBoot]_<<vars, handoff, loader>> => MapInv'
<1> SUFFICES ASSUME MapInv, [NextBoot]_<<vars, handoff, loader>> PROVE MapInv'
  OBVIOUS
<1>1. CASE Handoff!Next
  BY <1>1, FirmwareKeeps, GetMapKeeps, ExitKeeps, RelocateKeeps, ReclaimKeeps, CoalesceKeeps, CoalescedKeeps,
     MapRuntimeKeeps DEF Handoff!Next
<1>2. CASE UNCHANGED Handoff!vars
  <2>1. UNCHANGED <<step, memory, current, map, last, desc, told, mapped>>
    BY <1>2 DEF Handoff!vars
  <2>2. Kinds' = Kinds /\ Handoff!Valid' = Handoff!Valid /\ Told(memory)' = Told(memory)
    BY <2>1 DEF Kinds, Handoff!Valid, Told
  <2>3. Describes(map, Handoff!Valid, Kinds) => Describes(map, Handoff!Valid, Kinds)'
    <3>1. Describes(map, Handoff!Valid, Kinds) => Describes(map', Handoff!Valid', Kinds')
      BY <2>1, <2>2
    <3> QED BY <3>1 DEF Describes, Spans
  <2>4. Virtuals(map, Handoff!Valid) => Virtuals(map, Handoff!Valid)'
    BY <2>1, <2>2 DEF Virtuals
  <2> QED BY <2>1, <2>2, <2>3, <2>4 DEF MapInv
<1> QED BY <1>1, <1>2, HandoffSteps

\* What MapInv says, as MemoryMap says it.
LEMMA MapInvDescribes == MapInv => MapDescribesMemory
<1> SUFFICES ASSUME MapInv, step \in Settled, NEW p \in Handoff!Physical
             PROVE  LET kind == IF step \in Handoff!InKernel THEN Handoff!Reclaimed(memory[p]) ELSE memory[p]
                        covering == {i \in Handoff!Valid : Handoff!Covers(i, p)}
                    IN  IF memory[p] = Handoff!Hole THEN covering = {}
                        ELSE \E i \in covering : covering = {i} /\ map[i].kind = kind
  BY DEF MapDescribesMemory, Handoff!MapDescribesMemory, Settled
<1>1. Describes(map, Handoff!Valid, Kinds)
  BY DEF MapInv
<1>2. Kinds[p] = IF step \in Handoff!InKernel THEN Handoff!Reclaimed(memory[p]) ELSE memory[p]
  BY DEF Kinds
<1>3. Kinds[p] = Handoff!Hole <=> memory[p] = Handoff!Hole
  BY <1>2, KindFacts DEF Handoff!Reclaimed
<1>4. \A i \in Handoff!Valid : Handoff!Covers(i, p) <=> Spans(map[i], p)
  BY DEF Handoff!Covers, Spans
<1>5. \A i \in Handoff!Valid : map[i].kind # Handoff!Hole
  <2>1. \A i \in Handoff!Valid : map[i] \in Descriptors
    BY <1>1 DEF Describes
  <2> QED BY <2>1, KindFacts DEF Descriptors
<1>6. CASE memory[p] = Handoff!Hole
  BY <1>1, <1>3, <1>4, <1>5, <1>6 DEF Describes
<1>7. CASE memory[p] # Handoff!Hole
  <2>1. PICK i \in Handoff!Valid : Spans(map[i], p)
    BY <1>1, <1>3, <1>7 DEF Describes
  <2>2. {j \in Handoff!Valid : Handoff!Covers(j, p)} = {i}
    BY <1>1, <1>4, <2>1 DEF Describes
  <2>3. map[i].kind = Kinds[p]
    BY <1>1, <2>1 DEF Describes
  <2> QED BY <1>2, <1>7, <2>2, <2>3
<1> QED BY <1>6, <1>7

\* Boot is MemoryMap with more around it: no step of the loader or of the page tables touches the map
\* (MemoryMap's calls, in the order of the firmware, the loader and OsInitialize).
THEOREM BootImplementsMemoryMap == SpecBoot => Handoff!Spec
<1>1. InitBoot => Handoff!Init
  BY DEF InitBoot
<1>2. [NextBoot]_<<vars, handoff, loader>> => [Handoff!Next]_(Handoff!vars)
  BY HandoffSteps
<1> QED BY <1>1, <1>2, PTL DEF SpecBoot, Handoff!Spec

\* The map's invariant.
LEMMA MapInvariance == SpecBoot => []MapInv
<1>1. InitBoot => MapInv
  BY MapInit DEF InitBoot
<1> QED BY <1>1, MapInvStep, PTL DEF SpecBoot

\* MapDescribesMemory: from the loader's last GetMemoryMap to the kernel's coalesced list, every page of
\* memory lies in one descriptor of its own kind and the list has no other page.
THEOREM MapAlwaysDescribesMemory == SpecBoot => []MapDescribesMemory
BY MapInvariance, MapInvDescribes, PTL

\* RuntimeIsWhereTold: what MapUefiRuntime maps is what SetVirtualAddressMap was told.
THEOREM RuntimeIsAlwaysWhereTold == SpecBoot => []RuntimeIsWhereTold
<1>1. MapInv => RuntimeIsWhereTold
  BY DEF MapInv, RuntimeIsWhereTold, Handoff!RuntimeIsWhereTold
<1> QED BY <1>1, MapInvariance, PTL

(* PageTable, from the first instruction on.                                *)

\* Until a pool is chosen nothing is mapped; afterwards Boot's steps are PageTable's.
LEMMA PagesStep ==
  ASSUME TreeInv, NextBoot \/ UNCHANGED <<vars, handoff, loader>>
  PROVE  /\ TreeInv'
         /\ RuntimeFits /\ UserInv => UserInv'
         /\ UserInv /\ FrameInv => FrameInv'
         /\ RuntimeFits /\ UserInv /\ MappedInv => MappedInv' /\ StableStep
<1>1. CASE [Next]_vars
  BY <1>1, TreeStep, UserStep, FrameStep, MappedStep
<1>2. CASE ChoosePool
  BY <1>2, PoolIsEmpty DEF ChoosePool, AnyPool
<1> QED BY <1>1, <1>2 DEF NextBoot, BootLoader, HandingOff, Mapping

\* Before a pool is chosen.
LEMMA PagesBegin == InitBoot => TreeInv /\ UserInv /\ FrameInv /\ MappedInv
<1>1. Init => FrameInv
  BY DEF Init, FrameInv
<1> QED BY <1>1, TreeInit, UserInit, MappedInit DEF InitBoot, AnyPool

\* TablesFormTree in the booting machine, with whatever pool: no page of it is handed out twice.
THEOREM TablesAreATree == SpecBoot => []TablesFormTree
<1>1. TreeInv /\ [NextBoot]_<<vars, handoff, loader>> => TreeInv'
  BY PagesStep
<1>2. SpecBoot => []TreeInv
  BY <1>1, PagesBegin, PTL DEF SpecBoot
<1> QED BY <1>2, TreeInvMeans, PTL

\* UserPagesAreOwn in the booting machine, if what SetVirtualAddressMap was told lies in va.h's region.
THEOREM UserPagesStayOwn ==
  ASSUME RuntimeFits
  PROVE  SpecBoot => []UserPagesAreOwn
<1>1. TreeInv /\ UserInv /\ FrameInv /\ [NextBoot]_<<vars, handoff, loader>> => (TreeInv /\ UserInv /\ FrameInv)'
  BY PagesStep
<1>2. SpecBoot => [](TreeInv /\ UserInv /\ FrameInv)
  BY <1>1, PagesBegin, PTL DEF SpecBoot
<1> QED BY <1>2, UserInvMeans, PTL

\* MappingsAreStable in the booting machine, on the same condition: MapPagesInRegion's look at one page
\* is enough, for no region is searched for several pages while something is in it.
THEOREM MappingsAreAlwaysStable ==
  ASSUME RuntimeFits
  PROVE  SpecBoot => MappingsAreStable
<1> DEFINE PagesInv == TreeInv /\ UserInv /\ MappedInv
<1>1. InitBoot => PagesInv
  BY PagesBegin
<1>2. PagesInv /\ [NextBoot]_<<vars, handoff, loader>> => PagesInv' /\ StableStep
  BY PagesStep
<1>3. StableStep => [StableStep]_vars
  OBVIOUS
<1> HIDE DEF PagesInv
<1>4. SpecBoot => [][StableStep]_vars
  BY <1>1, <1>2, <1>3, PTL DEF SpecBoot
<1> QED BY <1>4 DEF MappingsAreStable, StableStep
=============================================================================
