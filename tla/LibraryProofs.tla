--------------------------- MODULE LibraryProofs ---------------------------
(****************************************************************************)
(* Proofs about Library's parts.                                            *)
(*                                                                          *)
(* The console, for every size of screen, every tab width and every set of  *)
(* glyphs: the ring of lines with its dirty range implements Terminal.      *)
(* ChangesAreDirty is what makes Present correct, and is inductive together *)
(* with TypeOK.                                                             *)
(*                                                                          *)
(* Strings never share a block of the heap, whatever their number, the size *)
(* of the local buffer and the texts.  EInv adds to BuffersHaveOneOwner     *)
(* what the operations rely on: a pointer that a string does not use is     *)
(* null, and the only long string without a block is one that was moved     *)
(* from, which Valid excludes.                                              *)
(*                                                                          *)
(* And they hold their text.  HoldInv adds to EInv that the buffer of a     *)
(* string that counts is as HoldsIn says, of which HoldsText is a part; the *)
(* rest is that the capacity is the buffer's size, and that a text without  *)
(* a NUL behind it is never empty: clear, which writes as many NULs as      *)
(* there were characters, would leave none.  Each operation is taken in two *)
(* steps, the bytes it makes (Becomes) and what those bytes hold.           *)
(*                                                                          *)
(* Formatted output stays in its buffer, whatever its size, the messages    *)
(* and the width of the numbers.  FInv says how long str is; that a number  *)
(* is a text of some length, which strlcpy's arithmetic relies on, is shown *)
(* from the least number whose digits would not be.                         *)
(*                                                                          *)
(* And the message comes out of it.  TInv says for each phase what str      *)
(* holds of the items' texts one behind the other, and SInv takes the three *)
(* invariants together.  A number reads as itself because the figures of    *)
(* i64toa, from its last one on, are the remainders that it was divided by  *)
(* (DigitsTurn, DigitsRead).                                                *)
(*                                                                          *)
(* The string functions agree with their references: one lemma for each.    *)
(* Two strings differ at a first place or nowhere, and a loop stops at the  *)
(* first place at which it would (FirstOrNone); occurrences taken from the  *)
(* left are as many as any that lie apart (FirstIsBest).                    *)
(*                                                                          *)
(* What the font draws is the text.  ReadInv: the bytes up to s are those   *)
(* of the code points so far; PaintInv: the pixels are those of these code  *)
(* points' glyphs, at the totals of the widths before them.                 *)
(*                                                                          *)
(* The ring of pointers is a sequence of entries, each once, which a walk   *)
(* from the head goes round and round (FollowRing, again from the least     *)
(* number of steps for which it would not).  So the loops of push, pop and  *)
(* remove end at the entry they look for (WalkFinds), and what they write   *)
(* makes the ring of the new sequence.                                      *)
(*                                                                          *)
(* Library takes steps of one part at a time, so that all this holds of it. *)
(* What is computed by recursion is shown for every input by induction over *)
(* a set of numbers: StepByStep, FromSmaller and Loop of NaturalFacts.      *)
(****************************************************************************)
EXTENDS Library, NaturalFacts, FiniteSetTheorems, SequenceTheorems, TLAPS

\* A console between the parts of PutCodepoint: a tab may leave the screen.
Consoles == [back : Page, top : Lines, cur_line : Lines, cur_x : Nat,
             dirty_lo : 0..NLines, dirty_hi : Lines, all_dirty : BOOLEAN]

\* What the console k shows, and that its dirty range misses nothing.
View(k) == [page |-> [l \in Lines |-> k.back[PhysicalLine(k, l)]],
            line |-> k.cur_line, column |-> k.cur_x]
Covers(k) ==
    ~k.all_dirty => \A l \in Lines :
        fb[l] # k.back[PhysicalLine(k, l)] => k.dirty_lo <= l /\ l <= k.dirty_hi

CInv == TypeOK /\ ChangesAreDirty

\* The ring of lines, without the remainder.
LEMMA Physical ==
    ASSUME NEW k \in Consoles, NEW l \in Lines
    PROVE  /\ PhysicalLine(k, l) = IF k.top + l < NLines THEN k.top + l ELSE k.top + l - NLines
           /\ PhysicalLine(k, l) \in Lines
<1>1. NLines \in Nat \ {0} /\ k.top \in 0..(NLines - 1) /\ l \in 0..(NLines - 1)
  BY ConsoleAssumption DEF Consoles, Lines
<1>2. CASE k.top + l < NLines
  <2>1. k.top + l \in 0..(NLines - 1)
    BY <1>1, <1>2
  <2>2. (k.top + l) % NLines = k.top + l
    BY <1>1, <2>1, SmallRemainder
  <2> QED BY <1>2, <2>1, <2>2 DEF PhysicalLine, Lines
<1>3. CASE ~(k.top + l < NLines)
  <2>1. k.top + l - NLines \in 0..(NLines - 1)
    BY <1>1, <1>3
  <2>2. ((k.top + l - NLines) + NLines) % NLines = k.top + l - NLines
    BY <1>1, <2>1, SmallRemainder
  <2>3. (k.top + l - NLines) + NLines = k.top + l
    BY <1>1
  <2> QED BY <1>3, <2>1, <2>2, <2>3 DEF PhysicalLine, Lines
<1> QED BY <1>2, <1>3

\* Two lines of the screen are two lines of the buffer.
LEMMA PhysicalInjective ==
    ASSUME NEW k \in Consoles, NEW l \in Lines, NEW m \in Lines,
           PhysicalLine(k, l) = PhysicalLine(k, m)
    PROVE  l = m
<1>1. NLines \in Nat \ {0} /\ k.top \in 0..(NLines - 1) /\ l \in 0..(NLines - 1) /\ m \in 0..(NLines - 1)
  BY ConsoleAssumption DEF Consoles, Lines
<1> QED BY <1>1, Physical

\* A line without glyphs.
LEMMA BlankLine == Blank \in [Cells -> SUBSET Glyphs]
BY DEF Blank

\* The fields of Terminal's pages after Begin and Draw.
LEMMA BeginFields ==
    ASSUME NEW page, NEW line, NEW column
    PROVE  Screen!Begin([page |-> page, line |-> line, column |-> column])
             = [page |-> page, line |-> line, column |-> 0]
BY DEF Screen!Begin

\* What Terminal's Draw makes of a screen's fields.
LEMMA DrawFields ==
    ASSUME NEW page, NEW line, NEW column, NEW g
    PROVE  Screen!Draw([page |-> page, line |-> line, column |-> column], g)
             = [page |-> [page EXCEPT ![line] = [page[line] EXCEPT ![column] = @ \cup {g}]],
                line |-> line, column |-> column + 1]
BY DEF Screen!Draw

\* A carriage return leaves the cursor at the start of the line.
LEMMA ReturnKeeps ==
    ASSUME NEW k \in Consoles, Covers(k)
    PROVE  /\ CarriageReturn(k) \in Consoles /\ CarriageReturn(k).cur_x = 0
           /\ View(CarriageReturn(k)) = Screen!Begin(View(k))
           /\ Covers(CarriageReturn(k))
<1>1. CarriageReturn(k) = [k EXCEPT !.cur_x = 0]
  BY DEF CarriageReturn
<1>2. /\ CarriageReturn(k).back = k.back /\ CarriageReturn(k).top = k.top
      /\ CarriageReturn(k).cur_line = k.cur_line /\ CarriageReturn(k).cur_x = 0
      /\ CarriageReturn(k).dirty_lo = k.dirty_lo /\ CarriageReturn(k).dirty_hi = k.dirty_hi
      /\ CarriageReturn(k).all_dirty = k.all_dirty
  BY <1>1 DEF Consoles
<1>3. CarriageReturn(k) \in Consoles
  BY <1>1 DEF Consoles
<1>4. View(CarriageReturn(k)) = Screen!Begin(View(k))
  <2>1. Screen!Begin(View(k)) = [page |-> View(k).page, line |-> k.cur_line, column |-> 0]
    BY BeginFields DEF View
  <2> QED BY <1>2, <2>1 DEF View, PhysicalLine
<1>5. Covers(CarriageReturn(k))
  BY <1>2 DEF Covers, PhysicalLine
<1> QED BY <1>2, <1>3, <1>4, <1>5

\* Scrolling: moving top by a line shows the page moved up by a line.
LEMMA NewLineFeeds ==
    ASSUME NEW k \in Consoles, Covers(k)
    PROVE  /\ NewLine(k) \in Consoles /\ NewLine(k).cur_x = 0
           /\ View(NewLine(k)) = Screen!Feed(View(k))
           /\ Covers(NewLine(k))
<1> DEFINE n == NewLine(k)
<1>0. NLines \in Nat \ {0} /\ k.top \in Lines /\ k.cur_line \in Lines /\ k.back \in Page
  BY ConsoleAssumption DEF Consoles
<1>1. CASE k.cur_line + 1 < NLines
  <2>1. n = [CarriageReturn(k) EXCEPT !.cur_line = @ + 1]
    BY <1>1 DEF NewLine
  <2>2. /\ n.back = k.back /\ n.top = k.top /\ n.cur_line = k.cur_line + 1 /\ n.cur_x = 0
        /\ n.dirty_lo = k.dirty_lo /\ n.dirty_hi = k.dirty_hi /\ n.all_dirty = k.all_dirty
    BY <2>1 DEF CarriageReturn, Consoles
  <2>3. n \in Consoles
    <3>1. CarriageReturn(k) \in Consoles /\ CarriageReturn(k).cur_line = k.cur_line
      BY ReturnKeeps DEF CarriageReturn, Consoles
    <3>2. k.cur_line + 1 \in Lines
      BY <1>0, <1>1 DEF Lines
    <3> QED BY <2>1, <3>1, <3>2 DEF Consoles
  <2> HIDE DEF n
  <2>4. View(n) = Screen!Feed(View(k))
    BY <1>1, <2>2 DEF View, Screen!Feed, Screen!Begin, PhysicalLine
  <2>5. Covers(n)
    BY <2>2 DEF Covers, PhysicalLine
  <2> QED BY <2>2, <2>3, <2>4, <2>5 DEF n
<1>2. CASE ~(k.cur_line + 1 < NLines)
  <2>1. n = [CarriageReturn(k) EXCEPT !.back[k.top] = Blank, !.top = (@ + 1) % NLines, !.all_dirty = TRUE]
    BY <1>2 DEF NewLine
  <2>2. /\ n.back = [k.back EXCEPT ![k.top] = Blank] /\ n.top = (k.top + 1) % NLines
        /\ n.cur_line = k.cur_line /\ n.cur_x = 0 /\ n.all_dirty = TRUE
        /\ n.dirty_lo = k.dirty_lo /\ n.dirty_hi = k.dirty_hi
    BY <2>1 DEF CarriageReturn, Consoles
  <2>3. n.top = (IF k.top + 1 < NLines THEN k.top + 1 ELSE 0) /\ n.top \in Lines
    <3>1. CASE k.top + 1 < NLines
      <4>1. k.top + 1 \in 0..(NLines - 1)
        BY <1>0, <3>1 DEF Lines
      <4> QED BY <1>0, <2>2, <3>1, <4>1, SmallRemainder DEF Lines
    <3>2. CASE ~(k.top + 1 < NLines)
      <4>1. 0 \in 0..(NLines - 1) /\ k.top + 1 = 0 + NLines
        BY <1>0, <3>2 DEF Lines
      <4> QED BY <1>0, <2>2, <3>2, <4>1, SmallRemainder DEF Lines
    <3> QED BY <3>1, <3>2
  <2>4. n.back \in Page
    BY <1>0, <2>2, BlankLine DEF Page
  <2>5. n \in Consoles
    <3>1. CarriageReturn(k) \in Consoles /\ CarriageReturn(k).back = k.back /\ CarriageReturn(k).top = k.top
      BY ReturnKeeps DEF CarriageReturn, Consoles
    <3>2. n = [CarriageReturn(k) EXCEPT !.back = n.back, !.top = n.top, !.all_dirty = TRUE]
      BY <2>1, <2>2, <3>1
    <3> HIDE DEF n
    <3> QED BY <2>3, <2>4, <3>1, <3>2 DEF Consoles
  <2> HIDE DEF n
  <2>6. ASSUME NEW l \in Lines
        PROVE  n.back[PhysicalLine(n, l)]
                 = IF l + 1 < NLines THEN k.back[PhysicalLine(k, l + 1)] ELSE Blank
    <3>1. PhysicalLine(n, l) = IF n.top + l < NLines THEN n.top + l ELSE n.top + l - NLines
      BY <2>5, Physical
    <3>2. k.top \in 0..(NLines - 1) /\ l \in 0..(NLines - 1)
      BY <1>0 DEF Lines
    <3>3. CASE l + 1 < NLines
      <4>1. l + 1 \in Lines
        BY <1>0, <3>2, <3>3 DEF Lines
      <4>2. PhysicalLine(k, l + 1) = IF k.top + (l + 1) < NLines THEN k.top + (l + 1)
                                     ELSE k.top + (l + 1) - NLines
        BY <4>1, Physical
      <4>3. PhysicalLine(n, l) = PhysicalLine(k, l + 1)
        BY <1>0, <2>3, <3>1, <3>2, <3>3, <4>2
      <4>4. PhysicalLine(n, l) # k.top /\ PhysicalLine(n, l) \in Lines
        BY <1>0, <3>2, <3>3, <4>2, <4>3 DEF Lines
      <4> QED BY <1>0, <2>2, <3>3, <4>3, <4>4 DEF Page
    <3>4. CASE ~(l + 1 < NLines)
      <4>1. PhysicalLine(n, l) = k.top
        BY <1>0, <2>3, <3>1, <3>2, <3>4
      <4> QED BY <1>0, <2>2, <3>4, <4>1 DEF Page
    <3> QED BY <3>3, <3>4
  <2>7. View(n) = Screen!Feed(View(k))
    <3>1. [l \in Lines |-> n.back[PhysicalLine(n, l)]]
            = [l \in Lines |-> IF l + 1 < NLines THEN k.back[PhysicalLine(k, l + 1)] ELSE Blank]
      BY <2>6
    <3>2. \A l \in Lines : l + 1 < NLines => l + 1 \in Lines
      BY <1>0 DEF Lines
    <3>3. Screen!Feed(View(k)).page
            = [l \in Lines |-> IF l + 1 < NLines THEN View(k).page[l + 1] ELSE Blank]
      BY <1>2 DEF Screen!Feed, Screen!Begin, View, Screen!Lines, Lines, Screen!Blank, Blank, Screen!Cells, Cells
    <3>4. [l \in Lines |-> IF l + 1 < NLines THEN View(k).page[l + 1] ELSE Blank]
            = [l \in Lines |-> IF l + 1 < NLines THEN k.back[PhysicalLine(k, l + 1)] ELSE Blank]
      BY <3>2 DEF View
    <3>5. Screen!Feed(View(k)) = [page |-> Screen!Feed(View(k)).page, line |-> k.cur_line, column |-> 0]
      BY <1>2 DEF Screen!Feed, Screen!Begin, View
    <3>6. View(n) = [page |-> [l \in Lines |-> n.back[PhysicalLine(n, l)]], line |-> k.cur_line, column |-> 0]
      BY <2>2 DEF View
    <3> QED BY <3>1, <3>3, <3>4, <3>5, <3>6
  <2>8. Covers(n)
    BY <2>2 DEF Covers
  <2> QED BY <2>2, <2>5, <2>7, <2>8 DEF n
<1> QED BY <1>1, <1>2

\* Wrapping gives the next glyph a cell.
LEMMA WrappedFits ==
    ASSUME NEW k \in Consoles, Covers(k)
    PROVE  /\ Wrapped(k) \in Consoles /\ Wrapped(k).cur_x < Columns
           /\ View(Wrapped(k)) = Screen!Fitted(View(k))
           /\ Covers(Wrapped(k))
<1>1. k.cur_x \in Nat /\ Columns \in Nat \ {0} /\ View(k).column = k.cur_x
  BY ConsoleAssumption DEF Consoles, View
<1>2. CASE k.cur_x + 1 > Columns
  <2>1. Wrapped(k) = NewLine(k) /\ Screen!Fitted(View(k)) = Screen!Feed(View(k))
    BY <1>1, <1>2 DEF Wrapped, Screen!Fitted
  <2> QED BY <1>1, <2>1, NewLineFeeds
<1>3. CASE ~(k.cur_x + 1 > Columns)
  <2>1. Wrapped(k) = k /\ Screen!Fitted(View(k)) = View(k)
    BY <1>1, <1>3 DEF Wrapped, Screen!Fitted
  <2> QED BY <1>1, <1>3, <2>1
<1> QED BY <1>2, <1>3

\* A tab moves the cursor to the next stop, on this line or the next.
LEMMA TabKeeps ==
    ASSUME NEW k \in Consoles, Covers(k)
    PROVE  /\ TabStop(k) \in Consoles
           /\ View(TabStop(k)) = Screen!Tab(View(k))
           /\ Covers(TabStop(k))
<1> DEFINE x == ((k.cur_x \div TabCells) + 1) * TabCells
<1>1. x \in Nat
  <2>1. k.cur_x \in Nat /\ TabCells \in Nat \ {0}
    BY ConsoleAssumption DEF Consoles
  <2>2. k.cur_x \div TabCells \in Nat
    BY <2>1
  <2> DEFINE q == k.cur_x \div TabCells
  <2> HIDE DEF q
  <2>3. \A a, b \in Nat : (a + 1) * b \in Nat
    OBVIOUS
  <2> QED BY <2>1, <2>2, <2>3
<1> HIDE DEF x
<1>2. TabStop(k) = [k EXCEPT !.cur_x = x]
  BY DEF TabStop, x
<1>3. /\ TabStop(k).back = k.back /\ TabStop(k).top = k.top /\ TabStop(k).cur_line = k.cur_line
      /\ TabStop(k).cur_x = x /\ TabStop(k).dirty_lo = k.dirty_lo /\ TabStop(k).dirty_hi = k.dirty_hi
      /\ TabStop(k).all_dirty = k.all_dirty
  BY <1>2 DEF Consoles
<1>4. TabStop(k) \in Consoles
  BY <1>1, <1>2 DEF Consoles
<1>5. View(TabStop(k)) = Screen!Tab(View(k))
  <2>1. Screen!Tab(View(k)) = [View(k) EXCEPT !.column = x]
    <3>1. View(k).column = k.cur_x
      BY DEF View
    <3>2. ((View(k).column \div TabCells) + 1) * TabCells = x
      BY Zenon, <3>1 DEF x
    <3> QED BY Zenon, <3>2 DEF Screen!Tab
  <2>2. \A l \in Lines : PhysicalLine(TabStop(k), l) = PhysicalLine(k, l)
    BY Zenon, <1>3 DEF PhysicalLine
  <2> DEFINE page == [l \in Lines |-> k.back[PhysicalLine(k, l)]]
  <2>3. [l \in Lines |-> TabStop(k).back[PhysicalLine(TabStop(k), l)]] = page
    BY <1>3, <2>2
  <2>4. View(TabStop(k)) = [page |-> page, line |-> k.cur_line, column |-> x]
    BY Zenon, <1>3, <2>3 DEF View
  <2>5. View(k) = [page |-> page, line |-> k.cur_line, column |-> k.cur_x]
    BY Zenon DEF View
  <2> HIDE DEF page
  <2>6. [View(k) EXCEPT !.column = x] = [page |-> page, line |-> k.cur_line, column |-> x]
    BY <2>5
  <2> QED BY Zenon, <2>1, <2>4, <2>6
<1>6. Covers(TabStop(k))
  BY <1>3 DEF Covers, PhysicalLine
<1> QED BY <1>4, <1>5, <1>6

\* A glyph changes one line of the screen, and that line is dirty.
LEMMA GlyphDraws ==
    ASSUME NEW k \in Consoles, Covers(k), k.cur_x < Columns, NEW g \in Glyphs, fb \in Page
    PROVE  /\ PutGlyph(k, g) \in Consoles /\ PutGlyph(k, g).cur_x <= Columns
           /\ View(PutGlyph(k, g)) = Screen!Draw(View(k), g)
           /\ Covers(PutGlyph(k, g))
<1> DEFINE l == k.cur_line
           p == PhysicalLine(k, l)
           x == k.cur_x
           back == [k.back EXCEPT ![p][x] = @ \cup {g}]
           m == PutGlyph(k, g)
<1>0. /\ NLines \in Nat \ {0} /\ Columns \in Nat \ {0} /\ l \in Lines /\ x \in Cells /\ x \in Nat
      /\ k.back \in Page /\ p \in Lines
      /\ k.dirty_lo \in 0..NLines /\ k.dirty_hi \in Lines
  BY ConsoleAssumption, Physical DEF Consoles, Cells
<1>1. /\ m.back = back /\ m.top = k.top /\ m.cur_line = l /\ m.cur_x = x + 1
      /\ m.all_dirty = k.all_dirty
      /\ m.dirty_lo = (IF l < k.dirty_lo THEN l ELSE k.dirty_lo)
      /\ m.dirty_hi = (IF l > k.dirty_hi THEN l ELSE k.dirty_hi)
      /\ m = [k EXCEPT !.back = back, !.cur_x = x + 1, !.dirty_lo = m.dirty_lo, !.dirty_hi = m.dirty_hi]
  BY DEF PutGlyph, MarkDirty, Consoles
<1>2. back \in Page
  BY <1>0 DEF Page
<1>3. \A q \in Lines : back[q] = IF q = p THEN [k.back[p] EXCEPT ![x] = @ \cup {g}] ELSE k.back[q]
  BY <1>0 DEF Page
<1> HIDE DEF m, back
<1>4. m \in Consoles
  <2>1. m.dirty_lo \in 0..NLines /\ m.dirty_hi \in Lines
    BY <1>0, <1>1 DEF Lines
  <2>2. k.top \in Lines /\ k.all_dirty \in BOOLEAN
    BY DEF Consoles
  <2> QED BY <1>0, <1>1, <1>2, <2>1, <2>2 DEF Consoles
<1>5. \A i \in Lines : PhysicalLine(m, i) = PhysicalLine(k, i) /\ PhysicalLine(k, i) \in Lines
  BY <1>1, Physical DEF PhysicalLine
<1>6. \A i \in Lines : i # l => PhysicalLine(k, i) # p
  BY <1>0, PhysicalInjective
<1>7. View(m) = Screen!Draw(View(k), g)
  <2>1. [i \in Lines |-> m.back[PhysicalLine(m, i)]]
          = [View(k).page EXCEPT ![l] = [k.back[p] EXCEPT ![x] = @ \cup {g}]]
    <3> DEFINE marked == [k.back[p] EXCEPT ![x] = @ \cup {g}]
    <3>1. \A i \in Lines : m.back[PhysicalLine(m, i)] = IF i = l THEN marked ELSE k.back[PhysicalLine(k, i)]
      BY <1>0, <1>1, <1>3, <1>5, <1>6
    <3> HIDE DEF marked
    <3>2. View(k).page = [i \in Lines |-> k.back[PhysicalLine(k, i)]]
      BY DEF View
    <3>3. [View(k).page EXCEPT ![l] = marked] = [i \in Lines |-> IF i = l THEN marked ELSE k.back[PhysicalLine(k, i)]]
      BY <1>0, <3>2
    <3>4. [i \in Lines |-> m.back[PhysicalLine(m, i)]] = [i \in Lines |-> IF i = l THEN marked ELSE k.back[PhysicalLine(k, i)]]
      BY <3>1
    <3> QED BY <3>3, <3>4 DEF marked
  <2>2. View(k).page[l] = k.back[p]
    BY <1>0 DEF View
  <2>3. Screen!Draw(View(k), g)
          = [page |-> [View(k).page EXCEPT ![l] = [View(k).page[l] EXCEPT ![x] = @ \cup {g}]],
             line |-> l, column |-> x + 1]
    BY DrawFields DEF View
  <2> QED BY <1>1, <2>1, <2>2, <2>3 DEF View
<1>8. Covers(m)
  <2> SUFFICES ASSUME ~k.all_dirty, NEW i \in Lines, fb[i] # m.back[PhysicalLine(m, i)]
               PROVE  m.dirty_lo <= i /\ i <= m.dirty_hi
    BY <1>1 DEF Covers
  <2>1. CASE i = l
    BY <1>0, <1>1, <2>1 DEF Lines
  <2>2. CASE i # l
    <3>1. fb[i] # k.back[PhysicalLine(k, i)]
      BY <1>1, <1>3, <1>5, <1>6, <2>2
    <3>2. k.dirty_lo <= i /\ i <= k.dirty_hi
      BY <3>1 DEF Covers
    <3> QED BY <1>0, <1>1, <3>2 DEF Lines
  <2> QED BY <2>1, <2>2
<1>9. m.cur_x <= Columns
  BY <1>0, <1>1
<1> QED BY <1>4, <1>7, <1>8, <1>9 DEF m

\* PutCodepoint does what Terminal's Put does.
LEMMA PutKeeps ==
    ASSUME CInv, NEW c \in Codepoints, PutCodepoint(c)
    PROVE  CInv' /\ Screen!Put(c)
<1>1. /\ con \in Consoles /\ Covers(con) /\ con.cur_x <= Columns /\ fb \in Page /\ fb' = fb
      /\ Text = View(con) /\ Text' = View(con')
  BY ConsoleAssumption DEF CInv, TypeOK, Consoles, Covers, ChangesAreDirty, Text, View, PutCodepoint, PhysicalLine
<1>2. SUFFICES con' \in Consoles /\ con'.cur_x <= Columns /\ View(con') = Screen!Write(View(con), c)
               /\ Covers(con')
  <2>1. Screen!Put(c)
    BY <1>1, <1>2 DEF Screen!Put
  <2>2. TypeOK'
    BY <1>1, <1>2, ConsoleAssumption DEF TypeOK, Consoles
  <2>3. ChangesAreDirty'
    BY <1>1, <1>2 DEF Covers, ChangesAreDirty, PhysicalLine
  <2> QED BY <2>1, <2>2, <2>3 DEF CInv
<1>3. CASE c = "\r"
  <2>1. con' = CarriageReturn(con) /\ Screen!Write(View(con), c) = Screen!Begin(View(con))
    BY <1>3, ConsoleAssumption DEF PutCodepoint, Screen!Write
  <2> QED BY <1>1, <2>1, ReturnKeeps, ConsoleAssumption
<1>4. CASE c = "\n"
  <2>1. con' = NewLine(con) /\ Screen!Write(View(con), c) = Screen!Feed(View(con))
    BY <1>4, ConsoleAssumption DEF PutCodepoint, Screen!Write
  <2> QED BY <1>1, <2>1, NewLineFeeds, ConsoleAssumption
<1>5. CASE c = "\t"
  <2>1. con' = Wrapped(TabStop(con)) /\ Screen!Write(View(con), c) = Screen!Fitted(Screen!Tab(View(con)))
    BY <1>5, ConsoleAssumption DEF PutCodepoint, Screen!Write
  <2>2. TabStop(con) \in Consoles /\ Covers(TabStop(con)) /\ View(TabStop(con)) = Screen!Tab(View(con))
    BY <1>1, TabKeeps
  <2>3. /\ con' \in Consoles /\ con'.cur_x < Columns /\ Covers(con')
        /\ View(con') = Screen!Write(View(con), c)
    BY <2>1, <2>2, WrappedFits
  <2> QED BY <2>3, ConsoleAssumption DEF Consoles
<1>6. CASE c \in Glyphs
  <2>1. /\ con' = PutGlyph(Wrapped(con), c)
        /\ Screen!Write(View(con), c) = Screen!Draw(Screen!Fitted(View(con)), c)
    BY <1>6, ConsoleAssumption DEF PutCodepoint, Screen!Write
  <2>2. /\ Wrapped(con) \in Consoles /\ Wrapped(con).cur_x < Columns /\ Covers(Wrapped(con))
        /\ View(Wrapped(con)) = Screen!Fitted(View(con))
    BY <1>1, WrappedFits
  <2> QED BY <1>1, <1>6, <2>1, <2>2, GlyphDraws
<1>7. CASE c = "none"
  <2>1. con' = Wrapped(con) /\ Screen!Write(View(con), c) = Screen!Fitted(View(con))
    BY <1>7, ConsoleAssumption DEF PutCodepoint, Screen!Write
  <2>2. /\ con' \in Consoles /\ con'.cur_x < Columns /\ Covers(con')
        /\ View(con') = Screen!Write(View(con), c)
    BY <1>1, <2>1, WrappedFits
  <2> QED BY <2>2, ConsoleAssumption DEF Consoles
<1> QED BY <1>3, <1>4, <1>5, <1>6, <1>7 DEF Codepoints

\* Present makes the display equal to the screen.
LEMMA PresentKeeps ==
    ASSUME CInv, Present
    PROVE  CInv' /\ Screen!Refresh
<1>1. /\ con \in Consoles /\ con.top \in 0..(NLines - 1) /\ con.back \in Page /\ fb \in Page
      /\ NLines \in Nat \ {0}
  BY ConsoleAssumption DEF CInv, TypeOK, Consoles, Lines
<1>2. /\ con'.back = con.back /\ con'.top = con.top /\ con'.cur_line = con.cur_line
      /\ con'.cur_x = con.cur_x /\ con'.all_dirty = FALSE
  BY <1>1 DEF Present, Consoles
<1>3. \A l \in Lines : PhysicalLine(con', l) = PhysicalLine(con, l) /\ PhysicalLine(con, l) \in Lines
  BY <1>1, <1>2, Physical DEF PhysicalLine
<1>4. fb' = [l \in Lines |-> con.back[PhysicalLine(con, l)]]
  <2>1. CASE con.all_dirty
    <3>1. ASSUME NEW l \in Lines
          PROVE  (IF l < NLines - con.top THEN con.back[con.top + l]
                  ELSE con.back[l - (NLines - con.top)]) = con.back[PhysicalLine(con, l)]
      <4>1. l \in 0..(NLines - 1)
        BY DEF Lines
      <4>2. PhysicalLine(con, l) = IF con.top + l < NLines THEN con.top + l ELSE con.top + l - NLines
        BY <1>1, Physical
      <4>3. l < NLines - con.top <=> con.top + l < NLines
        BY <1>1, <4>1
      <4>4. l - (NLines - con.top) = con.top + l - NLines
        BY <1>1, <4>1
      <4> QED BY <4>2, <4>3, <4>4
    <3> QED BY <2>1, <3>1 DEF Present, CopyAll
  <2>2. CASE ~con.all_dirty
    <3>1. ASSUME NEW l \in Lines
          PROVE  (IF con.dirty_lo <= l /\ l <= con.dirty_hi THEN con.back[PhysicalLine(con, l)] ELSE fb[l])
                   = con.back[PhysicalLine(con, l)]
      BY <2>2 DEF CInv, ChangesAreDirty
    <3> QED BY <2>2, <3>1 DEF Present, CopyDirty
  <2> QED BY <2>1, <2>2
<1>5. Screen!Refresh
  <2>1. Text.page = [l \in Lines |-> con.back[PhysicalLine(con, l)]]
    BY DEF Text
  <2>2. Text' = Text
    BY <1>2, <1>3 DEF Text
  <2> QED BY <1>4, <2>1, <2>2 DEF Screen!Refresh
<1>6. TypeOK'
  <2>1. fb' \in Page
    BY <1>1, <1>3, <1>4 DEF Page
  <2>2. 0 \in Lines /\ NLines \in 0..NLines
    BY <1>1 DEF Lines
  <2>3. con' = [con EXCEPT !.all_dirty = FALSE, !.dirty_lo = NLines, !.dirty_hi = 0]
    BY DEF Present
  <2> QED BY <2>1, <2>2, <2>3 DEF CInv, TypeOK
<1>7. ChangesAreDirty'
  <2> SUFFICES ASSUME NEW l \in Lines
               PROVE  fb'[l] = con'.back[PhysicalLine(con', l)]
    BY DEF ChangesAreDirty
  <2> QED BY <1>2, <1>3, <1>4
<1> QED BY <1>5, <1>6, <1>7 DEF CInv

\* A console that is cleared shows a blank screen.
LEMMA InitShows == Init => CInv /\ Screen!Init
<1> SUFFICES ASSUME Init PROVE CInv /\ Screen!Init
  OBVIOUS
<1>1. NLines \in Nat \ {0} /\ Columns \in Nat \ {0} /\ 0 \in Lines /\ Blank \in [Cells -> SUBSET Glyphs]
  BY ConsoleAssumption, BlankLine DEF Lines
<1>2. TypeOK
  BY <1>1 DEF Init, TypeOK, Page
<1>3. con \in Consoles
  BY <1>2, ConsoleAssumption DEF TypeOK, Consoles
<1>4. \A l \in Lines : con.back[PhysicalLine(con, l)] = Blank
  BY <1>3, Physical DEF Init
<1>5. ChangesAreDirty
  BY <1>4 DEF Init, ChangesAreDirty
<1>6. Screen!Init
  <2>1. Text = [page |-> [l \in Lines |-> Blank], line |-> 0, column |-> 0]
    BY <1>4 DEF Text, Init
  <2>2. fb = [l \in Lines |-> Blank]
    BY DEF Init
  <2> QED BY <2>1, <2>2 DEF Screen!Init, Screen!Lines, Lines, Screen!Blank, Blank, Screen!Cells, Cells
<1> QED BY <1>2, <1>5, <1>6 DEF CInv

\* Every step of Console is one of Terminal's, or a stutter.
LEMMA StepShows == CInv /\ [Next]_vars => CInv' /\ (Screen!Next \/ UNCHANGED Screen!vars)
<1> SUFFICES ASSUME CInv, [Next]_vars PROVE CInv' /\ (Screen!Next \/ UNCHANGED Screen!vars)
  OBVIOUS
<1>1. ASSUME NEW c \in Codepoints, PutCodepoint(c) PROVE CInv' /\ Screen!Next
  BY <1>1, PutKeeps DEF Screen!Next, Codepoints
<1>2. CASE Present
  BY <1>2, PresentKeeps DEF Screen!Next
<1>3. CASE UNCHANGED vars
  BY <1>3 DEF vars, CInv, TypeOK, ChangesAreDirty, PhysicalLine, Screen!vars, Text
<1> QED BY <1>1, <1>2, <1>3 DEF Next

\* No line that differs from the frame buffer is left out of the dirty range.
THEOREM NothingIsMissed == Spec => []ChangesAreDirty
<1>1. Init => CInv
  BY InitShows
<1>2. CInv /\ [Next]_vars => CInv'
  BY StepShows
<1>3. CInv => ChangesAreDirty
  BY DEF CInv
<1> QED BY <1>1, <1>2, <1>3, PTL DEF Spec

\* What readers of the screen see is Terminal.
THEOREM Implements == Spec => ShowsTerminal
<1>1. Init => CInv /\ Screen!Init
  BY InitShows
<1>2. CInv /\ [Next]_vars => CInv' /\ [Screen!Next]_(Screen!vars)
  BY StepShows
<1> QED BY <1>1, <1>2, PTL DEF Spec, ShowsTerminal, Screen!Spec
-----------------------------------------------------------------------------
(* Strings.                                                                 *)

Shaped(r) ==
    /\ r.form \in {"absent", "short", "long"}
    /\ r.length \in Nat /\ r.capacity \in Nat
    /\ r.buffer \in Blocks \cup {None}
    /\ r.form # "long" => r.buffer = None
    /\ r.form = "short" => r.capacity = LocalCap
    /\ r.form = "long" /\ r.buffer = None => r = Hollow

Functions == /\ rep = [o \in Objects |-> rep[o]]
             /\ heap = [b \in Blocks |-> heap[b]]

Allocated == \A o \in Objects : rep[o].buffer # None =>
                 /\ rep[o].capacity > 0
                 /\ DOMAIN heap[rep[o].buffer] = 0..(rep[o].capacity - 1)

Apart == \A o, p \in Objects : o # p /\ rep[o].buffer # None => rep[o].buffer # rep[p].buffer

EInv == /\ Functions
        /\ \A o \in Objects : Shaped(rep[o])
        /\ Allocated
        /\ Apart
-----------------------------------------------------------------------------
(* The records and sequences.                                               *)

\* The forms an object can have are well shaped.
LEMMA FormShapes ==
    /\ Shaped(Absent) /\ Shaped(Hollow)
    /\ \A n \in Nat : \A bytes : Shaped(Short(n, bytes))
    /\ \A n, size \in Nat, b \in Blocks : Shaped(Long(n, size, b))
    /\ Hollow.buffer = None /\ Absent.buffer = None
    /\ \A n, bytes : Short(n, bytes).buffer = None
    /\ \A n, size, b : Long(n, size, b).buffer = b /\ Long(n, size, b).capacity = size
  BY LocalCapAssumption, NoneAssumption DEF Shaped, Absent, Hollow, Short, Long, Local

\* A text that is read has the length the string counts.
LEMMA ReadLength ==
    ASSUME NEW o, rep[o].length \in Nat
    PROVE  Read(o) \in Seq({Data(o)[i - 1] : i \in 1..rep[o].length}) /\ Len(Read(o)) = rep[o].length
<1> DEFINE S == {Data(o)[i - 1] : i \in 1..rep[o].length}
<1>1. Read(o) \in [1..rep[o].length -> S]
  BY DEF Read
<1>2. Read(o) \in Seq(S)
  BY <1>1, SeqDef
<1> QED
  BY <1>1, <1>2, LenProperties

\* A copied part has a length.
LEMMA SliceLength ==
    ASSUME NEW S, NEW chars \in Seq(S), NEW from \in Nat, NEW count \in Nat
    PROVE  Len(Slice(chars, from, count)) \in Nat
<1> DEFINE rest == IF from + count > Len(chars) THEN Len(chars) - from ELSE count
<1>1. Len(chars) \in Nat
  BY LenProperties
<1>2. CASE from >= Len(chars)
  BY <1>2, EmptySeq DEF Slice
<1>3. CASE ~(from >= Len(chars)) /\ from = 0 /\ rest >= Len(chars)
  BY <1>1, <1>3 DEF Slice
<1>4. CASE ~(from >= Len(chars)) /\ ~(from = 0 /\ rest >= Len(chars))
  <2>1. Slice(chars, from, count) = SubSeq(chars, from + 1, from + rest)
    BY <1>4 DEF Slice
  <2>2. from + 1 \in 1..Len(chars) + 1 /\ from + rest \in from..Len(chars)
    BY <1>1, <1>4
  <2>3. SubSeq(chars, from + 1, from + rest) \in Seq(S)
    BY <1>1, <2>2
  <2> QED
    BY <2>1, <2>3, LenProperties
<1> QED
  BY <1>2, <1>3, <1>4

\* So have the texts of the model.
LEMMA TextLength == \A chars \in Texts : chars \in Seq(Letters) /\ Len(chars) \in Nat
<1> SUFFICES ASSUME NEW chars \in Texts
             PROVE  chars \in Seq(Letters) /\ Len(chars) \in Nat
  OBVIOUS
<1>1. chars \in Seq(Letters)
  BY SeqDef DEF Texts
<1> QED
  BY <1>1, LenProperties
-----------------------------------------------------------------------------
(* The pieces of the operations keep the invariant.                         *)

\* A string that gets a block nobody has, when its own may be deleted.
LEMMA NewBlock ==
    ASSUME EInv, NEW o \in Objects, NEW b \in Unused, NEW n \in Nat, NEW size \in Nat, size > 0,
           NEW bytes, DOMAIN bytes = 0..(size - 1),
           NEW freed, freed = {} \/ freed = Owned(o),
           rep' = [rep EXCEPT ![o] = Long(n, size, b)],
           heap' = HeapWith(b, bytes, freed)
    PROVE  EInv'
<1>1. b \in Blocks /\ DOMAIN heap[b] = {} /\ b # None
  BY NoneAssumption DEF Unused
<1>2. \A p \in Objects : rep[p].buffer # b
  <2> SUFFICES ASSUME NEW p \in Objects, rep[p].buffer = b PROVE FALSE
    OBVIOUS
  <2>1. rep[p].capacity \in Nat /\ rep[p].capacity > 0 /\ 0..(rep[p].capacity - 1) = {}
    BY <1>1 DEF EInv, Allocated, Shaped
  <2>2. 0 \in 0..(rep[p].capacity - 1)
    BY <2>1
  <2> QED
    BY <2>1, <2>2
<1>3. Functions'
  BY DEF EInv, Functions, HeapWith
<1>4. \A p \in Objects : Shaped(rep'[p])
  <2>1. \A p \in Objects : rep'[p] = IF p = o THEN Long(n, size, b) ELSE rep[p]
    BY DEF EInv, Functions
  <2> QED
    BY <1>1, <2>1, FormShapes DEF EInv
<1>5. Allocated'
  <2> SUFFICES ASSUME NEW p \in Objects, rep'[p].buffer # None
               PROVE  rep'[p].capacity > 0 /\ DOMAIN heap'[rep'[p].buffer] = 0..(rep'[p].capacity - 1)
    BY DEF Allocated
  <2>1. CASE p = o
    <3>1. rep'[p] = Long(n, size, b)
      BY <2>1 DEF EInv, Functions
    <3>2. heap'[b] = bytes
      BY <1>1 DEF HeapWith
    <3> QED
      BY <3>1, <3>2, FormShapes
  <2>2. CASE p # o
    <3>1. rep'[p] = rep[p] /\ rep[p].buffer \in Blocks
      BY <2>2 DEF EInv, Functions, Shaped
    <3>2. rep[p].buffer \notin freed
      BY <2>2, <3>1 DEF EInv, Apart, Owned
    <3>3. heap'[rep[p].buffer] = heap[rep[p].buffer]
      BY <1>2, <3>1, <3>2 DEF HeapWith
    <3> QED
      BY <3>1, <3>3 DEF EInv, Allocated
  <2> QED
    BY <2>1, <2>2
<1>6. Apart'
  <2>1. \A p \in Objects : rep'[p].buffer = IF p = o THEN b ELSE rep[p].buffer
    BY FormShapes DEF EInv, Functions
  <2> QED
    BY <1>2, <2>1 DEF EInv, Apart
<1> QED
  BY <1>3, <1>4, <1>5, <1>6 DEF EInv

\* A string that ends up without a block, its own deleted or lost.
LEMMA NoBlock ==
    ASSUME EInv, NEW o \in Objects, NEW r, Shaped(r), r.buffer = None,
           NEW freed, freed = {} \/ freed = Owned(o),
           rep' = [rep EXCEPT ![o] = r],
           heap' = HeapWith(None, <<>>, freed)
    PROVE  EInv'
<1>1. \A p \in Objects : rep'[p] = IF p = o THEN r ELSE rep[p]
  BY DEF EInv, Functions
<1>2. Functions'
  BY DEF EInv, Functions, HeapWith
<1>3. \A p \in Objects : Shaped(rep'[p])
  BY <1>1 DEF EInv
<1>4. Allocated'
  <2> SUFFICES ASSUME NEW p \in Objects, rep'[p].buffer # None
               PROVE  rep'[p].capacity > 0 /\ DOMAIN heap'[rep'[p].buffer] = 0..(rep'[p].capacity - 1)
    BY DEF Allocated
  <2>1. p # o /\ rep'[p] = rep[p] /\ rep[p].buffer \in Blocks
    BY <1>1 DEF EInv, Shaped
  <2>2. rep[p].buffer \notin freed
    BY <2>1 DEF EInv, Apart, Owned
  <2>3. heap'[rep[p].buffer] = heap[rep[p].buffer]
    BY <2>1, <2>2, NoneAssumption DEF HeapWith
  <2> QED
    BY <2>1, <2>3 DEF EInv, Allocated
<1>5. Apart'
  BY <1>1 DEF EInv, Apart
<1> QED
  BY <1>2, <1>3, <1>4, <1>5 DEF EInv

\* init and the copy behind it.
LEMMA BuildKeeps ==
    ASSUME EInv, NEW o \in Objects, NEW chars, Len(chars) \in Nat, NEW before,
           NEW freed, freed = {} \/ freed = Owned(o), Build(o, chars, before, freed)
    PROVE  EInv'
<1> DEFINE n == Len(chars)
           copied == Append(chars, Zero)
<1>1. CASE /\ n < LocalCap
           /\ rep' = [rep EXCEPT ![o] = Short(n, Written(before, 0, copied))]
           /\ heap' = HeapWith(None, <<>>, freed)
  <2> DEFINE r == Short(n, Written(before, 0, copied))
  <2>1. Shaped(r) /\ r.buffer = None
    BY FormShapes
  <2> HIDE DEF r
  <2>2. rep' = [rep EXCEPT ![o] = r]
    BY <1>1 DEF r
  <2> QED
    BY <1>1, <2>1, <2>2, NoBlock
<1>2. ASSUME n >= LocalCap, NEW b \in Unused,
             rep' = [rep EXCEPT ![o] = Long(n, n + 1, b)],
             heap' = HeapWith(b, Written(Memory(n + 1, Junk), 0, copied), freed)
      PROVE  EInv'
  <2> DEFINE bytes == Written(Memory(n + 1, Junk), 0, copied)
  <2>1. DOMAIN bytes = 0..((n + 1) - 1)
    BY DEF Written, Memory
  <2>2. n \in Nat /\ n + 1 \in Nat /\ n + 1 > 0
    OBVIOUS
  <2>3. heap' = HeapWith(b, bytes, freed)
    BY <1>2
  <2> HIDE DEF bytes
  <2> QED
    BY <1>2, <2>1, <2>2, <2>3, NewBlock
<1> QED
  BY <1>1, <1>2 DEF Build

\* reserve beyond the capacity.
LEMMA GrowKeeps ==
    ASSUME EInv, NEW o \in Objects, NEW size \in Nat, size > 0, NEW chars, NEW n \in Nat,
           Grow(o, size, chars, n)
    PROVE  EInv'
<1> DEFINE bytes == Written(Written(Memory(size, Zero), 0, Read(o)), rep[o].length, chars)
<1>1. DOMAIN bytes = 0..(size - 1)
  BY DEF Written, Memory
<1>2. PICK b \in Unused : /\ rep' = [rep EXCEPT ![o] = Long(n, size, b)]
                          /\ heap' = HeapWith(b, bytes, Owned(o))
  BY DEF Grow
<1> HIDE DEF bytes
<1> QED
  BY <1>1, <1>2, NewBlock

\* A change in the buffer there is.
LEMMA WriteKeeps ==
    ASSUME EInv, NEW o \in Objects, Valid(o), NEW at, NEW chars, NEW n \in Nat, Write(o, at, chars, n)
    PROVE  EInv'
<1>1. CASE /\ rep[o].form = "short"
           /\ rep' = [rep EXCEPT ![o] = Short(n, Written(rep[o].bytes, at, chars))]
           /\ UNCHANGED heap
  <2> DEFINE r == Short(n, Written(rep[o].bytes, at, chars))
  <2>1. Shaped(r) /\ r.buffer = None
    BY FormShapes
  <2>2. heap' = HeapWith(None, <<>>, {})
    BY <1>1, NoneAssumption DEF HeapWith, EInv, Functions
  <2> HIDE DEF r
  <2>3. rep' = [rep EXCEPT ![o] = r]
    BY <1>1 DEF r
  <2> QED
    BY <2>1, <2>2, <2>3, NoBlock
<1>2. CASE /\ rep[o].form = "long"
           /\ rep' = [rep EXCEPT ![o] = Long(n, rep[o].capacity, rep[o].buffer)]
           /\ heap' = HeapWith(rep[o].buffer, Written(Data(o), at, chars), {})
  <2>1. rep[o].buffer \in Blocks /\ rep[o].buffer # None /\ rep[o].capacity \in Nat
    BY <1>2 DEF EInv, Shaped, Valid
  <2>2. DOMAIN Written(Data(o), at, chars) = 0..(rep[o].capacity - 1) /\ rep[o].capacity > 0
    BY <1>2, <2>1 DEF EInv, Allocated, Written, Data
  <2> DEFINE r == Long(n, rep[o].capacity, rep[o].buffer)
             bytes == Written(Data(o), at, chars)
  <2>3. Shaped(r) /\ r.buffer = rep[o].buffer /\ r.capacity = rep[o].capacity
    BY <2>1, FormShapes
  <2>4. DOMAIN bytes = 0..(rep[o].capacity - 1) /\ heap' = HeapWith(rep[o].buffer, bytes, {})
    BY <1>2, <2>2
  <2>5. rep' = [rep EXCEPT ![o] = r]
    BY <1>2
  <2> HIDE DEF r, bytes
  <2>6. \A p \in Objects : rep'[p] = IF p = o THEN r ELSE rep[p]
    BY <2>5 DEF EInv, Functions
  <2>7. Functions'
    BY <2>4, <2>5 DEF EInv, Functions, HeapWith
  <2>8. \A p \in Objects : Shaped(rep'[p])
    BY <2>3, <2>6 DEF EInv
  <2>9. Allocated'
    <3> SUFFICES ASSUME NEW p \in Objects, rep'[p].buffer # None
                 PROVE  rep'[p].capacity > 0 /\ DOMAIN heap'[rep'[p].buffer] = 0..(rep'[p].capacity - 1)
      BY DEF Allocated
    <3>1. CASE p = o
      <4>1. heap'[rep[o].buffer] = bytes
        BY <2>1, <2>4 DEF HeapWith
      <4> QED
        BY <2>2, <2>3, <2>4, <2>6, <3>1, <4>1
    <3>2. CASE p # o
      <4>1. rep'[p] = rep[p] /\ rep[p].buffer \in Blocks /\ rep[p].buffer # rep[o].buffer
        BY <2>6, <3>2 DEF EInv, Shaped, Apart
      <4>2. heap'[rep[p].buffer] = heap[rep[p].buffer]
        BY <2>4, <4>1 DEF HeapWith
      <4> QED
        BY <4>1, <4>2 DEF EInv, Allocated
    <3> QED
      BY <3>1, <3>2
  <2>10. Apart'
    BY <2>3, <2>6 DEF EInv, Apart
  <2> QED
    BY <2>7, <2>8, <2>9, <2>10 DEF EInv
<1> QED
  BY <1>1, <1>2 DEF Write

\* The choice of append and push_back between the two.
LEMMA ExtendKeeps ==
    ASSUME EInv, NEW o \in Objects, Valid(o), NEW more \in Nat, NEW chars, NEW n \in Nat,
           Extend(o, more, chars, n)
    PROVE  EInv'
<1> DEFINE needed == rep[o].length + more
<1>1. rep[o].length \in Nat /\ rep[o].capacity \in Nat /\ rep[o].capacity > 0
  BY LocalCapAssumption DEF EInv, Shaped, Allocated, Valid, Exists
<1>2. CASE needed < rep[o].capacity
  BY <1>2, WriteKeeps DEF Extend
<1>3. CASE ~(needed < rep[o].capacity)
  <2>1. needed * 2 \in Nat /\ needed * 2 > 0
    BY <1>1, <1>3
  <2>2. Grow(o, needed * 2, chars, n)
    BY <1>3 DEF Extend
  <2> QED
    BY <2>1, <2>2, GrowKeeps
<1> QED
  BY <1>2, <1>3

\* A move: the source is hollow or short, what the target had is deleted.
LEMMA MoveKeeps ==
    ASSUME EInv, NEW o \in Objects, NEW p \in Objects, o # p, NEW freed, freed = Owned(o), MoveTo(o, p, freed)
    PROVE  EInv'
<1>1. rep' = [rep EXCEPT ![o] = rep[p], ![p] = Taken(p)] /\ heap' = HeapWith(None, <<>>, freed)
  BY DEF MoveTo
<1>2. Shaped(rep[p]) /\ Shaped(Taken(p)) /\ Taken(p).buffer = None
  BY FormShapes DEF EInv, Taken, Shaped
<1>3. \A x \in Objects : rep'[x] = IF x = p THEN Taken(p) ELSE IF x = o THEN rep[p] ELSE rep[x]
  BY <1>1 DEF EInv, Functions
<1>4. Functions'
  BY <1>1 DEF EInv, Functions, HeapWith
<1>5. \A x \in Objects : Shaped(rep'[x])
  BY <1>2, <1>3 DEF EInv
<1>6. ASSUME NEW x \in Objects, x # o, rep[x].buffer # None
      PROVE  heap'[rep[x].buffer] = heap[rep[x].buffer]
  <2>1. rep[x].buffer \in Blocks /\ rep[x].buffer \notin freed
    BY <1>6 DEF EInv, Shaped, Apart, Owned
  <2> QED
    BY <1>1, <2>1, NoneAssumption DEF HeapWith
<1>7. Allocated'
  <2> SUFFICES ASSUME NEW x \in Objects, rep'[x].buffer # None
               PROVE  rep'[x].capacity > 0 /\ DOMAIN heap'[rep'[x].buffer] = 0..(rep'[x].capacity - 1)
    BY DEF Allocated
  <2>1. PICK y \in Objects : y # o /\ rep'[x] = rep[y]
    BY <1>2, <1>3
  <2> QED
    BY <1>6, <2>1 DEF EInv, Allocated
<1>8. Apart'
  BY <1>2, <1>3 DEF EInv, Apart
<1> QED
  BY <1>4, <1>5, <1>7, <1>8 DEF EInv
-----------------------------------------------------------------------------
(* The specification.                                                       *)

LEMMA InitHolds == InitStrings => EInv
<1> SUFFICES ASSUME InitStrings PROVE EInv
  OBVIOUS
<1>1. \A o \in Objects : rep[o] = Absent
  BY DEF InitStrings
<1> QED
  BY <1>1, FormShapes DEF InitStrings, EInv, Functions, Allocated, Apart

\* What concerns one string.
LEMMA AloneKeeps ==
    ASSUME EInv, NEW o \in Objects, Alone(o)
    PROVE  EInv'
<1>0. Shaped(rep[o])
  BY DEF EInv
<1>1. CASE FromText(o)
  <2>1. PICK chars \in Texts : Build(o, chars, Memory(LocalCap, Zero), {})
    BY <1>1 DEF FromText, Construct
  <2> QED
    BY <2>1, TextLength, BuildKeeps
<1>2. CASE Destroy(o)
  BY <1>2, FormShapes, NoBlock DEF Destroy
<1>3. CASE AssignText(o)
  <2>1. PICK chars \in Texts : Build(o, chars, rep[o].bytes, {})
    BY <1>3 DEF AssignText
  <2> QED
    BY <2>1, TextLength, BuildKeeps
<1>4. CASE AppendText(o)
  <2>0. PICK chars \in Texts : \E length \in 0..Len(chars) :
          /\ Valid(o)
          /\ Extend(o, length + 1, Append(SubSeq(chars, 1, length), Zero), rep[o].length + Len(chars))
    BY <1>4 DEF AppendText
  <2>1. PICK length \in 0..Len(chars) :
          /\ Valid(o)
          /\ Extend(o, length + 1, Append(SubSeq(chars, 1, length), Zero), rep[o].length + Len(chars))
    BY <2>0
  <2>2. Len(chars) \in Nat
    BY TextLength
  <2>3. length + 1 \in Nat /\ rep[o].length + Len(chars) \in Nat
    BY <1>0, <2>2 DEF Shaped
  <2> QED
    BY <2>1, <2>3, ExtendKeeps
<1>5. CASE PushBack(o)
  <2>1. PICK c \in Letters : Valid(o) /\ Extend(o, 1, <<c>>, rep[o].length + 1)
    BY <1>5 DEF PushBack
  <2>2. rep[o].length + 1 \in Nat
    BY <1>0 DEF Shaped
  <2> QED
    BY <2>1, <2>2, ExtendKeeps
<1>6. CASE PopBack(o)
  <2>1. rep[o].length - 1 \in Nat
    BY <1>0, <1>6 DEF Shaped, PopBack
  <2> QED
    BY <1>6, <2>1, WriteKeeps DEF PopBack
<1>7. CASE Clear(o)
  BY <1>7, WriteKeeps DEF Clear
<1>8. CASE SetAt(o)
  <2>1. PICK i, c : Valid(o) /\ Write(o, i, <<c>>, rep[o].length)
    BY <1>8 DEF SetAt
  <2>2. rep[o].length \in Nat
    BY <1>0 DEF Shaped
  <2> QED
    BY <2>1, <2>2, WriteKeeps
<1>9. CASE Reserve(o)
  <2>1. PICK size \in 0..MaxReserve : size > rep[o].capacity /\ Grow(o, size, <<>>, rep[o].length)
    BY <1>9 DEF Reserve
  <2>2. size \in Nat /\ size > 0 /\ rep[o].length \in Nat
    BY <1>0, <2>1 DEF Shaped
  <2> QED
    BY <2>1, <2>2, GrowKeeps
<1> QED
  BY <1>1, <1>2, <1>3, <1>4, <1>5, <1>6, <1>7, <1>8, <1>9 DEF Alone

\* What concerns two.
LEMMA PairKeeps ==
    ASSUME EInv, NEW o \in Objects, NEW p \in Objects, Pair(o, p)
    PROVE  EInv'
<1>0. Shaped(rep[o]) /\ Shaped(rep[p])
  BY DEF EInv
<1> DEFINE S == {Data(p)[i - 1] : i \in 1..rep[p].length}
<1>1. Read(p) \in Seq(S) /\ Len(Read(p)) \in Nat
  BY <1>0, ReadLength DEF Shaped
<1> HIDE DEF S
<1>2. CASE CopyOf(o, p)
  <2>1. Build(o, Read(p), Memory(LocalCap, Zero), {})
    BY <1>2 DEF CopyOf, Construct
  <2> QED
    BY <1>1, <2>1, BuildKeeps
<1>3. CASE SubstrOf(o, p)
  <2>1. PICK from, count \in 0..MaxText : Build(o, Slice(Read(p), from, count), Memory(LocalCap, Zero), {})
    BY <1>3 DEF SubstrOf, Construct
  <2>2. Len(Slice(Read(p), from, count)) \in Nat
    BY <1>1, SliceLength
  <2> QED
    BY <2>1, <2>2, BuildKeeps
<1>4. CASE MovedFrom(o, p)
  <2>1. Owned(o) = {} /\ o # p
    BY <1>0, <1>4 DEF MovedFrom, MoveTo, Valid, Exists, Owned, Shaped
  <2> QED
    BY <1>4, <2>1, MoveKeeps DEF MovedFrom
<1>5. CASE AssignCopy(o, p)
  <2>1. Build(o, Read(p), Memory(LocalCap, Zero), Owned(o))
    BY <1>5 DEF AssignCopy
  <2> QED
    BY <1>1, <2>1, BuildKeeps
<1>6. CASE AssignMoved(o, p)
  BY <1>6, MoveKeeps DEF AssignMoved
<1> QED
  BY <1>2, <1>3, <1>4, <1>5, <1>6 DEF Pair

\* Every operation keeps the strings' invariant.
LEMMA NextKeeps == EInv /\ [NextStrings]_strings => EInv'
<1> SUFFICES ASSUME EInv, [NextStrings]_strings PROVE EInv'
  OBVIOUS
<1>1. CASE NextStrings
  BY <1>1, AloneKeeps, PairKeeps DEF NextStrings
<1>2. CASE UNCHANGED strings
  BY <1>2 DEF strings, EInv, Functions, Allocated, Apart
<1> QED
  BY <1>1, <1>2

\* Through every sequence of constructions, copies, moves, assignments, growth
\* and destructions (string.h, string.cc), what a destructor deletes is a block
\* that is allocated and that no other string has.
THEOREM OwnersAreUnique == SpecStrings => []BuffersHaveOneOwner
<1>1. EInv => BuffersHaveOneOwner
  BY DEF EInv, Shaped, Allocated, Apart, BuffersHaveOneOwner, Owned
<1> QED
  BY <1>1, InitHolds, NextKeeps, PTL DEF SpecStrings
-----------------------------------------------------------------------------
(* What strings hold.                                                       *)

\* A buffer of cap bytes holds a text of len characters, with a tail as said.  Behind an
\* empty text there is always a NUL, so that clear, which may write nothing, leaves one.
HoldsIn(len, cap, bytes, chars, behind) ==
    /\ len \in Nat /\ cap \in Nat /\ len < cap /\ DOMAIN bytes = 0..(cap - 1)
    /\ chars \in Seq(Letters) /\ Len(chars) = len
    /\ \A i \in 1..len : bytes[i - 1] = chars[i]
    /\ behind = "open" => len > 0
    /\ behind # "open" => bytes[len] = Zero
    /\ behind = "zero" => \A i \in len..(cap - 1) : bytes[i] = Zero

Holds(o) ==
    /\ DOMAIN rep[o].bytes = 0..(LocalCap - 1)
    /\ Valid(o) => HoldsIn(rep[o].length, rep[o].capacity, Data(o), text[o], tail[o])

HoldInv ==
    /\ EInv
    /\ DOMAIN text = Objects /\ DOMAIN tail = Objects
    /\ \A o \in Objects : Holds(o)

\* Nothing is done to a string.
Kept(o) ==
    /\ rep'[o] = rep[o]
    /\ rep[o].buffer # None => heap'[rep[o].buffer] = heap[rep[o].buffer]

\* The fields of the forms.
LEMMA FormFields ==
  /\ \A n, bytes : LET r == Short(n, bytes)
                   IN  r.form = "short" /\ r.length = n /\ r.capacity = LocalCap /\ r.bytes = bytes /\ r.buffer = None
  /\ \A n, size, b : LET r == Long(n, size, b)
                     IN  r.form = "long" /\ r.length = n /\ r.capacity = size /\ r.buffer = b
                         /\ DOMAIN r.bytes = 0..(LocalCap - 1)
  /\ Absent.form = "absent" /\ DOMAIN Absent.bytes = 0..(LocalCap - 1)
  /\ DOMAIN Hollow.bytes = 0..(LocalCap - 1) /\ Hollow.buffer = None
BY DEF Short, Long, Local, Absent, Hollow, Memory

\* What n characters written at a start of cap bytes leave, and what they become.
WrittenAt(bytes, cap, start, n, chars) ==
    /\ DOMAIN Written(bytes, start, chars) = 0..(cap - 1)
    /\ \A i \in 0..(cap - 1) : i < start \/ i >= start + n => Written(bytes, start, chars)[i] = bytes[i]
    /\ \A k \in 1..n : start + k - 1 < cap => Written(bytes, start, chars)[start + k - 1] = chars[k]

LEMMA WrittenFacts ==
  ASSUME NEW bytes, NEW cap \in Nat, DOMAIN bytes = 0..(cap - 1), NEW start \in Nat,
         NEW n \in Nat, NEW chars, DOMAIN chars = 1..n
  PROVE  WrittenAt(bytes, cap, start, n, chars)
<1>1. \A i \in 0..(cap - 1) : (i - start) + 1 \in DOMAIN chars <=> start <= i /\ i < start + n
  OBVIOUS
<1>2. ASSUME NEW k \in 1..n, start + k - 1 < cap
      PROVE  Written(bytes, start, chars)[start + k - 1] = chars[k]
  <2>1. start + k - 1 \in 0..(cap - 1) /\ ((start + k - 1) - start) + 1 = k
    BY <1>2
  <2> QED BY <2>1 DEF Written
<1>3. DOMAIN Written(bytes, start, chars) = 0..(cap - 1)
  BY DEF Written
<1>4. \A i \in 0..(cap - 1) : i < start \/ i >= start + n => Written(bytes, start, chars)[i] = bytes[i]
  BY <1>1 DEF Written
<1> QED BY <1>2, <1>3, <1>4 DEF WrittenAt

\* A string that is left alone holds what it held.
LEMMA KeptHolds ==
  ASSUME EInv, NEW o \in Objects, Holds(o), Kept(o), text'[o] = text[o], tail'[o] = tail[o]
  PROVE  Holds(o)'
<1>1. rep'[o] = rep[o]
  BY DEF Kept
<1>2. Valid(o)' <=> Valid(o)
  BY <1>1 DEF Valid, Exists, Hollow, Long, Memory
<1>3. Valid(o) => Data(o)' = Data(o)
  <2>1. Valid(o) /\ rep[o].form # "short" => rep[o].buffer # None
    BY DEF Valid, Exists, EInv, Shaped
  <2> QED BY <1>1, <2>1 DEF Kept, Data
<1> QED BY <1>1, <1>2, <1>3 DEF Holds

\* A valid string has its own bytes or a block.
LEMMA ValidForms ==
  ASSUME EInv, NEW o \in Objects, Valid(o)
  PROVE  \/ /\ rep[o].form = "short" /\ rep[o].buffer = None
            /\ Data(o) = rep[o].bytes /\ rep[o].capacity = LocalCap
         \/ /\ rep[o].form = "long" /\ rep[o].buffer \in Blocks /\ rep[o].buffer # None
            /\ Data(o) = heap[rep[o].buffer]
<1>1. rep[o].form \in {"short", "long"} /\ Shaped(rep[o]) /\ rep[o] # Hollow
  BY DEF Valid, Exists, EInv, Shaped
<1>2. CASE rep[o].form = "short"
  BY <1>1, <1>2 DEF Shaped, Data
<1>3. CASE rep[o].form = "long"
  BY <1>1, <1>3 DEF Shaped, Data
<1> QED BY <1>1, <1>2, <1>3

\* No string has a block that is not used.
LEMMA UnusedIsFree ==
  ASSUME EInv, NEW b \in Unused
  PROVE  b \in Blocks /\ b # None /\ \A p \in Objects : rep[p].buffer # b
<1>1. b \in Blocks /\ DOMAIN heap[b] = {} /\ b # None
  BY NoneAssumption DEF Unused
<1>2. ASSUME NEW p \in Objects, rep[p].buffer = b PROVE FALSE
  <2>1. rep[p].capacity \in Nat /\ rep[p].capacity > 0 /\ 0..(rep[p].capacity - 1) = {}
    BY <1>1, <1>2 DEF EInv, Allocated, Shaped
  <2>2. 0 \in 0..(rep[p].capacity - 1)
    BY <2>1
  <2> QED BY <2>1, <2>2
<1> QED BY <1>1, <1>2

\* Strings beside the one that changes.
LEMMA OthersKept ==
  ASSUME EInv, NEW o \in Objects, NEW p \in Objects, p # o, rep'[p] = rep[p],
         NEW b, b = None \/ b \in Unused \/ b = rep[o].buffer,
         NEW bytes, NEW freed, freed = {} \/ freed = Owned(o), heap' = HeapWith(b, bytes, freed)
  PROVE  Kept(p)
<1> SUFFICES ASSUME rep[p].buffer # None PROVE heap'[rep[p].buffer] = heap[rep[p].buffer]
  BY DEF Kept
<1>1. rep[p].buffer \in Blocks
  BY DEF EInv, Shaped
<1>2. rep[p].buffer # rep[o].buffer
  BY DEF EInv, Apart
<1>3. rep[p].buffer # b
  BY <1>2, UnusedIsFree
<1>4. rep[p].buffer \notin freed
  BY <1>2 DEF Owned
<1> QED BY <1>1, <1>3, <1>4 DEF HeapWith

\* What an operation makes of a string: its length and capacity and the bytes that count.
Becomes(o, n, cap, bytes) ==
    /\ rep'[o].form \in {"short", "long"} /\ rep'[o].length = n /\ rep'[o].capacity = cap
    /\ Data(o)' = bytes /\ DOMAIN rep'[o].bytes = 0..(LocalCap - 1)
    /\ \A p \in Objects : p # o => Kept(p)

\* init(length) and the copy.
LEMMA BuildMakes ==
  ASSUME EInv, NEW o \in Objects, NEW chars, Len(chars) \in Nat, NEW before, DOMAIN before = 0..(LocalCap - 1),
         NEW freed, freed = {} \/ freed = Owned(o), Build(o, chars, before, freed)
  PROVE  \/ /\ Len(chars) < LocalCap
            /\ Becomes(o, Len(chars), LocalCap, Written(before, 0, Append(chars, Zero)))
         \/ /\ Len(chars) >= LocalCap
            /\ Becomes(o, Len(chars), Len(chars) + 1,
                       Written(Memory(Len(chars) + 1, Junk), 0, Append(chars, Zero)))
<1> DEFINE n == Len(chars)
           copied == Append(chars, Zero)
           short == Written(before, 0, copied)
           long == Written(Memory(n + 1, Junk), 0, copied)
<1>1. CASE n < LocalCap /\ rep' = [rep EXCEPT ![o] = Short(n, short)] /\ heap' = HeapWith(None, <<>>, freed)
  <2>1. DOMAIN short = 0..(LocalCap - 1)
    BY DEF Written
  <2> HIDE DEF short
  <2>2. rep'[o] = Short(n, short) /\ \A p \in Objects : p # o => rep'[p] = rep[p]
    BY <1>1 DEF EInv, Functions
  <2>3. \A p \in Objects : p # o => Kept(p)
    BY <1>1, <2>2, OthersKept
  <2>4. rep'[o].form = "short" /\ rep'[o].length = n /\ rep'[o].capacity = LocalCap /\ rep'[o].bytes = short
    BY <2>2, FormFields
  <2>5. Data(o)' = short
    BY <2>4 DEF Data
  <2> QED BY <1>1, <2>1, <2>3, <2>4, <2>5 DEF Becomes, short
<1>2. ASSUME n >= LocalCap, NEW b \in Unused, rep' = [rep EXCEPT ![o] = Long(n, n + 1, b)],
             heap' = HeapWith(b, long, freed)
      PROVE  Becomes(o, n, n + 1, long)
  <2> HIDE DEF long
  <2>1. rep'[o] = Long(n, n + 1, b) /\ \A p \in Objects : p # o => rep'[p] = rep[p]
    BY <1>2 DEF EInv, Functions
  <2>2. \A p \in Objects : p # o => Kept(p)
    BY <1>2, <2>1, OthersKept
  <2>3. rep'[o].form = "long" /\ rep'[o].length = n /\ rep'[o].capacity = n + 1 /\ rep'[o].buffer = b
        /\ DOMAIN rep'[o].bytes = 0..(LocalCap - 1)
    BY <2>1, FormFields
  <2>4. heap'[b] = long
    BY <1>2 DEF HeapWith, Unused
  <2>5. Data(o)' = long
    BY <2>3, <2>4 DEF Data
  <2> QED BY <2>2, <2>3, <2>5 DEF Becomes
<1> QED BY <1>1, <1>2 DEF Build

\* A change in the buffer there is.
LEMMA WriteMakes ==
  ASSUME EInv, NEW o \in Objects, Holds(o), Valid(o), NEW start, NEW chars, NEW n \in Nat, Write(o, start, chars, n)
  PROVE  Becomes(o, n, rep[o].capacity, Written(Data(o), start, chars))
<1> DEFINE bytes == Written(Data(o), start, chars)
<1>0. DOMAIN rep[o].bytes = 0..(LocalCap - 1)
  BY DEF Holds
<1>1. CASE rep[o].form = "short"
  <2>1. Data(o) = rep[o].bytes /\ rep[o].capacity = LocalCap
    BY <1>1, ValidForms
  <2>2. rep' = [rep EXCEPT ![o] = Short(n, bytes)] /\ heap' = heap
    BY <1>1, <2>1 DEF Write
  <2>3. DOMAIN bytes = 0..(LocalCap - 1)
    BY <1>0, <2>1 DEF Written
  <2> HIDE DEF bytes
  <2>4. rep'[o] = Short(n, bytes) /\ \A p \in Objects : p # o => Kept(p)
    BY <2>2 DEF EInv, Functions, Kept
  <2>5. rep'[o].form = "short" /\ rep'[o].length = n /\ rep'[o].capacity = LocalCap /\ rep'[o].bytes = bytes
    BY <2>4, FormFields
  <2>6. Data(o)' = bytes
    BY <2>5 DEF Data
  <2> QED BY <2>1, <2>3, <2>4, <2>5, <2>6 DEF Becomes, bytes
<1>2. CASE rep[o].form = "long"
  <2>1. rep[o].buffer \in Blocks /\ rep[o].buffer # None
    BY <1>2, ValidForms
  <2>2. rep' = [rep EXCEPT ![o] = Long(n, rep[o].capacity, rep[o].buffer)] /\ heap' = HeapWith(rep[o].buffer, bytes, {})
    BY <1>2 DEF Write
  <2> HIDE DEF bytes
  <2>3. rep'[o] = Long(n, rep[o].capacity, rep[o].buffer) /\ \A p \in Objects : p # o => rep'[p] = rep[p]
    BY <2>2 DEF EInv, Functions
  <2>4. \A p \in Objects : p # o => Kept(p)
    BY <2>2, <2>3, OthersKept
  <2>5. rep'[o].form = "long" /\ rep'[o].length = n /\ rep'[o].capacity = rep[o].capacity
        /\ rep'[o].buffer = rep[o].buffer /\ DOMAIN rep'[o].bytes = 0..(LocalCap - 1)
    BY <2>3, FormFields
  <2>6. heap'[rep[o].buffer] = bytes
    BY <2>1, <2>2 DEF HeapWith
  <2>7. Data(o)' = bytes
    BY <2>5, <2>6 DEF Data
  <2> QED BY <2>4, <2>5, <2>7 DEF Becomes, bytes
<1> QED BY <1>1, <1>2, ValidForms

\* reserve beyond the capacity.
LEMMA GrowMakes ==
  ASSUME EInv, NEW o \in Objects, NEW size \in Nat, NEW chars, NEW n \in Nat, Grow(o, size, chars, n)
  PROVE  Becomes(o, n, size, Written(Written(Memory(size, Zero), 0, Read(o)), rep[o].length, chars))
<1> DEFINE bytes == Written(Written(Memory(size, Zero), 0, Read(o)), rep[o].length, chars)
<1>1. PICK b \in Unused : rep' = [rep EXCEPT ![o] = Long(n, size, b)] /\ heap' = HeapWith(b, bytes, Owned(o))
  BY DEF Grow
<1> HIDE DEF bytes
<1>2. rep'[o] = Long(n, size, b) /\ \A p \in Objects : p # o => rep'[p] = rep[p]
  BY <1>1 DEF EInv, Functions
<1>3. \A p \in Objects : p # o => Kept(p)
  BY <1>1, <1>2, OthersKept
<1>4. rep'[o].form = "long" /\ rep'[o].length = n /\ rep'[o].capacity = size /\ rep'[o].buffer = b
      /\ DOMAIN rep'[o].bytes = 0..(LocalCap - 1)
  BY <1>2, FormFields
<1>5. heap'[b] = bytes
  BY <1>1 DEF HeapWith, Unused
<1>6. Data(o)' = bytes
  BY <1>4, <1>5 DEF Data
<1> QED BY <1>3, <1>4, <1>6 DEF Becomes, bytes

\* What the string then holds, and the others as before.
LEMMA HoldsAfter ==
  ASSUME HoldInv, EInv', NEW o \in Objects, NEW n, NEW cap, NEW bytes, Becomes(o, n, cap, bytes),
         NEW chars, NEW behind, Means(o, chars, behind), chars # None => HoldsIn(n, cap, bytes, chars, behind)
  PROVE  HoldInv'
<1>1. /\ DOMAIN text' = Objects /\ DOMAIN tail' = Objects
      /\ text'[o] = chars /\ tail'[o] = behind
      /\ \A p \in Objects : p # o => text'[p] = text[p] /\ tail'[p] = tail[p]
  BY DEF Means, HoldInv
<1>2. Holds(o)'
  <2>1. Valid(o)' => chars # None
    BY <1>1 DEF Valid
  <2> QED BY <1>1, <2>1 DEF Becomes, Holds, HoldsIn
<1>3. \A p \in Objects : p # o => Holds(p)'
  <2> SUFFICES ASSUME NEW p \in Objects, p # o PROVE Holds(p)'
    OBVIOUS
  <2>1. Kept(p) /\ Holds(p) /\ EInv
    BY DEF Becomes, HoldInv
  <2> QED BY <1>1, <2>1, KeptHolds
<1> QED BY <1>1, <1>2, <1>3 DEF HoldInv

\* A text is built, or put behind another, with its NUL.
LEMMA TextWritten ==
  ASSUME NEW bytes, NEW cap \in Nat, DOMAIN bytes = 0..(cap - 1), NEW x \in Seq(Letters), NEW t \in Seq(Letters),
         Len(x) + Len(t) < cap, \A i \in 1..Len(x) : bytes[i - 1] = x[i],
         NEW behind, behind # "open",
         behind = "zero" => \A i \in (Len(x) + Len(t) + 1)..(cap - 1) : bytes[i] = Zero
  PROVE  HoldsIn(Len(x) + Len(t), cap, Written(bytes, Len(x), Append(t, Zero)), x \o t, behind)
<1> DEFINE a == Len(x)
           n == Len(t)
           copied == Append(t, Zero)
           z == x \o t
           new == Written(bytes, a, copied)
<1>1. a \in Nat /\ n \in Nat /\ z \in Seq(Letters) /\ Len(z) = a + n
  OBVIOUS
<1>2. /\ \A i \in 1..a : z[i] = x[i]
      /\ \A i \in 1..n : z[a + i] = t[i]
  OBVIOUS
<1>3. DOMAIN copied = 1..(n + 1) /\ copied[n + 1] = Zero /\ \A i \in 1..n : copied[i] = t[i]
  <2>1. t \in Seq(Letters \cup {Zero})
    OBVIOUS
  <2>2. copied \in Seq(Letters \cup {Zero}) /\ Len(copied) = n + 1
    BY <2>1, AppendProperties
  <2> QED BY <2>1, <2>2, AppendProperties
<1> HIDE DEF copied, z, a, n
<1>4. /\ DOMAIN new = 0..(cap - 1)
      /\ \A i \in 0..(cap - 1) : i < a \/ i >= a + (n + 1) => new[i] = bytes[i]
      /\ \A k \in 1..(n + 1) : a + k - 1 < cap => new[a + k - 1] = copied[k]
  <2> DEFINE m == n + 1
  <2>1. m \in Nat /\ DOMAIN copied = 1..m /\ a \in Nat
    BY <1>1, <1>3
  <2> HIDE DEF m
  <2>2. WrittenAt(bytes, cap, a, m, copied)
    BY <2>1, WrittenFacts
  <2> QED BY <2>2 DEF WrittenAt, m
<1> HIDE DEF new
<1>5. a + n < cap
  BY DEF a, n
<1>6. ASSUME NEW i \in 1..(a + n) PROVE new[i - 1] = z[i]
  <2>1. CASE i <= a
    <3>1. i \in 1..a /\ i - 1 \in 0..(cap - 1) /\ i - 1 < a
      BY <1>1, <1>5, <2>1
    <3>2. bytes[i - 1] = x[i]
      BY <3>1 DEF a
    <3> QED BY <1>2, <1>4, <3>1, <3>2
  <2>2. CASE i > a
    <3>1. i - a \in 1..n /\ i - a \in 1..(n + 1) /\ a + (i - a) - 1 = i - 1 /\ a + (i - a) = i /\ i - 1 < cap
      BY <1>1, <1>5, <2>2
    <3>2. new[i - 1] = copied[i - a]
      BY <1>4, <3>1
    <3>3. z[i] = t[i - a]
      BY <1>2, <3>1
    <3> QED BY <1>3, <3>1, <3>2, <3>3
  <2> QED BY <1>1, <2>1, <2>2
<1>7. new[a + n] = Zero
  <2>1. n + 1 \in 1..(n + 1) /\ a + (n + 1) - 1 = a + n
    BY <1>1
  <2> QED BY <1>3, <1>4, <1>5, <2>1
<1>8. behind = "zero" => \A i \in (a + n)..(cap - 1) : new[i] = Zero
  <2> SUFFICES ASSUME behind = "zero", NEW i \in (a + n)..(cap - 1) PROVE new[i] = Zero
    OBVIOUS
  <2>1. CASE i = a + n
    BY <1>7, <2>1
  <2>2. CASE i # a + n
    <3>1. i \in 0..(cap - 1) /\ i >= a + (n + 1)
      BY <1>1, <2>2
    <3>2. bytes[i] = Zero
      BY <1>1, <3>1 DEF a, n
    <3> QED BY <1>4, <3>1, <3>2
  <2> QED BY <2>1, <2>2
<1>9. HoldsIn(a + n, cap, new, z, behind)
  BY <1>1, <1>4, <1>5, <1>6, <1>7, <1>8 DEF HoldsIn
<1> QED BY <1>9 DEF a, n, z, new, copied

\* One more character, without a NUL.
LEMMA CharacterWritten ==
  ASSUME NEW bytes, NEW cap \in Nat, DOMAIN bytes = 0..(cap - 1), NEW x \in Seq(Letters), NEW c \in Letters,
         Len(x) + 1 < cap, \A i \in 1..Len(x) : bytes[i - 1] = x[i],
         NEW behind, behind \in {"zero", "open"},
         behind = "zero" => \A i \in (Len(x) + 1)..(cap - 1) : bytes[i] = Zero
  PROVE  HoldsIn(Len(x) + 1, cap, Written(bytes, Len(x), <<c>>), Append(x, c), behind)
<1> DEFINE a == Len(x)
           one == <<c>>
           z == Append(x, c)
           new == Written(bytes, a, one)
<1>1. a \in Nat /\ z \in Seq(Letters) /\ Len(z) = a + 1 /\ z[a + 1] = c /\ \A i \in 1..a : z[i] = x[i]
  OBVIOUS
<1>2. DOMAIN one = 1..1 /\ one[1] = c
  OBVIOUS
<1> HIDE DEF one, z, a
<1>3. /\ DOMAIN new = 0..(cap - 1)
      /\ \A i \in 0..(cap - 1) : i < a \/ i >= a + 1 => new[i] = bytes[i]
      /\ \A k \in 1..1 : a + k - 1 < cap => new[a + k - 1] = one[k]
  <2> DEFINE m == 1
  <2>1. m \in Nat /\ DOMAIN one = 1..m /\ a \in Nat
    BY <1>1, <1>2
  <2> HIDE DEF m
  <2>2. WrittenAt(bytes, cap, a, m, one)
    BY <2>1, WrittenFacts
  <2> QED BY <2>2 DEF WrittenAt, m
<1> HIDE DEF new
<1>4. a + 1 < cap
  BY DEF a
<1>5. new[a] = c
  <2>1. 1 \in 1..1 /\ a + 1 - 1 = a
    BY <1>1
  <2> QED BY <1>1, <1>2, <1>3, <1>4, <2>1
<1>6. ASSUME NEW i \in 1..(a + 1) PROVE new[i - 1] = z[i]
  <2>1. CASE i = a + 1
    BY <1>1, <1>5, <2>1
  <2>2. CASE i # a + 1
    <3>1. i \in 1..a /\ i - 1 \in 0..(cap - 1) /\ i - 1 < a
      BY <1>1, <1>4, <2>2
    <3>2. bytes[i - 1] = x[i]
      BY <3>1 DEF a
    <3> QED BY <1>1, <1>3, <3>1, <3>2
  <2> QED BY <2>1, <2>2
<1>7. behind = "zero" => \A i \in (a + 1)..(cap - 1) : new[i] = Zero
  <2> SUFFICES ASSUME behind = "zero", NEW i \in (a + 1)..(cap - 1) PROVE new[i] = Zero
    OBVIOUS
  <2>1. i \in 0..(cap - 1) /\ i >= a + 1
    BY <1>1
  <2>2. bytes[i] = Zero
    BY DEF a
  <2> QED BY <1>3, <2>1, <2>2
<1>8. behind # "open" => new[a + 1] = Zero
  BY <1>1, <1>4, <1>7
<1>9. HoldsIn(a + 1, cap, new, z, behind)
  BY <1>1, <1>3, <1>4, <1>6, <1>7, <1>8 DEF HoldsIn
<1> QED BY <1>9 DEF a, z, new, one

\* What is read of a string is its text.
LEMMA ReadIsText ==
  ASSUME HoldInv, NEW o \in Objects, Valid(o)
  PROVE  Read(o) = text[o] /\ text[o] \in Seq(Letters) /\ Len(text[o]) = rep[o].length
<1>1. HoldsIn(rep[o].length, rep[o].capacity, Data(o), text[o], tail[o])
  BY DEF HoldInv, Holds
<1>2. text[o] \in Seq(Letters) /\ Len(text[o]) = rep[o].length /\ rep[o].length \in Nat
      /\ \A i \in 1..rep[o].length : Data(o)[i - 1] = text[o][i]
  BY <1>1 DEF HoldsIn
<1>3. text[o] = [i \in 1..rep[o].length |-> text[o][i]]
  BY <1>2
<1> QED BY <1>2, <1>3 DEF Read

\* A larger block takes the text over and is zero behind it.
LEMMA GrownBytes ==
  ASSUME HoldInv, NEW o \in Objects, Valid(o), NEW size \in Nat, rep[o].length <= size
  PROVE  LET bytes == Written(Memory(size, Zero), 0, Read(o))
         IN  /\ DOMAIN bytes = 0..(size - 1)
             /\ \A i \in 1..rep[o].length : bytes[i - 1] = text[o][i]
             /\ \A i \in rep[o].length..(size - 1) : bytes[i] = Zero
<1> DEFINE none == Memory(size, Zero)
           len == rep[o].length
           read == Read(o)
           bytes == Written(none, 0, read)
<1>1. read = text[o] /\ DOMAIN read = 1..len /\ len \in Nat
  BY ReadIsText
<1>2. DOMAIN none = 0..(size - 1) /\ \A i \in 0..(size - 1) : none[i] = Zero
  BY DEF Memory
<1> HIDE DEF none, read
<1>3. /\ DOMAIN bytes = 0..(size - 1)
      /\ \A i \in 0..(size - 1) : i < 0 \/ i >= 0 + len => bytes[i] = none[i]
      /\ \A k \in 1..len : 0 + k - 1 < size => bytes[0 + k - 1] = read[k]
  <2>1. WrittenAt(none, size, 0, len, read)
    BY <1>1, <1>2, WrittenFacts
  <2> QED BY <2>1 DEF WrittenAt
<1> HIDE DEF bytes, len
<1>4. len <= size
  BY DEF len
<1>5. \A i \in 1..len : 0 + i - 1 < size /\ 0 + i - 1 = i - 1
  BY <1>1, <1>4
<1>6. \A i \in 1..len : bytes[i - 1] = text[o][i]
  BY <1>1, <1>3, <1>5
<1>7. \A i \in len..(size - 1) : bytes[i] = Zero
  BY <1>1, <1>2, <1>3
<1> QED BY <1>3, <1>6, <1>7 DEF bytes, len, none, read
-----------------------------------------------------------------------------
(* The operations keep what strings hold.                                   *)

LEMMA BuildHolds ==
  ASSUME HoldInv, EInv', NEW o \in Objects, NEW chars \in Seq(Letters), NEW before, DOMAIN before = 0..(LocalCap - 1),
         NEW freed, freed = {} \/ freed = Owned(o), Build(o, chars, before, freed),
         NEW behind, Means(o, chars, behind), behind # "open",
         behind = "zero" /\ Len(chars) < LocalCap => \A i \in 0..(LocalCap - 1) : before[i] = Zero
  PROVE  HoldInv'
<1> DEFINE n == Len(chars)
           none == <<>>
           copied == Append(chars, Zero)
<1>1. n \in Nat /\ none \in Seq(Letters) /\ Len(none) = 0 /\ none \o chars = chars /\ EInv
  BY DEF HoldInv
<1>2. /\ 1..Len(none) = {} /\ 0 + n = n /\ LocalCap \in Nat /\ n + 1 \in Nat
  BY <1>1, LocalCapAssumption
<1> HIDE DEF none
<1>3. CASE n < LocalCap /\ Becomes(o, n, LocalCap, Written(before, 0, copied))
  <2>1. behind = "zero" => \A i \in (Len(none) + Len(chars) + 1)..(LocalCap - 1) : before[i] = Zero
    BY <1>1, <1>3
  <2>2. HoldsIn(Len(none) + Len(chars), LocalCap, Written(before, Len(none), Append(chars, Zero)), none \o chars, behind)
    BY <1>1, <1>2, <1>3, <2>1, TextWritten
  <2>3. HoldsIn(n, LocalCap, Written(before, 0, copied), chars, behind)
    BY <1>1, <1>2, <2>2
  <2> QED BY <1>3, <2>3, HoldsAfter
<1>4. CASE n >= LocalCap /\ Becomes(o, n, n + 1, Written(Memory(n + 1, Junk), 0, copied))
  <2> DEFINE size == n + 1
             junk == Memory(size, Junk)
  <2>1. DOMAIN junk = 0..(size - 1) /\ size \in Nat
    BY <1>2 DEF Memory
  <2>2. Len(none) + Len(chars) < size /\ \A i \in (Len(none) + Len(chars) + 1)..(size - 1) : junk[i] = Zero
    BY <1>1
  <2> HIDE DEF junk, size
  <2>3. \A i \in 1..Len(none) : junk[i - 1] = none[i]
    BY <1>1
  <2>4. HoldsIn(Len(none) + Len(chars), size, Written(junk, Len(none), Append(chars, Zero)), none \o chars, behind)
    BY <1>1, <2>1, <2>2, <2>3, TextWritten
  <2>5. HoldsIn(n, size, Written(junk, 0, copied), chars, behind)
    BY <1>1, <1>2, <2>4
  <2> QED BY <1>4, <2>5, HoldsAfter DEF junk, size
<1> QED BY <1>1, <1>3, <1>4, BuildMakes

\* append's and push_back's choice.
LEMMA ExtendMakes ==
  ASSUME HoldInv, NEW o \in Objects, Valid(o), NEW more \in Nat, NEW chars, NEW n \in Nat, Extend(o, more, chars, n)
  PROVE  \/ /\ ~Grows(o, more) /\ rep[o].length + more < rep[o].capacity
            /\ Becomes(o, n, rep[o].capacity, Written(Data(o), rep[o].length, chars))
         \/ /\ Grows(o, more) /\ (rep[o].length + more) * 2 \in Nat
            /\ Becomes(o, n, (rep[o].length + more) * 2,
                       Written(Written(Memory((rep[o].length + more) * 2, Zero), 0, Read(o)), rep[o].length, chars))
<1>1. EInv /\ Holds(o) /\ rep[o].length \in Nat /\ rep[o].capacity \in Nat
  BY DEF HoldInv, EInv, Shaped
<1>2. CASE rep[o].length + more < rep[o].capacity
  <2>1. Write(o, rep[o].length, chars, n)
    BY <1>2 DEF Extend
  <2> QED BY <1>1, <1>2, <2>1, WriteMakes DEF Grows
<1>3. CASE ~(rep[o].length + more < rep[o].capacity)
  <2>1. Grow(o, (rep[o].length + more) * 2, chars, n) /\ (rep[o].length + more) * 2 \in Nat
    BY <1>1, <1>3 DEF Extend
  <2>2. Grows(o, more)
    BY <1>1, <1>3 DEF Grows
  <2> QED BY <1>1, <2>1, <2>2, GrowMakes
<1> QED BY <1>2, <1>3

\* What a valid string holds.
LEMMA ValidHolds ==
  ASSUME HoldInv, NEW o \in Objects, Valid(o)
  PROVE  HoldsIn(rep[o].length, rep[o].capacity, Data(o), text[o], tail[o])
BY DEF HoldInv, Holds

\* append.  A part of a text leaves a string whose length is not that of its text.
LEMMA AppendHolds ==
  ASSUME HoldInv, EInv', NEW o \in Objects, AppendText(o)
  PROVE  HoldInv'
<1>0. PICK chars \in Texts : \E length \in 0..Len(chars) :
        /\ Valid(o)
        /\ Extend(o, length + 1, Append(SubSeq(chars, 1, length), Zero), rep[o].length + Len(chars))
        /\ Means(o, IF length = Len(chars) THEN text[o] \o chars ELSE None,
                    IF Grows(o, length + 1) THEN "zero" ELSE IF tail[o] = "zero" THEN "zero" ELSE "ended")
  BY DEF AppendText
<1>1. PICK length \in 0..Len(chars) :
        /\ Valid(o)
        /\ Extend(o, length + 1, Append(SubSeq(chars, 1, length), Zero), rep[o].length + Len(chars))
        /\ Means(o, IF length = Len(chars) THEN text[o] \o chars ELSE None,
                    IF Grows(o, length + 1) THEN "zero" ELSE IF tail[o] = "zero" THEN "zero" ELSE "ended")
  BY <1>0
<1> DEFINE len == rep[o].length
           n == Len(chars)
           part == SubSeq(chars, 1, length)
           size == (len + (length + 1)) * 2
           grown == Written(Memory(size, Zero), 0, Read(o))
           behind == IF Grows(o, length + 1) THEN "zero" ELSE IF tail[o] = "zero" THEN "zero" ELSE "ended"
           x == text[o]
<1>2. chars \in Seq(Letters) /\ n \in Nat /\ len \in Nat /\ length \in Nat /\ length + 1 \in Nat /\ len + n \in Nat
  BY TextLength DEF HoldInv, EInv, Shaped
<1>3. HoldsIn(len, rep[o].capacity, Data(o), x, tail[o])
  BY <1>1, ValidHolds
<1>4. CASE length = n
  <2>1. part = chars
    BY <1>2, <1>4
  <2>2. Means(o, x \o chars, behind)
    BY <1>1, <1>4
  <2>3. x \in Seq(Letters) /\ Len(x) = len /\ rep[o].capacity \in Nat /\ DOMAIN Data(o) = 0..(rep[o].capacity - 1)
        /\ \A i \in 1..Len(x) : Data(o)[i - 1] = x[i]
    BY <1>3 DEF HoldsIn
  <2>4. CASE /\ ~Grows(o, length + 1) /\ len + (length + 1) < rep[o].capacity
             /\ Becomes(o, len + n, rep[o].capacity, Written(Data(o), len, Append(part, Zero)))
    <3>1. behind # "open" /\ (behind = "zero" => tail[o] = "zero")
      BY <2>4
    <3>2. tail[o] = "zero" => \A i \in len..(rep[o].capacity - 1) : Data(o)[i] = Zero
      BY <1>3 DEF HoldsIn
    <3> HIDE DEF behind
    <3>3. behind = "zero" => \A i \in (Len(x) + Len(chars) + 1)..(rep[o].capacity - 1) : Data(o)[i] = Zero
      BY <1>2, <2>3, <3>1, <3>2
    <3>4. Len(x) + Len(chars) < rep[o].capacity
      BY <1>2, <1>4, <2>3, <2>4
    <3>5. HoldsIn(Len(x) + Len(chars), rep[o].capacity, Written(Data(o), Len(x), Append(chars, Zero)), x \o chars, behind)
      BY <1>2, <2>3, <3>1, <3>3, <3>4, TextWritten
    <3>6. HoldsIn(len + n, rep[o].capacity, Written(Data(o), len, Append(part, Zero)), x \o chars, behind)
      BY <2>1, <2>3, <3>5
    <3> QED BY <2>2, <2>4, <3>6, HoldsAfter
  <2>5. CASE /\ Grows(o, length + 1) /\ size \in Nat
             /\ Becomes(o, len + n, size, Written(grown, len, Append(part, Zero)))
    <3>1. behind = "zero" /\ behind # "open"
      BY <2>5
    <3>2. len <= size /\ Len(x) + Len(chars) < size
      BY <1>2, <1>4, <2>3
    <3>3. /\ DOMAIN grown = 0..(size - 1)
          /\ \A i \in 1..len : grown[i - 1] = x[i]
          /\ \A i \in len..(size - 1) : grown[i] = Zero
      BY <1>1, <2>5, <3>2, GrownBytes
    <3> HIDE DEF behind, grown, size
    <3>4. \A i \in (Len(x) + Len(chars) + 1)..(size - 1) : grown[i] = Zero
      BY <1>2, <2>3, <2>5, <3>3
    <3>5. HoldsIn(Len(x) + Len(chars), size, Written(grown, Len(x), Append(chars, Zero)), x \o chars, behind)
      BY <1>2, <2>3, <2>5, <3>1, <3>2, <3>3, <3>4, TextWritten
    <3>6. HoldsIn(len + n, size, Written(grown, len, Append(part, Zero)), x \o chars, behind)
      BY <2>1, <2>3, <3>5
    <3> QED BY <2>2, <2>5, <3>6, HoldsAfter
  <2> QED BY <1>1, <1>2, <2>4, <2>5, ExtendMakes
<1>5. CASE length # n
  <2>1. Means(o, None, behind)
    BY <1>1, <1>5
  <2> HIDE DEF behind
  <2>2. \E cap, bytes : Becomes(o, len + n, cap, bytes)
    BY <1>1, <1>2, ExtendMakes
  <2> QED BY <2>1, <2>2, HoldsAfter
<1> QED BY <1>4, <1>5

\* push_back writes no NUL, and leaves one only where one was.
LEMMA PushHolds ==
  ASSUME HoldInv, EInv', NEW o \in Objects, PushBack(o)
  PROVE  HoldInv'
<1>1. PICK c \in Letters :
        /\ Valid(o)
        /\ Extend(o, 1, <<c>>, rep[o].length + 1)
        /\ Means(o, Append(text[o], c),
                 IF Grows(o, 1) THEN "zero" ELSE IF tail[o] = "zero" THEN "zero" ELSE "open")
  BY DEF PushBack
<1> DEFINE len == rep[o].length
           size == (len + 1) * 2
           one == <<c>>
           grown == Written(Memory(size, Zero), 0, Read(o))
           behind == IF Grows(o, 1) THEN "zero" ELSE IF tail[o] = "zero" THEN "zero" ELSE "open"
           x == text[o]
<1>2. HoldsIn(len, rep[o].capacity, Data(o), x, tail[o])
  BY <1>1, ValidHolds
<1>3. /\ len \in Nat /\ rep[o].capacity \in Nat /\ DOMAIN Data(o) = 0..(rep[o].capacity - 1)
      /\ x \in Seq(Letters) /\ Len(x) = len
      /\ \A i \in 1..Len(x) : Data(o)[i - 1] = x[i]
      /\ tail[o] = "zero" => \A i \in len..(rep[o].capacity - 1) : Data(o)[i] = Zero
  BY <1>2 DEF HoldsIn
<1>4. Means(o, Append(x, c), behind) /\ behind \in {"zero", "open"} /\ len + 1 \in Nat
  BY <1>1, <1>3
<1>5. CASE /\ ~Grows(o, 1) /\ len + 1 < rep[o].capacity
           /\ Becomes(o, len + 1, rep[o].capacity, Written(Data(o), len, one))
  <2>1. behind = "zero" => tail[o] = "zero"
    BY <1>5
  <2> HIDE DEF behind
  <2>2. behind = "zero" => \A i \in (Len(x) + 1)..(rep[o].capacity - 1) : Data(o)[i] = Zero
    BY <1>3, <2>1
  <2>3. Len(x) + 1 < rep[o].capacity
    BY <1>3, <1>5
  <2>4. HoldsIn(Len(x) + 1, rep[o].capacity, Written(Data(o), Len(x), <<c>>), Append(x, c), behind)
    BY <1>3, <1>4, <2>2, <2>3, CharacterWritten
  <2>5. HoldsIn(len + 1, rep[o].capacity, Written(Data(o), len, one), Append(x, c), behind)
    BY <1>3, <2>4
  <2> QED BY <1>4, <1>5, <2>5, HoldsAfter
<1>6. CASE /\ Grows(o, 1) /\ size \in Nat
           /\ Becomes(o, len + 1, size, Written(grown, len, one))
  <2>1. behind = "zero"
    BY <1>6
  <2>2. len <= size /\ Len(x) + 1 < size
    <3>1. len >= rep[o].capacity - 1 /\ rep[o].capacity > len
      BY <1>2, <1>3, <1>6 DEF Grows, HoldsIn
    <3>2. CASE len > 0
      BY <1>3, <3>2
    <3>3. CASE len = 0
      BY <1>3, <3>3
    <3> QED BY <1>3, <3>2, <3>3
  <2>3. /\ DOMAIN grown = 0..(size - 1)
        /\ \A i \in 1..len : grown[i - 1] = x[i]
        /\ \A i \in len..(size - 1) : grown[i] = Zero
    BY <1>1, <1>6, <2>2, GrownBytes
  <2> HIDE DEF behind, grown, size
  <2>4. \A i \in (Len(x) + 1)..(size - 1) : grown[i] = Zero
    BY <1>3, <1>6, <2>3
  <2>5. HoldsIn(Len(x) + 1, size, Written(grown, Len(x), <<c>>), Append(x, c), behind)
    BY <1>3, <1>4, <1>6, <2>1, <2>2, <2>3, <2>4, CharacterWritten
  <2>6. HoldsIn(len + 1, size, Written(grown, len, one), Append(x, c), behind)
    BY <1>3, <2>5
  <2> QED BY <1>4, <1>6, <2>6, HoldsAfter
<1>7. Extend(o, 1, one, len + 1) /\ Valid(o)
  BY <1>1
<1> HIDE DEF one, behind
<1>8. \/ /\ ~Grows(o, 1) /\ len + 1 < rep[o].capacity
         /\ Becomes(o, len + 1, rep[o].capacity, Written(Data(o), len, one))
      \/ /\ Grows(o, 1) /\ size \in Nat
         /\ Becomes(o, len + 1, size, Written(grown, len, one))
  BY <1>4, <1>7, ExtendMakes
<1> QED BY <1>5, <1>6, <1>8

\* pop_back puts the NUL one further ahead.
LEMMA PopHolds ==
  ASSUME HoldInv, EInv', NEW o \in Objects, PopBack(o)
  PROVE  HoldInv'
<1> DEFINE len == rep[o].length
           cap == rep[o].capacity
           one == <<Zero>>
           x == text[o]
           less == SubSeq(x, 1, len - 1)
           behind == IF tail[o] = "zero" THEN "zero" ELSE "ended"
           new == Written(Data(o), len - 1, one)
<1>1. Valid(o) /\ len > 0 /\ Write(o, len - 1, one, len - 1)
  BY DEF PopBack
<1>2. HoldsIn(len, cap, Data(o), x, tail[o])
  BY <1>1, ValidHolds
<1>3. /\ len \in Nat /\ cap \in Nat /\ len < cap /\ DOMAIN Data(o) = 0..(cap - 1)
      /\ x \in Seq(Letters) /\ Len(x) = len
      /\ \A i \in 1..len : Data(o)[i - 1] = x[i]
      /\ tail[o] = "zero" => \A i \in len..(cap - 1) : Data(o)[i] = Zero
  BY <1>2 DEF HoldsIn
<1>4. Means(o, less, behind) /\ behind # "open" /\ (behind = "zero" => tail[o] = "zero") /\ len - 1 \in Nat
  BY <1>1, <1>3 DEF PopBack
<1>5. less \in Seq(Letters) /\ Len(less) = len - 1 /\ \A i \in 1..(len - 1) : less[i] = x[i]
  BY <1>1, <1>3
<1>6. DOMAIN one = 1..1 /\ one[1] = Zero
  OBVIOUS
<1> HIDE DEF one, less, behind
<1>7. /\ DOMAIN new = 0..(cap - 1)
      /\ \A i \in 0..(cap - 1) : i < (len - 1) \/ i >= (len - 1) + 1 => new[i] = Data(o)[i]
      /\ \A k \in 1..1 : (len - 1) + k - 1 < cap => new[(len - 1) + k - 1] = one[k]
  <2> DEFINE m == 1
             start == len - 1
  <2>1. m \in Nat /\ DOMAIN one = 1..m /\ start \in Nat
    BY <1>4, <1>6
  <2> HIDE DEF m, start
  <2>2. WrittenAt(Data(o), cap, start, m, one)
    BY <1>3, <2>1, WrittenFacts
  <2> QED BY <2>2 DEF WrittenAt, m, start
<1>8. Becomes(o, len - 1, cap, new)
  BY <1>1, <1>4, WriteMakes DEF HoldInv
<1> HIDE DEF new
<1>9. new[len - 1] = Zero
  <2>1. 1 \in 1..1 /\ (len - 1) + 1 - 1 = len - 1 /\ len - 1 < cap
    BY <1>3
  <2> QED BY <1>6, <1>7, <2>1
<1>10. \A i \in 1..(len - 1) : new[i - 1] = less[i]
  <2> SUFFICES ASSUME NEW i \in 1..(len - 1) PROVE new[i - 1] = less[i]
    OBVIOUS
  <2>1. i \in 1..len /\ i - 1 \in 0..(cap - 1) /\ i - 1 < len - 1
    BY <1>3
  <2> QED BY <1>3, <1>5, <1>7, <2>1
<1>11. behind = "zero" => \A i \in (len - 1)..(cap - 1) : new[i] = Zero
  <2> SUFFICES ASSUME behind = "zero", NEW i \in (len - 1)..(cap - 1) PROVE new[i] = Zero
    OBVIOUS
  <2>1. CASE i = len - 1
    BY <1>9, <2>1
  <2>2. CASE i # len - 1
    <3>1. i \in len..(cap - 1) /\ i \in 0..(cap - 1) /\ i >= (len - 1) + 1
      BY <1>3, <2>2
    <3>2. Data(o)[i] = Zero
      BY <1>3, <1>4, <3>1
    <3> QED BY <1>7, <3>1, <3>2
  <2> QED BY <2>1, <2>2
<1>12. HoldsIn(len - 1, cap, new, less, behind)
  <2>1. len - 1 < cap
    BY <1>3
  <2> QED BY <1>3, <1>4, <1>5, <1>7, <1>9, <1>10, <1>11, <2>1 DEF HoldsIn
<1> QED BY <1>4, <1>8, <1>12, HoldsAfter

\* clear writes as many NULs as there were characters: of an empty text the one there is stays.
LEMMA ClearHolds ==
  ASSUME HoldInv, EInv', NEW o \in Objects, Clear(o)
  PROVE  HoldInv'
<1> DEFINE len == rep[o].length
           cap == rep[o].capacity
           x == text[o]
           none == <<>>
           zeroes == Filled(len, Zero)
           behind == IF tail[o] = "zero" THEN "zero" ELSE "ended"
           new == Written(Data(o), 0, zeroes)
<1>1. Valid(o) /\ Write(o, 0, zeroes, 0)
  BY DEF Clear
<1>2. HoldsIn(len, cap, Data(o), x, tail[o])
  BY <1>1, ValidHolds
<1>3. /\ len \in Nat /\ cap \in Nat /\ len < cap /\ DOMAIN Data(o) = 0..(cap - 1)
      /\ tail[o] = "open" => len > 0
      /\ tail[o] # "open" => Data(o)[len] = Zero
      /\ tail[o] = "zero" => \A i \in len..(cap - 1) : Data(o)[i] = Zero
  BY <1>2 DEF HoldsIn
<1>4. Means(o, none, behind) /\ behind # "open" /\ (behind = "zero" => tail[o] = "zero")
  BY DEF Clear
<1>5. none \in Seq(Letters) /\ Len(none) = 0
  OBVIOUS
<1>6. DOMAIN zeroes = 1..len /\ \A i \in 1..len : zeroes[i] = Zero
  BY DEF Filled
<1> HIDE DEF none, zeroes, behind
<1>7. /\ DOMAIN new = 0..(cap - 1)
      /\ \A i \in 0..(cap - 1) : i < 0 \/ i >= 0 + len => new[i] = Data(o)[i]
      /\ \A k \in 1..len : 0 + k - 1 < cap => new[0 + k - 1] = zeroes[k]
  <2>1. WrittenAt(Data(o), cap, 0, len, zeroes)
    BY <1>3, <1>6, WrittenFacts
  <2> QED BY <2>1 DEF WrittenAt
<1>8. Becomes(o, 0, cap, new)
  BY <1>1, WriteMakes DEF HoldInv
<1> HIDE DEF new
<1>9. ASSUME NEW i \in 0..(cap - 1), i < len PROVE new[i] = Zero
  <2>1. i + 1 \in 1..len /\ 0 + (i + 1) - 1 = i /\ i < cap
    BY <1>3, <1>9
  <2> QED BY <1>6, <1>7, <2>1
<1>10. new[0] = Zero
  <2>1. 0 \in 0..(cap - 1)
    BY <1>3
  <2>2. CASE len > 0
    BY <1>9, <2>1, <2>2
  <2>3. CASE len = 0
    <3>1. Data(o)[0] = Zero
      BY <1>3, <2>3
    <3> QED BY <1>7, <2>1, <2>3, <3>1
  <2> QED BY <1>3, <2>2, <2>3
<1>11. behind = "zero" => \A i \in 0..(cap - 1) : new[i] = Zero
  <2> SUFFICES ASSUME behind = "zero", NEW i \in 0..(cap - 1) PROVE new[i] = Zero
    OBVIOUS
  <2>1. CASE i < len
    BY <1>9, <2>1
  <2>2. CASE ~(i < len)
    <3>1. i \in len..(cap - 1) /\ i >= 0 + len
      BY <1>3, <2>2
    <3>2. Data(o)[i] = Zero
      BY <1>3, <1>4, <3>1
    <3> QED BY <1>7, <3>1, <3>2
  <2> QED BY <2>1, <2>2
<1>12. HoldsIn(0, cap, new, none, behind)
  <2>1. 0 < cap /\ 1..0 = {}
    BY <1>3
  <2> QED BY <1>3, <1>4, <1>5, <1>7, <1>10, <1>11, <2>1 DEF HoldsIn
<1> QED BY <1>4, <1>8, <1>12, HoldsAfter

\* at(i) = c
LEMMA SetHolds ==
  ASSUME HoldInv, EInv', NEW o \in Objects, SetAt(o)
  PROVE  HoldInv'
<1> DEFINE len == rep[o].length
           cap == rep[o].capacity
           x == text[o]
<1>1. PICK at \in 0..(MaxText - 1), c \in Letters :
        /\ Valid(o) /\ at < len
        /\ Write(o, at, <<c>>, len)
        /\ Means(o, [x EXCEPT ![at + 1] = c], tail[o])
  BY DEF SetAt
<1> DEFINE one == <<c>>
           z == [x EXCEPT ![at + 1] = c]
           new == Written(Data(o), at, one)
<1>2. HoldsIn(len, cap, Data(o), x, tail[o])
  BY <1>1, ValidHolds
<1>3. /\ len \in Nat /\ cap \in Nat /\ len < cap /\ DOMAIN Data(o) = 0..(cap - 1)
      /\ x \in Seq(Letters) /\ Len(x) = len
      /\ \A i \in 1..len : Data(o)[i - 1] = x[i]
      /\ tail[o] = "open" => len > 0
      /\ tail[o] # "open" => Data(o)[len] = Zero
      /\ tail[o] = "zero" => \A i \in len..(cap - 1) : Data(o)[i] = Zero
  BY <1>2 DEF HoldsIn
<1>4. at \in Nat /\ at + 1 \in 1..len
  BY <1>1, <1>3
<1>5. z \in Seq(Letters) /\ Len(z) = len /\ z[at + 1] = c /\ \A i \in 1..len : i # at + 1 => z[i] = x[i]
  BY <1>3, <1>4
<1>6. DOMAIN one = 1..1 /\ one[1] = c
  OBVIOUS
<1>7. Means(o, z, tail[o]) /\ Write(o, at, one, len) /\ Valid(o) /\ at < len
  BY <1>1
<1> HIDE DEF one, z
<1>8. /\ DOMAIN new = 0..(cap - 1)
      /\ \A i \in 0..(cap - 1) : i < at \/ i >= at + 1 => new[i] = Data(o)[i]
      /\ \A k \in 1..1 : at + k - 1 < cap => new[at + k - 1] = one[k]
  <2> DEFINE m == 1
  <2>1. m \in Nat /\ DOMAIN one = 1..m
    BY <1>6
  <2> HIDE DEF m
  <2>2. WrittenAt(Data(o), cap, at, m, one)
    BY <1>3, <1>4, <2>1, WrittenFacts
  <2> QED BY <2>2 DEF WrittenAt, m
<1>9. Becomes(o, len, cap, new)
  BY <1>3, <1>7, WriteMakes DEF HoldInv
<1> HIDE DEF new
<1>10. new[at] = c
  <2>1. 1 \in 1..1 /\ at + 1 - 1 = at /\ at < cap
    BY <1>3, <1>4, <1>7
  <2> QED BY <1>6, <1>8, <2>1
<1>11. \A i \in 1..len : new[i - 1] = z[i]
  <2> SUFFICES ASSUME NEW i \in 1..len PROVE new[i - 1] = z[i]
    OBVIOUS
  <2>1. CASE i = at + 1
    <3>1. i - 1 = at
      BY <1>4, <2>1
    <3> QED BY <1>5, <1>10, <2>1, <3>1
  <2>2. CASE i # at + 1
    <3>1. i - 1 \in 0..(cap - 1) /\ (i - 1 < at \/ i - 1 >= at + 1)
      BY <1>3, <1>4, <2>2
    <3> QED BY <1>3, <1>5, <1>8, <2>2, <3>1
  <2> QED BY <2>1, <2>2
<1>12. \A i \in len..(cap - 1) : new[i] = Data(o)[i]
  <2> SUFFICES ASSUME NEW i \in len..(cap - 1) PROVE new[i] = Data(o)[i]
    OBVIOUS
  <2>1. i \in 0..(cap - 1) /\ i >= at + 1
    BY <1>3, <1>4
  <2> QED BY <1>8, <2>1
<1>13. HoldsIn(len, cap, new, z, tail[o])
  <2>1. len \in len..(cap - 1)
    BY <1>3
  <2> QED BY <1>3, <1>5, <1>8, <1>11, <1>12, <2>1 DEF HoldsIn
<1> QED BY <1>7, <1>9, <1>13, HoldsAfter

\* reserve
LEMMA ReserveHolds ==
  ASSUME HoldInv, EInv', NEW o \in Objects, Reserve(o)
  PROVE  HoldInv'
<1> DEFINE len == rep[o].length
           x == text[o]
           none == <<>>
           behind == "zero"
<1>1. PICK size \in 0..MaxReserve : /\ Valid(o) /\ size > rep[o].capacity
                                    /\ Grow(o, size, none, len)
                                    /\ Means(o, x, behind)
  BY DEF Reserve
<1> DEFINE grown == Written(Memory(size, Zero), 0, Read(o))
           new == Written(grown, len, none)
<1>2. HoldsIn(len, rep[o].capacity, Data(o), x, tail[o])
  BY <1>1, ValidHolds
<1>3. /\ len \in Nat /\ size \in Nat /\ len < size /\ len <= size
      /\ x \in Seq(Letters) /\ Len(x) = len
  BY <1>1, <1>2 DEF HoldsIn
<1>4. /\ DOMAIN grown = 0..(size - 1)
      /\ \A i \in 1..len : grown[i - 1] = x[i]
      /\ \A i \in len..(size - 1) : grown[i] = Zero
  BY <1>1, <1>3, GrownBytes
<1>5. Becomes(o, len, size, new)
  BY <1>1, <1>3, GrowMakes DEF HoldInv
<1>6. DOMAIN none = 1..0
  OBVIOUS
<1>7. Means(o, x, behind)
  BY <1>1
<1> HIDE DEF grown, none
<1>8. /\ DOMAIN new = 0..(size - 1)
      /\ \A i \in 0..(size - 1) : i < len \/ i >= len + 0 => new[i] = grown[i]
  <2> DEFINE m == 0
  <2>1. m \in Nat /\ DOMAIN none = 1..m
    BY <1>6
  <2> HIDE DEF m
  <2>2. WrittenAt(grown, size, len, m, none)
    BY <1>3, <1>4, <2>1, WrittenFacts
  <2> QED BY <2>2 DEF WrittenAt, m
<1> HIDE DEF new
<1>9. \A i \in 0..(size - 1) : new[i] = grown[i]
  BY <1>3, <1>8
<1>10. \A i \in 1..len : new[i - 1] = x[i]
  <2>1. \A i \in 1..len : i - 1 \in 0..(size - 1)
    BY <1>3
  <2> QED BY <1>4, <1>9, <2>1
<1>11. \A i \in len..(size - 1) : new[i] = Zero
  <2>1. \A i \in len..(size - 1) : i \in 0..(size - 1)
    BY <1>3
  <2> QED BY <1>4, <1>9, <2>1
<1>12. new[len] = Zero
  <2>1. len \in len..(size - 1)
    BY <1>3
  <2> QED BY <1>11, <2>1
<1>13. HoldsIn(len, size, new, x, behind)
  BY <1>3, <1>8, <1>10, <1>11, <1>12 DEF HoldsIn
<1> HIDE DEF behind
<1> QED BY <1>5, <1>7, <1>13, HoldsAfter

\* A move leaves its source what it was, or hollow.
LEMMA MoveHolds ==
  ASSUME HoldInv, EInv', NEW o \in Objects, NEW p \in Objects, o # p,
         NEW freed, freed = {} \/ freed = Owned(o), MoveTo(o, p, freed)
  PROVE  HoldInv'
<1>1. EInv /\ Valid(p) /\ Holds(p) /\ HoldsIn(rep[p].length, rep[p].capacity, Data(p), text[p], tail[p])
  BY ValidHolds DEF HoldInv, MoveTo
<1>2. /\ rep'[o] = rep[p] /\ rep'[p] = Taken(p)
      /\ \A q \in Objects : q # o /\ q # p => rep'[q] = rep[q]
      /\ heap' = HeapWith(None, <<>>, freed)
  BY <1>1 DEF MoveTo, EInv, Functions
<1>3. /\ DOMAIN text' = Objects /\ DOMAIN tail' = Objects
      /\ text'[o] = text[p] /\ tail'[o] = tail[p]
      /\ \A q \in Objects : q # o => text'[q] = text[q] /\ tail'[q] = tail[q]
  BY DEF MoveTo, Means, HoldInv
<1>4. \A q \in Objects : q # o /\ rep'[q] = rep[q] => Holds(q)'
  <2> SUFFICES ASSUME NEW q \in Objects, q # o, rep'[q] = rep[q] PROVE Holds(q)'
    OBVIOUS
  <2>1. Kept(q)
    BY <1>1, <1>2, OthersKept
  <2> QED BY <1>1, <1>3, <2>1, KeptHolds DEF HoldInv
<1>5. Holds(p)'
  <2>1. CASE rep[p].form = "long"
    <3>1. rep'[p] = Hollow
      BY <1>2, <2>1 DEF Taken
    <3>2. ~(Valid(p)')
      BY <3>1 DEF Valid, Hollow, Long, Memory
    <3> QED BY <3>1, <3>2, FormFields DEF Holds
  <2>2. CASE rep[p].form # "long"
    BY <1>2, <1>4, <2>2 DEF Taken
  <2> QED BY <2>1, <2>2
<1>6. Holds(o)'
  <2>1. CASE rep[p].form = "short"
    BY <1>1, <1>2, <1>3, <2>1 DEF Holds, Data
  <2>2. CASE rep[p].form # "short"
    <3>1. rep[p].form = "long" /\ rep[p].buffer \in Blocks /\ rep[p].buffer # None
      BY <1>1, <2>2, ValidForms
    <3>2. rep[p].buffer \notin freed
      BY <1>1, <3>1 DEF EInv, Apart, Owned
    <3>3. heap'[rep[p].buffer] = heap[rep[p].buffer]
      BY <1>2, <3>1, <3>2 DEF HeapWith
    <3>4. Data(o)' = Data(p)
      BY <1>2, <2>2, <3>3 DEF Data
    <3> QED BY <1>1, <1>2, <1>3, <3>4 DEF Holds
  <2> QED BY <2>1, <2>2
<1> QED BY <1>2, <1>3, <1>4, <1>5, <1>6 DEF HoldInv

LEMMA DestroyHolds ==
  ASSUME HoldInv, EInv', NEW o \in Objects, Destroy(o)
  PROVE  HoldInv'
<1>1. /\ EInv
      /\ rep'[o] = Absent /\ heap' = HeapWith(None, <<>>, Owned(o))
      /\ \A p \in Objects : p # o => rep'[p] = rep[p]
  BY DEF Destroy, HoldInv, EInv, Functions
<1>2. /\ DOMAIN text' = Objects /\ DOMAIN tail' = Objects
      /\ \A p \in Objects : p # o => text'[p] = text[p] /\ tail'[p] = tail[p]
  BY DEF Destroy, Means, HoldInv
<1>3. Holds(o)'
  <2>1. ~(Valid(o)')
    BY <1>1, FormFields DEF Valid, Exists
  <2> QED BY <1>1, <2>1, FormFields DEF Holds
<1>4. \A p \in Objects : p # o => Holds(p)'
  <2> SUFFICES ASSUME NEW p \in Objects, p # o PROVE Holds(p)'
    OBVIOUS
  <2>1. Kept(p)
    BY <1>1, OthersKept
  <2> QED BY <1>1, <1>2, <2>1, KeptHolds DEF HoldInv
<1> QED BY <1>2, <1>3, <1>4 DEF HoldInv

\* What substr takes of a text.
LEMMA SliceIsPart ==
  ASSUME NEW x \in Seq(Letters), NEW from \in Nat, NEW count \in Nat
  PROVE  /\ Slice(x, from, count) = SubSeq(x, from + 1, IF from + count < Len(x) THEN from + count ELSE Len(x))
         /\ Slice(x, from, count) \in Seq(Letters)
<1> DEFINE rest == IF from + count > Len(x) THEN Len(x) - from ELSE count
           last == IF from + count < Len(x) THEN from + count ELSE Len(x)
           part == SubSeq(x, from + 1, last)
<1>1. part \in Seq(Letters) /\ Len(x) \in Nat
  OBVIOUS
<1>2. CASE from >= Len(x)
  <2>1. part = <<>>
    BY <1>2
  <2>2. Slice(x, from, count) = <<>>
    BY <1>2 DEF Slice
  <2> QED BY <1>1, <2>1, <2>2
<1>3. CASE ~(from >= Len(x)) /\ from = 0 /\ rest >= Len(x)
  <2>1. last = Len(x)
    BY <1>1, <1>3
  <2>2. part = x
    BY <1>3, <2>1
  <2>3. Slice(x, from, count) = x
    BY <1>3 DEF Slice
  <2> QED BY <1>1, <2>2, <2>3
<1>4. CASE ~(from >= Len(x)) /\ ~(from = 0 /\ rest >= Len(x))
  <2>1. from + rest = last
    BY <1>1, <1>4
  <2>2. Slice(x, from, count) = SubSeq(x, from + 1, from + rest)
    BY <1>4 DEF Slice
  <2> QED BY <1>1, <2>1, <2>2
<1> QED BY <1>2, <1>3, <1>4

\* Constructors.
LEMMA ConstructHolds ==
  ASSUME HoldInv, EInv', NEW o \in Objects, NEW chars \in Seq(Letters), Construct(o, chars, chars)
  PROVE  HoldInv'
<1> DEFINE before == Memory(LocalCap, Zero)
           freed == {}
           behind == "zero"
<1>1. Build(o, chars, before, freed) /\ Means(o, chars, behind)
  BY DEF Construct
<1>2. DOMAIN before = 0..(LocalCap - 1) /\ \A i \in 0..(LocalCap - 1) : before[i] = Zero
  BY DEF Memory
<1>3. behind # "open" /\ (freed = {} \/ freed = Owned(o))
  OBVIOUS
<1> HIDE DEF before, freed, behind
<1> QED BY <1>1, <1>2, <1>3, BuildHolds

LEMMA AssignHolds ==
  ASSUME HoldInv, EInv', NEW o \in Objects, NEW p \in Objects, AssignCopy(o, p)
  PROVE  HoldInv'
<1> DEFINE before == Memory(LocalCap, Zero)
           freed == Owned(o)
           chars == text[p]
           behind == "zero"
<1>1. Valid(p) /\ Build(o, Read(p), before, freed) /\ Means(o, chars, behind)
  BY DEF AssignCopy
<1>2. Build(o, chars, before, freed) /\ chars \in Seq(Letters)
  BY <1>1, ReadIsText
<1>3. DOMAIN before = 0..(LocalCap - 1) /\ \A i \in 0..(LocalCap - 1) : before[i] = Zero
  BY DEF Memory
<1>4. behind # "open" /\ (freed = {} \/ freed = Owned(o))
  OBVIOUS
<1> HIDE DEF before, freed, behind, chars
<1> QED BY <1>1, <1>2, <1>3, <1>4, BuildHolds

\* An assigned literal leaves what was behind it.
LEMMA AssignTextHolds ==
  ASSUME HoldInv, EInv', NEW o \in Objects, AssignText(o)
  PROVE  HoldInv'
<1> DEFINE before == rep[o].bytes
           freed == {}
<1>1. PICK chars \in Texts : /\ Build(o, chars, before, freed)
                             /\ Means(o, chars, IF Len(chars) < LocalCap THEN "ended" ELSE "zero")
  BY DEF AssignText
<1> DEFINE behind == IF Len(chars) < LocalCap THEN "ended" ELSE "zero"
<1>2. chars \in Seq(Letters) /\ DOMAIN before = 0..(LocalCap - 1)
  BY TextLength DEF HoldInv, Holds
<1>3. behind # "open" /\ (freed = {} \/ freed = Owned(o)) /\ ~(behind = "zero" /\ Len(chars) < LocalCap)
      /\ Means(o, chars, behind) /\ Build(o, chars, before, freed)
  BY <1>1
<1> HIDE DEF before, freed, behind
<1> QED BY <1>2, <1>3, BuildHolds

LEMMA HoldsAtFirst == InitStrings => HoldInv
<1> SUFFICES ASSUME InitStrings PROVE HoldInv
  OBVIOUS
<1>1. ASSUME NEW o \in Objects PROVE Holds(o)
  <2>1. rep[o] = Absent
    BY DEF InitStrings
  <2>2. ~Valid(o)
    BY <2>1, FormFields DEF Valid, Exists
  <2> QED BY <2>1, <2>2, FormFields DEF Holds
<1> QED BY <1>1, InitHolds DEF HoldInv, InitStrings

LEMMA AloneHolds ==
  ASSUME HoldInv, EInv', NEW o \in Objects, Alone(o)
  PROVE  HoldInv'
<1>1. CASE FromText(o)
  <2>1. PICK chars \in Texts : Construct(o, chars, chars)
    BY <1>1 DEF FromText
  <2> QED BY <2>1, TextLength, ConstructHolds
<1> QED BY <1>1, DestroyHolds, AssignTextHolds, AppendHolds, PushHolds, PopHolds, ClearHolds, SetHolds, ReserveHolds
        DEF Alone

LEMMA PairHolds ==
  ASSUME HoldInv, EInv', NEW o \in Objects, NEW p \in Objects, Pair(o, p)
  PROVE  HoldInv'
<1>1. CASE CopyOf(o, p)
  <2>1. Valid(p) /\ Construct(o, Read(p), text[p])
    BY <1>1 DEF CopyOf
  <2> QED BY <2>1, ReadIsText, ConstructHolds
<1>2. CASE SubstrOf(o, p)
  <2>1. PICK from \in 0..MaxText, count \in 0..MaxText :
          /\ Valid(p)
          /\ Construct(o, Slice(Read(p), from, count),
                       SubSeq(text[p], from + 1, IF from + count < Len(text[p]) THEN from + count ELSE Len(text[p])))
    BY <1>2 DEF SubstrOf
  <2>2. Read(p) = text[p] /\ text[p] \in Seq(Letters) /\ from \in Nat /\ count \in Nat
    BY <2>1, ReadIsText
  <2> DEFINE part == Slice(text[p], from, count)
  <2>3. part \in Seq(Letters) /\ Construct(o, part, part)
    BY <2>1, <2>2, SliceIsPart
  <2> QED BY <2>3, ConstructHolds
<1>3. CASE MovedFrom(o, p)
  <2>1. o # p /\ MoveTo(o, p, {})
    BY <1>3 DEF MovedFrom, MoveTo, Valid
  <2> QED BY <2>1, MoveHolds
<1>4. CASE AssignMoved(o, p)
  BY <1>4, MoveHolds DEF AssignMoved
<1> QED BY <1>1, <1>2, <1>3, <1>4, AssignHolds DEF Pair

LEMMA HoldsNext == HoldInv /\ [NextStrings]_strings => HoldInv'
<1> SUFFICES ASSUME HoldInv, [NextStrings]_strings PROVE HoldInv'
  OBVIOUS
<1>1. EInv'
  BY NextKeeps DEF HoldInv
<1>2. CASE UNCHANGED strings
  <2>1. \A o \in Objects : Holds(o)'
    BY <1>2, KeptHolds DEF HoldInv, Kept, strings
  <2> QED BY <1>1, <1>2, <2>1 DEF HoldInv, strings
<1>3. CASE NextStrings
  BY <1>1, <1>3, AloneHolds, PairHolds DEF NextStrings
<1> QED BY <1>2, <1>3

\* A string counts and holds the text it was given, and a NUL ends it unless characters
\* were pushed behind an assigned literal, in every state of every instance: string.h's
\* two forms, and the changes between them, lose no character.
THEOREM TextIsAlwaysHeld == SpecStrings => []HoldsText
<1>1. HoldInv => HoldsText
  <2> SUFFICES ASSUME HoldInv, NEW o \in Objects, Valid(o)
               PROVE  /\ rep[o].length < rep[o].capacity
                      /\ Read(o) = text[o]
                      /\ tail[o] # "open" => Data(o)[rep[o].length] = Zero
                      /\ tail[o] = "zero" => \A i \in rep[o].length..(rep[o].capacity - 1) : Data(o)[i] = Zero
    BY DEF HoldsText
  <2>1. HoldsIn(rep[o].length, rep[o].capacity, Data(o), text[o], tail[o])
    BY ValidHolds
  <2> QED BY <2>1, ReadIsText DEF HoldsIn
<1> QED BY <1>1, HoldsAtFirst, HoldsNext, PTL DEF SpecStrings
-----------------------------------------------------------------------------
(* What is put of a number.  Printing's room and fill are vsnprintf's n and *)
(* len.                                                                     *)

\* One turn of the loop of i64toa, and its digits below m.
Turn(f, radix, u) ==
    IF u < radix THEN <<Printing!Table[u + 1]>>
    ELSE Append(f[u \div radix], Printing!Table[(u % radix) + 1])
DigitsBelow(f, radix, m) == f = [u \in 0..(m - 1) |-> Turn(f, radix, u)]

Printable == STRING \cup {"-"} \cup {Printing!Table[i] : i \in Int}

\* One character is a text.
LEMMA OneCharacter == \A S : \A c \in S : <<c>> \in Seq(S)
OBVIOUS

\* Each turn has a smaller number to go on with.
LEMMA QuotientBelow ==
  ASSUME NEW radix \in Nat, radix >= 2, NEW u \in Nat, u >= radix
  PROVE  u \div radix \in 0..(u - 1)
<1> DEFINE q == u \div radix
<1>1. q \in Nat /\ u % radix >= 0 /\ u = radix * q + (u % radix) /\ u % radix \in Int
  BY Division
<1> HIDE DEF q
<1>2. radix * q >= 2 * q
  BY <1>1
<1>3. radix * q \in Int
  BY <1>1
<1>4. 2 * q <= u
  BY <1>1, <1>2, <1>3
<1>5. q < u
  BY <1>1, <1>4
<1> QED BY <1>1, <1>5 DEF q

\* The loop ends: the digits of every number are defined.
LEMMA DigitsExist ==
  ASSUME NEW radix \in Nat, radix >= 2, NEW m \in Nat
  PROVE  \E f : DigitsBelow(f, radix, m)
<1> DEFINE Lack == {k \in Nat : ~\E f : DigitsBelow(f, radix, k)}
<1> SUFFICES ASSUME Lack # {} PROVE FALSE
  OBVIOUS
<1>1. PICK k \in Lack : \A j \in Lack : k <= j
  BY LeastNatural
<1>2. CASE k = 0
  <2> DEFINE none == [u \in 0..(0 - 1) |-> 0]
  <2>1. 0..(0 - 1) = {}
    OBVIOUS
  <2>2. DigitsBelow(none, radix, 0)
    BY <2>1 DEF DigitsBelow
  <2> QED BY <1>1, <1>2, <2>2
<1>3. CASE k # 0
  <2>1. k - 1 \in Nat /\ k - 1 \notin Lack
    BY <1>1, <1>3
  <2>2. PICK f : DigitsBelow(f, radix, k - 1)
    BY <2>1
  <2> DEFINE g == [u \in 0..(k - 1) |-> IF u < k - 1 THEN f[u] ELSE Turn(f, radix, u)]
  <2>3. \A u \in 0..(k - 1) : g[u] = Turn(f, radix, u)
    BY <2>1, <2>2 DEF DigitsBelow
  <2>4. \A u \in 0..(k - 1) : u >= radix => u \div radix \in 0..(k - 1) /\ u \div radix < k - 1
    <3> SUFFICES ASSUME NEW u \in 0..(k - 1), u >= radix
                 PROVE  u \div radix \in 0..(k - 1) /\ u \div radix < k - 1
      OBVIOUS
    <3>1. u \div radix \in 0..(u - 1)
      BY QuotientBelow
    <3> QED BY <2>1, <3>1
  <2>5. \A u \in 0..(k - 1) : Turn(g, radix, u) = Turn(f, radix, u)
    <3> SUFFICES ASSUME NEW u \in 0..(k - 1) PROVE Turn(g, radix, u) = Turn(f, radix, u)
      OBVIOUS
    <3>1. u >= radix => g[u \div radix] = f[u \div radix]
      BY <2>4
    <3>2. u < radix \/ u >= radix
      OBVIOUS
    <3> HIDE DEF g
    <3> QED BY <3>1, <3>2 DEF Turn
  <2>6. g = [u \in 0..(k - 1) |-> g[u]]
    OBVIOUS
  <2> HIDE DEF g
  <2>7. \A u \in 0..(k - 1) : g[u] = Turn(g, radix, u)
    BY <2>3, <2>5
  <2>8. DigitsBelow(g, radix, k)
    BY <2>6, <2>7 DEF DigitsBelow
  <2> QED BY <1>1, <2>8
<1> QED BY <1>2, <1>3

\* And they are a text of some length.
LEMMA DigitsAreText ==
  ASSUME NEW radix \in Nat, radix >= 2, NEW u \in 0..(2 ^ LongLongBits - 1)
  PROVE  Printing!Digits(radix)[u] \in Seq(Printable)
<1> DEFINE m == 2 ^ LongLongBits
           d == Printing!Digits(radix)
<1>1. m \in Nat
  BY SizesAssumption
<1>2. d = CHOOSE f : DigitsBelow(f, radix, m)
  BY DEF Printing!Digits, DigitsBelow, Turn
<1>3. u \in 0..(m - 1)
  OBVIOUS
<1> HIDE DEF m, d
<1>4. DigitsBelow(d, radix, m)
  BY <1>1, <1>2, DigitsExist
<1> DEFINE Bad == {v \in 0..(m - 1) : d[v] \notin Seq(Printable)}
<1>5. ASSUME Bad # {} PROVE FALSE
  <2>0. Bad \subseteq Nat
    BY <1>1
  <2>1. PICK v \in Bad : \A w \in Bad : v <= w
    <3> HIDE DEF Bad
    <3> QED BY <1>5, <2>0, LeastNatural
  <2>2. v \in 0..(m - 1) /\ v \in Nat /\ d[v] = Turn(d, radix, v)
    BY <1>1, <1>4, <2>1 DEF DigitsBelow
  <2>3. CASE v < radix
    <3>1. Printing!Table[v + 1] \in Printable
      BY <2>2 DEF Printable
    <3>2. Turn(d, radix, v) = <<Printing!Table[v + 1]>>
      BY <2>3 DEF Turn
    <3>3. Turn(d, radix, v) \in Seq(Printable)
      BY <3>1, <3>2, OneCharacter
    <3> QED BY <2>1, <2>2, <3>3
  <2>4. CASE v >= radix
    <3>1. v \div radix \in 0..(v - 1)
      BY <2>2, <2>4, QuotientBelow
    <3>2. d[v \div radix] \in Seq(Printable)
      BY <1>1, <2>1, <2>2, <3>1
    <3>3. v % radix \in Int
      BY <2>2, Division
    <3>4. Printing!Table[(v % radix) + 1] \in Printable
      BY <3>3 DEF Printable
    <3>5. Turn(d, radix, v) = Append(d[v \div radix], Printing!Table[(v % radix) + 1])
      BY <2>2, <2>4 DEF Turn
    <3>6. Turn(d, radix, v) \in Seq(Printable)
      BY <3>2, <3>4, <3>5, AppendProperties
    <3> QED BY <2>1, <2>2, <3>6
  <2> QED BY <2>2, <2>3, <2>4
<1> QED BY <1>3, <1>5 DEF d

\* A conversion puts a text, or one character, or nothing.
LEMMA TextOfItem ==
  ASSUME NEW item \in Items
  PROVE  /\ Printing!Copied(item) => /\ Len(Printing!Chars(item)) \in Nat
                                     /\ Printing!Chars(item) \in Seq(Printable)
                                     /\ Printing!CharsWide(item) = Printing!Chars(item)
         /\ ~Printing!Copied(item) => /\ Len(Printing!Chars(item)) \in {0, 1}
                                      /\ Len(Printing!CharsWide(item)) \in {0, 1}
<1>1. CASE Printing!IsNumber(item)
  <2> DEFINE radix == Printing!Radix(item.conv)
             u == Printing!Magnitude(item.conv, item.arg)
             sign == IF Printing!Negative(item.conv, item.arg) THEN <<"-">> ELSE <<>>
             digits == Printing!Digits(radix)[u]
  <2>1. radix \in Nat /\ radix >= 2
    BY DEF Printing!Radix
  <2>2. u \in 0..(2 ^ LongLongBits - 1)
    BY <1>1, ItemsAssumption
  <2> HIDE DEF radix, u
  <2>3. digits \in Seq(Printable)
    BY <2>1, <2>2, DigitsAreText
  <2>4. sign \in Seq(Printable)
    <3>1. "-" \in Printable
      BY DEF Printable
    <3>2. <<"-">> \in Seq(Printable)
      BY <3>1, OneCharacter
    <3>3. <<>> \in Seq(Printable)
      OBVIOUS
    <3> QED BY <3>2, <3>3
  <2>5. Printing!Itoa(item.conv, item.arg) = sign \o digits
    BY DEF Printing!Itoa, radix, u
  <2> HIDE DEF sign, digits
  <2>6. sign \o digits \in Seq(Printable) /\ Len(sign \o digits) \in Nat
    BY <2>3, <2>4, ConcatProperties, LenProperties
  <2>7. Printing!Chars(item) = sign \o digits /\ Printing!CharsWide(item) = sign \o digits
    <3>1. item.conv # "s" /\ item.conv # "unknown"
      BY <1>1 DEF Printing!IsNumber, Printing!Conversions
    <3> QED BY <1>1, <2>5, <3>1 DEF Printing!Chars, Printing!CharsWide, Printing!Itow
  <2> QED BY <1>1, <2>6, <2>7 DEF Printing!Copied
<1>2. CASE ~Printing!IsNumber(item) /\ item.conv = "s"
  <2>1. item.arg \in Seq(STRING)
    BY <1>2, ItemsAssumption
  <2>2. item.arg \in Seq(Printable) /\ Len(item.arg) \in Nat
    BY <2>1 DEF Printable
  <2>3. Printing!Chars(item) = item.arg /\ Printing!CharsWide(item) = item.arg
    BY <1>2 DEF Printing!Chars, Printing!CharsWide
  <2> QED BY <1>2, <2>2, <2>3 DEF Printing!Copied
<1>3. CASE ~Printing!IsNumber(item) /\ item.conv # "s"
  <2>1. \A c : Len(<<c>>) = 1
    OBVIOUS
  <2>2. Len(<<>>) = 0
    OBVIOUS
  <2> QED BY <1>3, <2>1, <2>2 DEF Printing!Chars, Printing!CharsWide, Printing!Copied
<1> QED BY <1>1, <1>2, <1>3
-----------------------------------------------------------------------------
(* Where it is written.                                                     *)

\* str has room elements, the loader's one more than it is told.
FInv ==
    /\ room \in Nat /\ fill \in Nat
    /\ \/ port = "loader" /\ room = Small - 1 /\ DOMAIN str = 0..(Small - 1)
       \/ port # "loader" /\ room > 0 /\ DOMAIN str = 0..(room - 1)
    /\ overrun = FALSE

\* What is written from fill up to room stays in str.
LEMMA WriteStays ==
  ASSUME FInv, NEW chars, Len(chars) \in Nat, fill + Len(chars) <= room,
         Printing!Write(chars)
  PROVE  DOMAIN str' = DOMAIN str /\ overrun' = FALSE
<1>1. PICK size \in Nat : DOMAIN str = 0..(size - 1) /\ room <= size
  <2>1. CASE port = "loader"
    BY <2>1, SizesAssumption DEF FInv
  <2>2. CASE port # "loader"
    BY <2>2 DEF FInv
  <2> QED BY <2>1, <2>2
<1>2. Cardinality(DOMAIN str) = size
  <2>1. Cardinality(0..(size - 1)) = (IF 0 > size - 1 THEN 0 ELSE (size - 1) - 0 + 1)
    BY FS_Interval
  <2> QED BY <1>1, <2>1
<1>3. ~(fill + Len(chars) > size)
  BY <1>1 DEF FInv
<1> QED BY <1>2, <1>3 DEF Printing!Write, FInv

\* strlcpy is told what is left, and keeps one for the NUL.
LEMMA StrlcpyStays ==
  ASSUME FInv, fill < room, NEW chars \in Seq(Printable), Printing!Strlcpy(chars)
  PROVE  DOMAIN str' = DOMAIN str /\ overrun' = FALSE
<1> DEFINE gap == room - fill
           less == SubSeq(chars, 1, gap - 1)
           Or == Printable \cup {Printing!Nul}
<1>1. gap \in Nat /\ gap > 0 /\ fill + gap = room /\ Len(chars) \in Nat /\ chars \in Seq(Or)
  BY DEF FInv
<1>2. CASE Len(chars) < gap
  <2> DEFINE whole == Append(chars, Printing!Nul)
  <2>1. Len(whole) = Len(chars) + 1
    BY <1>1, AppendProperties
  <2>2. Printing!Write(whole)
    BY <1>2 DEF Printing!Strlcpy
  <2>3. Len(whole) \in Nat /\ fill + Len(whole) <= room
    BY <1>1, <1>2, <2>1 DEF FInv
  <2> HIDE DEF whole
  <2> QED BY <2>2, <2>3, WriteStays
<1>3. CASE ~(Len(chars) < gap)
  <2> DEFINE part == Append(less, Printing!Nul)
  <2>1. less \in Seq(Or) /\ Len(less) = gap - 1
    BY <1>1, <1>3, SubSeqProperties
  <2>2. Len(part) = gap
    BY <1>1, <2>1, AppendProperties
  <2>3. Printing!Write(part)
    BY <1>3 DEF Printing!Strlcpy
  <2>4. Len(part) \in Nat /\ fill + Len(part) <= room
    BY <1>1, <2>2 DEF FInv
  <2> HIDE DEF part
  <2> QED BY <2>3, <2>4, WriteStays
<1> QED BY <1>2, <1>3

\* A NUL inside of str.
LEMMA PutNulStays ==
  ASSUME FInv, NEW i \in DOMAIN str, Printing!PutNul(i)
  PROVE  DOMAIN str' = DOMAIN str /\ overrun' = FALSE
<1>1. overrun = FALSE /\ overrun' = (overrun \/ i \notin DOMAIN str)
  BY DEF FInv, Printing!PutNul
<1>2. overrun' = FALSE
  BY <1>1, Zenon
<1> QED BY <1>2 DEF Printing!PutNul

\* vsnprintf and vwsnprintf take an item only while there is room.
LEMMA PutStays ==
  ASSUME FInv, NEW item \in Items, Printing!Put(item) \/ Printing!PutWide(item)
  PROVE  FInv'
<1>1. fill < room /\ room' = room /\ port' = port
  BY DEF Printing!Put, Printing!PutWide
<1>2. CASE Printing!Copied(item)
  <2>1. Printing!Strlcpy(Printing!Chars(item)) /\ fill' = fill + Len(Printing!Chars(item))
    BY <1>2, TextOfItem DEF Printing!Put, Printing!PutWide, Printing!Strlcpy16, Printing!Length
  <2>2. DOMAIN str' = DOMAIN str /\ overrun' = FALSE
    BY <1>1, <1>2, <2>1, StrlcpyStays, TextOfItem
  <2> QED BY <1>1, <1>2, <2>1, <2>2, TextOfItem DEF FInv
<1>3. CASE ~Printing!Copied(item)
  <2>1. PICK chars : Printing!Write(chars) /\ fill' = fill + Len(chars) /\ Len(chars) \in {0, 1}
    BY <1>3, TextOfItem DEF Printing!Put, Printing!PutWide, Printing!Length
  <2>2. Len(chars) \in Nat /\ fill + Len(chars) <= room /\ fill' \in Nat
    BY <1>1, <2>1 DEF FInv
  <2>3. DOMAIN str' = DOMAIN str /\ overrun' = FALSE
    BY <1>1, <2>1, <2>2, WriteStays
  <2> QED BY <1>1, <2>2, <2>3 DEF FInv
<1> QED BY <1>2, <1>3

\* Every step of a message leaves str as it is said to be.
LEMMA FormatStays == FInv /\ Printing!Next => FInv'
<1> SUFFICES ASSUME FInv, Printing!Next PROVE FInv'
  OBVIOUS
<1>1. ASSUME NEW item \in Items, Printing!Put(item) \/ Printing!PutWide(item) PROVE FInv'
  BY <1>1, PutStays
<1>2. CASE Printing!Full
  <2>1. Printing!PutNul(room - 1) /\ room - 1 \in DOMAIN str
    BY <1>2 DEF Printing!Full, FInv
  <2>2. DOMAIN str' = DOMAIN str /\ overrun' = FALSE
    BY <2>1, PutNulStays
  <2> QED BY <1>2, <2>2 DEF Printing!Full, FInv
<1>3. CASE Printing!End
  <2>1. Printing!PutNul(fill) /\ fill \in DOMAIN str
    BY <1>3 DEF Printing!End, FInv
  <2>2. DOMAIN str' = DOMAIN str /\ overrun' = FALSE
    BY <2>1, PutNulStays
  <2> QED BY <1>3, <2>2 DEF Printing!End, FInv
<1>4. CASE Printing!EndWide
  <2> DEFINE end == IF fill > room THEN room ELSE fill
  <2>1. Printing!PutNul(end) /\ end \in DOMAIN str
    BY <1>4, SizesAssumption DEF Printing!EndWide, FInv
  <2> HIDE DEF end
  <2>2. DOMAIN str' = DOMAIN str /\ overrun' = FALSE
    BY <2>1, PutNulStays
  <2> QED BY <1>4, <2>2 DEF Printing!EndWide, FInv
<1>5. CASE Printing!Retry
  BY <1>5, SizesAssumption DEF Printing!Retry, FInv
<1>6. CASE Printing!Show \/ Printing!GiveUp
  BY <1>6 DEF Printing!Show, Printing!GiveUp, FInv
<1> QED BY <1>1, <1>2, <1>3, <1>4, <1>5, <1>6 DEF Printing!Next

\* Whatever the sizes of the buffers, the messages and the numbers, no character and no
\* NUL is written outside of the buffer, although len runs past n when strlcpy has cut a
\* text off: vsnprintf's comment, and vwsnprintf's buffer of one more.
THEOREM BufferIsNeverLeft == SpecTextOutput => []StaysInBuffer
<1>1. InitTextOutput => FInv
  BY SizesAssumption DEF InitTextOutput, Printing!Init, FInv
<1>2. FInv /\ [NextTextOutput]_<<vars, printing, left>> => FInv'
  <2> SUFFICES ASSUME FInv, [NextTextOutput]_<<vars, printing, left>> PROVE FInv'
    OBVIOUS
  <2>1. CASE Format
    BY <2>1, FormatStays DEF Format
  <2>2. CASE UNCHANGED printing
    BY <2>2 DEF printing, FInv
  <2> QED BY <2>1, <2>2 DEF NextTextOutput, Draw, Continue
<1>3. FInv => StaysInBuffer
  BY DEF FInv, StaysInBuffer, Printing!StaysInBuffer
<1> QED BY <1>1, <1>2, <1>3, PTL DEF SpecTextOutput
-----------------------------------------------------------------------------
(* Texts one behind the other.                                              *)

\* The elements of two sequences, one behind the other.
LEMMA Joint ==
  ASSUME NEW S, NEW a \in Seq(S), NEW b \in Seq(S)
  PROVE  /\ a \o b \in Seq(S) /\ Len(a \o b) = Len(a) + Len(b) /\ Len(a) \in Nat /\ Len(b) \in Nat
         /\ \A x \in 1..Len(a) : (a \o b)[x] = a[x]
         /\ \A x \in 1..Len(b) : (a \o b)[Len(a) + x] = b[x]
<1>1. /\ Len(a) \in Nat /\ Len(b) \in Nat /\ a \o b \in Seq(S) /\ Len(a \o b) = Len(a) + Len(b)
      /\ \A x \in 1..(Len(a) + Len(b)) : (a \o b)[x] = IF x <= Len(a) THEN a[x] ELSE b[x - Len(a)]
  BY ConcatProperties, LenProperties
<1>2. ASSUME NEW x \in 1..Len(a) PROVE (a \o b)[x] = a[x]
  BY <1>1
<1>3. ASSUME NEW x \in 1..Len(b) PROVE (a \o b)[Len(a) + x] = b[x]
  <2>1. /\ Len(a) + x \in 1..(Len(a) + Len(b)) /\ ~(Len(a) + x <= Len(a)) /\ (Len(a) + x) - Len(a) = x
    BY <1>1
  <2> QED BY <1>1, <2>1
<1> QED BY <1>1, <1>2, <1>3

\* J is what texts make one behind the other: none of them, the first, the first two, ...
Joins(J, S, parts) ==
    /\ J \in [0..Len(parts) -> Seq(S)] /\ J[0] = <<>>
    /\ \A i \in 1..Len(parts) : J[i] = J[i - 1] \o parts[i]

LEMMA JoinsExist ==
  ASSUME NEW S, NEW parts \in Seq(Seq(S))
  PROVE  \E J : Joins(J, S, parts)
<1> DEFINE k == Len(parts)
           Q == Seq(S)
           step == [p \in Q \X (1..k) |-> p[1] \o parts[p[2]]]
<1>1. k \in Nat /\ \A i \in 1..k : parts[i] \in Q
  BY LenProperties, ElementOfSeq
<1>2. <<>> \in Q
  OBVIOUS
<1>3. \A p \in Q \X (1..k) : p[1] \o parts[p[2]] \in Q
  <2> SUFFICES ASSUME NEW p \in Q \X (1..k) PROVE p[1] \o parts[p[2]] \in Q
    OBVIOUS
  <2>1. p[1] \in Q /\ parts[p[2]] \in Q
    BY <1>1
  <2> QED BY <2>1, ConcatProperties
<1>4. step \in [Q \X (1..k) -> Q]
  BY <1>3
<1> HIDE DEF Q, step, k
<1>5. PICK J \in [0..k -> Q] : J[0] = <<>> /\ \A i \in 1..k : J[i] = step[<<J[i - 1], i>>]
  <2>1. PICK J : Loops(J, Q, <<>>, k, step)
    BY <1>1, <1>2, <1>4, Loop
  <2> QED BY <2>1 DEF Loops
<1>6. ASSUME NEW i \in 1..k PROVE J[i] = J[i - 1] \o parts[i]
  <2>1. J[i - 1] \in Q
    BY <1>1, <1>5
  <2>2. <<J[i - 1], i>> \in Q \X (1..k)
    BY <2>1
  <2>3. step[<<J[i - 1], i>>] = J[i - 1] \o parts[i]
    BY <2>2 DEF step
  <2> QED BY <1>5, <2>3
<1>7. Joins(J, S, parts)
  BY <1>5, <1>6 DEF Joins, Q, k
<1> QED BY <1>7

\* The texts one behind the other, as FlattenSeq has them.
Flat(f, parts) == f = [i \in 1..Len(parts) |-> IF i = 1 THEN parts[i] ELSE f[i - 1] \o parts[i]]

LEMMA JoinsFlatten ==
  ASSUME NEW S, NEW parts \in Seq(Seq(S)), NEW J, Joins(J, S, parts)
  PROVE  (IF Len(parts) = 0 THEN parts ELSE (CHOOSE f : Flat(f, parts))[Len(parts)]) = J[Len(parts)]
<1> DEFINE k == Len(parts)
           flat == CHOOSE f : Flat(f, parts)
<1>1. k \in Nat
  BY LenProperties
<1>5. \A i \in 1..k : /\ i - 1 \in 0..k /\ J[i] = J[i - 1] \o parts[i]
                      /\ J[i - 1] \in Seq(S) /\ J[i] \in Seq(S) /\ parts[i] \in Seq(S)
  <2> SUFFICES ASSUME NEW i \in 1..k
               PROVE  /\ i - 1 \in 0..k /\ J[i] = J[i - 1] \o parts[i]
                      /\ J[i - 1] \in Seq(S) /\ J[i] \in Seq(S) /\ parts[i] \in Seq(S)
    OBVIOUS
  <2>1. i \in 0..k /\ i - 1 \in 0..k
    BY <1>1
  <2>2. parts[i] \in Seq(S)
    BY ElementOfSeq
  <2> HIDE DEF k, flat
  <2>3. J \in [0..k -> Seq(S)] /\ J[i] = J[i - 1] \o parts[i]
    BY DEF Joins, k
  <2> QED BY <2>1, <2>2, <2>3
<1>6. CASE k = 0
  <2>1. parts = <<>> /\ J[0] = <<>>
    BY <1>6, EmptySeq DEF Joins
  <2> QED BY <1>6, <2>1
<1>7. CASE k # 0
  <2> HIDE DEF k
  <2>1. ASSUME 1 \in 1..k PROVE J[1] = parts[1]
    <3>1. J[1] = J[1 - 1] \o parts[1] /\ parts[1] \in Seq(S)
      BY <1>5, <2>1
    <3>2. J[0] = <<>>
      BY DEF Joins
    <3>3. <<>> \o parts[1] = parts[1]
      BY <3>1, ConcatEmptySeq
    <3>4. 1 - 1 = 0
      OBVIOUS
    <3> QED BY Zenon, <3>1, <3>2, <3>3, <3>4
  <2>2. \E f : Flat(f, parts)
    <3> DEFINE g == [i \in 1..k |-> J[i]]
    <3>1. g = [i \in 1..k |-> g[i]] /\ \A i \in 1..k : g[i] = J[i]
      OBVIOUS
    <3> HIDE DEF g
    <3>2. \A i \in 1..k : g[i] = IF i = 1 THEN parts[i] ELSE g[i - 1] \o parts[i]
      <4> SUFFICES ASSUME NEW i \in 1..k PROVE g[i] = IF i = 1 THEN parts[i] ELSE g[i - 1] \o parts[i]
        OBVIOUS
      <4>1. CASE i = 1
        BY <2>1, <3>1, <4>1
      <4>2. CASE i # 1
        <5>1. i - 1 \in 1..k
          BY <1>1, <4>2
        <5> QED BY <1>5, <3>1, <4>2, <5>1
      <4> QED BY <4>1, <4>2
    <3>3. Flat(g, parts)
      BY <3>1, <3>2 DEF Flat, k
    <3> QED BY <3>3
  <2>3. Flat(flat, parts)
    BY <2>2
  <2> HIDE DEF flat
  <2>4. \A i \in 1..k : flat[i] = IF i = 1 THEN parts[i] ELSE flat[i - 1] \o parts[i]
    BY <2>3, Zenon DEF Flat, k
  <2> DEFINE T == {i \in 1..k : flat[i] = J[i]}
  <2>5. 1 \in T
    BY <1>1, <1>7, <2>1, <2>4
  <2>6. ASSUME NEW i \in (1 + 1)..k, i - 1 \in T PROVE i \in T
    <3>1. i \in 1..k /\ i # 1
      BY <1>1
    <3> QED BY <1>5, <2>4, <2>6, <3>1
  <2> HIDE DEF T
  <2>7. \A i \in 1..k : i \in T
    BY <1>1, <2>5, <2>6, StepByStep
  <2>8. flat[k] = J[k]
    BY <1>1, <1>7, <2>7 DEF T
  <2> QED BY <1>7, <2>8 DEF k, flat
<1> QED BY <1>6, <1>7

\* Texts are put behind what is there.
LEMMA JoinsGrow ==
  ASSUME NEW S, NEW parts \in Seq(Seq(S)), NEW J, Joins(J, S, parts), NEW i \in 0..Len(parts)
  PROVE  LET whole == J[Len(parts)]
         IN  /\ J[i] \in Seq(S) /\ whole \in Seq(S)
             /\ Len(J[i]) \in Nat /\ Len(whole) \in Nat /\ Len(J[i]) <= Len(whole)
             /\ \A x \in 1..Len(J[i]) : whole[x] = J[i][x]
<1> DEFINE k == Len(parts)
           T == {j \in i..k : Len(J[i]) <= Len(J[j]) /\ \A x \in 1..Len(J[i]) : J[j][x] = J[i][x]}
<1>1. k \in Nat /\ i \in Nat /\ \A j \in 1..k : parts[j] \in Seq(S)
  BY LenProperties, ElementOfSeq
<1>2. \A j \in 0..k : J[j] \in Seq(S) /\ Len(J[j]) \in Nat
  BY <1>1, LenProperties DEF Joins
<1>3. i \in T
  BY <1>1, <1>2
<1> HIDE DEF k
<1>4. ASSUME NEW j \in (i + 1)..k, j - 1 \in T PROVE j \in T
  <2>0. j \in 1..k /\ j - 1 \in 0..k /\ j \in 0..k
    BY <1>1
  <2>1. J[j] = J[j - 1] \o parts[j] /\ J[j - 1] \in Seq(S)
    BY <1>2, <2>0 DEF Joins, k
  <2>2. parts[j] \in Seq(S) /\ Len(parts[j]) \in Nat
    BY <1>1, <2>0, LenProperties
  <2>3. Len(J[j]) = Len(J[j - 1]) + Len(parts[j])
    BY <2>1, <2>2, ConcatProperties
  <2>4. \A x \in 1..Len(J[j - 1]) : J[j][x] = J[j - 1][x]
    <3>1. \A x \in 1..Len(J[j - 1]) : (J[j - 1] \o parts[j])[x] = J[j - 1][x]
      BY ONLY <2>1, <2>2, Joint
    <3> QED BY <2>1, <3>1
  <2>5. Len(J[j]) \in Nat /\ Len(J[i]) \in Nat /\ Len(J[j - 1]) \in Nat
    BY <1>1, <1>2, <2>0
  <2>6. Len(J[i]) <= Len(J[j - 1]) /\ \A x \in 1..Len(J[i]) : J[j - 1][x] = J[i][x]
    BY <1>4
  <2>7. Len(J[i]) <= Len(J[j])
    <3>1. \A a, b, c, d \in Nat : a <= b /\ c = b + d => a <= c
      OBVIOUS
    <3>2. Len(J[i]) <= Len(J[j - 1]) /\ Len(parts[j]) \in Nat
      BY <2>2, <2>6
    <3> QED BY <2>3, <2>5, <3>1, <3>2
  <2>8. ASSUME NEW x \in 1..Len(J[i]) PROVE J[j][x] = J[i][x]
    <3>1. x \in 1..Len(J[j - 1])
      BY <2>5, <2>6
    <3> QED BY <2>4, <2>6, <3>1
  <2> QED BY <2>0, <2>7, <2>8
<1> HIDE DEF T
<1>5. \A j \in i..k : j \in T
  BY <1>1, <1>3, <1>4, StepByStep
<1>6. k \in T /\ k \in 0..k /\ i \in 0..k
  BY <1>1, <1>5 DEF k
<1>7. /\ J[i] \in Seq(S) /\ J[k] \in Seq(S) /\ Len(J[i]) \in Nat /\ Len(J[k]) \in Nat
      /\ Len(J[i]) <= Len(J[k]) /\ \A x \in 1..Len(J[i]) : J[k][x] = J[i][x]
  BY <1>2, <1>6 DEF T
<1> QED BY <1>7 DEF k
-----------------------------------------------------------------------------
(* What has been put of a message: the text that its items make, one behind *)
(* the other.                                                               *)

\* What messages are made of.
Marks == Printable \cup {Printing!Nul} \cup {item.arg : item \in Items}

\* What a port puts of an item, and what that makes of the items so far.
Part(item) == IF port = "loader" THEN Printing!CharsWide(item) ELSE Printing!Chars(item)
Joined(J) == /\ J \in [0..Len(message) -> Seq(Marks)] /\ J[0] = <<>>
             /\ \A i \in 1..Len(message) : J[i] = J[i - 1] \o Part(message[i])

MInv == /\ \E k \in Nat : message \in [1..k -> Items]
        /\ next \in 1..(Len(message) + 1)

\* A message has a length, and its items are items.
LEMMA MessageLength ==
  ASSUME MInv
  PROVE  /\ Len(message) \in Nat /\ DOMAIN message = 1..Len(message) /\ next \in Nat
         /\ \A i \in 1..Len(message) : message[i] \in Items
<1>1. PICK k \in Nat : message \in [1..k -> Items]
  BY DEF MInv
<1>2. message \in Seq(Items)
  BY <1>1
<1>3. Len(message) \in Nat /\ DOMAIN message = 1..Len(message)
  BY <1>2, LenProperties
<1> QED BY <1>1, <1>2, <1>3 DEF MInv

\* An item is put as a text.
LEMMA PartIsText ==
  ASSUME NEW item \in Items
  PROVE  Part(item) \in Seq(Marks) /\ Len(Part(item)) \in Nat
<1>1. CASE Printing!Copied(item)
  <2>1. Part(item) = Printing!Chars(item) /\ Part(item) \in Seq(Printable)
    BY <1>1, TextOfItem DEF Part
  <2>2. Part(item) \in Seq(Marks)
    BY <2>1 DEF Marks
  <2> QED BY <2>2, LenProperties
<1>2. CASE ~Printing!Copied(item)
  <2>1. item.arg \in Marks
    BY DEF Marks
  <2>2. Part(item) \in {<<>>, <<item.arg>>}
    BY <1>2 DEF Part, Printing!Chars, Printing!CharsWide, Printing!Copied
  <2>3. <<item.arg>> \in Seq(Marks) /\ <<>> \in Seq(Marks)
    BY <2>1, OneCharacter
  <2>4. Part(item) \in Seq(Marks)
    BY <2>2, <2>3
  <2> QED BY <2>4, LenProperties
<1> QED BY <1>1, <1>2

\* What a port puts of each item.
Parts == [i \in DOMAIN message |-> Part(message[i])]

LEMMA PartsJoin ==
  ASSUME MInv
  PROVE  /\ Parts \in Seq(Seq(Marks)) /\ Len(Parts) = Len(message)
         /\ \A J : Joined(J) <=> Joins(J, Marks, Parts)
<1>1. Len(message) \in Nat /\ DOMAIN message = 1..Len(message) /\ \A i \in 1..Len(message) : message[i] \in Items
  BY MessageLength
<1>2. Parts \in [1..Len(message) -> Seq(Marks)] /\ \A i \in 1..Len(message) : Parts[i] = Part(message[i])
  BY <1>1, PartIsText DEF Parts
<1>3. Parts \in Seq(Seq(Marks))
  BY <1>1, <1>2
<1>4. Len(Parts) = Len(message)
  BY <1>1, <1>2, <1>3, LenProperties
<1>5. ASSUME NEW J PROVE Joined(J) <=> Joins(J, Marks, Parts)
  BY Zenon, <1>2, <1>4 DEF Joined, Joins
<1> QED BY <1>3, <1>4, <1>5

\* The items so far make a text.
LEMMA JoinedExists == ASSUME MInv PROVE \E J : Joined(J)
<1>1. \E J : Joins(J, Marks, Parts)
  BY PartsJoin, JoinsExist
<1> QED BY Zenon, <1>1, PartsJoin

\* It is what FlattenSeq makes of them.
LEMMA WholeIsJoined ==
  ASSUME MInv, NEW J, Joined(J)
  PROVE  Printing!Whole = J[Len(message)]
<1>1. Printing!Whole = Printing!FlattenSeq(Parts)
  BY Zenon DEF Printing!Whole, Parts, Part
<1>2. Printing!FlattenSeq(Parts) = IF Len(Parts) = 0 THEN Parts ELSE (CHOOSE f : Flat(f, Parts))[Len(Parts)]
  BY Zenon DEF Printing!FlattenSeq, Flat
<1>3. (IF Len(Parts) = 0 THEN Parts ELSE (CHOOSE f : Flat(f, Parts))[Len(Parts)]) = J[Len(Parts)]
  BY Zenon, PartsJoin, JoinsFlatten
<1> QED BY Zenon, <1>1, <1>2, <1>3, PartsJoin

\* Items are put behind what is there.
LEMMA JoinedGrows ==
  ASSUME MInv, NEW J, Joined(J), NEW i \in 0..Len(message)
  PROVE  LET whole == J[Len(message)]
         IN  /\ J[i] \in Seq(Marks) /\ whole \in Seq(Marks)
             /\ Len(J[i]) \in Nat /\ Len(whole) \in Nat /\ Len(J[i]) <= Len(whole)
             /\ \A x \in 1..Len(J[i]) : whole[x] = J[i][x]
<1>1. Parts \in Seq(Seq(Marks)) /\ Len(Parts) = Len(message) /\ Joins(J, Marks, Parts)
  BY Zenon, PartsJoin
<1>2. i \in 0..Len(Parts)
  BY <1>1
<1>3. LET whole == J[Len(Parts)]
      IN  /\ J[i] \in Seq(Marks) /\ whole \in Seq(Marks)
          /\ Len(J[i]) \in Nat /\ Len(whole) \in Nat /\ Len(J[i]) <= Len(whole)
          /\ \A x \in 1..Len(J[i]) : whole[x] = J[i][x]
  BY <1>1, <1>2, JoinsGrow
<1> QED BY <1>1, <1>3

\* The first k elements of a sequence.
LEMMA Front ==
  ASSUME NEW S, NEW s \in Seq(S), NEW k \in 0..Len(s)
  PROVE  /\ SubSeq(s, 1, k) = [i \in 1..k |-> s[i]]
         /\ SubSeq(s, 1, k) \in Seq(S) /\ Len(SubSeq(s, 1, k)) = k
         /\ \A i \in 1..k : SubSeq(s, 1, k)[i] = s[i]
<1> DEFINE f == [i \in 1..k |-> s[i]]
<1>1. Len(s) \in Nat /\ k \in Nat /\ \A i \in 1..k : i \in 1..Len(s) /\ s[i] \in S
  BY LenProperties, ElementOfSeq
<1>2. f \in [1..k -> S]
  BY <1>1
<1>3. f \in Seq(S) /\ Len(f) = k
  <2>1. f \in Seq(S)
    BY <1>1, <1>2
  <2>2. DOMAIN f = 1..k
    OBVIOUS
  <2> HIDE DEF f
  <2> QED BY <1>1, <2>1, <2>2, LenProperties
<1>4. SubSeq(s, 1, k) \in Seq(S) /\ Len(SubSeq(s, 1, k)) = k /\ \A i \in 1..k : SubSeq(s, 1, k)[i] = s[i]
  <2>1. 1 \in 1..(Len(s) + 1) /\ k \in (1 - 1)..Len(s)
    BY <1>1
  <2>2. Len(SubSeq(s, 1, k)) = (IF 1 <= k THEN k - 1 + 1 ELSE 0)
    BY <1>1, <2>1, SubSeqProperties
  <2>3. Len(SubSeq(s, 1, k)) = k
    BY <1>1, <2>2
  <2> QED BY <1>1, <2>1, <2>3, SubSeqProperties
<1>5. SubSeq(s, 1, k) = f
  <2>1. \A i \in 1..k : f[i] = s[i]
    OBVIOUS
  <2> HIDE DEF f
  <2> QED BY <1>3, <1>4, <2>1, SeqEqual
<1> QED BY <1>4, <1>5

\* A text is read up to its first NUL.
LEMMA FirstNul ==
  ASSUME NEW S, NEW s \in Seq(S), NEW m \in 1..Len(s), s[m] = Printing!Nul,
         \A i \in 1..(m - 1) : s[i] # Printing!Nul
  PROVE  Printing!UpToNul(s) = SubSeq(s, 1, m - 1)
<1> DEFINE I == {i \in 1..Len(s) : s[i] = Printing!Nul}
<1>1. Len(s) \in Nat /\ m \in I /\ I # {}
  BY LenProperties
<1>2. \A y \in I : m <= y
  BY <1>1
<1>3. \A x \in I : (\A y \in I : x <= y) => x = m
  BY <1>1, <1>2
<1>4. Printing!Contains(s, Printing!Nul)
  BY <1>1 DEF Printing!Contains
<1>5. Printing!SelectInSeq(s, LAMBDA c : c = Printing!Nul) = Printing!Min(I)
  BY <1>1 DEF Printing!SelectInSeq
<1> HIDE DEF I
<1>6. Printing!Min(I) = m
  BY <1>1, <1>2, <1>3 DEF Printing!Min
<1> QED BY <1>4, <1>5, <1>6 DEF Printing!UpToNul

LEMMA NoNul ==
  ASSUME NEW S, NEW s \in Seq(S), \A i \in 1..Len(s) : s[i] # Printing!Nul
  PROVE  Printing!UpToNul(s) = s
BY DEF Printing!UpToNul, Printing!Contains

\* Bytes, or str, show the first x characters of a text, and there it ends.
Copies(bytes, x, chars) == \A i \in 0..(x - 1) : bytes[i] = chars[i + 1]
Ended(x, chars)  == x \in DOMAIN str /\ x \in 0..Len(chars) /\ Copies(str, x, chars) /\ str[x] = Printing!Nul

\* And so they are what is read from it.
LEMMA CStringIs ==
  ASSUME FInv, NEW chars \in Seq(Marks), NEW x, Ended(x, chars)
  PROVE  Printing!CString = Printing!UpToNul(SubSeq(chars, 1, x))
<1>1. PICK size \in Nat : DOMAIN str = 0..(size - 1)
  <2>1. CASE port = "loader"
    BY <2>1, SizesAssumption DEF FInv
  <2>2. CASE port # "loader"
    BY <2>2 DEF FInv
  <2> QED BY <2>1, <2>2
<1>2. Cardinality(DOMAIN str) = size
  <2>1. Cardinality(0..(size - 1)) = (IF 0 > size - 1 THEN 0 ELSE (size - 1) - 0 + 1)
    BY FS_Interval
  <2> QED BY <1>1, <2>1
<1> DEFINE read == [i \in 1..size |-> str[i - 1]]
           part == SubSeq(chars, 1, x)
           S == {str[i - 1] : i \in 1..size}
<1>3. Printing!CString = Printing!UpToNul(read)
  BY <1>2, Zenon DEF Printing!CString, Printing!Cardinality, Cardinality
<1>4. x \in Nat /\ x + 1 \in 1..size /\ read[x + 1] = Printing!Nul
  BY <1>1 DEF Ended
<1>5. read \in Seq(S) /\ Len(read) = size
  <2>1. read \in [1..size -> S]
    OBVIOUS
  <2>2. DOMAIN read = 1..size
    OBVIOUS
  <2> HIDE DEF read, S
  <2>3. read \in Seq(S)
    BY <2>1
  <2> QED BY <2>2, <2>3, LenProperties
<1>6. part \in Seq(Marks) /\ Len(part) = x /\ \A i \in 1..x : part[i] = chars[i]
  BY Front DEF Ended
<1>7. \A i \in 1..x : i \in 1..size /\ i \in 1..Len(part) /\ read[i] = part[i]
  <2> SUFFICES ASSUME NEW i \in 1..x PROVE i \in 1..size /\ i \in 1..Len(part) /\ read[i] = part[i]
    OBVIOUS
  <2>1. i \in 1..size /\ i - 1 \in 0..(x - 1) /\ (i - 1) + 1 = i
    BY <1>4
  <2>2. str[i - 1] = chars[i]
    BY <2>1 DEF Ended, Copies
  <2>3. read[i] = str[i - 1]
    BY <2>1
  <2> HIDE DEF part, read
  <2> QED BY <1>6, <2>1, <2>2, <2>3
<1> HIDE DEF read, part, S
<1>8. CASE \E i \in 1..x : part[i] = Printing!Nul
  <2> DEFINE I == {i \in 1..x : part[i] = Printing!Nul}
  <2>1. I \subseteq Nat /\ I # {}
    BY <1>8
  <2>2. PICK m \in I : \A j \in I : m <= j
    <3> HIDE DEF I
    <3> QED BY <2>1, LeastNatural
  <2>3. m \in 1..x /\ part[m] = Printing!Nul /\ \A i \in 1..(m - 1) : i \in 1..x /\ part[i] # Printing!Nul
    BY <1>4, <2>2
  <2>4. Printing!UpToNul(part) = SubSeq(part, 1, m - 1)
    BY <1>6, <1>7, <2>3, FirstNul
  <2>5. Printing!UpToNul(read) = SubSeq(read, 1, m - 1)
    <3>1. read[m] = Printing!Nul /\ m \in 1..Len(read) /\ \A i \in 1..(m - 1) : read[i] # Printing!Nul
      BY <1>5, <1>7, <2>3
    <3> QED BY <1>5, <3>1, FirstNul
  <2>6. m - 1 \in 0..Len(part) /\ m - 1 \in 0..Len(read)
    BY <1>4, <1>5, <1>6, <2>3
  <2>7. SubSeq(part, 1, m - 1) = [i \in 1..(m - 1) |-> part[i]]
    BY <1>6, <2>6, Front
  <2>8. SubSeq(read, 1, m - 1) = [i \in 1..(m - 1) |-> read[i]]
    BY <1>5, <2>6, Front
  <2>9. [i \in 1..(m - 1) |-> part[i]] = [i \in 1..(m - 1) |-> read[i]]
    BY <1>7, <2>3
  <2> QED BY <1>3, <2>4, <2>5, <2>7, <2>8, <2>9 DEF part
<1>9. CASE ~\E i \in 1..x : part[i] = Printing!Nul
  <2>1. Printing!UpToNul(part) = part
    BY <1>6, <1>9, NoNul
  <2>2. x + 1 \in 1..Len(read) /\ x \in 0..Len(read) /\ x \in 0..Len(part) /\ (x + 1) - 1 = x
    BY <1>4, <1>5, <1>6
  <2>3. \A i \in 1..x : read[i] # Printing!Nul
    BY <1>7, <1>9
  <2>4. Printing!UpToNul(read) = SubSeq(read, 1, x)
    <3>1. Printing!UpToNul(read) = SubSeq(read, 1, (x + 1) - 1)
      BY <1>4, <1>5, <2>2, <2>3, FirstNul
    <3> QED BY <2>2, <3>1
  <2>5. SubSeq(read, 1, x) = [i \in 1..x |-> read[i]]
    BY <1>5, <2>2, Front
  <2>6. part = [i \in 1..x |-> part[i]]
    BY <1>6
  <2>7. [i \in 1..x |-> part[i]] = [i \in 1..x |-> read[i]]
    BY <1>7
  <2> QED BY <1>3, <2>1, <2>4, <2>5, <2>6, <2>7 DEF part
<1> QED BY <1>8, <1>9

\* The text of the whole message.
All(J) == J[Len(message)]

\* What vsnprintf has put so far: the items' characters, of which the last that fits may
\* have become a NUL.
Putting(J) ==
    phase = "format" =>
      /\ fill = Len(J[next - 1])
      /\ Copies(str, IF fill < room THEN fill ELSE room - 1, J[next - 1])
      /\ fill >= room /\ room > 0 => str[room - 1] \in {Printing!Nul, J[next - 1][room]}

\* What it has put when it returns, of a message that fits and of one that does not.
Returned(J) ==
    /\ port # "loader" => room = Small \/ (port = "screen" /\ room = Large)
    /\ phase \in {"format", "full", "returned", "shown"}
    /\ phase = "full" => port # "loader" /\ Len(All(J)) >= room /\ Ended(room - 1, All(J))
    /\ phase = "returned" /\ port # "loader" =>
         fill = Len(All(J)) /\ fill < room /\ Ended(fill, All(J))
    /\ phase \in {"returned", "shown"} /\ port = "loader" => (fill < room => fill = Len(All(J)))
    /\ phase = "returned" /\ port = "loader" =>
         \E x \in {Len(All(J)), Small - 2, Small - 1} :
           Ended(x, All(J)) /\ (x < Len(All(J)) => Len(All(J)) >= Small - 1)

\* And what comes out of that.
ShownWide(J) ==
    \E k \in {Len(All(J)), Small - 2, Small - 1} :
      /\ 0 <= k /\ k <= Len(All(J)) /\ (k < Len(All(J)) => Len(All(J)) >= Small - 1)
      /\ shown = Printing!UpToNul(SubSeq(All(J), 1, k))
Shown(J) ==
    shown = IF port = "serial"
            THEN Printing!UpToNul(SubSeq(All(J), 1, IF Len(All(J)) < Small THEN Len(All(J)) ELSE Small - 1))
            ELSE IF Len(All(J)) < (IF port = "early" THEN Small ELSE Large) THEN Printing!UpToNul(All(J))
            ELSE Printing!Excuse
Came(J) == phase = "shown" => IF port = "loader" THEN ShownWide(J) ELSE Shown(J)

TInv(J) == Putting(J) /\ Returned(J) /\ Came(J)

\* Where Write writes, and where it does not.
LEMMA WriteCopies ==
  ASSUME FInv, NEW S, NEW chars \in Seq(S), fill + Len(chars) <= room, Printing!Write(chars)
  PROVE  /\ \A i \in 0..(fill - 1) : str'[i] = str[i]
         /\ \A i \in fill..(fill + Len(chars) - 1) : str'[i] = chars[i - fill + 1]
<1>1. PICK size \in Nat : DOMAIN str = 0..(size - 1) /\ room <= size
  <2>1. CASE port = "loader"
    BY <2>1, SizesAssumption DEF FInv
  <2>2. CASE port # "loader"
    BY <2>2 DEF FInv
  <2> QED BY <2>1, <2>2
<1>2. Len(chars) \in Nat /\ fill \in Nat /\ room \in Nat
  BY LenProperties DEF FInv
<1>3. \A i \in 0..(size - 1) : str'[i] = IF i \in fill..(fill + Len(chars) - 1) THEN chars[i - fill + 1] ELSE str[i]
  BY <1>1 DEF Printing!Write
<1>4. ASSUME NEW i \in 0..(fill - 1) PROVE str'[i] = str[i]
  <2>1. i \in 0..(size - 1) /\ i \notin fill..(fill + Len(chars) - 1)
    BY <1>1, <1>2
  <2> QED BY <1>3, <2>1
<1>5. ASSUME NEW i \in fill..(fill + Len(chars) - 1) PROVE str'[i] = chars[i - fill + 1]
  <2>1. i \in 0..(size - 1)
    BY <1>1, <1>2
  <2> QED BY <1>3, <2>1
<1> QED BY <1>4, <1>5

\* A text put behind another.
LEMMA PutCopies ==
  ASSUME FInv, NEW before \in Seq(Marks), NEW chars \in Seq(Marks), NEW written \in Seq(Marks),
         fill = Len(before), Copies(str, fill, before), fill + Len(written) <= room, Printing!Write(written),
         NEW m \in 0..Len(written), m <= Len(chars), \A i \in 1..m : written[i] = chars[i]
  PROVE  Copies(str', fill + m, before \o chars)
<1>1. /\ Len(before) \in Nat /\ Len(chars) \in Nat /\ Len(written) \in Nat /\ fill \in Nat /\ m \in Nat
      /\ m <= Len(written)
  BY LenProperties
<1>2. /\ \A x \in 1..Len(before) : (before \o chars)[x] = before[x]
      /\ \A x \in 1..Len(chars) : (before \o chars)[Len(before) + x] = chars[x]
  BY Joint
<1>3. /\ \A i \in 0..(fill - 1) : str'[i] = str[i]
      /\ \A i \in fill..(fill + Len(written) - 1) : str'[i] = written[i - fill + 1]
  BY WriteCopies
<1>4. ASSUME NEW i \in 0..(fill + m - 1) PROVE str'[i] = (before \o chars)[i + 1]
  <2>1. CASE i < fill
    <3>1. i \in 0..(fill - 1) /\ i + 1 \in 1..Len(before)
      BY <1>1, <2>1
    <3> QED BY <1>2, <1>3, <3>1 DEF Copies
  <2>2. CASE ~(i < fill)
    <3>1. i \in fill..(fill + Len(written) - 1) /\ i - fill + 1 \in 1..m /\ i - fill + 1 \in 1..Len(chars)
          /\ i + 1 = Len(before) + (i - fill + 1)
      BY <1>1, <2>2
    <3>2. (before \o chars)[i + 1] = chars[i - fill + 1]
      BY <1>2, <3>1
    <3> QED BY <1>3, <3>1, <3>2
  <2> QED BY <2>1, <2>2
<1> QED BY <1>4 DEF Copies

\* An item is put as far as there is room.
LEMMA PutShows ==
  ASSUME FInv, MInv, NEW J, Joined(J), Putting(J), NEW item \in Items,
         Printing!Put(item) \/ Printing!PutWide(item)
  PROVE  Putting(J)' /\ next' \in 1..(Len(message) + 1)
<1> DEFINE k == Len(message)
           before == J[next - 1]
           chars == Part(item)
           after == J[next]
           gap == room - fill
<1>1. /\ phase = "format" /\ phase' = "format" /\ message' = message /\ port' = port /\ room' = room
      /\ fill < room /\ next \in 1..k /\ next' = next + 1 /\ item = message[next] /\ k \in Nat
  <2>1. k \in Nat /\ next \in Nat /\ next \in 1..(k + 1)
    BY MessageLength DEF MInv
  <2> QED BY <2>1 DEF Printing!Put, Printing!PutWide
<1>2. next - 1 \in 0..k /\ next \in 0..k /\ next' - 1 = next /\ next' \in 1..(k + 1)
  BY <1>1
<1>3. before \in Seq(Marks) /\ after \in Seq(Marks) /\ after = before \o chars
  BY <1>1, <1>2 DEF Joined
<1>4. chars \in Seq(Marks) /\ Len(chars) \in Nat
  BY PartIsText
<1>5. fill = Len(before) /\ Copies(str, fill, before) /\ fill \in Nat /\ room \in Nat
  BY <1>1 DEF Putting, FInv
<1>6. /\ Len(after) = fill + Len(chars) /\ Len(before) \in Nat
      /\ \A x \in 1..Len(chars) : after[fill + x] = chars[x]
  BY <1>3, <1>4, <1>5, Joint
<1> HIDE DEF before, chars, after, k
<1> SUFFICES /\ fill' = fill + Len(chars)
             /\ Copies(str', IF fill' < room THEN fill' ELSE room - 1, after)
             /\ fill' >= room => str'[room - 1] \in {Printing!Nul, after[room]}
  <2> SUFFICES Putting(J)'
    BY <1>2 DEF k
  <2>1. J[next' - 1] = after
    BY <1>2 DEF after
  <2>2. (fill' = Len(J[next' - 1])) /\ fill' \in Nat
    BY <1>4, <1>5, <1>6, <2>1
  <2>3. (IF fill < room THEN fill ELSE room - 1)' = IF fill' < room THEN fill' ELSE room - 1
    BY <1>1
  <2> QED BY <1>1, <2>1, <2>2, <2>3 DEF Putting, Copies
<1>7. CASE Printing!Copied(item)
  <2>1. /\ Printing!Strlcpy(chars) /\ fill' = fill + Len(chars)
    BY <1>7, TextOfItem DEF Printing!Put, Printing!PutWide, Printing!Strlcpy16, Printing!Length, chars, Part
  <2>2. gap \in Nat /\ gap > 0 /\ fill + gap = room /\ Printing!Nul \in Marks
    BY <1>1, <1>5 DEF Marks
  <2> HIDE DEF gap
  <2>3. CASE Len(chars) < gap
    <3> DEFINE written == Append(chars, Printing!Nul)
    <3>1. written \in Seq(Marks) /\ Len(written) = Len(chars) + 1 /\ \A i \in 1..Len(chars) : written[i] = chars[i]
      BY <1>4, <2>2, AppendProperties
    <3>2. Printing!Write(written)
      BY <2>1, <2>3 DEF Printing!Strlcpy, gap
    <3> HIDE DEF written
    <3>3. fill + Len(written) <= room /\ Len(chars) \in 0..Len(written) /\ Len(chars) <= Len(chars)
      BY <1>4, <1>5, <2>2, <2>3, <3>1
    <3>4. Copies(str', fill + Len(chars), before \o chars)
      BY <1>3, <1>4, <1>5, <3>1, <3>2, <3>3, PutCopies
    <3>5. fill' < room
      BY <1>4, <1>5, <2>1, <2>2, <2>3
    <3>6. Copies(str', fill', after)
      BY <1>3, <2>1, <3>4 DEF Copies
    <3> QED BY <1>5, <2>1, <3>5, <3>6
  <2>4. CASE ~(Len(chars) < gap)
    <3> DEFINE less == SubSeq(chars, 1, gap - 1)
               written == Append(less, Printing!Nul)
    <3>0. gap - 1 \in 0..Len(chars)
      BY <1>4, <2>2, <2>4
    <3>1. less \in Seq(Marks) /\ Len(less) = gap - 1 /\ \A i \in 1..(gap - 1) : less[i] = chars[i]
      BY <1>4, <3>0, Front
    <3>2. Printing!Write(written)
      BY <2>1, <2>4 DEF Printing!Strlcpy, gap
    <3> HIDE DEF less
    <3>3. written \in Seq(Marks) /\ Len(written) = gap /\ (\A i \in 1..(gap - 1) : written[i] = chars[i])
          /\ written[gap] = Printing!Nul
      BY <2>2, <3>1, AppendProperties
    <3> HIDE DEF written
    <3>4. fill + Len(written) <= room /\ gap - 1 \in 0..Len(written) /\ gap - 1 <= Len(chars)
      BY <1>5, <2>2, <3>0, <3>3
    <3>5. Copies(str', fill + (gap - 1), before \o chars)
      BY <1>3, <1>4, <1>5, <3>2, <3>3, <3>4, PutCopies
    <3>6. fill' >= room /\ fill + (gap - 1) = room - 1 /\ ~(fill' < room)
      BY <1>4, <1>5, <2>1, <2>2, <2>4
    <3>7. str'[room - 1] = Printing!Nul
      <4>1. \A i \in fill..(fill + Len(written) - 1) : str'[i] = written[i - fill + 1]
        BY <3>2, <3>3, <3>4, WriteCopies
      <4>2. room - 1 \in fill..(fill + Len(written) - 1) /\ (room - 1) - fill + 1 = gap
        BY <1>5, <2>2, <3>3
      <4> QED BY <3>3, <4>1, <4>2
    <3>8. Copies(str', room - 1, after)
      BY <1>3, <3>5, <3>6 DEF Copies
    <3> QED BY <2>1, <3>6, <3>7, <3>8
  <2> QED BY <2>3, <2>4
<1>8. CASE ~Printing!Copied(item)
  <2>1. Printing!Write(chars) /\ fill' = fill + Len(chars) /\ Len(chars) \in {0, 1}
    BY <1>8, TextOfItem DEF Printing!Put, Printing!PutWide, Printing!Length, chars, Part
  <2>2. fill + Len(chars) <= room /\ Len(chars) \in 0..Len(chars) /\ Len(chars) <= Len(chars)
    <3>1. fill + 1 <= room /\ fill + 0 <= room /\ 0 \in 0..0 /\ 0 <= 0 /\ 1 \in 0..1 /\ 1 <= 1
      BY <1>1, <1>5
    <3> QED BY <2>1, <3>1
  <2>3. Copies(str', fill + Len(chars), before \o chars)
    BY <1>3, <1>4, <1>5, <2>1, <2>2, PutCopies
  <2>4. Copies(str', fill', after)
    BY <1>3, <2>1, <2>3 DEF Copies
  <2>5. CASE fill' < room
    BY <1>5, <2>1, <2>4, <2>5
  <2>6. CASE ~(fill' < room)
    <3>1. fill' = room /\ fill' \in Nat /\ room > 0 /\ Len(chars) = 1 /\ fill + 1 = room
      <4>1. CASE Len(chars) = 0
        BY <1>1, <1>5, <2>1, <2>6, <4>1
      <4>2. CASE Len(chars) = 1
        <5>1. fill' = fill + 1
          BY <2>1, <4>2
        <5> QED BY <1>1, <1>5, <2>6, <4>2, <5>1
      <4> QED BY <2>1, <4>1, <4>2
    <3>2. Copies(str', room - 1, after)
      BY <1>5, <2>4, <3>1 DEF Copies
    <3>3. str'[room - 1] = after[room]
      <4>1. room - 1 \in 0..(room - 1) /\ (room - 1) + 1 = room
        BY <1>5, <3>1
      <4>2. \A i \in 0..(room - 1) : str'[i] = after[i + 1]
        BY <2>4, <3>1 DEF Copies
      <4> QED BY <4>1, <4>2
    <3> QED BY <2>1, <2>6, <3>2, <3>3
  <2> QED BY <2>5, <2>6
<1> QED BY <1>7, <1>8

\* What is put of the items so far is put of the message.
LEMMA CopiesOfAll ==
  ASSUME MInv, NEW J, Joined(J), NEW i \in 0..Len(message), NEW x \in Nat, x <= Len(J[i]), Copies(str, x, J[i])
  PROVE  Copies(str, x, All(J)) /\ x <= Len(All(J)) /\ x \in 0..Len(All(J))
<1>1. /\ Len(J[i]) \in Nat /\ Len(All(J)) \in Nat /\ Len(J[i]) <= Len(All(J))
      /\ \A y \in 1..Len(J[i]) : All(J)[y] = J[i][y]
  BY JoinedGrows DEF All
<1>2. ASSUME NEW y \in 0..(x - 1) PROVE str[y] = All(J)[y + 1]
  <2>1. y + 1 \in 1..Len(J[i])
    BY <1>1
  <2> QED BY <1>1, <2>1 DEF Copies
<1> QED BY <1>1, <1>2 DEF Copies

\* A NUL behind the characters that stay ends them.
LEMMA NulEnds ==
  ASSUME FInv, NEW chars, NEW x \in DOMAIN str, x \in 0..Len(chars), Copies(str, x, chars), Printing!PutNul(x)
  PROVE  x \in DOMAIN str' /\ Copies(str', x, chars) /\ str'[x] = Printing!Nul
<1>1. DOMAIN str' = DOMAIN str
  BY PutNulStays
<1>2. str' = [str EXCEPT ![x] = Printing!Nul]
  BY DEF Printing!PutNul
<1>3. \A y \in 0..(x - 1) : str'[y] = str[y]
  <2>1. \A y \in 0..(x - 1) : y # x
    BY x \in 0..Len(chars)
  <2>2. PICK size \in Nat : DOMAIN str = 0..(size - 1)
    <3>1. CASE port = "loader"
      BY <3>1, SizesAssumption DEF FInv
    <3>2. CASE port # "loader"
      BY <3>2 DEF FInv
    <3> QED BY <3>1, <3>2
  <2>3. \A y \in 0..(x - 1) : y \in DOMAIN str
    BY <2>2
  <2> QED BY <1>2, <2>1, <2>3
<1>4. str'[x] = Printing!Nul
  BY <1>2
<1> QED BY <1>1, <1>3, <1>4 DEF Copies

\* The whole text and its length.
LEMMA AllIsText ==
  ASSUME MInv, NEW J, Joined(J)
  PROVE  All(J) \in Seq(Marks) /\ Len(All(J)) \in Nat
<1>1. Len(message) \in 0..Len(message)
  BY MessageLength
<1> QED BY <1>1, JoinedGrows DEF All

\* A message that does not fit.
LEMMA FullShows ==
  ASSUME FInv, MInv, NEW J, Joined(J), TInv(J), Printing!Full
  PROVE  TInv(J)'
<1>1. /\ phase = "format" /\ phase' = "full" /\ port # "loader" /\ fill >= room /\ Printing!PutNul(room - 1)
      /\ message' = message /\ port' = port /\ next' = next /\ room' = room /\ fill' = fill
  BY DEF Printing!Full
<1>2. /\ room \in Nat /\ fill \in Nat /\ room > 0 /\ room - 1 \in DOMAIN str
      /\ fill = Len(J[next - 1]) /\ Copies(str, room - 1, J[next - 1])
  BY <1>1 DEF FInv, TInv, Putting
<1>3. next - 1 \in 0..Len(message)
  BY MessageLength DEF MInv
<1>4. Len(All(J)) >= room /\ Len(All(J)) \in Nat
  <2>1. Len(J[next - 1]) <= Len(All(J)) /\ Len(All(J)) \in Nat
    BY <1>3, JoinedGrows DEF All
  <2> QED BY <1>1, <1>2, <2>1
<1>5. Copies(str, room - 1, All(J))
  <2>1. room - 1 \in Nat /\ room - 1 <= Len(J[next - 1])
    BY <1>1, <1>2
  <2> QED BY <1>2, <1>3, <2>1, CopiesOfAll
<1>6. room - 1 \in 0..Len(All(J))
  BY <1>2, <1>4
<1>7. Ended(room - 1, All(J))'
  <2>1. room - 1 \in DOMAIN str' /\ Copies(str', room - 1, All(J)) /\ str'[room - 1] = Printing!Nul
    BY <1>1, <1>2, <1>5, <1>6, NulEnds
  <2> QED BY <1>1, <1>6, <2>1 DEF Ended, All
<1> QED BY <1>1, <1>4, <1>7 DEF TInv, Putting, Returned, Came, All

\* A message that has been put.
LEMMA EndShows ==
  ASSUME FInv, MInv, NEW J, Joined(J), TInv(J), Printing!End
  PROVE  TInv(J)'
<1>1. /\ phase = "format" /\ phase' = "returned" /\ port # "loader" /\ fill < room /\ next > Len(message)
      /\ Printing!PutNul(fill)
      /\ message' = message /\ port' = port /\ next' = next /\ room' = room /\ fill' = fill
  BY DEF Printing!End
<1>2. next - 1 = Len(message)
  BY <1>1, MessageLength DEF MInv
<1>3. /\ room \in Nat /\ fill \in Nat /\ fill \in DOMAIN str
      /\ fill = Len(All(J)) /\ Copies(str, fill, All(J))
  BY <1>1, <1>2 DEF FInv, TInv, Putting, All
<1>4. Ended(fill, All(J))'
  <2>1. fill \in 0..Len(All(J))
    BY <1>3
  <2>2. fill \in DOMAIN str' /\ Copies(str', fill, All(J)) /\ str'[fill] = Printing!Nul
    BY <1>1, <1>3, <2>1, NulEnds
  <2> QED BY <1>1, <2>1, <2>2 DEF Ended, All
<1> QED BY <1>1, <1>3, <1>4 DEF TInv, Putting, Returned, Came, All

\* The loader's: the last character may have become a NUL although there was room.
LEMMA EndWideShows ==
  ASSUME FInv, MInv, NEW J, Joined(J), TInv(J), Printing!EndWide
  PROVE  TInv(J)'
<1> DEFINE stop == IF fill > room THEN room ELSE fill
<1>1. /\ phase = "format" /\ phase' = "returned" /\ port = "loader" /\ (fill >= room \/ next > Len(message))
      /\ Printing!PutNul(stop)
      /\ message' = message /\ port' = port /\ next' = next /\ room' = room /\ fill' = fill
  BY DEF Printing!EndWide
<1>2. /\ room \in Nat /\ fill \in Nat /\ room = Small - 1 /\ DOMAIN str = 0..(Small - 1) /\ Small \in Nat \ {0}
      /\ stop \in DOMAIN str
  BY <1>1, SizesAssumption DEF FInv
<1>3. next - 1 \in 0..Len(message) /\ next \in Nat /\ Len(message) \in Nat
  BY MessageLength DEF MInv
<1>4. /\ Len(J[next - 1]) <= Len(All(J)) /\ Len(All(J)) \in Nat
      /\ \A y \in 1..Len(J[next - 1]) : All(J)[y] = J[next - 1][y]
  BY <1>3, JoinedGrows DEF All
<1>5. /\ fill = Len(J[next - 1]) /\ Copies(str, IF fill < room THEN fill ELSE room - 1, J[next - 1])
      /\ fill >= room /\ room > 0 => str[room - 1] \in {Printing!Nul, J[next - 1][room]}
  BY <1>1 DEF TInv, Putting
<1> SUFFICES /\ fill < room => fill = Len(All(J))
             /\ \E x \in {Len(All(J)), Small - 2, Small - 1} :
                  /\ x \in DOMAIN str' /\ x \in 0..Len(All(J)) /\ Copies(str', x, All(J)) /\ str'[x] = Printing!Nul
                  /\ x < Len(All(J)) => Len(All(J)) >= Small - 1
  <2>1. \E x \in {Len(All(J)), Small - 2, Small - 1} :
           Ended(x, All(J))' /\ (x < Len(All(J)) => Len(All(J)) >= Small - 1)
    BY <1>1 DEF Ended, All
  <2>2. All(J)' = All(J)
    BY <1>1 DEF All
  <2>3. (\E x \in {Len(All(J)), Small - 2, Small - 1} :
           Ended(x, All(J)) /\ (x < Len(All(J)) => Len(All(J)) >= Small - 1))'
    BY <2>1, <2>2
  <2> QED BY <1>1, <2>2, <2>3 DEF TInv, Putting, Returned, Came
<1>6. CASE fill < room
  <2>1. next - 1 = Len(message) /\ stop = fill
    BY <1>1, <1>2, <1>3, <1>6
  <2>2. fill = Len(All(J)) /\ Copies(str, fill, All(J))
    BY <1>5, <1>6, <2>1 DEF All
  <2>3. fill \in 0..Len(All(J))
    BY <1>2, <2>2
  <2>4. fill \in DOMAIN str' /\ Copies(str', fill, All(J)) /\ str'[fill] = Printing!Nul
    BY <1>1, <1>2, <2>1, <2>2, <2>3, NulEnds
  <2>5. ~(Len(All(J)) < Len(All(J)))
    BY <1>4
  <2> QED BY <2>2, <2>3, <2>4, <2>5
<1>7. CASE ~(fill < room)
  <2>1. stop = Small - 1 /\ fill >= Small - 1 /\ Len(All(J)) >= Small - 1
    BY <1>2, <1>4, <1>5, <1>7
  <2>2. CASE room = 0
    <3>1. Small - 1 = 0 /\ 0 \in 0..Len(All(J)) /\ stop \in 0..Len(All(J)) /\ stop = 0
      BY <1>2, <1>4, <2>1, <2>2
    <3>2. Copies(str, stop, All(J))
      BY <3>1 DEF Copies
    <3>3. stop \in DOMAIN str' /\ Copies(str', stop, All(J)) /\ str'[stop] = Printing!Nul
      BY <1>1, <1>2, <3>1, <3>2, NulEnds
    <3> QED BY <1>7, <2>1, <3>1, <3>3
  <2>3. CASE room # 0
    <3>1. fill >= room /\ room - 1 = Small - 2 /\ room - 1 \in Nat /\ room - 1 <= Len(J[next - 1]) /\ room > 0
          /\ room - 1 \in DOMAIN str /\ room - 1 # stop /\ Small - 2 \in 0..Len(All(J)) /\ Small - 1 \in 0..Len(All(J))
      BY <1>2, <1>4, <1>5, <1>7, <2>1, <2>3
    <3>2. Copies(str, room - 1, All(J))
      BY <1>3, <1>5, <1>7, <3>1, CopiesOfAll
    <3>3. str[room - 1] \in {Printing!Nul, J[next - 1][room]}
      BY <1>5, <1>7, <3>1
    <3>4. str' = [str EXCEPT ![stop] = Printing!Nul]
      BY <1>1 DEF Printing!PutNul
    <3>5. CASE str[room - 1] = Printing!Nul
      <4>1. Copies(str', room - 1, All(J)) /\ str'[room - 1] = Printing!Nul /\ DOMAIN str' = DOMAIN str
        <5>1. ASSUME NEW y \in 0..(room - 1) PROVE str'[y] = str[y]
          <6>1. y # stop /\ y \in DOMAIN str
            BY <1>2, <2>1
          <6> QED BY <3>4, <6>1
        <5>2. \A y \in 0..((room - 1) - 1) : y \in 0..(room - 1)
          BY <3>1
        <5>3. room - 1 \in 0..(room - 1)
          BY <3>1
        <5> QED BY <3>2, <3>4, <3>5, <5>1, <5>2, <5>3 DEF Copies
      <4> QED BY <1>7, <2>1, <3>1, <4>1
    <3>6. CASE str[room - 1] = J[next - 1][room]
      <4>1. room \in 1..Len(J[next - 1])
        BY <1>2, <1>5, <1>7, <3>1
      <4>2. str[room - 1] = All(J)[room]
        BY <1>4, <3>6, <4>1
      <4>3. \A y \in 0..(room - 1) : str[y] = All(J)[y + 1]
        <5>1. \A y \in 0..(room - 1) : y \in 0..((room - 1) - 1) \/ (y = room - 1 /\ y + 1 = room)
          BY <1>2
        <5> QED BY <3>2, <4>2, <5>1 DEF Copies
      <4>4. Copies(str, stop, All(J)) /\ stop \in 0..Len(All(J))
        BY <1>2, <2>1, <3>1, <4>3 DEF Copies
      <4>5. stop \in DOMAIN str' /\ Copies(str', stop, All(J)) /\ str'[stop] = Printing!Nul
        BY <1>1, <1>2, <4>4, NulEnds
      <4> QED BY <1>7, <2>1, <3>1, <4>5
    <3> QED BY <3>3, <3>5, <3>6
  <2> QED BY <2>2, <2>3
<1> QED BY <1>6, <1>7

\* A second try starts anew.
LEMMA RetryShows ==
  ASSUME FInv, MInv, NEW J, Joined(J), TInv(J), Printing!Retry
  PROVE  TInv(J)' /\ next' = 1
<1>1. /\ phase' = "format" /\ port = "screen" /\ room' = Large /\ fill' = 0 /\ next' = 1
      /\ message' = message /\ port' = port
  BY DEF Printing!Retry
<1>2. J[next' - 1] = <<>> /\ Len(<<>>) = 0 /\ Large > 0 /\ Large \in Nat
  BY <1>1, SizesAssumption DEF Joined
<1>3. Copies(str', 0, <<>>)
  BY DEF Copies
<1> QED BY <1>1, <1>2, <1>3 DEF TInv, Putting, Returned, Came

\* What comes out of a message that has been put.
LEMMA ShowShows ==
  ASSUME FInv, MInv, NEW J, Joined(J), TInv(J), Printing!Show
  PROVE  TInv(J)'
<1>1. /\ phase = "returned" \/ (phase = "full" /\ port = "serial")
      /\ shown' = Printing!CString /\ phase' = "shown"
      /\ message' = message /\ port' = port /\ next' = next /\ room' = room /\ fill' = fill
  BY DEF Printing!Show
<1>2. All(J) \in Seq(Marks) /\ Len(All(J)) \in Nat /\ SubSeq(All(J), 1, Len(All(J))) = All(J)
  BY AllIsText, SubSeqFull
<1>3. Small \in Nat \ {0} /\ Large \in Nat /\ Small <= Large /\ fill \in Nat /\ room \in Nat
  BY SizesAssumption DEF FInv
<1>4. All(J)' = All(J)
  BY <1>1 DEF All
<1>5. CASE port = "loader"
  <2>1. phase = "returned"
    BY <1>1, <1>5
  <2>2. PICK x \in {Len(All(J)), Small - 2, Small - 1} :
          Ended(x, All(J)) /\ (x < Len(All(J)) => Len(All(J)) >= Small - 1)
    BY <1>5, <2>1 DEF TInv, Returned
  <2>3. shown' = Printing!UpToNul(SubSeq(All(J), 1, x)) /\ 0 <= x /\ x <= Len(All(J))
    BY <1>1, <1>2, <2>2, CStringIs DEF Ended
  <2>4. ShownWide(J)'
    BY <1>1, <1>4, <2>2, <2>3 DEF ShownWide
  <2> QED BY <1>1, <1>4, <1>5, <2>1, <2>4 DEF TInv, Putting, Returned, Came
<1>6. CASE port # "loader" /\ phase = "returned"
  <2>1. fill = Len(All(J)) /\ fill < room /\ Ended(fill, All(J))
    BY <1>6 DEF TInv, Returned
  <2>2. shown' = Printing!UpToNul(All(J))
    BY <1>1, <1>2, <2>1, CStringIs
  <2>3. room = Small \/ (port = "screen" /\ room = Large)
    BY <1>6 DEF TInv, Returned
  <2>4. Len(All(J)) < (IF port = "early" THEN Small ELSE Large) /\ (port = "serial" => Len(All(J)) < Small)
    BY <1>3, <2>1, <2>3
  <2>5. Shown(J)'
    BY <1>1, <1>2, <1>4, <2>2, <2>4 DEF Shown
  <2> QED BY <1>1, <1>4, <1>6, <2>3, <2>5 DEF TInv, Putting, Returned, Came
<1>7. CASE phase = "full" /\ port = "serial"
  <2>1. room = Small /\ Len(All(J)) >= room /\ Ended(room - 1, All(J))
    BY <1>7 DEF TInv, Returned
  <2>2. shown' = Printing!UpToNul(SubSeq(All(J), 1, Small - 1))
    BY <1>1, <1>2, <2>1, CStringIs
  <2>3. ~(Len(All(J)) < Small)
    BY <1>2, <1>3, <2>1
  <2>4. Shown(J)'
    BY <1>1, <1>4, <1>7, <2>2, <2>3 DEF Shown
  <2> QED BY <1>1, <1>4, <1>7, <2>1, <2>4 DEF TInv, Putting, Returned, Came
<1> QED BY <1>1, <1>5, <1>6, <1>7

\* And what comes out instead.
LEMMA GiveUpShows ==
  ASSUME FInv, MInv, NEW J, Joined(J), TInv(J), Printing!GiveUp
  PROVE  TInv(J)'
<1>1. /\ phase = "full" /\ (port = "early" \/ (port = "screen" /\ room = Large))
      /\ shown' = Printing!Excuse /\ phase' = "shown"
      /\ message' = message /\ port' = port /\ next' = next /\ room' = room /\ fill' = fill
  BY DEF Printing!GiveUp
<1>2. (room = Small \/ (port = "screen" /\ room = Large)) /\ Len(All(J)) >= room
  BY <1>1 DEF TInv, Returned
<1>3. Len(All(J)) \in Nat /\ Small \in Nat /\ Large \in Nat
  BY AllIsText, SizesAssumption
<1>4. ~(Len(All(J)) < (IF port = "early" THEN Small ELSE Large))
  BY <1>1, <1>2, <1>3
<1>5. All(J)' = All(J) /\ Printing!Excuse' = Printing!Excuse
  BY <1>1 DEF All, Printing!Excuse
<1>6. Shown(J)'
  BY <1>1, <1>4, <1>5 DEF Shown
<1> QED BY <1>1, <1>2, <1>6 DEF TInv, Putting, Returned, Came
-----------------------------------------------------------------------------
(* What numbers' digits add up to.                                          *)

\* What the table's characters stand for.
Figures   == {Printing!Table[v + 1] : v \in 0..15}
Figure(c) == CHOOSE v \in 0..15 : Printing!Table[v + 1] = c

\* f is what Reads makes of the first digits.
Sums(f, digits, radix) ==
    f = [k \in 0..Len(digits) |-> IF k = 0 THEN 0 ELSE f[k - 1] * radix + Figure(digits[k])]

\* No two of them are alike, and none is a NUL or a sign.
LEMMA FiguresDiffer ==
  /\ \A v \in 0..15 : Printing!Table[v + 1] \in Figures /\ Figure(Printing!Table[v + 1]) = v
  /\ \A v \in 1..15 : Printing!Table[v + 1] # "0"
  /\ \A c \in Figures : c # Printing!Nul /\ c # "-" /\ Figure(c) \in 0..15
<1>1. \A v, w \in 0..15 : Printing!Table[v + 1] = Printing!Table[w + 1] => v = w
  BY DEF Printing!Table
<1>2. \A v \in 0..15 : Printing!Table[v + 1] # Printing!Nul /\ Printing!Table[v + 1] # "-"
  BY DEF Printing!Table, Printing!Nul
<1>3. \A v \in 1..15 : Printing!Table[v + 1] # "0"
  BY DEF Printing!Table
<1>4. ASSUME NEW v \in 0..15 PROVE Figure(Printing!Table[v + 1]) = v
  BY <1>1 DEF Figure
<1>5. ASSUME NEW c \in Figures PROVE c # Printing!Nul /\ c # "-" /\ Figure(c) \in 0..15
  <2>1. PICK v \in 0..15 : c = Printing!Table[v + 1]
    BY DEF Figures
  <2>2. Figure(c) = v
    BY <1>4, <2>1
  <2> QED BY <1>2, <2>1, <2>2
<1>6. \A v \in 0..15 : Printing!Table[v + 1] \in Figures
  BY DEF Figures
<1> QED BY <1>3, <1>4, <1>5, <1>6

\* The digits of a number are a turn of the loop.
LEMMA DigitsTurn ==
  ASSUME NEW radix \in Nat, radix >= 2, NEW u \in 0..(2 ^ LongLongBits - 1)
  PROVE  Printing!Digits(radix)[u] = Turn(Printing!Digits(radix), radix, u)
<1> DEFINE m == 2 ^ LongLongBits
           d == Printing!Digits(radix)
<1>1. m \in Nat
  BY SizesAssumption
<1>2. d = CHOOSE f : DigitsBelow(f, radix, m)
  BY DEF Printing!Digits, DigitsBelow, Turn
<1>3. u \in 0..(m - 1)
  OBVIOUS
<1> HIDE DEF m, d
<1>4. DigitsBelow(d, radix, m)
  BY <1>1, <1>2, DigitsExist
<1>5. d[u] = Turn(d, radix, u)
  BY <1>3, <1>4 DEF DigitsBelow
<1> QED BY <1>5 DEF d

\* Digits can be summed up.
LEMMA SumsExist ==
  ASSUME NEW digits \in Seq(Figures), NEW radix \in Nat
  PROVE  \E f : Sums(f, digits, radix)
<1> DEFINE k == Len(digits)
           step == [p \in Nat \X (1..k) |-> p[1] * radix + Figure(digits[p[2]])]
<1>1. k \in Nat /\ \A i \in 1..k : digits[i] \in Figures
  BY LenProperties, ElementOfSeq
<1>2. \A i \in 1..k : Figure(digits[i]) \in Nat
  BY <1>1, FiguresDiffer
<1>3. \A p \in Nat \X (1..k) : p[1] * radix + Figure(digits[p[2]]) \in Nat
  <2> SUFFICES ASSUME NEW p \in Nat \X (1..k) PROVE p[1] * radix + Figure(digits[p[2]]) \in Nat
    OBVIOUS
  <2>1. p[1] \in Nat /\ Figure(digits[p[2]]) \in Nat
    BY <1>2
  <2>2. \A a, b, c \in Nat : a * b + c \in Nat
    OBVIOUS
  <2> QED BY <2>1, <2>2
<1>4. step \in [Nat \X (1..k) -> Nat]
  BY <1>3
<1> HIDE DEF k, step
<1>5. PICK f : Loops(f, Nat, 0, k, step)
  BY <1>1, <1>4, Loop
<1>6. f \in [0..k -> Nat] /\ f[0] = 0 /\ \A i \in 1..k : f[i] = step[<<f[i - 1], i>>]
  BY <1>5 DEF Loops
<1>7. ASSUME NEW i \in 1..k PROVE f[i] = f[i - 1] * radix + Figure(digits[i])
  <2>1. i - 1 \in 0..k
    BY <1>1
  <2>2. <<f[i - 1], i>> \in Nat \X (1..k)
    BY <1>6, <2>1
  <2>3. step[<<f[i - 1], i>>] = f[i - 1] * radix + Figure(digits[i])
    BY <2>2 DEF step
  <2> QED BY <1>6, <2>3
<1>8. \A i \in 0..k : f[i] = IF i = 0 THEN 0 ELSE f[i - 1] * radix + Figure(digits[i])
  <2>1. \A i \in 0..k : i = 0 \/ i \in 1..k
    BY <1>1
  <2> QED BY <1>6, <1>7, <2>1
<1>9. Sums(f, digits, radix)
  BY <1>6, <1>8 DEF Sums, k
<1> QED BY <1>9

\* One digit more.
LEMMA SumOfAppend ==
  ASSUME NEW digits \in Seq(Figures), NEW c \in Figures, NEW radix \in Nat, NEW sum \in Nat,
         \A g : Sums(g, digits, radix) => g[Len(digits)] = sum,
         NEW f, Sums(f, Append(digits, c), radix)
  PROVE  f[Len(Append(digits, c))] = sum * radix + Figure(c)
<1> DEFINE k == Len(digits)
           more == Append(digits, c)
<1>1. k \in Nat /\ more \in Seq(Figures) /\ Len(more) = k + 1 /\ more[k + 1] = c
      /\ \A i \in 1..k : more[i] = digits[i]
  BY AppendProperties, LenProperties
<1>2. f = [i \in 0..(k + 1) |-> IF i = 0 THEN 0 ELSE f[i - 1] * radix + Figure(more[i])]
  BY <1>1 DEF Sums
<1> HIDE DEF k, more
<1>3. \A i \in 0..(k + 1) : f[i] = IF i = 0 THEN 0 ELSE f[i - 1] * radix + Figure(more[i])
  BY <1>2
<1> DEFINE g == [i \in 0..k |-> f[i]]
<1>4. ASSUME NEW i \in 0..k PROVE g[i] = IF i = 0 THEN 0 ELSE g[i - 1] * radix + Figure(digits[i])
  <2>1. i \in 0..(k + 1) /\ g[i] = f[i]
    BY <1>1
  <2>2. CASE i = 0
    BY <1>3, <2>1, <2>2
  <2>3. CASE i # 0
    <3>1. i - 1 \in 0..k /\ i \in 1..k
      BY <1>1, <2>3
    <3>2. g[i - 1] = f[i - 1] /\ more[i] = digits[i]
      BY <1>1, <3>1
    <3> HIDE DEF g
    <3> QED BY <1>3, <2>1, <2>3, <3>2
  <2> QED BY <2>2, <2>3
<1>5. g = [i \in 0..k |-> g[i]] /\ k \in 0..k /\ k + 1 \in 0..(k + 1) /\ k + 1 # 0 /\ (k + 1) - 1 = k
  BY <1>1
<1>6. g[k] = f[k]
  BY <1>5
<1> HIDE DEF g
<1>7. Sums(g, digits, radix)
  BY <1>4, <1>5 DEF Sums, k
<1>8. g[k] = sum
  BY <1>7 DEF k
<1>9. f[k + 1] = f[k] * radix + Figure(more[k + 1])
  BY <1>3, <1>5
<1>10. f[k + 1] = sum * radix + Figure(c)
  BY <1>1, <1>6, <1>8, <1>9
<1> QED BY <1>1, <1>10 DEF more

\* A sequence and the first of one more.
LEMMA FirstOfAppend ==
  ASSUME NEW S, NEW chars \in Seq(S), NEW c \in S
  PROVE  /\ Append(chars, c) \in Seq(S) /\ Len(Append(chars, c)) = Len(chars) + 1 /\ Len(chars) \in Nat
         /\ Len(chars) > 0 => Append(chars, c)[1] = chars[1]
BY AppendProperties, LenProperties

\* They add up to the number, without a zero in front.
LEMMA DigitsRead ==
  ASSUME NEW radix \in {10, 16}, NEW u \in 0..(2 ^ LongLongBits - 1)
  PROVE  LET digits == Printing!Digits(radix)[u]
         IN  /\ digits \in Seq(Figures) /\ Len(digits) > 0
             /\ digits[1] # "0" \/ Len(digits) = 1
             /\ \A f : Sums(f, digits, radix) => f[Len(digits)] = u
<1> DEFINE m == 2 ^ LongLongBits
           d == Printing!Digits(radix)
           Good(v) == /\ d[v] \in Seq(Figures) /\ Len(d[v]) > 0
                      /\ v > 0 => d[v][1] # "0"
                      /\ v = 0 => Len(d[v]) = 1
                      /\ \A f : Sums(f, d[v], radix) => f[Len(d[v])] = v
           T == {v \in Nat : v \in 0..(m - 1) => Good(v)}
<1>1. m \in Nat /\ radix \in Nat /\ radix >= 2 /\ radix <= 16 /\ radix \in Nat \ {0}
  BY SizesAssumption
<1>2. \A v \in 0..(m - 1) : d[v] = Turn(d, radix, v)
  BY <1>1, DigitsTurn
<1>3. u \in 0..(m - 1)
  OBVIOUS
<1> HIDE DEF m, d
<1>4. ASSUME NEW v \in Nat, \A w \in 0..(v - 1) : w \in T, v \in 0..(m - 1) PROVE Good(v)
  <2>1. CASE v < radix
    <3>1. d[v] = <<Printing!Table[v + 1]>> /\ v \in 0..15
      <4>1. d[v] = Turn(d, radix, v)
        BY <1>2, <1>4
      <4>2. v \in 0..15
        BY <1>1, <2>1
      <4> HIDE DEF Good, T
      <4> QED BY <2>1, <4>1, <4>2 DEF Turn
    <3>2. Printing!Table[v + 1] \in Figures /\ Figure(Printing!Table[v + 1]) = v /\ (v > 0 => Printing!Table[v + 1] # "0")
      <4>1. v > 0 => v \in 1..15
        BY <3>1
      <4> QED BY <3>1, <4>1, FiguresDiffer
    <3> DEFINE c == Printing!Table[v + 1]
    <3> HIDE DEF c
    <3>3. d[v] = <<c>> /\ c \in Figures /\ Figure(c) = v /\ (v > 0 => c # "0")
      BY <3>1, <3>2 DEF c
    <3>4. <<c>> \in Seq(Figures) /\ Len(<<c>>) = 1 /\ <<c>>[1] = c
      BY <3>3, OneCharacter
    <3>5. ASSUME NEW f, Sums(f, <<c>>, radix) PROVE f[1] = v
      <4>1. f = [k \in 0..1 |-> IF k = 0 THEN 0 ELSE f[k - 1] * radix + Figure(<<c>>[k])]
        BY <3>4, <3>5 DEF Sums
      <4>2. f[0] = 0
        BY <4>1
      <4>3. f[1] = f[1 - 1] * radix + Figure(<<c>>[1])
        BY <4>1
      <4>4. f[1] = 0 * radix + v
        BY <3>3, <3>4, <4>2, <4>3
      <4> QED BY <1>1, <4>4
    <3> QED BY <3>3, <3>4, <3>5
  <2>2. CASE ~(v < radix)
    <3> DEFINE q == v \div radix
               r == v % radix
    <3>1. q \in 0..(v - 1)
      BY <1>1, <2>2, QuotientBelow
    <3>2. r \in 0..(radix - 1) /\ v = radix * q + r
      BY <1>1, Division
    <3>3. d[v] = Append(d[q], Printing!Table[r + 1])
      BY <1>2, <1>4, <2>2 DEF Turn
    <3> DEFINE c == Printing!Table[r + 1]
    <3> HIDE DEF q, r
    <3>4. r \in 0..15
      BY <1>1, <3>2
    <3>5. c \in Figures /\ Figure(c) = r
      BY <3>4, FiguresDiffer
    <3>6. q \in 0..(m - 1) /\ q \in Nat /\ q > 0
      <4>1. q \in 0..(m - 1) /\ q \in Nat
        BY <1>1, <1>4, <3>1
      <4>2. q # 0
        <5> SUFFICES ASSUME q = 0 PROVE FALSE
          OBVIOUS
        <5>1. radix * q = 0
          BY <1>1
        <5> QED BY <1>1, <2>2, <3>2, <5>1
      <4> QED BY <4>1, <4>2
    <3>7. Good(q)
      BY <1>4, <3>1, <3>6
    <3> HIDE DEF c
    <3>8. /\ d[v] = Append(d[q], c) /\ d[q] \in Seq(Figures) /\ Len(d[q]) > 0 /\ d[q][1] # "0"
          /\ \A f : Sums(f, d[q], radix) => f[Len(d[q])] = q
      BY <3>3, <3>6, <3>7 DEF c
    <3>9. /\ d[v] \in Seq(Figures) /\ Len(d[v]) = Len(d[q]) + 1 /\ Len(d[q]) \in Nat /\ d[v][1] = d[q][1]
      BY <3>5, <3>8, FirstOfAppend
    <3>10. ASSUME NEW f, Sums(f, d[v], radix) PROVE f[Len(d[v])] = v
      <4>0. Sums(f, Append(d[q], c), radix)
        BY <3>8, <3>10
      <4>1. f[Len(d[v])] = q * radix + Figure(c)
        <5> DEFINE digits == d[q]
        <5>1. /\ digits \in Seq(Figures) /\ c \in Figures /\ radix \in Nat /\ q \in Nat
              /\ \A g : Sums(g, digits, radix) => g[Len(digits)] = q
              /\ Sums(f, Append(digits, c), radix)
          BY <1>1, <3>5, <3>6, <3>8, <4>0
        <5> HIDE DEF digits
        <5>2. f[Len(Append(digits, c))] = q * radix + Figure(c)
          BY <5>1, SumOfAppend
        <5> QED BY <3>8, <5>2 DEF digits
      <4>2. q * radix = radix * q
        BY <1>1, <3>6
      <4> QED BY <3>2, <3>5, <4>1, <4>2
    <3>11. Len(d[v]) > 0 /\ v # 0
      BY <1>1, <2>2, <3>8, <3>9
    <3> QED BY <3>8, <3>9, <3>10, <3>11
  <2> QED BY <2>1, <2>2
<1>5. ASSUME NEW v \in Nat, \A w \in 0..(v - 1) : w \in T PROVE v \in T
  <2> HIDE DEF Good
  <2> QED BY <1>4, <1>5
<1> HIDE DEF T
<1>6. \A v \in Nat : v \in T
  BY <1>5, FromSmaller
<1>7. u \in Nat /\ Good(u)
  BY <1>1, <1>3, <1>6 DEF T
<1>8. u = 0 \/ u > 0
  BY <1>7
<1> QED BY <1>7, <1>8 DEF d

\* An integer's text, and that of its magnitude.
LEMMA NumberText ==
  ASSUME NEW item \in Items, Printing!IsNumber(item)
  PROVE  LET digits == Printing!Digits(Printing!Radix(item.conv))[Printing!Magnitude(item.conv, item.arg)]
             sign   == IF Printing!Negative(item.conv, item.arg) THEN <<"-">> ELSE <<>>
         IN  /\ Part(item) = sign \o digits
             /\ digits \in Seq(Figures) /\ Len(digits) > 0
             /\ digits[1] # "0" \/ Len(digits) = 1
             /\ \A f : Sums(f, digits, Printing!Radix(item.conv)) =>
                         f[Len(digits)] = Printing!Magnitude(item.conv, item.arg)
             /\ \E f : Sums(f, digits, Printing!Radix(item.conv))
<1> DEFINE radix == Printing!Radix(item.conv)
           u == Printing!Magnitude(item.conv, item.arg)
           digits == Printing!Digits(radix)[u]
<1>1. radix \in {10, 16} /\ radix \in Nat
  BY DEF Printing!Radix
<1>2. u \in 0..(2 ^ LongLongBits - 1)
  BY ItemsAssumption
<1>3. Part(item) = Printing!Itoa(item.conv, item.arg)
  <2>1. item.conv # "s" /\ item.conv # "unknown"
    BY DEF Printing!IsNumber, Printing!Conversions
  <2> QED BY <2>1 DEF Part, Printing!Chars, Printing!CharsWide, Printing!Itow
<1> HIDE DEF radix, u
<1>4. /\ digits \in Seq(Figures) /\ Len(digits) > 0
      /\ digits[1] # "0" \/ Len(digits) = 1
      /\ \A f : Sums(f, digits, radix) => f[Len(digits)] = u
  BY <1>1, <1>2, DigitsRead
<1>5. \E f : Sums(f, digits, radix)
  BY <1>1, <1>4, SumsExist
<1>6. Printing!Itoa(item.conv, item.arg)
        = (IF Printing!Negative(item.conv, item.arg) THEN <<"-">> ELSE <<>>) \o digits
  BY DEF Printing!Itoa, radix, u
<1> QED BY <1>3, <1>4, <1>5, <1>6 DEF radix, u

\* And that is what Reads asks for.
LEMMA NumberReads ==
  ASSUME NEW item \in Items, Printing!IsNumber(item)
  PROVE  /\ Printing!Reads(Part(item), item.conv, item.arg)
         /\ Printing!UpToNul(Part(item)) = Part(item)
<1> DEFINE negative == Printing!Negative(item.conv, item.arg)
           radix == Printing!Radix(item.conv)
           u == Printing!Magnitude(item.conv, item.arg)
           digits == Printing!Digits(radix)[u]
           S == Figures \cup {"-"}
           figures == IF negative THEN Tail(Part(item)) ELSE Part(item)
           sum == CHOOSE f : Sums(f, figures, radix)
<1>1. /\ Part(item) = (IF negative THEN <<"-">> ELSE <<>>) \o digits
      /\ digits \in Seq(Figures) /\ Len(digits) > 0
      /\ digits[1] # "0" \/ Len(digits) = 1
      /\ \A f : Sums(f, digits, radix) => f[Len(digits)] = u
      /\ \E f : Sums(f, digits, radix)
  BY NumberText
<1>2. Printing!Reads(Part(item), item.conv, item.arg)
        = /\ figures # <<>> /\ (figures[1] # "0" \/ Len(figures) = 1)
          /\ IF negative THEN Head(Part(item)) = "-" /\ sum[Len(figures)] = 2 ^ Printing!Bits(item.conv) - item.arg
                         ELSE sum[Len(figures)] = item.arg
  BY Zenon DEF Printing!Reads, Sums, Figure
<1>3. u = IF negative THEN 2 ^ Printing!Bits(item.conv) - item.arg ELSE item.arg
  BY DEF Printing!Magnitude
<1> HIDE DEF digits, radix, u, negative
<1>4. digits \in Seq(S) /\ <<"-">> \in Seq(S) /\ <<>> \in Seq(S) /\ Len(<<"-">>) = 1 /\ <<"-">>[1] = "-" /\ digits # <<>>
  <2>1. "-" \in S
    OBVIOUS
  <2>2. digits \in Seq(S)
    BY <1>1
  <2>3. <<"-">> \in Seq(S)
    BY <2>1, OneCharacter
  <2>4. Len(<<>>) = 0
    OBVIOUS
  <2> QED BY <1>1, <2>2, <2>3, <2>4
<1>5. figures = digits
  <2>1. CASE negative
    <3>1. Part(item) = <<"-">> \o digits
      BY <1>1, <2>1
    <3>2. Tail(<<"-">> \o digits) = digits
      <4> DEFINE a == <<"-">>
      <4>1. /\ a \o digits \in Seq(S) /\ Len(a \o digits) = Len(a) + Len(digits) /\ Len(digits) \in Nat
            /\ \A x \in 1..Len(digits) : (a \o digits)[Len(a) + x] = digits[x]
        BY <1>4, Joint
      <4>2. Len(a) = 1
        BY <1>4
      <4> DEFINE all == a \o digits
      <4> HIDE DEF a
      <4>3. Len(all) = 1 + Len(digits) /\ all # <<>> /\ all \in Seq(S)
        <5>1. Len(<<>>) = 0
          OBVIOUS
        <5>2. Len(all) = 1 + Len(digits) /\ all \in Seq(S)
          BY <4>1, <4>2
        <5> QED BY <4>1, <5>1, <5>2
      <4>4. /\ Tail(all) \in Seq(S) /\ Len(Tail(all)) = Len(digits)
            /\ \A i \in 1..Len(Tail(all)) : Tail(all)[i] = all[i + 1]
        <5> HIDE DEF all
        <5>1. Len(Tail(all)) = Len(all) - 1
          BY <4>3, HeadTailProperties
        <5>2. Len(Tail(all)) = Len(digits)
          BY <4>1, <4>3, <5>1
        <5> QED BY <4>3, <5>2, HeadTailProperties
      <4>5. ASSUME NEW i \in 1..Len(digits) PROVE Tail(all)[i] = digits[i]
        <5>1. i + 1 = Len(a) + i
          BY <4>2
        <5> QED BY <4>1, <4>4, <5>1
      <4> HIDE DEF all
      <4>6. Tail(all) = digits
        BY <1>4, <4>4, <4>5, SeqEqual
      <4> QED BY <4>6 DEF all, a
    <3> QED BY <2>1, <3>1, <3>2
  <2>2. CASE ~negative
    BY <1>1, <1>4, <2>2, ConcatEmptySeq
  <2> QED BY <2>1, <2>2
<1>6. negative => Head(Part(item)) = "-"
  <2> SUFFICES ASSUME negative PROVE Head(Part(item)) = "-"
    OBVIOUS
  <2>1. Part(item) = <<"-">> \o digits
    BY <1>1
  <2> DEFINE a == <<"-">>
  <2>2. \A x \in 1..Len(a) : (a \o digits)[x] = a[x]
    BY <1>4, Joint
  <2>3. Len(a) = 1 /\ a[1] = "-"
    BY <1>4
  <2> HIDE DEF a
  <2>4. (a \o digits)[1] = "-"
    BY <2>2, <2>3
  <2>5. Part(item)[1] = "-"
    BY <2>1, <2>4 DEF a
  <2> QED BY <2>5
<1>7. Sums(sum, figures, radix)
  <2> HIDE DEF figures
  <2> QED BY <1>1, <1>5
<1>8. sum[Len(figures)] = u /\ figures # <<>> /\ (figures[1] # "0" \/ Len(figures) = 1)
  <2> HIDE DEF figures, sum
  <2> QED BY <1>1, <1>4, <1>5, <1>7
<1>9. Printing!Reads(Part(item), item.conv, item.arg)
  <2> HIDE DEF figures, sum
  <2> QED BY <1>2, <1>3, <1>6, <1>8
<1>10. Printing!UpToNul(Part(item)) = Part(item)
  <2>1. Part(item) \in Seq(S)
    <3> DEFINE sign == IF negative THEN <<"-">> ELSE <<>>
    <3>1. sign \in Seq(S) /\ digits \in Seq(S) /\ Part(item) = sign \o digits
      BY <1>1, <1>4
    <3> HIDE DEF sign, S
    <3> QED BY <3>1, ConcatProperties
  <2>2. \A c \in S : c # Printing!Nul
    BY FiguresDiffer DEF Printing!Nul
  <2>3. \A i \in 1..Len(Part(item)) : Part(item)[i] # Printing!Nul
    BY <2>1, <2>2, ElementOfSeq
  <2> QED BY <2>1, <2>3, NoNul
<1> QED BY <1>9, <1>10

\* Numbers read back when what comes out is the message.
LEMMA NumbersRead ==
  ASSUME FInv, MInv, NEW J, Joined(J), TInv(J)
  PROVE  Printing!NumbersReadBack
<1> SUFFICES ASSUME phase = "shown", Printing!Excuse # shown, Printing!ReadsWhole, Len(message) = 1,
                    Printing!IsNumber(message[1])
             PROVE  Printing!Reads(shown, message[1].conv, message[1].arg)
  BY DEF Printing!NumbersReadBack
<1> DEFINE item == message[1]
<1>1. item \in Items /\ Len(message) = 1
  BY MessageLength
<1>2. All(J) = Part(item) /\ All(J) \in Seq(Marks) /\ Len(All(J)) \in Nat
  <2>1. 1 \in 1..Len(message) /\ 1 - 1 = 0
    BY <1>1
  <2>2. J[1] = J[1 - 1] \o Part(message[1]) /\ J[0] = <<>>
    BY <2>1 DEF Joined
  <2>3. J[1] = <<>> \o Part(item)
    BY <2>1, <2>2
  <2>4. Part(item) \in Seq(Marks)
    BY <1>1, PartIsText
  <2>5. J[1] = Part(item)
    BY <2>3, <2>4, ConcatEmptySeq
  <2> QED BY <1>1, <2>5, AllIsText DEF All
<1> HIDE DEF item
<1>3. Printing!Reads(Part(item), item.conv, item.arg) /\ Printing!UpToNul(Part(item)) = Part(item)
  BY <1>1, NumberReads DEF item
<1>4. SUFFICES shown = Part(item)
  BY <1>3 DEF item
<1>5. Small \in Nat \ {0} /\ fill \in Nat /\ room \in Nat
  BY SizesAssumption DEF FInv
<1>6. CASE port = "screen"
  <2>1. Shown(J)
    BY <1>6 DEF TInv, Came
  <2> QED BY <1>2, <1>3, <1>6, <2>1 DEF Shown
<1>7. CASE port = "loader" /\ fill < Small - 1
  <2>1. ShownWide(J) /\ room = Small - 1 /\ (fill < room => fill = Len(All(J)))
    BY <1>7 DEF TInv, Came, Returned, FInv
  <2>2. PICK k \in {Len(All(J)), Small - 2, Small - 1} :
          /\ 0 <= k /\ k <= Len(All(J)) /\ (k < Len(All(J)) => Len(All(J)) >= Small - 1)
          /\ shown = Printing!UpToNul(SubSeq(All(J), 1, k))
    BY <2>1 DEF ShownWide
  <2>3. Len(All(J)) < Small - 1
    BY <1>7, <2>1
  <2>4. k = Len(All(J))
    <3>1. k \in Int
      BY <1>2, <1>5, <2>2
    <3> QED BY <1>2, <1>5, <2>2, <2>3, <3>1
  <2>5. SubSeq(All(J), 1, k) = All(J)
    BY <1>2, <2>4, SubSeqFull
  <2> QED BY <1>2, <1>3, <2>2, <2>5
<1> QED BY <1>6, <1>7 DEF Printing!ReadsWhole

SInv == FInv /\ MInv /\ \A J : Joined(J) => TInv(J)

\* Each part of vsnprintf, vwsnprintf and their callers keeps str the message's.
LEMMA FormatShows == SInv /\ Printing!Next => SInv'
<1> SUFFICES ASSUME SInv, Printing!Next PROVE SInv'
  OBVIOUS
<1>1. message' = message /\ port' = port
  BY DEF Printing!Next, Printing!Put, Printing!PutWide, Printing!Full, Printing!End, Printing!EndWide,
         Printing!Retry, Printing!Show, Printing!GiveUp
<1>2. FInv'
  BY FormatStays DEF SInv
<1>3. PICK before : Joined(before)
  BY JoinedExists DEF SInv
<1>4. ASSUME NEW J, Joined(J)
      PROVE  TInv(J)' /\ next' \in 1..(Len(message) + 1)
  <2>1. FInv /\ MInv /\ TInv(J) /\ next \in 1..(Len(message) + 1) /\ Len(message) \in Nat
    BY <1>4, MessageLength DEF SInv, MInv
  <2>2. ASSUME NEW item \in Items, Printing!Put(item) \/ Printing!PutWide(item)
        PROVE  TInv(J)' /\ next' \in 1..(Len(message) + 1)
    <3>1. phase = "format" /\ phase' = "format" /\ message' = message /\ port' = port /\ room' = room
      BY <2>2 DEF Printing!Put, Printing!PutWide
    <3>2. Putting(J)' /\ next' \in 1..(Len(message) + 1)
      BY <1>4, <2>1, <2>2, PutShows DEF TInv
    <3>3. Returned(J)' /\ Came(J)'
      BY <2>1, <3>1 DEF TInv, Returned, Came
    <3> QED BY <3>2, <3>3 DEF TInv
  <2>3. CASE Printing!Full
    BY <1>4, <2>1, <2>3, FullShows DEF Printing!Full
  <2>4. CASE Printing!End
    BY <1>4, <2>1, <2>4, EndShows DEF Printing!End
  <2>5. CASE Printing!EndWide
    BY <1>4, <2>1, <2>5, EndWideShows DEF Printing!EndWide
  <2>6. CASE Printing!Retry
    BY <1>4, <2>1, <2>6, RetryShows
  <2>7. CASE Printing!Show
    BY <1>4, <2>1, <2>7, ShowShows DEF Printing!Show
  <2>8. CASE Printing!GiveUp
    BY <1>4, <2>1, <2>8, GiveUpShows DEF Printing!GiveUp
  <2> QED BY <2>2, <2>3, <2>4, <2>5, <2>6, <2>7, <2>8 DEF Printing!Next
<1>5. MInv'
  BY <1>1, <1>3, <1>4 DEF SInv, MInv
<1>6. ASSUME NEW J, Joined(J)' PROVE TInv(J)'
  <2>1. Joined(J)
    BY <1>1, <1>6 DEF Joined, Part
  <2> QED BY <1>4, <2>1
<1> QED BY <1>2, <1>5, <1>6 DEF SInv

\* Nothing has been put at first.
LEMMA InitMessage == InitTextOutput => SInv
<1> SUFFICES ASSUME InitTextOutput PROVE SInv
  OBVIOUS
<1>1. FInv
  BY SizesAssumption DEF InitTextOutput, Printing!Init, FInv
<1>2. /\ message \in UNION {[1..k -> Items] : k \in 0..MaxItems}
      /\ next = 1 /\ phase = "format" /\ fill = 0
      /\ room = (IF port = "loader" THEN Small - 1 ELSE Small)
  BY DEF InitTextOutput, Printing!Init
<1>3. PICK k \in 0..MaxItems : message \in [1..k -> Items]
  BY <1>2
<1>4. k \in Nat /\ Len(message) = k
  <2>1. k \in Nat
    OBVIOUS
  <2>2. message \in Seq(Items)
    BY <1>3, <2>1
  <2> QED BY <1>3, <2>1, <2>2, LenProperties
<1>5. MInv
  BY <1>2, <1>3, <1>4 DEF MInv
<1>6. ASSUME NEW J, Joined(J) PROVE TInv(J)
  <2>1. J[next - 1] = <<>> /\ Len(<<>>) = 0
    BY <1>2, <1>6 DEF Joined
  <2>2. Small \in Nat \ {0} /\ room \in Nat
    BY <1>1, SizesAssumption DEF FInv
  <2>3. Copies(str, 0, <<>>)
    BY DEF Copies
  <2>4. Putting(J)
    <3>1. CASE fill < room
      BY <1>2, <2>1, <2>2, <2>3, <3>1 DEF Putting
    <3>2. CASE ~(fill < room)
      <4>1. room = 0 /\ room - 1 = -1
        BY <1>2, <2>2, <3>2
      <4>2. Copies(str, room - 1, <<>>)
        BY <4>1 DEF Copies
      <4> QED BY <1>2, <2>1, <3>2, <4>1, <4>2 DEF Putting
    <3> QED BY <3>1, <3>2
  <2> QED BY <1>2, <2>4 DEF TInv, Returned, Came
<1> QED BY <1>1, <1>5, <1>6 DEF SInv

\* What comes out is the message: up to its first NUL if one of the buffers has room for it,
\* Print's excuse and never a part of it when none has, and cut off on the serial port and by
\* the loader, whatever the sizes of the buffers, the items and the width of the numbers; and
\* an integer reads as itself in every conversion, the least of its type included: vsnprintf
\* with i64toa and strlcpy, Print's second try, and vwsnprintf, whose buffer holds one more
\* than it is told.
THEOREM MessageComesOut == SpecTextOutput => []ShowsMessage
<1>1. SInv /\ [NextTextOutput]_<<vars, printing, left>> => SInv'
  <2> SUFFICES ASSUME SInv, [NextTextOutput]_<<vars, printing, left>> PROVE SInv'
    OBVIOUS
  <2>1. CASE Format
    BY <2>1, FormatShows DEF Format
  <2>2. CASE UNCHANGED printing
    <3>1. FInv' /\ MInv'
      BY <2>2 DEF SInv, printing, FInv, MInv
    <3>2. ASSUME NEW J, Joined(J)' PROVE TInv(J)'
      <4>1. Joined(J)
        BY <2>2, <3>2 DEF Joined, Part, printing
      <4>2. TInv(J)
        BY <4>1 DEF SInv
      <4> QED BY <2>2, <4>2
            DEF printing, TInv, Putting, Returned, Came, Ended, All, Shown, ShownWide, Printing!Excuse
    <3> QED BY <3>1, <3>2 DEF SInv
  <2> QED BY <2>1, <2>2 DEF NextTextOutput, Draw, Continue
<1>2. SInv => ShowsMessage
  <2> SUFFICES ASSUME SInv PROVE Printing!ShowsMessage
    BY DEF ShowsMessage
  <2>1. PICK J : Joined(J)
    BY JoinedExists DEF SInv
  <2>2. FInv /\ MInv /\ TInv(J)
    BY <2>1 DEF SInv
  <2>3. Printing!Whole = All(J)
    BY <2>1, <2>2, WholeIsJoined DEF All
  <2>4. Printing!NumbersReadBack
    BY <2>1, <2>2, NumbersRead
  <2>5. phase = "shown" /\ port = "loader" =>
         \E k \in {Len(Printing!Whole)} \cup {Small - 2, Small - 1} :
           /\ k <= Len(Printing!Whole) /\ (k < Len(Printing!Whole) => Len(Printing!Whole) >= Small - 1)
           /\ shown = Printing!UpToNul(SubSeq(Printing!Whole, 1, k))
    <3> SUFFICES ASSUME phase = "shown", port = "loader"
                 PROVE  \E k \in {Len(All(J))} \cup {Small - 2, Small - 1} :
                          /\ k <= Len(All(J)) /\ (k < Len(All(J)) => Len(All(J)) >= Small - 1)
                          /\ shown = Printing!UpToNul(SubSeq(All(J), 1, k))
      BY <2>3
    <3>1. ShownWide(J)
      BY <2>2 DEF TInv, Came
    <3> QED BY <3>1 DEF ShownWide
  <2>6. phase = "shown" /\ port # "loader" =>
         shown = IF port = "serial"
                 THEN Printing!UpToNul(SubSeq(Printing!Whole, 1, IF Len(Printing!Whole) < Small THEN Len(Printing!Whole) ELSE Small - 1))
                 ELSE IF Len(Printing!Whole) < (IF port = "early" THEN Small ELSE Large) THEN Printing!UpToNul(Printing!Whole)
                 ELSE Printing!Excuse
    BY <2>2, <2>3 DEF TInv, Came, Shown
  <2> QED BY <2>4, <2>5, <2>6, Zenon DEF Printing!ShowsMessage
<1> QED BY <1>1, <1>2, InitMessage, PTL DEF SpecTextOutput
-----------------------------------------------------------------------------
(* The C strings.                                                           *)

\* Strings' characters.
Codes8 == 1..255

\* The first number from lo to hi that is in X, as Stops has it.
Firsts(lo, hi, X) == {i \in lo..hi : (\A j \in lo..(i - 1) : j \notin X) /\ i \in X}

\* There is one, if there is any.
LEMMA FirstOrNone ==
  ASSUME NEW lo \in Nat, NEW hi \in Nat, NEW X
  PROVE  \/ Firsts(lo, hi, X) = {} /\ \A i \in lo..hi : i \notin X
         \/ \E i \in lo..hi : Firsts(lo, hi, X) = {i} /\ i \in X /\ \A j \in lo..(i - 1) : j \notin X
<1> DEFINE at == {i \in lo..hi : i \in X}
<1>1. CASE at = {}
  BY <1>1 DEF Firsts
<1>2. CASE at # {}
  <2>1. at \subseteq Nat
    OBVIOUS
  <2>2. PICK i \in at : \A j \in at : i <= j
    <3> HIDE DEF at
    <3> QED BY <1>2, <2>1, LeastNatural
  <2>3. i \in lo..hi /\ i \in X /\ \A j \in lo..(i - 1) : j \notin X
    BY <2>2
  <2>4. \A j \in Firsts(lo, hi, X) : j = i
    <3> SUFFICES ASSUME NEW j \in Firsts(lo, hi, X) PROVE j = i
      OBVIOUS
    <3>1. j \in lo..hi /\ j \in X /\ (\A m \in lo..(j - 1) : m \notin X)
      BY DEF Firsts
    <3>2. ~(j < i) /\ ~(i < j)
      BY <2>3, <3>1
    <3> QED BY <2>3, <3>1, <3>2
  <2>5. i \in Firsts(lo, hi, X)
    BY <2>3 DEF Firsts
  <2>6. Firsts(lo, hi, X) = {i}
    BY <2>4, <2>5
  <2> QED BY <2>3, <2>6
<1> QED BY <1>1, <1>2

\* A NUL is read behind the last character, and nothing further.
LEMMA CharIs ==
  ASSUME NEW S, NEW a \in Seq(S)
  PROVE  /\ Len(a) \in Nat /\ DOMAIN a = 1..Len(a)
         /\ \A i \in 1..Len(a) : Str!Char(a, i) = a[i] /\ a[i] \in S
         /\ Str!Char(a, Len(a) + 1) = 0
<1> DEFINE U == S \cup {0}
<1>1. a \in Seq(U) /\ 0 \in U
  OBVIOUS
<1> HIDE DEF U
<1>2. /\ Len(Append(a, 0)) = Len(a) + 1 /\ Append(a, 0)[Len(a) + 1] = 0
      /\ \A i \in 1..Len(a) : Append(a, 0)[i] = a[i]
  BY <1>1, AppendProperties
<1>3. Len(a) \in Nat /\ DOMAIN a = 1..Len(a) /\ \A i \in 1..Len(a) : a[i] \in S
  BY LenProperties, ElementOfSeq
<1> QED BY <1>2, <1>3 DEF Str!Char, Str!Nul

\* The order of two strings is that of the first place where they are not alike.
LEMMA OrderOf ==
  ASSUME NEW a \in Seq(Int), NEW b \in Seq(Int), NEW i \in 1..(Len(a) + 1), i <= Len(b) + 1,
         \A j \in 1..(i - 1) : a[j] = b[j]
  PROVE  /\ i = Len(a) + 1 /\ i = Len(b) + 1 => Str!Order(a, b) = 0 /\ a = b
         /\ i = Len(a) + 1 /\ i <= Len(b) => Str!Order(a, b) = -1 /\ a # b
         /\ i <= Len(a) /\ i = Len(b) + 1 => Str!Order(a, b) = 1 /\ a # b
         /\ i <= Len(a) /\ i <= Len(b) /\ a[i] < b[i] => Str!Order(a, b) = -1 /\ a # b
         /\ i <= Len(a) /\ i <= Len(b) /\ a[i] > b[i] => Str!Order(a, b) = 1 /\ a # b
<1>1. /\ Len(a) \in Nat /\ Len(b) \in Nat /\ DOMAIN a = 1..Len(a) /\ DOMAIN b = 1..Len(b)
      /\ \A j \in 1..Len(a) : a[j] \in Int
      /\ \A j \in 1..Len(b) : b[j] \in Int
  BY LenProperties, ElementOfSeq
<1>2. i - 1 \in 0..Len(a) /\ i - 1 \in 0..Len(b) /\ i \in Nat
  BY <1>1
<1>3. SubSeq(a, 1, i - 1) = SubSeq(b, 1, i - 1)
  <2>1. SubSeq(a, 1, i - 1) = [j \in 1..(i - 1) |-> a[j]] /\ SubSeq(b, 1, i - 1) = [j \in 1..(i - 1) |-> b[j]]
    BY <1>2, Front
  <2>2. [j \in 1..(i - 1) |-> a[j]] = [j \in 1..(i - 1) |-> b[j]]
    OBVIOUS
  <2> QED BY <2>1, <2>2
\* Another place where one of them would be before the other.
<1>4. ASSUME NEW j \in 1..Len(a), j \in 1..Len(b), a[j] < b[j], SubSeq(a, 1, j - 1) = SubSeq(b, 1, j - 1)
      PROVE  j >= i /\ (j > i => i <= Len(a) /\ i <= Len(b) /\ a[i] = b[i])
  <2>1. j \in Nat /\ j - 1 \in 0..Len(a) /\ j - 1 \in 0..Len(b)
    BY <1>1, <1>4
  <2>2. \A k \in 1..(j - 1) : a[k] = b[k]
    <3>1. /\ \A k \in 1..(j - 1) : SubSeq(a, 1, j - 1)[k] = a[k]
          /\ \A k \in 1..(j - 1) : SubSeq(b, 1, j - 1)[k] = b[k]
      BY <2>1, Front
    <3> QED BY <1>4, <3>1
  <2>3. j >= i
    <3> SUFFICES ASSUME ~(j >= i) PROVE FALSE
      OBVIOUS
    <3>1. j \in 1..(i - 1)
      BY <1>2, <2>1
    <3>2. a[j] = b[j] /\ a[j] \in Int
      BY <1>1, <3>1
    <3> QED BY <1>4, <3>2
  <2>4. ASSUME j > i PROVE i <= Len(a) /\ i <= Len(b) /\ a[i] = b[i]
    <3>1. i \in 1..(j - 1) /\ i <= Len(a) /\ i <= Len(b)
      BY <1>1, <1>2, <1>4, <2>1, <2>4
    <3> QED BY <2>2, <3>1
  <2> QED BY <2>3, <2>4
<1>5. CASE i = Len(a) + 1 /\ i = Len(b) + 1
  <2>1. Len(a) = Len(b) /\ i - 1 = Len(a)
    <3>1. \A m, k \in Nat : i = m + 1 /\ i = k + 1 => m = k /\ i - 1 = m
      OBVIOUS
    <3> QED BY <1>1, <1>5, <3>1
  <2>2. a = b
    BY <2>1, SeqEqual
  <2> QED BY SMTT(30), <1>1, <1>2, <1>5, <2>2 DEF Str!Order
<1>6. CASE i = Len(a) + 1 /\ i <= Len(b)
  <2>1. Len(a) < Len(b) /\ i - 1 = Len(a)
    BY <1>1, <1>6
  <2>2. a # b
    BY <1>1, <2>1
  <2>3. Str!IsStrictPrefix(a, b)
    <3>1. Len(a) <= Len(b)
      BY <1>1, <2>1
    <3> QED BY <1>3, <2>1, <2>2, <3>1 DEF Str!IsStrictPrefix, Str!IsPrefix
  <2>4. Str!Order(a, b) = -1
    BY <2>2, <2>3 DEF Str!Order, Str!Precedes
  <2> QED BY <1>1, <1>6, <2>1, <2>2, <2>4
<1>7. CASE i <= Len(a) /\ i = Len(b) + 1
  <2>1. Len(a) > Len(b) /\ ~(Len(a) <= Len(b))
    BY <1>1, <1>7
  <2>2. a # b
    BY <1>1, <2>1
  <2>3. ~Str!Precedes(a, b)
    <3>1. ~Str!IsStrictPrefix(a, b)
      BY <2>1 DEF Str!IsStrictPrefix, Str!IsPrefix
    <3>2. \A j \in DOMAIN a \cap DOMAIN b : ~(j >= i)
      BY <1>1, <1>2, <1>7
    <3> QED BY <1>1, <1>4, <3>1, <3>2 DEF Str!Precedes
  <2>4. Str!Order(a, b) = 1
    BY <2>2, <2>3 DEF Str!Order
  <2> QED BY <1>1, <1>7, <2>1, <2>2, <2>4
<1>8. CASE i <= Len(a) /\ i <= Len(b) /\ a[i] < b[i]
  <2>1. i \in DOMAIN a \cap DOMAIN b /\ a[i] \in Int /\ i \in 1..Len(a)
    BY <1>1, <1>2, <1>8
  <2>2. a # b
    BY <1>8, <2>1
  <2>3. Str!Precedes(a, b)
    BY <1>3, <1>8, <2>1 DEF Str!Precedes
  <2>4. Str!Order(a, b) = -1
    BY <2>2, <2>3 DEF Str!Order
  <2>5. b[i] \in Int /\ ~(a[i] > b[i])
    BY <1>1, <1>8, <2>1
  <2> QED BY <1>1, <1>2, <1>8, <2>2, <2>4, <2>5
<1>9. CASE i <= Len(a) /\ i <= Len(b) /\ a[i] > b[i]
  <2>1. i \in 1..Len(a) /\ i \in 1..Len(b) /\ a[i] \in Int /\ b[i] \in Int
    BY <1>1, <1>2, <1>9
  <2>2. a # b /\ a[i] # b[i] /\ ~(a[i] < b[i])
    BY <1>9, <2>1
  <2>3. ~Str!IsStrictPrefix(a, b)
    <3> SUFFICES ASSUME Str!IsPrefix(a, b) PROVE FALSE
      BY DEF Str!IsStrictPrefix
    <3>1. Len(a) \in 0..Len(a) /\ Len(a) \in 0..Len(b) /\ SubSeq(a, 1, Len(a)) = SubSeq(b, 1, Len(a))
      BY <1>1 DEF Str!IsPrefix
    <3>2. SubSeq(a, 1, Len(a))[i] = a[i] /\ SubSeq(b, 1, Len(a))[i] = b[i]
      BY <2>1, <3>1, Front
    <3> QED BY <2>2, <3>1, <3>2
  <2>4. \A j \in DOMAIN a \cap DOMAIN b : ~(a[j] < b[j] /\ SubSeq(a, 1, j - 1) = SubSeq(b, 1, j - 1))
    <3> SUFFICES ASSUME NEW j \in 1..Len(a), j \in 1..Len(b), a[j] < b[j], SubSeq(a, 1, j - 1) = SubSeq(b, 1, j - 1)
                 PROVE  FALSE
      BY <1>1
    <3>1. j >= i /\ (j > i => a[i] = b[i])
      BY <1>4
    <3>2. j = i
      BY <1>2, <2>2, <3>1
    <3> QED BY <2>2, <3>2
  <2>5. Str!Order(a, b) = 1
    BY <2>2, <2>3, <2>4 DEF Str!Order, Str!Precedes
  <2> QED BY <1>1, <1>2, <1>9, <2>2, <2>5
<1> QED BY <1>5, <1>6, <1>7, <1>8, <1>9

\* The first characters of a string, and the string in lower case.
LEMMA UpToIs ==
  ASSUME NEW a \in Seq(Codes8), NEW k \in Nat
  PROVE  LET m == IF Len(a) < k THEN Len(a) ELSE k
         IN  /\ m \in 0..Len(a) /\ m <= k
             /\ Str!UpTo(a, k) \in Seq(Codes8) /\ Len(Str!UpTo(a, k)) = m
             /\ \A i \in 1..m : Str!UpTo(a, k)[i] = a[i]
             /\ Str!UpTo(a, k) = SubSeq(a, 1, m)
             /\ k >= Len(a) => Str!UpTo(a, k) = a
<1> DEFINE m == IF Len(a) < k THEN Len(a) ELSE k
<1>1. Len(a) \in Nat
  BY LenProperties
<1>2. m \in 0..Len(a) /\ m <= k /\ (k >= Len(a) => m = Len(a))
  BY <1>1
<1>3. Str!UpTo(a, k) = SubSeq(a, 1, m)
  BY DEF Str!UpTo, Str!Strnlen
<1> HIDE DEF m
<1>4. SubSeq(a, 1, m) \in Seq(Codes8) /\ Len(SubSeq(a, 1, m)) = m /\ \A i \in 1..m : SubSeq(a, 1, m)[i] = a[i]
  BY <1>2, Front
<1>5. k >= Len(a) => SubSeq(a, 1, m) = a
  BY <1>2, SubSeqFull
<1> QED BY <1>2, <1>3, <1>4, <1>5 DEF m

LEMMA FoldedIs ==
  ASSUME NEW a \in Seq(Codes8)
  PROVE  /\ Str!Folded(a) \in Seq(Codes8) /\ Len(Str!Folded(a)) = Len(a)
         /\ \A i \in 1..Len(a) : Str!Folded(a)[i] = Str!Tolower(a[i])
<1>1. Len(a) \in Nat /\ DOMAIN a = 1..Len(a) /\ \A i \in 1..Len(a) : a[i] \in Codes8
  BY LenProperties, ElementOfSeq
<1>2. \A i \in 1..Len(a) : Str!Tolower(a[i]) \in Codes8
  <2>1. \A c \in Codes8 : Str!Tolower(c) \in Codes8
    BY DEF Codes8, Str!Tolower
  <2> QED BY <1>1, <2>1
<1>3. Str!Folded(a) = [i \in 1..Len(a) |-> Str!Tolower(a[i])]
  BY <1>1 DEF Str!Folded
<1>4. Str!Folded(a) \in [1..Len(a) -> Codes8] /\ DOMAIN Str!Folded(a) = 1..Len(a)
  BY <1>2, <1>3
<1>5. Str!Folded(a) \in Seq(Codes8)
  BY <1>1, <1>4
<1>6. Len(Str!Folded(a)) = Len(a)
  BY <1>1, <1>4, <1>5, LenProperties
<1> QED BY <1>3, <1>5, <1>6

\* Strings are sequences of numbers.
LEMMA CodesAreInts == ASSUME NEW a \in Seq(Codes8) PROVE a \in Seq(Int)
<1>1. Codes8 \subseteq Int
  BY DEF Codes8
<1> QED BY <1>1, SeqMonotonic

\* The sign of a difference of two characters.
LEMMA SignIs ==
  \A x, y \in 0..255 : /\ x < y => Str!Sign(x - y) = -1
                       /\ x = y => Str!Sign(x - y) = 0
                       /\ x > y => Str!Sign(x - y) = 1
BY DEF Str!Sign

\* The sign of the difference at the first place where two strings are not alike, or the first
\* one ends, is their order.
LEMMA SignOrders ==
  ASSUME NEW a \in Seq(Codes8), NEW b \in Seq(Codes8), NEW i \in 1..(Len(a) + 1),
         \A j \in 1..(i - 1) : Str!Char(a, j) = Str!Char(b, j),
         Str!Char(a, i) # Str!Char(b, i) \/ Str!Char(a, i) = 0
  PROVE  Str!Sign(Str!Char(a, i) - Str!Char(b, i)) = Str!Order(a, b) /\ i <= Len(b) + 1
<1>1. /\ Len(a) \in Nat /\ Len(b) \in Nat
      /\ \A j \in 1..Len(a) : Str!Char(a, j) = a[j] /\ a[j] \in 1..255
      /\ \A j \in 1..Len(b) : Str!Char(b, j) = b[j] /\ b[j] \in 1..255
      /\ Str!Char(a, Len(a) + 1) = 0 /\ Str!Char(b, Len(b) + 1) = 0
  <2>1. /\ Len(a) \in Nat /\ Len(b) \in Nat
        /\ \A j \in 1..Len(a) : Str!Char(a, j) = a[j] /\ a[j] \in Codes8
        /\ \A j \in 1..Len(b) : Str!Char(b, j) = b[j] /\ b[j] \in Codes8
        /\ Str!Char(a, Len(a) + 1) = 0 /\ Str!Char(b, Len(b) + 1) = 0
    BY CharIs
  <2>2. \A c \in Codes8 : c \in 1..255
    BY DEF Codes8
  <2> QED BY <2>1, <2>2
<1>2. \A j \in 1..(i - 1) : j \in 1..Len(a)
  BY <1>1
<1>3. i <= Len(b) + 1
  <2> SUFFICES ASSUME ~(i <= Len(b) + 1) PROVE FALSE
    OBVIOUS
  <2>1. PICK m : m = Len(b) + 1
    OBVIOUS
  <2>2. m \in 1..(i - 1)
    BY <1>1, <2>1
  <2>3. Str!Char(a, m) = Str!Char(b, m) /\ Str!Char(b, m) = 0
    BY <1>1, <2>1, <2>2
  <2>4. m \in 1..Len(a)
    BY <1>2, <2>2
  <2>5. Str!Char(a, m) = a[m] /\ a[m] \in 1..255
    BY <1>1, <2>4
  <2>6. a[m] = 0
    BY <2>3, <2>5
  <2> QED BY <2>5, <2>6
<1>4. \A j \in 1..(i - 1) : a[j] = b[j]
  <2>1. \A j \in 1..(i - 1) : j \in 1..Len(b)
    BY <1>1, <1>3
  <2> QED BY <1>1, <1>2, <2>1
<1>5. a \in Seq(Int) /\ b \in Seq(Int)
  BY CodesAreInts
<1>6. /\ i = Len(a) + 1 /\ i = Len(b) + 1 => Str!Order(a, b) = 0
      /\ i = Len(a) + 1 /\ i <= Len(b) => Str!Order(a, b) = -1
      /\ i <= Len(a) /\ i = Len(b) + 1 => Str!Order(a, b) = 1
      /\ i <= Len(a) /\ i <= Len(b) /\ a[i] < b[i] => Str!Order(a, b) = -1
      /\ i <= Len(a) /\ i <= Len(b) /\ a[i] > b[i] => Str!Order(a, b) = 1
  BY <1>3, <1>4, <1>5, OrderOf
<1>7. PICK x, y : x = Str!Char(a, i) /\ y = Str!Char(b, i)
  OBVIOUS
<1>8. x # y \/ x = 0
  BY <1>7
<1>9. \/ i = Len(a) + 1 /\ x = 0
      \/ i \in 1..Len(a) /\ i <= Len(a) /\ x = a[i] /\ x \in 1..255
  <2>1. i = Len(a) + 1 \/ (i \in 1..Len(a) /\ i <= Len(a))
    BY <1>1
  <2> QED BY <1>1, <1>7, <2>1
<1>10. \/ i = Len(b) + 1 /\ y = 0
       \/ i \in 1..Len(b) /\ i <= Len(b) /\ y = b[i] /\ y \in 1..255
  <2>1. i = Len(b) + 1 \/ (i \in 1..Len(b) /\ i <= Len(b))
    BY <1>1, <1>3
  <2> QED BY <1>1, <1>7, <2>1
<1>11. x \in 0..255 /\ y \in 0..255
  BY <1>9, <1>10
<1>12. x < y \/ x = y \/ x > y
  BY <1>11
<1>13. /\ x < y => Str!Sign(x - y) = -1
       /\ x = y => Str!Sign(x - y) = 0
       /\ x > y => Str!Sign(x - y) = 1
  BY <1>11, SignIs
<1>14. CASE x < y
  <2>1. y # 0 /\ ~(y \in 1..255 /\ x = y)
    BY <1>11, <1>14
  <2>2. Str!Order(a, b) = -1
    BY <1>6, <1>9, <1>10, <1>14, <2>1
  <2> QED BY <1>3, <1>7, <1>13, <1>14, <2>2
<1>15. CASE x = y
  <2>1. x = 0 /\ y = 0
    BY <1>8, <1>15
  <2>2. Str!Order(a, b) = 0
    BY <1>6, <1>9, <1>10, <2>1
  <2> QED BY <1>3, <1>7, <1>13, <1>15, <2>2
<1>16. CASE x > y
  <2>1. x # 0
    BY <1>11, <1>16
  <2>2. Str!Order(a, b) = 1
    BY <1>6, <1>9, <1>10, <1>16, <2>1
  <2> QED BY <1>3, <1>7, <1>13, <1>16, <2>2
<1> QED BY <1>12, <1>14, <1>15, <1>16

\* strcmp is the order of unsigned characters.
LEMMA StrcmpIs ==
  ASSUME NEW a \in Seq(Codes8), NEW b \in Seq(Codes8)
  PROVE  Str!Strcmp(a, b) = Str!Order(a, b)
<1> DEFINE X == {j \in Int : Str!Char(a, j) # Str!Char(b, j) \/ Str!Char(a, j) = 0}
           hi == Len(a) + 1
           i == Str!Stop(1, hi, LAMBDA j : Str!Char(a, j) # Str!Char(b, j) \/ Str!Char(a, j) = 0)
<1>1. /\ Len(a) \in Nat /\ Str!Char(a, Len(a) + 1) = 0
  BY CharIs
<1>2. i = CHOOSE j \in Firsts(1, hi, X) : TRUE
  <2>1. Firsts(1, hi, X) = {j \in 1..hi : /\ \A k \in 1..(j - 1) : ~(Str!Char(a, k) # Str!Char(b, k) \/ Str!Char(a, k) = 0)
                                          /\ Str!Char(a, j) # Str!Char(b, j) \/ Str!Char(a, j) = 0}
    BY <1>1 DEF Firsts
  <2> HIDE DEF X
  <2> QED BY <2>1, Zenon DEF Str!Stop, Str!Stops
<1>3. hi \in X /\ hi \in 1..hi /\ hi \in Nat
  BY <1>1
<1>4. Str!Strcmp(a, b) = Str!Sign(Str!Char(a, i) - Str!Char(b, i))
  BY Zenon DEF Str!Strcmp, Str!Nul
<1>5. PICK k \in 1..hi : Firsts(1, hi, X) = {k} /\ k \in X /\ \A j \in 1..(k - 1) : j \notin X
  <2> HIDE DEF X, hi
  <2> QED BY <1>3, FirstOrNone
<1>6. i = k
  <2> HIDE DEF i, X, hi
  <2> QED BY <1>2, <1>5
<1>7. Str!Strcmp(a, b) = Str!Sign(Str!Char(a, k) - Str!Char(b, k))
  <2> HIDE DEF i
  <2> QED BY <1>4, <1>6
<1>8. Str!Char(a, k) # Str!Char(b, k) \/ Str!Char(a, k) = 0
  BY <1>5
<1>9. \A j \in 1..(k - 1) : Str!Char(a, j) = Str!Char(b, j)
  <2>1. \A j \in 1..(k - 1) : j \in Int
    BY <1>1
  <2> QED BY <1>5, <2>1
<1>10. k \in 1..(Len(a) + 1)
  BY <1>5
<1> QED BY <1>7, <1>8, <1>9, <1>10, SignOrders

\* The NUL behind the first of two strings that agree is not before the second one's.
LEMMA Agreeing ==
  ASSUME NEW a \in Seq(Codes8), NEW b \in Seq(Codes8), NEW i \in 1..(Len(a) + 1),
         \A j \in 1..(i - 1) : Str!Char(a, j) = Str!Char(b, j)
  PROVE  i <= Len(b) + 1
<1>1. /\ Len(a) \in Nat /\ Len(b) \in Nat
      /\ \A j \in 1..Len(a) : Str!Char(a, j) = a[j] /\ a[j] \in Codes8
      /\ Str!Char(b, Len(b) + 1) = 0
  BY CharIs
<1> SUFFICES ASSUME ~(i <= Len(b) + 1) PROVE FALSE
  OBVIOUS
<1>2. PICK m : m = Len(b) + 1
  OBVIOUS
<1>3. m \in 1..(i - 1) /\ m \in 1..Len(a)
  BY <1>1, <1>2
<1>4. Str!Char(a, m) = Str!Char(b, m) /\ Str!Char(b, m) = 0
  BY <1>1, <1>2, <1>3
<1>5. Str!Char(a, m) = a[m] /\ a[m] \in Codes8
  BY <1>1, <1>3
<1>6. a[m] = 0 /\ a[m] \in 1..255
  BY <1>4, <1>5 DEF Codes8
<1> QED BY <1>6

\* What is read of a string's first characters.
LEMMA CharUpTo ==
  ASSUME NEW a \in Seq(Codes8), NEW k \in Nat, NEW j \in 1..k, j <= Len(a) + 1
  PROVE  Str!Char(Str!UpTo(a, k), j) = Str!Char(a, j) /\ j <= Len(Str!UpTo(a, k)) + 1
<1> DEFINE A == Str!UpTo(a, k)
           m == IF Len(a) < k THEN Len(a) ELSE k
<1>1. /\ m \in 0..Len(a) /\ m <= k /\ A \in Seq(Codes8) /\ Len(A) = m
      /\ \A i \in 1..m : A[i] = a[i]
  BY UpToIs
<1>2. Len(a) \in Nat
  BY LenProperties
<1>3. /\ \A i \in 1..Len(a) : Str!Char(a, i) = a[i]
      /\ Str!Char(a, Len(a) + 1) = 0
  BY CharIs
<1>4. (m = Len(a) /\ j = m + 1) \/ (j \in 1..m /\ j \in 1..Len(a))
  BY <1>2
<1>5. j <= m + 1
  BY <1>2
<1> HIDE DEF A, m
<1>6. /\ \A i \in 1..Len(A) : Str!Char(A, i) = A[i]
      /\ Str!Char(A, Len(A) + 1) = 0
  BY <1>1, CharIs
<1>7. CASE m = Len(a) /\ j = m + 1
  <2>1. Str!Char(A, j) = 0 /\ Str!Char(a, j) = 0
    BY <1>1, <1>3, <1>6, <1>7
  <2> QED BY <1>1, <1>5, <2>1 DEF A
<1>8. CASE j \in 1..m /\ j \in 1..Len(a)
  <2>1. Str!Char(A, j) = A[j] /\ Str!Char(a, j) = a[j] /\ A[j] = a[j]
    BY <1>1, <1>3, <1>6, <1>8
  <2> QED BY <1>1, <1>5, <2>1 DEF A
<1> QED BY <1>4, <1>7, <1>8

\* strncmp is the order of at most k characters of each.
LEMMA StrncmpIs ==
  ASSUME NEW a \in Seq(Codes8), NEW b \in Seq(Codes8), NEW k \in Nat
  PROVE  Str!Strncmp(a, b, k) = Str!Order(Str!UpTo(a, k), Str!UpTo(b, k))
<1> DEFINE X == {j \in Int : j > Len(a) \/ Str!Char(a, j) # Str!Char(b, j)}
           stops == Str!Stops(1, k, LAMBDA j : j > Len(a) \/ Str!Char(a, j) # Str!Char(b, j))
           A == Str!UpTo(a, k)
           B == Str!UpTo(b, k)
<1>1. /\ Len(a) \in Nat /\ Len(b) \in Nat
      /\ \A j \in 1..Len(a) : Str!Char(a, j) = a[j] /\ a[j] \in Codes8
      /\ Str!Char(a, Len(a) + 1) = 0
  BY CharIs
<1>2. stops = Firsts(1, k, X)
  <2>1. Firsts(1, k, X) = {j \in 1..k : /\ \A h \in 1..(j - 1) : ~(h > Len(a) \/ Str!Char(a, h) # Str!Char(b, h))
                                        /\ j > Len(a) \/ Str!Char(a, j) # Str!Char(b, j)}
    BY <1>1 DEF Firsts
  <2> HIDE DEF X
  <2> QED BY <2>1, Zenon DEF Str!Stops
<1>3. Str!Strncmp(a, b, k) = IF stops = {} THEN 0 ELSE LET j == CHOOSE j \in stops : TRUE
                                                       IN  Str!Sign(Str!Char(a, j) - Str!Char(b, j))
  BY Zenon DEF Str!Strncmp
<1> HIDE DEF stops
<1>4. A \in Seq(Codes8) /\ B \in Seq(Codes8)
  BY UpToIs
<1>5. CASE Firsts(1, k, X) = {} /\ \A j \in 1..k : j \notin X
  <2>1. \A j \in 1..k : j <= Len(a) /\ Str!Char(a, j) = Str!Char(b, j)
    <3>1. \A j \in 1..k : j \in Int /\ (j <= Len(a) \/ j > Len(a))
      BY <1>1
    <3> QED BY <1>5, <3>1
  <2>2. k <= Len(a) /\ k + 1 \in 1..(Len(a) + 1) /\ (k + 1) - 1 = k
    BY <1>1, <2>1
  <2>3. k <= Len(b)
    <3>1. PICK i : i = k + 1
      OBVIOUS
    <3>2. i \in 1..(Len(a) + 1) /\ i - 1 = k
      BY <2>2, <3>1
    <3>3. i <= Len(b) + 1
      BY <2>1, <3>2, Agreeing
    <3> QED BY <1>1, <3>1, <3>3
  <2>4. Len(A) = k /\ Len(B) = k /\ \A j \in 1..k : A[j] = a[j] /\ B[j] = b[j]
    <3>1. (IF Len(a) < k THEN Len(a) ELSE k) = k /\ (IF Len(b) < k THEN Len(b) ELSE k) = k
      BY <1>1, <2>2, <2>3
    <3> QED BY <3>1, UpToIs
  <2>5. \A j \in 1..k : A[j] = B[j]
    <3> SUFFICES ASSUME NEW j \in 1..k PROVE A[j] = B[j]
      OBVIOUS
    <3>1. j \in 1..Len(a) /\ j \in 1..Len(b)
      BY <1>1, <2>2, <2>3
    <3>2. Str!Char(a, j) = a[j] /\ Str!Char(b, j) = b[j]
      BY <3>1, CharIs
    <3> QED BY <2>1, <2>4, <3>2
  <2> HIDE DEF A, B
  <2>6. A = B
    BY <1>4, <2>4, <2>5, SeqEqual
  <2>7. Str!Order(A, B) = 0
    BY <2>6 DEF Str!Order
  <2>8. Str!Strncmp(a, b, k) = 0
    BY <1>2, <1>3, <1>5
  <2> QED BY <2>7, <2>8 DEF A, B
<1>6. ASSUME NEW i \in 1..k, Firsts(1, k, X) = {i}, i \in X, \A j \in 1..(i - 1) : j \notin X
      PROVE  Str!Strncmp(a, b, k) = Str!Order(A, B)
  <2>1. Str!Strncmp(a, b, k) = Str!Sign(Str!Char(a, i) - Str!Char(b, i))
    <3>1. stops = {i} /\ stops # {} /\ (CHOOSE j \in stops : TRUE) = i
      BY <1>2, <1>6
    <3> QED BY <1>3, <3>1
  <2>2. \A j \in 1..(i - 1) : j <= Len(a) /\ Str!Char(a, j) = Str!Char(b, j)
    <3>1. \A j \in 1..(i - 1) : j \in Int /\ (j <= Len(a) \/ j > Len(a))
      BY <1>1
    <3> QED BY <1>6, <3>1
  <2>3. i \in 1..(Len(a) + 1)
    <3> SUFFICES ASSUME ~(i <= Len(a) + 1) PROVE FALSE
      BY <1>1
    <3>1. i - 1 \in 1..(i - 1) /\ ~(i - 1 <= Len(a))
      BY <1>1
    <3> QED BY <2>2, <3>1
  <2>4. i <= Len(b) + 1
    BY <2>2, <2>3, Agreeing
  <2>5. \A j \in 1..i : /\ Str!Char(A, j) = Str!Char(a, j) /\ Str!Char(B, j) = Str!Char(b, j)
                        /\ j <= Len(A) + 1 /\ j <= Len(B) + 1
    <3>1. \A j \in 1..i : j \in 1..k /\ j <= Len(a) + 1 /\ j <= Len(b) + 1
      BY <1>1, <2>3, <2>4
    <3> QED BY <3>1, CharUpTo
  <2>6. Str!Char(a, i) # Str!Char(b, i) \/ Str!Char(a, i) = 0
    <3>1. i > Len(a) => i = Len(a) + 1
      BY <1>1, <2>3
    <3> QED BY <1>1, <1>6, <3>1
  <2> HIDE DEF A, B
  <2>7. i \in 1..i /\ \A j \in 1..(i - 1) : j \in 1..i
    OBVIOUS
  <2>8. i \in 1..(Len(A) + 1)
    <3>1. Len(A) \in Nat /\ i <= Len(A) + 1
      BY <1>4, <2>5, <2>7, LenProperties
    <3> QED BY <3>1
  <2>9. \A j \in 1..(i - 1) : Str!Char(A, j) = Str!Char(B, j)
    BY <2>2, <2>5, <2>7
  <2>10. Str!Char(A, i) = Str!Char(a, i) /\ Str!Char(B, i) = Str!Char(b, i)
    BY <2>5, <2>7
  <2>11. Str!Sign(Str!Char(A, i) - Str!Char(B, i)) = Str!Order(A, B)
    BY <1>4, <2>6, <2>8, <2>9, <2>10, SignOrders
  <2> QED BY <2>1, <2>10, <2>11
<1>7. \/ Firsts(1, k, X) = {} /\ \A j \in 1..k : j \notin X
      \/ \E i \in 1..k : Firsts(1, k, X) = {i} /\ i \in X /\ \A j \in 1..(i - 1) : j \notin X
  <2> HIDE DEF X
  <2> QED BY FirstOrNone
<1> QED BY <1>5, <1>6, <1>7

\* What a string in lower case has at each place, its NUL included.
LEMMA CharFolded ==
  ASSUME NEW a \in Seq(Codes8), NEW j \in 1..(Len(a) + 1)
  PROVE  /\ Str!Char(Str!Folded(a), j) = Str!Tolower(Str!Char(a, j))
         /\ j <= Len(a) => Str!Tolower(Str!Char(a, j)) \in Codes8
         /\ j = Len(a) + 1 => Str!Tolower(Str!Char(a, j)) = 0
<1> DEFINE A == Str!Folded(a)
<1>1. /\ Len(a) \in Nat
      /\ \A i \in 1..Len(a) : Str!Char(a, i) = a[i] /\ a[i] \in Codes8
      /\ Str!Char(a, Len(a) + 1) = 0
  BY CharIs
<1>2. A \in Seq(Codes8) /\ Len(A) = Len(a) /\ \A i \in 1..Len(a) : A[i] = Str!Tolower(a[i])
  BY FoldedIs
<1> HIDE DEF A
<1>3. /\ \A i \in 1..Len(A) : Str!Char(A, i) = A[i] /\ A[i] \in Codes8
      /\ Str!Char(A, Len(A) + 1) = 0
  BY <1>2, CharIs
<1>4. Str!Tolower(0) = 0
  BY DEF Str!Tolower
<1>5. CASE j = Len(a) + 1
  <2>1. Str!Char(A, j) = 0 /\ Str!Char(a, j) = 0 /\ ~(j <= Len(a))
    BY <1>1, <1>2, <1>3, <1>5
  <2> QED BY <1>4, <2>1 DEF A
<1>6. CASE j \in 1..Len(a)
  <2>1. Str!Char(A, j) = A[j] /\ Str!Char(a, j) = a[j] /\ A[j] = Str!Tolower(a[j]) /\ A[j] \in Codes8
    BY <1>1, <1>2, <1>3, <1>6
  <2>2. j # Len(a) + 1
    BY <1>1, <1>6
  <2> QED BY <2>1, <2>2 DEF A
<1> QED BY <1>1, <1>5, <1>6

\* Two strings that agree but for case, as far as the loop of stricmp went.
LEMMA AgreeingFolded ==
  ASSUME NEW a \in Seq(Codes8), NEW b \in Seq(Codes8), NEW i \in 1..(Len(a) + 1),
         \A j \in 1..(i - 1) : Str!Tolower(a[j]) = Str!Tolower(Str!Char(b, j))
  PROVE  /\ i <= Len(b) + 1
         /\ \A j \in 1..(i - 1) : Str!Char(Str!Folded(a), j) = Str!Char(Str!Folded(b), j)
<1>1. /\ Len(a) \in Nat /\ Len(b) \in Nat
      /\ \A j \in 1..Len(a) : Str!Char(a, j) = a[j] /\ a[j] \in Codes8
  BY CharIs
<1>2. i <= Len(b) + 1
  <2> SUFFICES ASSUME ~(i <= Len(b) + 1) PROVE FALSE
    OBVIOUS
  <2>1. PICK m : m = Len(b) + 1
    OBVIOUS
  <2>2. m \in 1..(i - 1) /\ m \in 1..Len(a) /\ m \in 1..(Len(a) + 1) /\ m \in 1..(Len(b) + 1) /\ m <= Len(a)
    BY <1>1, <2>1
  <2>3. Str!Tolower(a[m]) = Str!Tolower(Str!Char(b, m)) /\ Str!Char(a, m) = a[m]
    BY <1>1, <2>2
  <2>4. Str!Tolower(Str!Char(b, m)) = 0
    BY <2>1, <2>2, CharFolded
  <2>5. Str!Tolower(Str!Char(a, m)) \in Codes8
    BY <2>2, CharFolded
  <2>6. 0 \in Codes8
    BY <2>3, <2>4, <2>5
  <2> QED BY <2>6 DEF Codes8
<1>3. ASSUME NEW j \in 1..(i - 1)
      PROVE  Str!Char(Str!Folded(a), j) = Str!Char(Str!Folded(b), j)
  <2>1. j \in 1..Len(a) /\ j \in 1..(Len(a) + 1) /\ j \in 1..(Len(b) + 1)
    BY <1>1, <1>2
  <2>2. Str!Char(Str!Folded(a), j) = Str!Tolower(Str!Char(a, j)) /\ Str!Char(Str!Folded(b), j) = Str!Tolower(Str!Char(b, j))
    BY <2>1, CharFolded
  <2>3. Str!Char(a, j) = a[j]
    BY <1>1, <2>1
  <2> QED BY <2>2, <2>3
<1> QED BY <1>2, <1>3

\* What stricmp makes of a string and of at most k characters of another: their order, but for
\* case, unless the first is the beginning of the second and they are not alike.
LEMMA StricmpOf ==
  ASSUME NEW a \in Seq(Codes8), NEW b \in Seq(Codes8), NEW k \in Nat, Len(a) <= k
  PROVE  ~Str!IsStrictPrefix(Str!Folded(a), Str!Folded(Str!UpTo(b, k)))
           => Str!Stricmp(a, b) = Str!Order(Str!Folded(a), Str!Folded(Str!UpTo(b, k)))
<1> DEFINE X == {j \in Int : Str!Tolower(a[j]) # Str!Tolower(Str!Char(b, j))}
           stops == Str!Stops(1, Len(a), LAMBDA j : Str!Tolower(a[j]) # Str!Tolower(Str!Char(b, j)))
           A == Str!Folded(a)
           B == Str!UpTo(b, k)
           C == Str!Folded(B)
<1>1. /\ Len(a) \in Nat /\ Len(b) \in Nat
      /\ \A j \in 1..Len(a) : Str!Char(a, j) = a[j] /\ a[j] \in Codes8
  BY CharIs
<1>2. stops = Firsts(1, Len(a), X)
  <2>1. Firsts(1, Len(a), X) = {j \in 1..Len(a) : /\ \A h \in 1..(j - 1) : ~(Str!Tolower(a[h]) # Str!Tolower(Str!Char(b, h)))
                                                  /\ Str!Tolower(a[j]) # Str!Tolower(Str!Char(b, j))}
    BY <1>1 DEF Firsts
  <2> HIDE DEF X
  <2> QED BY <2>1, Zenon DEF Str!Stops
<1>3. Str!Stricmp(a, b) = IF stops = {} THEN 0
                          ELSE Str!Sign(Str!Tolower(a[CHOOSE j \in stops : TRUE])
                                        - Str!Tolower(Str!Char(b, CHOOSE j \in stops : TRUE)))
  BY Zenon DEF Str!Stricmp
<1> HIDE DEF stops
<1>4. A \in Seq(Codes8) /\ Len(A) = Len(a) /\ \A j \in 1..Len(a) : A[j] = Str!Tolower(a[j])
  BY FoldedIs
<1>5. B \in Seq(Codes8) /\ Len(B) = IF Len(b) < k THEN Len(b) ELSE k
  BY UpToIs
<1>6. C \in Seq(Codes8) /\ Len(C) = Len(B)
  <2> HIDE DEF B
  <2> QED BY <1>5, FoldedIs
<1> SUFFICES ASSUME ~Str!IsStrictPrefix(A, C) PROVE Str!Stricmp(a, b) = Str!Order(A, C)
  OBVIOUS
\* As far as the two agree.
<1>7. ASSUME NEW i \in 1..(Len(a) + 1), \A j \in 1..(i - 1) : Str!Tolower(a[j]) = Str!Tolower(Str!Char(b, j))
      PROVE  /\ i <= Len(b) + 1
             /\ \A j \in 1..i : j <= k => /\ Str!Char(C, j) = Str!Tolower(Str!Char(b, j)) /\ j <= Len(B) + 1
             /\ \A j \in 1..(i - 1) : Str!Char(A, j) = Str!Char(C, j)
  <2>1. i <= Len(b) + 1
    BY <1>7, AgreeingFolded
  <2>2. ASSUME NEW j \in 1..i, j <= k
        PROVE  Str!Char(C, j) = Str!Tolower(Str!Char(b, j)) /\ j <= Len(B) + 1
    <3>1. j \in 1..k /\ j <= Len(b) + 1
      BY <1>1, <2>1, <2>2
    <3>2. Str!Char(B, j) = Str!Char(b, j) /\ j <= Len(B) + 1
      BY <3>1, CharUpTo
    <3> HIDE DEF B
    <3>3. j \in 1..(Len(B) + 1)
      <4>1. Len(B) \in Nat
        BY <1>5, LenProperties
      <4> QED BY <3>1, <3>2, <4>1
    <3>4. Str!Char(C, j) = Str!Tolower(Str!Char(B, j))
      BY <1>5, <3>3, CharFolded
    <3> QED BY <3>2, <3>4
  <2>3. ASSUME NEW j \in 1..(i - 1) PROVE Str!Char(A, j) = Str!Char(C, j)
    <3>1. j \in 1..(Len(a) + 1) /\ j \in 1..Len(a) /\ j \in 1..i /\ j <= k
      BY <1>1
    <3>2. Str!Char(A, j) = Str!Tolower(Str!Char(a, j)) /\ Str!Char(a, j) = a[j]
      BY <1>1, <3>1, CharFolded
    <3>3. Str!Char(C, j) = Str!Tolower(Str!Char(b, j))
      BY <2>2, <3>1
    <3> QED BY <1>7, <3>2, <3>3
  <2> QED BY <2>1, <2>2, <2>3
<1>8. CASE Firsts(1, Len(a), X) = {} /\ \A j \in 1..Len(a) : j \notin X
  <2>1. \A j \in 1..Len(a) : Str!Tolower(a[j]) = Str!Tolower(Str!Char(b, j))
    <3>1. \A j \in 1..Len(a) : j \in Int
      OBVIOUS
    <3> QED BY <1>8, <3>1
  <2>2. PICK i : i = Len(a) + 1
    OBVIOUS
  <2>3. i \in 1..(Len(a) + 1) /\ i - 1 = Len(a)
    BY <1>1, <2>2
  <2>4. i <= Len(b) + 1 /\ \A j \in 1..Len(a) : Str!Char(A, j) = Str!Char(C, j)
    BY <1>7, <2>1, <2>3
  <2>5. Len(a) <= Len(B) /\ Len(B) \in Nat
    BY <1>1, <1>5, <2>2, <2>4
  <2> HIDE DEF A, B, C
  <2>6. \A j \in 1..Len(a) : A[j] = C[j]
    <3> SUFFICES ASSUME NEW j \in 1..Len(a) PROVE A[j] = C[j]
      OBVIOUS
    <3>1. j \in 1..Len(A) /\ j \in 1..Len(C)
      BY <1>1, <1>4, <1>6, <2>5
    <3>2. Str!Char(A, j) = A[j] /\ Str!Char(C, j) = C[j]
      BY <1>4, <1>6, <3>1, CharIs
    <3> QED BY <2>4, <3>2
  <2>7. A = SubSeq(C, 1, Len(A))
    <3>1. Len(a) \in 0..Len(C)
      BY <1>1, <1>6, <2>5
    <3>2. SubSeq(C, 1, Len(a)) \in Seq(Codes8) /\ Len(SubSeq(C, 1, Len(a))) = Len(a)
          /\ \A j \in 1..Len(a) : SubSeq(C, 1, Len(a))[j] = C[j]
      BY <1>6, <3>1, Front
    <3>3. A = SubSeq(C, 1, Len(a))
      BY <1>4, <2>6, <3>2, SeqEqual
    <3> QED BY <1>4, <3>3
  <2>8. Str!IsPrefix(A, C)
    <3>1. SubSeq(A, 1, Len(A)) = A /\ Len(A) <= Len(C)
      BY <1>4, <1>6, <2>5, SubSeqFull
    <3> QED BY <2>7, <3>1 DEF Str!IsPrefix
  <2>9. A = C
    BY <2>8 DEF Str!IsStrictPrefix
  <2>10. Str!Order(A, C) = 0
    BY <2>9 DEF Str!Order
  <2> QED BY <1>2, <1>3, <1>8, <2>10
<1>9. ASSUME NEW i \in 1..Len(a), Firsts(1, Len(a), X) = {i}, i \in X, \A j \in 1..(i - 1) : j \notin X
      PROVE  Str!Stricmp(a, b) = Str!Order(A, C)
  <2>1. Str!Stricmp(a, b) = Str!Sign(Str!Tolower(a[i]) - Str!Tolower(Str!Char(b, i)))
    <3>1. stops = {i} /\ stops # {} /\ (CHOOSE j \in stops : TRUE) = i
      BY <1>2, <1>9
    <3> QED BY <1>3, <3>1
  <2>2. \A j \in 1..(i - 1) : Str!Tolower(a[j]) = Str!Tolower(Str!Char(b, j))
    <3>1. \A j \in 1..(i - 1) : j \in Int
      OBVIOUS
    <3> QED BY <1>9, <3>1
  <2>3. i \in 1..(Len(a) + 1) /\ i \in 1..i /\ i <= k
    BY <1>1
  <2>4. /\ Str!Char(C, i) = Str!Tolower(Str!Char(b, i))
        /\ \A j \in 1..(i - 1) : Str!Char(A, j) = Str!Char(C, j)
    BY <1>7, <2>2, <2>3
  <2>5. Str!Char(A, i) = Str!Tolower(a[i])
    <3>1. Str!Char(a, i) = a[i]
      BY <1>1
    <3>2. Str!Char(A, i) = Str!Tolower(Str!Char(a, i))
      BY <2>3, CharFolded
    <3> QED BY <3>1, <3>2
  <2>6. Str!Char(A, i) # Str!Char(C, i)
    BY <1>9, <2>4, <2>5
  <2> HIDE DEF A, C
  <2>7. i \in 1..(Len(A) + 1)
    BY <1>4, <2>3
  <2>8. Str!Sign(Str!Char(A, i) - Str!Char(C, i)) = Str!Order(A, C)
    BY <1>4, <1>6, <2>4, <2>6, <2>7, SignOrders
  <2> QED BY <2>1, <2>4, <2>5, <2>8
<1>10. \/ Firsts(1, Len(a), X) = {} /\ \A j \in 1..Len(a) : j \notin X
       \/ \E i \in 1..Len(a) : Firsts(1, Len(a), X) = {i} /\ i \in X /\ \A j \in 1..(i - 1) : j \notin X
  <2> HIDE DEF X
  <2> QED BY <1>1, FirstOrNone
<1> QED BY <1>8, <1>9, <1>10

\* stricmp and strnicmp, then.
LEMMA StricmpIs ==
  ASSUME NEW a \in Seq(Codes8), NEW b \in Seq(Codes8)
  PROVE  ~Str!IsStrictPrefix(Str!Folded(a), Str!Folded(b))
           => Str!Stricmp(a, b) = Str!Order(Str!Folded(a), Str!Folded(b))
<1>1. PICK k : k = Len(a) + Len(b)
  OBVIOUS
<1>2. k \in Nat /\ Len(a) <= k /\ k >= Len(b)
  <2>1. Len(a) \in Nat /\ Len(b) \in Nat
    BY LenProperties
  <2> QED BY <1>1, <2>1
<1>3. Str!UpTo(b, k) = b
  BY <1>2, UpToIs
<1> QED BY <1>2, <1>3, StricmpOf

LEMMA StrnicmpIs ==
  ASSUME NEW a \in Seq(Codes8), NEW b \in Seq(Codes8), NEW k \in Nat
  PROVE  ~Str!IsStrictPrefix(Str!Folded(Str!UpTo(a, k)), Str!Folded(Str!UpTo(b, k)))
           => Str!Strnicmp(a, b, k) = Str!Order(Str!Folded(Str!UpTo(a, k)), Str!Folded(Str!UpTo(b, k)))
<1>1. Len(a) \in Nat
  BY LenProperties
<1> DEFINE A == Str!UpTo(a, k)
           m == IF Len(a) < k THEN Len(a) ELSE k
<1>2. A \in Seq(Codes8) /\ Len(A) = m /\ m <= k /\ A = SubSeq(a, 1, m)
  BY UpToIs
<1>3. Str!Strnicmp(a, b, k) = Str!Stricmp(A, b)
  <2>1. (IF k < Len(a) THEN k ELSE Len(a)) = m
    BY <1>1
  <2> HIDE DEF m, A
  <2> QED BY <1>2, <2>1 DEF Str!Strnicmp
<1> HIDE DEF A, m
<1>4. Len(A) <= k
  BY <1>2
<1>5. ~Str!IsStrictPrefix(Str!Folded(A), Str!Folded(Str!UpTo(b, k)))
        => Str!Stricmp(A, b) = Str!Order(Str!Folded(A), Str!Folded(Str!UpTo(b, k)))
  BY <1>2, <1>4, StricmpOf
<1> QED BY <1>3, <1>5 DEF A

\* memcmp is the order of k bytes.
LEMMA MemcmpIs ==
  ASSUME NEW a \in Seq(Codes8), NEW b \in Seq(Codes8), NEW k \in Nat, k <= Len(a) + 1, k <= Len(b) + 1
  PROVE  Str!Memcmp(a, b, k) = Str!Order(SubSeq(Append(a, Str!Nul), 1, k), SubSeq(Append(b, Str!Nul), 1, k))
<1> DEFINE X == {j \in Int : Str!Char(a, j) # Str!Char(b, j)}
           stops == Str!Stops(1, k, LAMBDA j : Str!Char(a, j) # Str!Char(b, j))
           A == SubSeq(Append(a, 0), 1, k)
           B == SubSeq(Append(b, 0), 1, k)
\* The first k bytes of a string and its NUL.
<1>1. ASSUME NEW s \in Seq(Codes8), k <= Len(s) + 1
      PROVE  /\ SubSeq(Append(s, 0), 1, k) \in Seq(Int) /\ Len(SubSeq(Append(s, 0), 1, k)) = k
             /\ \A j \in 1..k : SubSeq(Append(s, 0), 1, k)[j] = Str!Char(s, j)
  <2>1. s \in Seq(Int) /\ 0 \in Int
    BY CodesAreInts
  <2>2. Append(s, 0) \in Seq(Int) /\ Len(Append(s, 0)) = Len(s) + 1
    BY <2>1, AppendProperties
  <2>3. Len(s) \in Nat
    BY LenProperties
  <2>4. k \in 0..Len(Append(s, 0))
    BY <1>1, <2>2, <2>3
  <2>5. PICK w : w = Append(s, 0)
    OBVIOUS
  <2>6. w \in Seq(Int) /\ k \in 0..Len(w)
    BY <2>2, <2>4, <2>5
  <2>7. SubSeq(w, 1, k) \in Seq(Int) /\ Len(SubSeq(w, 1, k)) = k /\ \A j \in 1..k : SubSeq(w, 1, k)[j] = w[j]
    BY <2>6, Front
  <2>8. \A j \in 1..k : w[j] = Str!Char(s, j)
    BY <2>5 DEF Str!Char, Str!Nul
  <2> QED BY <2>5, <2>7, <2>8
<1>2. /\ A \in Seq(Int) /\ Len(A) = k /\ \A j \in 1..k : A[j] = Str!Char(a, j)
      /\ B \in Seq(Int) /\ Len(B) = k /\ \A j \in 1..k : B[j] = Str!Char(b, j)
  BY <1>1
<1>3. stops = Firsts(1, k, X)
  <2>1. Firsts(1, k, X) = {j \in 1..k : /\ \A h \in 1..(j - 1) : ~(Str!Char(a, h) # Str!Char(b, h))
                                        /\ Str!Char(a, j) # Str!Char(b, j)}
    BY DEF Firsts
  <2> HIDE DEF X
  <2> QED BY <2>1, Zenon DEF Str!Stops
<1>4. Str!Memcmp(a, b, k) = IF stops = {} THEN 0 ELSE LET j == CHOOSE j \in stops : TRUE
                                                      IN  IF Str!Char(a, j) < Str!Char(b, j) THEN -1 ELSE 1
  BY Zenon DEF Str!Memcmp
<1> HIDE DEF stops
<1> SUFFICES Str!Memcmp(a, b, k) = Str!Order(A, B)
  BY DEF Str!Nul
<1> HIDE DEF A, B
<1>5. CASE Firsts(1, k, X) = {} /\ \A j \in 1..k : j \notin X
  <2>1. \A j \in 1..k : A[j] = B[j]
    <3>1. \A j \in 1..k : j \in Int
      OBVIOUS
    <3> QED BY <1>2, <1>5, <3>1
  <2>2. A = B
    BY <1>2, <2>1, SeqEqual
  <2>3. Str!Order(A, B) = 0
    BY <2>2 DEF Str!Order
  <2> QED BY <1>3, <1>4, <1>5, <2>3
<1>6. ASSUME NEW i \in 1..k, Firsts(1, k, X) = {i}, i \in X, \A j \in 1..(i - 1) : j \notin X
      PROVE  Str!Memcmp(a, b, k) = Str!Order(A, B)
  <2>1. Str!Memcmp(a, b, k) = IF Str!Char(a, i) < Str!Char(b, i) THEN -1 ELSE 1
    <3>1. stops = {i} /\ stops # {} /\ (CHOOSE j \in stops : TRUE) = i
      BY <1>3, <1>6
    <3> QED BY <1>4, <3>1
  <2>2. \A j \in 1..(i - 1) : A[j] = B[j]
    <3>1. \A j \in 1..(i - 1) : j \in Int /\ j \in 1..k
      OBVIOUS
    <3> QED BY <1>2, <1>6, <3>1
  <2>3. i \in 1..(Len(A) + 1) /\ i <= Len(B) + 1 /\ i <= Len(A) /\ i <= Len(B) /\ i \in 1..Len(A) /\ i \in 1..Len(B)
    BY <1>2
  <2>4. A[i] = Str!Char(a, i) /\ B[i] = Str!Char(b, i) /\ A[i] # B[i]
    BY <1>2, <1>6
  <2>5. A[i] \in Int /\ B[i] \in Int
    BY <1>2, <2>3, ElementOfSeq
  <2>6. /\ A[i] < B[i] => Str!Order(A, B) = -1
        /\ A[i] > B[i] => Str!Order(A, B) = 1
    BY <1>2, <2>2, <2>3, OrderOf
  <2>7. A[i] < B[i] \/ (A[i] > B[i] /\ ~(A[i] < B[i]))
    BY <2>4, <2>5
  <2> QED BY <2>1, <2>4, <2>6, <2>7
<1>7. \/ Firsts(1, k, X) = {} /\ \A j \in 1..k : j \notin X
      \/ \E i \in 1..k : Firsts(1, k, X) = {i} /\ i \in X /\ \A j \in 1..(i - 1) : j \notin X
  <2> HIDE DEF X
  <2> QED BY FirstOrNone
<1> QED BY <1>5, <1>6, <1>7

\* The loop over both strings gets to the needle's end where the needle occurs.
LEMMA MatchesIsOccurs ==
  ASSUME NEW a \in Seq(Codes8), NEW b \in Seq(Codes8), NEW h \in 1..Len(a)
  PROVE  Str!MatchesAt(a, b, h) <=> h \in Str!Occurs(a, b)
<1> DEFINE X == {j \in Nat : h + j > Len(a) \/ j = Len(b) \/ a[h + j] # b[j + 1]}
           stop == Str!Stop(0, Len(b), LAMBDA j : h + j > Len(a) \/ j = Len(b) \/ a[h + j] # b[j + 1])
<1>1. /\ Len(a) \in Nat /\ Len(b) \in Nat /\ DOMAIN a = 1..Len(a)
      /\ \A j \in 1..Len(b) : Str!Char(b, j) = b[j] /\ b[j] \in Codes8
      /\ Str!Char(b, Len(b) + 1) = 0
      /\ \A j \in 1..Len(a) : a[j] \in Codes8
  BY CharIs
<1>2. stop = CHOOSE j \in Firsts(0, Len(b), X) : TRUE
  <2>1. Firsts(0, Len(b), X) = {j \in 0..Len(b) : /\ \A k \in 0..(j - 1) : ~(h + k > Len(a) \/ k = Len(b) \/ a[h + k] # b[k + 1])
                                                  /\ h + j > Len(a) \/ j = Len(b) \/ a[h + j] # b[j + 1]}
    <3>1. \A j \in 0..Len(b) : j \in X <=> (h + j > Len(a) \/ j = Len(b) \/ a[h + j] # b[j + 1])
      BY <1>1
    <3>2. \A j \in 0..Len(b) : \A k \in 0..(j - 1) : k \in 0..Len(b)
      BY <1>1
    <3> HIDE DEF X
    <3> QED BY <3>1, <3>2 DEF Firsts
  <2> HIDE DEF X
  <2> QED BY <2>1, Zenon DEF Str!Stop, Str!Stops
<1>3. Str!MatchesAt(a, b, h) <=> Str!Char(b, stop + 1) = 0
  BY Zenon DEF Str!MatchesAt, Str!Nul
<1>4. PICK i \in 0..Len(b) : Firsts(0, Len(b), X) = {i} /\ i \in X /\ \A j \in 0..(i - 1) : j \notin X
  <2>1. Len(b) \in X /\ Len(b) \in 0..Len(b)
    BY <1>1
  <2> HIDE DEF X
  <2> QED BY <1>1, <2>1, FirstOrNone
<1>5. stop = i
  <2> HIDE DEF stop, X
  <2> QED BY <1>2, <1>4
<1> HIDE DEF stop
<1>6. Str!MatchesAt(a, b, h) <=> Str!Char(b, i + 1) = 0
  BY <1>3, <1>5
<1>7. \A j \in 0..(i - 1) : h + j <= Len(a) /\ a[h + j] = b[j + 1]
  <2>1. \A j \in 0..(i - 1) : j \in Nat /\ (h + j <= Len(a) \/ h + j > Len(a))
    BY <1>1
  <2> QED BY <1>4, <2>1
<1> DEFINE e == h + Len(b) - 1
           part == SubSeq(a, h, e)
<1>8. ASSUME e <= Len(a)
      PROVE  part \in Seq(Codes8) /\ Len(part) = Len(b) /\ \A j \in 1..Len(b) : part[j] = a[h + j - 1]
  <2>1. e \in Int /\ h \in Int /\ \A j \in h..e : j \in 1..Len(a)
    BY <1>1, <1>8
  <2>2. \A j \in h..e : a[j] \in Codes8
    BY <1>1, <2>1
  <2>3. e - h + 1 = Len(b) /\ (h <= e <=> Len(b) >= 1)
    BY <1>1
  <2> HIDE DEF e
  <2>4. /\ part \in Seq(Codes8) /\ Len(part) = IF h <= e THEN e - h + 1 ELSE 0
        /\ \A j \in 1..(e - h + 1) : part[j] = a[h + j - 1]
    BY <2>1, <2>2, SubSeqProperties
  <2>5. (IF h <= e THEN e - h + 1 ELSE 0) = Len(b)
    BY <1>1, <2>3
  <2> HIDE DEF part
  <2> QED BY <2>3, <2>4, <2>5
<1>9. h \in Str!Occurs(a, b) <=> e <= Len(a) /\ part = b
  BY <1>1 DEF Str!Occurs
<1>10. CASE i = Len(b)
  <2>1. Str!Char(b, i + 1) = 0
    BY <1>1, <1>10
  <2>2. e <= Len(a)
    <3>1. CASE Len(b) = 0
      BY <1>1, <3>1
    <3>2. CASE Len(b) > 0
      <4>1. Len(b) - 1 \in 0..(i - 1)
        BY <1>1, <1>10, <3>2
      <4>2. PICK j : j = Len(b) - 1
        OBVIOUS
      <4>3. h + j <= Len(a)
        BY <1>7, <4>1, <4>2
      <4> QED BY <1>1, <4>2, <4>3
    <3> QED BY <1>1, <3>1, <3>2
  <2>3. \A j \in 1..Len(b) : part[j] = b[j]
    <3> SUFFICES ASSUME NEW j \in 1..Len(b) PROVE part[j] = b[j]
      OBVIOUS
    <3>1. part[j] = a[h + j - 1]
      BY <1>8, <2>2
    <3>2. PICK k : k = j - 1
      OBVIOUS
    <3>3. k \in 0..(i - 1) /\ k + 1 = j /\ h + k = h + j - 1
      BY <1>1, <1>10, <3>2
    <3>4. a[h + k] = b[k + 1]
      BY <1>7, <3>3
    <3> QED BY <3>1, <3>3, <3>4
  <2>4. part \in Seq(Codes8) /\ Len(part) = Len(b)
    BY <1>8, <2>2
  <2> HIDE DEF part, e
  <2>5. part = b
    BY <2>3, <2>4, SeqEqual
  <2> QED BY <1>6, <1>9, <2>1, <2>2, <2>5
<1>11. CASE i # Len(b)
  <2>1. i + 1 \in 1..Len(b)
    BY <1>1, <1>11
  <2>2. PICK k : k = i + 1
    OBVIOUS
  <2>3. k \in 1..Len(b)
    BY <2>1, <2>2
  <2>4. Str!Char(b, k) = b[k] /\ b[k] \in Codes8
    BY <1>1, <2>3
  <2>5. b[k] # 0
    <3>1. \A c \in Codes8 : c # 0
      BY DEF Codes8
    <3> QED BY <2>4, <3>1
  <2>6. ~Str!MatchesAt(a, b, h)
    BY SMTT(30), <1>6, <2>2, <2>4, <2>5
  <2>7. ~(e <= Len(a) /\ part = b)
    <3> SUFFICES ASSUME e <= Len(a), part = b PROVE FALSE
      BY SMTT(30)
    <3>1. h + i <= Len(a)
      <4>1. \A m, n \in Nat : \A x \in 1..m, y \in 0..n : x + n - 1 <= m /\ y # n => x + y <= m
        OBVIOUS
      <4> QED BY <1>1, <1>11, <4>1
    <3>2. part[k] = a[h + k - 1]
      BY <1>8, <2>3
    <3>3. h + k - 1 = h + i
      BY <1>1, <2>2
    <3>4. a[h + i] = b[i + 1]
      <4> HIDE DEF part, e
      <4> QED BY <2>2, <3>2, <3>3
    <3>5. ~(h + i > Len(a))
      BY <1>1, <3>1
    <3> QED BY <1>4, <1>11, <3>4, <3>5
  <2> QED BY <1>9, <2>6, <2>7
<1> QED BY <1>10, <1>11

\* The number where a loop from 1 on stops is the first position.
LEMMA FirstIs ==
  ASSUME NEW hi \in Nat, NEW X, X \subseteq 1..hi, NEW i \in X, \A j \in 1..(i - 1) : j \notin X
  PROVE  Str!IsFirst(i, X)
<1>1. X # {} /\ i \in 1..hi
  OBVIOUS
<1>2. ASSUME NEW j \in X PROVE i <= j
  <2>1. j \in 1..hi
    OBVIOUS
  <2>2. ~(j \in 1..(i - 1))
    OBVIOUS
  <2> QED BY <1>1, <2>1, <2>2
<1> QED BY <1>1, <1>2 DEF Str!IsFirst

\* strstr and stristr find the first occurrence.
LEMMA StrstrIs ==
  ASSUME NEW a \in Seq(Codes8), NEW b \in Seq(Codes8)
  PROVE  Str!IsFirst(Str!Strstr(a, b), Str!Occurs(a, b))
<1> DEFINE X == Str!Occurs(a, b)
           stop == Str!Stop(1, Len(a), LAMBDA h : Str!MatchesAt(a, b, h))
<1>1. Len(a) \in Nat /\ Len(b) \in Nat /\ DOMAIN a = 1..Len(a)
  BY LenProperties
<1>2. X \subseteq 1..Len(a) /\ \A h \in X : h + Len(b) - 1 <= Len(a)
  BY <1>1 DEF Str!Occurs
<1>3. \A h \in 1..Len(a) : Str!MatchesAt(a, b, h) <=> h \in X
  <2> HIDE DEF X
  <2> SUFFICES ASSUME NEW h \in 1..Len(a) PROVE Str!MatchesAt(a, b, h) <=> h \in Str!Occurs(a, b)
    BY DEF X
  <2> QED BY MatchesIsOccurs
<1> HIDE DEF X
<1>4. stop = CHOOSE h \in Firsts(1, Len(a), X) : TRUE
  <2>1. Firsts(1, Len(a), X) = {h \in 1..Len(a) : (\A j \in 1..(h - 1) : ~Str!MatchesAt(a, b, j)) /\ Str!MatchesAt(a, b, h)}
    <3>1. \A h \in 1..Len(a) : \A j \in 1..(h - 1) : j \in 1..Len(a)
      BY <1>1
    <3> QED BY <1>3, <3>1 DEF Firsts
  <2> QED BY <2>1, Zenon DEF Str!Stop, Str!Stops
<1>5. Str!Strstr(a, b) = IF Len(b) <= Len(a) /\ \E h \in DOMAIN a : Str!MatchesAt(a, b, h) THEN stop ELSE Str!NoPosition
  BY Zenon DEF Str!Strstr
<1> HIDE DEF stop
<1>6. CASE X = {}
  <2>1. Str!Strstr(a, b) = Str!NoPosition
    BY <1>1, <1>3, <1>5, <1>6
  <2> QED BY <1>6, <2>1 DEF X, Str!IsFirst
<1>7. CASE X # {}
  <2>1. PICK h \in X : TRUE
    BY <1>7
  <2>2. h \in 1..Len(a) /\ Len(b) <= Len(a)
    BY <1>1, <1>2, <2>1
  <2>3. Str!Strstr(a, b) = stop
    BY <1>1, <1>3, <1>5, <2>1, <2>2
  <2>4. PICK i \in 1..Len(a) : Firsts(1, Len(a), X) = {i} /\ i \in X /\ \A j \in 1..(i - 1) : j \notin X
    BY <1>1, <2>1, <2>2, FirstOrNone
  <2>5. stop = i
    BY <1>4, <2>4
  <2>6. Str!IsFirst(i, X)
    BY <1>1, <1>2, <2>4, FirstIs
  <2> QED BY <2>3, <2>5, <2>6 DEF X
<1> QED BY <1>6, <1>7

LEMMA StristrIs ==
  ASSUME NEW a \in Seq(Codes8), NEW b \in Seq(Codes8)
  PROVE  Str!IsFirst(Str!Stristr(a, b), Str!Occurs(Str!Folded(a), Str!Folded(b)))
<1>1. Str!Folded(a) \in Seq(Codes8) /\ Str!Folded(b) \in Seq(Codes8)
  BY FoldedIs
<1> QED BY <1>1, StrstrIs DEF Str!Stristr

\* strchr and strrchr find the first and the last of a character.
LEMMA StrchrIs ==
  ASSUME NEW a \in Seq(Codes8), NEW c
  PROVE  Str!IsFirst(Str!Strchr(a, c), {i \in DOMAIN a : a[i] = c})
<1> DEFINE X == {i \in DOMAIN a : a[i] = c}
           stop == Str!Stop(1, Len(a), LAMBDA i : a[i] = c)
<1>1. Len(a) \in Nat /\ DOMAIN a = 1..Len(a)
  BY LenProperties
<1>2. stop = CHOOSE h \in Firsts(1, Len(a), X) : TRUE
  <2>1. Firsts(1, Len(a), X) = {h \in 1..Len(a) : (\A j \in 1..(h - 1) : ~(a[j] = c)) /\ a[h] = c}
    <3>1. \A h \in 1..Len(a) : \A j \in 1..(h - 1) : j \in 1..Len(a)
      BY <1>1
    <3> QED BY <1>1, <3>1 DEF Firsts
  <2> HIDE DEF X
  <2> QED BY <2>1, Zenon DEF Str!Stop, Str!Stops
<1>3. Str!Strchr(a, c) = IF \E i \in DOMAIN a : a[i] = c THEN stop ELSE Str!NoPosition
  BY Zenon DEF Str!Strchr
<1>4. X \subseteq 1..Len(a) /\ (X # {} <=> \E i \in DOMAIN a : a[i] = c)
  BY <1>1
<1> HIDE DEF stop, X
<1>5. CASE X = {}
  BY <1>3, <1>4, <1>5 DEF X, Str!IsFirst
<1>6. CASE X # {}
  <2>1. PICK i \in 1..Len(a) : Firsts(1, Len(a), X) = {i} /\ i \in X /\ \A j \in 1..(i - 1) : j \notin X
    BY <1>1, <1>4, <1>6, FirstOrNone
  <2>2. Str!IsFirst(i, X)
    BY <1>1, <1>4, <2>1, FirstIs
  <2>3. Str!Strchr(a, c) = i
    BY <1>2, <1>3, <1>4, <1>6, <2>1
  <2> QED BY <2>2, <2>3 DEF X
<1> QED BY <1>5, <1>6

\* Numbers up to a bound have a greatest one.
LEMMA GreatestNumber ==
  ASSUME NEW hi \in Nat, NEW X, X \subseteq 0..hi, X # {}
  PROVE  \E i \in X : \A j \in X : j <= i
<1> DEFINE Y == {k \in 0..hi : hi - k \in X}
<1>1. Y \subseteq Nat
  OBVIOUS
<1>2. Y # {}
  <2>1. PICK j \in X : TRUE
    OBVIOUS
  <2>2. hi - j \in 0..hi /\ hi - (hi - j) = j
    OBVIOUS
  <2> QED BY <2>2
<1>3. PICK k \in Y : \A j \in Y : k <= j
  <2> HIDE DEF Y
  <2> QED BY <1>1, <1>2, LeastNatural
<1>4. hi - k \in X
  BY <1>3
<1>5. ASSUME NEW j \in X PROVE j <= hi - k
  <2>1. hi - j \in 0..hi /\ hi - (hi - j) = j
    OBVIOUS
  <2>2. hi - j \in Y
    BY <2>1
  <2>3. k <= hi - j
    BY <1>3, <2>2
  <2> QED BY <2>3
<1> QED BY <1>4, <1>5

LEMMA StrrchrIs ==
  ASSUME NEW a \in Seq(Codes8), NEW c \in Codes8
  PROVE  Str!IsLast(Str!Strrchr(a, c), {i \in DOMAIN a : a[i] = c})
<1> DEFINE X == {i \in DOMAIN a : a[i] = c}
           Y == {i \in 1..(Len(a) + 1) : Str!Char(a, i) = c}
<1>1. /\ Len(a) \in Nat /\ DOMAIN a = 1..Len(a)
      /\ \A j \in 1..Len(a) : Str!Char(a, j) = a[j]
      /\ Str!Char(a, Len(a) + 1) = 0
  BY CharIs
<1>2. c # 0
  BY DEF Codes8
<1>3. X = Y
  <2>1. \A i \in 1..(Len(a) + 1) : i \in 1..Len(a) \/ i = Len(a) + 1
    BY <1>1
  <2>2. \A i \in 1..Len(a) : i \in 1..(Len(a) + 1)
    BY <1>1
  <2> QED BY <1>1, <1>2, <2>1, <2>2
<1>4. Str!Strrchr(a, c) = IF Y = {} THEN Str!NoPosition ELSE CHOOSE i \in Y : \A j \in Y : j <= i
  BY Zenon DEF Str!Strrchr
<1>5. X \subseteq 0..Len(a)
  BY <1>1
<1> HIDE DEF X, Y
<1>6. CASE X = {}
  BY <1>3, <1>4, <1>6 DEF X, Str!IsLast
<1>7. CASE X # {}
  <2>1. \E i \in X : \A j \in X : j <= i
    BY <1>1, <1>5, <1>7, GreatestNumber
  <2>2. Str!Strrchr(a, c) = CHOOSE i \in X : \A j \in X : j <= i
    BY <1>3, <1>4, <1>7
  <2>3. Str!Strrchr(a, c) \in X /\ \A j \in X : j <= Str!Strrchr(a, c)
    BY <2>1, <2>2
  <2>4. \A j \in X : Str!Strrchr(a, c) >= j
    <3>1. \A i, j \in 0..Len(a) : j <= i => i >= j
      BY <1>1
    <3> QED BY <1>5, <2>3, <3>1
  <2> QED BY <1>7, <2>3, <2>4 DEF X, Str!IsLast
<1> QED BY <1>6, <1>7

\* strlcat joins what there is space for, and tells the length of the whole.
LEMMA StrlcatIs ==
  ASSUME NEW a \in Seq(Codes8), NEW b \in Seq(Codes8), NEW k \in Nat, Len(a) <= k
  PROVE  /\ Str!Strlcat(a, b, k)[2] = Len(a) + Len(b)
         /\ Str!Strlcat(a, b, k)[1] = IF Len(a) = k THEN a ELSE Str!UpTo(a \o b, k - 1)
<1>1. Len(a) \in Nat /\ Len(b) \in Nat /\ a \o b \in Seq(Codes8) /\ Len(a \o b) = Len(a) + Len(b)
  BY ConcatProperties, LenProperties
<1>2. CASE Len(a) = k
  <2>1. Str!Strnlen(a, k) = k
    BY <1>1, <1>2 DEF Str!Strnlen
  <2>2. Str!Strlcat(a, b, k) = <<a, k + Len(b)>>
    BY <2>1 DEF Str!Strlcat
  <2> QED BY <1>2, <2>2
<1>3. CASE Len(a) # k
  <2>1. Str!Strnlen(a, k) = Len(a) /\ Len(a) < k /\ k - 1 \in Nat
    BY <1>1, <1>3 DEF Str!Strnlen
  <2> DEFINE rest == IF Len(b) < k - Len(a) THEN b ELSE SubSeq(b, 1, k - Len(a) - 1)
  <2>2. Str!Strlcat(a, b, k) = <<a \o rest, Len(a) + Len(b)>>
    BY <1>3, <2>1 DEF Str!Strlcat
  <2>3. a \o rest = Str!UpTo(a \o b, k - 1)
    <3>1. CASE Len(b) < k - Len(a)
      <4>1. k - 1 >= Len(a \o b)
        BY <1>1, <2>1, <3>1
      <4>2. Str!UpTo(a \o b, k - 1) = a \o b
        BY <1>1, <2>1, <4>1, UpToIs
      <4> QED BY <3>1, <4>2
    <3>2. CASE ~(Len(b) < k - Len(a))
      <4>1. PICK m : m = k - Len(a) - 1
        OBVIOUS
      <4>2. m \in 0..Len(b) /\ Len(a) + m = k - 1 /\ m \in Nat
        BY <1>1, <2>1, <3>2, <4>1
      <4>3. PICK rear : rear = SubSeq(b, 1, m)
        OBVIOUS
      <4>4. rear \in Seq(Codes8) /\ Len(rear) = m /\ \A i \in 1..m : rear[i] = b[i]
        BY <4>2, <4>3, Front
      <4>5. rest = rear
        BY <3>2, <4>1, <4>3
      <4>6. PICK both : both = a \o b
        OBVIOUS
      <4>7. PICK front : front = Str!UpTo(both, k - 1)
        OBVIOUS
      <4>8. /\ both \in Seq(Codes8) /\ Len(both) = Len(a) + Len(b)
            /\ \A i \in 1..Len(a) : both[i] = a[i]
            /\ \A i \in 1..Len(b) : both[Len(a) + i] = b[i]
        BY <4>6, Joint
      <4>9. (IF Len(both) < k - 1 THEN Len(both) ELSE k - 1) = k - 1
        BY <1>1, <2>1, <3>2, <4>8
      <4>10. front \in Seq(Codes8) /\ Len(front) = k - 1 /\ \A i \in 1..(k - 1) : front[i] = both[i]
        BY <2>1, <4>7, <4>8, <4>9, UpToIs
      <4>11. PICK short : short = a \o rear
        OBVIOUS
      <4>12. /\ short \in Seq(Codes8) /\ Len(short) = Len(a) + m
             /\ \A i \in 1..Len(a) : short[i] = a[i]
             /\ \A i \in 1..m : short[Len(a) + i] = rear[i]
        <5>0. rear \in Seq(Codes8)
          BY <4>4
        <5>1. /\ a \o rear \in Seq(Codes8) /\ Len(a \o rear) = Len(a) + Len(rear)
              /\ \A i \in 1..Len(a) : (a \o rear)[i] = a[i]
              /\ \A i \in 1..Len(rear) : (a \o rear)[Len(a) + i] = rear[i]
          BY <5>0, Joint
        <5> QED BY <4>4, <4>11, <5>1
      <4>13. \A i \in 1..(k - 1) : short[i] = front[i]
        <5> SUFFICES ASSUME NEW i \in 1..(k - 1) PROVE short[i] = both[i]
          BY <4>10
        <5>1. CASE i <= Len(a)
          <6>1. i \in 1..Len(a)
            BY <1>1, <5>1
          <6> QED BY <4>8, <4>12, <6>1
        <5>2. CASE ~(i <= Len(a))
          <6>1. PICK j : j = i - Len(a)
            OBVIOUS
          <6>2. j \in 1..m /\ j \in 1..Len(b) /\ Len(a) + j = i
            BY <1>1, <4>2, <5>2, <6>1
          <6>3. short[Len(a) + j] = rear[j] /\ both[Len(a) + j] = b[j] /\ rear[j] = b[j]
            BY <4>4, <4>8, <4>12, <6>2
          <6> QED BY <6>2, <6>3
        <5> QED BY <5>1, <5>2
      <4>14. Len(short) = Len(front) /\ \A i \in 1..Len(short) : short[i] = front[i]
        BY <4>2, <4>10, <4>12, <4>13
      <4>15. short = front
        BY <4>10, <4>12, <4>14, SeqEqual
      <4> QED BY <4>5, <4>6, <4>7, <4>11, <4>15
    <3> QED BY <3>1, <3>2
  <2> HIDE DEF rest
  <2> QED BY <1>3, <2>2, <2>3
<1> QED BY <1>2, <1>3

\* f is what strrev's loop has made of a before its counter gets to i.
Swaps(f, a) ==
  f = [i \in 1..(Len(a) + 1) |->
         IF i = 1 THEN a
         ELSE LET j == Len(a) - (i - 1) + 1
              IN  IF i - 1 < j THEN [f[i - 1] EXCEPT ![i - 1] = f[i - 1][j], ![j] = f[i - 1][i - 1]]
                  ELSE f[i - 1]]

\* One swap.
Swapped(w, p, j) == IF p < j THEN [w EXCEPT ![p] = w[j], ![j] = w[p]] ELSE w

LEMMA SwapIs ==
  ASSUME NEW n \in Nat, NEW S, NEW w \in [1..n -> S], NEW p \in 1..n, NEW j \in 1..n
  PROVE  /\ Swapped(w, p, j) \in [1..n -> S]
         /\ p < j => /\ Swapped(w, p, j)[p] = w[j] /\ Swapped(w, p, j)[j] = w[p]
                     /\ \A x \in 1..n : x # p /\ x # j => Swapped(w, p, j)[x] = w[x]
         /\ ~(p < j) => Swapped(w, p, j) = w
BY DEF Swapped

LEMMA SwapsExist ==
  ASSUME NEW a \in Seq(Codes8)
  PROVE  \E f : Swaps(f, a)
<1> DEFINE n == Len(a)
           S == [1..n -> Codes8]
           step == [p \in S \X (1..n) |-> Swapped(p[1], p[2], n - p[2] + 1)]
<1>1. n \in Nat /\ a \in S
  BY LenProperties
<1> HIDE DEF n
<1>2. \A w \in S : \A p \in 1..n : Swapped(w, p, n - p + 1) \in S
  <2> SUFFICES ASSUME NEW w \in S, NEW p \in 1..n PROVE Swapped(w, p, n - p + 1) \in S
    OBVIOUS
  <2>1. PICK j : j = n - p + 1
    OBVIOUS
  <2>2. j \in 1..n
    BY <1>1, <2>1
  <2>3. Swapped(w, p, j) \in S
    BY <1>1, <2>2, SwapIs
  <2> QED BY <2>1, <2>3
<1> HIDE DEF S
<1>3. step \in [S \X (1..n) -> S]
  <2>1. \A p \in S \X (1..n) : p[1] \in S /\ p[2] \in 1..n
    OBVIOUS
  <2> QED BY <1>2, <2>1
<1>4. \A w \in S : \A p \in 1..n : step[<<w, p>>] = Swapped(w, p, n - p + 1)
  <2> SUFFICES ASSUME NEW w \in S, NEW p \in 1..n PROVE step[<<w, p>>] = Swapped(w, p, n - p + 1)
    OBVIOUS
  <2>1. <<w, p>> \in S \X (1..n)
    OBVIOUS
  <2> QED BY <2>1
<1> HIDE DEF step
<1>5. PICK g : Loops(g, S, a, n, step)
  BY <1>1, <1>3, Loop
<1>6. g \in [0..n -> S] /\ g[0] = a /\ \A k \in 1..n : g[k] = step[<<g[k - 1], k>>]
  BY <1>5 DEF Loops
<1>7. \A k \in 1..n : g[k] = Swapped(g[k - 1], k, n - k + 1)
  <2>1. \A k \in 1..n : k - 1 \in 0..n
    BY <1>1
  <2> QED BY <1>4, <1>6, <2>1
<1> DEFINE f == [i \in 1..(n + 1) |-> g[i - 1]]
<1>8. ASSUME NEW i \in 1..(n + 1)
      PROVE  f[i] = IF i = 1 THEN a ELSE Swapped(f[i - 1], i - 1, n - (i - 1) + 1)
  <2>1. CASE i = 1
    BY <1>6, <2>1
  <2>2. CASE i # 1
    <3>1. i - 1 \in 1..n /\ i - 1 \in 1..(n + 1)
      BY <1>1, <2>2
    <3>2. f[i - 1] = g[(i - 1) - 1] /\ f[i] = g[i - 1]
      BY <3>1
    <3> HIDE DEF f
    <3> QED BY <1>7, <2>2, <3>1, <3>2
  <2> QED BY <2>1, <2>2
<1>9. f = [i \in 1..(n + 1) |-> f[i]]
  OBVIOUS
<1> HIDE DEF f
<1>10. f = [i \in 1..(n + 1) |-> IF i = 1 THEN a ELSE Swapped(f[i - 1], i - 1, n - (i - 1) + 1)]
  BY <1>8, <1>9
<1>11. Swaps(f, a)
  BY <1>10, Zenon DEF Swaps, Swapped, n
<1> QED BY <1>11

\* What the swaps have made of a string.
LEMMA SwapsTurn ==
  ASSUME NEW a \in Seq(Codes8), NEW f, Swaps(f, a)
  PROVE  f[Len(a) + 1] = Str!Reverse(a)
<1> DEFINE n == Len(a)
           Half(i) == [x \in 1..n |-> IF x < i \/ x > n - i + 1 THEN a[n - x + 1] ELSE a[x]]
           T == {i \in 1..(n + 1) : f[i] = Half(i)}
<1>1. n \in Nat /\ a \in [1..n -> Codes8] /\ a = [x \in 1..n |-> a[x]]
  BY LenProperties
<1>2. f = [i \in 1..(n + 1) |-> IF i = 1 THEN a ELSE Swapped(f[i - 1], i - 1, n - (i - 1) + 1)]
  BY Zenon DEF Swaps, Swapped
<1> HIDE DEF n
<1>3. \A i \in 1..(n + 1) : f[i] = IF i = 1 THEN a ELSE Swapped(f[i - 1], i - 1, n - (i - 1) + 1)
  BY <1>2
<1>4. 1 \in T
  <2>1. 1 \in 1..(n + 1) /\ \A x \in 1..n : ~(x < 1 \/ x > n - 1 + 1)
    BY <1>1
  <2>2. f[1] = a
    BY <1>3, <2>1
  <2>3. a = Half(1)
    BY <1>1, <2>1
  <2> QED BY <2>1, <2>2, <2>3
<1>5. ASSUME NEW i \in 2..(n + 1), i - 1 \in T PROVE i \in T
  <2>1. PICK p, j : p = i - 1 /\ j = n - (i - 1) + 1
    OBVIOUS
  <2>2. i \in 1..(n + 1) /\ i # 1 /\ p \in 1..n /\ j \in 1..n /\ p + j = n + 1 /\ i = p + 1
    BY <1>1, <2>1
  <2>3. f[i] = Swapped(f[p], p, j)
    BY <1>3, <2>1, <2>2
  <2>4. PICK w : w = f[p]
    OBVIOUS
  <2>5. w = Half(p)
    BY <1>5, <2>1, <2>4
  <2>6. \A x \in 1..n : n - x + 1 \in 1..n
    BY <1>1
  <2>7. w \in [1..n -> Codes8]
    BY <1>1, <2>5, <2>6
  <2>8. \A x \in 1..n : w[x] = IF x < p \/ x > j THEN a[n - x + 1] ELSE a[x]
    <3>1. n - p + 1 = j
      BY <1>1, <2>1, <2>2
    <3> QED BY <2>5, <3>1
  <2>9. ASSUME NEW x \in 1..n
        PROVE  Swapped(w, p, j)[x] = IF x < i \/ x > n - i + 1 THEN a[n - x + 1] ELSE a[x]
    <3>1. (x < i <=> x < p \/ x = p) /\ (x > n - i + 1 <=> x > j \/ x = j)
      BY <1>1, <2>1, <2>2
    <3>2. n - p + 1 = j /\ n - j + 1 = p
      BY <1>1, <2>1, <2>2
    <3>3. CASE p < j
      <4>1. Swapped(w, p, j)[p] = w[j] /\ Swapped(w, p, j)[j] = w[p]
        BY <2>2, <2>7, <3>3 DEF Swapped
      <4>2. x # p /\ x # j => Swapped(w, p, j)[x] = w[x]
        BY <2>2, <2>7, <3>3 DEF Swapped
      <4>3. w[p] = a[p] /\ w[j] = a[j]
        <5>1. ~(p < p \/ p > j) /\ ~(j < p \/ j > j)
          BY <2>2, <3>3
        <5> QED BY <2>2, <2>8, <5>1
      <4>4. CASE x = p
        BY <3>1, <3>2, <4>1, <4>3, <4>4
      <4>5. CASE x = j
        BY <3>1, <3>2, <4>1, <4>3, <4>5
      <4>6. CASE x # p /\ x # j
        BY <2>8, <3>1, <4>2, <4>6
      <4> QED BY <4>4, <4>5, <4>6
    <3>4. CASE ~(p < j)
      <4>1. Swapped(w, p, j) = w
        BY <3>4 DEF Swapped
      <4>2. CASE x = p /\ x = j
        <5>1. ~(x < p \/ x > j)
          BY <2>2, <4>2
        <5> QED BY <2>8, <3>1, <3>2, <4>1, <4>2, <5>1
      <4>3. CASE ~(x = p /\ x = j)
        <5>1. x < p \/ x > j
          BY <2>2, <3>4, <4>3
        <5> QED BY <2>8, <3>1, <4>1, <5>1
      <4> QED BY <4>2, <4>3
    <3> QED BY <3>3, <3>4
  <2>10. Swapped(w, p, j) \in [1..n -> Codes8]
    BY <1>1, <2>2, <2>7, SwapIs
  <2>11. f[i] \in [1..n -> Codes8] /\ \A x \in 1..n : f[i][x] = Half(i)[x]
    BY <2>3, <2>4, <2>9, <2>10
  <2>12. f[i] = Half(i)
    BY <2>11
  <2> QED BY <2>2, <2>12
<1>6. n + 1 \in T
  <2> HIDE DEF T
  <2>1. 1 \in Nat /\ n + 1 \in Nat /\ n + 1 \in 1..(n + 1) /\ 1 + 1 = 2
    BY <1>1
  <2>2. \A i \in 1..(n + 1) : i \in T
    BY <1>4, <1>5, <2>1, StepByStep
  <2> QED BY <2>1, <2>2
<1>7. f[n + 1] = Half(n + 1)
  BY <1>6
<1>8. Half(n + 1) = [x \in 1..n |-> a[(n - x) + 1]]
  <2>1. \A x \in 1..n : x < n + 1
    BY <1>1
  <2> QED BY <2>1
<1> QED BY <1>7, <1>8 DEF n, Str!Reverse

\* strrev turns a string.
LEMMA StrrevIs ==
  ASSUME NEW a \in Seq(Codes8)
  PROVE  Str!Strrev(a) = Str!Reverse(a)
<1>1. Str!Strrev(a) = (CHOOSE f : Swaps(f, a))[Len(a) + 1]
  BY Zenon DEF Str!Strrev, Swaps
<1>2. \E f : Swaps(f, a)
  BY SwapsExist
<1>3. Swaps(CHOOSE f : Swaps(f, a), a)
  BY <1>2
<1> QED BY <1>1, <1>3, SwapsTurn

\* Where a needle occurs, place by place.
LEMMA OccursIs ==
  ASSUME NEW a \in Seq(Codes8), NEW b \in Seq(Codes8), NEW h \in 1..Len(a)
  PROVE  h \in Str!Occurs(a, b)
           <=> h + Len(b) - 1 <= Len(a) /\ \A j \in 1..Len(b) : a[h + j - 1] = b[j]
<1>1. /\ Len(a) \in Nat /\ Len(b) \in Nat /\ DOMAIN a = 1..Len(a)
      /\ \A j \in 1..Len(a) : a[j] \in Codes8
  BY CharIs
<1> DEFINE e == h + Len(b) - 1
           part == SubSeq(a, h, e)
<1>2. ASSUME e <= Len(a)
      PROVE  part \in Seq(Codes8) /\ Len(part) = Len(b) /\ \A j \in 1..Len(b) : part[j] = a[h + j - 1]
  <2>1. e \in Int /\ h \in Int /\ \A j \in h..e : j \in 1..Len(a)
    BY <1>1, <1>2
  <2>2. \A j \in h..e : a[j] \in Codes8
    BY <1>1, <2>1
  <2>3. e - h + 1 = Len(b) /\ (h <= e <=> Len(b) >= 1)
    BY <1>1
  <2> HIDE DEF e
  <2>4. /\ part \in Seq(Codes8) /\ Len(part) = IF h <= e THEN e - h + 1 ELSE 0
        /\ \A j \in 1..(e - h + 1) : part[j] = a[h + j - 1]
    BY <2>1, <2>2, SubSeqProperties
  <2>5. (IF h <= e THEN e - h + 1 ELSE 0) = Len(b)
    BY <1>1, <2>3
  <2> HIDE DEF part
  <2> QED BY <2>3, <2>4, <2>5
<1>3. h \in Str!Occurs(a, b) <=> e <= Len(a) /\ part = b
  BY <1>1 DEF Str!Occurs
<1>4. ASSUME e <= Len(a)
      PROVE  part = b <=> \A j \in 1..Len(b) : a[h + j - 1] = b[j]
  <2>1. /\ part \in Seq(Codes8) /\ Len(part) = Len(b)
        /\ \A j \in 1..Len(b) : part[j] = a[h + j - 1]
    BY <1>2, <1>4
  <2> HIDE DEF part, e
  <2>2. ASSUME part = b PROVE \A j \in 1..Len(b) : a[h + j - 1] = b[j]
    BY <2>1, <2>2
  <2>3. ASSUME \A j \in 1..Len(b) : a[h + j - 1] = b[j] PROVE part = b
    <3>1. \A j \in 1..Len(part) : part[j] = b[j]
      BY <2>1, <2>3
    <3> QED BY <2>1, <3>1, SeqEqual
  <2> QED BY <2>2, <2>3
<1> QED BY <1>3, <1>4

\* A string without its first characters.
LEMMA FromIs ==
  ASSUME NEW a \in Seq(Codes8), NEW k \in 0..Len(a)
  PROVE  /\ Str!From(a, k) \in Seq(Codes8) /\ Len(Str!From(a, k)) = Len(a) - k
         /\ \A j \in 1..(Len(a) - k) : Str!From(a, k)[j] = a[k + j]
<1>1. Len(a) \in Nat /\ \A j \in 1..Len(a) : a[j] \in Codes8
  BY CharIs
<1>2. PICK m : m = k + 1
  OBVIOUS
<1>3. m \in Int /\ Len(a) \in Int /\ \A j \in m..Len(a) : j \in 1..Len(a)
  BY <1>1, <1>2
<1>4. \A j \in m..Len(a) : a[j] \in Codes8
  BY <1>1, <1>3
<1>5. /\ SubSeq(a, m, Len(a)) \in Seq(Codes8)
      /\ Len(SubSeq(a, m, Len(a))) = IF m <= Len(a) THEN Len(a) - m + 1 ELSE 0
      /\ \A j \in 1..(Len(a) - m + 1) : SubSeq(a, m, Len(a))[j] = a[m + j - 1]
  BY <1>3, <1>4, SubSeqProperties
<1>6. (IF m <= Len(a) THEN Len(a) - m + 1 ELSE 0) = Len(a) - k /\ Len(a) - m + 1 = Len(a) - k
  BY <1>1, <1>2
<1>7. \A j \in 1..(Len(a) - k) : m + j - 1 = k + j
  BY <1>1, <1>2
<1>8. Str!From(a, k) = SubSeq(a, m, Len(a))
  BY <1>2 DEF Str!From
<1> QED BY <1>5, <1>6, <1>7, <1>8

\* What occurs behind a place occurs in the string without the characters before it.
LEMMA OccursBehind ==
  ASSUME NEW a \in Seq(Codes8), NEW b \in Seq(Codes8), NEW k \in 0..Len(a), NEW h \in 1..(Len(a) - k)
  PROVE  h \in Str!Occurs(Str!From(a, k), b) <=> k + h \in Str!Occurs(a, b)
<1> DEFINE r == Str!From(a, k)
<1>1. r \in Seq(Codes8) /\ Len(r) = Len(a) - k /\ \A j \in 1..(Len(a) - k) : r[j] = a[k + j]
  BY FromIs
<1> HIDE DEF r
<1>2. Len(a) \in Nat /\ Len(b) \in Nat
  BY LenProperties
<1>3. PICK m : m = k + h
  OBVIOUS
<1>4. m \in 1..Len(a) /\ h \in 1..Len(r)
  BY <1>1, <1>2, <1>3
<1>5. h \in Str!Occurs(r, b) <=> h + Len(b) - 1 <= Len(r) /\ \A j \in 1..Len(b) : r[h + j - 1] = b[j]
  BY <1>1, <1>4, OccursIs
<1>6. m \in Str!Occurs(a, b) <=> m + Len(b) - 1 <= Len(a) /\ \A j \in 1..Len(b) : a[m + j - 1] = b[j]
  BY <1>4, OccursIs
<1>7. h + Len(b) - 1 <= Len(r) <=> m + Len(b) - 1 <= Len(a)
  BY <1>1, <1>2, <1>3
<1>8. ASSUME h + Len(b) - 1 <= Len(r), NEW j \in 1..Len(b) PROVE r[h + j - 1] = a[m + j - 1]
  <2>1. PICK i : i = h + j - 1
    OBVIOUS
  <2>2. i \in 1..(Len(a) - k) /\ k + i = m + j - 1
    BY <1>1, <1>2, <1>3, <1>8, <2>1
  <2>3. r[i] = a[k + i]
    BY <1>1, <2>2
  <2> QED BY <2>1, <2>2, <2>3
<1> QED BY <1>3, <1>5, <1>6, <1>7, <1>8 DEF r

\* The first position in what is left of a string is the first behind a place in the whole.
LEMMA FoundIs ==
  ASSUME NEW k \in Nat, NEW X, X \subseteq Nat, NEW Y, Y \subseteq Nat \ {0},
         \A h \in Nat \ {0} : h \in Y <=> k + h \in X,
         NEW hit, Str!IsFirst(hit, Y)
  PROVE  Str!IsFirst(Str!Found(hit, k), Str!Behind(X, k))
<1>1. ASSUME NEW x \in Str!Behind(X, k) PROVE x \in X /\ x - k \in Y /\ x \in Nat /\ x > k
  <2>1. x \in X /\ x \in Nat /\ x > k
    BY DEF Str!Behind
  <2>2. PICK h : h = x - k
    OBVIOUS
  <2>3. h \in Nat \ {0} /\ k + h = x
    BY <2>1, <2>2
  <2> QED BY <2>1, <2>2, <2>3
<1>2. CASE Y = {}
  <2>1. Str!Behind(X, k) = {}
    BY <1>1, <1>2
  <2>2. hit = Str!NoPosition
    BY <1>2 DEF Str!IsFirst
  <2> QED BY <2>1, <2>2 DEF Str!IsFirst, Str!Found
<1>3. CASE Y # {}
  <2>1. hit \in Y /\ \A y \in Y : hit <= y
    BY <1>3 DEF Str!IsFirst
  <2>2. hit \in Nat /\ hit # 0 /\ k + hit \in X /\ k + hit > k
    <3>1. hit \in Nat \ {0}
      BY <2>1
    <3>2. k + hit \in X
      BY <2>1, <3>1
    <3> QED BY <3>1, <3>2
  <2>3. Str!Found(hit, k) = k + hit
    BY <2>2 DEF Str!Found, Str!NoPosition
  <2>4. k + hit \in Str!Behind(X, k)
    BY <2>2 DEF Str!Behind
  <2>5. ASSUME NEW x \in Str!Behind(X, k) PROVE k + hit <= x
    <3>1. hit <= x - k /\ x \in Nat
      BY <1>1, <2>1
    <3> QED BY <2>2, <3>1
  <2>6. Str!Behind(X, k) # {}
    BY <2>4
  <2> QED BY <2>3, <2>4, <2>5, <2>6 DEF Str!IsFirst
<1> QED BY <1>2, <1>3

\* The queries of ec::string find the first one from a position on.
LEMMA FindIs ==
  ASSUME NEW a \in Seq(Codes8), NEW b \in Seq(Codes8), NEW k \in Nat
  PROVE  Str!IsFirst(Str!Find(a, b, k), Str!Behind(Str!Occurs(a, b), k))
<1>1. Len(a) \in Nat /\ Len(b) \in Nat /\ DOMAIN a = 1..Len(a)
  BY LenProperties
<1>2. \A h \in Str!Occurs(a, b) : h \in 1..Len(a) /\ h + Len(b) - 1 <= Len(a)
  BY <1>1 DEF Str!Occurs
<1>3. CASE k >= Len(a) \/ Len(b) > Len(a)
  <2>1. Str!Find(a, b, k) = Str!NoPosition
    BY <1>3 DEF Str!Find
  <2>2. \A h \in Str!Behind(Str!Occurs(a, b), k) : FALSE
    <3> SUFFICES ASSUME NEW h \in Str!Occurs(a, b), h > k PROVE FALSE
      BY DEF Str!Behind
    <3>1. h \in 1..Len(a) /\ h + Len(b) - 1 <= Len(a)
      BY <1>2
    <3> QED BY <1>1, <1>3, <3>1
  <2>3. Str!Behind(Str!Occurs(a, b), k) = {}
    BY <2>2
  <2> QED BY <2>1, <2>3 DEF Str!IsFirst
<1>4. CASE ~(k >= Len(a) \/ Len(b) > Len(a))
  <2>1. k \in 0..Len(a)
    BY <1>1, <1>4
  <2> DEFINE r == Str!From(a, k)
             X == Str!Occurs(a, b)
             Y == Str!Occurs(r, b)
  <2>2. Str!Find(a, b, k) = Str!Found(Str!Strstr(r, b), k)
    BY <1>4 DEF Str!Find
  <2>3. r \in Seq(Codes8) /\ Len(r) = Len(a) - k
    BY <2>1, FromIs
  <2>4. Str!IsFirst(Str!Strstr(r, b), Y)
    <3> HIDE DEF r
    <3> QED BY <2>3, StrstrIs
  <2>5. DOMAIN r = 1..(Len(a) - k)
    <3> HIDE DEF r
    <3> QED BY <2>3, LenProperties
  <2>6. \A h \in Y : h \in 1..(Len(a) - k)
    <3> HIDE DEF r
    <3> QED BY <2>5 DEF Str!Occurs
  <2>7. Y \subseteq Nat \ {0}
    <3> HIDE DEF Y
    <3> QED BY <1>1, <2>6
  <2>8. X \subseteq Nat
    <3> HIDE DEF X
    <3> SUFFICES ASSUME NEW h \in X PROVE h \in Nat
      OBVIOUS
    <3>1. h \in 1..Len(a)
      BY <1>2 DEF X
    <3> QED BY <3>1
  <2>9. ASSUME NEW h \in Nat \ {0} PROVE h \in Y <=> k + h \in X
    <3>1. CASE h \in 1..(Len(a) - k)
      BY <2>1, <3>1, OccursBehind
    <3>2. CASE h \notin 1..(Len(a) - k)
      <4>1. ~(k + h \in 1..Len(a))
        BY <1>1, <3>2
      <4> HIDE DEF Y
      <4> QED BY <1>2, <2>6, <3>2, <4>1
    <3> QED BY <3>1, <3>2
  <2> HIDE DEF X, Y, r
  <2>10. Str!IsFirst(Str!Found(Str!Strstr(r, b), k), Str!Behind(X, k))
    BY <2>4, <2>7, <2>8, <2>9, FoundIs
  <2> QED BY <2>2, <2>10 DEF X
<1> QED BY <1>3, <1>4

LEMMA FindIgnoringCaseIs ==
  ASSUME NEW a \in Seq(Codes8), NEW b \in Seq(Codes8), NEW k \in Nat
  PROVE  Str!IsFirst(Str!FindIgnoringCase(a, b, k), Str!Behind(Str!Occurs(Str!Folded(a), Str!Folded(b)), k))
<1>1. Str!Folded(a) \in Seq(Codes8) /\ Str!Folded(b) \in Seq(Codes8)
  BY FoldedIs
<1> QED BY <1>1, FindIs DEF Str!FindIgnoringCase

LEMMA FindCharIs ==
  ASSUME NEW a \in Seq(Codes8), NEW c, NEW k \in Nat
  PROVE  Str!IsFirst(Str!FindChar(a, c, k), Str!Behind({i \in DOMAIN a : a[i] = c}, k))
<1> DEFINE X == {i \in DOMAIN a : a[i] = c}
<1>1. Len(a) \in Nat /\ DOMAIN a = 1..Len(a)
  BY LenProperties
<1>2. X \subseteq Nat /\ \A h \in X : h \in 1..Len(a)
  BY <1>1
<1>3. CASE k >= Len(a)
  <2>1. Str!FindChar(a, c, k) = Str!NoPosition
    BY <1>3 DEF Str!FindChar
  <2>2. \A h \in Str!Behind(X, k) : FALSE
    <3> HIDE DEF X
    <3> SUFFICES ASSUME NEW h \in X, h > k PROVE FALSE
      BY DEF Str!Behind
    <3>1. h \in 1..Len(a)
      BY <1>2
    <3> QED BY <1>1, <1>3, <3>1
  <2>3. Str!Behind(X, k) = {}
    BY <2>2
  <2> QED BY <2>1, <2>3 DEF Str!IsFirst
<1>4. CASE ~(k >= Len(a))
  <2>1. k \in 0..Len(a)
    BY <1>1, <1>4
  <2> DEFINE r == Str!From(a, k)
             Y == {i \in DOMAIN r : r[i] = c}
  <2>2. Str!FindChar(a, c, k) = Str!Found(Str!Strchr(r, c), k)
    BY <1>4 DEF Str!FindChar
  <2>3. r \in Seq(Codes8) /\ Len(r) = Len(a) - k /\ \A j \in 1..(Len(a) - k) : r[j] = a[k + j]
    BY <2>1, FromIs
  <2> HIDE DEF r
  <2>4. Str!IsFirst(Str!Strchr(r, c), Y)
    BY <2>3, StrchrIs
  <2>5. DOMAIN r = 1..(Len(a) - k)
    BY <2>3, LenProperties
  <2>6. Y \subseteq Nat \ {0} /\ \A h \in Y : h \in 1..(Len(a) - k)
    BY <1>1, <2>5
  <2>7. ASSUME NEW h \in Nat \ {0} PROVE h \in Y <=> k + h \in X
    <3>1. CASE h \in 1..(Len(a) - k)
      <4>1. PICK m : m = k + h
        OBVIOUS
      <4>2. m \in 1..Len(a) /\ r[h] = a[m]
        BY <1>1, <2>1, <2>3, <3>1, <4>1
      <4> QED BY <1>1, <2>5, <3>1, <4>1, <4>2
    <3>2. CASE h \notin 1..(Len(a) - k)
      <4>1. ~(k + h \in 1..Len(a))
        BY <1>1, <3>2
      <4> HIDE DEF X, Y
      <4> QED BY <1>2, <2>6, <3>2, <4>1
    <3> QED BY <3>1, <3>2
  <2> HIDE DEF X, Y
  <2>8. Str!IsFirst(Str!Found(Str!Strchr(r, c), k), Str!Behind(X, k))
    BY <1>2, <2>4, <2>6, <2>7, FoundIs
  <2> QED BY <2>2, <2>8 DEF X
<1> QED BY <1>3, <1>4

\* What strupr or strlwr does to a character, and f what it has made of a before its counter
\* gets to i.
Cased(up, c) == IF up THEN Str!Toupper(c) ELSE Str!Tolower(c)
Cases(f, a, up) ==
  f = [i \in 0..Len(a) |-> IF i = 0 THEN a ELSE [f[i - 1] EXCEPT ![i] = Cased(up, f[i - 1][i])]]

LEMMA CasedIs ==
  \A up \in BOOLEAN : \A c \in Codes8 :
    /\ Cased(up, c) \in Codes8 /\ Str!Tolower(Cased(up, c)) = Str!Tolower(c)
    /\ up => Cased(up, c) \notin 97..122
BY DEF Cased, Codes8, Str!Toupper, Str!Tolower

LEMMA CasesExist ==
  ASSUME NEW a \in Seq(Codes8), NEW up \in BOOLEAN
  PROVE  \E f : Cases(f, a, up)
<1> DEFINE n == Len(a)
           S == [1..n -> Codes8]
           step == [p \in S \X (1..n) |-> [p[1] EXCEPT ![p[2]] = Cased(up, p[1][p[2]])]]
<1>1. n \in Nat /\ a \in S
  BY LenProperties
<1> HIDE DEF n
<1>2. \A w \in S : \A p \in 1..n : [w EXCEPT ![p] = Cased(up, w[p])] \in S
  BY CasedIs
<1> HIDE DEF S
<1>3. step \in [S \X (1..n) -> S]
  <2>1. \A p \in S \X (1..n) : p[1] \in S /\ p[2] \in 1..n
    OBVIOUS
  <2> QED BY <1>2, <2>1
<1>4. \A w \in S : \A p \in 1..n : step[<<w, p>>] = [w EXCEPT ![p] = Cased(up, w[p])]
  <2> SUFFICES ASSUME NEW w \in S, NEW p \in 1..n PROVE step[<<w, p>>] = [w EXCEPT ![p] = Cased(up, w[p])]
    OBVIOUS
  <2>1. <<w, p>> \in S \X (1..n)
    OBVIOUS
  <2> QED BY <2>1
<1> HIDE DEF step
<1>5. PICK f : Loops(f, S, a, n, step)
  BY <1>1, <1>3, Loop
<1>6. f \in [0..n -> S] /\ f[0] = a /\ \A k \in 1..n : f[k] = step[<<f[k - 1], k>>]
  BY <1>5 DEF Loops
<1>7. \A k \in 1..n : f[k] = [f[k - 1] EXCEPT ![k] = Cased(up, f[k - 1][k])]
  <2>1. \A k \in 1..n : k - 1 \in 0..n
    BY <1>1
  <2> QED BY <1>4, <1>6, <2>1
<1>8. \A i \in 0..n : f[i] = IF i = 0 THEN a ELSE [f[i - 1] EXCEPT ![i] = Cased(up, f[i - 1][i])]
  <2>1. \A i \in 0..n : i = 0 \/ i \in 1..n
    BY <1>1
  <2> QED BY <1>6, <1>7, <2>1
<1>9. f = [i \in 0..n |-> IF i = 0 THEN a ELSE [f[i - 1] EXCEPT ![i] = Cased(up, f[i - 1][i])]]
  BY <1>6, <1>8
<1>10. Cases(f, a, up)
  BY <1>9 DEF Cases, n
<1> QED BY <1>10

LEMMA CasesMake ==
  ASSUME NEW a \in Seq(Codes8), NEW up \in BOOLEAN, NEW f, Cases(f, a, up)
  PROVE  f[Len(a)] = [x \in 1..Len(a) |-> Cased(up, a[x])]
<1> DEFINE n == Len(a)
           Half(i) == [x \in 1..n |-> IF x <= i THEN Cased(up, a[x]) ELSE a[x]]
           T == {i \in 0..n : f[i] = Half(i)}
<1>1. n \in Nat /\ a \in [1..n -> Codes8] /\ a = [x \in 1..n |-> a[x]]
  BY LenProperties
<1>2. f = [i \in 0..n |-> IF i = 0 THEN a ELSE [f[i - 1] EXCEPT ![i] = Cased(up, f[i - 1][i])]]
  BY DEF Cases
<1> HIDE DEF n
<1>3. \A i \in 0..n : f[i] = IF i = 0 THEN a ELSE [f[i - 1] EXCEPT ![i] = Cased(up, f[i - 1][i])]
  BY <1>2
<1>4. 0 \in T
  <2>1. 0 \in 0..n /\ \A x \in 1..n : ~(x <= 0)
    BY <1>1
  <2>2. f[0] = a
    BY <1>3, <2>1
  <2>3. a = Half(0)
    BY <1>1, <2>1
  <2> QED BY <2>1, <2>2, <2>3
<1>5. ASSUME NEW i \in 1..n, i - 1 \in T PROVE i \in T
  <2>1. PICK w : w = f[i - 1]
    OBVIOUS
  <2>2. w = Half(i - 1) /\ i \in 0..n /\ i # 0
    BY <1>1, <1>5, <2>1
  <2>3. f[i] = [w EXCEPT ![i] = Cased(up, w[i])]
    BY <1>3, <2>1, <2>2
  <2>4. \A x \in 1..n : (x <= i - 1 <=> x <= i /\ x # i)
    BY <1>1
  <2>5. DOMAIN w = 1..n /\ \A x \in 1..n : w[x] = IF x <= i /\ x # i THEN Cased(up, a[x]) ELSE a[x]
    BY <2>2, <2>4
  <2>6. f[i] = [x \in 1..n |-> IF x = i THEN Cased(up, w[i]) ELSE w[x]]
    BY <2>3, <2>5
  <2>7. \A x \in 1..n : (IF x = i THEN Cased(up, w[i]) ELSE w[x]) = IF x <= i THEN Cased(up, a[x]) ELSE a[x]
    <3>1. w[i] = a[i] /\ i <= i
      BY <1>1, <2>5
    <3> QED BY <2>5, <3>1
  <2>8. f[i] = Half(i)
    BY <2>6, <2>7
  <2> QED BY <2>2, <2>8
<1>6. n \in T
  <2> HIDE DEF T
  <2>1. 0 \in Nat /\ n \in Nat /\ n \in 0..n /\ 0 + 1 = 1
    BY <1>1
  <2>2. \A i \in 0..n : i \in T
    BY <1>4, <1>5, <2>1, StepByStep
  <2> QED BY <2>1, <2>2
<1>7. f[n] = Half(n)
  BY <1>6
<1>8. Half(n) = [x \in 1..n |-> Cased(up, a[x])]
  <2>1. \A x \in 1..n : x <= n
    BY <1>1
  <2> QED BY <2>1
<1> QED BY <1>7, <1>8 DEF n

\* strlwr and strupr.
Lowers(f, a) ==
  f = [i \in 0..Len(a) |-> IF i = 0 THEN a ELSE [f[i - 1] EXCEPT ![i] = Str!Tolower(f[i - 1][i])]]
Uppers(f, a) ==
  f = [i \in 0..Len(a) |-> IF i = 0 THEN a ELSE [f[i - 1] EXCEPT ![i] = Str!Toupper(f[i - 1][i])]]

LEMMA StrlwrIs ==
  ASSUME NEW a \in Seq(Codes8)
  PROVE  Str!Strlwr(a) = Str!Folded(a)
<1>1. Str!Strlwr(a) = (CHOOSE f : Lowers(f, a))[Len(a)]
  BY Zenon DEF Str!Strlwr, Str!Mapped, Lowers
<1>2. \A f : Lowers(f, a) <=> Cases(f, a, FALSE)
  <2>1. \A c : Cased(FALSE, c) = Str!Tolower(c)
    BY DEF Cased
  <2> SUFFICES ASSUME NEW f PROVE Lowers(f, a) <=> Cases(f, a, FALSE)
    OBVIOUS
  <2>2. [i \in 0..Len(a) |-> IF i = 0 THEN a ELSE [f[i - 1] EXCEPT ![i] = Str!Tolower(f[i - 1][i])]]
        = [i \in 0..Len(a) |-> IF i = 0 THEN a ELSE [f[i - 1] EXCEPT ![i] = Cased(FALSE, f[i - 1][i])]]
    BY <2>1
  <2> QED BY <2>2 DEF Lowers, Cases
<1>3. \E f : Lowers(f, a)
  <2>1. PICK f : Cases(f, a, FALSE)
    BY CasesExist
  <2> QED BY <1>2, <2>1
<1>4. PICK f : f = CHOOSE g : Lowers(g, a)
  OBVIOUS
<1>5. Lowers(f, a)
  BY <1>3, <1>4
<1>6. Cases(f, a, FALSE)
  BY <1>2, <1>5
<1>7. f[Len(a)] = [x \in 1..Len(a) |-> Cased(FALSE, a[x])]
  BY <1>6, CasesMake
<1>8. Str!Folded(a) = [x \in 1..Len(a) |-> Cased(FALSE, a[x])]
  <2>1. DOMAIN a = 1..Len(a)
    BY LenProperties
  <2> QED BY <2>1 DEF Str!Folded, Cased
<1> QED BY <1>1, <1>4, <1>7, <1>8

LEMMA StruprIs ==
  ASSUME NEW a \in Seq(Codes8)
  PROVE  /\ Str!Folded(Str!Strupr(a)) = Str!Folded(a)
         /\ \A i \in DOMAIN Str!Strupr(a) : Str!Strupr(a)[i] \notin 97..122
<1>1. Str!Strupr(a) = (CHOOSE f : Uppers(f, a))[Len(a)]
  BY Zenon DEF Str!Strupr, Str!Mapped, Uppers
<1>2. \A f : Uppers(f, a) <=> Cases(f, a, TRUE)
  <2>1. \A c : Cased(TRUE, c) = Str!Toupper(c)
    BY DEF Cased
  <2> SUFFICES ASSUME NEW f PROVE Uppers(f, a) <=> Cases(f, a, TRUE)
    OBVIOUS
  <2>2. [i \in 0..Len(a) |-> IF i = 0 THEN a ELSE [f[i - 1] EXCEPT ![i] = Str!Toupper(f[i - 1][i])]]
        = [i \in 0..Len(a) |-> IF i = 0 THEN a ELSE [f[i - 1] EXCEPT ![i] = Cased(TRUE, f[i - 1][i])]]
    BY <2>1
  <2> QED BY <2>2 DEF Uppers, Cases
<1>3. \E f : Uppers(f, a)
  <2>1. PICK f : Cases(f, a, TRUE)
    BY CasesExist
  <2> QED BY <1>2, <2>1
<1>4. PICK f : f = CHOOSE g : Uppers(g, a)
  OBVIOUS
<1>5. Uppers(f, a)
  BY <1>3, <1>4
<1>6. Cases(f, a, TRUE)
  BY <1>2, <1>5
<1>7. f[Len(a)] = [x \in 1..Len(a) |-> Cased(TRUE, a[x])]
  BY <1>6, CasesMake
<1>8. PICK w : w = [x \in 1..Len(a) |-> Cased(TRUE, a[x])]
  OBVIOUS
<1>9. \A x \in 1..Len(a) : a[x] \in Codes8
  BY CharIs
<1>10. DOMAIN a = 1..Len(a) /\ DOMAIN w = 1..Len(a)
  BY <1>8, LenProperties
<1>11. \A x \in 1..Len(a) : w[x] = Cased(TRUE, a[x])
  BY <1>8
<1>12. \A x \in 1..Len(a) : Str!Tolower(w[x]) = Str!Tolower(a[x]) /\ w[x] \notin 97..122
  BY <1>9, <1>11, CasedIs
<1>13. Str!Folded(w) = Str!Folded(a)
  BY <1>10, <1>12 DEF Str!Folded
<1>14. Str!Strupr(a) = w
  BY <1>1, <1>4, <1>7, <1>8
<1> QED BY <1>10, <1>12, <1>13, <1>14

\* Only a string itself is in no order with it.
LEMMA NoOrder == \A a, b : Str!Order(a, b) = 0 <=> a = b
BY DEF Str!Order

LEMMA EqualsIs ==
  ASSUME NEW a \in Seq(Codes8), NEW b \in Seq(Codes8)
  PROVE  Str!Equals(a, b) <=> a = b
<1>1. Len(a) \in Nat /\ Len(b) \in Nat
  BY LenProperties
<1>2. ASSUME Len(a) = Len(b) PROVE Str!Strncmp(a, b, Len(a)) = Str!Order(a, b)
  <2>1. PICK k : k = Len(a)
    OBVIOUS
  <2>2. k \in Nat /\ k >= Len(a) /\ k >= Len(b)
    BY <1>1, <1>2, <2>1
  <2>3. Str!UpTo(a, k) = a /\ Str!UpTo(b, k) = b
    BY <2>2, UpToIs
  <2> QED BY <2>1, <2>2, <2>3, StrncmpIs
<1> QED BY <1>2, NoOrder DEF Str!Equals

LEMMA EqualsIgnoringCaseIs ==
  ASSUME NEW a \in Seq(Codes8), NEW b \in Seq(Codes8)
  PROVE  Str!EqualsIgnoringCase(a, b) <=> Str!Folded(a) = Str!Folded(b)
<1>1. Len(a) \in Nat /\ Len(b) \in Nat
  BY LenProperties
<1>2. /\ Str!Folded(a) \in Seq(Codes8) /\ Len(Str!Folded(a)) = Len(a)
      /\ Str!Folded(b) \in Seq(Codes8) /\ Len(Str!Folded(b)) = Len(b)
  BY FoldedIs
<1>3. ASSUME Len(a) = Len(b) PROVE Str!Strnicmp(a, b, Len(a)) = Str!Order(Str!Folded(a), Str!Folded(b))
  <2>1. PICK k : k = Len(a)
    OBVIOUS
  <2>2. k \in Nat /\ k >= Len(a) /\ k >= Len(b)
    BY <1>1, <1>3, <2>1
  <2>3. Str!UpTo(a, k) = a /\ Str!UpTo(b, k) = b
    BY <2>2, UpToIs
  <2>4. ~Str!IsStrictPrefix(Str!Folded(a), Str!Folded(b))
    <3> SUFFICES ASSUME Str!IsPrefix(Str!Folded(a), Str!Folded(b)) PROVE Str!Folded(a) = Str!Folded(b)
      BY DEF Str!IsStrictPrefix
    <3>1. SubSeq(Str!Folded(a), 1, Len(a)) = SubSeq(Str!Folded(b), 1, Len(b))
      BY <1>2, <1>3 DEF Str!IsPrefix
    <3>2. SubSeq(Str!Folded(a), 1, Len(a)) = Str!Folded(a) /\ SubSeq(Str!Folded(b), 1, Len(b)) = Str!Folded(b)
      BY <1>2, SubSeqFull
    <3> QED BY <3>1, <3>2
  <2> QED BY <2>1, <2>2, <2>3, <2>4, StrnicmpIs
<1>4. Str!Folded(a) = Str!Folded(b) => Len(a) = Len(b)
  BY <1>2
<1> QED BY <1>3, <1>4, NoOrder DEF Str!EqualsIgnoringCase

LEMMA StartsWithIs ==
  ASSUME NEW a \in Seq(Codes8), NEW b \in Seq(Codes8)
  PROVE  Str!StartsWith(a, b) <=> Str!IsPrefix(b, a)
<1>1. Len(a) \in Nat /\ Len(b) \in Nat
  BY LenProperties
<1>2. ASSUME Len(b) <= Len(a)
      PROVE  Str!Strncmp(a, b, Len(b)) = Str!Order(SubSeq(a, 1, Len(b)), SubSeq(b, 1, Len(b)))
  <2>1. PICK k : k = Len(b)
    OBVIOUS
  <2>2. k \in Nat /\ (IF Len(a) < k THEN Len(a) ELSE k) = k /\ (IF Len(b) < k THEN Len(b) ELSE k) = k
    BY <1>1, <1>2, <2>1
  <2>3. Str!UpTo(a, k) = SubSeq(a, 1, k) /\ Str!UpTo(b, k) = SubSeq(b, 1, k)
    BY <2>2, UpToIs
  <2>4. Str!Strncmp(a, b, k) = Str!Order(Str!UpTo(a, k), Str!UpTo(b, k))
    BY <2>2, StrncmpIs
  <2> QED BY <2>1, <2>3, <2>4
<1> QED BY <1>2, NoOrder DEF Str!StartsWith, Str!IsPrefix

\* A string from behind.
LEMMA TurnedIs ==
  ASSUME NEW a \in Seq(Codes8)
  PROVE  /\ Str!Reverse(a) \in Seq(Codes8) /\ Len(Str!Reverse(a)) = Len(a)
         /\ \A j \in 1..Len(a) : Str!Reverse(a)[j] = a[(Len(a) - j) + 1]
<1> DEFINE r == Str!Reverse(a)
<1>1. Len(a) \in Nat /\ \A j \in 1..Len(a) : a[j] \in Codes8
  BY CharIs
<1>2. \A j \in 1..Len(a) : (Len(a) - j) + 1 \in 1..Len(a)
  BY <1>1
<1>3. r = [j \in 1..Len(a) |-> a[(Len(a) - j) + 1]]
  BY DEF Str!Reverse
<1> HIDE DEF r
<1>4. r \in [1..Len(a) -> Codes8] /\ DOMAIN r = 1..Len(a)
  BY <1>1, <1>2, <1>3
<1>5. r \in Seq(Codes8)
  BY <1>1, <1>4
<1>6. Len(r) = Len(a)
  BY <1>1, <1>4, <1>5, LenProperties
<1> QED BY <1>3, <1>5, <1>6 DEF r

LEMMA EndsWithIs ==
  ASSUME NEW a \in Seq(Codes8), NEW b \in Seq(Codes8)
  PROVE  Str!EndsWith(a, b) <=> Str!IsSuffix(b, a)
<1>1. /\ Len(a) \in Nat /\ Len(b) \in Nat
      /\ \A j \in 1..Len(a) : a[j] \in Codes8
      /\ \A j \in 1..Len(b) : b[j] \in Codes8
  BY CharIs
<1>2. CASE ~(Len(b) <= Len(a))
  <2>1. Len(Str!Reverse(a)) = Len(a) /\ Len(Str!Reverse(b)) = Len(b)
    BY TurnedIs
  <2> QED BY <1>2, <2>1 DEF Str!EndsWith, Str!IsSuffix, Str!IsPrefix
<1>3. CASE Len(b) <= Len(a)
  <2>1. PICK k : k = Len(a) - Len(b)
    OBVIOUS
  <2>2. k \in 0..Len(a) /\ Len(a) - k = Len(b) /\ k + Len(b) = Len(a)
    BY <1>1, <1>3, <2>1
  <2>3. PICK r : r = Str!From(a, k)
    OBVIOUS
  <2>4. r \in Seq(Codes8) /\ Len(r) = Len(b) /\ \A j \in 1..Len(b) : r[j] = a[k + j]
    BY <2>2, <2>3, FromIs
  <2>5. Str!EndsWith(a, b) <=> Str!Strncmp(r, b, Len(b)) = 0
    BY <1>3, <2>1, <2>3 DEF Str!EndsWith
  <2>6. Str!Strncmp(r, b, Len(b)) = Str!Order(r, b)
    <3>1. PICK m : m = Len(b)
      OBVIOUS
    <3>2. m \in Nat /\ m >= Len(r) /\ m >= Len(b)
      BY <1>1, <2>4, <3>1
    <3>3. Str!UpTo(r, m) = r /\ Str!UpTo(b, m) = b
      BY <2>4, <3>2, UpToIs
    <3> QED BY <2>4, <3>1, <3>2, <3>3, StrncmpIs
  <2>7. Str!EndsWith(a, b) <=> \A j \in 1..Len(b) : a[k + j] = b[j]
    <3>1. r = b <=> \A j \in 1..Len(b) : r[j] = b[j]
      BY <2>4, SeqEqual
    <3> QED BY <2>4, <2>5, <2>6, <3>1, NoOrder
  <2>8. PICK ra, rb : ra = Str!Reverse(a) /\ rb = Str!Reverse(b)
    OBVIOUS
  <2>9. ra \in Seq(Codes8) /\ Len(ra) = Len(a) /\ \A j \in 1..Len(a) : ra[j] = a[(Len(a) - j) + 1]
    BY <2>8, TurnedIs
  <2>10. rb \in Seq(Codes8) /\ Len(rb) = Len(b) /\ \A j \in 1..Len(b) : rb[j] = b[(Len(b) - j) + 1]
    BY <2>8, TurnedIs
  <2>11. Str!IsSuffix(b, a) <=> SubSeq(rb, 1, Len(b)) = SubSeq(ra, 1, Len(b))
    BY <1>3, <2>8, <2>9, <2>10 DEF Str!IsSuffix, Str!IsPrefix
  <2>12. Len(b) \in 0..Len(ra) /\ Len(b) \in 0..Len(rb)
    BY <1>1, <1>3, <2>9, <2>10
  <2>13. /\ SubSeq(ra, 1, Len(b)) = [j \in 1..Len(b) |-> ra[j]]
         /\ SubSeq(rb, 1, Len(b)) = [j \in 1..Len(b) |-> rb[j]]
    BY <2>9, <2>10, <2>12, Front
  <2>14. Str!IsSuffix(b, a) <=> \A j \in 1..Len(b) : rb[j] = ra[j]
    <3>1. ASSUME [j \in 1..Len(b) |-> rb[j]] = [j \in 1..Len(b) |-> ra[j]], NEW i \in 1..Len(b)
          PROVE  rb[i] = ra[i]
      <4>1. [j \in 1..Len(b) |-> rb[j]][i] = rb[i] /\ [j \in 1..Len(b) |-> ra[j]][i] = ra[i]
        OBVIOUS
      <4> QED BY <3>1, <4>1
    <3>2. ASSUME \A j \in 1..Len(b) : rb[j] = ra[j]
          PROVE  [j \in 1..Len(b) |-> rb[j]] = [j \in 1..Len(b) |-> ra[j]]
      BY <3>2
    <3> QED BY <2>11, <2>13, <3>1, <3>2
  \* The jth place from the front is the mirrored one from behind.
  <2>15. ASSUME NEW j \in 1..Len(b)
         PROVE  /\ (Len(b) - j) + 1 \in 1..Len(b)
                /\ rb[j] = b[(Len(b) - j) + 1] /\ ra[j] = a[k + ((Len(b) - j) + 1)]
                /\ (Len(b) - ((Len(b) - j) + 1)) + 1 = j
    <3>1. j \in 1..Len(a) /\ (Len(a) - j) + 1 = k + ((Len(b) - j) + 1)
      BY <1>1, <1>3, <2>2
    <3>2. ra[j] = a[(Len(a) - j) + 1]
      BY <2>9, <3>1
    <3> QED BY <1>1, <2>10, <3>1, <3>2
  <2>16. ASSUME \A j \in 1..Len(b) : a[k + j] = b[j] PROVE \A j \in 1..Len(b) : rb[j] = ra[j]
    <3> SUFFICES ASSUME NEW j \in 1..Len(b) PROVE rb[j] = ra[j]
      OBVIOUS
    <3>1. PICK i : i = (Len(b) - j) + 1
      OBVIOUS
    <3>2. i \in 1..Len(b) /\ rb[j] = b[i] /\ ra[j] = a[k + i]
      BY <2>15, <3>1
    <3> QED BY <2>16, <3>2
  <2>17. ASSUME \A j \in 1..Len(b) : rb[j] = ra[j] PROVE \A j \in 1..Len(b) : a[k + j] = b[j]
    <3> SUFFICES ASSUME NEW i \in 1..Len(b) PROVE a[k + i] = b[i]
      OBVIOUS
    <3>1. PICK j : j = (Len(b) - i) + 1
      OBVIOUS
    <3>2. j \in 1..Len(b) /\ i = (Len(b) - j) + 1
      BY <1>1, <3>1
    <3>3. rb[j] = b[i] /\ ra[j] = a[k + i]
      BY <2>15, <3>2
    <3> QED BY <2>17, <3>2, <3>3
  <2> QED BY <2>7, <2>14, <2>16, <2>17
<1> QED BY <1>2, <1>3

\* Positions that are so far apart that what occurs there does not overlap.
FarApart(X, b) == {S \in SUBSET X : \A h, i \in S : h < i => h + Len(b) <= i}

LEMMA ApartFinite ==
  ASSUME NEW n \in Nat, NEW X, X \subseteq 1..n, NEW b
  PROVE  \A S \in FarApart(X, b) : IsFiniteSet(S) /\ Cardinality(S) \in 0..n
<1> SUFFICES ASSUME NEW S \in FarApart(X, b) PROVE IsFiniteSet(S) /\ Cardinality(S) \in 0..n
  OBVIOUS
<1>1. IsFiniteSet(1..n) /\ Cardinality(1..n) = n
  <2>1. IsFiniteSet(1..n) /\ Cardinality(1..n) = IF 1 > n THEN 0 ELSE n - 1 + 1
    BY FS_Interval
  <2>2. (IF 1 > n THEN 0 ELSE n - 1 + 1) = n
    OBVIOUS
  <2> QED BY <2>1, <2>2
<1>2. S \in SUBSET (1..n)
  BY DEF FarApart
<1>3. IsFiniteSet(S) /\ Cardinality(S) <= n
  BY <1>1, <1>2, FS_Subset
<1>4. Cardinality(S) \in Nat
  BY <1>3, FS_CardinalityType
<1> QED BY <1>3, <1>4

\* MostApart is the greatest number of them.
LEMMA MostIs ==
  ASSUME NEW n \in Nat, NEW X, X \subseteq 1..n, NEW b
  PROVE  /\ \E S \in FarApart(X, b) : Cardinality(S) = Str!MostApart(X, b)
         /\ \A S \in FarApart(X, b) : Cardinality(S) <= Str!MostApart(X, b)
<1> DEFINE N == {Cardinality(S) : S \in FarApart(X, b)}
           most == CHOOSE k \in N : \A S \in FarApart(X, b) : Cardinality(S) <= k
<1>1. \A S : Str!Cardinality(S) = Cardinality(S)
  BY DEF Str!Cardinality, Cardinality
<1>2. Str!MostApart(X, b) = most
  <2>1. Str!MostApart(X, b) = CHOOSE k \in {Str!Cardinality(S) : S \in FarApart(X, b)} :
                                     \A S \in FarApart(X, b) : Str!Cardinality(S) <= k
    BY Zenon DEF Str!MostApart, FarApart
  <2> QED BY <1>1, <2>1
<1>3. N \subseteq 0..n
  BY ApartFinite
<1>4. N # {}
  <2>1. {} \in FarApart(X, b)
    BY DEF FarApart
  <2> QED BY <2>1
<1>5. \E k \in N : \A j \in N : j <= k
  <2> HIDE DEF N
  <2> QED BY <1>3, <1>4, GreatestNumber
<1>6. \E k \in N : \A S \in FarApart(X, b) : Cardinality(S) <= k
  BY <1>5
<1>7. most \in N /\ \A S \in FarApart(X, b) : Cardinality(S) <= most
  <2> HIDE DEF N
  <2> QED BY <1>6
<1> HIDE DEF most
<1> QED BY <1>2, <1>7

LEMMA MostIsOnly ==
  ASSUME NEW n \in Nat, NEW X, X \subseteq 1..n, NEW b, NEW S \in FarApart(X, b),
         \A R \in FarApart(X, b) : Cardinality(R) <= Cardinality(S)
  PROVE  Str!MostApart(X, b) = Cardinality(S)
<1>1. PICK R \in FarApart(X, b) : Cardinality(R) = Str!MostApart(X, b)
  BY MostIs
<1>2. Cardinality(S) <= Cardinality(R)
  BY <1>1, MostIs
<1>3. Cardinality(R) <= Cardinality(S)
  OBVIOUS
<1>4. Cardinality(S) \in 0..n /\ Cardinality(R) \in 0..n
  BY ApartFinite
<1>5. \A x, y \in 0..n : x <= y /\ y <= x => x = y
  OBVIOUS
<1> QED BY <1>1, <1>2, <1>3, <1>4, <1>5

\* Those of X from x on.
Later(X, x) == {h \in X : h >= x}

\* Taking the first one, and the most of those that do not overlap with it, is best.
LEMMA FirstIsBest ==
  ASSUME NEW n \in Nat, NEW X, X \subseteq 1..n, NEW b, Len(b) \in Nat \ {0},
         NEW v \in X, \A h \in X : v <= h
  PROVE  Str!MostApart(X, b) = 1 + Str!MostApart(Later(X, v + Len(b)), b)
<1> DEFINE Y == {h \in X : h >= v + Len(b)}
<1>1. Y \subseteq 1..n /\ v \in 1..n /\ v \notin Y
  <2>1. \A x \in Nat : \A y \in Nat \ {0} : ~(x >= x + y)
    OBVIOUS
  <2>2. v \in 1..n /\ v \in Nat
    OBVIOUS
  <2>3. v \notin Y
    BY <2>1, <2>2
  <2> QED BY <2>2, <2>3
<1>2. PICK S \in FarApart(Y, b) : Cardinality(S) = Str!MostApart(Y, b)
  <2> HIDE DEF Y
  <2> QED BY <1>1, MostIs
<1>3. S \subseteq Y /\ \A h, i \in S : h < i => h + Len(b) <= i
  BY DEF FarApart
<1> DEFINE U == S \cup {v}
<1>4. U \in FarApart(X, b)
  <2>1. U \subseteq X
    BY <1>3
  <2>2. ASSUME NEW h \in U, NEW i \in U, h < i PROVE h + Len(b) <= i
    <3>1. CASE h = v
      <4>1. i # v
        BY <1>1, <2>2, <3>1
      <4>2. i \in Y
        BY <1>3, <4>1
      <4> QED BY <1>1, <3>1, <4>2
    <3>2. CASE h # v /\ i = v
      <4>1. h \in Y
        BY <1>3, <3>2
      <4>2. v <= h /\ h \in 1..n
        BY <4>1
      <4> QED BY <1>1, <2>2, <3>2, <4>2
    <3>3. CASE h # v /\ i # v
      BY <1>3, <2>2, <3>3
    <3> QED BY <3>1, <3>2, <3>3
  <2> HIDE DEF U
  <2> QED BY <2>1, <2>2 DEF FarApart
<1>5. IsFiniteSet(S) /\ Cardinality(S) \in 0..n
  <2> HIDE DEF Y
  <2> QED BY <1>1, ApartFinite
<1>6. Cardinality(U) = Cardinality(S) + 1
  <2>1. v \notin S
    BY <1>1, <1>3
  <2> QED BY <1>5, <2>1, FS_AddElement
<1>7. ASSUME NEW R \in FarApart(X, b) PROVE Cardinality(R) <= Cardinality(S) + 1
  <2>1. IsFiniteSet(R) /\ Cardinality(R) \in 0..n
    BY ApartFinite
  <2>2. R \subseteq X /\ \A h, i \in R : h < i => h + Len(b) <= i
    BY DEF FarApart
  <2>3. CASE R = {}
    <3>1. Cardinality(R) = 0
      BY <2>3, FS_EmptySet
    <3> QED BY <1>5, <3>1
  <2>4. CASE R # {}
    <3>1. R \subseteq Nat
      BY <2>2
    <3>2. PICK m \in R : \A h \in R : m <= h
      BY <2>4, <3>1, LeastNatural
    <3> DEFINE Q == R \ {m}
    <3>3. ASSUME NEW h \in Q PROVE h \in Y
      <4>1. h \in R /\ h # m /\ h \in 1..n /\ m \in 1..n /\ m <= h /\ v <= m
        BY <2>2, <3>2
      <4>2. m + Len(b) <= h
        BY <2>2, <4>1
      <4>3. h >= v + Len(b)
        BY <1>1, <4>1, <4>2
      <4> QED BY <2>2, <4>1, <4>3
    <3>4. Q \in FarApart(Y, b)
      <4>1. Q \subseteq Y
        BY <3>3
      <4>2. \A h, i \in Q : h < i => h + Len(b) <= i
        BY <2>2
      <4> HIDE DEF Q, Y
      <4> QED BY <4>1, <4>2 DEF FarApart
    <3>5. Cardinality(Q) <= Cardinality(S)
      <4> HIDE DEF Q, Y
      <4> QED BY <1>1, <1>2, <3>4, MostIs
    <3>6. Cardinality(Q) = Cardinality(R) - 1
      BY <2>1, FS_RemoveElement
    <3> HIDE DEF Q
    <3> QED BY <1>5, <2>1, <3>5, <3>6
  <2> QED BY <2>3, <2>4
<1> HIDE DEF U, Y
<1>8. Str!MostApart(X, b) = Cardinality(U)
  <2>1. \A R \in FarApart(X, b) : Cardinality(R) <= Cardinality(U)
    BY <1>6, <1>7
  <2> QED BY <1>4, <2>1, MostIsOnly
<1>9. Cardinality(U) = 1 + Str!MostApart(Y, b)
  BY <1>2, <1>5, <1>6
<1> QED BY <1>8, <1>9 DEF Y, Later

\* There is none of none.
LEMMA NoneApart == ASSUME NEW b PROVE Str!MostApart({}, b) = 0
<1>1. {} \subseteq 1..0 /\ 0 \in Nat
  OBVIOUS
<1>2. PICK S \in FarApart({}, b) : Cardinality(S) = Str!MostApart({}, b)
  BY <1>1, MostIs
<1>3. S = {}
  BY DEF FarApart
<1> QED BY <1>2, <1>3, FS_EmptySet

\* f is count from every position.
Counts(f, a, b) ==
  f = [from \in 0..Len(a) |-> LET at == Str!Find(a, b, from)
                              IN  IF at = Str!NoPosition THEN 0 ELSE 1 + f[(at - 1) + Len(b)]]

\* What there is to count behind a position: nothing, or the first occurrence and what there
\* is behind it.
LEMMA CountStep ==
  ASSUME NEW a \in Seq(Codes8), NEW b \in Seq(Codes8), Len(b) \in Nat \ {0}, NEW k \in 0..Len(a)
  PROVE  LET at == Str!Find(a, b, k)
             X  == Str!Occurs(a, b)
         IN  \/ at = Str!NoPosition /\ Str!MostApart(Str!Behind(X, k), b) = 0
             \/ /\ at # Str!NoPosition /\ (at - 1) + Len(b) \in (k + 1)..Len(a)
                /\ Str!MostApart(Str!Behind(X, k), b)
                     = 1 + Str!MostApart(Str!Behind(X, (at - 1) + Len(b)), b)
<1> DEFINE at == Str!Find(a, b, k)
           X  == Str!Occurs(a, b)
           Z  == Str!Behind(X, k)
<1>1. Len(a) \in Nat /\ k \in Nat
  BY LenProperties
<1>2. \A h \in X : h \in 1..Len(a) /\ h + Len(b) - 1 <= Len(a)
  <2>1. DOMAIN a = 1..Len(a)
    BY LenProperties
  <2> QED BY <2>1 DEF Str!Occurs
<1>3. Str!IsFirst(at, Z)
  BY <1>1, FindIs
<1> HIDE DEF at, X
<1>4. \A h \in Z : h \in X /\ h > k
  BY DEF Str!Behind
<1>5. Z \subseteq 1..Len(a)
  BY <1>2, <1>4
<1> HIDE DEF Z
<1>6. CASE Z = {}
  <2>1. at = Str!NoPosition
    BY <1>3, <1>6 DEF Str!IsFirst
  <2> QED BY <1>6, <2>1, NoneApart DEF Z, X, at
<1>7. CASE Z # {}
  <2>1. at \in Z /\ \A h \in Z : at <= h
    BY <1>3, <1>7 DEF Str!IsFirst
  <2>2. at \in X /\ at > k /\ at \in 1..Len(a) /\ at + Len(b) - 1 <= Len(a)
    BY <1>2, <1>4, <2>1
  <2>3. at # Str!NoPosition
    BY <2>2 DEF Str!NoPosition
  <2>4. (at - 1) + Len(b) \in (k + 1)..Len(a)
    BY <1>1, <2>2
  <2>5. Str!MostApart(Z, b) = 1 + Str!MostApart(Later(Z, at + Len(b)), b)
    BY <1>1, <1>5, <2>1, FirstIsBest
  <2>6. Later(Z, at + Len(b)) = Str!Behind(X, (at - 1) + Len(b))
    <3>1. ASSUME NEW h \in X PROVE (h > k /\ h >= at + Len(b)) <=> h > (at - 1) + Len(b)
      <4>1. h \in 1..Len(a)
        BY <1>2
      <4> QED BY <1>1, <2>2, <4>1
    <3> QED BY <3>1 DEF Str!Behind, Z, Later
  <2> QED BY <2>3, <2>4, <2>5, <2>6 DEF Z, X, at
<1> QED BY <1>6, <1>7

LEMMA CountsExist ==
  ASSUME NEW a \in Seq(Codes8), NEW b \in Seq(Codes8), Len(b) \in Nat \ {0}
  PROVE  /\ \E f : Counts(f, a, b)
         /\ \A f : Counts(f, a, b) =>
              \A k \in 0..Len(a) : f[k] = Str!MostApart(Str!Behind(Str!Occurs(a, b), k), b)
<1> DEFINE n == Len(a)
           Most(k) == Str!MostApart(Str!Behind(Str!Occurs(a, b), k), b)
           At(k) == Str!Find(a, b, k)
<1>1. n \in Nat
  BY LenProperties
<1>2. \A k \in 0..n : \/ At(k) = Str!NoPosition /\ Most(k) = 0
                      \/ /\ At(k) # Str!NoPosition /\ (At(k) - 1) + Len(b) \in (k + 1)..n
                         /\ Most(k) = 1 + Most((At(k) - 1) + Len(b))
  BY CountStep
<1> HIDE DEF Most, At
<1>3. \E f : Counts(f, a, b)
  <2> DEFINE f == [k \in 0..n |-> Most(k)]
  <2>1. ASSUME NEW k \in 0..n PROVE f[k] = IF At(k) = Str!NoPosition THEN 0 ELSE 1 + f[(At(k) - 1) + Len(b)]
    <3>1. CASE At(k) = Str!NoPosition
      BY <1>2, <3>1
    <3>2. CASE At(k) # Str!NoPosition
      <4>1. (At(k) - 1) + Len(b) \in (k + 1)..n /\ Most(k) = 1 + Most((At(k) - 1) + Len(b))
        BY <1>2, <3>2
      <4>2. (At(k) - 1) + Len(b) \in 0..n
        BY <1>1, <4>1
      <4> QED BY <3>2, <4>1, <4>2
    <3> QED BY <3>1, <3>2
  <2>2. f = [k \in 0..n |-> f[k]]
    OBVIOUS
  <2> HIDE DEF f
  <2>3. f = [k \in 0..n |-> IF At(k) = Str!NoPosition THEN 0 ELSE 1 + f[(At(k) - 1) + Len(b)]]
    BY <2>1, <2>2
  <2>4. Counts(f, a, b)
    BY <2>3 DEF Counts, At
  <2> QED BY <2>4
<1>4. ASSUME NEW f, Counts(f, a, b) PROVE \A k \in 0..n : f[k] = Most(k)
  <2>1. f = [k \in 0..n |-> IF At(k) = Str!NoPosition THEN 0 ELSE 1 + f[(At(k) - 1) + Len(b)]]
    BY <1>4 DEF Counts, At
  <2> HIDE DEF n
  <2>2. \A k \in 0..n : f[k] = IF At(k) = Str!NoPosition THEN 0 ELSE 1 + f[(At(k) - 1) + Len(b)]
    BY <2>1
  <2> DEFINE T == {j \in Nat : j <= n => f[n - j] = Most(n - j)}
  <2>3. ASSUME NEW j \in Nat, \A i \in 0..(j - 1) : i \in T PROVE j \in T
    <3> SUFFICES ASSUME j <= n PROVE f[n - j] = Most(n - j)
      OBVIOUS
    <3>1. PICK k : k = n - j
      OBVIOUS
    <3>2. k \in 0..n
      BY <1>1, <3>1
    <3>3. CASE At(k) = Str!NoPosition
      BY <1>2, <2>2, <3>1, <3>2, <3>3
    <3>4. CASE At(k) # Str!NoPosition
      <4>1. PICK m : m = (At(k) - 1) + Len(b)
        OBVIOUS
      <4>2. m \in (k + 1)..n /\ Most(k) = 1 + Most(m)
        BY <1>2, <3>2, <3>4, <4>1
      <4>3. PICK i : i = n - m
        OBVIOUS
      <4>4. i \in 0..(j - 1) /\ i <= n /\ n - i = m
        BY <1>1, <3>1, <3>2, <4>2, <4>3
      <4>5. f[m] = Most(m)
        BY <2>3, <4>4
      <4>6. f[k] = 1 + f[m]
        BY <2>2, <3>2, <3>4, <4>1
      <4> QED BY <3>1, <4>2, <4>5, <4>6
    <3> QED BY <3>3, <3>4
  <2> HIDE DEF T
  <2>4. \A j \in Nat : j \in T
    BY <2>3, FromSmaller
  <2>5. ASSUME NEW k \in 0..n PROVE f[k] = Most(k)
    <3>1. PICK j : j = n - k
      OBVIOUS
    <3>2. j \in Nat /\ j <= n /\ n - j = k
      BY <1>1, <3>1
    <3> QED BY <2>4, <3>2 DEF T
  <2> QED BY <2>5
<1> QED BY <1>3, <1>4 DEF n, Most

\* count is the most that do not overlap.
LEMMA CountIs ==
  ASSUME NEW a \in Seq(Codes8), NEW b \in Seq(Codes8), Len(b) \in Nat \ {0}, NEW k \in Nat
  PROVE  Str!Count(a, b, k) = Str!MostApart(Str!Behind(Str!Occurs(a, b), k), b)
<1>1. Len(a) \in Nat /\ DOMAIN a = 1..Len(a)
  BY LenProperties
<1>2. CASE k > Len(a)
  <2>1. Str!Count(a, b, k) = 0
    BY <1>2 DEF Str!Count
  <2>2. Str!Behind(Str!Occurs(a, b), k) = {}
    BY <1>1, <1>2 DEF Str!Behind, Str!Occurs
  <2> QED BY <2>1, <2>2, NoneApart
<1>3. CASE ~(k > Len(a))
  <2>1. k \in 0..Len(a)
    BY <1>1, <1>3
  <2>2. Str!CountOf(a, b) = CHOOSE f : Counts(f, a, b)
    BY Zenon DEF Str!CountOf, Counts
  <2>3. PICK f : f = CHOOSE g : Counts(g, a, b)
    OBVIOUS
  <2>4. Counts(f, a, b)
    BY <2>3, CountsExist
  <2>5. f[k] = Str!MostApart(Str!Behind(Str!Occurs(a, b), k), b)
    BY <2>1, <2>4, CountsExist
  <2>6. Str!Count(a, b, k) = f[k]
    BY <1>3, <2>2, <2>3 DEF Str!Count
  <2> QED BY <2>5, <2>6
<1> QED BY <1>2, <1>3

\* The answers are TRUE or FALSE.
LEMMA AnswersAre ==
  ASSUME NEW a \in Seq(Codes8), NEW b \in Seq(Codes8)
  PROVE  /\ Str!Equals(a, b) = (a = b)
         /\ Str!EqualsIgnoringCase(a, b) = (Str!Folded(a) = Str!Folded(b))
         /\ Str!StartsWith(a, b) = Str!IsPrefix(b, a)
         /\ Str!EndsWith(a, b) = Str!IsSuffix(b, a)
<1>1. Str!Equals(a, b) = (a = b)
  <2>1. Str!Equals(a, b) \in BOOLEAN
    BY DEF Str!Equals
  <2> QED BY <2>1, EqualsIs
<1>2. Str!EqualsIgnoringCase(a, b) = (Str!Folded(a) = Str!Folded(b))
  <2>1. Str!EqualsIgnoringCase(a, b) \in BOOLEAN
    BY DEF Str!EqualsIgnoringCase
  <2> QED BY <2>1, EqualsIgnoringCaseIs
<1>3. Str!StartsWith(a, b) = Str!IsPrefix(b, a)
  <2>1. Str!StartsWith(a, b) \in BOOLEAN
    BY DEF Str!StartsWith
  <2>2. Str!IsPrefix(b, a) \in BOOLEAN
    BY DEF Str!IsPrefix
  <2>3. Str!StartsWith(a, b) <=> Str!IsPrefix(b, a)
    BY StartsWithIs
  <2> QED BY <2>1, <2>2, <2>3
<1>4. Str!EndsWith(a, b) = Str!IsSuffix(b, a)
  <2>1. Str!EndsWith(a, b) \in BOOLEAN
    BY DEF Str!EndsWith
  <2>2. Str!IsSuffix(b, a) \in BOOLEAN
    BY DEF Str!IsSuffix, Str!IsPrefix
  <2>3. Str!EndsWith(a, b) <=> Str!IsSuffix(b, a)
    BY EndsWithIs
  <2> QED BY <2>1, <2>2, <2>3
<1> QED BY <1>1, <1>2, <1>3, <1>4

\* The arguments of a call.
ArgumentsAre == str1 \in Seq(Codes8) /\ str2 \in Seq(Codes8) /\ limit \in Nat
CallInv == ArgumentsAre /\ Str!AgreesWithReference

LEMMA InitAgrees == Str!Init => CallInv
<1> SUFFICES ASSUME Str!Init PROVE CallInv
  OBVIOUS
<1>1. str1 \in Str!Texts /\ str2 \in Str!Texts /\ limit \in 0..(MaxLength + 1) /\ called = "none"
  BY DEF Str!Init
<1>2. ASSUME NEW w \in Str!Texts PROVE w \in Seq(Codes8)
  <2>1. PICK m \in 0..MaxLength : w \in [1..m -> Codes]
    BY <1>2, Zenon DEF Str!Texts, Str!BoundedSeq, Str!SeqOf
  <2>2. m \in Nat /\ Codes \subseteq Codes8
    BY CodesAssumption DEF CodesAssumption, Codes8
  <2>3. w \in [1..m -> Codes8]
    BY <2>1, <2>2
  <2> QED BY <2>2, <2>3
<1>3. limit \in Nat
  BY <1>1, CodesAssumption DEF CodesAssumption
<1>4. Str!AgreesWithReference
  BY <1>1 DEF Str!AgreesWithReference
<1> QED BY <1>1, <1>2, <1>3, <1>4 DEF CallInv, ArgumentsAre

\* Every call returns what its name promises.
LEMMA CallAgrees == ArgumentsAre /\ Str!Next => Str!AgreesWithReference'
<1> SUFFICES ASSUME ArgumentsAre, Str!Next PROVE Str!AgreesWithReference'
  OBVIOUS
<1>1. str1 \in Seq(Codes8) /\ str2 \in Seq(Codes8) /\ limit \in Nat
  BY DEF ArgumentsAre
<1>2. str1' = str1 /\ str2' = str2 /\ limit' = limit
  BY DEF Str!Next, Str!Call
<1>3. CASE Str!Call("strcmp", Str!Strcmp(str1, str2))
  <2>1. called' = "strcmp" /\ value' = Str!Strcmp(str1, str2)
    BY <1>3 DEF Str!Call
  <2>2. value' = Str!Order(str1, str2)
    BY <1>1, <2>1, StrcmpIs
  <2> QED BY <1>2, <2>1, <2>2 DEF Str!AgreesWithReference
<1>4. CASE Str!Call("strncmp", Str!Strncmp(str1, str2, limit))
  <2>1. called' = "strncmp" /\ value' = Str!Strncmp(str1, str2, limit)
    BY <1>4 DEF Str!Call
  <2>2. value' = Str!Order(Str!UpTo(str1, limit), Str!UpTo(str2, limit))
    BY <1>1, <2>1, StrncmpIs
  <2> QED BY <1>2, <2>1, <2>2 DEF Str!AgreesWithReference
<1>5. CASE Str!Call("stricmp", Str!Stricmp(str1, str2))
  <2>1. called' = "stricmp" /\ value' = Str!Stricmp(str1, str2)
    BY <1>5 DEF Str!Call
  <2>2. ~Str!IsStrictPrefix(Str!Folded(str1), Str!Folded(str2))
           => value' = Str!Order(Str!Folded(str1), Str!Folded(str2))
    BY <1>1, <2>1, StricmpIs
  <2> QED BY <1>2, <2>1, <2>2 DEF Str!AgreesWithReference
<1>6. CASE Str!Call("strnicmp", Str!Strnicmp(str1, str2, limit))
  <2>1. called' = "strnicmp" /\ value' = Str!Strnicmp(str1, str2, limit)
    BY <1>6 DEF Str!Call
  <2>2. ~Str!IsStrictPrefix(Str!Folded(Str!UpTo(str1, limit)), Str!Folded(Str!UpTo(str2, limit)))
           => value' = Str!Order(Str!Folded(Str!UpTo(str1, limit)), Str!Folded(Str!UpTo(str2, limit)))
    BY <1>1, <2>1, StrnicmpIs
  <2> QED BY <1>2, <2>1, <2>2 DEF Str!AgreesWithReference
<1>7. CASE Str!Call("strstr", Str!Strstr(str1, str2))
  <2>1. called' = "strstr" /\ value' = Str!Strstr(str1, str2)
    BY <1>7 DEF Str!Call
  <2>2. Str!IsFirst(value', Str!Occurs(str1, str2))
    BY <1>1, <2>1, StrstrIs
  <2> QED BY <1>2, <2>1, <2>2 DEF Str!AgreesWithReference
<1>8. CASE Str!Call("stristr", Str!Stristr(str1, str2))
  <2>1. called' = "stristr" /\ value' = Str!Stristr(str1, str2)
    BY <1>8 DEF Str!Call
  <2>2. Str!IsFirst(value', Str!Occurs(Str!Folded(str1), Str!Folded(str2)))
    BY <1>1, <2>1, StristrIs
  <2> QED BY <1>2, <2>1, <2>2 DEF Str!AgreesWithReference
<1>9. CASE str2 # <<>> /\ Str!Call("strchr", Str!Strchr(str1, str2[1]))
  <2>1. called' = "strchr" /\ value' = Str!Strchr(str1, str2[1])
    BY <1>9 DEF Str!Call
  <2>2. Str!IsFirst(value', {i \in DOMAIN str1 : str1[i] = str2[1]})
    BY <1>1, <2>1, StrchrIs
  <2> QED BY <1>2, <2>1, <2>2 DEF Str!AgreesWithReference
<1>10. CASE str2 # <<>> /\ Str!Call("strrchr", Str!Strrchr(str1, str2[1]))
  <2>1. called' = "strrchr" /\ value' = Str!Strrchr(str1, str2[1])
    BY <1>10 DEF Str!Call
  <2>2. str2[1] \in Codes8
    <3>1. Len(str2) \in Nat \ {0}
      BY <1>1, <1>10, EmptySeq
    <3>2. 1 \in 1..Len(str2)
      BY <3>1
    <3> QED BY <1>1, <3>2, ElementOfSeq
  <2>3. Str!IsLast(value', {i \in DOMAIN str1 : str1[i] = str2[1]})
    BY <1>1, <2>1, <2>2, StrrchrIs
  <2> QED BY <1>2, <2>1, <2>3 DEF Str!AgreesWithReference
<1>11. CASE Len(str1) <= limit /\ Str!Call("strlcat", Str!Strlcat(str1, str2, limit))
  <2>1. called' = "strlcat" /\ value' = Str!Strlcat(str1, str2, limit)
    BY <1>11 DEF Str!Call
  <2>2. value'[2] = Len(str1) + Len(str2)
        /\ value'[1] = IF Len(str1) = limit THEN str1 ELSE Str!UpTo(str1 \o str2, limit - 1)
    BY <1>1, <1>11, <2>1, StrlcatIs
  <2> QED BY <1>2, <2>1, <2>2 DEF Str!AgreesWithReference
<1>12. CASE Str!Call("strrev", Str!Strrev(str1))
  <2>1. called' = "strrev" /\ value' = Str!Strrev(str1)
    BY <1>12 DEF Str!Call
  <2>2. value' = Str!Reverse(str1)
    BY <1>1, <2>1, StrrevIs
  <2> QED BY <1>2, <2>1, <2>2 DEF Str!AgreesWithReference
<1>13. CASE Str!Call("strlwr", Str!Strlwr(str1))
  <2>1. called' = "strlwr" /\ value' = Str!Strlwr(str1)
    BY <1>13 DEF Str!Call
  <2>2. value' = Str!Folded(str1)
    BY <1>1, <2>1, StrlwrIs
  <2> QED BY <1>2, <2>1, <2>2 DEF Str!AgreesWithReference
<1>14. CASE Str!Call("strupr", Str!Strupr(str1))
  <2>1. called' = "strupr" /\ value' = Str!Strupr(str1)
    BY <1>14 DEF Str!Call
  <2>2. Str!Folded(value') = Str!Folded(str1) /\ \A i \in DOMAIN value' : value'[i] \notin 97..122
    BY <1>1, <2>1, StruprIs
  <2> QED BY <1>2, <2>1, <2>2 DEF Str!AgreesWithReference
<1>15. CASE limit <= Len(str1) + 1 /\ limit <= Len(str2) + 1 /\ Str!Call("memcmp", Str!Memcmp(str1, str2, limit))
  <2>1. called' = "memcmp" /\ value' = Str!Memcmp(str1, str2, limit)
    BY <1>15 DEF Str!Call
  <2>2. value' = Str!Order(SubSeq(Append(str1, Str!Nul), 1, limit), SubSeq(Append(str2, Str!Nul), 1, limit))
    BY <1>1, <1>15, <2>1, MemcmpIs
  <2> QED BY <1>2, <2>1, <2>2 DEF Str!AgreesWithReference
<1>16. CASE Str!Call("find", Str!Find(str1, str2, limit))
  <2>1. called' = "find" /\ value' = Str!Find(str1, str2, limit)
    BY <1>16 DEF Str!Call
  <2>2. Str!IsFirst(value', Str!Behind(Str!Occurs(str1, str2), limit))
    BY <1>1, <2>1, FindIs
  <2> QED BY <1>2, <2>1, <2>2 DEF Str!AgreesWithReference
<1>17. CASE Str!Call("find, ignoring case", Str!FindIgnoringCase(str1, str2, limit))
  <2>1. called' = "find, ignoring case" /\ value' = Str!FindIgnoringCase(str1, str2, limit)
    BY <1>17 DEF Str!Call
  <2>2. Str!IsFirst(value', Str!Behind(Str!Occurs(Str!Folded(str1), Str!Folded(str2)), limit))
    BY <1>1, <2>1, FindIgnoringCaseIs
  <2> QED BY <1>2, <2>1, <2>2 DEF Str!AgreesWithReference
<1>18. CASE str2 # <<>> /\ Str!Call("find char", Str!FindChar(str1, str2[1], limit))
  <2>1. called' = "find char" /\ value' = Str!FindChar(str1, str2[1], limit)
    BY <1>18 DEF Str!Call
  <2>2. Str!IsFirst(value', Str!Behind({i \in DOMAIN str1 : str1[i] = str2[1]}, limit))
    BY <1>1, <2>1, FindCharIs
  <2> QED BY <1>2, <2>1, <2>2 DEF Str!AgreesWithReference
<1>19. CASE str2 # <<>> /\ Str!Call("count", Str!Count(str1, str2, limit))
  <2>1. called' = "count" /\ value' = Str!Count(str1, str2, limit)
    BY <1>19 DEF Str!Call
  <2>2. Len(str2) \in Nat \ {0}
    BY <1>1, <1>19, EmptySeq
  <2>3. value' = Str!MostApart(Str!Behind(Str!Occurs(str1, str2), limit), str2)
    BY <1>1, <2>1, <2>2, CountIs
  <2> QED BY <1>2, <2>1, <2>3 DEF Str!AgreesWithReference
<1>20. CASE Str!Call("equals", Str!Equals(str1, str2))
  <2>1. called' = "equals" /\ value' = Str!Equals(str1, str2)
    BY <1>20 DEF Str!Call
  <2>2. value' = (str1 = str2)
    BY <1>1, <2>1, AnswersAre
  <2> QED BY <1>2, <2>1, <2>2 DEF Str!AgreesWithReference
<1>21. CASE Str!Call("equals, ignoring case", Str!EqualsIgnoringCase(str1, str2))
  <2>1. called' = "equals, ignoring case" /\ value' = Str!EqualsIgnoringCase(str1, str2)
    BY <1>21 DEF Str!Call
  <2>2. value' = (Str!Folded(str1) = Str!Folded(str2))
    BY <1>1, <2>1, AnswersAre
  <2> QED BY <1>2, <2>1, <2>2 DEF Str!AgreesWithReference
<1>22. CASE Str!Call("starts_with", Str!StartsWith(str1, str2))
  <2>1. called' = "starts_with" /\ value' = Str!StartsWith(str1, str2)
    BY <1>22 DEF Str!Call
  <2>2. value' = Str!IsPrefix(str2, str1)
    BY <1>1, <2>1, AnswersAre
  <2> QED BY <1>2, <2>1, <2>2 DEF Str!AgreesWithReference
<1>23. CASE Str!Call("ends_with", Str!EndsWith(str1, str2))
  <2>1. called' = "ends_with" /\ value' = Str!EndsWith(str1, str2)
    BY <1>23 DEF Str!Call
  <2>2. value' = Str!IsSuffix(str2, str1)
    BY <1>1, <2>1, AnswersAre
  <2> QED BY <1>2, <2>1, <2>2 DEF Str!AgreesWithReference
<1> QED
  BY <1>3, <1>4, <1>5, <1>6, <1>7, <1>8, <1>9, <1>10, <1>11, <1>12, <1>13, <1>14, <1>15, <1>16, <1>17, <1>18, <1>19, <1>20, <1>21, <1>22, <1>23 DEF Str!Next

\* What the string functions promise: they compare, search, join and turn strings as a
\* reference definition does, whatever the strings and for all lengths.  See AgreesWithReference.
THEOREM StringsAgree == Str!Spec => []AgreesWithReference
<1>1. CallInv /\ [Str!Next]_(Str!vars) => CallInv'
  <2> SUFFICES ASSUME CallInv, [Str!Next]_(Str!vars) PROVE CallInv'
    OBVIOUS
  <2>1. CASE Str!Next
    <3>1. ArgumentsAre'
      BY <2>1 DEF CallInv, ArgumentsAre, Str!Next, Str!Call
    <3>2. Str!AgreesWithReference'
      BY <2>1, CallAgrees DEF CallInv
    <3> QED BY <3>1, <3>2 DEF CallInv
  <2>2. CASE UNCHANGED Str!vars
    BY <2>2 DEF CallInv, ArgumentsAre, Str!vars, Str!AgreesWithReference
  <2> QED BY <2>1, <2>2
<1>2. CallInv => AgreesWithReference
  BY DEF CallInv, AgreesWithReference
<1> QED BY <1>1, <1>2, InitAgrees, PTL DEF Str!Spec

-----------------------------------------------------------------------------
(* The console font.                                                        *)

\* What the first byte of each length announces.
LEMMA AnnouncedIs ==
    ASSUME NEW c \in 0..255
    PROVE  /\ Ssfn!Announced(c) =
                IF c < 128 THEN [n |-> 0, c |-> c]
                ELSE IF (c \div 32) % 2 # 1 THEN [n |-> 1, c |-> c % 32]
                ELSE IF (c \div 16) % 2 # 1 THEN [n |-> 2, c |-> c % 16]
                ELSE IF (c \div 8) % 2 # 1 THEN [n |-> 3, c |-> c % 8]
                ELSE [n |-> 0, c |-> 0]
           /\ Ssfn!Announced(c).n \in 0..3 /\ Ssfn!Announced(c).c \in Nat
<1>1. (c \div 128) % 2 = 1 <=> ~(c < 128)
  OBVIOUS
<1>2. Ssfn!Announced(c) =
        IF c < 128 THEN [n |-> 0, c |-> c]
        ELSE IF (c \div 32) % 2 # 1 THEN [n |-> 1, c |-> c % 32]
        ELSE IF (c \div 16) % 2 # 1 THEN [n |-> 2, c |-> c % 16]
        ELSE IF (c \div 8) % 2 # 1 THEN [n |-> 3, c |-> c % 8]
        ELSE [n |-> 0, c |-> 0]
  BY SMT, <1>1 DEF Ssfn!Announced
<1>3. c % 32 \in Nat /\ c % 16 \in Nat /\ c % 8 \in Nat
  OBVIOUS
<1> QED BY SMT, <1>2, <1>3

LEMMA AnnouncedShare ==
    /\ \A c \in 0..127 : Ssfn!Announced(c) = [n |-> 0, c |-> c]
    /\ \A h \in 0..31 : Ssfn!Announced(192 + h) = [n |-> 1, c |-> h]
    /\ \A h \in 0..15 : Ssfn!Announced(224 + h) = [n |-> 2, c |-> h]
    /\ \A h \in 0..7 : Ssfn!Announced(240 + h) = [n |-> 3, c |-> h]
<1>1. ASSUME NEW c \in 0..127 PROVE Ssfn!Announced(c) = [n |-> 0, c |-> c]
  <2>1. (c \div 128) % 2 # 1
    OBVIOUS
  <2> QED BY SMT, <2>1 DEF Ssfn!Announced
<1>2. ASSUME NEW h \in 0..31 PROVE Ssfn!Announced(192 + h) = [n |-> 1, c |-> h]
  <2>1. 192 + h \in 0..255 /\ ~(192 + h < 128) /\ ((192 + h) \div 32) % 2 # 1 /\ (192 + h) % 32 = h
    OBVIOUS
  <2> QED BY SMTT(30), <2>1, AnnouncedIs
<1>3. ASSUME NEW h \in 0..15 PROVE Ssfn!Announced(224 + h) = [n |-> 2, c |-> h]
  <2>1. /\ 224 + h \in 0..255 /\ ~(224 + h < 128) /\ ((224 + h) \div 32) % 2 = 1
        /\ ((224 + h) \div 16) % 2 # 1 /\ (224 + h) % 16 = h
    OBVIOUS
  <2> QED BY SMTT(30), <2>1, AnnouncedIs
<1>4. ASSUME NEW h \in 0..7 PROVE Ssfn!Announced(240 + h) = [n |-> 3, c |-> h]
  <2>1. /\ 240 + h \in 0..255 /\ ~(240 + h < 128) /\ ((240 + h) \div 32) % 2 = 1
        /\ ((240 + h) \div 16) % 2 = 1 /\ ((240 + h) \div 8) % 2 # 1 /\ (240 + h) % 8 = h
    OBVIOUS
  <2> QED BY SMTT(30), <2>1, AnnouncedIs
<1> QED BY Zenon, <1>1, <1>2, <1>3, <1>4

\* Bytes of the inside are bytes of the string.
LEMMA ContinuesIs ==
    ASSUME string \in Seq(1..255), NEW i \in Nat \ {0}
    PROVE  /\ Len(string) \in Nat /\ Ssfn!Byte(i) \in 0..255
           /\ i \in 1..Len(string) => Ssfn!Byte(i) = string[i] /\ Ssfn!Byte(i) # 0
           /\ i \notin 1..Len(string) => Ssfn!Byte(i) = 0
           /\ Ssfn!Continues(i) => i \in 1..Len(string)
<1>1. Len(string) \in Nat /\ DOMAIN string = 1..Len(string)
  BY LenProperties
<1>2. i \in 1..Len(string) => string[i] \in 1..255
  BY ElementOfSeq
<1>3. Ssfn!Byte(i) = IF i \in 1..Len(string) THEN string[i] ELSE 0
  BY <1>1 DEF Ssfn!Byte
<1>4. 0 \div 64 # 2
  OBVIOUS
<1>5. /\ i \in 1..Len(string) => Ssfn!Byte(i) = string[i] /\ string[i] \in 1..255
      /\ i \notin 1..Len(string) => Ssfn!Byte(i) = 0
  BY <1>2, <1>3
<1>6. Ssfn!Byte(i) \in 0..255 /\ (i \in 1..Len(string) => Ssfn!Byte(i) # 0)
  <2>1. CASE i \in 1..Len(string)
    <3>1. Ssfn!Byte(i) \in 1..255
      BY Zenon, <1>5, <2>1
    <3>2. \A c : c \in 1..255 => c \in 0..255 /\ c # 0
      OBVIOUS
    <3> QED BY Zenon, <3>1, <3>2
  <2>2. CASE i \notin 1..Len(string)
    <3>1. Ssfn!Byte(i) = 0
      BY Zenon, <1>5, <2>2
    <3>2. 0 \in 0..255
      OBVIOUS
    <3> QED BY Zenon, <2>2, <3>1, <3>2
  <2> QED BY Zenon, <2>1, <2>2
<1>7. Ssfn!Continues(i) => Ssfn!Byte(i) # 0
  BY <1>4 DEF Ssfn!Continues
<1> QED BY Zenon, <1>1, <1>5, <1>6, <1>7

\* f is the code of a first byte's share a and n more bytes, after each of them.
SixBits(f, a, n) ==
    f = [i \in 0..n |-> IF i = 0 THEN a ELSE f[i - 1] * 64 + (Ssfn!Byte(place + i) % 64)]

LEMMA CodesAdd ==
    ASSUME NEW a \in Nat, NEW n \in 0..3, NEW f, SixBits(f, a, n),
           \A i \in 1..3 : Ssfn!Byte(place + i) \in 0..255
    PROVE  /\ f[n] \in Nat
           /\ n = 0 => f[n] = a
           /\ n = 1 => f[n] = a * 64 + (Ssfn!Byte(place + 1) % 64)
           /\ n = 2 => f[n] = (a * 64 + (Ssfn!Byte(place + 1) % 64)) * 64 + (Ssfn!Byte(place + 2) % 64)
           /\ n = 3 => f[n] = ((a * 64 + (Ssfn!Byte(place + 1) % 64)) * 64 + (Ssfn!Byte(place + 2) % 64)) * 64
                               + (Ssfn!Byte(place + 3) % 64)
<1> DEFINE b(i) == Ssfn!Byte(place + i) % 64
<1>1. b(1) \in Nat /\ b(2) \in Nat /\ b(3) \in Nat
  BY 1 \in 1..3, 2 \in 1..3, 3 \in 1..3
<1>2. \A i \in 0..n : f[i] = IF i = 0 THEN a ELSE f[i - 1] * 64 + b(i)
  BY Zenon DEF SixBits
<1> HIDE DEF b
<1>3. f[0] = a
  BY <1>2
<1>4. n >= 1 => f[1] = a * 64 + b(1)
  <2>1. n >= 1 => f[1] = f[1 - 1] * 64 + b(1)
    BY <1>2
  <2> QED BY <2>1, <1>3
<1>5. n >= 2 => f[2] = (a * 64 + b(1)) * 64 + b(2)
  <2>1. n >= 2 => f[2] = f[2 - 1] * 64 + b(2)
    BY <1>2
  <2> QED BY <2>1, <1>4
<1>6. n >= 3 => f[3] = ((a * 64 + b(1)) * 64 + b(2)) * 64 + b(3)
  <2>1. n >= 3 => f[3] = f[3 - 1] * 64 + b(3)
    BY <1>2
  <2> QED BY <2>1, <1>5
<1>7. n = 0 \/ n = 1 \/ n = 2 \/ n = 3
  OBVIOUS
<1> QED BY <1>1, <1>3, <1>4, <1>5, <1>6, <1>7 DEF b

LEMMA CodesAre ==
    ASSUME NEW a \in Nat, NEW n \in 0..3
    PROVE  \E f : SixBits(f, a, n)
<1> DEFINE b(i) == Ssfn!Byte(place + i) % 64
           f == [i \in 0..n |-> IF i = 0 THEN a ELSE IF i = 1 THEN a * 64 + b(1)
                                ELSE IF i = 2 THEN (a * 64 + b(1)) * 64 + b(2)
                                ELSE ((a * 64 + b(1)) * 64 + b(2)) * 64 + b(3)]
<1>1. ASSUME NEW i \in 0..n
      PROVE  f[i] = IF i = 0 THEN a ELSE f[i - 1] * 64 + b(i)
  <2>1. i = 0 \/ i = 1 \/ i = 2 \/ i = 3
    OBVIOUS
  <2>2. i # 0 => i - 1 \in 0..n
    OBVIOUS
  <2> HIDE DEF b
  <2> QED BY <2>1, <2>2
<1>2. f = [i \in 0..n |-> IF i = 0 THEN a ELSE f[i - 1] * 64 + b(i)]
  <2>1. f = [i \in 0..n |-> f[i]]
    OBVIOUS
  <2> HIDE DEF f
  <2> QED BY Zenon, <1>1, <2>1
<1> HIDE DEF f
<1>3. SixBits(f, a, n)
  BY Zenon, <1>2 DEF SixBits
<1> QED BY Zenon, <1>3

\* One code point off the string.
LEMMA Utf8Is ==
    ASSUME NEW n, n = Ssfn!Announced(Ssfn!Byte(place)).n
    PROVE  \E f : /\ (\E g : SixBits(g, Ssfn!Announced(Ssfn!Byte(place)).c, n))
                       => SixBits(f, Ssfn!Announced(Ssfn!Byte(place)).c, n)
                  /\ Ssfn!Utf8 =
                       LET short == {i \in 1..n : ~Ssfn!Continues(place + i)}
                       IN  IF short # {}
                           THEN [c |-> 0, s |-> place + CHOOSE i \in short : \A j \in short : i <= j]
                           ELSE [c |-> f[n], s |-> place + 1 + n]
<1> DEFINE f == CHOOSE f : SixBits(f, Ssfn!Announced(Ssfn!Byte(place)).c, n)
<1>1. Ssfn!Utf8 =
        LET short == {i \in 1..n : ~Ssfn!Continues(place + i)}
        IN  IF short # {}
            THEN [c |-> 0, s |-> place + CHOOSE i \in short : \A j \in short : i <= j]
            ELSE [c |-> f[n], s |-> place + 1 + n]
  BY Zenon DEF Ssfn!Utf8, SixBits
<1>2. (\E g : SixBits(g, Ssfn!Announced(Ssfn!Byte(place)).c, n))
        => SixBits(f, Ssfn!Announced(Ssfn!Byte(place)).c, n)
  BY Zenon
<1> HIDE DEF f
<1> QED BY Zenon, <1>1, <1>2

\* Where the cursor is behind a code point: not behind the string's NUL.
LEMMA Utf8Goes ==
    ASSUME string \in Seq(1..255), place \in 1..Len(string)
    PROVE  Ssfn!Utf8.s \in (place + 1)..(Len(string) + 1)
<1> DEFINE n == Ssfn!Announced(Ssfn!Byte(place)).n
           short == {i \in 1..n : ~Ssfn!Continues(place + i)}
           at == CHOOSE i \in short : \A j \in short : i <= j
<1>1. Len(string) \in Nat /\ place \in Nat \ {0}
  BY LenProperties
<1>2. n \in 0..3
  BY <1>1, ContinuesIs, AnnouncedIs
<1>3. \A i \in 1..n : Ssfn!Continues(place + i) => place + i \in 1..Len(string)
  <2> SUFFICES ASSUME NEW i \in 1..n, Ssfn!Continues(place + i) PROVE place + i \in 1..Len(string)
    OBVIOUS
  <2>1. place + i \in Nat \ {0}
    BY <1>1, <1>2
  <2> QED BY <2>1, ContinuesIs
<1>4. Ssfn!Utf8.s = IF short # {} THEN place + at ELSE place + 1 + n
  <2>1. PICK f : Ssfn!Utf8 = IF short # {} THEN [c |-> 0, s |-> place + at] ELSE [c |-> f[n], s |-> place + 1 + n]
    BY Zenon, Utf8Is
  <2> HIDE DEF short, at, n
  <2> QED BY <2>1
<1>5. CASE short # {}
  <2>1. short \subseteq Nat /\ short \subseteq 1..n
    BY <1>2
  <2>2. \E k \in short : \A j \in short : k <= j
    <3> HIDE DEF short
    <3> QED BY <1>5, <2>1, LeastNatural
  <2>3. at \in short /\ \A j \in short : at <= j
    <3> HIDE DEF short
    <3> QED BY Zenon, <2>2
  <2>4. at \in 1..n
    BY <2>1, <2>3
  <2>5. at # 1 => place + (at - 1) \in 1..Len(string)
    <3> SUFFICES ASSUME at # 1 PROVE place + (at - 1) \in 1..Len(string)
      OBVIOUS
    <3> HIDE DEF at
    <3>1. at - 1 \in 1..n /\ ~(at <= at - 1)
      BY <1>2, <2>4
    <3>2. at - 1 \notin short
      <4> HIDE DEF short
      <4> QED BY <2>3, <3>1
    <3>3. Ssfn!Continues(place + (at - 1))
      BY <3>1, <3>2
    <3> QED BY <1>3, <3>1, <3>3
  <2> HIDE DEF at, n, short
  <2>6. at \in Nat /\ at >= 1 /\ (at # 1 => place + (at - 1) <= Len(string)) /\ place <= Len(string)
    BY <1>1, <1>2, <2>4, <2>5
  <2> QED BY <1>1, <1>4, <1>5, <2>6
<1>6. CASE short = {}
  <2>1. n # 0 => place + n \in 1..Len(string)
    <3> SUFFICES ASSUME n # 0 PROVE place + n \in 1..Len(string)
      OBVIOUS
    <3>1. n \in 1..n
      <4> HIDE DEF n
      <4> QED BY <1>2
    <3>2. Ssfn!Continues(place + n)
      BY <1>6, <3>1
    <3> QED BY <1>3, <3>1, <3>2
  <2> HIDE DEF short, n
  <2> QED BY <1>1, <1>2, <1>4, <1>6, <2>1
<1> QED BY <1>5, <1>6

\* Numbers in base 64.
LEMMA Sixes ==
    ASSUME NEW c \in Nat
    PROVE  /\ c % 64 \in 0..63 /\ (c \div 64) % 64 \in 0..63 /\ (c \div 4096) % 64 \in 0..63
           /\ c < 2048 => c \div 64 \in 0..31
           /\ c >= 128 => c \div 64 >= 2
           /\ c < 65536 => c \div 4096 \in 0..15
           /\ c < 2097152 => c \div 262144 \in 0..7
           /\ (c \div 64) * 64 + (c % 64) = c
           /\ ((c \div 4096) * 64 + ((c \div 64) % 64)) * 64 + (c % 64) = c
           /\ (((c \div 262144) * 64 + ((c \div 4096) % 64)) * 64 + ((c \div 64) % 64)) * 64 + (c % 64) = c
OBVIOUS

\* A byte of the inside.
LEMMA Inside ==
    ASSUME NEW d \in 0..63
    PROVE  128 + d \in 1..255 /\ (128 + d) \div 64 = 2 /\ (128 + d) % 64 = d
OBVIOUS

CodePoints == 1..(Ssfn!Codespace - 1)

LEMMA CodePointIs ==
    ASSUME NEW c \in CodePoints
    PROVE  c \in Nat /\ c >= 1 /\ c < 2097152
<1>1. Ssfn!Codespace \in Nat /\ Ssfn!Codespace < 2097152
  <2>1. 1114112 \in Nat /\ 1114112 < 2097152
    BY SMT
  <2> QED BY SMT, <2>1 DEF Ssfn!Codespace
<1>2. c \in 1..(Ssfn!Codespace - 1)
  BY Zenon DEF CodePoints
<1> QED BY SMT, <1>1, <1>2

\* e are the bytes of c: the first one announces n more.
InTwo(e, c)   == \E h \in 0..31, i \in 0..63 : e = <<192 + h, 128 + i>> /\ h * 64 + i = c
InThree(e, c) == \E h \in 0..15, i, j \in 0..63 : e = <<224 + h, 128 + i, 128 + j>> /\ (h * 64 + i) * 64 + j = c
InFour(e, c)  == \E h \in 0..7, i, j, l \in 0..63 : /\ e = <<240 + h, 128 + i, 128 + j, 128 + l>>
                                                    /\ ((h * 64 + i) * 64 + j) * 64 + l = c
IsEncoded(e, c, n) ==
    /\ n = 0 => c < 128 /\ e = <<c>>
    /\ n = 1 => InTwo(e, c)
    /\ n = 2 => InThree(e, c)
    /\ n = 3 => InFour(e, c)

\* A code point's bytes, none of which is a NUL.
LEMMA EncodedIs ==
    ASSUME NEW c \in CodePoints
    PROVE  \E n \in 0..3 : IsEncoded(Ssfn!Encoded(c), c, n)
<1>1. c \in Nat /\ c >= 1 /\ c < 2097152
  BY SMT, CodePointIs
<1>7. \A x \in Nat : x \div 1 = x
  OBVIOUS
<1> DEFINE a == c % 64
           b == (c \div 64) % 64
           d == (c \div 4096) % 64
           e == Ssfn!Encoded(c)
<1>2. a \in 0..63 /\ b \in 0..63 /\ d \in 0..63
  BY <1>1, Sixes
<1>3. CASE c < 128
  <2>1. e = <<c>>
    BY SMT, <1>3 DEF Ssfn!Encoded
  <2> HIDE DEF e
  <2>2. IsEncoded(e, c, 0)
    BY <1>3, <2>1 DEF IsEncoded
  <2> QED BY <2>2 DEF e
<1>4. CASE ~(c < 128) /\ c < 2048
  <2> DEFINE h == c \div 64
  <2>1. e = <<192 + h, 128 + a>>
    BY SMT, <1>1, <1>7, <1>4 DEF Ssfn!Encoded
  <2>2. h \in 0..31 /\ h * 64 + a = c
    BY <1>1, <1>4, Sixes
  <2> HIDE DEF e, h, a
  <2>3. InTwo(e, c)
    <3> USE <1>2, <2>1, <2>2 DEF InTwo
    <3> WITNESS h \in 0..31, a \in 0..63
    <3> QED OBVIOUS
  <2>4. IsEncoded(e, c, 1)
    BY <2>3 DEF IsEncoded
  <2> QED BY <2>4 DEF e
<1>5. CASE ~(c < 128) /\ ~(c < 2048) /\ c < 65536
  <2> DEFINE h == c \div 4096
  <2>1. e = <<224 + h, 128 + b, 128 + a>>
    BY SMT, <1>1, <1>7, <1>5 DEF Ssfn!Encoded
  <2>2. h \in 0..15 /\ (h * 64 + b) * 64 + a = c
    BY SMT, <1>1, <1>7, <1>5, Sixes
  <2> HIDE DEF e, h, a, b
  <2>3. InThree(e, c)
    <3> USE <1>2, <2>1, <2>2 DEF InThree
    <3> WITNESS h \in 0..15, b \in 0..63, a \in 0..63
    <3> QED BY ZenonT(60)
  <2>4. IsEncoded(e, c, 2)
    BY <2>3 DEF IsEncoded
  <2> QED BY <2>4 DEF e
<1>6. CASE ~(c < 128) /\ ~(c < 2048) /\ ~(c < 65536)
  <2> DEFINE h == c \div 262144
  <2>1. e = <<240 + h, 128 + d, 128 + b, 128 + a>>
    BY SMT, <1>1, <1>7, <1>6 DEF Ssfn!Encoded
  <2>2. h \in 0..7 /\ ((h * 64 + d) * 64 + b) * 64 + a = c
    BY SMT, <1>1, <1>7, <1>6, Sixes
  <2> HIDE DEF e, h, a, b, d
  <2>3. InFour(e, c)
    <3> USE <1>2, <2>1, <2>2 DEF InFour
    <3> WITNESS h \in 0..7, d \in 0..63, b \in 0..63, a \in 0..63
    <3> QED BY ZenonT(60)
  <2>4. IsEncoded(e, c, 3)
    BY <2>3 DEF IsEncoded
  <2> QED BY <2>4 DEF e
<1> QED BY SMT, <1>1, <1>7, <1>3, <1>4, <1>5, <1>6

LEMMA EncodedBytes ==
    ASSUME NEW c \in CodePoints, NEW e, NEW n \in 0..3, IsEncoded(e, c, n)
    PROVE  e \in Seq(1..255) /\ Len(e) = 1 + n
<1>1. \A S, a, b, d, f : a \in S /\ b \in S /\ d \in S /\ f \in S =>
        /\ <<a>> \in Seq(S) /\ Len(<<a>>) = 1
        /\ <<a, b>> \in Seq(S) /\ Len(<<a, b>>) = 2
        /\ <<a, b, d>> \in Seq(S) /\ Len(<<a, b, d>>) = 3
        /\ <<a, b, d, f>> \in Seq(S) /\ Len(<<a, b, d, f>>) = 4
  OBVIOUS
<1>2. \A i \in 0..63 : 128 + i \in 1..255
  OBVIOUS
<1>3. CASE n = 0
  <2>1. e = <<c>> /\ c < 128
    BY <1>3, SMT DEF IsEncoded
  <2>2. c \in 1..255
    BY <2>1, SMT, CodePointIs
  <2>3. e \in Seq(1..255) /\ Len(e) = 1
    BY ZenonT(60), <1>1, <2>1, <2>2
  <2> QED BY <1>3, <2>3
<1>4. CASE n = 1
  <2>1. InTwo(e, c)
    BY <1>4, SMT DEF IsEncoded
  <2>2. PICK h \in 0..31, i \in 0..63 : e = <<192 + h, 128 + i>>
    BY Zenon, <2>1 DEF InTwo
  <2>3. 192 + h \in 1..255 /\ 128 + i \in 1..255
    OBVIOUS
  <2>4. \A x, y : x \in 1..255 /\ y \in 1..255 => <<x, y>> \in Seq(1..255) /\ Len(<<x, y>>) = 2
    BY ZenonT(60), <1>1
  <2>5. e \in Seq(1..255) /\ Len(e) = 2
    BY SMT, <2>2, <2>3, <2>4
  <2> QED BY <1>4, <2>5
<1>5. CASE n = 2
  <2>1. InThree(e, c)
    BY <1>5, SMT DEF IsEncoded
  <2>2. PICK h \in 0..15, i \in 0..63, j \in 0..63 : e = <<224 + h, 128 + i, 128 + j>>
    BY ZenonT(60), <2>1 DEF InThree
  <2>3. 224 + h \in 1..255 /\ 128 + i \in 1..255 /\ 128 + j \in 1..255
    OBVIOUS
  <2>4. \A x, y, z : x \in 1..255 /\ y \in 1..255 /\ z \in 1..255 =>
          <<x, y, z>> \in Seq(1..255) /\ Len(<<x, y, z>>) = 3
    BY ZenonT(60), <1>1
  <2>5. e \in Seq(1..255) /\ Len(e) = 3
    BY SMT, <2>2, <2>3, <2>4
  <2> QED BY <1>5, <2>5
<1>6. CASE n = 3
  <2>1. InFour(e, c)
    BY <1>6, SMT DEF IsEncoded
  <2>2. PICK h \in 0..7, i \in 0..63, j \in 0..63, l \in 0..63 : e = <<240 + h, 128 + i, 128 + j, 128 + l>>
    BY ZenonT(60), <2>1 DEF InFour
  <2>3. 240 + h \in 1..255 /\ 128 + i \in 1..255 /\ 128 + j \in 1..255 /\ 128 + l \in 1..255
    OBVIOUS
  <2>4. \A x, y, z, w : x \in 1..255 /\ y \in 1..255 /\ z \in 1..255 /\ w \in 1..255 =>
          <<x, y, z, w>> \in Seq(1..255) /\ Len(<<x, y, z, w>>) = 4
    BY ZenonT(60), <1>1
  <2>5. e \in Seq(1..255) /\ Len(e) = 4
    BY SMT, <2>2, <2>3, <2>4
  <2> QED BY <1>6, <2>5
<1> QED BY <1>3, <1>4, <1>5, <1>6

\* The bytes e are here.
Here(e) == \A i \in 0..(Len(e) - 1) : place + i \in 1..Len(string) /\ string[place + i] = e[i + 1]

\* The share a of the first byte and what n bytes of the inside add is c.
AddsUp(a, c, n) ==
    /\ a.n = n /\ a.c \in Nat
    /\ \A i \in 1..n : Ssfn!Continues(place + i)
    /\ n = 0 => a.c = c
    /\ n = 1 => a.c * 64 + (Ssfn!Byte(place + 1) % 64) = c
    /\ n = 2 => (a.c * 64 + (Ssfn!Byte(place + 1) % 64)) * 64 + (Ssfn!Byte(place + 2) % 64) = c
    /\ n = 3 => ((a.c * 64 + (Ssfn!Byte(place + 1) % 64)) * 64 + (Ssfn!Byte(place + 2) % 64)) * 64
                        + (Ssfn!Byte(place + 3) % 64) = c

LEMMA Announces ==
    ASSUME string \in Seq(1..255), place \in 1..Len(string),
           NEW c \in CodePoints, NEW e, NEW n \in 0..3, IsEncoded(e, c, n), Here(e),
           NEW a, a = Ssfn!Announced(Ssfn!Byte(place))
    PROVE  AddsUp(a, c, n)
<1>1. Len(string) \in Nat /\ place \in Nat \ {0} /\ Len(e) = 1 + n
  <2>1. Len(string) \in Nat
    BY LenProperties
  <2>2. Len(e) = 1 + n
    BY Zenon, EncodedBytes
  <2> QED BY <2>1, <2>2
<1>2. \A i \in 0..n : Ssfn!Byte(place + i) = e[i + 1]
  <2> SUFFICES ASSUME NEW i \in 0..n PROVE Ssfn!Byte(place + i) = e[i + 1]
    OBVIOUS
  <2>1. place + i \in Nat \ {0} /\ i \in 0..(Len(e) - 1)
    BY <1>1
  <2>2. place + i \in 1..Len(string) /\ string[place + i] = e[i + 1]
    BY Zenon, <2>1 DEF Here
  <2> QED BY Zenon, <2>1, <2>2, ContinuesIs
<1>3. Ssfn!Byte(place) = e[1]
  <2>1. place + 0 = place /\ 0 + 1 = 1 /\ 0 \in 0..n
    BY <1>1
  <2> QED BY Zenon, <1>2, <2>1
<1>4. \A d \in 0..63 : \A i : Ssfn!Byte(place + i) = 128 + d =>
        Ssfn!Continues(place + i) /\ Ssfn!Byte(place + i) % 64 = d
  BY ZenonT(60), Inside DEF Ssfn!Continues
<1>5. CASE n = 0
  <2>1. e = <<c>> /\ c < 128
    BY <1>5, SMT DEF IsEncoded
  <2>4. c \in Nat
    BY SMT, CodePointIs
  <2>2. c \in 0..127
    BY <2>1, <2>4
  <2>3. a = [n |-> 0, c |-> c]
    <3>1. Ssfn!Byte(place) = c
      BY <1>3, <2>1
    <3> QED BY Zenon, <2>1, <2>2, <3>1, AnnouncedShare
  <2> QED BY <1>5, <2>3, <2>4 DEF AddsUp
<1>6. CASE n = 1
  <2>1. InTwo(e, c)
    BY <1>6, SMT DEF IsEncoded
  <2>2. PICK h \in 0..31, d \in 0..63 : e = <<192 + h, 128 + d>> /\ h * 64 + d = c
    BY Zenon, <2>1 DEF InTwo
  <2>3. e[1] = 192 + h /\ e[1 + 1] = 128 + d
    BY <2>2
  <2>4. a = [n |-> 1, c |-> h]
    BY ZenonT(60), <1>3, <2>3, AnnouncedShare
  <2>5. Ssfn!Byte(place + 1) = 128 + d
    <3>1. Ssfn!Byte(place + 1) = e[1 + 1]
      BY <1>2, <1>6
    <3> QED BY <2>3, <3>1
  <2>6. Ssfn!Continues(place + 1) /\ Ssfn!Byte(place + 1) % 64 = d
    BY Zenon, <1>4, <2>5
  <2>7. \A i \in 1..n : i = 1
    BY <1>6
  <2>8. a.n = n /\ a.c = h
    BY <1>6, <2>4
  <2>9. a.c * 64 + (Ssfn!Byte(place + 1) % 64) = c
    BY Zenon, <2>2, <2>6, <2>8
  <2>10. \A i \in 1..n : Ssfn!Continues(place + i)
    BY Zenon, <2>6, <2>7
  <2>11. a.c \in Nat /\ n # 0 /\ n # 2 /\ n # 3
    BY <1>6, <2>8
  <2> QED BY Zenon, <2>8, <2>9, <2>10, <2>11 DEF AddsUp
<1>7. CASE n = 2
  <2>1. InThree(e, c)
    BY <1>7, SMT DEF IsEncoded
  <2>2. PICK h \in 0..15, d \in 0..63, f \in 0..63 :
          e = <<224 + h, 128 + d, 128 + f>> /\ (h * 64 + d) * 64 + f = c
    BY Zenon, <2>1 DEF InThree
  <2>3. e[1] = 224 + h /\ e[1 + 1] = 128 + d /\ e[2 + 1] = 128 + f
    BY <2>2
  <2>4. a = [n |-> 2, c |-> h]
    BY ZenonT(60), <1>3, <2>3, AnnouncedShare
  <2>5. Ssfn!Byte(place + 1) = 128 + d /\ Ssfn!Byte(place + 2) = 128 + f
    <3>1. Ssfn!Byte(place + 1) = e[1 + 1] /\ Ssfn!Byte(place + 2) = e[2 + 1]
      BY <1>2, <1>7
    <3> QED BY <2>3, <3>1
  <2>6. /\ Ssfn!Continues(place + 1) /\ Ssfn!Byte(place + 1) % 64 = d
        /\ Ssfn!Continues(place + 2) /\ Ssfn!Byte(place + 2) % 64 = f
    BY Zenon, <1>4, <2>5
  <2>7. \A i \in 1..n : i = 1 \/ i = 2
    BY <1>7
  <2>8. a.n = n /\ a.c = h
    BY <1>7, <2>4
  <2>9. (a.c * 64 + (Ssfn!Byte(place + 1) % 64)) * 64 + (Ssfn!Byte(place + 2) % 64) = c
    BY Zenon, <2>2, <2>6, <2>8
  <2>10. \A i \in 1..n : Ssfn!Continues(place + i)
    BY Zenon, <2>6, <2>7
  <2>11. a.c \in Nat /\ n # 0 /\ n # 1 /\ n # 3
    BY <1>7, <2>8
  <2> QED BY Zenon, <2>8, <2>9, <2>10, <2>11 DEF AddsUp
<1>8. CASE n = 3
  <2>1. InFour(e, c)
    BY <1>8, SMT DEF IsEncoded
  <2>2. PICK h \in 0..7, d \in 0..63, f \in 0..63, g \in 0..63 :
          e = <<240 + h, 128 + d, 128 + f, 128 + g>> /\ ((h * 64 + d) * 64 + f) * 64 + g = c
    BY Zenon, <2>1 DEF InFour
  <2>3. e[1] = 240 + h /\ e[1 + 1] = 128 + d /\ e[2 + 1] = 128 + f /\ e[3 + 1] = 128 + g
    BY <2>2
  <2>4. a = [n |-> 3, c |-> h]
    BY ZenonT(60), <1>3, <2>3, AnnouncedShare
  <2>5. Ssfn!Byte(place + 1) = 128 + d /\ Ssfn!Byte(place + 2) = 128 + f /\ Ssfn!Byte(place + 3) = 128 + g
    <3>1. Ssfn!Byte(place + 1) = e[1 + 1] /\ Ssfn!Byte(place + 2) = e[2 + 1] /\ Ssfn!Byte(place + 3) = e[3 + 1]
      BY <1>2, <1>8
    <3> QED BY <2>3, <3>1
  <2>6. /\ Ssfn!Continues(place + 1) /\ Ssfn!Byte(place + 1) % 64 = d
        /\ Ssfn!Continues(place + 2) /\ Ssfn!Byte(place + 2) % 64 = f
        /\ Ssfn!Continues(place + 3) /\ Ssfn!Byte(place + 3) % 64 = g
    BY Zenon, <1>4, <2>5
  <2>7. \A i \in 1..n : i = 1 \/ i = 2 \/ i = 3
    BY <1>8
  <2>8. a.n = n /\ a.c = h
    BY <1>8, <2>4
  <2>9. ((a.c * 64 + (Ssfn!Byte(place + 1) % 64)) * 64 + (Ssfn!Byte(place + 2) % 64)) * 64 + (Ssfn!Byte(place + 3) % 64) = c
    BY Zenon, <2>2, <2>6, <2>8
  <2>10. \A i \in 1..n : Ssfn!Continues(place + i)
    BY Zenon, <2>6, <2>7
  <2>11. a.c \in Nat /\ n # 0 /\ n # 1 /\ n # 2
    BY <1>8, <2>8
  <2> QED BY Zenon, <2>8, <2>9, <2>10, <2>11 DEF AddsUp
<1>9. n = 0 \/ n = 1 \/ n = 2 \/ n = 3
  OBVIOUS
<1> QED BY Zenon, <1>5, <1>6, <1>7, <1>8, <1>9 DEF AddsUp

\* Where the bytes of a code point are, it is what comes off the string.
LEMMA Utf8Decodes ==
    ASSUME string \in Seq(1..255), place \in 1..Len(string), NEW c \in CodePoints, Here(Ssfn!Encoded(c))
    PROVE  Ssfn!Utf8 = [c |-> c, s |-> place + Len(Ssfn!Encoded(c))]
<1> DEFINE a == Ssfn!Announced(Ssfn!Byte(place))
           e == Ssfn!Encoded(c)
<1>1. PICK n \in 0..3 : IsEncoded(e, c, n)
  BY EncodedIs
<1>2. Len(e) = 1 + n
  <2> HIDE DEF e
  <2> QED BY <1>1, EncodedBytes
<1>3. AddsUp(a, c, n)
  <2> HIDE DEF e, a, AddsUp
  <2>1. Here(e)
    BY DEF e
  <2>2. a = Ssfn!Announced(Ssfn!Byte(place))
    BY DEF a
  <2> QED BY Zenon, <1>1, <2>1, <2>2, Announces
<1>4. \A i \in 1..3 : Ssfn!Byte(place + i) \in 0..255
  <2> SUFFICES ASSUME NEW i \in 1..3 PROVE Ssfn!Byte(place + i) \in 0..255
    OBVIOUS
  <2>1. Len(string) \in Nat
    BY LenProperties
  <2>2. place + i \in Nat \ {0}
    BY <2>1
  <2> QED BY <2>2, ContinuesIs
<1>5. PICK f : /\ (\E g : SixBits(g, a.c, n)) => SixBits(f, a.c, n)
               /\ Ssfn!Utf8 =
                    LET short == {i \in 1..n : ~Ssfn!Continues(place + i)}
                    IN  IF short # {}
                        THEN [c |-> 0, s |-> place + CHOOSE i \in short : \A j \in short : i <= j]
                        ELSE [c |-> f[n], s |-> place + 1 + n]
  BY Zenon, <1>3, Utf8Is DEF AddsUp
<1> HIDE DEF a, e
<1>6. {i \in 1..n : ~Ssfn!Continues(place + i)} = {}
  BY <1>3 DEF AddsUp
<1>7. Ssfn!Utf8 = [c |-> f[n], s |-> place + 1 + n]
  BY Zenon, <1>5, <1>6
<1>8. f[n] = c
  <2>1. \E g : SixBits(g, a.c, n)
    BY <1>3, CodesAre DEF AddsUp
  <2>2. SixBits(f, a.c, n)
    BY Zenon, <1>5, <2>1
  <2>3. /\ n = 0 => f[n] = a.c
        /\ n = 1 => f[n] = a.c * 64 + (Ssfn!Byte(place + 1) % 64)
        /\ n = 2 => f[n] = (a.c * 64 + (Ssfn!Byte(place + 1) % 64)) * 64 + (Ssfn!Byte(place + 2) % 64)
        /\ n = 3 => f[n] = ((a.c * 64 + (Ssfn!Byte(place + 1) % 64)) * 64 + (Ssfn!Byte(place + 2) % 64)) * 64
                            + (Ssfn!Byte(place + 3) % 64)
    BY <1>3, <1>4, <2>2, CodesAdd DEF AddsUp
  <2>4. n = 0 \/ n = 1 \/ n = 2 \/ n = 3
    OBVIOUS
  <2> QED BY Zenon, <1>3, <2>3, <2>4 DEF AddsUp
<1>9. place + Len(e) = place + 1 + n
  <2>1. Len(string) \in Nat
    BY LenProperties
  <2> QED BY <1>2, <2>1
<1> QED BY Zenon, <1>7, <1>8, <1>9 DEF e

\* Whatever comes off the string is a number.
LEMMA Utf8Number ==
    ASSUME string \in Seq(1..255), place \in 1..Len(string)
    PROVE  Ssfn!Utf8.c \in Nat
<1> DEFINE a == Ssfn!Announced(Ssfn!Byte(place))
           n == a.n
           short == {i \in 1..n : ~Ssfn!Continues(place + i)}
           at == CHOOSE i \in short : \A j \in short : i <= j
<1>1. Len(string) \in Nat /\ place \in Nat \ {0}
  BY LenProperties
<1>2. n \in 0..3 /\ a.c \in Nat
  BY <1>1, ContinuesIs, AnnouncedIs
<1>3. \A i \in 1..3 : Ssfn!Byte(place + i) \in 0..255
  <2> SUFFICES ASSUME NEW i \in 1..3 PROVE Ssfn!Byte(place + i) \in 0..255
    OBVIOUS
  <2>1. place + i \in Nat \ {0}
    BY <1>1
  <2> QED BY <2>1, ContinuesIs
<1>4. PICK f : /\ (\E g : SixBits(g, a.c, n)) => SixBits(f, a.c, n)
               /\ Ssfn!Utf8 = IF short # {} THEN [c |-> 0, s |-> place + at] ELSE [c |-> f[n], s |-> place + 1 + n]
  BY Zenon, Utf8Is
<1> HIDE DEF n, short, at, a
<1>5. f[n] \in Nat
  <2>1. SixBits(f, a.c, n)
    BY <1>2, <1>4, CodesAre
  <2> QED BY <1>2, <1>3, <2>1, CodesAdd
<1> QED BY <1>4, <1>5

Encodings(t) == [i \in DOMAIN t |-> Ssfn!Encoded(t[i])]

\* What comes off the string so far: the code points that it was made of, from the first one on.
Decoded(J) ==
    /\ said \in Seq(CodePoints)
    /\ Joins(J, 1..255, Encodings(said)) /\ string = J[Len(said)]
    /\ Len(codes) <= Len(said) /\ \A i \in 1..Len(codes) : codes[i] = said[i]
    /\ place = 1 + Len(J[Len(codes)])

ReadInv ==
    /\ string \in Seq(1..255) /\ place \in 1..(Len(string) + 1)
    /\ codes \in Seq(Nat)
    /\ said # Ssfn!Arbitrary => \E J : Decoded(J)

\* A text's code points, each in its bytes.
LEMMA EncodingsAre ==
  ASSUME NEW t \in Seq(CodePoints)
  PROVE  /\ Len(t) \in Nat /\ DOMAIN t = 1..Len(t)
         /\ Encodings(t) \in Seq(Seq(1..255)) /\ Len(Encodings(t)) = Len(t)
         /\ \A i \in 1..Len(t) : /\ Encodings(t)[i] = Ssfn!Encoded(t[i]) /\ t[i] \in CodePoints
                                 /\ Ssfn!Encoded(t[i]) \in Seq(1..255) /\ Len(Ssfn!Encoded(t[i])) \in Nat \ {0}
<1>1. Len(t) \in Nat /\ DOMAIN t = 1..Len(t) /\ \A i \in 1..Len(t) : t[i] \in CodePoints
  BY LenProperties, ElementOfSeq
<1>2. ASSUME NEW c \in CodePoints
      PROVE  Ssfn!Encoded(c) \in Seq(1..255) /\ Len(Ssfn!Encoded(c)) \in Nat \ {0}
  <2> DEFINE e == Ssfn!Encoded(c)
  <2>1. PICK n \in 0..3 : IsEncoded(e, c, n)
    BY EncodedIs
  <2> HIDE DEF e
  <2>2. e \in Seq(1..255) /\ Len(e) = 1 + n
    BY <2>1, EncodedBytes
  <2>3. Len(e) \in Nat \ {0}
    BY <2>2
  <2> QED BY <2>2, <2>3 DEF e
<1> DEFINE w == Encodings(t)
<1>3. w \in [1..Len(t) -> Seq(1..255)] /\ \A i \in 1..Len(t) : w[i] = Ssfn!Encoded(t[i])
  BY <1>1, <1>2, Zenon DEF Encodings
<1> HIDE DEF w
<1>4. w \in Seq(Seq(1..255))
  BY <1>1, <1>3
<1>5. Len(w) = Len(t)
  BY <1>1, <1>3, <1>4, LenProperties
<1> QED BY Zenon, <1>1, <1>2, <1>3, <1>4, <1>5 DEF w

\* What there is to come is not less than one code point.
LEMMA OneLeft ==
  ASSUME NEW J, Decoded(J), codes \in Seq(Nat), Len(codes) # Len(said)
  PROVE  LET c == said[Len(codes) + 1]
             e == Ssfn!Encoded(c)
         IN  /\ c \in CodePoints /\ Len(codes) + 1 \in 1..Len(said)
             /\ Len(e) \in Nat \ {0} /\ Len(J[Len(codes)]) \in Nat
             /\ Len(J[Len(codes) + 1]) = Len(J[Len(codes)]) + Len(e)
             /\ Len(J[Len(codes) + 1]) <= Len(string) /\ Len(string) \in Nat
             /\ \A x \in 1..Len(e) : string[Len(J[Len(codes)]) + x] = e[x]
<1> DEFINE m == Len(codes)
           k == Len(said)
           c == said[m + 1]
           e == Ssfn!Encoded(c)
           B == 1..255
           w == Encodings(said)
<1>1. m \in Nat /\ k \in Nat /\ m <= k /\ m # k
  BY LenProperties DEF Decoded
<1>2. m + 1 \in 1..k /\ m \in 0..k /\ m + 1 \in 0..k /\ (m + 1) - 1 = m
  BY <1>1
<1>3. said \in Seq(CodePoints) /\ Joins(J, B, w) /\ string = J[k]
  BY DEF Decoded
<1>4. /\ w \in Seq(Seq(B)) /\ Len(w) = k /\ w[m + 1] = e /\ c \in CodePoints
      /\ e \in Seq(B) /\ Len(e) \in Nat \ {0}
  BY <1>2, <1>3, EncodingsAre
<1> HIDE DEF w, e, c, m, k, B
<1>5. J[m + 1] = J[m] \o e
  <2>1. J[m + 1] = J[(m + 1) - 1] \o w[m + 1]
    BY Zenon, <1>2, <1>3, <1>4 DEF Joins
  <2> QED BY <1>2, <1>4, <2>1
<1>6. /\ J[m + 1] \in Seq(B) /\ J[k] \in Seq(B)
      /\ Len(J[m + 1]) \in Nat /\ Len(J[k]) \in Nat /\ Len(J[m + 1]) <= Len(J[k])
      /\ \A x \in 1..Len(J[m + 1]) : J[k][x] = J[m + 1][x]
  <2>1. m + 1 \in 0..Len(w)
    BY <1>2, <1>4
  <2> DEFINE i == m + 1
             h == Len(w)
  <2> HIDE DEF i
  <2>2. /\ J[i] \in Seq(B) /\ J[h] \in Seq(B) /\ Len(J[i]) \in Nat /\ Len(J[h]) \in Nat
        /\ Len(J[i]) <= Len(J[h]) /\ \A x \in 1..Len(J[i]) : J[h][x] = J[i][x]
    <3>1. i \in 0..Len(w)
      BY <2>1 DEF i
    <3> QED BY <1>3, <1>4, <3>1, JoinsGrow
  <2>3. h = k
    BY <1>4
  <2> HIDE DEF h
  <2> QED BY <2>2, <2>3 DEF i
<1>7. J[m] \in Seq(B)
  BY <1>2, <1>3, <1>4 DEF Joins
<1>8. /\ Len(J[m] \o e) = Len(J[m]) + Len(e) /\ Len(J[m]) \in Nat
      /\ \A x \in 1..Len(e) : (J[m] \o e)[Len(J[m]) + x] = e[x]
  BY ONLY <1>4, <1>7, Joint
<1>9. ASSUME NEW x \in 1..Len(e) PROVE string[Len(J[m]) + x] = e[x]
  <2>1. Len(J[m]) + x \in 1..Len(J[m + 1])
    BY <1>4, <1>5, <1>8
  <2>2. J[k][Len(J[m]) + x] = J[m + 1][Len(J[m]) + x]
    BY Zenon, <1>6, <2>1
  <2>3. J[m + 1][Len(J[m]) + x] = e[x]
    BY Zenon, <1>5, <1>8
  <2> QED BY Zenon, <1>3, <2>2, <2>3
<1>10. Len(J[m + 1]) = Len(J[m]) + Len(e) /\ Len(J[m + 1]) <= Len(string) /\ Len(string) \in Nat
  BY Zenon, <1>3, <1>5, <1>6, <1>8
<1> QED BY Zenon, <1>2, <1>4, <1>8, <1>9, <1>10 DEF e, c, m, k

\* A code point off the string.
LEMMA ReadStays ==
  ASSUME ReadInv, Ssfn!PrintNext
  PROVE  ReadInv'
<1>1. string \in Seq(1..255) /\ place \in 1..(Len(string) + 1) /\ codes \in Seq(Nat) /\ Len(string) \in Nat
  BY LenProperties DEF ReadInv
<1>2. /\ Ssfn!Byte(place) # 0 /\ place' = Ssfn!Utf8.s /\ codes' = Append(codes, Ssfn!Utf8.c)
      /\ said' = said /\ string' = string
  BY DEF Ssfn!PrintNext
<1>3. place \in 1..Len(string)
  <2>1. place \in Nat \ {0}
    BY <1>1
  <2> QED BY <1>2, <1>1, <2>1, ContinuesIs
<1>4. place' \in 1..(Len(string) + 1)
  <2>1. Ssfn!Utf8.s \in (place + 1)..(Len(string) + 1)
    BY <1>1, <1>3, Utf8Goes
  <2> QED BY <1>1, <1>2, <1>3, <2>1
<1>5. Ssfn!Utf8.c \in Nat
  BY <1>1, <1>3, Utf8Number
<1>6. codes' \in Seq(Nat)
  BY <1>1, <1>2, <1>5, AppendProperties
<1>7. ASSUME said # Ssfn!Arbitrary PROVE \E J : Decoded(J)'
  <2>1. PICK J : Decoded(J)
    BY <1>7 DEF ReadInv
  <2> DEFINE m == Len(codes)
             c == said[m + 1]
             e == Ssfn!Encoded(c)
  <2>2. m \in Nat /\ Len(said) \in Nat /\ m <= Len(said)
    BY <1>1, <2>1, LenProperties DEF Decoded
  <2>3. m # Len(said)
    <3>1. place = 1 + Len(J[m]) /\ string = J[Len(said)]
      BY <2>1 DEF Decoded
    <3> SUFFICES ASSUME m = Len(said) PROVE FALSE
      OBVIOUS
    <3>2. place = 1 + Len(string)
      BY Zenon, <3>1
    <3> QED BY <1>1, <1>3, <3>2
  <2>4. /\ c \in CodePoints /\ m + 1 \in 1..Len(said)
        /\ Len(e) \in Nat \ {0} /\ Len(J[m]) \in Nat
        /\ Len(J[m + 1]) = Len(J[m]) + Len(e)
        /\ Len(J[m + 1]) <= Len(string) /\ Len(string) \in Nat
        /\ \A x \in 1..Len(e) : string[Len(J[m]) + x] = e[x]
    BY Zenon, <1>1, <2>1, <2>3, OneLeft
  <2>5. place = 1 + Len(J[m])
    BY <2>1 DEF Decoded
  <2> HIDE DEF m, e, c
  <2>6. Here(e)
    <3> SUFFICES ASSUME NEW i \in 0..(Len(e) - 1)
                 PROVE  place + i \in 1..Len(string) /\ string[place + i] = e[i + 1]
      BY DEF Here
    <3>0. \A a, l, j, n, z \in Nat : /\ z = a + l /\ z <= n /\ j \in 0..(l - 1) /\ place = 1 + a
            => j + 1 \in 1..l /\ place + j = a + (j + 1) /\ place + j \in 1..n
      BY <1>1
    <3>1. i + 1 \in 1..Len(e) /\ place + i = Len(J[m]) + (i + 1) /\ place + i \in 1..Len(string)
      <4>1. /\ Len(J[m]) \in Nat /\ Len(e) \in Nat /\ i \in Nat /\ Len(string) \in Nat
            /\ Len(J[m + 1]) \in Nat
        BY <2>4
      <4> QED BY Zenon, <2>4, <2>5, <3>0, <4>1
    <3> QED BY Zenon, <2>4, <3>1
  <2>7. Ssfn!Utf8 = [c |-> c, s |-> place + Len(e)]
    BY Zenon, <1>1, <1>3, <2>4, <2>6, Utf8Decodes DEF e
  <2>8. codes' = Append(codes, c) /\ place' = place + Len(e)
    BY <1>2, <2>7
  <2>9. Len(codes') = m + 1 /\ \A i \in 1..(m + 1) : codes'[i] = IF i = m + 1 THEN c ELSE codes[i]
    <3>1. c \in Nat
      BY SMT, <2>4, CodePointIs
    <3>2. /\ Len(codes') = Len(codes) + 1
          /\ \A i \in 1..Len(codes) : codes'[i] = codes[i]
          /\ codes'[Len(codes) + 1] = c
      BY <1>1, <2>8, <3>1, AppendProperties
    <3> QED BY <2>2, <3>2 DEF m
  <2>10. \A i \in 1..(m + 1) : codes'[i] = said[i]
    <3>1. \A i \in 1..m : codes[i] = said[i]
      BY <2>1 DEF Decoded, m
    <3> SUFFICES ASSUME NEW i \in 1..(m + 1) PROVE codes'[i] = said[i]
      OBVIOUS
    <3>2. i # m + 1 => i \in 1..m
      BY <2>2
    <3> QED BY <2>9, <3>1, <3>2 DEF c
  <2>11. place' = 1 + Len(J[m + 1])
    BY <2>4, <2>5, <2>8
  <2>12. Decoded(J)'
    <3>1. /\ said \in Seq(CodePoints) /\ Joins(J, 1..255, Encodings(said)) /\ string = J[Len(said)]
      BY <2>1 DEF Decoded
    <3>2. Len(codes') <= Len(said)
      BY <2>2, <2>4, <2>9
    <3> QED BY <1>2, <2>9, <2>10, <2>11, <3>1, <3>2, Zenon DEF Decoded
  <2> QED BY <2>12
<1> QED BY <1>1, <1>2, <1>4, <1>6, <1>7 DEF ReadInv

\* The strings at first.
LEMMA ReadStarts ==
  ASSUME Ssfn!Init
  PROVE  ReadInv
<1>1. place = 1 /\ codes = <<>>
  BY DEF Ssfn!Init
<1>2. codes \in Seq(Nat) /\ Len(codes) = 0
  BY <1>1
<1>3. string \in Seq(1..255) => Len(string) \in Nat /\ place \in 1..(Len(string) + 1)
  <2>1. string \in Seq(1..255) => Len(string) \in Nat
    BY LenProperties
  <2> QED BY <1>1, <2>1
<1>4. CASE said = Ssfn!Arbitrary /\ string \in Ssfn!BoundedSeq(Bytes, MaxBytes)
  <2>1. PICK m \in 0..MaxBytes : string \in [1..m -> Bytes]
    BY Zenon, <1>4 DEF Ssfn!BoundedSeq, Ssfn!SeqOf
  <2>2. MaxBytes \in Nat /\ Bytes \subseteq 1..255
    BY Zenon, FontAssumption
  <2>3. string \in Seq(1..255)
    <3>1. m \in Nat /\ string \in [1..m -> 1..255]
      <4>1. m \in Nat
        BY <2>2
      <4>2. \A S, T, D, f : S \subseteq T /\ f \in [D -> S] => f \in [D -> T]
        OBVIOUS
      <4> QED BY Zenon, <2>1, <2>2, <4>1, <4>2
    <3> QED BY ONLY <3>1
  <2> QED BY <1>2, <1>3, <1>4, <2>3 DEF ReadInv
<1>5. CASE /\ said \in Sayings
           /\ string = Ssfn!FlattenSeq([i \in DOMAIN said |-> Ssfn!Encoded(said[i])])
  <2>1. said \in Seq(CodePoints)
    BY Zenon, <1>5, FontAssumption DEF CodePoints
  <2> DEFINE w == Encodings(said)
             k == Len(said)
  <2>2. w \in Seq(Seq(1..255)) /\ Len(w) = k /\ k \in Nat
    BY <2>1, EncodingsAre
  <2>3. string = Ssfn!FlattenSeq(w)
    BY Zenon, <1>5 DEF Encodings
  <2> HIDE DEF w, k
  <2>4. PICK J : Joins(J, 1..255, w)
    BY <2>2, JoinsExist
  <2>5. Ssfn!FlattenSeq(w) = IF Len(w) = 0 THEN w ELSE (CHOOSE f : Flat(f, w))[Len(w)]
    BY Zenon DEF Ssfn!FlattenSeq, Flat
  <2>6. (IF Len(w) = 0 THEN w ELSE (CHOOSE f : Flat(f, w))[Len(w)]) = J[Len(w)]
    BY Zenon, <2>2, <2>4, JoinsFlatten
  <2>7. string = J[k]
    BY Zenon, <2>2, <2>3, <2>5, <2>6
  <2>8. J \in [0..k -> Seq(1..255)] /\ J[0] = <<>>
    BY Zenon, <2>2, <2>4 DEF Joins
  <2>9. string \in Seq(1..255)
    BY <2>2, <2>7, <2>8
  <2>10. place = 1 + Len(J[Len(codes)])
    BY <1>1, <1>2, <2>8
  <2>11. Len(codes) <= Len(said) /\ \A i \in 1..Len(codes) : codes[i] = said[i]
    BY <1>2, <2>2 DEF k
  <2>12. Joins(J, 1..255, Encodings(said)) /\ string = J[Len(said)]
    BY Zenon, <2>4, <2>7 DEF w, k
  <2>13. Decoded(J)
    BY Zenon, <2>1, <2>10, <2>11, <2>12 DEF Decoded
  <2>14. \E H : Decoded(H)
    BY Zenon, <2>13
  <2> QED BY Zenon, <1>2, <1>3, <2>9, <2>14 DEF ReadInv
<1> QED BY Zenon, <1>4, <1>5 DEF Ssfn!Init

\* Where the loop stops, all of the text's code points have come.
LEMMA ReadEnds ==
  ASSUME ReadInv, Ssfn!Byte(place) = 0
  PROVE  said # Ssfn!Arbitrary => codes = said
<1> SUFFICES ASSUME said # Ssfn!Arbitrary PROVE codes = said
  OBVIOUS
<1>1. /\ string \in Seq(1..255) /\ place \in 1..(Len(string) + 1) /\ codes \in Seq(Nat)
      /\ Len(string) \in Nat /\ Len(codes) \in Nat
  BY LenProperties DEF ReadInv
<1>2. PICK J : Decoded(J)
  BY DEF ReadInv
<1>3. place = Len(string) + 1
  <2>1. place \in Nat \ {0}
    BY <1>1
  <2>2. place \notin 1..Len(string)
    BY <1>1, <2>1, ContinuesIs
  <2> QED BY <1>1, <2>2
<1>4. place = 1 + Len(J[Len(codes)]) /\ said \in Seq(CodePoints)
  BY <1>2 DEF Decoded
<1>5. Len(codes) = Len(said)
  <2> SUFFICES ASSUME Len(codes) # Len(said) PROVE FALSE
    OBVIOUS
  <2> DEFINE a == Len(J[Len(codes)])
             b == Len(J[Len(codes) + 1])
             l == Len(Ssfn!Encoded(said[Len(codes) + 1]))
  <2>1. l \in Nat \ {0} /\ a \in Nat /\ b = a + l /\ b <= Len(string)
    BY Zenon, <1>1, <1>2, OneLeft
  <2>2. place = 1 + a
    BY Zenon, <1>4
  <2> HIDE DEF a, b, l
  <2> QED BY <1>1, <1>3, <2>1, <2>2
<1>6. \A i \in 1..Len(codes) : codes[i] = said[i]
  BY <1>2 DEF Decoded
<1>7. DOMAIN codes = 1..Len(codes) /\ DOMAIN said = 1..Len(said)
  BY <1>1, <1>4, LenProperties
<1>8. codes = [i \in 1..Len(codes) |-> codes[i]] /\ said = [i \in 1..Len(said) |-> said[i]]
  BY <1>1, <1>4, <1>7
<1> QED BY <1>5, <1>6, <1>8

\* What numbers come to before each of them, and behind all.
AddsEach(f, n, w) == f[1] = 0 /\ \A k \in 1..n : f[k + 1] = f[k] + w[k]
Totals(f, n, w) == f \in [1..(n + 1) -> Nat] /\ AddsEach(f, n, w)

LEMMA TotalsExist ==
  ASSUME NEW n \in Nat, NEW w \in [1..n -> Nat]
  PROVE  \E f : Totals(f, n, w)
<1> DEFINE step == [p \in Nat \X (1..n) |-> p[1] + w[p[2]]]
<1>1. step \in [Nat \X (1..n) -> Nat]
  OBVIOUS
<1>2. \A a \in Nat, k \in 1..n : step[<<a, k>>] = a + w[k]
  OBVIOUS
<1> HIDE DEF step
<1>3. PICK g : Loops(g, Nat, 0, n, step)
  BY <1>1, Loop
<1>4. g \in [0..n -> Nat] /\ g[0] = 0 /\ \A k \in 1..n : g[k] = step[<<g[k - 1], k>>]
  BY <1>3 DEF Loops
<1> DEFINE f == [k \in 1..(n + 1) |-> g[k - 1]]
<1>5. f \in [1..(n + 1) -> Nat] /\ f[1] = 0
  BY <1>4
<1>6. ASSUME NEW k \in 1..n PROVE f[k + 1] = f[k] + w[k]
  <2>1. f[k + 1] = g[k] /\ f[k] = g[k - 1] /\ k - 1 \in 0..n
    OBVIOUS
  <2> HIDE DEF f
  <2> QED BY <1>2, <1>4, <2>1
<1> HIDE DEF f
<1>7. Totals(f, n, w)
  BY <1>5, <1>6 DEF Totals, AddsEach
<1> QED BY <1>7

LEMMA TotalsAreOne ==
  ASSUME NEW n \in Nat, NEW w \in [1..n -> Nat], NEW f, NEW g, Totals(f, n, w),
         AddsEach(g, n, w)
  PROVE  \A k \in 1..(n + 1) : f[k] = g[k]
<1> DEFINE T == {k \in 1..(n + 1) : f[k] = g[k]}
<1>1. 1 \in T
  BY DEF Totals, AddsEach
<1>2. ASSUME NEW k \in (1 + 1)..(n + 1), k - 1 \in T PROVE k \in T
  <2>1. k - 1 \in 1..n /\ (k - 1) + 1 = k
    OBVIOUS
  <2>2. f[(k - 1) + 1] = f[k - 1] + w[k - 1]
    BY Zenon, <2>1 DEF Totals, AddsEach
  <2>3. g[(k - 1) + 1] = g[k - 1] + w[k - 1]
    BY Zenon, <2>1 DEF AddsEach
  <2> QED BY <1>2, <2>1, <2>2, <2>3
<1> HIDE DEF T
<1>3. \A k \in 1..(n + 1) : k \in T
  <2>1. 1 \in Nat /\ n + 1 \in Nat
    OBVIOUS
  <2> QED BY Zenon, <1>1, <1>2, <2>1, StepByStep
<1> QED BY <1>3 DEF T

LEMMA TotalsRise ==
  ASSUME NEW n \in Nat, NEW w \in [1..n -> Nat \ {0}], NEW f, Totals(f, n, w),
         NEW i \in 1..(n + 1), NEW j \in 1..(n + 1), f[i] = f[j]
  PROVE  i = j
<1>1. ASSUME NEW a \in 1..(n + 1), NEW b \in (a + 1)..(n + 1) PROVE f[a] < f[b]
  <2> DEFINE T == {k \in (a + 1)..(n + 1) : f[a] < f[k]}
  <2>1. \A k \in 1..n : f[k + 1] > f[k] /\ f[k + 1] \in Nat /\ f[k] \in Nat
    BY DEF Totals, AddsEach
  <2>2. a + 1 \in T
    BY <2>1
  <2>3. ASSUME NEW k \in ((a + 1) + 1)..(n + 1), k - 1 \in T PROVE k \in T
    <3>1. f[a] < f[k - 1]
      BY <2>3
    <3>2. k - 1 \in 1..n /\ (k - 1) + 1 = k
      OBVIOUS
    <3>3. f[k] > f[k - 1] /\ f[k] \in Nat /\ f[k - 1] \in Nat /\ f[a] \in Nat
      BY <2>1, <3>2 DEF Totals, AddsEach
    <3> QED BY <3>1, <3>2, <3>3
  <2> HIDE DEF T
  <2>4. \A k \in (a + 1)..(n + 1) : k \in T
    <3>1. a + 1 \in Nat /\ n + 1 \in Nat
      OBVIOUS
    <3> QED BY Zenon, <2>2, <2>3, <3>1, StepByStep
  <2> QED BY <2>4 DEF T
<1>2. f[i] \in Nat
  BY DEF Totals, AddsEach
<1>3. ~(i < j)
  <2> SUFFICES ASSUME i < j PROVE FALSE
    OBVIOUS
  <2>1. j \in (i + 1)..(n + 1)
    OBVIOUS
  <2>2. f[i] < f[j]
    BY <1>1, <2>1
  <2> QED BY <1>2, <2>2
<1>4. ~(j < i)
  <2> SUFFICES ASSUME j < i PROVE FALSE
    OBVIOUS
  <2>1. i \in (j + 1)..(n + 1)
    OBVIOUS
  <2>2. f[j] < f[i]
    BY <1>1, <2>1
  <2> QED BY <1>2, <2>2
<1> QED BY <1>3, <1>4

\* How many code points an entry is of.
Span == [k \in 1..Len(Characters) |-> 1 + (IF Characters[k].glyph THEN 0 ELSE Characters[k].skip)]

GlyphEntry == [glyph : {TRUE}, advance : Nat, fragments : Seq(Ssfn!Fragments)]

LEMMA EntriesAre ==
  /\ Len(Characters) \in Nat /\ DOMAIN Characters = 1..Len(Characters)
  /\ Span \in [1..Len(Characters) -> Nat \ {0}]
  /\ \A k \in 1..Len(Characters) :
       /\ Characters[k].glyph => Span[k] = 1 /\ Characters[k] \in GlyphEntry
       /\ ~Characters[k].glyph => Span[k] = 1 + Characters[k].skip /\ Characters[k].skip \in Nat
<1> DEFINE A == [glyph : {FALSE}, skip : Nat]
           n == Len(Characters)
<1>1. Characters \in Seq(A \cup GlyphEntry)
  BY Zenon, FontAssumption DEF Ssfn!IsFont, GlyphEntry
<1>2. n \in Nat /\ DOMAIN Characters = 1..n /\ \A k \in 1..n : Characters[k] \in A \/ Characters[k] \in GlyphEntry
  <2> HIDE DEF A
  <2>1. \A k \in 1..n : Characters[k] \in A \cup GlyphEntry
    BY <1>1, ElementOfSeq
  <2> QED BY <1>1, <2>1, LenProperties
<1>3. \A e : e \in A => ~e.glyph /\ e.skip \in Nat
  OBVIOUS
<1>4. \A e : e \in GlyphEntry => e.glyph
  BY DEF GlyphEntry
<1> HIDE DEF A
<1>5. \A k \in 1..n : /\ Characters[k].glyph => Characters[k] \in GlyphEntry
                      /\ ~Characters[k].glyph => Characters[k].skip \in Nat
  BY Zenon, <1>2, <1>3, <1>4
<1>6. \A k \in 1..n : Span[k] = 1 + (IF Characters[k].glyph THEN 0 ELSE Characters[k].skip)
  BY Zenon DEF Span, n
<1>7. ASSUME NEW k \in 1..n
      PROVE  /\ Characters[k].glyph => Span[k] = 1
             /\ ~Characters[k].glyph => Span[k] = 1 + Characters[k].skip
             /\ Span[k] \in Nat \ {0}
  <2>1. CASE Characters[k].glyph
    <3>1. Span[k] = 1 + 0
      BY Zenon, <1>6, <2>1
    <3> QED BY <2>1, <3>1
  <2>2. CASE ~Characters[k].glyph
    <3>1. Span[k] = 1 + Characters[k].skip /\ Characters[k].skip \in Nat
      BY Zenon, <1>5, <1>6, <2>2
    <3> QED BY <2>2, <3>1
  <2> QED BY <2>1, <2>2
<1>8. Span \in [1..n -> Nat \ {0}]
  <2>1. Span = [k \in 1..n |-> Span[k]]
    BY Zenon DEF Span, n
  <2> QED BY <1>7, <2>1
<1> QED BY Zenon, <1>2, <1>5, <1>7, <1>8 DEF n

\* The code points at which the entries begin, as the program counts and as the font means them.
Counted(f) ==
    f = [k \in 1..Len(Characters) |->
           IF k = 1 THEN 0
           ELSE f[k - 1] + 1 + (IF Characters[k - 1].glyph THEN 0 ELSE Characters[k - 1].skip)]
Meant(f) ==
    f = [k \in 1..Len(Characters) |->
           IF k = 1 THEN 0
           ELSE f[k - 1] + (IF Characters[k - 1].glyph THEN 1 ELSE Characters[k - 1].skip + 1)]

LEMMA BothBegin ==
  ASSUME NEW f, Totals(f, Len(Characters), Span)
  PROVE  /\ \E g : Counted(g)
         /\ \E g : Meant(g)
         /\ \A g : Counted(g) \/ Meant(g) => \A k \in 1..Len(Characters) : g[k] = f[k]
<1> DEFINE n == Len(Characters)
           g == [k \in 1..n |-> f[k]]
           T == {k \in 1..n : g[k] = f[k]}
<1>1. /\ n \in Nat /\ f \in [1..(n + 1) -> Nat] /\ f[1] = 0
      /\ \A k \in 1..n : f[k + 1] = f[k] + Span[k]
  BY EntriesAre DEF Totals, AddsEach
<1>2. ASSUME NEW k \in 1..n, k # 1
      PROVE  /\ k - 1 \in 1..n /\ f[k - 1] \in Nat
             /\ f[k] = f[k - 1] + 1 + (IF Characters[k - 1].glyph THEN 0 ELSE Characters[k - 1].skip)
             /\ f[k] = f[k - 1] + (IF Characters[k - 1].glyph THEN 1 ELSE Characters[k - 1].skip + 1)
  <2>1. k - 1 \in 1..n /\ (k - 1) + 1 = k
    BY <1>1, <1>2
  <2> HIDE DEF n
  <2>2. f[k] = f[k - 1] + Span[k - 1] /\ f[k - 1] \in Nat
    BY <1>1, <2>1
  <2>3. CASE Characters[k - 1].glyph
    <3>1. Span[k - 1] = 1
      BY Zenon, <2>1, <2>3, EntriesAre DEF n
    <3> QED BY <2>1, <2>2, <2>3, <3>1
  <2>4. CASE ~Characters[k - 1].glyph
    <3>1. Span[k - 1] = 1 + Characters[k - 1].skip /\ Characters[k - 1].skip \in Nat
      BY Zenon, <2>1, <2>4, EntriesAre DEF n
    <3>2. \A a, b \in Nat : a + (1 + b) = a + 1 + b /\ a + (1 + b) = a + (b + 1)
      OBVIOUS
    <3>3. /\ f[k] = f[k - 1] + 1 + Characters[k - 1].skip
          /\ f[k] = f[k - 1] + (Characters[k - 1].skip + 1)
      BY ZenonT(60), <2>2, <3>1, <3>2
    <3> QED BY Zenon, <2>1, <2>2, <2>4, <3>3
  <2> QED BY <2>3, <2>4
<1>3. Counted(g) /\ Meant(g)
  <2>1. g = [k \in 1..n |-> g[k]] /\ \A k \in 1..n : g[k] = f[k]
    OBVIOUS
  <2> HIDE DEF g
  <2>2. ASSUME NEW k \in 1..n
        PROVE  /\ g[k] = IF k = 1 THEN 0 ELSE g[k - 1] + 1 + (IF Characters[k - 1].glyph THEN 0 ELSE Characters[k - 1].skip)
               /\ g[k] = IF k = 1 THEN 0 ELSE g[k - 1] + (IF Characters[k - 1].glyph THEN 1 ELSE Characters[k - 1].skip + 1)
    <3>1. CASE k = 1
      BY <1>1, <2>1, <3>1
    <3>2. CASE k # 1
      <4>1. g[k] = f[k] /\ g[k - 1] = f[k - 1]
        BY Zenon, <1>2, <2>1, <3>2
      <4>2. k - 1 \in 1..n
        BY Zenon, <1>2, <3>2
      <4> HIDE DEF n
      <4> QED BY Zenon, <1>2, <3>2, <4>1
    <3> QED BY Zenon, <3>1, <3>2
  <2> QED BY Zenon, <2>1, <2>2 DEF Counted, Meant, n
<1>4. ASSUME NEW h, Counted(h) \/ Meant(h), NEW k \in 1..n PROVE h[k] = f[k]
  <2> DEFINE U == {j \in 1..n : h[j] = f[j]}
  <2>0. \/ \A j \in 1..n : h[j] = IF j = 1 THEN 0 ELSE h[j - 1] + 1 + (IF Characters[j - 1].glyph THEN 0 ELSE Characters[j - 1].skip)
        \/ \A j \in 1..n : h[j] = IF j = 1 THEN 0 ELSE h[j - 1] + (IF Characters[j - 1].glyph THEN 1 ELSE Characters[j - 1].skip + 1)
    BY Zenon, <1>4 DEF Counted, Meant, n
  <2> HIDE DEF n
  <2>1. 1 \in U
    <3>1. 1 \in 1..n
      BY <1>1
    <3> QED BY <1>1, <2>0, <3>1
  <2>2. ASSUME NEW j \in (1 + 1)..n, j - 1 \in U PROVE j \in U
    <3>1. j \in 1..n /\ j # 1
      BY <1>1
    <3>2. h[j - 1] = f[j - 1]
      BY <2>2
    <3>3. \/ h[j] = h[j - 1] + 1 + (IF Characters[j - 1].glyph THEN 0 ELSE Characters[j - 1].skip)
          \/ h[j] = h[j - 1] + (IF Characters[j - 1].glyph THEN 1 ELSE Characters[j - 1].skip + 1)
      BY Zenon, <2>0, <3>1
    <3>4. /\ f[j] = f[j - 1] + 1 + (IF Characters[j - 1].glyph THEN 0 ELSE Characters[j - 1].skip)
          /\ f[j] = f[j - 1] + (IF Characters[j - 1].glyph THEN 1 ELSE Characters[j - 1].skip + 1)
      BY Zenon, <1>2, <3>1
    <3>5. h[j] = f[j]
      BY Zenon, <3>2, <3>3, <3>4
    <3> QED BY <3>1, <3>5
  <2> HIDE DEF U
  <2>3. \A j \in 1..n : j \in U
    <3>1. 1 \in Nat
      OBVIOUS
    <3> QED BY Zenon, <1>1, <2>1, <2>2, <3>1, StepByStep
  <2> QED BY <2>3 DEF U
<1> HIDE DEF g
<1> QED BY Zenon, <1>3, <1>4 DEF n

\* The font's entries, where they begin and which of them are glyphs.
LEMMA LookupIs ==
  ASSUME NEW c \in Nat
  PROVE  /\ c \in DOMAIN Shapes =>
              /\ Ssfn!Lookup(c) = {Shapes[c]} /\ Shapes[c] \in 1..Len(Characters)
              /\ Characters[Shapes[c]] \in GlyphEntry
         /\ c \notin DOMAIN Shapes => Ssfn!Lookup(c) = {}
<1> DEFINE n == Len(Characters)
           code == CHOOSE g : Counted(g)
           begins == CHOOSE g : Meant(g)
<1>1. /\ n \in Nat /\ DOMAIN Characters = 1..n /\ Span \in [1..n -> Nat \ {0}]
      /\ \A k \in 1..n : Characters[k].glyph => Characters[k] \in GlyphEntry
  BY Zenon, EntriesAre
<1>2. PICK f : Totals(f, n, Span)
  BY <1>1, TotalsExist
<1>3. /\ \E g : Counted(g)
      /\ \E g : Meant(g)
      /\ \A g : Counted(g) \/ Meant(g) => \A k \in 1..n : g[k] = f[k]
  BY Zenon, <1>2, BothBegin
<1>4. \A k \in 1..n : code[k] = f[k] /\ begins[k] = f[k]
  BY Zenon, <1>3
<1>5. Ssfn!Lookup(c) = {k \in DOMAIN Characters : Characters[k].glyph /\ code[k] < Ssfn!Codespace /\ code[k] = c}
  BY Zenon DEF Ssfn!Lookup, Counted
<1>6. Ssfn!Begins = begins
  BY Zenon DEF Ssfn!Begins, Meant
<1> HIDE DEF code, begins
<1>7. Ssfn!Lookup(c) = {k \in 1..n : Characters[k].glyph /\ f[k] < Ssfn!Codespace /\ f[k] = c}
  BY Zenon, <1>1, <1>4, <1>5
<1>8. /\ DOMAIN Shapes \subseteq 0..(Ssfn!Codespace - 1)
      /\ {Shapes[d] : d \in DOMAIN Shapes} = {k \in DOMAIN Characters : Characters[k].glyph}
      /\ \A d \in DOMAIN Shapes : Ssfn!Begins[Shapes[d]] = d
  BY Zenon, FontAssumption DEF Ssfn!IsFont
<1>9. \A d \in DOMAIN Shapes : /\ Shapes[d] \in 1..n /\ Characters[Shapes[d]].glyph /\ f[Shapes[d]] = d
  <2>1. \A d \in DOMAIN Shapes : Shapes[d] \in {k \in DOMAIN Characters : Characters[k].glyph}
    BY Zenon, <1>8
  <2> QED BY Zenon, <1>1, <1>4, <1>6, <1>8, <2>1
<1> HIDE DEF n
<1>10. CASE c \in DOMAIN Shapes
  <2> DEFINE k == Shapes[c]
  <2>1. k \in 1..n /\ Characters[k].glyph /\ f[k] = c
    BY Zenon, <1>9, <1>10
  <2>2. c < Ssfn!Codespace
    <3>1. c \in 0..(Ssfn!Codespace - 1)
      BY Zenon, <1>8, <1>10
    <3>2. Ssfn!Codespace \in Nat
      BY SMT DEF Ssfn!Codespace
    <3> QED BY SMT, <3>1, <3>2
  <2>3. \A j \in 1..n : f[j] = c => j = k
    <3> SUFFICES ASSUME NEW j \in 1..n, f[j] = c PROVE j = k
      OBVIOUS
    <3>1. j \in 1..(n + 1) /\ k \in 1..(n + 1) /\ f[j] = f[k]
      BY <1>1, <2>1
    <3> HIDE DEF k
    <3> QED BY Zenon, <1>1, <1>2, <3>1, TotalsRise
  <2>4. Ssfn!Lookup(c) = {k}
    BY Zenon, <1>7, <2>1, <2>2, <2>3
  <2>5. Characters[k] \in GlyphEntry
    BY Zenon, <1>1, <2>1
  <2> QED BY Zenon, <1>10, <2>1, <2>4, <2>5 DEF n
<1>11. CASE c \notin DOMAIN Shapes
  <2>1. ASSUME NEW k \in 1..n, Characters[k].glyph, f[k] = c PROVE FALSE
    <3>1. k \in {Shapes[d] : d \in DOMAIN Shapes}
      BY Zenon, <1>1, <1>8, <2>1
    <3>2. PICK d \in DOMAIN Shapes : k = Shapes[d]
      BY Zenon, <3>1
    <3>3. d = c
      BY Zenon, <1>9, <2>1, <3>2
    <3> QED BY Zenon, <1>11, <3>2, <3>3
  <2>2. Ssfn!Lookup(c) = {}
    BY Zenon, <1>7, <2>1
  <2> QED BY Zenon, <1>11, <2>2
<1> QED BY Zenon, <1>10, <1>11

Visible == (0..(Width - 1)) \X (0..(Height - 1))

\* The pixels of a fragment whose left edge is at p, and those of a glyph.
Pixels(p, f) == {<<p + (b % f.k), f.y + (b \div f.k)>> : b \in f.bits} \cap Visible
Inked(p, g) == UNION {Pixels(p, f) : f \in Ssfn!ToSet(g.fragments)}

\* What the loop over the fragments keeps: the row that it writes to is the row that it is at.
Canvases == {d \in [y : Nat, o : Nat, drawn : SUBSET (Nat \X Nat)] : d.o = d.y}

IsFragment(f) == f \in Ssfn!Fragments /\ f.bits \subseteq 0..(f.k * f.rows - 1)

LEMMA DrawIs ==
  ASSUME NEW dst \in Canvases, NEW f, IsFragment(f), pen \in Nat
  PROVE  Ssfn!Draw(dst, f) \in Canvases /\ Ssfn!Draw(dst, f).drawn = dst.drawn \cup Pixels(pen, f)
<1> DEFINE rows == {r \in 0..(f.rows - 1) : f.y + r < Height}
           bits == {b \in f.bits : b \div f.k \in rows /\ pen + (b % f.k) < Width}
           new(o) == {<<pen + (b % f.k), o + (b \div f.k)>> : b \in bits}
           y == dst.y
           d == dst.drawn
<1>2. y \in Nat /\ dst.o = y /\ d \in SUBSET (Nat \X Nat)
  BY DEF Canvases
<1>3. /\ f.y \in Nat /\ f.k \in Nat \ {0} /\ f.rows \in Nat /\ f.bits \subseteq Nat
      /\ f.bits \subseteq 0..(f.k * f.rows - 1)
  BY DEF IsFragment, Ssfn!Fragments
<1>4. Width \in Nat /\ Height \in Nat
  BY Zenon, FontAssumption
<1>5. Cardinality(rows) \in Nat
  <2>1. IsFiniteSet(0..(f.rows - 1))
    BY <1>3, FS_Interval
  <2>2. IsFiniteSet(rows)
    BY <2>1, FS_Subset
  <2> HIDE DEF rows
  <2> QED BY <2>2, FS_CardinalityType
<1>6. y + (f.y - y) = f.y
  BY <1>2, <1>3
<1>7. Ssfn!Draw(dst, f) = [y |-> f.y + Cardinality(rows), o |-> f.y + Cardinality(rows),
                           drawn |-> d \cup new(f.y)]
  <2>0. \A S : Ssfn!Cardinality(S) = Cardinality(S)
    BY DEF Ssfn!Cardinality, Cardinality
  <2>1. Ssfn!Draw(dst, f) =
          [y |-> f.y + Ssfn!Cardinality(rows), o |-> (dst.o + (f.y - dst.y)) + Ssfn!Cardinality(rows),
           drawn |-> dst.drawn \cup new(dst.o + (f.y - dst.y))]
    BY DEF Ssfn!Draw
  <2>2. dst.o + (f.y - dst.y) = f.y
    BY Zenon, <1>2, <1>6
  <2> QED BY Zenon, <1>2, <2>0, <2>1, <2>2
<1>8. \A b \in f.bits : b \in Nat /\ b \div f.k \in 0..(f.rows - 1) /\ b % f.k \in Nat
  <2> SUFFICES ASSUME NEW b \in f.bits
               PROVE  b \in Nat /\ b \div f.k \in 0..(f.rows - 1) /\ b % f.k \in Nat
    OBVIOUS
  <2> DEFINE k == f.k
             m == f.rows
             q == b \div k
             r == b % k
  <2>1. b \in Nat /\ k \in Nat \ {0} /\ m \in Nat /\ b \in 0..(k * m - 1)
    BY <1>3
  <2>2. q \in Nat /\ r \in 0..(k - 1) /\ b = k * q + r
    <3> HIDE DEF k
    <3> QED BY <2>1, Division
  <2> HIDE DEF k, m, q, r
  <2>3. q < m
    <3> SUFFICES ASSUME m <= q PROVE FALSE
      BY <2>1, <2>2
    <3>1. k * q = k * m + k * (q - m)
      BY <2>1, <2>2
    <3>2. k * (q - m) \in Nat /\ k * m \in Nat
      BY <2>1, <2>2
    <3> QED BY <2>1, <2>2, <3>1, <3>2
  <2>4. b \in Nat /\ q \in 0..(m - 1) /\ r \in Nat
    BY <2>1, <2>2, <2>3
  <2> QED BY <2>4 DEF q, m, r, k
<1>9. new(f.y) = Pixels(pen, f)
  <2>1. \A b \in f.bits : b \in bits <=> <<pen + (b % f.k), f.y + (b \div f.k)>> \in Visible
    <3> SUFFICES ASSUME NEW b \in f.bits
                 PROVE  b \in bits <=> <<pen + (b % f.k), f.y + (b \div f.k)>> \in Visible
      OBVIOUS
    <3> DEFINE q == b \div f.k
               r == b % f.k
    <3>1. q \in 0..(f.rows - 1) /\ r \in Nat
      BY <1>8
    <3>2. b \in bits <=> q \in rows /\ pen + r < Width
      OBVIOUS
    <3> HIDE DEF bits, q, r
    <3>3. q \in rows <=> f.y + q < Height
      BY <3>1
    <3>4. <<pen + r, f.y + q>> \in Visible <=> pen + r < Width /\ f.y + q < Height
      BY <1>3, <1>4, <3>1 DEF Visible
    <3>5. b \in bits <=> <<pen + r, f.y + q>> \in Visible
      BY Zenon, <3>2, <3>3, <3>4
    <3> QED BY <3>5 DEF q, r
  <2>2. bits \subseteq f.bits
    OBVIOUS
  <2> HIDE DEF bits
  <2> QED BY <2>1, <2>2 DEF Pixels
<1>10. new(f.y) \in SUBSET (Nat \X Nat)
  <2>1. bits \subseteq f.bits
    OBVIOUS
  <2> HIDE DEF bits
  <2>2. \A b \in bits : pen + (b % f.k) \in Nat /\ f.y + (b \div f.k) \in Nat
    BY <1>3, <1>8, <2>1
  <2> QED BY <2>2
<1> HIDE DEF new, rows
<1>11. Ssfn!Draw(dst, f).drawn = dst.drawn \cup Pixels(pen, f)
  BY <1>2, <1>7, <1>9
<1>12. Ssfn!Draw(dst, f) \in Canvases
  <2> DEFINE z == f.y + Cardinality(rows)
             e == d \cup new(f.y)
  <2>1. z \in Nat /\ e \in SUBSET (Nat \X Nat)
    BY <1>2, <1>3, <1>5, <1>10
  <2>2. Ssfn!Draw(dst, f) = [y |-> z, o |-> z, drawn |-> e]
    BY Zenon, <1>7
  <2> HIDE DEF z, e
  <2> QED BY <2>1, <2>2 DEF Canvases
<1> QED BY <1>11, <1>12

GlyphFor(c) == IF c \in DOMAIN Shapes THEN Characters[Shapes[c]] ELSE Ssfn!Glyph(0, <<>>)

LEMMA GlyphIs ==
  ASSUME NEW c \in Nat
  PROVE  LET g == GlyphFor(c)
         IN  /\ g.advance \in Nat /\ Len(g.fragments) \in Nat
             /\ \A i \in 1..Len(g.fragments) : IsFragment(g.fragments[i])
             /\ Ssfn!ToSet(g.fragments) = {g.fragments[i] : i \in 1..Len(g.fragments)}
<1>1. CASE c \in DOMAIN Shapes
  <2> DEFINE e == Characters[Shapes[c]]
             fs == e.fragments
  <2>1. Shapes[c] \in 1..Len(Characters) /\ e \in GlyphEntry
    BY <1>1, LookupIs
  <2>2. GlyphFor(c) = e
    BY Zenon, <1>1 DEF GlyphFor
  <2>3. e.advance \in Nat /\ fs \in Seq(Ssfn!Fragments) /\ e.glyph
    BY <2>1 DEF GlyphEntry
  <2>4. \A f \in Ssfn!ToSet(fs) : f.bits \subseteq 0..(f.k * f.rows - 1)
    <3>1. e \in Ssfn!ToSet(Characters)
      BY Zenon, <2>1, EntriesAre DEF Ssfn!ToSet
    <3>2. \A x \in Ssfn!ToSet(Characters) : x.glyph =>
            \A f \in Ssfn!ToSet(x.fragments) : f.bits \subseteq 0..(f.k * f.rows - 1)
      BY Zenon, FontAssumption DEF Ssfn!IsFont
    <3> QED BY Zenon, <2>3, <3>1, <3>2
  <2> HIDE DEF fs
  <2>5. Len(fs) \in Nat /\ DOMAIN fs = 1..Len(fs) /\ \A i \in 1..Len(fs) : fs[i] \in Ssfn!Fragments
    BY <2>3, LenProperties, ElementOfSeq
  <2>6. Ssfn!ToSet(fs) = {fs[i] : i \in 1..Len(fs)}
    BY Zenon, <2>5 DEF Ssfn!ToSet
  <2>7. \A i \in 1..Len(fs) : IsFragment(fs[i])
    BY Zenon, <2>4, <2>5, <2>6 DEF IsFragment
  <2> QED BY Zenon, <2>2, <2>3, <2>5, <2>6, <2>7 DEF fs
<1>2. CASE c \notin DOMAIN Shapes
  <2>1. GlyphFor(c).advance = 0 /\ GlyphFor(c).fragments = <<>>
    BY <1>2 DEF GlyphFor, Ssfn!Glyph
  <2>2. Len(<<>>) = 0 /\ DOMAIN <<>> = 1..0 /\ 1..0 = {}
    OBVIOUS
  <2>3. Ssfn!ToSet(<<>>) = {<<>>[i] : i \in 1..0}
    BY Zenon, <2>2 DEF Ssfn!ToSet
  <2>4. \A i \in 1..0 : FALSE
    OBVIOUS
  <2>5. 0 \in Nat
    OBVIOUS
  <2> QED BY Zenon, <2>1, <2>2, <2>3, <2>4, <2>5
<1> QED BY Zenon, <1>1, <1>2

\* The loop over the fragments.
Drawn(h, fs) ==
    h = [i \in 0..Len(fs) |-> IF i = 0 THEN [y |-> 0, o |-> 0, drawn |-> drawn] ELSE Ssfn!Draw(h[i - 1], fs[i])]

LEMMA DrawnIs ==
  ASSUME NEW fs, Len(fs) \in Nat, \A i \in 1..Len(fs) : IsFragment(fs[i]),
         pen \in Nat, drawn \in SUBSET (Nat \X Nat)
  PROVE  /\ \E h : Drawn(h, fs)
         /\ \A h : Drawn(h, fs) =>
              /\ h[Len(fs)] \in Canvases
              /\ h[Len(fs)].drawn = drawn \cup UNION {Pixels(pen, fs[i]) : i \in 1..Len(fs)}
<1> DEFINE n == Len(fs)
           a == [y |-> 0, o |-> 0, drawn |-> drawn]
           step == [p \in Canvases \X (1..n) |-> Ssfn!Draw(p[1], fs[p[2]])]
<1>1. a \in Canvases /\ a.drawn = drawn
  BY DEF Canvases
<1>2. \A d \in Canvases, i \in 1..n : /\ Ssfn!Draw(d, fs[i]) \in Canvases
                                   /\ Ssfn!Draw(d, fs[i]).drawn = d.drawn \cup Pixels(pen, fs[i])
  BY Zenon, DrawIs
<1>3. step \in [Canvases \X (1..n) -> Canvases]
  BY <1>2
<1>4. \A d \in Canvases, i \in 1..n : step[<<d, i>>] = Ssfn!Draw(d, fs[i])
  OBVIOUS
<1> HIDE DEF step, a
<1>5. PICK h : Loops(h, Canvases, a, n, step)
  BY <1>1, <1>3, Loop
<1>6. h \in [0..n -> Canvases] /\ h[0] = a /\ \A i \in 1..n : h[i] = step[<<h[i - 1], i>>]
  BY <1>5 DEF Loops
<1>7. ASSUME NEW i \in 0..n
      PROVE  h[i] = IF i = 0 THEN a ELSE Ssfn!Draw(h[i - 1], fs[i])
  <2>1. CASE i = 0
    BY Zenon, <1>6, <2>1
  <2>2. CASE i # 0
    <3>1. i \in 1..n /\ i - 1 \in 0..n
      BY <2>2
    <3>2. h[i - 1] \in Canvases
      BY Zenon, <1>6, <3>1
    <3> QED BY Zenon, <1>4, <1>6, <2>2, <3>1, <3>2
  <2> QED BY <2>1, <2>2
<1>8. Drawn(h, fs)
  <2>1. h = [i \in 0..n |-> h[i]]
    BY Zenon, <1>6
  <2> QED BY Zenon, <1>7, <2>1 DEF Drawn, a, n
<1>9. ASSUME NEW g, Drawn(g, fs)
      PROVE  g[n] \in Canvases /\ g[n].drawn = drawn \cup UNION {Pixels(pen, fs[i]) : i \in 1..n}
  <2> DEFINE T == {k \in 0..n : g[k] \in Canvases /\ g[k].drawn = drawn \cup UNION {Pixels(pen, fs[i]) : i \in 1..k}}
  <2>1. \A k \in 0..n : g[k] = IF k = 0 THEN a ELSE Ssfn!Draw(g[k - 1], fs[k])
    BY Zenon, <1>9 DEF Drawn, a, n
  <2>2. 0 \in T
    <3>1. g[0] = a /\ 0 \in 0..n
      BY <2>1
    <3>2. UNION {Pixels(pen, fs[i]) : i \in 1..0} = {}
      OBVIOUS
    <3> QED BY <1>1, <3>1, <3>2
  <2>3. ASSUME NEW k \in (0 + 1)..n, k - 1 \in T PROVE k \in T
    <3>1. k \in 1..n /\ k \in 0..n /\ k # 0
      OBVIOUS
    <3>2. g[k] = Ssfn!Draw(g[k - 1], fs[k])
      BY Zenon, <2>1, <3>1
    <3>3. /\ g[k - 1] \in Canvases
          /\ g[k - 1].drawn = drawn \cup UNION {Pixels(pen, fs[i]) : i \in 1..(k - 1)}
      BY <2>3
    <3>4. g[k] \in Canvases /\ g[k].drawn = g[k - 1].drawn \cup Pixels(pen, fs[k])
      BY ZenonT(60), <1>2, <3>1, <3>2, <3>3
    <3>5. 1..k = (1..(k - 1)) \cup {k}
      BY <3>1
    <3>6. UNION {Pixels(pen, fs[i]) : i \in 1..k} =
            (UNION {Pixels(pen, fs[i]) : i \in 1..(k - 1)}) \cup Pixels(pen, fs[k])
      BY Zenon, <3>5
    <3>7. g[k].drawn = drawn \cup UNION {Pixels(pen, fs[i]) : i \in 1..k}
      BY Zenon, <3>3, <3>4, <3>6
    <3> QED BY Zenon, <3>1, <3>4, <3>7
  <2> HIDE DEF T
  <2>4. \A k \in 0..n : k \in T
    <3>1. 0 \in Nat /\ n \in Nat
      OBVIOUS
    <3> HIDE DEF n
    <3> QED BY Zenon, <2>2, <2>3, <3>1, StepByStep
  <2>5. n \in 0..n
    OBVIOUS
  <2> QED BY Zenon, <2>4, <2>5 DEF T
<1> QED BY Zenon, <1>8, <1>9 DEF n

\* A code point's glyph is drawn where the pen is.
LEMMA PutcIs ==
  ASSUME NEW c \in Nat, pen \in Nat, drawn \in SUBSET (Nat \X Nat), Ssfn!Putc(c)
  PROVE  /\ pen' = pen + GlyphFor(c).advance
         /\ drawn' = drawn \cup Inked(pen, GlyphFor(c))
         /\ drawn' \in SUBSET (Nat \X Nat)
<1> DEFINE g == GlyphFor(c)
           fs == g.fragments
           n == Len(fs)
<1>1. /\ g.advance \in Nat /\ n \in Nat
      /\ \A i \in 1..n : IsFragment(fs[i])
      /\ Ssfn!ToSet(fs) = {fs[i] : i \in 1..n}
  BY GlyphIs
<1>2. Inked(pen, g) = UNION {Pixels(pen, fs[i]) : i \in 1..n}
  <2> HIDE DEF g
  <2> QED BY Zenon, <1>1 DEF Inked
<1>3. CASE c \in DOMAIN Shapes
  <2> DEFINE e == Characters[CHOOSE k \in Ssfn!Lookup(c) : TRUE]
             h == CHOOSE h : Drawn(h, e.fragments)
  <2>1. Ssfn!Lookup(c) = {Shapes[c]}
    BY Zenon, <1>3, LookupIs
  <2>2. (CHOOSE k \in Ssfn!Lookup(c) : TRUE) = Shapes[c] /\ Ssfn!Lookup(c) # {}
    BY <2>1
  <2>3. e = g
    <3>1. e = Characters[Shapes[c]]
      BY <2>2
    <3>2. g = Characters[Shapes[c]]
      BY Zenon, <1>3 DEF GlyphFor
    <3> QED BY Zenon, <3>1, <3>2
  <2>4. drawn' = h[Len(e.fragments)].drawn /\ pen' = pen + e.advance
    BY Zenon, <2>2 DEF Ssfn!Putc, Drawn
  <2> HIDE DEF e, g
  <2>5. /\ \E f : Drawn(f, fs)
        /\ \A f : Drawn(f, fs) =>
             /\ f[n] \in Canvases
             /\ f[n].drawn = drawn \cup UNION {Pixels(pen, fs[i]) : i \in 1..n}
    BY Zenon, <1>1, DrawnIs
  <2>6. Drawn(h, fs)
    BY Zenon, <2>3, <2>5
  <2> HIDE DEF h
  <2>7. h[n] \in Canvases /\ h[n].drawn = drawn \cup UNION {Pixels(pen, fs[i]) : i \in 1..n}
    BY Zenon, <2>5, <2>6
  <2>8. drawn' = h[n].drawn /\ pen' = pen + g.advance
    BY Zenon, <2>3, <2>4
  <2>9. h[n].drawn \in SUBSET (Nat \X Nat)
    BY <2>7 DEF Canvases
  <2> QED BY Zenon, <1>2, <2>7, <2>8, <2>9 DEF g
<1>4. CASE c \notin DOMAIN Shapes
  <2>1. Ssfn!Lookup(c) = {}
    BY Zenon, <1>4, LookupIs
  <2>2. drawn' = drawn /\ pen' = pen
    BY Zenon, <2>1 DEF Ssfn!Putc
  <2>3. g.advance = 0 /\ g.fragments = <<>>
    BY <1>4 DEF GlyphFor, Ssfn!Glyph
  <2>4. n = 0
    BY <2>3
  <2> HIDE DEF n, fs, g
  <2>5. Inked(pen, g) = {} /\ pen + 0 = pen
    <3>1. 1..0 = {} /\ pen + 0 = pen
      OBVIOUS
    <3> QED BY <1>2, <2>4, <3>1
  <2>6. drawn' = drawn \cup Inked(pen, g)
    BY <2>2, <2>5
  <2> QED BY Zenon, <2>2, <2>3, <2>5, <2>6 DEF g
<1> QED BY Zenon, <1>3, <1>4

\* What is on the line: the glyph of each code point, where those before it end.
Placed(f) ==
    /\ Totals(f, Len(codes), [i \in 1..Len(codes) |-> GlyphFor(codes[i]).advance])
    /\ pen = f[Len(codes) + 1]
    /\ drawn = UNION {Inked(f[i], GlyphFor(codes[i])) : i \in 1..Len(codes)}

PaintInv == /\ codes \in Seq(Nat) /\ pen \in Nat /\ drawn \in SUBSET (Nat \X Nat)
            /\ \E f : Placed(f)

LEMMA PaintStarts ==
  ASSUME Ssfn!Init
  PROVE  PaintInv
<1>1. codes = <<>> /\ pen = 0 /\ drawn = {}
  BY DEF Ssfn!Init
<1>2. codes \in Seq(Nat) /\ Len(codes) = 0
  BY <1>1
<1> DEFINE f == [i \in 1..1 |-> 0]
           w == [i \in 1..0 |-> GlyphFor(codes[i]).advance]
<1>3. Totals(f, 0, w)
  <2>1. f \in [1..(0 + 1) -> Nat] /\ f[1] = 0 /\ \A k \in 1..0 : FALSE
    OBVIOUS
  <2> HIDE DEF f, w
  <2> QED BY Zenon, <2>1 DEF Totals, AddsEach
<1>4. f[0 + 1] = 0
  OBVIOUS
<1> HIDE DEF f
<1>5. UNION {Inked(f[i], GlyphFor(codes[i])) : i \in 1..0} = {}
  <2>1. \A i \in 1..0 : FALSE
    OBVIOUS
  <2> QED BY Zenon, <2>1
<1>6. Placed(f)
  BY Zenon, <1>1, <1>2, <1>3, <1>4, <1>5 DEF Placed
<1>7. \E h : Placed(h)
  BY Zenon, <1>6
<1>8. 0 \in Nat /\ {} \in SUBSET (Nat \X Nat)
  OBVIOUS
<1> QED BY Zenon, <1>1, <1>2, <1>7, <1>8 DEF PaintInv

LEMMA PaintStays ==
  ASSUME PaintInv, NEW c \in Nat, Ssfn!Putc(c), codes' = Append(codes, c)
  PROVE  PaintInv'
<1> DEFINE n == Len(codes)
           g == GlyphFor(c)
           w == [i \in 1..n |-> GlyphFor(codes[i]).advance]
           w2 == [i \in 1..Len(codes') |-> GlyphFor(codes'[i]).advance]
<1>1. codes \in Seq(Nat) /\ n \in Nat /\ pen \in Nat /\ drawn \in SUBSET (Nat \X Nat)
  BY LenProperties DEF PaintInv
<1>2. PICK f : Placed(f)
  BY DEF PaintInv
<1>3. /\ pen' = pen + g.advance /\ drawn' = drawn \cup Inked(pen, g)
      /\ drawn' \in SUBSET (Nat \X Nat) /\ g.advance \in Nat
  <2>1. g.advance \in Nat
    BY Zenon, GlyphIs
  <2> QED BY Zenon, <1>1, <2>1, PutcIs
<1>4. /\ codes' \in Seq(Nat) /\ Len(codes') = n + 1
      /\ \A i \in 1..n : codes'[i] = codes[i]
      /\ codes'[n + 1] = c
  BY <1>1, AppendProperties
<1> HIDE DEF g
<1>5. Totals(f, n, w) /\ pen = f[n + 1] /\ drawn = UNION {Inked(f[i], GlyphFor(codes[i])) : i \in 1..n}
  BY <1>2 DEF Placed
<1>6. f \in [1..(n + 1) -> Nat] /\ f[1] = 0 /\ \A k \in 1..n : f[k + 1] = f[k] + GlyphFor(codes[k]).advance
  <2>1. \A k \in 1..n : w[k] = GlyphFor(codes[k]).advance
    BY Zenon
  <2> HIDE DEF w
  <2> QED BY Zenon, <1>5, <2>1 DEF Totals, AddsEach
<1>12. PICK h : h = [i \in 1..((n + 1) + 1) |-> IF i = (n + 1) + 1 THEN pen' ELSE f[i]]
  OBVIOUS
<1>7. /\ h \in [1..((n + 1) + 1) -> Nat] /\ h[1] = 0 /\ h[(n + 1) + 1] = pen' /\ h[n + 1] = pen
      /\ \A i \in 1..n : h[i] = f[i] /\ h[i + 1] = f[i + 1]
  <2>1. \A i \in 1..((n + 1) + 1) : i # (n + 1) + 1 => i \in 1..(n + 1)
    BY <1>1
  <2>2. pen' \in Nat
    BY <1>1, <1>3
  <2>3. /\ 1 \in 1..((n + 1) + 1) /\ (n + 1) + 1 \in 1..((n + 1) + 1) /\ n + 1 \in 1..((n + 1) + 1)
        /\ n + 1 # (n + 1) + 1 /\ 1 # (n + 1) + 1
        /\ \A i \in 1..n : i \in 1..((n + 1) + 1) /\ i + 1 \in 1..((n + 1) + 1)
                           /\ i # (n + 1) + 1 /\ i + 1 # (n + 1) + 1
    BY <1>1
  <2> HIDE DEF n
  <2> QED BY <1>5, <1>6, <1>12, <2>1, <2>2, <2>3
<1>8. Totals(h, n + 1, w2)
  <2>1. \A i \in 1..(n + 1) : w2[i] = GlyphFor(codes'[i]).advance
    BY Zenon, <1>4
  <2>2. ASSUME NEW k \in 1..(n + 1) PROVE h[k + 1] = h[k] + GlyphFor(codes'[k]).advance
    <3>1. CASE k = n + 1
      BY Zenon, <1>3, <1>4, <1>7, <3>1 DEF g
    <3>2. CASE k # n + 1
      <4>1. k \in 1..n
        BY <1>1, <3>2
      <4> QED BY Zenon, <1>4, <1>6, <1>7, <4>1
    <3> QED BY <3>1, <3>2
  <2> HIDE DEF w2
  <2> QED BY Zenon, <1>7, <2>1, <2>2 DEF Totals, AddsEach
<1>9. drawn' = UNION {Inked(h[i], GlyphFor(codes'[i])) : i \in 1..(n + 1)}
  <2>1. 1..(n + 1) = (1..n) \cup {n + 1}
    BY <1>1
  <2>2. UNION {Inked(h[i], GlyphFor(codes'[i])) : i \in 1..(n + 1)} =
          (UNION {Inked(h[i], GlyphFor(codes'[i])) : i \in 1..n}) \cup Inked(pen, g)
    <3> DEFINE P(i) == Inked(h[i], GlyphFor(codes'[i]))
    <3>1. P(n + 1) = Inked(pen, g)
      BY Zenon, <1>4, <1>7 DEF g
    <3> HIDE DEF P
    <3>2. UNION {P(i) : i \in 1..(n + 1)} = (UNION {P(i) : i \in 1..n}) \cup P(n + 1)
      BY Zenon, <2>1
    <3> QED BY Zenon, <3>1, <3>2 DEF P
  <2>3. {Inked(h[i], GlyphFor(codes'[i])) : i \in 1..n} = {Inked(f[i], GlyphFor(codes[i])) : i \in 1..n}
    BY Zenon, <1>4, <1>7
  <2> QED BY Zenon, <1>3, <1>5, <2>2, <2>3
<1>10. Placed(h)'
  <2> SUFFICES /\ Totals(h, Len(codes'), w2)
               /\ pen' = h[Len(codes') + 1]
               /\ drawn' = UNION {Inked(h[i], GlyphFor(codes'[i])) : i \in 1..Len(codes')}
    BY DEF Placed
  <2> QED BY Zenon, <1>4, <1>7, <1>8, <1>9
<1>11. pen' \in Nat
  BY <1>1, <1>3
<1> QED BY Zenon, <1>3, <1>4, <1>10, <1>11 DEF PaintInv

\* Where Picture has the glyphs of a text.
Leads(f, t) ==
    f = [i \in 1..(Len(t) + 1) |-> IF i = 1 THEN 0 ELSE f[i - 1] + GlyphFor(t[i - 1]).advance]

\* A part of each set is that part of all of them.
LEMMA Cut ==
  ASSUME NEW Q, NEW S
  PROVE  (UNION Q) \cap S = UNION {q \cap S : q \in Q}
OBVIOUS

\* What is drawn is the picture of what came off the string.
LEMMA PaintIsPicture ==
  ASSUME PaintInv
  PROVE  drawn = Ssfn!Picture(codes)
<1> DEFINE n == Len(codes)
           a(i) == GlyphFor(codes[i]).advance
           w == [i \in 1..n |-> a(i)]
           leftOf == CHOOSE f : Leads(f, codes)
           at(i, f) == {<<leftOf[i] + (b % f.k), f.y + (b \div f.k)>> : b \in f.bits}
           of(i) == UNION {at(i, f) : f \in Ssfn!ToSet(GlyphFor(codes[i]).fragments)}
<1>1. n \in Nat /\ DOMAIN codes = 1..n /\ \A i \in 1..n : codes[i] \in Nat
  BY LenProperties, ElementOfSeq DEF PaintInv
<1>2. PICK f : Placed(f)
  BY DEF PaintInv
<1>3. /\ Totals(f, n, w) /\ drawn = UNION {Inked(f[i], GlyphFor(codes[i])) : i \in 1..n}
      /\ \A i \in 1..n : w[i] = a(i)
  BY <1>2 DEF Placed
<1>4. w \in [1..n -> Nat]
  <2>1. \A i \in 1..n : a(i) \in Nat
    BY Zenon, <1>1, GlyphIs
  <2> HIDE DEF a
  <2> QED BY <2>1
<1> HIDE DEF w, a
<1>5. f \in [1..(n + 1) -> Nat] /\ f[1] = 0 /\ \A k \in 1..n : f[k + 1] = f[k] + a(k)
  BY Zenon, <1>3 DEF Totals, AddsEach
<1>6. \E h : Leads(h, codes)
  <2>1. f = [i \in 1..(n + 1) |-> f[i]]
    BY Zenon, <1>5
  <2>2. ASSUME NEW i \in 1..(n + 1) PROVE f[i] = IF i = 1 THEN 0 ELSE f[i - 1] + a(i - 1)
    <3>1. CASE i = 1
      BY Zenon, <1>5, <3>1
    <3>2. CASE i # 1
      <4>1. i - 1 \in 1..n /\ (i - 1) + 1 = i
        BY <1>1, <3>2
      <4>2. f[(i - 1) + 1] = f[i - 1] + a(i - 1)
        BY Zenon, <1>5, <4>1
      <4> QED BY Zenon, <3>2, <4>1, <4>2
    <3> QED BY Zenon, <3>1, <3>2
  <2>3. Leads(f, codes)
    BY Zenon, <2>1, <2>2 DEF Leads, a, n
  <2> QED BY Zenon, <2>3
<1>7. Leads(leftOf, codes)
  BY Zenon, <1>6
<1>8. Ssfn!Picture(codes) = (UNION {of(i) : i \in DOMAIN codes}) \cap Visible
  BY Zenon DEF Ssfn!Picture, Leads, GlyphFor, Visible
<1> HIDE DEF leftOf
<1>9. \A i \in 1..n : leftOf[i] = f[i]
  <2>1. \A i \in 1..(n + 1) : leftOf[i] = IF i = 1 THEN 0 ELSE leftOf[i - 1] + a(i - 1)
    BY Zenon, <1>7 DEF Leads, n, a
  <2>2. leftOf[1] = 0
    <3>1. 1 \in 1..(n + 1)
      BY <1>1
    <3> QED BY Zenon, <2>1, <3>1
  <2>3. ASSUME NEW k \in 1..n PROVE leftOf[k + 1] = leftOf[k] + a(k)
    <3>1. k + 1 \in 1..(n + 1) /\ k + 1 # 1 /\ (k + 1) - 1 = k
      BY <1>1
    <3>2. leftOf[k + 1] = leftOf[(k + 1) - 1] + a((k + 1) - 1)
      BY Zenon, <2>1, <3>1
    <3> QED BY Zenon, <3>1, <3>2
  <2>4. \A k \in 1..n : leftOf[k + 1] = leftOf[k] + w[k]
    BY Zenon, <1>3, <2>3
  <2> HIDE DEF n
  <2>5. \A k \in 1..(n + 1) : f[k] = leftOf[k]
    <3>1. AddsEach(leftOf, n, w)
      BY Zenon, <2>2, <2>4 DEF AddsEach
    <3>2. Totals(f, n, w)
      BY Zenon, <1>3
    <3>3. n \in Nat
      BY Zenon, <1>1
    <3>4. w \in [1..n -> Nat]
      BY Zenon, <1>4
    <3>5. \A g : AddsEach(g, n, w) => \A k \in 1..(n + 1) : f[k] = g[k]
      BY ONLY <3>2, <3>3, <3>4, TotalsAreOne
    <3> QED BY Zenon, <3>1, <3>5
  <2>6. \A i \in 1..n : i \in 1..(n + 1)
    BY <1>1
  <2> QED BY Zenon, <2>5, <2>6
<1>10. \A i \in 1..n : \A e : at(i, e) \cap Visible = Pixels(f[i], e)
  BY Zenon, <1>9 DEF Pixels
<1> HIDE DEF at, n
<1>11. \A i \in 1..n : of(i) \cap Visible = Inked(f[i], GlyphFor(codes[i]))
  <2> SUFFICES ASSUME NEW i \in 1..n PROVE of(i) \cap Visible = Inked(f[i], GlyphFor(codes[i]))
    OBVIOUS
  <2> DEFINE F == Ssfn!ToSet(GlyphFor(codes[i]).fragments)
  <2>1. Inked(f[i], GlyphFor(codes[i])) = UNION {Pixels(f[i], e) : e \in F}
    BY Zenon DEF Inked
  <2> HIDE DEF F
  <2>2. {Pixels(f[i], e) : e \in F} = {at(i, e) \cap Visible : e \in F}
    BY Zenon, <1>10
  <2>3. (UNION {at(i, e) : e \in F}) \cap Visible = UNION {at(i, e) \cap Visible : e \in F}
    <3> DEFINE Q == {at(i, e) : e \in F}
    <3>1. {q \cap Visible : q \in Q} = {at(i, e) \cap Visible : e \in F}
      OBVIOUS
    <3>2. (UNION Q) \cap Visible = UNION {q \cap Visible : q \in Q}
      <4> HIDE DEF Q
      <4> QED BY Zenon, Cut
    <3> QED BY Zenon, <3>1, <3>2
  <2> QED BY Zenon, <2>1, <2>2, <2>3 DEF F
<1> HIDE DEF of
<1>12. (UNION {of(i) : i \in 1..n}) \cap Visible = UNION {of(i) \cap Visible : i \in 1..n}
  <2> DEFINE Q == {of(i) : i \in 1..n}
  <2>1. {q \cap Visible : q \in Q} = {of(i) \cap Visible : i \in 1..n}
    OBVIOUS
  <2>2. (UNION Q) \cap Visible = UNION {q \cap Visible : q \in Q}
    <3> HIDE DEF Q
    <3> QED BY Zenon, Cut
  <2> QED BY Zenon, <2>1, <2>2
<1>13. {of(i) \cap Visible : i \in 1..n} = {Inked(f[i], GlyphFor(codes[i])) : i \in 1..n}
  BY Zenon, <1>11
<1> QED BY Zenon, <1>1, <1>3, <1>8, <1>12, <1>13

\* PrintsText: whatever bytes a string has, the loop stops at its NUL; a text's code points
\* come off it, and what is on the line is their glyphs side by side.
THEOREM TextIsDrawn == Ssfn!Spec => []PrintsText
<1> DEFINE FontInv == ReadInv /\ PaintInv
<1>1. Ssfn!Init => FontInv
  BY ReadStarts, PaintStarts
<1>2. FontInv /\ [Ssfn!Next]_(Ssfn!vars) => FontInv'
  <2>1. ASSUME FontInv, Ssfn!Next PROVE FontInv'
    <3>1. Ssfn!PrintNext
      BY <2>1 DEF Ssfn!Next
    <3>2. ReadInv'
      BY <2>1, <3>1, ReadStays
    <3>3. Ssfn!Byte(place) # 0 /\ codes' = Append(codes, Ssfn!Utf8.c) /\ Ssfn!Putc(Ssfn!Utf8.c)
      BY Zenon, <3>1 DEF Ssfn!PrintNext
    <3>4. string \in Seq(1..255) /\ place \in 1..Len(string)
      <4>1. string \in Seq(1..255) /\ place \in 1..(Len(string) + 1) /\ Len(string) \in Nat
        BY <2>1, LenProperties DEF ReadInv
      <4>2. place \in Nat \ {0}
        BY <4>1
      <4> QED BY <3>3, <4>1, <4>2, ContinuesIs
    <3>5. Ssfn!Utf8.c \in Nat
      BY <3>4, Utf8Number
    <3>6. PaintInv'
      BY Zenon, <2>1, <3>3, <3>5, PaintStays
    <3> QED BY <3>2, <3>6
  <2>2. ASSUME FontInv, UNCHANGED Ssfn!vars PROVE FontInv'
    <3>1. /\ said' = said /\ string' = string /\ place' = place /\ codes' = codes
          /\ drawn' = drawn /\ pen' = pen
      BY <2>2 DEF Ssfn!vars
    <3>2. \A J : Decoded(J) => Decoded(J)'
      BY Zenon, <3>1 DEF Decoded
    <3>3. ReadInv'
      BY <2>2, <3>1, <3>2 DEF ReadInv
    <3>4. \A f : Placed(f) => Placed(f)'
      BY Zenon, <3>1 DEF Placed
    <3>5. PaintInv'
      BY <2>2, <3>1, <3>4 DEF PaintInv
    <3> QED BY <3>3, <3>5
  <2> QED BY <2>1, <2>2
<1>3. FontInv => PrintsText
  <2> SUFFICES ASSUME FontInv PROVE PrintsText
    OBVIOUS
  <2>1. place <= Len(string) + 1
    <3>1. place \in 1..(Len(string) + 1) /\ Len(string) \in Nat
      BY LenProperties DEF ReadInv
    <3> QED BY <3>1
  <2>2. Ssfn!Byte(place) = 0 => (said # Ssfn!Arbitrary => codes = said)
    BY ReadEnds
  <2>3. drawn = Ssfn!Picture(codes)
    BY PaintIsPicture
  <2> QED BY Zenon, <2>1, <2>2, <2>3 DEF PrintsText, Ssfn!PrintsText
<1> QED BY <1>1, <1>2, <1>3, PTL DEF Ssfn!Spec
-----------------------------------------------------------------------------
(* The ring of pointers.                                                    *)

\* The ring is a sequence of entries, each once: every one points to the next, the last
\* to the first.
RingIs(r) ==
    /\ r \in Seq(Entries)
    /\ \A i, j \in 1..Len(r) : r[i] = r[j] => i = j
    /\ Len(r) = 0 => first = Null
    /\ Len(r) > 0 => first = r[1] /\ first # Null /\ m_next[r[Len(r)]] = r[1]
    /\ \A i \in 1..(Len(r) - 1) : m_next[r[i]] = r[i + 1]

\* The pointers make one ring, or there is none.
RingInv == DOMAIN m_next = Entries /\ \E r : RingIs(r)

\* What a step does to a position of a round.
LEMMA NextPlace ==
  ASSUME NEW m \in Nat \ {0}, NEW k \in Nat \ {0}
  PROVE  /\ (k - 1) % m \in 0..(m - 1) /\ k % m \in 0..(m - 1)
         /\ (k - 1) % m < m - 1 => k % m = ((k - 1) % m) + 1
         /\ (k - 1) % m = m - 1 => k % m = 0
<1>1. k % m \in 0..(m - 1)
  <2>1. k \in Nat
    OBVIOUS
  <2> QED BY <2>1, Division
<1>2. \A j \in Nat : j \div m \in Nat /\ j % m \in 0..(m - 1) /\ j = m * (j \div m) + (j % m)
  BY Division
<1>3. PICK j \in Nat : j = k - 1
  OBVIOUS
<1>4. PICK q \in Nat, p \in 0..(m - 1) : j % m = p /\ j = m * q + p
  BY <1>2
<1>5. k = j + 1 /\ k \in Nat
  BY <1>3
<1> DEFINE Made(x, d, e) == x = m * d + e
<1>6. \A x \in Nat, d \in Int, e \in 0..(m - 1) : Made(x, d, e) => x % m = e
  BY UniqueQuotient
<1>7. CASE p < m - 1
  <2>1. PICK s \in 0..(m - 1) : s = p + 1
    BY <1>7
  <2>2. Made(k, q, s) /\ q \in Int
    BY <1>4, <1>5, <2>1
  <2> HIDE DEF Made
  <2>3. k % m = s
    BY <1>5, <1>6, <2>2
  <2> QED BY <1>1, <1>3, <1>4, <1>7, <2>1, <2>3
<1>8. CASE p = m - 1
  <2>1. PICK q1 \in Int : q1 = q + 1
    OBVIOUS
  <2>2. m * q1 = m * q + m
    BY <2>1
  <2>3. Made(k, q1, 0) /\ 0 \in 0..(m - 1)
    BY <1>4, <1>5, <1>8, <2>1, <2>2
  <2> HIDE DEF Made
  <2>4. k % m = 0
    BY <1>5, <1>6, <2>3
  <2> QED BY <1>1, <1>3, <1>4, <1>8, <2>4
<1> QED BY <1>7, <1>8

\* Following the pointers goes round and round.
LEMMA FollowRing ==
  ASSUME NEW r, RingIs(r), Len(r) > 0
  PROVE  \A k \in Nat : Follow[k] = r[(k % Len(r)) + 1]
<1> DEFINE m == Len(r)
           Round(f) == f = [k \in Nat |-> IF k = 0 THEN first ELSE m_next[f[k - 1]]]
           laps == [k \in Nat |-> r[(k % m) + 1]]
<1>1. m \in Nat \ {0} /\ r \in Seq(Entries)
  BY DEF RingIs
<1>2. 0 % m = 0
  BY <1>1, SmallRemainder
<1>3. first = r[1] /\ m_next[r[m]] = r[1] /\ \A i \in 1..(m - 1) : m_next[r[i]] = r[i + 1]
  BY DEF RingIs
<1> HIDE DEF m
<1>4. \A k \in Nat \ {0} : m_next[r[((k - 1) % m) + 1]] = r[(k % m) + 1]
  <2> SUFFICES ASSUME NEW k \in Nat \ {0} PROVE m_next[r[((k - 1) % m) + 1]] = r[(k % m) + 1]
    OBVIOUS
  <2> DEFINE p == (k - 1) % m
  <2>1. /\ p \in 0..(m - 1)
        /\ p < m - 1 => k % m = p + 1
        /\ p = m - 1 => k % m = 0
    BY <1>1, NextPlace
  <2> HIDE DEF p
  <2>2. CASE p < m - 1
    <3>1. p + 1 \in 1..(m - 1) /\ k % m = p + 1
      BY <1>1, <2>1, <2>2
    <3> QED BY <1>3, <3>1 DEF p
  <2>3. CASE p = m - 1
    <3>1. p + 1 = m /\ k % m = 0
      BY <1>1, <2>1, <2>3
    <3> QED BY <1>3, <3>1 DEF p
  <2> QED BY <1>1, <2>1, <2>2, <2>3
<1>5. Round(laps)
  <2>1. \A k \in Nat : laps[k] = IF k = 0 THEN first ELSE m_next[laps[k - 1]]
    <3> SUFFICES ASSUME NEW k \in Nat PROVE laps[k] = IF k = 0 THEN first ELSE m_next[laps[k - 1]]
      OBVIOUS
    <3>1. CASE k = 0
      BY <1>2, <1>3, <3>1
    <3>2. CASE k # 0
      <4>1. k \in Nat \ {0} /\ k - 1 \in Nat
        BY <3>2
      <4> QED BY <1>4, <3>2, <4>1
    <3> QED BY <3>1, <3>2
  <2>2. laps = [k \in Nat |-> laps[k]]
    OBVIOUS
  <2> HIDE DEF laps
  <2> QED BY <2>1, <2>2
<1> DEFINE f == Follow
<1>6. f = CHOOSE g : Round(g)
  BY DEF Follow
<1> HIDE DEF f, laps
<1>7. Round(f)
  BY <1>5, <1>6
<1>8. \A k \in Nat : f[k] = IF k = 0 THEN first ELSE m_next[f[k - 1]]
  BY <1>7
<1> DEFINE Off == {k \in Nat : f[k] # r[(k % m) + 1]}
<1>9. ASSUME Off # {} PROVE FALSE
  <2>1. Off \subseteq Nat
    OBVIOUS
  <2>2. PICK k \in Off : \A j \in Off : k <= j
    <3> HIDE DEF Off
    <3> QED BY <1>9, <2>1, LeastNatural
  <2>3. k # 0
    BY <1>2, <1>3, <1>8, <2>2
  <2>4. k \in Nat \ {0} /\ k - 1 \in Nat /\ k - 1 \notin Off
    BY <2>2, <2>3
  <2>5. f[k - 1] = r[((k - 1) % m) + 1]
    BY <2>4
  <2>6. f[k] = m_next[f[k - 1]]
    BY <1>8, <2>3, <2>4
  <2> QED BY <1>4, <2>2, <2>4, <2>5, <2>6
<1> QED BY <1>9 DEF f, m

\* A walk finds the sequence, and the loops of push, pop and remove the entry before another.
Finds(r) ==
    /\ Steps = Len(r)
    /\ AsSequence = r
    /\ \A e : InRing(e) <=> \E i \in 1..Len(r) : r[i] = e
    /\ \A i \in 1..Len(r) : Before(r[i]) = r[IF i = 1 THEN Len(r) ELSE i - 1]

LEMMA WalkFinds ==
  ASSUME NEW r, RingIs(r)
  PROVE  Finds(r)
<1> DEFINE m == Len(r)
<1>1. /\ m \in Nat /\ r \in Seq(Entries) /\ r = [i \in 1..m |-> r[i]]
      /\ \A i, j \in 1..m : r[i] = r[j] => i = j
  BY DEF RingIs
<1>2. CASE m = 0
  <2>1. first = Null
    BY <1>2 DEF RingIs
  <2>2. Steps = 0
    BY <2>1 DEF Steps
  <2>3. 1..0 = {} /\ 0..(0 - 1) = {}
    OBVIOUS
  <2>4. AsSequence = r
    BY <1>1, <1>2, <2>2, <2>3 DEF AsSequence
  <2>5. \A e : ~InRing(e)
    BY <2>2, <2>3 DEF InRing
  <2> QED BY <1>2, <2>2, <2>3, <2>4, <2>5 DEF Finds
<1>3. CASE m # 0
  <2>1. /\ m \in Nat \ {0} /\ m > 0
        /\ first = r[1] /\ first # Null /\ m_next[r[m]] = r[1]
        /\ \A i \in 1..(m - 1) : m_next[r[i]] = r[i + 1]
    BY <1>1, <1>3 DEF RingIs
  <2>2. \A k \in Nat : Follow[k] = r[(k % m) + 1]
    BY <2>1, FollowRing
  <2> HIDE DEF m
  <2>3. ASSUME NEW k \in 0..(m - 1) PROVE Follow[k] = r[k + 1]
    <3>1. k % m = k /\ k \in Nat
      BY <2>1, SmallRemainder
    <3> QED BY <2>2, <3>1
  <2>4. Cardinality(Entries) \in Nat /\ m <= Cardinality(Entries)
    <3>1. r \in [1..m -> Entries] /\ DOMAIN r = 1..m
      BY <1>1 DEF m
    <3>2. r \in Injection(1..m, Entries)
      BY <1>1, <3>1 DEF Injection, IsInjective, m
    <3>3. IsFiniteSet(1..m) /\ Cardinality(1..m) = m
      <4>1. 1 \in Int /\ m \in Int
        BY <2>1
      <4>2. IsFiniteSet(1..m) /\ Cardinality(1..m) = IF 1 > m THEN 0 ELSE m - 1 + 1
        BY <4>1, FS_Interval
      <4> QED BY <2>1, <4>2
    <3>4. Cardinality(1..m) <= Cardinality(Entries)
      BY <3>2, EntriesAssumption, FS_Injection
    <3> QED BY <3>3, <3>4, EntriesAssumption, FS_CardinalityType
  <2>5. m \in Back
    <3>1. m % m = 0
      <4>1. 0 \in 0..(m - 1) /\ 1 \in Int /\ m = m * 1 + 0
        BY <2>1
      <4>2. m \in Nat /\ m \in Nat \ {0}
        BY <2>1
      <4> QED BY <4>1, <4>2, UniqueQuotient
    <3>2. Follow[m] = first
      BY <2>1, <2>2, <3>1
    <3> QED BY <2>1, <2>4, <3>2 DEF Back
  <2>6. ASSUME NEW k \in Back PROVE k \in Nat /\ m <= k
    <3>1. k \in Nat \ {0} /\ Follow[k] = first
      BY <2>4 DEF Back
    <3>2. k % m \in 0..(m - 1) /\ k \div m \in Nat /\ k = m * (k \div m) + (k % m)
      BY <2>1, <3>1, Division
    <3>3. k % m = 0
      <4>1. (k % m) + 1 \in 1..m /\ 1 \in 1..m
        BY <2>1, <3>2
      <4>2. r[(k % m) + 1] = r[1]
        BY <2>1, <2>2, <3>1
      <4>3. (k % m) + 1 = 1
        BY <1>1, <4>1, <4>2 DEF m
      <4> QED BY <3>2, <4>3
    <3> DEFINE q == k \div m
    <3> HIDE DEF q
    <3>4. q \in Nat /\ k = m * q /\ q # 0
      BY <2>1, <3>1, <3>2, <3>3 DEF q
    <3>5. m * q >= m * 1
      BY <2>1, <3>4
    <3> QED BY <2>1, <3>1, <3>4, <3>5
  <2>7. Steps = m
    <3> DEFINE steps == CHOOSE k \in Back : \A j \in Back : k <= j
    <3>1. Steps = steps
      BY <2>1 DEF Steps
    <3>2. steps \in Back /\ \A j \in Back : steps <= j
      BY <2>5, <2>6
    <3> HIDE DEF steps
    <3>3. steps <= m /\ m <= steps /\ steps \in Nat
      BY <2>5, <2>6, <3>2
    <3> QED BY <2>1, <3>1, <3>3
  <2>8. AsSequence = r
    <3>1. \A i \in 1..m : i - 1 \in 0..(m - 1) /\ (i - 1) + 1 = i
      BY <2>1
    <3>2. \A i \in 1..m : Follow[i - 1] = r[i]
      BY <2>3, <3>1
    <3> QED BY <1>1, <2>7, <3>2 DEF AsSequence, m
  <2>9. \A e : InRing(e) <=> \E i \in 1..m : r[i] = e
    <3>1. ASSUME NEW e, InRing(e) PROVE \E i \in 1..m : r[i] = e
      <4>1. PICK k \in 0..(m - 1) : Follow[k] = e
        BY <2>7, <3>1 DEF InRing
      <4>2. k + 1 \in 1..m /\ r[k + 1] = e
        BY <2>1, <2>3, <4>1
      <4> QED BY <4>2
    <3>2. ASSUME NEW e, NEW i \in 1..m, r[i] = e PROVE InRing(e)
      <4>1. i - 1 \in 0..(m - 1) /\ (i - 1) + 1 = i
        BY <2>1
      <4>2. Follow[i - 1] = e
        BY <2>3, <3>2, <4>1
      <4> QED BY <2>7, <4>1, <4>2 DEF InRing
    <3> QED BY <3>1, <3>2
  <2>10. ASSUME NEW i \in 1..m PROVE Before(r[i]) = r[IF i = 1 THEN m ELSE i - 1]
    <3> DEFINE j == IF i = 1 THEN m ELSE i - 1
    <3>1. j \in 1..m /\ m_next[r[j]] = r[i]
      <4>1. CASE i = 1
        BY <2>1, <4>1
      <4>2. CASE i # 1
        <5>1. i - 1 \in 1..(m - 1) /\ (i - 1) + 1 = i
          BY <2>1, <4>2
        <5> QED BY <2>1, <4>2, <5>1
      <4> QED BY <4>1, <4>2
    <3>2. r[j] \in Entries /\ InRing(r[j])
      <4>1. r[j] \in Entries
        BY <1>1, <3>1 DEF m
      <4> QED BY <2>9, <3>1, <4>1
    <3>3. ASSUME NEW p \in Entries, InRing(p), m_next[p] = r[i] PROVE p = r[j]
      <4>1. PICK l \in 1..m : r[l] = p
        BY <2>9, <3>3
      <4>2. CASE l = m
        <5>1. r[1] = r[i] /\ 1 \in 1..m
          BY <2>1, <3>3, <4>1, <4>2
        <5>2. i = 1
          BY <1>1, <5>1 DEF m
        <5> QED BY <4>1, <4>2, <5>2
      <4>3. CASE l # m
        <5>1. l \in 1..(m - 1) /\ l + 1 \in 1..m
          BY <2>1, <4>3
        <5>2. r[l + 1] = r[i]
          BY <2>1, <3>3, <4>1, <5>1
        <5>3. l + 1 = i
          BY <1>1, <5>1, <5>2 DEF m
        <5>4. j = l
          BY <5>1, <5>3
        <5> QED BY <4>1, <5>4
      <4> QED BY <4>2, <4>3
    <3> HIDE DEF j
    <3>4. Before(r[i]) = r[j]
      BY <3>1, <3>2, <3>3 DEF Before
    <3> QED BY <3>4 DEF j
  <2> QED BY <2>7, <2>8, <2>9, <2>10 DEF Finds, m
<1> QED BY <1>2, <1>3

\* What removing the entry at a position makes of a sequence that has each once.
LEMMA WithoutOne ==
  ASSUME NEW r, RingIs(r), NEW i \in 1..Len(r)
  PROVE  Without(r, r[i]) = [j \in 1..(Len(r) - 1) |-> IF j < i THEN r[j] ELSE r[j + 1]]
<1> DEFINE e == r[i]
           at == CHOOSE j \in DOMAIN r : r[j] = e
<1>1. DOMAIN r = 1..Len(r) /\ r[i] = e /\ ~(\A j \in DOMAIN r : r[j] # e)
  BY DEF RingIs
<1>2. at = i
  <2>1. \A j, k \in DOMAIN r : r[j] = r[k] => j = k
    BY <1>1 DEF RingIs
  <2> QED BY <1>1, <2>1
<1> HIDE DEF at
<1>3. Without(r, e) = [j \in 1..(Len(r) - 1) |-> IF j < at THEN r[j] ELSE r[j + 1]]
  BY <1>1 DEF Without, at
<1> QED BY <1>2, <1>3

\* A pushed entry is the first of the new sequence, and the last one points to it.
LEMMA PushMakes ==
  ASSUME DOMAIN m_next = Entries,
         NEW r, RingIs(r), NEW e \in Entries, Push(e)
  PROVE  RingIs(<<e>> \o r)' /\ DOMAIN m_next' = Entries
<1> DEFINE m == Len(r)
           w == <<e>> \o r
<1>1. /\ m \in Nat /\ r \in Seq(Entries)
      /\ \A i, j \in 1..m : r[i] = r[j] => i = j
      /\ \A i \in 1..m : r[i] \in Entries
  BY DEF RingIs
<1>2. w \in Seq(Entries) /\ Len(w) = m + 1 /\ w[1] = e /\ \A i \in 1..m : w[i + 1] = r[i]
  BY <1>1
<1>3. Finds(r)
  BY WalkFinds
<1>4. \A i \in 1..m : r[i] # e
  BY <1>3 DEF Finds, Push
<1>5. \A i, j \in 1..(m + 1) : w[i] = w[j] => i = j
  <2> SUFFICES ASSUME NEW i \in 1..(m + 1), NEW j \in 1..(m + 1), w[i] = w[j] PROVE i = j
    OBVIOUS
  <2>1. \A k \in 1..(m + 1) : k = 1 \/ (k - 1 \in 1..m /\ w[k] = r[k - 1])
    <3> SUFFICES ASSUME NEW k \in 1..(m + 1), k # 1 PROVE k - 1 \in 1..m /\ w[k] = r[k - 1]
      OBVIOUS
    <3>1. PICK l \in 1..m : l = k - 1 /\ k = l + 1
      BY <1>1
    <3> HIDE DEF w, m
    <3> QED BY <1>2, <3>1
  <2> HIDE DEF w, m
  <2>2. w[1] = e /\ \A k \in 1..m : r[k] # e
    BY <1>2, <1>4
  <2>3. CASE i = 1 \/ j = 1
    BY <2>1, <2>2, <2>3
  <2>4. CASE i # 1 /\ j # 1
    <3>1. i - 1 = j - 1
      BY <1>1, <2>1, <2>4
    <3> QED BY <1>1, <3>1
  <2> QED BY <2>3, <2>4
<1>6. e # Null /\ first' = e
  BY EntriesAssumption DEF Push
<1>7. CASE m = 0
  <2>1. first = Null
    BY <1>7 DEF RingIs
  <2>2. m_next' = [m_next EXCEPT ![e] = e]
    BY <2>1 DEF Push
  <2> HIDE DEF w, m
  <2>3. Len(w) = 1 /\ 1..(Len(w) - 1) = {} /\ Len(w) > 0 /\ Len(w) # 0
    BY <1>2, <1>7
  <2>4. DOMAIN m_next' = Entries /\ m_next'[e] = e
    BY <2>2
  <2>5. RingIs(w)'
    BY <1>2, <1>5, <1>6, <1>7, <2>3, <2>4 DEF RingIs
  <2> QED BY <2>4, <2>5 DEF w
<1>8. CASE m # 0
  <2>1. m \in 1..m /\ 1 \in 1..m /\ m > 0
    BY <1>1, <1>8
  <2>2. /\ first = r[1] /\ first # Null /\ m_next[r[m]] = r[1]
        /\ \A i \in 1..(m - 1) : m_next[r[i]] = r[i + 1]
    BY <2>1 DEF RingIs
  <2>3. Before(first) = r[m]
    BY <1>3, <2>1, <2>2 DEF Finds
  <2>4. m_next' = [m_next EXCEPT ![e] = r[1], ![r[m]] = e]
    BY <2>2, <2>3 DEF Push
  <2> HIDE DEF w, m
  <2>5. r[m] \in Entries /\ r[m] # e
    BY <1>1, <1>4, <2>1
  <2>6. /\ DOMAIN m_next' = Entries /\ m_next'[e] = r[1] /\ m_next'[r[m]] = e
        /\ \A x \in Entries : x # e /\ x # r[m] => m_next'[x] = m_next[x]
    BY <2>4, <2>5
  <2>7. \A i \in 1..(m - 1) : m_next'[r[i]] = r[i + 1]
    <3> SUFFICES ASSUME NEW i \in 1..(m - 1) PROVE m_next'[r[i]] = r[i + 1]
      OBVIOUS
    <3>1. i \in 1..m /\ i # m
      BY <1>1
    <3>2. r[i] \in Entries /\ r[i] # e /\ r[i] # r[m]
      BY <1>1, <1>4, <2>1, <3>1
    <3> QED BY <2>2, <2>6, <3>2
  <2>8. \A i \in 1..m : m_next'[w[i]] = w[i + 1]
    <3> SUFFICES ASSUME NEW i \in 1..m PROVE m_next'[w[i]] = w[i + 1]
      OBVIOUS
    <3>1. CASE i = 1
      BY <1>2, <2>6, <3>1
    <3>2. CASE i # 1
      <4>1. PICK l \in 1..(m - 1) : i = l + 1
        <5>1. i - 1 \in 1..(m - 1) /\ i = (i - 1) + 1
          BY <1>1, <3>2
        <5> QED BY <5>1
      <4>2. l \in 1..m /\ l + 1 \in 1..m
        BY <1>1
      <4>3. w[l + 1] = r[l] /\ w[l + 1 + 1] = r[l + 1]
        BY <1>2, <4>2
      <4> QED BY <2>7, <4>1, <4>3
    <3> QED BY <3>1, <3>2
  <2>9. w[m + 1] = r[m]
    BY <1>2, <2>1
  <2>10. Len(w) - 1 = m /\ Len(w) > 0 /\ Len(w) # 0
    BY <1>1, <1>2
  <2>11. RingIs(w)'
    BY <1>2, <1>5, <1>6, <2>6, <2>8, <2>9, <2>10 DEF RingIs
  <2> QED BY <2>6, <2>11 DEF w
<1> QED BY <1>7, <1>8

\* What is left when one entry is taken out: the entry before it points to the one behind it.
\* Taking out the first entry moves the head.
LEMMA TakeOutMakes ==
  ASSUME DOMAIN m_next = Entries,
         NEW r, RingIs(r), Len(r) > 1, NEW i \in 1..Len(r),
         m_next' = [m_next EXCEPT ![r[IF i = 1 THEN Len(r) ELSE i - 1]] = m_next[r[i]]],
         first' = IF i = 1 THEN m_next[r[1]] ELSE first
  PROVE  RingIs([j \in 1..(Len(r) - 1) |-> IF j < i THEN r[j] ELSE r[j + 1]])' /\ DOMAIN m_next' = Entries
<1> DEFINE m == Len(r)
           w == [j \in 1..(m - 1) |-> IF j < i THEN r[j] ELSE r[j + 1]]
           b == IF i = 1 THEN m ELSE i - 1
<1>1. /\ m \in Nat /\ m > 1 /\ r \in Seq(Entries) /\ i \in 1..m
      /\ \A j, k \in 1..m : r[j] = r[k] => j = k
      /\ \A j \in 1..m : r[j] \in Entries
      /\ first = r[1] /\ m_next[r[m]] = r[1] /\ \A j \in 1..(m - 1) : m_next[r[j]] = r[j + 1]
  BY DEF RingIs
<1>2. w \in Seq(Entries) /\ Len(w) = m - 1
  <2> HIDE DEF m
  <2>1. \A j \in 1..(m - 1) : w[j] \in Entries
    <3> SUFFICES ASSUME NEW j \in 1..(m - 1) PROVE w[j] \in Entries
      OBVIOUS
    <3>1. j \in 1..m /\ j + 1 \in 1..m
      BY <1>1
    <3> QED BY <1>1, <3>1
  <2>2. m - 1 \in Nat /\ DOMAIN w = 1..(m - 1) /\ w = [j \in 1..(m - 1) |-> w[j]]
    BY <1>1
  <2> HIDE DEF w
  <2>3. w \in [1..(m - 1) -> Entries]
    BY <2>1, <2>2
  <2> QED BY <2>2, <2>3
<1>3. m_next' = [m_next EXCEPT ![r[b]] = m_next[r[i]]] /\ first' = IF i = 1 THEN m_next[r[1]] ELSE first
  OBVIOUS
<1>4. \A j \in 1..(m - 1) : w[j] = IF j < i THEN r[j] ELSE r[j + 1]
  OBVIOUS
<1> HIDE DEF w, m
<1>5. b \in 1..m /\ b # i /\ (i = 1 => b = m) /\ (i # 1 => b = i - 1)
  BY <1>1
<1> HIDE DEF b
<1>6. r[b] \in Entries
  BY <1>1, <1>5
<1>7. DOMAIN m_next' = Entries /\ m_next'[r[b]] = m_next[r[i]] /\ \A j \in 1..m : j # b => m_next'[r[j]] = m_next[r[j]]
  <2>1. DOMAIN m_next' = Entries /\ m_next'[r[b]] = m_next[r[i]]
    BY <1>3, <1>6
  <2>2. ASSUME NEW j \in 1..m, j # b PROVE m_next'[r[j]] = m_next[r[j]]
    <3>1. r[j] \in Entries /\ r[j] # r[b]
      BY <1>1, <1>5, <2>2
    <3> QED BY <1>3, <3>1
  <2> QED BY <2>1, <2>2
<1>8. \A j, k \in 1..(m - 1) : w[j] = w[k] => j = k
  <2> SUFFICES ASSUME NEW j \in 1..(m - 1), NEW k \in 1..(m - 1), w[j] = w[k] PROVE j = k
    OBVIOUS
  <2>1. j \in 1..m /\ j + 1 \in 1..m /\ k \in 1..m /\ k + 1 \in 1..m
    <3>1. m \in Nat
      BY <1>1
    <3>2. \A x \in 1..(m - 1) : x \in 1..m /\ x + 1 \in 1..m
      BY <3>1
    <3> QED BY <3>2
  <2>2. \/ j < i /\ w[j] = r[j]
        \/ ~(j < i) /\ w[j] = r[j + 1]
    BY <1>4
  <2>3. \/ k < i /\ w[k] = r[k]
        \/ ~(k < i) /\ w[k] = r[k + 1]
    BY <1>4
  <2>4. \/ j < i /\ k < i /\ j = k
        \/ j < i /\ ~(k < i) /\ j = k + 1
        \/ ~(j < i) /\ k < i /\ j + 1 = k
        \/ j + 1 = k + 1
    BY <1>1, <2>1, <2>2, <2>3
  <2> QED BY <1>1, <2>4
<1>9. ASSUME NEW j \in 1..(m - 2) PROVE m_next'[w[j]] = w[j + 1]
  <2>1. j \in 1..(m - 1) /\ j + 1 \in 1..(m - 1) /\ j + 1 \in 1..m /\ j \in 1..m
    BY <1>1, <1>9
  <2>2. CASE j + 1 < i
    <3>1. w[j] = r[j] /\ w[j + 1] = r[j + 1] /\ j # b
      BY <1>1, <1>4, <1>5, <2>1, <2>2
    <3> QED BY <1>1, <1>7, <2>1, <3>1
  <2>3. CASE j + 1 = i
    <3>1. w[j] = r[j] /\ w[j + 1] = r[i + 1] /\ j = b /\ i \in 1..(m - 1)
      BY <1>1, <1>4, <1>5, <2>1, <2>3
    <3> QED BY <1>1, <1>7, <3>1
  <2>4. CASE j + 1 > i
    <3>1. w[j] = r[j + 1] /\ w[j + 1] = r[j + 1 + 1]
      BY <1>1, <1>4, <2>1, <2>4
    <3>2. j + 1 # b
      BY <1>1, <1>5, <1>9, <2>4
    <3> QED BY <1>1, <1>7, <2>1, <3>1, <3>2
  <2> QED BY <1>1, <2>1, <2>2, <2>3, <2>4
<1>10. first' = w[1] /\ first' # Null
  <2>1. 1 \in 1..(m - 1) /\ 1 \in 1..m /\ 2 \in 1..m /\ 1 + 1 = 2
    BY <1>1
  <2>2. CASE i = 1
    <3>1. w[1] = r[1 + 1] /\ first' = m_next[r[1]]
      BY <1>3, <1>4, <2>1, <2>2
    <3>2. m_next[r[1]] = r[1 + 1] /\ r[1 + 1] \in Entries
      BY <1>1, <2>1
    <3> QED BY <3>1, <3>2, EntriesAssumption
  <2>3. CASE i # 1
    <3>1. 1 < i
      BY <1>1, <2>3
    <3>2. w[1] = r[1] /\ first' = first
      BY <1>3, <1>4, <2>1, <2>3, <3>1
    <3>3. first = r[1] /\ r[1] \in Entries
      BY <1>1, <2>1
    <3> QED BY <3>2, <3>3, EntriesAssumption
  <2> QED BY <2>2, <2>3
<1>11. m_next'[w[m - 1]] = w[1]
  <2>1. m - 1 \in 1..(m - 1) /\ 1 \in 1..(m - 1) /\ m \in 1..m /\ 1 \in 1..m /\ (m - 1) + 1 = m
    BY <1>1
  <2>2. m_next'[r[b]] = m_next[r[i]] /\ m_next[r[m]] = r[1] /\ \A j \in 1..(m - 1) : m_next[r[j]] = r[j + 1]
    BY <1>1, <1>7
  <2>3. m # b => m_next'[r[m]] = m_next[r[m]]
    BY <1>1, <1>7
  <2>4. CASE i = 1
    <3>1. w[m - 1] = r[m] /\ w[1] = r[1 + 1] /\ b = m
      BY <1>1, <1>4, <1>5, <2>1, <2>4
    <3> QED BY <2>1, <2>2, <2>4, <3>1
  <2>5. CASE i = m
    <3>1. m - 1 < i /\ 1 < i /\ b = m - 1
      BY <1>1, <1>5, <2>5
    <3>2. w[m - 1] = r[m - 1] /\ w[1] = r[1]
      BY <1>4, <2>1, <3>1
    <3> QED BY <2>2, <2>5, <3>1, <3>2
  <2>6. CASE i # 1 /\ i # m
    <3>1. ~(m - 1 < i) /\ 1 < i /\ b # m
      BY <1>1, <1>5, <2>6
    <3>2. w[m - 1] = r[m] /\ w[1] = r[1]
      BY <1>4, <2>1, <3>1
    <3> QED BY <2>2, <2>3, <3>1, <3>2
  <2> QED BY <2>4, <2>5, <2>6
<1>12. Len(w) > 0 /\ Len(w) # 0 /\ Len(w) - 1 = m - 2
  BY <1>1, <1>2
<1>13. RingIs(w)'
  BY <1>2, <1>8, <1>9, <1>10, <1>11, <1>12 DEF RingIs
<1> QED BY <1>7, <1>13 DEF w, m

\* A pop takes the first entry out.
LEMMA PopMakes ==
  ASSUME DOMAIN m_next = Entries,
         NEW r, RingIs(r), Pop
  PROVE  RingIs(Tail(r))' /\ DOMAIN m_next' = Entries
<1> DEFINE m == Len(r)
<1>1. /\ m \in Nat /\ r \in Seq(Entries)
      /\ \A i, j \in 1..m : r[i] = r[j] => i = j
  BY DEF RingIs
<1>2. m > 0 /\ 1 \in 1..m /\ m \in 1..m
  <2>1. m # 0
    BY DEF RingIs, Pop
  <2> QED BY <1>1, <2>1
<1>3. first = r[1] /\ m_next[r[m]] = r[1] /\ \A i \in 1..(m - 1) : m_next[r[i]] = r[i + 1]
  BY <1>2 DEF RingIs
<1>4. CASE m = 1
  <2>1. first' = Null /\ m_next' = m_next
    BY <1>3, <1>4 DEF Pop
  <2>2. Tail(r) \in Seq(Entries) /\ Len(Tail(r)) = 0
    <3>1. r # <<>> /\ r \in Seq(Entries)
      <4>1. Len(<<>>) = 0 /\ Len(r) # 0
        BY <1>4
      <4>2. r # <<>>
        BY <4>1, Zenon
      <4> QED BY <1>1, <4>2
    <3>2. Tail(r) \in Seq(Entries) /\ Len(Tail(r)) = m - 1
      BY <3>1, HeadTailProperties
    <3> QED BY <1>4, <3>2
  <2>3. 1..0 = {} /\ 1..(0 - 1) = {} /\ ~(0 > 0)
    OBVIOUS
  <2>4. RingIs(Tail(r))'
    BY <2>1, <2>2, <2>3 DEF RingIs
  <2> QED BY <2>1, <2>4
<1>5. CASE m > 1
  <2> DEFINE w == [j \in 1..(m - 1) |-> IF j < 1 THEN r[j] ELSE r[j + 1]]
  <2>1. 2 \in 1..m /\ 1 \in 1..(m - 1) /\ m_next[r[1]] = r[1 + 1] /\ r[2] # r[1]
    <3>1. 2 \in 1..m /\ 1 \in 1..(m - 1) /\ 2 # 1 /\ 1 + 1 = 2
      BY <1>1, <1>5
    <3> QED BY <1>1, <1>2, <1>3, <3>1
  <2>2. first' = m_next[r[1]] /\ m_next' = [m_next EXCEPT ![Before(r[1])] = m_next[r[1]]]
    BY <1>3, <2>1 DEF Pop
  <2>3. Before(r[1]) = r[m]
    <3>1. Finds(r)
      BY WalkFinds
    <3> QED BY <1>2, <3>1 DEF Finds
  <2>4. RingIs(w)' /\ DOMAIN m_next' = Entries
    <3>1. m_next' = [m_next EXCEPT ![r[IF 1 = 1 THEN m ELSE 1 - 1]] = m_next[r[1]]]
      BY <2>2, <2>3
    <3>2. first' = IF 1 = 1 THEN m_next[r[1]] ELSE first
      BY <2>2
    <3> QED BY <1>2, <1>5, <3>1, <3>2, TakeOutMakes
  <2>5. w = Tail(r)
    <3>1. r # <<>>
      BY <1>5
    <3>2. Tail(r) \in Seq(Entries) /\ Len(Tail(r)) = m - 1 /\ \A j \in 1..(m - 1) : Tail(r)[j] = r[j + 1]
      BY <1>1, <3>1, HeadTailProperties
    <3>3. DOMAIN Tail(r) = 1..(m - 1) /\ Tail(r) = [j \in 1..(m - 1) |-> Tail(r)[j]]
      BY <3>2, LenProperties
    <3>4. \A j \in 1..(m - 1) : ~(j < 1)
      BY <1>1
    <3> HIDE DEF m
    <3> QED BY <3>2, <3>3, <3>4
  <2> QED BY <2>4, <2>5
<1>6. m = 1 \/ m > 1
  <2> HIDE DEF m
  <2> QED BY <1>1, <1>2
<1> QED BY <1>4, <1>5, <1>6

\* Removing an entry takes it out, wherever it is, and leaves the others as they are.
LEMMA RemoveMakes ==
  ASSUME DOMAIN m_next = Entries,
         NEW r, RingIs(r), NEW e \in Entries, Remove(e)
  PROVE  RingIs(Without(r, e))' /\ DOMAIN m_next' = Entries
<1> DEFINE m == Len(r)
<1>1. /\ m \in Nat /\ r \in Seq(Entries) /\ DOMAIN r = 1..m
      /\ \A i, j \in 1..m : r[i] = r[j] => i = j
  BY DEF RingIs
<1>2. Finds(r)
  BY WalkFinds
<1>3. CASE \A i \in 1..m : r[i] # e
  <2>1. ~InRing(e)
    BY <1>2, <1>3 DEF Finds
  <2>2. first' = first /\ m_next' = m_next
    <3>1. UNCHANGED pointers
      BY <2>1, Zenon DEF Remove
    <3> QED BY <3>1 DEF pointers
  <2>3. Without(r, e) = r
    BY <1>1, <1>3 DEF Without
  <2> QED BY <2>2, <2>3 DEF RingIs
<1>4. ASSUME NEW i \in 1..m, r[i] = e PROVE RingIs(Without(r, e))' /\ DOMAIN m_next' = Entries
  <2> DEFINE b == IF i = 1 THEN m ELSE i - 1
             w == [j \in 1..(m - 1) |-> IF j < i THEN r[j] ELSE r[j + 1]]
  <2>1. m > 0 /\ m # 0 /\ 1 \in 1..m
    BY <1>1
  <2>2. first = r[1] /\ first # Null
    BY <2>1 DEF RingIs
  <2>3. InRing(e) /\ Before(e) = r[b]
    BY <1>2, <1>4 DEF Finds
  <2>4. Without(r, e) = w
    BY <1>4, WithoutOne
  <2>5. b \in 1..m /\ (m = 1 => b = i) /\ (m # 1 => b # i)
    <3> HIDE DEF m
    <3>1. CASE i = 1
      BY <1>1, <3>1
    <3>2. CASE i # 1
      BY <1>1, <3>2
    <3> QED BY <3>1, <3>2
  <2>6. CASE m = 1
    <3>1. Before(e) = e
      BY <1>4, <2>3, <2>5, <2>6
    <3>2. first' = Null /\ m_next' = m_next
      BY <2>2, <2>3, <3>1 DEF Remove
    <3>3. 1..0 = {} /\ 1..(0 - 1) = {} /\ ~(0 > 0) /\ m - 1 = 0
      BY <2>6
    <3> HIDE DEF m
    <3>4. w \in [1..0 -> Entries]
      BY <3>3
    <3> HIDE DEF w
    <3>5. w \in Seq(Entries) /\ Len(w) = 0
      BY <3>4
    <3>6. RingIs(w)'
      BY <3>2, <3>3, <3>5 DEF RingIs
    <3> QED BY <2>4, <3>2, <3>6
  <2>7. CASE m # 1
    <3>1. Before(e) # e
      <4>1. b \in 1..m /\ b # i
        BY <2>5, <2>7
      <4> HIDE DEF b
      <4>2. r[b] # r[i]
        BY <1>1, <4>1
      <4> QED BY <1>4, <2>3, <4>2
    <3>2. m_next' = [m_next EXCEPT ![r[b]] = m_next[r[i]]] /\ first' = IF first = e THEN m_next[e] ELSE first
      BY <1>4, <2>2, <2>3, <3>1 DEF Remove
    <3>3. first = e <=> i = 1
      BY <1>1, <1>4, <2>1, <2>2
    <3>4. first' = IF i = 1 THEN m_next[r[1]] ELSE first
      BY <1>4, <3>2, <3>3
    <3>5. m > 1
      BY <1>1, <2>1, <2>7
    <3>6. m_next' = [m_next EXCEPT ![r[IF i = 1 THEN m ELSE i - 1]] = m_next[r[i]]]
      BY <3>2
    <3>7. RingIs(w)' /\ DOMAIN m_next' = Entries
      BY <1>4, <3>4, <3>5, <3>6, TakeOutMakes, Zenon
    <3> HIDE DEF w
    <3> QED BY <2>4, <3>7, Zenon
  <2> QED BY <2>6, <2>7
<1> QED BY <1>3, <1>4

\* Wherever there is a ring, a walk finds it.
WalkOK == \A r : RingIs(r) => Finds(r)

\* What the three operations make of the sequence a walk finds.
Operated ==
    /\ \A e \in Entries :
         /\ Push(e)   => AsSequence' = <<e>> \o AsSequence
         /\ Remove(e) => AsSequence' = Without(AsSequence, e)
    /\ Pop => AsSequence' = Tail(AsSequence)

LEMMA StepKeepsSequence ==
  ASSUME RingInv, WalkOK, WalkOK', [NextRing]_pointers
  PROVE  RingInv' /\ (NextRing => Operated)
<1>1. PICK r : RingIs(r)
  BY DEF RingInv
<1>2. DOMAIN m_next = Entries /\ AsSequence = r
  BY <1>1 DEF RingInv, WalkOK, Finds
<1>3. ASSUME NEW w, RingIs(w)', DOMAIN m_next' = Entries PROVE RingInv' /\ AsSequence' = w
  <2>1. RingInv'
    BY <1>3 DEF RingInv
  <2> QED BY <1>3, <2>1 DEF WalkOK, Finds
<1>4. ASSUME NEW e \in Entries, Push(e) PROVE RingInv' /\ AsSequence' = <<e>> \o AsSequence
  <2>1. RingIs(<<e>> \o r)' /\ DOMAIN m_next' = Entries
    BY <1>1, <1>2, <1>4, PushMakes
  <2> DEFINE w == <<e>> \o r
  <2>2. w = <<e>> \o AsSequence
    BY <1>2
  <2> HIDE DEF w
  <2> QED BY <1>3, <2>1, <2>2 DEF w
<1>5. ASSUME NEW e \in Entries, Remove(e) PROVE RingInv' /\ AsSequence' = Without(AsSequence, e)
  <2> DEFINE w == Without(r, e)
  <2>1. RingIs(w)' /\ DOMAIN m_next' = Entries
    BY <1>1, <1>2, <1>5, RemoveMakes
  <2>2. w = Without(AsSequence, e)
    BY <1>2
  <2> HIDE DEF w
  <2> QED BY <1>3, <2>1, <2>2
<1>6. ASSUME Pop PROVE RingInv' /\ AsSequence' = Tail(AsSequence)
  <2> DEFINE w == Tail(r)
  <2>1. RingIs(w)' /\ DOMAIN m_next' = Entries
    BY <1>1, <1>2, <1>6, PopMakes
  <2>2. w = Tail(AsSequence)
    BY <1>2
  <2> HIDE DEF w
  <2> QED BY <1>3, <2>1, <2>2
<1>7. ASSUME UNCHANGED pointers PROVE RingInv'
  <2>1. first' = first /\ m_next' = m_next
    BY <1>7 DEF pointers
  <2>2. RingIs(r)' /\ DOMAIN m_next' = Entries
    BY <1>1, <1>2, <2>1 DEF RingIs
  <2> QED BY <2>2 DEF RingInv
<1>8. Operated
  BY <1>4, <1>5, <1>6 DEF Operated
<1> QED BY <1>4, <1>5, <1>6, <1>7, <1>8 DEF NextRing

\* Pushing, popping and removing, at any position and in any order, do to the chain of
\* pointers what the sequence of threads says, for any number of threads (list.h).
THEOREM RingKeepsSequence == SpecRing => KeepsSequence
<1>1. InitRing => RingInv
  <2> SUFFICES ASSUME InitRing PROVE RingInv
    OBVIOUS
  <2>1. DOMAIN m_next = Entries /\ first = Null
    BY DEF InitRing
  <2>2. <<>> \in Seq(Entries) /\ Len(<<>>) = 0 /\ 1..0 = {} /\ 1..(0 - 1) = {} /\ ~(0 > 0)
    OBVIOUS
  <2>3. RingIs(<<>>)
    BY <2>1, <2>2 DEF RingIs
  <2> QED BY <2>1, <2>3 DEF RingInv
<1>2. WalkOK
  BY WalkFinds DEF WalkOK
<1>3. RingInv /\ WalkOK /\ WalkOK' /\ [NextRing]_pointers => RingInv' /\ [Operated]_pointers
  <2> SUFFICES ASSUME RingInv, WalkOK, WalkOK', [NextRing]_pointers
               PROVE  RingInv' /\ [Operated]_pointers
    OBVIOUS
  <2>1. RingInv' /\ (NextRing => Operated)
    BY StepKeepsSequence
  <2> QED BY <2>1
<1>4. KeepsSequence <=> [][Operated]_pointers
  BY DEF KeepsSequence, Operated
<1> QED BY <1>1, <1>2, <1>3, <1>4, PTL DEF SpecRing
-----------------------------------------------------------------------------
(* The parts together.                                                      *)

\* A message's code points are code points, so that each step of TextOutput is one of the console
\* or leaves it alone.
LEMMA TextUsesConsole == SpecTextOutput => Spec
<1>1. InitTextOutput => Init
  BY DEF InitTextOutput
<1>2. [NextTextOutput]_<<vars, printing, left>> => [Next]_vars
  <2> SUFFICES ASSUME [NextTextOutput]_<<vars, printing, left>> PROVE [Next]_vars
    OBVIOUS
  <2>1. CASE Format
    BY <2>1 DEF Format
  <2>2. CASE Draw
    <3>1. Present \/ \E c \in CodepointsOf(Head(left)) : PutCodepoint(c)
      BY <2>2 DEF Draw
    <3>2. \A a : CodepointsOf(a) \subseteq Codepoints
      BY DEF CodepointsOf, Codepoints
    <3> QED BY Zenon, <3>1, <3>2 DEF Next
  <2>3. CASE Continue
    BY <2>3 DEF Continue
  <2>4. CASE UNCHANGED <<vars, printing, left>>
    BY <2>4
  <2> QED BY <2>1, <2>2, <2>3, <2>4 DEF NextTextOutput
<1> QED BY <1>1, <1>2, PTL DEF SpecTextOutput, Spec

\* Whatever part of the library a behaviour uses, every step is one of that part and leaves the
\* others alone.
THEOREM LibraryImplementsParts ==
    SpecLibrary => SpecTextOutput /\ Spec /\ Str!Spec /\ SpecStrings /\ SpecRing /\ Ssfn!Spec
<1>1. InitLibrary => InitTextOutput /\ Str!Init /\ InitStrings /\ InitRing /\ Ssfn!Init
  BY DEF InitLibrary
<1>2. [NextLibrary]_<<used, font, output, call, pointers, strings>> =>
        /\ [NextTextOutput]_<<vars, printing, left>>
        /\ [Str!Next]_(Str!vars) /\ [NextStrings]_strings /\ [NextRing]_pointers /\ [Ssfn!Next]_(Ssfn!vars)
  <2> SUFFICES ASSUME [NextLibrary]_<<used, font, output, call, pointers, strings>>
               PROVE  /\ [NextTextOutput]_<<vars, printing, left>>
                      /\ [Str!Next]_(Str!vars) /\ [NextStrings]_strings /\ [NextRing]_pointers
                      /\ [Ssfn!Next]_(Ssfn!vars)
    OBVIOUS
  <2>1. output = <<vars, printing, left>> /\ call = Str!vars /\ font = Ssfn!vars
    BY DEF output, call, font, Str!vars, Ssfn!vars
  <2>2. /\ UNCHANGED output => UNCHANGED <<vars, printing, left>>
        /\ UNCHANGED call => UNCHANGED Str!vars
        /\ UNCHANGED font => UNCHANGED Ssfn!vars
    BY DEF output, call, font, Str!vars, Ssfn!vars
  <2>3. CASE UseText
    BY Zenon, <2>2, <2>3 DEF UseText
  <2>4. CASE UseStrings
    BY Zenon, <2>2, <2>4 DEF UseStrings
  <2>5. CASE UseList
    BY Zenon, <2>2, <2>5 DEF UseList
  <2>6. CASE UseString
    BY Zenon, <2>2, <2>6 DEF UseString
  <2>7. CASE UseFont
    BY Zenon, <2>2, <2>7 DEF UseFont
  <2>8. CASE UNCHANGED <<used, font, output, call, pointers, strings>>
    BY Zenon, <2>2, <2>8
  <2> QED BY <2>3, <2>4, <2>5, <2>6, <2>7, <2>8 DEF NextLibrary
<1> QED BY <1>1, <1>2, TextUsesConsole, PTL
    DEF SpecLibrary, SpecTextOutput, Str!Spec, SpecStrings, SpecRing, Ssfn!Spec

\* What the library promises: messages come out whole, in their buffer and onto the display, the
\* string functions and the string objects do what their names say, no block has two owners, text is
\* drawn as it is encoded, and the list is the sequence that it stands for.
THEOREM LibraryIsCorrect ==
    SpecLibrary => /\ [](ShowsMessage /\ StaysInBuffer /\ AgreesWithReference)
                   /\ [](BuffersHaveOneOwner /\ HoldsText /\ PrintsText)
                   /\ ShowsTerminal /\ KeepsSequence
BY LibraryImplementsParts, MessageComesOut, BufferIsNeverLeft, StringsAgree, OwnersAreUnique,
   TextIsAlwaysHeld, TextIsDrawn, Implements, RingKeepsSequence, PTL
=============================================================================
