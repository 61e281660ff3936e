------------------------------ MODULE Console ------------------------------
(****************************************************************************)
(* The text console, kernel/hw/gfx/output.cc: a back buffer that is a ring  *)
(* of text lines, and a frame buffer to which Present copies the lines that *)
(* changed since it last did.                                               *)
(*                                                                          *)
(* Print, PutChar and OnKey run with interrupts masked and are the same     *)
(* thing here: code points, one after the other, and then Present.  A cell  *)
(* is the set of glyphs drawn on it since its line was cleared: the         *)
(* background is color 0, with which ssfn_putc draws only a glyph's own     *)
(* pixels.  All glyphs of the font are one cell wide.  Colors and the rows  *)
(* of pixels below the last text line are left out.                         *)
(****************************************************************************)
EXTENDS Integers

CONSTANTS NLines,    \* con.n_lines
          Columns,   \* con.width / con.cell_w
          TabCells,  \* tab_cells
          Glyphs     \* code points the font has a glyph for

ASSUME ConsoleAssumption ==
    /\ NLines \in Nat \ {0} /\ Columns \in Nat \ {0} /\ TabCells \in Nat \ {0}
    /\ Glyphs \cap {"\r", "\n", "\t", "none"} = {}

Lines == 0..(NLines - 1)
Cells == 0..(Columns - 1)
Blank == [x \in Cells |-> {}]

\* "none" stands for the code points without a glyph.
Codepoints == Glyphs \cup {"\r", "\n", "\t", "none"}

VARIABLES con,  \* the Console but for its constant fields and the frame buffer
          fb    \* the frame buffer, in text lines
vars == <<con, fb>>

PhysicalLine(k, screen_line) == (k.top + screen_line) % NLines

\* Mutant of MarkDirty: the upper end of the range is forgotten.
MarkDirtyLow(k, l) == [k EXCEPT !.dirty_lo = IF l < @ THEN l ELSE @]

MarkDirty(k, l) == [k EXCEPT !.dirty_lo = IF l < @ THEN l ELSE @,
                             !.dirty_hi = IF l > @ THEN l ELSE @]

CarriageReturn(k) == [k EXCEPT !.cur_x = 0]

\* Mutant of NewLine: the screen moves up and only the cursor's line is copied.
NewLineNotDirty(k) ==
    IF k.cur_line + 1 < NLines
    THEN [CarriageReturn(k) EXCEPT !.cur_line = @ + 1]
    ELSE [CarriageReturn(k) EXCEPT !.back[k.top] = Blank, !.top = (@ + 1) % NLines]

NewLine(k) ==
    IF k.cur_line + 1 < NLines
    THEN [CarriageReturn(k) EXCEPT !.cur_line = @ + 1]
    ELSE [CarriageReturn(k) EXCEPT !.back[k.top] = Blank,
                                   !.top = (@ + 1) % NLines,
                                   !.all_dirty = TRUE]

Wrapped(k) == IF k.cur_x + 1 > Columns THEN NewLine(k) ELSE k

TabStop(k) == [k EXCEPT !.cur_x = ((k.cur_x \div TabCells) + 1) * TabCells]

PutGlyph(k, g) ==
    MarkDirty([k EXCEPT !.back[PhysicalLine(k, k.cur_line)][k.cur_x] = @ \cup {g},
                        !.cur_x = @ + 1],
              k.cur_line)

PutCodepoint(c) ==
    /\ con' = CASE c = "\r" -> CarriageReturn(con)
                [] c = "\n" -> NewLine(con)
                [] c = "\t" -> Wrapped(TabStop(con))
                [] c \in Glyphs -> PutGlyph(Wrapped(con), c)
                [] OTHER -> Wrapped(con)
    /\ UNCHANGED fb

\* The frame buffer after the physical lines from top on, then those before it,
\* have been copied.
CopyAll(k) == [l \in Lines |-> IF l < NLines - k.top THEN k.back[k.top + l]
                               ELSE k.back[l - (NLines - k.top)]]

CopyDirty(k) == [l \in Lines |-> IF k.dirty_lo <= l /\ l <= k.dirty_hi
                                 THEN k.back[PhysicalLine(k, l)] ELSE fb[l]]

Present ==
    /\ fb' = IF con.all_dirty THEN CopyAll(con) ELSE CopyDirty(con)
    /\ con' = [con EXCEPT !.all_dirty = FALSE, !.dirty_lo = NLines, !.dirty_hi = 0]

Init ==
    /\ con = [back |-> [l \in Lines |-> Blank], top |-> 0, cur_line |-> 0, cur_x |-> 0,
              dirty_lo |-> NLines, dirty_hi |-> 0, all_dirty |-> FALSE]
    /\ fb = [l \in Lines |-> Blank]

Next == (\E c \in Codepoints : PutCodepoint(c)) \/ Present

Spec == Init /\ [][Next]_vars
-----------------------------------------------------------------------------
(* Properties.                                                              *)

Page == [Lines -> [Cells -> SUBSET Glyphs]]

\* Every variable has its type.
TypeOK ==
    /\ con \in [back : Page, top : Lines, cur_line : Lines, cur_x : 0..Columns,
                dirty_lo : 0..NLines, dirty_hi : Lines, all_dirty : BOOLEAN]
    /\ fb \in Page

\* MarkDirty and all_dirty miss nothing: a line of the screen that differs from
\* the frame buffer is one that the next Present copies, wherever the ring of
\* lines has moved since it was drawn.
ChangesAreDirty ==
    ~con.all_dirty => \A l \in Lines :
        fb[l] # con.back[PhysicalLine(con, l)] => con.dirty_lo <= l /\ l <= con.dirty_hi

\* "scrolling only clears one line and moves top": what readers of the screen
\* see is Terminal, whose page moves up line by line.
Text == [page |-> [l \in Lines |-> con.back[PhysicalLine(con, l)]],
         line |-> con.cur_line, column |-> con.cur_x]
Screen == INSTANCE Terminal WITH text <- Text, shown <- fb
ShowsTerminal == Screen!Spec
=============================================================================
