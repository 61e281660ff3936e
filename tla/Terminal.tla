------------------------------ MODULE Terminal ------------------------------
(****************************************************************************)
(* What the console promises: a page of cells that text is written on from  *)
(* top to bottom, which moves up by a line when it is full, and a display   *)
(* that shows the page when writing pauses.  No buffers, no bookkeeping.    *)
(****************************************************************************)
EXTENDS Integers

CONSTANTS NLines, Columns, TabCells, Glyphs

Lines == 0..(NLines - 1)
Cells == 0..(Columns - 1)
Blank == [x \in Cells |-> {}]

VARIABLES text,   \* the page, and where the next glyph goes
          shown   \* what the display shows
vars == <<text, shown>>

Begin(t) == [t EXCEPT !.column = 0]

\* The next line; the page moves up when there is none.
Feed(t) ==
    IF t.line + 1 < NLines
    THEN [Begin(t) EXCEPT !.line = @ + 1]
    ELSE [Begin(t) EXCEPT !.page = [l \in Lines |-> IF l + 1 < NLines THEN t.page[l + 1] ELSE Blank]]

Fitted(t) == IF t.column < Columns THEN t ELSE Feed(t)

\* Glyphs are drawn over what the cell already holds.
Draw(t, g) == [page |-> [t.page EXCEPT ![t.line][t.column] = @ \cup {g}],
               line |-> t.line, column |-> t.column + 1]

Tab(t) == [t EXCEPT !.column = ((t.column \div TabCells) + 1) * TabCells]

Write(t, c) ==
    CASE c = "\r" -> Begin(t)
      [] c = "\n" -> Feed(t)
      [] c = "\t" -> Fitted(Tab(t))
      [] c \in Glyphs -> Draw(Fitted(t), c)
      [] OTHER -> Fitted(t)

Put(c) == text' = Write(text, c) /\ UNCHANGED shown
Refresh == shown' = text.page /\ UNCHANGED text

Init ==
    /\ text = [page |-> [l \in Lines |-> Blank], line |-> 0, column |-> 0]
    /\ shown = text.page

Next == (\E c \in Glyphs \cup {"\r", "\n", "\t", "none"} : Put(c)) \/ Refresh

Spec == Init /\ [][Next]_vars
=============================================================================
