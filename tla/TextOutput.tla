----------------------------- MODULE TextOutput -----------------------------
(****************************************************************************)
(* gfx::Print from its format to the display: Formatter's text, code point  *)
(* by code point, goes to Console, which then presents it.  serial::Write's *)
(* text goes to the port, print_string's to the firmware.                   *)
(****************************************************************************)
EXTENDS Console, Sequences

CONSTANTS Small, Large, IntBits, LongLongBits, Items, MaxItems

VARIABLES message, port, next, room, str, fill, overrun, phase, shown,  \* Formatter's
          left    \* what is left of the text, and then "present"

printing == <<message, port, next, room, str, fill, overrun, phase, shown>>

Printing == INSTANCE Formatter WITH n <- room, len <- fill

ASSUME SizesAssumption == Small \in Nat \ {0} /\ Large \in Nat \ {0} /\ Small <= Large
                          /\ 2 ^ LongLongBits \in Nat
\* Arguments are of their types.
ASSUME ItemsAssumption ==
    \A item \in Items :
        /\ item.conv = "s" => item.arg \in Seq(STRING)
        /\ Printing!IsNumber(item) => Printing!Magnitude(item.conv, item.arg) \in 0..(2 ^ LongLongBits - 1)

InitTextOutput == Init /\ Printing!Init /\ left = <<>>

Format ==
    /\ Printing!Next
    /\ left' = IF phase' = "shown" /\ port \in {"screen", "early"} THEN Append(shown', "present") ELSE <<>>
    /\ UNCHANGED vars

\* Which glyph a character has is the font's business.
CodepointsOf(c) == IF c \in Codepoints THEN {c} ELSE Glyphs

Draw ==
    /\ left # <<>>
    /\ IF Head(left) = "present" THEN Present ELSE \E c \in CodepointsOf(Head(left)) : PutCodepoint(c)
    /\ left' = Tail(left)
    /\ UNCHANGED printing

\* Other messages follow.  Console does not depend on how their text was made, so
\* that any code points do, after an empty message.
Continue ==
    /\ phase = "shown" /\ left = <<>> /\ message = <<>> /\ port = "screen"
    /\ Next
    /\ UNCHANGED <<printing, left>>

NextTextOutput == Format \/ Draw \/ Continue

SpecTextOutput == InitTextOutput /\ [][NextTextOutput]_<<vars, printing, left>>
-----------------------------------------------------------------------------
(* Formatter's properties.                                                  *)

\* See Formatter.
ShowsMessage    == Printing!ShowsMessage
StaysInBuffer   == Printing!StaysInBuffer
=============================================================================
