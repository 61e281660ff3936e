------------------------------ MODULE Library ------------------------------
(****************************************************************************)
(* What the rest of the kernel is written with: the text output and its     *)
(* font, the string functions, the string class and the list.  They share   *)
(* nothing, so that a behaviour uses one of them while the others rest.     *)
(****************************************************************************)
EXTENDS TextOutput, EcString, ThreadRing

CONSTANTS Codes, MaxLength,   \* Strings'
          Bytes, MaxBytes, Sayings, Characters, Shapes, Width, Height   \* Font's

VARIABLES str1, str2, limit, called, value,   \* Strings'
          said, string, place, codes, drawn, pen,   \* Font's
          used                         \* the part a behaviour uses

call == <<str1, str2, limit, called, value>>
output == <<vars, printing, left>>
font == <<said, string, place, codes, drawn, pen>>

\* A character is of u8, and a NUL is none.
ASSUME CodesAssumption == Codes \subseteq 1..255 /\ MaxLength \in Nat

Str  == INSTANCE Strings WITH s <- str1, t <- str2, n <- limit
Ssfn == INSTANCE Font WITH s <- place

\* A text is of code points, but for the NUL, and arbitrary strings have none inside either.
ASSUME FontAssumption == /\ Ssfn!IsFont /\ Width \in Nat /\ Height \in Nat
                         /\ Bytes \subseteq 1..255 /\ MaxBytes \in Nat
                         /\ Sayings \subseteq Seq(1..(Ssfn!Codespace - 1))

AtRest == /\ \/ used = "text"
             \/ message = <<>> /\ port = "screen"
          /\ \/ used = "strings"
             \/ str1 = <<>> /\ str2 = <<>> /\ limit = 0
          /\ \/ used = "font"
             \/ said = <<>>

InitLibrary ==
    /\ used \in {"text", "font", "strings", "string", "list"}
    /\ AtRest
    /\ InitTextOutput /\ Str!Init /\ InitRing /\ InitStrings /\ Ssfn!Init

UseText    == used = "text" /\ NextTextOutput /\ UNCHANGED <<used, font, call, pointers, strings>>
UseStrings == used = "strings" /\ Str!Next /\ UNCHANGED <<used, font, output, pointers, strings>>
UseList    == used = "list" /\ NextRing /\ UNCHANGED <<used, font, output, call, strings>>
UseString  == used = "string" /\ NextStrings /\ UNCHANGED <<used, font, output, call, pointers>>
UseFont    == used = "font" /\ Ssfn!Next /\ UNCHANGED <<used, output, call, pointers, strings>>

NextLibrary == UseText \/ UseFont \/ UseStrings \/ UseString \/ UseList

SpecLibrary == InitLibrary /\ [][NextLibrary]_<<used, font, output, call, pointers, strings>>
-----------------------------------------------------------------------------
(* The properties of Strings and Font.                                      *)

\* See Strings.
AgreesWithReference == Str!AgreesWithReference

\* See Font.
PrintsText == Ssfn!PrintsText
=============================================================================
