---------------------------- MODULE Ps2Keyboard ----------------------------
(****************************************************************************)
(* The keyboard from its start to the console: Ps2's Initialize, and        *)
(* Keyboard's scan codes, prefixes and modifiers from the moment interrupts *)
(* are unmasked.  HandleInput's static variables are untouched before.      *)
(****************************************************************************)
EXTENDS Ps2

CONSTANTS Keys, Buffer

VARIABLES held, wire, meant, unseen, flags, released, printed

typing == <<held, wire, meant, unseen, flags, released, printed>>

Typing == INSTANCE Keyboard

ASSUME KeysAssumption == Keys \subseteq DOMAIN Typing!Code \cup {"pause"}

InitPs2Keyboard == Init /\ Typing!Init

Starting == Next /\ Typing!Init /\ UNCHANGED typing

\* The keyboard is found and nothing is under way: from here on Keyboard has the
\* scan codes for the bytes Ps2 does not tell apart.  Of the ways Initialize can
\* get here, which Keyboard does not depend on, the undisturbed one is followed.
Started == /\ at = Done /\ type = "valid" /\ out = <<>> /\ queue = <<>>
           /\ handled = "none" /\ ~typed /\ ~late /\ resends = 0

Running == Started /\ Typing!Next /\ UNCHANGED vars

NextPs2Keyboard == Starting \/ Running

SpecPs2Keyboard == InitPs2Keyboard /\ [][NextPs2Keyboard]_<<vars, typing>>
-----------------------------------------------------------------------------
(* Keyboard's properties.                                                   *)

PrintsWhatIsTyped == Typing!PrintsWhatIsTyped
=============================================================================
