------------------------------ MODULE Keyboard ------------------------------
(****************************************************************************)
(* Keys on their way to the console: the keyboard sends scan codes (set 2), *)
(* the controller holds them back while interrupts are masked, IsrKeyboard  *)
(* (hw/ps2/ps2.cc) reads one per interrupt, HandleInput (keyboard.cc) keeps *)
(* prefixes and modifiers between them and OnKey (hw/gfx/output.cc) prints. *)
(*                                                                          *)
(* The keyboard is hardware: what it sends follows from the codes the       *)
(* driver expects.  Scan codes are named by their hexadecimal value; of the *)
(* keys that print, and of those that do not, there is one each.            *)
(****************************************************************************)
EXTENDS Integers, Sequences

CONSTANTS Keys,    \* keys there are
          Buffer   \* bound: scan codes on the way, but for those of a single event

Modifier == [left_alt |-> "Alt", right_alt |-> "Alt", left_shift |-> "Shift",
             right_shift |-> "Shift", left_ctrl |-> "Ctrl", right_ctrl |-> "Ctrl"]

Code == [left_alt |-> "11", right_alt |-> "11", left_shift |-> "12", right_shift |-> "59",
         left_ctrl |-> "14", right_ctrl |-> "14", caps |-> "58", letter |-> "1c", arrow |-> "75"]
ExtendedKeys == {"right_alt", "right_ctrl", "arrow"}

VARIABLES held,      \* keys that are down
          wire,      \* scan codes sent and not read
          meant,     \* modifiers as the key presses and releases so far make them
          unseen,    \* what has been typed and is not printed yet
          flags, released,  \* HandleInput's static variables
          printed    \* what the last step printed, or "none"
vars == <<held, wire, meant, unseen, flags, released, printed>>
-----------------------------------------------------------------------------
(* The keyboard.                                                            *)

Prefix(k) == IF k \in ExtendedKeys THEN <<"e0">> ELSE <<>>
Make(k)   == Prefix(k) \o <<Code[k]>>
Break(k)  == Prefix(k) \o <<"f0", Code[k]>>

\* Fake shifts: around the arrow keys, shift is undone and restored.
FakeUp == {<<"e0", "f0", Code[k]>> : k \in {"left_shift", "right_shift"} \cap held}
FakeDown == {<<"e0", Code[k]>> : k \in {"left_shift", "right_shift"} \cap held}

PauseCodes == <<"e1", "14", "77", "e1", "f0", "14", "f0", "77">>

Send(codes) ==
    /\ wire = <<>> \/ Len(wire) + Len(codes) <= Buffer
    /\ wire' = wire \o codes
    /\ printed' = "none"
    /\ UNCHANGED <<flags, released>>

\* A key goes down, or repeats while it is held.
PressKey(k) ==
    /\ held' = held \cup {k}
    /\ \E fake \in {<<>>} \cup (IF k = "arrow" THEN FakeUp ELSE {}) : Send(fake \o Make(k))
    /\ meant' = IF k \in DOMAIN Modifier THEN meant \cup {Modifier[k]}
                ELSE IF k # "caps" THEN meant
                ELSE (meant \ {"CapsLock"}) \cup ({"CapsLock"} \ meant)
    /\ unseen' = IF k # "letter" THEN unseen
                 ELSE Append(unseen, IF ("Shift" \in meant) # ("CapsLock" \in meant)
                                     THEN "shifted" ELSE "plain")

ReleaseKey(k) ==
    /\ k \in held
    /\ held' = held \ {k}
    /\ \E fake \in {<<>>} \cup (IF k = "arrow" THEN FakeDown ELSE {}) : Send(Break(k) \o fake)
    /\ meant' = IF k \in DOMAIN Modifier THEN meant \ {Modifier[k]} ELSE meant
    /\ UNCHANGED unseen

\* With Ctrl held the key sends other codes.
PressPause ==
    /\ "pause" \in Keys /\ held \cap {"left_ctrl", "right_ctrl"} = {}
    /\ Send(PauseCodes)
    /\ UNCHANGED <<held, meant, unseen>>
-----------------------------------------------------------------------------
(* HandleInput, one action for every way it ends; OnKey.                    *)

Modified(code) == {Modifier[k] : k \in {m \in DOMAIN Modifier : Code[m] = code}}
Extended == "Extended" \in flags
Plain    == flags \ {"Extended"}

Read(code) == wire # <<>> /\ code = Head(wire) /\ wire' = Tail(wire)

Silent == printed' = "none" /\ UNCHANGED <<held, meant, unseen>>

HandlePrefix(code) ==
    /\ Read(code) /\ code \in {"e0", "f0"}
    /\ flags' = IF code = "e0" THEN flags \cup {"Extended"} ELSE flags
    /\ released' = (released \/ code = "f0")
    /\ Silent

IsFake(code) == Extended /\ code \in {"12", "59"}

HandleFakeShift(code) ==
    /\ Read(code) /\ IsFake(code)
    /\ flags' = Plain /\ released' = FALSE
    /\ Silent

Ordinary(code) == Read(code) /\ code \notin {"e0", "f0"} /\ ~IsFake(code)

\* Mutant of HandleRelease: the release prefix sticks.
HandleReleaseSticks(code) ==
    /\ Ordinary(code) /\ released
    /\ flags' = Plain \ Modified(code) /\ UNCHANGED released
    /\ Silent

HandleRelease(code) ==
    /\ Ordinary(code) /\ released
    /\ flags' = Plain \ Modified(code) /\ released' = FALSE
    /\ Silent

\* Mutant of HandleModifier: the extended prefix sticks.
HandleModifierSticks(code) ==
    /\ Ordinary(code) /\ ~released /\ code # "58" /\ Modified(code) # {}
    /\ flags' = flags \cup Modified(code) /\ UNCHANGED released
    /\ Silent

HandleModifier(code) ==
    /\ Ordinary(code) /\ ~released /\ Modified(code) # {}
    /\ flags' = Plain \cup Modified(code) /\ UNCHANGED released
    /\ Silent

HandleCapsLock(code) ==
    /\ Ordinary(code) /\ ~released /\ code = "58"
    /\ flags' = (Plain \ {"CapsLock"}) \cup ({"CapsLock"} \ Plain) /\ UNCHANGED released
    /\ Silent

\* OnKey: only codes within k_keys print, extended ones have bit 7 set.
OnKey(code) ==
    /\ Ordinary(code) /\ ~released /\ Modified(code) = {} /\ code # "58"
    /\ flags' = Plain
    /\ printed' = IF Extended \/ code # "1c" THEN "none"
                  ELSE IF ("Shift" \in flags) # ("CapsLock" \in flags) THEN "shifted" ELSE "plain"
    /\ unseen' = IF printed' = "none" \/ unseen = <<>> THEN unseen ELSE Tail(unseen)
    /\ UNCHANGED <<held, meant, released>>

IsrKeyboard(code) ==
    \/ HandlePrefix(code) \/ HandleFakeShift(code) \/ HandleRelease(code)
    \/ HandleModifier(code) \/ HandleCapsLock(code) \/ OnKey(code)
-----------------------------------------------------------------------------
ScanCodes == {Code[k] : k \in DOMAIN Code} \cup {"e0", "f0", "e1", "77"}

Init ==
    /\ held = {} /\ wire = <<>> /\ meant = {} /\ unseen = <<>>
    /\ flags = {} /\ released = FALSE /\ printed = "none"

Next ==
    \/ \E k \in Keys \ {"pause"} : PressKey(k) \/ ReleaseKey(k)
    \/ PressPause
    \/ \E code \in ScanCodes : IsrKeyboard(code)

Spec == Init /\ [][Next]_vars
-----------------------------------------------------------------------------
(* Properties.                                                              *)

\* However long scan codes are held back and whatever is typed meanwhile, what
\* is printed is what was typed, in order, shifted as the modifiers were when
\* the key went down: no prefix or modifier of one key carries over to another.  Left and right
\* keys of a modifier are one, as in HandleInput: when one of two is released, it is off.
PrintsWhatIsTyped ==
    [][printed' # "none" => unseen # <<>> /\ printed' = Head(unseen)]_vars
=============================================================================
