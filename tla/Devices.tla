------------------------------- MODULE Devices -------------------------------
(****************************************************************************)
(* The devices OsInitialize starts, one after the other: the serial ports   *)
(* and the keyboard.  (Timer is the third.)                                 *)
(****************************************************************************)
EXTENDS Ps2Keyboard

CONSTANTS Texts, MaxSent

VARIABLES kind, uart, sent, port, line, has, output_port, given

serial == <<kind, uart, sent, port, line, has, output_port, given>>

Com == INSTANCE Serial WITH wire <- sent

InitDevices == InitPs2Keyboard /\ Com!Init

SerialPorts == InitPs2Keyboard /\ Com!Next /\ UNCHANGED <<vars, typing>>

\* What follows does not depend on the serial ports: of all their outcomes, the one
\* with two ports that work and nothing written is followed.
SerialStarted ==
    /\ port = "done" /\ has = {"com1", "com2"} /\ given = <<>>
    /\ \A p \in DOMAIN uart : uart[p].interrupts = 0

KeyboardRuns == SerialStarted /\ NextPs2Keyboard /\ UNCHANGED serial

NextDevices == SerialPorts \/ KeyboardRuns

SpecDevices == InitDevices /\ [][NextDevices]_<<vars, typing, serial>>
-----------------------------------------------------------------------------
(* Serial's property.                                                       *)

SendsText == Com!SendsText
=============================================================================
