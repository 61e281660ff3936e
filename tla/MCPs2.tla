------------------------------- MODULE MCPs2 -------------------------------
(* Model-checking instance of the serial ports, and of the keyboard from its   *)
(* start to the console. *)
EXTENDS Devices
=============================================================================
