------------------------------ MODULE MCTimer ------------------------------
(* Model-checking instance of the timer: a counter of five bits, and a period *)
(* left by the firmware that happens to be right, or none.                    *)
EXTENDS Timer
=============================================================================
