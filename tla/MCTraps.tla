------------------------------ MODULE MCTraps ------------------------------
(* Model-checking instance of the processor's tables and the crossings.     *)
EXTENDS Processor
=============================================================================
