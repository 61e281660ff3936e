---------------------------- MODULE MCPageTable ----------------------------
(* Model-checking instances of the page tables. *)
EXTENDS PageTable
=============================================================================
