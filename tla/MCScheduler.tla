---------------------------- MODULE MCScheduler ----------------------------
(* Model-checking instances of the scheduler.  Threads are not symmetric:  *)
(* CreateThread fixes their order on the ring.                             *)
EXTENDS SchedulerInvariant
============================================================================
