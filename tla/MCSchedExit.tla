---------------------------- MODULE MCSchedExit ----------------------------
(* Model values for the threads of SchedExit: the boot thread and two more. *)
EXTENDS SchedExit

CONSTANTS t0, t1, t2
=============================================================================
