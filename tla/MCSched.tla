------------------------------ MODULE MCSched ------------------------------
(* Model values for the threads of Sched. *)
EXTENDS Sched

CONSTANTS t0, t1, t2, t3
=============================================================================
