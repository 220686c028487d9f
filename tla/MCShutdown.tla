------------------------------ MODULE MCShutdown ------------------------------
(* Shutdown on small instances. *)
EXTENDS Shutdown

CONSTANTS main, t1, t2
=============================================================================
