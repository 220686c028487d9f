------------------------------ MODULE MCFraming ------------------------------
(* Framing on small instances. *)
EXTENDS Framing

CONSTANTS t1, t2
=============================================================================
