-------------------------- MODULE MCActuatorHandlers --------------------------
(* ActuatorHandlers on small instances. *)
EXTENDS ActuatorHandlers
=============================================================================
