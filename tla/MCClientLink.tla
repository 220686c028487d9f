----------------------------- MODULE MCClientLink -----------------------------
(* ClientLink on small instances: the configurations only give values to    *)
(* its constants.                                                           *)
EXTENDS ClientLink
=============================================================================
