------------------------------ MODULE MCDevTree ------------------------------
(* DevTree on small instances. *)
EXTENDS DevTree, TLC

CONSTANTS t1, t2, i1, i2

(* A place, and a place inside another that has no device of its own. *)
Places == {<<1>>, <<2, 1>>}

(* The threads that insert do the same, and IDs are compared for equality. *)
Symmetry == Permutations({t1, t2}) \cup Permutations({i1, i2})
=============================================================================
