--------------------------- MODULE MCSessionServer ---------------------------
(* SessionServer on small instances. *)
EXTENDS SessionServer, TLC

CONSTANTS i1, i2, a, b, c

(* IoT connections differ only in the moment they do things, and IDs only   *)
(* in being equal or not.                                                   *)
ClientSymmetry == Permutations({a, b, c}) \cup Permutations({i1, i2})

(* For liveness, which symmetry does not preserve, the instance is made     *)
(* smaller by naming the connections in the order they are made, Python's   *)
(* first, as run-all.py intends, by letting Python stay, and by fixing the  *)
(* ID of each client: the first and the last share one.                     *)
Earlier == << <<Python, a>>, <<a, b>>, <<b, c>> >>
InOrder == /\ \A k \in DOMAIN Earlier :
                peer[Earlier[k][2]] # "away" => peer[Earlier[k][1]] # "away"
           /\ peer[Python] # "gone"
           /\ hello[a] \in {None, i1} /\ hello[b] \in {None, i2} /\ hello[c] \in {None, i1}

OrderedSpec == Init /\ [][Next /\ InOrder']_vars /\ Fairness
=============================================================================
