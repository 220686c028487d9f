----------------------------- MODULE MCAutomation -----------------------------
(* Automation on small instances. *)
EXTENDS Automation, TLC

CONSTANTS c1, c2, s, t, a

(* Devices of different clients, and a sensor and an actuator both have. *)
MCConfigs == {(c1 :> <<s>>) @@ (c2 :> <<t, a>>), (c1 :> <<s, a>>) @@ (c2 :> <<a>>)}

Above(k, v) == [key |-> k, operator |-> ">", value |-> v]
Below(k, v) == [key |-> k, operator |-> "<", value |-> v]

(* Two scenarios that may be triggered by one reading, of which t may be    *)
(* missing; and one whose second value is not a number, and that asks for   *)
(* an operation whose value is none.                                        *)
Alarm(kind) == {[key |-> a, kind |-> kind]}
MCLoaded == {[sensors |-> <<Above(s, 0)>>, actuators |-> Alarm("whole")],
             [sensors |-> <<Above(s, 0), Below(t, 2)>>, actuators |-> Alarm("whole")]}
MCScenario == MCLoaded \cup {[sensors |-> <<Above(t, 1), Above(s, NotNumber)>>, actuators |-> Alarm("raising")]}
=============================================================================
