------------------------------ MODULE DeviceMap ------------------------------
(****************************************************************************)
(* What the device repository promises: for every key, that is the address  *)
(* of a place and a device ID in it, it holds the device registered last.   *)
(* DevTree implements this specification with a tree of places.             *)
(****************************************************************************)
EXTENDS Naturals

CONSTANT Key        \* pairs of an address and a device ID

VARIABLE latest     \* the number of the last registration of each key, or 0

MapInit == latest = [k \in Key |-> 0]

(* A registration replaces the device of its key, if there is one, and of   *)
(* no other.                                                                *)
Register(k) == /\ latest'[k] > 0
               /\ latest' = [latest EXCEPT ![k] = latest'[k]]

MapNext == \E k \in Key : Register(k)

MapSpec == MapInit /\ [][MapNext]_latest
=============================================================================
