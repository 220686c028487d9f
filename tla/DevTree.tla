------------------------------- MODULE DevTree -------------------------------
(****************************************************************************)
(* The device repository (DevRepository::DevTree): a tree of places, each   *)
(* with its devices, that the session threads insert into and the IPC and   *)
(* session threads search, without a lock.  A step is one operation on one  *)
(* vector, which is taken to be atomic.                                     *)
(****************************************************************************)
EXTENDS Naturals, Sequences, FiniteSetsExt, Functions

CONSTANTS Writer,      \* threads that insert devices
          Address,     \* the addresses of devices, sequences of depth IDs
          DeviceId,
          MaxInserts,  \* bound: devices inserted
          MaxSearches  \* bound: searches made

ASSUME AddressAssumption == \A a \in Address : a \in Seq(Nat) /\ a # <<>>
ASSUME BoundAssumption == MaxInserts \in Nat /\ MaxSearches \in Nat

VARIABLES tree,      \* the nodes in the order of their creation, the root first
          writer,    \* where insert() stands in each writer
          inserted,  \* calls of insert()
          reader,    \* where get_by_address_ID stands
          searches,  \* calls of get_by_address_ID
          crossed    \* two inserts have crossed, see Crosses

vars == <<tree, writer, inserted, reader, searches, crossed>>

Key == Address \X DeviceId

(* A node: its parent, its depth_id, and the devices of the place.  The     *)
(* children of a node follow one another in the order of creation.          *)
Node(p, i) == [parent |-> p, depth_id |-> i, devices |-> <<>>]
Root == 1

(* A DeviceEntry; its stamp tells one object from another of the same key. *)
Device == [address : Address, id : DeviceId, stamp : 1..MaxInserts]
KeyOf(d) == <<d.address, d.id>>

Idle == [at |-> "idle"]

Init == /\ tree = <<Node(0, 0)>>
        /\ writer = [t \in Writer |-> Idle]
        /\ inserted = 0
        /\ reader = Idle
        /\ searches = 0
        /\ crossed = FALSE

-----------------------------------------------------------------------------
(* DevTree::insert *)

Children(n) == {k \in DOMAIN tree : tree[k].parent = n}

(* searchNode: the first child of n with this depth_id; 0 for nullptr. *)
searchNode(n, i) ==
  LET found == {k \in Children(n) : tree[k].depth_id = i}
  IN IF found = {} THEN 0 ELSE CHOOSE k \in found : \A j \in found : k <= j

Goto(t, at) == writer' = [writer EXCEPT ![t].at = at]

Begin(t) == /\ writer[t] = Idle /\ inserted < MaxInserts
            /\ inserted' = inserted + 1
            /\ \E a \in Address, i \in DeviceId :
                 writer' = [writer EXCEPT ![t] =
                   [at |-> "search", node |-> Root, depth |-> 0, slot |-> 0,
                    dev |-> [address |-> a, id |-> i, stamp |-> inserted']]]
            /\ UNCHANGED <<tree, reader, searches>>

(* Mutant: the loop ends one node too late. *)
DescendTooFar(t, n) ==
  LET w == writer[t]
  IN writer' = [writer EXCEPT ![t] =
       [w EXCEPT !.node = n, !.depth = w.depth + 1,
                 !.at = IF w.depth = Len(w.dev.address) THEN "scan" ELSE "search"]]

(* insertNode goes on to node n, one level down. *)
Descend(t, n) ==
  LET w == writer[t]
  IN writer' = [writer EXCEPT ![t] =
       [w EXCEPT !.node = n, !.depth = w.depth + 1,
                 !.at = IF w.depth + 1 = Len(w.dev.address) THEN "scan" ELSE "search"]]

NextId(t) == writer[t].dev.address[writer[t].depth + 1]

(* Mutant: the last node of an address is created without a search for it. *)
SearchButLast(t) ==
  /\ writer[t].at = "search"
  /\ LET n == searchNode(writer[t].node, NextId(t))
     IN IF n = 0 \/ writer[t].depth + 1 = Len(writer[t].dev.address)
        THEN Goto(t, "create") ELSE Descend(t, n)
  /\ UNCHANGED <<tree, inserted, reader, searches>>

Search(t) == /\ writer[t].at = "search"
             /\ LET n == searchNode(writer[t].node, NextId(t))
                IN IF n = 0 THEN Goto(t, "create") ELSE Descend(t, n)
             /\ UNCHANGED <<tree, inserted, reader, searches>>

(* children.emplace_back *)
Create(t) == /\ writer[t].at = "create"
             /\ tree' = Append(tree, Node(writer[t].node, NextId(t)))
             /\ Goto(t, "back")
             /\ UNCHANGED <<inserted, reader, searches>>

(* Mutant: children.front(). *)
BackIsFront(t) ==
  /\ writer[t].at = "back"
  /\ Descend(t, Min(Children(writer[t].node)))
  /\ UNCHANGED <<tree, inserted, reader, searches>>

(* children.back() *)
Back(t) == /\ writer[t].at = "back"
           /\ Descend(t, Max(Children(writer[t].node)))
           /\ UNCHANGED <<tree, inserted, reader, searches>>

(* Mutant: the comparison of device IDs is left out. *)
ScanAddressOnly(t) ==
  LET w == writer[t]
      same == {j \in DOMAIN tree[w.node].devices :
                 tree[w.node].devices[j].address = w.dev.address}
  IN /\ w.at = "scan"
     /\ IF same = {} THEN Goto(t, "append")
        ELSE writer' = [writer EXCEPT ![t] = [w EXCEPT !.at = "erase", !.slot = Min(same)]]
     /\ UNCHANGED <<tree, inserted, reader, searches>>

(* The loop over node->devices that looks for a device of the same key. *)
Scan(t) ==
  LET w == writer[t]
      same == {j \in DOMAIN tree[w.node].devices :
                 KeyOf(tree[w.node].devices[j]) = KeyOf(w.dev)}
  IN /\ w.at = "scan"
     /\ IF same = {} THEN Goto(t, "append")
        ELSE writer' = [writer EXCEPT ![t] = [w EXCEPT !.at = "erase", !.slot = Min(same)]]
     /\ UNCHANGED <<tree, inserted, reader, searches>>

(* devices.erase(iter): what follows slot j moves up and the last slot goes, *)
(* so that an iterator past the end takes the last device.  On an emptied    *)
(* vector, where the outcome is undefined, it is taken to do nothing.        *)
Without(s, j) == SubSeq(s, 1, Min({j, Len(s)}) - 1) \o SubSeq(s, j + 1, Len(s))

Erase(t) == /\ writer[t].at = "erase"
            /\ tree' = [tree EXCEPT ![writer[t].node].devices = Without(@, writer[t].slot)]
            /\ Goto(t, "append")
            /\ UNCHANGED <<inserted, reader, searches>>

AppendDevice(t) == /\ writer[t].at = "append"
                   /\ tree' = [tree EXCEPT ![writer[t].node].devices =
                                 Append(@, writer[t].dev)]
                   /\ writer' = [writer EXCEPT ![t] = Idle]
                   /\ UNCHANGED <<inserted, reader, searches>>

(* History, for the properties: t changes a vector that another thread has  *)
(* looked at and acts on next, in a way that matters to it.  It adds the    *)
(* child the other has missed, or one behind the other's; it moves devices  *)
(* under the slot the other found; it adds a device of the other's key.     *)
Crosses(t) ==
  \E u \in Writer \ {t} :
    /\ writer[t] # Idle /\ writer[u] # Idle /\ writer[u].node = writer[t].node
    /\ \/ writer[t].at = "create" /\ writer[u].at = "create" /\ NextId(u) = NextId(t)
       \/ writer[t].at = "create" /\ writer[u].at = "back"
       \/ writer[t].at = "erase" /\ writer[u].at = "erase"
       \/ /\ writer[t].at = "append" /\ writer[u].at = "append"
          /\ KeyOf(writer[u].dev) = KeyOf(writer[t].dev)

Insert(t) == /\ \/ Begin(t) \/ Search(t) \/ Create(t) \/ Back(t)
                \/ Scan(t) \/ Erase(t) \/ AppendDevice(t)
             /\ crossed' = (crossed \/ Crosses(t))

-----------------------------------------------------------------------------
(* DevRepository::get_by_address_ID: all devices are copied into a list,    *)
(* node by node, parents and older siblings first, and the list is searched *)
(* for the key.  A node created meanwhile is copied or missed.              *)

DevicesAt(n) == Range(tree[n].devices)
Devices == UNION {DevicesAt(n) : n \in DOMAIN tree}
OfKey(k) == {d \in Devices : KeyOf(d) = k}

(* due: the nodes to visit; found: a device of this key has been copied;    *)
(* held: those in the tree now, kept for the properties.                    *)
Look == /\ reader = Idle /\ searches < MaxSearches
        /\ searches' = searches + 1
        /\ \E k \in Key :
             reader' = [at |-> "visit", key |-> k, visited |-> {}, due |-> DOMAIN tree,
                        found |-> FALSE, held |-> OfKey(k)]
        /\ UNCHANGED <<tree, writer, inserted, crossed>>

(* Mutant: getAllChildren does not go down to the children of a child. *)
VisitShallow ==
  /\ reader.at = "visit"
  /\ \E n \in DOMAIN tree \ reader.visited :
       /\ n = Root \/ tree[n].parent \in reader.visited
       /\ reader' = [reader EXCEPT
            !.visited = @ \cup {n},
            !.found = @ \/ (tree[n].parent \in {0, Root} /\ \E d \in DevicesAt(n) : KeyOf(d) = reader.key)]
  /\ UNCHANGED <<tree, writer, inserted, searches, crossed>>

Visit == /\ reader.at = "visit"
         /\ \E n \in DOMAIN tree \ reader.visited :
              /\ n = Root \/ tree[n].parent \in reader.visited
              /\ \A k \in Children(tree[n].parent) : k < n => k \in reader.visited
              /\ reader' = [reader EXCEPT
                   !.visited = @ \cup {n},
                   !.found = @ \/ \E d \in DevicesAt(n) : KeyOf(d) = reader.key]
         /\ UNCHANGED <<tree, writer, inserted, searches, crossed>>

Visited == reader.at = "visit" /\ reader.due \subseteq reader.visited

Return == Visited /\ reader' = Idle /\ UNCHANGED <<tree, writer, inserted, searches, crossed>>

Next == (\E t \in Writer : Insert(t)) \/ Look \/ Visit \/ Return

Spec == Init /\ [][Next]_vars

-----------------------------------------------------------------------------
(* Properties. *)

(* Every variable has its type: a node's parent is older than the node, and *)
(* insertNode stays within the address.                                     *)
TypeOK ==
  /\ \A n \in DOMAIN tree :
       /\ tree[n].parent \in 0..n-1 /\ (tree[n].parent = 0 <=> n = Root)
       /\ tree[n].depth_id \in Nat
       /\ Range(tree[n].devices) \subseteq Device
  /\ \A t \in Writer : writer[t] = Idle \/
       /\ writer[t].dev \in Device
       /\ writer[t].node \in DOMAIN tree
       /\ IF writer[t].at \in {"search", "create", "back"}
          THEN writer[t].depth < Len(writer[t].dev.address)
          ELSE /\ writer[t].at \in {"scan", "erase", "append"}
               /\ writer[t].depth = Len(writer[t].dev.address)
  /\ inserted \in 0..MaxInserts /\ searches \in 0..MaxSearches
  /\ reader = Idle \/ /\ reader.key \in Key
                      /\ reader.visited \cup reader.due \subseteq DOMAIN tree
                      /\ reader.found \in BOOLEAN /\ reader.held \subseteq Device

(* A device is at the place of its address: insertNode's walk, with the     *)
(* nodes it creates and goes on from (children.back()), ends there, which   *)
(* is why insert may look for a duplicate at that node only.  However many  *)
(* threads insert, only two that have crossed can put a device elsewhere.   *)
place[n \in DOMAIN tree] ==
  IF n = Root THEN <<>> ELSE Append(place[tree[n].parent], tree[n].depth_id)
InPlace == \A n \in DOMAIN tree : \A d \in DevicesAt(n) : d.address = place[n]
Placed == crossed \/ InPlace

(* No two devices in the repository have the same key, at one node or two,  *)
(* unless two of the threads that insert have crossed.                      *)
KeysUnique == crossed \/ \A k \in Key : Cardinality(OfKey(k)) <= 1

(* Until two threads cross, the repository implements the map: a            *)
(* registration takes effect when the scan for its duplicate ends, it       *)
(* replaces the device of its key, and no key loses its device, not even    *)
(* between erase and append, nor to the insert of another.                  *)
Coming(k) == {writer[t].dev.stamp : t \in {u \in Writer :
                /\ writer[u].at \in {"erase", "append"}
                /\ KeyOf(writer[u].dev) = k}}
Latest == [k \in Key |-> IF Coming(k) # {} THEN Max(Coming(k))
                         ELSE Max({0} \cup {d.stamp : d \in OfKey(k)})]
Repository == INSTANCE DeviceMap WITH latest <- Latest
RepositorySpec == Repository!MapInit /\ [][crossed' \/ Repository!MapNext]_Latest

(* A search that finds nothing leaves out no device that was in the         *)
(* repository from its beginning to its end, whatever was inserted and      *)
(* replaced meanwhile.                                                      *)
FoundIfKept == Visited /\ ~reader.found => reader.held \cap Devices = {}

-----------------------------------------------------------------------------
(* What comments of the code say, and the code does not do. *)

(* DevRepository.h:113: what an insert removes is a duplicate of its device. *)
DuplicateRemoved ==
  \A t \in Writer : writer[t].at = "erase" =>
    LET here == tree[writer[t].node].devices
    IN here # <<>> => KeyOf(here[Min({writer[t].slot, Len(here)})]) = KeyOf(writer[t].dev)
=============================================================================
