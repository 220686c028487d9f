---------------------------- MODULE DevTreeProofs ----------------------------
(****************************************************************************)
(* Theorems about DevTree, for any places, device IDs and numbers of        *)
(* inserts and searches, and any number of session threads that insert      *)
(* while another thread searches.                                           *)
(****************************************************************************)
EXTENDS DevTree, SequenceTheorems, FiniteSetTheorems, WellFoundedInduction, TLAPS

(* The nodes, where a thread stands in insert(), and where a search stands. *)
NodeRec == [parent : Nat, depth_id : Nat, devices : Seq(Device)]
Walking == {"search", "create", "back", "scan", "erase", "append"}
Walk == [at : Walking, node : Nat, depth : Nat, slot : Nat, dev : Device]
Seeking == [at : {"visit"}, key : Key, visited : SUBSET Nat, due : SUBSET Nat,
            found : BOOLEAN, held : SUBSET Device]

(* Every node but the root has a parent that is older. *)
TreeOK ==
  /\ tree \in Seq(NodeRec) /\ tree # <<>>
  /\ \A n \in DOMAIN tree :
       tree[n].parent \in 0..n-1 /\ (tree[n].parent = 0 <=> n = Root)

(* A thread in insert() is at a node, within the address of its device; one *)
(* that takes children.back() has put a child there.                        *)
StandsOK(t) ==
  writer[t] = Idle \/ /\ writer[t] \in Walk
                      /\ writer[t].node \in DOMAIN tree
                      /\ IF writer[t].at \in {"search", "create", "back"}
                         THEN writer[t].depth < Len(writer[t].dev.address)
                         ELSE writer[t].depth = Len(writer[t].dev.address)
                      /\ writer[t].at = "back" =>
                           \E k \in DOMAIN tree : tree[k].parent = writer[t].node

WritersOK == writer \in [Writer -> Walk \cup {Idle}] /\ \A t \in Writer : StandsOK(t)

CountsOK == inserted \in 0..MaxInserts /\ searches \in 0..MaxSearches

ReaderOK == reader = Idle \/ /\ reader \in Seeking
                             /\ reader.visited \cup reader.due \subseteq DOMAIN tree

TInv == TreeOK /\ WritersOK /\ CountsOK /\ ReaderOK

-----------------------------------------------------------------------------
(* Numbers and sequences. *)

(* A set of numbers that is not empty has a least element. *)
LEMMA LeastExists ==
  ASSUME NEW S, S \subseteq Nat, S # {}
  PROVE  \E x \in S : \A y \in S : x <= y
<1> DEFINE Less == {p \in Nat \X Nat : p[1] < p[2]}
<1>1. IsWellFoundedOn(Less, Nat)
  BY NatLessThanWellFounded DEF OpToRel
<1>2. PICK x \in S : \A y \in S : <<y, x>> \notin Less
  <2> HIDE DEF Less
  <2> QED BY <1>1, WFMin
<1>3. \A y \in S : x <= y
  <2> TAKE y \in S
  <2>1. x \in Nat /\ y \in Nat
    OBVIOUS
  <2>2. y < x => <<y, x>> \in Less
    BY <2>1
  <2> QED BY <2>1, <2>2, <1>2
<1> QED BY <1>3

(* Min and Max of a set of numbers that is not empty, and is bounded for    *)
(* Max, are what their names say.                                           *)
LEMMA MinLeast ==
  ASSUME NEW S, S \subseteq Nat, S # {}
  PROVE  Min(S) \in S /\ \A y \in S : Min(S) <= y
BY LeastExists DEF Min

(* The same for Max. *)
LEMMA MaxGreatest ==
  ASSUME NEW S, S \subseteq Nat, S # {}, NEW b \in Nat, \A x \in S : x <= b
  PROVE  Max(S) \in S /\ \A y \in S : y <= Max(S)
<1> DEFINE D == {b - x : x \in S}
<1>1. D \subseteq Nat /\ D # {}
  <2>1. \A x \in S : b - x \in Nat
    <3> TAKE x \in S
    <3>1. x \in Nat /\ x <= b
      OBVIOUS
    <3> QED BY <3>1
  <2>2. PICK x \in S : TRUE
    OBVIOUS
  <2> QED BY <2>1, <2>2, Zenon
<1>2. PICK d \in D : \A e \in D : d <= e
  BY <1>1, LeastExists
<1>3. PICK x \in S : d = b - x
  OBVIOUS
<1>4. \A y \in S : x >= y
  <2> TAKE y \in S
  <2>1. b - y \in D /\ x \in Nat /\ y \in Nat
    OBVIOUS
  <2> QED BY <1>2, <1>3, <2>1
<1>5. Max(S) \in S /\ \A y \in S : Max(S) >= y
  BY <1>4 DEF Max
<1> QED BY <1>5

(* The IDs of an address are numbers. *)
LEMMA AddressIds ==
  ASSUME NEW a \in Address
  PROVE  /\ a \in Seq(Nat) /\ Len(a) \in Nat \ {0} /\ DOMAIN a = 1..Len(a)
         /\ \A m \in Nat : m < Len(a) => a[m+1] \in Nat
<1>1. a \in Seq(Nat) /\ a # <<>>
  BY AddressAssumption
<1>2. Len(a) \in Nat /\ Len(a) # 0 /\ DOMAIN a = 1..Len(a) /\ \A i \in 1..Len(a) : a[i] \in Nat
  BY <1>1, EmptySeq, LenProperties, ElementOfSeq
<1> QED BY <1>1, <1>2

(* What is left of a vector is of what was there. *)
LEMMA WithoutIsPart ==
  ASSUME NEW S, NEW s \in Seq(S), NEW j \in Nat
  PROVE  Without(s, j) \in Seq(S) /\ Range(Without(s, j)) \subseteq Range(s)
<1> DEFINE m == Min({j, Len(s)}) - 1
           R == Range(s)
<1>1. Len(s) \in Nat /\ DOMAIN s = 1..Len(s) /\ \A i \in 1..Len(s) : s[i] \in R
  BY LenProperties DEF Range
<1>2. m \in Int /\ m < Len(s) + 1
  <2>1. {j, Len(s)} \subseteq Nat
    BY <1>1
  <2>2. Min({j, Len(s)}) \in {j, Len(s)} /\ Min({j, Len(s)}) <= Len(s)
    BY <2>1, MinLeast
  <2> QED BY <1>1, <2>2
<1> HIDE DEF m
<1>3. \A i \in 1..m : s[i] \in R
  BY <1>1, <1>2
<1>4. \A i \in j+1..Len(s) : s[i] \in R
  BY <1>1
<1> HIDE DEF R
<1>5. SubSeq(s, 1, m) \in Seq(R) /\ SubSeq(s, j+1, Len(s)) \in Seq(R)
  BY <1>1, <1>2, <1>3, <1>4, SubSeqProperties
<1>6. Without(s, j) \in Seq(R)
  BY <1>5, ConcatProperties DEF Without, m
<1>7. R \subseteq S
  BY RangeOfSeq DEF R
<1>8. Range(Without(s, j)) \subseteq R
  BY <1>6, RangeOfSeq
<1>9. Without(s, j) \in Seq(S)
  BY <1>6, <1>7, SeqMonotonic
<1> QED BY <1>8, <1>9 DEF R

(* push_back adds an element to those of a vector. *)
LEMMA RangeOfAppend ==
  ASSUME NEW S, NEW s \in Seq(S), NEW e \in S
  PROVE  Append(s, e) \in Seq(S) /\ Range(Append(s, e)) = Range(s) \cup {e}
<1>1. /\ Append(s, e) \in Seq(S) /\ Len(s) \in Nat /\ Len(Append(s, e)) = Len(s) + 1
      /\ \A i \in 1..Len(s) : Append(s, e)[i] = s[i]
      /\ Append(s, e)[Len(s) + 1] = e
  BY AppendProperties, LenProperties
<1>2. /\ Range(Append(s, e)) = {Append(s, e)[i] : i \in 1..Len(Append(s, e))}
      /\ Range(s) = {s[i] : i \in 1..Len(s)}
  BY <1>1, RangeEquality
<1>3. \A i \in 1..Len(s) + 1 : i \in 1..Len(s) \/ i = Len(s) + 1
  BY <1>1
<1>4. 1..Len(s) \subseteq 1..Len(s) + 1 /\ Len(s) + 1 \in 1..Len(s) + 1
  BY <1>1
<1> QED BY <1>1, <1>2, <1>3, <1>4

-----------------------------------------------------------------------------
(* What a step does to the tree and to where a thread stands. *)

(* No node goes, and none gets another parent. *)
Grown == /\ DOMAIN tree \subseteq DOMAIN tree'
         /\ \A n \in DOMAIN tree : tree'[n].parent = tree[n].parent
                                /\ tree'[n].depth_id = tree[n].depth_id

(* A step that changes the devices of a place leaves the nodes as they are. *)
LEMMA DevicesChanged ==
  ASSUME TreeOK, NEW n \in DOMAIN tree, NEW s \in Seq(Device),
         tree' = [tree EXCEPT ![n].devices = s]
  PROVE  /\ TreeOK' /\ Grown /\ DOMAIN tree' = DOMAIN tree
         /\ tree'[n].devices = s
         /\ \A m \in DOMAIN tree : m # n => tree'[m] = tree[m]
<1>1. /\ tree \in Seq(NodeRec) /\ Len(tree) \in Nat /\ DOMAIN tree = 1..Len(tree)
      /\ \A m \in DOMAIN tree : tree[m] \in NodeRec
  BY LenProperties, ElementOfSeq DEF TreeOK
<1> DEFINE e == [tree[n] EXCEPT !.devices = s]
<1>2. e \in NodeRec /\ e.parent = tree[n].parent /\ e.depth_id = tree[n].depth_id /\ e.devices = s
  BY <1>1 DEF NodeRec
<1>3. tree' = [tree EXCEPT ![n] = e]
  OBVIOUS
<1> HIDE DEF e
<1>4. /\ tree' \in Seq(NodeRec) /\ Len(tree') = Len(tree)
      /\ \A m \in DOMAIN tree : tree'[m] = IF m = n THEN e ELSE tree[m]
  BY <1>1, <1>2, <1>3, ExceptSeq
<1>5. DOMAIN tree' = DOMAIN tree
  BY <1>1, <1>4, LenProperties
<1>6. Grown
  BY <1>2, <1>4, <1>5 DEF Grown
<1>7. tree' # <<>>
  BY <1>1, <1>4, EmptySeq DEF TreeOK
<1>8. TreeOK'
  BY <1>4, <1>5, <1>6, <1>7 DEF TreeOK, Grown
<1> QED BY <1>2, <1>4, <1>5, <1>6, <1>8

(* children.emplace_back adds a node, the newest. *)
LEMMA NodeAdded ==
  ASSUME TreeOK, NEW p \in DOMAIN tree, NEW i \in Nat, tree' = Append(tree, Node(p, i))
  PROVE  /\ TreeOK' /\ Grown
         /\ Len(tree) + 1 \notin DOMAIN tree
         /\ DOMAIN tree' = DOMAIN tree \cup {Len(tree) + 1}
         /\ tree'[Len(tree) + 1] = Node(p, i)
         /\ \A m \in DOMAIN tree : tree'[m] = tree[m]
<1>1. /\ tree \in Seq(NodeRec) /\ Len(tree) \in Nat /\ DOMAIN tree = 1..Len(tree)
      /\ \A m \in DOMAIN tree : tree[m] \in NodeRec
  BY LenProperties, ElementOfSeq DEF TreeOK
<1>2. Node(p, i) \in NodeRec
  <2>1. <<>> \in Seq(Device)
    BY EmptySeq
  <2> QED BY <1>1, <2>1 DEF Node, NodeRec
<1>3. /\ tree' \in Seq(NodeRec) /\ tree' # <<>> /\ Len(tree') = Len(tree) + 1
      /\ \A m \in DOMAIN tree : tree'[m] = tree[m]
      /\ tree'[Len(tree) + 1] = Node(p, i)
  BY <1>1, <1>2, AppendProperties
<1>4. DOMAIN tree' = 1..Len(tree) + 1
  BY <1>3, LenProperties
<1>5. DOMAIN tree' = DOMAIN tree \cup {Len(tree) + 1} /\ Len(tree) + 1 \notin DOMAIN tree
  <2>1. \A m \in 1..Len(tree) + 1 : m \in 1..Len(tree) \/ m = Len(tree) + 1
    BY <1>1
  <2>2. 1..Len(tree) \subseteq 1..Len(tree) + 1 /\ Len(tree) + 1 \in 1..Len(tree) + 1
    BY <1>1
  <2>3. Len(tree) + 1 \notin 1..Len(tree)
    BY <1>1
  <2> QED BY <1>1, <1>4, <2>1, <2>2, <2>3
<1>6. Grown
  BY <1>3, <1>5 DEF Grown
<1>7. \A m \in DOMAIN tree' : tree'[m].parent \in 0..m-1 /\ (tree'[m].parent = 0 <=> m = Root)
  <2> TAKE m \in DOMAIN tree'
  <2>1. CASE m \in DOMAIN tree
    BY <1>3, <2>1 DEF TreeOK
  <2>2. CASE m = Len(tree) + 1
    <3>1. tree'[m].parent = p
      BY <1>3, <2>2 DEF Node
    <3>2. p \in 1..Len(tree)
      BY <1>1
    <3> QED BY <1>1, <2>2, <3>1, <3>2 DEF Root
  <2> QED BY <1>5, <2>1, <2>2
<1>8. TreeOK'
  BY <1>3, <1>7 DEF TreeOK
<1> QED BY <1>3, <1>5, <1>6, <1>8

(* A thread that a step leaves alone still stands in the tree. *)
LEMMA StillStands ==
  ASSUME Grown, NEW u, StandsOK(u), writer'[u] = writer[u]
  PROVE  StandsOK(u)'
<1>1. CASE writer[u] = Idle
  BY <1>1 DEF StandsOK, Idle
<1>2. CASE writer[u] # Idle
  BY <1>2 DEF StandsOK, Grown
<1> QED BY <1>1, <1>2

(* A step of one thread that leaves it standing in the tree. *)
LEMMA OthersStand ==
  ASSUME WritersOK, Grown, NEW t \in Writer, NEW r \in Walk \cup {Idle},
         writer' = [writer EXCEPT ![t] = r], StandsOK(t)'
  PROVE  WritersOK'
<1>1. writer' \in [Writer -> Walk \cup {Idle}] /\ \A u \in Writer : u # t => writer'[u] = writer[u]
  BY DEF WritersOK
<1>2. \A u \in Writer : u # t => StandsOK(u)'
  BY <1>1, StillStands DEF WritersOK
<1> QED BY <1>1, <1>2 DEF WritersOK

(* A search goes on over a tree that has grown. *)
LEMMA ReaderStays ==
  ASSUME ReaderOK, Grown, reader' = reader
  PROVE  ReaderOK'
BY DEF ReaderOK, Grown

(* A tree that is not touched. *)
LEMMA TreeStays ==
  ASSUME TreeOK, UNCHANGED tree
  PROVE  TreeOK' /\ Grown
BY DEF TreeOK, Grown

-----------------------------------------------------------------------------
(* The types, for any number of threads that insert. *)

(* What a thread in insert() holds. *)
LEMMA WalkFields ==
  ASSUME NEW w \in Walk
  PROVE  /\ w.at \in Walking /\ w.node \in Nat /\ w.depth \in Nat /\ w.slot \in Nat
         /\ w.dev \in Device /\ w # Idle
         /\ w.dev.address \in Address /\ w.dev.id \in DeviceId
         /\ KeyOf(w.dev) \in Key
<1>1. /\ w.at \in Walking /\ w.node \in Nat /\ w.depth \in Nat /\ w.slot \in Nat
      /\ w.dev \in Device
  BY DEF Walk
<1>2. w.dev.address \in Address /\ w.dev.id \in DeviceId
  BY <1>1 DEF Device
<1>3. w # Idle
  BY <1>1 DEF Walking, Idle
<1> QED BY <1>1, <1>2, <1>3 DEF KeyOf, Key

(* A thread whose at is one of the loop's is in insert(). *)
LEMMA InInsert ==
  ASSUME WritersOK, NEW t \in Writer, writer[t].at # "idle"
  PROVE  writer[t] \in Walk /\ StandsOK(t) /\ writer[t] # Idle
BY DEF WritersOK, Idle, StandsOK

(* insert() begins at the root. *)
LEMMA BeginStands ==
  ASSUME TInv, NEW t \in Writer, Begin(t)
  PROVE  WritersOK' /\ inserted' \in 1..MaxInserts
<1>1. PICK a \in Address, i \in DeviceId :
        writer' = [writer EXCEPT ![t] =
                   [at |-> "search", node |-> Root, depth |-> 0, slot |-> 0,
                    dev |-> [address |-> a, id |-> i, stamp |-> inserted']]]
  BY DEF Begin
<1>2. inserted' \in 1..MaxInserts
  BY BoundAssumption DEF Begin, TInv, CountsOK
<1> DEFINE d == [address |-> a, id |-> i, stamp |-> inserted']
           r == [at |-> "search", node |-> Root, depth |-> 0, slot |-> 0, dev |-> d]
<1>3. d \in Device /\ d.address = a
  BY <1>2 DEF Device
<1> HIDE DEF d
<1>4. r \in Walk
  BY <1>3 DEF Walk, Walking, Root
<1>5. /\ r.at = "search" /\ r.node = Root /\ r.depth = 0 /\ r.dev = d
  OBVIOUS
<1>6. writer' = [writer EXCEPT ![t] = r]
  BY <1>1 DEF d
<1> HIDE DEF r
<1>7. writer'[t] = r
  BY <1>6 DEF TInv, WritersOK
<1>8. Root \in DOMAIN tree
  <2>1. tree \in Seq(NodeRec) /\ tree # <<>>
    BY DEF TInv, TreeOK
  <2> QED BY <2>1, EmptySeq, LenProperties DEF Root
<1>9. 0 < Len(a)
  BY AddressIds
<1>10. Grown /\ UNCHANGED tree
  BY TreeStays DEF TInv, Begin
<1>11. StandsOK(t)'
  BY <1>3, <1>4, <1>5, <1>7, <1>8, <1>9, <1>10 DEF StandsOK
<1> QED BY <1>2, <1>4, <1>6, <1>10, <1>11, OthersStand DEF TInv

(* insertNode's next level is within the address. *)
LEMMA DescendStands ==
  ASSUME TInv, NEW t \in Writer, writer[t].at \in {"search", "back"},
         NEW n \in DOMAIN tree, Descend(t, n), UNCHANGED tree
  PROVE  /\ WritersOK'
         /\ writer'[t].node = n /\ writer'[t].depth = writer[t].depth + 1
         /\ writer'[t].dev = writer[t].dev
         /\ writer'[t].at = IF writer[t].depth + 1 = Len(writer[t].dev.address)
                            THEN "scan" ELSE "search"
         /\ writer'[t] \in Walk
<1> DEFINE w == writer[t]
           at == IF w.depth + 1 = Len(w.dev.address) THEN "scan" ELSE "search"
           r == [w EXCEPT !.node = n, !.depth = w.depth + 1, !.at = at]
<1>1. w \in Walk /\ StandsOK(t) /\ w # Idle
  BY InInsert DEF TInv
<1>2. w.depth \in Nat /\ w.dev \in Device /\ w.dev.address \in Address
  BY <1>1, WalkFields
<1>3. Len(w.dev.address) \in Nat /\ w.depth < Len(w.dev.address)
  BY <1>1, <1>2, AddressIds DEF StandsOK
<1>4. n \in Nat
  BY LenProperties DEF TInv, TreeOK
<1>5. at \in Walking
  BY DEF Walking
<1>6. writer' = [writer EXCEPT ![t] = r]
  BY DEF Descend
<1> HIDE DEF at, w
<1>7. /\ r \in Walk /\ r.at = at /\ r.node = n /\ r.depth = w.depth + 1 /\ r.dev = w.dev
  <2>1. w.depth + 1 \in Nat
    BY <1>2
  <2>2. r = [w EXCEPT !.node = n, !.depth = w.depth + 1, !.at = at]
    OBVIOUS
  <2> HIDE DEF r
  <2>3. w \in Walk /\ n \in Nat /\ w.depth + 1 \in Nat /\ at \in Walking
    BY <1>1, <1>4, <1>5, <2>1
  <2>4. r \in Walk
    BY <2>2, <2>3 DEF Walk
  <2>5. r.at = at
    BY <2>2, <2>3 DEF Walk
  <2>6. r.node = n
    BY <2>2, <2>3 DEF Walk
  <2>7. r.depth = w.depth + 1
    BY <2>2, <2>3 DEF Walk
  <2>8. r.dev = w.dev
    BY <2>2, <2>3 DEF Walk
  <2> QED BY <2>4, <2>5, <2>6, <2>7, <2>8
<1> HIDE DEF r
<1>8. writer'[t] = r
  BY <1>6 DEF TInv, WritersOK
<1>9. Grown
  BY TreeStays DEF TInv
<1>10. StandsOK(t)'
  BY <1>2, <1>3, <1>7, <1>8 DEF StandsOK, at
<1> QED BY <1>6, <1>7, <1>8, <1>9, <1>10, OthersStand DEF TInv, at, w

(* A thread goes on at the place where it is. *)
LEMMA GotoStands ==
  ASSUME TInv, NEW t \in Writer, writer[t] \in Walk, NEW p \in Walking, Goto(t, p), Grown,
         p \in {"search", "create", "back"} <=> writer[t].at \in {"search", "create", "back"},
         p = "back" => \E k \in DOMAIN tree' : tree'[k].parent = writer[t].node
  PROVE  /\ WritersOK'
         /\ writer'[t].node = writer[t].node /\ writer'[t].depth = writer[t].depth
         /\ writer'[t].slot = writer[t].slot
         /\ writer'[t].dev = writer[t].dev /\ writer'[t].at = p
         /\ writer'[t] \in Walk
<1> DEFINE w == writer[t]
           r == [w EXCEPT !.at = p]
<1>1. StandsOK(t) /\ w # Idle /\ w.at # "idle"
  BY WalkFields DEF TInv, WritersOK, Walking
<1>2. writer' = [writer EXCEPT ![t] = r]
  BY DEF Goto
<1>3. r \in Walk /\ r.at = p /\ r.node = w.node /\ r.depth = w.depth /\ r.slot = w.slot /\ r.dev = w.dev
  BY DEF Walk
<1> HIDE DEF r
<1>4. writer'[t] = r
  BY <1>2 DEF TInv, WritersOK
<1>5. StandsOK(t)'
  BY <1>1, <1>3, <1>4 DEF StandsOK, Grown
<1> QED BY <1>2, <1>3, <1>4, <1>5, OthersStand DEF TInv

(* searchNode finds a child of the node, with the depth ID it looks for. *)
LEMMA FoundChild ==
  ASSUME TreeOK, NEW n, NEW i
  PROVE  LET m == searchNode(n, i)
         IN IF m = 0 THEN \A k \in Children(n) : tree[k].depth_id # i
                     ELSE m \in Children(n) /\ tree[m].depth_id = i
<1> DEFINE found == {k \in Children(n) : tree[k].depth_id = i}
<1>1. found \subseteq Nat /\ 0 \notin found
  BY LenProperties DEF TreeOK, Children
<1>2. CASE found = {}
  BY <1>2 DEF searchNode
<1>3. CASE found # {}
  <2>1. \E k \in found : \A j \in found : k <= j
    BY <1>1, <1>3, LeastExists
  <2>2. searchNode(n, i) \in found
    BY <1>3, <2>1 DEF searchNode
  <2> QED BY <1>1, <2>2
<1> QED BY <1>2, <1>3

(* The search for a child, and the creation of one. *)
LEMMA SearchStands ==
  ASSUME TInv, NEW t \in Writer, Search(t)
  PROVE  TInv'
<1> DEFINE n == searchNode(writer[t].node, NextId(t))
<1>1. writer[t] \in Walk /\ Grown
  BY InInsert, TreeStays DEF Search, TInv
<1>2. CASE n = 0
  <2>1. Goto(t, "create") /\ "create" \in Walking
    BY <1>2 DEF Search, Walking
  <2>2. WritersOK'
    BY <1>1, <2>1, GotoStands DEF Search
  <2> QED BY <1>1, <2>2, TreeStays, ReaderStays DEF TInv, Search, CountsOK
<1>3. CASE n # 0
  <2>1. n \in DOMAIN tree
    BY <1>3, FoundChild DEF TInv, Children
  <2>2. Descend(t, n)
    BY <1>3 DEF Search
  <2> HIDE DEF n
  <2>3. WritersOK'
    BY <2>1, <2>2, DescendStands DEF Search
  <2> QED BY <1>1, <2>3, TreeStays, ReaderStays DEF TInv, Search, CountsOK
<1> QED BY <1>2, <1>3

(* What emplace_back does to the tree, and where the thread stands then. *)
LEMMA CreateAdds ==
  ASSUME TInv, NEW t \in Writer, Create(t)
  PROVE  /\ writer[t] \in Walk /\ writer[t].depth < Len(writer[t].dev.address)
         /\ writer[t].node \in DOMAIN tree /\ NextId(t) \in Nat
         /\ TreeOK' /\ Grown
         /\ Len(tree) + 1 \notin DOMAIN tree
         /\ DOMAIN tree' = DOMAIN tree \cup {Len(tree) + 1}
         /\ tree'[Len(tree) + 1] = Node(writer[t].node, NextId(t))
         /\ \A m \in DOMAIN tree : tree'[m] = tree[m]
<1>1. writer[t] \in Walk /\ StandsOK(t) /\ writer[t] # Idle /\ writer[t].at = "create"
  BY InInsert DEF Create, TInv
<1>2. writer[t].node \in DOMAIN tree /\ writer[t].depth < Len(writer[t].dev.address)
  BY <1>1 DEF StandsOK
<1>3. NextId(t) \in Nat
  BY <1>1, <1>2, WalkFields, AddressIds DEF NextId
<1> QED BY <1>1, <1>2, <1>3, NodeAdded DEF TInv, Create

(* The types after emplace_back. *)
LEMMA CreateStands ==
  ASSUME TInv, NEW t \in Writer, Create(t)
  PROVE  TInv'
<1>1. Goto(t, "back") /\ "back" \in Walking /\ writer[t].at = "create"
  BY DEF Create, Walking
<1>2. tree'[Len(tree) + 1].parent = writer[t].node /\ Len(tree) + 1 \in DOMAIN tree'
  <2>1. tree'[Len(tree) + 1] = Node(writer[t].node, NextId(t))
    BY CreateAdds
  <2>2. DOMAIN tree' = DOMAIN tree \cup {Len(tree) + 1}
    BY CreateAdds
  <2>3. Node(writer[t].node, NextId(t)).parent = writer[t].node
    BY DEF Node
  <2> QED BY <2>1, <2>2, <2>3
<1>3. WritersOK'
  BY <1>1, <1>2, CreateAdds, GotoStands
<1> QED BY <1>3, CreateAdds, ReaderStays DEF TInv, Create, CountsOK

(* children.back() is a child of the node, the newest. *)
LEMMA BackIsNewest ==
  ASSUME TInv, NEW t \in Writer, writer[t].at = "back"
  PROVE  LET m == Max(Children(writer[t].node))
         IN m \in Children(writer[t].node) /\ \A k \in Children(writer[t].node) : k <= m
<1>1. Children(writer[t].node) # {}
  BY InInsert DEF TInv, StandsOK, Children
<1>2. Len(tree) \in Nat /\ DOMAIN tree = 1..Len(tree)
  BY LenProperties DEF TInv, TreeOK
<1>3. Children(writer[t].node) \subseteq Nat /\ \A k \in Children(writer[t].node) : k <= Len(tree)
  BY <1>2 DEF Children
<1> QED BY <1>1, <1>2, <1>3, MaxGreatest

(* The types after children.back(). *)
LEMMA BackStands ==
  ASSUME TInv, NEW t \in Writer, Back(t)
  PROVE  TInv'
<1> DEFINE n == Max(Children(writer[t].node))
<1>1. n \in DOMAIN tree /\ Descend(t, n)
  BY BackIsNewest DEF Back, Children
<1> HIDE DEF n
<1>2. WritersOK'
  BY <1>1, DescendStands DEF Back
<1> QED BY <1>2, TreeStays, ReaderStays DEF TInv, Back, CountsOK

(* The devices of a node are a vector of devices. *)
LEMMA NodeDevices ==
  ASSUME TreeOK, NEW n \in DOMAIN tree
  PROVE  /\ n \in Nat /\ tree[n].parent \in Nat /\ tree[n].depth_id \in Nat
         /\ tree[n].devices \in Seq(Device)
         /\ DevicesAt(n) \subseteq Device
<1>1. tree[n] \in NodeRec /\ n \in Nat
  BY LenProperties, ElementOfSeq DEF TreeOK
<1>2. /\ tree[n].parent \in Nat /\ tree[n].depth_id \in Nat
      /\ tree[n].devices \in Seq(Device)
  BY <1>1 DEF NodeRec
<1>3. DevicesAt(n) \subseteq Device
  BY <1>2, RangeOfSeq DEF DevicesAt
<1> QED BY <1>1, <1>2, <1>3

(* The loop over the devices of the place finds a slot with the device's    *)
(* key, or there is none.                                                   *)
LEMMA ScanFinds ==
  ASSUME TInv, NEW t \in Writer, Scan(t)
  PROVE  LET w == writer[t]
             here == tree[w.node].devices
             same == {j \in DOMAIN here : KeyOf(here[j]) = KeyOf(w.dev)}
         IN /\ w \in Walk /\ w.node \in DOMAIN tree
            /\ \/ same = {} /\ Goto(t, "append")
               \/ \E j \in same : /\ j \in Nat
                                  /\ writer' = [writer EXCEPT ![t] =
                                                  [w EXCEPT !.at = "erase", !.slot = j]]
<1> DEFINE w == writer[t]
           here == tree[w.node].devices
           same == {j \in DOMAIN here : KeyOf(here[j]) = KeyOf(w.dev)}
<1>1. w \in Walk /\ w.node \in DOMAIN tree
  BY InInsert DEF Scan, TInv, StandsOK
<1>2. here \in Seq(Device)
  BY <1>1, NodeDevices DEF TInv
<1>3. same \subseteq Nat
  BY <1>2, LenProperties
<1>4. CASE same = {}
  BY <1>1, <1>4 DEF Scan
<1>5. CASE same # {}
  <2>1. Min(same) \in same /\ Min(same) \in Nat
    BY <1>3, <1>5, MinLeast
  <2>2. writer' = [writer EXCEPT ![t] = [w EXCEPT !.at = "erase", !.slot = Min(same)]]
    BY <1>5 DEF Scan
  <2> HIDE DEF same
  <2>3. \E j \in same : j \in Nat /\ writer' = [writer EXCEPT ![t] = [w EXCEPT !.at = "erase", !.slot = j]]
    BY <2>1, <2>2
  <2> QED BY <1>1, <2>3 DEF same
<1> QED BY <1>4, <1>5

(* What a thread that goes on to erase holds. *)
LEMMA EraseStands ==
  ASSUME TInv, NEW t \in Writer, writer[t] \in Walk, writer[t].at = "scan", NEW j \in Nat,
         writer' = [writer EXCEPT ![t] = [writer[t] EXCEPT !.at = "erase", !.slot = j]],
         UNCHANGED tree
  PROVE  /\ WritersOK'
         /\ writer'[t].node = writer[t].node /\ writer'[t].depth = writer[t].depth
         /\ writer'[t].slot = j /\ writer'[t].dev = writer[t].dev
         /\ writer'[t].at = "erase" /\ writer'[t] \in Walk
<1> DEFINE w == writer[t]
           r == [w EXCEPT !.at = "erase", !.slot = j]
<1>1. StandsOK(t) /\ w # Idle
  BY WalkFields DEF TInv, WritersOK
<1>2. writer' = [writer EXCEPT ![t] = r]
  OBVIOUS
<1>3. r \in Walk /\ r.at = "erase" /\ r.node = w.node /\ r.depth = w.depth /\ r.slot = j /\ r.dev = w.dev
  BY DEF Walk, Walking
<1> HIDE DEF r
<1>4. writer'[t] = r
  BY <1>2 DEF TInv, WritersOK
<1>5. Grown
  BY TreeStays DEF TInv
<1>6. StandsOK(t)'
  BY <1>1, <1>3, <1>4, <1>5 DEF StandsOK
<1> QED BY <1>2, <1>3, <1>4, <1>5, <1>6, OthersStand DEF TInv

(* The types after the scan for a duplicate. *)
LEMMA ScanStands ==
  ASSUME TInv, NEW t \in Writer, Scan(t)
  PROVE  TInv'
<1>1. writer[t] \in Walk /\ writer[t].at = "scan" /\ Grown
  BY InInsert, TreeStays DEF Scan, TInv
<1>2. Goto(t, "append") \/ \E j \in Nat : writer' = [writer EXCEPT ![t] =
                                            [writer[t] EXCEPT !.at = "erase", !.slot = j]]
  BY ScanFinds
<1>3. WritersOK'
  <2>1. CASE Goto(t, "append")
    <3>1. "append" \in Walking
      BY DEF Walking
    <3> QED BY <1>1, <2>1, <3>1, GotoStands
  <2>2. CASE ~ Goto(t, "append")
    BY <1>1, <1>2, <2>2, EraseStands DEF Scan
  <2> QED BY <2>1, <2>2
<1> QED BY <1>1, <1>3, TreeStays, ReaderStays DEF TInv, Scan, CountsOK

(* What erasing does: devices may go from the place, and none comes. *)
LEMMA EraseTakes ==
  ASSUME TInv, NEW t \in Writer, Erase(t)
  PROVE  /\ writer[t] \in Walk /\ writer[t].node \in DOMAIN tree
         /\ TreeOK' /\ Grown /\ DOMAIN tree' = DOMAIN tree
         /\ tree'[writer[t].node].devices
              = Without(tree[writer[t].node].devices, writer[t].slot)
         /\ \A m \in DOMAIN tree : DevicesAt(m)' \subseteq DevicesAt(m)
         /\ \A m \in DOMAIN tree : m # writer[t].node => tree'[m] = tree[m]
<1> DEFINE n == writer[t].node
           s == Without(tree[n].devices, writer[t].slot)
<1>1. writer[t] \in Walk /\ n \in DOMAIN tree
  BY InInsert DEF Erase, TInv, StandsOK
<1>2. s \in Seq(Device) /\ Range(s) \subseteq DevicesAt(n)
  BY <1>1, NodeDevices, WithoutIsPart, WalkFields DEF TInv, DevicesAt
<1>3. tree' = [tree EXCEPT ![n].devices = s]
  BY DEF Erase
<1> HIDE DEF s, n
<1>4. /\ TreeOK' /\ Grown /\ DOMAIN tree' = DOMAIN tree
      /\ tree'[n].devices = s
      /\ \A m \in DOMAIN tree : m # n => tree'[m] = tree[m]
  BY <1>1, <1>2, <1>3, DevicesChanged DEF TInv
<1>5. \A m \in DOMAIN tree : DevicesAt(m)' \subseteq DevicesAt(m)
  <2> TAKE m \in DOMAIN tree
  <2>1. CASE m = n
    BY <1>2, <1>4, <2>1 DEF DevicesAt
  <2>2. CASE m # n
    BY <1>4, <2>2 DEF DevicesAt
  <2> QED BY <2>1, <2>2
<1> QED BY <1>1, <1>4, <1>5 DEF n, s

(* The types after erase. *)
LEMMA EraseKeepsTypes ==
  ASSUME TInv, NEW t \in Writer, Erase(t)
  PROVE  TInv'
<1>1. Goto(t, "append") /\ "append" \in Walking /\ writer[t].at = "erase"
  BY DEF Erase, Walking
<1>2. writer[t] \in Walk /\ TreeOK' /\ Grown
  BY EraseTakes
<1>3. WritersOK'
  BY <1>1, <1>2, GotoStands
<1> QED BY <1>2, <1>3, ReaderStays DEF TInv, Erase, CountsOK

(* What push_back does: the device comes to the place. *)
LEMMA AppendPuts ==
  ASSUME TInv, NEW t \in Writer, AppendDevice(t)
  PROVE  /\ writer[t] \in Walk /\ writer[t].node \in DOMAIN tree
         /\ TreeOK' /\ Grown /\ DOMAIN tree' = DOMAIN tree
         /\ tree'[writer[t].node].devices
              = Append(tree[writer[t].node].devices, writer[t].dev)
         /\ \A m \in DOMAIN tree : DevicesAt(m)' =
              IF m = writer[t].node THEN DevicesAt(m) \cup {writer[t].dev} ELSE DevicesAt(m)
         /\ \A m \in DOMAIN tree : m # writer[t].node => tree'[m] = tree[m]
<1> DEFINE n == writer[t].node
           s == Append(tree[n].devices, writer[t].dev)
<1>1. writer[t] \in Walk /\ n \in DOMAIN tree
  BY InInsert DEF AppendDevice, TInv, StandsOK
<1>2. s \in Seq(Device) /\ Range(s) = DevicesAt(n) \cup {writer[t].dev}
  BY <1>1, NodeDevices, RangeOfAppend, WalkFields DEF TInv, DevicesAt
<1>3. tree' = [tree EXCEPT ![n].devices = s]
  BY DEF AppendDevice
<1> HIDE DEF s, n
<1>4. /\ TreeOK' /\ Grown /\ DOMAIN tree' = DOMAIN tree
      /\ tree'[n].devices = s
      /\ \A m \in DOMAIN tree : m # n => tree'[m] = tree[m]
  BY <1>1, <1>2, <1>3, DevicesChanged DEF TInv
<1>5. \A m \in DOMAIN tree : DevicesAt(m)' =
         IF m = n THEN DevicesAt(m) \cup {writer[t].dev} ELSE DevicesAt(m)
  <2> TAKE m \in DOMAIN tree
  <2>1. CASE m = n
    BY <1>2, <1>4, <2>1 DEF DevicesAt
  <2>2. CASE m # n
    BY <1>4, <2>2 DEF DevicesAt
  <2> QED BY <2>1, <2>2
<1> QED BY <1>1, <1>4, <1>5 DEF n, s

(* The types after push_back. *)
LEMMA AppendKeepsTypes ==
  ASSUME TInv, NEW t \in Writer, AppendDevice(t)
  PROVE  TInv'
<1>1. TreeOK' /\ Grown
  BY AppendPuts
<1>2. writer'[t] = Idle /\ writer' = [writer EXCEPT ![t] = Idle]
  BY DEF AppendDevice, TInv, WritersOK
<1>3. StandsOK(t)'
  BY <1>2 DEF StandsOK, Idle
<1>4. WritersOK'
  BY <1>1, <1>2, <1>3, OthersStand DEF TInv
<1> QED BY <1>1, <1>4, ReaderStays DEF TInv, AppendDevice, CountsOK

(* The devices of the repository are devices. *)
LEMMA DevicesType ==
  ASSUME TreeOK
  PROVE  Devices \subseteq Device /\ \A k : OfKey(k) \subseteq Device
BY NodeDevices DEF Devices, OfKey

(* The types along a search of the repository. *)
LEMMA SearchesKeepTypes ==
  ASSUME TInv, Look \/ Visit \/ Return
  PROVE  TInv'
<1>1. UNCHANGED <<tree, writer, inserted>> /\ Grown /\ TreeOK'
  BY TreeStays DEF Look, Visit, Return, TInv
<1>2. WritersOK'
  BY <1>1 DEF TInv, WritersOK, StandsOK
<1>3. DOMAIN tree \subseteq Nat
  BY LenProperties DEF TInv, TreeOK
<1>4. ReaderOK' /\ CountsOK'
  <2>1. CASE Look
    <3>1. PICK k \in Key :
             reader' = [at |-> "visit", key |-> k, visited |-> {}, due |-> DOMAIN tree,
                        found |-> FALSE, held |-> OfKey(k)]
      BY <2>1 DEF Look
    <3>2. OfKey(k) \subseteq Device
      BY DevicesType DEF TInv
    <3>3. ReaderOK'
      BY <1>1, <1>3, <3>1, <3>2 DEF ReaderOK, Seeking
    <3>4. CountsOK'
      BY <2>1, <1>1, BoundAssumption DEF Look, TInv, CountsOK
    <3> QED BY <3>3, <3>4
  <2>2. CASE Visit
    <3>1. reader \in Seeking /\ reader.visited \cup reader.due \subseteq DOMAIN tree
      <4>1. reader.at = "visit"
        BY <2>2 DEF Visit
      <4>2. reader # Idle
        BY <4>1 DEF Idle
      <4> QED BY <4>2 DEF TInv, ReaderOK
    <3>2. PICK n \in DOMAIN tree : reader' = [reader EXCEPT
                   !.visited = @ \cup {n},
                   !.found = @ \/ \E d \in DevicesAt(n) : KeyOf(d) = reader.key]
      BY <2>2 DEF Visit
    <3>3. (reader.found \/ \E d \in DevicesAt(n) : KeyOf(d) = reader.key) \in BOOLEAN
      OBVIOUS
    <3>4. reader' \in Seeking
      BY <1>3, <3>1, <3>2, <3>3 DEF Seeking
    <3>5. reader'.visited = reader.visited \cup {n} /\ reader'.due = reader.due
      BY <3>1, <3>2 DEF Seeking
    <3>6. ReaderOK'
      BY <1>1, <3>1, <3>4, <3>5 DEF ReaderOK
    <3>7. CountsOK'
      BY <1>1, <2>2 DEF Visit, TInv, CountsOK
    <3> QED BY <3>6, <3>7
  <2>3. CASE Return
    BY <1>1, <2>3 DEF Return, ReaderOK, TInv, CountsOK
  <2> QED BY <2>1, <2>2, <2>3
<1> QED BY <1>1, <1>2, <1>4 DEF TInv

(* In the beginning there is the root. *)
LEMMA InitTypes ==
  ASSUME Init
  PROVE  TInv
<1>1. Node(0, 0) \in NodeRec /\ Node(0, 0).parent = 0
  <2>1. <<>> \in Seq(Device)
    BY EmptySeq
  <2> QED BY <2>1 DEF Node, NodeRec
<1>2. tree = <<Node(0, 0)>>
  BY DEF Init
<1>3. tree \in Seq(NodeRec) /\ tree # <<>> /\ DOMAIN tree = {1} /\ tree[1].parent = 0
  BY <1>1, <1>2
<1>4. TreeOK
  BY <1>3 DEF TreeOK, Root
<1>5. WritersOK
  BY DEF Init, WritersOK, StandsOK
<1> QED BY <1>4, <1>5, BoundAssumption DEF TInv, Init, CountsOK, ReaderOK

(* The types are kept by every step. *)
LEMMA NextTypes ==
  ASSUME TInv, [Next]_vars
  PROVE  TInv'
<1>1. CASE UNCHANGED vars
  BY <1>1 DEF TInv, TreeOK, WritersOK, StandsOK, CountsOK, ReaderOK, vars
<1>2. ASSUME NEW t \in Writer, Insert(t)
      PROVE  TInv'
  <2>1. CASE Begin(t)
    <3>1. Grown /\ TreeOK'
      BY <2>1, TreeStays DEF Begin, TInv
    <3>2. WritersOK' /\ inserted' \in 1..MaxInserts
      BY <2>1, BeginStands
    <3>3. CountsOK'
      BY <2>1, <3>2, BoundAssumption DEF Begin, TInv, CountsOK
    <3>4. ReaderOK'
      BY <2>1, <3>1, ReaderStays DEF Begin, TInv
    <3> QED BY <3>1, <3>2, <3>3, <3>4 DEF TInv
  <2>2. CASE ~ Begin(t)
    BY <1>2, <2>2, SearchStands, CreateStands, BackStands, ScanStands, EraseKeepsTypes,
       AppendKeepsTypes DEF Insert
  <2> QED BY <2>1, <2>2
<1> QED BY <1>1, <1>2, SearchesKeepTypes DEF Next

(* The types the runs check follow. *)
LEMMA TypesHold ==
  ASSUME TInv
  PROVE  TypeOK
<1>1. \A n \in DOMAIN tree :
       /\ tree[n].parent \in 0..n-1 /\ (tree[n].parent = 0 <=> n = Root)
       /\ tree[n].depth_id \in Nat
       /\ Range(tree[n].devices) \subseteq Device
  BY NodeDevices DEF TInv, TreeOK, DevicesAt
<1>2. \A t \in Writer : writer[t] = Idle \/
       /\ writer[t].dev \in Device
       /\ writer[t].node \in DOMAIN tree
       /\ IF writer[t].at \in {"search", "create", "back"}
          THEN writer[t].depth < Len(writer[t].dev.address)
          ELSE /\ writer[t].at \in {"scan", "erase", "append"}
               /\ writer[t].depth = Len(writer[t].dev.address)
  BY WalkFields DEF TInv, WritersOK, StandsOK, Walking
<1>3. reader = Idle \/ /\ reader.key \in Key
                       /\ reader.visited \cup reader.due \subseteq DOMAIN tree
                       /\ reader.found \in BOOLEAN /\ reader.held \subseteq Device
  BY DEF TInv, ReaderOK, Seeking
<1> QED BY <1>1, <1>2, <1>3 DEF TypeOK, TInv, CountsOK

(* Every variable has its type: a node's parent is older than the node, and *)
(* insertNode stays within the address, whatever the other threads that     *)
(* insert do (DevRepository.h, insertNode).                                 *)
THEOREM TypeCorrect == Spec => []TypeOK
<1>1. Init => TInv
  BY InitTypes
<1>2. TInv /\ [Next]_vars => TInv'
  BY NextTypes
<1>3. TInv => TypeOK
  BY TypesHold
<1> QED BY <1>1, <1>2, <1>3, PTL DEF Spec

-----------------------------------------------------------------------------
(* A search, while any number of threads insert. *)

(* The devices of the repository, and those the search may still find. *)
Past == Devices \cup (IF reader = Idle THEN {} ELSE reader.held)

(* A device that a thread is inserting is no device that was there before,  *)
(* and no other thread is inserting it.                                     *)
Fresh == /\ \A d \in Past : d.stamp <= inserted
         /\ \A t \in Writer : writer[t] # Idle =>
              /\ writer[t].dev.stamp <= inserted
              /\ writer[t].dev \notin Past
              /\ \A u \in Writer : u # t /\ writer[u] # Idle => writer[u].dev # writer[t].dev

(* A device that was there when the search began, and is still there, is at *)
(* a node that the search has to visit, and is found if it has visited it.  *)
HeldOK == reader # Idle =>
            \A d \in reader.held : \A n \in DOMAIN tree : d \in DevicesAt(n) =>
              n \in reader.due /\ KeyOf(d) = reader.key /\ (n \in reader.visited => reader.found)

(* A thread that goes on in insert() keeps its device. *)
LEMMA KeepsDevice ==
  ASSUME TInv, NEW t \in Writer,
         Search(t) \/ Create(t) \/ Back(t) \/ Scan(t) \/ Erase(t)
  PROVE  /\ writer[t] \in Walk /\ writer[t] # Idle /\ writer'[t] # Idle
         /\ writer'[t].dev = writer[t].dev /\ inserted' = inserted
<1> DEFINE w == writer[t]
<1>1. w \in Walk /\ w # Idle
  BY InInsert DEF TInv, Search, Create, Back, Scan, Erase
<1>2. ASSUME NEW p \in Walking, Goto(t, p)
      PROVE  writer'[t] # Idle /\ writer'[t].dev = w.dev
  <2>1. writer'[t] = [w EXCEPT !.at = p]
    BY <1>2 DEF Goto, TInv, WritersOK
  <2>2. writer'[t].at = p /\ writer'[t].dev = w.dev
    BY <1>1, <2>1 DEF Walk
  <2> QED BY <1>2, <2>2 DEF Idle, Walking
<1>3. ASSUME NEW n, Descend(t, n)
      PROVE  writer'[t] # Idle /\ writer'[t].dev = w.dev
  <2>1. writer'[t] = [w EXCEPT !.node = n, !.depth = w.depth + 1,
              !.at = IF w.depth + 1 = Len(w.dev.address) THEN "scan" ELSE "search"]
    BY <1>3 DEF Descend, TInv, WritersOK
  <2>2. /\ writer'[t].at = IF w.depth + 1 = Len(w.dev.address) THEN "scan" ELSE "search"
        /\ writer'[t].dev = w.dev
    BY <1>1, <2>1 DEF Walk
  <2> QED BY <2>2 DEF Idle
<1>4. ASSUME NEW j, writer' = [writer EXCEPT ![t] = [w EXCEPT !.at = "erase", !.slot = j]]
      PROVE  writer'[t] # Idle /\ writer'[t].dev = w.dev
  <2>1. writer'[t] = [w EXCEPT !.at = "erase", !.slot = j]
    BY <1>4 DEF TInv, WritersOK
  <2>2. writer'[t].at = "erase" /\ writer'[t].dev = w.dev
    BY <1>1, <2>1 DEF Walk
  <2> QED BY <2>2 DEF Idle
<1> HIDE DEF w
<1>5. writer'[t] # Idle /\ writer'[t].dev = w.dev
  <2>1. CASE Search(t)
    <3>1. Goto(t, "create") \/ \E n : Descend(t, n)
      BY <2>1 DEF Search
    <3>2. "create" \in Walking
      BY DEF Walking
    <3> QED BY <1>2, <1>3, <3>1, <3>2
  <2>2. CASE Create(t) \/ Erase(t)
    <3>1. Goto(t, "back") \/ Goto(t, "append")
      BY <2>2 DEF Create, Erase
    <3>2. "back" \in Walking /\ "append" \in Walking
      BY DEF Walking
    <3> QED BY <1>2, <3>1, <3>2
  <2>3. CASE Back(t)
    BY <1>3, <2>3 DEF Back
  <2>4. CASE Scan(t)
    <3>1. Goto(t, "append") \/ \E j : writer' = [writer EXCEPT ![t] = [w EXCEPT !.at = "erase", !.slot = j]]
      BY <2>4, ScanFinds DEF w
    <3>2. "append" \in Walking
      BY DEF Walking
    <3> QED BY <1>2, <1>4, <3>1, <3>2
  <2> QED BY <2>1, <2>2, <2>3, <2>4
<1>6. inserted' = inserted
  BY DEF Search, Create, Back, Scan, Erase
<1> QED BY <1>1, <1>5, <1>6 DEF w

(* A step of insert() brings no device but its own, and only in its end; it *)
(* begins with a stamp that no device had.                                  *)
LEMMA InsertBrings ==
  ASSUME TInv, NEW t \in Writer, Insert(t)
  PROVE  /\ reader' = reader /\ Grown
         /\ \A m \in DOMAIN tree' : \A d \in DevicesAt(m)' :
              \/ m \in DOMAIN tree /\ d \in DevicesAt(m)
              \/ writer[t] # Idle /\ d = writer[t].dev /\ writer'[t] = Idle
         /\ \A u \in Writer : u # t => writer'[u] = writer[u]
         /\ \/ inserted' = inserted /\ writer'[t] = Idle
            \/ /\ inserted' = inserted /\ writer[t] # Idle /\ writer'[t] # Idle
               /\ writer'[t].dev = writer[t].dev
            \/ /\ inserted' = inserted + 1 /\ writer[t] = Idle /\ writer'[t].dev.stamp = inserted'
<1>1. reader' = reader
  BY DEF Insert, Begin, Search, Create, Back, Scan, Erase, AppendDevice
<1>2. \A u \in Writer : u # t => writer'[u] = writer[u]
  BY DEF Insert, Begin, Search, Create, Back, Scan, Erase, AppendDevice, Goto, Descend,
         TInv, WritersOK
<1>3. CASE Begin(t)
  <2>1. UNCHANGED tree /\ Grown
    BY <1>3, TreeStays DEF Begin, TInv
  <2>2. \A m \in DOMAIN tree' : \A d \in DevicesAt(m)' : m \in DOMAIN tree /\ d \in DevicesAt(m)
    BY <2>1 DEF DevicesAt
  <2>3. inserted' = inserted + 1 /\ writer[t] = Idle /\ writer'[t].dev.stamp = inserted'
    BY <1>3 DEF Begin, TInv, WritersOK
  <2> QED BY <1>1, <1>2, <2>1, <2>2, <2>3
<1>4. CASE Search(t) \/ Back(t) \/ Scan(t)
  <2>1. UNCHANGED tree /\ Grown
    BY <1>4, TreeStays DEF Search, Back, Scan, TInv
  <2>2. \A m \in DOMAIN tree' : \A d \in DevicesAt(m)' : m \in DOMAIN tree /\ d \in DevicesAt(m)
    BY <2>1 DEF DevicesAt
  <2> QED BY <1>1, <1>2, <1>4, <2>1, <2>2, KeepsDevice
<1>5. CASE Create(t)
  <2>1. /\ Grown
        /\ DOMAIN tree' = DOMAIN tree \cup {Len(tree) + 1}
        /\ tree'[Len(tree) + 1] = Node(writer[t].node, NextId(t))
        /\ \A m \in DOMAIN tree : tree'[m] = tree[m]
    BY <1>5, CreateAdds
  <2>2. \A m : m = Len(tree) + 1 => Range(tree'[m].devices) = {}
    <3>1. tree'[Len(tree) + 1].devices = <<>>
      BY <2>1 DEF Node
    <3>2. Range(<<>>) = {}
      BY DEF Range
    <3> QED BY <3>1, <3>2
  <2>3. \A m \in DOMAIN tree' : \A d \in DevicesAt(m)' : m \in DOMAIN tree /\ d \in DevicesAt(m)
    BY <2>1, <2>2 DEF DevicesAt
  <2> QED BY <1>1, <1>2, <1>5, <2>1, <2>3, KeepsDevice
<1>6. CASE Erase(t)
  <2>1. /\ Grown /\ DOMAIN tree' = DOMAIN tree
        /\ \A m \in DOMAIN tree : DevicesAt(m)' \subseteq DevicesAt(m)
    BY <1>6, EraseTakes
  <2> QED BY <1>1, <1>2, <1>6, <2>1, KeepsDevice
<1>7. CASE AppendDevice(t)
  <2>1. /\ Grown /\ DOMAIN tree' = DOMAIN tree /\ writer[t] \in Walk
        /\ \A m \in DOMAIN tree : DevicesAt(m)' =
             IF m = writer[t].node THEN DevicesAt(m) \cup {writer[t].dev} ELSE DevicesAt(m)
    BY <1>7, AppendPuts
  <2>2. inserted' = inserted /\ writer'[t] = Idle
    BY <1>7 DEF AppendDevice, TInv, WritersOK
  <2>3. writer[t] # Idle
    BY <2>1, WalkFields
  <2> QED BY <1>1, <1>2, <2>1, <2>2, <2>3
<1> QED BY <1>3, <1>4, <1>5, <1>6, <1>7 DEF Insert

(* A step of insert() keeps new devices new. *)
LEMMA InsertFresh ==
  ASSUME TInv, Fresh, NEW t \in Writer, Insert(t)
  PROVE  Fresh'
<1>1. /\ reader' = reader
      /\ \A m \in DOMAIN tree' : \A d \in DevicesAt(m)' :
              \/ m \in DOMAIN tree /\ d \in DevicesAt(m)
              \/ writer[t] # Idle /\ d = writer[t].dev /\ writer'[t] = Idle
      /\ \A u \in Writer : u # t => writer'[u] = writer[u]
      /\ \/ inserted' = inserted /\ writer'[t] = Idle
         \/ /\ inserted' = inserted /\ writer[t] # Idle /\ writer'[t] # Idle
            /\ writer'[t].dev = writer[t].dev
         \/ /\ inserted' = inserted + 1 /\ writer[t] = Idle /\ writer'[t].dev.stamp = inserted'
  BY InsertBrings
<1>2. \A d \in Past' : \/ d \in Past
                       \/ writer[t] # Idle /\ d = writer[t].dev /\ writer'[t] = Idle
  <2>1. \A d \in Devices' : \E m \in DOMAIN tree' : d \in DevicesAt(m)'
    BY DEF Devices
  <2>2. \A m \in DOMAIN tree : \A d \in DevicesAt(m) : d \in Devices
    BY DEF Devices
  <2> QED BY <1>1, <2>1, <2>2 DEF Past
<1>3. /\ inserted \in Nat /\ \A d \in Past : d.stamp \in Nat
      /\ \A u \in Writer : writer[u] # Idle => writer[u].dev.stamp \in Nat
  <2>1. \A d \in Device : d.stamp \in Nat
    BY BoundAssumption DEF Device
  <2>2. Past \subseteq Device
    BY DevicesType DEF TInv, Past, ReaderOK, Seeking
  <2>3. \A u \in Writer : writer[u] # Idle => writer[u].dev \in Device
    BY WalkFields DEF TInv, WritersOK
  <2> QED BY <2>1, <2>2, <2>3 DEF TInv, CountsOK
<1>4. \A d \in Past' : d.stamp <= inserted'
  BY <1>1, <1>2, <1>3 DEF Fresh
<1>5. ASSUME NEW u \in Writer, writer'[u] # Idle
      PROVE  /\ writer'[u].dev.stamp <= inserted'
             /\ writer'[u].dev \notin Past'
             /\ \A v \in Writer : v # u /\ writer'[v] # Idle => writer'[v].dev # writer'[u].dev
  <2>1. CASE inserted' = inserted /\ writer'[t] = Idle
    BY <1>1, <1>2, <1>5, <2>1 DEF Fresh
  <2>2. CASE /\ inserted' = inserted /\ writer[t] # Idle /\ writer'[t] # Idle
             /\ writer'[t].dev = writer[t].dev
    <3>1. \A v \in Writer : writer'[v] # Idle => writer[v] # Idle /\ writer'[v].dev = writer[v].dev
      BY <1>1, <2>2
    <3>2. \A d \in Past' : d \in Past
      BY <1>2, <2>2
    <3> QED BY <1>5, <2>2, <3>1, <3>2 DEF Fresh
  <2>3. CASE /\ inserted' = inserted + 1 /\ writer[t] = Idle /\ writer'[t].dev.stamp = inserted'
    <3>1. \A d \in Past' : d \in Past /\ d.stamp < inserted'
      BY <1>2, <1>3, <2>3 DEF Fresh
    <3>2. \A v \in Writer : v # t /\ writer'[v] # Idle => /\ writer[v] # Idle /\ writer'[v].dev = writer[v].dev
                                                         /\ writer'[v].dev.stamp < inserted'
      BY <1>1, <1>3, <2>3 DEF Fresh
    <3>3. CASE u = t
      BY <1>3, <2>3, <3>1, <3>2, <3>3
    <3>4. CASE u # t
      <4>1. writer'[u].dev # writer'[t].dev
        BY <1>3, <1>5, <2>3, <3>2, <3>4
      <4>2. \A v \in Writer : v # u /\ v # t /\ writer'[v] # Idle => writer'[v].dev # writer'[u].dev
        BY <1>5, <3>2, <3>4 DEF Fresh
      <4>3. writer'[u].dev \notin Past' /\ writer'[u].dev.stamp <= inserted'
        BY <1>3, <1>5, <2>3, <3>1, <3>2, <3>4 DEF Fresh
      <4> QED BY <4>1, <4>2, <4>3
    <3> QED BY <3>3, <3>4
  <2> QED BY <1>1, <2>1, <2>2, <2>3
<1> QED BY <1>4, <1>5 DEF Fresh

(* A step of a search changes nothing of the devices. *)
LEMMA SearchFresh ==
  ASSUME TInv, Fresh, Look \/ Visit \/ Return
  PROVE  Fresh' /\ Devices' = Devices
<1>1. UNCHANGED <<tree, writer, inserted>>
  BY DEF Look, Visit, Return
<1>2. Devices' = Devices
  BY <1>1 DEF Devices, DevicesAt
<1>3. Past' \subseteq Past
  <2>1. CASE Look
    <3>1. PICK k \in Key :
             reader' = [at |-> "visit", key |-> k, visited |-> {}, due |-> DOMAIN tree,
                        found |-> FALSE, held |-> OfKey(k)]
      BY <2>1 DEF Look
    <3>2. reader'.held \subseteq Devices
      BY <3>1 DEF OfKey
    <3> QED BY <1>2, <3>2 DEF Past
  <2>2. CASE Visit
    <3>1. reader.at = "visit" /\ \E n : reader' = [reader EXCEPT
                   !.visited = @ \cup {n},
                   !.found = @ \/ \E d \in DevicesAt(n) : KeyOf(d) = reader.key]
      BY <2>2 DEF Visit
    <3>2. reader # Idle /\ reader \in Seeking
      BY <3>1 DEF Idle, TInv, ReaderOK
    <3>3. reader'.held = reader.held
      BY <3>1, <3>2 DEF Seeking
    <3> QED BY <1>2, <3>2, <3>3 DEF Past
  <2>3. CASE Return
    BY <1>2, <2>3 DEF Past, Return
  <2> QED BY <2>1, <2>2, <2>3
<1> QED BY <1>1, <1>2, <1>3 DEF Fresh

(* A step of insert() does not bring back a device the search looks for. *)
LEMMA InsertHeld ==
  ASSUME TInv, Fresh, HeldOK, NEW t \in Writer, Insert(t)
  PROVE  HeldOK'
<1>1. /\ reader' = reader
      /\ \A m \in DOMAIN tree' : \A d \in DevicesAt(m)' :
              \/ m \in DOMAIN tree /\ d \in DevicesAt(m)
              \/ writer[t] # Idle /\ d = writer[t].dev /\ writer'[t] = Idle
  BY InsertBrings
<1>2. reader # Idle /\ writer[t] # Idle => writer[t].dev \notin reader.held
  BY DEF Fresh, Past
<1> QED BY <1>1, <1>2 DEF HeldOK

(* A search copies the devices of a node when it visits it. *)
LEMMA SearchHeld ==
  ASSUME TInv, HeldOK, Look \/ Visit \/ Return
  PROVE  HeldOK'
<1>1. UNCHANGED <<tree, writer, inserted>>
  BY DEF Look, Visit, Return
<1>2. \A n : DevicesAt(n)' = DevicesAt(n)
  BY <1>1 DEF DevicesAt
<1>3. CASE Look
  <2>1. PICK k \in Key :
           reader' = [at |-> "visit", key |-> k, visited |-> {}, due |-> DOMAIN tree,
                      found |-> FALSE, held |-> OfKey(k)]
    BY <1>3 DEF Look
  <2>2. reader'.due = DOMAIN tree /\ reader'.held = OfKey(k) /\ reader'.key = k /\ reader'.visited = {}
    BY <2>1
  <2> QED BY <1>1, <2>2 DEF HeldOK, OfKey
<1>4. CASE Visit
  <2>1. PICK n \in DOMAIN tree : reader' = [reader EXCEPT
                   !.visited = @ \cup {n},
                   !.found = @ \/ \E d \in DevicesAt(n) : KeyOf(d) = reader.key]
    BY <1>4 DEF Visit
  <2>2. reader # Idle /\ reader \in Seeking
    <3>1. reader.at = "visit"
      BY <1>4 DEF Visit
    <3>2. reader # Idle
      BY <3>1 DEF Idle
    <3> QED BY <3>2 DEF TInv, ReaderOK
  <2>3. /\ reader'.held = reader.held /\ reader'.due = reader.due /\ reader'.key = reader.key
        /\ reader'.visited = reader.visited \cup {n}
        /\ reader'.found = (reader.found \/ \E d \in DevicesAt(n) : KeyOf(d) = reader.key)
    BY <2>1, <2>2 DEF Seeking
  <2>4. ASSUME NEW d \in reader.held, NEW m \in DOMAIN tree, d \in DevicesAt(m)
        PROVE  m \in reader'.due /\ KeyOf(d) = reader'.key /\ (m \in reader'.visited => reader'.found)
    BY <2>2, <2>3, <2>4 DEF HeldOK
  <2> QED BY <1>1, <1>2, <2>3, <2>4 DEF HeldOK
<1>5. CASE Return
  BY <1>5 DEF Return, HeldOK
<1> QED BY <1>3, <1>4, <1>5

(* A search that finds nothing leaves out no device that was in the         *)
(* repository from its beginning to its end, whatever any number of session *)
(* threads inserted and replaced meanwhile (getAllChildren).                *)
THEOREM NothingOverlooked == Spec => []FoundIfKept
<1>1. Init => TInv /\ Fresh /\ HeldOK
  <2>1. Init => Devices = {}
    <3>1. ASSUME Init PROVE \A n \in DOMAIN tree : Range(tree[n].devices) = {}
      <4>1. tree = <<Node(0, 0)>> /\ Node(0, 0).devices = <<>>
        BY <3>1 DEF Init, Node
      <4>2. Range(<<>>) = {}
        BY DEF Range
      <4> QED BY <4>1, <4>2
    <3> QED BY <3>1 DEF Devices, DevicesAt
  <2> QED BY <2>1, InitTypes DEF Init, Fresh, HeldOK, Past
<1>2. TInv /\ Fresh /\ HeldOK /\ [Next]_vars => (TInv /\ Fresh /\ HeldOK)'
  <2> SUFFICES ASSUME TInv, Fresh, HeldOK, [Next]_vars
               PROVE  (TInv /\ Fresh /\ HeldOK)'
    OBVIOUS
  <2>1. TInv'
    BY NextTypes
  <2>2. CASE UNCHANGED vars
    <3>1. Devices' = Devices /\ \A n : DevicesAt(n)' = DevicesAt(n)
      BY <2>2 DEF vars, Devices, DevicesAt
    <3> QED BY <2>1, <2>2, <3>1 DEF vars, Fresh, HeldOK, Past
  <2>3. CASE Next
    BY <2>1, <2>3, InsertFresh, InsertHeld, SearchFresh, SearchHeld DEF Next
  <2> QED BY <2>2, <2>3
<1>3. TInv /\ HeldOK => FoundIfKept
  <2> SUFFICES ASSUME TInv, HeldOK, Visited, ~reader.found
               PROVE  reader.held \cap Devices = {}
    BY DEF FoundIfKept
  <2>1. reader # Idle /\ reader.due \subseteq reader.visited
    BY DEF Visited, Idle
  <2>2. \A d \in reader.held : \A n \in DOMAIN tree : d \notin DevicesAt(n)
    BY <2>1 DEF HeldOK
  <2> QED BY <2>2 DEF Devices
<1> QED BY <1>1, <1>2, <1>3, PTL DEF Spec

-----------------------------------------------------------------------------
(* Any number of threads that insert, until two of them cross. *)

(* The places of the nodes: a recursive definition has a value when some    *)
(* function is equal to its right-hand side.                                *)
PlacesExist ==
  \E f : f = [n \in DOMAIN tree |->
                IF n = Root THEN <<>> ELSE Append(f[tree[n].parent], tree[n].depth_id)]

(* No two nodes are at the same place. *)
PlacesDiffer ==
  /\ \A n \in DOMAIN tree : place[n] \in Seq(Nat)
  /\ \A m \in DOMAIN tree : \A n \in DOMAIN tree : place[m] = place[n] => m = n

(* Where a thread in insert() stands, and what it has found there.          *)
FoundOK(t) ==
  LET w == writer[t]
  IN writer[t] # Idle =>
       /\ place[w.node] = SubSeq(w.dev.address, 1, w.depth)
       /\ w.at = "create" => \A k \in Children(w.node) : tree[k].depth_id # NextId(t)
       /\ w.at = "back" => \E k \in Children(w.node) :
                             tree[k].depth_id = NextId(t) /\ \A j \in Children(w.node) : j <= k
       /\ w.at = "erase" => /\ w.slot \in DOMAIN tree[w.node].devices
                            /\ KeyOf(tree[w.node].devices[w.slot]) = KeyOf(w.dev)
       /\ w.at = "append" => \A d \in DevicesAt(w.node) : KeyOf(d) # KeyOf(w.dev)

(* At a node there are no two devices of the same key. *)
NoDuplicate(s) == \A i \in DOMAIN s : \A j \in DOMAIN s : KeyOf(s[i]) = KeyOf(s[j]) => i = j
NodesOK == \A n \in DOMAIN tree : NoDuplicate(tree[n].devices)

OInv == /\ PlacesExist /\ PlacesDiffer /\ InPlace /\ NodesOK
        /\ \A t \in Writer : FoundOK(t)

(* What the definition of place says of each node. *)
LEMMA PlaceIs ==
  ASSUME TreeOK, PlacesExist
  PROVE  /\ Root \in DOMAIN tree /\ place[Root] = <<>>
         /\ \A n \in DOMAIN tree : n # Root =>
              /\ tree[n].parent \in DOMAIN tree /\ tree[n].parent < n
              /\ place[n] = Append(place[tree[n].parent], tree[n].depth_id)
<1>1. place = [n \in DOMAIN tree |->
                IF n = Root THEN <<>> ELSE Append(place[tree[n].parent], tree[n].depth_id)]
  BY DEF place, PlacesExist
<1>2. Len(tree) \in Nat \ {0} /\ DOMAIN tree = 1..Len(tree)
  BY EmptySeq, LenProperties DEF TreeOK
<1>3. \A n \in DOMAIN tree : n # Root => tree[n].parent \in DOMAIN tree /\ tree[n].parent < n
  <2> TAKE n \in DOMAIN tree
  <2>1. tree[n].parent \in 0..n-1 /\ (tree[n].parent = 0 <=> n = Root)
    BY DEF TreeOK
  <2> QED BY <1>2, <2>1
<1>4. Root \in DOMAIN tree
  BY <1>2 DEF Root
<1> HIDE DEF place
<1> QED BY <1>1, <1>3, <1>4

(* The same after a step. *)
LEMMA PlaceThen ==
  (TreeOK /\ PlacesExist =>
     /\ place[1] = <<>>
     /\ \A n \in DOMAIN tree : n # 1 =>
          place[n] = Append(place[tree[n].parent], tree[n].depth_id))'
<1>1. TreeOK /\ PlacesExist =>
        /\ place[1] = <<>>
        /\ \A n \in DOMAIN tree : n # 1 =>
             place[n] = Append(place[tree[n].parent], tree[n].depth_id)
  BY PlaceIs DEF Root
<1> QED BY <1>1, PTL

(* A tree that grows has places: new nodes have a parent that was there.    *)
LEMMA PlacesGrow ==
  ASSUME TreeOK, PlacesExist, Grown,
         \A n \in DOMAIN tree' : n \notin DOMAIN tree => tree'[n].parent \in DOMAIN tree
  PROVE  PlacesExist'
<1>1. PICK f : f = [n \in DOMAIN tree |->
                IF n = Root THEN <<>> ELSE Append(f[tree[n].parent], tree[n].depth_id)]
  BY DEF PlacesExist
<1> DEFINE g == [n \in DOMAIN tree' |->
                   IF n \in DOMAIN tree THEN f[n]
                   ELSE Append(f[tree'[n].parent], tree'[n].depth_id)]
<1>2. Root \in DOMAIN tree /\ \A n \in DOMAIN tree : n # Root => tree[n].parent \in DOMAIN tree
  BY PlaceIs
<1>3. \A n \in DOMAIN tree : g[n] = f[n]
  BY DEF Grown
<1>4. ASSUME NEW n \in DOMAIN tree'
      PROVE  g[n] = IF n = Root THEN <<>> ELSE Append(g[tree'[n].parent], tree'[n].depth_id)
  <2>1. CASE n \in DOMAIN tree
    <3>1. f[n] = IF n = Root THEN <<>> ELSE Append(f[tree[n].parent], tree[n].depth_id)
      BY <1>1, <2>1
    <3>2. n # Root => g[tree'[n].parent] = f[tree[n].parent] /\ tree'[n].depth_id = tree[n].depth_id
      BY <1>2, <1>3, <2>1 DEF Grown
    <3>3. g[n] = f[n]
      BY <1>3, <2>1
    <3> HIDE DEF g
    <3> QED BY <3>1, <3>2, <3>3
  <2>2. CASE n \notin DOMAIN tree
    <3>1. n # Root /\ g[tree'[n].parent] = f[tree'[n].parent]
      BY <1>2, <1>3, <2>2
    <3>2. g[n] = Append(f[tree'[n].parent], tree'[n].depth_id)
      BY <2>2
    <3> HIDE DEF g
    <3> QED BY <3>1, <3>2
  <2> QED BY <2>1, <2>2
<1>5. g = [n \in DOMAIN tree' |->
             IF n = Root THEN <<>> ELSE Append(g[tree'[n].parent], tree'[n].depth_id)]
  <2>1. g = [n \in DOMAIN tree' |-> g[n]]
    OBVIOUS
  <2> HIDE DEF g
  <2> QED BY <1>4, <2>1
<1> HIDE DEF g
<1> QED BY <1>5 DEF PlacesExist

(* No node moves. *)
LEMMA PlacesStay ==
  ASSUME TreeOK, PlacesExist, TreeOK', PlacesExist', Grown
  PROVE  \A n \in DOMAIN tree : place'[n] = place[n]
<1> DEFINE Moved == {n \in DOMAIN tree : place'[n] # place[n]}
<1>1. /\ Root \in DOMAIN tree /\ place[Root] = <<>>
      /\ \A n \in DOMAIN tree : n # Root =>
           /\ tree[n].parent \in DOMAIN tree /\ tree[n].parent < n
           /\ place[n] = Append(place[tree[n].parent], tree[n].depth_id)
  BY PlaceIs
<1>2. /\ place'[Root] = <<>>
      /\ \A n \in DOMAIN tree' : n # Root =>
           place'[n] = Append(place'[tree'[n].parent], tree'[n].depth_id)
  BY PlaceThen DEF Root
<1> HIDE DEF place
<1>3. Moved \subseteq Nat
  BY LenProperties DEF TreeOK
<1>4. CASE Moved = {}
  BY <1>4
<1>5. CASE Moved # {}
  <2>1. PICK n \in Moved : \A m \in Moved : n <= m
    BY <1>3, <1>5, LeastExists
  <2>2. n # Root /\ n \in DOMAIN tree /\ n \in DOMAIN tree' /\ place'[n] # place[n]
    BY <1>1, <1>2, <2>1 DEF Grown
  <2>3. tree[n].parent \in DOMAIN tree /\ tree[n].parent < n
    BY <1>1, <2>2
  <2>4. tree[n].parent \notin Moved
    BY <1>3, <2>1, <2>3
  <2>5. place'[tree'[n].parent] = place[tree[n].parent]
    BY <2>2, <2>3, <2>4 DEF Grown
  <2>6. place'[n] = place[n]
    <3>1. place[n] = Append(place[tree[n].parent], tree[n].depth_id)
      BY <1>1, <2>2
    <3>2. place'[n] = Append(place'[tree'[n].parent], tree'[n].depth_id)
      BY <1>2, <2>2
    <3>3. tree'[n].depth_id = tree[n].depth_id
      BY <2>2 DEF Grown
    <3> QED BY <3>1, <3>2, <3>3, <2>5
  <2> QED BY <2>2, <2>6
<1> QED BY <1>4, <1>5

(* A tree whose nodes are the same has its places. *)
LEMMA PlacesKept ==
  ASSUME TreeOK, PlacesExist, PlacesDiffer, TreeOK', Grown, DOMAIN tree' = DOMAIN tree
  PROVE  PlacesExist' /\ PlacesDiffer' /\ \A n \in DOMAIN tree : place'[n] = place[n]
<1>1. PlacesExist' /\ \A n \in DOMAIN tree : place'[n] = place[n]
  BY PlacesGrow, PlacesStay
<1> HIDE DEF place
<1>2. PlacesDiffer'
  BY <1>1 DEF PlacesDiffer
<1> QED BY <1>1, <1>2

(* What a thread has found at its node stays as it is, when the step of     *)
(* another changes nothing there that matters to it.                        *)
LEMMA StillFound ==
  ASSUME TInv, OInv, NEW u \in Writer, writer'[u] = writer[u],
         \A n \in DOMAIN tree : place'[n] = place[n],
         writer[u].at \in {"create", "back"} =>
           \A k \in Children(writer[u].node)' :
             IF k \in Children(writer[u].node) THEN tree'[k].depth_id = tree[k].depth_id
             ELSE writer[u].at = "create" /\ tree'[k].depth_id # NextId(u),
         writer[u].at = "back" => Children(writer[u].node) \subseteq Children(writer[u].node)',
         writer[u].at = "erase" =>
           /\ writer[u].slot \in DOMAIN tree'[writer[u].node].devices
           /\ tree'[writer[u].node].devices[writer[u].slot]
                = tree[writer[u].node].devices[writer[u].slot],
         writer[u].at = "append" =>
           \A d \in DevicesAt(writer[u].node)' :
             d \in DevicesAt(writer[u].node) \/ KeyOf(d) # KeyOf(writer[u].dev)
  PROVE  FoundOK(u)'
<1> DEFINE w == writer[u]
<1>1. CASE writer[u] = Idle
  BY <1>1 DEF FoundOK
<1>2. CASE writer[u] # Idle
  <2>1. FoundOK(u) /\ w.node \in DOMAIN tree
    BY <1>2 DEF TInv, OInv, WritersOK, StandsOK
  <2> HIDE DEF place
  <2>2. place'[w.node] = SubSeq(w.dev.address, 1, w.depth)
    BY <1>2, <2>1 DEF FoundOK
  <2>3. w.at = "create" => \A k \in Children(w.node)' : tree'[k].depth_id # NextId(u)
    BY <1>2, <2>1 DEF FoundOK
  <2>4. w.at = "back" => \E k \in Children(w.node)' :
          tree'[k].depth_id = NextId(u) /\ \A j \in Children(w.node)' : j <= k
    BY <1>2, <2>1 DEF FoundOK
  <2>5. w.at = "erase" => /\ w.slot \in DOMAIN tree'[w.node].devices
                          /\ KeyOf(tree'[w.node].devices[w.slot]) = KeyOf(w.dev)
    BY <1>2, <2>1 DEF FoundOK
  <2>6. w.at = "append" => \A d \in DevicesAt(w.node)' : KeyOf(d) # KeyOf(w.dev)
    BY <1>2, <2>1 DEF FoundOK
  <2>7. NextId(u)' = NextId(u)
    BY DEF NextId
  <2> QED BY <2>2, <2>3, <2>4, <2>5, <2>6, <2>7 DEF FoundOK, Children, DevicesAt
<1> QED BY <1>1, <1>2

(* A step of insert() leaves the other threads where they are. *)
LEMMA OthersWait ==
  ASSUME TInv, NEW t \in Writer,
         Begin(t) \/ Search(t) \/ Create(t) \/ Back(t) \/ Scan(t) \/ Erase(t) \/ AppendDevice(t)
  PROVE  \A u \in Writer \ {t} : writer'[u] = writer[u]
BY DEF Begin, Search, Create, Back, Scan, Erase, AppendDevice, Goto, Descend, TInv, WritersOK

(* So does a tree that a step leaves alone, with its devices. *)
LEMMA TreeUntouched ==
  ASSUME TInv, OInv, UNCHANGED tree
  PROVE  /\ PlacesExist' /\ PlacesDiffer' /\ InPlace' /\ NodesOK'
         /\ \A n \in DOMAIN tree : place'[n] = place[n]
         /\ \A n : DevicesAt(n)' = DevicesAt(n) /\ Children(n)' = Children(n)
         /\ \A u \in Writer : writer'[u] = writer[u] => FoundOK(u)'
<1>1. TreeOK' /\ Grown
  BY TreeStays DEF TInv
<1>2. PlacesExist' /\ PlacesDiffer' /\ \A n \in DOMAIN tree : place'[n] = place[n]
  BY <1>1, PlacesKept DEF TInv, OInv
<1>3. \A n : DevicesAt(n)' = DevicesAt(n) /\ Children(n)' = Children(n)
  BY DEF DevicesAt, Children
<1> HIDE DEF place
<1>4. InPlace' /\ NodesOK'
  BY <1>2, <1>3 DEF InPlace, NodesOK, OInv
<1>5. ASSUME NEW u \in Writer, writer'[u] = writer[u] PROVE FoundOK(u)'
  <2>1. writer[u].at = "erase" => writer[u].slot \in DOMAIN tree[writer[u].node].devices
    <3>1. writer[u].at = "erase" => writer[u] # Idle
      BY DEF Idle
    <3> QED BY <3>1 DEF OInv, FoundOK
  <2>2. \A n \in DOMAIN tree : place'[n] = place[n]
    BY <1>2
  <2> QED BY <1>3, <1>5, <2>1, <2>2, StillFound
<1> QED BY <1>2, <1>3, <1>4, <1>5

(* The beginning of an address, one level further. *)
LEMMA PrefixStep ==
  ASSUME NEW a \in Address, NEW k \in Nat, k < Len(a)
  PROVE  SubSeq(a, 1, k + 1) = Append(SubSeq(a, 1, k), a[k+1])
<1>1. /\ a \in Seq(Nat) /\ Len(a) \in Nat /\ 1 \in 1..Len(a) /\ k + 1 \in 1..Len(a)
      /\ a[k+1] \in Nat
  BY AddressIds
<1>2. SubSeq(a, 1, k) \in Seq(Nat)
  <2>1. \A i \in 1..k : a[i] \in Nat
    BY <1>1, ElementOfSeq
  <2> QED BY <2>1, SubSeqProperties
<1>3. SubSeq(a, 1, k+1) = SubSeq(a, 1, (k+1)-1) \o <<a[k+1]>>
  BY <1>1, SubSeqRecursiveSecond
<1>4. (k+1)-1 = k
  OBVIOUS
<1> QED BY <1>1, <1>2, <1>3, <1>4, AppendIsConcat

(* insertNode goes on to a child with the next ID: it is at the place of    *)
(* the next part of the address.                                            *)
LEMMA DescendPlace ==
  ASSUME TInv, PlacesExist, NEW t \in Writer, writer[t].at \in {"search", "back"},
         place[writer[t].node] = SubSeq(writer[t].dev.address, 1, writer[t].depth),
         NEW n \in DOMAIN tree, tree[n].parent = writer[t].node,
         tree[n].depth_id = NextId(t)
  PROVE  place[n] = SubSeq(writer[t].dev.address, 1, writer[t].depth + 1)
<1> DEFINE w == writer[t]
<1>1. w \in Walk /\ StandsOK(t) /\ w # Idle
  BY InInsert DEF TInv
<1>2. w.dev.address \in Address /\ w.depth \in Nat /\ w.node \in DOMAIN tree
  BY <1>1, WalkFields DEF StandsOK
<1>3. w.depth < Len(w.dev.address)
  BY <1>1 DEF StandsOK
<1>4. SubSeq(w.dev.address, 1, w.depth + 1) = Append(SubSeq(w.dev.address, 1, w.depth), NextId(t))
  BY <1>2, <1>3, PrefixStep DEF NextId
<1>5. n # Root
  <2>1. tree[Root].parent = 0 /\ 0 \notin DOMAIN tree
    BY PlaceIs, LenProperties DEF TInv, TreeOK
  <2> QED BY <1>2, <2>1
<1>6. place[n] = Append(place[w.node], NextId(t))
  BY <1>5, PlaceIs DEF TInv
<1> HIDE DEF place
<1> QED BY <1>4, <1>6

(* The whole of an address. *)
LEMMA AtThePlace ==
  ASSUME TInv, OInv, NEW t \in Writer, writer[t].at \in {"scan", "erase", "append"}
  PROVE  place[writer[t].node] = writer[t].dev.address
<1> DEFINE w == writer[t]
<1>1. w \in Walk /\ StandsOK(t) /\ w # Idle
  BY InInsert DEF TInv
<1>2. w.dev.address \in Address /\ w.depth = Len(w.dev.address)
  BY <1>1, WalkFields DEF StandsOK
<1>3. SubSeq(w.dev.address, 1, w.depth) = w.dev.address
  BY <1>2, AddressIds, SubSeqFull
<1> HIDE DEF place
<1>4. place[w.node] = SubSeq(w.dev.address, 1, w.depth)
  BY <1>1 DEF OInv, FoundOK
<1> QED BY <1>3, <1>4

(* insert() begins at the root, whose place is the beginning of each        *)
(* address.                                                                 *)
LEMMA BeginPlace ==
  ASSUME TInv, OInv, NEW t \in Writer, Begin(t)
  PROVE  OInv'
<1>1. UNCHANGED tree
  BY DEF Begin
<1>2. PICK a \in Address : \E i \in DeviceId :
        writer'[t] = [at |-> "search", node |-> Root, depth |-> 0, slot |-> 0,
                      dev |-> [address |-> a, id |-> i, stamp |-> inserted']]
  BY DEF Begin, TInv, WritersOK
<1>3. /\ writer'[t].at = "search" /\ writer'[t].node = Root /\ writer'[t].depth = 0
      /\ writer'[t].dev.address = a /\ writer'[t].dev.stamp = inserted'
  BY <1>2
<1>4. /\ PlacesExist' /\ PlacesDiffer' /\ InPlace' /\ NodesOK'
      /\ \A n \in DOMAIN tree : place'[n] = place[n]
      /\ \A u \in Writer \ {t} : FoundOK(u)'
  BY <1>1, TreeUntouched, OthersWait
<1>5. place[Root] = <<>> /\ Root \in DOMAIN tree
  BY PlaceIs DEF TInv, OInv
<1>6. SubSeq(a, 1, 0) = <<>>
  BY SubSeqEmpty
<1> HIDE DEF place
<1>7. FoundOK(t)'
  BY <1>3, <1>4, <1>5, <1>6 DEF FoundOK
<1> QED BY <1>4, <1>7 DEF OInv

(* Where a step down leads. *)
LEMMA DescendFound ==
  ASSUME TInv, OInv, NEW t \in Writer, writer[t].at \in {"search", "back"},
         NEW n \in DOMAIN tree, tree[n].parent = writer[t].node,
         tree[n].depth_id = NextId(t), Descend(t, n), UNCHANGED <<tree, inserted>>
  PROVE  OInv'
<1>1. /\ writer'[t].node = n /\ writer'[t].depth = writer[t].depth + 1
      /\ writer'[t].dev = writer[t].dev
      /\ writer'[t].at \in {"scan", "search"}
  BY DescendStands
<1>2. writer[t] # Idle /\ FoundOK(t)
  BY InInsert DEF TInv, OInv
<1>3. place[n] = SubSeq(writer[t].dev.address, 1, writer[t].depth + 1)
  BY <1>2, DescendPlace DEF OInv, FoundOK
<1>4. /\ PlacesExist' /\ PlacesDiffer' /\ InPlace' /\ NodesOK'
      /\ place'[n] = place[n]
      /\ \A u \in Writer \ {t} : FoundOK(u)'
  <2>1. \A u \in Writer \ {t} : writer'[u] = writer[u]
    BY DEF Descend, TInv, WritersOK
  <2> QED BY <2>1, TreeUntouched
<1> HIDE DEF place
<1>5. FoundOK(t)'
  BY <1>1, <1>2, <1>3, <1>4 DEF FoundOK
<1> QED BY <1>4, <1>5 DEF OInv

(* searchNode, and what insertNode knows when it finds no child. *)
LEMMA SearchPlace ==
  ASSUME TInv, OInv, NEW t \in Writer, Search(t)
  PROVE  OInv'
<1> DEFINE n == searchNode(writer[t].node, NextId(t))
<1>1. writer[t].at = "search" /\ UNCHANGED <<tree, inserted>>
  BY DEF Search
<1>2. CASE n = 0
  <2>1. Goto(t, "create") /\ "create" \in Walking
    BY <1>2 DEF Search, Walking
  <2>2. writer[t] \in Walk /\ writer[t] # Idle /\ FoundOK(t) /\ Grown
    BY <1>1, InInsert, TreeStays DEF TInv, OInv
  <2>3. /\ writer'[t].node = writer[t].node /\ writer'[t].depth = writer[t].depth
        /\ writer'[t].dev = writer[t].dev /\ writer'[t].at = "create"
    BY <1>1, <2>1, <2>2, GotoStands
  <2>4. \A k \in Children(writer[t].node) : tree[k].depth_id # NextId(t)
    BY <1>2, FoundChild DEF TInv
  <2>5. /\ PlacesExist' /\ PlacesDiffer' /\ InPlace' /\ NodesOK'
        /\ \A m \in DOMAIN tree : place'[m] = place[m]
        /\ \A m : Children(m)' = Children(m)
        /\ \A u \in Writer \ {t} : FoundOK(u)'
    BY <1>1, TreeUntouched, OthersWait
  <2>6. writer[t].node \in DOMAIN tree
    BY <2>2, InInsert, <1>1 DEF TInv, StandsOK
  <2> HIDE DEF place
  <2>7. FoundOK(t)'
    <3>1. \A k \in DOMAIN tree' : tree'[k].parent = writer'[t].node
            => tree'[k].depth_id # writer'[t].dev.address[writer'[t].depth + 1]
      BY <1>1, <2>3, <2>4 DEF Children, NextId
    <3>2. writer'[t] # Idle => place'[writer'[t].node] = SubSeq(writer'[t].dev.address, 1, writer'[t].depth)
      BY <2>2, <2>3, <2>5, <2>6 DEF FoundOK
    <3> QED BY <2>3, <3>1, <3>2 DEF FoundOK, Children, NextId
  <2> QED BY <2>5, <2>7 DEF OInv
<1>3. CASE n # 0
  <2>1. n \in DOMAIN tree /\ tree[n].parent = writer[t].node /\ tree[n].depth_id = NextId(t)
    BY <1>3, FoundChild DEF TInv, Children
  <2>2. Descend(t, n)
    BY <1>3 DEF Search
  <2> HIDE DEF n
  <2> QED BY <1>1, <2>1, <2>2, DescendFound
<1> QED BY <1>2, <1>3

(* A new child is at a place of its own. *)
LEMMA CreatePlace ==
  ASSUME TInv, OInv, NEW t \in Writer, ~ Crosses(t), Create(t)
  PROVE  OInv'
<1> DEFINE w == writer[t]
           new == Len(tree) + 1
<1>1. /\ w \in Walk /\ w.node \in DOMAIN tree /\ NextId(t) \in Nat
      /\ TreeOK' /\ Grown
      /\ new \notin DOMAIN tree /\ DOMAIN tree' = DOMAIN tree \cup {new}
      /\ tree'[new] = Node(w.node, NextId(t))
      /\ \A m \in DOMAIN tree : tree'[m] = tree[m]
  BY CreateAdds
<1>2. w # Idle /\ FoundOK(t) /\ w.at = "create" /\ inserted' = inserted
  BY InInsert DEF TInv, OInv, Create
<1>3. tree'[new].parent = w.node /\ tree'[new].depth_id = NextId(t) /\ tree'[new].devices = <<>>
  BY <1>1 DEF Node
<1>4. /\ writer'[t].node = w.node /\ writer'[t].depth = w.depth
      /\ writer'[t].dev = w.dev /\ writer'[t].at = "back"
  <2>1. Goto(t, "back") /\ "back" \in Walking
    BY DEF Create, Walking
  <2>2. new \in DOMAIN tree'
    BY <1>1
  <2> QED BY <1>1, <1>2, <1>3, <2>1, <2>2, GotoStands
<1>5. /\ \A j \in DOMAIN tree' : j <= new
      /\ \A n : Children(n)' = Children(n) \cup (IF n = w.node THEN {new} ELSE {})
  <2>1. Len(tree) \in Nat /\ DOMAIN tree = 1..Len(tree)
    BY LenProperties DEF TInv, TreeOK
  <2>2. \A j \in DOMAIN tree' : j <= new
    BY <1>1, <2>1
  <2> QED BY <1>1, <1>3, <2>2 DEF Children
<1> HIDE DEF new
<1>6. PlacesExist' /\ \A n \in DOMAIN tree : place'[n] = place[n]
  <2>1. \A n \in DOMAIN tree' : n \notin DOMAIN tree => tree'[n].parent \in DOMAIN tree
    BY <1>1, <1>3
  <2>2. PlacesExist'
    BY <1>1, <2>1, PlacesGrow DEF TInv, OInv
  <2> QED BY <1>1, <2>2, PlacesStay DEF TInv, OInv
<1>7. place'[new] = Append(place[w.node], NextId(t))
  <2>1. new # 1
    BY <1>1, PlaceIs DEF TInv, OInv, Root
  <2>2. place'[new] = Append(place'[tree'[new].parent], tree'[new].depth_id)
    BY <1>1, <1>6, <2>1, PlaceThen
  <2>3. place'[w.node] = place[w.node]
    BY <1>1, <1>6
  <2> HIDE DEF place
  <2> QED BY <1>3, <2>2, <2>3
<1>8. \A n \in DOMAIN tree : place[n] # place'[new]
  <2> SUFFICES ASSUME NEW n \in DOMAIN tree, place[n] = Append(place[w.node], NextId(t))
               PROVE  FALSE
    BY <1>7
  <2>1. place[w.node] \in Seq(Nat) /\ place[n] \in Seq(Nat)
    BY <1>1 DEF OInv, PlacesDiffer
  <2>2. n # Root
    BY <1>1, <2>1, AppendProperties, PlaceIs DEF TInv, OInv
  <2>3. /\ tree[n].parent \in DOMAIN tree
        /\ place[n] = Append(place[tree[n].parent], tree[n].depth_id)
    BY <2>2, PlaceIs DEF TInv, OInv
  <2>4. place[tree[n].parent] \in Seq(Nat) /\ tree[n].depth_id \in Nat
    BY <2>3, NodeDevices DEF TInv, OInv, PlacesDiffer
  <2> HIDE DEF place
  <2>5. place[tree[n].parent] = place[w.node] /\ tree[n].depth_id = NextId(t)
    <3> DEFINE p == place[tree[n].parent]
               q == place[w.node]
               i == tree[n].depth_id
               j == NextId(t)
    <3>1. p \in Seq(Nat) /\ q \in Seq(Nat) /\ i \in Nat /\ j \in Nat
      BY <1>1, <2>1, <2>4
    <3>2. Append(p, i) = Append(q, j)
      BY <2>3
    <3> HIDE DEF p, q, i, j
    <3>3. p = q /\ i = j
      BY <3>1, <3>2, AppendInjective
    <3> QED BY <3>3 DEF p, q, i, j
  <2>6. tree[n].parent = w.node
    BY <1>1, <2>3, <2>5 DEF OInv, PlacesDiffer
  <2>7. n \in Children(w.node)
    BY <2>6 DEF Children
  <2> QED BY <1>2, <2>5, <2>7 DEF FoundOK
<1> HIDE DEF place
<1>9. PlacesDiffer'
  <2>1. place'[new] \in Seq(Nat)
    BY <1>1, <1>7, AppendProperties DEF OInv, PlacesDiffer
  <2> QED BY <1>1, <1>6, <1>8, <2>1 DEF OInv, PlacesDiffer
<1>10. Range(tree'[new].devices) = {}
  <2>1. Range(<<>>) = {}
    BY DEF Range
  <2> QED BY <1>3, <2>1
<1>11. \A n \in DOMAIN tree' : \A d \in Range(tree'[n].devices) : d.address = place'[n]
  BY <1>1, <1>6, <1>10 DEF OInv, InPlace, DevicesAt
<1>12. \A n \in DOMAIN tree' : NoDuplicate(tree'[n].devices)
  <2>1. NoDuplicate(<<>>)
    BY DEF NoDuplicate
  <2> QED BY <1>1, <1>3, <2>1 DEF OInv, NodesOK
<1>13. FoundOK(t)'
  <2>1. place'[writer'[t].node] = SubSeq(writer'[t].dev.address, 1, writer'[t].depth)
    BY <1>1, <1>2, <1>4, <1>6 DEF FoundOK
  <2>2. /\ new \in DOMAIN tree' /\ tree'[new].parent = w.node
        /\ tree'[new].depth_id = NextId(t) /\ \A j \in DOMAIN tree' : j <= new
    BY <1>1, <1>3, <1>5
  <2>3. NextId(t)' = NextId(t)
    BY <1>4 DEF NextId
  <2> QED BY <1>4, <2>1, <2>2, <2>3 DEF FoundOK, Children
<1>14. ASSUME NEW u \in Writer \ {t} PROVE FoundOK(u)'
  <2>1. writer'[u] = writer[u]
    BY OthersWait
  <2>2. writer[u] # Idle => writer[u].node \in DOMAIN tree
    BY DEF TInv, WritersOK, StandsOK
  <2>3. writer[u].at # "idle" => writer[u] # Idle
    BY DEF Idle
  <2>4. writer[u].at = "create" /\ writer[u].node = w.node => NextId(u) # NextId(t)
    BY <1>2, <2>3 DEF Crosses
  <2>5. writer[u].at = "back" => writer[u].node # w.node
    BY <1>2, <2>3 DEF Crosses
  <2>6. \A n \in DOMAIN tree : tree'[n] = tree[n] /\ DevicesAt(n)' = DevicesAt(n)
    BY <1>1 DEF DevicesAt
  <2>7. writer[u].at = "erase" => writer[u].slot \in DOMAIN tree[writer[u].node].devices
    BY <2>3 DEF OInv, FoundOK
  <2>8. writer[u].at \in {"create", "back"} =>
          \A k \in Children(writer[u].node)' :
            IF k \in Children(writer[u].node) THEN tree'[k].depth_id = tree[k].depth_id
            ELSE writer[u].at = "create" /\ tree'[k].depth_id # NextId(u)
    <3>1. \A n : \A k \in Children(n) : tree'[k].depth_id = tree[k].depth_id
      BY <2>6 DEF Children
    <3>2. Children(writer[u].node)' \subseteq
            Children(writer[u].node) \cup (IF writer[u].node = w.node THEN {new} ELSE {})
      BY <1>5, <2>1 DEF Children
    <3> QED BY <1>3, <2>4, <2>5, <3>1, <3>2
  <2>9. writer[u].at = "back" => Children(writer[u].node) \subseteq Children(writer[u].node)'
    BY <1>5, <2>1 DEF Children
  <2> QED BY <1>6, <2>1, <2>2, <2>3, <2>6, <2>7, <2>8, <2>9, StillFound
<1> QED BY <1>6, <1>9, <1>11, <1>12, <1>13, <1>14 DEF OInv, InPlace, NodesOK, DevicesAt

(* children.back() is the child that was put there. *)
LEMMA BackPlace ==
  ASSUME TInv, OInv, NEW t \in Writer, Back(t)
  PROVE  OInv'
<1> DEFINE n == Max(Children(writer[t].node))
<1>1. writer[t].at = "back" /\ Descend(t, n) /\ UNCHANGED <<tree, inserted>>
  BY DEF Back
<1>2. n \in Children(writer[t].node) /\ \A k \in Children(writer[t].node) : k <= n
  BY <1>1, BackIsNewest
<1>3. PICK k \in Children(writer[t].node) :
        tree[k].depth_id = NextId(t) /\ \A j \in Children(writer[t].node) : j <= k
  BY <1>1, InInsert DEF TInv, OInv, FoundOK
<1> HIDE DEF n
<1>4. n = k
  <2>1. Children(writer[t].node) \subseteq Nat
    BY LenProperties DEF Children, TInv, TreeOK
  <2>2. n \in Nat /\ k \in Nat /\ n <= k /\ k <= n
    BY <1>2, <1>3, <2>1
  <2> QED BY <2>2
<1> QED BY <1>1, <1>2, <1>3, <1>4, DescendFound DEF Children

(* What is left of a vector without one of its slots: what was in the       *)
(* others, in their order.                                                  *)
LEMMA WithoutSlot ==
  ASSUME NEW S, NEW s \in Seq(S), NEW j \in 1..Len(s)
  PROVE  /\ Len(s) \in Nat /\ DOMAIN Without(s, j) = 1..Len(s)-1
         /\ \A i \in 1..Len(s)-1 : Without(s, j)[i] = IF i < j THEN s[i] ELSE s[i+1]
<1>1. Len(s) \in Nat /\ \A i \in 1..Len(s) : s[i] \in S
  BY LenProperties, ElementOfSeq
<1>2. Min({j, Len(s)}) = j
  <2>1. {j, Len(s)} \subseteq Nat /\ j <= Len(s) /\ j \in Nat
    BY <1>1
  <2>2. Min({j, Len(s)}) \in {j, Len(s)} /\ Min({j, Len(s)}) <= j
    BY <2>1, MinLeast
  <2> QED BY <1>1, <2>1, <2>2
<1> DEFINE u == SubSeq(s, 1, j-1)
           v == SubSeq(s, j+1, Len(s))
<1>3. u \in Seq(S) /\ Len(u) = j-1 /\ \A i \in 1..j-1 : u[i] = s[i]
  <2>1. j-1 \in Int /\ \A i \in 1..j-1 : s[i] \in S
    BY <1>1
  <2>2. /\ u \in Seq(S) /\ Len(u) = IF 1 <= j-1 THEN j-1-1+1 ELSE 0
        /\ \A i \in 1..j-1-1+1 : u[i] = s[1+i-1]
    BY <2>1, SubSeqProperties
  <2> HIDE DEF u
  <2>3. Len(u) = j-1
    BY <1>1, <2>2
  <2>4. \A i \in 1..j-1 : i \in 1..j-1-1+1 /\ 1+i-1 = i
    BY <1>1
  <2> QED BY <2>2, <2>3, <2>4
<1>4. v \in Seq(S) /\ Len(v) = Len(s)-j /\ \A i \in 1..Len(s)-j : v[i] = s[j+i]
  <2>1. j+1 \in Int /\ Len(s) \in Int /\ \A i \in j+1..Len(s) : s[i] \in S
    BY <1>1
  <2>2. /\ v \in Seq(S) /\ Len(v) = IF j+1 <= Len(s) THEN Len(s)-(j+1)+1 ELSE 0
        /\ \A i \in 1..Len(s)-(j+1)+1 : v[i] = s[j+1+i-1]
    BY <2>1, SubSeqProperties
  <2> HIDE DEF v
  <2>3. Len(v) = Len(s)-j
    BY <1>1, <2>2
  <2>4. \A i \in 1..Len(s)-j : i \in 1..Len(s)-(j+1)+1 /\ j+1+i-1 = j+i
    BY <1>1
  <2> QED BY <2>2, <2>3, <2>4
<1>5. Without(s, j) = u \o v
  BY <1>2 DEF Without
<1> HIDE DEF u, v
<1>6. /\ u \o v \in Seq(S) /\ Len(u \o v) = Len(u) + Len(v)
      /\ \A i \in 1..Len(u) + Len(v) : (u \o v)[i] = IF i <= Len(u) THEN u[i] ELSE v[i - Len(u)]
  BY <1>3, <1>4, ConcatProperties
<1>7. Len(u) + Len(v) = Len(s)-1 /\ Len(u) = j-1
  BY <1>1, <1>3, <1>4
<1>8. DOMAIN (u \o v) = 1..Len(s)-1
  BY <1>6, <1>7, LenProperties
<1>9. ASSUME NEW i \in 1..Len(s)-1
      PROVE  (u \o v)[i] = IF i < j THEN s[i] ELSE s[i+1]
  <2>1. CASE i < j
    <3>1. i \in 1..j-1 /\ i <= j-1
      BY <1>1, <2>1
    <3> QED BY <1>3, <1>6, <1>7, <2>1, <3>1
  <2>2. CASE ~ (i < j)
    <3>1. i-(j-1) \in 1..Len(s)-j /\ ~ (i <= j-1) /\ j+(i-(j-1)) = i+1
      BY <1>1, <2>2
    <3> QED BY <1>4, <1>6, <1>7, <2>2, <3>1
  <2> QED BY <2>1, <2>2
<1> QED BY <1>1, <1>5, <1>8, <1>9

(* Erasing the slot of a device leaves no device of its key.                *)
LEMMA WithoutDuplicate ==
  ASSUME NEW s \in Seq(Device), NoDuplicate(s), NEW j \in DOMAIN s
  PROVE  /\ NoDuplicate(Without(s, j))
         /\ \A d \in Range(Without(s, j)) : KeyOf(d) # KeyOf(s[j])
         /\ \A d \in Range(s) : KeyOf(d) # KeyOf(s[j]) => d \in Range(Without(s, j))
<1> DEFINE r == Without(s, j)
<1>1. DOMAIN s = 1..Len(s)
  BY LenProperties
<1>2. /\ Len(s) \in Nat /\ DOMAIN r = 1..Len(s)-1
      /\ \A i \in 1..Len(s)-1 : r[i] = IF i < j THEN s[i] ELSE s[i+1]
  BY <1>1, WithoutSlot
<1> HIDE DEF r
<1> DEFINE up(i) == IF i < j THEN i ELSE i+1
<1>3. \A i \in DOMAIN r : up(i) \in DOMAIN s /\ up(i) # j /\ r[i] = s[up(i)]
  BY <1>1, <1>2
<1>4. \A i \in DOMAIN r : \A k \in DOMAIN r : up(i) = up(k) => i = k
  BY <1>1, <1>2
<1>5. \A m \in DOMAIN s : m # j => \E i \in DOMAIN r : up(i) = m
  <2> SUFFICES ASSUME NEW m \in DOMAIN s, m # j
               PROVE  \E i \in DOMAIN r : up(i) = m
    OBVIOUS
  <2>1. CASE m < j
    <3>1. m \in DOMAIN r
      BY <1>1, <1>2, <2>1
    <3> QED BY <2>1, <3>1
  <2>2. CASE ~ (m < j)
    <3>1. m-1 \in DOMAIN r /\ ~ (m-1 < j) /\ m-1+1 = m
      BY <1>1, <1>2, <2>2
    <3> QED BY <3>1
  <2> QED BY <2>1, <2>2
<1> HIDE DEF up
<1>6. NoDuplicate(r)
  BY <1>3, <1>4 DEF NoDuplicate
<1>7. \A d \in Range(r) : KeyOf(d) # KeyOf(s[j])
  BY <1>3 DEF NoDuplicate, Range
<1>8. \A d \in Range(s) : KeyOf(d) # KeyOf(s[j]) => d \in Range(r)
  <2> SUFFICES ASSUME NEW m \in DOMAIN s, KeyOf(s[m]) # KeyOf(s[j])
               PROVE  s[m] \in Range(r)
    BY DEF Range
  <2>1. PICK i \in DOMAIN r : up(i) = m
    BY <1>5
  <2> QED BY <1>3, <2>1 DEF Range
<1> QED BY <1>6, <1>7, <1>8 DEF r

(* What the scan for a duplicate finds. *)
LEMMA ScanPlace ==
  ASSUME TInv, OInv, NEW t \in Writer, Scan(t)
  PROVE  OInv'
<1> DEFINE w == writer[t]
           here == tree[w.node].devices
           same == {j \in DOMAIN here : KeyOf(here[j]) = KeyOf(w.dev)}
<1>1. w.at = "scan" /\ UNCHANGED <<tree, inserted>> /\ Grown
  BY TreeStays DEF Scan, TInv
<1>2. /\ w \in Walk /\ w.node \in DOMAIN tree
      /\ \/ same = {} /\ Goto(t, "append")
         \/ \E j \in same : /\ j \in Nat
                            /\ writer' = [writer EXCEPT ![t] =
                                            [w EXCEPT !.at = "erase", !.slot = j]]
  BY ScanFinds
<1>3. w # Idle /\ FoundOK(t)
  BY <1>1, InInsert DEF TInv, OInv
<1>4. /\ PlacesExist' /\ PlacesDiffer' /\ InPlace' /\ NodesOK'
      /\ place'[w.node] = place[w.node]
      /\ \A u \in Writer \ {t} : FoundOK(u)'
  BY <1>1, <1>2, TreeUntouched, OthersWait
<1> HIDE DEF place, w
<1>5. CASE same = {} /\ Goto(t, "append")
  <2>1. /\ writer'[t].node = w.node /\ writer'[t].depth = w.depth
        /\ writer'[t].dev = w.dev /\ writer'[t].at = "append"
    <3>1. "append" \in Walking
      BY DEF Walking
    <3> QED BY <1>1, <1>2, <1>5, <3>1, GotoStands DEF w
  <2>2. \A d \in Range(tree'[writer'[t].node].devices) : KeyOf(d) # KeyOf(writer'[t].dev)
    BY <1>1, <1>5, <2>1 DEF Range
  <2>3. FoundOK(t)'
    BY <1>1, <1>3, <1>4, <2>1, <2>2 DEF FoundOK, w, DevicesAt
  <2> QED BY <1>4, <2>3 DEF OInv
<1>6. CASE ~ (same = {} /\ Goto(t, "append"))
  <2>1. PICK j \in same : j \in Nat /\ writer' = [writer EXCEPT ![t] =
                                                    [w EXCEPT !.at = "erase", !.slot = j]]
    BY <1>2, <1>6
  <2>2. /\ writer'[t].node = w.node /\ writer'[t].depth = w.depth /\ writer'[t].slot = j
        /\ writer'[t].dev = w.dev /\ writer'[t].at = "erase"
    BY <1>1, <1>2, <2>1, EraseStands DEF w
  <2>3. j \in DOMAIN here /\ KeyOf(here[j]) = KeyOf(w.dev)
    BY <2>1
  <2>4. FoundOK(t)'
    BY <1>1, <1>3, <1>4, <2>2, <2>3 DEF FoundOK, w
  <2> QED BY <1>4, <2>4 DEF OInv
<1> QED BY <1>5, <1>6

(* What erase removes is the duplicate; no other device of its key is left, *)
(* and no device of another key has gone.                                   *)
LEMMA EraseRemoves ==
  ASSUME TInv, OInv, NEW t \in Writer, Erase(t)
  PROVE  LET w == writer[t]
             here == tree[w.node].devices
             left == Without(here, w.slot)
         IN /\ NoDuplicate(left)
            /\ \A d \in Range(left) : KeyOf(d) # KeyOf(w.dev)
            /\ \A d \in Range(here) : KeyOf(d) # KeyOf(w.dev) => d \in Range(left)
<1> DEFINE w == writer[t]
           here == tree[w.node].devices
<1>1. w # Idle /\ w.at = "erase" /\ w.node \in DOMAIN tree
  BY InInsert, EraseTakes DEF Erase, TInv
<1>2. w.slot \in DOMAIN here /\ KeyOf(here[w.slot]) = KeyOf(w.dev)
  BY <1>1 DEF OInv, FoundOK
<1>3. here \in Seq(Device) /\ NoDuplicate(here)
  BY <1>1, NodeDevices DEF TInv, OInv, NodesOK
<1> HIDE DEF here, w
<1>4. /\ NoDuplicate(Without(here, w.slot))
      /\ \A d \in Range(Without(here, w.slot)) : KeyOf(d) # KeyOf(here[w.slot])
      /\ \A d \in Range(here) : KeyOf(d) # KeyOf(here[w.slot]) => d \in Range(Without(here, w.slot))
  BY <1>2, <1>3, WithoutDuplicate
<1> QED BY <1>2, <1>4 DEF here, w

(* The invariant after erase. *)
LEMMA ErasePlace ==
  ASSUME TInv, OInv, NEW t \in Writer, ~ Crosses(t), Erase(t)
  PROVE  OInv'
<1> DEFINE w == writer[t]
           left == Without(tree[w.node].devices, w.slot)
<1>1. /\ w \in Walk /\ w.node \in DOMAIN tree
      /\ TreeOK' /\ Grown /\ DOMAIN tree' = DOMAIN tree
      /\ tree'[w.node].devices = left
      /\ \A m \in DOMAIN tree : DevicesAt(m)' \subseteq DevicesAt(m)
      /\ \A m \in DOMAIN tree : m # w.node => tree'[m] = tree[m]
  BY EraseTakes
<1>2. NoDuplicate(left) /\ \A d \in Range(left) : KeyOf(d) # KeyOf(w.dev)
  BY EraseRemoves
<1>3. PlacesExist' /\ PlacesDiffer' /\ \A n \in DOMAIN tree : place'[n] = place[n]
  BY <1>1, PlacesKept DEF TInv, OInv
<1>4. w # Idle /\ w.at = "erase" /\ FoundOK(t) /\ inserted' = inserted
  BY InInsert DEF TInv, OInv, Erase
<1>5. /\ writer'[t].node = w.node /\ writer'[t].depth = w.depth
      /\ writer'[t].dev = w.dev /\ writer'[t].at = "append"
  <2>1. Goto(t, "append") /\ "append" \in Walking
    BY DEF Erase, Walking
  <2> QED BY <1>1, <1>4, <2>1, GotoStands
<1> HIDE DEF place, w, left
<1>6. InPlace'
  BY <1>1, <1>3 DEF OInv, InPlace
<1>7. NodesOK'
  <2>1. \A m \in DOMAIN tree : m = w.node => NoDuplicate(tree'[m].devices)
    BY <1>1, <1>2
  <2>2. \A m \in DOMAIN tree : m # w.node => NoDuplicate(tree'[m].devices)
    BY <1>1 DEF OInv, NodesOK
  <2> QED BY <1>1, <2>1, <2>2 DEF NodesOK
<1>8. FoundOK(t)'
  <2>1. place'[writer'[t].node] = SubSeq(writer'[t].dev.address, 1, writer'[t].depth)
    BY <1>1, <1>3, <1>4, <1>5 DEF FoundOK, w
  <2>2. \A d \in Range(tree'[writer'[t].node].devices) : KeyOf(d) # KeyOf(writer'[t].dev)
    BY <1>1, <1>2, <1>5
  <2> QED BY <1>5, <2>1, <2>2 DEF FoundOK, DevicesAt
<1>9. ASSUME NEW u \in Writer \ {t} PROVE FoundOK(u)'
  <2>1. writer'[u] = writer[u]
    BY OthersWait
  <2>2. writer[u] # Idle => writer[u].node \in DOMAIN tree
    BY DEF TInv, WritersOK, StandsOK
  <2>3. writer[u].at # "idle" => writer[u] # Idle
    BY DEF Idle
  <2>4. writer[u].at = "erase" => /\ writer[u].slot \in DOMAIN tree[writer[u].node].devices
                                  /\ writer[u].node # w.node
    BY <1>4, <2>3 DEF OInv, FoundOK, Crosses, w
  <2>5. \A n : Children(n)' = Children(n)
    BY <1>1 DEF Children, Grown
  <2>6. writer[u].at \in {"create", "back"} =>
          \A k \in Children(writer[u].node) : tree'[k].depth_id = tree[k].depth_id
    BY <1>1 DEF Children, Grown
  <2> QED BY <1>1, <1>3, <2>1, <2>2, <2>3, <2>4, <2>5, <2>6, StillFound
<1> QED BY <1>3, <1>6, <1>7, <1>8, <1>9 DEF OInv

(* The device comes to its place, where there is no other of its key. *)
LEMMA AppendPlace ==
  ASSUME TInv, OInv, NEW t \in Writer, ~ Crosses(t), AppendDevice(t)
  PROVE  OInv'
<1> DEFINE w == writer[t]
           here == tree[w.node].devices
           more == Append(here, w.dev)
<1>1. /\ w \in Walk /\ w.node \in DOMAIN tree
      /\ TreeOK' /\ Grown /\ DOMAIN tree' = DOMAIN tree
      /\ tree'[w.node].devices = more
      /\ \A m \in DOMAIN tree : DevicesAt(m)' =
           IF m = w.node THEN DevicesAt(m) \cup {w.dev} ELSE DevicesAt(m)
      /\ \A m \in DOMAIN tree : m # w.node => tree'[m] = tree[m]
  BY AppendPuts
<1>2. w # Idle /\ w.at = "append" /\ FoundOK(t)
  BY InInsert DEF TInv, OInv, AppendDevice
<1>3. PlacesExist' /\ PlacesDiffer' /\ \A n \in DOMAIN tree : place'[n] = place[n]
  BY <1>1, PlacesKept DEF TInv, OInv
<1>4. place[w.node] = w.dev.address
  BY <1>2, AtThePlace
<1>5. writer'[t] = Idle
  BY DEF AppendDevice, TInv, WritersOK
<1>6. here \in Seq(Device) /\ w.dev \in Device /\ NoDuplicate(here)
  BY <1>1, NodeDevices, WalkFields DEF TInv, OInv, NodesOK
<1>7. \A i \in DOMAIN here : KeyOf(here[i]) # KeyOf(w.dev)
  <2>1. \A i \in DOMAIN here : here[i] \in DevicesAt(w.node)
    BY DEF DevicesAt, Range
  <2> QED BY <1>2, <2>1 DEF FoundOK
<1> HIDE DEF place, w, here
<1>8. NoDuplicate(more)
  <2>1. /\ Len(here) \in Nat /\ DOMAIN here = 1..Len(here) /\ DOMAIN more = 1..Len(here) + 1
        /\ \A i \in 1..Len(here) : more[i] = here[i]
        /\ more[Len(here) + 1] = w.dev
    BY <1>6, AppendProperties, LenProperties
  <2> HIDE DEF more
  <2>2. \A i \in DOMAIN more : \/ i \in DOMAIN here /\ more[i] = here[i]
                               \/ i = Len(here) + 1 /\ more[i] = w.dev
    BY <2>1
  <2> QED BY <1>6, <1>7, <2>2 DEF NoDuplicate
<1> HIDE DEF more
<1>9. InPlace'
  BY <1>1, <1>3, <1>4 DEF OInv, InPlace
<1>10. NodesOK'
  <2>1. \A m \in DOMAIN tree : m = w.node => NoDuplicate(tree'[m].devices)
    BY <1>1, <1>8
  <2>2. \A m \in DOMAIN tree : m # w.node => NoDuplicate(tree'[m].devices)
    BY <1>1 DEF OInv, NodesOK
  <2> QED BY <1>1, <2>1, <2>2 DEF NodesOK
<1>11. FoundOK(t)'
  BY <1>5 DEF FoundOK
<1>12. ASSUME NEW u \in Writer \ {t} PROVE FoundOK(u)'
  <2>1. writer'[u] = writer[u]
    BY OthersWait
  <2>2. writer[u] # Idle => writer[u].node \in DOMAIN tree
    BY DEF TInv, WritersOK, StandsOK
  <2>3. writer[u].at # "idle" => writer[u] # Idle
    BY DEF Idle
  <2>4. writer[u].at = "erase" => writer[u].slot \in DOMAIN tree[writer[u].node].devices
    BY <2>3 DEF OInv, FoundOK
  <2>5. \A n : Children(n)' = Children(n)
    BY <1>1 DEF Children, Grown
  <2>6. writer[u].at \in {"create", "back"} =>
          \A k \in Children(writer[u].node) : tree'[k].depth_id = tree[k].depth_id
    BY <1>1 DEF Children, Grown
  <2>7. writer[u].at = "append" /\ writer[u].node = w.node => KeyOf(w.dev) # KeyOf(writer[u].dev)
    BY <1>2, <2>3 DEF Crosses, w
  <2>8. writer[u].at = "append" =>
          \A d \in DevicesAt(writer[u].node)' :
            d \in DevicesAt(writer[u].node) \/ KeyOf(d) # KeyOf(writer[u].dev)
    <3>1. writer[u].at = "append" => DevicesAt(writer[u].node)' \subseteq
            DevicesAt(writer[u].node) \cup (IF writer[u].node = w.node THEN {w.dev} ELSE {})
      BY <1>1, <2>1, <2>2, <2>3 DEF DevicesAt
    <3> QED BY <2>7, <3>1
  <2>9. writer[u].at = "erase" =>
          /\ writer[u].slot \in DOMAIN tree'[writer[u].node].devices
          /\ tree'[writer[u].node].devices[writer[u].slot]
                = tree[writer[u].node].devices[writer[u].slot]
    <3>1. CASE writer[u].node = w.node
      <4>1. \A j \in DOMAIN here : j \in DOMAIN more /\ more[j] = here[j]
        BY <1>6, AppendProperties, LenProperties DEF more
      <4> QED BY <1>1, <2>4, <3>1, <4>1 DEF here
    <3>2. CASE writer[u].node # w.node
      BY <1>1, <2>2, <2>3, <2>4, <3>2
    <3> QED BY <3>1, <3>2
  <2> QED BY <1>3, <2>1, <2>5, <2>6, <2>8, <2>9, StillFound
<1> QED BY <1>3, <1>9, <1>10, <1>11, <1>12 DEF OInv

(* The invariant, until two threads cross. *)
LEMMA NextPlaces ==
  ASSUME TInv, crossed \/ OInv, [Next]_vars
  PROVE  (crossed \/ OInv)'
<1>1. ASSUME NEW t \in Writer, Insert(t)
      PROVE  (crossed \/ OInv)'
  <2>1. CASE crossed \/ Crosses(t)
    BY <1>1, <2>1 DEF Insert
  <2>2. CASE ~ crossed /\ ~ Crosses(t)
    BY <1>1, <2>2, BeginPlace, SearchPlace, CreatePlace, BackPlace, ScanPlace, ErasePlace,
       AppendPlace DEF Insert
  <2> QED BY <2>1, <2>2
<1>2. CASE UNCHANGED <<tree, writer, crossed>>
  <2>1. OInv => OInv'
    <3> SUFFICES ASSUME OInv PROVE OInv'
      OBVIOUS
    <3>1. /\ PlacesExist' /\ PlacesDiffer' /\ InPlace' /\ NodesOK'
          /\ \A u \in Writer : writer'[u] = writer[u] => FoundOK(u)'
      BY <1>2, TreeUntouched
    <3> QED BY <1>2, <3>1 DEF OInv
  <2> QED BY <1>2, <2>1
<1>3. CASE Look \/ Visit \/ Return \/ UNCHANGED vars
  BY <1>2, <1>3 DEF Look, Visit, Return, vars
<1> QED BY <1>1, <1>3 DEF Next

(* In the beginning. *)
LEMMA InitPlaces ==
  ASSUME Init
  PROVE  OInv
<1>1. /\ DOMAIN tree = {1} /\ tree[1].devices = <<>>
  BY DEF Init, Node
<1>2. TreeOK
  BY InitTypes DEF TInv
<1>3. PlacesExist
  <2> DEFINE f == [n \in DOMAIN tree |-> <<>>]
  <2>1. f = [n \in DOMAIN tree |->
               IF n = Root THEN <<>> ELSE Append(f[tree[n].parent], tree[n].depth_id)]
    BY <1>1 DEF Root
  <2> HIDE DEF f
  <2> QED BY <2>1 DEF PlacesExist
<1>4. place[1] = <<>>
  BY <1>2, <1>3, PlaceIs DEF Root
<1> HIDE DEF place
<1>5. PlacesDiffer
  BY <1>1, <1>4, EmptySeq DEF PlacesDiffer
<1>6. Range(<<>>) = {} /\ NoDuplicate(<<>>)
  BY DEF Range, NoDuplicate
<1>7. InPlace /\ NodesOK
  BY <1>1, <1>6 DEF InPlace, NodesOK, DevicesAt
<1>8. \A t \in Writer : FoundOK(t)
  BY DEF Init, FoundOK
<1> QED BY <1>3, <1>5, <1>7, <1>8 DEF OInv

(* A device is at the place of its address, however many threads insert,    *)
(* unless two of them have crossed: insertNode's walk, with the nodes it    *)
(* creates and goes on from, ends there (DevRepository.h, insertNode).      *)
THEOREM DevicesPlaced == Spec => []Placed
<1>1. Init => TInv /\ (crossed \/ OInv)
  BY InitTypes, InitPlaces
<1>2. TInv /\ (crossed \/ OInv) /\ [Next]_vars => (TInv /\ (crossed \/ OInv))'
  BY NextTypes, NextPlaces
<1>3. crossed \/ OInv => Placed
  BY DEF OInv, Placed
<1> QED BY <1>1, <1>2, <1>3, PTL DEF Spec

(* Two devices of the same key are the same: they are at the node of their  *)
(* address, and at a node there is no duplicate.                            *)
LEMMA OneOfEachKey ==
  ASSUME TInv, OInv, NEW d \in Devices, NEW e \in Devices, KeyOf(d) = KeyOf(e)
  PROVE  d = e
<1>1. PICK m \in DOMAIN tree : d \in DevicesAt(m)
  BY DEF Devices
<1>2. PICK n \in DOMAIN tree : e \in DevicesAt(n)
  BY DEF Devices
<1> HIDE DEF place
<1>3. d.address = place[m] /\ e.address = place[n] /\ d.address = e.address
  BY <1>1, <1>2 DEF OInv, InPlace, KeyOf
<1>4. m = n
  BY <1>3 DEF OInv, PlacesDiffer
<1>5. PICK i \in DOMAIN tree[m].devices : d = tree[m].devices[i]
  BY <1>1 DEF DevicesAt, Range
<1>6. PICK j \in DOMAIN tree[m].devices : e = tree[m].devices[j]
  BY <1>2, <1>4 DEF DevicesAt, Range
<1>7. NoDuplicate(tree[m].devices)
  BY DEF OInv, NodesOK
<1>8. i = j
  BY <1>5, <1>6, <1>7 DEF NoDuplicate
<1> QED BY <1>5, <1>6, <1>8

(* No two devices in the repository have the same key, however many threads *)
(* insert, unless two of them have crossed: insert() removes the older one  *)
(* before it adds the newer.                                                *)
THEOREM NoTwoOfAKey == Spec => []KeysUnique
<1>1. Init => TInv /\ (crossed \/ OInv)
  BY InitTypes, InitPlaces
<1>2. TInv /\ (crossed \/ OInv) /\ [Next]_vars => (TInv /\ (crossed \/ OInv))'
  BY NextTypes, NextPlaces
<1>3. TInv /\ (crossed \/ OInv) => KeysUnique
  <2> SUFFICES ASSUME TInv, OInv, NEW k \in Key
               PROVE  Cardinality(OfKey(k)) <= 1
    BY DEF KeysUnique
  <2>1. CASE OfKey(k) = {}
    <3>1. Cardinality(OfKey(k)) = 0
      BY <2>1, FS_EmptySet
    <3> QED BY <3>1
  <2>2. CASE OfKey(k) # {}
    <3>1. PICK d : d \in OfKey(k)
      BY <2>2
    <3>2. \A e \in OfKey(k) : e = d
      BY <3>1, OneOfEachKey DEF OfKey
    <3>3. OfKey(k) = {d}
      BY <3>1, <3>2
    <3>4. Cardinality(OfKey(k)) = 1
      BY <3>3, FS_Singleton
    <3> QED BY <3>4
  <2> QED BY <2>1, <2>2
<1> QED BY <1>1, <1>2, <1>3, PTL DEF Spec

-----------------------------------------------------------------------------
(* Until two threads cross, the repository is a map from keys to devices.   *)

MInv == TInv /\ OInv

(* A thread between the end of its scan and the end of its insert. *)
Registering(u, k) == writer[u].at \in {"erase", "append"} /\ KeyOf(writer[u].dev) = k

(* The greatest of a set of numbers. *)
LEMMA MaxIs ==
  ASSUME NEW S, S \subseteq Nat, NEW x \in S, \A y \in S : y <= x
  PROVE  Max(S) = x
<1>1. S # {} /\ x \in Nat
  OBVIOUS
<1>2. Max(S) \in S /\ \A y \in S : y <= Max(S)
  BY <1>1, MaxGreatest
<1>3. Max(S) \in Nat /\ x <= Max(S) /\ Max(S) <= x
  BY <1>2
<1> QED BY <1>1, <1>3

(* The stamps of the devices that are being registered. *)
LEMMA ComingIs ==
  ASSUME TInv, NEW k
  PROVE  /\ Coming(k) = {writer[u].dev.stamp : u \in {v \in Writer : Registering(v, k)}}
         /\ Coming(k) \subseteq 1..MaxInserts
<1>1. Coming(k) = {writer[u].dev.stamp : u \in {v \in Writer : Registering(v, k)}}
  BY DEF Coming, Registering
<1>2. ASSUME NEW u \in Writer, Registering(u, k)
      PROVE  writer[u].dev.stamp \in 1..MaxInserts
  <2>1. writer[u] \in Walk
    BY <1>2, InInsert DEF TInv, Registering
  <2> QED BY <2>1, WalkFields DEF Device
<1> QED BY <1>1, <1>2

(* The same after a step. *)
LEMMA ComingThen ==
  ASSUME NEW k
  PROVE  (TInv => Coming(k) \subseteq 1..MaxInserts)'
<1>1. TInv => Coming(k) \subseteq 1..MaxInserts
  BY ComingIs
<1> QED BY <1>1, PTL

(* A key that as many threads register as before. *)
LEMMA ComingStays ==
  ASSUME NEW k,
         \A u \in Writer : /\ Registering(u, k)' <=> Registering(u, k)
                           /\ Registering(u, k) => writer'[u].dev = writer[u].dev
  PROVE  Coming(k)' = Coming(k)
<1>1. {u \in Writer : writer'[u].at \in {"erase", "append"} /\ KeyOf(writer'[u].dev) = k}
        = {u \in Writer : Registering(u, k)}
  BY DEF Registering
<1>2. {u \in Writer : writer[u].at \in {"erase", "append"} /\ KeyOf(writer[u].dev) = k}
        = {u \in Writer : Registering(u, k)}
  BY DEF Registering
<1> QED BY <1>1, <1>2 DEF Coming

(* A key that as many threads register, and whose devices stay, keeps its   *)
(* latest device; while one registers it, its devices do not matter.        *)
LEMMA LatestStays ==
  ASSUME NEW k \in Key, Coming(k)' = Coming(k), Coming(k) # {} \/ OfKey(k)' = OfKey(k)
  PROVE  Latest'[k] = Latest[k]
BY DEF Latest

(* The devices of a key, in a tree whose devices stay. *)
LEMMA OfKeyStays ==
  ASSUME DOMAIN tree \subseteq DOMAIN tree',
         \A n \in DOMAIN tree : DevicesAt(n)' = DevicesAt(n),
         \A n \in DOMAIN tree' : n \notin DOMAIN tree => DevicesAt(n)' = {},
         NEW k
  PROVE  OfKey(k)' = OfKey(k)
<1>1. \A d : (\E n \in DOMAIN tree' : d \in DevicesAt(n)') <=> \E n \in DOMAIN tree : d \in DevicesAt(n)
  OBVIOUS
<1>2. Devices' = Devices
  BY <1>1 DEF Devices
<1> QED BY <1>2 DEF OfKey

(* Latest is a function of the keys. *)
LEMMA LatestAll ==
  ASSUME \A k \in Key : Latest'[k] = Latest[k]
  PROVE  UNCHANGED Latest
<1>1. Latest = [k \in Key |-> Latest[k]]
  BY DEF Latest
<1>2. Latest' = [k \in Key |-> Latest'[k]]
  BY DEF Latest
<1> QED BY <1>1, <1>2

(* The end of the scan for a duplicate is the registration. *)
LEMMA ScanRegisters ==
  ASSUME MInv, NEW t \in Writer, Scan(t)
  PROVE  Repository!MapNext
<1> DEFINE k == KeyOf(writer[t].dev)
<1>1. writer[t] \in Walk /\ writer[t] # Idle /\ writer[t].at = "scan" /\ UNCHANGED tree
  BY InInsert DEF Scan, MInv, TInv
<1>2. k \in Key
  BY <1>1, WalkFields
<1>3. writer'[t].at \in {"erase", "append"} /\ writer'[t].dev = writer[t].dev
  <2>1. \/ Goto(t, "append")
        \/ \E j \in Nat : writer' = [writer EXCEPT ![t] = [writer[t] EXCEPT !.at = "erase", !.slot = j]]
    BY ScanFinds DEF MInv
  <2>2. CASE Goto(t, "append")
    <3>1. "append" \in Walking /\ Grown
      BY <1>1, TreeStays DEF Walking, MInv, TInv
    <3> QED BY <1>1, <2>2, <3>1, GotoStands DEF MInv
  <2>3. CASE ~ Goto(t, "append")
    BY <1>1, <2>1, <2>3, EraseStands DEF MInv
  <2> QED BY <2>2, <2>3
<1>4. \A u \in Writer \ {t} : writer'[u] = writer[u]
  BY OthersWait DEF MInv
<1>5. \A m \in Key : OfKey(m)' = OfKey(m)
  BY <1>1, OfKeyStays DEF DevicesAt
<1>6. \A m \in Key : m # k => Latest'[m] = Latest[m]
  <2> SUFFICES ASSUME NEW m \in Key, m # k PROVE Latest'[m] = Latest[m]
    OBVIOUS
  <2>1. ~ Registering(t, m) /\ ~ Registering(t, m)'
    BY <1>1, <1>3 DEF Registering
  <2>2. \A u \in Writer : /\ Registering(u, m)' <=> Registering(u, m)
                          /\ Registering(u, m) => writer'[u].dev = writer[u].dev
    BY <1>4, <2>1 DEF Registering
  <2>3. Coming(m)' = Coming(m)
    BY <2>2, ComingStays
  <2> QED BY <1>5, <2>3, LatestStays
<1>7. Latest'[k] > 0
  <2>1. ASSUME NEW m, m = k
        PROVE  (TInv => Coming(m) \subseteq 1..MaxInserts)' /\ Coming(m)' # {}
    <3>1. writer'[t].dev.stamp \in Coming(m)'
      BY <1>3, <2>1 DEF Coming
    <3> QED BY <3>1, ComingThen
  <2>2. TInv'
    BY ScanStands DEF MInv
  <2>3. ASSUME NEW m \in Key, m = k
        PROVE  Latest'[m] > 0
    <3>1. Coming(m)' \subseteq 1..MaxInserts /\ Coming(m)' # {}
      BY <2>1, <2>2, <2>3
    <3>2. Latest'[m] = Max(Coming(m)')
      BY <3>1 DEF Latest
    <3>3. Max(Coming(m)') \in Coming(m)'
      BY <3>1, MaxGreatest, BoundAssumption
    <3> QED BY <3>1, <3>2, <3>3, BoundAssumption
  <2> QED BY <1>2, <2>3
<1> HIDE DEF k
<1>8. Latest' = [Latest EXCEPT ![k] = Latest'[k]]
  <2>1. Latest = [m \in Key |-> Latest[m]]
    BY DEF Latest
  <2>2. Latest' = [m \in Key |-> Latest'[m]]
    BY DEF Latest
  <2> QED BY <1>2, <1>6, <2>1, <2>2
<1> QED BY <1>2, <1>7, <1>8 DEF Repository!MapNext, Repository!Register

(* A walk that has not come to its scan registers nothing. *)
LEMMA WalkRegistersNothing ==
  ASSUME MInv, NEW t \in Writer, Begin(t) \/ Search(t) \/ Create(t) \/ Back(t)
  PROVE  UNCHANGED Latest
<1>1. \A n \in DOMAIN tree : DevicesAt(n)' = DevicesAt(n)
  BY CreateAdds DEF Begin, Search, Back, MInv, DevicesAt
<1>2. /\ DOMAIN tree \subseteq DOMAIN tree'
      /\ \A n \in DOMAIN tree' : n \notin DOMAIN tree => DevicesAt(n)' = {}
  <2>1. CASE Create(t)
    <3>1. /\ DOMAIN tree' = DOMAIN tree \cup {Len(tree) + 1}
          /\ tree'[Len(tree) + 1] = Node(writer[t].node, NextId(t))
      BY <2>1, CreateAdds DEF MInv
    <3>2. tree'[Len(tree) + 1].devices = <<>>
      BY <3>1 DEF Node
    <3>3. Range(<<>>) = {}
      BY DEF Range
    <3> QED BY <3>1, <3>2, <3>3 DEF DevicesAt
  <2>2. CASE ~ Create(t)
    BY <2>2 DEF Begin, Search, Back
  <2> QED BY <2>1, <2>2
<1>3. writer[t].at \in {"idle", "search", "create", "back"}
  BY DEF Begin, Search, Create, Back, Idle
<1>4. writer'[t].at \notin {"erase", "append"}
  <2>1. CASE Begin(t)
    BY <2>1 DEF Begin, MInv, TInv, WritersOK
  <2>2. ASSUME NEW p \in {"create", "back"}, Goto(t, p), writer[t] \in Walk
        PROVE  writer'[t].at = p
    BY <2>2 DEF Goto, MInv, TInv, WritersOK, Walk
  <2>3. ASSUME NEW n, Descend(t, n), writer[t] \in Walk
        PROVE  writer'[t].at \in {"scan", "search"}
    BY <2>3 DEF Descend, MInv, TInv, WritersOK, Walk
  <2>4. CASE Search(t)
    <3>1. Goto(t, "create") \/ \E n : Descend(t, n)
      BY <2>4 DEF Search
    <3> QED BY <2>2, <2>3, <2>4, <3>1, KeepsDevice DEF MInv
  <2>5. CASE Create(t)
    BY <2>2, <2>5, KeepsDevice DEF Create, MInv
  <2>6. CASE Back(t)
    BY <2>3, <2>6, KeepsDevice DEF Back, MInv
  <2> QED BY <2>1, <2>4, <2>5, <2>6
<1>5. \A u \in Writer \ {t} : writer'[u] = writer[u]
  BY OthersWait DEF MInv
<1>6. ASSUME NEW k \in Key PROVE Latest'[k] = Latest[k]
  <2>1. \A u \in Writer : /\ Registering(u, k)' <=> Registering(u, k)
                          /\ Registering(u, k) => writer'[u].dev = writer[u].dev
    BY <1>3, <1>4, <1>5 DEF Registering
  <2>2. Coming(k)' = Coming(k) /\ OfKey(k)' = OfKey(k)
    BY <1>1, <1>2, <2>1, ComingStays, OfKeyStays
  <2> QED BY <2>2, LatestStays
<1> QED BY <1>6, LatestAll

(* The removal of a duplicate is not seen: its successor is registered. *)
LEMMA EraseRegistersNothing ==
  ASSUME MInv, NEW t \in Writer, Erase(t)
  PROVE  UNCHANGED Latest
<1> DEFINE w == writer[t]
<1>1. /\ w \in Walk /\ w.node \in DOMAIN tree
      /\ DOMAIN tree' = DOMAIN tree
      /\ tree'[w.node].devices = Without(tree[w.node].devices, w.slot)
      /\ \A m \in DOMAIN tree : DevicesAt(m)' \subseteq DevicesAt(m)
      /\ \A m \in DOMAIN tree : m # w.node => tree'[m] = tree[m]
  BY EraseTakes DEF MInv
<1>2. \A d \in DevicesAt(w.node) : KeyOf(d) # KeyOf(w.dev) => d \in Range(tree'[w.node].devices)
  BY <1>1, EraseRemoves DEF MInv, DevicesAt
<1>3. w.at = "erase" /\ writer'[t].at = "append" /\ writer'[t].dev = w.dev
  BY <1>1 DEF Erase, Goto, MInv, TInv, WritersOK, Walk
<1>4. \A u \in Writer \ {t} : writer'[u] = writer[u]
  BY OthersWait DEF MInv
<1> HIDE DEF w
<1>5. ASSUME NEW k \in Key, k # KeyOf(w.dev)
      PROVE  OfKey(k)' = OfKey(k)
  <2>1. \A d \in Devices' : d \in Devices
    BY <1>1 DEF Devices
  <2>2. \A m \in DOMAIN tree : \A d \in DevicesAt(m) : KeyOf(d) = k => d \in Range(tree'[m].devices)
    <3> TAKE m \in DOMAIN tree
    <3>1. CASE m = w.node
      BY <1>2, <1>5, <3>1
    <3>2. CASE m # w.node
      BY <1>1, <3>2 DEF DevicesAt
    <3> QED BY <3>1, <3>2
  <2>3. \A d \in Devices : KeyOf(d) = k => d \in Devices'
    BY <1>1, <2>2 DEF Devices, DevicesAt
  <2> QED BY <2>1, <2>3 DEF OfKey
<1>6. ASSUME NEW k \in Key PROVE Latest'[k] = Latest[k]
  <2>1. \A u \in Writer : /\ Registering(u, k)' <=> Registering(u, k)
                          /\ Registering(u, k) => writer'[u].dev = writer[u].dev
    BY <1>3, <1>4 DEF Registering, w
  <2>2. Coming(k)' = Coming(k)
    BY <2>1, ComingStays
  <2>3. k = KeyOf(w.dev) => Coming(k) # {}
    BY <1>3 DEF Coming, w
  <2> QED BY <1>5, <2>2, <2>3, LatestStays
<1> QED BY <1>6, LatestAll

(* The device that is added is alone of its key, and so is the thread that  *)
(* adds it.                                                                 *)
LEMMA AppendAlone ==
  ASSUME MInv, NEW t \in Writer, ~ Crosses(t), AppendDevice(t)
  PROVE  /\ OfKey(KeyOf(writer[t].dev)) = {}
         /\ \A u \in Writer \ {t} : ~ Registering(u, KeyOf(writer[t].dev))
<1> DEFINE w == writer[t]
           k == KeyOf(w.dev)
<1>1. w # Idle /\ w.at = "append" /\ FoundOK(t) /\ w.node \in DOMAIN tree /\ w \in Walk
  BY InInsert, AppendPuts DEF MInv, TInv, OInv, AppendDevice
<1>2. place[w.node] = w.dev.address
  BY <1>1, AtThePlace DEF MInv
<1> HIDE DEF place
<1>3. ASSUME NEW d \in Devices, KeyOf(d) = k PROVE FALSE
  <2>1. PICK n \in DOMAIN tree : d \in DevicesAt(n)
    BY DEF Devices
  <2>2. place[n] = place[w.node]
    BY <1>2, <1>3, <2>1 DEF MInv, OInv, InPlace, KeyOf
  <2>3. n = w.node
    BY <1>1, <2>2 DEF MInv, OInv, PlacesDiffer
  <2> QED BY <1>1, <1>3, <2>1, <2>3 DEF FoundOK
<1>4. ASSUME NEW u \in Writer \ {t}, Registering(u, k) PROVE FALSE
  <2>1. writer[u].at \in {"erase", "append"} /\ KeyOf(writer[u].dev) = k
    BY <1>4 DEF Registering
  <2>2. writer[u] # Idle /\ FoundOK(u) /\ writer[u].node \in DOMAIN tree
    BY <2>1, InInsert DEF MInv, TInv, OInv, StandsOK
  <2>3. place[writer[u].node] = writer[u].dev.address
    BY <2>1, AtThePlace DEF MInv
  <2>4. writer[u].dev.address = w.dev.address
    BY <2>1 DEF KeyOf
  <2>5. writer[u].node = w.node
    BY <1>1, <1>2, <2>2, <2>3, <2>4 DEF MInv, OInv, PlacesDiffer
  <2>6. CASE writer[u].at = "append"
    BY <1>1, <2>1, <2>2, <2>5, <2>6 DEF Crosses
  <2>7. CASE writer[u].at = "erase"
    <3>1. /\ writer[u].slot \in DOMAIN tree[w.node].devices
          /\ KeyOf(tree[w.node].devices[writer[u].slot]) = k
      BY <2>1, <2>2, <2>5, <2>7 DEF FoundOK
    <3>2. tree[w.node].devices[writer[u].slot] \in DevicesAt(w.node)
      BY <3>1 DEF DevicesAt, Range
    <3> QED BY <1>1, <3>1, <3>2 DEF FoundOK
  <2> QED BY <2>1, <2>6, <2>7
<1> QED BY <1>3, <1>4 DEF OfKey

(* Nor is the end of an insert seen. *)
LEMMA AppendRegistersNothing ==
  ASSUME MInv, NEW t \in Writer, ~ Crosses(t), AppendDevice(t)
  PROVE  UNCHANGED Latest
<1> DEFINE w == writer[t]
<1>1. /\ w \in Walk /\ w.node \in DOMAIN tree
      /\ DOMAIN tree' = DOMAIN tree
      /\ \A m \in DOMAIN tree : DevicesAt(m)' =
           IF m = w.node THEN DevicesAt(m) \cup {w.dev} ELSE DevicesAt(m)
  BY AppendPuts DEF MInv
<1>2. w.at = "append" /\ writer'[t] = Idle
  BY DEF AppendDevice, MInv, TInv, WritersOK
<1>3. /\ OfKey(KeyOf(w.dev)) = {}
      /\ \A u \in Writer \ {t} : ~ Registering(u, KeyOf(w.dev))
  BY AppendAlone
<1>4. \A u \in Writer \ {t} : writer'[u] = writer[u]
  BY OthersWait DEF MInv
<1>5. w.dev.stamp \in 1..MaxInserts
  BY <1>1, WalkFields DEF Device
<1> HIDE DEF w
<1>6. Devices' = Devices \cup {w.dev}
  <2>1. \A d \in Devices' : d \in Devices \cup {w.dev}
    BY <1>1 DEF Devices
  <2>2. \A d \in Devices : d \in Devices'
    BY <1>1 DEF Devices
  <2>3. w.dev \in Devices'
    BY <1>1 DEF Devices
  <2> QED BY <2>1, <2>2, <2>3
<1>7. \A k : ~ Registering(t, k)'
  BY <1>2 DEF Registering, Idle
<1>8. ASSUME NEW k \in Key PROVE Latest'[k] = Latest[k]
  <2>1. CASE k = KeyOf(w.dev)
    <3>1. Coming(k) = {w.dev.stamp}
      <4>1. {u \in Writer : writer[u].at \in {"erase", "append"} /\ KeyOf(writer[u].dev) = k} = {t}
        BY <1>2, <1>3, <2>1 DEF Registering, w
      <4> QED BY <4>1 DEF Coming, w
    <3>2. Coming(k)' = {}
      BY <1>3, <1>4, <1>7, <2>1 DEF Coming, Registering
    <3>3. OfKey(k)' = {w.dev}
      BY <1>3, <1>6, <2>1 DEF OfKey
    <3>4. Latest[k] = w.dev.stamp
      <4>1. Max({w.dev.stamp}) = w.dev.stamp
        BY <1>5, MaxIs
      <4> QED BY <3>1, <4>1 DEF Latest
    <3>5. Latest'[k] = w.dev.stamp
      <4>1. {0} \cup {d.stamp : d \in OfKey(k)'} = {0, w.dev.stamp}
        BY <3>3
      <4>2. Max({0, w.dev.stamp}) = w.dev.stamp
        BY <1>5, MaxIs
      <4> QED BY <3>2, <4>1, <4>2 DEF Latest
    <3> QED BY <3>4, <3>5
  <2>2. CASE k # KeyOf(w.dev)
    <3>1. ~ Registering(t, k) /\ ~ Registering(t, k)'
      BY <1>7, <2>2 DEF Registering, w
    <3>2. \A u \in Writer : /\ Registering(u, k)' <=> Registering(u, k)
                            /\ Registering(u, k) => writer'[u].dev = writer[u].dev
      BY <1>4, <3>1 DEF Registering
    <3>3. OfKey(k)' = OfKey(k)
      BY <1>6, <2>2 DEF OfKey
    <3> QED BY <3>2, <3>3, ComingStays, LatestStays
  <2> QED BY <2>1, <2>2
<1> QED BY <1>8, LatestAll

(* However many threads insert, and until two of them cross, the repository *)
(* is a map from keys to devices: an insert registers its device when the   *)
(* scan for the older one ends, no other step is seen, and no key loses its *)
(* device (DeviceMap).                                                      *)
THEOREM ImplementsMap == Spec => RepositorySpec
<1>1. Init => TInv /\ (crossed \/ OInv)
  BY InitTypes, InitPlaces
<1>2. TInv /\ (crossed \/ OInv) /\ [Next]_vars => (TInv /\ (crossed \/ OInv))'
  BY NextTypes, NextPlaces
<1>3. Init => Repository!MapInit
  <2> SUFFICES ASSUME Init PROVE Repository!MapInit
    OBVIOUS
  <2>1. Devices = {}
    <3>1. \A n \in DOMAIN tree : Range(tree[n].devices) = {}
      <4>1. tree = <<Node(0, 0)>> /\ Node(0, 0).devices = <<>>
        BY DEF Init, Node
      <4>2. Range(<<>>) = {}
        BY DEF Range
      <4> QED BY <4>1, <4>2
    <3> QED BY <3>1 DEF Devices, DevicesAt
  <2>2. ASSUME NEW k \in Key PROVE Latest[k] = 0
    <3>1. Coming(k) = {} /\ OfKey(k) = {}
      BY <2>1 DEF Init, Coming, Idle, OfKey
    <3>2. {0} \cup {d.stamp : d \in OfKey(k)} = {0}
      BY <3>1
    <3>3. Max({0}) = 0
      BY MaxIs
    <3> QED BY <3>1, <3>2, <3>3 DEF Latest
  <2>3. Latest = [k \in Key |-> Latest[k]]
    BY DEF Latest
  <2> QED BY <2>2, <2>3 DEF Repository!MapInit
<1>4. TInv /\ (crossed \/ OInv) /\ [Next]_vars => [crossed' \/ Repository!MapNext]_Latest
  <2> SUFFICES ASSUME TInv, crossed \/ OInv, [Next]_vars, ~ crossed'
               PROVE  Repository!MapNext \/ UNCHANGED Latest
    OBVIOUS
  <2>1. ASSUME NEW t \in Writer, Insert(t)
        PROVE  Repository!MapNext \/ UNCHANGED Latest
    <3>1. ~ crossed /\ ~ Crosses(t)
      BY <2>1 DEF Insert
    <3> QED BY <2>1, <3>1, ScanRegisters, WalkRegistersNothing, EraseRegistersNothing,
               AppendRegistersNothing DEF Insert, MInv
  <2>2. CASE Look \/ Visit \/ Return \/ UNCHANGED vars
    <3>1. UNCHANGED <<tree, writer>>
      BY <2>2 DEF Look, Visit, Return, vars
    <3>2. \A k \in Key : OfKey(k)' = OfKey(k) /\ Coming(k)' = Coming(k)
      BY <3>1 DEF OfKey, Devices, DevicesAt, Coming
    <3> QED BY <3>2, LatestStays, LatestAll
  <2> QED BY <2>1, <2>2 DEF Next
<1> QED BY <1>1, <1>2, <1>3, <1>4, PTL DEF Spec, RepositorySpec
=============================================================================
